------------------------------- MODULE MCKernel -------------------------------
(***************************************************************************)
(* Model checking module of Kernel: hart 0 with the shell and one hart     *)
(* that only idles.                                                        *)
(***************************************************************************)
EXTENDS Kernel

CONSTANTS h0, h1, shell, idle
==============================================================================
