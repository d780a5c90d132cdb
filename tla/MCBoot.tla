-------------------------------- MODULE MCBoot --------------------------------
(***************************************************************************)
(* Model checking module of Boot: hart 0 and two others.                   *)
(***************************************************************************)
EXTENDS Boot

CONSTANTS h0, h1, h2, shell, idle
==============================================================================
