------------------------------- MODULE MCTrap -------------------------------
(***************************************************************************)
(* Model checking module of Trap: with -O0, the Makefile's setting, the    *)
(* path of trap_handler that returns to idle_loop uses neither a1 nor a2.  *)
(***************************************************************************)
EXTENDS Trap
==============================================================================
