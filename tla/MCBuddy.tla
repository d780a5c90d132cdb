------------------------------- MODULE MCBuddy -------------------------------
(***************************************************************************)
(* Model checking module of Buddy.                                         *)
(***************************************************************************)
EXTENDS Buddy

CONSTANTS c1, c2
==============================================================================
