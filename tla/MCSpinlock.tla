------------------------------ MODULE MCSpinlock ------------------------------
(***************************************************************************)
(* Model checking module of Spinlock: three locks, as deep as the kernel   *)
(* nests them (cache lock, buddy_lock, uart_lock).                         *)
(***************************************************************************)
EXTENDS Spinlock

CONSTANTS h1, h2

ThreeLocks == 1 .. 3
TwoLocks == 1 .. 2
==============================================================================
