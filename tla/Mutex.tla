-------------------------------- MODULE Mutex --------------------------------
(***************************************************************************)
(* What a set of kernel locks promises to the code that uses them: a lock  *)
(* has at most one owner, it is granted only when nobody owns it, and only *)
(* its owner gives it back.  Spinlock.tla implements this specification.   *)
(***************************************************************************)
CONSTANTS Harts,    \* the harts that compete for the locks
          Locks,    \* the locks
          NoHart    \* the owner of a lock nobody holds

VARIABLE owner      \* owner[l]: the hart that holds l, or NoHart

Init == owner = [l \in Locks |-> NoHart]

Acquire(h, l) ==
    /\ owner[l] = NoHart
    /\ owner' = [owner EXCEPT ![l] = h]

Release(h, l) ==
    /\ owner[l] = h
    /\ owner' = [owner EXCEPT ![l] = NoHart]

Next == \E h \in Harts, l \in Locks : Acquire(h, l) \/ Release(h, l)

Spec == Init /\ [][Next]_owner
==============================================================================
