------------------------------ MODULE PageAlloc ------------------------------
(***************************************************************************)
(* What alloc_pages and free_pages promise: an allocation hands out a run  *)
(* of 2^order pages none of which is in use, and a block stays in use      *)
(* until it is freed.  Buddy.tla implements this specification.            *)
(***************************************************************************)
EXTENDS Naturals

CONSTANTS NumPages,   \* the number of pages
          MaxOrder    \* the largest order

VARIABLE owned        \* the blocks in use: sets of [idx, order] records

Blocks == [idx : 0 .. NumPages - 1, order : 0 .. MaxOrder]
PagesOf(b) == b.idx .. b.idx + 2^b.order - 1

Init == owned = {}

Alloc(b) ==
    /\ PagesOf(b) \subseteq 0 .. NumPages - 1
    /\ \A u \in owned : PagesOf(u) \cap PagesOf(b) = {}
    /\ owned' = owned \cup {b}

Free(b) ==
    /\ b \in owned
    /\ owned' = owned \ {b}

Next == \E b \in Blocks : Alloc(b) \/ Free(b)

Spec == Init /\ [][Next]_owned
==============================================================================
