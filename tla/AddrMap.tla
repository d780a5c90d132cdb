------------------------------- MODULE AddrMap -------------------------------
(***************************************************************************)
(* What a page table promises: it is a partial map from virtual pages to   *)
(* translations that changes one page at a time, and a translation stays   *)
(* until that page is unmapped.  Process.tla implements this specification.*)
(***************************************************************************)
CONSTANTS VPages,    \* the virtual pages
          Entries,   \* the translations
          NoPte      \* no translation

VARIABLE map         \* map[v]: the translation of page v, or NoPte

Init == map = [v \in VPages |-> NoPte]

Map(v) ==
    /\ map[v] = NoPte
    /\ map'[v] \in Entries
    /\ map' = [map EXCEPT ![v] = map'[v]]

Unmap(v) == map[v] # NoPte /\ map' = [map EXCEPT ![v] = NoPte]

Next == \E v \in VPages : Map(v) \/ Unmap(v)

Spec == Init /\ [][Next]_map
==============================================================================
