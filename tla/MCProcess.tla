------------------------------ MODULE MCProcess ------------------------------
(***************************************************************************)
(* Model checking module of Process: four entries per table, pages of      *)
(* four bytes, seven user pages (program 0 and 1, heap 2 to 4, guard 5,     *)
(* stack 6; the heap spans two level-0 tables).  Memory starts at page 6    *)
(* or 8, so that the proc_t does or does not share a table with the image,  *)
(* and ends anywhere from no page at all to plenty; the last pages are      *)
(* beyond KERNEL_END.                                                       *)
(***************************************************************************)
EXTENDS Process

MCImagePerm == [k \in 0 .. 1 |-> IF k = 0 THEN {"R", "X"} ELSE {"R", "W"}]
MCMemories == {6 .. hi : hi \in 5 .. 22} \cup {8 .. hi : hi \in 18 .. 21}
MCSbrkSizes == {-5, -4, 0, 1, 8, 12}
MCUnmapAddrs == {8, 12, 24, 9}
MCUnmapSizes == {0, 4, 7, Wrap - 16, Wrap - 14}
==============================================================================
