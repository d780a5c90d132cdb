------------------------------ MODULE PageTable ------------------------------
(***************************************************************************)
(* Page tables, mm/pagetable.c, and the pages they take from and give back *)
(* to the page allocator.  Memory is a record: m.tab[f] is page f read as  *)
(* a table, m.free the pages alloc_page can hand out.  Pages are physical  *)
(* page numbers.  The functions of pagetable.c return the memory they      *)
(* leave behind, and st: "ok", "fail" (NULL or -1) or "fault" when they    *)
(* touch memory that is not mapped.                                        *)
(***************************************************************************)
EXTENDS Integers, FiniteSetsExt

CONSTANTS PTE_COUNT,   \* entries of a table
          PAGE_SIZE

ASSUME PageTableAssumption == PTE_COUNT \in Nat \ {0} /\ PAGE_SIZE \in Nat \ {0}

\* The arithmetic of the levels, for the proofs.
ASSUME PowersOfPteCount ==
    /\ PTE_COUNT^0 = 1 /\ PTE_COUNT^1 = PTE_COUNT /\ PTE_COUNT^2 = PTE_COUNT * PTE_COUNT
    /\ PTE_COUNT^3 = PTE_COUNT * PTE_COUNT * PTE_COUNT

Idx == 0 .. PTE_COUNT - 1
VPages == 0 .. PTE_COUNT^3 - 1

\* A PTE: v is PTE_V, ppn what PA2PTE stores, perm the bits of R, W, X and U.
\* perm = {} points to a table.
NoPte == [v |-> FALSE, ppn |-> 0, perm |-> {}]
Pte(ppn, perm) == [v |-> TRUE, ppn |-> ppn, perm |-> perm]
EmptyTable == [i \in Idx |-> NoPte]

vpn_level(va, level) == (va \div (PAGE_SIZE * PTE_COUNT^level)) % PTE_COUNT

\* alloc_page (Buddy): some free page, cleared through PHYS_TO_VIRT, which
\* faults outside reach.  Which page it is does not matter here, so it is the
\* lowest.
alloc_page(m, reach) ==
    IF m.free = {} THEN [st |-> "fail", ppn |-> 0, m |-> m]
    ELSE LET f == Min(m.free) IN
         [st |-> IF f \in reach THEN "ok" ELSE "fault", ppn |-> f,
          m |-> [tab |-> [m.tab EXCEPT ![f] = EmptyTable], free |-> m.free \ {f}]]

\* free_page (Buddy), where it can follow its physical pointers: in S-mode only
\* on a page table that maps memory at its physical addresses.
free_page(m, ppn) == [m EXCEPT !.free = @ \cup {ppn}]

\* One round of walk's loop: from table t through entry i to the next table.
Descend(m, t, i, alloc, reach) ==
    IF m.tab[t][i].v THEN [st |-> "ok", ppn |-> m.tab[t][i].ppn, m |-> m]
    ELSE IF ~alloc THEN [st |-> "fail", ppn |-> 0, m |-> m]
    ELSE LET a == alloc_page(m, reach) IN
         IF a.st # "ok" THEN a
         ELSE [a EXCEPT !.m.tab[t][i] = Pte(a.ppn, {})]

\* Levels 2 and 1; ppn is then the level-0 table, whose entry vpn_level(va, 0)
\* the code returns a pointer to.
walk(m, root, va, alloc, reach) ==
    LET l1 == Descend(m, root, vpn_level(va, 2), alloc, reach) IN
    IF l1.st # "ok" THEN l1 ELSE Descend(l1.m, l1.ppn, vpn_level(va, 1), alloc, reach)

Valid_Ignored(pte) == FALSE

\* *pte & PTE_V, the test of map_page.
Valid(pte) == pte.v

\* A page that is mapped already keeps its translation, and 0 is returned.
map_page(m, root, va, ppn, perm, reach) ==
    LET w == walk(m, root, va, TRUE, reach)
        i == vpn_level(va, 0)
    IN  IF w.st # "ok" \/ Valid(w.m.tab[w.ppn][i]) THEN w
        ELSE [w EXCEPT !.m.tab[w.ppn][i] = Pte(ppn, perm)]

Cleared_Kept(pte) == pte

\* *pte = 0
Cleared(pte) == NoPte

unmap_page(m, root, va) ==
    LET w == walk(m, root, va, FALSE, {})
        i == vpn_level(va, 0)
    IN  IF w.st # "ok" \/ ~m.tab[w.ppn][i].v THEN [st |-> "fail", m |-> m]
        ELSE [st |-> "ok", m |-> free_page([m EXCEPT !.tab[w.ppn][i] = Cleared(@)],
                                           m.tab[w.ppn][i].ppn)]

\* The tables below first.  free_page is given the virtual address of a table,
\* whose index is far beyond page_array: an endless loop at the first one.
free_pagetable(m, root) == [st |-> "fault", m |-> m]

------------------------------------------------------------------------------
(* What the hardware, and the properties, read from a table.               *)

\* The translation of virtual page v, as the hardware finds it.
Translation(m, root, v) ==
    LET l2 == m.tab[root][v \div (PTE_COUNT * PTE_COUNT)]
        l1 == m.tab[l2.ppn][(v \div PTE_COUNT) % PTE_COUNT]
    IN  IF l2.v /\ l1.v THEN m.tab[l1.ppn][v % PTE_COUNT] ELSE NoPte

\* The tables one level below those of T.
Below(m, T) == UNION {{m.tab[t][i].ppn : i \in {j \in Idx : m.tab[t][j].v}} : t \in T}
Tables(m, root) == LET l1 == Below(m, {root}) IN {root} \cup l1 \cup Below(m, l1)
==============================================================================
