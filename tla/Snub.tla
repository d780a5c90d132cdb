-------------------------------- MODULE Snub --------------------------------
(***************************************************************************)
(* The object caches, mm/snub.c.  An object is the page it is in and its   *)
(* offset there; partial[i] is the free list of size class i, head first.  *)
(* The functions return the memory and the lists they leave behind.        *)
(***************************************************************************)
EXTENDS PageTable, Sequences

CONSTANTS SNUB_MIN_SHIFT, SNUB_MAX_SHIFT,
          VaPages             \* VA_OFFSET, in pages

ASSUME SnubAssumption ==
    /\ SNUB_MIN_SHIFT \in Nat /\ SNUB_MAX_SHIFT \in Nat
    /\ SNUB_MIN_SHIFT <= SNUB_MAX_SHIFT
    /\ PAGE_SIZE = 2^SNUB_MAX_SHIFT
    /\ VaPages \in Nat \ {0}

Classes == 0 .. SNUB_MAX_SHIFT - SNUB_MIN_SHIFT
object_size(i) == 2^(SNUB_MIN_SHIFT + i)

\* The arithmetic of the size classes, for the proofs.
ASSUME ObjectSizes == \A i \in Classes : object_size(i) \in 1 .. PAGE_SIZE

\* The smallest class that is large enough, or -1.
size_to_idx(size) ==
    LET fits == {i \in Classes : size <= object_size(i)} IN
    IF fits = {} THEN -1 ELSE Min(fits)

NoObj == [ppn |-> 0, off |-> 0]
VirtAddr(obj) == (obj.ppn + VaPages) * PAGE_SIZE + obj.off

\* The free list of a new page: its objects, the last one first.
NewList(ppn, i) ==
    LET n == PAGE_SIZE \div object_size(i) IN
    [k \in 1 .. n |-> [ppn |-> ppn, off |-> (n - k) * object_size(i)]]

\* PHYS_TO_VIRT of NULL is not NULL, so a failed alloc_page is not noticed and
\* the first write to the "page" faults, with the cache's lock taken.
kmalloc(m, partial, size, reach) ==
    LET i == size_to_idx(size)
        a == IF i = -1 THEN [st |-> "fail", ppn |-> 0, m |-> m]
             ELSE IF partial[i] # <<>> THEN [st |-> "ok", ppn |-> 0, m |-> m]
             ELSE alloc_page(m, reach)
        list == IF partial[i] # <<>> THEN partial[i] ELSE NewList(a.ppn, i)
    IN  IF i = -1 THEN [st |-> "fail", m |-> m, partial |-> partial, obj |-> NoObj]
        ELSE IF a.st # "ok" THEN [st |-> "fault", m |-> a.m, partial |-> partial, obj |-> NoObj]
        ELSE [st |-> "ok", m |-> a.m, partial |-> [partial EXCEPT ![i] = Tail(list)],
              obj |-> Head(list)]

\* The class kfree guesses: the distance is taken from the virtual address to
\* the physical page, so it is never below PAGE_SIZE and no class fits.
\* kfree then calls free_pages.
kfree_classes(obj) ==
    LET diff == VirtAddr(obj) - obj.ppn * PAGE_SIZE IN
    {i \in Classes : diff % object_size(i) = 0 /\ diff < PAGE_SIZE}
==============================================================================
