-------------------------------- MODULE Buddy --------------------------------
(***************************************************************************)
(* The page allocator, mm/mem.c.  A page is its index in page_array; the   *)
(* chain of next pointers from free_lists[o] is a sequence, head first.    *)
(* Both operations run under buddy_lock, one step per round of their       *)
(* loops; a caller that runs into an endless error loop keeps the lock.    *)
(***************************************************************************)
EXTENDS Integers, Sequences, FiniteSets

CONSTANTS Callers,        \* the harts that call the allocator
          NumPages,       \* num_pages
          MaxOrder,       \* MAX_ORDER
          Base,           \* buddy_base_phys, in pages
          EntersSMode,    \* whether the harts go on to S-mode
          KernelMapped,   \* the pages below KERNEL_END, which kernel_pagetable maps
          RepeatedFrees,  \* the pages that a caller may free a second time
          NoCaller        \* buddy_lock is free

\* phys_end (USER_END) is aligned to the largest block; Base need not be.
ASSUME BuddyAssumption ==
    /\ NumPages \in Nat \ {0}
    /\ MaxOrder \in Nat
    /\ Base \in Nat
    /\ (Base + NumPages) % 2^MaxOrder = 0
    /\ EntersSMode \in BOOLEAN
    /\ KernelMapped \subseteq 0 .. NumPages - 1
    /\ RepeatedFrees \subseteq 0 .. NumPages - 1
    /\ NoCaller \notin Callers

\* The arithmetic of block sizes, for the proofs: a block of the next order is
\* twice as large.
ASSUME PowersOfTwo ==
    2^0 = 1 /\ \A o \in 0 .. MaxOrder : 2^o \in Nat \ {0} /\ 2^(o + 1) = 2 * 2^o

VARIABLES
    order,       \* order[i]: page_array[i].order
    is_free,     \* is_free[i]: page_array[i].is_free
    free_lists,  \* free_lists[o]: the pages chained from free_lists[o]
    va_offset,   \* whether the harts are in S-mode, on virtual addresses
    buddy_lock,  \* the caller that holds buddy_lock
    pc,          \* pc[c]: where caller c is
    arg,         \* arg[c]: the order asked for, or the order of the block being merged
    block,       \* block[c]: block_idx, or the page of addr in free_pages
    curr,        \* curr[c]: the order reached by the split loop
    owned,       \* the blocks in use (bookkeeping, not in the code)
    freed        \* the pages of RepeatedFrees that have been freed before (bookkeeping)

vars == <<order, is_free, free_lists, va_offset, buddy_lock, pc, arg, block, curr, owned, freed>>

Pages == 0 .. NumPages - 1
Orders == 0 .. MaxOrder
PCs == {"out", "alloc", "split", "zero", "free", "merge", "halt"}
Block(i, o) == [idx |-> i, order |-> o]
PagesOf(b) == b.idx .. b.idx + 2^b.order - 1
AllBlocks == [idx : Pages, order : Orders]

------------------------------------------------------------------------------
(* buddy_allocator_init.                                                   *)

\* The largest order whose block at page i is aligned and ends by phys_end.
InitOrder(i) ==
    CHOOSE o \in Orders :
        /\ o = 0 \/ (i + 2^o <= NumPages /\ (Base + i) % 2^o = 0)
        /\ \A q \in Orders : q > o => ~(i + 2^q <= NumPages /\ (Base + i) % 2^q = 0)

\* Where the loop starts block number k: where the previous block ended.
InitStart[k \in 0 .. NumPages] ==
    IF k = 0 THEN 0
    ELSE IF InitStart[k - 1] >= NumPages THEN NumPages
    ELSE InitStart[k - 1] + 2^InitOrder(InitStart[k - 1])

InitHeads == {InitStart[k] : k \in 0 .. NumPages} \cap Pages

\* A list filled from the front by the loop: the highest page comes first.
Descending(S) ==
    LET f[n \in 0 .. NumPages] ==       \* the pages of S below n
            IF n = 0 THEN <<>>
            ELSE IF n - 1 \in S THEN <<n - 1>> \o f[n - 1] ELSE f[n - 1]
    IN  f[NumPages]

Init ==
    /\ order = [i \in Pages |-> IF i \in InitHeads THEN InitOrder(i) ELSE 0]
    /\ is_free = [i \in Pages |-> i \in InitHeads]
    /\ free_lists = [o \in Orders |-> Descending({i \in InitHeads : InitOrder(i) = o})]
    /\ va_offset = FALSE
    /\ buddy_lock = NoCaller
    /\ pc = [c \in Callers |-> "out"]
    /\ arg = [c \in Callers |-> 0]
    /\ block = [c \in Callers |-> 0]
    /\ curr = [c \in Callers |-> 0]
    /\ owned = {}
    /\ freed = {}

\* In M-mode every physical address can be used.  In S-mode a page can be used
\* through PHYS_TO_VIRT if kernel_pagetable maps it, and no physical address can.
Reachable == IF va_offset THEN KernelMapped ELSE Pages
LowMapped == ~va_offset

\* The end of mm_init and of start: PHYS_TO_VIRT changes, M-mode ends.
EnterSMode ==
    /\ EntersSMode /\ ~va_offset
    /\ \A c \in Callers : pc[c] = "out"
    /\ va_offset' = TRUE
    /\ UNCHANGED <<order, is_free, free_lists, buddy_lock, pc, arg, block, curr, owned, freed>>

Goto(c, label) == pc' = [pc EXCEPT ![c] = label]

\* The call returns; its local variables are gone.
Return(c) ==
    /\ Goto(c, "out")
    /\ arg' = [arg EXCEPT ![c] = 0]
    /\ block' = [block EXCEPT ![c] = 0]
    /\ curr' = [curr EXCEPT ![c] = 0]

------------------------------------------------------------------------------
(* alloc_pages.                                                            *)

\* The call, up to spin_lock.
CallAlloc(c, o) ==
    /\ pc[c] = "out" /\ buddy_lock = NoCaller
    /\ buddy_lock' = c
    /\ arg' = [arg EXCEPT ![c] = o]
    /\ Goto(c, "alloc")
    /\ UNCHANGED <<order, is_free, free_lists, block, curr, owned, freed, va_offset>>

\* The smallest order from the one asked for up whose list is not empty.
Candidates(c) == {o \in Orders : o >= arg[c] /\ free_lists[o] # <<>>}

InUse_Kept(flag) == flag

\* "block_va->is_free = false"
InUse(flag) == FALSE

Popped_Kept(list) == list

\* "free_lists[o] = (page_t *)block_va->next"
Popped(list) == Tail(list)

AllocPop(c) ==
    /\ pc[c] = "alloc"
    /\ \E o \in Candidates(c) :
        /\ \A q \in Candidates(c) : o <= q
        /\ order' = [order EXCEPT ![Head(free_lists[o])] = arg[c]]
        /\ is_free' = [is_free EXCEPT ![Head(free_lists[o])] = InUse(@)]
        /\ free_lists' = [free_lists EXCEPT ![o] = Popped(@)]
        /\ block' = [block EXCEPT ![c] = Head(free_lists[o])]
        /\ curr' = [curr EXCEPT ![c] = o]
    /\ Goto(c, "split")
    /\ UNCHANGED <<buddy_lock, arg, owned, freed, va_offset>>

AllocFails_Retries(c) ==
    /\ pc[c] = "alloc" /\ Candidates(c) = {}
    /\ UNCHANGED vars

\* No block is large enough: unlock and return NULL.
AllocFails(c) ==
    /\ pc[c] = "alloc" /\ Candidates(c) = {}
    /\ buddy_lock' = NoCaller
    /\ Return(c)
    /\ UNCHANGED <<order, is_free, free_lists, owned, freed, va_offset>>

Pushed_Lost(list, b) == list

\* b goes to the front of the list.
Pushed(list, b) == <<b>> \o list

\* One round of the split loop: the upper half becomes a free block.  An upper
\* half beyond the last page is an endless loop.
AllocSplit(c) ==
    /\ pc[c] = "split" /\ curr[c] > arg[c]
    /\ LET b == block[c] + 2^(curr[c] - 1) IN
        IF b >= NumPages
        THEN Goto(c, "halt") /\ UNCHANGED <<order, is_free, free_lists, curr>>
        ELSE /\ order' = [order EXCEPT ![b] = curr[c] - 1]
             /\ is_free' = [is_free EXCEPT ![b] = TRUE]
             /\ free_lists' = [free_lists EXCEPT ![curr[c] - 1] = Pushed(@, b)]
             /\ curr' = [curr EXCEPT ![c] = @ - 1]
             /\ UNCHANGED pc
    /\ UNCHANGED <<buddy_lock, arg, block, owned, freed, va_offset>>

\* The split is done: unlock.  The block is the caller's from here on.
AllocUnlock(c) ==
    /\ pc[c] = "split" /\ curr[c] = arg[c]
    /\ buddy_lock' = NoCaller
    /\ owned' = owned \cup {Block(block[c], arg[c])}
    /\ Goto(c, "zero")
    /\ UNCHANGED <<order, is_free, free_lists, arg, block, curr, freed, va_offset>>

\* memset of the block, outside the lock, and the return.
AllocReturn(c) ==
    /\ pc[c] = "zero" /\ PagesOf(Block(block[c], arg[c])) \subseteq Reachable
    /\ Return(c)
    /\ UNCHANGED <<order, is_free, free_lists, buddy_lock, owned, freed, va_offset>>

\* memset meets a page that kernel_pagetable does not map: the trap handler
\* halts the hart.
AllocFaults(c) ==
    /\ pc[c] = "zero" /\ ~(PagesOf(Block(block[c], arg[c])) \subseteq Reachable)
    /\ Goto(c, "halt")
    /\ UNCHANGED <<order, is_free, free_lists, buddy_lock, arg, block, curr, owned, freed, va_offset>>

------------------------------------------------------------------------------
(* free_pages.                                                             *)

\* A block that a caller is still zeroing in alloc_pages.
BeingZeroed(b) == \E c \in Callers : pc[c] = "zero" /\ b = Block(block[c], arg[c])

\* The call for a block in use, up to spin_lock.
CallFree(c, b) ==
    /\ pc[c] = "out" /\ buddy_lock = NoCaller
    /\ b \in owned /\ ~BeingZeroed(b)
    /\ buddy_lock' = c
    /\ owned' = owned \ {b}
    /\ freed' = freed \cup ({b.idx} \cap RepeatedFrees)
    /\ block' = [block EXCEPT ![c] = b.idx]
    /\ Goto(c, "free")
    /\ UNCHANGED <<order, is_free, free_lists, arg, curr, va_offset>>

\* A second call for a block that has been freed and is not in use again.
CallFreeAgain(c, i) ==
    /\ pc[c] = "out" /\ buddy_lock = NoCaller
    /\ i \in freed
    /\ \A b \in owned : i \notin PagesOf(b)
    /\ buddy_lock' = c
    /\ block' = [block EXCEPT ![c] = i]
    /\ Goto(c, "free")
    /\ UNCHANGED <<order, is_free, free_lists, arg, curr, owned, freed, va_offset>>

\* free_pages follows the physical address of the page_t.
FreeFaults(c) ==
    /\ pc[c] = "free" /\ ~LowMapped
    /\ Goto(c, "halt")
    /\ UNCHANGED <<order, is_free, free_lists, buddy_lock, arg, block, curr, owned, freed, va_offset>>

\* The page is free already: unlock and return.
FreeIgnored(c) ==
    /\ pc[c] = "free" /\ LowMapped /\ is_free[block[c]]
    /\ buddy_lock' = NoCaller
    /\ Return(c)
    /\ UNCHANGED <<order, is_free, free_lists, owned, freed, va_offset>>

FreeBegin(c) ==
    /\ pc[c] = "free" /\ LowMapped /\ ~is_free[block[c]]
    /\ arg' = [arg EXCEPT ![c] = order[block[c]]]
    /\ is_free' = [is_free EXCEPT ![block[c]] = TRUE]
    /\ Goto(c, "merge")
    /\ UNCHANGED <<order, free_lists, buddy_lock, block, curr, owned, freed, va_offset>>

BuddyOf_Next(i, o) == i + 2^o

\* The index with bit o flipped.
BuddyOf(i, o) == IF (i \div 2^o) % 2 = 0 THEN i + 2^o ELSE i - 2^o

BelowMax_NoLimit(o) == TRUE

BelowMax(o) == o < MaxOrder

CanMerge_UpOnly(c) ==
    /\ arg[c] < MaxOrder
    /\ BuddyOf(block[c], arg[c]) > block[c] /\ BuddyOf(block[c], arg[c]) < NumPages
    /\ is_free[BuddyOf(block[c], arg[c])]
    /\ order[BuddyOf(block[c], arg[c])] = arg[c]

\* The loop goes on: the buddy is a free block of the same order.
CanMerge(c) ==
    /\ BelowMax(arg[c])
    /\ BuddyOf(block[c], arg[c]) < NumPages
    /\ is_free[BuddyOf(block[c], arg[c])]
    /\ order[BuddyOf(block[c], arg[c])] = arg[c]

Without_Kept(s, i) == s

\* The list without i: "while (*p && *p != buddy)" finds its place.
Without(s, i) ==
    IF \E k \in 1 .. Len(s) : s[k] = i
    THEN LET k == CHOOSE k \in 1 .. Len(s) : s[k] = i /\ \A j \in 1 .. k - 1 : s[j] # i
         IN  SubSeq(s, 1, k - 1) \o SubSeq(s, k + 1, Len(s))
    ELSE s

LowerOf_Kept(i, b) == i

\* "if ((ulong)addr > (ulong)buddy_addr) addr = buddy_addr"
LowerOf(i, b) == IF i > b THEN b ELSE i

FreeMerge(c) ==
    /\ pc[c] = "merge" /\ CanMerge(c)
    /\ LET b == BuddyOf(block[c], arg[c]) IN
        /\ free_lists' = [free_lists EXCEPT ![arg[c]] = Without(@, b)]
        /\ is_free' = [is_free EXCEPT ![b] = FALSE]
        /\ block' = [block EXCEPT ![c] = LowerOf(@, b)]
        /\ arg' = [arg EXCEPT ![c] = @ + 1]
    /\ UNCHANGED <<order, buddy_lock, pc, curr, owned, freed, va_offset>>

\* get_page_struct of a buddy beyond the last page is an endless loop.
FreeInvalidIdx(c) ==
    /\ pc[c] = "merge" /\ arg[c] < MaxOrder
    /\ BuddyOf(block[c], arg[c]) >= NumPages
    /\ Goto(c, "halt")
    /\ UNCHANGED <<order, is_free, free_lists, buddy_lock, arg, block, curr, owned, freed, va_offset>>

\* The loop ends: the merged block goes to the front of its list; unlock.
FreeUnlock(c) ==
    /\ pc[c] = "merge"
    /\ arg[c] = MaxOrder \/ (BuddyOf(block[c], arg[c]) < NumPages /\ ~CanMerge(c))
    /\ order' = [order EXCEPT ![block[c]] = arg[c]]
    /\ is_free' = [is_free EXCEPT ![block[c]] = TRUE]
    /\ free_lists' = [free_lists EXCEPT ![arg[c]] = Pushed(@, block[c])]
    /\ buddy_lock' = NoCaller
    /\ Return(c)
    /\ UNCHANGED <<owned, freed, va_offset>>

------------------------------------------------------------------------------
Call(c) ==
    \/ \E o \in Orders : CallAlloc(c, o)
    \/ \E b \in owned : CallFree(c, b)
    \/ \E i \in RepeatedFrees : CallFreeAgain(c, i)

Step(c) ==
    \/ AllocPop(c) \/ AllocFails(c) \/ AllocSplit(c) \/ AllocUnlock(c)
    \/ AllocReturn(c) \/ AllocFaults(c)
    \/ FreeFaults(c) \/ FreeIgnored(c) \/ FreeBegin(c)
    \/ FreeMerge(c) \/ FreeInvalidIdx(c) \/ FreeUnlock(c)

Next == EnterSMode \/ \E c \in Callers : Call(c) \/ Step(c)

Spec == Init /\ [][Next]_vars

\* A hart inside the allocator keeps executing.
FairSpec == Spec /\ \A c \in Callers : WF_vars(Step(c))

------------------------------------------------------------------------------
(* Correctness.                                                            *)

\* Type invariant.
TypeOK ==
    /\ order \in [Pages -> Orders]
    /\ is_free \in [Pages -> BOOLEAN]
    /\ free_lists \in [Orders -> Seq(Pages)]
    /\ va_offset \in BOOLEAN
    /\ buddy_lock \in Callers \cup {NoCaller}
    /\ pc \in [Callers -> PCs]
    /\ arg \in [Callers -> Orders]
    /\ block \in [Callers -> Pages]
    /\ curr \in [Callers -> Orders]
    /\ owned \subseteq AllBlocks
    /\ freed \subseteq RepeatedFrees

Listed == {b \in AllBlocks :
              \E k \in 1 .. Len(free_lists[b.order]) : free_lists[b.order][k] = b.idx}

\* No page is in two blocks: neither in two blocks in use, nor in two free
\* blocks, nor in one of each; and no block is twice in its list.
Disjoint ==
    /\ \A b, d \in Listed \cup owned : b # d => PagesOf(b) \cap PagesOf(d) = {}
    /\ Listed \cap owned = {}
    /\ \A o \in Orders : \A j, k \in 1 .. Len(free_lists[o]) :
          free_lists[o][j] = free_lists[o][k] => j = k

\* Whenever the lock is free, every page is in a block: no split or merge
\* loses a page.
NoLeak == buddy_lock = NoCaller => UNION {PagesOf(b) : b \in Listed \cup owned} = Pages

\* The flags that free_pages trusts are right at the first page of every
\* block, although the other pages of a block keep stale ones.
FlagsOK ==
    /\ \A b \in Listed : is_free[b.idx] /\ order[b.idx] = b.order
    /\ \A b \in owned : ~is_free[b.idx] /\ order[b.idx] = b.order

\* A free leaves no work behind, whatever the alignment of the first page: the
\* buddy of the block it puts in a list is not itself a free block of that
\* size, although the merge loop sees only flags, stale ones among them.
MergesFully ==
    [][\A c \in Callers : pc[c] = "merge" /\ buddy_lock' = NoCaller =>
          \A b \in Listed' \ Listed : b.order < MaxOrder =>
              Block(BuddyOf(b.idx, b.order), b.order) \notin Listed']_vars

\* A caller that never comes back has one of three reasons: memset met a page
\* that kernel_pagetable does not map, with the lock given back; free_pages ran
\* in S-mode; or, where the first page is not aligned to the largest block, the
\* buddy of the block being merged is beyond the last page.  The last two keep
\* the lock.  No caller ends in alloc_pages' own "buddy_idx out of bounds",
\* where the split loop is at an order above 0.
HaltReasons ==
    \A c \in Callers : pc[c] = "halt" =>
        \/ buddy_lock # c /\ ~(PagesOf(Block(block[c], arg[c])) \subseteq Reachable)
        \/ /\ buddy_lock = c /\ curr[c] = 0
           /\ \/ va_offset
              \/ Base % 2^MaxOrder # 0 /\ BuddyOf(block[c], arg[c]) >= NumPages

\* buddy_lock is always given back.
LockReleased == \A c \in Callers : (buddy_lock = c) ~> (buddy_lock # c)

\* The inductive invariant behind the properties above, in parts.

\* The block a caller that has the lock is working on, which is neither in a
\* list nor in use.
Works(c, b) ==
    \/ pc[c] = "split" /\ b = Block(block[c], curr[c])
    \/ pc[c] = "free" /\ ~is_free[block[c]] /\ b = Block(block[c], order[block[c]])
    \/ pc[c] = "merge" /\ b = Block(block[c], arg[c])

InHand == {b \in AllBlocks : \E c \in Callers : Works(c, b)}

\* All blocks of the allocator.
Held == Listed \cup owned \cup InHand

\* The blocks H end by phys_end, do not overlap, and leave no page out.
InRange(H) == \A b \in H : b.idx + 2^b.order <= NumPages
Apart(H) == \A b, d \in H : b = d \/ b.idx + 2^b.order <= d.idx \/ d.idx + 2^d.order <= b.idx
Covers(H) == \A p \in Pages : \E b \in H : b.idx <= p /\ p < b.idx + 2^b.order

\* The flag of a page inside a block, as flag and order o, is harmless: either
\* the page begins an upper half of a block larger than o, or it is an upper
\* half by its index, too, and no block behind it has it as a lower buddy.
Harmless(d, o, p) ==
    \/ (p - d.idx) % 2^(o + 1) = 0
    \/ (p - d.idx) % 2^o = 0 /\ (p \div 2^o) % 2 = 1

StaleOK(H, flags, orders) ==
    \A d \in H : \A p \in Pages :
        d.idx < p /\ p < d.idx + 2^d.order /\ flags[p] => Harmless(d, orders[p], p)

\* No block is in two places.
OnePlace ==
    /\ Listed \cap owned = {} /\ Listed \cap InHand = {} /\ owned \cap InHand = {}
    /\ \A o \in Orders : \A j, k \in 1 .. Len(free_lists[o]) :
          free_lists[o][j] = free_lists[o][k] => j = k

\* What a caller's place in the code says about its block.
CallerOK(c) ==
    /\ pc[c] \in {"alloc", "split", "free", "merge"} => buddy_lock = c
    /\ buddy_lock = c => pc[c] \in {"alloc", "split", "free", "merge", "halt"}
    /\ pc[c] = "split" =>
          arg[c] <= curr[c] /\ order[block[c]] = arg[c] /\ ~is_free[block[c]]
    /\ pc[c] = "merge" => order[block[c]] <= arg[c]

\* A caller that halts with the lock keeps its block.
HaltedInside == \E c \in Callers : buddy_lock = c /\ pc[c] = "halt"

\* The inductive invariant: every round of the split and merge loops keeps the
\* blocks apart, loses no page and leaves only harmless flags behind.
IInv ==
    /\ TypeOK
    /\ OnePlace
    /\ FlagsOK
    /\ \A c \in Callers : CallerOK(c)
    /\ InRange(Held) /\ Apart(Held) /\ StaleOK(Held, is_free, order)
    /\ HaltedInside \/ Covers(Held)

\* The allocator implements PageAlloc: it hands out only pages nobody uses.
A == INSTANCE PageAlloc
ImplementsPageAlloc == A!Spec
==============================================================================
