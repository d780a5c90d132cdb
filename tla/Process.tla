------------------------------- MODULE Process -------------------------------
(***************************************************************************)
(* The shell's address space: create_proc and free_proc (proc.c) as        *)
(* shell_init calls them, then sys_sbrk and sys_munmap (syscall.c), on the *)
(* page tables of PageTable and the object caches of Snub.                 *)
(*                                                                         *)
(* create_proc runs on hart 0 in S-mode on kernel_pagetable, which maps    *)
(* memory up to KERNEL_END through PHYS_TO_VIRT and nothing at its         *)
(* physical address.  No other hart allocates, so a step is a call of the  *)
(* allocator, the caches or map_page.  "halt" stands for every endless     *)
(* loop: a fault ends in one of trap_handler's.                            *)
(***************************************************************************)
EXTENDS Snub

CONSTANTS
    UartPpn,        \* the page of UART0
    ImagePpn,       \* the first page of the kernel's image
    ImagePerm,      \* ImagePerm[k]: how kernel_pagetable maps page k of the image
    KernelEnd,      \* KERNEL_END, as a page number
    UserPages,      \* USER_END_VA, in pages
    Memories,       \* the sets of pages the allocator may start with
    PROC_SIZE,      \* sizeof(proc_t)
    BinarySize,     \* binary_size
    Wrap,           \* 2^64
    SbrkSizes,      \* the arguments user code may pass to sys_sbrk ...
    UnmapAddrs,     \* ... and to sys_munmap
    UnmapSizes,
    KernelMapped    \* a subset of BOOLEAN: whether a process's page table maps the kernel's
                    \*   memory, both through PHYS_TO_VIRT and, for the pointers free_pages
                    \*   follows, at its physical addresses.  copy_kernel_mappings stops at
                    \*   _kernel_end and maps nothing low, so FALSE; TRUE supposes a page
                    \*   table on which the heap calls get to do their work

ASSUME ProcessAssumption ==
    /\ BinarySize \in Nat \ {0} /\ PROC_SIZE \in 1 .. PAGE_SIZE
    /\ KernelMapped \subseteq BOOLEAN
    /\ \A M \in Memories :
          /\ M \subseteq Nat /\ 0 \notin M /\ UartPpn \notin M
          /\ \A k \in DOMAIN ImagePerm : ImagePpn + k \notin M
    /\ UartPpn \in Nat /\ ImagePpn \in Nat /\ UserPages \in Nat
    /\ 0 \in DOMAIN ImagePerm /\ DOMAIN ImagePerm \subseteq Nat
    /\ \A k \in DOMAIN ImagePerm :
          0 .. k \subseteq DOMAIN ImagePerm /\ ImagePerm[k] \in SUBSET {"R", "W", "X", "U"}

VARIABLES
    managed,        \* the pages of the allocator
    kernel_mapped,  \* a member of KernelMapped
    mem,            \* page tables and free pages
    partial,        \* the free lists of the caches
    p,              \* the proc_t; 0 and NoObj are NULL
    pc,             \* where hart 0 is
    va,             \* the loop variable va
    call,           \* the system call in progress
    ret,            \* what the last system call returned
    failed          \* whether alloc_page has returned NULL or a page out of reach (bookkeeping)

vars == <<managed, kernel_mapped, mem, partial, p, pc, va, call, ret, failed>>

ALIGN_UP(x) == ((x + PAGE_SIZE - 1) \div PAGE_SIZE) * PAGE_SIZE
USER_STACK_BASE == (UserPages - 1) * PAGE_SIZE
USER_HEAP_END == USER_STACK_BASE - PAGE_SIZE
ImagePages == DOMAIN ImagePerm
ImageVa(k) == (ImagePpn + VaPages + k) * PAGE_SIZE
UART0 == (UartPpn + VaPages) * PAGE_SIZE

\* Where PHYS_TO_VIRT(f) lies in the table's range of addresses.
KernelVPage(f) == (f + VaPages) % PTE_COUNT^3

\* The layout of mapping.h: user memory, with room for the program and a page
\* that is not mapped below the stack and behind it, lies below the kernel's
\* addresses; the UART lies apart, under an entry of the root of its own.
ASSUME LayoutAssumption ==
    /\ ALIGN_UP(BinarySize) <= USER_HEAP_END
    /\ UserPages < PTE_COUNT^3
    /\ \A M \in Memories :
          LET Used == M \cup {ImagePpn + k : k \in ImagePages} IN
          /\ \A f \in Used :
                /\ KernelVPage(f) > UserPages
                /\ KernelVPage(f) \div PTE_COUNT^2 # KernelVPage(UartPpn) \div PTE_COUNT^2
                /\ \A g \in Used : KernelVPage(f) = KernelVPage(g) => f = g
    /\ KernelVPage(UartPpn) \div PTE_COUNT^2 > UserPages \div PTE_COUNT^2

\* The arguments: for sys_sbrk a long which ALIGN_UP does not overflow, which
\* would be undefined; for sys_munmap an address of user memory (README,
\* section 2).
ASSUME ArgumentAssumption ==
    /\ Wrap \in Nat /\ Wrap % PAGE_SIZE = 0 /\ 2 * UserPages * PAGE_SIZE <= Wrap
    /\ \A size \in SbrkSizes : size \in Int /\ -Wrap <= 2 * size /\ 2 * (size + PAGE_SIZE) <= Wrap
    /\ UnmapAddrs \subseteq 0 .. UserPages * PAGE_SIZE /\ UnmapSizes \subseteq 0 .. Wrap - 1

NoCall == [op |-> "none", end |-> 0, brk |-> 0, addr |-> 0, size |-> 0]
NewProc == [obj |-> NoObj, pagetable |-> 0, kstack |-> NoObj, ustack |-> 0,
            heap_start |-> 0, heap_end |-> 0, state |-> "UNUSED"]

Init ==
    /\ managed \in Memories
    /\ kernel_mapped \in KernelMapped
    /\ mem = [tab |-> [f \in managed |-> EmptyTable], free |-> managed]
    /\ partial = [i \in Classes |-> <<>>]
    /\ p = NewProc
    /\ pc = "proc"
    /\ va = 0
    /\ call = NoCall
    /\ ret = 0
    /\ failed = FALSE

------------------------------------------------------------------------------
(* create_proc.                                                            *)

\* What kernel_pagetable maps, and what a system call can use.
KernelReach == {f \in managed : f < KernelEnd}

\* The end of a step: on to next, to the label fail1, or to an endless loop.
Outcome(r, next) ==
    /\ mem' = r.m
    /\ pc' = CASE r.st = "ok" -> next [] r.st = "fail" -> "fail1" [] r.st = "fault" -> "halt"
    /\ failed' = (failed \/ r.st # "ok")
    /\ UNCHANGED <<managed, kernel_mapped, call, ret>>

\* kzalloc of the proc_t.  A proc_t fits a size class, so it is never NULL.
AllocProc ==
    /\ pc = "proc"
    /\ LET r == kmalloc(mem, partial, PROC_SIZE, KernelReach) IN
        /\ p' = [p EXCEPT !.obj = r.obj]
        /\ partial' = r.partial
        /\ Outcome(r, "pagetable")
    /\ UNCHANGED va

AllocPagetable ==
    /\ pc = "pagetable"
    /\ LET r == alloc_page(mem, KernelReach) IN
        /\ p' = [p EXCEPT !.pagetable = r.ppn]
        /\ Outcome(r, "kstack")
    /\ UNCHANGED <<partial, va>>

AllocKstack ==
    /\ pc = "kstack"
    /\ LET r == kmalloc(mem, partial, PAGE_SIZE, KernelReach) IN
        /\ p' = [p EXCEPT !.kstack = r.obj]
        /\ partial' = r.partial
        /\ Outcome(r, "map_proc")
    /\ UNCHANGED va

MapInto(m, v, ppn, perm) == map_page(m, p.pagetable, v, ppn, perm, KernelReach)

MapProc ==
    /\ pc = "map_proc"
    /\ Outcome(MapInto(mem, VirtAddr(p.obj), p.obj.ppn, {"R", "W"}), "map_kstack")
    /\ UNCHANGED <<partial, p, va>>

\* Also the trap frame and ctx.sp.
MapKstack ==
    /\ pc = "map_kstack"
    /\ Outcome(MapInto(mem, VirtAddr(p.kstack), p.kstack.ppn, {"R", "W"}), "load")
    /\ va' = 0
    /\ UNCHANGED <<partial, p>>

\* alloc_page and, if there is a page, map_page.
AllocAndMap(v, perm) ==
    LET a == alloc_page(mem, KernelReach) IN
    IF a.st = "ok" THEN MapInto(a.m, v, a.ppn, perm) ELSE a

\* One round of the loop that loads the binary; remaining is BinarySize - va.
LoadPage ==
    /\ pc = "load" /\ va < BinarySize
    /\ Outcome(AllocAndMap(va, {"R", "X", "U"}), "load")
    /\ va' = va + PAGE_SIZE
    /\ UNCHANGED <<partial, p>>

\* The heap starts behind the binary; then the user stack.
AllocUstack ==
    /\ pc = "load" /\ va >= BinarySize
    /\ Outcome(AllocAndMap(USER_STACK_BASE, {"R", "W", "U"}), "kernel")
    /\ p' = [p EXCEPT !.heap_start = ALIGN_UP(va), !.heap_end = ALIGN_UP(va),
                      !.ustack = alloc_page(mem, KernelReach).ppn]
    /\ va' = ImageVa(0)
    /\ UNCHANGED partial

\* A page of the image that cannot be mapped is reported and left out.
Tolerated(r) == [r EXCEPT !.st = IF @ = "fail" THEN "ok" ELSE @]

\* One round of copy_kernel_mappings.
CopyKernelPage ==
    /\ pc = "kernel"
    /\ \E k \in ImagePages :
        /\ va = ImageVa(k)
        /\ Outcome(Tolerated(MapInto(mem, va, ImagePpn + k, ImagePerm[k])),
                   IF k + 1 \in ImagePages THEN "kernel" ELSE "uart")
    /\ va' = va + PAGE_SIZE
    /\ UNCHANGED <<partial, p>>

UartFailure_Ignored(r) == Tolerated(r)

\* "map_page() failed for UART, halting..."
UartFailure(r) == [r EXCEPT !.st = IF @ = "fail" THEN "fault" ELSE @]

MapUart ==
    /\ pc = "uart"
    /\ Outcome(UartFailure(MapInto(mem, UART0, UartPpn, {"R", "W"})), "queue")
    /\ UNCHANGED <<partial, p, va>>

\* RUNNABLE and into the run queue; back in shell_init out of it again, RUNNING.
QueueProc ==
    /\ pc = "queue"
    /\ p' = [p EXCEPT !.state = "RUNNABLE"]
    /\ pc' = "shell_init"
    /\ UNCHANGED <<managed, kernel_mapped, mem, partial, va, call, ret, failed>>

ShellInit ==
    /\ pc = "shell_init"
    /\ p' = [p EXCEPT !.state = "RUNNING"]
    /\ pc' = "user"
    /\ va' = 0
    /\ UNCHANGED <<managed, kernel_mapped, mem, partial, call, ret, failed>>

\* free_proc after a failure, up to the first thing it frees, which ends in an
\* endless loop: free_page of the user stack follows a physical pointer, as do
\* the free_pages that kfree falls back to when it finds no size class.
FreeProc ==
    /\ pc = "fail1"
    /\ CASE p.ustack # 0 -> mem' = mem
         [] p.ustack = 0 /\ p.pagetable # 0 -> mem' = free_pagetable(mem, p.pagetable).m
         [] OTHER -> kfree_classes(p.obj) = {} /\ mem' = mem
    /\ pc' = "halt"
    /\ UNCHANGED <<managed, kernel_mapped, partial, p, va, call, ret, failed>>

------------------------------------------------------------------------------
(* sys_sbrk and sys_munmap.                                                *)

Return(value) ==
    /\ pc' = "user"
    /\ ret' = value
    /\ va' = 0
    /\ call' = NoCall
    /\ UNCHANGED <<managed, kernel_mapped, partial>>

Refuse == Return(-1) /\ UNCHANGED <<mem, p, failed>>

BrkOK_NoGuard(new_brk) == p.heap_start <= new_brk /\ new_brk <= USER_STACK_BASE

BrkOK(new_brk) == p.heap_start <= new_brk /\ new_brk <= USER_HEAP_END

\* The call, up to its loops: a growth maps old_brk .. new_brk, anything else
\* unmaps new_brk .. old_brk, which may be nothing.
SysSbrk(size) ==
    LET old_brk == ALIGN_UP(p.heap_end)
        new_brk == (old_brk + ALIGN_UP(size)) % Wrap
    IN  /\ pc = "user"
        /\ IF size = 0 \/ ~BrkOK(new_brk) THEN Refuse
           ELSE /\ pc' = IF ALIGN_UP(size) > 0 THEN "grow" ELSE "shrink"
                /\ va' = IF ALIGN_UP(size) > 0 THEN old_brk ELSE new_brk
                /\ call' = [NoCall EXCEPT !.op = "sbrk", !.brk = new_brk,
                                          !.end = IF ALIGN_UP(size) > 0 THEN new_brk ELSE old_brk]
                /\ UNCHANGED <<managed, kernel_mapped, mem, partial, p, ret, failed>>

\* One round of the growth.  A failure returns at once: the pages mapped so
\* far stay, the break does not move, and a page that was allocated but could
\* not be mapped is lost.
GrowPage ==
    /\ pc = "grow" /\ va < call.end /\ kernel_mapped
    /\ LET a == alloc_page(mem, managed)
           r == IF a.st = "ok"
                THEN map_page(a.m, p.pagetable, va, a.ppn, {"R", "W", "U"}, managed) ELSE a
       IN  /\ mem' = r.m
           /\ failed' = (failed \/ r.st # "ok")
           /\ IF r.st = "ok"
              THEN va' = va + PAGE_SIZE
                   /\ UNCHANGED <<managed, kernel_mapped, partial, pc, call, ret>>
              ELSE Return(-1)
    /\ UNCHANGED p

\* One round of the shrinking; the result of unmap_page is ignored.
ShrinkPage ==
    /\ pc = "shrink" /\ va < call.end /\ kernel_mapped
    /\ mem' = unmap_page(mem, p.pagetable, va).m
    /\ va' = va + PAGE_SIZE
    /\ UNCHANGED <<managed, kernel_mapped, partial, p, pc, call, ret, failed>>

SbrkDone ==
    /\ pc \in {"grow", "shrink"} /\ va >= call.end
    /\ p' = [p EXCEPT !.heap_end = call.brk]
    /\ Return(ALIGN_UP(p.heap_end))
    /\ UNCHANGED <<mem, failed>>

RangeEnd_RoundedDown(addr, size) == ((addr + size) \div PAGE_SIZE) * PAGE_SIZE

\* The end is computed in 64 bits and may wrap around.
RangeEnd(addr, size) == ALIGN_UP((addr + size) % Wrap) % Wrap

SysMunmap(addr, size) ==
    /\ pc = "user"
    /\ IF size = 0 \/ addr % PAGE_SIZE # 0 THEN Refuse
       ELSE /\ pc' = "munmap"
            /\ va' = addr
            /\ call' = [NoCall EXCEPT !.op = "munmap", !.addr = addr, !.size = size,
                                      !.end = RangeEnd(addr, size)]
            /\ UNCHANGED <<managed, kernel_mapped, mem, partial, p, ret, failed>>

\* One round of the loop; it ends at the first page that is not mapped.
UnmapNext ==
    /\ pc = "munmap" /\ va < call.end /\ kernel_mapped
    /\ LET r == unmap_page(mem, p.pagetable, va) IN
        /\ mem' = r.m
        /\ IF r.st = "ok"
           THEN va' = va + PAGE_SIZE
                /\ UNCHANGED <<managed, kernel_mapped, partial, pc, call, ret>>
           ELSE Return(-1)
    /\ UNCHANGED <<p, failed>>

MunmapDone ==
    /\ pc = "munmap" /\ va >= call.end
    /\ Return(0)
    /\ UNCHANGED <<mem, p, failed>>

\* With the process's page table as it is, the first access to page_array or
\* to a table faults; only an allocator without a free page gets by.
HeapFault ==
    /\ pc \in {"grow", "shrink", "munmap"} /\ va < call.end /\ ~kernel_mapped
    /\ IF pc = "grow" /\ mem.free = {}
       THEN Return(-1) /\ failed' = TRUE
       ELSE pc' = "halt" /\ UNCHANGED <<managed, kernel_mapped, partial, va, call, ret, failed>>
    /\ UNCHANGED <<mem, p>>

------------------------------------------------------------------------------
CreateProc ==
    \/ AllocProc \/ AllocPagetable \/ AllocKstack \/ MapProc \/ MapKstack \/ LoadPage
    \/ AllocUstack \/ CopyKernelPage \/ MapUart \/ QueueProc \/ ShellInit \/ FreeProc

HeapStep == GrowPage \/ ShrinkPage \/ SbrkDone \/ UnmapNext \/ MunmapDone \/ HeapFault

Next ==
    \/ CreateProc \/ HeapStep
    \/ \E size \in SbrkSizes : SysSbrk(size)
    \/ \E addr \in UnmapAddrs, size \in UnmapSizes : SysMunmap(addr, size)

Spec == Init /\ [][Next]_vars

------------------------------------------------------------------------------
(* Correctness.                                                            *)

\* The address space as a map.
Mapped(v) == IF p.pagetable = 0 THEN NoPte ELSE Translation(mem, p.pagetable, v)
VPage(addr) == (addr \div PAGE_SIZE) % PTE_COUNT^3
UserVPages == 0 .. UserPages - 1

TablePages == IF p.pagetable = 0 THEN {} ELSE Tables(mem, p.pagetable)
ObjectPages ==
    ({p.obj.ppn, p.kstack.ppn} \ {0}) \cup
        UNION {{partial[i][k].ppn : k \in 1 .. Len(partial[i])} : i \in Classes}
UserFrames == {Mapped(v).ppn : v \in {u \in UserVPages : Mapped(u).v}}

\* A page has one use: free, a page table, a page of a cache or a page of the
\* user's, mapped at one address only.  This survives failures half-way
\* through create_proc and sys_sbrk, growing over pages that such a failure
\* left behind, and unmapping pages in the middle of the heap.  No page is lost
\* as long as no allocation has failed.
OneUse ==
    /\ TablePages \cap (ObjectPages \cup UserFrames \cup mem.free) = {}
    /\ ObjectPages \cap (UserFrames \cup mem.free) = {}
    /\ UserFrames \cap mem.free = {}
    /\ Cardinality(UserFrames) = Cardinality({v \in UserVPages : Mapped(v).v})
    /\ failed \/ managed \subseteq mem.free \cup TablePages \cup ObjectPages \cup UserFrames

\* A process that is RUNNABLE or RUNNING can take traps and be switched to:
\* its page table maps its proc_t, its kernel stack, the UART and every page of
\* the kernel's image, with the permissions of each, although
\* copy_kernel_mappings carries on when a page cannot be mapped.  When it is
\* queued the program and the stack are in place as well.
Complete ==
    p.state # "UNUSED" =>
        /\ Mapped(VPage(VirtAddr(p.obj))) = Pte(p.obj.ppn, {"R", "W"})
        /\ Mapped(VPage(VirtAddr(p.kstack))) = Pte(p.kstack.ppn, {"R", "W"})
        /\ Mapped(VPage(UART0)) = Pte(UartPpn, {"R", "W"})
        /\ \A k \in ImagePages : Mapped(VPage(ImageVa(k))) = Pte(ImagePpn + k, ImagePerm[k])
        /\ p.state = "RUNNABLE" =>
              /\ \A v \in UserVPages : v * PAGE_SIZE < BinarySize => Mapped(v).perm = {"R", "X", "U"}
              /\ Mapped(VPage(USER_STACK_BASE)) = Pte(p.ustack, {"R", "W", "U"})

\* The break stays inside the heap and the page below the stack is never
\* mapped.  Between calls nothing is mapped beyond the break, unless a growth
\* failed half-way, and what is mapped below it is the user's to read and write.
HeapMatchesBreak ==
    p.state = "RUNNING" =>
        /\ p.heap_start <= p.heap_end /\ p.heap_end <= USER_HEAP_END
        /\ ~Mapped(VPage(USER_HEAP_END)).v
        /\ pc = "user" =>
              \A v \in UserVPages :
                  v * PAGE_SIZE >= p.heap_start /\ v * PAGE_SIZE < USER_HEAP_END /\ Mapped(v).v =>
                      /\ failed \/ v * PAGE_SIZE < p.heap_end
                      /\ Mapped(v).perm = {"R", "W", "U"}

\* The pages a heap call is about: those between the old and the new break, or
\* the range given to sys_munmap, which is empty if its end wraps around.
InCall(v) ==
    LET a == v * PAGE_SIZE IN
    \/ /\ call.op = "sbrk"
       /\ (p.heap_end <= a /\ a < call.brk) \/ (call.brk <= a /\ a < p.heap_end)
    \/ /\ call.op = "munmap" /\ ALIGN_UP(call.addr + call.size) < Wrap
       /\ call.addr <= a /\ a < call.addr + call.size

\* The heap calls do what they report and nothing else.  From the first
\* instruction of the program on a translation changes only in a page that the
\* call in progress is about, and never with the page table copy_kernel_mappings
\* makes, on which the call faults instead.  When sys_munmap returns 0 its range
\* is unmapped; a range that wraps around is left untouched, and 0 is returned
\* all the same.  When the break moves, the pages it passed are all mapped or,
\* downwards, all unmapped.
HeapCallsExact ==
    [][/\ p.state = "RUNNING" =>
             \A v \in VPages : Mapped(v)' # Mapped(v) => kernel_mapped /\ InCall(v)
       /\ call.op = "munmap" /\ pc' = "user" /\ ret' = 0 =>
             \A v \in UserVPages : InCall(v) => ~Mapped(v)'.v
       /\ p.state = "RUNNING" /\ p.heap_end' # p.heap_end =>
             \A v \in UserVPages :
                 InCall(v) => (Mapped(v)'.v <=> p.heap_end < p.heap_end')]_vars

\* The page table implements AddrMap: every step, whatever tables it has to
\* allocate and wherever it fails, changes the translation of one page at most,
\* and never replaces a translation.
A == INSTANCE AddrMap WITH
    map <- [v \in VPages |-> Mapped(v)],
    Entries <- [v : {TRUE}, ppn : Nat, perm : SUBSET {"R", "W", "X", "U"}]
ImplementsAddrMap == A!Spec
==============================================================================
