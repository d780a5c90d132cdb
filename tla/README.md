# SystemN: a TLA+ verification of the kernel

SystemN (`src/kernel/`) is a small RISC-V kernel: four harts boot in M-mode, drop
to S-mode, hart 0 starts one user process (the shell), the others idle. This
directory holds TLA+ models of its parts, the TLC configurations that check them
on small instances, and proofs, checked by TLAPS, for every size.

## 1. The system

| Part | Code | State | Operations | Interacts with |
|---|---|---|---|---|
| Spinlocks | `spinlock.c` | the lock word; per hart `lock_depth` and the `sstatus` saved by the outermost acquire | `spin_lock`, `spin_trylock`, `spin_unlock` | called by everything that prints or allocates; masks interrupts of its hart |
| Traps and timer | `trap/trap.c`, `trap/trap_vec.S`, `timer.h` | CSRs of the hart, the trap frame, `needs_sched` | `trap_vector`, `idle_trap_vector`, `trap_handler`, `syscall_handler`, `timer_handle` | entered by hardware; calls system calls and `schedule` |
| Scheduler | `sched.c`, `swtch.S`, `idle_loop` | per hart `proc`, `run_queue`, `sleep_queue`; per process `state`, `ctx` | `schedule`, `swtch`, `idle_loop` | changes `satp`, `stvec`, `sscratch` under running code |
| System calls | `syscall.c` | `sleep_until`, the heap bounds | write, read, sleep, yield, exit, getpid, sbrk, munmap | the queues, the page tables, the console |
| Page allocator | `mm/mem.c` | `page_array`, `free_lists`, `buddy_lock` | `buddy_allocator_init`, `alloc_pages`, `free_pages` | all memory comes from it; runs in M-mode at boot, in S-mode later |
| Object caches | `mm/snub.c` | one free list and lock per size class | `kmalloc`, `kzalloc`, `kfree` | takes pages from the allocator |
| Page tables | `mm/pagetable.c` | the tables themselves | `walk`, `map_page`, `unmap_page`, `free_pagetable`, `load_pagetable` | the allocator |
| Processes | `proc.c` | `proc_t` | `create_proc`, `free_proc` | caches, page tables, queues |
| Boot | `entry.S`, `start.c` | `allocator_ready`, `va_offset`, `kernel_pagetable` | `start`, `mm_init`, `s_mode_main`, `setup_idle_proc`, `shell_init`, `jump_to_user_shell` | builds all the others |
| Lists | `list.h` | `next`, `prev` | `list_add_tail`, `list_del`, ... | queues |
| Console, shell | `uart.c`, `shell.c`, `user.h` | none of their own | `uart_gets`, `uart_putsn`; the prompt loop | system calls |
| File system | `fs/` | inode and file tables | `vfs_*`, `ramfs_*` | nothing: it is not linked in |

What is hard here: a timer interrupt at any instruction that runs with SIE set,
which includes the first instructions of `spin_lock` and all of `s_mode_main`;
four harts on shared locks and one allocator; page table, trap vector and stack
that change in the middle of a function; the change from physical to virtual
addresses at the end of boot; a handler (`sys_read`) that may wait for as long as
the user likes with interrupts off. `PROJECT.json` lists these hazards one by one
under `hazards`, each at its line and with the properties that cover it.

What makes each part correct:

* *Locks.* Mutual exclusion; a holder cannot be interrupted; interrupts come back
  exactly when they should; no deadlock through nesting.
* *Traps, timer, scheduler.* Code runs with the page table, vector and frame that
  belong to it; a process is in the queue its state says; sleepers wake, not
  early and not late; the dead stay dead; nobody is lost.
* *Allocator.* No page in two blocks, none lost, free memory merges again, the
  lock is given back.
* *Page tables, caches, processes.* A page has one use at a time, also after a
  failure half-way; a process that can run has everything mapped that traps and
  switches need; the heap is what the break says; a call that reports success has
  done its work.
* *Trap vectors.* Interrupted code is resumed where and as it was; the handler runs
  on the right stack.
* *Console.* No buffer overruns although kernel and shell count differently; the
  shell echoes and obeys the line just typed and nothing older.
* *Boot.* No hart uses what another has not finished; every hart gets through; the
  result is the state the trap handlers rely on.

## 2. Modules

| Module | Models | Used by |
|---|---|---|
| `Mutex` | what locks promise (abstract) | refined by `Spinlock` |
| `Spinlock` | `spinlock.c` with its callers and interrupts | `MCSpinlock`, `SpinlockProofs` |
| `SpinlockProofs` | proofs about `Spinlock` | |
| `Kernel` | the running system: traps, timer, system calls, scheduler | `MCKernel`, `KernelProofs`, `Boot` |
| `KernelProofs` | proofs about `Kernel` | |
| `PageAlloc` | what the page allocator promises (abstract) | refined by `Buddy` |
| `Buddy` | `mm/mem.c` | `MCBuddy`, `BuddyProofs` |
| `BuddyProofs` | proofs about `Buddy` | |
| `NatFacts` | facts about natural numbers and loops, proved once | `SpinlockProofs`, `BuddyProofs`, `ProcessProofs` |
| `Boot` | `entry.S` and `start.c`; composed with `Kernel` | `MCBoot`, `BootProofs` |
| `BootProofs` | proofs about `Boot` | |
| `AddrMap` | what a page table promises (abstract) | refined by `Process` |
| `PageTable` | `mm/pagetable.c`, as functions on memory | `Snub` |
| `Snub` | `mm/snub.c`, as functions on memory and free lists | `Process` |
| `Process` | `create_proc`, `free_proc`, `shell_init`, `sys_sbrk`, `sys_munmap` | `MCProcess`, `ProcessProofs` |
| `ProcessProofs` | proofs about `Process`, `PageTable` and `Snub` | |
| `Trap` | registers, frames and stacks through `trap_vec.S` and `swtch.S` | `MCTrap`, `TrapProofs` |
| `TrapProofs` | proofs about `Trap` | |
| `Console` | `uart.c`, `sys_read`, `sys_write`, `user_copy.h`, `shell.c` | `MCConsole`, `ConsoleProofs` |
| `ConsoleProofs` | proofs about `Console` | |

The `MC*` modules only add names for model values and sets of numbers; the
constants get their values in the `.cfg` files. Definitions whose name has a
suffix after an underscore (`DecDepth_Twice`, `WaitReady_NoWait`, ...) are wrong
variants of the definition that follows: each is a plausible mistake in the code,
and `PROJECT.json` (`mutants`) says which property it violates.

### Spinlock

A lock is a number, its place in the nesting order of the call sites: cache lock
before `buddy_lock` (`kmalloc` calls `alloc_page`) before `uart_lock`
(`page_addr`). `CallLock`, `CallTrylock` and `CallUnlock` are the calls; the other
actions are the single accesses inside them (`TestDepth`, `SaveSstatus`,
`ClearSie`, `IncDepth`, `TestAndSet`, ...), because an interrupt can come between
any two of them. `Trap` and `TrapReturn` are what hardware and `trap_vector` do to
SIE and to the position in the interrupted code. `phase` follows a hart from
M-mode through `s_mode_main` to the running system. Who takes locks in which phase
(`LockTaker`) is taken from the call sites: during boot the interrupted thread
does and the only handler, a timer tick with an empty sleep queue, does not; later
user code and the idle loop do not, and handlers do. `held` and `failed` are
bookkeeping. No code in the repository calls `spin_trylock`, so the harts that may
are a constant, `TryHarts`.

### Kernel

One process, the shell, as `shell_init` creates it and nothing else calls
`create_proc`. Time is relative: `timer[h]` is the distance to the next interrupt,
`left[p]` to the wake-up time. A handler runs with SIE clear and touches only data
of its own hart, so it is cut into few steps (the rounds of `timer_handle`'s loop,
the label `end`, `schedule`, the start of `idle_loop`); time stands still in it
except in `sys_read`, which polls (`pc = "gets"`). User code may make any system
call at any time. `thread[h]` is whose code or kernel stack the hart executes on:
`swtch` changes it. Calls that cannot return are `FatalTrap`: `trap_handler` has
no way to kill a process, it loops. `sys_sbrk` and `sys_munmap` belong there when
they have work to do, as the page array and the page tables they touch are outside
the range `copy_kernel_mappings` maps into the caller's page table. The return
through `idle_trap_vector` assumes what holds for the Makefile's `-O0` build: that
`a1` and `a2` survive `trap_handler` when nobody was woken.

### Buddy

A page is its index in `page_array`; a free list is a sequence. Under
`buddy_lock`, one step per round of the split loop and of the merge loop. The
error loops (`pc = "halt"`) keep the lock, as in the code. Constants describe where
the allocator runs: `Base` is `buddy_base_phys` in pages, whose alignment decides
which blocks `buddy_allocator_init` creates and whether `buddy_of` agrees with
them; after `EnterSMode`, `free_pages`' physical pointers and the pages above
`KERNEL_END` cannot be accessed (`LowMapped`, `Reachable`). In the shipped kernel
only hart 0 allocates in M-mode, and nothing frees before S-mode, where every free
faults; the M-mode runs ask whether the algorithm is right where it can run.
`owned` is bookkeeping: the blocks in use; `freed` remembers which of
`RepeatedFrees` have been freed, for callers that free twice. `page_array` is
taken to be large enough (section 5).

### Boot

`satp`, `stvec`, `sscratch`, `sepc`, queues and current process of each hart, and
what hart 0 builds for all. A timer interrupt may come at any point of
`s_mode_main` once `timer_init` has run (`SlowBoot`); none is taken to be pending
out of reset, although the code, which sets SIE and STIE before the queues exist,
does nothing to ensure it. `create_proc` is taken to succeed (`Process` says what
happens when it does not). `Boot` is composed with `Kernel`:
`HandsOverToKernel` says that the final state, mapped to `Kernel`'s variables, is
one of `Kernel`'s initial states. The interrupted code is taken to be resumed with
its registers intact; what `trap_vector` does to `t0` and `t1` is in `Trap`.

### PageTable, Snub, Process

`PageTable` keeps the tables themselves: `m.tab[f]` is page `f` read as a table,
`m.free` what the allocator can hand out. `walk` descends two levels and allocates
on the way, so a mapping that fails can leave tables behind. `alloc_page` takes the
lowest free page: which one it is does not matter, `Buddy` has the choice. `Snub`
adds the free lists of the size classes. Both modules are functions that return the
memory they leave and one of `ok`, `fail` (NULL or -1) and `fault` (an access to
memory that is not mapped, which ends in one of `trap_handler`'s endless loops).

`Process` is `create_proc` as `shell_init` calls it, one step per allocation or
mapping, with a memory that runs out at any of them. It follows the shipped kernel:
the code runs in S-mode, where pages beyond `KERNEL_END` fault when they are
cleared, `PHYS_TO_VIRT(NULL)` passes the test for NULL, and everything that frees
memory faults or loops, so that each failure path ends in `halt`.
`copy_kernel_mappings` tolerates a page it cannot map; that `Complete` holds
nevertheless is due to the UART, mapped last and with a test.

The heap calls are different: a process's page table does not map the memory that
holds `page_array` and the tables, so in the shipped kernel every call with work to
do faults. The constant `KernelMapped` names this. With FALSE the model is the
shipped kernel; TRUE is an assumption: the page table maps the kernel's memory, and
at its physical addresses too, since `free_pages` follows physical pointers (run
`buddy_smode_free`) and succeeds in S-mode on no other condition. The loops of
`sys_sbrk` and `sys_munmap` then run, and the properties are about their logic. The
run has both, and `HeapCallsExact` says for FALSE that no call changes anything. Addresses of
`sys_munmap` are those of user pages: the code checks nothing, and unmapping the
kernel's own pages is a call whose consequences are not the subject here. `failed`
is bookkeeping: a growth that fails half-way keeps the pages it mapped and loses the
one it could not, so `OneUse` and `HeapMatchesBreak` promise less afterwards.

### Trap

`Kernel` says when traps and switches happen, `Trap` what they do to registers. A
value is a tuple naming who computed it; the registers are representatives (`t2`
stands for `t2` to `t6`, `s0` for `s0` to `s11`, ...). A stack address is a stack
and a number of frames, so that the kernel stack of the shell, the boot stack and
the reuse of the boot stack by the idle process are told apart. User code is taken
not to write `tp` or `gp`, as compiled code does not. `HandlerKeeps` is the
assumption that `a1` and `a2` survive `trap_handler` on the path that returns to
`idle_loop`: nothing in the calling convention says so, the `-O0` build does.
Without it `sepc` and `sstatus` would be leftovers of C code and `idle_loop` could
not be resumed at all.

### Console

Characters arrive at any time; one for which the receive FIFO has no room is lost.
`sys_read`'s buffer is new in each call and the shell's is not, so a short line is
followed by what is left of longer ones. The shell asks for 127 bytes with room for
126 behind its prompt. `uart_gets` reads at most one byte less than it is asked for,
so the line would just fit there; the limit `MAXLEN` of `sys_read` protects that
call's own buffer. `sys_write` of the prompt itself is taken to be accepted
(`prompt[]` is a local array on the user stack, inside user memory).

## 3. Runs

| Run | Instance | Shows |
|---|---|---|
| `spinlock` | 2 harts, 3 locks, one hart also uses `spin_trylock`, depth at most 3 before an attempt | the inductive invariant, mutual exclusion, masking, restoring, no underflow, no deadlock, the innermost lock is always released, refinement of `Mutex` |
| `kernel` | 2 harts, interval 3, sleeps 1 to 5 (and 0 and 6, refused) | queues, address spaces, wake-up times, the inductive invariant, liveness of sleepers |
| `kernel_yield` | the same | *violated:* a process that yields on an empty run queue is lost |
| `buddy` | 8 pages, orders 0 to 2, aligned, M-mode, a page freed twice | the inductive invariant, blocks disjoint, no page lost, flags right, no caller halts, liveness of the lock, refinement of `PageAlloc` |
| `buddy_smode` | 2 callers, 6 pages from page 2, orders 0 to 2, from M-mode to S-mode with 4 pages mapped | with a base that is not aligned, and up to the error loops and the faults of S-mode, no page is lost or handed out twice; every free merges fully; why a caller halts |
| `buddy_smode_free` | 4 pages, S-mode | *violated:* `free_pages` halts with the lock taken |
| `boot` | 3 harts | the inductive invariant, page table before use, hand-over to `Kernel`, every hart boots |
| `boot_entry` | 3 harts | *violated:* after an interrupt during boot the shell is not entered at its first instruction |
| `process` | 4 entries per table, 7 user pages, 3 of them heap, 22 sizes of memory from none to plenty | one use per page, completeness of a runnable process, heap and break, the heap calls change exactly the pages they are for, refinement of `AddrMap` |
| `trap` | hart 0, every interleaving of computing, interrupts, system calls and waking | interrupted code is resumed intact except `t0` and `t1`; the handler's stack, frame pointer, `tp` and SIE |
| `trap_registers` | the same | *violated:* `t0` and `t1` are not those of the interrupted code |
| `console` | 6 characters, lines of up to 3, a command of 2, a buffer at the end of user memory or below | buffer bounds, the echo is exact, the command is obeyed exactly when typed |

The violated properties state what a comment or the caller's code says;
`findings` in `PROJECT.json` quotes it. The type invariants of `Spinlock`,
`Kernel`, `Buddy` and `Boot` are part of the inductive invariant `IInv` that their
runs check.

**Bounds.** Two harts are enough for every pair of conflicting steps on a lock, and
the third lock gives the deepest nesting the kernel has. In `kernel`, a sleep can
be shorter than, equal to and longer than the interval; idle harts do not interact, so one is enough. In `buddy`, order 2
with two top blocks gives splits of two levels, merges of two levels, and a top
block that must not merge; six pages from page 2 give blocks of several orders
whose address alignment and index alignment disagree. In `boot`, two harts besides hart
0 race with it and with each other. In `process`, the heap
spans two level-0 tables, the last sizes of memory reach beyond `KERNEL_END`, the
`proc_t` does or does not share a table with the image, and arguments include 0,
sizes that are no multiple of a page, negative ones and ranges that wrap around. In
`trap`, two rounds of computing tell old register values from new ones. In
`console`, lines can be empty, full, unterminated and contain NULs, and the buffer
is longer than `MAXLEN`, as in the code; the FIFO holds one character, as the order
of typing and reading is all that matters. Bounds in guards are `MaxDepth` (failed
`spin_trylock` calls would raise `lock_depth` for ever) and `FifoSize`.

**Fairness.** Locks: a hart inside the lock code continues, handlers end and so do
critical sections (strong fairness, because a hart whose `lock_depth` a failed
`spin_trylock` has left raised can be interrupted there, and interrupts are an
interval apart); nothing makes a hart call. The waiting loop has weak fairness
only: it gives nobody a turn. So outer locks have no guarantee of release, and the
property claims only the innermost one. Kernel: the clock runs, pending interrupts are delivered, handlers
continue; neither system calls nor input are assumed. Buddy: a hart inside the
allocator continues. Boot: weak fairness for M-mode, where nothing interrupts;
strong fairness for S-mode, where interrupts come one per interval and leave the
hart time between them. Process, Trap and Console state safety only.

**Deadlock** is checked except in `boot`, which ends; in `buddy_smode` and
`buddy_smode_free`, where all callers may halt; in `process`, where failures halt;
and in `console`, where a shell that yields is lost (`kernel_yield`) and nobody
empties the FIFO any more.

## 4. Proofs

The theorems hold for every value of the constants that satisfies the assumption
named in the module that declares them:

| Assumption | Says |
|---|---|
| `SpinlockAssumption` | locks are finitely many natural numbers; `NoHart` is no hart |
| `KernelAssumption` | hart 0 is a hart; idle is not the shell; interval and longest sleep are positive |
| `BuddyAssumption` | there is at least one page; `PHYS_END`, where the last block ends, is aligned to the largest block; `KernelMapped` is a set of pages |
| `PowersOfTwo` | `2^0 = 1` and each power of two is twice the one before: the provers know nothing of `^`, TLC evaluates this |
| `BootAssumption` | hart 0 is a hart; idle, shell, no process and the values of `satp` are told apart |
| `PageTableAssumption`, `SnubAssumption` | tables and pages are not empty; the size classes end with a page |
| `PowersOfPteCount`, `ObjectSizes` | arithmetic of `^` again: the second and third power of `PTE_COUNT` are products, the size classes lie between 1 and a page |
| `ProcessAssumption` | the allocator's pages are neither page 0, nor the UART's, nor the kernel image's; the image is a run of pages; a `proc_t` fits a page |
| `LayoutAssumption` | what `mapping.h` and the linker script fix: user memory lies below the kernel's addresses in the range of a table and the program leaves room for the heap, the guard page and the stack; two pages have two kernel addresses; the UART lies under a root entry of its own (508 of 512, memory under 510, user memory under 0) |
| `ArgumentAssumption` | the argument of `sys_sbrk` is a `long` that `ALIGN_UP` does not overflow (beyond that the C code is undefined); that of `sys_munmap` is an address of user memory and its size less than `Wrap`, a multiple of the page size (2^64 in the code) |
| `TrapAssumption` | `a1` and `a2` are among `HandlerKeeps` (see *Trap* above) |
| `ConsoleAssumption` | prompt and command hold no NUL or line end; the command is shorter than `MAXLEN`, which fits the shell's buffer behind the prompt; the buffer lies in user memory |

*Spinlock.* `MutualExclusion` alone is not inductive: a release is only right if
the releasing call names a lock the hart holds, and restoring interrupts is only
right if `lock_depth` counts correctly. `IInv` adds, per hart: `LevelsOK` (which of
thread and handler can be in the lock code), `CallOK` (what a position says about
the call), `DepthOK` (`lock_depth` is the number of locks held, plus failed
attempts, plus or minus the step in progress, of the interrupted code too) and
`MaskOK` (SIE and the saved `sstatus` at every position). The heart of the argument
is the unprotected start of `spin_lock`, where an interrupt can hit between the test
of `lock_depth` and the clearing of SIE. Nothing overwrites the saved `sstatus` then:
during boot the handlers take no lock, and later only handlers do, with SIE clear.
Each action preserves the part of its own hart, and of the other harts by not
touching their state; the lemmas are organised that way. `MutualExclusion`,
`NoUnderflow`, `MaskedWhileHolding` and `InterruptsRestored` follow, and
`SpinlockImplementsMutex` shows that `TestAndSet`, `CompareExchange` and
`ClearLocked` are the abstract acquire and release and all else stutters.
`NoDeadlock` needs one more invariant, `Nested`: at every position of the lock code,
of the interrupted thread too, the lock asked for lies above all the locks its hart
holds. The holder of the greatest lock taken is then not waiting for any, so some
hart can go on.

*Kernel.* `IInv` says for each hart what its queues contain, given the state of the
shell, and what holds while the shell is current (`ShellOK`: in the window between a
system call and `schedule` it may be asleep or dead but never RUNNABLE) and while
idle is (`IdleOK`: `needs_sched` only after a wake-up); `LateOK` bounds the lateness
of a sleeper by the distance to the next tick. `AddressSpace`,
`QueuesMatchState` and `WakesOnTime` follow from it as invariants, `NoEarlyWake` and
`ZombieStaysDead` as properties of every step.

*Buddy.* `IInv` keeps the books: every block is in a free list, owned by a caller or
in the hand of the hart that holds `buddy_lock` (`Held`), blocks do not overlap, and
they cover all pages unless a caller has halted with the lock. `CallerOK` says what
each position of the split loop and the merge loop has in hand. The difficulty is
the flags: a block that is freed and merges downwards keeps its flag and order at a
page that is now inside a larger block, so `page_array` collects stale "free, order o"
entries, and the merge loop believes what it reads at the buddy's page. The invariant
bounds where such entries can be (`StaleOK`, `Harmless`), and the lemma `BuddyBegins` draws the conclusion: a page at which the loop
looks and whose entry says "free block of this order" is the first page of a listed
block of that order. Split and merge are then operations on sets of blocks
(`SplitBooks`, `MergeBooks`). The initial state is the result of the loop of
`buddy_allocator_init`; `LoopHistory` of `NatFacts` gives the states it goes
through, and `LoopInduction` carries the invariant along them.

All of this is for every base, aligned or not, before and after `EnterSMode`. Free
calls may be repeated for page 0 only (`RepeatedFrees \subseteq {0}`): page 0 is
never an upper half, no merge leaves it behind with its flag cleared, and the test
in `free_pages` catches the second call. For other pages it can miss it, a mistake no
caller in the kernel makes.

Two theorems say what a base that is only page aligned, as the code's is, does and
does not break. `MergesFully`: when `free_pages` gives the lock back, the block it has
listed is of the largest order or its buddy, as `buddy_of` computes it, is in no list
of that order; this follows from the way the loop ends and from `FlagsOK`.
`HaltReasons` lists all the ways a caller can fail to come back (`HaltOK` is its
inductive form): a page that is not mapped, a free in S-mode, or, only if the base is
not aligned to the largest block, a buddy beyond the last page. The last clause needs
`OnGrid`: with an aligned base, blocks lie on the grid of `buddy_of`. `ImplementsPageAlloc`:
the unlock of `alloc_pages` is the abstract allocation, the call of `free_pages` the
abstract free, all other steps stutter.

*Boot.* `HartOK` says that what a hart has set up follows from its position, `SharedOK`
that nobody has passed `allocator_ready` before hart 0 has set it and that the tables
are complete by then. `TableBeforeUse` follows, and so does `HandsOverToKernel`: a
state in which all harts have left the boot code satisfies `Kernel`'s `Init`, so the
theorems about `Kernel` start where those about `Boot` end.

*Trap.* The invariant says of every frame in memory that it holds what the interrupted
code expects to find, apart from `t0` and `t1` (`UserSaved`, `BootSaved`,
`IdleSaved`), where `sp`, `tp` and `sscratch` point while the handler runs
(`HandlerOK`), and what the saved context holds while its owner is switched out
(`SwitchOK`). `HandlerEnvironment` and, as a property of every step,
`ResumedIntact` follow.

*Console.* `PromptOK`, `KbufOK` and `LineOK` describe the shell's buffer, the buffer of
`sys_read` and how the two are related at each position; `InBounds`, `EchoExact` and
`YieldOnlyWhenTyped` follow, for all lengths of prompt, command, line and buffers.

*Process.* `IInv` has seven parts. `TypeInv` is the types. `TreeInv` says that the
tables are a tree: every entry of a table leads to a page that no other entry leads
to, so a write to one entry changes what lies below it and nothing else. `UsesInv`
is `OneUse` stated over the whole address space as a function, in a form to which
single pages can be added and from which they can be taken. `ProcInv` relates the
fields of the `proc_t` to the position in the code. `CreateInv` says for each step of
`create_proc` what is mapped by then, and nothing else; `RunInv` what stays mapped
while the process runs; `HeapInv` holds the loop invariants of the growth, the
shrinking and `sys_munmap`. `HeapCallsExact` adds `CallInv`: at each round, the pages
of the call below the loop's position are done and the range is the caller's
(`RangeEndExact`: rounding up its end adds no page). The lemmas go bottom up: what an entry written by
`Descend` does to the tree, what `walk`, `map_page`, `unmap_page` and `kmalloc` do to
tree, uses and address space (`WalkResult`, `MapResult`, `UnmapResult`,
`KmallocResult`), then one lemma per action and part of the invariant.

`Complete` is the interesting one. `copy_kernel_mappings` carries on when `map_page`
fails, so a page of the image may be missing. `KernelInv` says what is true then: no
page is free any more. The UART lies under a root entry that nothing has used before
(`UartEntry`), so mapping it needs two tables, fails, and `create_proc` halts. With a
UART in the same gigabyte as the kernel the argument, and the property, would break.
`PageTableImplementsAddrMap` follows from the same lemmas: each step either leaves
the address space or changes it at one page, from unmapped to an entry or back
(`OneChange`). The theorems hold for both values of `kernel_mapped`.

Induction over numbers is by the least counterexample (`LeastNat`), since the
library's induction rules cannot be instantiated by the installed provers.

Only model-checked: liveness (`InnermostReleased`, `SleepersWake`, `LockReleased`,
`AllHartsBoot`), which is beyond the prover. All other properties of the passing runs
are theorems.

## 5. Not modelled

* `fs/`: not in the Makefile's objects, and it does not compile. Types are declared
  as variables, names are used before they are declared or never declared
  (`RAMFS_MAX_FILES`), two functions are called `ramfs_create`, and `malloc`,
  `realloc` and `strtok` do not exist in the kernel. There is no behaviour to follow.
* `string.c`, the printing and dumping functions, bit layouts of PTEs and CSRs: no
  control of their own; they appear as their effect.
* The pointers of `list.h`: queues and free lists are sequences.
* The arithmetic that sizes `page_array`, in `buddy_allocator_init`: it depends on
  the layout of one linked image. `Buddy` takes the array to be large enough.
* A second process. Nothing creates one; `create_proc` leaves `ctx.ra` zero, so
  one that was queued could not be switched to.
* The list path of `kfree`: no address of S-mode passes its test (`kfree_classes`).
* The TLB: `load_pagetable` and `unmap_page` flush it, and a new mapping replaces
  none.
* Faults of hardware, and memory ordering weaker than the order of the accesses: the
  code uses acquire, release and full fences where harts communicate.

## 6. Plan

1. Done: `Mutex`, `Spinlock`, `Kernel`, `PageAlloc`, `Buddy`, `Boot`, and the proofs
   about `Spinlock` and `Kernel`.
2. Done: `AddrMap`, `PageTable`, `Snub`, `Process`, `Trap`, `Console`.
3. Done: proofs about `Buddy`, `Boot`, `Trap` and `Console`, and `NoDeadlock`.
4. Done: proofs about `Process`, with `PageTable` and `Snub`.
5. `List`: the pointers of `list.h` as a refinement of the sequences in `Kernel`.
6. The arithmetic that sizes `page_array`, over a set of layouts.
