--------------------------------- MODULE Boot ---------------------------------
(***************************************************************************)
(* The boot of every hart: entry.S, start.c, and the parts of proc.c,      *)
(* mm/mem.c and timer.h it calls, from reset to the state in which module  *)
(* Kernel takes over.  Hart 0 builds the memory system in M-mode while the *)
(* other harts spin on allocator_ready; then each hart enters S-mode with  *)
(* interrupts on and sets up its own queues, timer and process.            *)
(***************************************************************************)
EXTENDS Naturals, Sequences

CONSTANTS Harts,         \* the harts
          BootHart,      \* hart 0
          Shell,         \* the process shell_init creates
          Idle,          \* the idle process of a hart
          NoProc,        \* NULL
          SlowBoot       \* whether TIMER_INTERVAL may elapse between timer_init and the
                         \*   end of boot

ASSUME BootAssumption ==
    /\ BootHart \in Harts
    /\ Idle # Shell /\ NoProc \notin {Idle, Shell}
    /\ Shell \notin {"bare", "kernel"}    \* the other values of satp
    /\ SlowBoot \in BOOLEAN

VARIABLES
    allocator_ready,  \* the flag hart 0 sets for the others
    kernel_pagetable, \* "none", "empty" (allocated and cleared) or "built"
    caches,           \* whether snub_init has run
    va_offset,        \* whether PHYS_TO_VIRT adds VA_OFFSET
    shell_state,      \* "none" or the state of the shell
    satp,             \* satp[h]: "bare", "kernel" or Shell, the page table in use
    stvec,            \* stvec[h]: "none", "trap_vector" or "idle_trap_vector"
    sscratch,         \* sscratch[h]: whose trap frame it points to
    sepc,             \* sepc[h]: "reset", or "kernel" once a trap has been taken in the kernel
    queues,           \* queues[h]: whether both list heads of cpus[h] are initialised
    proc,             \* proc[h]: cpus[h].proc
    stip,             \* stip[h]: whether a timer interrupt is pending
    armed,            \* armed[h]: whether timer_init has written stimecmp
    pc                \* pc[h]: where the hart is

memVars == <<allocator_ready, kernel_pagetable, caches, va_offset>>
vars == <<memVars, shell_state, satp, stvec, sscratch, sepc, queues, proc, stip, armed, pc>>

\* M-mode first, S-mode from "s_mode_main" on.
MModePCs == {"start", "pagetable", "load", "snub", "ready", "delegate"}
SModePCs == {"s_mode_main", "timer_init", "idle_proc", "shell_init", "jump", "idle_loop"}
PCs == MModePCs \cup SModePCs \cup {"user", "wfi", "halt"}

Init ==
    /\ allocator_ready = 0
    /\ kernel_pagetable = "none"
    /\ caches = FALSE
    /\ va_offset = FALSE
    /\ shell_state = "none"
    /\ satp = [h \in Harts |-> "bare"]
    /\ stvec = [h \in Harts |-> "none"]
    /\ sscratch = [h \in Harts |-> NoProc]
    /\ sepc = [h \in Harts |-> "reset"]
    /\ queues = [h \in Harts |-> FALSE]
    /\ proc = [h \in Harts |-> NoProc]
    /\ stip = [h \in Harts |-> FALSE]
    /\ armed = [h \in Harts |-> FALSE]
    /\ pc = [h \in Harts |-> "start"]

Step(h, from, to) == pc[h] = from /\ pc' = [pc EXCEPT ![h] = to]

------------------------------------------------------------------------------
(* M-mode: start and mm_init.                                              *)

\* Hart 0: buddy_allocator_init, which also allocates kernel_pagetable.
BuddyInit(h) ==
    /\ h = BootHart /\ Step(h, "start", "pagetable")
    /\ kernel_pagetable' = "empty"
    /\ UNCHANGED <<allocator_ready, caches, va_offset, shell_state, satp, stvec, sscratch,
                   sepc, queues, proc, stip, armed>>

\* setup_kernel_pagetable.
SetupKernelPagetable(h) ==
    /\ Step(h, "pagetable", "load")
    /\ kernel_pagetable' = "built"
    /\ UNCHANGED <<allocator_ready, caches, va_offset, shell_state, satp, stvec, sscratch,
                   sepc, queues, proc, stip, armed>>

LoadPagetable(h) ==
    /\ Step(h, "load", "snub")
    /\ satp' = [satp EXCEPT ![h] = "kernel"]
    /\ UNCHANGED <<memVars, shell_state, stvec, sscratch, sepc, queues, proc, stip, armed>>

\* snub_init and the switch of PHYS_TO_VIRT to virtual addresses.
SnubInit(h) ==
    /\ Step(h, "snub", "ready")
    /\ caches' = TRUE
    /\ va_offset' = TRUE
    /\ UNCHANGED <<allocator_ready, kernel_pagetable, shell_state, satp, stvec, sscratch, sepc,
                   queues, proc, stip, armed>>

SetReady(h) ==
    /\ Step(h, "ready", "delegate")
    /\ allocator_ready' = 1
    /\ UNCHANGED <<kernel_pagetable, caches, va_offset, shell_state, satp, stvec, sscratch, sepc,
                   queues, proc, stip, armed>>

WaitReady_NoWait(h) ==
    /\ h # BootHart /\ Step(h, "start", "delegate")
    /\ satp' = [satp EXCEPT ![h] = "kernel"]
    /\ UNCHANGED <<memVars, shell_state, stvec, sscratch, sepc, queues, proc, stip, armed>>

\* The other harts: the last round of the wait for allocator_ready, and
\* load_pagetable.
WaitReady(h) ==
    /\ h # BootHart /\ Step(h, "start", "delegate")
    /\ allocator_ready = 1
    /\ satp' = [satp EXCEPT ![h] = "kernel"]
    /\ UNCHANGED <<memVars, shell_state, stvec, sscratch, sepc, queues, proc, stip, armed>>

\* Delegation, stvec, SIE and STIE, and the mret into s_mode_main.
EnterSMode(h) ==
    /\ Step(h, "delegate", "s_mode_main")
    /\ stvec' = [stvec EXCEPT ![h] = "trap_vector"]
    /\ UNCHANGED <<memVars, shell_state, satp, sscratch, sepc, queues, proc, stip, armed>>

------------------------------------------------------------------------------
(* S-mode: s_mode_main.                                                    *)

InitQueues_Skipped(h) ==
    /\ Step(h, "s_mode_main", "timer_init")
    /\ UNCHANGED <<memVars, shell_state, satp, stvec, sscratch, sepc, queues, proc, stip, armed>>

InitQueues(h) ==
    /\ Step(h, "s_mode_main", "timer_init")
    /\ queues' = [queues EXCEPT ![h] = TRUE]
    /\ UNCHANGED <<memVars, shell_state, satp, stvec, sscratch, sepc, proc, stip, armed>>

\* stimecmp is set to a time to come, so nothing is pending any more.
TimerInit(h) ==
    /\ Step(h, "timer_init", "idle_proc")
    /\ armed' = [armed EXCEPT ![h] = TRUE]
    /\ stip' = [stip EXCEPT ![h] = FALSE]
    /\ UNCHANGED <<memVars, shell_state, satp, stvec, sscratch, sepc, queues, proc>>

\* setup_idle_proc; the idle process of hart 0 is not its current process.
SetupIdleProc(h) ==
    /\ Step(h, "idle_proc", IF h = BootHart THEN "shell_init" ELSE "idle_loop")
    /\ proc' = [proc EXCEPT ![h] = IF h = BootHart THEN @ ELSE Idle]
    /\ UNCHANGED <<memVars, shell_state, satp, stvec, sscratch, sepc, queues, stip, armed>>

ShellInit_NoProc(h) ==
    /\ Step(h, "shell_init", "jump")
    /\ caches /\ kernel_pagetable = "built"
    /\ shell_state' = "RUNNING"
    /\ UNCHANGED <<memVars, satp, stvec, sscratch, sepc, queues, proc, stip, armed>>

\* shell_init: create_proc, which needs the caches and the kernel's page
\* table, then off the run queue again and current.
ShellInit(h) ==
    /\ Step(h, "shell_init", "jump")
    /\ caches /\ kernel_pagetable = "built"
    /\ shell_state' = "RUNNING"
    /\ proc' = [proc EXCEPT ![h] = Shell]
    /\ UNCHANGED <<memVars, satp, stvec, sscratch, sepc, queues, stip, armed>>

JumpToUserShell_NoScratch(h) ==
    /\ Step(h, "jump", "user")
    /\ satp' = [satp EXCEPT ![h] = proc[h]]
    /\ UNCHANGED <<memVars, shell_state, stvec, sscratch, sepc, queues, proc, stip, armed>>

\* jump_to_user_shell clears SIE with its first write; the sret goes to
\* whatever sepc holds.
JumpToUserShell(h) ==
    /\ Step(h, "jump", "user")
    /\ sscratch' = [sscratch EXCEPT ![h] = proc[h]]
    /\ satp' = [satp EXCEPT ![h] = proc[h]]
    /\ UNCHANGED <<memVars, shell_state, stvec, sepc, queues, proc, stip, armed>>

IdleLoop(h) ==
    /\ Step(h, "idle_loop", "wfi")
    /\ stvec' = [stvec EXCEPT ![h] = "idle_trap_vector"]
    /\ UNCHANGED <<memVars, shell_state, satp, sscratch, sepc, queues, proc, stip, armed>>

------------------------------------------------------------------------------
(* Timer interrupts during boot.                                           *)

\* TIMER_INTERVAL elapses.
TimerFires(h) ==
    /\ SlowBoot /\ armed[h] /\ ~stip[h]
    /\ stip' = [stip EXCEPT ![h] = TRUE]
    /\ UNCHANGED <<memVars, shell_state, satp, stvec, sscratch, sepc, queues, proc, armed, pc>>

\* trap_vector and timer_handle in the middle of s_mode_main.  The walk of a
\* sleep_queue that is not initialised follows a null pointer, and the trap
\* handler halts on that fault.  The interrupt is served whether or not there
\* is a current process.
TimerTrap(h) ==
    /\ pc[h] \in SModePCs /\ stip[h]
    /\ stip' = [stip EXCEPT ![h] = FALSE]
    /\ sepc' = [sepc EXCEPT ![h] = "kernel"]
    /\ pc' = [pc EXCEPT ![h] = IF queues[h] THEN @ ELSE "halt"]
    /\ UNCHANGED <<memVars, shell_state, satp, stvec, sscratch, queues, proc, armed>>

------------------------------------------------------------------------------
MMode(h) ==
    \/ BuddyInit(h) \/ SetupKernelPagetable(h) \/ LoadPagetable(h) \/ SnubInit(h)
    \/ SetReady(h) \/ WaitReady(h) \/ EnterSMode(h)

SMode(h) ==
    \/ InitQueues(h) \/ TimerInit(h) \/ SetupIdleProc(h) \/ ShellInit(h)
    \/ JumpToUserShell(h) \/ IdleLoop(h)

Next == \E h \in Harts : MMode(h) \/ SMode(h) \/ TimerTrap(h) \/ TimerFires(h)

Spec == Init /\ [][Next]_vars

\* A hart executes; interrupts slow it down but come one per TIMER_INTERVAL.
Fairness == \A h \in Harts : WF_vars(MMode(h)) /\ SF_vars(SMode(h))

FairSpec == Spec /\ Fairness

------------------------------------------------------------------------------
(* Correctness.                                                            *)

\* Type invariant.
TypeOK ==
    /\ allocator_ready \in {0, 1}
    /\ kernel_pagetable \in {"none", "empty", "built"}
    /\ caches \in BOOLEAN /\ va_offset \in BOOLEAN
    /\ shell_state \in {"none", "RUNNING"}
    /\ satp \in [Harts -> {"bare", "kernel", Shell}]
    /\ stvec \in [Harts -> {"none", "trap_vector", "idle_trap_vector"}]
    /\ sscratch \in [Harts -> {NoProc, Shell}]
    /\ sepc \in [Harts -> {"reset", "kernel"}]
    /\ queues \in [Harts -> BOOLEAN]
    /\ proc \in [Harts -> {NoProc, Idle, Shell}]
    /\ stip \in [Harts -> BOOLEAN] /\ armed \in [Harts -> BOOLEAN]
    /\ pc \in [Harts -> PCs]

\* "Wait for hart 0 to finish memory init": no hart translates addresses with,
\* or runs S-mode code on, a page table that hart 0 has not finished.
TableBeforeUse ==
    \A h \in Harts :
        satp[h] # "bare" \/ pc[h] \notin MModePCs =>
            kernel_pagetable = "built" /\ satp[h] # "bare"

\* The address of the user program's first instruction is sepc at the sret.
UserEntry(h) == sepc[h] = "reset"

Done == \A h \in Harts : pc[h] \in {"user", "wfi"}

\* The running kernel of module Kernel, as the boot code leaves it.
K == INSTANCE Kernel WITH
    Interval <- 1, MaxSleep <- 1,
    state <- [p \in {Shell} |-> shell_state],
    left <- [p \in {Shell} |-> 0],
    needs_sched <- [h \in Harts |-> 0],
    run_queue <- [h \in Harts |-> IF queues[h] THEN <<>> ELSE <<Shell>>],
    sleep_queue <- [h \in Harts |-> IF queues[h] THEN <<>> ELSE <<Shell>>],
    timer <- [h \in Harts |-> IF armed[h] /\ ~stip[h] THEN 1 ELSE 0],
    satp <- [h \in Harts |-> IF satp[h] = "kernel" THEN Idle ELSE satp[h]],
    sscratch <- [h \in Harts |-> IF sscratch[h] = NoProc THEN Idle ELSE sscratch[h]],
    thread <- [h \in Harts |-> IF pc[h] = "user" THEN proc[h] ELSE Idle],
    pos <- [h \in Harts |-> 1]

\* When every hart has booted, in whatever order, the system is in an initial
\* state of module Kernel: queues, processes, page tables, trap vectors and
\* trap frames are as the trap handlers expect them.
HandsOverToKernel == Done => K!Init

\* The inductive invariant behind these properties, in parts.

\* The positions before hart h has a page table, initialised queues, a timer.
Untranslated == {"start", "pagetable", "load"}
Unqueued == MModePCs \cup {"s_mode_main"}
Unarmed == Unqueued \cup {"timer_init"}

\* Which positions belong to hart 0 alone, and which to the others.
BootOnly == {"pagetable", "load", "snub", "ready", "shell_init", "jump", "user"}
OthersOnly == {"idle_loop", "wfi"}

\* What a hart has set up follows from where it is; in particular no timer
\* interrupt comes before its queues exist.
HartOK(h) ==
    /\ pc[h] # "halt"
    /\ pc[h] \in BootOnly => h = BootHart
    /\ pc[h] \in OthersOnly => h # BootHart
    /\ satp[h] = IF pc[h] \in Untranslated THEN "bare"
                 ELSE IF pc[h] = "user" THEN Shell ELSE "kernel"
    /\ stvec[h] = IF pc[h] \in MModePCs THEN "none"
                  ELSE IF pc[h] = "wfi" THEN "idle_trap_vector" ELSE "trap_vector"
    /\ sscratch[h] = IF pc[h] = "user" THEN Shell ELSE NoProc
    /\ proc[h] = IF pc[h] \in {"jump", "user"} THEN Shell
                 ELSE IF pc[h] \in OthersOnly THEN Idle ELSE NoProc
    /\ queues[h] <=> pc[h] \notin Unqueued
    /\ armed[h] <=> pc[h] \notin Unarmed
    /\ stip[h] => armed[h]

\* The same for what hart 0 builds for all; nobody passes it before the flag.
SharedOK ==
    /\ kernel_pagetable = IF pc[BootHart] = "start" THEN "none"
                          ELSE IF pc[BootHart] = "pagetable" THEN "empty" ELSE "built"
    /\ allocator_ready = 1 <=> pc[BootHart] \notin Untranslated \cup {"snub", "ready"}
    /\ shell_state = IF pc[BootHart] \in {"jump", "user"} THEN "RUNNING" ELSE "none"
    /\ \A h \in Harts \ {BootHart} : pc[h] # "start" => allocator_ready = 1

\* The inductive invariant: what every step of the boot preserves.
IInv == TypeOK /\ SharedOK /\ \A h \in Harts : HartOK(h)

\* Every hart finishes its boot.
AllHartsBoot == <>Done

\* "Jump to shell": the sret of jump_to_user_shell goes to the address that
\* create_proc chose, and not to where an interrupt hit the boot code.
ShellStartsAtEntry == \A h \in Harts : pc[h] = "user" => UserEntry(h)
==============================================================================
