-------------------------------- MODULE Kernel --------------------------------
(***************************************************************************)
(* The running kernel: timer interrupts, system calls and the scheduler    *)
(* (trap/trap.c, trap/trap_vec.S, timer.h, sched.c, swtch.S, the           *)
(* scheduling part of syscall.c, idle_loop of proc.c), from the moment the *)
(* boot code has finished.  One process exists, the shell that shell_init  *)
(* creates; every hart also has an idle process.                           *)
(*                                                                         *)
(* A trap handler runs with SIE clear and touches the data of its own hart *)
(* only, so a handler is cut into steps at its loop and at the label end,  *)
(* and time stands still inside it.  The one handler that can take long,   *)
(* sys_read polling the UART, is a place where time passes.                *)
(***************************************************************************)
EXTENDS Integers, Sequences

CONSTANTS Harts,      \* the harts
          BootHart,   \* hart 0, where the shell runs
          Shell,      \* the process shell_init creates
          Idle,       \* the idle process of a hart; also "no process" in a CSR
          Interval,   \* TIMER_INTERVAL, in clock ticks
          MaxSleep    \* MAX_SLEEP_MS, in clock ticks

ASSUME KernelAssumption ==
    /\ BootHart \in Harts
    /\ Idle # Shell
    /\ Interval \in Nat \ {0}
    /\ MaxSleep \in Nat \ {0}

Procs == {Shell}

VARIABLES
    state,        \* state[p]: p->state
    left,         \* left[p]: p->sleep_until minus the time
    proc,         \* proc[h]: cpus[h].proc
    needs_sched,  \* needs_sched[h]: cpus[h].needs_sched
    run_queue,    \* run_queue[h]: the processes of cpus[h].run_queue, head first
    sleep_queue,  \* sleep_queue[h]: the processes of cpus[h].sleep_queue
    timer,        \* timer[h]: stimecmp minus the time, 0 when the interrupt is pending
    satp,         \* satp[h]: whose page table the hart uses (Idle: kernel_pagetable)
    sscratch,     \* sscratch[h]: whose trap frame sscratch points to
    stvec,        \* stvec[h]: the trap vector
    thread,       \* thread[h]: whose code, or whose kernel stack, the hart executes on
    pos,          \* pos[h]: the place of timer_handle's cursor in sleep_queue
    pc            \* pc[h]: where the hart is

hartVars == <<satp, sscratch, stvec, thread>>
queueVars == <<run_queue, sleep_queue>>
vars == <<state, left, proc, needs_sched, queueVars, timer, hartVars, pos, pc>>

\* "user": user code; "wfi": idle_loop's loop; "walk": timer_handle's loop;
\* "gets": uart_gets; "end": trap_handler's label end; "entry": the start of
\* idle_loop; "halt": an endless loop of an error path.
PCs == {"user", "wfi", "walk", "gets", "end", "entry", "halt"}
States == {"RUNNABLE", "RUNNING", "SLEEPING", "ZOMBIE"}

\* The shell is in user mode on hart 0, the other harts are in idle_loop.
Init ==
    /\ state = [p \in Procs |-> "RUNNING"]
    /\ left = [p \in Procs |-> 0]
    /\ proc = [h \in Harts |-> IF h = BootHart THEN Shell ELSE Idle]
    /\ needs_sched = [h \in Harts |-> 0]
    /\ run_queue = [h \in Harts |-> <<>>]
    /\ sleep_queue = [h \in Harts |-> <<>>]
    /\ timer \in [Harts -> 0 .. Interval]
    /\ satp = proc
    /\ sscratch = proc
    /\ stvec = [h \in Harts |-> IF h = BootHart THEN "trap_vector" ELSE "idle_trap_vector"]
    /\ thread = proc
    /\ pos = [h \in Harts |-> 1]
    /\ pc = [h \in Harts |-> IF h = BootHart THEN "user" ELSE "wfi"]

Goto(h, label) == pc' = [pc EXCEPT ![h] = label]

------------------------------------------------------------------------------
(* Time.                                                                   *)

\* S-mode interrupts are taken in user mode, and in idle_loop, which sets SIE.
Interruptible(h) == pc[h] \in {"user", "wfi"}
Handling(h) == pc[h] \in {"walk", "end", "entry"}

\* A clock tick.  A handler, and the delivery of a pending interrupt, take no
\* time on this scale; only uart_gets does.
Tick ==
    /\ \A h \in Harts : ~Handling(h) /\ ~(Interruptible(h) /\ timer[h] = 0)
    /\ timer' = [h \in Harts |-> IF timer[h] > 0 THEN timer[h] - 1 ELSE 0]
    /\ left' = [p \in Procs |-> IF state[p] = "SLEEPING" THEN left[p] - 1 ELSE left[p]]
    /\ UNCHANGED <<state, proc, needs_sched, queueVars, hartVars, pos, pc>>

------------------------------------------------------------------------------
(* Trap entry and timer_handle.                                            *)

\* trap_vector, from user mode, continues on the stack sscratch points to;
\* idle_trap_vector stays on the idle stack.
EnterTrap(h) ==
    thread' = [thread EXCEPT ![h] = IF pc[h] = "user" THEN sscratch[h] ELSE @]

TimerTrap(h) ==
    /\ Interruptible(h)
    /\ timer[h] = 0
    /\ EnterTrap(h)
    /\ timer' = [timer EXCEPT ![h] = Interval]
    /\ pos' = [pos EXCEPT ![h] = 1]
    /\ Goto(h, "walk")
    /\ UNCHANGED <<state, left, proc, needs_sched, queueVars, satp, sscratch, stvec>>

Due_Early(p) == TRUE

Due_Late(p) == left[p] < 0

\* now >= p->sleep_until
Due(p) == left[p] <= 0

Without(s, i) == SubSeq(s, 1, i - 1) \o SubSeq(s, i + 1, Len(s))

WakeSleeper_NoQueue(h) ==
    /\ pc[h] = "walk" /\ pos[h] <= Len(sleep_queue[h])
    /\ LET p == sleep_queue[h][pos[h]] IN
        /\ Due(p)
        /\ sleep_queue' = [sleep_queue EXCEPT ![h] = Without(@, pos[h])]
        /\ state' = [state EXCEPT ![p] = "RUNNABLE"]
        /\ needs_sched' = [needs_sched EXCEPT ![h] = 1]
    /\ UNCHANGED <<left, proc, run_queue, timer, hartVars, pos, pc>>

\* A sleeper whose time has come moves to the run queue.
WakeSleeper(h) ==
    /\ pc[h] = "walk" /\ pos[h] <= Len(sleep_queue[h])
    /\ LET p == sleep_queue[h][pos[h]] IN
        /\ Due(p)
        /\ sleep_queue' = [sleep_queue EXCEPT ![h] = Without(@, pos[h])]
        /\ state' = [state EXCEPT ![p] = "RUNNABLE"]
        /\ run_queue' = [run_queue EXCEPT ![h] = Append(@, p)]
        /\ needs_sched' = [needs_sched EXCEPT ![h] = 1]
    /\ UNCHANGED <<left, proc, timer, hartVars, pos, pc>>

SkipSleeper(h) ==
    /\ pc[h] = "walk" /\ pos[h] <= Len(sleep_queue[h])
    /\ ~Due(sleep_queue[h][pos[h]])
    /\ pos' = [pos EXCEPT ![h] = @ + 1]
    /\ UNCHANGED <<state, left, proc, needs_sched, queueVars, timer, hartVars, pc>>

EndWalk(h) ==
    /\ pc[h] = "walk" /\ pos[h] > Len(sleep_queue[h])
    /\ Goto(h, "end")
    /\ UNCHANGED <<state, left, proc, needs_sched, queueVars, timer, hartVars, pos>>

------------------------------------------------------------------------------
(* System calls (syscall_handler) and the other traps of user code.        *)

\* SYS_yield.
SysYield(h) ==
    /\ pc[h] = "user"
    /\ EnterTrap(h)
    /\ needs_sched' = [needs_sched EXCEPT ![h] = 1]
    /\ Goto(h, "end")
    /\ UNCHANGED <<state, left, proc, queueVars, timer, satp, sscratch, stvec, pos>>

\* SYS_sleep_ms: a time out of range is refused, but the caller is
\* rescheduled all the same.
SysSleep(h, ms) ==
    /\ pc[h] = "user"
    /\ EnterTrap(h)
    /\ IF ms = 0 \/ ms > MaxSleep
       THEN UNCHANGED <<state, left, sleep_queue>>
       ELSE /\ state' = [state EXCEPT ![proc[h]] = "SLEEPING"]
            /\ sleep_queue' = [sleep_queue EXCEPT ![h] = Append(@, proc[h])]
            /\ left' = [left EXCEPT ![proc[h]] = ms]
    /\ needs_sched' = [needs_sched EXCEPT ![h] = 1]
    /\ Goto(h, "end")
    /\ UNCHANGED <<proc, run_queue, timer, satp, sscratch, stvec, pos>>

SysExit_Queued(h) ==
    /\ pc[h] = "user"
    /\ EnterTrap(h)
    /\ state' = [state EXCEPT ![proc[h]] = "ZOMBIE"]
    /\ sleep_queue' = [sleep_queue EXCEPT ![h] = Append(@, proc[h])]
    /\ needs_sched' = [needs_sched EXCEPT ![h] = 1]
    /\ Goto(h, "end")
    /\ UNCHANGED <<left, proc, run_queue, timer, satp, sscratch, stvec, pos>>

\* SYS_exit.
SysExit(h) ==
    /\ pc[h] = "user"
    /\ EnterTrap(h)
    /\ state' = [state EXCEPT ![proc[h]] = "ZOMBIE"]
    /\ needs_sched' = [needs_sched EXCEPT ![h] = 1]
    /\ Goto(h, "end")
    /\ UNCHANGED <<left, proc, queueVars, timer, satp, sscratch, stvec, pos>>

\* SYS_read with a line to wait for: uart_gets polls with SIE clear.
SysRead(h) ==
    /\ pc[h] = "user"
    /\ EnterTrap(h)
    /\ Goto(h, "gets")
    /\ UNCHANGED <<state, left, proc, needs_sched, queueVars, timer, satp, sscratch, stvec, pos>>

\* The line is complete.
UartLine(h) ==
    /\ pc[h] = "gets"
    /\ Goto(h, "end")
    /\ UNCHANGED <<state, left, proc, needs_sched, queueVars, timer, hartVars, pos>>

\* SYS_write, SYS_getpid, an unknown number, and every call refused for its
\* arguments (SYS_sleep_ms excepted): only the caller's a0 changes.
SysReturn(h) ==
    /\ pc[h] = "user"
    /\ EnterTrap(h)
    /\ Goto(h, "end")
    /\ UNCHANGED <<state, left, proc, needs_sched, queueVars, timer, satp, sscratch, stvec, pos>>

\* The traps that end in an endless loop of trap_handler: an exception in user
\* code, a buffer of SYS_read or SYS_write that is not mapped, and SYS_sbrk or
\* SYS_munmap with work to do, which touch pages that the caller's page table
\* does not map.
FatalTrap(h) ==
    /\ pc[h] = "user"
    /\ EnterTrap(h)
    /\ Goto(h, "halt")
    /\ UNCHANGED <<state, left, proc, needs_sched, queueVars, timer, satp, sscratch, stvec, pos>>

------------------------------------------------------------------------------
(* The end of trap_handler, schedule and swtch.                            *)

\* trap_vector returns to the user code whose frame is on this stack,
\* idle_trap_vector to the wfi loop.
TrapReturn(h) ==
    /\ pc[h] = "end" /\ needs_sched[h] = 0
    /\ Goto(h, IF thread[h] = Idle THEN "wfi" ELSE "user")
    /\ UNCHANGED <<state, left, proc, needs_sched, queueVars, timer, hartVars, pos>>

ScheduleNext_OldFrame(h) ==
    /\ pc[h] = "end" /\ needs_sched[h] = 1
    /\ run_queue[h] # <<>>
    /\ LET new == Head(run_queue[h]) IN
        /\ state' = [state EXCEPT ![new] = "RUNNING"]
        /\ run_queue' = [run_queue EXCEPT ![h] = Tail(@)]
        /\ proc' = [proc EXCEPT ![h] = new]
        /\ stvec' = [stvec EXCEPT ![h] = "trap_vector"]
        /\ sscratch' = [sscratch EXCEPT ![h] = new]
        /\ thread' = [thread EXCEPT ![h] = new]
    /\ needs_sched' = [needs_sched EXCEPT ![h] = 0]
    /\ UNCHANGED <<left, sleep_queue, timer, satp, pos, pc>>

\* A process is in the run queue.  The new process resumes in its own call of
\* schedule.  A current process that is not idle is queued again, whatever its
\* state; with one process it could only give way to itself.
ScheduleNext(h) ==
    /\ pc[h] = "end" /\ needs_sched[h] = 1
    /\ run_queue[h] # <<>>
    /\ LET new == Head(run_queue[h])
           old == proc[h] IN
        /\ state' = [p \in Procs |-> IF p = old THEN "RUNNABLE"
                                     ELSE IF p = new THEN "RUNNING" ELSE state[p]]
        /\ run_queue' = [run_queue EXCEPT ![h] = IF old = Idle THEN Tail(@)
                                                 ELSE Append(Tail(@), old)]
        /\ proc' = [proc EXCEPT ![h] = new]
        /\ stvec' = [stvec EXCEPT ![h] = "trap_vector"]
        /\ satp' = [satp EXCEPT ![h] = new]
        /\ sscratch' = [sscratch EXCEPT ![h] = new]
        /\ thread' = [thread EXCEPT ![h] = new]
    /\ needs_sched' = [needs_sched EXCEPT ![h] = 0]
    /\ UNCHANGED <<left, sleep_queue, timer, pos, pc>>

\* The run queue is empty: a process gives way to the idle process, which
\* starts idle_loop anew; the idle process goes on.
ScheduleIdle(h) ==
    /\ pc[h] = "end" /\ needs_sched[h] = 1
    /\ run_queue[h] = <<>>
    /\ proc' = [proc EXCEPT ![h] = Idle]
    /\ satp' = [satp EXCEPT ![h] = IF proc[h] = Idle THEN @ ELSE Idle]
    /\ thread' = [thread EXCEPT ![h] = IF proc[h] = Idle THEN @ ELSE Idle]
    /\ needs_sched' = [needs_sched EXCEPT ![h] = 0]
    /\ Goto(h, IF proc[h] = Idle THEN "end" ELSE "entry")
    /\ UNCHANGED <<state, left, queueVars, timer, sscratch, stvec, pos>>

IdleLoop_OldVector(h) ==
    /\ pc[h] = "entry"
    /\ Goto(h, "wfi")
    /\ UNCHANGED <<state, left, proc, needs_sched, queueVars, timer, hartVars, pos>>

IdleLoop(h) ==
    /\ pc[h] = "entry"
    /\ stvec' = [stvec EXCEPT ![h] = "idle_trap_vector"]
    /\ Goto(h, "wfi")
    /\ UNCHANGED <<state, left, proc, needs_sched, queueVars, timer, satp, sscratch, thread, pos>>

------------------------------------------------------------------------------
Syscall(h) ==
    \/ SysYield(h) \/ SysExit(h) \/ SysRead(h) \/ SysReturn(h) \/ FatalTrap(h)
    \/ \E ms \in 0 .. MaxSleep + 1 : SysSleep(h, ms)

\* The steps a hart takes by itself once a trap has begun.
Handler(h) ==
    \/ WakeSleeper(h) \/ SkipSleeper(h) \/ EndWalk(h)
    \/ TrapReturn(h) \/ ScheduleNext(h) \/ ScheduleIdle(h) \/ IdleLoop(h)

Next == Tick \/ \E h \in Harts : TimerTrap(h) \/ Syscall(h) \/ UartLine(h) \/ Handler(h)

Spec == Init /\ [][Next]_vars

\* The clock runs, pending interrupts are delivered and handlers run to their
\* end.  User code need not make any call and no input need arrive.
Fairness ==
    /\ WF_vars(Tick)
    /\ \A h \in Harts : WF_vars(TimerTrap(h)) /\ WF_vars(Handler(h))

FairSpec == Spec /\ Fairness

------------------------------------------------------------------------------
(* Correctness.                                                            *)

\* Type invariant.
TypeOK ==
    /\ state \in [Procs -> States]
    /\ left \in [Procs -> Int]
    /\ proc \in [Harts -> Procs \cup {Idle}]
    /\ needs_sched \in [Harts -> {0, 1}]
    /\ run_queue \in [Harts -> Seq(Procs)]
    /\ sleep_queue \in [Harts -> Seq(Procs)]
    /\ timer \in [Harts -> 0 .. Interval]
    /\ satp \in [Harts -> Procs \cup {Idle}]
    /\ sscratch \in [Harts -> Procs \cup {Idle}]
    /\ stvec \in [Harts -> {"trap_vector", "idle_trap_vector"}]
    /\ thread \in [Harts -> Procs \cup {Idle}]
    /\ pos \in [Harts -> Nat \ {0}]
    /\ pc \in [Harts -> PCs]

InQueue(q, p) == \E h \in Harts : \E i \in 1 .. Len(q[h]) : q[h][i] = p

\* The lists and the states agree across sleeping, waking, exiting and being
\* scheduled: a process is in the run queue exactly while RUNNABLE and in the
\* sleep queue exactly while SLEEPING, so its one q_node is never in two lists.
QueuesMatchState ==
    \A p \in Procs :
        /\ InQueue(run_queue, p) <=> state[p] = "RUNNABLE"
        /\ InQueue(sleep_queue, p) <=> state[p] = "SLEEPING"
        /\ \A h \in Harts : Interruptible(h) /\ proc[h] = p => state[p] = "RUNNING"

\* User code runs only with its own page table, as the current process of its
\* hart, and with a trap vector and an sscratch that will save its registers
\* in its own frame; an idle hart runs on the kernel's page table with the
\* vector that does not use a frame.
AddressSpace ==
    \A h \in Harts :
        /\ pc[h] = "user" =>
              /\ proc[h] # Idle /\ thread[h] = proc[h]
              /\ satp[h] = proc[h] /\ sscratch[h] = proc[h] /\ stvec[h] = "trap_vector"
        /\ pc[h] = "wfi" =>
              /\ proc[h] = Idle /\ thread[h] = Idle
              /\ satp[h] = Idle /\ stvec[h] = "idle_trap_vector"

\* A sleeper oversleeps by less than one timer interval: its time may come
\* anywhere between two ticks, and the ticks do not wait for anything.
WakesOnTime == \A p \in Procs : state[p] = "SLEEPING" => left[p] > -Interval

\* No process leaves SLEEPING before its time.
NoEarlyWake ==
    [][\A p \in Procs : state[p] = "SLEEPING" /\ state'[p] # "SLEEPING" => left[p] <= 0]_vars

\* An exited process never runs or waits for the processor again.
ZombieStaysDead == [][\A p \in Procs : state[p] = "ZOMBIE" => state'[p] = "ZOMBIE"]_vars

\* A process that sleeps returns to user code: the tick wakes it, the idle
\* process gives way to it, and it resumes on its own stack.
SleepersWake ==
    \A p \in Procs : (state[p] = "SLEEPING") ~> (\E h \in Harts : pc[h] = "user" /\ thread[h] = p)

\* The inductive invariant behind these properties, in parts.

\* A queue that holds the shell while its state is s, and is empty otherwise.
QueueOf(h, s) == IF h = BootHart /\ state[Shell] = s THEN <<Shell>> ELSE <<>>

\* A hart whose current process is the shell: between the system call and
\* schedule the shell may already be asleep or dead, but never RUNNABLE.
ShellOK(h) ==
    /\ pc[h] \in {"user", "walk", "gets", "end", "halt"}
    /\ sscratch[h] = Shell /\ stvec[h] = "trap_vector"
    /\ state[Shell] # "RUNNABLE"
    /\ state[Shell] = "RUNNING" \/ needs_sched[h] = 1
    /\ needs_sched[h] = 1 => pc[h] = "end"

\* A hart whose current process is the idle process.
IdleOK(h) ==
    /\ pc[h] \in {"wfi", "walk", "end", "entry"}
    /\ pc[h] # "entry" => stvec[h] = "idle_trap_vector"
    /\ needs_sched[h] = 1 =>
          pc[h] \in {"walk", "end"} /\ h = BootHart /\ state[Shell] = "RUNNABLE"

HartOK(h) ==
    /\ run_queue[h] = QueueOf(h, "RUNNABLE")
    /\ sleep_queue[h] = QueueOf(h, "SLEEPING")
    /\ thread[h] = proc[h] /\ satp[h] = proc[h]
    /\ h # BootHart => proc[h] = Idle
    /\ proc[h] = Shell => ShellOK(h)
    /\ proc[h] = Idle => IdleOK(h)

\* How late a sleeper can be, relative to the next tick.
LateOK ==
    state[Shell] = "SLEEPING" =>
        IF pc[BootHart] = "walk" /\ pos[BootHart] = 1
        THEN left[Shell] > -Interval
        ELSE left[Shell] > timer[BootHart] - Interval

\* The inductive invariant: what every trap, tick and switch preserves.
IInv == TypeOK /\ LateOK /\ \A h \in Harts : HartOK(h)

\* A process that has neither exited nor gone to sleep is running on a hart or
\* waiting in a run queue.  "yield" in shell.c expects as much: the shell goes
\* on to echo the line.
NoProcessLost ==
    \A p \in Procs : state[p] = "RUNNING" => \E h \in Harts : proc[h] = p
==============================================================================
