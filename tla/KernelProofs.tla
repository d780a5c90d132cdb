---------------------------- MODULE KernelProofs ----------------------------
(***************************************************************************)
(* Proofs about Kernel, for every number of harts, every timer interval    *)
(* and every bound on sleeping.                                            *)
(***************************************************************************)
EXTENDS Kernel, TLAPS

(* The state the boot code leaves is a good one. *)
LEMMA InitIInv == Init => IInv
  <1> SUFFICES ASSUME Init PROVE IInv
    OBVIOUS
  <1> USE KernelAssumption DEF Init, Procs
  <1>1. TypeOK
    BY DEF TypeOK, States, PCs
  <1>2. ASSUME NEW h \in Harts PROVE HartOK(h)
    BY DEF HartOK, QueueOf, ShellOK, IdleOK
  <1>3. LateOK
    BY DEF LateOK
  <1> QED
    BY <1>1, <1>2, <1>3 DEF IInv

(* What the invariant says of a hart depends on that hart and, on hart 0,  *)
(* on the state of the shell.                                              *)
LEMMA OtherHart ==
    ASSUME NEW g \in Harts, HartOK(g), state' = state \/ g # BootHart,
           proc'[g] = proc[g], needs_sched'[g] = needs_sched[g],
           run_queue'[g] = run_queue[g], sleep_queue'[g] = sleep_queue[g],
           satp'[g] = satp[g], sscratch'[g] = sscratch[g], stvec'[g] = stvec[g],
           thread'[g] = thread[g], pc'[g] = pc[g]
    PROVE  HartOK(g)'
  BY KernelAssumption DEF HartOK, QueueOf, ShellOK, IdleOK

(* Where a hart is tells which process is its current one. *)
LEMMA CurrentProc ==
    ASSUME IInv, NEW h \in Harts
    PROVE  /\ proc[h] \in {Shell, Idle}
           /\ pc[h] \in {"user", "gets", "halt"} => proc[h] = Shell /\ h = BootHart
           /\ pc[h] \in {"wfi", "entry"} => proc[h] = Idle
  BY KernelAssumption DEF IInv, TypeOK, HartOK, ShellOK, IdleOK, Procs

(* The queues hold at most the shell. *)
LEMMA ShellQueue ==
    /\ <<>> \in Seq(Procs) /\ <<Shell>> \in Seq(Procs)
    /\ Append(<<>>, Shell) = <<Shell>>
    /\ Len(<<Shell>>) = 1
    /\ Without(<<Shell>>, 1) = <<>>
  <1>1. <<>> \in Seq(Procs) /\ <<Shell>> \in Seq(Procs) /\ Len(<<Shell>>) = 1
    BY DEF Procs
  <1>2. Append(<<>>, Shell) = <<Shell>>
    OBVIOUS
  <1>3. SubSeq(<<Shell>>, 1, 0) = <<>> /\ SubSeq(<<Shell>>, 2, 1) = <<>>
    OBVIOUS
  <1>4. Without(<<Shell>>, 1) = <<>>
    BY <1>1, <1>3 DEF Without
  <1> QED
    BY <1>1, <1>2, <1>4

(* The tick re-arms the timer before it walks the sleep queue. *)
LEMMA TimerTrapIInv ==
    ASSUME IInv, NEW h \in Harts, TimerTrap(h)
    PROVE  IInv'
  <1> USE KernelAssumption DEF IInv, Procs
  <1>1. proc[h] \in {Shell, Idle} /\ HartOK(h)
    BY CurrentProc
  <1>3. TypeOK'
    BY <1>1 DEF TimerTrap, EnterTrap, Interruptible, Goto, hartVars, queueVars, TypeOK, HartOK, QueueOf, ShellOK, IdleOK, States, PCs
  <1>4. HartOK(h)'
    BY <1>1 DEF TimerTrap, EnterTrap, Interruptible, Goto, hartVars, queueVars, TypeOK, HartOK, QueueOf, ShellOK, IdleOK
  <1>5. LateOK'
    BY <1>1 DEF TimerTrap, EnterTrap, Interruptible, Goto, hartVars, queueVars, TypeOK, HartOK, QueueOf, ShellOK, IdleOK, LateOK
  <1>6. ASSUME NEW g \in Harts, g # h
        PROVE  HartOK(g)'
    BY <1>6, OtherHart DEF TimerTrap, EnterTrap, Interruptible, Goto, hartVars, queueVars, TypeOK
  <1> QED
    BY <1>3, <1>4, <1>5, <1>6

(* Only the idle process is current when the shell wakes. *)
LEMMA WakeSleeperIInv ==
    ASSUME IInv, NEW h \in Harts, WakeSleeper(h)
    PROVE  IInv'
  <1> USE KernelAssumption DEF IInv, Procs
  <1>1. proc[h] \in {Shell, Idle} /\ HartOK(h)
    BY CurrentProc
  <1>2. h = BootHart
    BY <1>1 DEF WakeSleeper, Due, Without, hartVars, queueVars, TypeOK, HartOK, QueueOf, ShellOK, IdleOK
  <1>a. /\ sleep_queue[h] = <<Shell>> /\ run_queue[h] = <<>> /\ pos[h] = 1
        /\ proc[h] = Idle
    BY <1>1, <1>2, ShellQueue DEF WakeSleeper, TypeOK, HartOK, QueueOf, ShellOK
  <1>b. /\ sleep_queue' = [sleep_queue EXCEPT ![h] = <<>>]
        /\ run_queue' = [run_queue EXCEPT ![h] = <<Shell>>]
        /\ state' = [state EXCEPT ![Shell] = "RUNNABLE"]
    <2>1. Without(sleep_queue[h], pos[h]) = <<>> /\ sleep_queue[h][pos[h]] = Shell
      BY <1>a, ShellQueue
    <2>2. Append(run_queue[h], Shell) = <<Shell>>
      BY <1>a, ShellQueue
    <2> QED
      BY <2>1, <2>2 DEF WakeSleeper
  <1>3. TypeOK'
    BY <1>1, <1>2, <1>a, <1>b, ShellQueue DEF WakeSleeper, hartVars, TypeOK, HartOK, QueueOf, ShellOK, IdleOK, States, PCs
  <1>4. HartOK(h)'
    BY <1>1, <1>2, <1>a, <1>b, ShellQueue DEF WakeSleeper, hartVars, TypeOK, HartOK, QueueOf, ShellOK, IdleOK
  <1>5. LateOK'
    BY <1>1, <1>2, <1>a, <1>b, ShellQueue DEF WakeSleeper, hartVars, TypeOK, HartOK, QueueOf, ShellOK, IdleOK, LateOK
  <1>6. ASSUME NEW g \in Harts, g # h
        PROVE  HartOK(g)'
    BY <1>2, <1>6, OtherHart DEF WakeSleeper, hartVars, TypeOK
  <1> QED
    BY <1>3, <1>4, <1>5, <1>6

(* A sleeper that is skipped is not late. *)
LEMMA SkipSleeperIInv ==
    ASSUME IInv, NEW h \in Harts, SkipSleeper(h)
    PROVE  IInv'
  <1> USE KernelAssumption DEF IInv, Procs
  <1>1. proc[h] \in {Shell, Idle} /\ HartOK(h)
    BY CurrentProc
  <1>3. TypeOK'
    BY <1>1 DEF SkipSleeper, Due, hartVars, queueVars, TypeOK, HartOK, QueueOf, ShellOK, IdleOK, States, PCs
  <1>4. HartOK(h)'
    BY <1>1 DEF SkipSleeper, Due, hartVars, queueVars, TypeOK, HartOK, QueueOf, ShellOK, IdleOK
  <1>5. LateOK'
    BY <1>1 DEF SkipSleeper, Due, hartVars, queueVars, TypeOK, HartOK, QueueOf, ShellOK, IdleOK, LateOK
  <1>6. ASSUME NEW g \in Harts, g # h
        PROVE  HartOK(g)'
    BY <1>6, OtherHart DEF SkipSleeper, Due, hartVars, queueVars, TypeOK
  <1> QED
    BY <1>3, <1>4, <1>5, <1>6

(* The walk ends. *)
LEMMA EndWalkIInv ==
    ASSUME IInv, NEW h \in Harts, EndWalk(h)
    PROVE  IInv'
  <1> USE KernelAssumption DEF IInv, Procs
  <1>1. proc[h] \in {Shell, Idle} /\ HartOK(h)
    BY CurrentProc
  <1>3. TypeOK'
    BY <1>1 DEF EndWalk, Goto, hartVars, queueVars, TypeOK, HartOK, QueueOf, ShellOK, IdleOK, States, PCs
  <1>4. HartOK(h)'
    BY <1>1 DEF EndWalk, Goto, hartVars, queueVars, TypeOK, HartOK, QueueOf, ShellOK, IdleOK
  <1>5. LateOK'
    BY <1>1 DEF EndWalk, Goto, hartVars, queueVars, TypeOK, HartOK, QueueOf, ShellOK, IdleOK, LateOK
  <1>6. ASSUME NEW g \in Harts, g # h
        PROVE  HartOK(g)'
    BY <1>6, OtherHart DEF EndWalk, Goto, hartVars, queueVars, TypeOK
  <1> QED
    BY <1>3, <1>4, <1>5, <1>6

(* The shell yields. *)
LEMMA SysYieldIInv ==
    ASSUME IInv, NEW h \in Harts, SysYield(h)
    PROVE  IInv'
  <1> USE KernelAssumption DEF IInv, Procs
  <1>1. proc[h] \in {Shell, Idle} /\ HartOK(h)
    BY CurrentProc
  <1>3. TypeOK'
    BY <1>1 DEF SysYield, EnterTrap, Goto, hartVars, queueVars, TypeOK, HartOK, QueueOf, ShellOK, IdleOK, States, PCs
  <1>4. HartOK(h)'
    BY <1>1 DEF SysYield, EnterTrap, Goto, hartVars, queueVars, TypeOK, HartOK, QueueOf, ShellOK, IdleOK
  <1>5. LateOK'
    BY <1>1 DEF SysYield, EnterTrap, Goto, hartVars, queueVars, TypeOK, HartOK, QueueOf, ShellOK, IdleOK, LateOK
  <1>6. ASSUME NEW g \in Harts, g # h
        PROVE  HartOK(g)'
    BY <1>6, OtherHart DEF SysYield, EnterTrap, Goto, hartVars, queueVars, TypeOK
  <1> QED
    BY <1>3, <1>4, <1>5, <1>6

(* The shell goes to sleep, or is refused. *)
LEMMA SysSleepIInv ==
    ASSUME IInv, NEW h \in Harts, NEW ms \in 0 .. MaxSleep + 1, SysSleep(h, ms)
    PROVE  IInv'
  <1> USE KernelAssumption DEF IInv, Procs
  <1>1. proc[h] \in {Shell, Idle} /\ HartOK(h)
    BY CurrentProc
  <1>2. h = BootHart
    BY <1>1 DEF SysSleep, EnterTrap, Goto, hartVars, queueVars, TypeOK, HartOK, QueueOf, ShellOK, IdleOK
  <1>a. proc[h] = Shell /\ run_queue[h] = <<>> /\ sleep_queue[h] = <<>> /\ state[Shell] = "RUNNING"
    BY <1>1, CurrentProc DEF SysSleep, HartOK, QueueOf, ShellOK
  <1>b. \/ UNCHANGED <<state, left, sleep_queue>>
        \/ /\ state' = [state EXCEPT ![Shell] = "SLEEPING"]
           /\ sleep_queue' = [sleep_queue EXCEPT ![h] = <<Shell>>]
           /\ left' = [left EXCEPT ![Shell] = ms]
    BY <1>a, ShellQueue DEF SysSleep, TypeOK
  <1>3. TypeOK'
    <2>1. state' \in [Procs -> States] /\ left' \in [Procs -> Int]
      BY <1>b DEF TypeOK, States
    <2>2. sleep_queue' \in [Harts -> Seq(Procs)]
      <3> HIDE DEF Procs
      <3> QED
        BY <1>b, ShellQueue DEF TypeOK
    <2> QED
      BY <2>1, <2>2 DEF SysSleep, EnterTrap, Goto, TypeOK, PCs
  <1>4. HartOK(h)'
    BY <1>1, <1>2, <1>a, <1>b, ShellQueue DEF SysSleep, EnterTrap, Goto, hartVars, queueVars, TypeOK, HartOK, QueueOf, ShellOK, IdleOK
  <1>5. LateOK'
    BY <1>1, <1>2, <1>a, <1>b, ShellQueue DEF SysSleep, EnterTrap, Goto, hartVars, queueVars, TypeOK, HartOK, QueueOf, ShellOK, IdleOK, LateOK
  <1>6. ASSUME NEW g \in Harts, g # h
        PROVE  HartOK(g)'
    BY <1>2, <1>6, OtherHart DEF SysSleep, EnterTrap, Goto, hartVars, queueVars, TypeOK
  <1> QED
    BY <1>3, <1>4, <1>5, <1>6

(* The shell exits. *)
LEMMA SysExitIInv ==
    ASSUME IInv, NEW h \in Harts, SysExit(h)
    PROVE  IInv'
  <1> USE KernelAssumption DEF IInv, Procs
  <1>1. proc[h] \in {Shell, Idle} /\ HartOK(h)
    BY CurrentProc
  <1>2. h = BootHart
    BY <1>1 DEF SysExit, EnterTrap, Goto, hartVars, queueVars, TypeOK, HartOK, QueueOf, ShellOK, IdleOK
  <1>3. TypeOK'
    BY <1>1, <1>2 DEF SysExit, EnterTrap, Goto, hartVars, queueVars, TypeOK, HartOK, QueueOf, ShellOK, IdleOK, States, PCs
  <1>4. HartOK(h)'
    BY <1>1, <1>2 DEF SysExit, EnterTrap, Goto, hartVars, queueVars, TypeOK, HartOK, QueueOf, ShellOK, IdleOK
  <1>5. LateOK'
    BY <1>1, <1>2 DEF SysExit, EnterTrap, Goto, hartVars, queueVars, TypeOK, HartOK, QueueOf, ShellOK, IdleOK, LateOK
  <1>6. ASSUME NEW g \in Harts, g # h
        PROVE  HartOK(g)'
    BY <1>2, <1>6, OtherHart DEF SysExit, EnterTrap, Goto, hartVars, queueVars, TypeOK
  <1> QED
    BY <1>3, <1>4, <1>5, <1>6

(* The shell waits for a line. *)
LEMMA SysReadIInv ==
    ASSUME IInv, NEW h \in Harts, SysRead(h)
    PROVE  IInv'
  <1> USE KernelAssumption DEF IInv, Procs
  <1>1. proc[h] \in {Shell, Idle} /\ HartOK(h)
    BY CurrentProc
  <1>3. TypeOK'
    BY <1>1 DEF SysRead, EnterTrap, Goto, hartVars, queueVars, TypeOK, HartOK, QueueOf, ShellOK, IdleOK, States, PCs
  <1>4. HartOK(h)'
    BY <1>1 DEF SysRead, EnterTrap, Goto, hartVars, queueVars, TypeOK, HartOK, QueueOf, ShellOK, IdleOK
  <1>5. LateOK'
    BY <1>1 DEF SysRead, EnterTrap, Goto, hartVars, queueVars, TypeOK, HartOK, QueueOf, ShellOK, IdleOK, LateOK
  <1>6. ASSUME NEW g \in Harts, g # h
        PROVE  HartOK(g)'
    BY <1>6, OtherHart DEF SysRead, EnterTrap, Goto, hartVars, queueVars, TypeOK
  <1> QED
    BY <1>3, <1>4, <1>5, <1>6

(* The line is there. *)
LEMMA UartLineIInv ==
    ASSUME IInv, NEW h \in Harts, UartLine(h)
    PROVE  IInv'
  <1> USE KernelAssumption DEF IInv, Procs
  <1>1. proc[h] \in {Shell, Idle} /\ HartOK(h)
    BY CurrentProc
  <1>3. TypeOK'
    BY <1>1 DEF UartLine, Goto, hartVars, queueVars, TypeOK, HartOK, QueueOf, ShellOK, IdleOK, States, PCs
  <1>4. HartOK(h)'
    BY <1>1 DEF UartLine, Goto, hartVars, queueVars, TypeOK, HartOK, QueueOf, ShellOK, IdleOK
  <1>5. LateOK'
    BY <1>1 DEF UartLine, Goto, hartVars, queueVars, TypeOK, HartOK, QueueOf, ShellOK, IdleOK, LateOK
  <1>6. ASSUME NEW g \in Harts, g # h
        PROVE  HartOK(g)'
    BY <1>6, OtherHart DEF UartLine, Goto, hartVars, queueVars, TypeOK
  <1> QED
    BY <1>3, <1>4, <1>5, <1>6

(* A call that only returns a value. *)
LEMMA SysReturnIInv ==
    ASSUME IInv, NEW h \in Harts, SysReturn(h)
    PROVE  IInv'
  <1> USE KernelAssumption DEF IInv, Procs
  <1>1. proc[h] \in {Shell, Idle} /\ HartOK(h)
    BY CurrentProc
  <1>3. TypeOK'
    BY <1>1 DEF SysReturn, EnterTrap, Goto, hartVars, queueVars, TypeOK, HartOK, QueueOf, ShellOK, IdleOK, States, PCs
  <1>4. HartOK(h)'
    BY <1>1 DEF SysReturn, EnterTrap, Goto, hartVars, queueVars, TypeOK, HartOK, QueueOf, ShellOK, IdleOK
  <1>5. LateOK'
    BY <1>1 DEF SysReturn, EnterTrap, Goto, hartVars, queueVars, TypeOK, HartOK, QueueOf, ShellOK, IdleOK, LateOK
  <1>6. ASSUME NEW g \in Harts, g # h
        PROVE  HartOK(g)'
    BY <1>6, OtherHart DEF SysReturn, EnterTrap, Goto, hartVars, queueVars, TypeOK
  <1> QED
    BY <1>3, <1>4, <1>5, <1>6

(* A trap that halts the hart. *)
LEMMA FatalTrapIInv ==
    ASSUME IInv, NEW h \in Harts, FatalTrap(h)
    PROVE  IInv'
  <1> USE KernelAssumption DEF IInv, Procs
  <1>1. proc[h] \in {Shell, Idle} /\ HartOK(h)
    BY CurrentProc
  <1>3. TypeOK'
    BY <1>1 DEF FatalTrap, EnterTrap, Goto, hartVars, queueVars, TypeOK, HartOK, QueueOf, ShellOK, IdleOK, States, PCs
  <1>4. HartOK(h)'
    BY <1>1 DEF FatalTrap, EnterTrap, Goto, hartVars, queueVars, TypeOK, HartOK, QueueOf, ShellOK, IdleOK
  <1>5. LateOK'
    BY <1>1 DEF FatalTrap, EnterTrap, Goto, hartVars, queueVars, TypeOK, HartOK, QueueOf, ShellOK, IdleOK, LateOK
  <1>6. ASSUME NEW g \in Harts, g # h
        PROVE  HartOK(g)'
    BY <1>6, OtherHart DEF FatalTrap, EnterTrap, Goto, hartVars, queueVars, TypeOK
  <1> QED
    BY <1>3, <1>4, <1>5, <1>6

(* The way back to user code or to idle_loop. *)
LEMMA TrapReturnIInv ==
    ASSUME IInv, NEW h \in Harts, TrapReturn(h)
    PROVE  IInv'
  <1> USE KernelAssumption DEF IInv, Procs
  <1>1. proc[h] \in {Shell, Idle} /\ HartOK(h)
    BY CurrentProc
  <1>3. TypeOK'
    BY <1>1 DEF TrapReturn, Goto, hartVars, queueVars, TypeOK, HartOK, QueueOf, ShellOK, IdleOK, States, PCs
  <1>4. HartOK(h)'
    BY <1>1 DEF TrapReturn, Goto, hartVars, queueVars, TypeOK, HartOK, QueueOf, ShellOK, IdleOK
  <1>5. LateOK'
    BY <1>1 DEF TrapReturn, Goto, hartVars, queueVars, TypeOK, HartOK, QueueOf, ShellOK, IdleOK, LateOK
  <1>6. ASSUME NEW g \in Harts, g # h
        PROVE  HartOK(g)'
    BY <1>6, OtherHart DEF TrapReturn, Goto, hartVars, queueVars, TypeOK
  <1> QED
    BY <1>3, <1>4, <1>5, <1>6

(* Only the idle process gives way to the shell. *)
LEMMA ScheduleNextIInv ==
    ASSUME IInv, NEW h \in Harts, ScheduleNext(h)
    PROVE  IInv'
  <1> USE KernelAssumption DEF IInv, Procs
  <1>1. proc[h] \in {Shell, Idle} /\ HartOK(h)
    BY CurrentProc
  <1>2. h = BootHart
    BY <1>1 DEF ScheduleNext, Goto, hartVars, queueVars, TypeOK, HartOK, QueueOf, ShellOK, IdleOK
  <1>3. TypeOK'
    BY <1>1, <1>2 DEF ScheduleNext, Goto, hartVars, queueVars, TypeOK, HartOK, QueueOf, ShellOK, IdleOK, States, PCs
  <1>4. HartOK(h)'
    BY <1>1, <1>2 DEF ScheduleNext, Goto, hartVars, queueVars, TypeOK, HartOK, QueueOf, ShellOK, IdleOK
  <1>5. LateOK'
    BY <1>1, <1>2 DEF ScheduleNext, Goto, hartVars, queueVars, TypeOK, HartOK, QueueOf, ShellOK, IdleOK, LateOK
  <1>6. ASSUME NEW g \in Harts, g # h
        PROVE  HartOK(g)'
    BY <1>2, <1>6, OtherHart DEF ScheduleNext, Goto, hartVars, queueVars, TypeOK
  <1> QED
    BY <1>3, <1>4, <1>5, <1>6

(* The shell gives way to the idle process. *)
LEMMA ScheduleIdleIInv ==
    ASSUME IInv, NEW h \in Harts, ScheduleIdle(h)
    PROVE  IInv'
  <1> USE KernelAssumption DEF IInv, Procs
  <1>1. proc[h] \in {Shell, Idle} /\ HartOK(h)
    BY CurrentProc
  <1>3. TypeOK'
    BY <1>1 DEF ScheduleIdle, Goto, hartVars, queueVars, TypeOK, HartOK, QueueOf, ShellOK, IdleOK, States, PCs
  <1>4. HartOK(h)'
    BY <1>1 DEF ScheduleIdle, Goto, hartVars, queueVars, TypeOK, HartOK, QueueOf, ShellOK, IdleOK
  <1>5. LateOK'
    BY <1>1 DEF ScheduleIdle, Goto, hartVars, queueVars, TypeOK, HartOK, QueueOf, ShellOK, IdleOK, LateOK
  <1>6. ASSUME NEW g \in Harts, g # h
        PROVE  HartOK(g)'
    BY <1>6, OtherHart DEF ScheduleIdle, Goto, hartVars, queueVars, TypeOK
  <1> QED
    BY <1>3, <1>4, <1>5, <1>6

(* The idle process sets its own vector. *)
LEMMA IdleLoopIInv ==
    ASSUME IInv, NEW h \in Harts, IdleLoop(h)
    PROVE  IInv'
  <1> USE KernelAssumption DEF IInv, Procs
  <1>1. proc[h] \in {Shell, Idle} /\ HartOK(h)
    BY CurrentProc
  <1>3. TypeOK'
    BY <1>1 DEF IdleLoop, Goto, hartVars, queueVars, TypeOK, HartOK, QueueOf, ShellOK, IdleOK, States, PCs
  <1>4. HartOK(h)'
    BY <1>1 DEF IdleLoop, Goto, hartVars, queueVars, TypeOK, HartOK, QueueOf, ShellOK, IdleOK
  <1>5. LateOK'
    BY <1>1 DEF IdleLoop, Goto, hartVars, queueVars, TypeOK, HartOK, QueueOf, ShellOK, IdleOK, LateOK
  <1>6. ASSUME NEW g \in Harts, g # h
        PROVE  HartOK(g)'
    BY <1>6, OtherHart DEF IdleLoop, Goto, hartVars, queueVars, TypeOK
  <1> QED
    BY <1>3, <1>4, <1>5, <1>6

(* The clock advances only when no sleeper's tick is pending. *)
LEMMA TickIInv ==
    ASSUME IInv, Tick
    PROVE  IInv'
  <1> USE KernelAssumption DEF IInv, Procs, Tick, queueVars, hartVars
  <1>1. TypeOK'
    BY DEF TypeOK
  <1>2. ASSUME NEW g \in Harts
        PROVE  HartOK(g)'
    BY OtherHart
  <1>3. LateOK'
    <2> SUFFICES ASSUME state[Shell] = "SLEEPING"
                 PROVE  left'[Shell] > timer'[BootHart] - Interval
      BY DEF LateOK, Handling
    <2>1. pc[BootHart] = "wfi"
      BY CurrentProc DEF TypeOK, HartOK, ShellOK, IdleOK, Handling
    <2>2. timer[BootHart] > 0
      BY <2>1 DEF Interruptible, TypeOK
    <2> QED
      BY <2>1, <2>2 DEF LateOK, TypeOK
  <1> QED
    BY <1>1, <1>2, <1>3

(* Every step keeps the invariant. *)
LEMMA NextIInv == IInv /\ [Next]_vars => IInv'
  <1> SUFFICES ASSUME IInv, [Next]_vars PROVE IInv'
    OBVIOUS
  <1>1. CASE UNCHANGED vars
    BY <1>1, OtherHart DEF vars, queueVars, hartVars, IInv, TypeOK, LateOK
  <1>2. CASE Tick
    BY <1>2, TickIInv
  <1>3. ASSUME NEW h \in Harts, TimerTrap(h) \/ UartLine(h)
        PROVE  IInv'
    BY <1>3, TimerTrapIInv, UartLineIInv
  <1>4. ASSUME NEW h \in Harts, Syscall(h)
        PROVE  IInv'
    BY <1>4, SysYieldIInv, SysExitIInv, SysReadIInv, SysReturnIInv, FatalTrapIInv, SysSleepIInv
       DEF Syscall
  <1>5. ASSUME NEW h \in Harts, Handler(h)
        PROVE  IInv'
    BY <1>5, WakeSleeperIInv, SkipSleeperIInv, EndWalkIInv, TrapReturnIInv, ScheduleNextIInv,
       ScheduleIdleIInv, IdleLoopIInv DEF Handler
  <1> QED
    BY <1>1, <1>2, <1>3, <1>4, <1>5 DEF Next

(* Every reachable state of the running kernel satisfies the invariant. *)
THEOREM InductiveInvariant == Spec => []IInv
  BY InitIInv, NextIInv, PTL DEF Spec

(* User code always runs in its own address space with its own trap frame, *)
(* on any number of harts and whatever the shell does.                     *)
THEOREM AddressSpaceHolds == Spec => []AddressSpace
  <1>1. IInv => AddressSpace
    <2> SUFFICES ASSUME IInv, NEW h \in Harts PROVE
              /\ pc[h] = "user" =>
                    /\ proc[h] # Idle /\ thread[h] = proc[h]
                    /\ satp[h] = proc[h] /\ sscratch[h] = proc[h] /\ stvec[h] = "trap_vector"
              /\ pc[h] = "wfi" =>
                    /\ proc[h] = Idle /\ thread[h] = Idle
                    /\ satp[h] = Idle /\ stvec[h] = "idle_trap_vector"
      BY DEF AddressSpace
    <2> QED
      BY CurrentProc, KernelAssumption DEF IInv, HartOK, ShellOK, IdleOK
  <1> QED
    BY <1>1, InductiveInvariant, PTL

(* The queues and the process states agree. *)
THEOREM QueuesMatchStateHolds == Spec => []QueuesMatchState
  <1>1. IInv => QueuesMatchState
    <2> SUFFICES ASSUME IInv
                 PROVE  /\ InQueue(run_queue, Shell) <=> state[Shell] = "RUNNABLE"
                        /\ InQueue(sleep_queue, Shell) <=> state[Shell] = "SLEEPING"
                        /\ \A h \in Harts :
                              Interruptible(h) /\ proc[h] = Shell => state[Shell] = "RUNNING"
      BY DEF QueuesMatchState, Procs
    <2>1. ASSUME NEW h \in Harts
          PROVE  /\ run_queue[h] = QueueOf(h, "RUNNABLE")
                 /\ sleep_queue[h] = QueueOf(h, "SLEEPING")
      BY DEF IInv, HartOK
    <2>2. InQueue(run_queue, Shell) <=> state[Shell] = "RUNNABLE"
      BY <2>1, KernelAssumption DEF InQueue, QueueOf
    <2>3. InQueue(sleep_queue, Shell) <=> state[Shell] = "SLEEPING"
      BY <2>1, KernelAssumption DEF InQueue, QueueOf
    <2>4. ASSUME NEW h \in Harts, Interruptible(h), proc[h] = Shell
          PROVE  state[Shell] = "RUNNING"
      BY <2>4 DEF IInv, HartOK, ShellOK, Interruptible
    <2> QED
      BY <2>2, <2>3, <2>4
  <1> QED
    BY <1>1, InductiveInvariant, PTL

(* A sleeper oversleeps by less than one timer interval. *)
THEOREM WakesOnTimeHolds == Spec => []WakesOnTime
  <1>1. IInv => WakesOnTime
    BY KernelAssumption DEF IInv, TypeOK, LateOK, WakesOnTime, Procs
  <1> QED
    BY <1>1, InductiveInvariant, PTL

(* No process is woken before its time: only timer_handle takes a process  *)
(* out of SLEEPING.                                                        *)
THEOREM NoEarlyWakeHolds == Spec => NoEarlyWake
  <1>1. IInv /\ [Next]_vars =>
          [\A p \in Procs : state[p] = "SLEEPING" /\ state'[p] # "SLEEPING" => left[p] <= 0]_vars
    <2> SUFFICES ASSUME IInv, Next, state[Shell] = "SLEEPING", state'[Shell] # "SLEEPING"
                 PROVE  left[Shell] <= 0
      BY DEF Procs
    <2>1. ASSUME NEW h \in Harts, WakeSleeper(h)
          PROVE  left[Shell] <= 0
      BY <2>1 DEF WakeSleeper, Due, IInv, HartOK, QueueOf, TypeOK
    <2>2. ASSUME NEW h \in Harts, Syscall(h)
          PROVE  FALSE
      <3>1. pc[h] = "user"
        BY <2>2 DEF Syscall, SysYield, SysExit, SysRead, SysReturn, FatalTrap, SysSleep
      <3>2. proc[h] = Shell /\ HartOK(h)
        BY <3>1, CurrentProc DEF IInv
      <3> QED
        BY <3>1, <3>2 DEF HartOK, ShellOK
    <2>3. ASSUME NEW h \in Harts, ScheduleNext(h)
          PROVE  FALSE
      BY <2>3, KernelAssumption DEF ScheduleNext, IInv, HartOK, QueueOf
    <2>4. ASSUME NEW h \in Harts,
                 Tick \/ TimerTrap(h) \/ UartLine(h) \/ SkipSleeper(h) \/ EndWalk(h)
                 \/ TrapReturn(h) \/ ScheduleIdle(h) \/ IdleLoop(h)
          PROVE  FALSE
      BY <2>4 DEF Tick, TimerTrap, UartLine, SkipSleeper, EndWalk, TrapReturn, ScheduleIdle, IdleLoop
    <2> QED
      BY <2>1, <2>2, <2>3, <2>4, KernelAssumption DEF Next, Handler
  <1> QED
    BY <1>1, InductiveInvariant, PTL DEF Spec, NoEarlyWake

(* No step revives an exited process: it is in no queue, and it is the     *)
(* current process only on its way into schedule.                          *)
THEOREM ZombieStaysDeadHolds == Spec => ZombieStaysDead
  <1>1. IInv /\ [Next]_vars =>
          [\A p \in Procs : state[p] = "ZOMBIE" => state'[p] = "ZOMBIE"]_vars
    <2> SUFFICES ASSUME IInv, Next, state[Shell] = "ZOMBIE"
                 PROVE  state'[Shell] = "ZOMBIE"
      BY DEF Procs
    <2>1. ASSUME NEW h \in Harts, WakeSleeper(h) \/ ScheduleNext(h)
          PROVE  FALSE
      BY <2>1 DEF WakeSleeper, ScheduleNext, IInv, HartOK, QueueOf, TypeOK
    <2>2. ASSUME NEW h \in Harts, Syscall(h)
          PROVE  FALSE
      <3>1. pc[h] = "user"
        BY <2>2 DEF Syscall, SysYield, SysExit, SysRead, SysReturn, FatalTrap, SysSleep
      <3>2. proc[h] = Shell /\ HartOK(h)
        BY <3>1, CurrentProc DEF IInv
      <3> QED
        BY <3>1, <3>2 DEF HartOK, ShellOK
    <2>3. ASSUME NEW h \in Harts,
                 Tick \/ TimerTrap(h) \/ UartLine(h) \/ SkipSleeper(h) \/ EndWalk(h)
                 \/ TrapReturn(h) \/ ScheduleIdle(h) \/ IdleLoop(h)
          PROVE  state' = state
      BY <2>3 DEF Tick, TimerTrap, UartLine, SkipSleeper, EndWalk, TrapReturn, ScheduleIdle, IdleLoop
    <2> QED
      BY <2>1, <2>2, <2>3, KernelAssumption DEF Next, Handler
  <1> QED
    BY <1>1, InductiveInvariant, PTL DEF Spec, ZombieStaysDead
==============================================================================
