------------------------------ MODULE BootProofs ------------------------------
(***************************************************************************)
(* Proofs about Boot, for every number of harts.                           *)
(***************************************************************************)
EXTENDS Boot, TLAPS

(* Every hart starts at the beginning, with nothing built. *)
LEMMA InitIInv == Init => IInv
  <1> SUFFICES ASSUME Init PROVE IInv
    OBVIOUS
  <1> USE BootAssumption DEF Init
  <1>1. TypeOK
    BY DEF TypeOK, PCs, MModePCs
  <1>2. SharedOK
    BY DEF SharedOK, Untranslated
  <1>3. ASSUME NEW h \in Harts PROVE HartOK(h)
    BY DEF HartOK, Untranslated, Unqueued, Unarmed, BootOnly, OthersOnly, MModePCs
  <1> QED
    BY <1>1, <1>2, <1>3 DEF IInv

(* What the invariant says of a hart depends on that hart only. *)
LEMMA OtherHart ==
    ASSUME NEW g \in Harts, HartOK(g),
           satp'[g] = satp[g], stvec'[g] = stvec[g], sscratch'[g] = sscratch[g],
           queues'[g] = queues[g], proc'[g] = proc[g], stip'[g] = stip[g],
           armed'[g] = armed[g], pc'[g] = pc[g]
    PROVE  HartOK(g)'
  BY DEF HartOK

(* M-mode: what hart 0 builds, and the wait of the others. *)
LEMMA MModeIInv ==
    ASSUME IInv, NEW h \in Harts, MMode(h)
    PROVE  IInv'
  <1> USE BootAssumption
  <1>1. TypeOK'
    BY DEF IInv, TypeOK, MMode, BuddyInit, SetupKernelPagetable, LoadPagetable, SnubInit,
           SetReady, WaitReady, EnterSMode, Step, memVars, PCs, MModePCs, SModePCs
  <1>2. SharedOK'
    BY DEF IInv, TypeOK, SharedOK, HartOK, BootOnly, Untranslated,
           MMode, BuddyInit, SetupKernelPagetable, LoadPagetable, SnubInit,
           SetReady, WaitReady, EnterSMode, Step, memVars
  <1>3. HartOK(h)'
    BY DEF IInv, TypeOK, HartOK, SharedOK, BootOnly, OthersOnly, Untranslated, Unqueued, Unarmed,
           MModePCs, MMode, BuddyInit, SetupKernelPagetable, LoadPagetable, SnubInit,
           SetReady, WaitReady, EnterSMode, Step, memVars
  <1>4. ASSUME NEW g \in Harts, g # h PROVE HartOK(g)'
    <2>1. HartOK(g)
      BY DEF IInv
    <2> QED
      BY <2>1, <1>4, OtherHart
      DEF IInv, TypeOK, MMode, BuddyInit, SetupKernelPagetable, LoadPagetable, SnubInit,
          SetReady, WaitReady, EnterSMode, Step, memVars
  <1> QED
    BY <1>1, <1>2, <1>3, <1>4 DEF IInv

(* S-mode: each hart sets up its own state. *)
LEMMA SModeIInv ==
    ASSUME IInv, NEW h \in Harts, SMode(h)
    PROVE  IInv'
  <1> USE BootAssumption
  <1>1. TypeOK'
    <2> USE DEF IInv, TypeOK, Step, memVars, PCs, MModePCs, SModePCs
    <2>1. CASE InitQueues(h) \/ TimerInit(h)
      BY <2>1 DEF InitQueues, TimerInit
    <2>2. CASE SetupIdleProc(h) \/ ShellInit(h)
      BY <2>2 DEF SetupIdleProc, ShellInit
    <2>3. CASE JumpToUserShell(h) \/ IdleLoop(h)
      BY <2>3 DEF JumpToUserShell, IdleLoop, HartOK
    <2> QED
      BY <2>1, <2>2, <2>3 DEF SMode
  <1>2. SharedOK'
    BY DEF IInv, TypeOK, SharedOK, HartOK, BootOnly, OthersOnly, Untranslated,
           SMode, InitQueues, TimerInit, SetupIdleProc, ShellInit,
           JumpToUserShell, IdleLoop, Step, memVars
  <1>3. HartOK(h)'
    BY DEF IInv, TypeOK, HartOK, BootOnly, OthersOnly, Untranslated, Unqueued, Unarmed, MModePCs,
           SMode, InitQueues, TimerInit, SetupIdleProc, ShellInit, JumpToUserShell, IdleLoop,
           Step, memVars
  <1>4. ASSUME NEW g \in Harts, g # h PROVE HartOK(g)'
    <2>1. HartOK(g)
      BY DEF IInv
    <2> QED
      BY <2>1, <1>4, OtherHart
      DEF IInv, TypeOK, SMode, InitQueues, TimerInit, SetupIdleProc, ShellInit, JumpToUserShell,
          IdleLoop, Step, memVars
  <1> QED
    BY <1>1, <1>2, <1>3, <1>4 DEF IInv

(* Interrupts: they come only when the queues exist, so no hart halts. *)
LEMMA TimerIInv ==
    ASSUME IInv, NEW h \in Harts, TimerTrap(h) \/ TimerFires(h)
    PROVE  IInv'
  <1>1. pc' = pc
    BY DEF IInv, TypeOK, HartOK, Unqueued, Unarmed, TimerTrap, TimerFires
  <1>2. TypeOK'
    BY <1>1 DEF IInv, TypeOK, TimerTrap, TimerFires, memVars
  <1>3. SharedOK'
    BY <1>1 DEF IInv, SharedOK, TimerTrap, TimerFires, memVars
  <1>4. ASSUME NEW g \in Harts PROVE HartOK(g)'
    BY <1>1 DEF IInv, TypeOK, HartOK, TimerTrap, TimerFires
  <1> QED
    BY <1>2, <1>3, <1>4 DEF IInv

\* Nothing changes.
LEMMA StutterIInv == IInv /\ UNCHANGED vars => IInv'
  BY DEF IInv, TypeOK, SharedOK, HartOK, vars, memVars

(* The inductive invariant holds: where a hart is tells what it has set up, *)
(* and hart 0 has finished the memory system before the others use it.      *)
THEOREM Invariance == Spec => []IInv
  <1>1. ASSUME IInv, [Next]_vars PROVE IInv'
    BY <1>1, MModeIInv, SModeIInv, TimerIInv, StutterIInv DEF Next
  <1> QED
    BY <1>1, InitIInv, PTL DEF Spec

(* The type invariant. *)
THEOREM TypeCorrect == Spec => []TypeOK
  <1>1. IInv => TypeOK
    BY DEF IInv
  <1> QED
    BY <1>1, Invariance, PTL

(* No hart uses the kernel's page table before hart 0 has finished it: the  *)
(* wait for allocator_ready (start.c) is enough for any number of harts.    *)
THEOREM TableIsReady == Spec => []TableBeforeUse
  <1>1. IInv => TableBeforeUse
    <2> SUFFICES ASSUME IInv, NEW h \in Harts,
                        satp[h] # "bare" \/ pc[h] \notin MModePCs
                 PROVE  kernel_pagetable = "built" /\ satp[h] # "bare"
      BY DEF TableBeforeUse
    <2> QED
      BY BootAssumption DEF IInv, TypeOK, SharedOK, HartOK, Untranslated, MModePCs, SModePCs, PCs
  <1> QED
    BY <1>1, Invariance, PTL

(* When all harts have booted the system is in an initial state of Kernel,  *)
(* in whatever order they went and wherever they were interrupted.          *)
THEOREM BootImplementsKernelInit == Spec => []HandsOverToKernel
  <1>1. IInv => HandsOverToKernel
    <2> SUFFICES ASSUME IInv, Done PROVE K!Init
      BY DEF HandsOverToKernel
    <2> USE BootAssumption
    <2>1. ASSUME NEW h \in Harts
          PROVE  /\ pc[h] = IF h = BootHart THEN "user" ELSE "wfi"
                 /\ HartOK(h)
      BY DEF IInv, Done, HartOK, BootOnly, OthersOnly
    <2>2. shell_state = "RUNNING"
      BY <2>1 DEF IInv, SharedOK
    <2>3. ASSUME NEW h \in Harts
          PROVE  /\ proc[h] = IF h = BootHart THEN Shell ELSE Idle
                 /\ queues[h] /\ armed[h]
                 /\ satp[h] = IF h = BootHart THEN Shell ELSE "kernel"
                 /\ sscratch[h] = IF h = BootHart THEN Shell ELSE NoProc
                 /\ stvec[h] = IF h = BootHart THEN "trap_vector" ELSE "idle_trap_vector"
      BY <2>1 DEF HartOK, OthersOnly, Untranslated, Unqueued, Unarmed, MModePCs
    <2> QED
      BY <2>1, <2>2, <2>3 DEF K!Init, K!Procs, IInv, TypeOK
  <1> QED
    BY <1>1, Invariance, PTL
===============================================================================
