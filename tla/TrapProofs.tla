------------------------------ MODULE TrapProofs ------------------------------
(***************************************************************************)
(* Proofs about Trap: interrupted code is resumed intact, and the handler  *)
(* finds the environment it relies on.                                     *)
(***************************************************************************)
EXTENDS Trap, TLAPS

(* The inductive invariant, in parts. *)

\* What has which fields.
ShapeOK ==
    /\ DOMAIN reg = Regs
    /\ DOMAIN csr = {"sepc", "spp", "spie", "sie", "scause", "stvec", "sscratch"}
    /\ DOMAIN mem = Addresses
    /\ DOMAIN ctx = {"shell", "idle"}
    /\ \A p \in {"shell", "idle"} : DOMAIN ctx[p] = {"ra", "sp", "s0"}
    /\ DOMAIN expected = Threads
    /\ \A t \in Threads : DOMAIN expected[t] = {"reg", "pc"} /\ DOMAIN expected[t].reg = Regs
    /\ at \in Threads \cup {"vector", "handler", "end", "restore", "idle_loop"}
    /\ proc \in {"none", "shell", "idle"}
    /\ state \in {"RUNNING", "SLEEPING", "RUNNABLE"}
    /\ needs_sched \in {0, 1}

Handling == {"handler", "end", "restore"}

\* The thread that executes, or whose trap is being handled.
Current == IF csr.sscratch # TrapFrame THEN "boot" ELSE IF proc = "idle" THEN "idle" ELSE "user"

Stack(t) == IF t = "user" THEN <<"ustack", 0>> ELSE <<"boot", 0>>
Mode(t) == IF t = "user" THEN "U" ELSE "S"

\* A place in the code of thread t.
PlaceOf(t, place) ==
    \E g \in {0, 1}, offset \in {0, 4} : place = Pc(t, g, offset) /\ (t = "idle" => g = 0 /\ offset = 0)

\* CSRs and the per-hart variables.
CpuOK ==
    /\ reg["tp"] = Cpu
    /\ csr.sie = IF at \in Threads THEN TRUE ELSE FALSE
    /\ mode = IF at = "user" THEN "U" ELSE "S"
    /\ csr.stvec = IF proc = "idle" /\ at # "idle_loop" THEN "idle_trap_vector" ELSE "trap_vector"
    /\ csr.sscratch \in {<<0>>, TrapFrame}
    /\ at \in Threads => at = Current
    /\ at = "idle_loop" => Current = "idle"
    /\ csr.sscratch = <<0>> => proc # "idle" /\ state = "RUNNING" /\ needs_sched = 0
    /\ csr.sscratch = TrapFrame => proc # "none"

\* When the shell is not RUNNING, and when needs_sched is set.
SchedOK ==
    /\ needs_sched = 1 => at = "end"
    /\ state = "RUNNABLE" => needs_sched = 1 /\ proc = "idle"
    /\ state = "SLEEPING" => needs_sched = 1 \/ proc = "idle"
    /\ needs_sched = 1 /\ proc = "idle" => state = "RUNNABLE"

\* A thread that executes, and one that has just been interrupted.
RunningOK ==
    at \in Threads => reg["sp"] = Stack(at) /\ PlaceOf(at, pc)

VectorOK ==
    at = "vector" =>
        /\ reg["sp"] = Stack(Current) /\ PlaceOf(Current, pc)
        /\ csr.sepc = pc /\ csr.spp = Mode(Current) /\ csr.spie = TRUE
        /\ csr.scause \in {<<"timer">>, <<"ecall">>}
        /\ expected[Current].reg = reg
        /\ csr.scause = <<"timer">> => expected[Current].pc = pc
        /\ csr.scause = <<"ecall">> =>
              /\ Current = "user"
              /\ \E g \in {0, 1} : pc = Pc("user", g, 0) /\ expected["user"].pc = Pc("user", g, 4)

\* What is to be found again: a stack, the cpu_t and a place.
ExpectedOK(t) ==
    /\ expected[t].reg["sp"] = Stack(t)
    /\ expected[t].reg["tp"] = Cpu
    /\ PlaceOf(t, expected[t].pc)

\* The frame at address a holds what thread t, with stack pointer user_sp,
\* expects, but for t0 and t1 and the place.
FrameOK(a, t, user_sp) ==
    /\ DOMAIN mem[a] = {"regs", "user_sp", "sepc", "spp", "spie"}
    /\ DOMAIN mem[a].regs = SavedRegs
    /\ \A r \in SavedRegs \ {"t0", "t1"} : mem[a].regs[r] = expected[t].reg[r]
    /\ mem[a].user_sp = user_sp
    /\ mem[a].spp = Mode(t)
    /\ mem[a].spie = TRUE

\* The frame of trap_handler at address a, called from the vector.
CallOK(a, t, vector) == mem[a] = [ra |-> vector, s0 |-> expected[t].reg["s0"]]

\* Before syscall_handler has moved sepc behind the ecall.
EcallPending == at = "handler" /\ csr.scause = <<"ecall">>

\* The shell is in the kernel: its registers are on its kernel stack.
UserSaved ==
    /\ ExpectedOK("user")
    /\ FrameOK(TrapFrame, "user", <<"ustack", 0>>)
    /\ CallOK(<<"kstack", 1>>, "user", <<"trap_vector">>)
    /\ EcallPending /\ proc = "shell" =>
          \E g \in {0, 1} : /\ mem[TrapFrame].sepc = Pc("user", g, 0)
                            /\ expected["user"].pc = Pc("user", g, 4)
    /\ ~(EcallPending /\ proc = "shell") => mem[TrapFrame].sepc = expected["user"].pc

BootSaved ==
    /\ ExpectedOK("boot")
    /\ FrameOK(<<"boot", 1>>, "boot", <<0>>)
    /\ CallOK(<<"boot", 2>>, "boot", <<"trap_vector">>)
    /\ mem[<<"boot", 1>>].sepc = expected["boot"].pc
    /\ csr.scause = <<"timer">>

\* idle_trap_vector keeps the place and sstatus in registers.
IdleSaved ==
    /\ ExpectedOK("idle")
    /\ CallOK(<<"boot", 1>>, "idle", <<"idle_trap_vector">>)
    /\ reg["a1"] = expected["idle"].pc
    /\ reg["a2"] = <<"sstatus", "S", TRUE>>
    /\ csr.scause = <<"timer">>

SavedOK ==
    /\ at \in Handling =>
          CASE Current = "boot" -> BootSaved [] Current = "user" -> UserSaved
            [] Current = "idle" -> IdleSaved
    /\ proc = "idle" => UserSaved

\* The stack of trap_handler for a trap of thread t.
HandlerStack(t) ==
    CASE t = "boot" -> <<"boot", 2>> [] t = "user" -> <<"kstack", 1>> [] t = "idle" -> <<"boot", 1>>

HandlerOK ==
    /\ at \in {"handler", "end"} => reg["sp"] = HandlerStack(Current) /\ reg["s0"] = reg["sp"]
    /\ at = "handler" => csr.scause \in {<<"timer">>, <<"ecall">>}
    /\ at = "restore" =>
          /\ reg["sp"] = Pop(HandlerStack(Current))
          /\ reg["s0"] = expected[Current].reg["s0"]
          /\ reg["ra"] = IF Current = "idle" THEN <<"idle_trap_vector">> ELSE <<"trap_vector">>

\* What swtch will switch to.
SwitchOK ==
    /\ proc = "idle" =>
          ctx["shell"] = [ra |-> <<"schedule">>, sp |-> <<"kstack", 1>>, s0 |-> <<"kstack", 1>>]
    /\ at = "idle_loop" => reg["sp"] = <<"boot", 0>>

\* The inductive invariant: what every trap, return and switch preserves.
IInv ==
    /\ ShapeOK /\ CpuOK /\ SchedOK /\ RunningOK /\ VectorOK /\ SavedOK /\ HandlerOK /\ SwitchOK

------------------------------------------------------------------------------
(* Lemmas.                                                                 *)

(* Stack addresses: pushing, popping, and which of them are different. *)
LEMMA StackFacts ==
    /\ Push(<<"boot", 0>>) = <<"boot", 1>> /\ Push(<<"boot", 1>>) = <<"boot", 2>>
    /\ Push(TrapFrame) = <<"kstack", 1>>
    /\ Pop(<<"boot", 1>>) = <<"boot", 0>> /\ Pop(<<"boot", 2>>) = <<"boot", 1>>
    /\ Pop(<<"kstack", 1>>) = TrapFrame
    /\ {TrapFrame, <<"kstack", 1>>, <<"boot", 1>>, <<"boot", 2>>} \subseteq Addresses
    /\ TrapFrame \notin {<<0>>, <<"kstack", 1>>, <<"boot", 0>>, <<"boot", 1>>, <<"boot", 2>>}
    /\ <<"kstack", 1>> \notin {<<"boot", 1>>, <<"boot", 2>>} /\ <<"boot", 1>> # <<"boot", 2>>
  BY DEF Push, Pop, TrapFrame, Addresses

(* Places: the thread of a place, and an ecall is four bytes long. *)
LEMMA PlaceFacts ==
    ASSUME NEW t, NEW place, PlaceOf(t, place)
    PROVE  /\ place[2] = t
           /\ place[4] = 0 => \E g \in {0, 1} : /\ place = Pc(t, g, 0)
                                                /\ [place EXCEPT ![4] = 4] = Pc(t, g, 4)
  BY DEF PlaceOf, Pc

\* sepc + 4 is the instruction behind the ecall.
LEMMA EcallMoves ==
    ASSUME NEW g \in {0, 1}
    PROVE  [Pc("user", g, 0) EXCEPT ![4] = Pc("user", g, 0)[4] + 4] = Pc("user", g, 4)
  BY DEF Pc

(* What is saved of a thread stays saved when nothing of it is touched. *)
LEMMA UserSavedKept ==
    ASSUME UserSaved, ~(EcallPending /\ proc = "shell"), ~(EcallPending /\ proc = "shell")',
           mem'[TrapFrame] = mem[TrapFrame], mem'[<<"kstack", 1>>] = mem[<<"kstack", 1>>],
           expected'["user"] = expected["user"]
    PROVE  UserSaved'
  BY DEF UserSaved, ExpectedOK, FrameOK, CallOK

\* What was saved stays as long as memory does.
LEMMA BootSavedKept ==
    ASSUME BootSaved, UNCHANGED <<mem, expected>>, csr'.scause = csr.scause
    PROVE  BootSaved'
  BY DEF BootSaved, ExpectedOK, FrameOK, CallOK

\* What was saved stays as long as memory does.
LEMMA IdleSavedKept ==
    ASSUME IdleSaved, UNCHANGED <<mem, expected>>, csr'.scause = csr.scause,
           reg'["a1"] = reg["a1"], reg'["a2"] = reg["a2"]
    PROVE  IdleSaved'
  BY DEF IdleSaved, ExpectedOK, CallOK

(* The three cases of a trap. *)
LEMMA CurrentCases ==
    ASSUME IInv
    PROVE  /\ Current \in Threads
           /\ Current = "boot" <=> csr.sscratch = <<0>>
           /\ Current = "user" <=> csr.sscratch = TrapFrame /\ proc = "shell"
           /\ Current = "idle" <=> csr.sscratch = TrapFrame /\ proc = "idle"
           /\ proc = "idle" => csr.sscratch = TrapFrame
  BY StackFacts DEF IInv, ShapeOK, CpuOK, Current, Threads

------------------------------------------------------------------------------
(* Each action preserves the invariant.                                    *)

\* The invariant holds at the start.
LEMMA InitIInv == Init => IInv
  <1> SUFFICES ASSUME Init PROVE IInv
    OBVIOUS
  <1> USE StackFacts DEF Init
  <1>1. ShapeOK
    BY DEF ShapeOK, Threads
  <1>2. CpuOK /\ SchedOK
    BY DEF CpuOK, SchedOK, Current, Threads, Regs
  <1>3. RunningOK /\ VectorOK /\ SavedOK /\ HandlerOK /\ SwitchOK
    BY DEF RunningOK, VectorOK, SavedOK, HandlerOK, SwitchOK, Handling, Threads, Stack, PlaceOf,
           Regs
  <1> QED
    BY <1>1, <1>2, <1>3 DEF IInv

(* A thread computes, and hart 0 enters the shell. *)
LEMMA ThreadIInv ==
    ASSUME IInv, (\E g \in {0, 1} : Compute(g)) \/ ShellInit \/ JumpToUserShell
    PROVE  IInv'
  <1> USE StackFacts DEF Compute, ShellInit, JumpToUserShell, procVars
  <1>1. ShapeOK'
    BY DEF IInv, ShapeOK, Threads
  <1>2. CpuOK' /\ SchedOK'
    BY DEF IInv, ShapeOK, CpuOK, SchedOK, Current, Threads, Regs
  <1>3. RunningOK'
    BY DEF IInv, ShapeOK, RunningOK, Stack, PlaceOf, Threads, Regs
  <1>4. at' \in {"boot", "user"} /\ proc' # "idle"
    BY DEF IInv, CpuOK, Current, Threads
  <1>5. VectorOK' /\ SavedOK' /\ HandlerOK' /\ SwitchOK'
    BY <1>4 DEF VectorOK, SavedOK, HandlerOK, SwitchOK, Handling
  <1> QED
    BY <1>1, <1>2, <1>3, <1>5 DEF IInv

(* Hardware takes a trap: nothing is saved yet. *)
LEMMA TrapIInv ==
    ASSUME IInv, TimerInterrupt \/ Ecall
    PROVE  IInv'
  <1> USE StackFacts DEF TakeTrap, procVars
  <1>1. at \in Threads /\ at = Current /\ Current' = Current
    BY DEF IInv, ShapeOK, CpuOK, Current, Threads, TimerInterrupt, Ecall
  <1>2. ShapeOK'
    <2>1. PICK place : expected' = [expected EXCEPT ![at] = [reg |-> reg, pc |-> place]]
      BY DEF TimerInterrupt, Ecall
    <2>2. ASSUME NEW t \in Threads
          PROVE  DOMAIN expected'[t] = {"reg", "pc"} /\ DOMAIN expected'[t].reg = Regs
      <3>1. CASE t = at
        BY <2>1, <3>1, <1>1 DEF IInv, ShapeOK
      <3>2. CASE t # at
        BY <2>1, <3>2, <1>1 DEF IInv, ShapeOK
      <3> QED
        BY <3>1, <3>2
    <2> QED
      BY <1>1, <2>1, <2>2 DEF IInv, ShapeOK, TimerInterrupt, Ecall
  <1>3. CpuOK' /\ SchedOK'
    BY <1>1 DEF IInv, ShapeOK, CpuOK, SchedOK, Threads, TimerInterrupt, Ecall
  <1>4. VectorOK'
    <2>1. PlaceOf(at, pc) /\ reg["sp"] = Stack(at)
      BY <1>1 DEF IInv, RunningOK
    <2>2. mode = Mode(at) /\ csr.sie = TRUE
      BY <1>1 DEF IInv, CpuOK, Mode
    <2>3. CASE TimerInterrupt
      BY <1>1, <2>1, <2>2, <2>3 DEF IInv, ShapeOK, VectorOK, PlaceOf, TimerInterrupt
    <2>4. CASE Ecall
      <3>1. PICK g \in {0, 1} : pc = Pc("user", g, 0) /\ [pc EXCEPT ![4] = 4] = Pc("user", g, 4)
        BY <2>1, <2>4, PlaceFacts DEF Ecall
      <3> QED
        BY <1>1, <2>1, <2>2, <2>4, <3>1 DEF IInv, ShapeOK, VectorOK, PlaceOf, Ecall
    <2> QED
      BY <2>3, <2>4
  <1>5. SavedOK'
    <2>1. proc = "idle" => UserSaved'
      <3> SUFFICES ASSUME proc = "idle" PROVE UserSaved'
        OBVIOUS
      <3>1. at # "user"
        BY <1>1 DEF Current
      <3> QED
        BY <3>1, <1>1, UserSavedKept DEF IInv, ShapeOK, SavedOK, EcallPending, TimerInterrupt, Ecall, Threads
    <2> QED
      BY <2>1 DEF SavedOK, Handling, TimerInterrupt, Ecall
  <1>6. RunningOK' /\ HandlerOK' /\ SwitchOK'
    BY <1>1 DEF IInv, RunningOK, HandlerOK, SwitchOK, Threads, TimerInterrupt, Ecall
  <1> QED
    BY <1>2, <1>3, <1>4, <1>5, <1>6 DEF IInv

(* trap_vector from user mode: the registers go to the trap frame. *)
LEMMA FromUserIInv ==
    ASSUME IInv, FromUser
    PROVE  IInv'
  <1> USE StackFacts DEF FromUser, CallHandler, procVars
  <1>1. Current = "user" /\ Current' = "user"
    BY CurrentCases DEF IInv, VectorOK, Mode, Current, Threads
  <1>2. /\ csr.sscratch = TrapFrame /\ proc = "shell"
        /\ reg["sp"] = <<"ustack", 0>>
        /\ csr.scause \in {<<"timer">>, <<"ecall">>}
    BY <1>1, CurrentCases DEF IInv, VectorOK, Stack
  <1>3. ShapeOK'
    BY <1>2 DEF IInv, ShapeOK, Threads
  <1>4. CpuOK' /\ SchedOK'
    BY <1>1, <1>2 DEF IInv, ShapeOK, CpuOK, SchedOK, Threads, Regs, CallerSaved
  <1>5. UserSaved'
    <2> DEFINE r == [reg EXCEPT !["t1"] = csr.scause, !["t0"] = csr.sscratch,
                                !["sp"] = csr.sscratch]
               F == Frame(r, reg["sp"])
    <2>1. /\ mem' = [[mem EXCEPT ![TrapFrame] = F] EXCEPT
                        ![<<"kstack", 1>>] = [ra |-> <<"trap_vector">>, s0 |-> r["s0"]]]
          /\ r["s0"] = reg["s0"]
      BY <1>2 DEF IInv, ShapeOK, Regs
    <2>2. mem'[TrapFrame] = F /\ mem'[<<"kstack", 1>>] = [ra |-> <<"trap_vector">>, s0 |-> reg["s0"]]
      BY <2>1 DEF IInv, ShapeOK
    <2>3. expected' = expected /\ expected["user"].reg = reg
      BY <1>1 DEF IInv, VectorOK
    <2>4. FrameOK(TrapFrame, "user", <<"ustack", 0>>)'
      BY <1>1, <1>2, <2>2, <2>3 DEF IInv, ShapeOK, VectorOK, FrameOK, Frame, SavedRegs, Regs, Mode
    <2>5. CallOK(<<"kstack", 1>>, "user", <<"trap_vector">>)'
      BY <2>2, <2>3 DEF CallOK
    <2>6. ExpectedOK("user")'
      BY <1>1, <1>2, <2>3 DEF IInv, CpuOK, VectorOK, ExpectedOK, Stack, PlaceOf
    <2>7. F.sepc = pc
      BY DEF IInv, VectorOK, Frame
    <2>8. EcallPending' <=> csr.scause = <<"ecall">>
      BY DEF EcallPending
    <2> QED
      BY <1>1, <1>2, <2>2, <2>3, <2>4, <2>5, <2>6, <2>7, <2>8 DEF IInv, VectorOK, UserSaved
  <1>6. SavedOK'
    BY <1>1, <1>2, <1>5 DEF SavedOK
  <1>7. HandlerOK'
    BY <1>1, <1>2 DEF IInv, ShapeOK, HandlerOK, HandlerStack, Regs
  <1>8. RunningOK' /\ VectorOK' /\ SwitchOK'
    BY <1>2 DEF RunningOK, VectorOK, SwitchOK, Threads
  <1> QED
    BY <1>3, <1>4, <1>6, <1>7, <1>8 DEF IInv

(* trap_vector from the kernel: the boot code is interrupted. *)
LEMMA FromKernelIInv ==
    ASSUME IInv, FromKernel
    PROVE  IInv'
  <1> USE StackFacts DEF FromKernel, CallHandler, procVars
  <1>1. Current = "boot" /\ Current' = "boot"
    BY CurrentCases DEF IInv, CpuOK, VectorOK, Mode, Current, Threads
  <1>2. /\ csr.sscratch = <<0>> /\ proc # "idle"
        /\ reg["sp"] = <<"boot", 0>>
        /\ csr.scause = <<"timer">>
    BY <1>1, CurrentCases DEF IInv, VectorOK, Stack
  <1>3. ShapeOK'
    BY <1>2 DEF IInv, ShapeOK, Threads, Regs
  <1>4. CpuOK' /\ SchedOK'
    BY <1>1, <1>2 DEF IInv, ShapeOK, CpuOK, SchedOK, Threads, Regs, CallerSaved
  <1>5. BootSaved'
    <2> DEFINE r == [reg EXCEPT !["t1"] = csr.scause, !["t0"] = <<"spp", "S">>, !["sp"] = Push(@)]
               F == Frame(r, <<0>>)
    <2>1. /\ mem' = [[mem EXCEPT ![<<"boot", 1>>] = F] EXCEPT
                        ![<<"boot", 2>>] = [ra |-> <<"trap_vector">>, s0 |-> r["s0"]]]
          /\ r["s0"] = reg["s0"]
      BY <1>2 DEF IInv, ShapeOK, Regs
    <2>2. mem'[<<"boot", 1>>] = F /\ mem'[<<"boot", 2>>] = [ra |-> <<"trap_vector">>, s0 |-> reg["s0"]]
      BY <2>1 DEF IInv, ShapeOK
    <2>3. expected' = expected /\ expected["boot"].reg = reg
      BY <1>1 DEF IInv, VectorOK
    <2>4. FrameOK(<<"boot", 1>>, "boot", <<0>>)'
      BY <1>1, <1>2, <2>2, <2>3 DEF IInv, ShapeOK, VectorOK, FrameOK, Frame, SavedRegs, Regs, Mode
    <2>5. CallOK(<<"boot", 2>>, "boot", <<"trap_vector">>)'
      BY <2>2, <2>3 DEF CallOK
    <2>6. ExpectedOK("boot")'
      BY <1>1, <1>2, <2>3 DEF IInv, CpuOK, VectorOK, ExpectedOK, Stack, PlaceOf
    <2>7. F.sepc = pc /\ expected["boot"].pc = pc
      BY <1>1, <1>2 DEF IInv, VectorOK, Frame
    <2> QED
      BY <1>2, <2>2, <2>3, <2>4, <2>5, <2>6, <2>7 DEF BootSaved
  <1>6. SavedOK'
    BY <1>1, <1>2, <1>5 DEF SavedOK
  <1>7. HandlerOK'
    BY <1>1, <1>2 DEF IInv, ShapeOK, HandlerOK, HandlerStack, Regs
  <1>8. RunningOK' /\ VectorOK' /\ SwitchOK'
    BY <1>2 DEF RunningOK, VectorOK, SwitchOK, Threads
  <1> QED
    BY <1>3, <1>4, <1>6, <1>7, <1>8 DEF IInv

(* idle_trap_vector: the place and sstatus stay in a1 and a2. *)
LEMMA IdleTrapVectorIInv ==
    ASSUME IInv, IdleTrapVector
    PROVE  IInv'
  <1> USE StackFacts DEF IdleTrapVector, CallHandler, procVars
  <1>1. Current = "idle" /\ Current' = "idle"
    BY CurrentCases DEF IInv, CpuOK, Current, Threads
  <1>2. /\ csr.sscratch = TrapFrame /\ proc = "idle"
        /\ reg["sp"] = <<"boot", 0>>
        /\ csr.scause = <<"timer">>
    BY <1>1, CurrentCases DEF IInv, VectorOK, Stack
  <1>3. ShapeOK'
    BY <1>2 DEF IInv, ShapeOK, Threads, Regs
  <1>4. CpuOK' /\ SchedOK'
    BY <1>1, <1>2 DEF IInv, ShapeOK, CpuOK, SchedOK, Threads, Regs, CallerSaved
  <1>5. IdleSaved'
    <2>1. mem' = [mem EXCEPT ![<<"boot", 1>>] = [ra |-> <<"idle_trap_vector">>, s0 |-> reg["s0"]]]
      BY <1>2 DEF IInv, ShapeOK, Regs
    <2>2. expected' = expected /\ expected["idle"].reg = reg /\ expected["idle"].pc = pc
      BY <1>1, <1>2 DEF IInv, VectorOK
    <2>3. CallOK(<<"boot", 1>>, "idle", <<"idle_trap_vector">>)'
      BY <2>1, <2>2 DEF IInv, ShapeOK, CallOK
    <2>4. ExpectedOK("idle")'
      BY <1>1, <1>2, <2>2 DEF IInv, CpuOK, VectorOK, ExpectedOK, Stack, PlaceOf
    <2>5. csr.sepc = pc /\ csr.spp = "S" /\ csr.spie = TRUE
      BY <1>1 DEF IInv, VectorOK, Mode
    <2>6. reg'["a1"] = pc /\ reg'["a2"] = <<"sstatus", "S", TRUE>>
      BY <2>5, TrapAssumption DEF IInv, ShapeOK, Regs, CallerSaved
    <2> QED
      BY <1>2, <2>2, <2>3, <2>4, <2>6 DEF IdleSaved
  <1>6. UserSaved'
    <2>1. mem'[TrapFrame] = mem[TrapFrame] /\ mem'[<<"kstack", 1>>] = mem[<<"kstack", 1>>]
      BY <1>2 DEF IInv, ShapeOK, Regs
    <2> QED
      BY <1>2, <2>1, UserSavedKept DEF IInv, SavedOK
  <1>7. SavedOK'
    BY <1>1, <1>5, <1>6 DEF SavedOK
  <1>8. HandlerOK'
    BY <1>1, <1>2 DEF IInv, ShapeOK, HandlerOK, HandlerStack, Regs
  <1>9. RunningOK' /\ VectorOK' /\ SwitchOK'
    BY <1>2 DEF IInv, RunningOK, VectorOK, SwitchOK, Threads
  <1> QED
    BY <1>3, <1>4, <1>7, <1>8, <1>9 DEF IInv

(* trap_handler returns to the vector that called it. *)
LEMMA HandlerReturnIInv ==
    ASSUME IInv, HandlerReturn
    PROVE  IInv'
  <1> USE StackFacts DEF HandlerReturn, procVars
  <1>1. Current' = Current /\ Current \in Threads
    BY CurrentCases DEF Current
  <1>2. /\ reg["sp"] = HandlerStack(Current)
        /\ mem[reg["sp"]].ra = IF Current = "idle" THEN <<"idle_trap_vector">> ELSE <<"trap_vector">>
        /\ mem[reg["sp"]].s0 = expected[Current].reg["s0"]
    <2> USE DEF IInv, HandlerOK, HandlerStack, SavedOK, CallOK, Handling
    <2>1. CASE Current = "boot"
      BY <2>1 DEF BootSaved
    <2>2. CASE Current = "user"
      BY <2>2 DEF UserSaved
    <2>3. CASE Current = "idle"
      BY <2>3 DEF IdleSaved
    <2> QED
      BY <1>1, <2>1, <2>2, <2>3 DEF Threads
  <1>3. ShapeOK' /\ CpuOK' /\ SchedOK'
    BY <1>1 DEF IInv, ShapeOK, CpuOK, SchedOK, Threads, Regs
  <1>4. HandlerOK'
    BY <1>1, <1>2 DEF IInv, ShapeOK, HandlerOK, Regs
  <1>5. SavedOK'
    <2>1. BootSaved => BootSaved'
      BY BootSavedKept
    <2>2. UserSaved => UserSaved'
      BY UserSavedKept DEF EcallPending
    <2>3. IdleSaved => IdleSaved'
      BY IdleSavedKept DEF IInv, ShapeOK, Regs
    <2> QED
      BY <1>1, <2>1, <2>2, <2>3 DEF IInv, SavedOK, Handling, Threads
  <1>6. RunningOK' /\ VectorOK' /\ SwitchOK'
    BY DEF IInv, RunningOK, VectorOK, SwitchOK, Threads
  <1> QED
    BY <1>3, <1>4, <1>5, <1>6 DEF IInv

(* What the end of trap_vector brings back. *)
LEMMA RestoreEffect ==
    ASSUME IInv, Restore
    PROVE  /\ Current \in {"boot", "user"} /\ Current' = Current
           /\ at' = Current /\ mode' = Mode(Current) /\ pc' = expected[Current].pc
           /\ csr'.sie = TRUE
           /\ \A r \in Regs \ {"t0", "t1"} : reg'[r] = expected[Current].reg[r]
  <1> USE StackFacts DEF Restore, Sret, procVars
  <1> DEFINE f == mem[reg["sp"]]
  <1>1. Current \in {"boot", "user"}
    BY CurrentCases DEF IInv, HandlerOK, Threads
  <1>2. /\ reg["sp"] = IF Current = "boot" THEN <<"boot", 1>> ELSE TrapFrame
        /\ FrameOK(reg["sp"], Current, IF Current = "boot" THEN <<0>> ELSE <<"ustack", 0>>)
        /\ f.sepc = expected[Current].pc
        /\ ExpectedOK(Current)
    <2> USE DEF IInv, HandlerOK, HandlerStack, SavedOK, Handling
    <2>1. CASE Current = "boot"
      BY <2>1 DEF BootSaved
    <2>2. CASE Current = "user"
      BY <2>2 DEF UserSaved, EcallPending
    <2> QED
      BY <1>1, <2>1, <2>2
  <1>3. f.sepc[2] = Current
    BY <1>2, PlaceFacts DEF ExpectedOK
  <1>4. f.spp = Mode(Current) /\ f.spie = TRUE
    BY <1>2 DEF FrameOK
  <1>5. /\ at' = Current /\ mode' = Mode(Current) /\ pc' = expected[Current].pc
        /\ csr'.sie = TRUE /\ csr'.sscratch = csr.sscratch
    BY <1>2, <1>3, <1>4 DEF IInv, ShapeOK
  <1>6. reg'["sp"] = expected[Current].reg["sp"]
    BY <1>1, <1>2, <1>4 DEF FrameOK, ExpectedOK, Stack, Mode, Regs
  <1>7. ASSUME NEW r \in Regs \ {"t0", "t1", "sp"} PROVE reg'[r] = expected[Current].reg[r]
    BY <1>2 DEF FrameOK, SavedRegs
  <1> QED
    BY <1>1, <1>5, <1>6, <1>7 DEF Current

\* The idle process resumes where it was.
LEMMA IdleRestoreEffect ==
    ASSUME IInv, IdleRestore
    PROVE  /\ Current = "idle" /\ Current' = Current
           /\ at' = "idle" /\ mode' = "S" /\ pc' = expected["idle"].pc
           /\ csr'.sie = TRUE
           /\ \A r \in {"sp", "tp", "s0"} : reg'[r] = expected["idle"].reg[r]
  <1> USE StackFacts DEF IdleRestore, Sret, procVars
  <1>1. Current = "idle"
    BY CurrentCases DEF IInv, HandlerOK, Threads
  <1>2. IdleSaved /\ HandlerStack("idle") = <<"boot", 1>>
    BY <1>1 DEF IInv, SavedOK, Handling, HandlerStack
  <1>3. expected["idle"].pc[2] = "idle"
    BY <1>2, PlaceFacts DEF IdleSaved, ExpectedOK
  <1>4. reg["a2"][2] = "S" /\ reg["a2"][3] = TRUE
    BY <1>2 DEF IdleSaved
  <1>5. /\ at' = "idle" /\ mode' = "S" /\ pc' = expected["idle"].pc
        /\ csr'.sie = TRUE /\ csr'.sscratch = csr.sscratch
    BY <1>2, <1>3, <1>4 DEF IInv, ShapeOK, IdleSaved
  <1>6. \A r \in {"sp", "tp", "s0"} : reg'[r] = expected["idle"].reg[r]
    BY <1>1, <1>2 DEF IInv, CpuOK, HandlerOK, IdleSaved, ExpectedOK, Stack
  <1> QED
    BY <1>1, <1>5, <1>6 DEF Current

(* The returns from a trap. *)
LEMMA ReturnIInv ==
    ASSUME IInv, Restore \/ IdleRestore
    PROVE  IInv'
  <1> USE StackFacts DEF procVars
  <1>1. /\ Current \in Threads /\ Current' = Current /\ at' = Current /\ mode' = Mode(Current)
        /\ pc' = expected[Current].pc /\ csr'.sie = TRUE
        /\ reg'["sp"] = expected[Current].reg["sp"] /\ reg'["tp"] = expected[Current].reg["tp"]
    BY RestoreEffect, IdleRestoreEffect, CurrentCases DEF Threads, Mode, Regs
  <1>2. ExpectedOK(Current)
    BY <1>1 DEF IInv, SavedOK, BootSaved, UserSaved, IdleSaved, Handling, Threads, Restore, IdleRestore
  <1>3. /\ UNCHANGED <<mem, ctx, proc, state, needs_sched, expected>>
        /\ DOMAIN csr' = DOMAIN csr /\ csr'.stvec = csr.stvec /\ csr'.sscratch = csr.sscratch
        /\ DOMAIN reg' = Regs
        /\ at = "restore"
    BY DEF IInv, ShapeOK, Restore, IdleRestore, Sret
  <1>4. ShapeOK'
    BY <1>1, <1>3 DEF IInv, ShapeOK
  <1>5. CpuOK' /\ SchedOK'
    BY <1>1, <1>2, <1>3 DEF IInv, ShapeOK, CpuOK, SchedOK, ExpectedOK, Mode, Threads
  <1>6. RunningOK'
    BY <1>1, <1>2 DEF RunningOK, ExpectedOK, PlaceOf, Stack
  <1>7. SavedOK'
    <2>1. proc = "idle" => UserSaved'
      BY <1>1, <1>3, UserSavedKept DEF IInv, SavedOK, EcallPending
    <2> QED
      BY <1>1, <1>3, <2>1 DEF SavedOK, Handling, Threads
  <1>8. VectorOK' /\ HandlerOK' /\ SwitchOK'
    BY <1>1, <1>3 DEF IInv, VectorOK, HandlerOK, SwitchOK, Threads
  <1> QED
    BY <1>4, <1>5, <1>6, <1>7, <1>8 DEF IInv

(* timer_handle. *)
LEMMA TimerHandleIInv ==
    ASSUME IInv, NEW wakes \in BOOLEAN, TimerHandle(wakes)
    PROVE  IInv'
  <1> USE StackFacts DEF TimerHandle, procVars
  <1>1. Current' = Current /\ Current \in Threads
    BY CurrentCases DEF Current
  <1>2. ShapeOK' /\ CpuOK' /\ SchedOK'
    BY <1>1 DEF IInv, ShapeOK, CpuOK, SchedOK, Threads
  <1>3. SavedOK'
    <2>1. BootSaved => BootSaved'
      BY BootSavedKept
    <2>2. UserSaved => UserSaved'
      BY UserSavedKept DEF EcallPending
    <2>3. IdleSaved => IdleSaved'
      BY IdleSavedKept
    <2> QED
      BY <1>1, <2>1, <2>2, <2>3 DEF IInv, SavedOK, Handling, Threads
  <1>4. HandlerOK'
    BY <1>1 DEF IInv, HandlerOK, HandlerStack
  <1>5. RunningOK' /\ VectorOK' /\ SwitchOK'
    BY DEF IInv, RunningOK, VectorOK, SwitchOK, Threads
  <1> QED
    BY <1>2, <1>3, <1>4, <1>5 DEF IInv

(* syscall_handler changes sepc and a0 in the frame. *)
LEMMA SyscallHandlerIInv ==
    ASSUME IInv, NEW returns \in BOOLEAN, NEW sleeps \in BOOLEAN, NEW sched \in BOOLEAN,
           SyscallHandler(returns, sleeps, sched)
    PROVE  IInv'
  <1>1. Current = "user" /\ Current' = "user" /\ csr.sscratch = TrapFrame /\ proc = "shell"
    <2>1. at = "handler" /\ csr.scause # <<"timer">> /\ UNCHANGED <<csr, proc>>
      BY DEF SyscallHandler
    <2>2. Current # "boot"
      BY <2>1 DEF IInv, SavedOK, BootSaved, Handling
    <2>3. Current # "idle"
      BY <2>1 DEF IInv, SavedOK, IdleSaved, Handling
    <2> QED
      BY <2>1, <2>2, <2>3, CurrentCases DEF Current, Threads
  <1> USE StackFacts DEF SyscallHandler
  <1>2. UserSaved /\ state = "RUNNING"
    BY <1>1 DEF IInv, ShapeOK, SchedOK, SavedOK, Handling
  <1> DEFINE f == mem[TrapFrame]
             e == expected["user"]
             a0 == IF returns THEN <<"result">> ELSE f.regs["a0"]
  <1>3. /\ DOMAIN mem' = Addresses
        /\ mem'[TrapFrame] = [f EXCEPT !.sepc[4] = f.sepc[4] + 4, !.regs["a0"] = a0]
        /\ mem'[<<"kstack", 1>>] = mem[<<"kstack", 1>>]
    BY DEF IInv, ShapeOK
  <1>4. /\ DOMAIN expected' = Threads
        /\ expected'["user"] =
              [e EXCEPT !.reg["a0"] = IF returns THEN <<"result">> ELSE e.reg["a0"]]
        /\ \A t \in Threads \ {"user"} : expected'[t] = expected[t]
    BY DEF IInv, ShapeOK, Threads
  <1>5. /\ DOMAIN expected'["user"] = {"reg", "pc"}
        /\ expected'["user"].pc = e.pc
        /\ DOMAIN expected'["user"].reg = Regs
        /\ expected'["user"].reg["a0"] = IF returns THEN <<"result">> ELSE e.reg["a0"]
        /\ \A r \in Regs \ {"a0"} : expected'["user"].reg[r] = e.reg[r]
    BY <1>4 DEF IInv, ShapeOK, Threads, Regs
  <1>6. ShapeOK'
    BY <1>1, <1>2, <1>3, <1>4, <1>5 DEF IInv, ShapeOK
  <1>7. CpuOK'
    BY <1>1, <1>2 DEF IInv, ShapeOK, CpuOK, Threads
  <1>8. SchedOK'
    BY <1>1, <1>2 DEF IInv, SchedOK
  <1>9. UserSaved'
    <2>1. /\ DOMAIN mem'[TrapFrame] = {"regs", "user_sp", "sepc", "spp", "spie"}
          /\ DOMAIN mem'[TrapFrame].regs = SavedRegs
          /\ mem'[TrapFrame].regs["a0"] = a0
          /\ \A r \in SavedRegs \ {"a0"} : mem'[TrapFrame].regs[r] = f.regs[r]
          /\ mem'[TrapFrame].user_sp = f.user_sp /\ mem'[TrapFrame].spp = f.spp
          /\ mem'[TrapFrame].spie = f.spie
          /\ mem'[TrapFrame].sepc = [f.sepc EXCEPT ![4] = f.sepc[4] + 4]
      BY <1>2, <1>3 DEF UserSaved, FrameOK, SavedRegs, Regs
    <2>2. FrameOK(TrapFrame, "user", <<"ustack", 0>>)'
      <3>1. ASSUME NEW r \in SavedRegs \ {"t0", "t1"}
            PROVE  mem'[TrapFrame].regs[r] = expected'["user"].reg[r]
        <4>1. CASE r = "a0"
          BY <4>1, <1>2, <1>5, <2>1 DEF UserSaved, FrameOK, SavedRegs, Regs
        <4>2. CASE r # "a0"
          <5>1. f.regs[r] = e.reg[r]
            BY <1>2 DEF UserSaved, FrameOK
          <5> HIDE DEF f, e
          <5> QED
            BY <4>2, <5>1, <1>5, <2>1 DEF SavedRegs
        <4> QED
          BY <4>1, <4>2
      <3> QED
        BY <1>2, <2>1, <3>1 DEF UserSaved, FrameOK
    <2>3. CallOK(<<"kstack", 1>>, "user", <<"trap_vector">>)'
      BY <1>2, <1>3, <1>5 DEF UserSaved, CallOK, Regs
    <2>4. ExpectedOK("user")'
      BY <1>2, <1>5 DEF UserSaved, ExpectedOK, PlaceOf, Stack, Regs
    <2>5. PICK g \in {0, 1} : f.sepc = Pc("user", g, 0) /\ e.pc = Pc("user", g, 4)
      BY <1>1, <1>2 DEF UserSaved, EcallPending
    <2>6. mem'[TrapFrame].sepc = expected'["user"].pc
      BY <1>5, <2>1, <2>5, EcallMoves
    <2> QED
      BY <2>2, <2>3, <2>4, <2>6 DEF UserSaved, EcallPending
  <1>10. SavedOK'
    BY <1>1, <1>9 DEF SavedOK
  <1>11. HandlerOK' /\ RunningOK' /\ VectorOK' /\ SwitchOK'
    BY <1>1 DEF IInv, HandlerOK, HandlerStack, RunningOK, VectorOK, SwitchOK, Threads
  <1> QED
    BY <1>6, <1>7, <1>8, <1>10, <1>11 DEF IInv

(* schedule switches from idle to the shell, in the middle of the handler *)
(* that interrupted idle, into the middle of the one the shell is in.     *)
LEMMA ScheduleNextIInv ==
    ASSUME IInv, ScheduleNext
    PROVE  IInv'
  <1> USE StackFacts DEF ScheduleNext, Swtch, SwtchRegs
  <1>1. csr.sscratch = TrapFrame /\ Current' = "user"
    BY CurrentCases DEF IInv, ShapeOK, Current
  <1>2. UserSaved /\ ctx["shell"] = [ra |-> <<"schedule">>, sp |-> <<"kstack", 1>>,
                                     s0 |-> <<"kstack", 1>>]
    BY DEF IInv, SavedOK, SwitchOK
  <1>3. at' = "end" /\ reg'["sp"] = <<"kstack", 1>> /\ reg'["s0"] = <<"kstack", 1>>
    BY <1>2 DEF Regs
  <1>4. ShapeOK'
    BY <1>2 DEF IInv, ShapeOK
  <1>5. CpuOK' /\ SchedOK'
    BY <1>1, <1>3 DEF IInv, ShapeOK, CpuOK, SchedOK, Threads, Regs
  <1>6. UserSaved'
    BY <1>2, <1>3, UserSavedKept DEF EcallPending
  <1>7. SavedOK' /\ HandlerOK'
    BY <1>1, <1>3, <1>6 DEF SavedOK, HandlerOK, HandlerStack
  <1>8. RunningOK' /\ VectorOK' /\ SwitchOK'
    BY <1>3 DEF RunningOK, VectorOK, SwitchOK, Threads
  <1> QED
    BY <1>4, <1>5, <1>7, <1>8 DEF IInv

(* schedule switches from the shell to a new run of idle_loop. *)
LEMMA ScheduleIdleIInv ==
    ASSUME IInv, ScheduleIdle
    PROVE  IInv'
  <1> USE StackFacts DEF ScheduleIdle, Swtch, SwtchRegs
  <1>1. csr.sscratch = TrapFrame /\ Current = "user" /\ Current' = "idle"
    BY CurrentCases DEF IInv, ShapeOK, CpuOK, Current
  <1>2. UserSaved /\ reg["sp"] = <<"kstack", 1>> /\ reg["s0"] = <<"kstack", 1>>
    BY <1>1 DEF IInv, SavedOK, HandlerOK, HandlerStack, Handling
  <1>3. at' = "idle_loop" /\ reg'["sp"] = <<"boot", 0>>
    BY DEF IInv, ShapeOK, Regs
  <1>4. ctx' = [[ctx EXCEPT !["idle"].ra = <<"idle_loop">>, !["idle"].sp = <<"boot", 0>>]
                  EXCEPT !["shell"] = [x \in {"ra", "sp", "s0"} |->
                                          IF x = "ra" THEN <<"schedule">> ELSE reg[x]]]
    BY DEF IInv, ShapeOK
  <1>5. /\ DOMAIN ctx' = {"shell", "idle"} /\ DOMAIN ctx'["idle"] = {"ra", "sp", "s0"}
        /\ ctx'["shell"] = [ra |-> <<"schedule">>, sp |-> <<"kstack", 1>>, s0 |-> <<"kstack", 1>>]
    BY <1>2, <1>4 DEF IInv, ShapeOK
  <1>6. ShapeOK'
    BY <1>3, <1>5 DEF IInv, ShapeOK
  <1>7. CpuOK' /\ SchedOK'
    BY <1>1, <1>3 DEF IInv, ShapeOK, CpuOK, SchedOK, Threads, Regs
  <1>8. UserSaved'
    BY <1>2, <1>3, UserSavedKept DEF EcallPending
  <1>9. SavedOK' /\ HandlerOK' /\ SwitchOK'
    BY <1>3, <1>5, <1>8 DEF SavedOK, HandlerOK, SwitchOK, Handling
  <1>10. RunningOK' /\ VectorOK'
    BY <1>3 DEF RunningOK, VectorOK, Threads
  <1> QED
    BY <1>6, <1>7, <1>9, <1>10 DEF IInv

\* idle_loop sets its vector and waits.
LEMMA IdleLoopIInv ==
    ASSUME IInv, IdleLoop
    PROVE  IInv'
  <1> USE StackFacts DEF IdleLoop, procVars
  <1>1. Current = "idle" /\ Current' = "idle" /\ proc = "idle" /\ csr.sscratch = TrapFrame
    BY CurrentCases DEF IInv, ShapeOK, CpuOK, Current
  <1>2. ShapeOK' /\ CpuOK' /\ SchedOK'
    BY <1>1 DEF IInv, ShapeOK, CpuOK, SchedOK, Threads
  <1>3. RunningOK'
    BY DEF IInv, SwitchOK, RunningOK, PlaceOf, Stack
  <1>4. SavedOK'
    BY <1>1, UserSavedKept DEF IInv, SavedOK, EcallPending, Handling
  <1>5. VectorOK' /\ HandlerOK' /\ SwitchOK'
    BY DEF IInv, VectorOK, HandlerOK, SwitchOK
  <1> QED
    BY <1>2, <1>3, <1>4, <1>5 DEF IInv

\* Nothing changes.
LEMMA StutterIInv == IInv /\ UNCHANGED vars => IInv'
  <1> SUFFICES ASSUME IInv, UNCHANGED vars PROVE IInv'
    OBVIOUS
  <1> USE DEF vars
  <1>1. ShapeOK' /\ CpuOK' /\ SchedOK' /\ SwitchOK'
    BY DEF IInv, ShapeOK, CpuOK, SchedOK, SwitchOK, Current
  <1>2. RunningOK' /\ VectorOK' /\ HandlerOK'
    BY DEF IInv, RunningOK, VectorOK, HandlerOK, Current, PlaceOf
  <1>3. SavedOK'
    BY DEF IInv, SavedOK, UserSaved, BootSaved, IdleSaved, ExpectedOK, FrameOK, CallOK, PlaceOf,
           EcallPending, Current
  <1> QED
    BY <1>1, <1>2, <1>3 DEF IInv

------------------------------------------------------------------------------
(* The inductive invariant holds. *)
LEMMA NextIInv == IInv /\ [Next]_vars => IInv'
  BY ThreadIInv, TrapIInv, FromUserIInv, FromKernelIInv, IdleTrapVectorIInv, HandlerReturnIInv,
     ReturnIInv, TimerHandleIInv, SyscallHandlerIInv, ScheduleNextIInv, ScheduleIdleIInv,
     IdleLoopIInv, StutterIInv DEF Next

(* At every moment the registers, frames and contexts of the threads that  *)
(* do not execute are where the code that resumes them will look for them. *)
THEOREM Invariance == Spec => []IInv
  BY InitIInv, NextIInv, PTL DEF Spec

(* trap_handler and what it calls run with interrupts off, on the kernel   *)
(* stack of the process whose trap they handle, with the cpu_t in tp and   *)
(* the frame pointer of the function they are in.                          *)
THEOREM HandlerEnvironmentHolds == Spec => []HandlerEnvironment
  <1>1. IInv => HandlerEnvironment
    <2> SUFFICES ASSUME IInv, at \in {"handler", "end"} PROVE HandlerEnvironment
      BY DEF HandlerEnvironment
    <2>1. ~csr.sie /\ mode = "S" /\ reg["tp"] = Cpu
      BY DEF IInv, CpuOK, Threads
    <2>2. reg["s0"] = reg["sp"] /\ reg["sp"] = HandlerStack(Current)
      BY DEF IInv, HandlerOK
    <2>3. CASE Current = "boot"
      BY <2>1, <2>2, <2>3, CurrentCases, StackFacts
      DEF IInv, SavedOK, BootSaved, CallOK, HandlerStack, Handling, HandlerEnvironment
    <2>4. CASE Current = "user"
      BY <2>1, <2>2, <2>4, CurrentCases, StackFacts
      DEF IInv, SavedOK, UserSaved, CallOK, HandlerStack, Handling, HandlerEnvironment
    <2>5. CASE Current = "idle"
      <3>1. IdleSaved
        BY <2>5 DEF IInv, SavedOK, Handling
      <3>2. mem[<<"boot", 1>>].ra = <<"idle_trap_vector">>
        BY <3>1 DEF IdleSaved, CallOK
      <3> QED
        BY <2>1, <2>2, <2>5, <3>2, CurrentCases, StackFacts
        DEF HandlerStack, HandlerEnvironment
    <2> QED
      BY <2>3, <2>4, <2>5, CurrentCases DEF Threads
  <1> QED
    BY <1>1, Invariance, PTL

(* Interrupted code is resumed at its place, in its mode, with interrupts  *)
(* on and with its registers, t0 and t1 excepted.                          *)
THEOREM InterruptedCodeResumes == Spec => ResumedIntact
  <1> DEFINE Intact ==
        Resumes =>
          /\ pc' = expected[at'].pc
          /\ mode' = IF at' = "user" THEN "U" ELSE "S"
          /\ csr'.sie
          /\ \A r \in IF at' = "idle" THEN {"sp", "tp", "s0"} ELSE Regs \ {"t0", "t1"} :
                reg'[r] = expected[at'].reg[r]
  <1>1. ASSUME IInv, [Next]_vars PROVE [Intact]_vars
    <2> SUFFICES ASSUME Next, Resumes PROVE Intact
      BY <1>1
    <2>1. Restore \/ IdleRestore
      BY DEF Next, Resumes, Threads, Compute, ShellInit, JumpToUserShell, TimerInterrupt, Ecall,
             TakeTrap, FromUser, FromKernel, IdleTrapVector, HandlerReturn, TimerHandle,
             SyscallHandler, ScheduleNext, ScheduleIdle, IdleLoop
    <2>2. CASE Restore
      BY <1>1, <2>2, RestoreEffect DEF Mode
    <2>3. CASE IdleRestore
      BY <1>1, <2>3, IdleRestoreEffect
    <2> QED
      BY <2>1, <2>2, <2>3
  <1> QED
    BY <1>1, Invariance, PTL DEF Spec, ResumedIntact
==============================================================================
