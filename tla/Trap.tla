-------------------------------- MODULE Trap --------------------------------
(***************************************************************************)
(* The registers of hart 0 across traps and context switches: trap_vector  *)
(* and idle_trap_vector (trap_vec.S), swtch (swtch.S), and what the code   *)
(* in between does to registers, trap frames and stacks.  Three threads    *)
(* can be interrupted: s_mode_main ("boot"), the shell in user mode        *)
(* ("user") and idle_loop ("idle").  Kernel.tla, which models when these   *)
(* things happen, takes it for granted that interrupted code is resumed as *)
(* it was; here that is a property.                                        *)
(*                                                                         *)
(* A value is a tuple that says where it comes from.  Kernel code that     *)
(* runs with SIE clear is cut into its calls and returns.                  *)
(***************************************************************************)
EXTENDS Naturals

CONSTANT HandlerKeeps   \* the registers that trap_handler leaves alone, although it need not,
                        \*   when it finds the idle process current and wakes nobody

\* tp stands for gp too, t2 for t2 to t6, a3 for a3 to a7, s0 for s0 to s11.
Regs == {"ra", "sp", "tp", "t0", "t1", "t2", "s0", "a0", "a1", "a2", "a3"}
CallerSaved == Regs \ {"sp", "tp", "s0"}

\* idle_trap_vector relies on a1 and a2; a build without optimization leaves them.
ASSUME TrapAssumption == HandlerKeeps \subseteq CallerSaved /\ {"a1", "a2"} \subseteq HandlerKeeps

VARIABLES
    reg,          \* the registers
    csr,          \* sepc, sstatus (spp, spie, sie), scause, stvec, sscratch
    mode,         \* "U" or "S"
    at,           \* the thread that executes, or where the kernel is
    pc,           \* the position of the executing thread
    mem,          \* mem[a]: the trap frame or the saved registers at stack address a
    ctx,          \* ctx[p]: p->ctx
    proc,         \* the current process, "none" before shell_init
    state,        \* the state of the shell
    needs_sched,
    expected      \* expected[t]: what thread t must find when it is resumed (bookkeeping)

vars == <<reg, csr, mode, at, pc, mem, ctx, proc, state, needs_sched, expected>>
procVars == <<ctx, proc, state, needs_sched>>

Threads == {"boot", "user", "idle"}

\* The value that thread t has computed into register r in round g.
Own(t, g, r) == <<t, g, r>>
Pc(t, g, offset) == <<"pc", t, g, offset>>
Clobbered == <<"C">>
Cpu == <<"cpu">>

\* Stacks grow down; an address is a stack and the number of frames on it.
\* The trap frame of a process is the first thing on its kernel stack, the
\* boot stack is also the stack of the idle process.
Push(sp) == <<sp[1], sp[2] + 1>>
Pop(sp) == <<sp[1], sp[2] - 1>>
TrapFrame == <<"kstack", 0>>
Addresses == {"kstack", "boot"} \X (0 .. 2)
NoFrame == [ra |-> <<0>>, s0 |-> <<0>>]

\* s_mode_main after timer_init and setup_idle_proc; create_proc leaves
\* ctx.ra = 0.
Init ==
    /\ reg = [r \in Regs |-> CASE r = "sp" -> <<"boot", 0>> [] r = "tp" -> Cpu
                               [] OTHER -> Own("boot", 0, r)]
    /\ csr = [sepc |-> <<0>>, spp |-> "U", spie |-> FALSE, sie |-> TRUE, scause |-> <<0>>,
              stvec |-> "trap_vector", sscratch |-> <<0>>]
    /\ mode = "S"
    /\ at = "boot"
    /\ pc = Pc("boot", 0, 0)
    /\ mem = [a \in Addresses |-> NoFrame]
    /\ ctx = [p \in {"shell", "idle"} |->
                [ra |-> IF p = "idle" THEN <<"idle_loop">> ELSE <<0>>,
                 sp |-> IF p = "idle" THEN <<"boot", 0>> ELSE TrapFrame, s0 |-> <<0>>]]
    /\ proc = "none"
    /\ state = "RUNNING"
    /\ needs_sched = 0
    /\ expected = [t \in Threads |-> [reg |-> reg, pc |-> pc]]

------------------------------------------------------------------------------
(* The threads and the hardware.                                           *)

\* A thread computes: every register but the stack pointer and tp, which
\* compiled code does not touch, gets a new value.  idle_loop uses none.
Compute(g) ==
    /\ at \in {"boot", "user"}
    /\ reg' = [r \in Regs |-> IF r \in {"sp", "tp"} THEN reg[r] ELSE Own(at, g, r)]
    /\ pc' = Pc(at, g, 0)
    /\ UNCHANGED <<csr, mode, at, mem, procVars, expected>>

\* shell_init, after which the boot code is interrupted with a current process.
ShellInit ==
    /\ at = "boot" /\ proc = "none"
    /\ proc' = "shell"
    /\ UNCHANGED <<reg, csr, mode, at, pc, mem, ctx, state, needs_sched, expected>>

\* Where this sret ends up is the concern of Boot; the registers stay as they are.
JumpToUserShell ==
    /\ at = "boot" /\ proc = "shell"
    /\ reg' = [reg EXCEPT !["sp"] = <<"ustack", 0>>]
    /\ csr' = [csr EXCEPT !.sscratch = TrapFrame, !.spp = "U", !.spie = TRUE, !.sie = TRUE]
    /\ mode' = "U"
    /\ at' = "user"
    /\ pc' = Pc("user", 0, 0)
    /\ UNCHANGED <<mem, procVars, expected>>

\* Hardware: a trap with this cause.  A system call is to be resumed behind the ecall.
TakeTrap(cause) ==
    /\ csr' = [csr EXCEPT !.sepc = pc, !.spp = mode, !.spie = csr.sie, !.sie = FALSE,
                          !.scause = <<cause>>]
    /\ mode' = "S"
    /\ at' = "vector"
    /\ expected' = [expected EXCEPT ![at] =
                       [reg |-> reg, pc |-> IF cause = "ecall" THEN [pc EXCEPT ![4] = 4] ELSE pc]]
    /\ UNCHANGED <<reg, pc, mem, procVars>>

TimerInterrupt == at \in Threads /\ (mode = "U" \/ csr.sie) /\ TakeTrap("timer")

\* One system call per round of computing.
Ecall == at = "user" /\ pc[4] = 0 /\ TakeTrap("ecall")

\* Hardware: sret with these values of sepc and sstatus.
Sret(sepc, spp, spie) ==
    /\ csr' = [csr EXCEPT !.sepc = sepc, !.spp = "U", !.spie = TRUE, !.sie = spie]
    /\ mode' = spp
    /\ pc' = sepc
    /\ at' = sepc[2]

------------------------------------------------------------------------------
(* Entry and exit, trap_vec.S.                                             *)

\* The call of trap_handler from a vector, with registers r: the C code saves
\* ra and s0 on the stack, points s0 to its frame and uses the others freely.
CallHandler(r, memory, vector, kept) ==
    /\ mem' = [memory EXCEPT ![Push(r["sp"])] = [ra |-> vector, s0 |-> r["s0"]]]
    /\ reg' = [x \in Regs |-> IF x \in {"sp", "s0"} THEN Push(r["sp"])
                              ELSE IF x \in CallerSaved \ kept THEN Clobbered ELSE r[x]]
    /\ at' = "handler"
    /\ UNCHANGED <<csr, mode, pc, procVars, expected>>

SavedRegs_NoT2 == Regs \ {"sp", "t2"}

\* The registers between .save_regs and the CSRs.
SavedRegs == Regs \ {"sp"}

\* The frame; user_sp is the x2 slot, which only .from_user writes.
Frame(r, user_sp) ==
    [regs |-> [x \in SavedRegs |-> r[x]], user_sp |-> user_sp,
     sepc |-> csr.sepc, spp |-> csr.spp, spie |-> csr.spie]

\* t1 and t0 are overwritten before they are saved.
FromUser ==
    LET r == [reg EXCEPT !["t1"] = csr.scause, !["t0"] = csr.sscratch, !["sp"] = csr.sscratch] IN
    /\ at = "vector" /\ csr.stvec = "trap_vector" /\ csr.spp = "U"
    /\ CallHandler(r, [mem EXCEPT ![csr.sscratch] = Frame(r, reg["sp"])], <<"trap_vector">>, {})

FromKernel ==
    LET r == [reg EXCEPT !["t1"] = csr.scause, !["t0"] = <<"spp", "S">>, !["sp"] = Push(@)] IN
    /\ at = "vector" /\ csr.stvec = "trap_vector" /\ csr.spp = "S"
    /\ CallHandler(r, [mem EXCEPT ![r["sp"]] = Frame(r, <<0>>)], <<"trap_vector">>, {})

IdleTrapVector ==
    LET r == [reg EXCEPT !["a0"] = csr.scause, !["a1"] = csr.sepc,
                         !["a2"] = <<"sstatus", csr.spp, csr.spie>>, !["a3"] = <<"stval">>] IN
    /\ at = "vector" /\ csr.stvec = "idle_trap_vector"
    /\ CallHandler(r, mem, <<"idle_trap_vector">>, HandlerKeeps)

\* The end of trap_handler: back to the vector.
HandlerReturn ==
    /\ at = "end" /\ needs_sched = 0
    /\ LET f == mem[reg["sp"]] IN
        reg' = [reg EXCEPT !["ra"] = f.ra, !["s0"] = f.s0, !["sp"] = Pop(@)]
    /\ at' = "restore"
    /\ UNCHANGED <<csr, mode, pc, mem, procVars, expected>>

\* t0 is overwritten after it has been restored.
Restore ==
    /\ at = "restore" /\ reg["ra"] = <<"trap_vector">>
    /\ LET f == mem[reg["sp"]] IN
        /\ reg' = [x \in Regs |->
                      CASE x = "t0" -> <<"spp", f.spp>>
                        [] x = "sp" -> IF f.spp = "U" THEN f.user_sp ELSE Pop(reg["sp"])
                        [] x \in SavedRegs \ {"t0"} -> f.regs[x]
                        [] OTHER -> reg[x]]
        /\ Sret(f.sepc, f.spp, f.spie)
    /\ UNCHANGED <<mem, procVars, expected>>

\* sepc and sstatus come from a1 and a2, which have been through a C function.
IdleRestore ==
    /\ at = "restore" /\ reg["ra"] = <<"idle_trap_vector">>
    /\ Sret(reg["a1"], reg["a2"][2], reg["a2"][3])
    /\ UNCHANGED <<reg, mem, procVars, expected>>

------------------------------------------------------------------------------
(* trap_handler, schedule and swtch.                                       *)

\* timer_handle may find that the shell's time has come.
TimerHandle(wakes) ==
    /\ at = "handler" /\ csr.scause = <<"timer">>
    /\ wakes => state = "SLEEPING"
    /\ state' = IF wakes THEN "RUNNABLE" ELSE state
    /\ needs_sched' = IF wakes THEN 1 ELSE needs_sched
    /\ at' = "end"
    /\ UNCHANGED <<reg, csr, mode, pc, mem, ctx, proc, expected>>

\* syscall_handler: the call sleeps, gives up the processor for good (exit, and
\* yield or a refused sleep with no other process) or returns at once.  yield
\* and exit leave a0 alone.
SyscallHandler(returns, sleeps, sched) ==
    /\ at = "handler" /\ csr.scause = <<"ecall">>
    /\ sleeps => returns /\ sched
    /\ returns \/ sched
    /\ mem' = [mem EXCEPT ![TrapFrame].sepc[4] = @ + 4,
                          ![TrapFrame].regs["a0"] = IF returns THEN <<"result">> ELSE @]
    /\ expected' = [expected EXCEPT !["user"].reg["a0"] = IF returns THEN <<"result">> ELSE @]
    /\ state' = IF sleeps THEN "SLEEPING" ELSE state
    /\ needs_sched' = IF sched THEN 1 ELSE 0
    /\ at' = "end"
    /\ UNCHANGED <<reg, csr, mode, pc, ctx, proc>>

SwtchRegs_NoS == {"ra", "sp"}

SwtchRegs == {"ra", "sp", "s0"}

\* swtch, called by schedule: ra is an address in schedule.  The ret at its end
\* leads to schedule's caller on the new stack, or to idle_loop.
Swtch(old, new, contexts) ==
    /\ ctx' = [contexts EXCEPT ![old] = [x \in {"ra", "sp", "s0"} |->
                  IF x \notin SwtchRegs THEN @[x] ELSE IF x = "ra" THEN <<"schedule">> ELSE reg[x]]]
    /\ reg' = [x \in Regs |-> IF x \in SwtchRegs THEN contexts[new][x] ELSE reg[x]]
    /\ at' = IF contexts[new].ra = <<"schedule">> THEN "end" ELSE "idle_loop"
    /\ proc' = new
    /\ needs_sched' = 0
    /\ UNCHANGED <<mode, pc, mem, expected>>

\* schedule with the shell in the run queue.
ScheduleNext ==
    /\ at = "end" /\ needs_sched = 1 /\ state = "RUNNABLE" /\ proc = "idle"
    /\ state' = "RUNNING"
    /\ csr' = [csr EXCEPT !.stvec = "trap_vector", !.sscratch = TrapFrame]
    /\ Swtch("idle", "shell", ctx)

\* schedule with an empty run queue; idle starts anew.
ScheduleIdle ==
    /\ at = "end" /\ needs_sched = 1 /\ state # "RUNNABLE" /\ proc = "shell"
    /\ Swtch("shell", "idle",
             [ctx EXCEPT !["idle"].ra = <<"idle_loop">>, !["idle"].sp = <<"boot", 0>>])
    /\ UNCHANGED <<csr, state>>

IdleLoop ==
    /\ at = "idle_loop"
    /\ csr' = [csr EXCEPT !.stvec = "idle_trap_vector", !.sie = TRUE]
    /\ at' = "idle"
    /\ pc' = Pc("idle", 0, 0)
    /\ UNCHANGED <<reg, mode, mem, procVars, expected>>

------------------------------------------------------------------------------
Next ==
    \/ \E g \in {0, 1} : Compute(g)
    \/ ShellInit \/ JumpToUserShell \/ TimerInterrupt \/ Ecall
    \/ FromUser \/ FromKernel \/ IdleTrapVector \/ HandlerReturn \/ Restore \/ IdleRestore
    \/ \E wakes \in BOOLEAN : TimerHandle(wakes)
    \/ \E returns, sleeps, sched \in BOOLEAN : SyscallHandler(returns, sleeps, sched)
    \/ ScheduleNext \/ ScheduleIdle \/ IdleLoop

Spec == Init /\ [][Next]_vars

------------------------------------------------------------------------------
(* Correctness.                                                            *)

Resumes == at = "restore" /\ at' \in Threads

\* Interrupted code is resumed where it was, behind the ecall after a system
\* call, in its own mode, with interrupts as they were and with its registers:
\* across handlers written in C, across sleeping while the idle process runs and
\* is interrupted itself, and whatever the boot code left on the stack.  The
\* temporaries t0 and t1 are not claimed.  Of the registers of idle_loop, which
\* uses none of them, only those that hold its stack and the cpu_t are.
ResumedIntact ==
    [][Resumes =>
         /\ pc' = expected[at'].pc
         /\ mode' = IF at' = "user" THEN "U" ELSE "S"
         /\ csr'.sie
         /\ \A r \in IF at' = "idle" THEN {"sp", "tp", "s0"} ELSE Regs \ {"t0", "t1"} :
               reg'[r] = expected[at'].reg[r]]_vars

\* The C code of the kernel runs with interrupts off, finds the hart's cpu_t
\* through tp, and runs on the kernel stack of the process whose trap it
\* handles: the boot stack for boot code and idle, the shell's own for the
\* shell.  Its locals, which it addresses through s0, are those of the
\* function it is in, also when swtch has switched stacks under it.
HandlerEnvironment ==
    at \in {"handler", "end"} =>
        /\ ~csr.sie /\ mode = "S"
        /\ reg["tp"] = Cpu
        /\ reg["s0"] = reg["sp"]
        /\ mem[reg["sp"]].ra = IF proc = "idle" THEN <<"idle_trap_vector">> ELSE <<"trap_vector">>
        /\ reg["sp"] = IF csr.sscratch # TrapFrame THEN <<"boot", 2>>
                       ELSE IF proc = "idle" THEN <<"boot", 1>> ELSE <<"kstack", 1>>

\* All registers are saved and restored: "Save x1-x31 (excluding x0, and x2
\* already saved if from_user)", trap_vec.S:30.
TemporariesIntact ==
    [][Resumes /\ at' # "idle" => \A r \in {"t0", "t1"} : reg'[r] = expected[at'].reg[r]]_vars
==============================================================================
