------------------------------- MODULE Spinlock -------------------------------
(***************************************************************************)
(* kernel/spinlock.c, one step per access to shared or interruptible       *)
(* state, together with what its callers look like to it: the boot code of *)
(* start.c, which takes locks in M-mode and then in S-mode with interrupts *)
(* on, and the trap handlers, which take locks with interrupts off.        *)
(*                                                                         *)
(* A lock is a natural number, its place in the nesting order of the call  *)
(* sites: a snub cache lock is taken before buddy_lock (kmalloc calls      *)
(* alloc_page), buddy_lock before uart_lock (page_addr's error path).      *)
(* Locks are given back in the opposite order.                             *)
(***************************************************************************)
EXTENDS Integers, FiniteSets

CONSTANTS Harts,      \* the harts (NCPU of them)
          Locks,      \* the locks, numbered in nesting order
          TryHarts,   \* the harts that call spin_trylock (none in the shipped kernel)
          MaxDepth,   \* bound on lock_depth, reached only through failed spin_trylock calls
          NoHart      \* stands for "no hart" in the abstract lock

ASSUME SpinlockAssumption ==
    /\ Locks \subseteq Nat
    /\ IsFiniteSet(Locks)
    /\ TryHarts \subseteq Harts
    /\ MaxDepth \in Nat
    /\ NoHart \notin Harts

VARIABLES
    locked,      \* locked[l]: the lock word of l
    lock_depth,  \* lock_depth[h]: cpus[h].lock_depth
    sstatus,     \* sstatus[h]: the SIE bit saved in cpus[h].sstatus
    sie,         \* sie[h]: SIE in the hart's sstatus register
    phase,       \* phase[h]: "mmode" (start), "boot" (s_mode_main), "run" (user or idle_loop)
    level,       \* level[h]: whether the hart executes "thread" code or a trap "handler"
    pc,          \* pc[h]: where in spinlock.c the hart is, "out" if it is not in it
    call,        \* call[h]: the call being executed: its operation and its lock
    frame,       \* frame[h]: what trap entry saved of the interrupted thread
    held,        \* held[h]: the locks the hart holds (bookkeeping, not in the code)
    failed       \* failed[h]: failed spin_trylock calls so far (bookkeeping)

vars == <<locked, lock_depth, sstatus, sie, phase, level, pc, call, frame, held, failed>>

PCs == {"out", "test", "save", "mask", "inc", "spin", "cas",
        "u_test", "u_dec", "u_clear", "u_restore", "panic"}
Calls == [op : {"none"}, lock : {0}] \cup [op : {"lock", "try", "unlock"}, lock : Locks]
NoCall == [op |-> "none", lock |-> 0]
NoFrame == [pc |-> "out", call |-> NoCall, sie |-> 0, held |-> {}]

Init ==
    /\ locked = [l \in Locks |-> 0]
    /\ lock_depth = [h \in Harts |-> 0]
    /\ sstatus = [h \in Harts |-> 0]
    /\ sie = [h \in Harts |-> 0]
    /\ phase = [h \in Harts |-> "mmode"]
    /\ level = [h \in Harts |-> "thread"]
    /\ pc = [h \in Harts |-> "out"]
    /\ call = [h \in Harts |-> NoCall]
    /\ frame = [h \in Harts |-> NoFrame]
    /\ held = [h \in Harts |-> {}]
    /\ failed = [h \in Harts |-> 0]

Goto(h, label) == pc' = [pc EXCEPT ![h] = label]

\* The call of a spinlock.c function returns.
Return(h) == Goto(h, "out") /\ call' = [call EXCEPT ![h] = NoCall]

------------------------------------------------------------------------------
(* The callers.                                                            *)

\* Who takes locks.  Up to the end of boot the thread does (start, s_mode_main,
\* create_proc) and a trap handler does not: the only trap is a timer
\* interrupt, and timer_handle prints (and so locks) only when it wakes a
\* process, of which there is none yet.  Afterwards the thread is user code or
\* the wfi loop, and only the handler takes locks.
LockTaker(h) == (level[h] = "thread") <=> (phase[h] # "run")

Begin(h, op, l) ==
    /\ pc[h] = "out"
    /\ LockTaker(h)
    /\ call' = [call EXCEPT ![h] = [op |-> op, lock |-> l]]

InOrder_Unordered(h, l) == l \notin held[h]

\* The call sites nest locks in increasing order only.
InOrder(h, l) == \A m \in held[h] : m < l

CallLock(h, l) ==
    /\ Begin(h, "lock", l)
    /\ InOrder(h, l)
    /\ Goto(h, "test")
    /\ UNCHANGED <<locked, lock_depth, sstatus, sie, phase, level, frame, held, failed>>

CallTrylock(h, l) ==
    /\ h \in TryHarts
    /\ lock_depth[h] < MaxDepth
    /\ Begin(h, "try", l)
    /\ InOrder(h, l)
    /\ Goto(h, "test")
    /\ UNCHANGED <<locked, lock_depth, sstatus, sie, phase, level, frame, held, failed>>

CallUnlock(h, l) ==
    /\ Begin(h, "unlock", l)
    /\ l \in held[h]
    /\ \A m \in held[h] : m <= l
    /\ Goto(h, "u_test")
    /\ UNCHANGED <<locked, lock_depth, sstatus, sie, phase, level, frame, held, failed>>

------------------------------------------------------------------------------
(* spin_lock and spin_trylock.                                             *)

TestDepth_Always(h) ==
    /\ pc[h] = "test"
    /\ Goto(h, "save")
    /\ UNCHANGED <<locked, lock_depth, sstatus, sie, phase, level, call, frame, held, failed>>

TestDepth(h) ==
    /\ pc[h] = "test"
    /\ Goto(h, IF lock_depth[h] = 0 THEN "save" ELSE "inc")
    /\ UNCHANGED <<locked, lock_depth, sstatus, sie, phase, level, call, frame, held, failed>>

SaveSstatus(h) ==
    /\ pc[h] = "save"
    /\ sstatus' = [sstatus EXCEPT ![h] = sie[h]]
    /\ Goto(h, "mask")
    /\ UNCHANGED <<locked, lock_depth, sie, phase, level, call, frame, held, failed>>

ClearSie_Skipped(h) ==
    /\ pc[h] = "mask"
    /\ Goto(h, "inc")
    /\ UNCHANGED <<locked, lock_depth, sstatus, sie, phase, level, call, frame, held, failed>>

ClearSie(h) ==
    /\ pc[h] = "mask"
    /\ sie' = [sie EXCEPT ![h] = 0]
    /\ Goto(h, "inc")
    /\ UNCHANGED <<locked, lock_depth, sstatus, phase, level, call, frame, held, failed>>

IncDepth(h) ==
    /\ pc[h] = "inc"
    /\ lock_depth' = [lock_depth EXCEPT ![h] = @ + 1]
    /\ Goto(h, IF call[h].op = "try" THEN "cas" ELSE "spin")
    /\ UNCHANGED <<locked, sstatus, sie, phase, level, call, frame, held, failed>>

\* The lock word goes from 0 to 1 and the call returns.
Take(h) ==
    /\ locked' = [locked EXCEPT ![call[h].lock] = 1]
    /\ held' = [held EXCEPT ![h] = @ \cup {call[h].lock}]
    /\ Return(h)

TestAndSet_NotAtomic(h) ==
    /\ pc[h] = "spin"
    /\ Take(h)
    /\ UNCHANGED <<lock_depth, sstatus, sie, phase, level, frame, failed>>

\* The last round of the test-and-set loop; the rounds that find the lock
\* taken change nothing.
TestAndSet(h) ==
    /\ pc[h] = "spin"
    /\ locked[call[h].lock] = 0
    /\ Take(h)
    /\ UNCHANGED <<lock_depth, sstatus, sie, phase, level, frame, failed>>

CompareExchange_NotAtomic(h) ==
    /\ pc[h] = "cas"
    /\ Take(h)
    /\ UNCHANGED <<lock_depth, sstatus, sie, phase, level, frame, failed>>

CompareExchange(h) ==
    /\ pc[h] = "cas"
    /\ locked[call[h].lock] = 0
    /\ Take(h)
    /\ UNCHANGED <<lock_depth, sstatus, sie, phase, level, frame, failed>>

\* spin_trylock returns 0: neither lock_depth nor SIE is put back.
CompareExchangeFails(h) ==
    /\ pc[h] = "cas"
    /\ locked[call[h].lock] = 1
    /\ failed' = [failed EXCEPT ![h] = @ + 1]
    /\ Return(h)
    /\ UNCHANGED <<locked, lock_depth, sstatus, sie, phase, level, frame, held>>

------------------------------------------------------------------------------
(* spin_unlock.                                                            *)

TestUnderflow(h) ==
    /\ pc[h] = "u_test"
    /\ Goto(h, IF lock_depth[h] = 0 THEN "panic" ELSE "u_dec")
    /\ UNCHANGED <<locked, lock_depth, sstatus, sie, phase, level, call, frame, held, failed>>

DecDepth_Twice(h) ==
    /\ pc[h] = "u_dec"
    /\ lock_depth' = [lock_depth EXCEPT ![h] = @ - 2]
    /\ Goto(h, "u_clear")
    /\ UNCHANGED <<locked, sstatus, sie, phase, level, call, frame, held, failed>>

DecDepth(h) ==
    /\ pc[h] = "u_dec"
    /\ lock_depth' = [lock_depth EXCEPT ![h] = @ - 1]
    /\ Goto(h, "u_clear")
    /\ UNCHANGED <<locked, sstatus, sie, phase, level, call, frame, held, failed>>

ClearLocked_Skipped(h) ==
    /\ pc[h] = "u_clear"
    /\ held' = [held EXCEPT ![h] = @ \ {call[h].lock}]
    /\ Goto(h, "u_restore")
    /\ UNCHANGED <<locked, lock_depth, sstatus, sie, phase, level, call, frame, failed>>

ClearLocked(h) ==
    /\ pc[h] = "u_clear"
    /\ locked' = [locked EXCEPT ![call[h].lock] = 0]
    /\ held' = [held EXCEPT ![h] = @ \ {call[h].lock}]
    /\ Goto(h, "u_restore")
    /\ UNCHANGED <<lock_depth, sstatus, sie, phase, level, call, frame, failed>>

RestoreSstatus_AnyDepth(h) ==
    /\ pc[h] = "u_restore"
    /\ sie' = [sie EXCEPT ![h] = sstatus[h]]
    /\ Return(h)
    /\ UNCHANGED <<locked, lock_depth, sstatus, phase, level, frame, held, failed>>

RestoreSstatus(h) ==
    /\ pc[h] = "u_restore"
    /\ sie' = [sie EXCEPT ![h] = IF lock_depth[h] = 0 THEN sstatus[h] ELSE @]
    /\ Return(h)
    /\ UNCHANGED <<locked, lock_depth, sstatus, phase, level, frame, held, failed>>

------------------------------------------------------------------------------
(* The hart around the lock code: privilege changes, traps.                *)

\* The end of start: SIE is set and mret enters s_mode_main.
EnterSMode(h) ==
    /\ phase[h] = "mmode"
    /\ pc[h] = "out" /\ held[h] = {}
    /\ phase' = [phase EXCEPT ![h] = "boot"]
    /\ sie' = [sie EXCEPT ![h] = 1]
    /\ UNCHANGED <<locked, lock_depth, sstatus, level, pc, call, frame, held, failed>>

\* The end of s_mode_main: the sret into the shell, or idle_loop's wfi loop.
\* Both leave interrupts on.
EndBoot(h) ==
    /\ phase[h] = "boot" /\ level[h] = "thread"
    /\ pc[h] = "out" /\ held[h] = {}
    /\ phase' = [phase EXCEPT ![h] = "run"]
    /\ sie' = [sie EXCEPT ![h] = 1]
    /\ UNCHANGED <<locked, lock_depth, sstatus, level, pc, call, frame, held, failed>>

\* A trap: a timer interrupt at any instruction executed with SIE set, or a
\* system call of user code.  The hardware clears SIE and trap_vector saves
\* the interrupted context.
Trap(h) ==
    /\ phase[h] # "mmode" /\ level[h] = "thread"
    /\ sie[h] = 1
    /\ level' = [level EXCEPT ![h] = "handler"]
    /\ frame' = [frame EXCEPT ![h] =
                    [pc |-> pc[h], call |-> call[h], sie |-> sie[h], held |-> held[h]]]
    /\ sie' = [sie EXCEPT ![h] = 0]
    /\ pc' = [pc EXCEPT ![h] = "out"]
    /\ call' = [call EXCEPT ![h] = NoCall]
    /\ UNCHANGED <<locked, lock_depth, sstatus, phase, held, failed>>

\* The end of trap_vector, which the handler reaches with its own locks given
\* back: sret restores the context and SIE.
TrapReturn(h) ==
    /\ level[h] = "handler"
    /\ pc[h] = "out" /\ held[h] = frame[h].held
    /\ level' = [level EXCEPT ![h] = "thread"]
    /\ sie' = [sie EXCEPT ![h] = frame[h].sie]
    /\ pc' = [pc EXCEPT ![h] = frame[h].pc]
    /\ call' = [call EXCEPT ![h] = frame[h].call]
    /\ frame' = [frame EXCEPT ![h] = NoFrame]
    /\ UNCHANGED <<locked, lock_depth, sstatus, phase, held, failed>>

------------------------------------------------------------------------------
LockCode(h) ==
    \/ TestDepth(h) \/ SaveSstatus(h) \/ ClearSie(h) \/ IncDepth(h)
    \/ TestAndSet(h) \/ CompareExchange(h) \/ CompareExchangeFails(h)
    \/ TestUnderflow(h) \/ DecDepth(h) \/ ClearLocked(h) \/ RestoreSstatus(h)

Hart(h) == EnterSMode(h) \/ EndBoot(h) \/ Trap(h) \/ TrapReturn(h)

Next == \E h \in Harts :
    \/ \E l \in Locks : CallLock(h, l) \/ CallTrylock(h, l) \/ CallUnlock(h, l)
    \/ LockCode(h)
    \/ Hart(h)

Spec == Init /\ [][Next]_vars

\* The lock code of a hart, except for the loop that waits for the lock word.
Straight(h) == LockCode(h) /\ pc[h] # "spin"

\* A hart inside the lock code keeps executing, a handler ends, and so does a
\* critical section, being a bounded piece of code: timer interrupts are an interval apart and
\* leave the interrupted code time in between.  The waiting loop gets no more
\* than its turns, and nothing forces a hart to take a lock again.
Fairness == \A h \in Harts :
    /\ WF_vars(TestAndSet(h))
    /\ SF_vars(Straight(h))
    /\ SF_vars(\E l \in Locks : CallUnlock(h, l))
    /\ WF_vars(TrapReturn(h))

FairSpec == Spec /\ Fairness

------------------------------------------------------------------------------
(* Correctness.                                                            *)

\* Type invariant.
TypeOK ==
    /\ locked \in [Locks -> {0, 1}]
    /\ lock_depth \in [Harts -> Nat]
    /\ sstatus \in [Harts -> {0, 1}]
    /\ sie \in [Harts -> {0, 1}]
    /\ phase \in [Harts -> {"mmode", "boot", "run"}]
    /\ level \in [Harts -> {"thread", "handler"}]
    /\ pc \in [Harts -> PCs]
    /\ call \in [Harts -> Calls]
    /\ frame \in [Harts -> [pc : PCs, call : Calls, sie : {0, 1}, held : SUBSET Locks]]
    /\ held \in [Harts -> SUBSET Locks]
    /\ failed \in [Harts -> Nat]

\* Mutual exclusion: two harts never hold the same lock, and the lock word
\* spin_lock and spin_trylock test is set exactly while some hart holds it.
MutualExclusion ==
    \A l \in Locks :
        /\ \A g, h \in Harts : l \in held[g] /\ l \in held[h] => g = h
        /\ locked[l] = 1 <=> \E h \in Harts : l \in held[h]

\* A hart that holds a lock, or has begun to wait for one, cannot be
\* interrupted, so its trap handler can never spin on a lock the interrupted
\* code of the same hart holds.
MaskedWhileHolding ==
    \A h \in Harts \ TryHarts :
        held[h] # {} \/ pc[h] \in {"inc", "spin"} => sie[h] = 0

\* "Restore sstatus (e.g., re-enable interrupts if they were on before)": a
\* hart that has given back all its locks is interruptible again exactly if
\* the code it executes runs with interrupts on, however its calls nested and
\* wherever a timer interrupt hit spin_lock's unprotected first instructions.
InterruptsRestored ==
    \A h \in Harts \ TryHarts :
        pc[h] = "out" /\ held[h] = {} =>
            (sie[h] = 1 <=> level[h] = "thread" /\ phase[h] # "mmode")

\* spin_unlock's sanity check ("lock_depth underflow") never fails, whatever
\* the nesting and whichever spin_trylock calls failed before.
NoUnderflow == \A h \in Harts : pc[h] # "panic"

\* The hart is stuck in spin_lock's loop for as long as the lock is taken.
Stuck(h) == pc[h] = "spin" /\ locked[call[h].lock] = 1

\* No deadlock among the harts: while a lock is taken, some hart that holds a
\* lock can go on.
NoDeadlock ==
    (\E l \in Locks : locked[l] = 1) => \E h \in Harts : held[h] # {} /\ ~Stuck(h)

\* The innermost lock (uart_lock) is always given back: its holder waits for
\* nothing.  An outer lock has no such guarantee, since the test-and-set loop
\* lets the other harts overtake its holder at an inner lock for ever.
Innermost == CHOOSE l \in Locks : \A m \in Locks : m <= l
InnermostReleased == (locked[Innermost] = 1) ~> (locked[Innermost] = 0)

\* The inductive invariant behind the properties above, in parts.

\* How the two levels of a hart combine: a trapped thread is in its frame, a
\* handler takes no locks before the end of boot, a thread none after it.
LevelsOK(h) ==
    /\ level[h] = "thread" => frame[h] = NoFrame
    /\ level[h] = "handler" => phase[h] # "mmode"
    /\ level[h] = "handler" /\ phase[h] = "boot" => pc[h] = "out" /\ held[h] = frame[h].held
    /\ level[h] = "handler" /\ phase[h] = "run" => frame[h].pc = "out" /\ frame[h].held = {}
    /\ level[h] = "thread" /\ phase[h] = "run" => pc[h] = "out" /\ held[h] = {}

\* What a position in the lock code says about the call being executed.
CallOK(p, c, locks) ==
    /\ p # "panic"
    /\ p # "out" => c.lock \in Locks
    /\ p = "cas" => c.op = "try"
    /\ p \in {"u_test", "u_dec", "u_clear"} => c.lock \in locks

\* The step of lock_depth a position in the lock code is ahead of held, or behind.
Ahead(p) == IF p \in {"spin", "cas"} THEN 1 ELSE IF p = "u_clear" THEN -1 ELSE 0

\* lock_depth counts the locks held and the failed spin_trylock calls.
DepthOK(h) ==
    lock_depth[h] = Cardinality(held[h]) + failed[h] + Ahead(pc[h]) + Ahead(frame[h].pc)

\* SIE outside the lock code: on while a thread runs in S-mode.
BaseSie(h) == IF level[h] = "thread" /\ phase[h] # "mmode" THEN 1 ELSE 0

\* SIE and its saved copy, at every position of the lock code.
MaskOK(h) ==
    /\ failed[h] = 0 /\ call[h].op # "try" /\ frame[h].call.op # "try"
    /\ pc[h] # "cas"
    /\ pc[h] \in {"out", "test"} /\ held[h] = {} => sie[h] = BaseSie(h)
    /\ pc[h] \in {"out", "test"} /\ held[h] # {} => sie[h] = 0 /\ sstatus[h] = BaseSie(h)
    /\ pc[h] \in {"save", "mask"} => held[h] = {} /\ sie[h] = BaseSie(h)
    /\ pc[h] = "mask" => sstatus[h] = BaseSie(h)
    /\ pc[h] \in {"inc", "spin", "u_test", "u_dec", "u_clear", "u_restore"} =>
           sie[h] = 0 /\ sstatus[h] = BaseSie(h)
    /\ level[h] = "handler" =>
           /\ frame[h].sie = 1 /\ frame[h].held = {}
           /\ frame[h].pc \in {"out", "test", "save", "mask"}
           /\ frame[h].pc = "mask" => sstatus[h] = 1

\* Everything the inductive invariant says of one hart.
HartOK(h) ==
    /\ LevelsOK(h)
    /\ CallOK(pc[h], call[h], held[h])
    /\ CallOK(frame[h].pc, frame[h].call, frame[h].held)
    /\ DepthOK(h)
    /\ h \notin TryHarts => MaskOK(h)

\* The inductive invariant: every call of spinlock.c, at every instruction and
\* under every interrupt, keeps the books of its hart and of its lock.
IInv ==
    /\ TypeOK
    /\ MutualExclusion
    /\ NoUnderflow
    /\ \A h \in Harts : HartOK(h)

\* The owner of a lock in the abstract specification.
Owner == [l \in Locks |->
            IF \E h \in Harts : l \in held[h]
            THEN CHOOSE h \in Harts : l \in held[h]
            ELSE NoHart]

\* The lock code implements the abstract locks of module Mutex: a lock is
\* granted only when free and given back only by its owner, in one step each.
M == INSTANCE Mutex WITH owner <- Owner
ImplementsMutex == M!Spec
==============================================================================
