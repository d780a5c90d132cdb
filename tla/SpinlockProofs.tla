---------------------------- MODULE SpinlockProofs ----------------------------
(***************************************************************************)
(* Proofs about Spinlock, for every number of harts and locks, every use   *)
(* of spin_trylock and every interleaving with interrupts.                 *)
(***************************************************************************)
EXTENDS Spinlock, FiniteSetTheorems, NatFacts, TLAPS

(* What a set of locks contributes to lock_depth.                          *)
LEMMA HeldCardinality ==
    ASSUME NEW S \in SUBSET Locks
    PROVE  /\ Cardinality(S) \in Nat
           /\ S = {} <=> Cardinality(S) = 0
           /\ \A l \in S : Cardinality(S \ {l}) = Cardinality(S) - 1
           /\ \A l \in Locks : l \notin S => Cardinality(S \cup {l}) = Cardinality(S) + 1
  <1>1. IsFiniteSet(S)
    BY SpinlockAssumption, FS_Subset
  <1> QED
    BY <1>1, FS_CardinalityType, FS_EmptySet, FS_AddElement, FS_RemoveElement

(* The initial state keeps the books.                                      *)
LEMMA InitIInv == Init => IInv
  <1> SUFFICES ASSUME Init PROVE IInv
    OBVIOUS
  <1> USE DEF Init, NoCall, NoFrame
  <1>1. TypeOK
    BY DEF TypeOK, PCs, Calls
  <1>2. MutualExclusion /\ NoUnderflow
    BY DEF MutualExclusion, NoUnderflow
  <1>3. Cardinality({}) = 0
    BY FS_EmptySet
  <1>4. ASSUME NEW h \in Harts
        PROVE  HartOK(h)
    BY <1>3 DEF HartOK, LevelsOK, CallOK, DepthOK, MaskOK, Ahead, BaseSie
  <1> QED
    BY <1>1, <1>2, <1>4 DEF IInv

(* What a hart's part of the invariant depends on.  *)
LEMMA OtherHart ==
    ASSUME NEW g \in Harts, HartOK(g),
           lock_depth'[g] = lock_depth[g], sstatus'[g] = sstatus[g], sie'[g] = sie[g],
           phase'[g] = phase[g], level'[g] = level[g], pc'[g] = pc[g], call'[g] = call[g],
           frame'[g] = frame[g], held'[g] = held[g], failed'[g] = failed[g]
    PROVE  HartOK(g)'
  BY DEF HartOK, LevelsOK, CallOK, DepthOK, Ahead, MaskOK, BaseSie

(* A call of spin_lock moves its hart into the lock code. *)
LEMMA CallLockIInv ==
    ASSUME IInv, NEW h \in Harts, NEW l \in Locks, CallLock(h, l)
    PROVE  IInv'
  <1> USE DEF IInv
  <1>0. Cardinality(held[h]) \in Nat
    BY HeldCardinality DEF TypeOK
  <1>1. TypeOK'
    BY DEF CallLock, Begin, LockTaker, InOrder, Goto, TypeOK, PCs, Calls, HartOK, CallOK
  <1>2. MutualExclusion'
    BY DEF CallLock, Begin, LockTaker, InOrder, Goto, TypeOK, MutualExclusion, HartOK, CallOK
  <1>3. NoUnderflow'
    BY DEF CallLock, Begin, LockTaker, InOrder, Goto, NoUnderflow, TypeOK, HartOK, CallOK
  <1>4. LevelsOK(h)'
    BY DEF CallLock, Begin, LockTaker, InOrder, Goto, TypeOK, HartOK, LevelsOK, CallOK, MaskOK
  <1>5. CallOK(pc[h], call[h], held[h])' /\ CallOK(frame[h].pc, frame[h].call, frame[h].held)'
    BY DEF CallLock, Begin, LockTaker, InOrder, Goto, TypeOK, HartOK, LevelsOK, CallOK
  <1>6. DepthOK(h)'
    BY <1>0 DEF CallLock, Begin, LockTaker, InOrder, Goto, TypeOK, HartOK, LevelsOK, DepthOK, Ahead, NoFrame
  <1>7. ASSUME h \notin TryHarts
        PROVE  MaskOK(h)'
    BY <1>7 DEF CallLock, Begin, LockTaker, InOrder, Goto, TypeOK, HartOK, LevelsOK, CallOK, MaskOK, BaseSie, PCs
  <1>8. ASSUME NEW g \in Harts, g # h
        PROVE  HartOK(g)'
    BY <1>8, OtherHart DEF CallLock, Begin, LockTaker, InOrder, Goto, TypeOK
  <1> QED
    BY <1>1, <1>2, <1>3, <1>4, <1>5, <1>6, <1>7, <1>8 DEF HartOK

(* A call of spin_trylock does too. *)
LEMMA CallTrylockIInv ==
    ASSUME IInv, NEW h \in Harts, NEW l \in Locks, CallTrylock(h, l)
    PROVE  IInv'
  <1> USE DEF IInv
  <1>0. Cardinality(held[h]) \in Nat
    BY HeldCardinality DEF TypeOK
  <1>1. TypeOK'
    BY DEF CallTrylock, Begin, LockTaker, InOrder, Goto, TypeOK, PCs, Calls, HartOK, CallOK
  <1>2. MutualExclusion'
    BY DEF CallTrylock, Begin, LockTaker, InOrder, Goto, TypeOK, MutualExclusion, HartOK, CallOK
  <1>3. NoUnderflow'
    BY DEF CallTrylock, Begin, LockTaker, InOrder, Goto, NoUnderflow, TypeOK, HartOK, CallOK
  <1>4. LevelsOK(h)'
    BY DEF CallTrylock, Begin, LockTaker, InOrder, Goto, TypeOK, HartOK, LevelsOK, CallOK, MaskOK
  <1>5. CallOK(pc[h], call[h], held[h])' /\ CallOK(frame[h].pc, frame[h].call, frame[h].held)'
    BY DEF CallTrylock, Begin, LockTaker, InOrder, Goto, TypeOK, HartOK, LevelsOK, CallOK
  <1>6. DepthOK(h)'
    BY <1>0 DEF CallTrylock, Begin, LockTaker, InOrder, Goto, TypeOK, HartOK, LevelsOK, DepthOK, Ahead, NoFrame
  <1>7. ASSUME h \notin TryHarts
        PROVE  MaskOK(h)'
    BY <1>7 DEF CallTrylock, Begin, LockTaker, InOrder, Goto, TypeOK, HartOK, LevelsOK, CallOK, MaskOK, BaseSie, PCs
  <1>8. ASSUME NEW g \in Harts, g # h
        PROVE  HartOK(g)'
    BY <1>8, OtherHart DEF CallTrylock, Begin, LockTaker, InOrder, Goto, TypeOK
  <1> QED
    BY <1>1, <1>2, <1>3, <1>4, <1>5, <1>6, <1>7, <1>8 DEF HartOK

(* And a call of spin_unlock, made by the holder. *)
LEMMA CallUnlockIInv ==
    ASSUME IInv, NEW h \in Harts, NEW l \in Locks, CallUnlock(h, l)
    PROVE  IInv'
  <1> USE DEF IInv
  <1>0. Cardinality(held[h]) \in Nat
    BY HeldCardinality DEF TypeOK
  <1>1. TypeOK'
    BY DEF CallUnlock, Begin, LockTaker, Goto, TypeOK, PCs, Calls, HartOK, CallOK
  <1>2. MutualExclusion'
    BY DEF CallUnlock, Begin, LockTaker, Goto, TypeOK, MutualExclusion, HartOK, CallOK
  <1>3. NoUnderflow'
    BY DEF CallUnlock, Begin, LockTaker, Goto, NoUnderflow, TypeOK, HartOK, CallOK
  <1>4. LevelsOK(h)'
    BY DEF CallUnlock, Begin, LockTaker, Goto, TypeOK, HartOK, LevelsOK, CallOK, MaskOK
  <1>5. CallOK(pc[h], call[h], held[h])' /\ CallOK(frame[h].pc, frame[h].call, frame[h].held)'
    BY DEF CallUnlock, Begin, LockTaker, Goto, TypeOK, HartOK, LevelsOK, CallOK
  <1>6. DepthOK(h)'
    BY <1>0 DEF CallUnlock, Begin, LockTaker, Goto, TypeOK, HartOK, LevelsOK, DepthOK, Ahead, NoFrame
  <1>7. ASSUME h \notin TryHarts
        PROVE  MaskOK(h)'
    BY <1>7 DEF CallUnlock, Begin, LockTaker, Goto, TypeOK, HartOK, LevelsOK, CallOK, MaskOK, BaseSie, PCs
  <1>8. ASSUME NEW g \in Harts, g # h
        PROVE  HartOK(g)'
    BY <1>8, OtherHart DEF CallUnlock, Begin, LockTaker, Goto, TypeOK
  <1> QED
    BY <1>1, <1>2, <1>3, <1>4, <1>5, <1>6, <1>7, <1>8 DEF HartOK

(* The lock_depth test: zero means no lock is held. *)
LEMMA TestDepthIInv ==
    ASSUME IInv, NEW h \in Harts, TestDepth(h)
    PROVE  IInv'
  <1> USE DEF IInv
  <1>0. /\ Cardinality(held[h]) \in Nat
        /\ held[h] = {} <=> Cardinality(held[h]) = 0
        /\ \A m \in held[h] : Cardinality(held[h] \ {m}) = Cardinality(held[h]) - 1
        /\ \A m \in Locks : m \notin held[h] => Cardinality(held[h] \cup {m}) = Cardinality(held[h]) + 1
    BY HeldCardinality DEF TypeOK
  <1>a. h \notin TryHarts => (lock_depth[h] = 0 <=> held[h] = {})
    <2> SUFFICES ASSUME h \notin TryHarts PROVE lock_depth[h] = 0 <=> held[h] = {}
      OBVIOUS
    <2>1. Ahead(pc[h]) = 0 /\ Ahead(frame[h].pc) = 0 /\ failed[h] = 0
      BY DEF TestDepth, Goto, TypeOK, HartOK, LevelsOK, MaskOK, Ahead, NoFrame
    <2> QED
      BY <1>0, <2>1 DEF HartOK, DepthOK
  <1>1. TypeOK'
    BY <1>a DEF TestDepth, Goto, TypeOK, PCs, Calls, HartOK, CallOK
  <1>2. MutualExclusion'
    BY DEF TestDepth, Goto, TypeOK, MutualExclusion, HartOK, CallOK
  <1>3. NoUnderflow'
    BY <1>a DEF TestDepth, Goto, NoUnderflow, TypeOK, HartOK, CallOK
  <1>4. LevelsOK(h)'
    BY DEF TestDepth, Goto, TypeOK, HartOK, LevelsOK, CallOK, MaskOK
  <1>5. CallOK(pc[h], call[h], held[h])' /\ CallOK(frame[h].pc, frame[h].call, frame[h].held)'
    BY <1>a DEF TestDepth, Goto, TypeOK, HartOK, LevelsOK, CallOK
  <1>6. DepthOK(h)'
    BY <1>0 DEF TestDepth, Goto, TypeOK, HartOK, LevelsOK, DepthOK, Ahead, NoFrame
  <1>7. ASSUME h \notin TryHarts
        PROVE  MaskOK(h)'
    BY <1>a, <1>7 DEF TestDepth, Goto, TypeOK, HartOK, LevelsOK, CallOK, MaskOK, BaseSie, PCs
  <1>8. ASSUME NEW g \in Harts, g # h
        PROVE  HartOK(g)'
    BY <1>8, OtherHart DEF TestDepth, Goto, TypeOK
  <1> QED
    BY <1>1, <1>2, <1>3, <1>4, <1>5, <1>6, <1>7, <1>8 DEF HartOK

(* The saved copy of SIE. *)
LEMMA SaveSstatusIInv ==
    ASSUME IInv, NEW h \in Harts, SaveSstatus(h)
    PROVE  IInv'
  <1> USE DEF IInv
  <1>0. Cardinality(held[h]) \in Nat
    BY HeldCardinality DEF TypeOK
  <1>1. TypeOK'
    BY DEF SaveSstatus, Goto, TypeOK, PCs, Calls, HartOK, CallOK
  <1>2. MutualExclusion'
    BY DEF SaveSstatus, Goto, TypeOK, MutualExclusion, HartOK, CallOK
  <1>3. NoUnderflow'
    BY DEF SaveSstatus, Goto, NoUnderflow, TypeOK, HartOK, CallOK
  <1>4. LevelsOK(h)'
    BY DEF SaveSstatus, Goto, TypeOK, HartOK, LevelsOK, CallOK, MaskOK
  <1>5. CallOK(pc[h], call[h], held[h])' /\ CallOK(frame[h].pc, frame[h].call, frame[h].held)'
    BY DEF SaveSstatus, Goto, TypeOK, HartOK, LevelsOK, CallOK
  <1>6. DepthOK(h)'
    BY <1>0 DEF SaveSstatus, Goto, TypeOK, HartOK, LevelsOK, DepthOK, Ahead, NoFrame
  <1>7. ASSUME h \notin TryHarts
        PROVE  MaskOK(h)'
    BY <1>7 DEF SaveSstatus, Goto, TypeOK, HartOK, LevelsOK, CallOK, MaskOK, BaseSie, PCs
  <1>8. ASSUME NEW g \in Harts, g # h
        PROVE  HartOK(g)'
    BY <1>8, OtherHart DEF SaveSstatus, Goto, TypeOK
  <1> QED
    BY <1>1, <1>2, <1>3, <1>4, <1>5, <1>6, <1>7, <1>8 DEF HartOK

(* Interrupts go off. *)
LEMMA ClearSieIInv ==
    ASSUME IInv, NEW h \in Harts, ClearSie(h)
    PROVE  IInv'
  <1> USE DEF IInv
  <1>0. Cardinality(held[h]) \in Nat
    BY HeldCardinality DEF TypeOK
  <1>1. TypeOK'
    BY DEF ClearSie, Goto, TypeOK, PCs, Calls, HartOK, CallOK
  <1>2. MutualExclusion'
    BY DEF ClearSie, Goto, TypeOK, MutualExclusion, HartOK, CallOK
  <1>3. NoUnderflow'
    BY DEF ClearSie, Goto, NoUnderflow, TypeOK, HartOK, CallOK
  <1>4. LevelsOK(h)'
    BY DEF ClearSie, Goto, TypeOK, HartOK, LevelsOK, CallOK, MaskOK
  <1>5. CallOK(pc[h], call[h], held[h])' /\ CallOK(frame[h].pc, frame[h].call, frame[h].held)'
    BY DEF ClearSie, Goto, TypeOK, HartOK, LevelsOK, CallOK
  <1>6. DepthOK(h)'
    BY <1>0 DEF ClearSie, Goto, TypeOK, HartOK, LevelsOK, DepthOK, Ahead, NoFrame
  <1>7. ASSUME h \notin TryHarts
        PROVE  MaskOK(h)'
    BY <1>7 DEF ClearSie, Goto, TypeOK, HartOK, LevelsOK, CallOK, MaskOK, BaseSie, PCs
  <1>8. ASSUME NEW g \in Harts, g # h
        PROVE  HartOK(g)'
    BY <1>8, OtherHart DEF ClearSie, Goto, TypeOK
  <1> QED
    BY <1>1, <1>2, <1>3, <1>4, <1>5, <1>6, <1>7, <1>8 DEF HartOK

(* lock_depth runs ahead of the locks held by one. *)
LEMMA IncDepthIInv ==
    ASSUME IInv, NEW h \in Harts, IncDepth(h)
    PROVE  IInv'
  <1> USE DEF IInv
  <1>0. /\ Cardinality(held[h]) \in Nat
        /\ held[h] = {} <=> Cardinality(held[h]) = 0
        /\ \A m \in held[h] : Cardinality(held[h] \ {m}) = Cardinality(held[h]) - 1
        /\ \A m \in Locks : m \notin held[h] => Cardinality(held[h] \cup {m}) = Cardinality(held[h]) + 1
    BY HeldCardinality DEF TypeOK
  <1>1. TypeOK'
    BY DEF IncDepth, Goto, TypeOK, PCs, Calls, HartOK, CallOK
  <1>2. MutualExclusion'
    BY DEF IncDepth, Goto, TypeOK, MutualExclusion, HartOK, CallOK
  <1>3. NoUnderflow'
    BY DEF IncDepth, Goto, NoUnderflow, TypeOK, HartOK, CallOK
  <1>4. LevelsOK(h)'
    BY DEF IncDepth, Goto, TypeOK, HartOK, LevelsOK, CallOK, MaskOK
  <1>5. CallOK(pc[h], call[h], held[h])' /\ CallOK(frame[h].pc, frame[h].call, frame[h].held)'
    BY DEF IncDepth, Goto, TypeOK, HartOK, LevelsOK, CallOK
  <1>6. DepthOK(h)'
    <2>1. Cardinality(held[h])' = Cardinality(held[h])
      BY <1>0 DEF IncDepth, Goto, TypeOK, HartOK, CallOK
    <2>2. /\ lock_depth[h] \in Nat /\ failed[h] \in Nat
          /\ Ahead(pc[h]) \in Int /\ Ahead(frame[h].pc) \in Int
          /\ Ahead(pc[h])' \in Int /\ Ahead(frame[h].pc)' \in Int
      BY DEF TypeOK, Ahead
    <2>3. Ahead(pc[h])' + Ahead(frame[h].pc)' = Ahead(pc[h]) + Ahead(frame[h].pc) + 1
      BY DEF IncDepth, Goto, TypeOK, Ahead, NoFrame, HartOK, LevelsOK
    <2>4. lock_depth[h]' = lock_depth[h] + 1 /\ failed[h]' = failed[h]
      BY DEF IncDepth, Goto, TypeOK
    <2>5. lock_depth[h] = Cardinality(held[h]) + failed[h] + Ahead(pc[h]) + Ahead(frame[h].pc)
      BY DEF HartOK, DepthOK
    <2> HIDE DEF IInv
    <2> QED
      BY <1>0, <2>1, <2>2, <2>3, <2>4, <2>5 DEF DepthOK
  <1>7. ASSUME h \notin TryHarts
        PROVE  MaskOK(h)'
    BY <1>7 DEF IncDepth, Goto, TypeOK, HartOK, LevelsOK, CallOK, MaskOK, BaseSie, PCs
  <1>8. ASSUME NEW g \in Harts, g # h
        PROVE  HartOK(g)'
    BY <1>8, OtherHart DEF IncDepth, Goto, TypeOK
  <1> QED
    BY <1>1, <1>2, <1>3, <1>4, <1>5, <1>6, <1>7, <1>8 DEF HartOK

(* The lock word is taken by test-and-set. *)
LEMMA TestAndSetIInv ==
    ASSUME IInv, NEW h \in Harts, TestAndSet(h)
    PROVE  IInv'
  <1> USE DEF IInv
  <1>0. /\ Cardinality(held[h]) \in Nat
        /\ held[h] = {} <=> Cardinality(held[h]) = 0
        /\ \A m \in held[h] : Cardinality(held[h] \ {m}) = Cardinality(held[h]) - 1
        /\ \A m \in Locks : m \notin held[h] => Cardinality(held[h] \cup {m}) = Cardinality(held[h]) + 1
    BY HeldCardinality DEF TypeOK
  <1>a. call[h].lock \in Locks \ held[h]
    <2>1. call[h].lock \in Locks /\ locked[call[h].lock] # 1
      BY DEF TestAndSet, Take, Return, NoCall, Goto, HartOK, CallOK
    <2> QED
      BY <2>1 DEF MutualExclusion
  <1>1. TypeOK'
    BY <1>a DEF TestAndSet, Take, Return, NoCall, Goto, TypeOK, PCs, Calls, HartOK, CallOK
  <1>2. MutualExclusion'
    BY DEF TestAndSet, Take, Return, NoCall, Goto, TypeOK, MutualExclusion, HartOK, CallOK
  <1>3. NoUnderflow'
    BY <1>a DEF TestAndSet, Take, Return, NoCall, Goto, NoUnderflow, TypeOK, HartOK, CallOK
  <1>4. LevelsOK(h)'
    BY DEF TestAndSet, Take, Return, NoCall, Goto, TypeOK, HartOK, LevelsOK, CallOK, MaskOK
  <1>5. CallOK(pc[h], call[h], held[h])' /\ CallOK(frame[h].pc, frame[h].call, frame[h].held)'
    BY <1>a DEF TestAndSet, Take, Return, NoCall, Goto, TypeOK, HartOK, LevelsOK, CallOK
  <1>6. DepthOK(h)'
    <2>1. Cardinality(held[h])' = Cardinality(held[h]) + 1
      BY <1>a, <1>0 DEF TestAndSet, Take, Return, NoCall, Goto, TypeOK, HartOK, CallOK
    <2>2. /\ lock_depth[h] \in Nat /\ failed[h] \in Nat
          /\ Ahead(pc[h]) \in Int /\ Ahead(frame[h].pc) \in Int
          /\ Ahead(pc[h])' \in Int /\ Ahead(frame[h].pc)' \in Int
      BY DEF TypeOK, Ahead
    <2>3. Ahead(pc[h])' + Ahead(frame[h].pc)' = Ahead(pc[h]) + Ahead(frame[h].pc) - 1
      BY DEF TestAndSet, Take, Return, NoCall, Goto, TypeOK, Ahead, NoFrame, HartOK, LevelsOK
    <2>4. lock_depth[h]' = lock_depth[h]  /\ failed[h]' = failed[h]
      BY DEF TestAndSet, Take, Return, NoCall, Goto, TypeOK
    <2>5. lock_depth[h] = Cardinality(held[h]) + failed[h] + Ahead(pc[h]) + Ahead(frame[h].pc)
      BY DEF HartOK, DepthOK
    <2> HIDE DEF IInv
    <2> QED
      BY <1>0, <2>1, <2>2, <2>3, <2>4, <2>5 DEF DepthOK
  <1>7. ASSUME h \notin TryHarts
        PROVE  MaskOK(h)'
    BY <1>a, <1>7 DEF TestAndSet, Take, Return, NoCall, Goto, TypeOK, HartOK, LevelsOK, CallOK, MaskOK, BaseSie, PCs
  <1>8. ASSUME NEW g \in Harts, g # h
        PROVE  HartOK(g)'
    BY <1>8, OtherHart DEF TestAndSet, Take, Return, NoCall, Goto, TypeOK
  <1> QED
    BY <1>1, <1>2, <1>3, <1>4, <1>5, <1>6, <1>7, <1>8 DEF HartOK

(* The lock word is taken by compare-exchange. *)
LEMMA CompareExchangeIInv ==
    ASSUME IInv, NEW h \in Harts, CompareExchange(h)
    PROVE  IInv'
  <1> USE DEF IInv
  <1>0. /\ Cardinality(held[h]) \in Nat
        /\ held[h] = {} <=> Cardinality(held[h]) = 0
        /\ \A m \in held[h] : Cardinality(held[h] \ {m}) = Cardinality(held[h]) - 1
        /\ \A m \in Locks : m \notin held[h] => Cardinality(held[h] \cup {m}) = Cardinality(held[h]) + 1
    BY HeldCardinality DEF TypeOK
  <1>a. call[h].lock \in Locks \ held[h]
    <2>1. call[h].lock \in Locks /\ locked[call[h].lock] # 1
      BY DEF CompareExchange, Take, Return, NoCall, Goto, HartOK, CallOK
    <2> QED
      BY <2>1 DEF MutualExclusion
  <1>1. TypeOK'
    BY <1>a DEF CompareExchange, Take, Return, NoCall, Goto, TypeOK, PCs, Calls, HartOK, CallOK
  <1>2. MutualExclusion'
    BY DEF CompareExchange, Take, Return, NoCall, Goto, TypeOK, MutualExclusion, HartOK, CallOK
  <1>3. NoUnderflow'
    BY <1>a DEF CompareExchange, Take, Return, NoCall, Goto, NoUnderflow, TypeOK, HartOK, CallOK
  <1>4. LevelsOK(h)'
    BY DEF CompareExchange, Take, Return, NoCall, Goto, TypeOK, HartOK, LevelsOK, CallOK, MaskOK
  <1>5. CallOK(pc[h], call[h], held[h])' /\ CallOK(frame[h].pc, frame[h].call, frame[h].held)'
    BY <1>a DEF CompareExchange, Take, Return, NoCall, Goto, TypeOK, HartOK, LevelsOK, CallOK
  <1>6. DepthOK(h)'
    <2>1. Cardinality(held[h])' = Cardinality(held[h]) + 1
      BY <1>a, <1>0 DEF CompareExchange, Take, Return, NoCall, Goto, TypeOK, HartOK, CallOK
    <2>2. /\ lock_depth[h] \in Nat /\ failed[h] \in Nat
          /\ Ahead(pc[h]) \in Int /\ Ahead(frame[h].pc) \in Int
          /\ Ahead(pc[h])' \in Int /\ Ahead(frame[h].pc)' \in Int
      BY DEF TypeOK, Ahead
    <2>3. Ahead(pc[h])' + Ahead(frame[h].pc)' = Ahead(pc[h]) + Ahead(frame[h].pc) - 1
      BY DEF CompareExchange, Take, Return, NoCall, Goto, TypeOK, Ahead, NoFrame, HartOK, LevelsOK
    <2>4. lock_depth[h]' = lock_depth[h]  /\ failed[h]' = failed[h]
      BY DEF CompareExchange, Take, Return, NoCall, Goto, TypeOK
    <2>5. lock_depth[h] = Cardinality(held[h]) + failed[h] + Ahead(pc[h]) + Ahead(frame[h].pc)
      BY DEF HartOK, DepthOK
    <2> HIDE DEF IInv
    <2> QED
      BY <1>0, <2>1, <2>2, <2>3, <2>4, <2>5 DEF DepthOK
  <1>7. ASSUME h \notin TryHarts
        PROVE  MaskOK(h)'
    BY <1>a, <1>7 DEF CompareExchange, Take, Return, NoCall, Goto, TypeOK, HartOK, LevelsOK, CallOK, MaskOK, BaseSie, PCs
  <1>8. ASSUME NEW g \in Harts, g # h
        PROVE  HartOK(g)'
    BY <1>8, OtherHart DEF CompareExchange, Take, Return, NoCall, Goto, TypeOK
  <1> QED
    BY <1>1, <1>2, <1>3, <1>4, <1>5, <1>6, <1>7, <1>8 DEF HartOK

(* A failed spin_trylock leaves lock_depth raised. *)
LEMMA CompareExchangeFailsIInv ==
    ASSUME IInv, NEW h \in Harts, CompareExchangeFails(h)
    PROVE  IInv'
  <1> USE DEF IInv
  <1>0. /\ Cardinality(held[h]) \in Nat
        /\ held[h] = {} <=> Cardinality(held[h]) = 0
        /\ \A m \in held[h] : Cardinality(held[h] \ {m}) = Cardinality(held[h]) - 1
        /\ \A m \in Locks : m \notin held[h] => Cardinality(held[h] \cup {m}) = Cardinality(held[h]) + 1
    BY HeldCardinality DEF TypeOK
  <1>1. TypeOK'
    BY DEF CompareExchangeFails, Return, NoCall, Goto, TypeOK, PCs, Calls, HartOK, CallOK
  <1>2. MutualExclusion'
    BY DEF CompareExchangeFails, Return, NoCall, Goto, TypeOK, MutualExclusion, HartOK, CallOK
  <1>3. NoUnderflow'
    BY DEF CompareExchangeFails, Return, NoCall, Goto, NoUnderflow, TypeOK, HartOK, CallOK
  <1>4. LevelsOK(h)'
    BY DEF CompareExchangeFails, Return, NoCall, Goto, TypeOK, HartOK, LevelsOK, CallOK, MaskOK
  <1>5. CallOK(pc[h], call[h], held[h])' /\ CallOK(frame[h].pc, frame[h].call, frame[h].held)'
    BY DEF CompareExchangeFails, Return, NoCall, Goto, TypeOK, HartOK, LevelsOK, CallOK
  <1>6. DepthOK(h)'
    <2>1. Cardinality(held[h])' = Cardinality(held[h])
      BY <1>0 DEF CompareExchangeFails, Return, NoCall, Goto, TypeOK, HartOK, CallOK
    <2>2. /\ lock_depth[h] \in Nat /\ failed[h] \in Nat
          /\ Ahead(pc[h]) \in Int /\ Ahead(frame[h].pc) \in Int
          /\ Ahead(pc[h])' \in Int /\ Ahead(frame[h].pc)' \in Int
      BY DEF TypeOK, Ahead
    <2>3. Ahead(pc[h])' + Ahead(frame[h].pc)' = Ahead(pc[h]) + Ahead(frame[h].pc) - 1
      BY DEF CompareExchangeFails, Return, NoCall, Goto, TypeOK, Ahead, NoFrame, HartOK, LevelsOK
    <2>4. lock_depth[h]' = lock_depth[h]  /\ failed[h]' = failed[h] + 1
      BY DEF CompareExchangeFails, Return, NoCall, Goto, TypeOK
    <2>5. lock_depth[h] = Cardinality(held[h]) + failed[h] + Ahead(pc[h]) + Ahead(frame[h].pc)
      BY DEF HartOK, DepthOK
    <2> HIDE DEF IInv
    <2> QED
      BY <1>0, <2>1, <2>2, <2>3, <2>4, <2>5 DEF DepthOK
  <1>7. ASSUME h \notin TryHarts
        PROVE  MaskOK(h)'
    BY <1>7 DEF CompareExchangeFails, Return, NoCall, Goto, TypeOK, HartOK, LevelsOK, CallOK, MaskOK, BaseSie, PCs
  <1>8. ASSUME NEW g \in Harts, g # h
        PROVE  HartOK(g)'
    BY <1>8, OtherHart DEF CompareExchangeFails, Return, NoCall, Goto, TypeOK
  <1> QED
    BY <1>1, <1>2, <1>3, <1>4, <1>5, <1>6, <1>7, <1>8 DEF HartOK

(* The sanity check of spin_unlock: the lock held is counted in lock_depth. *)
LEMMA TestUnderflowIInv ==
    ASSUME IInv, NEW h \in Harts, TestUnderflow(h)
    PROVE  IInv'
  <1> USE DEF IInv
  <1>0. /\ Cardinality(held[h]) \in Nat
        /\ held[h] = {} <=> Cardinality(held[h]) = 0
        /\ \A m \in held[h] : Cardinality(held[h] \ {m}) = Cardinality(held[h]) - 1
        /\ \A m \in Locks : m \notin held[h] => Cardinality(held[h] \cup {m}) = Cardinality(held[h]) + 1
    BY HeldCardinality DEF TypeOK
  <1>a. lock_depth[h] > 0
    <2>1. Ahead(pc[h]) = 0 /\ Ahead(frame[h].pc) = 0 /\ failed[h] \in Nat
      BY DEF TestUnderflow, Goto, TypeOK, HartOK, LevelsOK, Ahead, NoFrame
    <2>2. held[h] # {}
      BY DEF TestUnderflow, Goto, HartOK, CallOK
    <2> QED
      BY <1>0, <2>1, <2>2 DEF HartOK, DepthOK
  <1>1. TypeOK'
    BY <1>a DEF TestUnderflow, Goto, TypeOK, PCs, Calls, HartOK, CallOK
  <1>2. MutualExclusion'
    BY DEF TestUnderflow, Goto, TypeOK, MutualExclusion, HartOK, CallOK
  <1>3. NoUnderflow'
    BY <1>a DEF TestUnderflow, Goto, NoUnderflow, TypeOK, HartOK, CallOK
  <1>4. LevelsOK(h)'
    BY DEF TestUnderflow, Goto, TypeOK, HartOK, LevelsOK, CallOK, MaskOK
  <1>5. CallOK(pc[h], call[h], held[h])' /\ CallOK(frame[h].pc, frame[h].call, frame[h].held)'
    BY <1>a DEF TestUnderflow, Goto, TypeOK, HartOK, LevelsOK, CallOK
  <1>6. DepthOK(h)'
    BY <1>0 DEF TestUnderflow, Goto, TypeOK, HartOK, LevelsOK, DepthOK, Ahead, NoFrame
  <1>7. ASSUME h \notin TryHarts
        PROVE  MaskOK(h)'
    BY <1>a, <1>7 DEF TestUnderflow, Goto, TypeOK, HartOK, LevelsOK, CallOK, MaskOK, BaseSie, PCs
  <1>8. ASSUME NEW g \in Harts, g # h
        PROVE  HartOK(g)'
    BY <1>8, OtherHart DEF TestUnderflow, Goto, TypeOK
  <1> QED
    BY <1>1, <1>2, <1>3, <1>4, <1>5, <1>6, <1>7, <1>8 DEF HartOK

(* lock_depth runs behind the locks held by one. *)
LEMMA DecDepthIInv ==
    ASSUME IInv, NEW h \in Harts, DecDepth(h)
    PROVE  IInv'
  <1> USE DEF IInv
  <1>0. /\ Cardinality(held[h]) \in Nat
        /\ held[h] = {} <=> Cardinality(held[h]) = 0
        /\ \A m \in held[h] : Cardinality(held[h] \ {m}) = Cardinality(held[h]) - 1
        /\ \A m \in Locks : m \notin held[h] => Cardinality(held[h] \cup {m}) = Cardinality(held[h]) + 1
    BY HeldCardinality DEF TypeOK
  <1>a. lock_depth[h] > 0
    <2>1. Ahead(pc[h]) = 0 /\ Ahead(frame[h].pc) = 0 /\ failed[h] \in Nat
      BY DEF DecDepth, Goto, TypeOK, HartOK, LevelsOK, Ahead, NoFrame
    <2>2. held[h] # {}
      BY DEF DecDepth, Goto, HartOK, CallOK
    <2> QED
      BY <1>0, <2>1, <2>2 DEF HartOK, DepthOK
  <1>1. TypeOK'
    BY <1>a DEF DecDepth, Goto, TypeOK, PCs, Calls, HartOK, CallOK
  <1>2. MutualExclusion'
    BY DEF DecDepth, Goto, TypeOK, MutualExclusion, HartOK, CallOK
  <1>3. NoUnderflow'
    BY <1>a DEF DecDepth, Goto, NoUnderflow, TypeOK, HartOK, CallOK
  <1>4. LevelsOK(h)'
    BY DEF DecDepth, Goto, TypeOK, HartOK, LevelsOK, CallOK, MaskOK
  <1>5. CallOK(pc[h], call[h], held[h])' /\ CallOK(frame[h].pc, frame[h].call, frame[h].held)'
    BY <1>a DEF DecDepth, Goto, TypeOK, HartOK, LevelsOK, CallOK
  <1>6. DepthOK(h)'
    <2>1. Cardinality(held[h])' = Cardinality(held[h])
      BY <1>a, <1>0 DEF DecDepth, Goto, TypeOK, HartOK, CallOK
    <2>2. /\ lock_depth[h] \in Nat /\ failed[h] \in Nat
          /\ Ahead(pc[h]) \in Int /\ Ahead(frame[h].pc) \in Int
          /\ Ahead(pc[h])' \in Int /\ Ahead(frame[h].pc)' \in Int
      BY DEF TypeOK, Ahead
    <2>3. Ahead(pc[h])' + Ahead(frame[h].pc)' = Ahead(pc[h]) + Ahead(frame[h].pc) - 1
      BY DEF DecDepth, Goto, TypeOK, Ahead, NoFrame, HartOK, LevelsOK
    <2>4. lock_depth[h]' = lock_depth[h] - 1 /\ failed[h]' = failed[h]
      BY DEF DecDepth, Goto, TypeOK
    <2>5. lock_depth[h] = Cardinality(held[h]) + failed[h] + Ahead(pc[h]) + Ahead(frame[h].pc)
      BY DEF HartOK, DepthOK
    <2> HIDE DEF IInv
    <2> QED
      BY <1>0, <2>1, <2>2, <2>3, <2>4, <2>5 DEF DepthOK
  <1>7. ASSUME h \notin TryHarts
        PROVE  MaskOK(h)'
    BY <1>a, <1>7 DEF DecDepth, Goto, TypeOK, HartOK, LevelsOK, CallOK, MaskOK, BaseSie, PCs
  <1>8. ASSUME NEW g \in Harts, g # h
        PROVE  HartOK(g)'
    BY <1>8, OtherHart DEF DecDepth, Goto, TypeOK
  <1> QED
    BY <1>1, <1>2, <1>3, <1>4, <1>5, <1>6, <1>7, <1>8 DEF HartOK

(* The lock word is cleared. *)
LEMMA ClearLockedIInv ==
    ASSUME IInv, NEW h \in Harts, ClearLocked(h)
    PROVE  IInv'
  <1> USE DEF IInv
  <1>0. /\ Cardinality(held[h]) \in Nat
        /\ held[h] = {} <=> Cardinality(held[h]) = 0
        /\ \A m \in held[h] : Cardinality(held[h] \ {m}) = Cardinality(held[h]) - 1
        /\ \A m \in Locks : m \notin held[h] => Cardinality(held[h] \cup {m}) = Cardinality(held[h]) + 1
    BY HeldCardinality DEF TypeOK
  <1>1. TypeOK'
    BY DEF ClearLocked, Goto, TypeOK, PCs, Calls, HartOK, CallOK
  <1>2. MutualExclusion'
    BY DEF ClearLocked, Goto, TypeOK, MutualExclusion, HartOK, CallOK
  <1>3. NoUnderflow'
    BY DEF ClearLocked, Goto, NoUnderflow, TypeOK, HartOK, CallOK
  <1>4. LevelsOK(h)'
    BY DEF ClearLocked, Goto, TypeOK, HartOK, LevelsOK, CallOK, MaskOK
  <1>5. CallOK(pc[h], call[h], held[h])' /\ CallOK(frame[h].pc, frame[h].call, frame[h].held)'
    BY DEF ClearLocked, Goto, TypeOK, HartOK, LevelsOK, CallOK
  <1>6. DepthOK(h)'
    <2>1. Cardinality(held[h])' = Cardinality(held[h]) - 1
      BY <1>0 DEF ClearLocked, Goto, TypeOK, HartOK, CallOK
    <2>2. /\ lock_depth[h] \in Nat /\ failed[h] \in Nat
          /\ Ahead(pc[h]) \in Int /\ Ahead(frame[h].pc) \in Int
          /\ Ahead(pc[h])' \in Int /\ Ahead(frame[h].pc)' \in Int
      BY DEF TypeOK, Ahead
    <2>3. Ahead(pc[h])' + Ahead(frame[h].pc)' = Ahead(pc[h]) + Ahead(frame[h].pc) + 1
      BY DEF ClearLocked, Goto, TypeOK, Ahead, NoFrame, HartOK, LevelsOK
    <2>4. lock_depth[h]' = lock_depth[h]  /\ failed[h]' = failed[h]
      BY DEF ClearLocked, Goto, TypeOK
    <2>5. lock_depth[h] = Cardinality(held[h]) + failed[h] + Ahead(pc[h]) + Ahead(frame[h].pc)
      BY DEF HartOK, DepthOK
    <2> HIDE DEF IInv
    <2> QED
      BY <1>0, <2>1, <2>2, <2>3, <2>4, <2>5 DEF DepthOK
  <1>7. ASSUME h \notin TryHarts
        PROVE  MaskOK(h)'
    BY <1>7 DEF ClearLocked, Goto, TypeOK, HartOK, LevelsOK, CallOK, MaskOK, BaseSie, PCs
  <1>8. ASSUME NEW g \in Harts, g # h
        PROVE  HartOK(g)'
    BY <1>8, OtherHart DEF ClearLocked, Goto, TypeOK
  <1> QED
    BY <1>1, <1>2, <1>3, <1>4, <1>5, <1>6, <1>7, <1>8 DEF HartOK

(* SIE comes back when lock_depth is zero. *)
LEMMA RestoreSstatusIInv ==
    ASSUME IInv, NEW h \in Harts, RestoreSstatus(h)
    PROVE  IInv'
  <1> USE DEF IInv
  <1>0. /\ Cardinality(held[h]) \in Nat
        /\ held[h] = {} <=> Cardinality(held[h]) = 0
        /\ \A m \in held[h] : Cardinality(held[h] \ {m}) = Cardinality(held[h]) - 1
        /\ \A m \in Locks : m \notin held[h] => Cardinality(held[h] \cup {m}) = Cardinality(held[h]) + 1
    BY HeldCardinality DEF TypeOK
  <1>a. h \notin TryHarts => (lock_depth[h] = 0 <=> held[h] = {})
    <2> SUFFICES ASSUME h \notin TryHarts PROVE lock_depth[h] = 0 <=> held[h] = {}
      OBVIOUS
    <2>1. Ahead(pc[h]) = 0 /\ Ahead(frame[h].pc) = 0 /\ failed[h] = 0
      BY DEF RestoreSstatus, Return, NoCall, Goto, TypeOK, HartOK, LevelsOK, MaskOK, Ahead, NoFrame
    <2> QED
      BY <1>0, <2>1 DEF HartOK, DepthOK
  <1>1. TypeOK'
    BY <1>a DEF RestoreSstatus, Return, NoCall, Goto, TypeOK, PCs, Calls, HartOK, CallOK
  <1>2. MutualExclusion'
    BY DEF RestoreSstatus, Return, NoCall, Goto, TypeOK, MutualExclusion, HartOK, CallOK
  <1>3. NoUnderflow'
    BY <1>a DEF RestoreSstatus, Return, NoCall, Goto, NoUnderflow, TypeOK, HartOK, CallOK
  <1>4. LevelsOK(h)'
    BY DEF RestoreSstatus, Return, NoCall, Goto, TypeOK, HartOK, LevelsOK, CallOK, MaskOK
  <1>5. CallOK(pc[h], call[h], held[h])' /\ CallOK(frame[h].pc, frame[h].call, frame[h].held)'
    BY <1>a DEF RestoreSstatus, Return, NoCall, Goto, TypeOK, HartOK, LevelsOK, CallOK
  <1>6. DepthOK(h)'
    BY <1>0 DEF RestoreSstatus, Return, NoCall, Goto, TypeOK, HartOK, LevelsOK, DepthOK, Ahead, NoFrame
  <1>7. ASSUME h \notin TryHarts
        PROVE  MaskOK(h)'
    BY <1>a, <1>7 DEF RestoreSstatus, Return, NoCall, Goto, TypeOK, HartOK, LevelsOK, CallOK, MaskOK, BaseSie, PCs
  <1>8. ASSUME NEW g \in Harts, g # h
        PROVE  HartOK(g)'
    BY <1>8, OtherHart DEF RestoreSstatus, Return, NoCall, Goto, TypeOK
  <1> QED
    BY <1>1, <1>2, <1>3, <1>4, <1>5, <1>6, <1>7, <1>8 DEF HartOK

(* mret turns interrupts on. *)
LEMMA EnterSModeIInv ==
    ASSUME IInv, NEW h \in Harts, EnterSMode(h)
    PROVE  IInv'
  <1> USE DEF IInv
  <1>0. Cardinality(held[h]) \in Nat
    BY HeldCardinality DEF TypeOK
  <1>1. TypeOK'
    BY DEF EnterSMode, TypeOK, PCs, Calls, HartOK, CallOK
  <1>2. MutualExclusion'
    BY DEF EnterSMode, TypeOK, MutualExclusion, HartOK, CallOK
  <1>3. NoUnderflow'
    BY DEF EnterSMode, NoUnderflow, TypeOK, HartOK, CallOK
  <1>4. LevelsOK(h)'
    BY DEF EnterSMode, TypeOK, HartOK, LevelsOK, CallOK, MaskOK
  <1>5. CallOK(pc[h], call[h], held[h])' /\ CallOK(frame[h].pc, frame[h].call, frame[h].held)'
    BY DEF EnterSMode, TypeOK, HartOK, LevelsOK, CallOK
  <1>6. DepthOK(h)'
    BY <1>0 DEF EnterSMode, TypeOK, HartOK, LevelsOK, DepthOK, Ahead, NoFrame
  <1>7. ASSUME h \notin TryHarts
        PROVE  MaskOK(h)'
    BY <1>7 DEF EnterSMode, TypeOK, HartOK, LevelsOK, CallOK, MaskOK, BaseSie, PCs
  <1>8. ASSUME NEW g \in Harts, g # h
        PROVE  HartOK(g)'
    BY <1>8, OtherHart DEF EnterSMode, TypeOK
  <1> QED
    BY <1>1, <1>2, <1>3, <1>4, <1>5, <1>6, <1>7, <1>8 DEF HartOK

(* The end of boot. *)
LEMMA EndBootIInv ==
    ASSUME IInv, NEW h \in Harts, EndBoot(h)
    PROVE  IInv'
  <1> USE DEF IInv
  <1>0. Cardinality(held[h]) \in Nat
    BY HeldCardinality DEF TypeOK
  <1>1. TypeOK'
    BY DEF EndBoot, TypeOK, PCs, Calls, HartOK, CallOK
  <1>2. MutualExclusion'
    BY DEF EndBoot, TypeOK, MutualExclusion, HartOK, CallOK
  <1>3. NoUnderflow'
    BY DEF EndBoot, NoUnderflow, TypeOK, HartOK, CallOK
  <1>4. LevelsOK(h)'
    BY DEF EndBoot, TypeOK, HartOK, LevelsOK, CallOK, MaskOK
  <1>5. CallOK(pc[h], call[h], held[h])' /\ CallOK(frame[h].pc, frame[h].call, frame[h].held)'
    BY DEF EndBoot, TypeOK, HartOK, LevelsOK, CallOK
  <1>6. DepthOK(h)'
    BY <1>0 DEF EndBoot, TypeOK, HartOK, LevelsOK, DepthOK, Ahead, NoFrame
  <1>7. ASSUME h \notin TryHarts
        PROVE  MaskOK(h)'
    BY <1>7 DEF EndBoot, TypeOK, HartOK, LevelsOK, CallOK, MaskOK, BaseSie, PCs
  <1>8. ASSUME NEW g \in Harts, g # h
        PROVE  HartOK(g)'
    BY <1>8, OtherHart DEF EndBoot, TypeOK
  <1> QED
    BY <1>1, <1>2, <1>3, <1>4, <1>5, <1>6, <1>7, <1>8 DEF HartOK

(* A trap in the middle of the lock code meets a hart that holds nothing. *)
LEMMA TrapIInv ==
    ASSUME IInv, NEW h \in Harts, Trap(h)
    PROVE  IInv'
  <1> USE DEF IInv
  <1>0. /\ Cardinality(held[h]) \in Nat
        /\ held[h] = {} <=> Cardinality(held[h]) = 0
        /\ \A m \in held[h] : Cardinality(held[h] \ {m}) = Cardinality(held[h]) - 1
        /\ \A m \in Locks : m \notin held[h] => Cardinality(held[h] \cup {m}) = Cardinality(held[h]) + 1
    BY HeldCardinality DEF TypeOK
  <1>1. TypeOK'
    BY DEF Trap, NoCall, TypeOK, PCs, Calls, HartOK, CallOK
  <1>2. MutualExclusion'
    BY DEF Trap, NoCall, TypeOK, MutualExclusion, HartOK, CallOK
  <1>3. NoUnderflow'
    BY DEF Trap, NoCall, NoUnderflow, TypeOK, HartOK, CallOK
  <1>4. LevelsOK(h)'
    BY DEF Trap, NoCall, TypeOK, HartOK, LevelsOK, CallOK, MaskOK
  <1>5. CallOK(pc[h], call[h], held[h])' /\ CallOK(frame[h].pc, frame[h].call, frame[h].held)'
    BY DEF Trap, NoCall, TypeOK, HartOK, LevelsOK, CallOK
  <1>6. DepthOK(h)'
    <2>1. Cardinality(held[h])' = Cardinality(held[h])
      BY <1>0 DEF Trap, NoCall, TypeOK, HartOK, CallOK
    <2>2. /\ lock_depth[h] \in Nat /\ failed[h] \in Nat
          /\ Ahead(pc[h]) \in Int /\ Ahead(frame[h].pc) \in Int
          /\ Ahead(pc[h])' \in Int /\ Ahead(frame[h].pc)' \in Int
      BY DEF TypeOK, Ahead
    <2>3. Ahead(pc[h])' + Ahead(frame[h].pc)' = Ahead(pc[h]) + Ahead(frame[h].pc)
      BY DEF Trap, NoCall, TypeOK, Ahead, NoFrame, HartOK, LevelsOK
    <2>4. lock_depth[h]' = lock_depth[h]  /\ failed[h]' = failed[h]
      BY DEF Trap, NoCall, TypeOK
    <2>5. lock_depth[h] = Cardinality(held[h]) + failed[h] + Ahead(pc[h]) + Ahead(frame[h].pc)
      BY DEF HartOK, DepthOK
    <2> HIDE DEF IInv
    <2> QED
      BY <1>0, <2>1, <2>2, <2>3, <2>4, <2>5 DEF DepthOK
  <1>7. ASSUME h \notin TryHarts
        PROVE  MaskOK(h)'
    BY <1>7 DEF Trap, NoCall, TypeOK, HartOK, LevelsOK, CallOK, MaskOK, BaseSie, PCs
  <1>8. ASSUME NEW g \in Harts, g # h
        PROVE  HartOK(g)'
    BY <1>8, OtherHart DEF Trap, NoCall, TypeOK
  <1> QED
    BY <1>1, <1>2, <1>3, <1>4, <1>5, <1>6, <1>7, <1>8 DEF HartOK

(* The interrupted call goes on as if nothing had happened. *)
LEMMA TrapReturnIInv ==
    ASSUME IInv, NEW h \in Harts, TrapReturn(h)
    PROVE  IInv'
  <1> USE DEF IInv
  <1>0. Cardinality(held[h]) \in Nat
    BY HeldCardinality DEF TypeOK
  <1>1. TypeOK'
    BY DEF TrapReturn, NoFrame, NoCall, TypeOK, PCs, Calls, HartOK, CallOK
  <1>2. MutualExclusion'
    BY DEF TrapReturn, NoFrame, NoCall, TypeOK, MutualExclusion, HartOK, CallOK
  <1>3. NoUnderflow'
    BY DEF TrapReturn, NoFrame, NoCall, NoUnderflow, TypeOK, HartOK, CallOK
  <1>4. LevelsOK(h)'
    BY DEF TrapReturn, NoFrame, NoCall, TypeOK, HartOK, LevelsOK, CallOK, MaskOK
  <1>5. CallOK(pc[h], call[h], held[h])' /\ CallOK(frame[h].pc, frame[h].call, frame[h].held)'
    BY DEF TrapReturn, NoFrame, NoCall, TypeOK, HartOK, LevelsOK, CallOK
  <1>6. DepthOK(h)'
    BY <1>0 DEF TrapReturn, NoFrame, NoCall, TypeOK, HartOK, LevelsOK, DepthOK, Ahead, NoFrame
  <1>7. ASSUME h \notin TryHarts
        PROVE  MaskOK(h)'
    BY <1>7 DEF TrapReturn, NoFrame, NoCall, TypeOK, HartOK, LevelsOK, CallOK, MaskOK, BaseSie, PCs
  <1>8. ASSUME NEW g \in Harts, g # h
        PROVE  HartOK(g)'
    BY <1>8, OtherHart DEF TrapReturn, NoFrame, NoCall, TypeOK
  <1> QED
    BY <1>1, <1>2, <1>3, <1>4, <1>5, <1>6, <1>7, <1>8 DEF HartOK

(* Every step of a hart, and every stuttering step, keeps the books. *)
LEMMA NextIInv == IInv /\ [Next]_vars => IInv'
  <1> SUFFICES ASSUME IInv, [Next]_vars PROVE IInv'
    OBVIOUS
  <1>1. CASE UNCHANGED vars
    BY <1>1 DEF vars, IInv, TypeOK, MutualExclusion, NoUnderflow, HartOK, LevelsOK, CallOK,
                DepthOK, MaskOK, Ahead, BaseSie
  <1>2. ASSUME NEW h \in Harts, NEW l \in Locks,
               CallLock(h, l) \/ CallTrylock(h, l) \/ CallUnlock(h, l)
        PROVE  IInv'
    BY <1>2, CallLockIInv, CallTrylockIInv, CallUnlockIInv
  <1>3. ASSUME NEW h \in Harts, LockCode(h)
        PROVE  IInv'
    BY <1>3, TestDepthIInv, SaveSstatusIInv, ClearSieIInv, IncDepthIInv, TestAndSetIInv,
       CompareExchangeIInv, CompareExchangeFailsIInv, TestUnderflowIInv, DecDepthIInv,
       ClearLockedIInv, RestoreSstatusIInv DEF LockCode
  <1>4. ASSUME NEW h \in Harts, Hart(h)
        PROVE  IInv'
    BY <1>4, EnterSModeIInv, EndBootIInv, TrapIInv, TrapReturnIInv DEF Hart
  <1> QED
    BY <1>1, <1>2, <1>3, <1>4 DEF Next

(* In every reachable state, for any number of harts and locks, the lock   *)
(* code's bookkeeping (lock_depth, the saved SIE, the lock words) agrees   *)
(* with the locks the harts hold.                                          *)
THEOREM InductiveInvariant == Spec => []IInv
  BY InitIInv, NextIInv, PTL DEF Spec

(* spin_lock and spin_trylock give a lock to one hart at a time.           *)
THEOREM MutualExclusionHolds == Spec => []MutualExclusion
  <1>1. IInv => MutualExclusion
    BY DEF IInv
  <1> QED
    BY <1>1, InductiveInvariant, PTL

(* spin_unlock's "lock_depth underflow" panic is unreachable.              *)
THEOREM NoUnderflowHolds == Spec => []NoUnderflow
  <1>1. IInv => NoUnderflow
    BY DEF IInv
  <1> QED
    BY <1>1, InductiveInvariant, PTL

(* A hart of the shipped kernel is never interrupted between the mask and  *)
(* the unmask of spin_lock and spin_unlock.                                *)
THEOREM MaskedWhileHoldingHolds == Spec => []MaskedWhileHolding
  <1>1. IInv => MaskedWhileHolding
    <2> SUFFICES ASSUME IInv, NEW h \in Harts \ TryHarts,
                        held[h] # {} \/ pc[h] \in {"inc", "spin"}
                 PROVE  sie[h] = 0
      BY DEF MaskedWhileHolding
    <2>1. MaskOK(h) /\ pc[h] \in PCs /\ pc[h] # "panic" /\ TypeOK
      BY DEF IInv, HartOK, NoUnderflow, TypeOK
    <2> QED
      BY <2>1 DEF MaskOK, PCs
  <1> QED
    BY <1>1, InductiveInvariant, PTL

(* Interrupts come back exactly when the last lock is given back.          *)
THEOREM InterruptsRestoredHolds == Spec => []InterruptsRestored
  <1>1. IInv => InterruptsRestored
    BY DEF IInv, HartOK, MaskOK, InterruptsRestored, BaseSie
  <1> QED
    BY <1>1, InductiveInvariant, PTL

(* Who owns a lock follows from who holds it.                              *)
LEMMA OwnerIs ==
    ASSUME MutualExclusion, NEW l \in Locks
    PROVE  /\ \A h \in Harts : l \in held[h] => Owner[l] = h
           /\ (\A h \in Harts : l \notin held[h]) => Owner[l] = NoHart
  BY DEF MutualExclusion, Owner

(* A step that takes a lock is a step of the abstract lock.                *)
LEMMA TakeAcquires ==
    ASSUME IInv, IInv', NEW h \in Harts, NEW l \in Locks, locked[l] = 0,
           held' = [held EXCEPT ![h] = @ \cup {l}]
    PROVE  M!Acquire(h, l)
  <1> USE DEF IInv
  <1>1. held \in [Harts -> SUBSET Locks] /\ MutualExclusion /\ MutualExclusion'
    BY DEF TypeOK
  <1>2. Owner[l] = NoHart
    BY <1>1, OwnerIs DEF MutualExclusion
  <1>3. Owner'[l] = h
    BY <1>1 DEF MutualExclusion, Owner
  <1>4. ASSUME NEW m \in Locks, m # l
        PROVE  Owner'[m] = Owner[m]
    <2>1. \A g \in Harts : m \in held'[g] <=> m \in held[g]
      BY <1>1, <1>4
    <2> QED
      BY <2>1 DEF Owner
  <1>5. Owner' = [Owner EXCEPT ![l] = h]
    BY <1>3, <1>4 DEF Owner
  <1> QED
    BY <1>2, <1>5 DEF M!Acquire

(* A step that clears a lock word is the owner's release.                  *)
LEMMA ClearReleases ==
    ASSUME IInv, IInv', NEW h \in Harts, NEW l \in held[h],
           held' = [held EXCEPT ![h] = @ \ {l}]
    PROVE  M!Release(h, l)
  <1> USE DEF IInv
  <1>1. held \in [Harts -> SUBSET Locks] /\ MutualExclusion /\ MutualExclusion' /\ l \in Locks
    BY DEF TypeOK
  <1>2. Owner[l] = h
    BY <1>1, OwnerIs
  <1>3. Owner'[l] = NoHart
    <2>1. \A g \in Harts : l \notin held'[g]
      BY <1>1 DEF MutualExclusion
    <2> QED
      BY <1>1, <2>1 DEF Owner
  <1>4. ASSUME NEW m \in Locks, m # l
        PROVE  Owner'[m] = Owner[m]
    <2>1. \A g \in Harts : m \in held'[g] <=> m \in held[g]
      BY <1>1, <1>4
    <2> QED
      BY <2>1 DEF Owner
  <1>5. Owner' = [Owner EXCEPT ![l] = NoHart]
    BY <1>3, <1>4 DEF Owner
  <1> QED
    BY <1>2, <1>5 DEF M!Release

(* The lock code implements the abstract locks of module Mutex: taking the *)
(* lock word is the acquisition, clearing it the release, and every other  *)
(* instruction and interrupt leaves the owners alone.                      *)
THEOREM SpinlockImplementsMutex == Spec => ImplementsMutex
  <1>1. Init => M!Init
    BY DEF Init, M!Init, Owner
  <1>2. ASSUME IInv, IInv', [Next]_vars
        PROVE  [M!Next]_Owner
    <2>1. CASE UNCHANGED held
      BY <2>1 DEF Owner
    <2>2. ASSUME NEW h \in Harts, TestAndSet(h) \/ CompareExchange(h)
          PROVE  M!Next
      <3>1. call[h].lock \in Locks
        BY <1>2, <2>2 DEF IInv, HartOK, CallOK, TestAndSet, CompareExchange
      <3>2. M!Acquire(h, call[h].lock)
        BY <1>2, <2>2, <3>1, TakeAcquires DEF TestAndSet, CompareExchange, Take
      <3> QED
        BY <3>1, <3>2 DEF M!Next
    <2>3. ASSUME NEW h \in Harts, ClearLocked(h)
          PROVE  M!Next
      <3>1. call[h].lock \in held[h] /\ call[h].lock \in Locks
        BY <1>2, <2>3 DEF IInv, HartOK, CallOK, ClearLocked
      <3>2. M!Release(h, call[h].lock)
        BY <1>2, <2>3, <3>1, ClearReleases DEF ClearLocked
      <3> QED
        BY <3>1, <3>2 DEF M!Next
    <2>4. ASSUME Next
          PROVE  \/ UNCHANGED held
                 \/ \E h \in Harts : TestAndSet(h) \/ CompareExchange(h) \/ ClearLocked(h)
      BY <2>4 DEF Next, CallLock, CallTrylock, CallUnlock, LockCode, Hart, TestDepth, SaveSstatus,
                  ClearSie, IncDepth, CompareExchangeFails, TestUnderflow, DecDepth,
                  RestoreSstatus, EnterSMode, EndBoot, Trap, TrapReturn
    <2> QED
      BY <1>2, <2>1, <2>2, <2>3, <2>4 DEF vars
  <1> QED
    BY <1>1, <1>2, InductiveInvariant, PTL DEF Spec, ImplementsMutex, M!Spec

(* The nesting order, at every place between the call of spin_lock or      *)
(* spin_trylock and the test of the lock word: the lock asked for is above *)
(* the locks held.  It is kept for the thread in the frame, too.           *)
Above(p, c, locks) ==
    p \in {"test", "save", "mask", "inc", "spin", "cas"} => \A m \in locks : m < c.lock

Nested ==
    \A h \in Harts : /\ Above(pc[h], call[h], held[h])
                     /\ Above(frame[h].pc, frame[h].call, frame[h].held)

(* Locks are asked for in their nesting order, whatever interrupts the     *)
(* lock code.                                                              *)
LEMMA NestedHolds == Spec => []Nested
  <1>1. Init => Nested
    BY DEF Init, Nested, Above, NoFrame
  <1>2. ASSUME IInv, Nested, [Next]_vars
        PROVE  Nested'
    <2> USE <1>2 DEF Above
    <2>1. CASE UNCHANGED vars
      BY <2>1 DEF Nested, vars
    <2>2. ASSUME NEW h \in Harts, NEW l \in Locks,
                 CallLock(h, l) \/ CallTrylock(h, l) \/ CallUnlock(h, l)
          PROVE  Nested'
      BY <2>2 DEF Nested, CallLock, CallTrylock, CallUnlock, Begin, InOrder, Goto, IInv, TypeOK
    <2>3. ASSUME NEW h \in Harts,
                 TestDepth(h) \/ SaveSstatus(h) \/ ClearSie(h) \/ IncDepth(h)
          PROVE  Nested'
      BY <2>3 DEF Nested, TestDepth, SaveSstatus, ClearSie, IncDepth, Goto, IInv, TypeOK
    <2>4. ASSUME NEW h \in Harts,
                 TestAndSet(h) \/ CompareExchange(h) \/ CompareExchangeFails(h)
          PROVE  Nested'
      BY <2>4 DEF Nested, TestAndSet, CompareExchange, CompareExchangeFails, Take, Return, Goto,
                  IInv, TypeOK
    <2>5. ASSUME NEW h \in Harts,
                 TestUnderflow(h) \/ DecDepth(h) \/ ClearLocked(h) \/ RestoreSstatus(h)
          PROVE  Nested'
      BY <2>5 DEF Nested, TestUnderflow, DecDepth, ClearLocked, RestoreSstatus, Return, Goto,
                  IInv, TypeOK
    <2>6. ASSUME NEW h \in Harts, EnterSMode(h) \/ EndBoot(h)
          PROVE  Nested'
      BY <2>6 DEF Nested, EnterSMode, EndBoot, IInv, TypeOK
    <2>7. ASSUME NEW h \in Harts, Trap(h)
          PROVE  Nested'
      BY <2>7 DEF Nested, Trap, IInv, TypeOK
    <2>8. ASSUME NEW h \in Harts, TrapReturn(h)
          PROVE  Nested'
      BY <2>8 DEF Nested, TrapReturn, NoFrame, IInv, TypeOK
    <2> QED
      BY <2>1, <2>2, <2>3, <2>4, <2>5, <2>6, <2>7, <2>8 DEF Next, LockCode, Hart
  <1> QED
    BY <1>1, <1>2, InductiveInvariant, PTL DEF Spec

(* No set of harts can wait for each other in spin_lock's loop: the holder *)
(* of the innermost lock that is taken waits for none, since it would have *)
(* to ask for one further in, and that one is free.                        *)
THEOREM NoDeadlockHolds == Spec => []NoDeadlock
  <1>1. ASSUME IInv, Nested
        PROVE  NoDeadlock
    <2> DEFINE Taken == {l \in Locks : locked[l] = 1}
    <2> SUFFICES ASSUME Taken # {}
                 PROVE  \E h \in Harts : held[h] # {} /\ ~Stuck(h)
      BY DEF NoDeadlock
    <2>1. Taken \in SUBSET Nat /\ IsFiniteSet(Taken)
      BY SpinlockAssumption, FS_Subset
    <2>2. PICK l \in Taken : \A m \in Taken : m <= l
      BY <2>1, GreatestOf
    <2>3. PICK h \in Harts : l \in held[h]
      BY <1>1, <2>2 DEF IInv, MutualExclusion
    <2>4. ASSUME Stuck(h)
          PROVE  FALSE
      <3>1. call[h].lock \in Locks
        BY <1>1, <2>4 DEF IInv, HartOK, CallOK, Stuck
      <3>2. call[h].lock \in Taken
        BY <2>4, <3>1 DEF Stuck
      <3>3. l < call[h].lock
        BY <1>1, <2>3, <2>4 DEF Nested, Above, Stuck
      <3>4. l \in Nat /\ call[h].lock \in Nat
        BY <3>1, SpinlockAssumption
      <3> QED
        BY <2>2, <3>2, <3>3, <3>4
    <2> QED
      BY <2>3, <2>4
  <1> QED
    BY <1>1, InductiveInvariant, NestedHolds, PTL
==============================================================================
