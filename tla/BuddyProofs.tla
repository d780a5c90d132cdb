----------------------------- MODULE BuddyProofs -----------------------------
(***************************************************************************)
(* Proofs about Buddy, for every number of pages and callers, every        *)
(* MAX_ORDER and every base: the allocator need not begin at an address    *)
(* that is aligned to its largest block.                                   *)
(***************************************************************************)
EXTENDS Buddy, NatFacts, SequenceTheorems, TLAPS

\* The constants' types.
LEMMA Consts == MaxOrder \in Nat /\ NumPages \in Nat /\ NumPages > 0 /\ NoCaller \notin Callers
  BY BuddyAssumption

------------------------------------------------------------------------------
(* The sizes of blocks.                                                    *)

\* The exponents of two that occur: up to the size of two largest blocks.
Exps == 0 .. MaxOrder + 1

\* The size of a block is a positive number.
LEMMA PowType == \A a \in Exps : 2^a \in Nat /\ 2^a > 0
<1> SUFFICES ASSUME NEW a \in Exps
             PROVE  2^a \in Nat /\ 2^a > 0
  OBVIOUS
<1>1. CASE a \in Orders
  BY <1>1, PowersOfTwo DEF Orders
<1>2. CASE a = MaxOrder + 1
  <2>1. MaxOrder \in Orders
    BY Consts DEF Orders
  <2> QED
    BY <1>2, <2>1, PowersOfTwo DEF Orders
<1> QED
  BY <1>1, <1>2, Consts DEF Exps, Orders

\* A block has two halves.
LEMMA PowDouble == \A a \in Exps : a > 0 => a - 1 \in Orders /\ 2^a = 2 * 2^(a - 1)
<1> SUFFICES ASSUME NEW a \in Exps, a > 0
             PROVE  a - 1 \in Orders /\ 2^a = 2 * 2^(a - 1)
  OBVIOUS
<1>1. a - 1 \in Orders /\ (a - 1) + 1 = a
  BY Consts DEF Exps, Orders
<1> QED
  BY <1>1, PowersOfTwo DEF Orders

\* The size of a block divides the size of a larger one.
LEMMA PowDivides ==
    ASSUME NEW a \in Exps, NEW k \in Exps, a <= k
    PROVE  \E q \in Nat : q > 0 /\ 2^k = q * 2^a
<1> DEFINE Good(j) == \E q \in Nat : q > 0 /\ 2^j = q * 2^a
           Bad == {j \in a .. MaxOrder + 1 : ~Good(j)}
<1>1. Bad # {} => FALSE
  <2> SUFFICES ASSUME Bad # {}
               PROVE  FALSE
    OBVIOUS
  <2>1. Bad \in SUBSET Nat
    BY Consts DEF Exps
  <2>2. PICK j \in Bad : \A i \in Bad : j <= i
    BY <2>1, LeastNat
  <2>3. j \in Exps /\ a <= j /\ ~Good(j)
    BY Consts DEF Exps
  <2>4. CASE j = a
    <3>1. 2^a = 1 * 2^a
      BY PowType
    <3> QED
      BY <2>3, <2>4, <3>1
  <2>5. CASE j > a
    <3>0. j \in Nat /\ a \in Nat /\ j - 1 \in a .. MaxOrder + 1 /\ ~(j <= j - 1)
      BY <2>3, <2>5, Consts DEF Exps
    <3>1. j - 1 \notin Bad
      BY <2>2, <3>0
    <3>2. PICK q \in Nat : q > 0 /\ 2^(j - 1) = q * 2^a
      BY <3>0, <3>1
    <3>3. 2^j = 2 * 2^(j - 1)
      BY <2>3, <2>5, Consts, PowDouble DEF Exps
    <3>4. 2^j = (2 * q) * 2^a /\ 2 * q \in Nat /\ 2 * q > 0
      BY <3>2, <3>3, PowType
    <3> QED
      BY <2>3, <3>4
  <2> QED
    BY <2>3, <2>4, <2>5, Consts DEF Exps
<1>2. k \in a .. MaxOrder + 1
  BY Consts DEF Exps
<1> QED
  BY <1>1, <1>2

\* What it means for w to divide r.
LEMMA ModMultiple ==
    ASSUME NEW r \in Nat, NEW w \in Nat, w > 0
    PROVE  r % w = 0 <=> \E m \in Nat : r = m * w
<1>1. ASSUME r % w = 0 PROVE \E m \in Nat : r = m * w
  <2>1. r \div w \in Nat
    OBVIOUS
  <2>2. r = (r \div w) * w
    BY <1>1
  <2> QED BY <2>1, <2>2
<1>2. ASSUME NEW m \in Nat, r = m * w PROVE r % w = 0
  BY <1>2
<1> QED BY <1>1, <1>2

\* The orders are exponents of 2.
LEMMA OrdersAreExps == \A o \in Orders : o \in Exps /\ o + 1 \in Exps /\ o \in Nat
  BY Consts DEF Orders, Exps

\* A multiple of 2^a inside a block of order k is at least 2^a from its end.
LEMMA MultipleInside ==
    ASSUME NEW a \in Exps, NEW k \in Exps, NEW r \in Nat, r > 0, r < 2^k, r % 2^a = 0
    PROVE  a < k /\ r + 2^a <= 2^k
<1>1. 2^a \in Nat /\ 2^a > 0 /\ 2^k \in Nat /\ 2^k > 0 /\ a \in Nat /\ k \in Nat
  BY PowType, Consts DEF Exps
<1>2. PICK m \in Nat : r = m * 2^a
  BY <1>1, ModMultiple
<1>3. a < k
  <2> SUFFICES ASSUME k <= a
               PROVE  FALSE
    BY <1>1
  <2>1. PICK q \in Nat : q > 0 /\ 2^a = q * 2^k
    BY PowDivides
  <2>2. m > 0
    BY <1>1, <1>2
  <2>3. 2^a >= 2^k
    BY <1>1, <2>1
  <2>4. r >= 2^a
    BY <1>1, <1>2, <2>2
  <2> QED
    BY <1>1, <2>3, <2>4
<1>4. PICK q \in Nat : q > 0 /\ 2^k = q * 2^a
  BY <1>1, <1>3, PowDivides
<1>5. m * 2^a + 2^a <= q * 2^a
  <2>1. m < q
    BY <1>1, <1>2, <1>4
  <2> QED
    BY <1>1, <2>1
<1> QED
  BY <1>2, <1>3, <1>4, <1>5

\* Multiples of 2^a stay multiples when they are counted from the next block.
LEMMA ShiftMultiple ==
    ASSUME NEW a \in Exps, NEW k \in Exps, a <= k, NEW r \in Nat, r % 2^a = 0
    PROVE  /\ (r + 2^k) % 2^a = 0
           /\ r >= 2^k => (r - 2^k) % 2^a = 0
<1>1. 2^a \in Nat /\ 2^a > 0 /\ 2^k \in Nat /\ 2^k > 0
  BY PowType
<1>2. PICK m \in Nat : r = m * 2^a
  BY <1>1, ModMultiple
<1>3. PICK q \in Nat : q > 0 /\ 2^k = q * 2^a
  BY PowDivides
<1>4. (r + 2^k) % 2^a = 0
  <2>1. r + 2^k = (m + q) * 2^a
    BY <1>1, <1>2, <1>3
  <2>2. r + 2^k \in Nat /\ m + q \in Nat
    BY <1>1
  <2> QED
    BY <1>1, <2>1, <2>2, ModMultiple
<1>5. ASSUME r >= 2^k
      PROVE  (r - 2^k) % 2^a = 0
  <2>1. r - 2^k = (m - q) * 2^a
    BY <1>1, <1>2, <1>3
  <2>2. m - q \in Nat
    BY <1>1, <1>2, <1>3, <1>5
  <2>3. r - 2^k \in Nat
    BY <1>1, <1>5
  <2> QED
    BY <1>1, <2>1, <2>2, <2>3, ModMultiple
<1> QED
  BY <1>4, <1>5

\* A block's buddy is the block in front of it or behind it, and the bit that
\* buddy_of flips tells which.
LEMMA BuddySide ==
    ASSUME NEW i \in Nat, NEW o \in Orders
    PROVE  \/ BuddyOf(i, o) = i + 2^o /\ (i \div 2^o) % 2 = 0
           \/ /\ BuddyOf(i, o) = i - 2^o /\ i >= 2^o
              /\ (i \div 2^o) % 2 = 1
              /\ ((i - 2^o) \div 2^o) % 2 = 0
<1>1. 2^o \in Nat /\ 2^o > 0
  BY PowType, OrdersAreExps
<1>2. i \div 2^o \in Nat
  BY <1>1
<1>3. CASE (i \div 2^o) % 2 = 0
  BY <1>3 DEF BuddyOf
<1>4. CASE (i \div 2^o) % 2 # 0
  <2> DEFINE q == i \div 2^o
  <2>1. q \in Nat /\ q % 2 # 0
    BY <1>2, <1>4
  <2>2. q % 2 = 1 /\ q >= 1 /\ (q - 1) % 2 = 0
    <3> HIDE DEF q
    <3> QED
      BY <2>1
  <2>3. i >= 2^o
    BY <1>1, <2>2
  <2>4. (i - 2^o) \div 2^o = q - 1
    BY <1>1, <2>3
  <2> QED
    BY <1>4, <2>2, <2>3, <2>4 DEF BuddyOf
<1> QED
  BY <1>3, <1>4

------------------------------------------------------------------------------
(* What the two loops do to a set of blocks.                               *)

\* The fields of a block.
LEMMA BlockFacts ==
    ASSUME NEW b \in AllBlocks
    PROVE  /\ b.idx \in Nat /\ b.idx \in Pages /\ b.order \in Orders
           /\ 2^b.order \in Nat /\ 2^b.order > 0
           /\ b = Block(b.idx, b.order)
<1>1. b.idx \in Pages /\ b.order \in Orders /\ b = Block(b.idx, b.order)
  BY DEF AllBlocks, Block
<1> QED
  BY <1>1, PowType, OrdersAreExps, Consts DEF Pages

\* A page and an order make a block.
LEMMA MakeBlock ==
    ASSUME NEW i \in Pages, NEW o \in Orders
    PROVE  /\ Block(i, o) \in AllBlocks
           /\ Block(i, o).idx = i /\ Block(i, o).order = o
  BY DEF AllBlocks, Block

\* A flag that is harmless inside the whole is harmless inside its upper half.
LEMMA HarmlessInHalf ==
    ASSUME NEW i \in Nat, NEW k \in Exps, k > 0, NEW o \in Orders, NEW p \in Nat,
           i + 2^(k - 1) < p, p < i + 2^k, Harmless(Block(i, k), o, p)
    PROVE  Harmless(Block(i + 2^(k - 1), k - 1), o, p)
<1> DEFINE r == p - i
           h == 2^(k - 1)
<1>1. h \in Nat /\ h > 0 /\ 2^k \in Nat /\ 2^k = h + h /\ k - 1 \in Exps
  BY PowDouble, PowType, OrdersAreExps
<1>2. r \in Nat /\ r > 0 /\ r < 2^k /\ r >= h /\ p - (i + h) = r - h
  BY <1>1
<1>3. o \in Exps /\ o + 1 \in Exps /\ o \in Nat /\ k \in Nat
  BY OrdersAreExps, Consts DEF Exps
<1>4. \/ r % 2^(o + 1) = 0
      \/ r % 2^o = 0 /\ (p \div 2^o) % 2 = 1
  BY DEF Harmless, Block
<1> HIDE DEF r, h
<1>5. ASSUME r % 2^(o + 1) = 0
      PROVE  (r - h) % 2^(o + 1) = 0
  <2>1. o + 1 < k
    BY <1>2, <1>3, <1>5, MultipleInside
  <2> QED
    BY <1>1, <1>2, <1>3, <1>5, <2>1, ShiftMultiple DEF h
<1>6. ASSUME r % 2^o = 0
      PROVE  (r - h) % 2^o = 0
  <2>1. o < k
    BY <1>2, <1>3, <1>6, MultipleInside
  <2> QED
    BY <1>1, <1>2, <1>3, <1>6, <2>1, ShiftMultiple DEF h
<1>7. \/ (r - h) % 2^(o + 1) = 0
      \/ (r - h) % 2^o = 0 /\ (p \div 2^o) % 2 = 1
  BY <1>4, <1>5, <1>6
<1>8. p - Block(i + 2^(k - 1), k - 1).idx = r - h
  BY <1>2 DEF Block, h, r
<1> QED
  BY <1>7, <1>8 DEF Harmless

\* And the other way round.
LEMMA HarmlessInWhole ==
    ASSUME NEW i \in Nat, NEW k \in Exps, k > 0, NEW o \in Orders, NEW p \in Nat,
           i + 2^(k - 1) < p, p < i + 2^k, Harmless(Block(i + 2^(k - 1), k - 1), o, p)
    PROVE  Harmless(Block(i, k), o, p)
<1> DEFINE h == 2^(k - 1)
           r == p - (i + h)
<1>1. h \in Nat /\ h > 0 /\ 2^k \in Nat /\ 2^k = h + h /\ k - 1 \in Exps
  BY PowDouble, PowType, OrdersAreExps
<1>2. r \in Nat /\ r > 0 /\ r < h /\ p - i = r + h
  BY <1>1
<1>3. o \in Exps /\ o + 1 \in Exps /\ o \in Nat /\ k \in Nat
  BY OrdersAreExps, Consts DEF Exps
<1>4. \/ r % 2^(o + 1) = 0
      \/ r % 2^o = 0 /\ (p \div 2^o) % 2 = 1
  BY DEF Harmless, Block
<1> HIDE DEF r, h
<1>5. ASSUME r % 2^(o + 1) = 0
      PROVE  (r + h) % 2^(o + 1) = 0
  <2>1. o + 1 < k - 1
    BY <1>1, <1>2, <1>3, <1>5, MultipleInside DEF h
  <2> QED
    BY <1>1, <1>2, <1>3, <1>5, <2>1, ShiftMultiple DEF h
<1>6. ASSUME r % 2^o = 0
      PROVE  (r + h) % 2^o = 0
  <2>1. o < k - 1
    BY <1>1, <1>2, <1>3, <1>6, MultipleInside DEF h
  <2> QED
    BY <1>1, <1>2, <1>3, <1>6, <2>1, ShiftMultiple DEF h
<1>7. \/ (r + h) % 2^(o + 1) = 0
      \/ (r + h) % 2^o = 0 /\ (p \div 2^o) % 2 = 1
  BY <1>4, <1>5, <1>6
<1>8. p - Block(i, k).idx = r + h
  BY <1>2 DEF Block
<1> QED
  BY <1>7, <1>8 DEF Harmless

\* The buddy that the flags promise is really there: it begins a block.
LEMMA BuddyBegins ==
    ASSUME NEW H \in SUBSET AllBlocks, InRange(H), Apart(H), Covers(H),
           NEW flags, NEW orders \in [Pages -> Orders], StaleOK(H, flags, orders),
           NEW i \in Pages, NEW o \in Orders, Block(i, o) \in H,
           BuddyOf(i, o) < NumPages, flags[BuddyOf(i, o)], orders[BuddyOf(i, o)] = o
    PROVE  /\ BuddyOf(i, o) \in Pages
           /\ \E d \in H : d # Block(i, o) /\ d.idx = BuddyOf(i, o)
<1> DEFINE b == BuddyOf(i, o)
           w == 2^o
           me == Block(i, o)
<1>1. w \in Nat /\ w > 0 /\ i \in Nat /\ me.idx = i /\ me.order = o
  BY PowType, OrdersAreExps, MakeBlock, Consts DEF Pages
<1>2. \/ b = i + w
      \/ b = i - w /\ i >= w /\ (b \div w) % 2 = 0
  BY <1>1, BuddySide
<1>3. b \in Nat /\ b \in Pages
  BY <1>1, <1>2, Consts DEF Pages
<1>4. PICK d \in H : d.idx <= b /\ b < d.idx + 2^d.order
  BY <1>3 DEF Covers
<1>5. d.idx \in Nat /\ 2^d.order \in Nat /\ d.order \in Orders
  BY BlockFacts
<1>6. d # me
  BY <1>1, <1>2, <1>4
<1>7. d.idx + 2^d.order <= i \/ i + w <= d.idx
  BY <1>1, <1>6 DEF Apart
<1>8. d.idx = b
  <2> SUFFICES ASSUME d.idx < b
               PROVE  FALSE
    BY <1>3, <1>4, <1>5
  <2>1. b = i - w /\ (b \div w) % 2 = 0
    BY <1>1, <1>2, <1>4, <1>5, <1>7
  <2>2. Harmless(d, o, b)
    BY <1>3, <1>4 DEF StaleOK
  <2>3. (b - d.idx) % 2^(o + 1) = 0
    BY <2>1, <2>2 DEF Harmless
  <2>4. b - d.idx \in Nat /\ b - d.idx > 0 /\ b - d.idx < 2^d.order
    BY <1>3, <1>4, <1>5
  <2>5. b - d.idx + 2^(o + 1) <= 2^d.order
    BY <1>5, <2>3, <2>4, MultipleInside, OrdersAreExps
  <2>6. 2^(o + 1) = w + w
    BY PowersOfTwo, <1>1 DEF Orders
  <2> QED
    BY <1>1, <1>3, <1>5, <1>7, <2>1, <2>5, <2>6
<1> QED
  BY <1>3, <1>6, <1>8

\* A block and its two halves.
Whole(i, k) == Block(i, k)
Lower(i, k) == Block(i, k - 1)
Upper(i, k) == Block(i + 2^(k - 1), k - 1)

\* A block of an order above 0 and its two halves.
LEMMA Halves ==
    ASSUME NEW i \in Pages, NEW k \in Orders, k > 0, i + 2^k <= NumPages
    PROVE  /\ k - 1 \in Orders /\ i + 2^(k - 1) \in Pages /\ i \in Nat
           /\ 2^(k - 1) \in Nat /\ 2^(k - 1) > 0 /\ 2^k = 2^(k - 1) + 2^(k - 1)
           /\ {Whole(i, k), Lower(i, k), Upper(i, k)} \subseteq AllBlocks
           /\ Whole(i, k).idx = i /\ Whole(i, k).order = k
           /\ Lower(i, k).idx = i /\ Lower(i, k).order = k - 1
           /\ Upper(i, k).idx = i + 2^(k - 1) /\ Upper(i, k).order = k - 1
<1>1. k \in Exps /\ k \in Nat
  BY OrdersAreExps
<1>2. k - 1 \in Orders /\ 2^k = 2 * 2^(k - 1)
  BY <1>1, PowDouble
<1>3. 2^(k - 1) \in Nat /\ 2^(k - 1) > 0
  BY <1>2, PowType, OrdersAreExps
<1>4. i \in Nat /\ i + 2^(k - 1) \in Pages
  BY <1>2, <1>3, Consts DEF Pages
<1> QED
  BY <1>2, <1>3, <1>4, MakeBlock DEF Whole, Lower, Upper

\* One round of the split loop: the halves take the place of the block.
LEMMA SplitBooks ==
    ASSUME NEW H \in SUBSET AllBlocks, InRange(H), Apart(H),
           NEW flags, NEW orders \in [Pages -> Orders], StaleOK(H, flags, orders),
           NEW i \in Pages, NEW k \in Orders, k > 0, Whole(i, k) \in H,
           NEW G, G = (H \ {Whole(i, k)}) \cup {Lower(i, k), Upper(i, k)}
    PROVE  /\ G \in SUBSET AllBlocks /\ InRange(G) /\ Apart(G)
           /\ StaleOK(G, flags, orders)
           /\ Covers(H) => Covers(G)
           /\ Lower(i, k) \notin H /\ Upper(i, k) \notin H
           /\ i + 2^(k - 1) \in Pages
<1> DEFINE wh == Whole(i, k)
           lo == Lower(i, k)
           up == Upper(i, k)
           h == 2^(k - 1)
<1>1. i + 2^k <= NumPages
  BY MakeBlock DEF InRange, Whole
<1>2. /\ h \in Nat /\ h > 0 /\ 2^k = h + h /\ i \in Nat /\ i + h \in Pages
      /\ {wh, lo, up} \subseteq AllBlocks
      /\ wh.idx = i /\ wh.order = k
      /\ lo.idx = i /\ lo.order = k - 1
      /\ up.idx = i + h /\ up.order = k - 1
  BY <1>1, Halves
<1> HIDE DEF wh, lo, up, h
<1>3. G = (H \ {wh}) \cup {lo, up} /\ wh \in H
  BY DEF wh, lo, up
<1>4. G \in SUBSET AllBlocks
  BY <1>2, <1>3
<1>5. \A b \in H : b.idx \in Nat /\ 2^b.order \in Nat /\ 2^b.order > 0
  BY BlockFacts
<1>6. \A b \in H : b = wh \/ b.idx + 2^b.order <= i \/ i + (h + h) <= b.idx
  BY <1>2, <1>3 DEF Apart
<1>7. 2^lo.order = h /\ 2^up.order = h
  BY <1>2 DEF h
<1>8. InRange(G)
  BY <1>1, <1>2, <1>3, <1>7, Consts DEF InRange
<1>9. Apart(G)
  <2> SUFFICES ASSUME NEW b \in G, NEW d \in G
               PROVE  b = d \/ b.idx + 2^b.order <= d.idx \/ d.idx + 2^d.order <= b.idx
    BY DEF Apart
  <2>1. CASE b \in H \ {wh} /\ d \in H \ {wh}
    BY <2>1 DEF Apart
  <2>2. CASE b \in H \ {wh} /\ d \in {lo, up}
    BY <1>2, <1>5, <1>6, <1>7, <2>2
  <2>3. CASE b \in {lo, up} /\ d \in H \ {wh}
    BY <1>2, <1>5, <1>6, <1>7, <2>3
  <2>4. CASE b \in {lo, up} /\ d \in {lo, up}
    BY <1>2, <1>7, <2>4
  <2> QED
    BY <1>3, <2>1, <2>2, <2>3, <2>4
<1>10. lo \notin H /\ up \notin H
  BY <1>2, <1>5, <1>6, <1>7
<1>11. ASSUME Covers(H)
       PROVE  Covers(G)
  <2> SUFFICES ASSUME NEW p \in Pages
               PROVE  \E b \in G : b.idx <= p /\ p < b.idx + 2^b.order
    BY DEF Covers
  <2>1. PICK b \in H : b.idx <= p /\ p < b.idx + 2^b.order
    BY <1>11 DEF Covers
  <2>2. CASE b # wh
    BY <1>3, <2>1, <2>2
  <2>3. CASE b = wh
    <3>1. p \in Nat /\ i <= p /\ p < i + (h + h)
      BY <1>2, <2>1, <2>3, Consts DEF Pages
    <3>2. CASE p < i + h
      BY <1>2, <1>3, <1>7, <3>1, <3>2
    <3>3. CASE i + h <= p
      BY <1>2, <1>3, <1>7, <3>1, <3>3
    <3> QED
      BY <1>2, <3>1, <3>2, <3>3
  <2> QED
    BY <2>2, <2>3
<1>12. StaleOK(G, flags, orders)
  <2> SUFFICES ASSUME NEW d \in G, NEW p \in Pages,
                      d.idx < p, p < d.idx + 2^d.order, flags[p]
               PROVE  Harmless(d, orders[p], p)
    BY DEF StaleOK
  <2>1. CASE d \in H \ {wh}
    BY <2>1 DEF StaleOK
  <2>0. p \in Nat /\ orders[p] \in Orders
    BY Consts DEF Pages
  <2>2. CASE d = lo
    <3>1. Harmless(wh, orders[p], p)
      BY <1>2, <1>3, <1>7, <2>0, <2>2 DEF StaleOK
    <3> QED
      BY <1>2, <2>2, <3>1 DEF Harmless
  <2>3. CASE d = up
    <3>1. Harmless(wh, orders[p], p)
      BY <1>2, <1>3, <1>7, <2>0, <2>3 DEF StaleOK
    <3>2. i + 2^(k - 1) < p /\ p < i + 2^k
      BY <1>2, <1>7, <2>0, <2>3 DEF h
    <3> QED
      BY <1>2, <2>0, <2>3, <3>1, <3>2, HarmlessInHalf, OrdersAreExps DEF wh, up, Whole, Upper
  <2> QED
    BY <1>3, <2>1, <2>2, <2>3
<1> QED
  BY <1>2, <1>4, <1>8, <1>9, <1>10, <1>11, <1>12 DEF lo, up, h

\* One round of the merge loop: the block takes the place of its halves.
LEMMA MergeBooks ==
    ASSUME NEW H \in SUBSET AllBlocks, InRange(H), Apart(H), Covers(H),
           NEW flags, NEW orders \in [Pages -> Orders], StaleOK(H, flags, orders),
           NEW i \in Pages, NEW k \in Orders, k > 0,
           Lower(i, k) \in H, Upper(i, k) \in H, i + 2^(k - 1) \in Pages,
           \A p \in Pages :
               p = i + 2^(k - 1) /\ flags[p] => Harmless(Whole(i, k), orders[p], p),
           NEW G, G = (H \ {Lower(i, k), Upper(i, k)}) \cup {Whole(i, k)}
    PROVE  /\ G \in SUBSET AllBlocks /\ InRange(G) /\ Apart(G) /\ Covers(G)
           /\ StaleOK(G, flags, orders)
           /\ Whole(i, k) \notin H
<1> DEFINE wh == Whole(i, k)
           lo == Lower(i, k)
           up == Upper(i, k)
           h == 2^(k - 1)
<1>1. i + 2^k <= NumPages
  <2>1. k \in Exps /\ 2^k = 2 * 2^(k - 1) /\ k - 1 \in Orders
    BY PowDouble, OrdersAreExps
  <2>2. (i + 2^(k - 1)) + 2^(k - 1) <= NumPages
    BY <2>1, MakeBlock DEF InRange, Upper
  <2>3. 2^(k - 1) \in Nat /\ i \in Nat
    BY <2>1, PowType, OrdersAreExps, Consts DEF Pages
  <2> QED
    BY <2>1, <2>2, <2>3
<1>2. /\ h \in Nat /\ h > 0 /\ 2^k = h + h /\ i \in Nat /\ i + h \in Pages
      /\ {wh, lo, up} \subseteq AllBlocks
      /\ wh.idx = i /\ wh.order = k
      /\ lo.idx = i /\ lo.order = k - 1
      /\ up.idx = i + h /\ up.order = k - 1
  BY <1>1, Halves
<1>0. flags[i + h] => Harmless(wh, orders[i + h], i + h)
  OBVIOUS
<1> HIDE DEF wh, lo, up, h
<1>3. G = (H \ {lo, up}) \cup {wh} /\ lo \in H /\ up \in H
  BY DEF wh, lo, up
<1>4. G \in SUBSET AllBlocks
  BY <1>2, <1>3
<1>5. \A b \in H : b.idx \in Nat /\ 2^b.order \in Nat /\ 2^b.order > 0
  BY BlockFacts
<1>7. 2^lo.order = h /\ 2^up.order = h
  BY <1>2 DEF h
<1>6. \A b \in H : b \in {lo, up} \/ b.idx + 2^b.order <= i \/ i + (h + h) <= b.idx
  <2> SUFFICES ASSUME NEW b \in H, b # lo, b # up
               PROVE  b.idx + 2^b.order <= i \/ i + (h + h) <= b.idx
    OBVIOUS
  <2>1. b.idx + 2^b.order <= i \/ i + h <= b.idx
    BY <1>2, <1>3, <1>7 DEF Apart
  <2>2. b.idx + 2^b.order <= i + h \/ (i + h) + h <= b.idx
    BY <1>2, <1>3, <1>7 DEF Apart
  <2> QED
    BY <1>2, <1>5, <2>1, <2>2
<1>8. InRange(G)
  BY <1>1, <1>2, <1>3 DEF InRange
<1>9. Apart(G)
  <2> SUFFICES ASSUME NEW b \in G, NEW d \in G
               PROVE  b = d \/ b.idx + 2^b.order <= d.idx \/ d.idx + 2^d.order <= b.idx
    BY DEF Apart
  <2>1. CASE b \in H \ {lo, up} /\ d \in H \ {lo, up}
    BY <2>1 DEF Apart
  <2>2. CASE b \in H \ {lo, up} /\ d = wh
    BY <1>2, <1>5, <1>6, <2>2
  <2>3. CASE b = wh /\ d \in H \ {lo, up}
    BY <1>2, <1>5, <1>6, <2>3
  <2> QED
    BY <1>3, <2>1, <2>2, <2>3
<1>10. wh \notin H
  BY <1>2, <1>5, <1>6, <1>7
<1>11. Covers(G)
  <2> SUFFICES ASSUME NEW p \in Pages
               PROVE  \E b \in G : b.idx <= p /\ p < b.idx + 2^b.order
    BY DEF Covers
  <2>1. PICK b \in H : b.idx <= p /\ p < b.idx + 2^b.order
    BY DEF Covers
  <2>2. CASE b \notin {lo, up}
    BY <1>3, <2>1, <2>2
  <2>3. CASE b \in {lo, up}
    <3>1. p \in Nat /\ i <= p /\ p < i + (h + h)
      BY <1>2, <1>7, <2>1, <2>3, Consts DEF Pages
    <3> QED
      BY <1>2, <1>3, <3>1
  <2> QED
    BY <2>2, <2>3
<1>12. StaleOK(G, flags, orders)
  <2> SUFFICES ASSUME NEW d \in G, NEW p \in Pages,
                      d.idx < p, p < d.idx + 2^d.order, flags[p]
               PROVE  Harmless(d, orders[p], p)
    BY DEF StaleOK
  <2>0. p \in Nat /\ orders[p] \in Orders
    BY Consts DEF Pages
  <2>1. CASE d \in H \ {lo, up}
    BY <2>1 DEF StaleOK
  <2>2. CASE d = wh
    <3>1. i < p /\ p < i + (h + h)
      BY <1>2, <2>2
    <3>2. CASE p < i + h
      <4>1. Harmless(lo, orders[p], p)
        BY <1>2, <1>3, <1>7, <3>1, <3>2 DEF StaleOK
      <4> QED
        BY <1>2, <2>2, <4>1 DEF Harmless
    <3>3. CASE p = i + h
      BY <1>0, <2>2, <3>3
    <3>4. CASE i + h < p
      <4>1. Harmless(up, orders[p], p)
        BY <1>2, <1>3, <1>7, <2>0, <3>1, <3>4 DEF StaleOK
      <4>2. i + 2^(k - 1) < p /\ p < i + 2^k
        BY <1>2, <3>1, <3>4 DEF h
      <4> QED
        BY <1>2, <2>0, <2>2, <4>1, <4>2, HarmlessInWhole, OrdersAreExps
           DEF wh, up, Whole, Upper
    <3> QED
      BY <1>2, <2>0, <3>2, <3>3, <3>4
  <2> QED
    BY <1>3, <2>1, <2>2
<1> QED
  BY <1>4, <1>8, <1>9, <1>10, <1>11, <1>12 DEF wh

------------------------------------------------------------------------------
(* The free lists.                                                         *)

Has(s, x) == \E k \in 1 .. Len(s) : s[k] = x
Once(s) == \A j, k \in 1 .. Len(s) : s[j] = s[k] => j = k

\* A block goes to the front of a list.
LEMMA PushedList ==
    ASSUME NEW s \in Seq(Pages), NEW x \in Pages
    PROVE  /\ Pushed(s, x) \in Seq(Pages)
           /\ \A y : Has(Pushed(s, x), y) <=> y = x \/ Has(s, y)
           /\ Once(s) /\ ~Has(s, x) => Once(Pushed(s, x))
<1> DEFINE t == Pushed(s, x)
<1>1. <<x>> \in Seq(Pages) /\ Len(<<x>>) = 1 /\ <<x>>[1] = x /\ Len(s) \in Nat
  OBVIOUS
<1>2. /\ t \in Seq(Pages) /\ Len(t) = 1 + Len(s)
      /\ \A k \in 1 .. 1 + Len(s) : t[k] = IF k <= 1 THEN <<x>>[k] ELSE s[k - 1]
  BY <1>1, ConcatProperties DEF Pushed
<1>3. t[1] = x /\ \A k \in 1 .. Len(s) : t[k + 1] = s[k] /\ k + 1 \in 1 .. Len(t)
  BY <1>1, <1>2
<1>4. \A k \in 1 .. Len(t) : k = 1 \/ (k - 1 \in 1 .. Len(s) /\ t[k] = s[k - 1])
  BY <1>1, <1>2
<1> HIDE DEF t
<1>5. \A y : Has(t, y) <=> y = x \/ Has(s, y)
  <2>1. 1 \in 1 .. Len(t)
    BY <1>1, <1>2
  <2>2. ASSUME NEW y, Has(t, y)
        PROVE  y = x \/ Has(s, y)
    BY <1>3, <1>4, <2>2 DEF Has
  <2>3. ASSUME NEW y, y = x \/ Has(s, y)
        PROVE  Has(t, y)
    <3>1. CASE y = x
      BY <1>3, <2>1, <3>1 DEF Has
    <3>2. CASE Has(s, y)
      <4>1. PICK k \in 1 .. Len(s) : s[k] = y
        BY <3>2 DEF Has
      <4>2. t[k + 1] = y /\ k + 1 \in 1 .. Len(t)
        BY <1>3, <4>1
      <4> QED
        BY <4>2 DEF Has
    <3> QED
      BY <2>3, <3>1, <3>2
  <2> QED
    BY <2>2, <2>3
<1>6. ASSUME Once(s), ~Has(s, x)
      PROVE  Once(t)
  <2> SUFFICES ASSUME NEW j \in 1 .. Len(t), NEW k \in 1 .. Len(t), t[j] = t[k]
               PROVE  j = k
    BY DEF Once
  <2>1. CASE j = 1 \/ k = 1
    <3>1. \A m \in 1 .. Len(t) : m # 1 => t[m] # x
      BY <1>4, <1>6 DEF Has
    <3> QED
      BY <1>3, <2>1, <3>1
  <2>2. CASE j # 1 /\ k # 1
    <3>1. j - 1 \in 1 .. Len(s) /\ k - 1 \in 1 .. Len(s) /\ s[j - 1] = s[k - 1]
      BY <1>4, <2>2
    <3>2. j - 1 = k - 1
      BY <1>6, <3>1 DEF Once
    <3> QED
      BY <3>2
  <2> QED
    BY <2>1, <2>2
<1> QED
  BY <1>2, <1>5, <1>6 DEF t

\* The block at the front of a list is taken.
LEMMA PoppedList ==
    ASSUME NEW s \in Seq(Pages), s # <<>>, Once(s)
    PROVE  /\ Popped(s) \in Seq(Pages) /\ Head(s) \in Pages /\ Has(s, Head(s))
           /\ \A y : Has(Popped(s), y) <=> y # Head(s) /\ Has(s, y)
           /\ Once(Popped(s))
<1> DEFINE t == Popped(s)
<1>1. /\ Head(s) \in Pages /\ Head(s) = s[1] /\ Len(s) \in Nat /\ Len(s) > 0
      /\ t \in Seq(Pages) /\ Len(t) = Len(s) - 1
      /\ \A k \in 1 .. Len(t) : t[k] = s[k + 1]
  BY HeadTailProperties, EmptySeq DEF Popped
<1> HIDE DEF t
<1>2. \A k \in 1 .. Len(t) : k + 1 \in 1 .. Len(s) /\ k + 1 # 1
  BY <1>1
<1>3. \A k \in 1 .. Len(s) : k = 1 \/ (k - 1 \in 1 .. Len(t) /\ t[k - 1] = s[k])
  <2> SUFFICES ASSUME NEW k \in 1 .. Len(s), k # 1
               PROVE  k - 1 \in 1 .. Len(t) /\ t[k - 1] = s[k]
    OBVIOUS
  <2>1. k - 1 \in 1 .. Len(t) /\ (k - 1) + 1 = k
    BY <1>1
  <2> QED
    BY <1>1, <2>1
<1>4. 1 \in 1 .. Len(s)
  BY <1>1
<1>5. \A y : Has(t, y) <=> y # Head(s) /\ Has(s, y)
  <2>1. ASSUME NEW y, Has(t, y)
        PROVE  y # Head(s) /\ Has(s, y)
    BY <1>1, <1>2, <1>4, <2>1 DEF Has, Once
  <2>2. ASSUME NEW y, y # Head(s), Has(s, y)
        PROVE  Has(t, y)
    BY <1>1, <1>3, <2>2 DEF Has
  <2> QED
    BY <2>1, <2>2
<1>6. Once(t)
  <2> SUFFICES ASSUME NEW j \in 1 .. Len(t), NEW k \in 1 .. Len(t), t[j] = t[k]
               PROVE  j = k
    BY DEF Once
  <2>1. j + 1 = k + 1
    BY <1>1, <1>2 DEF Once
  <2> QED
    BY <2>1, <1>1
<1> QED
  BY <1>1, <1>4, <1>5, <1>6 DEF t, Has

\* A block is taken out of a list, wherever it is.
LEMMA WithoutList ==
    ASSUME NEW s \in Seq(Pages), NEW x \in Pages, Once(s), Has(s, x)
    PROVE  /\ Without(s, x) \in Seq(Pages)
           /\ \A y : Has(Without(s, x), y) <=> y # x /\ Has(s, y)
           /\ Once(Without(s, x))
<1> DEFINE k == CHOOSE k \in 1 .. Len(s) : s[k] = x /\ \A j \in 1 .. k - 1 : s[j] # x
           front == SubSeq(s, 1, k - 1)
           back == SubSeq(s, k + 1, Len(s))
           t == front \o back
<1>1. k \in 1 .. Len(s) /\ s[k] = x
  <2>1. PICK m \in 1 .. Len(s) : s[m] = x
    BY DEF Has
  <2>2. \A j \in 1 .. m - 1 : j \in 1 .. Len(s) /\ j # m
    OBVIOUS
  <2>3. \A j \in 1 .. m - 1 : s[j] # x
    BY <2>1, <2>2 DEF Once
  <2> QED
    BY <2>1, <2>3
<1>2. Without(s, x) = t
  BY DEF Without, Has
<1> HIDE DEF k
<1>3. Len(s) \in Nat /\ \A j \in 1 .. Len(s) : s[j] \in Pages
  BY LenProperties
<1>4. /\ front \in Seq(Pages) /\ Len(front) = k - 1
      /\ \A j \in 1 .. k - 1 : front[j] = s[j]
  <2>1. \A j \in 1 .. k - 1 : s[j] \in Pages
    BY <1>1, <1>3
  <2>2. /\ front \in Seq(Pages)
        /\ Len(front) = IF 1 <= k - 1 THEN (k - 1) - 1 + 1 ELSE 0
        /\ \A j \in 1 .. (k - 1) - 1 + 1 : front[j] = s[1 + j - 1]
    BY <1>1, <2>1, SubSeqProperties
  <2> HIDE DEF front
  <2> QED
    BY <1>1, <2>2
<1>5. /\ back \in Seq(Pages) /\ Len(back) = Len(s) - k
      /\ \A j \in 1 .. Len(s) - k : back[j] = s[k + j]
  <2>1. \A j \in k + 1 .. Len(s) : s[j] \in Pages
    BY <1>1, <1>3
  <2>2. /\ back \in Seq(Pages)
        /\ Len(back) = IF k + 1 <= Len(s) THEN Len(s) - (k + 1) + 1 ELSE 0
        /\ \A j \in 1 .. Len(s) - (k + 1) + 1 : back[j] = s[k + 1 + j - 1]
    BY <1>1, <1>3, <2>1, SubSeqProperties
  <2> HIDE DEF back
  <2> QED
    BY <1>1, <1>3, <2>2
<1> HIDE DEF front, back
<1>6. /\ t \in Seq(Pages) /\ Len(t) = Len(s) - 1
      /\ \A j \in 1 .. Len(s) - 1 : t[j] = IF j <= k - 1 THEN front[j] ELSE back[j - (k - 1)]
  <2>1. Len(front) + Len(back) = Len(s) - 1
    BY <1>1, <1>3, <1>4, <1>5
  <2> QED
    BY <1>4, <1>5, <2>1, ConcatProperties
<1> HIDE DEF t
<1>7. \A j \in 1 .. Len(t) : t[j] = s[IF j < k THEN j ELSE j + 1]
  <2> SUFFICES ASSUME NEW j \in 1 .. Len(t)
               PROVE  t[j] = s[IF j < k THEN j ELSE j + 1]
    OBVIOUS
  <2>1. CASE j < k
    BY <1>1, <1>3, <1>4, <1>6, <2>1
  <2>2. CASE ~(j < k)
    <3>1. j - (k - 1) \in 1 .. Len(s) - k /\ k + (j - (k - 1)) = j + 1 /\ ~(j <= k - 1)
      BY <1>1, <1>3, <1>6, <2>2
    <3>2. back[j - (k - 1)] = s[j + 1]
      BY <1>5, <3>1
    <3> QED
      BY <1>6, <2>2, <3>1, <3>2
  <2> QED
    BY <2>1, <2>2
<1>8. \A j \in 1 .. Len(t) : /\ (IF j < k THEN j ELSE j + 1) \in 1 .. Len(s)
                             /\ (IF j < k THEN j ELSE j + 1) # k
  BY <1>1, <1>3, <1>6
<1>9. \A m \in 1 .. Len(s) : m # k => \E j \in 1 .. Len(t) : t[j] = s[m]
  <2> SUFFICES ASSUME NEW m \in 1 .. Len(s), m # k
               PROVE  \E j \in 1 .. Len(t) : t[j] = s[m]
    OBVIOUS
  <2>1. CASE m < k
    <3>1. m \in 1 .. Len(t) /\ t[m] = s[m]
      BY <1>1, <1>3, <1>6, <1>7, <2>1
    <3> QED
      BY <3>1
  <2>2. CASE m > k
    <3>1. m - 1 \in 1 .. Len(t) /\ ~(m - 1 < k) /\ (m - 1) + 1 = m
      BY <1>1, <1>3, <1>6, <2>2
    <3>2. t[m - 1] = s[m]
      BY <1>7, <3>1
    <3> QED
      BY <3>1, <3>2
  <2> QED
    BY <1>1, <2>1, <2>2
<1>10. \A y : Has(t, y) <=> y # x /\ Has(s, y)
  <2>1. ASSUME NEW y, Has(t, y)
        PROVE  y # x /\ Has(s, y)
    BY <1>1, <1>7, <1>8, <2>1 DEF Has, Once
  <2>2. ASSUME NEW y, y # x, Has(s, y)
        PROVE  Has(t, y)
    BY <1>1, <1>9, <2>2 DEF Has
  <2> QED
    BY <2>1, <2>2
<1>11. Once(t)
  <2> SUFFICES ASSUME NEW j \in 1 .. Len(t), NEW m \in 1 .. Len(t), t[j] = t[m]
               PROVE  j = m
    BY DEF Once
  <2>1. (IF j < k THEN j ELSE j + 1) = (IF m < k THEN m ELSE m + 1)
    BY <1>7, <1>8 DEF Once
  <2> QED
    BY <1>1, <1>6, <2>1
<1> QED
  BY <1>2, <1>6, <1>10, <1>11

\* The blocks of the lists fl, and that each is in one place.
ListedIn(fl) == {b \in AllBlocks : Has(fl[b.order], b.idx)}
AllOnce(fl) == \A o \in Orders : Once(fl[o])

\* The blocks on the lists, as a function of the lists.
LEMMA ListedIs == Listed = ListedIn(free_lists) /\ Listed' = ListedIn(free_lists')
  BY DEF Listed, ListedIn, Has

\* One list is replaced.
LEMMA ListReplaced ==
    ASSUME NEW fl \in [Orders -> Seq(Pages)], NEW o \in Orders, NEW t \in Seq(Pages),
           NEW gl, gl = [fl EXCEPT ![o] = t]
    PROVE  /\ gl \in [Orders -> Seq(Pages)]
           /\ \A b \in AllBlocks : b \in ListedIn(gl) <=>
                  IF b.order = o THEN Has(t, b.idx) ELSE b \in ListedIn(fl)
           /\ AllOnce(fl) /\ Once(t) => AllOnce(gl)
<1>1. gl \in [Orders -> Seq(Pages)] /\ gl[o] = t /\ \A q \in Orders : q # o => gl[q] = fl[q]
  OBVIOUS
<1>2. ASSUME NEW b \in AllBlocks
      PROVE  b \in ListedIn(gl) <=> IF b.order = o THEN Has(t, b.idx) ELSE b \in ListedIn(fl)
  <2>1. b.order \in Orders
    BY BlockFacts
  <2> QED
    BY <1>1, <2>1 DEF ListedIn
<1>3. AllOnce(fl) /\ Once(t) => AllOnce(gl)
  BY <1>1 DEF AllOnce
<1> QED
  BY <1>1, <1>2, <1>3

\* x is put into a list, by any t that has it and everything else.
LEMMA ListGrown ==
    ASSUME NEW fl \in [Orders -> Seq(Pages)], NEW o \in Orders, NEW x \in Pages,
           NEW t \in Seq(Pages), \A y : Has(t, y) <=> y = x \/ Has(fl[o], y),
           Once(fl[o]) /\ ~Has(fl[o], x) => Once(t),
           NEW gl, gl = [fl EXCEPT ![o] = t]
    PROVE  /\ gl \in [Orders -> Seq(Pages)]
           /\ ListedIn(gl) = ListedIn(fl) \cup {Block(x, o)}
           /\ AllOnce(fl) /\ Block(x, o) \notin ListedIn(fl) => AllOnce(gl)
<1>1. fl[o] \in Seq(Pages) /\ Block(x, o) \in AllBlocks
      /\ Block(x, o).idx = x /\ Block(x, o).order = o
  BY MakeBlock
<1>3. /\ gl \in [Orders -> Seq(Pages)]
      /\ \A b \in AllBlocks : b \in ListedIn(gl) <=>
             IF b.order = o THEN Has(t, b.idx) ELSE b \in ListedIn(fl)
      /\ AllOnce(fl) /\ Once(t) => AllOnce(gl)
  BY ListReplaced
<1>4. ASSUME NEW b \in AllBlocks
      PROVE  b \in ListedIn(gl) <=> b \in ListedIn(fl) \/ b = Block(x, o)
  <2>1. CASE b.order = o
    <3>1. b = Block(x, o) <=> b.idx = x
      BY <1>1, <2>1, BlockFacts
    <3>2. b \in ListedIn(fl) <=> Has(fl[o], b.idx)
      BY <2>1 DEF ListedIn
    <3> QED
      BY <1>3, <2>1, <3>1, <3>2
  <2>2. CASE b.order # o
    BY <1>1, <1>3, <2>2
  <2> QED
    BY <2>1, <2>2
<1>5. ListedIn(gl) = ListedIn(fl) \cup {Block(x, o)}
  <2>1. ListedIn(gl) \subseteq AllBlocks /\ ListedIn(fl) \subseteq AllBlocks
    BY DEF ListedIn
  <2> QED
    BY <1>1, <1>4, <2>1
<1>6. ASSUME AllOnce(fl), Block(x, o) \notin ListedIn(fl)
      PROVE  AllOnce(gl)
  <2>1. ~Has(fl[o], x)
    BY <1>1, <1>6 DEF ListedIn
  <2> QED
    BY <1>3, <1>6, <2>1 DEF AllOnce
<1> QED
  BY <1>3, <1>5, <1>6

\* x is taken out of a list, by any t that has everything else.
LEMMA ListShrunk ==
    ASSUME NEW fl \in [Orders -> Seq(Pages)], NEW o \in Orders, NEW x \in Pages,
           AllOnce(fl), NEW t \in Seq(Pages), Once(t),
           \A y : Has(t, y) <=> y # x /\ Has(fl[o], y),
           NEW gl, gl = [fl EXCEPT ![o] = t]
    PROVE  /\ gl \in [Orders -> Seq(Pages)]
           /\ ListedIn(gl) = ListedIn(fl) \ {Block(x, o)}
           /\ AllOnce(gl)
<1>1. Block(x, o) \in AllBlocks /\ Block(x, o).idx = x /\ Block(x, o).order = o
  BY MakeBlock
<1>3. /\ gl \in [Orders -> Seq(Pages)]
      /\ \A b \in AllBlocks : b \in ListedIn(gl) <=>
             IF b.order = o THEN Has(t, b.idx) ELSE b \in ListedIn(fl)
      /\ AllOnce(gl)
  BY ListReplaced
<1>4. ASSUME NEW b \in AllBlocks
      PROVE  b \in ListedIn(gl) <=> b \in ListedIn(fl) /\ b # Block(x, o)
  <2>1. CASE b.order = o
    <3>1. b = Block(x, o) <=> b.idx = x
      BY <1>1, <2>1, BlockFacts
    <3>2. b \in ListedIn(fl) <=> Has(fl[o], b.idx)
      BY <2>1 DEF ListedIn
    <3> QED
      BY <1>3, <2>1, <3>1, <3>2
  <2>2. CASE b.order # o
    BY <1>1, <1>3, <2>2
  <2> QED
    BY <2>1, <2>2
<1>5. ListedIn(gl) = ListedIn(fl) \ {Block(x, o)}
  <2>1. ListedIn(gl) \subseteq AllBlocks /\ ListedIn(fl) \subseteq AllBlocks
    BY DEF ListedIn
  <2> QED
    BY <1>4, <2>1
<1> QED
  BY <1>3, <1>5

------------------------------------------------------------------------------
(* The state.                                                              *)

\* The blocks that are listed, owned or in hand are blocks.
LEMMA HeldFacts ==
    ASSUME TypeOK
    PROVE  /\ Held \in SUBSET AllBlocks /\ Listed \subseteq Held /\ owned \subseteq Held
           /\ InHand \subseteq Held /\ InHand \subseteq AllBlocks /\ Listed \subseteq AllBlocks
  BY DEF TypeOK, Held, Listed, InHand

\* Different blocks begin at different pages.
LEMMA OneHead ==
    ASSUME NEW H \in SUBSET AllBlocks, Apart(H), NEW b \in H, NEW d \in H, b.idx = d.idx
    PROVE  b = d
<1>1. b.idx \in Nat /\ 2^b.order \in Nat /\ 2^b.order > 0 /\ 2^d.order \in Nat /\ 2^d.order > 0
  BY BlockFacts
<1> QED
  BY <1>1 DEF Apart

\* The flags of a block's first page may change: that page is in no other block.
LEMMA StaleHead ==
    ASSUME NEW H \in SUBSET AllBlocks, Apart(H), NEW b \in H,
           NEW f, NEW ords, StaleOK(H, f, ords), NEW g, NEW qrds,
           \A p \in Pages : p # b.idx => g[p] = f[p] /\ qrds[p] = ords[p]
    PROVE  StaleOK(H, g, qrds)
<1> SUFFICES ASSUME NEW d \in H, NEW p \in Pages, d.idx < p, p < d.idx + 2^d.order, g[p]
             PROVE  Harmless(d, qrds[p], p)
  BY DEF StaleOK
<1>1. /\ b.idx \in Nat /\ 2^b.order \in Nat /\ 2^b.order > 0
      /\ d.idx \in Nat /\ 2^d.order \in Nat /\ 2^d.order > 0
  BY BlockFacts
<1>2. p # b.idx
  BY <1>1 DEF Apart
<1> QED
  BY <1>2 DEF StaleOK

\* Clearing a flag leaves the others harmless.
LEMMA StaleCleared ==
    ASSUME NEW H, NEW f, NEW ords, StaleOK(H, f, ords), NEW g, \A p \in Pages : g[p] => f[p]
    PROVE  StaleOK(H, g, ords)
  BY DEF StaleOK

\* Only the caller that has the lock works on a block.
LEMMA HandIs ==
    ASSUME IInv, NEW c \in Callers, buddy_lock \in {c, NoCaller}
    PROVE  /\ InHand = {b \in AllBlocks : Works(c, b)}
           /\ (\A d \in Callers \ {c} : pc'[d] = pc[d]) =>
                  InHand' = {b \in AllBlocks : Works(c, b)'}
<1>1. \A d \in Callers \ {c} : pc[d] \notin {"alloc", "split", "free", "merge"}
  BY Consts DEF IInv, CallerOK
<1>2. InHand = {b \in AllBlocks : Works(c, b)}
  BY <1>1 DEF InHand, Works
<1>3. ASSUME \A d \in Callers \ {c} : pc'[d] = pc[d]
      PROVE  InHand' = {b \in AllBlocks : Works(c, b)'}
  <2>1. \A d \in Callers \ {c} : \A b : ~Works(d, b)'
    BY <1>1, <1>3 DEF Works
  <2>2. InHand' = {b \in AllBlocks : \E d \in Callers : Works(d, b)'}
    BY DEF InHand
  <2> QED
    BY <2>1, <2>2
<1> QED
  BY <1>2, <1>3

\* The other callers' places stay right.
LEMMA OthersOK ==
    ASSUME IInv, NEW c \in Callers, buddy_lock \in {c, NoCaller}, buddy_lock' \in {c, NoCaller},
           \A d \in Callers \ {c} : pc'[d] = pc[d], CallerOK(c)'
    PROVE  \A d \in Callers : CallerOK(d)'
<1>1. ASSUME NEW d \in Callers, d # c
      PROVE  CallerOK(d)'
  <2>1. pc'[d] \notin {"alloc", "split", "free", "merge"}
    BY <1>1, Consts DEF IInv, CallerOK
  <2>2. buddy_lock' # d
    BY <1>1, Consts
  <2> QED
    BY <2>1, <2>2 DEF CallerOK
<1> QED
  BY <1>1

\* A step that makes no block and puts none into a list.
Calm == Held' \subseteq Held /\ Listed' \subseteq Listed

\* A step that leaves the pages, the lists and the owners alone.
LEMMA QuietStep ==
    ASSUME IInv, TypeOK', \A c \in Callers : CallerOK(c)',
           UNCHANGED <<order, is_free, free_lists, owned>>,
           InHand' \subseteq InHand,
           HaltedInside' \/ (InHand' = InHand /\ ~HaltedInside)
    PROVE  IInv' /\ Calm
<1>1. Listed' = Listed
  BY DEF Listed
<1>2. Held' \subseteq Held
  BY <1>1 DEF Held
<1>3. OnePlace' /\ FlagsOK'
  BY <1>1 DEF IInv, OnePlace, FlagsOK
<1>4. InRange(Held') /\ Apart(Held') /\ StaleOK(Held', is_free, order)
  BY <1>2 DEF IInv, InRange, Apart, StaleOK
<1>5. InRange(Held)' /\ Apart(Held)' /\ StaleOK(Held, is_free, order)'
  BY <1>4 DEF InRange, Apart, StaleOK, Harmless
<1>6. HaltedInside' \/ Covers(Held)'
  <2>1. CASE InHand' = InHand /\ ~HaltedInside
    BY <1>1, <2>1 DEF Held, IInv, Covers
  <2> QED
    BY <2>1
<1> QED
  BY <1>1, <1>2, <1>3, <1>5, <1>6 DEF IInv, Calm

------------------------------------------------------------------------------
(* The steps that move no block.                                           *)

\* Nothing changes.
LEMMA StutterIInv == IInv /\ UNCHANGED vars => IInv' /\ Calm
<1> SUFFICES ASSUME IInv, UNCHANGED vars
             PROVE  IInv' /\ Calm
  OBVIOUS
<1> USE DEF vars
<1>1. TypeOK'
  BY DEF IInv, TypeOK
<1>2. \A c \in Callers : CallerOK(c)'
  BY DEF IInv, CallerOK
<1>3. InHand' = InHand /\ (HaltedInside' <=> HaltedInside)
  BY DEF InHand, Works, HaltedInside
<1> QED
  BY <1>1, <1>2, <1>3, QuietStep

\* The boot hart enters S-mode.
LEMMA EnterSModeIInv == IInv /\ EnterSMode => IInv' /\ Calm
<1> SUFFICES ASSUME IInv, EnterSMode
             PROVE  IInv' /\ Calm
  OBVIOUS
<1> USE DEF EnterSMode
<1>1. TypeOK'
  BY DEF IInv, TypeOK
<1>2. \A c \in Callers : CallerOK(c)'
  BY DEF IInv, CallerOK
<1>3. InHand' = InHand /\ (HaltedInside' <=> HaltedInside)
  BY DEF InHand, Works, HaltedInside
<1> QED
  BY <1>1, <1>2, <1>3, QuietStep

\* alloc_pages is called and takes the lock.
LEMMA CallAllocIInv ==
    ASSUME IInv, NEW c \in Callers, NEW o \in Orders, CallAlloc(c, o)
    PROVE  IInv' /\ Calm
<1> USE DEF CallAlloc, Goto
<1>1. TypeOK'
  BY DEF IInv, TypeOK, PCs
<1>2. \A d \in Callers \ {c} : pc'[d] = pc[d]
  BY DEF IInv, TypeOK
<1>3. pc'[c] = "alloc" /\ pc[c] = "out" /\ buddy_lock' = c /\ buddy_lock = NoCaller
  BY DEF IInv, TypeOK
<1>4. CallerOK(c)'
  BY <1>3 DEF CallerOK
<1>5. \A d \in Callers : CallerOK(d)'
  BY <1>2, <1>3, <1>4, OthersOK
<1>6. InHand' = {} /\ InHand = {}
  BY <1>2, <1>3, HandIs DEF Works
<1>7. ~HaltedInside
  BY <1>3, Consts DEF HaltedInside
<1> QED
  BY <1>1, <1>5, <1>6, <1>7, QuietStep

\* Back in the caller, its local variables have their types.
LEMMA ReturnTypes ==
    ASSUME TypeOK, NEW c \in Callers, Return(c)
    PROVE  /\ pc' \in [Callers -> PCs] /\ arg' \in [Callers -> Orders]
           /\ block' \in [Callers -> Pages] /\ curr' \in [Callers -> Orders]
<1>1. 0 \in Orders /\ 0 \in Pages /\ "out" \in PCs
  BY Consts DEF Orders, Pages, PCs
<1> QED
  BY <1>1 DEF TypeOK, Return, Goto

\* No list has a block: NULL.
LEMMA AllocFailsIInv ==
    ASSUME IInv, NEW c \in Callers, AllocFails(c)
    PROVE  IInv' /\ Calm
<1>1. TypeOK'
  BY ReturnTypes DEF IInv, TypeOK, AllocFails
<1> USE DEF AllocFails, Goto, Return
<1>2. \A d \in Callers \ {c} : pc'[d] = pc[d]
  BY DEF IInv, TypeOK
<1>3. pc'[c] = "out" /\ pc[c] = "alloc" /\ buddy_lock' = NoCaller /\ buddy_lock = c
  BY DEF IInv, TypeOK, CallerOK
<1>4. CallerOK(c)'
  BY <1>3, Consts DEF CallerOK
<1>5. \A d \in Callers : CallerOK(d)'
  BY <1>2, <1>3, <1>4, OthersOK
<1>6. InHand' = {} /\ InHand = {}
  BY <1>2, <1>3, HandIs DEF Works
<1>7. ~HaltedInside
  BY <1>3 DEF HaltedInside
<1> QED
  BY <1>1, <1>5, <1>6, <1>7, QuietStep

\* memset runs outside the lock: another caller may be inside.
LEMMA AllocEndsIInv ==
    ASSUME IInv, NEW c \in Callers, AllocReturn(c) \/ AllocFaults(c)
    PROVE  IInv' /\ Calm
<1>1. TypeOK'
  <2>1. CASE AllocReturn(c)
    BY <2>1, ReturnTypes DEF AllocReturn, IInv, TypeOK
  <2>2. CASE AllocFaults(c)
    BY <2>2 DEF AllocFaults, Goto, IInv, TypeOK, PCs
  <2> QED
    BY <2>1, <2>2
<1>2. /\ pc[c] = "zero" /\ pc'[c] \in {"out", "halt"}
      /\ \A d \in Callers \ {c} : /\ pc'[d] = pc[d] /\ arg'[d] = arg[d]
                                  /\ block'[d] = block[d] /\ curr'[d] = curr[d]
      /\ UNCHANGED <<order, is_free, free_lists, owned, buddy_lock>>
  BY DEF AllocReturn, AllocFaults, Return, Goto, IInv, TypeOK
<1>3. buddy_lock # c
  BY <1>2 DEF IInv, CallerOK
<1>4. \A d \in Callers : CallerOK(d)'
  BY <1>2, <1>3 DEF IInv, CallerOK
<1>5. \A d \in Callers, b \in AllBlocks : Works(d, b)' <=> Works(d, b)
  BY <1>2 DEF Works
<1>6. InHand' = InHand
  BY <1>5 DEF InHand
<1>7. HaltedInside' <=> HaltedInside
  BY <1>2, <1>3 DEF HaltedInside
<1> QED
  BY <1>1, <1>2, <1>4, <1>6, <1>7, QuietStep

\* A page that is free already.
LEMMA FreeIgnoredIInv ==
    ASSUME IInv, NEW c \in Callers, FreeIgnored(c)
    PROVE  IInv' /\ Calm
<1>1. TypeOK'
  BY ReturnTypes DEF IInv, TypeOK, FreeIgnored
<1> USE DEF FreeIgnored, Goto, Return
<1>2. \A d \in Callers \ {c} : pc'[d] = pc[d]
  BY DEF IInv, TypeOK
<1>3. /\ pc'[c] = "out" /\ pc[c] = "free" /\ buddy_lock' = NoCaller /\ buddy_lock = c
      /\ is_free[block[c]]
  BY DEF IInv, TypeOK, CallerOK
<1>4. CallerOK(c)'
  BY <1>3, Consts DEF CallerOK
<1>5. \A d \in Callers : CallerOK(d)'
  BY <1>2, <1>3, <1>4, OthersOK
<1>6. InHand' = {} /\ InHand = {}
  BY <1>2, <1>3, HandIs DEF Works
<1>7. ~HaltedInside
  BY <1>3 DEF HaltedInside
<1> QED
  BY <1>1, <1>5, <1>6, <1>7, QuietStep

\* The endless error loops keep the lock.
LEMMA HaltIInv ==
    ASSUME IInv, NEW c \in Callers, FreeFaults(c) \/ FreeInvalidIdx(c)
    PROVE  IInv' /\ Calm
<1> USE DEF FreeFaults, FreeInvalidIdx, Goto
<1>1. TypeOK'
  BY DEF IInv, TypeOK, PCs
<1>2. \A d \in Callers \ {c} : pc'[d] = pc[d]
  BY DEF IInv, TypeOK
<1>3. /\ pc'[c] = "halt" /\ pc[c] \in {"free", "merge"} /\ buddy_lock' = c /\ buddy_lock = c
      /\ UNCHANGED <<order, is_free, free_lists, owned>>
  BY DEF IInv, TypeOK, CallerOK
<1>4. CallerOK(c)'
  BY <1>3 DEF CallerOK
<1>5. \A d \in Callers : CallerOK(d)'
  BY <1>2, <1>3, <1>4, OthersOK
<1>6. InHand' = {}
  BY <1>2, <1>3, HandIs DEF Works
<1>7. HaltedInside'
  BY <1>3 DEF HaltedInside
<1> QED
  BY <1>1, <1>3, <1>5, <1>6, <1>7, QuietStep

\* A second free of the first page: the page begins a block, so that its flag
\* is right and the call will be ignored.
LEMMA CallFreeAgainIInv ==
    ASSUME RepeatedFrees \subseteq {0}, IInv, NEW c \in Callers, NEW i \in RepeatedFrees,
           CallFreeAgain(c, i)
    PROVE  IInv' /\ Calm
<1> USE DEF CallFreeAgain, Goto
<1>0. i = 0 /\ i \in Pages
  BY Consts DEF Pages
<1>1. TypeOK'
  BY <1>0 DEF IInv, TypeOK, PCs
<1>2. \A d \in Callers \ {c} : pc'[d] = pc[d]
  BY DEF IInv, TypeOK
<1>3. /\ pc'[c] = "free" /\ pc[c] = "out" /\ buddy_lock' = c /\ buddy_lock = NoCaller
      /\ block'[c] = i /\ UNCHANGED <<order, is_free, free_lists, owned>>
  BY DEF IInv, TypeOK
<1>4. CallerOK(c)'
  BY <1>3 DEF CallerOK
<1>5. \A d \in Callers : CallerOK(d)'
  BY <1>2, <1>3, <1>4, OthersOK
<1>6. InHand = {}
  BY <1>3, HandIs DEF Works
<1>7. ~HaltedInside
  BY <1>3, Consts DEF HaltedInside
<1>8. is_free[i]
  <2>1. PICK b \in Held : b.idx <= i /\ i < b.idx + 2^b.order
    BY <1>0, <1>7 DEF IInv, Covers
  <2>2. b.idx = 0 /\ 2^b.order \in Nat
    BY <1>0, <2>1, HeldFacts, BlockFacts DEF IInv
  <2>3. b \notin owned
    <3>1. i \in PagesOf(b)
      BY <1>0, <2>1, <2>2 DEF PagesOf
    <3> QED
      BY <3>1
  <2> QED
    BY <1>0, <1>6, <2>1, <2>2, <2>3 DEF Held, IInv, FlagsOK
<1>9. InHand' = {}
  BY <1>2, <1>3, <1>8, HandIs DEF Works
<1> QED
  BY <1>1, <1>3, <1>5, <1>6, <1>7, <1>9, QuietStep

------------------------------------------------------------------------------
(* The steps that move a block from one place to another.                  *)

\* The block b changes its place, and perhaps the flags of its first page.
LEMMA MoveStep ==
    ASSUME IInv, ~HaltedInside, TypeOK', \A c \in Callers : CallerOK(c)', NEW b \in Held,
           \A p \in Pages : p # b.idx => is_free'[p] = is_free[p] /\ order'[p] = order[p],
           Listed' \ {b} = Listed \ {b}, owned' \ {b} = owned \ {b},
           InHand' \ {b} = InHand \ {b},
           b \in Held', ~(b \in Listed' /\ b \in owned'),
           ~(b \in Listed' /\ b \in InHand'), ~(b \in owned' /\ b \in InHand'),
           AllOnce(free_lists'),
           b \in Listed' => is_free'[b.idx] /\ order'[b.idx] = b.order,
           b \in owned' => ~is_free'[b.idx] /\ order'[b.idx] = b.order
    PROVE  IInv' /\ Held' = Held
<1>1. Held' = Held
  BY DEF Held
<1>2. Held \in SUBSET AllBlocks /\ Apart(Held)
  BY HeldFacts DEF IInv
<1>3. StaleOK(Held, is_free', order')
  BY <1>2, StaleHead DEF IInv
<1>4. InRange(Held)' /\ Apart(Held)' /\ Covers(Held)' /\ StaleOK(Held, is_free, order)'
  BY <1>1, <1>3 DEF IInv, InRange, Apart, Covers, StaleOK, Harmless
<1>5. OnePlace'
  BY DEF IInv, OnePlace, AllOnce, Once
<1>6. ASSUME NEW d \in Held, d # b
      PROVE  is_free'[d.idx] = is_free[d.idx] /\ order'[d.idx] = order[d.idx]
  BY <1>2, <1>6, OneHead, BlockFacts
<1>7. FlagsOK'
  <2>1. \A d \in Listed' : is_free'[d.idx] /\ order'[d.idx] = d.order
    BY <1>1, <1>6 DEF Held, IInv, FlagsOK
  <2>2. \A d \in owned' : ~is_free'[d.idx] /\ order'[d.idx] = d.order
    BY <1>1, <1>6 DEF Held, IInv, FlagsOK
  <2> QED
    BY <2>1, <2>2 DEF FlagsOK
<1> QED
  BY <1>1, <1>4, <1>5, <1>7 DEF IInv

\* A block leaves its list and is in hand.
LEMMA AllocPopIInv ==
    ASSUME IInv, NEW c \in Callers, AllocPop(c)
    PROVE  IInv' /\ Calm
<1>1. PICK o \in Orders :
        /\ o >= arg[c] /\ free_lists[o] # <<>>
        /\ order' = [order EXCEPT ![Head(free_lists[o])] = arg[c]]
        /\ is_free' = [is_free EXCEPT ![Head(free_lists[o])] = FALSE]
        /\ free_lists' = [free_lists EXCEPT ![o] = Popped(free_lists[o])]
        /\ block' = [block EXCEPT ![c] = Head(free_lists[o])]
        /\ curr' = [curr EXCEPT ![c] = o]
  BY DEF AllocPop, Candidates, InUse
<1> DEFINE x == Head(free_lists[o])
           b == Block(x, o)
<1>2. TypeOK /\ AllOnce(free_lists) /\ free_lists[o] \in Seq(Pages) /\ Once(free_lists[o])
  BY DEF IInv, OnePlace, TypeOK, AllOnce, Once
<1>3. /\ x \in Pages /\ Has(free_lists[o], x) /\ Popped(free_lists[o]) \in Seq(Pages)
      /\ \A y : Has(Popped(free_lists[o]), y) <=> y # x /\ Has(free_lists[o], y)
      /\ Once(Popped(free_lists[o]))
  BY <1>1, <1>2, PoppedList
<1>4. b \in AllBlocks /\ b.idx = x /\ b.order = o
  BY <1>3, MakeBlock
<1>5. b \in Listed
  BY <1>3, <1>4, ListedIs DEF ListedIn
<1> HIDE DEF x, b
<1>6. /\ free_lists' \in [Orders -> Seq(Pages)]
      /\ Listed' = Listed \ {b} /\ AllOnce(free_lists')
  <2> DEFINE t == Popped(free_lists[o])
  <2>1. /\ t \in Seq(Pages) /\ Once(t) /\ free_lists' = [free_lists EXCEPT ![o] = t]
        /\ \A y : Has(t, y) <=> y # x /\ Has(free_lists[o], y)
    BY <1>1, <1>3
  <2> HIDE DEF t
  <2>2. free_lists \in [Orders -> Seq(Pages)]
    BY <1>2 DEF TypeOK
  <2>3. /\ free_lists' \in [Orders -> Seq(Pages)]
        /\ ListedIn(free_lists') = ListedIn(free_lists) \ {Block(x, o)}
        /\ AllOnce(free_lists')
    BY <1>2, <1>3, <2>1, <2>2, ListShrunk
  <2> QED
    BY <2>3, ListedIs DEF b
<1>7. /\ order' = [order EXCEPT ![x] = arg[c]] /\ is_free' = [is_free EXCEPT ![x] = FALSE]
      /\ block' = [block EXCEPT ![c] = x] /\ curr' = [curr EXCEPT ![c] = o]
      /\ pc' = [pc EXCEPT ![c] = "split"] /\ pc[c] = "alloc"
      /\ UNCHANGED <<buddy_lock, arg, owned, freed, va_offset>>
  BY <1>1 DEF x, AllocPop, Goto
<1>8. TypeOK'
  BY <1>2, <1>3, <1>6, <1>7 DEF TypeOK, PCs
<1>9. /\ buddy_lock = c /\ buddy_lock' = c /\ pc'[c] = "split" /\ block'[c] = x /\ curr'[c] = o
      /\ \A d \in Callers \ {c} : pc'[d] = pc[d]
      /\ order'[x] = arg[c] /\ is_free'[x] = FALSE
      /\ \A p \in Pages : p # x => is_free'[p] = is_free[p] /\ order'[p] = order[p]
  BY <1>2, <1>3, <1>7 DEF IInv, CallerOK, TypeOK
<1>10. CallerOK(c)'
  <2>1. arg'[c] <= curr'[c] /\ order'[block'[c]] = arg'[c] /\ ~is_free'[block'[c]]
    BY <1>1, <1>2, <1>7, <1>9, Consts DEF TypeOK, Orders
  <2> QED
    BY <1>9, <2>1 DEF CallerOK
<1>11. \A d \in Callers : CallerOK(d)'
  BY <1>9, <1>10, OthersOK
<1>12. InHand = {}
  BY <1>7, <1>9, HandIs DEF Works
<1>13. InHand' = {b}
  <2>1. \A d : Works(c, d)' <=> d = b
    BY <1>9 DEF Works, b
  <2> QED
    BY <1>4, <1>9, <2>1, HandIs
<1>14. ~HaltedInside
  BY <1>7, <1>9 DEF HaltedInside
<1>15. b \in Held /\ b \notin owned
  BY <1>5 DEF Held, IInv, OnePlace
<1> QED
  BY <1>4, <1>5, <1>6, <1>7, <1>8, <1>9, <1>11, <1>12, <1>13, <1>14, <1>15, MoveStep DEF Held, Calm

\* alloc_pages returns the block: it is owned.
LEMMA AllocUnlockIInv ==
    ASSUME IInv, NEW c \in Callers, AllocUnlock(c)
    PROVE  IInv' /\ Calm
<1> DEFINE b == Block(block[c], arg[c])
<1>1. /\ pc[c] = "split" /\ curr[c] = arg[c] /\ buddy_lock' = NoCaller
      /\ owned' = owned \cup {b} /\ pc' = [pc EXCEPT ![c] = "zero"]
      /\ UNCHANGED <<order, is_free, free_lists, arg, block, curr, freed, va_offset>>
  BY DEF AllocUnlock, Goto
<1>2. TypeOK /\ block[c] \in Pages /\ arg[c] \in Orders
  BY DEF IInv, TypeOK
<1>3. b \in AllBlocks /\ b.idx = block[c] /\ b.order = arg[c]
  BY <1>2, MakeBlock
<1>4. TypeOK'
  BY <1>1, <1>2, <1>3 DEF TypeOK, PCs
<1>5. /\ buddy_lock = c /\ order[block[c]] = arg[c] /\ ~is_free[block[c]] /\ pc'[c] = "zero"
      /\ \A d \in Callers \ {c} : pc'[d] = pc[d]
  BY <1>1, <1>2 DEF IInv, CallerOK, TypeOK
<1>6. CallerOK(c)'
  BY <1>1, <1>5, Consts DEF CallerOK
<1>7. \A d \in Callers : CallerOK(d)'
  BY <1>1, <1>5, <1>6, OthersOK
<1>8. InHand = {b}
  <2>1. \A d : Works(c, d) <=> d = b
    BY <1>1 DEF Works
  <2> QED
    BY <1>3, <1>5, <2>1, HandIs
<1>9. InHand' = {}
  <2>1. \A d : ~Works(c, d)'
    BY <1>5 DEF Works
  <2> QED
    BY <1>5, <2>1, HandIs
<1> HIDE DEF b
<1>10. Listed' = Listed /\ AllOnce(free_lists')
  BY <1>1 DEF Listed, IInv, OnePlace, AllOnce, Once
<1>11. ~HaltedInside /\ b \in Held /\ b \notin Listed
  BY <1>1, <1>5, <1>8 DEF HaltedInside, Held, IInv, OnePlace
<1> QED
  BY <1>1, <1>3, <1>4, <1>5, <1>7, <1>8, <1>9, <1>10, <1>11, MoveStep DEF Held, Calm

\* free_pages is called and takes the lock.
LEMMA CallFreeIInv ==
    ASSUME IInv, NEW c \in Callers, NEW b \in owned, CallFree(c, b)
    PROVE  IInv' /\ Calm
<1>1. /\ pc[c] = "out" /\ buddy_lock = NoCaller /\ buddy_lock' = c
      /\ owned' = owned \ {b} /\ pc' = [pc EXCEPT ![c] = "free"]
      /\ freed' = freed \cup ({b.idx} \cap RepeatedFrees)
      /\ block' = [block EXCEPT ![c] = b.idx]
      /\ UNCHANGED <<order, is_free, free_lists, arg, curr, va_offset>>
  BY DEF CallFree, Goto
<1>2. TypeOK /\ b \in AllBlocks /\ b.idx \in Pages
  BY BlockFacts DEF IInv, TypeOK
<1>3. TypeOK'
  BY <1>1, <1>2 DEF TypeOK, PCs
<1>4. /\ pc'[c] = "free" /\ block'[c] = b.idx
      /\ \A d \in Callers \ {c} : pc'[d] = pc[d]
  BY <1>1, <1>2 DEF TypeOK
<1>5. ~is_free[b.idx] /\ order[b.idx] = b.order
  BY DEF IInv, FlagsOK
<1>6. CallerOK(c)'
  BY <1>1, <1>4 DEF CallerOK
<1>7. \A d \in Callers : CallerOK(d)'
  BY <1>1, <1>4, <1>6, OthersOK
<1>8. InHand = {}
  BY <1>1, HandIs DEF Works
<1>9. InHand' = {b}
  <2>1. b = Block(b.idx, b.order)
    BY <1>2, BlockFacts
  <2>2. \A d : Works(c, d)' <=> d = b
    BY <1>1, <1>4, <1>5, <2>1 DEF Works
  <2> QED
    BY <1>1, <1>2, <1>4, <2>2, HandIs
<1>10. Listed' = Listed /\ AllOnce(free_lists')
  BY <1>1 DEF Listed, IInv, OnePlace, AllOnce, Once
<1>11. ~HaltedInside /\ b \in Held /\ b \notin Listed
  BY <1>1, Consts DEF HaltedInside, Held, IInv, OnePlace
<1> QED
  BY <1>1, <1>3, <1>7, <1>8, <1>9, <1>10, <1>11, MoveStep DEF Held, Calm

\* The block to be freed is in hand.
LEMMA FreeBeginIInv ==
    ASSUME IInv, NEW c \in Callers, FreeBegin(c)
    PROVE  IInv' /\ Calm
<1> DEFINE b == Block(block[c], order[block[c]])
<1>1. /\ pc[c] = "free" /\ ~is_free[block[c]] /\ pc' = [pc EXCEPT ![c] = "merge"]
      /\ arg' = [arg EXCEPT ![c] = order[block[c]]]
      /\ is_free' = [is_free EXCEPT ![block[c]] = TRUE]
      /\ UNCHANGED <<order, free_lists, buddy_lock, block, curr, owned, freed, va_offset>>
  BY DEF FreeBegin, Goto
<1>2. TypeOK /\ block[c] \in Pages /\ order[block[c]] \in Orders
  BY DEF IInv, TypeOK
<1>3. b \in AllBlocks /\ b.idx = block[c] /\ b.order = order[block[c]]
  BY <1>2, MakeBlock
<1>4. TypeOK'
  BY <1>1, <1>2 DEF TypeOK, PCs
<1>5. /\ buddy_lock = c /\ pc'[c] = "merge" /\ arg'[c] = order[block[c]]
      /\ \A d \in Callers \ {c} : pc'[d] = pc[d]
      /\ \A p \in Pages : p # block[c] => is_free'[p] = is_free[p]
  BY <1>1, <1>2 DEF IInv, CallerOK, TypeOK
<1>6. CallerOK(c)'
  BY <1>1, <1>2, <1>5, Consts DEF CallerOK, Orders
<1>7. \A d \in Callers : CallerOK(d)'
  BY <1>1, <1>5, <1>6, OthersOK
<1>8. InHand = {b}
  <2>1. \A d : Works(c, d) <=> d = b
    BY <1>1 DEF Works
  <2> QED
    BY <1>3, <1>5, <2>1, HandIs
<1>9. InHand' = {b}
  <2>1. \A d : Works(c, d)' <=> d = b
    BY <1>1, <1>5 DEF Works
  <2> QED
    BY <1>1, <1>3, <1>5, <2>1, HandIs
<1> HIDE DEF b
<1>10. Listed' = Listed /\ AllOnce(free_lists')
  BY <1>1 DEF Listed, IInv, OnePlace, AllOnce, Once
<1>11. ~HaltedInside /\ b \in Held /\ b \notin Listed /\ b \notin owned
  BY <1>1, <1>5, <1>8 DEF HaltedInside, Held, IInv, OnePlace
<1> QED
  BY <1>1, <1>3, <1>4, <1>5, <1>7, <1>8, <1>9, <1>10, <1>11, MoveStep DEF Held, Calm

\* The merged block goes to its list.
LEMMA FreeUnlockIInv ==
    ASSUME IInv, NEW c \in Callers, FreeUnlock(c)
    PROVE  /\ IInv' /\ Held' = Held
           /\ Listed' = Listed \cup {Block(block[c], arg[c])}
<1> DEFINE b == Block(block[c], arg[c])
<1>1. /\ pc[c] = "merge" /\ Return(c) /\ buddy_lock' = NoCaller
      /\ order' = [order EXCEPT ![block[c]] = arg[c]]
      /\ is_free' = [is_free EXCEPT ![block[c]] = TRUE]
      /\ free_lists' = [free_lists EXCEPT ![arg[c]] = Pushed(free_lists[arg[c]], block[c])]
      /\ UNCHANGED <<owned, freed, va_offset>>
  BY DEF FreeUnlock
<1>2. TypeOK /\ block[c] \in Pages /\ arg[c] \in Orders /\ AllOnce(free_lists)
  BY DEF IInv, TypeOK, OnePlace, AllOnce, Once
<1>3. b \in AllBlocks /\ b.idx = block[c] /\ b.order = arg[c]
  BY <1>2, MakeBlock
<1>4. /\ buddy_lock = c /\ pc'[c] = "out"
      /\ \A d \in Callers \ {c} : pc'[d] = pc[d]
      /\ \A p \in Pages : p # block[c] => is_free'[p] = is_free[p] /\ order'[p] = order[p]
      /\ is_free'[block[c]] = TRUE /\ order'[block[c]] = arg[c]
  BY <1>1, <1>2 DEF IInv, CallerOK, TypeOK, Return, Goto
<1>5. InHand = {b}
  <2>1. \A d : Works(c, d) <=> d = b
    BY <1>1 DEF Works
  <2> QED
    BY <1>3, <1>4, <2>1, HandIs
<1>6. InHand' = {}
  <2>1. \A d : ~Works(c, d)'
    BY <1>4 DEF Works
  <2> QED
    BY <1>4, <2>1, HandIs
<1> HIDE DEF b
<1>7. ~HaltedInside /\ b \in Held /\ b \notin Listed /\ b \notin owned
  BY <1>1, <1>4, <1>5 DEF HaltedInside, Held, IInv, OnePlace
<1>8. /\ free_lists' \in [Orders -> Seq(Pages)]
      /\ Listed' = Listed \cup {b} /\ AllOnce(free_lists')
  <2>1. free_lists \in [Orders -> Seq(Pages)]
    BY <1>2 DEF TypeOK
  <2>2. /\ free_lists' \in [Orders -> Seq(Pages)]
        /\ ListedIn(free_lists') = ListedIn(free_lists) \cup {b}
        /\ AllOnce(free_lists) /\ b \notin ListedIn(free_lists) => AllOnce(free_lists')
    <3> DEFINE o == arg[c]
               x == block[c]
               t == Pushed(free_lists[o], x)
               gl == free_lists'
    <3>1. o \in Orders /\ x \in Pages /\ b = Block(x, o) /\ gl = [free_lists EXCEPT ![o] = t]
      BY <1>1, <1>2 DEF b
    <3>2. /\ t \in Seq(Pages)
          /\ \A y : Has(t, y) <=> y = x \/ Has(free_lists[o], y)
          /\ Once(free_lists[o]) /\ ~Has(free_lists[o], x) => Once(t)
      BY <2>1, <3>1, PushedList
    <3> HIDE DEF o, x, gl, t
    <3>3. /\ gl \in [Orders -> Seq(Pages)]
          /\ ListedIn(gl) = ListedIn(free_lists) \cup {b}
          /\ AllOnce(free_lists) /\ b \notin ListedIn(free_lists) => AllOnce(gl)
      BY <2>1, <3>1, <3>2, ListGrown
    <3> QED
      BY <3>3 DEF gl
  <2> QED
    BY <1>2, <1>7, <2>2, ListedIs
<1>9. TypeOK'
  <2>1. is_free' \in [Pages -> BOOLEAN] /\ order' \in [Pages -> Orders]
    BY <1>1, <1>2 DEF TypeOK
  <2> QED
    BY <1>1, <1>2, <1>8, <2>1, ReturnTypes DEF TypeOK
<1>10. CallerOK(c)'
  BY <1>1, <1>4, Consts DEF CallerOK
<1>11. \A d \in Callers : CallerOK(d)'
  BY <1>1, <1>4, <1>10, OthersOK
<1> QED
  BY <1>1, <1>3, <1>4, <1>5, <1>6, <1>7, <1>8, <1>9, <1>11, MoveStep DEF Held, b

------------------------------------------------------------------------------
(* The rounds of the two loops.                                            *)

\* The upper half of the block in hand goes to its list.
LEMMA AllocSplitIInv ==
    ASSUME IInv, NEW c \in Callers, AllocSplit(c)
    PROVE  /\ IInv' /\ pc' = pc /\ Whole(block[c], curr[c]) \in Held /\ curr[c] > 0
           /\ Held' = (Held \ {Whole(block[c], curr[c])})
                        \cup {Lower(block[c], curr[c]), Upper(block[c], curr[c])}
           /\ Listed' = Listed \cup {Upper(block[c], curr[c])}
           /\ InHand' = {Lower(block[c], curr[c])}
<1> DEFINE i == block[c]
           k == curr[c]
           b == i + 2^(k - 1)
           wh == Whole(i, k)
           lo == Lower(i, k)
           up == Upper(i, k)
           G == (Held \ {wh}) \cup {lo, up}
<1>1. /\ TypeOK /\ i \in Pages /\ k \in Orders /\ arg[c] \in Orders /\ AllOnce(free_lists)
      /\ Held \in SUBSET AllBlocks /\ InRange(Held) /\ Apart(Held)
      /\ StaleOK(Held, is_free, order) /\ order \in [Pages -> Orders]
  BY HeldFacts DEF IInv, TypeOK, OnePlace, AllOnce, Once
<1>2. /\ pc[c] = "split" /\ k > arg[c] /\ k \in Nat /\ arg[c] \in Nat /\ k > 0 /\ buddy_lock = c
      /\ order[i] = arg[c] /\ ~is_free[i]
  BY <1>1, OrdersAreExps DEF AllocSplit, IInv, CallerOK
<1>3. InHand = {wh} /\ wh \in AllBlocks
  <2>1. \A d : Works(c, d) <=> d = wh
    BY <1>2 DEF Works, Whole
  <2>2. wh \in AllBlocks
    BY <1>1, MakeBlock DEF Whole
  <2> QED
    BY <1>2, <2>1, <2>2, HandIs
<1>4. wh \in Held /\ wh \notin Listed /\ wh \notin owned /\ Listed \cap owned = {}
  BY <1>3 DEF Held, IInv, OnePlace
<1>5. /\ G \in SUBSET AllBlocks /\ InRange(G) /\ Apart(G) /\ StaleOK(G, is_free, order)
      /\ Covers(Held) => Covers(G)
      /\ lo \notin Held /\ up \notin Held /\ b \in Pages
  <2>1. G = (Held \ {Whole(i, k)}) \cup {Lower(i, k), Upper(i, k)}
    OBVIOUS
  <2>2. Whole(i, k) \in Held
    BY <1>4
  <2> HIDE DEF i, k, G
  <2> QED
    BY <1>1, <1>2, <2>1, <2>2, SplitBooks
<1>6. /\ k - 1 \in Orders /\ 2^(k - 1) \in Nat /\ 2^(k - 1) > 0 /\ i \in Nat
      /\ lo \in AllBlocks /\ up \in AllBlocks
      /\ up.idx = b /\ up.order = k - 1 /\ lo.idx = i /\ lo.order = k - 1
  <2>1. i + 2^k <= NumPages
    BY <1>1, <1>4, MakeBlock DEF InRange, Whole
  <2> QED
    BY <1>1, <1>2, <2>1, Halves
<1>7. b # i /\ b < NumPages /\ lo # up /\ lo = Block(i, k - 1) /\ up = Block(b, k - 1)
  BY <1>5, <1>6, Consts DEF Pages, Lower, Upper
<1>8. /\ order' = [order EXCEPT ![b] = k - 1]
      /\ is_free' = [is_free EXCEPT ![b] = TRUE]
      /\ free_lists' = [free_lists EXCEPT ![k - 1] = Pushed(free_lists[k - 1], b)]
      /\ curr' = [curr EXCEPT ![c] = k - 1]
      /\ UNCHANGED <<pc, buddy_lock, arg, block, owned, freed, va_offset>>
  <2>1. ~(b >= NumPages)
    <3>1. b \in Nat
      BY <1>6
    <3> HIDE DEF b
    <3> QED
      BY <1>7, <3>1, Consts
  <2> QED
    BY <2>1 DEF AllocSplit
<1> HIDE DEF i, k, b, wh, lo, up, G
<1>9. /\ free_lists' \in [Orders -> Seq(Pages)]
      /\ Listed' = Listed \cup {up} /\ AllOnce(free_lists')
  <2> DEFINE o == k - 1
             t == Pushed(free_lists[o], b)
             gl == free_lists'
  <2>1. free_lists \in [Orders -> Seq(Pages)]
    BY <1>1 DEF TypeOK
  <2>2. o \in Orders /\ b \in Pages /\ up = Block(b, o) /\ gl = [free_lists EXCEPT ![o] = t]
    BY <1>5, <1>6, <1>7, <1>8
  <2>3. /\ t \in Seq(Pages)
        /\ \A y : Has(t, y) <=> y = b \/ Has(free_lists[o], y)
        /\ Once(free_lists[o]) /\ ~Has(free_lists[o], b) => Once(t)
    BY <2>1, <2>2, PushedList
  <2> HIDE DEF o, t, gl
  <2>4. /\ gl \in [Orders -> Seq(Pages)]
        /\ ListedIn(gl) = ListedIn(free_lists) \cup {up}
        /\ AllOnce(free_lists) /\ up \notin ListedIn(free_lists) => AllOnce(gl)
    BY <2>1, <2>2, <2>3, ListGrown
  <2>5. up \notin Listed
    BY <1>5 DEF Held
  <2> QED
    BY <1>1, <2>4, <2>5, ListedIs DEF gl
<1>10. TypeOK'
  <2>1. is_free' \in [Pages -> BOOLEAN] /\ order' \in [Pages -> Orders]
        /\ curr' \in [Callers -> Orders]
    BY <1>1, <1>6, <1>8 DEF TypeOK
  <2> QED
    BY <1>1, <1>8, <1>9, <2>1 DEF TypeOK
<1>11. /\ curr'[c] = k - 1 /\ block'[c] = i /\ pc'[c] = "split"
       /\ \A p \in Pages : p # b => is_free'[p] = is_free[p] /\ order'[p] = order[p]
       /\ is_free'[b] = TRUE /\ order'[b] = k - 1
  BY <1>1, <1>2, <1>5, <1>8 DEF TypeOK, i
<1>12. InHand' = {lo}
  <2>1. \A d : Works(c, d)' <=> d = lo
    BY <1>7, <1>11 DEF Works
  <2> QED
    BY <1>2, <1>6, <1>8, <2>1, HandIs
<1>13. Held' = G
  BY <1>3, <1>4, <1>8, <1>9, <1>12 DEF Held, G
<1>14. StaleOK(G, is_free', order')
  <2>1. up \in G
    BY DEF G
  <2> QED
    BY <1>5, <1>6, <1>11, <2>1, StaleHead
<1>15. (InRange(Held) /\ Apart(Held) /\ StaleOK(Held, is_free, order))'
  BY <1>5, <1>13, <1>14 DEF InRange, Apart, StaleOK, Harmless
<1>16. Covers(Held)'
  <2>1. ~HaltedInside
    BY <1>2 DEF HaltedInside
  <2>2. Covers(G)
    BY <1>5, <2>1 DEF IInv
  <2> QED
    BY <1>13, <2>2 DEF Covers
<1>17. OnePlace'
  <2>1. up \notin owned /\ lo \notin Listed /\ lo \notin owned
    BY <1>5 DEF Held
  <2> QED
    BY <1>4, <1>7, <1>8, <1>9, <1>12, <2>1 DEF OnePlace, AllOnce, Once
<1>18. FlagsOK'
  <2>1. ASSUME NEW d \in Listed \cup owned
        PROVE  is_free'[d.idx] = is_free[d.idx] /\ order'[d.idx] = order[d.idx]
    <3>1. d \in Held /\ d # up /\ d # wh
      BY <1>4, <1>5 DEF Held
    <3>2. d \in G /\ up \in G
      BY <3>1 DEF G
    <3>3. d.idx # b /\ d.idx \in Pages
      BY <1>5, <1>6, <3>1, <3>2, OneHead, BlockFacts
    <3> QED
      BY <1>11, <3>3
  <2> QED
    BY <1>6, <1>8, <1>9, <1>11, <2>1 DEF FlagsOK, IInv
<1>19. \A d \in Callers : CallerOK(d)'
  <2>1. arg'[c] <= curr'[c] /\ order'[block'[c]] = arg'[c] /\ ~is_free'[block'[c]]
    BY <1>1, <1>2, <1>7, <1>8, <1>11
  <2>2. CallerOK(c)'
    BY <1>2, <1>8, <1>11, <2>1 DEF CallerOK
  <2> QED
    BY <1>2, <1>8, <2>2, OthersOK
<1>20. IInv'
  BY <1>10, <1>15, <1>16, <1>17, <1>18, <1>19 DEF IInv
<1> QED
  BY <1>2, <1>4, <1>8, <1>9, <1>12, <1>13, <1>20 DEF G, i, k, wh, lo, up

\* The flags of the upper half that a merge leaves behind are harmless.
LEMMA HalfIsHarmless ==
    ASSUME NEW b \in Nat, NEW o \in Orders, NEW q \in Orders, q <= o,
           ((b + 2^o) \div 2^o) % 2 = 1
    PROVE  Harmless(Whole(b, o + 1), q, b + 2^o)
<1>1. /\ 2^o \in Nat /\ 2^o > 0 /\ o \in Exps /\ q \in Exps /\ q + 1 \in Exps
      /\ o \in Nat /\ q \in Nat /\ 2^q \in Nat /\ 2^q > 0
      /\ 2^(q + 1) \in Nat /\ 2^(q + 1) > 0
  BY OrdersAreExps, PowType
<1>2. (b + 2^o) - Whole(b, o + 1).idx = 2^o
  BY <1>1 DEF Whole, Block
<1>3. CASE q = o
  <2>1. 2^o % 2^q = 0
    BY <1>1, <1>3
  <2> QED
    BY <1>2, <1>3, <2>1 DEF Harmless
<1>4. CASE q < o
  <2>1. q + 1 <= o
    BY <1>1, <1>4
  <2>2. PICK m \in Nat : m > 0 /\ 2^o = m * 2^(q + 1)
    BY <1>1, <2>1, PowDivides
  <2>3. 2^o % 2^(q + 1) = 0
    BY <1>1, <2>2, ModMultiple
  <2> QED
    BY <1>2, <2>3 DEF Harmless
<1> QED
  BY <1>1, <1>3, <1>4

\* The block in hand and its buddy from the list become one.
LEMMA FreeMergeIInv ==
    ASSUME IInv, NEW c \in Callers, FreeMerge(c)
    PROVE  /\ IInv' /\ Listed' \subseteq Listed
           /\ \E l \in Pages :
                 /\ Held' \subseteq Held \cup {Whole(l, arg[c] + 1)}
                 /\ Lower(l, arg[c] + 1) \in Held /\ arg[c] + 1 \in Orders
                 /\ (l \div 2^arg[c]) % 2 = 0
<1> DEFINE i == block[c]
           o == arg[c]
           b == BuddyOf(i, o)
           me == Block(i, o)
           d == Block(b, o)
           l == IF i > b THEN b ELSE i
           wh == Whole(l, o + 1)
           G == (Held \ {me, d}) \cup {wh}
<1>1. /\ TypeOK /\ i \in Pages /\ o \in Orders /\ AllOnce(free_lists) /\ i \in Nat /\ o \in Nat
      /\ Held \in SUBSET AllBlocks /\ InRange(Held) /\ Apart(Held)
      /\ StaleOK(Held, is_free, order) /\ order \in [Pages -> Orders]
  <2>1. /\ TypeOK /\ i \in Pages /\ o \in Orders /\ order \in [Pages -> Orders]
    BY DEF IInv, TypeOK
  <2>2. i \in Nat /\ o \in Nat
    BY <2>1, OrdersAreExps DEF Pages
  <2>3. AllOnce(free_lists)
    BY DEF IInv, OnePlace, AllOnce, Once
  <2>4. /\ Held \in SUBSET AllBlocks /\ InRange(Held) /\ Apart(Held)
        /\ StaleOK(Held, is_free, order)
    BY HeldFacts DEF IInv
  <2> QED
    BY <2>1, <2>2, <2>3, <2>4
<1>2. /\ pc[c] = "merge" /\ o < MaxOrder /\ b < NumPages /\ is_free[b] /\ order[b] = o
      /\ buddy_lock = c /\ order[i] <= o
  BY DEF FreeMerge, CanMerge, BelowMax, IInv, CallerOK
<1>3. /\ free_lists' = [free_lists EXCEPT ![o] = Without(free_lists[o], b)]
      /\ is_free' = [is_free EXCEPT ![b] = FALSE]
      /\ block' = [block EXCEPT ![c] = l]
      /\ arg' = [arg EXCEPT ![c] = o + 1]
      /\ UNCHANGED <<order, buddy_lock, pc, curr, owned, freed, va_offset>>
  BY DEF FreeMerge, LowerOf
<1>4. InHand = {me} /\ me \in AllBlocks
  <2>1. \A x : Works(c, x) <=> x = me
    BY <1>2 DEF Works
  <2>2. me \in AllBlocks
    BY <1>1, MakeBlock
  <2> QED
    BY <1>2, <2>1, <2>2, HandIs
<1>5. me \in Held /\ me \notin Listed /\ me \notin owned /\ Listed \cap owned = {}
  BY <1>4 DEF Held, IInv, OnePlace
<1>6. Covers(Held)
  <2>1. ~HaltedInside
    BY <1>2 DEF HaltedInside
  <2> QED
    BY <2>1 DEF IInv
<1>7. b \in Pages /\ \E x \in Held : x # me /\ x.idx = b
  <2> HIDE DEF i, o
  <2> QED
    BY <1>1, <1>2, <1>5, <1>6, BuddyBegins
<1>8. d \in Listed /\ d # me /\ d \in AllBlocks /\ d.idx = b /\ d.order = o
  <2>1. PICK x \in Held : x # me /\ x.idx = b
    BY <1>7
  <2>2. x \in Listed
    BY <1>2, <1>4, <2>1 DEF Held, IInv, FlagsOK
  <2>3. x.order = o
    BY <1>2, <2>1, <2>2 DEF IInv, FlagsOK
  <2>4. x = d
    BY <1>1, <2>1, <2>3, BlockFacts
  <2> QED
    BY <1>1, <1>7, <2>1, <2>2, <2>4, MakeBlock
<1>9. \/ b = i + 2^o /\ (i \div 2^o) % 2 = 0
      \/ b = i - 2^o /\ (b \div 2^o) % 2 = 0
  BY <1>1, BuddySide
<1>10. \/ b = i + 2^o
       \/ b = i - 2^o /\ i = b + 2^o /\ ((b + 2^o) \div 2^o) % 2 = 1
  <2>1. \/ b = i + 2^o
        \/ b = i - 2^o /\ i >= 2^o /\ (i \div 2^o) % 2 = 1
    BY <1>1, BuddySide
  <2>2. 2^o \in Nat
    BY <1>1, PowType, OrdersAreExps
  <2>3. ASSUME b = i - 2^o
        PROVE  i = b + 2^o
    BY <1>1, <2>2, <2>3
  <2> QED
    BY <2>1, <2>3
<1>11. 2^o \in Nat /\ 2^o > 0 /\ b \in Nat /\ o + 1 \in Orders /\ o + 1 > 0 /\ (o + 1) - 1 = o
  <2> HIDE DEF i, o, b
  <2>1. 2^o \in Nat /\ 2^o > 0
    BY <1>1, PowType, OrdersAreExps
  <2>2. b \in Nat
    BY <1>7 DEF Pages
  <2>3. o + 1 \in Orders
    BY <1>1, <1>2, Consts DEF Orders
  <2> QED
    BY <1>1, <2>1, <2>2, <2>3
<1>12. l \in {i, b} /\ l \in Pages
  BY <1>1, <1>7
<1> HIDE DEF i, o, b, me, d
<1>13. /\ {me, d} = {Lower(l, o + 1), Upper(l, o + 1)}
       /\ l + 2^o \in Pages
       /\ \/ l = i /\ l + 2^o = b
          \/ l = b /\ l + 2^o = i /\ ((b + 2^o) \div 2^o) % 2 = 1
  <2>1. Lower(l, o + 1) = Block(l, o) /\ Upper(l, o + 1) = Block(l + 2^o, o)
    BY <1>11 DEF Lower, Upper
  <2>2. CASE b = i + 2^o
    <3>1. l = i
      BY <1>1, <1>11, <2>2
    <3> QED
      BY <1>7, <2>1, <2>2, <3>1 DEF me, d
  <2>3. CASE i = b + 2^o /\ ((b + 2^o) \div 2^o) % 2 = 1
    <3>1. l = b
      BY <1>1, <1>11, <2>3
    <3> QED
      BY <1>1, <2>1, <2>3, <3>1 DEF me, d
  <2> QED
    BY <1>10, <2>2, <2>3
<1> HIDE DEF l
<1>14. /\ \A p \in Pages : p # b => is_free'[p] = is_free[p]
       /\ is_free'[b] = FALSE /\ block'[c] = l /\ arg'[c] = o + 1 /\ pc'[c] = "merge"
  BY <1>1, <1>2, <1>3, <1>7 DEF TypeOK
<1>15. StaleOK(Held, is_free', order)
  BY <1>1, <1>14, StaleCleared
<1>16. is_free'[l + 2^o] => Harmless(wh, order[l + 2^o], l + 2^o)
  <2>1. CASE l + 2^o = b
    BY <1>14, <2>1
  <2>2. CASE l = b /\ l + 2^o = i /\ ((b + 2^o) \div 2^o) % 2 = 1
    <3>1. order[i] \in Orders /\ order[i] <= o
      BY <1>1, <1>2
    <3> QED
      BY <1>1, <1>11, <2>2, <3>1, HalfIsHarmless
  <2> QED
    BY <1>13, <2>1, <2>2
<1>17. /\ G \in SUBSET AllBlocks /\ InRange(G) /\ Apart(G) /\ Covers(G)
       /\ StaleOK(G, is_free', order) /\ wh \notin Held
  <2> DEFINE k == o + 1
             f == is_free'
  <2>1. /\ k \in Orders /\ k > 0 /\ l + 2^(k - 1) \in Pages
    BY <1>11, <1>13
  <2>2. \A p \in Pages : p = l + 2^(k - 1) /\ f[p] => Harmless(Whole(l, k), order[p], p)
    BY <1>11, <1>16
  <2>3. /\ Held \in SUBSET AllBlocks /\ InRange(Held) /\ Apart(Held)
        /\ Covers(Held) /\ order \in [Pages -> Orders] /\ l \in Pages
    BY <1>1, <1>6, <1>12
  <2>4. G = (Held \ {Lower(l, k), Upper(l, k)}) \cup {Whole(l, k)}
    BY <1>13
  <2>5. Lower(l, k) \in Held /\ Upper(l, k) \in Held
    <3>1. d \in Held
      BY <1>8 DEF Held
    <3> QED
      BY <1>5, <1>13, <3>1
  <2>6. StaleOK(Held, f, order)
    BY <1>15
  <2> HIDE DEF k, f, G
  <2>7. /\ G \in SUBSET AllBlocks /\ InRange(G) /\ Apart(G) /\ Covers(G)
        /\ StaleOK(G, f, order) /\ Whole(l, k) \notin Held
    BY <2>1, <2>2, <2>3, <2>4, <2>5, <2>6, MergeBooks
  <2> QED
    BY <2>7 DEF k, f
<1>18. wh \in AllBlocks
  BY <1>11, <1>12, MakeBlock DEF Whole
<1> HIDE DEF wh, G
<1>19. /\ free_lists' \in [Orders -> Seq(Pages)]
       /\ Listed' = Listed \ {d} /\ AllOnce(free_lists')
  <2> DEFINE t == Without(free_lists[o], b)
             gl == free_lists'
  <2>1. free_lists \in [Orders -> Seq(Pages)] /\ Once(free_lists[o])
        /\ free_lists[o] \in Seq(Pages)
    BY <1>1 DEF TypeOK, AllOnce
  <2>2. Has(free_lists[o], b)
    BY <1>8, ListedIs DEF ListedIn
  <2>3. /\ t \in Seq(Pages) /\ Once(t)
        /\ \A y : Has(t, y) <=> y # b /\ Has(free_lists[o], y)
    BY <1>7, <2>1, <2>2, WithoutList
  <2>4. gl = [free_lists EXCEPT ![o] = t] /\ d = Block(b, o)
    BY <1>3 DEF d
  <2> HIDE DEF t, gl
  <2>5. /\ gl \in [Orders -> Seq(Pages)]
        /\ ListedIn(gl) = ListedIn(free_lists) \ {d} /\ AllOnce(gl)
    BY <1>1, <1>7, <2>1, <2>3, <2>4, ListShrunk
  <2> QED
    BY <2>5, ListedIs DEF gl
<1>20. TypeOK'
  <2>1. is_free' \in [Pages -> BOOLEAN] /\ block' \in [Callers -> Pages]
        /\ arg' \in [Callers -> Orders]
    BY <1>1, <1>3, <1>11, <1>12 DEF TypeOK
  <2> QED
    BY <1>1, <1>3, <1>19, <2>1 DEF TypeOK
<1>21. InHand' = {wh}
  <2>1. \A x : Works(c, x)' <=> x = wh
    BY <1>14 DEF Works, wh, Whole
  <2> QED
    BY <1>2, <1>3, <1>18, <2>1, HandIs
<1>22. Held' = G
  BY <1>3, <1>4, <1>5, <1>8, <1>19, <1>21 DEF Held, G
<1>23. (InRange(Held) /\ Apart(Held) /\ StaleOK(Held, is_free, order) /\ Covers(Held))'
  BY <1>3, <1>17, <1>22 DEF InRange, Apart, StaleOK, Harmless, Covers
<1>24. OnePlace'
  <2>1. wh \notin owned /\ wh \notin Listed
    BY <1>17 DEF Held
  <2> QED
    BY <1>3, <1>5, <1>19, <1>21, <2>1 DEF OnePlace, AllOnce, Once
<1>25. FlagsOK'
  <2>1. ASSUME NEW x \in Listed \cup owned, x # d
        PROVE  is_free'[x.idx] = is_free[x.idx]
    <3>1. x \in Held /\ d \in Held
      BY <1>8 DEF Held
    <3>2. x.idx # b /\ x.idx \in Pages
      BY <1>1, <1>8, <2>1, <3>1, OneHead, BlockFacts
    <3> QED
      BY <1>14, <3>2
  <2>2. d \notin owned
    BY <1>5, <1>8
  <2> QED
    BY <1>3, <1>19, <2>1, <2>2 DEF FlagsOK, IInv
<1>26. \A x \in Callers : CallerOK(x)'
  <2>1. order'[block'[c]] <= arg'[c]
    <3>1. order[i] \in Nat /\ order[i] <= o /\ order[b] = o
      BY <1>1, <1>2, OrdersAreExps
    <3> QED
      BY <1>1, <1>3, <1>13, <1>14, <3>1
  <2>2. CallerOK(c)'
    BY <1>2, <1>3, <1>14, <2>1 DEF CallerOK
  <2> QED
    BY <1>2, <1>3, <2>2, OthersOK
<1>27. IInv'
  BY <1>20, <1>23, <1>24, <1>25, <1>26 DEF IInv
<1>28. /\ Held' \subseteq Held \cup {Whole(l, o + 1)} /\ Lower(l, o + 1) \in Held
       /\ Listed' \subseteq Listed
  <2>1. me \in Held /\ d \in Held
    BY <1>5, <1>8 DEF Held
  <2> QED
    BY <1>13, <1>19, <1>22, <2>1 DEF G, wh
<1>29. (l \div 2^o) % 2 = 0
  <2>1. i \in Nat /\ b \in Nat /\ 2^o \in Nat /\ 2^o > 0
    BY <1>1, <1>11
  <2>2. CASE l = i /\ l + 2^o = b
    <3>1. b # i - 2^o
      BY <2>1, <2>2
    <3> QED
      BY <1>9, <2>2, <3>1
  <2>3. CASE l = b /\ l + 2^o = i
    <3>1. b # i + 2^o
      BY <2>1, <2>3
    <3> QED
      BY <1>9, <2>3, <3>1
  <2> QED
    BY <1>13, <2>2, <2>3
<1> QED
  BY <1>11, <1>12, <1>27, <1>28, <1>29 DEF o

------------------------------------------------------------------------------
(* buddy_allocator_init leaves the books right, for every Base.            *)

\* The order that the loop gives to the block at page i, and the block's end.
LEMMA InitOrderFacts ==
    ASSUME NEW i \in Pages
    PROVE  /\ InitOrder(i) \in Orders /\ i + 2^InitOrder(i) <= NumPages
           /\ (Base + i) % 2^InitOrder(i) = 0
           /\ \A q \in Orders : q > InitOrder(i) => ~(i + 2^q <= NumPages /\ (Base + i) % 2^q = 0)
<1> DEFINE Fits(o) == i + 2^o <= NumPages /\ (Base + i) % 2^o = 0
           S == {o \in Orders : Fits(o)}
           Best(o) == /\ o = 0 \/ (i + 2^o <= NumPages /\ (Base + i) % 2^o = 0)
                      /\ \A q \in Orders :
                            q > o => ~(i + 2^q <= NumPages /\ (Base + i) % 2^q = 0)
<1>1. i \in Nat /\ i + 1 <= NumPages /\ 0 \in Orders /\ 2^0 = 1
  BY Consts, PowersOfTwo DEF Pages, Orders
<1>2. IsFiniteSet(S)
  <2>1. IsFiniteSet(Orders)
    BY FS_Interval, Consts DEF Orders
  <2>2. S \subseteq Orders
    OBVIOUS
  <2> QED
    BY <2>1, <2>2, FS_Subset
<1>3. S \in SUBSET Nat
  BY OrdersAreExps
<1>4. \E o \in Orders : Best(o)
  <2>1. CASE S = {}
    BY <1>1, <2>1
  <2>2. CASE S # {}
    <3>1. PICK o \in S : \A y \in S : y <= o
      BY <1>2, <1>3, <2>2, GreatestOf
    <3>2. o \in Orders /\ Fits(o)
      OBVIOUS
    <3>3. ASSUME NEW q \in Orders, q > o
          PROVE  ~Fits(q)
      <4>1. q \in Nat /\ o \in Nat
        BY <3>2, OrdersAreExps
      <4>2. ~(q <= o)
        BY <3>3, <4>1
      <4> QED
        BY <3>1, <4>2
    <3> QED
      BY <3>2, <3>3
  <2> QED
    BY <2>1, <2>2
<1>5. InitOrder(i) = CHOOSE o \in Orders : Best(o)
  BY DEF InitOrder
<1>6. InitOrder(i) \in Orders /\ Best(InitOrder(i))
  <2> HIDE DEF Best
  <2> QED
    BY <1>4, <1>5
<1>7. CASE InitOrder(i) = 0
  <2>1. (Base + i) % 1 = 0
    BY <1>1, BuddyAssumption
  <2> QED
    BY <1>1, <1>6, <1>7, <2>1
<1>8. CASE InitOrder(i) # 0
  BY <1>6, <1>8
<1> QED
  BY <1>7, <1>8

\* The end of the block that starts at x, or the end of memory.
EndOf(x) == IF x >= NumPages THEN NumPages ELSE x + 2^InitOrder(x)

\* Each round of the set-up gets further.
LEMMA EndOfFacts ==
    ASSUME NEW x \in 0 .. NumPages
    PROVE  EndOf(x) \in 0 .. NumPages /\ (x < NumPages => EndOf(x) > x) /\ EndOf(x) >= x
<1>1. NumPages \in Nat /\ x \in Nat /\ x <= NumPages
  BY Consts
<1>2. CASE x < NumPages
  <2>1. x \in Pages
    BY <1>1, <1>2 DEF Pages
  <2> DEFINE q == InitOrder(x)
  <2>2. q \in Orders /\ x + 2^q <= NumPages /\ 2^q \in Nat /\ 2^q > 0
    BY <2>1, InitOrderFacts, OrdersAreExps, PowType
  <2>3. EndOf(x) = x + 2^q
    BY <1>1, <1>2 DEF EndOf
  <2> HIDE DEF q
  <2> QED
    BY <1>1, <2>2, <2>3
<1>3. CASE x = NumPages
  <2>1. EndOf(x) = NumPages
    BY <1>1, <1>3 DEF EndOf
  <2> QED
    BY <1>1, <1>3, <2>1
<1> QED
  BY <1>1, <1>2, <1>3

\* The loop of buddy_allocator_init: each block starts where the last one ended.
LEMMA InitStartLoop ==
    /\ InitStart \in [0 .. NumPages -> 0 .. NumPages]
    /\ InitStart[0] = 0
    /\ \A k \in 1 .. NumPages : InitStart[k] = EndOf(InitStart[k - 1])
<1> DEFINE X == 0 .. NumPages
           s == [k \in 1 .. NumPages |-> [x \in X |-> EndOf(x)]]
           Rec(f) == [k \in 0 .. NumPages |->
                        IF k = 0 THEN 0
                        ELSE IF f[k - 1] >= NumPages THEN NumPages
                        ELSE f[k - 1] + 2^InitOrder(f[k - 1])]
<1>1. NumPages \in Nat /\ 0 \in X
  BY Consts
<1>2. s \in [1 .. NumPages -> [X -> X]] /\ \A k \in 1 .. NumPages : \A x \in X : s[k][x] = EndOf(x)
  BY EndOfFacts
<1> HIDE DEF s
<1>3. PICK g \in [0 .. NumPages -> X] :
          g[0] = 0 /\ \A k \in 1 .. NumPages : g[k] = s[k][g[k - 1]]
  <2> HIDE DEF X
  <2>1. \E g : IsHistory(g, NumPages, X, 0, s)
    BY <1>1, <1>2, LoopHistory
  <2> QED
    BY <2>1 DEF IsHistory
<1>4. \A k \in 1 .. NumPages : g[k] = EndOf(g[k - 1])
  <2> TAKE k \in 1 .. NumPages
  <2>1. k - 1 \in 0 .. NumPages
    BY <1>1
  <2> QED
    BY <1>2, <1>3, <2>1
<1>5. g = Rec(g)
  <2>1. ASSUME NEW k \in 0 .. NumPages
        PROVE  g[k] = Rec(g)[k]
    <3>1. CASE k = 0
      BY <1>3, <3>1
    <3>2. CASE k # 0
      <4>1. k \in 1 .. NumPages
        BY <1>1, <3>2
      <4> QED
        BY <1>4, <3>2, <4>1 DEF EndOf
    <3> QED
      BY <3>1, <3>2
  <2>2. Rec(g) = [k \in 0 .. NumPages |-> Rec(g)[k]]
    OBVIOUS
  <2>3. g = [k \in 0 .. NumPages |-> g[k]]
    OBVIOUS
  <2> HIDE DEF Rec
  <2> QED
    BY <2>1, <2>2, <2>3
<1>6. InitStart = CHOOSE f : f = Rec(f)
  BY DEF InitStart
<1>7. InitStart = Rec(InitStart)
  <2> HIDE DEF Rec
  <2> QED
    BY <1>5, <1>6
<1>8. /\ DOMAIN InitStart = 0 .. NumPages /\ InitStart[0] = 0
      /\ InitStart = [k \in 0 .. NumPages |-> InitStart[k]]
      /\ \A k \in 1 .. NumPages : InitStart[k] = EndOf(InitStart[k - 1])
  <2>1. ASSUME NEW f, f = Rec(f)
        PROVE  /\ DOMAIN f = 0 .. NumPages /\ f[0] = 0
               /\ f = [k \in 0 .. NumPages |-> f[k]]
               /\ \A k \in 1 .. NumPages : f[k] = EndOf(f[k - 1])
    <3> DEFINE e(k) == IF k = 0 THEN 0
                       ELSE IF f[k - 1] >= NumPages THEN NumPages
                       ELSE f[k - 1] + 2^InitOrder(f[k - 1])
    <3>1. f = [k \in 0 .. NumPages |-> e(k)]
      BY <2>1
    <3>2. \A k \in 1 .. NumPages : e(k) = EndOf(f[k - 1])
      BY <1>1 DEF EndOf
    <3>3. e(0) = 0
      OBVIOUS
    <3>4. \A k \in 1 .. NumPages : k \in 0 .. NumPages
      BY <1>1
    <3> HIDE DEF e
    <3> QED
      BY <1>1, <3>1, <3>2, <3>3, <3>4
  <2> HIDE DEF Rec
  <2> QED
    BY <1>7, <2>1
<1>9. \A k \in 0 .. NumPages : InitStart[k] \in X
  <2> DEFINE S == {k \in 0 .. NumPages : InitStart[k] \in X}
  <2>1. 0 \in S
    BY <1>1, <1>8
  <2>2. ASSUME NEW n \in 1 .. NumPages, n - 1 \in S
        PROVE  n \in S
    <3>1. InitStart[n - 1] \in X /\ n \in 0 .. NumPages
      BY <1>1, <2>2
    <3>2. EndOf(InitStart[n - 1]) \in X
      BY <3>1, EndOfFacts
    <3>3. InitStart[n] = EndOf(InitStart[n - 1])
      BY <1>8
    <3> QED
      BY <3>1, <3>2, <3>3
  <2> HIDE DEF S
  <2>3. \A n \in 0 .. NumPages : n \in S
    BY <1>1, <2>1, <2>2, LoopInduction
  <2> QED
    BY <2>3 DEF S
<1> QED
  BY <1>8, <1>9

\* The starts never go down, and the loop reaches the end of memory.
LEMMA InitStartGrows ==
    /\ \A j, k \in 0 .. NumPages : j <= k => InitStart[j] <= InitStart[k]
    /\ InitStart[NumPages] = NumPages
<1>1. NumPages \in Nat /\ NumPages > 0
  BY Consts
<1>2. \A k \in 0 .. NumPages : InitStart[k] \in 0 .. NumPages
  BY InitStartLoop
<1>3. ASSUME NEW k \in 1 .. NumPages
      PROVE  /\ k - 1 \in 0 .. NumPages /\ k \in 0 .. NumPages
             /\ InitStart[k - 1] <= InitStart[k]
             /\ InitStart[k - 1] < NumPages => InitStart[k - 1] < InitStart[k]
  <2>1. k - 1 \in 0 .. NumPages /\ k \in 0 .. NumPages
    BY <1>1
  <2>2. InitStart[k] = EndOf(InitStart[k - 1]) /\ InitStart[k - 1] \in 0 .. NumPages
    BY <1>2, <2>1, InitStartLoop
  <2> QED
    BY <2>1, <2>2, EndOfFacts
<1>4. ASSUME NEW j \in 0 .. NumPages, NEW k \in 0 .. NumPages, j <= k
      PROVE  InitStart[j] <= InitStart[k]
  <2> DEFINE S == {n \in 0 .. NumPages : j <= n => InitStart[j] <= InitStart[n]}
  <2>1. 0 \in S
    <3>1. ASSUME j <= 0
          PROVE  j = 0
      BY <3>1
    <3> QED
      BY <1>1, <1>2, <3>1
  <2>2. ASSUME NEW n \in 1 .. NumPages, n - 1 \in S
        PROVE  n \in S
    <3>1. /\ n \in 0 .. NumPages /\ InitStart[n - 1] <= InitStart[n] /\ n - 1 \in 0 .. NumPages
      BY <1>3
    <3>2. InitStart[n - 1] \in Nat /\ InitStart[n] \in Nat /\ InitStart[j] \in Nat
      BY <1>2, <3>1
    <3>3. CASE j = n
      BY <3>1, <3>2, <3>3
    <3>4. CASE j <= n - 1
      BY <2>2, <3>1, <3>2, <3>4
    <3>5. CASE j > n
      BY <3>1, <3>5
    <3> QED
      BY <3>3, <3>4, <3>5
  <2> HIDE DEF S
  <2>3. \A n \in 0 .. NumPages : n \in S
    BY <1>1, <2>1, <2>2, LoopInduction
  <2> QED
    BY <1>4, <2>3 DEF S
<1>5. \A k \in 0 .. NumPages : k <= InitStart[k]
  <2> DEFINE S == {n \in 0 .. NumPages : n <= InitStart[n]}
  <2>1. 0 \in S
    BY <1>1, InitStartLoop
  <2>2. ASSUME NEW n \in 1 .. NumPages, n - 1 \in S
        PROVE  n \in S
    <3>1. /\ n \in 0 .. NumPages /\ n - 1 \in 0 .. NumPages
          /\ InitStart[n - 1] <= InitStart[n]
          /\ InitStart[n - 1] < NumPages => InitStart[n - 1] < InitStart[n]
      BY <1>3
    <3>2. InitStart[n - 1] \in Nat /\ InitStart[n] \in Nat
      BY <1>2, <3>1
    <3>3. n - 1 <= InitStart[n - 1]
      BY <2>2
    <3>4. CASE InitStart[n - 1] < NumPages
      BY <3>1, <3>2, <3>3, <3>4
    <3>5. CASE InitStart[n - 1] >= NumPages
      BY <1>1, <3>1, <3>2, <3>5
    <3> QED
      BY <1>1, <3>2, <3>4, <3>5
  <2> HIDE DEF S
  <2>3. \A n \in 0 .. NumPages : n \in S
    BY <1>1, <2>1, <2>2, LoopInduction
  <2> QED
    BY <2>3 DEF S
<1>6. InitStart[NumPages] = NumPages
  <2>1. NumPages \in 0 .. NumPages
    BY <1>1
  <2> QED
    BY <1>1, <1>2, <1>5, <2>1
<1> QED
  BY <1>4, <1>6

\* The blocks that buddy_allocator_init makes.
InitBlocks == {b \in AllBlocks : b.idx \in InitHeads /\ b.order = InitOrder(b.idx)}

\* The size of the block at a head takes it to where the next one starts.
LEMMA InitRound ==
    ASSUME NEW k \in 1 .. NumPages, InitStart[k - 1] < NumPages
    PROVE  /\ InitStart[k - 1] \in Pages /\ InitStart[k - 1] \in InitHeads
           /\ InitStart[k] = InitStart[k - 1] + 2^InitOrder(InitStart[k - 1])
<1>1. NumPages \in Nat /\ k - 1 \in 0 .. NumPages
  BY Consts
<1>2. InitStart[k - 1] \in 0 .. NumPages /\ InitStart[k] = EndOf(InitStart[k - 1])
  BY <1>1, InitStartLoop
<1>3. InitStart[k - 1] \in Pages
  BY <1>1, <1>2 DEF Pages
<1>4. InitStart[k - 1] \in InitHeads
  BY <1>1, <1>3 DEF InitHeads
<1>5. ~(InitStart[k - 1] >= NumPages)
  BY <1>1, <1>2
<1> QED
  BY <1>2, <1>3, <1>4, <1>5 DEF EndOf

\* The blocks end by phys_end, do not overlap and leave no page out.
LEMMA InitBlocksRight ==
    InRange(InitBlocks) /\ Apart(InitBlocks) /\ Covers(InitBlocks)
<1>1. NumPages \in Nat /\ NumPages > 0
  BY Consts
<1>2. \A k \in 0 .. NumPages : InitStart[k] \in 0 .. NumPages
  BY InitStartLoop
<1>3. InRange(InitBlocks)
  <2> SUFFICES ASSUME NEW b \in InitBlocks
               PROVE  b.idx + 2^b.order <= NumPages
    BY DEF InRange
  <2>1. b.idx \in Pages /\ b.order = InitOrder(b.idx)
    BY DEF InitBlocks, InitHeads
  <2> QED
    BY <2>1, InitOrderFacts
<1>4. ASSUME NEW i \in InitHeads, NEW j \in InitHeads, i < j
      PROVE  i + 2^InitOrder(i) <= j
  <2> DEFINE e == i + 2^InitOrder(i)
  <2>1. PICK m \in 0 .. NumPages : i = InitStart[m]
    BY DEF InitHeads
  <2>2. PICK n \in 0 .. NumPages : j = InitStart[n]
    BY DEF InitHeads
  <2>3. i \in Nat /\ j \in Nat /\ i < NumPages /\ j < NumPages
    BY <1>1 DEF InitHeads, Pages
  <2>4. m < n
    <3>1. n <= m => InitStart[n] <= InitStart[m]
      BY InitStartGrows
    <3> QED
      BY <1>4, <2>1, <2>2, <2>3, <3>1
  <2>5. m + 1 \in 1 .. NumPages /\ m + 1 \in 0 .. NumPages /\ m + 1 <= n /\ (m + 1) - 1 = m
    BY <1>1, <2>4
  <2>6. InitStart[m + 1] = i + 2^InitOrder(i)
    BY <2>1, <2>3, <2>5, InitRound
  <2>7. InitStart[m + 1] <= InitStart[n]
    BY <2>5, InitStartGrows
  <2> QED
    BY <2>2, <2>6, <2>7
<1>5. Apart(InitBlocks)
  <2> SUFFICES ASSUME NEW b \in InitBlocks, NEW d \in InitBlocks, b # d
               PROVE  b.idx + 2^b.order <= d.idx \/ d.idx + 2^d.order <= b.idx
    BY DEF Apart
  <2>1. /\ b.idx \in InitHeads /\ d.idx \in InitHeads /\ b \in AllBlocks /\ d \in AllBlocks
        /\ b.order = InitOrder(b.idx) /\ d.order = InitOrder(d.idx)
    BY DEF InitBlocks
  <2>2. b.idx # d.idx
    BY <2>1, BlockFacts
  <2>3. b.idx \in Nat /\ d.idx \in Nat
    BY <2>1, Consts DEF InitHeads, Pages
  <2>4. b.idx < d.idx \/ d.idx < b.idx
    BY <2>2, <2>3
  <2> QED
    BY <1>4, <2>1, <2>4
<1>6. Covers(InitBlocks)
  <2> SUFFICES ASSUME NEW p \in Pages
               PROVE  \E b \in InitBlocks : b.idx <= p /\ p < b.idx + 2^b.order
    BY DEF Covers
  <2> DEFINE T == {k \in 0 .. NumPages : InitStart[k] > p}
  <2>1. p \in Nat /\ p < NumPages
    BY <1>1 DEF Pages
  <2>2. NumPages \in T
    BY <1>1, <2>1, InitStartGrows
  <2>3. T \in SUBSET Nat
    OBVIOUS
  <2>4. PICK k \in T : \A y \in T : k <= y
    BY <2>2, <2>3, LeastNat
  <2>5. k \in 0 .. NumPages /\ InitStart[k] > p
    OBVIOUS
  <2>6. k # 0
    <3>1. InitStart[0] = 0
      BY InitStartLoop
    <3> QED
      BY <2>1, <2>5, <3>1
  <2>7. k \in 1 .. NumPages /\ k - 1 \in 0 .. NumPages /\ ~(k <= k - 1)
    <3> HIDE DEF T
    <3> QED
      BY <1>1, <2>5, <2>6
  <2>8. k - 1 \notin T
    BY <2>4, <2>7
  <2>9. InitStart[k - 1] <= p /\ InitStart[k - 1] < NumPages
    BY <1>1, <1>2, <2>1, <2>7, <2>8
  <2> DEFINE i == InitStart[k - 1]
             b == Block(i, InitOrder(i))
  <2>10. i \in Pages /\ i \in InitHeads /\ InitStart[k] = i + 2^InitOrder(i)
    BY <2>7, <2>9, InitRound
  <2>11. InitOrder(i) \in Orders
    BY <2>10, InitOrderFacts
  <2>12. b \in AllBlocks /\ b.idx = i /\ b.order = InitOrder(i)
    BY <2>10, <2>11, MakeBlock DEF Block
  <2>13. b \in InitBlocks
    BY <2>10, <2>12 DEF InitBlocks
  <2> HIDE DEF b, i
  <2> QED
    BY <2>5, <2>9, <2>10, <2>12, <2>13 DEF i
<1> QED
  BY <1>3, <1>5, <1>6

\* The list of one order after the loop: the pages of S, each of them once.
LEMMA DescendingList ==
    ASSUME NEW S \in SUBSET Pages
    PROVE  /\ Descending(S) \in Seq(Pages) /\ Once(Descending(S))
           /\ \A x : Has(Descending(S), x) <=> x \in S
<1> DEFINE X == Seq(Pages)
           s == [n \in 1 .. NumPages |-> [q \in X |-> IF n - 1 \in S THEN Pushed(q, n - 1) ELSE q]]
           Rec(f) == [n \in 0 .. NumPages |->
                        IF n = 0 THEN <<>>
                        ELSE IF n - 1 \in S THEN <<n - 1>> \o f[n - 1] ELSE f[n - 1]]
           F == CHOOSE f : f = Rec(f)
<1>1. NumPages \in Nat /\ <<>> \in X
  BY Consts
<1>2. /\ s \in [1 .. NumPages -> [X -> X]]
      /\ \A n \in 1 .. NumPages : \A q \in X :
            s[n][q] = IF n - 1 \in S THEN Pushed(q, n - 1) ELSE q
  <2>1. ASSUME NEW n \in 1 .. NumPages, NEW q \in X
        PROVE  (IF n - 1 \in S THEN Pushed(q, n - 1) ELSE q) \in X
    <3>1. CASE n - 1 \in S
      <4>1. n - 1 \in Pages
        BY <3>1
      <4> QED
        BY <3>1, <4>1, PushedList
    <3>2. CASE n - 1 \notin S
      BY <3>2
    <3> QED
      BY <3>1, <3>2
  <2> HIDE DEF X
  <2> QED
    BY <2>1
<1> HIDE DEF s
<1>3. PICK g : g \in [0 .. NumPages -> X] /\ g[0] = <<>>
               /\ \A n \in 1 .. NumPages : g[n] = s[n][g[n - 1]]
  <2> HIDE DEF X
  <2>1. \E g : IsHistory(g, NumPages, X, <<>>, s)
    BY <1>1, <1>2, LoopHistory
  <2> QED
    BY <2>1 DEF IsHistory
<1>4. \A n \in 1 .. NumPages : g[n] = IF n - 1 \in S THEN <<n - 1>> \o g[n - 1] ELSE g[n - 1]
  <2> TAKE n \in 1 .. NumPages
  <2>1. n - 1 \in 0 .. NumPages
    BY <1>1
  <2>2. g[n - 1] \in X
    BY <1>3, <2>1
  <2> HIDE DEF X
  <2> QED
    BY <1>2, <1>3, <2>2 DEF Pushed
<1>5. g = Rec(g)
  <2> DEFINE e(n) == IF n = 0 THEN <<>>
                     ELSE IF n - 1 \in S THEN <<n - 1>> \o g[n - 1] ELSE g[n - 1]
  <2>1. ASSUME NEW n \in 0 .. NumPages
        PROVE  g[n] = e(n)
    <3>1. CASE n = 0
      BY <1>3, <3>1
    <3>2. CASE n # 0
      <4>1. n \in 1 .. NumPages
        BY <1>1, <3>2
      <4> QED
        BY <1>4, <3>2, <4>1
    <3> QED
      BY <3>1, <3>2
  <2>2. g = [n \in 0 .. NumPages |-> g[n]]
    BY <1>3
  <2>3. Rec(g) = [n \in 0 .. NumPages |-> e(n)]
    OBVIOUS
  <2> HIDE DEF Rec, e
  <2> QED
    BY <2>1, <2>2, <2>3
<1>6. F = Rec(F)
  <2> HIDE DEF Rec
  <2> QED
    BY <1>5
<1>7. Descending(S) = F[NumPages]
  BY DEF Descending
<1> HIDE DEF F
<1>8. /\ F[0] = <<>>
      /\ \A n \in 1 .. NumPages : F[n] = IF n - 1 \in S THEN Pushed(F[n - 1], n - 1) ELSE F[n - 1]
  <2> DEFINE e(n) == IF n = 0 THEN <<>>
                     ELSE IF n - 1 \in S THEN <<n - 1>> \o F[n - 1] ELSE F[n - 1]
  <2>1. F = [n \in 0 .. NumPages |-> e(n)]
    BY <1>6
  <2>2. e(0) = <<>>
    OBVIOUS
  <2>3. \A n \in 1 .. NumPages :
           e(n) = IF n - 1 \in S THEN Pushed(F[n - 1], n - 1) ELSE F[n - 1]
    BY DEF Pushed
  <2>4. 0 \in 0 .. NumPages /\ \A n \in 1 .. NumPages : n \in 0 .. NumPages
    BY <1>1
  <2> HIDE DEF e
  <2> QED
    BY <2>1, <2>2, <2>3, <2>4
<1> DEFINE Good(n) == /\ F[n] \in Seq(Pages) /\ Once(F[n])
                      /\ \A x : Has(F[n], x) <=> x \in S /\ x < n
           N == {n \in 0 .. NumPages : Good(n)}
<1>9. 0 \in N
  <2>1. \A x \in S : x \in Nat /\ ~(x < 0)
    BY <1>1 DEF Pages
  <2>2. F[0] \in Seq(Pages) /\ Len(F[0]) = 0 /\ 1 .. 0 = {}
    BY <1>8
  <2>3. Once(F[0]) /\ \A x : ~Has(F[0], x)
    BY <2>2 DEF Once, Has
  <2> QED
    BY <1>1, <2>1, <2>2, <2>3
<1>10. ASSUME NEW n \in 1 .. NumPages, n - 1 \in N
       PROVE  n \in N
  <2>1. Good(n - 1) /\ n \in 0 .. NumPages
    BY <1>1, <1>10
  <2>2. \A x \in S : x \in Nat
    BY <1>1 DEF Pages
  <2>3. CASE n - 1 \notin S
    <3>1. F[n] = F[n - 1]
      BY <1>8, <2>3
    <3>2. \A x \in S : x < n <=> x < n - 1
      BY <2>2, <2>3
    <3> QED
      BY <2>1, <3>1, <3>2
  <2>4. CASE n - 1 \in S
    <3>1. F[n] = Pushed(F[n - 1], n - 1) /\ n - 1 \in Pages
      BY <1>8, <2>4
    <3>2. \A x \in S : x < n <=> x < n - 1 \/ x = n - 1
      BY <2>2
    <3>3. ~Has(F[n - 1], n - 1)
      BY <2>1
    <3>4. /\ F[n] \in Seq(Pages) /\ Once(F[n])
          /\ \A y : Has(F[n], y) <=> y = n - 1 \/ Has(F[n - 1], y)
      BY <2>1, <3>1, <3>3, PushedList
    <3> QED
      BY <2>1, <2>4, <3>2, <3>4
  <2> QED
    BY <2>3, <2>4
<1>11. NumPages \in N
  <2> HIDE DEF N
  <2>1. \A n \in 0 .. NumPages : n \in N
    BY <1>1, <1>9, <1>10, LoopInduction
  <2>2. NumPages \in 0 .. NumPages
    BY <1>1
  <2> QED
    BY <2>1, <2>2
<1>12. \A x \in S : x < NumPages
  BY <1>1 DEF Pages
<1> QED
  BY <1>7, <1>11, <1>12

\* The lists of the initial states, and the blocks in them.
LEMMA InitialBlocks ==
    ASSUME Init
    PROVE  /\ \A o \in Orders : free_lists[o] \in Seq(Pages) /\ Once(free_lists[o])
           /\ Listed = InitBlocks /\ InHand = {} /\ Held = InitBlocks
<1>1. /\ free_lists = [o \in Orders |-> Descending({i \in InitHeads : InitOrder(i) = o})]
      /\ owned = {} /\ pc = [c \in Callers |-> "out"]
  BY DEF Init
<1>2. InitHeads \subseteq Pages
  BY DEF InitHeads
<1>3. ASSUME NEW o \in Orders
      PROVE  /\ free_lists[o] \in Seq(Pages) /\ Once(free_lists[o])
             /\ \A x : Has(free_lists[o], x) <=> x \in InitHeads /\ InitOrder(x) = o
  <2> DEFINE S == {i \in InitHeads : InitOrder(i) = o}
  <2>1. S \in SUBSET Pages /\ free_lists[o] = Descending(S)
    BY <1>1, <1>2
  <2>2. \A x : x \in S <=> x \in InitHeads /\ InitOrder(x) = o
    OBVIOUS
  <2> HIDE DEF S
  <2> QED
    BY <2>1, <2>2, DescendingList
<1>4. Listed = InitBlocks
  <2>1. ASSUME NEW b \in AllBlocks
        PROVE  b \in Listed <=> b \in InitBlocks
    <3>1. b.order \in Orders
      BY BlockFacts
    <3>2. Has(free_lists[b.order], b.idx) <=> b.idx \in InitHeads /\ InitOrder(b.idx) = b.order
      BY <1>3, <3>1
    <3> QED
      BY <3>2, ListedIs DEF ListedIn, InitBlocks
  <2> QED
    BY <2>1 DEF Listed, InitBlocks
<1>5. InHand = {}
  BY <1>1 DEF InHand, Works
<1>6. Held = InitBlocks
  BY <1>1, <1>4, <1>5 DEF Held
<1> QED
  BY <1>3, <1>4, <1>5, <1>6

\* The initial states: all memory is free, in blocks that are listed once.
LEMMA InitIInv == Init => IInv
<1> SUFFICES ASSUME Init
             PROVE  IInv
  OBVIOUS
<1>1. /\ order = [i \in Pages |-> IF i \in InitHeads THEN InitOrder(i) ELSE 0]
      /\ is_free = [i \in Pages |-> i \in InitHeads]
      /\ free_lists = [o \in Orders |-> Descending({i \in InitHeads : InitOrder(i) = o})]
      /\ buddy_lock = NoCaller /\ owned = {} /\ freed = {} /\ va_offset = FALSE
      /\ pc = [c \in Callers |-> "out"] /\ arg = [c \in Callers |-> 0]
      /\ block = [c \in Callers |-> 0] /\ curr = [c \in Callers |-> 0]
  BY DEF Init
<1>2. 0 \in Orders /\ 0 \in Pages /\ InitHeads \subseteq Pages
  BY Consts DEF Orders, Pages, InitHeads
<1>3. \A i \in InitHeads : InitOrder(i) \in Orders
  BY <1>2, InitOrderFacts
<1>4. /\ \A o \in Orders : free_lists[o] \in Seq(Pages) /\ Once(free_lists[o])
      /\ Listed = InitBlocks /\ InHand = {} /\ Held = InitBlocks
  BY InitialBlocks
<1>5. TypeOK
  <2>1. order \in [Pages -> Orders] /\ is_free \in [Pages -> BOOLEAN]
    BY <1>1, <1>2, <1>3
  <2>2. free_lists \in [Orders -> Seq(Pages)]
    BY <1>1, <1>4
  <2>3. pc \in [Callers -> PCs]
    BY <1>1 DEF PCs
  <2> QED
    BY <1>1, <1>2, <2>1, <2>2, <2>3 DEF TypeOK
<1>6. \A c \in Callers : pc[c] = "out" /\ buddy_lock # c
  BY <1>1, Consts
<1>7. OnePlace
  BY <1>1, <1>4 DEF OnePlace, Once
<1>8. FlagsOK
  BY <1>1, <1>2, <1>4 DEF FlagsOK, InitBlocks
<1>9. \A c \in Callers : CallerOK(c)
  BY <1>6 DEF CallerOK
<1>10. StaleOK(InitBlocks, is_free, order)
  <2> SUFFICES ASSUME NEW d \in InitBlocks, NEW p \in Pages, d.idx < p, p < d.idx + 2^d.order,
                      is_free[p]
               PROVE  FALSE
    BY DEF StaleOK
  <2>1. p \in InitHeads
    BY <1>1
  <2> DEFINE e == Block(p, InitOrder(p))
  <2>2. e \in InitBlocks /\ e.idx = p /\ e.order \in Orders /\ e # d
    <3>1. e \in AllBlocks /\ e.idx = p /\ e.order = InitOrder(p)
      BY <1>3, <2>1, MakeBlock
    <3>2. d \in AllBlocks
      BY DEF InitBlocks
    <3>3. d.idx \in Nat /\ p \in Nat
      BY <3>1, <3>2, BlockFacts
    <3> QED
      BY <1>3, <2>1, <3>1, <3>3 DEF InitBlocks
  <2> HIDE DEF e
  <2>3. d.idx + 2^d.order <= p \/ p + 2^e.order <= d.idx
    BY <2>2, InitBlocksRight DEF Apart
  <2>4. d.idx \in Nat /\ 2^d.order \in Nat /\ p \in Nat /\ 2^e.order \in Nat
    BY <2>2, BlockFacts DEF InitBlocks
  <2> QED
    BY <2>3, <2>4
<1> QED
  BY <1>4, <1>5, <1>7, <1>8, <1>9, <1>10, InitBlocksRight DEF IInv

------------------------------------------------------------------------------
(* The theorems, for any number of pages and orders, and for every Base.   *)
(* A page that a caller frees twice is page 0 only: a merge leaves the     *)
(* flag of any other page behind, and the second call may then trust it.   *)

\* The invariant is inductive: one case for each action.
LEMMA NextIInv ==
    ASSUME RepeatedFrees \subseteq {0}, IInv, [Next]_vars
    PROVE  IInv'
<1>1. CASE UNCHANGED vars
  BY <1>1, StutterIInv
<1>2. CASE EnterSMode
  BY <1>2, EnterSModeIInv
<1>3. ASSUME NEW c \in Callers, Call(c)
      PROVE  IInv'
  BY <1>3, CallAllocIInv, CallFreeIInv, CallFreeAgainIInv DEF Call
<1>4. ASSUME NEW c \in Callers, AllocPop(c) \/ AllocFails(c) \/ AllocSplit(c) \/ AllocUnlock(c)
      PROVE  IInv'
  BY <1>4, AllocPopIInv, AllocFailsIInv, AllocSplitIInv, AllocUnlockIInv
<1>5. ASSUME NEW c \in Callers,
             \/ AllocReturn(c) \/ AllocFaults(c) \/ FreeFaults(c) \/ FreeIgnored(c) \/ FreeInvalidIdx(c)
      PROVE  IInv'
  BY <1>5, AllocEndsIInv, HaltIInv, FreeIgnoredIInv
<1>6. ASSUME NEW c \in Callers, FreeBegin(c) \/ FreeMerge(c) \/ FreeUnlock(c)
      PROVE  IInv'
  BY <1>6, FreeBeginIInv, FreeMergeIInv, FreeUnlockIInv
<1> QED
  BY <1>1, <1>2, <1>3, <1>4, <1>5, <1>6 DEF Next, Step

\* Every round of the split loop of alloc_pages and of the merge loop of
\* free_pages keeps the allocator's books: the blocks in the lists, in use and
\* in a caller's hand do not overlap and leave no page out, and the flags left
\* inside them are harmless.
THEOREM Invariance ==
    ASSUME RepeatedFrees \subseteq {0}
    PROVE  Spec => []IInv
<1>1. Init => IInv
  BY InitIInv
<1>2. IInv /\ [Next]_vars => IInv'
  BY NextIInv
<1> QED
  BY <1>1, <1>2, PTL DEF Spec

\* Blocks that are apart have no page in common.
LEMMA ApartPages ==
    ASSUME NEW b \in AllBlocks, NEW d \in AllBlocks,
           b.idx + 2^b.order <= d.idx \/ d.idx + 2^d.order <= b.idx
    PROVE  PagesOf(b) \cap PagesOf(d) = {}
<1>1. /\ b.idx \in Nat /\ d.idx \in Nat /\ 2^b.order \in Nat /\ 2^d.order \in Nat
  BY BlockFacts
<1> SUFFICES ASSUME NEW p \in PagesOf(b), p \in PagesOf(d)
             PROVE  FALSE
  OBVIOUS
<1>2. /\ p \in Int /\ b.idx <= p /\ p <= b.idx + 2^b.order - 1
      /\ d.idx <= p /\ p <= d.idx + 2^d.order - 1
  BY <1>1 DEF PagesOf
<1> QED
  BY <1>1, <1>2

\* The variables of the allocator keep their types: no index that alloc_pages
\* or free_pages computes leaves page_array, no order leaves free_lists.
THEOREM TypeCorrect ==
    ASSUME RepeatedFrees \subseteq {0}
    PROVE  Spec => []TypeOK
<1>1. IInv => TypeOK
  BY DEF IInv
<1> QED
  BY <1>1, Invariance, PTL

\* No page is handed out twice, is free and in use at once, or is in two free
\* blocks, also while alloc_pages is splitting or free_pages is merging.
THEOREM BlocksAreDisjoint ==
    ASSUME RepeatedFrees \subseteq {0}
    PROVE  Spec => []Disjoint
<1>1. ASSUME IInv
      PROVE  Disjoint
  <2>1. /\ Apart(Held) /\ Listed \cup owned \subseteq Held /\ Held \in SUBSET AllBlocks
    BY <1>1, HeldFacts DEF IInv
  <2>2. ASSUME NEW b \in Listed \cup owned, NEW d \in Listed \cup owned, b # d
        PROVE  PagesOf(b) \cap PagesOf(d) = {}
    <3>1. /\ b \in AllBlocks /\ d \in AllBlocks
          /\ b.idx + 2^b.order <= d.idx \/ d.idx + 2^d.order <= b.idx
      BY <2>1, <2>2 DEF Apart
    <3> QED
      BY <3>1, ApartPages
  <2> QED
    BY <1>1, <2>2 DEF Disjoint, IInv, OnePlace
<1> QED
  BY <1>1, Invariance, PTL

\* Whenever buddy_lock is free the lists and the blocks in use have every page.
THEOREM NothingLeaks ==
    ASSUME RepeatedFrees \subseteq {0}
    PROVE  Spec => []NoLeak
<1>1. ASSUME IInv
      PROVE  NoLeak
  <2> SUFFICES ASSUME buddy_lock = NoCaller
               PROVE  UNION {PagesOf(b) : b \in Listed \cup owned} = Pages
    BY DEF NoLeak
  <2>1. TypeOK /\ InRange(Held) /\ Held \in SUBSET AllBlocks
    BY <1>1, HeldFacts DEF IInv
  <2>2. \A c \in Callers : buddy_lock # c
    BY Consts
  <2>3. InHand = {}
    BY <1>1, <2>2 DEF InHand, Works, IInv, CallerOK
  <2>4. Covers(Held)
    BY <1>1, <2>2 DEF IInv, HaltedInside
  <2>5. Held = Listed \cup owned
    BY <2>3 DEF Held
  <2>6. ASSUME NEW p \in Pages
        PROVE  \E b \in Held : p \in PagesOf(b)
    <3>1. PICK b \in Held : b.idx <= p /\ p < b.idx + 2^b.order
      BY <2>4 DEF Covers
    <3>2. b.idx \in Nat /\ 2^b.order \in Nat /\ p \in Int
      BY <2>1, BlockFacts, Consts DEF Pages
    <3>3. p \in PagesOf(b)
      BY <3>1, <3>2 DEF PagesOf
    <3> QED
      BY <3>3
  <2>7. ASSUME NEW b \in Held, NEW p \in PagesOf(b)
        PROVE  p \in Pages
    <3>1. b.idx \in Nat /\ 2^b.order \in Nat /\ b.idx + 2^b.order <= NumPages /\ NumPages \in Nat
      BY <2>1, BlockFacts, Consts DEF InRange
    <3>2. p \in Int /\ b.idx <= p /\ p <= b.idx + 2^b.order - 1
      BY <3>1 DEF PagesOf
    <3> QED
      BY <3>1, <3>2 DEF Pages
  <2> QED
    BY <2>5, <2>6, <2>7
<1> QED
  BY <1>1, Invariance, PTL

\* The flag and the order at the first page of every block, which free_pages
\* trusts, are right.
THEOREM FlagsAreRight ==
    ASSUME RepeatedFrees \subseteq {0}
    PROVE  Spec => []FlagsOK
<1>1. IInv => FlagsOK
  BY DEF IInv
<1> QED
  BY <1>1, Invariance, PTL

\* The allocator implements PageAlloc: alloc_pages takes effect when it drops
\* buddy_lock, and hands out pages of which none is in use; free_pages takes
\* effect when it gets the lock.
THEOREM BuddyImplementsPageAlloc ==
    ASSUME RepeatedFrees \subseteq {0}
    PROVE  Spec => ImplementsPageAlloc
<1>1. Init => A!Init
  BY DEF Init, A!Init
<1>2. ASSUME IInv, IInv', [Next]_vars
      PROVE  [A!Next]_owned
  <2> USE <1>2
  <2>0. A!Blocks = AllBlocks /\ \A b : A!PagesOf(b) = PagesOf(b)
    BY DEF A!Blocks, AllBlocks, Pages, Orders, A!PagesOf, PagesOf
  <2>1. ASSUME NEW c \in Callers, AllocUnlock(c)
        PROVE  A!Next
    <3> DEFINE b == Block(block[c], arg[c])
    <3>1. /\ owned' = owned \cup {b} /\ b \in AllBlocks /\ b \in InHand
      <4>1. owned' = owned \cup {b} /\ pc[c] = "split" /\ curr[c] = arg[c]
        BY <2>1 DEF AllocUnlock
      <4>2. b \in AllBlocks
        BY MakeBlock DEF IInv, TypeOK
      <4>3. Works(c, b)
        BY <4>1 DEF Works
      <4> QED
        BY <4>1, <4>2, <4>3 DEF InHand
    <3> HIDE DEF b
    <3>2. /\ b \in Held /\ InRange(Held) /\ Apart(Held) /\ b \notin owned
          /\ owned \subseteq Held /\ owned \subseteq AllBlocks
      BY <3>1 DEF Held, IInv, OnePlace, TypeOK
    <3>3. PagesOf(b) \subseteq 0 .. NumPages - 1
      <4>1. b.idx \in Nat /\ 2^b.order \in Nat /\ b.idx + 2^b.order <= NumPages /\ NumPages \in Nat
        BY <3>1, <3>2, BlockFacts, Consts DEF InRange
      <4> QED
        BY <4>1 DEF PagesOf
    <3>4. ASSUME NEW u \in owned
          PROVE  PagesOf(u) \cap PagesOf(b) = {}
      <4>1. u \in AllBlocks /\ (u.idx + 2^u.order <= b.idx \/ b.idx + 2^b.order <= u.idx)
        BY <3>2 DEF Apart
      <4> QED
        BY <3>1, <4>1, ApartPages
    <3>5. A!Alloc(b)
      BY <2>0, <3>1, <3>3, <3>4 DEF A!Alloc
    <3> QED
      BY <2>0, <3>1, <3>5 DEF A!Next
  <2>2. ASSUME NEW c \in Callers, NEW b \in owned, CallFree(c, b)
        PROVE  A!Next
    <3>1. b \in AllBlocks
      BY DEF IInv, TypeOK
    <3>2. A!Free(b)
      BY <2>2 DEF CallFree, A!Free
    <3> QED
      BY <2>0, <3>1, <3>2 DEF A!Next
  <2>3. ASSUME Next
        PROVE  \/ UNCHANGED owned
               \/ \E c \in Callers : AllocUnlock(c)
               \/ \E c \in Callers : \E b \in owned : CallFree(c, b)
    BY <2>3 DEF Next, Call, Step, EnterSMode, CallAlloc, CallFreeAgain, AllocPop, AllocFails,
                AllocSplit, AllocReturn, AllocFaults, FreeFaults, FreeIgnored, FreeBegin,
                FreeMerge, FreeInvalidIdx, FreeUnlock
  <2> QED
    BY <2>1, <2>2, <2>3 DEF vars
<1> QED
  BY <1>1, <1>2, Invariance, PTL DEF Spec, ImplementsPageAlloc, A!Spec

------------------------------------------------------------------------------
(* When Base is aligned to the largest block, the blocks lie on the grid   *)
(* of their sizes, and a block's buddy by its index is inside memory.      *)

OnGrid == \A b \in Held : b.idx % 2^b.order = 0

\* A multiple of a block's size is a multiple of the smaller sizes.
LEMMA CoarserGrid ==
    ASSUME NEW a \in Exps, NEW k \in Exps, a <= k, NEW r \in Nat, r % 2^k = 0
    PROVE  r % 2^a = 0
<1>1. 2^a \in Nat /\ 2^a > 0 /\ 2^k \in Nat /\ 2^k > 0
  BY PowType
<1>2. PICK m \in Nat : r = m * 2^k
  BY <1>1, ModMultiple
<1>3. PICK q \in Nat : q > 0 /\ 2^k = q * 2^a
  BY PowDivides
<1>4. r = (m * q) * 2^a /\ m * q \in Nat
  BY <1>1, <1>2, <1>3
<1> QED
  BY <1>1, <1>4, ModMultiple

\* The lower of two halves has the even number.
LEMMA EvenHalf ==
    ASSUME NEW i \in Nat, NEW o \in Orders
    PROVE  i % 2^(o + 1) = 0 <=> i % 2^o = 0 /\ (i \div 2^o) % 2 = 0
<1>1. /\ 2^o \in Nat /\ 2^o > 0 /\ 2^(o + 1) \in Nat /\ 2^(o + 1) > 0
      /\ o \in Exps /\ o + 1 \in Exps /\ 2^(o + 1) = 2 * 2^o
  BY PowType, OrdersAreExps, PowersOfTwo DEF Orders
<1>2. ASSUME i % 2^(o + 1) = 0
      PROVE  i % 2^o = 0 /\ (i \div 2^o) % 2 = 0
  <2>1. PICK m \in Nat : i = m * 2^(o + 1)
    BY <1>1, <1>2, ModMultiple
  <2> DEFINE w == 2^o
  <2>2. i = (2 * m) * w /\ 2 * m \in Nat /\ w \in Nat /\ w > 0
    BY <1>1, <2>1
  <2> HIDE DEF w
  <2>3. i % w = 0
    BY <2>2, ModMultiple
  <2>4. i \div w = 2 * m
    BY <2>2
  <2>5. (2 * m) % 2 = 0
    OBVIOUS
  <2> QED
    BY <2>3, <2>4, <2>5 DEF w
<1>3. ASSUME i % 2^o = 0, (i \div 2^o) % 2 = 0
      PROVE  i % 2^(o + 1) = 0
  <2>1. PICK q \in Nat : i = q * 2^o
    BY <1>1, <1>3, ModMultiple
  <2>2. q % 2 = 0
    <3> DEFINE w == 2^o
    <3>1. w \in Nat /\ w > 0 /\ i = q * w
      BY <1>1, <2>1
    <3> HIDE DEF w
    <3>2. i \div w = q
      BY <3>1
    <3> QED
      BY <1>3, <3>2 DEF w
  <2>3. PICK m \in Nat : q = 2 * m
    BY <2>2
  <2>4. i = m * 2^(o + 1)
    BY <1>1, <2>1, <2>3
  <2> QED
    BY <1>1, <2>4, ModMultiple
<1> QED
  BY <1>2, <1>3

\* buddy_of is its own inverse.
LEMMA BuddyBack ==
    ASSUME NEW i \in Nat, NEW o \in Orders
    PROVE  /\ BuddyOf(i, o) \in Nat /\ BuddyOf(i, o) # i
           /\ BuddyOf(BuddyOf(i, o), o) = i
<1>1. 2^o \in Nat /\ 2^o > 0
  BY PowType, OrdersAreExps
<1>2. CASE BuddyOf(i, o) = i + 2^o /\ (i \div 2^o) % 2 = 0
  <2> DEFINE w == 2^o
             q == i \div w
  <2>1. q \in Nat /\ q % 2 = 0 /\ w \in Nat /\ w > 0
    BY <1>1, <1>2
  <2>2. (i + w) \div w = q + 1
    BY <2>1
  <2>3. (q + 1) % 2 = 1
    <3> HIDE DEF q
    <3> QED
      BY <2>1
  <2>4. BuddyOf(i + w, o) = (i + w) - w
    BY <2>2, <2>3 DEF BuddyOf
  <2> QED
    BY <1>1, <1>2, <2>4
<1>3. CASE BuddyOf(i, o) = i - 2^o /\ i >= 2^o /\ ((i - 2^o) \div 2^o) % 2 = 0
  <2>1. BuddyOf(i - 2^o, o) = (i - 2^o) + 2^o
    BY <1>3 DEF BuddyOf
  <2> QED
    BY <1>1, <1>3, <2>1
<1> QED
  BY <1>2, <1>3, BuddySide

\* The buddy of a block on the grid is inside memory.
LEMMA BuddyInside ==
    ASSUME Base % 2^MaxOrder = 0, NEW i \in Nat, NEW o \in Orders, o < MaxOrder,
           i % 2^o = 0, i + 2^o <= NumPages
    PROVE  BuddyOf(i, o) < NumPages
<1>1. /\ 2^o \in Nat /\ 2^o > 0 /\ 2^(o + 1) \in Nat /\ 2^(o + 1) > 0 /\ NumPages \in Nat
      /\ o \in Exps /\ o + 1 \in Exps /\ 2^(o + 1) = 2 * 2^o
      /\ MaxOrder \in Nat /\ MaxOrder \in Exps /\ o + 1 <= MaxOrder /\ Base \in Nat
      /\ 2^MaxOrder \in Nat /\ 2^MaxOrder > 0
  <2>1. MaxOrder \in Nat /\ MaxOrder \in Orders /\ NumPages \in Nat /\ Base \in Nat
    BY BuddyAssumption DEF Orders
  <2>2. o + 1 <= MaxOrder
    BY <2>1, OrdersAreExps
  <2> QED
    BY <2>1, <2>2, PowType, OrdersAreExps, PowersOfTwo DEF Orders
<1>2. CASE BuddyOf(i, o) = i - 2^o
  BY <1>1, <1>2
<1>3. CASE BuddyOf(i, o) = i + 2^o /\ (i \div 2^o) % 2 = 0
  <2>1. i % 2^(o + 1) = 0
    BY <1>3, EvenHalf
  <2>2. PICK n \in Nat : i = n * 2^(o + 1)
    BY <1>1, <2>1, ModMultiple
  <2>3. Base % 2^(o + 1) = 0 /\ (Base + NumPages) % 2^(o + 1) = 0
    <3>1. (Base + NumPages) % 2^MaxOrder = 0 /\ Base + NumPages \in Nat
      BY BuddyAssumption
    <3> QED
      BY <1>1, <3>1, CoarserGrid
  <2>4. PICK x \in Nat : Base = x * 2^(o + 1)
    BY <1>1, <2>3, ModMultiple
  <2>5. PICK y \in Nat : Base + NumPages = y * 2^(o + 1)
    <3>1. Base + NumPages \in Nat
      BY <1>1
    <3> QED
      BY <1>1, <2>3, <3>1, ModMultiple
  <2> DEFINE w == 2^(o + 1)
  <2>6. w \in Nat /\ w > 0 /\ w = 2 * 2^o
    BY <1>1
  <2>7. NumPages = (y - x) * w
    BY <1>1, <2>4, <2>5
  <2>8. n * w < (y - x) * w
    BY <1>1, <2>2, <2>7
  <2> HIDE DEF w
  <2>9. n < y - x
    BY <2>6, <2>8
  <2>10. n * w + w <= (y - x) * w
    BY <2>6, <2>9
  <2>11. i + w <= NumPages
    BY <2>2, <2>7, <2>10 DEF w
  <2> QED
    BY <1>1, <1>3, <2>6, <2>11
<1> QED
  BY <1>2, <1>3, BuddySide

\* Every step is calm, a round of one of the loops, or the end of free_pages.
LEMMA StepKinds ==
    ASSUME RepeatedFrees \subseteq {0}, IInv, [Next]_vars
    PROVE  \/ Calm
           \/ \E c \in Callers : AllocSplit(c) \/ FreeMerge(c) \/ FreeUnlock(c)
<1>1. CASE UNCHANGED vars
  BY <1>1, StutterIInv
<1>2. CASE EnterSMode
  BY <1>2, EnterSModeIInv
<1>3. ASSUME NEW c \in Callers, Call(c)
      PROVE  Calm
  BY <1>3, CallAllocIInv, CallFreeIInv, CallFreeAgainIInv DEF Call
<1>4. ASSUME NEW c \in Callers, AllocPop(c) \/ AllocFails(c) \/ AllocUnlock(c) \/ FreeBegin(c)
      PROVE  Calm
  BY <1>4, AllocPopIInv, AllocFailsIInv, AllocUnlockIInv, FreeBeginIInv
<1>5. ASSUME NEW c \in Callers,
             \/ AllocReturn(c) \/ AllocFaults(c) \/ FreeFaults(c) \/ FreeIgnored(c) \/ FreeInvalidIdx(c)
      PROVE  Calm
  BY <1>5, AllocEndsIInv, HaltIInv, FreeIgnoredIInv
<1> QED
  BY <1>1, <1>2, <1>3, <1>4, <1>5 DEF Next, Step

\* Blocks stay aligned to their size.
LEMMA OnGridStep ==
    ASSUME RepeatedFrees \subseteq {0}, IInv, OnGrid, [Next]_vars
    PROVE  OnGrid'
<1>0. Held \in SUBSET AllBlocks
  BY HeldFacts DEF IInv
<1>1. CASE Held' \subseteq Held
  BY <1>1 DEF OnGrid
<1>2. ASSUME NEW c \in Callers, AllocSplit(c)
      PROVE  OnGrid'
  <2> DEFINE i == block[c]
             k == curr[c]
             o == k - 1
  <2>1. /\ Whole(i, k) \in Held /\ k > 0
        /\ Held' = (Held \ {Whole(i, k)}) \cup {Lower(i, k), Upper(i, k)}
    BY <1>2, AllocSplitIInv
  <2>2. i \in Nat /\ i \in Pages /\ k \in Orders /\ k \in Nat
    <3>1. i \in Pages /\ k \in Orders
      BY DEF IInv, TypeOK
    <3> QED
      BY <3>1, OrdersAreExps DEF Pages
  <2> HIDE DEF i, k
  <2>3. o \in Orders /\ o + 1 = k /\ 2^o \in Nat /\ 2^o > 0 /\ o \in Exps /\ o \in Nat
    <3>1. o \in Orders /\ o + 1 = k
      BY <2>1, <2>2, Consts DEF Orders
    <3> QED
      BY <3>1, OrdersAreExps, PowType
  <2>4. i % 2^k = 0
    BY <2>1, <2>2, MakeBlock DEF OnGrid, Whole
  <2>5. i % 2^o = 0
    BY <2>2, <2>3, <2>4, EvenHalf
  <2>6. (i + 2^o) % 2^o = 0
    <3> HIDE DEF o
    <3>1. o <= o
      BY <2>3
    <3> QED
      BY <2>2, <2>3, <2>5, <3>1, ShiftMultiple
  <2>7. /\ Lower(i, k).idx = i /\ Lower(i, k).order = o
        /\ Upper(i, k).idx = i + 2^o /\ Upper(i, k).order = o
    BY DEF Lower, Upper, Block
  <2> HIDE DEF o
  <2> QED
    BY <2>1, <2>5, <2>6, <2>7 DEF OnGrid
<1>3. ASSUME NEW c \in Callers, FreeMerge(c)
      PROVE  OnGrid'
  <2> DEFINE o == arg[c]
  <2>1. PICK l \in Pages :
          /\ Held' \subseteq Held \cup {Whole(l, o + 1)} /\ Lower(l, o + 1) \in Held
          /\ o + 1 \in Orders /\ (l \div 2^o) % 2 = 0
    BY <1>3, FreeMergeIInv
  <2>2. o \in Orders /\ l \in Nat /\ (o + 1) - 1 = o
    <3>1. o \in Orders
      BY DEF IInv, TypeOK
    <3> QED
      BY <3>1, OrdersAreExps DEF Pages
  <2> HIDE DEF o
  <2>3. l % 2^o = 0
    <3>1. Lower(l, o + 1).idx = l /\ Lower(l, o + 1).order = o
      BY <2>2 DEF Lower, Block
    <3> QED
      BY <2>1, <3>1 DEF OnGrid
  <2>4. l % 2^(o + 1) = 0
    BY <2>1, <2>2, <2>3, EvenHalf
  <2>5. Whole(l, o + 1).idx = l /\ Whole(l, o + 1).order = o + 1
    BY DEF Whole, Block
  <2> QED
    BY <2>1, <2>4, <2>5 DEF OnGrid
<1>4. ASSUME NEW c \in Callers, FreeUnlock(c)
      PROVE  Held' \subseteq Held
  BY <1>4, FreeUnlockIInv
<1> QED
  BY <1>1, <1>2, <1>3, <1>4, StepKinds DEF Calm

\* The initial blocks lie on the grid.
LEMMA GridInit ==
    ASSUME Base % 2^MaxOrder = 0, Init
    PROVE  OnGrid
<1>1. Held = InitBlocks
  BY InitialBlocks
<1>2. Base \in Nat /\ MaxOrder \in Nat /\ MaxOrder \in Exps /\ NumPages \in Nat
  BY BuddyAssumption DEF Exps
\* A page is on the grid of a size when its address is.
<1>3. ASSUME NEW i \in Nat, NEW o \in Orders
      PROVE  i % 2^o = 0 <=> (Base + i) % 2^o = 0
  <2> DEFINE w == 2^o
  <2>1. o \in Exps /\ o <= MaxOrder /\ w \in Nat /\ w > 0
    BY <1>2, OrdersAreExps, PowType DEF Orders
  <2>2. Base % w = 0
    BY <1>2, <2>1, CoarserGrid
  <2> HIDE DEF w
  <2>3. PICK m \in Nat : Base = m * w
    BY <1>2, <2>1, <2>2, ModMultiple
  <2>4. ASSUME i % w = 0
        PROVE  (Base + i) % w = 0
    <3>1. PICK n \in Nat : i = n * w
      BY <2>1, <2>4, ModMultiple
    <3>2. Base + i = (m + n) * w /\ m + n \in Nat /\ Base + i \in Nat
      BY <1>2, <2>1, <2>3, <3>1
    <3> QED
      BY <2>1, <3>2, ModMultiple
  <2>5. ASSUME (Base + i) % w = 0
        PROVE  i % w = 0
    <3>0. Base + i \in Nat
      BY <1>2
    <3>1. PICK n \in Nat : Base + i = n * w
      BY <2>1, <2>5, <3>0, ModMultiple
    <3>2. i = (n - m) * w
      BY <1>2, <2>1, <2>3, <3>1
    <3>3. n - m \in Nat
      BY <1>2, <2>1, <3>2
    <3> QED
      BY <2>1, <3>2, <3>3, ModMultiple
  <2> QED
    BY <2>4, <2>5 DEF w
<1>4. ASSUME NEW b \in InitBlocks
      PROVE  /\ b.idx \in Nat /\ b.idx \in Pages /\ b.order \in Orders
             /\ b.order = InitOrder(b.idx)
             /\ b.idx % 2^b.order = 0 /\ b.idx + 2^b.order <= NumPages
  <2>1. b.idx \in Nat /\ b.idx \in Pages /\ b.order \in Orders /\ b.order = InitOrder(b.idx)
    BY BlockFacts DEF InitBlocks
  <2>2. (Base + b.idx) % 2^b.order = 0 /\ b.idx + 2^b.order <= NumPages
    BY <2>1, InitOrderFacts
  <2> QED
    BY <1>3, <2>1, <2>2
<1> QED
  BY <1>1, <1>4 DEF OnGrid

------------------------------------------------------------------------------
(* The ends of the calls.                                                  *)

\* What holds of a caller at each place: outside alloc_pages its curr is 0, and
\* a caller that has halted has one of the reasons of HaltReasons.
HaltOK(c) ==
    /\ pc[c] \in {"out", "alloc", "free", "merge"} => curr[c] = 0
    /\ pc[c] = "halt" =>
        \/ buddy_lock # c /\ ~(PagesOf(Block(block[c], arg[c])) \subseteq Reachable)
        \/ /\ buddy_lock = c /\ curr[c] = 0
           /\ \/ va_offset
              \/ Base % 2^MaxOrder # 0 /\ BuddyOf(block[c], arg[c]) >= NumPages

\* A step of one caller does not concern the others.
LEMMA OtherHalts ==
    ASSUME NEW d \in Callers, HaltOK(d), va_offset' = va_offset,
           pc'[d] = pc[d], block'[d] = block[d], arg'[d] = arg[d], curr'[d] = curr[d],
           buddy_lock' = d <=> buddy_lock = d
    PROVE  HaltOK(d)'
  BY DEF HaltOK, Reachable

\* A call that begins, goes on or returns halts no caller.
LEMMA RunningHaltOK ==
    ASSUME IInv, NEW c \in Callers, \A d \in Callers : HaltOK(d),
           \/ Call(c) \/ AllocPop(c) \/ AllocFails(c) \/ AllocSplit(c) \/ AllocUnlock(c)
           \/ AllocReturn(c) \/ FreeIgnored(c) \/ FreeBegin(c) \/ FreeMerge(c) \/ FreeUnlock(c)
    PROVE  \A d \in Callers : HaltOK(d)'
<1>1. TypeOK /\ (\A d \in Callers : CallerOK(d)) /\ NoCaller \notin Callers
  BY Consts DEF IInv
<1>2. AllocSplit(c) => pc' = pc
  BY AllocSplitIInv
<1>3. ASSUME NEW d \in Callers, d # c
      PROVE  HaltOK(d)'
  <2>1. /\ va_offset' = va_offset /\ pc'[d] = pc[d] /\ block'[d] = block[d] /\ arg'[d] = arg[d]
        /\ curr'[d] = curr[d]
    BY <1>1, <1>2, <1>3 DEF TypeOK, Call, CallAlloc, CallFree, CallFreeAgain, AllocPop, AllocFails,
       AllocSplit, AllocUnlock, AllocReturn, FreeIgnored, FreeBegin, FreeMerge, FreeUnlock,
       Return, Goto
  <2>2. buddy_lock' = d <=> buddy_lock = d
    BY <1>1, <1>3 DEF CallerOK, Call, CallAlloc, CallFree, CallFreeAgain, AllocPop, AllocFails,
       AllocSplit, AllocUnlock, AllocReturn, FreeIgnored, FreeBegin, FreeMerge, FreeUnlock
  <2> QED
    BY <2>1, <2>2, OtherHalts
<1>4. HaltOK(c)'
  <2>1. CASE Call(c)
    <3>1. pc'[c] \in {"alloc", "free"} /\ curr' = curr /\ pc[c] = "out"
      BY <1>1, <2>1 DEF TypeOK, Call, CallAlloc, CallFree, CallFreeAgain, Goto
    <3> QED
      BY <3>1 DEF HaltOK
  <2>2. CASE AllocPop(c) \/ AllocSplit(c) \/ AllocUnlock(c)
    <3>1. pc'[c] \in {"split", "zero"}
      BY <1>1, <1>2, <2>2 DEF TypeOK, AllocPop, AllocSplit, AllocUnlock, Goto
    <3> QED
      BY <3>1 DEF HaltOK
  <2>3. CASE FreeBegin(c) \/ FreeMerge(c)
    <3>1. pc'[c] = "merge" /\ curr' = curr /\ pc[c] \in {"free", "merge"}
      BY <1>1, <2>3 DEF TypeOK, FreeBegin, FreeMerge, Goto
    <3> QED
      BY <3>1 DEF HaltOK
  <2>4. CASE AllocFails(c) \/ AllocReturn(c) \/ FreeIgnored(c) \/ FreeUnlock(c)
    <3>1. pc'[c] = "out" /\ curr'[c] = 0
      BY <1>1, <2>4 DEF TypeOK, AllocFails, AllocReturn, FreeIgnored, FreeUnlock, Return, Goto
    <3> QED
      BY <3>1 DEF HaltOK
  <2> QED
    BY <2>1, <2>2, <2>3, <2>4
<1> QED
  BY <1>3, <1>4

\* A caller that halts has its reason.
LEMMA HaltingHaltOK ==
    ASSUME IInv, Base % 2^MaxOrder = 0 => OnGrid, NEW c \in Callers,
           \A d \in Callers : HaltOK(d),
           AllocFaults(c) \/ FreeFaults(c) \/ FreeInvalidIdx(c)
    PROVE  \A d \in Callers : HaltOK(d)'
<1>1. TypeOK /\ CallerOK(c)
  BY DEF IInv
<1>2. /\ UNCHANGED <<va_offset, block, arg, curr, buddy_lock>>
      /\ pc'[c] = "halt" /\ \A d \in Callers \ {c} : pc'[d] = pc[d]
  BY <1>1 DEF TypeOK, AllocFaults, FreeFaults, FreeInvalidIdx, Goto
<1>3. ASSUME NEW d \in Callers, d # c
      PROVE  HaltOK(d)'
  BY <1>2, <1>3, OtherHalts
<1>4. CASE AllocFaults(c)
  <2>1. buddy_lock # c /\ ~(PagesOf(Block(block[c], arg[c])) \subseteq Reachable)
    BY <1>1, <1>4 DEF AllocFaults, CallerOK
  <2>2. Reachable' = Reachable
    BY <1>2 DEF Reachable
  <2> QED
    BY <1>2, <1>3, <2>1, <2>2 DEF HaltOK
<1>5. CASE FreeFaults(c)
  <2>1. buddy_lock = c /\ curr[c] = 0 /\ va_offset
    BY <1>1, <1>5 DEF FreeFaults, LowMapped, CallerOK, HaltOK
  <2> QED
    BY <1>2, <1>3, <2>1 DEF HaltOK
<1>6. CASE FreeInvalidIdx(c)
  <2>1. buddy_lock = c /\ curr[c] = 0 /\ BuddyOf(block[c], arg[c]) >= NumPages
    BY <1>1, <1>6 DEF FreeInvalidIdx, CallerOK, HaltOK
  <2>2. ASSUME Base % 2^MaxOrder = 0
        PROVE  FALSE
    <3>1. /\ block[c] \in Nat /\ block[c] \in Pages /\ arg[c] \in Orders
          /\ arg[c] < MaxOrder /\ NumPages \in Nat
      BY <1>1, <1>6, Consts DEF TypeOK, Pages, FreeInvalidIdx
    <3> DEFINE b == Block(block[c], arg[c])
    <3>2. b \in AllBlocks /\ b.idx = block[c] /\ b.order = arg[c]
      BY <3>1, MakeBlock
    <3>3. b \in Held
      BY <1>6, <3>2 DEF FreeInvalidIdx, Held, InHand, Works
    <3> HIDE DEF b
    <3>4. block[c] % 2^arg[c] = 0 /\ block[c] + 2^arg[c] <= NumPages
      BY <2>2, <3>2, <3>3 DEF OnGrid, IInv, InRange
    <3> DEFINE j == BuddyOf(block[c], arg[c])
    <3>5. j < NumPages /\ j \in Nat /\ j >= NumPages
      BY <2>1, <2>2, <3>1, <3>4, BuddyInside, BuddyBack
    <3> HIDE DEF j
    <3> QED
      BY <3>1, <3>5
  <2> QED
    BY <1>2, <1>3, <2>1, <2>2 DEF HaltOK
<1> QED
  BY <1>4, <1>5, <1>6

\* A caller that never comes back either faulted in memset beyond KERNEL_END,
\* freed a block in S-mode, or merged where the unaligned first page puts the
\* buddy beyond the last one.  alloc_pages' own error loop is never reached,
\* and with an aligned first page none is before S-mode.
THEOREM HaltsHaveReasons ==
    ASSUME RepeatedFrees \subseteq {0}
    PROVE  Spec => []HaltReasons
<1> DEFINE G == Base % 2^MaxOrder = 0 => OnGrid
           J == \A d \in Callers : HaltOK(d)
<1>1. Init => G /\ J
  BY GridInit DEF Init, HaltOK
<1>2. IInv /\ G /\ [Next]_vars => G'
  BY OnGridStep
<1>3. ASSUME IInv, G, J, [Next]_vars
      PROVE  J'
  <2>1. CASE UNCHANGED vars
    BY <1>3, <2>1, OtherHalts DEF vars
  <2>2. CASE EnterSMode
    BY <1>3, <2>2 DEF EnterSMode, HaltOK
  <2>3. ASSUME NEW c \in Callers, Call(c) \/ Step(c)
        PROVE  J'
    BY <1>3, <2>3, RunningHaltOK, HaltingHaltOK DEF Step
  <2> QED
    BY <1>3, <2>1, <2>2, <2>3 DEF Next
<1>4. J => HaltReasons
  BY DEF HaltOK, HaltReasons
<1> HIDE DEF G, J
<1> QED
  BY <1>1, <1>2, <1>3, <1>4, Invariance, PTL DEF Spec

\* The end of free_pages, the only step that gives the lock back from the merge
\* loop, lists a block whose buddy is not listed.
LEMMA MergesFullyStep ==
    ASSUME RepeatedFrees \subseteq {0}, IInv, [Next]_vars, NEW c \in Callers, pc[c] = "merge",
           buddy_lock' = NoCaller, NEW b \in Listed' \ Listed, b.order < MaxOrder
    PROVE  Block(BuddyOf(b.idx, b.order), b.order) \notin Listed'
<1>1. buddy_lock = c /\ c # NoCaller
  BY Consts DEF IInv, CallerOK
<1>2. FreeUnlock(c)
  <2>1. ASSUME NEW d \in Callers, d # c
        PROVE  ~Call(d) /\ ~Step(d)
    <3>1. buddy_lock # NoCaller /\ buddy_lock # d /\ CallerOK(d)
      BY <1>1, <2>1 DEF IInv
    <3>2. ~Call(d)
      BY <3>1 DEF Call, CallAlloc, CallFree, CallFreeAgain
    <3>3. pc[d] \notin {"alloc", "split", "free", "merge"}
      BY <3>1 DEF CallerOK
    <3>4. ~AllocReturn(d) /\ ~AllocFaults(d)
      BY <1>1 DEF AllocReturn, AllocFaults
    <3> QED
      BY <3>2, <3>3, <3>4 DEF Step, AllocPop, AllocFails, AllocSplit, AllocUnlock, FreeFaults,
         FreeIgnored, FreeBegin, FreeMerge, FreeInvalidIdx, FreeUnlock
  <2>2. ~(UNCHANGED vars) /\ ~EnterSMode
    BY <1>1 DEF vars, EnterSMode
  <2>3. Call(c) \/ Step(c)
    BY <2>1, <2>2 DEF Next
  <2> QED
    BY <1>1, <2>3 DEF Call, CallAlloc, CallFree, CallFreeAgain, Step, AllocPop, AllocFails,
       AllocSplit, AllocUnlock, AllocReturn, AllocFaults, FreeFaults, FreeIgnored, FreeBegin,
       FreeMerge, FreeInvalidIdx
<1> DEFINE j == block[c]
           o == arg[c]
           e == Block(BuddyOf(j, o), o)
<1>3. Listed' = Listed \cup {Block(j, o)}
  BY <1>2, FreeUnlockIInv
<1>4. j \in Nat /\ o \in Orders /\ o \in Nat
  <2>1. j \in Pages /\ o \in Orders
    BY DEF IInv, TypeOK
  <2> QED
    BY <2>1, OrdersAreExps DEF Pages
<1>5. b = Block(j, o) /\ b.idx = j /\ b.order = o
  BY <1>3 DEF Block
<1>6. e # b
  <2>1. BuddyOf(j, o) # j /\ e.idx = BuddyOf(j, o)
    BY <1>4, BuddyBack DEF Block
  <2> QED
    BY <1>5, <2>1
<1>7. e \notin Listed
  <2> SUFFICES ASSUME e \in Listed
               PROVE  FALSE
    OBVIOUS
  <2>1. BuddyOf(j, o) < NumPages /\ ~CanMerge(c)
    BY <1>2, <1>4, <1>5, Consts DEF FreeUnlock
  <2>2. is_free[e.idx] /\ order[e.idx] = e.order /\ e.idx = BuddyOf(j, o) /\ e.order = o
    BY DEF IInv, FlagsOK, Block
  <2> QED
    BY <1>5, <2>1, <2>2 DEF CanMerge, BelowMax
<1> QED
  BY <1>3, <1>5, <1>6, <1>7

\* free_pages merges as far as it can, for every first page: the buddy of the
\* block that a free puts in a list is not listed as a block of that order.
THEOREM FreesMergeFully ==
    ASSUME RepeatedFrees \subseteq {0}
    PROVE  Spec => MergesFully
<1>1. ASSUME IInv, [Next]_vars
      PROVE  [\A c \in Callers : pc[c] = "merge" /\ buddy_lock' = NoCaller =>
                 \A b \in Listed' \ Listed : b.order < MaxOrder =>
                     Block(BuddyOf(b.idx, b.order), b.order) \notin Listed']_vars
  BY <1>1, MergesFullyStep
<1> QED
  BY <1>1, Invariance, PTL DEF Spec, MergesFully
==============================================================================
