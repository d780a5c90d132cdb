---------------------------- MODULE ProcessProofs ----------------------------
(***************************************************************************)
(* Proofs about Process, for every memory, table size and sequence of      *)
(* calls: the page tables stay a tree and every page has one use; a queued *)
(* process has all its mappings; heap and break agree; sys_munmap reports  *)
(* what it did; the page table implements AddrMap.                         *)
(***************************************************************************)
EXTENDS Process, NatFacts, SequenceTheorems, FiniteSetTheorems, TLAPS

(* Numbers: multiples of the page size, and the indices of a virtual page. *)

\* A quotient is found by its remainder.
LEMMA Quotient ==
    ASSUME NEW b \in Nat \ {0}, NEW q \in Int, NEW r \in 0 .. b - 1
    PROVE  (q * b + r) \div b = q /\ (q * b + r) % b = r
<1> DEFINE a == q * b + r
<1>1. q * b \in Int /\ a \in Int
  OBVIOUS
<1>2. a = b * (a \div b) + (a % b) /\ a \div b \in Int /\ a % b \in 0 .. b - 1
  BY <1>1
<1> DEFINE d == a \div b
           e == a % b
<1>3. d \in Int /\ e \in 0 .. b - 1 /\ b * d + e = q * b + r
  BY <1>2
<1> HIDE DEF d, e, a
<1>4. b * (q - d) = e - r
  BY <1>3
<1>5. e - r < b /\ e - r > -b
  BY <1>3
<1>6. ~(q - d >= 1)
  <2> SUFFICES ASSUME q - d >= 1 PROVE FALSE
    OBVIOUS
  <2>1. b * (q - d) >= b * 1
    BY <1>3
  <2> QED
    BY <2>1, <1>4, <1>5, <1>3
<1>7. ~(q - d <= -1)
  <2> SUFFICES ASSUME q - d <= -1 PROVE FALSE
    OBVIOUS
  <2>1. b * (q - d) <= b * (-1)
    BY <1>3
  <2> QED
    BY <2>1, <1>4, <1>5, <1>3
<1>8. q = d /\ e = r
  BY <1>3, <1>4, <1>6, <1>7
<1> QED
  BY <1>8 DEF d, e, a

\* Division by a product, one factor after the other.
LEMMA Quotients ==
    ASSUME NEW n \in Nat, NEW a \in Nat \ {0}, NEW b \in Nat \ {0}
    PROVE  n \div (a * b) = (n \div a) \div b
<1> DEFINE x == n \div a
           r == n % a
           y == x \div b
           s == x % b
<1>1. x \in Nat /\ r \in 0 .. a - 1 /\ n = a * x + r
  OBVIOUS
<1> HIDE DEF x, r
<1>2. y \in Nat /\ s \in 0 .. b - 1 /\ x = b * y + s
  BY <1>1
<1> HIDE DEF y, s
<1>3. a * b \in Nat \ {0} /\ a * s \in Nat /\ a * s <= a * (b - 1) /\ a * (b - 1) = a * b - a
  BY <1>2
<1>4. n = y * (a * b) + (a * s + r)
  BY <1>1, <1>2
<1>5. a * s + r \in 0 .. (a * b) - 1
  BY <1>1, <1>3
<1> DEFINE c == a * b
           t == a * s + r
<1>6. c \in Nat \ {0} /\ t \in 0 .. c - 1 /\ n = y * c + t
  BY <1>3, <1>4, <1>5
<1> HIDE DEF c, t
<1>7. n \div c = y
  BY <1>2, <1>6, Quotient
<1> QED
  BY <1>7 DEF c, x, y

\* The lower and the upper digits of a number below a * b.
LEMMA Remainders ==
    ASSUME NEW n \in Nat, NEW a \in Nat \ {0}, NEW b \in Nat \ {0}
    PROVE  /\ (n % (a * b)) \div a = (n \div a) % b
           /\ (n % (a * b)) % a = n % a
<1> DEFINE x == n \div a
           r == n % a
           y == x \div b
           s == x % b
<1>1. x \in Nat /\ r \in 0 .. a - 1 /\ n = a * x + r
  OBVIOUS
<1> HIDE DEF x, r
<1>2. y \in Nat /\ s \in 0 .. b - 1 /\ x = b * y + s
  BY <1>1
<1> HIDE DEF y, s
<1>3. a * b \in Nat \ {0} /\ a * s \in Nat /\ a * s <= a * (b - 1) /\ a * (b - 1) = a * b - a
  BY <1>2
<1>4. n = y * (a * b) + (a * s + r)
  BY <1>1, <1>2
<1>5. a * s + r \in 0 .. (a * b) - 1
  BY <1>1, <1>3
<1> DEFINE c == a * b
           t == a * s + r
<1>6. c \in Nat \ {0} /\ t \in 0 .. c - 1 /\ n = y * c + t
  BY <1>3, <1>4, <1>5
<1>7. t = s * a + r
  BY <1>1, <1>2
<1> HIDE DEF c, t
<1>8. n % c = t
  BY <1>2, <1>6, Quotient
<1>9. t \div a = s /\ t % a = r
  <2>1. s \in Int
    BY <1>2
  <2> QED
    BY <2>1, <1>1, <1>7, Quotient
<1> QED
  BY <1>8, <1>9 DEF c, r, s, x

\* The indices of virtual page v in the tables of the three levels.
X2(v) == v \div (PTE_COUNT * PTE_COUNT)
X1(v) == (v \div PTE_COUNT) % PTE_COUNT
X0(v) == v % PTE_COUNT

\* The constants are positive, and so are their products.
LEMMA Sizes ==
    /\ PTE_COUNT \in Nat \ {0} /\ PAGE_SIZE \in Nat \ {0}
    /\ PTE_COUNT * PTE_COUNT \in Nat \ {0}
    /\ PTE_COUNT^3 = (PTE_COUNT * PTE_COUNT) * PTE_COUNT /\ PTE_COUNT^3 \in Nat \ {0}
    /\ PTE_COUNT^2 = PTE_COUNT * PTE_COUNT
<1>1. PTE_COUNT \in Nat \ {0} /\ PAGE_SIZE \in Nat \ {0}
  BY PageTableAssumption
<1>2. PTE_COUNT * PTE_COUNT \in Nat \ {0}
  BY <1>1
<1>3. (PTE_COUNT * PTE_COUNT) * PTE_COUNT \in Nat \ {0}
  BY <1>1, <1>2
<1> QED
  BY <1>1, <1>2, <1>3, PowersOfPteCount

\* Each level of a virtual page is an index of a table.
LEMMA Positions ==
    ASSUME NEW v \in VPages
    PROVE  v \in Nat /\ X2(v) \in Idx /\ X1(v) \in Idx /\ X0(v) \in Idx
<1> DEFINE n == PTE_COUNT
           nn == n * n
<1>1. n \in Nat \ {0} /\ nn \in Nat \ {0} /\ PTE_COUNT^3 = nn * n
  BY Sizes
<1>2. v \in Nat /\ v < nn * n
  BY <1>1 DEF VPages
<1>3. X1(v) \in Idx /\ X0(v) \in Idx
  BY <1>1, <1>2 DEF X1, X0, Idx
<1> DEFINE q == v \div nn
           r == v % nn
<1>4. q \in Nat /\ r \in Nat /\ v = nn * q + r
  <2> HIDE DEF nn
  <2> QED
    BY <1>1, <1>2
<1> HIDE DEF n, nn, q, r
<1>5. q < n
  <2> SUFFICES ASSUME q >= n PROVE FALSE
    BY <1>1, <1>4
  <2>1. nn * q >= nn * n
    BY <1>1, <1>4
  <2> QED
    BY <2>1, <1>1, <1>2, <1>4
<1>6. X2(v) = q
  BY DEF X2, q, nn, n
<1> QED
  BY <1>1, <1>2, <1>3, <1>4, <1>5, <1>6 DEF Idx, n

\* The indices determine the page.
LEMMA SamePositions ==
    ASSUME NEW u \in VPages, NEW v \in VPages, X2(u) = X2(v), X1(u) = X1(v), X0(u) = X0(v)
    PROVE  u = v
<1> DEFINE n == PTE_COUNT
<1>1. n \in Nat \ {0} /\ u \in Nat /\ v \in Nat
  BY Sizes, Positions
<1>2. (u \div n) \div n = (v \div n) \div n
  BY <1>1, Quotients DEF X2
<1>3. (u \div n) % n = (v \div n) % n /\ u % n = v % n
  BY DEF X1, X0
<1> DEFINE a == u \div n
           b == v \div n
<1>4. a \in Nat /\ b \in Nat /\ u = n * a + (u % n) /\ v = n * b + (v % n)
  BY <1>1
<1>5. a = n * (a \div n) + (a % n) /\ b = n * (b \div n) + (b % n)
  <2> HIDE DEF a, b
  <2> QED
    BY <1>1, <1>4
<1>6. a = b
  BY <1>2, <1>3, <1>5
<1> QED
  BY <1>3, <1>4, <1>6

\* walk and the hardware look at the same entries.
LEMMA Levels ==
    ASSUME NEW n \in Nat
    PROVE  /\ VPage(n) \in VPages
           /\ vpn_level(n, 2) = X2(VPage(n))
           /\ vpn_level(n, 1) = X1(VPage(n))
           /\ vpn_level(n, 0) = X0(VPage(n))
<1> DEFINE c == PTE_COUNT
           cc == c * c
           s == PAGE_SIZE
           x == n \div s
           v == x % (cc * c)
<1>1. c \in Nat \ {0} /\ cc \in Nat \ {0} /\ s \in Nat \ {0} /\ cc * c \in Nat \ {0}
      /\ PTE_COUNT^3 = cc * c
  BY Sizes
<1>2. x \in Nat
  BY <1>1
<1>3. v \in 0 .. cc * c - 1 /\ v \in Nat
  <2> HIDE DEF x, cc
  <2> QED
    BY <1>1, <1>2
<1>4. VPage(n) = v
  BY <1>1 DEF VPage
<1>5. v \div cc = x \div cc % c
  BY <1>1, <1>2, Remainders
<1>6. vpn_level(n, 2) = (x \div cc) % c
  <2>1. n \div (s * cc) = (n \div s) \div cc
    <3> HIDE DEF cc, s
    <3> QED
      BY <1>1, Quotients
  <2> QED
    BY <2>1, PowersOfPteCount DEF vpn_level
<1>7. vpn_level(n, 1) = (x \div c) % c
  <2>1. n \div (s * c) = (n \div s) \div c
    BY <1>1, Quotients
  <2> QED
    BY <2>1, PowersOfPteCount DEF vpn_level
<1>8. vpn_level(n, 0) = x % c
  <2>1. s * 1 = s
    BY <1>1
  <2> QED
    BY <2>1, PowersOfPteCount DEF vpn_level
<1>9. cc * c = c * cc
  BY <1>1
<1>10. v \div c = (x \div c) % cc /\ v % c = x % c
  <2>1. v = x % (c * cc)
    BY <1>9
  <2> HIDE DEF cc, v, x
  <2> QED
    BY <1>1, <1>2, <2>1, Remainders
<1>11. ((x \div c) % cc) % c = (x \div c) % c
  <2>1. x \div c \in Nat
    BY <1>1, <1>2
  <2> QED
    BY <2>1, <1>1, Remainders
<1> QED
  BY <1>1, <1>3, <1>4, <1>5, <1>6, <1>7, <1>8, <1>10, <1>11 DEF VPages, X2, X1, X0

------------------------------------------------------------------------------
(* Page tables are trees.                                                  *)

Perms == SUBSET {"R", "W", "X", "U"}
Ptes == [v : {TRUE}, ppn : Nat, perm : Perms] \cup {NoPte}
Memory(M) == [tab : [M -> [Idx -> Ptes]], free : SUBSET M]

\* The tables of levels 1 and 0.
T1(m, r) == Below(m, {r})
T0(m, r) == Below(m, T1(m, r))

RootOnce(m, r) ==
    \A i, j \in Idx :
        m.tab[r][i].v /\ m.tab[r][j].v /\ m.tab[r][i].ppn = m.tab[r][j].ppn => i = j
Level1Once(m, r) ==
    \A t, u \in T1(m, r) : \A i, j \in Idx :
        m.tab[t][i].v /\ m.tab[u][j].v /\ m.tab[t][i].ppn = m.tab[u][j].ppn => t = u /\ i = j

\* The tables below root r are in use, and each is reached in one way only.
TreeOK(M, m, r) ==
    /\ r \in M \ m.free
    /\ T1(m, r) \subseteq M \ m.free /\ r \notin T1(m, r)
    /\ T0(m, r) \subseteq M \ m.free /\ r \notin T0(m, r) /\ T0(m, r) \cap T1(m, r) = {}
    /\ RootOnce(m, r) /\ Level1Once(m, r)

\* A table one level down is what a valid entry points to.
LEMMA BelowMember ==
    ASSUME NEW m, NEW T, NEW x
    PROVE  x \in Below(m, T) <=> \E t \in T, i \in Idx : m.tab[t][i].v /\ x = m.tab[t][i].ppn
BY DEF Below

\* The fields of a memory, and their types.
LEMMA MemoryFacts ==
    ASSUME NEW M, NEW m \in Memory(M)
    PROVE  /\ m.tab \in [M -> [Idx -> Ptes]] /\ m.free \subseteq M
           /\ m = [tab |-> m.tab, free |-> m.free]
           /\ \A t \in M, i \in Idx : m.tab[t][i] \in Ptes /\ m.tab[t][i].v \in BOOLEAN
                 /\ (~m.tab[t][i].v => m.tab[t][i] = NoPte)
<1>1. m.tab \in [M -> [Idx -> Ptes]] /\ m.free \subseteq M /\ m = [tab |-> m.tab, free |-> m.free]
  BY DEF Memory
<1>2. \A e \in Ptes : e.v \in BOOLEAN /\ (~e.v => e = NoPte)
  <2>1. \A e \in [v : {TRUE}, ppn : Nat, perm : Perms] : e.v = TRUE
    OBVIOUS
  <2>2. NoPte.v = FALSE
    BY DEF NoPte
  <2> QED
    BY <2>1, <2>2 DEF Ptes
<1> QED
  BY <1>1, <1>2

\* The fields of a valid entry.
LEMMA PteFacts ==
    ASSUME NEW f \in Nat, NEW perm \in Perms
    PROVE  Pte(f, perm) \in Ptes /\ Pte(f, perm).v = TRUE /\ Pte(f, perm).ppn = f
           /\ Pte(f, perm).perm = perm
BY DEF Pte, Ptes

\* A cleared page is a table without valid entries.
LEMMA EmptyFacts ==
    /\ EmptyTable \in [Idx -> Ptes] /\ \A i \in Idx : EmptyTable[i] = NoPte
    /\ NoPte.v = FALSE /\ NoPte \in Ptes /\ \A f : NoPte # Pte(f, {})
BY DEF EmptyTable, NoPte, Ptes, Pte

\* A translation is read from a table of level 0.
LEMMA TranslationPath ==
    ASSUME NEW m, NEW r, NEW v
    PROVE  LET e2 == m.tab[r][X2(v)]
               e1 == m.tab[e2.ppn][X1(v)]
           IN  Translation(m, r, v) = IF e2.v /\ e1.v THEN m.tab[e1.ppn][X0(v)] ELSE NoPte
BY DEF Translation, X2, X1, X0

\* The tables of the three levels.
LEMMA TablesUnion ==
    ASSUME NEW m, NEW r
    PROVE  Tables(m, r) = {r} \cup T1(m, r) \cup T0(m, r)
BY DEF Tables, T1, T0

\* The page that alloc_page hands out.
Taken(m, f) == [tab |-> [m.tab EXCEPT ![f] = EmptyTable], free |-> m.free \ {f}]

\* alloc_page hands out a free page, or fails when there is none.
LEMMA AllocPage ==
    ASSUME NEW M \in SUBSET Nat, NEW m \in Memory(M), NEW reach
    PROVE  \/ m.free = {} /\ alloc_page(m, reach) = [st |-> "fail", ppn |-> 0, m |-> m]
           \/ \E f \in m.free :
                 alloc_page(m, reach) =
                     [st |-> IF f \in reach THEN "ok" ELSE "fault", ppn |-> f, m |-> Taken(m, f)]
<1>1. CASE m.free = {}
  BY <1>1 DEF alloc_page
<1>2. CASE m.free # {}
  <2>1. m.free \in SUBSET Nat
    BY MemoryFacts
  <2>2. \E x \in m.free : \A y \in m.free : x <= y
    BY <1>2, <2>1, LeastNat
  <2>3. Min(m.free) \in m.free
    BY <2>2 DEF Min
  <2> QED
    BY <1>2, <2>3 DEF alloc_page, Taken
<1> QED
  BY <1>1, <1>2

\* Taking a free page leaves the tables alone.
LEMMA TakeKeeps ==
    ASSUME NEW M \in SUBSET Nat, NEW m \in Memory(M), NEW f \in m.free
    PROVE  /\ Taken(m, f) \in Memory(M)
           /\ Taken(m, f).free = m.free \ {f}
           /\ Taken(m, f).tab[f] = EmptyTable
           /\ \A t \in M \ {f} : Taken(m, f).tab[t] = m.tab[t]
BY MemoryFacts, EmptyFacts DEF Taken, Memory

\* Memories whose tables below r are the same.
LEMMA SameTables ==
    ASSUME NEW M \in SUBSET Nat, NEW m \in Memory(M), NEW m2 \in Memory(M), NEW r,
           TreeOK(M, m, r), m2.free \subseteq m.free,
           \A t \in Tables(m, r) : m2.tab[t] = m.tab[t]
    PROVE  /\ TreeOK(M, m2, r) /\ T1(m2, r) = T1(m, r) /\ T0(m2, r) = T0(m, r)
           /\ \A v \in VPages : Translation(m2, r, v) = Translation(m, r, v)
<1>1. Tables(m, r) = {r} \cup T1(m, r) \cup T0(m, r)
  BY TablesUnion
<1>2. m2.tab[r] = m.tab[r] /\ \A t \in T1(m, r) : m2.tab[t] = m.tab[t]
  BY <1>1
<1>3. ASSUME NEW x
      PROVE  x \in T1(m2, r) <=> x \in T1(m, r)
  BY <1>2, BelowMember DEF T1
<1>4. T1(m2, r) = T1(m, r)
  BY <1>3
<1>5. ASSUME NEW x
      PROVE  x \in T0(m2, r) <=> x \in T0(m, r)
  BY <1>2, <1>4, BelowMember DEF T0
<1>6. T0(m2, r) = T0(m, r)
  BY <1>5
<1>7. TreeOK(M, m2, r)
  BY <1>2, <1>4, <1>6 DEF TreeOK, RootOnce, Level1Once
<1>8. ASSUME NEW v \in VPages
      PROVE  Translation(m2, r, v) = Translation(m, r, v)
  <2> DEFINE e2 == m.tab[r][X2(v)]
             e1 == m.tab[e2.ppn][X1(v)]
  <2>1. X2(v) \in Idx /\ X1(v) \in Idx
    BY Positions
  <2>2. CASE e2.v
    <3>1. e2.ppn \in T1(m, r)
      BY <2>1, <2>2, BelowMember DEF T1
    <3>2. e1.v => e1.ppn \in T0(m, r)
      BY <2>1, <3>1, BelowMember DEF T0
    <3>3. m2.tab[r][X2(v)] = e2 /\ m2.tab[e2.ppn][X1(v)] = e1
          /\ (e1.v => m2.tab[e1.ppn] = m.tab[e1.ppn])
      BY <1>1, <1>2, <3>1, <3>2
    <3> QED
      BY <3>3, TranslationPath
  <2>3. CASE ~e2.v
    BY <1>2, <2>3, TranslationPath
  <2> QED
    BY <2>2, <2>3
<1> QED
  BY <1>4, <1>6, <1>7, <1>8

\* Memory m2 is m with one entry written.
Wrote(M, m, m2, t, i, e) ==
    /\ m2 \in Memory(M) /\ m2.free = m.free
    /\ m2.tab[t][i] = e
    /\ \A j \in Idx \ {i} : m2.tab[t][j] = m.tab[t][j]
    /\ \A u \in M \ {t} : m2.tab[u] = m.tab[u]

\* Writing one entry of one table.
LEMMA WriteEntry ==
    ASSUME NEW M, NEW m \in Memory(M), NEW t \in M, NEW i \in Idx, NEW e \in Ptes
    PROVE  Wrote(M, m, [m EXCEPT !.tab[t][i] = e], t, i, e)
<1> DEFINE m2 == [m EXCEPT !.tab[t][i] = e]
<1>1. m.tab \in [M -> [Idx -> Ptes]] /\ m.free \subseteq M
  BY MemoryFacts
<1>2. m2 \in Memory(M)
  BY DEF Memory
<1>3. m2.tab = [m.tab EXCEPT ![t][i] = e] /\ m2.free = m.free
  BY DEF Memory
<1> HIDE DEF m2
<1>4. /\ m2.tab[t][i] = e
      /\ \A j \in Idx \ {i} : m2.tab[t][j] = m.tab[t][j]
      /\ \A u \in M \ {t} : m2.tab[u] = m.tab[u]
  BY <1>1, <1>3
<1>5. Wrote(M, m, m2, t, i, e)
  BY <1>2, <1>3, <1>4 DEF Wrote
<1> QED
  BY <1>5 DEF m2

\* A new table under the root.
LEMMA HookRoot ==
    ASSUME NEW M \in SUBSET Nat, NEW m \in Memory(M), NEW r, TreeOK(M, m, r),
           NEW i \in Idx, ~m.tab[r][i].v,
           NEW f \in M \ m.free, f \notin Tables(m, r), m.tab[f] = EmptyTable,
           NEW m2, Wrote(M, m, m2, r, i, Pte(f, {}))
    PROVE  /\ m2 \in Memory(M) /\ m2.free = m.free /\ TreeOK(M, m2, r)
           /\ T1(m2, r) = T1(m, r) \cup {f} /\ T0(m2, r) = T0(m, r)
           /\ m2.tab[r][i] = Pte(f, {})
           /\ \A j \in Idx \ {i} : m2.tab[r][j] = m.tab[r][j]
           /\ \A v \in VPages : Translation(m2, r, v) = Translation(m, r, v)
<1>1. /\ r \in M /\ f # r /\ f \notin T1(m, r) /\ f \notin T0(m, r) /\ f \in Nat
      /\ T1(m, r) \subseteq M /\ r \notin T1(m, r)
  BY TablesUnion DEF TreeOK
<1>2. Pte(f, {}) \in Ptes /\ Pte(f, {}).v = TRUE /\ Pte(f, {}).ppn = f
  BY <1>1, PteFacts DEF Perms
<1>3. m2.free = m.free /\ m2 \in Memory(M)
  BY DEF Wrote
<1>4. /\ m2.tab[r][i] = Pte(f, {})
      /\ \A j \in Idx \ {i} : m2.tab[r][j] = m.tab[r][j]
      /\ \A t \in M \ {r} : m2.tab[t] = m.tab[t]
  BY DEF Wrote
<1>5. ASSUME NEW x
      PROVE  x \in T1(m2, r) <=> x \in T1(m, r) \/ x = f
  <2>1. x \in T1(m2, r) <=> \E j \in Idx : m2.tab[r][j].v /\ x = m2.tab[r][j].ppn
    BY BelowMember DEF T1
  <2>2. x \in T1(m, r) <=> \E j \in Idx : m.tab[r][j].v /\ x = m.tab[r][j].ppn
    BY BelowMember DEF T1
  <2> QED
    BY <1>2, <1>4, <2>1, <2>2
<1>6. T1(m2, r) = T1(m, r) \cup {f}
  BY <1>5
<1>7. /\ \A t \in T1(m, r) : m2.tab[t] = m.tab[t]
      /\ \A j \in Idx : ~m2.tab[f][j].v
  BY <1>1, <1>4, EmptyFacts
<1>8. ASSUME NEW x
      PROVE  x \in T0(m2, r) <=> x \in T0(m, r)
  <2>1. x \in T0(m2, r) <=> \E t \in T1(m, r) \cup {f}, j \in Idx : m2.tab[t][j].v /\ x = m2.tab[t][j].ppn
    BY <1>6, BelowMember DEF T0
  <2>2. x \in T0(m, r) <=> \E t \in T1(m, r), j \in Idx : m.tab[t][j].v /\ x = m.tab[t][j].ppn
    BY BelowMember DEF T0
  <2> QED
    BY <1>7, <2>1, <2>2
<1>9. T0(m2, r) = T0(m, r)
  BY <1>8
<1>10. TreeOK(M, m2, r)
  <2>1. /\ r \in M \ m2.free
        /\ T1(m2, r) \subseteq M \ m2.free /\ r \notin T1(m2, r)
        /\ T0(m2, r) \subseteq M \ m2.free /\ r \notin T0(m2, r) /\ T0(m2, r) \cap T1(m2, r) = {}
    BY <1>1, <1>3, <1>6, <1>9 DEF TreeOK
  <2>2. RootOnce(m2, r)
    <3> SUFFICES ASSUME NEW j \in Idx, NEW k \in Idx,
                        m2.tab[r][j].v, m2.tab[r][k].v, m2.tab[r][j].ppn = m2.tab[r][k].ppn
                 PROVE  j = k
      BY DEF RootOnce
    <3>1. ASSUME NEW l \in Idx \ {i}, m2.tab[r][l].v
          PROVE  m2.tab[r][l].ppn # f
      BY <1>1, <1>4, <3>1, BelowMember DEF T1
    <3>2. CASE j # i /\ k # i
      BY <1>4, <3>2 DEF TreeOK, RootOnce
    <3> QED
      BY <1>2, <1>4, <3>1, <3>2
  <2>3. Level1Once(m2, r)
    <3> SUFFICES ASSUME NEW t \in T1(m2, r), NEW u \in T1(m2, r), NEW j \in Idx, NEW k \in Idx,
                        m2.tab[t][j].v, m2.tab[u][k].v, m2.tab[t][j].ppn = m2.tab[u][k].ppn
                 PROVE  t = u /\ j = k
      BY DEF Level1Once
    <3>1. t \in T1(m, r) /\ u \in T1(m, r)
      BY <1>6, <1>7
    <3> QED
      BY <1>7, <3>1 DEF TreeOK, Level1Once
  <2> QED
    BY <2>1, <2>2, <2>3 DEF TreeOK
<1>11. ASSUME NEW v \in VPages
       PROVE  Translation(m2, r, v) = Translation(m, r, v)
  <2>1. X2(v) \in Idx /\ X1(v) \in Idx
    BY Positions
  <2>2. CASE X2(v) = i
    <3>1. Translation(m, r, v) = NoPte
      BY <2>2, TranslationPath
    <3>2. ~m2.tab[m2.tab[r][X2(v)].ppn][X1(v)].v
      BY <1>2, <1>4, <1>7, <2>1, <2>2
    <3> QED
      BY <3>1, <3>2, TranslationPath
  <2>3. CASE X2(v) # i
    <3> DEFINE e2 == m.tab[r][X2(v)]
               e1 == m.tab[e2.ppn][X1(v)]
    <3>1. m2.tab[r][X2(v)] = e2
      BY <1>4, <2>1, <2>3
    <3>2. CASE e2.v
      <4>1. e2.ppn \in T1(m, r)
        BY <2>1, <3>2, BelowMember DEF T1
      <4>2. m2.tab[e2.ppn][X1(v)] = e1
        BY <1>7, <4>1
      <4>3. e1.v => e1.ppn \in T0(m, r)
        BY <2>1, <4>1, BelowMember DEF T0
      <4>4. e1.v => m2.tab[e1.ppn] = m.tab[e1.ppn]
        BY <1>4, <4>3 DEF TreeOK
      <4> QED
        BY <3>1, <4>2, <4>4, TranslationPath
    <3>3. CASE ~e2.v
      BY <3>1, <3>3, TranslationPath
    <3> QED
      BY <3>2, <3>3
  <2> QED
    BY <2>2, <2>3
<1> QED
  BY <1>3, <1>4, <1>6, <1>9, <1>10, <1>11

\* A new table of level 0.
LEMMA HookLevel1 ==
    ASSUME NEW M \in SUBSET Nat, NEW m \in Memory(M), NEW r, TreeOK(M, m, r),
           NEW t \in T1(m, r), NEW i \in Idx, ~m.tab[t][i].v,
           NEW f \in M \ m.free, f \notin Tables(m, r), m.tab[f] = EmptyTable,
           NEW m2, Wrote(M, m, m2, t, i, Pte(f, {}))
    PROVE  /\ m2 \in Memory(M) /\ m2.free = m.free /\ TreeOK(M, m2, r)
           /\ T1(m2, r) = T1(m, r) /\ T0(m2, r) = T0(m, r) \cup {f}
           /\ m2.tab[t][i] = Pte(f, {}) /\ m2.tab[r] = m.tab[r]
           /\ \A v \in VPages : Translation(m2, r, v) = Translation(m, r, v)
<1>1. /\ r \in M /\ f # r /\ f \notin T1(m, r) /\ f \notin T0(m, r) /\ f \in Nat
      /\ T1(m, r) \subseteq M /\ r \notin T1(m, r) /\ t \in M /\ t # r /\ t # f
      /\ T0(m, r) \subseteq M /\ t \notin T0(m, r)
  BY TablesUnion DEF TreeOK
<1>2. Pte(f, {}) \in Ptes /\ Pte(f, {}).v = TRUE /\ Pte(f, {}).ppn = f
  BY <1>1, PteFacts DEF Perms
<1>3. m2.free = m.free /\ m2 \in Memory(M)
  BY DEF Wrote
<1>4. /\ m2.tab[t][i] = Pte(f, {})
      /\ \A j \in Idx \ {i} : m2.tab[t][j] = m.tab[t][j]
      /\ \A u \in M \ {t} : m2.tab[u] = m.tab[u]
  BY DEF Wrote
<1>5. m2.tab[r] = m.tab[r] /\ m2.tab[f] = EmptyTable
  BY <1>1, <1>4
<1>6. T1(m2, r) = T1(m, r)
  <2>1. ASSUME NEW x
        PROVE  x \in T1(m2, r) <=> x \in T1(m, r)
    BY <1>5, BelowMember DEF T1
  <2> QED
    BY <2>1
<1>7. ASSUME NEW u \in T1(m, r), NEW j \in Idx
      PROVE  \/ u = t /\ j = i /\ m2.tab[u][j] = Pte(f, {})
             \/ ~(u = t /\ j = i) /\ m2.tab[u][j] = m.tab[u][j]
  BY <1>1, <1>4
<1>8. ASSUME NEW x
      PROVE  x \in T0(m2, r) <=> x \in T0(m, r) \/ x = f
  <2>1. x \in T0(m2, r) <=> \E u \in T1(m, r), j \in Idx : m2.tab[u][j].v /\ x = m2.tab[u][j].ppn
    BY <1>6, BelowMember DEF T0
  <2>2. x \in T0(m, r) <=> \E u \in T1(m, r), j \in Idx : m.tab[u][j].v /\ x = m.tab[u][j].ppn
    BY BelowMember DEF T0
  <2> QED
    BY <1>2, <1>7, <2>1, <2>2
<1>9. T0(m2, r) = T0(m, r) \cup {f}
  BY <1>8
<1>10. TreeOK(M, m2, r)
  <2>1. /\ r \in M \ m2.free
        /\ T1(m2, r) \subseteq M \ m2.free /\ r \notin T1(m2, r)
        /\ T0(m2, r) \subseteq M \ m2.free /\ r \notin T0(m2, r) /\ T0(m2, r) \cap T1(m2, r) = {}
    BY <1>1, <1>3, <1>6, <1>9 DEF TreeOK
  <2>2. RootOnce(m2, r)
    BY <1>5 DEF TreeOK, RootOnce
  <2>3. Level1Once(m2, r)
    <3> SUFFICES ASSUME NEW u \in T1(m2, r), NEW w \in T1(m2, r), NEW j \in Idx, NEW k \in Idx,
                        m2.tab[u][j].v, m2.tab[w][k].v, m2.tab[u][j].ppn = m2.tab[w][k].ppn
                 PROVE  u = w /\ j = k
      BY DEF Level1Once
    <3>1. u \in T1(m, r) /\ w \in T1(m, r)
      BY <1>6
    <3>2. ASSUME NEW x \in T1(m, r), NEW l \in Idx, m.tab[x][l].v
          PROVE  m.tab[x][l].ppn # f
      BY <1>1, <3>2, BelowMember DEF T0
    <3>3. CASE ~(u = t /\ j = i) /\ ~(w = t /\ k = i)
      BY <1>7, <3>1, <3>3 DEF TreeOK, Level1Once
    <3> QED
      BY <1>2, <1>7, <3>1, <3>2, <3>3
  <2> QED
    BY <2>1, <2>2, <2>3 DEF TreeOK
<1>11. ASSUME NEW v \in VPages
       PROVE  Translation(m2, r, v) = Translation(m, r, v)
  <2>1. X2(v) \in Idx /\ X1(v) \in Idx /\ X0(v) \in Idx
    BY Positions
  <2> DEFINE e2 == m.tab[r][X2(v)]
             e1 == m.tab[e2.ppn][X1(v)]
  <2>2. m2.tab[r][X2(v)] = e2
    BY <1>5
  <2>3. CASE ~e2.v
    BY <2>2, <2>3, TranslationPath
  <2>4. CASE e2.v /\ e2.ppn = t /\ X1(v) = i
    <3>1. Translation(m, r, v) = NoPte
      BY <2>4, TranslationPath
    <3>2. m2.tab[e2.ppn][X1(v)] = Pte(f, {})
      BY <1>4, <2>4
    <3>3. m2.tab[f][X0(v)] = NoPte
      BY <1>5, <2>1, EmptyFacts
    <3> QED
      BY <1>2, <2>2, <3>1, <3>2, <3>3, TranslationPath
  <2>5. CASE e2.v /\ ~(e2.ppn = t /\ X1(v) = i)
    <3>1. e2.ppn \in T1(m, r)
      BY <2>1, <2>5, BelowMember DEF T1
    <3>2. m2.tab[e2.ppn][X1(v)] = e1
      BY <1>7, <2>1, <2>5, <3>1
    <3>3. e1.v => e1.ppn \in T0(m, r)
      BY <2>1, <3>1, BelowMember DEF T0
    <3>4. e1.v => m2.tab[e1.ppn] = m.tab[e1.ppn]
      BY <1>1, <1>4, <3>3
    <3> QED
      BY <2>2, <3>2, <3>4, TranslationPath
  <2> QED
    BY <2>3, <2>4, <2>5
<1> QED
  BY <1>3, <1>4, <1>5, <1>6, <1>9, <1>10, <1>11

\* Table t of level 0 translates page v.
LeadsTo(m, r, v, t) ==
    /\ m.tab[r][X2(v)].v
    /\ m.tab[m.tab[r][X2(v)].ppn][X1(v)].v
    /\ t = m.tab[m.tab[r][X2(v)].ppn][X1(v)].ppn

\* An entry of a table of level 0.
LeafWritten(M, m, m2, r, v, e) ==
    /\ TreeOK(M, m2, r) /\ T1(m2, r) = T1(m, r) /\ T0(m2, r) = T0(m, r)
    /\ m2.tab[r] = m.tab[r]
    /\ Translation(m2, r, v) = e
    /\ \A u \in VPages \ {v} : Translation(m2, r, u) = Translation(m, r, u)

\* An entry of a table of level 0 that leads to no table: map_page and unmap_page write it.
LEMMA WriteLeaf ==
    ASSUME NEW M \in SUBSET Nat, NEW m \in Memory(M), NEW r, TreeOK(M, m, r),
           NEW v \in VPages, NEW t, LeadsTo(m, r, v, t),
           NEW e \in Ptes, NEW m2, Wrote(M, m, m2, t, X0(v), e)
    PROVE  LeafWritten(M, m, m2, r, v, e)
<1>1. X2(v) \in Idx /\ X1(v) \in Idx /\ X0(v) \in Idx
  BY Positions
<1> DEFINE t1 == m.tab[r][X2(v)].ppn
<1>2. t1 \in T1(m, r)
  BY <1>1, BelowMember DEF T1, LeadsTo
<1>3. t \in T0(m, r)
  BY <1>1, <1>2, BelowMember DEF T0, LeadsTo
<1>4. /\ t \in M /\ t # r /\ t \notin T1(m, r) /\ r \in M
      /\ T1(m, r) \subseteq M /\ T0(m, r) \subseteq M
  BY <1>3 DEF TreeOK
<1>5. /\ m2 \in Memory(M) /\ m2.free = m.free
      /\ m2.tab[t][X0(v)] = e
      /\ \A j \in Idx \ {X0(v)} : m2.tab[t][j] = m.tab[t][j]
      /\ \A u \in M \ {t} : m2.tab[u] = m.tab[u]
  BY DEF Wrote
<1>6. m2.tab[r] = m.tab[r] /\ \A u \in T1(m, r) : m2.tab[u] = m.tab[u]
  BY <1>4, <1>5
<1>7. T1(m2, r) = T1(m, r)
  <2>1. ASSUME NEW x
        PROVE  x \in T1(m2, r) <=> x \in T1(m, r)
    BY <1>6, BelowMember DEF T1
  <2> QED
    BY <2>1
<1>8. T0(m2, r) = T0(m, r)
  <2>1. ASSUME NEW x
        PROVE  x \in T0(m2, r) <=> x \in T0(m, r)
    BY <1>6, <1>7, BelowMember DEF T0
  <2> QED
    BY <2>1
<1>9. TreeOK(M, m2, r)
  BY <1>5, <1>6, <1>7, <1>8 DEF TreeOK, RootOnce, Level1Once
<1>10. Translation(m2, r, v) = e
  <2>1. m2.tab[r][X2(v)] = m.tab[r][X2(v)] /\ m2.tab[t1][X1(v)] = m.tab[t1][X1(v)]
    BY <1>2, <1>6
  <2> QED
    BY <1>5, <2>1, TranslationPath DEF LeadsTo
<1>11. ASSUME NEW u \in VPages \ {v}
       PROVE  Translation(m2, r, u) = Translation(m, r, u)
  <2>1. X2(u) \in Idx /\ X1(u) \in Idx /\ X0(u) \in Idx
    BY Positions
  <2> DEFINE e2 == m.tab[r][X2(u)]
             e1 == m.tab[e2.ppn][X1(u)]
  <2>2. m2.tab[r][X2(u)] = e2
    BY <1>6
  <2>3. CASE ~e2.v
    BY <2>2, <2>3, TranslationPath
  <2>4. CASE e2.v
    <3>1. e2.ppn \in T1(m, r)
      BY <2>1, <2>4, BelowMember DEF T1
    <3>2. m2.tab[e2.ppn][X1(u)] = e1
      BY <1>6, <3>1
    <3>3. CASE ~e1.v
      BY <2>2, <3>2, <3>3, TranslationPath
    <3>4. CASE e1.v
      <4>1. e1.ppn \in T0(m, r)
        BY <2>1, <3>1, <3>4, BelowMember DEF T0
      <4>2. m2.tab[e1.ppn][X0(u)] = m.tab[e1.ppn][X0(u)]
        <5>1. CASE e1.ppn # t
          BY <1>4, <1>5, <4>1, <5>1
        <5>2. CASE e1.ppn = t
          <6>1. e2.ppn = t1 /\ X1(u) = X1(v)
            <7>1. m.tab[e2.ppn][X1(u)].v /\ m.tab[t1][X1(v)].v
                  /\ m.tab[e2.ppn][X1(u)].ppn = m.tab[t1][X1(v)].ppn
              BY <3>4, <5>2 DEF LeadsTo
            <7>2. Level1Once(m, r)
              BY DEF TreeOK
            <7> HIDE DEF e2, t1
            <7> QED
              BY <1>1, <1>2, <2>1, <3>1, <7>1, <7>2 DEF Level1Once
          <6>2. X2(u) = X2(v)
            BY <1>1, <2>1, <2>4, <6>1 DEF TreeOK, RootOnce, LeadsTo
          <6>3. X0(u) # X0(v)
            BY <6>1, <6>2, SamePositions
          <6> QED
            BY <1>5, <2>1, <5>2, <6>3
        <5> QED
          BY <5>1, <5>2
      <4> QED
        BY <2>2, <3>2, <3>4, <4>2, TranslationPath
    <3> QED
      BY <3>3, <3>4
  <2> QED
    BY <2>3, <2>4
<1> QED
  BY <1>6, <1>7, <1>8, <1>9, <1>10, <1>11 DEF LeafWritten

\* What walk may do to memory: take free pages for new tables, which changes no
\* translation.  Only entry k of the root may become valid.
Grown(M, m, m2, r, k) ==
    /\ m2 \in Memory(M) /\ TreeOK(M, m2, r)
    /\ m2.free \subseteq m.free
    /\ Tables(m, r) \subseteq Tables(m2, r)
    /\ Tables(m2, r) \subseteq Tables(m, r) \cup (m.free \ m2.free)
    /\ \A j \in Idx \ {k} : m2.tab[r][j] = m.tab[r][j]
    /\ \A v \in VPages : Translation(m2, r, v) = Translation(m, r, v)

\* Every page taken has become a table.
NoLoss(m, m2, r) == m.free \ m2.free \subseteq Tables(m2, r)

\* Growth at two levels is growth.
LEMMA GrownTwice ==
    ASSUME NEW M, NEW m, NEW m2, NEW m3, NEW r, NEW k,
           Grown(M, m, m2, r, k), Grown(M, m2, m3, r, k)
    PROVE  /\ Grown(M, m, m3, r, k)
           /\ NoLoss(m, m2, r) /\ NoLoss(m2, m3, r) => NoLoss(m, m3, r)
<1>1. m3 \in Memory(M) /\ TreeOK(M, m3, r) /\ m3.free \subseteq m.free /\ Tables(m, r) \subseteq Tables(m3, r)
  BY DEF Grown
<1>2. Tables(m3, r) \subseteq Tables(m, r) \cup (m.free \ m3.free)
  BY DEF Grown
<1>3. \A j \in Idx \ {k} : m3.tab[r][j] = m.tab[r][j]
  BY DEF Grown
<1>4. \A v \in VPages : Translation(m3, r, v) = Translation(m, r, v)
  BY DEF Grown
<1>5. NoLoss(m, m2, r) /\ NoLoss(m2, m3, r) => NoLoss(m, m3, r)
  BY DEF Grown, NoLoss
<1> QED
  BY <1>1, <1>2, <1>3, <1>4, <1>5 DEF Grown

\* alloc_page inside walk.
LEMMA TakeGrows ==
    ASSUME NEW M \in SUBSET Nat, NEW m \in Memory(M), NEW r, TreeOK(M, m, r), NEW f \in m.free
    PROVE  /\ TreeOK(M, Taken(m, f), r)
           /\ T1(Taken(m, f), r) = T1(m, r) /\ T0(Taken(m, f), r) = T0(m, r)
           /\ Tables(Taken(m, f), r) = Tables(m, r)
           /\ f \in M /\ f \notin Tables(m, r)
           /\ Taken(m, f).tab[r] = m.tab[r]
           /\ \A t \in Tables(m, r) : Taken(m, f).tab[t] = m.tab[t]
           /\ \A v \in VPages : Translation(Taken(m, f), r, v) = Translation(m, r, v)
<1> DEFINE n == Taken(m, f)
<1>1. /\ n \in Memory(M) /\ n.free = m.free \ {f} /\ \A t \in M \ {f} : n.tab[t] = m.tab[t]
  BY TakeKeeps
<1>2. Tables(m, r) = {r} \cup T1(m, r) \cup T0(m, r)
  BY TablesUnion
<1>3. f \in M /\ f \notin Tables(m, r) /\ Tables(m, r) \subseteq M /\ r \in Tables(m, r)
  BY <1>2, MemoryFacts DEF TreeOK
<1>4. \A t \in Tables(m, r) : n.tab[t] = m.tab[t]
  BY <1>1, <1>3
<1>5. n.free \subseteq m.free
  BY <1>1
<1> HIDE DEF n
<1>6. /\ TreeOK(M, n, r) /\ T1(n, r) = T1(m, r) /\ T0(n, r) = T0(m, r)
      /\ \A v \in VPages : Translation(n, r, v) = Translation(m, r, v)
  BY <1>1, <1>4, <1>5, SameTables
<1>7. Tables(n, r) = Tables(m, r)
  BY <1>2, <1>6, TablesUnion
<1> QED
  BY <1>3, <1>4, <1>6, <1>7 DEF n

\* The cases of Descend with alloc.
DescendResult(m, t, i, d) ==
    \/ m.tab[t][i].v /\ d = [st |-> "ok", ppn |-> m.tab[t][i].ppn, m |-> m]
    \/ ~m.tab[t][i].v /\ m.free = {} /\ d = [st |-> "fail", ppn |-> 0, m |-> m]
    \/ ~m.tab[t][i].v /\ \E f \in m.free :
          d = [st |-> "fault", ppn |-> f, m |-> Taken(m, f)]
    \/ ~m.tab[t][i].v /\ \E f \in m.free :
          d = [st |-> "ok", ppn |-> f, m |-> [Taken(m, f) EXCEPT !.tab[t][i] = Pte(f, {})]]

\* What Descend and walk return.
IsResult(d) == d = [st |-> d.st, ppn |-> d.ppn, m |-> d.m]

\* A round of the walk returns a record of three fields.
LEMMA DescendReturns ==
    ASSUME NEW m, NEW t, NEW i, NEW d, DescendResult(m, t, i, d)
    PROVE  IsResult(d)
BY DEF DescendResult, IsResult

\* The four ways a round of the walk can end.
LEMMA DescendCases ==
    ASSUME NEW M \in SUBSET Nat, NEW m \in Memory(M), NEW t \in M, NEW i \in Idx, NEW reach
    PROVE  DescendResult(m, t, i, Descend(m, t, i, TRUE, reach))
<1> DEFINE a == alloc_page(m, reach)
<1>1. CASE m.tab[t][i].v
  BY <1>1 DEF Descend, DescendResult
<1>2. CASE ~m.tab[t][i].v /\ m.free = {}
  <2>1. a = [st |-> "fail", ppn |-> 0, m |-> m]
    BY <1>2, AllocPage
  <2> QED
    BY <1>2, <2>1 DEF Descend, DescendResult
<1>3. CASE ~m.tab[t][i].v /\ m.free # {}
  <2>1. PICK f \in m.free :
            a = [st |-> IF f \in reach THEN "ok" ELSE "fault", ppn |-> f, m |-> Taken(m, f)]
    BY <1>3, AllocPage
  <2>2. CASE f \in reach
    <3>1. a.st = "ok" /\ a.ppn = f /\ a.m = Taken(m, f) /\ a = [st |-> "ok", ppn |-> f, m |-> Taken(m, f)]
      BY <2>1, <2>2
    <3>2. Descend(m, t, i, TRUE, reach) = [a EXCEPT !.m.tab[t][i] = Pte(a.ppn, {})]
      BY <1>3, <3>1 DEF Descend
    <3>3. [a EXCEPT !.m.tab[t][i] = Pte(a.ppn, {})]
            = [st |-> "ok", ppn |-> f, m |-> [Taken(m, f) EXCEPT !.tab[t][i] = Pte(f, {})]]
      <4> HIDE DEF a
      <4> QED
        BY <3>1
    <3> QED
      BY <1>3, <3>2, <3>3 DEF DescendResult
  <2>3. CASE f \notin reach
    <3>1. a.st # "ok" /\ a = [st |-> "fault", ppn |-> f, m |-> Taken(m, f)]
      BY <2>1, <2>3
    <3>2. Descend(m, t, i, TRUE, reach) = a
      BY <1>3, <3>1 DEF Descend
    <3> QED
      BY <1>3, <3>1, <3>2 DEF DescendResult
  <2> QED
    BY <2>2, <2>3
<1> QED
  BY <1>1, <1>2, <1>3

\* The result of a call: what it leaves and how it ended.
Results == {"ok", "fail", "fault"}

\* One round of walk at the root.
LEMMA DescendRoot ==
    ASSUME NEW M \in SUBSET Nat, NEW m \in Memory(M), NEW r, TreeOK(M, m, r), NEW i \in Idx,
           NEW d, DescendResult(m, r, i, d)
    PROVE  /\ d.st \in Results /\ Grown(M, m, d.m, r, i)
           /\ d.st # "fault" => NoLoss(m, d.m, r)
           /\ d.st = "fail" => m.free = {}
           /\ d.st = "ok" => d.m.tab[r][i].v /\ d.ppn = d.m.tab[r][i].ppn
           /\ d.st = "ok" /\ ~m.tab[r][i].v => m.free # {}
<1>1. r \in M
  BY DEF TreeOK
<1>2. Grown(M, m, m, r, i) /\ NoLoss(m, m, r)
  BY DEF Grown, NoLoss
<1>3. CASE m.tab[r][i].v /\ d = [st |-> "ok", ppn |-> m.tab[r][i].ppn, m |-> m]
  <2>1. d.st = "ok" /\ d.ppn = m.tab[r][i].ppn /\ d.m = m
    BY <1>3
  <2> QED
    BY <1>2, <1>3, <2>1 DEF Results
<1>4. CASE m.free = {} /\ d = [st |-> "fail", ppn |-> 0, m |-> m]
  <2>1. d.st = "fail" /\ d.m = m
    BY <1>4
  <2> QED
    BY <1>2, <1>4, <2>1 DEF Results
<1>5. ASSUME NEW f \in m.free, d = [st |-> "fault", ppn |-> f, m |-> Taken(m, f)]
      PROVE  d.st = "fault" /\ Grown(M, m, d.m, r, i)
  <2> DEFINE n == Taken(m, f)
  <2>1. d.st = "fault" /\ d.m = n
    BY <1>5
  <2>2. n \in Memory(M) /\ n.free = m.free \ {f}
    BY TakeKeeps
  <2>3. /\ TreeOK(M, n, r) /\ Tables(n, r) = Tables(m, r) /\ n.tab[r] = m.tab[r]
        /\ \A v \in VPages : Translation(n, r, v) = Translation(m, r, v)
    BY TakeGrows
  <2> HIDE DEF n
  <2>4. Grown(M, m, n, r, i)
    BY <2>2, <2>3 DEF Grown
  <2> QED
    BY <2>1, <2>4
<1>6. ASSUME ~m.tab[r][i].v, NEW f \in m.free,
             d = [st |-> "ok", ppn |-> f, m |-> [Taken(m, f) EXCEPT !.tab[r][i] = Pte(f, {})]]
      PROVE  /\ d.st = "ok" /\ Grown(M, m, d.m, r, i) /\ NoLoss(m, d.m, r)
             /\ d.m.tab[r][i].v /\ d.ppn = d.m.tab[r][i].ppn
  <2> DEFINE n == Taken(m, f)
             n2 == [n EXCEPT !.tab[r][i] = Pte(f, {})]
  <2>1. d.st = "ok" /\ d.ppn = f /\ d.m = n2
    BY <1>6
  <2>2. n \in Memory(M) /\ n.free = m.free \ {f} /\ n.tab[f] = EmptyTable
    BY TakeKeeps
  <2>3. /\ TreeOK(M, n, r) /\ Tables(n, r) = Tables(m, r) /\ n.tab[r] = m.tab[r]
        /\ f \in M /\ f \notin Tables(m, r)
        /\ \A v \in VPages : Translation(n, r, v) = Translation(m, r, v)
    BY TakeGrows
  <2> HIDE DEF n
  <2>4. Pte(f, {}) \in Ptes /\ Pte(f, {}).v = TRUE /\ Pte(f, {}).ppn = f
    BY <2>3, PteFacts DEF Perms
  <2>5. Wrote(M, n, n2, r, i, Pte(f, {}))
    BY <1>1, <2>2, <2>4, WriteEntry
  <2>6. ~n.tab[r][i].v /\ f \in M \ n.free /\ f \notin Tables(n, r)
    BY <1>6, <2>2, <2>3
  <2> HIDE DEF n2
  <2>7. /\ n2 \in Memory(M) /\ n2.free = n.free /\ TreeOK(M, n2, r)
        /\ T1(n2, r) = T1(n, r) \cup {f} /\ T0(n2, r) = T0(n, r)
        /\ n2.tab[r][i] = Pte(f, {})
        /\ \A j \in Idx \ {i} : n2.tab[r][j] = n.tab[r][j]
        /\ \A v \in VPages : Translation(n2, r, v) = Translation(n, r, v)
    BY <2>2, <2>3, <2>5, <2>6, HookRoot
  <2>8. Tables(n2, r) = Tables(m, r) \cup {f}
    BY <2>3, <2>7, TablesUnion
  <2>9. Grown(M, m, n2, r, i)
    BY <2>2, <2>3, <2>7, <2>8 DEF Grown
  <2>10. NoLoss(m, n2, r)
    BY <2>2, <2>7, <2>8 DEF NoLoss
  <2> QED
    BY <2>1, <2>4, <2>7, <2>9, <2>10
<1> QED
  BY <1>3, <1>4, <1>5, <1>6 DEF Results, DescendResult

\* One round of walk at level 1.
Level1Result(M, m, r, t, i, k, d) ==
    /\ d.st \in Results /\ Grown(M, m, d.m, r, k) /\ d.m.tab[r] = m.tab[r]
    /\ d.st # "fault" => NoLoss(m, d.m, r)
    /\ d.st = "fail" => m.free = {}
    /\ d.st = "ok" => d.m.tab[t][i].v /\ d.ppn = d.m.tab[t][i].ppn

\* The second round, from a table of level 1.
LEMMA DescendLevel1 ==
    ASSUME NEW M \in SUBSET Nat, NEW m \in Memory(M), NEW r, TreeOK(M, m, r), NEW t \in T1(m, r),
           NEW i \in Idx, NEW k, NEW d, DescendResult(m, t, i, d)
    PROVE  Level1Result(M, m, r, t, i, k, d)
<1>1. t \in M /\ t \in Tables(m, r)
  BY TablesUnion DEF TreeOK
<1>2. Grown(M, m, m, r, k) /\ NoLoss(m, m, r)
  BY DEF Grown, NoLoss
<1>3. CASE m.tab[t][i].v /\ d = [st |-> "ok", ppn |-> m.tab[t][i].ppn, m |-> m]
  <2>1. d.st = "ok" /\ d.ppn = m.tab[t][i].ppn /\ d.m = m
    BY <1>3
  <2> QED
    BY <1>2, <1>3, <2>1 DEF Results, Level1Result
<1>4. CASE m.free = {} /\ d = [st |-> "fail", ppn |-> 0, m |-> m]
  <2>1. d.st = "fail" /\ d.m = m
    BY <1>4
  <2> QED
    BY <1>2, <1>4, <2>1 DEF Results, Level1Result
<1>5. ASSUME NEW f \in m.free, d = [st |-> "fault", ppn |-> f, m |-> Taken(m, f)]
      PROVE  d.st = "fault" /\ Grown(M, m, d.m, r, k) /\ d.m.tab[r] = m.tab[r]
  <2> DEFINE n == Taken(m, f)
  <2>1. d.st = "fault" /\ d.m = n
    BY <1>5
  <2>2. n \in Memory(M) /\ n.free = m.free \ {f}
    BY TakeKeeps
  <2>3. /\ TreeOK(M, n, r) /\ Tables(n, r) = Tables(m, r) /\ n.tab[r] = m.tab[r]
        /\ \A v \in VPages : Translation(n, r, v) = Translation(m, r, v)
    BY TakeGrows
  <2> HIDE DEF n
  <2>4. Grown(M, m, n, r, k)
    BY <2>2, <2>3 DEF Grown
  <2> QED
    BY <2>1, <2>3, <2>4
<1>6. ASSUME ~m.tab[t][i].v, NEW f \in m.free,
             d = [st |-> "ok", ppn |-> f, m |-> [Taken(m, f) EXCEPT !.tab[t][i] = Pte(f, {})]]
      PROVE  /\ d.st = "ok" /\ Grown(M, m, d.m, r, k) /\ NoLoss(m, d.m, r) /\ d.m.tab[r] = m.tab[r]
             /\ d.m.tab[t][i].v /\ d.ppn = d.m.tab[t][i].ppn
  <2> DEFINE n == Taken(m, f)
             n2 == [n EXCEPT !.tab[t][i] = Pte(f, {})]
  <2>1. d.st = "ok" /\ d.ppn = f /\ d.m = n2
    BY <1>6
  <2>2. n \in Memory(M) /\ n.free = m.free \ {f} /\ n.tab[f] = EmptyTable
    BY TakeKeeps
  <2>3. /\ TreeOK(M, n, r) /\ Tables(n, r) = Tables(m, r) /\ n.tab[r] = m.tab[r]
        /\ f \in M /\ f \notin Tables(m, r) /\ T1(n, r) = T1(m, r)
        /\ n.tab[t] = m.tab[t]
        /\ \A v \in VPages : Translation(n, r, v) = Translation(m, r, v)
    BY <1>1, TakeGrows
  <2> HIDE DEF n
  <2>4. Pte(f, {}) \in Ptes /\ Pte(f, {}).v = TRUE /\ Pte(f, {}).ppn = f
    BY <2>3, PteFacts DEF Perms
  <2>5. Wrote(M, n, n2, t, i, Pte(f, {}))
    BY <1>1, <2>2, <2>4, WriteEntry
  <2>6. ~n.tab[t][i].v /\ f \in M \ n.free /\ f \notin Tables(n, r) /\ t \in T1(n, r)
    BY <1>6, <2>2, <2>3
  <2> HIDE DEF n2
  <2>7. /\ n2 \in Memory(M) /\ n2.free = n.free /\ TreeOK(M, n2, r)
        /\ T1(n2, r) = T1(n, r) /\ T0(n2, r) = T0(n, r) \cup {f}
        /\ n2.tab[t][i] = Pte(f, {}) /\ n2.tab[r] = n.tab[r]
        /\ \A v \in VPages : Translation(n2, r, v) = Translation(n, r, v)
    BY <2>2, <2>3, <2>5, <2>6, HookLevel1
  <2>8. Tables(n2, r) = Tables(m, r) \cup {f}
    BY <2>3, <2>7, TablesUnion
  <2>9. Grown(M, m, n2, r, k)
    BY <2>2, <2>3, <2>7, <2>8 DEF Grown
  <2>10. NoLoss(m, n2, r)
    BY <2>2, <2>7, <2>8 DEF NoLoss
  <2> QED
    BY <2>1, <2>3, <2>4, <2>7, <2>9, <2>10
<1> QED
  BY <1>3, <1>4, <1>5, <1>6 DEF Results, DescendResult, Level1Result

\* walk with alloc.
WalkResult(M, m, r, v, w) ==
    /\ w.st \in Results /\ IsResult(w) /\ Grown(M, m, w.m, r, X2(v))
    /\ w.st # "fault" => NoLoss(m, w.m, r)
    /\ w.st = "fail" => w.m.free = {}
    /\ w.st = "ok" => LeadsTo(w.m, r, v, w.ppn)
    /\ w.st = "ok" /\ ~m.tab[r][X2(v)].v => m.free # {}

\* walk with alloc = 1: it leads to the table of level 0, or has failed.
LEMMA Walk ==
    ASSUME NEW M \in SUBSET Nat, NEW m \in Memory(M), NEW r, TreeOK(M, m, r), NEW n \in Nat, NEW reach
    PROVE  WalkResult(M, m, r, VPage(n), walk(m, r, n, TRUE, reach))
<1> DEFINE v == VPage(n)
           w == walk(m, r, n, TRUE, reach)
           i == X2(v)
           l1 == Descend(m, r, i, TRUE, reach)
           l0 == Descend(l1.m, l1.ppn, X1(v), TRUE, reach)
<1>1. v \in VPages /\ i \in Idx /\ X1(v) \in Idx
  BY Levels, Positions
<1>2. w = IF l1.st # "ok" THEN l1 ELSE l0
  BY Levels DEF walk
<1> HIDE DEF v, w
<1>3. /\ l1.st \in Results /\ Grown(M, m, l1.m, r, i)
      /\ l1.st # "fault" => NoLoss(m, l1.m, r)
      /\ l1.st = "fail" => m.free = {}
      /\ l1.st = "ok" => l1.m.tab[r][i].v /\ l1.ppn = l1.m.tab[r][i].ppn
      /\ l1.st = "ok" /\ ~m.tab[r][i].v => m.free # {}
      /\ IsResult(l1)
  <2>1. r \in M
    BY DEF TreeOK
  <2>2. DescendResult(m, r, i, l1)
    BY <1>1, <2>1, DescendCases
  <2> HIDE DEF l1, i
  <2> QED
    BY <1>1, <2>2, DescendRoot, DescendReturns
<1>4. l1.m \in Memory(M) /\ TreeOK(M, l1.m, r) /\ l1.m.free \subseteq m.free
  BY <1>3 DEF Grown
<1> HIDE DEF l1
<1>5. CASE l1.st # "ok"
  <2>1. w = l1
    BY <1>2, <1>5
  <2>2. w.st = "fail" => w.m.free = {}
    BY <1>3, <1>4, <2>1
  <2> QED
    BY <1>3, <1>5, <2>1, <2>2 DEF v, w, WalkResult
<1>6. CASE l1.st = "ok"
  <2>1. w = l0
    BY <1>2, <1>6
  <2>2. l1.ppn \in T1(l1.m, r)
    BY <1>1, <1>3, <1>6, BelowMember DEF T1
  <2>3. /\ l0.st \in Results /\ Grown(M, l1.m, l0.m, r, i) /\ l0.m.tab[r] = l1.m.tab[r]
        /\ l0.st # "fault" => NoLoss(l1.m, l0.m, r)
        /\ l0.st = "fail" => l1.m.free = {}
        /\ l0.st = "ok" => l0.m.tab[l1.ppn][X1(v)].v /\ l0.ppn = l0.m.tab[l1.ppn][X1(v)].ppn
        /\ IsResult(l0)
    <3>1. l1.ppn \in M
      BY <1>4, <2>2 DEF TreeOK
    <3>2. DescendResult(l1.m, l1.ppn, X1(v), l0)
      BY <1>1, <1>4, <3>1, DescendCases
    <3> DEFINE m1 == l1.m
               t1 == l1.ppn
               x == X1(v)
    <3>3. m1 \in Memory(M) /\ TreeOK(M, m1, r) /\ t1 \in T1(m1, r) /\ x \in Idx
          /\ DescendResult(m1, t1, x, l0)
      BY <1>1, <1>4, <2>2, <3>2
    <3> HIDE DEF l0, i, m1, t1, x
    <3>4. /\ l0.st \in Results /\ Grown(M, m1, l0.m, r, i) /\ l0.m.tab[r] = m1.tab[r]
          /\ l0.st # "fault" => NoLoss(m1, l0.m, r)
          /\ l0.st = "fail" => m1.free = {}
          /\ l0.st = "ok" => l0.m.tab[t1][x].v /\ l0.ppn = l0.m.tab[t1][x].ppn
      <4>1. Level1Result(M, m1, r, t1, x, i, l0)
        BY <3>3, DescendLevel1
      <4> QED
        BY <4>1 DEF Level1Result
    <3>5. IsResult(l0)
      BY <3>3, DescendReturns
    <3> QED
      BY <3>4, <3>5 DEF m1, t1, x
  <2> HIDE DEF l0
  <2>4. Grown(M, m, l0.m, r, i) /\ (NoLoss(m, l1.m, r) /\ NoLoss(l1.m, l0.m, r) => NoLoss(m, l0.m, r))
    BY <1>3, <2>3, GrownTwice
  <2>5. NoLoss(m, l1.m, r)
    BY <1>3, <1>6
  <2>6. l0.st = "fail" => l0.m.free = {}
    BY <2>3 DEF Grown
  <2>7. l0.st = "ok" => LeadsTo(l0.m, r, v, l0.ppn)
    BY <1>3, <1>6, <2>3 DEF LeadsTo
  <2> QED
    BY <1>3, <1>6, <2>1, <2>3, <2>4, <2>5, <2>6, <2>7 DEF v, w, WalkResult
<1> QED
  BY <1>5, <1>6

\* walk without alloc finds the table of level 0, if there is one.
LEMMA WalkOnly ==
    ASSUME NEW m, NEW r, NEW n \in Nat
    PROVE  LET w == walk(m, r, n, FALSE, {}) IN
           \/ w.st = "ok" /\ LeadsTo(m, r, VPage(n), w.ppn)
           \/ w.st # "ok" /\ Translation(m, r, VPage(n)) = NoPte
<1> DEFINE v == VPage(n)
           w == walk(m, r, n, FALSE, {})
<1>1. v \in VPages /\ vpn_level(n, 2) = X2(v) /\ vpn_level(n, 1) = X1(v)
  BY Levels
<1> HIDE DEF v
<1> DEFINE e2 == m.tab[r][X2(v)]
           e1 == m.tab[e2.ppn][X1(v)]
<1>2. CASE ~e2.v
  <2>1. w.st = "fail"
    BY <1>1, <1>2 DEF walk, Descend
  <2>2. Translation(m, r, v) = NoPte
    BY <1>2, TranslationPath
  <2> QED
    BY <2>1, <2>2 DEF v
<1>3. CASE e2.v /\ ~e1.v
  <2>1. w.st = "fail"
    BY <1>1, <1>3 DEF walk, Descend
  <2>2. Translation(m, r, v) = NoPte
    BY <1>3, TranslationPath
  <2> QED
    BY <2>1, <2>2 DEF v
<1>4. CASE e2.v /\ e1.v
  <2>1. w.st = "ok" /\ w.ppn = e1.ppn
    BY <1>1, <1>4 DEF walk, Descend
  <2>2. LeadsTo(m, r, v, w.ppn)
    BY <1>4, <2>1 DEF LeadsTo
  <2> QED
    BY <2>1, <2>2 DEF v
<1> QED
  BY <1>2, <1>3, <1>4

\* A page that walk leads to is translated by the entry in that table.
LEMMA LeadsToTranslation ==
    ASSUME NEW m, NEW r, NEW v, NEW t, LeadsTo(m, r, v, t)
    PROVE  Translation(m, r, v) = m.tab[t][X0(v)]
BY TranslationPath DEF LeadsTo

\* What map_page does, as the translations see it: page v gets entry e if it had
\* none and the call succeeds, and nothing else changes.
MapResult(M, m, r, v, e, d) ==
    /\ d.st \in Results /\ IsResult(d)
    /\ d.m \in Memory(M) /\ TreeOK(M, d.m, r)
    /\ d.m.free \subseteq m.free
    /\ Tables(m, r) \subseteq Tables(d.m, r)
    /\ Tables(d.m, r) \subseteq Tables(m, r) \cup (m.free \ d.m.free)
    /\ d.st # "fault" => NoLoss(m, d.m, r)
    /\ d.st = "fail" => d.m.free = {}
    /\ d.st = "ok" /\ ~m.tab[r][X2(v)].v => m.free # {}
    /\ \A j \in Idx \ {X2(v)} : d.m.tab[r][j] = m.tab[r][j]
    /\ \A u \in VPages \ {v} : Translation(d.m, r, u) = Translation(m, r, u)
    /\ Translation(d.m, r, v) =
          IF d.st = "ok" /\ ~Translation(m, r, v).v THEN e ELSE Translation(m, r, v)

\* What map_page does, however many tables it needs and wherever it fails.
LEMMA MapPage ==
    ASSUME NEW M \in SUBSET Nat, NEW m \in Memory(M), NEW r, TreeOK(M, m, r), NEW n \in Nat,
           NEW f \in Nat, NEW perm \in Perms, NEW reach
    PROVE  MapResult(M, m, r, VPage(n), Pte(f, perm), map_page(m, r, n, f, perm, reach))
<1> DEFINE v == VPage(n)
           e == Pte(f, perm)
           w == walk(m, r, n, TRUE, reach)
           d == map_page(m, r, n, f, perm, reach)
<1>1. v \in VPages /\ X0(v) \in Idx /\ vpn_level(n, 0) = X0(v)
  BY Levels, Positions
<1>2. e \in Ptes
  BY PteFacts
<1>3. /\ w.st \in Results /\ Grown(M, m, w.m, r, X2(v))
      /\ w.st # "fault" => NoLoss(m, w.m, r)
      /\ w.st = "fail" => w.m.free = {}
      /\ w.st = "ok" => LeadsTo(w.m, r, v, w.ppn)
      /\ w.st = "ok" /\ ~m.tab[r][X2(v)].v => m.free # {}
  <2>1. WalkResult(M, m, r, v, w)
    BY Walk
  <2> HIDE DEF v, w
  <2> QED
    BY <2>1 DEF WalkResult
<1>4. d = IF w.st # "ok" \/ w.m.tab[w.ppn][X0(v)].v THEN w
          ELSE [w EXCEPT !.m.tab[w.ppn][X0(v)] = e]
  BY <1>1 DEF map_page, Valid
<1>5. /\ w.m \in Memory(M) /\ TreeOK(M, w.m, r) /\ w.m.free \subseteq m.free
      /\ Tables(m, r) \subseteq Tables(w.m, r)
      /\ Tables(w.m, r) \subseteq Tables(m, r) \cup (m.free \ w.m.free)
      /\ \A j \in Idx \ {X2(v)} : w.m.tab[r][j] = m.tab[r][j]
      /\ \A u \in VPages : Translation(w.m, r, u) = Translation(m, r, u)
  BY <1>3 DEF Grown
<1>6. w.st = "ok" => w.m.tab[w.ppn][X0(v)] = Translation(m, r, v)
  <2> HIDE DEF w, v
  <2>1. ASSUME w.st = "ok"
        PROVE  Translation(w.m, r, v) = w.m.tab[w.ppn][X0(v)]
    <3>1. LeadsTo(w.m, r, v, w.ppn)
      BY <1>3, <2>1
    <3> QED
      BY <3>1, LeadsToTranslation
  <2> QED
    BY <1>1, <1>5, <2>1
<1>7. w = [st |-> w.st, ppn |-> w.ppn, m |-> w.m]
  <2>1. WalkResult(M, m, r, v, w)
    BY Walk
  <2> HIDE DEF v, w
  <2> QED
    BY <2>1 DEF WalkResult, IsResult
<1> HIDE DEF v, e, w, d
<1>8. CASE w.st # "ok" \/ w.m.tab[w.ppn][X0(v)].v
  <2>1. d = w
    BY <1>4, <1>8
  <2>2. Translation(w.m, r, v) = Translation(m, r, v) /\ ~(w.st = "ok" /\ ~Translation(m, r, v).v)
    BY <1>1, <1>5, <1>6, <1>8
  <2>3. MapResult(M, m, r, v, e, w)
    BY <1>3, <1>5, <1>7, <2>2 DEF MapResult, IsResult
  <2> QED
    BY <2>1, <2>3 DEF v, e, d
<1>9. CASE w.st = "ok" /\ ~w.m.tab[w.ppn][X0(v)].v
  <2>1. d = [w EXCEPT !.m.tab[w.ppn][X0(v)] = e]
    BY <1>4, <1>9
  <2>2. d.st = "ok" /\ d.m = [w.m EXCEPT !.tab[w.ppn][X0(v)] = e] /\ IsResult(d)
    BY <1>7, <1>9, <2>1 DEF IsResult
  <2> DEFINE m1 == w.m
             t == w.ppn
  <2>3. m1 \in Memory(M) /\ TreeOK(M, m1, r) /\ LeadsTo(m1, r, v, t) /\ d.m = [m1 EXCEPT !.tab[t][X0(v)] = e]
    BY <1>3, <1>5, <1>9, <2>2
  <2>4. t \in M
    <3>1. X2(v) \in Idx /\ X1(v) \in Idx
      BY <1>1, Positions
    <3>2. m1.tab[r][X2(v)].ppn \in T1(m1, r)
      BY <2>3, <3>1, BelowMember DEF T1, LeadsTo
    <3>3. t \in T0(m1, r)
      BY <2>3, <3>1, <3>2, BelowMember DEF T0, LeadsTo
    <3> QED
      BY <2>3, <3>3 DEF TreeOK
  <2>5. Wrote(M, m1, d.m, t, X0(v), e)
    <3> HIDE DEF m1, t
    <3> QED
      BY <1>1, <1>2, <2>3, <2>4, WriteEntry
  <2>6. /\ TreeOK(M, d.m, r) /\ T1(d.m, r) = T1(m1, r) /\ T0(d.m, r) = T0(m1, r)
        /\ d.m.tab[r] = m1.tab[r]
        /\ Translation(d.m, r, v) = e
        /\ \A u \in VPages \ {v} : Translation(d.m, r, u) = Translation(m1, r, u)
    <3> HIDE DEF m1, t
    <3> QED
      <4>1. LeafWritten(M, m1, d.m, r, v, e)
        BY <1>1, <1>2, <2>3, <2>5, WriteLeaf
      <4> QED
        BY <4>1 DEF LeafWritten
  <2>7. d.m \in Memory(M) /\ d.m.free = m1.free
    BY <2>5 DEF Wrote
  <2>8. Tables(d.m, r) = Tables(m1, r)
    BY <2>6, TablesUnion
  <2>9. ~Translation(m, r, v).v
    BY <1>6, <1>9
  <2>10. NoLoss(m, d.m, r)
    BY <1>3, <1>9, <2>7, <2>8 DEF NoLoss
  <2>11. MapResult(M, m, r, v, e, d)
    BY <1>3, <1>5, <1>9, <2>2, <2>6, <2>7, <2>8, <2>9, <2>10 DEF MapResult, Results
  <2> QED
    BY <2>11 DEF v, e, d
<1> QED
  BY <1>8, <1>9

\* What unmap_page does: the page that v was mapped to is free again.
UnmapResult(M, m, r, v, d) ==
    \/ ~Translation(m, r, v).v /\ d.st = "fail" /\ d.m = m
    \/ /\ Translation(m, r, v).v /\ d.st = "ok"
       /\ d.m \in Memory(M) /\ TreeOK(M, d.m, r)
       /\ d.m.free = m.free \cup {Translation(m, r, v).ppn}
       /\ Tables(d.m, r) = Tables(m, r)
       /\ Translation(d.m, r, v) = NoPte
       /\ \A u \in VPages \ {v} : Translation(d.m, r, u) = Translation(m, r, u)

\* Freeing a page that is no table leaves the tree as it is.
LEMMA FreeKeeps ==
    ASSUME NEW M \in SUBSET Nat, NEW m \in Memory(M), NEW r, TreeOK(M, m, r),
           NEW f \in M \ Tables(m, r), NEW m2, m2.tab = m.tab, m2.free = m.free \cup {f}
    PROVE  /\ TreeOK(M, m2, r) /\ Tables(m2, r) = Tables(m, r)
           /\ \A u \in VPages : Translation(m2, r, u) = Translation(m, r, u)
<1>1. T1(m2, r) = T1(m, r)
  BY DEF T1, Below
<1>2. T0(m2, r) = T0(m, r)
  BY <1>1 DEF T0, Below
<1>3. Tables(m2, r) = Tables(m, r) /\ f # r /\ f \notin T1(m, r) /\ f \notin T0(m, r)
  BY <1>1, <1>2, TablesUnion
<1>4. TreeOK(M, m2, r)
  BY <1>1, <1>2, <1>3 DEF TreeOK, RootOnce, Level1Once
<1>5. \A u \in VPages : Translation(m2, r, u) = Translation(m, r, u)
  BY DEF Translation
<1> QED
  BY <1>3, <1>4, <1>5

\* What unmap_page does, when the page it frees is not a table.
LEMMA UnmapPage ==
    ASSUME NEW M \in SUBSET Nat, NEW m \in Memory(M), NEW r, TreeOK(M, m, r), NEW n \in Nat,
           \A e : e = Translation(m, r, VPage(n)) /\ e.v => e.ppn \in M \ Tables(m, r)
    PROVE  UnmapResult(M, m, r, VPage(n), unmap_page(m, r, n))
<1> DEFINE v == VPage(n)
           w == walk(m, r, n, FALSE, {})
           d == unmap_page(m, r, n)
           t == w.ppn
           x == X0(v)
<1>1. v \in VPages /\ x \in Idx /\ X1(v) \in Idx /\ X2(v) \in Idx /\ vpn_level(n, 0) = x
  BY Levels, Positions
<1>2. \/ w.st = "ok" /\ LeadsTo(m, r, v, t)
      \/ w.st # "ok" /\ Translation(m, r, v) = NoPte
  BY WalkOnly
<1>3. \/ (w.st # "ok" \/ ~m.tab[t][x].v) /\ d = [st |-> "fail", m |-> m]
      \/ /\ w.st = "ok" /\ m.tab[t][x].v
         /\ d = [st |-> "ok", m |-> [[m EXCEPT !.tab[t][x] = NoPte] EXCEPT !.free = @ \cup {m.tab[t][x].ppn}]]
  BY <1>1 DEF unmap_page, free_page, Cleared
<1>4. w.st = "ok" => Translation(m, r, v) = m.tab[t][x]
  <2> HIDE DEF v, w
  <2> QED
    BY <1>2, LeadsToTranslation
<1> HIDE DEF v, w, d, t, x
<1>5. CASE (w.st # "ok" \/ ~m.tab[t][x].v) /\ d = [st |-> "fail", m |-> m]
  <2>1. ~Translation(m, r, v).v
    BY <1>2, <1>4, <1>5, EmptyFacts
  <2>2. d.st = "fail" /\ d.m = m
    BY <1>5
  <2> QED
    BY <2>1, <2>2 DEF UnmapResult, v, d
<1>6. CASE /\ w.st = "ok" /\ m.tab[t][x].v
           /\ d = [st |-> "ok", m |-> [[m EXCEPT !.tab[t][x] = NoPte] EXCEPT !.free = @ \cup {m.tab[t][x].ppn}]]
  <2> DEFINE m1 == [m EXCEPT !.tab[t][x] = NoPte]
             f == m.tab[t][x].ppn
  <2>1. LeadsTo(m, r, v, t) /\ Translation(m, r, v) = m.tab[t][x] /\ Translation(m, r, v).v
    BY <1>2, <1>4, <1>6
  <2>2. t \in M
    <3>1. m.tab[r][X2(v)].ppn \in T1(m, r)
      BY <1>1, <2>1, BelowMember DEF T1, LeadsTo
    <3>2. t \in T0(m, r)
      BY <1>1, <2>1, <3>1, BelowMember DEF T0, LeadsTo
    <3> QED
      BY <3>2 DEF TreeOK
  <2>3. f \in M \ Tables(m, r) /\ f = Translation(m, r, v).ppn
    BY <2>1 DEF v
  <2>4. Wrote(M, m, m1, t, x, NoPte)
    BY <1>1, <2>2, EmptyFacts, WriteEntry
  <2>5. d.st = "ok" /\ d.m = [m1 EXCEPT !.free = @ \cup {f}]
    BY <1>6
  <2> HIDE DEF m1, f
  <2>6. m1 \in Memory(M) /\ m1.free = m.free
    BY <2>4 DEF Wrote
  <2>7. LeafWritten(M, m, m1, r, v, NoPte)
    BY <1>1, <2>1, <2>4, EmptyFacts, WriteLeaf DEF x
  <2>8. /\ TreeOK(M, m1, r) /\ T1(m1, r) = T1(m, r) /\ T0(m1, r) = T0(m, r)
        /\ Translation(m1, r, v) = NoPte
        /\ \A u \in VPages \ {v} : Translation(m1, r, u) = Translation(m, r, u)
    BY <2>7 DEF LeafWritten
  <2>9. Tables(m1, r) = Tables(m, r)
    BY <2>8, TablesUnion
  <2>10. /\ d.m.tab = m1.tab /\ d.m.free = m1.free \cup {f}
         /\ d.m \in Memory(M)
    BY <2>3, <2>5, <2>6 DEF Memory
  <2>11. f \in M \ Tables(m1, r)
    BY <2>3, <2>9
  <2>12. /\ TreeOK(M, d.m, r) /\ Tables(d.m, r) = Tables(m1, r)
         /\ \A u \in VPages : Translation(d.m, r, u) = Translation(m1, r, u)
    BY <2>6, <2>8, <2>10, <2>11, FreeKeeps
  <2>13. UnmapResult(M, m, r, v, d)
    BY <1>1, <2>1, <2>3, <2>5, <2>6, <2>8, <2>9, <2>10, <2>12 DEF UnmapResult
  <2> QED
    BY <2>13 DEF v, d
<1> QED
  BY <1>3, <1>5, <1>6

\* A new root.
LEMMA NewRoot ==
    ASSUME NEW M \in SUBSET Nat, NEW m \in Memory(M), NEW f \in m.free
    PROVE  LET n == Taken(m, f) IN
           /\ TreeOK(M, n, f) /\ Tables(n, f) = {f}
           /\ \A v \in VPages : Translation(n, f, v) = NoPte
           /\ \A i \in Idx : ~n.tab[f][i].v
<1> DEFINE n == Taken(m, f)
<1>1. n \in Memory(M) /\ n.free = m.free \ {f} /\ n.tab[f] = EmptyTable /\ f \in M
  BY TakeKeeps, MemoryFacts
<1> HIDE DEF n
<1>2. \A i \in Idx : ~n.tab[f][i].v
  BY <1>1, EmptyFacts
<1>3. T1(n, f) = {}
  <2>1. ASSUME NEW x PROVE x \notin T1(n, f)
    BY <1>2, BelowMember DEF T1
  <2> QED
    BY <2>1
<1>4. T0(n, f) = {}
  BY <1>3 DEF T0, Below
<1>5. TreeOK(M, n, f)
  BY <1>1, <1>2, <1>3, <1>4 DEF TreeOK, RootOnce, Level1Once
<1>6. Tables(n, f) = {f}
  BY <1>3, <1>4, TablesUnion
<1>7. ASSUME NEW v \in VPages
      PROVE  Translation(n, f, v) = NoPte
  BY <1>2, Positions, TranslationPath
<1> QED
  BY <1>2, <1>5, <1>6, <1>7 DEF n

------------------------------------------------------------------------------
(* The inductive invariant, in parts.                                      *)

ObjectsIn(M) == [ppn : M, off : 0 .. PAGE_SIZE - 1]
ProcRecords(M) ==
    [obj : ObjectsIn(M) \cup {NoObj}, pagetable : M \cup {0}, kstack : ObjectsIn(M) \cup {NoObj},
     ustack : M \cup {0}, heap_start : Nat, heap_end : Nat, state : {"UNUSED", "RUNNABLE", "RUNNING"}]
Calls == [op : {"none", "sbrk", "munmap"}, end : Nat, brk : Nat, addr : Nat, size : Nat]

Creating == {"proc", "pagetable", "kstack", "map_proc", "map_kstack", "load", "kernel", "uart"}
HasRoot == Creating \ {"proc", "pagetable"}
Running == {"user", "grow", "shrink", "munmap"}
Labels == Creating \cup Running \cup {"queue", "shell_init", "fail1", "halt"}

TypeInv ==
    /\ managed \in Memories /\ kernel_mapped \in BOOLEAN
    /\ mem \in Memory(managed)
    /\ partial \in [Classes -> Seq(ObjectsIn(managed))]
    /\ p \in ProcRecords(managed)
    /\ pc \in Labels
    /\ va \in Nat
    /\ call \in Calls
    /\ failed \in BOOLEAN

TreeInv == p.pagetable # 0 => TreeOK(managed, mem, p.pagetable)

\* Pages M, of which fr are free, T are tables, O belong to the caches and the
\* rest to the user, who sees them through map.
UsesOK(M, fr, T, O, map, lost) ==
    /\ fr \subseteq M /\ T \subseteq M \ fr /\ O \subseteq M \ (fr \cup T)
    /\ \A v \in UserVPages : map[v].v => map[v].ppn \in M \ (fr \cup T \cup O)
    /\ \A u, v \in UserVPages : map[u].v /\ map[v].v /\ map[u].ppn = map[v].ppn => u = v
    /\ lost \/ \A f \in M : f \in fr \cup T \cup O \/ \E v \in UserVPages : map[v].v /\ f = map[v].ppn

\* The address space.
Space == [v \in VPages |-> Mapped(v)]
UsesInv == UsesOK(managed, mem.free, TablePages, ObjectPages, Space, failed)

\* Multiples of the page size, as page numbers.
PageNo(x) == x \div PAGE_SIZE
Aligned(x) == x = PageNo(x) * PAGE_SIZE
ProgramEnd == PageNo(ALIGN_UP(BinarySize))      \* the first page of the heap
Guard == UserPages - 2
HeapPages == ProgramEnd .. Guard - 1
\* The pages of the user that create_proc maps.
FirstPages == 0 .. ProgramEnd - 1 \cup {UserPages - 1}
ImageVPages(n) == {KernelVPage(ImagePpn + k) : k \in {j \in ImagePages : j < n}}
ImageVPage == {KernelVPage(ImagePpn + k) : k \in ImagePages}
UartVPage == KernelVPage(UartPpn)
ObjectVPages == {KernelVPage(p.obj.ppn), KernelVPage(p.kstack.ppn)}

\* About an address space s.
Only(s, S) == \A v \in VPages : s[v].v => v \in S
KernelMaps(s, f, perm) == s[KernelVPage(f)] = Pte(f, perm)
ImageMapped(s, n) == \A k \in ImagePages : k < n => KernelMaps(s, ImagePpn + k, ImagePerm[k])
AllImageMapped(s) == \A k \in ImagePages : KernelMaps(s, ImagePpn + k, ImagePerm[k])
ProgramMapped(s, n) == \A v \in UserVPages : v < n => s[v].v /\ s[v].perm = {"R", "X", "U"}
HeapOnly(s, S) == \A v \in HeapPages : s[v].v => v \in S
HeapPerms(s) == \A v \in HeapPages : s[v].v => s[v].perm = {"R", "W", "U"}
Unmapped(s, a, b) == \A v \in a .. b : ~s[v].v

ProcMapped == KernelMaps(Space, p.obj.ppn, {"R", "W"})
KstackMapped == KernelMaps(Space, p.kstack.ppn, {"R", "W"})
UartMapped == KernelMaps(Space, UartPpn, {"R", "W"})
StackMapped == Space[UserPages - 1] = Pte(p.ustack, {"R", "W", "U"})
UartEntry == mem.tab[p.pagetable][X2(UartVPage)].v

\* What has been allocated, and the process's state.
Created == pc \in {"queue", "shell_init"} \/ p.state = "RUNNING"
ProcInv ==
    /\ pc \in {"proc", "pagetable"} => p.pagetable = 0
    /\ pc \in HasRoot \/ Created => p.pagetable # 0
    /\ pc \in Creating \ {"proc"} \/ Created => p.obj # NoObj
    /\ pc \in HasRoot \ {"kstack"} \/ Created => p.kstack # NoObj
    /\ pc = "proc" => p.obj = NoObj
    /\ pc \in {"proc", "pagetable", "kstack"} => p.kstack = NoObj
    /\ pc \in Creating \cup {"queue", "fail1"} => p.state = "UNUSED"
    /\ pc = "shell_init" <=> p.state = "RUNNABLE"
    /\ pc \in Running => p.state = "RUNNING"
    /\ p.state = "RUNNING" => pc \in Running \cup {"halt"}

\* The mappings that create_proc has made by then.
LoadInv ==
    /\ Aligned(va) /\ PageNo(va) <= ProgramEnd
    /\ Only(Space, ObjectVPages \cup 0 .. PageNo(va) - 1)
    /\ ProcMapped /\ KstackMapped /\ ProgramMapped(Space, PageNo(va))
LoadedInv ==
    /\ ProcMapped /\ KstackMapped /\ ProgramMapped(Space, ProgramEnd) /\ StackMapped
    /\ p.heap_start = ProgramEnd * PAGE_SIZE /\ p.heap_end = ProgramEnd * PAGE_SIZE
KernelInv ==
    \E k \in ImagePages :
        /\ va = ImageVa(k)
        /\ Only(Space, ObjectVPages \cup FirstPages \cup ImageVPages(k))
        /\ mem.free = {} \/ ImageMapped(Space, k)
UartInv ==
    /\ Only(Space, ObjectVPages \cup FirstPages \cup ImageVPage)
    /\ mem.free = {} \/ AllImageMapped(Space)
ReadyInv ==
    /\ Only(Space, ObjectVPages \cup FirstPages \cup ImageVPage \cup {UartVPage})
    /\ UartMapped /\ AllImageMapped(Space)
CreateInv ==
    /\ pc \in {"kstack", "map_proc"} => Only(Space, {})
    /\ pc = "map_kstack" => Only(Space, {KernelVPage(p.obj.ppn)}) /\ ProcMapped
    /\ pc = "load" => LoadInv
    /\ pc \in {"kernel", "uart", "queue", "shell_init"} => LoadedInv
    /\ pc = "kernel" => KernelInv
    /\ pc = "uart" => UartInv
    /\ pc \in HasRoot => ~UartEntry
    /\ pc \in {"queue", "shell_init"} => ReadyInv

\* The running process ...
RunInv ==
    p.state = "RUNNING" =>
        /\ ProcMapped /\ KstackMapped /\ UartMapped /\ AllImageMapped(Space)
        /\ ~Space[Guard].v /\ ~Space[UserPages].v
        /\ p.heap_start = ProgramEnd * PAGE_SIZE
        /\ Aligned(p.heap_end) /\ PageNo(p.heap_end) \in ProgramEnd .. Guard
        /\ HeapPerms(Space)

\* ... and the system calls on its memory.
GrowInv ==
    /\ call.end = call.brk /\ Aligned(call.brk) /\ PageNo(call.brk) \in ProgramEnd .. Guard
    /\ Aligned(va) /\ PageNo(va) \in ProgramEnd .. PageNo(call.brk)
    /\ failed \/ HeapOnly(Space, ProgramEnd .. PageNo(va) - 1)
ShrinkInv ==
    /\ Aligned(call.brk) /\ PageNo(call.brk) \in ProgramEnd .. Guard
    /\ call.end = p.heap_end
    /\ Aligned(va) /\ PageNo(va) \in PageNo(call.brk) .. PageNo(p.heap_end)
    /\ failed \/ HeapOnly(Space, (ProgramEnd .. PageNo(call.brk) - 1)
                                     \cup (PageNo(va) .. PageNo(p.heap_end) - 1))
MunmapInv ==
    /\ call.op = "munmap" /\ call.end = RangeEnd(call.addr, call.size)
    /\ Aligned(call.addr) /\ Aligned(va)
    /\ PageNo(call.addr) <= PageNo(va) /\ PageNo(va) <= UserPages
    /\ Unmapped(Space, PageNo(call.addr), PageNo(va) - 1)
HeapInv ==
    /\ pc \in {"user", "munmap"} => failed \/ HeapOnly(Space, ProgramEnd .. PageNo(p.heap_end) - 1)
    /\ pc = "grow" => GrowInv
    /\ pc = "shrink" => ShrinkInv
    /\ pc = "munmap" => MunmapInv
    /\ call.op = "munmap" => pc \in {"munmap", "halt"}

IInv == TypeInv /\ TreeInv /\ UsesInv /\ ProcInv /\ CreateInv /\ RunInv /\ HeapInv
------------------------------------------------------------------------------
(* Page numbers and the layout of the address space.                       *)

\* A multiple of the page size, as an address and as a page.
LEMMA Multiples ==
    ASSUME NEW a \in Nat
    PROVE  /\ a * PAGE_SIZE \in Nat /\ PageNo(a * PAGE_SIZE) = a /\ Aligned(a * PAGE_SIZE)
           /\ ALIGN_UP(a * PAGE_SIZE) = a * PAGE_SIZE
           /\ VPage(a * PAGE_SIZE) = a % PTE_COUNT^3
           /\ a \in VPages => VPage(a * PAGE_SIZE) = a
<1> DEFINE s == PAGE_SIZE
<1>1. s \in Nat \ {0} /\ PTE_COUNT^3 \in Nat \ {0} /\ 0 \in 0 .. s - 1 /\ s - 1 \in 0 .. s - 1
  BY Sizes
<1>2. a * s \in Nat /\ a * s + 0 = a * s
  BY <1>1
<1>3. (a * s + 0) \div s = a
  BY <1>1, Quotient
<1>4. (a * s + (s - 1)) \div s = a
  BY <1>1, Quotient
<1>5. a * s + s - 1 = a * s + (s - 1)
  BY <1>1, <1>2
<1>6. a \in VPages => a % PTE_COUNT^3 = a
  BY <1>1 DEF VPages
<1> HIDE DEF s
<1>7. PageNo(a * s) = a
  BY <1>2, <1>3 DEF PageNo, s
<1>8. ALIGN_UP(a * s) = a * s
  BY <1>4, <1>5 DEF ALIGN_UP, s
<1> QED
  BY <1>2, <1>6, <1>7, <1>8 DEF s, Aligned, VPage, PageNo

\* Multiples of the page size are ordered as the pages are.
LEMMA MultiplesOrder ==
    ASSUME NEW a \in Int, NEW b \in Int
    PROVE  a * PAGE_SIZE < b * PAGE_SIZE <=> a < b
<1> DEFINE s == PAGE_SIZE
<1>1. s \in Nat /\ s > 0
  BY Sizes
<1> HIDE DEF s
<1>2. a < b => a * s < b * s
  BY <1>1
<1>3. b <= a => b * s <= a * s
  BY <1>1
<1>4. a * s \in Int /\ b * s \in Int
  BY <1>1
<1> QED
  BY <1>2, <1>3, <1>4 DEF s

\* One round of a loop over addresses.
LEMMA NextPage ==
    ASSUME NEW x \in Nat, Aligned(x)
    PROVE  /\ PageNo(x) \in Nat /\ x + PAGE_SIZE \in Nat
           /\ Aligned(x + PAGE_SIZE) /\ PageNo(x + PAGE_SIZE) = PageNo(x) + 1
           /\ ALIGN_UP(x) = x /\ VPage(x) = PageNo(x) % PTE_COUNT^3
           /\ PageNo(x) \in VPages => VPage(x) = PageNo(x)
<1> DEFINE a == PageNo(x)
<1>1. PAGE_SIZE \in Nat \ {0}
  BY Sizes
<1>2. a \in Nat /\ a + 1 \in Nat /\ x = a * PAGE_SIZE
  BY <1>1 DEF PageNo, Aligned
<1> HIDE DEF a
<1>3. x + PAGE_SIZE = (a + 1) * PAGE_SIZE
  BY <1>1, <1>2
<1> QED
  BY <1>1, <1>2, <1>3, Multiples DEF a

\* Comparing aligned addresses is comparing pages.
LEMMA PageOrder ==
    ASSUME NEW x \in Nat, NEW y \in Nat, Aligned(x), Aligned(y)
    PROVE  x < y <=> PageNo(x) < PageNo(y)
<1>1. PageNo(x) \in Nat /\ PageNo(y) \in Nat
  BY Sizes DEF PageNo
<1> QED
  BY <1>1, MultiplesOrder DEF Aligned

\* ALIGN_UP rounds up to the next multiple.
LEMMA AlignUp ==
    ASSUME NEW x \in Int
    PROVE  \E q \in Int : ALIGN_UP(x) = q * PAGE_SIZE /\ x <= q * PAGE_SIZE /\ q * PAGE_SIZE < x + PAGE_SIZE
<1> DEFINE s == PAGE_SIZE
           y == x + s - 1
           q == y \div s
           r == y % s
<1>1. s \in Nat \ {0}
  BY Sizes
<1>2. y \in Int
  BY <1>1
<1>3. q \in Int /\ r \in 0 .. s - 1 /\ y = s * q + r
  <2> HIDE DEF y, s
  <2> QED
    BY <1>1, <1>2
<1>4. ALIGN_UP(x) = q * s
  BY DEF ALIGN_UP
<1> HIDE DEF q, r
<1>5. x <= q * s /\ q * s < x + s
  BY <1>1, <1>2, <1>3
<1> QED
  BY <1>3, <1>4, <1>5

\* ALIGN_UP of an address.
LEMMA AlignUpNat ==
    ASSUME NEW x \in Nat
    PROVE  ALIGN_UP(x) \in Nat /\ Aligned(ALIGN_UP(x)) /\ x <= ALIGN_UP(x) /\ ALIGN_UP(x) < x + PAGE_SIZE
<1>1. PICK q \in Int : ALIGN_UP(x) = q * PAGE_SIZE /\ x <= q * PAGE_SIZE /\ q * PAGE_SIZE < x + PAGE_SIZE
  BY AlignUp
<1>2. PAGE_SIZE \in Nat \ {0}
  BY Sizes
<1>3. q \in Nat
  <2> SUFFICES ASSUME q < 0 PROVE FALSE
    OBVIOUS
  <2>1. q * PAGE_SIZE < 0 * PAGE_SIZE
    BY MultiplesOrder
  <2> QED
    BY <1>1, <1>2, <2>1
<1> QED
  BY <1>1, <1>2, <1>3, Multiples

\* PHYS_TO_VIRT as a page of the table's range.
LEMMA KernelPages ==
    ASSUME NEW f \in Nat, NEW off \in 0 .. PAGE_SIZE - 1
    PROVE  /\ (f + VaPages) * PAGE_SIZE + off \in Nat
           /\ VPage((f + VaPages) * PAGE_SIZE + off) = KernelVPage(f)
           /\ KernelVPage(f) \in VPages
<1>1. VaPages \in Nat /\ PAGE_SIZE \in Nat \ {0} /\ f + VaPages \in Nat /\ PTE_COUNT^3 \in Nat \ {0}
  BY Sizes, SnubAssumption
<1>2. ((f + VaPages) * PAGE_SIZE + off) \div PAGE_SIZE = f + VaPages
  BY <1>1, Quotient
<1>3. (f + VaPages) * PAGE_SIZE \in Nat
  BY <1>1
<1> QED
  BY <1>1, <1>2, <1>3 DEF VPage, KernelVPage, VPages

\* Where an object of a cache lies.
LEMMA ObjectPage ==
    ASSUME NEW f \in Nat, NEW off \in 0 .. PAGE_SIZE - 1, NEW obj, obj = [ppn |-> f, off |-> off]
    PROVE  VirtAddr(obj) \in Nat /\ VPage(VirtAddr(obj)) = KernelVPage(f) /\ KernelVPage(f) \in VPages
BY KernelPages DEF VirtAddr

\* Where a page of the kernel's image lies.
LEMMA ImageFacts ==
    ASSUME NEW k \in ImagePages
    PROVE  /\ k \in Nat /\ ImagePpn + k \in Nat /\ ImagePerm[k] \in Perms
           /\ ImageVa(k) \in Nat /\ VPage(ImageVa(k)) = KernelVPage(ImagePpn + k)
           /\ KernelVPage(ImagePpn + k) \in VPages
           /\ ImageVa(k) + PAGE_SIZE = ImageVa(k + 1)
           /\ \A j \in ImagePages : ImageVa(j) = ImageVa(k) => j = k
           /\ \A j \in ImagePages : k < j => k + 1 \in ImagePages
<1>1. /\ k \in Nat /\ ImagePpn \in Nat /\ ImagePpn + k \in Nat /\ ImagePerm[k] \in Perms
      /\ \A j \in ImagePages : j \in Nat /\ 0 .. j \subseteq ImagePages
  BY ProcessAssumption DEF ImagePages, Perms
<1>2. PAGE_SIZE \in Nat \ {0} /\ VaPages \in Nat /\ 0 \in 0 .. PAGE_SIZE - 1
  BY Sizes, SnubAssumption
<1>3. ImageVa(k) = ((ImagePpn + k) + VaPages) * PAGE_SIZE + 0
  BY <1>1, <1>2 DEF ImageVa
<1>4. ImageVa(k) \in Nat /\ VPage(ImageVa(k)) = KernelVPage(ImagePpn + k) /\ KernelVPage(ImagePpn + k) \in VPages
  BY <1>1, <1>2, <1>3, KernelPages
<1>5. ImageVa(k) + PAGE_SIZE = ImageVa(k + 1)
  BY <1>1, <1>2 DEF ImageVa
<1>6. ASSUME NEW j \in ImagePages, ImageVa(j) = ImageVa(k)
      PROVE  j = k
  <2> DEFINE a == ImagePpn + VaPages + j
             b == ImagePpn + VaPages + k
  <2>1. a \in Int /\ b \in Int /\ a * PAGE_SIZE = b * PAGE_SIZE
    BY <1>1, <1>2, <1>6 DEF ImageVa
  <2> HIDE DEF a, b
  <2>2. ~(a < b) /\ ~(b < a)
    BY <1>2, <2>1, MultiplesOrder
  <2>3. a = b
    BY <2>1, <2>2
  <2> QED
    BY <1>1, <1>2, <2>3 DEF a, b
<1>7. \A j \in ImagePages : k < j => k + 1 \in ImagePages
  BY <1>1
<1> QED
  BY <1>1, <1>4, <1>5, <1>6, <1>7

\* Where the UART lies.
LEMMA UartPage == UartPpn \in Nat /\ UART0 \in Nat /\ VPage(UART0) = KernelVPage(UartPpn) /\ KernelVPage(UartPpn) \in VPages
<1>1. UartPpn \in Nat /\ VaPages \in Nat /\ PAGE_SIZE \in Nat \ {0} /\ 0 \in 0 .. PAGE_SIZE - 1
  BY ProcessAssumption, SnubAssumption, Sizes
<1>2. UART0 = (UartPpn + VaPages) * PAGE_SIZE + 0
  BY <1>1 DEF UART0
<1> QED
  BY <1>1, <1>2, KernelPages

\* User memory.
LEMMA UserLayout ==
    /\ UserPages \in Nat /\ UserPages >= 3 /\ UserPages \in VPages
    /\ UserVPages \subseteq VPages /\ UserVPages \subseteq Nat
    /\ ProgramEnd \in Nat /\ ProgramEnd >= 1 /\ ProgramEnd <= Guard /\ Guard \in Nat
    /\ Guard \in UserVPages /\ UserPages - 1 \in UserVPages
    /\ ALIGN_UP(BinarySize) = ProgramEnd * PAGE_SIZE
    /\ USER_HEAP_END = Guard * PAGE_SIZE /\ USER_STACK_BASE = (UserPages - 1) * PAGE_SIZE
    /\ USER_STACK_BASE \in Nat /\ USER_HEAP_END \in Nat
    /\ VPage(USER_STACK_BASE) = UserPages - 1 /\ VPage(USER_HEAP_END) = Guard
<1>1. BinarySize \in Nat /\ BinarySize > 0 /\ UserPages \in Nat /\ PAGE_SIZE \in Nat /\ PAGE_SIZE > 0
  BY ProcessAssumption, Sizes
<1>2. UserPages < PTE_COUNT^3 /\ PTE_COUNT^3 \in Nat /\ ALIGN_UP(BinarySize) <= USER_HEAP_END
  BY LayoutAssumption, Sizes
<1>3. ALIGN_UP(BinarySize) \in Nat /\ Aligned(ALIGN_UP(BinarySize)) /\ BinarySize <= ALIGN_UP(BinarySize)
  BY <1>1, AlignUpNat
<1>4. ProgramEnd \in Nat /\ ALIGN_UP(BinarySize) = ProgramEnd * PAGE_SIZE
  BY <1>1, <1>3 DEF ProgramEnd, Aligned, PageNo
<1>5. USER_HEAP_END = (UserPages - 2) * PAGE_SIZE /\ USER_STACK_BASE = (UserPages - 1) * PAGE_SIZE
  BY <1>1 DEF USER_HEAP_END, USER_STACK_BASE
<1>6. ProgramEnd >= 1
  <2> SUFFICES ASSUME ProgramEnd = 0 PROVE FALSE
    BY <1>4
  <2> QED
    BY <1>1, <1>3, <1>4
<1>7. ~(UserPages - 2 < ProgramEnd)
  <2> SUFFICES ASSUME UserPages - 2 < ProgramEnd PROVE FALSE
    OBVIOUS
  <2>1. (UserPages - 2) * PAGE_SIZE < ProgramEnd * PAGE_SIZE
    BY <1>1, <1>4, MultiplesOrder
  <2> QED
    BY <1>1, <1>2, <1>3, <1>4, <1>5, <2>1
<1>8. /\ UserPages >= 3 /\ UserPages \in VPages /\ UserVPages \subseteq VPages /\ UserVPages \subseteq Nat
      /\ UserPages - 1 \in Nat /\ UserPages - 2 \in Nat
      /\ UserPages - 1 \in VPages /\ UserPages - 2 \in VPages
      /\ Guard \in UserVPages /\ UserPages - 1 \in UserVPages
  BY <1>1, <1>2, <1>4, <1>6, <1>7 DEF VPages, UserVPages, Guard
<1>9. /\ VPage((UserPages - 1) * PAGE_SIZE) = UserPages - 1 /\ (UserPages - 1) * PAGE_SIZE \in Nat
      /\ VPage((UserPages - 2) * PAGE_SIZE) = UserPages - 2 /\ (UserPages - 2) * PAGE_SIZE \in Nat
  BY <1>8, Multiples
<1> QED
  BY <1>1, <1>4, <1>5, <1>6, <1>7, <1>8, <1>9 DEF Guard

\* The kernel's pages lie above the user's, each at a page of its own, the
\* UART under an entry of the root of its own.
LEMMA KernelLayout ==
    ASSUME NEW M \in Memories
    PROVE  /\ M \subseteq Nat /\ 0 \notin M
           /\ \A f \in M : KernelVPage(f) \in VPages /\ KernelVPage(f) > UserPages
                 /\ X2(KernelVPage(f)) # X2(KernelVPage(UartPpn))
                 /\ \A g \in M : KernelVPage(f) = KernelVPage(g) => f = g
                 /\ \A k \in ImagePages : KernelVPage(f) # KernelVPage(ImagePpn + k)
           /\ \A k \in ImagePages :
                 /\ KernelVPage(ImagePpn + k) > UserPages
                 /\ X2(KernelVPage(ImagePpn + k)) # X2(KernelVPage(UartPpn))
                 /\ \A j \in ImagePages : KernelVPage(ImagePpn + k) = KernelVPage(ImagePpn + j) => k = j
<1> DEFINE Used == M \cup {ImagePpn + k : k \in ImagePages}
<1>1. /\ M \subseteq Nat /\ 0 \notin M /\ ImagePpn \in Nat
      /\ \A k \in ImagePages : k \in Nat /\ ImagePpn + k \notin M /\ ImagePpn + k \in Used
  BY ProcessAssumption DEF ImagePages
<1>2. \A f \in Used :
          /\ KernelVPage(f) > UserPages
          /\ KernelVPage(f) \div PTE_COUNT^2 # KernelVPage(UartPpn) \div PTE_COUNT^2
          /\ \A g \in Used : KernelVPage(f) = KernelVPage(g) => f = g
  BY LayoutAssumption
<1>3. \A f \in Used :
          /\ KernelVPage(f) > UserPages
          /\ X2(KernelVPage(f)) # X2(KernelVPage(UartPpn))
          /\ \A g \in Used : KernelVPage(f) = KernelVPage(g) => f = g
  BY <1>2, PowersOfPteCount DEF X2
<1>4. \A f \in M : KernelVPage(f) \in VPages
  <2>1. 0 \in 0 .. PAGE_SIZE - 1
    BY Sizes
  <2> QED
    BY <1>1, <2>1, KernelPages
<1>5. M \subseteq Used
  OBVIOUS
<1> HIDE DEF Used
<1>6. \A f \in M, k \in ImagePages : KernelVPage(f) # KernelVPage(ImagePpn + k)
  BY <1>1, <1>3, <1>5
<1>7. ASSUME NEW k \in ImagePages, NEW j \in ImagePages, KernelVPage(ImagePpn + k) = KernelVPage(ImagePpn + j)
      PROVE  k = j
  <2>1. ImagePpn + k = ImagePpn + j
    BY <1>1, <1>3, <1>7
  <2> QED
    BY <1>1, <2>1
<1> QED
  BY <1>1, <1>3, <1>4, <1>5, <1>6, <1>7

\* ... and so does the UART.
LEMMA UartLayout ==
    /\ KernelVPage(UartPpn) > UserPages /\ KernelVPage(UartPpn) \notin UserVPages
    /\ \A v \in 0 .. UserPages : X2(v) # X2(KernelVPage(UartPpn))
<1> DEFINE c == PTE_COUNT * PTE_COUNT
           u == KernelVPage(UartPpn)
<1>1. c \in Nat \ {0} /\ u \in Nat /\ UserPages \in Nat
  BY Sizes, UartPage, UserLayout DEF VPages
<1>2. u \div c > UserPages \div c
  BY LayoutAssumption, PowersOfPteCount
<1> HIDE DEF c, u
<1>3. ASSUME NEW v \in 0 .. UserPages
      PROVE  v \div c <= UserPages \div c
  <2> DEFINE q == v \div c
             z == UserPages \div c
  <2>1. /\ q \in Int /\ z \in Int /\ c * q <= v
        /\ UserPages < c * z + c
    BY <1>1
  <2> HIDE DEF q, z
  <2>2. c * q < c * (z + 1) /\ c * (z + 1) = c * z + c
    BY <1>1, <2>1
  <2>3. q < z + 1
    <3> SUFFICES ASSUME q >= z + 1 PROVE FALSE
      BY <2>1
    <3>1. c * q >= c * (z + 1)
      BY <1>1, <2>1
    <3> QED
      BY <1>1, <2>1, <2>2, <3>1
  <2> QED
    BY <2>1, <2>3 DEF q, z
<1>4. \A v \in 0 .. UserPages : v \div c # u \div c
  <2> SUFFICES ASSUME NEW v \in 0 .. UserPages PROVE v \div c # u \div c
    OBVIOUS
  <2>1. v \div c \in Int /\ u \div c \in Int /\ UserPages \div c \in Int
    BY <1>1
  <2> QED
    BY <1>2, <1>3, <2>1
<1>5. u > UserPages
  <2> SUFFICES ASSUME u <= UserPages PROVE FALSE
    BY <1>1
  <2>1. u \in 0 .. UserPages
    BY <1>1
  <2> QED
    BY <1>4, <2>1
<1> QED
  BY <1>1, <1>4, <1>5 DEF X2, c, u, UserVPages

------------------------------------------------------------------------------
(* The uses of pages, step by step.                                        *)

\* Pages are taken and become tables or pages of the caches.
LEMMA UsesTake ==
    ASSUME NEW M, NEW fr, NEW T, NEW O, NEW map, NEW lost \in BOOLEAN, UsesOK(M, fr, T, O, map, lost),
           NEW fr2, NEW T2, NEW O2, NEW map2, NEW lost2 \in BOOLEAN,
           fr2 \subseteq fr, T \subseteq T2, T2 \subseteq T \cup (fr \ fr2),
           O \subseteq O2, O2 \subseteq O \cup (fr \ fr2), T2 \cap O2 = {},
           \A v \in UserVPages : map2[v] = map[v],
           lost => lost2, lost2 \/ fr \ fr2 \subseteq T2 \cup O2
    PROVE  UsesOK(M, fr2, T2, O2, map2, lost2)
<1>1. fr2 \subseteq M /\ T2 \subseteq M \ fr2 /\ O2 \subseteq M \ (fr2 \cup T2)
  BY DEF UsesOK
<1>2. \A v \in UserVPages : map2[v].v => map2[v].ppn \in M \ (fr2 \cup T2 \cup O2)
  BY DEF UsesOK
<1>3. \A u, v \in UserVPages : map2[u].v /\ map2[v].v /\ map2[u].ppn = map2[v].ppn => u = v
  BY DEF UsesOK
<1>4. lost2 \/ \A f \in M : f \in fr2 \cup T2 \cup O2 \/ \E v \in UserVPages : map2[v].v /\ f = map2[v].ppn
  BY DEF UsesOK
<1> QED
  BY <1>1, <1>2, <1>3, <1>4 DEF UsesOK

\* A page is taken for the user and mapped at w, others become tables.
LEMMA UsesMap ==
    ASSUME NEW M, NEW fr, NEW T, NEW O, NEW map, NEW lost \in BOOLEAN, UsesOK(M, fr, T, O, map, lost),
           NEW fr2, NEW T2, NEW map2, NEW lost2 \in BOOLEAN, NEW f, NEW w \in UserVPages,
           f \in fr \ fr2, f \notin T2,
           fr2 \subseteq fr, T \subseteq T2, T2 \subseteq T \cup (fr \ fr2),
           \A v \in UserVPages \ {w} : map2[v] = map[v],
           ~map[w].v, map2[w].v, map2[w].ppn = f,
           lost => lost2, lost2 \/ fr \ fr2 \subseteq T2 \cup {f}
    PROVE  UsesOK(M, fr2, T2, O, map2, lost2)
<1>1. fr2 \subseteq M /\ T2 \subseteq M \ fr2 /\ O \subseteq M \ (fr2 \cup T2)
  BY DEF UsesOK
<1>2. \A v \in UserVPages : map2[v].v => map2[v].ppn \in M \ (fr2 \cup T2 \cup O)
  BY DEF UsesOK
<1>3. \A v \in UserVPages \ {w} : map2[v].v => map2[v].ppn # f
  BY DEF UsesOK
<1>4. \A u, v \in UserVPages : map2[u].v /\ map2[v].v /\ map2[u].ppn = map2[v].ppn => u = v
  BY <1>3 DEF UsesOK
<1>5. ASSUME NEW g \in M, ~lost2
      PROVE  g \in fr2 \cup T2 \cup O \/ \E v \in UserVPages : map2[v].v /\ g = map2[v].ppn
  <2>1. CASE g = f
    BY <2>1
  <2>2. CASE g # f /\ g \in fr \cup T \cup O
    BY <1>5, <2>2
  <2>3. CASE \E v \in UserVPages : map[v].v /\ g = map[v].ppn
    <3>1. PICK v \in UserVPages : map[v].v /\ g = map[v].ppn
      BY <2>3
    <3>2. v # w
      BY <3>1
    <3> QED
      BY <3>1, <3>2
  <2> QED
    BY <1>5, <2>1, <2>2, <2>3 DEF UsesOK
<1> QED
  BY <1>1, <1>2, <1>4, <1>5 DEF UsesOK

\* The page that was mapped at w becomes free.
LEMMA UsesUnmap ==
    ASSUME NEW M, NEW fr, NEW T, NEW O, NEW map, NEW lost \in BOOLEAN, UsesOK(M, fr, T, O, map, lost),
           NEW map2, NEW w \in UserVPages, map[w].v, ~map2[w].v,
           \A v \in UserVPages \ {w} : map2[v] = map[v]
    PROVE  UsesOK(M, fr \cup {map[w].ppn}, T, O, map2, lost)
<1> DEFINE f == map[w].ppn
<1>1. f \in M \ (fr \cup T \cup O)
  BY DEF UsesOK
<1>2. \A v \in UserVPages : map2[v].v => v # w
  OBVIOUS
<1>3. \A v \in UserVPages : map2[v].v => map2[v].ppn \in M \ (fr \cup {f} \cup T \cup O)
  BY <1>1, <1>2 DEF UsesOK
<1>4. \A u, v \in UserVPages : map2[u].v /\ map2[v].v /\ map2[u].ppn = map2[v].ppn => u = v
  BY <1>2 DEF UsesOK
<1>5. ASSUME NEW g \in M, ~lost
      PROVE  g \in fr \cup {f} \cup T \cup O \/ \E v \in UserVPages : map2[v].v /\ g = map2[v].ppn
  BY <1>2, <1>5 DEF UsesOK
<1> QED
  BY <1>1, <1>3, <1>4, <1>5 DEF UsesOK

------------------------------------------------------------------------------
(* The steps that change memory, as the invariant sees them.               *)

\* Facts that follow from the types.
LEMMA Basics ==
    ASSUME TypeInv
    PROVE  /\ managed \in SUBSET Nat /\ managed \in Memories /\ 0 \notin managed
           /\ mem \in Memory(managed) /\ mem.free \subseteq managed
           /\ failed \in BOOLEAN
           /\ p.pagetable # 0 => p.pagetable \in managed
           /\ \A v \in VPages : Space[v] = Mapped(v)
           /\ p.pagetable # 0 => \A v \in VPages : Space[v] = Translation(mem, p.pagetable, v)
           /\ p.pagetable # 0 => TablePages = Tables(mem, p.pagetable)
<1>1. managed \in SUBSET Nat /\ managed \in Memories /\ 0 \notin managed
  BY KernelLayout DEF TypeInv
<1>2. mem \in Memory(managed) /\ mem.free \subseteq managed
  BY MemoryFacts DEF TypeInv
<1>3. failed \in BOOLEAN /\ (p.pagetable # 0 => p.pagetable \in managed)
  BY DEF TypeInv, ProcRecords
<1>4. \A v \in VPages : Space[v] = Mapped(v)
  BY DEF Space
<1>5. p.pagetable # 0 => \A v \in VPages : Space[v] = Translation(mem, p.pagetable, v)
  BY <1>4 DEF Mapped
<1>6. p.pagetable # 0 => TablePages = Tables(mem, p.pagetable)
  BY DEF TablePages
<1> QED
  BY <1>1, <1>2, <1>3, <1>4, <1>5, <1>6

\* The same, after the step.
LEMMA BasicsNext ==
    /\ \A v \in VPages : Space'[v] = Mapped(v)'
    /\ p'.pagetable # 0 => \A v \in VPages : Space'[v] = Translation(mem', p'.pagetable, v)
    /\ p'.pagetable # 0 => TablePages' = Tables(mem', p'.pagetable)
<1>1. \A v \in VPages : Space'[v] = Mapped(v)'
  BY DEF Space
<1>2. p'.pagetable # 0 => \A v \in VPages : Space'[v] = Translation(mem', p'.pagetable, v)
  BY <1>1 DEF Mapped
<1>3. p'.pagetable # 0 => TablePages' = Tables(mem', p'.pagetable)
  BY DEF TablePages
<1> QED
  BY <1>1, <1>2, <1>3

\* Mapping page v, with st the outcome: what happens to the address space.
Remaps(v, e, st) ==
    /\ \A u \in VPages \ {v} : Space'[u] = Space[u]
    /\ Space'[v] = IF st = "ok" /\ ~Space[v].v THEN e ELSE Space[v]

SameObjects == p'.obj = p.obj /\ p'.kstack = p.kstack /\ partial' = partial

\* Steps that leave the objects alone leave their pages alone.
LEMMA ObjectsKept ==
    ASSUME SameObjects
    PROVE  ObjectPages' = ObjectPages
BY DEF SameObjects, ObjectPages

\* The parts of the invariant about memory after a step, and what else is known.
MapStepResult(v, e, d) ==
    /\ mem' \in Memory(managed') /\ TreeInv' /\ UsesInv'
    /\ d.st \in Results
    /\ Remaps(v, e, d.st)
    /\ mem'.free \subseteq mem.free
    /\ d.st = "fail" => mem'.free = {}
    /\ d.st = "ok" /\ ~mem.tab[p.pagetable][X2(v)].v => mem.free # {}
    /\ X2(v) # X2(UartVPage) => (UartEntry' <=> UartEntry)

\* map_page of a page of the kernel.
LEMMA KernelMapStep ==
    ASSUME TypeInv, TreeInv, UsesInv, p.pagetable # 0,
           NEW v \in VPages \ UserVPages, NEW e, NEW d,
           MapResult(managed, mem, p.pagetable, v, e, d),
           mem' = d.m, managed' = managed, p'.pagetable = p.pagetable, SameObjects,
           failed' \in BOOLEAN, failed => failed', d.st = "fault" => failed'
    PROVE  MapStepResult(v, e, d)
<1> DEFINE r == p.pagetable
<1>1. /\ managed \in SUBSET Nat /\ mem \in Memory(managed) /\ failed \in BOOLEAN /\ r \in managed
      /\ \A u \in VPages : Space[u] = Translation(mem, r, u)
      /\ TablePages = Tables(mem, r)
  BY Basics
<1>2. /\ \A u \in VPages : Space'[u] = Translation(mem', r, u)
      /\ TablePages' = Tables(mem', r)
  BY BasicsNext
<1>3. mem' \in Memory(managed') /\ TreeInv' /\ mem'.free \subseteq mem.free
  BY DEF MapResult, TreeInv
<1>4. Remaps(v, e, d.st)
  BY <1>1, <1>2 DEF MapResult, Remaps
<1>5. ObjectPages' = ObjectPages
  BY ObjectsKept
<1>6. UserVPages \subseteq VPages
  BY UserLayout
<1>7. UsesOK(managed, mem'.free, TablePages', ObjectPages, Space', failed')
  <2>1. /\ TablePages \subseteq TablePages' /\ TablePages' \subseteq TablePages \cup (mem.free \ mem'.free)
        /\ failed' \/ mem.free \ mem'.free \subseteq TablePages'
    BY <1>1, <1>2 DEF MapResult, NoLoss
  <2>2. \A u \in UserVPages : Space'[u] = Space[u]
    BY <1>4, <1>6 DEF Remaps
  <2>3. TablePages' \cap ObjectPages = {}
    BY <2>1 DEF UsesInv, UsesOK
  <2>4. UsesOK(managed, mem.free, TablePages, ObjectPages, Space, failed)
    BY DEF UsesInv
  <2> QED
    BY <1>1, <1>3, <2>1, <2>2, <2>3, <2>4, UsesTake
<1>8. UsesInv'
  BY <1>5, <1>7 DEF UsesInv
<1>9. X2(v) # X2(UartVPage) => (UartEntry' <=> UartEntry)
  <2>1. X2(UartVPage) \in Idx
    BY UartPage, Positions DEF UartVPage
  <2> QED
    BY <2>1 DEF MapResult, UartEntry
<1> QED
  BY <1>3, <1>4, <1>8, <1>9 DEF MapResult, MapStepResult

\* alloc_page and then map_page, as load, the user stack and sys_sbrk call them.
AllocMapResult(M, m, r, v, perm, a, d) ==
    \/ m.free = {} /\ a.ppn = 0 /\ d.st = "fail" /\ d.m = m
    \/ \E f \in m.free : a.ppn = f /\ d.st = "fault" /\ d.m = Taken(m, f)
    \/ \E f \in m.free : a.ppn = f /\ MapResult(M, Taken(m, f), r, v, Pte(f, perm), d)

\* alloc_page and map_page: no page, a page out of reach, or what map_page does.
LEMMA AllocMap ==
    ASSUME NEW M \in SUBSET Nat, NEW m \in Memory(M), NEW r, TreeOK(M, m, r), NEW n \in Nat,
           NEW perm \in Perms, NEW reach, NEW reach2
    PROVE  LET a == alloc_page(m, reach) IN
           AllocMapResult(M, m, r, VPage(n), perm, a,
               IF a.st = "ok" THEN map_page(a.m, r, n, a.ppn, perm, reach2) ELSE a)
<1> DEFINE a == alloc_page(m, reach)
           d == IF a.st = "ok" THEN map_page(a.m, r, n, a.ppn, perm, reach2) ELSE a
<1> SUFFICES AllocMapResult(M, m, r, VPage(n), perm, a, d)
  OBVIOUS
<1>1. CASE m.free = {}
  <2>1. a = [st |-> "fail", ppn |-> 0, m |-> m]
    BY <1>1, AllocPage
  <2> HIDE DEF a
  <2> QED
    BY <1>1, <2>1 DEF AllocMapResult
<1>2. CASE m.free # {}
  <2>1. PICK f \in m.free :
            a = [st |-> IF f \in reach THEN "ok" ELSE "fault", ppn |-> f, m |-> Taken(m, f)]
    BY <1>2, AllocPage
  <2> HIDE DEF a
  <2>2. CASE f \notin reach
    BY <2>1, <2>2 DEF AllocMapResult
  <2>3. CASE f \in reach
    <3>1. Taken(m, f) \in Memory(M) /\ TreeOK(M, Taken(m, f), r) /\ f \in Nat
      BY TakeKeeps, TakeGrows
    <3>2. MapResult(M, Taken(m, f), r, VPage(n), Pte(f, perm),
                    map_page(Taken(m, f), r, n, f, perm, reach2))
      BY <3>1, MapPage
    <3>3. d = map_page(Taken(m, f), r, n, f, perm, reach2)
      BY <2>1, <2>3
    <3>4. a.ppn = f
      BY <2>1
    <3>5. MapResult(M, Taken(m, f), r, VPage(n), Pte(f, perm), d)
      BY <3>2, <3>3
    <3> HIDE DEF d
    <3> QED
      BY <3>4, <3>5 DEF AllocMapResult
  <2> QED
    BY <2>2, <2>3
<1> QED
  BY <1>1, <1>2

UserStepResult(v, perm, a, d) ==
    /\ mem' \in Memory(managed') /\ TreeInv' /\ UsesInv'
    /\ d.st \in Results
    /\ a.ppn \in managed \cup {0}
    /\ d.st = "ok" => a.ppn \in managed
    /\ Remaps(v, Pte(a.ppn, perm), d.st)
    /\ mem'.free \subseteq mem.free
    /\ X2(v) # X2(UartVPage) => (UartEntry' <=> UartEntry)

\* The step that allocates a page for the user and maps it.
LEMMA UserMapStep ==
    ASSUME TypeInv, TreeInv, UsesInv, p.pagetable # 0,
           NEW v \in UserVPages, NEW perm \in Perms, NEW a, NEW d,
           AllocMapResult(managed, mem, p.pagetable, v, perm, a, d),
           failed \/ ~Space[v].v,
           mem' = d.m, managed' = managed, p'.pagetable = p.pagetable, SameObjects,
           failed' \in BOOLEAN, failed => failed', d.st # "ok" => failed'
    PROVE  UserStepResult(v, perm, a, d)
<1> DEFINE r == p.pagetable
<1>1. /\ managed \in SUBSET Nat /\ mem \in Memory(managed) /\ failed \in BOOLEAN /\ r \in managed
      /\ \A u \in VPages : Space[u] = Translation(mem, r, u)
      /\ TablePages = Tables(mem, r) /\ mem.free \subseteq managed
  BY Basics
<1>2. /\ \A u \in VPages : Space'[u] = Translation(mem', r, u)
      /\ TablePages' = Tables(mem', r)
  BY BasicsNext
<1>3. UserVPages \subseteq VPages /\ v \in VPages
  BY UserLayout
<1>4. ObjectPages' = ObjectPages
  BY ObjectsKept
<1>5. X2(UartVPage) \in Idx
  BY UartPage, Positions DEF UartVPage
<1>6. TreeOK(managed, mem, r) /\ UsesOK(managed, mem.free, TablePages, ObjectPages, Space, failed)
  BY DEF TreeInv, UsesInv
<1>7. CASE mem.free = {} /\ a.ppn = 0 /\ d.st = "fail" /\ d.m = mem
  <2>1. \A u \in VPages : Space'[u] = Space[u]
    BY <1>1, <1>2, <1>7
  <2>2. Remaps(v, Pte(a.ppn, perm), d.st)
    BY <1>3, <1>7, <2>1 DEF Remaps
  <2>3. UsesOK(managed, mem.free, TablePages, ObjectPages, Space', failed')
    BY <1>1, <1>3, <1>6, <1>7, <2>1, UsesTake DEF UsesOK
  <2>4. UsesInv'
    BY <1>1, <1>2, <1>4, <1>7, <2>3 DEF UsesInv
  <2> QED
    BY <1>1, <1>6, <1>7, <2>2, <2>4 DEF TreeInv, UserStepResult, UartEntry, Results
<1>8. ASSUME NEW f \in mem.free, a.ppn = f, d.st = "fault", d.m = Taken(mem, f)
      PROVE  UserStepResult(v, perm, a, d)
  <2>1. mem' \in Memory(managed) /\ mem'.free = mem.free \ {f}
    BY <1>1, <1>8, TakeKeeps
  <2>2. /\ TreeOK(managed, mem', r) /\ TablePages' = TablePages /\ mem'.tab[r] = mem.tab[r]
        /\ \A u \in VPages : Translation(mem', r, u) = Translation(mem, r, u)
    BY <1>1, <1>2, <1>6, <1>8, TakeGrows
  <2>3. \A u \in VPages : Space'[u] = Space[u]
    BY <1>1, <1>2, <2>2
  <2>4. Remaps(v, Pte(a.ppn, perm), d.st)
    BY <1>3, <1>8, <2>3 DEF Remaps
  <2>5. UsesOK(managed, mem'.free, TablePages, ObjectPages, Space', failed')
    <3>1. TablePages \cap ObjectPages = {} /\ \A u \in UserVPages : Space'[u] = Space[u]
      BY <1>3, <1>6, <2>3 DEF UsesOK
    <3>2. mem'.free \subseteq mem.free
      BY <2>1
    <3>3. /\ failed' \in BOOLEAN /\ (failed => failed')
          /\ failed' \/ mem.free \ mem'.free \subseteq TablePages \cup ObjectPages
      BY <1>1, <1>8
    <3> QED
      BY <1>1, <1>6, <3>1, <3>2, <3>3, UsesTake
  <2>6. UsesInv'
    BY <1>1, <1>4, <1>8, <2>2, <2>5 DEF UsesInv
  <2> QED
    BY <1>1, <1>8, <2>1, <2>2, <2>4, <2>6 DEF TreeInv, UserStepResult, UartEntry, Results
<1>9. ASSUME NEW f \in mem.free, a.ppn = f, MapResult(managed, Taken(mem, f), r, v, Pte(f, perm), d)
      PROVE  UserStepResult(v, perm, a, d)
  <2> DEFINE m1 == Taken(mem, f)
             e == Pte(f, perm)
  <2>1. m1 \in Memory(managed) /\ m1.free = mem.free \ {f}
    BY <1>1, TakeKeeps
  <2>2. /\ Tables(m1, r) = Tables(mem, r) /\ m1.tab[r] = mem.tab[r] /\ f \notin Tables(mem, r)
        /\ \A u \in VPages : Translation(m1, r, u) = Translation(mem, r, u)
    BY <1>1, <1>6, TakeGrows
  <2> HIDE DEF m1
  <2>3. MapResult(managed, m1, r, v, e, d)
    BY <1>9 DEF m1
  <2>4. mem' \in Memory(managed) /\ TreeOK(managed, mem', r) /\ d.st \in Results
    BY <2>3 DEF MapResult
  <2>5. /\ mem'.free \subseteq mem.free \ {f}
        /\ TablePages \subseteq TablePages'
        /\ TablePages' \subseteq TablePages \cup (mem.free \ mem'.free) /\ f \notin TablePages'
    BY <1>1, <1>2, <2>1, <2>2, <2>3 DEF MapResult
  <2>6. Remaps(v, e, d.st)
    BY <1>1, <1>2, <1>3, <2>2, <2>3 DEF MapResult, Remaps
  <2>7. X2(v) # X2(UartVPage) => (UartEntry' <=> UartEntry)
    BY <1>5, <2>2, <2>3 DEF MapResult, UartEntry
  <2>8. e.v = TRUE /\ e.ppn = f
    BY <1>1, PteFacts
  <2> HIDE DEF e
  <2>9. \A u \in UserVPages \ {v} : Space'[u] = Space[u]
    BY <1>3, <2>6 DEF Remaps
  <2>10. ASSUME d.st = "ok", ~Space[v].v
         PROVE  UsesInv'
    <3>1. Space'[v] = e
      BY <2>6, <2>10 DEF Remaps
    <3>2. mem.free \ mem'.free \subseteq TablePages' \cup {f}
      BY <1>1, <1>2, <2>1, <2>2, <2>3, <2>10 DEF MapResult, NoLoss
    <3>3. mem'.free \subseteq mem.free
      BY <2>5
    <3>4. UsesOK(managed, mem'.free, TablePages', ObjectPages, Space', failed')
      BY <1>1, <1>6, <2>5, <2>8, <2>9, <2>10, <3>1, <3>2, <3>3, UsesMap
    <3> QED
      BY <1>4, <3>4 DEF UsesInv
  <2>11. ASSUME d.st # "ok" \/ Space[v].v
         PROVE  UsesInv'
    <3>1. \A u \in UserVPages : Space'[u] = Space[u]
      BY <2>6, <2>9, <2>11 DEF Remaps
    <3>2. /\ failed' \in BOOLEAN /\ (failed => failed')
          /\ failed' \/ mem.free \ mem'.free \subseteq TablePages' \cup ObjectPages
      BY <1>1, <2>11
    <3>3. TablePages' \cap ObjectPages = {}
      BY <1>6, <2>5 DEF UsesOK
    <3>4. mem'.free \subseteq mem.free
      BY <2>5
    <3>5. UsesOK(managed, mem'.free, TablePages', ObjectPages, Space', failed')
      BY <1>1, <1>6, <2>5, <3>1, <3>2, <3>3, <3>4, UsesTake
    <3> QED
      BY <1>4, <3>5 DEF UsesInv
  <2>12. UsesInv'
    BY <2>10, <2>11
  <2> QED
    BY <1>1, <1>9, <2>4, <2>5, <2>6, <2>7, <2>12 DEF TreeInv, UserStepResult, e
<1> QED
  BY <1>7, <1>8, <1>9 DEF AllocMapResult

\* unmap_page of a page of the user, or of one that is not mapped.
UnmapStepResult(v, d) ==
    /\ mem' \in Memory(managed') /\ TreeInv' /\ UsesInv'
    /\ \A u \in VPages \ {v} : Space'[u] = Space[u]
    /\ IF Space[v].v THEN d.st = "ok" /\ Space'[v] = NoPte ELSE d.st = "fail" /\ Space'[v] = Space[v]

\* The step that unmaps a page of the user.
LEMMA UnmapStep ==
    ASSUME TypeInv, TreeInv, UsesInv, p.pagetable # 0,
           NEW n \in Nat, VPage(n) \in UserVPages \/ ~Space[VPage(n)].v,
           mem' = unmap_page(mem, p.pagetable, n).m,
           managed' = managed, p'.pagetable = p.pagetable, SameObjects, failed' = failed
    PROVE  UnmapStepResult(VPage(n), unmap_page(mem, p.pagetable, n))
<1> DEFINE r == p.pagetable
           v == VPage(n)
           d == unmap_page(mem, r, n)
<1>1. /\ managed \in SUBSET Nat /\ mem \in Memory(managed) /\ failed \in BOOLEAN /\ r \in managed
      /\ \A u \in VPages : Space[u] = Translation(mem, r, u)
      /\ TablePages = Tables(mem, r) /\ mem.free \subseteq managed
  BY Basics
<1>2. /\ \A u \in VPages : Space'[u] = Translation(mem', r, u)
      /\ TablePages' = Tables(mem', r)
  BY BasicsNext
<1>3. UserVPages \subseteq VPages /\ v \in VPages
  BY UserLayout, Levels
<1>4. ObjectPages' = ObjectPages
  BY ObjectsKept
<1>5. TreeOK(managed, mem, r) /\ UsesOK(managed, mem.free, TablePages, ObjectPages, Space, failed)
  BY DEF TreeInv, UsesInv
<1>6. \A e : e = Translation(mem, r, v) /\ e.v => e.ppn \in managed \ Tables(mem, r)
  BY <1>1, <1>3, <1>5 DEF UsesOK
<1>7. UnmapResult(managed, mem, r, v, d)
  BY <1>1, <1>5, <1>6, UnmapPage
<1> SUFFICES UnmapStepResult(v, d)
  OBVIOUS
<1>8. mem' = d.m /\ (v \in UserVPages \/ ~Space[v].v)
  OBVIOUS
<1> HIDE DEF v, d
<1>9. CASE ~Space[v].v
  <2>1. d.st = "fail" /\ d.m = mem
    BY <1>1, <1>3, <1>7, <1>9 DEF UnmapResult
  <2>2. mem' = mem
    BY <1>8, <2>1
  <2>3. \A u \in VPages : Space'[u] = Space[u]
    BY <1>1, <1>2, <2>2
  <2>4. UsesOK(managed, mem'.free, TablePages', ObjectPages, Space', failed)
    BY <1>1, <1>2, <1>3, <1>5, <2>2, <2>3 DEF UsesOK
  <2> QED
    BY <1>1, <1>3, <1>4, <1>5, <1>9, <2>1, <2>2, <2>3, <2>4 DEF UnmapStepResult, TreeInv, UsesInv
<1>10. CASE Space[v].v
  <2>1. /\ d.st = "ok" /\ mem' \in Memory(managed) /\ TreeOK(managed, mem', r)
        /\ mem'.free = mem.free \cup {Space[v].ppn} /\ TablePages' = TablePages
        /\ Space'[v] = NoPte
        /\ \A u \in VPages \ {v} : Space'[u] = Space[u]
    BY <1>1, <1>2, <1>3, <1>7, <1>8, <1>10 DEF UnmapResult
  <2>2. v \in UserVPages /\ ~Space'[v].v
    BY <1>8, <1>10, <2>1, EmptyFacts
  <2>3. \A u \in UserVPages \ {v} : Space'[u] = Space[u]
    BY <1>3, <2>1
  <2>4. UsesOK(managed, mem.free \cup {Space[v].ppn}, TablePages, ObjectPages, Space', failed)
    BY <1>1, <1>5, <1>10, <2>2, <2>3, UsesUnmap
  <2>5. UsesInv'
    BY <1>4, <2>1, <2>4 DEF UsesInv
  <2> QED
    BY <1>10, <2>1, <2>5 DEF UnmapStepResult, TreeInv
<1> QED
  BY <1>9, <1>10

\* The address space changes at one page at most: it is mapped or unmapped.
OneChange ==
    \E v \in VPages :
        /\ \A u \in VPages \ {v} : Space'[u] = Space[u]
        /\ \/ Space'[v] = Space[v]
           \/ ~Space[v].v /\ \E f \in Nat, perm \in Perms : Space'[v] = Pte(f, perm)
           \/ Space[v].v /\ Space'[v] = NoPte

\* unmap_page changes one page.
LEMMA UnmapChange ==
    ASSUME NEW v \in VPages, NEW d, UnmapStepResult(v, d)
    PROVE  OneChange
BY DEF UnmapStepResult, OneChange

------------------------------------------------------------------------------
(* The object caches.                                                      *)

PagesOf(list) == {list[k].ppn : k \in 1 .. Len(list)}
CachePages(lists) == UNION {PagesOf(lists[i]) : i \in Classes}

\* The first object of a free list is taken.
LEMMA TakeHead ==
    ASSUME NEW S, NEW list \in Seq(S), list # <<>>
    PROVE  /\ Head(list) \in S /\ Tail(list) \in Seq(S)
           /\ PagesOf(list) = {Head(list).ppn} \cup PagesOf(Tail(list))
<1>1. /\ Head(list) \in S /\ Tail(list) \in Seq(S) /\ Len(Tail(list)) = Len(list) - 1
      /\ \A k \in 1 .. Len(Tail(list)) : Tail(list)[k] = list[k + 1]
  BY HeadTailProperties
<1>2. Len(list) \in Nat \ {0} /\ Head(list) = list[1]
  BY EmptySeq
<1> DEFINE t == Tail(list)
           h == Head(list)
           n == Len(list)
<1>3. h = list[1] /\ n \in Nat \ {0} /\ Len(t) = n - 1 /\ \A k \in 1 .. n - 1 : t[k] = list[k + 1]
  BY <1>1, <1>2
<1> HIDE DEF t, h
<1>4. PagesOf(list) \subseteq {h.ppn} \cup PagesOf(t)
  <2> SUFFICES ASSUME NEW k \in 1 .. n PROVE list[k].ppn \in {h.ppn} \cup PagesOf(t)
    BY DEF PagesOf
  <2>1. CASE k = 1
    BY <1>3, <2>1
  <2>2. CASE k # 1
    <3>1. k - 1 \in 1 .. n - 1 /\ t[k - 1] = list[k]
      BY <1>3, <2>2
    <3> QED
      BY <1>3, <3>1 DEF PagesOf
  <2> QED
    BY <2>1, <2>2
<1>5. {h.ppn} \cup PagesOf(t) \subseteq PagesOf(list)
  <2>1. h.ppn \in PagesOf(list)
    BY <1>3 DEF PagesOf
  <2>2. ASSUME NEW k \in 1 .. n - 1 PROVE t[k].ppn \in PagesOf(list)
    <3>1. k + 1 \in 1 .. n
      BY <1>3
    <3> QED
      BY <1>3, <3>1 DEF PagesOf
  <2> QED
    BY <1>3, <2>1, <2>2 DEF PagesOf
<1> QED
  BY <1>1, <1>4, <1>5 DEF t, h

\* The objects of a new page lie in it.
LEMMA NewListFacts ==
    ASSUME NEW M, NEW f \in M, NEW i \in Classes
    PROVE  /\ NewList(f, i) \in Seq(ObjectsIn(M)) /\ NewList(f, i) # <<>>
           /\ PagesOf(NewList(f, i)) = {f}
<1> DEFINE z == object_size(i)
           n == PAGE_SIZE \div z
           list == NewList(f, i)
           S == ObjectsIn(M)
<1>1. z \in Nat \ {0} /\ z <= PAGE_SIZE /\ PAGE_SIZE \in Nat \ {0}
  BY ObjectSizes, Sizes
<1> HIDE DEF z
<1>2. n \in Nat /\ z * n <= PAGE_SIZE /\ PAGE_SIZE < z * n + z
  <2> DEFINE t == PAGE_SIZE % z
  <2>1. n \in Int /\ t \in 0 .. z - 1 /\ PAGE_SIZE = z * n + t
    BY <1>1
  <2>2. n >= 0
    BY <1>1
  <2> QED
    BY <1>1, <2>1, <2>2
<1>3. list = [k \in 1 .. n |-> [ppn |-> f, off |-> (n - k) * z]]
  BY DEF NewList, z
<1> HIDE DEF n, list
<1>4. n # 0
  <2> SUFFICES ASSUME n = 0 PROVE FALSE
    OBVIOUS
  <2>1. z * n = 0
    BY <1>1
  <2> QED
    BY <1>1, <1>2, <2>1
<1>5. ASSUME NEW k \in 1 .. n
      PROVE  (n - k) * z \in 0 .. PAGE_SIZE - 1
  <2>1. k \in Nat /\ k >= 1 /\ n - k \in Nat /\ n - k <= n - 1
    BY <1>2
  <2>2. (n - k) * z \in Nat /\ (n - k) * z <= (n - 1) * z
    BY <1>1, <1>2, <2>1
  <2>3. (n - 1) * z = z * n - z
    BY <1>1, <1>2
  <2> QED
    BY <1>1, <1>2, <2>2, <2>3
<1>6. list \in [1 .. n -> S]
  BY <1>3, <1>5 DEF ObjectsIn
<1>7. list \in Seq(S) /\ Len(list) = n
  BY <1>2, <1>6
<1>8. list # <<>>
  BY <1>4, <1>7, EmptySeq
<1>9. \A k \in 1 .. n : list[k].ppn = f
  BY <1>3
<1>10. PagesOf(list) = {f}
  <2>1. 1 \in 1 .. n
    BY <1>2, <1>4
  <2> QED
    BY <1>7, <1>9, <2>1 DEF PagesOf
<1> QED
  BY <1>7, <1>8, <1>10 DEF list

\* Every size up to a page has a class.
LEMMA SizeClass ==
    ASSUME NEW size \in 1 .. PAGE_SIZE
    PROVE  size_to_idx(size) \in Classes /\ size_to_idx(size) # -1
<1> DEFINE top == SNUB_MAX_SHIFT - SNUB_MIN_SHIFT
           fits == {i \in Classes : size <= object_size(i)}
<1>1. top \in Nat /\ top \in Classes /\ object_size(top) = PAGE_SIZE
  <2>1. SNUB_MIN_SHIFT + top = SNUB_MAX_SHIFT
    BY SnubAssumption
  <2> QED
    BY <2>1, SnubAssumption DEF Classes, object_size
<1> HIDE DEF top
<1>2. top \in fits /\ fits \in SUBSET Nat
  BY <1>1, Sizes DEF Classes
<1>3. \E x \in fits : \A y \in fits : x <= y
  BY <1>2, LeastNat
<1>4. Min(fits) \in fits
  BY <1>3 DEF Min
<1>5. size_to_idx(size) = Min(fits)
  BY <1>2 DEF size_to_idx
<1>6. fits \subseteq Classes /\ -1 \notin Classes
  BY SnubAssumption DEF Classes
<1> QED
  BY <1>4, <1>5, <1>6

\* What kmalloc does.
KmallocResult(M, m, lists, d) ==
    \/ d.st = "fault" /\ d.obj = NoObj /\ d.partial = lists
       /\ (d.m = m \/ \E f \in m.free : d.m = Taken(m, f))
    \/ /\ d.st = "ok" /\ d.obj \in ObjectsIn(M) /\ d.partial \in [Classes -> Seq(ObjectsIn(M))]
       /\ \/ d.m = m /\ {d.obj.ppn} \cup CachePages(d.partial) = CachePages(lists)
          \/ \E f \in m.free :
                d.m = Taken(m, f) /\ {d.obj.ppn} \cup CachePages(d.partial) = CachePages(lists) \cup {f}

\* The caches after an object of cache i has been taken from list.
CacheTaken(M, lists, i, list, new) ==
    LET l2 == [lists EXCEPT ![i] = Tail(list)] IN
    /\ Head(list) \in ObjectsIn(M) /\ l2 \in [Classes -> Seq(ObjectsIn(M))]
    /\ {Head(list).ppn} \cup CachePages(l2) = CachePages(lists) \cup new

\* Taking an object leaves the pages of the other classes alone.
LEMMA CacheTake ==
    ASSUME NEW M, NEW lists \in [Classes -> Seq(ObjectsIn(M))], NEW i \in Classes,
           NEW list \in Seq(ObjectsIn(M)), list # <<>>, NEW new,
           PagesOf(list) \cup CachePages(lists) = CachePages(lists) \cup new,
           PagesOf(lists[i]) \subseteq PagesOf(list)
    PROVE  CacheTaken(M, lists, i, list, new)
<1> DEFINE h == Head(list)
           t == Tail(list)
           l2 == [lists EXCEPT ![i] = t]
<1>1. h \in ObjectsIn(M) /\ t \in Seq(ObjectsIn(M)) /\ PagesOf(list) = {h.ppn} \cup PagesOf(t)
  BY TakeHead
<1> HIDE DEF h, t
<1>2. l2 \in [Classes -> Seq(ObjectsIn(M))] /\ l2[i] = t /\ \A j \in Classes \ {i} : l2[j] = lists[j]
  BY <1>1
<1> HIDE DEF l2
<1>3. {h.ppn} \cup CachePages(l2) = PagesOf(list) \cup CachePages(lists)
  <2>1. \A x : x \in CachePages(l2) <=> \E j \in Classes : x \in PagesOf(l2[j])
    BY DEF CachePages
  <2>2. \A x : x \in CachePages(lists) <=> \E j \in Classes : x \in PagesOf(lists[j])
    BY DEF CachePages
  <2>3. ASSUME NEW x \in {h.ppn} \cup CachePages(l2) PROVE x \in PagesOf(list) \cup CachePages(lists)
    BY <1>1, <1>2, <2>1, <2>2
  <2>4. ASSUME NEW x \in PagesOf(list) \cup CachePages(lists) PROVE x \in {h.ppn} \cup CachePages(l2)
    BY <1>1, <1>2, <2>1, <2>2
  <2> QED
    BY <2>3, <2>4
<1> QED
  BY <1>1, <1>2, <1>3 DEF CacheTaken, h, t, l2

\* What kmalloc does for a size that fits a class.
LEMMA Kmalloc ==
    ASSUME NEW M \in SUBSET Nat, NEW m \in Memory(M), NEW lists \in [Classes -> Seq(ObjectsIn(M))],
           NEW size \in 1 .. PAGE_SIZE, NEW reach
    PROVE  KmallocResult(M, m, lists, kmalloc(m, lists, size, reach))
<1> DEFINE i == size_to_idx(size)
           b == alloc_page(m, reach)
           d == kmalloc(m, lists, size, reach)
<1> SUFFICES KmallocResult(M, m, lists, d)
  OBVIOUS
<1>1. i \in Classes /\ i # -1
  BY SizeClass
<1>2. CASE lists[i] # <<>>
  <2> DEFINE list == lists[i]
  <2>1. d = [st |-> "ok", m |-> m, partial |-> [lists EXCEPT ![i] = Tail(list)], obj |-> Head(list)]
    BY <1>1, <1>2 DEF kmalloc
  <2> HIDE DEF d, i
  <2>2. list \in Seq(ObjectsIn(M)) /\ list # <<>>
    BY <1>1, <1>2
  <2>3. PagesOf(list) \cup CachePages(lists) = CachePages(lists) \cup {} /\ PagesOf(lists[i]) \subseteq PagesOf(list)
    BY <1>1 DEF CachePages
  <2> HIDE DEF list
  <2>4. CacheTaken(M, lists, i, list, {})
    BY <1>1, <2>2, <2>3, CacheTake
  <2> QED
    BY <2>1, <2>4 DEF KmallocResult, CacheTaken
<1>3. CASE lists[i] = <<>>
  <2>1. d = IF b.st # "ok" THEN [st |-> "fault", m |-> b.m, partial |-> lists, obj |-> NoObj]
            ELSE [st |-> "ok", m |-> b.m, partial |-> [lists EXCEPT ![i] = Tail(NewList(b.ppn, i))],
                  obj |-> Head(NewList(b.ppn, i))]
    BY <1>1, <1>3 DEF kmalloc
  <2>2. \/ m.free = {} /\ b = [st |-> "fail", ppn |-> 0, m |-> m]
        \/ \E f \in m.free :
              b = [st |-> IF f \in reach THEN "ok" ELSE "fault", ppn |-> f, m |-> Taken(m, f)]
    BY AllocPage
  <2> HIDE DEF d, i, b
  <2>3. CASE m.free = {} /\ b = [st |-> "fail", ppn |-> 0, m |-> m]
    BY <2>1, <2>3 DEF KmallocResult
  <2>4. ASSUME NEW f \in m.free,
               b = [st |-> IF f \in reach THEN "ok" ELSE "fault", ppn |-> f, m |-> Taken(m, f)]
        PROVE  KmallocResult(M, m, lists, d)
    <3>1. CASE f \notin reach
      <4>1. d = [st |-> "fault", m |-> Taken(m, f), partial |-> lists, obj |-> NoObj]
        BY <2>1, <2>4, <3>1
      <4> QED
        BY <4>1 DEF KmallocResult
    <3>2. CASE f \in reach
      <4> DEFINE list == NewList(f, i)
      <4>1. d = [st |-> "ok", m |-> Taken(m, f), partial |-> [lists EXCEPT ![i] = Tail(list)],
                 obj |-> Head(list)]
        BY <2>1, <2>4, <3>2
      <4>2. f \in M
        BY MemoryFacts
      <4>3. list \in Seq(ObjectsIn(M)) /\ list # <<>> /\ PagesOf(list) = {f}
        BY <1>1, <4>2, NewListFacts
      <4>4. PagesOf(lists[i]) = {}
        BY <1>3 DEF PagesOf
      <4> HIDE DEF list
      <4>5. PagesOf(list) \cup CachePages(lists) = CachePages(lists) \cup {f} /\ PagesOf(lists[i]) \subseteq PagesOf(list)
        BY <4>3, <4>4
      <4>6. CacheTaken(M, lists, i, list, {f})
        BY <1>1, <4>3, <4>5, CacheTake
      <4> QED
        BY <4>1, <4>6 DEF KmallocResult, CacheTaken
    <3> QED
      BY <3>1, <3>2
  <2> QED
    BY <2>2, <2>3, <2>4
<1> QED
  BY <1>2, <1>3

------------------------------------------------------------------------------
(* create_proc, step by step.                                              *)

\* How a step ends.
LEMMA OutcomeFacts ==
    ASSUME NEW d, NEW next, Outcome(d, next), d.st \in Results, TypeInv
    PROVE  /\ mem' = d.m /\ managed' = managed /\ kernel_mapped' = kernel_mapped /\ call' = call
           /\ failed' \in BOOLEAN /\ (failed => failed') /\ (d.st # "ok" => failed')
           /\ \/ d.st = "ok" /\ pc' = next
              \/ d.st = "fail" /\ pc' = "fail1"
              \/ d.st = "fault" /\ pc' = "halt"
<1>1. failed \in BOOLEAN
  BY DEF TypeInv
<1>2. failed' = (failed \/ d.st # "ok")
  BY DEF Outcome
<1>3. failed' \in BOOLEAN /\ (failed => failed') /\ (d.st # "ok" => failed')
  BY <1>1, <1>2
<1>4. \/ d.st = "ok" /\ pc' = next
      \/ d.st = "fail" /\ pc' = "fail1"
      \/ d.st = "fault" /\ pc' = "halt"
  BY DEF Outcome, Results
<1> QED
  BY <1>3, <1>4 DEF Outcome

\* create_proc has failed.
LEMMA Stopped ==
    ASSUME pc' \in {"fail1", "halt"}, p'.state = "UNUSED", call'.op # "munmap"
    PROVE  ProcInv' /\ CreateInv' /\ RunInv' /\ HeapInv'
<1>1. ProcInv'
  BY DEF ProcInv, Created, Creating, HasRoot, Running
<1>2. CreateInv'
  BY DEF CreateInv, Creating, HasRoot
<1>3. RunInv'
  BY DEF RunInv
<1>4. HeapInv'
  BY DEF HeapInv
<1> QED
  BY <1>1, <1>2, <1>3, <1>4

\* The parts about the running process do not matter yet.
LEMMA NotRunning ==
    ASSUME pc' \in Creating \cup {"queue", "shell_init"}, p'.state # "RUNNING", call'.op # "munmap"
    PROVE  RunInv' /\ HeapInv'
<1>1. RunInv'
  BY DEF RunInv
<1>2. HeapInv'
  BY DEF HeapInv, Creating
<1> QED
  BY <1>1, <1>2

\* create_proc runs outside system calls.
LEMMA NoMunmap ==
    ASSUME HeapInv, pc \in Creating
    PROVE  call.op # "munmap"
BY DEF HeapInv, Creating

\* kmalloc in create_proc: the object goes to the field of p that was NULL.
LEMMA KmallocStep ==
    ASSUME TypeInv, TreeInv, UsesInv, NEW d, KmallocResult(managed, mem, partial, d),
           mem' = d.m, managed' = managed, p'.pagetable = p.pagetable, partial' = d.partial,
           {p'.obj.ppn, p'.kstack.ppn} \ {0} = ({p.obj.ppn, p.kstack.ppn, d.obj.ppn} \ {0}),
           failed' \in BOOLEAN, failed => failed', d.st # "ok" => failed'
    PROVE  /\ mem' \in Memory(managed') /\ TreeInv' /\ UsesInv'
           /\ partial' \in [Classes -> Seq(ObjectsIn(managed'))]
           /\ d.st \in {"ok", "fault"} /\ d.obj \in ObjectsIn(managed) \cup {NoObj}
           /\ d.st = "ok" => d.obj \in ObjectsIn(managed)
           /\ \A u \in VPages : Space'[u] = Space[u]
           /\ p.pagetable # 0 => (UartEntry' <=> UartEntry)
<1> DEFINE r == p.pagetable
<1>1. /\ managed \in SUBSET Nat /\ mem \in Memory(managed) /\ failed \in BOOLEAN
      /\ 0 \notin managed /\ mem.free \subseteq managed
      /\ r # 0 => \A u \in VPages : Space[u] = Translation(mem, r, u)
      /\ r # 0 => TablePages = Tables(mem, r)
  BY Basics
<1>2. /\ r # 0 => \A u \in VPages : Space'[u] = Translation(mem', r, u)
      /\ r # 0 => TablePages' = Tables(mem', r)
  BY BasicsNext
<1>3. partial \in [Classes -> Seq(ObjectsIn(managed))]
  BY DEF TypeInv
<1>4. /\ ObjectPages = ({p.obj.ppn, p.kstack.ppn} \ {0}) \cup CachePages(partial)
      /\ ObjectPages' = ({p'.obj.ppn, p'.kstack.ppn} \ {0}) \cup CachePages(partial')
  BY DEF ObjectPages, CachePages, PagesOf
<1>5. /\ d.st \in {"ok", "fault"} /\ d.obj \in ObjectsIn(managed) \cup {NoObj}
      /\ d.st = "ok" => d.obj \in ObjectsIn(managed)
      /\ partial' \in [Classes -> Seq(ObjectsIn(managed))]
  BY <1>3 DEF KmallocResult
<1>6. d.st = "ok" => d.obj.ppn \in managed /\ d.obj.ppn # 0
  BY <1>1, <1>5 DEF ObjectsIn
<1>7. ASSUME mem' \in Memory(managed), mem'.free \subseteq mem.free,
             r # 0 => TreeOK(managed, mem', r) /\ Tables(mem', r) = Tables(mem, r)
                      /\ mem'.tab[r] = mem.tab[r]
                      /\ \A u \in VPages : Translation(mem', r, u) = Translation(mem, r, u),
             ObjectPages \subseteq ObjectPages', ObjectPages' \subseteq ObjectPages \cup (mem.free \ mem'.free),
             failed' \/ mem.free \ mem'.free \subseteq ObjectPages'
      PROVE  /\ TreeInv' /\ UsesInv'
             /\ \A u \in VPages : Space'[u] = Space[u]
             /\ p.pagetable # 0 => (UartEntry' <=> UartEntry)
  <2>1. TreeInv'
    BY <1>7 DEF TreeInv
  <2>2. \A u \in VPages : Space'[u] = Space[u]
    <3>1. CASE r = 0
      BY <3>1 DEF Space, Mapped
    <3>2. CASE r # 0
      BY <1>1, <1>2, <1>7, <3>2
    <3> QED
      BY <3>1, <3>2
  <2>3. TablePages' = TablePages
    <3>1. CASE r = 0
      BY <3>1 DEF TablePages
    <3>2. CASE r # 0
      BY <1>1, <1>2, <1>7, <3>2
    <3> QED
      BY <3>1, <3>2
  <2>4. UsesOK(managed, mem.free, TablePages, ObjectPages, Space, failed)
    BY DEF UsesInv
  <2>5. \A u \in UserVPages : Space'[u] = Space[u]
    BY <2>2, UserLayout
  <2>6. TablePages \cap ObjectPages' = {}
    BY <1>7, <2>4 DEF UsesOK
  <2>7. UsesOK(managed, mem'.free, TablePages, ObjectPages', Space', failed')
    BY <1>1, <1>7, <2>4, <2>5, <2>6, UsesTake
  <2>8. UsesInv'
    BY <2>3, <2>7 DEF UsesInv
  <2>9. p.pagetable # 0 => (UartEntry' <=> UartEntry)
    BY <1>7 DEF UartEntry
  <2> QED
    BY <2>1, <2>2, <2>8, <2>9
<1>8. /\ r # 0 => TreeOK(managed, mem, r)
  BY DEF TreeInv
<1>9. CASE mem' = mem
  <2>1. ObjectPages' = ObjectPages
    <3>1. CASE d.st = "fault"
      <4>1. d.obj.ppn = 0 /\ partial' = partial
        BY <3>1 DEF KmallocResult, NoObj
      <4> QED
        BY <1>4, <4>1
    <3>2. CASE d.st = "ok"
      <4>1. {d.obj.ppn} \cup CachePages(partial') = CachePages(partial)
        <5>1. ASSUME NEW f \in mem.free PROVE d.m # Taken(mem, f)
          <6>1. Taken(mem, f).free = mem.free \ {f}
            BY <1>1, TakeKeeps
          <6> QED
            BY <1>9, <6>1
        <5> QED
          BY <3>2, <5>1 DEF KmallocResult
      <4> QED
        BY <1>4, <1>6, <3>2, <4>1
    <3> QED
      BY <1>5, <3>1, <3>2
  <2>2. mem' \in Memory(managed) /\ mem'.free = mem.free
    BY <1>1, <1>9
  <2> QED
    BY <1>5, <1>7, <1>8, <1>9, <2>1, <2>2
<1>10. ASSUME NEW f \in mem.free, mem' = Taken(mem, f)
       PROVE  /\ mem' \in Memory(managed') /\ TreeInv' /\ UsesInv'
              /\ \A u \in VPages : Space'[u] = Space[u]
              /\ p.pagetable # 0 => (UartEntry' <=> UartEntry)
  <2>1. mem' \in Memory(managed) /\ mem'.free = mem.free \ {f}
    BY <1>1, <1>10, TakeKeeps
  <2>2. r # 0 => TreeOK(managed, mem', r) /\ Tables(mem', r) = Tables(mem, r)
                      /\ mem'.tab[r] = mem.tab[r]
                      /\ \A u \in VPages : Translation(mem', r, u) = Translation(mem, r, u)
    BY <1>1, <1>8, <1>10, TakeGrows
  <2>3. CASE d.st = "fault"
    <3>1. d.obj.ppn = 0 /\ partial' = partial
      BY <2>3 DEF KmallocResult, NoObj
    <3>2. ObjectPages' = ObjectPages
      BY <1>4, <3>1
    <3>3. mem'.free \subseteq mem.free
      BY <2>1
    <3> QED
      BY <1>7, <2>1, <2>2, <2>3, <3>2, <3>3
  <2>4. CASE d.st = "ok"
    <3>1. {d.obj.ppn} \cup CachePages(partial') = CachePages(partial) \cup {f}
      <4>1. d.m # mem
        BY <1>10, <2>1
      <4>2. PICK g \in mem.free : d.m = Taken(mem, g)
                /\ {d.obj.ppn} \cup CachePages(d.partial) = CachePages(partial) \cup {g}
        BY <2>4, <4>1 DEF KmallocResult
      <4>3. Taken(mem, g).free = mem.free \ {g}
        BY <1>1, TakeKeeps
      <4>4. g = f
        BY <2>1, <4>2, <4>3
      <4> QED
        BY <4>2, <4>4
    <3>2. ObjectPages' = ObjectPages \cup {f} /\ f \in mem.free \ mem'.free
      BY <1>4, <1>6, <2>1, <2>4, <3>1
    <3>3. mem'.free \subseteq mem.free /\ mem.free \ mem'.free = {f}
      BY <2>1
    <3> QED
      BY <1>7, <2>1, <2>2, <3>2, <3>3
  <2> QED
    BY <1>5, <2>3, <2>4
<1>11. mem' = mem \/ \E f \in mem.free : mem' = Taken(mem, f)
  BY DEF KmallocResult
<1> QED
  BY <1>5, <1>9, <1>10, <1>11

\* An object is not NULL.
LEMMA ObjectIsNotNull ==
    ASSUME TypeInv, NEW obj \in ObjectsIn(managed)
    PROVE  obj # NoObj /\ obj.ppn \in managed /\ obj.ppn # 0
BY Basics DEF ObjectsIn, NoObj

\* kzalloc of the proc_t.
LEMMA AllocProcStep ==
    ASSUME IInv, AllocProc
    PROVE  IInv'
<1> DEFINE d == kmalloc(mem, partial, PROC_SIZE, KernelReach)
<1>1. TypeInv /\ TreeInv /\ UsesInv /\ ProcInv /\ HeapInv
  BY DEF IInv
<1>2. managed \in SUBSET Nat /\ mem \in Memory(managed) /\ partial \in [Classes -> Seq(ObjectsIn(managed))]
  BY <1>1, Basics DEF TypeInv
<1>3. PROC_SIZE \in 1 .. PAGE_SIZE
  BY ProcessAssumption
<1>4. KmallocResult(managed, mem, partial, d)
  BY <1>2, <1>3, Kmalloc
<1>5. pc = "proc" /\ p' = [p EXCEPT !.obj = d.obj] /\ partial' = d.partial /\ Outcome(d, "pagetable") /\ va' = va
  BY DEF AllocProc
<1> HIDE DEF d
<1>6. d.st \in Results
  BY <1>4 DEF KmallocResult, Results
<1>7. /\ mem' = d.m /\ managed' = managed /\ kernel_mapped' = kernel_mapped /\ call' = call
      /\ failed' \in BOOLEAN /\ (failed => failed') /\ (d.st # "ok" => failed')
      /\ \/ d.st = "ok" /\ pc' = "pagetable"
         \/ d.st = "fail" /\ pc' = "fail1"
         \/ d.st = "fault" /\ pc' = "halt"
  BY <1>1, <1>5, <1>6, OutcomeFacts
<1>8. /\ p \in ProcRecords(managed) /\ p.obj = NoObj /\ p.kstack = NoObj /\ p.pagetable = 0 /\ p.state = "UNUSED"
  BY <1>1, <1>5 DEF TypeInv, ProcInv, Creating
<1>9. /\ p'.pagetable = 0 /\ p'.kstack = NoObj /\ p'.obj = d.obj /\ p'.state = "UNUSED"
  BY <1>5, <1>8 DEF ProcRecords
<1>10. {p'.obj.ppn, p'.kstack.ppn} \ {0} = ({p.obj.ppn, p.kstack.ppn, d.obj.ppn} \ {0})
  BY <1>8, <1>9 DEF NoObj
<1>11. /\ mem' \in Memory(managed') /\ TreeInv' /\ UsesInv'
       /\ partial' \in [Classes -> Seq(ObjectsIn(managed'))]
       /\ d.st \in {"ok", "fault"} /\ d.obj \in ObjectsIn(managed) \cup {NoObj}
       /\ d.st = "ok" => d.obj \in ObjectsIn(managed)
  BY <1>1, <1>4, <1>5, <1>7, <1>8, <1>9, <1>10, KmallocStep
<1>12. TypeInv'
  <2>1. p' \in ProcRecords(managed')
    BY <1>5, <1>7, <1>8, <1>11 DEF ProcRecords
  <2> QED
    BY <1>1, <1>5, <1>7, <1>11, <2>1 DEF TypeInv, Labels, Creating
<1>13. call'.op # "munmap"
  BY <1>1, <1>5, <1>7, NoMunmap DEF Creating
<1>14. CASE pc' \in {"fail1", "halt"}
  BY <1>9, <1>11, <1>12, <1>13, <1>14, Stopped DEF IInv
<1>15. CASE d.st = "ok" /\ pc' = "pagetable"
  <2>1. p'.obj # NoObj
    BY <1>1, <1>9, <1>11, <1>15, ObjectIsNotNull
  <2>2. ProcInv'
    BY <1>9, <1>15, <2>1 DEF ProcInv, Created, Creating, HasRoot, Running
  <2>3. CreateInv'
    BY <1>15 DEF CreateInv, Creating, HasRoot
  <2>4. RunInv' /\ HeapInv'
    BY <1>9, <1>13, <1>15, NotRunning DEF Creating
  <2> QED
    BY <1>11, <1>12, <2>2, <2>3, <2>4 DEF IInv
<1> QED
  BY <1>7, <1>14, <1>15

\* The root of the page table.
LEMMA AllocPagetableStep ==
    ASSUME IInv, AllocPagetable
    PROVE  IInv'
<1> DEFINE d == alloc_page(mem, KernelReach)
<1>1. TypeInv /\ TreeInv /\ UsesInv /\ ProcInv /\ HeapInv
  BY DEF IInv
<1>2. /\ managed \in SUBSET Nat /\ mem \in Memory(managed) /\ mem.free \subseteq managed /\ failed \in BOOLEAN
      /\ managed \in Memories /\ 0 \notin managed
  BY <1>1, Basics
<1>3. \/ mem.free = {} /\ d = [st |-> "fail", ppn |-> 0, m |-> mem]
      \/ \E f \in mem.free :
            d = [st |-> IF f \in KernelReach THEN "ok" ELSE "fault", ppn |-> f, m |-> Taken(mem, f)]
  BY <1>2, AllocPage
<1>4. pc = "pagetable" /\ p' = [p EXCEPT !.pagetable = d.ppn] /\ Outcome(d, "kstack") /\ va' = va /\ partial' = partial
  BY DEF AllocPagetable
<1> HIDE DEF d
<1>5. d.st \in Results
  BY <1>3 DEF Results
<1>6. /\ mem' = d.m /\ managed' = managed /\ kernel_mapped' = kernel_mapped /\ call' = call
      /\ failed' \in BOOLEAN /\ (failed => failed') /\ (d.st # "ok" => failed')
      /\ \/ d.st = "ok" /\ pc' = "kstack"
         \/ d.st = "fail" /\ pc' = "fail1"
         \/ d.st = "fault" /\ pc' = "halt"
  BY <1>1, <1>4, <1>5, OutcomeFacts
<1>7. /\ p \in ProcRecords(managed) /\ p.obj # NoObj /\ p.kstack = NoObj /\ p.pagetable = 0 /\ p.state = "UNUSED"
  BY <1>1, <1>4 DEF TypeInv, ProcInv, Creating
<1>8. /\ p'.pagetable = d.ppn /\ p'.kstack = NoObj /\ p'.obj = p.obj /\ p'.state = "UNUSED" /\ SameObjects
  BY <1>4, <1>7 DEF ProcRecords, SameObjects
<1>9. call'.op # "munmap"
  BY <1>1, <1>4, <1>6, NoMunmap DEF Creating
<1>10. ObjectPages' = ObjectPages /\ UserVPages \subseteq VPages
  BY <1>8, ObjectsKept, UserLayout
<1>11. TablePages = {} /\ \A u \in VPages : Space[u] = NoPte
  BY <1>7 DEF TablePages, Space, Mapped
<1>12. UsesOK(managed, mem.free, TablePages, ObjectPages, Space, failed)
  BY <1>1 DEF UsesInv
<1>13. ASSUME mem' \in Memory(managed), d.ppn \in managed \cup {0} PROVE TypeInv'
  <2>1. p' \in ProcRecords(managed')
    BY <1>4, <1>6, <1>7, <1>13 DEF ProcRecords
  <2> QED
    BY <1>1, <1>4, <1>6, <1>13, <2>1 DEF TypeInv, Labels, Creating
<1>14. CASE mem.free = {} /\ d = [st |-> "fail", ppn |-> 0, m |-> mem]
  <2>1. mem' = mem /\ p'.pagetable = 0 /\ pc' = "fail1" /\ d.ppn = 0 /\ failed'
    BY <1>6, <1>8, <1>14
  <2>2. TablePages' = {} /\ \A u \in VPages : Space'[u] = NoPte
    BY <2>1 DEF TablePages, Space, Mapped
  <2>3. UsesOK(managed, mem'.free, TablePages', ObjectPages, Space', failed')
    BY <1>2, <1>6, <1>10, <1>11, <1>12, <2>1, <2>2 DEF UsesOK
  <2>4. UsesInv'
    BY <1>6, <1>10, <2>3 DEF UsesInv
  <2>5. TreeInv'
    BY <2>1 DEF TreeInv
  <2> QED
    BY <1>2, <1>8, <1>9, <1>13, <2>1, <2>4, <2>5, Stopped DEF IInv
<1>15. ASSUME NEW f \in mem.free,
              d = [st |-> IF f \in KernelReach THEN "ok" ELSE "fault", ppn |-> f, m |-> Taken(mem, f)]
       PROVE  IInv'
  <2>1. mem' = Taken(mem, f) /\ p'.pagetable = f /\ d.ppn = f /\ d.st \in {"ok", "fault"} /\ f # 0 /\ f \in managed
    BY <1>2, <1>6, <1>8, <1>15
  <2>2. mem' \in Memory(managed) /\ mem'.free = mem.free \ {f}
    BY <1>2, <2>1, TakeKeeps
  <2>3. /\ TreeOK(managed, mem', f) /\ Tables(mem', f) = {f}
        /\ \A v \in VPages : Translation(mem', f, v) = NoPte
        /\ \A i \in Idx : ~mem'.tab[f][i].v
    BY <1>2, <2>1, NewRoot
  <2>4. TablePages' = {f} /\ \A u \in VPages : Space'[u] = NoPte
    BY <2>1, <2>3, BasicsNext
  <2>5. TreeInv'
    BY <1>6, <2>1, <2>3 DEF TreeInv
  <2>6. UsesOK(managed, mem'.free, TablePages', ObjectPages, Space', failed')
    <3>1. \A u \in UserVPages : Space'[u] = Space[u]
      BY <1>10, <1>11, <2>4
    <3>2. /\ mem'.free \subseteq mem.free /\ TablePages \subseteq TablePages'
          /\ TablePages' \subseteq TablePages \cup (mem.free \ mem'.free)
          /\ failed' \/ mem.free \ mem'.free \subseteq TablePages' \cup ObjectPages
      BY <1>11, <2>2, <2>4
    <3>3. TablePages' \cap ObjectPages = {}
      BY <1>12, <2>4 DEF UsesOK
    <3> QED
      BY <1>2, <1>6, <1>12, <3>1, <3>2, <3>3, UsesTake
  <2>7. UsesInv'
    BY <1>6, <1>10, <2>6 DEF UsesInv
  <2>8. TypeInv'
    BY <1>13, <2>1, <2>2
  <2>9. CASE pc' = "halt"
    BY <1>8, <1>9, <2>5, <2>7, <2>8, <2>9, Stopped DEF IInv
  <2>10. CASE pc' = "kstack"
    <3>1. ProcInv'
      BY <1>7, <1>8, <2>1, <2>10 DEF ProcInv, Created, Creating, HasRoot, Running
    <3>2. Only(Space', {})
      BY <2>4, EmptyFacts DEF Only
    <3>3. ~UartEntry'
      <4>1. X2(UartVPage) \in Idx
        BY UartPage, Positions DEF UartVPage
      <4> QED
        BY <2>1, <2>3, <4>1 DEF UartEntry
    <3>4. CreateInv'
      BY <2>10, <3>2, <3>3 DEF CreateInv, Creating, HasRoot
    <3>5. RunInv' /\ HeapInv'
      BY <1>8, <1>9, <2>10, NotRunning DEF Creating
    <3> QED
      BY <2>5, <2>7, <2>8, <3>1, <3>4, <3>5 DEF IInv
  <2> QED
    BY <1>6, <2>1, <2>9, <2>10
<1> QED
  BY <1>3, <1>14, <1>15

\* kmalloc of the kernel stack.
LEMMA AllocKstackStep ==
    ASSUME IInv, AllocKstack
    PROVE  IInv'
<1> DEFINE d == kmalloc(mem, partial, PAGE_SIZE, KernelReach)
<1>1. TypeInv /\ TreeInv /\ UsesInv /\ ProcInv /\ CreateInv /\ HeapInv
  BY DEF IInv
<1>2. managed \in SUBSET Nat /\ mem \in Memory(managed) /\ partial \in [Classes -> Seq(ObjectsIn(managed))]
  BY <1>1, Basics DEF TypeInv
<1>3. PAGE_SIZE \in 1 .. PAGE_SIZE
  BY Sizes
<1>4. KmallocResult(managed, mem, partial, d)
  BY <1>2, <1>3, Kmalloc
<1>5. pc = "kstack" /\ p' = [p EXCEPT !.kstack = d.obj] /\ partial' = d.partial /\ Outcome(d, "map_proc") /\ va' = va
  BY DEF AllocKstack
<1> HIDE DEF d
<1>6. d.st \in Results
  BY <1>4 DEF KmallocResult, Results
<1>7. /\ mem' = d.m /\ managed' = managed /\ kernel_mapped' = kernel_mapped /\ call' = call
      /\ failed' \in BOOLEAN /\ (failed => failed') /\ (d.st # "ok" => failed')
      /\ \/ d.st = "ok" /\ pc' = "map_proc"
         \/ d.st = "fail" /\ pc' = "fail1"
         \/ d.st = "fault" /\ pc' = "halt"
  BY <1>1, <1>5, <1>6, OutcomeFacts
<1>8. /\ p \in ProcRecords(managed) /\ p.obj # NoObj /\ p.kstack = NoObj /\ p.pagetable # 0 /\ p.state = "UNUSED"
  BY <1>1, <1>5 DEF TypeInv, ProcInv, Creating, HasRoot
<1>9. /\ p'.pagetable = p.pagetable /\ p'.kstack = d.obj /\ p'.obj = p.obj /\ p'.state = "UNUSED"
  BY <1>5, <1>8 DEF ProcRecords
<1>10. {p'.obj.ppn, p'.kstack.ppn} \ {0} = ({p.obj.ppn, p.kstack.ppn, d.obj.ppn} \ {0})
  BY <1>8, <1>9 DEF NoObj
<1>11. /\ mem' \in Memory(managed') /\ TreeInv' /\ UsesInv'
       /\ partial' \in [Classes -> Seq(ObjectsIn(managed'))]
       /\ d.st \in {"ok", "fault"} /\ d.obj \in ObjectsIn(managed) \cup {NoObj}
       /\ d.st = "ok" => d.obj \in ObjectsIn(managed)
       /\ \A u \in VPages : Space'[u] = Space[u]
       /\ p.pagetable # 0 => (UartEntry' <=> UartEntry)
  BY <1>1, <1>4, <1>5, <1>7, <1>8, <1>9, <1>10, KmallocStep
<1>12. TypeInv'
  <2>1. p' \in ProcRecords(managed')
    BY <1>5, <1>7, <1>8, <1>11 DEF ProcRecords
  <2> QED
    BY <1>1, <1>5, <1>7, <1>11, <2>1 DEF TypeInv, Labels, Creating
<1>13. call'.op # "munmap"
  BY <1>1, <1>5, <1>7, NoMunmap DEF Creating
<1>14. CASE pc' \in {"fail1", "halt"}
  BY <1>9, <1>11, <1>12, <1>13, <1>14, Stopped DEF IInv
<1>15. CASE d.st = "ok" /\ pc' = "map_proc"
  <2>1. p'.kstack # NoObj
    BY <1>1, <1>9, <1>11, <1>15, ObjectIsNotNull
  <2>2. ProcInv'
    BY <1>8, <1>9, <1>15, <2>1 DEF ProcInv, Created, Creating, HasRoot, Running
  <2>3. Only(Space, {}) /\ ~UartEntry
    BY <1>1, <1>5 DEF CreateInv, HasRoot, Creating
  <2>4. Only(Space', {}) /\ ~UartEntry'
    BY <1>8, <1>11, <2>3 DEF Only
  <2>5. CreateInv'
    BY <1>15, <2>4 DEF CreateInv, Creating, HasRoot
  <2>6. RunInv' /\ HeapInv'
    BY <1>9, <1>13, <1>15, NotRunning DEF Creating
  <2> QED
    BY <1>11, <1>12, <2>2, <2>5, <2>6 DEF IInv
<1> QED
  BY <1>7, <1>14, <1>15

\* What mapping a page leaves alone.
LEMMA RemapsOnly ==
    ASSUME NEW v \in VPages, NEW e, NEW st, Remaps(v, e, st), NEW S, Only(Space, S)
    PROVE  Only(Space', S \cup {v})
BY DEF Remaps, Only

\* A mapping that exists stays.
LEMMA RemapsKeeps ==
    ASSUME NEW v \in VPages, NEW e, NEW st, Remaps(v, e, st), NEW w \in VPages, Space[w].v
    PROVE  Space'[w] = Space[w]
BY DEF Remaps

\* So do the mappings of the kernel.
LEMMA KernelMapsKept ==
    ASSUME NEW v \in VPages, NEW e, NEW st, Remaps(v, e, st),
           NEW f \in Nat, NEW perm \in Perms, KernelVPage(f) \in VPages, KernelMaps(Space, f, perm)
    PROVE  KernelMaps(Space', f, perm)
<1>1. Space[KernelVPage(f)].v
  BY PteFacts DEF KernelMaps
<1> QED
  BY <1>1, RemapsKeeps DEF KernelMaps

\* A page that had no translation gets one.
LEMMA NewlyMapped ==
    ASSUME NEW v, NEW e, Remaps(v, e, "ok"), ~Space[v].v
    PROVE  Space'[v] = e
BY DEF Remaps

\* The objects of create_proc: where they are mapped.
LEMMA ObjectLayout ==
    ASSUME TypeInv, NEW obj \in ObjectsIn(managed) \cup {NoObj}, obj # NoObj
    PROVE  /\ obj.ppn \in managed /\ obj.ppn \in Nat
           /\ VirtAddr(obj) \in Nat /\ VPage(VirtAddr(obj)) = KernelVPage(obj.ppn)
           /\ KernelVPage(obj.ppn) \in VPages /\ KernelVPage(obj.ppn) > UserPages
           /\ KernelVPage(obj.ppn) \notin UserVPages
           /\ X2(KernelVPage(obj.ppn)) # X2(UartVPage)
<1>1. managed \in Memories /\ managed \in SUBSET Nat
  BY Basics
<1>2. obj.ppn \in managed /\ obj.off \in 0 .. PAGE_SIZE - 1 /\ obj = [ppn |-> obj.ppn, off |-> obj.off]
  BY DEF ObjectsIn
<1>3. VirtAddr(obj) \in Nat /\ VPage(VirtAddr(obj)) = KernelVPage(obj.ppn)
  BY <1>1, <1>2, ObjectPage
<1>4. /\ KernelVPage(obj.ppn) \in VPages /\ KernelVPage(obj.ppn) > UserPages
      /\ X2(KernelVPage(obj.ppn)) # X2(UartVPage)
  BY <1>1, <1>2, KernelLayout DEF UartVPage
<1>5. KernelVPage(obj.ppn) \notin UserVPages
  <2>1. UserPages \in Nat /\ KernelVPage(obj.ppn) \in Nat
    BY <1>4, UserLayout, Positions
  <2> QED
    BY <1>4, <2>1 DEF UserVPages
<1> QED
  BY <1>1, <1>2, <1>3, <1>4, <1>5

\* map_page of a page of the kernel in create_proc.
LEMMA CreateMap ==
    ASSUME IInv, p.pagetable # 0, NEW n \in Nat, VPage(n) \notin UserVPages, NEW f \in Nat, NEW perm \in Perms,
           mem' = MapInto(mem, n, f, perm).m, managed' = managed, p' = p, partial' = partial,
           failed' \in BOOLEAN, failed => failed', MapInto(mem, n, f, perm).st = "fault" => failed'
    PROVE  MapStepResult(VPage(n), Pte(f, perm), MapInto(mem, n, f, perm))
<1> DEFINE d == MapInto(mem, n, f, perm)
           e == Pte(f, perm)
           v == VPage(n)
<1>1. TypeInv /\ TreeInv /\ UsesInv
  BY DEF IInv
<1>2. managed \in SUBSET Nat /\ mem \in Memory(managed) /\ TreeOK(managed, mem, p.pagetable)
  BY <1>1, Basics DEF TreeInv
<1>3. MapResult(managed, mem, p.pagetable, v, e, d)
  BY <1>2, MapPage DEF MapInto
<1>4. v \in VPages \ UserVPages
  BY Levels
<1>5. SameObjects /\ p'.pagetable = p.pagetable
  BY DEF SameObjects
<1>6. mem' = d.m /\ (d.st = "fault" => failed')
  OBVIOUS
<1> HIDE DEF d, e, v
<1>7. MapStepResult(v, e, d)
  BY <1>1, <1>3, <1>4, <1>5, <1>6, KernelMapStep
<1> QED
  BY <1>7 DEF d, e, v

\* map_page returns one of its three results.
LEMMA ResultsOf ==
    ASSUME NEW n, NEW f, NEW perm, IInv, p.pagetable # 0, n \in Nat, f \in Nat, perm \in Perms
    PROVE  MapInto(mem, n, f, perm).st \in Results /\ IsResult(MapInto(mem, n, f, perm))
<1>1. managed \in SUBSET Nat /\ mem \in Memory(managed) /\ TreeOK(managed, mem, p.pagetable)
  BY Basics DEF TreeInv, IInv
<1>2. MapResult(managed, mem, p.pagetable, VPage(n), Pte(f, perm), MapInto(mem, n, f, perm))
  BY <1>1, MapPage DEF MapInto
<1> QED
  BY <1>2 DEF MapResult

\* The proc_t is mapped.
LEMMA MapProcStep ==
    ASSUME IInv, MapProc
    PROVE  IInv'
<1> DEFINE n == VirtAddr(p.obj)
           f == p.obj.ppn
           v == KernelVPage(f)
           e == Pte(f, {"R", "W"})
           d == MapInto(mem, n, f, {"R", "W"})
<1>1. TypeInv /\ TreeInv /\ UsesInv /\ ProcInv /\ CreateInv /\ HeapInv
  BY DEF IInv
<1>2. pc = "map_proc" /\ Outcome(d, "map_kstack") /\ partial' = partial /\ p' = p /\ va' = va
  BY DEF MapProc
<1>3. /\ p \in ProcRecords(managed) /\ p.obj # NoObj /\ p.kstack # NoObj /\ p.pagetable # 0 /\ p.state = "UNUSED"
      /\ p.obj \in ObjectsIn(managed) \cup {NoObj}
  BY <1>1, <1>2 DEF TypeInv, ProcInv, Creating, HasRoot, ProcRecords
<1>4. /\ f \in managed /\ f \in Nat /\ n \in Nat /\ VPage(n) = v /\ v \in VPages /\ v \notin UserVPages
      /\ X2(v) # X2(UartVPage)
  BY <1>1, <1>3, ObjectLayout
<1>5. {"R", "W"} \in Perms
  BY DEF Perms
<1>6. d.st \in Results
  BY <1>3, <1>4, <1>5, ResultsOf
<1>7. /\ mem' = d.m /\ managed' = managed /\ kernel_mapped' = kernel_mapped /\ call' = call
      /\ failed' \in BOOLEAN /\ (failed => failed') /\ (d.st # "ok" => failed')
      /\ \/ d.st = "ok" /\ pc' = "map_kstack"
         \/ d.st = "fail" /\ pc' = "fail1"
         \/ d.st = "fault" /\ pc' = "halt"
  BY <1>1, <1>2, <1>6, OutcomeFacts
<1>8. MapStepResult(v, e, d)
  <2>1. d.st = "fault" => failed'
    BY <1>7
  <2> QED
    BY <1>2, <1>3, <1>4, <1>5, <1>7, <2>1, CreateMap
<1> HIDE DEF d
<1>9. /\ mem' \in Memory(managed') /\ TreeInv' /\ UsesInv' /\ Remaps(v, e, d.st)
      /\ (UartEntry' <=> UartEntry)
  BY <1>4, <1>8 DEF MapStepResult
<1>10. TypeInv'
  BY <1>1, <1>2, <1>7, <1>9 DEF TypeInv, Labels, Creating
<1>11. call'.op # "munmap"
  BY <1>1, <1>2, <1>7, NoMunmap DEF Creating
<1>12. CASE pc' \in {"fail1", "halt"}
  BY <1>2, <1>3, <1>9, <1>10, <1>11, <1>12, Stopped DEF IInv
<1>13. CASE d.st = "ok" /\ pc' = "map_kstack"
  <2>1. ProcInv'
    BY <1>2, <1>3, <1>13 DEF ProcInv, Created, Creating, HasRoot, Running
  <2>2. Only(Space, {}) /\ ~UartEntry
    BY <1>1, <1>2 DEF CreateInv, HasRoot, Creating
  <2>3. Only(Space', {} \cup {v})
    BY <1>4, <1>9, <2>2, RemapsOnly
  <2>4. Space'[v] = e
    BY <1>4, <1>9, <1>13, <2>2, NewlyMapped DEF Only
  <2>5. Only(Space', {KernelVPage(p'.obj.ppn)}) /\ ProcMapped'
    BY <1>2, <2>3, <2>4 DEF ProcMapped, KernelMaps
  <2>6. CreateInv'
    BY <1>9, <1>13, <2>2, <2>5 DEF CreateInv, Creating, HasRoot
  <2>7. RunInv' /\ HeapInv'
    BY <1>2, <1>3, <1>11, <1>13, NotRunning DEF Creating
  <2> QED
    BY <1>9, <1>10, <2>1, <2>6, <2>7 DEF IInv
<1> QED
  BY <1>7, <1>12, <1>13

\* The kernel stack is mapped; it may share its page with the proc_t.
LEMMA MapKstackStep ==
    ASSUME IInv, MapKstack
    PROVE  IInv'
<1> DEFINE n == VirtAddr(p.kstack)
           f == p.kstack.ppn
           v == KernelVPage(f)
           e == Pte(f, {"R", "W"})
           d == MapInto(mem, n, f, {"R", "W"})
<1>1. TypeInv /\ TreeInv /\ UsesInv /\ ProcInv /\ CreateInv /\ HeapInv
  BY DEF IInv
<1>2. pc = "map_kstack" /\ Outcome(d, "load") /\ partial' = partial /\ p' = p /\ va' = 0
  BY DEF MapKstack
<1>3. /\ p \in ProcRecords(managed) /\ p.obj # NoObj /\ p.kstack # NoObj /\ p.pagetable # 0 /\ p.state = "UNUSED"
      /\ p.obj \in ObjectsIn(managed) \cup {NoObj} /\ p.kstack \in ObjectsIn(managed) \cup {NoObj}
  BY <1>1, <1>2 DEF TypeInv, ProcInv, Creating, HasRoot, ProcRecords
<1>4. /\ f \in managed /\ f \in Nat /\ n \in Nat /\ VPage(n) = v /\ v \in VPages /\ v \notin UserVPages
      /\ X2(v) # X2(UartVPage)
  BY <1>1, <1>3, ObjectLayout
<1>5. {"R", "W"} \in Perms
  BY DEF Perms
<1>6. d.st \in Results
  BY <1>3, <1>4, <1>5, ResultsOf
<1>7. /\ mem' = d.m /\ managed' = managed /\ kernel_mapped' = kernel_mapped /\ call' = call
      /\ failed' \in BOOLEAN /\ (failed => failed') /\ (d.st # "ok" => failed')
      /\ \/ d.st = "ok" /\ pc' = "load"
         \/ d.st = "fail" /\ pc' = "fail1"
         \/ d.st = "fault" /\ pc' = "halt"
  BY <1>1, <1>2, <1>6, OutcomeFacts
<1>8. MapStepResult(v, e, d)
  <2>1. d.st = "fault" => failed'
    BY <1>7
  <2> QED
    BY <1>2, <1>3, <1>4, <1>5, <1>7, <2>1, CreateMap
<1> HIDE DEF d
<1>9. /\ mem' \in Memory(managed') /\ TreeInv' /\ UsesInv' /\ Remaps(v, e, d.st)
      /\ (UartEntry' <=> UartEntry)
  BY <1>4, <1>8 DEF MapStepResult
<1>10. TypeInv'
  BY <1>1, <1>2, <1>7, <1>9 DEF TypeInv, Labels, Creating
<1>11. call'.op # "munmap"
  BY <1>1, <1>2, <1>7, NoMunmap DEF Creating
<1>12. CASE pc' \in {"fail1", "halt"}
  BY <1>2, <1>3, <1>9, <1>10, <1>11, <1>12, Stopped DEF IInv
<1>13. CASE d.st = "ok" /\ pc' = "load"
  <2>1. ProcInv'
    BY <1>2, <1>3, <1>13 DEF ProcInv, Created, Creating, HasRoot, Running
  <2> DEFINE w == KernelVPage(p.obj.ppn)
  <2>2. Only(Space, {w}) /\ ProcMapped /\ ~UartEntry
    BY <1>1, <1>2 DEF CreateInv, HasRoot, Creating
  <2>3. w \in VPages /\ p.obj.ppn \in Nat
    BY <1>1, <1>3, ObjectLayout
  <2>4. Only(Space', {w} \cup {v})
    BY <1>4, <1>9, <2>2, RemapsOnly
  <2>5. KernelMaps(Space', p.obj.ppn, {"R", "W"})
    BY <1>4, <1>5, <1>9, <2>2, <2>3, KernelMapsKept DEF ProcMapped
  <2>6. KernelMaps(Space', f, {"R", "W"})
    <3>1. CASE v = w
      <4>1. p.obj.ppn = f
        <5>1. managed \in Memories /\ p.obj.ppn \in managed
          BY <1>1, <1>3, Basics, ObjectLayout
        <5> QED
          BY <1>4, <3>1, <5>1, KernelLayout
      <4> QED
        BY <2>5, <4>1
    <3>2. CASE v # w
      <4>1. ~Space[v].v
        BY <1>4, <2>2, <3>2 DEF Only
      <4> QED
        BY <1>9, <1>13, <4>1, NewlyMapped DEF KernelMaps
    <3> QED
      BY <3>1, <3>2
  <2>7. Aligned(va') /\ PageNo(va') = 0
    <3>1. 0 * PAGE_SIZE = 0
      BY Sizes
    <3> QED
      BY <1>2, <3>1, Multiples
  <2>8. ProgramMapped(Space', PageNo(va'))
    BY <2>7, UserLayout DEF ProgramMapped
  <2>9. PageNo(va') <= ProgramEnd
    BY <2>7, UserLayout
  <2>10. Only(Space', ObjectVPages' \cup 0 .. PageNo(va') - 1)
    BY <1>2, <2>4 DEF Only, ObjectVPages
  <2>11. LoadInv'
    BY <1>2, <2>5, <2>6, <2>7, <2>8, <2>9, <2>10 DEF LoadInv, ProcMapped, KstackMapped
  <2>12. CreateInv'
    BY <1>9, <1>13, <2>2, <2>11 DEF CreateInv, Creating, HasRoot
  <2>13. RunInv' /\ HeapInv'
    BY <1>2, <1>3, <1>11, <1>13, NotRunning DEF Creating
  <2> QED
    BY <1>9, <1>10, <2>1, <2>12, <2>13 DEF IInv
<1> QED
  BY <1>7, <1>12, <1>13

\* alloc_page and map_page of a page of the user in create_proc.
LEMMA AllocAndMapResult ==
    ASSUME IInv, p.pagetable # 0, NEW n \in Nat, NEW perm \in Perms
    PROVE  /\ AllocMapResult(managed, mem, p.pagetable, VPage(n), perm,
                             alloc_page(mem, KernelReach), AllocAndMap(n, perm))
           /\ AllocAndMap(n, perm).st \in Results
<1> DEFINE d == AllocAndMap(n, perm)
           a == alloc_page(mem, KernelReach)
<1>1. managed \in SUBSET Nat /\ mem \in Memory(managed) /\ TreeOK(managed, mem, p.pagetable)
  BY Basics DEF TreeInv, IInv
<1>2. d = IF a.st = "ok" THEN map_page(a.m, p.pagetable, n, a.ppn, perm, KernelReach) ELSE a
  BY DEF AllocAndMap, MapInto
<1>3. AllocMapResult(managed, mem, p.pagetable, VPage(n), perm, a, d)
  BY <1>1, <1>2, AllocMap
<1> HIDE DEF a, d
<1>4. d.st \in Results
  BY <1>3 DEF AllocMapResult, MapResult, Results
<1> QED
  BY <1>3, <1>4 DEF a, d

\* The same as a step, at a page that is not mapped yet.
LEMMA CreateUserMap ==
    ASSUME IInv, p.pagetable # 0, NEW n \in Nat, VPage(n) \in UserVPages, ~Space[VPage(n)].v,
           NEW perm \in Perms,
           mem' = AllocAndMap(n, perm).m, managed' = managed, p'.pagetable = p.pagetable, SameObjects,
           failed' \in BOOLEAN, failed => failed', AllocAndMap(n, perm).st # "ok" => failed'
    PROVE  UserStepResult(VPage(n), perm, alloc_page(mem, KernelReach), AllocAndMap(n, perm))
<1> DEFINE d == AllocAndMap(n, perm)
           a == alloc_page(mem, KernelReach)
           v == VPage(n)
<1>1. TypeInv /\ TreeInv /\ UsesInv
  BY DEF IInv
<1>2. AllocMapResult(managed, mem, p.pagetable, v, perm, a, d)
  BY AllocAndMapResult
<1>3. mem' = d.m /\ (d.st # "ok" => failed') /\ v \in UserVPages /\ (failed \/ ~Space[v].v)
  OBVIOUS
<1> HIDE DEF d, a, v
<1>4. UserStepResult(v, perm, a, d)
  BY <1>1, <1>2, <1>3, UserMapStep
<1> QED
  BY <1>4 DEF d, a, v

\* The loop that loads the program ends at its last page.
LEMMA LoadLoop ==
    ASSUME NEW x \in Nat, Aligned(x), PageNo(x) <= ProgramEnd
    PROVE  /\ x < BinarySize => PageNo(x) < ProgramEnd
           /\ x >= BinarySize => PageNo(x) = ProgramEnd /\ ALIGN_UP(x) = ProgramEnd * PAGE_SIZE
<1> DEFINE y == ALIGN_UP(BinarySize)
<1>1. BinarySize \in Nat /\ PAGE_SIZE \in Nat \ {0}
  BY ProcessAssumption, Sizes
<1>2. y \in Nat /\ Aligned(y) /\ BinarySize <= y /\ y < BinarySize + PAGE_SIZE
  BY <1>1, AlignUpNat
<1>3. PageNo(y) = ProgramEnd /\ ProgramEnd \in Nat
  BY UserLayout DEF ProgramEnd
<1> HIDE DEF y
<1>4. /\ PageNo(x) \in Nat /\ x + PAGE_SIZE \in Nat /\ Aligned(x + PAGE_SIZE)
      /\ PageNo(x + PAGE_SIZE) = PageNo(x) + 1 /\ ALIGN_UP(x) = x
  BY NextPage
<1>5. x < BinarySize => PageNo(x) < ProgramEnd
  <2> SUFFICES ASSUME x < BinarySize PROVE PageNo(x) < ProgramEnd
    OBVIOUS
  <2>1. x < y
    BY <1>1, <1>2
  <2> QED
    BY <1>2, <1>3, <2>1, PageOrder
<1>6. x >= BinarySize => PageNo(x) = ProgramEnd
  <2> SUFFICES ASSUME x >= BinarySize PROVE PageNo(x) = ProgramEnd
    OBVIOUS
  <2>1. y < x + PAGE_SIZE
    BY <1>1, <1>2
  <2>2. PageNo(y) < PageNo(x + PAGE_SIZE)
    BY <1>2, <1>4, <2>1, PageOrder
  <2> QED
    BY <1>3, <1>4, <2>2
<1>7. x >= BinarySize => ALIGN_UP(x) = ProgramEnd * PAGE_SIZE
  BY <1>4, <1>6 DEF Aligned
<1> QED
  BY <1>5, <1>6, <1>7

\* One page of the program.
LEMMA LoadPageStep ==
    ASSUME IInv, LoadPage
    PROVE  IInv'
<1> DEFINE v == PageNo(va)
           perm == {"R", "X", "U"}
           a == alloc_page(mem, KernelReach)
           d == AllocAndMap(va, perm)
<1>1. TypeInv /\ TreeInv /\ UsesInv /\ ProcInv /\ CreateInv /\ HeapInv
  BY DEF IInv
<1>2. pc = "load" /\ va < BinarySize /\ Outcome(d, "load") /\ partial' = partial /\ p' = p /\ va' = va + PAGE_SIZE
  BY DEF LoadPage
<1>3. /\ p \in ProcRecords(managed) /\ p.obj # NoObj /\ p.kstack # NoObj /\ p.pagetable # 0 /\ p.state = "UNUSED"
      /\ p.obj \in ObjectsIn(managed) \cup {NoObj} /\ p.kstack \in ObjectsIn(managed) \cup {NoObj}
  BY <1>1, <1>2 DEF TypeInv, ProcInv, Creating, HasRoot, ProcRecords
<1>4. LoadInv /\ ~UartEntry /\ va \in Nat
  BY <1>1, <1>2 DEF CreateInv, HasRoot, Creating, TypeInv
<1>5. Aligned(va) /\ v <= ProgramEnd
  BY <1>4 DEF LoadInv
<1>6. v < ProgramEnd
  BY <1>2, <1>4, <1>5, LoadLoop
<1>7. /\ UserPages \in Nat /\ ProgramEnd \in Nat /\ ProgramEnd <= UserPages - 2 /\ UserVPages \subseteq VPages
  BY UserLayout DEF Guard
<1>8. v \in Nat /\ Aligned(va') /\ PageNo(va') = v + 1 /\ va' \in Nat
  BY <1>2, <1>4, <1>5, NextPage
<1>9. v \in UserVPages /\ v \in VPages /\ v \in 0 .. UserPages
  BY <1>6, <1>7, <1>8 DEF UserVPages
<1>10. VPage(va) = v
  BY <1>4, <1>5, <1>9, NextPage
<1>11. X2(v) # X2(UartVPage)
  BY <1>9, UartLayout DEF UartVPage
<1>12. /\ KernelVPage(p.obj.ppn) \in VPages /\ KernelVPage(p.obj.ppn) \notin UserVPages /\ p.obj.ppn \in Nat
       /\ KernelVPage(p.kstack.ppn) \in VPages /\ KernelVPage(p.kstack.ppn) \notin UserVPages /\ p.kstack.ppn \in Nat
  BY <1>1, <1>3, ObjectLayout
<1> HIDE DEF v
<1>13. ~Space[v].v
  <2>1. v \notin ObjectVPages /\ v \notin 0 .. v - 1
    BY <1>8, <1>9, <1>12 DEF ObjectVPages
  <2>2. Only(Space, ObjectVPages \cup 0 .. v - 1)
    BY <1>4 DEF LoadInv, v
  <2> QED
    BY <1>9, <2>1, <2>2 DEF Only
<1>14. perm \in Perms
  BY DEF Perms
<1>15. d.st \in Results
  BY <1>3, <1>4, <1>14, AllocAndMapResult
<1>16. /\ mem' = d.m /\ managed' = managed /\ kernel_mapped' = kernel_mapped /\ call' = call
      /\ failed' \in BOOLEAN /\ (failed => failed') /\ (d.st # "ok" => failed')
      /\ \/ d.st = "ok" /\ pc' = "load"
         \/ d.st = "fail" /\ pc' = "fail1"
         \/ d.st = "fault" /\ pc' = "halt"
  BY <1>1, <1>2, <1>15, OutcomeFacts
<1>17. UserStepResult(v, perm, a, d)
  <2>1. SameObjects /\ p'.pagetable = p.pagetable
    BY <1>2 DEF SameObjects
  <2> QED
    BY <1>3, <1>4, <1>9, <1>10, <1>13, <1>14, <1>16, <2>1, CreateUserMap
<1> HIDE DEF d, a
<1>18. /\ mem' \in Memory(managed') /\ TreeInv' /\ UsesInv' /\ Remaps(v, Pte(a.ppn, perm), d.st)
       /\ (UartEntry' <=> UartEntry) /\ (d.st = "ok" => a.ppn \in managed)
  BY <1>11, <1>17 DEF UserStepResult
<1>19. TypeInv'
  BY <1>1, <1>2, <1>8, <1>16, <1>18 DEF TypeInv, Labels, Creating
<1>20. call'.op # "munmap"
  BY <1>1, <1>2, <1>16, NoMunmap DEF Creating
<1>21. CASE pc' \in {"fail1", "halt"}
  BY <1>2, <1>3, <1>18, <1>19, <1>20, <1>21, Stopped DEF IInv
<1>22. CASE d.st = "ok" /\ pc' = "load"
  <2>1. ProcInv'
    BY <1>2, <1>3, <1>22 DEF ProcInv, Created, Creating, HasRoot, Running
  <2>2. Space'[v] = Pte(a.ppn, perm)
    BY <1>13, <1>18, <1>22, NewlyMapped
  <2>3. KernelMaps(Space', p.obj.ppn, {"R", "W"}) /\ KernelMaps(Space', p.kstack.ppn, {"R", "W"})
    <3>1. {"R", "W"} \in Perms
      BY DEF Perms
    <3>2. KernelMaps(Space, p.obj.ppn, {"R", "W"}) /\ KernelMaps(Space, p.kstack.ppn, {"R", "W"})
      BY <1>4 DEF LoadInv, ProcMapped, KstackMapped
    <3> QED
      BY <1>9, <1>12, <1>18, <3>1, <3>2, KernelMapsKept
  <2>4. Only(Space', ObjectVPages \cup 0 .. v)
    <3>1. Only(Space, ObjectVPages \cup 0 .. v - 1)
      BY <1>4 DEF LoadInv, v
    <3>2. Only(Space', (ObjectVPages \cup 0 .. v - 1) \cup {v})
      BY <1>9, <1>18, <3>1, RemapsOnly
    <3>3. (ObjectVPages \cup 0 .. v - 1) \cup {v} = ObjectVPages \cup 0 .. v
      BY <1>8
    <3> QED
      BY <3>2, <3>3
  <2>5. ProgramMapped(Space', v + 1)
    <3> SUFFICES ASSUME NEW u \in UserVPages, u < v + 1
                 PROVE  Space'[u].v /\ Space'[u].perm = perm
      BY DEF ProgramMapped
    <3>1. CASE u = v
      <4>1. a.ppn \in Nat
        BY <1>1, <1>18, <1>22, Basics
      <4>2. Pte(a.ppn, perm).v = TRUE /\ Pte(a.ppn, perm).perm = perm
        BY <1>14, <4>1, PteFacts
      <4> QED
        BY <2>2, <3>1, <4>2
    <3>2. CASE u # v
      <4>1. u \in VPages /\ u < v
        BY <1>7, <1>8, <3>2, UserLayout
      <4>2. Space'[u] = Space[u]
        BY <1>18, <3>2, <4>1 DEF Remaps
      <4>3. Space[u].v /\ Space[u].perm = perm
        BY <1>4, <4>1 DEF LoadInv, ProgramMapped, v
      <4> QED
        BY <4>2, <4>3
    <3> QED
      BY <3>1, <3>2
  <2>6. ObjectVPages' = ObjectVPages /\ (v + 1) - 1 = v /\ v + 1 <= ProgramEnd
    BY <1>2, <1>6, <1>7, <1>8 DEF ObjectVPages
  <2>7. LoadInv'
    BY <1>2, <1>8, <2>3, <2>4, <2>5, <2>6 DEF LoadInv, ProcMapped, KstackMapped
  <2>8. CreateInv'
    BY <1>4, <1>18, <1>22, <2>7 DEF CreateInv, Creating, HasRoot
  <2>9. RunInv' /\ HeapInv'
    BY <1>2, <1>3, <1>20, <1>22, NotRunning DEF Creating
  <2> QED
    BY <1>18, <1>19, <2>1, <2>8, <2>9 DEF IInv
<1> QED
  BY <1>16, <1>21, <1>22

\* The user stack.
LEMMA AllocUstackStep ==
    ASSUME IInv, AllocUstack
    PROVE  IInv'
<1> DEFINE v == UserPages - 1
           perm == {"R", "W", "U"}
           a == alloc_page(mem, KernelReach)
           d == AllocAndMap(USER_STACK_BASE, perm)
<1>1. TypeInv /\ TreeInv /\ UsesInv /\ ProcInv /\ CreateInv /\ HeapInv
  BY DEF IInv
<1>2. /\ pc = "load" /\ va >= BinarySize /\ Outcome(d, "kernel") /\ partial' = partial /\ va' = ImageVa(0)
      /\ p' = [p EXCEPT !.heap_start = ALIGN_UP(va), !.heap_end = ALIGN_UP(va), !.ustack = a.ppn]
  BY DEF AllocUstack
<1>3. /\ p \in ProcRecords(managed) /\ p.obj # NoObj /\ p.kstack # NoObj /\ p.pagetable # 0 /\ p.state = "UNUSED"
      /\ p.obj \in ObjectsIn(managed) \cup {NoObj} /\ p.kstack \in ObjectsIn(managed) \cup {NoObj}
  BY <1>1, <1>2 DEF TypeInv, ProcInv, Creating, HasRoot, ProcRecords
<1>4. LoadInv /\ ~UartEntry /\ va \in Nat
  BY <1>1, <1>2 DEF CreateInv, HasRoot, Creating, TypeInv
<1>5. Aligned(va) /\ PageNo(va) <= ProgramEnd
  BY <1>4 DEF LoadInv
<1>6. PageNo(va) = ProgramEnd /\ ALIGN_UP(va) = ProgramEnd * PAGE_SIZE
  BY <1>2, <1>4, <1>5, LoadLoop
<1>7. /\ UserPages \in Nat /\ ProgramEnd \in Nat /\ ProgramEnd <= UserPages - 2 /\ UserVPages \subseteq VPages
      /\ v \in UserVPages /\ v \in VPages /\ VPage(USER_STACK_BASE) = v /\ USER_STACK_BASE \in Nat /\ v \in 0 .. UserPages
  BY UserLayout DEF Guard
<1>8. ProgramEnd * PAGE_SIZE \in Nat
  BY <1>7, Multiples
<1>9. X2(v) # X2(UartVPage)
  BY <1>7, UartLayout DEF UartVPage
<1>10. /\ KernelVPage(p.obj.ppn) \in VPages /\ KernelVPage(p.obj.ppn) \notin UserVPages /\ p.obj.ppn \in Nat
       /\ KernelVPage(p.kstack.ppn) \in VPages /\ KernelVPage(p.kstack.ppn) \notin UserVPages /\ p.kstack.ppn \in Nat
  BY <1>1, <1>3, ObjectLayout
<1>11. Only(Space, ObjectVPages \cup 0 .. ProgramEnd - 1)
  BY <1>4, <1>6 DEF LoadInv
<1>12. ~Space[v].v
  <2>1. v \notin ObjectVPages /\ v \notin 0 .. ProgramEnd - 1
    BY <1>7, <1>10 DEF ObjectVPages
  <2> QED
    BY <1>7, <1>11, <2>1 DEF Only
<1>13. perm \in Perms
  BY DEF Perms
<1>14. d.st \in Results
  BY <1>3, <1>7, <1>13, AllocAndMapResult
<1>15. /\ mem' = d.m /\ managed' = managed /\ kernel_mapped' = kernel_mapped /\ call' = call
      /\ failed' \in BOOLEAN /\ (failed => failed') /\ (d.st # "ok" => failed')
      /\ \/ d.st = "ok" /\ pc' = "kernel"
         \/ d.st = "fail" /\ pc' = "fail1"
         \/ d.st = "fault" /\ pc' = "halt"
  BY <1>1, <1>2, <1>14, OutcomeFacts
<1>16. /\ p'.pagetable = p.pagetable /\ p'.obj = p.obj /\ p'.kstack = p.kstack /\ p'.state = "UNUSED"
       /\ p'.heap_start = ProgramEnd * PAGE_SIZE /\ p'.heap_end = ProgramEnd * PAGE_SIZE /\ p'.ustack = a.ppn
  <2> HIDE DEF a
  <2> QED
    BY <1>2, <1>3, <1>6 DEF ProcRecords
<1>17. UserStepResult(v, perm, a, d)
  <2>1. SameObjects /\ p'.pagetable = p.pagetable
    BY <1>2, <1>16 DEF SameObjects
  <2> QED
    BY <1>3, <1>7, <1>12, <1>13, <1>15, <2>1, CreateUserMap
<1> HIDE DEF d, a
<1>18. /\ mem' \in Memory(managed') /\ TreeInv' /\ UsesInv' /\ Remaps(v, Pte(a.ppn, perm), d.st)
       /\ (UartEntry' <=> UartEntry) /\ a.ppn \in managed \cup {0}
  BY <1>9, <1>17 DEF UserStepResult
<1>19. 0 \in ImagePages
  BY ProcessAssumption DEF ImagePages
<1>20. TypeInv'
  <2>1. p' \in ProcRecords(managed')
    BY <1>2, <1>3, <1>6, <1>8, <1>15, <1>18 DEF ProcRecords
  <2>2. va' \in Nat
    BY <1>2, <1>19, ImageFacts
  <2> QED
    BY <1>1, <1>2, <1>15, <1>18, <2>1, <2>2 DEF TypeInv, Labels, Creating
<1>21. call'.op # "munmap"
  BY <1>1, <1>2, <1>15, NoMunmap DEF Creating
<1>22. CASE pc' \in {"fail1", "halt"}
  BY <1>16, <1>18, <1>20, <1>21, <1>22, Stopped DEF IInv
<1>23. CASE d.st = "ok" /\ pc' = "kernel"
  <2>1. ProcInv'
    BY <1>3, <1>16, <1>23 DEF ProcInv, Created, Creating, HasRoot, Running
  <2>2. Space'[v] = Pte(a.ppn, perm)
    BY <1>12, <1>18, <1>23, NewlyMapped
  <2>3. KernelMaps(Space', p.obj.ppn, {"R", "W"}) /\ KernelMaps(Space', p.kstack.ppn, {"R", "W"})
    <3>1. {"R", "W"} \in Perms
      BY DEF Perms
    <3>2. KernelMaps(Space, p.obj.ppn, {"R", "W"}) /\ KernelMaps(Space, p.kstack.ppn, {"R", "W"})
      BY <1>4 DEF LoadInv, ProcMapped, KstackMapped
    <3> QED
      BY <1>7, <1>10, <1>18, <3>1, <3>2, KernelMapsKept
  <2>4. Only(Space', ObjectVPages \cup FirstPages)
    <3>1. Only(Space', (ObjectVPages \cup 0 .. ProgramEnd - 1) \cup {v})
      BY <1>7, <1>11, <1>18, RemapsOnly
    <3>2. (ObjectVPages \cup 0 .. ProgramEnd - 1) \cup {v} = ObjectVPages \cup FirstPages
      BY DEF FirstPages
    <3> QED
      BY <3>1, <3>2
  <2>5. ProgramMapped(Space', ProgramEnd)
    <3> SUFFICES ASSUME NEW u \in UserVPages, u < ProgramEnd
                 PROVE  Space'[u].v /\ Space'[u].perm = {"R", "X", "U"}
      BY DEF ProgramMapped
    <3>1. u \in VPages /\ u # v
      BY <1>7
    <3>2. Space'[u] = Space[u]
      BY <1>18, <3>1 DEF Remaps
    <3>3. Space[u].v /\ Space[u].perm = {"R", "X", "U"}
      BY <1>4, <1>6 DEF LoadInv, ProgramMapped
    <3> QED
      BY <3>2, <3>3
  <2>6. ObjectVPages' = ObjectVPages
    BY <1>16 DEF ObjectVPages
  <2>7. LoadedInv'
    BY <1>16, <2>2, <2>3, <2>5 DEF LoadedInv, ProcMapped, KstackMapped, StackMapped
  <2>8. KernelInv'
    <3>1. ImageMapped(Space', 0)
      BY ImageFacts DEF ImageMapped
    <3>2. Only(Space', ObjectVPages' \cup FirstPages \cup ImageVPages(0))
      BY <2>4, <2>6 DEF Only
    <3> QED
      BY <1>2, <1>19, <3>1, <3>2 DEF KernelInv
  <2>9. CreateInv'
    BY <1>4, <1>18, <1>23, <2>7, <2>8 DEF CreateInv, Creating, HasRoot
  <2>10. RunInv' /\ HeapInv'
    BY <1>16, <1>21, <1>23, NotRunning DEF Creating
  <2> QED
    BY <1>18, <1>20, <2>1, <2>9, <2>10 DEF IInv
<1> QED
  BY <1>15, <1>22, <1>23

\* The pages of the image as map_page sees them.
LEMMA ImageLayout ==
    ASSUME TypeInv, NEW k \in ImagePages
    PROVE  /\ k \in Nat /\ ImagePpn + k \in Nat /\ ImagePerm[k] \in Perms
           /\ ImageVa(k) \in Nat /\ VPage(ImageVa(k)) = KernelVPage(ImagePpn + k)
           /\ KernelVPage(ImagePpn + k) \in VPages /\ KernelVPage(ImagePpn + k) \notin UserVPages
           /\ KernelVPage(ImagePpn + k) > UserPages
           /\ X2(KernelVPage(ImagePpn + k)) # X2(UartVPage)
           /\ \A j \in ImagePages : KernelVPage(ImagePpn + k) = KernelVPage(ImagePpn + j) => k = j
           /\ \A f \in managed : KernelVPage(f) # KernelVPage(ImagePpn + k)
<1> DEFINE v == KernelVPage(ImagePpn + k)
<1>1. managed \in Memories
  BY Basics
<1>2. /\ k \in Nat /\ ImagePpn + k \in Nat /\ ImagePerm[k] \in Perms
      /\ ImageVa(k) \in Nat /\ VPage(ImageVa(k)) = v /\ v \in VPages
  BY ImageFacts
<1>3. /\ v > UserPages /\ X2(v) # X2(UartVPage)
      /\ \A j \in ImagePages : v = KernelVPage(ImagePpn + j) => k = j
      /\ \A f \in managed : KernelVPage(f) # v
  BY <1>1, KernelLayout DEF UartVPage
<1>4. v \in Nat /\ UserPages \in Nat
  BY <1>2, Positions, UserLayout
<1> HIDE DEF v
<1>5. v \notin UserVPages
  BY <1>3, <1>4 DEF UserVPages
<1> QED
  BY <1>2, <1>3, <1>5 DEF v

\* What create_proc makes of a failure of map_page.
LEMMA Tolerance ==
    ASSUME NEW d, IsResult(d), d.st \in Results
    PROVE  /\ Tolerated(d).m = d.m /\ Tolerated(d).st = IF d.st = "fail" THEN "ok" ELSE d.st
           /\ UartFailure(d).m = d.m /\ UartFailure(d).st = IF d.st = "fail" THEN "fault" ELSE d.st
BY DEF IsResult, Tolerated, UartFailure

\* Mapping a page of the kernel leaves the program and the stack in place.
LEMMA LoadedKept ==
    ASSUME TypeInv, LoadedInv, p.obj # NoObj, p.kstack # NoObj, p' = p,
           NEW v \in VPages \ UserVPages, NEW e, NEW st, Remaps(v, e, st)
    PROVE  LoadedInv'
<1>1. p.obj \in ObjectsIn(managed) \cup {NoObj} /\ p.kstack \in ObjectsIn(managed) \cup {NoObj}
  BY DEF TypeInv, ProcRecords
<1>2. /\ KernelVPage(p.obj.ppn) \in VPages /\ p.obj.ppn \in Nat
      /\ KernelVPage(p.kstack.ppn) \in VPages /\ p.kstack.ppn \in Nat
  BY <1>1, ObjectLayout
<1>3. {"R", "W"} \in Perms /\ v \in VPages
  BY DEF Perms
<1>4. KernelMaps(Space, p.obj.ppn, {"R", "W"}) /\ KernelMaps(Space, p.kstack.ppn, {"R", "W"})
  BY DEF LoadedInv, ProcMapped, KstackMapped
<1>5. KernelMaps(Space', p.obj.ppn, {"R", "W"}) /\ KernelMaps(Space', p.kstack.ppn, {"R", "W"})
  BY <1>2, <1>3, <1>4, KernelMapsKept
<1>6. \A u \in UserVPages : Space'[u] = Space[u]
  BY UserLayout DEF Remaps
<1>7. ProgramMapped(Space', ProgramEnd)
  BY <1>6 DEF LoadedInv, ProgramMapped
<1>8. StackMapped'
  BY <1>6, UserLayout DEF LoadedInv, StackMapped
<1> QED
  BY <1>5, <1>7, <1>8 DEF LoadedInv, ProcMapped, KstackMapped

\* The pages of the user that are mapped lie below the kernel's.
LEMMA FirstPagesLow == FirstPages \subseteq UserVPages
BY UserLayout DEF FirstPages, UserVPages, Guard

\* One page of the kernel's image.  A failure is ignored and leaves no free page.
LEMMA CopyKernelPageStep ==
    ASSUME IInv, CopyKernelPage
    PROVE  IInv'
<1>1. TypeInv /\ TreeInv /\ UsesInv /\ ProcInv /\ CreateInv /\ HeapInv
  BY DEF IInv
<1>2. PICK k \in ImagePages :
          /\ va = ImageVa(k)
          /\ Outcome(Tolerated(MapInto(mem, va, ImagePpn + k, ImagePerm[k])),
                     IF k + 1 \in ImagePages THEN "kernel" ELSE "uart")
  BY DEF CopyKernelPage
<1>3. pc = "kernel" /\ va' = va + PAGE_SIZE /\ partial' = partial /\ p' = p
  BY DEF CopyKernelPage
<1> DEFINE f == ImagePpn + k
           perm == ImagePerm[k]
           v == KernelVPage(f)
           e == Pte(f, perm)
           d == MapInto(mem, va, f, perm)
           next == IF k + 1 \in ImagePages THEN "kernel" ELSE "uart"
           S == ObjectVPages \cup FirstPages \cup ImageVPages(k)
<1>4. /\ k \in Nat /\ f \in Nat /\ perm \in Perms /\ va \in Nat /\ VPage(va) = v
      /\ v \in VPages /\ v \notin UserVPages /\ X2(v) # X2(UartVPage)
      /\ \A j \in ImagePages : v = KernelVPage(ImagePpn + j) => k = j
      /\ \A g \in managed : KernelVPage(g) # v
  BY <1>1, <1>2, ImageLayout
<1>5. /\ p \in ProcRecords(managed) /\ p.obj # NoObj /\ p.kstack # NoObj /\ p.pagetable # 0 /\ p.state = "UNUSED"
      /\ p.obj \in ObjectsIn(managed) \cup {NoObj} /\ p.kstack \in ObjectsIn(managed) \cup {NoObj}
  BY <1>1, <1>3 DEF TypeInv, ProcInv, Creating, HasRoot, ProcRecords
<1>6. LoadedInv /\ KernelInv /\ ~UartEntry
  BY <1>1, <1>3 DEF CreateInv, HasRoot, Creating
<1>7. Only(Space, S) /\ (mem.free = {} \/ ImageMapped(Space, k))
  <2>1. PICK j \in ImagePages :
            /\ va = ImageVa(j)
            /\ Only(Space, ObjectVPages \cup FirstPages \cup ImageVPages(j))
            /\ mem.free = {} \/ ImageMapped(Space, j)
    BY <1>6 DEF KernelInv
  <2>2. j = k
    BY <1>2, <2>1, ImageFacts
  <2> QED
    BY <2>1, <2>2
<1>8. d.st \in Results /\ IsResult(d)
  BY <1>4, <1>5, ResultsOf
<1>9. Tolerated(d).m = d.m /\ Tolerated(d).st = IF d.st = "fail" THEN "ok" ELSE d.st
  BY <1>8, Tolerance
<1>10. Tolerated(d).st \in Results
  BY <1>8, <1>9 DEF Results
<1>11. /\ mem' = d.m /\ managed' = managed /\ kernel_mapped' = kernel_mapped /\ call' = call
       /\ failed' \in BOOLEAN /\ (failed => failed') /\ (d.st = "fault" => failed')
       /\ \/ d.st # "fault" /\ pc' = next
          \/ d.st = "fault" /\ pc' = "halt"
  <2> DEFINE t == Tolerated(d)
  <2>1. /\ mem' = t.m /\ managed' = managed /\ kernel_mapped' = kernel_mapped /\ call' = call
        /\ failed' \in BOOLEAN /\ (failed => failed') /\ (t.st # "ok" => failed')
        /\ \/ t.st = "ok" /\ pc' = next
           \/ t.st = "fail" /\ pc' = "fail1"
           \/ t.st = "fault" /\ pc' = "halt"
    BY <1>1, <1>2, <1>10, OutcomeFacts
  <2> HIDE DEF t, d, next
  <2> QED
    BY <1>8, <1>9, <2>1 DEF Results, t
<1>12. MapStepResult(v, e, d)
  BY <1>3, <1>4, <1>5, <1>11, CreateMap
<1> HIDE DEF d, f, perm
<1>13. /\ mem' \in Memory(managed') /\ TreeInv' /\ UsesInv' /\ Remaps(v, e, d.st)
       /\ (UartEntry' <=> UartEntry) /\ mem'.free \subseteq mem.free /\ (d.st = "fail" => mem'.free = {})
  BY <1>4, <1>12 DEF MapStepResult
<1>14. TypeInv'
  <2>1. va' \in Nat
    BY <1>3, <1>4, Sizes
  <2> QED
    BY <1>1, <1>3, <1>11, <1>13, <2>1 DEF TypeInv, Labels, Creating
<1>15. call'.op # "munmap"
  BY <1>1, <1>3, <1>11, NoMunmap DEF Creating
<1>16. CASE pc' = "halt"
  BY <1>3, <1>5, <1>13, <1>14, <1>15, <1>16, Stopped DEF IInv
<1>17. CASE d.st # "fault" /\ pc' = next
  <2>1. pc' \in {"kernel", "uart"}
    BY <1>17
  <2>2. ProcInv'
    BY <1>3, <1>5, <2>1 DEF ProcInv, Created, Creating, HasRoot, Running
  <2>3. v \notin S
    <3>1. p.obj.ppn \in managed /\ p.kstack.ppn \in managed
      BY <1>1, <1>5, ObjectLayout
    <3>2. v \notin ObjectVPages
      BY <1>4, <3>1 DEF ObjectVPages
    <3>3. v \notin ImageVPages(k)
      BY <1>4 DEF ImageVPages
    <3> QED
      BY <1>4, <3>2, <3>3, FirstPagesLow
  <2>4. ~Space[v].v
    BY <1>4, <1>7, <2>3 DEF Only
  <2>5. Only(Space', S \cup {v})
    BY <1>4, <1>7, <1>13, RemapsOnly
  <2>6. LoadedInv'
    BY <1>1, <1>3, <1>4, <1>5, <1>6, <1>13, LoadedKept
  <2>7. ObjectVPages' = ObjectVPages
    BY <1>3 DEF ObjectVPages
  <2>8. mem'.free = {} \/ \A j \in ImagePages : j <= k => KernelMaps(Space', ImagePpn + j, ImagePerm[j])
    <3>1. CASE d.st = "fail" \/ mem.free = {}
      BY <1>13, <3>1
    <3>2. CASE d.st = "ok" /\ mem.free # {}
      <4> SUFFICES ASSUME NEW j \in ImagePages, j <= k
                   PROVE  KernelMaps(Space', ImagePpn + j, ImagePerm[j])
        OBVIOUS
      <4>1. CASE j = k
        <5>1. Space'[v] = e
          BY <1>13, <2>4, <3>2, NewlyMapped
        <5> QED
          BY <4>1, <5>1 DEF KernelMaps, f, perm
      <4>2. CASE j # k
        <5>1. /\ j \in Nat /\ ImagePpn + j \in Nat /\ ImagePerm[j] \in Perms
              /\ KernelVPage(ImagePpn + j) \in VPages
          BY <1>1, ImageLayout
        <5>2. KernelMaps(Space, ImagePpn + j, ImagePerm[j])
          BY <1>4, <1>7, <3>2, <4>2, <5>1 DEF ImageMapped
        <5> QED
          BY <1>4, <1>13, <5>1, <5>2, KernelMapsKept
      <4> QED
        BY <4>1, <4>2
    <3> QED
      BY <1>8, <1>17, <3>1, <3>2 DEF Results
  <2>9. S \cup {v} = ObjectVPages \cup FirstPages \cup ImageVPages(k + 1)
    <3>1. \A j \in ImagePages : j \in Nat /\ (j < k + 1 <=> j < k \/ j = k)
      BY <1>4, ImageFacts
    <3>2. ImageVPages(k + 1) = ImageVPages(k) \cup {v}
      BY <3>1 DEF ImageVPages, f
    <3> QED
      BY <3>2
  <2>10. CASE k + 1 \in ImagePages
    <3>1. pc' = "kernel" /\ va' = ImageVa(k + 1)
      BY <1>2, <1>3, <1>17, <2>10, ImageFacts
    <3>2. mem'.free = {} \/ ImageMapped(Space', k + 1)
      <4>1. \A j \in ImagePages : j < k + 1 => j <= k
        BY <1>4, ImageFacts
      <4> QED
        BY <2>8, <4>1 DEF ImageMapped
    <3>3. Only(Space', ObjectVPages' \cup FirstPages \cup ImageVPages(k + 1))
      BY <2>5, <2>7, <2>9
    <3>4. KernelInv'
      BY <2>10, <3>1, <3>2, <3>3 DEF KernelInv
    <3>5. CreateInv'
      BY <1>6, <1>13, <2>6, <3>1, <3>4 DEF CreateInv, Creating, HasRoot
    <3>6. RunInv' /\ HeapInv'
      BY <1>3, <1>5, <1>15, <3>1, NotRunning DEF Creating
    <3> QED
      BY <1>13, <1>14, <2>2, <3>5, <3>6 DEF IInv
  <2>11. CASE k + 1 \notin ImagePages
    <3>1. pc' = "uart"
      BY <1>17, <2>11
    <3>2. \A j \in ImagePages : j \in Nat /\ j <= k /\ j < k + 1
      <4> SUFFICES ASSUME NEW j \in ImagePages PROVE j \in Nat /\ j <= k /\ j < k + 1
        OBVIOUS
      <4>1. j \in Nat /\ ~(k < j)
        BY <2>11, ImageFacts
      <4> QED
        BY <1>4, <4>1
    <3>3. mem'.free = {} \/ AllImageMapped(Space')
      BY <2>8, <3>2 DEF AllImageMapped
    <3>4. ImageVPages(k + 1) = ImageVPage
      BY <3>2 DEF ImageVPages, ImageVPage
    <3>5. UartInv'
      BY <2>5, <2>7, <2>9, <3>3, <3>4 DEF UartInv
    <3>6. CreateInv'
      BY <1>6, <1>13, <2>6, <3>1, <3>5 DEF CreateInv, Creating, HasRoot
    <3>7. RunInv' /\ HeapInv'
      BY <1>3, <1>5, <1>15, <3>1, NotRunning DEF Creating
    <3> QED
      BY <1>13, <1>14, <2>2, <3>6, <3>7 DEF IInv
  <2> QED
    BY <2>10, <2>11
<1> QED
  BY <1>11, <1>16, <1>17

\* The UART.  It needs a new table, so there was a free page, so the image is mapped.
LEMMA MapUartStep ==
    ASSUME IInv, MapUart
    PROVE  IInv'
<1> DEFINE perm == {"R", "W"}
           v == UartVPage
           e == Pte(UartPpn, perm)
           d == MapInto(mem, UART0, UartPpn, perm)
           t == UartFailure(d)
           S == ObjectVPages \cup FirstPages \cup ImageVPage
<1>1. TypeInv /\ TreeInv /\ UsesInv /\ ProcInv /\ CreateInv /\ HeapInv
  BY DEF IInv
<1>2. pc = "uart" /\ Outcome(t, "queue") /\ partial' = partial /\ p' = p /\ va' = va
  BY DEF MapUart
<1>3. /\ UartPpn \in Nat /\ UART0 \in Nat /\ VPage(UART0) = v /\ v \in VPages /\ v \notin UserVPages /\ perm \in Perms
  BY UartPage, UartLayout DEF UartVPage, Perms
<1>4. /\ p \in ProcRecords(managed) /\ p.obj # NoObj /\ p.kstack # NoObj /\ p.pagetable # 0 /\ p.state = "UNUSED"
      /\ p.obj \in ObjectsIn(managed) \cup {NoObj} /\ p.kstack \in ObjectsIn(managed) \cup {NoObj}
  BY <1>1, <1>2 DEF TypeInv, ProcInv, Creating, HasRoot, ProcRecords
<1>5. LoadedInv /\ UartInv /\ ~UartEntry
  BY <1>1, <1>2 DEF CreateInv, HasRoot, Creating
<1>6. d.st \in Results /\ IsResult(d)
  BY <1>3, <1>4, ResultsOf
<1>7. t.m = d.m /\ t.st = IF d.st = "fail" THEN "fault" ELSE d.st
  BY <1>6, Tolerance
<1>8. t.st \in Results
  BY <1>6, <1>7 DEF Results
<1>9. /\ mem' = t.m /\ managed' = managed /\ kernel_mapped' = kernel_mapped /\ call' = call
      /\ failed' \in BOOLEAN /\ (failed => failed') /\ (t.st # "ok" => failed')
      /\ \/ t.st = "ok" /\ pc' = "queue"
         \/ t.st = "fail" /\ pc' = "fail1"
         \/ t.st = "fault" /\ pc' = "halt"
  BY <1>1, <1>2, <1>8, OutcomeFacts
<1>10. mem' = d.m /\ (d.st = "fault" => failed') /\ ((d.st = "ok" /\ pc' = "queue") \/ pc' = "halt")
  <2> HIDE DEF t, d
  <2> QED
    BY <1>6, <1>7, <1>9 DEF Results
<1>11. MapStepResult(v, e, d)
  BY <1>2, <1>3, <1>4, <1>9, <1>10, CreateMap
<1> HIDE DEF d, t
<1>12. /\ mem' \in Memory(managed') /\ TreeInv' /\ UsesInv' /\ Remaps(v, e, d.st)
       /\ d.st = "ok" /\ ~mem.tab[p.pagetable][X2(v)].v => mem.free # {}
  BY <1>11 DEF MapStepResult
<1>13. TypeInv'
  BY <1>1, <1>2, <1>9, <1>10, <1>12 DEF TypeInv, Labels, Creating
<1>14. call'.op # "munmap"
  BY <1>1, <1>2, <1>9, NoMunmap DEF Creating
<1>15. CASE pc' = "halt"
  BY <1>2, <1>4, <1>12, <1>13, <1>14, <1>15, Stopped DEF IInv
<1>16. CASE d.st = "ok" /\ pc' = "queue"
  <2>1. ProcInv'
    BY <1>2, <1>4, <1>16 DEF ProcInv, Created, Creating, HasRoot, Running
  <2>2. mem.free # {}
    BY <1>5, <1>12, <1>16 DEF UartEntry
  <2>3. Only(Space, S) /\ AllImageMapped(Space)
    BY <1>5, <2>2 DEF UartInv
  <2>4. v \notin S
    <3>1. v \notin ObjectVPages
      BY <1>1, <1>4, ObjectLayout DEF ObjectVPages
    <3>2. v \notin ImageVPage
      BY <1>1, ImageLayout DEF ImageVPage
    <3> QED
      BY <1>3, <3>1, <3>2, FirstPagesLow
  <2>5. Space'[v] = e
    <3>1. ~Space[v].v
      BY <1>3, <2>3, <2>4 DEF Only
    <3> QED
      BY <1>12, <1>16, <3>1, NewlyMapped
  <2>6. UartMapped'
    BY <2>5 DEF UartMapped, KernelMaps, UartVPage
  <2>7. AllImageMapped(Space')
    <3> SUFFICES ASSUME NEW k \in ImagePages PROVE KernelMaps(Space', ImagePpn + k, ImagePerm[k])
      BY DEF AllImageMapped
    <3>1. ImagePpn + k \in Nat /\ ImagePerm[k] \in Perms /\ KernelVPage(ImagePpn + k) \in VPages
      BY <1>1, ImageLayout
    <3>2. KernelMaps(Space, ImagePpn + k, ImagePerm[k])
      BY <2>3 DEF AllImageMapped
    <3> QED
      BY <1>3, <1>12, <3>1, <3>2, KernelMapsKept
  <2>8. Only(Space', S \cup {v})
    BY <1>3, <1>12, <2>3, RemapsOnly
  <2>9. LoadedInv'
    BY <1>1, <1>2, <1>3, <1>4, <1>5, <1>12, LoadedKept
  <2>10. ReadyInv'
    <3>1. ObjectVPages' = ObjectVPages
      BY <1>2 DEF ObjectVPages
    <3> QED
      BY <2>6, <2>7, <2>8, <3>1 DEF ReadyInv
  <2>11. CreateInv'
    BY <1>16, <2>9, <2>10 DEF CreateInv, Creating, HasRoot
  <2>12. RunInv' /\ HeapInv'
    BY <1>2, <1>4, <1>14, <1>16, NotRunning
  <2> QED
    BY <1>12, <1>13, <2>1, <2>11, <2>12 DEF IInv
<1> QED
  BY <1>10, <1>15, <1>16

\* Steps that leave memory alone.
LEMMA MemoryKept ==
    ASSUME TypeInv, TreeInv, UsesInv, mem' = mem, managed' = managed, p'.pagetable = p.pagetable, SameObjects,
           failed' \in BOOLEAN, failed => failed'
    PROVE  /\ TreeInv' /\ UsesInv' /\ mem' \in Memory(managed')
           /\ Space' = Space /\ (UartEntry' <=> UartEntry)
<1>1. Space' = Space
  BY DEF Space, Mapped
<1>2. TablePages' = TablePages
  BY DEF TablePages
<1>3. ObjectPages' = ObjectPages
  BY ObjectsKept
<1>4. failed \in BOOLEAN /\ UsesOK(managed, mem.free, TablePages, ObjectPages, Space, failed)
  BY DEF TypeInv, UsesInv
<1>5. UsesOK(managed, mem.free, TablePages, ObjectPages, Space, failed')
  BY <1>4 DEF UsesOK
<1>6. UsesInv'
  BY <1>1, <1>2, <1>3, <1>5 DEF UsesInv
<1>7. TreeInv'
  BY DEF TreeInv
<1>8. mem' \in Memory(managed')
  BY DEF TypeInv
<1> QED
  BY <1>1, <1>6, <1>7, <1>8 DEF UartEntry

\* The process is queued.
LEMMA QueueProcStep ==
    ASSUME IInv, QueueProc
    PROVE  IInv'
<1>1. TypeInv /\ TreeInv /\ UsesInv /\ ProcInv /\ CreateInv /\ HeapInv
  BY DEF IInv
<1>2. /\ pc = "queue" /\ pc' = "shell_init" /\ p' = [p EXCEPT !.state = "RUNNABLE"]
      /\ UNCHANGED <<managed, kernel_mapped, mem, partial, va, call, ret, failed>>
  BY DEF QueueProc
<1>3. p \in ProcRecords(managed) /\ failed \in BOOLEAN
  BY <1>1 DEF TypeInv
<1>4. /\ p'.pagetable = p.pagetable /\ p'.obj = p.obj /\ p'.kstack = p.kstack /\ p'.state = "RUNNABLE"
      /\ p'.heap_start = p.heap_start /\ p'.heap_end = p.heap_end /\ p'.ustack = p.ustack
      /\ p' \in ProcRecords(managed)
  BY <1>2, <1>3 DEF ProcRecords
<1>5. SameObjects
  BY <1>2, <1>4 DEF SameObjects
<1>6. TreeInv' /\ UsesInv' /\ mem' \in Memory(managed') /\ Space' = Space
  BY <1>1, <1>2, <1>3, <1>4, <1>5, MemoryKept
<1>7. TypeInv'
  BY <1>1, <1>2, <1>4, <1>6 DEF TypeInv, Labels
<1>8. ProcInv'
  BY <1>1, <1>2, <1>4 DEF ProcInv, Created, Creating, HasRoot, Running
<1>9. call'.op # "munmap"
  BY <1>1, <1>2 DEF HeapInv
<1>10. LoadedInv /\ ReadyInv
  BY <1>1, <1>2 DEF CreateInv
<1>11. LoadedInv'
  BY <1>4, <1>6, <1>10 DEF LoadedInv, ProcMapped, KstackMapped, StackMapped
<1>12. ReadyInv'
  BY <1>4, <1>6, <1>10 DEF ReadyInv, ObjectVPages, UartMapped
<1>13. CreateInv'
  BY <1>2, <1>11, <1>12 DEF CreateInv, Creating, HasRoot
<1>14. RunInv' /\ HeapInv'
  BY <1>2, <1>4, <1>9, NotRunning
<1> QED
  BY <1>6, <1>7, <1>8, <1>13, <1>14 DEF IInv

\* The process starts to run: everything mapped lies outside the heap and the guard page.
LEMMA ShellInitStep ==
    ASSUME IInv, ShellInit
    PROVE  IInv'
<1>1. TypeInv /\ TreeInv /\ UsesInv /\ ProcInv /\ CreateInv /\ HeapInv
  BY DEF IInv
<1>2. /\ pc = "shell_init" /\ pc' = "user" /\ p' = [p EXCEPT !.state = "RUNNING"] /\ va' = 0
      /\ UNCHANGED <<managed, kernel_mapped, mem, partial, call, ret, failed>>
  BY DEF ShellInit
<1>3. p \in ProcRecords(managed) /\ failed \in BOOLEAN
  BY <1>1 DEF TypeInv
<1>4. /\ p'.pagetable = p.pagetable /\ p'.obj = p.obj /\ p'.kstack = p.kstack /\ p'.state = "RUNNING"
      /\ p'.heap_start = p.heap_start /\ p'.heap_end = p.heap_end /\ p'.ustack = p.ustack
      /\ p' \in ProcRecords(managed)
  BY <1>2, <1>3 DEF ProcRecords
<1>5. SameObjects
  BY <1>2, <1>4 DEF SameObjects
<1>6. TreeInv' /\ UsesInv' /\ mem' \in Memory(managed') /\ Space' = Space
  BY <1>1, <1>2, <1>3, <1>4, <1>5, MemoryKept
<1>7. TypeInv'
  BY <1>1, <1>2, <1>4, <1>6 DEF TypeInv, Labels, Running
<1>8. p.obj # NoObj /\ p.kstack # NoObj /\ p.pagetable # 0
  BY <1>1, <1>2 DEF ProcInv, Created
<1>9. ProcInv'
  BY <1>2, <1>4, <1>8 DEF ProcInv, Created, Creating, HasRoot, Running
<1>10. LoadedInv /\ ReadyInv
  BY <1>1, <1>2 DEF CreateInv
<1>11. CreateInv'
  BY <1>2 DEF CreateInv, Creating, HasRoot
<1>12. ASSUME NEW v \in HeapPages \cup {Guard, UserPages}
       PROVE  ~Space[v].v
  <2>1. /\ UserPages \in Nat /\ ProgramEnd \in Nat /\ ProgramEnd <= UserPages - 2 /\ UserPages \in VPages
        /\ UserVPages \subseteq VPages
    BY UserLayout DEF Guard
  <2>2. v \in Nat /\ v <= UserPages /\ v \notin FirstPages /\ v \in VPages
    BY <2>1 DEF HeapPages, Guard, FirstPages, UserVPages
  <2>3. p.obj \in ObjectsIn(managed) \cup {NoObj} /\ p.kstack \in ObjectsIn(managed) \cup {NoObj}
    BY <1>3 DEF ProcRecords
  <2>4. KernelVPage(p.obj.ppn) > UserPages /\ KernelVPage(p.kstack.ppn) > UserPages
        /\ KernelVPage(p.obj.ppn) \in Nat /\ KernelVPage(p.kstack.ppn) \in Nat
    BY <1>1, <1>8, <2>3, ObjectLayout, Positions
  <2>5. v \notin ObjectVPages
    BY <2>1, <2>2, <2>4 DEF ObjectVPages
  <2>6. v \notin ImageVPage
    <3> SUFFICES ASSUME NEW k \in ImagePages PROVE v # KernelVPage(ImagePpn + k)
      BY DEF ImageVPage
    <3>1. KernelVPage(ImagePpn + k) > UserPages /\ KernelVPage(ImagePpn + k) \in Nat
      BY <1>1, ImageLayout, Positions
    <3> QED
      BY <2>1, <2>2, <3>1
  <2>7. v # UartVPage
    <3>1. UartVPage > UserPages /\ UartVPage \in Nat
      BY UartLayout, UartPage, Positions DEF UartVPage
    <3> QED
      BY <2>1, <2>2, <3>1
  <2> QED
    BY <1>10, <2>2, <2>5, <2>6, <2>7 DEF ReadyInv, Only
<1>13. RunInv'
  <2>1. Aligned(ProgramEnd * PAGE_SIZE) /\ PageNo(ProgramEnd * PAGE_SIZE) = ProgramEnd
    BY UserLayout, Multiples
  <2>2. ProgramEnd \in ProgramEnd .. Guard
    BY UserLayout
  <2>3. HeapPerms(Space)
    BY <1>12 DEF HeapPerms
  <2>4. ProcMapped' /\ KstackMapped' /\ UartMapped'
    BY <1>4, <1>6, <1>10 DEF LoadedInv, ReadyInv, ProcMapped, KstackMapped, UartMapped
  <2> QED
    BY <1>4, <1>6, <1>10, <1>12, <2>1, <2>2, <2>3, <2>4 DEF RunInv, LoadedInv, ReadyInv
<1>14. HeapInv'
  <2>1. HeapOnly(Space', ProgramEnd .. PageNo(p'.heap_end) - 1)
    BY <1>6, <1>12 DEF HeapOnly
  <2>2. call'.op # "munmap"
    BY <1>1, <1>2 DEF HeapInv
  <2> QED
    BY <1>2, <2>1, <2>2 DEF HeapInv
<1> QED
  BY <1>6, <1>7, <1>9, <1>11, <1>13, <1>14 DEF IInv

\* free_proc ends in an endless loop.
LEMMA FreeProcStep ==
    ASSUME IInv, FreeProc
    PROVE  IInv'
<1>1. TypeInv /\ TreeInv /\ UsesInv /\ ProcInv /\ HeapInv
  BY DEF IInv
<1>2. mem' = mem
  BY DEF FreeProc, free_pagetable
<1>3. /\ pc = "fail1" /\ pc' = "halt" /\ p' = p
      /\ UNCHANGED <<managed, kernel_mapped, partial, va, call, ret, failed>>
  BY DEF FreeProc
<1>4. SameObjects /\ failed \in BOOLEAN
  BY <1>1, <1>3 DEF SameObjects, TypeInv
<1>5. TreeInv' /\ UsesInv' /\ mem' \in Memory(managed')
  BY <1>1, <1>2, <1>3, <1>4, MemoryKept
<1>6. TypeInv'
  BY <1>1, <1>2, <1>3 DEF TypeInv, Labels
<1>7. p'.state = "UNUSED" /\ call'.op # "munmap"
  BY <1>1, <1>3 DEF ProcInv, HeapInv, Creating
<1> QED
  BY <1>3, <1>5, <1>6, <1>7, Stopped DEF IInv

------------------------------------------------------------------------------
(* sys_sbrk and sys_munmap, step by step.                                  *)

\* What is known of a running process.
LEMMA RunningFacts ==
    ASSUME IInv, pc \in Running
    PROVE  /\ TypeInv /\ TreeInv /\ UsesInv /\ ProcInv /\ CreateInv /\ RunInv /\ HeapInv
           /\ p.state = "RUNNING" /\ p.pagetable # 0 /\ p.obj # NoObj /\ p.kstack # NoObj
           /\ p \in ProcRecords(managed) /\ failed \in BOOLEAN /\ va \in Nat /\ call \in Calls
           /\ p.heap_end \in Nat /\ Aligned(p.heap_end) /\ PageNo(p.heap_end) \in ProgramEnd .. Guard
           /\ p.heap_start = ProgramEnd * PAGE_SIZE
<1>1. TypeInv /\ TreeInv /\ UsesInv /\ ProcInv /\ CreateInv /\ RunInv /\ HeapInv
  BY DEF IInv
<1>2. p.state = "RUNNING"
  BY <1>1 DEF ProcInv
<1>3. p.pagetable # 0 /\ p.obj # NoObj /\ p.kstack # NoObj
  BY <1>1, <1>2 DEF ProcInv, Created
<1>4. /\ p \in ProcRecords(managed) /\ failed \in BOOLEAN /\ va \in Nat /\ call \in Calls /\ p.heap_end \in Nat
  BY <1>1 DEF TypeInv, ProcRecords
<1>5. /\ Aligned(p.heap_end) /\ PageNo(p.heap_end) \in ProgramEnd .. Guard
      /\ p.heap_start = ProgramEnd * PAGE_SIZE
  BY <1>1, <1>2 DEF RunInv
<1> QED
  BY <1>1, <1>2, <1>3, <1>4, <1>5

\* The parts about create_proc say nothing any more.
LEMMA StillRunning ==
    ASSUME ProcInv, p.state = "RUNNING", pc \in Running, pc' \in Running \cup {"halt"}, p'.state = "RUNNING",
           p'.pagetable = p.pagetable, p'.obj = p.obj, p'.kstack = p.kstack
    PROVE  ProcInv' /\ CreateInv'
<1>1. ProcInv'
  BY DEF ProcInv, Created, Creating, HasRoot, Running
<1>2. CreateInv'
  BY DEF CreateInv, Creating, HasRoot, Running
<1> QED
  BY <1>1, <1>2

\* The running process keeps its mappings when one page of the user changes.
LEMMA RunKept ==
    ASSUME TypeInv, RunInv, p.state = "RUNNING", p.obj # NoObj, p.kstack # NoObj, p' = p,
           NEW v \in 0 .. UserPages, \A u \in VPages \ {v} : Space'[u] = Space[u],
           Space'[v].v => v \in HeapPages /\ Space'[v].perm = {"R", "W", "U"}
    PROVE  RunInv'
<1>1. p.obj \in ObjectsIn(managed) \cup {NoObj} /\ p.kstack \in ObjectsIn(managed) \cup {NoObj}
  BY DEF TypeInv, ProcRecords
<1>2. /\ UserPages \in Nat /\ ProgramEnd \in Nat /\ Guard = UserPages - 2 /\ UserPages \in VPages /\ UserVPages \subseteq VPages
      /\ Guard \in UserVPages /\ UserPages >= 3
  BY UserLayout DEF Guard
<1>3. HeapPages \subseteq UserVPages /\ Guard \notin HeapPages /\ UserPages \notin HeapPages
  BY <1>2 DEF HeapPages, UserVPages
<1>4. ASSUME NEW w \in VPages, w > UserPages
      PROVE  Space'[w] = Space[w]
  <2>1. w # v
    BY <1>2, <1>4
  <2> QED
    BY <2>1
<1>5. /\ KernelVPage(p.obj.ppn) \in VPages /\ KernelVPage(p.obj.ppn) > UserPages
      /\ KernelVPage(p.kstack.ppn) \in VPages /\ KernelVPage(p.kstack.ppn) > UserPages
  BY <1>1, ObjectLayout
<1>6. ProcMapped' /\ KstackMapped'
  BY <1>4, <1>5 DEF RunInv, ProcMapped, KstackMapped, KernelMaps
<1>7. UartMapped'
  BY <1>4, UartPage, UartLayout DEF RunInv, UartMapped, KernelMaps
<1>8. AllImageMapped(Space')
  BY <1>4, ImageLayout DEF RunInv, AllImageMapped, KernelMaps
<1>9. ~Space'[Guard].v /\ ~Space'[UserPages].v
  <2>1. ~Space'[Guard].v
    BY <1>2, <1>3 DEF RunInv
  <2>2. ~Space'[UserPages].v
    BY <1>2, <1>3 DEF RunInv
  <2> QED
    BY <2>1, <2>2
<1>10. HeapPerms(Space')
  BY <1>2, <1>3 DEF RunInv, HeapPerms
<1> QED
  BY <1>6, <1>7, <1>8, <1>9, <1>10 DEF RunInv

\* Steps that leave memory and the process alone.
LEMMA RunSame ==
    ASSUME RunInv, p' = p, Space' = Space
    PROVE  RunInv'
BY DEF RunInv, ProcMapped, KstackMapped, UartMapped

\* No system call is in progress.
LEMMA NoCallFacts == NoCall \in Calls /\ NoCall.op = "none"
BY DEF NoCall, Calls

\* A call that returns without having changed anything.
LEMMA ReturnStep ==
    ASSUME IInv, pc \in Running, NEW value, Return(value), mem' = mem, p' = p,
           failed' \in BOOLEAN, failed => failed',
           failed' \/ HeapOnly(Space, ProgramEnd .. PageNo(p.heap_end) - 1)
    PROVE  IInv'
<1>1. /\ TypeInv /\ TreeInv /\ UsesInv /\ ProcInv /\ RunInv /\ HeapInv
      /\ p.state = "RUNNING" /\ p.pagetable # 0 /\ p.obj # NoObj /\ p.kstack # NoObj
  BY RunningFacts
<1>2. pc' = "user" /\ va' = 0 /\ call' = NoCall /\ UNCHANGED <<managed, kernel_mapped, partial>>
  BY DEF Return
<1>3. SameObjects
  BY <1>2 DEF SameObjects
<1>4. TreeInv' /\ UsesInv' /\ mem' \in Memory(managed') /\ Space' = Space
  BY <1>1, <1>2, <1>3, MemoryKept
<1>5. TypeInv'
  BY <1>1, <1>2, <1>4, NoCallFacts DEF TypeInv, Labels, Running
<1>6. ProcInv' /\ CreateInv'
  BY <1>1, <1>2, StillRunning DEF Running
<1>7. RunInv'
  BY <1>1, <1>4, RunSame
<1>8. HeapInv'
  BY <1>2, <1>4, NoCallFacts DEF HeapInv
<1> QED
  BY <1>4, <1>5, <1>6, <1>7, <1>8 DEF IInv

\* A call that is refused.
LEMMA RefuseStep ==
    ASSUME IInv, pc = "user", Refuse
    PROVE  IInv'
<1>1. pc \in Running /\ HeapInv /\ failed \in BOOLEAN
  BY RunningFacts DEF Running
<1>2. Return(-1) /\ mem' = mem /\ p' = p /\ failed' = failed
  BY DEF Refuse
<1>3. failed \/ HeapOnly(Space, ProgramEnd .. PageNo(p.heap_end) - 1)
  BY <1>1 DEF HeapInv
<1>4. failed' \in BOOLEAN /\ (failed => failed') /\ (failed' \/ HeapOnly(Space, ProgramEnd .. PageNo(p.heap_end) - 1))
  BY <1>1, <1>2, <1>3
<1> QED
  BY <1>1, <1>2, <1>4, ReturnStep

\* A call that starts.
LEMMA StartStep ==
    ASSUME IInv, pc = "user", pc' \in {"grow", "shrink", "munmap"}, va' \in Nat, call' \in Calls,
           UNCHANGED <<managed, kernel_mapped, mem, partial, p, ret, failed>>
    PROVE  /\ TypeInv' /\ TreeInv' /\ UsesInv' /\ ProcInv' /\ CreateInv' /\ RunInv' /\ Space' = Space
           /\ failed \/ HeapOnly(Space, ProgramEnd .. PageNo(p.heap_end) - 1)
<1>1. pc \in Running
  BY DEF Running
<1>2. /\ TypeInv /\ TreeInv /\ UsesInv /\ ProcInv /\ RunInv /\ HeapInv
      /\ p.state = "RUNNING" /\ p.pagetable # 0 /\ p.obj # NoObj /\ p.kstack # NoObj /\ failed \in BOOLEAN
  BY <1>1, RunningFacts
<1>3. SameObjects
  BY DEF SameObjects
<1>4. TreeInv' /\ UsesInv' /\ mem' \in Memory(managed') /\ Space' = Space
  BY <1>2, <1>3, MemoryKept
<1>5. TypeInv'
  BY <1>2, <1>4 DEF TypeInv, Labels, Running
<1>6. ProcInv' /\ CreateInv'
  BY <1>1, <1>2, StillRunning DEF Running
<1>7. RunInv'
  BY <1>2, <1>4, RunSame
<1>8. failed \/ HeapOnly(Space, ProgramEnd .. PageNo(p.heap_end) - 1)
  BY <1>2 DEF HeapInv
<1> QED
  BY <1>4, <1>5, <1>6, <1>7, <1>8

\* The new break does not wrap around into the heap.
LEMMA NewBreak ==
    ASSUME NEW size \in SbrkSizes, NEW h \in ProgramEnd .. Guard, NEW q \in Int,
           size <= q * PAGE_SIZE, q * PAGE_SIZE < size + PAGE_SIZE,
           (h * PAGE_SIZE + q * PAGE_SIZE) % Wrap <= USER_HEAP_END,
           ProgramEnd * PAGE_SIZE <= (h * PAGE_SIZE + q * PAGE_SIZE) % Wrap
    PROVE  h + q \in ProgramEnd .. Guard /\ (h * PAGE_SIZE + q * PAGE_SIZE) % Wrap = (h + q) * PAGE_SIZE
<1> DEFINE s == PAGE_SIZE
           x == (h + q) * s
           new == (h * s + q * s) % Wrap
<1>1. /\ s \in Nat \ {0} /\ UserPages \in Nat /\ ProgramEnd \in Nat /\ Guard \in Nat /\ Guard = UserPages - 2
      /\ USER_HEAP_END = Guard * s /\ h \in Nat /\ h <= Guard
  BY Sizes, UserLayout DEF Guard
<1>2. Wrap \in Nat /\ 2 * UserPages * s <= Wrap /\ size \in Int /\ -Wrap <= 2 * size /\ 2 * (size + s) <= Wrap
  BY ArgumentAssumption
<1>3. new \in 0 .. Wrap - 1 /\ new <= Guard * s /\ ProgramEnd * s <= new
  <2>1. h * s + q * s \in Int /\ Wrap > 0
    <3>1. UserPages * s > 0 /\ 2 * UserPages * s = 2 * (UserPages * s) /\ UserPages * s \in Nat
      BY <1>1
    <3> QED
      BY <1>1, <1>2, <3>1
  <2> QED
    BY <1>1, <1>2, <2>1
<1>4. /\ h * s \in Nat /\ q * s \in Int /\ Guard * s \in Nat /\ UserPages * s \in Nat
      /\ h * s <= Guard * s /\ Guard * s + s <= UserPages * s /\ 2 * UserPages * s = 2 * (UserPages * s)
  <2>1. Guard * s + s + s = UserPages * s
    BY <1>1
  <2>2. Guard * s - h * s = (Guard - h) * s /\ (Guard - h) * s >= 0
    BY <1>1
  <2>3. h * s \in Nat /\ q * s \in Int /\ Guard * s \in Nat /\ UserPages * s \in Nat
    BY <1>1
  <2>4. 2 * UserPages * s = 2 * (UserPages * s)
    BY <1>1
  <2> QED
    BY <1>1, <2>1, <2>2, <2>3, <2>4
<1>5. x = h * s + q * s
  BY <1>1
<1> DEFINE hs == h * s
           qs == q * s
           gs == Guard * s
           us == UserPages * s
<1>6. /\ hs \in Nat /\ qs \in Int /\ gs \in Nat /\ us \in Nat /\ x = hs + qs /\ hs <= gs /\ gs + s <= us
      /\ 2 * us <= Wrap /\ size <= qs /\ qs < size + s
      /\ new = x % Wrap /\ new \in 0 .. Wrap - 1 /\ new <= gs
  BY <1>2, <1>3, <1>4, <1>5
<1> HIDE DEF hs, qs, gs, us, x, new
<1>7. x >= 0
  <2> SUFFICES ASSUME x < 0 PROVE FALSE
    BY <1>6
  <2>1. x + Wrap \in 0 .. Wrap - 1 /\ 2 * (x + Wrap) >= Wrap
    BY <1>1, <1>2, <1>6
  <2>2. Wrap \in Nat \ {0} /\ (-1) * Wrap + (x + Wrap) = x /\ x \in Int
    BY <1>2, <1>6
  <2>3. x % Wrap = x + Wrap
    <3> DEFINE y == x + Wrap
               z == -1
    <3>1. z \in Int /\ y \in 0 .. Wrap - 1 /\ z * Wrap + y = x
      BY <2>1, <2>2
    <3> HIDE DEF y, z
    <3>2. (z * Wrap + y) % Wrap = y
      BY <2>2, <3>1, Quotient
    <3> QED
      BY <3>1, <3>2 DEF y
  <2> QED
    BY <1>1, <1>2, <1>6, <2>1, <2>2, <2>3
<1>8. new = x
  <2>1. x \in 0 .. Wrap - 1
    BY <1>1, <1>2, <1>6, <1>7
  <2>2. Wrap \in Nat \ {0} /\ 0 * Wrap + x = x
    BY <1>2, <2>1
  <2>3. (0 * Wrap + x) % Wrap = x
    BY <2>1, <2>2, Quotient
  <2> QED
    BY <1>6, <2>2, <2>3
<1>9. ProgramEnd * PAGE_SIZE <= (h + q) * PAGE_SIZE /\ (h + q) * PAGE_SIZE <= Guard * PAGE_SIZE
  BY <1>3, <1>6, <1>8 DEF x, gs
<1>10. h + q \in Int /\ ProgramEnd \in Int /\ Guard \in Int
  BY <1>1
<1>11. ProgramEnd <= h + q /\ h + q <= Guard
  <2>1. ~((h + q) * PAGE_SIZE < ProgramEnd * PAGE_SIZE) /\ ~(Guard * PAGE_SIZE < (h + q) * PAGE_SIZE)
    <3>1. ProgramEnd * PAGE_SIZE \in Int /\ Guard * PAGE_SIZE \in Int /\ (h + q) * PAGE_SIZE \in Int
      BY <1>1, <1>10
    <3> QED
      BY <1>9, <3>1
  <2> QED
    BY <1>10, <2>1, MultiplesOrder
<1> QED
  BY <1>1, <1>8, <1>10, <1>11 DEF x, new

\* What the loops of sys_sbrk start with.
SbrkStarts ==
    /\ p' = p /\ mem' = mem /\ pc' \in {"user", "grow", "shrink"}
    /\ pc' = "grow" => call'.op = "sbrk" /\ va' = p.heap_end /\ p.heap_end < call'.brk
    /\ pc' = "shrink" => call'.op = "sbrk" /\ va' = call'.brk

\* sys_sbrk, up to its loops.
LEMMA SysSbrkStep ==
    ASSUME IInv, NEW size \in SbrkSizes, SysSbrk(size)
    PROVE  IInv' /\ SbrkStarts
<1> DEFINE old == ALIGN_UP(p.heap_end)
           up == ALIGN_UP(size)
           new == (old + up) % Wrap
           h == PageNo(p.heap_end)
<1>1. pc = "user" /\ pc \in Running
  BY DEF SysSbrk, Running
<1>2. /\ p.heap_end \in Nat /\ Aligned(p.heap_end) /\ h \in ProgramEnd .. Guard
      /\ p.heap_start = ProgramEnd * PAGE_SIZE /\ failed \in BOOLEAN /\ ~(call.op = "munmap")
  <2>1. HeapInv
    BY <1>1, RunningFacts
  <2>2. ~(call.op = "munmap")
    BY <1>1, <2>1 DEF HeapInv
  <2> QED
    BY <1>1, <2>2, RunningFacts
<1>3. CASE size = 0 \/ ~BrkOK(new)
  <2>1. Refuse
    BY <1>3 DEF SysSbrk
  <2>2. SbrkStarts
    BY <2>1 DEF Refuse, Return, SbrkStarts
  <2> QED
    BY <1>1, <2>1, <2>2, RefuseStep
<1>4. CASE ~(size = 0 \/ ~BrkOK(new))
  <2>1. /\ pc' = IF up > 0 THEN "grow" ELSE "shrink"
        /\ va' = IF up > 0 THEN old ELSE new
        /\ call' = [NoCall EXCEPT !.op = "sbrk", !.brk = new, !.end = IF up > 0 THEN new ELSE old]
        /\ UNCHANGED <<managed, kernel_mapped, mem, partial, p, ret, failed>>
    BY <1>4 DEF SysSbrk
  <2>2. old = p.heap_end /\ p.heap_end = h * PAGE_SIZE
    BY <1>2, NextPage DEF Aligned
  <2>3. size \in Int
    BY ArgumentAssumption
  <2>4. PICK q \in Int : up = q * PAGE_SIZE /\ size <= q * PAGE_SIZE /\ q * PAGE_SIZE < size + PAGE_SIZE
    BY <2>3, AlignUp
  <2>5. p.heap_start <= new /\ new <= USER_HEAP_END
    BY <1>4 DEF BrkOK
  <2> HIDE DEF up, old, new
  <2>6. new = (h * PAGE_SIZE + q * PAGE_SIZE) % Wrap
    BY <2>2, <2>4 DEF new
  <2>7. h + q \in ProgramEnd .. Guard /\ new = (h + q) * PAGE_SIZE
    BY <1>2, <2>4, <2>5, <2>6, NewBreak
  <2>8. /\ ProgramEnd \in Nat /\ Guard \in Nat /\ PAGE_SIZE \in Nat \ {0}
    BY UserLayout, Sizes
  <2>9. h + q \in Nat /\ h \in Nat
    BY <1>2, <2>7, <2>8
  <2>10. new \in Nat /\ Aligned(new) /\ PageNo(new) = h + q
    BY <2>7, <2>9, Multiples
  <2> HIDE DEF h
  <2>11. up > 0 <=> q > 0
    <3>1. 0 * PAGE_SIZE < q * PAGE_SIZE <=> 0 < q
      BY MultiplesOrder
    <3>2. q * PAGE_SIZE \in Int /\ 0 * PAGE_SIZE = 0
      BY <2>8
    <3> QED
      BY <2>4, <3>1, <3>2
  <2>12. call' \in Calls /\ va' \in Nat /\ pc' \in {"grow", "shrink", "munmap"}
    BY <1>2, <2>1, <2>2, <2>10 DEF Calls, NoCall
  <2>13. /\ TypeInv' /\ TreeInv' /\ UsesInv' /\ ProcInv' /\ CreateInv' /\ RunInv' /\ Space' = Space
         /\ failed \/ HeapOnly(Space, ProgramEnd .. h - 1)
    BY <1>1, <2>1, <2>12, StartStep DEF h
  <2>14. call'.op = "sbrk" /\ call'.brk = new /\ call'.end = IF up > 0 THEN new ELSE old
    BY <2>1 DEF NoCall
  <2>15. CASE up > 0
    <3>1. /\ call'.end = new /\ va' = p.heap_end /\ pc' = "grow" /\ q > 0
      BY <2>1, <2>2, <2>11, <2>14, <2>15
    <3>2. PageNo(va') = h /\ Aligned(va')
      BY <1>2, <3>1 DEF h
    <3>3. h \in ProgramEnd .. h + q
      BY <1>2, <2>8, <2>9, <3>1 DEF h
    <3>4. GrowInv'
      BY <2>1, <2>7, <2>10, <2>13, <2>14, <3>1, <3>2, <3>3 DEF GrowInv
    <3>5. HeapInv'
      BY <2>14, <3>1, <3>4 DEF HeapInv
    <3>6. p.heap_end < new
      <4>1. h < h + q
        BY <2>9, <3>1
      <4>2. h * PAGE_SIZE < (h + q) * PAGE_SIZE
        BY <2>9, <4>1, MultiplesOrder
      <4> QED
        BY <2>2, <2>7, <4>2
    <3>7. SbrkStarts
      BY <2>1, <2>14, <3>1, <3>6 DEF SbrkStarts
    <3> QED
      BY <2>13, <3>5, <3>7 DEF IInv
  <2>16. CASE ~(up > 0)
    <3>1. /\ call'.end = p'.heap_end /\ va' = new /\ pc' = "shrink" /\ q <= 0
      BY <2>1, <2>2, <2>11, <2>14, <2>16
    <3>2. h + q \in h + q .. h
      BY <2>9, <3>1
    <3>3. HeapOnly(Space, ProgramEnd .. h - 1) =>
             HeapOnly(Space', (ProgramEnd .. (h + q) - 1) \cup ((h + q) .. h - 1))
      <4>1. ProgramEnd .. h - 1 \subseteq (ProgramEnd .. (h + q) - 1) \cup ((h + q) .. h - 1)
        BY <2>8, <2>9, <3>1
      <4> QED
        BY <2>13, <4>1 DEF HeapOnly
    <3>4. ShrinkInv'
      BY <2>1, <2>7, <2>10, <2>13, <2>14, <3>1, <3>2, <3>3 DEF ShrinkInv, h
    <3>5. HeapInv'
      BY <2>14, <3>1, <3>4 DEF HeapInv
    <3>6. SbrkStarts
      BY <2>1, <2>14, <3>1 DEF SbrkStarts
    <3> QED
      BY <2>13, <3>5, <3>6 DEF IInv
  <2> QED
    BY <2>15, <2>16
<1> QED
  BY <1>3, <1>4

\* sys_munmap, up to its loop.
LEMMA SysMunmapStep ==
    ASSUME IInv, NEW addr \in UnmapAddrs, NEW size \in UnmapSizes, SysMunmap(addr, size)
    PROVE  IInv'
<1>1. pc = "user" /\ pc \in Running
  BY DEF SysMunmap, Running
<1>2. CASE size = 0 \/ addr % PAGE_SIZE # 0
  <2>1. Refuse
    BY <1>2 DEF SysMunmap
  <2> QED
    BY <1>1, <2>1, RefuseStep
<1>3. CASE ~(size = 0 \/ addr % PAGE_SIZE # 0)
  <2> DEFINE end == RangeEnd(addr, size)
  <2>1. /\ pc' = "munmap" /\ va' = addr
        /\ call' = [NoCall EXCEPT !.op = "munmap", !.addr = addr, !.size = size, !.end = end]
        /\ UNCHANGED <<managed, kernel_mapped, mem, partial, p, ret, failed>>
    BY <1>3 DEF SysMunmap
  <2>2. addr \in Nat /\ addr <= UserPages * PAGE_SIZE /\ size \in Nat /\ Wrap \in Nat /\ Wrap # 0
    <3>1. UserPages \in Nat /\ UserPages >= 3 /\ PAGE_SIZE \in Nat \ {0}
      BY UserLayout, Sizes
    <3>2. UserPages * PAGE_SIZE \in Nat /\ UserPages * PAGE_SIZE > 0
          /\ 2 * UserPages * PAGE_SIZE = 2 * (UserPages * PAGE_SIZE)
      BY <3>1
    <3> QED
      BY <3>2, ArgumentAssumption
  <2>3. end \in Nat
    <3>1. (addr + size) % Wrap \in Nat
      BY <2>2
    <3>2. ALIGN_UP((addr + size) % Wrap) \in Nat
      BY <3>1, AlignUpNat
    <3> QED
      BY <2>2, <3>2 DEF RangeEnd
  <2>4. Aligned(addr) /\ PageNo(addr) \in Nat /\ PageNo(addr) <= UserPages
    <3>1. PAGE_SIZE \in Nat \ {0} /\ UserPages \in Nat
      BY Sizes, UserLayout
    <3>2. addr = PAGE_SIZE * (addr \div PAGE_SIZE) + (addr % PAGE_SIZE) /\ addr \div PAGE_SIZE \in Nat
      BY <2>2, <3>1
    <3>3. Aligned(addr) /\ PageNo(addr) \in Nat
      BY <1>3, <3>1, <3>2 DEF Aligned, PageNo
    <3>4. ~(UserPages * PAGE_SIZE < PageNo(addr) * PAGE_SIZE)
      <4>1. UserPages * PAGE_SIZE \in Nat
        BY <3>1
      <4> QED
        BY <2>2, <3>3, <4>1 DEF Aligned
    <3> QED
      BY <3>1, <3>3, <3>4, MultiplesOrder
  <2> HIDE DEF end
  <2>5. call' \in Calls /\ va' \in Nat /\ pc' \in {"grow", "shrink", "munmap"}
    BY <2>1, <2>2, <2>3 DEF Calls, NoCall
  <2>6. /\ TypeInv' /\ TreeInv' /\ UsesInv' /\ ProcInv' /\ CreateInv' /\ RunInv' /\ Space' = Space
        /\ failed \/ HeapOnly(Space, ProgramEnd .. PageNo(p.heap_end) - 1)
    BY <1>1, <2>1, <2>5, StartStep
  <2>7. call'.op = "munmap" /\ call'.addr = addr /\ call'.size = size /\ call'.end = end
    BY <2>1 DEF NoCall
  <2>8. Unmapped(Space', PageNo(addr), PageNo(addr) - 1)
    BY <2>4 DEF Unmapped
  <2>9. MunmapInv'
    BY <2>1, <2>4, <2>7, <2>8 DEF MunmapInv, end
  <2>10. HeapInv'
    BY <2>1, <2>6, <2>9 DEF HeapInv
  <2> QED
    BY <2>6, <2>10 DEF IInv
<1> QED
  BY <1>2, <1>3

\* A step changes at most the translation of page v.
OnlyPage(v) == v \in VPages /\ \A u \in VPages \ {v} : Space'[u] = Space[u]

\* One page more: the pages below va are mapped, those above are not unless a growth has failed.
LEMMA GrowPageStep ==
    ASSUME IInv, GrowPage
    PROVE  IInv' /\ OnlyPage(PageNo(va)) /\ (pc' = "grow" => Space'[PageNo(va)].v)
<1> DEFINE v == PageNo(va)
           perm == {"R", "W", "U"}
           a == alloc_page(mem, managed)
           d == IF a.st = "ok" THEN map_page(a.m, p.pagetable, va, a.ppn, perm, managed) ELSE a
<1>1. pc = "grow" /\ va < call.end /\ pc \in Running /\ p' = p
  BY DEF GrowPage, Running
<1>2. /\ mem' = d.m /\ failed' = (failed \/ d.st # "ok")
      /\ IF d.st = "ok"
         THEN va' = va + PAGE_SIZE /\ UNCHANGED <<managed, kernel_mapped, partial, pc, call, ret>>
         ELSE Return(-1)
  BY DEF GrowPage
<1>3. /\ TypeInv /\ TreeInv /\ UsesInv /\ ProcInv /\ RunInv /\ HeapInv
      /\ p.state = "RUNNING" /\ p.pagetable # 0 /\ p.obj # NoObj /\ p.kstack # NoObj
      /\ failed \in BOOLEAN /\ va \in Nat /\ call \in Calls
  BY <1>1, RunningFacts
<1>4. GrowInv
  BY <1>1, <1>3 DEF HeapInv
<1>5. /\ UserPages \in Nat /\ ProgramEnd \in Nat /\ Guard = UserPages - 2 /\ Guard \in Nat /\ UserVPages \subseteq VPages
  BY UserLayout DEF Guard
<1>6. call.brk \in Nat
  BY <1>3 DEF Calls
<1>7. v < PageNo(call.brk)
  BY <1>1, <1>3, <1>4, <1>6, PageOrder DEF GrowInv
<1>8. v \in HeapPages /\ v \in UserVPages /\ v \in VPages /\ v \in 0 .. UserPages /\ v \in Nat
  BY <1>4, <1>5, <1>7 DEF GrowInv, HeapPages, UserVPages
<1>9. VPage(va) = v /\ Aligned(va + PAGE_SIZE) /\ PageNo(va + PAGE_SIZE) = v + 1 /\ va + PAGE_SIZE \in Nat
  BY <1>3, <1>4, <1>8, NextPage DEF GrowInv
<1>10. failed \/ ~Space[v].v
  <2>1. v \notin ProgramEnd .. v - 1
    BY <1>8
  <2> QED
    BY <1>4, <1>8, <2>1 DEF GrowInv, HeapOnly
<1>11. perm \in Perms
  BY DEF Perms
<1>12. AllocMapResult(managed, mem, p.pagetable, v, perm, a, d)
  <2>1. managed \in SUBSET Nat /\ mem \in Memory(managed) /\ TreeOK(managed, mem, p.pagetable)
    BY <1>3, Basics DEF TreeInv
  <2> QED
    BY <1>3, <1>9, <1>11, <2>1, AllocMap
<1> HIDE DEF d, a, v
<1>13. /\ failed' \in BOOLEAN /\ (failed => failed') /\ (d.st # "ok" => failed')
  BY <1>2, <1>3
<1>14. managed' = managed /\ kernel_mapped' = kernel_mapped /\ partial' = partial
  BY <1>2 DEF Return
<1>15. SameObjects
  BY <1>1, <1>14 DEF SameObjects
<1>16. UserStepResult(v, perm, a, d)
  BY <1>1, <1>2, <1>3, <1>8, <1>10, <1>11, <1>12, <1>13, <1>14, <1>15, UserMapStep
<1>17. /\ mem' \in Memory(managed') /\ TreeInv' /\ UsesInv' /\ Remaps(v, Pte(a.ppn, perm), d.st)
       /\ (d.st = "ok" => a.ppn \in managed)
  BY <1>16 DEF UserStepResult
<1>17a. OnlyPage(v)
  BY <1>8, <1>17 DEF OnlyPage, Remaps
<1>18. RunInv'
  <2>1. \A u \in VPages \ {v} : Space'[u] = Space[u]
    BY <1>17 DEF Remaps
  <2>2. ASSUME Space'[v].v
        PROVE  Space'[v].perm = perm
    <3>1. CASE d.st = "ok" /\ ~Space[v].v
      <4>1. a.ppn \in Nat
        BY <1>3, <1>17, <3>1, Basics
      <4>2. Pte(a.ppn, perm).perm = perm
        BY <1>11, <4>1, PteFacts
      <4>3. Space'[v] = Pte(a.ppn, perm)
        BY <1>17, <3>1 DEF Remaps
      <4> QED
        BY <4>2, <4>3
    <3>2. CASE ~(d.st = "ok" /\ ~Space[v].v)
      <4>1. Space'[v] = Space[v]
        BY <1>17, <3>2 DEF Remaps
      <4>2. HeapPerms(Space)
        BY <1>3 DEF RunInv
      <4> QED
        BY <1>8, <2>2, <4>1, <4>2 DEF HeapPerms
    <3> QED
      BY <3>1, <3>2
  <2> QED
    BY <1>1, <1>3, <1>8, <2>1, <2>2, RunKept
<1>19. CASE d.st = "ok"
  <2>1. va' = va + PAGE_SIZE /\ pc' = "grow" /\ call' = call
    BY <1>1, <1>2, <1>19
  <2>2. TypeInv'
    BY <1>1, <1>3, <1>9, <1>13, <1>14, <1>17, <2>1 DEF TypeInv, Labels, Running
  <2>3. ProcInv' /\ CreateInv'
    BY <1>1, <1>3, <2>1, StillRunning DEF Running
  <2>4. failed' \/ HeapOnly(Space', ProgramEnd .. v)
    <3> SUFFICES ASSUME ~failed', NEW u \in HeapPages, Space'[u].v
                 PROVE  u \in ProgramEnd .. v
      BY <1>13 DEF HeapOnly
    <3>1. CASE u = v
      BY <1>5, <1>8, <3>1 DEF HeapPages
    <3>2. CASE u # v
      <4>1. u \in VPages
        BY <1>5 DEF HeapPages, UserVPages
      <4>2. Space[u].v
        BY <1>17, <3>2, <4>1 DEF Remaps
      <4>3. u \in ProgramEnd .. v - 1
        BY <1>3, <1>4, <1>13, <4>2 DEF GrowInv, HeapOnly, v
      <4> QED
        BY <1>5, <1>8, <4>3
    <3> QED
      BY <3>1, <3>2
  <2>5. (v + 1) - 1 = v /\ v + 1 \in ProgramEnd .. PageNo(call.brk)
    BY <1>4, <1>5, <1>7, <1>8 DEF GrowInv, HeapPages
  <2>6. GrowInv'
    BY <1>4, <1>9, <2>1, <2>4, <2>5 DEF GrowInv
  <2>7. HeapInv'
    BY <1>1, <1>3, <2>1, <2>6 DEF HeapInv
  <2>8. Space'[v].v
    <3>1. CASE ~Space[v].v
      <4>1. Space'[v] = Pte(a.ppn, perm) /\ a.ppn \in Nat
        BY <1>3, <1>17, <1>19, <3>1, Basics DEF Remaps
      <4> QED
        BY <1>11, <4>1, PteFacts
    <3>2. CASE Space[v].v
      BY <1>17, <3>2 DEF Remaps
    <3> QED
      BY <3>1, <3>2
  <2> QED
    BY <1>17, <1>17a, <1>18, <2>2, <2>3, <2>7, <2>8 DEF IInv, v
<1>20. CASE d.st # "ok"
  <2>1. pc' = "user" /\ va' = 0 /\ call' = NoCall
    BY <1>2, <1>20 DEF Return
  <2>2. TypeInv'
    BY <1>1, <1>3, <1>13, <1>14, <1>17, <2>1, NoCallFacts DEF TypeInv, Labels, Running
  <2>3. ProcInv' /\ CreateInv'
    BY <1>1, <1>3, <2>1, StillRunning DEF Running
  <2>4. HeapInv'
    BY <1>13, <1>20, <2>1, NoCallFacts DEF HeapInv
  <2> QED
    BY <1>17, <1>17a, <1>18, <2>1, <2>2, <2>3, <2>4 DEF IInv, v
<1> QED
  BY <1>19, <1>20

\* One page less.
LEMMA ShrinkPageStep ==
    ASSUME IInv, ShrinkPage
    PROVE  IInv' /\ OneChange /\ OnlyPage(PageNo(va)) /\ ~Space'[PageNo(va)].v
<1> DEFINE v == PageNo(va)
           d == unmap_page(mem, p.pagetable, va)
           h == PageNo(p.heap_end)
           b == PageNo(call.brk)
<1>1. pc = "shrink" /\ va < call.end /\ pc \in Running
  BY DEF ShrinkPage, Running
<1>2. /\ mem' = d.m /\ va' = va + PAGE_SIZE
      /\ UNCHANGED <<managed, kernel_mapped, partial, p, pc, call, ret, failed>>
  BY DEF ShrinkPage
<1>3. /\ TypeInv /\ TreeInv /\ UsesInv /\ ProcInv /\ RunInv /\ HeapInv
      /\ p.state = "RUNNING" /\ p.pagetable # 0 /\ p.obj # NoObj /\ p.kstack # NoObj
      /\ failed \in BOOLEAN /\ va \in Nat /\ call \in Calls
      /\ p.heap_end \in Nat /\ Aligned(p.heap_end) /\ h \in ProgramEnd .. Guard
  BY <1>1, RunningFacts
<1>4. ShrinkInv
  BY <1>1, <1>3 DEF HeapInv
<1>5. /\ UserPages \in Nat /\ ProgramEnd \in Nat /\ Guard = UserPages - 2 /\ Guard \in Nat /\ UserVPages \subseteq VPages
  BY UserLayout DEF Guard
<1>6. v < h
  BY <1>1, <1>3, <1>4, PageOrder DEF ShrinkInv
<1>7. b \in ProgramEnd .. Guard /\ v \in b .. h
  BY <1>4 DEF ShrinkInv
<1>8. v \in HeapPages /\ v \in UserVPages /\ v \in VPages /\ v \in 0 .. UserPages /\ v \in Nat
  BY <1>3, <1>5, <1>6, <1>7 DEF HeapPages, UserVPages
<1>9. VPage(va) = v /\ Aligned(va + PAGE_SIZE) /\ PageNo(va + PAGE_SIZE) = v + 1 /\ va + PAGE_SIZE \in Nat
  BY <1>3, <1>4, <1>8, NextPage DEF ShrinkInv
<1>10. SameObjects /\ p'.pagetable = p.pagetable
  BY <1>2 DEF SameObjects
<1>11. UnmapStepResult(v, d)
  BY <1>2, <1>3, <1>8, <1>9, <1>10, UnmapStep
<1> HIDE DEF d, v, h, b
<1>11a. OneChange
  BY <1>8, <1>11, UnmapChange
<1>12. /\ mem' \in Memory(managed') /\ TreeInv' /\ UsesInv'
       /\ \A u \in VPages \ {v} : Space'[u] = Space[u]
  BY <1>11 DEF UnmapStepResult
<1>13. ~Space'[v].v
  BY <1>11, EmptyFacts DEF UnmapStepResult
<1>14. RunInv'
  BY <1>2, <1>3, <1>8, <1>12, <1>13, RunKept
<1>15. TypeInv'
  BY <1>2, <1>3, <1>9, <1>12 DEF TypeInv
<1>16. ProcInv' /\ CreateInv'
  BY <1>1, <1>2, <1>3, StillRunning DEF Running
<1>17. failed \/ HeapOnly(Space', (ProgramEnd .. b - 1) \cup ((v + 1) .. h - 1))
  <2> SUFFICES ASSUME ~failed, NEW u \in HeapPages, Space'[u].v
               PROVE  u \in (ProgramEnd .. b - 1) \cup ((v + 1) .. h - 1)
    BY <1>3 DEF HeapOnly
  <2>1. u # v
    BY <1>13
  <2>2. u \in VPages /\ u \in Nat
    BY <1>5 DEF HeapPages, UserVPages
  <2>3. Space[u].v
    BY <1>12, <2>1, <2>2
  <2>4. u \in (ProgramEnd .. b - 1) \cup (v .. h - 1)
    BY <1>4, <2>3 DEF ShrinkInv, HeapOnly, v, b, h
  <2> QED
    BY <1>3, <1>5, <1>8, <2>1, <2>2, <2>4
<1>18. v + 1 \in b .. h
  BY <1>3, <1>5, <1>6, <1>7, <1>8
<1>19. ShrinkInv'
  BY <1>2, <1>4, <1>9, <1>17, <1>18 DEF ShrinkInv, b, h
<1>20. HeapInv'
  BY <1>1, <1>2, <1>3, <1>19 DEF HeapInv
<1>21. OnlyPage(v)
  BY <1>8, <1>12 DEF OnlyPage
<1> QED
  BY <1>12, <1>13, <1>14, <1>15, <1>16, <1>20, <1>21, <1>11a DEF IInv, v

\* The break moves when the loop has reached it.
LEMMA SbrkDoneStep ==
    ASSUME IInv, SbrkDone
    PROVE  IInv'
<1> DEFINE h == PageNo(p.heap_end)
           b == PageNo(call.brk)
<1>1. pc \in {"grow", "shrink"} /\ va >= call.end /\ pc \in Running
  BY DEF SbrkDone, Running
<1>2. /\ p' = [p EXCEPT !.heap_end = call.brk] /\ mem' = mem /\ failed' = failed
      /\ pc' = "user" /\ va' = 0 /\ call' = NoCall /\ UNCHANGED <<managed, kernel_mapped, partial>>
  BY DEF SbrkDone, Return
<1>3. /\ TypeInv /\ TreeInv /\ UsesInv /\ ProcInv /\ RunInv /\ HeapInv
      /\ p.state = "RUNNING" /\ p.pagetable # 0 /\ p.obj # NoObj /\ p.kstack # NoObj
      /\ failed \in BOOLEAN /\ va \in Nat /\ call \in Calls /\ p \in ProcRecords(managed)
      /\ p.heap_end \in Nat /\ Aligned(p.heap_end) /\ h \in ProgramEnd .. Guard
  BY <1>1, RunningFacts
<1>4. /\ UserPages \in Nat /\ ProgramEnd \in Nat /\ Guard \in Nat
  BY UserLayout
<1>5. call.brk \in Nat
  BY <1>3 DEF Calls
<1>6. /\ p'.pagetable = p.pagetable /\ p'.obj = p.obj /\ p'.kstack = p.kstack /\ p'.state = p.state
      /\ p'.heap_start = p.heap_start /\ p'.heap_end = call.brk /\ p' \in ProcRecords(managed)
  BY <1>2, <1>3, <1>5 DEF ProcRecords
<1>7. SameObjects
  BY <1>2, <1>6 DEF SameObjects
<1>8. TreeInv' /\ UsesInv' /\ mem' \in Memory(managed') /\ Space' = Space
  BY <1>2, <1>3, <1>6, <1>7, MemoryKept
<1>9. TypeInv'
  BY <1>2, <1>3, <1>6, <1>8, NoCallFacts DEF TypeInv, Labels, Running
<1>10. ProcInv' /\ CreateInv'
  BY <1>1, <1>2, <1>3, <1>6, StillRunning DEF Running
<1>11. /\ Aligned(call.brk) /\ b \in ProgramEnd .. Guard
       /\ failed \/ HeapOnly(Space, ProgramEnd .. b - 1)
  <2>1. CASE pc = "grow"
    <3>1. GrowInv
      BY <1>3, <2>1 DEF HeapInv
    <3>2. ~(PageNo(va) < b)
      BY <1>1, <1>3, <1>5, <3>1, PageOrder DEF GrowInv
    <3>3. PageNo(va) = b
      BY <1>4, <3>1, <3>2 DEF GrowInv
    <3> QED
      BY <3>1, <3>3 DEF GrowInv
  <2>2. CASE pc = "shrink"
    <3>1. ShrinkInv
      BY <1>3, <2>2 DEF HeapInv
    <3>2. ~(PageNo(va) < h)
      BY <1>1, <1>3, <3>1, PageOrder DEF ShrinkInv
    <3>3. PageNo(va) = h
      BY <1>3, <1>4, <3>1, <3>2 DEF ShrinkInv
    <3>4. h \in Nat
      BY <1>3, <1>4
    <3>5. h .. h - 1 = {}
      BY <3>4
    <3> QED
      BY <3>1, <3>3, <3>5 DEF ShrinkInv
  <2> QED
    BY <1>1, <2>1, <2>2
<1>12. RunInv'
  BY <1>3, <1>6, <1>8, <1>11 DEF RunInv, ProcMapped, KstackMapped, UartMapped
<1>13. HeapInv'
  BY <1>2, <1>6, <1>8, <1>11, NoCallFacts DEF HeapInv
<1> QED
  BY <1>8, <1>9, <1>10, <1>12, <1>13 DEF IInv

\* One page of the range: everything between addr and va is unmapped.
LEMMA UnmapNextStep ==
    ASSUME IInv, UnmapNext
    PROVE  IInv' /\ OneChange /\ OnlyPage(PageNo(va))
<1> DEFINE v == PageNo(va)
           d == unmap_page(mem, p.pagetable, va)
           h == PageNo(p.heap_end)
           a == PageNo(call.addr)
<1>1. pc = "munmap" /\ va < call.end /\ pc \in Running /\ p' = p /\ failed' = failed
  BY DEF UnmapNext, Running
<1>2. /\ mem' = d.m
      /\ IF d.st = "ok"
         THEN va' = va + PAGE_SIZE /\ UNCHANGED <<managed, kernel_mapped, partial, pc, call, ret>>
         ELSE Return(-1)
  BY DEF UnmapNext
<1>3. /\ TypeInv /\ TreeInv /\ UsesInv /\ ProcInv /\ RunInv /\ HeapInv
      /\ p.state = "RUNNING" /\ p.pagetable # 0 /\ p.obj # NoObj /\ p.kstack # NoObj
      /\ failed \in BOOLEAN /\ va \in Nat /\ call \in Calls
  BY <1>1, RunningFacts
<1>4. MunmapInv /\ (failed \/ HeapOnly(Space, ProgramEnd .. h - 1))
  BY <1>1, <1>3 DEF HeapInv
<1>5. /\ UserPages \in Nat /\ ProgramEnd \in Nat /\ Guard = UserPages - 2 /\ Guard \in Nat
      /\ UserVPages \subseteq VPages /\ UserPages \in VPages
  BY UserLayout DEF Guard
<1>6. call.addr \in Nat /\ a \in Nat
  <2>1. call.addr \in Nat
    BY <1>3 DEF Calls
  <2> QED
    BY <1>4, <2>1, NextPage DEF MunmapInv
<1>7. v \in Nat /\ Aligned(va + PAGE_SIZE) /\ PageNo(va + PAGE_SIZE) = v + 1 /\ va + PAGE_SIZE \in Nat
  BY <1>3, <1>4, NextPage DEF MunmapInv
<1>8. v \in 0 .. UserPages /\ (v = UserPages \/ v \in UserVPages) /\ v \in VPages /\ a <= v
  <2>1. v <= UserPages /\ a <= v
    BY <1>4 DEF MunmapInv
  <2> QED
    BY <1>5, <1>7, <2>1 DEF UserVPages
<1>9. VPage(va) = v
  BY <1>3, <1>4, <1>8, NextPage DEF MunmapInv
<1>10. ~Space[UserPages].v
  BY <1>3 DEF RunInv
<1>11. VPage(va) \in UserVPages \/ ~Space[VPage(va)].v
  BY <1>8, <1>9, <1>10
<1>12. managed' = managed /\ kernel_mapped' = kernel_mapped /\ partial' = partial
  BY <1>2 DEF Return
<1>13. SameObjects /\ p'.pagetable = p.pagetable
  BY <1>1, <1>12 DEF SameObjects
<1>14. UnmapStepResult(v, d)
  BY <1>1, <1>2, <1>3, <1>9, <1>11, <1>12, <1>13, UnmapStep
<1> HIDE DEF d, v, h, a
<1>14a. OneChange
  BY <1>8, <1>14, UnmapChange
<1>15. /\ mem' \in Memory(managed') /\ TreeInv' /\ UsesInv'
       /\ \A u \in VPages \ {v} : Space'[u] = Space[u]
       /\ IF Space[v].v THEN d.st = "ok" /\ Space'[v] = NoPte ELSE d.st = "fail" /\ Space'[v] = Space[v]
  BY <1>14 DEF UnmapStepResult
<1>15a. OnlyPage(v)
  BY <1>8, <1>15 DEF OnlyPage
<1>16. ~Space'[v].v
  BY <1>15, EmptyFacts
<1>17. RunInv'
  BY <1>1, <1>3, <1>8, <1>15, <1>16, RunKept
<1>18. failed \/ HeapOnly(Space', ProgramEnd .. h - 1)
  <2> SUFFICES ASSUME ~failed, NEW u \in HeapPages, Space'[u].v
               PROVE  u \in ProgramEnd .. h - 1
    BY <1>3 DEF HeapOnly
  <2>1. u # v /\ u \in VPages
    BY <1>5, <1>16 DEF HeapPages, UserVPages
  <2>2. Space[u].v
    BY <1>15, <2>1
  <2> QED
    BY <1>4, <2>2 DEF HeapOnly
<1>19. CASE d.st = "ok"
  <2>1. va' = va + PAGE_SIZE /\ pc' = "munmap" /\ call' = call
    BY <1>1, <1>2, <1>19
  <2>2. v < UserPages
    <3>1. v # UserPages
      BY <1>10, <1>15, <1>19
    <3> QED
      BY <1>5, <1>8, <3>1
  <2>3. TypeInv'
    BY <1>1, <1>3, <1>7, <1>12, <1>15, <2>1 DEF TypeInv, Labels, Running
  <2>4. ProcInv' /\ CreateInv'
    BY <1>1, <1>3, <2>1, StillRunning DEF Running
  <2>5. Unmapped(Space', a, v)
    <3> SUFFICES ASSUME NEW u \in a .. v PROVE ~Space'[u].v
      BY DEF Unmapped
    <3>1. CASE u = v
      BY <1>16, <3>1
    <3>2. CASE u # v
      <4>1. u \in a .. v - 1 /\ u \in VPages
        BY <1>5, <1>6, <1>7, <1>8, <2>2, <3>2 DEF UserVPages
      <4>2. ~Space[u].v
        BY <1>4, <4>1 DEF MunmapInv, Unmapped, v, a
      <4> QED
        BY <1>15, <3>2, <4>1, <4>2
    <3> QED
      BY <3>1, <3>2
  <2>6. (v + 1) - 1 = v /\ a <= v + 1 /\ v + 1 <= UserPages
    BY <1>5, <1>6, <1>7, <1>8, <2>2
  <2>7. MunmapInv'
    BY <1>4, <1>7, <2>1, <2>5, <2>6 DEF MunmapInv, a
  <2>8. HeapInv'
    BY <1>1, <1>18, <2>1, <2>7 DEF HeapInv, h
  <2> QED
    BY <1>15, <1>15a, <1>17, <1>14a, <2>3, <2>4, <2>8 DEF IInv, v
<1>20. CASE d.st # "ok"
  <2>1. pc' = "user" /\ va' = 0 /\ call' = NoCall
    BY <1>2, <1>20 DEF Return
  <2>2. TypeInv'
    BY <1>1, <1>3, <1>12, <1>15, <2>1, NoCallFacts DEF TypeInv, Labels, Running
  <2>3. ProcInv' /\ CreateInv'
    BY <1>1, <1>3, <2>1, StillRunning DEF Running
  <2>4. HeapInv'
    BY <1>1, <1>18, <2>1, NoCallFacts DEF HeapInv, h
  <2> QED
    BY <1>15, <1>15a, <1>17, <1>14a, <2>2, <2>3, <2>4 DEF IInv, v
<1> QED
  BY <1>19, <1>20

\* sys_munmap returns 0.
LEMMA MunmapDoneStep ==
    ASSUME IInv, MunmapDone
    PROVE  IInv'
<1>1. pc = "munmap" /\ pc \in Running /\ Return(0) /\ mem' = mem /\ p' = p /\ failed' = failed
  BY DEF MunmapDone, Running
<1>2. HeapInv /\ failed \in BOOLEAN
  BY <1>1, RunningFacts
<1>3. failed \/ HeapOnly(Space, ProgramEnd .. PageNo(p.heap_end) - 1)
  BY <1>1, <1>2 DEF HeapInv
<1>4. failed' \in BOOLEAN /\ (failed => failed') /\ (failed' \/ HeapOnly(Space, ProgramEnd .. PageNo(p.heap_end) - 1))
  BY <1>1, <1>2, <1>3
<1> QED
  BY <1>1, <1>4, ReturnStep

\* A fault in the middle of a call, or a growth without a free page.
LEMMA HeapFaultStep ==
    ASSUME IInv, HeapFault
    PROVE  IInv'
<1>1. pc \in Running /\ mem' = mem /\ p' = p
  BY DEF HeapFault, Running
<1>2. /\ TypeInv /\ TreeInv /\ UsesInv /\ ProcInv /\ RunInv /\ HeapInv
      /\ p.state = "RUNNING" /\ p.pagetable # 0 /\ p.obj # NoObj /\ p.kstack # NoObj /\ failed \in BOOLEAN
  BY <1>1, RunningFacts
<1>3. CASE pc = "grow" /\ mem.free = {}
  <2>1. Return(-1) /\ failed' = TRUE
    BY <1>3 DEF HeapFault
  <2>2. failed' \in BOOLEAN /\ (failed => failed') /\ (failed' \/ HeapOnly(Space, ProgramEnd .. PageNo(p.heap_end) - 1))
    BY <2>1
  <2> QED
    BY <1>1, <2>1, <2>2, ReturnStep
<1>4. CASE ~(pc = "grow" /\ mem.free = {})
  <2>1. pc' = "halt" /\ UNCHANGED <<managed, kernel_mapped, partial, va, call, ret, failed>>
    BY <1>4 DEF HeapFault
  <2>2. SameObjects
    BY <1>1, <2>1 DEF SameObjects
  <2>3. TreeInv' /\ UsesInv' /\ mem' \in Memory(managed') /\ Space' = Space
    BY <1>1, <1>2, <2>1, <2>2, MemoryKept
  <2>4. TypeInv'
    BY <1>1, <1>2, <2>1, <2>3 DEF TypeInv, Labels
  <2>5. ProcInv' /\ CreateInv'
    BY <1>1, <1>2, <2>1, StillRunning
  <2>6. RunInv'
    BY <1>1, <1>2, <2>3, RunSame
  <2>7. HeapInv'
    BY <2>1 DEF HeapInv
  <2> QED
    BY <2>3, <2>4, <2>5, <2>6, <2>7 DEF IInv
<1> QED
  BY <1>3, <1>4

\* Nothing changes.
LEMMA StutterStep ==
    ASSUME IInv, UNCHANGED vars
    PROVE  IInv'
<1>1. UNCHANGED <<managed, kernel_mapped, mem, partial, p, pc, va, call, failed>>
  BY DEF vars
<1>2. TypeInv /\ TreeInv /\ UsesInv /\ ProcInv /\ CreateInv /\ RunInv /\ HeapInv /\ failed \in BOOLEAN
  BY DEF IInv, TypeInv
<1>3. SameObjects
  BY <1>1 DEF SameObjects
<1>4. TreeInv' /\ UsesInv' /\ Space' = Space /\ (UartEntry' <=> UartEntry)
  BY <1>1, <1>2, <1>3, MemoryKept
<1>5. TypeInv'
  BY <1>1, <1>2 DEF TypeInv
<1>6. ProcInv'
  BY <1>1, <1>2 DEF ProcInv, Created
<1>7. CreateInv'
  <2>1. LoadInv => LoadInv'
    BY <1>1, <1>4 DEF LoadInv, ObjectVPages, ProcMapped, KstackMapped
  <2>2. LoadedInv => LoadedInv'
    BY <1>1, <1>4 DEF LoadedInv, ProcMapped, KstackMapped, StackMapped
  <2>3. KernelInv => KernelInv'
    BY <1>1, <1>4 DEF KernelInv, ObjectVPages
  <2>4. UartInv => UartInv'
    BY <1>1, <1>4 DEF UartInv, ObjectVPages
  <2>5. ReadyInv => ReadyInv'
    BY <1>1, <1>4 DEF ReadyInv, ObjectVPages, UartMapped
  <2> QED
    BY <1>1, <1>2, <1>4, <2>1, <2>2, <2>3, <2>4, <2>5 DEF CreateInv, ProcMapped
<1>8. RunInv'
  BY <1>1, <1>2, <1>4, RunSame
<1>9. HeapInv'
  BY <1>1, <1>2, <1>4 DEF HeapInv, GrowInv, ShrinkInv, MunmapInv
<1> QED
  BY <1>4, <1>5, <1>6, <1>7, <1>8, <1>9 DEF IInv

------------------------------------------------------------------------------
(* The invariant holds.                                                    *)

\* The invariant holds when create_proc starts.
LEMMA InitIInv ==
    ASSUME Init
    PROVE  IInv
<1>1. /\ managed \in Memories /\ kernel_mapped \in KernelMapped
      /\ mem = [tab |-> [f \in managed |-> EmptyTable], free |-> managed]
      /\ partial = [i \in Classes |-> <<>>]
      /\ p = NewProc /\ pc = "proc" /\ va = 0 /\ call = NoCall /\ failed = FALSE
  BY DEF Init
<1>2. mem \in Memory(managed) /\ mem.free = managed
  BY <1>1, EmptyFacts DEF Memory
<1>3. /\ p.pagetable = 0 /\ p.obj = NoObj /\ p.kstack = NoObj /\ p.state = "UNUSED"
      /\ p \in ProcRecords(managed)
  BY <1>1 DEF NewProc, ProcRecords
<1>4. TypeInv
  <2>1. kernel_mapped \in BOOLEAN
    BY <1>1, ProcessAssumption
  <2>2. partial \in [Classes -> Seq(ObjectsIn(managed))]
    BY <1>1
  <2>3. call \in Calls
    BY <1>1, NoCallFacts
  <2> QED
    BY <1>1, <1>2, <1>3, <2>1, <2>2, <2>3 DEF TypeInv, Labels, Creating
<1>5. TreeInv
  BY <1>3 DEF TreeInv
<1>6. UsesInv
  <2>1. TablePages = {} /\ \A v \in VPages : Space[v] = NoPte
    BY <1>3 DEF TablePages, Space, Mapped
  <2>2. ObjectPages = {}
    <3>1. \A i \in Classes : partial[i] = <<>> /\ Len(partial[i]) = 0
      BY <1>1
    <3>2. p.obj.ppn = 0 /\ p.kstack.ppn = 0
      BY <1>3 DEF NoObj
    <3>3. 1 .. 0 = {}
      OBVIOUS
    <3> QED
      BY <3>1, <3>2, <3>3 DEF ObjectPages
  <2>3. \A v \in UserVPages : ~Space[v].v
    BY <2>1, EmptyFacts, UserLayout
  <2> QED
    BY <1>2, <2>1, <2>2, <2>3 DEF UsesInv, UsesOK
<1>7. ProcInv
  BY <1>1, <1>3 DEF ProcInv, Created, Creating, HasRoot, Running
<1>8. CreateInv
  BY <1>1 DEF CreateInv, Creating, HasRoot
<1>9. RunInv
  BY <1>3 DEF RunInv
<1>10. HeapInv
  BY <1>1, NoCallFacts DEF HeapInv
<1> QED
  BY <1>4, <1>5, <1>6, <1>7, <1>8, <1>9, <1>10 DEF IInv

\* The invariant is inductive: one case for each action.
LEMMA Inductive ==
    ASSUME IInv, [Next]_vars
    PROVE  IInv'
<1>1. CASE UNCHANGED vars
  BY <1>1, StutterStep
<1>2. CASE CreateProc
  BY <1>2, AllocProcStep, AllocPagetableStep, AllocKstackStep, MapProcStep, MapKstackStep, LoadPageStep,
     AllocUstackStep, CopyKernelPageStep, MapUartStep, QueueProcStep, ShellInitStep, FreeProcStep DEF CreateProc
<1>3. CASE HeapStep
  BY <1>3, GrowPageStep, ShrinkPageStep, SbrkDoneStep, UnmapNextStep, MunmapDoneStep, HeapFaultStep DEF HeapStep
<1>4. ASSUME NEW size \in SbrkSizes, SysSbrk(size) PROVE IInv'
  BY <1>4, SysSbrkStep
<1>5. ASSUME NEW addr \in UnmapAddrs, NEW size \in UnmapSizes, SysMunmap(addr, size) PROVE IInv'
  BY <1>5, SysMunmapStep
<1> QED
  BY <1>1, <1>2, <1>3, <1>4, <1>5 DEF Next

------------------------------------------------------------------------------
(* What follows from it.                                                   *)

\* What the properties call Mapped is the address space of the invariant.
LEMMA UserSpace ==
    ASSUME NEW v \in UserVPages
    PROVE  v \in VPages /\ Mapped(v) = Space[v]
BY UserLayout DEF Space

\* A set in one-to-one correspondence with pages of the user's.
LEMMA AsMany ==
    ASSUME NEW S \in SUBSET UserVPages, NEW f, f \in [S -> {f[v] : v \in S}],
           \A u, v \in S : f[u] = f[v] => u = v
    PROVE  Cardinality({f[v] : v \in S}) = Cardinality(S)
<1>1. IsFiniteSet(S)
  <2>1. 0 \in Int /\ UserPages - 1 \in Int
    BY UserLayout
  <2>2. IsFiniteSet(0 .. UserPages - 1)
    BY <2>1, FS_Interval
  <2> QED
    BY <2>2, FS_Subset DEF UserVPages
<1>2. f \in Injection(S, {f[v] : v \in S}) /\ f \in Surjection(S, {f[v] : v \in S})
  BY DEF Injection, Surjection, IsInjective
<1> QED
  BY <1>1, <1>2, FS_Surjection

\* The uses of pages as OneUse states them.
LEMMA IInvOneUse ==
    ASSUME IInv
    PROVE  OneUse
<1> DEFINE S == {v \in UserVPages : Mapped(v).v}
           f == [v \in S |-> Mapped(v).ppn]
<1>1. UsesOK(managed, mem.free, TablePages, ObjectPages, Space, failed)
  BY DEF IInv, UsesInv
<1>2. \A g \in UserFrames : \E v \in UserVPages : Space[v].v /\ g = Space[v].ppn
  BY UserSpace DEF UserFrames
<1>3. \A v \in UserVPages : Space[v].v => Space[v].ppn \in UserFrames
  BY UserSpace DEF UserFrames
<1>4. /\ TablePages \cap (ObjectPages \cup UserFrames \cup mem.free) = {}
      /\ ObjectPages \cap (UserFrames \cup mem.free) = {}
      /\ UserFrames \cap mem.free = {}
  BY <1>1, <1>2 DEF UsesOK
<1>5. Cardinality(UserFrames) = Cardinality(S)
  <2>1. {f[v] : v \in S} = UserFrames
    BY DEF UserFrames
  <2>2. \A u, v \in S : f[u] = f[v] => u = v
    BY <1>1, UserSpace DEF UsesOK
  <2>3. f \in [S -> {f[v] : v \in S}] /\ S \in SUBSET UserVPages
    OBVIOUS
  <2> HIDE DEF f, S
  <2>4. Cardinality({f[v] : v \in S}) = Cardinality(S)
    BY <2>2, <2>3, AsMany
  <2> QED
    BY <2>1, <2>4
<1>6. failed \/ managed \subseteq mem.free \cup TablePages \cup ObjectPages \cup UserFrames
  BY <1>1, <1>3 DEF UsesOK
<1> QED
  BY <1>4, <1>5, <1>6 DEF OneUse

\* The mappings as Complete states them.
LEMMA IInvComplete ==
    ASSUME IInv
    PROVE  Complete
<1> SUFFICES ASSUME p.state # "UNUSED" PROVE Complete!2
  BY DEF Complete
<1>1. TypeInv /\ ProcInv /\ CreateInv /\ RunInv
  BY DEF IInv
<1>2. p.state \in {"RUNNABLE", "RUNNING"} /\ p \in ProcRecords(managed)
  BY <1>1 DEF TypeInv, ProcRecords
<1>3. p.state = "RUNNABLE" => LoadedInv /\ ReadyInv /\ pc = "shell_init"
  BY <1>1 DEF ProcInv, CreateInv
<1>4. ProcMapped /\ KstackMapped /\ UartMapped /\ AllImageMapped(Space)
  BY <1>1, <1>2, <1>3 DEF RunInv, LoadedInv, ReadyInv
<1>5. p.obj # NoObj /\ p.kstack # NoObj
  BY <1>1, <1>2, <1>3 DEF ProcInv, Created
<1>6. p.obj \in ObjectsIn(managed) \cup {NoObj} /\ p.kstack \in ObjectsIn(managed) \cup {NoObj}
  BY <1>2 DEF ProcRecords
<1>7. /\ VPage(VirtAddr(p.obj)) = KernelVPage(p.obj.ppn) /\ KernelVPage(p.obj.ppn) \in VPages
      /\ VPage(VirtAddr(p.kstack)) = KernelVPage(p.kstack.ppn) /\ KernelVPage(p.kstack.ppn) \in VPages
  BY <1>1, <1>5, <1>6, ObjectLayout
<1>8. \A v \in VPages : Mapped(v) = Space[v]
  BY DEF Space
<1>9. /\ Mapped(VPage(VirtAddr(p.obj))) = Pte(p.obj.ppn, {"R", "W"})
      /\ Mapped(VPage(VirtAddr(p.kstack))) = Pte(p.kstack.ppn, {"R", "W"})
  BY <1>4, <1>7, <1>8 DEF ProcMapped, KstackMapped, KernelMaps
<1>10. Mapped(VPage(UART0)) = Pte(UartPpn, {"R", "W"})
  BY <1>4, <1>8, UartPage DEF UartMapped, KernelMaps
<1>11. \A k \in ImagePages : Mapped(VPage(ImageVa(k))) = Pte(ImagePpn + k, ImagePerm[k])
  BY <1>4, <1>8, ImageFacts DEF AllImageMapped, KernelMaps
<1>12. ASSUME p.state = "RUNNABLE"
       PROVE  /\ \A v \in UserVPages : v * PAGE_SIZE < BinarySize => Mapped(v).perm = {"R", "X", "U"}
              /\ Mapped(VPage(USER_STACK_BASE)) = Pte(p.ustack, {"R", "W", "U"})
  <2>1. ProgramMapped(Space, ProgramEnd) /\ StackMapped
    BY <1>3, <1>12 DEF LoadedInv
  <2>2. ASSUME NEW v \in UserVPages, v * PAGE_SIZE < BinarySize
        PROVE  Mapped(v).perm = {"R", "X", "U"}
    <3>1. v \in Nat /\ v * PAGE_SIZE \in Nat /\ ProgramEnd \in Nat /\ BinarySize \in Nat
          /\ BinarySize <= ProgramEnd * PAGE_SIZE
      BY UserLayout, Multiples, AlignUpNat, ProcessAssumption
    <3>2. ProgramEnd * PAGE_SIZE \in Nat
      BY <3>1, Multiples
    <3>3. v * PAGE_SIZE < ProgramEnd * PAGE_SIZE
      BY <2>2, <3>1, <3>2
    <3>4. v < ProgramEnd
      BY <3>1, <3>3, MultiplesOrder
    <3> QED
      BY <2>1, <3>4, UserSpace DEF ProgramMapped
  <2>3. Mapped(VPage(USER_STACK_BASE)) = Pte(p.ustack, {"R", "W", "U"})
    BY <2>1, UserSpace, UserLayout DEF StackMapped
  <2> QED
    BY <2>2, <2>3
<1> QED
  BY <1>9, <1>10, <1>11, <1>12

\* The heap as HeapMatchesBreak states it.
LEMMA IInvHeap ==
    ASSUME IInv
    PROVE  HeapMatchesBreak
<1> SUFFICES ASSUME p.state = "RUNNING" PROVE HeapMatchesBreak!2
  BY DEF HeapMatchesBreak
<1>1. TypeInv /\ RunInv /\ HeapInv
  BY DEF IInv
<1> DEFINE h == PageNo(p.heap_end)
<1>2. /\ p.heap_start = ProgramEnd * PAGE_SIZE /\ p.heap_end = h * PAGE_SIZE /\ h \in ProgramEnd .. Guard
      /\ ~Space[Guard].v /\ HeapPerms(Space)
  BY <1>1 DEF RunInv, Aligned
<1>3. /\ ProgramEnd \in Nat /\ Guard \in Nat /\ h \in Nat /\ USER_HEAP_END = Guard * PAGE_SIZE
      /\ VPage(USER_HEAP_END) = Guard /\ Guard \in UserVPages /\ UserVPages \subseteq Nat
  BY <1>2, UserLayout
<1> HIDE DEF h
<1>4. p.heap_start <= p.heap_end /\ p.heap_end <= USER_HEAP_END
  <2>1. ~(h * PAGE_SIZE < ProgramEnd * PAGE_SIZE) /\ ~(Guard * PAGE_SIZE < h * PAGE_SIZE)
    BY <1>2, <1>3, MultiplesOrder
  <2>2. h * PAGE_SIZE \in Nat /\ ProgramEnd * PAGE_SIZE \in Nat /\ Guard * PAGE_SIZE \in Nat
    BY <1>3, Multiples
  <2> QED
    BY <1>2, <1>3, <2>1, <2>2
<1>5. ~Mapped(VPage(USER_HEAP_END)).v
  BY <1>2, <1>3, UserSpace
<1>6. ASSUME pc = "user", NEW v \in UserVPages, v * PAGE_SIZE >= p.heap_start, v * PAGE_SIZE < USER_HEAP_END,
             Mapped(v).v
      PROVE  (failed \/ v * PAGE_SIZE < p.heap_end) /\ Mapped(v).perm = {"R", "W", "U"}
  <2>1. v \in Nat /\ Space[v].v /\ Mapped(v) = Space[v] /\ v * PAGE_SIZE \in Nat /\ ProgramEnd * PAGE_SIZE \in Nat
    BY <1>3, <1>6, UserSpace, Multiples
  <2>2. ~(v * PAGE_SIZE < ProgramEnd * PAGE_SIZE) /\ v * PAGE_SIZE < Guard * PAGE_SIZE
    BY <1>2, <1>3, <1>6, <2>1
  <2>3. ~(v < ProgramEnd) /\ v < Guard
    BY <1>3, <2>1, <2>2, MultiplesOrder
  <2>4. v \in HeapPages
    BY <1>3, <2>1, <2>3 DEF HeapPages
  <2>5. failed \/ v \in ProgramEnd .. h - 1
    BY <1>1, <1>6, <2>1, <2>4 DEF HeapInv, HeapOnly, h
  <2>6. v \in ProgramEnd .. h - 1 => v * PAGE_SIZE < h * PAGE_SIZE
    BY <1>3, <2>1, MultiplesOrder
  <2> QED
    BY <1>2, <2>1, <2>4, <2>5, <2>6 DEF HeapPerms
<1> QED
  BY <1>4, <1>5, <1>6

------------------------------------------------------------------------------
(* The heap calls do what they report and nothing else.                    *)

\* The end of a range that does not wrap around is the end of its last page.
LEMMA RangeEndCovers ==
    ASSUME NEW addr \in Nat, NEW size \in Nat, ALIGN_UP(addr + size) < Wrap
    PROVE  /\ RangeEnd(addr, size) = ALIGN_UP(addr + size)
           /\ RangeEnd(addr, size) \in Nat /\ Aligned(RangeEnd(addr, size))
           /\ addr + size <= RangeEnd(addr, size) /\ RangeEnd(addr, size) < addr + size + PAGE_SIZE
<1> DEFINE x == addr + size
           y == ALIGN_UP(x)
<1>1. PAGE_SIZE \in Nat \ {0} /\ Wrap \in Nat /\ x \in Nat /\ y < Wrap
  BY Sizes, ArgumentAssumption
<1>2. y \in Nat /\ Aligned(y) /\ x <= y /\ y < x + PAGE_SIZE
  BY <1>1, AlignUpNat
<1> HIDE DEF x, y
<1>3. x % Wrap = x /\ y % Wrap = y
  BY <1>1, <1>2
<1>4. RangeEnd(addr, size) = y
  BY <1>3 DEF RangeEnd, x, y
<1> QED
  BY <1>2, <1>4 DEF x, y

\* ALIGN_UP goes no further than the next multiple.
LEMMA AlignUpLeast ==
    ASSUME NEW x \in Nat, NEW z \in Nat, Aligned(z), x <= z
    PROVE  ALIGN_UP(x) <= z
<1>1. ALIGN_UP(x) \in Nat /\ Aligned(ALIGN_UP(x)) /\ ALIGN_UP(x) < x + PAGE_SIZE /\ PAGE_SIZE \in Nat
  BY AlignUpNat, Sizes
<1>2. z + PAGE_SIZE \in Nat /\ Aligned(z + PAGE_SIZE) /\ PageNo(z + PAGE_SIZE) = PageNo(z) + 1 /\ PageNo(z) \in Nat
  BY NextPage
<1> DEFINE y == ALIGN_UP(x)
<1>3. y \in Nat /\ Aligned(y) /\ y < z + PAGE_SIZE
  BY <1>1
<1> HIDE DEF y
<1>4. PageNo(y) < PageNo(z) + 1 /\ PageNo(y) \in Nat
  BY <1>2, <1>3, PageOrder, NextPage
<1>5. ~(PageNo(z) < PageNo(y))
  BY <1>2, <1>4
<1>6. ~(z < y)
  BY <1>3, <1>5, PageOrder
<1> QED
  BY <1>3, <1>6 DEF y

\* The loop of sys_munmap meets only pages of its range; a range that wraps
\* around ends before it begins.
LEMMA RangeEndExact ==
    ASSUME NEW addr \in Nat, NEW size \in Nat, Aligned(addr), addr < Wrap, size < Wrap,
           NEW a \in Nat, Aligned(a), addr <= a, a < RangeEnd(addr, size)
    PROVE  ALIGN_UP(addr + size) < Wrap /\ a < addr + size
<1> DEFINE x == addr + size
           y == ALIGN_UP(x)
<1>1. PAGE_SIZE \in Nat \ {0} /\ Wrap \in Nat /\ Wrap # 0 /\ x \in Nat
  BY Sizes, ArgumentAssumption
<1>2. y \in Nat /\ Aligned(y) /\ x <= y /\ y < x + PAGE_SIZE
  BY <1>1, AlignUpNat
<1>3. Aligned(Wrap)
  <2>1. Wrap = PAGE_SIZE * (Wrap \div PAGE_SIZE) + (Wrap % PAGE_SIZE) /\ Wrap \div PAGE_SIZE \in Nat
    BY <1>1
  <2>2. Wrap % PAGE_SIZE = 0
    BY ArgumentAssumption
  <2> QED
    BY <1>1, <2>1, <2>2 DEF Aligned, PageNo
<1>4. CASE y < Wrap
  <2>1. a < y
    BY <1>4, RangeEndCovers
  <2>2. PageNo(a) + 1 <= PageNo(y) /\ PageNo(a) \in Nat /\ PageNo(y) \in Nat
    <3> HIDE DEF y
    <3>1. PageNo(a) < PageNo(y) /\ PageNo(a) \in Nat /\ PageNo(y) \in Nat
      BY <1>2, <2>1, PageOrder, NextPage
    <3> QED
      BY <3>1
  <2>3. ~(y < a + PAGE_SIZE)
    <3>1. a + PAGE_SIZE \in Nat /\ Aligned(a + PAGE_SIZE) /\ PageNo(a + PAGE_SIZE) = PageNo(a) + 1
      BY NextPage
    <3> HIDE DEF y
    <3>2. ~(PageNo(y) < PageNo(a + PAGE_SIZE))
      BY <2>2, <3>1
    <3> QED
      BY <1>2, <3>1, <3>2, PageOrder
  <2> HIDE DEF y, x
  <2>4. a < x
    BY <1>1, <1>2, <2>3
  <2> QED
    BY <1>4, <2>4 DEF y, x
<1>5. CASE Wrap <= y /\ x < Wrap
  <2>1. y <= Wrap
    BY <1>1, <1>3, <1>5, AlignUpLeast
  <2> HIDE DEF y, x
  <2>2. x % Wrap = x /\ y = Wrap /\ Wrap % Wrap = 0
    BY <1>1, <1>2, <1>5, <2>1
  <2>3. RangeEnd(addr, size) = 0
    BY <2>2 DEF RangeEnd, x, y
  <2> QED
    BY <2>3
<1>6. CASE Wrap <= x
  <2> DEFINE z == x - Wrap
  <2>1. z \in Nat /\ z < Wrap /\ z <= addr
    BY <1>1, <1>6
  <2>2. x % Wrap = z
    <3>1. z \in 0 .. Wrap - 1 /\ Wrap \in Nat \ {0} /\ 1 * Wrap + z = x
      BY <1>1, <2>1
    <3> HIDE DEF z, x
    <3>2. (1 * Wrap + z) % Wrap = z
      BY <3>1, Quotient
    <3> QED
      BY <3>1, <3>2
  <2> HIDE DEF z
  <2>3. ALIGN_UP(z) <= addr /\ ALIGN_UP(z) \in Nat
    BY <2>1, AlignUpLeast, AlignUpNat
  <2>4. ALIGN_UP(z) % Wrap = ALIGN_UP(z)
    <3> DEFINE w == ALIGN_UP(z)
    <3>1. w \in Nat /\ w < Wrap
      BY <1>1, <2>3
    <3> HIDE DEF w
    <3>2. w % Wrap = w
      BY <1>1, <3>1
    <3> QED
      BY <3>2 DEF w
  <2>5. RangeEnd(addr, size) = ALIGN_UP(z)
    BY <2>2, <2>4 DEF RangeEnd, x
  <2> QED
    BY <2>3, <2>5
<1> QED
  <2> HIDE DEF y, x
  <2> QED
    BY <1>1, <1>2, <1>4, <1>5, <1>6

\* Which call a loop belongs to, and what it has done so far: a growth has
\* mapped every page it has passed, a shrinking has left none mapped.
CallInv ==
    /\ pc = "grow" =>
          /\ call.op = "sbrk" /\ p.heap_end < call.brk /\ PageNo(p.heap_end) <= PageNo(va)
          /\ \A u \in PageNo(p.heap_end) .. PageNo(va) - 1 : Space[u].v
    /\ pc = "shrink" => call.op = "sbrk" /\ Unmapped(Space, PageNo(call.brk), PageNo(va) - 1)
    /\ pc = "munmap" => call.addr < Wrap /\ call.size < Wrap

\* The loops keep it.
LEMMA CallInvLoops ==
    ASSUME IInv, CallInv, GrowPage \/ ShrinkPage \/ UnmapNext
    PROVE  CallInv'
<1>1. /\ pc \in {"grow", "shrink", "munmap"} /\ pc \in Running /\ p' = p
      /\ pc' = pc => va' = va + PAGE_SIZE /\ call' = call
      /\ pc' = pc \/ pc' = "user"
  BY DEF GrowPage, ShrinkPage, UnmapNext, Running, Return
<1> SUFFICES ASSUME pc' = pc
             PROVE  CallInv'
  BY <1>1 DEF CallInv
<1>2. va \in Nat /\ Aligned(va) /\ p.heap_end \in Nat /\ Aligned(p.heap_end) /\ call \in Calls /\ HeapInv
  <2>1. HeapInv /\ va \in Nat /\ p.heap_end \in Nat /\ Aligned(p.heap_end) /\ call \in Calls
    BY <1>1, RunningFacts
  <2> QED
    BY <1>1, <2>1 DEF HeapInv, GrowInv, ShrinkInv, MunmapInv
<1> DEFINE v == PageNo(va)
           h == PageNo(p.heap_end)
           b == PageNo(call.brk)
<1>3. v \in Nat /\ PageNo(va') = v + 1 /\ h \in Nat
  BY <1>1, <1>2, NextPage
<1>4. OnlyPage(v)
  BY GrowPageStep, ShrinkPageStep, UnmapNextStep
<1>5. CASE GrowPage
  <2>1. pc = "grow" /\ Space'[v].v /\ call.op = "sbrk" /\ p.heap_end < call.brk
    <3>1. pc = "grow"
      BY <1>5 DEF GrowPage
    <3> QED
      BY <1>5, <3>1, GrowPageStep DEF CallInv
  <2>2. v \in VPages /\ h <= v
    BY <1>4, <2>1 DEF OnlyPage, CallInv
  <2>3. ASSUME NEW u \in h .. v
        PROVE  Space'[u].v
    <3>1. CASE u = v
      BY <2>1, <3>1
    <3>2. CASE u # v
      <4>1. u \in h .. v - 1 /\ u \in VPages
        BY <1>3, <2>2, <2>3, <3>2, Sizes DEF VPages
      <4>2. Space[u].v
        BY <2>1, <4>1 DEF CallInv
      <4> QED
        BY <1>4, <3>2, <4>1, <4>2 DEF OnlyPage
    <3> QED
      BY <3>1, <3>2
  <2>4. (v + 1) - 1 = v /\ h <= v + 1
    BY <1>3, <2>2
  <2> HIDE DEF v, h
  <2>5. /\ PageNo(p.heap_end)' = h /\ PageNo(va)' = v + 1
    BY <1>1, <1>3 DEF h
  <2> QED
    BY <1>1, <2>1, <2>3, <2>4, <2>5 DEF CallInv
<1>6. CASE ShrinkPage
  <2>1. pc = "shrink" /\ ~Space'[v].v /\ call.op = "sbrk"
    <3>1. pc = "shrink"
      BY <1>6 DEF ShrinkPage
    <3> QED
      BY <1>6, <3>1, ShrinkPageStep DEF CallInv
  <2>2. v \in VPages /\ b \in Nat
    <3>1. ShrinkInv
      BY <1>2, <2>1 DEF HeapInv
    <3>2. call.brk \in Nat /\ Aligned(call.brk)
      BY <1>2, <3>1 DEF Calls, ShrinkInv
    <3> QED
      BY <1>4, <3>2, NextPage DEF OnlyPage
  <2>3. ASSUME NEW u \in b .. v
        PROVE  ~Space'[u].v
    <3>1. CASE u = v
      BY <2>1, <3>1
    <3>2. CASE u # v
      <4>1. u \in b .. v - 1 /\ u \in VPages
        BY <1>3, <2>2, <2>3, <3>2, Sizes DEF VPages
      <4>2. ~Space[u].v
        BY <2>1, <4>1 DEF CallInv, Unmapped
      <4> QED
        BY <1>4, <3>2, <4>1, <4>2 DEF OnlyPage
    <3> QED
      BY <3>1, <3>2
  <2>4. (v + 1) - 1 = v
    BY <1>3
  <2> HIDE DEF v, b
  <2>5. PageNo(call.brk)' = b /\ PageNo(va)' = v + 1
    BY <1>1, <1>3 DEF b
  <2> QED
    BY <1>1, <2>1, <2>3, <2>4, <2>5 DEF CallInv, Unmapped
<1>7. CASE UnmapNext
  <2>1. pc = "munmap"
    BY <1>7 DEF UnmapNext
  <2> QED
    BY <1>1, <2>1 DEF CallInv
<1> QED
  BY <1>5, <1>6, <1>7

\* Every step of the specification keeps it.
LEMMA CallInvStep ==
    ASSUME IInv, CallInv, [Next]_vars
    PROVE  CallInv'
<1>1. CASE UNCHANGED vars
  BY <1>1 DEF vars, CallInv, Space, Mapped, Unmapped
<1>2. CASE CreateProc
  <2>1. pc \in Creating \cup {"queue", "fail1", "shell_init"} /\ p \in ProcRecords(managed)
    BY <1>2 DEF CreateProc, AllocProc, AllocPagetable, AllocKstack, MapProc, MapKstack, LoadPage,
       AllocUstack, CopyKernelPage, MapUart, QueueProc, ShellInit, FreeProc, Creating, IInv, TypeInv
  <2>2. CASE ShellInit
    BY <2>2 DEF ShellInit, CallInv
  <2>3. CASE ~ShellInit
    <3>1. pc # "shell_init" /\ p.state = "UNUSED"
      <4>1. pc # "shell_init"
        BY <1>2, <2>3 DEF CreateProc, AllocProc, AllocPagetable, AllocKstack, MapProc, MapKstack,
           LoadPage, AllocUstack, CopyKernelPage, MapUart, QueueProc, FreeProc
      <4> QED
        BY <2>1, <4>1 DEF IInv, ProcInv
    <3>2. p'.state # "RUNNING"
      BY <1>2, <2>1, <2>3, <3>1 DEF CreateProc, AllocProc, AllocPagetable, AllocKstack, MapProc,
         MapKstack, LoadPage, AllocUstack, CopyKernelPage, MapUart, QueueProc, FreeProc, ProcRecords
    <3>3. pc' \notin Running
      BY <3>2, Inductive DEF IInv, ProcInv
    <3> QED
      BY <3>3 DEF CallInv, Running
  <2> QED
    BY <2>2, <2>3
<1>3. CASE GrowPage \/ ShrinkPage \/ UnmapNext
  BY <1>3, CallInvLoops
<1>4. CASE SbrkDone \/ MunmapDone \/ HeapFault
  BY <1>4 DEF SbrkDone, MunmapDone, HeapFault, Return, CallInv
<1>5. ASSUME NEW size \in SbrkSizes, SysSbrk(size) PROVE CallInv'
  <2>1. SbrkStarts /\ IInv'
    BY <1>5, SysSbrkStep
  <2>2. CASE pc' = "grow"
    <3>1. /\ p' = p /\ call'.op = "sbrk" /\ va' = p.heap_end /\ p.heap_end < call'.brk
          /\ p.heap_end \in Nat /\ Aligned(p.heap_end)
      <4>1. pc = "user" /\ pc \in Running
        BY <1>5 DEF SysSbrk, Running
      <4> QED
        BY <2>1, <2>2, <4>1, RunningFacts DEF SbrkStarts
    <3> DEFINE h == PageNo(p.heap_end)
    <3>2. h \in Nat
      BY <3>1, NextPage
    <3>3. PageNo(va)' = h /\ PageNo(p.heap_end)' = h
      BY <3>1
    <3> HIDE DEF h
    <3>4. h <= h /\ h .. h - 1 = {}
      BY <3>2
    <3> QED
      BY <2>2, <3>1, <3>3, <3>4 DEF CallInv
  <2>3. CASE pc' = "shrink"
    <3>1. call'.op = "sbrk" /\ va' = call'.brk
      BY <2>1, <2>3 DEF SbrkStarts
    <3> DEFINE b == PageNo(call.brk)'
    <3>2. b \in Nat /\ PageNo(va)' = b
      <4>1. ShrinkInv' /\ call' \in Calls
        BY <2>1, <2>3 DEF IInv, HeapInv, TypeInv
      <4>2. call'.brk \in Nat /\ Aligned(call'.brk)
        BY <4>1 DEF Calls, ShrinkInv
      <4> QED
        BY <3>1, <4>2, NextPage
    <3> HIDE DEF b
    <3>3. b .. b - 1 = {}
      BY <3>2
    <3> QED
      BY <2>3, <3>1, <3>2, <3>3 DEF CallInv, Unmapped, b
  <2>4. CASE pc' = "user"
    BY <2>4 DEF CallInv
  <2> QED
    BY <2>1, <2>2, <2>3, <2>4 DEF SbrkStarts
<1>6. ASSUME NEW addr \in UnmapAddrs, NEW size \in UnmapSizes, SysMunmap(addr, size) PROVE CallInv'
  <2>1. addr < Wrap /\ size < Wrap
    <3>1. UserPages \in Nat /\ UserPages >= 3 /\ PAGE_SIZE \in Nat \ {0} /\ Wrap \in Nat
      BY UserLayout, Sizes, ArgumentAssumption
    <3>2. UserPages * PAGE_SIZE \in Nat /\ UserPages * PAGE_SIZE > 0
          /\ 2 * UserPages * PAGE_SIZE = 2 * (UserPages * PAGE_SIZE)
      BY <3>1
    <3> QED
      BY <3>1, <3>2, ArgumentAssumption
  <2>2. pc' = "user" \/ (pc' = "munmap" /\ call'.addr = addr /\ call'.size = size)
    BY <1>6 DEF SysMunmap, Refuse, Return, NoCall
  <2> QED
    BY <2>1, <2>2 DEF CallInv
<1> QED
  BY <1>1, <1>2, <1>3, <1>4, <1>5, <1>6 DEF Next, HeapStep

\* Only the end of the loop returns 0 from sys_munmap.
LEMMA OnlyDoneReturns ==
    ASSUME IInv, [Next]_vars, call.op = "munmap", pc' = "user", ret' = 0, pc' # pc
    PROVE  MunmapDone
<1>1. pc \in {"munmap", "halt"}
  BY DEF IInv, HeapInv
<1>2. ~CreateProc
  BY <1>1 DEF CreateProc, AllocProc, AllocPagetable, AllocKstack, MapProc, MapKstack, LoadPage, AllocUstack,
              CopyKernelPage, MapUart, QueueProc, ShellInit, FreeProc
<1>3. /\ \A size \in SbrkSizes : ~SysSbrk(size)
      /\ \A addr \in UnmapAddrs, size \in UnmapSizes : ~SysMunmap(addr, size)
  BY <1>1 DEF SysSbrk, SysMunmap
<1>4. ~UNCHANGED vars
  BY DEF vars
<1>5. ~GrowPage /\ ~ShrinkPage /\ ~SbrkDone
  BY <1>1 DEF GrowPage, ShrinkPage, SbrkDone
<1>6. ~UnmapNext
  <2> SUFFICES ASSUME UnmapNext PROVE FALSE
    OBVIOUS
  <2>1. pc' = pc \/ ret' = -1
    BY DEF UnmapNext, Return
  <2> QED
    BY <2>1
<1>7. ~HeapFault
  <2> SUFFICES ASSUME HeapFault PROVE FALSE
    OBVIOUS
  <2>1. pc' = "halt" \/ ret' = -1
    BY DEF HeapFault, Return
  <2> QED
    BY <2>1
<1> QED
  BY <1>2, <1>3, <1>4, <1>5, <1>6, <1>7 DEF Next, HeapStep

\* The three statements of HeapCallsExact.
TouchesOnlyCall ==
    p.state = "RUNNING" =>
        \A v \in VPages : Mapped(v)' # Mapped(v) => kernel_mapped /\ InCall(v)
UnmapsAll ==
    call.op = "munmap" /\ pc' = "user" /\ ret' = 0 =>
        \A v \in UserVPages : InCall(v) => ~Mapped(v)'.v
BreakPassesAll ==
    p.state = "RUNNING" /\ p.heap_end' # p.heap_end =>
        \A v \in UserVPages : InCall(v) => (Mapped(v)'.v <=> p.heap_end < p.heap_end')

\* What a step of a running process is.
LEMMA RunningSteps ==
    ASSUME IInv, [Next]_vars, p.state = "RUNNING"
    PROVE  \/ GrowPage \/ ShrinkPage \/ UnmapNext \/ SbrkDone
           \/ mem' = mem /\ p' = p
<1>1. pc \in Running \cup {"halt"}
  BY DEF IInv, ProcInv
<1>2. ~CreateProc
  BY <1>1 DEF Running, CreateProc, AllocProc, AllocPagetable, AllocKstack, MapProc, MapKstack, LoadPage,
              AllocUstack, CopyKernelPage, MapUart, QueueProc, ShellInit, FreeProc
<1>3. CASE UNCHANGED vars
  BY <1>3 DEF vars
<1>4. CASE HeapStep
  BY <1>4 DEF HeapStep, MunmapDone, HeapFault
<1>5. ASSUME NEW size \in SbrkSizes, SysSbrk(size) PROVE mem' = mem /\ p' = p
  BY <1>5 DEF SysSbrk, Refuse
<1>6. ASSUME NEW addr \in UnmapAddrs, NEW size \in UnmapSizes, SysMunmap(addr, size) PROVE mem' = mem /\ p' = p
  BY <1>6 DEF SysMunmap, Refuse
<1> QED
  BY <1>2, <1>3, <1>4, <1>5, <1>6 DEF Next

\* The page of a round of the loops is one the call is about.
LEMMA TouchesStep ==
    ASSUME IInv, CallInv, [Next]_vars
    PROVE  TouchesOnlyCall
<1> SUFFICES ASSUME p.state = "RUNNING", NEW v \in VPages, Mapped(v)' # Mapped(v)
             PROVE  kernel_mapped /\ InCall(v)
  BY DEF TouchesOnlyCall
<1>1. GrowPage \/ ShrinkPage \/ UnmapNext
  <2>1. ASSUME mem' = mem, p'.pagetable = p.pagetable PROVE FALSE
    BY <2>1 DEF Mapped
  <2>2. p \in ProcRecords(managed)
    BY DEF IInv, TypeInv
  <2>3. ~SbrkDone
    BY <2>1, <2>2 DEF SbrkDone, ProcRecords
  <2> QED
    BY <2>1, <2>3, RunningSteps
<1>2. pc \in {"grow", "shrink", "munmap"} /\ pc \in Running /\ va < call.end /\ kernel_mapped
  BY <1>1 DEF GrowPage, ShrinkPage, UnmapNext, Running
<1>3. /\ va \in Nat /\ Aligned(va) /\ call \in Calls /\ HeapInv /\ p.heap_end \in Nat /\ Aligned(p.heap_end)
  <2>1. HeapInv /\ va \in Nat /\ call \in Calls /\ p.heap_end \in Nat /\ Aligned(p.heap_end)
    BY <1>2, RunningFacts
  <2> QED
    BY <1>2, <2>1 DEF HeapInv, GrowInv, ShrinkInv, MunmapInv
<1>4. v = PageNo(va)
  <2>1. OnlyPage(PageNo(va))
    BY <1>1, GrowPageStep, ShrinkPageStep, UnmapNextStep
  <2>2. Space'[v] # Space[v]
    BY DEF Space
  <2> QED
    BY <2>1, <2>2 DEF OnlyPage
<1>5. v * PAGE_SIZE = va
  BY <1>3, <1>4 DEF Aligned
<1>6. PageNo(va) \in Nat /\ PageNo(p.heap_end) \in Nat /\ call.brk \in Nat /\ call.addr \in Nat /\ call.size \in Nat
  BY <1>3, NextPage DEF Calls
<1>7. CASE pc = "grow"
  <2>1. call.op = "sbrk" /\ PageNo(p.heap_end) <= PageNo(va) /\ call.end = call.brk
    BY <1>3, <1>7 DEF CallInv, HeapInv, GrowInv
  <2>2. ~(PageNo(va) < PageNo(p.heap_end))
    BY <1>6, <2>1
  <2>3. p.heap_end <= va
    BY <1>3, <2>2, PageOrder
  <2> QED
    BY <1>2, <1>5, <2>1, <2>3 DEF InCall
<1>8. CASE pc = "shrink"
  <2>1. call.op = "sbrk" /\ call.end = p.heap_end /\ Aligned(call.brk) /\ PageNo(call.brk) <= PageNo(va)
    BY <1>3, <1>8 DEF CallInv, HeapInv, ShrinkInv
  <2>2. ~(PageNo(va) < PageNo(call.brk))
    BY <1>6, <2>1, NextPage
  <2>3. call.brk <= va
    BY <1>3, <1>6, <2>1, <2>2, PageOrder
  <2> QED
    BY <1>2, <1>5, <2>1, <2>3 DEF InCall
<1>9. CASE pc = "munmap"
  <2>1. /\ call.op = "munmap" /\ call.end = RangeEnd(call.addr, call.size) /\ Aligned(call.addr)
        /\ PageNo(call.addr) <= PageNo(va) /\ call.addr < Wrap /\ call.size < Wrap
    BY <1>3, <1>9 DEF CallInv, HeapInv, MunmapInv
  <2>2. ~(PageNo(va) < PageNo(call.addr))
    BY <1>6, <2>1, NextPage
  <2>3. call.addr <= va
    BY <1>3, <1>6, <2>1, <2>2, PageOrder
  <2>4. ALIGN_UP(call.addr + call.size) < Wrap /\ va < call.addr + call.size
    BY <1>2, <1>3, <1>6, <2>1, <2>3, RangeEndExact
  <2> QED
    BY <1>2, <1>5, <2>1, <2>3, <2>4 DEF InCall
<1> QED
  BY <1>2, <1>7, <1>8, <1>9

\* When the loop has reached the end of the range, it has passed every page of it.
LEMMA UnmapsAllStep ==
    ASSUME IInv, [Next]_vars
    PROVE  UnmapsAll
<1> SUFFICES ASSUME call.op = "munmap", pc' = "user", ret' = 0, NEW v \in UserVPages, InCall(v)
             PROVE  ~Mapped(v)'.v
  BY DEF UnmapsAll
<1> DEFINE addr == call.addr
<1>0. /\ ALIGN_UP(addr + call.size) < Wrap
      /\ addr <= v * PAGE_SIZE /\ v * PAGE_SIZE < addr + call.size
  BY DEF InCall
<1>1. pc \in {"munmap", "halt"} /\ pc # pc'
  BY DEF IInv, HeapInv
<1>2. MunmapDone
  BY <1>1, OnlyDoneReturns
<1>3. pc = "munmap" /\ pc \in Running /\ va >= call.end /\ mem' = mem /\ p' = p
  BY <1>2 DEF MunmapDone, Running
<1>4. MunmapInv /\ va \in Nat /\ call \in Calls
  <2>1. HeapInv /\ va \in Nat /\ call \in Calls
    BY <1>3, RunningFacts
  <2> QED
    BY <1>3, <2>1 DEF HeapInv
<1>5. addr \in Nat /\ call.size \in Nat
  BY <1>4 DEF Calls
<1>6. call.end \in Nat /\ Aligned(call.end) /\ addr + call.size <= call.end
  BY <1>0, <1>4, <1>5, RangeEndCovers DEF MunmapInv
<1>7. /\ Aligned(va) /\ Aligned(addr) /\ PageNo(addr) <= PageNo(va)
      /\ Unmapped(Space, PageNo(addr), PageNo(va) - 1)
  BY <1>4 DEF MunmapInv
<1>8. v \in Nat /\ v * PAGE_SIZE \in Nat /\ Aligned(v * PAGE_SIZE) /\ PageNo(v * PAGE_SIZE) = v
  BY UserLayout, Multiples
<1>9. PageNo(addr) \in Nat /\ PageNo(va) \in Nat
  BY <1>4, <1>5, <1>7, NextPage
<1> HIDE DEF addr
<1>10. v < PageNo(va)
  <2>1. v * PAGE_SIZE < va
    BY <1>0, <1>3, <1>4, <1>5, <1>6, <1>8
  <2> QED
    BY <1>4, <1>7, <1>8, <2>1, PageOrder
<1>11. PageNo(addr) <= v
  <2>1. ~(v * PAGE_SIZE < addr)
    BY <1>0, <1>5, <1>8
  <2>2. ~(v < PageNo(addr))
    BY <1>5, <1>7, <1>8, <2>1, PageOrder
  <2> QED
    BY <1>8, <1>9, <2>2
<1>12. v \in PageNo(addr) .. PageNo(va) - 1
  BY <1>8, <1>9, <1>10, <1>11
<1>13. ~Space[v].v
  BY <1>7, <1>12 DEF Unmapped
<1>14. Mapped(v)' = Mapped(v)
  BY <1>3 DEF Mapped
<1> QED
  BY <1>13, <1>14, UserSpace

\* When the break moves, the loop has passed every page in between.
LEMMA BreakPassesStep ==
    ASSUME IInv, CallInv, [Next]_vars
    PROVE  BreakPassesAll
<1> SUFFICES ASSUME p.state = "RUNNING", p.heap_end' # p.heap_end, NEW v \in UserVPages, InCall(v)
             PROVE  Mapped(v)'.v <=> p.heap_end < p.heap_end'
  BY DEF BreakPassesAll
<1>1. SbrkDone
  <2>1. (GrowPage \/ ShrinkPage \/ UnmapNext) => p' = p
    BY DEF GrowPage, ShrinkPage, UnmapNext
  <2> QED
    BY <2>1, RunningSteps
<1>2. /\ pc \in {"grow", "shrink"} /\ pc \in Running /\ va >= call.end /\ mem' = mem
      /\ p' = [p EXCEPT !.heap_end = call.brk]
  BY <1>1 DEF SbrkDone, Running
<1> DEFINE h == PageNo(p.heap_end)
           b == PageNo(call.brk)
           x == v * PAGE_SIZE
<1>3. /\ HeapInv /\ va \in Nat /\ call \in Calls /\ p \in ProcRecords(managed)
      /\ p.heap_end \in Nat /\ Aligned(p.heap_end)
  BY <1>2, RunningFacts
<1>4. p'.heap_end = call.brk /\ p'.pagetable = p.pagetable /\ call.brk \in Nat
  BY <1>2, <1>3 DEF ProcRecords, Calls
<1>5. call.op = "sbrk" /\ Aligned(call.brk) /\ Aligned(va)
  BY <1>2, <1>3 DEF CallInv, HeapInv, GrowInv, ShrinkInv
<1>6. v \in Nat /\ x \in Nat /\ Aligned(x) /\ PageNo(x) = v
  BY UserLayout, Multiples
<1>7. (p.heap_end <= x /\ x < call.brk) \/ (call.brk <= x /\ x < p.heap_end)
  BY <1>5 DEF InCall
<1>8. Mapped(v)' = Space[v]
  <2>1. Mapped(v)' = Mapped(v)
    BY <1>2, <1>4 DEF Mapped
  <2> QED
    BY <2>1, UserSpace
<1>9. h \in Nat /\ b \in Nat /\ PageNo(va) \in Nat
  BY <1>3, <1>4, <1>5, NextPage
<1> HIDE DEF h, b, x
<1>10. /\ x < call.brk <=> v < b
       /\ x < p.heap_end <=> v < h
       /\ va < call.brk <=> PageNo(va) < b
       /\ va < p.heap_end <=> PageNo(va) < h
       /\ p.heap_end < call.brk <=> h < b
  BY <1>3, <1>4, <1>5, <1>6, PageOrder DEF h, b
<1>11. CASE pc = "grow"
  <2>1. /\ p.heap_end < call.brk /\ h <= PageNo(va) /\ call.end = call.brk
        /\ \A u \in h .. PageNo(va) - 1 : Space[u].v
    BY <1>3, <1>11 DEF CallInv, HeapInv, GrowInv, h
  <2>2. ~(va < call.brk)
    BY <1>2, <1>3, <1>4, <2>1
  <2>3. p.heap_end <= x /\ x < call.brk
    BY <1>3, <1>4, <1>6, <1>7, <2>1
  <2>4. ~(x < p.heap_end)
    BY <1>3, <1>6, <2>3
  <2>5. v \in h .. PageNo(va) - 1
    BY <1>6, <1>9, <1>10, <2>2, <2>3, <2>4
  <2> QED
    BY <1>4, <1>8, <2>1, <2>5
<1>12. CASE pc = "shrink"
  <2>1. /\ call.end = p.heap_end /\ b <= PageNo(va) /\ PageNo(va) <= h
        /\ Unmapped(Space, b, PageNo(va) - 1)
    BY <1>3, <1>12 DEF CallInv, HeapInv, ShrinkInv, b, h
  <2>2. ~(va < p.heap_end)
    BY <1>2, <1>3, <2>1
  <2>3. ~(p.heap_end < call.brk)
    BY <1>9, <1>10, <2>1
  <2>4. ~(x < call.brk) /\ x < p.heap_end
    BY <1>3, <1>4, <1>6, <1>7, <2>3
  <2>5. v \in b .. PageNo(va) - 1
    BY <1>6, <1>9, <1>10, <2>2, <2>4
  <2> QED
    BY <1>4, <1>8, <2>1, <2>3, <2>5 DEF Unmapped
<1> QED
  BY <1>2, <1>11, <1>12

------------------------------------------------------------------------------
(* The page table implements AddrMap.                                      *)

\* The address space is a map to entries, and what is not mapped is NoPte.
LEMMA SpaceType ==
    ASSUME IInv
    PROVE  Space \in [VPages -> Ptes]
<1> SUFFICES ASSUME NEW v \in VPages PROVE Space[v] \in Ptes
  BY DEF Space
<1>1. TypeInv /\ TreeInv
  BY DEF IInv
<1>2. CASE p.pagetable = 0
  BY <1>2, EmptyFacts DEF Space, Mapped
<1>3. CASE p.pagetable # 0
  <2> DEFINE r == p.pagetable
             e2 == mem.tab[r][X2(v)]
             e1 == mem.tab[e2.ppn][X1(v)]
  <2>1. /\ mem \in Memory(managed) /\ r \in managed /\ Space[v] = Translation(mem, r, v) /\ TreeOK(managed, mem, r)
    BY <1>1, <1>3, Basics DEF TreeInv
  <2>2. mem.tab \in [managed -> [Idx -> Ptes]]
    BY <2>1, MemoryFacts
  <2>3. X2(v) \in Idx /\ X1(v) \in Idx /\ X0(v) \in Idx
    BY Positions
  <2>4. Translation(mem, r, v) = IF e2.v /\ e1.v THEN mem.tab[e1.ppn][X0(v)] ELSE NoPte
    BY TranslationPath
  <2>5. e2.v => e2.ppn \in T1(mem, r)
    BY <2>3, BelowMember DEF T1
  <2>6. e2.v /\ e1.v => e1.ppn \in T0(mem, r)
    BY <2>3, <2>5, BelowMember DEF T0
  <2>7. e2.v /\ e1.v => e1.ppn \in managed
    BY <2>1, <2>6 DEF TreeOK
  <2> HIDE DEF e1, e2, r
  <2>8. e2.v /\ e1.v => mem.tab[e1.ppn][X0(v)] \in Ptes
    BY <2>2, <2>3, <2>7
  <2> QED
    BY <2>1, <2>4, <2>8, EmptyFacts
<1> QED
  BY <1>2, <1>3

\* A step that changes no translation.
LEMMA SameSpace ==
    ASSUME \A v \in VPages : Space'[v] = Space[v]
    PROVE  OneChange
<1>1. 0 \in VPages
  BY Sizes DEF VPages
<1> QED
  BY <1>1 DEF OneChange

\* A step that leaves the tables alone.
LEMMA SameMemory ==
    ASSUME mem' = mem, p'.pagetable = p.pagetable
    PROVE  OneChange
<1>1. \A v \in VPages : Space'[v] = Space[v]
  BY DEF Space, Mapped
<1> QED
  BY <1>1, SameSpace

\* map_page changes one page.
LEMMA MapChange ==
    ASSUME IInv, p.pagetable # 0, p'.pagetable = p.pagetable,
           NEW v \in VPages, NEW f \in Nat, NEW perm \in Perms, NEW d, NEW m,
           \A u \in VPages : Translation(m, p.pagetable, u) = Translation(mem, p.pagetable, u),
           MapResult(managed, m, p.pagetable, v, Pte(f, perm), d), mem' = d.m
    PROVE  OneChange
<1> DEFINE r == p.pagetable
           e == Pte(f, perm)
<1>1. \A u \in VPages : Space[u] = Translation(mem, r, u) /\ Space'[u] = Translation(mem', r, u)
  BY Basics, BasicsNext DEF IInv
<1>2. /\ \A u \in VPages \ {v} : Space'[u] = Space[u]
      /\ Space'[v] = IF d.st = "ok" /\ ~Space[v].v THEN e ELSE Space[v]
  BY <1>1 DEF MapResult
<1>3. Space'[v] = Space[v] \/ (~Space[v].v /\ \E g \in Nat, q \in Perms : Space'[v] = Pte(g, q))
  BY <1>2
<1> QED
  BY <1>2, <1>3 DEF OneChange

\* map_page in create_proc.
LEMMA MapIntoChange ==
    ASSUME IInv, p.pagetable # 0, p'.pagetable = p.pagetable,
           NEW n \in Nat, NEW f \in Nat, NEW perm \in Perms, mem' = MapInto(mem, n, f, perm).m
    PROVE  OneChange
<1> DEFINE d == MapInto(mem, n, f, perm)
<1>1. managed \in SUBSET Nat /\ mem \in Memory(managed) /\ TreeOK(managed, mem, p.pagetable)
  BY Basics DEF IInv, TreeInv
<1>2. MapResult(managed, mem, p.pagetable, VPage(n), Pte(f, perm), d)
  BY <1>1, MapPage DEF MapInto
<1>3. VPage(n) \in VPages
  BY Levels
<1>4. mem' = d.m
  OBVIOUS
<1> HIDE DEF d
<1> QED
  BY <1>2, <1>3, <1>4, MapChange

\* alloc_page and map_page.
LEMMA AllocMapChange ==
    ASSUME IInv, p.pagetable # 0, p'.pagetable = p.pagetable,
           NEW v \in VPages, NEW perm \in Perms, NEW a, NEW d,
           AllocMapResult(managed, mem, p.pagetable, v, perm, a, d), mem' = d.m
    PROVE  OneChange
<1> DEFINE r == p.pagetable
<1>1. managed \in SUBSET Nat /\ mem \in Memory(managed) /\ TreeOK(managed, mem, r) /\ mem.free \subseteq managed
  BY Basics DEF IInv, TreeInv
<1>2. \A u \in VPages : Space[u] = Translation(mem, r, u) /\ Space'[u] = Translation(mem', r, u)
  BY Basics, BasicsNext DEF IInv
<1>3. ASSUME NEW f \in mem.free
      PROVE  \A u \in VPages : Translation(Taken(mem, f), r, u) = Translation(mem, r, u)
  <2> DEFINE M == managed
             m == mem
  <2>1. M \in SUBSET Nat /\ m \in Memory(M) /\ TreeOK(M, m, r) /\ f \in m.free
    BY <1>1
  <2> HIDE DEF r, M, m
  <2>2. \A u \in VPages : Translation(Taken(m, f), r, u) = Translation(m, r, u)
    BY <2>1, TakeGrows
  <2> QED
    BY <2>2 DEF m
<1>4. CASE d.m = mem
  BY <1>4, SameMemory
<1>5. ASSUME NEW f \in mem.free, d.m = Taken(mem, f)
      PROVE  OneChange
  BY <1>2, <1>3, <1>5, SameSpace
<1>6. ASSUME NEW f \in mem.free, MapResult(managed, Taken(mem, f), r, v, Pte(f, perm), d)
      PROVE  OneChange
  <2>1. f \in Nat
    BY <1>1
  <2> DEFINE m == Taken(mem, f)
  <2>2. MapResult(managed, m, r, v, Pte(f, perm), d) /\ \A u \in VPages : Translation(m, r, u) = Translation(mem, r, u)
    BY <1>3, <1>6
  <2> HIDE DEF m
  <2> QED
    BY <2>1, <2>2, MapChange
<1> QED
  BY <1>4, <1>5, <1>6 DEF AllocMapResult

\* The allocations of create_proc change no translation.
LEMMA AllocChange ==
    ASSUME IInv, AllocProc \/ AllocPagetable \/ AllocKstack
    PROVE  OneChange
<1>1. TypeInv /\ TreeInv /\ ProcInv
  BY DEF IInv
<1>2. /\ managed \in SUBSET Nat /\ mem \in Memory(managed) /\ mem.free \subseteq managed /\ 0 \notin managed
      /\ p \in ProcRecords(managed) /\ partial \in [Classes -> Seq(ObjectsIn(managed))]
  BY <1>1, Basics DEF TypeInv
<1>3. CASE AllocProc
  <2>1. p.pagetable = 0 /\ p'.pagetable = 0
    BY <1>1, <1>2, <1>3 DEF AllocProc, ProcInv, ProcRecords
  <2> QED
    BY <2>1, SameSpace DEF Space, Mapped
<1>4. CASE AllocPagetable
  <2> DEFINE d == alloc_page(mem, KernelReach)
  <2>1. \/ mem.free = {} /\ d = [st |-> "fail", ppn |-> 0, m |-> mem]
        \/ \E f \in mem.free :
              d = [st |-> IF f \in KernelReach THEN "ok" ELSE "fault", ppn |-> f, m |-> Taken(mem, f)]
    BY <1>2, AllocPage
  <2>2. pc = "pagetable" /\ p' = [p EXCEPT !.pagetable = d.ppn] /\ mem' = d.m
    BY <1>4 DEF AllocPagetable, Outcome
  <2> HIDE DEF d
  <2>3. p.pagetable = 0 /\ p'.pagetable = d.ppn
    BY <1>1, <1>2, <2>2 DEF ProcInv, ProcRecords
  <2>4. CASE d.ppn = 0
    BY <2>3, <2>4, SameSpace DEF Space, Mapped
  <2>5. ASSUME NEW f \in mem.free, d.ppn = f, d.m = Taken(mem, f)
        PROVE  OneChange
    <3>1. \A v \in VPages : Translation(mem', f, v) = NoPte
      BY <1>2, <2>2, <2>5, NewRoot
    <3>2. f # 0 /\ p'.pagetable = f
      BY <1>2, <2>3, <2>5
    <3>3. \A v \in VPages : Space'[v] = NoPte
      BY <3>1, <3>2, BasicsNext
    <3>4. \A v \in VPages : Space[v] = NoPte
      BY <2>3 DEF Space, Mapped
    <3> QED
      BY <3>3, <3>4, SameSpace
  <2> QED
    BY <2>1, <2>4, <2>5
<1>5. CASE AllocKstack
  <2> DEFINE d == kmalloc(mem, partial, PAGE_SIZE, KernelReach)
             r == p.pagetable
  <2>1. PAGE_SIZE \in 1 .. PAGE_SIZE
    BY Sizes
  <2>2. KmallocResult(managed, mem, partial, d)
    BY <1>2, <2>1, Kmalloc
  <2>3. pc = "kstack" /\ p' = [p EXCEPT !.kstack = d.obj] /\ mem' = d.m
    BY <1>5 DEF AllocKstack, Outcome
  <2> HIDE DEF d
  <2>4. r # 0 /\ p'.pagetable = r
    BY <1>1, <1>2, <2>3 DEF ProcInv, ProcRecords, HasRoot, Creating
  <2>5. TreeOK(managed, mem, r)
    BY <1>1, <2>4 DEF TreeInv
  <2>6. \A u \in VPages : Space[u] = Translation(mem, r, u) /\ Space'[u] = Translation(mem', r, u)
    BY <1>1, <2>4, Basics, BasicsNext
  <2>7. CASE mem' = mem
    BY <2>4, <2>7, SameMemory
  <2>8. ASSUME NEW f \in mem.free, mem' = Taken(mem, f)
        PROVE  OneChange
    <3>1. \A u \in VPages : Translation(mem', r, u) = Translation(mem, r, u)
      <4> HIDE DEF r
      <4> QED
        BY <1>2, <2>5, <2>8, TakeGrows
    <3> QED
      BY <2>6, <3>1, SameSpace
  <2>9. mem' = mem \/ \E f \in mem.free : mem' = Taken(mem, f)
    BY <2>2, <2>3 DEF KmallocResult
  <2> QED
    BY <2>7, <2>8, <2>9
<1> QED
  BY <1>3, <1>4, <1>5

\* The mappings of create_proc change one page each.
LEMMA CreateChange ==
    ASSUME IInv, MapProc \/ MapKstack \/ LoadPage \/ AllocUstack \/ CopyKernelPage \/ MapUart
    PROVE  OneChange
<1>1. TypeInv /\ ProcInv /\ va \in Nat
  BY DEF IInv, TypeInv
<1>2. pc \in HasRoot \ {"kstack"}
  BY DEF MapProc, MapKstack, LoadPage, AllocUstack, CopyKernelPage, MapUart, HasRoot, Creating
<1>3. /\ p.pagetable # 0 /\ p.obj # NoObj /\ p.kstack # NoObj /\ p \in ProcRecords(managed)
      /\ p.obj \in ObjectsIn(managed) \cup {NoObj} /\ p.kstack \in ObjectsIn(managed) \cup {NoObj}
  BY <1>1, <1>2 DEF ProcInv, TypeInv, ProcRecords, HasRoot, Creating
<1>4. /\ p.obj.ppn \in Nat /\ VirtAddr(p.obj) \in Nat /\ p.kstack.ppn \in Nat /\ VirtAddr(p.kstack) \in Nat
  BY <1>1, <1>3, ObjectLayout
<1>5. {"R", "W"} \in Perms /\ {"R", "X", "U"} \in Perms /\ {"R", "W", "U"} \in Perms
  BY DEF Perms
<1>6. CASE MapProc
  <2>1. mem' = MapInto(mem, VirtAddr(p.obj), p.obj.ppn, {"R", "W"}).m /\ p'.pagetable = p.pagetable
    BY <1>6 DEF MapProc, Outcome
  <2> QED
    BY <1>3, <1>4, <1>5, <2>1, MapIntoChange
<1>7. CASE MapKstack
  <2>1. mem' = MapInto(mem, VirtAddr(p.kstack), p.kstack.ppn, {"R", "W"}).m /\ p'.pagetable = p.pagetable
    BY <1>7 DEF MapKstack, Outcome
  <2> QED
    BY <1>3, <1>4, <1>5, <2>1, MapIntoChange
<1>8. ASSUME NEW n \in Nat, NEW perm \in Perms, mem' = AllocAndMap(n, perm).m, p'.pagetable = p.pagetable
      PROVE  OneChange
  <2> DEFINE d == AllocAndMap(n, perm)
             a == alloc_page(mem, KernelReach)
  <2>1. AllocMapResult(managed, mem, p.pagetable, VPage(n), perm, a, d) /\ mem' = d.m
    BY <1>3, <1>8, AllocAndMapResult
  <2>2. VPage(n) \in VPages
    BY Levels
  <2> HIDE DEF d, a
  <2> QED
    BY <1>3, <1>8, <2>1, <2>2, AllocMapChange
<1>9. CASE LoadPage
  <2>1. mem' = AllocAndMap(va, {"R", "X", "U"}).m /\ p'.pagetable = p.pagetable
    BY <1>9 DEF LoadPage, Outcome
  <2> QED
    BY <1>1, <1>5, <1>8, <2>1
<1>10. CASE AllocUstack
  <2> DEFINE x == alloc_page(mem, KernelReach).ppn
  <2>1. /\ mem' = AllocAndMap(USER_STACK_BASE, {"R", "W", "U"}).m
        /\ p' = [p EXCEPT !.heap_start = ALIGN_UP(va), !.heap_end = ALIGN_UP(va), !.ustack = x]
    BY <1>10 DEF AllocUstack, Outcome
  <2> HIDE DEF x
  <2>2. p'.pagetable = p.pagetable
    BY <1>3, <2>1 DEF ProcRecords
  <2>3. USER_STACK_BASE \in Nat
    BY UserLayout
  <2> QED
    BY <1>5, <1>8, <2>1, <2>2, <2>3
<1>11. CASE CopyKernelPage
  <2>1. PICK k \in ImagePages :
            Outcome(Tolerated(MapInto(mem, va, ImagePpn + k, ImagePerm[k])),
                    IF k + 1 \in ImagePages THEN "kernel" ELSE "uart")
    BY <1>11 DEF CopyKernelPage
  <2> DEFINE d == MapInto(mem, va, ImagePpn + k, ImagePerm[k])
  <2>2. ImagePpn + k \in Nat /\ ImagePerm[k] \in Perms
    BY ImageFacts
  <2>3. d.st \in Results /\ IsResult(d)
    BY <1>1, <1>3, <2>2, ResultsOf
  <2>4. mem' = d.m
    BY <2>1, <2>3, Tolerance DEF Outcome
  <2>5. p'.pagetable = p.pagetable
    BY <1>11 DEF CopyKernelPage
  <2> QED
    BY <1>1, <1>3, <2>2, <2>4, <2>5, MapIntoChange
<1>12. CASE MapUart
  <2> DEFINE d == MapInto(mem, UART0, UartPpn, {"R", "W"})
  <2>1. Outcome(UartFailure(d), "queue") /\ p'.pagetable = p.pagetable
    BY <1>12 DEF MapUart
  <2>2. UartPpn \in Nat /\ UART0 \in Nat
    BY UartPage
  <2>3. d.st \in Results /\ IsResult(d)
    BY <1>3, <1>5, <2>2, ResultsOf
  <2>4. mem' = d.m
    BY <2>1, <2>3, Tolerance DEF Outcome
  <2> QED
    BY <1>3, <1>5, <2>1, <2>2, <2>4, MapIntoChange
<1> QED
  BY <1>6, <1>7, <1>9, <1>10, <1>11, <1>12

\* So does a growth.
LEMMA HeapChange ==
    ASSUME IInv, GrowPage
    PROVE  OneChange
<1> DEFINE perm == {"R", "W", "U"}
           a == alloc_page(mem, managed)
           d == IF a.st = "ok" THEN map_page(a.m, p.pagetable, va, a.ppn, perm, managed) ELSE a
<1>1. pc \in Running /\ mem' = d.m /\ p' = p
  BY DEF GrowPage, Running
<1>2. managed \in SUBSET Nat /\ mem \in Memory(managed) /\ TreeOK(managed, mem, p.pagetable) /\ va \in Nat /\ p.pagetable # 0
  BY <1>1, RunningFacts, Basics DEF TreeInv
<1>3. perm \in Perms /\ VPage(va) \in VPages
  BY <1>2, Levels DEF Perms
<1>4. AllocMapResult(managed, mem, p.pagetable, VPage(va), perm, a, d)
  BY <1>2, <1>3, AllocMap
<1> HIDE DEF a, d, perm
<1> QED
  BY <1>1, <1>2, <1>3, <1>4, AllocMapChange

\* A change of one page is a step of AddrMap.
LEMMA Refines ==
    ASSUME IInv, OneChange
    PROVE  [A!Next]_Space
<1>1. PICK v \in VPages :
          /\ \A u \in VPages \ {v} : Space'[u] = Space[u]
          /\ \/ Space'[v] = Space[v]
             \/ ~Space[v].v /\ \E f \in Nat, perm \in Perms : Space'[v] = Pte(f, perm)
             \/ Space[v].v /\ Space'[v] = NoPte
  BY DEF OneChange
<1>2. Space \in [VPages -> Ptes] /\ Space' = [u \in VPages |-> Space'[u]] /\ Space = [u \in VPages |-> Space[u]]
  BY SpaceType DEF Space
<1>3. Space' = [Space EXCEPT ![v] = Space'[v]]
  BY <1>1, <1>2
<1>4. CASE Space'[v] = Space[v]
  BY <1>2, <1>3, <1>4
<1>5. CASE ~Space[v].v /\ \E f \in Nat, perm \in Perms : Space'[v] = Pte(f, perm)
  <2>1. Space[v] = NoPte
    BY <1>2, <1>5 DEF Ptes
  <2>2. Space'[v] \in [v : {TRUE}, ppn : Nat, perm : SUBSET {"R", "W", "X", "U"}]
    BY <1>5 DEF Pte, Perms
  <2>3. A!Map(v)
    BY <1>3, <2>1, <2>2 DEF A!Map, Space
  <2> QED
    BY <2>3 DEF A!Next
<1>6. CASE Space[v].v /\ Space'[v] = NoPte
  <2>1. Space[v] # NoPte
    BY <1>6, EmptyFacts
  <2>2. A!Unmap(v)
    BY <1>3, <1>6, <2>1 DEF A!Unmap, Space
  <2> QED
    BY <2>2 DEF A!Next
<1> QED
  BY <1>1, <1>4, <1>5, <1>6

\* Every step changes one page at most.
LEMMA EveryChange ==
    ASSUME IInv, [Next]_vars
    PROVE  OneChange
<1>1. CASE UNCHANGED vars
  BY <1>1, SameMemory DEF vars
<1>2. CASE AllocProc \/ AllocPagetable \/ AllocKstack
  BY <1>2, AllocChange
<1>3. CASE MapProc \/ MapKstack \/ LoadPage \/ AllocUstack \/ CopyKernelPage \/ MapUart
  BY <1>3, CreateChange
<1>4. p \in ProcRecords(managed)
  BY DEF IInv, TypeInv
<1>5. CASE QueueProc \/ ShellInit \/ SbrkDone
  <2>1. mem' = mem /\ p'.pagetable = p.pagetable
    BY <1>4, <1>5 DEF QueueProc, ShellInit, SbrkDone, ProcRecords
  <2> QED
    BY <2>1, SameMemory
<1>6. CASE FreeProc \/ MunmapDone \/ HeapFault
  <2>1. mem' = mem /\ p' = p
    BY <1>6 DEF FreeProc, free_pagetable, MunmapDone, HeapFault
  <2> QED
    BY <2>1, SameMemory
<1>7. CASE GrowPage
  BY <1>7, HeapChange
<1>8. CASE ShrinkPage \/ UnmapNext
  BY <1>8, ShrinkPageStep, UnmapNextStep
<1>9. ASSUME NEW size \in SbrkSizes, SysSbrk(size) PROVE OneChange
  <2>1. mem' = mem /\ p' = p
    BY <1>9 DEF SysSbrk, Refuse
  <2> QED
    BY <2>1, SameMemory
<1>10. ASSUME NEW addr \in UnmapAddrs, NEW size \in UnmapSizes, SysMunmap(addr, size) PROVE OneChange
  <2>1. mem' = mem /\ p' = p
    BY <1>10 DEF SysMunmap, Refuse
  <2> QED
    BY <2>1, SameMemory
<1> QED
  BY <1>1, <1>2, <1>3, <1>5, <1>6, <1>7, <1>8, <1>9, <1>10 DEF Next, CreateProc, HeapStep

------------------------------------------------------------------------------
(* The theorems.                                                           *)

\* The inductive invariant: pages and their uses, the shape of the page
\* table, what create_proc has mapped by each of its steps, and where the
\* loops of sys_sbrk and sys_munmap are.
THEOREM Invariant == Spec => []IInv
<1>1. Init => IInv
  BY InitIInv
<1>2. IInv /\ [Next]_vars => IInv'
  BY Inductive
<1> QED
  BY <1>1, <1>2, PTL DEF Spec

\* No page has two uses, for any memory, layout and sizes that satisfy the
\* assumptions: not after a failure half-way through create_proc or sys_sbrk,
\* and not after sys_munmap of pages in the middle of the heap; no page is
\* lost as long as no allocation has failed.
THEOREM PagesHaveOneUse == Spec => []OneUse
BY Invariant, IInvOneUse, PTL

\* create_proc queues a process only when everything it needs to run is
\* mapped, although copy_kernel_mappings ignores failures of map_page: a
\* failure leaves no free page, so that mapping the UART, under an entry of the
\* root of its own, cannot succeed.
THEOREM QueuedProcessIsComplete == Spec => []Complete
BY Invariant, IInvComplete, PTL

\* sys_sbrk keeps the break inside the heap, below the guard page, and what is
\* mapped agrees with it between calls.
THEOREM BreakMatchesHeap == Spec => []HeapMatchesBreak
BY Invariant, IInvHeap, PTL

\* sys_sbrk and sys_munmap change only translations of the pages they are
\* called for, and none at all on the page table that copy_kernel_mappings
\* makes.  sys_munmap returns 0 with its range unmapped, or untouched if it wraps
\* around; the break moves only when every page it passes is mapped or unmapped.
THEOREM HeapCallsAreExact == Spec => HeapCallsExact
<1>1. Init => CallInv
  BY DEF Init, CallInv
<1>2. IInv /\ CallInv /\ [Next]_vars => CallInv'
  BY CallInvStep
<1>3. IInv /\ CallInv /\ [Next]_vars => [TouchesOnlyCall /\ UnmapsAll /\ BreakPassesAll]_vars
  BY TouchesStep, UnmapsAllStep, BreakPassesStep
<1>4. HeapCallsExact <=> [][TouchesOnlyCall /\ UnmapsAll /\ BreakPassesAll]_vars
  BY PTL DEF HeapCallsExact, TouchesOnlyCall, UnmapsAll, BreakPassesAll
<1> QED
  BY <1>1, <1>2, <1>3, <1>4, Invariant, PTL DEF Spec

\* Every step of create_proc, sys_sbrk and sys_munmap maps one page that was
\* not mapped, unmaps one page, or leaves the address space as it is.
THEOREM PageTableImplementsAddrMap == Spec => ImplementsAddrMap
<1>1. Init => A!Init
  <2> SUFFICES ASSUME Init PROVE A!Init
    OBVIOUS
  <2>1. p.pagetable = 0
    BY DEF Init, NewProc
  <2> QED
    BY <2>1 DEF A!Init, Mapped
<1>2. IInv /\ [Next]_vars => [A!Next]_Space
  BY EveryChange, Refines
<1>3. [A!Next]_Space <=> [A!Next]_([v \in VPages |-> Mapped(v)])
  BY DEF Space
<1>4. ImplementsAddrMap <=> A!Init /\ [][A!Next]_([v \in VPages |-> Mapped(v)])
  BY DEF ImplementsAddrMap, A!Spec
<1> QED
  BY <1>1, <1>2, <1>3, <1>4, Invariant, PTL DEF Spec
==============================================================================
