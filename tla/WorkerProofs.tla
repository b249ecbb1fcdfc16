---------------------------- MODULE WorkerProofs ----------------------------
(***************************************************************************)
(* Proofs about the worker for every set of requests, every delay and      *)
(* every limit: the shape of its state, that no repetition is lost or sent *)
(* twice on its way through the heap, and what a broadcast message says.   *)
(* The first half is about the heap operators alone: whatever the order of *)
(* the keys, insert and extract only move the jobs to other slots.         *)
(***************************************************************************)
EXTENDS Worker, TLAPS, FiniteSetTheorems, FunctionTheorems, SequenceTheorems,
        WellFoundedInduction

-----------------------------------------------------------------------------
(* Every non-empty set of numbers has a least one: induction over the slots *)
(* of the heap is done by looking at the first slot that fails.             *)
LEMMA LeastNumber ==
  ASSUME NEW T \in SUBSET Nat, T # {}
  PROVE  \E m \in T : \A k \in T : m <= k
<1>1. PICK m \in T : \A k \in T : ~ (<<k, m>> \in OpToRel(<, Nat))
  BY NatLessThanWellFounded, WFMin, Zenon
<1>2. \A k \in T : ~ (k < m)
  BY <1>1, Zenon DEF OpToRel
<1>3. QED
  BY <1>2

(* parent is above its child, and a slot has at most two children. *)
LEMMA ParentAbove ==
  ASSUME NEW i \in Nat, i > 0
  PROVE  /\ Heap!parent(i) \in Nat /\ Heap!parent(i) < i
         /\ 2 * Heap!parent(i) + 1 <= i /\ i <= 2 * Heap!parent(i) + 2
BY DEF Heap!parent

(* The set the climb from i to the root visits, without recursion: the      *)
(* least set with i that is closed under parent.                            *)
Closed(S) == \A b \in S : b # 0 => Heap!parent(b) \in S

Above(i) == {a \in 0 .. i : \A S \in SUBSET Nat : i \in S /\ Closed(S) => a \in S}

(* It satisfies the equation that defines Ancestors. *)
LEMMA AboveStep ==
  ASSUME NEW i \in Nat, i # 0
  PROVE  Above(i) = {i} \cup Above(Heap!parent(i))
<1> DEFINE p == Heap!parent(i)
<1>1. p \in Nat /\ p < i
  BY ParentAbove
<1>2. i \in Above(i)
  BY DEF Above
<1>3. ASSUME NEW a \in Above(p) PROVE a \in Above(i)
  <2>1. a \in 0 .. i
    BY <1>1 DEF Above
  <2>2. ASSUME NEW S \in SUBSET Nat, i \in S, Closed(S) PROVE a \in S
    <3>1. p \in S
      BY <2>2 DEF Closed
    <3>2. QED
      BY <3>1, <2>2 DEF Above
  <2>3. QED
    BY <2>1, <2>2 DEF Above
<1>4. ASSUME NEW a \in Above(i), a # i PROVE a \in Above(p)
  <2>1. a \in 0 .. p
    <3> DEFINE S == {i} \cup (0 .. p)
    <3>1. Closed(S)
      <4>1. ASSUME NEW b \in S, b # 0 PROVE Heap!parent(b) \in S
        <5>1. CASE b = i
          BY <5>1, <1>1
        <5>2. CASE b \in 0 .. p
          BY <5>2, <4>1, <1>1, ParentAbove
        <5>3. QED
          BY <5>1, <5>2
      <4>2. QED
        BY <4>1 DEF Closed
    <3>2. S \in SUBSET Nat /\ i \in S
      BY <1>1
    <3>3. a \in S
      BY <3>1, <3>2 DEF Above
    <3>4. QED
      BY <3>3, <1>4
  <2>2. ASSUME NEW S \in SUBSET Nat, p \in S, Closed(S) PROVE a \in S
    <3>1. Closed(S \cup {i})
      BY <2>2 DEF Closed
    <3>2. a \in S \cup {i}
      BY <3>1 DEF Above
    <3>3. QED
      BY <3>2, <1>4
  <2>3. QED
    BY <2>1, <2>2, <1>1 DEF Above
<1>5. QED
  BY <1>2, <1>3, <1>4

(* The root has only itself above it. *)
LEMMA AboveRoot == Above(0) = {0}
BY DEF Above

(* Hence the recursive function is well defined, slot by slot. *)
LEMMA AncestorsStep ==
  /\ Heap!Ancestors[0] = {0}
  /\ \A i \in Nat : i # 0 =>
       Heap!Ancestors[i] = {i} \cup Heap!Ancestors[Heap!parent(i)]
<1> DEFINE h == [i \in Nat |-> Above(i)]
<1> DEFINE Rec(g) == [i \in Nat |-> IF i = 0 THEN {0} ELSE {i} \cup g[Heap!parent(i)]]
<1>1. h = Rec(h)
  <2>1. ASSUME NEW i \in Nat, i # 0 PROVE h[i] = {i} \cup h[Heap!parent(i)]
    <3>1. Heap!parent(i) \in Nat
      BY <2>1, ParentAbove
    <3>2. QED
      BY <2>1, <3>1, AboveStep
  <2>2. h[0] = {0}
    BY AboveRoot
  <2>3. QED
    BY <2>1, <2>2
<1>2. \E g : g = Rec(g)
  BY <1>1
<1>3. Heap!Ancestors = Rec(Heap!Ancestors)
  BY <1>2 DEF Heap!Ancestors
<1>4. QED
  BY <1>3

(* A climb is one chain: it goes from i to the root, every slot on it but   *)
(* the first has a child on it, and no level is visited twice.              *)
Chain(i) ==
  LET A == Heap!Ancestors[i]
  IN  /\ A \subseteq 0 .. i /\ i \in A /\ 0 \in A
      /\ \A a \in A : a # 0 => Heap!parent(a) \in A
      /\ \A a \in A : a # i => \E b \in A : b > 0 /\ Heap!parent(b) = a
      /\ \A a, b \in A : a < b => 2 * a + 1 <= b

(* One level further down a chain stays a chain. *)
LEMMA ChainStep ==
  ASSUME NEW i \in Nat, i # 0, Chain(Heap!parent(i))
  PROVE  Chain(i)
<1> DEFINE p == Heap!parent(i)
           A == Heap!Ancestors[p]
           B == Heap!Ancestors[i]
<1>1. p \in Nat /\ p < i /\ 2 * p + 1 <= i
  BY ParentAbove
<1>2. B = {i} \cup A
  BY AncestorsStep
<1>3. /\ A \subseteq 0 .. p /\ p \in A /\ 0 \in A
      /\ \A a \in A : a # 0 => Heap!parent(a) \in A
      /\ \A a \in A : a # p => \E b \in A : b > 0 /\ Heap!parent(b) = a
      /\ \A a, b \in A : a < b => 2 * a + 1 <= b
  BY DEF Chain
<1> HIDE DEF A, B, p
<1>4. B \subseteq 0 .. i /\ i \in B /\ 0 \in B
  BY <1>1, <1>2, <1>3
<1>5. \A a \in B : a # 0 => Heap!parent(a) \in B
  BY <1>2, <1>3 DEF p
<1>6. \A a \in B : a # i => \E b \in B : b > 0 /\ Heap!parent(b) = a
  <2>1. SUFFICES ASSUME NEW a \in B, a # i PROVE \E b \in B : b > 0 /\ Heap!parent(b) = a
    OBVIOUS
  <2>2. CASE a = p
    BY <2>2, <1>4 DEF p
  <2>3. CASE a # p
    BY <2>1, <2>3, <1>2, <1>3
  <2>4. QED
    BY <2>2, <2>3
<1>7. \A a, b \in B : a < b => 2 * a + 1 <= b
  <2>1. SUFFICES ASSUME NEW a \in B, NEW b \in B, a < b PROVE 2 * a + 1 <= b
    OBVIOUS
  <2>2. CASE a = i
    BY <2>1, <2>2, <1>4
  <2>3. CASE a \in A /\ b = i
    BY <2>3, <1>1, <1>3
  <2>4. CASE a \in A /\ b \in A
    BY <2>1, <2>4, <1>3
  <2>5. QED
    BY <2>2, <2>3, <2>4, <1>2
<1>8. QED
  BY <1>4, <1>5, <1>6, <1>7 DEF Chain, B

(* So every climb is one: the first slot with another climb would not be    *)
(* the root, and its parent comes before it.                                *)
LEMMA AncestorsChain ==
  ASSUME NEW i \in Nat
  PROVE  Chain(i)
<1>1. Chain(0)
  BY AncestorsStep DEF Chain
<1> DEFINE Bad == {k \in Nat : ~ Chain(k)}
<1>2. CASE Bad = {}
  BY <1>2
<1>3. CASE Bad # {}
  <2>1. PICK m \in Bad : \A k \in Bad : m <= k
    BY <1>3, LeastNumber
  <2>2. m \in Nat /\ m # 0
    BY <1>1
  <2>3. Heap!parent(m) \in Nat /\ Heap!parent(m) < m
    BY <2>2, ParentAbove
  <2>4. Chain(Heap!parent(m))
    BY <2>1, <2>2, <2>3
  <2>5. Chain(m)
    BY <2>2, <2>4, ChainStep
  <2>6. QED
    BY <2>5
<1>4. QED
  BY <1>2, <1>3

-----------------------------------------------------------------------------
(* A one-to-one renumbering of slots keeps the number of slots with a given *)
(* property, here that of holding a job of request r.                       *)
OneToOne(g, S, T) ==
  /\ g \in [S -> T]
  /\ \A x, y \in S : g[x] = g[y] => x = y
  /\ \A t \in T : \E x \in S : g[x] = t

LEMMA SameCount ==
  ASSUME NEW S, NEW T, IsFiniteSet(S), NEW g, OneToOne(g, S, T)
  PROVE  IsFiniteSet(T) /\ Cardinality(T) = Cardinality(S)
<1>1. g \in Bijection(S, T)
  BY DEF OneToOne, Bijection, Injection, Surjection, IsInjective
<1>2. ExistsBijection(S, T)
  BY <1>1 DEF ExistsBijection
<1>3. QED
  BY <1>2, FS_Bijection
(* Size counts the slots. *)
LEMMA SizeIsCardinality ==
  ASSUME NEW q
  PROVE  Heap!Size(q) = Cardinality(DOMAIN q)
BY DEF Heap!Size, Heap!Cardinality, Cardinality, Heap!IsFiniteSet, IsFiniteSet

(* The slots whose content moves in PriorityQueue_insertInternal: the lower *)
(* end of the climb from the slot n behind the live part.                   *)
LowerEnd(P, n) ==
  /\ P \subseteq Heap!Ancestors[n] /\ n \in P
  /\ \A a \in P, b \in Heap!Ancestors[n] : a <= b => b \in P

(* Where the content of slot i of the result comes from, n being the slot   *)
(* of the new job.                                                          *)
Shifted(P, n) ==
  [i \in 0 .. n |-> IF i \notin P THEN i
                    ELSE IF i > 0 /\ Heap!parent(i) \in P THEN Heap!parent(i) ELSE n]

(* On the climb, every slot but the highest gets its parent's content. *)
LEMMA TopOfClimb ==
  ASSUME NEW n \in Nat, NEW P, LowerEnd(P, n), NEW i \in P, NEW j \in P, i < j
  PROVE  j > 0 /\ Heap!parent(j) \in P
<1>1. Chain(n)
  BY AncestorsChain
<1>2. i \in Heap!Ancestors[n] /\ j \in Heap!Ancestors[n]
  BY DEF LowerEnd
<1>3. i \in Nat /\ j \in Nat /\ 2 * i + 1 <= j
  BY <1>1, <1>2 DEF Chain
<1>4. i <= Heap!parent(j)
  BY <1>3, ParentAbove
<1>5. Heap!parent(j) \in Heap!Ancestors[n]
  BY <1>1, <1>2, <1>3 DEF Chain
<1>6. QED
  BY <1>3, <1>4, <1>5 DEF LowerEnd

(* The climb moves the contents of the slots and neither drops nor doubles  *)
(* one.                                                                     *)
LEMMA ShiftedOneToOne ==
  ASSUME NEW n \in Nat, NEW P, LowerEnd(P, n)
  PROVE  OneToOne(Shifted(P, n), 0 .. n, 0 .. n)
<1> DEFINE g == Shifted(P, n)
           Up(i) == i > 0 /\ Heap!parent(i) \in P
<1>1. Chain(n)
  BY AncestorsChain
<1>2. P \subseteq 0 .. n /\ n \in P
  BY <1>1 DEF Chain, LowerEnd
<1>3. /\ \A i \in 0 .. n : i \notin P => g[i] = i
      /\ \A i \in P : Up(i) => g[i] = Heap!parent(i)
      /\ \A i \in P : ~ Up(i) => g[i] = n
  BY <1>2 DEF Shifted
<1>4. g \in [0 .. n -> 0 .. n]
  BY <1>2, ParentAbove DEF Shifted
<1> HIDE DEF g
<1>5. ASSUME NEW x \in 0 .. n, NEW y \in 0 .. n, g[x] = g[y], x < y PROVE FALSE
  <2>1. CASE x \notin P \/ y \notin P
    BY <2>1, <1>5, <1>2, <1>3
  <2>2. CASE x \in P /\ y \in P
    <3>1. Up(y) /\ g[y] = Heap!parent(y) /\ g[y] < y
      BY <2>2, <1>3, <1>5, TopOfClimb, ParentAbove
    <3>2. Up(x) /\ g[x] = Heap!parent(x)
      BY <2>2, <3>1, <1>3, <1>5
    <3>3. x \in Heap!Ancestors[n] /\ y \in Heap!Ancestors[n]
      BY <2>2 DEF LowerEnd
    <3>4. 2 * x + 1 <= y
      BY <3>3, <1>1, <1>5 DEF Chain
    <3>5. x \in Nat /\ x > 0 /\ y \in Nat /\ y > 0
      BY <3>1, <3>2
    <3>6. /\ Heap!parent(x) \in Nat /\ 2 * Heap!parent(x) + 1 <= x
          /\ Heap!parent(y) \in Nat /\ y <= 2 * Heap!parent(y) + 2
      BY <3>5, ParentAbove
    <3>7. QED
      BY <3>1, <3>2, <3>4, <3>5, <3>6, <1>5
  <2>3. QED
    BY <2>1, <2>2
<1>6. \A x, y \in 0 .. n : g[x] = g[y] => x = y
  BY <1>5
<1>7. ASSUME NEW t \in 0 .. n PROVE \E x \in 0 .. n : g[x] = t
  <2>1. CASE t \notin P
    BY <2>1, <1>3
  <2>2. CASE t \in P /\ t # n
    <3>1. t \in Heap!Ancestors[n]
      BY <2>2 DEF LowerEnd
    <3>2. PICK b \in Heap!Ancestors[n] : b > 0 /\ Heap!parent(b) = t
      BY <3>1, <2>2, <1>1 DEF Chain
    <3>3. b \in Nat /\ t <= b
      BY <3>2, <1>1, ParentAbove DEF Chain
    <3>4. b \in P
      BY <3>2, <3>3, <2>2 DEF LowerEnd
    <3>5. QED
      BY <3>2, <3>4, <2>2, <1>2, <1>3
  <2>3. CASE t = n
    <3>1. PICK m \in P : \A k \in P : m <= k
      BY <1>2, LeastNumber
    <3>2. ~ Up(m)
      BY <3>1, <1>2, ParentAbove
    <3>3. QED
      BY <3>1, <3>2, <2>3, <1>2, <1>3
  <2>4. QED
    BY <2>1, <2>2, <2>3
<1>8. QED
  BY <1>4, <1>6, <1>7 DEF OneToOne, g

(* PriorityQueue_insert: the queue afterwards is the queue before and the   *)
(* new job, each in exactly one slot.                                       *)
Inserted(s, q, key, n, g) ==
  /\ OneToOne(g, 0 .. n, 0 .. n)
  /\ \A i \in 0 .. n : s[i] = IF g[i] = n THEN key ELSE q[g[i]]

LEMMA InsertMoves ==
  ASSUME NEW n \in Nat, NEW q, DOMAIN q = 0 .. n - 1, NEW key
  PROVE  /\ DOMAIN Heap!insert(q, key) = 0 .. n
         /\ \E g : Inserted(Heap!insert(q, key), q, key, n, g)
<1> DEFINE A == Heap!Ancestors[n]
           P == {a \in A : \A b \in A : a <= b /\ b < n => Key(q[b]) < Key(key)}
           g == Shifted(P, n)
           s == [i \in 0 .. n |->
                   IF i \notin P THEN q[i]
                   ELSE IF i > 0 /\ Heap!parent(i) \in P THEN q[Heap!parent(i)] ELSE key]
<1>1. Heap!Size(q) = n
  BY SizeIsCardinality, FS_Interval
<1>2. Heap!insert(q, key) = s
  BY <1>1 DEF Heap!insert
<1>3. Chain(n)
  BY AncestorsChain
<1>4. A \subseteq 0 .. n /\ n \in A
  BY <1>3 DEF Chain
<1> HIDE DEF A
<1>5. LowerEnd(P, n)
  <2>1. P \subseteq A /\ n \in P
    BY <1>4
  <2>2. ASSUME NEW a \in P, NEW b \in A, a <= b PROVE b \in P
    BY <2>2, <1>4
  <2>3. QED
    BY <2>1, <2>2 DEF LowerEnd, A
<1>6. OneToOne(g, 0 .. n, 0 .. n)
  BY <1>5, ShiftedOneToOne
<1>7. P \subseteq 0 .. n /\ n \in P
  BY <1>4, <1>5 DEF LowerEnd
<1> HIDE DEF P
<1>8. ASSUME NEW i \in 0 .. n PROVE s[i] = IF g[i] = n THEN key ELSE q[g[i]]
  <2>1. CASE i \notin P
    BY <2>1, <1>7 DEF Shifted
  <2>2. CASE i \in P /\ i > 0 /\ Heap!parent(i) \in P
    BY <2>2, <1>7, ParentAbove DEF Shifted
  <2>3. CASE i \in P /\ ~ (i > 0 /\ Heap!parent(i) \in P)
    BY <2>3, <1>7 DEF Shifted
  <2>4. QED
    BY <2>1, <2>2, <2>3
<1>9. Inserted(s, q, key, n, g)
  BY <1>6, <1>8 DEF Inserted
<1>10. QED
  BY <1>2, <1>9
-----------------------------------------------------------------------------
(* One level of PriorityQueue_heapify: ch[p] is p or one of its children in *)
(* the live part 0 .. c-1.  Descent is the path the loop takes.             *)
Choice(ch, c) ==
  /\ ch \in [0 .. c - 1 -> 0 .. c - 1]
  /\ \A p \in 0 .. c - 1 : ch[p] # p => ch[p] > 0 /\ Heap!parent(ch[p]) = p

Descent(ch, c) ==
  {p \in 0 .. c - 1 : \A a \in Heap!Ancestors[p] \ {0} : ch[Heap!parent(a)] = a}

(* The descent starts at the root ... *)
LEMMA DescentRoot ==
  ASSUME NEW c \in Nat \ {0}, NEW ch, Choice(ch, c)
  PROVE  0 \in Descent(ch, c)
BY AncestorsStep DEF Descent

(* ... comes to a slot from its parent ... *)
LEMMA DescentParent ==
  ASSUME NEW c \in Nat \ {0}, NEW ch, Choice(ch, c),
         NEW p \in Descent(ch, c), p # 0
  PROVE  Heap!parent(p) \in Descent(ch, c) /\ ch[Heap!parent(p)] = p
<1>1. p \in Nat /\ p < c
  BY DEF Descent
<1>2. Heap!parent(p) \in 0 .. c - 1
  BY <1>1, ParentAbove
<1>3. Heap!Ancestors[p] = {p} \cup Heap!Ancestors[Heap!parent(p)]
  BY <1>1, AncestorsStep
<1>4. QED
  BY <1>2, <1>3 DEF Descent

(* ... goes on to the chosen child ... *)
LEMMA DescentChild ==
  ASSUME NEW c \in Nat \ {0}, NEW ch, Choice(ch, c),
         NEW p \in Descent(ch, c), ch[p] # p
  PROVE  ch[p] \in Descent(ch, c) /\ p < ch[p]
<1>1. p \in 0 .. c - 1
  BY DEF Descent
<1>2. ch[p] \in 0 .. c - 1 /\ ch[p] > 0 /\ Heap!parent(ch[p]) = p
  BY <1>1 DEF Choice
<1>3. Heap!Ancestors[ch[p]] = {ch[p]} \cup Heap!Ancestors[p]
  BY <1>2, AncestorsStep
<1>4. ch[p] \in Descent(ch, c)
  BY <1>2, <1>3 DEF Descent
<1>5. QED
  BY <1>2, <1>4, ParentAbove

(* ... and never leaves the line above the slot where it stops. *)
LEMMA DescentLine ==
  ASSUME NEW c \in Nat \ {0}, NEW ch, Choice(ch, c),
         NEW i \in Descent(ch, c), ch[i] = i,
         NEW j \in Descent(ch, c)
  PROVE  j \in Heap!Ancestors[i]
<1> DEFINE Off == {k \in Descent(ch, c) : k \notin Heap!Ancestors[i]}
<1>1. i \in Nat /\ Off \subseteq Nat
  BY DEF Descent
<1>2. Chain(i)
  BY <1>1, AncestorsChain
<1>3. ASSUME Off # {} PROVE FALSE
  <2>1. PICK m \in Off : \A k \in Off : m <= k
    BY <1>1, <1>3, LeastNumber
  <2>2. m \in Nat /\ m # 0
    BY <2>1, <1>1, <1>2 DEF Chain
  <2>3. Heap!parent(m) \in Descent(ch, c) /\ ch[Heap!parent(m)] = m
    BY <2>1, <2>2, DescentParent
  <2>4. Heap!parent(m) \in Nat /\ Heap!parent(m) < m
    BY <2>2, ParentAbove
  <2>5. Heap!parent(m) \in Heap!Ancestors[i]
    <3>1. ~ (m <= Heap!parent(m))
      BY <2>2, <2>4
    <3>2. Heap!parent(m) \notin Off
      BY <3>1, <2>1
    <3>3. QED
      BY <3>2, <2>3
  <2>6. Heap!parent(m) # i
    BY <2>3, <2>4
  <2>7. PICK b \in Heap!Ancestors[i] : b > 0 /\ Heap!parent(b) = Heap!parent(m)
    BY <2>5, <2>6, <1>2 DEF Chain
  <2>8. b \in Heap!Ancestors[i] \ {0}
    BY <2>7
  <2>9. ch[Heap!parent(b)] = b
    BY <2>8 DEF Descent
  <2>10. QED
    BY <2>1, <2>3, <2>7, <2>9
<1>4. QED
  BY <1>3

(* It does stop. *)
LEMMA DescentStops ==
  ASSUME NEW c \in Nat \ {0}, NEW ch, Choice(ch, c)
  PROVE  \E i \in Descent(ch, c) : ch[i] = i
<1> DEFINE T == {c - p : p \in Descent(ch, c)}
<1>1. Descent(ch, c) \subseteq 0 .. c - 1
  BY DEF Descent
<1>2. T \in SUBSET Nat /\ T # {}
  BY <1>1, DescentRoot
<1>3. PICK m \in T : \A k \in T : m <= k
  BY <1>2, LeastNumber
<1>4. PICK i \in Descent(ch, c) : m = c - i
  BY <1>3
<1>5. ASSUME ch[i] # i PROVE FALSE
  <2>1. ch[i] \in Descent(ch, c) /\ i < ch[i]
    BY <1>5, DescentChild
  <2>2. c - ch[i] \in T
    BY <2>1
  <2>3. m <= c - ch[i]
    BY <2>2, <1>3
  <2>4. i \in 0 .. c - 1 /\ ch[i] \in 0 .. c - 1
    BY <2>1, <1>1
  <2>5. QED
    BY <2>1, <2>3, <2>4, <1>4
<1>6. QED
  BY <1>5

(* Where the content of slot i comes from: the loop pulls the chosen child  *)
(* up and puts the root's old content where it stops.                       *)
Dropped(ch, c) ==
  [i \in 0 .. c - 1 |-> IF i \notin Descent(ch, c) THEN i
                        ELSE IF ch[i] = i THEN 0 ELSE ch[i]]

LEMMA DroppedOneToOne ==
  ASSUME NEW c \in Nat \ {0}, NEW ch, Choice(ch, c)
  PROVE  OneToOne(Dropped(ch, c), 0 .. c - 1, 0 .. c - 1)
<1> DEFINE g == Dropped(ch, c)
           D == Descent(ch, c)
<1>1. D \subseteq 0 .. c - 1 /\ 0 \in D
  BY DescentRoot DEF Descent
<1>2. \A i \in D : ch[i] # i => ch[i] \in D /\ i < ch[i] /\ Heap!parent(ch[i]) = i
  BY DescentChild, <1>1 DEF Choice
<1>3. /\ \A i \in 0 .. c - 1 : i \notin D => g[i] = i
      /\ \A i \in D : ch[i] = i => g[i] = 0
      /\ \A i \in D : ch[i] # i => g[i] = ch[i]
  BY <1>1 DEF Dropped
<1>4. g \in [0 .. c - 1 -> 0 .. c - 1]
  BY <1>1, <1>2 DEF Dropped
<1> HIDE DEF g, D
<1>5. ASSUME NEW x \in 0 .. c - 1, NEW y \in 0 .. c - 1, g[x] = g[y] PROVE x = y
  <2>1. CASE x \notin D \/ y \notin D
    BY <2>1, <1>1, <1>2, <1>3, <1>5
  <2>2. CASE x \in D /\ y \in D /\ ch[x] = x /\ ch[y] = y
    <3>1. x \in Heap!Ancestors[y] /\ y \in Heap!Ancestors[x]
      BY <2>2, DescentLine DEF D
    <3>2. x <= y /\ y <= x
      BY <3>1, AncestorsChain DEF Chain
    <3>3. QED
      BY <3>2
  <2>3. CASE x \in D /\ y \in D /\ ch[x] # x /\ ch[y] # y
    BY <2>3, <1>2, <1>3, <1>5
  <2>4. CASE x \in D /\ y \in D /\ (ch[x] = x) # (ch[y] = y)
    BY <2>4, <1>1, <1>2, <1>3, <1>5
  <2>5. QED
    BY <2>1, <2>2, <2>3, <2>4
<1>6. ASSUME NEW t \in 0 .. c - 1 PROVE \E x \in 0 .. c - 1 : g[x] = t
  <2>1. CASE t \notin D
    BY <2>1, <1>3
  <2>2. CASE t \in D /\ t # 0
    <3>1. Heap!parent(t) \in D /\ ch[Heap!parent(t)] = t
      BY <2>2, DescentParent DEF D
    <3>2. Heap!parent(t) # t
      BY <2>2, ParentAbove
    <3>3. QED
      BY <3>1, <3>2, <1>1, <1>3
  <2>3. CASE t = 0
    BY <2>3, <1>1, <1>3, DescentStops DEF D
  <2>4. QED
    BY <2>1, <2>2, <2>3
<1>7. QED
  BY <1>4, <1>5, <1>6 DEF OneToOne, g
(* One level of PriorityQueue_heapify stays or goes to a live child. *)
LEMMA LargestChoice ==
  ASSUME NEW d, NEW c \in Nat, NEW p \in 0 .. c - 1, NEW m, m = Heap!largest(d, c, p)
  PROVE  m \in 0 .. c - 1 /\ (m # p => m > 0 /\ Heap!parent(m) = p)
BY DEF Heap!largest, Heap!left, Heap!right, Heap!parent

(* PriorityQueue_heapify after the last of n+1 jobs went to the root: every *)
(* slot gets what the descent brings there.                                 *)
Heapified(d, n, ch) ==
  /\ Choice(ch, n)
  /\ \A i \in 0 .. n - 1 : Heap!heapify(d, n)[i] = d[Dropped(ch, n)[i]]

LEMMA HeapifyMoves ==
  ASSUME NEW n \in Nat \ {0}, NEW d, DOMAIN d = 0 .. n
  PROVE  \E ch : Heapified(d, n, ch)
<1> DEFINE chosen(p) == Heap!largest([d EXCEPT ![p] = d[0]], n, p)
           path == {p \in 0 .. n - 1 :
                      \A a \in Heap!Ancestors[p] \ {0} : chosen(Heap!parent(a)) = a}
           ch == [p \in 0 .. n - 1 |-> chosen(p)]
<1>1. \A p \in 0 .. n - 1 :
        chosen(p) \in 0 .. n - 1 /\ (chosen(p) # p => chosen(p) > 0 /\ Heap!parent(chosen(p)) = p)
  BY LargestChoice
<1>2. Heap!heapify(d, n) = [i \in DOMAIN d |->
                              IF i \notin path THEN d[i]
                              ELSE IF chosen(i) = i THEN d[0] ELSE d[chosen(i)]]
  BY DEF Heap!heapify
<1> HIDE DEF chosen
<1>3. Choice(ch, n)
  BY <1>1 DEF Choice
<1>4. path = Descent(ch, n)
  <2>1. ASSUME NEW p \in 0 .. n - 1, NEW a \in Heap!Ancestors[p] \ {0}
        PROVE  ch[Heap!parent(a)] = chosen(Heap!parent(a))
    <3>1. p \in Nat /\ Chain(p)
      BY AncestorsChain
    <3>2. a \in Nat /\ a > 0 /\ a <= n - 1
      BY <3>1, <2>1 DEF Chain
    <3>3. Heap!parent(a) \in Nat /\ Heap!parent(a) < a
      BY <3>2, ParentAbove
    <3>4. Heap!parent(a) \in 0 .. n - 1
      BY <3>2, <3>3
    <3>5. QED
      BY <3>4
  <2>2. QED
    BY <2>1 DEF Descent
<1> HIDE DEF path
<1>5. ASSUME NEW i \in 0 .. n - 1
      PROVE  Heap!heapify(d, n)[i] = d[Dropped(ch, n)[i]]
  <2>1. Heap!heapify(d, n)[i] = IF i \notin path THEN d[i]
                                ELSE IF chosen(i) = i THEN d[0] ELSE d[chosen(i)]
    BY <1>2
  <2>2. Dropped(ch, n)[i] = IF i \notin path THEN i
                            ELSE IF chosen(i) = i THEN 0 ELSE chosen(i)
    BY <1>4 DEF Dropped
  <2>3. QED
    BY <2>1, <2>2
<1>6. Heapified(d, n, ch)
  BY <1>3, <1>5 DEF Heapified
<1>7. QED
  BY <1>6

(* PriorityQueue_extract: the queue afterwards is the queue before without  *)
(* the job of slot 0, each of the others in exactly one slot.               *)
Extracted(s, q, n, g) ==
  /\ OneToOne(g, 0 .. n - 1, 1 .. n)
  /\ \A i \in 0 .. n - 1 : s[i] = q[g[i]]

LEMMA ExtractMoves ==
  ASSUME NEW n \in Nat, NEW q, DOMAIN q = 0 .. n
  PROVE  /\ DOMAIN Heap!extract(q) = 0 .. n - 1
         /\ \E g : Extracted(Heap!extract(q), q, n, g)
<1> DEFINE d == [q EXCEPT ![0] = q[n]]
<1>1. Heap!Size(q) - 1 = n
  BY SizeIsCardinality, FS_Interval
<1>2. Heap!extract(q) = [i \in 0 .. n - 1 |-> Heap!heapify(d, n)[i]]
  BY <1>1 DEF Heap!extract
<1>3. CASE n = 0
  <2> DEFINE g == [i \in 0 .. n - 1 |-> n]
  <2>1. 0 .. n - 1 = {} /\ 1 .. n = {}
    BY <1>3
  <2>2. OneToOne(g, 0 .. n - 1, 1 .. n)
    <3>1. g \in [{} -> {}]
      BY <2>1
    <3>2. QED
      BY <2>1, <3>1 DEF OneToOne
  <2>3. Extracted(Heap!extract(q), q, n, g)
    BY <2>1, <2>2 DEF Extracted
  <2>4. QED
    BY <2>3, <1>2
<1>4. CASE n # 0
  <2>a. n \in Nat \ {0} /\ DOMAIN d = 0 .. n
    BY <1>4
  <2> HIDE DEF d
  <2>b. PICK ch : Heapified(d, n, ch)
    BY <2>a, HeapifyMoves
  <2>1. /\ Choice(ch, n)
        /\ \A i \in 0 .. n - 1 : Heap!heapify(d, n)[i] = d[Dropped(ch, n)[i]]
    BY <2>b DEF Heapified
  <2>2. OneToOne(Dropped(ch, n), 0 .. n - 1, 0 .. n - 1)
    BY <2>1, <1>4, DroppedOneToOne
  <2> DEFINE f == Dropped(ch, n)
             g == [i \in 0 .. n - 1 |-> IF f[i] = 0 THEN n ELSE f[i]]
  <2>3. /\ \A i \in 0 .. n - 1 : f[i] \in 0 .. n - 1
        /\ \A x, y \in 0 .. n - 1 : f[x] = f[y] => x = y
        /\ \A t \in 0 .. n - 1 : \E x \in 0 .. n - 1 : f[x] = t
    BY <2>2 DEF OneToOne
  <2> HIDE DEF f
  <2>4. OneToOne(g, 0 .. n - 1, 1 .. n)
    <3>1. ASSUME NEW x \in 0 .. n - 1
          PROVE  /\ g[x] = IF f[x] = 0 THEN n ELSE f[x]
                 /\ f[x] \in 0 .. n - 1
                 /\ g[x] \in 1 .. n
      <4>1. f[x] \in 0 .. n - 1
        BY <2>3
      <4>2. g[x] = IF f[x] = 0 THEN n ELSE f[x]
        OBVIOUS
      <4>3. QED
        BY <4>1, <4>2, <1>4
    <3> HIDE DEF g
    <3>2. ASSUME NEW x \in 0 .. n - 1, NEW y \in 0 .. n - 1, g[x] = g[y] PROVE x = y
      <4>1. f[x] = f[y]
        BY <3>1, <3>2
      <4>2. QED
        BY <4>1, <2>3
    <3>3. ASSUME NEW t \in 1 .. n PROVE \E x \in 0 .. n - 1 : g[x] = t
      <4>1. CASE t = n
        <5>1. PICK x \in 0 .. n - 1 : f[x] = 0
          BY <2>3, <1>4
        <5>2. QED
          BY <5>1, <4>1, <3>1
      <4>2. CASE t # n
        <5>1. t \in 0 .. n - 1 /\ t # 0
          BY <4>2
        <5>2. PICK x \in 0 .. n - 1 : f[x] = t
          BY <5>1, <2>3
        <5>3. QED
          BY <5>1, <5>2, <3>1
      <4>3. QED
        BY <4>1, <4>2
    <3>4. g \in [0 .. n - 1 -> 1 .. n]
      BY <3>1 DEF g
    <3>5. QED
      BY <3>2, <3>3, <3>4 DEF OneToOne
  <2>5. ASSUME NEW i \in 0 .. n - 1 PROVE Heap!extract(q)[i] = q[g[i]]
    <3>1. Heap!extract(q)[i] = d[f[i]]
      BY <2>1, <1>2 DEF f
    <3>2. d[f[i]] = q[g[i]]
      BY <2>3, <1>4 DEF d
    <3>3. QED
      BY <3>1, <3>2
  <2>6. DOMAIN Heap!extract(q) = 0 .. n - 1
    BY <1>2
  <2>7. Extracted(Heap!extract(q), q, n, g)
    BY <2>4, <2>5 DEF Extracted
  <2>8. QED
    BY <2>6, <2>7
<1>5. QED
  BY <1>3, <1>4

-----------------------------------------------------------------------------
(* The slots with a job of request r. *)
Slots(q, r) == {i \in DOMAIN q : q[i].rq = r}

(* A renumbering of slots that keeps the requests keeps their count. *)
LEMMA CountMoves ==
  ASSUME NEW S, NEW T, NEW g, OneToOne(g, S, T), IsFiniteSet(S),
         NEW A \in SUBSET S, NEW B \in SUBSET T,
         \A i \in S : i \in A <=> g[i] \in B
  PROVE  IsFiniteSet(B) /\ Cardinality(B) = Cardinality(A)
<1> DEFINE h == [i \in A |-> g[i]]
<1>1. OneToOne(h, A, B)
  BY DEF OneToOne
<1>2. IsFiniteSet(A)
  BY FS_Subset
<1>3. QED
  BY <1>1, <1>2, SameCount

(* A queue with n jobs has finitely many slots for a request. *)
LEMMA SlotsFinite ==
  ASSUME NEW n \in Int, NEW q, DOMAIN q = 0 .. n, NEW r
  PROVE  IsFiniteSet(Slots(q, r)) /\ Cardinality(Slots(q, r)) \in Nat
<1>1. IsFiniteSet(0 .. n)
  BY FS_Interval
<1>2. Slots(q, r) \in SUBSET (0 .. n)
  BY DEF Slots
<1>3. IsFiniteSet(Slots(q, r))
  BY <1>1, <1>2, FS_Subset
<1>4. QED
  BY <1>3, FS_CardinalityType

(* Inserting a job adds one slot for its request and none for another. *)
LEMMA InsertCounts ==
  ASSUME NEW n \in Nat, NEW q, DOMAIN q = 0 .. n - 1, NEW key, NEW r
  PROVE  Cardinality(Slots(Heap!insert(q, key), r))
         = Cardinality(Slots(q, r)) + (IF key.rq = r THEN 1 ELSE 0)
<1> DEFINE s == Heap!insert(q, key)
           B == Slots(q, r) \cup (IF key.rq = r THEN {n} ELSE {})
<1>1. DOMAIN s = 0 .. n
  BY InsertMoves
<1>a. PICK g : Inserted(s, q, key, n, g)
  BY InsertMoves
<1> HIDE DEF s
<1>2. /\ OneToOne(g, 0 .. n, 0 .. n)
      /\ \A i \in 0 .. n : s[i] = IF g[i] = n THEN key ELSE q[g[i]]
  BY <1>a DEF Inserted
<1>3. \A i \in 0 .. n : g[i] \in 0 .. n
  BY <1>2 DEF OneToOne
<1>4. Slots(q, r) \subseteq 0 .. n - 1
  BY DEF Slots
<1>5. Slots(s, r) \in SUBSET (0 .. n) /\ B \in SUBSET (0 .. n)
  BY <1>1, <1>4 DEF Slots
<1>6. \A i \in 0 .. n : i \in Slots(s, r) <=> g[i] \in B
  <2>1. SUFFICES ASSUME NEW i \in 0 .. n PROVE i \in Slots(s, r) <=> g[i] \in B
    OBVIOUS
  <2>2. CASE g[i] = n
    BY <2>2, <1>1, <1>2, <1>4 DEF Slots
  <2>3. CASE g[i] # n
    BY <2>3, <1>1, <1>2, <1>3 DEF Slots
  <2>4. QED
    BY <2>2, <2>3
<1>7. IsFiniteSet(0 .. n)
  BY FS_Interval
<1>8. Cardinality(B) = Cardinality(Slots(s, r))
  BY <1>2, <1>5, <1>6, <1>7, CountMoves
<1>9. IsFiniteSet(Slots(q, r)) /\ Cardinality(Slots(q, r)) \in Nat
  BY SlotsFinite
<1>10. Cardinality(B) = Cardinality(Slots(q, r)) + (IF key.rq = r THEN 1 ELSE 0)
  <2>1. CASE key.rq = r
    <3>1. n \notin Slots(q, r)
      BY <1>4
    <3>2. Cardinality(B) = Cardinality(Slots(q, r)) + 1
      BY <2>1, <3>1, <1>9, FS_AddElement
    <3>3. QED
      BY <2>1, <3>2, <1>9
  <2>2. CASE key.rq # r
    BY <2>2, <1>9
  <2>3. QED
    BY <2>1, <2>2
<1>11. QED
  BY <1>8, <1>10 DEF s

(* Extracting takes one slot from the request of the job in front and none  *)
(* from another.                                                            *)
LEMMA ExtractCounts ==
  ASSUME NEW n \in Nat, NEW q, DOMAIN q = 0 .. n, NEW r
  PROVE  Cardinality(Slots(Heap!extract(q), r)) + (IF q[0].rq = r THEN 1 ELSE 0)
         = Cardinality(Slots(q, r))
<1> DEFINE s == Heap!extract(q)
           B == Slots(q, r) \ {0}
<1>1. DOMAIN s = 0 .. n - 1
  BY ExtractMoves
<1>a. PICK g : Extracted(s, q, n, g)
  BY ExtractMoves
<1> HIDE DEF s
<1>2. /\ OneToOne(g, 0 .. n - 1, 1 .. n)
      /\ \A i \in 0 .. n - 1 : s[i] = q[g[i]]
  BY <1>a DEF Extracted
<1>3. \A i \in 0 .. n - 1 : g[i] \in 1 .. n
  BY <1>2 DEF OneToOne
<1>4. Slots(s, r) \in SUBSET (0 .. n - 1) /\ B \in SUBSET (1 .. n)
  BY <1>1 DEF Slots
<1>5. \A i \in 0 .. n - 1 : i \in Slots(s, r) <=> g[i] \in B
  BY <1>1, <1>2, <1>3 DEF Slots
<1>6. IsFiniteSet(0 .. n - 1)
  BY FS_Interval
<1>7. Cardinality(B) = Cardinality(Slots(s, r))
  BY <1>2, <1>4, <1>5, <1>6, CountMoves
<1>8. IsFiniteSet(Slots(q, r)) /\ Cardinality(Slots(q, r)) \in Nat
  BY SlotsFinite
<1>9. Cardinality(B) + (IF q[0].rq = r THEN 1 ELSE 0) = Cardinality(Slots(q, r))
  <2>1. CASE q[0].rq = r
    <3>1. 0 \in Slots(q, r)
      BY <2>1 DEF Slots
    <3>2. Cardinality(B) = Cardinality(Slots(q, r)) - 1
      BY <3>1, <1>8, FS_RemoveElement
    <3>3. QED
      BY <2>1, <3>2, <1>8
  <2>2. CASE q[0].rq # r
    <3>1. B = Slots(q, r)
      BY <2>2 DEF Slots
    <3>2. Cardinality(B) = Cardinality(Slots(q, r))
      BY <3>1
    <3>3. QED
      BY <2>2, <3>2, <1>8
  <2>3. QED
    BY <2>1, <2>2
<1>10. QED
  BY <1>7, <1>9 DEF s
-----------------------------------------------------------------------------
(***************************************************************************)
(* The inductive invariant.  A job is one that Worker_scheduleNewJob makes *)
(* of a request; the jobs still to insert belong to one request; no        *)
(* request is in the pipe twice; and an error counter beyond the limit     *)
(* means that the process has ended.  Sums is not inductive without these: *)
(* reading a request that is still elsewhere in the pipe would count it as *)
(* unread, and a queue with a hole would lose a job.                       *)
(***************************************************************************)
Messages(r) ==
  {Worker_fillPacket(r)} \cup
  (IF r.type = "SRC" THEN {Worker_poisonJob(Worker_fillPacket(r), r)} ELSE {})

JobsOf(r) == [rq : {r}, message : Messages(r), schedule_time : Nat]

Job == UNION {JobsOf(r) : r \in Request}

Clock == now \in Nat /\ taken \in Nat /\ timeout \in Nat

Flags == eof \in BOOLEAN /\ sleeping \in BOOLEAN

Place ==
  /\ pc \in {"top", "select", "read", "limit", "insert", "due", "drain", "exit"}
  /\ pc \in {"limit", "insert"} => todo # <<>>
  /\ pc \notin {"limit", "insert", "exit"} => todo = <<>>

Errors ==
  /\ send_errors \in 0 .. MAX_ERRORS + 1
  /\ read_errors \in 0 .. MAX_ERRORS + 1
  /\ error_count \in 0 .. MAX_ERRORS + 1
  /\ pc # "exit" => /\ send_errors <= MAX_ERRORS
                    /\ read_errors <= MAX_ERRORS
                    /\ error_count <= MAX_ERRORS

PipeOK ==
  /\ arrived \subseteq Request
  /\ pipe \in Seq(Request) /\ Len(pipe) <= PipeSize
  /\ \A i \in 1 .. Len(pipe) : pipe[i] \in arrived
  /\ \A i, j \in 1 .. Len(pipe) : pipe[i] = pipe[j] => i = j

QueueOK ==
  /\ count \in Nat /\ DOMAIN queue = 0 .. count - 1
  /\ \A i \in DOMAIN queue : queue[i] \in Job

TodoOK ==
  /\ todo \in Seq(Job)
  /\ \A i \in 1 .. Len(todo) : todo[i].rq = todo[1].rq

AttemptsOK == attempts \in [Request -> Nat]

Parts == /\ Clock /\ Flags /\ Place /\ Errors /\ PipeOK
         /\ QueueOK /\ TodoOK /\ AttemptsOK

(* The sum for one request, and for all: the code treats a request that met *)
(* MAX_REQUESTS queued jobs like any other.                                 *)
Accounted(r) == attempts[r] + Queued(r) + ToInsert(r) = IF Unread(r) THEN 0 ELSE Total(r)

Sums == pc # "exit" => \A r \in Request : Accounted(r)

IInv == Parts /\ Sums

(* What a job holds. *)
LEMMA JobFields ==
  ASSUME NEW j \in Job
  PROVE  j.rq \in Request /\ j.schedule_time \in Nat /\ j.message \in Messages(j.rq)
<1>1. PICK r \in Request : j \in JobsOf(r)
  BY DEF Job
<1>2. QED
  BY <1>1 DEF JobsOf

(* Worker_scheduleNewJob makes three repetitions of the answer, and two of  *)
(* the poisoning where that is wanted: all but the answer sent at once.     *)
LEMMA RepeatsJobs ==
  ASSUME NEW r \in Request, NEW t \in Nat
  PROVE  /\ Repeats(r, t) \in Seq(Job)
         /\ Len(Repeats(r, t)) = Total(r) - 1
         /\ \A i \in 1 .. Len(Repeats(r, t)) : Repeats(r, t)[i].rq = r
<1> DEFINE msg == Worker_fillPacket(r)
           poi == Worker_poisonJob(msg, r)
           At(m, d) == [rq |-> r, message |-> m, schedule_time |-> t + d]
<1>1. \A d \in Nat : t + d \in Nat
  OBVIOUS
<1>2. \A d \in Nat : At(msg, d) \in Job
  BY <1>1 DEF Job, JobsOf, Messages
<1>3. \A d \in Nat : r.type = "SRC" => At(poi, d) \in Job
  BY <1>1 DEF Job, JobsOf, Messages
<1>4. \A m, d : At(m, d).rq = r
  OBVIOUS
<1> DEFINE S1 == <<At(msg, Delay1), At(msg, Delay2), At(msg, Delay3)>>
           S2 == IF DoPoison /\ r.type = "SRC" THEN <<At(poi, Delay2), At(poi, Delay3)>>
                 ELSE <<>>
<1>5. Repeats(r, t) = S1 \o S2
  BY DEF Repeats
<1> HIDE DEF At, msg, poi
<1>6. S1 \in Seq(Job) /\ Len(S1) = 3 /\ \A i \in 1 .. 3 : S1[i].rq = r
  BY <1>2, <1>4, WorkerAssumption
<1>7. S2 \in Seq(Job) /\ Len(S2) = Total(r) - 4 /\ \A i \in 1 .. Len(S2) : S2[i].rq = r
  <2>1. CASE DoPoison /\ r.type = "SRC"
    BY <2>1, <1>3, <1>4, WorkerAssumption DEF Total
  <2>2. CASE ~ (DoPoison /\ r.type = "SRC")
    BY <2>2 DEF Total
  <2>3. QED
    BY <2>1, <2>2
<1> HIDE DEF S1, S2
<1>a. Total(r) \in Nat
  BY DEF Total
<1>8. /\ S1 \o S2 \in Seq(Job)
      /\ Len(S1 \o S2) = Total(r) - 1
      /\ \A i \in 1 .. Len(S1 \o S2) : (S1 \o S2)[i] = IF i <= 3 THEN S1[i] ELSE S2[i - 3]
  <2>1. /\ S1 \o S2 \in Seq(Job)
        /\ Len(S1 \o S2) = Len(S1) + Len(S2)
        /\ \A i \in 1 .. Len(S1) + Len(S2) :
             (S1 \o S2)[i] = IF i <= Len(S1) THEN S1[i] ELSE S2[i - Len(S1)]
    BY <1>6, <1>7, ConcatProperties, Zenon
  <2>2. Len(S1) = 3 /\ Len(S2) = Total(r) - 4
    BY <1>6, <1>7
  <2>3. Len(S1 \o S2) = Total(r) - 1
    BY <2>1, <2>2, <1>a
  <2>4. QED
    BY <2>1, <2>2, <2>3
<1>9. ASSUME NEW i \in 1 .. Len(S1 \o S2) PROVE (S1 \o S2)[i].rq = r
  <2>1. CASE i <= 3
    BY <2>1, <1>6, <1>8
  <2>2. CASE i > 3
    <3>1. i - 3 \in 1 .. Len(S2)
      BY <2>2, <1>7, <1>8, <1>a
    <3>2. QED
      BY <3>1, <2>2, <1>7, <1>8
  <2>3. QED
    BY <2>1, <2>2
<1>10. QED
  BY <1>5, <1>8, <1>9

(* Jobs of one request all count for it ... *)
LEMMA SameRequestCount ==
  ASSUME NEW td \in Seq(Job), \A i \in 1 .. Len(td) : td[i].rq = td[1].rq, NEW r
  PROVE  Cardinality({i \in DOMAIN td : td[i].rq = r})
         = IF td # <<>> /\ td[1].rq = r THEN Len(td) ELSE 0
<1> DEFINE S == {i \in DOMAIN td : td[i].rq = r}
<1>1. DOMAIN td = 1 .. Len(td) /\ Len(td) \in Nat
  OBVIOUS
<1>2. CASE td # <<>> /\ td[1].rq = r
  <2>1. S = 1 .. Len(td)
    BY <1>1, <1>2
  <2>2. Len(td) > 0
    BY <1>2
  <2>3. Cardinality(1 .. Len(td)) = Len(td)
    <3> DEFINE n == Len(td)
    <3> HIDE DEF n
    <3>1. n \in Nat /\ n > 0
      BY <1>1, <2>2 DEF n
    <3>2. Cardinality(1 .. n) = n
      BY <3>1, FS_Interval
    <3>3. QED
      BY <3>2 DEF n
  <2> HIDE DEF S
  <2>4. Cardinality(S) = Len(td)
    BY <2>1, <2>3
  <2>5. QED
    BY <1>2, <2>4 DEF S
<1>3. CASE ~ (td # <<>> /\ td[1].rq = r)
  <2>1. S = {}
    <3>1. CASE td = <<>>
      BY <3>1
    <3>2. CASE td # <<>> /\ td[1].rq # r
      BY <3>2, <1>1
    <3>3. QED
      BY <1>3, <3>1, <3>2
  <2>2. QED
    BY <1>3, <2>1, FS_EmptySet
<1>4. QED
  BY <1>2, <1>3

(* ... as those still to insert do. *)
LEMMA ToInsertCount ==
  ASSUME TodoOK, NEW r
  PROVE  ToInsert(r) = IF todo # <<>> /\ todo[1].rq = r THEN Len(todo) ELSE 0
BY SameRequestCount DEF TodoOK, ToInsert

(* The same after a step. *)
LEMMA ToInsertCountNext ==
  ASSUME TodoOK', NEW r
  PROVE  ToInsert(r)' = IF todo' # <<>> /\ todo'[1].rq = r THEN Len(todo') ELSE 0
BY SameRequestCount DEF TodoOK, ToInsert

(* What is queued for a request, in terms of Slots. *)
LEMMA QueuedCount ==
  ASSUME NEW r
  PROVE  Queued(r) = Cardinality(Slots(queue, r))
BY DEF Queued, Slots

-----------------------------------------------------------------------------
(* Many steps leave the pipe, the queue and the histories alone. *)
LEMMA StoreStays ==
  ASSUME Parts, UNCHANGED <<pipe, arrived, queue, todo, attempts>>
  PROVE  PipeOK' /\ QueueOK' /\ TodoOK' /\ AttemptsOK'
BY DEF Parts, PipeOK, QueueOK, TodoOK, AttemptsOK, count, Heap!Size

(* The reaction to a failure goes on or ends the process. *)
LEMMA FailedStep ==
  ASSUME NEW n \in 0 .. MAX_ERRORS + 1, NEW next, next # "exit", Failed(n, next)
  PROVE  /\ sleeping' \in BOOLEAN
         /\ pc' = next \/ pc' = "exit"
         /\ pc' # "exit" => n <= MAX_ERRORS
BY WorkerAssumption DEF Failed

(* Worker_executeJob counts an attempt, goes on or ends the process. *)
LEMMA ExecuteStep ==
  ASSUME Parts, pc # "exit", NEW r \in Request, NEW next, next # "exit",
         Worker_executeJob(r, next)
  PROVE  /\ attempts' = [attempts EXCEPT ![r] = @ + 1]
         /\ AttemptsOK'
         /\ sleeping' \in BOOLEAN
         /\ pc' = next \/ pc' = "exit"
         /\ send_errors' \in 0 .. MAX_ERRORS + 1
         /\ pc' # "exit" => send_errors' <= MAX_ERRORS
<1>1. attempts' = [attempts EXCEPT ![r] = @ + 1] /\ AttemptsOK'
  BY DEF Worker_executeJob, Parts, AttemptsOK
<1>2. CASE send_errors' = 0 /\ pc' = next /\ UNCHANGED sleeping
  BY <1>1, <1>2, WorkerAssumption DEF Parts, Flags
<1>3. CASE send_errors' = send_errors + 1 /\ Failed(send_errors', next)
  <2>1. send_errors' \in 0 .. MAX_ERRORS + 1
    BY <1>3, WorkerAssumption DEF Parts, Errors
  <2>2. QED
    BY <2>1, <1>1, <1>3, FailedStep
<1>4. QED
  BY <1>2, <1>3 DEF Worker_executeJob
-----------------------------------------------------------------------------
(* Init establishes the invariant. *)
LEMMA InitIInv == Init => IInv
<1> SUFFICES ASSUME Init PROVE IInv
  OBVIOUS
<1>1. Clock /\ Place /\ Errors /\ PipeOK /\ AttemptsOK
  BY WorkerAssumption DEF Init, Clock, Place, Errors, PipeOK, AttemptsOK
<1>2. Flags
  BY DEF Init, Flags
<1>3. DOMAIN queue = {} /\ 0 .. -1 = {}
  BY DEF Init
<1>4. count = 0
  BY <1>3, SizeIsCardinality, FS_EmptySet DEF count
<1>5. QueueOK
  BY <1>3, <1>4 DEF QueueOK
<1>6. TodoOK
  BY DEF Init, TodoOK
<1>7. Sums
  <2> SUFFICES ASSUME NEW r \in Request
               PROVE  attempts[r] + Queued(r) + ToInsert(r) = IF Unread(r) THEN 0 ELSE Total(r)
    BY DEF Sums, Accounted
  <2>1. attempts[r] = 0 /\ Unread(r)
    BY DEF Init, Unread
  <2>2. Queued(r) = 0
    <3>1. Slots(queue, r) = {}
      BY <1>3 DEF Slots
    <3>2. QED
      BY <3>1, QueuedCount, FS_EmptySet
  <2>3. ToInsert(r) = 0
    BY <1>6, ToInsertCount DEF Init
  <2>4. QED
    BY <2>1, <2>2, <2>3
<1>8. QED
  BY <1>1, <1>2, <1>5, <1>6, <1>7 DEF IInv, Parts

-----------------------------------------------------------------------------
(* The steps that touch neither the pipe nor the queue keep every part. *)
LEMMA PartsIdle ==
  ASSUME Parts,
         MainExits \/ Tick \/ Top \/ Readable \/ Timeout \/ Limit \/ Due \/ Drained
  PROVE  Parts'
<1>1. UNCHANGED <<pipe, arrived, queue, todo, attempts>>
  BY DEF MainExits, Tick, Top, Readable, Timeout, Limit, Due, Drained
<1>2. PipeOK' /\ QueueOK' /\ TodoOK' /\ AttemptsOK'
  BY <1>1, StoreStays
<1>3. Clock'
  <2>1. CASE Top
    <3>1. count \in Nat /\ DOMAIN queue = 0 .. count - 1 /\ \A i \in DOMAIN queue : queue[i] \in Job
      BY DEF Parts, QueueOK
    <3>2. count > 0 => queue[0].schedule_time \in Nat
      BY <3>1, JobFields
    <3> HIDE DEF count
    <3>3. QED
      BY <2>1, <3>1, <3>2 DEF Top, Parts, Clock
  <2>2. CASE MainExits \/ Timeout \/ Limit
    BY <2>2 DEF Parts, Clock, MainExits, Timeout, Limit
  <2>3. CASE Tick \/ Readable \/ Due \/ Drained
    BY <2>3 DEF Parts, Clock, Tick, Readable, Due, Drained
  <2>4. QED
    BY <2>1, <2>2, <2>3
<1>4. Flags'
  <2>1. CASE MainExits
    BY <2>1, Zenon DEF Parts, Flags, MainExits
  <2>2. CASE Tick
    BY <2>2, Zenon DEF Parts, Flags, Tick
  <2>3. CASE Limit
    <3>1. sleeping' \in BOOLEAN
      BY <2>3 DEF Limit
    <3>2. QED
      BY <2>3, <3>1 DEF Parts, Flags, Limit
  <2>4. CASE Top \/ Readable \/ Timeout \/ Due \/ Drained
    BY <2>4 DEF Parts, Flags, Top, Readable, Timeout, Due, Drained
  <2>5. QED
    BY <2>1, <2>2, <2>3, <2>4
<1>5. Place'
  BY <1>1 DEF Parts, Place, MainExits, Tick, Top, Readable, Timeout, Limit, Due, Drained
<1>6. Errors'
  BY WorkerAssumption
     DEF Parts, Errors, MainExits, Tick, Top, Readable, Timeout, Limit, Due, Drained
<1>7. QED
  BY <1>2, <1>3, <1>4, <1>5, <1>6 DEF Parts

(* A failed select() or read() counts and goes on or ends the process. *)
LEMMA PartsFailing ==
  ASSUME Parts, SelectFails \/ ReadFails
  PROVE  Parts'
<1>1. UNCHANGED <<pipe, arrived, queue, todo, attempts, now, taken, eof>>
  BY DEF SelectFails, ReadFails
<1>2. PipeOK' /\ QueueOK' /\ TodoOK' /\ AttemptsOK'
  BY <1>1, StoreStays
<1>3. Clock'
  BY <1>1 DEF Parts, Clock, SelectFails, ReadFails
<1>4. CASE SelectFails
  <2>1. error_count' \in 0 .. MAX_ERRORS + 1 /\ UNCHANGED <<send_errors, read_errors>>
    BY <1>4, WorkerAssumption DEF SelectFails, Parts, Errors
  <2>2. /\ sleeping' \in BOOLEAN
        /\ pc' = "top" \/ pc' = "exit"
        /\ pc' # "exit" => error_count' <= MAX_ERRORS
    BY <1>4, <2>1, FailedStep DEF SelectFails
  <2>3. pc = "select"
    BY <1>4 DEF SelectFails
  <2>4. Place' /\ Errors'
    BY <1>1, <2>1, <2>2, <2>3 DEF Parts, Place, Errors
  <2>5. Flags'
    BY <1>1, <2>2 DEF Parts, Flags
  <2>6. QED
    BY <1>2, <1>3, <2>4, <2>5 DEF Parts
<1>5. CASE ReadFails
  <2>1. read_errors' \in 0 .. MAX_ERRORS + 1 /\ UNCHANGED <<send_errors, error_count>>
    BY <1>5, WorkerAssumption DEF ReadFails, Parts, Errors
  <2>2. /\ sleeping' \in BOOLEAN
        /\ pc' = "due" \/ pc' = "exit"
        /\ pc' # "exit" => read_errors' <= MAX_ERRORS
    BY <1>5, <2>1, FailedStep DEF ReadFails
  <2>3. pc = "read"
    BY <1>5 DEF ReadFails
  <2>4. Place' /\ Errors'
    BY <1>1, <2>1, <2>2, <2>3 DEF Parts, Place, Errors
  <2>5. Flags'
    BY <1>1, <2>2 DEF Parts, Flags
  <2>6. QED
    BY <1>2, <1>3, <2>4, <2>5 DEF Parts
<1>6. QED
  BY <1>4, <1>5

(* Worker_sendJob puts a new request behind the others. *)
LEMMA PartsSendJob ==
  ASSUME Parts, NEW r \in Request, Worker_sendJob(r)
  PROVE  Parts'
<1>1. /\ r \notin arrived /\ arrived' = arrived \cup {r}
      /\ Len(pipe) < PipeSize /\ pipe' = Append(pipe, r)
      /\ UNCHANGED <<now, eof, queue, pc, sleeping, timeout, taken, todo,
                     send_errors, read_errors, error_count, attempts>>
  BY DEF Worker_sendJob
<1>2. Clock' /\ Place' /\ Errors' /\ AttemptsOK' /\ Flags'
  BY <1>1 DEF Parts, Clock, Place, Errors, AttemptsOK, Flags
<1>3. QueueOK' /\ TodoOK'
  BY <1>1 DEF Parts, QueueOK, TodoOK, count, Heap!Size
<1>4. PipeOK'
  <2>1. /\ pipe \in Seq(Request) /\ Len(pipe) \in Nat
        /\ pipe' \in Seq(Request) /\ Len(pipe') = Len(pipe) + 1
        /\ \A i \in 1 .. Len(pipe) : pipe'[i] = pipe[i]
        /\ pipe'[Len(pipe) + 1] = r
    BY <1>1 DEF Parts, PipeOK
  <2>2. \A i \in 1 .. Len(pipe) : pipe[i] \in arrived /\ pipe[i] # r
    BY <1>1 DEF Parts, PipeOK
  <2>3. \A i \in 1 .. Len(pipe') : pipe'[i] \in arrived'
    BY <1>1, <2>1, <2>2
  <2>4. ASSUME NEW i \in 1 .. Len(pipe'), NEW j \in 1 .. Len(pipe'), pipe'[i] = pipe'[j]
        PROVE  i = j
    <3>1. \A k, l \in 1 .. Len(pipe) : pipe[k] = pipe[l] => k = l
      BY DEF Parts, PipeOK
    <3>2. QED
      BY <2>1, <2>2, <2>4, <3>1
  <2>5. arrived' \subseteq Request /\ Len(pipe') <= PipeSize
    BY <1>1, <2>1, WorkerAssumption DEF Parts, PipeOK
  <2>6. QED
    BY <2>1, <2>3, <2>4, <2>5 DEF PipeOK
<1>5. QED
  BY <1>2, <1>3, <1>4 DEF Parts

(* Worker_scheduleNewJob takes the first request from the pipe. *)
LEMMA PartsRead ==
  ASSUME Parts, Read
  PROVE  /\ Parts'
         /\ Head(pipe) \in Request
         /\ attempts' = [attempts EXCEPT ![Head(pipe)] = @ + 1]
         /\ pc' \in {"limit", "exit"}
<1>1. /\ pc = "read" /\ pipe # <<>> /\ pipe' = Tail(pipe)
      /\ todo' = Repeats(Head(pipe), taken)
      /\ Worker_executeJob(Head(pipe), "limit")
      /\ UNCHANGED <<now, eof, queue, timeout, taken, read_errors, error_count, arrived>>
  BY DEF Read
<1>2. /\ pipe \in Seq(Request) /\ Len(pipe) \in Nat /\ Len(pipe) > 0
      /\ Head(pipe) = pipe[1] /\ Head(pipe) \in Request
      /\ pipe' \in Seq(Request) /\ Len(pipe') = Len(pipe) - 1
      /\ \A i \in 1 .. Len(pipe') : pipe'[i] = pipe[i + 1]
  BY <1>1 DEF Parts, PipeOK
<1>3. /\ attempts' = [attempts EXCEPT ![Head(pipe)] = @ + 1]
      /\ AttemptsOK'
      /\ sleeping' \in BOOLEAN
      /\ pc' = "limit" \/ pc' = "exit"
      /\ send_errors' \in 0 .. MAX_ERRORS + 1
      /\ pc' # "exit" => send_errors' <= MAX_ERRORS
  BY <1>1, <1>2, ExecuteStep
<1>4. /\ todo' \in Seq(Job) /\ Len(todo') = Total(Head(pipe)) - 1
      /\ \A i \in 1 .. Len(todo') : todo'[i].rq = Head(pipe)
  BY <1>1, <1>2, RepeatsJobs DEF Parts, Clock
<1>5. Len(todo') > 0
  BY <1>4 DEF Total
<1>6. TodoOK' /\ todo' # <<>>
  BY <1>4, <1>5 DEF TodoOK
<1>7. Clock' /\ Errors'
  BY <1>1, <1>3 DEF Parts, Clock, Errors
<1>8. Flags'
  BY <1>1, <1>3 DEF Parts, Flags
<1>9. Place'
  BY <1>3, <1>6 DEF Place
<1>10. QueueOK'
  BY <1>1 DEF Parts, QueueOK, count, Heap!Size
<1>11. PipeOK'
  <2>1. \A i \in 1 .. Len(pipe') : pipe'[i] \in arrived'
    BY <1>1, <1>2 DEF Parts, PipeOK
  <2>2. ASSUME NEW i \in 1 .. Len(pipe'), NEW j \in 1 .. Len(pipe'), pipe'[i] = pipe'[j]
        PROVE  i = j
    <3>1. i + 1 \in 1 .. Len(pipe) /\ j + 1 \in 1 .. Len(pipe)
      BY <1>2
    <3>2. pipe[i + 1] = pipe[j + 1]
      BY <1>2, <2>2
    <3>3. i + 1 = j + 1
      BY <3>1, <3>2 DEF Parts, PipeOK
    <3>4. QED
      BY <3>3
  <2>3. arrived' \subseteq Request /\ Len(pipe') <= PipeSize
    BY <1>1, <1>2, WorkerAssumption DEF Parts, PipeOK
  <2>4. QED
    BY <1>2, <2>1, <2>2, <2>3 DEF PipeOK
<1>12. QED
  BY <1>2, <1>3, <1>6, <1>7, <1>8, <1>9, <1>10, <1>11 DEF Parts
(* PriorityQueue_insert of one repetition. *)
LEMMA PartsInsert ==
  ASSUME Parts, Insert
  PROVE  /\ Parts'
         /\ todo # <<>> /\ todo' = Tail(todo) /\ pc = "insert"
         /\ queue' = Heap!insert(queue, todo[1])
         /\ UNCHANGED <<pipe, arrived, attempts>>
<1>1. /\ pc = "insert" /\ queue' = Heap!insert(queue, Head(todo)) /\ todo' = Tail(todo)
      /\ IF Len(todo) = 1 THEN pc' = "due" /\ read_errors' = 0
         ELSE UNCHANGED <<pc, read_errors>>
      /\ UNCHANGED <<now, pipe, eof, sleeping, timeout, taken, send_errors,
                     error_count, arrived, attempts>>
  BY DEF Insert
<1>2. /\ todo # <<>> /\ todo \in Seq(Job) /\ Len(todo) \in Nat /\ Len(todo) > 0
      /\ Head(todo) = todo[1] /\ todo[1] \in Job
      /\ todo' \in Seq(Job) /\ Len(todo') = Len(todo) - 1
      /\ \A i \in 1 .. Len(todo') : todo'[i] = todo[i + 1]
  BY <1>1 DEF Parts, Place, TodoOK
<1>3. TodoOK'
  <2>1. ASSUME NEW i \in 1 .. Len(todo') PROVE todo'[i].rq = todo'[1].rq
    <3>1. i + 1 \in 1 .. Len(todo) /\ 1 \in 1 .. Len(todo') /\ 1 + 1 \in 1 .. Len(todo)
      BY <1>2
    <3>2. todo'[i] = todo[i + 1] /\ todo'[1] = todo[1 + 1]
      BY <1>2, <3>1
    <3>3. todo[i + 1].rq = todo[1].rq /\ todo[1 + 1].rq = todo[1].rq
      BY <3>1 DEF Parts, TodoOK
    <3>4. QED
      BY <3>2, <3>3
  <2>2. QED
    BY <1>2, <2>1 DEF TodoOK
<1>4. Place' /\ Errors'
  <2>1. CASE Len(todo) = 1
    <3>1. todo' = <<>>
      BY <1>2, <2>1
    <3>2. QED
      BY <1>1, <2>1, <3>1, WorkerAssumption DEF Parts, Place, Errors
  <2>2. CASE Len(todo) # 1
    <3>1. todo' # <<>>
      BY <1>2, <2>2
    <3>2. QED
      BY <1>1, <2>2, <3>1 DEF Parts, Place, Errors
  <2>3. QED
    BY <2>1, <2>2
<1>5. Clock' /\ PipeOK' /\ AttemptsOK' /\ Flags'
  BY <1>1 DEF Parts, Clock, PipeOK, AttemptsOK, Flags
<1>6. QueueOK'
  <2> DEFINE n == count
  <2>1. n \in Nat /\ DOMAIN queue = 0 .. n - 1 /\ \A i \in 0 .. n - 1 : queue[i] \in Job
    BY DEF Parts, QueueOK
  <2> HIDE DEF n
  <2>2. DOMAIN queue' = 0 .. n
    BY <1>1, <2>1, InsertMoves
  <2>3. PICK g : Inserted(queue', queue, todo[1], n, g)
    BY <1>1, <1>2, <2>1, InsertMoves
  <2>4. /\ \A i \in 0 .. n : g[i] \in 0 .. n
        /\ \A i \in 0 .. n : queue'[i] = IF g[i] = n THEN todo[1] ELSE queue[g[i]]
    BY <2>3 DEF Inserted, OneToOne
  <2>5. ASSUME NEW i \in 0 .. n PROVE queue'[i] \in Job
    <3>1. CASE g[i] = n
      BY <3>1, <2>4, <1>2
    <3>2. CASE g[i] # n
      <4>1. g[i] \in 0 .. n - 1
        BY <3>2, <2>1, <2>4
      <4>2. QED
        BY <4>1, <3>2, <2>1, <2>4
    <3>3. QED
      BY <3>1, <3>2
  <2>6. count' = n + 1
    <3>1. Cardinality(0 .. n) = n + 1
      BY <2>1, FS_Interval
    <3>2. QED
      BY <2>2, <3>1, SizeIsCardinality DEF count
  <2>7. QED
    BY <2>1, <2>2, <2>5, <2>6 DEF QueueOK
<1>7. QED
  BY <1>1, <1>2, <1>3, <1>4, <1>5, <1>6 DEF Parts

(* A job that is due is sent, and extracted unless the process gave up. *)
LEMMA PartsSend ==
  ASSUME Parts, Send
  PROVE  /\ Parts'
         /\ queue[0].rq \in Request /\ count > 0
         /\ attempts' = [attempts EXCEPT ![queue[0].rq] = @ + 1]
         /\ pc = "drain"
         /\ pc' # "exit" => queue' = Heap!extract(queue)
         /\ UNCHANGED <<pipe, arrived, todo>>
<1>1. /\ pc = "drain" /\ count > 0
      /\ Worker_executeJob(queue[0].rq, "drain")
      /\ queue' = IF pc' = "exit" THEN queue ELSE Heap!extract(queue)
      /\ UNCHANGED <<now, pipe, eof, timeout, taken, todo, read_errors,
                     error_count, arrived>>
  BY DEF Send
<1> DEFINE n == count - 1
<1>2. n \in Nat /\ count = n + 1 /\ DOMAIN queue = 0 .. n /\ \A i \in 0 .. n : queue[i] \in Job
  BY <1>1 DEF Parts, QueueOK
<1>3. queue[0].rq \in Request
  BY <1>2, JobFields
<1> HIDE DEF n
<1>4. /\ attempts' = [attempts EXCEPT ![queue[0].rq] = @ + 1]
      /\ AttemptsOK'
      /\ sleeping' \in BOOLEAN
      /\ pc' = "drain" \/ pc' = "exit"
      /\ send_errors' \in 0 .. MAX_ERRORS + 1
      /\ pc' # "exit" => send_errors' <= MAX_ERRORS
  BY <1>1, <1>3, ExecuteStep
<1>5. Clock' /\ Errors' /\ PipeOK' /\ TodoOK'
  BY <1>1, <1>4 DEF Parts, Clock, Errors, PipeOK, TodoOK
<1>6. Flags'
  BY <1>1, <1>4 DEF Parts, Flags
<1>7. Place'
  BY <1>1, <1>4 DEF Parts, Place
<1>8. QueueOK'
  <2>1. CASE pc' = "exit"
    BY <1>1, <2>1 DEF Parts, QueueOK, count, Heap!Size
  <2>2. CASE pc' # "exit"
    <3>1. queue' = Heap!extract(queue)
      BY <1>1, <2>2
    <3>2. DOMAIN queue' = 0 .. n - 1
      BY <1>2, <3>1, ExtractMoves
    <3>3. PICK g : Extracted(queue', queue, n, g)
      BY <1>2, <3>1, ExtractMoves
    <3>4. /\ \A i \in 0 .. n - 1 : g[i] \in 1 .. n
          /\ \A i \in 0 .. n - 1 : queue'[i] = queue[g[i]]
      BY <3>3 DEF Extracted, OneToOne
    <3>5. ASSUME NEW i \in 0 .. n - 1 PROVE queue'[i] \in Job
      BY <3>4, <1>2
    <3>6. count' = n
      <4>1. Cardinality(0 .. n - 1) = n
        BY <1>2, FS_Interval
      <4>2. QED
        BY <3>2, <4>1, SizeIsCardinality DEF count
    <3>7. QED
      BY <1>2, <3>2, <3>5, <3>6 DEF QueueOK
  <2>3. QED
    BY <2>1, <2>2
<1>9. QED
  BY <1>1, <1>3, <1>4, <1>5, <1>6, <1>7, <1>8 DEF Parts

(* All actions together. *)
LEMMA PartsNext ==
  ASSUME Parts, [Next]_vars
  PROVE  Parts'
<1>1. CASE \E r \in Request : Worker_sendJob(r)
  BY <1>1, PartsSendJob
<1>2. CASE MainExits \/ Tick \/ Top \/ Readable \/ Timeout \/ Limit \/ Due \/ Drained
  BY <1>2, PartsIdle
<1>3. CASE SelectFails \/ ReadFails
  BY <1>3, PartsFailing
<1>4. CASE Read
  BY <1>4, PartsRead
<1>5. CASE Insert
  BY <1>5, PartsInsert
<1>6. CASE Send
  BY <1>6, PartsSend
<1>7. CASE UNCHANGED vars
  <2>1. PipeOK' /\ QueueOK' /\ TodoOK' /\ AttemptsOK'
    BY <1>7, StoreStays DEF vars
  <2>2. Clock' /\ Flags' /\ Place' /\ Errors'
    BY <1>7 DEF Parts, vars, Clock, Flags, Place, Errors
  <2>3. QED
    BY <2>1, <2>2 DEF Parts
<1>8. QED
  BY <1>1, <1>2, <1>3, <1>4, <1>5, <1>6, <1>7 DEF Next, Run
-----------------------------------------------------------------------------
(* The summands are numbers. *)
LEMMA Summands ==
  ASSUME Parts, NEW r \in Request
  PROVE  attempts[r] \in Nat /\ Queued(r) \in Nat /\ ToInsert(r) \in Nat
<1>1. attempts[r] \in Nat
  BY DEF Parts, AttemptsOK
<1>2. Queued(r) \in Nat
  <2>1. count - 1 \in Int /\ DOMAIN queue = 0 .. count - 1
    BY DEF Parts, QueueOK
  <2> HIDE DEF count
  <2>2. QED
    BY <2>1, SlotsFinite, QueuedCount
<1>3. ToInsert(r) \in Nat
  <2>1. Len(todo) \in Nat
    BY DEF Parts, TodoOK
  <2>2. QED
    BY <2>1, ToInsertCount DEF Parts
<1>4. QED
  BY <1>1, <1>2, <1>3

(* A step that leaves the pipe, the queue and the histories alone keeps the *)
(* sums.                                                                    *)
LEMMA SumsStay ==
  ASSUME Sums, UNCHANGED <<pipe, arrived, queue, todo, attempts>>,
         pc' # "exit" => pc # "exit"
  PROVE  Sums'
BY DEF Sums, Accounted, Queued, ToInsert, Unread, Total

(* A request that was just written is still unread. *)
LEMMA SumsSendJob ==
  ASSUME IInv, NEW w \in Request, Worker_sendJob(w)
  PROVE  Sums'
<1>1. /\ w \notin arrived /\ arrived' = arrived \cup {w} /\ pipe' = Append(pipe, w)
      /\ pc # "exit" /\ UNCHANGED <<queue, todo, attempts>>
  BY DEF Worker_sendJob
<1>2. /\ Len(pipe) \in Nat /\ DOMAIN pipe = 1 .. Len(pipe)
      /\ DOMAIN pipe' = 1 .. Len(pipe) + 1
      /\ \A i \in 1 .. Len(pipe) : pipe'[i] = pipe[i]
      /\ pipe'[Len(pipe) + 1] = w
  BY <1>1 DEF IInv, Parts, PipeOK
<1>3. \A r : (\E i \in DOMAIN pipe' : pipe'[i] = r) <=> (r = w \/ \E i \in DOMAIN pipe : pipe[i] = r)
  BY <1>2
<1>4. \A r : Unread(r)' <=> Unread(r)
  BY <1>1, <1>3 DEF Unread
<1>5. \A r \in Request : Accounted(r)
  BY <1>1 DEF IInv, Sums
<1>6. ASSUME NEW r \in Request PROVE Accounted(r)'
  BY <1>1, <1>4, <1>5 DEF Accounted, Queued, ToInsert, Total
<1>7. QED
  BY <1>6 DEF Sums, Accounted

(* The request that is read is answered once, and all its repetitions are   *)
(* still to insert.                                                         *)
LEMMA SumsRead ==
  ASSUME IInv, Read
  PROVE  Sums'
<1>0. PICK w \in Request : w = Head(pipe)
  BY PartsRead DEF IInv
<1>1. /\ pc = "read" /\ pipe # <<>> /\ pipe' = Tail(pipe)
      /\ todo' = Repeats(w, taken)
      /\ UNCHANGED <<queue, arrived>>
  BY <1>0 DEF Read
<1>2. /\ Parts' /\ w \in Request
      /\ attempts' = [attempts EXCEPT ![w] = @ + 1]
  BY <1>0, PartsRead DEF IInv
<1>3. /\ Len(pipe) \in Nat /\ DOMAIN pipe = 1 .. Len(pipe) /\ Len(pipe) > 0
      /\ w = pipe[1] /\ DOMAIN pipe' = 1 .. Len(pipe) - 1
      /\ \A i \in 1 .. Len(pipe) - 1 : pipe'[i] = pipe[i + 1]
      /\ w \in arrived
      /\ \A i, j \in 1 .. Len(pipe) : pipe[i] = pipe[j] => i = j
  BY <1>0, <1>1 DEF IInv, Parts, PipeOK
<1>4. \A r \in Request : Accounted(r)
  BY <1>1 DEF IInv, Sums
<1>5. /\ Len(todo') = Total(w) - 1 /\ todo' # <<>> /\ todo'[1].rq = w
  <2>1. /\ todo' \in Seq(Job) /\ Len(todo') = Total(w) - 1
        /\ \A i \in 1 .. Len(todo') : todo'[i].rq = w
    BY <1>1, <1>2, RepeatsJobs DEF IInv, Parts, Clock
  <2>2. Len(todo') \in Nat /\ Len(todo') > 0
    BY <2>1 DEF Total
  <2>3. QED
    BY <2>1, <2>2
<1>6. \A r : Queued(r)' = Queued(r)
  BY <1>1 DEF Queued
<1>7. \A r : ToInsert(r) = 0 /\ ToInsert(r)' = IF r = w THEN Total(w) - 1 ELSE 0
  <2>1. todo = <<>>
    BY <1>1 DEF IInv, Parts, Place
  <2>2. TodoOK /\ TodoOK'
    BY <1>2 DEF IInv, Parts
  <2>3. \A r : ToInsert(r) = 0
    BY <2>1, <2>2, ToInsertCount
  <2>4. \A r : ToInsert(r)' = IF todo' # <<>> /\ todo'[1].rq = r THEN Len(todo') ELSE 0
    BY <2>2, ToInsertCountNext
  <2>5. QED
    BY <2>3, <2>4, <1>5
<1>8. ASSUME NEW r \in Request PROVE Accounted(r)'
  <2>1. CASE r = w
    <3>1. Unread(w)
      BY <1>3 DEF Unread
    <3>2. ~ Unread(w)'
      <4>1. ASSUME NEW i \in DOMAIN pipe', pipe'[i] = w PROVE FALSE
        <5>1. i + 1 \in 1 .. Len(pipe) /\ 1 \in 1 .. Len(pipe) /\ pipe[i + 1] = pipe[1]
          BY <1>3, <4>1
        <5>2. i + 1 = 1
          BY <5>1, <1>3
        <5>3. QED
          BY <5>2, <1>3
      <4>2. QED
        BY <4>1, <1>1, <1>3 DEF Unread
    <3>3. attempts[w] = 0 /\ Queued(w) = 0
      <4>1. attempts[w] + Queued(w) + ToInsert(w) = 0
        BY <1>2, <1>4, <3>1 DEF Accounted
      <4>2. attempts[w] \in Nat /\ Queued(w) \in Nat /\ ToInsert(w) \in Nat
        BY <1>2, Summands DEF IInv
      <4>3. QED
        BY <4>1, <4>2
    <3>4. attempts'[w] = 1
      BY <3>3, <1>2 DEF IInv, Parts, AttemptsOK
    <3>5. Queued(w)' = 0 /\ ToInsert(w)' = Total(w) - 1 /\ Total(w) \in Nat
      BY <3>3, <1>6, <1>7 DEF Total
    <3>6. (attempts[w] + Queued(w) + ToInsert(w))' = Total(w)
      BY <3>4, <3>5
    <3>7. QED
      BY <2>1, <3>2, <3>6 DEF Accounted, Total
  <2>2. CASE r # w
    <3>1. attempts'[r] = attempts[r]
      BY <1>2, <2>2 DEF IInv, Parts, AttemptsOK
    <3>2. ToInsert(r)' = ToInsert(r) /\ Queued(r)' = Queued(r)
      BY <1>6, <1>7, <2>2
    <3>3. Unread(r)' <=> Unread(r)
      <4>1. ASSUME NEW i \in DOMAIN pipe', pipe'[i] = r
            PROVE  \E k \in DOMAIN pipe : pipe[k] = r
        <5>1. i + 1 \in DOMAIN pipe /\ pipe[i + 1] = r
          BY <1>3, <4>1
        <5>2. QED
          BY <5>1
      <4>2. ASSUME NEW k \in DOMAIN pipe, pipe[k] = r
            PROVE  \E i \in DOMAIN pipe' : pipe'[i] = r
        <5>1. k - 1 \in DOMAIN pipe' /\ pipe'[k - 1] = pipe[k]
          BY <1>3, <4>2, <2>2
        <5>2. QED
          BY <5>1, <4>2
      <4>3. QED
        BY <4>1, <4>2, <1>1 DEF Unread
    <3>4. QED
      BY <3>1, <3>2, <3>3, <1>4 DEF Accounted, Total
  <2>3. QED
    BY <2>1, <2>2
<1>9. QED
  BY <1>8 DEF Sums, Accounted
(* A repetition moves from the jobs to insert to the queue. *)
LEMMA SumsInsert ==
  ASSUME IInv, Insert
  PROVE  Sums'
<1>1. /\ Parts' /\ todo # <<>> /\ todo' = Tail(todo) /\ pc = "insert"
      /\ queue' = Heap!insert(queue, todo[1])
      /\ UNCHANGED <<pipe, arrived, attempts>>
  BY PartsInsert DEF IInv
<1>2. \A r \in Request : Accounted(r)
  BY <1>1 DEF IInv, Sums
<1>3. TodoOK /\ TodoOK'
  BY <1>1 DEF IInv, Parts
<1>4. ASSUME NEW r \in Request
      PROVE  Queued(r)' = Queued(r) + (IF todo[1].rq = r THEN 1 ELSE 0)
  <2> DEFINE n == count
  <2>1. n \in Nat /\ DOMAIN queue = 0 .. n - 1
    BY DEF IInv, Parts, QueueOK
  <2> HIDE DEF n
  <2>2. Cardinality(Slots(queue', r))
        = Cardinality(Slots(queue, r)) + (IF todo[1].rq = r THEN 1 ELSE 0)
    BY <1>1, <2>1, InsertCounts
  <2>3. Queued(r)' = Cardinality(Slots(queue', r))
    BY DEF Queued, Slots
  <2>4. QED
    BY <2>2, <2>3, QueuedCount
<1>5. ASSUME NEW r \in Request
      PROVE  ToInsert(r)' + (IF todo[1].rq = r THEN 1 ELSE 0) = ToInsert(r)
  <2>1. /\ Len(todo) \in Nat /\ Len(todo) > 0 /\ Len(todo') = Len(todo) - 1
        /\ Len(todo) > 1 => todo'[1] = todo[2] /\ todo[2].rq = todo[1].rq
        /\ todo' = <<>> <=> Len(todo) = 1
    <3>1. todo \in Seq(Job) /\ Len(todo) \in Nat /\ Len(todo) > 0
      BY <1>1, <1>3 DEF TodoOK
    <3>2. todo' \in Seq(Job) /\ Len(todo') = Len(todo) - 1
      BY <1>1, <3>1
    <3>3. Len(todo) > 1 => todo'[1] = todo[2]
      BY <1>1, <3>1
    <3>4. Len(todo) > 1 => todo[2].rq = todo[1].rq
      BY <1>3, <3>1 DEF TodoOK
    <3>5. todo' = <<>> <=> Len(todo) = 1
      <4>1. todo' = <<>> <=> Len(todo') = 0
        BY <3>2
      <4>2. QED
        BY <4>1, <3>1, <3>2
    <3>6. QED
      BY <3>1, <3>2, <3>3, <3>4, <3>5
  <2>2. ToInsert(r) = IF todo[1].rq = r THEN Len(todo) ELSE 0
    BY <1>1, <1>3, ToInsertCount
  <2>3. ToInsert(r)' = IF todo[1].rq = r THEN Len(todo) - 1 ELSE 0
    <3>1. ToInsert(r)' = IF todo' # <<>> /\ todo'[1].rq = r THEN Len(todo') ELSE 0
      BY <1>3, ToInsertCountNext
    <3>2. QED
      BY <2>1, <3>1
  <2>4. QED
    BY <2>1, <2>2, <2>3
<1>6. ASSUME NEW r \in Request PROVE Accounted(r)'
  <2>1. attempts[r] \in Nat /\ Queued(r) \in Nat /\ ToInsert(r) \in Nat
    BY Summands DEF IInv
  <2>2. ToInsert(r)' \in Nat
    <3>1. ToInsert(r)' = IF todo' # <<>> /\ todo'[1].rq = r THEN Len(todo') ELSE 0
      BY <1>3, ToInsertCountNext
    <3>2. Len(todo') \in Nat
      BY <1>3 DEF TodoOK
    <3>3. QED
      BY <3>1, <3>2
  <2>3. attempts[r] + Queued(r)' + ToInsert(r)' = attempts[r] + Queued(r) + ToInsert(r)
    BY <1>4, <1>5, <2>1, <2>2
  <2>4. Unread(r)' <=> Unread(r)
    BY <1>1 DEF Unread
  <2>5. QED
    BY <1>1, <1>2, <2>3, <2>4 DEF Accounted, Total
<1>7. QED
  BY <1>6 DEF Sums, Accounted

(* A job that is sent leaves the queue as its attempt is counted. *)
LEMMA SumsSend ==
  ASSUME IInv, Send
  PROVE  Sums'
<1> SUFFICES ASSUME pc' # "exit" PROVE Sums'
  BY DEF Sums
<1>0. PICK w \in Request : w = queue[0].rq
  BY PartsSend DEF IInv
<1>1. /\ count > 0 /\ pc = "drain"
      /\ attempts' = [attempts EXCEPT ![w] = @ + 1]
      /\ queue' = Heap!extract(queue)
      /\ UNCHANGED <<pipe, arrived, todo>>
  BY <1>0, PartsSend DEF IInv
<1>2. \A r \in Request : Accounted(r)
  BY <1>1 DEF IInv, Sums
<1>3. Parts'
  BY PartsSend DEF IInv
<1>4. ASSUME NEW r \in Request
      PROVE  Queued(r)' \in Nat /\ Queued(r)' + (IF w = r THEN 1 ELSE 0) = Queued(r)
  <2> DEFINE n == count - 1
  <2>1. n \in Nat /\ DOMAIN queue = 0 .. n
    BY <1>1 DEF IInv, Parts, QueueOK
  <2> HIDE DEF n
  <2>2. Cardinality(Slots(queue', r)) + (IF w = r THEN 1 ELSE 0) = Cardinality(Slots(queue, r))
    BY <1>0, <1>1, <2>1, ExtractCounts
  <2>3. Queued(r)' = Cardinality(Slots(queue', r))
    BY DEF Queued, Slots
  <2>4. DOMAIN queue' = 0 .. n - 1 /\ n - 1 \in Int
    BY <1>1, <2>1, ExtractMoves
  <2>5. Cardinality(Slots(queue', r)) \in Nat
    BY <2>4, SlotsFinite
  <2>6. QED
    BY <2>2, <2>3, <2>5, QueuedCount
<1>5. ASSUME NEW r \in Request PROVE Accounted(r)'
  <2>1. attempts[r] \in Nat /\ Queued(r) \in Nat /\ ToInsert(r) \in Nat
    BY Summands DEF IInv
  <2>2. attempts'[r] = attempts[r] + (IF w = r THEN 1 ELSE 0)
    BY <1>1, <2>1 DEF IInv, Parts, AttemptsOK
  <2>3. ToInsert(r)' = ToInsert(r) /\ (Unread(r)' <=> Unread(r))
    BY <1>1 DEF ToInsert, Unread
  <2>4. attempts'[r] + Queued(r)' + ToInsert(r)' = attempts[r] + Queued(r) + ToInsert(r)
    BY <1>4, <2>1, <2>2, <2>3
  <2>5. QED
    BY <1>2, <2>3, <2>4 DEF Accounted, Total
<1>6. QED
  BY <1>5 DEF Sums, Accounted

(* Every step keeps the invariant. *)
LEMMA NextIInv ==
  ASSUME IInv, [Next]_vars
  PROVE  IInv'
<1>1. Parts'
  BY PartsNext DEF IInv
<1>2. Sums'
  <2>1. CASE \E r \in Request : Worker_sendJob(r)
    BY <2>1, SumsSendJob
  <2>2. CASE MainExits \/ Tick \/ Top \/ Readable \/ Timeout \/ Limit \/ Due \/ Drained
    <3>1. UNCHANGED <<pipe, arrived, queue, todo, attempts>> /\ (pc' # "exit" => pc # "exit")
      BY <2>2 DEF MainExits, Tick, Top, Readable, Timeout, Limit, Due, Drained
    <3>2. QED
      BY <3>1, SumsStay DEF IInv
  <2>3. CASE SelectFails \/ ReadFails
    <3>1. UNCHANGED <<pipe, arrived, queue, todo, attempts>> /\ (pc' # "exit" => pc # "exit")
      BY <2>3 DEF SelectFails, ReadFails
    <3>2. QED
      BY <3>1, SumsStay DEF IInv
  <2>4. CASE Read
    BY <2>4, SumsRead
  <2>5. CASE Insert
    BY <2>5, SumsInsert
  <2>6. CASE Send
    BY <2>6, SumsSend
  <2>7. CASE UNCHANGED vars
    BY <2>7, SumsStay DEF IInv, vars
  <2>8. QED
    BY <2>1, <2>2, <2>3, <2>4, <2>5, <2>6, <2>7 DEF Next, Run
<1>3. QED
  BY <1>1, <1>2 DEF IInv

(* The inductive invariant holds in every reachable state. *)
LEMMA Inductive == Spec => []IInv
<1>1. IInv /\ [Next]_vars => IInv'
  BY NextIInv
<1>2. QED
  BY InitIInv, <1>1, PTL DEF Spec

-----------------------------------------------------------------------------
(* Only requests that were read meet a full queue. *)
LEMMA ExcessNext ==
  ASSUME Parts, excess \subseteq Request, [Next]_vars
  PROVE  excess' \subseteq Request
<1>1. CASE Limit
  <2>1. todo # <<>> /\ todo \in Seq(Job)
    BY <1>1 DEF Limit, Parts, Place, TodoOK
  <2>2. Head(todo) \in Job
    BY <2>1
  <2>3. Head(todo).rq \in Request
    BY <2>2, JobFields
  <2>4. QED
    BY <1>1, <2>3 DEF Limit
<1>2. CASE ~Limit
  <2>1. UNCHANGED excess
    BY <1>2 DEF Next, Run, vars, Worker_sendJob, MainExits, Tick, Top, Readable,
       Timeout, SelectFails, ReadFails, Read, Insert, Due, Send, Drained
  <2>2. QED
    BY <2>1
<1>3. QED
  BY <1>1, <1>2

(* Type correctness: the queue is always an initial segment of the array,   *)
(* the error counters never pass the limit by more than one, and there is   *)
(* something left to insert exactly where Worker_scheduleNewJob is at work. *)
THEOREM TypeCorrect == Spec => []TypeOK
<1>1. IInv /\ excess \subseteq Request => TypeOK
  <2> SUFFICES ASSUME IInv, excess \subseteq Request PROVE TypeOK
    OBVIOUS
  <2>1. Parts
    BY DEF IInv
  <2>2. now \in Nat /\ taken \in Nat /\ timeout \in Nat
    BY <2>1 DEF Parts, Clock
  <2>3. pipe \in Seq(Request) /\ Len(pipe) <= PipeSize /\ arrived \subseteq Request
    BY <2>1 DEF Parts, PipeOK
  <2>4. eof \in BOOLEAN /\ sleeping \in BOOLEAN
    BY <2>1 DEF Parts, Flags
  <2>5. pc \in {"top", "select", "read", "limit", "insert", "due", "drain", "exit"}
    BY <2>1 DEF Parts, Place
  <2>6. /\ DOMAIN queue = 0 .. count - 1
        /\ \A i \in DOMAIN queue : queue[i].rq \in Request /\ queue[i].schedule_time \in Nat
    BY <2>1, JobFields DEF Parts, QueueOK
  <2>7. (todo # <<>>) = (pc \in {"limit", "insert"}) \/ pc = "exit"
    BY <2>1 DEF Parts, Place
  <2>8. /\ send_errors \in 0 .. MAX_ERRORS + 1
        /\ read_errors \in 0 .. MAX_ERRORS + 1
        /\ error_count \in 0 .. MAX_ERRORS + 1
    BY <2>1 DEF Parts, Errors
  <2> HIDE DEF count
  <2>9. QED
    BY <2>2, <2>3, <2>4, <2>5, <2>6, <2>7, <2>8 DEF TypeOK
<1>2. Init => excess \subseteq Request
  BY DEF Init
<1>3. IInv /\ excess \subseteq Request /\ [Next]_vars => (excess \subseteq Request)'
  BY ExcessNext DEF IInv
<1>4. QED
  BY Inductive, <1>1, <1>2, <1>3, PTL DEF Spec

(* Until the worker gives up, every request it has read is accounted for:   *)
(* sent or tried, queued, or about to be queued, four times (six with       *)
(* poisoning) in all, or at most so often if MAX_REQUESTS jobs were queued. *)
(* No failure, sleep or heap operation loses a repetition or makes one too  *)
(* many.                                                                    *)
THEOREM EachRepeated == Spec => []NothingForgotten
<1>1. IInv => NothingForgotten
  BY DEF IInv, Sums, Accounted, Repetitions, Total, NothingForgotten
<1>2. QED
  BY Inductive, <1>1, PTL

(* Whatever the worker sends to everyone claims something about the         *)
(* intruder's own address only; a lie about another host's address is for   *)
(* the intruder alone.                                                      *)
THEOREM BroadcastsHarmless == Spec => []BroadcastOnlyAboutIntruder
<1>1. ASSUME NEW j \in Job
      PROVE  IF j.message.dhost = BCAST_MAC
             THEN j.message.spa = Intruder(j.rq) \/ j.rq.sha = BCAST_MAC
             ELSE j.message.dhost = j.rq.sha /\ j.message.tpa = Intruder(j.rq)
  <2>1. j.rq \in Request /\ j.message \in Messages(j.rq)
    BY JobFields
  <2> DEFINE m == Worker_fillPacket(j.rq)
             p == Worker_poisonJob(m, j.rq)
  <2>2. m.dhost = DestMac(j.rq) /\ m.spa = j.rq.tpa /\ m.tpa = j.rq.spa
    BY DEF Worker_fillPacket
  <2>3. p.dhost = BCAST_MAC /\ p.spa = j.rq.spa
    BY DEF Worker_poisonJob, Worker_fillPacket
  <2>4. j.message = m \/ (j.message = p /\ j.rq.type = "SRC")
    BY <2>1 DEF Messages
  <2> HIDE DEF m, p
  <2>5. CASE j.message = m /\ j.rq.type = "SRC"
    BY <2>2, <2>5 DEF DestMac, Intruder
  <2>6. CASE j.message = m /\ j.rq.type = "DST"
    BY <2>2, <2>6 DEF DestMac, Intruder
  <2>7. CASE j.message = p /\ j.rq.type = "SRC"
    BY <2>3, <2>7 DEF Intruder
  <2>8. j.rq.type \in {"SRC", "DST"}
    BY <2>1, WorkerAssumption
  <2>9. QED
    BY <2>4, <2>5, <2>6, <2>7, <2>8
<1>2. IInv => BroadcastOnlyAboutIntruder
  <2> SUFFICES ASSUME IInv, NEW j \in Pending PROVE j \in Job
    BY <1>1 DEF BroadcastOnlyAboutIntruder
  <2>1. \A i \in DOMAIN queue : queue[i] \in Job
    BY DEF IInv, Parts, QueueOK
  <2>2. \A i \in DOMAIN todo : todo[i] \in Job
    BY DEF IInv, Parts, TodoOK
  <2>3. QED
    BY <2>1, <2>2 DEF Pending
<1>3. QED
  BY Inductive, <1>2, PTL
=============================================================================
