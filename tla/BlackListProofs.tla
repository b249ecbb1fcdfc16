--------------------------- MODULE BlackListProofs ---------------------------
(***************************************************************************)
(* Proofs about the list of blocked addresses for every file, every width  *)
(* of an address and every order in which ties may be sorted: what a query *)
(* is answered with is what the most specific line says (for files without *)
(* ambiguous lines), and, for every file, no answer and no poisoning comes *)
(* from anywhere but a line that was read.                                 *)
(***************************************************************************)
EXTENDS BlackList, TLAPS, FiniteSetTheorems, FunctionTheorems, SequenceTheorems,
        WellFoundedInduction

-----------------------------------------------------------------------------
(* Every non-empty set of numbers has a least one. *)
LEMMA LeastNumber ==
  ASSUME NEW T \in SUBSET Nat, T # {}
  PROVE  \E m \in T : \A k \in T : m <= k
<1>1. PICK m \in T : \A k \in T : ~ (<<k, m>> \in OpToRel(<, Nat))
  BY NatLessThanWellFounded, WFMin, Zenon
<1>2. \A k \in T : ~ (k < m)
  BY <1>1, Zenon DEF OpToRel
<1>3. QED
  BY <1>2

-----------------------------------------------------------------------------
(* One run of Vector_unique over the first m elements. *)
Pass(s, key, m, g) ==
  g = [i \in 0 .. m |-> IF i = 0 THEN <<>>
                        ELSE IF i > 1 /\ key[i] = key[i - 1] THEN g[i - 1]
                        ELSE Append(g[i - 1], s[i])]

(* It can go on with one more element ... *)
LEMMA PassStep ==
  ASSUME NEW s, NEW key, NEW m \in Nat, NEW g, Pass(s, key, m, g)
  PROVE  \E h : Pass(s, key, m + 1, h)
<1> DEFINE last == IF m + 1 > 1 /\ key[m + 1] = key[m] THEN g[m] ELSE Append(g[m], s[m + 1])
           h == [i \in 0 .. m + 1 |-> IF i = m + 1 THEN last ELSE g[i]]
           E(i) == IF i = 0 THEN <<>>
                   ELSE IF i > 1 /\ key[i] = key[i - 1] THEN h[i - 1]
                   ELSE Append(h[i - 1], s[i])
<1>1. \A i \in 0 .. m : h[i] = g[i]
  OBVIOUS
<1>2. ASSUME NEW i \in 0 .. m PROVE h[i] = E(i)
  <2>1. g[i] = IF i = 0 THEN <<>>
               ELSE IF i > 1 /\ key[i] = key[i - 1] THEN g[i - 1]
               ELSE Append(g[i - 1], s[i])
    BY DEF Pass
  <2>2. i # 0 => h[i - 1] = g[i - 1]
    BY <1>1
  <2> HIDE DEF h
  <2>3. QED
    BY <2>1, <2>2, <1>1
<1>3. h[m + 1] = E(m + 1)
  <2>1. h[m + 1] = last /\ h[m] = g[m] /\ m + 1 - 1 = m /\ m + 1 # 0
    OBVIOUS
  <2> HIDE DEF h
  <2>2. QED
    BY <2>1
<1>4. ASSUME NEW i \in 0 .. m + 1 PROVE h[i] = E(i)
  <2>1. i \in 0 .. m \/ i = m + 1
    OBVIOUS
  <2> HIDE DEF h, E
  <2>2. QED
    BY <2>1, <1>2, <1>3
<1>5. h = [i \in 0 .. m + 1 |-> E(i)]
  <2>1. h = [i \in 0 .. m + 1 |-> h[i]]
    OBVIOUS
  <2> HIDE DEF h
  <2>2. QED
    BY <2>1, <1>4
<1>6. Pass(s, key, m + 1, h)
  BY <1>5 DEF Pass
<1>7. QED
  BY <1>6

(* ... and so with all of them. *)
LEMMA PassExists ==
  ASSUME NEW s, NEW key, NEW n \in Nat
  PROVE  \E g : Pass(s, key, n, g)
<1> DEFINE Bad == {m \in Nat : ~ \E g : Pass(s, key, m, g)}
<1>1. 0 \notin Bad
  <2> DEFINE g == [i \in 0 .. 0 |-> <<>>]
  <2>1. Pass(s, key, 0, g)
    BY DEF Pass
  <2>2. QED
    BY <2>1
<1>2. ASSUME Bad # {} PROVE FALSE
  <2>1. PICK m \in Bad : \A k \in Bad : m <= k
    BY <1>2, LeastNumber
  <2>2. m - 1 \in Nat /\ ~ (m <= m - 1)
    BY <1>1, <2>1
  <2>3. \E g : Pass(s, key, m - 1, g)
    BY <2>1, <2>2
  <2>4. \E g : Pass(s, key, m - 1 + 1, g)
    BY <2>2, <2>3, PassStep
  <2>5. QED
    BY <2>1, <2>4
<1>3. QED
  BY <1>2

(* What is kept of the first m elements: f gives the places it comes from;  *)
(* they are in order, and every element has a kept one before it (or is it) *)
(* with only its own key in between.                                        *)
Keeps(u, s, key, m, f) ==
  /\ f \in [1 .. Len(u) -> 1 .. m]
  /\ \A a \in 1 .. Len(u) : u[a] = s[f[a]]
  /\ \A a, b \in 1 .. Len(u) : a < b => f[a] < f[b]
  /\ \A j \in 1 .. m : \E a \in 1 .. Len(u) :
       f[a] <= j /\ \A k \in f[a] .. j : key[k] = key[j]

(* One more element is kept ... *)
LEMMA KeepsMore ==
  ASSUME NEW T, NEW s, NEW key, NEW m \in Nat, NEW u \in Seq(T), NEW f,
         Keeps(u, s, key, m, f), s[m + 1] \in T
  PROVE  /\ Append(u, s[m + 1]) \in Seq(T)
         /\ \E h : Keeps(Append(u, s[m + 1]), s, key, m + 1, h)
<1> DEFINE n == Len(u)
           v == Append(u, s[m + 1])
           h == [a \in 1 .. n + 1 |-> IF a = n + 1 THEN m + 1 ELSE f[a]]
<1>1. /\ n \in Nat /\ v \in Seq(T) /\ Len(v) = n + 1 /\ v[n + 1] = s[m + 1]
      /\ \A a \in 1 .. n : v[a] = u[a]
  OBVIOUS
<1>2. /\ \A a \in 1 .. n : f[a] \in 1 .. m
      /\ \A a \in 1 .. n : u[a] = s[f[a]]
      /\ \A a, b \in 1 .. n : a < b => f[a] < f[b]
      /\ \A j \in 1 .. m : \E a \in 1 .. n :
           f[a] <= j /\ \A k \in f[a] .. j : key[k] = key[j]
  BY DEF Keeps
<1> HIDE DEF v, n
<1>3. h[n + 1] = m + 1 /\ \A a \in 1 .. n : h[a] = f[a]
  BY <1>1
<1>4. h \in [1 .. Len(v) -> 1 .. m + 1]
  BY <1>1, <1>2
<1> HIDE DEF h
<1>5. ASSUME NEW a \in 1 .. Len(v) PROVE v[a] = s[h[a]]
  <2>1. CASE a = n + 1
    BY <2>1, <1>1, <1>3
  <2>2. CASE a # n + 1
    <3>1. a \in 1 .. n
      BY <2>2, <1>1
    <3>2. QED
      BY <3>1, <1>1, <1>2, <1>3
  <2>3. QED
    BY <2>1, <2>2
<1>6. ASSUME NEW a \in 1 .. Len(v), NEW b \in 1 .. Len(v), a < b PROVE h[a] < h[b]
  <2>1. CASE b = n + 1
    BY <2>1, <1>1, <1>2, <1>3, <1>6
  <2>2. CASE b # n + 1
    <3>1. a \in 1 .. n /\ b \in 1 .. n
      BY <2>2, <1>1, <1>6
    <3>2. QED
      BY <3>1, <1>2, <1>3, <1>6
  <2>3. QED
    BY <2>1, <2>2
<1>7. ASSUME NEW j \in 1 .. m + 1
      PROVE  \E a \in 1 .. Len(v) : h[a] <= j /\ \A k \in h[a] .. j : key[k] = key[j]
  <2>1. CASE j = m + 1
    <3>1. n + 1 \in 1 .. Len(v) /\ h[n + 1] <= j /\ \A k \in h[n + 1] .. j : k = j
      BY <2>1, <1>1, <1>3
    <3>2. QED
      BY <3>1
  <2>2. CASE j # m + 1
    <3>1. j \in 1 .. m
      BY <2>2
    <3>2. PICK a \in 1 .. n : f[a] <= j /\ \A k \in f[a] .. j : key[k] = key[j]
      BY <3>1, <1>2
    <3>3. a \in 1 .. Len(v) /\ h[a] = f[a]
      BY <1>1, <1>3
    <3>4. QED
      BY <3>2, <3>3
  <2>3. QED
    BY <2>1, <2>2
<1>8. Keeps(v, s, key, m + 1, h)
  BY <1>4, <1>5, <1>6, <1>7 DEF Keeps
<1>9. QED
  BY <1>1, <1>8 DEF v

(* ... or has the key of the one before it. *)
LEMMA KeepsSame ==
  ASSUME NEW s, NEW key, NEW m \in Nat \ {0}, NEW u, NEW f,
         Keeps(u, s, key, m, f), key[m + 1] = key[m]
  PROVE  Keeps(u, s, key, m + 1, f)
<1> DEFINE D == 1 .. Len(u)
<1>1. /\ f \in [D -> 1 .. m]
      /\ \A a \in D : u[a] = s[f[a]]
      /\ \A a, b \in D : a < b => f[a] < f[b]
      /\ \A j \in 1 .. m : \E a \in D :
           f[a] <= j /\ \A k \in f[a] .. j : key[k] = key[j]
  BY DEF Keeps
<1> HIDE DEF D
<1>2. f \in [D -> 1 .. m + 1]
  <2>1. 1 .. m \subseteq 1 .. m + 1
    OBVIOUS
  <2>2. QED
    BY <1>1, <2>1
<1>3. ASSUME NEW j \in 1 .. m + 1
      PROVE  \E a \in D : f[a] <= j /\ \A k \in f[a] .. j : key[k] = key[j]
  <2>1. CASE j = m + 1
    <3>1. PICK a \in D : f[a] <= m /\ \A k \in f[a] .. m : key[k] = key[m]
      BY <1>1
    <3>2. f[a] \in 1 .. m
      BY <1>1
    <3>3. ASSUME NEW k \in f[a] .. j PROVE key[k] = key[j]
      <4>1. CASE k = m + 1
        BY <4>1, <2>1
      <4>2. CASE k # m + 1
        <5>1. k \in f[a] .. m
          BY <4>2, <2>1, <3>2
        <5>2. QED
          BY <5>1, <3>1, <2>1
      <4>3. QED
        BY <4>1, <4>2
    <3>4. f[a] <= j
      BY <3>2, <2>1
    <3>5. QED
      BY <3>3, <3>4
  <2>2. CASE j # m + 1
    <3>1. j \in 1 .. m
      BY <2>2
    <3>2. QED
      BY <3>1, <1>1
  <2>3. QED
    BY <2>1, <2>2
<1>4. QED
  BY <1>1, <1>2, <1>3 DEF Keeps, D

(* Hence after the whole run, by induction over the elements. *)
LEMMA UniqueKeeps ==
  ASSUME NEW T, NEW s \in Seq(T), NEW key
  PROVE  /\ Unique(s, key) \in Seq(T)
         /\ \E f : Keeps(Unique(s, key), s, key, Len(s), f)
<1> DEFINE n == Len(s)
<1>1. n \in Nat /\ \A i \in 1 .. n : s[i] \in T
  OBVIOUS
<1>2. PICK g : Pass(s, key, n, g) /\ Unique(s, key) = g[n]
  <2>1. \E g : Pass(s, key, n, g)
    BY <1>1, PassExists
  <2> DEFINE G == CHOOSE g : Pass(s, key, n, g)
  <2>2. Pass(s, key, n, G)
    BY <2>1, Zenon
  <2>3. Unique(s, key) = G[n]
    BY Zenon DEF Unique, Pass
  <2>4. QED
    BY <2>2, <2>3
<1> DEFINE Good(m) == g[m] \in Seq(T) /\ \E f : Keeps(g[m], s, key, m, f)
           Bad == {m \in 0 .. n : ~ Good(m)}
<1>3. g[0] = <<>>
  BY <1>1, <1>2 DEF Pass
<1>4. ASSUME NEW m \in 0 .. n, m # 0
      PROVE  g[m] = IF m > 1 /\ key[m] = key[m - 1] THEN g[m - 1] ELSE Append(g[m - 1], s[m])
  BY <1>1, <1>2, <1>4 DEF Pass
<1>5. Good(0)
  <2> DEFINE f == [a \in 1 .. 0 |-> 0]
  <2>1. Len(<<>>) = 0 /\ 1 .. 0 = {} /\ <<>> \in Seq(T)
    OBVIOUS
  <2>2. f \in [1 .. Len(<<>>) -> 1 .. 0]
    BY <2>1
  <2> HIDE DEF f
  <2>3. Keeps(<<>>, s, key, 0, f)
    BY <2>1, <2>2 DEF Keeps
  <2>4. QED
    BY <1>3, <2>1, <2>3
<1>6. ASSUME NEW m \in 0 .. n, m # 0, Good(m - 1) PROVE Good(m)
  <2>1. PICK f : Keeps(g[m - 1], s, key, m - 1, f)
    BY <1>6
  <2>2. m - 1 \in Nat /\ m - 1 + 1 = m /\ s[m] \in T /\ g[m - 1] \in Seq(T)
    BY <1>1, <1>6
  <2>3. CASE m > 1 /\ key[m] = key[m - 1]
    <3>1. m - 1 \in Nat \ {0}
      BY <2>2, <2>3
    <3>2. Keeps(g[m - 1], s, key, m - 1 + 1, f)
      BY <2>1, <2>2, <2>3, <3>1, KeepsSame
    <3>3. g[m] = g[m - 1]
      BY <1>4, <1>6, <2>3
    <3>4. QED
      BY <2>2, <3>2, <3>3
  <2>4. CASE ~ (m > 1 /\ key[m] = key[m - 1])
    <3>1. g[m] = Append(g[m - 1], s[m])
      BY <1>4, <1>6, <2>4
    <3>2. /\ Append(g[m - 1], s[m - 1 + 1]) \in Seq(T)
          /\ \E h : Keeps(Append(g[m - 1], s[m - 1 + 1]), s, key, m - 1 + 1, h)
      BY <2>1, <2>2, KeepsMore
    <3>3. QED
      BY <2>2, <3>1, <3>2
  <2>5. QED
    BY <2>3, <2>4
<1> HIDE DEF Good
<1>7. ASSUME Bad # {} PROVE FALSE
  <2>1. Bad \in SUBSET Nat
    OBVIOUS
  <2>2. PICK m \in Bad : \A k \in Bad : m <= k
    BY <1>7, <2>1, LeastNumber
  <2>3. m \in 0 .. n /\ m # 0 /\ ~ Good(m)
    BY <1>5, <2>2
  <2>4. m - 1 \in 0 .. n /\ ~ (m <= m - 1)
    BY <1>1, <2>3
  <2>5. Good(m - 1)
    BY <2>2, <2>4
  <2>6. QED
    BY <2>3, <2>5, <1>6
<1>8. Good(n)
  BY <1>1, <1>7
<1>9. QED
  BY <1>2, <1>8 DEF Good

-----------------------------------------------------------------------------
(* Vector_sort only moves elements: the sorted vector has the elements of   *)
(* the unsorted one, all of them.                                           *)
LEMMA RearrangedSame ==
  ASSUME NEW T, NEW s \in Seq(T), NEW t \in Rearranged(s)
  PROVE  /\ t \in Seq(T) /\ Len(t) = Len(s)
         /\ \A i \in 1 .. Len(s) : \E k \in 1 .. Len(s) : t[i] = s[k]
         /\ \A k \in 1 .. Len(s) : \E i \in 1 .. Len(s) : t[i] = s[k]
<1> DEFINE n == Len(s)
           D == 1 .. n
<1>1. n \in Nat /\ DOMAIN s = D /\ \A i \in D : s[i] \in T
  OBVIOUS
<1>2. PICK p \in [D -> D] : /\ \A i, k \in D : p[i] = p[k] => i = k
                            /\ t = [i \in D |-> s[p[i]]]
  BY <1>1 DEF Rearranged
<1>3. t \in Seq(T) /\ Len(t) = n
  <2>1. t \in [1 .. n -> T]
    BY <1>1, <1>2
  <2>2. QED
    BY <1>1, <2>1
<1>4. p \in Surjection(D, D)
  <2>1. p \in Injection(D, D)
    BY <1>2 DEF Injection, IsInjective
  <2>2. IsFiniteSet(D)
    BY <1>1, FS_Interval
  <2>3. QED
    BY <2>1, <2>2, FS_Injection
<1>5. \A k \in D : \E i \in D : p[i] = k
  BY <1>4 DEF Surjection
<1>6. QED
  BY <1>2, <1>3, <1>5

(* Sorting v to s and removing duplicates: u holds elements of v only, in   *)
(* the sorted order, and one with the key of each of v's elements.          *)
Cleared(u, v, s, key) ==
  /\ \A a \in 1 .. Len(u) : \E k \in 1 .. Len(v) : u[a] = v[k]
  /\ \A k \in 1 .. Len(v) : \E a \in 1 .. Len(u), i, j \in 1 .. Len(s) :
       u[a] = s[i] /\ v[k] = s[j] /\ key[i] = key[j]
  /\ \A a, b \in 1 .. Len(u) : a < b =>
       \E i, j \in 1 .. Len(s) : i < j /\ u[a] = s[i] /\ u[b] = s[j]

(* That is what the two together do. *)
LEMMA SortedUnique ==
  ASSUME NEW T, NEW v \in Seq(T), NEW s \in Rearranged(v), NEW key, NEW u,
         u = Unique(s, key)
  PROVE  u \in Seq(T) /\ Cleared(u, v, s, key)
<1>1. /\ s \in Seq(T) /\ Len(s) = Len(v) /\ Len(v) \in Nat
      /\ \A i \in 1 .. Len(v) : \E k \in 1 .. Len(v) : s[i] = v[k]
      /\ \A k \in 1 .. Len(v) : \E i \in 1 .. Len(v) : s[i] = v[k]
  BY RearrangedSame
<1>2. u \in Seq(T) /\ \E f : Keeps(u, s, key, Len(s), f)
  BY <1>1, UniqueKeeps
<1>3. PICK f : Keeps(u, s, key, Len(s), f)
  BY <1>2
<1>4. /\ \A a \in 1 .. Len(u) : f[a] \in 1 .. Len(s)
      /\ \A a \in 1 .. Len(u) : u[a] = s[f[a]]
      /\ \A a, b \in 1 .. Len(u) : a < b => f[a] < f[b]
      /\ \A j \in 1 .. Len(s) : \E a \in 1 .. Len(u) :
           f[a] <= j /\ \A k \in f[a] .. j : key[k] = key[j]
  BY <1>3 DEF Keeps
<1>5. ASSUME NEW a \in 1 .. Len(u) PROVE \E k \in 1 .. Len(v) : u[a] = v[k]
  <2>1. u[a] = s[f[a]] /\ f[a] \in 1 .. Len(v)
    BY <1>1, <1>4
  <2>2. PICK k \in 1 .. Len(v) : s[f[a]] = v[k]
    BY <1>1, <2>1
  <2>3. QED
    BY <2>1, <2>2
<1>6. ASSUME NEW k \in 1 .. Len(v)
      PROVE  \E a \in 1 .. Len(u), i, j \in 1 .. Len(s) :
               u[a] = s[i] /\ v[k] = s[j] /\ key[i] = key[j]
  <2>1. PICK j \in 1 .. Len(s) : s[j] = v[k]
    BY <1>1
  <2>2. PICK a \in 1 .. Len(u) : f[a] <= j /\ \A x \in f[a] .. j : key[x] = key[j]
    BY <1>4
  <2>3. f[a] \in f[a] .. j /\ f[a] \in 1 .. Len(s)
    BY <1>4, <2>2
  <2>4. key[f[a]] = key[j] /\ u[a] = s[f[a]]
    BY <1>4, <2>2, <2>3
  <2>5. QED
    BY <2>1, <2>3, <2>4
<1>7. ASSUME NEW a \in 1 .. Len(u), NEW b \in 1 .. Len(u), a < b
      PROVE  \E i, j \in 1 .. Len(s) : i < j /\ u[a] = s[i] /\ u[b] = s[j]
  <2>1. f[a] \in 1 .. Len(s) /\ f[b] \in 1 .. Len(s) /\ f[a] < f[b]
    BY <1>4, <1>7
  <2>2. u[a] = s[f[a]] /\ u[b] = s[f[b]]
    BY <1>4
  <2>3. QED
    BY <2>1, <2>2
<1>8. QED
  BY <1>2, <1>5, <1>6, <1>7 DEF Cleared

-----------------------------------------------------------------------------
(***************************************************************************)
(* The inductive invariant: both vectors hold what the lines read so far   *)
(* say and nothing else; once they are sorted and cleared of duplicates,   *)
(* every line still has an entry with its key.                             *)
(***************************************************************************)
IPEntry == {IPData(l) : l \in Line}
NetEntry == {NetData(l) : l \in Line}

Shape ==
  /\ lines \in Seq(Line)
  /\ ip_list \in Seq(IPEntry) /\ net_list \in Seq(NetEntry)
  /\ pc \in {"read", "ready", "failed"}

Sound ==
  /\ \A i \in 1 .. Len(ip_list) : \E l \in Stated : ~IsNet(l) /\ ip_list[i] = IPData(l)
  /\ \A i \in 1 .. Len(net_list) : \E l \in Stated : IsNet(l) /\ net_list[i] = NetData(l)

Complete ==
  /\ \A l \in Stated : ~IsNet(l) =>
       \E i \in 1 .. Len(ip_list) : IPKey(ip_list[i]) = IPKey(IPData(l))
  /\ \A l \in Stated : IsNet(l) =>
       \E i \in 1 .. Len(net_list) : NetKey(net_list[i]) = NetKey(NetData(l))

NetsInOrder ==
  pc = "ready" => \A i, k \in 1 .. Len(net_list) : i < k => ~Before(net_list[k], net_list[i])

IInv == Shape /\ Sound /\ Complete /\ NetsInOrder

(* The statements are lines. *)
LEMMA StatedLines ==
  ASSUME Shape
  PROVE  \A l \in Stated : l \in Line /\ ~Refused(l)
BY DEF Shape, Stated

(* A line that is read and not refused is one statement more. *)
LEMMA StatedGrows ==
  ASSUME Shape, NEW l, lines' = Append(lines, l)
  PROVE  Stated' = IF Refused(l) THEN Stated ELSE Stated \cup {l}
<1>1. /\ Len(lines) \in Nat /\ DOMAIN lines = 1 .. Len(lines)
      /\ DOMAIN lines' = 1 .. Len(lines) + 1
      /\ \A i \in 1 .. Len(lines) : lines'[i] = lines[i]
      /\ lines'[Len(lines) + 1] = l
  BY DEF Shape
<1> DEFINE K == {k \in DOMAIN lines : ~Refused(lines[k])}
           K2 == {k \in DOMAIN lines' : ~Refused(lines'[k])}
<1>2. \A k : k \in K2 <=> k \in K \/ (k = Len(lines) + 1 /\ ~Refused(l))
  BY <1>1
<1>3. \A k \in K : lines'[k] = lines[k]
  BY <1>1
<1>4. Stated = {lines[i] : i \in K} /\ Stated' = {lines'[i] : i \in K2}
  BY DEF Stated
<1> HIDE DEF K, K2
<1>5. ASSUME NEW x PROVE x \in Stated' <=> x \in Stated \/ (x = l /\ ~Refused(l))
  BY <1>1, <1>2, <1>3, <1>4
<1>6. QED
  BY <1>5

(* The cleared vectors satisfy it. *)
LEMMA InitIInv == Init => IInv
<1> SUFFICES ASSUME Init PROVE IInv
  OBVIOUS
<1>1. Shape
  BY DEF Init, Shape
<1>2. Stated = {}
  BY DEF Init, Stated
<1>3. Sound /\ Complete /\ NetsInOrder
  BY <1>2 DEF Init, Sound, Complete, NetsInOrder
<1>4. QED
  BY <1>1, <1>3 DEF IInv

(* BlackList_parseLine adds the entry of its line. *)
LEMMA ReadLineIInv ==
  ASSUME IInv, NEW l \in Lines, ReadLine(l)
  PROVE  IInv'
<1>1. l \in Line
  BY BlackListAssumption
<1>2. /\ pc = "read" /\ pc' = "read" /\ lines' = Append(lines, l)
      /\ ip_list' = IF Refused(l) \/ IsNet(l) THEN ip_list ELSE Append(ip_list, IPData(l))
      /\ net_list' = IF Refused(l) \/ ~IsNet(l) THEN net_list
                     ELSE Append(net_list, NetData(l))
  BY DEF ReadLine, IInv, Shape
<1>3. IPData(l) \in IPEntry /\ NetData(l) \in NetEntry
  BY <1>1 DEF IPEntry, NetEntry
<1>4. Stated' = IF Refused(l) THEN Stated ELSE Stated \cup {l}
  BY <1>2, StatedGrows DEF IInv
<1>5. Shape /\ Sound /\ Complete
  BY DEF IInv
<1>6. Shape'
  BY <1>1, <1>2, <1>3, <1>5 DEF Shape
<1>7. NetsInOrder'
  BY <1>2 DEF NetsInOrder
<1>8. CASE Refused(l)
  <2>1. Stated' = Stated /\ UNCHANGED <<ip_list, net_list>>
    BY <1>2, <1>4, <1>8
  <2>2. Sound' /\ Complete'
    BY <1>5, <2>1 DEF Sound, Complete
  <2>3. QED
    BY <1>6, <1>7, <2>2 DEF IInv
<1>9. CASE ~Refused(l) /\ IsNet(l)
  <2>1. Stated' = Stated \cup {l} /\ ip_list' = ip_list /\ net_list' = Append(net_list, NetData(l))
    BY <1>2, <1>4, <1>9
  <2>2. /\ Len(net_list) \in Nat /\ Len(net_list') = Len(net_list) + 1
        /\ \A i \in 1 .. Len(net_list) : net_list'[i] = net_list[i]
        /\ net_list'[Len(net_list) + 1] = NetData(l)
    BY <1>5, <2>1 DEF Shape
  <2>3. Sound'
    <3>1. ASSUME NEW i \in 1 .. Len(net_list')
          PROVE  \E o \in Stated' : IsNet(o) /\ net_list'[i] = NetData(o)
      <4>1. CASE i = Len(net_list) + 1
        BY <4>1, <2>1, <2>2, <1>9
      <4>2. CASE i # Len(net_list) + 1
        <5>1. i \in 1 .. Len(net_list)
          BY <4>2, <2>2
        <5>2. QED
          BY <5>1, <2>1, <2>2, <1>5 DEF Sound
      <4>3. QED
        BY <4>1, <4>2
    <3>2. QED
      BY <3>1, <2>1, <1>5 DEF Sound
  <2>4. Complete'
    <3>1. ASSUME NEW o \in Stated', IsNet(o)
          PROVE  \E i \in 1 .. Len(net_list') : NetKey(net_list'[i]) = NetKey(NetData(o))
      <4>1. CASE o = l
        <5>1. Len(net_list) + 1 \in 1 .. Len(net_list')
          BY <2>2
        <5>2. QED
          BY <4>1, <5>1, <2>2
      <4>2. CASE o # l
        <5>1. PICK i \in 1 .. Len(net_list) : NetKey(net_list[i]) = NetKey(NetData(o))
          BY <4>2, <3>1, <2>1, <1>5 DEF Complete
        <5>2. i \in 1 .. Len(net_list') /\ net_list'[i] = net_list[i]
          BY <2>2
        <5>3. QED
          BY <5>1, <5>2
      <4>3. QED
        BY <4>1, <4>2
    <3>2. \A o \in Stated' : ~IsNet(o) => o \in Stated
      BY <2>1, <1>9
    <3>3. QED
      BY <3>1, <3>2, <2>1, <1>5 DEF Complete
  <2>5. QED
    BY <1>6, <1>7, <2>3, <2>4 DEF IInv
<1>10. CASE ~Refused(l) /\ ~IsNet(l)
  <2>1. Stated' = Stated \cup {l} /\ net_list' = net_list /\ ip_list' = Append(ip_list, IPData(l))
    BY <1>2, <1>4, <1>10
  <2>2. /\ Len(ip_list) \in Nat /\ Len(ip_list') = Len(ip_list) + 1
        /\ \A i \in 1 .. Len(ip_list) : ip_list'[i] = ip_list[i]
        /\ ip_list'[Len(ip_list) + 1] = IPData(l)
    BY <1>5, <2>1 DEF Shape
  <2>3. Sound'
    <3>1. ASSUME NEW i \in 1 .. Len(ip_list')
          PROVE  \E o \in Stated' : ~IsNet(o) /\ ip_list'[i] = IPData(o)
      <4>1. CASE i = Len(ip_list) + 1
        BY <4>1, <2>1, <2>2, <1>10
      <4>2. CASE i # Len(ip_list) + 1
        <5>1. i \in 1 .. Len(ip_list)
          BY <4>2, <2>2
        <5>2. QED
          BY <5>1, <2>1, <2>2, <1>5 DEF Sound
      <4>3. QED
        BY <4>1, <4>2
    <3>2. QED
      BY <3>1, <2>1, <1>5 DEF Sound
  <2>4. Complete'
    <3>1. ASSUME NEW o \in Stated', ~IsNet(o)
          PROVE  \E i \in 1 .. Len(ip_list') : IPKey(ip_list'[i]) = IPKey(IPData(o))
      <4>1. CASE o = l
        <5>1. Len(ip_list) + 1 \in 1 .. Len(ip_list')
          BY <2>2
        <5>2. QED
          BY <4>1, <5>1, <2>2
      <4>2. CASE o # l
        <5>1. PICK i \in 1 .. Len(ip_list) : IPKey(ip_list[i]) = IPKey(IPData(o))
          BY <4>2, <3>1, <2>1, <1>5 DEF Complete
        <5>2. i \in 1 .. Len(ip_list') /\ ip_list'[i] = ip_list[i]
          BY <2>2
        <5>3. QED
          BY <5>1, <5>2
      <4>3. QED
        BY <4>1, <4>2
    <3>2. \A o \in Stated' : IsNet(o) => o \in Stated
      BY <2>1, <1>10
    <3>3. QED
      BY <3>1, <3>2, <2>1, <1>5 DEF Complete
  <2>5. QED
    BY <1>6, <1>7, <2>3, <2>4 DEF IInv
<1>11. QED
  BY <1>8, <1>9, <1>10
(* Sorting and removing duplicates leave an entry for every line. *)
LEMMA FinishIInv ==
  ASSUME IInv, Finish
  PROVE  IInv'
<1>1. Shape /\ Sound /\ Complete
  BY DEF IInv
<1>2. pc' = "ready" /\ lines' = lines /\ Stated' = Stated
  BY DEF Finish, Stated
<1>3. PICK s \in SortedIPs(ip_list) :
        ip_list' = Unique(s, [i \in DOMAIN s |-> IPKey(s[i])])
  BY DEF Finish
<1>4. PICK t \in SortedNets(net_list) :
        net_list' = Unique(t, [i \in DOMAIN t |-> NetKey(t[i])])
  BY DEF Finish
<1> DEFINE ks == [i \in DOMAIN s |-> IPKey(s[i])]
           kt == [i \in DOMAIN t |-> NetKey(t[i])]
<1>5. s \in Rearranged(ip_list) /\ t \in Rearranged(net_list)
  BY DEF SortedIPs, SortedNets
<1>6. /\ s \in Seq(IPEntry) /\ t \in Seq(NetEntry)
  BY <1>1, <1>5, RearrangedSame DEF Shape
<1>7. /\ DOMAIN s = 1 .. Len(s) /\ \A i \in 1 .. Len(s) : ks[i] = IPKey(s[i])
      /\ DOMAIN t = 1 .. Len(t) /\ \A i \in 1 .. Len(t) : kt[i] = NetKey(t[i])
  BY <1>6
<1> HIDE DEF ks, kt
<1>8. /\ ip_list' \in Seq(IPEntry)
      /\ \A a \in 1 .. Len(ip_list') : \E k \in 1 .. Len(ip_list) : ip_list'[a] = ip_list[k]
      /\ \A k \in 1 .. Len(ip_list) : \E a \in 1 .. Len(ip_list'), i, j \in 1 .. Len(s) :
           ip_list'[a] = s[i] /\ ip_list[k] = s[j] /\ ks[i] = ks[j]
  <2>1. ip_list \in Seq(IPEntry) /\ ip_list' = Unique(s, ks)
    BY <1>1, <1>3 DEF Shape, ks
  <2>2. ip_list' \in Seq(IPEntry) /\ Cleared(ip_list', ip_list, s, ks)
    BY <1>5, <2>1, SortedUnique
  <2>3. QED
    BY <2>2 DEF Cleared
<1>9. /\ net_list' \in Seq(NetEntry)
      /\ \A a \in 1 .. Len(net_list') : \E k \in 1 .. Len(net_list) : net_list'[a] = net_list[k]
      /\ \A k \in 1 .. Len(net_list) : \E a \in 1 .. Len(net_list'), i, j \in 1 .. Len(t) :
           net_list'[a] = t[i] /\ net_list[k] = t[j] /\ kt[i] = kt[j]
      /\ \A a, b \in 1 .. Len(net_list') : a < b =>
           \E i, j \in 1 .. Len(t) : i < j /\ net_list'[a] = t[i] /\ net_list'[b] = t[j]
  <2>1. net_list \in Seq(NetEntry) /\ net_list' = Unique(t, kt)
    BY <1>1, <1>4 DEF Shape, kt
  <2>2. net_list' \in Seq(NetEntry) /\ Cleared(net_list', net_list, t, kt)
    BY <1>5, <2>1, SortedUnique
  <2>3. QED
    BY <2>2 DEF Cleared
<1>10. Shape'
  BY <1>1, <1>2, <1>8, <1>9 DEF Shape
<1>11. Sound'
  <2>1. ASSUME NEW a \in 1 .. Len(ip_list')
        PROVE  \E l \in Stated' : ~IsNet(l) /\ ip_list'[a] = IPData(l)
    <3>1. PICK k \in 1 .. Len(ip_list) : ip_list'[a] = ip_list[k]
      BY <1>8
    <3>2. PICK l \in Stated : ~IsNet(l) /\ ip_list[k] = IPData(l)
      BY <1>1 DEF Sound
    <3>3. QED
      BY <1>2, <3>1, <3>2
  <2>2. ASSUME NEW a \in 1 .. Len(net_list')
        PROVE  \E l \in Stated' : IsNet(l) /\ net_list'[a] = NetData(l)
    <3>1. PICK k \in 1 .. Len(net_list) : net_list'[a] = net_list[k]
      BY <1>9
    <3>2. PICK l \in Stated : IsNet(l) /\ net_list[k] = NetData(l)
      BY <1>1 DEF Sound
    <3>3. QED
      BY <1>2, <3>1, <3>2
  <2>3. QED
    BY <2>1, <2>2 DEF Sound
<1>12. Complete'
  <2>1. ASSUME NEW l \in Stated', ~IsNet(l)
        PROVE  \E a \in 1 .. Len(ip_list') : IPKey(ip_list'[a]) = IPKey(IPData(l))
    <3>1. PICK k \in 1 .. Len(ip_list) : IPKey(ip_list[k]) = IPKey(IPData(l))
      BY <1>1, <1>2, <2>1 DEF Complete
    <3>2. PICK a \in 1 .. Len(ip_list'), i, j \in 1 .. Len(s) :
            ip_list'[a] = s[i] /\ ip_list[k] = s[j] /\ ks[i] = ks[j]
      BY <1>8
    <3>3. QED
      BY <1>7, <3>1, <3>2
  <2>2. ASSUME NEW l \in Stated', IsNet(l)
        PROVE  \E a \in 1 .. Len(net_list') : NetKey(net_list'[a]) = NetKey(NetData(l))
    <3>1. PICK k \in 1 .. Len(net_list) : NetKey(net_list[k]) = NetKey(NetData(l))
      BY <1>1, <1>2, <2>2 DEF Complete
    <3>2. PICK a \in 1 .. Len(net_list'), i, j \in 1 .. Len(t) :
            net_list'[a] = t[i] /\ net_list[k] = t[j] /\ kt[i] = kt[j]
      BY <1>9
    <3>3. QED
      BY <1>7, <3>1, <3>2
  <2>3. QED
    BY <2>1, <2>2 DEF Complete
<1>13. NetsInOrder'
  <2>1. ASSUME NEW a \in 1 .. Len(net_list'), NEW b \in 1 .. Len(net_list'), a < b
        PROVE  ~Before(net_list'[b], net_list'[a])
    <3>1. PICK i, j \in 1 .. Len(t) : i < j /\ net_list'[a] = t[i] /\ net_list'[b] = t[j]
      BY <1>9, <2>1
    <3>2. ~Before(t[j], t[i])
      BY <1>7, <3>1 DEF SortedNets
    <3>3. QED
      BY <3>1, <3>2
  <2>2. QED
    BY <2>1 DEF NetsInOrder
<1>14. QED
  BY <1>10, <1>11, <1>12, <1>13 DEF IInv

(* The inductive invariant holds in every reachable state. *)
LEMMA Inductive == Spec => []IInv
<1>1. ASSUME IInv, [Next]_vars PROVE IInv'
  <2>1. CASE \E l \in Lines : ReadLine(l)
    BY <1>1, <2>1, ReadLineIInv
  <2>2. CASE Finish
    BY <1>1, <2>2, FinishIInv
  <2>3. CASE ReadFails \/ UNCHANGED vars
    <3>1. /\ UNCHANGED <<ip_list, net_list, lines>> /\ Stated' = Stated
          /\ pc' = "failed" \/ pc' = pc
      BY <2>3 DEF ReadFails, vars, Stated
    <3>2. Shape' /\ Sound' /\ Complete'
      BY <1>1, <3>1 DEF IInv, Shape, Sound, Complete
    <3>3. NetsInOrder'
      BY <1>1, <3>1 DEF IInv, NetsInOrder
    <3>4. QED
      BY <3>2, <3>3 DEF IInv
  <2>4. QED
    BY <1>1, <2>1, <2>2, <2>3 DEF Next
<1>2. QED
  BY InitIInv, <1>1, PTL DEF Spec

-----------------------------------------------------------------------------
(* The shape of the lists: only addresses, and no net with address bits     *)
(* outside its mask, whatever the lines say.                                *)
THEOREM TypeCorrect == Spec => []TypeOK
<1>1. IInv => TypeOK
  <2> SUFFICES ASSUME IInv PROVE TypeOK
    OBVIOUS
  <2>1. lines \in Seq(Line) /\ pc \in {"read", "ready", "failed"}
    BY DEF IInv, Shape
  <2>2. ASSUME NEW i \in DOMAIN ip_list PROVE ip_list[i].ip \in IPAddr
    <3>1. ip_list[i] \in IPEntry
      BY DEF IInv, Shape
    <3>2. PICK l \in Line : ip_list[i] = IPData(l)
      BY <3>1 DEF IPEntry
    <3>3. QED
      BY <3>2 DEF IPData, Line
  <2>3. ASSUME NEW i \in DOMAIN net_list PROVE net_list[i].ip \subseteq net_list[i].mask
    <3>1. net_list[i] \in NetEntry
      BY DEF IInv, Shape
    <3>2. PICK l \in Line : net_list[i] = NetData(l)
      BY <3>1 DEF NetEntry
    <3>3. QED
      BY <3>2 DEF NetData
  <2>4. QED
    BY <2>1, <2>2, <2>3 DEF TypeOK
<1>2. QED
  BY Inductive, <1>1, PTL

-----------------------------------------------------------------------------
(* Entry e carries what line l says about senders and answers ... *)
Says(e, l) ==
  e.at = l.at /\ e.atmac = l.atmac /\ e.status = LineStatus(l) /\ e.mac = LineMac(l)

(* ... and this is the answer of a line that blocks. *)
Answer(l) == [mac |-> LineMac(l), poison |-> IF l.at = "NEGATIVE" THEN l.atmac ELSE NoMac]

Verdict(l, q) == IF l.neg \/ ~Suspect(l, q) THEN Miss ELSE Answer(l)

(* Both kinds of entries do. *)
LEMMA EntriesSay ==
  ASSUME NEW l
  PROVE  Says(IPData(l), l) /\ Says(NetData(l), l)
BY DEF Says, IPData, NetData

(* BlackList_compareAtMac is right about senders: it matches the suspects   *)
(* of the line, and lets nobody through to other lines but those the line   *)
(* is silent about.                                                         *)
LEMMA CompareRight ==
  ASSUME NEW e, NEW l \in Line, NEW q, Says(e, l)
  PROVE  /\ BlackList_compareAtMac(e, q.mac) = "MATCH" <=> Suspect(l, q)
         /\ Decides(e, q) <=> Suspect(l, q) \/ Spared(l, q)
<1>1. /\ e.at = l.at /\ e.atmac = l.atmac
      /\ e.status # "IGNORE" <=> ~l.neg
      /\ l.at \in {"NONE", "NEGATIVE", "POSITIVE"} /\ l.neg \in BOOLEAN
  BY DEF Says, LineStatus, Line
<1>2. CASE l.at = "NONE"
  BY <1>1, <1>2 DEF BlackList_compareAtMac, Decides, Suspect, Spared
<1>3. CASE l.at # "NONE" /\ q.mac = NoMac
  BY <1>1, <1>3 DEF BlackList_compareAtMac, Decides, Suspect, Spared
<1>4. CASE l.at = "POSITIVE" /\ q.mac # NoMac
  BY <1>1, <1>4 DEF BlackList_compareAtMac, Decides, Suspect, Spared
<1>5. CASE l.at = "NEGATIVE" /\ q.mac # NoMac
  BY <1>1, <1>5 DEF BlackList_compareAtMac, Decides, Suspect, Spared
<1>6. QED
  BY <1>1, <1>2, <1>3, <1>4, <1>5

(* So the entry is answered the way its line wants it. *)
LEMMA OutcomeRight ==
  ASSUME NEW e, NEW l \in Line, NEW q, Says(e, l)
  PROVE  Outcome(e, q) = Verdict(l, q)
<1>1. BlackList_compareAtMac(e, q.mac) = "MATCH" <=> Suspect(l, q)
  BY CompareRight
<1>2. e.status = "IGNORE" <=> l.neg
  BY DEF Says, LineStatus, Line
<1>3. [mac |-> e.mac, poison |-> PoisonMac(e)] = Answer(l)
  BY DEF Says, PoisonMac, Answer
<1>4. QED
  BY <1>1, <1>2, <1>3 DEF Outcome, Verdict

(* The entries of net_list the scan would stop at. *)
Hits(q) == {k \in DOMAIN net_list : /\ q.ip \cap net_list[k].mask = net_list[k].ip
                                    /\ Decides(net_list[k], q)}

(* The scan takes the first of them. *)
LEMMA FirstHit ==
  ASSUME Shape, NEW q, Hits(q) # {}
  PROVE  \E k \in Hits(q) : /\ \A j \in Hits(q) : k <= j
                            /\ NetOutcome(q) = Outcome(net_list[k], q)
<1> DEFINE first == CHOOSE k \in Hits(q) : \A j \in Hits(q) : k <= j
<1>1. Hits(q) \in SUBSET Nat
  BY DEF Hits, Shape
<1>2. \E m \in Hits(q) : \A k \in Hits(q) : m <= k
  BY <1>1, LeastNumber
<1>3. first \in Hits(q) /\ \A j \in Hits(q) : first <= j
  BY <1>2, Zenon
<1>4. NetOutcome(q) = Outcome(net_list[first], q)
  BY Zenon DEF NetOutcome, Hits
<1> HIDE DEF first
<1>5. QED
  BY <1>3, <1>4

(* Without any the query is not answered. *)
LEMMA NoHit ==
  ASSUME NEW q, Hits(q) = {}
  PROVE  NetOutcome(q) = Miss
BY Zenon DEF NetOutcome, Hits

(* An entry of ip_list with the address asked for comes from a line that    *)
(* concerns the query.                                                      *)
LEMMA HostLine ==
  ASSUME Shape, Sound, NEW q, NEW i \in DOMAIN ip_list, ip_list[i].ip = q.ip
  PROVE  \E l \in Stated : /\ l \in Line /\ ~IsNet(l) /\ l.ip = q.ip
                           /\ Concerns(l, q) /\ ip_list[i] = IPData(l)
<1>1. PICK l \in Stated : ~IsNet(l) /\ ip_list[i] = IPData(l)
  BY DEF Shape, Sound
<1>2. l \in Line
  BY StatedLines
<1>3. l.ip = q.ip
  BY <1>1 DEF IPData
<1>4. Concerns(l, q)
  BY <1>1, <1>3 DEF Concerns, IsNet
<1>5. QED
  BY <1>1, <1>2, <1>3, <1>4

(* So does an entry of net_list with the network asked for. *)
LEMMA NetLine ==
  ASSUME Shape, Sound, NEW q, NEW k \in Hits(q)
  PROVE  \E l \in Stated : /\ l \in Line /\ IsNet(l) /\ Concerns(l, q)
                           /\ net_list[k] = NetData(l)
<1>1. PICK l \in Stated : IsNet(l) /\ net_list[k] = NetData(l)
  BY DEF Shape, Sound, Hits
<1>2. l \in Line
  BY StatedLines
<1>3. q.ip \cap net_list[k].mask = net_list[k].ip
  BY DEF Hits
<1>4. CASE l.star
  BY <1>1, <1>2, <1>4 DEF Concerns
<1>5. CASE ~l.star
  <2>1. net_list[k].mask = l.mask /\ net_list[k].ip = l.ip \cap l.mask /\ l.mask # NoMask
    BY <1>1, <1>5 DEF NetData, IsNet
  <2>2. QED
    BY <1>1, <1>2, <1>3, <2>1 DEF Concerns
<1>6. QED
  BY <1>4, <1>5

(* What is answered is the answer of a line that blocks the address for     *)
(* this sender, in whatever state the lists are.                            *)
LEMMA AnswerLine ==
  ASSUME Shape, Sound, NEW q, NEW r \in BlackList_getMac(q), r # Miss
  PROVE  \E l \in Stated : /\ l \in Line /\ ~l.neg /\ Concerns(l, q) /\ Suspect(l, q)
                           /\ r = Answer(l)
<1>1. PICK i \in SearchIP(q) :
        r = IF i # 0 /\ Decides(ip_list[i], q) THEN Outcome(ip_list[i], q) ELSE NetOutcome(q)
  BY DEF BlackList_getMac
<1>2. ASSUME NEW e, NEW l \in Stated, l \in Line, Concerns(l, q), Says(e, l), r = Outcome(e, q)
      PROVE  \E o \in Stated : /\ o \in Line /\ ~o.neg /\ Concerns(o, q) /\ Suspect(o, q)
                               /\ r = Answer(o)
  <2>1. r = Verdict(l, q)
    BY <1>2, OutcomeRight
  <2>2. ~l.neg /\ Suspect(l, q) /\ r = Answer(l)
    BY <2>1 DEF Verdict
  <2>3. QED
    BY <1>2, <2>2
<1>3. CASE i # 0 /\ Decides(ip_list[i], q)
  <2>1. i \in DOMAIN ip_list /\ ip_list[i].ip = q.ip
    BY <1>3 DEF SearchIP
  <2>2. PICK l \in Stated : l \in Line /\ Concerns(l, q) /\ ip_list[i] = IPData(l)
    BY <2>1, HostLine
  <2>3. QED
    BY <1>1, <1>2, <1>3, <2>2, EntriesSay
<1>4. CASE ~ (i # 0 /\ Decides(ip_list[i], q))
  <2>1. r = NetOutcome(q)
    BY <1>1, <1>4
  <2>2. Hits(q) # {}
    BY <2>1, NoHit
  <2>3. PICK k \in Hits(q) : NetOutcome(q) = Outcome(net_list[k], q)
    BY <2>2, FirstHit
  <2>4. PICK l \in Stated : l \in Line /\ Concerns(l, q) /\ net_list[k] = NetData(l)
    BY NetLine
  <2>5. QED
    BY <1>2, <2>1, <2>3, <2>4, EntriesSay
<1>5. QED
  BY <1>3, <1>4

(* No query is answered without a line that blocks the address for the      *)
(* sender: for every file, sorted or left unsorted by a failed reading.     *)
THEOREM AnswersReasoned == Spec => []AnswersHaveReason
<1>1. IInv => AnswersHaveReason
  <2> SUFFICES ASSUME IInv, NEW q \in Query, NEW r \in BlackList_getMac(q), r.mac # NoMac
               PROVE  \E l \in Stated : ~l.neg /\ Concerns(l, q) /\ Suspect(l, q)
    BY DEF AnswersHaveReason
  <2>1. r # Miss
    BY DEF Miss
  <2>2. QED
    BY <2>1, AnswerLine DEF IInv
<1>2. QED
  BY Inductive, <1>1, PTL

(* Poisoning names the owner some ip@!mac line gives, never the sender of   *)
(* the request, and never without an answer.                                *)
THEOREM PoisonsRightly == Spec => []PoisonNamesOwner
<1>1. IInv => PoisonNamesOwner
  <2> SUFFICES ASSUME IInv, NEW q \in Query, NEW r \in BlackList_getMac(q), r.poison # NoMac
               PROVE  /\ r.mac # NoMac
                      /\ q.mac \notin {NoMac, r.poison}
                      /\ \E l \in Stated : l.at = "NEGATIVE" /\ l.atmac = r.poison
    BY DEF PoisonNamesOwner
  <2>1. r # Miss
    BY DEF Miss
  <2>2. PICK l \in Stated : /\ l \in Line /\ ~l.neg /\ Concerns(l, q) /\ Suspect(l, q)
                            /\ r = Answer(l)
    BY <2>1, AnswerLine DEF IInv
  <2>3. r.mac = LineMac(l) /\ r.poison = IF l.at = "NEGATIVE" THEN l.atmac ELSE NoMac
    BY <2>2 DEF Answer
  <2>4. l.at = "NEGATIVE" /\ r.poison = l.atmac
    BY <2>3
  <2>5. LineMac(l) # NoMac
    BY <2>2, BlackListAssumption DEF LineMac
  <2>6. q.mac # NoMac /\ q.mac # l.atmac
    BY <2>2, <2>4 DEF Suspect
  <2>7. QED
    BY <2>3, <2>4, <2>5, <2>6
<1>2. QED
  BY Inductive, <1>1, PTL

(* The owner an ip@!mac line names is never answered, as soon as the lists  *)
(* are sorted and the address is given once.                                *)
THEOREM OwnerSpared == Spec => []OwnerIsSpared
<1>1. IInv => OwnerIsSpared
  <2> SUFFICES ASSUME IInv, pc = "ready", PlainFile, NEW l \in Stated,
                      ~IsNet(l), l.at = "NEGATIVE", ~l.neg
               PROVE  BlackList_getMac([ip |-> l.ip, mac |-> l.atmac]) = {Miss}
    BY DEF OwnerIsSpared
  <2> DEFINE q == [ip |-> l.ip, mac |-> l.atmac]
             hits == {i \in DOMAIN ip_list : ip_list[i].ip = q.ip}
  <2>1. Shape /\ Sound /\ Complete /\ l \in Line /\ q.ip = l.ip /\ q.mac = l.atmac
    BY StatedLines DEF IInv
  <2> HIDE DEF q
  <2>2. hits # {}
    <3>1. PICK i \in 1 .. Len(ip_list) : IPKey(ip_list[i]) = IPKey(IPData(l))
      BY <2>1 DEF Complete
    <3>2. i \in DOMAIN ip_list /\ ip_list[i].ip = l.ip
      BY <2>1, <3>1 DEF Shape, IPKey, IPData
    <3>3. QED
      BY <2>1, <3>2
  <2>3. SearchIP(q) = hits
    BY <2>2 DEF SearchIP
  <2>4. ASSUME NEW i \in hits
        PROVE  i # 0 /\ Decides(ip_list[i], q) /\ Outcome(ip_list[i], q) = Miss
    <3>1. PICK o \in Stated : ~IsNet(o) /\ o.ip = q.ip /\ ip_list[i] = IPData(o)
      BY <2>1, HostLine
    <3>2. ip_list[i] = IPData(l)
      BY <2>1, <3>1 DEF PlainFile
    <3>3. Says(ip_list[i], l)
      BY <3>2, EntriesSay
    <3>4. Spared(l, q) /\ ~Suspect(l, q)
      BY <2>1 DEF Spared, Suspect
    <3>5. Decides(ip_list[i], q)
      BY <2>1, <3>3, <3>4, CompareRight
    <3>6. Outcome(ip_list[i], q) = Miss
      BY <2>1, <3>3, <3>4, OutcomeRight DEF Verdict
    <3>7. i # 0
      BY <2>1 DEF Shape
    <3>8. QED
      BY <3>5, <3>6, <3>7
  <2> HIDE DEF hits
  <2>5. BlackList_getMac(q) = {Miss}
    BY <2>2, <2>3, <2>4 DEF BlackList_getMac
  <2>6. QED
    BY <2>5 DEF q
<1>2. QED
  BY Inductive, <1>1, PTL

-----------------------------------------------------------------------------
(* The rank of a net's entry, as LineRank has it for its line. *)
EntryRank(e) ==
  AtRank(e) + 3 * (IF e.no_ip THEN Cardinality(Bits) + 1 ELSE Cardinality(e.mask))

NetMask(l) == IF l.star THEN {} ELSE l.mask

(* The masks of nets are sets of address bits, hence no larger.             *)
LEMMA MaskSize ==
  ASSUME NEW l \in Line, IsNet(l)
  PROVE  /\ Cardinality(Bits) \in Nat
         /\ Cardinality(NetMask(l)) \in Nat
         /\ Cardinality(NetMask(l)) <= Cardinality(Bits)
<1>1. NetMask(l) \in SUBSET Bits
  BY DEF NetMask, IsNet, Line, IPAddr
<1>2. IsFiniteSet(Bits)
  BY BlackListAssumption
<1>3. QED
  BY <1>1, <1>2, FS_Subset, FS_CardinalityType

(* The kinds of @mac parts. *)
LEMMA AtRanks ==
  ASSUME NEW e, e.at \in {"NONE", "NEGATIVE", "POSITIVE"}
  PROVE  AtRank(e) \in 0 .. 2
BY DEF AtRank

(* The entry of a net has the rank of its line. *)
LEMMA NetRank ==
  ASSUME NEW l \in Line, IsNet(l)
  PROVE  /\ EntryRank(NetData(l)) = LineRank(l)
         /\ NetData(l).mask = NetMask(l) /\ NetData(l).no_ip = l.star
         /\ AtRank(NetData(l)) = AtRank(l) /\ AtRank(l) \in 0 .. 2
<1>1. /\ NetData(l).mask = NetMask(l) /\ NetData(l).no_ip = l.star
      /\ NetData(l).at = l.at
  BY DEF NetData, NetMask
<1>2. AtRank(NetData(l)) = AtRank(l)
  BY <1>1 DEF AtRank
<1>3. AtRank(l) \in 0 .. 2
  BY AtRanks DEF Line
<1>4. ~l.star => l.mask # NoMask /\ NetMask(l) = l.mask
  BY DEF IsNet, NetMask
<1>5. EntryRank(NetData(l)) = LineRank(l)
  BY <1>1, <1>2, <1>4 DEF EntryRank, LineRank
<1>6. QED
  BY <1>1, <1>2, <1>3, <1>5

(* NetData_sortCompare orders the entries of nets by their rank. *)
LEMMA BeforeRanks ==
  ASSUME NEW l \in Line, NEW o \in Line, IsNet(l), IsNet(o), ~Before(NetData(o), NetData(l))
  PROVE  LineRank(o) <= LineRank(l)
<1> DEFINE a == NetData(o)
           b == NetData(l)
           C == Cardinality(Bits)
           ca == Cardinality(a.mask)
           cb == Cardinality(b.mask)
           ra == AtRank(a)
           rb == AtRank(b)
<1>1. /\ C \in Nat /\ ca \in Nat /\ cb \in Nat /\ ca <= C /\ cb <= C
      /\ ra \in 0 .. 2 /\ rb \in 0 .. 2
      /\ a.no_ip = o.star /\ b.no_ip = l.star /\ a.mask = NetMask(o) /\ b.mask = NetMask(l)
      /\ o.star \in BOOLEAN /\ l.star \in BOOLEAN
  BY MaskSize, NetRank DEF Line
<1>2. /\ LineRank(o) = ra + 3 * (IF a.no_ip THEN C + 1 ELSE ca)
      /\ LineRank(l) = rb + 3 * (IF b.no_ip THEN C + 1 ELSE cb)
  BY NetRank DEF EntryRank
<1>3. /\ ~(a.no_ip /\ ~b.no_ip)
      /\ a.no_ip = b.no_ip => ca <= cb /\ (ca = cb => ra <= rb)
  BY <1>1 DEF Before
<1>4. l.star /\ o.star => ca = cb
  BY <1>1 DEF NetMask
<1> HIDE DEF a, b, C, ca, cb, ra, rb
<1>5. CASE l.star /\ o.star
  <2>1. ra <= rb /\ LineRank(o) = ra + 3 * (C + 1) /\ LineRank(l) = rb + 3 * (C + 1)
    BY <1>1, <1>2, <1>3, <1>4, <1>5
  <2>2. QED
    BY <1>1, <2>1
<1>6. CASE l.star /\ ~o.star
  <2>1. LineRank(o) = ra + 3 * ca /\ LineRank(l) = rb + 3 * (C + 1)
    BY <1>1, <1>2, <1>6
  <2>2. QED
    BY <1>1, <2>1
<1>7. CASE ~l.star /\ ~o.star
  <2>1. LineRank(o) = ra + 3 * ca /\ LineRank(l) = rb + 3 * cb
    BY <1>1, <1>2, <1>7
  <2>2. ca < cb \/ (ca = cb /\ ra <= rb)
    BY <1>1, <1>3, <1>7
  <2>3. QED
    BY <1>1, <2>1, <2>2
<1>8. QED
  BY <1>1, <1>3, <1>5, <1>6, <1>7

(* A line with an address has a higher rank than every net and '*'. *)
LEMMA HostRank ==
  ASSUME NEW l \in Line, NEW o \in Line, ~IsNet(l), IsNet(o)
  PROVE  LineRank(o) <= LineRank(l)
<1> DEFINE C == Cardinality(Bits)
           co == Cardinality(NetMask(o))
           rl == AtRank(l)
           ro == AtRank(o)
<1>1. C \in Nat /\ co \in Nat /\ co <= C /\ rl \in 0 .. 2 /\ ro \in 0 .. 2
  BY MaskSize, AtRanks DEF Line
<1>2. LineRank(l) = rl + 3 * (C + 2)
  BY DEF LineRank, IsNet
<1>3. LineRank(o) = ro + 3 * (C + 1) \/ LineRank(o) = ro + 3 * co
  BY DEF LineRank, IsNet, NetMask
<1> HIDE DEF C, co, rl, ro
<1>4. QED
  BY <1>1, <1>2, <1>3

(* Removing duplicates leaves, for every net line that has a say, an entry  *)
(* the scan stops at, of the same rank.                                     *)
LEMMA EveryNetHit ==
  ASSUME Shape, Sound, Complete, PlainFile, NEW q, NEW o \in Speaking(q), IsNet(o)
  PROVE  \E k \in Hits(q), l \in Stated :
           /\ l \in Line /\ IsNet(l) /\ net_list[k] = NetData(l)
           /\ LineRank(o) = LineRank(l)
<1>1. o \in Stated /\ o \in Line /\ Concerns(o, q) /\ (Suspect(o, q) \/ Spared(o, q))
  BY StatedLines DEF Speaking
<1>2. PICK k \in 1 .. Len(net_list) : NetKey(net_list[k]) = NetKey(NetData(o))
  BY <1>1 DEF Complete
<1>3. PICK l \in Stated : IsNet(l) /\ net_list[k] = NetData(l)
  BY DEF Sound
<1>4. l \in Line
  BY StatedLines
<1> DEFINE e == NetData(l)
           d == NetData(o)
<1>5. /\ e.status = d.status /\ e.ip = d.ip /\ e.no_ip = d.no_ip
      /\ Cardinality(e.mask) = Cardinality(d.mask) /\ e.at = d.at /\ e.atmac = d.atmac
  BY <1>2, <1>3 DEF NetKey
<1>6. e.mask = NetMask(l) /\ d.mask = NetMask(o) /\ e.no_ip = l.star /\ d.no_ip = o.star
  BY <1>1, <1>3, <1>4, NetRank
<1>7. e.mask = d.mask
  <2>1. CASE o.star
    BY <2>1, <1>5, <1>6 DEF NetMask
  <2>2. CASE ~o.star
    <3>1. ~l.star /\ e.mask = l.mask /\ d.mask = o.mask
      BY <2>2, <1>5, <1>6 DEF NetMask
    <3>2. Cardinality(l.mask) = Cardinality(o.mask)
      BY <1>5, <3>1
    <3>3. QED
      BY <1>1, <1>3, <2>2, <3>1, <3>2 DEF PlainFile
  <2>3. QED
    BY <2>1, <2>2
<1>8. q.ip \cap e.mask = e.ip
  <2>1. d.ip = o.ip \cap NetMask(o)
    BY DEF NetData, NetMask
  <2>2. CASE o.star
    BY <2>1, <2>2, <1>5, <1>6, <1>7 DEF NetMask
  <2>3. CASE ~o.star
    BY <2>1, <2>3, <1>1, <1>5, <1>6, <1>7 DEF NetMask, Concerns, IsNet
  <2>4. QED
    BY <2>2, <2>3
<1>9. Decides(e, q)
  <2>1. Decides(d, q)
    BY <1>1, EntriesSay, CompareRight
  <2>2. BlackList_compareAtMac(e, q.mac) = BlackList_compareAtMac(d, q.mac)
    BY <1>5 DEF BlackList_compareAtMac
  <2>3. QED
    BY <2>1, <2>2 DEF Decides
<1>10. EntryRank(e) = EntryRank(d)
  BY <1>5 DEF EntryRank, AtRank
<1>11. LineRank(o) = LineRank(l)
  BY <1>1, <1>3, <1>4, <1>10, NetRank
<1> HIDE DEF e, d
<1>12. k \in Hits(q)
  BY <1>3, <1>8, <1>9 DEF Hits, Shape, e
<1>13. QED
  BY <1>3, <1>4, <1>11, <1>12

(* What a foremost line wants is promised. *)
LEMMA VerdictPromised ==
  ASSUME NEW q, NEW l \in Foremost(q)
  PROVE  Verdict(l, q) \in Promised(q)
<1> DEFINE V(x) == IF x.neg \/ ~Suspect(x, q) THEN Miss
                   ELSE [mac    |-> IF x.mac = NoMac THEN DefaultMac ELSE x.mac,
                         poison |-> IF x.at = "NEGATIVE" THEN x.atmac ELSE NoMac]
<1>1. Verdict(l, q) = V(l)
  BY DEF Verdict, Answer, LineMac
<1>2. Promised(q) = {V(x) : x \in Foremost(q)}
  BY DEF Promised
<1> HIDE DEF V
<1>3. QED
  BY <1>1, <1>2

(* If no address line has a say, the scan finds what the nets promise. *)
LEMMA NetsDecide ==
  ASSUME IInv, pc = "ready", PlainFile, NEW q, \A o \in Speaking(q) : IsNet(o)
  PROVE  NetOutcome(q) \in Promised(q)
<1>1. Shape /\ Sound /\ Complete /\ NetsInOrder
  BY DEF IInv
<1>2. CASE Hits(q) = {}
  <2>1. Speaking(q) = {}
    BY <1>1, <1>2, EveryNetHit
  <2>2. Foremost(q) = {}
    BY <2>1 DEF Foremost
  <2>3. QED
    BY <1>2, <2>2, NoHit DEF Promised
<1>3. CASE Hits(q) # {}
  <2>1. PICK k \in Hits(q) : /\ \A j \in Hits(q) : k <= j
                             /\ NetOutcome(q) = Outcome(net_list[k], q)
    BY <1>1, <1>3, FirstHit
  <2>2. PICK l \in Stated : /\ l \in Line /\ IsNet(l) /\ Concerns(l, q)
                            /\ net_list[k] = NetData(l)
    BY <1>1, NetLine
  <2>3. Says(net_list[k], l)
    BY <2>2, EntriesSay
  <2>4. Decides(net_list[k], q)
    BY DEF Hits
  <2>5. l \in Speaking(q)
    BY <2>2, <2>3, <2>4, CompareRight DEF Speaking
  <2>6. ASSUME NEW o \in Speaking(q) PROVE LineRank(o) <= LineRank(l)
    <3>1. PICK j \in Hits(q), m \in Stated : /\ m \in Line /\ IsNet(m)
                                             /\ net_list[j] = NetData(m)
                                             /\ LineRank(o) = LineRank(m)
      BY <1>1, EveryNetHit
    <3>2. ~Before(NetData(m), NetData(l))
      <4>1. j \in 1 .. Len(net_list) /\ k \in 1 .. Len(net_list) /\ k <= j
        BY <1>1, <2>1 DEF Hits, Shape
      <4>2. CASE k = j
        <5>1. NetData(m) = NetData(l)
          BY <2>2, <3>1, <4>2
        <5>2. QED
          BY <5>1, <2>2, MaskSize, NetRank DEF Before
      <4>3. CASE k < j
        BY <1>1, <2>2, <3>1, <4>1, <4>3 DEF NetsInOrder
      <4>4. QED
        BY <4>1, <4>2, <4>3
    <3>3. LineRank(m) <= LineRank(l)
      BY <2>2, <3>1, <3>2, BeforeRanks
    <3>4. QED
      BY <3>1, <3>3
  <2>7. l \in Foremost(q)
    BY <2>5, <2>6 DEF Foremost
  <2>8. NetOutcome(q) = Verdict(l, q)
    BY <2>1, <2>2, <2>3, OutcomeRight
  <2>9. QED
    BY <2>2, <2>7, <2>8, VerdictPromised
<1>4. QED
  BY <1>2, <1>3

(* The most specific statement decides: BlackList_getMac gives nothing but  *)
(* what the foremost lines of the file say, in every sorted order.          *)
THEOREM SpecificFirst == Spec => []MostSpecificDecides
<1>1. IInv => MostSpecificDecides
  <2> SUFFICES ASSUME IInv, pc = "ready", PlainFile, NEW q \in Query,
                      NEW r \in BlackList_getMac(q)
               PROVE  r \in Promised(q)
    BY DEF MostSpecificDecides
  <2>1. Shape /\ Sound /\ Complete
    BY DEF IInv
  <2>2. PICK i \in SearchIP(q) :
          r = IF i # 0 /\ Decides(ip_list[i], q) THEN Outcome(ip_list[i], q)
              ELSE NetOutcome(q)
    BY DEF BlackList_getMac
  <2>3. i # 0 => i \in DOMAIN ip_list /\ ip_list[i].ip = q.ip
    BY DEF SearchIP
  <2>4. CASE i # 0 /\ Decides(ip_list[i], q)
    <3>1. PICK l \in Stated : /\ l \in Line /\ ~IsNet(l) /\ l.ip = q.ip
                              /\ Concerns(l, q) /\ ip_list[i] = IPData(l)
      BY <2>1, <2>3, <2>4, HostLine
    <3>2. Says(ip_list[i], l)
      BY <3>1, EntriesSay
    <3>3. l \in Speaking(q)
      BY <2>4, <3>1, <3>2, CompareRight DEF Speaking
    <3>4. ASSUME NEW o \in Speaking(q) PROVE LineRank(o) <= LineRank(l)
      <4>1. o \in Stated /\ o \in Line /\ Concerns(o, q)
        BY <2>1, StatedLines DEF Speaking
      <4>2. CASE IsNet(o)
        BY <3>1, <4>1, <4>2, HostRank
      <4>3. CASE ~IsNet(o)
        <5>1. o.ip = q.ip
          BY <4>1, <4>3 DEF Concerns, IsNet
        <5>2. o = l
          BY <3>1, <4>1, <4>3, <5>1 DEF PlainFile
        <5>3. LineRank(l) \in Int
          <6>1. AtRank(l) \in 0 .. 2 /\ Cardinality(Bits) \in Nat
            BY <3>1, AtRanks, BlackListAssumption, FS_CardinalityType DEF Line
          <6>2. LineRank(l) = AtRank(l) + 3 * (Cardinality(Bits) + 2)
            BY <3>1 DEF LineRank, IsNet
          <6>3. QED
            BY <6>1, <6>2
        <5>4. QED
          BY <5>2, <5>3
      <4>4. QED
        BY <4>2, <4>3
    <3>5. l \in Foremost(q)
      BY <3>3, <3>4 DEF Foremost
    <3>6. r = Verdict(l, q)
      BY <2>2, <2>4, <3>1, <3>2, OutcomeRight
    <3>7. QED
      BY <3>1, <3>5, <3>6, VerdictPromised
  <2>5. CASE ~(i # 0 /\ Decides(ip_list[i], q))
    <3>1. ASSUME NEW o \in Speaking(q), ~IsNet(o) PROVE FALSE
      <4>1. /\ o \in Stated /\ o \in Line /\ o.ip = q.ip
            /\ Suspect(o, q) \/ Spared(o, q)
        BY <2>1, <3>1, StatedLines DEF Speaking, Concerns, IsNet
      <4>2. CASE i = 0
        <5>1. PICK j \in 1 .. Len(ip_list) : IPKey(ip_list[j]) = IPKey(IPData(o))
          BY <2>1, <3>1, <4>1 DEF Complete
        <5>2. j \in DOMAIN ip_list /\ ip_list[j].ip = q.ip
          BY <2>1, <4>1, <5>1 DEF Shape, IPKey, IPData
        <5>3. 0 \notin SearchIP(q)
          BY <2>1, <5>2 DEF SearchIP, Shape
        <5>4. QED
          BY <4>2, <5>3
      <4>3. CASE i # 0
        <5>1. PICK l \in Stated : ~IsNet(l) /\ l.ip = q.ip /\ ip_list[i] = IPData(l)
          BY <2>1, <2>3, <4>3, HostLine
        <5>2. ip_list[i] = IPData(o)
          BY <3>1, <4>1, <5>1 DEF PlainFile
        <5>3. Decides(ip_list[i], q)
          BY <4>1, <5>2, EntriesSay, CompareRight
        <5>4. QED
          BY <2>5, <4>3, <5>3
      <4>4. QED
        BY <4>2, <4>3
    <3>2. NetOutcome(q) \in Promised(q)
      BY <3>1, NetsDecide
    <3>3. QED
      BY <2>2, <2>5, <3>2
  <2>6. QED
    BY <2>4, <2>5
<1>2. QED
  BY Inductive, <1>1, PTL

=============================================================================
