---------------------------- MODULE IPFileProofs ----------------------------
(***************************************************************************)
(* Reading the ipfile, for files, buffers and numbers of any size.  The    *)
(* buffer of BlackList_updateInternal delivers the file line by line: it   *)
(* implements LineFeed, never reads without room, and complains of long    *)
(* lines only when they are.  Netmasks are prefixes.  The buffers in which *)
(* expandLine puts lines together are large enough, a line that it refuses *)
(* has left no entries, and a line of ranges yields the entries of the     *)
(* lines that it stands for.                                               *)
(***************************************************************************)
EXTENDS IPFile, TLAPS, WellFoundedInduction, SequenceTheorems

(* The pointers in their order; no more in the buffer than fits. *)
Pointers ==
  /\ file \in Seq(Char)
  /\ off \in Nat /\ base \in Nat /\ line_start \in Nat
  /\ base <= line_start /\ line_start <= off /\ off <= Len(file)
  /\ off - base <= BufSize
  /\ pc \in {"read", "lines", "eof", "toolong", "error"}

NoNewline == \A i \in line_start + 1 .. off : file[i] # "NL"

(* Before a read() the buffer holds the beginning of one line, and has room. *)
BeforeRead == pc = "read" => base = line_start /\ off - base < BufSize /\ NoNewline

(* After it, the buffer is full or the file exhausted. *)
AfterRead == pc \in {"lines", "toolong"} => off - base = BufSize \/ off = Len(file)

GivingUp == pc = "toolong" => base = line_start /\ NoNewline

Inv == Pointers /\ BeforeRead /\ AfterRead /\ GivingUp

-----------------------------------------------------------------------------
(* The loop starts with an empty buffer. *)
LEMMA InitInv == Init => Inv
<1> SUFFICES ASSUME Init PROVE Inv
  OBVIOUS
<1>1. file \in Seq(Char) /\ Len(file) \in Nat
  BY FilesAssumption DEF Init
<1> QED
  BY <1>1, BufferAssumption
  DEF Init, BufferInit, Inv, Pointers, BeforeRead, AfterRead, GivingUp, NoNewline

(* Each step of the buffer keeps the invariant. *)
LEMMA ReadInv == Inv /\ Read => Inv'
<1> SUFFICES ASSUME Inv, Read PROVE Inv'
  OBVIOUS
<1> USE BufferAssumption DEF Inv
<1>1. pc = "read" /\ base = line_start /\ Room \in Nat \ {0} /\ NoNewline
  BY DEF Read, Room, BeforeRead, Pointers
<1>2. Len(file) \in Nat
  BY DEF Pointers
<1>3. Count \in Nat /\ off + Count <= Len(file) /\ off + Count - base <= BufSize
  BY <1>1, <1>2 DEF Count, Room, Pointers
<1>4. off + Count - base = BufSize \/ off + Count = Len(file)
  BY <1>1, <1>2 DEF Count, Room, Pointers
<1>5. CASE Count = 0
  BY <1>1, <1>2, <1>3, <1>5 DEF Read, Pointers, BeforeRead, AfterRead, GivingUp
<1>6. CASE Count # 0
  BY <1>1, <1>2, <1>3, <1>4, <1>6 DEF Read, Pointers, BeforeRead, AfterRead, GivingUp
<1> QED
  BY <1>5, <1>6

(* Cutting off a line leaves the rest of the buffer as it was. *)
LEMMA TakeLineInv == Inv /\ TakeLine => Inv'
<1> SUFFICES ASSUME Inv, TakeLine PROVE Inv'
  OBVIOUS
<1>1. line_start' \in line_start + 1 .. off
  BY DEF TakeLine, Newlines
<1> QED
  BY <1>1 DEF Inv, TakeLine, Pointers, BeforeRead, AfterRead, GivingUp

(* A buffer that is used up holds the beginning of no line. *)
LEMMA EmptyInv == Inv /\ Empty => Inv'
<1> SUFFICES ASSUME Inv, Empty PROVE Inv'
  OBVIOUS
<1> QED
  BY BufferAssumption
  DEF Inv, Empty, Pointers, BeforeRead, AfterRead, GivingUp, NoNewline

(* memmove makes room: a rest that is moved did not fill the buffer. *)
LEMMA MoveRestInv == Inv /\ MoveRest => Inv'
<1> SUFFICES ASSUME Inv, MoveRest PROVE Inv'
  OBVIOUS
<1>1. NoNewline
  BY DEF MoveRest, Newlines, NoNewline
<1> QED
  BY <1>1, BufferAssumption
  DEF Inv, MoveRest, Pointers, BeforeRead, AfterRead, GivingUp, NoNewline

(* A line is given up with all of it that was read in the buffer. *)
LEMMA TooLongInv == Inv /\ TooLong => Inv'
<1> SUFFICES ASSUME Inv, TooLong PROVE Inv'
  OBVIOUS
<1>1. NoNewline
  BY DEF TooLong, Newlines, NoNewline
<1> QED
  BY <1>1
  DEF Inv, TooLong, Pointers, BeforeRead, AfterRead, GivingUp, NoNewline

(* Steps of the expansion do not touch the buffer. *)
LEMMA StutterInv == Inv /\ UNCHANGED bufvars => Inv'
BY DEF Inv, bufvars, Pointers, BeforeRead, AfterRead, GivingUp, NoNewline

(* Every step is one of the buffer or leaves it alone. *)
LEMMA BufferSteps ==
  [Next]_vars => \/ Read \/ ReadFails \/ Empty \/ MoveRest \/ TooLong
                 \/ TakeLine \/ UNCHANGED bufvars
BY DEF Next, Buffer, vars

(* The invariant is inductive. *)
LEMMA NextInv == Inv /\ [Next]_vars => Inv'
<1> SUFFICES ASSUME Inv, [Next]_vars PROVE Inv'
  OBVIOUS
<1>1. CASE ReadFails
  BY <1>1 DEF Inv, ReadFails, Pointers, BeforeRead, AfterRead, GivingUp
<1> QED
  BY <1>1, BufferSteps, ReadInv, TakeLineInv, EmptyInv, MoveRestInv, TooLongInv, StutterInv

(* The invariant holds in every behaviour. *)
LEMMA InvHolds == Spec => []Inv
BY InitInv, NextInv, PTL DEF Spec

-----------------------------------------------------------------------------
(* read() is never called with a full buffer, so that a result of 0 means   *)
(* the end of the file (the while loop of BlackList_updateInternal).        *)
THEOREM AlwaysRoom == Spec => []RoomForMore
<1>1. Inv => RoomForMore
  BY BufferAssumption DEF Inv, Pointers, BeforeRead, RoomForMore, Room
<1> QED
  BY <1>1, InvHolds, PTL

(* "line too long" is said of a line longer than the buffer or of the rest  *)
(* of the file behind its last end of line.                                 *)
THEOREM OnlyLongLinesRefused == Spec => []LongOrUnterminated
<1>1. ASSUME Inv PROVE LongOrUnterminated
  <2> SUFFICES ASSUME pc = "toolong", NEW i \in DOMAIN file, i > line_start, file[i] = "NL"
               PROVE  i - line_start > BufSize
    BY DEF LongOrUnterminated
  <2>1. Pointers /\ NoNewline /\ base = line_start
    BY <1>1 DEF Inv, GivingUp
  <2>2. i \in Nat /\ i <= Len(file) /\ Len(file) \in Nat
    BY <2>1 DEF Pointers
  <2>3. i > off
    BY <2>1, <2>2 DEF NoNewline, Pointers
  <2>4. off - base = BufSize \/ off = Len(file)
    BY <1>1 DEF Inv, AfterRead
  <2> QED
    BY <2>1, <2>2, <2>3, <2>4, BufferAssumption DEF Pointers
<1> QED
  BY <1>1, InvHolds, PTL

(* Filling, cutting and moving the buffer amounts to reading the file line  *)
(* by line (LineFeed): no line is lost, split or handed on twice.           *)
THEOREM BufferImplementsLineFeed == Spec => ImplementsLineFeed
<1>1. Init => Feed!FeedInit
  BY DEF Init, BufferInit, Feed!FeedInit
<1>2. ASSUME Inv, [Next]_vars
      PROVE  [Feed!Deliver \/ Feed!Finish \/ Feed!GiveUp]_(Feed!feedvars)
  <2>0. Pointers /\ Len(file) \in Nat
    BY <1>2 DEF Inv, Pointers
  <2>1. CASE Read
    <3>1. pc = "read" /\ base = line_start /\ NoNewline /\ Room \in Nat \ {0}
      BY <1>2, <2>1, BufferAssumption DEF Inv, Read, BeforeRead, Pointers, Room
    <3>2. CASE Count = 0
      <4>1. off = Len(file)
        BY <2>0, <3>1, <3>2 DEF Count, Pointers
      <4>2. Feed!EndsOfLine = {}
        BY <2>0, <3>1, <4>1 DEF Feed!EndsOfLine, NoNewline, Pointers
      <4>3. Feed!Finish
        BY <2>1, <3>1, <3>2, <4>2 DEF Read, Feed!Finish
      <4> QED
        BY <4>3
    <3>3. CASE Count # 0
      BY <2>1, <3>1, <3>3 DEF Read, Feed!feedvars
    <3> QED
      BY <3>2, <3>3
  <2>2. CASE ReadFails
    BY <2>2 DEF ReadFails, Feed!GiveUp
  <2>3. CASE TooLong
    BY <2>3 DEF TooLong, Feed!GiveUp
  <2>4. CASE Empty \/ MoveRest
    BY <2>4 DEF Empty, MoveRest, Feed!feedvars
  <2>5. CASE TakeLine
    <3>1. line_start' \in Feed!EndsOfLine
      BY <2>0, <2>5 DEF TakeLine, Newlines, Feed!EndsOfLine, Pointers
    <3>2. ASSUME NEW i \in Feed!EndsOfLine PROVE line_start' <= i
      BY <2>0, <2>5, <3>2 DEF TakeLine, Newlines, Feed!EndsOfLine, Pointers
    <3>3. Feed!Deliver
      BY <2>5, <3>1, <3>2 DEF TakeLine, Feed!Deliver
    <3> QED
      BY <3>3
  <2>6. CASE UNCHANGED bufvars
    BY <2>6 DEF bufvars, Feed!feedvars
  <2> QED
    BY <1>2, <2>1, <2>2, <2>3, <2>4, <2>5, <2>6, BufferSteps
<1> QED
  BY <1>1, <1>2, InvHolds, PTL DEF Spec, ImplementsLineFeed, Feed!FeedSpec

-----------------------------------------------------------------------------
(* Induction over the natural numbers, by a least counterexample. *)
LEMMA LeastNumber ==
  ASSUME NEW T \in SUBSET Nat, T # {}
  PROVE  \E m \in T : \A k \in T : m <= k
<1>1. PICK m \in T : \A k \in T : ~ (<<k, m>> \in OpToRel(<, Nat))
  BY NatLessThanWellFounded, WFMin, Zenon
<1>2. \A k \in T : ~ (k < m)
  BY <1>1, Zenon DEF OpToRel
<1> QED
  BY <1>2

(* h is what a recursion, by F from the value at p[k], computes up to n. *)
Part(S, a, p, F, n, h) ==
  /\ h \in [0 .. n -> S] /\ h[0] = a
  /\ \A k \in 1 .. n : h[k] = F[k][h[p[k]]]

(* Two computations agree as far as both go. *)
LEMMA PartsAgree ==
  ASSUME NEW S, NEW a \in S, NEW p \in [Nat -> Nat],
         \A k \in Nat : k # 0 => p[k] < k,
         NEW F, NEW n \in Nat, NEW m \in Nat, m <= n,
         NEW h, NEW i, Part(S, a, p, F, m, h), Part(S, a, p, F, n, i)
  PROVE  \A k \in 0 .. m : h[k] = i[k]
<1> DEFINE T == {k \in 0 .. m : h[k] # i[k]}
<1> SUFFICES ASSUME T # {} PROVE FALSE
  OBVIOUS
<1>0. T \in SUBSET Nat
  OBVIOUS
<1>1. PICK k \in T : \A j \in T : k <= j
  BY <1>0, LeastNumber
<1>2. k # 0
  BY DEF Part
<1>3. p[k] \in 0 .. m /\ p[k] < k
  BY <1>2
<1>4. h[p[k]] = i[p[k]]
  BY <1>1, <1>3
<1>5. k \in 1 .. m /\ k \in 1 .. n
  BY <1>2
<1> QED
  BY <1>4, <1>5 DEF Part

(* A computation can be continued by one number. *)
LEMMA PartExtends ==
  ASSUME NEW S, NEW a \in S, NEW p \in [Nat -> Nat],
         \A k \in Nat : k # 0 => p[k] < k,
         NEW F \in [Nat -> [S -> S]], NEW n \in Nat, n # 0,
         NEW h, Part(S, a, p, F, n - 1, h)
  PROVE  \E i : Part(S, a, p, F, n, i)
<1> DEFINE i == [k \in 0 .. n |-> IF k < n THEN h[k] ELSE F[n][h[p[n]]]]
<1>1. h \in [0 .. n - 1 -> S] /\ h[0] = a
  BY DEF Part
<1>2. p[n] \in 0 .. n - 1
  OBVIOUS
<1>3. F[n][h[p[n]]] \in S
  BY <1>1, <1>2
<1>4. i \in [0 .. n -> S]
  BY <1>1, <1>3
<1>5. i[0] = a
  BY <1>1
<1>6. ASSUME NEW k \in 1 .. n PROVE i[k] = F[k][i[p[k]]]
  <2>0. k \in Nat /\ k # 0 /\ k <= n
    OBVIOUS
  <2>1. p[k] \in 0 .. n - 1 /\ i[p[k]] = h[p[k]]
    <3>1. p[k] \in Nat /\ p[k] < k
      BY <2>0
    <3> QED BY <2>0, <3>1, SMTT(60)
  <2>2. CASE k < n
    <3>1. k \in 1 .. n - 1 /\ i[k] = h[k]
      BY <2>2
    <3>2. h[k] = F[k][h[p[k]]]
      BY <3>1 DEF Part
    <3> QED BY <2>1, <3>1, <3>2
  <2>3. CASE k = n
    BY <2>1, <2>3
  <2> QED BY <2>2, <2>3
<1>7. Part(S, a, p, F, n, i)
  BY <1>4, <1>5, <1>6 DEF Part
<1> QED
  BY <1>7

Computes(S, a, p, F, g) ==
  /\ g \in [Nat -> S] /\ g[0] = a
  /\ \A n \in Nat : n # 0 => g[n] = F[n][g[p[n]]]

(* Hence the recursion computes something everywhere. *)
LEMMA Recursion ==
  ASSUME NEW S, NEW a \in S, NEW p \in [Nat -> Nat],
         \A k \in Nat : k # 0 => p[k] < k,
         NEW F \in [Nat -> [S -> S]]
  PROVE  \E g : Computes(S, a, p, F, g)
<1> DEFINE T == {n \in Nat : ~ \E h : Part(S, a, p, F, n, h)}
<1>1. T = {}
  <2> SUFFICES ASSUME T # {} PROVE FALSE
    OBVIOUS
  <2>1. PICK n \in T : \A j \in T : n <= j
    BY LeastNumber
  <2>2. CASE n = 0
    <3>1. Part(S, a, p, F, 0, [k \in {0} |-> a])
      BY DEF Part
    <3> QED BY <2>2, <3>1
  <2>3. CASE n # 0
    <3>0. n \in Nat
      OBVIOUS
    <3>1. n - 1 \in Nat /\ n - 1 \notin T
      <4>1. n - 1 \in Nat /\ ~ (n <= n - 1)
        BY <2>3, <3>0
      <4> QED BY <2>1, <4>1
    <3>2. PICK h : Part(S, a, p, F, n - 1, h)
      BY <3>1
    <3> QED BY <2>1, <2>3, <3>2, PartExtends
  <2> QED BY <2>2, <2>3
<1> DEFINE H(n) == CHOOSE h : Part(S, a, p, F, n, h)
           g == [n \in Nat |-> H(n)[n]]
<1>2. \A n \in Nat : Part(S, a, p, F, n, H(n))
  BY <1>1
<1> HIDE DEF H
<1>3. g \in [Nat -> S]
  <2>1. ASSUME NEW n \in Nat PROVE H(n)[n] \in S
    BY <1>2 DEF Part
  <2> QED BY <2>1
<1>4. g[0] = a
  BY <1>2 DEF Part
<1>5. ASSUME NEW n \in Nat, n # 0 PROVE g[n] = F[n][g[p[n]]]
  <2>1. p[n] \in Nat /\ p[n] < n
    BY <1>5
  <2>2. H(n)[n] = F[n][H(n)[p[n]]]
    BY <1>2, <1>5 DEF Part
  <2>3. \A k \in 0 .. p[n] : H(p[n])[k] = H(n)[k]
    BY <1>2, <2>1, PartsAgree
  <2> QED BY <2>1, <2>2, <2>3
<1>6. Computes(S, a, p, F, g)
  BY <1>3, <1>4, <1>5 DEF Computes
<1> QED
  BY <1>6

-----------------------------------------------------------------------------
(* What the shifts of parseNetMask are based on. *)
LEMMA PowersOfTwo ==
  /\ Pow2 \in [Nat -> Nat \ {0}] /\ Pow2[0] = 1
  /\ \A n \in Nat : n # 0 => Pow2[n] = 2 * Pow2[n - 1]
<1> DEFINE S == Nat \ {0}
           p == [n \in Nat |-> IF n = 0 THEN 0 ELSE n - 1]
           F == [n \in Nat |-> [v \in S |-> 2 * v]]
           Rec(g) == [n \in Nat |-> IF n = 0 THEN 1 ELSE 2 * g[n - 1]]
<1>1. p \in [Nat -> Nat] /\ \A k \in Nat : k # 0 => p[k] < k
  OBVIOUS
<1>2. F \in [Nat -> [S -> S]] /\ 1 \in S
  OBVIOUS
<1>3. PICK g \in [Nat -> S] : g[0] = 1 /\ \A n \in Nat : n # 0 => g[n] = F[n][g[p[n]]]
  <2> HIDE DEF S, p, F
  <2>1. PICK g : Computes(S, 1, p, F, g)
    BY <1>1, <1>2, Recursion
  <2> QED BY <2>1 DEF Computes
<1>4. g = Rec(g)
  <2>1. ASSUME NEW n \in Nat PROVE g[n] = IF n = 0 THEN 1 ELSE 2 * g[n - 1]
    <3>1. CASE n # 0
      <4>1. p[n] = n - 1 /\ n - 1 \in Nat
        BY <3>1
      <4>2. g[n - 1] \in S
        BY <4>1
      <4>3. F[n][g[n - 1]] = 2 * g[n - 1]
        BY <4>2
      <4> QED BY <1>3, <3>1, <4>1, <4>3
    <3> QED BY <1>3, <3>1
  <2> QED BY <2>1
<1>5. Pow2 = Rec(Pow2)
  <2>1. \E f : f = Rec(f)
    BY <1>4
  <2> QED BY <2>1 DEF Pow2
<1>6. \A n \in Nat : Pow2[n] = IF n = 0 THEN 1 ELSE 2 * Pow2[n - 1]
  BY <1>5
<1> DEFINE T == {n \in Nat : ~ (Pow2[n] \in S)}
<1>7. T = {}
  <2> SUFFICES ASSUME T # {} PROVE FALSE
    OBVIOUS
  <2>1. PICK n \in T : \A j \in T : n <= j
    BY LeastNumber
  <2>2. n \in Nat /\ n # 0
    BY <1>6
  <2>3. n - 1 \in Nat /\ ~ (n <= n - 1)
    BY <2>2
  <2>4. Pow2[n - 1] \in S
    BY <2>1, <2>3
  <2> QED BY <1>6, <2>2, <2>4
<1>8. Pow2 = [n \in Nat |-> Pow2[n]]
  BY <1>5
<1> QED
  BY <1>6, <1>7, <1>8

(* A remainder is what is left below the divisor. *)
LEMMA RemainderIs ==
  ASSUME NEW w \in Nat \ {0}, NEW q \in Nat, NEW r \in Nat, r < w
  PROVE  (w * q + r) % w = r
<1> DEFINE a == w * q + r
           d == a \div w
<1>1. a \in Nat /\ w * q \in Nat
  OBVIOUS
<1>2. d \in Nat /\ a % w \in 0 .. w - 1 /\ a = w * d + (a % w)
  BY <1>1
<1>3. PICK e \in 0 .. w - 1 : e = a % w
  BY <1>2
<1>4. w * q + r = w * d + e
  BY <1>2, <1>3
<1> HIDE DEF a, d
<1>5. ASSUME NEW i \in Nat, NEW j \in Nat, i < j PROVE w * i + w <= w * j
  <2>1. PICK c \in Nat : j = i + 1 + c
    <3>1. j - i - 1 \in Nat /\ j = i + 1 + (j - i - 1)
      BY <1>5
    <3> QED BY <3>1
  <2>2. w * j = w * i + w + w * c /\ w * c \in Nat
    BY <2>1
  <2> QED BY <2>2
<1>6. w * q \in Nat /\ w * d \in Nat
  BY <1>2
<1>7. ~ (q < d)
  <2> SUFFICES ASSUME q < d PROVE FALSE
    OBVIOUS
  <2>1. w * q + w <= w * d
    BY <1>2, <1>5
  <2> QED BY <1>4, <1>6, <2>1
<1>8. ~ (d < q)
  <2> SUFFICES ASSUME d < q PROVE FALSE
    OBVIOUS
  <2>1. w * d + w <= w * q
    BY <1>2, <1>5
  <2> QED BY <1>4, <1>6, <2>1
<1>9. q = d
  BY <1>2, <1>7, <1>8
<1>10. r = e
  BY <1>4, <1>6, <1>9
<1> QED
  BY <1>3, <1>10 DEF a

(* Powers grow with the exponent. *)
LEMMA PowersGrow ==
  ASSUME NEW k \in Nat, NEW n \in Nat, k <= n
  PROVE  Pow2[k] <= Pow2[n]
<1> DEFINE T == {i \in Nat : k <= i /\ ~ (Pow2[k] <= Pow2[i])}
<1> SUFFICES ASSUME T # {} PROVE FALSE
  OBVIOUS
<1>1. PICK i \in T : \A j \in T : i <= j
  BY LeastNumber
<1>2. i \in Nat /\ i - 1 \in Nat /\ i # 0 /\ k <= i - 1
  BY PowersOfTwo
<1>3. ~ (i <= i - 1)
  BY <1>2
<1>4. Pow2[k] <= Pow2[i - 1]
  BY <1>1, <1>2, <1>3
<1>5. Pow2[i] = 2 * Pow2[i - 1] /\ Pow2[k] \in Nat /\ Pow2[i - 1] \in Nat
  BY <1>2, PowersOfTwo
<1> QED
  BY <1>4, <1>5

(* The two shifts and the two wrap-arounds make the leading ones. *)
LEMMA ShiftedOnes ==
  ASSUME NEW val \in 0 .. MaxMask
  PROVE  MaskBits(val) = Word - Pow2[MaxMask - val]
<1>0. MaxMask \in Nat /\ val \in Nat /\ Word \in Nat \ {0}
  <2>1. MaxMask \in Nat
    BY LineAssumption
  <2> QED BY <2>1, PowersOfTwo DEF Word
<1>1. CASE val = MaxMask
  BY <1>0, <1>1, PowersOfTwo DEF MaskBits
<1>2. CASE val < MaxMask
  <2>1. MaxMask - val \in Nat /\ MaxMask - val - 1 \in Nat /\ MaxMask - val # 0
    BY <1>0, <1>2
  <2>2. PICK q \in Nat : q = Pow2[MaxMask - val - 1] /\ q # 0
    BY <2>1, PowersOfTwo
  <2>3. Pow2[MaxMask - val] = 2 * q
    BY <2>1, <2>2, PowersOfTwo
  <2>4. 2 * q <= Word
    BY <1>0, <2>1, <2>3, PowersGrow DEF Word
  <2>5. PICK w \in Nat : w = Word /\ w # 0
    BY <1>0
  <2>6. ((w - 1) * q) % w = w - q
    <3>1. (w - 1) * q = w * (q - 1) + (w - q)
      BY <2>2, <2>5
    <3>2. q - 1 \in Nat /\ w - q \in Nat /\ w - q < w
      BY <2>2, <2>4, <2>5
    <3> QED BY <2>5, <3>1, <3>2, RemainderIs
  <2>7. ((w - q) * 2) % w = w - 2 * q
    <3>1. (w - q) * 2 = w * 1 + (w - 2 * q)
      OBVIOUS
    <3>2. w - 2 * q \in Nat /\ w - 2 * q < w
      BY <2>2, <2>4, <2>5
    <3> QED BY <2>5, <3>1, <3>2, RemainderIs
  <2>8. MaskBits(val) = ((((w - 1) * q) % w) * 2) % w
    BY <1>2, <2>2, <2>5 DEF MaskBits
  <2> QED BY <2>3, <2>5, <2>6, <2>7, <2>8
<1> QED
  BY <1>0, <1>1, <1>2

(* The netmask a field of parseLine may hold. *)
PrefixMask(m) == m.len >= 0 => m.bits = Word - Pow2[MaxMask - m.len]

MaskField(r) == "mask" \in DOMAIN r /\ PrefixMask(r.mask)

(* parseNetMask makes a prefix of a number, and of nothing else. *)
LEMMA NetMaskIsPrefix ==
  ASSUME NEW t, NEW i
  PROVE  PrefixMask(BlackList_parseNetMask(t, i).mask)
<1> DEFINE num == Strtol(t, i)
           e   == Find(t, num.end, {NUL, " ", "@"})
           f   == SubSeq(t, i, e - 1)
<1>1. PrefixMask(NoMask) /\ PrefixMask([NoMask EXCEPT !.text = f])
  BY DEF PrefixMask, NoMask
<1>2. ASSUME num.val \in 0 .. MaxMask
      PROVE  PrefixMask([len |-> num.val, bits |-> MaskBits(num.val), text |-> <<>>])
  BY <1>2, ShiftedOnes DEF PrefixMask
<1> HIDE DEF num, e, f
<1> QED
  BY <1>1, <1>2 DEF BlackList_parseNetMask, num, e, f

(* Each field that parseLine reads leaves a prefix in the mask. *)
LEMMA FieldsKeepMask ==
  ASSUME NEW t, NEW r, MaskField(r)
  PROVE  /\ MaskField(ParseMask(t, r)) /\ MaskField(ParseAtMac(t, r))
         /\ MaskField(ParseMac(t, r))
<1>1. MaskField(ParseMask(t, r))
  <2>1. PrefixMask(BlackList_parseNetMask(t, r.pos).mask)
    BY NetMaskIsPrefix
  <2> QED BY <2>1 DEF ParseMask, MaskField
<1>2. MaskField(ParseAtMac(t, r))
  BY DEF ParseAtMac, MaskField
<1>3. MaskField(ParseMac(t, r))
  BY DEF ParseMac, MaskField
<1> QED
  BY <1>1, <1>2, <1>3

(* So it does as a whole. *)
LEMMA LineMaskIsPrefix ==
  ASSUME NEW t, NEW r \in BlackList_parseLine(t)
  PROVE  MaskField(r)
<1>1. MaskField(ParseHost(t, NoFields))
  BY DEF ParseHost, NoFields, NoMask, MaskField, PrefixMask
<1> QED
  BY <1>1, FieldsKeepMask DEF BlackList_parseLine

(* A netmask given as a number n is kept as n leading ones, for every       *)
(* length of addresses and every line: the two shifts of parseNetMask wrap  *)
(* around where they should, also for 0 and 32.                             *)
THEOREM MasksArePrefixes == Spec => []MaskIsPrefix
<1>1. Init => MaskIsPrefix
  BY DEF Init, ExpandInit, MaskIsPrefix
<1>2. ASSUME MaskIsPrefix, [Next]_vars PROVE MaskIsPrefix'
  <2>1. CASE Leaf
    <3>1. PICK r \in BlackList_parseLine(arg) : parsed' = parsed \cup EntryOf(r)
      BY <2>1 DEF Leaf
    <3>2. PrefixMask(r.mask)
      BY LineMaskIsPrefix DEF MaskField
    <3>3. \A e \in EntryOf(r) : e.mask = r.mask
      BY DEF EntryOf
    <3>4. \A e \in parsed : PrefixMask(e.mask)
      BY <1>2 DEF MaskIsPrefix, PrefixMask
    <3>5. \A e \in parsed' : PrefixMask(e.mask)
      BY <3>1, <3>2, <3>3, <3>4
    <3> QED BY <3>5 DEF MaskIsPrefix, PrefixMask
  <2>2. CASE parsed' = {}
    BY <2>2 DEF MaskIsPrefix
  <2>3. CASE UNCHANGED parsed
    BY <1>2, <2>3 DEF MaskIsPrefix
  <2> QED
    BY <1>2, <2>1, <2>2, <2>3 DEF Next, Buffer, Expand, ExpandNext, ExpandError,
       ExpandList, ExpandRange, Error, Push, NextItem, NextNumber, Return, vars, expvars
<1> QED
  BY <1>1, <1>2, PTL DEF Spec

-----------------------------------------------------------------------------
(* k is the first place from i on with a character of C, or the end. *)
First(t, i, C, k) ==
  /\ k \in i .. End(t)
  /\ k <= Len(t) => t[k] \in C
  /\ \A j \in i .. k - 1 : t[j] \notin C

(* Find gives this place. *)
LEMMA FindIs ==
  ASSUME NEW t, Len(t) \in Nat, NEW i \in Nat, i <= End(t), NEW C
  PROVE  First(t, i, C, Find(t, i, C))
<1> DEFINE hits == {k \in i .. Len(t) : t[k] \in C}
           f == CHOOSE k \in hits : \A j \in hits : k <= j
<1>1. CASE hits = {}
  <2>1. Find(t, i, C) = End(t)
    BY <1>1 DEF Find
  <2> QED BY <1>1, <2>1 DEF First, End
<1>2. CASE hits # {}
  <2>1. hits \in SUBSET Nat
    OBVIOUS
  <2>2. \E k \in hits : \A j \in hits : k <= j
    <3> HIDE DEF hits
    <3> QED BY <1>2, <2>1, LeastNumber
  <2>3. f \in hits /\ \A j \in hits : f <= j
    <3> HIDE DEF hits
    <3> QED BY <2>2
  <2>4. Find(t, i, C) = f
    BY <1>2 DEF Find
  <2> HIDE DEF f
  <2>5. f \in i .. Len(t) /\ t[f] \in C
    BY <2>3
  <2>6. \A j \in i .. f - 1 : t[j] \notin C
    <3> SUFFICES ASSUME NEW j \in i .. f - 1, t[j] \in C PROVE FALSE
      OBVIOUS
    <3>1. j \in hits
      BY <2>5
    <3> QED BY <2>3, <2>5, <3>1
  <2> QED BY <2>4, <2>5, <2>6 DEF First, End
<1> QED
  BY <1>1, <1>2

Text == Seq(Char)

(* Behind the scan of a line with a range, the '{' is before the '}'. *)
LEMMA BracesInOrder ==
  ASSUME NEW t \in Text, ~ScanError(t), HasRange(t)
  PROVE  /\ Open(t) \in 1 .. Len(t) /\ Close(t) \in 1 .. Len(t)
         /\ Open(t) < Close(t) /\ Close(t) < Stop(t)
<1>1. Len(t) \in Nat /\ End(t) = Len(t) + 1
  BY DEF Text, End
<1>0. /\ First(t, 1, {"{", "#"}, Open(t)) /\ First(t, 1, {"}", "#"}, Close(t))
      /\ First(t, 1, {"#"}, Stop(t))
  <2>1. 1 \in Nat /\ 1 <= End(t)
    BY <1>1
  <2> QED BY <1>1, <2>1, FindIs DEF Open, Close, Stop
<1>2. Open(t) \in 1 .. End(t) /\ Close(t) \in 1 .. End(t) /\ Stop(t) \in 1 .. End(t)
  BY <1>0 DEF First
<1>3. Close(t) < Stop(t) /\ ~ (Close(t) < Open(t))
  BY DEF HasRange, ScanError
<1>4. t[Close(t)] \in {"}", "#"} /\ t[Close(t)] \notin {"#"}
  <2>1. Close(t) <= Len(t)
    BY <1>1, <1>2, <1>3
  <2>2. \A j \in 1 .. Stop(t) - 1 : t[j] \notin {"#"}
    BY <1>0 DEF First
  <2>3. Close(t) \in 1 .. Stop(t) - 1
    BY <1>1, <1>2, <1>3
  <2>4. t[Close(t)] \in {"}", "#"}
    BY <1>0, <2>1 DEF First
  <2> QED BY <2>2, <2>3, <2>4
<1>5. Open(t) <= Len(t)
  BY <1>1, <1>2, <1>3
<1>6. t[Open(t)] \in {"{", "#"}
  BY <1>0, <1>5 DEF First
<1>7. Open(t) # Close(t)
  BY <1>4, <1>6
<1> QED
  BY <1>1, <1>2, <1>3, <1>7

(* What fmt_uint writes. *)
LEMMA NumberTexts ==
  /\ fmt_uint \in [Nat -> Seq(Digit)]
  /\ \A n \in Nat : fmt_uint[n] = IF n < Base THEN <<Digits[n + 1]>>
                    ELSE Append(fmt_uint[n \div Base], Digits[(n % Base) + 1])
<1> DEFINE S == Seq(Digit)
           p == [n \in Nat |-> n \div Base]
           G(n, s) == IF n < Base THEN <<Digits[n + 1]>>
                      ELSE Append(s, Digits[(n % Base) + 1])
           F == [n \in Nat |-> [s \in S |-> G(n, s)]]
           Rec(g) == [n \in Nat |-> IF n < Base THEN <<Digits[n + 1]>>
                      ELSE Append(g[n \div Base], Digits[(n % Base) + 1])]
<1>0. PICK b \in Nat : b = Base /\ b > 1
  BY LineAssumption DEF Base
<1>1. \A k \in 1 .. b : Digits[k] \in Digit
  BY <1>0, LineAssumption DEF Base
<1>2. \A n \in Nat : n \div b \in Nat /\ n % b \in 0 .. b - 1 /\ (n # 0 => n \div b < n)
  <2> SUFFICES ASSUME NEW n \in Nat
               PROVE  n \div b \in Nat /\ n % b \in 0 .. b - 1 /\ (n # 0 => n \div b < n)
    OBVIOUS
  <2>1. n \div b \in Nat /\ n % b \in 0 .. b - 1 /\ n = b * (n \div b) + (n % b)
    BY <1>0
  <2>2. PICK q \in Nat : q = n \div b
    BY <2>1
  <2>3. b * q >= 2 * q
    BY <1>0
  <2>4. b * q \in Nat /\ n >= b * q
    BY <1>0, <2>1, <2>2
  <2> QED BY <2>1, <2>2, <2>3, <2>4
<1>3. p \in [Nat -> Nat] /\ \A k \in Nat : k # 0 => p[k] < k
  BY <1>0, <1>2
<1>4. \A n \in Nat : \A s \in S : G(n, s) \in S
  <2> SUFFICES ASSUME NEW n \in Nat, NEW s \in S PROVE G(n, s) \in S
    OBVIOUS
  <2>1. CASE n < Base
    <3>1. Digits[n + 1] \in Digit
      BY <1>0, <1>1, <2>1
    <3> QED BY <2>1, <3>1
  <2>2. CASE ~ (n < Base)
    <3>1. Digits[(n % Base) + 1] \in Digit
      <4>0. PICK e \in 0 .. b - 1 : e = n % b
        BY <1>2
      <4>1. (n % b) + 1 \in 1 .. b
        BY <1>0, <4>0
      <4> QED BY <1>0, <1>1, <4>1
    <3>2. Append(s, Digits[(n % Base) + 1]) \in S
      BY <3>1, AppendProperties
    <3> QED BY <2>2, <3>2
  <2> QED BY <2>1, <2>2
<1>5. <<Digits[1]>> \in S
  <2>1. Digits[1] \in Digit
    BY <1>0, <1>1
  <2> QED BY <2>1
<1>6. F \in [Nat -> [S -> S]]
  <2> HIDE DEF G, S
  <2> QED BY <1>4
<1>7. PICK g : Computes(S, <<Digits[1]>>, p, F, g)
  <2> HIDE DEF S, p, F
  <2> QED BY <1>3, <1>5, <1>6, Recursion
<1>8. g = Rec(g) /\ g \in [Nat -> S]
  <2>1. g \in [Nat -> S] /\ g[0] = <<Digits[1]>>
    BY <1>7 DEF Computes
  <2>2. ASSUME NEW n \in Nat, n # 0 PROVE g[n] = G(n, g[n \div Base])
    <3>1. g[n] = F[n][g[p[n]]]
      BY <1>7, <2>2 DEF Computes
    <3>2. p[n] = n \div Base /\ n \div Base \in Nat
      BY <1>0, <1>2
    <3>3. g[n \div Base] \in S
      BY <2>1, <3>2
    <3> HIDE DEF G, S
    <3> QED BY <3>1, <3>2, <3>3
  <2>3. g[0] = G(0, g[0 \div Base])
    BY <1>0, <2>1
  <2>4. \A n \in Nat : g[n] = G(n, g[n \div Base])
    BY <2>2, <2>3
  <2> QED BY <2>1, <2>4
<1>9. fmt_uint = Rec(fmt_uint)
  <2>1. \E f : f = Rec(f)
    BY <1>8
  <2> QED BY <2>1 DEF fmt_uint
<1>10. \A n \in Nat : fmt_uint[n] = G(n, fmt_uint[n \div Base])
  BY <1>9
<1> HIDE DEF G
<1> DEFINE T == {n \in Nat : ~ (fmt_uint[n] \in S)}
<1>11. T = {}
  <2> SUFFICES ASSUME T # {} PROVE FALSE
    OBVIOUS
  <2>1. PICK n \in T : \A j \in T : n <= j
    BY LeastNumber
  <2>2. CASE n < Base
    <3>1. <<Digits[n + 1]>> \in S
      <4>1. n + 1 \in 1 .. b
        BY <1>0, <2>2
      <4>2. Digits[n + 1] \in Digit
        BY <1>1, <4>1
      <4> QED BY <4>2
    <3> QED BY <1>10, <2>2, <3>1 DEF G
  <2>3. CASE ~ (n < Base)
    <3>1. n # 0 /\ n \div Base \in Nat /\ n \div Base < n
      <4>1. n \in Nat /\ n # 0
        BY <1>0, <2>3
      <4> QED BY <1>0, <1>2, <4>1
    <3>2. fmt_uint[n \div Base] \in S
      BY <2>1, <3>1
    <3> QED BY <1>4, <1>10, <3>2
  <2> QED BY <2>2, <2>3
<1> QED
  BY <1>9, <1>10, <1>11 DEF G

(* v[i] is what the first i digits of d mean. *)
Counts(d, v) ==
  /\ v \in [0 .. Len(d) -> Nat] /\ v[0] = 0
  /\ \A i \in 1 .. Len(d) : \E k \in 1 .. Base : v[i] = v[i - 1] * Base + k - 1

(* strtol adds up the digits. *)
LEMMA ValueCounts ==
  ASSUME NEW d \in Seq(Digit)
  PROVE  \E v : Counts(d, v) /\ Value(d) = v[Len(d)]
<1> DEFINE L == Len(d)
           D(i) == CHOOSE k \in DOMAIN Digits : Digits[k] = d[i]
           Rec(v) == [i \in 0 .. L |-> IF i = 0 THEN 0 ELSE v[i - 1] * Base + D(i) - 1]
           val == CHOOSE v : v = Rec(v)
           p == [n \in Nat |-> IF n = 0 THEN 0 ELSE n - 1]
           F == [n \in Nat |-> [x \in Nat |->
                  IF n \in 1 .. L THEN x * Base + D(n) - 1 ELSE 0]]
<1>0. L \in Nat /\ Base \in Nat /\ DOMAIN Digits = 1 .. Base
  BY LineAssumption DEF Base
<1>1. \A i \in 1 .. L : D(i) \in 1 .. Base
  <2> SUFFICES ASSUME NEW i \in 1 .. L PROVE D(i) \in 1 .. Base
    OBVIOUS
  <2>1. d[i] \in Digit
    OBVIOUS
  <2>2. \E k \in DOMAIN Digits : Digits[k] = d[i]
    BY <2>1 DEF Digit
  <2>3. D(i) \in DOMAIN Digits
    BY <2>2
  <2> QED BY <1>0, <2>3
<1> HIDE DEF D, L
<1>2. p \in [Nat -> Nat] /\ \A k \in Nat : k # 0 => p[k] < k
  OBVIOUS
<1>3. F \in [Nat -> [Nat -> Nat]]
  <2>1. ASSUME NEW n \in 1 .. L, NEW x \in Nat PROVE x * Base + D(n) - 1 \in Nat
    <3>1. x * Base \in Nat /\ D(n) - 1 \in Nat
      BY <1>0, <1>1
    <3>2. PICK e \in Nat : e = D(n) - 1 /\ D(n) = e + 1
      BY <1>0, <1>1, <3>1
    <3> QED BY <3>1, <3>2
  <2> QED BY <2>1
<1>4. PICK g : Computes(Nat, 0, p, F, g)
  <2> HIDE DEF p, F
  <2> QED BY <1>2, <1>3, Recursion
<1> DEFINE w == [i \in 0 .. L |-> g[i]]
<1>5. w = Rec(w)
  <2>1. g \in [Nat -> Nat] /\ g[0] = 0
    BY <1>4 DEF Computes
  <2>2. ASSUME NEW i \in 0 .. L, i # 0 PROVE w[i] = w[i - 1] * Base + D(i) - 1
    <3>1. i \in 1 .. L /\ i - 1 \in 0 .. L /\ i \in Nat /\ p[i] = i - 1
      BY <1>0, <2>2
    <3>2. g[i] = F[i][g[i - 1]]
      BY <1>4, <2>2, <3>1 DEF Computes
    <3>3. g[i - 1] \in Nat
      BY <1>0, <2>1, <3>1
    <3> QED BY <3>1, <3>2, <3>3
  <2>3. 0 \in 0 .. L /\ w[0] = 0
    BY <1>0, <2>1
  <2> HIDE DEF w, F, p
  <2>4. \A i \in 0 .. L : w[i] = IF i = 0 THEN 0 ELSE w[i - 1] * Base + D(i) - 1
    BY <2>2, <2>3
  <2> QED BY <2>4 DEF w
<1> HIDE DEF w, F, p
<1>6. val = Rec(val)
  <2>1. \E f : f = Rec(f)
    BY <1>5
  <2> HIDE DEF Rec
  <2> QED BY <2>1
<1>7. Value(d) = val[L]
  BY Zenon DEF Value, D, L
<1> HIDE DEF val
<1>8. \A i \in 0 .. L : val[i] = IF i = 0 THEN 0 ELSE val[i - 1] * Base + D(i) - 1
  BY <1>6
<1> HIDE DEF Rec
<1> DEFINE T == {i \in 0 .. L : ~ (val[i] \in Nat)}
<1>9. T = {}
  <2> SUFFICES ASSUME T # {} PROVE FALSE
    OBVIOUS
  <2>0. T \in SUBSET Nat
    BY <1>0
  <2>1. PICK i \in T : \A j \in T : i <= j
    BY <2>0, LeastNumber
  <2>2. i \in 0 .. L /\ i # 0
    BY <1>8
  <2>3. i \in 1 .. L /\ i - 1 \in 0 .. L /\ ~ (i <= i - 1)
    BY <1>0, <2>2
  <2>4. val[i - 1] \in Nat
    BY <2>1, <2>3
  <2>5. val[i - 1] * Base \in Nat
    BY <1>0, <2>4
  <2>6. PICK e \in Nat : e = D(i) - 1 /\ D(i) = e + 1
    BY <1>0, <1>1, <2>3
  <2>7. val[i] = val[i - 1] * Base + e
    BY <1>8, <2>2, <2>5, <2>6
  <2>8. val[i] \in Nat
    BY <2>5, <2>7
  <2> QED BY <2>8
<1>10. val \in [0 .. L -> Nat]
  <2>1. val = [i \in 0 .. L |-> val[i]]
    BY <1>6 DEF Rec
  <2> QED BY <1>9, <2>1
<1>11. Counts(d, val)
  <2>1. val[0] = 0
    BY <1>0, <1>8
  <2>2. ASSUME NEW i \in 1 .. L
        PROVE  \E k \in 1 .. Base : val[i] = val[i - 1] * Base + k - 1
    <3>1. i \in 0 .. L /\ i # 0
      BY <1>0
    <3> QED BY <1>1, <1>8, <3>1
  <2> QED BY <1>10, <2>1, <2>2 DEF Counts, L
<1> QED
  BY <1>7, <1>11 DEF L

(* Division is what it is, and a multiple of b that is less than b above    *)
(* another one is not above it.                                             *)
LEMMA Quotients ==
  ASSUME NEW n \in Nat, NEW b \in Nat \ {0}, NEW m \in Nat, n < b * m + b
  PROVE  n \div b \in Nat /\ n \div b <= m
<1>1. n \div b \in Nat /\ n % b \in 0 .. b - 1 /\ n = b * (n \div b) + (n % b)
  OBVIOUS
<1>2. PICK q \in Nat : q = n \div b
  BY <1>1
<1>3. b * q <= n
  BY <1>1, <1>2
<1> SUFFICES ASSUME q >= m + 1 PROVE FALSE
  BY <1>2
<1>4. PICK c \in Nat : q = m + 1 + c
  <2>1. q - m - 1 \in Nat /\ q = m + 1 + (q - m - 1)
    OBVIOUS
  <2> QED BY <2>1
<1>5. b * q = b * m + b + b * c /\ b * c \in Nat /\ b * m \in Nat
  BY <1>4
<1> QED
  BY <1>3, <1>5

(* A number is not written with more digits than the text of a greater one. *)
LEMMA NoMoreDigits ==
  ASSUME NEW d \in Seq(Digit), NEW v, Counts(d, v), NEW j \in 1 .. Len(d),
         NEW n \in Nat, n <= v[j]
  PROVE  Len(fmt_uint[n]) <= j
<1> DEFINE T == {i \in 1 .. Len(d) : \E m \in Nat : m <= v[i] /\ ~ (Len(fmt_uint[m]) <= i)}
<1>0. Len(d) \in Nat /\ Base \in Nat /\ Base > 1
  BY LineAssumption DEF Base
<1> SUFFICES ASSUME T # {} PROVE FALSE
  BY <1>0
<1>1. T \in SUBSET Nat
  BY <1>0
<1>2. PICK i \in T : \A k \in T : i <= k
  BY <1>1, LeastNumber
<1>3. PICK m \in Nat : m <= v[i] /\ ~ (Len(fmt_uint[m]) <= i)
  OBVIOUS
<1>4. i \in 1 .. Len(d) /\ i \in Nat /\ i >= 1
  BY <1>0
<1>5. PICK k \in 1 .. Base : v[i] = v[i - 1] * Base + k - 1
  BY <1>4 DEF Counts
<1>6. i - 1 \in 0 .. Len(d) /\ v[i - 1] \in Nat
  <2>1. i - 1 \in 0 .. Len(d)
    BY <1>0, <1>4
  <2> HIDE DEF T
  <2> QED BY <2>1 DEF Counts
<1>7. CASE m < Base
  <2>1. fmt_uint[m] = <<Digits[m + 1]>>
    BY <1>7, NumberTexts
  <2>2. Len(fmt_uint[m]) = 1
    BY <2>1
  <2> QED BY <1>3, <1>4, <2>2
<1>8. CASE ~ (m < Base)
  <2>1. m < Base * v[i - 1] + Base
    BY <1>0, <1>3, <1>5, <1>6
  <2>2. m \div Base \in Nat /\ m \div Base <= v[i - 1]
    BY <1>0, <1>6, <2>1, Quotients
  <2>3. i # 1
    <3> SUFFICES ASSUME i = 1 PROVE FALSE
      OBVIOUS
    <3>1. v[i - 1] = 0
      BY DEF Counts
    <3> QED BY <1>0, <1>8, <2>1, <3>1
  <2>4. i - 1 \in 1 .. Len(d) /\ ~ (i <= i - 1)
    BY <1>0, <1>4, <2>3
  <2>5. i - 1 \notin T
    BY <1>2, <2>4
  <2>6. Len(fmt_uint[m \div Base]) <= i - 1
    BY <2>2, <2>4, <2>5
  <2>7. fmt_uint[m] = Append(fmt_uint[m \div Base], Digits[(m % Base) + 1])
    BY <1>8, NumberTexts
  <2>8. fmt_uint[m \div Base] \in Seq(Digit) /\ fmt_uint[m] \in Seq(Digit)
    BY <2>2, NumberTexts
  <2>9. Len(fmt_uint[m]) = Len(fmt_uint[m \div Base]) + 1
    BY <2>7, <2>8
  <2> QED BY <1>3, <1>4, <2>6, <2>8, <2>9
<1> QED
  BY <1>7, <1>8

(* The unsigned numbers that a range counts through are at most one digit   *)
(* longer than its upper end is written.                                    *)
LEMMA NumberFits ==
  ASSUME NEW d \in Seq(Digit), d # <<>>, NEW n \in Nat, n <= Value(d),
         NEW u \in Nat, u <= 2 * n + 1
  PROVE  fmt_uint[u] \in Seq(Digit) /\ Len(fmt_uint[u]) <= Len(d) + 1
<1>0. Len(d) \in Nat /\ Len(d) >= 1 /\ Base \in Nat /\ Base > 1
  BY LineAssumption DEF Base
<1>1. PICK v : Counts(d, v) /\ Value(d) = v[Len(d)]
  BY ValueCounts
<1>2. PICK x \in Nat : x = v[Len(d)]
  BY <1>0, <1>1 DEF Counts
<1>3. fmt_uint[u] \in Seq(Digit)
  BY NumberTexts
<1>4. CASE u < Base
  <2>1. fmt_uint[u] = <<Digits[u + 1]>>
    BY <1>4, NumberTexts
  <2>2. Len(fmt_uint[u]) = 1
    BY <2>1
  <2> QED BY <1>0, <1>3, <2>2
<1>5. CASE ~ (u < Base)
  <2>1. u < Base * x + Base
    <3>1. u < 2 * (x + 1)
      BY <1>1, <1>2
    <3>2. 2 * (x + 1) <= Base * (x + 1)
      BY <1>0
    <3>3. Base * (x + 1) = Base * x + Base /\ Base * x \in Nat
      BY <1>0
    <3> QED BY <1>0, <3>1, <3>2, <3>3
  <2>2. u \div Base \in Nat /\ u \div Base <= x
    BY <1>0, <2>1, Quotients
  <2>3. Len(fmt_uint[u \div Base]) <= Len(d)
    BY <1>0, <1>1, <1>2, <2>2, NoMoreDigits
  <2>4. fmt_uint[u] = Append(fmt_uint[u \div Base], Digits[(u % Base) + 1])
    BY <1>5, NumberTexts
  <2>5. fmt_uint[u \div Base] \in Seq(Digit)
    BY <2>2, NumberTexts
  <2>6. Len(fmt_uint[u]) = Len(fmt_uint[u \div Base]) + 1
    BY <1>3, <2>4, <2>5
  <2> QED BY <1>0, <1>3, <2>3, <2>5, <2>6
<1> QED
  BY <1>4, <1>5

-----------------------------------------------------------------------------
(* The low bits of a number, read as an `int', are no longer than it.       *)
LEMMA ToIntBounds ==
  ASSUME NEW v \in Int
  PROVE  /\ ToInt(v) \in Int /\ -(IntMax + 1) <= ToInt(v) /\ ToInt(v) <= IntMax
         /\ ToInt(v) >= 0 => ToInt(v) <= v \/ ToInt(v) <= -v
<1> DEFINE w == 2 * (IntMax + 1)
           x == v + IntMax + 1
<1>1. IntMax \in Nat /\ w \in Nat \ {0} /\ x \in Int
  BY ExpansionAssumption
<1>2. x \div w \in Int /\ x % w \in 0 .. w - 1 /\ x = w * (x \div w) + (x % w)
  <2> HIDE DEF w, x
  <2> QED BY <1>1
<1>3. PICK q \in Int, r \in 0 .. w - 1 : q = x \div w /\ r = x % w
  BY <1>2
<1>4. ToInt(v) = r - (IntMax + 1)
  BY <1>3 DEF ToInt
<1>5. v + IntMax + 1 = w * q + r
  BY <1>2, <1>3
<1> HIDE DEF x
<1>6. ASSUME q >= 0 PROVE w * q >= 0
  BY <1>1, <1>6
<1>7. ASSUME q < 0 PROVE w * q <= -w
  <2>1. PICK c \in Nat : q = -1 - c
    <3>1. -1 - q \in Nat /\ q = -1 - (-1 - q)
      BY <1>7
    <3> QED BY <3>1
  <2> HIDE DEF w
  <2>2. w * q = -w - w * c /\ w * c \in Nat
    BY <1>1, <2>1
  <2> QED BY <1>1, <2>2
<1>8. w * q \in Int
  BY <1>1
<1>9. PICK y \in Int : y = w * q
  BY <1>8
<1>10. (q >= 0 => y >= 0) /\ (q < 0 => y <= -w)
  BY <1>6, <1>7, <1>9
<1> QED
  BY <1>1, <1>4, <1>5, <1>9, <1>10

(* The successor of an `int'. *)
LEMMA ToIntNext ==
  ASSUME NEW v \in Int, -(IntMax + 1) <= v, v <= IntMax
  PROVE  ToInt(v + 1) = IF v = IntMax THEN -(IntMax + 1) ELSE v + 1
<1> DEFINE w == 2 * (IntMax + 1)
<1>1. IntMax \in Nat /\ w \in Nat \ {0}
  BY ExpansionAssumption
<1>2. CASE v = IntMax
  <2>1. (w * 1 + 0) % w = 0
    BY <1>1, RemainderIs
  <2>2. v + 1 + IntMax + 1 = w * 1 + 0
    BY <1>1, <1>2
  <2> QED BY <1>1, <1>2, <2>1, <2>2 DEF ToInt
<1>3. CASE v # IntMax
  <2>1. v + 1 + IntMax + 1 \in Nat /\ v + 1 + IntMax + 1 < w
    BY <1>1, <1>3
  <2>2. (w * 0 + (v + 1 + IntMax + 1)) % w = v + 1 + IntMax + 1
    BY <1>1, <2>1, RemainderIs
  <2>3. w * 0 + (v + 1 + IntMax + 1) = v + 1 + IntMax + 1
    BY <1>1, <2>1
  <2> QED BY <1>1, <1>3, <2>2, <2>3 DEF ToInt
<1> QED
  BY <1>2, <1>3

(* A long beyond its range is no longer than the text it was read from. *)
LEMMA ClampBounds ==
  ASSUME NEW v \in Int
  PROVE  /\ Clamp(v) \in Int
         /\ (0 <= Clamp(v) /\ Clamp(v) <= v) \/ (v <= Clamp(v) /\ Clamp(v) <= 0)
BY ExpansionAssumption DEF Clamp

(* What strtol makes of the characters from i up to where it stops. *)
Number(t, i, s) ==
  /\ s.end \in i .. End(t) /\ s.val \in Int
  /\ \/ s.val = 0
     \/ \E d \in Seq(Digit) : /\ d # <<>> /\ Len(d) <= s.end - i
                              /\ Value(d) \in Nat /\ s.val \in {Value(d), -Value(d)}

(* It consumes at least the digits that make up the number. *)
LEMMA StrtolIs ==
  ASSUME NEW t \in Text, NEW i \in 1 .. End(t)
  PROVE  Number(t, i, Strtol(t, i))
<1> DEFINE b == Skip(t, i, {" "})
           n == IF At(t, b) = "-" THEN b + 1 ELSE b
           e == Skip(t, n, Digit)
           d == SubSeq(t, n, e - 1)
<1>1. Len(t) \in Nat /\ End(t) = Len(t) + 1 /\ DOMAIN t = 1 .. Len(t)
      /\ i \in Nat /\ i <= End(t)
  BY DEF Text, End
<1>2. b \in i .. End(t)
  <2>1. First(t, i, Char \ {" "}, b)
    BY <1>1, FindIs DEF Skip
  <2> QED BY <2>1 DEF First
<1>3. n \in i .. End(t)
  <2>1. CASE At(t, b) = "-"
    <3>1. b \in DOMAIN t
      BY <2>1 DEF At, NUL
    <3> HIDE DEF b
    <3> QED BY <1>1, <1>2, <2>1, <3>1
  <2>2. CASE At(t, b) # "-"
    BY <1>2, <2>2
  <2> QED BY <2>1, <2>2
<1> HIDE DEF b, n
<1>4. First(t, n, Char \ Digit, e)
  <2>1. n \in Nat /\ n <= End(t)
    BY <1>1, <1>3
  <2> QED BY <1>1, <2>1, FindIs DEF Skip
<1>5. e \in n .. End(t) /\ \A j \in n .. e - 1 : t[j] \in Digit
  <2>1. e \in n .. End(t) /\ \A j \in n .. e - 1 : t[j] \notin Char \ Digit
    BY <1>4 DEF First
  <2> HIDE DEF e
  <2>2. ASSUME NEW j \in n .. e - 1 PROVE t[j] \in Digit
    <3>1. j \in 1 .. Len(t)
      BY <1>1, <1>3, <2>1
    <3>2. t[j] \in Char
      BY <3>1, ElementOfSeq DEF Text
    <3> QED BY <2>1, <3>2
  <2> QED BY <2>1, <2>2
<1>6. Strtol(t, i) = IF e = n THEN [val |-> 0, end |-> i]
                     ELSE [val |-> IF n = b THEN Value(d) ELSE -Value(d), end |-> e]
  BY DEF Strtol, b, n
<1> HIDE DEF e
<1>7. CASE e = n
  BY <1>1, <1>6, <1>7 DEF Number
<1>8. CASE e # n
  <2>1. n \in Int /\ e \in Int /\ e - 1 \in Int /\ n <= e - 1
    BY <1>1, <1>3, <1>5, <1>8
  <2>2. d \in Seq(Digit) /\ Len(d) = e - 1 - n + 1
    BY <1>5, <2>1, SubSeqProperties
  <2> HIDE DEF d
  <2>3. Len(d) = e - n /\ Len(d) >= 1
    BY <2>1, <2>2
  <2>4. d # <<>>
    BY <2>3
  <2>5. PICK v : Counts(d, v) /\ Value(d) = v[Len(d)]
    BY <2>2, ValueCounts
  <2>6. Value(d) \in Nat
    <3>1. Len(d) \in 0 .. Len(d)
      BY <2>2
    <3> QED BY <2>5, <3>1 DEF Counts
  <2>7. Len(d) <= e - i
    BY <1>1, <1>3, <1>5, <2>3
  <2>8. e \in i .. End(t)
    BY <1>1, <1>3, <1>5
  <2>9. Strtol(t, i).end = e /\ Strtol(t, i).val \in {Value(d), -Value(d)}
    BY <1>6, <1>8
  <2>10. Strtol(t, i).val \in Int
    BY <2>6, <2>9
  <2> QED BY <2>2, <2>4, <2>6, <2>7, <2>8, <2>9, <2>10 DEF Number
<1> QED
  BY <1>7, <1>8

-----------------------------------------------------------------------------
(* A frame keeps room for what its loop has still to write: the longest     *)
(* item of the list, every number of the range, also those that a counter   *)
(* beyond the greatest `int' passes to fmt_uint.                            *)
FrameRec == [prefix : Text, list : Text, next : Int, last : Int, post : Text, size : Nat]

Fits(f, n) == Len(f.prefix) + n + Len(f.post) + 1 <= f.size

RoomFor(f) ==
  /\ f.list # <<>> => Fits(f, Len(f.list))
  /\ f.next <= f.last =>
       /\ f.last \in 0 .. IntMax /\ f.next >= -(IntMax + 1)
       /\ f.next < 0 => f.last = IntMax
       /\ \A u \in 0 .. 2 * f.last + 1 : Fits(f, Len(fmt_uint[u]))

Stacked == stack \in Seq(FrameRec) /\ \A i \in 1 .. Len(stack) : RoomFor(stack[i])

Calling ==
  state = "call" /\ stack # <<>> =>
    Len(arg) + 1 <= Top.size /\ Len(Top.prefix) <= Len(arg)

Frames ==
  /\ arg \in Text /\ line \in Text
  /\ Stacked /\ Calling
  /\ state = "iterate" => stack # <<>>

(* The parts of a line around its braces. *)
LEMMA FrameParts ==
  ASSUME NEW t \in Text, ~ScanError(t), HasRange(t),
         NEW list \in Text, NEW next \in Int, NEW last \in Int
  PROVE  /\ Frame(t, list, next, last) \in FrameRec
         /\ Frame(t, list, next, last).list = list
         /\ Frame(t, list, next, last).next = next
         /\ Frame(t, list, next, last).last = last
         /\ Frame(t, list, next, last).size = Len(t)
         /\ Len(Frame(t, list, next, last).prefix) = Open(t) - 1
         /\ Len(Frame(t, list, next, last).post) = Len(t) - Close(t)
<1> DEFINE o == Open(t)
           c == Close(t)
<1>1. Len(t) \in Nat /\ \A i \in 1 .. Len(t) : t[i] \in Char
  BY DEF Text
<1>2. o \in 1 .. Len(t) /\ c \in 1 .. Len(t) /\ o < c
  BY BracesInOrder
<1> HIDE DEF o, c
<1>3. SubSeq(t, 1, o - 1) \in Text /\ Len(SubSeq(t, 1, o - 1)) = o - 1
  <2>1. 1 \in Int /\ o - 1 \in Int /\ \A i \in 1 .. o - 1 : t[i] \in Char
    BY <1>1, <1>2
  <2>2. /\ SubSeq(t, 1, o - 1) \in Seq(Char)
        /\ Len(SubSeq(t, 1, o - 1)) = IF 1 <= o - 1 THEN o - 1 - 1 + 1 ELSE 0
    BY <2>1, SubSeqProperties
  <2> QED BY <1>1, <1>2, <2>2 DEF Text
<1>4. SubSeq(t, c + 1, Len(t)) \in Text /\ Len(SubSeq(t, c + 1, Len(t))) = Len(t) - c
  <2>1. c + 1 \in Int /\ Len(t) \in Int /\ \A i \in c + 1 .. Len(t) : t[i] \in Char
    BY <1>1, <1>2
  <2>2. /\ SubSeq(t, c + 1, Len(t)) \in Seq(Char)
        /\ Len(SubSeq(t, c + 1, Len(t))) = IF c + 1 <= Len(t) THEN Len(t) - (c + 1) + 1 ELSE 0
    BY <2>1, SubSeqProperties
  <2> QED BY <1>1, <1>2, <2>2 DEF Text
<1> QED
  BY <1>1, <1>3, <1>4 DEF Frame, FrameRec, o, c

(* Without its braces a list and a ',' for the '}' fit. *)
LEMMA ListFits ==
  ASSUME NEW t \in Text, ~ScanError(t), HasRange(t)
  PROVE  LET list == Append(SubSeq(t, Open(t) + 1, Close(t) - 1), ",")
         IN  list \in Text /\ RoomFor(Frame(t, list, 1, 0))
<1> DEFINE o == Open(t)
           c == Close(t)
           inside == SubSeq(t, o + 1, c - 1)
           list == Append(inside, ",")
           f == Frame(t, list, 1, 0)
<1>1. Len(t) \in Nat /\ \A i \in 1 .. Len(t) : t[i] \in Char
  BY DEF Text
<1>2. o \in 1 .. Len(t) /\ c \in 1 .. Len(t) /\ o < c
  BY BracesInOrder
<1>3. inside \in Text /\ Len(inside) = c - o - 1
  <2> HIDE DEF o, c
  <2>1. o + 1 \in Int /\ c - 1 \in Int /\ \A i \in o + 1 .. c - 1 : t[i] \in Char
    BY <1>1, <1>2
  <2>2. /\ SubSeq(t, o + 1, c - 1) \in Seq(Char)
        /\ Len(SubSeq(t, o + 1, c - 1)) = IF o + 1 <= c - 1 THEN c - 1 - (o + 1) + 1 ELSE 0
    BY <2>1, SubSeqProperties
  <2> QED BY <1>1, <1>2, <2>2 DEF Text
<1>4. list \in Text /\ Len(list) = Len(inside) + 1
  <2>1. "," \in Char
    BY DEF Char, Sign
  <2> HIDE DEF inside
  <2> QED BY <1>3, <2>1, AppendProperties DEF Text
<1> HIDE DEF list, inside
<1>5. /\ f.list = list /\ f.next = 1 /\ f.last = 0 /\ f.size = Len(t)
      /\ Len(f.prefix) = o - 1 /\ Len(f.post) = Len(t) - c
  BY <1>4, FrameParts
<1> HIDE DEF f, o, c
<1>6. RoomFor(f)
  BY <1>1, <1>2, <1>3, <1>4, <1>5 DEF RoomFor, Fits
<1> QED
  BY <1>4, <1>6 DEF list, inside, f, o, c

(* So does every number between the two that a range was given, because the *)
(* upper one is written out in it, and a '-'.                               *)
LEMMA RangeFits ==
  ASSUME NEW t \in Text, ~ScanError(t), HasRange(t),
         NEW r \in Ranges(t, Open(t) + 1, Close(t)), ~Refused(r)
  PROVE  /\ r.next \in Int /\ r.last \in Int
         /\ RoomFor(Frame(t, <<>>, r.next, r.last))
<1> DEFINE o == Open(t)
           c == Close(t)
           from == Strtol(t, o + 1)
           to == Strtol(t, from.end + 1)
           f == Frame(t, <<>>, r.next, r.last)
<1>1. Len(t) \in Nat /\ End(t) = Len(t) + 1 /\ DOMAIN t = 1 .. Len(t)
  BY DEF Text, End
<1>2. o \in 1 .. Len(t) /\ c \in 1 .. Len(t) /\ o < c
  BY BracesInOrder
<1>4. /\ r.ok /\ ~ (r.next < 0) /\ ~ (r.last < 0) /\ ~ (r.next > r.last)
  BY DEF Refused
<1>3. /\ r.next = ToInt(Clamp(from.val)) /\ r.last = ToInt(Clamp(to.val))
      /\ At(t, from.end) = "-" /\ At(t, to.end) = "}" /\ to.end <= c
  <2>1. Numbers(t, o + 1) = {[from |-> from, to |-> to]}
    BY DEF Numbers
  <2> HIDE DEF from, to
  <2>2. PICK n \in Numbers(t, o + 1) :
          r = [next |-> ToInt(Clamp(n.from.val)), last |-> ToInt(Clamp(n.to.val)),
               ok |-> At(t, n.from.end) = "-" /\ At(t, n.to.end) = "}" /\ n.to.end <= c]
    BY Zenon DEF Ranges, o, c
  <2>3. n.from = from /\ n.to = to
    BY <2>1
  <2>4. r = [next |-> ToInt(Clamp(from.val)), last |-> ToInt(Clamp(to.val)),
             ok |-> At(t, from.end) = "-" /\ At(t, to.end) = "}" /\ to.end <= c]
    BY <2>2, <2>3
  <2> QED BY <1>4, <2>4
<1> HIDE DEF o, c, from, to
<1>5. Number(t, o + 1, from)
  <2>1. o + 1 \in 1 .. End(t)
    BY <1>1, <1>2
  <2> QED BY <2>1, StrtolIs DEF from
<1>6. from.end \in o + 1 .. Len(t)
  <2>1. from.end \in o + 1 .. End(t)
    BY <1>5 DEF Number
  <2>2. from.end \in DOMAIN t
    BY <1>3, <1>4 DEF At, NUL
  <2> QED BY <1>1, <1>2, <2>1, <2>2
<1>7. Number(t, from.end + 1, to)
  <2>1. from.end + 1 \in 1 .. End(t)
    BY <1>1, <1>2, <1>6
  <2> QED BY <2>1, StrtolIs DEF to
<1>8. from.val \in Int /\ to.val \in Int /\ to.end \in from.end + 1 .. End(t)
  BY <1>5, <1>7 DEF Number
<1>9. r.next \in Int /\ r.last \in Int /\ r.last <= IntMax /\ r.next <= IntMax
  BY <1>3, <1>8, ClampBounds, ToIntBounds
<1>10. r.last \in Nat /\ r.next \in Nat /\ r.next <= r.last
  BY <1>4, <1>9
<1>11. r.last <= to.val \/ r.last <= -to.val
  <2>1. PICK v \in Int : v = Clamp(to.val)
    BY <1>8, ClampBounds
  <2>2. r.last <= v \/ r.last <= -v
    <3>1. r.last = ToInt(v) /\ ToInt(v) >= 0
      <4>1. r.last = ToInt(v)
        BY <1>3, <2>1, Zenon
      <4> QED BY <1>10, <4>1
    <3> QED BY <3>1, ToIntBounds
  <2>3. (0 <= v /\ v <= to.val) \/ (to.val <= v /\ v <= 0)
    BY <1>8, <2>1, ClampBounds
  <2> QED BY <1>8, <1>10, <2>2, <2>3
<1>12. ASSUME NEW u \in 0 .. 2 * r.last + 1
       PROVE  fmt_uint[u] \in Seq(Digit) /\ Len(fmt_uint[u]) <= c - o
  <2>0. u \in Nat /\ u <= 2 * r.last + 1
    BY <1>10
  <2>1. CASE to.val = 0
    <3>1. r.last = 0
      BY <1>10, <1>11, <2>1
    <3>2. u < Base
      BY <2>0, <3>1, LineAssumption DEF Base
    <3>3. fmt_uint[u] = <<Digits[u + 1]>> /\ fmt_uint[u] \in Seq(Digit)
      BY <2>0, <3>2, NumberTexts
    <3>4. Len(fmt_uint[u]) = 1
      BY <3>3
    <3> QED BY <1>2, <3>3, <3>4
  <2>2. CASE to.val # 0
    <3>1. PICK d \in Seq(Digit) :
            /\ d # <<>> /\ Len(d) <= to.end - (from.end + 1)
            /\ Value(d) \in Nat /\ to.val \in {Value(d), -Value(d)}
      BY <1>7, <2>2 DEF Number
    <3>2. r.last <= Value(d)
      BY <1>10, <1>11, <3>1
    <3>3. fmt_uint[u] \in Seq(Digit) /\ Len(fmt_uint[u]) <= Len(d) + 1
      BY <1>10, <2>0, <3>1, <3>2, NumberFits
    <3>4. Len(d) \in Nat /\ Len(d) + 1 <= c - o
      <4>1. PICK x \in Int, y \in Int : x = from.end /\ y = to.end
        BY <1>6, <1>8
      <4>2. x >= o + 1 /\ y <= c
        <5>1. y <= c
          BY <1>3, <4>1, Zenon
        <5> QED BY <1>2, <1>6, <4>1, <5>1
      <4>3. Len(d) \in Nat /\ Len(d) <= y - (x + 1)
        BY <3>1, <4>1
      <4> QED BY <1>2, <4>2, <4>3
    <3>5. Len(fmt_uint[u]) \in Nat
      BY <3>3
    <3> QED BY <1>2, <3>3, <3>4, <3>5
  <2> QED BY <2>1, <2>2
<1>13. /\ f.list = <<>> /\ f.next = r.next /\ f.last = r.last /\ f.size = Len(t)
       /\ Len(f.prefix) = o - 1 /\ Len(f.post) = Len(t) - c
  <2>1. <<>> \in Text
    BY DEF Text
  <2> QED BY <1>9, <2>1, FrameParts DEF o, c
<1> HIDE DEF f
<1>14. \A u \in 0 .. 2 * f.last + 1 : Fits(f, Len(fmt_uint[u]))
  <2> SUFFICES ASSUME NEW u \in 0 .. 2 * r.last + 1 PROVE Fits(f, Len(fmt_uint[u]))
    BY <1>13
  <2>1. Len(fmt_uint[u]) \in Nat /\ Len(fmt_uint[u]) <= c - o
    BY <1>12
  <2>2. PICK k \in Nat : k = Len(fmt_uint[u])
    BY <2>1
  <2>3. o \in Int /\ c \in Int /\ k <= c - o
    BY <1>2, <2>1, <2>2
  <2>4. (o - 1) + k + (Len(t) - c) + 1 <= Len(t)
    BY <1>1, <2>3
  <2>5. Fits(f, k)
    BY <1>13, <2>4 DEF Fits
  <2> QED BY <2>2, <2>5
<1>15. RoomFor(f)
  <2>1. f.last \in 0 .. IntMax /\ f.next >= -(IntMax + 1) /\ ~ (f.next < 0)
    BY <1>9, <1>10, <1>13, ExpansionAssumption
  <2> QED BY <1>13, <1>14, <2>1 DEF RoomFor
<1> QED
  BY <1>9, <1>15 DEF f

(* The line handed over is a text. *)
LEMMA TakenIsText == Inv /\ TakeLine => TakenText \in Text
<1> SUFFICES ASSUME Inv, TakeLine PROVE TakenText \in Text
  OBVIOUS
<1>1. file \in Seq(Char) /\ Len(file) \in Nat /\ line_start \in Nat /\ off \in Nat
      /\ off <= Len(file)
  BY DEF Inv, Pointers
<1>2. line_start' \in line_start + 1 .. off
  BY DEF TakeLine, Newlines
<1>3. PICK m \in Int, n \in Int :
        m = line_start + 1 /\ n = line_start' - 1 /\ m >= 1 /\ n <= Len(file)
  <2>1. line_start' \in Int /\ line_start + 1 \in Int /\ line_start + 1 >= 1
        /\ line_start' - 1 <= Len(file) /\ line_start' - 1 \in Int
    BY <1>1, <1>2
  <2> QED BY <2>1
<1>4. \A i \in m .. n : file[i] \in Char
  <2> SUFFICES ASSUME NEW i \in m .. n PROVE file[i] \in Char
    OBVIOUS
  <2>1. i \in 1 .. Len(file)
    BY <1>1, <1>3
  <2> QED BY <1>1, <2>1, ElementOfSeq
<1>5. SubSeq(file, m, n) \in Seq(Char)
  BY <1>4, SubSeqProperties
<1> QED
  BY <1>3, <1>5 DEF TakenText, Text

(* Replacing the innermost frame by one with room keeps the stack. *)
LEMMA TopChanged ==
  ASSUME Stacked, stack # <<>>, NEW f \in FrameRec, RoomFor(f),
         stack' = [stack EXCEPT ![Len(stack)] = f]
  PROVE  Stacked' /\ stack' # <<>> /\ Len(stack') = Len(stack) /\ Top' = f
<1>1. stack \in Seq(FrameRec) /\ Len(stack) \in Nat /\ Len(stack) \in 1 .. Len(stack)
  BY DEF Stacked
<1>2. /\ stack' \in Seq(FrameRec) /\ Len(stack') = Len(stack)
      /\ \A j \in 1 .. Len(stack) : stack'[j] = IF j = Len(stack) THEN f ELSE stack[j]
  BY <1>1, ExceptSeq
<1>3. \A j \in 1 .. Len(stack') : RoomFor(stack'[j])
  BY <1>2 DEF Stacked
<1>4. Stacked'
  BY <1>2, <1>3 DEF Stacked
<1>5. stack' # <<>>
  BY <1>1, <1>2
<1>6. Top' = f
  BY <1>1, <1>2 DEF Top
<1> QED
  BY <1>2, <1>4, <1>5, <1>6

(* The innermost frame is one. *)
LEMMA TopIs ==
  ASSUME Stacked, stack # <<>>
  PROVE  Top \in FrameRec /\ RoomFor(Top)
<1>1. stack \in Seq(FrameRec) /\ Len(stack) \in Nat /\ Len(stack) \in 1 .. Len(stack)
  BY DEF Stacked
<1> QED
  BY <1>1 DEF Stacked, Top

(* A call that is made has room for its argument. *)
LEMMA CallFits ==
  ASSUME Frames, NEW item \in Text, state = "iterate", Fits(Top, Len(item)),
         NEW f \in FrameRec, RoomFor(f),
         f.prefix = Top.prefix, f.size = Top.size,
         stack' = [stack EXCEPT ![Len(stack)] = f],
         arg' = Top.prefix \o item \o Top.post, state' = "call", line' = line
  PROVE  Frames'
<1>1. Stacked /\ stack # <<>>
  BY DEF Frames
<1>2. Top \in FrameRec /\ Top.prefix \in Text /\ Top.post \in Text /\ Top.size \in Nat
  BY <1>1, TopIs DEF FrameRec
<1>3. Stacked' /\ stack' # <<>> /\ Top' = f
  BY <1>1, TopChanged
<1>4. /\ Top.prefix \o item \in Text
      /\ Len(Top.prefix \o item) = Len(Top.prefix) + Len(item)
  BY <1>2, ConcatProperties DEF Text
<1>5. arg' \in Text /\ Len(arg') = Len(Top.prefix) + Len(item) + Len(Top.post)
  BY <1>2, <1>4, ConcatProperties DEF Text
<1>6. Len(Top.prefix) \in Nat /\ Len(item) \in Nat /\ Len(Top.post) \in Nat
  BY <1>2 DEF Text
<1>7. Len(arg') + 1 <= f.size /\ Len(f.prefix) <= Len(arg')
  <2>1. PICK a \in Nat, b \in Nat, c \in Nat :
          a = Len(Top.prefix) /\ b = Len(item) /\ c = Len(Top.post)
    BY <1>6
  <2>2. Len(arg') = a + b + c /\ a + b + c + 1 <= f.size /\ Len(f.prefix) = a
    BY <1>5, <2>1 DEF Fits
  <2>3. a <= a + b + c
    OBVIOUS
  <2> QED BY <2>2, <2>3
<1>8. Calling'
  BY <1>3, <1>7 DEF Calling
<1> QED
  BY <1>3, <1>5, <1>8 DEF Frames

(* A new frame, on top of the others. *)
LEMMA PushFrames ==
  ASSUME Frames, NEW f \in FrameRec, RoomFor(f), Push(f)
  PROVE  Frames'
<1>1. stack \in Seq(FrameRec) /\ Len(stack) \in Nat
  BY DEF Frames, Stacked
<1>2. /\ stack' \in Seq(FrameRec) /\ stack' # <<>> /\ Len(stack') = Len(stack) + 1
      /\ \A i \in 1 .. Len(stack) : stack'[i] = stack[i]
      /\ stack'[Len(stack) + 1] = f
  BY <1>1, AppendProperties DEF Push
<1>3. \A i \in 1 .. Len(stack') : RoomFor(stack'[i])
  <2> SUFFICES ASSUME NEW i \in 1 .. Len(stack') PROVE RoomFor(stack'[i])
    OBVIOUS
  <2>1. i \in 1 .. Len(stack) \/ i = Len(stack) + 1
    BY <1>1, <1>2
  <2> QED BY <1>2, <2>1 DEF Frames, Stacked
<1>4. Stacked'
  BY <1>2, <1>3 DEF Stacked
<1> QED
  BY <1>2, <1>4 DEF Frames, Push, Calling

(* A list or a range that is begun. *)
LEMMA ExpandListFrames == Frames /\ ExpandList => Frames'
<1> SUFFICES ASSUME Frames, ExpandList PROVE Frames'
  OBVIOUS
<1>1. arg \in Text /\ ~ScanError(arg) /\ HasRange(arg)
  BY DEF Frames, ExpandList
<1> DEFINE list == Append(SubSeq(arg, Open(arg) + 1, Close(arg) - 1), ",")
<1>2. Push(Frame(arg, list, 1, 0))
  BY DEF ExpandList
<1>3. list \in Text /\ RoomFor(Frame(arg, list, 1, 0))
  BY <1>1, ListFits
<1> HIDE DEF list
<1>4. Frame(arg, list, 1, 0) \in FrameRec
  BY <1>1, <1>3, FrameParts
<1> QED
  BY <1>2, <1>3, <1>4, PushFrames

(* A result of false leaves no frames. *)
LEMMA ErrorFrames == Frames /\ Error => Frames'
BY DEF Frames, Error, Stacked, Calling

(* The same for a range. *)
LEMMA ExpandRangeFrames == Frames /\ ExpandRange => Frames'
<1> SUFFICES ASSUME Frames, ExpandRange PROVE Frames'
  OBVIOUS
<1>1. arg \in Text /\ ~ScanError(arg) /\ HasRange(arg)
  BY DEF Frames, ExpandRange
<1>2. PICK r \in Ranges(arg, Open(arg) + 1, Close(arg)) :
        \/ Refused(r) /\ Error
        \/ ~Refused(r) /\ Push(Frame(arg, <<>>, r.next, r.last))
  BY DEF ExpandRange
<1>3. CASE Error
  BY <1>3, ErrorFrames
<1>4. CASE ~Refused(r) /\ Push(Frame(arg, <<>>, r.next, r.last))
  <2>1. /\ r.next \in Int /\ r.last \in Int
        /\ RoomFor(Frame(arg, <<>>, r.next, r.last))
    BY <1>1, <1>4, RangeFits
  <2>2. <<>> \in Text
    BY DEF Text
  <2>3. Frame(arg, <<>>, r.next, r.last) \in FrameRec
    BY <1>1, <2>1, <2>2, FrameParts
  <2> QED BY <1>4, <2>1, <2>3, PushFrames
<1> QED
  BY <1>2, <1>3, <1>4

(* What parseLine writes into the buffer changes no length. *)
LEMMA OverwrittenText ==
  ASSUME NEW t \in Text, NEW r, NEW n \in 0 .. Len(t)
  PROVE  /\ Overwritten(t, r) \in Text
         /\ SubSeq(Overwritten(t, r), 1, n) \in Text
         /\ Len(SubSeq(Overwritten(t, r), 1, n)) = n
         /\ \A i \in 1 .. n : SubSeq(Overwritten(t, r), 1, n)[i]
                              = IF i \in r.cut THEN NUL ELSE t[i]
<1> DEFINE u == Overwritten(t, r)
<1>1. Len(t) \in Nat /\ DOMAIN t = 1 .. Len(t) /\ \A i \in 1 .. Len(t) : t[i] \in Char
  BY DEF Text
<1>2. NUL \in Char
  BY DEF Char, Sign
<1>3. u = [i \in 1 .. Len(t) |-> IF i \in r.cut THEN NUL ELSE t[i]]
  BY <1>1 DEF Overwritten
<1>4. u \in [1 .. Len(t) -> Char]
  BY <1>1, <1>2, <1>3
<1>5. u \in Text
  BY <1>1, <1>4 DEF Text
<1>6. \A i \in 1 .. n : u[i] \in Char /\ u[i] = IF i \in r.cut THEN NUL ELSE t[i]
  BY <1>1, <1>3, <1>4
<1> HIDE DEF u
<1>7. 1 \in Int /\ n \in Int /\ n \in Nat
  BY <1>1
<1>8. /\ SubSeq(u, 1, n) \in Seq(Char)
      /\ Len(SubSeq(u, 1, n)) = IF 1 <= n THEN n - 1 + 1 ELSE 0
      /\ \A i \in 1 .. n - 1 + 1 : SubSeq(u, 1, n)[i] = u[1 + i - 1]
  BY <1>6, <1>7, SubSeqProperties
<1>9. Len(SubSeq(u, 1, n)) = n
  BY <1>7, <1>8
<1>10. \A i \in 1 .. n : SubSeq(u, 1, n)[i] = u[i]
  <2> SUFFICES ASSUME NEW i \in 1 .. n PROVE SubSeq(u, 1, n)[i] = u[i]
    OBVIOUS
  <2>1. i \in 1 .. n - 1 + 1 /\ 1 + i - 1 = i
    BY <1>7
  <2> QED BY <1>8, <2>1
<1> QED
  BY <1>5, <1>6, <1>8, <1>9, <1>10 DEF Text, u

(* A line that is parsed, in the buffer of its frame. *)
LEMMA LeafFrames == Frames /\ Leaf => Frames'
<1> SUFFICES ASSUME Frames, Leaf PROVE Frames'
  OBVIOUS
<1>1. PICK r \in BlackList_parseLine(arg) :
        stack' = IF stack = <<>> THEN stack
                 ELSE [stack EXCEPT ![Len(stack)].prefix =
                         SubSeq(Overwritten(arg, r), 1, Len(@))]
  BY DEF Leaf
<1>2. /\ state = "call" /\ UNCHANGED <<line, arg>>
      /\ state' = IF stack = <<>> THEN "done" ELSE "iterate"
  BY DEF Leaf
<1>3. CASE stack = <<>>
  BY <1>1, <1>2, <1>3 DEF Frames, Stacked, Calling
<1>4. CASE stack # <<>>
  <2>1. Stacked /\ arg \in Text /\ line \in Text /\ Len(Top.prefix) <= Len(arg)
    BY <1>2, <1>4 DEF Frames, Calling
  <2>2. Top \in FrameRec /\ RoomFor(Top)
    BY <1>4, <2>1, TopIs
  <2>3. PICK n \in 0 .. Len(arg) : n = Len(Top.prefix)
    BY <2>1, <2>2 DEF FrameRec, Text
  <2>4. PICK x \in Text : x = SubSeq(Overwritten(arg, r), 1, n) /\ Len(x) = n
    <3>1. /\ SubSeq(Overwritten(arg, r), 1, n) \in Text
          /\ Len(SubSeq(Overwritten(arg, r), 1, n)) = n
      BY <2>1, OverwrittenText
    <3> QED BY <3>1
  <2>5. PICK f : f = [Top EXCEPT !.prefix = x]
    OBVIOUS
  <2>6. stack' = [stack EXCEPT ![Len(stack)] = f]
    BY <1>1, <1>4, <2>3, <2>4, <2>5 DEF Top
  <2>7. f \in FrameRec
    BY <2>2, <2>4, <2>5 DEF FrameRec
  <2>8. /\ f.list = Top.list /\ f.next = Top.next /\ f.last = Top.last
        /\ f.post = Top.post /\ f.size = Top.size /\ Len(f.prefix) = Len(Top.prefix)
    BY <2>2, <2>3, <2>4, <2>5 DEF FrameRec
  <2>9. RoomFor(f)
    BY <2>2, <2>8 DEF RoomFor, Fits
  <2>10. Stacked' /\ stack' # <<>>
    BY <1>4, <2>1, <2>6, <2>7, <2>9, TopChanged
  <2> QED BY <1>2, <1>4, <2>1, <2>10 DEF Frames, Calling
<1> QED
  BY <1>3, <1>4

(* The next item of a list. *)
LEMMA NextItemFrames == Frames /\ NextItem => Frames'
<1> SUFFICES ASSUME Frames, NextItem PROVE Frames'
  OBVIOUS
<1>1. Stacked /\ stack # <<>> /\ state = "iterate" /\ Top.list # <<>>
  BY DEF Frames, NextItem
<1>2. Top \in FrameRec /\ RoomFor(Top)
  BY <1>1, TopIs
<1>3. PICK l \in Text : l = Top.list
  BY <1>2 DEF FrameRec
<1>4. PICK p : p = Find(l, 1, {","})
  OBVIOUS
<1>5. /\ arg' = Top.prefix \o SubSeq(l, 1, p - 1) \o Top.post
      /\ stack' = [stack EXCEPT ![Len(stack)].list = SubSeq(@, p + 1, Len(@))]
      /\ state' = "call" /\ line' = line
  BY <1>3, <1>4 DEF NextItem
<1>6. Len(l) \in Nat /\ \A i \in 1 .. Len(l) : l[i] \in Char
  BY DEF Text
<1>7. p \in 1 .. Len(l) + 1
  <2>1. 1 \in Nat /\ 1 <= End(l) /\ End(l) = Len(l) + 1
    BY <1>6 DEF End
  <2>2. First(l, 1, {","}, p)
    BY <1>4, <1>6, <2>1, FindIs
  <2> QED BY <2>1, <2>2 DEF First
<1>8. PICK item \in Text : item = SubSeq(l, 1, p - 1) /\ Len(item) <= Len(l)
  <2>1. 1 \in Int /\ p - 1 \in Int /\ \A i \in 1 .. p - 1 : l[i] \in Char
    BY <1>6, <1>7
  <2>2. /\ SubSeq(l, 1, p - 1) \in Seq(Char)
        /\ Len(SubSeq(l, 1, p - 1)) = IF 1 <= p - 1 THEN p - 1 - 1 + 1 ELSE 0
    BY <2>1, SubSeqProperties
  <2>3. Len(SubSeq(l, 1, p - 1)) <= Len(l)
    BY <1>6, <1>7, <2>2
  <2> QED BY <2>2, <2>3 DEF Text
<1>9. PICK rest \in Text : rest = SubSeq(l, p + 1, Len(l)) /\ Len(rest) <= Len(l)
  <2>1. p + 1 \in Int /\ Len(l) \in Int /\ \A i \in p + 1 .. Len(l) : l[i] \in Char
    BY <1>6, <1>7
  <2>2. /\ SubSeq(l, p + 1, Len(l)) \in Seq(Char)
        /\ Len(SubSeq(l, p + 1, Len(l))) = IF p + 1 <= Len(l) THEN Len(l) - (p + 1) + 1 ELSE 0
    BY <2>1, SubSeqProperties
  <2>3. Len(SubSeq(l, p + 1, Len(l))) <= Len(l)
    BY <1>6, <1>7, <2>2
  <2> QED BY <2>2, <2>3 DEF Text
<1>10. PICK f : f = [Top EXCEPT !.list = rest]
  OBVIOUS
<1>11. stack' = [stack EXCEPT ![Len(stack)] = f]
  BY <1>3, <1>5, <1>9, <1>10 DEF Top
<1>12. f \in FrameRec
  BY <1>2, <1>10 DEF FrameRec
<1>13. /\ f.list = rest /\ f.next = Top.next /\ f.last = Top.last
       /\ f.post = Top.post /\ f.size = Top.size /\ f.prefix = Top.prefix
  BY <1>2, <1>10 DEF FrameRec
<1>14. /\ Len(Top.prefix) \in Nat /\ Len(Top.post) \in Nat /\ Top.size \in Nat
       /\ Len(item) \in Nat /\ Len(rest) \in Nat
  BY <1>2 DEF FrameRec, Text
<1>15. Fits(Top, Len(item)) /\ Fits(Top, Len(rest))
  <2>1. PICK a \in Nat, b \in Nat, c \in Nat, d \in Nat, e \in Nat :
          /\ a = Len(Top.prefix) /\ b = Len(l) /\ c = Len(Top.post)
          /\ d = Len(item) /\ e = Len(rest)
    BY <1>6, <1>14
  <2>2. a + b + c + 1 <= Top.size
    BY <1>1, <1>2, <1>3, <2>1 DEF RoomFor, Fits
  <2>3. d <= b /\ e <= b
    BY <1>8, <1>9, <2>1
  <2>4. a + d + c + 1 <= Top.size /\ a + e + c + 1 <= Top.size
    BY <1>14, <2>2, <2>3
  <2> QED BY <2>1, <2>4 DEF Fits
<1>16. RoomFor(f)
  BY <1>2, <1>13, <1>15 DEF RoomFor, Fits
<1> QED
  BY <1>1, <1>5, <1>8, <1>11, <1>12, <1>13, <1>15, <1>16, CallFits

(* The unsigned number that fmt_uint is given is one the frame has room for. *)
LEMMA CounterFits ==
  ASSUME NEW f \in FrameRec, RoomFor(f), f.next <= f.last
  PROVE  Fmt(f.next) \in Seq(Digit) /\ Fits(f, Len(Fmt(f.next)))
<1> DEFINE u == IF f.next >= 0 THEN f.next ELSE f.next + 2 * (IntMax + 1)
<1>1. f.next \in Int /\ f.last \in Int /\ IntMax \in Nat
  BY ExpansionAssumption DEF FrameRec
<1>2. /\ f.last \in 0 .. IntMax /\ f.next >= -(IntMax + 1)
      /\ f.next < 0 => f.last = IntMax
      /\ \A x \in 0 .. 2 * f.last + 1 : Fits(f, Len(fmt_uint[x]))
  BY DEF RoomFor
<1>3. u \in 0 .. 2 * f.last + 1 /\ u \in Nat
  BY <1>1, <1>2
<1> HIDE DEF u
<1>4. fmt_uint[u] \in Seq(Digit) /\ Fits(f, Len(fmt_uint[u]))
  BY <1>2, <1>3, NumberTexts
<1> QED
  BY <1>4 DEF Fmt, u

(* The next number of a range. *)
LEMMA NextNumberFrames == Frames /\ NextNumber => Frames'
<1> SUFFICES ASSUME Frames, NextNumber PROVE Frames'
  OBVIOUS
<1>1. Stacked /\ stack # <<>> /\ state = "iterate" /\ Top.next <= Top.last
  BY DEF Frames, NextNumber
<1>2. Top \in FrameRec /\ RoomFor(Top)
  BY <1>1, TopIs
<1>3. PICK n \in Int : n = Top.next
  BY <1>2 DEF FrameRec
<1>4. PICK m : /\ m = ToInt(n + 1) \/ (n = IntMax /\ m = n + 1)
               /\ stack' = [stack EXCEPT ![Len(stack)].next = m]
  BY <1>3 DEF NextNumber, Top
<1>5. Fmt(n) \in Text /\ Fits(Top, Len(Fmt(n)))
  <2>1. Fmt(n) \in Seq(Digit) /\ Fits(Top, Len(Fmt(n)))
    BY <1>1, <1>2, <1>3, CounterFits
  <2> QED BY <2>1, SeqMonotonic DEF Text, Char
<1>6. /\ arg' = Top.prefix \o Fmt(n) \o Top.post /\ state' = "call" /\ line' = line
  BY <1>3 DEF NextNumber
<1>7. IntMax \in Nat /\ -(IntMax + 1) <= n /\ n <= IntMax /\ n <= Top.last
      /\ Top.last \in 0 .. IntMax /\ (n < 0 => Top.last = IntMax)
  BY <1>1, <1>2, <1>3, ExpansionAssumption DEF RoomFor
<1>8. m \in Int /\ m >= -(IntMax + 1) /\ (m < 0 => Top.last = IntMax)
  <2>1. ToInt(n + 1) = IF n = IntMax THEN -(IntMax + 1) ELSE n + 1
    BY <1>7, ToIntNext
  <2> QED BY <1>4, <1>7, <2>1
<1>9. PICK f : f = [Top EXCEPT !.next = m]
  OBVIOUS
<1>10. stack' = [stack EXCEPT ![Len(stack)] = f]
  BY <1>4, <1>9 DEF Top
<1>11. f \in FrameRec
  BY <1>2, <1>8, <1>9 DEF FrameRec
<1>12. /\ f.list = Top.list /\ f.next = m /\ f.last = Top.last
       /\ f.post = Top.post /\ f.size = Top.size /\ f.prefix = Top.prefix
  BY <1>2, <1>9 DEF FrameRec
<1>13. RoomFor(f)
  BY <1>1, <1>2, <1>7, <1>8, <1>12 DEF RoomFor, Fits
<1> QED
  BY <1>1, <1>5, <1>6, <1>10, <1>11, <1>12, <1>13, CallFits

(* The end of a loop. *)
LEMMA ReturnFrames == Frames /\ Return => Frames'
<1> SUFFICES ASSUME Frames, Return PROVE Frames'
  OBVIOUS
<1>0. stack # <<>> /\ stack \in Seq(FrameRec)
  BY DEF Frames, Return, Stacked
<1>1. /\ stack \in Seq(FrameRec) /\ Len(stack) \in Nat /\ Len(stack) >= 1
      /\ UNCHANGED <<line, arg>> /\ stack' = SubSeq(stack, 1, Len(stack) - 1)
      /\ state' = IF Len(stack) = 1 THEN "done" ELSE "iterate"
  <2>1. Len(stack) \in Nat /\ Len(stack) >= 1
    BY <1>0
  <2> QED BY <1>0, <2>1 DEF Return, Below
<1>2. \A i \in 1 .. Len(stack) - 1 : stack[i] \in FrameRec
  BY <1>1
<1>3. 1 \in Int /\ Len(stack) - 1 \in Int
  BY <1>1
<1>4. /\ stack' \in Seq(FrameRec)
      /\ Len(stack') = IF 1 <= Len(stack) - 1 THEN Len(stack) - 1 - 1 + 1 ELSE 0
      /\ \A i \in 1 .. Len(stack) - 1 - 1 + 1 : stack'[i] = stack[1 + i - 1]
  BY <1>1, <1>2, <1>3, SubSeqProperties
<1>5. Len(stack') = Len(stack) - 1
  <2>1. PICK n \in Nat : n = Len(stack) /\ n >= 1
    BY <1>1
  <2>2. Len(stack') = IF 1 <= n - 1 THEN n - 1 - 1 + 1 ELSE 0
    BY <1>4, <2>1
  <2> QED BY <2>1, <2>2
<1>6. \A i \in 1 .. Len(stack') : RoomFor(stack'[i])
  <2> SUFFICES ASSUME NEW i \in 1 .. Len(stack') PROVE RoomFor(stack'[i])
    OBVIOUS
  <2>1. i \in 1 .. Len(stack) - 1 - 1 + 1 /\ 1 + i - 1 = i /\ i \in 1 .. Len(stack)
    BY <1>1, <1>5
  <2> QED BY <1>4, <2>1 DEF Frames, Stacked
<1>7. Stacked'
  BY <1>4, <1>6 DEF Stacked
<1>8. state' = "iterate" => stack' # <<>>
  <2> SUFFICES ASSUME state' = "iterate" PROVE stack' # <<>>
    OBVIOUS
  <2>1. Len(stack) # 1
    BY <1>1
  <2>2. Len(stack') # 0
    BY <1>1, <1>5, <2>1
  <2> QED BY <2>2, EmptySeq
<1>9. state' # "call"
  BY <1>1
<1> QED
  BY <1>1, <1>7, <1>8, <1>9 DEF Frames, Calling

(* Every step keeps the frames as they should be. *)
LEMMA NextFrames == Inv /\ Frames /\ [Next]_vars => Frames'
<1> SUFFICES ASSUME Inv, Frames, [Next]_vars PROVE Frames'
  OBVIOUS
<1>1. CASE UNCHANGED expvars
  BY <1>1 DEF Frames, Stacked, Calling, Top, expvars
<1>2. CASE TakeLine /\ Expand(TakenText)
  <2>1. TakenText \in Text
    BY <1>2, TakenIsText
  <2>2. line' = TakenText /\ arg' = TakenText /\ stack' = <<>> /\ state' = "call"
    BY <1>2 DEF Expand
  <2> HIDE DEF TakenText
  <2> QED BY <2>1, <2>2 DEF Frames, Stacked, Calling
<1>3. CASE ExpandError
  BY <1>3, ErrorFrames DEF ExpandError
<1>4. CASE ExpandNext
  BY <1>3, <1>4, ExpandListFrames, ExpandRangeFrames, LeafFrames, NextItemFrames,
     NextNumberFrames, ReturnFrames DEF ExpandNext
<1> QED
  BY <1>1, <1>2, <1>4 DEF Next, Buffer, vars

(* They are in every behaviour. *)
LEMMA FramesHold == Spec => [](Inv /\ Frames)
<1>1. Init => Frames
  BY DEF Init, ExpandInit, Frames, Stacked, Calling, Text
<1> QED
  BY <1>1, InvHolds, NextFrames, PTL DEF Spec

(* "the expanded lines are shorter than the original line": for all files,  *)
(* widths of numbers and bases, each expanded line and its '\0' fit into    *)
(* the buffer that expandLine has allocated, also for ranges of which the   *)
(* numbers wrap around.                                                     *)
THEOREM BuffersSuffice == Spec => []BufferSuffices
<1>1. Frames => BufferSuffices
  BY DEF Frames, Calling, BufferSuffices
<1> QED
  BY <1>1, FramesHold, PTL

-----------------------------------------------------------------------------
(* The scan of a text depends on what is behind its first part only, if     *)
(* that part has no braces, and on the marks in it.                         *)
NoBrace(x) == \A j \in 1 .. Len(x) : x[j] \notin {"{", "}", "#"}
MarksOf(x) == {",", "-"} \cap In(x, 1, Len(x))

(* The first place is determined. *)
LEMMA FirstUnique ==
  ASSUME NEW t, Len(t) \in Nat, NEW i \in Nat, NEW C, NEW k, NEW m,
         First(t, i, C, k), First(t, i, C, m)
  PROVE  k = m
<1>1. k \in Int /\ m \in Int /\ i <= k /\ i <= m /\ k <= Len(t) + 1 /\ m <= Len(t) + 1
  BY DEF First, End
<1>2. ~ (k < m)
  <2> SUFFICES ASSUME k < m PROVE FALSE
    OBVIOUS
  <2>1. k <= Len(t) /\ k \in i .. m - 1
    BY <1>1
  <2> QED BY <2>1 DEF First
<1>3. ~ (m < k)
  <2> SUFFICES ASSUME m < k PROVE FALSE
    OBVIOUS
  <2>1. m <= Len(t) /\ m \in i .. k - 1
    BY <1>1
  <2> QED BY <2>1 DEF First
<1> QED
  BY <1>1, <1>2, <1>3

(* Whether or not a place is found, Find gives a number. *)
LEMMA FindHits ==
  ASSUME NEW t, Len(t) \in Nat, NEW i \in Nat, NEW C
  PROVE  /\ Find(t, i, C) \in Nat /\ Find(t, i, C) <= End(t)
         /\ Find(t, i, C) <= Len(t) => t[Find(t, i, C)] \in C
         /\ i > Len(t) => Find(t, i, C) = End(t)
<1>1. CASE i <= End(t)
  <2>1. First(t, i, C, Find(t, i, C))
    BY <1>1, FindIs
  <2>2. Find(t, i, C) \in i .. End(t) /\ End(t) = Len(t) + 1
    BY <2>1 DEF First, End
  <2> QED BY <2>1, <2>2 DEF First
<1>2. CASE ~ (i <= End(t))
  <2>1. {k \in i .. Len(t) : t[k] \in C} = {}
    BY <1>2 DEF End
  <2>2. Find(t, i, C) = End(t)
    BY <2>1 DEF Find
  <2> QED BY <2>2 DEF End
<1> QED
  BY <1>1, <1>2

(* The characters of a text in two parts. *)
LEMMA Behind ==
  ASSUME NEW x \in Text, NEW s \in Text
  PROVE  /\ x \o s \in Text /\ Len(x \o s) = Len(x) + Len(s)
         /\ Len(x) \in Nat /\ Len(s) \in Nat
         /\ \A i \in 1 .. Len(x) : (x \o s)[i] = x[i]
         /\ \A i \in 1 .. Len(s) : (x \o s)[Len(x) + i] = s[i]
<1>1. Len(x) \in Nat /\ Len(s) \in Nat
  BY DEF Text
<1>2. /\ x \o s \in Text /\ Len(x \o s) = Len(x) + Len(s)
      /\ \A i \in 1 .. Len(x) + Len(s) : (x \o s)[i] =
           IF i <= Len(x) THEN x[i] ELSE s[i - Len(x)]
  BY ConcatProperties DEF Text
<1>3. ASSUME NEW i \in 1 .. Len(x) PROVE (x \o s)[i] = x[i]
  BY <1>1, <1>2
<1>4. ASSUME NEW i \in 1 .. Len(s) PROVE (x \o s)[Len(x) + i] = s[i]
  <2>1. Len(x) + i \in 1 .. Len(x) + Len(s) /\ ~ (Len(x) + i <= Len(x))
        /\ Len(x) + i - Len(x) = i
    BY <1>1
  <2> QED BY <1>2, <2>1
<1> QED
  BY <1>1, <1>2, <1>3, <1>4

(* A search that begins behind the first part. *)
LEMMA FindBehind ==
  ASSUME NEW x \in Text, NEW s \in Text, NEW i \in Nat \ {0}, NEW C
  PROVE  Find(x \o s, Len(x) + i, C) = Len(x) + Find(s, i, C)
<1>0. PICK t \in Text, L \in Nat, n \in Nat :
        /\ t = x \o s /\ L = Len(x) /\ n = Len(s) /\ Len(t) = L + n
        /\ \A j \in 1 .. n : t[L + j] = s[j]
  <2>1. PICK t, L, n : t = x \o s /\ L = Len(x) /\ n = Len(s)
    OBVIOUS
  <2>2. /\ t \in Text /\ L \in Nat /\ n \in Nat /\ Len(t) = L + n
        /\ \A j \in 1 .. L : t[j] = x[j]
        /\ \A j \in 1 .. n : t[L + j] = s[j]
    BY <2>1, Behind
  <2> QED BY <2>1, <2>2
<1>1. End(t) = L + n + 1 /\ End(s) = n + 1
  BY <1>0 DEF End
<1>2. CASE i <= End(s)
  <2>1. PICK k : k = Find(s, i, C) /\ First(s, i, C, k)
    BY <1>0, <1>2, FindIs
  <2>2. k \in i .. n + 1 /\ k \in Int
    BY <1>1, <2>1 DEF First
  <2>3. PICK a \in Int, b \in Int : a = L + i /\ b = L + k
    BY <1>0, <2>2
  <2>4. b \in a .. End(t)
    BY <1>0, <1>1, <2>2, <2>3
  <2>5. b <= Len(t) => t[b] \in C
    <3> SUFFICES ASSUME b <= Len(t) PROVE t[b] \in C
      OBVIOUS
    <3>1. k \in 1 .. n /\ k <= Len(s)
      BY <1>0, <2>2, <2>3
    <3>2. s[k] \in C
      BY <2>1, <3>1 DEF First
    <3>3. t[b] = s[k]
      BY <1>0, <2>3, <3>1
    <3> QED BY <3>2, <3>3
  <2>10. ASSUME NEW j \in a .. b - 1 PROVE t[j] \notin C
    <3>1. PICK h \in Int : h = j - L /\ j = L + h
      <4>1. j - L \in Int /\ j = L + (j - L)
        BY <1>0, <2>3
      <4> QED BY <4>1
    <3>2. h \in i .. k - 1 /\ h \in 1 .. n
      BY <1>0, <2>2, <2>3, <3>1
    <3>3. s[h] \notin C
      BY <2>1, <3>2 DEF First
    <3>4. t[j] = s[h]
      BY <1>0, <3>1, <3>2
    <3> QED BY <3>3, <3>4
  <2>6. First(t, L + i, C, L + k)
    <3>1. First(t, a, C, b)
      BY <2>4, <2>5, <2>10 DEF First
    <3> QED BY <2>3, <3>1
  <2>7. First(t, L + i, C, Find(t, L + i, C))
    <3>1. L + i \in Nat /\ L + i <= End(t) /\ Len(t) \in Nat
      BY <1>0, <1>1, <1>2
    <3> QED BY <3>1, FindIs
  <2>8. Len(t) \in Nat /\ L + i \in Nat
    BY <1>0
  <2>9. Find(t, L + i, C) = L + k
    BY <2>6, <2>7, <2>8, FirstUnique
  <2> QED BY <1>0, <2>1, <2>9
<1>3. CASE ~ (i <= End(s))
  <2>1. Find(s, i, C) = End(s)
    <3>1. i > Len(s) /\ i \in Nat
      BY <1>0, <1>1, <1>3
    <3> QED BY <1>0, <3>1, FindHits
  <2>2. Find(t, L + i, C) = End(t)
    <3>1. L + i > Len(t) /\ L + i \in Nat /\ Len(t) \in Nat
      BY <1>0, <1>1, <1>3
    <3> QED BY <3>1, FindHits
  <2> QED BY <1>0, <1>1, <2>1, <2>2
<1> QED
  BY <1>2, <1>3

(* A search from the beginning that meets nothing in the first part. *)
LEMMA FindThrough ==
  ASSUME NEW x \in Text, NEW s \in Text, NEW C,
         \A j \in 1 .. Len(x) : x[j] \notin C
  PROVE  Find(x \o s, 1, C) = Len(x) + Find(s, 1, C)
<1>0. PICK t \in Text, L \in Nat, n \in Nat :
        /\ t = x \o s /\ L = Len(x) /\ n = Len(s) /\ Len(t) = L + n
        /\ \A j \in 1 .. L : t[j] = x[j]
  <2>1. PICK t, L, n : t = x \o s /\ L = Len(x) /\ n = Len(s)
    OBVIOUS
  <2>2. /\ t \in Text /\ L \in Nat /\ n \in Nat /\ Len(t) = L + n
        /\ \A j \in 1 .. L : t[j] = x[j]
        /\ \A j \in 1 .. n : t[L + j] = s[j]
    BY <2>1, Behind
  <2> QED BY <2>1, <2>2
<1>1. End(t) = L + n + 1 /\ Len(t) \in Nat
  BY <1>0 DEF End
<1>2. PICK k : k = Find(t, L + 1, C) /\ First(t, L + 1, C, k)
  <2>1. L + 1 \in Nat /\ L + 1 <= End(t)
    BY <1>0, <1>1
  <2> QED BY <1>1, <2>1, FindIs
<1>3. k \in L + 1 .. End(t)
  BY <1>2 DEF First
<1>4. First(t, 1, C, k)
  <2>1. ASSUME NEW j \in 1 .. k - 1 PROVE t[j] \notin C
    <3>1. CASE j <= L
      BY <1>0, <3>1
    <3>2. CASE j > L
      <4>1. j \in L + 1 .. k - 1
        BY <1>0, <3>2
      <4> QED BY <1>2, <4>1 DEF First
    <3>3. j <= L \/ j > L
      BY <1>3
    <3> QED BY <3>1, <3>2, <3>3
  <2>2. k \in 1 .. End(t)
    BY <1>0, <1>1, <1>3
  <2> QED BY <1>2, <2>1, <2>2 DEF First
<1>5. First(t, 1, C, Find(t, 1, C))
  <2>1. 1 \in Nat /\ 1 <= End(t)
    BY <1>0, <1>1
  <2> QED BY <1>1, <2>1, FindIs
<1>6. Find(t, 1, C) = k
  BY <1>1, <1>4, <1>5, FirstUnique
<1>7. Find(t, L + 1, C) = L + Find(s, 1, C)
  BY <1>0, FindBehind
<1> QED
  BY <1>0, <1>2, <1>6, <1>7

(* The characters between two places behind the first part ... *)
LEMMA InBehind ==
  ASSUME NEW x \in Text, NEW s \in Text, NEW i \in Nat \ {0}, NEW k \in Int, k <= Len(s)
  PROVE  In(x \o s, Len(x) + i, Len(x) + k) = In(s, i, k)
<1>0. PICK t \in Text, L \in Nat, n \in Nat :
        /\ t = x \o s /\ L = Len(x) /\ n = Len(s)
        /\ \A j \in 1 .. n : t[L + j] = s[j]
  <2>1. PICK t, L, n : t = x \o s /\ L = Len(x) /\ n = Len(s)
    OBVIOUS
  <2>2. /\ t \in Text /\ L \in Nat /\ n \in Nat /\ Len(t) = L + n
        /\ \A j \in 1 .. L : t[j] = x[j]
        /\ \A j \in 1 .. n : t[L + j] = s[j]
    BY <2>1, Behind
  <2> QED BY <2>1, <2>2
<1>1. ASSUME NEW j \in L + i .. L + k PROVE \E h \in i .. k : t[j] = s[h]
  <2>1. PICK h \in Int : h = j - L /\ j = L + h
    <3>1. j - L \in Int /\ j = L + (j - L)
      BY <1>0
    <3> QED BY <3>1
  <2>2. h \in i .. k /\ h \in 1 .. n
    BY <1>0, <2>1
  <2> QED BY <1>0, <2>1, <2>2
<1>2. ASSUME NEW h \in i .. k PROVE \E j \in L + i .. L + k : t[j] = s[h]
  <2>1. L + h \in L + i .. L + k /\ h \in 1 .. n
    BY <1>0
  <2> QED BY <1>0, <2>1
<1>3. ASSUME NEW e PROVE e \in In(t, L + i, L + k) <=> e \in In(s, i, k)
  <2>1. e \in In(t, L + i, L + k) <=> \E j \in L + i .. L + k : e = t[j]
    BY Zenon DEF In
  <2>2. e \in In(s, i, k) <=> \E h \in i .. k : e = s[h]
    BY Zenon DEF In
  <2> QED BY <1>1, <1>2, <2>1, <2>2, Zenon
<1>4. In(t, L + i, L + k) = In(s, i, k)
  BY <1>3, Zenon
<1> QED
  BY <1>0, <1>4

(* ... and from the beginning on. *)
LEMMA InThrough ==
  ASSUME NEW x \in Text, NEW s \in Text, NEW k \in 0 .. Len(s)
  PROVE  In(x \o s, 1, Len(x) + k) = In(x, 1, Len(x)) \cup In(s, 1, k)
<1>0. PICK t \in Text, L \in Nat, n \in Nat :
        /\ t = x \o s /\ L = Len(x) /\ n = Len(s)
        /\ \A j \in 1 .. L : t[j] = x[j]
        /\ \A j \in 1 .. n : t[L + j] = s[j]
  <2>1. PICK t, L, n : t = x \o s /\ L = Len(x) /\ n = Len(s)
    OBVIOUS
  <2>2. /\ t \in Text /\ L \in Nat /\ n \in Nat /\ Len(t) = L + n
        /\ \A j \in 1 .. L : t[j] = x[j]
        /\ \A j \in 1 .. n : t[L + j] = s[j]
    BY <2>1, Behind
  <2> QED BY <2>1, <2>2
<1>1. ASSUME NEW j \in 1 .. L + k
      PROVE  (\E h \in 1 .. L : t[j] = x[h]) \/ (\E h \in 1 .. k : t[j] = s[h])
  <2>1. CASE j <= L
    <3>1. j \in 1 .. L
      BY <1>0, <2>1
    <3> QED BY <1>0, <3>1
  <2>2. CASE j > L
    <3>1. PICK h \in Int : h = j - L /\ j = L + h
      <4>1. j - L \in Int /\ j = L + (j - L)
        BY <1>0
      <4> QED BY <4>1
    <3>2. h \in 1 .. k /\ h \in 1 .. n
      BY <1>0, <2>2, <3>1
    <3> QED BY <1>0, <3>1, <3>2
  <2> QED BY <1>0, <2>1, <2>2
<1>2. ASSUME NEW h \in 1 .. L PROVE \E j \in 1 .. L + k : t[j] = x[h]
  <2>1. h \in 1 .. L + k
    BY <1>0
  <2> QED BY <1>0, <2>1
<1>3. ASSUME NEW h \in 1 .. k PROVE \E j \in 1 .. L + k : t[j] = s[h]
  <2>1. L + h \in 1 .. L + k /\ h \in 1 .. n
    BY <1>0
  <2> QED BY <1>0, <2>1
<1>4. ASSUME NEW e PROVE e \in In(t, 1, L + k) <=> e \in In(x, 1, L) \cup In(s, 1, k)
  <2>1. e \in In(t, 1, L + k) <=> \E j \in 1 .. L + k : e = t[j]
    BY Zenon DEF In
  <2>2. e \in In(x, 1, L) <=> \E h \in 1 .. L : e = x[h]
    BY Zenon DEF In
  <2>3. e \in In(s, 1, k) <=> \E h \in 1 .. k : e = s[h]
    BY Zenon DEF In
  <2> QED BY <1>1, <1>2, <1>3, <2>1, <2>2, <2>3, Zenon
<1>5. In(t, 1, L + k) = In(x, 1, L) \cup In(s, 1, k)
  BY <1>4, Zenon
<1> QED
  BY <1>0, <1>5

(* A part that lies behind the first one. *)
LEMMA SubSeqBehind ==
  ASSUME NEW x \in Text, NEW s \in Text, NEW i \in Nat \ {0}, NEW k \in Int, k <= Len(s)
  PROVE  SubSeq(x \o s, Len(x) + i, Len(x) + k) = SubSeq(s, i, k)
<1>0. PICK t \in Text, L \in Nat, n \in Nat :
        /\ t = x \o s /\ L = Len(x) /\ n = Len(s)
        /\ \A j \in 1 .. n : t[L + j] = s[j]
  <2>1. PICK t, L, n : t = x \o s /\ L = Len(x) /\ n = Len(s)
    OBVIOUS
  <2>2. /\ t \in Text /\ L \in Nat /\ n \in Nat /\ Len(t) = L + n
        /\ \A j \in 1 .. L : t[j] = x[j]
        /\ \A j \in 1 .. n : t[L + j] = s[j]
    BY <2>1, Behind
  <2> QED BY <2>1, <2>2
<1>1. \A j \in 1 .. n : s[j] \in Char
  BY <1>0 DEF Text
<1>2. \A j \in i .. k : s[j] \in Char
  BY <1>0, <1>1
<1>3. \A j \in L + i .. L + k : t[j] \in Char
  <2> SUFFICES ASSUME NEW j \in L + i .. L + k PROVE t[j] \in Char
    OBVIOUS
  <2>1. PICK h \in Int : h = j - L /\ j = L + h
    <3>1. j - L \in Int /\ j = L + (j - L)
      BY <1>0
    <3> QED BY <3>1
  <2>2. h \in 1 .. n
    BY <1>0, <2>1
  <2> QED BY <1>0, <1>1, <2>1, <2>2
<1>9. PICK u, v : u = SubSeq(s, i, k) /\ v = SubSeq(t, L + i, L + k)
  OBVIOUS
<1>4. /\ u \in Seq(Char)
      /\ Len(u) = IF i <= k THEN k - i + 1 ELSE 0
      /\ \A j \in 1 .. k - i + 1 : u[j] = s[i + j - 1]
  <2>1. i \in Int
    OBVIOUS
  <2> QED BY <1>9, <1>2, <2>1, SubSeqProperties
<1>5. /\ v \in Seq(Char)
      /\ Len(v) = IF L + i <= L + k THEN L + k - (L + i) + 1 ELSE 0
      /\ \A j \in 1 .. L + k - (L + i) + 1 : v[j] = t[L + i + j - 1]
  <2>1. PICK a \in Int, b \in Int : a = L + i /\ b = L + k
    BY <1>0
  <2>2. v = SubSeq(t, a, b) /\ \A j \in a .. b : t[j] \in Char
    BY <1>9, <1>3, <2>1
  <2>3. /\ v \in Seq(Char)
        /\ Len(v) = IF a <= b THEN b - a + 1 ELSE 0
        /\ \A j \in 1 .. b - a + 1 : v[j] = t[a + j - 1]
    BY <2>2, SubSeqProperties
  <2> QED BY <2>1, <2>3
<1>6. Len(v) = Len(u)
  BY <1>0, <1>4, <1>5
<1>7. \A j \in 1 .. Len(v) : v[j] = u[j]
  <2> SUFFICES ASSUME NEW j \in 1 .. Len(v) PROVE v[j] = u[j]
    OBVIOUS
  <2>1. j \in 1 .. k - i + 1 /\ j \in 1 .. L + k - (L + i) + 1 /\ j \in Int
    BY <1>0, <1>4, <1>5, <1>6
  <2>2. PICK h \in 1 .. n : h = i + j - 1 /\ L + h = L + i + j - 1
    <3>1. i + j - 1 \in 1 .. n /\ L + (i + j - 1) = L + i + j - 1
      BY <1>0, <2>1
    <3> QED BY <3>1
  <2> QED BY <1>0, <1>4, <1>5, <2>1, <2>2
<1>8. v = u
  BY <1>4, <1>5, <1>6, <1>7, SeqEqual
<1> QED
  BY <1>0, <1>9, <1>8

(* The scan of expandLine for a text s behind marks M. *)
ScanBad(M, s) ==
  LET o == Open(s)  c == Close(s)  inside == In(s, o + 1, c - 1)
  IN  \/ Mixed(M \cup In(s, 1, IF o < c THEN o - 1 ELSE c - 1))
      \/ c < o
      \/ o < c /\ \/ c = Stop(s)
                  \/ ~(inside \subseteq Digit \cup {",", "-"})
                  \/ Mixed(inside)
                  \/ inside \cap {",", "-"} = {}

(* Where the braces are. *)
LEMMA BracesBehind ==
  ASSUME NEW x \in Text, NEW s \in Text, NoBrace(x)
  PROVE  /\ Open(x \o s) = Len(x) + Open(s) /\ Close(x \o s) = Len(x) + Close(s)
         /\ Stop(x \o s) = Len(x) + Stop(s)
         /\ Open(s) \in 1 .. Len(s) + 1 /\ Close(s) \in 1 .. Len(s) + 1
         /\ Stop(s) \in 1 .. Len(s) + 1
<1>1. Len(s) \in Nat /\ 1 \in Nat /\ 1 <= End(s) /\ End(s) = Len(s) + 1
  BY DEF Text, End
<1>2. /\ First(s, 1, {"{", "#"}, Open(s)) /\ First(s, 1, {"}", "#"}, Close(s))
      /\ First(s, 1, {"#"}, Stop(s))
  BY <1>1, FindIs DEF Open, Close, Stop
<1>3. /\ \A j \in 1 .. Len(x) : x[j] \notin {"{", "#"}
      /\ \A j \in 1 .. Len(x) : x[j] \notin {"}", "#"}
      /\ \A j \in 1 .. Len(x) : x[j] \notin {"#"}
  BY DEF NoBrace
<1>4. /\ Open(x \o s) = Len(x) + Open(s) /\ Close(x \o s) = Len(x) + Close(s)
      /\ Stop(x \o s) = Len(x) + Stop(s)
  BY <1>3, FindThrough DEF Open, Close, Stop
<1> QED
  BY <1>1, <1>2, <1>4 DEF First

(* What the scan says of them. *)
LEMMA ScanBehind ==
  ASSUME NEW x \in Text, NEW s \in Text, NoBrace(x)
  PROVE  /\ ScanError(x \o s) <=> ScanBad(MarksOf(x), s)
         /\ HasRange(x \o s) <=> HasRange(s)
<1>1. PICK t \in Text, L \in Nat : t = x \o s /\ L = Len(x)
  BY Behind
<1>2. PICK m \in Nat : m = Len(s)
  BY DEF Text
<1>3. /\ Open(t) = L + Open(s) /\ Close(t) = L + Close(s) /\ Stop(t) = L + Stop(s)
      /\ Open(s) \in 1 .. m + 1 /\ Close(s) \in 1 .. m + 1 /\ Stop(s) \in 1 .. m + 1
  BY <1>1, <1>2, BracesBehind
<1>e. PICK o \in 1 .. m + 1, c \in 1 .. m + 1, e \in 1 .. m + 1 :
        /\ o = Open(s) /\ c = Close(s) /\ e = Stop(s)
        /\ Open(t) = L + o /\ Close(t) = L + c /\ Stop(t) = L + e
  BY <1>3
<1>n. /\ m \in Nat /\ L \in Nat /\ o \in Int /\ c \in Int /\ e \in Int
      /\ 1 <= o /\ o <= m + 1 /\ 1 <= c /\ c <= m + 1 /\ 1 <= e
  OBVIOUS
<1>5. /\ (L + c < L + o) <=> (c < o)
      /\ (L + o < L + c) <=> (o < c)
      /\ (L + c = L + e) <=> (c = e)
      /\ (L + c < L + e) <=> (c < e)
  BY <1>n
<1>4. HasRange(t) <=> HasRange(s)
  BY <1>e, <1>5, Zenon DEF HasRange
<1>6. In(t, L + o + 1, L + c - 1) = In(s, o + 1, c - 1)
  <2>1. PICK i \in Nat \ {0}, k \in Int :
          i = o + 1 /\ k = c - 1 /\ k <= m /\ L + o + 1 = L + i /\ L + c - 1 = L + k
    <3>1. /\ o + 1 \in Nat \ {0} /\ c - 1 \in Int /\ c - 1 <= m
          /\ L + o + 1 = L + (o + 1) /\ L + c - 1 = L + (c - 1)
      BY <1>n
    <3> QED BY <3>1
  <2>2. In(x \o s, Len(x) + i, Len(x) + k) = In(s, i, k)
    <3>1. k <= Len(s)
      BY <1>2, <2>1
    <3> QED BY <3>1, InBehind
  <2> QED BY <1>1, <2>1, <2>2, Zenon
<1>7. PICK k \in 0 .. m :
        /\ k = IF o < c THEN o - 1 ELSE c - 1
        /\ L + k = IF L + o < L + c THEN L + o - 1 ELSE L + c - 1
  <2>0. /\ o - 1 \in Int /\ 0 <= o - 1 /\ o - 1 <= m /\ L + (o - 1) = L + o - 1
        /\ c - 1 \in Int /\ 0 <= c - 1 /\ c - 1 <= m /\ L + (c - 1) = L + c - 1
    BY <1>n
  <2>e. o - 1 \in 0 .. m /\ c - 1 \in 0 .. m
    BY <1>n, <2>0
  <2>1. CASE o < c
    <3>1. PICK k \in 0 .. m : k = o - 1
      BY <2>e
    <3>2. L + k = L + o - 1
      BY <2>0, <3>1, Zenon
    <3> QED BY <1>5, <2>1, <3>1, <3>2, Zenon
  <2>2. CASE ~ (o < c)
    <3>1. PICK k \in 0 .. m : k = c - 1
      BY <2>e
    <3>2. L + k = L + c - 1
      BY <2>0, <3>1, Zenon
    <3> QED BY <1>5, <2>2, <3>1, <3>2, Zenon
  <2> QED BY <2>1, <2>2
<1>8. In(t, 1, L + k) = In(x, 1, L) \cup In(s, 1, k)
  <2>1. k \in 0 .. Len(s)
    BY <1>2
  <2> QED BY <1>1, <2>1, InThrough
<1>9. Mixed(In(t, 1, L + k)) <=> Mixed(MarksOf(x) \cup In(s, 1, k))
  <2> HIDE DEF In
  <2> QED BY <1>1, <1>8 DEF Mixed, MarksOf
<1>10. ScanError(t) <=>
         \/ Mixed(In(t, 1, L + k)) \/ L + c < L + o
         \/ L + o < L + c /\ \/ L + c = L + e
                             \/ ~(In(t, L + o + 1, L + c - 1) \subseteq Digit \cup {",", "-"})
                             \/ Mixed(In(t, L + o + 1, L + c - 1))
                             \/ In(t, L + o + 1, L + c - 1) \cap {",", "-"} = {}
  <2>1. PICK P : P = In(t, L + o + 1, L + c - 1)
    OBVIOUS
  <2>2. PICK Q : Q = In(t, 1, L + k)
    OBVIOUS
  <2>3. /\ In(t, Open(t) + 1, Close(t) - 1) = P
        /\ In(t, 1, IF Open(t) < Close(t) THEN Open(t) - 1 ELSE Close(t) - 1) = Q
    <3>1. PICK q : q = L + k
      OBVIOUS
    <3>2. q = IF L + o < L + c THEN L + o - 1 ELSE L + c - 1
      BY <1>7, <3>1
    <3>3. PICK oo, cc : oo = L + o /\ cc = L + c
      OBVIOUS
    <3>4. oo = Open(t) /\ cc = Close(t)
      BY <1>e, <3>3
    <3>5. q = IF Open(t) < Close(t) THEN Open(t) - 1 ELSE Close(t) - 1
      <4>1. q = IF oo < cc THEN oo - 1 ELSE cc - 1
        BY <3>2, <3>3
      <4> QED BY <3>4, <4>1
    <3>6. In(t, Open(t) + 1, Close(t) - 1) = P
      <4>1. PICK a, z : a = L + o + 1 /\ z = L + c - 1
        OBVIOUS
      <4>2. a = oo + 1 /\ z = cc - 1
        BY <3>3, <4>1
      <4>3. a = Open(t) + 1 /\ z = Close(t) - 1
        BY <3>4, <4>2
      <4>4. P = In(t, a, z)
        BY <2>1, <4>1, Zenon
      <4> QED BY <4>3, <4>4, Zenon
    <3>7. Q = In(t, 1, q)
      BY <2>2, <3>1, Zenon
    <3> QED BY <3>5, <3>6, <3>7, Zenon
  <2>4. ScanError(t) <=>
         \/ Mixed(Q) \/ Close(t) < Open(t)
         \/ Open(t) < Close(t) /\ \/ Close(t) = Stop(t)
                                  \/ ~(P \subseteq Digit \cup {",", "-"})
                                  \/ Mixed(P) \/ P \cap {",", "-"} = {}
    BY <2>3, Zenon DEF ScanError
  <2> QED BY <1>e, <2>1, <2>2, <2>4, Zenon
<1>11. ScanBad(MarksOf(x), s) <=>
         \/ Mixed(MarksOf(x) \cup In(s, 1, k)) \/ c < o
         \/ o < c /\ \/ c = e
                     \/ ~(In(s, o + 1, c - 1) \subseteq Digit \cup {",", "-"})
                     \/ Mixed(In(s, o + 1, c - 1))
                     \/ In(s, o + 1, c - 1) \cap {",", "-"} = {}
  BY <1>e, <1>7, Zenon DEF ScanBad
<1>12. ScanError(t) <=> ScanBad(MarksOf(x), s)
  BY <1>5, <1>6, <1>9, <1>10, <1>11, Zenon
<1> QED
  BY <1>1, <1>4, <1>12

(* A character behind the first part. *)
LEMMA AtBehind ==
  ASSUME NEW x \in Text, NEW s \in Text, NEW i \in Nat \ {0}
  PROVE  At(x \o s, Len(x) + i) = At(s, i)
<1>1. /\ x \o s \in Text /\ Len(x \o s) = Len(x) + Len(s)
      /\ Len(x) \in Nat /\ Len(s) \in Nat
      /\ \A j \in 1 .. Len(s) : (x \o s)[Len(x) + j] = s[j]
  BY Behind
<1>2. DOMAIN (x \o s) = 1 .. Len(x) + Len(s) /\ DOMAIN s = 1 .. Len(s)
  BY <1>1 DEF Text
<1>3. Len(x) + i \in 1 .. Len(x) + Len(s) <=> i \in 1 .. Len(s)
  BY <1>1
<1> QED
  BY <1>1, <1>2, <1>3 DEF At

(* A number behind the first part. *)
LEMMA StrtolBehind ==
  ASSUME NEW x \in Text, NEW s \in Text, NEW i \in Nat \ {0}
  PROVE  /\ Strtol(s, i).end \in Nat \ {0}
         /\ Strtol(x \o s, Len(x) + i).end = Len(x) + Strtol(s, i).end
         /\ Strtol(x \o s, Len(x) + i).val = Strtol(s, i).val
<1>1. PICK t \in Text, L \in Nat : t = x \o s /\ L = Len(x)
  BY Behind
<1>2. Len(s) \in Nat /\ End(s) = Len(s) + 1
  BY DEF Text, End
<1>e. PICK m \in Nat \ {0} : m = End(s)
  BY <1>2
<1>3. PICK b \in Nat \ {0} :
        b = Skip(s, i, {" "}) /\ Skip(t, L + i, {" "}) = L + b /\ b <= m
  <2>0. PICK C : C = Char \ {" "}
    OBVIOUS
  <2>1. Find(t, L + i, C) = L + Find(s, i, C)
    BY <1>1, FindBehind
  <2>2. Find(s, i, C) \in Nat \ {0} /\ Find(s, i, C) <= m
    <3>1. CASE i <= m
      <4>1. First(s, i, C, Find(s, i, C))
        BY <1>e, <3>1, FindIs
      <4>2. PICK k : k = Find(s, i, C)
        OBVIOUS
      <4>3. k \in i .. m
        BY <1>e, <4>1, <4>2 DEF First
      <4>4. k \in Nat \ {0} /\ k <= m
        BY <4>3
      <4> QED BY <4>2, <4>4
    <3>2. CASE ~ (i <= m)
      <4>1. i \in Nat /\ i > Len(s)
        BY <1>2, <1>e, <3>2
      <4>2. Find(s, i, C) = m
        BY <1>e, <4>1, FindHits
      <4> QED BY <4>2
    <3> QED BY <3>1, <3>2
  <2> QED BY <2>0, <2>1, <2>2 DEF Skip
<1>4. At(t, L + b) = At(s, b)
  BY <1>1, AtBehind
<1>5. PICK n \in Nat \ {0} :
        /\ n = IF At(s, b) = "-" THEN b + 1 ELSE b
        /\ L + n = IF At(t, L + b) = "-" THEN L + b + 1 ELSE L + b
        /\ n <= m
  <2>1. CASE At(s, b) = "-"
    <3>1. b \in DOMAIN s
      BY <2>1 DEF At, NUL
    <3>2. b <= Len(s)
      BY <3>1 DEF Text
    <3>3. b + 1 \in Nat \ {0} /\ L + (b + 1) = L + b + 1 /\ b + 1 <= m
      BY <1>2, <1>e, <3>2
    <3>4. PICK n \in Nat \ {0} : n = b + 1 /\ L + n = L + b + 1 /\ n <= m
      BY <3>3
    <3> QED BY <1>4, <2>1, <3>4, Zenon
  <2>2. CASE At(s, b) # "-"
    <3>1. PICK n \in Nat \ {0} : n = b /\ L + n = L + b /\ n <= m
      BY <1>3
    <3> QED BY <1>4, <2>2, <3>1, Zenon
  <2> QED BY <2>1, <2>2
<1>6. PICK e \in Nat \ {0} :
        e = Skip(s, n, Digit) /\ Skip(t, L + n, Digit) = L + e /\ e <= m /\ n <= e
  <2>1. Find(t, L + n, Char \ Digit) = L + Find(s, n, Char \ Digit)
    BY <1>1, FindBehind
  <2>2. First(s, n, Char \ Digit, Find(s, n, Char \ Digit))
    <3>1. n \in Nat /\ n <= End(s)
      BY <1>e, <1>5
    <3> QED BY <1>2, <3>1, FindIs
  <2>3. PICK e : e = Find(s, n, Char \ Digit)
    OBVIOUS
  <2>4. e \in n .. m
    BY <1>e, <2>2, <2>3 DEF First
  <2>5. e \in Nat \ {0} /\ n <= e /\ e <= m
    BY <2>4
  <2> QED BY <2>1, <2>3, <2>5 DEF Skip
<1>7. SubSeq(t, L + n, L + e - 1) = SubSeq(s, n, e - 1)
  <2>0. e <= m
    BY <1>6
  <2>1. e - 1 \in Int /\ e - 1 <= Len(s) /\ L + e - 1 = L + (e - 1)
    BY <1>2, <1>e, <2>0
  <2>2. PICK k \in Int : k = e - 1 /\ k <= Len(s) /\ L + e - 1 = L + k
    BY <2>1
  <2>3. SubSeq(x \o s, Len(x) + n, Len(x) + k) = SubSeq(s, n, k)
    BY <2>2, SubSeqBehind
  <2> QED BY <1>1, <2>2, <2>3, Zenon
<1>8. (L + e = L + n <=> e = n) /\ (L + n = L + b <=> n = b)
  OBVIOUS
<1>9. PICK v : v = Value(SubSeq(s, n, e - 1)) /\ v = Value(SubSeq(t, L + n, L + e - 1))
  BY <1>7
<1>10. Strtol(s, i) = IF e = n THEN [val |-> 0, end |-> i]
                      ELSE [val |-> IF n = b THEN v ELSE -v, end |-> e]
  BY <1>3, <1>5, <1>6, <1>9, Zenon DEF Strtol
<1>11. Strtol(t, L + i) = IF L + e = L + n THEN [val |-> 0, end |-> L + i]
                          ELSE [val |-> IF L + n = L + b THEN v ELSE -v, end |-> L + e]
  <2>1. PICK Li, Lb, Ln, Le : Li = L + i /\ Lb = L + b /\ Ln = L + n /\ Le = L + e
    OBVIOUS
  <2>2. Lb = Skip(t, Li, {" "}) /\ Le = Skip(t, Ln, Digit)
    BY <1>3, <1>6, <2>1, Zenon
  <2>3. Ln = IF At(t, Lb) = "-" THEN Lb + 1 ELSE Lb
    BY <1>5, <2>1, Zenon
  <2>4. v = Value(SubSeq(t, Ln, Le - 1))
    <3>1. PICK d : d = L + e - 1
      OBVIOUS
    <3>2. d = Le - 1
      BY <2>1, <3>1
    <3>3. v = Value(SubSeq(t, L + n, d))
      BY <1>9, <3>1, Zenon
    <3> QED BY <2>1, <3>2, <3>3, Zenon
  <2>5. Strtol(t, Li) = IF Le = Ln THEN [val |-> 0, end |-> Li]
                        ELSE [val |-> IF Ln = Lb THEN v ELSE -v, end |-> Le]
    BY <2>2, <2>3, <2>4, Zenon DEF Strtol
  <2> QED BY <2>1, <2>5, Zenon
<1>12. CASE e = n
  BY <1>1, <1>8, <1>10, <1>11, <1>12
<1>13. CASE e # n
  <2>1. PICK w : w = IF n = b THEN v ELSE -v
    OBVIOUS
  <2>2. Strtol(s, i) = [val |-> w, end |-> e] /\ Strtol(t, L + i) = [val |-> w, end |-> L + e]
    BY <1>8, <1>10, <1>11, <1>13, <2>1, Zenon
  <2> QED BY <1>1, <2>2
<1> QED
  BY <1>12, <1>13

(* The result of iterateRange's two calls of strtol. *)
RangeOf(t, i, c) ==
  LET from == Strtol(t, i)  to == Strtol(t, from.end + 1)
  IN  [next |-> ToInt(Clamp(from.val)), last |-> ToInt(Clamp(to.val)),
       ok |-> At(t, from.end) = "-" /\ At(t, to.end) = "}" /\ to.end <= c]

(* It is the one in Ranges. *)
LEMMA RangesIs ==
  ASSUME NEW t, NEW i, NEW c
  PROVE  Ranges(t, i, c) = {RangeOf(t, i, c)}
<1>1. PICK from : from = Strtol(t, i)
  OBVIOUS
<1>2. PICK to : to = Strtol(t, from.end + 1)
  OBVIOUS
<1>3. Numbers(t, i) = {[from |-> from, to |-> to]}
  BY <1>1, <1>2 DEF Numbers
<1>4. PICK n : n = [from |-> from, to |-> to]
  OBVIOUS
<1>e. n.from = from /\ n.to = to
  BY <1>4
<1>5. Ranges(t, i, c) =
        {[next |-> ToInt(Clamp(n.from.val)), last |-> ToInt(Clamp(n.to.val)),
          ok |-> At(t, n.from.end) = "-" /\ At(t, n.to.end) = "}" /\ n.to.end <= c]}
  BY <1>3, <1>4, Zenon DEF Ranges
<1>6. RangeOf(t, i, c) =
        [next |-> ToInt(Clamp(from.val)), last |-> ToInt(Clamp(to.val)),
         ok |-> At(t, from.end) = "-" /\ At(t, to.end) = "}" /\ to.end <= c]
  BY <1>1, <1>2, Zenon DEF RangeOf
<1> QED
  BY <1>e, <1>5, <1>6, Zenon

(* A range behind the first part. *)
LEMMA RangeBehind ==
  ASSUME NEW x \in Text, NEW s \in Text, NEW i \in Nat \ {0}, NEW c \in Int
  PROVE  Refused(RangeOf(x \o s, Len(x) + i, Len(x) + c)) <=> Refused(RangeOf(s, i, c))
<1>1. PICK t \in Text, L \in Nat : t = x \o s /\ L = Len(x)
  BY Behind
<1>c. PICK from : from = Strtol(s, i)
  OBVIOUS
<1>2. PICK f \in Nat \ {0} : from.end = f
  BY <1>c, StrtolBehind
<1>3. PICK Lfrom : Lfrom = Strtol(t, L + i)
  OBVIOUS
<1>a. Lfrom.end = L + f /\ Lfrom.val = from.val
  <2>1. /\ Strtol(x \o s, Len(x) + i).end = Len(x) + Strtol(s, i).end
        /\ Strtol(x \o s, Len(x) + i).val = Strtol(s, i).val
    BY StrtolBehind
  <2>2. Lfrom = Strtol(x \o s, Len(x) + i)
    BY <1>1, <1>3, Zenon
  <2> QED BY <1>1, <1>2, <1>c, <2>1, <2>2, Zenon
<1>4. PICK k \in Nat \ {0} : k = f + 1 /\ L + f + 1 = L + k
  <2>1. f + 1 \in Nat \ {0} /\ L + f + 1 = L + (f + 1)
    OBVIOUS
  <2> QED BY <2>1
<1>d. PICK to : to = Strtol(s, k)
  OBVIOUS
<1>5. PICK g \in Nat \ {0} : to.end = g
  BY <1>d, StrtolBehind
<1>6. PICK Lto : Lto = Strtol(t, L + k)
  OBVIOUS
<1>b. Lto.end = L + g /\ Lto.val = to.val
  <2>1. /\ Strtol(x \o s, Len(x) + k).end = Len(x) + Strtol(s, k).end
        /\ Strtol(x \o s, Len(x) + k).val = Strtol(s, k).val
    BY StrtolBehind
  <2>2. Lto = Strtol(x \o s, Len(x) + k)
    BY <1>1, <1>6, Zenon
  <2> QED BY <1>1, <1>5, <1>d, <2>1, <2>2, Zenon
<1>7. At(t, Lfrom.end) = At(s, from.end) /\ At(t, Lto.end) = At(s, to.end)
  <2>1. At(t, L + f) = At(s, f) /\ At(t, L + g) = At(s, g)
    BY <1>1, AtBehind
  <2> QED BY <1>2, <1>a, <1>5, <1>b, <2>1, Zenon
<1>8. Lto.end <= L + c <=> to.end <= c
  <2>1. L + g <= L + c <=> g <= c
    OBVIOUS
  <2> QED BY <1>5, <1>b, <2>1, Zenon
<1>9. PICK ok : ok = (At(s, from.end) = "-" /\ At(s, to.end) = "}" /\ to.end <= c)
  OBVIOUS
<1>10. ok = (At(t, Lfrom.end) = "-" /\ At(t, Lto.end) = "}" /\ Lto.end <= L + c)
  BY <1>7, <1>8, <1>9, Zenon
<1>11. RangeOf(s, i, c) = [next |-> ToInt(Clamp(from.val)), last |-> ToInt(Clamp(to.val)),
                           ok |-> ok]
  <2>1. to = Strtol(s, from.end + 1)
    BY <1>2, <1>4, <1>d, Zenon
  <2> QED BY <1>c, <1>9, <2>1, Zenon DEF RangeOf
<1>12. RangeOf(t, L + i, L + c) =
         [next |-> ToInt(Clamp(Lfrom.val)), last |-> ToInt(Clamp(Lto.val)), ok |-> ok]
  <2>1. Lto = Strtol(t, Lfrom.end + 1)
    BY <1>a, <1>4, <1>6, Zenon
  <2> QED BY <1>3, <1>10, <2>1, Zenon DEF RangeOf
<1> QED
  BY <1>1, <1>a, <1>b, <1>11, <1>12, Zenon

-----------------------------------------------------------------------------
(* parseLine overwrites only characters that separate fields. *)
Separator == {NUL, " ", "/", "@", "#"}

Cut(t, k) == k \in Nat /\ (k <= Len(t) => t[k] \in Separator)

CutField(t, r) ==
  /\ "pos" \in DOMAIN r /\ "cut" \in DOMAIN r /\ r.pos \in Nat
  /\ \A k \in r.cut : Cut(t, k)

(* A search for some of them. *)
LEMMA FindCut ==
  ASSUME NEW t, Len(t) \in Nat, NEW i \in Nat, NEW C, C \subseteq Separator
  PROVE  Cut(t, Find(t, i, C)) /\ Past(t, Find(t, i, C)) \in Nat
<1>1. PICK k : k = Find(t, i, C)
  OBVIOUS
<1>2. k \in Nat /\ (k <= Len(t) => t[k] \in C)
  BY <1>1, FindHits
<1>3. Cut(t, k)
  BY <1>2 DEF Cut
<1>4. Past(t, k) \in Nat
  BY <1>2 DEF Past
<1> QED
  BY <1>1, <1>3, <1>4

(* strtol ends at a place of the text. *)
LEMMA StrtolEnds ==
  ASSUME NEW t, Len(t) \in Nat, NEW i \in Nat
  PROVE  Strtol(t, i).end \in Nat
<1> DEFINE b == Skip(t, i, {" "})
           n == IF At(t, b) = "-" THEN b + 1 ELSE b
           e == Skip(t, n, Digit)
           v == Value(SubSeq(t, n, e - 1))
<1>1. b \in Nat
  BY FindHits DEF Skip
<1> HIDE DEF b
<1>2. n \in Nat
  BY <1>1
<1> HIDE DEF n
<1>3. e \in Nat
  BY <1>2, FindHits DEF Skip
<1>4. Strtol(t, i) = IF e = n THEN [val |-> 0, end |-> i]
                     ELSE [val |-> IF n = b THEN v ELSE -v, end |-> e]
  BY DEF Strtol, b, n
<1> HIDE DEF e, v
<1> QED
  BY <1>3, <1>4

(* What parseNetMask overwrites. *)
LEMMA NetMaskCuts ==
  ASSUME NEW t, Len(t) \in Nat, NEW i \in Nat
  PROVE  /\ BlackList_parseNetMask(t, i).end \in Nat
         /\ \A k \in BlackList_parseNetMask(t, i).cut : Cut(t, k)
<1> DEFINE num == Strtol(t, i)
           e   == Find(t, num.end, {NUL, " ", "@"})
           f   == SubSeq(t, i, e - 1)
<1>1. num.end \in Nat
  BY StrtolEnds
<1> HIDE DEF num
<1>2. {NUL, " ", "@"} \subseteq Separator
  BY DEF Separator
<1>3. Cut(t, e)
  BY <1>1, <1>2, FindCut
<1>4. e \in Nat
  BY <1>3 DEF Cut
<1> HIDE DEF e, f
<1> QED
  BY <1>3, <1>4 DEF BlackList_parseNetMask, num, e, f

(* What the fields overwrite. *)
LEMMA HostCuts ==
  ASSUME NEW t, Len(t) \in Nat
  PROVE  CutField(t, ParseHost(t, NoFields))
<1> DEFINE b == Skip(t, NoFields.pos, {" "})
           neg == At(t, b) = "!"
           s == IF neg THEN b + 1 ELSE b
           p == Find(t, s, {"/", "@", " ", NUL})
           host == SubSeq(t, s, p - 1)
<1>1. NoFields.pos \in Nat
  BY DEF NoFields
<1>2. b \in Nat
  BY <1>1, FindHits DEF Skip
<1> HIDE DEF b
<1>3. s \in Nat
  BY <1>2
<1> HIDE DEF s
<1>4. {"/", "@", " ", NUL} \subseteq Separator
  BY DEF Separator
<1>5. Cut(t, p) /\ Past(t, p) \in Nat
  BY <1>3, <1>4, FindCut
<1>6. ParseHost(t, NoFields) =
        IF b = End(t) \/ At(t, b) = "#" THEN [NoFields EXCEPT !.ok = FALSE]
        ELSE [NoFields EXCEPT !.pos = Past(t, p), !.sep = At(t, p), !.cut = {p},
                     !.neg = neg, !.host = host,
                     !.ok = IsAddr(host) \/ (host = <<"*">> /\ ~neg)]
  BY DEF ParseHost, b, s
<1> HIDE DEF p, host, neg
<1>7. "pos" \in DOMAIN NoFields /\ "cut" \in DOMAIN NoFields /\ NoFields.cut = {}
  BY DEF NoFields
<1> QED
  BY <1>1, <1>5, <1>6, <1>7 DEF CutField

(* The mask. *)
LEMMA MaskCuts ==
  ASSUME NEW t, Len(t) \in Nat, NEW r, CutField(t, r)
  PROVE  CutField(t, ParseMask(t, r))
<1> DEFINE net == BlackList_parseNetMask(t, r.pos)
<1>1. net.end \in Nat /\ \A k \in net.cut : Cut(t, k)
  BY NetMaskCuts DEF CutField
<1>2. ParseMask(t, r) =
        IF r.sep # "/" THEN r
        ELSE IF Star(r) THEN [r EXCEPT !.ok = FALSE]
        ELSE [r EXCEPT !.pos = net.end, !.mask = net.mask, !.ok = net.ok,
                       !.cut = @ \cup net.cut]
  BY DEF ParseMask
<1> HIDE DEF net
<1> QED
  BY <1>1, <1>2 DEF CutField

(* The MAC of the packet. *)
LEMMA AtMacCuts ==
  ASSUME NEW t, Len(t) \in Nat, NEW r, CutField(t, r)
  PROVE  CutField(t, ParseAtMac(t, r))
<1> DEFINE has == r.sep = "@" \/ At(t, r.pos) = "@"
           i == IF r.sep = "@" THEN r.pos ELSE r.pos + 1
           not == At(t, i) = "!"
           s == IF not THEN i + 1 ELSE i
           p == Find(t, s, {" ", NUL})
           f == SubSeq(t, s, p - 1)
<1>1. i \in Nat
  BY DEF CutField
<1> HIDE DEF i
<1>2. s \in Nat
  BY <1>1
<1> HIDE DEF s
<1>3. {" ", NUL} \subseteq Separator
  BY DEF Separator
<1>4. Cut(t, p) /\ Past(t, p) \in Nat
  BY <1>2, <1>3, FindCut
<1>5. ParseAtMac(t, r) =
        IF ~has THEN [r EXCEPT !.ok = ~Star(r)]
        ELSE [r EXCEPT !.pos = Past(t, p), !.cut = @ \cup {p}, !.atmac = f,
                       !.at = IF not THEN "NEGATIVE" ELSE "POSITIVE",
                       !.ok = IsMac(f) /\ ~(Star(r) /\ not)]
  BY DEF ParseAtMac, i, s
<1> HIDE DEF p, f, has, not
<1> QED
  BY <1>4, <1>5 DEF CutField

(* The MAC of the answer. *)
LEMMA MacCuts ==
  ASSUME NEW t, Len(t) \in Nat, NEW r, CutField(t, r)
  PROVE  CutField(t, ParseMac(t, r))
<1> DEFINE s == Skip(t, r.pos, {" "})
           p == Find(t, s, {"#", " ", NUL})
           f == SubSeq(t, s, p - 1)
<1>1. s \in Nat
  BY FindHits DEF CutField, Skip
<1> HIDE DEF s
<1>2. {"#", " ", NUL} \subseteq Separator
  BY DEF Separator
<1>3. Cut(t, p)
  BY <1>1, <1>2, FindCut
<1>4. ParseMac(t, r) =
        IF s = End(t) \/ At(t, s) = "#" THEN r
        ELSE [r EXCEPT !.cut = @ \cup {p}, !.mac = f, !.ok = ~r.neg /\ IsMac(f)]
  BY DEF ParseMac, s
<1> HIDE DEF p, f
<1> QED
  BY <1>3, <1>4 DEF CutField

(* And what parseLine overwrites as a whole. *)
LEMMA LineCuts ==
  ASSUME NEW t, Len(t) \in Nat, NEW r \in BlackList_parseLine(t)
  PROVE  \A k \in r.cut : Cut(t, k)
<1>1. CutField(t, ParseHost(t, NoFields))
  BY HostCuts
<1>2. CutField(t, r)
  BY <1>1, MaskCuts, AtMacCuts, MacCuts DEF BlackList_parseLine
<1> QED
  BY <1>2 DEF CutField

-----------------------------------------------------------------------------
(* The range of a text, if it has one, is refused. *)
RangeBad(s) ==
  /\ HasRange(s) /\ "-" \in In(s, Open(s), Close(s))
  /\ Refused(RangeOf(s, Open(s) + 1, Close(s)))

(* That too depends on what is behind a first part without braces only. *)
LEMMA RangeBadBehind ==
  ASSUME NEW x \in Text, NEW s \in Text, NoBrace(x)
  PROVE  RangeBad(x \o s) <=> RangeBad(s)
<1>1. PICK t \in Text, L \in Nat : t = x \o s /\ L = Len(x)
  BY Behind
<1>2. PICK m \in Nat : m = Len(s)
  BY DEF Text
<1>3. /\ Open(t) = L + Open(s) /\ Close(t) = L + Close(s) /\ Stop(t) = L + Stop(s)
      /\ Open(s) \in 1 .. m + 1 /\ Close(s) \in 1 .. m + 1 /\ Stop(s) \in 1 .. m + 1
  BY <1>1, <1>2, BracesBehind
<1>4. PICK o \in 1 .. m + 1, c \in 1 .. m + 1, e \in 1 .. m + 1 :
        /\ o = Open(s) /\ c = Close(s) /\ e = Stop(s)
        /\ Open(t) = L + o /\ Close(t) = L + c
  BY <1>3
<1>5. HasRange(t) <=> HasRange(s)
  BY <1>1, ScanBehind
<1>6. CASE ~HasRange(s)
  BY <1>1, <1>5, <1>6 DEF RangeBad
<1>7. CASE HasRange(s)
  <2>1. c < e
    BY <1>4, <1>7 DEF HasRange
  <2>2. c <= m
    BY <2>1
  <2>3. In(t, L + o, L + c) = In(s, o, c)
    <3>1. o \in Nat \ {0} /\ c \in Int /\ c <= Len(s)
      BY <1>2, <2>2
    <3>2. In(x \o s, Len(x) + o, Len(x) + c) = In(s, o, c)
      BY <3>1, InBehind
    <3> QED BY <1>1, <3>2, Zenon
  <2>4. PICK i \in Nat \ {0} : i = o + 1 /\ L + o + 1 = L + i
    <3>1. o + 1 \in Nat \ {0} /\ L + o + 1 = L + (o + 1)
      OBVIOUS
    <3> QED BY <3>1
  <2>5. Refused(RangeOf(t, L + i, L + c)) <=> Refused(RangeOf(s, i, c))
    <3>1. c \in Int
      OBVIOUS
    <3>2. Refused(RangeOf(x \o s, Len(x) + i, Len(x) + c)) <=> Refused(RangeOf(s, i, c))
      BY <3>1, RangeBehind
    <3> QED BY <1>1, <3>2, Zenon
  <2>6. PICK Lo, Lc, Li : Lo = L + o /\ Lc = L + c /\ Li = L + i
    OBVIOUS
  <2>7. Lo = Open(t) /\ Lc = Close(t)
    BY <1>4, <2>6, Zenon
  <2>8. Li = Lo + 1
    BY <2>4, <2>6
  <2>9. RangeBad(t) <=> HasRange(t) /\ "-" \in In(t, Lo, Lc) /\ Refused(RangeOf(t, Li, Lc))
    BY <2>7, <2>8, Zenon DEF RangeBad
  <2>10. RangeBad(s) <=> HasRange(s) /\ "-" \in In(s, o, c) /\ Refused(RangeOf(s, i, c))
    BY <1>4, <2>4, Zenon DEF RangeBad
  <2>11. In(t, Lo, Lc) = In(s, o, c)
    BY <2>3, <2>6, Zenon
  <2>12. Refused(RangeOf(t, Li, Lc)) <=> Refused(RangeOf(s, i, c))
    BY <2>5, <2>6, Zenon
  <2> QED BY <1>1, <1>5, <2>9, <2>10, <2>11, <2>12, Zenon
<1> QED
  BY <1>6, <1>7

(* The beginning of a text. *)
LEMMA Beginning ==
  ASSUME NEW t \in Text, NEW n \in 0 .. Len(t)
  PROVE  /\ SubSeq(t, 1, n) \in Text /\ Len(SubSeq(t, 1, n)) = n
         /\ \A i \in 1 .. n : SubSeq(t, 1, n)[i] = t[i]
         /\ In(SubSeq(t, 1, n), 1, Len(SubSeq(t, 1, n))) = In(t, 1, n)
<1>1. Len(t) \in Nat /\ \A i \in 1 .. Len(t) : t[i] \in Char
  BY DEF Text
<1>2. 1 \in Int /\ n \in Int /\ n \in Nat /\ \A i \in 1 .. n : t[i] \in Char
  BY <1>1
<1>3. /\ SubSeq(t, 1, n) \in Seq(Char)
      /\ Len(SubSeq(t, 1, n)) = IF 1 <= n THEN n - 1 + 1 ELSE 0
      /\ \A i \in 1 .. n - 1 + 1 : SubSeq(t, 1, n)[i] = t[1 + i - 1]
  BY <1>2, SubSeqProperties
<1>4. PICK u : u = SubSeq(t, 1, n)
  OBVIOUS
<1>5. Len(u) = n
  BY <1>2, <1>3, <1>4
<1>6. ASSUME NEW i \in 1 .. n PROVE u[i] = t[i]
  <2>1. i \in 1 .. n - 1 + 1 /\ 1 + i - 1 = i
    BY <1>2
  <2> QED BY <1>3, <1>4, <2>1
<1>7. In(u, 1, n) = In(t, 1, n)
  BY <1>6 DEF In
<1> QED
  BY <1>3, <1>4, <1>5, <1>6, <1>7 DEF Text

(* What is left of a line behind the part that the loops have replaced: the *)
(* marks in that part, and the text itself.                                 *)
Bad(h) == ScanBad(h.marks, h.rest) \/ RangeBad(h.rest)

Following(h) ==
  [marks |-> h.marks \cup MarksOf(SubSeq(h.rest, 1, Open(h.rest) - 1)),
   rest  |-> SubSeq(h.rest, Close(h.rest) + 1, Len(h.rest))]

Around(f) == [marks |-> MarksOf(f.prefix), rest |-> f.post]

(* A new frame has a part without braces, and goes on behind the '}'. *)
LEMMA FrameFollows ==
  ASSUME NEW x \in Text, NEW s \in Text, NoBrace(x),
         HasRange(x \o s), ~ScanError(x \o s), NEW list, NEW next, NEW last
  PROVE  /\ NoBrace(Frame(x \o s, list, next, last).prefix)
         /\ Around(Frame(x \o s, list, next, last))
              = Following([marks |-> MarksOf(x), rest |-> s])
<1>1. PICK t \in Text, L \in Nat : t = x \o s /\ L = Len(x)
  BY Behind
<1>2. PICK m \in Nat : m = Len(s) /\ Len(t) = L + m
  BY <1>1, Behind
<1>3. /\ Open(t) = L + Open(s) /\ Close(t) = L + Close(s)
      /\ Open(s) \in 1 .. m + 1 /\ Close(s) \in 1 .. m + 1
  BY <1>1, <1>2, BracesBehind
<1>4. PICK o \in 1 .. m + 1, c \in 1 .. m + 1 :
        o = Open(s) /\ c = Close(s) /\ Open(t) = L + o /\ Close(t) = L + c
  BY <1>3
<1>5. L + o < L + c /\ L + c <= L + m
  <2>1. Open(t) < Close(t) /\ Close(t) \in 1 .. Len(t)
    BY <1>1, BracesInOrder
  <2> QED BY <1>2, <1>4, <2>1
<1>6. PICK n \in 0 .. m, q \in 0 .. L + m : n = o - 1 /\ q = L + n /\ q = L + o - 1
  <2>1. o - 1 \in 0 .. m /\ L + (o - 1) \in 0 .. L + m /\ L + (o - 1) = L + o - 1
    BY <1>5
  <2> QED BY <2>1
<1>7. PICK i \in Nat \ {0} : i = c + 1 /\ L + c + 1 = L + i
  <2>1. c + 1 \in Nat \ {0} /\ L + c + 1 = L + (c + 1)
    OBVIOUS
  <2> QED BY <2>1
<1>8. PICK f : f = Frame(t, list, next, last)
  OBVIOUS
<1>9. f.prefix = SubSeq(t, 1, q)
  <2>1. PICK Lo : Lo = L + o
    OBVIOUS
  <2>2. q = Lo - 1 /\ Open(t) = Lo
    BY <1>4, <1>6, <2>1
  <2> QED BY <1>8, <2>2 DEF Frame
<1>10. /\ f.prefix \in Text /\ Len(f.prefix) = q
       /\ \A j \in 1 .. q : f.prefix[j] = t[j]
       /\ In(f.prefix, 1, Len(f.prefix)) = In(t, 1, q)
  <2>1. q \in 0 .. Len(t)
    BY <1>2
  <2> QED BY <1>9, <2>1, Beginning
<1>11. NoBrace(f.prefix)
  <2>1. 1 \in Nat /\ Len(t) \in Nat /\ 1 <= End(t)
    BY <1>2 DEF End
  <2>2. First(t, 1, {"{", "#"}, Open(t)) /\ First(t, 1, {"}", "#"}, Close(t))
    BY <2>1, FindIs DEF Open, Close
  <2>3. /\ \A j \in 1 .. Open(t) - 1 : t[j] \notin {"{", "#"}
        /\ \A j \in 1 .. Close(t) - 1 : t[j] \notin {"}", "#"}
    BY <2>2 DEF First
  <2>4. ASSUME NEW j \in 1 .. q PROVE t[j] \notin {"{", "}", "#"}
    <3>1. j \in 1 .. Open(t) - 1 /\ j \in 1 .. Close(t) - 1
      <4>1. PICK a \in Int, b \in Int : a = L + o /\ b = L + c
        OBVIOUS
      <4>2. j \in 1 .. a - 1 /\ j \in 1 .. b - 1
        BY <1>5, <1>6, <4>1
      <4>3. a = Open(t) /\ b = Close(t)
        BY <1>4, <4>1
      <4> QED BY <4>2, <4>3
    <3>2. t[j] \notin {"{", "#"} /\ t[j] \notin {"}", "#"}
      BY <2>3, <3>1
    <3> QED BY <3>2
  <2> QED BY <1>10, <2>4 DEF NoBrace
<1>12. PICK u : u = SubSeq(s, 1, n)
  OBVIOUS
<1>13. In(u, 1, Len(u)) = In(s, 1, n)
  <2>1. n \in 0 .. Len(s)
    BY <1>2
  <2> QED BY <1>12, <2>1, Beginning
<1>14. In(t, 1, q) = In(x, 1, Len(x)) \cup In(s, 1, n)
  <2>1. n \in 0 .. Len(s)
    BY <1>2
  <2>2. In(x \o s, 1, Len(x) + n) = In(x, 1, Len(x)) \cup In(s, 1, n)
    BY <2>1, InThrough
  <2> QED BY <1>1, <1>6, <2>2, Zenon
<1>15. MarksOf(f.prefix) = MarksOf(x) \cup MarksOf(u)
  <2>1. PICK A, B : A = In(x, 1, Len(x)) /\ B = In(u, 1, Len(u))
    OBVIOUS
  <2>2. In(f.prefix, 1, Len(f.prefix)) = A \cup B
    BY <1>10, <1>13, <1>14, <2>1, Zenon
  <2>3. {",", "-"} \cap (A \cup B) = ({",", "-"} \cap A) \cup ({",", "-"} \cap B)
    OBVIOUS
  <2> QED BY <2>1, <2>2, <2>3, Zenon DEF MarksOf
<1>16. f.post = SubSeq(s, i, m)
  <2>1. m \in Int /\ m <= Len(s)
    BY <1>2
  <2>2. SubSeq(x \o s, Len(x) + i, Len(x) + m) = SubSeq(s, i, m)
    BY <2>1, SubSeqBehind
  <2>3. f.post = SubSeq(t, Close(t) + 1, Len(t))
    BY <1>8 DEF Frame
  <2>4. PICK a, z : a = L + i /\ z = L + m
    OBVIOUS
  <2>5. a = Close(t) + 1 /\ z = Len(t)
    BY <1>2, <1>4, <1>7, <2>4
  <2>6. SubSeq(t, a, z) = SubSeq(s, i, m)
    BY <1>1, <2>2, <2>4, Zenon
  <2> QED BY <2>3, <2>5, <2>6, Zenon
<1>17. PICK h : h = [marks |-> MarksOf(x), rest |-> s]
  OBVIOUS
<1>18. h.marks = MarksOf(x) /\ h.rest = s
  BY <1>17
<1>19. Following(h) = [marks |-> MarksOf(x) \cup MarksOf(u), rest |-> SubSeq(s, i, m)]
  BY <1>2, <1>4, <1>6, <1>7, <1>12, <1>18, Zenon DEF Following
<1>20. Around(f) = Following(h)
  BY <1>15, <1>16, <1>19, Zenon DEF Around
<1> QED
  BY <1>1, <1>8, <1>11, <1>17, <1>20, Zenon

(* Digits are not marks. *)
LEMMA DigitsPlain ==
  \A d \in Digit : d \notin {"{", "}", "#"} /\ d \notin {",", "-"}
BY LineAssumption DEF Sign

(* In a list there is no '-', and only digits besides the commas. *)
Commas(t) == "," \in In(t, Open(t), Close(t))

ListText(l) == \A j \in 1 .. Len(l) : l[j] \in Digit \cup {","}

(* The scan sees to it. *)
LEMMA ListPlain ==
  ASSUME NEW t \in Text, HasRange(t), ~ScanError(t), Commas(t)
  PROVE  /\ "-" \notin In(t, Open(t), Close(t))
         /\ ListText(Append(SubSeq(t, Open(t) + 1, Close(t) - 1), ","))
<1>1. PICK m \in Nat : m = Len(t)
  BY DEF Text
<1>2. Open(t) \in 1 .. m /\ Close(t) \in 1 .. m /\ Open(t) < Close(t)
  BY <1>1, BracesInOrder
<1>3. PICK o \in 1 .. m, c \in 1 .. m : o = Open(t) /\ c = Close(t) /\ o < c
  BY <1>2
<1>4. t[o] \in {"{", "#"} /\ t[c] \in {"}", "#"}
  <2>1. 1 \in Nat /\ Len(t) \in Nat /\ 1 <= End(t)
    BY <1>1 DEF End
  <2>2. First(t, 1, {"{", "#"}, o) /\ First(t, 1, {"}", "#"}, c)
    BY <1>3, <2>1, FindIs DEF Open, Close
  <2>3. o <= Len(t) /\ c <= Len(t)
    BY <1>1
  <2> QED BY <2>2, <2>3 DEF First
<1>5. PICK I : I = In(t, o + 1, c - 1)
  OBVIOUS
<1>6. I \subseteq Digit \cup {",", "-"} /\ ~Mixed(I)
  BY <1>3, <1>5, Zenon DEF ScanError
<1>n. \A j \in o .. c : j # o /\ j # c => j \in o + 1 .. c - 1
  OBVIOUS
<1>7. ASSUME NEW z \in {",", "-"}, z \in In(t, o, c) PROVE z \in I
  <2>1. PICK j \in o .. c : z = t[j]
    BY <1>7 DEF In
  <2>2. j # o /\ j # c
    BY <1>4, <1>7, <2>1
  <2>3. j \in o + 1 .. c - 1
    BY <1>n, <2>2, Zenon
  <2> QED BY <1>5, <2>1, <2>3 DEF In
<1>8. "-" \notin I
  <2>1. "," \in In(t, o, c)
    BY <1>3, Zenon DEF Commas
  <2>2. "," \in I
    BY <1>7, <2>1
  <2> QED BY <1>6, <2>2 DEF Mixed
<1>9. "-" \notin In(t, o, c)
  BY <1>7, <1>8
<1>10. PICK a \in Int, b \in Int, d \in Nat :
         a = o + 1 /\ b = c - 1 /\ d = c - o - 1 /\ d = IF a <= b THEN b - a + 1 ELSE 0
  <2>1. /\ o + 1 \in Int /\ c - 1 \in Int /\ c - o - 1 \in Nat
        /\ c - o - 1 = IF o + 1 <= c - 1 THEN c - 1 - (o + 1) + 1 ELSE 0
    BY <1>3
  <2> QED BY <2>1
<1>11. ASSUME NEW j \in a .. b PROVE t[j] \in Digit \cup {","}
  <2>1. t[j] \in I
    BY <1>5, <1>10 DEF In
  <2> QED BY <1>6, <1>8, <2>1
<1>12. SubSeq(t, a, b) \in Seq(Digit \cup {","})
  BY <1>11, SubSeqProperties
<1>13. PICK list : list = Append(SubSeq(t, a, b), ",")
  OBVIOUS
<1>14. list \in Seq(Digit \cup {","})
  BY <1>12, <1>13, AppendProperties
<1>15. ListText(list)
  BY <1>14, ElementOfSeq DEF ListText
<1> QED
  BY <1>3, <1>9, <1>10, <1>13, <1>15, Zenon

(* An item of digits behind the first part adds no brace and no mark. *)
LEMMA ItemPlain ==
  ASSUME NEW x \in Text, NEW d \in Seq(Digit), NoBrace(x)
  PROVE  x \o d \in Text /\ NoBrace(x \o d) /\ MarksOf(x \o d) = MarksOf(x)
<1>1. d \in Text
  BY SeqMonotonic DEF Text, Char
<1>2. /\ x \o d \in Text /\ Len(x \o d) = Len(x) + Len(d)
      /\ Len(x) \in Nat /\ Len(d) \in Nat
      /\ \A i \in 1 .. Len(x) : (x \o d)[i] = x[i]
      /\ \A i \in 1 .. Len(d) : (x \o d)[Len(x) + i] = d[i]
  BY <1>1, Behind
<1>3. NoBrace(x \o d)
  <2>1. PICK a \in Nat, b \in Nat : a = Len(x) /\ b = Len(d)
    BY <1>2
  <2>2. ASSUME NEW j \in 1 .. a + b PROVE (x \o d)[j] \notin {"{", "}", "#"}
    <3>1. CASE j <= a
      <4>1. j \in 1 .. Len(x)
        BY <2>1, <3>1
      <4> QED BY <1>2, <4>1 DEF NoBrace
    <3>2. CASE ~ (j <= a)
      <4>1. PICK i \in 1 .. b : j = a + i
        <5>1. j - a \in 1 .. b /\ j = a + (j - a)
          BY <3>2
        <5> QED BY <5>1
      <4>2. (x \o d)[j] = d[i] /\ d[i] \in Digit
        BY <1>2, <2>1, <4>1
      <4> QED BY <4>2, DigitsPlain
    <3> QED BY <3>1, <3>2
  <2> QED BY <1>2, <2>1, <2>2 DEF NoBrace
<1>4. MarksOf(x \o d) = MarksOf(x)
  <2>1. PICK b \in 0 .. Len(d) : b = Len(d)
    BY <1>2
  <2>2. In(x \o d, 1, Len(x) + b) = In(x, 1, Len(x)) \cup In(d, 1, b)
    BY <1>1, InThrough
  <2>3. \A j \in 1 .. b : d[j] \in Digit
    BY <2>1
  <2>4. {",", "-"} \cap In(d, 1, b) = {}
    BY <2>3, DigitsPlain DEF In
  <2>5. PICK A, B : A = In(x, 1, Len(x)) /\ B = In(d, 1, b)
    OBVIOUS
  <2>6. {",", "-"} \cap (A \cup B) = {",", "-"} \cap A
    BY <2>4, <2>5
  <2>7. In(x \o d, 1, Len(x \o d)) = A \cup B
    BY <1>2, <2>1, <2>2, <2>5, Zenon
  <2> QED BY <2>5, <2>6, <2>7, Zenon DEF MarksOf
<1> QED
  BY <1>2, <1>3, <1>4

(* The item of a list. *)
LEMMA ListItem ==
  ASSUME NEW l \in Text, ListText(l)
  PROVE  /\ SubSeq(l, 1, Find(l, 1, {","}) - 1) \in Seq(Digit)
         /\ ListText(SubSeq(l, Find(l, 1, {","}) + 1, Len(l)))
<1>0. PICK p : p = Find(l, 1, {","})
  OBVIOUS
<1>1. PICK m \in Nat : m = Len(l) /\ End(l) = m + 1
  BY DEF Text, End
<1>2. First(l, 1, {","}, p)
  <2>1. 1 \in Nat /\ Len(l) \in Nat /\ 1 <= End(l)
    BY <1>1
  <2> QED BY <1>0, <2>1, FindIs
<1>3. p \in 1 .. m + 1 /\ \A j \in 1 .. p - 1 : l[j] \notin {","}
  BY <1>1, <1>2 DEF First
<1>4. 1 \in Int /\ p - 1 \in Int /\ p + 1 \in Int /\ m \in Int
  <2>1. p \in 1 .. m + 1
    BY <1>3
  <2> QED BY <2>1
<1>5. SubSeq(l, 1, p - 1) \in Seq(Digit)
  <2>1. ASSUME NEW j \in 1 .. p - 1 PROVE l[j] \in Digit
    <3>1. p \in 1 .. m + 1
      BY <1>3
    <3>2. j \in 1 .. m
      BY <3>1
    <3> QED BY <1>1, <1>3, <3>2 DEF ListText
  <2> QED BY <1>4, <2>1, SubSeqProperties
<1>6. SubSeq(l, p + 1, m) \in Seq(Digit \cup {","})
  <2>1. ASSUME NEW j \in p + 1 .. m PROVE l[j] \in Digit \cup {","}
    <3>1. p \in 1 .. m + 1
      BY <1>3
    <3>2. j \in 1 .. m
      BY <3>1
    <3> QED BY <1>1, <3>2 DEF ListText
  <2> QED BY <1>4, <2>1, SubSeqProperties
<1>7. ListText(SubSeq(l, p + 1, m))
  BY <1>6, ElementOfSeq DEF ListText
<1> QED
  BY <1>0, <1>1, <1>5, <1>7, Zenon

(* A buffer that parseLine has written into has the same marks. *)
LEMMA OverwrittenPlain ==
  ASSUME NEW t \in Text, NEW r \in BlackList_parseLine(t), NEW x \in Text,
         NoBrace(x), Len(x) <= Len(t), \A i \in 1 .. Len(x) : t[i] = x[i]
  PROVE  LET y == SubSeq(Overwritten(t, r), 1, Len(x))
         IN  NoBrace(y) /\ MarksOf(y) = MarksOf(x)
<1>1. PICK n \in 0 .. Len(t) : n = Len(x)
  BY DEF Text
<1>2. PICK y : y = SubSeq(Overwritten(t, r), 1, n)
  OBVIOUS
<1>3. Len(y) = n /\ \A i \in 1 .. n : y[i] = IF i \in r.cut THEN NUL ELSE t[i]
  BY <1>2, OverwrittenText
<1>4. \A i \in 1 .. n : x[i] \notin {"{", "}", "#"} /\ t[i] = x[i]
  BY <1>1 DEF NoBrace
<1>5. ASSUME NEW i \in 1 .. n
      PROVE  y[i] = x[i] \/ (y[i] = NUL /\ x[i] \in Separator)
  <2>1. CASE i \in r.cut
    <3>1. Cut(t, i)
      <4>1. Len(t) \in Nat
        BY DEF Text
      <4> QED BY <2>1, <4>1, LineCuts
    <3>2. i <= Len(t)
      BY <1>1 DEF Text
    <3>3. t[i] \in Separator
      BY <3>1, <3>2 DEF Cut
    <3> QED BY <1>3, <1>4, <2>1, <3>3
  <2>2. CASE i \notin r.cut
    BY <1>3, <1>4, <2>2
  <2> QED BY <2>1, <2>2
<1>6. NoBrace(y)
  <2>1. ASSUME NEW i \in 1 .. n PROVE y[i] \notin {"{", "}", "#"}
    BY <1>4, <1>5 DEF NUL
  <2> QED BY <1>3, <2>1 DEF NoBrace
<1>7. MarksOf(y) = MarksOf(x)
  <2>1. ASSUME NEW z \in {",", "-"}, NEW i \in 1 .. n PROVE z = y[i] <=> z = x[i]
    BY <1>5 DEF NUL, Separator
  <2>2. ASSUME NEW z \in {",", "-"} PROVE z \in In(y, 1, n) <=> z \in In(x, 1, n)
    BY <2>1 DEF In
  <2>3. {",", "-"} \cap In(y, 1, n) = {",", "-"} \cap In(x, 1, n)
    BY <2>2
  <2> QED BY <1>1, <1>3, <2>3, Zenon DEF MarksOf
<1> QED
  BY <1>1, <1>2, <1>6, <1>7

-----------------------------------------------------------------------------
(* What is left of the line at each level of the recursion.  It depends on  *)
(* the line alone, not on the items the loops are at: level by level, it is *)
(* what follows the range of the level before, which has passed the scan.   *)
Here(i) == IF i = 0 THEN [marks |-> {}, rest |-> line] ELSE Around(stack[i])

Level(i) ==
  /\ ~Bad(Here(i - 1)) /\ HasRange(Here(i - 1).rest)
  /\ Here(i) = Following(Here(i - 1))

Plain(f) == NoBrace(f.prefix) /\ ListText(f.list)

Levels == \A i \in 1 .. Len(stack) : Level(i) /\ Plain(stack[i])

Argument ==
  state = "call" =>
    /\ \E x \in Text : /\ NoBrace(x) /\ MarksOf(x) = Here(Len(stack)).marks
                       /\ arg = x \o Here(Len(stack)).rest
    /\ stack # <<>> => \A i \in 1 .. Len(Top.prefix) : arg[i] = Top.prefix[i]

(* The argument of a call is refused, or has a range, if what is left at    *)
(* its level is, or has; and the frame it gets is the level that follows.   *)
LEMMA CallIsLevel ==
  ASSUME Frames, Argument, state = "call", NEW n, n = Len(stack)
  PROVE  /\ Bad(Here(n)) <=> ScanError(arg) \/ RangeBad(arg)
         /\ HasRange(Here(n).rest) <=> HasRange(arg)
         /\ \A list, next, last : HasRange(arg) /\ ~ScanError(arg) =>
              /\ NoBrace(Frame(arg, list, next, last).prefix)
              /\ Around(Frame(arg, list, next, last)) = Following(Here(n))
<1>1. PICK h : h = Here(n)
  OBVIOUS
<1>2. PICK x \in Text : NoBrace(x) /\ MarksOf(x) = h.marks /\ arg = x \o h.rest
  BY <1>1 DEF Argument
<1>3. h.rest \in Text /\ h = [marks |-> h.marks, rest |-> h.rest]
  <2>1. CASE n = 0
    <3>1. h = [marks |-> {}, rest |-> line]
      BY <1>1, <2>1 DEF Here
    <3> QED BY <3>1 DEF Frames
  <2>2. CASE n # 0
    <3>1. stack \in Seq(FrameRec) /\ Len(stack) \in Nat
      BY DEF Frames, Stacked
    <3>2. n \in 1 .. Len(stack)
      BY <2>2, <3>1
    <3>3. stack[n] \in FrameRec
      BY <3>1, <3>2, ElementOfSeq
    <3>4. h = [marks |-> MarksOf(stack[n].prefix), rest |-> stack[n].post]
      BY <1>1, <2>2 DEF Here, Around
    <3> QED BY <3>3, <3>4 DEF FrameRec
  <2> QED BY <2>1, <2>2
<1>4. PICK s \in Text : s = h.rest
  BY <1>3
<1>5. h = [marks |-> MarksOf(x), rest |-> s]
  BY <1>2, <1>3, <1>4, Zenon
<1>6. arg = x \o s /\ h.marks = MarksOf(x)
  BY <1>2, <1>4, Zenon
<1>7. /\ ScanError(x \o s) <=> ScanBad(MarksOf(x), s)
      /\ HasRange(x \o s) <=> HasRange(s)
      /\ RangeBad(x \o s) <=> RangeBad(s)
  BY <1>2, ScanBehind, RangeBadBehind
<1>8. Bad(h) <=> ScanError(arg) \/ RangeBad(arg)
  BY <1>4, <1>6, <1>7, Zenon DEF Bad
<1>9. HasRange(h.rest) <=> HasRange(arg)
  BY <1>4, <1>6, <1>7, Zenon
<1>10. ASSUME NEW list, NEW next, NEW last, HasRange(arg), ~ScanError(arg)
       PROVE  /\ NoBrace(Frame(arg, list, next, last).prefix)
              /\ Around(Frame(arg, list, next, last)) = Following(h)
  <2>1. HasRange(x \o s) /\ ~ScanError(x \o s)
    BY <1>6, <1>10
  <2>2. /\ NoBrace(Frame(x \o s, list, next, last).prefix)
        /\ Around(Frame(x \o s, list, next, last))
             = Following([marks |-> MarksOf(x), rest |-> s])
    BY <1>2, <2>1, FrameFollows
  <2> QED BY <1>5, <1>6, <2>2, Zenon
<1> QED
  BY <1>1, <1>8, <1>9, <1>10, Zenon

(* Frames that keep their surroundings keep the levels. *)
LEMMA LevelsKept ==
  ASSUME Levels, line' = line, NEW n \in Nat, n = Len(stack'), n <= Len(stack),
         Len(stack) \in Nat,
         \A i \in 1 .. n : Around(stack'[i]) = Around(stack[i]) /\ Plain(stack'[i])
  PROVE  Levels' /\ \A i \in 0 .. n : Here(i)' = Here(i)
<1>1. ASSUME NEW i \in 0 .. n PROVE Here(i)' = Here(i)
  <2>1. CASE i = 0
    BY <2>1 DEF Here
  <2>2. CASE i # 0
    <3>1. i \in 1 .. n
      BY <2>2
    <3>2. Here(i) = Around(stack[i]) /\ Here(i)' = Around(stack'[i])
      BY <2>2 DEF Here, Around
    <3> QED BY <3>1, <3>2
  <2> QED BY <2>1, <2>2
<1>2. ASSUME NEW i \in 1 .. n PROVE Level(i)' /\ Plain(stack'[i])
  <2>1. i \in 1 .. Len(stack) /\ i \in 0 .. n /\ i - 1 \in 0 .. n
    OBVIOUS
  <2>2. Level(i)
    BY <2>1 DEF Levels
  <2>3. Here(i)' = Here(i) /\ Here(i - 1)' = Here(i - 1)
    BY <1>1, <2>1
  <2>4. Level(i)'
    BY <2>2, <2>3 DEF Level
  <2> QED BY <2>4
<1>3. Levels'
  BY <1>2 DEF Levels, Plain
<1> QED
  BY <1>1, <1>3

(* Another innermost frame. *)
LEMMA TopLevels ==
  ASSUME Stacked, Levels, stack # <<>>, NEW f, Around(f) = Around(Top), Plain(f),
         stack' = [stack EXCEPT ![Len(stack)] = f], line' = line
  PROVE  /\ Levels' /\ Len(stack') = Len(stack) /\ Top' = f
         /\ Here(Len(stack))' = Here(Len(stack)) /\ Here(Len(stack)) = Around(Top)
<1>1. /\ stack \in Seq(FrameRec) /\ Len(stack) \in Nat /\ Len(stack) \in 1 .. Len(stack)
      /\ DOMAIN stack = 1 .. Len(stack)
  BY DEF Stacked
<1>2. PICK n \in Nat : n = Len(stack) /\ n \in 1 .. n
  BY <1>1
<1>3. /\ DOMAIN stack' = 1 .. n
      /\ \A j \in 1 .. n : stack'[j] = IF j = n THEN f ELSE stack[j]
  BY <1>1, <1>2
<1>4. Len(stack') = n
  <2>1. stack \in Seq({stack[j] : j \in 1 .. n} \cup {f})
    BY <1>1, <1>2
  <2>2. stack' \in Seq({stack[j] : j \in 1 .. n} \cup {f})
    BY <1>2, <2>1, ExceptSeq
  <2> QED BY <1>2, <1>3, <2>2
<1>5. ASSUME NEW i \in 1 .. n
      PROVE  Around(stack'[i]) = Around(stack[i]) /\ Plain(stack'[i])
  <2>1. CASE i = n
    BY <1>2, <1>3, <2>1 DEF Top
  <2>2. CASE i # n
    BY <1>2, <1>3, <2>2 DEF Levels
  <2> QED BY <2>1, <2>2
<1>6. Levels' /\ \A i \in 0 .. n : Here(i)' = Here(i)
  <2>1. n <= Len(stack) /\ Len(stack) \in Nat /\ n = Len(stack')
    BY <1>2, <1>4
  <2> QED BY <1>5, <2>1, LevelsKept
<1>7. Top' = f
  BY <1>2, <1>3, <1>4 DEF Top
<1>8. Here(n) = Around(Top)
  BY <1>2 DEF Here, Top
<1>9. Here(n)' = Here(n)
  BY <1>2, <1>6
<1> QED
  BY <1>2, <1>4, <1>6, <1>7, <1>8, <1>9

(* A new frame. *)
LEMMA PushLevels ==
  ASSUME Stacked, Levels, NEW f, Push(f), Plain(f), NEW n \in Nat, n = Len(stack),
         ~Bad(Here(n)), HasRange(Here(n).rest), Around(f) = Following(Here(n))
  PROVE  Levels'
<1>1. /\ line' = line /\ Len(stack') = n + 1
      /\ \A i \in 1 .. n : stack'[i] = stack[i]
      /\ stack'[n + 1] = f
  <2>1. stack \in Seq(FrameRec \cup {f})
    BY SeqMonotonic DEF Stacked
  <2> QED BY <2>1, AppendProperties DEF Push
<1>2. ASSUME NEW i \in 0 .. n PROVE Here(i)' = Here(i)
  <2>1. CASE i = 0
    BY <1>1, <2>1 DEF Here
  <2>2. CASE i # 0
    <3>1. i \in 1 .. n
      BY <2>2
    <3> QED BY <1>1, <2>2, <3>1 DEF Here
  <2> QED BY <2>1, <2>2
<1>3. ASSUME NEW i \in 1 .. n PROVE Level(i)' /\ Plain(stack'[i])
  <2>1. i \in 0 .. n /\ i - 1 \in 0 .. n
    OBVIOUS
  <2>2. Here(i)' = Here(i) /\ Here(i - 1)' = Here(i - 1)
    BY <1>2, <2>1
  <2>3. Level(i) /\ Plain(stack[i])
    BY DEF Levels
  <2>4. Level(i)'
    BY <2>2, <2>3 DEF Level
  <2> QED BY <1>1, <2>3, <2>4
<1>4. Level(n + 1)' /\ Plain(stack'[n + 1])
  <2>1. Here(n + 1)' = Around(f)
    BY <1>1 DEF Here
  <2>2. Here(n)' = Here(n) /\ n + 1 - 1 = n
    BY <1>2
  <2>3. Here(n + 1 - 1)' = Here(n)
    BY <2>2
  <2>4. Level(n + 1)'
    BY <2>1, <2>3 DEF Level
  <2> QED BY <1>1, <2>4
<1>5. ASSUME NEW i \in 1 .. n + 1 PROVE Level(i)' /\ Plain(stack'[i])
  <2>1. i \in 1 .. n \/ i = n + 1
    OBVIOUS
  <2> QED BY <1>3, <1>4, <2>1
<1> QED
  BY <1>1, <1>5 DEF Levels, Plain

(* A call that is made, with an item of digits. *)
LEMMA CallLevels ==
  ASSUME Frames, Levels, state = "iterate", NEW item \in Seq(Digit),
         NEW f, Around(f) = Around(Top), Plain(f), f.prefix = Top.prefix,
         stack' = [stack EXCEPT ![Len(stack)] = f],
         arg' = Top.prefix \o item \o Top.post, line' = line
  PROVE  Levels' /\ Argument'
<1>1. Stacked /\ stack # <<>>
  BY DEF Frames
<1>2. /\ Levels' /\ Len(stack') = Len(stack) /\ Top' = f
      /\ Here(Len(stack))' = Here(Len(stack)) /\ Here(Len(stack)) = Around(Top)
  BY <1>1, TopLevels
<1>3. PICK x \in Text, z \in Text : x = Top.prefix /\ z = Top.post
  BY <1>1, TopIs DEF FrameRec
<1>4. NoBrace(x)
  BY <1>2, <1>3 DEF Plain
<1>5. PICK y : y = x \o item
  OBVIOUS
<1>6. y \in Text /\ NoBrace(y) /\ MarksOf(y) = MarksOf(x)
  BY <1>4, <1>5, ItemPlain
<1>7. arg' = y \o z
  BY <1>3, <1>5
<1>8. Here(Len(stack))' = Around(Top)
  BY <1>2
<1>9. Around(Top).marks = MarksOf(x) /\ Around(Top).rest = z
  BY <1>3 DEF Around
<1>10. ASSUME NEW i \in 1 .. Len(x) PROVE arg'[i] = x[i]
  <2>1. item \in Text
    BY SeqMonotonic DEF Text, Char
  <2>2. y[i] = x[i] /\ i \in 1 .. Len(y)
    <3>1. /\ Len(y) = Len(x) + Len(item) /\ Len(x) \in Nat /\ Len(item) \in Nat
          /\ \A j \in 1 .. Len(x) : y[j] = x[j]
      BY <1>5, <2>1, Behind
    <3> QED BY <3>1
  <2>3. \A j \in 1 .. Len(y) : (y \o z)[j] = y[j]
    BY <1>6, Behind
  <2> QED BY <1>7, <2>2, <2>3
<1>11. Argument'
  <2>1. NoBrace(y) /\ MarksOf(y) = Around(Top).marks /\ arg' = y \o Around(Top).rest
    BY <1>6, <1>7, <1>9
  <2>2. Top.prefix' = x
    BY <1>2, <1>3
  <2>3. \A i \in 1 .. Len(Top.prefix') : arg'[i] = Top.prefix'[i]
    BY <1>10, <2>2
  <2> QED BY <1>6, <1>8, <2>1, <2>3 DEF Argument
<1> QED
  BY <1>2, <1>11

(* The next item of a list. *)
LEMMA NextItemLevels == Frames /\ Levels /\ NextItem => Levels' /\ Argument'
<1> SUFFICES ASSUME Frames, Levels, NextItem PROVE Levels' /\ Argument'
  OBVIOUS
<1>1. Stacked /\ stack # <<>> /\ state = "iterate" /\ line' = line
  BY DEF Frames, NextItem
<1>2. Top \in FrameRec /\ Plain(Top)
  <2>1. Len(stack) \in 1 .. Len(stack)
    BY <1>1 DEF Stacked
  <2> QED BY <1>1, <2>1, TopIs DEF Levels, Top
<1>3. PICK l \in Text : l = Top.list
  BY <1>2 DEF FrameRec
<1>4. PICK p : p = Find(l, 1, {","})
  OBVIOUS
<1>5. /\ arg' = Top.prefix \o SubSeq(l, 1, p - 1) \o Top.post
      /\ stack' = [stack EXCEPT ![Len(stack)].list = SubSeq(@, p + 1, Len(@))]
  BY <1>3, <1>4 DEF NextItem
<1>6. SubSeq(l, 1, p - 1) \in Seq(Digit) /\ ListText(SubSeq(l, p + 1, Len(l)))
  BY <1>2, <1>3, <1>4, ListItem DEF Plain
<1>7. PICK item \in Seq(Digit) : item = SubSeq(l, 1, p - 1)
  BY <1>6
<1>r. PICK rest : rest = SubSeq(l, p + 1, Len(l))
  OBVIOUS
<1>8. PICK f : f = [Top EXCEPT !.list = rest]
  OBVIOUS
<1>9. stack' = [stack EXCEPT ![Len(stack)] = f]
  BY <1>3, <1>5, <1>r, <1>8 DEF Top
<1>10. f.list = rest /\ f.post = Top.post /\ f.prefix = Top.prefix
  BY <1>2, <1>8 DEF FrameRec
<1>11. Plain(f) /\ Around(f) = Around(Top)
  BY <1>2, <1>6, <1>r, <1>10 DEF Plain, Around
<1>12. arg' = Top.prefix \o item \o Top.post
  BY <1>5, <1>7
<1> QED
  BY <1>1, <1>9, <1>10, <1>11, <1>12, CallLevels

(* The next number of a range. *)
LEMMA NextNumberLevels == Frames /\ Levels /\ NextNumber => Levels' /\ Argument'
<1> SUFFICES ASSUME Frames, Levels, NextNumber PROVE Levels' /\ Argument'
  OBVIOUS
<1>1. Stacked /\ stack # <<>> /\ state = "iterate" /\ line' = line /\ Top.next <= Top.last
  BY DEF Frames, NextNumber
<1>2. Top \in FrameRec /\ RoomFor(Top) /\ Plain(Top)
  <2>1. Len(stack) \in 1 .. Len(stack)
    BY <1>1 DEF Stacked
  <2> QED BY <1>1, <2>1, TopIs DEF Levels, Top
<1>3. PICK item \in Seq(Digit) : item = Fmt(Top.next)
  BY <1>1, <1>2, CounterFits
<1>4. PICK m : stack' = [stack EXCEPT ![Len(stack)].next = m]
  BY DEF NextNumber
<1>5. arg' = Top.prefix \o item \o Top.post
  BY <1>3 DEF NextNumber
<1>6. PICK f : f = [Top EXCEPT !.next = m]
  OBVIOUS
<1>7. stack' = [stack EXCEPT ![Len(stack)] = f]
  BY <1>4, <1>6 DEF Top
<1>8. f.list = Top.list /\ f.post = Top.post /\ f.prefix = Top.prefix
  BY <1>2, <1>6 DEF FrameRec
<1>9. Plain(f) /\ Around(f) = Around(Top)
  BY <1>2, <1>8 DEF Plain, Around
<1> QED
  BY <1>1, <1>5, <1>7, <1>8, <1>9, CallLevels

(* A line that is parsed. *)
LEMMA LeafLevels == Frames /\ Levels /\ Argument /\ Leaf => Levels' /\ Argument'
<1> SUFFICES ASSUME Frames, Levels, Argument, Leaf PROVE Levels' /\ Argument'
  OBVIOUS
<1>1. PICK r \in BlackList_parseLine(arg) :
        stack' = IF stack = <<>> THEN stack
                 ELSE [stack EXCEPT ![Len(stack)].prefix =
                         SubSeq(Overwritten(arg, r), 1, Len(@))]
  BY DEF Leaf
<1>2. /\ state = "call" /\ line' = line
      /\ state' = IF stack = <<>> THEN "done" ELSE "iterate"
  BY DEF Leaf
<1>3. Argument'
  BY <1>2 DEF Argument
<1>4. CASE stack = <<>>
  <2>1. stack' = <<>>
    BY <1>1, <1>4
  <2>2. Levels'
    BY <2>1 DEF Levels
  <2> QED BY <1>3, <2>2
<1>5. CASE stack # <<>>
  <2>1. Stacked /\ arg \in Text /\ Len(Top.prefix) <= Len(arg)
    BY <1>2, <1>5 DEF Frames, Calling
  <2>2. Top \in FrameRec /\ Plain(Top)
    <3>1. Len(stack) \in 1 .. Len(stack)
      BY <1>5, <2>1 DEF Stacked
    <3> QED BY <1>5, <2>1, <3>1, TopIs DEF Levels, Top
  <2>3. PICK x \in Text : x = Top.prefix
    BY <2>2 DEF FrameRec
  <2>4. \A i \in 1 .. Len(x) : arg[i] = x[i]
    BY <1>2, <1>5, <2>3 DEF Argument
  <2>5. PICK y : y = SubSeq(Overwritten(arg, r), 1, Len(x))
    OBVIOUS
  <2>6. NoBrace(x) /\ Len(x) <= Len(arg)
    BY <2>1, <2>2, <2>3 DEF Plain
  <2>7. NoBrace(y) /\ MarksOf(y) = MarksOf(x)
    BY <2>1, <2>4, <2>5, <2>6, OverwrittenPlain
  <2>8. PICK f : f = [Top EXCEPT !.prefix = y]
    OBVIOUS
  <2>9. stack' = [stack EXCEPT ![Len(stack)] = f]
    BY <1>1, <1>5, <2>3, <2>5, <2>8 DEF Top
  <2>10. f.list = Top.list /\ f.post = Top.post /\ f.prefix = y
    BY <2>2, <2>8 DEF FrameRec
  <2>11. Plain(f) /\ Around(f) = Around(Top)
    BY <2>2, <2>3, <2>7, <2>10 DEF Plain, Around
  <2>12. Levels'
    BY <1>2, <1>5, <2>1, <2>9, <2>11, TopLevels
  <2> QED BY <1>3, <2>12
<1> QED
  BY <1>4, <1>5

(* A list that is begun. *)
LEMMA ExpandListLevels == Frames /\ Levels /\ Argument /\ ExpandList => Levels' /\ Argument'
<1> SUFFICES ASSUME Frames, Levels, Argument, ExpandList PROVE Levels' /\ Argument'
  OBVIOUS
<1>1. arg \in Text /\ state = "call" /\ ~ScanError(arg) /\ HasRange(arg) /\ Stacked
  BY DEF Frames, ExpandList
<1>2. PICK list : list = Append(SubSeq(arg, Open(arg) + 1, Close(arg) - 1), ",")
  OBVIOUS
<1>3. Commas(arg) /\ Push(Frame(arg, list, 1, 0))
  BY <1>2 DEF ExpandList, Commas
<1>4. ~RangeBad(arg) /\ ListText(list)
  BY <1>1, <1>2, <1>3, ListPlain DEF RangeBad
<1>5. PICK n \in Nat : n = Len(stack)
  BY <1>1 DEF Stacked
<1>6. PICK f : f = Frame(arg, list, 1, 0)
  OBVIOUS
<1>7. /\ ~Bad(Here(n)) /\ HasRange(Here(n).rest)
      /\ NoBrace(f.prefix) /\ Around(f) = Following(Here(n))
  BY <1>1, <1>4, <1>5, <1>6, CallIsLevel
<1>8. Plain(f)
  BY <1>4, <1>6, <1>7 DEF Plain, Frame
<1>9. Levels'
  BY <1>1, <1>3, <1>5, <1>6, <1>7, <1>8, PushLevels
<1>10. Argument'
  BY <1>3 DEF Argument, Push
<1> QED
  BY <1>9, <1>10

(* A range that is begun. *)
LEMMA RangeLevels ==
  ASSUME Frames, Levels, Argument, state = "call", ~ScanError(arg), HasRange(arg),
         NEW r \in Ranges(arg, Open(arg) + 1, Close(arg)), ~Refused(r),
         Push(Frame(arg, <<>>, r.next, r.last))
  PROVE  Levels' /\ Argument'
<1>1. arg \in Text /\ Stacked
  BY DEF Frames
<1>2. r = RangeOf(arg, Open(arg) + 1, Close(arg))
  BY RangesIs
<1>3. ~RangeBad(arg)
  BY <1>2 DEF RangeBad
<1>4. PICK n \in Nat : n = Len(stack)
  BY <1>1 DEF Stacked
<1>5. PICK f : f = Frame(arg, <<>>, r.next, r.last)
  OBVIOUS
<1>6. /\ ~Bad(Here(n)) /\ HasRange(Here(n).rest)
      /\ NoBrace(f.prefix) /\ Around(f) = Following(Here(n))
  BY <1>3, <1>4, <1>5, CallIsLevel
<1>7. Plain(f)
  BY <1>5, <1>6 DEF Plain, Frame, ListText
<1>8. Levels'
  BY <1>1, <1>4, <1>5, <1>6, <1>7, PushLevels
<1>9. Argument'
  BY DEF Argument, Push
<1> QED
  BY <1>8, <1>9

(* The end of a loop. *)
LEMMA ReturnLevels == Frames /\ Levels /\ Return => Levels' /\ Argument'
<1> SUFFICES ASSUME Frames, Levels, Return PROVE Levels' /\ Argument'
  OBVIOUS
<1>1. stack # <<>> /\ stack \in Seq(FrameRec) /\ line' = line
      /\ stack' = SubSeq(stack, 1, Len(stack) - 1)
      /\ state' = IF Len(stack) = 1 THEN "done" ELSE "iterate"
  BY DEF Frames, Return, Stacked, Below
<1>2. PICK m \in Nat : m = Len(stack) /\ m >= 1
  BY <1>1
<1>3. PICK n \in Nat : n = m - 1
  BY <1>2
<1>4. 1 \in Int /\ n \in Int /\ \A i \in 1 .. n : stack[i] \in FrameRec
  BY <1>1, <1>2, <1>3
<1>5. stack' = SubSeq(stack, 1, n)
  BY <1>1, <1>2, <1>3
<1>6. /\ Len(stack') = IF 1 <= n THEN n - 1 + 1 ELSE 0
      /\ \A i \in 1 .. n - 1 + 1 : stack'[i] = stack[1 + i - 1]
  BY <1>4, <1>5, SubSeqProperties
<1>7. Len(stack') = n
  BY <1>6
<1>8. ASSUME NEW i \in 1 .. n PROVE stack'[i] = stack[i] /\ Plain(stack[i])
  <2>1. i \in 1 .. n - 1 + 1 /\ 1 + i - 1 = i /\ i \in 1 .. Len(stack)
    BY <1>2, <1>3
  <2> QED BY <1>6, <2>1 DEF Levels
<1>9. Levels'
  <2>1. n = Len(stack') /\ n <= Len(stack) /\ Len(stack) \in Nat
    BY <1>2, <1>3, <1>7
  <2>2. \A i \in 1 .. n : Around(stack'[i]) = Around(stack[i]) /\ Plain(stack'[i])
    BY <1>8
  <2> QED BY <1>1, <2>1, <2>2, LevelsKept
<1>10. Argument'
  BY <1>1 DEF Argument
<1> QED
  BY <1>9, <1>10

(* The levels of a line, as many as it has, are all fit to be expanded. *)
Closed(K, h) ==
  h \in K /\ \A g \in K : ~Bad(g) /\ (HasRange(g.rest) => Following(g) \in K)

(* As soon as something of a line has been parsed they are: parseLine is    *)
(* reached only behind the last range, on the innermost level.              *)
Clean == parsed # {} => \E K : Closed(K, Here(0))

(* All levels of the recursion are among them. *)
LEMMA LevelsAmong ==
  ASSUME Stacked, Levels, NEW K, Closed(K, Here(0))
  PROVE  \A i \in 0 .. Len(stack) : Here(i) \in K
<1>1. PICK n \in Nat : n = Len(stack)
  BY DEF Stacked
<1> DEFINE T == {i \in 0 .. n : Here(i) \notin K}
<1>2. T = {}
  <2> SUFFICES ASSUME T # {} PROVE FALSE
    OBVIOUS
  <2>1. T \in SUBSET Nat
    OBVIOUS
  <2>2. PICK m \in T : \A k \in T : m <= k
    <3> HIDE DEF T
    <3> QED BY <2>1, LeastNumber
  <2>3. m \in 0 .. n /\ Here(m) \notin K
    OBVIOUS
  <2>4. m # 0
    BY <2>3 DEF Closed
  <2>5. m \in 1 .. n /\ m - 1 \in 0 .. n /\ ~ (m <= m - 1)
    BY <2>3, <2>4
  <2>6. m - 1 \notin T
    BY <2>2, <2>5
  <2>7. Here(m - 1) \in K
    BY <2>5, <2>6
  <2>8. Level(m)
    BY <1>1, <2>5 DEF Levels
  <2> QED BY <2>3, <2>7, <2>8 DEF Level, Closed
<1> QED
  BY <1>1, <1>2

(* A line that has been parsed is not refused afterwards. *)
LEMMA CleanIsAccepted ==
  ASSUME Frames, Levels, Argument, Clean, state = "call",
         ScanError(arg) \/ RangeBad(arg)
  PROVE  parsed = {}
<1> SUFFICES ASSUME parsed # {} PROVE FALSE
  OBVIOUS
<1>1. PICK K : Closed(K, Here(0))
  BY DEF Clean
<1>2. PICK n \in Nat : n = Len(stack)
  BY DEF Frames, Stacked
<1>3. Here(n) \in K
  <2>1. n \in 0 .. Len(stack)
    BY <1>2
  <2>2. Stacked
    BY DEF Frames
  <2> QED BY <1>1, <2>1, <2>2, LevelsAmong
<1>4. Bad(Here(n))
  BY <1>2, CallIsLevel
<1> QED
  BY <1>1, <1>3, <1>4 DEF Closed

(* When a line is parsed for the first time, the levels are all there is. *)
LEMMA LeafClean ==
  ASSUME Frames, Levels, Argument, Leaf
  PROVE  \E K : Closed(K, Here(0))
<1>1. state = "call" /\ ~ScanError(arg) /\ ~HasRange(arg)
  BY DEF Leaf
<1>2. PICK n \in Nat : n = Len(stack)
  BY DEF Frames, Stacked
<1>3. ~Bad(Here(n)) /\ ~HasRange(Here(n).rest)
  <2>1. ~RangeBad(arg)
    BY <1>1 DEF RangeBad
  <2> QED BY <1>1, <1>2, <2>1, CallIsLevel
<1>4. PICK H : \A i \in 0 .. n : H[i] = Here(i)
  <2>1. \A i \in 0 .. n : [j \in 0 .. n |-> Here(j)][i] = Here(i)
    OBVIOUS
  <2> QED BY <2>1
<1>5. PICK K : K = {H[i] : i \in 0 .. n}
  OBVIOUS
<1>6. Here(0) \in K
  <2>1. 0 \in 0 .. n
    OBVIOUS
  <2> QED BY <1>4, <1>5, <2>1
<1>7. ASSUME NEW g \in K
      PROVE  ~Bad(g) /\ (HasRange(g.rest) => Following(g) \in K)
  <2>1. PICK i \in 0 .. n : g = H[i]
    BY <1>5
  <2>2. g = Here(i)
    BY <1>4, <2>1
  <2>3. CASE i = n
    BY <1>3, <2>2, <2>3
  <2>4. CASE i # n
    <3>1. PICK k \in 1 .. n : k = i + 1 /\ k - 1 = i
      <4>1. i + 1 \in 1 .. n /\ (i + 1) - 1 = i
        BY <2>4
      <4> QED BY <4>1
    <3>2. Level(k)
      BY <1>2 DEF Levels
    <3>3. ~Bad(g) /\ Here(k) = Following(g)
      BY <2>2, <3>1, <3>2 DEF Level
    <3>4. k \in 0 .. n
      OBVIOUS
    <3>5. Here(k) \in K
      BY <1>4, <1>5, <3>4
    <3> QED BY <3>3, <3>5
  <2> QED BY <2>3, <2>4
<1>8. Closed(K, Here(0))
  BY <1>6, <1>7 DEF Closed
<1> QED
  BY <1>8

(* What a step keeps for a refused line to leave nothing behind. *)
Whole == Levels /\ Argument /\ Clean /\ AllOrNothing

(* A result of false. *)
LEMMA ErrorWhole ==
  ASSUME Frames, Whole, state = "call", ScanError(arg) \/ RangeBad(arg), Error
  PROVE  Whole'
<1>1. parsed = {}
  BY CleanIsAccepted DEF Whole
<1>2. stack' = <<>> /\ state' = "error" /\ parsed' = {}
  BY <1>1 DEF Error
<1>3. Levels'
  BY <1>2 DEF Levels
<1>4. Argument'
  BY <1>2 DEF Argument
<1>5. Clean' /\ AllOrNothing'
  BY <1>2 DEF Clean, AllOrNothing
<1> QED
  BY <1>3, <1>4, <1>5 DEF Whole

(* Steps that leave the entries, the line and no error. *)
LEMMA QuietWhole ==
  ASSUME Clean, Levels', Argument', UNCHANGED <<line, parsed>>, state' # "error"
  PROVE  Whole'
<1>1. Here(0)' = Here(0)
  BY DEF Here
<1>2. Clean'
  BY <1>1 DEF Clean
<1> QED
  BY <1>2 DEF Whole, AllOrNothing

(* Every step. *)
LEMMA NextWhole == Inv /\ Frames /\ Whole /\ [Next]_vars => Whole'
<1> SUFFICES ASSUME Inv, Frames, Whole, [Next]_vars PROVE Whole'
  OBVIOUS
<1>0. Levels /\ Argument /\ Clean /\ AllOrNothing
  BY DEF Whole
<1>1. CASE UNCHANGED expvars
  <2>1. UNCHANGED <<line, stack, arg, parsed, state>>
    BY <1>1 DEF expvars
  <2>2. Levels'
    BY <1>0, <2>1 DEF Levels, Level, Here, Plain
  <2>3. Argument'
    BY <1>0, <2>1 DEF Argument, Here, Top
  <2>4. Clean' /\ AllOrNothing'
    BY <1>0, <2>1 DEF Clean, AllOrNothing, Here
  <2> QED BY <2>2, <2>3, <2>4 DEF Whole
<1>2. CASE TakeLine /\ Expand(TakenText)
  <2>1. TakenText \in Text
    BY <1>2, TakenIsText
  <2>2. PICK t \in Text : t = TakenText
    BY <2>1
  <2>3. line' = t /\ arg' = t /\ stack' = <<>> /\ parsed' = {} /\ state' = "call"
    BY <1>2, <2>2 DEF Expand
  <2>4. Levels'
    BY <2>3 DEF Levels
  <2>5. Clean' /\ AllOrNothing'
    BY <2>3 DEF Clean, AllOrNothing
  <2>6. Here(Len(stack))' = [marks |-> {}, rest |-> t]
    BY <2>3 DEF Here
  <2>7. PICK x : x = <<>>
    OBVIOUS
  <2>8. x \in Text /\ NoBrace(x) /\ MarksOf(x) = {} /\ t = x \o t
    BY <2>7 DEF Text, NoBrace, MarksOf, In
  <2>9. Argument'
    <3>1. Here(Len(stack))'.marks = {} /\ Here(Len(stack))'.rest = t
      BY <2>6
    <3>2. arg' = x \o Here(Len(stack))'.rest /\ MarksOf(x) = Here(Len(stack))'.marks
      BY <2>3, <2>8, <3>1, Zenon
    <3>3. stack' = <<>>
      BY <2>3
    <3> QED BY <2>8, <3>2, <3>3, Zenon DEF Argument
  <2> QED BY <2>4, <2>5, <2>9 DEF Whole
<1>3. CASE ExpandError
  BY <1>3, ErrorWhole DEF ExpandError
<1>4. CASE ExpandList
  <2>1. UNCHANGED <<line, parsed>> /\ state' # "error"
    BY <1>4 DEF ExpandList, Push
  <2> QED BY <1>0, <1>4, <2>1, ExpandListLevels, QuietWhole
<1>5. CASE ExpandRange
  <2>1. state = "call" /\ ~ScanError(arg) /\ HasRange(arg)
        /\ "-" \in In(arg, Open(arg), Close(arg))
    BY <1>5 DEF ExpandRange
  <2>2. PICK r \in Ranges(arg, Open(arg) + 1, Close(arg)) :
          \/ Refused(r) /\ Error
          \/ ~Refused(r) /\ Push(Frame(arg, <<>>, r.next, r.last))
    BY <1>5 DEF ExpandRange
  <2>3. CASE Refused(r) /\ Error
    <3>1. r = RangeOf(arg, Open(arg) + 1, Close(arg))
      BY RangesIs
    <3>2. RangeBad(arg)
      BY <2>1, <2>3, <3>1 DEF RangeBad
    <3> QED BY <2>1, <2>3, <3>2, ErrorWhole
  <2>4. CASE ~Refused(r) /\ Push(Frame(arg, <<>>, r.next, r.last))
    <3>1. Levels' /\ Argument'
      BY <1>0, <2>1, <2>4, RangeLevels
    <3>2. UNCHANGED <<line, parsed>> /\ state' # "error"
      BY <2>4 DEF Push
    <3> QED BY <1>0, <3>1, <3>2, QuietWhole
  <2> QED BY <2>2, <2>3, <2>4
<1>6. CASE Leaf
  <2>1. Levels' /\ Argument'
    BY <1>0, <1>6, LeafLevels
  <2>2. line' = line /\ state' \in {"done", "iterate"}
    BY <1>6 DEF Leaf
  <2>3. Here(0)' = Here(0)
    BY <2>2 DEF Here
  <2>4. Clean'
    BY <1>0, <1>6, <2>3, LeafClean DEF Clean
  <2> QED BY <2>1, <2>2, <2>4 DEF Whole, AllOrNothing
<1>7. CASE NextItem
  <2>1. UNCHANGED <<line, parsed>> /\ state' # "error"
    BY <1>7 DEF NextItem
  <2> QED BY <1>0, <1>7, <2>1, NextItemLevels, QuietWhole
<1>8. CASE NextNumber
  <2>1. UNCHANGED <<line, parsed>> /\ state' # "error"
    BY <1>8 DEF NextNumber
  <2> QED BY <1>0, <1>8, <2>1, NextNumberLevels, QuietWhole
<1>9. CASE Return
  <2>1. UNCHANGED <<line, parsed>> /\ state' # "error"
    BY <1>9 DEF Return
  <2> QED BY <1>0, <1>9, <2>1, ReturnLevels, QuietWhole
<1> QED
  BY <1>1, <1>2, <1>3, <1>4, <1>5, <1>6, <1>7, <1>8, <1>9 DEF Next, Buffer, ExpandNext, vars

(* Whatever is wrong with any range of a line shows before anything of it   *)
(* is parsed, for all files, also when parseLine has written into the       *)
(* buffers in between: a refused line leaves no entries.                    *)
THEOREM RefusedLeavesNothing == Spec => []AllOrNothing
<1>1. Init => Whole
  <2> SUFFICES ASSUME Init PROVE Whole
    OBVIOUS
  <2>1. stack = <<>> /\ parsed = {} /\ state = "idle"
    BY DEF Init, ExpandInit
  <2> QED BY <2>1 DEF Whole, Levels, Argument, Clean, AllOrNothing
<1>2. Whole => AllOrNothing
  BY DEF Whole
<1> QED
  BY <1>1, <1>2, FramesHold, NextWhole, PTL DEF Spec

-----------------------------------------------------------------------------
(* ExactExpansion.  A line stands for the texts of Meanings, which is read  *)
(* off the line from its end; the code makes them one after the other, from *)
(* its beginning.  First the line: its braces and what is between them.     *)

(* The n characters of a text from a on. *)
LEMMA Piece ==
  ASSUME NEW t \in Text, NEW a \in Nat \ {0}, NEW n \in Nat, a + n <= Len(t) + 1
  PROVE  /\ SubSeq(t, a, a + n - 1) \in Text /\ Len(SubSeq(t, a, a + n - 1)) = n
         /\ \A i \in 1 .. n : SubSeq(t, a, a + n - 1)[i] = t[a + i - 1]
<1>1. PICK m \in Nat : m = Len(t) /\ \A i \in 1 .. m : t[i] \in Char
  BY DEF Text
<1>2. PICK b \in Int : b = a + n - 1 /\ b <= m /\ b - a + 1 = n
  <2>1. a + n - 1 \in Int /\ a + n - 1 <= m /\ a + n - 1 - a + 1 = n
    BY <1>1
  <2> QED BY <2>1
<1>3. a \in Int /\ \A i \in a .. b : t[i] \in Char
  BY <1>1, <1>2
<1>4. /\ SubSeq(t, a, b) \in Seq(Char)
      /\ Len(SubSeq(t, a, b)) = IF a <= b THEN b - a + 1 ELSE 0
      /\ \A i \in 1 .. b - a + 1 : SubSeq(t, a, b)[i] = t[a + i - 1]
  BY <1>3, SubSeqProperties
<1>5. (IF a <= b THEN b - a + 1 ELSE 0) = n
  BY <1>2
<1> QED
  BY <1>2, <1>4, <1>5, Zenon DEF Text

(* It is determined by them. *)
LEMMA SamePiece ==
  ASSUME NEW s \in Text, NEW t \in Text, NEW a \in Nat \ {0}, NEW b \in Nat \ {0},
         NEW n \in Nat, a + n <= Len(s) + 1, b + n <= Len(t) + 1,
         \A i \in 1 .. n : s[a + i - 1] = t[b + i - 1]
  PROVE  SubSeq(s, a, a + n - 1) = SubSeq(t, b, b + n - 1)
<1>1. PICK u \in Text : /\ u = SubSeq(s, a, a + n - 1) /\ Len(u) = n
                        /\ \A i \in 1 .. n : u[i] = s[a + i - 1]
  BY Piece
<1>2. PICK v \in Text : /\ v = SubSeq(t, b, b + n - 1) /\ Len(v) = n
                        /\ \A i \in 1 .. n : v[i] = t[b + i - 1]
  BY Piece, ZenonT(60)
<1>3. u = v
  BY <1>1, <1>2, SeqEqual, ZenonT(60) DEF Text
<1> QED
  BY <1>1, <1>2, <1>3

(* In a well-formed line every '{' before a comment has its '}' there, with *)
(* a range or a list in between, and there are no marks elsewhere.          *)
Braced(t, o) ==
  /\ t[o] = "{" /\ Closing(t, o) \in o + 1 .. Stop(t) - 1 /\ t[Closing(t, o)] = "}"
  /\ \A j \in o .. Closing(t, o) - 1 : t[j] # "}"
  /\ IsRange(Inner(t, o)) \/ IsList(Inner(t, o))

Bound == {"}", ",", "-"}

(* This is what being well-formed says of the line itself. *)
LEMMA WellFormedIs ==
  ASSUME NEW t \in Text, WellFormed(t)
  PROVE  /\ Stop(t) \in 1 .. Len(t) + 1
         /\ \A o \in 1 .. Stop(t) - 1 : t[o] = "{" => Braced(t, o)
         /\ \A i \in 1 .. Stop(t) - 1 : t[i] \in Bound =>
              \E o \in 1 .. i - 1 : t[o] = "{" /\ i <= Closing(t, o)
<1>1. PICK n \in Nat : n = Len(t) /\ End(t) = n + 1
  BY DEF Text, End
<1>2. PICK h \in 1 .. n + 1 : h = Stop(t)
  <2>1. 1 \in Nat /\ 1 <= End(t) /\ Len(t) \in Nat
    BY <1>1
  <2>2. First(t, 1, {"#"}, Stop(t))
    BY <2>1, FindIs DEF Stop
  <2> QED BY <1>1, <2>2 DEF First
<1>3. h - 1 \in 0 .. Len(t)
  BY <1>1
<1>4. PICK u \in Text : /\ u = SubSeq(t, 1, h - 1) /\ Len(u) = h - 1
                        /\ \A i \in 1 .. h - 1 : u[i] = t[i]
  BY <1>3, Beginning
<1>5. DOMAIN u = 1 .. h - 1
  BY <1>4 DEF Text
<1>6. PICK O : O = {i \in DOMAIN u : u[i] = "{"}
  OBVIOUS
<1>7. /\ \A i \in O : /\ Closing(u, i) <= Len(u)
                      /\ IsRange(Inner(u, i)) \/ IsList(Inner(u, i))
      /\ \A i \in DOMAIN u : u[i] \in {"}", ",", "-"} =>
           \E o \in O : o < i /\ i <= Closing(u, o)
  BY <1>2, <1>4, <1>6, Zenon DEF WellFormed
<1>8. ASSUME NEW o \in 1 .. h - 1, t[o] = "{"
      PROVE  Braced(t, o) /\ Closing(u, o) = Closing(t, o)
  <2>1. o \in O
    BY <1>4, <1>5, <1>6, <1>8
  <2>2. PICK c : c = Closing(u, o)
    OBVIOUS
  <2>3. First(u, o, {"}"}, c)
    <3>1. o \in Nat /\ o <= End(u) /\ Len(u) \in Nat
      BY <1>2, <1>4 DEF End
    <3> QED BY <2>2, <3>1, FindIs DEF Closing
  <2>4. c <= h - 1
    BY <1>4, <1>7, <2>1, <2>2, Zenon
  <2>5. c \in o .. h - 1 /\ u[c] \in {"}"} /\ \A j \in o .. c - 1 : u[j] \notin {"}"}
    <3>1. c \in o .. End(u)
      BY <2>3 DEF First
    <3>2. c \in o .. h - 1 /\ c <= Len(u)
      BY <1>4, <2>4, <3>1 DEF End
    <3> QED BY <2>3, <3>2 DEF First
  <2>c. c \in o .. h - 1 /\ c \in 1 .. h - 1
    <3>1. c \in o .. h - 1
      BY <2>5
    <3> QED BY <1>2, <3>1
  <2>6. t[c] = "}" /\ \A j \in o .. c - 1 : t[j] # "}"
    <3>1. t[c] = u[c]
      BY <1>4, <2>c
    <3>2. ASSUME NEW j \in o .. c - 1 PROVE t[j] # "}"
      <4>1. j \in 1 .. h - 1
        BY <1>2, <2>c
      <4> QED BY <1>4, <2>5, <4>1
    <3> QED BY <2>5, <3>1, <3>2
  <2>7. c # o
    BY <1>8, <2>6
  <2>8. c = Closing(t, o)
    <3>1. First(t, o, {"}"}, c)
      <4>1. c \in o .. End(t)
        BY <1>1, <1>2, <2>c
      <4> QED BY <2>6, <4>1 DEF First
    <3>2. First(t, o, {"}"}, Closing(t, o))
      <4>1. o \in Nat /\ o <= End(t) /\ Len(t) \in Nat
        BY <1>1, <1>2
      <4> QED BY <4>1, FindIs DEF Closing
    <3>3. o \in Nat /\ Len(t) \in Nat
      BY <1>1
    <3> QED BY <3>1, <3>2, <3>3, FirstUnique
  <2>9. c \in o + 1 .. h - 1
    BY <2>c, <2>7
  <2>10. Inner(u, o) = Inner(t, o)
    <3>1. SubSeq(u, o + 1, c - 1) = SubSeq(t, o + 1, c - 1)
      <4>1. PICK a \in Nat \ {0}, m \in Nat :
              a = o + 1 /\ a + m - 1 = c - 1 /\ a + m <= h
        <5>1. o + 1 \in Nat \ {0} /\ c - 1 - o \in Nat
              /\ o + 1 + (c - 1 - o) - 1 = c - 1 /\ o + 1 + (c - 1 - o) <= h
          BY <2>9
        <5> QED BY <5>1
      <4>2. a + m <= Len(u) + 1 /\ a + m <= Len(t) + 1
        BY <1>1, <1>2, <1>4, <4>1
      <4>3. ASSUME NEW i \in 1 .. m PROVE u[a + i - 1] = t[a + i - 1]
        <5>1. a + i - 1 \in 1 .. h - 1
          BY <4>1
        <5> QED BY <1>4, <5>1
      <4>4. SubSeq(u, a, a + m - 1) = SubSeq(t, a, a + m - 1)
        BY <4>2, <4>3, SamePiece, ZenonT(60)
      <4> QED BY <4>1, <4>4, Zenon
    <3> QED BY <2>2, <2>8, <3>1, Zenon DEF Inner
  <2>11. IsRange(Inner(t, o)) \/ IsList(Inner(t, o))
    BY <1>7, <2>1, <2>10, Zenon
  <2> QED BY <1>2, <1>8, <2>2, <2>6, <2>8, <2>9, <2>11, Zenon DEF Braced
<1>9. ASSUME NEW i \in 1 .. h - 1, t[i] \in {"}", ",", "-"}
      PROVE  \E o \in 1 .. i - 1 : t[o] = "{" /\ i <= Closing(t, o)
  <2>1. PICK o \in O : o < i /\ i <= Closing(u, o)
    BY <1>4, <1>5, <1>7, <1>9
  <2>2. o \in 1 .. h - 1 /\ t[o] = "{"
    BY <1>4, <1>5, <1>6
  <2>3. o \in 1 .. i - 1
    <3>1. o < i /\ o \in 1 .. h - 1
      BY <2>1, <2>2
    <3> QED BY <1>2, <3>1
  <2> QED BY <1>8, <2>1, <2>2, <2>3, Zenon
<1> QED
  BY <1>1, <1>2, <1>8, <1>9, Zenon DEF Bound

(* The text between two braces. *)
LEMMA InnerIs ==
  ASSUME NEW t \in Text, Stop(t) \in 1 .. Len(t) + 1, NEW o \in 1 .. Stop(t) - 1,
         Closing(t, o) \in o + 1 .. Stop(t) - 1
  PROVE  /\ Inner(t, o) \in Text /\ Len(Inner(t, o)) = Closing(t, o) - o - 1
         /\ \A i \in 1 .. Len(Inner(t, o)) : Inner(t, o)[i] = t[o + i]
<1>1. PICK h \in 1 .. Len(t) + 1 : h = Stop(t)
  OBVIOUS
<1>2. PICK c \in o + 1 .. h - 1 : c = Closing(t, o)
  BY <1>1
<1>3. PICK n \in Nat : n = Len(t)
  BY DEF Text
<1>4. PICK a \in Nat \ {0}, m \in Nat :
        a = o + 1 /\ a + m - 1 = c - 1 /\ m = c - o - 1 /\ a + m <= n + 1
  <2>1. o + 1 \in Nat \ {0} /\ c - o - 1 \in Nat
        /\ o + 1 + (c - o - 1) - 1 = c - 1 /\ o + 1 + (c - o - 1) <= n + 1
    BY <1>1, <1>2, <1>3, SMTT(60)
  <2> QED BY <2>1
<1>5. PICK d : d = SubSeq(t, a, a + m - 1)
  OBVIOUS
<1>6. /\ d \in Text /\ Len(d) = m /\ \A i \in 1 .. m : d[i] = t[a + i - 1]
  BY <1>3, <1>4, <1>5, Piece, ZenonT(60)
<1>7. ASSUME NEW i \in 1 .. m PROVE d[i] = t[o + i]
  <2>1. a + i - 1 = o + i
    BY <1>1, <1>4
  <2> QED BY <1>6, <2>1
<1>8. d = Inner(t, o)
  BY <1>2, <1>4, <1>5, Zenon DEF Inner
<1> QED
  BY <1>2, <1>4, <1>6, <1>7, <1>8

(* A number, a '-' at m, and a number. *)
RangeText(d, m) ==
  /\ m \in 2 .. Len(d) - 1 /\ d[m] = "-"
  /\ \A j \in 1 .. Len(d) : j # m => d[j] \in Digit

(* The digits of a number have a value. *)
LEMMA NumberValue ==
  ASSUME NEW d \in Text, IsNumber(d)
  PROVE  d \in Seq(Digit) /\ Value(d) \in Nat /\ Len(d) \in Nat \ {0}
<1>1. Len(d) \in Nat /\ DOMAIN d = 1 .. Len(d) /\ d = [i \in 1 .. Len(d) |-> d[i]]
  BY DEF Text
<1>2. d \in Seq(Digit)
  <2>1. \A i \in 1 .. Len(d) : d[i] \in Digit
    BY <1>1 DEF IsNumber
  <2>2. d \in [1 .. Len(d) -> Digit]
    BY <1>1, <2>1
  <2> QED BY <1>1, <2>2
<1>3. PICK v : Counts(d, v) /\ Value(d) = v[Len(d)]
  BY <1>2, ValueCounts
<1>4. Value(d) \in Nat
  <2>1. Len(d) \in 0 .. Len(d)
    BY <1>1
  <2> QED BY <1>3, <2>1 DEF Counts
<1>5. Len(d) # 0
  BY <1>1, EmptySeq DEF IsNumber, Text
<1> QED
  BY <1>1, <1>2, <1>4, <1>5

(* This is what a range looks like. *)
LEMMA RangeIs ==
  ASSUME NEW d \in Text, IsRange(d)
  PROVE  \E m \in Nat :
           /\ RangeText(d, m)
           /\ From(d) = SubSeq(d, 1, m - 1) /\ To(d) = SubSeq(d, m + 1, Len(d))
           /\ From(d) \in Seq(Digit) /\ To(d) \in Seq(Digit)
           /\ Value(From(d)) \in Nat /\ Value(To(d)) \in Nat
           /\ Value(From(d)) <= Value(To(d)) /\ Value(To(d)) < IntMax
<1>1. PICK n \in Nat : n = Len(d) /\ End(d) = n + 1
  BY DEF Text, End
<1>2. PICK m : m = Find(d, 1, {"-"})
  OBVIOUS
<1>3. First(d, 1, {"-"}, m)
  <2>1. 1 \in Nat /\ 1 <= End(d) /\ Len(d) \in Nat
    BY <1>1
  <2> QED BY <1>2, <2>1, FindIs
<1>4. m \in 1 .. n + 1
  BY <1>1, <1>3 DEF First
<1>5. PICK f, g : f = From(d) /\ g = To(d) /\ f = SubSeq(d, 1, m - 1) /\ g = SubSeq(d, m + 1, n)
  BY <1>1, <1>2, Zenon DEF From, To
<1>6. f \in Text /\ Len(f) = m - 1 /\ \A i \in 1 .. m - 1 : f[i] = d[i]
  <2>1. m - 1 \in 0 .. Len(d)
    BY <1>1, <1>4
  <2> QED BY <1>5, <2>1, Beginning
<1>7. m <= n
  <2> SUFFICES ASSUME m = n + 1 PROVE FALSE
    BY <1>4
  <2>1. g = <<>>
    <3>1. m + 1 \in Int /\ n \in Int /\ n < m + 1
      BY <1>4
    <3> QED BY <1>5, <3>1, SubSeqEmpty
  <2> QED BY <1>5, <2>1 DEF IsRange, IsNumber
<1>8. d[m] = "-"
  BY <1>1, <1>3, <1>7 DEF First
<1>9. PICK a \in Nat \ {0}, k \in Nat : a = m + 1 /\ a + k - 1 = n /\ k = n - m /\ a + k <= n + 1
  <2>1. m + 1 \in Nat \ {0} /\ n - m \in Nat /\ m + 1 + (n - m) - 1 = n /\ m + 1 + (n - m) <= n + 1
    BY <1>4, <1>7
  <2> QED BY <2>1
<1>10. g \in Text /\ Len(g) = k /\ \A i \in 1 .. k : g[i] = d[a + i - 1]
  <2>1. g = SubSeq(d, a, a + k - 1)
    BY <1>5, <1>9, Zenon
  <2> QED BY <1>1, <1>9, <2>1, Piece
<1>11. IsNumber(f) /\ IsNumber(g) /\ Value(f) <= Value(g) /\ Value(g) < IntMax
  BY <1>5, Zenon DEF IsRange
<1>12. /\ f \in Seq(Digit) /\ Value(f) \in Nat /\ Len(f) \in Nat \ {0}
       /\ g \in Seq(Digit) /\ Value(g) \in Nat /\ Len(g) \in Nat \ {0}
  BY <1>6, <1>10, <1>11, NumberValue
<1>13. m \in 2 .. n - 1
  <2>1. m - 1 # 0 /\ k # 0
    BY <1>6, <1>10, <1>12
  <2> QED BY <1>4, <1>9, <2>1
<1>14. ASSUME NEW j \in 1 .. n, j # m PROVE d[j] \in Digit
  <2>1. CASE j < m
    <3>1. j \in 1 .. m - 1 /\ j \in 1 .. Len(f)
      BY <1>4, <1>6, <2>1
    <3> QED BY <1>6, <1>12, <3>1
  <2>2. CASE j > m
    <3>1. PICK i \in 1 .. k : a + i - 1 = j
      <4>1. j - m \in 1 .. k /\ a + (j - m) - 1 = j
        BY <1>9, <1>4, <2>2
      <4> QED BY <4>1
    <3>2. g[i] \in Digit
      BY <1>10, <1>12
    <3> QED BY <1>10, <3>1, <3>2
  <2> QED BY <1>4, <1>14, <2>1, <2>2
<1>15. RangeText(d, m)
  BY <1>1, <1>8, <1>13, <1>14 DEF RangeText
<1> QED
  BY <1>1, <1>4, <1>5, <1>11, <1>12, <1>15

(* And this a list. *)
LEMMA ListIs ==
  ASSUME NEW d \in Text, IsList(d)
  PROVE  /\ ListText(d) /\ Len(d) \in Nat \ {0} /\ "," \in In(d, 1, Len(d))
         /\ d[1] # "," /\ d[Len(d)] # "," /\ ~IsRange(d)
<1>1. Len(d) \in Nat
  BY DEF Text
<1>2. PICK j \in 1 .. Len(d) : d[j] = ","
  BY DEF IsList, In
<1>3. Len(d) # 0
  BY <1>1
<1>4. ListText(d)
  BY DEF IsList, ListText, In
<1>5. ~IsRange(d)
  <2> SUFFICES ASSUME IsRange(d) PROVE FALSE
    OBVIOUS
  <2>1. PICK m \in Nat : RangeText(d, m)
    BY RangeIs
  <2>2. d[m] = "-" /\ m \in 1 .. Len(d)
    BY <1>1, <2>1 DEF RangeText
  <2>3. "-" \in Digit \cup {","}
    BY <1>4, <2>2 DEF ListText
  <2> QED BY <2>3, DigitsPlain
<1> QED
  BY <1>1, <1>3, <1>4, <1>5 DEF IsList

(* There are no other signs between the braces. *)
LEMMA InnerChars ==
  ASSUME NEW t \in Text, Stop(t) \in 1 .. Len(t) + 1, NEW o \in 1 .. Stop(t) - 1,
         Braced(t, o)
  PROVE  \A j \in o + 1 .. Closing(t, o) - 1 : t[j] \in Digit \cup {",", "-"}
<1>1. Closing(t, o) \in o + 1 .. Stop(t) - 1
  BY DEF Braced
<1>h. PICK h \in Nat : h = Stop(t) /\ o \in 1 .. h - 1
  <2>1. Stop(t) \in Nat
    BY DEF Text
  <2> QED BY <2>1
<1>c. PICK c \in Int : c = Closing(t, o)
  BY <1>1, <1>h
<1>2. PICK d \in Text : /\ d = Inner(t, o) /\ Len(d) = c - o - 1
                        /\ \A i \in 1 .. Len(d) : d[i] = t[o + i]
  BY <1>1, <1>c, InnerIs
<1>3. \A i \in 1 .. Len(d) : d[i] \in Digit \cup {",", "-"}
  <2>1. CASE IsRange(d)
    <3>1. PICK m \in Nat : RangeText(d, m)
      BY <2>1, RangeIs
    <3> QED BY <3>1 DEF RangeText
  <2>2. CASE IsList(d)
    BY <2>2, ListIs DEF ListText
  <2> QED BY <1>2, <2>1, <2>2 DEF Braced
<1>4. ASSUME NEW j \in o + 1 .. c - 1 PROVE t[j] \in Digit \cup {",", "-"}
  <2>1. PICK i \in 1 .. Len(d) : o + i = j
    <3>1. j - o \in 1 .. c - o - 1 /\ o + (j - o) = j
      BY <1>h
    <3> QED BY <1>2, <3>1
  <2> QED BY <1>2, <1>3, <2>1
<1> QED
  BY <1>c, <1>4

(* A place of a line that is outside of all braces, ... *)
Between(t, k) ==
  /\ k \in 1 .. Stop(t)
  /\ \A o \in 1 .. k - 1 : t[o] = "{" => Closing(t, o) < k

Unmarked(t, k, o) == \A j \in k .. o - 1 : t[j] \notin {"{", "}", "#", ",", "-"}

(* ... has no marks up to the next '{' or the comment, and such a place     *)
(* follows behind the braces.                                               *)
LEMMA Segment ==
  ASSUME NEW t \in Text, WellFormed(t), NEW k \in Nat, Between(t, k)
  PROVE  \E o \in k .. Stop(t) :
           /\ Unmarked(t, k, o)
           /\ o # Stop(t) => Braced(t, o) /\ Between(t, Closing(t, o) + 1)
<1>1. PICK n \in Nat : n = Len(t) /\ End(t) = n + 1
  BY DEF Text, End
<1>2. PICK h \in 1 .. n + 1 : h = Stop(t)
  BY <1>1, WellFormedIs
<1>3. /\ \A o \in 1 .. h - 1 : t[o] = "{" => Braced(t, o)
      /\ \A i \in 1 .. h - 1 : t[i] \in Bound =>
              \E o \in 1 .. i - 1 : t[o] = "{" /\ i <= Closing(t, o)
  BY <1>2, WellFormedIs
<1>4. k \in 1 .. h /\ \A o \in 1 .. k - 1 : t[o] = "{" => Closing(t, o) < k
  BY <1>2 DEF Between
<1>k. k \in 1 .. h
  BY <1>4
<1>c. PICK C : C = {"{", "#"}
  OBVIOUS
<1>5. PICK o \in Nat : First(t, k, C, o)
  <2>1. k \in Nat /\ k <= End(t) /\ Len(t) \in Nat
    BY <1>1, <1>k
  <2>2. First(t, k, C, Find(t, k, C))
    BY <2>1, FindIs
  <2>3. Find(t, k, C) \in k .. n + 1
    BY <1>1, <2>2 DEF First
  <2>4. Find(t, k, C) \in Nat
    BY <2>3
  <2> QED BY <2>2, <2>4
<1>6. \A j \in 1 .. h - 1 : t[j] # "#"
  <2>1. 1 \in Nat /\ 1 <= End(t) /\ Len(t) \in Nat
    BY <1>1
  <2>2. First(t, 1, {"#"}, h)
    BY <1>2, <2>1, FindIs DEF Stop
  <2> QED BY <2>2 DEF First
<1>7. h <= n => t[h] = "#"
  <2>1. 1 \in Nat /\ 1 <= End(t) /\ Len(t) \in Nat
    BY <1>1
  <2>2. First(t, 1, {"#"}, h)
    BY <1>2, <2>1, FindIs DEF Stop
  <2> QED BY <1>1, <2>2 DEF First
<1>8. o \in k .. n + 1
  BY <1>1, <1>5 DEF First
<1>9. o \in k .. h
  <2> SUFFICES ASSUME h < o PROVE FALSE
    BY <1>k, <1>8
  <2>1. h <= n /\ h \in k .. o - 1
    BY <1>k, <1>8
  <2> QED BY <1>5, <1>7, <1>c, <2>1 DEF First
<1>10. \A j \in k .. o - 1 : t[j] \notin {"{", "#"}
  BY <1>5, <1>c DEF First
<1>11. Unmarked(t, k, o)
  <2> SUFFICES ASSUME NEW j \in k .. o - 1, t[j] \in Bound PROVE FALSE
    BY <1>10 DEF Unmarked, Bound
  <2>0. j \in 1 .. h - 1
    BY <1>k, <1>9
  <2>1. PICK i \in 1 .. j - 1 : t[i] = "{" /\ j <= Closing(t, i)
    BY <1>3, <2>0
  <2>2. CASE i < k
    <3>1. i \in 1 .. k - 1
      BY <1>k, <2>2
    <3>2. Closing(t, i) < k
      BY <1>4, <2>1, <3>1
    <3>3. i \in 1 .. h - 1
      BY <2>0
    <3>4. Closing(t, i) \in i + 1 .. h - 1
      BY <1>2, <1>3, <2>1, <3>3 DEF Braced
    <3>5. PICK c \in Int : c = Closing(t, i)
      <4>1. i \in Int /\ h \in Int
        OBVIOUS
      <4> QED BY <3>4, <4>1
    <3>6. j <= c
      BY <2>1, <3>5
    <3> QED BY <1>k, <3>2, <3>5, <3>6
  <2>3. CASE ~ (i < k)
    <3>1. i \in k .. o - 1
      BY <1>k, <1>9, <2>3
    <3> QED BY <1>10, <2>1, <3>1
  <2> QED BY <2>2, <2>3
<1>12. CASE o = h
  BY <1>2, <1>9, <1>11, <1>12
<1>13. CASE o # h
  <2>1. o \in 1 .. h - 1 /\ o <= n
    BY <1>2, <1>k, <1>9, <1>13
  <2>2. t[o] = "{"
    <3>1. t[o] \in {"{", "#"}
      BY <1>1, <1>5, <1>c, <2>1 DEF First
    <3> QED BY <1>6, <2>1, <3>1
  <2>3. Braced(t, o)
    BY <1>3, <2>1, <2>2
  <2>4. PICK c \in o + 1 .. h - 1 : c = Closing(t, o)
    BY <1>2, <2>3 DEF Braced
  <2>5. ASSUME NEW i \in 1 .. c, t[i] = "{" PROVE Closing(t, i) < c + 1
    <3>1. CASE i < k
      <4>1. i \in 1 .. k - 1 /\ i \in 1 .. h - 1
        BY <1>k, <3>1
      <4>2. Closing(t, i) < k
        BY <1>4, <2>5, <4>1
      <4>3. PICK e \in Int : e = Closing(t, i)
        <5>1. Closing(t, i) \in i + 1 .. h - 1
          BY <1>2, <1>3, <2>5, <4>1 DEF Braced
        <5> QED BY <5>1
      <4> QED BY <1>k, <1>9, <2>4, <4>2, <4>3
    <3>2. CASE i \in k .. o - 1
      BY <1>10, <2>5, <3>2
    <3>3. CASE i = o
      BY <2>4, <3>3
    <3>4. CASE i \in o + 1 .. c - 1
      <4>1. t[i] \in Digit \cup {",", "-"}
        BY <1>1, <1>2, <2>1, <2>3, <2>4, <3>4, InnerChars
      <4> QED BY <2>5, <4>1, DigitsPlain
    <3>5. CASE i = c
      BY <2>3, <2>4, <2>5, <3>5 DEF Braced
    <3>6. i < k \/ i \in k .. o - 1 \/ i = o \/ i \in o + 1 .. c - 1 \/ i = c
      BY <1>k, <1>9, <2>4
    <3> QED BY <3>1, <3>2, <3>3, <3>4, <3>5, <3>6
  <2>6. Between(t, c + 1)
    <3>1. PICK b \in 1 .. h : b = c + 1
      BY <2>4
    <3>2. \A i \in 1 .. b - 1 : i \in 1 .. c
      BY <3>1
    <3>3. \A i \in 1 .. c : t[i] = "{" => Closing(t, i) < b
      BY <2>5, <3>1, Zenon
    <3>4. Between(t, b)
      BY <1>2, <3>2, <3>3, Zenon DEF Between
    <3> QED BY <3>1, <3>4
  <2> QED BY <1>2, <1>9, <1>11, <2>3, <2>4, <2>6
<1> QED
  BY <1>12, <1>13

(* The choices between two braces are texts. *)
LEMMA ChoicesTexts ==
  ASSUME NEW d \in Text
  PROVE  Choices(d) \in SUBSET Text
<1>1. CASE IsRange(d)
  <2>1. PICK a \in Nat, b \in Nat : a = Value(From(d)) /\ b = Value(To(d))
    BY <1>1, RangeIs
  <2>2. Choices(d) = {Fmt(n) : n \in a .. b}
    BY <1>1, <2>1, Zenon DEF Choices
  <2>3. ASSUME NEW n \in a .. b PROVE Fmt(n) \in Text
    <3>1. n \in Nat /\ n >= 0
      OBVIOUS
    <3>2. Fmt(n) = fmt_uint[n]
      BY <3>1 DEF Fmt
    <3>3. fmt_uint[n] \in Seq(Digit)
      BY <3>1, NumberTexts
    <3> QED BY <3>2, <3>3, SeqMonotonic DEF Text, Char
  <2> QED BY <2>2, <2>3
<1>2. CASE ~IsRange(d)
  <2>1. PICK n \in Nat : n = Len(d) /\ End(d) = n + 1 /\ DOMAIN d = 1 .. n
    BY DEF Text, End
  <2>c. PICK C : C = {","}
    OBVIOUS
  <2>2. ASSUME NEW i \in 1 .. n PROVE SubSeq(d, i, Find(d, i, C) - 1) \in Text
    <3>1. i \in Nat /\ i <= End(d) /\ Len(d) \in Nat
      BY <2>1
    <3>2. First(d, i, C, Find(d, i, C))
      BY <3>1, FindIs
    <3>3. PICK e \in i .. n + 1 : e = Find(d, i, C)
      BY <2>1, <3>2 DEF First
    <3>4. i \in Int /\ e - 1 \in Int /\ \A j \in i .. e - 1 : j \in 1 .. n
      BY <3>3
    <3>5. \A j \in i .. e - 1 : d[j] \in Char
      BY <2>1, <3>4 DEF Text
    <3>6. SubSeq(d, i, e - 1) \in Seq(Char)
      BY <3>4, <3>5, SubSeqProperties
    <3> QED BY <3>3, <3>6 DEF Text
  <2>3. Choices(d) = {SubSeq(d, i, Find(d, i, C) - 1) :
                        i \in {j \in DOMAIN d : j = 1 \/ d[j - 1] = ","}}
    BY <1>2, <2>c, Zenon DEF Choices
  <2>4. {j \in DOMAIN d : j = 1 \/ d[j - 1] = ","} \subseteq 1 .. n
    BY <2>1
  <2> QED BY <2>2, <2>3, <2>4
<1> QED
  BY <1>1, <1>2

(* One text behind another. *)
LEMMA JoinedIs ==
  ASSUME NEW C, NEW D, NEW z
  PROVE  z \in Joined(C, D) <=> \E c \in C, d \in D : z = c \o d
BY DEF Joined

(* It is one. *)
LEMMA JoinedTexts ==
  ASSUME NEW C \in SUBSET Text, NEW D \in SUBSET Text
  PROVE  Joined(C, D) \in SUBSET Text
<1>1. ASSUME NEW c \in C, NEW d \in D PROVE c \o d \in Text
  BY ConcatProperties DEF Text
<1> QED
  <2> SUFFICES ASSUME NEW z \in Joined(C, D) PROVE z \in Text
    BY Zenon
  <2>1. PICK c \in C, d \in D : z = c \o d
    BY JoinedIs
  <2> QED BY <1>1, <2>1, Zenon

(* The place that the meaning of a text from i on depends on, and how. *)
Ranging(t, i) == t[i] = "{" /\ i < Stop(t)

Ahead(t, i) == IF Ranging(t, i) THEN Closing(t, i) + 1 ELSE i + 1

Spell(t, i, s) ==
  Joined(IF Ranging(t, i) THEN Choices(Inner(t, i)) ELSE {<<t[i]>>}, s)

(* It is behind i, and the meaning is a set of texts. *)
LEMMA SpellTexts ==
  ASSUME NEW t \in Text, WellFormed(t), NEW i \in 1 .. Len(t), NEW s \in SUBSET Text
  PROVE  Ahead(t, i) \in i + 1 .. Len(t) + 1 /\ Spell(t, i, s) \in SUBSET Text
<1>1. PICK n \in Nat : n = Len(t)
  BY DEF Text
<1>2. PICK h \in 1 .. n + 1 : h = Stop(t)
  BY <1>1, WellFormedIs
<1>3. CASE Ranging(t, i)
  <2>1. i \in 1 .. h - 1
    <3>1. i < h
      BY <1>2, <1>3 DEF Ranging
    <3> QED BY <1>1, <3>1
  <2>2. Braced(t, i)
    BY <1>2, <1>3, <2>1, WellFormedIs DEF Ranging
  <2>3. Closing(t, i) \in i + 1 .. h - 1
    BY <1>2, <2>2 DEF Braced
  <2>4. Ahead(t, i) \in i + 1 .. n + 1
    <3>1. Ahead(t, i) = Closing(t, i) + 1
      BY <1>3 DEF Ahead
    <3>2. PICK c \in i + 1 .. h - 1 : c = Closing(t, i)
      BY <2>3
    <3> QED BY <1>1, <3>1, <3>2
  <2>5. Inner(t, i) \in Text
    BY <1>1, <1>2, <2>1, <2>3, InnerIs
  <2>6. Choices(Inner(t, i)) \in SUBSET Text
    BY <2>5, ChoicesTexts
  <2>7. Spell(t, i, s) = Joined(Choices(Inner(t, i)), s)
    BY <1>3, Zenon DEF Spell
  <2> QED BY <1>1, <2>4, <2>6, <2>7, JoinedTexts
<1>4. CASE ~Ranging(t, i)
  <2>1. Ahead(t, i) \in i + 1 .. n + 1
    BY <1>1, <1>4 DEF Ahead
  <2>2. <<t[i]>> \in Text
    <3>1. t[i] \in Char
      BY ElementOfSeq DEF Text
    <3> QED BY <3>1 DEF Text
  <2>3. {<<t[i]>>} \in SUBSET Text
    BY <2>2
  <2>4. Spell(t, i, s) = Joined({<<t[i]>>}, s)
    BY <1>4, Zenon DEF Spell
  <2> QED BY <1>1, <2>1, <2>3, <2>4, JoinedTexts
<1> QED
  BY <1>3, <1>4

(* The meanings of a well-formed line, from its end to its beginning. *)
LEMMA MeaningsAre ==
  ASSUME NEW t \in Text, WellFormed(t)
  PROVE  /\ Meanings(t) \in [1 .. Len(t) + 1 -> SUBSET Text]
         /\ Meanings(t)[Len(t) + 1] = {<<>>}
         /\ \A i \in 1 .. Len(t) : Meanings(t)[i] = Spell(t, i, Meanings(t)[Ahead(t, i)])
<1>1. PICK n \in Nat : n = Len(t) /\ End(t) = n + 1
  BY DEF Text, End
<1> DEFINE S == SUBSET Text
           E == n + 1
           G(f, i) == IF i = End(t) THEN {<<>>}
                      ELSE IF t[i] = "{" /\ i < Stop(t)
                      THEN Joined(Choices(Inner(t, i)), f[Closing(t, i) + 1])
                      ELSE Joined({<<t[i]>>}, f[i + 1])
           Rec(f) == [i \in 1 .. End(t) |-> G(f, i)]
           M == CHOOSE f : f = Rec(f)
           p == [j \in Nat |-> IF j \in 1 .. n THEN E - Ahead(t, E - j) ELSE 0]
           F == [j \in Nat |-> [s \in S |-> IF j \in 1 .. n THEN Spell(t, E - j, s) ELSE s]]
<1>2. \A i \in 1 .. n, s \in S : Ahead(t, i) \in i + 1 .. E /\ Spell(t, i, s) \in S
  BY <1>1, SpellTexts
<1>e. {<<>>} \in S
  BY DEF Text
<1>3. \A f : \A i \in 1 .. n : G(f, i) = Spell(t, i, f[Ahead(t, i)])
  <2> SUFFICES ASSUME NEW f, NEW i \in 1 .. n PROVE G(f, i) = Spell(t, i, f[Ahead(t, i)])
    BY Zenon
  <2>1. i # End(t)
    BY <1>1
  <2>2. CASE Ranging(t, i)
    BY <2>1, <2>2, Zenon DEF Spell, Ahead, Ranging
  <2>3. CASE ~Ranging(t, i)
    BY <2>1, <2>3, Zenon DEF Spell, Ahead, Ranging
  <2> QED BY <2>2, <2>3, Zenon
<1>4. \A f : G(f, End(t)) = {<<>>}
  OBVIOUS
<1> HIDE DEF G, S
<1>5. p \in [Nat -> Nat] /\ \A j \in Nat : j # 0 => p[j] < j
  <2> SUFFICES ASSUME NEW j \in Nat PROVE p[j] \in Nat /\ (j # 0 => p[j] < j)
    OBVIOUS
  <2>1. CASE j \in 1 .. n
    <3>1. E - j \in 1 .. n
      BY <2>1
    <3>2. Ahead(t, E - j) \in E - j + 1 .. E
      BY <1>2, <1>e, <3>1
    <3>3. p[j] = E - Ahead(t, E - j)
      BY <2>1
    <3>4. PICK a \in E - j + 1 .. E : a = Ahead(t, E - j)
      BY <3>2
    <3> QED BY <3>3, <3>4
  <2>2. CASE j \notin 1 .. n
    BY <2>2
  <2> QED BY <2>1, <2>2
<1>6. F \in [Nat -> [S -> S]]
  <2>1. ASSUME NEW j \in Nat, NEW s \in S
        PROVE  (IF j \in 1 .. n THEN Spell(t, E - j, s) ELSE s) \in S
    <3>1. j \in 1 .. n => E - j \in 1 .. n
      OBVIOUS
    <3> QED BY <1>2, <3>1
  <2> QED BY <2>1
<1>7. PICK g : Computes(S, {<<>>}, p, F, g)
  <2> HIDE DEF p, F
  <2> QED BY <1>5, <1>6, <1>e, Recursion
<1> DEFINE w == [i \in 1 .. E |-> g[E - i]]
<1>8. w = Rec(w)
  <2>1. g \in [Nat -> S] /\ g[0] = {<<>>}
    BY <1>7 DEF Computes
  <2>2. ASSUME NEW i \in 1 .. n PROVE w[i] = G(w, i)
    <3>1. PICK j \in 1 .. n : j = E - i /\ E - j = i /\ j # 0
      <4>1. E - i \in 1 .. n /\ E - (E - i) = i /\ E - i # 0
        OBVIOUS
      <4> QED BY <4>1
    <3>2. PICK a \in i + 1 .. E : a = Ahead(t, i)
      BY <1>2, <1>e
    <3>3. p[j] = E - a /\ p[j] \in Nat
      BY <3>1, <3>2
    <3>4. g[j] = F[j][g[p[j]]]
      <4>1. j \in Nat /\ j # 0
        BY <3>1
      <4> QED BY <1>7, <4>1 DEF Computes
    <3>5. g[p[j]] \in S
      BY <2>1, <3>3
    <3>6. F[j][g[p[j]]] = Spell(t, i, g[p[j]])
      BY <3>1, <3>5
    <3>7. a \in 1 .. E /\ i \in 1 .. E
      BY <3>2
    <3>8. w[a] = g[p[j]] /\ w[i] = g[j]
      BY <3>1, <3>3, <3>7
    <3>9. w[i] = Spell(t, i, w[a])
      BY <3>4, <3>6, <3>8, Zenon
    <3> QED BY <1>3, <3>2, <3>9, Zenon
  <2>3. w[E] = G(w, E)
    <3>1. E \in 1 .. E /\ E - E = 0
      OBVIOUS
    <3>2. w[E] = {<<>>}
      BY <2>1, <3>1
    <3> QED BY <1>1, <1>4, <3>2
  <2>4. \A i \in 1 .. E : w[i] = G(w, i)
    <3>1. \A i \in 1 .. E : i \in 1 .. n \/ i = E
      OBVIOUS
    <3> HIDE DEF w, E
    <3> QED BY <2>2, <2>3, <3>1
  <2>5. DOMAIN w = 1 .. E /\ w = [i \in 1 .. E |-> w[i]]
    OBVIOUS
  <2> HIDE DEF w
  <2> QED BY <1>1, <2>4, <2>5
<1> HIDE DEF w, F, p
<1>9. M = Rec(M)
  <2>1. \E f : f = Rec(f)
    BY <1>8
  <2> HIDE DEF Rec
  <2> QED BY <2>1
<1>10. Meanings(t) = M
  BY Zenon DEF Meanings, G
<1> HIDE DEF M
<1>11. DOMAIN M = 1 .. E /\ \A i \in 1 .. E : M[i] = G(M, i)
  BY <1>1, <1>9
<1> HIDE DEF Rec
<1>12. M[E] = {<<>>}
  <2>1. E \in 1 .. E /\ E = End(t)
    BY <1>1
  <2> QED BY <1>4, <1>11, <2>1
<1>13. \A i \in 1 .. n : M[i] = Spell(t, i, M[Ahead(t, i)])
  <2> SUFFICES ASSUME NEW i \in 1 .. n PROVE M[i] = Spell(t, i, M[Ahead(t, i)])
    OBVIOUS
  <2>1. i \in 1 .. E
    OBVIOUS
  <2> QED BY <1>3, <1>11, <2>1, Zenon
<1> DEFINE T == {j \in 0 .. n : ~ (M[E - j] \in S)}
<1>14. T = {}
  <2> SUFFICES ASSUME T # {} PROVE FALSE
    OBVIOUS
  <2>0. T \in SUBSET Nat
    OBVIOUS
  <2>1. PICK j \in T : \A k \in T : j <= k
    <3> HIDE DEF T
    <3> QED BY <2>0, LeastNumber
  <2>2. j \in 0 .. n /\ j # 0
    <3>1. j \in 0 .. n /\ ~ (M[E - j] \in S)
      BY <2>1
    <3>2. j = 0 => E - j = E
      OBVIOUS
    <3> QED BY <1>12, <1>e, <3>1, <3>2, Zenon
  <2>3. PICK i \in 1 .. n : i = E - j
    BY <2>2
  <2>4. PICK a \in i + 1 .. E : a = Ahead(t, i)
    BY <1>2, <1>e
  <2>5. PICK k \in 0 .. n : k = E - a /\ E - k = a /\ k < j
    <3>1. E - a \in 0 .. n /\ E - (E - a) = a /\ E - a < j
      BY <2>2, <2>3, <2>4
    <3> QED BY <3>1
  <2>6. k \notin T
    <3>1. ~ (j <= k)
      BY <2>2, <2>5
    <3> QED BY <2>1, <3>1
  <2>7. M[a] \in S
    BY <2>5, <2>6
  <2>8. M[i] \in S
    BY <1>2, <1>13, <2>4, <2>7
  <2>9. ~ (M[E - j] \in S)
    BY <2>1
  <2> QED BY <2>3, <2>8, <2>9, Zenon
<1>15. ASSUME NEW i \in 1 .. E PROVE M[i] \in S
  <2>1. PICK j \in 0 .. n : E - j = i
    <3>1. E - i \in 0 .. n /\ E - (E - i) = i
      OBVIOUS
    <3> QED BY <3>1
  <2>2. j \notin T
    BY <1>14
  <2> HIDE DEF E
  <2> QED BY <2>1, <2>2
<1>16. M \in [1 .. E -> S]
  <2>1. M = [i \in 1 .. E |-> M[i]]
    BY <1>1, <1>9 DEF Rec
  <2> QED BY <1>15, <2>1
<1> QED
  BY <1>1, <1>10, <1>12, <1>13, <1>16, Zenon DEF S

(* Joining is associative, distributes over unions, and an empty text does  *)
(* nothing.                                                                 *)
LEMMA JoinedAgain ==
  ASSUME NEW A \in SUBSET Text, NEW B \in SUBSET Text, NEW C \in SUBSET Text
  PROVE  Joined(Joined(A, B), C) = Joined(A, Joined(B, C))
<1>0. \A a \in A, b \in B, c \in C : (a \o b) \o c = a \o (b \o c)
  BY ConcatAssociative DEF Text
<1>1. ASSUME NEW z \in Joined(Joined(A, B), C) PROVE z \in Joined(A, Joined(B, C))
  <2>1. PICK y \in Joined(A, B), c \in C : z = y \o c
    BY JoinedIs
  <2>2. PICK a \in A, b \in B : y = a \o b
    BY JoinedIs
  <2>3. z = a \o (b \o c)
    BY <1>0, <2>1, <2>2, Zenon
  <2>4. b \o c \in Joined(B, C)
    BY JoinedIs
  <2> QED BY <2>3, <2>4, JoinedIs
<1>2. ASSUME NEW z \in Joined(A, Joined(B, C)) PROVE z \in Joined(Joined(A, B), C)
  <2>1. PICK a \in A, y \in Joined(B, C) : z = a \o y
    BY JoinedIs
  <2>2. PICK b \in B, c \in C : y = b \o c
    BY JoinedIs
  <2>3. z = (a \o b) \o c
    BY <1>0, <2>1, <2>2, Zenon
  <2>4. a \o b \in Joined(A, B)
    BY JoinedIs
  <2> QED BY <2>3, <2>4, JoinedIs
<1> QED
  BY <1>1, <1>2, Zenon

(* The others. *)
LEMMA JoinedSingle ==
  ASSUME NEW a \in Text, NEW b \in Text, NEW C \in SUBSET Text
  PROVE  Joined({a}, {b}) = {a \o b} /\ Joined({<<>>}, C) = C
<1>1. Joined({a}, {b}) = {a \o b}
  BY DEF Joined
<1>2. \A c \in C : <<>> \o c = c
  BY ConcatEmptySeq DEF Text
<1>3. ASSUME NEW z PROVE z \in Joined({<<>>}, C) <=> z \in C
  <2>1. PICK e, X : e = <<>> /\ X = {e}
    OBVIOUS
  <2>2. z \in Joined(X, C) <=> \E f \in X, c \in C : z = f \o c
    BY JoinedIs, SMTT(60)
  <2>3. z \in Joined(X, C) <=> \E c \in C : z = e \o c
    BY <2>1, <2>2
  <2> QED BY <1>2, <2>1, <2>3, Zenon
<1> QED
  BY <1>1, <1>3, Zenon

(* Unions. *)
LEMMA JoinedUnion ==
  ASSUME NEW A, NEW B, NEW C
  PROVE  /\ Joined(A \cup B, C) = Joined(A, C) \cup Joined(B, C)
         /\ Joined({}, C) = {} /\ Joined(C, {}) = {}
<1>1. Joined({}, C) = {} /\ Joined(C, {}) = {}
  BY DEF Joined
<1>2. ASSUME NEW z
      PROVE  z \in Joined(A \cup B, C) <=> z \in Joined(A, C) \/ z \in Joined(B, C)
  <2>1. PICK U : U = A \cup B
    OBVIOUS
  <2>2. z \in Joined(U, C) <=> \E c \in U, d \in C : z = c \o d
    BY JoinedIs
  <2>3. /\ z \in Joined(A, C) <=> \E c \in A, d \in C : z = c \o d
        /\ z \in Joined(B, C) <=> \E c \in B, d \in C : z = c \o d
    BY JoinedIs
  <2> QED BY <2>1, <2>2, <2>3
<1> QED
  BY <1>1, <1>2, Zenon

(* A text from its first character on. *)
LEMMA FirstAndRest ==
  ASSUME NEW t \in Text, NEW k \in Nat \ {0}, NEW o \in Nat, k < o, o <= Len(t) + 1
  PROVE  <<t[k]>> \o SubSeq(t, k + 1, o - 1) = SubSeq(t, k, o - 1)
<1>1. PICK n \in Nat : n = Len(t)
  BY DEF Text
<1>2. k \in 1 .. n + 1 /\ k \in k - 1 .. n /\ o - 1 \in k .. n
  BY <1>1
<1>3. SubSeq(t, k, k) \o SubSeq(t, k + 1, o - 1) = SubSeq(t, k, o - 1)
  BY <1>1, <1>2, ConcatAdjacentSubSeq DEF Text
<1>4. SubSeq(t, k, k) = <<t[k]>>
  <2>1. k + 1 - 1 = k /\ k + 1 <= n + 1 /\ 1 \in Nat
    BY <1>1, <1>2
  <2>2. PICK u : u = SubSeq(t, k, k + 1 - 1)
    OBVIOUS
  <2>3. u \in Text /\ Len(u) = 1 /\ \A i \in 1 .. 1 : u[i] = t[k + i - 1]
    BY <1>1, <2>1, <2>2, Piece
  <2>4. u[1] = t[k]
    <3>1. k + 1 - 1 = k /\ 1 \in 1 .. 1
      OBVIOUS
    <3> QED BY <2>3, <3>1
  <2>5. u = <<t[k]>>
    BY <2>3, <2>4 DEF Text
  <2> QED BY <2>1, <2>2, <2>5, Zenon
<1> QED
  BY <1>3, <1>4, Zenon

(* A part without braces stands for itself. *)
LEMMA PlainPart ==
  ASSUME NEW t \in Text, WellFormed(t), NEW o \in 1 .. Len(t) + 1, NEW b \in 1 .. o,
         \A j \in b .. o - 1 : ~Ranging(t, j)
  PROVE  Meanings(t)[b] = Joined({SubSeq(t, b, o - 1)}, Meanings(t)[o])
<1>1. PICK n \in Nat : n = Len(t)
  BY DEF Text
<1>2. PICK M \in [1 .. n + 1 -> SUBSET Text] :
        M = Meanings(t) /\ \A i \in 1 .. n : M[i] = Spell(t, i, M[Ahead(t, i)])
  BY <1>1, MeaningsAre
<1>p. ASSUME NEW k \in b .. o PROVE SubSeq(t, k, o - 1) \in Text
  <2>1. PICK m \in Nat : m = o - k /\ k + m - 1 = o - 1 /\ k + m <= Len(t) + 1 /\ k \in Nat \ {0}
    <3>1. o - k \in Nat /\ k + (o - k) - 1 = o - 1 /\ k + (o - k) <= Len(t) + 1 /\ k \in Nat \ {0}
      BY <1>1
    <3> QED BY <3>1
  <2>2. SubSeq(t, k, k + m - 1) \in Text
    BY <2>1, Piece
  <2> QED BY <2>1, <2>2, Zenon
<1> DEFINE Q(k) == M[k] = Joined({SubSeq(t, k, o - 1)}, M[o])
           T == {m \in 0 .. o - b : ~ Q(o - m)}
<1>3. ASSUME NEW m \in 0 .. o - b, m = 0 \/ Q(o - (m - 1)) PROVE Q(o - m)
  <2>1. M[o] \in SUBSET Text
    BY <1>1, <1>2
  <2>2. CASE m = 0
    <3>1. o - m = o
      BY <2>2
    <3>2. SubSeq(t, o, o - 1) = <<>>
      <4>1. o \in Int /\ o - 1 \in Int /\ o - 1 < o
        BY <1>1
      <4> QED BY <4>1, SubSeqEmpty
    <3>3. <<>> \in Text
      BY DEF Text
    <3>4. Joined({<<>>}, M[o]) = M[o]
      BY <2>1, <3>3, JoinedSingle
    <3>5. Q(o)
      BY <3>2, <3>4, Zenon
    <3> QED BY <3>1, <3>5, Zenon
  <2>3. CASE m # 0
    <3>1. PICK k \in b .. o - 1 : k = o - m /\ k + 1 = o - (m - 1)
      <4>1. o - m \in b .. o - 1 /\ o - m + 1 = o - (m - 1)
        BY <1>1, <2>3
      <4> QED BY <4>1
    <3>2. k \in 1 .. n /\ k + 1 \in b .. o /\ k \in Nat \ {0}
      BY <1>1
    <3>3. M[k + 1] = Joined({SubSeq(t, k + 1, o - 1)}, M[o])
      BY <1>3, <2>3, <3>1, Zenon
    <3>4. ~Ranging(t, k)
      OBVIOUS
    <3>5. M[k] = Joined({<<t[k]>>}, M[k + 1])
      <4>1. M[k] = Spell(t, k, M[Ahead(t, k)])
        BY <1>2, <3>2
      <4>2. Ahead(t, k) = k + 1
        BY <3>4, Zenon DEF Ahead
      <4> QED BY <3>4, <4>1, <4>2, Zenon DEF Spell
    <3>6. PICK x \in Text, y \in Text : x = <<t[k]>> /\ y = SubSeq(t, k + 1, o - 1)
      <4>1. t[k] \in Char
        BY <1>1, <3>2, ElementOfSeq DEF Text
      <4>2. <<t[k]>> \in Text
        BY <4>1 DEF Text
      <4>3. SubSeq(t, k + 1, o - 1) \in Text
        BY <1>p, <3>2
      <4> QED BY <4>2, <4>3
    <3>7. x \o y = SubSeq(t, k, o - 1)
      <4>1. k < o /\ o <= Len(t) + 1 /\ o \in Nat
        BY <1>1, <3>1
      <4> QED BY <3>2, <3>6, <4>1, FirstAndRest
    <3>8. Joined({x}, Joined({y}, M[o])) = Joined(Joined({x}, {y}), M[o])
      <4>1. {x} \in SUBSET Text /\ {y} \in SUBSET Text
        OBVIOUS
      <4> QED BY <2>1, <4>1, JoinedAgain
    <3>9. Joined({x}, {y}) = {x \o y}
      BY <2>1, JoinedSingle
    <3>10. Q(k)
      BY <3>3, <3>5, <3>6, <3>7, <3>8, <3>9, Zenon
    <3> QED BY <3>1, <3>10, Zenon
  <2> QED BY <2>2, <2>3
<1> HIDE DEF Q
<1>4. T = {}
  <2> SUFFICES ASSUME T # {} PROVE FALSE
    OBVIOUS
  <2>0. o - b \in Nat /\ T \in SUBSET Nat
    BY <1>1
  <2>1. PICK m \in T : \A k \in T : m <= k
    <3> HIDE DEF T
    <3> QED BY <2>0, LeastNumber
  <2>2. m \in 0 .. o - b /\ ~Q(o - m)
    BY <2>1
  <2>3. m # 0 => m - 1 \in 0 .. o - b /\ ~ (m <= m - 1)
    BY <2>0, <2>2
  <2>4. m # 0 => Q(o - (m - 1))
    BY <2>1, <2>3
  <2> QED BY <1>3, <2>2, <2>4
<1>5. Q(b)
  <2>1. PICK m \in 0 .. o - b : o - m = b
    <3>1. o - b \in 0 .. o - b /\ o - (o - b) = b
      BY <1>1
    <3> QED BY <3>1
  <2>2. Q(o - m)
    BY <1>4
  <2> QED BY <2>1, <2>2, Zenon
<1> QED
  BY <1>2, <1>5, Zenon DEF Q

(* The items of a list, as Choices takes them from the text between braces. *)
Comma == {","}

Item(l, i) == SubSeq(l, i, Find(l, i, Comma) - 1)
Starts(l) == {j \in DOMAIN l : j = 1 \/ l[j - 1] \in Comma}
Items(l) == {Item(l, i) : i \in Starts(l)}

(* A list is its first item and the rest. *)
LEMMA ItemsNext ==
  ASSUME NEW l \in Text, l # <<>>, NEW p \in Nat, p = Find(l, 1, Comma)
  PROVE  /\ p \in 1 .. Len(l) + 1
         /\ Items(l) = {SubSeq(l, 1, p - 1)} \cup Items(SubSeq(l, p + 1, Len(l)))
<1>1. PICK n \in Nat \ {0} : n = Len(l) /\ End(l) = n + 1 /\ DOMAIN l = 1 .. n
  <2>1. Len(l) \in Nat /\ Len(l) # 0 /\ DOMAIN l = 1 .. Len(l)
    BY EmptySeq DEF Text
  <2> QED BY <2>1 DEF End
<1>2. First(l, 1, Comma, p)
  <2>1. 1 \in Nat /\ 1 <= End(l) /\ Len(l) \in Nat
    BY <1>1
  <2> QED BY <2>1, FindIs
<1>3. p \in 1 .. n + 1 /\ (p <= n => l[p] \in Comma) /\ \A j \in 1 .. p - 1 : l[j] \notin Comma
  BY <1>1, <1>2 DEF First
<1>4. 1 \in Starts(l) /\ Item(l, 1) = SubSeq(l, 1, p - 1)
  BY <1>1 DEF Starts, Item
<1>5. CASE p = n + 1
  <2>1. SubSeq(l, p + 1, n) = <<>>
    <3>1. p + 1 \in Int /\ n \in Int /\ n < p + 1
      BY <1>5
    <3> QED BY <3>1, SubSeqEmpty
  <2>2. Items(<<>>) = {}
    BY DEF Items, Starts
  <2>3. ASSUME NEW j \in Starts(l) PROVE j = 1
    <3>1. j \in 1 .. n /\ (j = 1 \/ l[j - 1] \in Comma)
      BY <1>1 DEF Starts
    <3>2. j # 1 => j - 1 \in 1 .. p - 1
      BY <1>5, <3>1
    <3> QED BY <1>3, <3>1, <3>2
  <2>4. Items(l) = {Item(l, 1)}
    BY <1>4, <2>3 DEF Items
  <2> QED BY <1>1, <1>3, <1>4, <2>1, <2>2, <2>4
<1>6. CASE p # n + 1
  <2>p. p \in 1 .. n
    BY <1>3, <1>6
  <2>1. PICK y \in Text : y = SubSeq(l, 1, p) /\ Len(y) = p
    <3>1. p \in 0 .. Len(l)
      BY <1>1, <2>p
    <3> QED BY <3>1, Beginning
  <2>2. PICK m \in Nat : m = n - p /\ p + 1 + m - 1 = n /\ p + 1 + m <= Len(l) + 1
    <3>1. n - p \in Nat /\ p + 1 + (n - p) - 1 = n /\ p + 1 + (n - p) <= Len(l) + 1
      BY <1>1, <2>p
    <3> QED BY <3>1
  <2>3. PICK s \in Text : s = SubSeq(l, p + 1, n) /\ Len(s) = m
    <3>1. p + 1 \in Nat \ {0}
      BY <2>p
    <3>2. SubSeq(l, p + 1, p + 1 + m - 1) \in Text /\ Len(SubSeq(l, p + 1, p + 1 + m - 1)) = m
      BY <2>2, <3>1, Piece
    <3> QED BY <2>2, <3>2, Zenon
  <2>4. l = y \o s
    <3>1. /\ 1 \in 1 .. Len(l) + 1 /\ p \in 1 - 1 .. Len(l) /\ n \in p .. Len(l)
      BY <1>1, <2>p
    <3>2. SubSeq(l, 1, p) \o SubSeq(l, p + 1, n) = SubSeq(l, 1, n)
      BY <3>1, ConcatAdjacentSubSeq DEF Text
    <3>3. SubSeq(l, 1, n) = l
      BY <1>1, SubSeqFull DEF Text
    <3> QED BY <2>1, <2>3, <3>2, <3>3, Zenon
  <2>5. \A i \in 1 .. m : l[p + i] = s[i]
    <3>1. \A i \in 1 .. Len(s) : (y \o s)[Len(y) + i] = s[i]
      BY Behind
    <3> QED BY <2>1, <2>3, <2>4, <3>1, Zenon
  <2>6. ASSUME NEW i \in 1 .. m PROVE Item(l, p + i) = Item(s, i)
    <3>0. Len(s) = m
      BY <2>3
    <3>1. i \in Nat \ {0} /\ i <= Len(s) + 1
      BY <3>0
    <3>a. Find(y \o s, Len(y) + i, Comma) = Len(y) + Find(s, i, Comma)
      BY <3>1, FindBehind
    <3>2. Find(l, p + i, Comma) = p + Find(s, i, Comma)
      BY <2>1, <2>4, <3>a, Zenon
    <3>3. First(s, i, Comma, Find(s, i, Comma))
      <4>1. Len(s) \in Nat /\ i \in Nat /\ i <= End(s)
        BY <2>3, <3>1 DEF End
      <4> QED BY <4>1, FindIs
    <3>4. PICK e \in i .. m + 1 : e = Find(s, i, Comma)
      BY <2>3, <3>3 DEF First, End
    <3>5. PICK k \in Int : k = e - 1 /\ k <= Len(s) /\ p + e - 1 = p + k
      <4>1. e - 1 \in Int /\ e - 1 <= Len(s) /\ p + e - 1 = p + (e - 1)
        BY <2>p, <2>3
      <4> QED BY <4>1
    <3>b. SubSeq(y \o s, Len(y) + i, Len(y) + k) = SubSeq(s, i, k)
      BY <3>1, <3>5, SubSeqBehind
    <3>6. SubSeq(l, p + i, p + k) = SubSeq(s, i, k)
      BY <2>1, <2>4, <3>b, Zenon
    <3>7. Find(l, p + i, Comma) - 1 = p + k /\ Find(s, i, Comma) - 1 = k
      BY <3>2, <3>4, <3>5
    <3> QED BY <3>6, <3>7, Zenon DEF Item
  <2>7. ASSUME NEW i \in 1 .. m PROVE i \in Starts(s) <=> p + i \in Starts(l)
    <3>1. DOMAIN s = 1 .. m
      BY <2>3 DEF Text
    <3>e. m = n - p
      BY <2>2
    <3>2. p + i \in 1 .. n /\ p + i # 1
      BY <2>p, <3>e
    <3>3. CASE i = 1
      <4>1. p + i - 1 = p
        BY <2>p, <3>3
      <4> QED BY <1>1, <1>3, <2>p, <3>1, <3>2, <3>3, <4>1 DEF Starts
    <3>4. CASE i # 1
      <4>1. PICK k \in 1 .. m : k = i - 1 /\ p + k = p + i - 1
        <5>1. i - 1 \in 1 .. m /\ p + (i - 1) = p + i - 1
          BY <2>p, <3>4
        <5> QED BY <5>1
      <4>2. l[p + i - 1] = s[i - 1]
        BY <2>5, <4>1, Zenon
      <4>3. i \in Starts(s) <=> s[i - 1] \in Comma
        BY <3>1, <3>4, Zenon DEF Starts
      <4>4. p + i \in Starts(l) <=> l[p + i - 1] \in Comma
        <5>1. PICK g \in 1 .. n : g = p + i
          BY <3>2
        <5>2. g \in DOMAIN l /\ g # 1
          BY <1>1, <3>2, <5>1, Zenon
        <5>3. g \in Starts(l) <=> l[g - 1] \in Comma
          BY <5>2, Zenon DEF Starts
        <5> QED BY <5>1, <5>3
      <4> QED BY <4>2, <4>3, <4>4, Zenon
    <3> QED BY <3>3, <3>4
  <2>8. ASSUME NEW j \in Starts(l), j # 1 PROVE \E i \in 1 .. m : j = p + i
    <3>1. j \in 1 .. n /\ l[j - 1] \in Comma
      BY <1>1, <2>8 DEF Starts
    <3>2. j \in 1 .. n
      BY <3>1
    <3>3. j - 1 \notin 1 .. p - 1
      BY <1>3, <3>1
    <3>e. m = n - p /\ j # 1
      BY <2>2, <2>8
    <3>f. PICK g \in 1 .. n : g = j
      BY <3>2
    <3>g. g # 1 /\ g - 1 \notin 1 .. p - 1
      BY <3>e, <3>f, <3>3
    <3>h. g - p \in 1 .. m /\ g = p + (g - p)
      BY <2>p, <3>e, <3>g
    <3>4. j - p \in 1 .. m /\ j = p + (j - p)
      BY <3>f, <3>h, Zenon
    <3> QED BY <3>4
  <2>9. Starts(s) \subseteq 1 .. m
    BY <2>3 DEF Starts, Text
  <2>10. ASSUME NEW z \in Items(l) PROVE z = Item(l, 1) \/ z \in Items(s)
    <3>1. PICK j \in Starts(l) : z = Item(l, j)
      BY DEF Items
    <3>2. CASE j # 1
      <4>1. PICK i \in 1 .. m : j = p + i
        BY <2>8, <3>2
      <4>2. i \in Starts(s) /\ z = Item(s, i)
        BY <2>6, <2>7, <3>1, <4>1
      <4> QED BY <4>2 DEF Items
    <3> QED BY <3>1, <3>2
  <2>11. ASSUME NEW z \in Items(s) PROVE z \in Items(l)
    <3>1. PICK i \in Starts(s) : z = Item(s, i)
      BY DEF Items
    <3>2. i \in 1 .. m
      BY <2>9
    <3>3. p + i \in Starts(l) /\ z = Item(l, p + i)
      BY <2>6, <2>7, <3>1, <3>2
    <3> QED BY <3>3 DEF Items
  <2>12. Item(l, 1) \in Items(l)
    BY <1>4 DEF Items
  <2>13. Items(l) = {Item(l, 1)} \cup Items(s)
    BY <2>10, <2>11, <2>12, Zenon
  <2>14. Items(l) = {SubSeq(l, 1, p - 1)} \cup Items(SubSeq(l, p + 1, Len(l)))
    BY <1>1, <1>4, <2>3, <2>13, Zenon
  <2> QED BY <1>1, <1>3, <2>14, Zenon
<1> QED
  BY <1>5, <1>6

(* Two texts with the same characters at the same places. *)
LEMMA SameSpan ==
  ASSUME NEW s \in Text, NEW t \in Text, NEW a \in Nat \ {0}, NEW b \in Nat, a <= b,
         b <= Len(s) + 1, b <= Len(t) + 1, \A i \in a .. b - 1 : s[i] = t[i]
  PROVE  SubSeq(s, a, b - 1) = SubSeq(t, a, b - 1)
<1>1. PICK n \in Nat : a + n = b /\ a + n - 1 = b - 1
  <2>1. b - a \in Nat /\ a + (b - a) = b /\ a + (b - a) - 1 = b - 1
    OBVIOUS
  <2> QED BY <2>1
<1>2. a + n <= Len(s) + 1 /\ a + n <= Len(t) + 1
  BY <1>1
<1>3. ASSUME NEW i \in 1 .. n PROVE s[a + i - 1] = t[a + i - 1]
  <2>1. a + i - 1 \in a .. b - 1
    BY <1>1
  <2> QED BY <2>1
<1>4. SubSeq(s, a, a + n - 1) = SubSeq(t, a, a + n - 1)
  BY <1>2, <1>3, SamePiece, ZenonT(60)
<1> QED
  BY <1>1, <1>4

(* With a ',' for the '}' it has the same ones. *)
LEMMA ListChoices ==
  ASSUME NEW d \in Text, IsList(d)
  PROVE  Items(Append(d, ",")) = Choices(d)
<1>1. PICK n \in Nat \ {0} : n = Len(d) /\ End(d) = n + 1 /\ DOMAIN d = 1 .. n
  <2>0. Len(d) \in Nat \ {0}
    BY ListIs, Zenon
  <2>1. DOMAIN d = 1 .. Len(d)
    BY DEF Text
  <2> QED BY <2>0, <2>1 DEF End
<1>2. ~IsRange(d) /\ d[n] \notin Comma
  BY <1>1, ListIs DEF Comma
<1>3. PICK l \in Text : /\ l = Append(d, ",") /\ Len(l) = n + 1 /\ DOMAIN l = 1 .. n + 1
                        /\ \A i \in 1 .. n : l[i] = d[i]
                        /\ l[n + 1] \in Comma
  <2>1. "," \in Char
    BY DEF Char, Sign
  <2>2. PICK c \in Char : c = ","
    BY <2>1
  <2>3. PICK l : l = Append(d, c)
    OBVIOUS
  <2>4. l \in Text /\ Len(l) = n + 1 /\ (\A i \in 1 .. n : l[i] = d[i]) /\ l[n + 1] = c
    BY <1>1, <2>3, AppendProperties DEF Text
  <2>5. DOMAIN l = 1 .. n + 1
    BY <2>4 DEF Text
  <2> QED BY <2>2, <2>3, <2>4, <2>5 DEF Comma
<1>4. Choices(d) = Items(d)
  BY <1>2, Zenon DEF Choices, Items, Item, Starts, Comma
<1>5. Starts(l) = Starts(d)
  <2>1. ASSUME NEW j \in 1 .. n + 1 PROVE j \in Starts(l) <=> j \in Starts(d)
    <3>1. CASE j = n + 1
      <4>1. j # 1 /\ j - 1 = n /\ j \notin 1 .. n /\ n \in 1 .. n
        BY <3>1
      <4>2. l[n] \notin Comma
        BY <1>2, <1>3, <4>1
      <4> QED BY <1>1, <1>3, <4>1, <4>2 DEF Starts
    <3>2. CASE j # n + 1
      <4>1. j \in 1 .. n /\ (j # 1 => j - 1 \in 1 .. n)
        BY <3>2
      <4>2. j # 1 => l[j - 1] = d[j - 1]
        BY <1>3, <4>1
      <4> QED BY <1>1, <1>3, <4>1, <4>2 DEF Starts
    <3> QED BY <3>1, <3>2
  <2>a. Starts(l) \subseteq DOMAIN l /\ Starts(d) \subseteq DOMAIN d
    BY Zenon DEF Starts
  <2>b. DOMAIN l = 1 .. n + 1 /\ DOMAIN d = 1 .. n
    BY <1>1, <1>3, Zenon
  <2>c. 1 .. n \subseteq 1 .. n + 1
    OBVIOUS
  <2>2. Starts(l) \subseteq 1 .. n + 1 /\ Starts(d) \subseteq 1 .. n + 1
    BY <2>a, <2>b, <2>c, Zenon
  <2> QED BY <2>1, <2>2
<1>6. ASSUME NEW j \in 1 .. n PROVE Item(l, j) = Item(d, j)
  <2>1. Len(l) = n + 1 /\ End(l) = n + 2 /\ Len(d) = n
    <3>1. Len(l) = n + 1 /\ Len(d) = n
      BY <1>1, <1>3, Zenon
    <3> QED BY <3>1 DEF End
  <2>2. First(d, j, Comma, Find(d, j, Comma))
    <3>1. Len(d) \in Nat /\ j \in Nat /\ j <= End(d)
      BY <1>1
    <3> QED BY <3>1, FindIs
  <2>3. PICK e \in j .. n + 1 : e = Find(d, j, Comma)
    BY <1>1, <2>2 DEF First
  <2>e. e \in j .. n + 1 /\ j \in 1 .. n
    BY <2>3
  <2>4. First(l, j, Comma, e)
    <3>1. e \in j .. End(l)
      BY <2>1, <2>e
    <3>2. l[e] \in Comma
      <4>1. CASE e = n + 1
        BY <1>3, <4>1
      <4>2. CASE e # n + 1
        <5>1. e \in 1 .. n /\ e <= Len(d)
          BY <1>1, <2>e, <4>2
        <5>2. d[e] \in Comma
          BY <2>2, <2>3, <5>1 DEF First
        <5> QED BY <1>3, <5>1, <5>2
      <4> QED BY <4>1, <4>2
    <3>3. ASSUME NEW i \in j .. e - 1 PROVE l[i] \notin Comma
      <4>1. i \in 1 .. n
        BY <2>e
      <4>2. d[i] \notin Comma
        BY <2>2, <2>3 DEF First
      <4> QED BY <1>3, <4>1, <4>2
    <3> QED BY <3>1, <3>2, <3>3 DEF First
  <2>5. e = Find(l, j, Comma)
    <3>1. Len(l) \in Nat /\ j \in Nat /\ j <= End(l)
      BY <2>1
    <3>2. First(l, j, Comma, Find(l, j, Comma))
      BY <3>1, FindIs
    <3> QED BY <2>4, <3>1, <3>2, FirstUnique
  <2>6. ASSUME NEW i \in j .. e - 1 PROVE l[i] = d[i]
    <3>1. i \in 1 .. n
      BY <2>e
    <3> QED BY <1>3, <3>1
  <2>7. j \in Nat \ {0} /\ e \in Nat /\ j <= e /\ e <= Len(l) + 1 /\ e <= Len(d) + 1
    BY <2>1, <2>e
  <2>8. SubSeq(l, j, e - 1) = SubSeq(d, j, e - 1)
    BY <2>6, <2>7, SameSpan
  <2> QED BY <2>3, <2>5, <2>8, Zenon DEF Item
<1>7. Items(l) = Items(d)
  <2>1. Starts(d) \subseteq 1 .. n
    <3>1. Starts(d) \subseteq DOMAIN d
      BY Zenon DEF Starts
    <3> QED BY <1>1, <3>1, Zenon
  <2> QED BY <1>5, <1>6, <2>1, Zenon DEF Items
<1> QED
  BY <1>3, <1>4, <1>7, Zenon

(* Find, known from what is before it. *)
LEMMA FoundAt ==
  ASSUME NEW t \in Text, NEW C, NEW i \in Nat \ {0}, NEW k \in Nat, i <= k, k <= Len(t) + 1,
         \A j \in i .. k - 1 : t[j] \notin C, k <= Len(t) => t[k] \in C
  PROVE  Find(t, i, C) = k
<1>1. Len(t) \in Nat /\ End(t) = Len(t) + 1
  BY DEF Text, End
<1>2. First(t, i, C, k)
  BY <1>1 DEF First
<1>3. i \in Nat /\ i <= End(t)
  BY <1>1
<1>4. First(t, i, C, Find(t, i, C))
  BY <1>1, <1>3, FindIs
<1> QED
  BY <1>1, <1>2, <1>3, <1>4, FirstUnique

(* A digit is none of the signs. *)
LEMMA DigitsOnly ==
  ASSUME NEW d \in Digit
  PROVE  d \in Char /\ d \notin Sign /\ d \in Char \ {" "} /\ d # "-" /\ d # "}"
BY LineAssumption DEF Char, Sign

(* strtol() takes the digits up to the next other character. *)
LEMMA StrtolNumber ==
  ASSUME NEW t \in Text, NEW i \in Nat \ {0}, NEW e \in Nat, i < e, e <= Len(t),
         \A j \in i .. e - 1 : t[j] \in Digit, t[e] \notin Digit
  PROVE  Strtol(t, i) = [val |-> Value(SubSeq(t, i, e - 1)), end |-> e]
<1>1. PICK n \in Nat : n = Len(t) /\ DOMAIN t = 1 .. n
  BY DEF Text
<1>2. t[i] \in Digit /\ i \in DOMAIN t /\ e # i
  <2>1. i \in i .. e - 1 /\ i \in 1 .. n /\ e # i
    BY <1>1
  <2> QED BY <1>1, <2>1
<1>3. Skip(t, i, {" "}) = i
  <2>0. PICK C : C = Char \ {" "}
    OBVIOUS
  <2>1. t[i] \in C
    BY <1>2, <2>0, DigitsOnly, Zenon
  <2>2. i \in Nat /\ i <= i /\ i <= Len(t) + 1 /\ \A j \in i .. i - 1 : t[j] \notin C
    BY <1>1
  <2>3. Find(t, i, C) = i
    BY <2>1, <2>2, FoundAt
  <2> QED BY <2>0, <2>3, Zenon DEF Skip
<1>4. At(t, i) # "-"
  BY <1>2, DigitsOnly, Zenon DEF At
<1>5. Skip(t, i, Digit) = e
  <2>0. PICK C : C = Char \ Digit
    OBVIOUS
  <2>1. t[e] \in Char
    <3>1. e \in 1 .. Len(t)
      BY <1>1
    <3> QED BY <3>1, ElementOfSeq DEF Text
  <2>2. t[e] \in C
    BY <2>0, <2>1
  <2>3. \A j \in i .. e - 1 : t[j] \notin C
    BY <2>0
  <2>4. i <= e /\ e <= Len(t) + 1
    BY <1>1
  <2>5. Find(t, i, C) = e
    BY <2>2, <2>3, <2>4, FoundAt
  <2> QED BY <2>0, <2>5, Zenon DEF Skip
<1>6. PICK v : v = Value(SubSeq(t, i, e - 1))
  OBVIOUS
<1>7. Strtol(t, i) = IF e = i THEN [val |-> 0, end |-> i]
                     ELSE [val |-> IF i = i THEN v ELSE -v, end |-> e]
  BY <1>3, <1>4, <1>5, <1>6, Zenon DEF Strtol
<1> QED
  BY <1>2, <1>6, <1>7, Zenon

(* The `int' of a number that is one. *)
LEMMA ToIntSame ==
  ASSUME NEW v \in Nat, v <= IntMax
  PROVE  ToInt(Clamp(v)) = v /\ ToInt(v) = v
<1>1. IntMax \in Nat /\ LongMax \in Nat /\ v <= LongMax
  BY ExpansionAssumption
<1>2. Clamp(v) = v
  BY <1>1 DEF Clamp
<1>3. v - 1 \in Int /\ -(IntMax + 1) <= v - 1 /\ v - 1 <= IntMax /\ v - 1 # IntMax /\ v - 1 + 1 = v
  BY <1>1
<1>4. ToInt(v - 1 + 1) = v
  BY <1>3, ToIntNext
<1> QED
  BY <1>2, <1>3, <1>4

Dash == {"-"}
Shut == {"}"}

(* They are no digits. *)
LEMMA MarksNoDigits ==
  \A z \in Dash \cup Shut : z \notin Digit
BY DigitsOnly DEF Dash, Shut

(* Two numbers with a '-' between them and a '}' behind. *)
LEMMA TwoNumbers ==
  ASSUME NEW t \in Text, NEW a \in Nat \ {0}, NEW p \in Nat \ {0}, NEW q \in Nat \ {0},
         NEW c \in Nat \ {0}, a < p, q = p + 1, q < c, c <= Len(t), t[p] \in Dash, t[c] \in Shut,
         \A j \in a .. c - 1 : j # p => t[j] \in Digit
  PROVE  /\ Strtol(t, a) = [val |-> Value(SubSeq(t, a, p - 1)), end |-> p]
         /\ Strtol(t, q) = [val |-> Value(SubSeq(t, q, c - 1)), end |-> c]
<1>1. t[p] \notin Digit /\ t[c] \notin Digit
  BY MarksNoDigits
<1>2. Strtol(t, a) = [val |-> Value(SubSeq(t, a, p - 1)), end |-> p]
  <2>1. p <= Len(t)
    BY DEF Text
  <2>2. ASSUME NEW j \in a .. p - 1 PROVE t[j] \in Digit
    <3>1. j \in a .. c - 1 /\ j # p
      OBVIOUS
    <3> QED BY <3>1
  <2> QED BY <1>1, <2>1, <2>2, StrtolNumber
<1>3. Strtol(t, q) = [val |-> Value(SubSeq(t, q, c - 1)), end |-> c]
  <2>2. ASSUME NEW j \in q .. c - 1 PROVE t[j] \in Digit
    <3>1. j \in a .. c - 1 /\ j # p
      OBVIOUS
    <3> QED BY <3>1
  <2> QED BY <1>1, <2>2, StrtolNumber
<1> QED
  BY <1>2, <1>3

(* What iterateRange makes of them. *)
LEMMA RangeMade ==
  ASSUME NEW t, NEW a, NEW p \in Nat, NEW q \in Nat, NEW c \in Nat, NEW u \in Nat, NEW v \in Nat,
         q = p + 1, u <= v, v <= IntMax, At(t, p) \in Dash, At(t, c) \in Shut,
         Strtol(t, a) = [val |-> u, end |-> p], Strtol(t, q) = [val |-> v, end |-> c]
  PROVE  /\ RangeOf(t, a, c).next = u /\ RangeOf(t, a, c).last = v
         /\ ~Refused(RangeOf(t, a, c))
<1>1. ToInt(Clamp(u)) = u /\ ToInt(Clamp(v)) = v
  <2>1. u <= IntMax
    BY ExpansionAssumption
  <2> QED BY <2>1, ToIntSame
<1>2. PICK from : from = Strtol(t, a)
  OBVIOUS
<1>3. from.end = p /\ from.val = u
  BY <1>2
<1>4. PICK to : to = Strtol(t, from.end + 1)
  OBVIOUS
<1>5. from.end + 1 = q
  BY <1>3
<1>6. to = [val |-> v, end |-> c]
  BY <1>4, <1>5
<1>7. to.end = c /\ to.val = v
  BY <1>6
<1>8. RangeOf(t, a, c) = [next |-> ToInt(Clamp(from.val)), last |-> ToInt(Clamp(to.val)),
         ok |-> At(t, from.end) = "-" /\ At(t, to.end) = "}" /\ to.end <= c]
  BY <1>2, <1>4, Zenon DEF RangeOf
<1>9. c <= c
  OBVIOUS
<1>10. At(t, from.end) = "-" /\ At(t, to.end) = "}" /\ to.end <= c
  BY <1>3, <1>7, <1>9, Zenon DEF Dash, Shut
<1>11. RangeOf(t, a, c) = [next |-> u, last |-> v, ok |-> TRUE]
  BY <1>1, <1>3, <1>7, <1>8, <1>10, Zenon
<1>12. PICK r : r = RangeOf(t, a, c)
  OBVIOUS
<1>13. r.next = u /\ r.last = v /\ r.ok = TRUE
  BY <1>11, <1>12
<1>14. ~Refused(r)
  BY <1>13 DEF Refused
<1> QED
  BY <1>12, <1>13, <1>14, Zenon

(* The text d is in t behind o. *)
Within(t, o, d) ==
  /\ d \in Text /\ o + Len(d) <= Len(t)
  /\ \A i \in 1 .. Len(d) : d[i] = t[o + i]

(* So are its parts. *)
LEMMA WithinPiece ==
  ASSUME NEW t \in Text, NEW o \in Nat, NEW d \in Text, Within(t, o, d),
         NEW i \in Nat \ {0}, NEW k \in Nat, i <= k + 1, k <= Len(d)
  PROVE  SubSeq(t, o + i, o + k) = SubSeq(d, i, k)
<1>1. PICK n \in Nat, a \in Nat \ {0} :
        /\ a = o + i /\ a + n - 1 = o + k /\ i + n - 1 = k /\ a + n <= Len(t) + 1 /\ i + n <= Len(d) + 1
  <2>1. Len(d) \in Nat /\ Len(t) \in Nat /\ o + Len(d) <= Len(t)
    BY DEF Text, Within
  <2>2. PICK l \in Nat, m \in Nat : l = Len(d) /\ m = Len(t) /\ o + l <= m /\ k <= l
    BY <2>1
  <2>3. /\ k + 1 - i \in Nat /\ o + i \in Nat \ {0} /\ o + i + (k + 1 - i) - 1 = o + k
        /\ i + (k + 1 - i) - 1 = k /\ o + i + (k + 1 - i) <= m + 1 /\ i + (k + 1 - i) <= l + 1
    BY <2>2
  <2> QED BY <2>2, <2>3
<1>2. ASSUME NEW j \in 1 .. n PROVE t[a + j - 1] = d[i + j - 1]
  <2>1. Len(d) \in Nat
    BY DEF Text
  <2>2. PICK g \in 1 .. Len(d) : g = i + j - 1 /\ a + j - 1 = o + g
    <3>1. i + j - 1 \in 1 .. Len(d) /\ a + j - 1 = o + (i + j - 1)
      BY <1>1, <2>1
    <3> QED BY <3>1
  <2> QED BY <2>2 DEF Within
<1>3. a + n <= Len(t) + 1 /\ i + n <= Len(d) + 1
  BY <1>1
<1>4. SubSeq(t, a, a + n - 1) = SubSeq(d, i, i + n - 1)
  <2>1. PICK u \in Text : /\ u = SubSeq(t, a, a + n - 1) /\ Len(u) = n
                          /\ \A j \in 1 .. n : u[j] = t[a + j - 1]
    BY <1>3, Piece, ZenonT(60)
  <2>2. PICK v \in Text : /\ v = SubSeq(d, i, i + n - 1) /\ Len(v) = n
                          /\ \A j \in 1 .. n : v[j] = d[i + j - 1]
    BY <1>3, Piece, ZenonT(60)
  <2>3. \A j \in 1 .. Len(u) : u[j] = v[j]
    BY <1>2, <2>1, <2>2
  <2>4. u = v
    <3>1. u \in Seq(Char) /\ v \in Seq(Char) /\ Len(u) = Len(v)
      BY <2>1, <2>2 DEF Text
    <3> QED BY <2>3, <3>1, SeqEqual
  <2> QED BY <2>1, <2>2, <2>4, Zenon
<1> QED
  BY <1>1, <1>4, Zenon

(* iterateRange reads the two numbers of a range. *)
LEMMA RangeRead ==
  ASSUME NEW t \in Text, NEW o \in Nat \ {0}, NEW c \in Nat, NEW d \in Text,
         Within(t, o, d), c = o + Len(d) + 1, c <= Len(t), t[c] \in Shut, IsRange(d)
  PROVE  /\ RangeOf(t, o + 1, c).next = Value(From(d)) /\ RangeOf(t, o + 1, c).last = Value(To(d))
         /\ ~Refused(RangeOf(t, o + 1, c))
<1>1. PICK m \in Nat :
           /\ RangeText(d, m)
           /\ From(d) = SubSeq(d, 1, m - 1) /\ To(d) = SubSeq(d, m + 1, Len(d))
           /\ Value(From(d)) \in Nat /\ Value(To(d)) \in Nat
           /\ Value(From(d)) <= Value(To(d)) /\ Value(To(d)) < IntMax
  BY RangeIs
<1>2. PICK n \in Nat : n = Len(d) /\ c = o + n + 1 /\ \A i \in 1 .. n : d[i] = t[o + i]
  <2>1. Len(d) \in Nat
    BY DEF Text
  <2> QED BY <2>1, Zenon DEF Within
<1>3. m \in 2 .. n - 1 /\ d[m] \in Dash /\ \A j \in 1 .. n : j # m => d[j] \in Digit
  <2>1. d[m] \in Dash
    BY <1>1, Zenon DEF RangeText, Dash
  <2> QED BY <1>1, <1>2, <2>1, Zenon DEF RangeText
<1>4. m \in 2 .. n - 1 /\ c = o + n + 1
  BY <1>2, <1>3
<1>5. PICK a \in Nat \ {0}, p \in Nat \ {0}, q \in Nat \ {0} :
        /\ a = o + 1 /\ p = o + m /\ q = o + m + 1 /\ q = p + 1 /\ a < p /\ q < c /\ p <= Len(t)
  <2>1. /\ o + 1 \in Nat \ {0} /\ o + m \in Nat \ {0} /\ o + m + 1 \in Nat \ {0}
        /\ o + m + 1 = o + m + 1 /\ o + 1 < o + m /\ o + m + 1 < c /\ o + m <= Len(t)
    BY <1>4 DEF Text
  <2> QED BY <2>1
<1>6. t[p] \in Dash
  <2>1. m \in 1 .. n
    BY <1>4
  <2> QED BY <1>2, <1>3, <1>5, <2>1
<1>7. ASSUME NEW j \in a .. c - 1, j # p PROVE t[j] \in Digit
  <2>0. a = o + 1 /\ p = o + m
    BY <1>5
  <2>1. PICK i \in 1 .. n : j = o + i /\ i # m
    <3>1. j - o \in 1 .. n /\ j = o + (j - o) /\ j - o # m
      BY <1>4, <2>0, <1>7
    <3> QED BY <3>1
  <2> QED BY <1>2, <1>3, <2>1
<1>8. /\ Strtol(t, a) = [val |-> Value(SubSeq(t, a, p - 1)), end |-> p]
      /\ Strtol(t, q) = [val |-> Value(SubSeq(t, q, c - 1)), end |-> c]
  <2>1. a < p /\ q = p + 1 /\ q < c /\ c \in Nat \ {0}
    BY <1>5
  <2> QED BY <1>6, <1>7, <2>1, TwoNumbers
<1>9. SubSeq(t, a, p - 1) = From(d)
  <2>0. a = o + 1 /\ p = o + m /\ p <= Len(t) /\ n = Len(d)
    BY <1>2, <1>5
  <2>1. PICK k \in Nat : k = m - 1 /\ 1 <= k + 1 /\ k <= Len(d) /\ o + k = p - 1
    <3>1. m - 1 \in Nat /\ 1 <= m - 1 + 1 /\ m - 1 <= Len(d) /\ o + (m - 1) = p - 1
      BY <1>4, <2>0
    <3> QED BY <3>1
  <2>2. 1 \in Nat \ {0} /\ o \in Nat /\ 1 <= k + 1 /\ k <= Len(d)
    BY <2>1
  <2>3. SubSeq(t, o + 1, o + k) = SubSeq(d, 1, k)
    BY <2>2, WithinPiece
  <2> QED BY <1>1, <2>0, <2>1, <2>3, Zenon
<1>10. SubSeq(t, q, c - 1) = To(d)
  <2>0. q = o + m + 1 /\ n = Len(d)
    BY <1>2, <1>5
  <2>1. PICK k \in Nat \ {0} : k = m + 1 /\ k <= n + 1 /\ n <= Len(d) /\ o + n = c - 1 /\ o + k = q
    <3>1. m + 1 \in Nat \ {0} /\ m + 1 <= n + 1 /\ n <= Len(d) /\ o + n = c - 1 /\ o + (m + 1) = q
      BY <1>4, <2>0
    <3> QED BY <3>1
  <2>2. o \in Nat /\ k <= n + 1 /\ n <= Len(d)
    BY <2>1
  <2>3. SubSeq(t, o + k, o + n) = SubSeq(d, k, n)
    BY <2>2, WithinPiece
  <2> QED BY <1>1, <2>0, <2>1, <2>3, Zenon
<1>11. PICK u \in Nat, v \in Nat : u = Value(From(d)) /\ v = Value(To(d)) /\ u <= v /\ v <= IntMax
  <2>1. PICK u \in Nat, v \in Nat : u = Value(From(d)) /\ v = Value(To(d)) /\ u <= v /\ v < IntMax
    BY <1>1, Zenon
  <2>2. v <= IntMax
    BY <2>1, ExpansionAssumption
  <2> QED BY <2>1, <2>2
<1>12. At(t, p) \in Dash /\ At(t, c) \in Shut
  <2>1. p \in 1 .. Len(t) /\ c \in 1 .. Len(t)
    BY <1>5 DEF Text
  <2>2. DOMAIN t = 1 .. Len(t)
    BY DEF Text
  <2> QED BY <1>6, <2>1, <2>2, Zenon DEF At
<1>13. Strtol(t, a) = [val |-> u, end |-> p] /\ Strtol(t, q) = [val |-> v, end |-> c]
  BY <1>8, <1>9, <1>10, <1>11, Zenon
<1>14. /\ RangeOf(t, a, c).next = u /\ RangeOf(t, a, c).last = v
       /\ ~Refused(RangeOf(t, a, c))
  <2>1. q = p + 1 /\ u <= v /\ v <= IntMax
    BY <1>5, <1>11
  <2> QED BY <1>12, <1>13, <2>1, RangeMade
<1> QED
  BY <1>5, <1>11, <1>14, Zenon

-----------------------------------------------------------------------------
(* What the scan of a call sees of them. *)

(* The characters between braces: digits and one kind of mark. *)
Held == Digit \cup {",", "-"}

(* They are of the one kind only, which tells a list from a range. *)
LEMMA Inside ==
  ASSUME NEW d \in Text, IsRange(d) \/ IsList(d), NEW I, I = In(d, 1, Len(d))
  PROVE  /\ I \subseteq Held /\ ~Mixed(I) /\ I \cap {",", "-"} # {}
         /\ "," \in I <=> IsList(d)
         /\ "-" \in I <=> IsRange(d)
<1>1. CASE IsRange(d)
  <2>1. PICK m \in Nat : RangeText(d, m)
    BY <1>1, RangeIs
  <2>2. m \in 1 .. Len(d) /\ d[m] = "-" /\ \A j \in 1 .. Len(d) : d[j] = "-" \/ d[j] \in Digit
    BY <2>1 DEF RangeText, Text
  <2>3. "-" \in I
    BY <2>2 DEF In
  <2>4. I \subseteq Digit \cup {"-"}
    BY <2>2 DEF In
  <2>5. "," \notin I
    BY <2>4, DigitsPlain
  <2>6. ~IsList(d)
    BY <1>1, ListIs
  <2> QED BY <1>1, <2>3, <2>4, <2>5, <2>6 DEF Held, Mixed
<1>2. CASE IsList(d)
  <2>1. ListText(d) /\ "," \in I /\ ~IsRange(d)
    BY <1>2, ListIs
  <2>2. I \subseteq Digit \cup {","}
    BY <2>1 DEF In, ListText
  <2>3. "-" \notin I
    BY <2>2, DigitsPlain
  <2> QED BY <1>2, <2>1, <2>2, <2>3 DEF Held, Mixed
<1> QED
  BY <1>1, <1>2

Opening == {"{"}
Marking == {"{", "}", "#", ",", "-"}

(* The sets that the scan looks for. *)
LEMMA MarkSets ==
  /\ \A z : z \notin Marking =>
       z \notin {"{", "#"} /\ z \notin {"}", "#"} /\ z \notin {"#"} /\ z \notin {",", "-"}
  /\ \A z \in Opening : z \in {"{", "#"} /\ z \notin {"}", "#"} /\ z \notin {"#"} /\ z \notin {",", "-"}
  /\ \A z \in Shut : z \in {"}", "#"} /\ z \notin {"#"} /\ z \notin {",", "-"}
  /\ \A z \in Held : z \notin {"{", "#"} /\ z \notin {"}", "#"} /\ z \notin {"#"}
BY DigitsPlain DEF Marking, Opening, Shut, Held

(* The scan finds the first braces and what is between them. *)
LEMMA ScanRange ==
  ASSUME NEW t \in Text, NEW o \in Nat \ {0}, NEW c \in Nat \ {0}, NEW d \in Text, Within(t, o, d),
         c = o + Len(d) + 1, c <= Len(t), t[o] \in Opening, t[c] \in Shut,
         \A j \in 1 .. o - 1 : t[j] \notin Marking, IsRange(d) \/ IsList(d)
  PROVE  /\ Open(t) = o /\ Close(t) = c /\ HasRange(t) /\ ~ScanError(t)
         /\ "," \in In(t, o, c) <=> IsList(d)
         /\ "-" \in In(t, o, c) <=> IsRange(d)
<1>1. PICK n \in Nat : n = Len(d) /\ c = o + n + 1 /\ \A i \in 1 .. n : d[i] = t[o + i]
  <2>1. Len(d) \in Nat
    BY DEF Text
  <2> QED BY <2>1, Zenon DEF Within
<1>2. PICK I : I = In(d, 1, n)
  OBVIOUS
<1>3. /\ I \subseteq Held /\ ~Mixed(I) /\ I \cap {",", "-"} # {}
      /\ "," \in I <=> IsList(d)
      /\ "-" \in I <=> IsRange(d)
  BY <1>1, <1>2, Inside
<1>c. o < c /\ c = o + n + 1
  BY <1>1
<1>4. I = In(t, o + 1, c - 1)
  <2>1. ASSUME NEW i \in 1 .. n PROVE d[i] \in In(t, o + 1, c - 1)
    <3>1. o + i \in o + 1 .. c - 1
      BY <1>c
    <3> QED BY <1>1, <3>1, Zenon DEF In
  <2>2. ASSUME NEW j \in o + 1 .. c - 1 PROVE t[j] \in I
    <3>1. PICK i \in 1 .. n : j = o + i
      <4>1. j - o \in 1 .. n /\ j = o + (j - o)
        BY <1>c
      <4> QED BY <4>1
    <3> QED BY <1>1, <1>2, <3>1, Zenon DEF In
  <2> QED BY <1>2, <2>1, <2>2, Zenon DEF In
<1>5. ASSUME NEW j \in o + 1 .. c - 1 PROVE t[j] \in Held
  BY <1>3, <1>4, Zenon DEF In
<1>6. ASSUME NEW j \in 1 .. c PROVE j \in 1 .. o - 1 \/ j = o \/ j \in o + 1 .. c - 1 \/ j = c
  BY <1>c
<1>7. Open(t) = o
  <2>1. PICK C : C = {"{", "#"}
    OBVIOUS
  <2>2. t[o] \in C /\ \A j \in 1 .. o - 1 : t[j] \notin C
    BY <2>1, MarkSets, Zenon
  <2>3. 1 \in Nat \ {0} /\ 1 <= o /\ o <= Len(t) + 1 /\ o \in Nat
    BY <1>c DEF Text
  <2>4. Find(t, 1, C) = o
    BY <2>2, <2>3, FoundAt
  <2> QED BY <2>1, <2>4, Zenon DEF Open
<1>8. Close(t) = c
  <2>1. PICK C : C = {"}", "#"}
    OBVIOUS
  <2>2. t[c] \in C
    BY <2>1, MarkSets, Zenon
  <2>3. ASSUME NEW j \in 1 .. c - 1 PROVE t[j] \notin C
    <3>1. j \in 1 .. o - 1 \/ j = o \/ j \in o + 1 .. c - 1
      BY <1>c
    <3> QED BY <1>5, <2>1, <3>1, MarkSets, Zenon
  <2>4. 1 \in Nat \ {0} /\ 1 <= c /\ c <= Len(t) + 1 /\ c \in Nat
    BY <1>c DEF Text
  <2>5. Find(t, 1, C) = c
    BY <2>2, <2>3, <2>4, FoundAt
  <2> QED BY <2>1, <2>5, Zenon DEF Close
<1>9. Stop(t) \in Nat /\ c < Stop(t)
  <2>1. PICK C : C = {"#"}
    OBVIOUS
  <2>2. ASSUME NEW j \in 1 .. c PROVE t[j] \notin C
    BY <1>5, <1>6, <2>1, MarkSets, Zenon
  <2>3. 1 \in Nat /\ 1 <= End(t) /\ Len(t) \in Nat /\ End(t) = Len(t) + 1
    BY DEF Text, End
  <2>4. First(t, 1, C, Find(t, 1, C))
    BY <2>3, FindIs
  <2>5. PICK h \in 1 .. Len(t) + 1 : h = Find(t, 1, C) /\ (h <= Len(t) => t[h] \in C)
    BY <2>3, <2>4, Zenon DEF First
  <2>6. ~(h <= c)
    <3> SUFFICES ASSUME h <= c PROVE FALSE
      OBVIOUS
    <3>1. h \in 1 .. c /\ h <= Len(t)
      BY <2>3, <2>5
    <3> QED BY <2>2, <2>5, <3>1
  <2>7. h \in Nat /\ c < h
    BY <2>3, <2>5, <2>6
  <2> QED BY <2>1, <2>5, <2>7, Zenon DEF Stop
<1>10. HasRange(t)
  BY <1>8, <1>9, Zenon DEF HasRange
<1>11. ~Mixed(In(t, 1, o - 1))
  <2>1. "," \notin In(t, 1, o - 1)
    BY MarkSets DEF In
  <2> QED BY <2>1 DEF Mixed
<1>12. ~ScanError(t)
  <2>1. ~(c < o) /\ o < c /\ c # Stop(t)
    BY <1>c, <1>9
  <2>2. PICK M : M = In(t, 1, o - 1) /\ ~Mixed(M)
    BY <1>11
  <2>3. (IF o < c THEN o - 1 ELSE c - 1) = o - 1
    BY <2>1, Zenon
  <2> QED BY <1>3, <1>4, <1>7, <1>8, <2>1, <2>2, <2>3, Zenon DEF ScanError, Held
<1>n. (\A j \in o + 1 .. c - 1 : j \in o .. c) /\ \A j \in o .. c : j # o /\ j # c => j \in o + 1 .. c - 1
  BY <1>c
<1>13. ASSUME NEW z \in {",", "-"} PROVE z \in In(t, o, c) <=> z \in I
  <2>1. ASSUME z \in I PROVE z \in In(t, o, c)
    <3>1. PICK j \in o + 1 .. c - 1 : z = t[j]
      BY <1>4, <2>1, Zenon DEF In
    <3>2. j \in o .. c
      BY <1>n, Zenon
    <3> QED BY <3>1, <3>2, Zenon DEF In
  <2>2. ASSUME z \in In(t, o, c) PROVE z \in I
    <3>1. PICK j \in o .. c : z = t[j]
      BY <2>2, Zenon DEF In
    <3>2. j # o /\ j # c
      BY <1>13, <3>1, MarkSets, Zenon
    <3>3. j \in o + 1 .. c - 1
      BY <1>n, <3>2, Zenon
    <3> QED BY <1>4, <3>1, <3>3, Zenon DEF In
  <2> QED BY <2>1, <2>2
<1>14. ("," \in In(t, o, c) <=> "," \in I) /\ ("-" \in In(t, o, c) <=> "-" \in I)
  BY <1>13
<1> QED
  BY <1>3, <1>7, <1>8, <1>10, <1>12, <1>14, Zenon

(* Without a '{' left there is nothing to refuse and nothing to expand. *)
LEMMA ScanPlain ==
  ASSUME NEW t \in Text, \A j \in 1 .. Stop(t) - 1 : t[j] \notin Marking
  PROVE  ~HasRange(t) /\ ~ScanError(t)
<1>1. PICK n \in Nat : n = Len(t) /\ End(t) = n + 1
  BY DEF Text, End
<1>2. PICK h \in 1 .. n + 1 : h = Stop(t) /\ (h <= n => t[h] = "#")
  <2>1. 1 \in Nat /\ 1 <= End(t) /\ Len(t) \in Nat
    BY <1>1
  <2>2. PICK C : C = {"#"}
    OBVIOUS
  <2>3. First(t, 1, C, Find(t, 1, C))
    BY <2>1, FindIs
  <2>4. Stop(t) \in 1 .. n + 1 /\ (Stop(t) <= n => t[Stop(t)] \in C)
    BY <1>1, <2>2, <2>3, Zenon DEF First, Stop
  <2> QED BY <2>2, <2>4
<1>3. h \in Nat /\ 1 <= h /\ h <= Len(t) + 1 /\ 1 \in Nat \ {0}
  BY <1>1, <1>2
<1>4. ASSUME NEW C, "#" \in C, \A z : z \notin Marking => z \notin C
      PROVE  Find(t, 1, C) = h
  <2>1. \A j \in 1 .. h - 1 : t[j] \notin C
    BY <1>2, <1>4, Zenon
  <2>2. h <= Len(t) => t[h] \in C
    BY <1>1, <1>2, <1>4
  <2> QED BY <1>3, <2>1, <2>2, FoundAt
<1>5. Open(t) = h /\ Close(t) = h
  <2>1. "#" \in {"{", "#"} /\ "#" \in {"}", "#"}
    OBVIOUS
  <2>2. Find(t, 1, {"{", "#"}) = h
    BY <1>4, <2>1, MarkSets, Zenon
  <2>3. Find(t, 1, {"}", "#"}) = h
    BY <1>4, <2>1, MarkSets, Zenon
  <2> QED BY <2>2, <2>3, Zenon DEF Open, Close
<1>6. ~(h < h)
  BY <1>3
<1>7. ~Mixed(In(t, 1, h - 1))
  <2>1. "," \notin In(t, 1, h - 1)
    BY <1>2, MarkSets, Zenon DEF In
  <2> QED BY <2>1 DEF Mixed
<1> QED
  BY <1>2, <1>5, <1>6, <1>7, Zenon DEF HasRange, ScanError

-----------------------------------------------------------------------------
(* What parseLine makes of a text whose first part it has written into.     *)

(* Two results of the parser that agree in what an entry is made of, and in *)
(* where to read on.                                                        *)
FieldNames == {"pos", "ok", "cut", "neg", "host", "mask", "at", "atmac", "mac", "sep"}

Alike(r, v) ==
  /\ DOMAIN r = FieldNames /\ DOMAIN v = FieldNames
  /\ r.pos = v.pos /\ r.ok = v.ok /\ r.neg = v.neg /\ r.host = v.host /\ r.mask = v.mask
  /\ r.at = v.at /\ r.atmac = v.atmac /\ r.mac = v.mac
  /\ r.sep # "@" /\ v.sep # "@" /\ r.sep # "/" /\ v.sep # "/"

(* They yield the same entry. *)
LEMMA AlikeEntry ==
  ASSUME NEW r, NEW v, Alike(r, v)
  PROVE  EntryOf(r) = EntryOf(v)
BY Zenon DEF Alike, EntryOf

(* Texts with the same characters from a on. *)
SameFrom(t, u, a) == Len(t) = Len(u) /\ \A j \in Nat : a <= j /\ j <= Len(t) => t[j] = u[j]

(* Searches from there have the same result. *)
LEMMA SameFind ==
  ASSUME NEW t \in Text, NEW u \in Text, NEW a \in Nat \ {0}, SameFrom(t, u, a),
         NEW i \in Nat, a <= i, NEW C
  PROVE  Find(t, i, C) = Find(u, i, C)
<1>1. PICK n \in Nat : n = Len(t) /\ n = Len(u)
  BY DEF Text, SameFrom
<1>2. ASSUME NEW k \in i .. n PROVE t[k] = u[k]
  <2>1. k \in Nat /\ a <= k /\ k <= Len(t)
    BY <1>1
  <2> QED BY <2>1 DEF SameFrom
<1>3. End(t) = n + 1 /\ End(u) = n + 1 /\ Len(t) \in Nat /\ Len(u) \in Nat
  BY <1>1 DEF End
<1>4. CASE i <= n + 1
  <2>1. PICK k : k = Find(t, i, C)
    OBVIOUS
  <2>2. First(t, i, C, k) /\ First(u, i, C, Find(u, i, C))
    <3>1. i <= End(t) /\ i <= End(u)
      BY <1>3, <1>4
    <3> QED BY <1>3, <2>1, <3>1, FindIs
  <2>3. k \in i .. n + 1 /\ (k <= n => t[k] \in C) /\ \A j \in i .. k - 1 : t[j] \notin C
    BY <1>1, <1>3, <2>2, Zenon DEF First
  <2>4. (k <= n => k \in i .. n) /\ \A j \in i .. k - 1 : j \in i .. n
    BY <2>3
  <2>5. First(u, i, C, k)
    BY <1>1, <1>2, <1>3, <2>3, <2>4, Zenon DEF First
  <2> QED BY <1>3, <2>1, <2>2, <2>5, FirstUnique
<1>5. CASE ~(i <= n + 1)
  <2>1. i > Len(t) /\ i > Len(u)
    BY <1>1, <1>5
  <2>2. Find(t, i, C) = n + 1 /\ Find(u, i, C) = n + 1
    BY <1>3, <2>1, FindHits
  <2> QED BY <2>2
<1> QED
  BY <1>4, <1>5

(* So has a look at one place. *)
LEMMA SameAt ==
  ASSUME NEW t \in Text, NEW u \in Text, NEW a \in Nat \ {0}, SameFrom(t, u, a),
         NEW i \in Nat, a <= i
  PROVE  At(t, i) = At(u, i)
<1>1. PICK n \in Nat : n = Len(t) /\ n = Len(u) /\ DOMAIN t = 1 .. n /\ DOMAIN u = 1 .. n
  BY DEF Text, SameFrom
<1>2. i \in 1 .. n => t[i] = u[i]
  BY <1>1 DEF SameFrom
<1> QED
  BY <1>1, <1>2, Zenon DEF At

(* A field from there up to a place that was found. *)
LEMMA SameField ==
  ASSUME NEW t \in Text, NEW u \in Text, NEW a \in Nat \ {0}, SameFrom(t, u, a),
         NEW i \in Nat, a <= i, NEW p \in Nat, p <= Len(t) + 1
  PROVE  SubSeq(t, i, p - 1) = SubSeq(u, i, p - 1)
<1>1. PICK n \in Nat : n = Len(t) /\ n = Len(u)
  BY DEF Text, SameFrom
<1>2. CASE i <= p
  <2>1. i \in Nat \ {0} /\ p <= Len(t) + 1 /\ p <= Len(u) + 1
    BY <1>1
  <2>2. ASSUME NEW j \in i .. p - 1 PROVE t[j] = u[j]
    <3>1. j \in Nat /\ a <= j /\ j <= Len(t)
      BY <1>1
    <3> QED BY <3>1 DEF SameFrom
  <2> QED BY <1>2, <2>1, <2>2, SameSpan
<1>3. CASE ~(i <= p)
  <2>1. i \in Int /\ p - 1 \in Int /\ p - 1 < i
    BY <1>3
  <2>2. SubSeq(t, i, p - 1) = <<>> /\ SubSeq(u, i, p - 1) = <<>>
    BY <2>1, SubSeqEmpty
  <2> QED BY <2>2
<1> QED
  BY <1>2, <1>3

(* Where a search ends. *)
LEMMA FoundFrom ==
  ASSUME NEW t \in Text, NEW i \in Nat, i <= Len(t) + 1, NEW C
  PROVE  /\ Find(t, i, C) \in Nat /\ i <= Find(t, i, C) /\ Find(t, i, C) <= Len(t) + 1
         /\ Past(t, Find(t, i, C)) \in Nat /\ i <= Past(t, Find(t, i, C))
<1>1. Len(t) \in Nat /\ End(t) = Len(t) + 1
  BY DEF Text, End
<1>2. First(t, i, C, Find(t, i, C))
  BY <1>1, FindIs
<1>3. PICK k \in i .. Len(t) + 1 : k = Find(t, i, C)
  BY <1>1, <1>2, Zenon DEF First
<1>4. k \in Nat /\ i <= k /\ k <= Len(t) + 1 /\ Past(t, k) \in Nat /\ i <= Past(t, k)
  BY <1>1 DEF Past
<1> QED
  BY <1>3, <1>4, Zenon

(* The character at a place is inside of the text, unless it is a NUL. *)
LEMMA AtInside ==
  ASSUME NEW t \in Text, NEW i \in Nat, At(t, i) # NUL
  PROVE  i <= Len(t)
<1>1. i \in DOMAIN t
  BY Zenon DEF At
<1> QED
  BY <1>1 DEF Text

(* The rest of parseLine looks at the characters from `pos' on only: first  *)
(* for a MAC behind '@', ...                                                *)
LEMMA SameAtMac ==
  ASSUME NEW t \in Text, NEW u \in Text, NEW r, NEW v, Alike(r, v), NEW a \in Nat \ {0}, a = r.pos,
         SameFrom(t, u, a)
  PROVE  /\ Alike(ParseAtMac(t, r), ParseAtMac(u, v))
         /\ ParseAtMac(t, r).pos \in Nat /\ a <= ParseAtMac(t, r).pos
<1>1. r.sep # "@" /\ v.sep # "@" /\ r.pos = a /\ v.pos = a
  BY Zenon DEF Alike
<1>2. At(t, a) = At(u, a)
  <2>1. a \in Nat /\ a <= a
    OBVIOUS
  <2> QED BY <2>1, SameAt
<1>3. PICK star : star = Star(r) /\ star = Star(v)
  <2>1. r.host = v.host
    BY Zenon DEF Alike
  <2> QED BY <2>1 DEF Star
<1>4. PICK i \in Nat : i = a + 1 /\ a <= i
  <2>1. a + 1 \in Nat /\ a <= a + 1
    OBVIOUS
  <2> QED BY <2>1
<1>5. PICK not : not = (At(t, i) = "!")
  OBVIOUS
<1>6. not = (At(u, i) = "!")
  <2>1. At(t, i) = At(u, i)
    BY <1>4, SameAt
  <2> QED BY <1>5, <2>1, Zenon
<1>7. PICK s \in Nat : s = (IF not THEN i + 1 ELSE i) /\ a <= s
  <2>1. (IF not THEN i + 1 ELSE i) \in Nat /\ a <= IF not THEN i + 1 ELSE i
    BY <1>4
  <2> QED BY <2>1
<1>8. CASE At(t, a) # "@"
  <2>1. ParseAtMac(t, r) = [r EXCEPT !.ok = ~star] /\ ParseAtMac(u, v) = [v EXCEPT !.ok = ~star]
    BY <1>1, <1>2, <1>3, <1>8, Zenon DEF ParseAtMac
  <2>2. Alike([r EXCEPT !.ok = ~star], [v EXCEPT !.ok = ~star])
    BY DEF Alike, FieldNames
  <2>3. [r EXCEPT !.ok = ~star].pos = a
    BY <1>1 DEF Alike, FieldNames
  <2>4. a \in Nat /\ a <= a
    OBVIOUS
  <2> QED BY <2>1, <2>2, <2>3, <2>4, Zenon
<1>9. CASE At(t, a) = "@"
  <2>1. a <= Len(t)
    <3>1. At(t, a) # NUL /\ a \in Nat
      BY <1>9 DEF NUL
    <3> QED BY <3>1, AtInside
  <2>2. not => i <= Len(t)
    <3> SUFFICES ASSUME not PROVE i <= Len(t)
      OBVIOUS
    <3>1. At(t, i) # NUL
      BY <1>5 DEF NUL
    <3> QED BY <3>1, AtInside
  <2>3. s <= Len(t) + 1
    <3>1. Len(t) \in Nat
      BY DEF Text
    <3> QED BY <1>4, <1>7, <2>1, <2>2, <3>1
  <2>4. PICK C : C = {" ", NUL}
    OBVIOUS
  <2>5. PICK p \in Nat : p = Find(t, s, C) /\ p <= Len(t) + 1 /\ Past(t, p) \in Nat /\ s <= Past(t, p)
    BY <2>3, FoundFrom
  <2>6. p = Find(u, s, C)
    BY <1>7, <2>5, SameFind
  <2>7. Past(t, p) = Past(u, p)
    <3>1. Len(t) = Len(u)
      BY DEF SameFrom
    <3> QED BY <3>1, Zenon DEF Past, End
  <2>8. PICK f : f = SubSeq(t, s, p - 1) /\ f = SubSeq(u, s, p - 1)
    <3>1. a <= s /\ p <= Len(t) + 1
      BY <1>7, <2>5
    <3>2. SubSeq(t, s, p - 1) = SubSeq(u, s, p - 1)
      BY <3>1, SameField
    <3> QED BY <3>2
  <2>9. PICK ok, at, e : ok = (IsMac(f) /\ ~(star /\ not)) /\ at = (IF not THEN "NEGATIVE" ELSE "POSITIVE")
                         /\ e = Past(t, p)
    OBVIOUS
  <2>10. ParseAtMac(t, r) = [r EXCEPT !.pos = e, !.cut = @ \cup {p}, !.atmac = f, !.at = at, !.ok = ok]
    <3>1. (IF r.sep = "@" THEN r.pos ELSE r.pos + 1) = i
      BY <1>1, <1>4, Zenon
    <3> QED BY <1>1, <1>3, <1>5, <1>7, <1>9, <2>4, <2>5, <2>8, <2>9, <3>1, ZenonT(60) DEF ParseAtMac
  <2>11. ParseAtMac(u, v) = [v EXCEPT !.pos = e, !.cut = @ \cup {p}, !.atmac = f, !.at = at, !.ok = ok]
    <3>1. (IF v.sep = "@" THEN v.pos ELSE v.pos + 1) = i
      BY <1>1, <1>4, Zenon
    <3> QED BY <1>1, <1>2, <1>3, <1>6, <1>7, <1>9, <2>4, <2>6, <2>7, <2>8, <2>9, <3>1, ZenonT(60) DEF ParseAtMac
  <2>12. Alike([r EXCEPT !.pos = e, !.cut = @ \cup {p}, !.atmac = f, !.at = at, !.ok = ok],
               [v EXCEPT !.pos = e, !.cut = @ \cup {p}, !.atmac = f, !.at = at, !.ok = ok])
    BY DEF Alike, FieldNames
  <2>13. [r EXCEPT !.pos = e, !.cut = @ \cup {p}, !.atmac = f, !.at = at, !.ok = ok].pos = e
    BY DEF Alike, FieldNames
  <2>14. e \in Nat /\ a <= e
    <3>1. PICK g \in Nat : g = e /\ s <= g /\ a <= s
      BY <1>7, <2>5, <2>9
    <3> QED BY <3>1
  <2> QED BY <2>10, <2>11, <2>12, <2>13, <2>14, Zenon
<1> QED
  BY <1>8, <1>9

(* ... then for the MAC to answer with. *)
LEMMA SameMac ==
  ASSUME NEW t \in Text, NEW u \in Text, NEW r, NEW v, Alike(r, v), NEW a \in Nat \ {0},
         r.pos \in Nat, a <= r.pos, SameFrom(t, u, a)
  PROVE  Alike(ParseMac(t, r), ParseMac(u, v))
<1>1. PICK b \in Nat : b = r.pos /\ b = v.pos /\ a <= b
  BY DEF Alike
<1>2. PICK B : B = Char \ {" "}
  OBVIOUS
<1>3. PICK s \in Nat : s = Find(t, b, B) /\ s = Find(u, b, B) /\ (s # End(t) => b <= s)
  <2>1. Len(t) \in Nat /\ End(t) = Len(t) + 1
    BY DEF Text, End
  <2>2. Find(t, b, B) \in Nat /\ (b > Len(t) => Find(t, b, B) = End(t))
    BY <2>1, FindHits
  <2>3. Find(t, b, B) = Find(u, b, B)
    BY <1>1, SameFind
  <2>4. ~(b > Len(t)) => b <= Find(t, b, B)
    <3>1. ~(b > Len(t)) => b <= Len(t) + 1
      BY <2>1
    <3> QED BY <3>1, FoundFrom
  <2> QED BY <2>2, <2>3, <2>4, Zenon
<1>4. s = Skip(t, r.pos, {" "}) /\ s = Skip(u, v.pos, {" "})
  BY <1>1, <1>2, <1>3, Zenon DEF Skip
<1>5. End(t) = End(u)
  BY Zenon DEF SameFrom, End
<1>6. CASE s = End(t)
  <2>1. ParseMac(t, r) = r /\ ParseMac(u, v) = v
    BY <1>4, <1>5, <1>6, Zenon DEF ParseMac
  <2> QED BY <2>1
<1>7. CASE s # End(t)
  <2>1. a <= s
    BY <1>1, <1>3, <1>7
  <2>2. At(t, s) = At(u, s)
    BY <2>1, SameAt
  <2>3. CASE At(t, s) = "#"
    <3>1. ParseMac(t, r) = r /\ ParseMac(u, v) = v
      BY <1>4, <2>2, <2>3, Zenon DEF ParseMac
    <3> QED BY <3>1
  <2>4. CASE At(t, s) # "#"
    <3>1. PICK C : C = {"#", " ", NUL}
      OBVIOUS
    <3>2. PICK p \in Nat : p = Find(t, s, C) /\ p <= Len(t) + 1
      <4>1. Len(t) \in Nat /\ End(t) = Len(t) + 1
        BY DEF Text, End
      <4> QED BY <4>1, FindHits
    <3>3. p = Find(u, s, C)
      BY <2>1, <3>2, SameFind
    <3>4. PICK f : f = SubSeq(t, s, p - 1) /\ f = SubSeq(u, s, p - 1)
      <4>1. a <= s /\ p <= Len(t) + 1
        BY <2>1, <3>2
      <4>2. SubSeq(t, s, p - 1) = SubSeq(u, s, p - 1)
        BY <4>1, SameField
      <4> QED BY <4>2
    <3>5. PICK ok : ok = (~r.neg /\ IsMac(f)) /\ ok = (~v.neg /\ IsMac(f))
      <4>1. r.neg = v.neg
        BY Zenon DEF Alike
      <4> QED BY <4>1
    <3>6. /\ ParseMac(t, r) = [r EXCEPT !.cut = @ \cup {p}, !.mac = f, !.ok = ok]
          /\ ParseMac(u, v) = [v EXCEPT !.cut = @ \cup {p}, !.mac = f, !.ok = ok]
      BY <1>4, <1>5, <1>7, <2>2, <2>4, <3>1, <3>2, <3>3, <3>4, <3>5, Zenon DEF ParseMac
    <3>7. Alike([r EXCEPT !.cut = @ \cup {p}, !.mac = f, !.ok = ok],
                [v EXCEPT !.cut = @ \cup {p}, !.mac = f, !.ok = ok])
      BY DEF Alike, FieldNames
    <3> QED BY <3>6, <3>7, Zenon
  <2> QED BY <2>3, <2>4
<1> QED
  BY <1>6, <1>7

Blank == {" "}
Gap == {" ", NUL}
HostEnd == {"/", "@", " ", NUL}
MacEnd == {"#", " ", NUL}
Sharp == {"{", "}", "#", ",", "-", "/", "@"}

(* A text without marks and without the separators '/' and '@'. *)
Clear(x) == \A j \in 1 .. Len(x) : x[j] \notin Sharp

(* The host of a line is over within its first part q: it begins at b, with *)
(* the sign at s, and the blank behind it is at p.                          *)
HostSpan(q, b, s, p) ==
  /\ \A j \in 1 .. b - 1 : q[j] \in Blank
  /\ q[b] \notin Blank
  /\ s = IF q[b] = "!" THEN b + 1 ELSE b
  /\ \A j \in s .. p - 1 : q[j] \notin HostEnd
  /\ q[p] \in Gap

HostOk(h, neg) == IsAddr(h) \/ (h = <<"*">> /\ ~neg)

HostFields(q, b, s, p) ==
  [NoFields EXCEPT !.pos = p + 1, !.sep = q[p], !.cut = {p}, !.neg = (q[b] = "!"),
                   !.host = SubSeq(q, s, p - 1), !.ok = HostOk(SubSeq(q, s, p - 1), q[b] = "!")]

(* Then it does not depend on what follows. *)
LEMMA HostWithin ==
  ASSUME NEW q \in Text, NEW w \in Text, Clear(q), NEW b \in Nat \ {0}, NEW s \in Nat \ {0},
         NEW p \in Nat \ {0}, b <= s, s <= p, p <= Len(q), HostSpan(q, b, s, p)
  PROVE  ParseHost(q \o w, NoFields) = HostFields(q, b, s, p)
<1>1. PICK t \in Text, L \in Nat :
        /\ t = q \o w /\ L = Len(q) /\ \A i \in 1 .. L : t[i] = q[i]
        /\ Len(t) \in Nat /\ L <= Len(t)
  <2>1. PICK t : t = q \o w
    OBVIOUS
  <2>2. /\ t \in Text /\ Len(t) = Len(q) + Len(w) /\ Len(q) \in Nat /\ Len(w) \in Nat
        /\ \A i \in 1 .. Len(q) : t[i] = q[i]
    BY <2>1, Behind
  <2>3. Len(t) \in Nat /\ Len(q) <= Len(t)
    BY <2>2
  <2> QED BY <2>1, <2>2, <2>3
<1>2. p <= L /\ b \in 1 .. L /\ s \in 1 .. L /\ p \in 1 .. L /\ L <= Len(t)
  BY <1>1
<1>3. t[b] = q[b] /\ t[p] = q[p]
  BY <1>1, <1>2
<1>4. DOMAIN t = 1 .. Len(t)
  BY DEF Text
<1>5. b \in DOMAIN t /\ p \in DOMAIN t
  <2>1. b \in 1 .. Len(t) /\ p \in 1 .. Len(t)
    BY <1>1, <1>2
  <2> QED BY <1>4, <2>1, Zenon
<1>6. At(t, b) = q[b] /\ At(t, p) = q[p]
  BY <1>3, <1>5, Zenon DEF At
<1>7. Skip(t, 1, Blank) = b
  <2>0. PICK C : C = Char \ Blank
    OBVIOUS
  <2>1. t[b] \in C
    <3>1. q[b] \in Char
      BY <1>1, <1>2, ElementOfSeq DEF Text
    <3> QED BY <1>3, <2>0, <3>1, Zenon DEF HostSpan
  <2>2. ASSUME NEW j \in 1 .. b - 1 PROVE t[j] \notin C
    <3>1. j \in 1 .. L
      BY <1>2
    <3>2. q[j] \in Blank
      BY Zenon DEF HostSpan
    <3> QED BY <1>1, <2>0, <3>1, <3>2, Zenon
  <2>3. 1 \in Nat \ {0} /\ b \in Nat /\ 1 <= b /\ b <= Len(t) + 1
    BY <1>1, <1>2
  <2>4. Find(t, 1, C) = b
    BY <2>1, <2>2, <2>3, FoundAt
  <2> QED BY <2>0, <2>4, Zenon DEF Skip
<1>8. Find(t, s, HostEnd) = p
  <2>1. t[p] \in HostEnd
    <3>1. q[p] \in Gap
      BY DEF HostSpan
    <3> QED BY <1>3, <3>1, Zenon DEF Gap, HostEnd
  <2>2. ASSUME NEW j \in s .. p - 1 PROVE t[j] \notin HostEnd
    <3>1. j \in 1 .. L
      BY <1>2
    <3> QED BY <1>1, <3>1, Zenon DEF HostSpan
  <2>3. p \in Nat /\ p <= Len(t) + 1
    BY <1>1, <1>2
  <2> QED BY <2>1, <2>2, <2>3, FoundAt
<1>9. PICK h : h = SubSeq(t, s, p - 1) /\ h = SubSeq(q, s, p - 1)
  <2>1. p \in Nat /\ p <= Len(t) + 1 /\ p <= Len(q) + 1
    BY <1>1, <1>2
  <2>2. ASSUME NEW j \in s .. p - 1 PROVE t[j] = q[j]
    <3>1. j \in 1 .. L
      BY <1>2
    <3> QED BY <1>1, <3>1
  <2>3. SubSeq(t, s, p - 1) = SubSeq(q, s, p - 1)
    BY <2>1, <2>2, SameSpan
  <2> QED BY <2>3
<1>10. b # End(t) /\ Past(t, p) = p + 1
  <2>1. b # Len(t) + 1 /\ p < Len(t) + 1
    BY <1>1, <1>2
  <2> QED BY <2>1, Zenon DEF End, Past
<1>11. At(t, b) # "#"
  <2>1. q[b] \notin Sharp
    BY <1>1, <1>2 DEF Clear
  <2> QED BY <1>6, <2>1, Zenon DEF Sharp
<1>12. s = IF At(t, b) = "!" THEN b + 1 ELSE b
  BY <1>6, Zenon DEF HostSpan
<1>13. NoFields.pos = 1
  BY DEF NoFields
<1>14. Find(t, s, {"/", "@", " ", NUL}) = p /\ Skip(t, 1, {" "}) = b
  BY <1>7, <1>8, Zenon DEF HostEnd, Blank
<1>15. PICK neg : neg = (q[b] = "!")
  OBVIOUS
<1>16. ParseHost(t, NoFields) =
         [NoFields EXCEPT !.pos = p + 1, !.sep = q[p], !.cut = {p}, !.neg = neg,
                   !.host = h, !.ok = IsAddr(h) \/ (h = <<"*">> /\ ~neg)]
  <2>1. ParseHost(t, NoFields) =
          IF b = End(t) \/ At(t, b) = "#" THEN [NoFields EXCEPT !.ok = FALSE]
          ELSE [NoFields EXCEPT !.pos = Past(t, p), !.sep = At(t, p), !.cut = {p},
                       !.neg = (At(t, b) = "!"), !.host = SubSeq(t, s, p - 1),
                       !.ok = IsAddr(SubSeq(t, s, p - 1))
                              \/ (SubSeq(t, s, p - 1) = <<"*">> /\ ~(At(t, b) = "!"))]
    BY <1>12, <1>13, <1>14, Zenon DEF ParseHost
  <2>2. PICK neg2 : neg2 = (At(t, b) = "!")
    OBVIOUS
  <2>3. neg = neg2
    BY <1>6, <1>15, <2>2
  <2>4. ParseHost(t, NoFields) = [NoFields EXCEPT !.pos = Past(t, p), !.sep = At(t, p), !.cut = {p},
                       !.neg = neg2, !.host = h, !.ok = IsAddr(h) \/ (h = <<"*">> /\ ~neg2)]
    BY <1>9, <1>10, <1>11, <2>1, <2>2, Zenon
  <2> QED BY <1>6, <1>10, <2>3, <2>4, Zenon
<1> QED
  BY <1>1, <1>9, <1>15, <1>16, Zenon DEF HostFields, HostOk

HostRecord(r, q, b, s, p) ==
  /\ DOMAIN r = FieldNames /\ r.pos = p + 1 /\ r.sep # "/" /\ r.sep # "@" /\ r.cut = {p}
  /\ r.neg = (q[b] = "!") /\ r.host = SubSeq(q, s, p - 1) /\ r.ok = HostOk(r.host, r.neg)
  /\ r.mask = NoMask /\ r.at = "NONE" /\ r.atmac = <<>> /\ r.mac = <<>>

(* What is in the fields then. *)
LEMMA HostFieldsAre ==
  ASSUME NEW q, NEW b, NEW s, NEW p, q[p] \in Gap, NEW r, r = HostFields(q, b, s, p)
  PROVE  HostRecord(r, q, b, s, p)
<1>1. PICK h, neg, ok : h = SubSeq(q, s, p - 1) /\ neg = (q[b] = "!") /\ ok = HostOk(h, neg)
  OBVIOUS
<1>2. r = [NoFields EXCEPT !.pos = p + 1, !.sep = q[p], !.cut = {p}, !.neg = neg, !.host = h, !.ok = ok]
  BY <1>1, Zenon DEF HostFields
<1>3. PICK m : m = NoMask
  OBVIOUS
<1>4. NoFields = [pos |-> 1, ok |-> TRUE, cut |-> {}, neg |-> FALSE, host |-> <<>>,
                  mask |-> m, at |-> "NONE", atmac |-> <<>>, mac |-> <<>>, sep |-> NUL]
  BY <1>3, Zenon DEF NoFields
<1>5. PICK k : k = p + 1
  OBVIOUS
<1>6. q[p] # "/" /\ q[p] # "@"
  BY DEF Gap, NUL
<1>7. PICK z : z = q[p] /\ z # "/" /\ z # "@"
  BY <1>6
<1>8. r = [NoFields EXCEPT !.pos = k, !.sep = z, !.cut = {p}, !.neg = neg, !.host = h, !.ok = ok]
  BY <1>2, <1>5, <1>7, Zenon
<1>9. /\ DOMAIN r = FieldNames /\ r.pos = k /\ r.sep = z /\ r.cut = {p}
      /\ r.neg = neg /\ r.host = h /\ r.ok = ok
      /\ r.mask = m /\ r.at = "NONE" /\ r.atmac = <<>> /\ r.mac = <<>>
  BY <1>4, <1>8 DEF FieldNames
<1> QED
  BY <1>1, <1>3, <1>5, <1>7, <1>9, Zenon DEF HostRecord

(* The rest of parseLine when the host was not followed by a '/'. *)
Rest1(t, r) == IF r.ok THEN ParseAtMac(t, r) ELSE r
Rest2(t, r) == IF r.ok THEN ParseMac(t, r) ELSE r

(* The line is then read so. *)
LEMMA LineIs ==
  ASSUME NEW t, NEW r, r = ParseHost(t, NoFields), r.sep # "/"
  PROVE  BlackList_parseLine(t) = {Rest2(t, Rest1(t, r))}
<1>1. ParseMask(t, r) = r
  BY Zenon DEF ParseMask
<1>2. {IF x.ok THEN ParseMask(t, x) ELSE x : x \in {ParseHost(t, NoFields)}} = {r}
  BY <1>1
<1>3. PICK r1 : r1 = Rest1(t, r)
  OBVIOUS
<1>4. {IF x.ok THEN ParseAtMac(t, x) ELSE x : x \in {r}} = {r1}
  BY <1>3 DEF Rest1
<1>5. {IF x.ok THEN ParseMac(t, x) ELSE x : x \in {r1}} = {Rest2(t, r1)}
  BY DEF Rest2
<1> QED
  BY <1>2, <1>3, <1>4, <1>5, Zenon DEF BlackList_parseLine

Entries(t) == UNION {EntryOf(r) : r \in BlackList_parseLine(t)}

(* The MAC behind the host is over within the first part, too. *)
MacSpan(q, p, g, e) ==
  /\ \A j \in p + 1 .. g - 1 : q[j] \in Blank
  /\ q[g] \notin Blank
  /\ \A j \in g .. e - 1 : q[j] \notin MacEnd
  /\ q[e] \in Gap

MacFields(r, q, g, e) ==
  [r EXCEPT !.cut = @ \cup {e}, !.mac = SubSeq(q, g, e - 1),
            !.ok = ~r.neg /\ IsMac(SubSeq(q, g, e - 1))]

(* Then parseLine finds it, whatever follows. *)
LEMMA MacWithin ==
  ASSUME NEW q \in Text, NEW w \in Text, Clear(q), NEW p \in Nat \ {0}, NEW g \in Nat \ {0},
         NEW e \in Nat \ {0}, p < g, g <= e, e <= Len(q), MacSpan(q, p, g, e),
         NEW r, r.pos = p + 1
  PROVE  ParseMac(q \o w, r) = MacFields(r, q, g, e)
<1>1. PICK t \in Text, L \in Nat :
        /\ t = q \o w /\ L = Len(q) /\ \A i \in 1 .. L : t[i] = q[i]
        /\ Len(t) \in Nat /\ L <= Len(t)
  <2>1. PICK t : t = q \o w
    OBVIOUS
  <2>2. /\ t \in Text /\ Len(t) = Len(q) + Len(w) /\ Len(q) \in Nat /\ Len(w) \in Nat
        /\ \A i \in 1 .. Len(q) : t[i] = q[i]
    BY <2>1, Behind
  <2>3. Len(t) \in Nat /\ Len(q) <= Len(t)
    BY <2>2
  <2> QED BY <2>1, <2>2, <2>3
<1>2. e <= L /\ g \in 1 .. L /\ e \in 1 .. L /\ L <= Len(t)
  BY <1>1
<1>3. t[g] = q[g] /\ t[e] = q[e]
  BY <1>1, <1>2
<1>4. At(t, g) = q[g]
  <2>1. DOMAIN t = 1 .. Len(t)
    BY DEF Text
  <2>2. g \in 1 .. Len(t)
    BY <1>1, <1>2
  <2> QED BY <1>3, <2>1, <2>2, Zenon DEF At
<1>5. Skip(t, p + 1, Blank) = g
  <2>0. PICK C : C = Char \ Blank
    OBVIOUS
  <2>1. t[g] \in C
    <3>1. q[g] \in Char
      BY <1>1, <1>2, ElementOfSeq DEF Text
    <3> QED BY <1>3, <2>0, <3>1, Zenon DEF MacSpan
  <2>2. ASSUME NEW j \in p + 1 .. g - 1 PROVE t[j] \notin C
    <3>1. j \in 1 .. L
      BY <1>2
    <3>2. q[j] \in Blank
      BY Zenon DEF MacSpan
    <3> QED BY <1>1, <2>0, <3>1, <3>2, Zenon
  <2>3. p + 1 \in Nat \ {0} /\ g \in Nat /\ p + 1 <= g /\ g <= Len(t) + 1
    BY <1>1, <1>2
  <2>4. Find(t, p + 1, C) = g
    BY <2>1, <2>2, <2>3, FoundAt
  <2> QED BY <2>0, <2>4, Zenon DEF Skip
<1>6. Find(t, g, MacEnd) = e
  <2>1. t[e] \in MacEnd
    <3>1. q[e] \in Gap
      BY DEF MacSpan
    <3> QED BY <1>3, <3>1, Zenon DEF Gap, MacEnd
  <2>2. ASSUME NEW j \in g .. e - 1 PROVE t[j] \notin MacEnd
    <3>1. j \in 1 .. L
      BY <1>2
    <3> QED BY <1>1, <3>1, Zenon DEF MacSpan
  <2>3. e \in Nat /\ e <= Len(t) + 1
    BY <1>1, <1>2
  <2> QED BY <2>1, <2>2, <2>3, FoundAt
<1>7. SubSeq(t, g, e - 1) = SubSeq(q, g, e - 1)
  <2>1. e \in Nat /\ e <= Len(t) + 1 /\ e <= Len(q) + 1
    BY <1>1, <1>2
  <2>2. ASSUME NEW j \in g .. e - 1 PROVE t[j] = q[j]
    <3>1. j \in 1 .. L
      BY <1>2
    <3> QED BY <1>1, <3>1
  <2> QED BY <2>1, <2>2, SameSpan
<1>8. g # End(t)
  <2>1. g # Len(t) + 1
    BY <1>1, <1>2
  <2> QED BY <2>1, Zenon DEF End
<1>9. At(t, g) # "#"
  <2>1. q[g] \notin Sharp
    BY <1>1, <1>2 DEF Clear
  <2> QED BY <1>4, <2>1, Zenon DEF Sharp
<1>10. Skip(t, r.pos, {" "}) = g /\ Find(t, g, {"#", " ", NUL}) = e
  BY <1>5, <1>6, Zenon DEF Blank, MacEnd
<1>11. ParseMac(t, r) =
        IF g = End(t) \/ At(t, g) = "#" THEN r
        ELSE [r EXCEPT !.cut = @ \cup {e}, !.mac = SubSeq(t, g, e - 1), !.ok = ~r.neg /\ IsMac(SubSeq(t, g, e - 1))]
  BY <1>10, Zenon DEF ParseMac
<1> QED
  BY <1>1, <1>7, <1>8, <1>9, <1>11, Zenon DEF MacFields

(* The first part with NULs at p and at e. *)
Blanked(q, u, p, e) ==
  /\ Len(u) = Len(q)
  /\ \A j \in 1 .. Len(q) : u[j] = IF j = p \/ j = e THEN NUL ELSE q[j]

(* It has no marks either. *)
LEMMA BlankedClear ==
  ASSUME NEW q \in Text, NEW u \in Text, Clear(q), NEW p, NEW e, Blanked(q, u, p, e)
  PROVE  Clear(u)
<1>1. NUL \notin Sharp
  BY DEF NUL, Sharp
<1>2. ASSUME NEW j \in 1 .. Len(q) PROVE u[j] \notin Sharp
  BY <1>1, Zenon DEF Clear, Blanked
<1> QED
  BY <1>2, Zenon DEF Clear, Blanked

(* The host is found at the same place in it. *)
LEMMA BlankedHost ==
  ASSUME NEW q \in Text, NEW u \in Text, NEW b \in Nat \ {0}, NEW s \in Nat \ {0},
         NEW p \in Nat \ {0}, NEW e \in Nat \ {0}, b <= s, s <= p, p <= e, p <= Len(q),
         HostSpan(q, b, s, p), Blanked(q, u, p, e)
  PROVE  /\ HostSpan(u, b, s, p) /\ SubSeq(u, s, p - 1) = SubSeq(q, s, p - 1)
         /\ (u[b] = "!") = (q[b] = "!")
<1>1. PICK L \in Nat : L = Len(q) /\ L = Len(u) /\ p <= L
  BY DEF Text, Blanked
<1>2. ASSUME NEW j \in 1 .. p - 1 PROVE u[j] = q[j]
  <2>1. j \in 1 .. L /\ j # p /\ j # e
    BY <1>1
  <2> QED BY <1>1, <2>1, Zenon DEF Blanked
<1>3. u[p] = NUL
  <2>1. p \in 1 .. L
    BY <1>1
  <2> QED BY <1>1, <2>1, Zenon DEF Blanked
<1>4. (u[b] = "!") = (q[b] = "!") /\ u[b] \notin Blank
  <2>1. CASE b = p
    <3>1. q[b] \in Gap /\ q[b] \notin Blank /\ u[b] = NUL
      BY <1>3, <2>1, Zenon DEF HostSpan
    <3> QED BY <3>1 DEF Gap, Blank, NUL
  <2>2. CASE b # p
    <3>1. b \in 1 .. p - 1
      BY <2>2
    <3>2. u[b] = q[b]
      BY <1>2, <3>1
    <3> QED BY <3>2, Zenon DEF HostSpan
  <2> QED BY <2>1, <2>2
<1>5. ASSUME NEW j \in 1 .. b - 1 PROVE u[j] \in Blank
  <2>1. j \in 1 .. p - 1
    OBVIOUS
  <2> QED BY <1>2, <2>1, Zenon DEF HostSpan
<1>6. ASSUME NEW j \in s .. p - 1 PROVE u[j] \notin HostEnd
  <2>1. j \in 1 .. p - 1
    OBVIOUS
  <2> QED BY <1>2, <2>1, Zenon DEF HostSpan
<1>7. s = IF u[b] = "!" THEN b + 1 ELSE b
  BY <1>4, Zenon DEF HostSpan
<1>8. u[p] \in Gap
  BY <1>3, Zenon DEF Gap
<1>9. HostSpan(u, b, s, p)
  BY <1>4, <1>5, <1>6, <1>7, <1>8, Zenon DEF HostSpan
<1>10. SubSeq(u, s, p - 1) = SubSeq(q, s, p - 1)
  <2>1. p \in Nat /\ p <= Len(u) + 1 /\ p <= Len(q) + 1
    BY <1>1
  <2>2. ASSUME NEW j \in s .. p - 1 PROVE u[j] = q[j]
    <3>1. j \in 1 .. p - 1
      OBVIOUS
    <3> QED BY <1>2, <3>1
  <2> QED BY <2>1, <2>2, SameSpan
<1> QED
  BY <1>4, <1>9, <1>10, Zenon

(* So is the MAC. *)
LEMMA BlankedMac ==
  ASSUME NEW q \in Text, NEW u \in Text, NEW p \in Nat \ {0}, NEW g \in Nat \ {0},
         NEW e \in Nat \ {0}, p < g, g <= e, e <= Len(q), MacSpan(q, p, g, e), Blanked(q, u, p, e)
  PROVE  MacSpan(u, p, g, e) /\ SubSeq(u, g, e - 1) = SubSeq(q, g, e - 1)
<1>1. PICK L \in Nat : L = Len(q) /\ L = Len(u) /\ e <= L
  BY DEF Text, Blanked
<1>2. ASSUME NEW j \in p + 1 .. e - 1 PROVE u[j] = q[j]
  <2>1. j \in 1 .. L /\ j # p /\ j # e
    BY <1>1
  <2> QED BY <1>1, <2>1, Zenon DEF Blanked
<1>3. u[e] = NUL
  <2>1. e \in 1 .. L
    BY <1>1
  <2> QED BY <1>1, <2>1, Zenon DEF Blanked
<1>4. u[g] \notin Blank
  <2>1. CASE g = e
    <3>1. NUL \notin Blank
      BY DEF NUL, Blank
    <3> QED BY <1>3, <2>1, <3>1, Zenon
  <2>2. CASE g # e
    <3>1. g \in p + 1 .. e - 1
      BY <2>2
    <3> QED BY <1>2, <3>1, Zenon DEF MacSpan
  <2> QED BY <2>1, <2>2
<1>5. ASSUME NEW j \in p + 1 .. g - 1 PROVE u[j] \in Blank
  <2>1. j \in p + 1 .. e - 1
    OBVIOUS
  <2> QED BY <1>2, <2>1, Zenon DEF MacSpan
<1>6. ASSUME NEW j \in g .. e - 1 PROVE u[j] \notin MacEnd
  <2>1. j \in p + 1 .. e - 1
    OBVIOUS
  <2> QED BY <1>2, <2>1, Zenon DEF MacSpan
<1>8. u[e] \in Gap
  BY <1>3, Zenon DEF Gap
<1>9. MacSpan(u, p, g, e)
  BY <1>4, <1>5, <1>6, <1>8, Zenon DEF MacSpan
<1>10. SubSeq(u, g, e - 1) = SubSeq(q, g, e - 1)
  <2>1. e \in Nat /\ e <= Len(u) + 1 /\ e <= Len(q) + 1
    BY <1>1
  <2>2. ASSUME NEW j \in g .. e - 1 PROVE u[j] = q[j]
    <3>1. j \in p + 1 .. e - 1
      OBVIOUS
    <3> QED BY <1>2, <3>1
  <2> QED BY <2>1, <2>2, SameSpan
<1> QED
  BY <1>9, <1>10, Zenon

(* Both parts with the same text behind them. *)
LEMMA BothBehind ==
  ASSUME NEW q \in Text, NEW u \in Text, NEW w \in Text, NEW p, NEW e, Blanked(q, u, p, e)
  PROVE  /\ q \o w \in Text /\ u \o w \in Text /\ Len(u \o w) = Len(q \o w)
         /\ Len(q \o w) \in Nat /\ Len(q) \in Nat /\ Len(q) <= Len(q \o w)
         /\ \A j \in 1 .. Len(q) : (q \o w)[j] = q[j] /\ (u \o w)[j] = u[j]
         /\ \A j \in Nat : Len(q) < j /\ j <= Len(q \o w) => (q \o w)[j] = (u \o w)[j]
<1>1. PICK t : t = q \o w
  OBVIOUS
<1>2. PICK v : v = u \o w
  OBVIOUS
<1>l. PICK L \in Nat, m \in Nat : L = Len(q) /\ L = Len(u) /\ m = Len(w)
  <2>1. Len(q) \in Nat /\ Len(w) \in Nat /\ Len(u) = Len(q)
    BY DEF Text, Blanked
  <2> QED BY <2>1
<1>3. /\ L = Len(q) /\ L = Len(u) /\ Len(t) = L + m /\ Len(v) = L + m
      /\ t \in Text /\ v \in Text
      /\ (\A i \in 1 .. L : t[i] = q[i]) /\ (\A i \in 1 .. L : v[i] = u[i])
      /\ (\A i \in 1 .. m : t[L + i] = w[i]) /\ (\A i \in 1 .. m : v[L + i] = w[i])
  <2>1. /\ t \in Text /\ Len(t) = Len(q) + Len(w)
        /\ \A i \in 1 .. Len(q) : t[i] = q[i]
        /\ \A i \in 1 .. Len(w) : t[Len(q) + i] = w[i]
    BY <1>1, Behind
  <2>2. /\ v \in Text /\ Len(v) = Len(u) + Len(w)
        /\ \A i \in 1 .. Len(u) : v[i] = u[i]
        /\ \A i \in 1 .. Len(w) : v[Len(u) + i] = w[i]
    BY <1>2, Behind
  <2> QED BY <1>l, <2>1, <2>2, Zenon
<1>4. ASSUME NEW j \in Nat, L < j, j <= L + m PROVE t[j] = v[j]
  <2>1. PICK i \in 1 .. m : j = L + i
    <3>1. j - L \in 1 .. m /\ j = L + (j - L)
      BY <1>4
    <3> QED BY <3>1
  <2> QED BY <1>3, <2>1, Zenon
<1>5. L + m \in Nat /\ L <= L + m
  OBVIOUS
<1>6. PICK n \in Nat : n = L + m /\ L <= n /\ Len(t) = n /\ Len(v) = n
  BY <1>3, <1>5
<1>7. \A j \in Nat : L < j /\ j <= n => t[j] = v[j]
  BY <1>4, <1>6
<1>8. /\ t \in Text /\ v \in Text /\ Len(v) = Len(t) /\ Len(t) \in Nat /\ L \in Nat /\ L <= Len(t)
      /\ \A j \in 1 .. L : t[j] = q[j] /\ v[j] = u[j]
      /\ \A j \in Nat : L < j /\ j <= Len(t) => t[j] = v[j]
  BY <1>3, <1>6, <1>7, Zenon
<1> QED
  BY <1>1, <1>2, <1>3, <1>8, Zenon

HostsAre(t, y, p) ==
  \E r, v : /\ r = ParseHost(t, NoFields) /\ v = ParseHost(y, NoFields)
            /\ Alike(r, v) /\ r.pos = p + 1 /\ v.pos = p + 1 /\ r.cut = {p}
            /\ BlackList_parseLine(t) = {Rest2(t, Rest1(t, r))}
            /\ BlackList_parseLine(y) = {Rest2(y, Rest1(y, v))}

(* The results for the host are alike. *)
LEMMA HostsAlike ==
  ASSUME NEW q \in Text, NEW u \in Text, NEW w \in Text, Clear(q),
         NEW b \in Nat \ {0}, NEW s \in Nat \ {0}, NEW p \in Nat \ {0}, NEW e \in Nat \ {0},
         b <= s, s <= p, p <= e, p <= Len(q), HostSpan(q, b, s, p), Blanked(q, u, p, e)
  PROVE  HostsAre(q \o w, u \o w, p)
<1>1. Clear(u)
  BY BlankedClear
<1>2. HostSpan(u, b, s, p) /\ SubSeq(u, s, p - 1) = SubSeq(q, s, p - 1) /\ (u[b] = "!") = (q[b] = "!")
  BY BlankedHost
<1>3. Len(u) = Len(q)
  BY DEF Blanked
<1>4. PICK r : r = ParseHost(q \o w, NoFields) /\ r = HostFields(q, b, s, p)
  BY HostWithin
<1>5. PICK v : v = ParseHost(u \o w, NoFields) /\ v = HostFields(u, b, s, p)
  <2>1. p <= Len(u)
    BY <1>3
  <2> QED BY <1>1, <1>2, <2>1, HostWithin
<1>6. q[p] \in Gap /\ u[p] \in Gap
  BY <1>2, Zenon DEF HostSpan
<1>8. HostRecord(r, q, b, s, p)
  BY <1>4, <1>6, HostFieldsAre, Zenon
<1>9. HostRecord(v, u, b, s, p)
  BY <1>5, <1>6, HostFieldsAre, Zenon
<1>e. r.neg = v.neg /\ r.host = v.host
  BY <1>2, <1>8, <1>9, Zenon DEF HostRecord
<1>10. Alike(r, v)
  BY <1>8, <1>9, <1>e, Zenon DEF Alike, HostRecord
<1>11. BlackList_parseLine(q \o w) = {Rest2(q \o w, Rest1(q \o w, r))}
  BY <1>4, <1>8, LineIs, Zenon DEF HostRecord
<1>12. BlackList_parseLine(u \o w) = {Rest2(u \o w, Rest1(u \o w, v))}
  BY <1>5, <1>9, LineIs, Zenon DEF HostRecord
<1> QED
  BY <1>4, <1>5, <1>8, <1>9, <1>10, <1>11, <1>12, Zenon DEF HostsAre, HostRecord

(* The separators that parseLine has overwritten in the first part of a     *)
(* buffer make no difference for what is parsed there next.                 *)
LEMMA BlankedEntries ==
  ASSUME NEW q \in Text, NEW u \in Text, NEW w \in Text, Clear(q),
         NEW b \in Nat \ {0}, NEW s \in Nat \ {0}, NEW p \in Nat \ {0}, NEW e \in Nat \ {0},
         b <= s, s <= p, p <= e, e <= Len(q), HostSpan(q, b, s, p), Blanked(q, u, p, e),
         e = p \/ \E g \in Nat \ {0} : p < g /\ g <= e /\ MacSpan(q, p, g, e)
  PROVE  Entries(u \o w) = Entries(q \o w)
<1>0. p <= Len(q) /\ Len(q) \in Nat
  BY DEF Text
<1>1. PICK t \in Text, y \in Text : t = q \o w /\ y = u \o w /\ Len(y) = Len(t) /\ Len(t) \in Nat /\ Len(q) <= Len(t)
         /\ (\A j \in 1 .. Len(q) : t[j] = q[j] /\ y[j] = u[j])
         /\ \A j \in Nat : Len(q) < j /\ j <= Len(t) => t[j] = y[j]
  <2>1. /\ q \o w \in Text /\ u \o w \in Text /\ Len(u \o w) = Len(q \o w)
        /\ Len(q \o w) \in Nat /\ Len(q) <= Len(q \o w)
        /\ \A j \in 1 .. Len(q) : (q \o w)[j] = q[j] /\ (u \o w)[j] = u[j]
        /\ \A j \in Nat : Len(q) < j /\ j <= Len(q \o w) => (q \o w)[j] = (u \o w)[j]
    BY BothBehind
  <2>2. PICK t, y : t = q \o w /\ y = u \o w
    OBVIOUS
  <2> QED BY <2>1, <2>2, Zenon
<1>2. PICK r, v : /\ Alike(r, v) /\ r.pos = p + 1 /\ v.pos = p + 1
                  /\ BlackList_parseLine(t) = {Rest2(t, Rest1(t, r))}
                  /\ BlackList_parseLine(y) = {Rest2(y, Rest1(y, v))}
  <2>1. HostsAre(q \o w, u \o w, p)
    BY <1>0, HostsAlike
  <2> QED BY <1>1, <2>1, Zenon DEF HostsAre
<1>3. Alike(Rest2(t, Rest1(t, r)), Rest2(y, Rest1(y, v)))
  <2>0. r.ok = v.ok
    BY <1>2, Zenon DEF Alike
  <2>1. CASE ~r.ok
    BY <1>2, <2>0, <2>1, Zenon DEF Rest1, Rest2
  <2>2. CASE r.ok
    <3>1. Rest1(t, r) = ParseAtMac(t, r) /\ Rest1(y, v) = ParseAtMac(y, v)
      BY <2>0, <2>2, Zenon DEF Rest1
    <3>2. CASE e = p
      <4>1. PICK a \in Nat \ {0} : a = p + 1
        <5>1. p + 1 \in Nat \ {0}
          OBVIOUS
        <5> QED BY <5>1
      <4>2. SameFrom(t, y, a)
        <5>1. ASSUME NEW j \in Nat, a <= j, j <= Len(t) PROVE t[j] = y[j]
          <6>1. CASE j <= Len(q)
            <7>1. j \in 1 .. Len(q) /\ j # p /\ j # e
              BY <1>0, <3>2, <4>1, <5>1, <6>1
            <7>2. u[j] = q[j]
              BY <7>1, Zenon DEF Blanked
            <7> QED BY <1>1, <7>1, <7>2, Zenon
          <6>2. CASE ~(j <= Len(q))
            <7>1. Len(q) < j
              BY <1>0, <6>2
            <7> QED BY <1>1, <5>1, <7>1, Zenon
          <6> QED BY <6>1, <6>2
        <5> QED BY <1>1, <5>1, Zenon DEF SameFrom
      <4>3. PICK r1, v1 : r1 = ParseAtMac(t, r) /\ v1 = ParseAtMac(y, v)
        OBVIOUS
      <4>4. Alike(r1, v1) /\ r1.pos \in Nat /\ a <= r1.pos
        <5>1. a = r.pos
          BY <1>2, <4>1
        <5> QED BY <1>2, <4>2, <4>3, <5>1, SameAtMac
      <4>5. r1.ok = v1.ok
        BY <4>4, Zenon DEF Alike
      <4>6. CASE ~r1.ok
        BY <3>1, <4>3, <4>4, <4>5, <4>6, Zenon DEF Rest2
      <4>7. CASE r1.ok
        <5>1. Alike(ParseMac(t, r1), ParseMac(y, v1))
          BY <4>2, <4>4, SameMac
        <5> QED BY <3>1, <4>3, <4>5, <4>7, <5>1, Zenon DEF Rest2
      <4> QED BY <4>6, <4>7
    <3>3. CASE e # p
      <4>1. PICK g \in Nat \ {0} : p < g /\ g <= e /\ MacSpan(q, p, g, e)
        BY <3>3
      <4>2. Clear(u) /\ Len(u) = Len(q)
        BY BlankedClear DEF Blanked
      <4>3. PICK k \in 1 .. Len(q) : k = p + 1
        <5>1. p + 1 \in 1 .. Len(q)
          BY <1>0, <4>1
        <5> QED BY <5>1
      <4>4. At(t, p + 1) # "@" /\ At(y, p + 1) # "@"
        <5>1. q[k] \notin Sharp /\ u[k] \notin Sharp
          BY <4>2, Zenon DEF Clear
        <5>2. DOMAIN t = 1 .. Len(t) /\ DOMAIN y = 1 .. Len(t)
          BY <1>1 DEF Text
        <5>3. k \in 1 .. Len(t)
          BY <1>0, <1>1
        <5>4. At(t, k) = q[k] /\ At(y, k) = u[k]
          BY <1>1, <5>2, <5>3, Zenon DEF At
        <5> QED BY <4>3, <5>1, <5>4, Zenon DEF Sharp
      <4>5. PICK star : star = Star(r) /\ star = Star(v)
        <5>1. r.host = v.host
          BY <1>2, Zenon DEF Alike
        <5> QED BY <5>1 DEF Star
      <4>6. PICK r1, v1 : r1 = [r EXCEPT !.ok = ~star] /\ v1 = [v EXCEPT !.ok = ~star]
        OBVIOUS
      <4>7. ParseAtMac(t, r) = r1 /\ ParseAtMac(y, v) = v1
        <5>1. r.sep # "@" /\ v.sep # "@"
          BY <1>2, Zenon DEF Alike
        <5> QED BY <1>2, <4>4, <4>5, <4>6, <5>1, Zenon DEF ParseAtMac
      <4>8. Alike(r1, v1) /\ r1.pos = p + 1 /\ v1.pos = p + 1 /\ r1.ok = v1.ok /\ r1.neg = v1.neg
        BY <1>2, <4>6 DEF Alike, FieldNames
      <4>9. CASE ~r1.ok
        BY <3>1, <4>7, <4>8, <4>9, Zenon DEF Rest2
      <4>10. CASE r1.ok
        <5>1. PICK f : f = SubSeq(q, g, e - 1) /\ f = SubSeq(u, g, e - 1)
          <6>1. SubSeq(u, g, e - 1) = SubSeq(q, g, e - 1)
            BY <4>1, BlankedMac
          <6> QED BY <6>1
        <5>2. PICK ok : ok = (~r1.neg /\ IsMac(f)) /\ ok = (~v1.neg /\ IsMac(f))
          BY <4>8
        <5>3. ParseMac(t, r1) = [r1 EXCEPT !.cut = @ \cup {e}, !.mac = f, !.ok = ok]
          <6>0. p < g /\ g <= e /\ MacSpan(q, p, g, e) /\ r1.pos = p + 1
            BY <4>1, <4>8
          <6>1. ParseMac(q \o w, r1) = MacFields(r1, q, g, e)
            BY <6>0, MacWithin
          <6> QED BY <1>1, <5>1, <5>2, <6>1, Zenon DEF MacFields
        <5>4. ParseMac(y, v1) = [v1 EXCEPT !.cut = @ \cup {e}, !.mac = f, !.ok = ok]
          <6>0. p < g /\ g <= e /\ v1.pos = p + 1 /\ Clear(u)
            BY <4>1, <4>2, <4>8
          <6>1. MacSpan(u, p, g, e)
            BY <4>1, BlankedMac
          <6>2. e <= Len(u)
            BY <4>2
          <6>3. ParseMac(u \o w, v1) = MacFields(v1, u, g, e)
            BY <6>0, <6>1, <6>2, MacWithin
          <6> QED BY <1>1, <5>1, <5>2, <6>3, Zenon DEF MacFields
        <5>5. Alike([r1 EXCEPT !.cut = @ \cup {e}, !.mac = f, !.ok = ok],
                    [v1 EXCEPT !.cut = @ \cup {e}, !.mac = f, !.ok = ok])
          BY <4>8 DEF Alike, FieldNames
        <5> QED BY <3>1, <4>7, <4>8, <4>10, <5>3, <5>4, <5>5, Zenon DEF Rest2
      <4> QED BY <4>9, <4>10
    <3> QED BY <3>2, <3>3
  <2> QED BY <2>1, <2>2
<1>4. EntryOf(Rest2(t, Rest1(t, r))) = EntryOf(Rest2(y, Rest1(y, v)))
  BY <1>3, AlikeEntry
<1>5. ASSUME NEW x PROVE {EntryOf(z) : z \in {x}} = {EntryOf(x)}
  OBVIOUS
<1>6. {EntryOf(z) : z \in BlackList_parseLine(t)} = {EntryOf(z) : z \in BlackList_parseLine(y)}
  BY <1>2, <1>4, <1>5, Zenon
<1> QED
  BY <1>1, <1>6, Zenon DEF Entries

(* A search from behind L ends behind L. *)
LEMMA FindBeyond ==
  ASSUME NEW t \in Text, NEW L \in Nat, L <= Len(t), NEW i \in Nat, L < i, NEW C
  PROVE  /\ Find(t, i, C) \in L + 1 .. Len(t) + 1
         /\ Past(t, Find(t, i, C)) \in L + 1 .. Len(t) + 1
<1>1. Len(t) \in Nat /\ End(t) = Len(t) + 1
  BY DEF Text, End
<1>2. PICK k : k = Find(t, i, C)
  OBVIOUS
<1>3. k \in L + 1 .. Len(t) + 1
  <2>1. CASE i <= Len(t) + 1
    <3>1. k \in Nat /\ i <= k /\ k <= Len(t) + 1
      BY <1>2, <2>1, FoundFrom
    <3> QED BY <1>1, <3>1
  <2>2. CASE ~(i <= Len(t) + 1)
    <3>1. i > Len(t)
      BY <1>1, <2>2
    <3>2. k = Len(t) + 1
      BY <1>1, <1>2, <3>1, FindHits
    <3> QED BY <1>1, <3>2
  <2> QED BY <2>1, <2>2
<1>4. Past(t, k) \in L + 1 .. Len(t) + 1
  BY <1>1, <1>3 DEF Past
<1> QED
  BY <1>2, <1>3, <1>4, Zenon

(* The parser has gone on behind L and has overwritten, up to L, the places *)
(* of K and no others.                                                      *)
Beyond(t, r, L, K) ==
  /\ DOMAIN r = FieldNames /\ r.pos \in L + 1 .. Len(t) + 1
  /\ K \subseteq r.cut /\ \A k \in r.cut : k \in K \/ k \in L + 1 .. Len(t) + 1

(* It stays so in the mask, ... *)
LEMMA BeyondMask ==
  ASSUME NEW t \in Text, NEW L \in Nat, L <= Len(t), NEW r, NEW K, Beyond(t, r, L, K)
  PROVE  Beyond(t, ParseMask(t, r), L, K)
<1> DEFINE net == BlackList_parseNetMask(t, r.pos)
<1>1. Len(t) \in Nat /\ End(t) = Len(t) + 1
  BY DEF Text, End
<1>2. PICK i \in L + 1 .. Len(t) + 1 : i = r.pos
  BY DEF Beyond
<1>3. PICK num : num = Strtol(t, i)
  OBVIOUS
<1>4. PICK k \in Nat : k = num.end /\ L < k
  <2>1. i \in 1 .. End(t)
    BY <1>1
  <2>2. Number(t, i, num)
    BY <1>3, <2>1, StrtolIs
  <2>3. num.end \in i .. End(t)
    BY <2>2, Zenon DEF Number
  <2>4. PICK k \in i .. End(t) : k = num.end
    BY <2>3
  <2>5. k \in Nat /\ L < k
    BY <1>1
  <2> QED BY <2>4, <2>5
<1>5. PICK C : C = {NUL, " ", "@"}
  OBVIOUS
<1>6. PICK e : e = Find(t, k, C)
  OBVIOUS
<1>7. e \in L + 1 .. Len(t) + 1
  BY <1>4, <1>6, FindBeyond
<1>8. net.end = e /\ net.cut \subseteq {e}
  <2>1. PICK f : f = SubSeq(t, i, e - 1)
    OBVIOUS
  <2>2. net =
          IF e # num.end
          THEN [ok |-> IsAddr(f), end |-> e, cut |-> IF IsAddr(f) THEN {} ELSE {e},
                mask |-> [NoMask EXCEPT !.text = f]]
          ELSE IF num.val \in 0 .. MaxMask
          THEN [ok |-> TRUE, end |-> e, cut |-> {},
                mask |-> [len |-> num.val, bits |-> MaskBits(num.val), text |-> <<>>]]
          ELSE [ok |-> FALSE, end |-> e, cut |-> {}, mask |-> NoMask]
    BY <1>2, <1>3, <1>4, <1>5, <1>6, <2>1, Zenon DEF BlackList_parseNetMask
  <2>3. PICK m1, m2 : m1 = [NoMask EXCEPT !.text = f]
                   /\ m2 = [len |-> num.val, bits |-> MaskBits(num.val), text |-> <<>>]
    OBVIOUS
  <2> HIDE DEF net
  <2>4. \E o, c, m : net = [ok |-> o, end |-> e, cut |-> c, mask |-> m] /\ c \subseteq {e}
    <3>1. CASE e # num.end
      <4>1. PICK o, c : o = IsAddr(f) /\ c = (IF IsAddr(f) THEN {} ELSE {e})
        OBVIOUS
      <4>2. net = [ok |-> o, end |-> e, cut |-> c, mask |-> m1] /\ c \subseteq {e}
        BY <2>2, <2>3, <3>1, <4>1
      <4> QED BY <4>2
    <3>2. CASE e = num.end /\ num.val \in 0 .. MaxMask
      <4>1. net = [ok |-> TRUE, end |-> e, cut |-> {}, mask |-> m2]
        BY <2>2, <2>3, <3>2, Zenon
      <4> QED BY <4>1
    <3>3. CASE e = num.end /\ ~(num.val \in 0 .. MaxMask)
      <4>1. net = [ok |-> FALSE, end |-> e, cut |-> {}, mask |-> NoMask]
        BY <2>2, <3>3, Zenon
      <4> QED BY <4>1
    <3> QED BY <3>1, <3>2, <3>3
  <2> QED BY <2>4
<1>9. ParseMask(t, r) =
        IF r.sep # "/" THEN r
        ELSE IF Star(r) THEN [r EXCEPT !.ok = FALSE]
        ELSE [r EXCEPT !.pos = net.end, !.mask = net.mask, !.ok = net.ok,
                       !.cut = @ \cup net.cut]
  BY DEF ParseMask
<1> HIDE DEF net
<1>10. CASE ParseMask(t, r) = r
  BY <1>10
<1>11. CASE ParseMask(t, r) = [r EXCEPT !.ok = FALSE]
  BY <1>11 DEF Beyond, FieldNames
<1>12. CASE ParseMask(t, r) = [r EXCEPT !.pos = net.end, !.mask = net.mask, !.ok = net.ok,
                                        !.cut = @ \cup net.cut]
  <2>1. PICK v : v = ParseMask(t, r)
    OBVIOUS
  <2>2. DOMAIN v = FieldNames /\ v.pos = e /\ v.cut = r.cut \cup net.cut
    BY <1>8, <1>12, <2>1 DEF Beyond, FieldNames
  <2>3. ASSUME NEW x \in v.cut PROVE x \in K \/ x \in L + 1 .. Len(t) + 1
    BY <1>7, <1>8, <2>2, Zenon DEF Beyond
  <2>4. K \subseteq v.cut
    BY <2>2, Zenon DEF Beyond
  <2> QED BY <1>7, <2>1, <2>2, <2>3, <2>4, Zenon DEF Beyond
<1> QED
  BY <1>9, <1>10, <1>11, <1>12, Zenon

(* ... in the MAC behind '@' ... *)
LEMMA BeyondAtMac ==
  ASSUME NEW t \in Text, NEW L \in Nat, L <= Len(t), NEW r, NEW K, Beyond(t, r, L, K)
  PROVE  Beyond(t, ParseAtMac(t, r), L, K)
<1> DEFINE has == r.sep = "@" \/ At(t, r.pos) = "@"
           i == IF r.sep = "@" THEN r.pos ELSE r.pos + 1
           not == At(t, i) = "!"
           s == IF not THEN i + 1 ELSE i
           p == Find(t, s, {" ", NUL})
           f == SubSeq(t, s, p - 1)
           at == IF not THEN "NEGATIVE" ELSE "POSITIVE"
           ok == IsMac(f) /\ ~(Star(r) /\ not)
           no == ~Star(r)
<1>1. i \in Nat /\ L < i
  <2>1. PICK a \in L + 1 .. Len(t) + 1 : a = r.pos
    BY DEF Beyond
  <2>2. a \in Nat /\ L < a /\ a + 1 \in Nat /\ L < a + 1
    BY DEF Text
  <2> QED BY <2>1, <2>2, Zenon
<1> HIDE DEF i
<1>2. s \in Nat /\ L < s
  BY <1>1
<1> HIDE DEF s
<1>3. p \in L + 1 .. Len(t) + 1 /\ Past(t, p) \in L + 1 .. Len(t) + 1
  <2>1. PICK C : C = {" ", NUL}
    OBVIOUS
  <2>2. Find(t, s, C) \in L + 1 .. Len(t) + 1 /\ Past(t, Find(t, s, C)) \in L + 1 .. Len(t) + 1
    BY <1>2, FindBeyond
  <2> QED BY <2>1, <2>2, Zenon
<1>4. ParseAtMac(t, r) =
        IF ~has THEN [r EXCEPT !.ok = no]
        ELSE [r EXCEPT !.pos = Past(t, p), !.cut = @ \cup {p}, !.atmac = f, !.at = at, !.ok = ok]
  BY DEF ParseAtMac, i, s
<1> HIDE DEF p, f, has, not, at, ok, no
<1>5. CASE ParseAtMac(t, r) = [r EXCEPT !.ok = no]
  BY <1>5 DEF Beyond, FieldNames
<1>6. CASE ParseAtMac(t, r) =
             [r EXCEPT !.pos = Past(t, p), !.cut = @ \cup {p}, !.atmac = f, !.at = at, !.ok = ok]
  <2>1. PICK v : v = ParseAtMac(t, r)
    OBVIOUS
  <2>2. DOMAIN v = FieldNames /\ v.pos = Past(t, p) /\ v.cut = r.cut \cup {p}
    BY <1>6, <2>1 DEF Beyond, FieldNames
  <2>3. ASSUME NEW x \in v.cut PROVE x \in K \/ x \in L + 1 .. Len(t) + 1
    BY <1>3, <2>2, Zenon DEF Beyond
  <2>4. K \subseteq v.cut
    BY <2>2, Zenon DEF Beyond
  <2> QED BY <1>3, <2>1, <2>2, <2>3, <2>4, Zenon DEF Beyond
<1> QED
  BY <1>4, <1>5, <1>6, Zenon

(* ... and in the last one. *)
LEMMA BeyondMac ==
  ASSUME NEW t \in Text, NEW L \in Nat, L <= Len(t), NEW r, NEW K, Beyond(t, r, L, K)
  PROVE  Beyond(t, ParseMac(t, r), L, K)
<1> DEFINE s == Skip(t, r.pos, {" "})
           p == Find(t, s, {"#", " ", NUL})
           f == SubSeq(t, s, p - 1)
           ok == ~r.neg /\ IsMac(f)
<1>1. s \in Nat /\ L < s
  <2>1. PICK C : C = Char \ {" "}
    OBVIOUS
  <2>2. PICK a \in L + 1 .. Len(t) + 1 : a = r.pos
    BY DEF Beyond
  <2>3. a \in Nat /\ L < a /\ Len(t) \in Nat
    BY DEF Text
  <2>4. Find(t, a, C) \in L + 1 .. Len(t) + 1
    BY <2>3, FindBeyond
  <2>5. PICK k \in L + 1 .. Len(t) + 1 : k = Find(t, a, C)
    BY <2>4
  <2>6. k \in Nat /\ L < k
    BY <2>3
  <2> QED BY <2>1, <2>2, <2>5, <2>6, Zenon DEF Skip
<1> HIDE DEF s
<1>2. p \in L + 1 .. Len(t) + 1
  <2>1. PICK C : C = {"#", " ", NUL}
    OBVIOUS
  <2>2. Find(t, s, C) \in L + 1 .. Len(t) + 1
    BY <1>1, FindBeyond
  <2> QED BY <2>1, <2>2, Zenon
<1>3. ParseMac(t, r) =
        IF s = End(t) \/ At(t, s) = "#" THEN r
        ELSE [r EXCEPT !.cut = @ \cup {p}, !.mac = f, !.ok = ok]
  BY DEF ParseMac, s
<1> HIDE DEF p, f, ok
<1>4. CASE ParseMac(t, r) = r
  BY <1>4
<1>5. CASE ParseMac(t, r) = [r EXCEPT !.cut = @ \cup {p}, !.mac = f, !.ok = ok]
  <2>1. PICK v : v = ParseMac(t, r)
    OBVIOUS
  <2>2. DOMAIN v = FieldNames /\ v.pos = r.pos /\ v.cut = r.cut \cup {p}
    BY <1>5, <2>1 DEF Beyond, FieldNames
  <2>3. ASSUME NEW x \in v.cut PROVE x \in K \/ x \in L + 1 .. Len(t) + 1
    BY <1>2, <2>2, Zenon DEF Beyond
  <2>4. K \subseteq v.cut
    BY <2>2, Zenon DEF Beyond
  <2> QED BY <2>1, <2>2, <2>3, <2>4, Zenon DEF Beyond
<1> QED
  BY <1>3, <1>4, <1>5, Zenon

(* What has been overwritten of the first part q of t: the ends of its      *)
(* fields.                                                                  *)
Ends(q, r, b, s, p, e) ==
  /\ HostSpan(q, b, s, p)
  /\ e = p \/ \E g \in Nat \ {0} : p < g /\ g <= e /\ MacSpan(q, p, g, e)
  /\ \A j \in 1 .. Len(q) : j \in r.cut <=> j = p \/ j = e

(* The host ends within the first part. *)
LEMMA EndsWithin ==
  ASSUME NEW q \in Text, NEW w \in Text, Clear(q), NEW b \in Nat \ {0}, NEW s \in Nat \ {0},
         NEW p \in Nat \ {0}, b <= s, s <= p, p <= Len(q), HostSpan(q, b, s, p),
         NEW r \in BlackList_parseLine(q \o w)
  PROVE  \E e \in Nat \ {0} : p <= e /\ e <= Len(q) /\ Ends(q, r, b, s, p, e)
<1>1. PICK t \in Text, L \in Nat :
        /\ t = q \o w /\ L = Len(q) /\ \A i \in 1 .. L : t[i] = q[i]
        /\ Len(t) \in Nat /\ L <= Len(t)
  <2>1. PICK t : t = q \o w
    OBVIOUS
  <2>2. /\ t \in Text /\ Len(t) = Len(q) + Len(w) /\ Len(q) \in Nat /\ Len(w) \in Nat
        /\ \A i \in 1 .. Len(q) : t[i] = q[i]
    BY <2>1, Behind
  <2>3. Len(t) \in Nat /\ Len(q) <= Len(t)
    BY <2>2
  <2> QED BY <2>1, <2>2, <2>3
<1>2. p <= L /\ L <= Len(t) /\ L = Len(q) /\ Len(t) \in Nat
  BY <1>1
<1>3. PICK h : h = ParseHost(t, NoFields) /\ h = HostFields(q, b, s, p)
  BY <1>1, HostWithin
<1>4. HostRecord(h, q, b, s, p)
  <2>1. q[p] \in Gap
    BY Zenon DEF HostSpan
  <2> QED BY <1>3, <2>1, HostFieldsAre, Zenon
<1>5. DOMAIN h = FieldNames /\ h.pos = p + 1 /\ h.cut = {p} /\ h.sep # "@" /\ h.sep # "/"
  BY <1>4, Zenon DEF HostRecord
<1>6. r = Rest2(t, Rest1(t, h))
  <2>1. BlackList_parseLine(t) = {Rest2(t, Rest1(t, h))}
    BY <1>3, <1>5, LineIs
  <2> QED BY <1>1, <2>1, Zenon
<1>7. ASSUME \A j \in 1 .. L : j \in r.cut <=> j = p
      PROVE  \E e \in Nat \ {0} : p <= e /\ e <= Len(q) /\ Ends(q, r, b, s, p, e)
  <2>1. Ends(q, r, b, s, p, p)
    BY <1>1, <1>7, Zenon DEF Ends
  <2>2. p <= p /\ p <= Len(q)
    OBVIOUS
  <2> QED BY <2>1, <2>2
<1>8. CASE r.cut = {p}
  <2>1. \A j \in 1 .. L : j \in r.cut <=> j = p
    BY <1>8
  <2> QED BY <1>7, <2>1
<1>9. ASSUME NEW v, Beyond(t, v, L, {p}) PROVE \A j \in 1 .. L : j \in v.cut <=> j = p
  <2>1. p \in v.cut /\ \A k \in v.cut : k = p \/ k \in L + 1 .. Len(t) + 1
    BY <1>9, Zenon DEF Beyond
  <2>2. \A j \in 1 .. L : j \notin L + 1 .. Len(t) + 1
    BY <1>2
  <2> QED BY <2>1, <2>2, Zenon
<1>10. CASE ~h.ok
  <2>1. r = h
    BY <1>6, <1>10, Zenon DEF Rest1, Rest2
  <2> QED BY <1>5, <1>8, <2>1
<1>11. CASE h.ok /\ At(t, p + 1) = "@"
  <2>1. L < p + 1
    <3> SUFFICES ASSUME ~(L < p + 1) PROVE FALSE
      OBVIOUS
    <3>1. PICK k \in 1 .. L : k = p + 1
      <4>1. p + 1 \in 1 .. L
        BY <1>2
      <4> QED BY <4>1
    <3>2. k \in 1 .. Len(t) /\ DOMAIN t = 1 .. Len(t)
      BY <1>2 DEF Text
    <3>3. At(t, k) = q[k]
      BY <1>1, <3>2, Zenon DEF At
    <3>4. q[k] \notin Sharp
      BY <1>1, Zenon DEF Clear
    <3> QED BY <1>11, <3>1, <3>3, <3>4, Zenon DEF Sharp
  <2>2. Beyond(t, h, L, {p})
    <3>1. h.pos \in L + 1 .. Len(t) + 1
      <4>1. PICK a \in Nat : a = p + 1 /\ a = h.pos
        BY <1>5
      <4>2. a \in L + 1 .. Len(t) + 1
        BY <1>2, <2>1, <4>1
      <4> QED BY <4>1, <4>2
    <3> QED BY <1>5, <3>1, Zenon DEF Beyond
  <2>3. Beyond(t, Rest1(t, h), L, {p})
    <3>1. Beyond(t, ParseAtMac(t, h), L, {p})
      BY <1>2, <2>2, BeyondAtMac
    <3> QED BY <2>2, <3>1, Zenon DEF Rest1
  <2>4. Beyond(t, r, L, {p})
    <3>1. Beyond(t, ParseMac(t, Rest1(t, h)), L, {p})
      BY <1>2, <2>3, BeyondMac
    <3> QED BY <1>6, <2>3, <3>1, Zenon DEF Rest2
  <2> QED BY <1>7, <1>9, <2>4
<1>12. CASE h.ok /\ At(t, p + 1) # "@"
  <2>1. PICK r1, star : star = ~Star(h) /\ r1 = [h EXCEPT !.ok = star]
    OBVIOUS
  <2>2. Rest1(t, h) = r1
    BY <1>5, <1>12, <2>1, Zenon DEF Rest1, ParseAtMac
  <2>3. r1.cut = {p} /\ r1.pos = p + 1 /\ DOMAIN r1 = FieldNames
    BY <1>5, <2>1 DEF FieldNames
  <2>4. CASE ~r1.ok
    <3>1. r = r1
      BY <1>6, <2>2, <2>4, Zenon DEF Rest2
    <3> QED BY <1>8, <2>3, <3>1
  <2>5. CASE r1.ok
    <3>1. r = ParseMac(t, r1)
      BY <1>6, <2>2, <2>5, Zenon DEF Rest2
    <3>2. PICK B : B = Char \ Blank
      OBVIOUS
    <3>3. PICK a \in Nat \ {0} : a = p + 1 /\ a <= Len(t) + 1 /\ a <= End(t) /\ End(t) = Len(t) + 1
      <4>1. p + 1 \in Nat \ {0} /\ p + 1 <= Len(t) + 1 /\ End(t) = Len(t) + 1
        BY <1>2 DEF End
      <4> QED BY <4>1
    <3>4. PICK g \in Nat : g = Find(t, a, B) /\ a <= g /\ g <= Len(t) + 1 /\ First(t, a, B, g)
      <4>1. a \in Nat /\ a <= Len(t) + 1 /\ a <= End(t)
        BY <3>3
      <4>2. Find(t, a, B) \in Nat /\ a <= Find(t, a, B) /\ Find(t, a, B) <= Len(t) + 1
        BY <4>1, FoundFrom
      <4>3. First(t, a, B, Find(t, a, B))
        BY <1>2, <4>1, FindIs
      <4> QED BY <4>2, <4>3
    <3>5. Skip(t, r1.pos, {" "}) = g
      BY <2>3, <3>2, <3>3, <3>4, Zenon DEF Skip, Blank
    <3>6. CASE g = End(t) \/ At(t, g) = "#"
      <4>1. r = r1
        BY <3>1, <3>5, <3>6, Zenon DEF ParseMac
      <4> QED BY <1>8, <2>3, <4>1
    <3>7. CASE ~(g = End(t) \/ At(t, g) = "#")
      <4>1. PICK e \in Nat : e = Find(t, g, MacEnd) /\ g <= e /\ e <= Len(t) + 1 /\ First(t, g, MacEnd, e)
        <5>1. g \in Nat /\ g <= Len(t) + 1 /\ g <= End(t)
          BY <3>3, <3>4
        <5>2. Find(t, g, MacEnd) \in Nat /\ g <= Find(t, g, MacEnd) /\ Find(t, g, MacEnd) <= Len(t) + 1
          BY <5>1, FoundFrom
        <5>3. First(t, g, MacEnd, Find(t, g, MacEnd))
          BY <1>2, <5>1, FindIs
        <5> QED BY <5>2, <5>3
      <4>2. PICK f : f = SubSeq(t, g, e - 1)
        OBVIOUS
      <4>3. PICK ok : ok = (~r1.neg /\ IsMac(f))
        OBVIOUS
      <4>4. r = [r1 EXCEPT !.cut = @ \cup {e}, !.mac = f, !.ok = ok]
        <5>1. Find(t, g, {"#", " ", NUL}) = e
          BY <4>1, Zenon DEF MacEnd
        <5> QED BY <3>1, <3>5, <3>7, <4>2, <4>3, <5>1, Zenon DEF ParseMac
      <4>5. r.cut = {p} \cup {e}
        BY <2>3, <4>4 DEF FieldNames
      <4>6. CASE ~(e <= L)
        <5>1. \A j \in 1 .. L : j # e
          BY <1>2, <4>6
        <5>2. \A j \in 1 .. L : j \in r.cut <=> j = p
          BY <4>5, <5>1
        <5> QED BY <1>7, <5>2
      <4>7. CASE e <= L
        <5>n. /\ a = p + 1 /\ a <= g /\ g <= e /\ e <= L
              /\ p < g /\ p <= e /\ g \in Nat \ {0} /\ e \in Nat \ {0} /\ g \in 1 .. L /\ e \in 1 .. L
          <6>1. a = p + 1 /\ a <= g /\ g <= e /\ e <= L
            BY <3>3, <3>4, <4>1, <4>7
          <6> QED BY <1>2, <6>1
        <5>1. ASSUME NEW j \in p + 1 .. g - 1 PROVE q[j] \in Blank
          <6>1. j \in 1 .. L /\ j \in a .. g - 1
            BY <5>n
          <6>2. t[j] \notin B
            BY <3>4, <6>1, Zenon DEF First
          <6>3. q[j] \in Char
            BY <1>1, <6>1, ElementOfSeq DEF Text
          <6> QED BY <1>1, <3>2, <6>1, <6>2, <6>3, Zenon
        <5>2. q[g] \notin Blank
          <6>1. g <= Len(t)
            BY <1>2, <5>n
          <6>2. t[g] \in B
            BY <3>4, <6>1, Zenon DEF First
          <6> QED BY <1>1, <3>2, <5>n, <6>2, Zenon
        <5>3. ASSUME NEW j \in g .. e - 1 PROVE q[j] \notin MacEnd
          <6>1. j \in 1 .. L
            BY <5>n
          <6>2. t[j] \notin MacEnd
            BY <4>1, Zenon DEF First
          <6> QED BY <1>1, <6>1, <6>2, Zenon
        <5>4. q[e] \in Gap
          <6>1. e <= Len(t)
            BY <1>2, <5>n
          <6>2. t[e] \in MacEnd
            BY <4>1, <6>1, Zenon DEF First
          <6>3. q[e] \in MacEnd /\ q[e] \notin Sharp
            BY <1>1, <5>n, <6>2, Zenon DEF Clear
          <6> QED BY <6>3, Zenon DEF MacEnd, Sharp, Gap
        <5>5. MacSpan(q, p, g, e)
          BY <5>1, <5>2, <5>3, <5>4, Zenon DEF MacSpan
        <5>6. \A j \in 1 .. Len(q) : j \in r.cut <=> j = p \/ j = e
          BY <4>5, Zenon
        <5>7. Ends(q, r, b, s, p, e)
          BY <5>n, <5>5, <5>6, Zenon DEF Ends
        <5> QED BY <1>1, <5>n, <5>7
      <4> QED BY <4>6, <4>7
    <3> QED BY <3>6, <3>7
  <2> QED BY <2>4, <2>5
<1> QED
  BY <1>10, <1>11, <1>12

(* The host ends behind the first part, or there is none. *)
LEMMA EndsBehind ==
  ASSUME NEW q \in Text, NEW w \in Text, Clear(q), NEW r \in BlackList_parseLine(q \o w)
  PROVE  \/ \A j \in 1 .. Len(q) : j \notin r.cut
         \/ \E b \in Nat \ {0}, s \in Nat \ {0}, p \in Nat \ {0} :
              b <= s /\ s <= p /\ p <= Len(q) /\ HostSpan(q, b, s, p)
<1>1. PICK t \in Text, L \in Nat :
        /\ t = q \o w /\ L = Len(q) /\ \A i \in 1 .. L : t[i] = q[i]
        /\ Len(t) \in Nat /\ L <= Len(t)
  <2>1. PICK t : t = q \o w
    OBVIOUS
  <2>2. /\ t \in Text /\ Len(t) = Len(q) + Len(w) /\ Len(q) \in Nat /\ Len(w) \in Nat
        /\ \A i \in 1 .. Len(q) : t[i] = q[i]
    BY <2>1, Behind
  <2>3. Len(t) \in Nat /\ Len(q) <= Len(t)
    BY <2>2
  <2> QED BY <2>1, <2>2, <2>3
<1>2. L <= Len(t) /\ L = Len(q) /\ Len(t) \in Nat /\ End(t) = Len(t) + 1
  BY <1>1 DEF End
<1>3. PICK h : h = ParseHost(t, NoFields)
  OBVIOUS
<1>4. PICK B : B = Char \ Blank
  OBVIOUS
<1>5. PICK b \in Nat : b = Find(t, 1, B) /\ 1 <= b /\ b <= Len(t) + 1 /\ First(t, 1, B, b)
  <2>1. 1 \in Nat /\ 1 <= Len(t) + 1 /\ 1 <= End(t)
    BY <1>2
  <2>2. Find(t, 1, B) \in Nat /\ 1 <= Find(t, 1, B) /\ Find(t, 1, B) <= Len(t) + 1
    BY <2>1, FoundFrom
  <2>3. First(t, 1, B, Find(t, 1, B))
    BY <1>2, <2>1, FindIs
  <2> QED BY <2>2, <2>3
<1>6. NoFields.pos = 1 /\ NoFields.cut = {} /\ DOMAIN NoFields = FieldNames
  BY DEF NoFields, FieldNames
<1>7. Skip(t, NoFields.pos, {" "}) = b
  BY <1>4, <1>5, <1>6, Zenon DEF Skip, Blank
<1>8. CASE b = End(t) \/ At(t, b) = "#"
  <2>1. h = [NoFields EXCEPT !.ok = FALSE]
    BY <1>3, <1>7, <1>8, Zenon DEF ParseHost
  <2>2. h.cut = {} /\ h.ok = FALSE
    BY <1>6, <2>1 DEF FieldNames
  <2>3. r = h
    BY <1>1, <1>3, <2>2 DEF BlackList_parseLine
  <2> QED BY <2>2, <2>3
<1>9. CASE ~(b = End(t) \/ At(t, b) = "#")
  <2>0. b <= Len(t)
    BY <1>2, <1>5, <1>9
  <2>1. PICK neg : neg = (At(t, b) = "!")
    OBVIOUS
  <2>2. PICK s \in Nat : s = (IF neg THEN b + 1 ELSE b) /\ 1 <= s /\ b <= s /\ s <= Len(t) + 1
    <3>1. (IF neg THEN b + 1 ELSE b) \in Nat /\ 1 <= (IF neg THEN b + 1 ELSE b)
          /\ b <= (IF neg THEN b + 1 ELSE b) /\ (IF neg THEN b + 1 ELSE b) <= Len(t) + 1
      BY <1>2, <1>5, <2>0
    <3> QED BY <3>1
  <2>3. PICK p \in Nat : /\ p = Find(t, s, HostEnd) /\ s <= p /\ p <= Len(t) + 1 /\ First(t, s, HostEnd, p)
                         /\ Past(t, p) \in Nat
    <3>1. s <= End(t) /\ s <= Len(t) + 1
      BY <1>2, <2>2
    <3>2. Find(t, s, HostEnd) \in Nat /\ s <= Find(t, s, HostEnd) /\ Find(t, s, HostEnd) <= Len(t) + 1
          /\ Past(t, Find(t, s, HostEnd)) \in Nat
      BY <3>1, FoundFrom
    <3>3. First(t, s, HostEnd, Find(t, s, HostEnd))
      BY <1>2, <3>1, FindIs
    <3> QED BY <3>2, <3>3, Zenon
  <2>4. PICK f, ok, z, a : f = SubSeq(t, s, p - 1) /\ ok = (IsAddr(f) \/ (f = <<"*">> /\ ~neg))
                           /\ z = At(t, p) /\ a = Past(t, p)
    OBVIOUS
  <2>5. h = [NoFields EXCEPT !.pos = a, !.sep = z, !.cut = {p}, !.neg = neg, !.host = f, !.ok = ok]
    <3>1. Find(t, s, {"/", "@", " ", NUL}) = p
      BY <2>3, Zenon DEF HostEnd
    <3>2. ParseHost(t, NoFields) =
          IF b = End(t) \/ At(t, b) = "#" THEN [NoFields EXCEPT !.ok = FALSE]
          ELSE [NoFields EXCEPT !.pos = Past(t, p), !.sep = At(t, p), !.cut = {p},
                       !.neg = (At(t, b) = "!"), !.host = SubSeq(t, s, p - 1),
                       !.ok = IsAddr(SubSeq(t, s, p - 1))
                              \/ (SubSeq(t, s, p - 1) = <<"*">> /\ ~(At(t, b) = "!"))]
      BY <1>7, <2>1, <2>2, <3>1, Zenon DEF ParseHost
    <3> QED BY <1>3, <1>9, <2>1, <2>4, <3>2, Zenon
  <2>6. DOMAIN h = FieldNames /\ h.pos = a /\ h.cut = {p}
    BY <1>6, <2>5 DEF FieldNames
  <2>7. CASE ~(p <= L)
    <3>1. p \in L + 1 .. Len(t) + 1 /\ a \in L + 1 .. Len(t) + 1
      <4>1. p \in L + 1 .. Len(t) + 1
        BY <1>2, <2>3, <2>7
      <4>2. Past(t, p) \in L + 1 .. Len(t) + 1
        BY <1>2, <4>1 DEF Past
      <4> QED BY <2>4, <4>1, <4>2
    <3>2. Beyond(t, h, L, {})
      BY <2>6, <3>1 DEF Beyond
    <3>3. PICK m : m = IF h.ok THEN ParseMask(t, h) ELSE h
      OBVIOUS
    <3>4. PICK k : k = IF m.ok THEN ParseAtMac(t, m) ELSE m
      OBVIOUS
    <3>5. r = IF k.ok THEN ParseMac(t, k) ELSE k
      <4>1. {IF x.ok THEN ParseMask(t, x) ELSE x : x \in {ParseHost(t, NoFields)}} = {m}
        BY <1>3, <3>3
      <4>2. {IF x.ok THEN ParseAtMac(t, x) ELSE x : x \in {m}} = {k}
        BY <3>4
      <4>3. PICK y : y = IF k.ok THEN ParseMac(t, k) ELSE k
        OBVIOUS
      <4>4. {IF x.ok THEN ParseMac(t, x) ELSE x : x \in {k}} = {y}
        BY <4>3
      <4>5. BlackList_parseLine(t) = {y}
        BY <4>1, <4>2, <4>4, Zenon DEF BlackList_parseLine
      <4> QED BY <1>1, <4>3, <4>5, Zenon
    <3>6. Beyond(t, m, L, {})
      <4>1. Beyond(t, ParseMask(t, h), L, {})
        BY <1>2, <3>2, BeyondMask
      <4> QED BY <3>2, <3>3, <4>1, Zenon
    <3>7. Beyond(t, k, L, {})
      <4>1. Beyond(t, ParseAtMac(t, m), L, {})
        BY <1>2, <3>6, BeyondAtMac
      <4> QED BY <3>4, <3>6, <4>1, Zenon
    <3>8. Beyond(t, r, L, {})
      <4>1. Beyond(t, ParseMac(t, k), L, {})
        BY <1>2, <3>7, BeyondMac
      <4> QED BY <3>5, <3>7, <4>1, Zenon
    <3>9. \A j \in 1 .. L : j \notin L + 1 .. Len(t) + 1
      BY <1>2
    <3>10. \A j \in r.cut : j \in L + 1 .. Len(t) + 1
      BY <3>8 DEF Beyond
    <3> QED BY <1>1, <3>9, <3>10, Zenon
  <2>8. CASE p <= L
    <3>n. /\ 1 <= b /\ b <= s /\ s <= p /\ p <= L /\ b \in 1 .. L /\ p \in 1 .. L /\ p <= Len(t)
          /\ b \in Nat \ {0} /\ s \in Nat \ {0} /\ p \in Nat \ {0}
      <4>1. 1 <= b /\ b <= s /\ s <= p /\ p <= L /\ 1 <= s
        BY <1>5, <2>2, <2>3, <2>8
      <4> QED BY <1>2, <4>1
    <3>1. ASSUME NEW j \in 1 .. b - 1 PROVE q[j] \in Blank
      <4>1. j \in 1 .. L
        BY <3>n
      <4>2. t[j] \notin B
        BY <1>5, Zenon DEF First
      <4>3. q[j] \in Char
        BY <1>1, <4>1, ElementOfSeq DEF Text
      <4> QED BY <1>1, <1>4, <4>1, <4>2, <4>3, Zenon
    <3>2. q[b] \notin Blank
      <4>1. t[b] \in B
        BY <1>5, <2>0, Zenon DEF First
      <4> QED BY <1>1, <1>4, <3>n, <4>1, Zenon
    <3>3. s = IF q[b] = "!" THEN b + 1 ELSE b
      <4>1. DOMAIN t = 1 .. Len(t) /\ b \in 1 .. Len(t)
        BY <2>0, <3>n DEF Text
      <4>2. At(t, b) = q[b]
        BY <1>1, <3>n, <4>1, Zenon DEF At
      <4> QED BY <2>1, <2>2, <4>2, Zenon
    <3>4. ASSUME NEW j \in s .. p - 1 PROVE q[j] \notin HostEnd
      <4>1. j \in 1 .. L
        BY <3>n
      <4>2. t[j] \notin HostEnd
        BY <2>3, Zenon DEF First
      <4> QED BY <1>1, <4>1, <4>2, Zenon
    <3>5. q[p] \in Gap
      <4>1. t[p] \in HostEnd
        BY <2>3, <3>n, Zenon DEF First
      <4>2. q[p] \in HostEnd /\ q[p] \notin Sharp
        BY <1>1, <3>n, <4>1, Zenon DEF Clear
      <4> QED BY <4>2, Zenon DEF HostEnd, Sharp, Gap
    <3>6. HostSpan(q, b, s, p)
      BY <3>1, <3>2, <3>3, <3>4, <3>5, Zenon DEF HostSpan
    <3> QED BY <1>1, <3>n, <3>6
  <2> QED BY <2>7, <2>8
<1> QED
  BY <1>8, <1>9

(* Two texts with which lines that begin with them give the same entries.   *)
Again(u, q) ==
  /\ u \in Text /\ Len(u) = Len(q) /\ Clear(u)
  /\ \A z \in Text : Entries(u \o z) = Entries(q \o z)

(* parseLine writes into the buffer of its caller, but as long as neither   *)
(* '/' nor '@' stands in the part that is used again, what is parsed there  *)
(* next gives the same entries as with the buffer as it was, whatever       *)
(* follows that part.                                                       *)
THEOREM OverwritingIsHarmless ==
  ASSUME NEW q \in Text, NEW w \in Text, Clear(q), NEW r \in BlackList_parseLine(q \o w),
         NEW u, u = SubSeq(Overwritten(q \o w, r), 1, Len(q))
  PROVE  Again(u, q)
<1>1. /\ q \o w \in Text /\ Len(q) \in Nat /\ Len(q) \in 0 .. Len(q \o w)
      /\ \A i \in 1 .. Len(q) : (q \o w)[i] = q[i]
  <2>1. /\ q \o w \in Text /\ Len(q \o w) = Len(q) + Len(w) /\ Len(q) \in Nat /\ Len(w) \in Nat
        /\ \A i \in 1 .. Len(q) : (q \o w)[i] = q[i]
    BY Behind
  <2>2. Len(q) \in 0 .. Len(q \o w)
    BY <2>1
  <2> QED BY <2>1, <2>2
<1>2. /\ u \in Text /\ Len(u) = Len(q)
      /\ \A i \in 1 .. Len(q) : u[i] = IF i \in r.cut THEN NUL ELSE (q \o w)[i]
  <2>1. PICK t \in Text : t = q \o w
    BY <1>1
  <2>2. PICK n \in 0 .. Len(t) : n = Len(q)
    BY <1>1, <2>1
  <2>3. r \in BlackList_parseLine(t)
    BY <2>1
  <2>4. /\ SubSeq(Overwritten(t, r), 1, n) \in Text /\ Len(SubSeq(Overwritten(t, r), 1, n)) = n
        /\ \A i \in 1 .. n : SubSeq(Overwritten(t, r), 1, n)[i] = IF i \in r.cut THEN NUL ELSE t[i]
    BY <2>3, OverwrittenText
  <2> QED BY <2>1, <2>2, <2>4, Zenon
<1>3. \A i \in 1 .. Len(q) : u[i] = IF i \in r.cut THEN NUL ELSE q[i]
  BY <1>1, <1>2, Zenon
<1>4. Clear(u)
  <2>1. NUL \notin Sharp
    BY DEF NUL, Sharp
  <2>2. ASSUME NEW j \in 1 .. Len(q) PROVE u[j] \notin Sharp
    BY <1>3, <2>1, Zenon DEF Clear
  <2> QED BY <1>2, <2>2, Zenon DEF Clear
<1>5. CASE \A j \in 1 .. Len(q) : j \notin r.cut
  <2>1. \A j \in 1 .. Len(q) : u[j] = q[j]
    BY <1>3, <1>5, Zenon
  <2>2. u = q
    BY <1>2, <2>1, SeqEqual DEF Text
  <2>3. \A z \in Text : Entries(u \o z) = Entries(q \o z)
    BY <2>2, Zenon
  <2> QED BY <1>2, <1>4, <2>3, Zenon DEF Again
<1>6. CASE \E b \in Nat \ {0}, s \in Nat \ {0}, p \in Nat \ {0} :
              b <= s /\ s <= p /\ p <= Len(q) /\ HostSpan(q, b, s, p)
  <2>1. PICK b \in Nat \ {0}, s \in Nat \ {0}, p \in Nat \ {0} :
              b <= s /\ s <= p /\ p <= Len(q) /\ HostSpan(q, b, s, p)
    BY <1>6
  <2>2. PICK e \in Nat \ {0} : p <= e /\ e <= Len(q) /\ Ends(q, r, b, s, p, e)
    BY <2>1, EndsWithin
  <2>3. Blanked(q, u, p, e)
    BY <1>2, <1>3, <2>2, Zenon DEF Ends, Blanked
  <2>4. e = p \/ \E g \in Nat \ {0} : p < g /\ g <= e /\ MacSpan(q, p, g, e)
    BY <2>2, Zenon DEF Ends
  <2>5. ASSUME NEW z \in Text PROVE Entries(u \o z) = Entries(q \o z)
    BY <1>2, <2>1, <2>2, <2>3, <2>4, BlankedEntries
  <2> QED BY <1>2, <1>4, <2>5, Zenon DEF Again
<1> QED
  BY <1>5, <1>6, EndsBehind

-----------------------------------------------------------------------------
(* A call of expandLine: its argument is a part that is made up and the     *)
(* rest of the line.                                                        *)

(* A text from a position on. *)
Onward(t, k) == SubSeq(t, k, Len(t))

(* A text can be cut in two anywhere. *)
LEMMA CutInTwo ==
  ASSUME NEW t \in Text, NEW k \in Nat \ {0}, NEW o \in Nat \ {0}, k <= o, o <= Len(t) + 1
  PROVE  /\ SubSeq(t, k, o - 1) \in Text /\ Onward(t, k) \in Text /\ Onward(t, o) \in Text
         /\ Len(SubSeq(t, k, o - 1)) = o - k /\ Len(Onward(t, o)) = Len(t) + 1 - o
         /\ \A i \in 1 .. o - k : SubSeq(t, k, o - 1)[i] = t[k + i - 1]
         /\ \A i \in 1 .. Len(t) + 1 - o : Onward(t, o)[i] = t[o + i - 1]
         /\ SubSeq(t, k, o - 1) \o Onward(t, o) = Onward(t, k)
<1>1. PICK n \in Nat : n = Len(t)
  BY DEF Text
<1>2. PICK a \in Nat, b \in Nat, c \in Nat : a = o - k /\ b = n + 1 - o /\ c = n + 1 - k
  <2>1. o - k \in Nat /\ n + 1 - o \in Nat /\ n + 1 - k \in Nat
    BY <1>1
  <2> QED BY <2>1
<1>3. /\ k + a - 1 = o - 1 /\ o + b - 1 = n /\ k + c - 1 = n
      /\ k + a <= n + 1 /\ o + b <= n + 1 /\ k + c <= n + 1
  BY <1>1, <1>2
<1>4. /\ SubSeq(t, k, k + a - 1) \in Text /\ Len(SubSeq(t, k, k + a - 1)) = a
      /\ \A i \in 1 .. a : SubSeq(t, k, k + a - 1)[i] = t[k + i - 1]
  BY <1>1, <1>3, Piece
<1>5. /\ SubSeq(t, o, o + b - 1) \in Text /\ Len(SubSeq(t, o, o + b - 1)) = b
      /\ \A i \in 1 .. b : SubSeq(t, o, o + b - 1)[i] = t[o + i - 1]
  BY <1>1, <1>3, Piece
<1>6. SubSeq(t, k, k + c - 1) \in Text
  BY <1>1, <1>3, Piece
<1>7. SubSeq(t, k, o - 1) \o SubSeq(t, o, n) = SubSeq(t, k, n)
  <2>1. PICK m \in Int : m = o - 1 /\ m + 1 = o
    <3>1. o - 1 \in Int /\ o - 1 + 1 = o
      OBVIOUS
    <3> QED BY <3>1
  <2>2. k \in 1 .. n + 1 /\ m \in k - 1 .. n /\ n \in m .. n
    BY <1>1, <2>1
  <2>3. SubSeq(t, k, m) \o SubSeq(t, m + 1, n) = SubSeq(t, k, n)
    BY <1>1, <2>2, ConcatAdjacentSubSeq DEF Text
  <2> QED BY <2>1, <2>3, Zenon
<1>8. Onward(t, k) = SubSeq(t, k, n) /\ Onward(t, o) = SubSeq(t, o, n)
  BY <1>1, Zenon DEF Onward
<1>9. /\ SubSeq(t, k, o - 1) \in Text /\ Len(SubSeq(t, k, o - 1)) = o - k
      /\ \A i \in 1 .. o - k : SubSeq(t, k, o - 1)[i] = t[k + i - 1]
  BY <1>2, <1>3, <1>4, Zenon
<1>10. /\ Onward(t, o) \in Text /\ Len(Onward(t, o)) = Len(t) + 1 - o
       /\ \A i \in 1 .. Len(t) + 1 - o : Onward(t, o)[i] = t[o + i - 1]
  BY <1>1, <1>2, <1>3, <1>5, <1>8, Zenon
<1>11. Onward(t, k) \in Text /\ SubSeq(t, k, o - 1) \o Onward(t, o) = Onward(t, k)
  BY <1>3, <1>6, <1>7, <1>8, Zenon
<1> QED
  BY <1>9, <1>10, <1>11, Zenon

(* Three texts, one behind the other. *)
LEMMA ThreeTexts ==
  ASSUME NEW x \in Text, NEW s \in Text, NEW u \in Text
  PROVE  (x \o s) \o u = x \o (s \o u)
BY ConcatAssociative DEF Text

(* A call with the first part x and the line from k on may be seen as one   *)
(* with the first part q and the line from o on.                            *)
Advanced(t, x, k, q, o) ==
  /\ q \in Text /\ Onward(t, o) \in Text
  /\ x \o Onward(t, k) = q \o Onward(t, o)
  /\ Joined({x}, Meanings(t)[k]) = Joined({q}, Meanings(t)[o])

(* So it is with a '{' or the comment at o: up to there the text stands for *)
(* itself.                                                                  *)
LEMMA Advance ==
  ASSUME NEW t \in Text, WellFormed(t), NEW x \in Text, NEW k \in Nat \ {0},
         NEW o \in Nat \ {0}, k <= o, o <= Stop(t), Unmarked(t, k, o),
         NEW q, q = x \o SubSeq(t, k, o - 1)
  PROVE  Advanced(t, x, k, q, o)
<1>1. PICK n \in Nat : n = Len(t)
  BY DEF Text
<1>2. Stop(t) \in 1 .. n + 1
  BY <1>1, WellFormedIs
<1>3. o <= n + 1 /\ o \in 1 .. n + 1 /\ k \in 1 .. o
  BY <1>1, <1>2
<1>4. PICK s \in Text, u \in Text : s = SubSeq(t, k, o - 1) /\ u = Onward(t, o) /\ s \o u = Onward(t, k)
  BY <1>1, <1>3, CutInTwo
<1>5. q = x \o s /\ q \in Text
  <2>1. x \o s \in Text
    BY Behind
  <2> QED BY <1>4, <2>1, Zenon
<1>6. (x \o s) \o u = x \o (s \o u)
  BY ThreeTexts, Zenon
<1>7. \A j \in k .. o - 1 : ~Ranging(t, j)
  <2> SUFFICES ASSUME NEW j \in k .. o - 1 PROVE ~Ranging(t, j)
    OBVIOUS
  <2>1. t[j] # "{"
    BY DEF Unmarked
  <2> QED BY <2>1, Zenon DEF Ranging
<1>8. PICK M : M = Meanings(t) /\ M[o] \in SUBSET Text
  <2>1. Meanings(t) \in [1 .. n + 1 -> SUBSET Text]
    BY <1>1, MeaningsAre
  <2> QED BY <1>3, <2>1
<1>9. M[k] = Joined({s}, M[o])
  <2>1. Meanings(t)[k] = Joined({SubSeq(t, k, o - 1)}, Meanings(t)[o])
    BY <1>1, <1>3, <1>7, PlainPart
  <2> QED BY <1>4, <1>8, <2>1, Zenon
<1>10. Joined({x}, Joined({s}, M[o])) = Joined(Joined({x}, {s}), M[o])
  <2>1. {x} \in SUBSET Text /\ {s} \in SUBSET Text
    OBVIOUS
  <2> QED BY <1>8, <2>1, JoinedAgain
<1>11. Joined({x}, {s}) = {q}
  <2>1. Joined({x}, {s}) = {x \o s}
    BY <1>8, JoinedSingle, Zenon
  <2> QED BY <1>5, <2>1, Zenon
<1> QED
  BY <1>4, <1>5, <1>6, <1>8, <1>9, <1>10, <1>11, Zenon DEF Advanced

(* A text has no characters of C. *)
Without(x, C) == \A j \in 1 .. Len(x) : x[j] \notin C

(* What neither part contains, the whole does not. *)
LEMMA NeitherPart ==
  ASSUME NEW x \in Text, NEW s \in Text, NEW C, Without(x, C), Without(s, C)
  PROVE  Without(x \o s, C)
<1>0. PICK q : q = x \o s
  OBVIOUS
<1>1. PICK L \in Nat, m \in Nat : L = Len(x) /\ m = Len(s)
  BY DEF Text
<1>3. /\ Len(q) = L + m
      /\ \A i \in 1 .. L : q[i] = x[i]
      /\ \A j \in 1 .. m : q[L + j] = s[j]
  <2>1. /\ Len(x \o s) = Len(x) + Len(s)
        /\ \A i \in 1 .. Len(x) : (x \o s)[i] = x[i]
        /\ \A i \in 1 .. Len(s) : (x \o s)[Len(x) + i] = s[i]
    BY Behind
  <2> QED BY <1>0, <1>1, <2>1, Zenon
<1>2. ASSUME NEW i \in 1 .. L + m PROVE q[i] \notin C
  <2>1. CASE i <= L
    <3>1. i \in 1 .. L
      BY <2>1
    <3> QED BY <1>1, <1>3, <3>1, Zenon DEF Without
  <2>2. CASE ~ (i <= L)
    <3>1. PICK j \in 1 .. m : i = L + j
      <4>1. i - L \in 1 .. m /\ i = L + (i - L)
        BY <2>2
      <4> QED BY <4>1
    <3> QED BY <1>1, <1>3, <3>1, Zenon DEF Without
  <2> QED BY <2>1, <2>2
<1> QED
  BY <1>0, <1>2, <1>3, Zenon DEF Without

(* The same with a part of the line. *)
LEMMA NotInPart ==
  ASSUME NEW t \in Text, NEW k \in Nat \ {0}, NEW o \in Nat \ {0}, k <= o, o <= Len(t) + 1,
         NEW x \in Text, NEW C, Without(x, C),
         \A j \in k .. o - 1 : t[j] \notin C, NEW q, q = x \o SubSeq(t, k, o - 1)
  PROVE  Without(q, C)
<1>1. PICK s \in Text : /\ s = SubSeq(t, k, o - 1) /\ Len(s) = o - k
                        /\ \A i \in 1 .. o - k : s[i] = t[k + i - 1]
  <2>1. /\ SubSeq(t, k, o - 1) \in Text /\ Len(SubSeq(t, k, o - 1)) = o - k
        /\ \A i \in 1 .. o - k : SubSeq(t, k, o - 1)[i] = t[k + i - 1]
    BY CutInTwo, Zenon
  <2> QED BY <2>1, Zenon
<1>2. ASSUME NEW i \in 1 .. Len(s) PROVE s[i] \notin C
  <2>1. i \in 1 .. o - k /\ k + i - 1 \in k .. o - 1
    BY <1>1
  <2> QED BY <1>1, <2>1, Zenon
<1>3. Without(x \o s, C)
  <2>1. Without(s, C)
    BY <1>2 DEF Without
  <2> QED BY <2>1, NeitherPart, Zenon
<1> QED
  BY <1>1, <1>3, Zenon

(* With nothing left to expand, the call stands for its argument, and the   *)
(* scan finds nothing.                                                      *)
LEMMA LeafCall ==
  ASSUME NEW t \in Text, WellFormed(t), NEW x \in Text, Clear(x), NEW k \in Nat \ {0},
         k <= Stop(t), Unmarked(t, k, Stop(t)), NEW a, a = x \o Onward(t, k)
  PROVE  /\ ~HasRange(a) /\ ~ScanError(a)
         /\ Joined({x}, Meanings(t)[k]) = {a}
<1>1. PICK n \in Nat : n = Len(t)
  BY DEF Text
<1>2. PICK o \in Nat \ {0} : o = Stop(t) /\ o <= n + 1 /\ k <= o
  <2>1. Stop(t) \in 1 .. n + 1
    BY <1>1, WellFormedIs
  <2> QED BY <2>1
<1>3. PICK q : q = x \o SubSeq(t, k, o - 1)
  OBVIOUS
<1>4. PICK u : u = Onward(t, o)
  OBVIOUS
<1>5. /\ q \in Text /\ u \in Text /\ a = q \o u
      /\ Joined({x}, Meanings(t)[k]) = Joined({q}, Meanings(t)[o])
  <2>1. o <= Stop(t) /\ Unmarked(t, k, o) /\ k <= o
    BY <1>2
  <2>2. Advanced(t, x, k, q, o)
    BY <1>3, <2>1, Advance
  <2> QED BY <1>4, <2>2, Zenon DEF Advanced
<1>6. PICK M \in [1 .. n + 1 -> SUBSET Text] : M = Meanings(t) /\ M[n + 1] = {<<>>}
  BY <1>1, MeaningsAre
<1>7. M[o] = {u}
  <2>1. ASSUME NEW j \in o .. n PROVE ~Ranging(t, j)
    <3>1. ~ (j < o)
      BY <1>1
    <3> QED BY <1>2, <3>1, Zenon DEF Ranging
  <2>2. PICK e \in 1 .. Len(t) + 1 : e = n + 1 /\ e - 1 = n /\ o \in 1 .. e
    <3>1. n + 1 \in 1 .. Len(t) + 1 /\ n + 1 - 1 = n /\ o \in 1 .. n + 1
      BY <1>1, <1>2
    <3> QED BY <3>1
  <2>3. \A j \in o .. e - 1 : ~Ranging(t, j)
    BY <2>1, <2>2, Zenon
  <2>4. Meanings(t)[o] = Joined({SubSeq(t, o, e - 1)}, Meanings(t)[e])
    BY <2>2, <2>3, PlainPart
  <2>5. M[o] = Joined({u}, {<<>>})
    BY <1>1, <1>4, <1>6, <2>2, <2>4, Zenon DEF Onward
  <2>6. <<>> \in Text
    BY DEF Text
  <2>7. Joined({u}, {<<>>}) = {u \o <<>>}
    BY <1>5, <2>6, JoinedSingle, Zenon
  <2>8. u \o <<>> = u
    BY <1>5, ConcatEmptySeq DEF Text
  <2> QED BY <2>5, <2>7, <2>8, Zenon
<1>8. Joined({q}, {u}) = {a}
  <2>1. M[o] \in SUBSET Text
    BY <1>2, <1>6
  <2>2. Joined({q}, {u}) = {q \o u}
    BY <1>5, <2>1, JoinedSingle, Zenon
  <2> QED BY <1>5, <2>2, Zenon
<1>9. PICK S, N : S = {"#"} /\ N = Marking
  OBVIOUS
<1>10. S \in SUBSET N /\ (\A z : z \notin Sharp => z \notin N)
  BY <1>9 DEF Marking, Sharp
<1>11. Without(q, N)
  <2>1. Without(x, N)
    BY <1>10, Zenon DEF Clear, Without
  <2>2. \A j \in k .. o - 1 : t[j] \notin N
    BY <1>2, <1>9, Zenon DEF Unmarked, Marking
  <2>3. o <= Len(t) + 1 /\ k <= o
    BY <1>1, <1>2
  <2> QED BY <1>3, <2>1, <2>2, <2>3, NotInPart
<1>12. PICK L \in Nat, m \in Nat : L = Len(q) /\ m = Len(u) /\ m = n + 1 - o
  <2>1. Len(Onward(t, o)) = Len(t) + 1 - o
    BY <1>1, <1>2, CutInTwo
  <2>2. Len(q) \in Nat /\ Len(u) \in Nat
    BY <1>5 DEF Text
  <2>3. Len(u) = n + 1 - o
    BY <1>1, <1>4, <2>1, Zenon
  <2> QED BY <2>2, <2>3, Zenon
<1>13. /\ a \in Text /\ Len(a) = L + m /\ \A i \in 1 .. L : a[i] = q[i]
       /\ m > 0 => a[L + 1] = t[o]
  <2>1. /\ q \o u \in Text /\ Len(q \o u) = Len(q) + Len(u)
        /\ \A i \in 1 .. Len(q) : (q \o u)[i] = q[i]
        /\ \A i \in 1 .. Len(u) : (q \o u)[Len(q) + i] = u[i]
    BY <1>5, Behind
  <2>2. /\ a \in Text /\ Len(a) = L + m /\ \A i \in 1 .. L : a[i] = q[i]
        /\ \A i \in 1 .. m : a[L + i] = u[i]
    BY <1>5, <1>12, <2>1, Zenon
  <2>3. ASSUME m > 0 PROVE a[L + 1] = t[o]
    <3>1. 1 \in 1 .. m /\ o + 1 - 1 = o /\ 1 \in 1 .. Len(t) + 1 - o
      BY <1>1, <1>2, <1>12, <2>3
    <3>2. o <= Len(t) + 1
      BY <1>1, <1>2
    <3>3. \A i \in 1 .. Len(t) + 1 - o : Onward(t, o)[i] = t[o + i - 1]
      BY <1>2, <3>2, CutInTwo
    <3>4. u[1] = t[o + 1 - 1]
      BY <1>4, <3>1, <3>3, Zenon
    <3> QED BY <2>2, <3>1, <3>4, Zenon
  <2> QED BY <2>2, <2>3
<1>14. PICK g \in Nat : g = L + 1
  OBVIOUS
<1>15. Find(a, 1, S) = g
  <2>1. \A j \in 1 .. g - 1 : a[j] \notin S
    <3> SUFFICES ASSUME NEW j \in 1 .. g - 1 PROVE a[j] \notin S
      OBVIOUS
    <3>1. j \in 1 .. L
      BY <1>14
    <3> QED BY <1>10, <1>11, <1>12, <1>13, <3>1, Zenon DEF Without
  <2>2. g <= Len(a) => a[g] \in S
    <3> SUFFICES ASSUME g <= Len(a) PROVE a[g] \in S
      OBVIOUS
    <3>1. m > 0 /\ o <= n
      BY <1>12, <1>13, <1>14
    <3>2. t[o] \in S
      <4>1. 1 \in Nat /\ Len(t) \in Nat /\ 1 <= End(t)
        BY <1>1 DEF End
      <4>2. First(t, 1, S, Find(t, 1, S))
        BY <4>1, FindIs
      <4>3. Find(t, 1, S) = o
        BY <1>2, <1>9, Zenon DEF Stop
      <4> QED BY <1>1, <3>1, <4>2, <4>3, Zenon DEF First
    <3> QED BY <1>13, <1>14, <3>1, <3>2, Zenon
  <2>3. 1 \in Nat \ {0} /\ 1 <= g /\ g <= Len(a) + 1
    BY <1>12, <1>13, <1>14
  <2> QED BY <1>13, <2>1, <2>2, <2>3, FoundAt
<1>16. Stop(a) = g
  BY <1>9, <1>15, Zenon DEF Stop
<1>17. ASSUME NEW j \in 1 .. Stop(a) - 1 PROVE a[j] \notin Marking
  <2>1. j \in 1 .. L
    BY <1>14, <1>16
  <2> QED BY <1>9, <1>11, <1>12, <1>13, <2>1, Zenon DEF Without
<1>18. ~HasRange(a) /\ ~ScanError(a)
  BY <1>13, <1>17, ScanPlain
<1> QED
  BY <1>5, <1>6, <1>7, <1>8, <1>18, Zenon

(* The numbers of the range d. *)
ReadAs(r, d) == r.next = Value(From(d)) /\ r.last = Value(To(d)) /\ ~Refused(r)

(* What expandLine makes of a, which is q, the braces around d, and w. *)
Seen(a, q, d, w) ==
  /\ HasRange(a) /\ ~ScanError(a)
  /\ "," \in In(a, Open(a), Close(a)) <=> IsList(d)
  /\ "-" \in In(a, Open(a), Close(a)) <=> IsRange(d)
  /\ SubSeq(a, 1, Open(a) - 1) = q /\ SubSeq(a, Open(a) + 1, Close(a) - 1) = d
  /\ SubSeq(a, Close(a) + 1, Len(a)) = w
  /\ IsRange(d) => ReadAs(RangeOf(a, Open(a) + 1, Close(a)), d)

(* The braces and what is in them, at o. *)
AtBraces(t, o, c, d) ==
  Within(t, o, d) /\ c = o + Len(d) + 1 /\ c <= Len(t) /\ t[o] \in Opening /\ t[c] \in Shut

FoundAs(t, o, c, d) ==
  /\ IsRange(d) => ReadAs(RangeOf(t, o + 1, c), d)
  /\ SubSeq(t, o + 1, o + Len(d)) = d

(* It reads the numbers, and finds d there. *)
LEMMA BracesRead ==
  ASSUME NEW t \in Text, NEW o \in Nat, o # 0, NEW c \in Nat, NEW d \in Text, AtBraces(t, o, c, d)
  PROVE  FoundAs(t, o, c, d)
<1>1. /\ Within(t, o, d) /\ c = o + Len(d) + 1 /\ c <= Len(t)
      /\ t[o] \in Opening /\ t[c] \in Shut
  BY DEF AtBraces
<1>2. IsRange(d) => ReadAs(RangeOf(t, o + 1, c), d)
  BY <1>1, RangeRead DEF ReadAs
<1>3. SubSeq(t, o + 1, o + Len(d)) = d
  <2>1. PICK m \in Nat : m = Len(d)
    BY DEF Text
  <2>2. 1 \in Nat \ {0} /\ 1 <= m + 1 /\ m <= Len(d)
    BY <2>1
  <2>3. SubSeq(t, o + 1, o + m) = SubSeq(d, 1, m)
    BY <1>1, <2>2, WithinPiece
  <2>4. SubSeq(d, 1, Len(d)) = d
    BY SubSeqFull DEF Text
  <2> QED BY <2>1, <2>3, <2>4, Zenon
<1> QED
  BY <1>2, <1>3, Zenon DEF FoundAs

(* The first part of two, and the second. *)
LEMMA PartsOfTwo ==
  ASSUME NEW q \in Text, NEW w \in Text
  PROVE  /\ SubSeq(q \o w, 1, Len(q)) = q
         /\ SubSeq(q \o w, Len(q) + 1, Len(q) + Len(w)) = w
<1>1. PICK L \in Nat, m \in Nat : L = Len(q) /\ m = Len(w)
  BY DEF Text
<1>2. PICK t \in Text : t = q \o w
  BY Behind
<1>3. /\ Len(t) = L + m /\ \A i \in 1 .. L : t[i] = q[i]
  <2>1. /\ Len(q \o w) = Len(q) + Len(w)
        /\ \A i \in 1 .. Len(q) : (q \o w)[i] = q[i]
    BY Behind
  <2> QED BY <1>1, <1>2, <2>1, Zenon
<1>4. L \in 0 .. Len(t)
  BY <1>1, <1>3
<1>5. /\ SubSeq(t, 1, L) \in Text /\ Len(SubSeq(t, 1, L)) = L
      /\ \A i \in 1 .. L : SubSeq(t, 1, L)[i] = t[i]
  BY <1>4, Beginning
<1>6. SubSeq(t, 1, L) = q
  <2>1. PICK u : u = SubSeq(t, 1, L)
    OBVIOUS
  <2>2. u \in Text /\ Len(u) = Len(q) /\ \A i \in 1 .. L : u[i] = q[i]
    BY <1>1, <1>3, <1>5, <2>1, Zenon
  <2>3. u = q
    BY <1>1, <2>2, SeqEqual DEF Text
  <2> QED BY <2>1, <2>3
<1>7. SubSeq(t, L + 1, L + m) = w
  <2>1. 1 \in Nat \ {0} /\ m \in Int /\ m <= Len(w)
    BY <1>1
  <2>2. SubSeq(q \o w, Len(q) + 1, Len(q) + m) = SubSeq(w, 1, m)
    BY <2>1, SubSeqBehind
  <2>3. SubSeq(w, 1, Len(w)) = w
    BY SubSeqFull DEF Text
  <2> QED BY <1>1, <1>2, <2>2, <2>3, Zenon
<1> QED
  BY <1>1, <1>2, <1>6, <1>7, Zenon

(* This is what it makes of it, when d is a range or a list. *)
LEMMA BraceSeen ==
  ASSUME NEW q \in Text, Clear(q), NEW d \in Text, IsRange(d) \/ IsList(d), NEW b \in Text,
         Len(b) = Len(d) + 2, b[1] \in Opening, b[Len(b)] \in Shut,
         \A i \in 1 .. Len(d) : b[i + 1] = d[i], NEW w \in Text, NEW a, a = (q \o b) \o w
  PROVE  a \in Text /\ Seen(a, q, d, w)
<1>0. (q \o b) \o w = q \o (b \o w)
  BY ThreeTexts
<1>1. PICK L \in Nat, m \in Nat, n \in Nat : L = Len(q) /\ m = Len(d) /\ n = Len(w)
  BY DEF Text
<1>2. PICK y \in Text : /\ y = q \o b /\ Len(y) = L + m + 2 /\ \A i \in 1 .. L : y[i] = q[i]
                        /\ \A i \in 1 .. m + 2 : y[L + i] = b[i]
  <2>1. /\ q \o b \in Text /\ Len(q \o b) = Len(q) + Len(b)
        /\ \A i \in 1 .. Len(q) : (q \o b)[i] = q[i]
        /\ \A i \in 1 .. Len(b) : (q \o b)[Len(q) + i] = b[i]
    BY Behind
  <2>2. Len(q) + Len(b) = L + m + 2 /\ Len(b) = m + 2
    BY <1>1
  <2> QED BY <1>1, <2>1, <2>2, ZenonT(60)
<1>3. /\ a \in Text /\ Len(a) = L + m + 2 + n /\ \A i \in 1 .. L + m + 2 : a[i] = y[i]
  <2>1. /\ y \o w \in Text /\ Len(y \o w) = Len(y) + Len(w)
        /\ \A i \in 1 .. Len(y) : (y \o w)[i] = y[i]
    BY Behind
  <2> QED BY <1>1, <1>2, <2>1, Zenon
<1>4. PICK o \in Nat \ {0}, c \in Nat \ {0} :
        o = L + 1 /\ c = L + m + 2 /\ c = o + m + 1 /\ c <= L + m + 2 + n
  <2>1. L + 1 \in Nat \ {0} /\ L + m + 2 \in Nat \ {0} /\ L + m + 2 = L + 1 + m + 1
        /\ L + m + 2 <= L + m + 2 + n
    OBVIOUS
  <2> QED BY <2>1
<1>5. a[o] \in Opening /\ a[c] \in Shut
  <2>1. /\ 1 \in 1 .. m + 2 /\ m + 2 \in 1 .. m + 2 /\ o \in 1 .. L + m + 2 /\ c \in 1 .. L + m + 2
        /\ L + (m + 2) = c /\ Len(b) = m + 2
    BY <1>1, <1>4
  <2>2. a[o] = y[o] /\ a[c] = y[c]
    BY <1>3, <2>1, Zenon
  <2>4. y[L + 1] = b[1] /\ y[L + (m + 2)] = b[m + 2]
    BY <1>2, <2>1, Zenon
  <2>5. y[o] = b[1] /\ y[c] = b[m + 2]
    BY <1>4, <2>1, <2>4, Zenon
  <2> QED BY <2>1, <2>2, <2>5, Zenon
<1>6. Within(a, o, d)
  <2>1. o + Len(d) <= Len(a)
    BY <1>1, <1>3, <1>4
  <2>2. ASSUME NEW i \in 1 .. Len(d) PROVE d[i] = a[o + i]
    <3>1. /\ i + 1 \in 1 .. m + 2 /\ o + i = L + (i + 1) /\ L + (i + 1) \in 1 .. L + m + 2
      BY <1>1, <1>4
    <3> QED BY <1>2, <1>3, <3>1, Zenon
  <2> QED BY <2>1, <2>2 DEF Within
<1>7. ASSUME NEW j \in 1 .. o - 1 PROVE a[j] \notin Marking
  <2>1. j \in 1 .. L /\ j \in 1 .. L + m + 2
    BY <1>4
  <2>2. q[j] \notin Sharp
    BY <1>1, <2>1, Zenon DEF Clear
  <2>3. \A z : z \notin Sharp => z \notin Marking
    BY DEF Sharp, Marking
  <2> QED BY <1>2, <1>3, <2>1, <2>2, <2>3, Zenon
<1>8. c = o + Len(d) + 1 /\ c <= Len(a)
  BY <1>1, <1>3, <1>4
<1>9. /\ Open(a) = o /\ Close(a) = c /\ HasRange(a) /\ ~ScanError(a)
      /\ "," \in In(a, o, c) <=> IsList(d)
      /\ "-" \in In(a, o, c) <=> IsRange(d)
  BY <1>3, <1>5, <1>6, <1>7, <1>8, ScanRange
<1>12. FoundAs(a, o, c, d)
  <2>1. AtBraces(a, o, c, d)
    BY <1>5, <1>6, <1>8, Zenon DEF AtBraces
  <2>2. o \in Nat /\ o # 0 /\ c \in Nat
    BY <1>4
  <2>3. a \in Text
    BY <1>3
  <2> QED BY <2>1, <2>2, <2>3, BracesRead
<1>10. /\ SubSeq(a, 1, o - 1) = q /\ SubSeq(a, c + 1, Len(a)) = w
       /\ SubSeq(a, o + 1, c - 1) = d
  <2>1. o - 1 = L /\ c + 1 = L + m + 2 + 1 /\ c - 1 = o + m
    BY <1>4
  <2>2. SubSeq(a, 1, L) = q
    <3>1. PICK v \in Text : v = b \o w
      BY Behind
    <3>2. a = q \o v
      BY <1>0, <3>1, Zenon
    <3>3. SubSeq(q \o v, 1, Len(q)) = q
      BY PartsOfTwo, Zenon
    <3> QED BY <1>1, <3>2, <3>3, Zenon
  <2>3. SubSeq(a, L + m + 2 + 1, L + m + 2 + n) = w
    <3>1. SubSeq(y \o w, Len(y) + 1, Len(y) + Len(w)) = w
      BY PartsOfTwo, Zenon
    <3> QED BY <1>1, <1>2, <3>1, Zenon
  <2>4. SubSeq(a, o + 1, o + m) = d
    BY <1>1, <1>12, Zenon DEF FoundAs
  <2> QED BY <1>3, <2>1, <2>2, <2>3, <2>4, Zenon
<1>11. ASSUME IsRange(d)
       PROVE  ReadAs(RangeOf(a, o + 1, c), d)
  BY <1>11, <1>12, Zenon DEF FoundAs
<1>13. Seen(a, q, d, w)
  BY <1>9, <1>10, <1>11, Zenon DEF Seen
<1> QED
  BY <1>3, <1>13

Separators == {"/", "@"}

(* A call that has the braces at o in front of it expands them first.       *)
Pushed(t, x, k, a, q, o) ==
  LET d == Inner(t, o)  e == Closing(t, o) + 1
  IN  /\ q \in Text /\ Clear(q) /\ d \in Text
      /\ IsRange(d) \/ IsList(d)
      /\ Seen(a, q, d, Onward(t, e))
      /\ Joined({x}, Meanings(t)[k]) = Joined(Joined({q}, Choices(d)), Meanings(t)[e])

(* The braces as a part of the text, with the rest of it. *)
BracesCut(t, o, c, d, b) ==
  /\ b \in Text /\ Len(b) = Len(d) + 2 /\ b[1] \in Opening /\ b[Len(b)] \in Shut
  /\ \A i \in 1 .. Len(d) : b[i + 1] = d[i]
  /\ Onward(t, c + 1) \in Text /\ b \o Onward(t, c + 1) = Onward(t, o)

Matched(t, o, d) == \A i \in 1 .. Len(d) : d[i] = t[o + i]

(* They can be cut out. *)
LEMMA BracesPart ==
  ASSUME NEW t \in Text, NEW o \in Nat, o # 0, NEW c \in Nat, o < c, c <= Len(t),
         t[o] \in Opening, t[c] \in Shut,
         NEW d \in Text, Len(d) = c - o - 1, Matched(t, o, d),
         NEW b, b = SubSeq(t, o, c)
  PROVE  BracesCut(t, o, c, d, b)
<1>0. o \in Nat \ {0}
  OBVIOUS
<1>1. PICK e \in Nat \ {0} : e = c + 1 /\ e - 1 = c /\ o <= e /\ e <= Len(t) + 1
  <2>1. Len(t) \in Nat
    BY DEF Text
  <2>2. c + 1 \in Nat \ {0} /\ c + 1 - 1 = c /\ o <= c + 1 /\ c + 1 <= Len(t) + 1
    BY <2>1
  <2> QED BY <2>2
<1>2. /\ SubSeq(t, o, e - 1) \in Text /\ Onward(t, e) \in Text
      /\ Len(SubSeq(t, o, e - 1)) = e - o
      /\ \A i \in 1 .. e - o : SubSeq(t, o, e - 1)[i] = t[o + i - 1]
      /\ SubSeq(t, o, e - 1) \o Onward(t, e) = Onward(t, o)
  BY <1>0, <1>1, CutInTwo, ZenonT(60)
<1>3. /\ b \in Text /\ Len(b) = e - o /\ \A i \in 1 .. e - o : b[i] = t[o + i - 1]
      /\ b \o Onward(t, e) = Onward(t, o)
  BY <1>1, <1>2, Zenon
<1>4. Len(b) = Len(d) + 2 /\ e - o \in 1 .. e - o /\ 1 \in 1 .. e - o /\ o + 1 - 1 = o
      /\ o + (e - o) - 1 = c
  BY <1>1, <1>3
<1>5. b[1] \in Opening /\ b[Len(b)] \in Shut
  BY <1>3, <1>4, Zenon
<1>6. ASSUME NEW i \in 1 .. Len(d) PROVE b[i + 1] = d[i]
  <2>1. i + 1 \in 1 .. e - o /\ o + (i + 1) - 1 = o + i
    BY <1>1
  <2> QED BY <1>3, <2>1, Zenon DEF Matched
<1> QED
  BY <1>1, <1>2, <1>3, <1>4, <1>5, <1>6, Zenon DEF BracesCut

(* So it is. *)
LEMMA PushCall ==
  ASSUME NEW t \in Text, WellFormed(t), NEW x \in Text, Clear(x), NEW k \in Nat \ {0},
         NEW o \in Nat \ {0}, k <= o, o < Stop(t), Unmarked(t, k, o), Braced(t, o),
         \A j \in k .. o - 1 : t[j] \notin Separators,
         NEW a, a = x \o Onward(t, k), NEW q, q = x \o SubSeq(t, k, o - 1)
  PROVE  Pushed(t, x, k, a, q, o)
<1>1. PICK n \in Nat : n = Len(t)
  BY DEF Text
<1>2. Stop(t) \in 1 .. n + 1
  BY <1>1, WellFormedIs
<1>3. o \in 1 .. Stop(t) - 1 /\ o <= Stop(t) /\ o \in 1 .. n /\ o \in Nat /\ o # 0
      /\ o <= Len(t) + 1
  BY <1>1, <1>2
<1>4. PICK c \in Nat : c = Closing(t, o) /\ c \in o + 1 .. Stop(t) - 1 /\ o < c /\ c <= Len(t)
  <2>1. Closing(t, o) \in o + 1 .. Stop(t) - 1
    BY DEF Braced
  <2> QED BY <1>1, <1>2, <2>1
<1>5. /\ t[o] \in Opening /\ t[c] \in Shut
      /\ IsRange(Inner(t, o)) \/ IsList(Inner(t, o))
  BY <1>4 DEF Braced, Opening, Shut
<1>6. PICK d \in Text : /\ d = Inner(t, o) /\ Len(d) = c - o - 1
                        /\ \A i \in 1 .. Len(d) : d[i] = t[o + i]
  <2>1. /\ Inner(t, o) \in Text /\ Len(Inner(t, o)) = Closing(t, o) - o - 1
        /\ \A i \in 1 .. Len(Inner(t, o)) : Inner(t, o)[i] = t[o + i]
    BY <1>1, <1>2, <1>3, <1>4, InnerIs
  <2> QED BY <1>4, <2>1, Zenon
<1>7. IsRange(d) \/ IsList(d)
  BY <1>5, <1>6, Zenon
<1>m. Matched(t, o, d)
  BY <1>6, Zenon DEF Matched
<1>8. PICK b : b = SubSeq(t, o, c)
  OBVIOUS
<1>9. PICK e \in Nat : e = c + 1 /\ e = Closing(t, o) + 1
  BY <1>4
<1>10. PICK w : w = Onward(t, e)
  OBVIOUS
<1>11. /\ b \in Text /\ Len(b) = Len(d) + 2 /\ b[1] \in Opening /\ b[Len(b)] \in Shut
       /\ \A i \in 1 .. Len(d) : b[i + 1] = d[i]
       /\ w \in Text /\ b \o w = Onward(t, o)
  <2>1. BracesCut(t, o, c, d, b)
    BY <1>3, <1>4, <1>5, <1>6, <1>m, <1>8, BracesPart
  <2> QED BY <1>9, <1>10, <2>1, Zenon DEF BracesCut
<1>12. Advanced(t, x, k, q, o)
  BY <1>3, Advance
<1>13. /\ q \in Text /\ a = q \o (b \o w)
       /\ Joined({x}, Meanings(t)[k]) = Joined({q}, Meanings(t)[o])
  BY <1>11, <1>12, Zenon DEF Advanced
<1>14. a = (q \o b) \o w
  <2>1. (q \o b) \o w = q \o (b \o w)
    BY <1>11, <1>13, ThreeTexts
  <2> QED BY <1>13, <2>1, Zenon
<1>15. Clear(q)
  <2>1. PICK C : C = Sharp
    OBVIOUS
  <2>2. Without(x, C)
    BY <2>1, Zenon DEF Clear, Without
  <2>3. \A z : z \notin {"{", "}", "#", ",", "-"} /\ z \notin Separators => z \notin Sharp
    BY DEF Sharp, Separators
  <2>4. \A j \in k .. o - 1 : t[j] \notin C
    BY <2>1, <2>3, Zenon DEF Unmarked
  <2>5. Without(q, C)
    BY <1>3, <2>2, <2>4, NotInPart
  <2> QED BY <2>1, <2>5, Zenon DEF Clear, Without
<1>16. Seen(a, q, d, w)
  BY <1>7, <1>11, <1>13, <1>14, <1>15, BraceSeen
<1>17. PICK M \in [1 .. n + 1 -> SUBSET Text] :
         M = Meanings(t) /\ M[o] = Spell(t, o, M[Ahead(t, o)])
  BY <1>1, <1>3, MeaningsAre
<1>18. M[o] = Joined(Choices(d), M[e])
  <2>1. Ranging(t, o)
    BY DEF Ranging, Braced
  <2>2. Ahead(t, o) = e
    BY <1>9, <2>1, Zenon DEF Ahead
  <2> QED BY <1>6, <1>17, <2>1, <2>2, Zenon DEF Spell
<1>19. Joined(Joined({q}, Choices(d)), M[e]) = Joined({q}, Joined(Choices(d), M[e]))
  <2>1. e \in 1 .. n + 1
    BY <1>1, <1>4, <1>9
  <2>2. {q} \in SUBSET Text /\ Choices(d) \in SUBSET Text /\ M[e] \in SUBSET Text
    BY <1>13, <1>17, <2>1, ChoicesTexts
  <2> QED BY <2>2, JoinedAgain, ZenonT(60)
<1> QED
  BY <1>6, <1>7, <1>9, <1>10, <1>13, <1>15, <1>16, <1>17, <1>18, <1>19, Zenon DEF Pushed

(* All entries of some lines. *)
All(C) == UNION {Entries(u) : u \in C}

(* What the loop of a frame has still to put in, and the entries that it    *)
(* will make in the line t.                                                 *)
Left(f) == Items(f.list) \cup {Fmt(n) : n \in f.next .. f.last}

Place(t, p) == Len(t) - Len(p) + 1

Still(t, f) == All(Joined(Joined({f.prefix}, Left(f)), Meanings(t)[Place(t, f.post)]))

Awaited(t, s) == UNION {Still(t, s[i]) : i \in 1 .. Len(s)}

(* The lines of t have these entries. *)
LEMMA StatedIs ==
  ASSUME NEW t
  PROVE  Stated(t) = All(Meanings(t)[1])
<1>1. PICK C : C = Meanings(t)[1]
  OBVIOUS
<1>2. UNION {EntryOf(r) : r \in UNION {BlackList_parseLine(u) : u \in C}} = All(C)
  BY DEF All, Entries
<1> QED
  BY <1>1, <1>2, Zenon DEF Stated, Meant

(* Entries of the lines in two sets, and of one line. *)
LEMMA AllOfTwo ==
  ASSUME NEW C, NEW D, NEW u
  PROVE  All(C \cup D) = All(C) \cup All(D) /\ All({u}) = Entries(u) /\ All({}) = {}
BY DEF All

(* A second set of two parts. *)
LEMMA JoinedRight ==
  ASSUME NEW A, NEW B, NEW C
  PROVE  Joined(A, B \cup C) = Joined(A, B) \cup Joined(A, C)
<1>1. ASSUME NEW z
      PROVE  z \in Joined(A, B \cup C) <=> z \in Joined(A, B) \/ z \in Joined(A, C)
  <2>1. PICK U : U = B \cup C
    OBVIOUS
  <2>2. z \in Joined(A, U) <=> \E c \in A, d \in U : z = c \o d
    BY JoinedIs
  <2>3. /\ z \in Joined(A, B) <=> \E c \in A, d \in B : z = c \o d
        /\ z \in Joined(A, C) <=> \E c \in A, d \in C : z = c \o d
    BY JoinedIs
  <2> QED BY <2>1, <2>2, <2>3
<1> QED
  BY <1>1, Zenon

(* A line gives one result. *)
LEMMA OneResult ==
  ASSUME NEW t
  PROVE  \E r : BlackList_parseLine(t) = {r}
<1>1. PICK h : h = ParseHost(t, NoFields)
  OBVIOUS
<1>2. PICK m : m = IF h.ok THEN ParseMask(t, h) ELSE h
  OBVIOUS
<1>3. PICK a : a = IF m.ok THEN ParseAtMac(t, m) ELSE m
  OBVIOUS
<1>4. PICK r : r = IF a.ok THEN ParseMac(t, a) ELSE a
  OBVIOUS
<1>5. {IF x.ok THEN ParseMask(t, x) ELSE x : x \in {h}} = {m}
  BY <1>2
<1>6. {IF x.ok THEN ParseAtMac(t, x) ELSE x : x \in {m}} = {a}
  BY <1>3
<1>7. {IF x.ok THEN ParseMac(t, x) ELSE x : x \in {a}} = {r}
  BY <1>4
<1>8. BlackList_parseLine(t) = {r}
  BY <1>1, <1>5, <1>6, <1>7, Zenon DEF BlackList_parseLine
<1> QED
  BY <1>8

(* So it gives these entries. *)
LEMMA EntriesAre ==
  ASSUME NEW t, NEW r \in BlackList_parseLine(t)
  PROVE  Entries(t) = EntryOf(r)
<1>1. PICK z : BlackList_parseLine(t) = {z}
  BY OneResult
<1> QED
  BY <1>1 DEF Entries

(* Two first parts that give the same entries with every continuation. *)
LEMMA AllBehind ==
  ASSUME NEW q \in Text, NEW u \in Text, \A z \in Text : Entries(u \o z) = Entries(q \o z),
         NEW D \in SUBSET Text
  PROVE  All(Joined({u}, D)) = All(Joined({q}, D))
<1>1. ASSUME NEW a \in Text, NEW b \in Text, \A z \in Text : Entries(a \o z) = Entries(b \o z)
      PROVE  All(Joined({a}, D)) \subseteq All(Joined({b}, D))
  <2>1. PICK A, B : A = {a} /\ B = {b}
    OBVIOUS
  <2>3. \A v : v \in Joined(B, D) <=> \E f \in B, g \in D : v = f \o g
    BY JoinedIs
  <2>2. ASSUME NEW e \in All(Joined(A, D)) PROVE e \in All(Joined(B, D))
    <3>1. PICK y \in Joined(A, D) : e \in Entries(y)
      BY <2>2, Zenon DEF All
    <3>2. PICK c \in A, z \in D : y = c \o z
      BY JoinedIs
    <3>3. y = a \o z /\ z \in Text
      BY <2>1, <3>2
    <3>4. e \in Entries(b \o z)
      BY <1>1, <3>1, <3>3, Zenon
    <3>5. PICK v : v = b \o z
      OBVIOUS
    <3>6. v \in Joined(B, D)
      <4>1. b \in B
        BY <2>1
      <4> QED BY <3>5, <4>1, <2>3, Zenon
    <3> QED BY <3>4, <3>5, <3>6, Zenon DEF All
  <2> QED BY <2>1, <2>2, Zenon
<1>2. /\ All(Joined({u}, D)) \subseteq All(Joined({q}, D))
      /\ All(Joined({q}, D)) \subseteq All(Joined({u}, D))
  BY <1>1
<1> QED
  BY <1>2, Zenon

(* A frame of the line t: what it has copied is clear, what follows is the  *)
(* line from a place that is in no braces, and its numbers do not overflow. *)
Sound(t, f) ==
  /\ Clear(f.prefix) /\ ListText(f.list)
  /\ Between(t, Place(t, f.post)) /\ f.post = Onward(t, Place(t, f.post))
  /\ f.next <= f.last => f.next >= 0 /\ f.last < IntMax

(* It has texts to put in. *)
LEMMA LeftTexts ==
  ASSUME NEW t, NEW f \in FrameRec, Sound(t, f)
  PROVE  Left(f) \in SUBSET Text
<1>1. PICK l \in Text, a \in Int, b \in Int : l = f.list /\ a = f.next /\ b = f.last
  BY DEF FrameRec
<1>2. a <= b => a >= 0
  BY <1>1 DEF Sound
<1>3. ASSUME NEW n \in a .. b PROVE Fmt(n) \in Text
  <2>1. n \in Nat /\ n >= 0
    BY <1>2
  <2>2. fmt_uint[n] \in Seq(Digit)
    BY <2>1, NumberTexts
  <2>3. fmt_uint[n] \in Text
    BY <2>2, SeqMonotonic DEF Text, Char
  <2> QED BY <2>1, <2>3 DEF Fmt
<1>4. ASSUME NEW i \in Starts(l) PROVE Item(l, i) \in Text
  <2>1. PICK n \in Nat : n = Len(l) /\ End(l) = n + 1 /\ DOMAIN l = 1 .. n /\ \A j \in 1 .. n : l[j] \in Char
    BY DEF Text, End
  <2>2. i \in 1 .. n
    BY <2>1 DEF Starts
  <2>3. First(l, i, Comma, Find(l, i, Comma))
    <3>1. i \in Nat /\ Len(l) \in Nat /\ i <= End(l)
      BY <2>1, <2>2
    <3> QED BY <3>1, FindIs
  <2>4. PICK p \in Nat : p = Find(l, i, Comma) /\ p <= n + 1
    BY <2>1, <2>2, <2>3 DEF First
  <2>5. i \in Int /\ p - 1 \in Int /\ \A j \in i .. p - 1 : l[j] \in Char
    BY <2>1, <2>2, <2>4
  <2>6. SubSeq(l, i, p - 1) \in Seq(Char)
    BY <2>5, SubSeqProperties
  <2> QED BY <2>4, <2>6, Zenon DEF Item, Text
<1> QED
  BY <1>1, <1>3, <1>4 DEF Left, Items

(* The line from such a place on has meanings. *)
LEMMA PlaceTexts ==
  ASSUME NEW t \in Text, WellFormed(t), NEW k, Between(t, k)
  PROVE  /\ k \in 1 .. Len(t) + 1 /\ k \in Nat \ {0} /\ k <= Stop(t)
         /\ Meanings(t)[k] \in SUBSET Text
         /\ Onward(t, k) \in Text /\ Place(t, Onward(t, k)) = k
<1>1. PICK n \in Nat : n = Len(t)
  BY DEF Text
<1>2. Stop(t) \in 1 .. n + 1
  BY <1>1, WellFormedIs
<1>3. k \in 1 .. n + 1 /\ k \in Nat \ {0} /\ k <= Stop(t)
  <2>1. k \in 1 .. Stop(t)
    BY Zenon DEF Between
  <2>2. PICK m \in Nat : m = Stop(t) /\ m <= n + 1
    BY <1>2
  <2>3. k \in 1 .. m
    BY <2>1, <2>2, Zenon
  <2>4. k \in 1 .. n + 1 /\ k \in Nat \ {0} /\ k <= m
    BY <2>2, <2>3
  <2> QED BY <2>2, <2>4
<1>4. Meanings(t) \in [1 .. n + 1 -> SUBSET Text]
  BY <1>1, MeaningsAre
<1>5. Onward(t, k) \in Text /\ Len(Onward(t, k)) = Len(t) + 1 - k
  <2>1. k <= k /\ k <= Len(t) + 1
    BY <1>1, <1>3
  <2> QED BY <1>3, <2>1, CutInTwo
<1>6. Place(t, Onward(t, k)) = k
  <2>1. n - (n + 1 - k) + 1 = k
    BY <1>3
  <2> QED BY <1>1, <1>5, <2>1 DEF Place
<1> QED
  BY <1>1, <1>3, <1>4, <1>5, <1>6

(* At a call, the scan finds the next braces, or nothing and the call stands *)
(* for its argument.                                                         *)
LEMMA CallSees ==
  ASSUME NEW t \in Text, WellFormed(t), ~Separated(t), NEW x \in Text, Clear(x),
         NEW k, Between(t, k), NEW a, a = x \o Onward(t, k)
  PROVE  \/ ~HasRange(a) /\ ~ScanError(a) /\ Joined({x}, Meanings(t)[k]) = {a}
         \/ \E o \in Nat : \E q : Between(t, Closing(t, o) + 1) /\ Pushed(t, x, k, a, q, o)
<1>1. k \in Nat \ {0} /\ k <= Stop(t)
  BY PlaceTexts
<1>2. PICK o \in k .. Stop(t) :
        /\ Unmarked(t, k, o)
        /\ o # Stop(t) => Braced(t, o) /\ Between(t, Closing(t, o) + 1)
  BY <1>1, Segment
<1>3. PICK n \in Nat : n = Stop(t)
  <2>1. Stop(t) \in 1 .. Len(t) + 1
    BY WellFormedIs
  <2> QED BY <2>1
<1>4. o \in Nat \ {0} /\ k <= o /\ o <= Stop(t)
  BY <1>1, <1>3
<1>5. CASE o = Stop(t)
  <2>1. Unmarked(t, k, Stop(t))
    BY <1>2, <1>5
  <2> QED BY <1>1, <2>1, LeafCall
<1>6. CASE o # Stop(t)
  <2>1. o < Stop(t) /\ Braced(t, o) /\ Between(t, Closing(t, o) + 1)
    BY <1>2, <1>3, <1>4, <1>6
  <2>2. ASSUME NEW j \in k .. o - 1 PROVE t[j] \notin Separators
    <3>1. j \in 1 .. Stop(t) - 1 /\ o \in 1 .. Stop(t) - 1 /\ j < o
      BY <1>1, <1>3, <1>4, <2>1
    <3>2. t[o] = "{"
      BY <2>1 DEF Braced
    <3> QED BY <3>1, <3>2, Zenon DEF Separated, Separators
  <2>3. PICK q : q = x \o SubSeq(t, k, o - 1)
    OBVIOUS
  <2>4. Pushed(t, x, k, a, q, o)
    BY <1>1, <1>2, <1>4, <2>1, <2>2, <2>3, PushCall
  <2> QED BY <1>4, <2>1, <2>4
<1> QED
  BY <1>5, <1>6

(* A frame that has what the call stood for still to make.                  *)
Begun(t, x, k, f) == Sound(t, f) /\ Still(t, f) = All(Joined({x}, Meanings(t)[k]))

(* A new frame is one. *)
LEMMA PushedStill ==
  ASSUME NEW t \in Text, WellFormed(t), NEW x, NEW k, NEW a, NEW q, NEW o,
         Pushed(t, x, k, a, q, o), Between(t, Closing(t, o) + 1),
         NEW list, NEW next, NEW last, ListText(list),
         next <= last => next >= 0 /\ last < IntMax,
         NEW f, f = Frame(a, list, next, last), Left(f) = Choices(Inner(t, o))
  PROVE  Begun(t, x, k, f)
<1>1. PICK e : e = Closing(t, o) + 1
  OBVIOUS
<1>2. PICK d : d = Inner(t, o)
  OBVIOUS
<1>3. /\ Clear(q) /\ Seen(a, q, d, Onward(t, e))
      /\ Joined({x}, Meanings(t)[k]) = Joined(Joined({q}, Choices(d)), Meanings(t)[e])
  BY <1>1, <1>2, Zenon DEF Pushed
<1>4. f.prefix = q /\ f.post = Onward(t, e)
  <2>1. f.prefix = SubSeq(a, 1, Open(a) - 1) /\ f.post = SubSeq(a, Close(a) + 1, Len(a))
    BY DEF Frame
  <2> QED BY <1>3, <2>1, Zenon DEF Seen
<1>5. f.list = list /\ f.next = next /\ f.last = last
  BY DEF Frame
<1>6. Place(t, f.post) = e /\ Between(t, e)
  <2>1. Between(t, e)
    BY <1>1
  <2>2. Place(t, Onward(t, e)) = e
    BY <2>1, PlaceTexts
  <2> QED BY <1>4, <2>1, <2>2, Zenon
<1>7. Sound(t, f)
  BY <1>3, <1>4, <1>5, <1>6, Zenon DEF Sound
<1>8. Still(t, f) = All(Joined({x}, Meanings(t)[k]))
  BY <1>2, <1>3, <1>4, <1>6, Zenon DEF Still
<1> QED
  BY <1>7, <1>8, Zenon DEF Begun

Dashes(t) == "-" \in In(t, Open(t), Close(t))

CommaAdded(d) == Append(d, ",")

(* The fields of a frame that its loop is about. *)
Loop(f, list, next, last) == f.list = list /\ f.next = next /\ f.last = last

(* It begins with these. *)
LEMMA FrameFields ==
  ASSUME NEW a, NEW list, NEW next, NEW last
  PROVE  Loop(Frame(a, list, next, last), list, next, last)
BY DEF Frame, Loop

(* In an empty list there are no items, and nothing between 1 and 0. *)
LEMMA NothingLeft ==
  /\ Items(<<>>) = {} /\ ListText(<<>>) /\ {Fmt(n) : n \in 1 .. 0} = {}
  /\ 1 <= 0 => 1 >= 0 /\ 0 < IntMax
<1>1. Items(<<>>) = {}
  BY DEF Items, Starts
<1>2. ListText(<<>>)
  <2>1. PICK l : l = <<>>
    OBVIOUS
  <2>2. ASSUME NEW j \in 1 .. Len(l) PROVE FALSE
    BY <2>1
  <2> QED BY <2>1, <2>2, Zenon DEF ListText
<1>3. {Fmt(n) : n \in 1 .. 0} = {}
  OBVIOUS
<1>4. 1 <= 0 => 1 >= 0 /\ 0 < IntMax
  OBVIOUS
<1> QED
  BY <1>1, <1>2, <1>3, <1>4, Zenon

(* A list is begun. *)
LEMMA ListPushed ==
  ASSUME NEW t \in Text, WellFormed(t), NEW x, NEW k, NEW a \in Text, NEW q, NEW o,
         Pushed(t, x, k, a, q, o), Between(t, Closing(t, o) + 1),
         Commas(a),
         NEW f, f = Frame(a, CommaAdded(SubSeq(a, Open(a) + 1, Close(a) - 1)), 1, 0)
  PROVE  Begun(t, x, k, f)
<1>1. PICK d \in Text : d = Inner(t, o) /\ Seen(a, q, d, Onward(t, Closing(t, o) + 1))
  BY Zenon DEF Pushed
<1>2. /\ HasRange(a) /\ ~ScanError(a) /\ IsList(d)
      /\ SubSeq(a, Open(a) + 1, Close(a) - 1) = d
  BY <1>1, Zenon DEF Seen, Commas
<1>3. PICK list : list = CommaAdded(d)
  OBVIOUS
<1>4. f = Frame(a, list, 1, 0)
  BY <1>2, <1>3, Zenon
<1>5. ListText(list)
  <2>1. ListText(CommaAdded(SubSeq(a, Open(a) + 1, Close(a) - 1)))
    BY <1>2, ListPlain, Zenon DEF CommaAdded
  <2> QED BY <1>2, <1>3, <2>1, Zenon
<1>6. Left(f) = Choices(d)
  <2>1. f.list = list /\ f.next = 1 /\ f.last = 0
    <3>1. Loop(Frame(a, list, 1, 0), list, 1, 0)
      BY FrameFields
    <3>2. Loop(f, list, 1, 0)
      BY <1>4, <3>1, Zenon
    <3> QED BY <3>2, Zenon DEF Loop
  <2>2. Items(list) = Choices(d)
    BY <1>2, <1>3, ListChoices, Zenon DEF CommaAdded
  <2>3. PICK N : N = {Fmt(n) : n \in 1 .. 0}
    OBVIOUS
  <2>4. N = {}
    BY <2>3, NothingLeft, Zenon
  <2>5. Left(f) = Choices(d) \cup N
    BY <2>1, <2>2, <2>3, Zenon DEF Left
  <2>6. Choices(d) \cup N = Choices(d)
    BY <2>4, Zenon
  <2> QED BY <2>5, <2>6, Zenon
<1>7. Left(f) = Choices(Inner(t, o))
  BY <1>1, <1>6, Zenon
<1> QED
  BY <1>4, <1>5, <1>7, NothingLeft, PushedStill, Zenon

(* A range is, and not refused. *)
LEMMA RangePushed ==
  ASSUME NEW t \in Text, WellFormed(t), NEW x, NEW k, NEW a \in Text, NEW q, NEW o,
         Pushed(t, x, k, a, q, o), Between(t, Closing(t, o) + 1),
         Dashes(a),
         NEW r \in Ranges(a, Open(a) + 1, Close(a)),
         NEW f, f = Frame(a, <<>>, r.next, r.last)
  PROVE  ~Refused(r) /\ Begun(t, x, k, f)
<1>1. PICK d \in Text : d = Inner(t, o) /\ Seen(a, q, d, Onward(t, Closing(t, o) + 1))
  BY Zenon DEF Pushed
<1>2. IsRange(d) /\ ReadAs(RangeOf(a, Open(a) + 1, Close(a)), d)
  BY <1>1, Zenon DEF Seen, Dashes
<1>3. r = RangeOf(a, Open(a) + 1, Close(a))
  <2>1. Ranges(a, Open(a) + 1, Close(a)) = {RangeOf(a, Open(a) + 1, Close(a))}
    BY RangesIs, Zenon
  <2>2. \A z \in Ranges(a, Open(a) + 1, Close(a)) : z = RangeOf(a, Open(a) + 1, Close(a))
    BY <2>1
  <2> QED BY <2>2, Zenon
<1>4. ~Refused(r) /\ r.next = Value(From(d)) /\ r.last = Value(To(d))
  BY <1>2, <1>3, Zenon DEF ReadAs
<1>5. PICK u \in Nat, v \in Nat : u = Value(From(d)) /\ v = Value(To(d)) /\ v < IntMax
  BY <1>2, RangeIs
<1>6. f = Frame(a, <<>>, u, v)
  BY <1>4, <1>5, Zenon
<1>7. Left(f) = Choices(d)
  <2>1. f.list = <<>> /\ f.next = u /\ f.last = v
    <3>1. Loop(Frame(a, <<>>, u, v), <<>>, u, v)
      BY FrameFields
    <3>2. Loop(f, <<>>, u, v)
      BY <1>6, <3>1, Zenon
    <3> QED BY <3>2, Zenon DEF Loop
  <2>2. Items(<<>>) = {}
    BY NothingLeft, Zenon
  <2>3. Left(f) = Items(<<>>) \cup {Fmt(n) : n \in u .. v}
    BY <2>1, Zenon DEF Left
  <2>4. Choices(d) = {Fmt(n) : n \in u .. v}
    BY <1>2, <1>5, Zenon DEF Choices
  <2>5. PICK N : N = {Fmt(n) : n \in u .. v}
    OBVIOUS
  <2>6. Left(f) = {} \cup N /\ Choices(d) = N
    BY <2>2, <2>3, <2>4, <2>5, Zenon
  <2> QED BY <2>6
<1>8. Left(f) = Choices(Inner(t, o))
  BY <1>1, <1>7, Zenon
<1>9. u <= v => u >= 0 /\ v < IntMax
  BY <1>5
<1>10. ListText(<<>>)
  BY NothingLeft, Zenon
<1>11. Begun(t, x, k, f)
  BY <1>6, <1>8, <1>9, <1>10, PushedStill, Zenon
<1> QED
  BY <1>4, <1>11

(* One of the texts to put in is taken from a frame. *)
LEMMA StillPart ==
  ASSUME NEW t \in Text, WellFormed(t), NEW f \in FrameRec, NEW g \in FrameRec, Sound(t, f),
         g.prefix = f.prefix, g.post = f.post, NEW item \in Text, Left(f) = {item} \cup Left(g),
         NEW k, k = Place(t, f.post)
  PROVE  Still(t, f) = All(Joined({f.prefix \o item}, Meanings(t)[k])) \cup Still(t, g)
<1>1. PICK p \in Text : p = f.prefix /\ p = g.prefix
  BY DEF FrameRec
<1>2. PICK L : L = Left(g)
  OBVIOUS
<1>3. PICK M : M = Meanings(t)[k]
  OBVIOUS
<1>4. PICK I : I = {item}
  OBVIOUS
<1>5. Joined({p}, I \cup L) = Joined({p}, I) \cup Joined({p}, L)
  BY JoinedRight
<1>6. Joined({p}, I) = {p \o item}
  <2>1. {} \in SUBSET Text
    OBVIOUS
  <2> QED BY <1>4, <2>1, JoinedSingle
<1>7. PICK A, B : A = {p \o item} /\ B = Joined({p}, L)
  OBVIOUS
<1>8. Joined(A \cup B, M) = Joined(A, M) \cup Joined(B, M)
  BY JoinedUnion
<1>9. All(Joined(A, M) \cup Joined(B, M)) = All(Joined(A, M)) \cup All(Joined(B, M))
  BY AllOfTwo
<1>10. Still(t, f) = All(Joined(Joined({p}, I \cup L), M))
  BY <1>1, <1>2, <1>3, <1>4, Zenon DEF Still
<1>11. Still(t, g) = All(Joined(B, M))
  BY <1>1, <1>2, <1>3, <1>7, Zenon DEF Still
<1>12. Still(t, f) = All(Joined(A \cup B, M))
  BY <1>5, <1>6, <1>7, <1>10, Zenon
<1>13. Still(t, f) = All(Joined(A, M)) \cup All(Joined(B, M))
  BY <1>8, <1>9, <1>12, Zenon
<1>14. A = {f.prefix \o item}
  BY <1>1, <1>7, Zenon
<1> QED
  BY <1>3, <1>11, <1>13, <1>14, Zenon

-----------------------------------------------------------------------------
(* The stack: no entry is lost, and none made that the line does not mean.  *)

(* All frames of a stack, and all but the innermost. *)
SoundAll(t, s) == \A i \in 1 .. Len(s) : Sound(t, s[i])

Lower(t, s) == UNION {Still(t, s[i]) : i \in 1 .. Len(s) - 1}

(* The innermost frame and the others. *)
LEMMA AwaitedParts ==
  ASSUME NEW t, NEW s \in Seq(FrameRec), s # <<>>
  PROVE  Awaited(t, s) = Lower(t, s) \cup Still(t, s[Len(s)])
<1>1. PICK n \in Nat : n = Len(s) /\ n # 0
  BY EmptySeq
<1>2. ASSUME NEW e PROVE e \in Awaited(t, s) <=> e \in Lower(t, s) \/ e \in Still(t, s[n])
  <2>1. e \in Awaited(t, s) <=> \E i \in 1 .. n : e \in Still(t, s[i])
    BY <1>1, Zenon DEF Awaited
  <2>2. e \in Lower(t, s) <=> \E i \in 1 .. n - 1 : e \in Still(t, s[i])
    BY <1>1, Zenon DEF Lower
  <2>3. \A i : i \in 1 .. n <=> i \in 1 .. n - 1 \/ i = n
    BY <1>1
  <2> QED BY <2>1, <2>2, <2>3, Zenon
<1> QED
  BY <1>1, <1>2, Zenon

(* Two stacks with the same lower frames. *)
LEMMA LowerSame ==
  ASSUME NEW t, NEW s, NEW z, Len(s) = Len(z), \A i \in 1 .. Len(s) - 1 : s[i] = z[i]
  PROVE  Lower(t, s) = Lower(t, z)
<1>1. ASSUME NEW e PROVE e \in Lower(t, s) <=> e \in Lower(t, z)
  <2>1. e \in Lower(t, s) <=> \E i \in 1 .. Len(s) - 1 : e \in Still(t, s[i])
    BY Zenon DEF Lower
  <2>2. e \in Lower(t, z) <=> \E i \in 1 .. Len(s) - 1 : e \in Still(t, z[i])
    BY Zenon DEF Lower
  <2> QED BY <2>1, <2>2, Zenon
<1> QED
  BY <1>1, Zenon

(* Another innermost frame. *)
LEMMA OtherTop ==
  ASSUME NEW t, NEW s \in Seq(FrameRec), s # <<>>, SoundAll(t, s), NEW g \in FrameRec,
         Sound(t, g), NEW z, z = [s EXCEPT ![Len(s)] = g]
  PROVE  SoundAll(t, z) /\ Awaited(t, z) = Lower(t, s) \cup Still(t, g)
<1>1. PICK n \in Nat : n = Len(s) /\ n # 0
  BY EmptySeq
<1>2. /\ z \in Seq(FrameRec) /\ Len(z) = n /\ \A i \in 1 .. n : z[i] = IF i = n THEN g ELSE s[i]
  <2>1. n \in 1 .. Len(s) /\ z = [s EXCEPT ![n] = g]
    BY <1>1
  <2> QED BY <1>1, <2>1, ExceptSeq
<1>3. SoundAll(t, z)
  BY <1>1, <1>2, Zenon DEF SoundAll
<1>4. Lower(t, s) = Lower(t, z)
  <2>1. ASSUME NEW i \in 1 .. Len(s) - 1 PROVE s[i] = z[i]
    <3>1. i \in 1 .. n /\ i # n
      BY <1>1
    <3> QED BY <1>2, <3>1, Zenon
  <2>2. Len(s) = Len(z)
    BY <1>1, <1>2
  <2> QED BY <2>1, <2>2, LowerSame
<1>5. Awaited(t, z) = Lower(t, z) \cup Still(t, z[Len(z)])
  <2>1. z # <<>>
    BY <1>1, <1>2
  <2> QED BY <1>2, <2>1, AwaitedParts
<1>6. z[Len(z)] = g
  <2>1. n \in 1 .. n
    BY <1>1
  <2> QED BY <1>2, <2>1, Zenon
<1> QED
  BY <1>3, <1>4, <1>5, <1>6, Zenon

(* One frame more, and one less. *)
LEMMA FrameMore ==
  ASSUME NEW t, NEW s \in Seq(FrameRec), SoundAll(t, s), NEW g \in FrameRec, Sound(t, g)
  PROVE  /\ SoundAll(t, Append(s, g))
         /\ Awaited(t, Append(s, g)) = Awaited(t, s) \cup Still(t, g)
<1>1. PICK n \in Nat : n = Len(s)
  OBVIOUS
<1>2. PICK z \in Seq(FrameRec) : z = Append(s, g)
  <2>1. Append(s, g) \in Seq(FrameRec)
    BY AppendProperties
  <2> QED BY <2>1
<1>3. Len(z) = n + 1 /\ (\A i \in 1 .. n : z[i] = s[i]) /\ z[n + 1] = g
  BY <1>1, <1>2, AppendProperties
<1>4. \A i : i \in 1 .. n + 1 <=> i \in 1 .. n \/ i = n + 1
  BY <1>1
<1>5. SoundAll(t, z)
  BY <1>1, <1>3, <1>4, Zenon DEF SoundAll
<1>6. ASSUME NEW e PROVE e \in Awaited(t, z) <=> e \in Awaited(t, s) \/ e \in Still(t, g)
  <2>1. e \in Awaited(t, z) <=> \E i \in 1 .. n + 1 : e \in Still(t, z[i])
    BY <1>3, Zenon DEF Awaited
  <2>2. e \in Awaited(t, s) <=> \E i \in 1 .. n : e \in Still(t, s[i])
    BY <1>1, Zenon DEF Awaited
  <2> QED BY <1>3, <1>4, <2>1, <2>2, Zenon
<1> QED
  BY <1>2, <1>5, <1>6, Zenon

(* One less. *)
LEMMA FrameLess ==
  ASSUME NEW t, NEW s \in Seq(FrameRec), s # <<>>, SoundAll(t, s)
  PROVE  /\ SoundAll(t, SubSeq(s, 1, Len(s) - 1))
         /\ Awaited(t, SubSeq(s, 1, Len(s) - 1)) = Lower(t, s)
<1>1. PICK n \in Nat : n + 1 = Len(s)
  <2>1. PICK m \in Nat : m = Len(s) /\ m # 0
    BY EmptySeq
  <2>2. m - 1 \in Nat /\ m - 1 + 1 = m
    BY <2>1
  <2> QED BY <2>1, <2>2
<1>2. 1 \in Int /\ n \in Int /\ \A i \in 1 .. n : s[i] \in FrameRec
  BY <1>1
<1>3. PICK z : z = SubSeq(s, 1, n)
  OBVIOUS
<1>4. /\ Len(z) = IF 1 <= n THEN n - 1 + 1 ELSE 0
      /\ \A i \in 1 .. n - 1 + 1 : z[i] = s[1 + i - 1]
  BY <1>2, <1>3, SubSeqProperties
<1>5. Len(z) = n
  BY <1>4
<1>6. ASSUME NEW i \in 1 .. n PROVE z[i] = s[i] /\ i \in 1 .. Len(s)
  <2>1. i \in 1 .. n - 1 + 1 /\ 1 + i - 1 = i /\ i \in 1 .. Len(s)
    BY <1>1
  <2> QED BY <1>4, <2>1, Zenon
<1>7. SoundAll(t, z)
  BY <1>5, <1>6, Zenon DEF SoundAll
<1>8. Len(s) - 1 = n
  BY <1>1
<1>9. ASSUME NEW e PROVE e \in Awaited(t, z) <=> e \in Lower(t, s)
  <2>1. e \in Awaited(t, z) <=> \E i \in 1 .. n : e \in Still(t, z[i])
    BY <1>5, Zenon DEF Awaited
  <2>2. e \in Lower(t, s) <=> \E i \in 1 .. n : e \in Still(t, s[i])
    BY <1>8, Zenon DEF Lower
  <2> QED BY <1>6, <2>1, <2>2, Zenon
<1> QED
  BY <1>3, <1>7, <1>8, <1>9, Zenon

(* A line that is well-formed and has no separators before its last braces  *)
(* is never refused.  At each moment the entries p made so far, those of    *)
(* the call that is due and those that the frames have still to make are    *)
(* the ones that the line stands for.                                       *)
Regular(t) == WellFormed(t) /\ ~Separated(t)

Called(x, k, t, s, a, p) ==
  /\ Clear(x) /\ Between(t, k) /\ a = x \o Onward(t, k)
  /\ s # <<>> => \E w \in Text : a = s[Len(s)].prefix \o w
  /\ Stated(t) = (p \cup Awaited(t, s)) \cup All(Joined({x}, Meanings(t)[k]))

ExactAt(t, s, a, p, now) ==
  Regular(t) /\ now # "idle" =>
    /\ now # "error" /\ SoundAll(t, s)
    /\ now = "call" => \E x \in Text, k \in Nat : Called(x, k, t, s, a, p)
    /\ now # "call" => Stated(t) = p \cup Awaited(t, s)
    /\ now = "done" => s = <<>>

Exact == ExactAt(line, stack, arg, parsed, state)

(* The beginning: the line itself is expanded. *)
LEMMA StartExact ==
  ASSUME NEW t \in Text
  PROVE  ExactAt(t, <<>>, t, {}, "call")
<1> SUFFICES ASSUME Regular(t)
             PROVE  SoundAll(t, <<>>) /\ Called(<<>>, 1, t, <<>>, t, {})
  <2>1. <<>> \in Text /\ 1 \in Nat
    BY DEF Text
  <2> QED BY <2>1, Zenon DEF ExactAt
<1>0. PICK s : s = <<>>
  OBVIOUS
<1>1. s \in Text /\ Len(s) = 0 /\ (\A j : j \notin 1 .. Len(s))
  <2>1. s \in Text /\ Len(s) = 0
    BY <1>0 DEF Text
  <2> QED BY <2>1
<1>2. SoundAll(t, s) /\ Clear(s) /\ Awaited(t, s) = {}
  BY <1>1, Zenon DEF SoundAll, Clear, Awaited
<1>3. Between(t, 1)
  <2>1. PICK m \in Nat : m = Stop(t) /\ m >= 1
    <3>1. Len(t) \in Nat
      BY DEF Text
    <3>2. Stop(t) \in 1 .. Len(t) + 1
      BY WellFormedIs DEF Regular
    <3> QED BY <3>1, <3>2
  <2>2. 1 \in 1 .. m /\ \A o \in 1 .. 1 - 1 : FALSE
    BY <2>1
  <2> QED BY <2>1, <2>2, Zenon DEF Between
<1>4. t = s \o Onward(t, 1)
  <2>1. Onward(t, 1) = t
    BY SubSeqFull DEF Text, Onward
  <2>2. <<>> \o t = t
    BY ConcatEmptySeq DEF Text
  <2> QED BY <1>0, <2>1, <2>2, Zenon
<1>5. Joined({s}, Meanings(t)[1]) = Meanings(t)[1]
  <2>1. Meanings(t)[1] \in SUBSET Text
    BY <1>3, PlaceTexts DEF Regular
  <2> QED BY <1>0, <1>1, <2>1, JoinedSingle
<1>6. Stated(t) = ({} \cup Awaited(t, s)) \cup All(Joined({s}, Meanings(t)[1]))
  <2>1. Stated(t) = All(Meanings(t)[1])
    BY StatedIs
  <2> QED BY <1>2, <1>5, <2>1
<1>7. Called(s, 1, t, s, t, {})
  BY <1>0, <1>2, <1>3, <1>4, <1>6, Zenon DEF Called
<1> QED
  BY <1>0, <1>2, <1>7, Zenon

(* Braces are found: the new frame takes over what the call stood for. *)
LEMMA PushExact ==
  ASSUME NEW t, Regular(t), NEW s \in Seq(FrameRec), SoundAll(t, s), NEW a, NEW p,
         NEW x, NEW k, Called(x, k, t, s, a, p), NEW f \in FrameRec, Begun(t, x, k, f)
  PROVE  ExactAt(t, Append(s, f), a, p, "iterate")
<1>1. PICK A : A = All(Joined({x}, Meanings(t)[k]))
  OBVIOUS
<1>2. Stated(t) = (p \cup Awaited(t, s)) \cup A
  BY <1>1, Zenon DEF Called
<1>3. Sound(t, f) /\ Still(t, f) = A
  BY <1>1, Zenon DEF Begun
<1>4. SoundAll(t, Append(s, f)) /\ Awaited(t, Append(s, f)) = Awaited(t, s) \cup A
  BY <1>3, FrameMore
<1>5. Stated(t) = p \cup Awaited(t, Append(s, f))
  <2>1. PICK B : B = Awaited(t, s)
    OBVIOUS
  <2>2. (p \cup B) \cup A = p \cup (B \cup A)
    OBVIOUS
  <2> QED BY <1>2, <1>4, <2>1, <2>2, Zenon
<1>6. "iterate" # "error" /\ "iterate" # "call" /\ "iterate" # "done"
  OBVIOUS
<1> QED
  BY <1>4, <1>5, <1>6, Zenon DEF ExactAt

(* A text is put in: it is taken from what the frame has left. *)
LEMMA TakenExact ==
  ASSUME NEW t \in Text, Regular(t), NEW s \in Seq(FrameRec), s # <<>>, SoundAll(t, s), NEW p,
         Stated(t) = p \cup Awaited(t, s), NEW f \in FrameRec, f = s[Len(s)],
         NEW g \in FrameRec, Sound(t, g), g.prefix = f.prefix, g.post = f.post,
         NEW item \in Text, Clear(f.prefix \o item), Left(f) = {item} \cup Left(g)
  PROVE  ExactAt(t, [s EXCEPT ![Len(s)] = g], (f.prefix \o item) \o f.post, p, "call")
<1>1. PICK z : z = [s EXCEPT ![Len(s)] = g]
  OBVIOUS
<1>2. PICK q \in Text, w \in Text : q = f.prefix /\ w = f.post
  BY DEF FrameRec
<1>3. PICK x : x = q \o item
  OBVIOUS
<1>4. PICK k : k = Place(t, f.post)
  OBVIOUS
<1>5. PICK a : a = x \o w
  OBVIOUS
<1>6. PICK n \in Nat : n = Len(s) /\ n # 0 /\ n \in 1 .. n
  <2>1. Len(s) \in Nat /\ Len(s) # 0
    BY EmptySeq
  <2> QED BY <2>1
<1>7. Sound(t, f)
  BY <1>6, Zenon DEF SoundAll
<1>8. SoundAll(t, z) /\ Awaited(t, z) = Lower(t, s) \cup Still(t, g)
  BY <1>1, OtherTop
<1>9. z # <<>> /\ z[Len(z)] = g
  <2>1. Len(z) = n /\ z[n] = g
    <3>1. z = [s EXCEPT ![n] = g] /\ n \in 1 .. Len(s)
      BY <1>1, <1>6
    <3>2. Len(z) = Len(s) /\ \A j \in 1 .. Len(s) : z[j] = IF j = n THEN g ELSE s[j]
      BY <3>1, ExceptSeq
    <3> QED BY <1>6, <3>1, <3>2
  <2>2. Len(<<>>) # n
    BY <1>6
  <2> QED BY <2>1, <2>2, Zenon
<1>10. Between(t, k) /\ a = x \o Onward(t, k)
  BY <1>2, <1>4, <1>5, <1>7, Zenon DEF Sound
<1>11. WellFormed(t)
  BY DEF Regular
<1>12. k \in Nat
  BY <1>10, <1>11, PlaceTexts
<1>13. \E v \in Text : a = z[Len(z)].prefix \o v
  <2>1. item \o w \in Text
    BY Behind
  <2>2. (q \o item) \o w = q \o (item \o w)
    BY ThreeTexts
  <2> QED BY <1>2, <1>3, <1>5, <1>9, <2>1, <2>2, Zenon
<1>14. PICK A : A = All(Joined({x}, Meanings(t)[k]))
  OBVIOUS
<1>15. Still(t, f) = A \cup Still(t, g)
  <2>1. Still(t, f) = All(Joined({f.prefix \o item}, Meanings(t)[k])) \cup Still(t, g)
    BY <1>4, <1>7, <1>11, StillPart, ZenonT(60)
  <2> QED BY <1>2, <1>3, <1>14, <2>1, Zenon
<1>16. Awaited(t, s) = Lower(t, s) \cup Still(t, f)
  BY AwaitedParts
<1>17. Stated(t) = (p \cup Awaited(t, z)) \cup A
  <2>1. PICK B, C, D : B = Lower(t, s) /\ C = Still(t, f) /\ D = Still(t, g)
    OBVIOUS
  <2>2. Stated(t) = p \cup (B \cup (A \cup D)) /\ Awaited(t, z) = B \cup D
    BY <1>8, <1>15, <1>16, <2>1, Zenon
  <2>3. p \cup (B \cup (A \cup D)) = (p \cup (B \cup D)) \cup A
    OBVIOUS
  <2> QED BY <2>2, <2>3, Zenon
<1>18. x \in Text /\ Clear(x)
  <2>1. q \o item \in Text
    BY Behind
  <2> QED BY <1>2, <1>3, <2>1, Zenon
<1>19. Called(x, k, t, z, a, p)
  BY <1>9, <1>10, <1>13, <1>14, <1>17, <1>18, Zenon DEF Called
<1>20. "call" # "error" /\ "call" # "done"
  OBVIOUS
<1>21. ExactAt(t, z, a, p, "call")
  BY <1>8, <1>12, <1>18, <1>19, <1>20, Zenon DEF ExactAt
<1> QED
  BY <1>1, <1>2, <1>3, <1>5, <1>21, Zenon

(* A loop ends: its frame had nothing left. *)
LEMMA ReturnExact ==
  ASSUME NEW t, NEW s \in Seq(FrameRec), s # <<>>, SoundAll(t, s), NEW p,
         Stated(t) = p \cup Awaited(t, s), Left(s[Len(s)]) = {}, NEW a, NEW now,
         now \in {"done", "iterate"}, now = "done" => Len(s) = 1
  PROVE  ExactAt(t, SubSeq(s, 1, Len(s) - 1), a, p, now)
<1>1. PICK f : f = s[Len(s)]
  OBVIOUS
<1>2. Still(t, f) = {}
  <2>1. Joined({f.prefix}, {}) = {} /\ Joined({}, Meanings(t)[Place(t, f.post)]) = {}
    BY JoinedUnion
  <2>2. All({}) = {}
    BY AllOfTwo
  <2> QED BY <1>1, <2>1, <2>2, Zenon DEF Still
<1>3. Awaited(t, s) = Lower(t, s) \cup Still(t, s[Len(s)])
  BY AwaitedParts
<1>4. PICK z : z = SubSeq(s, 1, Len(s) - 1)
  OBVIOUS
<1>5. SoundAll(t, z) /\ Awaited(t, z) = Lower(t, s)
  BY <1>4, FrameLess
<1>6. Stated(t) = p \cup Awaited(t, z)
  <2>1. PICK B : B = Lower(t, s)
    OBVIOUS
  <2>2. Awaited(t, s) = B \cup {}
    BY <1>1, <1>2, <1>3, <2>1, Zenon
  <2>3. B \cup {} = B
    OBVIOUS
  <2> QED BY <1>5, <2>1, <2>2, <2>3, Zenon
<1>7. now = "done" => z = <<>>
  <2> SUFFICES ASSUME now = "done" PROVE z = <<>>
    OBVIOUS
  <2>1. z = SubSeq(s, 1, 0)
    <3>1. 1 - 1 = 0
      OBVIOUS
    <3> QED BY <1>4, <3>1, Zenon
  <2> QED BY <2>1, SubSeqEmpty
<1>8. now # "error" /\ now # "call"
  OBVIOUS
<1>9. ExactAt(t, z, a, p, now)
  BY <1>5, <1>6, <1>7, <1>8, Zenon DEF ExactAt
<1> QED
  BY <1>4, <1>9, Zenon

(* A frame with which nothing changes. *)
Rewritten(f, u) == [f EXCEPT !.prefix = u]

Kept(t, f, g) == g \in FrameRec /\ Sound(t, g) /\ Still(t, g) = Still(t, f)

(* A frame whose first part has been overwritten, but is parsed as before. *)
LEMMA StillAgain ==
  ASSUME NEW t \in Text, WellFormed(t), NEW f \in FrameRec, Sound(t, f), NEW u \in Text, Again(u, f.prefix),
         NEW g, g = [f EXCEPT !.prefix = u]
  PROVE  Kept(t, f, g)
<1>0. Clear(u) /\ \A z \in Text : Entries(u \o z) = Entries(f.prefix \o z)
  BY Zenon DEF Again
<1>1. g \in FrameRec
  BY DEF FrameRec
<1>2. /\ g.prefix = u /\ g.list = f.list /\ g.next = f.next /\ g.last = f.last
      /\ g.post = f.post
  BY DEF FrameRec
<1>3. Sound(t, g)
  BY <1>0, <1>2, Zenon DEF Sound
<1>4. PICK q \in Text : q = f.prefix
  BY DEF FrameRec
<1>5. PICK L \in SUBSET Text : L = Left(f) /\ L = Left(g)
  <2>1. Left(f) \in SUBSET Text
    BY LeftTexts
  <2>2. Left(g) = Left(f)
    BY <1>2, Zenon DEF Left
  <2> QED BY <2>1, <2>2
<1>6. PICK M \in SUBSET Text : M = Meanings(t)[Place(t, f.post)]
  <2>1. Between(t, Place(t, f.post))
    BY Zenon DEF Sound
  <2> QED BY <2>1, PlaceTexts
<1>7. PICK D \in SUBSET Text : D = Joined(L, M)
  BY JoinedTexts
<1>8. Joined(Joined({u}, L), M) = Joined({u}, D) /\ Joined(Joined({q}, L), M) = Joined({q}, D)
  <2>1. {u} \in SUBSET Text /\ {q} \in SUBSET Text
    OBVIOUS
  <2> QED BY <1>7, <2>1, JoinedAgain
<1>9. All(Joined({u}, D)) = All(Joined({q}, D))
  BY <1>0, <1>4, AllBehind
<1>10. /\ Still(t, g) = All(Joined(Joined({u}, L), M))
       /\ Still(t, f) = All(Joined(Joined({q}, L), M))
  BY <1>2, <1>4, <1>5, <1>6, Zenon DEF Still
<1>11. Still(t, g) = Still(t, f)
  BY <1>8, <1>9, <1>10, Zenon
<1> QED
  BY <1>1, <1>3, <1>11, Zenon DEF Kept

(* So it is when parseLine has worked in its buffer. *)
LEMMA TopAgain ==
  ASSUME NEW t \in Text, WellFormed(t), NEW f \in FrameRec, Sound(t, f), NEW q \in Text, q = f.prefix,
         NEW w \in Text, NEW r \in BlackList_parseLine(q \o w),
         NEW u, u = SubSeq(Overwritten(q \o w, r), 1, Len(q))
  PROVE  Kept(t, f, Rewritten(f, u))
<1>1. Clear(q)
  BY Zenon DEF Sound
<1>2. Again(u, q)
  BY <1>1, OverwritingIsHarmless
<1>3. u \in Text /\ Again(u, f.prefix)
  BY <1>2, Zenon DEF Again
<1>4. PICK g : g = [f EXCEPT !.prefix = u]
  OBVIOUS
<1>5. Kept(t, f, g)
  BY <1>3, <1>4, StillAgain
<1> QED
  BY <1>4, <1>5, Zenon DEF Rewritten

(* A line without braces is parsed, in the buffer of the innermost frame. *)
LEMMA LeafExact ==
  ASSUME NEW t \in Text, Regular(t), NEW s \in Seq(FrameRec), SoundAll(t, s), NEW a, NEW p,
         NEW x, NEW k, Called(x, k, t, s, a, p), Joined({x}, Meanings(t)[k]) = {a},
         NEW r \in BlackList_parseLine(a), s # <<>>, NEW g \in FrameRec, Sound(t, g),
         Still(t, g) = Still(t, s[Len(s)])
  PROVE  ExactAt(t, [s EXCEPT ![Len(s)] = g], a, p \cup EntryOf(r), "iterate")
<1>10. PICK z : z = [s EXCEPT ![Len(s)] = g]
  OBVIOUS
<1>11. SoundAll(t, z) /\ Awaited(t, z) = Lower(t, s) \cup Still(t, g)
  BY <1>10, OtherTop
<1>12. Awaited(t, z) = Awaited(t, s)
  <2>1. Awaited(t, s) = Lower(t, s) \cup Still(t, s[Len(s)])
    BY AwaitedParts
  <2> QED BY <1>11, <2>1, Zenon
<1>13. Stated(t) = (p \cup EntryOf(r)) \cup Awaited(t, z)
  <2>1. All({a}) = Entries(a)
    BY AllOfTwo
  <2>2. Entries(a) = EntryOf(r)
    BY EntriesAre
  <2>3. PICK B, E : B = Awaited(t, s) /\ E = EntryOf(r)
    OBVIOUS
  <2>4. Stated(t) = (p \cup B) \cup E
    BY <2>1, <2>2, <2>3, Zenon DEF Called
  <2>5. (p \cup B) \cup E = (p \cup E) \cup B
    OBVIOUS
  <2> QED BY <1>12, <2>3, <2>4, <2>5, Zenon
<1>14. "iterate" # "error" /\ "iterate" # "call" /\ "iterate" # "done"
  OBVIOUS
<1>15. ExactAt(t, z, a, p \cup EntryOf(r), "iterate")
  BY <1>11, <1>13, <1>14, Zenon DEF ExactAt
<1> QED
  BY <1>10, <1>15, Zenon

(* The line itself has no braces. *)
LEMMA OnlyLeafExact ==
  ASSUME NEW t, Regular(t), NEW a, NEW p, SoundAll(t, <<>>),
         NEW x, NEW k, Called(x, k, t, <<>>, a, p), Joined({x}, Meanings(t)[k]) = {a},
         NEW r \in BlackList_parseLine(a)
  PROVE  ExactAt(t, <<>>, a, p \cup EntryOf(r), "done")
<1>1. PICK s : s = <<>>
  OBVIOUS
<1>2. Stated(t) = (p \cup EntryOf(r)) \cup Awaited(t, s)
  <2>1. All({a}) = Entries(a)
    BY AllOfTwo
  <2>2. Entries(a) = EntryOf(r)
    BY EntriesAre
  <2>3. PICK B, E : B = Awaited(t, s) /\ E = EntryOf(r)
    OBVIOUS
  <2>4. Stated(t) = (p \cup B) \cup E
    BY <1>1, <2>1, <2>2, <2>3, Zenon DEF Called
  <2>5. (p \cup B) \cup E = (p \cup E) \cup B
    OBVIOUS
  <2> QED BY <2>3, <2>4, <2>5, Zenon
<1>3. "done" # "error" /\ "done" # "call"
  OBVIOUS
<1> QED
  BY <1>1, <1>2, <1>3, Zenon DEF ExactAt

(* What a call finds. *)
Finds(x, k, t, a) ==
  \/ ~HasRange(a) /\ ~ScanError(a) /\ Joined({x}, Meanings(t)[k]) = {a}
  \/ \E o \in Nat : \E q : Between(t, Closing(t, o) + 1) /\ Pushed(t, x, k, a, q, o)

(* A call finds something, and knows what it stands for. *)
LEMMA CallExact ==
  ASSUME NEW t \in Text, Regular(t), NEW s, NEW a, NEW p, ExactAt(t, s, a, p, "call")
  PROVE  /\ SoundAll(t, s)
         /\ \E x \in Text, k \in Nat : Called(x, k, t, s, a, p) /\ Finds(x, k, t, a)
<1>0. "call" # "idle"
  OBVIOUS
<1>1. SoundAll(t, s) /\ \E x \in Text, k \in Nat : Called(x, k, t, s, a, p)
  BY <1>0, Zenon DEF ExactAt
<1>2. PICK x \in Text, k \in Nat : Called(x, k, t, s, a, p)
  BY <1>1
<1>3. Clear(x) /\ Between(t, k) /\ a = x \o Onward(t, k)
  BY <1>2, Zenon DEF Called
<1>4. WellFormed(t) /\ ~Separated(t)
  BY Zenon DEF Regular
<1>5. Finds(x, k, t, a)
  BY <1>3, <1>4, CallSees DEF Finds
<1> QED
  BY <1>1, <1>2, <1>5

(* The line stays, or nothing is claimed of it. *)
LEMMA OtherLine ==
  ASSUME line' = line, Regular(line) => Exact'
  PROVE  Exact'
BY DEF Exact, ExactAt

(* A regular line is never refused. *)
LEMMA ErrorExact == Frames /\ Exact /\ ExpandError => Exact'
<1> SUFFICES ASSUME Frames, Exact, ExpandError, Regular(line) PROVE FALSE
  BY OtherLine DEF ExpandError, Error
<1>1. line \in Text /\ ExactAt(line, stack, arg, parsed, "call") /\ ScanError(arg)
  BY DEF Frames, Exact, ExpandError
<1>2. PICK x \in Text, k \in Nat : Finds(x, k, line, arg)
  BY <1>1, CallExact
<1> QED
  BY <1>1, <1>2, Zenon DEF Finds, Pushed, Seen

(* A list is begun. *)
LEMMA ListExact == Frames /\ Exact /\ ExpandList => Exact'
<1> SUFFICES ASSUME Frames, Exact, ExpandList, Regular(line) PROVE Exact'
  BY OtherLine DEF ExpandList, Push
<1>1. line \in Text /\ arg \in Text /\ stack \in Seq(FrameRec)
      /\ ExactAt(line, stack, arg, parsed, "call") /\ ~ScanError(arg) /\ HasRange(arg)
  BY DEF Frames, Stacked, Exact, ExpandList
<1>2. PICK x \in Text, k \in Nat : Called(x, k, line, stack, arg, parsed) /\ Finds(x, k, line, arg)
  BY <1>1, CallExact
<1>3. SoundAll(line, stack)
  BY <1>1, CallExact
<1>4. PICK o \in Nat : \E q : Between(line, Closing(line, o) + 1) /\ Pushed(line, x, k, arg, q, o)
  BY <1>1, <1>2, Zenon DEF Finds
<1>q. PICK q : Between(line, Closing(line, o) + 1) /\ Pushed(line, x, k, arg, q, o)
  BY <1>4
<1>5. PICK list : list = CommaAdded(SubSeq(arg, Open(arg) + 1, Close(arg) - 1))
  OBVIOUS
<1>6. PICK f : f = Frame(arg, list, 1, 0)
  OBVIOUS
<1>7. Commas(arg) /\ stack' = Append(stack, f) /\ state' = "iterate"
      /\ line' = line /\ arg' = arg /\ parsed' = parsed
  BY <1>5, <1>6 DEF ExpandList, Push, Commas, CommaAdded
<1>8. f \in FrameRec
  <2>1. list \in Text
    BY <1>1, <1>5, ListFits DEF CommaAdded
  <2> QED BY <1>1, <1>6, <2>1, FrameParts
<1>9. Begun(line, x, k, f)
  BY <1>1, <1>q, <1>5, <1>6, <1>7, ListPushed DEF Regular
<1>10. ExactAt(line, Append(stack, f), arg, parsed, "iterate")
  BY <1>1, <1>2, <1>3, <1>8, <1>9, PushExact
<1> QED
  BY <1>7, <1>10, Zenon DEF Exact

(* A range is begun. *)
LEMMA RangeExact == Frames /\ Exact /\ ExpandRange => Exact'
<1> SUFFICES ASSUME Frames, Exact, ExpandRange, Regular(line) PROVE Exact'
  BY OtherLine DEF ExpandRange, Push, Error
<1>1. line \in Text /\ arg \in Text /\ stack \in Seq(FrameRec)
      /\ ExactAt(line, stack, arg, parsed, "call") /\ ~ScanError(arg) /\ HasRange(arg)
  BY DEF Frames, Stacked, Exact, ExpandRange
<1>2. PICK x \in Text, k \in Nat : Called(x, k, line, stack, arg, parsed) /\ Finds(x, k, line, arg)
  BY <1>1, CallExact
<1>3. SoundAll(line, stack)
  BY <1>1, CallExact
<1>4. PICK o \in Nat : \E q : Between(line, Closing(line, o) + 1) /\ Pushed(line, x, k, arg, q, o)
  BY <1>1, <1>2, Zenon DEF Finds
<1>q. PICK q : Between(line, Closing(line, o) + 1) /\ Pushed(line, x, k, arg, q, o)
  BY <1>4
<1>5. PICK r \in Ranges(arg, Open(arg) + 1, Close(arg)) :
        \/ Refused(r) /\ Error
        \/ ~Refused(r) /\ Push(Frame(arg, <<>>, r.next, r.last))
  BY DEF ExpandRange
<1>6. PICK f : f = Frame(arg, <<>>, r.next, r.last)
  OBVIOUS
<1>7. Dashes(arg)
  BY DEF ExpandRange, Dashes
<1>8. ~Refused(r) /\ Begun(line, x, k, f)
  BY <1>1, <1>q, <1>6, <1>7, RangePushed DEF Regular
<1>9. /\ stack' = Append(stack, f) /\ state' = "iterate"
      /\ line' = line /\ arg' = arg /\ parsed' = parsed
  BY <1>5, <1>6, <1>8 DEF Push
<1>10. f \in FrameRec
  <2>1. r.next \in Int /\ r.last \in Int
    BY <1>1, <1>8, RangeFits
  <2>2. <<>> \in Text
    BY DEF Text
  <2> QED BY <1>1, <1>6, <2>1, <2>2, FrameParts
<1>11. ExactAt(line, Append(stack, f), arg, parsed, "iterate")
  BY <1>1, <1>2, <1>3, <1>8, <1>10, PushExact
<1> QED
  BY <1>9, <1>11, Zenon DEF Exact

(* A line without braces is parsed. *)
LEMMA ParseExact == Frames /\ Exact /\ Leaf => Exact'
<1> SUFFICES ASSUME Frames, Exact, Leaf, Regular(line) PROVE Exact'
  BY OtherLine DEF Leaf
<1>1. line \in Text /\ arg \in Text /\ stack \in Seq(FrameRec) /\ Stacked
      /\ ExactAt(line, stack, arg, parsed, "call") /\ ~ScanError(arg) /\ ~HasRange(arg)
  BY DEF Frames, Stacked, Exact, Leaf
<1>2. PICK x \in Text, k \in Nat : Called(x, k, line, stack, arg, parsed) /\ Finds(x, k, line, arg)
  BY <1>1, CallExact
<1>3. SoundAll(line, stack)
  BY <1>1, CallExact
<1>4. Joined({x}, Meanings(line)[k]) = {arg}
  BY <1>1, <1>2, Zenon DEF Finds, Pushed, Seen
<1>5. PICK r \in BlackList_parseLine(arg) :
        /\ parsed' = parsed \cup EntryOf(r)
        /\ stack' = IF stack = <<>> THEN stack
                    ELSE [stack EXCEPT ![Len(stack)].prefix =
                            SubSeq(Overwritten(arg, r), 1, Len(@))]
  BY DEF Leaf
<1>6. /\ UNCHANGED <<line, arg>>
      /\ state' = IF stack = <<>> THEN "done" ELSE "iterate"
  BY DEF Leaf
<1>7. CASE stack = <<>>
  <2>1. ExactAt(line, <<>>, arg, parsed \cup EntryOf(r), "done")
    BY <1>1, <1>2, <1>3, <1>4, <1>7, OnlyLeafExact
  <2>2. stack' = <<>> /\ state' = "done" /\ line' = line /\ arg' = arg
    BY <1>5, <1>6, <1>7
  <2> QED BY <1>5, <2>1, <2>2, Zenon DEF Exact
<1>8. CASE stack # <<>>
  <2>1. Top \in FrameRec
    BY <1>1, <1>8, TopIs
  <2>2. PICK q \in Text, w \in Text : q = Top.prefix /\ arg = q \o w
    <3>1. \E w \in Text : arg = Top.prefix \o w
      BY <1>2, <1>8, Zenon DEF Called, Top
    <3>2. Top.prefix \in Text
      BY <2>1 DEF FrameRec
    <3> QED BY <3>1, <3>2
  <2>3. Sound(line, Top)
    <3>1. Len(stack) \in 1 .. Len(stack)
      BY <1>1, <1>8 DEF Stacked
    <3> QED BY <1>3, <3>1, Zenon DEF SoundAll, Top
  <2>4. PICK u : u = SubSeq(Overwritten(q \o w, r), 1, Len(q))
    OBVIOUS
  <2>5. PICK f : f = Top
    OBVIOUS
  <2>6. PICK g : g = Rewritten(f, u) /\ Kept(line, f, g)
    <3>1. f \in FrameRec /\ Sound(line, f) /\ q = f.prefix /\ r \in BlackList_parseLine(q \o w)
      BY <2>1, <2>2, <2>3, <2>5, Zenon
    <3>2. WellFormed(line)
      BY Zenon DEF Regular
    <3>3. Kept(line, f, Rewritten(f, u))
      BY <1>1, <2>4, <3>1, <3>2, TopAgain
    <3> QED BY <3>3
  <2>7. stack' = [stack EXCEPT ![Len(stack)] = g]
    BY <1>5, <1>8, <2>2, <2>4, <2>5, <2>6 DEF Top, Rewritten
  <2>8. g \in FrameRec /\ Sound(line, g) /\ Still(line, g) = Still(line, stack[Len(stack)])
    BY <2>5, <2>6, Zenon DEF Kept, Top
  <2>9. ExactAt(line, [stack EXCEPT ![Len(stack)] = g], arg, parsed \cup EntryOf(r), "iterate")
    BY <1>1, <1>2, <1>3, <1>4, <1>8, <2>8, LeafExact
  <2>10. state' = "iterate" /\ line' = line /\ arg' = arg
    BY <1>6, <1>8
  <2> QED BY <1>5, <2>7, <2>9, <2>10, Zenon DEF Exact
<1> QED
  BY <1>7, <1>8

(* Digits are none of the marks and separators. *)
LEMMA DigitsClear ==
  ASSUME NEW x \in Text, Clear(x), NEW d \in Seq(Digit)
  PROVE  d \in Text /\ Clear(x \o d)
<1>1. d \in Text
  BY SeqMonotonic DEF Text, Char
<1>2. ASSUME NEW j \in 1 .. Len(d) PROVE d[j] \notin Sharp
  <2>1. d[j] \in Digit
    BY ElementOfSeq
  <2>2. \A c \in Digit : c \notin Sharp
    BY LineAssumption DEF Sign, Sharp
  <2> QED BY <2>1, <2>2
<1>3. Without(x, Sharp) /\ Without(d, Sharp)
  BY <1>2, Zenon DEF Without, Clear
<1>4. Without(x \o d, Sharp)
  BY <1>1, <1>3, NeitherPart
<1> QED
  BY <1>1, <1>4, Zenon DEF Without, Clear

(* An item is put in. *)
LEMMA ItemExact == Frames /\ Exact /\ NextItem => Exact'
<1> SUFFICES ASSUME Frames, Exact, NextItem, Regular(line) PROVE Exact'
  BY OtherLine DEF NextItem
<1>1. /\ line \in Text /\ stack \in Seq(FrameRec) /\ Stacked /\ stack # <<>>
      /\ ExactAt(line, stack, arg, parsed, "iterate")
  BY DEF Frames, Stacked, Exact, NextItem
<1>2. SoundAll(line, stack) /\ Stated(line) = parsed \cup Awaited(line, stack)
  <2>1. "iterate" # "idle" /\ "iterate" # "call"
    OBVIOUS
  <2> QED BY <1>1, <2>1, Zenon DEF ExactAt
<1>3. PICK f \in FrameRec : f = Top
  BY <1>1, TopIs
<1>4. f = stack[Len(stack)] /\ Sound(line, f)
  <2>1. Len(stack) \in 1 .. Len(stack)
    BY <1>1 DEF Stacked
  <2> QED BY <1>2, <1>3, <2>1, Zenon DEF SoundAll, Top
<1>5. PICK l \in Text : l = f.list /\ l # <<>>
  BY <1>3 DEF FrameRec, NextItem
<1>6. PICK p : p = Find(l, 1, Comma)
  OBVIOUS
<1>7. /\ arg' = (f.prefix \o SubSeq(l, 1, p - 1)) \o f.post
      /\ stack' = [stack EXCEPT ![Len(stack)].list = SubSeq(@, p + 1, Len(@))]
      /\ state' = "call" /\ line' = line /\ parsed' = parsed
  BY <1>3, <1>5, <1>6 DEF NextItem, Comma
<1>r. PICK rest : rest = SubSeq(l, p + 1, Len(l))
  OBVIOUS
<1>8. PICK item \in Seq(Digit) : item = SubSeq(l, 1, p - 1) /\ ListText(rest)
  <2>1. ListText(l)
    BY <1>4, <1>5, Zenon DEF Sound
  <2> QED BY <1>6, <1>r, <2>1, ListItem DEF Comma
<1>9. rest \in Text /\ Items(l) = {item} \cup Items(rest)
  <2>1. PICK n \in Nat : n = Len(l) /\ End(l) = n + 1 /\ \A i \in 1 .. n : l[i] \in Char
    BY DEF Text, End
  <2>2. First(l, 1, Comma, p)
    <3>1. 1 \in Nat /\ Len(l) \in Nat /\ 1 <= End(l)
      BY <2>1
    <3> QED BY <1>6, <3>1, FindIs
  <2>3. p \in Nat /\ p >= 1
    BY <2>1, <2>2 DEF First
  <2>4. Items(l) = {item} \cup Items(rest)
    BY <1>5, <1>6, <1>8, <1>r, <2>3, ItemsNext
  <2>5. SubSeq(l, p + 1, n) \in Seq(Char)
    <3>1. p + 1 \in Int /\ n \in Int /\ \A i \in p + 1 .. n : l[i] \in Char
      BY <2>1, <2>3
    <3> QED BY <3>1, SubSeqProperties
  <2> QED BY <1>r, <2>1, <2>4, <2>5, Zenon DEF Text
<1>10. PICK g : g = [f EXCEPT !.list = rest]
  OBVIOUS
<1>11. /\ g \in FrameRec /\ g.prefix = f.prefix /\ g.post = f.post /\ g.list = rest
       /\ g.next = f.next /\ g.last = f.last
  BY <1>9, <1>10 DEF FrameRec
<1>12. Sound(line, g)
  BY <1>4, <1>8, <1>11, Zenon DEF Sound
<1>13. Left(f) = {item} \cup Left(g)
  <2>1. PICK N, I : N = {Fmt(n) : n \in f.next .. f.last} /\ I = Items(rest)
    OBVIOUS
  <2>2. Left(g) = I \cup N
    BY <1>11, <2>1, Zenon DEF Left
  <2>3. Left(f) = ({item} \cup I) \cup N
    BY <1>5, <1>9, <2>1, Zenon DEF Left
  <2>4. ({item} \cup I) \cup N = {item} \cup (I \cup N)
    OBVIOUS
  <2> QED BY <2>2, <2>3, <2>4, Zenon
<1>14. item \in Text /\ Clear(f.prefix \o item)
  <2>1. f.prefix \in Text /\ Clear(f.prefix)
    BY <1>4 DEF FrameRec, Sound
  <2> QED BY <1>8, <2>1, DigitsClear
<1>15. ExactAt(line, [stack EXCEPT ![Len(stack)] = g], (f.prefix \o item) \o f.post, parsed, "call")
  BY <1>1, <1>2, <1>4, <1>11, <1>12, <1>13, <1>14, TakenExact
<1>16. stack' = [stack EXCEPT ![Len(stack)] = g]
  BY <1>3, <1>5, <1>7, <1>r, <1>10 DEF Top
<1> QED
  BY <1>7, <1>8, <1>15, <1>16, Zenon DEF Exact

(* A number is put in: none overflows. *)
LEMMA NumberExact == Frames /\ Exact /\ NextNumber => Exact'
<1> SUFFICES ASSUME Frames, Exact, NextNumber, Regular(line) PROVE Exact'
  BY OtherLine DEF NextNumber
<1>1. /\ line \in Text /\ stack \in Seq(FrameRec) /\ Stacked /\ stack # <<>>
      /\ ExactAt(line, stack, arg, parsed, "iterate")
  BY DEF Frames, Stacked, Exact, NextNumber
<1>2. SoundAll(line, stack) /\ Stated(line) = parsed \cup Awaited(line, stack)
  <2>1. "iterate" # "idle" /\ "iterate" # "call"
    OBVIOUS
  <2> QED BY <1>1, <2>1, Zenon DEF ExactAt
<1>3. PICK f \in FrameRec : f = Top
  BY <1>1, TopIs
<1>4. f = stack[Len(stack)] /\ Sound(line, f)
  <2>1. Len(stack) \in 1 .. Len(stack)
    BY <1>1 DEF Stacked
  <2> QED BY <1>2, <1>3, <2>1, Zenon DEF SoundAll, Top
<1>5. PICK n \in Int, m \in Int : n = f.next /\ m = f.last
  BY <1>3 DEF FrameRec
<1>6. n <= m /\ n >= 0 /\ m < IntMax
  BY <1>3, <1>4, <1>5 DEF NextNumber, Sound
<1>7. n # IntMax /\ ToInt(n + 1) = n + 1
  <2>1. n # IntMax /\ -(IntMax + 1) <= n /\ n <= IntMax
    BY <1>6, ExpansionAssumption
  <2> QED BY <2>1, ToIntNext
<1>8. PICK g : g = [f EXCEPT !.next = n + 1]
  OBVIOUS
<1>9. stack' = [stack EXCEPT ![Len(stack)] = g]
  BY <1>3, <1>5, <1>7, <1>8 DEF NextNumber, Top
<1>10. /\ arg' = (f.prefix \o Fmt(n)) \o f.post
       /\ state' = "call" /\ line' = line /\ parsed' = parsed
  BY <1>3, <1>5 DEF NextNumber
<1>11. /\ g \in FrameRec /\ g.prefix = f.prefix /\ g.post = f.post /\ g.list = f.list
       /\ g.next = n + 1 /\ g.last = m
  BY <1>5, <1>8 DEF FrameRec
<1>12. Sound(line, g)
  <2>1. n + 1 <= m => n + 1 >= 0 /\ m < IntMax
    BY <1>6
  <2> QED BY <1>4, <1>11, <2>1, Zenon DEF Sound
<1>13. PICK item : item = Fmt(n)
  OBVIOUS
<1>14. item \in Seq(Digit)
  <2>1. n \in Nat
    BY <1>6
  <2> QED BY <1>6, <1>13, <2>1, NumberTexts DEF Fmt
<1>15. Left(f) = {item} \cup Left(g)
  <2>1. PICK I, M, N : I = Items(f.list) /\ M = {Fmt(i) : i \in n .. m} /\ N = {Fmt(i) : i \in n + 1 .. m}
    OBVIOUS
  <2>2. M = {item} \cup N
    <3>1. \A i : i \in n .. m <=> i = n \/ i \in n + 1 .. m
      BY <1>6
    <3> QED BY <1>13, <2>1, <3>1, Zenon
  <2>3. Left(g) = I \cup N
    BY <1>11, <2>1, Zenon DEF Left
  <2>4. Left(f) = I \cup M
    BY <1>5, <2>1, Zenon DEF Left
  <2>5. I \cup ({item} \cup N) = {item} \cup (I \cup N)
    OBVIOUS
  <2> QED BY <2>2, <2>3, <2>4, <2>5, Zenon
<1>16. item \in Text /\ Clear(f.prefix \o item)
  <2>1. f.prefix \in Text /\ Clear(f.prefix)
    BY <1>4 DEF FrameRec, Sound
  <2> QED BY <1>14, <2>1, DigitsClear
<1>17. ExactAt(line, [stack EXCEPT ![Len(stack)] = g], (f.prefix \o item) \o f.post, parsed, "call")
  BY <1>1, <1>2, <1>4, <1>11, <1>12, <1>15, <1>16, TakenExact
<1> QED
  BY <1>9, <1>10, <1>13, <1>17, Zenon DEF Exact

(* A loop ends. *)
LEMMA LoopExact == Frames /\ Exact /\ Return => Exact'
<1> SUFFICES ASSUME Frames, Exact, Return, Regular(line) PROVE Exact'
  BY OtherLine DEF Return
<1>1. /\ line \in Text /\ stack \in Seq(FrameRec) /\ Stacked /\ stack # <<>>
      /\ ExactAt(line, stack, arg, parsed, "iterate")
  BY DEF Frames, Stacked, Exact, Return
<1>2. SoundAll(line, stack) /\ Stated(line) = parsed \cup Awaited(line, stack)
  <2>1. "iterate" # "idle" /\ "iterate" # "call"
    OBVIOUS
  <2> QED BY <1>1, <2>1, Zenon DEF ExactAt
<1>3. PICK f \in FrameRec : f = Top
  BY <1>1, TopIs
<1>4. Left(f) = {}
  <2>1. PICK n \in Int, m \in Int : n = f.next /\ m = f.last /\ n > m
    BY <1>3 DEF FrameRec, Return
  <2>2. n .. m = {}
    BY <2>1
  <2>3. f.list = <<>>
    BY <1>3 DEF Return
  <2>4. Items(f.list) = {}
    BY <2>3, NothingLeft, Zenon
  <2>5. {Fmt(i) : i \in f.next .. f.last} = {}
    BY <2>1, <2>2, Zenon
  <2>6. Left(f) = {} \cup {}
    BY <2>4, <2>5, Zenon DEF Left
  <2> QED BY <2>6
<1>5. PICK now : now = IF Len(stack) = 1 THEN "done" ELSE "iterate"
  OBVIOUS
<1>6. /\ stack' = SubSeq(stack, 1, Len(stack) - 1) /\ state' = now
      /\ line' = line /\ arg' = arg /\ parsed' = parsed
  BY <1>5 DEF Return, Below
<1>7. now \in {"done", "iterate"} /\ (now = "done" => Len(stack) = 1)
  BY <1>5
<1>8. Left(stack[Len(stack)]) = {}
  BY <1>3, <1>4, Zenon DEF Top
<1>9. ExactAt(line, SubSeq(stack, 1, Len(stack) - 1), arg, parsed, now)
  BY <1>1, <1>2, <1>7, <1>8, ReturnExact
<1> QED
  BY <1>6, <1>9, Zenon DEF Exact

(* The invariant of the expansion: no step loses an entry or makes one of   *)
(* its own.                                                                 *)
LEMMA NextExact == Inv /\ Frames /\ Exact /\ [Next]_vars => Exact'
<1> SUFFICES ASSUME Inv, Frames, Exact, [Next]_vars PROVE Exact'
  OBVIOUS
<1>1. CASE UNCHANGED expvars
  BY <1>1, Zenon DEF Exact, expvars
<1>2. CASE TakeLine /\ Expand(TakenText)
  <2>1. PICK t \in Text : t = TakenText
    BY <1>2, TakenIsText
  <2>2. line' = t /\ arg' = t /\ stack' = <<>> /\ parsed' = {} /\ state' = "call"
    BY <1>2, <2>1 DEF Expand
  <2>3. ExactAt(t, <<>>, t, {}, "call")
    BY StartExact
  <2> QED BY <2>2, <2>3, Zenon DEF Exact
<1>3. CASE ExpandNext
  BY <1>3, ErrorExact, ListExact, RangeExact, ParseExact, ItemExact, NumberExact, LoopExact
     DEF ExpandNext
<1> QED
  BY <1>1, <1>2, <1>3 DEF Next, Buffer, vars

(* "is the same like writing": for all files, widths of numbers and bases,  *)
(* a line with ranges and lists yields the entries of the lines that it     *)
(* stands for, none more and none less, although the expanded lines are     *)
(* made one after the other in the same buffers, parseLine writes into      *)
(* them, and the numbers are read and written by strtol and fmt_uint; and   *)
(* no such line is refused.                                                 *)
THEOREM ExpansionIsExact == Spec => []ExactExpansion
<1>1. Init => Exact
  BY DEF Init, ExpandInit, Exact, ExactAt
<1>2. Exact => ExactExpansion
  <2> SUFFICES ASSUME Exact, Regular(line)
               PROVE  (state = "done" => parsed = Stated(line)) /\ state # "error"
    BY DEF ExactExpansion, Regular
  <2>1. state # "error"
    <3>1. "error" # "idle"
      OBVIOUS
    <3> QED BY <3>1, Zenon DEF Exact, ExactAt
  <2>2. ASSUME state = "done" PROVE parsed = Stated(line)
    <3>1. "done" # "idle" /\ "done" # "call"
      OBVIOUS
    <3>2. stack = <<>> /\ Stated(line) = parsed \cup Awaited(line, stack)
      BY <2>2, <3>1, Zenon DEF Exact, ExactAt
    <3>3. Awaited(line, stack) = {}
      <4>1. Len(stack) = 0
        BY <3>2
      <4>2. \A j : j \notin 1 .. Len(stack)
        BY <4>1
      <4> QED BY <4>2, Zenon DEF Awaited
    <3>4. parsed \cup {} = parsed
      OBVIOUS
    <3> QED BY <3>2, <3>3, <3>4, Zenon
  <2> QED BY <2>1, <2>2
<1> QED
  BY <1>1, <1>2, FramesHold, NextExact, PTL DEF Spec
=============================================================================
