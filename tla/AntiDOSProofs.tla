---------------------------- MODULE AntiDOSProofs ----------------------------
(***************************************************************************)
(* Proofs about the flood protection, for every set of hosts, every value  *)
(* of the parameters that AntiDOSAssumption admits, and every MaxTime.     *)
(***************************************************************************)
EXTENDS AntiDOSRate, FiniteSetTheorems, TLAPS

(* What the clock can still look back on: no time stamp lies in the future. *)
PastOnly ==
  /\ min_time <= now
  /\ \A i \in DOMAIN data : data[i].access_time <= now

SizeOK == IsFiniteSet(DOMAIN data) /\ TableBounded

LeftOK == pc = "gate" => left > 0

IInv == TypeOK /\ LeftOK /\ PastOnly /\ CounterBounded /\ MinTimeCovers /\ SizeOK

-----------------------------------------------------------------------------
(* Integer division by TIME_BASE of a product c * d with 0 <= d <= base     *)
(* yields at most c, and at least c \div base when d > 0.                   *)
LEMMA DivBounds ==
  ASSUME NEW B \in Nat \ {0}, NEW c \in Nat, NEW d \in 0 .. B
  PROVE  /\ (c * d) \div B \in 0 .. c
         /\ d > 0 => c \div B <= (c * d) \div B
<1>1. c * d \in Nat /\ c * d <= c * B
  OBVIOUS
<1>2. \A n \in Nat : /\ n \div B \in Nat
                     /\ B * (n \div B) <= n
                     /\ n < B * (n \div B) + B
  OBVIOUS
<1>3. (c * d) \div B <= c
  <2> DEFINE q == (c * d) \div B
  <2>1. q \in Nat /\ B * q <= c * B
    BY <1>1, <1>2
  <2> HIDE DEF q
  <2>2. q <= c
    <3>1. SUFFICES ASSUME q >= c + 1 PROVE FALSE
      BY <2>1
    <3>2. B * q >= B * (c + 1)
      BY <2>1, <3>1
    <3>3. QED
      BY <2>1, <3>2
  <2>3. QED
    BY <2>2 DEF q
<1>4. ASSUME d > 0 PROVE c \div B <= (c * d) \div B
  <2> DEFINE q == (c * d) \div B
             p == c \div B
  <2>1. /\ q \in Nat /\ p \in Nat /\ B * p <= c /\ c * d < B * q + B
    BY <1>1, <1>2
  <2>2. c <= c * d
    BY <1>4
  <2> HIDE DEF q, p
  <2>3. p <= q
    <3>1. SUFFICES ASSUME p >= q + 1 PROVE FALSE
      BY <2>1
    <3>2. B * p >= B * (q + 1)
      BY <2>1, <3>1
    <3>3. QED
      BY <2>1, <2>2, <3>2
  <2>4. QED
    BY <2>3 DEF q, p
<1>5. QED
  BY <1>1, <1>2, <1>3, <1>4

(* The unsigned arithmetic of AntiDOS_registerIP: with the clock running    *)
(* forward the new counter is the exact integer result and within bounds.   *)
LEMMA AgainCounter ==
  ASSUME NEW e \in Entry, NEW t \in Nat,
         e.counter \in 1 .. COUNT_MAX + 1, e.access_time <= t
  PROVE  /\ Again(e, t) \in Entry
         /\ Again(e, t).access_time = t
         /\ Again(e, t).counter \in 1 .. COUNT_MAX + 1
         /\ e.counter <= COUNT_MAX /\ t - e.access_time <= TIME_BASE =>
              Again(e, t).counter =
                e.counter - ((e.counter * (t - e.access_time)) \div TIME_BASE) + 1
<1> DEFINE delta == t - e.access_time
           c == e.counter
           x == (c * delta) \div TIME_BASE
<1>1. delta \in Nat /\ c \in Nat /\ c >= 1 /\ c <= COUNT_MAX + 1
  BY AntiDOSAssumption DEF Entry
<1>2. /\ Again(e, t).access_time = t
      /\ Again(e, t) = [access_time |-> t, counter |-> Again(e, t).counter]
  BY DEF Again
<1>3. CASE delta > TIME_BASE
  <2>1. Again(e, t).counter = 1
    BY <1>3 DEF Again
  <2>2. QED
    BY <1>1, <1>2, <1>3, <2>1, AntiDOSAssumption DEF Entry
<1>4. CASE delta <= TIME_BASE /\ c <= COUNT_MAX
  <2>1. Decay(c, delta) = x
    BY <1>1 DEF Decay
  <2>2. x \in 0 .. c
    <3>1. TIME_BASE \in Nat \ {0} /\ delta \in 0 .. TIME_BASE
      BY <1>1, <1>4, AntiDOSAssumption
    <3> HIDE DEF delta, c
    <3>2. QED
      BY <1>1, <3>1, DivBounds
  <2>3. Again(e, t).counter = (c - Decay(c, delta) + 1) % UintRange
    BY <1>1, <1>4, AntiDOSAssumption DEF Again
  <2> HIDE DEF x, delta, c
  <2>4. c - x + 1 \in 1 .. COUNT_MAX + 1
    BY <1>1, <1>4, <2>2, AntiDOSAssumption
  <2>5. (c - x + 1) % UintRange = c - x + 1
    BY <2>4, AntiDOSAssumption
  <2>6. Again(e, t).counter = c - x + 1
    BY <2>1, <2>3, <2>5
  <2>7. QED
    BY <1>1, <1>2, <2>4, <2>6 DEF Entry, x, delta, c
<1>5. CASE delta <= TIME_BASE /\ c > COUNT_MAX
  <2>1. Again(e, t).counter \in {COUNT_MAX, c}
    BY <1>1, <1>5, AntiDOSAssumption DEF Again
  <2>2. QED
    BY <1>1, <1>2, <1>5, <2>1, AntiDOSAssumption DEF Entry
<1>6. QED
  BY <1>1, <1>3, <1>4, <1>5, AntiDOSAssumption

-----------------------------------------------------------------------------
(* The empty table of AntiDOS_init satisfies the invariant. *)
LEMMA InitIInv == Init => IInv
<1> SUFFICES ASSUME Init PROVE IInv
  OBVIOUS
<1>1. DOMAIN data = {}
  BY DEF Init
<1>2. IsFiniteSet(DOMAIN data) /\ Cardinality(DOMAIN data) = 0
  BY <1>1, FS_EmptySet
<1>3. SizeOK
  BY <1>2, AntiDOSAssumption DEF SizeOK, TableBounded
<1>4. TypeOK
  BY <1>1, AntiDOSAssumption DEF Init, TypeOK
<1>5. QED
  BY <1>1, <1>3, <1>4, AntiDOSAssumption
     DEF Init, IInv, PastOnly, CounterBounded, MinTimeCovers, LeftOK

(* AntiDOS_update: what is left of the table was in it before, and min_time *)
(* is a lower bound for it.                                                 *)
LEMMA UpdateTable ==
  ASSUME IInv, AntiDOS_update
  PROVE  /\ DOMAIN data' \subseteq DOMAIN data
         /\ \A i \in DOMAIN data' : data'[i] = data[i]
         /\ \A i \in DOMAIN data' : min_time' <= data[i].access_time
         /\ min_time' \in Nat /\ min_time' <= now
         /\ data' \in [DOMAIN data' -> Entry]
<1>1. CASE now - min_time > TIME_BASE
  <2>1. /\ data' = [i \in Kept |-> data[i]]
        /\ min_time' \in MinTimeRange(Fresh)
        /\ \A t \in MinTimeRange(Fresh) : min_time' <= t
    BY <1>1 DEF AntiDOS_update
  <2>2. Kept \subseteq Fresh /\ Fresh \subseteq DOMAIN data
    BY DEF Kept, Fresh
  <2>3. \A i \in DOMAIN data : data[i].access_time \in Nat
    BY DEF IInv, TypeOK, MinTimeCovers, Entry
  <2>4. min_time' \in Nat /\ min_time' <= now
    BY <2>1, <2>2, <2>3 DEF MinTimeRange, IInv, TypeOK
  <2>5. \A i \in Fresh : min_time' <= data[i].access_time
    BY <2>1 DEF MinTimeRange
  <2>6. QED
    BY <2>1, <2>2, <2>4, <2>5 DEF IInv, TypeOK
<1>2. CASE ~(now - min_time > TIME_BASE)
  BY <1>2 DEF AntiDOS_update, IInv, TypeOK, PastOnly, MinTimeCovers
<1>3. QED
  BY <1>1, <1>2

(* AntiDOS_update preserves the invariant, with or without a scan. *)
LEMMA UpdateIInv == IInv /\ Update => IInv'
<1> SUFFICES ASSUME IInv, Update PROVE IInv'
  OBVIOUS
<1>1. /\ AntiDOS_update /\ pc' = "recv"
      /\ UNCHANGED <<now, oversize_sleep, ip, left, wake, answer>>
  BY DEF Update
<1>2. /\ DOMAIN data' \subseteq DOMAIN data
      /\ \A i \in DOMAIN data' : data'[i] = data[i]
      /\ \A i \in DOMAIN data' : min_time' <= data[i].access_time
      /\ min_time' \in Nat /\ min_time' <= now
      /\ data' \in [DOMAIN data' -> Entry]
  BY <1>1, UpdateTable
<1>3. SizeOK'
  <2>1. /\ IsFiniteSet(DOMAIN data')
        /\ Cardinality(DOMAIN data') <= Cardinality(DOMAIN data)
    BY <1>2, FS_Subset DEF IInv, SizeOK
  <2>2. Cardinality(DOMAIN data') \in Nat /\ Cardinality(DOMAIN data) \in Nat
    BY <2>1, FS_CardinalityType DEF IInv, SizeOK
  <2>3. QED
    BY <2>1, <2>2, AntiDOSAssumption DEF IInv, SizeOK, TableBounded
<1>4. TypeOK'
  BY <1>1, <1>2 DEF IInv, TypeOK
<1>5. LeftOK' /\ PastOnly' /\ CounterBounded' /\ MinTimeCovers'
  BY <1>1, <1>2 DEF IInv, PastOnly, CounterBounded, MinTimeCovers, LeftOK
<1>6. QED
  BY <1>3, <1>4, <1>5 DEF IInv

(* What AntiDOS_registerIP stores. *)
LEMMA RegisteredEntry ==
  ASSUME IInv, NEW s \in IP
  PROVE  /\ Registered(s) \in Entry
         /\ Registered(s).access_time = now
         /\ Registered(s).counter \in 1 .. COUNT_MAX + 1
<1>1. CASE s \in DOMAIN data
  <2>1. data[s] \in Entry /\ data[s].counter \in 1 .. COUNT_MAX + 1
        /\ data[s].access_time <= now /\ now \in Nat
    BY <1>1 DEF IInv, TypeOK, CounterBounded, PastOnly
  <2>2. Registered(s) = Again(data[s], now)
    BY <1>1 DEF Registered
  <2>3. QED
    BY <2>1, <2>2, AgainCounter
<1>2. CASE s \notin DOMAIN data
  BY <1>2, AntiDOSAssumption DEF Registered, Entry, IInv, TypeOK
<1>3. QED
  BY <1>1, <1>2

(* So does AntiDOS_registerIP for a request that passed isOversized. *)
LEMMA CountIInv == IInv /\ Count => IInv'
<1> SUFFICES ASSUME IInv, Count PROVE IInv'
  OBVIOUS
<1>1. /\ ~AntiDOS_isOversized /\ AntiDOS_registerIP(ip) /\ oversize_sleep' = 1
      /\ left' = left - 1 /\ pc' = (IF left = 1 THEN "head" ELSE "gate")
      /\ pc = "gate" /\ left > 0
      /\ UNCHANGED <<now, ip, wake>>
  BY DEF Count, IInv, LeftOK
<1>2. ip \in IP /\ now \in Nat
  BY DEF IInv, TypeOK
<1>3. /\ Registered(ip) \in Entry
      /\ Registered(ip).access_time = now
      /\ Registered(ip).counter \in 1 .. COUNT_MAX + 1
  BY <1>2, RegisteredEntry
<1>4. /\ DOMAIN data' = DOMAIN data \cup {ip}
      /\ data'[ip] = Registered(ip)
      /\ \A i \in DOMAIN data : i # ip => data'[i] = data[i]
      /\ min_time' \in {0, min_time}
      /\ data' = [i \in DOMAIN data' |-> data'[i]]
  BY <1>1 DEF AntiDOS_registerIP
<1>5. SizeOK'
  <2>1. IsFiniteSet(DOMAIN data) /\ ~(Cardinality(DOMAIN data) >= ENTRIES_MAX)
    BY <1>1 DEF IInv, SizeOK, AntiDOS_isOversized
  <2>2. Cardinality(DOMAIN data) \in Nat
    BY <2>1, FS_CardinalityType
  <2>3. /\ IsFiniteSet(DOMAIN data \cup {ip})
        /\ \/ Cardinality(DOMAIN data \cup {ip}) = Cardinality(DOMAIN data)
           \/ Cardinality(DOMAIN data \cup {ip}) = Cardinality(DOMAIN data) + 1
    BY <2>1, FS_AddElement
  <2>4. QED
    BY <1>4, <2>1, <2>2, <2>3, AntiDOSAssumption DEF SizeOK, TableBounded
<1>6. TypeOK'
  <2>1. answer' \in {"dos", "sent"}
    BY DEF Count
  <2>2. data' \in [DOMAIN data' -> Entry] /\ DOMAIN data' \subseteq IP
    BY <1>2, <1>3, <1>4 DEF IInv, TypeOK
  <2>3. min_time' \in Nat
    BY <1>4 DEF IInv, TypeOK
  <2>4. QED
    BY <1>1, <1>2, <2>1, <2>2, <2>3, AntiDOSAssumption DEF IInv, TypeOK
<1>7. LeftOK'
  BY <1>1 DEF LeftOK, IInv, TypeOK
<1>8. PastOnly'
  BY <1>1, <1>2, <1>3, <1>4 DEF IInv, PastOnly, TypeOK
<1>9. CounterBounded'
  BY <1>3, <1>4 DEF IInv, CounterBounded
<1>10. MinTimeCovers'
  <2>1. min_time' \in Nat /\ min_time' <= min_time /\ min_time <= now
    BY <1>4 DEF IInv, TypeOK, PastOnly
  <2>2. \A i \in DOMAIN data' : data'[i].access_time = now
                                \/ (i \in DOMAIN data /\ data'[i] = data[i])
    BY <1>3, <1>4
  <2>3. \A i \in DOMAIN data : data[i].access_time \in Int
    BY DEF IInv, TypeOK, Entry
  <2>4. QED
    BY <1>2, <2>1, <2>2, <2>3 DEF IInv, MinTimeCovers, TypeOK
<1>11. QED
  BY <1>5, <1>6, <1>7, <1>8, <1>9, <1>10 DEF IInv

(* Steps that leave the table alone while time does not run backwards. *)
LEMMA TableUntouched ==
  ASSUME IInv, UNCHANGED <<data, min_time>>, now' \in Nat, now <= now',
         TypeOK', LeftOK'
  PROVE  IInv'
<1>1. PastOnly'
  BY DEF IInv, PastOnly, TypeOK, Entry
<1>2. CounterBounded' /\ MinTimeCovers' /\ SizeOK'
  BY DEF IInv, CounterBounded, MinTimeCovers, SizeOK, TableBounded
<1>3. QED
  BY <1>1, <1>2 DEF IInv

(* Every step of the main loop preserves the invariant. *)
LEMMA NextIInv == IInv /\ [Next]_vars => IInv'
<1> SUFFICES ASSUME IInv, [Next]_vars PROVE IInv'
  OBVIOUS
<1>1. CASE Update
  BY <1>1, UpdateIInv
<1>2. CASE \E s \in IP, n \in 0 .. 2 : Receive(s, n)
  <2>1. TypeOK' /\ LeftOK'
    BY <1>2 DEF Receive, IInv, TypeOK, LeftOK
  <2>2. QED
    BY <1>2, <2>1, TableUntouched DEF Receive, IInv, TypeOK
<1>3. CASE Oversize
  <2>1. TypeOK' /\ LeftOK'
    BY <1>3, AntiDOSAssumption DEF Oversize, IInv, TypeOK, LeftOK
  <2>2. QED
    BY <1>3, <2>1, TableUntouched DEF Oversize, IInv, TypeOK
<1>4. CASE Awake
  <2>1. TypeOK' /\ LeftOK'
    BY <1>4 DEF Awake, IInv, TypeOK, LeftOK
  <2>2. QED
    BY <1>4, <2>1, TableUntouched DEF Awake, IInv, TypeOK
<1>5. CASE Count
  BY <1>5, CountIInv
<1>6. CASE Tick
  <2>1. TypeOK' /\ LeftOK'
    BY <1>6 DEF Tick, IInv, TypeOK, LeftOK
  <2>2. QED
    BY <1>6, <2>1, TableUntouched DEF Tick, IInv, TypeOK
<1>7. CASE UNCHANGED vars
  <2>1. TypeOK' /\ LeftOK'
    BY <1>7 DEF vars, IInv, TypeOK, LeftOK
  <2>2. QED
    BY <1>7, <2>1, TableUntouched DEF vars, IInv, TypeOK
<1>8. QED
  BY <1>1, <1>2, <1>3, <1>4, <1>5, <1>6, <1>7 DEF Next

(* The inductive invariant of antidos.c as the main loop drives it. *)
THEOREM AntiDOSInvariant == Spec => []IInv
BY InitIInv, NextIInv, PTL DEF Spec

(* The state keeps its shape; only hosts have entries in the table. *)
THEOREM AntiDOSTypeCorrect == Spec => []TypeOK
<1>1. IInv => TypeOK
  BY DEF IInv
<1>2. QED
  BY <1>1, AntiDOSInvariant, PTL

(* The DOS measurement never leaves 1 .. ANTIDOS_COUNT_MAX + 1: the         *)
(* subtraction in AntiDOS_registerIP cannot underflow and the unsigned      *)
(* counter cannot overflow as long as the clock is not set back.            *)
THEOREM CounterStaysBounded == Spec => []CounterBounded
<1>1. IInv => CounterBounded
  BY DEF IInv
<1>2. QED
  BY <1>1, AntiDOSInvariant, PTL

(* The shortcut of AntiDOS_update is sound: min_time is a lower bound of    *)
(* the access times however registrations and updates interleave.           *)
THEOREM MinTimeStaysLowerBound == Spec => []MinTimeCovers
<1>1. IInv => MinTimeCovers
  BY DEF IInv
<1>2. QED
  BY <1>1, AntiDOSInvariant, PTL

(* The table of antidos.c holds at most ANTIDOS_ENTRIES_MAX entries. *)
THEOREM TableStaysBounded == Spec => []TableBounded
<1>1. IInv => TableBounded
  BY DEF IInv, SizeOK
<1>2. QED
  BY <1>1, AntiDOSInvariant, PTL

(* AntiDOS_update removes every stale entry, also when it skips the scan,   *)
(* and keeps every other one but that of the tombstone address.             *)
THEOREM UpdateStaysExact == Spec => UpdateIsExact
<1> DEFINE Exact ==
      /\ \A i \in DOMAIN data' : ~(now - data'[i].access_time > TIME_BASE)
      /\ \A i \in DOMAIN data \ {Tombstone} :
           ~(now - data[i].access_time > TIME_BASE) =>
             i \in DOMAIN data' /\ data'[i] = data[i]
<1>1. IInv /\ Update => Exact
  <2> SUFFICES ASSUME IInv, Update PROVE Exact
    OBVIOUS
  <2>1. AntiDOS_update
    BY DEF Update
  <2>2. CASE now - min_time > TIME_BASE
    <3>1. data' = [i \in Kept |-> data[i]]
      BY <2>1, <2>2 DEF AntiDOS_update
    <3>2. Kept \subseteq Fresh /\ Fresh \ {Tombstone} \subseteq Kept
      BY DEF Kept
    <3>3. QED
      BY <3>1, <3>2 DEF Fresh, Stale
  <2>3. CASE ~(now - min_time > TIME_BASE)
    <3>1. data' = data
      BY <2>1, <2>3 DEF AntiDOS_update
    <3>2. \A i \in DOMAIN data : data[i].access_time \in Int
                                /\ min_time <= data[i].access_time
      BY DEF IInv, TypeOK, MinTimeCovers, Entry
    <3>3. QED
      BY <2>3, <3>1, <3>2, AntiDOSAssumption DEF IInv, TypeOK
  <2>4. QED
    BY <2>2, <2>3
<1>2. IInv /\ [Next]_vars => [Update => Exact]_vars
  BY <1>1
<1>3. QED
  BY <1>2, AntiDOSInvariant, PTL DEF Spec, UpdateIsExact

-----------------------------------------------------------------------------
(***************************************************************************)
(* The polite host.  Limit is the largest measurement it can have; at the  *)
(* start of a second the rounded share that registerIP subtracts makes     *)
(* room for the Rate requests of that second.                              *)
(***************************************************************************)
Limit == (Rate + 1) * TIME_BASE - 1

PoliteMeasure ==
  Polite \in DOMAIN data =>
    data[Polite].counter <=
      IF data[Polite].access_time = now THEN Limit - Rate + burst ELSE Limit

PoliteBurst ==
  /\ burst \in 0 .. Rate
  /\ pc \in {"gate", "sleep"} /\ ip = Polite => burst + left <= Rate

RInv == IInv /\ PoliteMeasure /\ PoliteBurst /\ PoliteIsAnswered

(* The bound of the polite host is a number that the cap does not reach. *)
LEMMA LimitType ==
  Limit \in Nat /\ Limit >= Rate /\ Limit <= COUNT_LOW /\ Limit < COUNT_MAX
<1>1. (Rate + 1) * TIME_BASE >= (Rate + 1) * 1
  BY RateAssumption, AntiDOSAssumption
<1>2. (Rate + 1) * TIME_BASE \in Nat
  BY RateAssumption, AntiDOSAssumption
<1>3. QED
  BY <1>1, <1>2, RateAssumption, AntiDOSAssumption DEF Limit

(* At the bound, even the truncated share of counter*delta/TIME_BASE makes  *)
(* up for a second's worth of requests.                                     *)
LEMMA RoundedShare ==
  ASSUME NEW c \in 0 .. Limit, NEW d \in 1 .. TIME_BASE
  PROVE  c - ((c * d) \div TIME_BASE) <= Limit - Rate
<1> DEFINE q == c \div TIME_BASE
<1>1. TIME_BASE \in Nat \ {0} /\ Rate \in Nat /\ c \in Nat /\ d \in 0 .. TIME_BASE
  BY AntiDOSAssumption, RateAssumption, LimitType
<1>2. q \in Nat /\ TIME_BASE * q <= c /\ c <= TIME_BASE * q + (TIME_BASE - 1)
  BY <1>1
<1>3. q <= (c * d) \div TIME_BASE /\ (c * d) \div TIME_BASE \in Nat
  BY <1>1, DivBounds
<1> HIDE DEF q
<1>4. c <= (Rate + 1) * TIME_BASE - 1
  BY LimitType DEF Limit
<1>5. q <= Rate
  <2>1. SUFFICES ASSUME q >= Rate + 1 PROVE FALSE
    BY <1>1, <1>2
  <2>2. TIME_BASE * q >= TIME_BASE * (Rate + 1)
    BY <1>1, <1>2, <2>1
  <2>3. QED
    BY <1>1, <1>2, <1>4, <2>2
<1>6. (q + 1) * (TIME_BASE - 1) <= (Rate + 1) * (TIME_BASE - 1)
  BY <1>1, <1>2, <1>5
<1>7. c - q <= (q + 1) * (TIME_BASE - 1)
  BY <1>1, <1>2
<1>8. (Rate + 1) * (TIME_BASE - 1) = Limit - Rate
  BY <1>1 DEF Limit
<1>9. c - q <= Limit - Rate
  BY <1>1, <1>2, <1>6, <1>7, <1>8, LimitType
<1>10. QED
  BY <1>1, <1>2, <1>3, <1>9, LimitType

(* One more request of the polite host. *)
LEMMA PoliteRegistered ==
  ASSUME RInv, burst < Rate
  PROVE  Registered(Polite).counter <= Limit - Rate + burst + 1
<1>1. burst \in Nat /\ Rate \in Nat /\ now \in Nat /\ Limit \in Nat
  BY RateAssumption, LimitType DEF RInv, PoliteBurst, IInv, TypeOK
<1>2. CASE Polite \notin DOMAIN data
  <2>1. Registered(Polite).counter = 1
    BY <1>2 DEF Registered
  <2>2. QED
    BY <1>1, <2>1, LimitType
<1>3. CASE Polite \in DOMAIN data
  <2> DEFINE e == data[Polite]
             d == now - e.access_time
  <2>1. /\ e \in Entry /\ e.counter \in 1 .. COUNT_MAX + 1
        /\ e.access_time <= now /\ e.access_time \in Int
    BY <1>3 DEF RInv, IInv, TypeOK, CounterBounded, PastOnly, Entry
  <2>2. Registered(Polite) = Again(e, now)
    BY <1>3 DEF Registered
  <2>3. e.counter <= (IF d = 0 THEN Limit - Rate + burst ELSE Limit)
    BY <1>1, <1>3, <2>1 DEF RInv, PoliteMeasure
  <2>4. d \in Nat /\ e.counter \in 0 .. Limit
    BY <1>1, <2>1, <2>3
  <2>5. CASE d > TIME_BASE
    <3>1. Again(e, now).counter = 1
      BY <2>5 DEF Again
    <3>2. QED
      BY <1>1, <2>2, <3>1, LimitType
  <2>6. CASE d <= TIME_BASE
    <3>1. Again(e, now).counter = e.counter - ((e.counter * d) \div TIME_BASE) + 1
      <4>1. e.counter <= COUNT_MAX
        BY <2>4, LimitType, AntiDOSAssumption
      <4>2. QED
        BY <1>1, <2>1, <2>6, <4>1, AgainCounter
    <3>2. CASE d = 0
      <4>1. (e.counter * d) \div TIME_BASE = 0
        BY <2>4, <3>2, AntiDOSAssumption
      <4>2. QED
        BY <1>1, <2>2, <2>3, <2>4, <3>1, <3>2, <4>1
    <3>3. CASE d # 0
      <4>1. d \in 1 .. TIME_BASE
        BY <2>4, <2>6, <3>3, AntiDOSAssumption
      <4> HIDE DEF e, d
      <4>2. e.counter - ((e.counter * d) \div TIME_BASE) <= Limit - Rate
        BY <2>4, <4>1, RoundedShare
      <4>3. (e.counter * d) \div TIME_BASE \in Nat
        BY <2>4, <4>1, DivBounds, AntiDOSAssumption
      <4>4. QED
        BY <1>1, <2>2, <2>4, <3>1, <4>2, <4>3
    <3>4. QED
      BY <3>2, <3>3
  <2>7. QED
    BY <2>4, <2>5, <2>6, AntiDOSAssumption
<1>4. QED
  BY <1>2, <1>3

(* RateSpec only restricts when the polite host sends. *)
LEMMA RateStep == RateNext => Next
BY DEF RateNext, Next

(* The invariant about the polite host holds at the start ... *)
LEMMA InitRInv == RateInit => RInv
<1> SUFFICES ASSUME RateInit PROVE RInv
  OBVIOUS
<1>1. IInv
  BY InitIInv DEF RateInit
<1>2. PoliteMeasure /\ PoliteBurst /\ PoliteIsAnswered
  BY RateAssumption
     DEF RateInit, Init, PoliteMeasure, PoliteBurst, PoliteIsAnswered
<1>3. QED
  BY <1>1, <1>2 DEF RInv

(* ... and every step preserves it. *)
LEMMA NextRInv == RInv /\ [RateNext]_<<vars, burst>> => RInv'
<1> SUFFICES ASSUME RInv, [RateNext]_<<vars, burst>> PROVE RInv'
  OBVIOUS
<1>1. IInv'
  BY RateStep, NextIInv DEF RInv, vars
<1>2. PoliteMeasure /\ PoliteBurst /\ PoliteIsAnswered /\ IInv
  BY DEF RInv
<1>3. SUFFICES PoliteMeasure' /\ PoliteBurst' /\ PoliteIsAnswered'
  BY <1>1 DEF RInv
<1>4. CASE Update /\ UNCHANGED burst
  <2>1. /\ DOMAIN data' \subseteq DOMAIN data
        /\ \A i \in DOMAIN data' : data'[i] = data[i]
    BY <1>2, <1>4, UpdateTable DEF Update
  <2>2. PoliteMeasure'
    BY <1>2, <1>4, <2>1 DEF PoliteMeasure, Update
  <2>3. PoliteBurst' /\ PoliteIsAnswered'
    BY <1>2, <1>4 DEF PoliteBurst, PoliteIsAnswered, Update
  <2>4. QED
    BY <2>2, <2>3
<1>5. CASE (Oversize \/ Awake) /\ UNCHANGED burst
  <2>1. PoliteMeasure' /\ PoliteIsAnswered'
    BY <1>2, <1>5 DEF Oversize, Awake, PoliteMeasure, PoliteIsAnswered
  <2>2. PoliteBurst'
    BY <1>2, <1>5, RateAssumption
       DEF Oversize, Awake, PoliteBurst, IInv, TypeOK, LeftOK
  <2>3. QED
    BY <2>1, <2>2
<1>6. CASE \E s \in IP, n \in 0 .. 2 :
             /\ Receive(s, n)
             /\ s = Polite => burst + n <= Rate
             /\ UNCHANGED burst
  BY <1>2, <1>6 DEF Receive, PoliteMeasure, PoliteBurst, PoliteIsAnswered
<1>7. CASE Count /\ burst' = IF ip = Polite THEN burst + 1 ELSE burst
  <2>1. /\ AntiDOS_registerIP(ip) /\ left' = left - 1 /\ pc = "gate" /\ left > 0
        /\ UNCHANGED <<now, ip>> /\ left \in 0 .. 2 /\ ip \in IP
    BY <1>2, <1>7 DEF Count, IInv, LeftOK, TypeOK
  <2>2. /\ DOMAIN data' = DOMAIN data \cup {ip}
        /\ data'[ip] = Registered(ip)
        /\ \A i \in DOMAIN data : i # ip => data'[i] = data[i]
    BY <2>1 DEF AntiDOS_registerIP
  <2>3. CASE ip # Polite
    BY <1>2, <1>7, <2>1, <2>2, <2>3
       DEF PoliteMeasure, PoliteBurst, PoliteIsAnswered
  <2>4. CASE ip = Polite
    <3>1. burst < Rate /\ burst \in Nat /\ burst' = burst + 1 /\ Rate \in Nat
      BY <1>2, <1>7, <2>1, <2>4, RateAssumption DEF PoliteBurst
    <3>2. Registered(Polite).counter <= Limit - Rate + burst + 1
      BY <3>1, PoliteRegistered
    <3>3. /\ Registered(Polite).access_time = now
          /\ Registered(Polite).counter \in Nat
      BY <1>2, <2>1, <2>4, RegisteredEntry, AntiDOSAssumption
    <3>4. PoliteMeasure'
      BY <2>1, <2>2, <2>4, <3>1, <3>2, <3>3, LimitType DEF PoliteMeasure, Limit
    <3>5. PoliteBurst'
      BY <1>2, <2>1, <2>4, <3>1 DEF PoliteBurst
    <3>6. PoliteIsAnswered'
      <4>1. Registered(Polite).counter <= COUNT_LOW
        BY <3>1, <3>2, <3>3, LimitType, AntiDOSAssumption
      <4>2. \A r : ~isDOS(Registered(ip).counter, r)
        BY <2>4, <3>3, <4>1, AntiDOSAssumption DEF isDOS
      <4>3. answer' = "sent"
        BY <1>7, <4>2 DEF Count
      <4>4. QED
        BY <4>3 DEF PoliteIsAnswered
    <3>7. QED
      BY <3>4, <3>5, <3>6
  <2>5. QED
    BY <2>3, <2>4
<1>8. CASE Tick /\ burst' = 0
  <2>1. PoliteBurst' /\ PoliteIsAnswered'
    BY <1>2, <1>8, RateAssumption DEF Tick, PoliteBurst, PoliteIsAnswered, IInv, TypeOK
  <2>2. ASSUME Polite \in DOMAIN data
        PROVE  data[Polite].counter <= Limit /\ data[Polite].access_time # now'
    <3>1. /\ data[Polite].access_time \in Int /\ data[Polite].access_time <= now
          /\ now' = now + 1 /\ now \in Nat /\ data[Polite].counter \in Nat
      BY <1>2, <1>8, <2>2 DEF Tick, IInv, TypeOK, PastOnly, Entry
    <3>2. QED
      BY <1>2, <2>2, <3>1, LimitType, RateAssumption DEF PoliteMeasure, PoliteBurst
  <2>3. PoliteMeasure'
    BY <1>8, <2>2 DEF Tick, PoliteMeasure, Limit
  <2>4. QED
    BY <2>1, <2>3
<1>9. CASE UNCHANGED <<vars, burst>>
  BY <1>2, <1>9 DEF vars, PoliteMeasure, PoliteBurst, PoliteIsAnswered
<1>10. QED
  BY <1>4, <1>5, <1>6, <1>7, <1>8, <1>9 DEF RateNext

(* For every TIME_BASE and every Rate: the measurement of a host with at    *)
(* most Rate requests a second stays below (Rate + 1) * TIME_BASE.          *)
THEOREM RateLimitsMeasure == RateSpec => []MeasureFollowsRate
<1>1. RInv => MeasureFollowsRate
  <2> SUFFICES ASSUME RInv, Polite \in DOMAIN data
               PROVE  data[Polite].counter <= Limit
    BY DEF MeasureFollowsRate, Limit
  <2>1. data[Polite].counter \in Nat
    BY DEF RInv, IInv, TypeOK, Entry
  <2>2. QED
    BY <2>1, LimitType, RateAssumption DEF RInv, PoliteMeasure, PoliteBurst
<1>2. QED
  BY <1>1, InitRInv, NextRInv, PTL DEF RateSpec

(* With the limits of parameters.h a host that makes one request a second   *)
(* is always answered: isDOS never takes it for a flooder.                  *)
THEOREM PoliteIsAlwaysAnswered == RateSpec => []PoliteIsAnswered
<1>1. RInv => PoliteIsAnswered
  BY DEF RInv
<1>2. QED
  BY <1>1, InitRInv, NextRInv, PTL DEF RateSpec
=============================================================================
