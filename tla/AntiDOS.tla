------------------------------- MODULE AntiDOS -------------------------------
(***************************************************************************)
(* The flood protection of the daemon: the table of src/src/antidos.c, the *)
(* random verdict isDOS of src/src/ip-sentinel.h, and the way the main     *)
(* loop of src/src/ip-sentinel.c drives them.  The table is cleaned at the *)
(* head of the loop, before the daemon blocks in recvfrom(); a request     *)
(* that concerns an intruder is then counted up to twice, once per         *)
(* direction, always under the sender's IP.                                *)
(*                                                                         *)
(* `data' maps the IPs with an entry to that entry.  Time is absolute, in  *)
(* seconds, and may pass between any two steps.                            *)
(***************************************************************************)
EXTENDS Integers, FiniteSets

CONSTANTS
  IP,          \* sender addresses
  Tombstone,   \* 255.255.255.255, the mark of an entry to be removed
  TIME_BASE, COUNT_LOW, COUNT_HIGH, COUNT_MAX, ENTRIES_MAX,  \* parameters.h
  MaxSleep,    \* upper limit of the oversize sleep (10 in the code)
  UintRange,   \* 2^32, number of values of an unsigned int
  Epoch,       \* time at which the daemon starts
  MaxTime      \* bound of the model: the last second with a request

ASSUME AntiDOSAssumption ==
  /\ TIME_BASE \in Nat \ {0}
  /\ COUNT_LOW \in Nat /\ COUNT_HIGH \in Nat /\ COUNT_LOW < COUNT_HIGH
  /\ COUNT_MAX \in Nat \ {0} /\ COUNT_HIGH <= COUNT_MAX
  /\ ENTRIES_MAX \in Nat \ {0}
  /\ MaxSleep \in Nat \ {0}
  /\ UintRange \in Nat /\ COUNT_MAX + 1 < UintRange
  /\ Epoch \in Nat /\ MaxTime \in Nat

VARIABLES
  now,             \* time(0)
  min_time, data,  \* struct AntiDOS
  oversize_sleep,  \* local variable of run()
  pc,              \* head, recv, gate (generateJob...) or sleep
  ip,              \* sender of the request in `buffer'
  left,            \* directions still to be handled for this request
  wake,            \* when the current sleep() ends
  answer           \* what happened to the last direction handled

vars == <<now, min_time, data, oversize_sleep, pc, ip, left, wake, answer>>

Entry == [access_time : Int, counter : Nat]

-----------------------------------------------------------------------------
(* counter*delta/ANTIDOS_TIME_BASE, truncated towards zero as in C; delta   *)
(* is negative after the clock was set back.                                *)
Decay(c, delta) ==
  IF delta >= 0 THEN (c * delta) \div TIME_BASE
  ELSE -((c * (-delta)) \div TIME_BASE)

(* Plausible mistakes: no upper limit, and no restart after a long pause. *)
FaultAgainNoCap(e, t) == [access_time |-> t, counter |-> e.counter + 1]

FaultAgainNoReset(e, t) ==
  [access_time |-> t,
   counter |-> (e.counter - Decay(e.counter, t - e.access_time) + 1) % UintRange]

(* AntiDOS_registerIP: the entry e of an IP that asks again at time t. *)
Again(e, t) ==
  LET delta == t - e.access_time
      c     == e.counter
  IN  [access_time |-> t,
       counter |->
         IF delta > TIME_BASE THEN 1
         ELSE IF c <= COUNT_MAX THEN (c - Decay(c, delta) + 1) % UintRange
         ELSE IF delta > 1 THEN COUNT_MAX
         ELSE c]

(* The entry that AntiDOS_registerIP stores for s at the present time. *)
Registered(s) ==
  IF s \in DOMAIN data THEN Again(data[s], now)
  ELSE [access_time |-> now, counter |-> 1]

AntiDOS_registerIP(s) ==
  /\ data' = [i \in DOMAIN data \cup {s} |->
                IF i = s THEN Registered(s) ELSE data[i]]
  /\ min_time' = IF s \in DOMAIN data /\ now - data[s].access_time > TIME_BASE
                 THEN 0 ELSE min_time

(* A plausible mistake: one entry too many is accepted. *)
FaultOversized == Cardinality(DOMAIN data) > ENTRIES_MAX

AntiDOS_isOversized == Cardinality(DOMAIN data) >= ENTRIES_MAX

(* A plausible mistake: the times swapped. *)
FaultStaleSwapped(t, t0) == t0 - t > TIME_BASE

Stale(t, t0) == t - t0 > TIME_BASE

(* The scan keeps the entries that are not stale.  Stale ones are renamed   *)
(* to the tombstone, sorted to the end and popped; a true entry of the      *)
(* tombstone address goes with them.                                        *)
Fresh == {i \in DOMAIN data : ~Stale(now, data[i].access_time)}

Kept == IF Fresh = DOMAIN data THEN Fresh ELSE Fresh \ {Tombstone}

(* A plausible mistake: the scan counts as up to date. *)
FaultMinTimeRange(fresh) == {now}

(* min_time becomes the least access time the scan met, at most `now'. *)
MinTimeRange(fresh) == {now} \cup {data[i].access_time : i \in fresh}

AntiDOS_update ==
  IF now - min_time > TIME_BASE
  THEN /\ data' = [i \in Kept |-> data[i]]
       /\ min_time' \in MinTimeRange(Fresh)
       /\ \A t \in MinTimeRange(Fresh) : min_time' <= t
  ELSE UNCHANGED <<data, min_time>>

(* isDOS with the value r of rand()%(HIGH-LOW). *)
isDOS(count, r) ==
  \/ count > COUNT_LOW /\ count <= COUNT_HIGH /\ r >= COUNT_HIGH - count
  \/ count > COUNT_HIGH

-----------------------------------------------------------------------------
Init ==
  /\ now = Epoch
  /\ min_time = 0
  /\ data = [i \in {} |-> 0]
  /\ oversize_sleep = 1
  /\ pc = "head"
  /\ ip \in IP
  /\ left = 0
  /\ wake = 0
  /\ answer = "none"

(* The head of the loop in run(). *)
Update ==
  /\ pc = "head"
  /\ AntiDOS_update
  /\ pc' = "recv"
  /\ UNCHANGED <<now, oversize_sleep, ip, left, wake, answer>>

(* recvfrom() returns.  n directions of the packet concern an intruder;     *)
(* errors and packets that are no ARP request are the case n = 0.           *)
Receive(s, n) ==
  /\ pc = "recv"
  /\ n > 0 => now <= MaxTime
  /\ ip' = s
  /\ left' = n
  /\ pc' = IF n = 0 THEN "head" ELSE "gate"
  /\ answer' = "none"
  /\ UNCHANGED <<now, min_time, data, oversize_sleep, wake>>

(* generateJobToIntruder or generateJobFromIntruder with a full table. *)
Oversize ==
  /\ pc = "gate"
  /\ AntiDOS_isOversized
  /\ wake' = now + oversize_sleep
  /\ oversize_sleep' = IF oversize_sleep + 1 <= MaxSleep
                       THEN oversize_sleep + 1 ELSE MaxSleep
  /\ left' = left - 1
  /\ pc' = "sleep"
  /\ answer' = "oversized"
  /\ UNCHANGED <<now, min_time, data, ip>>

Awake ==
  /\ pc = "sleep"
  /\ now >= wake
  /\ pc' = IF left = 0 THEN "head" ELSE "gate"
  /\ UNCHANGED <<now, min_time, data, oversize_sleep, ip, left, wake, answer>>

(* The same two functions with room in the table: the request is counted,   *)
(* and answered unless it is taken for a flood.                             *)
Count ==
  /\ pc = "gate"
  /\ ~AntiDOS_isOversized
  /\ oversize_sleep' = 1
  /\ AntiDOS_registerIP(ip)
  /\ \E r \in 0 .. COUNT_HIGH - COUNT_LOW - 1 :
       answer' = IF isDOS(Registered(ip).counter, r) THEN "dos" ELSE "sent"
  /\ left' = left - 1
  /\ pc' = IF left = 1 THEN "head" ELSE "gate"
  /\ UNCHANGED <<now, ip, wake>>

(* A second passes.  Beyond MaxTime only a sleep that has begun goes on. *)
Tick ==
  /\ now < MaxTime \/ (pc = "sleep" /\ now < wake)
  /\ now' = now + 1
  /\ UNCHANGED <<min_time, data, oversize_sleep, pc, ip, left, wake, answer>>

Next ==
  \/ Update
  \/ \E s \in IP, n \in 0 .. 2 : Receive(s, n)
  \/ Oversize
  \/ Awake
  \/ Count
  \/ Tick

Spec == Init /\ [][Next]_vars

(* Steps of the daemon are never put off for ever, time passes, and packets *)
(* keep coming in: the loop cleans the table only after recvfrom() returns. *)
Fairness ==
  /\ WF_vars(Update \/ Oversize \/ Awake \/ Count)
  /\ WF_vars(\E s \in IP, n \in 0 .. 2 : Receive(s, n))
  /\ WF_vars(Tick)

FairSpec == Spec /\ Fairness

-----------------------------------------------------------------------------
(* The shape of the state; the oversize sleep stays within its limits. *)
TypeOK ==
  /\ now \in Nat
  /\ min_time \in Nat
  /\ DOMAIN data \subseteq IP
  /\ data \in [DOMAIN data -> Entry]
  /\ oversize_sleep \in 1 .. MaxSleep
  /\ pc \in {"head", "recv", "gate", "sleep"}
  /\ ip \in IP
  /\ left \in 0 .. 2
  /\ wake \in Nat
  /\ answer \in {"none", "oversized", "dos", "sent"}

(* The measurement of every IP is positive and at most one above            *)
(* ANTIDOS_COUNT_MAX: the subtraction in AntiDOS_registerIP never           *)
(* underflows and the cap keeps the unsigned counter from overflowing.      *)
CounterBounded == \A i \in DOMAIN data : data[i].counter \in 1 .. COUNT_MAX + 1

(* No entry was last used before min_time, so that AntiDOS_update may skip  *)
(* the scan while min_time is recent; registerIP has to keep this up.       *)
MinTimeCovers == \A i \in DOMAIN data : min_time <= data[i].access_time

(* The number of entries never exceeds ANTIDOS_ENTRIES_MAX: isOversized is  *)
(* asked before each of the two registrations a packet may cause.           *)
TableBounded == Cardinality(DOMAIN data) <= ENTRIES_MAX

(* AntiDOS_update leaves no entry unused for more than ANTIDOS_TIME_BASE    *)
(* seconds, scanned or not, and forgets nothing else except the tombstone   *)
(* address.                                                                 *)
UpdateIsExact ==
  [][Update =>
       /\ \A i \in DOMAIN data' : ~(now - data'[i].access_time > TIME_BASE)
       /\ \A i \in DOMAIN data \ {Tombstone} :
            ~(now - data[i].access_time > TIME_BASE) =>
              i \in DOMAIN data' /\ data'[i] = data[i]]_vars

(* A full table empties again, however the packets come: requests refused   *)
(* because of it do not refresh its entries.  (Stated for the instants that *)
(* leave TIME_BASE + 1 seconds before the end of modelled time.)            *)
OversizeClears ==
  AntiDOS_isOversized /\ now + TIME_BASE < MaxTime ~> ~AntiDOS_isOversized
=============================================================================
