------------------------------- MODULE Worker -------------------------------
(***************************************************************************)
(* The worker process of src/src/worker.c.  It reads requests from the     *)
(* pipe that the main process writes, answers each at once, and repeats    *)
(* the answer (and the poisoning of the intruder's address) later from a   *)
(* priority queue ordered by time.  It sleeps inside its loop after        *)
(* failures and when the queue is long, so time goes on between the        *)
(* moment a clock value is taken and the moment it is used.                *)
(*                                                                         *)
(* The queue is the heap of PrioHeap with the code's comparison.           *)
(***************************************************************************)
EXTENDS Integers, Sequences, FiniteSets

CONSTANTS
  Request,       \* requests: [type, mac, poison_mac, spa, sha, tpa]
  NoMac,         \* poison_mac of a request without one
  BCAST_MAC,     \* ff:ff:ff:ff:ff:ff
  RandomMac,     \* what Util_setRandomMac produces
  ZeroIP,        \* 0.0.0.0
  LLMac,         \* --llmac: "SAME", "RANDOM" or a fixed address
  DoPoison,      \* --poison
  Delay1, Delay2, Delay3,    \* 2, 5 and 60 seconds
  MAX_REQUESTS, MAX_ERRORS,  \* parameters.h
  PipeSize,      \* requests the pipe holds before write() blocks
  MaxTime        \* bound of the model: the last second of idle waiting

ASSUME WorkerAssumption ==
  /\ \A r \in Request : r.type \in {"SRC", "DST"}
  /\ DoPoison \in BOOLEAN
  /\ Delay1 \in Nat /\ Delay2 \in Nat /\ Delay3 \in Nat
  /\ MAX_REQUESTS \in Nat /\ MAX_ERRORS \in Nat
  /\ PipeSize \in Nat \ {0} /\ MaxTime \in Nat

VARIABLES
  now,       \* time(0)
  pipe,      \* requests written and not yet read
  eof,       \* the main process is gone
  queue,     \* jobqueue, an array with domain 0 .. count-1
  pc,        \* where the worker is
  sleeping,  \* it is in sleep(1), until the next second
  timeout,   \* seconds select() still waits (0 outside select())
  taken,     \* the clock value the present phase works with (0 if none)
  todo,      \* the jobs Worker_scheduleNewJob has still to insert
  send_errors, read_errors, error_count,  \* the three error counters
  arrived,   \* history: requests the main process has written
  attempts,  \* history: sendto() calls made for each request
  excess     \* history: requests that came when MAX_REQUESTS jobs were queued

vars == <<now, pipe, eof, queue, pc, sleeping, timeout, taken, todo,
          send_errors, read_errors, error_count, arrived, attempts, excess>>

(* Worker_jobCompare: the earlier job is the larger one. *)
Key(j) == -j.schedule_time

Heap == INSTANCE PrioHeap WITH Key <- Key

count == Heap!Size(queue)

-----------------------------------------------------------------------------
(* Worker_fillPacket: link-level source and destination, the ARP reply and  *)
(* the address of the socket call.                                          *)
SourceMac(rq) ==
  IF rq.type = "DST" THEN rq.mac
  ELSE CASE LLMac = "SAME" -> rq.mac
         [] LLMac = "RANDOM" -> RandomMac
         [] OTHER -> LLMac

DestMac(rq) == IF rq.type = "DST" THEN BCAST_MAC ELSE rq.sha

Worker_fillPacket(rq) ==
  [shost |-> SourceMac(rq), dhost |-> DestMac(rq),
   sha |-> rq.mac, spa |-> rq.tpa, tha |-> rq.sha, tpa |-> rq.spa,
   sock |-> DestMac(rq)]

(* A plausible mistake: the claimed address is left as it was. *)
FaultPoisonJob(msg, rq) ==
  [msg EXCEPT !.dhost = BCAST_MAC, !.tha = BCAST_MAC, !.tpa = ZeroIP]

(* Worker_poisonJob overwrites parts of a filled message. *)
Worker_poisonJob(msg, rq) ==
  [msg EXCEPT !.dhost = BCAST_MAC,
              !.sha = IF rq.poison_mac # NoMac THEN rq.poison_mac ELSE rq.mac,
              !.spa = msg.tpa,
              !.tha = BCAST_MAC,
              !.tpa = ZeroIP]

(* The jobs Worker_scheduleNewJob inserts for a request, in this order; t   *)
(* is the clock value it was called with.                                   *)
Repeats(rq, t) ==
  LET msg == Worker_fillPacket(rq)
      At(m, d) == [rq |-> rq, message |-> m, schedule_time |-> t + d]
      poi == Worker_poisonJob(msg, rq)
  IN  <<At(msg, Delay1), At(msg, Delay2), At(msg, Delay3)>>
      \o IF DoPoison /\ rq.type = "SRC" THEN <<At(poi, Delay2), At(poi, Delay3)>> ELSE <<>>

-----------------------------------------------------------------------------
Init ==
  /\ now = 0 /\ timeout = 0 /\ taken = 0
  /\ pipe = <<>> /\ eof = FALSE
  /\ queue = [i \in {} |-> 0] /\ todo = <<>>
  /\ pc = "top" /\ sleeping = FALSE
  /\ send_errors = 0 /\ read_errors = 0 /\ error_count = 0
  /\ arrived = {} /\ excess = {}
  /\ attempts = [r \in Request |-> 0]

(* The main process: Worker_sendJob writes a request, waiting while the     *)
(* pipe is full.                                                            *)
Worker_sendJob(r) ==
  /\ ~eof /\ pc # "exit"
  /\ r \notin arrived
  /\ Len(pipe) < PipeSize
  /\ arrived' = arrived \cup {r}
  /\ pipe' = Append(pipe, r)
  /\ UNCHANGED <<now, eof, queue, pc, sleeping, timeout, taken, todo,
                 send_errors, read_errors, error_count, attempts, excess>>

(* The main process terminates.  If the worker is gone the next write() is  *)
(* a reason for it (SIGPIPE).                                               *)
MainExits ==
  /\ ~eof
  /\ eof' = TRUE
  /\ UNCHANGED <<now, pipe, queue, pc, sleeping, timeout, taken, todo,
                 send_errors, read_errors, error_count, arrived, attempts, excess>>

(* A second passes.  Beyond MaxTime only a sleep that has begun goes on. *)
Tick ==
  /\ now < MaxTime \/ sleeping
  /\ now' = now + 1
  /\ sleeping' = FALSE
  /\ timeout' = IF timeout > 0 THEN timeout - 1 ELSE 0
  /\ UNCHANGED <<pipe, eof, queue, pc, taken, todo, send_errors, read_errors,
                 error_count, arrived, attempts, excess>>

(* A plausible mistake: one failure too many is tolerated. *)
FaultFailed(n, next) ==
  /\ pc' = IF n > MAX_ERRORS + 1 THEN "exit" ELSE next
  /\ sleeping' = (n <= MAX_ERRORS + 1)

(* The common reaction to a failure: too many in a row (n counts this one)  *)
(* end the process, otherwise it sleeps for a second and goes on at `next'. *)
Failed(n, next) ==
  /\ pc' = IF n > MAX_ERRORS THEN "exit" ELSE next
  /\ sleeping' = (n <= MAX_ERRORS)

(* Worker_executeJob for a job of request r. *)
Worker_executeJob(r, next) ==
  /\ attempts' = [attempts EXCEPT ![r] = @ + 1]
  /\ \/ /\ send_errors' = 0
        /\ pc' = next
        /\ UNCHANGED sleeping
     \/ /\ send_errors' = send_errors + 1
        /\ Failed(send_errors', next)

(* A plausible mistake: select() waits without a timeout for the next       *)
(* request when the first job is not yet due.                               *)
FaultTop ==
  /\ pc = "top" /\ ~sleeping
  /\ pc' = "select"
  /\ timeout' = IF count > 0 /\ queue[0].schedule_time > now THEN MaxTime + 1 ELSE 0
  /\ UNCHANGED <<now, pipe, eof, queue, sleeping, taken, todo, send_errors,
                 read_errors, error_count, arrived, attempts, excess>>

(* The head of the loop in Worker_run: select() is called with the seconds  *)
(* until the job that PriorityQueue_max shows is due.                       *)
Top ==
  /\ pc = "top" /\ ~sleeping
  /\ pc' = "select"
  /\ timeout' = IF count > 0 /\ queue[0].schedule_time > now
                THEN queue[0].schedule_time - now ELSE 0
  /\ UNCHANGED <<now, pipe, eof, queue, sleeping, taken, todo, send_errors,
                 read_errors, error_count, arrived, attempts, excess>>

(* select() returns because the pipe can be read (or is at its end) ... *)
Readable ==
  /\ pc = "select"
  /\ pipe # <<>> \/ eof
  /\ pc' = "read"
  /\ taken' = now
  /\ timeout' = 0
  /\ UNCHANGED <<now, pipe, eof, queue, sleeping, todo, send_errors,
                 read_errors, error_count, arrived, attempts, excess>>

(* ... or because of the timeout, which an empty queue does not have ... *)
Timeout ==
  /\ pc = "select"
  /\ pipe = <<>> /\ ~eof
  /\ count > 0 /\ timeout = 0
  /\ pc' = "due"
  /\ UNCHANGED <<now, pipe, eof, queue, sleeping, timeout, taken, todo,
                 send_errors, read_errors, error_count, arrived, attempts, excess>>

(* ... or fails (in the model only before MaxTime). *)
SelectFails ==
  /\ pc = "select"
  /\ now < MaxTime
  /\ error_count' = error_count + 1
  /\ Failed(error_count', "top")
  /\ timeout' = 0
  /\ UNCHANGED <<now, pipe, eof, queue, taken, todo, send_errors, read_errors,
                 arrived, attempts, excess>>

(* A plausible mistake: the end of the pipe is not taken for an error. *)
FaultReadFails ==
  /\ pc = "read"
  /\ eof /\ pipe = <<>>
  /\ pc' = "due"
  /\ UNCHANGED <<now, pipe, eof, queue, sleeping, timeout, taken, todo,
                 send_errors, read_errors, error_count, arrived, attempts, excess>>

(* Worker_scheduleNewJob, called with the clock value `taken': the read     *)
(* fails, as it does for ever once the main process is gone ...             *)
ReadFails ==
  /\ pc = "read"
  /\ now < MaxTime \/ (eof /\ pipe = <<>>)
  /\ read_errors' = read_errors + 1
  /\ Failed(read_errors', "due")
  /\ UNCHANGED <<now, pipe, eof, queue, timeout, taken, todo, send_errors,
                 error_count, arrived, attempts, excess>>

(* ... or yields a request, which is answered at once (and reported, see    *)
(* Worker_printJob) ...                                                     *)
Read ==
  /\ pc = "read"
  /\ pipe # <<>>
  /\ pipe' = Tail(pipe)
  /\ todo' = Repeats(Head(pipe), taken)
  /\ Worker_executeJob(Head(pipe), "limit")
  /\ UNCHANGED <<now, eof, queue, timeout, taken, read_errors, error_count, arrived, excess>>

(* ... a long queue makes the worker sleep, but not drop the job ... *)
Limit ==
  /\ pc = "limit" /\ ~sleeping
  /\ pc' = "insert"
  /\ sleeping' = (count >= MAX_REQUESTS)
  /\ excess' = IF count >= MAX_REQUESTS THEN excess \cup {Head(todo).rq} ELSE excess
  /\ UNCHANGED <<now, pipe, eof, queue, timeout, taken, todo, send_errors,
                 read_errors, error_count, arrived, attempts>>

(* ... and the repetitions are scheduled, one after the other. *)
Insert ==
  /\ pc = "insert" /\ ~sleeping
  /\ queue' = Heap!insert(queue, Head(todo))
  /\ todo' = Tail(todo)
  /\ IF Len(todo) = 1 THEN pc' = "due" /\ read_errors' = 0
     ELSE UNCHANGED <<pc, read_errors>>
  /\ UNCHANGED <<now, pipe, eof, sleeping, timeout, taken, send_errors,
                 error_count, arrived, attempts, excess>>

(* The clock is read again before the inner loop of Worker_run. *)
Due ==
  /\ pc = "due" /\ ~sleeping
  /\ taken' = now
  /\ pc' = "drain"
  /\ UNCHANGED <<now, pipe, eof, queue, sleeping, timeout, todo, send_errors,
                 read_errors, error_count, arrived, attempts, excess>>

(* A plausible mistake: a job whose sendto() failed and led to a sleep is   *)
(* kept in the queue.                                                       *)
FaultSend ==
  /\ pc = "drain" /\ ~sleeping
  /\ count > 0 /\ taken >= queue[0].schedule_time
  /\ Worker_executeJob(queue[0].rq, "drain")
  /\ queue' = IF send_errors' > 0 THEN queue ELSE Heap!extract(queue)
  /\ UNCHANGED <<now, pipe, eof, timeout, taken, todo, read_errors,
                 error_count, arrived, excess>>

(* The inner loop: the job in front is sent if it is due, and extracted     *)
(* whether or not sendto() succeeded (unless the process gave up).          *)
Send ==
  /\ pc = "drain" /\ ~sleeping
  /\ count > 0 /\ taken >= queue[0].schedule_time
  /\ Worker_executeJob(queue[0].rq, "drain")
  /\ queue' = IF pc' = "exit" THEN queue ELSE Heap!extract(queue)
  /\ UNCHANGED <<now, pipe, eof, timeout, taken, todo, read_errors,
                 error_count, arrived, excess>>

(* No job is due any more: the loop starts again. *)
Drained ==
  /\ pc = "drain" /\ ~sleeping
  /\ count > 0 => taken < queue[0].schedule_time
  /\ error_count' = 0
  /\ taken' = 0
  /\ pc' = "top"
  /\ UNCHANGED <<now, pipe, eof, queue, sleeping, timeout, todo, send_errors,
                 read_errors, arrived, attempts, excess>>

Run == \/ Top \/ Readable \/ Timeout \/ SelectFails \/ ReadFails \/ Read
       \/ Limit \/ Insert \/ Due \/ Send \/ Drained

Next == \/ \E r \in Request : Worker_sendJob(r)
        \/ MainExits
        \/ Tick
        \/ Run

Spec == Init /\ [][Next]_vars

(* The worker is scheduled and time passes. *)
FairSpec == Spec /\ WF_vars(Run) /\ WF_vars(Tick)

-----------------------------------------------------------------------------
(* The shape of the state; the domain of the queue stays an initial segment. *)
TypeOK ==
  /\ now \in Nat /\ taken \in Nat /\ timeout \in Nat
  /\ pipe \in Seq(Request) /\ Len(pipe) <= PipeSize /\ arrived \subseteq Request
  /\ excess \subseteq Request
  /\ eof \in BOOLEAN /\ sleeping \in BOOLEAN
  /\ pc \in {"top", "select", "read", "limit", "insert", "due", "drain", "exit"}
  /\ DOMAIN queue = 0 .. count - 1
  /\ \A i \in DOMAIN queue : queue[i].rq \in Request /\ queue[i].schedule_time \in Nat
  /\ (todo # <<>>) = (pc \in {"limit", "insert"}) \/ pc = "exit"
  /\ send_errors \in 0 .. MAX_ERRORS + 1
  /\ read_errors \in 0 .. MAX_ERRORS + 1
  /\ error_count \in 0 .. MAX_ERRORS + 1

(* Every request the worker has read is sent, or tried to be sent, exactly  *)
(* four times (six with poisoning): what was attempted and what is queued   *)
(* always add up, through failures, sleeps and heap operations.  Of one     *)
(* that came when MAX_REQUESTS jobs were queued this says only that nothing *)
(* is sent too often: parameters.h has the program drop it.                 *)
Total(r) == IF DoPoison /\ r.type = "SRC" THEN 6 ELSE 4
Queued(r) == Cardinality({i \in DOMAIN queue : queue[i].rq = r})
ToInsert(r) == Cardinality({i \in DOMAIN todo : todo[i].rq = r})
Unread(r) == r \notin arrived \/ \E i \in DOMAIN pipe : pipe[i] = r
Repetitions(r) == attempts[r] + Queued(r) + ToInsert(r)

NothingForgotten ==
  pc # "exit" =>
    \A r \in Request :
      IF Unread(r) THEN Repetitions(r) = 0
      ELSE IF r \in excess THEN Repetitions(r) <= Total(r)
      ELSE Repetitions(r) = Total(r)

(* A message to everyone only claims something about the intruder's own     *)
(* address; the lie about another host's address goes to the intruder       *)
(* alone.  The in-place rewriting of Worker_poisonJob must keep this.       *)
Intruder(r) == IF r.type = "SRC" THEN r.spa ELSE r.tpa

Pending == {queue[i] : i \in DOMAIN queue} \cup {todo[i] : i \in DOMAIN todo}

BroadcastOnlyAboutIntruder ==
  \A j \in Pending :
    LET m == j.message
    IN  IF m.dhost = BCAST_MAC
        THEN m.spa = Intruder(j.rq) \/ j.rq.sha = BCAST_MAC
        ELSE m.dhost = j.rq.sha /\ m.tpa = Intruder(j.rq)

(* Once no request is left, the queue is worked off unless the worker gives *)
(* up: no due job is left behind by the timeouts of select(), by sleeps or  *)
(* by the order of the heap.  (For jobs due within modelled time.)          *)
QueueDrains ==
  /\ arrived = Request /\ pipe = <<>> /\ todo = <<>>
  /\ count > 0
  /\ \A i \in DOMAIN queue : queue[i].schedule_time <= MaxTime
  ~> count = 0 \/ pc = "exit"

(* When the main process has ended, so does the worker, after reading the   *)
(* requests left in the pipe and the allowed number of failed reads.        *)
OrphanEnds == eof ~> pc = "exit"
=============================================================================
