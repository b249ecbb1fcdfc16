--------------------------- MODULE SentinelProofs ---------------------------
(* Safety of the daemon's life cycle for every set of frames and every      *)
(* blacklist, every number of tolerated errors and every size of the pipe.  *)
EXTENDS Sentinel, TLAPS

Early == {"socket", "files", "jail", "gid", "uid", "ipfile", "pipe", "spawn"}

Dropped == IF args.chroot THEN {} ELSE {"fs"}

(* What is left of root's rights at each stage of daemonize(). *)
RightsInv ==
  /\ main \in {"socket", "files", "jail"} => rights = Root
  /\ main = "gid" => rights = Dropped \cup {"groups", "gid", "uid"}
  /\ main = "uid" => rights = Dropped \cup {"uid"}
  /\ main \in {"ipfile", "pipe", "spawn", "close", "signal"} \cup Serving =>
       rights = Dropped
  /\ main \in Early => worker = "none"
  /\ worker # "none" => rights = Dropped
  /\ child => worker # "none"

(* Who holds an end of the pipe, and until when. *)
EndsInv ==
  /\ "main" \in readers => main \in {"spawn", "close"}
  /\ "worker" \in readers => worker \in {"close", "loop"}
  /\ "child" \in readers => child
  /\ "main" \in writers => main # "exit"
  /\ "worker" \in writers => worker = "close"

JobsInv ==
  /\ main \in {"update", "to", "from", "write"} => packet.request
  /\ JobsJustified

IInv == TypeOK /\ RightsInv /\ EndsInv /\ JobsInv

-----------------------------------------------------------------------------
(* Initially nothing is open and nothing was received. *)
LEMMA InitIInv == Init => IInv
<1> SUFFICES ASSUME Init PROVE IInv
  OBVIOUS
<1>1. FlagsOK
  BY Zenon DEF Init, FlagsOK
<1>2. ProcessesOK
  BY DEF Init, ProcessesOK, Root
<1>3. CountersOK
  BY SentinelAssumption DEF Init, CountersOK
<1>4. PipeOK
  <2>1. pipe \in Seq(Job) /\ Len(pipe) = 0
    BY DEF Init
  <2> QED
    BY <2>1, SentinelAssumption DEF Init, PipeOK
<1>5. RightsInv
  BY DEF Init, RightsInv, Root, Early, Serving
<1>6. EndsInv
  BY DEF Init, EndsInv
<1>7. JobsInv
  BY DEF Init, JobsInv, JobsJustified
<1> QED
  BY <1>1, <1>2, <1>3, <1>4, <1>5, <1>6, <1>7 DEF IInv, TypeOK

(* A step that leaves pipe, packet and job alone and does not get main into *)
(* a place where it works on a packet keeps what is known of the jobs.      *)
LEMMA JobsKept ==
  ASSUME JobsInv, UNCHANGED <<args, pipe, packet, job>>,
         main' = main \/ main' \notin {"update", "to", "from", "write"}
  PROVE  JobsInv'
BY DEF JobsInv, JobsJustified, Justified, ToQuery, FromQuery

(* Likewise for the types of pipe, packet and job. *)
LEMMA PipeKept ==
  ASSUME PipeOK, UNCHANGED <<pipe, packet, job>>,
         main' = main \/ main' # "write"
  PROVE  PipeOK'
BY DEF PipeOK, Job

(* The steps of start-up: main(), daemonize(), Worker_init(). *)
LEMMA StartKeeps == IInv /\ (Start \/ SetupFails \/ CloseWrite) => IInv'
<1> SUFFICES ASSUME IInv, Start \/ SetupFails \/ CloseWrite PROVE IInv'
  OBVIOUS
<1> USE DEF IInv, TypeOK, Start, Quiet, setup, ends
<1>1. UNCHANGED <<args, pipe, packet, job>>
  BY DEF generateSocket, OpenFiles, Jail, Esetgid, Esetuid, Fork, Epipe,
         Spawn, CloseRead, Signal, CloseWrite, SetupFails
<1>2. main' = main \/ main' \notin {"update", "to", "from", "write"}
  BY DEF generateSocket, OpenFiles, Jail, Esetgid, Esetuid, Fork, Epipe,
         Spawn, CloseRead, Signal, CloseWrite, SetupFails, MainExits
<1>3. FlagsOK'
  BY DEF FlagsOK, generateSocket, OpenFiles, Jail, Esetgid, Esetuid, Fork,
         Epipe, Spawn, CloseRead, Signal, CloseWrite, SetupFails
<1>4. PipeOK'
  BY <1>1, <1>2, PipeKept
<1>5. JobsInv'
  BY <1>1, <1>2, JobsKept
<1>6. CASE generateSocket
  <2>1. ProcessesOK'
    BY <1>6 DEF ProcessesOK, Root, generateSocket
  <2>2. CountersOK'
    BY <1>6 DEF CountersOK, generateSocket
  <2>3. RightsInv'
    BY <1>6
    DEF ProcessesOK, RightsInv, Early, Serving, Root, Dropped, generateSocket
  <2>4. EndsInv'
    BY <1>6 DEF ProcessesOK, RightsInv, Early, EndsInv, generateSocket
  <2> QED
    BY <1>3, <1>4, <1>5, <2>1, <2>2, <2>3, <2>4
<1>7. CASE OpenFiles
  <2>1. ProcessesOK'
    BY <1>7 DEF ProcessesOK, Root, OpenFiles
  <2>2. CountersOK'
    BY <1>7 DEF CountersOK, OpenFiles
  <2>3. RightsInv'
    BY <1>7
    DEF ProcessesOK, RightsInv, Early, Serving, Root, Dropped, OpenFiles
  <2>4. EndsInv'
    BY <1>7 DEF ProcessesOK, RightsInv, Early, EndsInv, OpenFiles
  <2> QED
    BY <1>3, <1>4, <1>5, <2>1, <2>2, <2>3, <2>4
<1>8. CASE Jail
  <2>1. ProcessesOK'
    BY <1>8 DEF ProcessesOK, Root, Jail
  <2>2. CountersOK'
    BY <1>8 DEF CountersOK, Jail
  <2>3. RightsInv'
    BY <1>8 DEF ProcessesOK, RightsInv, Early, Serving, Root, Dropped, Jail
  <2>4. EndsInv'
    BY <1>8 DEF ProcessesOK, RightsInv, Early, EndsInv, Jail
  <2> QED
    BY <1>3, <1>4, <1>5, <2>1, <2>2, <2>3, <2>4
<1>9. CASE Esetgid
  <2>1. ProcessesOK'
    BY <1>9 DEF ProcessesOK, Root, Esetgid
  <2>2. CountersOK'
    BY <1>9 DEF CountersOK, Esetgid
  <2>3. RightsInv'
    BY <1>9 DEF ProcessesOK, RightsInv, Early, Serving, Root, Dropped, Esetgid
  <2>4. EndsInv'
    BY <1>9 DEF ProcessesOK, RightsInv, Early, EndsInv, Esetgid
  <2> QED
    BY <1>3, <1>4, <1>5, <2>1, <2>2, <2>3, <2>4
<1>10. CASE Esetuid
  <2>1. ProcessesOK'
    BY <1>10 DEF ProcessesOK, Root, Esetuid
  <2>2. CountersOK'
    BY <1>10 DEF CountersOK, Esetuid
  <2>3. RightsInv'
    BY <1>10
    DEF ProcessesOK, RightsInv, Early, Serving, Root, Dropped, Esetuid
  <2>4. EndsInv'
    BY <1>10 DEF ProcessesOK, RightsInv, Early, EndsInv, Esetuid
  <2> QED
    BY <1>3, <1>4, <1>5, <2>1, <2>2, <2>3, <2>4
<1>11. CASE Fork
  <2>1. ProcessesOK'
    BY <1>11 DEF ProcessesOK, Root, Fork
  <2>2. CountersOK'
    BY <1>11 DEF CountersOK, Fork
  <2>3. RightsInv'
    BY <1>11 DEF ProcessesOK, RightsInv, Early, Serving, Root, Dropped, Fork
  <2>4. EndsInv'
    BY <1>11 DEF ProcessesOK, RightsInv, Early, EndsInv, Fork
  <2> QED
    BY <1>3, <1>4, <1>5, <2>1, <2>2, <2>3, <2>4
<1>12. CASE Epipe
  <2>1. ProcessesOK'
    BY <1>12 DEF ProcessesOK, Root, Epipe
  <2>2. CountersOK'
    BY <1>12 DEF CountersOK, Epipe
  <2>3. RightsInv'
    BY <1>12 DEF ProcessesOK, RightsInv, Early, Serving, Root, Dropped, Epipe
  <2>4. EndsInv'
    BY <1>12 DEF ProcessesOK, RightsInv, Early, EndsInv, Epipe
  <2> QED
    BY <1>3, <1>4, <1>5, <2>1, <2>2, <2>3, <2>4
<1>13. CASE Spawn
  <2>1. ProcessesOK'
    BY <1>13 DEF ProcessesOK, Root, Spawn
  <2>2. CountersOK'
    BY <1>13 DEF CountersOK, RightsInv, Early, Spawn
  <2>3. RightsInv'
    BY <1>13 DEF ProcessesOK, RightsInv, Early, Serving, Root, Dropped, Spawn
  <2>4. EndsInv'
    BY <1>13 DEF ProcessesOK, RightsInv, Early, EndsInv, Spawn
  <2> QED
    BY <1>3, <1>4, <1>5, <2>1, <2>2, <2>3, <2>4
<1>14. CASE CloseRead
  <2>1. ProcessesOK'
    BY <1>14 DEF ProcessesOK, Root, CloseRead
  <2>2. CountersOK'
    BY <1>14 DEF CountersOK, CloseRead
  <2>3. RightsInv'
    BY <1>14
    DEF ProcessesOK, RightsInv, Early, Serving, Root, Dropped, CloseRead
  <2>4. EndsInv'
    BY <1>14 DEF ProcessesOK, RightsInv, Early, EndsInv, CloseRead
  <2> QED
    BY <1>3, <1>4, <1>5, <2>1, <2>2, <2>3, <2>4
<1>15. CASE Signal
  <2>1. ProcessesOK'
    BY <1>15 DEF ProcessesOK, Root, Signal
  <2>2. CountersOK'
    BY <1>15 DEF CountersOK, Signal
  <2>3. RightsInv'
    BY <1>15 DEF ProcessesOK, RightsInv, Early, Serving, Root, Dropped, Signal
  <2>4. EndsInv'
    BY <1>15 DEF ProcessesOK, RightsInv, Early, EndsInv, Signal
  <2> QED
    BY <1>3, <1>4, <1>5, <2>1, <2>2, <2>3, <2>4
<1>16. CASE CloseWrite
  <2>1. ProcessesOK'
    BY <1>16 DEF ProcessesOK, Root, CloseWrite
  <2>2. CountersOK'
    BY <1>16 DEF CountersOK, CloseWrite
  <2>3. RightsInv'
    BY <1>16
    DEF ProcessesOK, RightsInv, Early, Serving, Root, Dropped, CloseWrite
  <2>4. EndsInv'
    BY <1>16 DEF ProcessesOK, RightsInv, Early, EndsInv, CloseWrite
  <2> QED
    BY <1>3, <1>4, <1>5, <2>1, <2>2, <2>3, <2>4
<1>17. CASE SetupFails
  <2>1. ProcessesOK'
    BY <1>17 DEF ProcessesOK, Root, SetupFails, MainExits
  <2>2. CountersOK'
    BY <1>17 DEF CountersOK, SetupFails, MainExits
  <2>3. RightsInv'
    BY <1>17
    DEF ProcessesOK, RightsInv, Early, Serving, Root, Dropped, SetupFails,
        MainExits
  <2>4. EndsInv'
    BY <1>17 DEF ProcessesOK, RightsInv, Early, EndsInv, SetupFails, MainExits
  <2> QED
    BY <1>3, <1>4, <1>5, <2>1, <2>2, <2>3, <2>4
<1> QED
  BY <1>6, <1>7, <1>8, <1>9, <1>10, <1>11, <1>12, <1>13, <1>14, <1>15, <1>16, <1>17

(* The loop of run(). *)
LEMMA RunKeeps ==
  IInv /\ ((\E p \in Packet : Receive(p)) \/ ReceiveFails \/ Run)
  => IInv'
<1> SUFFICES ASSUME IInv,
                    ((\E p \in Packet : Receive(p)) \/ ReceiveFails \/ Run)
             PROVE  IInv'
  OBVIOUS
<1> USE DEF IInv, TypeOK
<1>1. CASE \E p \in Packet : Receive(p)
  <2>1. FlagsOK'
    BY <1>1 DEF FlagsOK, Receive, setup, ends
  <2>2. ProcessesOK'
    BY <1>1 DEF ProcessesOK, Root, Receive, setup, ends
  <2>3. CountersOK'
    BY <1>1, SentinelAssumption DEF CountersOK, Receive, setup, ends
  <2>4. RightsInv' /\ EndsInv'
    BY <1>1
    DEF ProcessesOK, RightsInv, EndsInv, Early, Serving, Root, Dropped,
        Receive, setup, ends
  <2>5. PipeOK'
    BY <1>1, SentinelAssumption DEF PipeOK, Job, Receive, setup, ends
  <2>6. JobsInv'
    <3>1. PICK p \in Packet : Receive(p)
      BY <1>1
    <3> QED
      BY <3>1
      DEF JobsInv, JobsJustified, Justified, ToQuery, FromQuery, Receive,
          setup
  <2> QED
    BY <2>1, <2>2, <2>3, <2>4, <2>5, <2>6
<1>2. CASE ReceiveFails
  <2>1. FlagsOK'
    BY <1>2 DEF FlagsOK, ReceiveFails, setup, ends, MainExits
  <2>2. ProcessesOK'
    BY <1>2 DEF ProcessesOK, Root, ReceiveFails, setup, ends, MainExits
  <2>3. CountersOK'
    BY <1>2, SentinelAssumption
    DEF CountersOK, ReceiveFails, setup, ends, MainExits
  <2>4. RightsInv' /\ EndsInv'
    BY <1>2
    DEF ProcessesOK, RightsInv, EndsInv, Early, Serving, Root, Dropped,
        ReceiveFails, setup, ends, MainExits
  <2>5. PipeOK'
    BY <1>2, PipeKept DEF ReceiveFails, setup, ends, MainExits
  <2>6. JobsInv'
    BY <1>2, JobsKept DEF ReceiveFails, setup, ends, MainExits
  <2> QED
    BY <2>1, <2>2, <2>3, <2>4, <2>5, <2>6
<1>3. CASE UpdateList
  <2>1. FlagsOK'
    BY <1>3 DEF FlagsOK, UpdateList, setup, ends, MainExits
  <2>2. ProcessesOK'
    BY <1>3 DEF ProcessesOK, Root, UpdateList, setup, ends, MainExits
  <2>3. CountersOK'
    BY <1>3, SentinelAssumption
    DEF CountersOK, UpdateList, setup, ends, MainExits
  <2>4. RightsInv' /\ EndsInv'
    BY <1>3
    DEF ProcessesOK, RightsInv, EndsInv, Early, Serving, Root, Dropped,
        UpdateList, setup, ends, MainExits
  <2>5. PipeOK'
    BY <1>3 DEF PipeOK, Job, UpdateList, MainExits, setup, ends
  <2>6. JobsInv'
    BY <1>3
    DEF JobsInv, JobsJustified, Justified, ToQuery, FromQuery, PipeOK,
        UpdateList, MainExits, setup, ends
  <2> QED
    BY <2>1, <2>2, <2>3, <2>4, <2>5, <2>6
<1>4. CASE generateJobToIntruder
  <2>1. FlagsOK'
    BY <1>4 DEF FlagsOK, generateJobToIntruder, setup, ends
  <2>2. ProcessesOK'
    BY <1>4 DEF ProcessesOK, Root, generateJobToIntruder, setup, ends
  <2>3. CountersOK'
    BY <1>4, SentinelAssumption
    DEF CountersOK, generateJobToIntruder, setup, ends
  <2>4. RightsInv' /\ EndsInv'
    BY <1>4
    DEF ProcessesOK, RightsInv, EndsInv, Early, Serving, Root, Dropped,
        generateJobToIntruder, setup, ends
  <2>5. PipeOK'
    BY <1>4 DEF PipeOK, Job, generateJobToIntruder, setup, ends
  <2>6. JobsInv'
    BY <1>4
    DEF JobsInv, JobsJustified, Justified, ToQuery, FromQuery, PipeOK,
        generateJobToIntruder, setup, ends
  <2> QED
    BY <2>1, <2>2, <2>3, <2>4, <2>5, <2>6
<1>5. CASE generateJobFromIntruder
  <2>1. FlagsOK'
    BY <1>5 DEF FlagsOK, generateJobFromIntruder, setup, ends
  <2>2. ProcessesOK'
    BY <1>5 DEF ProcessesOK, Root, generateJobFromIntruder, setup, ends
  <2>3. CountersOK'
    BY <1>5, SentinelAssumption
    DEF CountersOK, generateJobFromIntruder, setup, ends
  <2>4. RightsInv' /\ EndsInv'
    BY <1>5
    DEF ProcessesOK, RightsInv, EndsInv, Early, Serving, Root, Dropped,
        generateJobFromIntruder, setup, ends
  <2>5. PipeOK'
    BY <1>5 DEF PipeOK, Job, generateJobFromIntruder, setup, ends
  <2>6. JobsInv'
    BY <1>5
    DEF JobsInv, JobsJustified, Justified, ToQuery, FromQuery, PipeOK,
        generateJobFromIntruder, setup, ends
  <2> QED
    BY <2>1, <2>2, <2>3, <2>4, <2>5, <2>6
<1>6. CASE Worker_sendJob
  <2>1. FlagsOK'
    BY <1>6 DEF FlagsOK, Worker_sendJob, setup, ends, AfterJob
  <2>2. ProcessesOK'
    BY <1>6 DEF ProcessesOK, Root, Worker_sendJob, setup, ends, AfterJob
  <2>3. CountersOK'
    BY <1>6, SentinelAssumption
    DEF CountersOK, Worker_sendJob, setup, ends, AfterJob
  <2>4. RightsInv' /\ EndsInv'
    BY <1>6
    DEF ProcessesOK, RightsInv, EndsInv, Early, Serving, Root, Dropped,
        Worker_sendJob, setup, ends, AfterJob
  <2>5. PipeOK'
    <3>1. [type |-> job, request |-> packet] \in Job
      BY <1>6 DEF PipeOK, Worker_sendJob, Job
    <3>2. pipe' \in Seq(Job) /\ Len(pipe') = Len(pipe) + 1 /\ Len(pipe) \in Nat
      BY <1>6, <3>1 DEF PipeOK, Worker_sendJob
    <3> QED
      BY <1>6, <3>2, SentinelAssumption DEF PipeOK, Worker_sendJob, AfterJob
  <2>6. JobsInv'
    <3>1. \A i \in DOMAIN pipe' : Justified(pipe'[i])
      <4>1. \A i \in DOMAIN pipe' :
              \/ i \in DOMAIN pipe /\ pipe'[i] = pipe[i]
              \/ pipe'[i] = [type |-> job, request |-> packet]
        BY <1>6 DEF PipeOK, Worker_sendJob
      <4> QED
        BY <4>1, <1>6 DEF JobsInv, JobsJustified, Worker_sendJob
    <3>2. args' = args /\ packet' = packet /\ main' # "write"
      BY <1>6 DEF Worker_sendJob, setup, AfterJob
    <3> QED
      BY <1>6, <3>1, <3>2
     
      DEF JobsInv, JobsJustified, Justified, ToQuery, FromQuery,
          Worker_sendJob
  <2> QED
    BY <2>1, <2>2, <2>3, <2>4, <2>5, <2>6
<1>7. CASE SendFails
  <2>1. FlagsOK'
    BY <1>7 DEF FlagsOK, SendFails, setup, ends, AfterJob, MainExits
  <2>2. ProcessesOK'
    BY <1>7 DEF ProcessesOK, Root, SendFails, setup, ends, AfterJob, MainExits
  <2>3. CountersOK'
    BY <1>7, SentinelAssumption
    DEF CountersOK, SendFails, setup, ends, AfterJob, MainExits
  <2>4. RightsInv' /\ EndsInv'
    BY <1>7
    DEF ProcessesOK, RightsInv, EndsInv, Early, Serving, Root, Dropped,
        SendFails, setup, ends, AfterJob, MainExits
  <2>5. PipeOK'
    BY <1>7 DEF PipeOK, Job, SendFails, AfterJob, MainExits, setup, ends
  <2>6. JobsInv'
    BY <1>7
    DEF JobsInv, JobsJustified, Justified, ToQuery, FromQuery, PipeOK,
        SendFails, AfterJob, MainExits, setup, ends
  <2> QED
    BY <2>1, <2>2, <2>3, <2>4, <2>5, <2>6
<1> QED
  BY <1>1, <1>2, <1>3, <1>4, <1>5, <1>6, <1>7 DEF Run

(* Steps that no loop takes of its own accord. *)
Others == WorkerGivesUp \/ ChildExec \/ Hup \/ HangUp

(* The worker, its child, and the signals. *)
LEMMA WorkerKeeps ==
  IInv /\ (WorkerReads \/ WorkerReadFails \/ Others)
  => IInv'
<1> SUFFICES ASSUME IInv,
                    (WorkerReads \/ WorkerReadFails \/ Others)
             PROVE  IInv'
  OBVIOUS
<1> USE DEF IInv, TypeOK
<1>1. CASE WorkerReads
  <2>1. FlagsOK'
    BY <1>1 DEF FlagsOK, WorkerReads, setup, ends
  <2>2. ProcessesOK'
    BY <1>1 DEF ProcessesOK, Root, WorkerReads, setup, ends
  <2>3. CountersOK'
    BY <1>1, SentinelAssumption DEF CountersOK, WorkerReads, setup, ends
  <2>4. RightsInv' /\ EndsInv'
    BY <1>1
    DEF ProcessesOK, RightsInv, EndsInv, Early, Serving, Root, Dropped,
        WorkerReads, setup, ends
  <2>5. PipeOK'
    <3>1. pipe' \in Seq(Job) /\ Len(pipe') = Len(pipe) - 1
      BY <1>1 DEF PipeOK, WorkerReads
    <3> QED
      BY <1>1, <3>1, SentinelAssumption DEF PipeOK, Job, WorkerReads
  <2>6. JobsInv'
    <3>1. \A i \in DOMAIN pipe' : i + 1 \in DOMAIN pipe /\ pipe'[i] = pipe[i + 1]
      BY <1>1 DEF PipeOK, WorkerReads
    <3>2. UNCHANGED <<args, packet, main, job>>
      BY <1>1 DEF WorkerReads, setup
    <3> QED
      BY <3>1, <3>2 DEF JobsInv, JobsJustified, Justified, ToQuery, FromQuery
  <2> QED
    BY <2>1, <2>2, <2>3, <2>4, <2>5, <2>6
<1>2. CASE WorkerReadFails
  <2>1. FlagsOK'
    BY <1>2 DEF FlagsOK, WorkerReadFails, setup, ends, WorkerExits
  <2>2. ProcessesOK'
    BY <1>2 DEF ProcessesOK, Root, WorkerReadFails, setup, ends, WorkerExits
  <2>3. CountersOK'
    BY <1>2, SentinelAssumption
    DEF CountersOK, WorkerReadFails, setup, ends, WorkerExits
  <2>4. RightsInv' /\ EndsInv'
    BY <1>2
    DEF ProcessesOK, RightsInv, EndsInv, Early, Serving, Root, Dropped,
        WorkerReadFails, setup, ends, WorkerExits
  <2>5. PipeOK'
    BY <1>2, PipeKept DEF WorkerReadFails, setup, ends, WorkerExits
  <2>6. JobsInv'
    BY <1>2, JobsKept DEF WorkerReadFails, setup, ends, WorkerExits
  <2> QED
    BY <2>1, <2>2, <2>3, <2>4, <2>5, <2>6
<1>3. CASE WorkerGivesUp
  <2>1. FlagsOK'
    BY <1>3 DEF FlagsOK, WorkerGivesUp, Quiet, setup, ends, WorkerExits
  <2>2. ProcessesOK'
    BY <1>3
    DEF ProcessesOK, Root, WorkerGivesUp, Quiet, setup, ends, WorkerExits
  <2>3. CountersOK'
    BY <1>3, SentinelAssumption
    DEF CountersOK, WorkerGivesUp, Quiet, setup, ends, WorkerExits
  <2>4. RightsInv' /\ EndsInv'
    BY <1>3
    DEF ProcessesOK, RightsInv, EndsInv, Early, Serving, Root, Dropped,
        WorkerGivesUp, Quiet, setup, ends, WorkerExits
  <2>5. PipeOK'
    BY <1>3, PipeKept DEF WorkerGivesUp, Quiet, setup, ends, WorkerExits
  <2>6. JobsInv'
    BY <1>3, JobsKept DEF WorkerGivesUp, Quiet, setup, ends, WorkerExits
  <2> QED
    BY <2>1, <2>2, <2>3, <2>4, <2>5, <2>6
<1>4. CASE ChildExec
  <2>1. FlagsOK'
    BY <1>4 DEF FlagsOK, ChildExec, Quiet, setup, ends
  <2>2. ProcessesOK'
    BY <1>4 DEF ProcessesOK, Root, ChildExec, Quiet, setup, ends
  <2>3. CountersOK'
    BY <1>4, SentinelAssumption DEF CountersOK, ChildExec, Quiet, setup, ends
  <2>4. RightsInv' /\ EndsInv'
    BY <1>4
    DEF ProcessesOK, RightsInv, EndsInv, Early, Serving, Root, Dropped,
        ChildExec, Quiet, setup, ends
  <2>5. PipeOK'
    BY <1>4, PipeKept DEF ChildExec, Quiet, setup, ends
  <2>6. JobsInv'
    BY <1>4, JobsKept DEF ChildExec, Quiet, setup, ends
  <2> QED
    BY <2>1, <2>2, <2>3, <2>4, <2>5, <2>6
<1>5. CASE Hup
  <2>1. FlagsOK'
    BY <1>5 DEF FlagsOK, Hup, setup, ends, MainExits
  <2>2. ProcessesOK'
    BY <1>5 DEF ProcessesOK, Root, Hup, setup, ends, MainExits
  <2>3. CountersOK'
    BY <1>5, SentinelAssumption DEF CountersOK, Hup, setup, ends, MainExits
  <2>4. RightsInv' /\ EndsInv'
    BY <1>5
    DEF ProcessesOK, RightsInv, EndsInv, Early, Serving, Root, Dropped, Hup,
        setup, ends, MainExits
  <2>5. PipeOK'
    BY <1>5, PipeKept DEF Hup, setup, ends, MainExits
  <2>6. JobsInv'
    BY <1>5, JobsKept DEF Hup, setup, ends, MainExits
  <2> QED
    BY <2>1, <2>2, <2>3, <2>4, <2>5, <2>6
<1>6. CASE HangUp
  <2>1. FlagsOK'
    BY <1>6 DEF FlagsOK, HangUp, setup, ends, WorkerExits
  <2>2. ProcessesOK'
    BY <1>6 DEF ProcessesOK, Root, HangUp, setup, ends, WorkerExits
  <2>3. CountersOK'
    BY <1>6, SentinelAssumption
    DEF CountersOK, HangUp, setup, ends, WorkerExits
  <2>4. RightsInv' /\ EndsInv'
    BY <1>6
    DEF ProcessesOK, RightsInv, EndsInv, Early, Serving, Root, Dropped,
        HangUp, setup, ends, WorkerExits
  <2>5. PipeOK'
    BY <1>6, PipeKept DEF HangUp, setup, ends, WorkerExits
  <2>6. JobsInv'
    BY <1>6, JobsKept DEF HangUp, setup, ends, WorkerExits
  <2> QED
    BY <2>1, <2>2, <2>3, <2>4, <2>5, <2>6
<1> QED
  BY <1>1, <1>2, <1>3, <1>4, <1>5, <1>6 DEF Others

(* IInv is an invariant. *)
LEMMA Invariance == Spec => []IInv
<1>1. IInv /\ [Next]_vars => IInv'
  <2> SUFFICES ASSUME IInv, [Next]_vars PROVE IInv'
    OBVIOUS
  <2>1. CASE Next
    BY <2>1, StartKeeps, RunKeeps, WorkerKeeps DEF Next, Worker_run, Others
  <2>2. CASE UNCHANGED vars
    <3> USE <2>2 DEF IInv, TypeOK, vars
    <3>1. FlagsOK' /\ ProcessesOK' /\ CountersOK'
      BY DEF FlagsOK, ProcessesOK, CountersOK
    <3>2. RightsInv' /\ EndsInv'
      BY DEF RightsInv, EndsInv, Dropped
    <3>3. PipeOK' /\ JobsInv'
      BY PipeKept, JobsKept
    <3> QED
      BY <3>1, <3>2, <3>3
  <2> QED
    BY <2>1, <2>2
<1> QED
  BY <1>1, InitIInv, PTL DEF Spec

-----------------------------------------------------------------------------
(* Every variable keeps its type, and no process that goes on has counted   *)
(* more than MAX_ERRORS failures of recvfrom(), write() or read() in a row. *)
THEOREM SentinelTypeCorrect == Spec => []TypeOK
<1>1. IInv => TypeOK
  BY DEF IInv
<1> QED
  BY <1>1, Invariance, PTL

(* Frames, the ipfile, jobs and the action command are only ever handled    *)
(* after daemonize() has given up root's rights, in both processes.         *)
THEOREM InputMeetsNoRoot == Spec => []Unprivileged
<1>1. IInv => Unprivileged
  BY DEF IInv, RightsInv, Unprivileged, Handling, Dropped, Serving
<1> QED
  BY <1>1, Invariance, PTL

(* Whatever frames arrive, a job in the pipe stems from a request about a   *)
(* blocked address in a direction switched on, and never from a probe taken *)
(* for an intruder (generateJobToIntruder, generateJobFromIntruder).        *)
THEOREM OnlyJustifiedJobs == Spec => []JobsJustified
<1>1. IInv => JobsJustified
  BY DEF IInv, JobsInv
<1> QED
  BY <1>1, Invariance, PTL

(* After Worker_init neither process keeps the other's end of the pipe      *)
(* open, so that each death is seen at the other end.                       *)
THEOREM DeathIsSeen == Spec => []PipeTellsTruth
<1>1. IInv => PipeTellsTruth
  BY DEF IInv, TypeOK, ProcessesOK, EndsInv, PipeTellsTruth, Serving
<1> QED
  BY <1>1, Invariance, PTL
=============================================================================
