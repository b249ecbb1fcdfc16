------------------------------ MODULE Sentinel ------------------------------
(***************************************************************************)
(* The life of the daemon: start-up in main() and daemonize(), the fork of *)
(* the worker in Worker_init(), the loop of run() from a packet to a job   *)
(* in the pipe, and the ways in which one process learns of the death of   *)
(* the other (src/src/ip-sentinel.c, src/src/worker.c).                    *)
(*                                                                         *)
(* What the other modules are about is here one step with an open outcome: *)
(* the reading of the ipfile (Reload), the flood protection (AntiDOS), the *)
(* worker's answers (Worker).  The pipe is what its readers and writers    *)
(* make of it: a write fails when nobody holds the reading end, and a read *)
(* meets the end of the file when nobody holds the writing end.            *)
(***************************************************************************)
EXTENDS Integers, Sequences

CONSTANTS
  Packet,      \* frames: [request |-> BOOLEAN, spa, sha, tpa]
  Blocked,     \* the queries [ip, mac] that BlackList_getMac answers
  NoMac,       \* the mac of a query FOR an address
  ZeroIP,      \* 0.0.0.0
  MAX_ERRORS,  \* parameters.h
  PipeSize     \* jobs the pipe holds before write() blocks

ASSUME SentinelAssumption ==
  /\ \A p \in Packet : p.request \in BOOLEAN
  /\ MAX_ERRORS \in Nat
  /\ PipeSize \in Nat \ {0}

VARIABLES
  args,          \* options and inherited settings, see Init
  rights,        \* privileges of root the daemon still has
  main,          \* where the main process is
  handler,       \* sigHup is installed
  do_reload,     \* set by sigHup
  packet,        \* `buffer' of run()
  job,           \* the type of the job made of `packet', "none" if there is none
  recv_errors, write_errors, read_errors,
  worker,        \* where the worker is
  child,         \* a child of the worker between fork() and execv()
  pipe,          \* jobs written and not yet read
  readers, writers  \* the processes that hold an end of the pipe

vars == <<args, rights, main, handler, do_reload, packet, job,
          recv_errors, write_errors, read_errors, worker, child, pipe,
          readers, writers>>

setup == <<args, rights, handler>>
ends  == <<readers, writers>>
Dir   == {"TO", "FROM"}
Root  == {"fs", "groups", "gid", "uid"}

(* Options of the command line, and what the process inherits. *)
Settings == [do_fork : BOOLEAN,             \* not --nofork
             arp_dir : SUBSET Dir \ {{}},   \* --direction
             chroot : BOOLEAN,              \* --chroot, or the user has a home
             action_cmd : BOOLEAN,          \* --action
             sigpipe : BOOLEAN]             \* SIGPIPE kills (it may be ignored)

Init ==
  /\ args \in Settings
  /\ rights = Root
  /\ main = "socket"
  /\ handler = FALSE
  /\ do_reload = FALSE
  /\ packet \in Packet
  /\ job = "none"
  /\ recv_errors = 0 /\ write_errors = 0 /\ read_errors = 0
  /\ worker = "none"
  /\ child = FALSE
  /\ pipe = <<>>
  /\ readers = {} /\ writers = {}

-----------------------------------------------------------------------------
(* Start-up.  Each step may instead fail, see SetupFails. *)

Quiet == UNCHANGED <<args, do_reload, packet, job, recv_errors, write_errors,
                     read_errors, pipe>>

(* parseOptions and generateSocket. *)
generateSocket ==
  /\ main = "socket" /\ main' = "files"
  /\ Quiet /\ UNCHANGED <<setup, worker, child, ends>>

(* daemonize() opens its files, looks up the user, goes into the jail ...   *)
OpenFiles ==
  /\ main = "files" /\ main' = "jail"
  /\ Quiet /\ UNCHANGED <<setup, worker, child, ends>>

Jail ==
  /\ main = "jail" /\ main' = "gid"
  /\ rights' = IF args.chroot THEN rights \ {"fs"} ELSE rights
  /\ Quiet /\ UNCHANGED <<handler, worker, child, ends>>

(* ... gives up the groups, which takes root's uid, and then the uid (the   *)
(* user of --user is taken to be another than root) ...                     *)
Esetgid ==
  /\ main = "gid" /\ main' = "uid"
  /\ "uid" \in rights
  /\ rights' = rights \ {"groups", "gid"}
  /\ Quiet /\ UNCHANGED <<handler, worker, child, ends>>

(* A plausible mistake: the result of setuid() is not looked at. *)
FaultEsetuid ==
  /\ main = "uid" /\ main' = "ipfile"
  /\ rights' \in {rights, rights \ {"uid"}}
  /\ Quiet /\ UNCHANGED <<handler, worker, child, ends>>

Esetuid ==
  /\ main = "uid" /\ main' = "ipfile"
  /\ rights' = rights \ {"uid"}
  /\ Quiet /\ UNCHANGED <<handler, worker, child, ends>>

(* ... tries to open the ipfile, and forks unless told otherwise.  The      *)
(* parent writes the pid file and exits; it has no part in what follows.    *)
Fork ==
  /\ main = "ipfile" /\ main' = "pipe"
  /\ Quiet /\ UNCHANGED <<setup, worker, child, ends>>

(* setsid(), redirection and Arguments_fixupOptions, then Worker_init:      *)
(* pipe() ...                                                               *)
Epipe ==
  /\ main = "pipe" /\ main' = "spawn"
  /\ readers' = {"main"} /\ writers' = {"main"}
  /\ Quiet /\ UNCHANGED <<setup, worker, child>>

(* ... fork(), after which both processes hold both ends ... *)
Spawn ==
  /\ main = "spawn" /\ main' = "close"
  /\ worker' = "close"
  /\ readers' = {"main", "worker"} /\ writers' = {"main", "worker"}
  /\ Quiet /\ UNCHANGED <<setup, child>>

(* Plausible mistakes: an end of the pipe is left open. *)
FaultCloseRead ==
  /\ main = "close" /\ main' = "signal"
  /\ Quiet /\ UNCHANGED <<setup, worker, child, ends>>

FaultCloseWrite ==
  /\ worker = "close" /\ worker' = "loop"
  /\ Quiet /\ UNCHANGED <<setup, main, child, ends>>

(* ... and each closes the end that is the other's. *)
CloseRead ==
  /\ main = "close" /\ main' = "signal"
  /\ readers' = readers \ {"main"}
  /\ Quiet /\ UNCHANGED <<setup, worker, child, writers>>

CloseWrite ==
  /\ worker = "close" /\ worker' = "loop"
  /\ writers' = writers \ {"worker"}
  /\ Quiet /\ UNCHANGED <<setup, main, child, readers>>

(* signal(SIGHUP, sigHup); run() starts with BlackList_init, AntiDOS_init.  *)
Signal ==
  /\ main = "signal" /\ main' = "recv"
  /\ handler' = TRUE
  /\ Quiet /\ UNCHANGED <<rights, worker, child, ends>>

(* A process is gone, and the kernel closes its ends of the pipe. *)
MainExits ==
  /\ main' = "exit"
  /\ readers' = readers \ {"main"} /\ writers' = writers \ {"main"}

WorkerExits ==
  /\ worker' = "exit"
  /\ readers' = readers \ {"worker"} /\ writers' = writers \ {"worker"}

(* The wrappers of wrappers.h end the process when their call fails. *)
SetupFails ==
  /\ main \in {"socket", "files", "jail", "gid", "uid", "ipfile", "pipe",
               "spawn", "close"}
  /\ MainExits
  /\ Quiet /\ UNCHANGED <<setup, worker, child>>

-----------------------------------------------------------------------------
(* The loop of run(). *)

(* recvfrom() yields a frame, or fails once too often or less often. *)
Receive(p) ==
  /\ main = "recv"
  /\ packet' = p
  /\ recv_errors' = 0
  /\ main' = IF p.request THEN "update" ELSE "recv"
  /\ UNCHANGED <<setup, do_reload, job, write_errors, read_errors, worker,
                 child, pipe, ends>>

(* recvfrom() fails; too many failures in a row end the process. *)
ReceiveFails ==
  /\ main = "recv"
  /\ recv_errors' = recv_errors + 1
  /\ IF recv_errors' > MAX_ERRORS THEN MainExits ELSE UNCHANGED <<main, ends>>
  /\ UNCHANGED <<setup, do_reload, packet, job, write_errors, read_errors,
                 worker, child, pipe>>

(* BlackList_softUpdate or BlackList_update; it exits after many errors. *)
UpdateList ==
  /\ main = "update"
  /\ do_reload' = FALSE
  /\ \/ main' = "to" /\ UNCHANGED ends
     \/ MainExits
  /\ UNCHANGED <<setup, packet, job, recv_errors, write_errors, read_errors,
                 worker, child, pipe>>

ToQuery(p)   == [ip |-> p.tpa, mac |-> NoMac]
FromQuery(p) == [ip |-> p.spa, mac |-> p.sha]

(* generateJobToIntruder: of a blocked request the flood protection may     *)
(* still make nothing.                                                      *)
generateJobToIntruder ==
  /\ main = "to"
  /\ \/ main' = "from" /\ UNCHANGED job
     \/ /\ "TO" \in args.arp_dir
        /\ ToQuery(packet) \in Blocked
        /\ job' = "DST"
        /\ main' = "write"
  /\ UNCHANGED <<setup, do_reload, packet, recv_errors, write_errors,
                 read_errors, worker, child, pipe, ends>>

(* A plausible mistake: address probes are not passed over. *)
FaultFromIntruder ==
  /\ main = "from"
  /\ \/ main' = "recv" /\ UNCHANGED job
     \/ /\ "FROM" \in args.arp_dir
        /\ FromQuery(packet) \in Blocked
        /\ job' = "SRC"
        /\ main' = "write"
  /\ UNCHANGED <<setup, do_reload, packet, recv_errors, write_errors,
                 read_errors, worker, child, pipe, ends>>

generateJobFromIntruder ==
  /\ main = "from"
  /\ \/ main' = "recv" /\ UNCHANGED job
     \/ /\ "FROM" \in args.arp_dir
        /\ packet.spa # ZeroIP
        /\ FromQuery(packet) \in Blocked
        /\ job' = "SRC"
        /\ main' = "write"
  /\ UNCHANGED <<setup, do_reload, packet, recv_errors, write_errors,
                 read_errors, worker, child, pipe, ends>>

(* Where run() goes on after Worker_sendJob. *)
AfterJob == IF job = "DST" THEN "from" ELSE "recv"

(* Worker_sendJob: write() waits for room in the pipe ... *)
Worker_sendJob ==
  /\ main = "write"
  /\ readers # {} /\ Len(pipe) < PipeSize
  /\ pipe' = Append(pipe, [type |-> job, request |-> packet])
  /\ write_errors' = 0
  /\ main' = AfterJob
  /\ job' = "none"
  /\ UNCHANGED <<setup, do_reload, packet, recv_errors, read_errors, worker,
                 child, ends>>

(* A plausible mistake: failed writes are not counted. *)
FaultSendFails ==
  /\ main = "write"
  /\ readers = {}
  /\ UNCHANGED write_errors
  /\ IF args.sigpipe THEN MainExits ELSE main' = AfterJob /\ UNCHANGED ends
  /\ job' = "none"
  /\ UNCHANGED <<setup, do_reload, packet, recv_errors, read_errors, worker,
                 child, pipe>>

(* ... and fails when the reading end is gone: SIGPIPE ends the process,    *)
(* or, where that is ignored, failures are counted and slept over.          *)
SendFails ==
  /\ main = "write"
  /\ readers = {}
  /\ write_errors' = write_errors + 1
  /\ IF args.sigpipe \/ write_errors' > MAX_ERRORS
     THEN MainExits
     ELSE main' = AfterJob /\ UNCHANGED ends
  /\ job' = "none"
  /\ UNCHANGED <<setup, do_reload, packet, recv_errors, read_errors, worker,
                 child, pipe>>

-----------------------------------------------------------------------------
(* The worker, as far as the main process is concerned. *)

(* Worker_scheduleNewJob takes a job from the pipe and may start a child,   *)
(* which holds the reading end until execv() closes it.  (The model has one *)
(* such child at a time.)                                                   *)
WorkerReads ==
  /\ worker = "loop"
  /\ pipe # <<>>
  /\ pipe' = Tail(pipe)
  /\ read_errors' = 0
  /\ \/ UNCHANGED <<child, ends>>
     \/ /\ args.action_cmd /\ ~child
        /\ child' = TRUE
        /\ readers' = readers \cup {"child"}
        /\ UNCHANGED writers
  /\ UNCHANGED <<setup, main, do_reload, packet, job, recv_errors,
                 write_errors, worker>>

(* At the end of the pipe read() fails, time and again. *)
WorkerReadFails ==
  /\ worker = "loop"
  /\ pipe = <<>> /\ writers = {}
  /\ read_errors' = read_errors + 1
  /\ IF read_errors' > MAX_ERRORS THEN WorkerExits ELSE UNCHANGED <<worker, ends>>
  /\ UNCHANGED <<setup, main, do_reload, packet, job, recv_errors,
                 write_errors, child, pipe>>

(* Too many failures of sendto() or select(), or no memory. *)
WorkerGivesUp ==
  /\ worker \in {"close", "loop"}
  /\ WorkerExits
  /\ Quiet /\ UNCHANGED <<setup, main, child>>

(* callAction: the child executes the command or exits. *)
ChildExec ==
  /\ child
  /\ child' = FALSE
  /\ readers' = readers \ {"child"}
  /\ Quiet /\ UNCHANGED <<setup, main, worker, writers>>

-----------------------------------------------------------------------------
(* SIGHUP to the main process: sigHup if it is installed, else the end. *)
Hup ==
  /\ main # "exit"
  /\ IF handler THEN do_reload' = TRUE /\ UNCHANGED <<main, ends>>
     ELSE UNCHANGED do_reload /\ MainExits
  /\ UNCHANGED <<setup, packet, job, recv_errors, write_errors, read_errors,
                 worker, child, pipe>>

(* The terminal of a daemon that did not fork hangs up: the worker, which   *)
(* was forked before the handler was installed, gets the signal too.  (One  *)
(* that forked has a session of its own.)                                   *)
HangUp ==
  /\ ~args.do_fork
  /\ worker \in {"close", "loop"}
  /\ handler
  /\ do_reload' = TRUE
  /\ WorkerExits
  /\ UNCHANGED <<setup, main, packet, job, recv_errors, write_errors,
                 read_errors, child, pipe>>

Start == \/ generateSocket \/ OpenFiles \/ Jail \/ Esetgid \/ Esetuid \/ Fork
         \/ Epipe \/ Spawn \/ CloseRead \/ Signal

Run == \/ UpdateList \/ generateJobToIntruder \/ generateJobFromIntruder
       \/ Worker_sendJob \/ SendFails

Worker_run == CloseWrite \/ WorkerReads \/ WorkerReadFails

Next ==
  \/ Start \/ SetupFails
  \/ (\E p \in Packet : Receive(p)) \/ ReceiveFails \/ Run
  \/ Worker_run \/ WorkerGivesUp \/ ChildExec
  \/ Hup \/ HangUp

Spec == Init /\ [][Next]_vars

(* The three processes are scheduled.  Frames, signals and failures other   *)
(* than those of the pipe are never assumed.                                *)
FairSpec ==
  /\ Spec
  /\ WF_vars(Run) /\ WF_vars(Worker_run) /\ WF_vars(ChildExec)

-----------------------------------------------------------------------------
Job == [type : {"DST", "SRC"}, request : Packet]

FlagsOK ==
  /\ args \in Settings
  /\ handler \in BOOLEAN /\ do_reload \in BOOLEAN /\ child \in BOOLEAN

ProcessesOK ==
  /\ main \in {"socket", "files", "jail", "gid", "uid", "ipfile", "pipe",
               "spawn", "close", "signal", "recv", "update", "to", "from",
               "write", "exit"}
  /\ worker \in {"none", "close", "loop", "exit"}
  /\ rights \subseteq Root
  /\ readers \subseteq {"main", "worker", "child"}
  /\ writers \subseteq {"main", "worker"}

CountersOK ==
  /\ recv_errors \in Nat /\ write_errors \in Nat /\ read_errors \in Nat
  /\ main # "exit" => recv_errors <= MAX_ERRORS /\ write_errors <= MAX_ERRORS
  /\ worker # "exit" => read_errors <= MAX_ERRORS

PipeOK ==
  /\ packet \in Packet
  /\ job \in {"none", "DST", "SRC"} /\ (main = "write" => job # "none")
  /\ pipe \in Seq(Job) /\ Len(pipe) <= PipeSize

(* The shape of the state; a process that goes on has counted at most       *)
(* MAX_ERRORS failures in a row.                                            *)
TypeOK == FlagsOK /\ ProcessesOK /\ CountersOK /\ PipeOK

Serving  == {"recv", "update", "to", "from", "write"}
Handling == main \in Serving \/ worker = "loop" \/ child

(* No process handles a frame, the ipfile, a job or the action command      *)
(* before daemonize() has given up every privilege of root, and the view of *)
(* the whole file system where a directory for chroot() is known.           *)
Unprivileged == Handling => rights = IF args.chroot THEN {} ELSE {"fs"}

Justified(j) ==
  /\ j.request.request
  /\ j.type = "DST" => "TO" \in args.arp_dir /\ ToQuery(j.request) \in Blocked
  /\ j.type = "SRC" => /\ "FROM" \in args.arp_dir
                       /\ FromQuery(j.request) \in Blocked
                       /\ j.request.spa # ZeroIP

(* Every job on its way to the worker stems from an ARP request that        *)
(* concerns a blocked address in a direction that is switched on, and a     *)
(* probe from 0.0.0.0 is never taken for the request of an intruder.        *)
JobsJustified ==
  /\ \A i \in DOMAIN pipe : Justified(pipe[i])
  /\ main = "write" => Justified([type |-> job, request |-> packet])

(* A write() of the running main process finds a reader only while there is *)
(* a worker (or a child of it that has not yet called execv), and a read()  *)
(* of the running worker waits for more only while there is a main process: *)
(* neither keeps the end of the other open.                                 *)
PipeTellsTruth ==
  /\ main \in Serving /\ readers # {} => worker \in {"close", "loop"} \/ child
  /\ worker = "loop" /\ writers # {} => main # "exit"

(* Worker_sendJob never blocks for ever: the worker reads on, or its death  *)
(* wakes the writer, since nobody else keeps the reading end.               *)
BlockedWriteEnds == main = "write" ~> main # "write"

(* The worker does not outlive the main process, whenever that ended: it    *)
(* works off the pipe and then meets its end.                               *)
WorkerFollowsMain == main = "exit" ~> worker \in {"none", "exit"}

(* If there is always another job to write, the main process does not go on *)
(* for ever after the worker's end.                                         *)
MainFollowsWorker ==
  []<>(main = "write") => (worker = "exit" ~> main = "exit")
=============================================================================
