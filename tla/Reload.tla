------------------------------- MODULE Reload -------------------------------
(***************************************************************************)
(* When the daemon rereads its ipfile: BlackList_softUpdate and            *)
(* BlackList_update of src/src/blacklist.c, called by run() of             *)
(* src/src/ip-sentinel.c for every ARP request, and the SIGHUP handler.    *)
(* One step per system call, so that the administrator may edit the file,  *)
(* a signal may arrive and a call may fail anywhere between two of them.   *)
(*                                                                         *)
(* The file consists of Parts parts, each in the version of the last edit  *)
(* that changed it; BlackList (the module) is about what a part means.     *)
(***************************************************************************)
EXTENDS Integers, Sequences

CONSTANTS
  Parts,       \* read() calls it takes to read the file
  MAX_ERRORS,  \* parameters.h
  EditsApart,  \* no two edits fall into the same second of st_mtime
  MaxEdits,    \* bound of the model: edits of the file
  MaxTime      \* bound of the model: where the clock stops, and with it failures
               \* and signals

ASSUME ReloadAssumption ==
  /\ Parts \in Nat \ {0}
  /\ MAX_ERRORS \in Nat
  /\ EditsApart \in BOOLEAN
  /\ MaxEdits \in Nat /\ MaxTime \in Nat

VARIABLES
  now,            \* the clock
  file, mtime,    \* content of the ipfile and its st_mtime
  version,        \* edits so far
  fd,             \* content of the file that is open for reading
  status,         \* st_mtime as the last stat() returned it
  list,           \* the parts that ip_list and net_list come from
  last_mtime, error_count,  \* struct BlackList; static of softUpdate
  do_reload,      \* set by sigHup
  forced,         \* the call in progress is BlackList_update from run()
  pc, rest,       \* where run() is, and the seconds left of its sleep
  owed            \* history: the file when the last signal came that is not
                  \* too late for the call in progress

daemon == <<status, list, last_mtime, error_count, forced, pc, rest>>
vars == <<now, file, mtime, version, fd, do_reload, daemon, owed>>

(* BlackList_init has just called BlackList_update. *)
Init ==
  /\ now = 1
  /\ file = [p \in 1 .. Parts |-> 0] /\ mtime = 1 /\ version = 0
  /\ fd = file /\ status = 0 /\ list = <<>>
  /\ last_mtime = 0 /\ error_count = 0
  /\ do_reload = FALSE /\ forced = FALSE
  /\ pc = "stat" /\ rest = 0
  /\ owed = file

-----------------------------------------------------------------------------
(* The file is overwritten in place from part k on, or replaced. *)
Overwrite(k) ==
  /\ version < MaxEdits
  /\ EditsApart => now > mtime
  /\ version' = version + 1
  /\ mtime' = now
  /\ file' = [p \in 1 .. Parts |-> IF p < k THEN file[p] ELSE version']
  /\ fd' = IF pc = "read" /\ fd = file THEN file' ELSE fd
  /\ UNCHANGED <<now, do_reload, daemon, owed>>

Replace ==
  /\ version < MaxEdits
  /\ EditsApart => now > mtime
  /\ version' = version + 1
  /\ mtime' = now
  /\ file' = [p \in 1 .. Parts |-> version']
  /\ UNCHANGED <<now, fd, do_reload, daemon, owed>>

(* BlackList_update has opened the file, and run() is going to clear the    *)
(* flag after it: a signal that comes now is cleared with the earlier one.  *)
TooLate == forced /\ pc \in {"read", "end", "sleep"}

(* sigHup; a sleep() in progress ends. *)
sigHup ==
  /\ now < MaxTime /\ pc # "exit"
  /\ do_reload' = TRUE
  /\ rest' = 0
  /\ owed' = IF TooLate THEN owed ELSE file
  /\ UNCHANGED <<now, file, mtime, version, fd, status, list, last_mtime,
                 error_count, forced, pc>>

(* A second passes.  The clock stops at MaxTime, sleeps do not. *)
Tick ==
  /\ now < MaxTime \/ rest > 0
  /\ now' = IF now < MaxTime THEN now + 1 ELSE now
  /\ rest' = IF rest > 0 THEN rest - 1 ELSE 0
  /\ UNCHANGED <<file, mtime, version, fd, do_reload, status, list, last_mtime,
                 error_count, forced, pc, owed>>

-----------------------------------------------------------------------------
(* run() has received an ARP request.  A flagged signal makes it call       *)
(* BlackList_update, which forgets the time of the last reading first.      *)
Request ==
  /\ pc = "idle"
  /\ forced' = do_reload
  /\ last_mtime' = IF do_reload THEN 0 ELSE last_mtime
  /\ pc' = "stat"
  /\ UNCHANGED <<now, file, mtime, version, fd, do_reload, status, list,
                 error_count, rest, owed>>

(* A system call of BlackList_softUpdate fails: the error is counted, and   *)
(* the function goes to its end.                                            *)
Fails ==
  /\ now < MaxTime
  /\ error_count' = error_count + 1
  /\ pc' = "end"
  /\ UNCHANGED <<now, file, mtime, version, fd, do_reload, status, forced, rest,
                 owed>>

StatFails == pc = "stat" /\ Fails /\ UNCHANGED <<list, last_mtime>>
OpenFails == pc = "open" /\ Fails /\ UNCHANGED <<list, last_mtime>>

(* A plausible mistake: the time is recorded although the reading failed. *)
FaultReadFails == pc = "read" /\ Fails /\ last_mtime' = status /\ UNCHANGED list

(* A read error, or a line that does not end in the buffer. *)
ReadFails == pc = "read" /\ Fails /\ last_mtime' = 0 /\ UNCHANGED list

Stat ==
  /\ pc = "stat"
  /\ status' = mtime
  /\ pc' = IF last_mtime # mtime THEN "open" ELSE "end"
  /\ UNCHANGED <<now, file, mtime, version, fd, do_reload, list, last_mtime,
                 error_count, forced, rest, owed>>

(* open(), and BlackList_updateInternal clears both vectors. *)
Open ==
  /\ pc = "open"
  /\ fd' = file
  /\ list' = <<>>
  /\ pc' = "read"
  /\ UNCHANGED <<now, file, mtime, version, do_reload, status, last_mtime,
                 error_count, forced, rest, owed>>

Read ==
  /\ pc = "read"
  /\ Len(list) < Parts
  /\ list' = Append(list, fd[Len(list) + 1])
  /\ UNCHANGED <<now, file, mtime, version, fd, do_reload, status, last_mtime,
                 error_count, forced, pc, rest, owed>>

(* A plausible mistake: the time is taken after the reading. *)
FaultEndOfFile ==
  /\ pc = "read"
  /\ Len(list) = Parts
  /\ last_mtime' = mtime
  /\ error_count' = 0
  /\ pc' = "end"
  /\ UNCHANGED <<now, file, mtime, version, fd, do_reload, status, list, forced,
                 rest, owed>>

(* The end of the file: the time that stat() returned BEFORE the reading is *)
(* recorded, and the errors are forgiven.                                   *)
EndOfFile ==
  /\ pc = "read"
  /\ Len(list) = Parts
  /\ last_mtime' = status
  /\ error_count' = 0
  /\ pc' = "end"
  /\ UNCHANGED <<now, file, mtime, version, fd, do_reload, status, list, forced,
                 rest, owed>>

(* The end of softUpdate: exit, sleep or neither, by the number of errors.  *)
End ==
  /\ pc = "end"
  /\ pc' = IF error_count > MAX_ERRORS THEN "exit" ELSE "sleep"
  /\ rest' = IF error_count > 0 THEN 1 + error_count \div 2 ELSE 0
  /\ UNCHANGED <<now, file, mtime, version, fd, do_reload, status, list, last_mtime,
                 error_count, forced, owed>>

(* A plausible mistake: the flag is cleared after every call. *)
FaultReturn ==
  /\ pc = "sleep" /\ rest = 0
  /\ do_reload' = FALSE
  /\ pc' = "idle"
  /\ UNCHANGED <<now, file, mtime, version, fd, status, list, last_mtime,
                 error_count, forced, rest, owed>>

(* Back in run(): the flag is cleared after BlackList_update, and the       *)
(* request is looked up in the lists.                                       *)
Return ==
  /\ pc = "sleep" /\ rest = 0
  /\ do_reload' = (do_reload /\ ~forced)
  /\ pc' = "idle"
  /\ UNCHANGED <<now, file, mtime, version, fd, status, list, last_mtime,
                 error_count, forced, rest, owed>>

Run == \/ Request \/ Stat \/ StatFails \/ Open \/ OpenFails \/ Read
       \/ ReadFails \/ EndOfFile \/ End \/ Return

Next == (\E k \in 1 .. Parts : Overwrite(k)) \/ Replace \/ sigHup \/ Tick \/ Run

Spec == Init /\ [][Next]_vars

(* The daemon runs, requests keep coming in (Request is a part of Run) and  *)
(* time passes.                                                             *)
FairSpec == Spec /\ WF_vars(Run) /\ WF_vars(Tick)

-----------------------------------------------------------------------------
(* The shape of the state; a process that goes on has at most MAX_ERRORS    *)
(* errors on its account between two calls.                                 *)
ShapeOK ==
  /\ now \in Nat /\ rest \in Nat /\ mtime \in 1 .. now /\ version \in 0 .. MaxEdits
  /\ file \in [1 .. Parts -> 0 .. MaxEdits] /\ fd \in [1 .. Parts -> 0 .. MaxEdits]
  /\ owed \in [1 .. Parts -> 0 .. MaxEdits]
  /\ status \in 0 .. now /\ last_mtime \in 0 .. now
  /\ list \in Seq(0 .. MaxEdits) /\ Len(list) <= Parts
  /\ error_count \in 0 .. MAX_ERRORS + 1
  /\ pc \in {"idle", "stat", "open", "read", "end", "sleep", "exit"}
  /\ pc \notin {"end", "exit"} => error_count <= MAX_ERRORS

FlagsOK == do_reload \in BOOLEAN /\ forced \in BOOLEAN

TypeOK == ShapeOK /\ FlagsOK

(* The test of st_mtime never takes the file for unchanged while the lists  *)
(* differ from it or are incomplete: edits between stat(), open() and the   *)
(* read() calls, signals and failures included.                             *)
ListIsCurrent ==
  pc = "idle" /\ last_mtime = mtime => list = file

(* Everything the file said when a SIGHUP came is on the lists once no      *)
(* signal is flagged any more, or the next request tries to read the file:  *)
(* even what st_mtime does not show, and whatever failed in between.        *)
(* Nothing is said of a signal that is TooLate: the code forgets it.        *)
SignalNotForgotten ==
  pc = "idle" /\ ~do_reload =>
    \/ last_mtime = 0
    \/ Len(list) = Parts /\ \A p \in 1 .. Parts : list[p] >= owed[p]

(* However the file is edited, the lists agree with it again and again, or  *)
(* the daemon gives up because of errors.                                   *)
EventuallyCurrent == []<>((pc = "idle" /\ list = file) \/ pc = "exit")
=============================================================================
