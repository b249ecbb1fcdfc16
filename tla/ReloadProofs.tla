---------------------------- MODULE ReloadProofs ----------------------------
(***************************************************************************)
(* The reload protocol is right for files of any number of parts, any      *)
(* number of edits and any number of failures, as long as every edit gets  *)
(* a modification time of its own.                                         *)
(***************************************************************************)
EXTENDS Reload, TLAPS

(* The part of the type invariant the argument needs. *)
Types ==
  /\ now \in Nat /\ mtime \in Nat \ {0} /\ status \in Nat /\ last_mtime \in Nat
  /\ version \in Nat
  /\ file \in [1 .. Parts -> Nat] /\ fd \in [1 .. Parts -> Nat]
  /\ list \in Seq(Nat) /\ Len(list) <= Parts

(* No recorded time is later than that of the file. *)
Times == mtime <= now /\ status <= mtime /\ last_mtime <= mtime

(* A reading that began with the present time of the file has so far copied *)
(* the present content.                                                     *)
ReadingInv ==
  /\ pc \in {"open", "read"} => last_mtime # mtime
  /\ pc = "read" /\ status = mtime =>
       fd = file /\ \A i \in 1 .. Len(list) : list[i] = file[i]

(* At every point but inside a reading the recorded time vouches for the    *)
(* lists.                                                                   *)
ListInv == last_mtime = mtime => list = file

Inv == Types /\ Times /\ ReadingInv /\ ListInv

(* A content f is at least as new as what the last signal was about. *)
Covers(f) == \A p \in 1 .. Parts : f[p] >= owed[p]

Served == last_mtime = 0 \/ (Len(list) = Parts /\ Covers(list))

(* Contents consist of the numbers of edits that were made. *)
Contents ==
  /\ version \in Nat /\ list \in Seq(Nat)
  /\ file \in [1 .. Parts -> Nat] /\ fd \in [1 .. Parts -> Nat]
  /\ owed \in [1 .. Parts -> Nat]
  /\ \A p \in 1 .. Parts : file[p] <= version
  /\ pc \in {"idle", "stat", "open", "read", "end", "sleep", "exit"}

(* The file only gets newer, so whoever opens it after the signal reads     *)
(* what it was about.  While a signal waits for its call nothing is known.  *)
OwedInv ==
  /\ Covers(file)
  /\ forced /\ pc \in {"stat", "open"} => last_mtime = 0
  /\ pc # "read" /\ (~do_reload \/ (forced /\ pc # "idle")) => Served
  /\ pc = "read" /\ (~do_reload \/ forced) =>
       Covers(fd) /\ \A i \in 1 .. Len(list) : list[i] >= owed[i]

SignalInv == Contents /\ OwedInv

-----------------------------------------------------------------------------
(* BlackList_init establishes the invariant. *)
LEMMA InitInv == Init => Inv
<1> SUFFICES ASSUME Init PROVE Inv
  OBVIOUS
<1>1. file = [p \in 1 .. Parts |-> 0] /\ fd = file
  BY DEF Init
<1>2. file \in [1 .. Parts -> Nat] /\ fd \in [1 .. Parts -> Nat]
  BY <1>1
<1>3. list \in Seq(Nat) /\ Len(list) <= Parts
  BY ReloadAssumption DEF Init
<1> QED BY <1>2, <1>3 DEF Init, Inv, Types, Times, ReadingInv, ListInv

(* An edit makes every recorded time an old one. *)
LEMMA EditInv ==
  ASSUME EditsApart, Inv, Replace \/ \E k \in 1 .. Parts : Overwrite(k)
  PROVE  Inv'
<1>1. /\ now > mtime /\ mtime' = now /\ version' = version + 1
      /\ UNCHANGED <<now, do_reload, daemon>>
      /\ file' \in [1 .. Parts -> Nat] /\ fd' \in [1 .. Parts -> Nat]
  <2>1. CASE Replace
    BY <2>1 DEF Replace, Inv, Types
  <2>2. ASSUME NEW k \in 1 .. Parts, Overwrite(k) PROVE <1>1!:
    BY <2>2 DEF Overwrite, Inv, Types
  <2> QED BY <2>1, <2>2
<1>2. Types'
  BY <1>1 DEF Inv, Types, daemon
<1>3. status' < mtime' /\ last_mtime' < mtime' /\ mtime' <= now'
  BY <1>1 DEF Inv, Types, Times, daemon
<1> QED BY <1>2, <1>3 DEF Inv, Types, Times, ReadingInv, ListInv

(* The steps that touch neither the file nor the lists nor a time. *)
LEMMA QuietInv ==
  ASSUME Inv, sigHup \/ Tick \/ End \/ Return PROVE Inv'
<1>1. /\ UNCHANGED <<file, mtime, version, fd, status, list, last_mtime, forced>>
      /\ now' \in Nat /\ now' >= now
      /\ pc' \in {"open", "read"} => pc' = pc
  BY ReloadAssumption DEF sigHup, Tick, End, Return, Inv, Types
<1>2. Types' /\ Times'
  BY <1>1 DEF Inv, Types, Times
<1> QED BY <1>1, <1>2 DEF Inv, Types, Times, ReadingInv, ListInv

(* Forgetting the time for BlackList_update is always safe. *)
LEMMA RequestInv == ASSUME Inv, Request PROVE Inv'
  BY DEF Inv, Types, Times, ReadingInv, ListInv, Request

(* Failed calls record no time. *)
LEMMA FailsInv ==
  ASSUME Inv, StatFails \/ OpenFails \/ ReadFails PROVE Inv'
<1>1. CASE StatFails \/ OpenFails
  BY <1>1 DEF Inv, Types, Times, ReadingInv, ListInv, StatFails, OpenFails, Fails
<1>2. CASE ReadFails
  BY <1>2 DEF Inv, Types, Times, ReadingInv, ListInv, ReadFails, Fails
<1> QED BY <1>1, <1>2

(* stat() in BlackList_softUpdate decides on a reading. *)
LEMMA StatInv == ASSUME Inv, Stat PROVE Inv'
  BY DEF Inv, Types, Times, ReadingInv, ListInv, Stat

(* A reading starts with empty lists. *)
LEMMA OpenInv == ASSUME Inv, Open PROVE Inv'
<1>1. list' = <<>> /\ Len(list') = 0 /\ list' \in Seq(Nat)
  BY DEF Open
<1> QED BY <1>1, ReloadAssumption DEF Inv, Types, Times, ReadingInv, ListInv, Open

(* A part is copied from the file that was opened. *)
LEMMA ReadInv == ASSUME Inv, Read PROVE Inv'
<1>1. Len(list) + 1 \in 1 .. Parts /\ fd[Len(list) + 1] \in Nat
  BY ReloadAssumption DEF Inv, Types, Read
<1>2. /\ list' \in Seq(Nat) /\ Len(list') = Len(list) + 1
      /\ \A i \in 1 .. Len(list) : list'[i] = list[i]
      /\ list'[Len(list) + 1] = fd[Len(list) + 1]
  BY <1>1 DEF Inv, Types, Read
<1>3. Types' /\ Times'
  BY <1>1, <1>2 DEF Inv, Types, Times, Read
<1>4. ReadingInv'
  <2>1. (pc \in {"open", "read"} => last_mtime # mtime)'
    BY DEF Inv, ReadingInv, Read
  <2>2. ASSUME status = mtime
        PROVE  fd' = file' /\ \A i \in 1 .. Len(list') : list'[i] = file'[i]
    <3>1. fd = file /\ \A i \in 1 .. Len(list) : list[i] = file[i]
      BY <2>2 DEF Inv, ReadingInv, Read
    <3> QED BY <3>1, <1>1, <1>2 DEF Read, Inv, Types
  <2> QED BY <2>1, <2>2 DEF ReadingInv, Read
<1>5. ListInv'
  BY DEF Inv, ReadingInv, ListInv, Read
<1> QED BY <1>3, <1>4, <1>5 DEF Inv

(* The time recorded at the end of the file is that of its content. *)
LEMMA EndOfFileInv == ASSUME Inv, EndOfFile PROVE Inv'
<1>1. Types' /\ Times' /\ ReadingInv'
  BY DEF Inv, Types, Times, ReadingInv, EndOfFile
<1>2. ListInv'
  <2>1. SUFFICES ASSUME status = mtime PROVE list = file
    BY DEF ListInv, EndOfFile
  <2>2. \A i \in 1 .. Len(list) : list[i] = file[i]
    BY <2>1 DEF Inv, ReadingInv, EndOfFile
  <2>3. list \in [1 .. Parts -> Nat] /\ file \in [1 .. Parts -> Nat]
    BY DEF Inv, Types, EndOfFile
  <2> QED BY <2>2, <2>3 DEF EndOfFile
<1> QED BY <1>1, <1>2 DEF Inv

(* Every step preserves the invariant if edits have different times. *)
LEMMA NextInv == EditsApart /\ Inv /\ [Next]_vars => Inv'
<1> SUFFICES ASSUME EditsApart, Inv, [Next]_vars PROVE Inv'
  OBVIOUS
<1>1. CASE Replace \/ \E k \in 1 .. Parts : Overwrite(k)
  BY <1>1, EditInv
<1>2. CASE sigHup \/ Tick \/ End \/ Return
  BY <1>2, QuietInv
<1>3. CASE Request
  BY <1>3, RequestInv
<1>4. CASE StatFails \/ OpenFails \/ ReadFails
  BY <1>4, FailsInv
<1>5. CASE Stat
  BY <1>5, StatInv
<1>6. CASE Open
  BY <1>6, OpenInv
<1>7. CASE Read
  BY <1>7, ReadInv
<1>8. CASE EndOfFile
  BY <1>8, EndOfFileInv
<1>9. CASE UNCHANGED vars
  BY <1>9 DEF vars, daemon, Inv, Types, Times, ReadingInv, ListInv
<1> QED BY <1>1, <1>2, <1>3, <1>4, <1>5, <1>6, <1>7, <1>8, <1>9 DEF Next, Run

(* BlackList_softUpdate never overlooks a change of the ipfile, provided    *)
(* that no two edits have the same st_mtime.                                *)
THEOREM ChangesAreSeen ==
  ASSUME EditsApart PROVE Spec => []ListIsCurrent
<1>1. Inv /\ [Next]_vars => Inv'
  BY NextInv
<1>2. Inv => ListIsCurrent
  BY DEF Inv, ListInv, ListIsCurrent
<1> QED BY <1>1, <1>2, InitInv, PTL DEF Spec

-----------------------------------------------------------------------------
(* No signal has arrived at the start. *)
LEMMA SignalInit == Init => SignalInv
<1> SUFFICES ASSUME Init PROVE SignalInv
  OBVIOUS
<1>1. file = [p \in 1 .. Parts |-> 0] /\ fd = file /\ owed = file /\ list = <<>>
  BY DEF Init
<1>2. Contents
  BY <1>1 DEF Init, Contents
<1>3. Covers(file)
  BY <1>1 DEF Covers
<1> QED BY <1>2, <1>3 DEF Init, SignalInv, OwedInv, Served

(* An edit makes the file newer, and so the file that is being read if it   *)
(* is the same.                                                             *)
LEMMA SignalEdit ==
  ASSUME SignalInv, Replace \/ \E k \in 1 .. Parts : Overwrite(k)
  PROVE  SignalInv'
<1>1. /\ version' = version + 1 /\ UNCHANGED <<now, do_reload, daemon, owed>>
      /\ file' \in [1 .. Parts -> Nat]
      /\ \A p \in 1 .. Parts : file'[p] >= file[p] /\ file'[p] <= version'
      /\ fd' = fd \/ fd' = file'
  <2>1. CASE Replace
    BY <2>1 DEF Replace, SignalInv, Contents
  <2>2. ASSUME NEW k \in 1 .. Parts, Overwrite(k) PROVE <1>1!:
    <3>1. version \in Nat /\ version' = version + 1
      BY <2>2 DEF Overwrite, SignalInv, Contents
    <3>2. \A p \in 1 .. Parts : file[p] \in Nat /\ file[p] <= version
      BY DEF SignalInv, Contents
    <3>3. file' = [p \in 1 .. Parts |-> IF p < k THEN file[p] ELSE version']
      BY <2>2 DEF Overwrite
    <3>4. /\ file' \in [1 .. Parts -> Nat]
          /\ \A p \in 1 .. Parts : file'[p] >= file[p] /\ file'[p] <= version'
      BY <3>1, <3>2, <3>3
    <3> QED BY <2>2, <3>1, <3>4 DEF Overwrite
  <2> QED BY <2>1, <2>2
<1>2. Contents'
  BY <1>1 DEF SignalInv, Contents, daemon
<1>3. Covers(file)'
  BY <1>1 DEF SignalInv, Contents, OwedInv, Covers
<1>4. Covers(fd) => Covers(fd)'
  BY <1>1, <1>3 DEF Covers
<1>5. Served => Served'
  BY <1>1 DEF Served, Covers, daemon
<1> QED BY <1>1, <1>2, <1>3, <1>4, <1>5 DEF SignalInv, OwedInv, daemon

(* A new signal is about the present file, unless it comes TooLate. *)
LEMMA SignalArrives == ASSUME SignalInv, sigHup PROVE SignalInv'
<1>1. /\ UNCHANGED <<file, version, fd, list, last_mtime, forced, pc>>
      /\ do_reload' = TRUE
  BY DEF sigHup
<1>2. CASE TooLate
  BY <1>1, <1>2 DEF sigHup, TooLate, SignalInv, Contents, OwedInv, Served, Covers
<1>3. CASE ~TooLate
  <2>1. owed' = file
    BY <1>3 DEF sigHup
  <2>2. Contents' /\ Covers(file)'
    BY <1>1, <2>1 DEF SignalInv, Contents, Covers
  <2>3. ~(forced /\ pc \in {"read", "end", "sleep"}) /\ pc # "exit"
    BY <1>3 DEF TooLate, sigHup
  <2>4. forced /\ pc \in {"stat", "open"} => last_mtime = 0
    BY DEF SignalInv, OwedInv
  <2>5. pc \in {"idle", "stat", "open", "read", "end", "sleep", "exit"}
    BY DEF SignalInv, Contents
  <2> QED BY <1>1, <2>2, <2>3, <2>4, <2>5 DEF SignalInv, OwedInv, Served
<1> QED BY <1>2, <1>3

(* Time passes, and run() goes from call to call. *)
LEMMA SignalRun ==
  ASSUME SignalInv, Tick \/ Request \/ Stat \/ End \/ Return
  PROVE  SignalInv'
<1>1. UNCHANGED <<file, version, fd, list, owed>>
  BY DEF Tick, Request, Stat, End, Return
<1>2. Contents' /\ Covers(file)'
  <2>1. pc' \in {"idle", "stat", "open", "read", "end", "sleep", "exit"}
    BY DEF SignalInv, Contents, Tick, Request, Stat, End, Return
  <2> QED BY <1>1, <2>1 DEF SignalInv, Contents, OwedInv, Covers
<1>3. last_mtime' \in {0, last_mtime} /\ (Served => Served')
  BY <1>1 DEF Tick, Request, Stat, End, Return, Served, Covers
<1>4. CASE Tick
  BY <1>1, <1>2, <1>3, <1>4 DEF Tick, SignalInv, OwedInv, Covers
<1>5. CASE Request
  <2>1. do_reload => last_mtime' = 0
    BY <1>5 DEF Request
  <2>2. Served'
    BY <1>3, <1>5, <2>1 DEF Request, SignalInv, OwedInv, Served
  <2> QED BY <1>2, <1>5, <2>1, <2>2 DEF Request, SignalInv, OwedInv
<1>6. CASE Stat
  BY <1>1, <1>2, <1>3, <1>6 DEF Stat, SignalInv, OwedInv
<1>7. CASE End
  BY <1>1, <1>2, <1>3, <1>7 DEF End, SignalInv, OwedInv
<1>8. CASE Return
  BY <1>1, <1>2, <1>3, <1>8 DEF Return, SignalInv, OwedInv
<1> QED BY <1>4, <1>5, <1>6, <1>7, <1>8

(* A call that fails leaves the lists as they were, or forgets the time. *)
LEMMA SignalFails ==
  ASSUME SignalInv, StatFails \/ OpenFails \/ ReadFails PROVE SignalInv'
<1>1. /\ UNCHANGED <<file, version, fd, list, owed, forced, do_reload>>
      /\ pc' = "end"
  BY DEF StatFails, OpenFails, ReadFails, Fails
<1>2. Contents' /\ Covers(file)'
  BY <1>1 DEF SignalInv, Contents, OwedInv, Covers
<1>3. CASE StatFails \/ OpenFails
  <2>1. pc \in {"stat", "open"} /\ (Served => Served')
    BY <1>1, <1>3 DEF StatFails, OpenFails, Served, Covers
  <2> QED BY <1>1, <1>2, <2>1 DEF SignalInv, OwedInv
<1>4. CASE ReadFails
  <2>1. Served'
    BY <1>4 DEF ReadFails, Served
  <2> QED BY <1>1, <1>2, <2>1 DEF SignalInv, OwedInv
<1> QED BY <1>3, <1>4

(* open() finds the present file ... *)
LEMMA SignalOpen == ASSUME SignalInv, Open PROVE SignalInv'
<1>1. /\ UNCHANGED <<file, version, owed, forced, do_reload, last_mtime>>
      /\ fd' = file /\ list' = <<>> /\ Len(list') = 0 /\ pc' = "read"
  BY DEF Open
<1>2. Contents' /\ Covers(file)' /\ Covers(fd)'
  BY <1>1 DEF SignalInv, Contents, OwedInv, Covers
<1> QED BY <1>1, <1>2 DEF SignalInv, OwedInv

(* ... read() copies it ... *)
LEMMA SignalRead == ASSUME SignalInv, Read PROVE SignalInv'
<1>1. Len(list) + 1 \in 1 .. Parts /\ fd[Len(list) + 1] \in Nat
  BY ReloadAssumption DEF SignalInv, Contents, Read
<1>2. /\ list' \in Seq(Nat) /\ Len(list') = Len(list) + 1
      /\ \A i \in 1 .. Len(list) : list'[i] = list[i]
      /\ list'[Len(list) + 1] = fd[Len(list) + 1]
  BY <1>1 DEF SignalInv, Contents, Read
<1>3. UNCHANGED <<file, version, fd, owed, forced, do_reload, last_mtime, pc>>
      /\ pc = "read"
  BY DEF Read
<1>4. Contents' /\ Covers(file)' /\ (Covers(fd) => Covers(fd)')
  BY <1>2, <1>3 DEF SignalInv, Contents, OwedInv, Covers
<1>5. ASSUME ~do_reload \/ forced, NEW i \in 1 .. Len(list')
      PROVE  list'[i] >= owed[i]
  <2>1. Covers(fd) /\ \A j \in 1 .. Len(list) : list[j] >= owed[j]
    BY <1>3, <1>5 DEF SignalInv, OwedInv
  <2>2. CASE i = Len(list) + 1
    BY <1>1, <1>2, <2>1, <2>2 DEF Covers
  <2>3. CASE i # Len(list) + 1
    <3>1. i \in 1 .. Len(list)
      BY <1>2, <1>5, <2>3 DEF SignalInv, Contents
    <3> QED BY <1>2, <2>1, <3>1
  <2> QED BY <2>2, <2>3
<1> QED BY <1>3, <1>4, <1>5 DEF SignalInv, OwedInv

(* ... and at its end the lists have everything. *)
LEMMA SignalEndOfFile == ASSUME SignalInv, EndOfFile PROVE SignalInv'
<1>1. /\ UNCHANGED <<file, version, fd, list, owed, forced, do_reload>>
      /\ pc = "read" /\ pc' = "end" /\ Len(list) = Parts
  BY DEF EndOfFile
<1>2. Contents' /\ Covers(file)'
  BY <1>1 DEF SignalInv, Contents, OwedInv, Covers
<1>3. ~do_reload \/ forced => Served'
  BY <1>1 DEF SignalInv, OwedInv, Served, Covers
<1> QED BY <1>1, <1>2, <1>3 DEF SignalInv, OwedInv

(* Every step keeps what is known about the last signal. *)
LEMMA SignalNext == SignalInv /\ [Next]_vars => SignalInv'
<1> SUFFICES ASSUME SignalInv, [Next]_vars PROVE SignalInv'
  OBVIOUS
<1>1. CASE UNCHANGED vars
  BY <1>1 DEF vars, daemon, SignalInv, Contents, OwedInv, Served, Covers
<1> QED BY <1>1, SignalEdit, SignalArrives, SignalRun, SignalFails, SignalOpen,
           SignalRead, SignalEndOfFile DEF Next, Run

(* When no signal is flagged any more the lists have what the file said at  *)
(* the last one that was not TooLate, or the next request tries to read it: *)
(* without any assumption on the times of the edits.                        *)
THEOREM SignalsAreServed == Spec => []SignalNotForgotten
<1>1. SignalInv => SignalNotForgotten
  BY DEF SignalInv, OwedInv, Served, Covers, SignalNotForgotten
<1> QED BY <1>1, SignalInit, SignalNext, PTL DEF Spec

-----------------------------------------------------------------------------
(* The start has the right shape. *)
LEMMA ShapeInit == Init => ShapeOK
<1> SUFFICES ASSUME Init PROVE ShapeOK
  OBVIOUS
<1>1. list = <<>> /\ list \in Seq(0 .. MaxEdits) /\ Len(list) = 0
  BY DEF Init
<1>2. 0 \in 0 .. MaxEdits
  BY ReloadAssumption
<1>3. file \in [1 .. Parts -> 0 .. MaxEdits] /\ fd = file
  BY <1>2 DEF Init
<1> QED BY <1>1, <1>3, ReloadAssumption DEF Init, ShapeOK

(* Edits and the passing of time keep it ... *)
LEMMA ShapeWorld ==
  ASSUME ShapeOK, sigHup \/ Tick \/ Replace \/ \E k \in 1 .. Parts : Overwrite(k)
  PROVE  ShapeOK'
<1> USE ReloadAssumption
<1>1. CASE sigHup
  BY <1>1 DEF ShapeOK, sigHup
<1>2. CASE Tick
  BY <1>2 DEF ShapeOK, Tick
<1>3. CASE Replace
  BY <1>3 DEF ShapeOK, Replace, daemon
<1>4. ASSUME NEW k \in 1 .. Parts, Overwrite(k) PROVE ShapeOK'
  <2>1. version' \in 0 .. MaxEdits
    BY <1>4 DEF ShapeOK, Overwrite
  <2>2. file' \in [1 .. Parts -> 0 .. MaxEdits]
    BY <1>4, <2>1 DEF ShapeOK, Overwrite
  <2>3. fd' \in [1 .. Parts -> 0 .. MaxEdits]
    BY <1>4, <2>2 DEF ShapeOK, Overwrite
  <2>4. mtime' \in 1 .. now' /\ now' = now /\ UNCHANGED <<do_reload, daemon, owed>>
    BY <1>4 DEF ShapeOK, Overwrite
  <2> QED BY <2>1, <2>2, <2>3, <2>4 DEF ShapeOK, daemon
<1> QED BY <1>1, <1>2, <1>3, <1>4

(* ... and so does the daemon: a call that fails was entered with at most   *)
(* MAX_ERRORS errors, and one more makes the process end.                   *)
LEMMA ShapeRun == ASSUME ShapeOK, Run PROVE ShapeOK'
<1> USE ReloadAssumption
<1>1. CASE Request
  BY <1>1 DEF ShapeOK, Request
<1>2. CASE Stat
  BY <1>2 DEF ShapeOK, Stat
<1>3. CASE StatFails \/ OpenFails \/ ReadFails
  <2>1. /\ pc \in {"stat", "open", "read"} /\ pc' = "end"
        /\ error_count' = error_count + 1
        /\ last_mtime' \in {0, last_mtime} /\ UNCHANGED list
        /\ UNCHANGED <<now, file, mtime, version, fd, status, rest, owed>>
    BY <1>3 DEF StatFails, OpenFails, ReadFails, Fails
  <2>2. error_count' \in 0 .. MAX_ERRORS + 1 /\ last_mtime' \in 0 .. now
    BY <2>1 DEF ShapeOK
  <2> QED BY <2>1, <2>2 DEF ShapeOK
<1>4. CASE Open
  <2>1. list' \in Seq(0 .. MaxEdits) /\ Len(list') = 0
    BY <1>4 DEF Open
  <2> QED BY <1>4, <2>1 DEF ShapeOK, Open
<1>5. CASE Read
  <2>1. Len(list) \in Nat /\ fd[Len(list) + 1] \in 0 .. MaxEdits
    BY <1>5 DEF ShapeOK, Read
  <2>2. list' \in Seq(0 .. MaxEdits) /\ Len(list') = Len(list) + 1
    BY <1>5, <2>1 DEF ShapeOK, Read
  <2> QED BY <1>5, <2>1, <2>2 DEF ShapeOK, Read
<1>6. CASE EndOfFile
  BY <1>6 DEF ShapeOK, EndOfFile
<1>7. CASE End
  <2>1. 1 + error_count \div 2 \in Nat
    BY <1>7 DEF ShapeOK, End
  <2>2. rest' \in Nat
    BY <1>7, <2>1 DEF End
  <2> QED BY <1>7, <2>2 DEF ShapeOK, End
<1>8. CASE Return
  BY <1>8 DEF ShapeOK, Return
<1> QED BY <1>1, <1>2, <1>3, <1>4, <1>5, <1>6, <1>7, <1>8 DEF Run

(* The flags are only ever set to truth values. *)
LEMMA FlagsNext == ASSUME FlagsOK, [Next]_vars PROVE FlagsOK'
<1> USE DEF FlagsOK
<1>1. CASE Replace \/ \E k \in 1 .. Parts : Overwrite(k)
  BY <1>1 DEF Replace, Overwrite, daemon
<1>2. CASE sigHup \/ Tick
  BY <1>2 DEF sigHup, Tick
<1>3. CASE Request
  BY <1>3 DEF Request
<1>4. CASE StatFails \/ OpenFails \/ ReadFails
  BY <1>4 DEF StatFails, OpenFails, ReadFails, Fails
<1>5. CASE Stat \/ Open \/ Read
  BY <1>5 DEF Stat, Open, Read
<1>6. CASE EndOfFile
  BY <1>6 DEF EndOfFile
<1>7. CASE End \/ Return
  BY <1>7 DEF End, Return
<1>8. CASE UNCHANGED vars
  BY <1>8 DEF vars, daemon
<1> QED BY <1>1, <1>2, <1>3, <1>4, <1>5, <1>6, <1>7, <1>8 DEF Next, Run

(* The state keeps its shape whatever the edits; between two calls of       *)
(* BlackList_softUpdate no more than MAX_ERRORS failures are on its account. *)
THEOREM ReloadTypeCorrect == Spec => []TypeOK
<1>1. Init => TypeOK
  <2>1. Init => FlagsOK
    BY DEF Init, FlagsOK
  <2> QED BY <2>1, ShapeInit DEF TypeOK
<1>2. TypeOK /\ [Next]_vars => TypeOK'
  <2> SUFFICES ASSUME TypeOK, [Next]_vars PROVE TypeOK'
    OBVIOUS
  <2>1. ShapeOK'
    <3>1. CASE UNCHANGED vars
      BY <3>1 DEF vars, daemon, TypeOK, ShapeOK
    <3> QED BY <3>1, ShapeWorld, ShapeRun DEF Next, TypeOK
  <2>2. FlagsOK'
    BY FlagsNext DEF TypeOK
  <2> QED BY <2>1, <2>2 DEF TypeOK
<1> QED BY <1>1, <1>2, PTL DEF Spec
=============================================================================
