------------------------------- MODULE IPFile -------------------------------
(***************************************************************************)
(* BlackList_updateInternal as a whole: LineBuffer cuts the file into      *)
(* lines, and each line is expanded and parsed (Expansion) before the next *)
(* one is looked for.  What the entries mean is the subject of BlackList.  *)
(***************************************************************************)
EXTENDS LineBuffer, Expansion

CONSTANTS Files   \* the files the administrator may have written

ASSUME FilesAssumption == Files \subseteq Seq(Char)

vars == <<bufvars, expvars>>

Expanding == state \in {"call", "iterate"}

Init ==
  /\ file \in Files
  /\ BufferInit
  /\ ExpandInit

(* The buffer waits while a line is expanded. *)
Buffer ==
  /\ ~Expanding
  /\ \/ (Read \/ ReadFails \/ Empty \/ MoveRest \/ TooLong) /\ UNCHANGED expvars
     \/ TakeLine /\ Expand(TakenText)

Next == Buffer \/ (ExpandNext /\ UNCHANGED bufvars)

Spec == Init /\ [][Next]_vars

(* One process that never waits. *)
FairSpec == Spec /\ WF_vars(Next)

-----------------------------------------------------------------------------
(* Some range of the file ends with the greatest int, or with a number that *)
(* is cut off to it: the loop of iterateRange may then never end.           *)
EndlessRange ==
  \E i \in DOMAIN file :
    file[i] = "-" /\ ToInt(Clamp(Strtol(file, i + 1).val)) = IntMax

(* Reading a file ends, with its end or with an error, whatever its ranges. *)
ReadingEnds == EndlessRange \/ <>(pc \in {"eof", "toolong", "error"})
=============================================================================
