------------------------------ MODULE LineFeed ------------------------------
(***************************************************************************)
(* What the reader of the ipfile promises: the lines of the file, one by   *)
(* one, until there is no further end of line or the reading is given up.  *)
(* There is no buffer here; `cursor' characters have been dealt with.      *)
(***************************************************************************)
EXTENDS Integers, Sequences

VARIABLES file, cursor, feed  \* feed: open, eof or failed

feedvars == <<file, cursor, feed>>

FeedInit == cursor = 0 /\ feed = "open"

EndsOfLine == {i \in DOMAIN file : i > cursor /\ file[i] = "NL"}

Deliver ==
  /\ feed = "open"
  /\ cursor' \in EndsOfLine
  /\ \A i \in EndsOfLine : cursor' <= i
  /\ UNCHANGED <<file, feed>>

Finish == feed = "open" /\ EndsOfLine = {} /\ feed' = "eof" /\ UNCHANGED <<file, cursor>>
GiveUp == feed = "open" /\ feed' = "failed" /\ UNCHANGED <<file, cursor>>

FeedSpec == FeedInit /\ [][Deliver \/ Finish \/ GiveUp]_feedvars
=============================================================================
