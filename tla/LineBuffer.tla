----------------------------- MODULE LineBuffer -----------------------------
(***************************************************************************)
(* The reading loop of BlackList_updateInternal (src/src/blacklist.c): a   *)
(* buffer of fixed size is filled by read(), cut into lines, and the rest  *)
(* without an end of line is moved to the front.                           *)
(*                                                                         *)
(* The pointers of the code are positions in the file: the buffer holds    *)
(* the characters base+1 .. off of it.                                     *)
(***************************************************************************)
EXTENDS Integers, Sequences

CONSTANTS BufSize   \* sizeof(buffer): 512

ASSUME BufferAssumption == BufSize \in Nat \ {0}

VARIABLES
  file,        \* the characters of the file
  off,         \* end_ptr, or read_ptr before a read(): characters read so far
  base,        \* what buffer[0] is in the file
  line_start,  \* characters handed on
  pc           \* read, lines, eof, toolong or error

bufvars == <<file, off, base, line_start, pc>>

BufferInit ==
  /\ off = 0 /\ base = 0 /\ line_start = 0
  /\ pc = "read"

(* read() on a regular file fills the room that is left in the buffer,      *)
(* unless the file ends before.  No room looks like the end of the file.    *)
Room == BufSize - (off - base)
Count == IF Len(file) - off < Room THEN Len(file) - off ELSE Room

Read ==
  /\ pc = "read"
  /\ off' = off + Count
  /\ pc' = IF Count = 0 THEN "eof" ELSE "lines"
  /\ line_start' = IF Count = 0 THEN line_start ELSE base
  /\ UNCHANGED <<file, base>>

ReadFails ==
  /\ pc = "read"
  /\ pc' = "error"
  /\ UNCHANGED <<file, off, base, line_start>>

(* memchr(line_start, '\n', end_ptr-line_start) *)
Newlines == {i \in line_start + 1 .. off : file[i] = "NL"}

(* A line is complete; expandLine gets the text before its end. *)
TakeLine ==
  /\ pc = "lines"
  /\ line_start' \in Newlines
  /\ \A i \in Newlines : line_start' <= i
  /\ UNCHANGED <<file, off, base, pc>>

TakenText == SubSeq(file, line_start + 1, line_start' - 1)

(* The buffer is used up exactly. *)
Empty ==
  /\ pc = "lines" /\ line_start = off
  /\ base' = off
  /\ pc' = "read"
  /\ UNCHANGED <<file, off, line_start>>

(* A plausible mistake: the rest is moved, but read() starts at the front. *)
FaultMoveRest ==
  /\ pc = "lines" /\ line_start < off /\ Newlines = {} /\ line_start # base
  /\ base' = off
  /\ pc' = "read"
  /\ UNCHANGED <<file, off, line_start>>

(* The rest of the buffer is the beginning of a line: memmove. *)
MoveRest ==
  /\ pc = "lines" /\ line_start < off /\ Newlines = {} /\ line_start # base
  /\ base' = line_start
  /\ pc' = "read"
  /\ UNCHANGED <<file, off, line_start>>

(* A plausible mistake: a rest without end of line is refused everywhere. *)
FaultTooLong ==
  /\ pc = "lines" /\ line_start < off /\ Newlines = {}
  /\ pc' = "toolong"
  /\ UNCHANGED <<file, off, base, line_start>>

(* It begins at the front of the buffer: "line too long". *)
TooLong ==
  /\ pc = "lines" /\ line_start < off /\ Newlines = {} /\ line_start = base
  /\ pc' = "toolong"
  /\ UNCHANGED <<file, off, base, line_start>>

-----------------------------------------------------------------------------
(* read() is never called without room in the buffer: its result 0 would be *)
(* taken for the end of the file, and the rest of the list be forgotten.    *)
RoomForMore == pc = "read" => Room > 0

(* "line too long" is said only of a line that does not fit into the buffer *)
(* with its end of line, or of the last line when it has none.              *)
LongOrUnterminated ==
  pc = "toolong" =>
    \A i \in DOMAIN file : i > line_start /\ file[i] = "NL" => i - line_start > BufSize

(* Filling, cutting and moving the buffer amounts to reading the file line  *)
(* by line: none is lost, cut in two or handed on twice.                    *)
Feed == INSTANCE LineFeed WITH
  cursor <- line_start,
  feed <- IF pc = "eof" THEN "eof"
          ELSE IF pc \in {"toolong", "error"} THEN "failed" ELSE "open"

ImplementsLineFeed == Feed!FeedSpec
=============================================================================
