------------------------------ MODULE Expansion ------------------------------
(***************************************************************************)
(* The expansion of "{from-to}" and "{item,item}" in a line of the ipfile: *)
(* BlackList_expandLine with its helpers iterateList and iterateRange      *)
(* (src/src/blacklist.c), which call each other recursively.  `stack' has  *)
(* a frame for each call that is iterating, the innermost one last.        *)
(*                                                                         *)
(* Each frame has a buffer from alloca().  Its first part, up to the '{',  *)
(* is copied once; every item overwrites the rest.  parseLine works in     *)
(* that same buffer.                                                       *)
(***************************************************************************)
EXTENDS IPLine

CONSTANTS IntMax, LongMax   \* of strtol() and of `int start, end'

ASSUME ExpansionAssumption ==
  IntMax \in Nat /\ LongMax \in Nat /\ IntMax <= LongMax

VARIABLES
  line,    \* the text handed over by updateInternal
  stack,   \* frames [prefix, list, next, last, post, size]
  arg,     \* argument of the call of expandLine that is due
  parsed,  \* the entries parseLine has made of this line
  state    \* idle, call, iterate, done or error

expvars == <<line, stack, arg, parsed, state>>

ExpandInit ==
  /\ line = <<>> /\ stack = <<>> /\ arg = <<>> /\ parsed = {}
  /\ state = "idle"

Top == stack[Len(stack)]
Below == SubSeq(stack, 1, Len(stack) - 1)

-----------------------------------------------------------------------------
(* The scan of expandLine.  It reads up to the first '}', or to the end or  *)
(* a comment.  Outside of {..} digits and marks mean nothing, but ',' and   *)
(* '-' must not be mixed there either.                                      *)
Stop(t) == Find(t, 1, {"#"})
Open(t) == Find(t, 1, {"{", "#"})
Close(t) == Find(t, 1, {"}", "#"})

In(t, i, k) == {t[j] : j \in i .. k}

HasRange(t) == Close(t) < Stop(t)
Mixed(C) == {",", "-"} \subseteq C

ScanError(t) ==
  LET o == Open(t)  c == Close(t)  inside == In(t, o + 1, c - 1)
  IN  \/ Mixed(In(t, 1, IF o < c THEN o - 1 ELSE c - 1))  \* mixed range-types
      \/ c < o                                        \* unexpected end of range
      \/ o < c /\ \/ c = Stop(t)                      \* range not closed
                  \/ ~(inside \subseteq Digit \cup {",", "-"})
                  \/ Mixed(inside)
                  \/ inside \cap {",", "-"} = {}      \* can not parse range

-----------------------------------------------------------------------------
(* `int': a long is cut off to its low bits, and the successor of the       *)
(* greatest one is undefined: the least one, or, in a wider register, a     *)
(* number beyond `end'.                                                     *)
ToInt(v) == ((v + IntMax + 1) % (2 * (IntMax + 1))) - (IntMax + 1)

Clamp(v) == IF v > LongMax THEN LongMax
            ELSE IF v < -LongMax - 1 THEN -LongMax - 1 ELSE v

(* fmt_uint, to which the number is passed as an unsigned int. *)
fmt_uint[n \in Nat] ==
  IF n < Base THEN <<Digits[n + 1]>>
  ELSE Append(fmt_uint[n \div Base], Digits[(n % Base) + 1])

Fmt(v) == fmt_uint[IF v >= 0 THEN v ELSE v + 2 * (IntMax + 1)]

(* iterateRange: the two numbers behind position i, and what it refuses of  *)
(* them when the '}' is at c.                                               *)
Numbers(t, i) ==
  {[from |-> f, to |-> Strtol(t, f.end + 1)] : f \in {Strtol(t, i)}}

Ranges(t, i, c) ==
  {[next |-> ToInt(Clamp(n.from.val)), last |-> ToInt(Clamp(n.to.val)),
    ok |-> At(t, n.from.end) = "-" /\ At(t, n.to.end) = "}" /\ n.to.end <= c]
     : n \in Numbers(t, i)}

(* A plausible mistake: a range of one number is taken for descending. *)
FaultRefused(r) == ~r.ok \/ r.next < 0 \/ r.last < 0 \/ r.next >= r.last

Refused(r) == ~r.ok \/ r.next < 0 \/ r.last < 0 \/ r.next > r.last

(* A plausible mistake: the buffer has no room for the item. *)
FaultFrame(t, list, next, last) ==
  [prefix |-> SubSeq(t, 1, Open(t) - 1), list |-> list,
   next |-> next, last |-> last,
   post |-> SubSeq(t, Close(t) + 1, Len(t)),
   size |-> Open(t) + Len(t) - Close(t)]

(* A frame: the copied part of the line up to the '{', the list or the      *)
(* numbers that are left, the text behind the '}', the size of the buffer.  *)
Frame(t, list, next, last) ==
  [prefix |-> SubSeq(t, 1, Open(t) - 1), list |-> list,
   next |-> next, last |-> last,
   post |-> SubSeq(t, Close(t) + 1, Len(t)), size |-> Len(t)]

-----------------------------------------------------------------------------
(* updateInternal calls expandLine with a line. *)
Expand(t) ==
  /\ state # "call" /\ state # "iterate"
  /\ line' = t /\ arg' = t
  /\ stack' = <<>> /\ parsed' = {}
  /\ state' = "call"

(* A false result goes up through all callers. *)
Error ==
  /\ state' = "error"
  /\ stack' = <<>>
  /\ UNCHANGED <<line, arg, parsed>>

ExpandError == state = "call" /\ ScanError(arg) /\ Error

Push(f) ==
  /\ stack' = Append(stack, f)
  /\ state' = "iterate"
  /\ UNCHANGED <<line, arg, parsed>>

(* A list, of which every item ends with a ',' if the '}' counts as one ... *)
ExpandList ==
  /\ state = "call" /\ ~ScanError(arg) /\ HasRange(arg)
  /\ \E o \in {Open(arg)}, c \in {Close(arg)} :
       /\ "," \in In(arg, o, c)
       /\ Push(Frame(arg, Append(SubSeq(arg, o + 1, c - 1), ","), 1, 0))

(* ... a range, which may be refused ... *)
ExpandRange ==
  /\ state = "call" /\ ~ScanError(arg) /\ HasRange(arg)
  /\ \E o \in {Open(arg)}, c \in {Close(arg)} :
       /\ "-" \in In(arg, o, c)
       /\ \E r \in Ranges(arg, o + 1, c) :
            \/ Refused(r) /\ Error
            \/ ~Refused(r) /\ Push(Frame(arg, <<>>, r.next, r.last))

(* A plausible mistake: expandLine returns the result of parseLine. *)
FaultLeaf ==
  /\ state = "call" /\ ~ScanError(arg) /\ ~HasRange(arg)
  /\ \E r \in BlackList_parseLine(arg) :
       \/ ~r.ok /\ Error
       \/ /\ r.ok
          /\ parsed' = parsed \cup EntryOf(r)
          /\ state' = IF stack = <<>> THEN "done" ELSE "iterate"
          /\ UNCHANGED <<line, arg, stack>>

(* ... or neither: the line is parsed, in the buffer of the caller. *)
Leaf ==
  /\ state = "call" /\ ~ScanError(arg) /\ ~HasRange(arg)
  /\ \E r \in BlackList_parseLine(arg) :
       /\ parsed' = parsed \cup EntryOf(r)
       /\ stack' = IF stack = <<>> THEN stack
                   ELSE [stack EXCEPT ![Len(stack)].prefix =
                           SubSeq(Overwritten(arg, r), 1, Len(@))]
  /\ state' = IF stack = <<>> THEN "done" ELSE "iterate"
  /\ UNCHANGED <<line, arg>>

(* A plausible mistake: the next item begins at the comma. *)
FaultNextItem ==
  /\ state = "iterate" /\ Top.list # <<>>
  /\ \E p \in {Find(Top.list, 1, {","})} :
       /\ arg' = Top.prefix \o SubSeq(Top.list, 1, p - 1) \o Top.post
       /\ stack' = [stack EXCEPT ![Len(stack)].list = SubSeq(@, p, Len(@))]
  /\ state' = "call"
  /\ UNCHANGED <<line, parsed>>

(* A step of the loop of iterateList ... *)
NextItem ==
  /\ state = "iterate" /\ Top.list # <<>>
  /\ \E p \in {Find(Top.list, 1, {","})} :
       /\ arg' = Top.prefix \o SubSeq(Top.list, 1, p - 1) \o Top.post
       /\ stack' = [stack EXCEPT ![Len(stack)].list = SubSeq(@, p + 1, Len(@))]
  /\ state' = "call"
  /\ UNCHANGED <<line, parsed>>

(* ... and of iterateRange. *)
NextNumber ==
  /\ state = "iterate" /\ Top.next <= Top.last
  /\ arg' = Top.prefix \o Fmt(Top.next) \o Top.post
  /\ \/ stack' = [stack EXCEPT ![Len(stack)].next = ToInt(@ + 1)]
     \/ /\ Top.next = IntMax
        /\ stack' = [stack EXCEPT ![Len(stack)].next = @ + 1]
  /\ state' = "call"
  /\ UNCHANGED <<line, parsed>>

(* Nothing is left: return to the calling loop, or to updateInternal. *)
Return ==
  /\ state = "iterate" /\ Top.list = <<>> /\ Top.next > Top.last
  /\ stack' = Below
  /\ state' = IF Len(stack) = 1 THEN "done" ELSE "iterate"
  /\ UNCHANGED <<line, arg, parsed>>

ExpandNext ==
  \/ ExpandError \/ ExpandList \/ ExpandRange \/ Leaf
  \/ NextItem \/ NextNumber \/ Return

-----------------------------------------------------------------------------
(* What the manual page says of ranges, independently of the code. *)

Closing(t, i) == Find(t, i, {"}"})
Inner(t, i) == SubSeq(t, i + 1, Closing(t, i) - 1)

IsNumber(d) == d # <<>> /\ \A i \in DOMAIN d : d[i] \in Digit
From(d) == SubSeq(d, 1, Find(d, 1, {"-"}) - 1)
To(d)   == SubSeq(d, Find(d, 1, {"-"}) + 1, Len(d))

IsRange(d) ==
  /\ IsNumber(From(d)) /\ IsNumber(To(d))
  /\ Value(From(d)) <= Value(To(d)) /\ Value(To(d)) < IntMax

IsList(d) ==
  /\ "," \in In(d, 1, Len(d)) /\ In(d, 1, Len(d)) \subseteq Digit \cup {","}
  /\ d[1] # "," /\ d[Len(d)] # ","
  /\ \A i \in 1 .. Len(d) - 1 : {d[i], d[i + 1]} # {","}

(* Every brace, ',' and '-' before a comment belongs to a range or a list.  *)
WellFormed(t) ==
  LET u == SubSeq(t, 1, Stop(t) - 1)
      opens == {i \in DOMAIN u : u[i] = "{"}
  IN  /\ \A i \in opens : /\ Closing(u, i) <= Len(u)
                          /\ IsRange(Inner(u, i)) \/ IsList(Inner(u, i))
      /\ \A i \in DOMAIN u : u[i] \in {"}", ",", "-"} =>
           \E o \in opens : o < i /\ i <= Closing(u, o)

Choices(d) ==
  IF IsRange(d) THEN {Fmt(n) : n \in Value(From(d)) .. Value(To(d))}
  ELSE {SubSeq(d, i, Find(d, i, {","}) - 1) :
          i \in {j \in DOMAIN d : j = 1 \/ d[j - 1] = ","}}

Joined(C, D) == {c \o d : c \in C, d \in D}

(* What the text from each position on stands for, ... *)
Meanings(t) ==
  LET exp[i \in 1 .. End(t)] ==
        IF i = End(t) THEN {<<>>}
        ELSE IF t[i] = "{" /\ i < Stop(t)
        THEN Joined(Choices(Inner(t, i)), exp[Closing(t, i) + 1])
        ELSE Joined({<<t[i]>>}, exp[i + 1])
  IN  exp

(* ... and the lines that writing t "is the same like writing". *)
Meant(t) == Meanings(t)[1]

Stated(t) == UNION {EntryOf(r) : r \in UNION {BlackList_parseLine(u) : u \in Meant(t)}}

(* A '/' or '@' before the last range: see ExpansionIsTextual. *)
Separated(t) ==
  \E i, k \in 1 .. Stop(t) - 1 : i < k /\ t[i] \in {"/", "@"} /\ t[k] = "{"

(* A line with ranges yields the entries of the lines it stands for, none   *)
(* more and none less, although all are made one after the other in the     *)
(* same buffers and parseLine writes into them; no such line is refused.    *)
ExactExpansion ==
  WellFormed(line) /\ ~Separated(line) =>
    /\ state = "done" => parsed = Stated(line)
    /\ state # "error"

(* Whatever is wrong with the second, third ... range of a line shows       *)
(* before anything is parsed: a refused line leaves no entries of its first *)
(* items behind.                                                            *)
AllOrNothing == state = "error" => parsed = {}

(* expandLine: "This works since the expanded lines are shorter than the    *)
(* original line": an expanded line and its '\0' fit into alloca(end-start). *)
BufferSuffices ==
  state = "call" /\ stack # <<>> => Len(arg) + 1 <= Top.size

(* A netmask given as a number has that many leading ones, 0 and 32         *)
(* included.                                                                *)
MaskIsPrefix ==
  \A e \in parsed : e.mask.len >= 0 =>
    e.mask.bits = Word - Pow2[MaxMask - e.mask.len]

(* Manual page, "RANGES": the expansion is textual, wherever the range is.  *)
(* The code does not bear this out, see the run ipfile_prefix.              *)
ExpansionIsTextual ==
  state = "done" /\ WellFormed(line) => parsed = Stated(line)
=============================================================================
