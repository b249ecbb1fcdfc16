------------------------------- MODULE IPLine -------------------------------
(***************************************************************************)
(* How BlackList_parseLine of src/src/blacklist.c takes the text of a line *)
(* apart: which characters become which field, what it refuses, and which  *)
(* separators it overwrites with '\0' in the caller's buffer on the way.   *)
(*                                                                         *)
(* A text is a sequence of characters; the C string ends behind it.  "."   *)
(* and ":" stand for the characters of addresses and of MACs other than    *)
(* digits, " " for a blank or a tab.  The functions of libc that turn a    *)
(* field into a number are external.                                       *)
(***************************************************************************)
EXTENDS Integers, Sequences

CONSTANTS
  Digits,   \* the digits, in order: "0" to "9" in the code
  MaxMask   \* the longest netmask: 32 in the code

NUL  == "NUL"
Base == Len(Digits)
Digit == {Digits[i] : i \in DOMAIN Digits}
Sign == {NUL, "NL", " ", ".", ":", "*", "!", "/", "@", "#", "{", "}", ",", "-"}
Char == Digit \cup Sign

ASSUME LineAssumption ==
  /\ Digits \in Seq(Digit) /\ Base > 1 /\ Digit \cap Sign = {}
  /\ MaxMask \in Nat \ {0}

(* The character at position i, and the first position from i on that is in *)
(* (not in) the set C of characters; the end of the text at the latest.     *)
At(t, i) == IF i \in DOMAIN t THEN t[i] ELSE NUL
End(t) == Len(t) + 1

Find(t, i, C) ==
  LET hits == {k \in i .. Len(t) : t[k] \in C}
  IN  IF hits = {} THEN End(t) ELSE CHOOSE k \in hits : \A j \in hits : k <= j

Skip(t, i, C) == Find(t, i, Char \ C)

Past(t, i) == IF i < End(t) THEN i + 1 ELSE i

(* What the digits of a text mean (strtol), and a number as digits.         *)
Value(d) ==
  LET val[i \in 0 .. Len(d)] ==
        IF i = 0 THEN 0
        ELSE val[i - 1] * Base
             + (CHOOSE k \in DOMAIN Digits : Digits[k] = d[i]) - 1
  IN  val[Len(d)]

(* strtol() from position i: it skips blanks and takes a '-' for a sign; if *)
(* there is no number the value is 0 and nothing is consumed.  (The base is *)
(* always that of Digits: 0x.. and 0.. are left out.)                       *)
Strtol(t, i) ==
  LET b == Skip(t, i, {" "})
      n == IF At(t, b) = "-" THEN b + 1 ELSE b
      e == Skip(t, n, Digit)
      v == Value(SubSeq(t, n, e - 1))
  IN  IF e = n THEN [val |-> 0, end |-> i]
      ELSE [val |-> IF n = b THEN v ELSE -v, end |-> e]

(* inet_aton and xether_aton_r accept or refuse a field: an address has     *)
(* digits and dots, a MAC digits and colons.                                *)
Made(f, C, c) == (\A i \in DOMAIN f : f[i] \in C) /\ (\E i \in DOMAIN f : f[i] \in c)
IsAddr(f) == Made(f, Digit \cup {"."}, Digit)
IsMac(f) == Made(f, Digit \cup {":"}, {":"})

-----------------------------------------------------------------------------
NoMask == [len |-> -1, bits |-> 0, text |-> <<>>]

(* A shift by n bits is a multiplication by Pow2[n]. *)
Pow2[n \in Nat] == IF n = 0 THEN 1 ELSE 2 * Pow2[n - 1]

Word == Pow2[MaxMask]   \* 2^32, where an uint32_t wraps around

(* A plausible mistake: one shift by 32, which the processor takes for 0. *)
FaultMaskBits(val) == ((Word - 1) * Pow2[(MaxMask - val) % MaxMask]) % Word

(* ~0u << (32-val), in two shifts since a shift by 32 is undefined. *)
MaskBits(val) ==
  IF val < MaxMask
  THEN ((((Word - 1) * Pow2[MaxMask - val - 1]) % Word) * 2) % Word
  ELSE Word - 1

(* BlackList_parseNetMask: a number up to 32, or else the text up to the    *)
(* next separator as an address.  The '\0' that inet_aton needs stays in    *)
(* the text when it refuses.                                                *)
BlackList_parseNetMask(t, i) ==
  LET num == Strtol(t, i)
      e   == Find(t, num.end, {NUL, " ", "@"})
      f   == SubSeq(t, i, e - 1)
  IN  IF e # num.end
      THEN [ok |-> IsAddr(f), end |-> e, cut |-> IF IsAddr(f) THEN {} ELSE {e},
            mask |-> [NoMask EXCEPT !.text = f]]
      ELSE IF num.val \in 0 .. MaxMask
      THEN [ok |-> TRUE, end |-> e, cut |-> {},
            mask |-> [len |-> num.val, bits |-> MaskBits(num.val), text |-> <<>>]]
      ELSE [ok |-> FALSE, end |-> e, cut |-> {}, mask |-> NoMask]

(* The fields of a line as far as they have been read: `pos' is the place   *)
(* where reading goes on, `cut' the characters overwritten so far, and `ok' *)
(* turns false where parseLine returns.  A MAC <<>> is the default one; the *)
(* text RANDOM is a MAC like the others here.                               *)
NoFields ==
  [pos |-> 1, ok |-> TRUE, cut |-> {}, neg |-> FALSE, host |-> <<>>,
   mask |-> NoMask, at |-> "NONE", atmac |-> <<>>, mac |-> <<>>, sep |-> NUL]

Star(r) == r.host = <<"*">>

(* Comments and empty lines, the '!', and the host up to its separator. *)
ParseHost(t, r) ==
  LET b    == Skip(t, r.pos, {" "})
      neg  == At(t, b) = "!"
      s    == IF neg THEN b + 1 ELSE b
      p    == Find(t, s, {"/", "@", " ", NUL})
      host == SubSeq(t, s, p - 1)
  IN  IF b = End(t) \/ At(t, b) = "#" THEN [r EXCEPT !.ok = FALSE]
      ELSE [r EXCEPT !.pos = Past(t, p), !.sep = At(t, p), !.cut = {p},
                     !.neg = neg, !.host = host,
                     !.ok = IsAddr(host) \/ (host = <<"*">> /\ ~neg)]

(* The netmask, if the character that ended the host was a '/'. *)
ParseMask(t, r) ==
  LET net == BlackList_parseNetMask(t, r.pos)
  IN  IF r.sep # "/" THEN r
      ELSE IF Star(r) THEN [r EXCEPT !.ok = FALSE]
      ELSE [r EXCEPT !.pos = net.end, !.mask = net.mask, !.ok = net.ok,
                     !.cut = @ \cup net.cut]

(* The @mac part, when it is there: its sign, and a MAC up to a blank. *)
ParseAtMac(t, r) ==
  LET has == r.sep = "@" \/ At(t, r.pos) = "@"
      i   == IF r.sep = "@" THEN r.pos ELSE r.pos + 1
      not == At(t, i) = "!"
      s   == IF not THEN i + 1 ELSE i
      p   == Find(t, s, {" ", NUL})
      f   == SubSeq(t, s, p - 1)
  IN  IF ~has THEN [r EXCEPT !.ok = ~Star(r)]
      ELSE [r EXCEPT !.pos = Past(t, p), !.cut = @ \cup {p}, !.atmac = f,
                     !.at = IF not THEN "NEGATIVE" ELSE "POSITIVE",
                     !.ok = IsMac(f) /\ ~(Star(r) /\ not)]

(* The MAC to answer with. *)
ParseMac(t, r) ==
  LET s == Skip(t, r.pos, {" "})
      p == Find(t, s, {"#", " ", NUL})
      f == SubSeq(t, s, p - 1)
  IN  IF s = End(t) \/ At(t, s) = "#" THEN r
      ELSE [r EXCEPT !.cut = @ \cup {p}, !.mac = f, !.ok = ~r.neg /\ IsMac(f)]

(* BlackList_parseLine, field by field (each set has one element). *)
BlackList_parseLine(t) ==
  LET hosts  == {ParseHost(t, NoFields)}
      masks  == {IF r.ok THEN ParseMask(t, r) ELSE r : r \in hosts}
      atmacs == {IF r.ok THEN ParseAtMac(t, r) ELSE r : r \in masks}
  IN  {IF r.ok THEN ParseMac(t, r) ELSE r : r \in atmacs}

(* What a call leaves: an entry or none, and the text it has written into. *)
EntryOf(r) ==
  IF r.ok THEN {[neg |-> r.neg, host |-> r.host, mask |-> r.mask, at |-> r.at,
                 atmac |-> r.atmac, mac |-> r.mac]}
  ELSE {}

Overwritten(t, r) == [i \in DOMAIN t |-> IF i \in r.cut THEN NUL ELSE t[i]]
=============================================================================
