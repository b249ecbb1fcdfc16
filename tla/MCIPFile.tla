------------------------------ MODULE MCIPFile ------------------------------
(* Files for the model checker, in binary: every short text over the        *)
(* characters of ranges, ranges in all places of a line, and plain lines    *)
(* around the size of the buffer.                                           *)
EXTENDS IPFile

NL == <<"NL">>
MCDigits == <<"0", "1">>

Short(C, n) == UNION {[1 .. m -> C] : m \in 0 .. n}

Marks == Short({"0", "1", "{", "}", ",", "-"}, 5)

Braces ==
  {<<"{", "0", "-", "1", "}">>, <<"{", "1", "-", "1", "0", "}">>,
   <<"{", "1", "0", ",", "1", "}">>}
Endless == <<"{", "0", "-", "1", "1", "}">>
Before == {<<>>, <<"1", ".">>, <<"!", "1", ".">>}
Middle == {<<".">>, <<" ", ":">>, <<"/">>, <<"@", ":">>}
After  == {<<>>, <<" ", ":">>, <<"@", "!", ":">>, <<" ", "#", "}">>, <<"{">>}

Ranged ==
  {b \o r \o a : b \in Before \cup {<<"1", "/">>, <<"1", "@", ":">>, <<"1", " ", ":">>},
                 r \in Braces \cup {Endless}, a \in After \cup {<<"/", "1">>, <<"/", "1", "@", ":">>}}
  \cup {b \o r \o m \o s \o a :
          b \in Before, r \in Braces, m \in Middle, s \in Braces, a \in After}

Fields ==
  {n \o h \o m \o a \o x :
     n \in {<<>>, <<" ", "!">>}, h \in {<<"1">>, <<"*">>, <<":">>},
     m \in {<<>>, <<"/">>, <<"/", "0">>, <<"/", "1", "0">>, <<"/", "1", "1">>,
            <<"/", "-", "1">>, <<"/", "1", ".">>, <<"/", " ", "1">>, <<"/", ":">>},
     a \in {<<>>, <<"@", ":">>, <<"@", "!", ":">>, <<" ", "@", ":">>, <<"@", ".">>},
     x \in {<<>>, <<" ", ":">>, <<" ", "1", ":", " ">>, <<" ", ".">>, <<" ", "#">>}}

Plain(n) == [i \in 1 .. n |-> "."]
Sizes == {0, 1, BufSize - 2, BufSize - 1, BufSize, BufSize + 1}

MCFiles ==
  {t \o NL : t \in Marks \cup Ranged \cup Fields}
  \cup {Plain(a) \o NL \o Plain(b) \o NL \o Plain(c) \o e :
          a, b, c \in Sizes, e \in {<<>>, NL}}

RangedFiles == {t \o NL : t \in Ranged}
=============================================================================
