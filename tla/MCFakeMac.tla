----------------------------- MODULE MCFakeMac -----------------------------
(* Every command line of one option for a MAC, and those of two that name   *)
(* the types and an address, for the model checker.                         *)
EXTENDS FakeMac

MCMacTexts == {"a:b"}
MCOtherTexts == {"x"}
MCIfaceMac == <<"if">>

MCOption(texts) == [name : {"mac", "llmac"}, text : texts]
MCCommandLines ==
  {<<>>, <<[name |-> "other", text |-> "x"]>>}
  \cup {<<o>> : o \in MCOption(Words)}
  \cup {<<o, p>> : o, p \in MCOption({"LOCAL", "RANDOM", "SAME", "a:b"})}
=============================================================================
