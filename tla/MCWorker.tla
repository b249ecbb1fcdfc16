------------------------------ MODULE MCWorker ------------------------------
(* Two requests for the model checker: one from an intruder at an address   *)
(* whose owner is known, and one for the address of an intruder.            *)
EXTENDS Worker

FromIntruder == [type |-> "SRC", mac |-> "fake", poison_mac |-> "owner",
                 spa |-> "ip1", sha |-> "mac1", tpa |-> "ip2"]
ForIntruder  == [type |-> "DST", mac |-> "fake", poison_mac |-> NoMac,
                 spa |-> "ip2", sha |-> "mac2", tpa |-> "ip1"]

TwoRequests == {FromIntruder, ForIntruder}
=============================================================================
