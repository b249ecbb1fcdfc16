----------------------------- MODULE MCSentinel -----------------------------
(* Frames for the model checker: a request of an intruder, one for the      *)
(* intruder, an address probe for the intruder's address, and no request.   *)
EXTENDS Sentinel

Frame(request, spa, sha, tpa) ==
  [request |-> request, spa |-> spa, sha |-> sha, tpa |-> tpa]

FromIntruder == Frame(TRUE, "bad", "mac1", "good")
ForIntruder  == Frame(TRUE, "good", "mac2", "bad")
Probe        == Frame(TRUE, ZeroIP, "mac1", "bad")
Reply        == Frame(FALSE, "bad", "mac1", "good")

(* The list has a net around everything but "good". *)
MCPacket  == {FromIntruder, ForIntruder, Probe, Reply}
MCBlocked == {[ip |-> i, mac |-> m] : i \in {"bad", ZeroIP},
                                      m \in {"mac1", "mac2", NoMac}}
=============================================================================
