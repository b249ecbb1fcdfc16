----------------------------- MODULE AntiDOSRate -----------------------------
(***************************************************************************)
(* What the DOS measurement means to an ordinary host.  `Polite' is a host *)
(* with at most Rate registered requests in any one second; every other    *)
(* host may flood the daemon.  The history variable `burst' counts the     *)
(* registrations of Polite in the present second.                          *)
(***************************************************************************)
EXTENDS AntiDOS

CONSTANTS Polite, Rate

(* parameters.h has TIME_BASE = 10 and COUNT_LOW = 20, hence Rate = 1. *)
ASSUME RateAssumption ==
  /\ Polite \in IP
  /\ Rate \in Nat \ {0}
  /\ (Rate + 1) * TIME_BASE - 1 <= COUNT_LOW

VARIABLE burst

RateInit == Init /\ burst = 0

RateNext ==
  \/ (Update \/ Oversize \/ Awake) /\ UNCHANGED burst
  \/ \E s \in IP, n \in 0 .. 2 :
       /\ Receive(s, n)
       /\ s = Polite => burst + n <= Rate
       /\ UNCHANGED burst
  \/ Count /\ burst' = IF ip = Polite THEN burst + 1 ELSE burst
  \/ Tick /\ burst' = 0

RateSpec == RateInit /\ [][RateNext]_<<vars, burst>>

RateFairSpec == RateSpec /\ Fairness

(* Between the two registrations of one packet time may pass, but a new     *)
(* second starts a new burst: the measurement of a host that sends no more  *)
(* than Rate requests a second stays below (Rate + 1) * TIME_BASE although  *)
(* AntiDOS_registerIP only ever subtracts a rounded share.                  *)
MeasureFollowsRate ==
  Polite \in DOMAIN data =>
    data[Polite].counter <= (Rate + 1) * TIME_BASE - 1

(* Such a host is never taken for a flooder, whatever the others send and   *)
(* whatever rand() returns.                                                 *)
PoliteIsAnswered == ip = Polite => answer # "dos"
=============================================================================
