------------------------------- MODULE JobPool -------------------------------
(***************************************************************************)
(* What the job queue promises its user, with no array in sight: a set of  *)
(* pending jobs and one of them, `front', on display.  Inserting adds      *)
(* exactly the given job, extracting removes exactly the job on display,   *)
(* and nothing else changes the set.  Which job is on display is left open *)
(* on purpose: see the README for why "the most urgent one" would be too   *)
(* strong for this code.                                                   *)
(***************************************************************************)
CONSTANT Job

VARIABLES pool, front

Init == pool = {}

Shown == pool' # {} => front' \in pool'

Insert(j) == /\ j \notin pool
             /\ pool' = pool \cup {j}
             /\ Shown

Extract == /\ front \in pool
           /\ pool' = pool \ {front}
           /\ Shown

(* Another pending job comes to the front; the set stays. *)
Rearrange == pool' = pool /\ Shown

Next == Extract \/ Rearrange \/ \E j \in Job : Insert(j)

Spec == Init /\ [][Next]_<<pool, front>>
=============================================================================
