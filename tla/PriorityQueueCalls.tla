-------------------------- MODULE PriorityQueueCalls --------------------------
(***************************************************************************)
(* Ties the two views of the heap together.  The history variable `whole'  *)
(* is what the operators insert and extract of PrioHeap make of the queue  *)
(* when a call starts; the loops of PriorityQueue must arrive there.  The  *)
(* Worker module uses the operators, the proofs are about the loops.       *)
(***************************************************************************)
EXTENDS MCPriorityQueue

VARIABLE whole

LiveArray == [i \in 0 .. count - 1 |-> data[i]]

CallInit == Init /\ whole = LiveArray

CallNext ==
  \/ \E j \in Job : Insert(j) /\ whole' = insert(LiveArray, j)
  \/ Extract /\ whole' = extract(LiveArray)
  \/ (ReallocFails \/ ClimbOn \/ ClimbEnd \/ Heapify) /\ UNCHANGED whole

(* A started call is finished: the loops have no blocking call. *)
CallSpec ==
  /\ CallInit
  /\ [][CallNext]_<<vars, whole>>
  /\ WF_<<vars, whole>>(CallNext /\ pc \in {"climb", "heapify"})

(* Whenever a call of PriorityQueue_insert or PriorityQueue_extract has     *)
(* returned, the array holds what the whole-call operator computed.         *)
LoopsMatchCalls == pc = "idle" => LiveArray = whole
=============================================================================
