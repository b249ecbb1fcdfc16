---------------------------- MODULE PriorityQueue ----------------------------
(***************************************************************************)
(* The binary heap of src/src/prioqueue.c that holds the scheduled replies *)
(* of the worker process, one step per iteration of its loops.             *)
(*                                                                         *)
(* `data' is the allocated block: slots at and behind `count' keep what    *)
(* they held last, or Undef if they were never written.  The elements are  *)
(* identified jobs; a job that is not in the queue may be inserted (again).*)
(***************************************************************************)
EXTENDS PrioHeap

CONSTANTS
  Job,        \* the elements
  Undef,      \* content of a slot that was never written
  InitCount,  \* the `count' argument of PriorityQueue_init (1023 in Worker_run)
  SizeBits    \* width of size_t

InitAlloc == powify(InitCount, SizeBits)

ASSUME PQAssumption ==
  /\ Undef \notin Job
  /\ \A j \in Job : Key(j) \in Int
  /\ InitAlloc \in Nat \ {0}

VARIABLES
  data, count, allocated,  \* struct PriorityQueue
  pc,                      \* where the current operation is
  pos,                     \* i of insertInternal, pos of heapify; else 0
  key                      \* the element being inserted; else Undef

vars == <<data, count, allocated, pc, pos, key>>

(***************************************************************************)
(* The jobs the queue holds.  While a job climbs, the slot `pos' is a hole *)
(* in 0..count and the job itself is still outside the array.              *)
(***************************************************************************)
Live == IF pc = "climb" THEN (0 .. count) \ {pos} ELSE 0 .. count - 1
Pending == {data[i] : i \in Live} \cup IF pc = "climb" THEN {key} ELSE {}

Init ==
  /\ data = [i \in 0 .. InitAlloc - 1 |-> Undef]
  /\ count = 0
  /\ allocated = InitAlloc
  /\ pc = "idle"
  /\ pos = 0
  /\ key = Undef

(* PriorityQueue_insert up to the loop of insertInternal: a full block is   *)
(* first enlarged; when Erealloc gets no memory the process exits.          *)
Insert(j) ==
  /\ pc = "idle"
  /\ j \in Job \ Pending
  /\ \/ /\ count < allocated
        /\ UNCHANGED <<data, allocated>>
     \/ /\ count = allocated
        /\ allocated' = 2 * allocated + 1
        /\ data' = [i \in 0 .. 2 * allocated |->
                      IF i < allocated THEN data[i] ELSE Undef]
  /\ pc' = "climb"
  /\ pos' = count
  /\ key' = j
  /\ UNCHANGED count

ReallocFails ==
  /\ pc = "idle"
  /\ count = allocated
  /\ pc' = "exit"
  /\ UNCHANGED <<data, count, allocated, pos, key>>

(* One iteration of the loop of PriorityQueue_insertInternal. *)
ClimbOn ==
  /\ pc = "climb"
  /\ pos > 0
  /\ Key(data[parent(pos)]) < Key(key)
  /\ data' = [data EXCEPT ![pos] = data[parent(pos)]]
  /\ pos' = parent(pos)
  /\ UNCHANGED <<count, allocated, pc, key>>

(* The loop ends: the job is stored in the hole. *)
ClimbEnd ==
  /\ pc = "climb"
  /\ pos > 0 => Key(data[parent(pos)]) >= Key(key)
  /\ data' = [data EXCEPT ![pos] = key]
  /\ count' = count + 1
  /\ pc' = "idle"
  /\ pos' = 0
  /\ key' = Undef
  /\ UNCHANGED allocated

(* A plausible mistake: the last element is cut off but not moved. *)
FaultExtract ==
  /\ pc = "idle"
  /\ count > 0
  /\ count' = count - 1
  /\ pc' = IF count - 1 > 0 THEN "heapify" ELSE pc
  /\ UNCHANGED <<data, allocated, pos, key>>

(* A plausible mistake: the slot of the last element is wiped too early. *)
FaultExtractWipes ==
  /\ pc = "idle"
  /\ count > 0
  /\ count' = count - 1
  /\ IF count - 1 > 0
     THEN /\ data' = [data EXCEPT ![0] = data[count - 1], ![count - 1] = Undef]
          /\ pc' = "heapify"
     ELSE UNCHANGED <<data, pc>>
  /\ UNCHANGED <<allocated, pos, key>>

(* PriorityQueue_extract up to the call of heapify.  On an empty queue the  *)
(* code returns at once, which is no step.                                  *)
Extract ==
  /\ pc = "idle"
  /\ count > 0
  /\ count' = count - 1
  /\ IF count - 1 > 0
     THEN /\ data' = [data EXCEPT ![0] = data[count - 1]]
          /\ pc' = "heapify"
     ELSE UNCHANGED <<data, pc>>
  /\ UNCHANGED <<allocated, pos, key>>

(* A plausible mistake: the recursion starts again at the same place. *)
FaultHeapify ==
  /\ pc = "heapify"
  /\ LET m == largest(data, count, pos) IN
       /\ data' = Swap(data, pos, m)
       /\ pc' = IF m = pos THEN "idle" ELSE pc
       /\ pos' = IF m = pos THEN 0 ELSE pos
  /\ UNCHANGED <<count, allocated, key>>

(* One level of PriorityQueue_heapify. *)
Heapify ==
  /\ pc = "heapify"
  /\ LET m == largest(data, count, pos) IN
       IF m = pos THEN /\ pc' = "idle"
                       /\ pos' = 0
                       /\ UNCHANGED data
                  ELSE /\ data' = Swap(data, pos, m)
                       /\ pos' = m
                       /\ UNCHANGED pc
  /\ UNCHANGED <<count, allocated, key>>

Next ==
  \/ \E j \in Job : Insert(j)
  \/ ReallocFails
  \/ ClimbOn
  \/ ClimbEnd
  \/ Extract
  \/ Heapify

Spec == Init /\ [][Next]_vars

-----------------------------------------------------------------------------
(* The block has its allocated size, and count never exceeds it. *)
TypeOK ==
  /\ allocated \in Nat \ {0}
  /\ count \in 0 .. allocated
  /\ data \in [0 .. allocated - 1 -> Job \cup {Undef}]
  /\ pc \in {"idle", "climb", "heapify", "exit"}
  /\ pos \in Nat
  /\ key \in Job \cup {Undef}

(* Every slot of the live part holds a job, never unwritten memory, and no  *)
(* job is stored twice or both stored and climbing: the loops of            *)
(* insertInternal and heapify only ever permute the queued jobs.            *)
EachJobOnce ==
  /\ \A i \in Live : data[i] \in Job
  /\ \A i, k \in Live : data[i] = data[k] => i = k
  /\ pc = "climb" => key \in Job /\ \A i \in Live : data[i] # key

(* heapify reads the slot right(pos) whenever left(pos) < count, one slot   *)
(* behind the live part at the bottom of the heap.  That slot is inside the *)
(* block and was written, so the comparison never sees garbage.  The slot   *)
(* that insertInternal writes to is inside the block as well.               *)
NoWildAccess ==
  /\ pc = "heapify" /\ left(pos) < count =>
       right(pos) < allocated /\ data[right(pos)] # Undef
  /\ pc = "climb" => pos < allocated

(* PriorityQueue_max shows an element no other pending one exceeds. *)
FrontIsMax ==
  pc = "idle" /\ count > 0 =>
    \A j \in Pending : Key(j) <= Key(data[0])

(* PriorityQueue_extract and PriorityQueue_insert terminate. *)
OperationsEnd == pc \in {"climb", "heapify"} ~> pc = "idle"

(* The heap keeps a pool of jobs: an insertion adds one, an extraction      *)
(* removes the one that PriorityQueue_max shows, and nothing is lost or     *)
(* duplicated while the array is being rearranged.                          *)
Front == IF pc = "climb" /\ count = 0 THEN key ELSE data[0]
Pool == INSTANCE JobPool WITH pool <- Pending, front <- Front
ImplementsJobPool == Pool!Spec
=============================================================================
