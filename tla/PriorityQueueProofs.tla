------------------------- MODULE PriorityQueueProofs -------------------------
(***************************************************************************)
(* Proofs about the heap for every set of jobs, every ranking of them and  *)
(* every initial block size: no slot outside the block and no unwritten    *)
(* slot is used, the loops only permute the queued jobs, the heap          *)
(* implements the pool of JobPool, and the loops arrive where the operators *)
(* on whole queues do.                                                     *)
(***************************************************************************)
EXTENDS PriorityQueueCalls, TLAPS, FiniteSetTheorems, WellFoundedInduction

(***************************************************************************)
(* Where the running operation stands.  TypeOK and EachJobOnce are not     *)
(* inductive without it: the job that climbs needs a free slot, and the    *)
(* slot behind the live part, which heapify may read, must still hold the  *)
(* job that moved to the root.                                             *)
(***************************************************************************)
Shape ==
  /\ pc = "climb" => count < allocated /\ pos <= count
  /\ pc = "heapify" =>
       0 < count /\ count < allocated /\ pos < count /\ data[count] \in Job
  /\ pc = "idle" => pos = 0

IInv == TypeOK /\ EachJobOnce /\ Shape

-----------------------------------------------------------------------------
(* parent stays inside the array and strictly above its child. *)
LEMMA ParentAbove ==
  ASSUME NEW i \in Nat, i > 0
  PROVE  /\ parent(i) \in Nat /\ parent(i) < i
         /\ 2 * parent(i) + 1 <= i /\ i <= 2 * parent(i) + 2
BY DEF parent

(* One level of PriorityQueue_heapify stays at pos or descends to a child   *)
(* inside the live part.                                                    *)
LEMMA LargestInLive ==
  ASSUME NEW d, NEW c \in Nat, NEW p \in Nat, p < c
  PROVE  LET m == largest(d, c, p)
         IN  m \in 0 .. c - 1 /\ (m = p \/ m = left(p) \/ m = right(p))
BY DEF largest, left, right

-----------------------------------------------------------------------------
(* PriorityQueue_init establishes the invariant. *)
LEMMA InitIInv == Init => IInv
BY PQAssumption DEF Init, IInv, TypeOK, EachJobOnce, Shape, Live

(* Whether or not the block grows, PriorityQueue_insert keeps every live    *)
(* slot and ends up with a free one behind them.                            *)
LEMMA InsertRoom ==
  ASSUME IInv, NEW j \in Job, Insert(j)
  PROVE  /\ allocated' \in Nat \ {0}
         /\ data' \in [0 .. allocated' - 1 -> Job \cup {Undef}]
         /\ count < allocated'
         /\ \A i \in 0 .. count - 1 : data'[i] = data[i]
<1>1. CASE count < allocated /\ UNCHANGED <<data, allocated>>
  BY <1>1 DEF IInv, TypeOK
<1>2. CASE /\ count = allocated
           /\ allocated' = 2 * allocated + 1
           /\ data' = [i \in 0 .. 2 * allocated |->
                         IF i < allocated THEN data[i] ELSE Undef]
  BY <1>2 DEF IInv, TypeOK
<1>3. QED
  BY <1>1, <1>2 DEF Insert

(* The start of PriorityQueue_insert opens a hole behind the live part. *)
LEMMA InsertIInv ==
  ASSUME IInv, NEW j \in Job, Insert(j)
  PROVE  IInv'
<1>1. /\ pc = "idle" /\ pc' = "climb" /\ pos' = count /\ key' = j
      /\ count' = count /\ j \notin Pending
  BY DEF Insert
<1>2. Live' = 0 .. count - 1 /\ Live = 0 .. count - 1
  BY <1>1 DEF Live, IInv, TypeOK
<1>3. TypeOK'
  BY <1>1, InsertRoom DEF TypeOK, IInv
<1>4. \A i \in Live' : data'[i] = data[i] /\ data'[i] # j
  BY <1>1, <1>2, InsertRoom DEF Pending
<1>5. EachJobOnce'
  BY <1>1, <1>2, <1>4 DEF EachJobOnce, IInv
<1>6. Shape'
  BY <1>1, InsertRoom DEF Shape, IInv, TypeOK
<1>7. QED
  BY <1>3, <1>5, <1>6 DEF IInv

(* An iteration of insertInternal moves the hole to its parent. *)
LEMMA ClimbOnIInv ==
  ASSUME IInv, ClimbOn
  PROVE  IInv'
<1>1. /\ pc = "climb" /\ pc' = "climb" /\ pos > 0 /\ pos' = parent(pos)
      /\ count' = count /\ allocated' = allocated /\ key' = key
      /\ data' = [data EXCEPT ![pos] = data[parent(pos)]]
  BY DEF ClimbOn
<1>2. parent(pos) \in Nat /\ parent(pos) < pos /\ pos <= count /\ count < allocated
  BY <1>1, ParentAbove DEF IInv, TypeOK, Shape
<1>3. TypeOK'
  BY <1>1, <1>2 DEF IInv, TypeOK
<1>4. Live = (0 .. count) \ {pos} /\ Live' = (0 .. count) \ {parent(pos)}
  BY <1>1 DEF Live
<1>5. /\ data'[pos] = data[parent(pos)]
      /\ \A i \in Live' : i # pos => i \in Live /\ data'[i] = data[i]
      /\ parent(pos) \in Live
  BY <1>1, <1>2, <1>4 DEF IInv, TypeOK
<1>6. EachJobOnce'
  BY <1>1, <1>4, <1>5 DEF IInv, EachJobOnce
<1>7. Shape'
  BY <1>1, <1>2 DEF Shape, IInv, TypeOK
<1>8. QED
  BY <1>3, <1>6, <1>7 DEF IInv

(* The end of insertInternal fills the hole. *)
LEMMA ClimbEndIInv ==
  ASSUME IInv, ClimbEnd
  PROVE  IInv'
<1>1. /\ pc = "climb" /\ pc' = "idle" /\ pos' = 0 /\ key' = Undef
      /\ count' = count + 1 /\ allocated' = allocated
      /\ data' = [data EXCEPT ![pos] = key]
  BY DEF ClimbEnd
<1>2. pos <= count /\ count < allocated
  BY <1>1 DEF IInv, Shape
<1>3. TypeOK'
  BY <1>1, <1>2 DEF IInv, TypeOK
<1>4. Live = (0 .. count) \ {pos} /\ Live' = 0 .. count
  BY <1>1, <1>3 DEF Live, TypeOK, IInv
<1>5. data'[pos] = key /\ \A i \in Live : data'[i] = data[i]
  BY <1>1, <1>2, <1>4 DEF IInv, TypeOK
<1>6. EachJobOnce'
  BY <1>1, <1>4, <1>5 DEF IInv, EachJobOnce
<1>7. Shape'
  BY <1>1 DEF Shape
<1>8. QED
  BY <1>3, <1>6, <1>7 DEF IInv

(* PriorityQueue_extract leaves its stale copy right behind the live part. *)
LEMMA ExtractIInv ==
  ASSUME IInv, Extract
  PROVE  IInv'
<1>1. /\ pc = "idle" /\ count > 0 /\ count' = count - 1
      /\ allocated' = allocated /\ pos' = pos /\ key' = key
  BY DEF Extract
<1>2. Live = 0 .. count - 1
  BY <1>1 DEF Live
<1>3. CASE count - 1 > 0 /\ data' = [data EXCEPT ![0] = data[count - 1]] /\ pc' = "heapify"
  <2>1. TypeOK'
    BY <1>1, <1>3 DEF IInv, TypeOK
  <2>2. Live' = 0 .. count - 2
    BY <1>1, <1>3 DEF Live, IInv, TypeOK
  <2>3. /\ data'[0] = data[count - 1]
        /\ \A i \in 1 .. count - 1 : data'[i] = data[i]
    BY <1>1, <1>3 DEF IInv, TypeOK
  <2>4. EachJobOnce'
    BY <1>1, <1>2, <1>3, <2>2, <2>3 DEF IInv, EachJobOnce, TypeOK
  <2>5. Shape'
    BY <1>1, <1>2, <1>3, <2>3 DEF IInv, Shape, EachJobOnce, TypeOK
  <2>6. QED
    BY <2>1, <2>4, <2>5 DEF IInv
<1>4. CASE ~(count - 1 > 0) /\ UNCHANGED <<data, pc>>
  BY <1>1, <1>4 DEF IInv, TypeOK, EachJobOnce, Shape, Live
<1>5. QED
  BY <1>3, <1>4 DEF Extract

(* A level of PriorityQueue_heapify swaps two live slots or ends. *)
LEMMA HeapifyIInv ==
  ASSUME IInv, Heapify
  PROVE  IInv'
<1> DEFINE m == largest(data, count, pos)
<1>1. /\ pc = "heapify" /\ count' = count /\ allocated' = allocated /\ key' = key
      /\ pos < count /\ 0 < count /\ count < allocated /\ data[count] \in Job
  BY DEF Heapify, IInv, Shape
<1>2. m \in 0 .. count - 1
  BY <1>1, LargestInLive DEF IInv, TypeOK
<1>3. CASE m = pos
  BY <1>1, <1>3 DEF Heapify, IInv, TypeOK, EachJobOnce, Shape, Live
<1>4. CASE m # pos
  <2>1. data' = Swap(data, pos, m) /\ pos' = m /\ pc' = pc
    BY <1>4 DEF Heapify
  <2> HIDE DEF m
  <2>2. /\ data' \in [0 .. allocated - 1 -> Job \cup {Undef}]
        /\ \A x \in 0 .. allocated - 1 : data'[x] =
             IF x = m THEN data[pos] ELSE IF x = pos THEN data[m] ELSE data[x]
    <3>1. pos \in 0 .. allocated - 1 /\ m \in 0 .. allocated - 1
      BY <1>1, <1>2 DEF IInv, TypeOK
    <3>2. data \in [0 .. allocated - 1 -> Job \cup {Undef}]
      BY DEF IInv, TypeOK
    <3>3. QED
      BY <2>1, <3>1, <3>2 DEF Swap
  <2>3. Live = 0 .. count - 1 /\ Live' = 0 .. count - 1
    BY <1>1, <2>1 DEF Live
  <2>4. TypeOK'
    BY <1>1, <1>2, <2>1, <2>2 DEF IInv, TypeOK
  <2>5. EachJobOnce'
    BY <1>1, <1>2, <2>1, <2>2, <2>3 DEF IInv, EachJobOnce, TypeOK
  <2>6. Shape'
    BY <1>1, <1>2, <2>1, <2>2 DEF IInv, Shape, TypeOK
  <2>7. QED
    BY <2>4, <2>5, <2>6 DEF IInv
<1>5. QED
  BY <1>3, <1>4

(* Every step of prioqueue.c preserves the invariant. *)
LEMMA NextIInv == IInv /\ [Next]_vars => IInv'
<1> SUFFICES ASSUME IInv, [Next]_vars PROVE IInv'
  OBVIOUS
<1>1. CASE \E j \in Job : Insert(j)
  BY <1>1, InsertIInv
<1>2. CASE ReallocFails
  BY <1>2 DEF ReallocFails, IInv, TypeOK, EachJobOnce, Shape, Live
<1>3. CASE ClimbOn
  BY <1>3, ClimbOnIInv
<1>4. CASE ClimbEnd
  BY <1>4, ClimbEndIInv
<1>5. CASE Extract
  BY <1>5, ExtractIInv
<1>6. CASE Heapify
  BY <1>6, HeapifyIInv
<1>7. CASE UNCHANGED vars
  BY <1>7 DEF vars, IInv, TypeOK, EachJobOnce, Shape, Live
<1>8. QED
  BY <1>1, <1>2, <1>3, <1>4, <1>5, <1>6, <1>7 DEF Next

(* The inductive invariant of prioqueue.c. *)
THEOREM HeapInvariant == Spec => []IInv
BY InitIInv, NextIInv, PTL DEF Spec

(* The bookkeeping of prioqueue.c stays well typed: count never exceeds the *)
(* allocated size, whatever sequence of inserts and extracts is made.       *)
THEOREM HeapTypeCorrect == Spec => []TypeOK
<1>1. IInv => TypeOK
  BY DEF IInv
<1>2. QED
  BY <1>1, HeapInvariant, PTL

(* PriorityQueue_insertInternal and PriorityQueue_heapify lose no queued    *)
(* job, duplicate none and bring no unwritten slot into the live part.      *)
THEOREM HeapKeepsJobs == Spec => []EachJobOnce
<1>1. IInv => EachJobOnce
  BY DEF IInv
<1>2. QED
  BY <1>1, HeapInvariant, PTL

(* The read of the slot right(pos) behind the live part, which the          *)
(* comparison at the top of PriorityQueue_heapify makes, is harmless, and   *)
(* a new job is written into the block.                                     *)
THEOREM HeapAccessIsSafe == Spec => []NoWildAccess
<1>1. ASSUME IInv, pc = "heapify", left(pos) < count
      PROVE  right(pos) < allocated /\ data[right(pos)] # Undef
  <2>1. right(pos) \in 1 .. count /\ count < allocated /\ data[count] \in Job
    BY <1>1 DEF IInv, TypeOK, Shape, left, right
  <2>2. \A i \in 0 .. count - 1 : data[i] \in Job
    BY <1>1 DEF IInv, EachJobOnce, Live
  <2>3. data[right(pos)] \in Job
    BY <1>1, <2>1, <2>2 DEF IInv, TypeOK
  <2>4. QED
    BY <1>1, <2>1, <2>3, PQAssumption DEF IInv, TypeOK
<1>2. ASSUME IInv, pc = "climb" PROVE pos < allocated
  BY <1>2 DEF IInv, TypeOK, Shape
<1>3. IInv => NoWildAccess
  BY <1>1, <1>2 DEF NoWildAccess
<1>4. QED
  BY <1>3, HeapInvariant, PTL

-----------------------------------------------------------------------------
(***************************************************************************)
(* The refinement.  A hole at the root (pos = 0 while a job climbs) still  *)
(* shows the job that moved down to a child of the root, so the displayed  *)
(* job is pending in every state.                                          *)
(***************************************************************************)
LEMMA InsertAdds ==
  ASSUME IInv, NEW j \in Job, Insert(j)
  PROVE  Pool!Insert(j)
<1>1. /\ pc = "idle" /\ pc' = "climb" /\ pos' = count /\ key' = j
      /\ count' = count /\ j \notin Pending
  BY DEF Insert
<1>2. Live' = 0 .. count - 1 /\ Live = 0 .. count - 1
  BY <1>1 DEF Live, IInv, TypeOK
<1>3. \A i \in Live : data'[i] = data[i]
  BY <1>2, InsertRoom
<1>4. Pending' = Pending \cup {j}
  BY <1>1, <1>2, <1>3 DEF Pending
<1>5. Front' \in Pending'
  <2>1. CASE count = 0
    BY <1>1, <1>4, <2>1 DEF Front
  <2>2. CASE count # 0
    <3>1. Front' = data'[0] /\ 0 \in Live'
      BY <1>1, <1>2, <2>2 DEF Front, IInv, TypeOK
    <3>2. QED
      BY <3>1 DEF Pending
  <2>3. QED
    BY <2>1, <2>2
<1>6. QED
  BY <1>1, <1>4, <1>5 DEF Pool!Insert, Pool!Shown

(* A step up of insertInternal changes no membership. *)
LEMMA ClimbOnRearranges ==
  ASSUME IInv, ClimbOn
  PROVE  Pool!Rearrange
<1>1. /\ pc = "climb" /\ pc' = "climb" /\ pos > 0 /\ pos' = parent(pos)
      /\ count' = count /\ allocated' = allocated /\ key' = key
      /\ data' = [data EXCEPT ![pos] = data[parent(pos)]]
  BY DEF ClimbOn
<1>2. parent(pos) \in Nat /\ parent(pos) < pos /\ pos <= count /\ count < allocated
  BY <1>1, ParentAbove DEF IInv, TypeOK, Shape
<1>3. Live = (0 .. count) \ {pos} /\ Live' = (0 .. count) \ {parent(pos)}
  BY <1>1 DEF Live
<1>4. /\ data'[pos] = data[parent(pos)]
      /\ \A i \in 0 .. count : i # pos => data'[i] = data[i]
      /\ parent(pos) \in Live /\ pos \in Live'
  BY <1>1, <1>2, <1>3 DEF IInv, TypeOK
<1>5. {data'[i] : i \in Live'} = {data[i] : i \in Live}
  BY <1>3, <1>4
<1>6. Pending' = Pending
  BY <1>1, <1>5 DEF Pending
<1>7. Front' = data'[0]
  BY <1>1, <1>2 DEF Front, IInv, TypeOK
<1>8. data'[0] \in {data'[i] : i \in Live'}
  <2>1. CASE parent(pos) = 0
    BY <1>1, <1>2, <1>4, <2>1 DEF IInv, TypeOK
  <2>2. CASE parent(pos) # 0
    BY <1>2, <1>3, <2>2 DEF IInv, TypeOK
  <2>3. QED
    BY <2>1, <2>2
<1>9. Front' \in Pending'
  BY <1>7, <1>8 DEF Pending
<1>10. QED
  BY <1>6, <1>9 DEF Pool!Rearrange, Pool!Shown

(* Neither does storing the job in the hole. *)
LEMMA ClimbEndRearranges ==
  ASSUME IInv, ClimbEnd
  PROVE  Pool!Rearrange
<1>1. /\ pc = "climb" /\ pc' = "idle" /\ count' = count + 1
      /\ data' = [data EXCEPT ![pos] = key]
      /\ pos <= count /\ count < allocated
  BY DEF ClimbEnd, IInv, Shape
<1>2. Live = (0 .. count) \ {pos} /\ Live' = 0 .. count
  BY <1>1 DEF Live, TypeOK, IInv
<1>3. /\ data'[pos] = key /\ pos \in Live'
      /\ \A i \in Live : data'[i] = data[i]
      /\ 0 \in Live'
  BY <1>1, <1>2 DEF IInv, TypeOK
<1>4. {data'[i] : i \in Live'} = {data[i] : i \in Live} \cup {key}
  BY <1>2, <1>3
<1>5. Pending' = Pending
  BY <1>1, <1>4 DEF Pending
<1>6. Front' \in Pending'
  BY <1>1, <1>3 DEF Front, Pending
<1>7. QED
  BY <1>5, <1>6 DEF Pool!Rearrange, Pool!Shown

(* The first step of PriorityQueue_extract removes exactly the front job. *)
LEMMA ExtractRemovesFront ==
  ASSUME IInv, Extract
  PROVE  Pool!Extract
<1>1. /\ pc = "idle" /\ count > 0 /\ count' = count - 1 /\ pc' # "climb"
  BY DEF Extract
<1>2. Live = 0 .. count - 1 /\ Live' = 0 .. count - 2
  BY <1>1 DEF Live, IInv, TypeOK
<1>3. Pending = {data[i] : i \in 0 .. count - 1} /\ Front = data[0]
  BY <1>1, <1>2 DEF Pending, Front
<1>4. Pending' = {data'[i] : i \in 0 .. count - 2} /\ Front' = data'[0]
  BY <1>1, <1>2 DEF Pending, Front
<1>5. \A i, k \in 0 .. count - 1 : data[i] = data[k] => i = k
  BY <1>2 DEF IInv, EachJobOnce
<1>6. count \in Nat /\ data \in [0 .. allocated - 1 -> Job \cup {Undef}]
      /\ count <= allocated /\ allocated \in Nat
  BY DEF IInv, TypeOK
<1>7. CASE count - 1 > 0 /\ data' = [data EXCEPT ![0] = data[count - 1]]
  <2>1. /\ data'[0] = data[count - 1]
        /\ \A i \in 1 .. count - 2 : data'[i] = data[i]
    BY <1>6, <1>7
  <2>2. Pending' \subseteq Pending \ {Front}
    BY <1>3, <1>4, <1>5, <1>6, <1>7, <2>1
  <2>3. Pending \ {Front} \subseteq Pending'
    <3> SUFFICES ASSUME NEW i \in 1 .. count - 1
                 PROVE  data[i] \in Pending'
      BY <1>3, <1>6
    <3>1. CASE i = count - 1
      BY <1>4, <1>6, <1>7, <2>1, <3>1
    <3>2. CASE i # count - 1
      BY <1>4, <1>6, <1>7, <2>1, <3>2
    <3>3. QED
      BY <3>1, <3>2
  <2>4. Front' \in Pending'
    BY <1>4, <1>6, <1>7
  <2>5. Front \in Pending
    BY <1>3, <1>6, <1>7
  <2>6. QED
    BY <2>2, <2>3, <2>4, <2>5 DEF Pool!Extract, Pool!Shown
<1>8. CASE ~(count - 1 > 0)
  <2>1. count = 1
    BY <1>1, <1>6, <1>8
  <2>2. Pending = {data[0]} /\ Pending' = {}
    BY <1>3, <1>4, <2>1
  <2>3. QED
    BY <1>3, <2>2 DEF Pool!Extract, Pool!Shown
<1>9. QED
  BY <1>7, <1>8 DEF Extract

(* A level of PriorityQueue_heapify changes no membership. *)
LEMMA HeapifyRearranges ==
  ASSUME IInv, Heapify
  PROVE  Pool!Rearrange
<1> DEFINE m == largest(data, count, pos)
<1>1. /\ pc = "heapify" /\ pc' # "climb" /\ count' = count
      /\ pos < count /\ 0 < count /\ count < allocated
  BY DEF Heapify, IInv, Shape
<1>2. Live = 0 .. count - 1 /\ Live' = 0 .. count - 1
  BY <1>1 DEF Live
<1>3. m \in 0 .. count - 1 /\ pos \in 0 .. count - 1 /\ 0 \in 0 .. count - 1
  BY <1>1, LargestInLive DEF IInv, TypeOK
<1>4. data' = data \/ data' = Swap(data, pos, m)
  BY DEF Heapify
<1> HIDE DEF m
<1>5. {data'[i] : i \in 0 .. count - 1} = {data[i] : i \in 0 .. count - 1}
  <2>1. CASE data' = data
    BY <2>1
  <2>2. CASE data' = Swap(data, pos, m)
    <3>1. \A x \in 0 .. count - 1 : data'[x] =
            IF x = m THEN data[pos] ELSE IF x = pos THEN data[m] ELSE data[x]
      BY <1>1, <1>3, <2>2 DEF Swap, IInv, TypeOK
    <3>2. QED
      BY <1>3, <3>1
  <2>3. QED
    BY <1>4, <2>1, <2>2
<1>6. Pending' = Pending
  BY <1>1, <1>2, <1>5 DEF Pending
<1>7. Front' \in Pending'
  BY <1>1, <1>2, <1>3 DEF Front, Pending
<1>8. QED
  BY <1>6, <1>7 DEF Pool!Rearrange, Pool!Shown

(* prioqueue.c implements JobPool: an insertion adds one job, an extraction *)
(* removes the one PriorityQueue_max shows, the sift loops change nothing.  *)
THEOREM HeapImplementsJobPool == Spec => ImplementsJobPool
<1>1. Init => Pool!Init
  BY DEF Init, Pool!Init, Pending, Live
<1>2. IInv /\ [Next]_vars => [Pool!Next]_<<Pending, Front>>
  <2> SUFFICES ASSUME IInv, [Next]_vars
               PROVE  Pool!Next \/ UNCHANGED <<Pending, Front>>
    OBVIOUS
  <2>1. CASE \E j \in Job : Insert(j)
    BY <2>1, InsertAdds DEF Pool!Next
  <2>2. CASE ReallocFails
    BY <2>2 DEF ReallocFails, Pending, Live, Front
  <2>3. CASE ClimbOn
    BY <2>3, ClimbOnRearranges DEF Pool!Next
  <2>4. CASE ClimbEnd
    BY <2>4, ClimbEndRearranges DEF Pool!Next
  <2>5. CASE Extract
    BY <2>5, ExtractRemovesFront DEF Pool!Next
  <2>6. CASE Heapify
    BY <2>6, HeapifyRearranges DEF Pool!Next
  <2>7. CASE UNCHANGED vars
    BY <2>7 DEF vars, Pending, Live, Front
  <2>8. QED
    BY <2>1, <2>2, <2>3, <2>4, <2>5, <2>6, <2>7 DEF Next
<1>3. QED
  BY <1>1, <1>2, HeapInvariant, PTL DEF Spec, ImplementsJobPool, Pool!Spec

-----------------------------------------------------------------------------
(***************************************************************************)
(* The loops and the operators on whole queues that the Worker module      *)
(* uses.  First the climb from a slot to the root.                         *)
(***************************************************************************)
(* Every non-empty set of numbers has a least one: induction over the slots *)
(* of the heap is done by looking at the first slot that fails.             *)
LEMMA LeastNumber ==
  ASSUME NEW T \in SUBSET Nat, T # {}
  PROVE  \E m \in T : \A k \in T : m <= k
<1>1. PICK m \in T : \A k \in T : ~ (<<k, m>> \in OpToRel(<, Nat))
  BY NatLessThanWellFounded, WFMin, Zenon
<1>2. \A k \in T : ~ (k < m)
  BY <1>1, Zenon DEF OpToRel
<1>3. QED
  BY <1>2

(* The set the climb from i to the root visits, without recursion: the      *)
(* least set with i that is closed under parent.                            *)
Closed(S) == \A b \in S : b # 0 => parent(b) \in S

Above(i) == {a \in 0 .. i : \A S \in SUBSET Nat : i \in S /\ Closed(S) => a \in S}

(* It satisfies the equation that defines Ancestors. *)
LEMMA AboveStep ==
  ASSUME NEW i \in Nat, i # 0
  PROVE  Above(i) = {i} \cup Above(parent(i))
<1> DEFINE p == parent(i)
<1>1. p \in Nat /\ p < i
  BY ParentAbove
<1>2. i \in Above(i)
  BY DEF Above
<1>3. ASSUME NEW a \in Above(p) PROVE a \in Above(i)
  <2>1. a \in 0 .. i
    BY <1>1 DEF Above
  <2>2. ASSUME NEW S \in SUBSET Nat, i \in S, Closed(S) PROVE a \in S
    <3>1. p \in S
      BY <2>2 DEF Closed
    <3>2. QED
      BY <3>1, <2>2 DEF Above
  <2>3. QED
    BY <2>1, <2>2 DEF Above
<1>4. ASSUME NEW a \in Above(i), a # i PROVE a \in Above(p)
  <2>1. a \in 0 .. p
    <3> DEFINE S == {i} \cup (0 .. p)
    <3>1. Closed(S)
      <4>1. ASSUME NEW b \in S, b # 0 PROVE parent(b) \in S
        <5>1. CASE b = i
          BY <5>1, <1>1
        <5>2. CASE b \in 0 .. p
          BY <5>2, <4>1, <1>1, ParentAbove
        <5>3. QED
          BY <5>1, <5>2
      <4>2. QED
        BY <4>1 DEF Closed
    <3>2. S \in SUBSET Nat /\ i \in S
      BY <1>1
    <3>3. a \in S
      BY <3>1, <3>2 DEF Above
    <3>4. QED
      BY <3>3, <1>4
  <2>2. ASSUME NEW S \in SUBSET Nat, p \in S, Closed(S) PROVE a \in S
    <3>1. Closed(S \cup {i})
      BY <2>2 DEF Closed
    <3>2. a \in S \cup {i}
      BY <3>1 DEF Above
    <3>3. QED
      BY <3>2, <1>4
  <2>3. QED
    BY <2>1, <2>2, <1>1 DEF Above
<1>5. QED
  BY <1>2, <1>3, <1>4

(* The root has only itself above it. *)
LEMMA AboveRoot == Above(0) = {0}
BY DEF Above

(* Hence the recursive function is well defined, slot by slot. *)
LEMMA AncestorsStep ==
  /\ Ancestors[0] = {0}
  /\ \A i \in Nat : i # 0 =>
       Ancestors[i] = {i} \cup Ancestors[parent(i)]
<1> DEFINE h == [i \in Nat |-> Above(i)]
<1> DEFINE Rec(g) == [i \in Nat |-> IF i = 0 THEN {0} ELSE {i} \cup g[parent(i)]]
<1>1. h = Rec(h)
  <2>1. ASSUME NEW i \in Nat, i # 0 PROVE h[i] = {i} \cup h[parent(i)]
    <3>1. parent(i) \in Nat
      BY <2>1, ParentAbove
    <3>2. QED
      BY <2>1, <3>1, AboveStep
  <2>2. h[0] = {0}
    BY AboveRoot
  <2>3. QED
    BY <2>1, <2>2
<1>2. \E g : g = Rec(g)
  BY <1>1
<1>3. Ancestors = Rec(Ancestors)
  BY <1>2 DEF Ancestors
<1>4. QED
  BY <1>3

(* A climb is one chain: it goes from i to the root, every slot on it but   *)
(* the first has a child on it, and no level is visited twice.              *)
Chain(i) ==
  LET A == Ancestors[i]
  IN  /\ A \subseteq 0 .. i /\ i \in A /\ 0 \in A
      /\ \A a \in A : a # 0 => parent(a) \in A
      /\ \A a \in A : a # i => \E b \in A : b > 0 /\ parent(b) = a
      /\ \A a, b \in A : a < b => 2 * a + 1 <= b

(* One level further down a chain stays a chain. *)
LEMMA ChainStep ==
  ASSUME NEW i \in Nat, i # 0, Chain(parent(i))
  PROVE  Chain(i)
<1> DEFINE p == parent(i)
           A == Ancestors[p]
           B == Ancestors[i]
<1>1. p \in Nat /\ p < i /\ 2 * p + 1 <= i
  BY ParentAbove
<1>2. B = {i} \cup A
  BY AncestorsStep
<1>3. /\ A \subseteq 0 .. p /\ p \in A /\ 0 \in A
      /\ \A a \in A : a # 0 => parent(a) \in A
      /\ \A a \in A : a # p => \E b \in A : b > 0 /\ parent(b) = a
      /\ \A a, b \in A : a < b => 2 * a + 1 <= b
  BY DEF Chain
<1> HIDE DEF A, B, p
<1>4. B \subseteq 0 .. i /\ i \in B /\ 0 \in B
  BY <1>1, <1>2, <1>3
<1>5. \A a \in B : a # 0 => parent(a) \in B
  BY <1>2, <1>3 DEF p
<1>6. \A a \in B : a # i => \E b \in B : b > 0 /\ parent(b) = a
  <2>1. SUFFICES ASSUME NEW a \in B, a # i PROVE \E b \in B : b > 0 /\ parent(b) = a
    OBVIOUS
  <2>2. CASE a = p
    BY <2>2, <1>4 DEF p
  <2>3. CASE a # p
    BY <2>1, <2>3, <1>2, <1>3
  <2>4. QED
    BY <2>2, <2>3
<1>7. \A a, b \in B : a < b => 2 * a + 1 <= b
  <2>1. SUFFICES ASSUME NEW a \in B, NEW b \in B, a < b PROVE 2 * a + 1 <= b
    OBVIOUS
  <2>2. CASE a = i
    BY <2>1, <2>2, <1>4
  <2>3. CASE a \in A /\ b = i
    BY <2>3, <1>1, <1>3
  <2>4. CASE a \in A /\ b \in A
    BY <2>1, <2>4, <1>3
  <2>5. QED
    BY <2>2, <2>3, <2>4, <1>2
<1>8. QED
  BY <1>4, <1>5, <1>6, <1>7 DEF Chain, B

(* So every climb is one: the first slot with another climb would not be    *)
(* the root, and its parent comes before it.                                *)
LEMMA AncestorsChain ==
  ASSUME NEW i \in Nat
  PROVE  Chain(i)
<1>1. Chain(0)
  BY AncestorsStep DEF Chain
<1> DEFINE Bad == {k \in Nat : ~ Chain(k)}
<1>2. CASE Bad = {}
  BY <1>2
<1>3. CASE Bad # {}
  <2>1. PICK m \in Bad : \A k \in Bad : m <= k
    BY <1>3, LeastNumber
  <2>2. m \in Nat /\ m # 0
    BY <1>1
  <2>3. parent(m) \in Nat /\ parent(m) < m
    BY <2>2, ParentAbove
  <2>4. Chain(parent(m))
    BY <2>1, <2>2, <2>3
  <2>5. Chain(m)
    BY <2>2, <2>4, ChainStep
  <2>6. QED
    BY <2>5
<1>4. QED
  BY <1>2, <1>3

-----------------------------------------------------------------------------
(* One level of heapify, as the operator sees it: the slot p holds what was *)
(* at the root.                                                             *)
Goes(d, c, p) == largest([d EXCEPT ![p] = d[0]], c, p)

(* Where a call stands.  q is the queue it started with: on the way from    *)
(* the free slot up to the hole everything has moved down by one place.     *)
Climbing(q) ==
  /\ DOMAIN q = 0 .. count - 1
  /\ whole = insert(q, key)
  /\ pos \in Ancestors[count]
  /\ \A b \in Ancestors[count] : pos <= b /\ b < count => Key(q[b]) < Key(key)
  /\ \A i \in 0 .. count : i # pos =>
       data[i] = IF i \in Ancestors[count] /\ i > pos THEN q[parent(i)] ELSE q[i]

(* d is the queue whose root has been replaced: above pos everything has    *)
(* moved up by one place, along the way the operator goes.                  *)
Sinking(d) ==
  /\ DOMAIN d = 0 .. count
  /\ whole = [i \in 0 .. count - 1 |-> heapify(d, count)[i]]
  /\ data[pos] = d[0]
  /\ \A a \in Ancestors[pos] \ {0} :
       Goes(d, count, parent(a)) = a /\ data[parent(a)] = d[a]
  /\ \A i \in 0 .. count : i \notin Ancestors[pos] => data[i] = d[i]

CallInv ==
  /\ pc = "idle" => LiveArray = whole
  /\ pc = "climb" => \E q : Climbing(q)
  /\ pc = "heapify" => \E d : Sinking(d)

(* The start of a call of PriorityQueue_insert ... *)
LEMMA InsertCall ==
  ASSUME IInv, NEW j \in Job, Insert(j), whole' = insert(LiveArray, j)
  PROVE  CallInv'
<1>1. pc' = "climb" /\ pos' = count /\ key' = j /\ count' = count
  BY DEF Insert
<1>2. count \in Nat /\ \A i \in 0 .. count - 1 : data'[i] = data[i]
  BY InsertRoom DEF IInv, TypeOK
<1>3. PICK r : r = LiveArray
  OBVIOUS
<1>4. DOMAIN r = 0 .. count - 1 /\ \A i \in 0 .. count - 1 : r[i] = data[i]
  BY <1>3 DEF LiveArray
<1>5. Chain(count)
  BY <1>2, AncestorsChain
<1>6. count \in Ancestors[count] /\ Ancestors[count] \subseteq 0 .. count
  BY <1>5 DEF Chain
<1>7. Climbing(r)'
  <2>1. DOMAIN r = 0 .. count' - 1 /\ whole' = insert(r, key')
    BY <1>1, <1>3, <1>4
  <2>2. pos' \in Ancestors[count']
    BY <1>1, <1>6
  <2>3. \A b \in Ancestors[count'] : pos' <= b /\ b < count' => Key(r[b]) < Key(key')
    BY <1>1, <1>2, <1>6
  <2>4. \A i \in 0 .. count' : i # pos' =>
          data'[i] = IF i \in Ancestors[count'] /\ i > pos' THEN r[parent(i)] ELSE r[i]
    BY <1>1, <1>2, <1>4
  <2> QED BY <2>1, <2>2, <2>3, <2>4 DEF Climbing
<1> QED BY <1>1, <1>7 DEF CallInv

(* ... an iteration of its loop ... *)
LEMMA ClimbOnCall ==
  ASSUME IInv, ClimbOn, UNCHANGED whole, NEW q, Climbing(q)
  PROVE  Climbing(q)'
<1> DEFINE A == Ancestors[count]
           p == parent(pos)
<1>1. /\ pos > 0 /\ pos' = p /\ count' = count /\ key' = key
      /\ Key(data[p]) < Key(key)
      /\ data' = [data EXCEPT ![pos] = data[p]]
  BY DEF ClimbOn
<1>2. /\ pos \in Nat /\ count \in Nat /\ pos <= count /\ count < allocated
      /\ data \in [0 .. allocated - 1 -> Job \cup {Undef}] /\ allocated \in Nat
  BY DEF IInv, TypeOK, Shape, ClimbOn
<1>3. p \in Nat /\ p < pos /\ pos <= 2 * p + 2
  BY <1>1, <1>2, ParentAbove
<1>4. /\ DOMAIN q = 0 .. count - 1 /\ whole = insert(q, key) /\ pos \in A
      /\ \A b \in A : pos <= b /\ b < count => Key(q[b]) < Key(key)
      /\ \A i \in 0 .. count : i # pos =>
           data[i] = IF i \in A /\ i > pos THEN q[parent(i)] ELSE q[i]
  BY DEF Climbing
<1>5. /\ A \subseteq 0 .. count
      /\ \A a \in A : a # 0 => parent(a) \in A
      /\ \A a, b \in A : a < b => 2 * a + 1 <= b
  BY <1>2, AncestorsChain DEF Chain
<1> HIDE DEF A
<1>6. p \in A
  BY <1>1, <1>4, <1>5
<1>7. \A b \in A : b < pos => b <= p
  <2> SUFFICES ASSUME NEW b \in A, b < pos PROVE b <= p
    OBVIOUS
  <2>1. 2 * b + 1 <= pos /\ b \in Nat
    BY <1>4, <1>5
  <2> HIDE DEF p
  <2> QED BY <1>2, <1>3, <2>1
<1>8. data[p] = q[p]
  BY <1>2, <1>3, <1>4
<1> HIDE DEF p
<1>9. ASSUME NEW b \in A, p <= b, b < count PROVE Key(q[b]) < Key(key)
  <2>1. CASE pos <= b
    BY <1>4, <1>9, <2>1
  <2>2. CASE ~(pos <= b)
    <3>1. b = p
      BY <1>2, <1>3, <1>5, <1>7, <1>9, <2>2
    <3> QED BY <1>1, <1>8, <3>1
  <2> QED BY <2>1, <2>2
<1>10. ASSUME NEW i \in 0 .. count, i # p
       PROVE  data'[i] = IF i \in A /\ i > p THEN q[parent(i)] ELSE q[i]
  <2>1. CASE i = pos
    <3>1. data'[i] = q[p] /\ i \in A /\ i > p
      BY <1>1, <1>2, <1>3, <1>4, <1>8, <2>1
    <3> QED BY <2>1, <3>1 DEF p
  <2>2. CASE i # pos
    <3>1. data'[i] = data[i]
      BY <1>1, <1>2, <2>2
    <3>2. i \in A => (i > pos <=> i > p)
      BY <1>2, <1>3, <1>7, <1>10, <2>2
    <3> QED BY <1>4, <2>2, <3>1, <3>2
  <2> QED BY <2>1, <2>2
<1> QED BY <1>1, <1>4, <1>6, <1>9, <1>10 DEF Climbing, A

(* ... and its end: the array is what insert has computed. *)
LEMMA ClimbEndCall ==
  ASSUME IInv, ClimbEnd, UNCHANGED whole, NEW q, Climbing(q)
  PROVE  LiveArray' = whole'
<1> DEFINE n == count
           A == Ancestors[n]
           P == {a \in A : \A b \in A : a <= b /\ b < n => Key(q[b]) < Key(key)}
<1>1. /\ pos > 0 => Key(data[parent(pos)]) >= Key(key)
      /\ data' = [data EXCEPT ![pos] = key] /\ count' = n + 1
  BY DEF ClimbEnd
<1>2. /\ pos \in Nat /\ n \in Nat /\ pos <= n /\ n < allocated /\ pc = "climb"
      /\ data \in [0 .. allocated - 1 -> Job \cup {Undef}] /\ allocated \in Nat
  BY DEF IInv, TypeOK, Shape, ClimbEnd
<1>3. /\ DOMAIN q = 0 .. n - 1 /\ whole = insert(q, key) /\ pos \in A
      /\ \A b \in A : pos <= b /\ b < n => Key(q[b]) < Key(key)
      /\ \A i \in 0 .. n : i # pos =>
           data[i] = IF i \in A /\ i > pos THEN q[parent(i)] ELSE q[i]
  BY DEF Climbing
<1>4. Size(q) = n
  BY <1>2, <1>3, FS_Interval DEF Size
<1>5. whole = [i \in 0 .. n |->
                 IF i \notin P THEN q[i]
                 ELSE IF i > 0 /\ parent(i) \in P THEN q[parent(i)] ELSE key]
  BY <1>3, <1>4 DEF insert
<1>6. /\ A \subseteq 0 .. n
      /\ \A a \in A : a # 0 => parent(a) \in A
      /\ \A a, b \in A : a < b => 2 * a + 1 <= b
  BY <1>2, AncestorsChain DEF Chain
<1> HIDE DEF A
<1>7. ASSUME NEW b \in A, b < pos PROVE pos > 0 /\ b <= parent(pos)
  <2>1. 2 * b + 1 <= pos /\ b \in Nat
    BY <1>3, <1>6, <1>7
  <2>2. parent(pos) \in Nat /\ pos <= 2 * parent(pos) + 2
    BY <1>2, <2>1, ParentAbove
  <2> QED BY <1>2, <2>1, <2>2
<1>8. ASSUME NEW a \in A PROVE a \in P <=> pos <= a
  <2>1. CASE pos <= a
    BY <1>2, <1>3, <1>6, <2>1
  <2>2. CASE ~(pos <= a)
    <3> DEFINE p == parent(pos)
    <3>1. pos > 0 /\ a <= p
      BY <1>2, <1>6, <1>7, <2>2
    <3>2. p \in Nat /\ p < pos /\ p \in A /\ p < n
      BY <1>2, <1>3, <1>6, <3>1, ParentAbove
    <3> HIDE DEF p
    <3>3. data[p] = q[p]
      BY <1>2, <1>3, <3>2
    <3>4. Key(q[p]) >= Key(key)
      BY <1>1, <3>1, <3>3 DEF p
    <3>5. Key(q[p]) \in Int /\ Key(key) \in Int
      <4>1. data[p] \in Job /\ key \in Job
        BY <1>2, <3>2 DEF IInv, EachJobOnce, Live
      <4> QED BY <3>3, <4>1, PQAssumption
    <3>6. ~(Key(q[p]) < Key(key))
      BY <3>4, <3>5
    <3> QED BY <2>2, <3>1, <3>2, <3>6
  <2> QED BY <2>1, <2>2
<1>9. P \subseteq A
  OBVIOUS
<1> HIDE DEF P
<1>10. ASSUME NEW i \in 0 .. n PROVE data'[i] = whole[i]
  <2>1. CASE i = pos
    <3>1. i \in P
      BY <1>3, <1>8, <2>1
    <3>2. ~(i > 0 /\ parent(i) \in P)
      <4>1. i > 0 => parent(i) \in Nat /\ parent(i) < i
        BY ParentAbove
      <4> QED BY <1>2, <1>8, <1>9, <2>1, <4>1
    <3> QED BY <1>1, <1>2, <1>5, <2>1, <3>1, <3>2
  <2>2. CASE i # pos /\ i \in A /\ i > pos
    <3>1. i \in P /\ i > 0
      BY <1>2, <1>8, <2>2
    <3>2. parent(i) \in P
      <4>1. 2 * pos + 1 <= i
        BY <1>3, <1>6, <2>2
      <4>2. parent(i) \in Nat /\ i <= 2 * parent(i) + 2 /\ parent(i) \in A
        BY <1>6, <2>2, <3>1, ParentAbove
      <4> QED BY <1>2, <1>8, <4>1, <4>2
    <3> QED BY <1>1, <1>2, <1>3, <1>5, <2>2, <3>1, <3>2
  <2>3. CASE i # pos /\ ~(i \in A /\ i > pos)
    <3>1. i \notin P
      BY <1>2, <1>8, <1>9, <2>3
    <3> QED BY <1>1, <1>2, <1>3, <1>5, <2>3, <3>1
  <2> QED BY <2>1, <2>2, <2>3
<1>11. LiveArray' = [i \in 0 .. n |-> data'[i]]
  <2>1. count' - 1 = n
    BY <1>1, <1>2
  <2> QED BY <1>1, <2>1 DEF LiveArray
<1> QED BY <1>5, <1>10, <1>11

(* The start of a call of PriorityQueue_extract. *)
LEMMA ExtractCall ==
  ASSUME IInv, Extract, whole' = extract(LiveArray)
  PROVE  CallInv'
<1> DEFINE c == count - 1
<1>1. /\ pc = "idle" /\ count > 0 /\ count' = c /\ pos' = pos /\ pos = 0
      /\ count \in Nat /\ allocated \in Nat /\ count <= allocated
      /\ data \in [0 .. allocated - 1 -> Job \cup {Undef}]
  BY DEF Extract, IInv, TypeOK, Shape
<1>2. PICK q : q = LiveArray
  OBVIOUS
<1>3. q = [i \in 0 .. c |-> data[i]]
  BY <1>2 DEF LiveArray
<1>4. Size(q) = count
  BY <1>1, <1>3, FS_Interval DEF Size
<1>5. PICK d : d = [q EXCEPT ![0] = q[c]]
  OBVIOUS
<1>6. /\ DOMAIN d = 0 .. c /\ d[0] = data[c]
      /\ \A i \in 1 .. c : d[i] = data[i]
  BY <1>1, <1>3, <1>5
<1>7. whole' = [i \in 0 .. c - 1 |-> heapify(d, c)[i]]
  BY <1>2, <1>4, <1>5 DEF extract
<1>8. CASE c > 0
  <2>1. data' = [data EXCEPT ![0] = data[c]] /\ pc' = "heapify"
    BY <1>8 DEF Extract
  <2>2. data'[0] = data[c] /\ \A i \in 1 .. c : data'[i] = data[i]
    BY <1>1, <2>1
  <2>3. Ancestors[0] = {0}
    BY AncestorsStep
  <2>4. Sinking(d)'
    <3>1. \A i \in 0 .. c : i \notin Ancestors[0] => i \in 1 .. c
      BY <1>1, <2>3
    <3>2. data'[0] = d[0] /\ \A i \in 1 .. c : data'[i] = d[i]
      BY <1>6, <2>2
    <3>3. DOMAIN d = 0 .. count' /\ whole' = [i \in 0 .. count' - 1 |-> heapify(d, count')[i]]
      BY <1>1, <1>6, <1>7
    <3> QED BY <1>1, <2>3, <3>1, <3>2, <3>3 DEF Sinking
  <2> QED BY <2>1, <2>4 DEF CallInv
<1>9. CASE ~(c > 0)
  <2>1. c = 0 /\ pc' = "idle"
    BY <1>1, <1>9 DEF Extract
  <2>2. 0 .. c - 1 = {}
    BY <2>1
  <2>3. LiveArray' = whole'
    BY <1>1, <1>7, <2>2 DEF LiveArray
  <2> QED BY <2>1, <2>3 DEF CallInv
<1> QED BY <1>8, <1>9

(* Each level of heapify chooses as the operator does. *)
LEMMA SameChoice ==
  ASSUME IInv, pc = "heapify", NEW d, Sinking(d)
  PROVE  largest(data, count, pos) = Goes(d, count, pos)
<1>1. pos \in Nat /\ count \in Nat /\ pos < count
  BY DEF IInv, TypeOK, Shape
<1>2. /\ DOMAIN d = 0 .. count /\ data[pos] = d[0]
      /\ \A i \in 0 .. count : i \notin Ancestors[pos] => data[i] = d[i]
  BY DEF Sinking
<1>3. Ancestors[pos] \subseteq 0 .. pos
  BY <1>1, AncestorsChain DEF Chain
<1> DEFINE e == [d EXCEPT ![pos] = d[0]]
<1>4. /\ e[pos] = d[0]
      /\ \A i \in 0 .. count : i # pos => e[i] = d[i]
  BY <1>1, <1>2
<1> HIDE DEF e
<1>5. \A i \in 0 .. count : i > pos => data[i] = e[i]
  BY <1>1, <1>2, <1>3, <1>4
<1>6. data[pos] = e[pos]
  BY <1>2, <1>4
<1>7. CASE left(pos) < count
  <2>1. /\ left(pos) \in 0 .. count /\ right(pos) \in 0 .. count
        /\ left(pos) > pos /\ right(pos) > pos
    BY <1>1, <1>7 DEF left, right
  <2>2. data[left(pos)] = e[left(pos)] /\ data[right(pos)] = e[right(pos)]
    BY <1>5, <2>1
  <2>3. largest(data, count, pos) = largest(e, count, pos)
    BY <1>6, <2>2 DEF largest
  <2> QED BY <2>3 DEF Goes, e
<1>8. CASE ~(left(pos) < count)
  <2>1. ~(right(pos) < count)
    BY <1>1, <1>8 DEF left, right
  <2>2. largest(data, count, pos) = pos /\ largest(e, count, pos) = pos
    BY <1>8, <2>1 DEF largest
  <2> QED BY <2>2 DEF Goes, e
<1> QED BY <1>7, <1>8

(* So the element of the root goes down the same way ... *)
LEMMA SinkOn ==
  ASSUME IInv, Heapify, UNCHANGED whole, NEW d, Sinking(d),
         largest(data, count, pos) # pos
  PROVE  pc' = "heapify" /\ Sinking(d)'
<1>1. PICK m : m = largest(data, count, pos)
  OBVIOUS
<1>2. /\ pc = "heapify" /\ pc' = pc /\ count' = count /\ pos' = m
      /\ data' = Swap(data, pos, m)
  BY <1>1 DEF Heapify
<1>3. /\ pos \in Nat /\ count \in Nat /\ pos < count /\ allocated \in Nat
      /\ count < allocated /\ data \in [0 .. allocated - 1 -> Job \cup {Undef}]
  BY <1>2 DEF IInv, TypeOK, Shape
<1>4. m \in 0 .. count - 1 /\ (m = left(pos) \/ m = right(pos))
  BY <1>1, <1>3, LargestInLive
<1>5. m > pos /\ m # 0 /\ parent(m) = pos
  BY <1>3, <1>4 DEF left, right, parent
<1>6. Ancestors[m] = {m} \cup Ancestors[pos]
  BY <1>4, <1>5, AncestorsStep
<1>7. Ancestors[pos] \subseteq 0 .. pos /\ pos \in Ancestors[pos]
  BY <1>3, AncestorsChain DEF Chain
<1>8. /\ data'[m] = data[pos] /\ data'[pos] = data[m]
      /\ \A i \in 0 .. count : i # m /\ i # pos => data'[i] = data[i]
  BY <1>2, <1>3, <1>4, <1>5 DEF Swap
<1>9. /\ DOMAIN d = 0 .. count /\ data[pos] = d[0]
      /\ whole = [i \in 0 .. count - 1 |-> heapify(d, count)[i]]
      /\ \A a \in Ancestors[pos] \ {0} :
           Goes(d, count, parent(a)) = a /\ data[parent(a)] = d[a]
      /\ \A i \in 0 .. count : i \notin Ancestors[pos] => data[i] = d[i]
  BY DEF Sinking
<1>10. Goes(d, count, pos) = m
  BY <1>1, <1>2, SameChoice
<1>11. ASSUME NEW a \in Ancestors[m] \ {0}
       PROVE  Goes(d, count, parent(a)) = a /\ data'[parent(a)] = d[a]
  <2>1. CASE a = m
    <3>1. m \in 0 .. count /\ m \notin Ancestors[pos]
      BY <1>3, <1>4, <1>5, <1>7
    <3>2. data[m] = d[m]
      BY <1>9, <3>1
    <3> QED BY <1>5, <1>8, <1>10, <2>1, <3>2
  <2>2. CASE a # m
    <3>1. a \in Ancestors[pos] \ {0}
      BY <1>6, <2>2
    <3>2. parent(a) \in Nat /\ parent(a) < pos
      BY <1>7, <3>1, ParentAbove
    <3>3. data'[parent(a)] = data[parent(a)]
      BY <1>3, <1>5, <1>8, <3>2
    <3> QED BY <1>9, <3>1, <3>3
  <2> QED BY <2>1, <2>2
<1>12. ASSUME NEW i \in 0 .. count, i \notin Ancestors[m] PROVE data'[i] = d[i]
  BY <1>6, <1>7, <1>8, <1>9, <1>12
<1>13. data'[m] = d[0]
  BY <1>8, <1>9
<1> QED BY <1>2, <1>9, <1>11, <1>12, <1>13 DEF Sinking

(* ... and stops where the operator stops. *)
LEMMA SinkEnd ==
  ASSUME IInv, Heapify, UNCHANGED whole, NEW d, Sinking(d),
         largest(data, count, pos) = pos
  PROVE  pc' = "idle" /\ LiveArray' = whole'
<1> DEFINE A == Ancestors[pos]
           P == {p \in 0 .. count - 1 :
                   \A a \in Ancestors[p] \ {0} : Goes(d, count, parent(a)) = a}
<1>1. pc = "heapify" /\ pc' = "idle" /\ count' = count /\ data' = data
  BY DEF Heapify
<1>2. pos \in Nat /\ count \in Nat /\ pos < count
  BY <1>1 DEF IInv, TypeOK, Shape
<1>3. /\ DOMAIN d = 0 .. count /\ data[pos] = d[0]
      /\ whole = [i \in 0 .. count - 1 |-> heapify(d, count)[i]]
      /\ \A a \in A \ {0} : Goes(d, count, parent(a)) = a /\ data[parent(a)] = d[a]
      /\ \A i \in 0 .. count : i \notin A => data[i] = d[i]
  BY DEF Sinking
<1>4. /\ A \subseteq 0 .. pos /\ pos \in A /\ 0 \in A
      /\ \A a \in A : a # 0 => parent(a) \in A
      /\ \A a \in A : a # pos => \E b \in A : b > 0 /\ parent(b) = a
  BY <1>2, AncestorsChain DEF Chain
<1>5. Goes(d, count, pos) = pos
  BY <1>1, SameChoice
<1>6. heapify(d, count) =
        [i \in 0 .. count |-> IF i \notin P THEN d[i]
                              ELSE IF Goes(d, count, i) = i THEN d[0]
                              ELSE d[Goes(d, count, i)]]
  BY <1>3 DEF heapify, Goes
<1> HIDE DEF A
<1>7. ASSUME NEW p \in P PROVE p \in A
  <2> DEFINE Off == {k \in P : k \notin A}
  <2> SUFFICES ASSUME Off # {} PROVE FALSE
    OBVIOUS
  <2>1. Off \in SUBSET Nat
    OBVIOUS
  <2>2. PICK k \in Off : \A x \in Off : k <= x
    BY <2>1, LeastNumber
  <2>3. k \in 0 .. count - 1 /\ k \notin A /\ k # 0
    BY <1>4
  <2>4. parent(k) \in Nat /\ parent(k) < k
    BY <2>3, ParentAbove
  <2>5. Ancestors[k] = {k} \cup Ancestors[parent(k)]
    BY <2>3, AncestorsStep
  <2>6. parent(k) \in P /\ Goes(d, count, parent(k)) = k
    <3>1. \A a \in Ancestors[k] \ {0} : Goes(d, count, parent(a)) = a
      OBVIOUS
    <3>2. parent(k) \in 0 .. count - 1
      BY <1>2, <2>3, <2>4
    <3> QED BY <2>3, <2>5, <3>1, <3>2
  <2>7. parent(k) \in A
    BY <2>2, <2>4, <2>6
  <2>8. CASE parent(k) = pos
    BY <1>5, <2>4, <2>6, <2>8
  <2>9. CASE parent(k) # pos
    <3>1. PICK b \in A : b > 0 /\ parent(b) = parent(k)
      BY <1>4, <2>7, <2>9
    <3>2. Goes(d, count, parent(b)) = b
      BY <1>3, <3>1
    <3> QED BY <2>3, <2>6, <3>1, <3>2
  <2> QED BY <2>8, <2>9
<1>8. ASSUME NEW p \in A PROVE p \in P
  <2> DEFINE Off == {k \in A : k \notin P}
  <2> SUFFICES ASSUME Off # {} PROVE FALSE
    OBVIOUS
  <2>1. Off \in SUBSET Nat
    <3>1. Off \subseteq A
      OBVIOUS
    <3> HIDE DEF Off
    <3> QED BY <1>2, <1>4, <3>1
  <2>2. PICK k \in Off : \A x \in Off : k <= x
    BY <2>1, LeastNumber
  <2>3. k \in 0 .. count - 1 /\ k \in A /\ k \notin P
    BY <1>2, <1>4, <2>2
  <2>4. k # 0
    BY <2>3, AncestorsStep
  <2>5. parent(k) \in Nat /\ parent(k) < k /\ parent(k) \in A
    BY <1>4, <2>3, <2>4, ParentAbove
  <2>6. parent(k) \in P
    BY <2>2, <2>3, <2>5
  <2>7. Ancestors[k] = {k} \cup Ancestors[parent(k)]
    BY <2>3, <2>4, AncestorsStep
  <2>8. Goes(d, count, parent(k)) = k
    BY <1>3, <2>3, <2>4
  <2> QED BY <2>3, <2>6, <2>7, <2>8
<1> HIDE DEF P
<1>9. ASSUME NEW i \in 0 .. count - 1 PROVE data[i] = heapify(d, count)[i]
  <2>1. i \in 0 .. count
    BY <1>2
  <2>2. CASE i \notin A
    <3>1. i \notin P
      BY <1>7, <2>2
    <3> QED BY <1>3, <1>6, <2>1, <2>2, <3>1
  <2>3. CASE i = pos
    <3>1. i \in P
      BY <1>4, <1>8, <2>3
    <3> QED BY <1>3, <1>5, <1>6, <2>1, <2>3, <3>1
  <2>4. CASE i \in A /\ i # pos
    <3>1. PICK b \in A : b > 0 /\ parent(b) = i
      BY <1>4, <2>4
    <3>2. Goes(d, count, i) = b /\ data[i] = d[b]
      BY <1>3, <3>1
    <3>3. b # i
      BY <1>4, <3>1, ParentAbove
    <3>4. i \in P
      BY <1>8, <2>4
    <3> QED BY <1>6, <2>1, <3>2, <3>3, <3>4
  <2> QED BY <2>2, <2>3, <2>4
<1>10. LiveArray' = [i \in 0 .. count - 1 |-> data[i]]
  BY <1>1 DEF LiveArray
<1> QED BY <1>1, <1>3, <1>9, <1>10

(* The loops of PriorityQueue_insertInternal and PriorityQueue_heapify      *)
(* arrive at what the operators insert and extract compute: what is proved  *)
(* about the operators in the worker holds for the loops.                   *)
THEOREM LoopsCompute == CallSpec => []LoopsMatchCalls
<1>1. CallSpec => Spec
  <2>1. CallInit => Init
    BY DEF CallInit
  <2>2. [CallNext]_<<vars, whole>> => [Next]_vars
    BY DEF CallNext, Next
  <2> QED BY <2>1, <2>2, PTL DEF CallSpec, Spec
<1>2. CallInit => CallInv
  BY DEF CallInit, Init, CallInv
<1>3. ASSUME IInv, CallInv, [CallNext]_<<vars, whole>> PROVE CallInv'
  <2>1. ASSUME NEW j \in Job, Insert(j), whole' = insert(LiveArray, j) PROVE CallInv'
    BY <1>3, <2>1, InsertCall
  <2>2. CASE Extract /\ whole' = extract(LiveArray)
    BY <1>3, <2>2, ExtractCall
  <2>3. CASE ReallocFails /\ UNCHANGED whole
    BY <2>3 DEF ReallocFails, CallInv
  <2>4. CASE ClimbOn /\ UNCHANGED whole
    <3>1. pc = "climb" /\ pc' = "climb"
      BY <2>4 DEF ClimbOn
    <3>2. PICK q : Climbing(q)
      BY <1>3, <3>1 DEF CallInv
    <3>3. Climbing(q)'
      BY <1>3, <2>4, <3>2, ClimbOnCall
    <3> QED BY <3>1, <3>3 DEF CallInv
  <2>5. CASE ClimbEnd /\ UNCHANGED whole
    <3>1. pc = "climb" /\ pc' = "idle"
      BY <2>5 DEF ClimbEnd
    <3>2. PICK q : Climbing(q)
      BY <1>3, <3>1 DEF CallInv
    <3>3. LiveArray' = whole'
      BY <1>3, <2>5, <3>2, ClimbEndCall
    <3> QED BY <3>1, <3>3 DEF CallInv
  <2>6. CASE Heapify /\ UNCHANGED whole
    <3>1. pc = "heapify"
      BY <2>6 DEF Heapify
    <3>2. PICK d : Sinking(d)
      BY <1>3, <3>1 DEF CallInv
    <3>3. CASE largest(data, count, pos) = pos
      <4>1. pc' = "idle" /\ LiveArray' = whole'
        BY <1>3, <2>6, <3>2, <3>3, SinkEnd
      <4> QED BY <4>1 DEF CallInv
    <3>4. CASE largest(data, count, pos) # pos
      <4>1. pc' = "heapify" /\ Sinking(d)'
        BY <1>3, <2>6, <3>2, <3>4, SinkOn
      <4> QED BY <4>1 DEF CallInv
    <3> QED BY <3>3, <3>4
  <2>7. CASE UNCHANGED <<vars, whole>>
    <3>1. UNCHANGED <<data, count, pc, pos, key, whole>>
      BY <2>7 DEF vars
    <3>2. LiveArray' = LiveArray
      BY <3>1 DEF LiveArray
    <3> QED BY <1>3, <3>1, <3>2 DEF CallInv, Climbing, Sinking
  <2> QED BY <1>3, <2>1, <2>2, <2>3, <2>4, <2>5, <2>6, <2>7 DEF CallNext
<1>4. CallInv => LoopsMatchCalls
  BY DEF CallInv, LoopsMatchCalls
<1> QED BY <1>1, <1>2, <1>3, <1>4, HeapInvariant, PTL DEF CallSpec
=============================================================================
