------------------------------ MODULE PrioHeap ------------------------------
(***************************************************************************)
(* The array arithmetic and the two sift loops of src/src/prioqueue.c, as  *)
(* operators on an array d that is a function with domain 0..n-1.          *)
(*                                                                         *)
(* The code orders elements by a comparison function cmp_func(a, b) whose  *)
(* sign is all it looks at.  Here an element e has a number Key(e), and    *)
(* cmp_func(a, b) > 0 iff Key(a) > Key(b): the element with the largest    *)
(* key is the one PriorityQueue_max is meant to return.                    *)
(***************************************************************************)
EXTENDS Integers, FiniteSets

CONSTANT Key(_)

parent(i) == (i - 1) \div 2
left(i)   == 2 * i + 1
right(i)  == 2 * i + 2

(***************************************************************************)
(* The allocation sizes.  powify rounds up to the next 2^k - 1; `bits' is  *)
(* the width of size_t, and a value with the top bit set is returned as it *)
(* is because its successor 2^bits - 1 cannot be formed.                   *)
(***************************************************************************)
powify(val, bits) ==
  IF val = 0 THEN 1
  ELSE LET i == CHOOSE b \in 0 .. bits - 1 : 2^b <= val /\ val < 2^(b + 1)
       IN  IF i = bits - 1 THEN val ELSE 2^(i + 1) - 1

(***************************************************************************)
(* One level of PriorityQueue_heapify: which of pos, left(pos) and         *)
(* right(pos) the code considers the largest in the live part 0..c-1 of d. *)
(* The left child is compared with the RIGHT child, not with pos, and the  *)
(* slot right(pos) is read as soon as left(pos) < c, also when it is the   *)
(* first slot behind the live part.                                        *)
(***************************************************************************)
largest(d, c, pos) ==
  LET l == left(pos)
      r == right(pos)
      m == IF l < c /\ Key(d[l]) > Key(d[r]) THEN l ELSE pos
  IN  IF r < c /\ Key(d[r]) > Key(d[m]) THEN r ELSE m

(* A plausible mistake: the first half of a swap. *)
FaultSwap(d, i, j) == [d EXCEPT ![i] = d[j]]

Swap(d, i, j) == [d EXCEPT ![i] = d[j], ![j] = d[i]]

(***************************************************************************)
(* Whole operations on a queue q whose domain is exactly its live part.    *)
(* Either loop moves one element along a path between the root and a leaf  *)
(* and shifts what it meets there by one place.                            *)
(***************************************************************************)
Size(q) == Cardinality(DOMAIN q)

(* i, its parent, the parent's parent ... up to the root. *)
Ancestors[i \in Nat] == IF i = 0 THEN {0} ELSE {i} \cup Ancestors[parent(i)]

(* PriorityQueue_heapify(q, 0): the element of the root goes down. *)
heapify(d, c) ==
  LET chosen(p) == largest([d EXCEPT ![p] = d[0]], c, p)
      path == {p \in 0 .. c - 1 :
                 \A a \in Ancestors[p] \ {0} : chosen(parent(a)) = a}
  IN  [i \in DOMAIN d |->
         IF i \notin path THEN d[i]
         ELSE IF chosen(i) = i THEN d[0] ELSE d[chosen(i)]]

(* The last element replaces the root; its own slot, now behind the live   *)
(* part, keeps its content and is the one heapify may read.                *)
extract(q) ==
  LET c == Size(q) - 1
      d == heapify([q EXCEPT ![0] = q[c]], c)
  IN  [i \in 0 .. c - 1 |-> d[i]]

(* PriorityQueue_insertInternal: `key' climbs from the slot behind the live *)
(* part while the parent compares smaller.                                  *)
insert(q, key) ==
  LET n == Size(q)
      path == {a \in Ancestors[n] :
                 \A b \in Ancestors[n] : a <= b /\ b < n => Key(q[b]) < Key(key)}
  IN  [i \in 0 .. n |->
         IF i \notin path THEN q[i]
         ELSE IF i > 0 /\ parent(i) \in path THEN q[parent(i)] ELSE key]
=============================================================================
