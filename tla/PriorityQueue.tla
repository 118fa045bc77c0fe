--------------------------- MODULE PriorityQueue ---------------------------
(* The binary heap of SwiftPriorityQueue.swift, as operators on a sequence   *)
(* of elements. The comparison is a function from elements to integers, so   *)
(* that a user whose elements change between two operations (PathFinding)    *)
(* passes the values of the moment; ordered(a, b) is key[a] > key[b], the    *)
(* ascending queue. Position i of the array is i + 1 here.                   *)
EXTENDS Integers, Sequences, SequencesExt

(* swapAt                                                                    *)
Swap(heap, i, j) == [heap EXCEPT ![i] = heap[j], ![j] = heap[i]]

(* The two loops, swim and sink, are recursive functions of the array and    *)
(* the position they have got to. Mutant of Swim: an element never gets past *)
(* position 2.                                                               *)
SwimBelowTop(key, heap, k) ==
    LET up[x \in [DOMAIN heap -> DOMAIN key] \X DOMAIN heap] ==
          LET h == x[1]  i == x[2] IN
          IF i > 3 /\ key[h[i \div 2]] > key[h[i]]
          THEN up[<<Swap(h, i \div 2, i), i \div 2>>]
          ELSE h
    IN  up[<<heap, k>>]

Swim(key, heap, k) ==
    LET up[x \in [DOMAIN heap -> DOMAIN key] \X DOMAIN heap] ==
          LET h == x[1]  i == x[2] IN
          IF i > 1 /\ key[h[i \div 2]] > key[h[i]]
          THEN up[<<Swap(h, i \div 2, i), i \div 2>>]
          ELSE h
    IN  up[<<heap, k>>]

(* Mutant of Child: always the first one.                                    *)
FirstChild(key, h, i) == 2 * i

(* The child of i to compare with: the second one if the first comes after.  *)
Child(key, h, i) ==
    IF 2 * i < Len(h) /\ key[h[2 * i]] > key[h[2 * i + 1]] THEN 2 * i + 1 ELSE 2 * i

Sink(key, heap, k) ==
    LET down[x \in [DOMAIN heap -> DOMAIN key] \X DOMAIN heap] ==
          LET h == x[1]  i == x[2] IN
          IF 2 * i =< Len(h) /\ key[h[i]] > key[h[Child(key, h, i)]]
          THEN down[<<Swap(h, i, Child(key, h, i)), Child(key, h, i)>>]
          ELSE h
    IN  down[<<heap, k>>]

(* init(order:startingValues:): sink every inner position, the last first;   *)
(* sunk[i] is the array when the positions from i on have been sunk.         *)
FromValues(key, values) ==
    LET inner == Len(values) \div 2
        sunk[i \in 1..(inner + 1)] ==
          IF i > inner THEN values ELSE Sink(key, sunk[i + 1], i)
    IN  sunk[1]

Push(key, heap, e) == Swim(key, Append(heap, e), Len(heap) + 1)

(* pop: the element returned is the first one, the last takes its place.     *)
Popped(heap) == heap[1]
(* Mutant of AfterPop: the last element goes, the first stays.               *)
AfterPopLast(key, heap) == Front(heap)

AfterPop(key, heap) ==
    IF Len(heap) = 1 THEN <<>>
    ELSE Sink(key, Front(Swap(heap, 1, Len(heap))), 1)

(* remove: the first element equal to e, if there is one.                    *)
FirstIndex(heap, e) ==
    CHOOSE i \in DOMAIN heap : heap[i] = e /\ \A j \in 1..(i - 1) : heap[j] # e

Remove1(key, heap, e) ==
    IF ~Contains(heap, e) THEN heap
    ELSE LET i == FirstIndex(heap, e)
             h == Front(Swap(heap, i, Len(heap)))
         IN  IF i =< Len(h) THEN Sink(key, Swim(key, h, i), i) ELSE h

(* removeAll: remove until the count does not drop any more.                 *)
RemoveAll(key, heap, e) ==
    LET left[h \in Seq(DOMAIN key)] ==
          IF Len(Remove1(key, h, e)) < Len(h) THEN left[Remove1(key, h, e)] ELSE h
    IN  left[heap]

(* The heap property: no element comes after one of its children.            *)
HeapOrdered(key, heap) ==
    \A i \in 2..Len(heap) : key[heap[i \div 2]] =< key[heap[i]]
=============================================================================
