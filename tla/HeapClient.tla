----------------------------- MODULE HeapClient -----------------------------
(* A client of PriorityQueue whose elements do not change while they are     *)
(* queued: every operation of the heap, in any order.                        *)
EXTENDS PriorityQueue, Bags

CONSTANTS
    Element,     \* what is queued; equal elements may be queued together
    key,         \* their order
    Capacity     \* bound of the model

ASSUME KeyAssumption == key \in [Element -> Int]
ASSUME CapacityAssumption == Capacity \in Nat

VARIABLES
    heap,        \* the array
    content,     \* the bag of elements it ought to hold
    popped       \* <<e>> if the last operation was a pop that returned e

hvars == <<heap, content, popped>>

Init ==
    /\ \E values \in UNION {[1..n -> Element] : n \in 0..Capacity} :
         heap = FromValues(key, values) /\ content = ToBag(values)
    /\ popped = <<>>

push(e) ==
    /\ Len(heap) < Capacity
    /\ heap' = Push(key, heap, e)
    /\ content' = content (+) SetToBag({e})
    /\ popped' = <<>>

pop ==
    /\ IF heap = <<>>
       THEN UNCHANGED <<heap, content>> /\ popped' = <<>>
       ELSE /\ heap' = AfterPop(key, heap)
            /\ popped' = <<Popped(heap)>>
            /\ content' = content (-) SetToBag({Popped(heap)})

remove(e) ==
    /\ heap' = Remove1(key, heap, e)
    /\ content' = content (-) SetToBag({e})
    /\ popped' = <<>>

removeAll(e) ==
    /\ heap' = RemoveAll(key, heap, e)
    /\ content' = [x \in DOMAIN content \ {e} |-> content[x]]
    /\ popped' = <<>>

clear == heap' = <<>> /\ content' = EmptyBag /\ popped' = <<>>

Next ==
    \/ \E e \in Element : push(e) \/ remove(e) \/ removeAll(e)
    \/ pop \/ clear

Spec == Init /\ [][Next]_hvars

-----------------------------------------------------------------------------
(* "It will pop the objects in the order that they would be sorted": however *)
(* pushes, removals and the initial construction are mixed, what pop returns *)
(* is least in the queue.                                                    *)
PopsTheLeast ==
    [][ popped' # <<>> => \A e \in DOMAIN content : key[popped'[1]] =< key[e] ]_hvars

(* sink and swim restore the heap after every operation; remove needs both,  *)
(* as the last element may belong above or below the one that was removed.   *)
AlwaysHeapOrdered == HeapOrdered(key, heap)

(* No operation loses or doubles an element that it does not name.           *)
KeepsItsContent == ToBag(heap) = content
=============================================================================
