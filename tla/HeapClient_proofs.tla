------------------------- MODULE HeapClient_proofs -------------------------
(* The heap under any client, for every order of the elements and any number *)
(* of operations in any order.                                               *)
EXTENDS HeapClient, PriorityQueue_proofs

-----------------------------------------------------------------------------
(* Bags and copies                                                           *)

LEMMA BagOfArray ==
    ASSUME NEW E, NEW n \in Nat, NEW h \in Arrays(n, E)
    PROVE  /\ ToBag(h) = [x \in DOMAIN ToBag(h) |-> Copies(h, x)]
           /\ \A x : x \in DOMAIN ToBag(h) <=> Copies(h, x) > 0
           /\ \A x : Copies(h, x) \in Nat
  <1>1. ToBag(h) = [x \in Range(h) |-> Copies(h, x)]
    BY DEF ToBag, Copies
  <1>2. ASSUME NEW x PROVE Copies(h, x) \in Nat /\ (x \in Range(h) <=> Copies(h, x) > 0)
    <2>1. DOMAIN h = 1..n
      BY DEF Arrays
    <2>2. Copies(h, x) \in Nat /\ (Copies(h, x) # 0 <=> \E i \in 1..n : h[i] = x)
      BY CopiesType
    <2> QED BY <2>1, <2>2 DEF Range
  <1> QED BY <1>1, <1>2

(* Two arrays with the same copies are the same bag.                         *)
LEMMA SameBag ==
    ASSUME NEW E, NEW n \in Nat, NEW h \in Arrays(n, E), NEW m \in Nat, NEW k \in Arrays(m, E),
           \A x : Copies(k, x) = Copies(h, x)
    PROVE  ToBag(k) = ToBag(h)
  <1>1. DOMAIN ToBag(k) = DOMAIN ToBag(h)
    BY BagOfArray
  <1> QED BY <1>1, BagOfArray

(* k has one e more than h, one less, and none.                              *)
Adds(h, k, e) == \A x : Copies(k, x) = Copies(h, x) + (IF x = e THEN 1 ELSE 0)
Takes(h, k, e) == \A x : Copies(k, x) = Copies(h, x) - (IF x = e THEN 1 ELSE 0)
TakesAll(h, k, e) == \A x : Copies(k, x) = IF x = e THEN 0 ELSE Copies(h, x)

(* One more copy of e in the array is e added to the bag.                    *)
LEMMA BagAdd ==
    ASSUME NEW E, NEW n \in Nat, NEW h \in Arrays(n, E), NEW m \in Nat, NEW k \in Arrays(m, E),
           NEW e, Adds(h, k, e)
    PROVE  ToBag(k) = ToBag(h) (+) SetToBag({e})
  <1> USE DEF Adds
  <1> DEFINE A == ToBag(h)
             B == ToBag(k)
             C == A (+) SetToBag({e})
  <1>1. /\ A = [x \in DOMAIN A |-> Copies(h, x)] /\ B = [x \in DOMAIN B |-> Copies(k, x)]
        /\ \A x : x \in DOMAIN A <=> Copies(h, x) > 0
        /\ \A x : x \in DOMAIN B <=> Copies(k, x) > 0
        /\ \A x : Copies(h, x) \in Nat
    BY BagOfArray
  <1> HIDE DEF A, B
  <1>2. C = [x \in DOMAIN A \cup {e} |-> (IF x \in DOMAIN A THEN A[x] ELSE 0)
                                         + (IF x \in {e} THEN 1 ELSE 0)]
    BY DEF SetToBag, (+)
  <1>3. DOMAIN B = DOMAIN A \cup {e}
    <2>1. ASSUME NEW x PROVE x \in DOMAIN B <=> x \in DOMAIN A \/ x = e
      <3>1. Copies(k, x) > 0 <=> Copies(h, x) > 0 \/ x = e
        BY <1>1
      <3> QED BY <1>1, <3>1
    <2> QED BY <2>1
  <1>4. ASSUME NEW x \in DOMAIN B PROVE B[x] = C[x]
    BY <1>1, <1>2, <1>3, <1>4
  <1> HIDE DEF C
  <1>5. B = C
    BY <1>1, <1>2, <1>3, <1>4
  <1> QED BY <1>5 DEF A, B, C

(* One copy of e less in the array is e taken from the bag.                  *)
LEMMA BagTake ==
    ASSUME NEW E, NEW n \in Nat, NEW h \in Arrays(n, E), NEW m \in Nat, NEW k \in Arrays(m, E),
           NEW e, Takes(h, k, e)
    PROVE  ToBag(k) = ToBag(h) (-) SetToBag({e})
  <1> USE DEF Takes
  <1> DEFINE A == ToBag(h)
             B == ToBag(k)
             C == A (-) SetToBag({e})
             D == [x \in DOMAIN A |-> IF x \in {e} THEN A[x] - 1 ELSE A[x]]
  <1>1. /\ A = [x \in DOMAIN A |-> Copies(h, x)] /\ B = [x \in DOMAIN B |-> Copies(k, x)]
        /\ \A x : x \in DOMAIN A <=> Copies(h, x) > 0
        /\ \A x : x \in DOMAIN B <=> Copies(k, x) > 0
        /\ \A x : Copies(h, x) \in Nat
    BY BagOfArray
  <1> HIDE DEF A, B
  <1>2. C = [x \in {d \in DOMAIN D : D[d] > 0} |-> D[x]]
    BY DEF SetToBag, (-)
  <1>3. DOMAIN B = {d \in DOMAIN D : D[d] > 0}
    <2>1. ASSUME NEW x PROVE x \in DOMAIN B <=> x \in DOMAIN A /\ D[x] > 0
      <3>1. x \in DOMAIN A => D[x] = Copies(k, x)
        BY <1>1
      <3>2. Copies(k, x) > 0 => Copies(h, x) > 0
        BY <1>1
      <3> HIDE DEF D
      <3> QED BY <1>1, <3>1, <3>2
    <2> QED BY <2>1
  <1>4. ASSUME NEW x \in DOMAIN B PROVE B[x] = D[x]
    BY <1>1, <1>3, <1>4
  <1> HIDE DEF C, D
  <1>5. B = C
    BY <1>1, <1>2, <1>3, <1>4
  <1> QED BY <1>5 DEF A, B, C

(* There is none of it to take.                                              *)
LEMMA BagTakeNone ==
    ASSUME NEW E, NEW n \in Nat, NEW h \in Arrays(n, E), NEW e, ~Contains(h, e)
    PROVE  ToBag(h) = ToBag(h) (-) SetToBag({e})
  <1> DEFINE A == ToBag(h)
             C == A (-) SetToBag({e})
             D == [x \in DOMAIN A |-> IF x \in {e} THEN A[x] - 1 ELSE A[x]]
  <1>1. /\ A = [x \in DOMAIN A |-> Copies(h, x)]
        /\ \A x : x \in DOMAIN A <=> Copies(h, x) > 0
        /\ \A x : Copies(h, x) \in Nat
        /\ ~(Copies(h, e) > 0)
    BY BagOfArray, ContainsCopies
  <1> HIDE DEF A
  <1>2. C = [x \in {d \in DOMAIN D : D[d] > 0} |-> D[x]]
    BY DEF SetToBag, (-)
  <1>3. \A x \in DOMAIN A : x # e /\ D[x] = A[x] /\ A[x] > 0
    BY <1>1
  <1>4. {d \in DOMAIN D : D[d] > 0} = DOMAIN A
    BY <1>3
  <1> HIDE DEF C, D
  <1>5. C = A
    BY <1>1, <1>2, <1>3, <1>4
  <1> QED BY <1>5 DEF A, C

(* The bag without any e.                                                    *)
Without(B, e) == [x \in DOMAIN B \ {e} |-> B[x]]

(* No copy of e left in the array is all of e taken from the bag.            *)
LEMMA BagTakeAll ==
    ASSUME NEW E, NEW n \in Nat, NEW h \in Arrays(n, E), NEW m \in Nat, NEW k \in Arrays(m, E),
           NEW e, TakesAll(h, k, e)
    PROVE  ToBag(k) = Without(ToBag(h), e)
  <1> USE DEF TakesAll, Without
  <1> DEFINE A == ToBag(h)
             B == ToBag(k)
  <1>1. /\ A = [x \in DOMAIN A |-> Copies(h, x)] /\ B = [x \in DOMAIN B |-> Copies(k, x)]
        /\ \A x : x \in DOMAIN A <=> Copies(h, x) > 0
        /\ \A x : x \in DOMAIN B <=> Copies(k, x) > 0
    BY BagOfArray
  <1> HIDE DEF A, B
  <1>2. DOMAIN B = DOMAIN A \ {e}
    BY <1>1
  <1>3. B = [x \in DOMAIN A \ {e} |-> A[x]]
    BY <1>1, <1>2
  <1> QED BY <1>3 DEF A, B

-----------------------------------------------------------------------------
(* The inductive invariant: what the two properties say, of an array.        *)
IInv ==
    /\ heap \in Seq(Element)
    /\ AlwaysHeapOrdered
    /\ KeepsItsContent

LEMMA InitIInv == Init => IInv
  <1> SUFFICES ASSUME Init PROVE IInv
    OBVIOUS
  <1>1. PICK values \in UNION {[1..n -> Element] : n \in 0..Capacity} :
          heap = FromValues(key, values) /\ content = ToBag(values)
    BY DEF Init
  <1>2. PICK n \in Nat : values \in Arrays(n, Element)
    BY <1>1, CapacityAssumption DEF Arrays
  <1>3. /\ heap \in Arrays(n, Element) /\ HeapOrdered(key, heap)
        /\ \A x : Copies(heap, x) = Copies(values, x)
    BY <1>1, <1>2, FromValuesMakesHeap, KeyAssumption
  <1>4. ToBag(heap) = content
    BY <1>1, <1>2, <1>3, SameBag
  <1> QED BY <1>3, <1>4, ArrayIsSeq DEF IInv, AlwaysHeapOrdered, KeepsItsContent

(* A step after which the heap is r.                                         *)
LEMMA StepTo ==
    ASSUME NEW n \in Nat, NEW r \in Arrays(n, Element), heap' = r,
           HeapOrdered(key, r), ToBag(r) = content'
    PROVE  IInv'
  BY ArrayIsSeq DEF IInv, AlwaysHeapOrdered, KeepsItsContent

LEMMA StepIInv == IInv /\ [Next]_hvars => IInv'
  <1> SUFFICES ASSUME IInv, [Next]_hvars PROVE IInv'
    OBVIOUS
  <1> DEFINE n == Len(heap)
  <1>1. /\ n \in Nat /\ heap \in Arrays(n, Element)
        /\ HeapOrdered(key, heap) /\ ToBag(heap) = content /\ heap \in Seq(Element)
    BY SeqIsArray DEF IInv, AlwaysHeapOrdered, KeepsItsContent
  <1>2. key \in [Element -> Int]
    BY KeyAssumption
  <1>3. ASSUME NEW e \in Element, push(e) PROVE IInv'
    <2> DEFINE r == Push(key, heap, e)
    <2>1. heap' = r /\ content' = ToBag(heap) (+) SetToBag({e})
      BY <1>1, <1>3 DEF push
    <2> HIDE DEF n
    <2>2. /\ n + 1 \in Nat /\ r \in Arrays(n + 1, Element) /\ HeapOrdered(key, r)
          /\ Adds(heap, r, e)
      BY <1>1, <1>2, PushCopies, PushOrders DEF Adds
    <2> HIDE DEF r
    <2>3. ToBag(r) = ToBag(heap) (+) SetToBag({e})
      BY <1>1, <2>2, BagAdd
    <2> QED BY <2>1, <2>2, <2>3, StepTo
  <1>4. ASSUME pop PROVE IInv'
    <2>1. CASE heap = <<>>
      <3>1. UNCHANGED <<heap, content>>
        BY <1>4, <2>1 DEF pop
      <3> QED BY <1>1, <3>1, StepTo
    <2>2. CASE heap # <<>>
      <3> DEFINE r == AfterPop(key, heap)
                 e == Popped(heap)
      <3>1. heap' = r /\ content' = ToBag(heap) (-) SetToBag({e}) /\ n > 0
        BY <1>1, <1>4, <2>2 DEF pop
      <3> HIDE DEF n
      <3>2. /\ n - 1 \in Nat /\ r \in Arrays(n - 1, Element) /\ HeapOrdered(key, r)
            /\ Takes(heap, r, e)
        BY <1>1, <1>2, <3>1, PopCopies, PopOrders DEF Takes
      <3> HIDE DEF r, e
      <3>3. ToBag(r) = ToBag(heap) (-) SetToBag({e})
        BY <1>1, <3>2, BagTake
      <3> QED BY <3>1, <3>2, <3>3, StepTo
    <2> QED BY <2>1, <2>2
  <1>5. ASSUME NEW e \in Element, remove(e) PROVE IInv'
    <2> DEFINE r == Remove1(key, heap, e)
    <2>1. heap' = r /\ content' = ToBag(heap) (-) SetToBag({e})
      BY <1>1, <1>5 DEF remove
    <2> HIDE DEF n
    <2>2. CASE Contains(heap, e)
      <3>1. /\ n > 0 /\ n - 1 \in Nat /\ r \in Arrays(n - 1, Element) /\ HeapOrdered(key, r)
            /\ Takes(heap, r, e)
        BY <1>1, <1>2, <2>2, RemoveKeepsHeap DEF Takes
      <3> HIDE DEF r
      <3>2. ToBag(r) = ToBag(heap) (-) SetToBag({e})
        BY <1>1, <3>1, BagTake
      <3> QED BY <2>1, <3>1, <3>2, StepTo
    <2>3. CASE ~Contains(heap, e)
      <3>1. r = heap
        BY <2>3 DEF Remove1
      <3>2. ToBag(heap) = content'
        BY <1>1, <2>1, <2>3, BagTakeNone
      <3> QED BY <1>1, <2>1, <3>1, <3>2, StepTo
    <2> QED BY <2>2, <2>3
  <1>6. ASSUME NEW e \in Element, removeAll(e) PROVE IInv'
    <2> DEFINE r == RemoveAll(key, heap, e)
               m == Len(r)
    <2>1. heap' = r /\ content' = Without(ToBag(heap), e)
      BY <1>1, <1>6 DEF removeAll, Without
    <2> HIDE DEF n
    <2>2. /\ r \in Seq(Element) /\ HeapOrdered(key, r)
          /\ TakesAll(heap, r, e)
      BY <1>1, <1>2, RemoveAllKeepsHeap DEF TakesAll
    <2> HIDE DEF r
    <2>3. m \in Nat /\ r \in Arrays(m, Element)
      BY <2>2, SeqIsArray
    <2> HIDE DEF m
    <2>4. ToBag(r) = Without(ToBag(heap), e)
      BY <1>1, <2>2, <2>3, BagTakeAll
    <2> QED BY <2>1, <2>2, <2>3, <2>4, StepTo
  <1>7. ASSUME clear PROVE IInv'
    <2>1. heap' = <<>> /\ content' = EmptyBag /\ <<>> \in Arrays(0, Element)
      BY <1>7 DEF clear, Arrays
    <2>2. HeapOrdered(key, <<>>)
      BY DEF HeapOrdered
    <2>3. ToBag(<<>>) = EmptyBag
      BY DEF ToBag, EmptyBag, SetToBag, Range
    <2> QED BY <2>1, <2>2, <2>3, StepTo
  <1>8. CASE UNCHANGED hvars
    BY <1>8 DEF hvars, IInv, AlwaysHeapOrdered, KeepsItsContent
  <1> QED BY <1>3, <1>4, <1>5, <1>6, <1>7, <1>8 DEF Next

(* sink and swim (SwiftPriorityQueue.swift) restore the order of the heap    *)
(* after every operation, remove's included, whatever the comparison is.     *)
THEOREM HeapStaysOrdered == Spec => []AlwaysHeapOrdered
  <1>1. IInv => AlwaysHeapOrdered
    BY DEF IInv
  <1> QED BY <1>1, InitIInv, StepIInv, PTL DEF Spec

(* No operation loses or doubles an element that it does not name.           *)
THEOREM HeapKeepsItsContent == Spec => []KeepsItsContent
  <1>1. IInv => KeepsItsContent
    BY DEF IInv
  <1> QED BY <1>1, InitIInv, StepIInv, PTL DEF Spec

(* "It will pop the objects in the order that they would be sorted": what    *)
(* pop returns is least among all elements that were put in and not taken.   *)
THEOREM PopReturnsTheLeast == Spec => PopsTheLeast
  <1> DEFINE Least == popped' # <<>> => \A e \in DOMAIN content : key[popped'[1]] =< key[e]
  <1>1. ASSUME IInv, [Next]_hvars PROVE [Least]_hvars
    <2> SUFFICES ASSUME Next, popped' # <<>>, NEW e \in DOMAIN content
                 PROVE  key[popped'[1]] =< key[e]
      BY <1>1
    <2>1. pop /\ heap # <<>> /\ popped' = <<Popped(heap)>>
      BY DEF Next, push, remove, removeAll, clear, pop
    <2> DEFINE n == Len(heap)
    <2>2. /\ n \in Nat /\ heap \in Arrays(n, Element)
          /\ HeapOrdered(key, heap) /\ e \in DOMAIN ToBag(heap)
      BY <1>1, SeqIsArray DEF IInv, AlwaysHeapOrdered, KeepsItsContent
    <2>3. PICK i \in 1..n : heap[i] = e
      <3>1. e \in Range(heap) /\ DOMAIN heap = 1..n
        BY <2>2 DEF ToBag, Arrays
      <3> QED BY <3>1 DEF Range
    <2> HIDE DEF n
    <2> QED BY <2>1, <2>2, <2>3, FirstIsLeast, KeyAssumption
  <1> QED BY <1>1, InitIInv, StepIInv, PTL DEF Spec, PopsTheLeast
=============================================================================
