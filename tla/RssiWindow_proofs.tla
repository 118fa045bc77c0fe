-------------------------- MODULE RssiWindow_proofs --------------------------
(* For every size of the halves and every set of signal strengths: the ring  *)
(* of didUpdateBeacon (option1.swift) is the queue of SlidingWindow, the     *)
(* reading that was not compared to -75 leaves it in time, and a measurement *)
(* keeps most of the window. The sums over a window are those of             *)
(* PriorityQueue_proofs, which has the lemmas on recursion.                  *)
EXTENDS RssiWindow, SequenceTheorems, PriorityQueue_proofs

Fields == {"recRSSI", "meanRSSI", "repHalf", "repI", "distance"}
Strong(from, to) == \A j \in from..to : beacon.recRSSI[j] >= Weakest

(* The halves turn only in a full window. A weak reading can only be the     *)
(* first; the first half is overwritten before a second distance is computed. *)
IInv ==
    /\ DOMAIN beacon = Fields
    /\ beacon.recRSSI \in Seq(RSSI)
    /\ Len(beacon.recRSSI) =< WindowSize
    /\ beacon.repHalf \in {0, 1}
    /\ beacon.repI \in 0..Half
    /\ ~Full(beacon) => beacon.repI = Half /\ beacon.repHalf = 1 /\ beacon.distance = Infinity
    /\ Strong(2, Len(beacon.recRSSI))
    /\ beacon.repHalf = 0 => Strong(1, beacon.repI)
    /\ beacon.repHalf = 1 /\ beacon.distance # Infinity => Strong(1, Len(beacon.recRSSI))

LEMMA InitIInv == Init => IInv
<1> SUFFICES ASSUME NEW r \in RSSI, beacon = NewBeacon(r) PROVE IInv
  BY DEF Init
<1>1. CASE r # NoReading
  <2>1. /\ beacon.recRSSI = <<r>> /\ beacon.repHalf = 1 /\ beacon.repI = Half
        /\ beacon.distance = Infinity /\ DOMAIN beacon = Fields
    BY <1>1 DEF NewBeacon, Fields
  <2> QED BY <2>1, HalfAssumption DEF IInv, Strong, WindowSize
<1>2. CASE r = NoReading
  <2>1. /\ beacon.recRSSI = <<>> /\ beacon.repHalf = 1 /\ beacon.repI = Half
        /\ beacon.distance = Infinity /\ DOMAIN beacon = Fields
    BY <1>2 DEF NewBeacon, Fields
  <2> QED BY <2>1, HalfAssumption DEF IInv, Strong, WindowSize
<1> QED BY <1>1, <1>2

(* What each action does to the five fields.                                 *)
LEMMA FillFields ==
    ASSUME IInv, Fill
    PROVE  \E r \in RSSI :
              /\ r >= Weakest /\ DOMAIN beacon' = Fields
              /\ beacon'.recRSSI = Append(beacon.recRSSI, r)
              /\ beacon'.repHalf = 1 /\ beacon'.repI = Half /\ beacon'.distance = Infinity
<1>1. PICK r \in RSSI : /\ Accepted(r)
                        /\ beacon' = [beacon EXCEPT !.recRSSI = Append(@, r)]
  BY DEF Fill
<1>2. beacon.repI = Half /\ beacon.repHalf = 1 /\ beacon.distance = Infinity
  BY DEF IInv, Fill
<1> QED BY <1>1, <1>2 DEF IInv, Fields, Accepted

(* The fields that Store leaves alone, and those it sets.                    *)
LEMMA StoreFields ==
    ASSUME IInv, Store
    PROVE  \E r \in RSSI :
              /\ r >= Weakest /\ DOMAIN beacon' = Fields
              /\ Oldest + 1 \in 1..WindowSize /\ Oldest \in Nat
              /\ beacon'.recRSSI = [beacon.recRSSI EXCEPT ![Oldest + 1] = r]
              /\ beacon'.repHalf = beacon.repHalf /\ beacon'.repI = beacon.repI + 1
              /\ beacon'.distance = beacon.distance
<1>1. PICK r \in RSSI :
        /\ Accepted(r)
        /\ beacon' = [beacon EXCEPT !.recRSSI[Oldest + 1] = r, !.repI = @ + 1]
  BY DEF Store, Oldest
<1>2. Oldest + 1 \in 1..WindowSize /\ Oldest \in Nat
  BY HalfAssumption DEF IInv, Store, Oldest, WindowSize
<1>3. /\ DOMAIN beacon' = Fields
      /\ beacon'.recRSSI = [beacon.recRSSI EXCEPT ![Oldest + 1] = r]
      /\ beacon'.repHalf = beacon.repHalf /\ beacon'.repI = beacon.repI + 1
      /\ beacon'.distance = beacon.distance
  BY <1>1 DEF IInv, Fields
<1> QED BY <1>1, <1>2, <1>3 DEF Accepted

(* The fields that Estimate leaves alone, and those it sets.                 *)
LEMMA EstimateFields ==
    ASSUME IInv, Estimate
    PROVE  /\ DOMAIN beacon' = Fields
           /\ beacon'.recRSSI = beacon.recRSSI
           /\ beacon'.repHalf = 1 - beacon.repHalf /\ beacon'.repI = 0
<1> DEFINE b == SwitchSides(beacon)
<1>1. /\ DOMAIN b = Fields /\ b.recRSSI = beacon.recRSSI
      /\ b.repHalf = 1 - beacon.repHalf /\ b.repI = 0
  BY DEF SwitchSides, IInv, Fields
<1>2. beacon' = Measured(b)
  BY DEF Estimate
<1> HIDE DEF b
<1>3. \E mean, distance :
         beacon' = [b EXCEPT !.meanRSSI = mean] \/
         beacon' = [b EXCEPT !.meanRSSI = mean, !.distance = distance]
  BY <1>2, Zenon DEF Measured
<1> QED BY <1>1, <1>3 DEF Fields

LEMMA StepIInv == IInv /\ [Next]_beacon => IInv'
<1> SUFFICES ASSUME IInv, [Next]_beacon PROVE IInv'
  OBVIOUS
<1>t. /\ beacon.recRSSI \in Seq(RSSI) /\ Len(beacon.recRSSI) =< WindowSize
      /\ beacon.repHalf \in {0, 1} /\ beacon.repI \in 0..Half /\ RSSI \subseteq Int
  BY RSSIAssumption DEF IInv
<1>1. CASE Fill
  <2>1. PICK r \in RSSI :
              /\ r >= Weakest /\ DOMAIN beacon' = Fields
              /\ beacon'.recRSSI = Append(beacon.recRSSI, r)
              /\ beacon'.repHalf = 1 /\ beacon'.repI = Half /\ beacon'.distance = Infinity
    BY <1>1, FillFields
  <2>2. Len(beacon.recRSSI) < WindowSize
    BY <1>1, <1>t, HalfAssumption DEF Fill, Full, WindowSize
  <2> QED BY <1>t, <2>1, <2>2, HalfAssumption DEF IInv, Strong, WindowSize
<1>2. CASE Store
  <2>1. PICK r \in RSSI :
              /\ r >= Weakest /\ DOMAIN beacon' = Fields
              /\ Oldest + 1 \in 1..WindowSize /\ Oldest \in Nat
              /\ beacon'.recRSSI = [beacon.recRSSI EXCEPT ![Oldest + 1] = r]
              /\ beacon'.repHalf = beacon.repHalf /\ beacon'.repI = beacon.repI + 1
              /\ beacon'.distance = beacon.distance
    BY <1>2, StoreFields
  <2>2. Full(beacon) /\ beacon.repI # Half
    BY <1>2 DEF Store
  <2>3. /\ beacon'.recRSSI \in Seq(RSSI) /\ Len(beacon'.recRSSI) = WindowSize
        /\ \A j \in 1..WindowSize :
             beacon'.recRSSI[j] = IF j = Oldest + 1 THEN r ELSE beacon.recRSSI[j]
    BY <1>t, <2>1, <2>2 DEF Full
  <2>4. Full(beacon)'
    BY <2>3 DEF Full
  <2>5. Strong(2, Len(beacon.recRSSI))'
    BY <2>1, <2>2, <2>3, HalfAssumption DEF IInv, Strong, Full, WindowSize
  <2>6. beacon'.repHalf = 0 => Strong(1, beacon.repI)'
    BY <1>t, <2>1, <2>2, <2>3, HalfAssumption DEF IInv, Strong, Oldest, WindowSize
  <2>7. beacon'.repHalf = 1 /\ beacon'.distance # Infinity => Strong(1, Len(beacon.recRSSI))'
    BY <2>1, <2>2, <2>3 DEF IInv, Strong, Full
  <2> QED BY <1>t, <2>1, <2>2, <2>3, <2>4, <2>5, <2>6, <2>7, HalfAssumption DEF IInv, WindowSize
<1>3. CASE Estimate
  <2>1. /\ DOMAIN beacon' = Fields
        /\ beacon'.recRSSI = beacon.recRSSI
        /\ beacon'.repHalf = 1 - beacon.repHalf /\ beacon'.repI = 0
    BY <1>3, EstimateFields
  <2>2. Full(beacon) /\ beacon.repI = Half /\ Full(beacon)'
    BY <1>3, <2>1 DEF Estimate, Full
  <2>3. beacon.repHalf = 0 => Strong(1, Len(beacon.recRSSI))'
    BY <1>t, <2>1, <2>2, HalfAssumption DEF IInv, Strong, Full, WindowSize
  <2> QED BY <1>t, <2>1, <2>2, <2>3, HalfAssumption DEF IInv, Strong
<1>4. CASE beacon' = beacon
  BY <1>4 DEF IInv, Strong, Full
<1> QED BY <1>1, <1>2, <1>3, <1>4 DEF Next, Ignore

LEMMA IInvHolds == Spec => []IInv
  BY InitIInv, StepIInv, PTL DEF Spec

(* Every index didUpdateBeacon forms, repI + 10 * repHalf, is in the window  *)
(* when a reading is stored there.                                           *)
THEOREM IndicesAreInRange == Spec => []TypeOK
<1>1. IInv => TypeOK
  BY DEF IInv, TypeOK
<1> QED BY <1>1, IInvHolds, PTL

(* WeakReadingLeaves: didFindBeacon's first reading, which no threshold was  *)
(* applied to, is overwritten before a second distance is computed.          *)
THEOREM WeakReadingIsOverwritten == Spec => []WeakReadingLeaves
<1>1. IInv => WeakReadingLeaves
  BY DEF IInv, WeakReadingLeaves, Strong, Full
<1> QED BY <1>1, IInvHolds, PTL
-----------------------------------------------------------------------------
LEMMA AgedIsFull ==
    ASSUME IInv, Full(beacon)
    PROVE  /\ Aged \in Seq(RSSI) /\ Len(Aged) = WindowSize /\ Oldest \in 0..WindowSize
           /\ \A k \in 1..WindowSize :
                Aged[k] = beacon.recRSSI[IF Oldest + k =< WindowSize
                                         THEN Oldest + k ELSE Oldest + k - WindowSize]
<1>1. WindowSize \in Nat /\ Oldest \in 0..WindowSize
  BY HalfAssumption DEF IInv, Oldest, WindowSize
<1>2. Aged = [k \in 1..WindowSize |->
                beacon.recRSSI[IF Oldest + k =< WindowSize
                               THEN Oldest + k ELSE Oldest + k - WindowSize]]
  BY DEF Aged
<1>3. \A k \in 1..WindowSize :
         (IF Oldest + k =< WindowSize THEN Oldest + k ELSE Oldest + k - WindowSize) \in 1..WindowSize
  BY <1>1
<1>4. \A j \in 1..WindowSize : beacon.recRSSI[j] \in RSSI
  BY DEF IInv, Full
<1>5. Aged \in [1..WindowSize -> RSSI]
  BY <1>2, <1>3, <1>4
<1> QED BY <1>1, <1>2, <1>5

LEMMA AgedIsFullNext ==
    ASSUME IInv', Full(beacon')
    PROVE  /\ Aged' \in Seq(RSSI) /\ Len(Aged') = WindowSize
           /\ \A k \in 1..WindowSize :
                (Aged')[k] = beacon'.recRSSI[IF Oldest' + k =< WindowSize
                                             THEN Oldest' + k ELSE Oldest' + k - WindowSize]
<1>1. (IInv /\ Full(beacon) =>
         /\ Aged \in Seq(RSSI) /\ Len(Aged) = WindowSize
         /\ \A k \in 1..WindowSize :
              Aged[k] = beacon.recRSSI[IF Oldest + k =< WindowSize
                                       THEN Oldest + k ELSE Oldest + k - WindowSize])'
  BY AgedIsFull, PTL
<1> QED BY <1>1

LEMMA InitIsQueueInit == Init => Queue!Init
<1> SUFFICES ASSUME NEW r \in RSSI, beacon = NewBeacon(r) PROVE Queue!Init
  BY DEF Init
<1>1. /\ beacon.recRSSI \in {<<>>} \cup {<<x>> : x \in RSSI}
      /\ beacon.repHalf = 1 /\ beacon.repI = Half /\ ~Full(beacon)
  BY HalfAssumption DEF NewBeacon, Full, WindowSize
<1>2. Aged = beacon.recRSSI
  BY <1>1 DEF Aged
<1> QED BY <1>1, <1>2 DEF Queue!Init

(* Every step of the ring is one of the queue, or none.                      *)
LEMMA StepIsQueueStep == IInv /\ IInv' /\ [Next]_beacon => [Queue!Next]_(Queue!wvars)
<1> SUFFICES ASSUME IInv, IInv', [Next]_beacon PROVE [Queue!Next]_(Queue!wvars)
  OBVIOUS
<1>w. Queue!WindowSize = WindowSize /\ WindowSize \in Nat
  BY HalfAssumption DEF Queue!WindowSize, WindowSize
<1>1. CASE Fill
  <2>1. PICK r \in RSSI :
              /\ r >= Weakest /\ DOMAIN beacon' = Fields
              /\ beacon'.recRSSI = Append(beacon.recRSSI, r)
              /\ beacon'.repHalf = 1 /\ beacon'.repI = Half /\ beacon'.distance = Infinity
    BY <1>1, FillFields
  <2>2. /\ ~Full(beacon) /\ beacon.repI = Half /\ beacon.repHalf = 1
        /\ beacon.recRSSI \in Seq(RSSI) /\ Len(beacon.recRSSI) < WindowSize
    BY <1>1, HalfAssumption DEF IInv, Fill, Full, WindowSize
  <2>3. Aged = beacon.recRSSI
    BY <2>2 DEF Aged
  <2>4. Aged' = beacon'.recRSSI
    <3>1. CASE ~Full(beacon')
      BY <3>1 DEF Aged
    <3>2. CASE Full(beacon')
      <4>1. (Oldest)' = WindowSize
        BY <2>1, HalfAssumption DEF Oldest, WindowSize
      <4>2. /\ Aged' \in Seq(RSSI) /\ Len(Aged') = WindowSize
            /\ \A k \in 1..WindowSize : (Aged')[k] = beacon'.recRSSI[k]
        BY <1>w, <3>2, <4>1, AgedIsFullNext
      <4>3. beacon'.recRSSI \in Seq(RSSI) /\ Len(beacon'.recRSSI) = WindowSize
        BY <3>2 DEF IInv, Full
      <4> QED BY <4>2, <4>3
    <3> QED BY <3>1, <3>2
  <2>5. Queue!Fill
    BY <1>w, <2>1, <2>2, <2>3, <2>4 DEF Queue!Fill
  <2> QED BY <2>5 DEF Queue!Next
<1>2. CASE Store
  <2>1. PICK r \in RSSI :
              /\ r >= Weakest /\ DOMAIN beacon' = Fields
              /\ Oldest + 1 \in 1..WindowSize /\ Oldest \in Nat
              /\ beacon'.recRSSI = [beacon.recRSSI EXCEPT ![Oldest + 1] = r]
              /\ beacon'.repHalf = beacon.repHalf /\ beacon'.repI = beacon.repI + 1
              /\ beacon'.distance = beacon.distance
    BY <1>2, StoreFields
  <2>2. Full(beacon) /\ beacon.repI # Half
    BY <1>2 DEF Store
  <2>3. /\ beacon.recRSSI \in Seq(RSSI) /\ Len(beacon.recRSSI) = WindowSize
        /\ beacon.repHalf \in {0, 1} /\ beacon.repI \in 0..Half
    BY <2>2 DEF IInv, Full
  <2>4. /\ Full(beacon')
        /\ \A j \in 1..WindowSize :
             beacon'.recRSSI[j] = IF j = Oldest + 1 THEN r ELSE beacon.recRSSI[j]
    BY <2>1, <2>3 DEF Full
  <2>5. Oldest' = Oldest + 1
    BY <2>1, <2>3, HalfAssumption DEF Oldest
  <2>6. /\ Aged' \in Seq(RSSI) /\ Len(Aged') = WindowSize
        /\ \A k \in 1..WindowSize :
             (Aged')[k] = beacon'.recRSSI[IF Oldest + 1 + k =< WindowSize
                                          THEN Oldest + 1 + k ELSE Oldest + 1 + k - WindowSize]
    BY <2>4, <2>5, AgedIsFullNext
  <2>7. /\ Aged \in Seq(RSSI) /\ Len(Aged) = WindowSize
        /\ \A k \in 1..WindowSize :
             Aged[k] = beacon.recRSSI[IF Oldest + k =< WindowSize
                                      THEN Oldest + k ELSE Oldest + k - WindowSize]
    BY <2>2, AgedIsFull
  <2> DEFINE slid == Append(Tail(Aged), r)
  <2>8. /\ slid \in Seq(RSSI) /\ Len(slid) = WindowSize
        /\ \A k \in 1..WindowSize : slid[k] = IF k = WindowSize THEN r ELSE Aged[k + 1]
    BY <1>w, <2>1, <2>7
  <2> HIDE DEF slid
  <2>9. ASSUME NEW k \in 1..WindowSize PROVE (Aged')[k] = slid[k]
    <3> DEFINE at == IF Oldest + 1 + k =< WindowSize
                     THEN Oldest + 1 + k ELSE Oldest + 1 + k - WindowSize
    <3>1. /\ at \in 1..WindowSize /\ (at = Oldest + 1 <=> k = WindowSize)
          /\ k # WindowSize =>
               /\ k + 1 \in 1..WindowSize
               /\ at = IF Oldest + (k + 1) =< WindowSize
                       THEN Oldest + (k + 1) ELSE Oldest + (k + 1) - WindowSize
      BY <1>w, <2>1
    <3>2. (Aged')[k] = beacon'.recRSSI[at]
      BY <2>6
    <3> HIDE DEF at
    <3>3. CASE k = WindowSize
      BY <2>4, <2>8, <3>1, <3>2, <3>3
    <3>4. CASE k # WindowSize
      <4>1. Aged[k + 1] = beacon.recRSSI[at]
        BY <2>7, <3>1, <3>4
      <4> QED BY <2>4, <2>8, <3>1, <3>2, <3>4, <4>1
    <3> QED BY <3>3, <3>4
  <2>10. Aged' = slid
    BY <1>w, <2>6, <2>8, <2>9
  <2>11. Queue!Slide
    BY <1>w, <2>1, <2>2, <2>3, <2>7, <2>10, HalfAssumption DEF Queue!Slide, slid
  <2> QED BY <2>11 DEF Queue!Next
<1>3. CASE Estimate
  <2>1. /\ beacon'.recRSSI = beacon.recRSSI
        /\ beacon'.repHalf = 1 - beacon.repHalf /\ beacon'.repI = 0
    BY <1>3, EstimateFields
  <2>2. /\ Full(beacon) /\ Full(beacon') /\ beacon.repI = Half /\ beacon.repHalf \in {0, 1}
    BY <1>3, <2>1 DEF IInv, Estimate, Full
  <2>3. /\ Aged \in Seq(RSSI) /\ Len(Aged) = WindowSize
        /\ \A k \in 1..WindowSize :
             Aged[k] = beacon.recRSSI[IF Oldest + k =< WindowSize
                                      THEN Oldest + k ELSE Oldest + k - WindowSize]
    BY <2>2, AgedIsFull
  <2>4. /\ Aged' \in Seq(RSSI) /\ Len(Aged') = WindowSize
        /\ \A k \in 1..WindowSize :
             (Aged')[k] = beacon.recRSSI[IF Oldest' + k =< WindowSize
                                         THEN Oldest' + k ELSE Oldest' + k - WindowSize]
    BY <2>1, <2>2, AgedIsFullNext
  <2>5. (Oldest = Half /\ Oldest' = Half) \/ (Oldest = WindowSize /\ Oldest' = 0)
    BY <2>1, <2>2, HalfAssumption DEF Oldest, WindowSize
  <2>6. \A k \in 1..WindowSize : (Aged')[k] = Aged[k]
    BY <1>w, <2>3, <2>4, <2>5
  <2>7. Aged' = Aged
    BY <1>w, <2>3, <2>4, <2>6
  <2>8. Queue!Report
    BY <1>w, <2>1, <2>2, <2>3, <2>7, HalfAssumption DEF Queue!Report
  <2> QED BY <2>8 DEF Queue!Next
<1>4. CASE beacon' = beacon
  BY <1>4 DEF Queue!wvars, Aged, Full, Oldest
<1> QED BY <1>1, <1>2, <1>3, <1>4 DEF Next, Ignore

(* ImplementsQueue: two halves, a replace index and a switch of sides are a  *)
(* queue, and a measurement takes place when half of it is new.              *)
THEOREM TheRingIsAQueue == Spec => ImplementsQueue
  BY InitIsQueueInit, StepIsQueueStep, IInvHolds, PTL DEF Spec, ImplementsQueue, Queue!Spec
-----------------------------------------------------------------------------
(* What a measurement computes: means by a division that truncates, and the  *)
(* readings near the mean.                                                   *)
LEMMA QuotientBetween ==
    ASSUME NEW a \in Int, NEW n \in Nat \ {0}, NEW lo \in Int, NEW hi \in Int,
           lo * n =< a, a =< hi * n
    PROVE  Quotient(a, n) \in lo..hi
<1> DEFINE Floor(b) == b \div n
<1>1. ASSUME NEW b \in Int
      PROVE  /\ Floor(b) \in Int
             /\ n * Floor(b) =< b /\ b < n * Floor(b) + n
  OBVIOUS
<1>2. ASSUME NEW x \in Int, NEW y \in Int, x * n < y * n + n
      PROVE  x =< y
  <2>1. CASE x >= y + 1
    <3>1. (x - y - 1) * n >= 0
      BY <2>1
    <3>2. (x - y - 1) * n = x * n - y * n - n
      OBVIOUS
    <3> QED BY <3>1, <3>2, <1>2
  <2> QED BY <2>1
<1>3. CASE a >= 0
  <2>1. Quotient(a, n) = Floor(a)
    BY <1>3 DEF Quotient
  <2> DEFINE q == Floor(a)
  <2>2. q \in Int /\ q * n =< a /\ a < q * n + n
    BY <1>1
  <2> HIDE DEF q
  <2>3. lo =< q /\ q =< hi
    <3>1. lo * n < q * n + n /\ q * n < hi * n + n
      BY <2>2
    <3> QED BY <3>1, <2>2, <1>2
  <2> QED BY <2>1, <2>2, <2>3 DEF q
<1>4. CASE a < 0
  <2>1. Quotient(a, n) = -Floor(-a)
    BY <1>4 DEF Quotient
  <2> DEFINE q == Floor(-a)
  <2>2. q \in Int /\ q * n =< -a /\ -a < q * n + n
    BY <1>1
  <2> HIDE DEF q
  <2>3. lo =< -q /\ -q =< hi
    <3>1. (-q) * n = -(q * n)
      BY <2>2
    <3>2. lo * n < (-q) * n + n /\ (-q) * n < hi * n + n
      BY <2>2, <3>1
    <3> QED BY <3>2, <2>2, <1>2
  <2> QED BY <2>1, <2>2, <2>3 DEF q
<1> QED BY <1>3, <1>4

(* The mean of some readings lies between any bounds of them.                *)
LEMMA MeanBetween ==
    ASSUME NEW U, NEW s, Numbers(s, U), NEW T \in SUBSET U, T # {},
           NEW lo, Under(lo, s, T), NEW hi, Over(hi, s, T)
    PROVE  Quotient(SumAt(s, T), Cardinality(T)) \in lo..hi
<1> DEFINE n == Cardinality(T)
           a == Total(s, T)
<1>1. lo \in Int /\ hi \in Int
  BY DEF Under, Over
<1>2. a \in Int
  BY TotalType
<1>3. n \in Nat \ {0}
  <2>1. IsFiniteSet(T)
    BY SubsetSize DEF Numbers
  <2> QED BY <2>1, FS_CardinalityType, FS_EmptySet
<1>4. lo * n =< a
  BY TotalAtLeast
<1>5. a =< hi * n
  BY TotalAtMost
<1> HIDE DEF n, a
<1>6. Quotient(a, n) \in lo..hi
  BY <1>1, <1>2, <1>3, <1>4, <1>5, QuotientBetween
<1> QED BY <1>6 DEF n, a, SumAt, Total

(* The squares of the distances to m.                                        *)
Squares(s, m) == [j \in 1..Len(s) |-> (s[j] - m) * (s[j] - m)]

(* A square is not negative.                                                 *)
LEMMA SquareType ==
    ASSUME NEW x \in Int
    PROVE  x * x \in Int /\ 0 =< x * x
<1>1. CASE x >= 0
  BY <1>1
<1>2. CASE x < 0
  BY <1>2
<1> QED BY <1>1, <1>2

(* The squares that the deviation is computed from can be added up.          *)
LEMMA SquaresAreNumbers ==
    ASSUME NEW s \in Seq(Int), NEW m \in Int
    PROVE  /\ Numbers(Squares(s, m), 1..Len(s))
           /\ Under(0, Squares(s, m), 1..Len(s))
<1>1. Len(s) \in Nat
  OBVIOUS
<1>2. IsFiniteSet(1..Len(s))
  BY <1>1, FS_Interval
<1>3. ASSUME NEW j \in 1..Len(s)
      PROVE  (s[j] - m) * (s[j] - m) \in Int /\ 0 =< (s[j] - m) * (s[j] - m)
  <2>1. s[j] - m \in Int
    OBVIOUS
  <2> QED BY <2>1, SquareType
<1>4. Squares(s, m) \in [1..Len(s) -> Int]
  BY <1>3 DEF Squares
<1>5. \A j \in 1..Len(s) : 0 =< Squares(s, m)[j]
  BY <1>3 DEF Squares
<1> QED BY <1>2, <1>4, <1>5 DEF Numbers, Under

(* A distance of more than one and a half deviations has more than 9/4 of    *)
(* the mean square: nine in n of them cannot be four or more.                *)
LEMMA MostAreNear ==
    ASSUME NEW s \in Seq(Int), NEW m \in Int, Len(s) > 0
    PROVE  9 * Cardinality(NearMean(s, m)) > 5 * Len(s)
<1> DEFINE n == Len(s)
           U == 1..n
           q == Squares(s, m)
           V == Total(q, U)
           Near == NearMean(s, m)
           Far == U \ Near
           k == Cardinality(Far)
           c == (9 * V) \div (4 * n) + 1
<1>1. n \in Nat /\ n > 0 /\ Numbers(q, U) /\ Under(0, q, U) /\ U \in SUBSET U
  BY SquaresAreNumbers
<1>2. V \in Int
  <2> HIDE DEF q
  <2> QED BY <1>1, TotalType
<1>3. Near = {j \in U : 4 * n * q[j] =< 9 * V}
  <2>1. ASSUME NEW j \in U
        PROVE  4 * n * (s[j] - m) * (s[j] - m) = 4 * n * q[j]
    <3>1. q[j] = (s[j] - m) * (s[j] - m) /\ s[j] - m \in Int
      BY DEF Squares
    <3> DEFINE d == s[j] - m
    <3>2. 4 * n * d * d = 4 * n * (d * d)
      <4>1. d \in Int
        BY <3>1
      <4> HIDE DEF d
      <4> QED BY <1>1, <4>1
    <3> QED BY <3>1, <3>2
  <2>2. Near = {j \in U : 4 * n * (s[j] - m) * (s[j] - m) =< 9 * V}
    BY DEF NearMean, Squares, SumAt, Total
  <2> HIDE DEF q, V, Near
  <2> QED BY <2>1, <2>2
<1>4. Far \in SUBSET U /\ Near \in SUBSET U /\ IsFiniteSet(U) /\ Cardinality(U) = n
  <2>1. IsFiniteSet(U) /\ Cardinality(U) = n
    BY <1>1, FS_Interval
  <2> QED BY <2>1, <1>3
<1>5. k \in Nat /\ Cardinality(Near) = n - k
  <2>1. Near = U \ Far
    BY <1>4
  <2>2. U \cap Far = Far
    OBVIOUS
  <2>3. Cardinality(U \ Far) = Cardinality(U) - Cardinality(U \cap Far)
    BY <1>4, FS_Difference
  <2>4. k \in Nat
    BY <1>4, SubsetSize
  <2> HIDE DEF Far, Near
  <2> QED BY <1>4, <2>1, <2>2, <2>3, <2>4
<1>6. c \in Int /\ 9 * V + 1 =< 4 * n * c
  <2>1. 4 * n \in Nat \ {0} /\ 9 * V \in Int
    BY <1>1, <1>2
  <2> HIDE DEF V, n
  <2>2. ASSUME NEW a \in Int, NEW d \in Nat \ {0}
        PROVE  a \div d + 1 \in Int /\ a + 1 =< d * (a \div d + 1)
    OBVIOUS
  <2> QED BY <2>1, <2>2
<1>7. Under(c, q, Far)
  <2>1. ASSUME NEW j \in Far PROVE c =< q[j]
    <3>1. 9 * V < 4 * n * q[j] /\ q[j] \in Int
      <4>1. j \in U /\ q[j] \in Int
        BY <1>1 DEF Numbers
      <4> HIDE DEF q, V
      <4> QED BY <4>1, <1>1, <1>2, <1>3
    <3> DEFINE e == (9 * V) \div (4 * n)
    <3>2. e \in Int /\ 4 * n * e =< 9 * V
      <4>1. 4 * n \in Nat \ {0} /\ 9 * V \in Int
        BY <1>1, <1>2
      <4>2. ASSUME NEW a \in Int, NEW d \in Nat \ {0}
            PROVE  a \div d \in Int /\ d * (a \div d) =< a
        OBVIOUS
      <4> HIDE DEF V, n
      <4> QED BY <4>1, <4>2
    <3>3. 4 * n * e < 4 * n * q[j]
      <4>1. n \in Nat
        BY <1>1
      <4> HIDE DEF e, q, V, n
      <4> QED BY <3>1, <3>2, <1>2, <4>1
    <3>4. e < q[j]
      <4>1. ASSUME NEW x \in Int, NEW y \in Int, NEW z \in Nat, z * x < z * y PROVE x < y
        BY <4>1
      <4>2. 4 * n \in Nat
        BY <1>1
      <4> HIDE DEF e, q, V, n
      <4> QED BY <4>1, <4>2, <3>1, <3>2, <3>3
    <3> QED BY <3>1, <3>2, <3>4
  <2> HIDE DEF q, c, Far
  <2> QED BY <2>1, <1>6 DEF Under
<1>8. c * k =< Total(q, Far) /\ Total(q, Far) =< V /\ 0 =< V /\ Total(q, Far) \in Int
  <2> HIDE DEF q, c, Far, U
  <2>1. c * k =< Total(q, Far)
    BY <1>1, <1>4, <1>7, TotalAtLeast
  <2>2. Total(q, Far) =< V
    BY <1>1, <1>4, PartIsLess
  <2>3. Total(q, Far) \in Int
    BY <1>1, <1>4, TotalType
  <2>4. 0 * Cardinality(U) =< V
    BY <1>1, TotalAtLeast
  <2>5. Cardinality(U) \in Nat
    BY <1>1, <1>4
  <2> QED BY <2>1, <2>2, <2>3, <2>4, <2>5
<1>9. 9 * k < 4 * n
  <2>1. V \in Nat /\ n \in Nat /\ k \in Nat /\ c \in Int /\ n > 0
    BY <1>1, <1>2, <1>5, <1>6, <1>8
  <2>2. c * k =< V
    <3>1. c * k \in Int
      BY <2>1
    <3> HIDE DEF c, k, V, q, Far
    <3> QED BY <3>1, <1>8, <2>1
  <2>3. 9 * V + 1 =< 4 * n * c
    BY <1>6
  <2> HIDE DEF V, n, k, c
  <2>4. SUFFICES ASSUME 9 * k >= 4 * n PROVE FALSE
    BY <2>1
  <2>5. k > 0
    BY <2>1, <2>4
  <2>6. (9 * V + 1) * k =< 4 * n * c * k
    BY <2>1, <2>3
  <2>7. 4 * n * (c * k) =< 4 * n * V
    BY <2>1, <2>2
  <2>8. 4 * n * c * k = 4 * n * (c * k)
    BY <2>1
  <2>9. (9 * V + 1) * k = V * (9 * k) + k
    BY <2>1
  <2>10. V * (4 * n) =< V * (9 * k)
    BY <2>1, <2>4
  <2>11. V * (4 * n) = 4 * n * V
    BY <2>1
  <2>12. V * (9 * k) \in Int /\ 4 * n * V \in Int
    BY <2>1
  <2> QED BY <2>1, <2>5, <2>6, <2>7, <2>8, <2>9, <2>10, <2>11, <2>12
<1> HIDE DEF n, k, Near
<1> QED BY <1>1, <1>5, <1>9 DEF n, Near

(* A window has a weakest and a strongest reading.                           *)
LEMMA ExtremesExist ==
    ASSUME NEW U, NEW s, Numbers(s, U), U # {}
    PROVE  LET held == {s[j] : j \in U} IN
           Under(Min(held), s, U) /\ Over(Max(held), s, U)
<1> DEFINE P == {T \in SUBSET U : T # {} => /\ \E x \in T : \A y \in T : s[x] =< s[y]
                                            /\ \E x \in T : \A y \in T : s[y] =< s[x]}
           held == {s[j] : j \in U}
<1>1. ASSUME NEW T \in SUBSET U, \A x \in T : T \ {x} \in P, NEW z \in T
      PROVE  /\ \E x \in T : \A y \in T : s[x] =< s[y]
             /\ \E x \in T : \A y \in T : s[y] =< s[x]
  <2>1. \A y \in T : s[y] \in Int
    BY DEF Numbers
  <2>2. CASE T = {z}
    BY <2>1, <2>2
  <2>3. CASE T \ {z} # {}
    <3>1. PICK a \in T \ {z} : \A y \in T \ {z} : s[a] =< s[y]
      BY <1>1, <2>3
    <3>2. PICK b \in T \ {z} : \A y \in T \ {z} : s[y] =< s[b]
      BY <1>1, <2>3
    <3>3. \E x \in T : \A y \in T : s[x] =< s[y]
      <4>1. CASE s[a] =< s[z]
        <5>1. \A y \in T : s[a] =< s[y]
          BY <3>1, <4>1
        <5> QED BY <5>1
      <4>2. CASE s[z] =< s[a]
        <5>1. \A y \in T : s[z] =< s[y]
          BY <3>1, <4>2, <2>1
        <5> QED BY <5>1
      <4> QED BY <4>1, <4>2, <2>1
    <3>4. \E x \in T : \A y \in T : s[y] =< s[x]
      <4>1. CASE s[z] =< s[b]
        <5>1. \A y \in T : s[y] =< s[b]
          BY <3>2, <4>1
        <5> QED BY <5>1
      <4>2. CASE s[b] =< s[z]
        <5>1. \A y \in T : s[y] =< s[z]
          BY <3>2, <4>2, <2>1
        <5> QED BY <5>1
      <4> QED BY <4>1, <4>2, <2>1
    <3> QED BY <3>3, <3>4
  <2> QED BY <2>2, <2>3
<1>2. Grows(P, U)
  <2> SUFFICES ASSUME NEW T \in SUBSET U, \A x \in T : T \ {x} \in P PROVE T \in P
    BY DEF Grows
  <2>1. CASE T = {}
    BY <2>1
  <2>2. CASE T # {}
    <3>1. PICK z \in T : TRUE
      BY <2>2
    <3> QED BY <1>1
  <2> QED BY <2>1, <2>2
<1>3. U \in P
  <2>1. U \in SUBSET U
    OBVIOUS
  <2> HIDE DEF P
  <2> QED BY <1>2, <2>1, SubsetInduction DEF Numbers
<1>4. \A y \in held : y \in Int
  BY DEF Numbers
<1>5. \E x \in held : \A y \in held : x =< y
  BY <1>3
<1>6. \E x \in held : \A y \in held : x >= y
  <2>1. PICK x \in U : \A y \in U : s[y] =< s[x]
    BY <1>3
  <2>2. \A y \in U : s[x] >= s[y]
    BY <2>1 DEF Numbers
  <2> QED BY <2>2
<1>7. Min(held) \in held /\ \A y \in held : Min(held) =< y
  BY <1>5 DEF Min
<1>8. Max(held) \in held /\ \A y \in held : Max(held) >= y
  BY <1>6 DEF Max
<1> QED BY <1>4, <1>7, <1>8 DEF Under, Over, Numbers

(* What a measurement does to a full window.                                 *)
LEMMA MeasuresSoundly ==
    ASSUME IInv, Estimate
    PROVE  LET held == {beacon.recRSSI[j] : j \in 1..WindowSize} IN
           /\ 9 * Cardinality(NearMean(beacon.recRSSI, Mean(beacon.recRSSI))) > 5 * WindowSize
           /\ beacon'.meanRSSI \in Min(held)..Max(held)
           /\ beacon'.distance = RSSIm - beacon'.meanRSSI
<1> DEFINE s == beacon.recRSSI
           U == 1..WindowSize
           held == {s[j] : j \in U}
           m == Mean(s)
           kept == NearMean(s, m)
           mean == Quotient(SumAt(s, kept), Cardinality(kept))
           b == SwitchSides(beacon)
<1>1. s \in Seq(Int) /\ Len(s) = WindowSize /\ WindowSize \in Nat \ {0}
  <2>1. s \in Seq(RSSI)
    BY DEF IInv
  <2>2. Len(s) = WindowSize
    BY DEF Estimate, Full
  <2>3. WindowSize \in Nat \ {0}
    BY HalfAssumption DEF WindowSize
  <2>4. s \in Seq(Int)
    <3>1. s \in [1..WindowSize -> RSSI]
      BY <2>1, <2>2
    <3>2. s \in [1..WindowSize -> Int]
      BY <3>1, RSSIAssumption
    <3> QED BY <2>3, <3>2
  <2> QED BY <2>2, <2>3, <2>4
<1>2. Numbers(s, U) /\ U # {} /\ U \in SUBSET U
  <2>1. IsFiniteSet(U)
    BY <1>1, FS_Interval
  <2>2. s \in [U -> Int] /\ 1 \in U
    BY <1>1
  <2> HIDE DEF s, U
  <2> QED BY <2>1, <2>2 DEF Numbers
<1>3. Under(Min(held), s, U) /\ Over(Max(held), s, U)
  <2> HIDE DEF U, s
  <2> QED BY <1>2, ExtremesExist
<1>4. m \in Int
  <2>1. Cardinality(U) = Len(s)
    BY <1>1, FS_Interval
  <2>2. Quotient(SumAt(s, U), Cardinality(U)) \in Min(held)..Max(held)
    <3> HIDE DEF U, s, held
    <3> QED BY <1>2, <1>3, MeanBetween
  <2> QED BY <1>1, <2>1, <2>2 DEF Mean
<1>5. 9 * Cardinality(kept) > 5 * WindowSize
  <2>1. Len(s) > 0
    BY <1>1
  <2> HIDE DEF s, m
  <2> QED BY <1>1, <1>4, <2>1, MostAreNear
<1>6. kept \in SUBSET U /\ kept # {}
  <2>1. kept \in SUBSET U
    BY <1>1 DEF NearMean
  <2>2. CASE kept = {}
    BY <1>1, <1>5, <2>2, FS_EmptySet
  <2> QED BY <2>1, <2>2
<1>7. mean \in Min(held)..Max(held)
  <2>1. Under(Min(held), s, kept) /\ Over(Max(held), s, kept)
    <3> HIDE DEF s, held, kept, U
    <3> QED BY <1>3, <1>6 DEF Under, Over
  <2> HIDE DEF s, held, kept, U
  <2> QED BY <1>2, <1>6, <2>1, MeanBetween
<1>8. beacon' = [b EXCEPT !.meanRSSI = mean, !.distance = RSSIm - mean]
  <2>1. b.recRSSI = s
    BY DEF SwitchSides, IInv, Fields
  <2>2. beacon' = Measured(b)
    BY DEF Estimate
  <2> HIDE DEF b, s
  <2> QED BY <1>6, <2>1, <2>2, Zenon DEF Measured, s
<1>9. beacon'.meanRSSI = mean /\ beacon'.distance = RSSIm - mean
  <2>1. DOMAIN b = Fields
    BY DEF SwitchSides, IInv
  <2> HIDE DEF b, mean
  <2> QED BY <1>8, <2>1 DEF Fields
<1> HIDE DEF mean, kept
<1> QED BY <1>5, <1>7, <1>9 DEF kept

(* MeasurementIsSound: a measurement keeps more than 5/9 of the window, so   *)
(* the test k # 0 of didUpdateBeacon always succeeds, and the mean it stores *)
(* lies between the weakest and the strongest reading held; for every size   *)
(* of the halves and every set of strengths.                                 *)
THEOREM MeasurementsAreSound == Spec => MeasurementIsSound
<1> DEFINE Sound ==
      beacon'.repI < beacon.repI =>
          LET held == {beacon.recRSSI[j] : j \in 1..WindowSize} IN
          /\ 9 * Cardinality(NearMean(beacon.recRSSI, Mean(beacon.recRSSI)))
               > 5 * WindowSize
          /\ beacon'.meanRSSI \in Min(held)..Max(held)
          /\ beacon'.distance = RSSIm - beacon'.meanRSSI
<1>1. IInv /\ [Next]_beacon => [Sound]_beacon
  <2> SUFFICES ASSUME IInv, [Next]_beacon PROVE [Sound]_beacon
    OBVIOUS
  <2>1. beacon.repI \in 0..Half /\ (~Full(beacon) => beacon.repI = Half)
    BY DEF IInv
  <2>2. CASE Fill
    <3>1. beacon'.repI = Half
      BY <2>2, FillFields
    <3>2. ~(beacon'.repI < beacon.repI)
      BY <2>1, <3>1, HalfAssumption
    <3> QED BY <3>2
  <2>3. CASE Store
    <3>1. beacon'.repI = beacon.repI + 1
      BY <2>3, StoreFields
    <3>2. ~(beacon'.repI < beacon.repI)
      BY <2>1, <3>1, HalfAssumption
    <3> QED BY <3>2
  <2>4. CASE Estimate
    BY <2>4, MeasuresSoundly
  <2>5. CASE beacon' = beacon
    BY <2>5
  <2> HIDE DEF Sound
  <2> QED BY <2>2, <2>3, <2>4, <2>5 DEF Next, Ignore
<1> QED BY <1>1, IInvHolds, PTL DEF Spec, MeasurementIsSound
=============================================================================
