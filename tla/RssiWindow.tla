----------------------------- MODULE RssiWindow -----------------------------
(* The life of one ParsedBeacon (option1.swift): the signal strengths the    *)
(* scanner reports for a beacon fill a window of WindowSize readings; once   *)
(* it is full its two halves are overwritten in turn, and each time a half   *)
(* is new the readings near the mean give the distance that trilaterate()    *)
(* uses. WindowSize is recRSSIsize (20 in the code); Half is the literal 10. *)
EXTENDS Integers, Sequences, FiniteSetsExt

CONSTANTS
    Half,      \* the number of readings in one half of the window
    RSSI       \* the signal strengths CoreBluetooth can report, in dBm

ASSUME HalfAssumption == Half \in Nat \ {0}
ASSUME RSSIAssumption == RSSI \subseteq Int

WindowSize == 2 * Half
NoReading == 127        \* CoreBluetooth: "the RSSI could not be read"
Weakest == -75          \* updates below it are ignored
RSSIm == -48            \* the strength at one metre
Infinity == 1000        \* larger than any RSSIm - meanRSSI

VARIABLE beacon         \* the ParsedBeacon object

(* ParsedBeacon.init. Only the value 127 is refused: the first reading may   *)
(* be weaker than the updates that follow. distance stands for the exponent  *)
(* of 10^((RSSIm - meanRSSI)/14), in which it grows.                         *)
NewBeacon(r) ==
    [ recRSSI  |-> IF r # NoReading THEN <<r>> ELSE <<>>,
      meanRSSI |-> 0,
      repHalf  |-> 1,
      repI     |-> Half,
      distance |-> Infinity ]

Accepted(r) == r # NoReading /\ r >= Weakest

Full(b) == Len(b.recRSSI) = WindowSize

(* Swift's division of an Int truncates towards zero.                        *)
Quotient(a, n) == IF a >= 0 THEN a \div n ELSE -((-a) \div n)

SumAt(s, I) == MapThenSumSet(LAMBDA j : s[j], I)

(* Mutant of NearMean: half a deviation instead of one and a half.           *)
NearMeanHalf(s, m) ==
    LET n == Len(s)
        V == SumAt([j \in 1..n |-> (s[j] - m) * (s[j] - m)], 1..n)
    IN  {j \in 1..n : 4 * n * (s[j] - m) * (s[j] - m) =< V}

(* The positions whose reading lies within Int(1.5 * std) of the truncated   *)
(* mean m, std being the root of the mean square distance to m: as readings  *)
(* are integers, |x - m| =< Int(1.5 * std) iff 4 n (x - m)^2 =< 9 V.         *)
NearMean(s, m) ==
    LET n == Len(s)
        V == SumAt([j \in 1..n |-> (s[j] - m) * (s[j] - m)], 1..n)
    IN  {j \in 1..n : 4 * n * (s[j] - m) * (s[j] - m) =< 9 * V}

Mean(s) == Quotient(SumAt(s, 1..Len(s)), Len(s))

(* meanRSSI and distance after the window was measured.                      *)
Measured(b) ==
    LET kept == NearMean(b.recRSSI, Mean(b.recRSSI))
        mean == Quotient(SumAt(b.recRSSI, kept), Cardinality(kept))
    IN  IF kept = {}
        THEN [b EXCEPT !.meanRSSI = Mean(b.recRSSI)]
        ELSE [b EXCEPT !.meanRSSI = mean, !.distance = RSSIm - mean]

SwitchSides(b) == [b EXCEPT !.repI = 0, !.repHalf = 1 - b.repHalf]

-----------------------------------------------------------------------------
(* Mutant of Init: the first half replaced is the second one.                *)
InitOtherHalf == \E r \in RSSI : beacon = [NewBeacon(r) EXCEPT !.repHalf = 0]

Init == \E r \in RSSI : beacon = NewBeacon(r)

(* didUpdateBeacon with a strength that is no reading, or too weak.          *)
Ignore ==
    /\ \E r \in RSSI : ~Accepted(r)
    /\ UNCHANGED beacon

(* The window is not full: append.                                           *)
Fill ==
    /\ ~Full(beacon)
    /\ \E r \in RSSI :
        /\ Accepted(r)
        /\ beacon' = [beacon EXCEPT !.recRSSI = Append(@, r)]

(* Mutant of Store: the half that is kept.                                  *)
StoreInOtherHalf ==
    /\ Full(beacon)
    /\ beacon.repI # Half
    /\ \E r \in RSSI :
        /\ Accepted(r)
        /\ beacon' = [beacon EXCEPT
                        !.recRSSI[beacon.repI + Half * (1 - beacon.repHalf) + 1] = r,
                        !.repI = @ + 1]

(* Overwrite the next reading of the half that is being replaced.            *)
Store ==
    /\ Full(beacon)
    /\ beacon.repI # Half
    /\ \E r \in RSSI :
        /\ Accepted(r)
        /\ beacon' = [beacon EXCEPT
                        !.recRSSI[beacon.repI + Half * beacon.repHalf + 1] = r,
                        !.repI = @ + 1]

(* A half has been replaced: measure. The reading that causes it is dropped. *)
Estimate ==
    /\ Full(beacon)
    /\ beacon.repI = Half
    /\ \E r \in RSSI : Accepted(r)
    /\ beacon' = Measured(SwitchSides(beacon))

Next == Ignore \/ Fill \/ Store \/ Estimate

Spec == Init /\ [][Next]_beacon

-----------------------------------------------------------------------------
(* The beacon is well formed, and every index didUpdateBeacon forms lies in  *)
(* the window: repI + 10 * repHalf < 20 whenever a reading is stored, and    *)
(* the halves only turn once the window is full.                             *)
TypeOK ==
    /\ beacon.recRSSI \in Seq(RSSI)
    /\ Len(beacon.recRSSI) =< WindowSize
    /\ beacon.repHalf \in {0, 1}
    /\ beacon.repI \in 0..Half
    /\ ~Full(beacon) => beacon.repI = Half /\ beacon.repHalf = 1

(* A measurement keeps more than 5/9 of the window (Chebyshev with 1.5       *)
(* standard deviations, although the code rounds both the mean and the       *)
(* deviation to integers), so k # 0 always holds where didUpdateBeacon       *)
(* tests it, and the mean it stores is between the weakest and the strongest *)
(* reading held.                                                             *)
MeasurementIsSound ==
    [][ beacon'.repI < beacon.repI =>
          LET held == {beacon.recRSSI[j] : j \in 1..WindowSize} IN
          /\ 9 * Cardinality(NearMean(beacon.recRSSI, Mean(beacon.recRSSI)))
               > 5 * WindowSize
          /\ beacon'.meanRSSI \in Min(held)..Max(held)
          /\ beacon'.distance = RSSIm - beacon'.meanRSSI ]_beacon

(* The reading didFindBeacon stored without comparing it to -75 is gone by   *)
(* the second measurement: from then on every estimate is made of readings   *)
(* that the update's threshold let through.                                  *)
WeakReadingLeaves ==
    Full(beacon) /\ beacon.repHalf = 1 /\ beacon.distance # Infinity
        => \A j \in 1..WindowSize : beacon.recRSSI[j] >= Weakest

(* The ring read from its oldest reading on, and the readings stored since   *)
(* the last measurement: the queue that SlidingWindow describes.             *)
Oldest == beacon.repI + Half * beacon.repHalf
Aged ==
    IF Full(beacon)
    THEN [k \in 1..WindowSize |->
            beacon.recRSSI[IF Oldest + k =< WindowSize
                           THEN Oldest + k ELSE Oldest + k - WindowSize]]
    ELSE beacon.recRSSI

Queue == INSTANCE SlidingWindow WITH
            Reading <- RSSI,
            window <- Aged,
            fresh <- beacon.repI,
            reported <- 1 - beacon.repHalf

(* The two halves, the replace index and the switch of sides implement a     *)
(* queue: a reading replaces the oldest one, and a measurement happens       *)
(* exactly when Half readings of a full window are new.                      *)
ImplementsQueue == Queue!Spec
=============================================================================
