------------------------------ MODULE Guidance ------------------------------
(* From the distances of the beacons to the turn the user is told            *)
(* (trilaterate, option1.swift): the list of beacons, of which those that    *)
(* have been measured have a distance, gives a place, the place a vector to  *)
(* the next node of the path, and the vector, with the compass, an angle.    *)
(* The path itself is the subject of PathFinding, the list as the threads    *)
(* see it that of BeaconTracking.                                            *)
EXTENDS Heading, Trilateration, Sequences, SequencesExt

CONSTANTS
    Beacon,      \* beacons in the building
    Known,       \* those that are listed in beaconNames
    Position,    \* where they are
    MaxListed,   \* bound of the model: beacons in reach at a time
    Spot,        \* where the user can be
    Node         \* the nodes a path may start with

ASSUME KnownAssumption == Known \subseteq Beacon
ASSUME MaxListedAssumption == MaxListed \in Nat
ASSUME PositionAssumption == Position \in [Beacon -> Int \X Int]
ASSUME PlacesAssumption == Spot \subseteq Int \X Int /\ Node \subseteq Int \X Int

VARIABLES
    place,        \* where the user is
    available,    \* availableBeacons: the beacon and its distance, squared
    next,         \* the first node of the path, when there is a place
    crash         \* "no" or "index"

guidanceVars == <<orientation, toNode, correctionAngle, user, place, available, next, crash>>

Infinity == 1000000

(* ParsedBeacon.loc: an unknown beacon is at the origin.                     *)
Loc(b) == IF b \in Known THEN Position[b] ELSE <<0, 0>>

GuidanceInit ==
    /\ Init
    /\ place \in Spot
    /\ available = <<>>
    /\ next = <<0, 0>>
    /\ crash = "no"

Running == crash = "no"
Listed == {available[i].id : i \in DOMAIN available}
IsMeasured(list, i) == list[i].distance # Infinity

-----------------------------------------------------------------------------
Compass == Running /\ didUpdateHeading /\ UNCHANGED <<place, available, next, crash>>

Walk ==
    /\ Running
    /\ place' \in Spot \ {place}
    /\ Forget
    /\ UNCHANGED <<orientation, available, next, crash>>

(* didFindBeacon and didLoseBeacon.                                          *)
Find(b) ==
    /\ Running /\ b \notin Listed /\ Len(available) < MaxListed
    /\ available' = Append(available, [id |-> b, distance |-> Infinity])
    /\ Forget
    /\ UNCHANGED <<orientation, place, next, crash>>

Lost(b) ==
    /\ Running
    /\ \E i \in DOMAIN available :
          available[i].id = b /\ available' = RemoveAt(available, i)
    /\ Forget
    /\ UNCHANGED <<orientation, place, next, crash>>

(* The list with the new distance of b, in the order of the distances; equal *)
(* ones come in any order.                                                   *)
Updated(b) ==
    [i \in DOMAIN available |->
        IF available[i].id = b
        THEN [id |-> b, distance |-> SquaredDistance(Position[b], place)] ELSE available[i]]
InOrder(list) ==
    \A i, k \in DOMAIN list : i < k => list[i].distance =< list[k].distance
Sorted(list) == {s \in SetToSeqs({list[i] : i \in DOMAIN list}) : InOrder(s)}

(* Mutant of Measured: the list as it is.                                    *)
MeasuredUnsorted(b) == {Updated(b)}

Measured(b) == Sorted(Updated(b))

Location(list) ==
    trilateration(Loc(list[1].id), Loc(list[2].id), Loc(list[3].id),
                  list[1].distance, list[2].distance, list[3].distance)

(* Int() drops what follows the point.                                       *)
Truncate(n, d) == IF (n >= 0) = (d >= 0) THEN Abs(n) \div Abs(d) ELSE -(Abs(n) \div Abs(d))
Start(l) == <<Truncate(l.x, l.by), Truncate(l.y, l.by)>>

(* Parallel to an axis the arithmetic is exact and a line gives NaN; in      *)
(* another line it is rounding that decides, and the place may be any.       *)
InLine(list) == Location(list).by = 0
ParallelToAnAxis(list) ==
    \E k \in {1, 2} : \A i \in {2, 3} : Loc(list[i].id)[k] = Loc(list[1].id)[k]

(* findPath has a path to the destination, and the angle to its first node.  *)
Told(list) ==
    /\ \/ /\ ~InLine(list)
          /\ next' \in Node
          /\ toNode' = Minus(next', Start(Location(list)))
       \/ InLine(list) /\ ~ParallelToAnAxis(list) /\ next' = <<0, 0>>
    /\ FindPath

(* The tenth new reading of b gives it a distance, and trilaterate is called *)
(* with the list as it is: the entries 1, 2 and 3 are read in turn, as long  *)
(* as the last one has a distance, whether or not there are so many.         *)
Measure(b) ==
    /\ Running /\ b \in Listed
    /\ available' \in Measured(b)
    /\ IF Len(available') < 3 /\ \A i \in DOMAIN available' : IsMeasured(available', i)
       THEN crash' = "index" /\ Forget /\ UNCHANGED next
       ELSE /\ UNCHANGED crash
            /\ \/ Forget /\ UNCHANGED next
               \/ /\ Len(available') >= 3 /\ IsMeasured(available', 3)
                  /\ Told(available')
    /\ UNCHANGED <<orientation, place>>

(* External: the user turns by the angle in the packet.                      *)
Turn == Running /\ Follow /\ UNCHANGED <<place, available, next, crash>>

GuidanceNext ==
    \/ Compass \/ Walk \/ Turn
    \/ \E b \in Beacon : Find(b) \/ Lost(b) \/ Measure(b)

GuidanceSpec == GuidanceInit /\ [][GuidanceNext]_guidanceVars

-----------------------------------------------------------------------------
(* The entries trilaterate uses.                                             *)
First == 1..3
HasPlace == Len(available) >= 3 /\ IsMeasured(available, 3) /\ InOrder(available)

(* The location does not depend on the roles the three beacons play in the   *)
(* code: it is the point whose power is the same for the three circles, even *)
(* if they do not meet in it because the user moved between measurements.    *)
CommonToTheCircles ==
    HasPlace => LET l == Location(available) IN
        \A i, k \in First :
            Power(l, Loc(available[i].id), available[i].distance)
                = Power(l, Loc(available[k].id), available[k].distance)

(* From beacons of the table that are not in a line, measured from where the *)
(* user stands, in whatever order they were found, lost and measured, the    *)
(* turn leads from that very place to the next node.                         *)
FacesTheNextNode ==
    (/\ user = "turned" /\ ~InLine(available) /\ ~ThirdQuadrant
     /\ \A i \in First :
           /\ available[i].id \in Known
           /\ available[i].distance = SquaredDistance(Position[available[i].id], place))
        => next = place \/ Toward(Minus(next, place), Facing)

(* The user is only told a way that was worked out from the nearest beacons: *)
(* no other entry of the list has a smaller distance.                        *)
ToldFromTheNearest ==
    user # "moving" =>
        \A i \in First, k \in DOMAIN available \ First :
            available[i].distance =< available[k].distance
=============================================================================
