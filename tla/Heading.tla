------------------------------- MODULE Heading -------------------------------
(* The angle the user is told to turn by (calculateAngle, PathFinding.swift) *)
(* and the compass (ViewController.swift) it starts from. Angles are whole   *)
(* degrees; in the map they grow from the x axis towards the y axis, and the *)
(* heading, which grows the other way round, is 45 when the user faces the   *)
(* x axis.                                                                   *)
EXTENDS Integers

CONSTANT Headings    \* what the compass reports; -1 without a true heading

ASSUME HeadingsAssumption == Headings \subseteq -1..359

Abs(a) == IF a < 0 THEN -a ELSE a

(* The vectors from the user to a node: sixteen directions, and none.        *)
Vector == {v \in (-2..2) \X (-2..2) :
             Abs(v[1]) + Abs(v[2]) \in {0, 1, 3} \/ (Abs(v[1]) = 1 /\ Abs(v[2]) = 1)}

(* The arc tangents of the slopes y / x of these directions, and of the      *)
(* slopes less pi, which the code takes in one quadrant.                     *)
Steepness(y, x) == CASE y = 0 -> 0 [] Abs(y) < Abs(x) -> 27
                     [] Abs(y) = Abs(x) -> 45 [] Abs(y) > Abs(x) -> 63
Atan(v) == IF v[1] * v[2] < 0 THEN -Steepness(v[2], v[1]) ELSE Steepness(v[2], v[1])
AtanLessPi(v) == CASE Steepness(v[2], v[1]) = 27 -> -69
                   [] Steepness(v[2], v[1]) = 45 -> -65
                   [] Steepness(v[2], v[1]) = 63 -> -49

VARIABLES
    orientation,          \* ViewController's global
    toNode,               \* the vector of the last call
    correctionAngle,      \* its result, which findPath keeps in a global
    user                  \* "told" to turn by it, "turned" by it, or "moving"

vars == <<orientation, toNode, correctionAngle, user>>

(* The direction of the user in the map: temp in the code.                   *)
UserAngle(startAngle) ==
    LET temp == IF startAngle > 45 THEN Abs(360 - startAngle) + 45 ELSE 45 - startAngle
    IN  Abs(360 - Abs(temp - 360))

(* Mutant of NodeAngle: the second quadrant is mistaken, too.                *)
NodeAngleMirrored(v) ==
    CASE v[1] # 0 /\ v[2] >= 0 -> Atan(v)
      [] v[1] < 0 /\ v[2] < 0 -> -180 + AtanLessPi(v)
      [] v[1] > 0 /\ v[2] < 0 -> 360 + Atan(v)
      [] v[1] = 0 -> IF v[2] > 0 THEN 90 ELSE 270

(* The direction of the node. The third quadrant takes pi from the slope,    *)
(* which is not an angle. No vector at all, as at a node, gives 270.         *)
NodeAngle(v) ==
    CASE v[1] > 0 /\ v[2] >= 0 -> Atan(v)
      [] v[1] < 0 /\ v[2] >= 0 -> 180 + Atan(v)
      [] v[1] < 0 /\ v[2] < 0 -> -180 + AtanLessPi(v)
      [] v[1] > 0 /\ v[2] < 0 -> 360 + Atan(v)
      [] v[1] = 0 -> IF v[2] > 0 THEN 90 ELSE 270

Correction(nodeA, temp) ==
    LET turn == IF nodeA - temp < 0 THEN 360 + nodeA - temp ELSE nodeA - temp
    IN  IF turn > 180 THEN Abs(360 - turn) ELSE -turn

calculateAngle(v, startAngle) == Correction(NodeAngle(v), UserAngle(startAngle))

Init ==
    /\ orientation = 0
    /\ toNode = <<0, 0>>
    /\ correctionAngle = 0
    /\ user = "moving"

(* The user goes on; nobody reads the angle of the last call again.          *)
Forget == toNode' = <<0, 0>> /\ correctionAngle' = 0 /\ user' = "moving"

(* didUpdateHeading: the compass, at any time.                               *)
didUpdateHeading == orientation' \in Headings /\ Forget

(* findPath: the angle to the first node of the path.                        *)
FindPath ==
    /\ toNode' \in Vector
    /\ correctionAngle' = calculateAngle(toNode', orientation)
    /\ user' = "told"
    /\ UNCHANGED orientation

(* External: the user, who has not moved, turns by the angle, to the right   *)
(* if it is positive, and the compass reports it.                            *)
Follow ==
    /\ user = "told"
    /\ orientation' = (orientation + correctionAngle) % 360
    /\ user' = "turned"
    /\ UNCHANGED <<toNode, correctionAngle>>

Next == didUpdateHeading \/ FindPath \/ Follow

Spec == Init /\ [][Next]_vars

-----------------------------------------------------------------------------
(* The directions by their definition: the eighth turns and what lies half   *)
(* way between their slopes.                                                 *)
Facing == (45 - orientation) % 360

Toward(v, direction) ==
    LET steep == Steepness(v[2], v[1])
        fromX == IF v[1] * v[2] >= 0 THEN steep ELSE -steep
    IN  IF v[1] = 0 THEN direction = (IF v[2] > 0 THEN 90 ELSE 270)
        ELSE direction = ((IF v[1] > 0 THEN 0 ELSE 180) + fromX) % 360

ThirdQuadrant == toNode[1] < 0 /\ toNode[2] < 0

(* The turn is between the two half turns, or up to one and a half where the *)
(* third quadrant is mistaken: with 180 added, as trilaterate does, it has   *)
(* neither a sign nor more than the three digits packageCreator pads it to.  *)
AngleFitsThePacket ==
    /\ correctionAngle \in -180..269
    /\ ~ThirdQuadrant => correctionAngle =< 180

(* "Calculates the angle necessary for the user to turn to be faced toward   *)
(* the desination": who turns by it faces the node, from every heading, on   *)
(* both sides of the code's case split at 45 degrees, and when the direction *)
(* of the node and the heading lie on different sides of zero.               *)
FacesTheNodeAhead ==
    user = "turned" /\ toNode # <<0, 0>> /\ ~ThirdQuadrant => Toward(toNode, Facing)

(* The same for every direction, as the comment says it.                     *)
FacesTheNode == user = "turned" /\ toNode # <<0, 0>> => Toward(toNode, Facing)
=============================================================================
