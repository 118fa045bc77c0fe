----------------------------- MODULE MCGuidance -----------------------------
(* Four beacons of the table, three of which lie in a line, and one that is  *)
(* not listed, whose place in the code lies in a line with two others. The   *)
(* compass is sampled around the degrees at which the code changes its mind. *)
EXTENDS Guidance

MCHeadings == {-1, 0, 45, 46, 225}
MCBeacon == 1..5
MCKnown == 1..4
MCPosition == <<<<1, 1>>, <<3, 1>>, <<5, 1>>, <<2, 2>>, <<4, 3>>>>
MCSpot == {<<2, 1>>, <<3, 2>>}
MCNode == {<<2, 1>>, <<4, 3>>, <<2, 4>>}
=============================================================================
