-------------------------- MODULE MCBeaconTracking --------------------------
(* Constants for BeaconTracking, and the beacons, which are interchangeable. *)
EXTENDS BeaconTracking, TLC

CONSTANTS b1, b2, b3, r1, r2

Beacons == Permutations(Beacon)
=============================================================================
