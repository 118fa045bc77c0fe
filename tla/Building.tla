------------------------------ MODULE Building ------------------------------
(* PathFinding and Zones together: findPath asks findZone for the zone of    *)
(* the user, and starts a search from each of the nodes it is given.         *)
EXTENDS PathFinding, Zones

ASSUME FindZoneAssumption == \A p \in Places : FindZone(p) = findZone(p)

InZone == Answered /\ ~call.atNode

(* What a building needs for its routes: every zone has a node, and from     *)
(* every node some neighbor is closer to the destination, counted in steps.  *)
ZonesHaveNodes == \A z \in Zone : nodes[z] # {}
LeadsTo(m, end, steps) ==
    \A n \in DOMAIN m \ {end} : \E k \in DOMAIN m : Contains(m[n], k) /\ steps[k] < steps[n]
GoalsAreReached(m) ==
    \A end \in Goals : \E steps \in [DOMAIN m -> Nat] : LeadsTo(m, end, steps)

-----------------------------------------------------------------------------
(* "Finds nodes in zone(s) that are associated with user location": the      *)
(* lists of overlapping zones are complete but for borders. Away from them   *)
(* findZone finds every zone the user is in, whichever zone the dictionary   *)
(* yields first.                                                             *)
FindsEveryZoneOffBorders ==
    InZone /\ ~OnABorder(call.start) => zoneNodes = NodesAround(call.start)

(* From every place in some zone of the building there is an answer for      *)
(* every destination, although a search gives up at the other nodes of the   *)
(* zone and the dictionary decides which zones are found on a border.        *)
EveryPlaceHasARoute ==
    InZone /\ Containing(call.start) # {} => HasRoute
=============================================================================
