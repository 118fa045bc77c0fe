------------------------------- MODULE MCEABA -------------------------------
(* PathFinding and Zones together, on the map the app is built with: a user  *)
(* at one place for every set of zones that can lie around a user asks the   *)
(* way to any of the destinations.                                           *)
EXTENDS Building, EABA

MCMaps == {EABANodes}
MCFindZone(coord) == findZone(coord)

(* One place for every set of zones that can lie around a user, on no border *)
(* where there is such a place.                                              *)
MCPlaces == {
    <<926, 244>>, <<927, 1866>>, <<1122, 1865>>, <<1123, 1750>>, <<1215, 1749>>,
    <<1216, 1577>>, <<1365, 1865>>, <<1365, 2221>>, <<1366, 1866>>, <<1366, 1995>>,
    <<1366, 2222>>, <<1470, 1749>>, <<1470, 1865>>, <<1471, 1577>>, <<1471, 1750>>,
    <<1572, 1865>>, <<1572, 1866>>, <<1573, 1865>>, <<1573, 1866>>, <<1770, 1866>>,
    <<2349, 1750>>, <<2349, 1865>>, <<2349, 1866>>, <<2350, 1577>>, <<2350, 1751>>,
    <<2350, 1867>>, <<2350, 2060>>, <<2364, 1576>>, <<2365, 245>>, <<2631, 1577>>,
    <<2631, 1750>>, <<2631, 1867>>, <<2632, 1578>>, <<2632, 1751>>}

ZoneSets(places) == {Containing(p) : p \in places}
ASSUME PlacesCoverZones ==
    /\ ZoneSets(MCPlaces) = ZoneSets(BorderPlaces)
    /\ LET inner(places) == {p \in places : ~OnABorder(p)}
       IN  ZoneSets(inner(MCPlaces)) = ZoneSets(inner(BorderPlaces))

(* The nodes on a's side of the connection from a to b: what can be reached  *)
(* from a, in either direction, without it.                                  *)
SideOf(a, b) ==
    LET m == EABANodes
        Joined(x, y) == (Contains(m[x], y) \/ Contains(m[y], x)) /\ {x, y} # {a, b}
        Grown(S) == S \cup {y \in DOMAIN m : \E x \in S : Joined(x, y)}
        side[S \in SUBSET (DOMAIN m)] == IF Grown(S) = S THEN S ELSE side[Grown(S)]
    IN  side[{a}]

(* The map has no cycles, although nothing in the code asks for that: of     *)
(* every connection SideOf is a set of which it is the bridge. So EABANodes  *)
(* IsForest, and what is proved of forests is true of it.                    *)
ASSUME MapIsAForest ==
    \A a \in DOMAIN EABANodes, b \in DOMAIN EABANodes :
        Contains(EABANodes[a], b) => IsBridge(EABANodes, a, b, SideOf(a, b))

(* The number of connections from each node to the end.                      *)
StepsTo(end) ==
    LET m == EABANodes
        Grown(S) == S \cup {n \in DOMAIN m : \E x \in S : Contains(m[n], x)}
        within[k \in Nat] == IF k = 0 THEN {end} ELSE Grown(within[k - 1])
    IN  [n \in DOMAIN m |-> CHOOSE k \in 0..Cardinality(DOMAIN m) :
                              n \in within[k] /\ (k = 0 \/ n \notin within[k - 1])]

(* So GoalsAreReached, StepsTo being the steps. With the other two facts,    *)
(* what is proved of such buildings is true of this one.                     *)
ASSUME BuildingIsComplete ==
    /\ \A end \in Destinations : LeadsTo(EABANodes, end, StepsTo(end))
    /\ ZonesHaveNodes
    /\ OverlapsAreListed

(* For a counterexample: a place in the first zone, and two nodes.           *)
SomePlaces == {<<2400, 300>>, <<2422, 1520>>, <<2422, 1627>>}
=============================================================================
