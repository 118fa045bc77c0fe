--------------------------- MODULE MCPathFinding ---------------------------
(* PathFinding on every map with five given nodes on a small grid, each      *)
(* connection usable in both directions. Two places are no nodes: one in a   *)
(* zone of two nodes, and one out of every zone.                             *)
EXTENDS PathFinding

Sites == <<<<0, 1>>, <<0, 2>>, <<2, 3>>, <<2, 2>>, <<3, 3>>>>
Links == {<<i, j>> \in (1..5) \X (1..5) : i < j}

Joins(links, i, j) == <<i, j>> \in links \/ <<j, i>> \in links
MapOf(links) ==
    [n \in {Sites[i] : i \in 1..5} |->
       LET i == CHOOSE k \in 1..5 : Sites[k] = n
           near == SelectSeq(<<1, 2, 3, 4, 5>>, LAMBDA j : Joins(links, i, j))
       IN  [k \in 1..Len(near) |-> Sites[near[k]]]]

MCMaps == {MapOf(links) : links \in SUBSET Links}
InZone == <<0, 0>>
Outside == <<9, 9>>
MCPlaces == {Sites[1], InZone, Outside}
MCGoals == {Sites[3], Sites[5]}
MCFindZone(coord) == IF coord = InZone THEN {{Sites[1], Sites[2]}} ELSE {{}}
=============================================================================
