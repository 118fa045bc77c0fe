------------------------------- MODULE Zones -------------------------------
(* The zones of the building (Zone.swift): rectangles, the nodes in each of  *)
(* them, and the list of zones that each one says it overlaps. They come     *)
(* from a file and never change once they are loaded.                        *)
EXTENDS Integers, FiniteSets

CONSTANTS
    Zone,        \* keys of zoneDict
    extents,     \* per zone: [x, y, width, height]
    nodes,       \* per zone: the coordinates of its nodes
    overlap      \* per zone: the zones in its "overlap" list

ASSUME ZonesAssumption ==
    /\ extents \in [Zone -> [x : Int, y : Int, width : Int, height : Int]]
    /\ \A z \in Zone : overlap[z] \subseteq Zone

(* The four comparisons: the borders belong to the zone.                     *)
Inside(coord, z) ==
    /\ coord[1] \in extents[z].x..(extents[z].x + extents[z].width)
    /\ coord[2] \in extents[z].y..(extents[z].y + extents[z].height)

(* Mutant of FoundFrom: the list of overlapping zones is not used.           *)
FoundInOne(coord, z) == nodes[z]

(* What findZone returns if zone z is the first of zoneDict.values that      *)
(* contains the coordinates: its nodes, and those of the zones on its list   *)
(* that contain them too.                                                    *)
FoundFrom(coord, z) ==
    UNION {nodes[y] : y \in {z} \cup {o \in overlap[z] : Inside(coord, o)}}

(* The values findZone can return. A Swift dictionary has no order of its    *)
(* own, and a different one in every run of the app: any zone may be first.  *)
findZone(coord) ==
    LET containing == {z \in Zone : Inside(coord, z)}
    IN  IF containing = {} THEN {{}} ELSE {FoundFrom(coord, z) : z \in containing}

-----------------------------------------------------------------------------
Containing(coord) == {z \in Zone : Inside(coord, z)}

(* On a border, a step to some side leaves the zone.                         *)
OnABorder(coord) ==
    \E dx, dy \in {-1, 0, 1} :
        ~(Containing(coord) \subseteq Containing(<<coord[1] + dx, coord[2] + dy>>))

(* The nodes of every zone that contains the coordinates.                    *)
NodesAround(coord) == UNION {nodes[z] : z \in Containing(coord)}

(* The places within a zone, column by column and row by row, but for its    *)
(* borders. Zones that share one list each other.                            *)
Columns(z) == (extents[z].x + 1)..(extents[z].x + extents[z].width - 1)
Rows(z) == (extents[z].y + 1)..(extents[z].y + extents[z].height - 1)
OverlapsAreListed ==
    \A z, o \in Zone :
        z # o /\ Columns(z) \cap Columns(o) # {} /\ Rows(z) \cap Rows(o) # {}
            => o \in overlap[z]
=============================================================================
