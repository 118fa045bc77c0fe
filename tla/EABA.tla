-------------------------------- MODULE EABA --------------------------------
(* The map of the building the app is built with: the nodes of beacon1.json  *)
(* with their connections, in the order of the file, the zones of zone.json, *)
(* and the destinations that the buttons of secondView.swift set.            *)
EXTENDS Integers, Sequences, FiniteSets

LOCAL Class1Front == <<2422, 1520>>
LOCAL Class1Back == <<2629, 244>>
LOCAL N3 == <<2422, 1627>>
LOCAL N4 == <<2679, 1627>>
LOCAL N5 == <<2679, 1803>>
LOCAL N6 == <<2422, 1803>>
LOCAL N7 == <<2422, 1931>>
LOCAL Entrance == <<2430, 2409>>
LOCAL N9 == <<1704, 1931>>
LOCAL N10 == <<1571, 1931>>
LOCAL N11 == <<1427, 1931>>
LOCAL Conf1 == <<1424, 2220>>
LOCAL Conf2 == <<1701, 2220>>
LOCAL N14 == <<1245, 1931>>
LOCAL Men == <<1300, 1993>>
LOCAL Women == <<1130, 1993>>
LOCAL N17 == <<1245, 1797>>
LOCAL N18 == <<1519, 1797>>
LOCAL N19 == <<1519, 1642>>
LOCAL N20 == <<1394, 1642>>
LOCAL Class2 == <<1392, 1576>>

LOCAL Connections == <<
    <<Class1Front, <<N3, Class1Back>>>>,
    <<Class1Back, <<Class1Front>>>>,
    <<N3, <<Class1Front, N4>>>>,
    <<N4, <<N3, N5>>>>,
    <<N5, <<N4, N6>>>>,
    <<N6, <<N5, N7>>>>,
    <<N7, <<N6, N9, Entrance>>>>,
    <<Entrance, <<N7>>>>,
    <<N9, <<Conf2, N10, N7>>>>,
    <<N10, <<N9, N11>>>>,
    <<N11, <<N10, N14, Conf1>>>>,
    <<Conf1, <<N11>>>>,
    <<Conf2, <<N9>>>>,
    <<N14, <<N11, Men, Women, N17>>>>,
    <<Men, <<N14>>>>,
    <<Women, <<N14>>>>,
    <<N17, <<N18, N14>>>>,
    <<N18, <<N17, N19>>>>,
    <<N19, <<N18, N20>>>>,
    <<N20, <<N19, Class2>>>>,
    <<Class2, <<N20>>>> >>

LOCAL Rows == 1..Len(Connections)

(* createNodes: nodeDict and the neighbors of its nodes.                     *)
EABANodes ==
    [n \in {Connections[i][1] : i \in Rows} |->
       Connections[CHOOSE i \in Rows : Connections[i][1] = n][2]]

Destinations ==
    {Class1Front, Class1Back, Entrance, Conf1, Conf2, Men, Women, Class2}

LOCAL Z(x, y, width, height, nodes, overlap) ==
    [extents |-> [x |-> x, y |-> y, width |-> width, height |-> height],
     nodes |-> nodes, overlap |-> overlap]

(* createZones: zoneDict.                                                    *)
EABAZones == <<
    Z(2364, 244, 547, 1333, {Class1Back, Class1Front}, {}),
    Z(2349, 1576, 386, 174, {Class1Front, N3, N4}, {3}),
    Z(2631, 1577, 104, 290, {N4, N5}, {2, 4}),
    Z(2349, 1750, 386, 116, {N6, N5}, {3}),
    Z(2349, 1866, 146, 550, {Entrance, N7}, {6}),
    Z(1572, 1865, 991, 194, {N7, N9, N10}, {5, 8}),
    Z(926, 1865, 646, 129, {Women, Men, N14, N11, N10}, {8}),
    Z(1365, 1865, 404, 356, {Conf1, Conf2, N11, N10, N9}, {7, 6}),
    Z(1365, 2221, 404, 356, {Conf1, Conf2}, {}),
    Z(1122, 1749, 453, 116, {N17, N18}, {11}),
    Z(1470, 1576, 105, 289, {N19, N18}, {10, 12}),
    Z(1215, 1576, 360, 173, {Class2, N20, N19}, {11}) >>

EABAZone == DOMAIN EABAZones
EABAExtents == [z \in EABAZone |-> EABAZones[z].extents]
EABAZoneNodes == [z \in EABAZone |-> EABAZones[z].nodes]
EABAOverlap == [z \in EABAZone |-> EABAZones[z].overlap]

(* Coordinates on the borders of the zones and just after them: every set of *)
(* zones that can lie around a user lies around one of these places.         *)
LOCAL Near(edges) == UNION {{e, e + 1} : e \in edges}
BorderPlaces ==
    Near(UNION {{EABAExtents[z].x, EABAExtents[z].x + EABAExtents[z].width} : z \in EABAZone})
    \X
    Near(UNION {{EABAExtents[z].y, EABAExtents[z].y + EABAExtents[z].height} : z \in EABAZone})
=============================================================================
