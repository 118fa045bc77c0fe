CONSTANTS
    Headings <- MCHeadings
    Beacon <- MCBeacon
    Known <- MCKnown
    Position <- MCPosition
    MaxListed = 4
    Spot <- MCSpot
    Node <- MCNode
SPECIFICATION GuidanceSpec
INVARIANTS FacesTheNodeAhead FacesTheNextNode CommonToTheCircles ToldFromTheNearest
CHECK_DEADLOCK FALSE
