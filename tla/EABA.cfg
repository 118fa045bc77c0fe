CONSTANTS
    Maps <- MCMaps
    Places <- MCPlaces
    Goals <- Destinations
    FindZone <- MCFindZone
    Zone <- EABAZone
    extents <- EABAExtents
    nodes <- EABAZoneNodes
    overlap <- EABAOverlap
SPECIFICATION Spec
INVARIANTS FindsEveryZoneOffBorders EveryPlaceHasARoute PathIsOptimal
    DistanceIsThatOfThePath PopsTheLeast
