CONSTANTS
    Maps <- MCMaps
    Places <- SomePlaces
    Goals <- Destinations
    FindZone <- MCFindZone
    Zone <- EABAZone
    extents <- EABAExtents
    nodes <- EABAZoneNodes
    overlap <- EABAOverlap
SPECIFICATION Spec
INVARIANTS NodeRouteIsFound
