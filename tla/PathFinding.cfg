CONSTANTS
    Maps <- MCMaps
    Places <- MCPlaces
    Goals <- MCGoals
    FindZone <- MCFindZone
SPECIFICATION FairSpec
INVARIANTS VisitedCoversDirty ParentsAreCheaper AnswerIsARoute
    ZoneRouteIsFound NodeRouteAvoidsLastZone
PROPERTIES FindPathReturnsAtLast
