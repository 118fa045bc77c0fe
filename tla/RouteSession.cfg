\* A killed app and one whose routes are all used have no next step.
CONSTANTS
    MaxRoutes <- MCMaxRoutes
    MaxPending <- MCMaxPending
    MaxDescriptors <- MCMaxDescriptors
    Distances <- MCDistances
    Delayed <- MCDelayed
SPECIFICATION FairSpec
INVARIANTS OwnClient OwnDestination BaselineOfTheRoute LevelIsADigit SignalOnlyAfterTheEnd DescriptorsLast
PROPERTIES LeftRoutesFallSilent
CHECK_DEADLOCK FALSE
