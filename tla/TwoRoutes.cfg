\* Two scanners that share the list, and the beacon both of them know.
CONSTANTS
    b1 = b1  b2 = b2  b3 = b3  r1 = r1  r2 = r2
    Beacon = {b1}
    Route = {r1, r2}
    Delayed = {r1}
    MaxEntries = 3
    MaxLate = 1
SPECIFICATION FairSpec
INVARIANTS ExactTracking OneDistancePerBeacon LostMeansSilent SharedBeaconsPreventTheTrap
PROPERTIES StoppedScannersForget
CHECK_DEADLOCK FALSE
