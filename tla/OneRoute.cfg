\* One scanner and three beacons, enough for a location. A trap ends the app.
CONSTANTS
    b1 = b1  b2 = b2  b3 = b3  r1 = r1  r2 = r2
    Beacon = {b1, b2, b3}
    Route = {r1}
    Delayed = {r1}
    MaxEntries = 4
    MaxLate = 0
SPECIFICATION Spec
SYMMETRY Beacons
INVARIANTS EntriesCoverSeen LoseNeverTraps UpdateTrapsOnlyByOverlap
    CachedBeaconsCanBeLost ReadingsReachTheirBeacon
CHECK_DEADLOCK FALSE
