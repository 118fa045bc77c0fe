CONSTANTS
    Half <- MCHalf
    RSSI <- MCRSSI
SPECIFICATION Spec
INVARIANTS WeakReadingLeaves
PROPERTIES MeasurementIsSound ImplementsQueue
