SPECIFICATION PruneSpec
CONSTANTS
    k1 = k1
    k2 = k2
    k3 = k3
    k4 = k4
    garbled = garbled
    Keys = {k1, k2, k3, k4}
    Stamps <- Marks
    Nows = {1, 2}
    MaxTrackedStateKeys = 2
    TrackedStateTTL = 1
    Absent = Absent
INVARIANTS PrunedAsPromised EvictsFromFront
SYMMETRY Symmetry
CHECK_DEADLOCK FALSE
