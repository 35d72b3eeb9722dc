CONSTANTS
    k1 = k1
    k2 = k2
    k3 = k3
    k4 = k4
    Keys <- MCKeys
    EVICT_SCAN <- MCEvictScan
    MaxPins <- MCMaxPins
    Registered <- MCRegistered
    Names <- MCNames
    NULL = NULL

SYMMETRY KeySymmetry

SPECIFICATION Spec

PROPERTY PinnedNotEvicted
