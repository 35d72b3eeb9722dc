CONSTANTS
    r1 = r1
    r2 = r2
    k1 = k1
    k2 = k2
    d1 = d1
    d2 = d2
    Reqs <- MCReqs
    Keys <- MCOneKey
    Data <- MCData
    Lens = {1}
    BufLen = 1
    CacheCap = 1
    DriverFailures = FALSE
    NONE = NONE

SPECIFICATION Spec

INVARIANT WriteStatusReflectsOrigin
