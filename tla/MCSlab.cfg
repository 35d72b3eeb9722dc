CONSTANTS
    OBJECTS <- MCObjects
    BITS_OF_UL <- MCBits
    ReserveConcurrent = FALSE
    NULL = NULL

SPECIFICATION Spec

INVARIANT TypeOK
INVARIANT SlabBitmapMatchesOwners
PROPERTY SlabImplementsPool
