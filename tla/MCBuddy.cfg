CONSTANTS
    NMEMB <- MCNMEMB
    Requests <- MCRequests
    NULL = NULL

SPECIFICATION Spec

INVARIANT TypeOK
INVARIANT BuddyInuseAccounting
INVARIANT BuddyMetaExact
 
