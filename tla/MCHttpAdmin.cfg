\* Two clients over the bounded requests of MCHttpAdmin.  The server never
\* stops: an idle client can always send a request, so deadlock is checked.
CONSTANTS
    c1 = c1
    c2 = c2
    NONE = NONE
    Reqs <- MCReqs
    Inputs <- MCInputs
    GoodRules <- MCGoodRules
    KnownItems <- MCKnownItems
    MaxItems = 2
    VERSION = "1.0.0"

SPECIFICATION Spec

INVARIANT ReplyOnce
INVARIANT RequestMemorySound
INVARIANT CodecRoundTrip
PROPERTY AclReplyReflectsRules
