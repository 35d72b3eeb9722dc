\* Two clients over the bounded requests of MCHttpAdmin: a body that fails
\* to decode after a string was decoded leaves the string allocated.
CONSTANTS
    c1 = c1
    c2 = c2
    NONE = NONE
    Reqs <- MCReqs
    Inputs <- MCInputs
    GoodRules <- MCGoodRules
    KnownItems <- MCKnownItems
    MaxItems = 2
    VERSION = "1.0.0"

SPECIFICATION Spec

INVARIANT DecodeFailureFreesAll
