\* Three chunks each way: one early, one copied, one still to come.  A
\* connection ends, so the system does stop.
CONSTANTS
    MaxChunks = 3
SPECIFICATION FairSpec
CHECK_DEADLOCK FALSE
INVARIANTS
    TypeOK
    Faithful
    NotCutShort
PROPERTIES
    Released
