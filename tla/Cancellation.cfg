\* Two accounts that a pass takes one at a time, two game servers, one request
\* at a time, one fault, and no symmetry: DueEnds is a liveness property.
CONSTANTS
    User = {1, 2}
    Booi = {b1, b2}
    Handler = {h1}
    CoolingOff = 2
    Limit = 1
    MaxTime = 3
    MaxFaults = 1
SPECIFICATION FairSpec
INVARIANTS
    TypeOK
    RolesReleased
PROPERTIES
    CoolingOffServed
    DueEnds
