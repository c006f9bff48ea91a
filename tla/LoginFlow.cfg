SPECIFICATION Spec
CONSTANTS
    Account = {a1, a2}
    Phone = {p1, p2}
    Req = {r1, r2}
    NoAccount = NoAccount
    NoPhone = NoPhone
SYMMETRY Symmetry
INVARIANTS
    TypeOK
    ClosedUnlessRaced
    ProtectedUnlessRaced
    KeptUnlessRaced
CHECK_DEADLOCK FALSE
