SPECIFICATION Spec
CONSTANTS
    Account = {a1, a2}
    Phone = {p1}
    Req = {r1, r2}
    NoAccount = NoAccount
    NoPhone = NoPhone
SYMMETRY Symmetry
INVARIANT FirstPasswordOnly
CHECK_DEADLOCK FALSE
