CONSTANTS
    User = {u1, u2}
    Phone = {p1, p2}
    Email = {e1, e2}
    None = None
    Handler = {h1, h2}
    Nobody = Nobody
    MaxTime = 1
SPECIFICATION Spec
SYMMETRY Symm
INVARIANTS
    TypeOK
    OneAccountPerName
PROPERTIES
    UnbindKeepsVerified
    ImplementsDirectory
\* Every id may be used up and every account deleted for good: then nothing moves.
CHECK_DEADLOCK FALSE
