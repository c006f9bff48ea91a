\* Two accounts, three session rows, four token pairs, three clock values.
CONSTANTS
    User = {u1, u2}
    Session = {s1, s2, s3}
    Token = {t1, t2, t3, t4}
    NoToken = NoToken
    NoRow = NoRow
    Unissued = Unissued
    Dead = Dead
    AccessTTL = 0
    RefreshTTL = 1
    MaxTime = 2
SPECIFICATION Spec
SYMMETRY Symm
INVARIANTS
    TypeOK
    MarksAgree
    RestartAddsNothing
    RetiredStaysDead
PROPERTIES
    ImplementsContract
