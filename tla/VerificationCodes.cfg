\* One paced number, one scene besides its mirror, two requests at once.
CONSTANTS
    mail = mail
    phone = phone
    c1 = c1
    c2 = c2
    login = login
    bind = bind
    Phone = {mail}
    Paced = {mail}
    VirtualCode <- Virtual
    Ip = {ip1}
    Scene = {login}
    Code = {c1, c2}
    Mirrors <- OneMirror
    Accepts <- OnlyLogin
    Process = {h1, h2}
    TTL = 1
    Window = 1
    IpLimit = 2
    MaxTime = 4
    MaxSends = 2
SPECIFICATION Spec
SYMMETRY Symm
INVARIANTS
    TypeOK
    RowUsedOnce
    DeliveredOnly
    PacedApart
PROPERTIES
    SupersededRefused
    ExpiredRefused
