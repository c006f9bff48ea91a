\* One unpaced number, two scenes, one request at a time.
CONSTANTS
    mail = mail
    phone = phone
    c1 = c1
    c2 = c2
    login = login
    bind = bind
    Phone = {phone}
    Paced = {}
    VirtualCode <- Virtual
    Ip = {ip1}
    Scene = {login, bind}
    Code = {c1}
    Mirrors <- TwoMirrors
    Accepts <- LoginOrBind
    Process = {h1}
    TTL = 1
    Window = 1
    IpLimit = 2
    MaxTime = 1
    MaxSends = 1
SPECIFICATION Spec
INVARIANTS
    SingleUse
