SPECIFICATION Spec
CONSTANTS
    Person = {p1, p2, p3, p4}
    Ticket = {t1, t2}
    First = 3
    MaxId = 6
    Nobody = Nobody
    NoTicket = NoTicket
    NoId = NoId
SYMMETRY Symmetry
INVARIANT IdNeverReused
