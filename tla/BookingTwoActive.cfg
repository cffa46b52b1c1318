SPECIFICATION Spec
CONSTANTS
    Clients = {c1}
    Bookings = {b1, b2, b3}
    Units = {u1}
    Parties = {p1, p2, p3}
    Reviews = {"NONE"}
    Operations = {"create", "cancel"}
    MaxPriority = 3
INVARIANT AtMostOneActive
CHECK_DEADLOCK FALSE
