SPECIFICATION Spec
CONSTANTS
    Clients = {c1, c2}
    Bookings = {b1, b2}
    Units = {u1, u2}
    Parties = {p1, p2}
    Reviews = {"NONE"}
    Operations = {"create", "reinstate", "extend", "cancel", "softDelete", "convert", "expire", "contractFromProposal", "endContract"}
    MaxPriority = 2
SYMMETRY Symmetry
PROPERTY DeskIsKept
CHECK_DEADLOCK FALSE
