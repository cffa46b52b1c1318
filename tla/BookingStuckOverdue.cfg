SPECIFICATION FairSpec
CONSTANTS
    Clients = {c1}
    Bookings = {b1, b2, b3}
    Units = {u1}
    Parties = {p1, p2, p3}
    Reviews = {"NONE"}
    Operations = {"create", "expire"}
    MaxPriority = 3
PROPERTY OverdueLeavesQueue
CHECK_DEADLOCK FALSE
