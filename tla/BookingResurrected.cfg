SPECIFICATION Spec
CONSTANTS
    Clients = {c1, c2}
    Bookings = {b1}
    Units = {u1}
    Parties = {p1}
    Reviews = {"NONE"}
    Operations = {"create", "cancel", "convert"}
    MaxPriority = 2
PROPERTY TerminalStatusesAreFinal
CHECK_DEADLOCK FALSE
