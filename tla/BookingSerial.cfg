SPECIFICATION Spec
CONSTANTS
    Clients = {c1}
    Bookings = {b1, b2}
    Units = {u1, u2}
    Parties = {p1, p2}
    Reviews = {"NONE", "PENDING"}
    Operations = {"create", "price", "update", "updatePriority", "reinstate", "cancel", "convert", "expire", "setStatus", "contractFromProposal", "createContract", "endContract"}
    MaxPriority = 2
SYMMETRY Symmetry
INVARIANT LiveContractHoldsUnit
CHECK_DEADLOCK FALSE
