SPECIFICATION Spec
CONSTANTS
    Clients = {k1}
    Contracts = {a, b}
    Units = {u1, u2}
    Operations = {"create", "moveUnit", "update", "status", "amend", "expiryJob", "initiate", "checklist", "complete"}
SYMMETRY Symmetry
INVARIANT CompletedMeansTerminated
PROPERTY BookSpec
CHECK_DEADLOCK FALSE
