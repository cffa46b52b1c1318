SPECIFICATION Spec
CONSTANTS
    Clients = {k1, k2}
    Contracts = {a}
    Units = {u1}
    Operations = {"create", "moveUnit", "status"}
PROPERTY StatusFollowsTable
CHECK_DEADLOCK FALSE
