SPECIFICATION Spec
CONSTANTS
    Clients = {k1}
    Contracts = {a, b}
    Units = {u1}
    Operations = {"create", "moveUnit", "status", "initiate", "cancel"}
INVARIANT OneLiveContractPerUnit
CHECK_DEADLOCK FALSE
