SPECIFICATION Spec
CONSTANTS
    Clients = {k1}
    Contracts = {a}
    Units = {u1}
    Operations = {"create", "moveUnit", "status", "initiate", "checklist", "complete", "cancel"}
PROPERTY OnlyTerminatingEnds
CHECK_DEADLOCK FALSE
