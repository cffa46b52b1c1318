SPECIFICATION FairSpec
CONSTANTS
    Clients = {k1, k2}
    Contracts = {a}
    Units = {u1}
    Operations = {"create", "moveUnit", "update", "status", "amend", "expiryJob", "initiate", "checklist", "complete", "cancel"}
INVARIANT ActivatedIsBilled
PROPERTY ExpiredLeavesForce
CHECK_DEADLOCK FALSE
