SPECIFICATION Spec
CONSTANTS
    Clients = {k1, k2}
    Proposals = {p, q}
    Units = {u}
    MaxSteps = 1
    Operations = {"update", "reject", "convert", "direct", "book", "endLease"}
SYMMETRY Symmetry
INVARIANT OneContractPerUnit
CHECK_DEADLOCK FALSE
