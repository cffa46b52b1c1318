SPECIFICATION Spec
CONSTANTS
    Clients = {k1, k2, k3}
    Proposals = {p, q}
    Units = {u}
    MaxSteps = 2
    Operations = {"reject", "convert", "book", "endLease"}
SYMMETRY Symmetry
INVARIANTS VerdictIsOfTheSteps ContractIsApproved ContractHoldsUnit
CHECK_DEADLOCK FALSE
