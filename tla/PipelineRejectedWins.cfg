SPECIFICATION Spec
CONSTANTS
    Clients = {k1}
    Proposals = {p}
    Units = {u}
    MaxSteps = 1
    Operations = {"reject"}
PROPERTIES RejectedIsFinal
CHECK_DEADLOCK FALSE
