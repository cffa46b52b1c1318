SPECIFICATION Spec
CONSTANTS
    Clients = {k1}
    Proposals = {p}
    Units = {u}
    MaxSteps = 1
    Operations = {}
PROPERTIES ConvertedIsFinal
CHECK_DEADLOCK FALSE
