SPECIFICATION ProgressSpec
CONSTANTS
    Billers = {job, clerk}
    Cron = job
    LastMonth = 2
    Cycles = {1}
    Rents = {1}
    Amendable = {"end"}
    MaxAmendments = 1
    MaxFailures = 1
    KeptApart = {}
    Clients = {k1}
    Proposals = {p, q}
    Units = {u}
    MaxSteps = 1
    Operations = {"convert", "book"}
PROPERTIES OwedMonthIsBilled RejectionArrives ApprovalBecomesContract
CHECK_DEADLOCK FALSE
