SPECIFICATION FairSpec
CONSTANTS
    Runs = {r1, r2}
    NoRun = NoRun
    Events = {e1, e2}
    Limit = 2
    Answers = {"threw"}
    RedisEnabled = TRUE
    MayOverrun = TRUE
INVARIANTS LeaseIsExclusive ProcessedWasCalled
PROPERTY EventuallyProcessed
