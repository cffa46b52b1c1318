SPECIFICATION Spec
CONSTANTS
    Runs = {r1}
    NoRun = NoRun
    Events = {e1}
    Limit = 1
    Answers = {"done", "threw"}
    RedisEnabled = TRUE
    MayOverrun = FALSE
INVARIANT ProcessedWasHandled
