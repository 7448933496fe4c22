CONSTANTS
    MaxFaults = 1
    SlowAnswers = TRUE
    NetPreempts = FALSE
    PollMayFail = FALSE
    SubscribeMayFail = FALSE
SPECIFICATION Spec
INVARIANTS
    NoIllegalTransition
