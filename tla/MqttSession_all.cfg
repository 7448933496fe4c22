CONSTANTS
    MaxFaults = 2
    SlowAnswers = TRUE
    NetPreempts = TRUE
    PollMayFail = TRUE
    SubscribeMayFail = TRUE
SPECIFICATION Spec
INVARIANTS
    TypeOK
    SubscribeWorkInv
    KeepsTrying
