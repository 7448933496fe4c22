CONSTANTS
    MaxFaults = 1
    SlowAnswers = FALSE
    NetPreempts = TRUE
    PollMayFail = FALSE
    SubscribeMayFail = FALSE
SPECIFICATION FairSpec
PROPERTIES
    IpIsNoticed
