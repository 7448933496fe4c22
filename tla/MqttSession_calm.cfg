CONSTANTS
    MaxFaults = 3
    SlowAnswers = FALSE
    NetPreempts = FALSE
    PollMayFail = FALSE
    SubscribeMayFail = FALSE
SPECIFICATION FairSpec
INVARIANTS
    SessionServed
    LossIsNoticed
    NoAttemptInSession
    NoIllegalTransition
PROPERTIES
    Recovers
