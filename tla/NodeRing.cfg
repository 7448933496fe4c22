CONSTANTS
    MaxTriggers = 3
    MaxFaults = 2
    MaxAttempts = 2
    Nibble = {0, 2}
SPECIFICATION RingFairSpec
INVARIANTS
    NotStranded
    NeverCut
    AttemptsTrue
    Answered
    RightAnswer
PROPERTIES
    ListensAgain
CHECK_DEADLOCK FALSE
