CONSTANTS
    QueueSize = 2
    FifoSize = 2
    MaxCommands = 2
    MaxAnswers = 3
SPECIFICATION FairSpec
INVARIANTS
    NoForgotten
    NoAnswerMissed
    WakesForAnswer
    OwnTopic
    Listening
PROPERTIES
    RefinesChannel
    Forwarded
CHECK_DEADLOCK FALSE
