SPECIFICATION Spec
CONSTANTS
    Iterations = 2
    MaxTests = 2
    MaxAnswers = 2
    MaxAfter = 1
    MaxToggles = 2
    MaxStops = 1
INVARIANTS
    
    ThreadsLive
CHECK_DEADLOCK FALSE
