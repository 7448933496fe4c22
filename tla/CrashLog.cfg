CONSTANTS
    MaxCrashes = 2
SPECIFICATION Spec
INVARIANTS
    FatalReported
