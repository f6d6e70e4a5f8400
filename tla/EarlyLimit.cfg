SPECIFICATION Spec
CONSTANTS
    Execution = {e1}
    Submits = {e1}
    Worker = {w1, w2}
    None = None
    MaxAttempts = 2
    PodLog = {"COMPLETED","garbled"}
    MaxFaults = 1
SYMMETRY WorkerSymmetry
CHECK_DEADLOCK FALSE
INVARIANT FailsOnlyAtAttemptLimit
