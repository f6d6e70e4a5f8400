SPECIFICATION Spec
CONSTANTS
    Execution = {e1}
    Submits = {e1}
    Worker = {w1, w2}
    None = None
    MaxAttempts = 2
    PodLog = {"COMPLETED", "TIMEOUT", "rejected", "garbled", "empty"}
    MaxFaults = 1
SYMMETRY WorkerSymmetry
CHECK_DEADLOCK FALSE
INVARIANTS
    TypeOK
    ResultOfCurrentAttempt
    GradedWithResult
    ActiveIsLeased
    PersistIsLegal
PROPERTIES
    TerminalIsFinal
    KeepsOutcomePromise
