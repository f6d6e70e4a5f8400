SPECIFICATION FairSpec
CONSTANTS
    Execution = {e1}
    Submits = {}
    Worker = {w1}
    None = None
    MaxAttempts = 2
    PodLog = {"COMPLETED", "garbled"}
    MaxFaults = 2
CHECK_DEADLOCK FALSE
PROPERTIES EveryExecutionFinishes FinishedIsForgotten
