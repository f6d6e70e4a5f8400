SPECIFICATION FairSpec
CONSTANTS
    Execution = {e1}
    Submits = {e1}
    Worker = {w1, w2}
    None = None
    MaxAttempts = 1
    PodLog = {"COMPLETED"}
    MaxFaults = 1
CHECK_DEADLOCK FALSE
PROPERTY EveryExecutionFinishes
