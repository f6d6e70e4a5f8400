SPECIFICATION FairVercelSpec
CONSTANTS
    Execution = {x1}
    Submits = {x1}
    Sql = {x1}
    Worker = {v}
    None = None
    MaxAttempts = 1
    Thread = {t1}
    MaxFaults = 1
PROPERTY ExecutionConverges
