SPECIFICATION FairApiSpec
CONSTANTS
    Execution = {x1, x2}
    Submits = {x1, x2}
    MaxTries = 1
    Session = {s1, s2}
    Request = {q1, q2}
    Key = {k1, k2}
    Source = {a}
    Nobody = Nobody
    MaxRuns = 1
    MaxSubmits = 1
    Hints = 0
    MaxEvents = 4
CHECK_DEADLOCK FALSE
INVARIANT SessionsAgree
PROPERTY SubmissionsSettle
