SPECIFICATION ApiSpec
CONSTANTS
    Execution = {x1, r1, r2}
    Submits = {x1}
    MaxTries = 1
    Session = {s1}
    Request = {q1, q2}
    Key = {k1, k2}
    Source = {a}
    Nobody = Nobody
    MaxRuns = 1
    MaxSubmits = 1
    Hints = 1
    MaxEvents = 5
SYMMETRY ApiSymmetry
CHECK_DEADLOCK FALSE
INVARIANTS
    WithinBackpressure
    CountedOncePerKey
