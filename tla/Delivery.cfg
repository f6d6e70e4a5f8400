SPECIFICATION Spec
CONSTANTS
    ExecId = {e1}
    Controller = {c1, c2}
    Operator = {o1, o2}
    Nothing = Nothing
    BatchSize = 2
    Overflow = 1
    MaxMishaps = 2
    Message = {m1, m2}
    About <- OneExecution
    Process = {p1, p2}
    Slots = 1
    MaxReceives = 2
    MaxAttempt = 2
    Execution = {x1, y1}
    Submits = {x1}
    Sql = {x1}
    Worker = {v}
    None = None
    MaxAttempts = 1
    Thread = {t1, t2}
    MaxFaults = 1
    TestId = {1, 2, 3}
    Alien = 9
    Item = {1, 2}
    MaxItems = 2
    Columns <- ColumnLists
    Question <- SmallQuestions
    MaxTests <- RunnerLimits
    MaxResultTests = 2
    MaxReport = 2
    Text = {"a", "b"}
    StarterText = "starter"
    WsSession = {1}
    NoWs = 0
    MaxKeys = 2
    MaxNet = 2
    Budget <- Budgets
    MobileText = {"a"}
    MobileStarter = "starter"
    EmptyText = "empty"
    TickEvery = 2
    LocalAfter = 1
    ServerAfter = 3
    Openings = 2
    Allowance <- MobileAllowances
CHECK_DEADLOCK FALSE
INVARIANTS
    ClaimedStaysDue
    UnhandledStaysQueued
    ObservesNewestRequest
    RunsAtMostOnce
    SourceNeverMeetsEgress
    VerdictIsEarned
    HiddenStaysHidden
    
PROPERTIES
    DiscardIsSafe
    RequestIsTaken
    KeepsInlinePromise
    ConvergesUndisturbed
    DraftCatchesUp
    DeviceCatchesUp
