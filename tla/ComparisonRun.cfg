SPECIFICATION ComparisonSpec
CONSTANTS
    TestId = {1, 2, 3}
    Alien = 9
    Item = {1, 2}
    MaxItems = 2
    Columns <- ColumnLists
    Question <- SmallQuestions
    MaxTests <- RunnerLimits
    MaxResultTests = 2
    MaxReport = 0
CHECK_DEADLOCK FALSE
INVARIANT HonestRunCounts
