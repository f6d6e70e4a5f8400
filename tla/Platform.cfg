SPECIFICATION Spec
CONSTANTS
    Version = {"v1", "va"}
    Attachment = {"va"}
    Package = {"p1", "p2"}
    Imported = {"i1"}
    Reviewer = {"bob", "cy", "dee"}
    PackageAuthor = "content-author"
    ImportActor = "attachment-importer"
    HasRole <- Roles
    PublishKey = {"k"}
    LocalVersion = {"v1"}
    LocalTechnical = "cy"
    LocalEditorial = "dee"
    LocalKey = "local"
    Nobody = Nobody
    MaxSyncs = 2
    MaxAssigns = 3
    Import = {"m1", "m2"}
    Upload <- Uploads
    Elsewhere = "x"
    Url = {"u1", "u2"}
    BadUrl = "bad"
    Collector = {"c1", "c2"}
    Found <- Finds
    SyncLimit = 1
    Hosted = 3
    MaxReviews = 3
    Archive = {"a", "b", "c"}
    Key = {"k1", "k2"}
    Digest = {"d"}
    Bundle <- Bundles
    NoSource = NoSource
    Batch = {"b1", "b2", "b3"}
    RowsOf <- CorpusRows
    Quarantined = {"b3"}
    RowId = {"q1", "q2", "q3", "q4", "q5"}
    Chunk = {1, 2}
    Runner = {"r1", "r2"}
    NoBatch = NoBatch
    Subject = {"ann", "dev"}
    LocalSubject = {"dev"}
    AnyRole = {"candidate", "publisher"}
    Request = {"q1"}
    MaxVersion = 3
    Template <- Templates
    CreateKey = {"k1", "k2"}
    AnswerKey = {"a", "b", "c", "d"}
    Session = {"s1", "s2"}
    RubricScore <- Scores
    NoSession = NoSession
    ArenaVersion = {"w1", "w2"}
    Difficulty <- Difficulties
    ArenaKey = {"g1", "g2"}
    ArenaPrompt = {400}
    ArenaCode = {"c", "f"}
    ArenaSubmission = {"s1", "s2"}
    Grade <- Grades
    ArenaThread = {"t1", "t2"}
    GenerationLimit = 1
    MaxHours = 1
    NoArena = NoArena
    Source = {"a", "b", "i"}
    ApiSource = {"i"}
    Competency = {"p", "q"}
    Measures <- Measured
    Writer = {"w1", "w2"}
    NoEvidence = NoEvidence
    DiffLine <- Lines
    Finding <- Findings
    Severity = {"blocker", "major"}
    StudySession = {"s"}
    MessageKey = {"m"}
    EventKey <- EventKeys
    Reply = {"r", "f"}
    Problem = {"p"}
    ActivityKey = {"k"}
    Note = {"n"}
    NoStudy = NoStudy
    MaxComments = 2
    MaxActivity = 3
CHECK_DEADLOCK FALSE
INVARIANTS
    CurrentIsPublished
    ApprovedByTwo
    RolledBackLeavesNothing
    HostedWasLicensed
    ResumesAsUninterrupted
    ReportCoversInterview
    RatingIsEarned
    OnlyOverlapIsMissed
    StudyRecordsAgree
PROPERTIES
    PublishedIsImmutable
    OwnFindsStayAvailable
    DatabaseIsAuthoritative
