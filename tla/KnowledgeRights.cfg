SPECIFICATION KnowledgeSpec
CONSTANTS
    Archive = {"a", "b", "c"}
    Key = {"k1", "k2"}
    Digest = {"d"}
    Bundle <- Bundles
    NoSource = NoSource
CHECK_DEADLOCK FALSE
INVARIANT RejectedNeverHosted
