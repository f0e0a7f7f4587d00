SPECIFICATION Spec
CONSTANTS
    s1 = s1
    r1 = r1
    r2 = r2
    Sender = {s1}
    Reader = {r1}
    Post <- AllPosts
    Ask = {"list", "span", "log", "reset", "bad id"}
    MaxTries = 2
    MaxPieces = 1
    Verbose = TRUE
    None = None
    Enabled = {"grpc", "http"}
INVARIANTS
    TypeOK
    StoredAsAnswered
    RetryKeepsSpansOnce
    StopCutsNothing
    ServerInv
PROPERTIES
    LockedWhileWriting
\* The process may have ended.
CHECK_DEADLOCK FALSE
