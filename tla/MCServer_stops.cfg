SPECIFICATION FairSpec
CONSTANTS
    s1 = s1
    r1 = r1
    r2 = r2
    Sender = {s1}
    Reader = {r1, r2}
    Post <- BadPost
    Ask = {"list", "span"}
    MaxTries = 1
    MaxPieces = 1
    Verbose = FALSE
    None = None
    Enabled = {"http"}
PROPERTIES
    HandlersEnd
    StopEnds
\* The process may have ended.
CHECK_DEADLOCK FALSE
