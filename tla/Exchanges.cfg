CONSTANTS
    ByHand = {h1, h2}
    Job = job
    MaxLaunches = 3
    MaxEvents = 2
    Pids = {p1, p2}
    NoPid = none
    Signals = {SIGINT, SIGTERM}
    MaxRuns = 2
    Clients = {c1, c2}
    Size = 3
    Texts <- TwoTexts
    Hello <- ShortHello
    NUL = NUL
    QLimit = 2
    MayDie = TRUE
    NoOne = nobody
    MaxPosts = 2
    MaxFailures = 1
SPECIFICATION MCSpec
INVARIANTS CleanRuns OneServer OnlyWritten Accounted
PROPERTIES CleanupEnds Noticed
CHECK_DEADLOCK FALSE
