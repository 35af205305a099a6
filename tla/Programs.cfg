CONSTANTS
    Threads = {t1, t2}
    Values = {v0, v1}
    Initial = v0
    Unknown = unset
    AllTasks = {"self", "t1", "t2", "t3"}
    Self = "self"
    TaskProcesses = {"self", "t2", "t3"}
    CarbonProcesses = {"t2", "t3"}
    MaxThreads = 2
    PageSize = 4096
    RedZone = 224
    GuestArgument = 10
    Exceptions = {"EXC_BAD_ACCESS", "EXC_BAD_INSTRUCTION"}
    Expected = "EXC_BAD_INSTRUCTION"
    Originals = {4096, 33554428, 33554432, 67108864, 134217728}
    News = {8192, 33554432}
    EventArguments <- ThreeLists
    FSE_MAX_ARGS = 3
    MaxEvents = 2
    MaxReads = 2
    Libraries <- SmallLibraries
    MAX_SEGMENTS = 3
    Files = {"f1", "f2"}
    MaxOptions = 2
    MaxUpdates = 3
    Clients = {"c1", "c2", "c3"}
    Arguments <- ThirdDiffers
    Undefined = {0, 7}
    Processes = {"p1", "p2", "p3", "p4"}
    SemaphoreValues = {1}
    Strings <- OneLetterEach
    NoName = "none"
    Kinds = {"NOTE_WRITE", "NOTE_RENAME", "NOTE_DELETE"}
    LastOnes = {"NOTE_DELETE"}
    MAXTHREADS = 4
    Behind <- NothingOrMain
SPECIFICATION MCSpec
INVARIANTS Reports GuestComputes RepairedBeforeReply Reroutes MapsTheLibrary ReservationHolds RightBeforeUse SharedSum HandlesOutliveNames OneAfterTheOther OwnCopies
PROPERTIES VictimGoesOn AtomicStoreSpec
CHECK_DEADLOCK FALSE
