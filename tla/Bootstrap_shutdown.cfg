CONSTANTS
    ByHand = {h1}
    Job = job
    MaxLaunches = 1
    MaxEvents = 2
SPECIFICATION FairSpec
PROPERTIES ShutdownDestroys
CHECK_DEADLOCK FALSE
