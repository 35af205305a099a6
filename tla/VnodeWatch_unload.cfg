CONSTANTS
    Clients = {c1}
    Threads = {t1, t2}
    Pids = {1, 255}
    Capacity = 2
    MaxListens = 1
    BigEndian = FALSE
    NoOne = NoOne
    MayDie = TRUE
    MayUnload = TRUE
SPECIFICATION FairWSpec
INVARIANTS NoUseAfterFree NoListenerAfterStop NoListenerAfterExit NoMissedWakeup StopComesLast
PROPERTY UnloadEndsWatch
