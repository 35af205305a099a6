CONSTANTS
    Clients = {c1, c2}
    Threads = {t1}
    Pids = {1}
    Capacity = 1
    MaxListens = 1
    BigEndian = TRUE
    NoOne = NoOne
    MayDie = TRUE
    MayUnload = FALSE
SPECIFICATION WSpec
INVARIANT OneClientListening
