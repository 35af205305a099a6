CONSTANTS
    Clients = {c1, c2}
    Listeners = {l1, l2}
    Talker = c1
    MaxLen = 3
    MaxSend <- Bounds
    MaxFailures = 1
SPECIFICATION FairSpec
INVARIANTS EchoUpToNul ConnectionsKept
PROPERTIES Served Answered
CHECK_DEADLOCK FALSE
