CONSTANTS
    Senders = {s1, s2}
    Receivers = {r1, r2, r3}
    Backlog = 2
    MayDie = TRUE
    Nobody = Nobody
SPECIFICATION FairSpec
INVARIANTS Delivery
PROPERTIES ReceiverEnds
CHECK_DEADLOCK FALSE
