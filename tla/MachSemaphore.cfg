CONSTANTS
    Threads = {t1, t2, t3, t4}
    Last = t4
SPECIFICATION FairSpec
INVARIANTS OthersAfterLast
PROPERTY ExitsUnlessLost
CHECK_DEADLOCK FALSE
