CONSTANTS
    Clients = {c1, c2, c3}
    Arguments = {0, 5, 12, 13}
    Data <- Numbers
    Answers <- Ints
    Answer <- Factorials
    NoAnswer = NoAnswer
    NoOne = NoOne
    QLimit = 2
    MayDie = TRUE
SPECIFICATION FairSpec
INVARIANTS OwnAnswer PrintsFactorial
PROPERTY Answered
CHECK_DEADLOCK FALSE
