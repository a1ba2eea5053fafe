SPECIFICATION ElectionSpec
CONSTANTS
    n1 = n1
    n2 = n2
    n3 = n3
    tip = tip
    Nil = Nil
    Server <- Three
    LogTip <- OneTip
    MaxTerm = 2
    MaxElections = 2
    MaxRestarts = 1
    MaxDiskFaults = 1
    StaleReplies = TRUE
SYMMETRY ServerSymmetry
CHECK_DEADLOCK FALSE
INVARIANT VoteOnce
