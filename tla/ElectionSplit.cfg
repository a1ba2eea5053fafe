SPECIFICATION ElectionSpec
CONSTANTS
    n1 = n1
    n2 = n2
    n3 = n3
    tip = tip
    Nil = Nil
    Server <- Three
    LogTip <- OneTip
    MaxTerm = 2
    MaxElections = 3
    MaxRestarts = 0
    MaxDiskFaults = 0
    StaleReplies = TRUE
SYMMETRY ServerSymmetry
CHECK_DEADLOCK FALSE
INVARIANT ElectionSafety
