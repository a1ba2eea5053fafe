SPECIFICATION ElectionSpec
CONSTANTS
    n1 = n1
    n2 = n2
    n3 = n3
    tip = tip
    Nil = Nil
    Server <- One
    LogTip <- OneTip
    MaxTerm = 1
    MaxElections = 1
    MaxRestarts = 0
    MaxDiskFaults = 0
    StaleReplies = FALSE
CHECK_DEADLOCK FALSE
INVARIANT MajorityLeads
