SPECIFICATION DeposedSpec
CONSTANTS
    n1 = n1
    n2 = n2
    n3 = n3
    n4 = n4
    n5 = n5
    Nil = Nil
    Server <- Five
    LogTip <- Tips
    Command = {"x"}
    MaxTerm = 3
    MaxElections = 3
    MaxRestarts = 0
    MaxDiskFaults = 0
    MaxLog = 2
    MaxInFlight = 2
    MaxLosses = 0
    StaleReplies = TRUE
CHECK_DEADLOCK FALSE
INVARIANT CommitOnMajority
