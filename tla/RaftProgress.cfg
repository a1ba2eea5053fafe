SPECIFICATION FairTwoLeadersSpec
CONSTANTS
    n1 = n1
    n2 = n2
    n3 = n3
    Nil = Nil
    Server <- Three
    LogTip <- Tips
    Command = {"x"}
    MaxTerm = 2
    MaxElections = 2
    MaxRestarts = 0
    MaxDiskFaults = 0
    MaxLog = 2
    MaxInFlight = 1
    MaxLosses = 1
    StaleReplies = TRUE
CHECK_DEADLOCK FALSE
PROPERTY OwnEntriesApplied
