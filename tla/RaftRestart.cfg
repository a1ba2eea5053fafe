SPECIFICATION RaftSpec
CONSTANTS
    n1 = n1
    n2 = n2
    n3 = n3
    Nil = Nil
    Server <- Three
    LogTip <- Tips
    Command = {"x"}
    MaxTerm = 2
    MaxElections = 2
    MaxRestarts = 1
    MaxDiskFaults = 0
    MaxLog = 1
    MaxInFlight = 1
    MaxLosses = 0
    StaleReplies = FALSE
SYMMETRY ServerSymmetry
CHECK_DEADLOCK FALSE
VIEW NoHistory
ACTION_CONSTRAINT Prompt
INVARIANTS RaftTypeOK EntriesOfSavedTerms ElectionSafety
PROPERTIES ElectionSpec RolesSpec
