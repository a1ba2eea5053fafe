SPECIFICATION LeadersSpec
CONSTANTS
    n1 = n1
    n2 = n2
    n3 = n3
    Nil = Nil
    Server <- Three
    LogTip <- Tips
    Command = {"x"}
    MaxTerm = 3
    MaxElections = 3
    MaxRestarts = 1
    MaxDiskFaults = 0
    MaxLog = 2
    MaxInFlight = 2
    MaxLosses = 2
    StaleReplies = FALSE
SYMMETRY ServerSymmetry
CHECK_DEADLOCK FALSE
VIEW NoDiskEither
ACTION_CONSTRAINT Bounded
INVARIANTS ElectionTypeOK VoteOnce GrantDurable LeaderBacked MajorityLeads
INVARIANTS LogMatching LeaderCompleteness StateMachineSafety CommitOnMajority MatchSound
PROPERTIES TermMonotone OneLog CommitMonotone
