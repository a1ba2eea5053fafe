SPECIFICATION ConsoleSpec
CONSTANTS
    Server = {1, 2}
    Term = {1, 2}
    Opened <- AllPanels
    Key <- Keys
    Value <- Values
    MaxOps = 2
    NoEnv = NoEnv
    NoAddress = NoAddress
    NoLeader = NoLeader
    Failed = Failed
    NoInfo = NoInfo
    NoPoll = NoPoll
    NoStatus = NoStatus
    NoResult = NoResult
    NoReply = NoReply
CHECK_DEADLOCK FALSE
INVARIANT SetAcknowledged
