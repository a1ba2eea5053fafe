SPECIFICATION WebSpec
CONSTANTS
    N = 5
    NoNode = NoNode
    NoSide = NoSide
    Side <- LabSide
    MaxClicks = 5
    Browser = {b1}
    Address = {"/logs"}
    GlobalEvents = TRUE
    MaxVisits = 3
    MaxFaults = 2
    NoError = NoError
    MaxEvents = 5
    Unknown = Unknown
    None = None
    MaxSlides = 3
    MaxInputs = 5
    NoApi = NoApi
    NoFlags = NoFlags
CHECK_DEADLOCK FALSE
INVARIANTS LabTypeOK OneLeaderShown StatusTold TimelineTrue PictureTrue AnswerFits EntryLoadedOnce ErrorsLoggedOnce LayoutFits ButtonsTrue PollsOfPage
PROPERTIES SuccessionSpec DrillEnds RequestsAnswered ShortcutToggles
