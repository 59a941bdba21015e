\* The line breaks at any moment.
SPECIFICATION FairSpec
CONSTANTS
    NoListener = NoListener
    l1 = l1
    l2 = l2
    n1 = n1
    n2 = n2
    Header = 2
    Body = 1
    Listeners = {l1, l2}
    Segments <- Whole
    Requests = 1
    Malformed = {}
    AnswerLen = 2
    Notes = {n1}
    NoteLen = 2
    OutCap = 1
    MaxJobs = 1
PROPERTY
    BreakCaught
CHECK_DEADLOCK FALSE
