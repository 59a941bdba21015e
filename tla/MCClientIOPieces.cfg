\* A request that arrives in pieces.
SPECIFICATION Spec
CONSTANTS
    NoListener = NoListener
    l1 = l1
    l2 = l2
    n1 = n1
    n2 = n2
    Header = 2
    Body = 1
    Listeners = {l1}
    Segments <- Pieces
    Requests = 1
    Malformed = {}
    AnswerLen = 2
    Notes = {}
    NoteLen = 2
    OutCap = 3
    MaxJobs = 1
INVARIANT
    KeepsLine
CHECK_DEADLOCK FALSE
