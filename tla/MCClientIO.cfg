\* Two epoll threads, three requests of which the last is none the server
\* understands, two notifications, a socket that fills up.
SPECIFICATION Spec
CONSTANTS
    NoListener = NoListener
    l1 = l1
    l2 = l2
    n1 = n1
    n2 = n2
    Header = 2
    Body = 1
    Listeners = {l1, l2}
    Segments <- Whole
    Requests = 3
    Malformed = {3}
    AnswerLen = 2
    Notes = {n1, n2}
    NoteLen = 2
    OutCap = 3
    MaxJobs = 2
INVARIANTS
    TypeOK
    NeverMixed
    NotesInOrder
    AnswersInOrder
    Attended
SYMMETRY Symmetry
CHECK_DEADLOCK FALSE
