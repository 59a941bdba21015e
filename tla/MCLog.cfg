\* Two threads that print, two runs of the server, one file that cannot be opened.
SPECIFICATION Spec
CONSTANTS
    Threads = {t1, t2}
    FileSize = 2
    MaxRecords = 3
    MaxRuns = 2
    MaxFailures = 1
INVARIANT TypeOK
INVARIANT InOrder
INVARIANT AtMostOneLost
INVARIANT SizeBound
PROPERTY WrittenSoon
PROPERTY ExitEnds
CHECK_DEADLOCK FALSE
