\* Two workers and four jobs; any wait may end without a signal.
SPECIFICATION FairSpec
CONSTANTS
    Workers = {w1, w2}
    NoWorker = NoWorker
    Jobs = {j1, j2, j3, j4}
    NoJob = NoJob
    Spurious = TRUE
INVARIANTS
    TypeOK
    NoLostWakeup
    WorkersOnce
PROPERTY
    RunsEachOnce
    Served
CHECK_DEADLOCK FALSE
