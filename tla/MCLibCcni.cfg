\* Three threads, two of which have the same number, and two broadcasts; any four
\* requests, broadcasts and messages sent unasked.  Any wait may time out, any
\* datagram may be lost, overtaken or duplicated.
SPECIFICATION FairSpec
CONSTANTS
    c1 = c1
    c2 = c2
    c3 = c3
    q1 = q1
    q2 = q2
    b1 = b1
    b2 = b2
    Callers = {c1, c2, c3}
    Seqs = {q1, q2}
    SeqOf <- TwoShare
    Nobody = Nobody
    Broadcasts = {b1, b2}
    Work = 4
INVARIANTS
    TypeOK
    InStep
PROPERTIES
    LagsByLate
    AnswersRead
    LossNoticed
CHECK_DEADLOCK FALSE
