\* Three peers, two of them with one name, and two descriptors.
SPECIFICATION Spec
SYMMETRY Symmetry
CONSTANTS
    p1 = p1
    p2 = p2
    p3 = p3
    u1 = u1
    u2 = u2
    NoPeer = NoPeer
    Peers = {p1, p2, p3}
    User <- SharedName
    Roaming = {p3}
    Descriptors = {1, 2}
    Serials = 1
    SecretTimeout = 0
    CleanThreshold = 1
    MaxTime = 1
    MaxJobs = 2
    Repeating = {p3}
INVARIANTS
    TypeOK
    ListAgrees
    OwnDescriptor
PROPERTY KeysInTime
CHECK_DEADLOCK FALSE
