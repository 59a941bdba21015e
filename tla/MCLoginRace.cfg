\* Two peers log in with one name at the same time.
SPECIFICATION Spec
SYMMETRY Symmetry
CONSTANTS
    p1 = p1
    p2 = p2
    p3 = p3
    u1 = u1
    u2 = u2
    NoPeer = NoPeer
    Peers = {p1, p2, p3}
    User <- SharedName
    Roaming = {p3}
    Descriptors = {1, 2}
    Serials = 1
    SecretTimeout = 0
    CleanThreshold = 1
    MaxTime = 1
    MaxJobs = 2
    Repeating = {p3}
INVARIANT SuccessIsKept
CHECK_DEADLOCK FALSE
