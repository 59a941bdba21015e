CONSTANTS
    c1 = c1
    c2 = c2
    c3 = c3
    Clients = {c1, c2, c3}
    NoClient = NoClient
    Rooms = {1}
    roomCapacity = 3
    Capacity <- MCCapacity
    WatcherCount = 1
    Red = 0
    Modulus = 3
    MaxSeed = 2
    Workers = 1
SPECIFICATION Spec
SYMMETRY Symmetry
INVARIANT LeaveFindsClient
