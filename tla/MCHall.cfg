CONSTANTS
    c1 = c1
    c2 = c2
    c3 = c3
    Clients = {c1, c2, c3}
    NoClient = NoClient
    Rooms = {1, 2}
    roomCapacity = 2
    Capacity <- MCCapacity
    WatcherCount = 1
    Red = 0
    Modulus = 2
    MaxSeed = 2
    Workers = 2
SPECIFICATION Spec
SYMMETRY Symmetry
INVARIANTS
    TypeOK
    RoomsAgree
    PlacesAgree
    NoEmptySession
    PlayersAgree
    RoomAsserts
PROPERTIES
    StartsTogether
    LossesExplained
