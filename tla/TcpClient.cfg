CONSTANTS
    Threads = {u1}
    Owner = u1
    Getters = {g1}
    Users <- MCUsers
    Addresses <- MCAddresses
    InitDelay = 1
    MaxDelay = 3
    MaxConns = 2
    None = None
SPECIFICATION FairSpec
INVARIANTS FreshWhenPatient NotUsedLate OneConnection DestroyedQuiet
PROPERTY Connects
CHECK_DEADLOCK FALSE
