CONSTANTS
    NumDev = 3
    Ports = {p1, p2, p3}
    Names = {ttyS, file}
    Unshared = {file}
    Replay = {file}
    Users = {calc}
    Null = Null
SYMMETRY Symmetry
SPECIFICATION Spec
INVARIANTS TypeOK RxOwnsItsSlot HeldPortAlive SharedFollowsMaster ExclusiveOpen NoPortLost NothingLeft
