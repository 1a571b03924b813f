CONSTANTS
    NumDev = 2
    Ports = {p1, p2}
    Names = {ttyS}
    Unshared = {}
    Replay = {}
    Users = {calc}
    Null = Null
SPECIFICATION Spec
INVARIANT NoDanglingCom
