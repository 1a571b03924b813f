CONSTANTS
    NumDev = 2
    Ports = {p1, p2}
    Names = {ttyS, file}
    Unshared = {file}
    Replay = {file}
    Users = {calc}
    Null = Null
SPECIFICATION FairSpec
PROPERTIES RestartCompletes ImplementsPortTable
