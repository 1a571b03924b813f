CONSTANTS
    NumDev = 2
    Master <- OwnPorts
    Stream = {1}
    Period = 1
    Silence = 1
    FixLife = 1
    Recent = 1
    Startup = 2
    Reset = 2
    MaxAge = 3
SPECIFICATION FairSpec
INVARIANTS TypeOK NoStaleFix ValueExpires
PROPERTY KeepsRestarting
