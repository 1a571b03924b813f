CONSTANTS
    OpenTime = 5
    CloseTime = 7
    Interval = 1
    NumberOfGates = 2
    WaitingTime = 1
    StartWindow = 2
    DayEnd = 9
    Offset = 0
    Last = 3
    Rules <- Competitions
    Readings <- TwoTurns
    Begin = 3
    End = 9
    Step = 1
    RestartTime = 3
SPECIFICATION Spec
PROPERTY StartIsCrossed
