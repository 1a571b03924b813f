CONSTANTS
    n1 = n1
    n2 = n2
    x = x
    f = f
    g = g
    Dev = {n1, n2, x, f, g}
    Kind <- Mixed
    Calendar <- ShortMonths
    LastDay = 4
    Parts = 2
    Shortest = 3
    None = None
SPECIFICATION MCSpec
INVARIANTS TypeOK DayCountRight
PROPERTIES NeverBackInFlight NoSilentReset NeverStuck
SYMMETRY Symmetry
