SPECIFICATION TimeSpec
CONSTANTS
    Cores = {c0, c1, c2}
    MaskedTasks = {c0, c1, c2}
    MaxDepth = 3
    None = None
    OneSecond = 4
    UsUnits = 2
    UintMod = 6
    TickPeriod = 2
    SecondsMod = 2
INVARIANTS
    MutualExclusion
    NotOrphaned
    
