SPECIFICATION UsageSpec
CONSTANTS
    c1 = c1
    c2 = c2
    w1 = w1
    w2 = w2
    Calls = {c1, c2}
    Cost <- MCCost
    Balances = {2}
    Consumers = {w1, w2}
    MaxDay = 1
    MaxCopies <- MCCopies
    MaxFaults = 1
SYMMETRY Sym
INVARIANTS
    LoggedOnce
    StatsComplete
    AlarmHasCause
