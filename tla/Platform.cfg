SPECIFICATION PlatformSpec
CONSTANTS
    c1 = c1
    c2 = c2
    Tick = tick
    Calls = {c1, c2}
    Waiting = 1
    MaxFaults = 2
\* A worker alone, its signals and outages spent, just waits.
CHECK_DEADLOCK FALSE
INVARIANTS
    AnswerHasCause
PROPERTIES
    TicksResume
