\* Two attempts in two seconds, with a clock of quarter seconds.
SPECIFICATION BudgetSpec
CONSTANTS
    Limit = 2
    Window = 2
    TicksPerSecond = 4
    LastTick = 19
    MaxChecks = 6
INVARIANTS RateBounded RefusalsEnd
