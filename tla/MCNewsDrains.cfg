CONSTANTS
    Rows <- MCRows
    Dead <- MCDead
    Teased <- MCTeased
    Notable <- MCNotable
    Batch = 1
    Cap = 2
    PerDay = 3
    Clicks = 1
SPECIFICATION DrainSpec
INVARIANTS
    DrainTypeOK
    DailyBudget
PROPERTIES
    Recovers
