CONSTANTS
    Articles <- MCArticles
    Sensitive <- MCSensitive
    Teased <- MCTeased
    New <- MCNew
    Batch = 1
    Cap = 2
    Width = 1
SPECIFICATION NewsSpec
INVARIANTS
    NewsTypeOK
    StaleIsSeen
PROPERTIES
    BacklogDrains
    ArrivesInFull
CHECK_DEADLOCK FALSE
