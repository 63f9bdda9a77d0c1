SPECIFICATION PaperSpec
CONSTANTS
    Sessions = {s1, s2}
    Prices = {1, 2}
    Quantities = {1, 2}
    Balance = 4
    Signals <- MCSignals
    MaxOpened = 2
    Unread = Unread
    NoLimit = NoLimit
INVARIANTS
    PaperTypeOK
    NeverOverdrawn
    BooksBalance
    AvgCostInRange
PROPERTIES
    QuietAfterArchive
    ImplementsAccount
CHECK_DEADLOCK FALSE
SYMMETRY MCSymmetry
