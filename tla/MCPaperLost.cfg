SPECIFICATION PaperSpec
CONSTANTS
    Sessions = {s1, s2}
    Prices = {1, 2}
    Quantities = {1, 2}
    Balance = 4
    Signals <- MCSignals
    MaxOpened = 2
    Unread = Unread
    NoLimit = NoLimit
INVARIANT
    BooksAlwaysBalance
CHECK_DEADLOCK FALSE
