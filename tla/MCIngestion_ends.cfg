\* Two requests of any batch and a crash: transactions end.
SPECIFICATION FairSpec
CONSTANTS
    Request = {r1, r2}
    a1 = a1
    a2 = a2
    b = b
    c = c
    x = x
    u = u
    q = q
    Item <- MCItem
    IdOf <- MCIdOf
    OrderOf <- MCOrderOf
    NoOrder = "none"
    Invalid <- MCInvalid
    Unstorable <- MCUnstorable
    Underivable <- MCUnderivable
    Batches <- ManyBatches
    MaxCrashes = 1
INVARIANTS
    AnswersAreUsable
PROPERTIES
    RowsAreReleased
