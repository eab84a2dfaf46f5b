\* Two requests: an answer of 503 and what becomes of its transaction.
SPECIFICATION Spec
CONSTANTS
    Request = {r1, r2}
    a1 = a1
    a2 = a2
    b = b
    c = c
    x = x
    u = u
    q = q
    Item <- MCItem
    IdOf <- MCIdOf
    OrderOf <- MCOrderOf
    NoOrder = "none"
    Invalid <- MCInvalid
    Unstorable <- MCUnstorable
    Underivable <- MCUnderivable
    Batches <- ManyBatches
    MaxCrashes = 1
INVARIANT UnavailableIsRolledBack
