\* Three concurrent requests of rivalling batches, one crash of the receiver.
SPECIFICATION Spec
CONSTANTS
    Request = {r1, r2, r3}
    a1 = a1
    a2 = a2
    b = b
    c = c
    x = x
    u = u
    q = q
    Item <- MCItem
    IdOf <- MCIdOf
    OrderOf <- MCOrderOf
    NoOrder = "none"
    Invalid <- MCInvalid
    Unstorable <- MCUnstorable
    Underivable <- MCUnderivable
    Batches <- RivalBatches
    MaxCrashes = 1
SYMMETRY Symmetry
INVARIANTS
    TypeOK
    PurchasesDerived
    NoKeyClash
    AcknowledgedIsStored
    EachRowCountedOnce
PROPERTY ImplementsStore
