\* Every kind of request beside ingestion, with every timeout and the end of a day.
SPECIFICATION Spec
CONSTANTS
    a1 = a1
    a2 = a2
    b2 = b2
    p1 = p1
    r1 = r1
    Item <- MCItem
    DayOf <- MCDayOf
    UserOf <- MCUserOf
    TypeOf <- MCTypeOf
    AmountOf <- MCAmountOf
    CurrencyOf <- MCCurrencyOf
    IdOf <- MCIdOf
    OrderOf <- MCOrderOf
    NoOrder = "none"
    Login = "session_login"
    EventTypes <- AllTypes
    RetentionDays = {1, 2}
    RateScale = 10000
    CentScale = 1
    CalendarDays = {1, 2, 3, 4}
    Currencies = {"KRW", "USD"}
    MaxRangeDays = 3
    Query <- ManyQueries
    StatementTimeout = 2
    TransactionTimeout = 3
    ConnectTimeout = 1
    RequestDeadline = 3
    MaxBatch = 1
    FirstDay = 3
    LastDay = 4
INVARIANTS
    ReadsOfOneSnapshot
    SummaryAgreesWithRows
    CohortsAreTheNewUsers
    RatesAreShares
    ArpuIsNearest
    PagesCoverRows
    StatementsEndInTime
