\* A day ends while retention is computed.
SPECIFICATION Spec
CONSTANTS
    a1 = a1
    a2 = a2
    b2 = b2
    p1 = p1
    r1 = r1
    Item <- MCItem
    DayOf <- MCDayOf
    UserOf <- MCUserOf
    TypeOf <- MCTypeOf
    AmountOf <- MCAmountOf
    CurrencyOf <- MCCurrencyOf
    IdOf <- MCIdOf
    OrderOf <- MCOrderOf
    NoOrder = "none"
    Login = "session_login"
    EventTypes <- AllTypes
    RetentionDays = {1, 2}
    RateScale = 10000
    CentScale = 1
    CalendarDays = {1, 2, 3, 4}
    Currencies = {"KRW", "USD"}
    MaxRangeDays = 3
    Query <- RetentionQueries
    StatementTimeout = 1
    TransactionTimeout = 1
    ConnectTimeout = 1
    RequestDeadline = 1
    MaxBatch = 1
    FirstDay = 2
    LastDay = 4
INVARIANTS
    MaturedDayIsOver
