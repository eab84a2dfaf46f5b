--------------------------- MODULE MetricsQueries ---------------------------
(***************************************************************************)
(* The aggregations of MetricsRepository and the arithmetic MetricsService *)
(* applies to them, as functions of the rows a statement sees: events is   *)
(* game_events, paid is purchases.  An event keeps its day (the UTC date   *)
(* of occurred_at), user, type, amount and currency; a row of purchases    *)
(* has those of its event.  A result is the sequence of its rows, one for  *)
(* every calendar day, in ascending order.                                 *)
(***************************************************************************)
EXTENDS Integers, Sequences, FiniteSets, FiniteSetsExt

CONSTANTS
    Item, DayOf, UserOf, TypeOf,  \* the columns of game_events
    AmountOf, CurrencyOf,         \* and those only purchases have
    Login,          \* the type "session_login"
    EventTypes,     \* the event types in alphabetical order
    RetentionDays,  \* {1, 7, 30}
    RateScale,      \* 10000: rates have four decimals
    CentScale       \* 100: arpu_minor has two

ASSUME QueriesAssumption ==
    /\ \A x \in Item : DayOf[x] \in Nat /\ AmountOf[x] \in Nat
    /\ RetentionDays \subseteq Nat \ {0}
    /\ RateScale \in Nat \ {0} /\ CentScale \in Nat \ {0}

Null == -1

Within(rows, s, e) == {x \in rows : DayOf[x] \in s..e}
Users(rows) == {UserOf[x] : x \in rows}
Logins(events) == {x \in events : TypeOf[x] = Login}
Active(events, s, e) == Users(Within(Logins(events), s, e))
Amount(rows) == MapThenSumSet(LAMBDA x : AmountOf[x], rows)

(* generate_series() of the days, left-joined with what is known of a day. *)
Daily(s, e, Of(_)) == [i \in 1..(e - s + 1) |-> Of(s + i - 1)]
-----------------------------------------------------------------------------
DauByDay(events, s, e) ==
    Daily(s, e, LAMBDA d : [day |-> d, dau |-> Cardinality(Active(events, d, d))])

UniqueLoginUsers(events, s, e) == Cardinality(Active(events, s, e))

RevenueByDay(events, paid, s, e, currency) ==
    Daily(s, e, LAMBDA d :
        [day |-> d,
         revenue |-> Amount({x \in Within(paid, d, d) : CurrencyOf[x] = currency}),
         active |-> Cardinality(Active(events, d, d))])

RevenueTotal(paid, s, e, currency) ==
    Amount({x \in Within(paid, s, e) : CurrencyOf[x] = currency})

(* Faulty variant: paying users need not have logged in that day. *)
PayingAnyone(events, paid, s, e) == Users(Within(paid, s, e))

Paying(events, paid, s, e) == Users(Within(paid, s, e)) \cap Active(events, s, e)

ConversionByDay(events, paid, s, e) ==
    Daily(s, e, LAMBDA d :
        [day |-> d, paying |-> Cardinality(Paying(events, paid, d, d)),
         active |-> Cardinality(Active(events, d, d))])

ConversionTotals(events, paid, s, e) ==
    [paying |-> Cardinality(Paying(events, paid, s, e)),
     active |-> Cardinality(Active(events, s, e))]

(* Faulty variant: the first login among those of the period. *)
FirstLoginsOfPeriod(events, s, e) ==
    {x \in Within(Logins(events), s, e) :
        \A y \in Within(Logins(events), s, e) : UserOf[y] = UserOf[x] => DayOf[x] <= DayOf[y]}

(* The first logins of all history that fall into the period. *)
FirstLogins(events, s, e) ==
    {x \in Within(Logins(events), s, e) :
        \A y \in Logins(events) : UserOf[y] = UserOf[x] => DayOf[x] <= DayOf[y]}

Cohort(events, s, e, d) == Users(Within(FirstLogins(events, s, e), d, d))

RetentionByCohort(events, s, e) ==
    Daily(s, e, LAMBDA d :
        [day |-> d, new |-> Cardinality(Cohort(events, s, e, d)),
         returned |-> [n \in RetentionDays |->
             Cardinality(Cohort(events, s, e, d) \cap Active(events, d + n, d + n))]])

(* One row for every day and every requested type, which are in order. *)
EngagementByDayType(events, s, e, types) ==
    [i \in 1..((e - s + 1) * Len(types)) |->
        LET d == s + (i - 1) \div Len(types)
            type == types[((i - 1) % Len(types)) + 1]
            did == {x \in Within(events, d, d) : TypeOf[x] = type}
        IN  [day |-> d, type |-> type,
             engaged |-> Cardinality(Users(did) \cap Active(events, d, d)),
             dau |-> Cardinality(Active(events, d, d))]]
-----------------------------------------------------------------------------
(* Rounded half up to RateScale-ths; no rate of nothing. *)
Rate(numerator, denominator) ==
    IF denominator = 0 THEN Null
    ELSE (2 * numerator * RateScale + denominator) \div (2 * denominator)

(* Faulty variant: the remainder is cut off. *)
ArpuCentsCut(revenue, users) ==
    IF users = 0 THEN Null ELSE (revenue * CentScale) \div users

(* formatArpuMinor(): the quotient, and one more when the remainder is half  *)
(* of the divisor or more.                                                   *)
ArpuCents(revenue, users) ==
    LET scaled == revenue * CentScale
    IN  IF users = 0 THEN Null
        ELSE scaled \div users + (IF 2 * (scaled % users) >= users THEN 1 ELSE 0)

Matured(today, day, n) == today > day + n

RetentionRate(today, row, n) ==
    IF ~Matured(today, row.day, n) THEN Null ELSE Rate(row.returned[n], row.new)

(* The rows from one index on, up to another but not beyond the last row. *)
Slice(rows, from, to) == SubSeq(rows, from, IF to < Len(rows) THEN to ELSE Len(rows))

(* Faulty variant: pages counted from 0. *)
PaginateFromZero(rows, page, size) == Slice(rows, page * size + 1, (page + 1) * size)

(* Beyond the last page there is an empty one. *)
Paginate(rows, page, size) == Slice(rows, (page - 1) * size + 1, page * size)
=============================================================================
