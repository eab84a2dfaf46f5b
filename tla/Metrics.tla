------------------------------- MODULE Metrics -------------------------------
(***************************************************************************)
(* One metrics request of MetricsService against the tables ingestion      *)
(* writes to.  DAU, revenue and conversion run two or three statements in  *)
(* a REPEATABLE READ transaction, so that the rows and the summary of an   *)
(* answer come from one snapshot; retention and engagement run one.        *)
(* Batches are committed, days end and time passes between any two steps.  *)
(*                                                                         *)
(* A statement has a budget, and so has the transaction: every statement   *)
(* gets what is left of it.  The tables grow as EventStore allows; the     *)
(* requests do not touch them and do not see each other, so one is enough. *)
(***************************************************************************)
EXTENDS MetricsQueries, SequencesExt

CONSTANTS
    IdOf, OrderOf, NoOrder,  \* as in EventStore
    Query,               \* [kind, start, end, currency, types, page, size] requests
    CalendarDays,        \* the days parseCalendarDay() accepts
    Currencies,          \* well-formed currency codes
    MaxRangeDays,        \* MAX_RANGE_DAYS
    StatementTimeout,    \* STATEMENT_TIMEOUT_MS
    TransactionTimeout,  \* TRANSACTION_TIMEOUT_MS
    ConnectTimeout,      \* connectionTimeoutMillis
    RequestDeadline,     \* REQUEST_DEADLINE_MS
    MaxBatch,            \* the events of one batch
    FirstDay, LastDay    \* the days the model runs through

Kinds == {"dau", "revenue", "conversion", "retention", "engagement"}

ASSUME MetricsAssumption ==
    /\ \A q \in Query :
        /\ q.kind \in Kinds
        /\ q.start \in Nat /\ q.end \in Nat
        /\ q.page \in Nat \ {0} /\ q.size \in Nat \ {0}
        /\ q.types \in Seq(STRING)
    /\ StatementTimeout \in Nat \ {0}
    /\ TransactionTimeout \in Nat \ {0}
    /\ ConnectTimeout \in Nat \ {0}
    /\ RequestDeadline \in Nat
    /\ MaxBatch \in Nat
    /\ FirstDay \in Nat /\ LastDay \in Nat /\ FirstDay <= LastDay

VARIABLES
    stored,     \* committed rows of game_events
    purchases,  \* the items with a committed row in purchases
    today,      \* the UTC day
    phase,      \* where the handling of the request is
    query,      \* the request
    snapshot,   \* the rows the transaction sees
    read,       \* the results of the statements that have ended
    running,    \* the result of the statement under way
    elapsed,    \* time since the request arrived
    txEnd,      \* deadline of the transaction, on the same clock
    setAt,      \* when the budget of the statement was computed
    left,       \* its statement_timeout, or what is left of it
    startedAt,  \* when the statement under way started
    worked,     \* how long the statements before it ran
    readDay,    \* the day on which a retention query started, or NoDay
    answer      \* what the client was told

tables == <<stored, purchases>>
times == <<txEnd, setAt, left, startedAt, worked>>
work == <<snapshot, read, running, times, readDay>>
vars == <<tables, today, phase, query, elapsed, answer, work>>

Store == INSTANCE EventStore

NoDay == 0
NoQuery == [kind |-> "none"]
NoSnapshot == [events |-> {}, paid |-> {}]
NoAnswer == [status |-> "none"]
Committed == [events |-> stored, paid |-> purchases]
LargerOf(x, y) == IF x > y THEN x ELSE y
LesserOf(x, y) == IF x < y THEN x ELSE y
-----------------------------------------------------------------------------
(* parseRange(), parseCurrency() and parseEventTypes(). *)
Acceptable(q) ==
    /\ q.start \in CalendarDays /\ q.end \in CalendarDays
    /\ q.start <= q.end
    /\ q.end - q.start + 1 <= MaxRangeDays
    /\ q.kind = "revenue" => q.currency \in Currencies
    /\ q.kind = "engagement" => \A i \in DOMAIN q.types : \E j \in DOMAIN EventTypes :
                                    q.types[i] = EventTypes[j]

(* The statements of a request, over the rows they see. *)
Statements(q, rows) ==
    LET ev == rows.events
        pd == rows.paid
    IN  CASE q.kind = "dau" ->
               <<DauByDay(ev, q.start, q.end), UniqueLoginUsers(ev, q.start, q.end)>>
          [] q.kind = "revenue" ->
               <<RevenueByDay(ev, pd, q.start, q.end, q.currency),
                 RevenueTotal(pd, q.start, q.end, q.currency),
                 UniqueLoginUsers(ev, q.start, q.end)>>
          [] q.kind = "conversion" ->
               <<ConversionByDay(ev, pd, q.start, q.end),
                 ConversionTotals(ev, pd, q.start, q.end)>>
          [] q.kind = "retention" -> <<RetentionByCohort(ev, q.start, q.end)>>
          [] q.kind = "engagement" ->
               <<EngagementByDayType(ev, q.start, q.end, q.types)>>

StatementCount(q) ==
    CASE q.kind = "revenue" -> 3
      [] q.kind \in {"dau", "conversion"} -> 2
      [] OTHER -> 1

InTransaction(q) == q.kind \in {"dau", "revenue", "conversion"}

(* Faulty variant: every statement sees what is committed when it is sent. *)
SeenCommitted(q) == Committed

(* The first statement of a REPEATABLE READ transaction takes its snapshot. *)
Seen(q) == IF InTransaction(q) /\ read # <<>> THEN snapshot ELSE Committed

(* Faulty variant: a statement of a transaction may take the whole timeout. *)
BudgetOfStatement == StatementTimeout

(* What snapshot() sets statement_timeout to. *)
Budget == LargerOf(1, LesserOf(txEnd - elapsed, StatementTimeout))

(* The row of an answer as the service completes it on a day. *)
RowOf(q, row, day) ==
    CASE q.kind = "dau" -> row
      [] q.kind = "revenue" ->
           [day |-> row.day, revenue |-> row.revenue, active |-> row.active,
            arpu |-> ArpuCents(row.revenue, row.active)]
      [] q.kind = "conversion" ->
           [day |-> row.day, paying |-> row.paying, active |-> row.active,
            rate |-> Rate(row.paying, row.active)]
      [] q.kind = "retention" ->
           [day |-> row.day, new |-> row.new,
            rate |-> [n \in RetentionDays |-> RetentionRate(day, row, n)],
            matured |-> [n \in RetentionDays |-> Matured(day, row.day, n)]]
      [] q.kind = "engagement" ->
           [day |-> row.day, type |-> row.type, engaged |-> row.engaged, dau |-> row.dau,
            rate |-> Rate(row.engaged, row.dau)]

SummaryOf(q, results) ==
    CASE q.kind = "dau" -> [active |-> results[2]]
      [] q.kind = "revenue" ->
           [revenue |-> results[2], active |-> results[3],
            arpu |-> ArpuCents(results[2], results[3])]
      [] q.kind = "conversion" ->
           [paying |-> results[2].paying, active |-> results[2].active,
            rate |-> Rate(results[2].paying, results[2].active)]
      [] OTHER -> NoAnswer

(* buildMeta(): the length of all pages together. *)
Total(q) ==
    LET days == q.end - q.start + 1
    IN  IF q.kind = "engagement" THEN days * Len(q.types) ELSE days

(* The answer made of the results of the statements, on a day. *)
AnswerOf(q, results, day) ==
    LET rows == [i \in DOMAIN results[1] |-> RowOf(q, results[1][i], day)]
    IN  [status |-> "200", rows |-> rows, data |-> Paginate(rows, q.page, q.size),
         total |-> Total(q), summary |-> SummaryOf(q, results)]
-----------------------------------------------------------------------------
Tell(told) == answer' = told /\ phase' = "idle"
Refusal(status) == [status |-> status]
ClearTimers ==
    /\ elapsed' = 0 /\ txEnd' = 0 /\ worked' = 0
    /\ setAt' = 0 /\ left' = 0 /\ startedAt' = 0

(* A new request; the bad ones are answered 400 without a statement. *)
Accept ==
    /\ phase = "idle"
    /\ \E q \in Query :
        /\ query' = q
        /\ IF Acceptable(q)
           THEN phase' = "connect" /\ answer' = NoAnswer
           ELSE Tell(Refusal("400"))
    /\ ClearTimers
    /\ snapshot' = NoSnapshot /\ read' = <<>> /\ running' = <<>> /\ readDay' = NoDay
    /\ UNCHANGED <<tables, today>>

(* A connection of the pool.  It has a statement_timeout of its own, which a *)
(* statement outside of a transaction keeps.                                *)
Connect ==
    /\ phase = "connect"
    /\ IF InTransaction(query)
       THEN phase' = "begin" /\ UNCHANGED left
       ELSE phase' = "set" /\ left' = StatementTimeout
    /\ UNCHANGED <<tables, today, query, elapsed, answer, snapshot, read, running,
                   txEnd, setAt, startedAt, worked, readDay>>

(* BEGIN has been answered: the time of the transaction starts. *)
Begin ==
    /\ phase = "begin"
    /\ phase' = "ready"
    /\ txEnd' = elapsed + TransactionTimeout
    /\ UNCHANGED <<tables, today, query, elapsed, answer, snapshot, read, running,
                   setAt, left, startedAt, worked, readDay>>

(* exec() computes the budget and sends SET LOCAL statement_timeout. *)
SetTimeout ==
    /\ phase = "ready"
    /\ Len(read) < StatementCount(query)
    /\ phase' = "set"
    /\ left' = Budget
    /\ setAt' = elapsed
    /\ UNCHANGED <<tables, today, query, elapsed, answer, snapshot, read, running,
                   txEnd, startedAt, worked, readDay>>

(* The statement, sent when SET LOCAL has been answered, starts: it sees the *)
(* rows of now and has its whole budget.                                    *)
Issue ==
    /\ phase = "set"
    /\ phase' = "running"
    /\ snapshot' = Seen(query)
    /\ running' = Statements(query, Seen(query))[Len(read) + 1]
    /\ startedAt' = elapsed
    /\ readDay' = IF query.kind = "retention" THEN today ELSE NoDay
    /\ UNCHANGED <<tables, today, query, elapsed, answer, read, txEnd, setAt, left, worked>>

(* It ends; until the next step its result is on its way to the service. *)
Finish ==
    /\ phase = "running"
    /\ phase' = "ready"
    /\ read' = Append(read, running)
    /\ running' = <<>>
    /\ worked' = worked + (elapsed - startedAt)
    /\ setAt' = 0 /\ left' = 0 /\ startedAt' = 0
    /\ UNCHANGED <<tables, today, query, elapsed, answer, snapshot, txEnd, readDay>>

(* COMMIT, and the answer made of what was read and of today. *)
Respond ==
    /\ phase = "ready"
    /\ Len(read) = StatementCount(query)
    /\ Tell(AnswerOf(query, read, today))
    /\ ClearTimers
    /\ UNCHANGED <<tables, today, query, snapshot, read, running, readDay>>

(* PostgreSQL cancels a statement whose time is up (57014), the pool gives  *)
(* up, the connection breaks, or the TimeoutInterceptor answers.            *)
Fail ==
    /\ phase # "idle"
    /\ Tell(Refusal("503"))
    /\ ClearTimers
    /\ snapshot' = NoSnapshot /\ read' = <<>> /\ running' = <<>> /\ readDay' = NoDay
    /\ UNCHANGED <<tables, today, query>>

(* Time passes, except over a timer that is due. *)
Tick ==
    /\ phase # "idle"
    /\ elapsed < RequestDeadline
    /\ phase = "connect" => elapsed < ConnectTimeout
    /\ phase = "running" => left > 0
    /\ elapsed' = elapsed + 1
    /\ left' = IF phase = "running" THEN left - 1 ELSE left
    /\ UNCHANGED <<tables, today, phase, query, answer, snapshot, read, running, txEnd,
                   setAt, startedAt, worked, readDay>>

(* Ingestion commits a batch. *)
Commit ==
    /\ \E batch \in SUBSET (Item \ stored) : \E paid \in SUBSET batch :
        /\ IsFiniteSet(batch) /\ Cardinality(batch) \in 1..MaxBatch
        /\ stored' = stored \cup batch
        /\ purchases' = purchases \cup paid
        /\ Store!Store
    /\ UNCHANGED <<today, phase, query, elapsed, answer, work>>

Midnight ==
    /\ today < LastDay
    /\ today' = today + 1
    /\ UNCHANGED <<tables, phase, query, elapsed, answer, work>>

Init ==
    /\ stored = {} /\ purchases = {} /\ today = FirstDay
    /\ phase = "idle" /\ query = NoQuery /\ elapsed = 0 /\ answer = NoAnswer
    /\ snapshot = NoSnapshot /\ read = <<>> /\ running = <<>>
    /\ txEnd = 0 /\ setAt = 0 /\ left = 0 /\ startedAt = 0 /\ worked = 0
    /\ readDay = NoDay

Next ==
    \/ Accept \/ Connect \/ Begin \/ SetTimeout \/ Issue \/ Finish \/ Respond \/ Fail
    \/ Tick \/ Commit \/ Midnight

Spec == Init /\ [][Next]_vars
-----------------------------------------------------------------------------
(* Every variable has its type.  (MetricsRepository and MetricsService)     *)
TypeOK ==
    /\ stored \subseteq Item /\ purchases \subseteq stored
    /\ today \in FirstDay..LastDay /\ readDay \in {NoDay} \cup FirstDay..today
    /\ phase \in {"idle", "connect", "begin", "ready", "set", "running"}
    /\ query \in Query \cup {NoQuery}
    /\ snapshot.events \subseteq Item /\ snapshot.paid \subseteq snapshot.events
    /\ phase # "idle" => Len(read) <= StatementCount(query)
    /\ elapsed \in 0..RequestDeadline
    /\ left \in 0..StatementTimeout
    /\ answer.status \in {"none", "200", "400", "503"}

Answered(kinds) == answer.status = "200" /\ query.kind \in kinds

SumOf(column) == MapThenSumSet(LAMBDA i : column[i], DOMAIN column)

(* A number of distinct users of a period lies between the largest of its    *)
(* days and their sum.                                                       *)
IsUnionOf(total, column) ==
    /\ \A i \in DOMAIN column : column[i] <= total
    /\ total <= SumOf(column)

(* The rows and the summary of an answer describe the same state of the      *)
(* tables, whatever is committed while they are read: the users of the       *)
(* period are the union of those of its days, its revenue their sum, and the *)
(* same users count as active in both.  (snapshot(), *WithSummary())         *)
SummaryAgreesWithRows ==
    /\ Answered({"dau"}) =>
        IsUnionOf(answer.summary.active, [i \in DOMAIN answer.rows |-> answer.rows[i].dau])
    /\ Answered({"revenue", "conversion"}) =>
        IsUnionOf(answer.summary.active, [i \in DOMAIN answer.rows |-> answer.rows[i].active])
    /\ Answered({"revenue"}) =>
        answer.summary.revenue = SumOf([i \in DOMAIN answer.rows |-> answer.rows[i].revenue])
    /\ Answered({"conversion"}) =>
        \A i \in DOMAIN answer.rows : answer.rows[i].paying <= answer.summary.paying

(* Everything read for one answer is a result over the same rows, those the  *)
(* first statement saw.  (snapshot())                                        *)
ReadsOfOneSnapshot ==
    \A i \in DOMAIN read : read[i] = Statements(query, snapshot)[i]

(* The cohorts of a period hold exactly the users seen by its end and not    *)
(* before its start, each once: a user with an older login is not new, and   *)
(* an answer for two adjacent periods counts nobody twice.                   *)
(* (retentionByCohort(): first logins are of all history)                    *)
CohortsAreTheNewUsers ==
    Answered({"retention"}) =>
        SumOf([i \in DOMAIN answer.rows |-> answer.rows[i].new]) =
            Cardinality(Active(snapshot.events, 0, query.end))
            - Cardinality(Active(snapshot.events, 0, query.start - 1))

RatesOf(row) ==
    IF query.kind = "retention" THEN {row.rate[n] : n \in RetentionDays} ELSE {row.rate}

(* A rate is a share of the users it is about, however the sessions of those *)
(* who paid or played lie across midnight: between 0 and 1, or null.         *)
(* (conversionByDay(), conversionTotals(), engagementByDayType(), retention) *)
RatesAreShares ==
    /\ Answered({"conversion", "engagement", "retention"}) =>
        \A i \in DOMAIN answer.rows :
            RatesOf(answer.rows[i]) \subseteq {Null} \cup 0..RateScale
    /\ Answered({"conversion"}) => answer.summary.rate \in {Null} \cup 0..RateScale

IsNearest(cents, revenue, users) ==
    IF users = 0 THEN cents = Null
    ELSE /\ 2 * revenue * CentScale < 2 * cents * users + users
         /\ 2 * cents * users <= 2 * revenue * CentScale + users

(* arpu_minor is the cent nearest to revenue over users, a half rounded up.  *)
(* (formatArpuMinor())                                                       *)
ArpuIsNearest ==
    Answered({"revenue"}) =>
        /\ \A i \in DOMAIN answer.rows :
            IsNearest(answer.rows[i].arpu, answer.rows[i].revenue, answer.rows[i].active)
        /\ IsNearest(answer.summary.arpu, answer.summary.revenue, answer.summary.active)

(* meta.total says how many pages there are: read one after the other they   *)
(* hold every row once and in order, and the page after them is empty.       *)
(* (buildMeta(), paginate(), the zero-filled rows of the queries)            *)
PagesCoverRows ==
    Answered(Kinds) =>
        LET pages == (answer.total + query.size - 1) \div query.size
            Page(p) == Paginate(answer.rows, p, query.size)
        IN  /\ Len(answer.rows) = answer.total
            /\ answer.rows = FlattenSeq([p \in 1..pages |-> Page(p)])
            /\ answer.data = IF query.page <= pages THEN Page(query.page) ELSE <<>>

(* A statement runs no longer than its own timeout.  The statements of a     *)
(* transaction together run no longer than the transaction may, whatever the *)
(* round trips between them take; only one whose budget was computed after   *)
(* the deadline still gets the shortest timeout there is (0 would be none).  *)
(* The deadline itself is not kept: as a statement starts a round trip after *)
(* its budget was computed, it may end that much later.  (snapshot(), exec())*)
StatementsEndInTime ==
    phase = "running" =>
        LET ranAtMost == elapsed - startedAt + left
        IN  /\ ranAtMost <= StatementTimeout
            /\ InTransaction(query) =>
                 /\ setAt < txEnd => worked + ranAtMost <= TransactionTimeout
                 /\ setAt >= txEnd => ranAtMost <= 1
                 /\ elapsed + left <= LargerOf(txEnd, setAt + 1) + (startedAt - setAt)

(* A retention answer calls a rate matured only if the day it observes was   *)
(* over when its logins were read.  (metrics.service.ts:68-69)               *)
MaturedDayIsOver ==
    Answered({"retention"}) =>
        \A i \in DOMAIN answer.rows : \A n \in RetentionDays :
            answer.rows[i].matured[n] => readDay > answer.rows[i].day + n
=============================================================================
