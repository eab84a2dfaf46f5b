---------------------------- MODULE MetricsProofs ----------------------------
(***************************************************************************)
(* For any tables, requests and timeouts: an answer of the metrics is read *)
(* from one snapshot, its rows and its summary fit, its pages hold all of  *)
(* its rows, and its statements together keep within the transaction's     *)
(* time.  That an answer is what the queries compute over one snapshot is  *)
(* an invariant of the machine (ReadInv, AnswerInv); what such an answer   *)
(* is like follows from lemmas about the queries alone.                    *)
(***************************************************************************)
EXTENDS Metrics, DataInduction, SequenceTheorems, TLAPS

(* read is a sequence, empty until the first statement ends; a statement is  *)
(* only prepared while one is missing, and the one under way is the next one *)
(* over the rows of the snapshot.                                            *)
ReadInv ==
    /\ \E S : read \in Seq(S)
    /\ phase \in {"connect", "begin"} => read = <<>>
    /\ phase \in {"set", "running"} => Len(read) < StatementCount(query)
    /\ phase = "running" => running = Statements(query, snapshot)[Len(read) + 1]
    /\ ReadsOfOneSnapshot

(* A transaction is left after one statement unless it is a REPEATABLE READ  *)
(* one.  (getRetention(), getEngagement())                                   *)
LEMMA OneStatement ==
    ASSUME NEW q, ~InTransaction(q)
    PROVE  StatementCount(q) = 1
BY DEF InTransaction, StatementCount

LEMMA StatementCountNat == \A q : StatementCount(q) \in Nat \ {0}
BY DEF StatementCount

LEMMA EmptyRead == <<>> \in Seq({}) /\ DOMAIN <<>> = {} /\ Len(<<>>) = 0
OBVIOUS

LEMMA AppendRead ==
    ASSUME NEW s, NEW S, s \in Seq(S), NEW e
    PROVE  /\ Append(s, e) \in Seq(S \cup {e})
           /\ DOMAIN Append(s, e) = DOMAIN s \cup {Len(s) + 1}
           /\ Append(s, e)[Len(s) + 1] = e
           /\ \A i \in DOMAIN s : Append(s, e)[i] = s[i]
<1>1. s \in Seq(S \cup {e})
    OBVIOUS
<1>2. /\ Append(s, e) \in Seq(S \cup {e})
      /\ Len(Append(s, e)) = Len(s) + 1
      /\ \A i \in 1..Len(s) : Append(s, e)[i] = s[i]
      /\ Append(s, e)[Len(s) + 1] = e
    BY <1>1, AppendProperties
<1>3. DOMAIN s = 1..Len(s) /\ Len(s) \in Nat /\ DOMAIN Append(s, e) = 1..(Len(s) + 1)
    BY <1>1, <1>2, LenProperties
<1> QED
    BY <1>2, <1>3

LEMMA ReadInvInit == Init => ReadInv
BY EmptyRead DEF Init, ReadInv, ReadsOfOneSnapshot

LEMMA ReadInvIssue == ReadInv /\ Issue => ReadInv'
<1> SUFFICES ASSUME ReadInv, Issue PROVE ReadInv'
    OBVIOUS
<1>1. /\ read' = read /\ query' = query /\ snapshot' = Seen(query)
      /\ phase = "set" /\ phase' = "running"
    BY DEF Issue
<1>2. PICK S : read \in Seq(S)
    BY DEF ReadInv
<1>3. Len(read) \in Nat /\ DOMAIN read = 1..Len(read)
    BY <1>2, LenProperties
<1>4. Len(read) < StatementCount(query) /\ (Len(read) < StatementCount(query))'
    BY <1>1 DEF ReadInv, StatementCount
<1>5. CASE read = <<>>
    <2>1. ReadsOfOneSnapshot'
        BY <1>1, <1>5, EmptyRead DEF ReadsOfOneSnapshot
    <2>2. running' = Statements(query', snapshot')[Len(read') + 1]
        BY <1>1 DEF Issue
    <2> QED
        BY <1>1, <1>2, <1>4, <2>1, <2>2 DEF ReadInv
<1>6. CASE read # <<>>
    <2>1. Len(read) # 0
        BY <1>2, <1>6, EmptySeq
    <2>2. InTransaction(query)
        <3>1. SUFFICES ASSUME ~InTransaction(query) PROVE FALSE
            OBVIOUS
        <3>2. StatementCount(query) = 1
            BY <3>1, OneStatement
        <3> QED
            BY <1>3, <1>4, <2>1, <3>2
    <2>3. snapshot' = snapshot
        BY <1>1, <1>6, <2>2 DEF Seen
    <2>4. ReadsOfOneSnapshot'
        BY <1>1, <2>3 DEF ReadInv, ReadsOfOneSnapshot
    <2>5. running' = Statements(query', snapshot')[Len(read') + 1]
        BY <1>1 DEF Issue
    <2> QED
        BY <1>1, <1>2, <1>4, <2>4, <2>5 DEF ReadInv
<1> QED
    BY <1>5, <1>6

LEMMA ReadInvFinish == ReadInv /\ Finish => ReadInv'
<1> SUFFICES ASSUME ReadInv, Finish PROVE ReadInv'
    OBVIOUS
<1>1. /\ read' = Append(read, running) /\ phase' = "ready" /\ phase = "running"
      /\ query' = query /\ snapshot' = snapshot
    BY DEF Finish
<1>2. PICK S : read \in Seq(S)
    BY DEF ReadInv
<1>3. /\ read' \in Seq(S \cup {running})
      /\ DOMAIN read' = DOMAIN read \cup {Len(read) + 1}
      /\ read'[Len(read) + 1] = running
      /\ \A i \in DOMAIN read : read'[i] = read[i]
    BY <1>1, <1>2, AppendRead
<1>4. running = Statements(query, snapshot)[Len(read) + 1]
    BY <1>1 DEF ReadInv
<1>5. ReadsOfOneSnapshot'
    BY <1>1, <1>3, <1>4 DEF ReadInv, ReadsOfOneSnapshot
<1> QED
    BY <1>1, <1>3, <1>5 DEF ReadInv

(* A step that reads nothing. *)
LEMMA ReadInvOther ==
    ASSUME ReadInv, UNCHANGED <<query, read, running, snapshot>>,
           phase' = "running" => phase = "running",
           phase' \in {"connect", "begin"} => read = <<>>,
           phase' \in {"set", "running"} => Len(read) < StatementCount(query)
    PROVE  ReadInv'
<1>1. StatementCount(query)' = StatementCount(query)
    BY DEF StatementCount
<1> QED
    BY <1>1 DEF ReadInv, ReadsOfOneSnapshot

(* A step beside the request. *)
LEMMA ReadInvSame ==
    ASSUME ReadInv, UNCHANGED <<query, read, running, snapshot, phase>>
    PROVE  ReadInv'
<1>1. /\ phase' \in {"connect", "begin"} => read = <<>>
      /\ phase' \in {"set", "running"} => Len(read) < StatementCount(query)
    BY DEF ReadInv
<1> QED
    BY <1>1, ReadInvOther

LEMMA ReadInvNext == ReadInv /\ [Next]_vars => ReadInv'
<1> SUFFICES ASSUME ReadInv, [Next]_vars PROVE ReadInv'
    OBVIOUS
<1>1. CASE Accept
    <2>1. read' = <<>> /\ phase' \in {"connect", "idle"}
        BY <1>1 DEF Accept, Tell
    <2> QED
        BY <2>1, EmptyRead DEF ReadInv, ReadsOfOneSnapshot
<1>2. CASE Connect
    <2>1. /\ UNCHANGED <<query, read, running, snapshot>>
          /\ phase' \in {"begin", "set"} /\ read = <<>>
        BY <1>2 DEF Connect, ReadInv
    <2>2. Len(read) < StatementCount(query)
        BY <2>1, EmptyRead, StatementCountNat
    <2> QED
        BY <2>1, <2>2, ReadInvOther
<1>3. CASE Begin
    BY <1>3, ReadInvOther DEF Begin
<1>4. CASE SetTimeout
    BY <1>4, ReadInvOther DEF SetTimeout
<1>5. CASE Issue
    BY <1>5, ReadInvIssue
<1>6. CASE Finish
    BY <1>6, ReadInvFinish
<1>7. CASE Respond
    BY <1>7, ReadInvOther DEF Respond, Tell
<1>8. CASE Fail
    <2>1. read' = <<>> /\ phase' = "idle"
        BY <1>8 DEF Fail, Tell
    <2> QED
        BY <2>1, EmptyRead DEF ReadInv, ReadsOfOneSnapshot
<1>9. CASE Tick
    BY <1>9, ReadInvSame DEF Tick
<1>10. CASE Commit
    BY <1>10, ReadInvSame DEF Commit, work
<1>11. CASE Midnight
    BY <1>11, ReadInvSame DEF Midnight, work
<1>12. CASE UNCHANGED vars
    BY <1>12, ReadInvSame DEF vars, work
<1> QED
    BY <1>1, <1>2, <1>3, <1>4, <1>5, <1>6, <1>7, <1>8, <1>9, <1>10, <1>11, <1>12 DEF Next

(* However batches are committed while a request is answered, everything it  *)
(* reads comes from the rows its first statement saw.  (snapshot())          *)
THEOREM AnswersAreOfOneSnapshot == Spec => []ReadsOfOneSnapshot
<1>1. ReadInv => ReadsOfOneSnapshot
    BY DEF ReadInv
<1> QED
    BY <1>1, ReadInvInit, ReadInvNext, PTL DEF Spec
-----------------------------------------------------------------------------
Clocks ==
    /\ elapsed \in Nat /\ txEnd \in Nat /\ setAt \in Nat
    /\ startedAt \in Nat /\ worked \in Nat
    /\ left \in Int

(* The time the statements have run is part of that since BEGIN, and with    *)
(* the budget of the next one within the transaction's.                      *)
TimeInv ==
    /\ Clocks
    /\ phase \in {"connect", "begin"} => worked = 0
    /\ phase = "ready" /\ InTransaction(query) => worked + txEnd - TransactionTimeout <= elapsed
    /\ phase = "set" => left <= StatementTimeout
    /\ phase \in {"set", "running"} /\ InTransaction(query) =>
        worked + txEnd - TransactionTimeout <= setAt
    /\ phase = "set" /\ InTransaction(query) =>
        setAt <= elapsed /\ left <= LargerOf(1, txEnd - setAt)
    /\ phase = "running" =>
        /\ startedAt <= elapsed
        /\ elapsed - startedAt + left <= StatementTimeout
        /\ InTransaction(query) =>
            setAt <= startedAt /\ elapsed - startedAt + left <= LargerOf(1, txEnd - setAt)

LEMMA BudgetBounds ==
    ASSUME Clocks
    PROVE  /\ Budget \in 0..StatementTimeout
           /\ Budget <= LargerOf(1, txEnd - elapsed)
BY MetricsAssumption DEF Clocks, Budget, LargerOf, LesserOf

(* Within its budget a statement does what StatementsEndInTime says. *)
LEMMA InTime == TimeInv => StatementsEndInTime
BY MetricsAssumption DEF TimeInv, Clocks, StatementsEndInTime, LargerOf

LEMMA TimeInvInit == Init => TimeInv
BY DEF Init, TimeInv, Clocks

(* A step beside the request. *)
LEMMA TimeInvSame ==
    ASSUME TimeInv, UNCHANGED <<phase, query, elapsed, times>>
    PROVE  TimeInv'
BY DEF TimeInv, Clocks, InTransaction, LargerOf, times

LEMMA TimeInvNext == TimeInv /\ [Next]_vars => TimeInv'
<1> SUFFICES ASSUME TimeInv, [Next]_vars PROVE TimeInv'
    OBVIOUS
<1> USE MetricsAssumption DEF TimeInv, Clocks
<1>1. CASE Accept
    BY <1>1 DEF Accept, Tell, ClearTimers
<1>2. CASE Connect
    <2>1. CASE InTransaction(query)
        BY <1>2, <2>1 DEF Connect
    <2>2. CASE ~InTransaction(query)
        <3>1. /\ phase' = "set" /\ left' = StatementTimeout /\ query' = query
              /\ UNCHANGED <<elapsed, txEnd, setAt, startedAt, worked>>
            BY <1>2, <2>2 DEF Connect
        <3>2. ~InTransaction(query)'
            BY <2>2, <3>1 DEF InTransaction
        <3> QED
            BY <3>1, <3>2
    <2> QED
        BY <2>1, <2>2
<1>3. CASE Begin
    BY <1>3 DEF Begin
<1>4. CASE SetTimeout
    <2>1. /\ phase = "ready" /\ phase' = "set" /\ left' = Budget /\ setAt' = elapsed
          /\ UNCHANGED <<query, elapsed, txEnd, startedAt, worked>>
        BY <1>4 DEF SetTimeout
    <2>2. InTransaction(query)' = InTransaction(query)
        BY <2>1 DEF InTransaction
    <2>3. LargerOf(1, txEnd - setAt)' = LargerOf(1, txEnd - elapsed)
        BY <2>1 DEF LargerOf
    <2> QED
        BY <2>1, <2>2, <2>3, BudgetBounds
<1>5. CASE Issue
    <2>1. /\ phase = "set" /\ phase' = "running" /\ startedAt' = elapsed
          /\ UNCHANGED <<query, elapsed, txEnd, setAt, left, worked>>
        BY <1>5 DEF Issue
    <2>2. InTransaction(query)' = InTransaction(query)
        BY <2>1 DEF InTransaction
    <2>3. LargerOf(1, txEnd - setAt)' = LargerOf(1, txEnd - setAt)
        BY <2>1 DEF LargerOf
    <2> QED
        BY <2>1, <2>2, <2>3
<1>6. CASE Finish
    <2>1. /\ phase = "running" /\ phase' = "ready" /\ worked' = worked + (elapsed - startedAt)
          /\ setAt' = 0 /\ left' = 0 /\ startedAt' = 0
          /\ UNCHANGED <<query, elapsed, txEnd>>
        BY <1>6 DEF Finish
    <2>2. InTransaction(query)' = InTransaction(query)
        BY <2>1 DEF InTransaction
    <2> QED
        BY <2>1, <2>2
<1>7. CASE Respond
    BY <1>7 DEF Respond, Tell, ClearTimers
<1>8. CASE Fail
    BY <1>8 DEF Fail, Tell, ClearTimers
<1>9. CASE Tick
    <2>1. /\ elapsed' = elapsed + 1
          /\ UNCHANGED <<phase, query, txEnd, setAt, startedAt, worked>>
          /\ left' = IF phase = "running" THEN left - 1 ELSE left
        BY <1>9 DEF Tick
    <2>2. InTransaction(query)' = InTransaction(query)
        BY <2>1 DEF InTransaction
    <2>3. LargerOf(1, txEnd - setAt)' = LargerOf(1, txEnd - setAt)
        BY <2>1 DEF LargerOf
    <2> QED
        BY <2>1, <2>2, <2>3
<1>10. CASE Commit
    BY <1>10, TimeInvSame DEF Commit, work
<1>11. CASE Midnight
    BY <1>11, TimeInvSame DEF Midnight, work
<1>12. CASE UNCHANGED vars
    BY <1>12, TimeInvSame DEF vars, work
<1> QED
    BY <1>1, <1>2, <1>3, <1>4, <1>5, <1>6, <1>7, <1>8, <1>9, <1>10, <1>11, <1>12 DEF Next

(* Whatever the timeouts are, however late a statement is sent and however   *)
(* long the round trips take: each statement keeps its own timeout, all of   *)
(* a transaction run no longer together than it may, and the deadline is     *)
(* overrun by no more than the statement's start came after its budget.      *)
(* (snapshot(), exec())                                                      *)
THEOREM StatementsAreBounded == Spec => []StatementsEndInTime
BY InTime, TimeInvInit, TimeInvNext, PTL DEF Spec
-----------------------------------------------------------------------------
LEMMA ShapeInit == Init => TypeOK
<1> SUFFICES ASSUME Init PROVE TypeOK
    OBVIOUS
<1> QED
    BY MetricsAssumption DEF Init, TypeOK, NoQuery, NoSnapshot, NoAnswer

LEMMA ShapeNext == TypeOK /\ ReadInv /\ TimeInv /\ [Next]_vars => TypeOK'
<1> SUFFICES ASSUME TypeOK, ReadInv, TimeInv, [Next]_vars PROVE TypeOK'
    OBVIOUS
<1> USE MetricsAssumption, StatementCountNat DEF TypeOK
<1>0. Len(read) \in Nat /\ Len(<<>>) = 0
    BY LenProperties, EmptyRead DEF ReadInv
<1>1. CASE Accept
    <2>1. UNCHANGED <<stored, purchases, today>> /\ readDay' = NoDay
        BY <1>1 DEF Accept, tables
    <2>2. snapshot' = NoSnapshot /\ read' = <<>> /\ elapsed' = 0 /\ left' = 0
        BY <1>1 DEF Accept, ClearTimers
    <2>3. phase' \in {"connect", "idle"} /\ query' \in Query
          /\ answer'.status \in {"none", "400"}
        BY <1>1 DEF Accept, Tell, Refusal, NoAnswer
    <2> QED
        BY <1>0, <2>1, <2>2, <2>3 DEF NoSnapshot
<1>2. CASE Connect
    <2>1. /\ UNCHANGED <<stored, purchases, today, query, elapsed, answer, snapshot, read, readDay>>
          /\ phase' \in {"begin", "set"} /\ phase # "idle"
          /\ left' \in {left, StatementTimeout}
        BY <1>2 DEF Connect, tables
    <2>2. left' \in 0..StatementTimeout
        BY <2>1
    <2> QED
        BY <2>1, <2>2
<1>3. CASE Begin
    BY <1>3 DEF Begin, tables
<1>4. CASE SetTimeout
    <2>1. /\ UNCHANGED <<stored, purchases, today, query, elapsed, answer, snapshot, read, readDay>>
          /\ phase = "ready" /\ phase' = "set" /\ left' = Budget
        BY <1>4 DEF SetTimeout, tables
    <2>2. Budget \in 0..StatementTimeout
        BY BudgetBounds DEF TimeInv
    <2> QED
        BY <2>1, <2>2
<1>5. CASE Issue
    <2>1. /\ UNCHANGED <<stored, purchases, today, query, elapsed, answer, read, left>>
          /\ phase = "set" /\ phase' = "running" /\ snapshot' = Seen(query)
          /\ readDay' \in {today, NoDay}
        BY <1>5 DEF Issue, tables
    <2>2. Seen(query).events \subseteq Item /\ Seen(query).paid \subseteq Seen(query).events
        BY DEF Seen, Committed
    <2>3. readDay' \in {NoDay} \cup FirstDay..today'
        BY <2>1
    <2> QED
        BY <2>1, <2>2, <2>3
<1>6. CASE Finish
    <2>1. /\ UNCHANGED <<stored, purchases, today, query, elapsed, answer, snapshot, readDay>>
          /\ phase = "running" /\ phase' = "ready" /\ left' = 0 /\ read' = Append(read, running)
        BY <1>6 DEF Finish, tables
    <2>2. Len(read') = Len(read) + 1
        BY <2>1, AppendProperties DEF ReadInv
    <2>3. Len(read) < StatementCount(query)
        BY <2>1 DEF ReadInv
    <2> QED
        BY <1>0, <2>1, <2>2, <2>3
<1>7. CASE Respond
    <2>1. /\ UNCHANGED <<stored, purchases, today, query, snapshot, readDay>>
          /\ phase' = "idle" /\ elapsed' = 0 /\ left' = 0 /\ answer'.status = "200"
        BY <1>7 DEF Respond, Tell, AnswerOf, ClearTimers, tables
    <2> QED
        BY <2>1
<1>8. CASE Fail
    <2>1. /\ UNCHANGED <<stored, purchases, today, query>>
          /\ phase' = "idle" /\ elapsed' = 0 /\ left' = 0 /\ answer'.status = "503"
          /\ snapshot' = NoSnapshot /\ readDay' = NoDay
        BY <1>8 DEF Fail, Tell, Refusal, ClearTimers, tables
    <2> QED
        BY <2>1 DEF NoSnapshot
<1>9. CASE Tick
    <2>1. /\ UNCHANGED <<stored, purchases, today, phase, query, answer, snapshot, read, readDay>>
          /\ elapsed < RequestDeadline /\ elapsed' = elapsed + 1
          /\ left' = IF phase = "running" THEN left - 1 ELSE left
          /\ phase = "running" => left > 0
        BY <1>9 DEF Tick, tables
    <2>2. elapsed' \in 0..RequestDeadline /\ left' \in 0..StatementTimeout
        BY <2>1
    <2> QED
        BY <2>1, <2>2
<1>10. CASE Commit
    <2>1. PICK batch \in SUBSET (Item \ stored) : \E paid \in SUBSET batch :
             /\ stored' = stored \cup batch
             /\ purchases' = purchases \cup paid
        BY <1>10 DEF Commit
    <2>2. UNCHANGED <<today, phase, query, elapsed, answer, snapshot, read, left, readDay>>
        BY <1>10 DEF Commit, work, times
    <2>3. stored' \subseteq Item /\ purchases' \subseteq stored'
        BY <2>1
    <2> QED
        BY <2>2, <2>3
<1>11. CASE Midnight
    <2>1. UNCHANGED <<stored, purchases, phase, query, elapsed, answer, snapshot, read, left, readDay>>
          /\ today < LastDay /\ today' = today + 1
        BY <1>11 DEF Midnight, work, times, tables
    <2>2. today' \in FirstDay..LastDay /\ readDay' \in {NoDay} \cup FirstDay..today'
        BY <2>1
    <2> QED
        BY <2>1, <2>2
<1>12. CASE UNCHANGED vars
    BY <1>12 DEF vars, work, times, tables
<1> QED
    BY <1>1, <1>2, <1>3, <1>4, <1>5, <1>6, <1>7, <1>8, <1>9, <1>10, <1>11, <1>12 DEF Next

(* Every variable keeps its type: no timer goes below zero, no request runs  *)
(* past its statements or its deadline.                                      *)
THEOREM MetricsTypeCorrect == Spec => []TypeOK
BY ReadInvInit, ReadInvNext, TimeInvInit, TimeInvNext, ShapeInit, ShapeNext, PTL DEF Spec
-----------------------------------------------------------------------------
(* An answer is made of what was read, on the day it was made. *)
AnswerInv ==
    /\ phase # "idle" => query \in Query /\ Acceptable(query)
    /\ answer.status = "200" =>
        /\ phase = "idle" /\ query \in Query /\ Acceptable(query)
        /\ Len(read) = StatementCount(query)
        /\ \E day \in Nat : answer = AnswerOf(query, read, day)
    /\ IsFiniteSet(stored) /\ IsFiniteSet(snapshot.events)

(* Before the first request there is no answer. *)
LEMMA AnswerInit == Init => AnswerInv
BY FS_EmptySet DEF Init, AnswerInv, NoAnswer, NoSnapshot

(* A step within a request leaves what was accepted. *)
LEMMA AnswerOther ==
    ASSUME AnswerInv, UNCHANGED <<query, read, snapshot, answer, stored>>, phase # "idle",
           phase' # "idle"
    PROVE  AnswerInv'
<1>1. answer.status # "200"
    BY DEF AnswerInv
<1> QED
    BY <1>1 DEF AnswerInv, Acceptable

(* A step beside the request leaves the answer. *)
LEMMA AnswerSame ==
    ASSUME AnswerInv, UNCHANGED <<query, read, snapshot, answer, phase>>, IsFiniteSet(stored)'
    PROVE  AnswerInv'
BY DEF AnswerInv, Acceptable, StatementCount

(* An answer stays what was read for it until the next request comes. *)
LEMMA AnswerNext == TypeOK /\ AnswerInv /\ [Next]_vars => AnswerInv'
<1> SUFFICES ASSUME TypeOK, AnswerInv, [Next]_vars PROVE AnswerInv'
    OBVIOUS
<1>1. CASE Accept
    <2>1. /\ stored' = stored /\ snapshot' = NoSnapshot
          /\ query' \in Query /\ answer'.status # "200"
          /\ phase' # "idle" => Acceptable(query')
        BY <1>1 DEF Accept, Tell, Refusal, NoAnswer, tables
    <2>2. Acceptable(query') => Acceptable(query)'
        BY DEF Acceptable
    <2> QED
        BY <2>1, <2>2, FS_EmptySet DEF AnswerInv, NoSnapshot
<1>2. CASE Connect
    BY <1>2, AnswerOther DEF Connect, tables
<1>3. CASE Begin
    BY <1>3, AnswerOther DEF Begin, tables
<1>4. CASE SetTimeout
    BY <1>4, AnswerOther DEF SetTimeout, tables
<1>5. CASE Issue
    <2>1. /\ UNCHANGED <<query, read, answer, stored>> /\ phase = "set" /\ phase' = "running"
          /\ snapshot' = Seen(query)
        BY <1>5 DEF Issue, tables
    <2>2. IsFiniteSet(Seen(query).events)
        BY DEF Seen, Committed, AnswerInv
    <2>3. answer.status # "200"
        BY <2>1 DEF AnswerInv
    <2> QED
        BY <2>1, <2>2, <2>3 DEF AnswerInv, Acceptable
<1>6. CASE Finish
    <2>1. /\ UNCHANGED <<query, answer, stored, snapshot>> /\ phase = "running" /\ phase' = "ready"
        BY <1>6 DEF Finish, tables
    <2>2. answer.status # "200"
        BY <2>1 DEF AnswerInv
    <2> QED
        BY <2>1, <2>2 DEF AnswerInv, Acceptable
<1>7. CASE Respond
    <2>1. /\ UNCHANGED <<query, read, snapshot, stored>> /\ phase = "ready" /\ phase' = "idle"
          /\ Len(read) = StatementCount(query) /\ answer' = AnswerOf(query, read, today)
        BY <1>7 DEF Respond, Tell, tables
    <2>2. today \in Nat
        BY MetricsAssumption DEF TypeOK
    <2>3. \E day \in Nat : answer' = AnswerOf(query', read', day)
        BY <2>1, <2>2
    <2>4. Acceptable(query)' /\ StatementCount(query)' = StatementCount(query)
        BY <2>1 DEF AnswerInv, Acceptable, StatementCount
    <2>5. \E day \in Nat : answer' = AnswerOf(query, read, day)'
        BY <2>3 DEF AnswerOf, RowOf, SummaryOf, Total, ArpuCents, Rate, RetentionRate, Matured,
                    Paginate, Slice
    <2> QED
        BY <2>1, <2>4, <2>5 DEF AnswerInv
<1>8. CASE Fail
    <2>1. stored' = stored /\ snapshot' = NoSnapshot /\ phase' = "idle" /\ answer'.status # "200"
        BY <1>8 DEF Fail, Tell, Refusal, tables
    <2> QED
        BY <2>1, FS_EmptySet DEF AnswerInv, NoSnapshot
<1>9. CASE Tick
    BY <1>9, AnswerOther DEF Tick, tables
<1>10. CASE Commit
    <2>1. PICK batch \in SUBSET (Item \ stored) :
             IsFiniteSet(batch) /\ stored' = stored \cup batch
        BY <1>10 DEF Commit
    <2>2. IsFiniteSet(stored)'
        BY <2>1, FS_Union DEF AnswerInv
    <2> QED
        BY <1>10, <2>2, AnswerSame DEF Commit, work
<1>11. CASE Midnight
    <2>1. IsFiniteSet(stored)' /\ UNCHANGED <<query, read, snapshot, answer, phase>>
        BY <1>11 DEF Midnight, work, tables, AnswerInv
    <2> QED
        BY <2>1, AnswerSame
<1>12. CASE UNCHANGED vars
    <2>1. IsFiniteSet(stored)' /\ UNCHANGED <<query, read, snapshot, answer, phase>>
        BY <1>12 DEF vars, work, tables, AnswerInv
    <2> QED
        BY <2>1, AnswerSame
<1> QED
    BY <1>1, <1>2, <1>3, <1>4, <1>5, <1>6, <1>7, <1>8, <1>9, <1>10, <1>11, <1>12 DEF Next

(* Day i of a period of n days. *)
Period(s, e, n) == s \in Nat /\ e \in Nat /\ n \in Nat /\ n = e - s + 1
Nth(s, i) == s + i - 1

(* What a good answer is made of. *)
AnswerData(n, day) ==
    /\ query \in Query /\ Acceptable(query) /\ day \in Nat
    /\ query.start <= query.end /\ Period(query.start, query.end, n)
    /\ answer = AnswerOf(query, read, day)
    /\ \A i \in 1..StatementCount(query) : read[i] = Statements(query, snapshot)[i]
    /\ IsFiniteSet(snapshot.events) /\ snapshot.events \subseteq Item
    /\ snapshot.paid \subseteq snapshot.events

(* Behind every good answer there is a day it was made on. *)
LEMMA AnswerFacts ==
    ASSUME ReadInv, TypeOK, AnswerInv, answer.status = "200"
    PROVE  \E day \in Nat : AnswerData(query.end - query.start + 1, day)
<1>1. PICK day \in Nat : answer = AnswerOf(query, read, day)
    BY DEF AnswerInv
<1>2. \A i \in 1..StatementCount(query) : read[i] = Statements(query, snapshot)[i]
    <2>1. Len(read) = StatementCount(query)
        BY DEF AnswerInv
    <2>2. DOMAIN read = 1..StatementCount(query)
        BY <2>1, LenProperties DEF ReadInv
    <2> QED
        BY <2>2 DEF ReadInv, ReadsOfOneSnapshot
<1>3. query \in Query /\ Acceptable(query)
    BY DEF AnswerInv
<1>4. query.start \in Nat /\ query.end \in Nat /\ query.start <= query.end
    BY <1>3, MetricsAssumption DEF Acceptable
<1>5. IsFiniteSet(snapshot.events) /\ snapshot.events \subseteq Item
      /\ snapshot.paid \subseteq snapshot.events
    BY DEF AnswerInv, TypeOK
<1>6. AnswerData(query.end - query.start + 1, day)
    BY <1>1, <1>2, <1>3, <1>4, <1>5 DEF AnswerData, Period
<1> QED
    BY <1>6
-----------------------------------------------------------------------------
(* Its parts. *)
LEMMA AnswerFields ==
    ASSUME NEW n, NEW day, AnswerData(n, day)
    PROVE  /\ answer.rows = [i \in DOMAIN read[1] |-> RowOf(query, read[1][i], day)]
           /\ answer.data = Paginate(answer.rows, query.page, query.size)
           /\ answer.total = Total(query)
           /\ answer.summary = SummaryOf(query, read)
BY DEF AnswerData, AnswerOf

(* The numbers of getDau() are those of dauByDay(), uniqueLoginUsers(). *)
LEMMA DauAnswer ==
    ASSUME NEW n, NEW day, AnswerData(n, day), query.kind = "dau"
    PROVE  /\ answer.rows =
                [i \in 1..n |->
                    [day |-> Nth(query.start, i),
                     dau |-> Cardinality(Active(snapshot.events, Nth(query.start, i),
                                                                 Nth(query.start, i)))]]
           /\ answer.summary.active
                = Cardinality(Active(snapshot.events, query.start, query.end))
<1> DEFINE st == Statements(query, snapshot)
<1>1. st = <<DauByDay(snapshot.events, query.start, query.end),
             UniqueLoginUsers(snapshot.events, query.start, query.end)>>
    BY DEF Statements
<1>2. StatementCount(query) = 2
    BY DEF StatementCount
<1>3. read[1] = st[1] /\ read[2] = st[2]
    BY <1>2 DEF AnswerData
<1>4. /\ read[1] = DauByDay(snapshot.events, query.start, query.end)
      /\ read[2] = UniqueLoginUsers(snapshot.events, query.start, query.end)
    BY <1>1, <1>3
<1>5. answer.rows = [i \in DOMAIN read[1] |-> read[1][i]]
    BY AnswerFields DEF RowOf
<1>6. answer.summary = [active |-> read[2]]
    BY AnswerFields DEF SummaryOf
<1> QED
    BY <1>4, <1>5, <1>6 DEF DauByDay, Daily, UniqueLoginUsers, AnswerData, Period, Nth

(* The numbers of getRevenue() are those of the queries, rounded. *)
LEMMA RevenueAnswer ==
    ASSUME NEW n, NEW day, AnswerData(n, day), query.kind = "revenue"
    PROVE  /\ DOMAIN answer.rows = 1..n
           /\ \A i \in 1..n :
                LET d == Nth(query.start, i)
                    row == answer.rows[i]
                IN  /\ row.revenue = Amount({x \in Within(snapshot.paid, d, d) :
                                                CurrencyOf[x] = query.currency})
                    /\ row.active = Cardinality(Active(snapshot.events, d, d))
                    /\ row.arpu = ArpuCents(row.revenue, row.active)
           /\ answer.summary.revenue = Amount({x \in Within(snapshot.paid, query.start, query.end) :
                                                  CurrencyOf[x] = query.currency})
           /\ answer.summary.active
                = Cardinality(Active(snapshot.events, query.start, query.end))
           /\ answer.summary.arpu = ArpuCents(answer.summary.revenue, answer.summary.active)
<1> DEFINE st == Statements(query, snapshot)
<1>1. st = <<RevenueByDay(snapshot.events, snapshot.paid, query.start, query.end, query.currency),
             RevenueTotal(snapshot.paid, query.start, query.end, query.currency),
             UniqueLoginUsers(snapshot.events, query.start, query.end)>>
    BY DEF Statements
<1>2. StatementCount(query) = 3
    BY DEF StatementCount
<1>3. read[1] = st[1] /\ read[2] = st[2] /\ read[3] = st[3]
    BY <1>2 DEF AnswerData
<1>4. /\ read[1] = RevenueByDay(snapshot.events, snapshot.paid, query.start, query.end, query.currency)
      /\ read[2] = RevenueTotal(snapshot.paid, query.start, query.end, query.currency)
      /\ read[3] = UniqueLoginUsers(snapshot.events, query.start, query.end)
    BY <1>1, <1>3
<1>5. answer.rows = [i \in DOMAIN read[1] |->
         [day |-> read[1][i].day, revenue |-> read[1][i].revenue, active |-> read[1][i].active,
          arpu |-> ArpuCents(read[1][i].revenue, read[1][i].active)]]
    BY AnswerFields DEF RowOf
<1>6. answer.summary = [revenue |-> read[2], active |-> read[3],
                        arpu |-> ArpuCents(read[2], read[3])]
    BY AnswerFields DEF SummaryOf
<1>7. DOMAIN read[1] = 1..n
    BY <1>4 DEF RevenueByDay, Daily, AnswerData, Period, Nth
<1>8. ASSUME NEW i \in 1..n
      PROVE  LET d == Nth(query.start, i)
             IN  /\ read[1][i].revenue = Amount({x \in Within(snapshot.paid, d, d) :
                                                    CurrencyOf[x] = query.currency})
                 /\ read[1][i].active = Cardinality(Active(snapshot.events, d, d))
    BY <1>4, <1>7 DEF RevenueByDay, Daily, AnswerData, Period, Nth
<1>9. /\ read[2] = Amount({x \in Within(snapshot.paid, query.start, query.end) :
                              CurrencyOf[x] = query.currency})
      /\ read[3] = Cardinality(Active(snapshot.events, query.start, query.end))
    BY <1>4 DEF RevenueTotal, UniqueLoginUsers
<1> HIDE DEF st
<1>10. DOMAIN answer.rows = 1..n
    BY <1>5, <1>7
<1>11. ASSUME NEW i \in 1..n
       PROVE  /\ answer.rows[i].revenue = read[1][i].revenue
              /\ answer.rows[i].active = read[1][i].active
              /\ answer.rows[i].arpu = ArpuCents(read[1][i].revenue, read[1][i].active)
    BY <1>5, <1>7
<1>12. /\ answer.summary.revenue = read[2] /\ answer.summary.active = read[3]
       /\ answer.summary.arpu = ArpuCents(read[2], read[3])
    BY <1>6
<1> QED
    BY <1>8, <1>9, <1>10, <1>11, <1>12

(* The numbers of getPurchaseConversion() are those of the queries. *)
LEMMA ConversionAnswer ==
    ASSUME NEW n, NEW day, AnswerData(n, day), query.kind = "conversion"
    PROVE  /\ DOMAIN answer.rows = 1..n
           /\ \A i \in 1..n :
                LET d == Nth(query.start, i)
                    row == answer.rows[i]
                IN  /\ row.paying = Cardinality(Paying(snapshot.events, snapshot.paid, d, d))
                    /\ row.active = Cardinality(Active(snapshot.events, d, d))
                    /\ row.rate = Rate(row.paying, row.active)
           /\ answer.summary.paying
                = Cardinality(Paying(snapshot.events, snapshot.paid, query.start, query.end))
           /\ answer.summary.active
                = Cardinality(Active(snapshot.events, query.start, query.end))
           /\ answer.summary.rate = Rate(answer.summary.paying, answer.summary.active)
<1> DEFINE st == Statements(query, snapshot)
<1>1. st = <<ConversionByDay(snapshot.events, snapshot.paid, query.start, query.end),
             ConversionTotals(snapshot.events, snapshot.paid, query.start, query.end)>>
    BY DEF Statements
<1>2. StatementCount(query) = 2
    BY DEF StatementCount
<1>3. read[1] = st[1] /\ read[2] = st[2]
    BY <1>2 DEF AnswerData
<1>4. /\ read[1] = ConversionByDay(snapshot.events, snapshot.paid, query.start, query.end)
      /\ read[2] = ConversionTotals(snapshot.events, snapshot.paid, query.start, query.end)
    BY <1>1, <1>3
<1>5. answer.rows = [i \in DOMAIN read[1] |->
         [day |-> read[1][i].day, paying |-> read[1][i].paying, active |-> read[1][i].active,
          rate |-> Rate(read[1][i].paying, read[1][i].active)]]
    BY AnswerFields DEF RowOf
<1>6. answer.summary = [paying |-> read[2].paying, active |-> read[2].active,
                        rate |-> Rate(read[2].paying, read[2].active)]
    BY AnswerFields DEF SummaryOf
<1>7. DOMAIN read[1] = 1..n
    BY <1>4 DEF ConversionByDay, Daily, AnswerData, Period, Nth
<1>8. ASSUME NEW i \in 1..n
      PROVE  LET d == Nth(query.start, i)
             IN  /\ read[1][i].paying = Cardinality(Paying(snapshot.events, snapshot.paid, d, d))
                 /\ read[1][i].active = Cardinality(Active(snapshot.events, d, d))
    BY <1>4, <1>7 DEF ConversionByDay, Daily, AnswerData, Period, Nth
<1>9. /\ read[2].paying = Cardinality(Paying(snapshot.events, snapshot.paid, query.start, query.end))
      /\ read[2].active = Cardinality(Active(snapshot.events, query.start, query.end))
    BY <1>4 DEF ConversionTotals
<1> HIDE DEF st
<1>10. DOMAIN answer.rows = 1..n
    BY <1>5, <1>7
<1>11. ASSUME NEW i \in 1..n
       PROVE  /\ answer.rows[i].paying = read[1][i].paying
              /\ answer.rows[i].active = read[1][i].active
              /\ answer.rows[i].rate = Rate(read[1][i].paying, read[1][i].active)
    BY <1>5, <1>7
<1>12. /\ answer.summary.paying = read[2].paying /\ answer.summary.active = read[2].active
       /\ answer.summary.rate = Rate(read[2].paying, read[2].active)
    BY <1>6
<1> QED
    BY <1>8, <1>9, <1>10, <1>11, <1>12

(* The numbers of getRetention() are those of retentionByCohort(). *)
LEMMA RetentionAnswer ==
    ASSUME NEW n, NEW day, AnswerData(n, day), query.kind = "retention"
    PROVE  /\ DOMAIN answer.rows = 1..n
           /\ \A i \in 1..n :
                LET d == Nth(query.start, i)
                    row == answer.rows[i]
                    cohort == Cohort(snapshot.events, query.start, query.end, d)
                IN  /\ row.new = Cardinality(cohort)
                    /\ \A k \in RetentionDays :
                        row.rate[k] \in {Null,
                            Rate(Cardinality(cohort \cap Active(snapshot.events, d + k, d + k)),
                                 Cardinality(cohort))}
<1> DEFINE st == Statements(query, snapshot)
<1>1. st = <<RetentionByCohort(snapshot.events, query.start, query.end)>>
    BY DEF Statements
<1>2. StatementCount(query) = 1
    BY DEF StatementCount
<1>3. read[1] = st[1]
    BY <1>2 DEF AnswerData
<1>4. read[1] = RetentionByCohort(snapshot.events, query.start, query.end)
    BY <1>1, <1>3
<1>5. answer.rows = [i \in DOMAIN read[1] |->
         [day |-> read[1][i].day, new |-> read[1][i].new,
          rate |-> [k \in RetentionDays |-> RetentionRate(day, read[1][i], k)],
          matured |-> [k \in RetentionDays |-> Matured(day, read[1][i].day, k)]]]
    BY AnswerFields DEF RowOf
<1>7. DOMAIN read[1] = 1..n
    BY <1>4 DEF RetentionByCohort, Daily, AnswerData, Period, Nth
<1>8. ASSUME NEW i \in 1..n
      PROVE  LET d == Nth(query.start, i)
                 cohort == Cohort(snapshot.events, query.start, query.end, d)
             IN  /\ read[1][i].new = Cardinality(cohort)
                 /\ \A k \in RetentionDays :
                      read[1][i].returned[k]
                        = Cardinality(cohort \cap Active(snapshot.events, d + k, d + k))
    BY <1>4, <1>7 DEF RetentionByCohort, Daily, AnswerData, Period, Nth
<1> QED
    BY <1>5, <1>7, <1>8 DEF RetentionRate

(* Every rate of getEngagement() is one of active users of its day. *)
LEMMA EngagementAnswer ==
    ASSUME NEW n, NEW day, AnswerData(n, day), query.kind = "engagement"
    PROVE  /\ DOMAIN answer.rows = 1..(n * Len(query.types))
           /\ \A i \in DOMAIN answer.rows : \E users, d :
                answer.rows[i].rate =
                    Rate(Cardinality(users \cap Active(snapshot.events, d, d)),
                         Cardinality(Active(snapshot.events, d, d)))
<1> DEFINE st == Statements(query, snapshot)
           m == (query.end - query.start + 1) * Len(query.types)
           DayOfRow(i) == query.start + (i - 1) \div Len(query.types)
           Did(i) == {x \in Within(snapshot.events, DayOfRow(i), DayOfRow(i)) :
                        TypeOf[x] = query.types[((i - 1) % Len(query.types)) + 1]}
           ActiveOf(i) == Active(snapshot.events, DayOfRow(i), DayOfRow(i))
<1>1. st = <<EngagementByDayType(snapshot.events, query.start, query.end, query.types)>>
    BY DEF Statements
<1>2. StatementCount(query) = 1
    BY DEF StatementCount
<1>3. read[1] = st[1]
    BY <1>2 DEF AnswerData
<1>4. read[1] = EngagementByDayType(snapshot.events, query.start, query.end, query.types)
    BY <1>1, <1>3
<1>5. answer.rows = [i \in DOMAIN read[1] |->
         [day |-> read[1][i].day, type |-> read[1][i].type, engaged |-> read[1][i].engaged,
          dau |-> read[1][i].dau, rate |-> Rate(read[1][i].engaged, read[1][i].dau)]]
    BY AnswerFields DEF RowOf
<1>6. DOMAIN read[1] = 1..m
    BY <1>4 DEF EngagementByDayType
<1>7. ASSUME NEW i \in 1..m
      PROVE  /\ read[1][i].engaged = Cardinality(Users(Did(i)) \cap ActiveOf(i))
             /\ read[1][i].dau = Cardinality(ActiveOf(i))
    <2>1. read[1] = [j \in 1..m |->
                        [day |-> DayOfRow(j),
                         type |-> query.types[((j - 1) % Len(query.types)) + 1],
                         engaged |-> Cardinality(Users(Did(j)) \cap ActiveOf(j)),
                         dau |-> Cardinality(ActiveOf(j))]]
        BY <1>4 DEF EngagementByDayType
    <2> HIDE DEF Did, ActiveOf, DayOfRow, m
    <2> QED
        BY <2>1
<1>8. ASSUME NEW i \in 1..m
      PROVE  answer.rows[i].rate = Rate(Cardinality(Users(Did(i)) \cap ActiveOf(i)),
                                        Cardinality(ActiveOf(i)))
    <2> HIDE DEF Did, ActiveOf, DayOfRow, m
    <2>1. answer.rows[i].rate = Rate(read[1][i].engaged, read[1][i].dau)
        BY <1>5, <1>6
    <2> QED
        BY <1>7, <2>1
<1>9. DOMAIN answer.rows = 1..m /\ m = n * Len(query.types)
    BY <1>5, <1>6 DEF AnswerData, Period
<1>10. ASSUME NEW i \in 1..m
       PROVE  \E users, d : answer.rows[i].rate =
                    Rate(Cardinality(users \cap Active(snapshot.events, d, d)),
                         Cardinality(Active(snapshot.events, d, d)))
    BY <1>8
<1> QED
    BY <1>9, <1>10
-----------------------------------------------------------------------------
(* Finitely many rows have finitely many users. *)
LEMMA UsersFinite ==
    ASSUME NEW rows, IsFiniteSet(rows)
    PROVE  IsFiniteSet(Users(rows))
<1> DEFINE T == {r \in SUBSET rows : IsFiniteSet(Users(r))}
<1>1. {} \in T
  BY FS_EmptySet DEF Users
<1>2. ASSUME NEW r \in SUBSET rows, NEW e \in rows, r \in T, e \notin r PROVE r \cup {e} \in T
  <2>1. Users(r \cup {e}) = Users(r) \cup {UserOf[e]}
    BY DEF Users
  <2>2. IsFiniteSet(Users(r) \cup {UserOf[e]})
    BY <1>2, FS_AddElement
  <2> QED BY <2>1, <2>2
<1>3. rows \in T
  <2> HIDE DEF T
  <2> QED BY <1>1, <1>2, SetInduction
<1> QED BY <1>3

(* So there are finitely many active ones. *)
LEMMA ActiveFinite ==
    ASSUME NEW events, IsFiniteSet(events), NEW s, NEW e
    PROVE  IsFiniteSet(Active(events, s, e)) /\ Cardinality(Active(events, s, e)) \in Nat
<1>1. Within(Logins(events), s, e) \subseteq events
  BY DEF Within, Logins
<1>2. IsFiniteSet(Active(events, s, e))
  BY <1>1, FS_Subset, UsersFinite DEF Active
<1> QED BY <1>2, FS_CardinalityType

(* Part of a finite set is no larger. *)
LEMMA PartNoLarger ==
    ASSUME NEW S, IsFiniteSet(S), NEW R, R \subseteq S
    PROVE  /\ Cardinality(R) \in Nat /\ Cardinality(S) \in Nat
           /\ Cardinality(R) <= Cardinality(S)
BY FS_Subset, FS_CardinalityType

(* Day i of a period, and the days of a period together. *)
LEMMA DaysOfPeriod ==
    ASSUME NEW s, NEW e, NEW n, Period(s, e, n), NEW k \in Nat
    PROVE  /\ k \in s..e <=> \E i \in 1..n : k = Nth(s, i)
           /\ \A i \in 1..n : Nth(s, i) \in Nat /\ Nth(s, i) \in s..e
           /\ \A i \in 1..n : k \in Nth(s, i)..Nth(s, i) <=> k = Nth(s, i)
<1>1. k \in s..e => k - s + 1 \in 1..n /\ k = Nth(s, k - s + 1)
  BY DEF Period, Nth
<1>2. \A i \in 1..n : Nth(s, i) \in Nat /\ Nth(s, i) \in s..e
  BY DEF Period, Nth
<1>3. \A i \in 1..n : k \in Nth(s, i)..Nth(s, i) <=> k = Nth(s, i)
  BY DEF Period, Nth
<1> QED BY <1>1, <1>2, <1>3

(* The rows of a period are those of its days. *)
LEMMA WithinDay ==
    ASSUME NEW rows, rows \subseteq Item, NEW s, NEW e, NEW n, Period(s, e, n)
    PROVE  /\ \A x \in rows : x \in Within(rows, s, e)
                                <=> \E i \in 1..n : x \in Within(rows, Nth(s, i), Nth(s, i))
           /\ \A i \in 1..n : \A x \in rows :
                 x \in Within(rows, Nth(s, i), Nth(s, i)) <=> DayOf[x] = Nth(s, i)
<1>1. ASSUME NEW x \in rows
      PROVE  /\ DayOf[x] \in s..e <=> \E i \in 1..n : DayOf[x] = Nth(s, i)
             /\ \A i \in 1..n : DayOf[x] \in Nth(s, i)..Nth(s, i) <=> DayOf[x] = Nth(s, i)
  <2>1. DayOf[x] \in Nat
    BY QueriesAssumption
  <2> QED BY <2>1, DaysOfPeriod
<1> QED BY <1>1 DEF Within

(* No row comes from elsewhere. *)
LEMMA WithinParts ==
    ASSUME NEW rows, NEW s, NEW e
    PROVE  Within(rows, s, e) \subseteq rows
BY DEF Within

(* The users of a period are those of its days together. *)
LEMMA ActiveTogether ==
    ASSUME NEW events, events \subseteq Item, NEW s, NEW e, NEW n, Period(s, e, n),
           NEW A, \A i \in 1..n : A[i] = Active(events, Nth(s, i), Nth(s, i))
    PROVE  Active(events, s, e) = Together(A, 1..n)
<1> DEFINE L == Logins(events)
<1>1. L \subseteq Item
  BY DEF Logins
<1>2. \A x \in L : x \in Within(L, s, e) <=> \E i \in 1..n : x \in Within(L, Nth(s, i), Nth(s, i))
  BY <1>1, WithinDay
<1>3. Within(L, s, e) \subseteq L /\ \A i \in 1..n : Within(L, Nth(s, i), Nth(s, i)) \subseteq L
  BY WithinParts
<1>4. \A i \in 1..n : A[i] = Users(Within(L, Nth(s, i), Nth(s, i)))
  BY DEF Active
<1>5. Active(events, s, e) = Users(Within(L, s, e))
  BY DEF Active
<1> HIDE DEF L
<1>6. Users(Within(L, s, e)) \subseteq Together(A, 1..n)
  BY <1>2, <1>3, <1>4 DEF Users, Together
<1>7. Together(A, 1..n) \subseteq Users(Within(L, s, e))
  BY <1>2, <1>3, <1>4 DEF Users, Together
<1> QED BY <1>5, <1>6, <1>7

(* A column of an answer holds the active users, or the revenue, of n days.  *)
ActivesOfDays(c, events, s, n) ==
    /\ DOMAIN c = 1..n
    /\ \A i \in 1..n : c[i] = Cardinality(Active(events, Nth(s, i), Nth(s, i)))

RevenueOfDays(c, paid, currency, s, n) ==
    /\ DOMAIN c = 1..n
    /\ \A i \in 1..n : c[i] = Amount({x \in Within(paid, Nth(s, i), Nth(s, i)) :
                                        CurrencyOf[x] = currency})

(* The users of a period lie between those of the largest day and all days.  *)
LEMMA PeriodIsUnion ==
    ASSUME NEW events, events \subseteq Item, IsFiniteSet(events),
           NEW s, NEW e, NEW n, Period(s, e, n), NEW c, ActivesOfDays(c, events, s, n)
    PROVE  IsUnionOf(Cardinality(Active(events, s, e)), c)
<1> USE DEF ActivesOfDays
<1> DEFINE A == [i \in 1..n |-> Active(events, Nth(s, i), Nth(s, i))]
<1>1. \A i \in 1..n : A[i] = Active(events, Nth(s, i), Nth(s, i))
  OBVIOUS
<1> HIDE DEF A
<1>2. Active(events, s, e) = Together(A, 1..n)
  BY <1>1, ActiveTogether
<1>3. IsFiniteSet(1..n)
  <2>1. 1 \in Int /\ n \in Int
    BY DEF Period
  <2> QED BY <2>1, FS_Interval
<1>4. \A i \in 1..n : IsFiniteSet(A[i]) /\ c[i] = Cardinality(A[i])
  BY <1>1, ActiveFinite
<1>5. IsFiniteSet(Together(A, 1..n)) /\ Cardinality(Together(A, 1..n)) <= Sum(c, 1..n)
  <2> DEFINE S == 1..n
  <2>1. IsFiniteSet(S) /\ \A i \in S : IsFiniteSet(A[i]) /\ c[i] = Cardinality(A[i])
    BY <1>3, <1>4
  <2> HIDE DEF S
  <2>2. IsFiniteSet(Together(A, S)) /\ Cardinality(Together(A, S)) <= Sum(c, S)
    BY <2>1, UnionCount
  <2> QED BY <2>2 DEF S
<1>6. ASSUME NEW i \in 1..n PROVE c[i] <= Cardinality(Together(A, 1..n))
  <2>1. A[i] \subseteq Together(A, 1..n)
    BY DEF Together
  <2> QED BY <1>4, <1>5, <2>1, FS_Subset
<1> QED BY <1>2, <1>5, <1>6 DEF IsUnionOf, SumOf, Sum
-----------------------------------------------------------------------------
(* The revenue of a period is the sum of that of its days. *)
LEMMA RevenueAdds ==
    ASSUME NEW paid, paid \subseteq Item, IsFiniteSet(paid), NEW currency,
           NEW s, NEW e, NEW n, Period(s, e, n), NEW c, RevenueOfDays(c, paid, currency, s, n)
    PROVE  Amount({x \in Within(paid, s, e) : CurrencyOf[x] = currency}) = SumOf(c)
<1> USE DEF RevenueOfDays
<1> DEFINE Sold(a, b) == {x \in Within(paid, a, b) : CurrencyOf[x] = currency}
           A == [i \in 1..n |-> Sold(Nth(s, i), Nth(s, i))]
           S == 1..n
<1>1. \A x \in paid : x \in Within(paid, s, e)
                        <=> \E i \in 1..n : x \in Within(paid, Nth(s, i), Nth(s, i))
  BY WithinDay
<1>1a. \A i \in 1..n : \A x \in paid :
          x \in Within(paid, Nth(s, i), Nth(s, i)) <=> DayOf[x] = Nth(s, i)
  <2>1. /\ paid \subseteq Item /\ Period(s, e, n)
    OBVIOUS
  <2> QED BY ONLY <2>1, WithinDay
<1>2. \A a, b : Sold(a, b) \subseteq paid
  BY WithinParts
<1>3. \A i \in S : A[i] = Sold(Nth(s, i), Nth(s, i))
  OBVIOUS
<1>4. Sold(s, e) = Together(A, S)
  <2>1. Sold(s, e) \subseteq Together(A, S)
    BY <1>1, <1>3, WithinParts DEF Together
  <2>2. Together(A, S) \subseteq Sold(s, e)
    BY <1>1, <1>3, WithinParts DEF Together
  <2> QED BY <2>1, <2>2
<1>5. Apart(A, S)
  <2>1. ASSUME NEW i \in S, NEW j \in S, NEW x \in A[i], x \in A[j] PROVE i = j
    <3>1. /\ x \in Within(paid, Nth(s, i), Nth(s, i))
          /\ x \in Within(paid, Nth(s, j), Nth(s, j)) /\ x \in paid
      BY <1>3, <2>1, WithinParts
    <3>2. \A k \in 1..n : x \in Within(paid, Nth(s, k), Nth(s, k)) <=> DayOf[x] = Nth(s, k)
      BY <1>1a, <3>1
    <3>3. DayOf[x] = Nth(s, i) /\ DayOf[x] = Nth(s, j)
      BY <3>1, <3>2
    <3>4. i \in Int /\ j \in Int /\ s \in Int
      BY DEF Period
    <3> QED BY <3>3, <3>4 DEF Nth
  <2> HIDE DEF A, S
  <2> QED BY <2>1 DEF Apart
<1>6. IsFiniteSet(S)
  <2>1. 1 \in Int /\ n \in Int
    BY DEF Period
  <2> QED BY <2>1, FS_Interval
<1>7. \A i \in S : IsFiniteSet(A[i])
  BY <1>2, FS_Subset
<1>7a. \A i \in S : c[i] = Sum(AmountOf, A[i])
  BY DEF Sum, Amount
<1>8. \A x \in Together(A, S) : AmountOf[x] \in Nat
  <2>1. Together(A, S) \subseteq paid
    BY <1>2, <1>4
  <2> QED BY <2>1, QueriesAssumption
<1>9. Amount(Sold(s, e)) = Sum(AmountOf, Sold(s, e)) /\ SumOf(c) = Sum(c, S)
  BY DEF Sum, SumOf, Amount
<1> HIDE DEF A, S
<1>10. Sum(AmountOf, Together(A, S)) = Sum(c, S)
  BY ONLY <1>5, <1>6, <1>7, <1>7a, <1>8, UnionSum
<1>11. Amount(Sold(s, e)) = SumOf(c)
  BY <1>4, <1>9, <1>10
<1> QED BY <1>11
-----------------------------------------------------------------------------
(* u is first seen on the day of x. *)
IsFirst(events, x, u) ==
    /\ x \in Logins(events) /\ UserOf[x] = u
    /\ \A y \in Logins(events) : UserOf[y] = u => DayOf[x] <= DayOf[y]

(* Who has logged in has a first login. *)
LEMMA SomeFirst ==
    ASSUME NEW events, events \subseteq Item, NEW z \in Logins(events)
    PROVE  \E x : IsFirst(events, x, UserOf[z])
<1> DEFINE L == {x \in Logins(events) : UserOf[x] = UserOf[z]}
           T == {DayOf[x] : x \in L}
<1>1. \A x \in L : DayOf[x] \in Nat
  BY QueriesAssumption DEF Logins
<1>2. T \subseteq Nat /\ T # {}
  BY <1>1
<1>3. PICK m \in T : \A k \in T : m <= k
  <2> HIDE DEF T
  <2> QED BY <1>2, NatLeast
<1>4. PICK x \in L : m = DayOf[x]
  OBVIOUS
<1>5. IsFirst(events, x, UserOf[z])
  BY <1>3, <1>4 DEF IsFirst
<1> QED BY <1>5

(* The cohort of a day are those first seen on it. *)
LEMMA InCohort ==
    ASSUME NEW events, events \subseteq Item, NEW s, NEW e, NEW n, Period(s, e, n),
           NEW i \in 1..n, NEW u
    PROVE  u \in Cohort(events, s, e, Nth(s, i))
             <=> \E x : IsFirst(events, x, u) /\ DayOf[x] = Nth(s, i)
<1> DEFINE d == Nth(s, i)
<1>1. d \in Nat /\ d \in s..e
  BY DaysOfPeriod, 0 \in Nat
<1> HIDE DEF d
<1>2. ASSUME u \in Cohort(events, s, e, d)
      PROVE  \E x : IsFirst(events, x, u) /\ DayOf[x] = d
  <2>1. PICK x \in FirstLogins(events, s, e) : DayOf[x] \in d..d /\ UserOf[x] = u
    BY <1>2 DEF Cohort, Within, Users
  <2>2. IsFirst(events, x, u)
    BY <2>1 DEF IsFirst, FirstLogins, Within
  <2>3. DayOf[x] = d
    BY <1>1, <2>1
  <2> QED BY <2>2, <2>3
<1>3. ASSUME NEW x, IsFirst(events, x, u), DayOf[x] = d
      PROVE  u \in Cohort(events, s, e, d)
  <2>1. x \in FirstLogins(events, s, e)
    BY <1>1, <1>3 DEF IsFirst, FirstLogins, Within
  <2>2. DayOf[x] \in d..d
    BY <1>1, <1>3
  <2> QED BY <1>3, <2>1, <2>2 DEF Cohort, Within, Users, IsFirst
<1> QED BY <1>2, <1>3 DEF d

(* Who is active has logged in. *)
LEMMA InActive ==
    ASSUME NEW events, NEW s, NEW e, NEW u
    PROVE  u \in Active(events, s, e)
             <=> \E x \in Logins(events) : UserOf[x] = u /\ DayOf[x] \in s..e
BY DEF Active, Users, Within

(* The cohorts of a period together are the users seen since it began. *)
LEMMA CohortsAdd ==
    ASSUME NEW events, events \subseteq Item, IsFiniteSet(events),
           NEW s, NEW e, NEW n, Period(s, e, n), s <= e,
           NEW c, DOMAIN c = 1..n,
           \A i \in 1..n : c[i] = Cardinality(Cohort(events, s, e, Nth(s, i)))
    PROVE  SumOf(c) = Cardinality(Active(events, 0, e)) - Cardinality(Active(events, 0, s - 1))
<1> DEFINE S == 1..n
           A == [i \in S |-> Cohort(events, s, e, Nth(s, i))]
           Upto == Active(events, 0, e)
           Before == Active(events, 0, s - 1)
<1>1. \A i \in S : A[i] = Cohort(events, s, e, Nth(s, i)) /\ c[i] = Cardinality(A[i])
  OBVIOUS
<1> HIDE DEF A
<1>2. s \in Nat /\ e \in Nat
  BY DEF Period
<1>3. \A x \in Logins(events) : DayOf[x] \in Nat
  BY QueriesAssumption DEF Logins
<1>4. \A i \in S : \A u : u \in A[i] <=> \E x : IsFirst(events, x, u) /\ DayOf[x] = Nth(s, i)
  <2>1. ASSUME NEW i \in 1..n, NEW u
        PROVE  u \in Cohort(events, s, e, Nth(s, i))
                 <=> \E x : IsFirst(events, x, u) /\ DayOf[x] = Nth(s, i)
    BY InCohort
  <2> QED BY <1>1, <2>1
<1>5. Apart(A, S)
  <2>1. ASSUME NEW i \in S, NEW j \in S, NEW u \in A[i], u \in A[j] PROVE i = j
    <3>1. PICK x : IsFirst(events, x, u) /\ DayOf[x] = Nth(s, i)
      BY <1>4
    <3>2. PICK y : IsFirst(events, y, u) /\ DayOf[y] = Nth(s, j)
      BY <1>4, <2>1
    <3>3. DayOf[x] <= DayOf[y] /\ DayOf[y] <= DayOf[x]
      BY <3>1, <3>2 DEF IsFirst
    <3>4. Nth(s, i) <= Nth(s, j) /\ Nth(s, j) <= Nth(s, i)
      BY <3>1, <3>2, <3>3
    <3> QED BY <1>2, <3>4 DEF Nth
  <2> HIDE DEF S
  <2> QED BY <2>1 DEF Apart
<1>6. Together(A, S) \subseteq Upto \ Before
  <2> SUFFICES ASSUME NEW i \in S, NEW u \in A[i]
               PROVE  u \in Upto /\ u \notin Before
    BY DEF Together
  <2>1. PICK x : IsFirst(events, x, u) /\ DayOf[x] = Nth(s, i)
    BY <1>4
  <2>2. x \in Logins(events) /\ UserOf[x] = u
    BY <2>1 DEF IsFirst
  <2>3. DayOf[x] \in Nat /\ DayOf[x] \in s..e /\ DayOf[x] \in 0..e
    BY <1>2, <1>3, <2>1, <2>2 DEF Nth, Period
  <2>4. u \in Upto
    BY <2>2, <2>3, InActive
  <2>5. ASSUME u \in Before PROVE FALSE
    <3>1. PICK y \in Logins(events) : UserOf[y] = u /\ DayOf[y] \in 0..(s - 1)
      BY <2>5, InActive
    <3>2. DayOf[x] <= DayOf[y]
      BY <2>1, <3>1 DEF IsFirst
    <3> QED BY <1>2, <2>3, <3>1, <3>2
  <2> QED BY <2>4, <2>5
<1>7. Upto \ Before \subseteq Together(A, S)
  <2> SUFFICES ASSUME NEW u, u \in Upto, u \notin Before
               PROVE  \E i \in S : u \in A[i]
    BY DEF Together
  <2>1. PICK z \in Logins(events) : UserOf[z] = u /\ DayOf[z] \in 0..e
    BY InActive
  <2>2. PICK x : IsFirst(events, x, u)
    BY <2>1, SomeFirst
  <2>3. x \in Logins(events) /\ UserOf[x] = u /\ DayOf[x] <= DayOf[z] /\ DayOf[x] \in Nat
    BY <1>3, <2>1, <2>2 DEF IsFirst
  <2>4. DayOf[x] \notin 0..(s - 1)
    BY <2>3, InActive
  <2>5. DayOf[x] - s + 1 \in S /\ DayOf[x] = Nth(s, DayOf[x] - s + 1)
    BY <1>2, <2>1, <2>3, <2>4 DEF Nth, Period
  <2> QED BY <1>4, <2>2, <2>5
<1>8. IsFiniteSet(Upto) /\ IsFiniteSet(Before)
  BY ActiveFinite
<1>9. \A i \in S : IsFiniteSet(A[i])
  <2>1. \A i \in S : A[i] \subseteq Upto
    BY <1>6 DEF Together
  <2> QED BY <1>8, <2>1, FS_Subset
<1>10. IsFiniteSet(S)
  <2>1. 1 \in Int /\ n \in Int
    BY DEF Period
  <2> QED BY <2>1, FS_Interval
<1>11. Cardinality(Together(A, S)) = Sum(c, S)
  <2>1. \A i \in S : c[i] = Cardinality(A[i])
    BY <1>1
  <2> HIDE DEF S
  <2> QED BY <1>5, <1>9, <1>10, <2>1, UnionCount
<1>12. Before \subseteq Upto
  <2>1. \A k \in Nat : k \in 0..(s - 1) => k \in 0..e
    BY <1>2
  <2> QED BY <1>3, <2>1, InActive
<1>13. Cardinality(Upto \ Before) = Cardinality(Upto) - Cardinality(Before)
  <2>1. Upto \cap Before = Before
    BY <1>12
  <2> HIDE DEF Upto, Before
  <2>2. Cardinality(Upto \ Before) = Cardinality(Upto) - Cardinality(Upto \cap Before)
    BY <1>8, FS_Difference
  <2> QED BY <2>1, <2>2
<1>14. Together(A, S) = Upto \ Before
  BY <1>6, <1>7
<1>15. SumOf(c) = Sum(c, S)
  BY DEF Sum, SumOf
<1> QED BY <1>11, <1>13, <1>14, <1>15
-----------------------------------------------------------------------------
(* The quotient and the remainder of a division. *)
LEMMA Division ==
    ASSUME NEW a \in Nat, NEW b \in Nat, b > 0
    PROVE  /\ a \div b \in Nat /\ a % b \in Nat
           /\ a = b * (a \div b) + (a % b) /\ a % b < b
OBVIOUS

(* A product grows with its factor. *)
LEMMA TimesMonotone ==
    ASSUME NEW a \in Nat, NEW b \in Nat, NEW k \in Nat, a <= b
    PROVE  a * k <= b * k /\ a * k \in Nat /\ b * k \in Nat
OBVIOUS

(* The rate of a part of the users is a share of the scale. *)
LEMMA RateOfPart ==
    ASSUME NEW part \in Nat, NEW whole \in Nat, part <= whole
    PROVE  Rate(part, whole) \in {Null} \cup 0..RateScale
<1> DEFINE a == 2 * part * RateScale + whole
           b == 2 * whole
           q == a \div b
           r == a % b
<1>1. CASE whole = 0
  BY <1>1 DEF Rate
<1>2. CASE whole # 0
  <2>1. RateScale \in Nat
    BY QueriesAssumption
  <2>2. part * RateScale <= whole * RateScale /\ part * RateScale \in Nat
        /\ whole * RateScale \in Nat
    BY <2>1, TimesMonotone
  <2>3. a = 2 * (part * RateScale) + whole /\ a \in Nat /\ b \in Nat /\ b > 0
    BY <1>2, <2>1, <2>2
  <2>4. q \in Nat /\ r \in Nat /\ a = b * q + r /\ r < b
    <3> HIDE DEF a, b
    <3> QED BY <2>3, Division
  <2>5. q <= RateScale
    <3> SUFFICES ASSUME ~(q <= RateScale) PROVE FALSE
      OBVIOUS
    <3>1. q >= RateScale + 1
      BY <2>1, <2>4
    <3>2. b * q >= b * (RateScale + 1)
      <4> HIDE DEF q, b
      <4>1. (RateScale + 1) * b <= q * b
        BY <2>1, <2>3, <2>4, <3>1, TimesMonotone
      <4>2. (RateScale + 1) * b = b * (RateScale + 1) /\ q * b = b * q
        BY <2>1, <2>3, <2>4
      <4> QED BY <2>1, <2>3, <2>4, <4>1, <4>2
    <3>3. b * (RateScale + 1) = 2 * (whole * RateScale) + 2 * whole
      BY <2>1
    <3>4. b * q \in Nat
      <4> HIDE DEF q, b
      <4> QED BY <2>3, <2>4
    <3> HIDE DEF q, b, r, a
    <3> QED BY <1>2, <2>2, <2>3, <2>4, <3>2, <3>3, <3>4
  <2>6. Rate(part, whole) = q
    BY <1>2 DEF Rate
  <2> HIDE DEF q
  <2> QED BY <2>1, <2>4, <2>5, <2>6
<1> QED BY <1>1, <1>2

(* ArpuCents() rounds to the nearest cent. *)
LEMMA ArpuNearest ==
    ASSUME NEW revenue \in Nat, NEW users \in Nat
    PROVE  IsNearest(ArpuCents(revenue, users), revenue, users)
<1> DEFINE a == revenue * CentScale
           q == a \div users
           r == a % users
           up == IF 2 * r >= users THEN 1 ELSE 0
<1>1. CASE users = 0
  BY <1>1 DEF ArpuCents, IsNearest
<1>2. CASE users # 0
  <2>1. a \in Nat /\ users > 0 /\ CentScale \in Nat
    BY <1>2, QueriesAssumption
  <2>2. q \in Nat /\ r \in Nat /\ a = users * q + r /\ r < users
    <3> HIDE DEF a
    <3> QED BY <2>1, Division
  <2>3. ArpuCents(revenue, users) = q + up
    BY <1>2 DEF ArpuCents
  <2> DEFINE p == users * q
             cents == q + up
  <2>4. 2 * cents * users = 2 * p + 2 * (up * users) /\ up * users = IF up = 1 THEN users ELSE 0
    <3> HIDE DEF q, r
    <3> QED BY <2>2
  <2>5. p \in Nat
    <3> HIDE DEF q
    <3> QED BY <2>2
  <2>6. 2 * revenue * CentScale = 2 * a
    BY <2>1
  <2>7. /\ 2 * a < 2 * cents * users + users
        /\ 2 * cents * users <= 2 * a + users
    <3>1. up \in {0, 1} /\ (up = 1 <=> 2 * r >= users)
      OBVIOUS
    <3>2. a = p + r
      BY <2>2
    <3>3. 2 * cents * users = 2 * p + (IF up = 1 THEN 2 * users ELSE 0)
      <4> HIDE DEF cents, p, up, q, r
      <4> QED BY <2>4, <2>5
    <3> DEFINE w == 2 * cents * users
    <3> HIDE DEF p, up, a, q, r, cents
    <3>4. w = 2 * p + (IF up = 1 THEN 2 * users ELSE 0)
      BY <3>3
    <3> HIDE DEF w
    <3>5. 2 * a < w + users /\ w <= 2 * a + users
      BY <2>1, <2>2, <2>5, <3>1, <3>2, <3>4
    <3> QED BY <3>5 DEF w
  <2> QED BY <1>2, <2>3, <2>6, <2>7 DEF IsNearest
<1> QED BY <1>1, <1>2
-----------------------------------------------------------------------------
(* Everything that holds of a request at any time. *)
MetricsInv == ReadInv /\ TimeInv /\ TypeOK /\ AnswerInv

(* An answer of one snapshot has a summary that fits its rows. *)
LEMMA SummaryAgrees == MetricsInv => SummaryAgreesWithRows
<1> SUFFICES ASSUME MetricsInv, answer.status = "200" PROVE SummaryAgreesWithRows
    BY DEF SummaryAgreesWithRows, Answered
<1> DEFINE n == query.end - query.start + 1
           ev == snapshot.events
           pd == snapshot.paid
           s == query.start
           e == query.end
<1>1. PICK day \in Nat : AnswerData(n, day)
    BY AnswerFacts DEF MetricsInv
<1>2. /\ Period(s, e, n) /\ ev \subseteq Item /\ IsFiniteSet(ev)
      /\ pd \subseteq ev /\ pd \subseteq Item /\ IsFiniteSet(pd)
    BY <1>1, FS_Subset DEF AnswerData
<1> HIDE DEF n
<1>3. ASSUME query.kind = "dau"
      PROVE  IsUnionOf(answer.summary.active, [i \in DOMAIN answer.rows |-> answer.rows[i].dau])
    <2> DEFINE c == [i \in DOMAIN answer.rows |-> answer.rows[i].dau]
    <2>1. /\ DOMAIN c = 1..n
          /\ \A i \in 1..n : c[i] = Cardinality(Active(ev, Nth(s, i), Nth(s, i)))
          /\ answer.summary.active = Cardinality(Active(ev, s, e))
        <3>1. DOMAIN answer.rows = 1..n
            BY <1>1, <1>3, DauAnswer
        <3>2. ASSUME NEW i \in 1..n
              PROVE  answer.rows[i].dau = Cardinality(Active(ev, Nth(s, i), Nth(s, i)))
            <4>1. answer.rows[i] = [day |-> Nth(s, i),
                                    dau |-> Cardinality(Active(ev, Nth(s, i), Nth(s, i)))]
                BY <1>1, <1>3, DauAnswer
            <4> QED
                BY <4>1
        <3> QED
            BY <1>1, <1>3, <3>1, <3>2, DauAnswer
    <2> HIDE DEF c
    <2>2. IsUnionOf(Cardinality(Active(ev, s, e)), c)
        <3>1. Period(s, e, n) /\ ev \subseteq Item /\ IsFiniteSet(ev)
            BY <1>2
        <3>2. ActivesOfDays(c, ev, s, n)
            BY <2>1 DEF ActivesOfDays
        <3> HIDE DEF ev, s, e
        <3> QED
            BY <3>1, <3>2, PeriodIsUnion
    <2> QED
        BY <2>1, <2>2 DEF c
<1>4. ASSUME query.kind \in {"revenue", "conversion"}
      PROVE  IsUnionOf(answer.summary.active,
                       [i \in DOMAIN answer.rows |-> answer.rows[i].active])
    <2> DEFINE c == [i \in DOMAIN answer.rows |-> answer.rows[i].active]
    <2>1. /\ DOMAIN answer.rows = 1..n
          /\ \A i \in 1..n : answer.rows[i].active
                                = Cardinality(Active(ev, Nth(s, i), Nth(s, i)))
          /\ answer.summary.active = Cardinality(Active(ev, s, e))
        BY <1>1, <1>4, RevenueAnswer, ConversionAnswer
    <2>2. DOMAIN c = 1..n /\ \A i \in 1..n : c[i] = Cardinality(Active(ev, Nth(s, i), Nth(s, i)))
        BY <2>1
    <2> HIDE DEF c
    <2>3. IsUnionOf(Cardinality(Active(ev, s, e)), c)
        <3>1. Period(s, e, n) /\ ev \subseteq Item /\ IsFiniteSet(ev)
            BY <1>2
        <3>2. ActivesOfDays(c, ev, s, n)
            BY <2>2 DEF ActivesOfDays
        <3> HIDE DEF ev, s, e
        <3> QED
            BY <3>1, <3>2, PeriodIsUnion
    <2> QED
        BY <2>1, <2>3 DEF c
<1>5. ASSUME query.kind = "revenue"
      PROVE  answer.summary.revenue = SumOf([i \in DOMAIN answer.rows |-> answer.rows[i].revenue])
    <2> DEFINE c == [i \in DOMAIN answer.rows |-> answer.rows[i].revenue]
               Sold(a, b) == {x \in Within(pd, a, b) : CurrencyOf[x] = query.currency}
    <2>1. /\ DOMAIN c = 1..n
          /\ \A i \in 1..n : c[i] = Amount(Sold(Nth(s, i), Nth(s, i)))
          /\ answer.summary.revenue = Amount(Sold(s, e))
        BY <1>1, <1>5, RevenueAnswer
    <2> HIDE DEF c
    <2>2. Amount(Sold(s, e)) = SumOf(c)
        <3> DEFINE cur == query.currency
        <3>1. RevenueOfDays(c, pd, cur, s, n)
            BY <2>1 DEF RevenueOfDays
        <3>0. Period(s, e, n) /\ pd \subseteq Item /\ IsFiniteSet(pd)
            BY <1>2
        <3> HIDE DEF pd, s, e, cur
        <3>3. Amount({x \in Within(pd, s, e) : CurrencyOf[x] = cur}) = SumOf(c)
            BY <3>0, <3>1, RevenueAdds
        <3> QED
            BY <3>3 DEF cur
    <2> HIDE DEF Sold
    <2> QED
        BY <2>1, <2>2 DEF c
<1>6. ASSUME query.kind = "conversion", NEW i \in DOMAIN answer.rows
      PROVE  answer.rows[i].paying <= answer.summary.paying
    <2> DEFINE d == Nth(s, i)
               D == Paying(ev, pd, d, d)
               P == Paying(ev, pd, s, e)
    <2>1. /\ i \in 1..n /\ answer.rows[i].paying = Cardinality(D)
          /\ answer.summary.paying = Cardinality(P)
        BY <1>1, <1>6, ConversionAnswer
    <2>2. d \in Nat /\ s \in Nat /\ e \in Nat /\ \A k \in Nat : k \in d..d => k \in s..e
        BY <1>2, <2>1 DEF Period, Nth
    <2> HIDE DEF d
    <2>3. \A x \in ev : DayOf[x] \in Nat
        BY <1>2, QueriesAssumption
    <2>4. Within(pd, d, d) \subseteq Within(pd, s, e)
          /\ Within(Logins(ev), d, d) \subseteq Within(Logins(ev), s, e)
        BY <1>2, <2>2, <2>3 DEF Within, Logins
    <2>5. D \subseteq P
        BY <2>4 DEF Paying, Active, Users
    <2>6. IsFiniteSet(P)
        <3>1. P \subseteq Active(ev, s, e)
            BY DEF Paying
        <3> QED
            BY <1>2, <3>1, ActiveFinite, FS_Subset
    <2> HIDE DEF D, P
    <2> QED
        BY <2>1, <2>5, <2>6, PartNoLarger
<1> QED
    BY <1>3, <1>4, <1>5, <1>6 DEF SummaryAgreesWithRows, Answered

(* Its cohorts are the new users. *)
LEMMA CohortsAreNew == MetricsInv => CohortsAreTheNewUsers
<1> SUFFICES ASSUME MetricsInv, answer.status = "200", query.kind = "retention"
             PROVE  SumOf([i \in DOMAIN answer.rows |-> answer.rows[i].new]) =
                      Cardinality(Active(snapshot.events, 0, query.end))
                      - Cardinality(Active(snapshot.events, 0, query.start - 1))
    BY DEF CohortsAreTheNewUsers, Answered
<1> DEFINE n == query.end - query.start + 1
           ev == snapshot.events
           s == query.start
           e == query.end
           c == [i \in DOMAIN answer.rows |-> answer.rows[i].new]
<1>1. PICK day \in Nat : AnswerData(n, day)
    BY AnswerFacts DEF MetricsInv
<1>2. Period(s, e, n) /\ ev \subseteq Item /\ IsFiniteSet(ev) /\ s <= e
    BY <1>1 DEF AnswerData
<1> HIDE DEF n
<1>3. DOMAIN c = 1..n /\ \A i \in 1..n : c[i] = Cardinality(Cohort(ev, s, e, Nth(s, i)))
    BY <1>1, RetentionAnswer
<1> HIDE DEF c
<1>4. SumOf(c) = Cardinality(Active(ev, 0, e)) - Cardinality(Active(ev, 0, s - 1))
    <2> HIDE DEF ev, s, e
    <2> QED
        BY <1>2, <1>3, CohortsAdd
<1> QED
    BY <1>4 DEF c

(* The rate of those of a finite set of users who are also in another set.   *)
LEMMA RateOfSome ==
    ASSUME NEW whole, IsFiniteSet(whole), NEW users
    PROVE  /\ Rate(Cardinality(users \cap whole), Cardinality(whole)) \in {Null} \cup 0..RateScale
           /\ Rate(Cardinality(whole \cap users), Cardinality(whole)) \in {Null} \cup 0..RateScale
<1>1. users \cap whole \subseteq whole /\ whole \cap users = users \cap whole
    OBVIOUS
<1> QED
    BY <1>1, PartNoLarger, RateOfPart

(* Its rates are shares. *)
LEMMA RatesInRange == MetricsInv => RatesAreShares
<1> SUFFICES ASSUME MetricsInv, answer.status = "200" PROVE RatesAreShares
    BY DEF RatesAreShares, Answered
<1> DEFINE n == query.end - query.start + 1
           ev == snapshot.events
           Shares == {Null} \cup 0..RateScale
<1>1. PICK day \in Nat : AnswerData(n, day)
    BY AnswerFacts DEF MetricsInv
<1>2. /\ ev \subseteq Item /\ IsFiniteSet(ev)
      /\ \A a, b : IsFiniteSet(Active(ev, a, b))
    BY <1>1, ActiveFinite DEF AnswerData
<1> HIDE DEF n
<1>3. ASSUME query.kind = "conversion"
      PROVE  /\ \A i \in DOMAIN answer.rows : answer.rows[i].rate \in Shares
             /\ answer.summary.rate \in Shares
    <2>1. \A a, b : Rate(Cardinality(Paying(ev, snapshot.paid, a, b)),
                         Cardinality(Active(ev, a, b))) \in Shares
        BY <1>2, RateOfSome DEF Paying
    <2>2. ASSUME NEW i \in 1..n PROVE answer.rows[i].rate \in Shares
        <3> DEFINE d == Nth(query.start, i)
        <3>1. answer.rows[i].rate = Rate(Cardinality(Paying(ev, snapshot.paid, d, d)),
                                         Cardinality(Active(ev, d, d)))
            BY <1>1, <1>3, ConversionAnswer
        <3> HIDE DEF Shares
        <3> QED
            BY <2>1, <3>1
    <2>3. answer.summary.rate = Rate(Cardinality(Paying(ev, snapshot.paid, query.start, query.end)),
                                     Cardinality(Active(ev, query.start, query.end)))
        BY <1>1, <1>3, ConversionAnswer
    <2>4. DOMAIN answer.rows = 1..n
        BY <1>1, <1>3, ConversionAnswer
    <2> HIDE DEF Shares
    <2> QED
        BY <2>1, <2>2, <2>3, <2>4
<1>4. ASSUME query.kind = "engagement", NEW i \in DOMAIN answer.rows
      PROVE  answer.rows[i].rate \in Shares
    <2>1. PICK users, d : answer.rows[i].rate =
                    Rate(Cardinality(users \cap Active(ev, d, d)), Cardinality(Active(ev, d, d)))
        BY <1>1, <1>4, EngagementAnswer
    <2> QED
        BY <1>2, <2>1, RateOfSome
<1>5. ASSUME query.kind = "retention", NEW i \in DOMAIN answer.rows, NEW k \in RetentionDays
      PROVE  answer.rows[i].rate[k] \in Shares
    <2> DEFINE d == Nth(query.start, i)
               cohort == Cohort(ev, query.start, query.end, d)
    <2>1. answer.rows[i].rate[k] \in
            {Null, Rate(Cardinality(cohort \cap Active(ev, d + k, d + k)), Cardinality(cohort))}
        BY <1>1, <1>5, RetentionAnswer
    <2>2. IsFiniteSet(cohort)
        <3>1. Within(FirstLogins(ev, query.start, query.end), d, d) \subseteq ev
            BY DEF Within, FirstLogins, Logins
        <3> QED
            BY <1>2, <3>1, FS_Subset, UsersFinite DEF Cohort
    <2> HIDE DEF cohort
    <2>3. Rate(Cardinality(cohort \cap Active(ev, d + k, d + k)), Cardinality(cohort)) \in Shares
        BY <2>2, RateOfSome
    <2> HIDE DEF d
    <2> QED
        BY <2>1, <2>3
<1> HIDE DEF Shares
<1>6. ASSUME query.kind \in {"conversion", "engagement", "retention"}, NEW i \in DOMAIN answer.rows
      PROVE  RatesOf(answer.rows[i]) \subseteq Shares
    BY <1>3, <1>4, <1>5, <1>6 DEF RatesOf
<1> QED
    BY <1>3, <1>6 DEF RatesAreShares, Answered, Shares

(* Its revenues per user are rounded. *)
LEMMA ArpuRounded == MetricsInv => ArpuIsNearest
<1> SUFFICES ASSUME MetricsInv, answer.status = "200", query.kind = "revenue"
             PROVE  ArpuIsNearest
    BY DEF ArpuIsNearest, Answered
<1> DEFINE n == query.end - query.start + 1
           pd == snapshot.paid
<1>1. PICK day \in Nat : AnswerData(n, day)
    BY AnswerFacts DEF MetricsInv
<1>2. /\ snapshot.events \subseteq Item /\ IsFiniteSet(snapshot.events)
      /\ pd \subseteq Item /\ IsFiniteSet(pd)
    BY <1>1, FS_Subset DEF AnswerData
<1> HIDE DEF n
<1>3. \A a, b : Cardinality(Active(snapshot.events, a, b)) \in Nat
    BY <1>2, ActiveFinite
<1>4. ASSUME NEW a, NEW b
      PROVE  Amount({x \in Within(pd, a, b) : CurrencyOf[x] = query.currency}) \in Nat
    <2> DEFINE R == {x \in Within(pd, a, b) : CurrencyOf[x] = query.currency}
    <2>1. R \subseteq pd
        BY DEF Within
    <2>2. IsFiniteSet(R) /\ \A x \in R : AmountOf[x] \in Nat
        BY <1>2, <2>1, FS_Subset, QueriesAssumption
    <2> HIDE DEF R
    <2>3. Sum(AmountOf, R) \in Nat
        BY <2>2, SumType
    <2> QED
        BY <2>3 DEF Sum, Amount, R
<1>5. ASSUME NEW i \in DOMAIN answer.rows
      PROVE  IsNearest(answer.rows[i].arpu, answer.rows[i].revenue, answer.rows[i].active)
    <2> DEFINE row == answer.rows[i]
    <2>1. i \in 1..n
        BY <1>1, RevenueAnswer
    <2>2. /\ row.revenue = Amount({x \in Within(pd, Nth(query.start, i), Nth(query.start, i)) :
                                      CurrencyOf[x] = query.currency})
          /\ row.active = Cardinality(Active(snapshot.events, Nth(query.start, i),
                                                             Nth(query.start, i)))
          /\ row.arpu = ArpuCents(row.revenue, row.active)
        BY <1>1, <2>1, RevenueAnswer
    <2>3. row.revenue \in Nat /\ row.active \in Nat
        BY <1>3, <1>4, <2>2
    <2> QED
        BY <2>2, <2>3, ArpuNearest
<1>6. IsNearest(answer.summary.arpu, answer.summary.revenue, answer.summary.active)
    <2> DEFINE sum == answer.summary
    <2>1. /\ sum.revenue = Amount({x \in Within(pd, query.start, query.end) :
                                      CurrencyOf[x] = query.currency})
          /\ sum.active = Cardinality(Active(snapshot.events, query.start, query.end))
          /\ sum.arpu = ArpuCents(sum.revenue, sum.active)
        BY <1>1, RevenueAnswer
    <2>2. sum.revenue \in Nat /\ sum.active \in Nat
        BY <1>3, <1>4, <2>1
    <2> QED
        BY <2>1, <2>2, ArpuNearest
<1> QED
    BY <1>5, <1>6 DEF ArpuIsNearest
-----------------------------------------------------------------------------
(* FlattenSeq() is the last of any prefixes that each append one sequence.   *)
IsFlattening(g, seqs) ==
    g = [i \in 1..Len(seqs) |-> IF i = 1 THEN seqs[i] ELSE g[i - 1] \o seqs[i]]

LEMMA FlattenByPrefixes ==
    ASSUME NEW seqs, Len(seqs) \in Nat, Len(seqs) # 0, NEW g, IsFlattening(g, seqs)
    PROVE  FlattenSeq(seqs) = g[Len(seqs)]
<1> DEFINE m == Len(seqs)
           h == CHOOSE f : IsFlattening(f, seqs)
           T == {k \in Nat : k + 1 \in 1..m => h[k + 1] = g[k + 1]}
<1>1. IsFlattening(h, seqs)
    OBVIOUS
<1>2. FlattenSeq(seqs) = h[m]
    BY DEF FlattenSeq, IsFlattening
<1> HIDE DEF h, m
<1>3. 0 \in T
    BY <1>1 DEF IsFlattening, m
<1>4. ASSUME NEW k \in T PROVE k + 1 \in T
    <2> SUFFICES ASSUME (k + 1) + 1 \in 1..m PROVE h[(k + 1) + 1] = g[(k + 1) + 1]
        OBVIOUS
    <2> DEFINE j == (k + 1) + 1
    <2>1. j \in 1..m /\ j # 1 /\ j - 1 = k + 1 /\ k + 1 \in 1..m
        BY DEF m
    <2>2. h[j - 1] = g[j - 1]
        BY <2>1
    <2> HIDE DEF j
    <2>3. h[j] = h[j - 1] \o seqs[j] /\ g[j] = g[j - 1] \o seqs[j]
        BY <1>1, <2>1 DEF IsFlattening, m
    <2>4. h[j] = g[j]
        BY <2>2, <2>3
    <2> QED
        BY <2>4 DEF j
<1>5. T = Nat
    <2>1. T \subseteq Nat
        OBVIOUS
    <2> HIDE DEF T
    <2> QED
        BY <1>3, <1>4, <2>1, NatSet
<1>6. m - 1 \in Nat /\ (m - 1) + 1 = m /\ m \in 1..m
    BY DEF m
<1>7. m - 1 \in T
    <2> HIDE DEF T
    <2> QED
        BY <1>5, <1>6
<1>8. h[m] = g[m]
    BY <1>6, <1>7
<1> QED
    BY <1>2, <1>8 DEF m

(* A prefix and what follows it are a longer prefix. *)
LEMMA PrefixAppend ==
    ASSUME NEW X, NEW s \in Seq(X), NEW a \in Nat, NEW b \in Nat, a <= b, b <= Len(s)
    PROVE  SubSeq(s, 1, a) \o SubSeq(s, a + 1, b) = SubSeq(s, 1, b)
<1> DEFINE u == SubSeq(s, 1, a)
           v == SubSeq(s, a + 1, b)
           w == SubSeq(s, 1, b)
<1>0. Len(s) \in Nat /\ \A i \in 1..Len(s) : s[i] \in X
    BY LenProperties
<1>1. u \in Seq(X) /\ Len(u) = a /\ \A i \in 1..a : u[i] = s[i]
    BY <1>0
<1>2. v \in Seq(X) /\ Len(v) = b - a /\ \A i \in 1..(b - a) : v[i] = s[a + i]
    BY <1>0
<1>3. w \in Seq(X) /\ Len(w) = b /\ \A i \in 1..b : w[i] = s[i]
    BY <1>0
<1> HIDE DEF u, v, w
<1>4. /\ u \o v \in Seq(X) /\ Len(u \o v) = Len(u) + Len(v)
      /\ \A i \in 1..(Len(u) + Len(v)) :
            (u \o v)[i] = IF i <= Len(u) THEN u[i] ELSE v[i - Len(u)]
    BY <1>1, <1>2, ConcatProperties
<1>5. Len(u \o v) = b
    BY <1>1, <1>2, <1>4
<1>6. ASSUME NEW i \in 1..b PROVE (u \o v)[i] = w[i]
    <2>1. (u \o v)[i] = IF i <= a THEN u[i] ELSE v[i - a]
        BY <1>1, <1>2, <1>4
    <2>2. CASE i <= a
        <3>1. i \in 1..a
            BY <2>2
        <3> QED
            BY <1>1, <1>3, <2>1, <2>2, <3>1
    <2>3. CASE ~(i <= a)
        <3>1. i - a \in 1..(b - a) /\ a + (i - a) = i
            BY <2>3
        <3> QED
            BY <1>2, <1>3, <2>1, <2>3, <3>1
    <2> QED
        BY <2>2, <2>3
<1>7. u \o v = w
    BY <1>3, <1>4, <1>5, <1>6, SeqEqual
<1> QED
    BY <1>7 DEF u, v, w

(* The last page is the first to reach the last row. *)
LEMMA PageCount ==
    ASSUME NEW len \in Nat, NEW size \in Nat, size > 0,
           NEW pages, pages = (len + size - 1) \div size
    PROVE  /\ pages \in Nat /\ pages * size >= len /\ pages * size < len + size
           /\ pages = 0 <=> len = 0
           /\ \A p \in Nat : /\ p * size \in Nat /\ (p + 1) * size = p * size + size
                             /\ p < pages => p * size < len
                             /\ p >= pages => p * size >= len
<1>1. /\ pages \in Nat /\ (len + size - 1) % size \in Nat
      /\ len + size - 1 = size * pages + ((len + size - 1) % size)
      /\ (len + size - 1) % size < size
    <2>1. len + size - 1 \in Nat
        OBVIOUS
    <2> QED
        BY <2>1, Division
<1>2. pages * size = size * pages /\ pages * size \in Nat
    BY <1>1
<1>3. pages * size >= len /\ pages * size < len + size
    BY <1>1, <1>2
<1>4. ASSUME NEW p \in Nat
      PROVE  p * size \in Nat /\ (p + 1) * size = p * size + size
    OBVIOUS
<1>5. ASSUME NEW p \in Nat, p < pages PROVE p * size < len
    <2>1. (p + 1) * size <= pages * size
        BY <1>1, <1>5, TimesMonotone
    <2> QED
        BY <1>2, <1>3, <1>4, <2>1
<1>6. ASSUME NEW p \in Nat, p >= pages PROVE p * size >= len
    <2>1. pages * size <= p * size
        BY <1>1, <1>6, TimesMonotone
    <2> QED
        BY <1>2, <1>3, <1>4, <2>1
<1>7. pages = 0 <=> len = 0
    <2>1. ASSUME pages = 0 PROVE len = 0
        <3>1. 0 * size = 0
            OBVIOUS
        <3> QED
            BY <1>3, <2>1, <3>1
    <2>2. ASSUME len = 0, pages # 0 PROVE FALSE
        <3>1. 0 < pages /\ 0 \in Nat
            BY <1>1, <2>2
        <3>2. 0 * size < len /\ 0 * size = 0
            BY <1>5, <3>1
        <3> QED
            BY <2>2, <3>2
    <2> QED
        BY <2>1, <2>2
<1> QED
    BY <1>1, <1>3, <1>4, <1>5, <1>6, <1>7

(* All pages, in order. *)
PagesOf(rows, pages, size) == [p \in 1..pages |-> Paginate(rows, p, size)]

(* The pages in order are the rows, and behind the last one is nothing. *)
LEMMA PagesTile ==
    ASSUME NEW X, NEW rows \in Seq(X), NEW size \in Nat, size > 0,
           NEW pages, pages = (Len(rows) + size - 1) \div size
    PROVE  /\ rows = FlattenSeq(PagesOf(rows, pages, size))
           /\ \A page \in Nat : page > pages => Paginate(rows, page, size) = <<>>
<1> DEFINE len == Len(rows)
           seqs == PagesOf(rows, pages, size)
           End(p) == IF p * size < len THEN p * size ELSE len
           g == [i \in 1..pages |-> SubSeq(rows, 1, End(i))]
<1>1. len \in Nat
    BY LenProperties
<1>2. /\ pages \in Nat
      /\ pages = 0 <=> len = 0
      /\ \A p \in Nat : /\ p * size \in Nat /\ (p + 1) * size = p * size + size
                        /\ p < pages => p * size < len
                        /\ p >= pages => p * size >= len
    <2>1. pages = (len + size - 1) \div size
        OBVIOUS
    <2> HIDE DEF len
    <2> QED
        BY <1>1, <2>1, PageCount
<1>3. Len(seqs) = pages /\ \A p \in 1..pages : seqs[p] = SubSeq(rows, (p - 1) * size + 1, End(p))
    <2>1. \A p \in 1..pages : seqs[p] = SubSeq(rows, (p - 1) * size + 1, End(p))
        BY DEF PagesOf, Paginate, Slice
    <2>2. Len(seqs) = pages
        BY <1>2 DEF PagesOf
    <2> QED
        BY <2>1, <2>2
<1>4. ASSUME NEW page \in Nat, page > pages PROVE Paginate(rows, page, size) = <<>>
    <2>1. page - 1 \in Nat /\ page - 1 >= pages
        BY <1>2, <1>4
    <2>2. (page - 1) * size >= len /\ (page - 1) * size \in Nat /\ page * size \in Nat
        BY <1>2, <2>1
    <2> DEFINE from == (page - 1) * size + 1
               to == End(page)
    <2>3. from \in Nat /\ to \in Nat /\ from > to
        BY <1>1, <2>2
    <2>4. Paginate(rows, page, size) = SubSeq(rows, from, to)
        BY DEF Paginate, Slice
    <2> HIDE DEF from, to
    <2>5. SubSeq(rows, from, to) = <<>>
        BY <2>3
    <2> QED
        BY <2>4, <2>5
<1>5. CASE pages = 0
    <2>1. rows = <<>>
        BY <1>2, <1>5, EmptySeq
    <2>2. seqs = <<>>
        BY <1>5 DEF PagesOf
    <2>3. FlattenSeq(seqs) = seqs
        BY <1>3, <1>5 DEF FlattenSeq
    <2> QED
        BY <1>4, <2>1, <2>2, <2>3
<1>6. CASE pages # 0
    <2>1. ASSUME NEW i \in 1..pages
          PROVE  g[i] = IF i = 1 THEN seqs[i] ELSE g[i - 1] \o seqs[i]
        <3> DEFINE b == End(i)
                   a == (i - 1) * size
        <3>1. i \in Nat /\ i - 1 \in Nat /\ i - 1 < pages /\ (i - 1) + 1 = i
            BY <1>2
        <3>2. a \in Nat /\ a < len /\ i * size = a + size
            BY <1>2, <3>1
        <3>3. b \in Nat /\ a <= b /\ b <= len
            BY <1>1, <3>2
        <3>4. g[i] = SubSeq(rows, 1, b) /\ seqs[i] = SubSeq(rows, a + 1, b)
            BY <1>3
        <3>5. CASE i = 1
            <4>1. a = 0
                BY <3>5
            <4> HIDE DEF a, b, g, seqs
            <4> QED
                BY <3>4, <3>5, <4>1
        <3>6. CASE i # 1
            <4>1. i - 1 \in 1..pages /\ End(i - 1) = a
                BY <3>1, <3>2, <3>6
            <4>2. g[i - 1] = SubSeq(rows, 1, a)
                BY <4>1
            <4>3. SubSeq(rows, 1, a) \o SubSeq(rows, a + 1, b) = SubSeq(rows, 1, b)
                <5> HIDE DEF a, b
                <5> QED
                    BY <3>2, <3>3, PrefixAppend
            <4> HIDE DEF a, b, g, seqs
            <4> QED
                BY <3>4, <3>6, <4>2, <4>3
        <3> QED
            BY <3>5, <3>6
    <2>2. IsFlattening(g, seqs)
        <3>1. g = [i \in 1..pages |-> IF i = 1 THEN seqs[i] ELSE g[i - 1] \o seqs[i]]
            <4>1. g = [i \in 1..pages |-> g[i]]
                OBVIOUS
            <4> HIDE DEF g, seqs
            <4> QED
                BY <2>1, <4>1
        <3> HIDE DEF g, seqs
        <3> QED
            BY <1>3, <3>1 DEF IsFlattening
    <2>3. FlattenSeq(seqs) = g[pages]
        <3> HIDE DEF g, seqs
        <3> QED
            BY <1>2, <1>3, <1>6, <2>2, FlattenByPrefixes
    <2>4. g[pages] = SubSeq(rows, 1, len)
        <3>1. End(pages) = len /\ pages \in 1..pages
            BY <1>1, <1>2, <1>6
        <3> QED
            BY <3>1
    <2>5. SubSeq(rows, 1, len) = rows
        BY <1>1
    <2> HIDE DEF g, len
    <2> QED
        BY <1>4, <2>3, <2>4, <2>5
<1> QED
    BY <1>5, <1>6

(* meta.total counts the rows. *)
LEMMA RowsAreAll ==
    ASSUME NEW n, NEW day, AnswerData(n, day)
    PROVE  DOMAIN answer.rows = 1..answer.total /\ answer.total \in Nat
<1>1. query.kind \in Kinds /\ query.types \in Seq(STRING)
    BY MetricsAssumption DEF AnswerData
<1>2. n \in Nat /\ n = query.end - query.start + 1 /\ Len(query.types) \in Nat
    BY <1>1, LenProperties DEF AnswerData, Period
<1>3. answer.total = IF query.kind = "engagement" THEN n * Len(query.types) ELSE n
    BY <1>2, AnswerFields DEF Total
<1>4. answer.total \in Nat
    BY <1>2, <1>3
<1>5. DOMAIN answer.rows = IF query.kind = "engagement" THEN 1..(n * Len(query.types)) ELSE 1..n
    <2>1. CASE query.kind = "dau"
        BY <2>1, DauAnswer
    <2>2. CASE query.kind = "revenue"
        BY <2>2, RevenueAnswer
    <2>3. CASE query.kind = "conversion"
        BY <2>3, ConversionAnswer
    <2>4. CASE query.kind = "retention"
        BY <2>4, RetentionAnswer
    <2>5. CASE query.kind = "engagement"
        BY <2>5, EngagementAnswer
    <2> QED
        BY <1>1, <2>1, <2>2, <2>3, <2>4, <2>5 DEF Kinds
<1> QED
    BY <1>3, <1>4, <1>5

(* Its pages hold the rows. *)
LEMMA PagesCover == MetricsInv => PagesCoverRows
<1> SUFFICES ASSUME MetricsInv, answer.status = "200" PROVE PagesCoverRows
    BY DEF PagesCoverRows, Answered
<1> DEFINE n == query.end - query.start + 1
           rows == answer.rows
           size == query.size
           pages == (answer.total + size - 1) \div size
           X == {rows[i] : i \in DOMAIN rows}
<1>1. PICK day \in Nat : AnswerData(n, day)
    BY AnswerFacts DEF MetricsInv
<1>2. DOMAIN rows = 1..answer.total /\ answer.total \in Nat
    BY <1>1, RowsAreAll
<1>3. rows = [i \in DOMAIN read[1] |-> RowOf(query, read[1][i], day)]
      /\ answer.data = Paginate(rows, query.page, size)
    BY <1>1, AnswerFields
<1>4. size \in Nat /\ size > 0 /\ query.page \in Nat
    BY <1>1, MetricsAssumption DEF AnswerData
<1> HIDE DEF n, rows, size
<1>5. rows = [i \in 1..answer.total |-> rows[i]]
    BY <1>2, <1>3
<1>6. rows \in Seq(X) /\ Len(rows) = answer.total
    BY <1>2, <1>5
<1>7. /\ rows = FlattenSeq(PagesOf(rows, pages, size))
      /\ \A page \in Nat : page > pages => Paginate(rows, page, size) = <<>>
    <2>1. pages = (Len(rows) + size - 1) \div size
        BY <1>6
    <2> HIDE DEF pages, X
    <2> QED
        BY <1>4, <1>6, <2>1, PagesTile
<1>8. pages \in Nat
    <2>1. answer.total + size - 1 \in Nat
        BY <1>2, <1>4
    <2> QED
        BY <1>4, <2>1, Division
<1>9. answer.data = IF query.page <= pages THEN Paginate(rows, query.page, size) ELSE <<>>
    <2> HIDE DEF pages
    <2> QED
        BY <1>3, <1>4, <1>7, <1>8
<1> QED
    BY <1>6, <1>7, <1>9 DEF PagesCoverRows, PagesOf, rows, size
-----------------------------------------------------------------------------
(* Whatever is committed meanwhile, a request keeps its invariant. *)
LEMMA MetricsInvariant == Spec => []MetricsInv
<1>1. Init => MetricsInv
    BY ReadInvInit, TimeInvInit, ShapeInit, AnswerInit DEF MetricsInv
<1>2. MetricsInv /\ [Next]_vars => MetricsInv'
    BY ReadInvNext, TimeInvNext, ShapeNext, AnswerNext DEF MetricsInv
<1> QED
    BY <1>1, <1>2, PTL DEF Spec

(* For any rows and any period: the active users of the summary are the      *)
(* union of those of the days, its revenue the sum of theirs.                *)
(* (snapshot(), dauWithSummary(), revenueWithSummary(),                      *)
(* conversionWithSummary())                                                  *)
THEOREM SummariesFit == Spec => []SummaryAgreesWithRows
BY SummaryAgrees, MetricsInvariant, PTL

(* For any history of logins the cohorts of a period sum up to the users     *)
(* seen by its end less those seen before it.  (retentionByCohort())         *)
THEOREM CohortsCountNewUsers == Spec => []CohortsAreTheNewUsers
BY CohortsAreNew, MetricsInvariant, PTL

(* Every rate is between 0 and 1, or null, also when sessions lie across     *)
(* midnight.  (rate(), round4() over the queries)                            *)
THEOREM RatesStayShares == Spec => []RatesAreShares
BY RatesInRange, MetricsInvariant, PTL

(* For any revenue and any number of users, arpu_minor is the nearest cent.  *)
(* (formatArpuMinor())                                                       *)
THEOREM ArpuIsRounded == Spec => []ArpuIsNearest
BY ArpuRounded, MetricsInvariant, PTL

(* For any number of rows and any size of a page, the pages read in order    *)
(* are the rows, and no page follows.  (paginate(), buildMeta())             *)
THEOREM PagesHoldAllRows == Spec => []PagesCoverRows
BY PagesCover, MetricsInvariant, PTL
=============================================================================
