------------------------------ MODULE Ingestion ------------------------------
(***************************************************************************)
(* The receiver's ingestion: IngestionService.ingest() validates a batch   *)
(* and IngestionRepository.storeBatch() stores it in one READ COMMITTED    *)
(* transaction of two statements, INSERT INTO game_events and INSERT INTO  *)
(* purchases, both ON CONFLICT DO NOTHING.  Requests run concurrently: the *)
(* database inserts the rows of a statement one at a time and makes a row  *)
(* wait for the transaction that holds the same key, so two batches can    *)
(* wait for each other.                                                    *)
(*                                                                         *)
(* The TimeoutInterceptor answers 503 after its deadline without stopping  *)
(* the transaction, and a process death leaves its transactions to the     *)
(* database, which ends them.                                              *)
(*                                                                         *)
(* A request is the handling of one POST; a retry of the same batch is     *)
(* another request.  An item is one version of an event: clients may send  *)
(* the same event_id twice, in one batch or in two, with the same content  *)
(* or not.  Validation bounds neither the integers nor the characters of an *)
(* event, the columns do (BIGINT, INTEGER, no NUL in text or JSONB): an    *)
(* accepted item the tables refuse fails its statement each time it is sent.*)
(***************************************************************************)
EXTENDS Integers, Sequences, FiniteSets

CONSTANTS
    Request,
    Item, IdOf, OrderOf, NoOrder,  \* as in EventStore
    Invalid,     \* items validateEvent() refuses
    Unstorable,  \* items it accepts and game_events refuses
    Underivable, \* items game_events takes and purchases refuses
    Batches,     \* the bodies clients send: non-empty sequences of items
    MaxCrashes   \* deaths of the receiver process

ASSUME IngestionAssumption ==
    /\ DOMAIN IdOf = Item
    /\ DOMAIN OrderOf = Item
    /\ Invalid \subseteq Item
    /\ Unstorable \subseteq Item \ Invalid
    /\ Underivable \subseteq Item \ (Invalid \cup Unstorable)
    /\ Batches \subseteq Seq(Item) \ {<<>>}
    /\ MaxCrashes \in Nat

VARIABLES
    gameEvents,  \* committed rows of game_events
    purchases,   \* the items with a committed row in purchases
    phase,       \* where the handling of each request is
    batch,       \* the events of each request
    row,         \* the next row of the statement under way
    inserted,    \* rows each open transaction has put into game_events
    paid,        \* and into purchases
    answer,      \* what the client of each request has been told
    orphans,     \* requests whose receiver process died
    crashes

tables == <<gameEvents, purchases>>
vars == <<tables, phase, batch, row, inserted, paid, answer, orphans, crashes>>

Ids(items) == {IdOf[e] : e \in items}
Orders(items) == {OrderOf[e] : e \in items} \ {NoOrder}
-----------------------------------------------------------------------------
(***************************************************************************)
(* ingest(): validation and the removal of repeated ids.  Events keep      *)
(* their index in the batch; a statement takes its rows in index order.    *)
(***************************************************************************)
AcceptedRows(b) == {i \in DOMAIN b : b[i] \notin Invalid}
RejectedRows(b) == {i \in DOMAIN b : b[i] \in Invalid}

(* Faulty variant: repeated ids of a batch are not removed. *)
UniqueRowsRepeated(b) == AcceptedRows(b)

UniqueRows(b) ==
    {i \in AcceptedRows(b) : \A j \in AcceptedRows(b) : j < i => IdOf[b[j]] # IdOf[b[i]]}

(* Faulty variant: every accepted shop_purchase is derived, newly stored or not. *)
CandidateRowsOfAll(r) ==
    {i \in UniqueRows(batch[r]) : OrderOf[batch[r][i]] # NoOrder}

(* Of the unique events the newly stored ones that are a shop_purchase. *)
CandidateRows(r) ==
    {i \in UniqueRows(batch[r]) :
        OrderOf[batch[r][i]] # NoOrder /\ IdOf[batch[r][i]] \in Ids(inserted[r])}

IsNextRow(i, rows, done) == i \in rows /\ i > done /\ \A j \in rows : j > done => i <= j
AllRowsDone(rows, done) == \A i \in rows : i <= done

(* The body of an answer; every status but "ok" carries no counts. *)
Answer(status, received, accepted, stored, orderDuplicate, rejected) ==
    [status |-> status, received |-> received, accepted |-> accepted, stored |-> stored,
     duplicate |-> accepted - stored, orderDuplicate |-> orderDuplicate,
     rejected |-> rejected]
NoCounts(status) == Answer(status, 0, 0, 0, 0, {})

(* Faulty variant: purchases of duplicates are counted as order duplicates. *)
OkAnswerOverCounting(r) ==
    LET orders == {i \in AcceptedRows(batch[r]) : OrderOf[batch[r][i]] # NoOrder}
    IN  Answer("ok", Len(batch[r]), Cardinality(AcceptedRows(batch[r])),
               Cardinality(inserted[r]), Cardinality(orders) - Cardinality(paid[r]),
               RejectedRows(batch[r]))

OkAnswer(r) ==
    Answer("ok", Len(batch[r]), Cardinality(AcceptedRows(batch[r])),
           Cardinality(inserted[r]), Cardinality(CandidateRows(r)) - Cardinality(paid[r]),
           RejectedRows(batch[r]))

(* Only an unanswered client can be told anything. *)
Tell(r, told) ==
    answer' = [answer EXCEPT ![r] = IF @.status = "none" THEN told ELSE @]

Alive(r) == r \notin orphans
OpenPhases == {"events", "purchases", "commit"}
Unfinished == {"connect", "committed"} \cup OpenPhases
-----------------------------------------------------------------------------
(* A request passes the guards and its batch is validated; a batch without *)
(* a valid event is answered without a transaction.                        *)
Receive(r) ==
    /\ phase[r] = "idle"
    /\ \E b \in Batches :
        /\ batch' = [batch EXCEPT ![r] = b]
        /\ IF UniqueRows(b) = {}
           THEN /\ phase' = [phase EXCEPT ![r] = "done"]
                /\ Tell(r, Answer("ok", Len(b), 0, 0, 0, RejectedRows(b)))
           ELSE /\ phase' = [phase EXCEPT ![r] = "connect"]
                /\ UNCHANGED answer
    /\ UNCHANGED <<tables, row, inserted, paid, orphans, crashes>>

(* transaction(): a connection of the pool and BEGIN. *)
Begin(r) ==
    /\ phase[r] = "connect"
    /\ Alive(r)
    /\ phase' = [phase EXCEPT ![r] = "events"]
    /\ row' = [row EXCEPT ![r] = 0]
    /\ UNCHANGED <<tables, batch, inserted, paid, answer, orphans, crashes>>

(* Another transaction holds the key of e: the statement waits for its end. *)
EventBlocked(r, e) ==
    \E s \in Request \ {r} : phase[s] \in OpenPhases /\ IdOf[e] \in Ids(inserted[s])
OrderBlocked(r, e) ==
    \E s \in Request \ {r} : phase[s] \in OpenPhases /\ OrderOf[e] \in Orders(paid[s])

(* The parameters of a statement are converted before its first row: one    *)
(* value out of range fails all of it.                                      *)
BadParameters(r) ==
    \/ phase[r] = "events" /\ \E i \in UniqueRows(batch[r]) : batch[r][i] \in Unstorable
    \/ phase[r] = "purchases" /\ \E i \in CandidateRows(r) : batch[r][i] \in Underivable

(* Faulty variant: the row counter runs one ahead. *)
InsertEventAhead(r) ==
    /\ phase[r] = "events"
    /\ ~BadParameters(r)
    /\ \E i \in UniqueRows(batch[r]) : LET e == batch[r][i] IN
        /\ IsNextRow(i, UniqueRows(batch[r]), row[r])
        /\ ~EventBlocked(r, e)
        /\ inserted' = [inserted EXCEPT ![r] =
               IF IdOf[e] \in Ids(gameEvents \cup @) THEN @ ELSE @ \cup {e}]
        /\ row' = [row EXCEPT ![r] = i + 1]
    /\ UNCHANGED <<tables, phase, batch, paid, answer, orphans, crashes>>

(* Faulty variant: check, then insert, without a unique key to wait for. *)
InsertEventUnlocked(r) ==
    /\ phase[r] = "events"
    /\ ~BadParameters(r)
    /\ \E i \in UniqueRows(batch[r]) : LET e == batch[r][i] IN
        /\ IsNextRow(i, UniqueRows(batch[r]), row[r])
        /\ inserted' = [inserted EXCEPT ![r] =
               IF IdOf[e] \in Ids(gameEvents \cup @) THEN @ ELSE @ \cup {e}]
        /\ row' = [row EXCEPT ![r] = i]
    /\ UNCHANGED <<tables, phase, batch, paid, answer, orphans, crashes>>

(* A row of INSERT INTO game_events ... ON CONFLICT (event_id) DO NOTHING. *)
InsertEvent(r) ==
    /\ phase[r] = "events"
    /\ ~BadParameters(r)
    /\ \E i \in UniqueRows(batch[r]) : LET e == batch[r][i] IN
        /\ IsNextRow(i, UniqueRows(batch[r]), row[r])
        /\ ~EventBlocked(r, e)
        /\ inserted' = [inserted EXCEPT ![r] =
               IF IdOf[e] \in Ids(gameEvents \cup @) THEN @ ELSE @ \cup {e}]
        /\ row' = [row EXCEPT ![r] = i]
    /\ UNCHANGED <<tables, phase, batch, paid, answer, orphans, crashes>>

(* Faulty variant: the two statements in a transaction each. *)
EventsInsertedCommitting(r) ==
    /\ phase[r] = "events"
    /\ Alive(r)
    /\ AllRowsDone(UniqueRows(batch[r]), row[r])
    /\ gameEvents' = gameEvents \cup inserted[r]
    /\ phase' = [phase EXCEPT ![r] =
           IF CandidateRows(r) = {} THEN "commit" ELSE "purchases"]
    /\ row' = [row EXCEPT ![r] = 0]
    /\ UNCHANGED <<purchases, batch, inserted, paid, answer, orphans, crashes>>

(* The statement returns the stored ids; without a newly stored purchase    *)
(* the second statement is skipped.                                         *)
EventsInserted(r) ==
    /\ phase[r] = "events"
    /\ Alive(r)
    /\ AllRowsDone(UniqueRows(batch[r]), row[r])
    /\ phase' = [phase EXCEPT ![r] =
           IF CandidateRows(r) = {} THEN "commit" ELSE "purchases"]
    /\ row' = [row EXCEPT ![r] = 0]
    /\ UNCHANGED <<tables, batch, inserted, paid, answer, orphans, crashes>>

(* A row of INSERT INTO purchases ... ON CONFLICT (order_id) DO NOTHING.    *)
(* Only the order is a conflict target: a second row with the primary key   *)
(* event_id would fail the statement.                                       *)
OrderHeld(r, e) == OrderOf[e] \in Orders(purchases \cup paid[r])
KeyClash(r, e) == ~OrderHeld(r, e) /\ IdOf[e] \in Ids(purchases \cup paid[r])

InsertPurchase(r) ==
    /\ phase[r] = "purchases"
    /\ ~BadParameters(r)
    /\ \E i \in CandidateRows(r) : LET e == batch[r][i] IN
        /\ IsNextRow(i, CandidateRows(r), row[r])
        /\ ~OrderBlocked(r, e)
        /\ ~KeyClash(r, e)
        /\ paid' = [paid EXCEPT ![r] = IF OrderHeld(r, e) THEN @ ELSE @ \cup {e}]
        /\ row' = [row EXCEPT ![r] = i]
    /\ UNCHANGED <<tables, phase, batch, inserted, answer, orphans, crashes>>

(* Faulty variant: the answer is sent before the commit. *)
PurchasesInsertedAnswering(r) ==
    /\ phase[r] = "purchases"
    /\ Alive(r)
    /\ AllRowsDone(CandidateRows(r), row[r])
    /\ phase' = [phase EXCEPT ![r] = "commit"]
    /\ Tell(r, OkAnswer(r))
    /\ UNCHANGED <<tables, batch, row, inserted, paid, orphans, crashes>>

PurchasesInserted(r) ==
    /\ phase[r] = "purchases"
    /\ Alive(r)
    /\ AllRowsDone(CandidateRows(r), row[r])
    /\ phase' = [phase EXCEPT ![r] = "commit"]
    /\ UNCHANGED <<tables, batch, row, inserted, paid, answer, orphans, crashes>>

(* The database commits; the COMMIT of a process that died may still arrive. *)
Commit(r) ==
    /\ phase[r] = "commit"
    /\ gameEvents' = gameEvents \cup inserted[r]
    /\ purchases' = purchases \cup paid[r]
    /\ phase' = [phase EXCEPT ![r] = IF Alive(r) THEN "committed" ELSE "done"]
    /\ UNCHANGED <<batch, row, inserted, paid, answer, orphans, crashes>>

(* ingest() returns: 200 with the counts, unless the deadline answered. *)
Reply(r) ==
    /\ phase[r] = "committed"
    /\ phase' = [phase EXCEPT ![r] = "done"]
    /\ Tell(r, OkAnswer(r))
    /\ UNCHANGED <<tables, batch, row, inserted, paid, orphans, crashes>>

(* Faulty variant: the 503 is sent, the statement goes on waiting. *)
FailAnswering(r) ==
    /\ phase[r] \in {"connect"} \cup OpenPhases
    /\ Tell(r, NoCounts("unavailable"))
    /\ UNCHANGED <<tables, phase, batch, row, inserted, paid, orphans, crashes>>

(* A statement is cancelled (statement_timeout, the budget of the           *)
(* transaction, a deadlock victim) or its parameters are bad, the pool or   *)
(* the connection fails: the transaction rolls back and ingest() throws a   *)
(* 503, whatever the error was.                                             *)
Fail(r) ==
    /\ phase[r] \in {"connect"} \cup OpenPhases
    /\ phase' = [phase EXCEPT ![r] = "failed"]
    /\ inserted' = [inserted EXCEPT ![r] = {}]
    /\ paid' = [paid EXCEPT ![r] = {}]
    /\ Tell(r, NoCounts("unavailable"))
    /\ UNCHANGED <<tables, batch, row, orphans, crashes>>

(* The TimeoutInterceptor: the answer is 503, the handler runs on. *)
Deadline(r) ==
    /\ phase[r] \in Unfinished
    /\ answer[r].status = "none"
    /\ Tell(r, NoCounts("unavailable"))
    /\ UNCHANGED <<tables, phase, batch, row, inserted, paid, orphans, crashes>>

(* The receiver dies: no client of an unfinished request hears from it, the *)
(* transactions are left to the database.                                   *)
Crash ==
    /\ crashes < MaxCrashes
    /\ crashes' = crashes + 1
    /\ orphans' = orphans \cup {r \in Request : phase[r] \in Unfinished}
    /\ answer' = [r \in Request |->
           IF phase[r] \in Unfinished /\ answer[r].status = "none"
           THEN NoCounts("lost") ELSE answer[r]]
    /\ phase' = [r \in Request |-> IF phase[r] = "committed" THEN "done" ELSE phase[r]]
    /\ UNCHANGED <<tables, batch, row, inserted, paid>>

(* No request is left and none will come. *)
Idle == (\A r \in Request : phase[r] \in {"done", "failed"}) /\ UNCHANGED vars
-----------------------------------------------------------------------------
Init ==
    /\ gameEvents = {}
    /\ purchases = {}
    /\ phase = [r \in Request |-> "idle"]
    /\ batch = [r \in Request |-> <<>>]
    /\ row = [r \in Request |-> 0]
    /\ inserted = [r \in Request |-> {}]
    /\ paid = [r \in Request |-> {}]
    /\ answer = [r \in Request |-> NoCounts("none")]
    /\ orphans = {}
    /\ crashes = 0

Step(r) ==
    \/ Begin(r) \/ InsertEvent(r) \/ EventsInserted(r) \/ InsertPurchase(r)
    \/ PurchasesInserted(r) \/ Commit(r) \/ Reply(r)

Next == (\E r \in Request : Receive(r) \/ Step(r) \/ Fail(r) \/ Deadline(r)) \/ Crash \/ Idle

Spec == Init /\ [][Next]_vars

(* The event loop runs on and the database ends a statement that it cannot  *)
(* convert, that waits too long (statement_timeout) or whose client is gone.*)
Blocked(r) ==
    \/ /\ phase[r] = "events"
       /\ \E i \in UniqueRows(batch[r]) :
            IsNextRow(i, UniqueRows(batch[r]), row[r]) /\ EventBlocked(r, batch[r][i])
    \/ /\ phase[r] = "purchases"
       /\ \E i \in CandidateRows(r) :
            IsNextRow(i, CandidateRows(r), row[r]) /\ OrderBlocked(r, batch[r][i])
Timeout(r) == (BadParameters(r) \/ Blocked(r) \/ ~Alive(r)) /\ Fail(r)

FairSpec == Spec /\ \A r \in Request : WF_vars(Step(r)) /\ WF_vars(Timeout(r))
-----------------------------------------------------------------------------
(***************************************************************************)
(* Properties.                                                             *)
(***************************************************************************)
(* Every variable has its type. *)
AnswerStatus == {"none", "ok", "unavailable", "lost"}
TypeOK ==
    /\ gameEvents \subseteq Item
    /\ purchases \subseteq Item
    /\ phase \in [Request -> {"idle", "done", "failed"} \cup Unfinished]
    /\ batch \in [Request -> Batches \cup {<<>>}]
    /\ \A r \in Request : row[r] \in 0..Len(batch[r])
    /\ inserted \in [Request -> SUBSET Item]
    /\ paid \in [Request -> SUBSET Item]
    /\ \A r \in Request : answer[r].status \in AnswerStatus
    /\ orphans \subseteq Request
    /\ crashes \in 0..MaxCrashes

(* The derived table is complete and holds nothing else: every order a      *)
(* stored event names has its purchase, and every purchase is of a stored   *)
(* event.  No crash, timeout or concurrent batch leaves an order without    *)
(* revenue, as the derivation happens only for newly stored events and is   *)
(* never repeated (ingestion.repository.ts:80-118).                         *)
PurchasesDerived ==
    /\ purchases \subseteq gameEvents
    /\ Orders(gameEvents) = Orders(purchases)

(* ON CONFLICT names order_id only: were a candidate's event_id already in  *)
(* purchases, the statement would fail on every retry of the batch and the  *)
(* sender would never get past it.                                          *)
NoKeyClash ==
    \A r \in Request : phase[r] = "purchases" =>
        \A i \in CandidateRows(r) : i > row[r] => ~KeyClash(r, batch[r][i])

(* Every 200 passes the sender's validateBatchResponse() for the batch it   *)
(* answers (scripts/send-events.ts:132-207): otherwise the sender would     *)
(* send the batch again for ever.                                           *)
PassesValidation(a, b) ==
    /\ a.received = Len(b)
    /\ {a.accepted, a.stored, a.duplicate, a.orderDuplicate} \subseteq Nat
    /\ a.received = a.accepted + Cardinality(a.rejected)
    /\ a.accepted = a.stored + a.duplicate
    /\ a.orderDuplicate <= a.stored
    /\ a.rejected \subseteq DOMAIN b
AnswersAreUsable ==
    \A r \in Request : answer[r].status = "ok" => PassesValidation(answer[r], batch[r])

(* A 200 is final: every event of the batch that was not rejected is in     *)
(* the database, under its id, when its client is told so.                  *)
AcknowledgedIsStored ==
    \A r \in Request : answer[r].status = "ok" =>
        \A i \in DOMAIN batch[r] \ answer[r].rejected :
            IdOf[batch[r][i]] \in Ids(gameEvents)

(* Every new row is counted as stored by exactly one request: the counts    *)
(* of all the answers that arrive, and of those that were lost, add up.     *)
EachRowCountedOnce ==
    LET Ended == {r \in Request : phase[r] \in {"committed", "done"}}
    IN  /\ gameEvents = UNION {inserted[r] : r \in Ended}
        /\ \A r, s \in Ended : r # s => inserted[r] \cap inserted[s] = {}

(* No transaction holds its rows for ever, whoever waits for whom. *)
RowsAreReleased ==
    \A r \in Request : phase[r] \in OpenPhases ~> phase[r] \notin OpenPhases

(* The concurrent transactions are equivalent to storing whole batches one  *)
(* after the other, the first version of an event winning and every order   *)
(* paid once: a commit is one Store step, everything else is invisible.     *)
Abstract == INSTANCE EventStore WITH stored <- gameEvents
ImplementsStore == Abstract!Spec

(* What docs/design.md:57 says of the deadlines, and the code does not do:  *)
(* past them the receiver rolls back, then answers 503.                     *)
UnavailableIsRolledBack ==
    \A r \in Request : answer[r].status = "unavailable" =>
        phase[r] \notin {"committed", "done"}
=============================================================================
