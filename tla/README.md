# logStack: a verification project

logStack collects game events. A *sender* beside a game server generates
events, appends them to a durable *outbox* and posts them in batches to a
*receiver*, which stores them in PostgreSQL, derives purchases from them and
answers metrics queries. The sender may die at any moment, requests and answers
may be lost or late, batches may be refused in part or as a whole; every event
must nevertheless end in the database once, or in the sender's journal of
refused events. The database runs on a machine of its own, which prepares its
data volume when it boots and dumps the database every day.

This directory models that in TLA+, model-checks it with TLC on small instances
and proves parts of it with TLAPS for all instances. `PROJECT.json` lists the
components, the runs, the source lines each definition stands for, the mutants
that show each property can fail, the hazards and the theorems.

    tlc -config MCOutbox_crash.cfg MCOutbox        # any run of the table below
    tlapm OutboxProofs.tla                         # any proof module

## Inventory

| Component | Source | State | Operations | What is hard | What makes it correct |
|---|---|---|---|---|---|
| Outbox | `sender/src/outbox.ts`, `failed-journal.ts` | journal, checkpoint, failed journal, compaction manifest on disk; offset, counters and a bounded id cache in memory | open (recovery), appendMany, peekBatch, confirm (with compaction), quarantine, close | a crash between any two system calls, torn lines, unsynced directory entries, a checkpoint newer than its journal | no recorded event is lost or passed over; a refused event is kept, once; counts are exact; opening always ends |
| SenderDaemon | `sender/src/daemon.ts`, `ack.ts`, `main.ts` | batch in flight, split plan, batch window, startup drain, halted and shutting-down flags | generateTick, sendLoop, sendBatch, start, stop | state read before an await; lost, late and garbled answers; nested splits; kill, stop and restart in the middle | at-least-once delivery, only deserved quarantines, split plan and batching rules kept, stop ends |
| Throttle, rate limit | `sender/src/throttle.ts`, `backoff.ts`, `src/auth/rate-limit.*.ts` | a counter of the current window on each side, in memory | tryAcquire, consume, the pause after a 429 | restarts, clocks apart, rounding of Retry-After, requests that cross a window | limit per window and per start, pauses long enough, 429 only as a last resort |
| Ingestion | `src/ingestion/*`, `common/interceptors/timeout.interceptor.ts`, the first migration | game_events, purchases, open transactions | validate, deduplicate, storeBatch, answer, deadline | rival batches waiting for each other's rows, timeouts, an answer before the commit, death between two statements | equivalent to storing whole batches one by one; every order paid once; usable counts; rows released |
| Authentication | `src/auth/*api-key*`, `safe-equals.ts` | none | accept or refuse a key | nothing that depends on order | input/output relation |
| HTTP setup and filters | `src/app.setup.ts`, `common/filters`, `common/*.ts` | none | error to status | nothing that depends on order | the table of status codes |
| Metrics | `src/metrics/*` | the transaction of a request: snapshot, deadline, results so far | five metrics: validation, one to three statements, rates, ARPU, pages | queries of one answer beside ingestion; a day that ends between query and answer; budgets; borders of periods and pages | rows and summary of one snapshot, bounded statements, cohorts of new users only, shares, exact rounding |
| Schema, data source | `src/database/*` | tables and constraints | connections, timeouts | - | the keys Ingestion relies on |
| Generator, configuration, logs | `sender/src/generator.ts`, `config.ts`, `logger.ts`, `log-gate.ts` | random state, a log gate | tick, parse, log | - | - |
| Scripts | `scripts/*.ts` | none | one-shot clients and load checks | the answer check is shared with the sender | `validateBatchResponse` |
| Database machine and backups | `infra/runtime/templates/db-*.sh, db-*.py, db-*.tftpl` | the volume: file system, identity marker, pgdata, configuration files; the machine: record of the installation, timer; lock, units and server of a boot; dump files, uploads and their notes | install, prepare (mount or format, claim or recognise, initdb, verify, configure, roles), serve, dump, upload, note | a failure, a kill or a power loss between any two steps, then another boot; a backup beside a server that fails | only a prepared cluster of this volume is reachable; no foreign or complete data is replaced; file names of a backup are true; the database comes up again |
| Terraform | `infra/**/*.tf` | - | declarations of resources | - | - |

Interactions. `generateTick` calls `Outbox.appendMany`; the send loop calls
`peekBatch`, asks the throttle for a slot, posts, and on the answer calls
`quarantine` and `confirm`. Node runs the sender's code without interruption
between two awaits, so the sender's own actions never overlap: what interleaves
is the clock, generation, signals, the receiver and the death of the process. A
request passes the receiver's guards (key, rate limit), the deadline interceptor
and the service; the repository runs one transaction of two statements.
Requests of several senders run concurrently, and the database serialises them
row by row. On the database machine systemd runs install, prepare and the
server in this order and restarts what fails; the backup runs beside the
server and shares one lock file with the preparation.

## Modules

| Module | Models | How state and actions correspond to the code |
|---|---|---|
| `OutboxQueue` | what the outbox promises | a queue; Offer, Record, Settle, PowerLoss |
| `Outbox` | `outbox.ts` with its files | every system call between two possible crashes is an action; `disk` is the directory, each file with what is synced and what is torn; `hist` the directories a power loss may leave, that is the directory operations since the last `fsyncDirectory`; `pc` the position inside the constructor or a method |
| `OutboxProofs` | | the inductive invariants, and theorems about `Outbox`: types, no loss, the failed journal |
| `OutboxRefinement` | | the refinement of `OutboxQueue` with `queue <- RecoveredQueue(disk)`, what a restart would find, and that the recorded count is exact |
| `SenderDaemon` | `daemon.ts`, `ack.ts`, signal handling of `main.ts` | `pc = "top"` is the head of `sendLoop`, `"asleep"` an awaited timer, `"inflight"` the awaited fetch, `"settling"` between `quarantine` and `confirm`; events are numbered as journaled, so the outbox is the interval `confirmed+1..written` and a batch its head |
| `MCSenderDaemon` | | sizes of the instances |
| `SenderProofs` | | theorems about `SenderDaemon`, whose outbox is an instance of `OutboxQueue` |
| `Throttle` | `throttle.ts`, `rate-limit.store.ts`, the 429 branch | both counters of one key, the request between them, two clocks |
| `ThrottleProofs` | | theorems about `Throttle` |
| `EventStore` | what ingestion promises | one step stores the new items of a batch and pays each new order once |
| `Ingestion` | service, repository, deadline | one request is one process; a statement inserts its rows one at a time and a row waits for an open transaction with the same key |
| `MCIngestion` | | items and batches |
| `IngestionProofs` | | theorems about `Ingestion`, the refinement of `EventStore` with `stored <- gameEvents` among them |
| `MetricsQueries` | the SQL of `metrics.repository.ts` and the arithmetic of `metrics.service.ts` | one operator per query, over the set of rows it sees; an event keeps its day, user, type, amount and currency |
| `Metrics` | one request of `metrics.service.ts` | `Begin` starts the transaction's time; `SetTimeout` computes a statement's budget and sends `SET LOCAL statement_timeout`; `Issue`, any time later, is the statement, which has its budget from then on and sees its rows then; `Finish` its result; `Respond` the commit and the answer, made with the day it is then; `Commit` a batch, as `EventStore` stores it |
| `MCMetrics` | | events and requests |
| `MetricsProofs` | | theorems about `Metrics` |
| `DatabaseHost` | `db-install.sh`, `db-bootstrap.sh`, `db-admin.py`, the systemd units | `pc` is the next step of the units of a boot; each step that a power loss can tell from its neighbours is an action; `given` is what the volume was when it was attached |
| `Backup` | `db-backup.py` on that machine | `job` is the next step of the backup; a dump is a number, its file a name (`.partial`, `.dump`), whole or cut, synced or not |
| `MCBackup` | | the two configuration files |
| `BackupProofs` | | theorems about `DatabaseHost` and `Backup` |
| `DataInduction` | | lemmas about sums and unions over finite sets, and the induction they need; used by the proofs of `Outbox`, `SenderDaemon` and `Metrics` |

The composition is by abstraction: `Outbox` implements `OutboxQueue`,
`SenderDaemon` uses an outbox that behaves as `OutboxQueue` and a receiver that
stores the valid events of a request as `EventStore` does, `Ingestion`
implements `EventStore`, and `Metrics` reads tables that grow by its steps.
`Backup` extends `DatabaseHost`: the two share lock, server and power supply.

### Abstractions

- `Outbox`: offsets count lines, not bytes; an append onto a torn line gives a
  `Garbage` line, which the next open refuses, as `loadJournal` does. A torn
  compaction or checkpoint file cannot be seen by a reader, since both are
  written aside and renamed. Not modelled: the fsync of the parent directory
  when the outbox directory is first made, the legacy checkpoint format,
  manually corrupted JSON, the repeated-id check inside one quarantine call
  (ids are unique). A full disk is a process death in mid-append, which is what
  the uncaught exception makes of it.
- Power loss: directory operations become durable in order and all at the next
  directory fsync; a file keeps any prefix of its unsynced lines, possibly with
  a torn last line. `PowerLoss` chooses among those images.
- `SenderDaemon`: sizes are small numbers and additive. All delays are
  arbitrary. A kill inside an append leaves any prefix of its lines. 413 is the
  answer to a body beyond `HardLimit`; a request with a `Poisoned` event, which
  validation takes and no INSERT ever will, is answered 5xx each time; with the deployed limits (3 MB for
  batches, 4 MB at the receiver) only single events get there, so the instances
  choose a `HardLimit` below `SoftLimit` to make batches split. The third part
  of a split, the remainder of a segment longer than its batch, is always empty
  in the model as in the code, as a segment is peeked whole
  (`SplitIsRespected`). 401, 400 and 429 may come at any time. Power loss is
  left to `Outbox`: after it the queue is what `OutboxQueue` says.
- `Throttle`: one key. An abandoned request does not arrive later; the pause
  after a lost request is arbitrary. Clocks run forwards and at one rate.
- `Ingestion`: items are of four kinds, by what happens to them: `validateEvent`
  refuses one (`Invalid`), game_events does (`Unstorable`, a `user_id` beyond
  BIGINT), purchases does (`Underivable`, a `quantity` beyond INTEGER), or none;
  two versions of an event under one id, and two events with one order, are
  items too. Batches beyond
  the body limits never get here. The COMMIT either takes effect or not; a COMMIT
  whose confirmation is lost ends as a `Deadline` before `Reply` does.

- `Metrics`: one request at a time, since requests read only and do not see each
  other. Times within a day are left out; rates are rounded exactly, where the
  code multiplies floating-point numbers, while ARPU is as exact in the code
  (BigInt). Sums do not overflow, as the code keeps them as `numeric` and text.
  `Fail` stands for every way to a 503: a cancelled statement, a pool or a
  connection that fails, the request deadline. A statement that goes on after
  the deadline has answered is not followed.
- `DatabaseHost`, `Backup`: the file systems are journaling ones, so an fsync
  makes every earlier operation durable; only the last rename and the file
  under way can be undone. `mkfs.ext4` is one step. A killed `initdb` leaves an
  empty, partial or bootstrapped pgdata; which of these `pg_controldata` accepts
  is `ClusterOK`. Checks of versions, checksums, mounts and clocks are steps
  that may fail. cloud-init enables the timer in the first boot only, if that
  boot reaches the server. What S3 holds is what it was given: the expiry after
  seven days is left out, as nothing on the machine reads S3.

## Runs

| Run | Instance | What it shows |
|---|---|---|
| `outbox_crash` | 4 events, 2 per append, 2 of them refused, compaction after 2, id cache of 1, 2 kills, 1 power loss | type; `NoLoss`; memory is the tail of the journal; no event quarantined twice; the recorded count is exact after a recovery; the files implement the queue |
| `outbox_kill` | 3 events, all refused, 2 kills | refused events that are confirmed are in the failed journal; every open and call ends |
| `outbox_fsync` | 2 events, 1 kill, 1 power loss | **violation**: `quarantine()` returns without an fsync when it finds the ids already in the file (first finding) |
| `sender_safety` | 4 events of sizes 1, 3, 1, 1, cap 3, limits 5 and 2, third invalid, fourth poisoned, a kill and a stop | `NothingLost`, `FailedForCause`, `SplitIsRespected`, `DrainMatchesBacklog`, `PartialBatchesAreAged`; the outbox is used as a queue |
| `sender_live` | 3 events of sizes 1, 2, 1, cap 2, limits 3 and 2, second invalid, third poisoned, a kill and a stop | every recorded event is delivered or quarantined unless a poisoned event is in its way; a stop ends |
| `throttle` | limits 2 and 4, windows of 4 ticks, seconds and request timeout of 2, clocks 1 tick apart, 3 windows, 2 restarts | limit per window and start; the pauses of the throttle and of Retry-After are enough; a 429 takes a restart |
| `ingestion_rivals` | 3 concurrent requests of 4 rival bodies, one with an order purchases refuses, 1 death of the receiver | type; whole batches one by one; every order has its purchase; no key clash; a 200 is final; every row counted once |
| `ingestion_ends` | 2 requests of 9 bodies, 1 death | every 200 passes the sender's check; no transaction stays open |
| `ingestion_deadline` | the same | **violation**: the deadline answers 503 and the transaction commits later (second finding) |
| `metrics_answers` | 5 events of 2 users on 2 days, a purchase without a login of its day; 11 requests of all kinds, over one and two days, good, bad, and beyond the last page; timeouts of 2 (statement), 3 (transaction), 1 (pool) and 3 (request) ticks; a midnight | one snapshot; rows and summary agree; cohorts; shares; ARPU; pages; statements end in time |
| `metrics_midnight` | the same events, retention, 3 days | **violation**: a rate is matured too early (third finding) |
| `backup` | any of 7 volumes, approved for formatting or not, 2 configuration files, 2 backups, 3 failures, kills or power losses | only a prepared cluster is served; nothing is replaced; the names of a backup's files are true; the database comes up or is stuck in a listed way |

Bounds. The outbox needs two appends, a confirm that compacts and a confirm
that does not, a quarantine that is repeated, and a crash during the recovery
from a crash: four events and three crashes reach all of these. The sender
needs a batch that splits twice and a later event that could be merged with its
second half: four events. A poisoned last event shows what goes on before it
and what does not. The throttle needs a full window, its predecessor and
a request across their border; one tick of skew lets the receiver's window begin
three ticks into the sender's, later than a request lives, so that the instance
meets `Headroom`, the assumption under which a 429 is claimed to take a restart
(the deployed limits, 60 and 120, meet its first part). Ingestion needs two batches with opposite row
orders, a repeated id in one batch, and a third request that meets what the two
have left. Metrics need a user who returns, one who is new on the second day,
one who pays on a day without a login, and a revenue that does not divide evenly:
`CentScale` 1 makes a half of it with two users. The timeouts let a transaction
run out in its second statement, a budget be computed when it has
ended, and a statement start two ticks after its budget was computed, with what
reaches beyond the deadline of the transaction. Events
are committed one by one (`MaxBatch` 1): a larger batch only skips states.
The database machine needs a fault in the first boot, one in the next, and one
more under a backup: three. `MaxStrays` keeps one request without a listener; a second one could
only store events that are stored already or still pending.

Fairness. *Outbox*: weak fairness of the steps of an open and of a call; the
sender is a single thread that runs on, and `daemon.ts:146` and `main.ts:8` rely
on systemd to start it again. *SenderDaemon*: timers fire, the request timeout
ends every wait, a handler whose event has come runs (weak fairness); time
passes although the loop spins (strong, for the model's clock pauses while the
loop is at its head). The throttle gives a slot again and again (strong fairness of `Send`;
`ThrottleWaitIsEnough` is why), and the receiver a proper answer again and again
(strong fairness of `Answer` and of its handling): without it nothing can be
delivered, and delivery is claimed for that case only, and for events that no
poisoned one can hold back. A stopped sender need not
be started again. *Ingestion*: the event loop runs on; a statement that waits
for a lock, or whose client died, ends by `statement_timeout`, the transaction
budget or the deadlock detector (`Timeout`). No fairness is assumed of failures
or of `Receive`.

*Backup*: systemd runs the units on, and after a power loss or a
failed boot the machine is started again (weak fairness of `HostStep`, its
`Start` included); a backup under way goes on (weak fairness of `BackupStep`).
Failures are bounded by `MaxFaults` and not fair.

`Metrics` and `Throttle` state safety only and assume none.

Deadlock is checked in every run but the throttle's, whose clock stops at
`MaxNow`.

`ComesUp` excepts the states of `Stuck`, where a person has to act. Besides the
volumes that are not for this machine these are the traces of a first boot cut
short: a marker or a record of the installation that is still empty, pgdata that
is missing or not finished beside a marker, and a temporary configuration file
that a later boot refuses to overwrite. `infra/T5_STATUS.md` section 6 item 2
names the refused volumes and the missing or unfinished pgdata; the empty
marker, the empty record and the temporary file are not in its list. The run
shows that there is no other state the units cannot leave. It does not show that
these three are harmless: that no server runs in them is `ServesPreparedCluster`.

`StatementsEndInTime` is not that a transaction ends by its deadline.
`metrics.repository.ts:48-54` speaks of an overall limit of 8 s, kept by giving
each statement what is left of it. That holds for the time the statements run,
which the property adds up. It does not hold on the clock: the budget is computed
before the round trip of `SET LOCAL` (line 63) and spent after it, so that a
statement may end as much later than the deadline as it started after its budget
was computed, and one whose budget was computed after the deadline still gets
1 ms. The property bounds the overrun by exactly that.

## Findings

1. `outbox.ts:223-226` says that `quarantine` returns only after an fsync of the
   failed journal. When a kill falls between the write and its fsync, the
   restarted process reads the ids from the unsynced file, `quarantine` skips
   write and fsync, and the following `confirm` is durable before the refused
   events are: a power loss then takes them (`RefusedAreDurable`). A write
   that fails, with the restart after it, needs no kill for the same.
2. `docs/design.md:57` and `timeout.interceptor.ts:13-15` promise a rollback
   before the 503 of the deadline, so that a query does not overlap the retry.
   The interceptor only answers (`UnavailableIsRolledBack`); `design.md:271-273`
   concedes it. `ingestion_rivals` shows it to be harmless for what is stored.
3. `metrics.service.ts:68-69` and `docs/design.md:433-435` promise null for a
   retention rate until the day it observes is over. The service reads the clock
   after it has awaited the query: if midnight falls in between, the logins are
   those of the running day and the rate is called matured
   (`MaturedDayIsOver`). The next request corrects it.

## Proofs

Proved for every value of the constants, from the named assumptions on them.
Every invariant and every action property a passing run checks is the statement
of a theorem; liveness is not (see below).

*Outbox.*

- `OutboxProofs!OutboxLosesNothing`: `Spec => []NoLoss`. `NoLoss` alone is not
  inductive: a crash can turn any image the file system may keep into the disk.
  The invariant `IInv` therefore says of *every* surviving directory that it
  holds each recorded, unsettled event durably and past its checkpoint
  (`AllKept`), that a manifest and the journal beside it agree (`OneJournal`),
  what the files are at each `pc` (`FilesAtPc`, `Quiet`), and that memory is the
  tail of the journal (`MemoryIsTail`). There is one lemma per action, over
  lemmas on writing, syncing, truncating and cutting files.
- `OutboxProofs!RefusedOnce`: `Spec => []FailedOnce`. `FailedInv` adds that no
  directory has a refused event twice (`FailedDistinct`), that the file ends in
  a whole line unless a write has just failed (`FailedWhole`), and that memory
  knows a part of the file and the number of its lines (`FailedKnown`). An
  overflowing id cache is why it is only a part: that `HasFailedId` is still
  exact needs what loading the file line by line computes, an induction over
  its lines.
- `OutboxProofs!RefusedStay`: `MaxPowerLosses = 0` implies
  `Spec => []RefusedAreKept`, as `outbox_kill` checks it: while only processes
  die, the failed journal only grows (`HandledAreKept`). Without the assumption
  it is false, which is the first finding.
- `OutboxProofs!OutboxTypeCorrect`, and `JournalTypeCorrect` for its part about
  the journal.
- `OutboxRefinement!OutboxImplementsQueue`: `Spec => ImplementsQueue`, and
  `MemoryIsJournalTail`. `RefinementInv` adds that every journal is in the order
  of generation; then each action either keeps the queue a restart would find or
  offers, records, settles or loses as `OutboxQueue` allows.
- `OutboxRefinement!RecordedCountIsExact`: `AccountInv` says of every directory
  a power loss may leave that the base of its checkpoint and the lines of its
  journal are the events that reached the journal and are not lost
  (`Accounted`), and of memory that it agrees with the directory, except between
  the rename of a compacted journal and its checkpoint, where it is ahead. That
  journals are ordered makes the number of lines a number of events.

*SenderDaemon.*

- `SenderLosesNothing`: `Spec => []NothingLost`. Events leave the pending ones
  in `Settle` only; the invariant adds that a valid reply means that the batch
  is stored but for its rejected events (`ReplyOK`), and that a batch about to
  be confirmed is stored or quarantined (`SettlingOK`).
- `DrainEndsWithBacklog`: `DrainInv`, the counter is the end of the backlog less
  what is confirmed; the pending backlog is an interval of that cardinality.
- `QuarantinesAreDeserved`: `CauseInv` says of requests, strays and replies what
  they can have caused; a body beyond a limit for its one event is beyond it for
  every set with that event, for sums of sizes grow with their set.
- `SplitsEnd`: `Spec => []SplitIsRespected`. `SplitInv` says that the segments
  cut the pending events from `confirmed` on into consecutive parts (`Plan`):
  no part goes on beyond the end of a batch that was too large, each is inside
  such a batch, and a batch in flight is one body and the first part
  (`BatchOK`). `AdvanceSplitSegments`, which the code writes as a loop
  over segments, then takes exactly the first one away.
- `PartialBatchesWait`: `Spec => PartialBatchesAreAged`, an action property.
  `AgeInv` says that the batch window is never older than what the oldest
  pending event has waited, unless that event is backlog.
- `SenderTyped`: `TypeInv` adds what the loop's variables can be at each `pc`;
  that backpressure is passed by at most a tick is a part of it.
- `SenderUsesQueue`: `Spec => UsesQueue`, over lemmas on the numbers of the
  outbox as a sequence.

*Throttle.*

- `SendRateBounded`: the invariant splits what a window has seen into a limit
  for each restart and what the counter still knows.
- `ThrottleWaitSuffices`, `RetryAfterSuffices`: `WaitInv`, the window that
  refused is over when the pause ends, on either clock.
- `RefusalTakesRestart`: `Headroom => (Spec => RefusedOnlyAfterRestart)`.
  `CountedInv` bounds what the receiver has counted by what two windows of the
  sender have given. `Headroom` says that the receiver allows twice the limit,
  that a request ends within a window, and that the receiver's window begins
  with the sender's or when the requests of the one before are over. Without
  the last part a request of a third window could be counted.
- `ThrottleTypeCorrect`: the types, checked by no run.

*Ingestion.* `IngestionCorrect` proves one invariant, `IngestionInv`, from which
the rest follows: what a transaction has inserted has keys that are neither
committed nor inserted by another open one (`OwnKeys`, two-phase locking by the
unique keys), each row it has passed is stored by it or was before (`OpenInv`),
and an answer is of what was committed (`ClosedInv`, `AnswerInv`).

- `IngestionImplementsStore`: `Spec => ImplementsStore`; a commit is one step of
  `EventStore`, all else a stutter.
- `OrdersAreDerived`, `DerivationNeverClashes`, `AcknowledgedAreStored`,
  `RowsAreCountedOnce`, `IngestionTypeCorrect`.
- `AnswersPassValidation`: `UsableInv` says it of an answer that a committed
  transaction would give as well, over lemmas on the cardinality of accepted, unique and repeated rows.

*Metrics.* The machine is one thing, what its queries compute another.

- `AnswersAreOfOneSnapshot`, for any tables, requests and commits: the statement
  under way is the next one over the snapshot, and what is read is a sequence.
- `StatementsAreBounded`, for all timeouts and round trips. `TimeInv` adds to it
  what holds between statements: those that have ended ran for no more than the
  time from BEGIN to the next budget, and that budget is what was left then.
- `MetricsTypeCorrect`; that no statement is prepared beyond the last one of the
  request is part of `ReadInv`.
- `AnswerInv` says that every 200 is `AnswerOf` an acceptable request, the
  results of all of its statements and some day. With the first theorem an
  answer is thus a function of one finite set of rows, and the following are
  lemmas about that function, which the machine inherits (`MetricsInv`).
- `SummariesFit`, `CohortsCountNewUsers`: the users of a period are a union over
  its days, its revenue a sum. The days of first logins are apart, so
  there the sizes add up. Both rest on induction over the days.
- `RatesStayShares`: the numerator is a subset of the denominator, by the joins.
- `ArpuIsRounded`, `PagesHoldAllRows`: arithmetic of `\div`, and of the
  concatenation of pages, by induction over their number.

*Database machine.* `HostInv` says what each `pc` implies for mount, marker,
pgdata, server and configuration, and what an untouchable volume still is;
`BackupInv` what is whole, synced, uploaded and named at each step of a dump.

- `ServesOnlyPrepared`, `VolumesAreKept`, `NamesKeepPromises`.

*Induction over data.* The library's induction theorems take a predicate as a
parameter, which the provers at hand cannot instantiate. `DataInduction`
therefore states them for sets: `NatSet` and `SetInduction` for the set of the
numbers, or of the subsets of a finite set, that satisfy the predicate. They
follow from `MinimalSubset`, which in turn is the library's theorem that strict
inclusion is well-founded on finite sets. A value that a
recursive function computes is reached by uniqueness: `IsSum` is the equation
`MapThenSumSet` of the community modules solves, a solution exists (`SumExists`)
and two solutions agree (`SumsAgree`), so that `Sum` satisfies it
(`SumEquation`). The rest are consequences: a sum does not depend on the order
of its set (`SumRemove`, `SumAdd`), grows with it (`SumGrows`) and is that of
its parts (`SumUnion`); the size of a union is at most the sum of the sizes, and
equal to it for parts that are apart (`UnionCount`, `UnionSum`).

Only model-checked: liveness (`ServesAgain`, `RowsAreReleased`, `Delivered`,
`StopEnds`, `ComesUp`), which needs fairness and ENABLED, out of the prover's
reach. The three violations are shown by counterexamples of TLC.

## Not modelled, and the plan

All of the plan is done: Outbox, its queue and their refinement; Ingestion and
its store; SenderDaemon with poisoned events; Throttle; Metrics; the database
machine and its backups; and their proofs. `validateBatchResponse`, which the
sender and the scripts share, is `PassesValidation` where answers are made and
the garbled answers of `SenderDaemon` where they are read.

What could still be added: the loop of `sendEvents` in `scripts/send-events.ts`,
a one-shot client that posts fixed chunks, stops at the first failure and keeps
nothing between two runs.

Left out for good: authentication (pure comparisons), HTTP wiring and the error
table (no state), generator content, configuration parsing and logs,
declarations of the schema beyond its keys, demo and load scripts that run once,
Terraform (declarations; what they promise the machine is its initial state).
