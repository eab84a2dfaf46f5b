---------------------------- MODULE SenderDaemon ----------------------------
(***************************************************************************)
(* The send loop of SenderDaemon: generated events are appended to the     *)
(* outbox, the loop takes a batch from its head, posts it and follows the  *)
(* table of decideAck() for the answer.  One request is in flight at most. *)
(*                                                                         *)
(* The outbox is what Outbox.tla shows it to be: a durable queue.  Events  *)
(* are numbered as they are journaled, so it is confirmed+1..written, and  *)
(* a batch, the oldest n of them, is an interval.  The receiver stores all *)
(* valid events of a request it serves (EventStore.tla), and none of a     *)
(* request with an event the database refuses: the answer to that is the   *)
(* 503 of an outage.  An answer may be lost, late, or not the receiver's.  *)
(*                                                                         *)
(* JavaScript runs the loop from one await to the next without             *)
(* interruption: while pc is "top" or "settling" only a kill intervenes.   *)
(***************************************************************************)
EXTENDS Integers, Sequences, FiniteSetsExt

CONSTANTS
    MaxEvents,     \* events are 1..MaxEvents
    MaxTick,       \* events of one generateTick()
    BatchCap,      \* MAX_EVENTS_PER_BATCH
    SizeOf,        \* serialized size of each event
    SoftLimit,     \* MAX_BATCH_BYTES
    HardLimit,     \* body size beyond which the way to the receiver answers 413
    PendingLimit,  \* BACKPRESSURE_PENDING_LIMIT
    Interval,      \* BATCH_INTERVAL_MS, in clock ticks
    Rejected,      \* events validateEvent() refuses
    Poisoned,      \* valid events no INSERT will ever take
    MaxStrays,     \* requests without a listener that are kept track of
    MaxKills, MaxStops

ASSUME DaemonAssumption ==
    /\ {MaxEvents, MaxTick, BatchCap, PendingLimit} \subseteq Nat \ {0}
    /\ {SoftLimit, HardLimit, Interval, MaxStrays, MaxKills, MaxStops} \subseteq Nat
    /\ SizeOf \in [1..MaxEvents -> Nat]
    /\ Rejected \subseteq 1..MaxEvents
    /\ Poisoned \subseteq 1..MaxEvents \ Rejected

VARIABLES
    written, confirmed,  \* the outbox: confirmed+1..written are pending
    failed,              \* <<event, reason>> of the failed journal
    stored,              \* events in the receiver's database
    pc,                  \* where the process is
    batchLength,         \* length of the batch in flight, 0 without one
    reply,               \* what has arrived for it
    strays,              \* requests the sender gave up, not yet served
    splitSegments, authHalted, shuttingDown, startupDrainRemaining,
    windowAge,           \* now - batchStartedAt, up to Interval; NoWindow if undefined
    waited,              \* history: age of each pending event, up to Interval
    recorded,            \* history: events appended and synced
    backlogEnd,          \* history: last event of the startup backlog
    tooLarge,            \* history: batches <<first, last>> this process split
    kills, stops

outbox == <<written, confirmed, failed>>
loop == <<splitSegments, authHalted, shuttingDown, startupDrainRemaining>>
history == <<recorded, backlogEnd, tooLarge>>
crashes == <<kills, stops>>
vars == <<outbox, stored, pc, batchLength, reply, strays, loop, windowAge, waited,
          history, crashes>>

NoWindow == -1
Pending == (confirmed + 1)..written
PendingCount == written - confirmed
Batch == (confirmed + 1)..(confirmed + batchLength)
FailedFor(reason) == {e \in 1..MaxEvents : <<e, reason>> \in failed}
FailedEvents == {f[1] : f \in failed}
Bytes(events) == MapThenSumSet(LAMBDA e : SizeOf[e], events)

NoReply == [status |-> "none", valid |-> FALSE, rejected |-> {}]
Reply(status) == [NoReply EXCEPT !.status = status]
Accepted(refused) == [status |-> "200", valid |-> TRUE, rejected |-> refused]
-----------------------------------------------------------------------------
(***************************************************************************)
(* Batches and the plan of a split.                                        *)
(***************************************************************************)
CurrentBatchCap == IF splitSegments = <<>> THEN BatchCap ELSE Head(splitSegments)

(* peekBatch(): n events are the longest head that keeps both limits; one   *)
(* event is taken whatever its size.                                        *)
Fits(n) == n = 1 \/ Bytes((confirmed + 1)..(confirmed + n)) <= SoftLimit
IsPeekedLength(n) ==
    /\ n \in 1..Min({CurrentBatchCap, PendingCount})
    /\ Fits(n)
    /\ \A m \in 1..Min({CurrentBatchCap, PendingCount}) : Fits(m) => m <= n

(* Faulty variant: a batch below the limits never gets ready. *)
IsBatchReadyFull(n, age) == n >= CurrentBatchCap \/ PendingCount > n

IsBatchReady(n, age) == n >= CurrentBatchCap \/ PendingCount > n \/ age >= Interval

(* Faulty variant: the second half is not planned. *)
SplitCurrentBatchLeft(segments, n) ==
    <<(n + 1) \div 2>> \o (IF segments = <<>> THEN <<>> ELSE Tail(segments))

(* Two halves and what the segment held beyond the batch replace it. *)
SplitCurrentBatch(segments, n) ==
    LET current == IF segments = <<>> THEN n ELSE Head(segments)
        left == (n + 1) \div 2
        Segment(size) == IF size > 0 THEN <<size>> ELSE <<>>
    IN  Segment(left) \o Segment(n - left) \o Segment(current - n)
            \o (IF segments = <<>> THEN <<>> ELSE Tail(segments))

(* The segments left when n events have gone from their head. *)
AdvanceSplitSegments(segments, n) ==
    LET SumTo(k) == MapThenSumSet(LAMBDA i : segments[i], 1..k)
        whole == Max({k \in 0..Len(segments) : SumTo(k) <= n})
        rest == SubSeq(segments, whole + 1, Len(segments))
    IN  IF rest = <<>> THEN <<>> ELSE [rest EXCEPT ![1] = @ - (n - SumTo(whole))]

(* Faulty variant: whatever is left goes out at once, as in a drain. *)
WindowAfterProgressHasty(count, drain) == IF count = 0 THEN NoWindow ELSE Interval

(* resetBatchWindowAfterProgress() *)
WindowAfterProgress(count, drain) ==
    IF count = 0 THEN NoWindow ELSE IF drain > 0 THEN Interval ELSE 0
-----------------------------------------------------------------------------
(***************************************************************************)
(* Generation.                                                             *)
(***************************************************************************)
AtAwait == pc \in {"asleep", "inflight"}

(* Faulty variant: one more tick at the limit. *)
GenerateTickAtLimit ==
    /\ AtAwait
    /\ ~shuttingDown
    /\ PendingCount <= PendingLimit
    /\ \E k \in 1..MaxTick :
        /\ written + k <= MaxEvents
        /\ written' = written + k
        /\ recorded' = recorded \cup ((written + 1)..(written + k))
    /\ windowAge' = IF PendingCount = 0 THEN 0 ELSE windowAge
    /\ UNCHANGED <<confirmed, failed, stored, pc, batchLength, reply, strays, loop, waited,
                   backlogEnd, tooLarge, crashes>>

(* generateTick(): an event is recorded once appendMany() has returned. *)
GenerateTick ==
    /\ AtAwait
    /\ ~shuttingDown
    /\ PendingCount < PendingLimit
    /\ \E k \in 1..MaxTick :
        /\ written + k <= MaxEvents
        /\ written' = written + k
        /\ recorded' = recorded \cup ((written + 1)..(written + k))
    /\ windowAge' = IF PendingCount = 0 THEN 0 ELSE windowAge
    /\ UNCHANGED <<confirmed, failed, stored, pc, batchLength, reply, strays, loop, waited,
                   backlogEnd, tooLarge, crashes>>
-----------------------------------------------------------------------------
(***************************************************************************)
(* sendLoop().                                                             *)
(***************************************************************************)
(* A timer of sleep() fires. *)
Wake ==
    /\ pc = "asleep"
    /\ pc' = "top"
    /\ UNCHANGED <<outbox, stored, batchLength, reply, strays, loop, windowAge, waited,
                   history, crashes>>

Sleep(age) ==
    /\ pc' = "asleep"
    /\ windowAge' = age
    /\ UNCHANGED <<outbox, stored, batchLength, reply, strays, loop, waited, history, crashes>>

(* Faulty variant: a halted loop does not look at shuttingDown. *)
HaltedDeaf == pc = "top" /\ authHalted /\ Sleep(windowAge)

Halted == pc = "top" /\ ~shuttingDown /\ authHalted /\ Sleep(windowAge)

NothingToSend ==
    /\ pc = "top" /\ ~shuttingDown /\ ~authHalted
    /\ PendingCount = 0
    /\ Sleep(NoWindow)

(* batchStartedAt ??= Date.now() *)
Age == IF windowAge = NoWindow THEN 0 ELSE windowAge

NotReady ==
    /\ pc = "top" /\ ~shuttingDown /\ ~authHalted
    /\ \E n \in 1..PendingCount : IsPeekedLength(n) /\ ~IsBatchReady(n, Age)
    /\ Sleep(Age)

(* tryAcquire() gives no slot. *)
Throttled ==
    /\ pc = "top" /\ ~shuttingDown /\ ~authHalted
    /\ \E n \in 1..PendingCount : IsPeekedLength(n) /\ IsBatchReady(n, Age)
    /\ Sleep(Age)

Send ==
    /\ pc = "top" /\ ~shuttingDown /\ ~authHalted
    /\ \E n \in 1..PendingCount :
        /\ IsPeekedLength(n)
        /\ IsBatchReady(n, Age)
        /\ batchLength' = n
    /\ pc' = "inflight"
    /\ windowAge' = Age
    /\ UNCHANGED <<outbox, stored, reply, strays, loop, waited, history, crashes>>

(* The loop ends, stop() closes the outbox and main() exits. *)
Exit ==
    /\ pc = "top" /\ shuttingDown
    /\ pc' = "stopped"
    /\ UNCHANGED <<outbox, stored, batchLength, reply, strays, loop, windowAge, waited,
                   history, crashes>>
-----------------------------------------------------------------------------
(***************************************************************************)
(* The way to the receiver and back.                                       *)
(***************************************************************************)
Waiting == pc = "inflight" /\ reply = NoReply
Refused(events) == Bytes(events) > HardLimit \/ events \cap Poisoned # {}
Served(events) == IF Refused(events) THEN {} ELSE events \ Rejected

(* The request has no listener any more: it is lost or served some day. *)
MayStray ==
    \/ strays' = strays
    \/ strays' = strays \cup {Batch} /\ Cardinality(strays') <= MaxStrays

(* The receiver serves the request and its answer arrives. *)
Answer ==
    /\ Waiting
    /\ stored' = stored \cup Served(Batch)
    /\ reply' = IF Bytes(Batch) > HardLimit THEN Reply("413")
                ELSE IF Refused(Batch) THEN Reply("5xx")
                ELSE Accepted(Batch \cap Rejected)
    /\ UNCHANGED <<outbox, pc, batchLength, strays, loop, windowAge, waited, history, crashes>>

(* A guard, a proxy or the batch check turns the request away. *)
TurnAway ==
    /\ Waiting
    /\ \E status \in {"401", "400", "429"} : reply' = Reply(status)
    /\ UNCHANGED <<outbox, stored, pc, batchLength, strays, loop, windowAge, waited,
                   history, crashes>>

(* A 5xx, or a 200 that is not the answer to this batch; the request may    *)
(* still be under way (TimeoutInterceptor) or never arrive.                 *)
Disturb ==
    /\ Waiting
    /\ \E status \in {"5xx", "200"} : reply' = Reply(status)
    /\ MayStray
    /\ UNCHANGED <<outbox, stored, pc, batchLength, loop, windowAge, waited, history, crashes>>

(* A request without a listener is served. *)
ServeStray ==
    /\ \E events \in strays :
        /\ stored' = stored \cup Served(events)
        /\ strays' = strays \ {events}
    /\ UNCHANGED <<outbox, pc, batchLength, reply, loop, windowAge, waited, history, crashes>>
-----------------------------------------------------------------------------
(***************************************************************************)
(* sendBatch(): what follows an answer or its absence.                     *)
(***************************************************************************)
EndRequest(next) == pc' = next /\ batchLength' = 0 /\ reply' = NoReply

(* 30 s without an answer, or a network error: back off. *)
Timeout ==
    /\ Waiting
    /\ EndRequest("asleep")
    /\ MayStray
    /\ UNCHANGED <<outbox, stored, loop, windowAge, waited, history, crashes>>

(* Faulty variant: any 200 is taken for an acknowledgement. *)
DecideAckTrusting(r) ==
    CASE r.status = "200" -> "confirm"
      [] r.status = "401" -> "halt"
      [] r.status = "400" -> "quarantine_batch"
      [] r.status = "413" -> "split"
      [] r.status = "429" -> "rate_limited"
      [] OTHER            -> "backoff"

DecideAck(r) ==
    CASE r.status = "200" -> IF r.valid THEN "confirm" ELSE "resend"
      [] r.status = "401" -> "halt"
      [] r.status = "400" -> "quarantine_batch"
      [] r.status = "413" -> "split"
      [] r.status = "429" -> "rate_limited"
      [] OTHER            -> "backoff"

Acts(kinds) == pc = "inflight" /\ reply # NoReply /\ DecideAck(reply) \in kinds

(* Nothing is known of the batch: send it again, at once after an unusable  *)
(* 200 and after a pause otherwise.                                         *)
Resend ==
    /\ Acts({"resend", "rate_limited", "backoff"})
    /\ EndRequest(IF DecideAck(reply) = "resend" THEN "top" ELSE "asleep")
    /\ UNCHANGED <<outbox, stored, strays, loop, windowAge, waited, history, crashes>>

Halt ==
    /\ Acts({"halt"})
    /\ EndRequest("top")
    /\ authHalted' = TRUE
    /\ UNCHANGED <<outbox, stored, strays, splitSegments, shuttingDown, startupDrainRemaining,
                   windowAge, waited, history, crashes>>

(* quarantine() of the refused events is durable before anything else. *)
Quarantine(events, reason) ==
    /\ failed' = failed \cup (events \X {reason})
    /\ pc' = "settling"
    /\ UNCHANGED <<written, confirmed, stored, batchLength, reply, strays, loop, windowAge,
                   waited, history, crashes>>

QuarantineRejected == Acts({"confirm"}) /\ Quarantine(reply.rejected, "rejected")
QuarantineBatch == Acts({"quarantine_batch"}) /\ Quarantine(Batch, "batch_malformed_400")

(* Faulty variant: a batch of any length is quarantined. *)
QuarantineOversizedAny == Acts({"split"}) /\ Quarantine(Batch, "oversized_413")

QuarantineOversized ==
    Acts({"split"}) /\ batchLength = 1 /\ Quarantine(Batch, "oversized_413")

Split ==
    /\ Acts({"split"})
    /\ batchLength > 1
    /\ EndRequest("top")
    /\ splitSegments' = SplitCurrentBatch(splitSegments, batchLength)
    /\ tooLarge' = tooLarge \cup {<<confirmed + 1, confirmed + batchLength>>}
    /\ UNCHANGED <<outbox, stored, strays, authHalted, shuttingDown, startupDrainRemaining,
                   windowAge, waited, recorded, backlogEnd, crashes>>

(* Faulty variant: the end of the drain is not noted. *)
SettleUncounted ==
    /\ pc = "settling"
    /\ confirmed' = confirmed + batchLength
    /\ splitSegments' = AdvanceSplitSegments(splitSegments, batchLength)
    /\ windowAge' = WindowAfterProgress(PendingCount - batchLength, startupDrainRemaining)
    /\ waited' = [e \in 1..MaxEvents |-> IF e <= confirmed' THEN 0 ELSE waited[e]]
    /\ EndRequest("top")
    /\ UNCHANGED <<written, failed, stored, strays, authHalted, shuttingDown,
                   startupDrainRemaining, history, crashes>>

(* Faulty variant: confirm() of the cap instead of the length. *)
SettleByCap ==
    /\ pc = "settling"
    /\ confirmed' = confirmed + CurrentBatchCap
    /\ splitSegments' = AdvanceSplitSegments(splitSegments, batchLength)
    /\ startupDrainRemaining' = Max({0, startupDrainRemaining - batchLength})
    /\ windowAge' = WindowAfterProgress(PendingCount - batchLength, startupDrainRemaining')
    /\ waited' = [e \in 1..MaxEvents |-> IF e <= confirmed' THEN 0 ELSE waited[e]]
    /\ EndRequest("top")
    /\ UNCHANGED <<written, failed, stored, strays, authHalted, shuttingDown, history, crashes>>

(* confirm() of the whole batch, then the loop's own state. *)
Settle ==
    /\ pc = "settling"
    /\ confirmed' = confirmed + batchLength
    /\ splitSegments' = AdvanceSplitSegments(splitSegments, batchLength)
    /\ startupDrainRemaining' = Max({0, startupDrainRemaining - batchLength})
    /\ windowAge' = WindowAfterProgress(PendingCount - batchLength, startupDrainRemaining')
    /\ waited' = [e \in 1..MaxEvents |-> IF e <= confirmed' THEN 0 ELSE waited[e]]
    /\ EndRequest("top")
    /\ UNCHANGED <<written, failed, stored, strays, authHalted, shuttingDown, history, crashes>>
-----------------------------------------------------------------------------
(***************************************************************************)
(* The process and the clock.                                              *)
(***************************************************************************)
(* stop() on SIGTERM or SIGINT; a second signal changes nothing. *)
Stop ==
    /\ AtAwait
    /\ ~shuttingDown
    /\ stops < MaxStops
    /\ shuttingDown' = TRUE
    /\ stops' = stops + 1
    /\ UNCHANGED <<outbox, stored, pc, batchLength, reply, strays, splitSegments, authHalted,
                   startupDrainRemaining, windowAge, waited, history, kills>>

(* The process dies, perhaps inside an append that puts k lines on disk. *)
Kill ==
    /\ pc \notin {"down", "stopped"}
    /\ kills < MaxKills
    /\ kills' = kills + 1
    /\ EndRequest("down")
    /\ IF Waiting THEN MayStray ELSE UNCHANGED strays
    /\ \E k \in 0..MaxTick :
        /\ k > 0 => AtAwait /\ ~shuttingDown /\ PendingCount < PendingLimit
        /\ written + k <= MaxEvents
        /\ written' = written + k
    /\ UNCHANGED <<confirmed, failed, stored, loop, windowAge, waited, history, stops>>

(* The constructor and start(). *)
Start ==
    /\ pc \in {"down", "stopped"}
    /\ pc' = "top"
    /\ splitSegments' = <<>>
    /\ authHalted' = FALSE
    /\ shuttingDown' = FALSE
    /\ startupDrainRemaining' = PendingCount
    /\ windowAge' = IF PendingCount > 0 THEN Interval ELSE NoWindow
    /\ backlogEnd' = written
    /\ tooLarge' = {}
    /\ UNCHANGED <<outbox, stored, batchLength, reply, strays, waited, recorded, crashes>>

Older(age) == IF age < Interval THEN age + 1 ELSE age

ClockTick ==
    /\ pc \notin {"top", "settling"}
    /\ windowAge' = IF windowAge = NoWindow THEN NoWindow ELSE Older(windowAge)
    /\ waited' = [e \in 1..MaxEvents |-> IF e \in Pending THEN Older(waited[e]) ELSE 0]
    /\ <<windowAge, waited>>' # <<windowAge, waited>>
    /\ UNCHANGED <<outbox, stored, pc, batchLength, reply, strays, loop, history, crashes>>
-----------------------------------------------------------------------------
Init ==
    /\ written = 0 /\ confirmed = 0
    /\ failed = {} /\ stored = {}
    /\ pc = "stopped"
    /\ batchLength = 0 /\ reply = NoReply /\ strays = {}
    /\ splitSegments = <<>> /\ authHalted = FALSE /\ shuttingDown = FALSE
    /\ startupDrainRemaining = 0
    /\ windowAge = NoWindow
    /\ waited = [e \in 1..MaxEvents |-> 0]
    /\ recorded = {} /\ backlogEnd = 0 /\ tooLarge = {}
    /\ kills = 0 /\ stops = 0

Loop == Halted \/ NothingToSend \/ NotReady \/ Throttled \/ Send \/ Exit
Network == Answer \/ TurnAway \/ Disturb \/ ServeStray
Settling == QuarantineRejected \/ QuarantineBatch \/ QuarantineOversized \/ Split \/ Settle
HandleReply == Resend \/ Halt \/ Settling
Process == Stop \/ Kill \/ Start

Next == GenerateTick \/ Wake \/ Loop \/ Network \/ Timeout \/ HandleReply \/ Process \/ ClockTick

Spec == Init /\ [][Next]_vars

(* Timers fire, time passes, the request timeout ends every wait, systemd   *)
(* starts a killed process again; the throttle gives a slot and the         *)
(* receiver a proper answer not once and for all but again and again.       *)
FairSpec ==
    /\ Spec
    /\ WF_vars(Wake) /\ WF_vars(Loop) /\ WF_vars(Timeout) /\ WF_vars(HandleReply)
    /\ SF_vars(ClockTick) /\ WF_vars(pc = "down" /\ Start)
    /\ SF_vars(Send) /\ SF_vars(Answer) /\ SF_vars(Settling)
-----------------------------------------------------------------------------
(***************************************************************************)
(* Properties.                                                             *)
(***************************************************************************)
Reasons == {"rejected", "batch_malformed_400", "oversized_413"}
Segments == Seq(1..MaxEvents)

(* Every variable has its type; backpressure bounds the outbox, a tick may  *)
(* start just below the limit.                                              *)
TypeOK ==
    /\ written \in 0..MaxEvents
    /\ PendingCount \in 0..(PendingLimit - 1 + MaxTick)
    /\ failed \subseteq (1..MaxEvents) \X Reasons
    /\ stored \subseteq 1..MaxEvents
    /\ pc \in {"down", "stopped", "top", "asleep", "inflight", "settling"}
    /\ batchLength \in 0..PendingCount
    /\ batchLength > 0 <=> pc \in {"inflight", "settling"}
    /\ reply.status \in {"none", "200", "400", "401", "413", "429", "5xx"}
    /\ strays \subseteq SUBSET (1..MaxEvents)
    /\ splitSegments \in Segments
    /\ authHalted \in BOOLEAN /\ shuttingDown \in BOOLEAN
    /\ windowAge \in NoWindow..Interval
    /\ waited \in [1..MaxEvents -> 0..Interval]
    /\ recorded \subseteq 1..written

(* At-least-once: every event the outbox has recorded is pending, in the    *)
(* database or in the failed journal, whatever was lost, late or garbled.   *)
NothingLost == recorded \subseteq Pending \cup stored \cup FailedEvents

(* An event quarantined for itself deserves it, and is therefore not in the *)
(* database too (sender/test/identity.spec.ts): rejected events are invalid,*)
(* oversized ones too large alone.                                          *)
FailedForCause ==
    /\ FailedFor("rejected") \subseteq Rejected
    /\ \A e \in FailedFor("oversized_413") : Bytes({e}) > HardLimit
    /\ stored \cap (FailedFor("rejected") \cup FailedFor("oversized_413")) = {}

(* Once a batch got 413, no request of this process contains its last event *)
(* together with a later one, or is that batch again: the split ends, with  *)
(* single events if it must.  The plan fits the queue: each segment is, in  *)
(* its turn, the whole batch peekBatch() takes.                             *)
SplitIsRespected ==
    pc \notin {"down", "stopped"} =>
        /\ \A b \in tooLarge : pc = "inflight" /\ confirmed < b[2] =>
              /\ confirmed + batchLength <= b[2]
              /\ b # <<confirmed + 1, confirmed + batchLength>>
        /\ splitSegments # <<>> => IsPeekedLength(Head(splitSegments))

(* The drain counter is the number of events of the startup backlog still   *)
(* pending, so that the drain, which ignores the interval, ends with them.  *)
DrainMatchesBacklog ==
    pc \notin {"down", "stopped"} =>
        startupDrainRemaining = Cardinality({e \in Pending : e <= backlogEnd})

(* The batch posted is at one of the limits, left over from an earlier       *)
(* process, part of a batch that was too large, or its oldest event has     *)
(* waited a whole interval.                                                 *)
BatchIsDue ==
    LET first == confirmed + 1
        last == confirmed + batchLength'
    IN  \/ last < written
        \/ batchLength' >= BatchCap
        \/ \E b \in tooLarge : first \in b[1]..b[2]
        \/ first <= backlogEnd
        \/ waited[first] = Interval

(* No batch is posted before it is due.                                     *)
PartialBatchesAreAged == [][pc = "top" /\ pc' = "inflight" => BatchIsDue]_vars

(* The outbox the loop is modelled with behaves as OutboxQueue, which the   *)
(* outbox with its files is shown to implement: no step of the loop asks of *)
(* it what it does not promise.                                             *)
Abstract == INSTANCE OutboxQueue WITH
    queue <- [i \in 1..PendingCount |-> confirmed + i],
    generated <- written,
    settled <- 1..confirmed,
    powerLosses <- 0
UsesQueue == Abstract!Spec

(* stop() comes to an end, whatever the receiver does. *)
StopEnds == shuttingDown ~> pc \in {"stopped", "down"}

(* A poisoned event that a batch from the head of the outbox can hold       *)
(* together with e or before it.                                            *)
PoisonedBefore(e) ==
    \E p \in Poisoned \cap Pending : p <= confirmed + BatchCap /\ p < e + BatchCap

(* Every recorded event reaches the database or the failed journal, unless  *)
(* sending is halted, the sender stopped for good, or a poisoned event is   *)
(* in the way: a 503 is followed by the same batch again, for ever          *)
(* (ingestion.service.ts:77-89, daemon.ts:426-439), but only what could be  *)
(* in one batch with that event, and what comes after it, is held back.     *)
Delivered ==
    \/ \A e \in 1..MaxEvents :
          \/ e \in recorded ~> e \in stored \cup FailedEvents
          \/ <>[]PoisonedBefore(e)
    \/ <>[](authHalted \/ pc = "stopped")
=============================================================================
