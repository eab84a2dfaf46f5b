---------------------------- MODULE SenderProofs ----------------------------
(***************************************************************************)
(* For every number of events, cap, size, limit, kill and stop the sender  *)
(* loses no recorded event (NothingLost): an event leaves the pending ones *)
(* by Settle only, and the strengthening says why it may.  The batch of an *)
(* acknowledging reply is stored but for the rejected events, and before   *)
(* it is confirmed every event of it is stored or quarantined.  Further    *)
(* invariants say what requests and replies can have caused (CauseInv),    *)
(* that the split plan tiles the batch that was too large (SplitInv), how  *)
(* long a batch has waited (AgeInv), and what the loop's variables can be  *)
(* at each pc (TypeInv).                                                   *)
(***************************************************************************)
EXTENDS SenderDaemon, DataInduction, FiniteSetTheorems, SequenceTheorems, TLAPS

QueueOK ==
    /\ written \in Nat /\ confirmed \in Nat /\ batchLength \in Nat
    /\ confirmed + batchLength <= written
    /\ recorded \subseteq 1..written

ReplyOK ==
    reply.valid => /\ pc \in {"inflight", "settling"}
                   /\ Batch \ reply.rejected \subseteq stored

SettlingOK == pc = "settling" => Batch \subseteq stored \cup FailedEvents

IInv == QueueOK /\ ReplyOK /\ SettlingOK /\ NothingLost

(* What quarantine() adds, and that it forgets nothing. *)
LEMMA QuarantineKeeps ==
    ASSUME NEW events, NEW reason, Quarantine(events, reason)
    PROVE  FailedEvents' = FailedEvents \cup events
<1>1. failed' = failed \cup (events \X {reason})
  BY DEF Quarantine
<1>2. ASSUME NEW e \in FailedEvents' PROVE e \in FailedEvents \cup events
  BY <1>1, <1>2 DEF FailedEvents
<1>3. ASSUME NEW e \in FailedEvents PROVE e \in FailedEvents'
  BY <1>1, <1>3 DEF FailedEvents
<1>4. ASSUME NEW e \in events PROVE e \in FailedEvents'
  <2>1. <<e, reason>> \in failed' /\ <<e, reason>>[1] = e
    BY <1>1
  <2> QED BY <2>1, Zenon DEF FailedEvents
<1> QED BY <1>2, <1>3, <1>4

(* Only a valid 200 confirms. *)
LEMMA ConfirmIsValid ==
    ASSUME Acts({"confirm"})
    PROVE  reply.valid
BY DEF Acts, DecideAck

LEMMA InitIInv == Init => IInv
BY DEF Init, IInv, QueueOK, ReplyOK, SettlingOK, NothingLost, NoReply, Pending, Batch

(* A step that leaves the outbox, the batch and the database's events keeps *)
(* the invariant when its new reply acknowledges nothing.                   *)
LEMMA QuietStep ==
    ASSUME IInv,
           UNCHANGED <<written, confirmed, failed, recorded>>,
           stored \subseteq stored',
           batchLength' \in {0, batchLength},
           ~reply'.valid,
           pc' # "settling"
    PROVE  IInv'
<1>1. QueueOK'
  <2>1. QueueOK
    BY DEF IInv
  <2>2. CASE batchLength' = 0
    BY <2>1, <2>2 DEF QueueOK
  <2>3. CASE batchLength' = batchLength
    BY <2>1, <2>3 DEF QueueOK
  <2> QED BY <2>2, <2>3
<1>2. ReplyOK' /\ SettlingOK'
  BY DEF ReplyOK, SettlingOK
<1>3. NothingLost'
  BY DEF IInv, NothingLost, Pending, FailedEvents
<1> QED BY <1>1, <1>2, <1>3 DEF IInv

LEMMA GenerateTickIInv == IInv /\ GenerateTick => IInv'
<1> SUFFICES ASSUME IInv, GenerateTick PROVE IInv'
  OBVIOUS
<1>1. PICK k \in 1..MaxTick : /\ written' = written + k
                            /\ recorded' = recorded \cup ((written + 1)..(written + k))
  BY DEF GenerateTick
<1>2. UNCHANGED <<confirmed, failed, stored, pc, batchLength, reply>>
  BY DEF GenerateTick
<1>3. k \in Nat /\ k > 0
  BY DaemonAssumption
<1>4. QueueOK'
  BY <1>1, <1>2, <1>3 DEF IInv, QueueOK
<1>5. ReplyOK' /\ SettlingOK'
  BY <1>2 DEF IInv, ReplyOK, SettlingOK, Batch, FailedEvents
<1>6. Pending' = Pending \cup ((written + 1)..(written + k))
  BY <1>1, <1>2, <1>3 DEF Pending, IInv, QueueOK
<1>7. NothingLost'
  BY <1>1, <1>2, <1>6 DEF IInv, NothingLost, FailedEvents
<1> QED BY <1>4, <1>5, <1>7 DEF IInv

(* The steps of the loop and of the process that leave the reply alone. *)
LEMMA LoopIInv == IInv /\ (Wake \/ Loop \/ Stop \/ Start \/ ClockTick) => IInv'
<1> SUFFICES ASSUME IInv, Wake \/ Loop \/ Stop \/ Start \/ ClockTick PROVE IInv'
  OBVIOUS
<1>1. CASE Send
  <2>1. PICK n \in 1..PendingCount : batchLength' = n
    BY <1>1 DEF Send
  <2>2. /\ UNCHANGED <<written, confirmed, failed, stored, recorded, reply>>
        /\ pc = "top" /\ pc' = "inflight"
    BY <1>1 DEF Send, outbox, history
  <2>3. QueueOK'
    BY <2>1, <2>2 DEF IInv, QueueOK, PendingCount
  <2>4. ReplyOK' /\ SettlingOK'
    BY <2>2 DEF IInv, ReplyOK, SettlingOK
  <2>5. NothingLost'
    BY <2>2 DEF IInv, NothingLost, Pending, FailedEvents
  <2> QED BY <2>3, <2>4, <2>5 DEF IInv
<1>2. ASSUME Wake \/ Halted \/ NothingToSend \/ NotReady \/ Throttled \/ Exit \/ Start
      PROVE  /\ UNCHANGED <<written, confirmed, failed, recorded, stored, batchLength, reply>>
             /\ pc \notin {"inflight", "settling"} /\ pc' # "settling"
  BY <1>2 DEF Wake, Halted, NothingToSend, NotReady, Throttled, Exit, Start, Sleep,
              outbox, history
<1>3. ASSUME Wake \/ Halted \/ NothingToSend \/ NotReady \/ Throttled \/ Exit \/ Start
      PROVE  IInv'
  <2>1. ~reply'.valid
    BY <1>2, <1>3 DEF IInv, ReplyOK
  <2> QED BY <1>2, <1>3, <2>1, QuietStep
<1>4. ASSUME Stop \/ ClockTick PROVE IInv'
  <2>1. UNCHANGED <<written, confirmed, failed, recorded, stored, batchLength, reply, pc>>
    BY <1>4 DEF Stop, ClockTick, outbox, history
  <2> QED BY <2>1 DEF IInv, QueueOK, ReplyOK, SettlingOK, NothingLost, Pending, Batch,
                      FailedEvents
<1> QED BY <1>1, <1>3, <1>4 DEF Loop

LEMMA NetworkIInv == IInv /\ Network => IInv'
<1> SUFFICES ASSUME IInv, Network PROVE IInv'
  OBVIOUS
<1>1. CASE Answer
  <2>1. /\ UNCHANGED <<written, confirmed, failed, recorded, batchLength, pc>>
        /\ pc = "inflight"
        /\ stored' = stored \cup Served(Batch)
        /\ reply' = IF Bytes(Batch) > HardLimit THEN Reply("413")
                    ELSE IF Refused(Batch) THEN Reply("5xx")
                    ELSE Accepted(Batch \cap Rejected)
    BY <1>1 DEF Answer, Waiting, outbox, history
  <2>2. CASE Refused(Batch)
    <3>1. ~reply'.valid
      BY <2>1, <2>2 DEF Reply, NoReply
    <3> QED BY <2>1, <3>1, QuietStep
  <2>3. CASE ~Refused(Batch)
    <3>1. reply'.rejected = Batch \cap Rejected /\ Served(Batch) = Batch \ Rejected
      BY <2>1, <2>3 DEF Accepted, Served, Refused
    <3>2. Batch' = Batch
      BY <2>1 DEF Batch
    <3>3. ReplyOK' /\ SettlingOK'
      BY <2>1, <3>1, <3>2 DEF ReplyOK, SettlingOK
    <3>4. QueueOK'
      BY <2>1 DEF IInv, QueueOK
    <3>5. NothingLost'
      BY <2>1 DEF IInv, NothingLost, Pending, FailedEvents
    <3> QED BY <3>3, <3>4, <3>5 DEF IInv
  <2> QED BY <2>2, <2>3
<1>2. CASE TurnAway \/ Disturb
  <2>1. PICK status : reply' = Reply(status)
    BY <1>2 DEF TurnAway, Disturb
  <2>2. ~reply'.valid
    BY <2>1 DEF Reply, NoReply
  <2>3. /\ UNCHANGED <<written, confirmed, failed, recorded, stored, batchLength, pc>>
        /\ pc = "inflight"
    BY <1>2 DEF TurnAway, Disturb, Waiting, outbox, history
  <2> QED BY <2>2, <2>3, QuietStep
<1>3. CASE ServeStray
  <2>1. /\ UNCHANGED <<written, confirmed, failed, recorded, batchLength, reply, pc>>
        /\ stored \subseteq stored'
    BY <1>3 DEF ServeStray, outbox, history
  <2>2. Batch' = Batch /\ Pending' = Pending /\ FailedEvents' = FailedEvents
    BY <2>1 DEF Batch, Pending, FailedEvents
  <2>3. QueueOK'
    BY <2>1 DEF IInv, QueueOK
  <2>4. ReplyOK' /\ SettlingOK' /\ NothingLost'
    BY <2>1, <2>2 DEF IInv, ReplyOK, SettlingOK, NothingLost
  <2> QED BY <2>3, <2>4 DEF IInv
<1> QED BY <1>1, <1>2, <1>3 DEF Network

(* Nothing is confirmed: the batch stays at the head of the outbox. *)
LEMMA ResendIInv == IInv /\ (Timeout \/ Resend \/ Halt \/ Split) => IInv'
<1> SUFFICES ASSUME IInv, Timeout \/ Resend \/ Halt \/ Split PROVE IInv'
  OBVIOUS
<1>1. /\ UNCHANGED <<written, confirmed, failed, recorded, stored>>
      /\ batchLength' = 0 /\ reply' = NoReply /\ pc' \in {"top", "asleep"}
  BY DEF Timeout, Resend, Halt, Split, EndRequest, outbox, history
<1>2. ~reply'.valid
  BY <1>1 DEF NoReply
<1> QED BY <1>1, <1>2, QuietStep

(* An acknowledged batch is stored but for what is quarantined here, any    *)
(* other quarantine takes the whole batch.                                  *)
LEMMA QuarantineIInv ==
    IInv /\ (QuarantineRejected \/ QuarantineBatch \/ QuarantineOversized) => IInv'
<1> SUFFICES ASSUME IInv, QuarantineRejected \/ QuarantineBatch \/ QuarantineOversized
             PROVE  IInv'
  OBVIOUS
<1>1. \E events, reason :
        /\ Quarantine(events, reason)
        /\ Batch \ events \subseteq stored
  <2>1. CASE QuarantineRejected
    <3>1. Quarantine(reply.rejected, "rejected") /\ Acts({"confirm"})
      BY <2>1 DEF QuarantineRejected
    <3>2. Batch \ reply.rejected \subseteq stored
      BY <3>1, ConfirmIsValid DEF IInv, ReplyOK
    <3> QED BY <3>1, <3>2
  <2>2. CASE QuarantineBatch \/ QuarantineOversized
    <3>1. \E reason : Quarantine(Batch, reason)
      BY <2>2 DEF QuarantineBatch, QuarantineOversized
    <3> QED BY <3>1
  <2> QED BY <2>1, <2>2
<1>2. PICK events, reason : Quarantine(events, reason) /\ Batch \ events \subseteq stored
  BY <1>1
<1>3. FailedEvents' = FailedEvents \cup events
  BY <1>2, QuarantineKeeps
<1>4. /\ UNCHANGED <<written, confirmed, recorded, stored, batchLength, reply>>
      /\ pc' = "settling"
  BY <1>2 DEF Quarantine, history
<1>5. Batch' = Batch /\ Pending' = Pending
  BY <1>4 DEF Batch, Pending
<1>6. QueueOK'
  BY <1>4 DEF IInv, QueueOK
<1>7. ReplyOK' /\ SettlingOK' /\ NothingLost'
  BY <1>2, <1>3, <1>4, <1>5 DEF IInv, ReplyOK, SettlingOK, NothingLost
<1> QED BY <1>6, <1>7 DEF IInv

LEMMA SettleIInv == IInv /\ Settle => IInv'
<1> SUFFICES ASSUME IInv, Settle PROVE IInv'
  OBVIOUS
<1>1. /\ pc = "settling" /\ pc' = "top"
      /\ confirmed' = confirmed + batchLength
      /\ batchLength' = 0 /\ reply' = NoReply
      /\ UNCHANGED <<written, failed, stored, recorded>>
  BY DEF Settle, EndRequest, history
<1>2. QueueOK'
  BY <1>1 DEF IInv, QueueOK
<1>3. ReplyOK' /\ SettlingOK'
  BY <1>1 DEF ReplyOK, SettlingOK, NoReply
<1>4. Pending \subseteq Pending' \cup Batch
  BY <1>1 DEF IInv, QueueOK, Pending, Batch
<1>5. FailedEvents' = FailedEvents
  BY <1>1 DEF FailedEvents
<1>6. NothingLost'
  BY <1>1, <1>4, <1>5 DEF IInv, SettlingOK, NothingLost
<1> QED BY <1>2, <1>3, <1>6 DEF IInv

(* A kill may leave more in the outbox than was recorded, never less. *)
LEMMA KillIInv == IInv /\ Kill => IInv'
<1> SUFFICES ASSUME IInv, Kill PROVE IInv'
  OBVIOUS
<1>1. PICK k \in 0..MaxTick : written' = written + k
  BY DEF Kill
<1>2. /\ batchLength' = 0 /\ reply' = NoReply /\ pc' = "down"
      /\ UNCHANGED <<confirmed, failed, stored, recorded>>
  BY DEF Kill, EndRequest, history
<1>3. QueueOK'
  BY <1>1, <1>2 DEF IInv, QueueOK
<1>4. ReplyOK' /\ SettlingOK'
  BY <1>2 DEF ReplyOK, SettlingOK, NoReply
<1>5. Pending \subseteq Pending' /\ FailedEvents' = FailedEvents
  BY <1>1, <1>2 DEF IInv, QueueOK, Pending, FailedEvents
<1>6. NothingLost'
  BY <1>2, <1>5 DEF IInv, NothingLost
<1> QED BY <1>3, <1>4, <1>6 DEF IInv

LEMMA NextIInv == IInv /\ [Next]_vars => IInv'
<1> SUFFICES ASSUME IInv, [Next]_vars PROVE IInv'
  OBVIOUS
<1>1. CASE UNCHANGED vars
  <2>1. UNCHANGED <<written, confirmed, failed, recorded, stored, batchLength, reply, pc>>
    BY <1>1 DEF vars, outbox, history
  <2> QED BY <2>1 DEF IInv, QueueOK, ReplyOK, SettlingOK, NothingLost, Pending, Batch,
                      FailedEvents
<1>2. CASE Next
  BY <1>2, GenerateTickIInv, LoopIInv, NetworkIInv, ResendIInv, QuarantineIInv, SettleIInv,
     KillIInv DEF Next, HandleReply, Settling, Process
<1> QED BY <1>1, <1>2

(* At-least-once delivery of the send loop, for every value of the          *)
(* constants: nothing recorded is lost between outbox, database and failed  *)
(* journal (design.md 4.2).                                                 *)
THEOREM SenderLosesNothing == Spec => []NothingLost
<1>1. IInv => NothingLost
  BY DEF IInv
<1> QED BY <1>1, InitIInv, NextIInv, PTL DEF Spec
-----------------------------------------------------------------------------
(* The counter of the drain, as the number of events up to backlogEnd.      *)
Left(end) == IF end > confirmed THEN end - confirmed ELSE 0

DrainInv ==
    /\ QueueOK
    /\ backlogEnd \in 0..written
    /\ pc \notin {"down", "stopped"} => startupDrainRemaining = Left(backlogEnd)

LEMMA MaxWithZero ==
    ASSUME NEW n \in Int
    PROVE  Max({0, n}) = IF n > 0 THEN n ELSE 0
<1> DEFINE m == IF n > 0 THEN n ELSE 0
           P(x) == \A y \in {0, n} : x >= y
<1>1. m \in {0, n} /\ P(m)
  OBVIOUS
<1>2. \A x \in {0, n} : P(x) => x = m
  OBVIOUS
<1> HIDE DEF m
<1>3. Max({0, n}) \in {0, n} /\ P(Max({0, n}))
  BY <1>1 DEF Max
<1>4. Max({0, n}) = m
  BY <1>2, <1>3
<1> QED BY <1>4 DEF m

LEMMA DrainInit == Init => DrainInv
BY DEF Init, DrainInv, QueueOK

(* Only Settle and Start move the counter; the outbox grows at its end. *)
LEMMA DrainNext == DrainInv /\ IInv /\ [Next]_vars => DrainInv'
<1> SUFFICES ASSUME DrainInv, IInv, [Next]_vars PROVE DrainInv'
  OBVIOUS
<1>0. QueueOK' /\ written \in Nat /\ confirmed \in Nat /\ batchLength \in Nat
      /\ confirmed + batchLength <= written /\ backlogEnd \in 0..written
  BY NextIInv DEF IInv, DrainInv, QueueOK
<1>1. CASE Settle
  <2>1. /\ confirmed' = confirmed + batchLength /\ pc = "settling"
        /\ startupDrainRemaining' = Max({0, startupDrainRemaining - batchLength})
        /\ UNCHANGED <<written, backlogEnd>>
    BY <1>1 DEF Settle, history
  <2>2. startupDrainRemaining = Left(backlogEnd)
    BY <2>1 DEF DrainInv
  <2>3. Left(backlogEnd) \in Nat
    BY <1>0 DEF Left
  <2>4. startupDrainRemaining' =
          IF startupDrainRemaining - batchLength > 0 THEN startupDrainRemaining - batchLength ELSE 0
    BY <1>0, <2>1, <2>2, <2>3, MaxWithZero
  <2>5. startupDrainRemaining' = Left(backlogEnd)'
    BY <1>0, <2>1, <2>2, <2>4 DEF Left
  <2> QED BY <1>0, <2>1, <2>5 DEF DrainInv
<1>2. CASE Start
  <2>1. /\ startupDrainRemaining' = written - confirmed /\ backlogEnd' = written
        /\ UNCHANGED <<written, confirmed>>
    BY <1>2 DEF Start, PendingCount, outbox
  <2>2. startupDrainRemaining' = Left(backlogEnd)'
    BY <1>0, <2>1 DEF Left
  <2> QED BY <1>0, <2>1, <2>2 DEF DrainInv
<1>3. CASE GenerateTick
  <2>1. PICK k \in 1..MaxTick : written' = written + k
    BY <1>3 DEF GenerateTick
  <2>2. k \in Nat
    BY <2>1, DaemonAssumption
  <2>3. UNCHANGED <<confirmed, pc, startupDrainRemaining, backlogEnd>>
    BY <1>3 DEF GenerateTick, loop
  <2> QED BY <1>0, <2>1, <2>2, <2>3 DEF DrainInv, Left
<1>4. CASE Kill
  <2>1. PICK k \in 0..MaxTick : written' = written + k
    BY <1>4 DEF Kill
  <2>2. k \in Nat
    BY <2>1, DaemonAssumption
  <2>3. pc' = "down" /\ UNCHANGED <<confirmed, backlogEnd>>
    BY <1>4 DEF Kill, EndRequest, history
  <2> QED BY <1>0, <2>1, <2>2, <2>3 DEF DrainInv
<1>5. ASSUME Wake \/ Loop \/ Network \/ Timeout \/ Resend \/ Halt \/ QuarantineRejected
             \/ QuarantineBatch \/ QuarantineOversized \/ Split \/ Stop \/ ClockTick
             \/ UNCHANGED vars
      PROVE  /\ UNCHANGED <<written, confirmed, startupDrainRemaining, backlogEnd>>
             /\ pc \in {"down", "stopped"} => pc' \in {"down", "stopped"}
  <2>1. CASE Wake \/ Loop
    BY <2>1 DEF Wake, Loop, Halted, NothingToSend, NotReady, Throttled, Send, Exit, Sleep,
                outbox, loop, history
  <2>2. CASE Network \/ Timeout
    BY <2>2 DEF Network, Answer, TurnAway, Disturb, ServeStray, Timeout, Waiting, EndRequest,
                outbox, loop, history
  <2>3. CASE Resend \/ Halt \/ Split
    BY <2>3 DEF Resend, Halt, Split, Acts, EndRequest, outbox, loop, history
  <2>4. CASE QuarantineRejected \/ QuarantineBatch \/ QuarantineOversized
    BY <2>4 DEF QuarantineRejected, QuarantineBatch, QuarantineOversized, Quarantine, Acts,
                loop, history
  <2>5. CASE Stop \/ ClockTick \/ UNCHANGED vars
    BY <2>5 DEF Stop, ClockTick, vars, outbox, loop, history
  <2> QED BY <1>5, <2>1, <2>2, <2>3, <2>4, <2>5
<1>6. ASSUME UNCHANGED <<written, confirmed, startupDrainRemaining, backlogEnd>>,
             pc \in {"down", "stopped"} => pc' \in {"down", "stopped"}
      PROVE  DrainInv'
  BY <1>0, <1>6 DEF DrainInv, Left
<1> QED BY <1>1, <1>2, <1>3, <1>4, <1>5, <1>6
        DEF Next, HandleReply, Settling, Process

LEMMA DrainInvCounts == DrainInv => DrainMatchesBacklog
<1> SUFFICES ASSUME DrainInv
             PROVE  Cardinality({e \in Pending : e <= backlogEnd}) = Left(backlogEnd)
  BY DEF DrainInv, DrainMatchesBacklog
<1>1. written \in Nat /\ confirmed \in Nat /\ backlogEnd \in 0..written
  BY DEF DrainInv, QueueOK
<1>2. {e \in Pending : e <= backlogEnd} = (confirmed + 1)..backlogEnd
  BY <1>1 DEF Pending
<1>3. confirmed + 1 \in Int /\ backlogEnd \in Int
  BY <1>1
<1>4. Cardinality((confirmed + 1)..backlogEnd)
        = IF confirmed + 1 > backlogEnd THEN 0 ELSE backlogEnd - (confirmed + 1) + 1
  BY <1>3, FS_Interval
<1>5. Cardinality((confirmed + 1)..backlogEnd) = Left(backlogEnd)
  <2>1. CASE confirmed + 1 > backlogEnd
    BY <1>1, <1>4, <2>1 DEF Left
  <2>2. CASE ~(confirmed + 1 > backlogEnd)
    BY <1>1, <1>4, <2>2 DEF Left
  <2> QED BY <2>1, <2>2
<1> QED BY <1>2, <1>5, Zenon

(* The drain of the startup backlog, which ignores the batch interval, ends *)
(* with the last event that was pending when the process started.           *)
THEOREM DrainEndsWithBacklog == Spec => []DrainMatchesBacklog
<1>1. Spec => [](IInv /\ DrainInv)
  BY InitIInv, NextIInv, DrainInit, DrainNext, PTL DEF Spec
<1> QED BY <1>1, DrainInvCounts, PTL
-----------------------------------------------------------------------------
(***************************************************************************)
(* What is quarantined for itself deserves it.  The reply is about the     *)
(* batch in flight as long as it is there; and as a request with an event  *)
(* that is too large alone is too large, the database holds none.          *)
(***************************************************************************)
Requests ==
    /\ written \in Nat /\ confirmed \in Nat /\ written <= MaxEvents
    /\ Batch \subseteq 1..MaxEvents
    /\ strays \subseteq SUBSET (1..MaxEvents)

Replies ==
    /\ reply # NoReply => pc \in {"inflight", "settling"}
    /\ reply.valid => reply.rejected \subseteq Rejected
    /\ reply.status = "413" => Bytes(Batch) > HardLimit

Deserved ==
    /\ FailedFor("rejected") \subseteq Rejected
    /\ \A e \in FailedFor("oversized_413") : Bytes({e}) > HardLimit

StoredOK == \A e \in stored : e \notin Rejected /\ ~(Bytes({e}) > HardLimit)

CauseInv == Requests /\ Replies /\ Deserved /\ StoredOK

LEMMA CauseInvCause == CauseInv => FailedForCause
BY DEF CauseInv, Deserved, StoredOK, FailedForCause

(* A body is a number of bytes, not below that of a body of some of its      *)
(* events.                                                                  *)
LEMMA BodiesGrow ==
    ASSUME NEW events \in SUBSET (1..MaxEvents), NEW part \in SUBSET events
    PROVE  Bytes(events) \in Nat /\ Bytes(part) \in Nat /\ Bytes(part) <= Bytes(events)
<1>1. IsFiniteSet(1..MaxEvents) /\ \A e \in 1..MaxEvents : SizeOf[e] \in Nat
  <2>1. MaxEvents \in Int /\ 1 \in Int
    BY DaemonAssumption
  <2>2. IsFiniteSet(1..MaxEvents)
    BY <2>1, FS_Interval
  <2> QED BY <2>2, DaemonAssumption
<1>2. IsFiniteSet(events) /\ IsFiniteSet(part)
  BY <1>1, FS_Subset
<1>3. \A e \in events : SizeOf[e] \in Nat
  BY <1>1
<1>4. \A e \in part : SizeOf[e] \in Nat
  BY <1>3
<1>5. Sum(SizeOf, events) \in Nat /\ Sum(SizeOf, part) \in Nat
  BY <1>2, <1>3, <1>4, SumType
<1>6. Sum(SizeOf, part) <= Sum(SizeOf, events)
  BY <1>2, <1>3, SumGrows
<1> QED BY <1>5, <1>6 DEF Bytes, Sum

(* What a served request adds to the database. *)
LEMMA ServedOK ==
    ASSUME NEW events \in SUBSET (1..MaxEvents), NEW e \in Served(events)
    PROVE  e \notin Rejected /\ ~(Bytes({e}) > HardLimit)
<1>1. e \in events /\ e \notin Rejected /\ ~(Bytes(events) > HardLimit)
  BY DEF Served, Refused
<1>2. {e} \in SUBSET events
  BY <1>1
<1>3. Bytes(events) \in Nat /\ Bytes({e}) <= Bytes(events) /\ Bytes({e}) \in Nat
  BY <1>2, BodiesGrow
<1> HIDE DEF Bytes
<1> QED BY <1>1, <1>3, DaemonAssumption

LEMMA HeadOfQueue ==
    ASSUME NEW a \in Nat, NEW n \in Nat, NEW b \in Nat, NEW m \in Nat, a + n <= b, b <= m
    PROVE  (a + 1)..(a + n) \subseteq 1..m
OBVIOUS

LEMMA InitCause == Init => CauseInv
<1> SUFFICES ASSUME Init PROVE CauseInv
  OBVIOUS
<1>1. Batch = {}
  BY DEF Init, Batch
<1>2. reply.status = "none" /\ ~reply.valid
  BY DEF Init, NoReply
<1> QED BY <1>1, <1>2, DaemonAssumption
        DEF Init, CauseInv, Requests, Replies, Deserved, StoredOK, FailedFor

(* The bounds of the queue, for every step. *)
LEMMA WrittenBound == IInv /\ Requests /\ [Next]_vars => written' <= MaxEvents
<1> SUFFICES ASSUME IInv, Requests, [Next]_vars PROVE written' <= MaxEvents
  OBVIOUS
<1>1. CASE GenerateTick
  BY <1>1 DEF GenerateTick
<1>2. CASE Kill
  BY <1>2 DEF Kill
<1>3. CASE ~GenerateTick /\ ~Kill
  <2>1. written' = written
    BY <1>3 DEF Next, Wake, Loop, Halted, NothingToSend, NotReady, Throttled, Send, Exit, Sleep,
       Network, Answer, TurnAway, Disturb, ServeStray, Timeout, HandleReply, Resend, Halt,
       Settling, QuarantineRejected, QuarantineBatch, QuarantineOversized, Quarantine, Split,
       Settle, Process, Stop, Start, ClockTick, outbox, vars
  <2> QED BY <2>1 DEF Requests
<1> QED BY <1>1, <1>2, <1>3

LEMMA StraysInRange == IInv /\ Requests /\ [Next]_vars => strays' \subseteq SUBSET (1..MaxEvents)
<1> SUFFICES ASSUME IInv, Requests, [Next]_vars PROVE strays' \subseteq SUBSET (1..MaxEvents)
  OBVIOUS
<1>1. strays' \subseteq strays \cup {Batch}
  <2>1. CASE Disturb \/ Timeout \/ Kill
    BY <2>1 DEF Disturb, Timeout, Kill, MayStray
  <2>2. CASE ServeStray
    BY <2>2 DEF ServeStray
  <2>3. CASE ~(Disturb \/ Timeout \/ Kill \/ ServeStray)
    BY <2>3 DEF Next, GenerateTick, Wake, Loop, Halted, NothingToSend, NotReady, Throttled, Send,
       Exit, Sleep, Network, Answer, TurnAway, HandleReply, Resend, Halt, Settling,
       QuarantineRejected, QuarantineBatch, QuarantineOversized, Quarantine, Split, Settle,
       Process, Stop, Start, ClockTick, vars
  <2> QED BY <2>1, <2>2, <2>3
<1> QED BY <1>1 DEF Requests

LEMMA RequestsNext == IInv /\ Requests /\ [Next]_vars => Requests'
<1> SUFFICES ASSUME IInv, Requests, [Next]_vars PROVE Requests'
  OBVIOUS
<1>1. QueueOK'
  BY NextIInv DEF IInv
<1>2. written' <= MaxEvents
  BY WrittenBound
<1>3. Batch' \subseteq 1..MaxEvents
  <2>1. /\ written' \in Nat /\ confirmed' \in Nat /\ batchLength' \in Nat
        /\ confirmed' + batchLength' <= written'
    BY <1>1 DEF QueueOK
  <2>2. Batch' = (confirmed' + 1)..(confirmed' + batchLength')
    BY DEF Batch
  <2>3. MaxEvents \in Nat
    BY DaemonAssumption
  <2> QED BY <1>2, <2>1, <2>2, <2>3, HeadOfQueue
<1> QED BY <1>1, <1>2, <1>3, StraysInRange DEF Requests, QueueOK

(* A reply that is there stays about its batch; a step that makes one, or   *)
(* takes it away, says so.                                                  *)
LEMMA ReplyStays ==
    ASSUME [Next]_vars
    PROVE  \/ reply' = NoReply
           \/ reply' = reply /\ (reply # NoReply /\ pc \in {"inflight", "settling"} =>
                 /\ UNCHANGED <<confirmed, batchLength>>
                 /\ pc' \in {"inflight", "settling"})
           \/ Answer
           \/ \E status \in {"401", "400", "429", "5xx", "200"} :
                 /\ reply' = Reply(status)
                 /\ pc = "inflight" /\ UNCHANGED <<pc, confirmed, batchLength>>
<1>1. CASE Timeout \/ Resend \/ Halt \/ Split \/ Settle \/ Kill
  BY <1>1 DEF Timeout, Resend, Halt, Split, Settle, Kill, EndRequest
<1>2. CASE Wake \/ Loop \/ Start
  BY <1>2 DEF Wake, Loop, Halted, NothingToSend, NotReady, Throttled, Send, Exit, Sleep, Start
<1>3. CASE GenerateTick \/ ServeStray \/ Stop \/ ClockTick \/ UNCHANGED vars
  BY <1>3 DEF GenerateTick, ServeStray, Stop, ClockTick, outbox, vars
<1>4. CASE QuarantineRejected \/ QuarantineBatch \/ QuarantineOversized
  <2>1. pc' = "settling" /\ UNCHANGED <<confirmed, batchLength, reply>>
    BY <1>4 DEF QuarantineRejected, QuarantineBatch, QuarantineOversized, Quarantine
  <2> QED BY <2>1
<1>5. CASE TurnAway \/ Disturb
  BY <1>5 DEF TurnAway, Disturb, Waiting, outbox
<1> QED BY <1>1, <1>2, <1>3, <1>4, <1>5
        DEF Next, Network, HandleReply, Settling, Process

LEMMA RepliesNext == Replies /\ [Next]_vars => Replies'
<1> SUFFICES ASSUME Replies, [Next]_vars PROVE Replies'
  OBVIOUS
<1>0. NoReply.status = "none" /\ ~NoReply.valid
  BY DEF NoReply
<1>1. CASE reply' = NoReply
  BY <1>0, <1>1 DEF Replies
<1>2. CASE reply' = reply /\ reply # NoReply
  <2>1. /\ UNCHANGED <<confirmed, batchLength>> \/ Answer
        /\ pc' \in {"inflight", "settling"} \/ Answer
    <3>1. CASE \E status \in {"401", "400", "429", "5xx", "200"} :
                 /\ reply' = Reply(status)
                 /\ pc = "inflight" /\ UNCHANGED <<pc, confirmed, batchLength>>
      BY <3>1
    <3> QED BY <1>2, <3>1, ReplyStays DEF Replies
  <2>2. CASE Answer
    BY <1>2, <2>2 DEF Answer, Waiting
  <2>3. CASE ~Answer
    <3>1. Batch' = Batch
      BY <2>1, <2>3 DEF Batch
    <3>2. Bytes(Batch)' = Bytes(Batch)
      BY <3>1
    <3> QED BY <1>2, <2>1, <2>3, <3>2 DEF Replies
  <2> QED BY <2>2, <2>3
<1>3. CASE Answer
  <2>1. /\ UNCHANGED <<confirmed, batchLength, pc>> /\ pc = "inflight"
        /\ reply' = IF Bytes(Batch) > HardLimit THEN Reply("413")
                    ELSE IF Refused(Batch) THEN Reply("5xx")
                    ELSE Accepted(Batch \cap Rejected)
    BY <1>3 DEF Answer, Waiting, outbox
  <2>2. Batch' = Batch
    BY <2>1 DEF Batch
  <2>3. Bytes(Batch)' = Bytes(Batch)
    BY <2>2
  <2>4. /\ ~Reply("413").valid /\ ~Reply("5xx").valid /\ Reply("5xx").status = "5xx"
        /\ Accepted(Batch \cap Rejected).status = "200"
        /\ Accepted(Batch \cap Rejected).rejected = Batch \cap Rejected
    BY DEF Reply, NoReply, Accepted
  <2> QED BY <2>1, <2>3, <2>4 DEF Replies
<1>4. CASE \E status \in {"401", "400", "429", "5xx", "200"} :
              reply' = Reply(status) /\ pc = "inflight" /\ UNCHANGED pc
  <2>1. PICK status \in {"401", "400", "429", "5xx", "200"} :
              reply' = Reply(status) /\ pc' = "inflight"
    BY <1>4
  <2>2. reply'.status = status /\ ~reply'.valid
    BY <2>1 DEF Reply, NoReply
  <2> QED BY <2>1, <2>2 DEF Replies
<1> QED BY <1>1, <1>2, <1>3, <1>4, ReplyStays

LEMMA StoredNext ==
    ASSUME Requests, StoredOK, [Next]_vars
    PROVE  StoredOK'
<1>1. ASSUME stored' = stored PROVE StoredOK'
  BY <1>1 DEF StoredOK
<1>2. ASSUME NEW events \in SUBSET (1..MaxEvents), stored' = stored \cup Served(events)
      PROVE  StoredOK'
  BY <1>2, ServedOK DEF StoredOK
<1>3. CASE Answer
  BY <1>2, <1>3 DEF Answer, Requests
<1>4. CASE ServeStray
  BY <1>2, <1>4 DEF ServeStray, Requests
<1>5. CASE ~Answer /\ ~ServeStray
  <2>1. stored' = stored
    BY <1>5 DEF Next, GenerateTick, Wake, Loop, Halted, NothingToSend, NotReady, Throttled, Send,
       Exit, Sleep, Network, TurnAway, Disturb, Timeout, HandleReply, Resend, Halt, Settling,
       QuarantineRejected, QuarantineBatch, QuarantineOversized, Quarantine, Split, Settle,
       Process, Stop, Kill, Start, ClockTick, vars
  <2> QED BY <2>1, <1>1
<1> QED BY <1>3, <1>4, <1>5

LEMMA FailedForAfter ==
    ASSUME NEW events, NEW reason, Quarantine(events, reason), NEW r
    PROVE  FailedFor(r)' \subseteq IF r = reason THEN FailedFor(r) \cup events ELSE FailedFor(r)
<1>1. failed' = failed \cup (events \X {reason})
  BY DEF Quarantine
<1> QED BY <1>1 DEF FailedFor

LEMMA DeservedNext ==
    ASSUME Requests, QueueOK, Replies, Deserved, [Next]_vars
    PROVE  Deserved'
<1>1. CASE QuarantineRejected
  <2>1. Quarantine(reply.rejected, "rejected") /\ reply.rejected \subseteq Rejected
    BY <1>1, ConfirmIsValid DEF QuarantineRejected, Replies
  <2>2. /\ FailedFor("rejected")' \subseteq FailedFor("rejected") \cup reply.rejected
        /\ FailedFor("oversized_413")' \subseteq FailedFor("oversized_413")
    BY <2>1, FailedForAfter
  <2> QED BY <2>1, <2>2 DEF Deserved
<1>2. CASE QuarantineBatch
  <2>1. Quarantine(Batch, "batch_malformed_400")
    BY <1>2 DEF QuarantineBatch
  <2>2. /\ FailedFor("rejected")' \subseteq FailedFor("rejected")
        /\ FailedFor("oversized_413")' \subseteq FailedFor("oversized_413")
    BY <2>1, FailedForAfter
  <2> QED BY <2>2 DEF Deserved
<1>3. CASE QuarantineOversized
  <2>1. Quarantine(Batch, "oversized_413") /\ Acts({"split"}) /\ batchLength = 1
    BY <1>3 DEF QuarantineOversized
  <2>2. reply.status = "413"
    BY <2>1 DEF Acts, DecideAck
  <2>3. Bytes(Batch) > HardLimit
    BY <2>2 DEF Replies
  <2>4. \A e \in Batch : {e} = Batch
    BY <2>1 DEF Batch, QueueOK
  <2>5. /\ FailedFor("rejected")' \subseteq FailedFor("rejected")
        /\ FailedFor("oversized_413")' \subseteq FailedFor("oversized_413") \cup Batch
    BY <2>1, FailedForAfter
  <2> HIDE DEF Bytes
  <2> QED BY <2>3, <2>4, <2>5 DEF Deserved
<1>4. CASE ~(QuarantineRejected \/ QuarantineBatch \/ QuarantineOversized)
  <2>1. failed' = failed
    BY <1>4 DEF Next, GenerateTick, Wake, Loop, Halted, NothingToSend, NotReady, Throttled, Send,
       Exit, Sleep, Network, Answer, TurnAway, Disturb, ServeStray, Timeout, HandleReply, Resend,
       Halt, Settling, Split, Settle, Process, Stop, Kill, Start, ClockTick, outbox, vars
  <2> QED BY <2>1 DEF Deserved, FailedFor
<1> QED BY <1>1, <1>2, <1>3, <1>4

(* No event is put away as invalid or as too large that is not, or that is  *)
(* in the database, whatever answers were lost, late or garbled.            *)
THEOREM QuarantinesAreDeserved == Spec => []FailedForCause
<1>1. IInv /\ CauseInv /\ [Next]_vars => CauseInv'
  BY RequestsNext, RepliesNext, StoredNext, DeservedNext DEF CauseInv, IInv
<1> QED BY <1>1, InitIInv, NextIInv, InitCause, CauseInvCause, PTL DEF Spec
-----------------------------------------------------------------------------
(***************************************************************************)
(* The outbox is used as a queue.                                          *)
(***************************************************************************)
Numbers(c, p) == [i \in 1..p |-> c + i]

LEMMA NumbersType ==
    ASSUME NEW c \in Nat, NEW p \in Nat
    PROVE  /\ Numbers(c, p) \in Seq(Nat) /\ Len(Numbers(c, p)) = p
           /\ \A i \in 1..p : Numbers(c, p)[i] = c + i
           /\ Abstract!InQueue(Numbers(c, p)) = (c + 1)..(c + p)
<1>1. Numbers(c, p) \in [1..p -> Nat]
  BY DEF Numbers
<1>2. Numbers(c, p) \in Seq(Nat) /\ Len(Numbers(c, p)) = p
  BY <1>1
<1>3. \A i \in 1..p : Numbers(c, p)[i] = c + i
  BY DEF Numbers
<1>4. Abstract!InQueue(Numbers(c, p)) = {c + i : i \in 1..p}
  BY <1>2, <1>3 DEF Abstract!InQueue
<1>5. ASSUME NEW e \in (c + 1)..(c + p) PROVE e \in {c + i : i \in 1..p}
  <2>1. e - c \in 1..p /\ e = c + (e - c)
    OBVIOUS
  <2> QED BY <2>1
<1> QED BY <1>2, <1>3, <1>4, <1>5

LEMMA NumbersJoin ==
    ASSUME NEW c \in Nat, NEW p \in Nat, NEW k \in Nat
    PROVE  Numbers(c, p + k) = Numbers(c, p) \o [i \in 1..k |-> (c + p) + i]
<1> DEFINE s == Numbers(c, p)
           t == Numbers(c + p, k)
           u == Numbers(c, p + k)
<1>0. c + p \in Nat /\ p + k \in Nat
  OBVIOUS
<1>1. /\ s \in Seq(Nat) /\ Len(s) = p /\ t \in Seq(Nat) /\ Len(t) = k
      /\ u \in Seq(Nat) /\ Len(u) = p + k
      /\ \A i \in 1..p : s[i] = c + i
      /\ \A i \in 1..k : t[i] = c + p + i
      /\ \A i \in 1..(p + k) : u[i] = c + i
  BY <1>0, NumbersType
<1>2. t = [i \in 1..k |-> (c + p) + i]
  BY DEF Numbers
<1> HIDE DEF s, t, u
<1>3. s \o t \in Seq(Nat) /\ Len(s \o t) = p + k
  BY <1>1, ConcatProperties
<1>4. \A i \in 1..(p + k) : (s \o t)[i] = u[i]
  <2> SUFFICES ASSUME NEW i \in 1..(p + k) PROVE (s \o t)[i] = u[i]
    OBVIOUS
  <2>1. (s \o t)[i] = IF i <= p THEN s[i] ELSE t[i - p]
    BY <1>1, ConcatProperties
  <2>2. i > p => i - p \in 1..k
    OBVIOUS
  <2> QED BY <1>1, <2>1, <2>2
<1>5. s \o t = u
  BY <1>1, <1>3, <1>4, SeqEqual
<1> QED BY <1>2, <1>5 DEF s, t, u

LEMMA NumbersDrop ==
    ASSUME NEW c \in Nat, NEW p \in Nat, NEW n \in 1..p
    PROVE  /\ Numbers(c + n, p - n) = SubSeq(Numbers(c, p), n + 1, Len(Numbers(c, p)))
           /\ Numbers(c, n) = SubSeq(Numbers(c, p), 1, n)
<1> DEFINE s == Numbers(c, p)
<1>1. s \in Seq(Nat) /\ Len(s) = p /\ \A i \in 1..p : s[i] = c + i
  BY NumbersType
<1>2. /\ Numbers(c + n, p - n) \in Seq(Nat) /\ Len(Numbers(c + n, p - n)) = p - n
      /\ \A i \in 1..(p - n) : Numbers(c + n, p - n)[i] = c + n + i
  <2>1. c + n \in Nat /\ p - n \in Nat
    OBVIOUS
  <2> QED BY <2>1, NumbersType
<1>3. /\ Numbers(c, n) \in Seq(Nat) /\ Len(Numbers(c, n)) = n
      /\ \A i \in 1..n : Numbers(c, n)[i] = c + i
  BY NumbersType
<1> HIDE DEF s
<1>4. /\ SubSeq(s, n + 1, p) \in Seq(Nat) /\ Len(SubSeq(s, n + 1, p)) = p - n
      /\ \A i \in 1..(p - n) : SubSeq(s, n + 1, p)[i] = s[n + i]
  BY <1>1
<1>5. /\ SubSeq(s, 1, n) \in Seq(Nat) /\ Len(SubSeq(s, 1, n)) = n
      /\ \A i \in 1..n : SubSeq(s, 1, n)[i] = s[i]
  BY <1>1
<1>6. \A i \in 1..(p - n) : SubSeq(s, n + 1, p)[i] = Numbers(c + n, p - n)[i]
  BY <1>1, <1>2, <1>4
<1>7. \A i \in 1..n : SubSeq(s, 1, n)[i] = Numbers(c, n)[i]
  BY <1>1, <1>3, <1>5
<1> QED BY <1>1, <1>2, <1>3, <1>4, <1>5, <1>6, <1>7, SeqEqual DEF s

LEMMA QueueFacts ==
    ASSUME QueueOK
    PROVE  /\ written \in Nat /\ confirmed \in Nat /\ PendingCount \in Nat
           /\ confirmed + PendingCount = written
BY DEF QueueOK, PendingCount

(* An append, whole or torn by a kill. *)
LEMMA AppendIsOffer ==
    ASSUME QueueOK, NEW k \in Nat \ {0}, written' = written + k, confirmed' = confirmed,
           recorded \subseteq recorded',
           recorded' \subseteq recorded \cup ((written + 1)..(written + k))
    PROVE  Abstract!Offer
<1> DEFINE c == confirmed
           p == PendingCount
<1>1. c \in Nat /\ p \in Nat /\ c + p = written /\ p + k \in Nat /\ written \in Nat
  BY QueueFacts
<1>2. PendingCount' = p + k /\ confirmed' = c
  BY <1>1 DEF PendingCount
<1>3. [i \in 1..PendingCount |-> confirmed + i]' = Numbers(c, p + k)
  BY <1>2 DEF Numbers
<1>4. Numbers(c, p + k) = [i \in 1..p |-> c + i] \o [i \in 1..k |-> written + i]
  BY <1>1, NumbersJoin DEF Numbers
<1>5. recorded' \subseteq recorded \cup Abstract!InQueue(Numbers(c, p + k))
  <2>1. Abstract!InQueue(Numbers(c, p + k)) = (c + 1)..(c + (p + k))
    BY <1>1, NumbersType
  <2>2. (written + 1)..(written + k) \subseteq (c + 1)..(c + (p + k))
    BY <1>1
  <2> QED BY <2>1, <2>2
<1>6. 1..p = 1..PendingCount /\ (1..confirmed)' = 1..confirmed /\ 0' = 0
  OBVIOUS
<1>7. k \in 1..(written' - written) /\ k \in 0..k
  BY <1>1
<1> QED BY <1>3, <1>4, <1>5, <1>6, <1>7 DEF Abstract!Offer

LEMMA SettleIsSettle ==
    ASSUME IInv, Settle, batchLength # 0
    PROVE  Abstract!Settle
<1> DEFINE c == confirmed
           p == PendingCount
           n == batchLength
<1>1. c \in Nat /\ p \in Nat /\ c + p = written /\ n \in 1..p
  BY QueueFacts DEF IInv, QueueOK
<1>2. /\ confirmed' = c + n /\ written' = written /\ recorded' = recorded
  BY DEF Settle, history
<1>3. PendingCount' = p - n
  BY <1>1, <1>2 DEF PendingCount
<1>4. [i \in 1..PendingCount |-> confirmed + i]' = Numbers(c + n, p - n)
  BY <1>2, <1>3 DEF Numbers
<1>5. [i \in 1..PendingCount |-> confirmed + i] = Numbers(c, p)
  BY DEF Numbers
<1>6. /\ Numbers(c + n, p - n) = SubSeq(Numbers(c, p), n + 1, Len(Numbers(c, p)))
      /\ Numbers(c, n) = SubSeq(Numbers(c, p), 1, n)
  BY <1>1, NumbersDrop
<1>7. Abstract!InQueue(Numbers(c, n)) = (c + 1)..(c + n)
  BY <1>1, NumbersType
<1>8. (1..confirmed)' = (1..confirmed) \cup ((c + 1)..(c + n))
  <2>1. 1..(c + n) = (1..c) \cup ((c + 1)..(c + n))
    BY <1>1
  <2> QED BY <1>2, <2>1
<1>9. n \in 1..Len(Numbers(c, p))
  BY <1>1, NumbersType
<1> HIDE DEF c, p, n
<1> QED BY <1>2, <1>4, <1>5, <1>6, <1>7, <1>8, <1>9 DEF Abstract!Settle

LEMMA QueueStep ==
    ASSUME IInv, [Next]_vars
    PROVE  [Abstract!Next]_(Abstract!vars)
<1>1. ASSUME UNCHANGED <<written, confirmed, recorded>> PROVE UNCHANGED Abstract!vars
  BY <1>1 DEF Abstract!vars, PendingCount
<1>2. CASE GenerateTick
  <2>1. PICK k \in 1..MaxTick : /\ written' = written + k
                                /\ recorded' = recorded \cup ((written + 1)..(written + k))
    BY <1>2 DEF GenerateTick
  <2>2. confirmed' = confirmed /\ k \in Nat \ {0}
    BY <1>2, DaemonAssumption DEF GenerateTick
  <2> QED BY <2>1, <2>2, AppendIsOffer DEF IInv, Abstract!Next
<1>3. CASE Kill
  <2>1. PICK k \in 0..MaxTick : written' = written + k
    BY <1>3 DEF Kill
  <2>2. UNCHANGED <<confirmed, recorded>> /\ k \in Nat
    BY <1>3, DaemonAssumption DEF Kill, history
  <2>3. CASE k = 0
    BY <1>1, <2>1, <2>2, <2>3, QueueFacts DEF IInv
  <2>4. CASE k # 0
    BY <2>1, <2>2, <2>4, AppendIsOffer DEF IInv, Abstract!Next
  <2> QED BY <2>3, <2>4
<1>4. CASE Settle
  <2>1. CASE batchLength = 0
    <3>1. UNCHANGED <<written, confirmed, recorded>>
      BY <1>4, <2>1, QueueFacts DEF Settle, IInv, history
    <3> QED BY <1>1, <3>1
  <2>2. CASE batchLength # 0
    BY <1>4, <2>2, SettleIsSettle DEF Abstract!Next
  <2> QED BY <2>1, <2>2
<1>5. CASE ~(GenerateTick \/ Kill \/ Settle)
  <2>1. UNCHANGED <<written, confirmed, recorded>>
    BY <1>5 DEF Next, Wake, Loop, Halted, NothingToSend, NotReady, Throttled, Send, Exit, Sleep,
       Network, Answer, TurnAway, Disturb, ServeStray, Timeout, HandleReply, Resend, Halt,
       Settling, QuarantineRejected, QuarantineBatch, QuarantineOversized, Quarantine, Split,
       Process, Stop, Start, ClockTick, outbox, history, vars
  <2> QED BY <1>1, <2>1
<1> QED BY <1>2, <1>3, <1>4, <1>5

(* The send loop gives its outbox no call that OutboxQueue does not have:   *)
(* only appended events are recorded, and batches leave from the head.      *)
THEOREM SenderUsesQueue == Spec => UsesQueue
<1>1. Init => Abstract!Init
  <2> SUFFICES ASSUME Init PROVE Abstract!Init
    OBVIOUS
  <2>1. written = 0 /\ confirmed = 0 /\ recorded = {} /\ PendingCount = 0
    BY DEF Init, PendingCount
  <2>2. [i \in 1..PendingCount |-> confirmed + i] = <<>>
    BY <2>1
  <2>3. 1..confirmed = {}
    BY <2>1
  <2> QED BY <2>1, <2>2, <2>3 DEF Abstract!Init
<1> QED BY <1>1, QueueStep, InitIInv, NextIInv, PTL DEF Spec, UsesQueue, Abstract!Spec
-----------------------------------------------------------------------------
(***************************************************************************)
(* The plan of a split.  The segments cut the head of the outbox at        *)
(* cut[0] = confirmed, cut[1], ...; each of them is a batch peekBatch()    *)
(* takes, and lies in a batch that was too large.                          *)
(***************************************************************************)
Up == pc \notin {"down", "stopped"}

(* The events after first up to last go into one body. *)
OneBody(first, last) == last = first + 1 \/ Bytes((first + 1)..last) <= SoftLimit

Cuts(segments, cut) ==
    /\ cut \in [0..Len(segments) -> Nat]
    /\ \A i, j \in 0..Len(segments) : i <= j => cut[i] <= cut[j]
    /\ \A i \in 1..Len(segments) :
          /\ segments[i] > 0
          /\ cut[i] = cut[i - 1] + segments[i]
          /\ OneBody(cut[i - 1], cut[i])

(* No segment is a batch that was too large, and none reaches over its end. *)
EndsKept(segments, cut, large) ==
    \A b \in large : cut[0] < b[2] =>
        \E i \in 1..Len(segments) : cut[i] = b[2] /\ b[1] <= cut[i - 1]

(* The segments from k on are parts of batches that were too large. *)
PartsFrom(k, segments, cut, large) ==
    \A i \in k..Len(segments) : \E b \in large : b[1] <= cut[i - 1] + 1 /\ cut[i] <= b[2]

IsPlan(cut) ==
    /\ Cuts(splitSegments, cut)
    /\ cut[0] = confirmed
    /\ cut[Len(splitSegments)] <= written
    /\ EndsKept(splitSegments, cut, tooLarge)
    /\ PartsFrom(1, splitSegments, cut, tooLarge)

Plan == \E cut : IsPlan(cut)

(* The batch in flight is one body and, during a split, the first segment. *)
BatchOK ==
    pc \in {"inflight", "settling"} =>
        /\ batchLength > 0
        /\ OneBody(confirmed, confirmed + batchLength)
        /\ splitSegments # <<>> => batchLength = Head(splitSegments)

SplitInv ==
    /\ splitSegments \in Seq(Nat)
    /\ tooLarge \subseteq Nat \X Nat
    /\ Up => Plan /\ BatchOK

LEMMA MinOfTwo ==
    ASSUME NEW m \in Int, NEW n \in Int
    PROVE  Min({m, n}) = IF m < n THEN m ELSE n
<1> DEFINE k == IF m < n THEN m ELSE n
           P(x) == \A y \in {m, n} : x <= y
<1>1. k \in {m, n} /\ P(k)
  OBVIOUS
<1>2. \A x \in {m, n} : P(x) => x = k
  OBVIOUS
<1> HIDE DEF k
<1>3. Min({m, n}) \in {m, n} /\ P(Min({m, n}))
  BY <1>1 DEF Min
<1>4. Min({m, n}) = k
  BY <1>2, <1>3
<1> QED BY <1>4 DEF k

(* A part of a body is one. *)
LEMMA PartOfBody ==
    ASSUME NEW first \in Nat, NEW last \in Nat, last <= MaxEvents, OneBody(first, last),
           NEW a \in Nat, NEW b \in Nat, first <= a, a < b, b <= last
    PROVE  OneBody(a, b)
<1>1. CASE last = first + 1
  <2>1. a = first /\ b = last
    BY <1>1
  <2> QED BY <2>1
<1>2. CASE last # first + 1
  <2> DEFINE whole == (first + 1)..last
             part == (a + 1)..b
  <2>1. whole \in SUBSET (1..MaxEvents) /\ part \in SUBSET whole
    BY DaemonAssumption
  <2>2. Bytes(whole) \in Nat /\ Bytes(part) \in Nat /\ Bytes(part) <= Bytes(whole)
    <3> HIDE DEF whole, part
    <3> QED BY <2>1, BodiesGrow
  <2>3. Bytes(whole) <= SoftLimit
    BY <1>2 DEF OneBody
  <2>4. Bytes(part) <= SoftLimit
    <3> HIDE DEF whole, part
    <3> QED BY <2>2, <2>3, DaemonAssumption
  <2> QED BY <2>4 DEF OneBody
<1> QED BY <1>1, <1>2

(* The segments are what peekBatch() takes. *)
LEMMA FirstSegmentIsPeeked ==
    ASSUME QueueOK, splitSegments \in Seq(Nat), splitSegments # <<>>, Plan
    PROVE  /\ Head(splitSegments) \in 1..PendingCount
           /\ IsPeekedLength(Head(splitSegments))
           /\ \A n \in Nat : IsPeekedLength(n) => n = Head(splitSegments)
<1> DEFINE h == Head(splitSegments)
<1>1. PICK cut : IsPlan(cut)
  BY DEF Plan
<1>2. Len(splitSegments) \in Nat \ {0} /\ 1 \in 1..Len(splitSegments) /\ h = splitSegments[1]
      /\ h \in Nat
  OBVIOUS
<1>3. /\ cut[0] = confirmed /\ h > 0 /\ cut[1] = confirmed + h
      /\ OneBody(confirmed, confirmed + h)
  <2>1. /\ splitSegments[1] > 0 /\ cut[1] = cut[1 - 1] + splitSegments[1]
        /\ OneBody(cut[1 - 1], cut[1])
    BY <1>1, <1>2 DEF IsPlan, Cuts
  <2>2. 1 - 1 = 0 /\ cut[0] = confirmed
    BY <1>1 DEF IsPlan, Cuts
  <2> QED BY <1>2, <2>1, <2>2
<1>4. confirmed + h <= written
  <2>1. 1 \in 0..Len(splitSegments) /\ Len(splitSegments) \in 0..Len(splitSegments)
        /\ 1 <= Len(splitSegments)
    BY <1>2
  <2>2. cut[1] <= cut[Len(splitSegments)] /\ cut[Len(splitSegments)] <= written
    BY <1>1, <2>1 DEF IsPlan, Cuts
  <2>3. cut[Len(splitSegments)] \in Nat
    BY <1>1, <2>1 DEF IsPlan, Cuts
  <2> QED BY <1>2, <1>3, <2>2, <2>3 DEF QueueOK
<1>5. h \in 1..PendingCount
  BY <1>2, <1>3, <1>4, QueueFacts
<1>6. Min({CurrentBatchCap, PendingCount}) = h
  <2>1. CurrentBatchCap = h /\ PendingCount \in Nat /\ h <= PendingCount
    BY <1>5, QueueFacts DEF CurrentBatchCap
  <2> HIDE DEF h
  <2> QED BY <1>2, <2>1, MinOfTwo
<1>7. Fits(h)
  <2>1. confirmed + h = confirmed + 1 => h = 1
    BY <1>2 DEF QueueOK
  <2> HIDE DEF h
  <2> QED BY <1>3, <2>1 DEF Fits, OneBody
<1>8. \A n : IsPeekedLength(n) <=>
             n \in 1..h /\ Fits(n) /\ \A m \in 1..h : Fits(m) => m <= n
  <2> HIDE DEF h
  <2> QED BY <1>6 DEF IsPeekedLength
<1> HIDE DEF h
<1>9. IsPeekedLength(h)
  BY <1>2, <1>3, <1>7, <1>8
<1>10. ASSUME NEW n \in Nat, IsPeekedLength(n) PROVE n = h
  <2>1. n \in 1..h /\ (h \in 1..h => h <= n)
    BY <1>7, <1>8, <1>10
  <2> QED BY <1>2, <1>3, <2>1
<1> QED BY <1>5, <1>9, <1>10 DEF h

(* A batch that is the first segment leaves the others. *)
LEMMA AdvanceByFirst ==
    ASSUME NEW s \in Seq(Nat), s # <<>>, \A i \in 1..Len(s) : s[i] > 0
    PROVE  AdvanceSplitSegments(s, Head(s)) = Tail(s)
<1> DEFINE To(k) == Sum(s, 1..k)
           whole == Max({k \in 0..Len(s) : To(k) <= Head(s)})
           rest == SubSeq(s, whole + 1, Len(s))
<1>1. Len(s) \in Nat \ {0} /\ Head(s) = s[1] /\ s[1] \in Nat /\ s[1] > 0
  OBVIOUS
<1>2. AdvanceSplitSegments(s, Head(s)) =
        IF rest = <<>> THEN <<>> ELSE [rest EXCEPT ![1] = @ - (Head(s) - To(whole))]
  BY DEF AdvanceSplitSegments, Sum
<1>3. To(0) = 0
  <2>1. 1..0 = {}
    OBVIOUS
  <2> QED BY <2>1, SumEmpty
<1>4. ASSUME NEW S \in SUBSET (1..Len(s))
      PROVE  IsFiniteSet(S) /\ (\A x \in S : s[x] \in Nat) /\ Sum(s, S) \in Nat
  <2>1. IsFiniteSet(S)
    <3>1. Len(s) \in Int /\ 1 \in Int
      BY <1>1
    <3> QED BY <1>4, <3>1, FS_Interval, FS_Subset
  <2>2. \A x \in S : s[x] \in Nat
    BY <1>4
  <2> QED BY <2>1, <2>2, SumType
<1>5. To(1) = s[1]
  <2>1. 1..1 = {1} /\ {1} \in SUBSET (1..Len(s))
    BY <1>1
  <2>2. PICK none : none = {1} \ {1}
    OBVIOUS
  <2>3. Sum(s, {1}) = s[1] + Sum(s, none)
    BY <1>4, <2>1, <2>2, SumRemove
  <2>4. Sum(s, none) = 0
    <3>1. none = {}
      BY <2>2
    <3> QED BY <3>1, SumEmpty
  <2> QED BY <1>1, <2>1, <2>3, <2>4
<1>6. ASSUME NEW k \in 2..Len(s) PROVE ~(To(k) <= s[1])
  <2> DEFINE K == 1..k
  <2>1. K \in SUBSET (1..Len(s)) /\ {1, 2} \in SUBSET K /\ {1, 2} \in SUBSET (1..Len(s))
    BY <1>1
  <2>2. Sum(s, {1, 2}) <= Sum(s, K) /\ Sum(s, K) \in Nat
    <3> HIDE DEF K
    <3> QED BY <1>4, <2>1, SumGrows
  <2>3. {1, 2} \ {2} = {1} /\ 2 \in {1, 2}
    OBVIOUS
  <2>4. Sum(s, {1, 2}) = s[2] + Sum(s, {1, 2} \ {2})
    BY <1>4, <2>1, <2>3, SumRemove
  <2>5. 1..1 = {1} /\ s[2] \in Nat /\ s[2] > 0
    OBVIOUS
  <2>6. Sum(s, {1, 2}) = s[2] + s[1]
    BY <1>5, <2>3, <2>4, <2>5
  <2> QED BY <1>1, <2>2, <2>5, <2>6
<1> HIDE DEF To
<1>7. {k \in 0..Len(s) : To(k) <= Head(s)} = {0, 1}
  BY <1>1, <1>3, <1>5, <1>6
<1>8. whole = 1
  BY <1>7, MaxWithZero
<1>9. rest = Tail(s)
  <2>1. Tail(s) = SubSeq(s, 2, Len(s)) /\ 1 + 1 = 2
    BY <1>1
  <2> QED BY <1>8, <2>1
<1> HIDE DEF whole, rest
<1>10. rest # <<>> => rest[1] - (Head(s) - To(whole)) = rest[1]
  BY <1>1, <1>5, <1>8, <1>9
<1>11. rest # <<>> => [rest EXCEPT ![1] = @ - (Head(s) - To(whole))] = rest
  <2>1. rest \in Seq(Nat)
    BY <1>9
  <2> QED BY <1>10, <2>1
<1>12. CASE rest = <<>>
  BY <1>2, <1>9, <1>12
<1>13. CASE rest # <<>>
  <2>1. AdvanceSplitSegments(s, Head(s)) = [rest EXCEPT ![1] = @ - (Head(s) - To(whole))]
    BY <1>2, <1>13
  <2> QED BY <1>9, <1>11, <1>13, <2>1
<1> QED BY <1>12, <1>13

LEMMA AdvanceWithoutPlan == \A n : AdvanceSplitSegments(<<>>, n) = <<>>
BY DEF AdvanceSplitSegments

LEMMA HalvesAddUp ==
    ASSUME NEW c \in Nat, NEW h \in Nat, NEW left \in 1..(h - 1)
    PROVE  /\ h - left > 0 /\ c + h = (c + left) + (h - left)
           /\ c + left \in Nat /\ c + left <= c + h /\ c <= c + h
OBVIOUS

(* Halves of the first segment. *)
Halved(s, left) == <<left, Head(s) - left>> \o Tail(s)
WholeFirst(cut) == <<cut[0] + 1, cut[1]>>

SubPlan(s, first, last, large) ==
    \E cut : /\ Cuts(s, cut) /\ cut[0] = first /\ cut[Len(s)] = last
             /\ EndsKept(s, cut, large) /\ PartsFrom(1, s, cut, large)

LEMMA CutsInTwo ==
    ASSUME NEW s \in Seq(Nat), s # <<>>, NEW cut, Cuts(s, cut), cut[Len(s)] <= MaxEvents,
           NEW large \in SUBSET (Nat \X Nat), EndsKept(s, cut, large), PartsFrom(2, s, cut, large),
           NEW left \in 1..(Head(s) - 1),
           NEW r, r = Halved(s, left)
    PROVE  r \in Seq(Nat) /\ SubPlan(r, cut[0], cut[Len(s)], large \cup {WholeFirst(cut)})
<1> DEFINE more == large \cup {WholeFirst(cut)}
           d == [i \in 0..(Len(s) + 1) |->
                    IF i = 0 THEN cut[0] ELSE IF i = 1 THEN cut[0] + left ELSE cut[i - 1]]
<1>1. /\ Len(s) \in Nat \ {0} /\ Head(s) = s[1] /\ Head(s) \in Nat /\ left \in Nat
      /\ 1 <= left /\ left < Head(s)
  OBVIOUS
<1>2. /\ Tail(s) \in Seq(Nat) /\ Len(Tail(s)) = Len(s) - 1
      /\ \A i \in 1..(Len(s) - 1) : Tail(s)[i] = s[i + 1]
  BY HeadTailProperties
<1>3. <<left, Head(s) - left>> \in Seq(Nat) /\ Len(<<left, Head(s) - left>>) = 2
  BY <1>1
<1>4. /\ r \in Seq(Nat) /\ Len(r) = Len(s) + 1
      /\ r[1] = left /\ r[2] = Head(s) - left
      /\ \A i \in 3..(Len(s) + 1) : r[i] = s[i - 1]
  <2> DEFINE q == <<left, Head(s) - left>>
             u == Tail(s)
  <2>1. q \in Seq(Nat) /\ Len(q) = 2 /\ q[1] = left /\ q[2] = Head(s) - left
    BY <1>3
  <2>2. r = q \o u /\ u \in Seq(Nat) /\ Len(u) = Len(s) - 1
        /\ \A i \in 1..(Len(s) - 1) : u[i] = s[i + 1]
    BY <1>2 DEF Halved
  <2> HIDE DEF q, u
  <2>3. /\ r \in Seq(Nat) /\ Len(r) = Len(s) + 1
        /\ \A i \in 1..(Len(s) + 1) : r[i] = IF i <= 2 THEN q[i] ELSE u[i - 2]
    <3>1. /\ Len(q \o u) = Len(q) + Len(u) /\ q \o u \in Seq(Nat)
          /\ \A i \in 1..(Len(q) + Len(u)) :
                (q \o u)[i] = IF i <= Len(q) THEN q[i] ELSE u[i - Len(q)]
      BY <2>1, <2>2, ConcatProperties
    <3>2. Len(q) + Len(u) = Len(s) + 1
      BY <1>1, <2>1, <2>2
    <3> QED BY <2>1, <2>2, <3>1, <3>2
  <2>4. ASSUME NEW i \in 3..(Len(s) + 1) PROVE r[i] = s[i - 1]
    <3>1. i - 2 \in 1..(Len(s) - 1) /\ (i - 2) + 1 = i - 1
      BY <1>1
    <3>2. u[i - 2] = s[i - 1]
      BY <2>2, <3>1
    <3>3. i \in 1..(Len(s) + 1) /\ ~(i <= 2)
      BY <1>1
    <3> QED BY <2>3, <3>2, <3>3
  <2>5. 1 \in 1..(Len(s) + 1) /\ 2 \in 1..(Len(s) + 1)
    BY <1>1
  <2> QED BY <2>1, <2>3, <2>4, <2>5
<1>5. /\ \A i \in 0..Len(s) : cut[i] \in Nat
      /\ \A i, j \in 0..Len(s) : i <= j => cut[i] <= cut[j]
      /\ \A i \in 1..Len(s) :
            s[i] > 0 /\ cut[i] = cut[i - 1] + s[i] /\ OneBody(cut[i - 1], cut[i])
  BY DEF Cuts
<1>6. /\ cut[0] \in Nat /\ cut[1] \in Nat /\ cut[1] = cut[0] + Head(s)
      /\ OneBody(cut[0], cut[1]) /\ cut[1] <= MaxEvents
  <2>1. 1 \in 1..Len(s) /\ 1 - 1 = 0 /\ 0 \in 0..Len(s) /\ 1 \in 0..Len(s) /\ 1 <= Len(s)
        /\ Len(s) \in 0..Len(s)
    BY <1>1
  <2>2. cut[1] = cut[1 - 1] + s[1] /\ OneBody(cut[1 - 1], cut[1])
    BY <1>5, <2>1
  <2>3. cut[1] <= cut[Len(s)] /\ cut[Len(s)] \in Nat
    BY <1>5, <2>1
  <2>4. cut[0] \in Nat /\ cut[1] \in Nat /\ MaxEvents \in Nat
    BY <1>5, <2>1, DaemonAssumption
  <2>5. cut[1] <= MaxEvents
    BY <2>3, <2>4
  <2> QED BY <1>1, <2>1, <2>2, <2>4, <2>5
<1>7. /\ d[0] = cut[0] /\ d[1] = cut[0] + left
      /\ \A i \in 2..(Len(s) + 1) : d[i] = cut[i - 1]
  BY <1>1
<1>8. d \in [0..(Len(s) + 1) -> Nat]
  <2>1. \A i \in 2..(Len(s) + 1) : i - 1 \in 0..Len(s)
    BY <1>1
  <2>2. \A i \in 2..(Len(s) + 1) : cut[i - 1] \in Nat
    BY <1>5, <2>1
  <2>3. cut[0] + left \in Nat
    BY <1>1, <1>6
  <2>4. \A i \in 0..(Len(s) + 1) : i = 0 \/ i = 1 \/ i \in 2..(Len(s) + 1)
    BY <1>1
  <2> QED BY <1>6, <2>2, <2>3, <2>4
<1> HIDE DEF d
<1>9. ASSUME NEW i \in 0..(Len(s) + 1), NEW j \in 0..(Len(s) + 1), i <= j PROVE d[i] <= d[j]
  <2>1. ASSUME NEW k \in 2..(Len(s) + 1)
        PROVE  /\ k - 1 \in 1..Len(s) /\ k - 1 \in 0..Len(s) /\ d[k] = cut[k - 1]
               /\ cut[k - 1] \in Nat /\ cut[1] <= cut[k - 1]
    <3>1. k - 1 \in 1..Len(s) /\ k - 1 \in 0..Len(s) /\ 1 \in 0..Len(s) /\ 1 <= k - 1
      BY <1>1
    <3>2. cut[1] <= cut[k - 1] /\ cut[k - 1] \in Nat
      BY <1>5, <3>1
    <3> QED BY <1>7, <3>1, <3>2
  <2>2. CASE i >= 2
    <3>1. i \in 2..(Len(s) + 1) /\ j \in 2..(Len(s) + 1) /\ i - 1 <= j - 1
      BY <1>9, <2>2
    <3>2. cut[i - 1] <= cut[j - 1]
      BY <1>5, <2>1, <3>1
    <3> QED BY <2>1, <3>1, <3>2
  <2>3. ASSUME i < 2 PROVE d[i] \in Nat /\ d[i] <= cut[1]
    <3>1. i = 0 \/ i = 1
      BY <2>3
    <3>2. /\ d[0] \in Nat /\ d[0] <= cut[1]
          /\ d[1] \in Nat /\ d[1] <= cut[1]
      <4>1. /\ cut[0] + left \in Nat /\ cut[0] + left <= cut[0] + Head(s)
            /\ cut[0] <= cut[0] + Head(s)
        BY <1>1, <1>6, HalvesAddUp
      <4> QED BY <1>6, <1>7, <4>1
    <3> QED BY <3>1, <3>2
  <2>4. CASE i < 2 /\ j >= 2
    <3>1. j \in 2..(Len(s) + 1)
      BY <2>4
    <3>2. d[j] \in Nat /\ cut[1] <= d[j]
      BY <2>1, <3>1
    <3> QED BY <1>6, <2>3, <2>4, <3>2
  <2>5. CASE i < 2 /\ j < 2
    <3>1. (i = 0 \/ i = 1) /\ (j = 0 \/ j = 1)
      BY <2>5
    <3> QED BY <1>1, <1>6, <1>7, <1>9, <3>1
  <2> QED BY <2>2, <2>4, <2>5
<1>10. /\ OneBody(d[0], d[1]) /\ OneBody(d[1], d[2]) /\ d[2] = cut[1]
  <2>1. d[2] = cut[1]
    <3>1. 2 \in 2..(Len(s) + 1) /\ 2 - 1 = 1
      BY <1>1
    <3> QED BY <1>7, <3>1
  <2>2. OneBody(cut[0], cut[0] + left) /\ OneBody(cut[0] + left, cut[1])
    BY <1>1, <1>6, PartOfBody
  <2> QED BY <1>7, <2>1, <2>2
<1>11. ASSUME NEW i \in 1..(Len(s) + 1)
       PROVE  r[i] > 0 /\ d[i] = d[i - 1] + r[i] /\ OneBody(d[i - 1], d[i])
  <2>1. CASE i = 1
    <3>1. i - 1 = 0
      BY <2>1
    <3>2. r[1] > 0 /\ d[1] = d[0] + r[1]
      BY <1>1, <1>4, <1>6, <1>7
    <3> QED BY <1>10, <2>1, <3>1, <3>2
  <2>2. CASE i = 2
    <3>1. i - 1 = 1
      BY <2>2
    <3>2. r[2] > 0 /\ d[2] = d[1] + r[2]
      <4>1. /\ Head(s) - left > 0
            /\ cut[0] + Head(s) = (cut[0] + left) + (Head(s) - left)
        BY <1>1, <1>6, HalvesAddUp
      <4> QED BY <1>4, <1>6, <1>7, <1>10, <4>1
    <3> QED BY <1>10, <2>2, <3>1, <3>2
  <2>3. CASE i > 2
    <3>1. i - 1 \in 1..Len(s) /\ i \in 3..(Len(s) + 1) /\ i \in 2..(Len(s) + 1)
          /\ i - 1 \in 2..(Len(s) + 1)
      BY <1>1, <2>3
    <3>2. r[i] = s[i - 1] /\ d[i] = cut[i - 1] /\ d[i - 1] = cut[(i - 1) - 1]
      BY <1>4, <1>7, <3>1
    <3> QED BY <1>5, <3>1, <3>2
  <2> QED BY <2>1, <2>2, <2>3
<1>12. Cuts(r, d)
  BY <1>4, <1>8, <1>9, <1>11 DEF Cuts
<1>13. EndsKept(r, d, more)
  <2> SUFFICES ASSUME NEW b \in more, cut[0] < b[2]
               PROVE  \E i \in 1..(Len(s) + 1) : d[i] = b[2] /\ b[1] <= d[i - 1]
    BY <1>4, <1>7 DEF EndsKept
  <2>1. CASE b \in large
    <3>1. PICK i \in 1..Len(s) : cut[i] = b[2] /\ b[1] <= cut[i - 1]
      BY <2>1 DEF EndsKept
    <3>2. i + 1 \in 2..(Len(s) + 1) /\ (i + 1) - 1 = i /\ i + 1 \in 1..(Len(s) + 1)
      BY <1>1
    <3>3. d[i + 1] = cut[i]
      BY <1>7, <3>2
    <3>4. b[1] <= d[i]
      <4>1. CASE i = 1
        <5>1. b[1] <= cut[0] /\ d[1] = cut[0] + left
          BY <1>7, <3>1, <4>1
        <5>2. b[1] \in Nat
          BY <2>1
        <5> QED BY <1>1, <1>6, <4>1, <5>1, <5>2
      <4>2. CASE i # 1
        <5>1. i \in 2..(Len(s) + 1)
          BY <1>1, <4>2
        <5> QED BY <1>7, <3>1, <5>1
      <4> QED BY <4>1, <4>2
    <3> QED BY <3>1, <3>2, <3>3, <3>4
  <2>2. CASE b = WholeFirst(cut)
    <3>1. d[2] = b[2] /\ b[1] <= d[2 - 1] /\ 2 \in 1..(Len(s) + 1)
      <4>1. b[1] = cut[0] + 1 /\ b[2] = cut[1]
        BY <2>2 DEF WholeFirst
      <4>2. cut[0] + 1 <= cut[0] + left /\ 2 - 1 = 1 /\ 2 \in 1..(Len(s) + 1)
        BY <1>1, <1>6
      <4> QED BY <1>7, <1>10, <4>1, <4>2
    <3> QED BY <3>1
  <2> QED BY <2>1, <2>2
<1>14. PartsFrom(1, r, d, more)
  <2> SUFFICES ASSUME NEW i \in 1..(Len(s) + 1)
               PROVE  \E b \in more : b[1] <= d[i - 1] + 1 /\ d[i] <= b[2]
    BY <1>4 DEF PartsFrom
  <2>1. CASE i <= 2
    <3> DEFINE b == WholeFirst(cut)
    <3>1. b \in more /\ b[1] = cut[0] + 1 /\ b[2] = cut[1]
      BY DEF WholeFirst
    <3>2. cut[0] + 1 <= d[i - 1] + 1 /\ d[i] <= cut[1]
      <4>1. i = 1 \/ i = 2
        BY <2>1
      <4>2. CASE i = 1
        <5>1. i - 1 = 0
          BY <4>2
        <5> QED BY <1>1, <1>6, <1>7, <4>2, <5>1
      <4>3. CASE i = 2
        <5>1. i - 1 = 1
          BY <4>3
        <5> QED BY <1>1, <1>6, <1>7, <1>10, <4>3, <5>1
      <4> QED BY <4>1, <4>2, <4>3
    <3> HIDE DEF b
    <3> QED BY <3>1, <3>2
  <2>2. CASE i > 2
    <3>1. i - 1 \in 2..Len(s) /\ i \in 2..(Len(s) + 1) /\ i - 1 \in 2..(Len(s) + 1)
      BY <1>1, <2>2
    <3>2. d[i] = cut[i - 1] /\ d[i - 1] = cut[(i - 1) - 1]
      BY <1>7, <3>1
    <3>3. PICK b \in large : b[1] <= cut[(i - 1) - 1] + 1 /\ cut[i - 1] <= b[2]
      BY <3>1 DEF PartsFrom
    <3> QED BY <3>2, <3>3
  <2> QED BY <2>1, <2>2
<1>15. d[Len(r)] = cut[Len(s)]
  <2>1. Len(s) + 1 \in 2..(Len(s) + 1) /\ (Len(s) + 1) - 1 = Len(s)
    BY <1>1
  <2> QED BY <1>4, <1>7, <2>1
<1> QED BY <1>4, <1>7, <1>12, <1>13, <1>14, <1>15 DEF SubPlan

(* The plan without its first segment. *)
LEMMA CutsWithoutFirst ==
    ASSUME NEW s \in Seq(Nat), s # <<>>, NEW cut, Cuts(s, cut),
           NEW large \in SUBSET (Nat \X Nat), EndsKept(s, cut, large),
           PartsFrom(1, s, cut, large)
    PROVE  SubPlan(Tail(s), cut[0] + Head(s), cut[Len(s)], large)
<1> DEFINE d == [i \in 0..(Len(s) - 1) |-> cut[i + 1]]
           u == Tail(s)
<1>1. /\ Len(s) \in Nat \ {0} /\ Head(s) = s[1] /\ Head(s) \in Nat
      /\ u \in Seq(Nat) /\ Len(u) = Len(s) - 1
      /\ \A i \in 1..(Len(s) - 1) : u[i] = s[i + 1]
  BY HeadTailProperties
<1> HIDE DEF u
<1>2. /\ \A i \in 0..Len(s) : cut[i] \in Nat
      /\ \A i, j \in 0..Len(s) : i <= j => cut[i] <= cut[j]
      /\ \A i \in 1..Len(s) :
            s[i] > 0 /\ cut[i] = cut[i - 1] + s[i] /\ OneBody(cut[i - 1], cut[i])
  BY DEF Cuts
<1>3. ASSUME NEW i \in 0..(Len(s) - 1)
      PROVE  i + 1 \in 0..Len(s) /\ d[i] = cut[i + 1] /\ d[i] \in Nat
  <2>1. i + 1 \in 0..Len(s)
    BY <1>1
  <2> QED BY <1>2, <2>1
<1>4. d \in [0..(Len(s) - 1) -> Nat]
  BY <1>3
<1> HIDE DEF d
<1>5. d[0] = cut[0] + Head(s) /\ d[0] = cut[1]
  <2>1. 0 \in 0..(Len(s) - 1) /\ 0 + 1 = 1 /\ 1 \in 1..Len(s) /\ 1 - 1 = 0
    BY <1>1
  <2>2. d[0] = cut[1] /\ cut[1] = cut[1 - 1] + s[1]
    BY <1>2, <1>3, <2>1
  <2> QED BY <1>1, <2>1, <2>2
<1>6. d[Len(u)] = cut[Len(s)]
  <2>1. Len(s) - 1 \in 0..(Len(s) - 1) /\ (Len(s) - 1) + 1 = Len(s)
    BY <1>1
  <2> QED BY <1>1, <1>3, <2>1
<1>7. ASSUME NEW i \in 0..(Len(s) - 1), NEW j \in 0..(Len(s) - 1), i <= j PROVE d[i] <= d[j]
  <2>1. i + 1 <= j + 1
    BY <1>7
  <2> QED BY <1>2, <1>3, <2>1
<1>8. ASSUME NEW i \in 1..(Len(s) - 1)
      PROVE  /\ i + 1 \in 1..Len(s) /\ (i + 1) - 1 = i
             /\ d[i] = cut[i + 1] /\ d[i - 1] = cut[i] /\ u[i] = s[i + 1]
  <2>1. i + 1 \in 1..Len(s) /\ (i + 1) - 1 = i /\ i \in 0..(Len(s) - 1)
        /\ i - 1 \in 0..(Len(s) - 1) /\ (i - 1) + 1 = i
    BY <1>1
  <2> QED BY <1>1, <1>3, <2>1
<1>9. Cuts(u, d)
  <2>1. ASSUME NEW i \in 1..(Len(s) - 1)
        PROVE  u[i] > 0 /\ d[i] = d[i - 1] + u[i] /\ OneBody(d[i - 1], d[i])
    BY <1>2, <1>8
  <2> QED BY <1>1, <1>4, <1>7, <2>1 DEF Cuts
<1>10. EndsKept(u, d, large)
  <2> SUFFICES ASSUME NEW b \in large, d[0] < b[2]
               PROVE  \E i \in 1..(Len(s) - 1) : d[i] = b[2] /\ b[1] <= d[i - 1]
    BY <1>1 DEF EndsKept
  <2>1. cut[0] < b[2]
    <3>1. cut[0] \in Nat /\ b[2] \in Nat /\ Head(s) \in Nat
      BY <1>1, <1>2
    <3> QED BY <1>5, <3>1
  <2>2. PICK i \in 1..Len(s) : cut[i] = b[2] /\ b[1] <= cut[i - 1]
    BY <2>1 DEF EndsKept
  <2>3. i # 1
    <3>1. cut[1] \in Nat /\ cut[1] < b[2]
      BY <1>1, <1>2, <1>5
    <3> QED BY <2>2, <3>1
  <2>4. i - 1 \in 1..(Len(s) - 1) /\ (i - 1) + 1 = i
    BY <1>1, <2>3
  <2>5. d[i - 1] = cut[i] /\ d[(i - 1) - 1] = cut[i - 1]
    BY <1>8, <2>4
  <2> QED BY <2>2, <2>4, <2>5
<1>11. PartsFrom(1, u, d, large)
  <2> SUFFICES ASSUME NEW i \in 1..(Len(s) - 1)
               PROVE  \E b \in large : b[1] <= d[i - 1] + 1 /\ d[i] <= b[2]
    BY <1>1 DEF PartsFrom
  <2>1. PICK b \in large : b[1] <= cut[(i + 1) - 1] + 1 /\ cut[i + 1] <= b[2]
    BY <1>8 DEF PartsFrom
  <2> QED BY <1>8, <2>1
<1> QED BY <1>5, <1>6, <1>9, <1>10, <1>11 DEF SubPlan, u

(* The next plan for a batch of n events that was too large. *)
LEMMA SplitIsInTwo ==
    ASSUME NEW s \in Seq(Nat), NEW n \in Nat, n > 1, s = <<>> \/ n = Head(s)
    PROVE  \E left \in 1..(n - 1) :
              SplitCurrentBatch(s, n) =
                  <<left, n - left>> \o (IF s = <<>> THEN <<>> ELSE Tail(s))
<1> DEFINE left == (n + 1) \div 2
           more == IF s = <<>> THEN <<>> ELSE Tail(s)
<1>1. left \in Nat /\ 1 <= left /\ left <= n - 1
  OBVIOUS
<1>2. left > 0 /\ n - left > 0 /\ ~(n - n > 0) /\ left \in 1..(n - 1)
  BY <1>1
<1>3. (IF s = <<>> THEN n ELSE Head(s)) = n
  OBVIOUS
<1>4. SplitCurrentBatch(s, n) = <<left>> \o <<n - left>> \o <<>> \o more
  <2>1. SplitCurrentBatch(s, n) =
          (IF left > 0 THEN <<left>> ELSE <<>>)
             \o (IF n - left > 0 THEN <<n - left>> ELSE <<>>)
             \o (IF (IF s = <<>> THEN n ELSE Head(s)) - n > 0
                 THEN <<(IF s = <<>> THEN n ELSE Head(s)) - n>> ELSE <<>>)
             \o more
    BY DEF SplitCurrentBatch
  <2> HIDE DEF left, more
  <2> QED BY <1>2, <1>3, <2>1
<1>5. <<left>> \o <<n - left>> \o <<>> = <<left, n - left>>
  <2> DEFINE a == <<left>>
             b == <<n - left>>
             both == <<left, n - left>>
  <2>1. /\ a \in Seq(Nat) /\ Len(a) = 1 /\ a[1] = left
        /\ b \in Seq(Nat) /\ Len(b) = 1 /\ b[1] = n - left
        /\ both \in Seq(Nat) /\ Len(both) = 2 /\ both[1] = left /\ both[2] = n - left
    BY <1>1
  <2> HIDE DEF a, b, both, left
  <2>2. a \o b \in Seq(Nat) /\ Len(a \o b) = 2 /\ (a \o b)[1] = left /\ (a \o b)[2] = n - left
    <3>1. /\ a \o b \in Seq(Nat) /\ Len(a \o b) = Len(a) + Len(b)
          /\ \A i \in 1..(Len(a) + Len(b)) :
                (a \o b)[i] = IF i <= Len(a) THEN a[i] ELSE b[i - Len(a)]
      BY <2>1, ConcatProperties
    <3> QED BY <2>1, <3>1
  <2>3. a \o b = both
    BY <2>1, <2>2, SeqEqual
  <2>4. (a \o b) \o <<>> = a \o b
    BY <2>2, ConcatEmptySeq
  <2> QED BY <2>3, <2>4 DEF a, b, both
<1> HIDE DEF left
<1> QED BY <1>2, <1>4, <1>5

LEMMA SplitInit == Init => SplitInv
<1> SUFFICES ASSUME Init PROVE SplitInv
  OBVIOUS
<1> QED BY DEF Init, SplitInv, Up

(* The plan is about the head of the outbox, which only Settle moves. *)
LEMMA PlanStays ==
    ASSUME QueueOK, written' \in Nat, written <= written',
           UNCHANGED <<confirmed, splitSegments, tooLarge>>, splitSegments \in Seq(Nat), Plan
    PROVE  Plan'
<1>1. PICK cut : IsPlan(cut)
  BY DEF Plan
<1>2. cut[Len(splitSegments)] \in Nat
  BY <1>1 DEF IsPlan, Cuts
<1>3. cut[Len(splitSegments)] <= written'
  BY <1>1, <1>2 DEF IsPlan, QueueOK
<1>4. IsPlan(cut)'
  BY <1>1, <1>3 DEF IsPlan
<1> QED BY <1>4 DEF Plan

LEMMA PlanStart == Start /\ QueueOK => SplitInv'
<1> SUFFICES ASSUME Start, QueueOK PROVE SplitInv'
  OBVIOUS
<1>1. /\ splitSegments' = <<>> /\ tooLarge' = {} /\ pc' = "top"
      /\ UNCHANGED <<written, confirmed>>
  BY DEF Start, outbox
<1> DEFINE cut == [i \in 0..0 |-> confirmed]
<1>2. IsPlan(cut)'
  BY <1>1 DEF IsPlan, Cuts, EndsKept, PartsFrom, QueueOK
<1>3. Plan'
  BY <1>2 DEF Plan
<1> QED BY <1>1, <1>3 DEF SplitInv, BatchOK

LEMMA PlanSettle ==
    ASSUME IInv, SplitInv, Settle
    PROVE  SplitInv'
<1>1. /\ pc = "settling" /\ pc' = "top"
      /\ confirmed' = confirmed + batchLength
      /\ splitSegments' = AdvanceSplitSegments(splitSegments, batchLength)
      /\ UNCHANGED <<written, tooLarge>>
  BY DEF Settle, EndRequest, history
<1>2. /\ QueueOK /\ splitSegments \in Seq(Nat) /\ Plan /\ tooLarge \in SUBSET (Nat \X Nat)
      /\ splitSegments # <<>> => batchLength = Head(splitSegments)
  BY <1>1 DEF IInv, SplitInv, Up, BatchOK
<1>3. PICK cut : IsPlan(cut)
  BY <1>2 DEF Plan
<1>4. splitSegments' \in Seq(Nat) /\ Plan'
  <2>1. CASE splitSegments = <<>>
    <3>1. splitSegments' = <<>>
      BY <1>1, <2>1, AdvanceWithoutPlan
    <3> PICK d : d = [i \in 0..0 |-> confirmed']
      OBVIOUS
    <3>2. \A b \in tooLarge : ~(confirmed < b[2])
      BY <1>3, <2>1 DEF IsPlan, EndsKept
    <3>3. \A b \in tooLarge : ~(confirmed' < b[2])
      BY <1>1, <1>2, <3>2 DEF QueueOK
    <3>4. confirmed' \in Nat /\ confirmed' <= written'
      BY <1>1, <1>2 DEF QueueOK
    <3>5. IsPlan(d)'
      BY <1>1, <3>1, <3>3, <3>4 DEF IsPlan, Cuts, EndsKept, PartsFrom
    <3>6. Plan'
      BY <3>5 DEF Plan
    <3> QED BY <3>1, <3>6
  <2>2. CASE splitSegments # <<>>
    <3>1. batchLength = Head(splitSegments)
      BY <1>2, <2>2
    <3>2. splitSegments' = Tail(splitSegments)
      BY <1>1, <1>2, <1>3, <2>2, <3>1, AdvanceByFirst DEF IsPlan, Cuts
    <3>3. SubPlan(Tail(splitSegments), cut[0] + Head(splitSegments), cut[Len(splitSegments)],
                  tooLarge)
      BY <1>2, <1>3, <2>2, CutsWithoutFirst DEF IsPlan
    <3>4. Plan'
      BY <1>1, <1>3, <3>1, <3>2, <3>3 DEF SubPlan, Plan, IsPlan
    <3> QED BY <1>2, <2>2, <3>2, <3>4, HeadTailProperties
  <2> QED BY <2>1, <2>2
<1> QED BY <1>1, <1>2, <1>4 DEF SplitInv, BatchOK

LEMMA PlanSplit ==
    ASSUME IInv, Requests, SplitInv, Split
    PROVE  SplitInv'
<1> DEFINE n == batchLength
           s == splitSegments
           t == IF s = <<>> THEN <<n>> ELSE s
           whole == <<confirmed + 1, confirmed + n>>
<1>1. /\ pc = "inflight" /\ pc' = "top" /\ n > 1
      /\ splitSegments' = SplitCurrentBatch(s, n)
      /\ tooLarge' = tooLarge \cup {whole}
      /\ UNCHANGED <<written, confirmed>>
  BY DEF Split, Acts, EndRequest, outbox, history
<1>2. /\ confirmed \in Nat /\ n \in Nat /\ written \in Nat /\ confirmed + n <= written
      /\ written <= MaxEvents /\ MaxEvents \in Nat
  BY DaemonAssumption DEF IInv, QueueOK, Requests
<1>3. /\ s \in Seq(Nat) /\ Plan /\ tooLarge \in SUBSET (Nat \X Nat)
      /\ s # <<>> => n = Head(s)
      /\ OneBody(confirmed, confirmed + n)
  BY <1>1 DEF SplitInv, Up, BatchOK
<1>4. t \in Seq(Nat) /\ t # <<>> /\ Head(t) = n
      /\ Tail(t) = IF s = <<>> THEN <<>> ELSE Tail(s)
  BY <1>2, <1>3
<1>5. PICK old : IsPlan(old)
  BY <1>3 DEF Plan
<1>6. \E cut : /\ Cuts(t, cut) /\ cut[0] = confirmed /\ cut[Len(t)] <= written
               /\ cut[1] = confirmed + n
               /\ EndsKept(t, cut, tooLarge) /\ PartsFrom(2, t, cut, tooLarge)
  <2>1. CASE s = <<>>
    <3> DEFINE cut == [i \in 0..1 |-> IF i = 0 THEN confirmed ELSE confirmed + n]
    <3>1. t = <<n>> /\ Len(t) = 1 /\ t[1] = n
      BY <2>1
    <3>2. /\ cut \in [0..1 -> Nat] /\ cut[0] = confirmed /\ cut[1] = confirmed + n
      BY <1>2
    <3> HIDE DEF cut, t
    <3>3. \A i, j \in 0..1 : i <= j => cut[i] <= cut[j]
      BY <1>2, <3>2
    <3>4. \A i \in 1..1 : i = 1 /\ i - 1 = 0
      OBVIOUS
    <3>5. Cuts(t, cut)
      <4>1. \A i \in 1..1 : t[i] > 0 /\ cut[i] = cut[i - 1] + t[i] /\ OneBody(cut[i - 1], cut[i])
        BY <1>1, <1>2, <1>3, <3>1, <3>2, <3>4
      <4> QED BY <3>1, <3>2, <3>3, <4>1 DEF Cuts
    <3>6. EndsKept(t, cut, tooLarge)
      <4>1. \A b \in tooLarge : ~(confirmed < b[2])
        BY <1>5, <2>1 DEF IsPlan, EndsKept
      <4> QED BY <3>2, <4>1 DEF EndsKept
    <3>7. PartsFrom(2, t, cut, tooLarge)
      BY <3>1 DEF PartsFrom
    <3> QED BY <1>2, <3>1, <3>2, <3>5, <3>6, <3>7
  <2>2. CASE s # <<>>
    <3>1. t = s /\ 1 \in 1..Len(s) /\ s[1] = n /\ 1 - 1 = 0
      BY <1>3, <2>2
    <3>2. old[1] = old[0] + n
      BY <1>5, <3>1 DEF IsPlan, Cuts
    <3>3. PartsFrom(2, s, old, tooLarge)
      BY <1>5 DEF IsPlan, PartsFrom
    <3> QED BY <1>5, <3>1, <3>2, <3>3 DEF IsPlan
  <2> QED BY <2>1, <2>2
<1> HIDE DEF t
<1>7. PICK cut : /\ Cuts(t, cut) /\ cut[0] = confirmed /\ cut[Len(t)] <= written
                 /\ cut[1] = confirmed + n
                 /\ EndsKept(t, cut, tooLarge) /\ PartsFrom(2, t, cut, tooLarge)
  BY <1>6
<1>8. cut[Len(t)] <= MaxEvents
  <2>1. cut[Len(t)] \in Nat
    BY <1>4, <1>7 DEF Cuts
  <2> QED BY <1>2, <1>7, <2>1
<1>9. PICK left \in 1..(n - 1) : splitSegments' = <<left, n - left>> \o Tail(t)
  <2>1. PICK left \in 1..(n - 1) :
            SplitCurrentBatch(s, n) = <<left, n - left>> \o (IF s = <<>> THEN <<>> ELSE Tail(s))
    <3> HIDE DEF n, s
    <3> QED BY <1>1, <1>2, <1>3, SplitIsInTwo
  <2> QED BY <1>1, <1>4, <2>1
<1>10. tooLarge' = tooLarge \cup {WholeFirst(cut)}
  BY <1>1, <1>7 DEF WholeFirst
<1>11. /\ splitSegments' \in Seq(Nat)
       /\ SubPlan(splitSegments', cut[0], cut[Len(t)], tooLarge')
  <2>1. left \in 1..(Head(t) - 1) /\ splitSegments' = Halved(t, left)
    BY <1>4, <1>9 DEF Halved
  <2>2. tooLarge \in SUBSET (Nat \X Nat) /\ t \in Seq(Nat) /\ t # <<>>
    BY <1>3, <1>4
  <2> HIDE DEF n, s
  <2>3. /\ splitSegments' \in Seq(Nat)
        /\ SubPlan(splitSegments', cut[0], cut[Len(t)], tooLarge \cup {WholeFirst(cut)})
    BY <1>7, <1>8, <2>1, <2>2, CutsInTwo
  <2> QED BY <1>10, <2>3
<1>12. Plan'
  BY <1>1, <1>7, <1>11 DEF SubPlan, Plan, IsPlan
<1>13. tooLarge' \subseteq Nat \X Nat
  BY <1>1, <1>2, <1>3
<1> QED BY <1>1, <1>11, <1>12, <1>13 DEF SplitInv, BatchOK

(* The steps that neither plan nor send. *)
LEMMA OtherStepsKeepPlan ==
    ASSUME QueueOK, [Next]_vars, ~Send, ~Start, ~Settle, ~Split
    PROVE  /\ UNCHANGED <<confirmed, splitSegments, tooLarge>> /\ written <= written'
           /\ pc' \in {"inflight", "settling"} =>
                 pc \in {"inflight", "settling"} /\ batchLength' = batchLength
           /\ Up' => Up
<1>0. written \in Nat /\ written <= written
  BY DEF QueueOK
<1>1. CASE GenerateTick
  <2>1. PICK k \in 1..MaxTick : written' = written + k
    BY <1>1 DEF GenerateTick
  <2>2. written <= written'
    BY <1>0, <2>1, DaemonAssumption
  <2> QED BY <1>1, <2>2 DEF GenerateTick, loop, Up
<1>2. CASE Kill
  <2>1. PICK k \in 0..MaxTick : written' = written + k
    BY <1>2 DEF Kill
  <2>2. written <= written'
    BY <1>0, <2>1, DaemonAssumption
  <2> QED BY <1>2, <2>2 DEF Kill, EndRequest, loop, history, Up
<1>3. CASE Wake \/ Halted \/ NothingToSend \/ NotReady \/ Throttled \/ Exit
  BY <1>0, <1>3 DEF Wake, Halted, NothingToSend, NotReady, Throttled, Exit, Sleep, outbox, loop,
                    history, Up
<1>4. CASE Network \/ Stop \/ ClockTick \/ UNCHANGED vars
  BY <1>0, <1>4 DEF Network, Answer, TurnAway, Disturb, ServeStray, Stop, ClockTick, outbox, loop,
                    history, vars, Up
<1>5. CASE Timeout \/ Resend \/ Halt
  BY <1>0, <1>5 DEF Timeout, Waiting, Acts, Resend, Halt, EndRequest, outbox, loop, history, Up
<1>6. CASE QuarantineRejected \/ QuarantineBatch \/ QuarantineOversized
  <2>1. pc = "inflight"
    BY <1>6 DEF QuarantineRejected, QuarantineBatch, QuarantineOversized, Acts
  <2> QED BY <1>0, <1>6, <2>1 DEF QuarantineRejected, QuarantineBatch, QuarantineOversized,
                                  Quarantine, loop, history, Up
<1> QED BY <1>1, <1>2, <1>3, <1>4, <1>5, <1>6 DEF Next, Loop, HandleReply, Settling, Process

LEMMA PlanSend ==
    ASSUME IInv, SplitInv, Send
    PROVE  SplitInv'
<1>1. PICK n \in 1..PendingCount : IsPeekedLength(n) /\ batchLength' = n
  BY DEF Send
<1>2. /\ pc = "top" /\ pc' = "inflight"
      /\ UNCHANGED <<written, confirmed, splitSegments, tooLarge>>
  BY DEF Send, outbox, loop, history
<1>3. QueueOK /\ Plan /\ splitSegments \in Seq(Nat) /\ n \in Nat /\ n > 0
      /\ written \in Nat /\ confirmed \in Nat
  BY <1>1, <1>2, QueueFacts DEF IInv, SplitInv, Up
<1>4. Plan'
  BY <1>2, <1>3, PlanStays
<1>5. splitSegments # <<>> => n = Head(splitSegments)
  BY <1>1, <1>3, FirstSegmentIsPeeked
<1>6. OneBody(confirmed, confirmed + n)
  BY <1>1 DEF IsPeekedLength, Fits, OneBody
<1> QED BY <1>1, <1>2, <1>3, <1>4, <1>5, <1>6 DEF SplitInv, BatchOK

LEMMA SplitNext == IInv /\ Requests /\ SplitInv /\ [Next]_vars => SplitInv'
<1> SUFFICES ASSUME IInv, Requests, SplitInv, [Next]_vars PROVE SplitInv'
  OBVIOUS
<1>1. CASE Send \/ Start \/ Settle \/ Split
  BY <1>1, PlanSend, PlanStart, PlanSettle, PlanSplit DEF IInv
<1>2. CASE ~Send /\ ~Start /\ ~Settle /\ ~Split
  <2>1. /\ UNCHANGED <<confirmed, splitSegments, tooLarge>> /\ written <= written'
        /\ pc' \in {"inflight", "settling"} =>
              pc \in {"inflight", "settling"} /\ batchLength' = batchLength
        /\ Up' => Up
    BY <1>2, OtherStepsKeepPlan DEF IInv
  <2>2. written' \in Nat /\ QueueOK
    BY NextIInv DEF IInv, QueueOK
  <2>3. Up' => Plan'
    BY <2>1, <2>2, PlanStays DEF SplitInv
  <2>4. Up' => BatchOK'
    BY <2>1 DEF SplitInv, BatchOK
  <2> QED BY <2>1, <2>3, <2>4 DEF SplitInv
<1> QED BY <1>1, <1>2

LEMMA PlanIsRespected == IInv /\ SplitInv => SplitIsRespected
<1> SUFFICES ASSUME IInv, SplitInv, Up PROVE
      /\ \A b \in tooLarge : pc = "inflight" /\ confirmed < b[2] =>
            /\ confirmed + batchLength <= b[2]
            /\ b # <<confirmed + 1, confirmed + batchLength>>
      /\ splitSegments # <<>> => IsPeekedLength(Head(splitSegments))
  BY DEF SplitIsRespected, Up
<1>1. QueueOK /\ Plan /\ BatchOK /\ splitSegments \in Seq(Nat)
  BY DEF IInv, SplitInv
<1>2. splitSegments # <<>> => IsPeekedLength(Head(splitSegments))
  BY <1>1, FirstSegmentIsPeeked
<1>3. ASSUME NEW b \in tooLarge, pc = "inflight", confirmed < b[2]
      PROVE  /\ confirmed + batchLength <= b[2]
             /\ b # <<confirmed + 1, confirmed + batchLength>>
  <2>1. PICK cut : IsPlan(cut)
    BY <1>1 DEF Plan
  <2>2. PICK i \in 1..Len(splitSegments) : cut[i] = b[2] /\ b[1] <= cut[i - 1]
    BY <1>3, <2>1 DEF IsPlan, EndsKept
  <2>3. /\ 0 \in 0..Len(splitSegments) /\ 1 \in 1..Len(splitSegments)
        /\ 1 \in 0..Len(splitSegments) /\ i \in 0..Len(splitSegments)
        /\ i - 1 \in 0..Len(splitSegments) /\ 0 <= i - 1 /\ 1 <= i /\ 1 - 1 = 0
        /\ splitSegments # <<>> /\ splitSegments[1] = Head(splitSegments)
    BY <1>1, <2>2
  <2>4. batchLength = splitSegments[1] /\ batchLength > 0
    BY <1>1, <1>3, <2>3 DEF BatchOK
  <2>5. cut[1] = confirmed + batchLength /\ cut[1] <= cut[i]
    BY <2>1, <2>3, <2>4 DEF IsPlan, Cuts
  <2>6. b # <<confirmed + 1, confirmed + batchLength>>
    <3> SUFFICES ASSUME b = <<confirmed + 1, confirmed + batchLength>> PROVE FALSE
      OBVIOUS
    <3>1. b[1] = confirmed + 1 /\ b[2] = cut[1]
      BY <2>5
    <3>2. i # 1
      BY <2>1, <2>2, <2>3, <3>1, <1>1 DEF IsPlan, QueueOK
    <3>3. /\ i - 1 \in 1..Len(splitSegments) /\ 1 <= i - 1
          /\ splitSegments[i] > 0 /\ splitSegments[i] \in Nat
          /\ cut[i] = cut[i - 1] + splitSegments[i]
          /\ cut[1] <= cut[i - 1] /\ cut[i - 1] \in Nat /\ cut[1] \in Nat
      <4>1. /\ i - 1 \in 1..Len(splitSegments) /\ 1 <= i - 1
            /\ splitSegments[i] \in Nat
        BY <1>1, <2>2, <3>2
      <4>2. /\ splitSegments[i] > 0 /\ cut[i] = cut[i - 1] + splitSegments[i]
            /\ cut[i - 1] \in Nat /\ cut[1] \in Nat
        BY <2>1, <2>2, <2>3 DEF IsPlan, Cuts
      <4>3. cut[1] <= cut[i - 1]
        BY <2>1, <2>3, <4>1 DEF IsPlan, Cuts
      <4> QED BY <4>1, <4>2, <4>3
    <3> QED BY <2>2, <3>1, <3>3
  <2> QED BY <2>2, <2>5, <2>6
<1> QED BY <1>2, <1>3

(* A batch that was too large is not sent again, nor its last event with a  *)
(* later one, and each segment of the plan is in its turn what peekBatch()  *)
(* takes: for every cap, limit and size of events (daemon.ts:444-470).      *)
THEOREM SplitsEnd == Spec => []SplitIsRespected
<1>1. Init => IInv /\ CauseInv /\ SplitInv
  BY InitIInv, InitCause, SplitInit
<1>2. IInv /\ CauseInv /\ SplitInv /\ [Next]_vars => (IInv /\ CauseInv /\ SplitInv)'
  BY NextIInv, RequestsNext, RepliesNext, StoredNext, DeservedNext, SplitNext DEF CauseInv, IInv
<1> QED BY <1>1, <1>2, PlanIsRespected, PTL DEF Spec
-----------------------------------------------------------------------------
(***************************************************************************)
(* The age of the batch window.  It is not above the time the oldest       *)
(* pending event has waited, unless that event is of the startup backlog.  *)
(***************************************************************************)
ClockTyped ==
    /\ windowAge \in NoWindow..Interval
    /\ waited \in [1..MaxEvents -> 0..Interval]

AgeOK ==
    Up /\ PendingCount > 0 /\ windowAge # NoWindow =>
        windowAge <= waited[confirmed + 1] \/ confirmed + 1 <= backlogEnd

AgeInv == ClockTyped /\ AgeOK

LEMMA AgeInit == Init => AgeInv
<1> SUFFICES ASSUME Init PROVE AgeInv
  OBVIOUS
<1>1. Interval \in Nat /\ MaxEvents \in Nat
  BY DaemonAssumption
<1>2. 0 \in 0..Interval /\ NoWindow \in NoWindow..Interval
  BY <1>1 DEF NoWindow
<1>3. waited = [e \in 1..MaxEvents |-> 0] /\ windowAge = NoWindow
  BY DEF Init
<1> QED BY <1>2, <1>3 DEF AgeInv, ClockTyped, AgeOK

LEMMA OlderType ==
    ASSUME NEW age \in 0..Interval
    PROVE  Older(age) \in 0..Interval
BY DaemonAssumption DEF Older

LEMMA OlderGrows ==
    ASSUME NEW a \in 0..Interval, NEW b \in 0..Interval, a <= b
    PROVE  Older(a) <= Older(b)
BY DaemonAssumption DEF Older

LEMMA AgeNext ==
    ASSUME IInv, Requests, DrainInv, AgeInv, [Next]_vars
    PROVE  AgeInv'
<1>0. /\ Interval \in Nat /\ MaxEvents \in Nat /\ NoWindow = -1
      /\ written \in Nat /\ confirmed \in Nat /\ written <= MaxEvents /\ confirmed <= written
      /\ batchLength \in Nat /\ confirmed + batchLength <= written
      /\ windowAge \in NoWindow..Interval
      /\ waited \in [1..MaxEvents -> 0..Interval]
  BY DaemonAssumption DEF NoWindow, IInv, QueueOK, Requests, AgeInv, ClockTyped
<1>1. Age \in 0..Interval
  BY <1>0 DEF Age
<1>2. CASE GenerateTick
  <2>1. PICK k \in 1..MaxTick : written' = written + k /\ written + k <= MaxEvents
    BY <1>2 DEF GenerateTick
  <2>2. k \in Nat /\ k > 0
    BY <2>1, DaemonAssumption
  <2>3. /\ windowAge' = IF PendingCount = 0 THEN 0 ELSE windowAge
        /\ UNCHANGED <<confirmed, waited, backlogEnd, pc>>
    BY <1>2 DEF GenerateTick
  <2>4. ClockTyped'
    BY <1>0, <2>3 DEF ClockTyped
  <2>5. CASE PendingCount = 0
    <3>1. confirmed + 1 \in 1..MaxEvents
      BY <1>0, <2>1, <2>2, <2>5 DEF PendingCount
    <3>2. 0 <= waited[confirmed + 1]
      BY <1>0, <3>1
    <3> QED BY <2>3, <2>4, <2>5, <3>2 DEF AgeInv, AgeOK
  <2>6. CASE PendingCount # 0
    <3>1. PendingCount > 0
      BY <1>0, <2>6 DEF PendingCount
    <3> QED BY <2>3, <2>4, <2>6, <3>1 DEF AgeInv, AgeOK, Up
  <2> QED BY <2>5, <2>6
<1>3. CASE Halted \/ NothingToSend \/ NotReady \/ Throttled \/ Send
  <2>1. /\ windowAge' \in {windowAge, NoWindow, Age}
        /\ UNCHANGED <<written, confirmed, waited, backlogEnd>> /\ Up
    BY <1>3 DEF Halted, NothingToSend, NotReady, Throttled, Send, Sleep, outbox, history, Up
  <2>2. ClockTyped'
    BY <1>0, <1>1, <2>1 DEF ClockTyped
  <2>3. ASSUME PendingCount' > 0, windowAge' # NoWindow
        PROVE  (windowAge <= waited[confirmed + 1] \/ confirmed + 1 <= backlogEnd)'
    <3>1. PendingCount > 0
      BY <2>1, <2>3 DEF PendingCount
    <3>2. CASE windowAge = NoWindow
      <4>1. windowAge' = 0
        BY <2>1, <2>3, <3>2 DEF Age
      <4>2. confirmed + 1 \in 1..MaxEvents
        BY <1>0, <3>1 DEF PendingCount
      <4>3. 0 <= waited[confirmed + 1]
        BY <1>0, <4>2
      <4> QED BY <2>1, <4>1, <4>3
    <3>3. CASE windowAge # NoWindow
      BY <2>1, <2>3, <3>1, <3>3 DEF Age, AgeInv, AgeOK
    <3> QED BY <3>2, <3>3
  <2> QED BY <2>2, <2>3 DEF AgeInv, AgeOK
<1>4. CASE Settle
  <2>1. /\ confirmed' = confirmed + batchLength /\ written' = written
        /\ windowAge' = WindowAfterProgress(PendingCount - batchLength, startupDrainRemaining')
        /\ waited' = [e \in 1..MaxEvents |-> IF e <= confirmed' THEN 0 ELSE waited[e]]
        /\ backlogEnd' = backlogEnd /\ pc' = "top"
    BY <1>4 DEF Settle, EndRequest, history
  <2>2. ClockTyped'
    <3>1. windowAge' \in {NoWindow, Interval, 0}
      BY <2>1 DEF WindowAfterProgress
    <3>2. \A e \in 1..MaxEvents : waited[e] \in 0..Interval /\ 0 \in 0..Interval
      BY <1>0
    <3>3. waited' \in [1..MaxEvents -> 0..Interval]
      BY <2>1, <3>2
    <3> QED BY <1>0, <3>1, <3>3 DEF ClockTyped
  <2>3. ASSUME PendingCount' > 0
        PROVE  windowAge' <= waited[confirmed + 1]' \/ confirmed' + 1 <= backlogEnd'
    <3>1. confirmed' + 1 \in 1..MaxEvents
      BY <1>0, <2>1, <2>3 DEF PendingCount
    <3>2. startupDrainRemaining' = Left(backlogEnd)'
      BY <2>1, DrainNext DEF DrainInv
    <3>3. CASE startupDrainRemaining' > 0
      <4>1. backlogEnd' > confirmed' /\ backlogEnd' \in Nat /\ confirmed' \in Nat
        BY <1>0, <2>1, <3>2, <3>3 DEF Left, DrainInv
      <4>2. \A m, n \in Nat : m > n => n + 1 <= m
        OBVIOUS
      <4>3. confirmed' + 1 <= backlogEnd'
        BY <4>1, <4>2
      <4> QED BY <4>3
    <3>4. CASE ~(startupDrainRemaining' > 0)
      <4>1. windowAge' = 0 \/ windowAge' = NoWindow
        BY <2>1, <3>4 DEF WindowAfterProgress
      <4>2. waited[confirmed + 1]' \in 0..Interval
        BY <2>2, <3>1 DEF ClockTyped
      <4>3. windowAge' = 0 => windowAge' <= waited[confirmed + 1]'
        BY <1>0, <4>2
      <4>4. windowAge' = NoWindow => windowAge' <= waited[confirmed + 1]'
        BY <1>0, <4>2
      <4> QED BY <4>1, <4>3, <4>4
    <3> QED BY <3>3, <3>4
  <2> QED BY <2>2, <2>3 DEF AgeInv, AgeOK
<1>5. CASE Start
  <2>1. /\ windowAge' \in {Interval, NoWindow} /\ backlogEnd' = written
        /\ UNCHANGED <<written, confirmed, waited>>
    BY <1>5 DEF Start, outbox
  <2>2. ClockTyped'
    BY <1>0, <2>1 DEF ClockTyped
  <2>3. PendingCount' > 0 => confirmed' + 1 <= backlogEnd'
    BY <1>0, <2>1 DEF PendingCount
  <2> QED BY <2>2, <2>3 DEF AgeInv, AgeOK
<1>6. CASE ClockTick
  <2>1. /\ windowAge' = IF windowAge = NoWindow THEN NoWindow ELSE Older(windowAge)
        /\ waited' = [e \in 1..MaxEvents |-> IF e \in Pending THEN Older(waited[e]) ELSE 0]
        /\ UNCHANGED <<written, confirmed, backlogEnd, pc>>
    BY <1>6 DEF ClockTick, outbox, history
  <2>2. windowAge # NoWindow => windowAge \in 0..Interval
    BY <1>0
  <2>3. \A e \in 1..MaxEvents : Older(waited[e]) \in 0..Interval /\ 0 \in 0..Interval
    BY <1>0, OlderType
  <2>4. ClockTyped'
    <3>1. waited' \in [1..MaxEvents -> 0..Interval]
      BY <2>1, <2>3
    <3>2. windowAge' \in NoWindow..Interval
      <4>1. CASE windowAge = NoWindow
        BY <1>0, <2>1, <4>1
      <4>2. CASE windowAge # NoWindow
        <5>1. windowAge' \in 0..Interval
          BY <2>1, <2>2, <4>2, OlderType
        <5> QED BY <1>0, <5>1
      <4> QED BY <4>1, <4>2
    <3> QED BY <3>1, <3>2 DEF ClockTyped
  <2>5. ASSUME Up', PendingCount' > 0, windowAge' # NoWindow
        PROVE  (windowAge <= waited[confirmed + 1] \/ confirmed + 1 <= backlogEnd)'
    <3>1. /\ windowAge # NoWindow /\ windowAge' = Older(windowAge)
          /\ PendingCount > 0 /\ confirmed + 1 \in Pending /\ confirmed + 1 \in 1..MaxEvents
      BY <1>0, <2>1, <2>5 DEF PendingCount, Pending
    <3>2. waited'[confirmed + 1] = Older(waited[confirmed + 1])
      BY <2>1, <3>1
    <3>3. CASE windowAge <= waited[confirmed + 1]
      <4>1. waited[confirmed + 1] \in 0..Interval
        BY <1>0, <3>1
      <4>2. Older(windowAge) <= Older(waited[confirmed + 1])
        BY <2>2, <3>1, <3>3, <4>1, OlderGrows
      <4> QED BY <2>1, <3>1, <3>2, <4>2
    <3>4. CASE ~(windowAge <= waited[confirmed + 1])
      BY <2>1, <2>5, <3>1, <3>4 DEF AgeInv, AgeOK, Up
    <3> QED BY <3>3, <3>4
  <2> QED BY <2>4, <2>5 DEF AgeInv, AgeOK
<1>7. CASE Kill \/ Exit
  <2>1. UNCHANGED <<windowAge, waited>> /\ ~Up'
    BY <1>7 DEF Kill, Exit, EndRequest, Up
  <2> QED BY <2>1 DEF AgeInv, ClockTyped, AgeOK
<1>8. ASSUME Wake \/ Network \/ Timeout \/ Resend \/ Halt \/ QuarantineRejected
             \/ QuarantineBatch \/ QuarantineOversized \/ Split \/ Stop \/ UNCHANGED vars
      PROVE  UNCHANGED <<windowAge, waited, written, confirmed, backlogEnd>> /\ (Up' => Up)
  <2>1. CASE Wake \/ Network \/ Stop \/ UNCHANGED vars
    BY <2>1 DEF Wake, Network, Answer, TurnAway, Disturb, ServeStray, Stop, outbox, history, vars,
                Up
  <2>2. CASE Timeout \/ Resend \/ Halt \/ Split
    BY <2>2 DEF Timeout, Waiting, Resend, Halt, Split, Acts, EndRequest, outbox, history, Up
  <2>3. CASE QuarantineRejected \/ QuarantineBatch \/ QuarantineOversized
    <3>1. pc = "inflight"
      BY <2>3 DEF QuarantineRejected, QuarantineBatch, QuarantineOversized, Acts
    <3> QED BY <2>3, <3>1 DEF QuarantineRejected, QuarantineBatch, QuarantineOversized,
                              Quarantine, history, Up
  <2> QED BY <1>8, <2>1, <2>2, <2>3
<1>9. CASE Wake \/ Network \/ Timeout \/ Resend \/ Halt \/ QuarantineRejected
           \/ QuarantineBatch \/ QuarantineOversized \/ Split \/ Stop \/ UNCHANGED vars
  BY <1>8, <1>9 DEF AgeInv, ClockTyped, AgeOK, PendingCount
<1> QED BY <1>2, <1>3, <1>4, <1>5, <1>6, <1>7, <1>9
        DEF Next, Loop, HandleReply, Settling, Process

LEMMA FirstSegmentIsPart ==
    ASSUME QueueOK, splitSegments \in Seq(Nat), splitSegments # <<>>, Plan,
           tooLarge \subseteq Nat \X Nat
    PROVE  \E b \in tooLarge : confirmed + 1 \in b[1]..b[2]
<1>1. PICK cut : IsPlan(cut)
  BY DEF Plan
<1>2. /\ 1 \in 1..Len(splitSegments) /\ 1 - 1 = 0 /\ 1 \in 0..Len(splitSegments)
      /\ splitSegments[1] \in Nat
  OBVIOUS
<1>3. cut[0] = confirmed /\ splitSegments[1] > 0 /\ cut[1] = cut[0] + splitSegments[1]
  BY <1>1, <1>2 DEF IsPlan, Cuts
<1>4. PICK b \in tooLarge : b[1] <= cut[0] + 1 /\ cut[1] <= b[2]
  BY <1>1, <1>2 DEF IsPlan, PartsFrom
<1>5. b[1] \in Nat /\ b[2] \in Nat /\ confirmed \in Nat
  BY DEF QueueOK
<1> QED BY <1>2, <1>3, <1>4, <1>5

LEMMA SentIsAged ==
    ASSUME IInv, Requests, DrainInv, SplitInv, AgeInv, [Next]_vars, pc = "top", pc' = "inflight"
    PROVE  BatchIsDue
<1>1. Send
  BY DEF Next, GenerateTick, AtAwait, Wake, Loop, Halted, NothingToSend, NotReady, Throttled, Send,
     Exit, Sleep, Network, Answer, TurnAway, Disturb, Waiting, ServeStray, Timeout, HandleReply,
     Acts, Resend, Halt, Settling, QuarantineRejected, QuarantineBatch, QuarantineOversized,
     Quarantine, Split, Settle, Process, EndRequest, Stop, Kill, Start, ClockTick, vars
<1>2. PICK n \in 1..PendingCount : IsBatchReady(n, Age) /\ batchLength' = n
  BY <1>1 DEF Send
<1>3. /\ QueueOK /\ Plan /\ splitSegments \in Seq(Nat) /\ tooLarge \subseteq Nat \X Nat /\ Up
      /\ written \in Nat /\ confirmed \in Nat /\ PendingCount = written - confirmed
      /\ PendingCount \in Nat /\ PendingCount > 0 /\ written <= MaxEvents
  BY <1>2, QueueFacts DEF IInv, SplitInv, Up, PendingCount, Requests
<1>4. CASE PendingCount > n
  BY <1>2, <1>3, <1>4 DEF BatchIsDue
<1>5. CASE n >= CurrentBatchCap
  <2>1. CASE splitSegments = <<>>
    BY <1>2, <1>5, <2>1 DEF CurrentBatchCap, BatchIsDue
  <2>2. CASE splitSegments # <<>>
    BY <1>3, <2>2, FirstSegmentIsPart DEF BatchIsDue
  <2> QED BY <2>1, <2>2
<1>6. CASE Age >= Interval
  <2>1. /\ confirmed + 1 \in 1..MaxEvents /\ Interval \in Nat /\ windowAge \in NoWindow..Interval
        /\ waited[confirmed + 1] \in 0..Interval
    <3>1. confirmed + 1 \in 1..MaxEvents
      BY <1>3, DaemonAssumption
    <3> QED BY <3>1, DaemonAssumption DEF AgeInv, ClockTyped
  <2>2. CASE windowAge = NoWindow
    BY <1>6, <2>1, <2>2 DEF Age, BatchIsDue
  <2>3. CASE windowAge # NoWindow
    <3>1. windowAge >= Interval
      BY <1>6, <2>3 DEF Age
    <3>2. windowAge <= waited[confirmed + 1] \/ confirmed + 1 <= backlogEnd
      BY <1>3, <2>3 DEF AgeInv, AgeOK
    <3>3. windowAge \in Int
      BY <2>1 DEF NoWindow
    <3> QED BY <2>1, <3>1, <3>2, <3>3 DEF BatchIsDue
  <2> QED BY <2>2, <2>3
<1> QED BY <1>2, <1>4, <1>5, <1>6 DEF IsBatchReady

(* No event is posted in a batch below both limits before its time, unless  *)
(* it is left over from an earlier process or from a batch that was too     *)
(* large: whatever was generated, confirmed and timed in between.           *)
THEOREM PartialBatchesWait == Spec => PartialBatchesAreAged
<1> DEFINE Inv == IInv /\ CauseInv /\ DrainInv /\ SplitInv /\ AgeInv
<1>1. Init => Inv
  BY InitIInv, InitCause, DrainInit, SplitInit, AgeInit
<1>2. Inv /\ [Next]_vars => Inv'
  BY NextIInv, RequestsNext, RepliesNext, StoredNext, DeservedNext, DrainNext, SplitNext, AgeNext
     DEF CauseInv, IInv
<1>3. Inv /\ [Next]_vars => [pc = "top" /\ pc' = "inflight" => BatchIsDue]_vars
  BY SentIsAged DEF CauseInv
<1> QED BY <1>1, <1>2, <1>3, PTL DEF Spec, PartialBatchesAreAged
-----------------------------------------------------------------------------
(***************************************************************************)
(* Types.  What TypeOK says beyond the invariants above.                   *)
(***************************************************************************)
StatesTyped ==
    /\ pc \in {"down", "stopped", "top", "asleep", "inflight", "settling"}
    /\ batchLength > 0 <=> pc \in {"inflight", "settling"}
    /\ authHalted \in BOOLEAN /\ shuttingDown \in BOOLEAN
    /\ reply.status \in {"none", "200", "400", "401", "413", "429", "5xx"}

JournalTyped ==
    /\ PendingCount <= PendingLimit - 1 + MaxTick
    /\ failed \subseteq (1..MaxEvents) \X Reasons
    /\ stored \subseteq 1..MaxEvents
    /\ splitSegments \in Segments

TypeInv == StatesTyped /\ JournalTyped

LEMMA ReplyStatuses ==
    ASSUME NEW refused, NEW status
    PROVE  /\ NoReply.status = "none" /\ Reply(status).status = status
           /\ Accepted(refused).status = "200"
BY DEF NoReply, Reply, Accepted

LEMMA TypeInit == Init => TypeInv
<1> SUFFICES ASSUME Init PROVE TypeInv
  OBVIOUS
<1>1. StatesTyped
  <2>1. reply.status = "none" /\ pc = "stopped" /\ batchLength = 0
    BY ReplyStatuses DEF Init
  <2>2. authHalted \in BOOLEAN /\ shuttingDown \in BOOLEAN
    BY Zenon DEF Init
  <2> QED BY <2>1, <2>2 DEF StatesTyped
<1>2. PendingCount = 0 /\ 0 <= PendingLimit - 1 + MaxTick
  BY DaemonAssumption DEF Init, PendingCount
<1>3. JournalTyped
  BY <1>2 DEF Init, JournalTyped, Segments
<1> QED BY <1>1, <1>3 DEF TypeInv

LEMMA StatesNext ==
    ASSUME QueueOK, StatesTyped, [Next]_vars
    PROVE  StatesTyped'
<1>1. CASE GenerateTick \/ Stop \/ ClockTick \/ ServeStray \/ UNCHANGED vars
  BY <1>1 DEF GenerateTick, Stop, ClockTick, ServeStray, loop, vars, StatesTyped
<1>2. CASE Wake \/ Halted \/ NothingToSend \/ NotReady \/ Throttled \/ Exit \/ Start
  BY <1>2 DEF Wake, Halted, NothingToSend, NotReady, Throttled, Exit, Start, Sleep, loop,
              StatesTyped
<1>3. CASE Send
  <2>1. batchLength' \in Nat /\ batchLength' > 0
    BY <1>3, QueueFacts DEF Send
  <2> QED BY <1>3, <2>1 DEF Send, loop, StatesTyped
<1>4. CASE Answer
  <2>1. /\ UNCHANGED <<pc, batchLength, authHalted, shuttingDown>>
        /\ reply' \in {Reply("413"), Reply("5xx"), Accepted(Batch \cap Rejected)}
    BY <1>4 DEF Answer, loop
  <2>2. reply'.status \in {"413", "5xx", "200"}
    BY <2>1, ReplyStatuses
  <2> QED BY <2>1, <2>2 DEF StatesTyped
<1>5. CASE TurnAway \/ Disturb
  <2>1. /\ UNCHANGED <<pc, batchLength, authHalted, shuttingDown>>
        /\ \E status \in {"401", "400", "429", "5xx", "200"} : reply' = Reply(status)
    BY <1>5 DEF TurnAway, Disturb, loop
  <2>2. reply'.status \in {"401", "400", "429", "5xx", "200"}
    BY <2>1, ReplyStatuses
  <2> QED BY <2>1, <2>2 DEF StatesTyped
<1>6. CASE Timeout \/ Resend \/ Halt \/ Split \/ Settle \/ Kill
  <2>1. /\ pc' \in {"asleep", "top", "down"} /\ batchLength' = 0 /\ reply' = NoReply
    BY <1>6 DEF Timeout, Resend, Halt, Split, Settle, Kill, EndRequest
  <2>2. (authHalted' = authHalted \/ authHalted' = TRUE) /\ shuttingDown' = shuttingDown
    BY <1>6 DEF Timeout, Resend, Halt, Split, Settle, Kill, loop
  <2>3. authHalted' \in BOOLEAN /\ shuttingDown' \in BOOLEAN
    BY <2>2, Zenon DEF StatesTyped
  <2>4. reply'.status = "none"
    BY <2>1, ReplyStatuses
  <2> QED BY <2>1, <2>3, <2>4 DEF StatesTyped
<1>7. CASE QuarantineRejected \/ QuarantineBatch \/ QuarantineOversized
  <2>1. pc = "inflight" /\ pc' = "settling"
        /\ UNCHANGED <<batchLength, reply, authHalted, shuttingDown>>
    BY <1>7 DEF QuarantineRejected, QuarantineBatch, QuarantineOversized, Quarantine, Acts, loop
  <2> QED BY <2>1 DEF StatesTyped
<1> QED BY <1>1, <1>2, <1>3, <1>4, <1>5, <1>6, <1>7
        DEF Next, Loop, Network, HandleReply, Settling, Process

(* The segments stay in their range: they only get shorter. *)
LEMMA SegmentsNext ==
    ASSUME IInv, Requests, SplitInv, StatesTyped, splitSegments \in Segments, [Next]_vars
    PROVE  splitSegments' \in Segments
<1> DEFINE s == splitSegments
<1>0. /\ s \in Seq(Nat) /\ s \in Seq(1..MaxEvents) /\ QueueOK /\ MaxEvents \in Nat
      /\ batchLength \in Nat /\ batchLength <= MaxEvents
  BY DaemonAssumption DEF IInv, QueueOK, Requests, SplitInv, Segments
<1>1. CASE Split
  <2>1. /\ batchLength > 1 /\ Up /\ pc \in {"inflight", "settling"}
        /\ s' = SplitCurrentBatch(s, batchLength)
    BY <1>1 DEF Split, Acts, Up
  <2>2. s = <<>> \/ batchLength = Head(s)
    BY <2>1 DEF SplitInv, BatchOK
  <2>3. PICK left \in 1..(batchLength - 1) :
          SplitCurrentBatch(s, batchLength) =
              <<left, batchLength - left>> \o (IF s = <<>> THEN <<>> ELSE Tail(s))
    <3> HIDE DEF s
    <3> QED BY <1>0, <2>1, <2>2, SplitIsInTwo
  <2>4. <<left, batchLength - left>> \in Seq(1..MaxEvents)
    <3>1. left \in 1..MaxEvents /\ batchLength - left \in 1..MaxEvents
      BY <1>0, <2>1
    <3> QED BY <3>1
  <2>5. (IF s = <<>> THEN <<>> ELSE Tail(s)) \in Seq(1..MaxEvents)
    <3>1. \A x \in Seq(1..MaxEvents) : x # <<>> => Tail(x) \in Seq(1..MaxEvents)
      OBVIOUS
    <3> QED BY <1>0, <3>1
  <2>6. <<left, batchLength - left>> \o (IF s = <<>> THEN <<>> ELSE Tail(s)) \in Seq(1..MaxEvents)
    BY <2>4, <2>5, ConcatProperties
  <2> QED BY <2>1, <2>3, <2>6 DEF Segments
<1>2. CASE Settle
  <2>1. /\ Up /\ pc \in {"inflight", "settling"}
        /\ s' = AdvanceSplitSegments(s, batchLength)
    BY <1>2 DEF Settle, Up
  <2>2. CASE s = <<>>
    BY <1>0, <2>1, <2>2, AdvanceWithoutPlan DEF Segments
  <2>3. CASE s # <<>>
    <3>1. batchLength = Head(s) /\ \A i \in 1..Len(s) : s[i] > 0
      BY <1>0, <2>1, <2>3 DEF SplitInv, BatchOK
    <3>2. s' = Tail(s)
      BY <1>0, <2>1, <2>3, <3>1, AdvanceByFirst
    <3> QED BY <1>0, <2>3, <3>2 DEF Segments
  <2> QED BY <2>2, <2>3
<1>3. CASE Start
  BY <1>3 DEF Start, Segments
<1>4. CASE Send
  BY <1>4 DEF Send, loop
<1>5. CASE ~Send /\ ~Start /\ ~Settle /\ ~Split
  BY <1>0, <1>5, OtherStepsKeepPlan
<1> QED BY <1>1, <1>2, <1>3, <1>4, <1>5

LEMMA PendingBound ==
    ASSUME IInv, PendingCount <= PendingLimit - 1 + MaxTick, [Next]_vars
    PROVE  (PendingCount <= PendingLimit - 1 + MaxTick)'
<1>0. /\ QueueOK /\ PendingLimit \in Nat /\ MaxTick \in Nat
      /\ written \in Nat /\ confirmed \in Nat /\ PendingCount = written - confirmed
      /\ PendingCount \in Nat
  BY DaemonAssumption, QueueFacts DEF IInv, QueueOK, PendingCount
<1>1. CASE GenerateTick
  <2>1. PICK k \in 1..MaxTick : written' = written + k
    BY <1>1 DEF GenerateTick
  <2>2. PendingCount < PendingLimit /\ confirmed' = confirmed
    BY <1>1 DEF GenerateTick
  <2> QED BY <1>0, <2>1, <2>2 DEF PendingCount
<1>2. CASE Kill
  <2>1. PICK k \in 0..MaxTick : written' = written + k /\ (k > 0 => PendingCount < PendingLimit)
    BY <1>2 DEF Kill
  <2>2. confirmed' = confirmed
    BY <1>2 DEF Kill
  <2>3. k = 0 \/ k > 0
    BY <1>0, <2>1
  <2> QED BY <1>0, <2>1, <2>2, <2>3 DEF PendingCount
<1>3. CASE Settle
  <2>1. written' = written /\ confirmed' = confirmed + batchLength /\ batchLength \in Nat
    BY <1>0, <1>3 DEF Settle, QueueOK
  <2> QED BY <1>0, <2>1 DEF PendingCount
<1>4. CASE ~GenerateTick /\ ~Kill /\ ~Settle
  <2>1. UNCHANGED <<written, confirmed>>
    BY <1>4 DEF Next, Wake, Loop, Halted, NothingToSend, NotReady, Throttled, Send, Exit, Sleep,
       Network, Answer, TurnAway, Disturb, ServeStray, Timeout, HandleReply, Resend, Halt,
       Settling, QuarantineRejected, QuarantineBatch, QuarantineOversized, Quarantine, Split,
       Process, Stop, Start, ClockTick, outbox, vars
  <2> QED BY <2>1 DEF PendingCount
<1> QED BY <1>1, <1>2, <1>3, <1>4

LEMMA FailedNext ==
    ASSUME Requests, Replies, failed \subseteq (1..MaxEvents) \X Reasons, [Next]_vars
    PROVE  failed' \subseteq (1..MaxEvents) \X Reasons
<1>1. CASE QuarantineRejected
  <2>1. failed' = failed \cup (reply.rejected \X {"rejected"}) /\ reply.rejected \subseteq Rejected
    BY <1>1, ConfirmIsValid DEF QuarantineRejected, Quarantine, Replies
  <2> QED BY <2>1, DaemonAssumption DEF Reasons
<1>2. CASE QuarantineBatch \/ QuarantineOversized
  <2>1. failed' = failed \cup (Batch \X {"batch_malformed_400"})
        \/ failed' = failed \cup (Batch \X {"oversized_413"})
    BY <1>2 DEF QuarantineBatch, QuarantineOversized, Quarantine
  <2> QED BY <2>1 DEF Requests, Reasons
<1>3. CASE ~(QuarantineRejected \/ QuarantineBatch \/ QuarantineOversized)
  <2>1. failed' = failed
    BY <1>3 DEF Next, GenerateTick, Wake, Loop, Halted, NothingToSend, NotReady, Throttled, Send,
       Exit, Sleep, Network, Answer, TurnAway, Disturb, ServeStray, Timeout, HandleReply, Resend,
       Halt, Settling, Split, Settle, Process, Stop, Kill, Start, ClockTick, outbox, vars
  <2> QED BY <2>1
<1> QED BY <1>1, <1>2, <1>3

LEMMA StoredInRange ==
    ASSUME Requests, stored \subseteq 1..MaxEvents, [Next]_vars
    PROVE  stored' \subseteq 1..MaxEvents
<1>1. CASE Answer
  <2>1. stored' = stored \cup Served(Batch)
    BY <1>1 DEF Answer
  <2> QED BY <2>1 DEF Served, Requests
<1>2. CASE ServeStray
  <2>1. PICK events \in strays : stored' = stored \cup Served(events)
    BY <1>2 DEF ServeStray
  <2>2. events \subseteq 1..MaxEvents
    BY DEF Requests
  <2> QED BY <2>1, <2>2 DEF Served
<1>3. CASE ~Answer /\ ~ServeStray
  <2>1. stored' = stored
    BY <1>3 DEF Next, GenerateTick, Wake, Loop, Halted, NothingToSend, NotReady, Throttled, Send,
       Exit, Sleep, Network, TurnAway, Disturb, Timeout, HandleReply, Resend, Halt, Settling,
       QuarantineRejected, QuarantineBatch, QuarantineOversized, Quarantine, Split, Settle,
       Process, Stop, Kill, Start, ClockTick, vars
  <2> QED BY <2>1
<1> QED BY <1>1, <1>2, <1>3

LEMMA TypeNext ==
    ASSUME IInv, Requests, Replies, SplitInv, TypeInv, [Next]_vars
    PROVE  TypeInv'
<1>1. QueueOK /\ StatesTyped /\ JournalTyped
  BY DEF IInv, TypeInv
<1>2. StatesTyped'
  BY <1>1, StatesNext
<1>3. JournalTyped'
  BY <1>1, SegmentsNext, PendingBound, FailedNext, StoredInRange DEF JournalTyped
<1> QED BY <1>2, <1>3 DEF TypeInv

(* The daemon's variables keep their types, its outbox the bound that       *)
(* backpressure puts on it.                                                 *)
THEOREM SenderTyped == Spec => []TypeOK
<1> DEFINE Inv == IInv /\ CauseInv /\ DrainInv /\ SplitInv /\ AgeInv /\ TypeInv
<1>1. Init => Inv
  BY InitIInv, InitCause, DrainInit, SplitInit, AgeInit, TypeInit
<1>2. Inv /\ [Next]_vars => Inv'
  BY NextIInv, RequestsNext, RepliesNext, StoredNext, DeservedNext, DrainNext, SplitNext, AgeNext,
     TypeNext DEF CauseInv, IInv
<1>3. Inv => TypeOK
  <2> SUFFICES ASSUME Inv PROVE TypeOK
    OBVIOUS
  <2>1. /\ written \in 0..MaxEvents /\ PendingCount \in 0..(PendingLimit - 1 + MaxTick)
        /\ batchLength \in 0..PendingCount
    BY QueueFacts, DaemonAssumption
       DEF IInv, QueueOK, CauseInv, Requests, TypeInv, JournalTyped, PendingCount
  <2>2. strays \subseteq SUBSET (1..MaxEvents) /\ recorded \subseteq 1..written
    BY DEF IInv, QueueOK, CauseInv, Requests
  <2> QED BY <2>1, <2>2 DEF TypeOK, TypeInv, StatesTyped, JournalTyped, AgeInv, ClockTyped
<1> HIDE DEF Inv
<1> QED BY <1>1, <1>2, <1>3, PTL DEF Spec
=============================================================================
