---------------------------- MODULE OutboxQueue ----------------------------
(***************************************************************************)
(* What the outbox promises its caller, without files: a queue of events.  *)
(* Only a write, a confirm or a power loss changes what a restart would    *)
(* find in it.  A killed process, a recovery and a compaction do not: they *)
(* are stuttering steps of this specification.                             *)
(***************************************************************************)
EXTENDS Integers, Sequences

VARIABLES
    queue,      \* the events a restart would have pending, oldest first
    generated,  \* events 1..generated were handed to the outbox
    recorded,   \* those the outbox has promised to keep
    settled,    \* those the caller has dealt with
    powerLosses

vars == <<queue, generated, recorded, settled, powerLosses>>

InQueue(q) == {q[i] : i \in 1..Len(q)}

Init ==
    /\ queue = <<>>
    /\ generated = 0
    /\ recorded = {}
    /\ settled = {}
    /\ powerLosses = 0

(* n events are handed over, the first k reach the queue and may be         *)
(* promised at once.                                                        *)
Offer ==
    \E n \in 1..(generated' - generated) : \E k \in 0..n :
        /\ generated' = generated + n
        /\ queue' = queue \o [i \in 1..k |-> generated + i]
        /\ recorded \subseteq recorded'
        /\ recorded' \subseteq recorded \cup InQueue(queue')
        /\ UNCHANGED <<settled, powerLosses>>

(* The outbox promises to keep events of the queue. *)
Record ==
    /\ recorded \subseteq recorded'
    /\ recorded' \subseteq recorded \cup InQueue(queue)
    /\ UNCHANGED <<queue, generated, settled, powerLosses>>

(* The caller is done with the oldest n events. *)
Settle ==
    \E n \in 1..Len(queue) :
        /\ queue' = SubSeq(queue, n + 1, Len(queue))
        /\ settled' = settled \cup InQueue(SubSeq(queue, 1, n))
        /\ UNCHANGED <<generated, recorded, powerLosses>>

(* Events never promised may be lost, settled ones may come back; the order *)
(* of generation and every promise are kept.                                *)
PowerLoss ==
    /\ powerLosses' = powerLosses + 1
    /\ \A i \in 1..Len(queue') : queue'[i] \in 1..generated
    /\ \A i, j \in 1..Len(queue') : i < j => queue'[i] < queue'[j]
    /\ recorded \ settled \subseteq InQueue(queue')
    /\ UNCHANGED <<generated, recorded, settled>>

Next == Offer \/ Record \/ Settle \/ PowerLoss

Spec == Init /\ [][Next]_vars
=============================================================================
