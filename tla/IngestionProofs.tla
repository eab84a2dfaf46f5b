--------------------------- MODULE IngestionProofs ---------------------------
(***************************************************************************)
(* For any clients, bodies, interleavings, failures and deaths of the      *)
(* receiver: the concurrent transactions of Ingestion implement EventStore.*)
(*                                                                         *)
(* The argument is two-phase locking by unique keys.  The keys of the rows *)
(* an open transaction has inserted are its own: no other open transaction *)
(* and no committed row has them, as a row with a held key waits and a row *)
(* with a committed key is skipped.  So a commit adds its rows and their   *)
(* purchases to tables that have none of their keys, all in one step.      *)
(***************************************************************************)
EXTENDS Ingestion, FiniteSetTheorems, SequenceTheorems, WellFoundedInduction, TLAPS

Ended == {"committed", "done"}

Types ==
    /\ TypeOK
    /\ DOMAIN row = Request /\ DOMAIN answer = Request
    /\ \A r \in Request : IsFiniteSet(inserted[r]) /\ (phase[r] = "idle" => row[r] = 0)

(* The committed tables have unique keys and no purchase without an order.  *)
TablesInv ==
    /\ PurchasesDerived
    /\ \A e \in purchases : OrderOf[e] # NoOrder

(* The keys of an open transaction are unique and not yet committed. *)
FreshKeys(r) ==
    /\ \A e, f \in inserted[r] : IdOf[e] = IdOf[f] => e = f
    /\ \A e \in inserted[r], f \in gameEvents : IdOf[e] # IdOf[f]
    /\ \A e \in paid[r] : OrderOf[e] # NoOrder
    /\ \A e, f \in paid[r] : OrderOf[e] = OrderOf[f] => e = f
    /\ \A e \in paid[r], f \in purchases : OrderOf[e] # OrderOf[f]

(* Two open transactions hold no key together. *)
OwnKeys(r, s) ==
    /\ \A e \in inserted[r], f \in inserted[s] : IdOf[e] # IdOf[f]
    /\ \A e \in paid[r], f \in paid[s] : OrderOf[e] # OrderOf[f]

(* What is inserted are rows of the batch already passed, ... *)
InsertedOf(r) ==
    /\ \A e \in inserted[r] : \E i \in UniqueRows(batch[r]) :
          e = batch[r][i] /\ (phase[r] = "events" => i <= row[r])
    /\ \A e \in paid[r] : \E i \in CandidateRows(r) :
          e = batch[r][i] /\ (phase[r] = "purchases" => i <= row[r])

(* ... and no row passed is without its event or its purchase. *)
EventsOf(r) ==
    \A i \in UniqueRows(batch[r]) :
        phase[r] # "events" \/ i <= row[r] =>
            \E e \in gameEvents \cup inserted[r] : IdOf[e] = IdOf[batch[r][i]]
OrdersOf(r) ==
    \A i \in CandidateRows(r) :
        phase[r] = "commit" \/ (phase[r] = "purchases" /\ i <= row[r]) =>
            \E e \in purchases \cup paid[r] : OrderOf[e] = OrderOf[batch[r][i]]

OpenInv(r) == FreshKeys(r) /\ InsertedOf(r) /\ EventsOf(r) /\ OrdersOf(r)

(* Nothing is inserted before the transaction and nothing left of a failed  *)
(* one; what a committed one inserted is in the tables.                     *)
ClosedInv(r) ==
    /\ phase[r] \in {"idle", "connect", "failed"} => inserted[r] = {} /\ paid[r] = {}
    /\ phase[r] = "events" => paid[r] = {}
    /\ phase[r] \in Ended => inserted[r] \subseteq gameEvents /\ EventsOf(r)

AnswerInv(r) ==
    answer[r].status = "ok" =>
        phase[r] = "done" /\ answer[r].rejected = RejectedRows(batch[r])

IngestionInv ==
    /\ Types
    /\ TablesInv
    /\ \A r \in Request : ClosedInv(r) /\ AnswerInv(r)
    /\ \A r \in Request : phase[r] \in OpenPhases => OpenInv(r)
    /\ \A r, s \in Request :
          r # s /\ phase[r] \in OpenPhases /\ phase[s] \in OpenPhases => OwnKeys(r, s)
    /\ EachRowCountedOnce
-----------------------------------------------------------------------------
LEMMA LeastNatural ==
    ASSUME NEW S \in SUBSET Nat, S # {}
    PROVE  \E m \in S : \A n \in S : m <= n
<1> DEFINE R == OpToRel(<, Nat)
<1>1. IsWellFoundedOn(R, Nat)
  BY NatLessThanWellFounded
<1>2. \A x, y \in Nat : y < x => <<y, x>> \in R
  BY DEF OpToRel
<1> HIDE DEF R
<1>3. PICK x \in S : \A y \in S : ~ (<<y, x>> \in R)
  BY <1>1, WFMin
<1>4. \A y \in S : y \in Nat /\ x \in Nat /\ ~ (y < x)
  BY <1>2, <1>3
<1>5. \A y \in S : x <= y
  BY <1>4
<1> QED BY <1>5

(* The unique rows of a batch have different ids, and every accepted event  *)
(* has its id among them.                                                   *)
LEMMA UniqueIds ==
    ASSUME NEW b \in Seq(Item)
    PROVE  /\ UniqueRows(b) \subseteq DOMAIN b
           /\ DOMAIN b \subseteq Nat
           /\ \A i \in DOMAIN b : b[i] \in Item
           /\ \A i, j \in UniqueRows(b) : IdOf[b[i]] = IdOf[b[j]] => i = j
BY DEF UniqueRows, AcceptedRows

LEMMA UniqueCover ==
    ASSUME NEW b \in Seq(Item), NEW i \in AcceptedRows(b)
    PROVE  \E j \in UniqueRows(b) : IdOf[b[j]] = IdOf[b[i]]
<1> DEFINE S == {j \in AcceptedRows(b) : IdOf[b[j]] = IdOf[b[i]]}
<1>1. S \in SUBSET Nat /\ S # {}
  BY DEF AcceptedRows
<1>2. PICK m \in S : \A n \in S : m <= n
  BY <1>1, LeastNatural
<1>3. m \in UniqueRows(b)
  BY <1>1, <1>2 DEF UniqueRows
<1> QED BY <1>2, <1>3

LEMMA BatchTypes ==
    ASSUME Types, NEW r \in Request
    PROVE  batch[r] \in Seq(Item)
<1>1. <<>> \in Seq(Item)
  OBVIOUS
<1>2. batch[r] \in Batches \cup {<<>>}
  BY DEF Types, TypeOK
<1> QED BY <1>1, <1>2, IngestionAssumption

LEMMA InitInv == Init => IngestionInv
<1> SUFFICES ASSUME Init PROVE IngestionInv
  OBVIOUS
<1>1. Types
  BY IngestionAssumption, FS_EmptySet DEF Init, Types, TypeOK, Answer, NoCounts, AnswerStatus, Unfinished
<1>2. TablesInv
  BY DEF Init, TablesInv, PurchasesDerived, Orders
<1>3. ASSUME NEW r \in Request
      PROVE  ClosedInv(r) /\ AnswerInv(r) /\ phase[r] \notin OpenPhases
  BY DEF Init, ClosedInv, AnswerInv, Answer, NoCounts, OpenPhases, Ended
<1>4. EachRowCountedOnce
  BY DEF Init, EachRowCountedOnce
<1> QED BY <1>1, <1>2, <1>3, <1>4 DEF IngestionInv

(* A step of one request that leaves the tables alone. *)
Counted(r) == IF phase[r] \in Ended THEN inserted[r] ELSE {}

LEMMA OneRequest ==
    ASSUME IngestionInv, NEW r \in Request, Types',
           UNCHANGED tables,
           \A s \in Request \ {r} :
              /\ phase'[s] = phase[s] /\ batch'[s] = batch[s] /\ row'[s] = row[s]
              /\ inserted'[s] = inserted[s] /\ paid'[s] = paid[s] /\ answer'[s] = answer[s],
           ClosedInv(r)', AnswerInv(r)', (phase[r] \in OpenPhases => OpenInv(r))',
           \A s \in Request \ {r} :
              phase'[r] \in OpenPhases /\ phase[s] \in OpenPhases => OwnKeys(r, s)',
           Counted(r)' = Counted(r)
    PROVE  IngestionInv'
<1>1. TablesInv'
  BY DEF IngestionInv, TablesInv, PurchasesDerived, Orders, tables
<1>2. ASSUME NEW s \in Request \ {r}
      PROVE  /\ ClosedInv(s)' /\ AnswerInv(s)'
             /\ phase'[s] \in OpenPhases => OpenInv(s)'
             /\ Counted(s)' = Counted(s)
  <2>1. CandidateRows(s)' = CandidateRows(s)
    BY DEF CandidateRows, Ids
  <2>2. ClosedInv(s)' /\ AnswerInv(s)'
    BY DEF IngestionInv, ClosedInv, AnswerInv, EventsOf, tables
  <2>3. phase'[s] \in OpenPhases => OpenInv(s)'
    BY <2>1 DEF IngestionInv, OpenInv, FreshKeys, InsertedOf, EventsOf, OrdersOf, tables
  <2> QED BY <2>2, <2>3 DEF Counted
<1>3. ASSUME NEW s \in Request, NEW t \in Request, s # t,
             phase'[s] \in OpenPhases, phase'[t] \in OpenPhases
      PROVE  OwnKeys(s, t)'
  BY <1>3 DEF IngestionInv, OwnKeys
<1>4. EachRowCountedOnce'
  <2>1. \A s \in Request : Counted(s)' = Counted(s)
    BY <1>2
  <2>2. /\ gameEvents = UNION {Counted(s) : s \in Request}
        /\ \A s, t \in Request : s # t => Counted(s) \cap Counted(t) = {}
    BY DEF IngestionInv, EachRowCountedOnce, Counted, Ended
  <2> QED BY <2>1, <2>2 DEF EachRowCountedOnce, Counted, Ended, tables
<1> QED BY <1>1, <1>2, <1>3, <1>4 DEF IngestionInv
-----------------------------------------------------------------------------
LEMMA TypesNext ==
    ASSUME Types, [Next]_vars
    PROVE  Types'
<1> USE IngestionAssumption
    DEF Types, TypeOK, tables, Unfinished, OpenPhases, AnswerStatus, Tell, Answer, NoCounts
<1>1. ASSUME NEW r \in Request, Receive(r) PROVE Types'
  <2>1. PICK b \in Batches : batch' = [batch EXCEPT ![r] = b]
    BY <1>1 DEF Receive
  <2>2. \A s \in Request : row'[s] \in 0..Len(batch'[s])
    <3>1. b \in Seq(Item) /\ Len(b) \in Nat /\ row' = row /\ row[r] = 0
      BY <1>1, LenProperties DEF Receive
    <3> QED BY <2>1, <3>1
  <2>3. batch' \in [Request -> Batches \cup {<<>>}]
    BY <2>1
  <2>4. /\ phase' \in [Request -> {"idle", "done", "failed"} \cup Unfinished]
        /\ phase'[r] # "idle" /\ \A s \in Request : s # r => phase'[s] = phase[s]
    <3>1. phase' = [phase EXCEPT ![r] = "done"] \/ phase' = [phase EXCEPT ![r] = "connect"]
      BY <1>1 DEF Receive
    <3> QED BY <3>1
  <2>5. DOMAIN answer' = Request /\ \A s \in Request : answer'[s].status \in AnswerStatus
    BY <1>1 DEF Receive
  <2>6. UNCHANGED <<gameEvents, purchases, row, inserted, paid, orphans, crashes>>
    BY <1>1 DEF Receive
  <2> QED BY <2>2, <2>3, <2>4, <2>5, <2>6
<1>2. ASSUME NEW r \in Request, Begin(r) PROVE Types'
  BY <1>2 DEF Begin
<1>3. ASSUME NEW r \in Request, InsertEvent(r) PROVE Types'
  <2>1. PICK i \in UniqueRows(batch[r]) :
          /\ inserted' = [inserted EXCEPT ![r] =
                IF IdOf[batch[r][i]] \in Ids(gameEvents \cup @) THEN @ ELSE @ \cup {batch[r][i]}]
          /\ row' = [row EXCEPT ![r] = i]
    BY <1>3 DEF InsertEvent
  <2>2. i \in 0..Len(batch[r]) /\ batch[r][i] \in Item
    BY BatchTypes, UniqueIds, LenProperties
  <2>3. \A s \in Request : IsFiniteSet(inserted'[s])
    <3>1. IsFiniteSet(inserted[r])
      OBVIOUS
    <3>2. IsFiniteSet(inserted[r] \cup {batch[r][i]})
      BY ONLY <3>1, FS_AddElement
    <3> QED BY <2>1, <3>1, <3>2
  <2>4. inserted' \in [Request -> SUBSET Item]
    BY <2>1, <2>2
  <2> QED BY <1>3, <2>1, <2>2, <2>3, <2>4 DEF InsertEvent
<1>4. ASSUME NEW r \in Request, EventsInserted(r) PROVE Types'
  BY <1>4 DEF EventsInserted
<1>5. ASSUME NEW r \in Request, InsertPurchase(r) PROVE Types'
  BY <1>5, BatchTypes, UniqueIds DEF InsertPurchase, CandidateRows
<1>6. ASSUME NEW r \in Request, PurchasesInserted(r) PROVE Types'
  BY <1>6 DEF PurchasesInserted
<1>7. ASSUME NEW r \in Request, Commit(r) PROVE Types'
  BY <1>7 DEF Commit
<1>8. ASSUME NEW r \in Request, Reply(r) PROVE Types'
  BY <1>8 DEF Reply, OkAnswer
<1>9. ASSUME NEW r \in Request, Fail(r) PROVE Types'
  BY <1>9, FS_EmptySet DEF Fail
<1>10. ASSUME NEW r \in Request, Deadline(r) PROVE Types'
  BY <1>10 DEF Deadline
<1>11. CASE Crash
  BY <1>11 DEF Crash
<1>12. CASE UNCHANGED vars
  BY <1>12 DEF vars
<1> QED
  BY <1>1, <1>2, <1>3, <1>4, <1>5, <1>6, <1>7, <1>8, <1>9, <1>10, <1>11, <1>12
     DEF Next, Step, Idle
-----------------------------------------------------------------------------
(* One lemma per action; the rows of the others are untouched. *)
LEMMA ReceiveInv ==
    ASSUME IngestionInv, Types', NEW r \in Request, Receive(r)
    PROVE  IngestionInv'
<1> USE DEF IngestionInv, Types, TypeOK, tables
<1>1. PICK b \in Batches :
        /\ batch' = [batch EXCEPT ![r] = b]
        /\ \/ /\ UniqueRows(b) = {}
              /\ phase' = [phase EXCEPT ![r] = "done"]
              /\ Tell(r, Answer("ok", Len(b), 0, 0, 0, RejectedRows(b)))
           \/ /\ phase' = [phase EXCEPT ![r] = "connect"]
              /\ answer' = answer
  BY DEF Receive
<1>2. phase[r] = "idle" /\ UNCHANGED <<tables, row, inserted, paid, orphans, crashes>>
  BY DEF Receive
<1>3. inserted[r] = {} /\ paid[r] = {} /\ answer[r].status # "ok"
  BY <1>2 DEF ClosedInv, AnswerInv
<1>4. AnswerInv(r)'
  BY <1>1, <1>3 DEF AnswerInv, Tell, Answer
<1>5. ClosedInv(r)'
  BY <1>1, <1>2, <1>3 DEF ClosedInv, Ended, EventsOf
<1>6. phase'[r] \notin OpenPhases
  BY <1>1 DEF OpenPhases
<1>7. Counted(r)' = Counted(r)
  BY <1>1, <1>2, <1>3 DEF Counted
<1>8. \A s \in Request \ {r} :
        /\ phase'[s] = phase[s] /\ batch'[s] = batch[s] /\ row'[s] = row[s]
        /\ inserted'[s] = inserted[s] /\ paid'[s] = paid[s] /\ answer'[s] = answer[s]
  BY <1>1, <1>2 DEF Tell
<1> QED BY <1>2, <1>4, <1>5, <1>6, <1>7, <1>8, OneRequest

LEMMA BeginInv ==
    ASSUME IngestionInv, Types', NEW r \in Request, Begin(r)
    PROVE  IngestionInv'
<1> USE DEF IngestionInv, Types, TypeOK, tables
<1>1. inserted[r] = {} /\ paid[r] = {} /\ phase[r] = "connect"
  BY DEF Begin, ClosedInv
<1>2. phase'[r] = "events" /\ row'[r] = 0 /\ batch'[r] = batch[r] /\ answer'[r] = answer[r]
      /\ inserted'[r] = {} /\ paid'[r] = {}
  BY <1>1 DEF Begin
<1>3. OpenInv(r)'
  BY <1>2, UniqueIds, BatchTypes DEF OpenInv, FreshKeys, InsertedOf, EventsOf, OrdersOf
<1>4. ClosedInv(r)' /\ AnswerInv(r)' /\ Counted(r)' = Counted(r)
  BY <1>1, <1>2 DEF ClosedInv, AnswerInv, Counted, Ended
<1>5. \A s \in Request : OwnKeys(r, s)'
  BY <1>2 DEF OwnKeys
<1> QED BY <1>3, <1>4, <1>5, OneRequest DEF Begin

LEMMA InsertEventInv ==
    ASSUME IngestionInv, Types', NEW r \in Request, InsertEvent(r)
    PROVE  IngestionInv'
<1> USE DEF IngestionInv, Types, TypeOK, tables
<1>1. PICK i \in UniqueRows(batch[r]) :
        /\ IsNextRow(i, UniqueRows(batch[r]), row[r])
        /\ ~EventBlocked(r, batch[r][i])
        /\ inserted' = [inserted EXCEPT ![r] =
              IF IdOf[batch[r][i]] \in Ids(gameEvents \cup @) THEN @ ELSE @ \cup {batch[r][i]}]
        /\ row' = [row EXCEPT ![r] = i]
  BY DEF InsertEvent
<1>2. /\ phase[r] = "events" /\ UNCHANGED <<tables, phase, batch, paid, answer, orphans, crashes>>
      /\ phase[r] \in OpenPhases /\ paid[r] = {}
  BY DEF InsertEvent, OpenPhases, ClosedInv
<1> DEFINE e == batch[r][i]
<1>3. \/ inserted'[r] = inserted[r] /\ \E f \in gameEvents \cup inserted[r] : IdOf[f] = IdOf[e]
      \/ /\ inserted'[r] = inserted[r] \cup {e}
         /\ \A f \in gameEvents \cup inserted[r] : IdOf[f] # IdOf[e]
  BY <1>1 DEF Ids
<1>4. FreshKeys(r)'
  BY <1>2, <1>3 DEF OpenInv, FreshKeys
<1>5. \A j \in UniqueRows(batch[r]) : j <= i <=> j <= row[r] \/ j = i
  <2>1. UniqueRows(batch[r]) \subseteq Nat
    BY UniqueIds, BatchTypes
  <2>2. row[r] \in Nat
    BY LenProperties, BatchTypes
  <2> QED BY ONLY <1>1, <2>1, <2>2 DEF IsNextRow
<1>6. InsertedOf(r)'
  <2>1. \A f \in inserted'[r] : \E j \in UniqueRows(batch[r]) : f = batch[r][j] /\ j <= i
    BY <1>2, <1>3, <1>5 DEF OpenInv, InsertedOf
  <2> QED BY <1>1, <1>2, <2>1 DEF InsertedOf
<1>7. EventsOf(r)'
  <2>1. \A j \in UniqueRows(batch[r]) : j <= i =>
          \E f \in gameEvents \cup inserted'[r] : IdOf[f] = IdOf[batch[r][j]]
    <3>1. \A j \in UniqueRows(batch[r]) : j <= row[r] =>
            \E f \in gameEvents \cup inserted[r] : IdOf[f] = IdOf[batch[r][j]]
      BY <1>2 DEF OpenInv, EventsOf
    <3>2. inserted[r] \subseteq inserted'[r] /\ \E f \in gameEvents \cup inserted'[r] : IdOf[f] = IdOf[e]
      BY <1>3
    <3> QED BY ONLY <1>5, <3>1, <3>2
  <2> QED BY <1>1, <1>2, <2>1 DEF EventsOf
<1>8. OrdersOf(r)'
  BY <1>2 DEF OrdersOf
<1>9. ASSUME NEW s \in Request \ {r}, phase[s] \in OpenPhases PROVE OwnKeys(r, s)'
  <2>1. \A f \in inserted[s] : IdOf[f] # IdOf[e]
    BY <1>1, <1>9 DEF EventBlocked, Ids
  <2>2. \A g \in inserted[r], f \in inserted[s] : IdOf[g] # IdOf[f]
    BY <1>2, <1>9 DEF OwnKeys
  <2>3. inserted'[s] = inserted[s]
    BY <1>1
  <2> QED BY <1>2, <1>3, <2>1, <2>2, <2>3 DEF OwnKeys
<1>10. ClosedInv(r)' /\ AnswerInv(r)' /\ Counted(r)' = Counted(r)
  BY <1>1, <1>2 DEF ClosedInv, AnswerInv, Counted, Ended
<1> QED BY <1>1, <1>2, <1>4, <1>6, <1>7, <1>8, <1>9, <1>10, OneRequest DEF OpenInv

LEMMA EventsInsertedInv ==
    ASSUME IngestionInv, Types', NEW r \in Request, EventsInserted(r)
    PROVE  IngestionInv'
<1> USE DEF IngestionInv, Types, TypeOK, tables
<1>1. /\ phase[r] = "events" /\ phase[r] \in OpenPhases /\ paid[r] = {}
      /\ \A i \in UniqueRows(batch[r]) : i <= row[r]
      /\ phase'[r] = IF CandidateRows(r) = {} THEN "commit" ELSE "purchases"
      /\ row'[r] = 0
      /\ UNCHANGED <<tables, batch, inserted, paid, answer>>
  BY DEF EventsInserted, OpenPhases, ClosedInv, AllRowsDone
<1>2. CandidateRows(r)' = CandidateRows(r)
  BY <1>1 DEF CandidateRows
<1>3. \A i \in CandidateRows(r) : i \in Nat /\ i > 0
  BY BatchTypes, UniqueIds DEF CandidateRows, UniqueRows, AcceptedRows
<1>4. FreshKeys(r)' /\ InsertedOf(r)' /\ EventsOf(r)'
  BY <1>1, <1>2 DEF OpenInv, FreshKeys, InsertedOf, EventsOf
<1>5. OrdersOf(r)'
  BY <1>1, <1>2, <1>3 DEF OrdersOf
<1>6. ClosedInv(r)' /\ AnswerInv(r)' /\ Counted(r)' = Counted(r)
  BY <1>1 DEF ClosedInv, AnswerInv, Counted, Ended
<1>7. \A s \in Request \ {r} : phase[s] \in OpenPhases => OwnKeys(r, s)'
  BY <1>1 DEF OwnKeys
<1> QED BY <1>1, <1>4, <1>5, <1>6, <1>7, OneRequest DEF OpenInv, EventsInserted

LEMMA InsertPurchaseInv ==
    ASSUME IngestionInv, Types', NEW r \in Request, InsertPurchase(r)
    PROVE  IngestionInv'
<1> USE DEF IngestionInv, Types, TypeOK, tables
<1>1. PICK i \in CandidateRows(r) :
        /\ IsNextRow(i, CandidateRows(r), row[r])
        /\ ~OrderBlocked(r, batch[r][i])
        /\ paid' = [paid EXCEPT ![r] =
              IF OrderHeld(r, batch[r][i]) THEN @ ELSE @ \cup {batch[r][i]}]
        /\ row' = [row EXCEPT ![r] = i]
  BY DEF InsertPurchase
<1>2. /\ phase[r] = "purchases" /\ phase[r] \in OpenPhases
      /\ UNCHANGED <<tables, phase, batch, inserted, answer, orphans, crashes>>
  BY DEF InsertPurchase, OpenPhases
<1> DEFINE e == batch[r][i]
<1>3. OrderOf[e] # NoOrder /\ CandidateRows(r)' = CandidateRows(r)
  BY <1>2 DEF CandidateRows
<1>4. \/ paid'[r] = paid[r] /\ \E f \in purchases \cup paid[r] : OrderOf[f] = OrderOf[e]
      \/ /\ paid'[r] = paid[r] \cup {e}
         /\ \A f \in purchases \cup paid[r] : OrderOf[f] # OrderOf[e]
  BY <1>1, <1>3 DEF OrderHeld, Orders
<1>5. FreshKeys(r)'
  BY <1>2, <1>3, <1>4 DEF OpenInv, FreshKeys
<1>6. \A j \in CandidateRows(r) : j <= i <=> j <= row[r] \/ j = i
  <2>1. CandidateRows(r) \subseteq Nat
    BY UniqueIds, BatchTypes DEF CandidateRows
  <2>2. row[r] \in Nat
    BY LenProperties, BatchTypes
  <2> QED BY ONLY <1>1, <2>1, <2>2 DEF IsNextRow
<1>7. InsertedOf(r)'
  <2>1. \A f \in paid'[r] : \E j \in CandidateRows(r) : f = batch[r][j] /\ j <= i
    BY <1>2, <1>4, <1>6 DEF OpenInv, InsertedOf
  <2> QED BY <1>1, <1>2, <1>3, <2>1 DEF InsertedOf, OpenInv
<1>8. OrdersOf(r)'
  <2>1. \A j \in CandidateRows(r) : j <= row[r] =>
          \E f \in purchases \cup paid[r] : OrderOf[f] = OrderOf[batch[r][j]]
    BY <1>2 DEF OpenInv, OrdersOf
  <2>2. paid[r] \subseteq paid'[r] /\ \E f \in purchases \cup paid'[r] : OrderOf[f] = OrderOf[e]
    BY <1>4
  <2>3. \A j \in CandidateRows(r) : j <= i =>
          \E f \in purchases \cup paid'[r] : OrderOf[f] = OrderOf[batch[r][j]]
    BY ONLY <1>6, <2>1, <2>2
  <2> QED BY <1>1, <1>2, <1>3, <2>3 DEF OrdersOf
<1>9. EventsOf(r)'
  BY <1>2 DEF EventsOf, OpenInv
<1>10. ASSUME NEW s \in Request \ {r}, phase[s] \in OpenPhases PROVE OwnKeys(r, s)'
  <2>1. \A f \in paid[s] : OrderOf[f] # OrderOf[e]
    BY <1>1, <1>3, <1>10 DEF OrderBlocked, Orders
  <2>2. \A g \in paid[r], f \in paid[s] : OrderOf[g] # OrderOf[f]
    BY <1>2, <1>10 DEF OwnKeys
  <2>3. paid'[s] = paid[s]
    BY <1>1
  <2> QED BY <1>2, <1>4, <1>10, <2>1, <2>2, <2>3 DEF OwnKeys
<1>11. ClosedInv(r)' /\ AnswerInv(r)' /\ Counted(r)' = Counted(r)
  BY <1>1, <1>2 DEF ClosedInv, AnswerInv, Counted, Ended
<1> QED BY <1>1, <1>2, <1>5, <1>7, <1>8, <1>9, <1>10, <1>11, OneRequest DEF OpenInv

LEMMA PurchasesInsertedInv ==
    ASSUME IngestionInv, Types', NEW r \in Request, PurchasesInserted(r)
    PROVE  IngestionInv'
<1> USE DEF IngestionInv, Types, TypeOK, tables
<1>1. /\ phase[r] = "purchases" /\ phase[r] \in OpenPhases
      /\ \A i \in CandidateRows(r) : i <= row[r]
      /\ phase'[r] = "commit"
      /\ UNCHANGED <<tables, batch, row, inserted, paid, answer>>
  BY DEF PurchasesInserted, OpenPhases, AllRowsDone
<1>2. CandidateRows(r)' = CandidateRows(r)
  BY <1>1 DEF CandidateRows
<1>3. OpenInv(r)'
  <2>1. FreshKeys(r)' /\ InsertedOf(r)' /\ EventsOf(r)'
    BY <1>1, <1>2 DEF OpenInv, FreshKeys, InsertedOf, EventsOf
  <2>2. OrdersOf(r)'
    BY <1>1, <1>2 DEF OpenInv, OrdersOf
  <2> QED BY <2>1, <2>2 DEF OpenInv
<1>4. ClosedInv(r)' /\ AnswerInv(r)' /\ Counted(r)' = Counted(r)
  BY <1>1 DEF ClosedInv, AnswerInv, Counted, Ended
<1>5. \A s \in Request \ {r} : phase[s] \in OpenPhases => OwnKeys(r, s)'
  BY <1>1 DEF OwnKeys
<1> QED BY <1>1, <1>3, <1>4, <1>5, OneRequest DEF PurchasesInserted

LEMMA ReplyInv ==
    ASSUME IngestionInv, Types', NEW r \in Request, Reply(r)
    PROVE  IngestionInv'
<1> USE DEF IngestionInv, Types, TypeOK, tables
<1>1. /\ phase[r] = "committed" /\ phase'[r] = "done" /\ answer[r].status # "ok"
      /\ UNCHANGED <<tables, batch, row, inserted, paid>>
  BY DEF Reply, AnswerInv
<1>2. ClosedInv(r)' /\ Counted(r)' = Counted(r) /\ phase'[r] \notin OpenPhases
  BY <1>1 DEF ClosedInv, Counted, Ended, EventsOf, OpenPhases
<1>3. AnswerInv(r)'
  BY <1>1 DEF AnswerInv, Reply, Tell, OkAnswer, Answer
<1> QED BY <1>1, <1>2, <1>3, OneRequest DEF Reply, Tell

LEMMA FailInv ==
    ASSUME IngestionInv, Types', NEW r \in Request, Fail(r)
    PROVE  IngestionInv'
<1> USE DEF IngestionInv, Types, TypeOK, tables
<1>1. /\ phase[r] \in {"connect"} \cup OpenPhases /\ phase'[r] = "failed"
      /\ inserted'[r] = {} /\ paid'[r] = {} /\ answer[r].status # "ok"
      /\ UNCHANGED <<tables, batch, row>>
  BY DEF Fail, AnswerInv, OpenPhases
<1>2. ClosedInv(r)' /\ Counted(r)' = Counted(r) /\ phase'[r] \notin OpenPhases
  BY <1>1 DEF ClosedInv, Counted, Ended, OpenPhases
<1>3. AnswerInv(r)'
  BY <1>1 DEF AnswerInv, Fail, Tell, NoCounts, Answer
<1> QED BY <1>1, <1>2, <1>3, OneRequest DEF Fail, Tell

LEMMA DeadlineInv ==
    ASSUME IngestionInv, Types', NEW r \in Request, Deadline(r)
    PROVE  IngestionInv'
<1> USE DEF IngestionInv, Types, TypeOK, tables
<1>1. UNCHANGED <<tables, phase, batch, row, inserted, paid>>
  BY DEF Deadline
<1>2. CandidateRows(r)' = CandidateRows(r)
  BY <1>1 DEF CandidateRows
<1>3. ClosedInv(r)' /\ Counted(r)' = Counted(r) /\ (phase[r] \in OpenPhases => OpenInv(r)')
  BY <1>1, <1>2 DEF ClosedInv, Counted, OpenInv, FreshKeys, InsertedOf, EventsOf, OrdersOf
<1>4. AnswerInv(r)'
  BY <1>1 DEF AnswerInv, Deadline, Tell, NoCounts, Answer
<1>5. \A s \in Request \ {r} :
        phase[r] \in OpenPhases /\ phase[s] \in OpenPhases => OwnKeys(r, s)'
  BY <1>1 DEF OwnKeys
<1> QED BY <1>1, <1>3, <1>4, <1>5, OneRequest DEF Deadline, Tell

LEMMA CrashInv ==
    ASSUME IngestionInv, Types', Crash
    PROVE  IngestionInv'
<1> USE DEF IngestionInv, Types, TypeOK, tables
<1>1. /\ UNCHANGED <<tables, batch, row, inserted, paid>>
      /\ \A r \in Request :
           /\ phase'[r] = IF phase[r] = "committed" THEN "done" ELSE phase[r]
           /\ answer'[r] = answer[r] \/ answer'[r].status = "lost"
  BY DEF Crash, NoCounts, Answer
<1>2. TablesInv'
  BY <1>1 DEF TablesInv, PurchasesDerived, Orders
<1>3. ASSUME NEW r \in Request
      PROVE  /\ phase'[r] \in Ended <=> phase[r] \in Ended
             /\ phase'[r] \in OpenPhases => phase'[r] = phase[r]
  BY <1>1 DEF Ended, OpenPhases
<1>4. ASSUME NEW r \in Request PROVE ClosedInv(r)' /\ AnswerInv(r)'
  <2>1. ClosedInv(r)'
    BY <1>1, <1>3 DEF ClosedInv, EventsOf, Ended
  <2>2. AnswerInv(r)'
    BY <1>1 DEF AnswerInv
  <2> QED BY <2>1, <2>2
<1>5. ASSUME NEW r \in Request, phase'[r] \in OpenPhases PROVE OpenInv(r)'
  <2>1. CandidateRows(r)' = CandidateRows(r)
    BY <1>1 DEF CandidateRows
  <2>2. phase'[r] = phase[r] /\ OpenInv(r)
    BY <1>3, <1>5
  <2>3. FreshKeys(r)' /\ EventsOf(r)'
    BY <1>1, <2>2 DEF OpenInv, FreshKeys, EventsOf
  <2>4. InsertedOf(r)' /\ OrdersOf(r)'
    BY <1>1, <2>1, <2>2 DEF OpenInv, InsertedOf, OrdersOf
  <2> QED BY <2>3, <2>4 DEF OpenInv
<1>6. ASSUME NEW r \in Request, NEW s \in Request, r # s,
             phase'[r] \in OpenPhases, phase'[s] \in OpenPhases
      PROVE  OwnKeys(r, s)'
  BY <1>1, <1>3, <1>6 DEF OwnKeys
<1>7. EachRowCountedOnce'
  BY <1>1, <1>3 DEF EachRowCountedOnce, Ended
<1> QED BY <1>2, <1>4, <1>5, <1>6, <1>7

(* A purchase is inserted for an event inserted. *)
LEMMA PaidAreInserted ==
    ASSUME Types, NEW r \in Request, InsertedOf(r)
    PROVE  paid[r] \subseteq inserted[r]
<1> SUFFICES ASSUME NEW e \in paid[r] PROVE e \in inserted[r]
  OBVIOUS
<1>1. PICK i \in CandidateRows(r) : e = batch[r][i]
  BY DEF InsertedOf
<1>2. i \in UniqueRows(batch[r]) /\ \E f \in inserted[r] : IdOf[f] = IdOf[batch[r][i]]
  BY DEF CandidateRows, Ids
<1>3. PICK f \in inserted[r] : IdOf[f] = IdOf[batch[r][i]]
  BY <1>2
<1>4. PICK j \in UniqueRows(batch[r]) : f = batch[r][j]
  BY DEF InsertedOf
<1>5. i = j
  BY <1>2, <1>3, <1>4, BatchTypes, UniqueIds
<1> QED BY <1>1, <1>3, <1>4, <1>5

(* At the commit every order of the new rows has its purchase. *)
LEMMA OrdersPaid ==
    ASSUME Types, NEW r \in Request, phase[r] = "commit", InsertedOf(r), OrdersOf(r)
    PROVE  \A e \in inserted[r] : OrderOf[e] # NoOrder =>
              \E f \in purchases \cup paid[r] : OrderOf[f] = OrderOf[e]
<1> SUFFICES ASSUME NEW e \in inserted[r], OrderOf[e] # NoOrder
             PROVE  \E f \in purchases \cup paid[r] : OrderOf[f] = OrderOf[e]
  OBVIOUS
<1>1. PICK i \in UniqueRows(batch[r]) : e = batch[r][i]
  BY DEF InsertedOf
<1>2. i \in CandidateRows(r)
  BY <1>1 DEF CandidateRows, Ids
<1> QED BY <1>1, <1>2 DEF OrdersOf

LEMMA CommitInv ==
    ASSUME IngestionInv, Types', NEW r \in Request, Commit(r)
    PROVE  IngestionInv'
<1> USE DEF IngestionInv, Types, TypeOK, tables
<1>1. /\ phase[r] = "commit" /\ phase[r] \in OpenPhases
      /\ phase'[r] \in Ended /\ phase'[r] \notin OpenPhases
      /\ gameEvents' = gameEvents \cup inserted[r]
      /\ purchases' = purchases \cup paid[r]
      /\ UNCHANGED <<batch, row, inserted, paid, answer>>
      /\ \A s \in Request \ {r} : phase'[s] = phase[s]
  BY DEF Commit, OpenPhases, Ended
<1>2. OpenInv(r)
  BY <1>1
<1>3. paid[r] \subseteq inserted[r]
  BY <1>2, PaidAreInserted DEF OpenInv
<1>4. TablesInv'
  <2>1. purchases' \subseteq gameEvents'
    BY <1>1, <1>3 DEF TablesInv, PurchasesDerived
  <2>2. \A e \in inserted[r] : OrderOf[e] # NoOrder =>
          \E f \in purchases' : OrderOf[f] = OrderOf[e]
    BY <1>1, <1>2, OrdersPaid DEF OpenInv
  <2>3. Orders(gameEvents') = Orders(purchases')
    <3>1. ASSUME NEW e \in gameEvents', OrderOf[e] # NoOrder
          PROVE  \E f \in purchases' : OrderOf[f] = OrderOf[e]
      <4>1. CASE e \in inserted[r]
        BY <2>2, <3>1, <4>1
      <4>2. CASE e \in gameEvents
        <5>1. OrderOf[e] \in Orders(gameEvents)
          BY <3>1, <4>2 DEF Orders
        <5>2. OrderOf[e] \in Orders(purchases)
          BY <5>1 DEF TablesInv, PurchasesDerived
        <5> QED BY <1>1, <5>2 DEF Orders
      <4> QED BY <1>1, <3>1, <4>1, <4>2
    <3>2. Orders(gameEvents') \subseteq Orders(purchases')
      BY <3>1 DEF Orders
    <3>3. Orders(purchases') \subseteq Orders(gameEvents')
      BY <2>1 DEF Orders
    <3> QED BY <3>2, <3>3
  <2>4. \A e \in purchases' : OrderOf[e] # NoOrder
    BY <1>1, <1>2 DEF TablesInv, OpenInv, FreshKeys
  <2> QED BY <2>1, <2>3, <2>4 DEF TablesInv, PurchasesDerived
<1>5. ASSUME NEW s \in Request PROVE ClosedInv(s)' /\ AnswerInv(s)'
  <2>1. CASE s = r
    <3>1. EventsOf(r)'
      BY <1>1, <1>2 DEF OpenInv, EventsOf
    <3> QED BY <1>1, <2>1, <3>1 DEF ClosedInv, AnswerInv, Ended
  <2>2. CASE s # r
    BY <1>1, <2>2 DEF ClosedInv, AnswerInv, EventsOf
  <2> QED BY <2>1, <2>2
<1>6. ASSUME NEW s \in Request, phase'[s] \in OpenPhases PROVE OpenInv(s)'
  <2>1. s # r /\ phase[s] \in OpenPhases /\ OpenInv(s) /\ phase'[s] = phase[s] /\ OwnKeys(r, s)
    BY <1>1, <1>6
  <2>2. CandidateRows(s)' = CandidateRows(s)
    BY <1>1 DEF CandidateRows
  <2>3. FreshKeys(s)'
    BY <1>1, <2>1 DEF OpenInv, FreshKeys, OwnKeys
  <2>4. InsertedOf(s)' /\ EventsOf(s)'
    BY <1>1, <2>1, <2>2 DEF OpenInv, InsertedOf, EventsOf
  <2>5. OrdersOf(s)'
    BY <1>1, <2>1, <2>2 DEF OpenInv, OrdersOf
  <2> QED BY <2>3, <2>4, <2>5 DEF OpenInv
<1>7. ASSUME NEW s \in Request, NEW t \in Request, s # t,
             phase'[s] \in OpenPhases, phase'[t] \in OpenPhases
      PROVE  OwnKeys(s, t)'
  <2>1. s # r /\ t # r
    BY <1>1, <1>7
  <2>2. OwnKeys(s, t)
    BY <1>1, <1>7, <2>1
  <2> QED BY <1>1, <2>2 DEF OwnKeys
<1>8. EachRowCountedOnce'
  <2>1. \A s \in Request : phase'[s] \in Ended <=> phase[s] \in Ended \/ s = r
    BY <1>1 DEF Ended
  <2>2. gameEvents' = UNION {inserted'[s] : s \in {t \in Request : phase'[t] \in Ended}}
    BY <1>1, <2>1 DEF EachRowCountedOnce, Ended
  <2>3. \A s \in Request : phase[s] \in Ended => inserted[s] \cap inserted[r] = {}
    BY <1>2 DEF ClosedInv, OpenInv, FreshKeys
  <2> QED BY <1>1, <2>1, <2>2, <2>3 DEF EachRowCountedOnce, Ended
<1> QED BY <1>4, <1>5, <1>6, <1>7, <1>8

LEMMA NextInv ==
    ASSUME IngestionInv, [Next]_vars
    PROVE  IngestionInv'
<1>1. Types'
  BY TypesNext DEF IngestionInv
<1>2. CASE UNCHANGED vars
  <2>1. \A r \in Request : CandidateRows(r)' = CandidateRows(r)
    BY <1>2 DEF CandidateRows, vars
  <2>2. \A r \in Request : OpenInv(r)' = OpenInv(r)
    BY <1>2, <2>1 DEF OpenInv, FreshKeys, InsertedOf, EventsOf, OrdersOf, vars, tables
  <2>3. \A r \in Request : ClosedInv(r)' = ClosedInv(r) /\ AnswerInv(r)' = AnswerInv(r)
    BY <1>2 DEF ClosedInv, AnswerInv, EventsOf, vars, tables
  <2>4. \A r, s \in Request : OwnKeys(r, s)' = OwnKeys(r, s)
    BY <1>2 DEF OwnKeys, vars
  <2>5. TablesInv' /\ EachRowCountedOnce'
    BY <1>2 DEF IngestionInv, TablesInv, PurchasesDerived, EachRowCountedOnce, Orders, vars, tables
  <2>6. phase' = phase
    BY <1>2 DEF vars
  <2> QED BY <1>1, <2>2, <2>3, <2>4, <2>5, <2>6 DEF IngestionInv
<1> QED
  BY <1>1, <1>2, ReceiveInv, BeginInv, InsertEventInv, EventsInsertedInv, InsertPurchaseInv,
     PurchasesInsertedInv, CommitInv, ReplyInv, FailInv, DeadlineInv, CrashInv
     DEF Next, Step, Idle
-----------------------------------------------------------------------------
THEOREM IngestionCorrect == Spec => []IngestionInv
<1>1. IngestionInv /\ [Next]_vars => IngestionInv'
  BY NextInv
<1> QED BY InitInv, <1>1, PTL DEF Spec

(* Tables, locks, counts and answers of all requests keep their types.       *)
THEOREM IngestionTypeCorrect == Spec => []TypeOK
<1>1. IngestionInv => TypeOK
  BY DEF IngestionInv, Types
<1> QED BY IngestionCorrect, <1>1, PTL

(* Every stored order has its purchase, every purchase its event: storeBatch *)
(* derives them in the transaction that stores the event, or never.          *)
THEOREM OrdersAreDerived == Spec => []PurchasesDerived
<1>1. IngestionInv => PurchasesDerived
  BY DEF IngestionInv, TablesInv
<1> QED BY IngestionCorrect, <1>1, PTL

LEMMA InvNoKeyClash == IngestionInv => NoKeyClash
<1> SUFFICES ASSUME IngestionInv, NEW r \in Request, phase[r] = "purchases",
                    NEW i \in CandidateRows(r), i > row[r],
                    ~OrderHeld(r, batch[r][i]), IdOf[batch[r][i]] \in Ids(purchases \cup paid[r])
             PROVE  FALSE
  BY DEF NoKeyClash, KeyClash
<1>1. Types /\ OpenInv(r) /\ batch[r] \in Seq(Item)
  BY BatchTypes DEF IngestionInv, OpenPhases
<1>2. PICK e \in purchases \cup paid[r] : IdOf[e] = IdOf[batch[r][i]]
  BY DEF Ids
<1>3. i \in UniqueRows(batch[r]) /\ \E f \in inserted[r] : IdOf[f] = IdOf[batch[r][i]]
  BY DEF CandidateRows, Ids
<1>4. e \notin purchases
  BY <1>1, <1>2, <1>3 DEF OpenInv, FreshKeys, IngestionInv, TablesInv, PurchasesDerived
<1>5. PICK j \in CandidateRows(r) : e = batch[r][j] /\ j <= row[r]
  BY <1>1, <1>2, <1>4 DEF OpenInv, InsertedOf
<1>6. i = j
  BY <1>1, <1>2, <1>3, <1>5, UniqueIds DEF CandidateRows
<1>7. i \in Nat /\ row[r] \in Nat
  BY <1>1, <1>3, UniqueIds, LenProperties DEF Types, TypeOK
<1> QED BY <1>5, <1>6, <1>7

(* The statement that derives purchases never meets the primary key it does  *)
(* not name.                                                                 *)
THEOREM DerivationNeverClashes == Spec => []NoKeyClash
BY IngestionCorrect, InvNoKeyClash, PTL

LEMMA InvAcknowledged == IngestionInv => AcknowledgedIsStored
<1> SUFFICES ASSUME IngestionInv, NEW r \in Request, answer[r].status = "ok",
                    NEW i \in DOMAIN batch[r] \ answer[r].rejected
             PROVE  IdOf[batch[r][i]] \in Ids(gameEvents)
  BY DEF AcknowledgedIsStored
<1>1. phase[r] = "done" /\ EventsOf(r) /\ inserted[r] \subseteq gameEvents
      /\ answer[r].rejected = RejectedRows(batch[r])
  BY DEF IngestionInv, AnswerInv, ClosedInv, Ended
<1>2. batch[r] \in Seq(Item) /\ i \in AcceptedRows(batch[r])
  BY <1>1, BatchTypes DEF IngestionInv, AcceptedRows, RejectedRows
<1>3. PICK j \in UniqueRows(batch[r]) : IdOf[batch[r][j]] = IdOf[batch[r][i]]
  BY <1>2, UniqueCover
<1>4. \E e \in gameEvents : IdOf[e] = IdOf[batch[r][j]]
  BY <1>1 DEF EventsOf
<1> QED BY <1>3, <1>4 DEF Ids

(* The client of a 200 may forget its batch. *)
THEOREM AcknowledgedAreStored == Spec => []AcknowledgedIsStored
BY IngestionCorrect, InvAcknowledged, PTL

(* The counts of the answers, sent or lost, add up to the rows stored. *)
THEOREM RowsAreCountedOnce == Spec => []EachRowCountedOnce
<1>1. IngestionInv => EachRowCountedOnce
  BY DEF IngestionInv
<1> QED BY IngestionCorrect, <1>1, PTL
-----------------------------------------------------------------------------
LEMMA CommitStores ==
    ASSUME IngestionInv, NEW r \in Request, Commit(r)
    PROVE  Abstract!Store
<1>1. /\ phase[r] = "commit" /\ OpenInv(r) /\ Types /\ TablesInv
      /\ gameEvents' = gameEvents \cup inserted[r]
      /\ purchases' = purchases \cup paid[r]
  BY DEF Commit, IngestionInv, OpenPhases, tables
<1>2. FreshKeys(r) /\ paid[r] \subseteq inserted[r] /\ IsFiniteSet(inserted[r])
  BY <1>1, PaidAreInserted DEF OpenInv, Types
<1>3. gameEvents' \ gameEvents = inserted[r] /\ purchases' \ purchases = paid[r]
  BY <1>1, <1>2 DEF FreshKeys
<1>4. Ids(inserted[r]) \cap Ids(gameEvents) = {}
  BY <1>2 DEF FreshKeys, Ids
<1>5. /\ \A e, f \in inserted[r] : IdOf[e] = IdOf[f] => e = f
      /\ \A e, f \in paid[r] : OrderOf[e] = OrderOf[f] => e = f
  BY <1>2 DEF FreshKeys
<1>6. Orders(paid[r]) = Orders(inserted[r]) \ Orders(purchases)
  <2>1. \A e \in inserted[r] : OrderOf[e] # NoOrder =>
          \E f \in purchases \cup paid[r] : OrderOf[f] = OrderOf[e]
    BY <1>1, OrdersPaid DEF OpenInv
  <2>2. Orders(inserted[r]) \ Orders(purchases) \subseteq Orders(paid[r])
    BY <2>1 DEF Orders
  <2>3. Orders(paid[r]) \subseteq Orders(inserted[r]) \ Orders(purchases)
    BY <1>2 DEF Orders, FreshKeys
  <2> QED BY <2>2, <2>3
<1> QED
  BY <1>1, <1>2, <1>3, <1>4, <1>5, <1>6
     DEF Abstract!Store, Abstract!Ids, Abstract!Orders, Ids, Orders

LEMMA OthersStutter ==
    ASSUME [Next]_vars, ~ \E r \in Request : Commit(r)
    PROVE  UNCHANGED tables
BY DEF Next, Step, Receive, Begin, InsertEvent, EventsInserted, InsertPurchase, PurchasesInserted,
       Reply, Fail, Deadline, Crash, Idle, vars

(* Every commit is one Store step, every other step invisible: the rows,    *)
(* waits, failures and deaths of concurrent transactions cannot be told     *)
(* from storing whole batches one after the other.                          *)
THEOREM IngestionImplementsStore == Spec => ImplementsStore
<1>1. Init => Abstract!Init
  BY DEF Init, Abstract!Init
<1>2. IngestionInv /\ [Next]_vars => [Abstract!Store]_(Abstract!vars)
  BY CommitStores, OthersStutter DEF tables, Abstract!vars
<1> QED BY IngestionCorrect, <1>1, <1>2, PTL DEF Spec, ImplementsStore, Abstract!Spec
-----------------------------------------------------------------------------
(* The counts of an answer.  Rows and items are counted against each other  *)
(* by the one-to-one maps between them.                                     *)
LEMMA ItemsOfRows ==
    ASSUME NEW b, NEW R, IsFiniteSet(R), NEW S, \A e \in S : \E i \in R : b[i] = e
    PROVE  IsFiniteSet(S) /\ Cardinality(S) <= Cardinality(R)
<1> DEFINE f == [e \in S |-> CHOOSE i \in R : b[i] = e]
<1>1. \A e \in S : f[e] \in R /\ b[f[e]] = e
  OBVIOUS
<1>2. f \in [S -> R]
  BY <1>1
<1>3. \A x, y \in S : f[x] = f[y] => x = y
  BY <1>1
<1> HIDE DEF f
<1>4. f \in Injection(S, R)
  BY <1>2, <1>3 DEF Injection, IsInjective
<1> QED BY <1>4, FS_Injection

LEMMA RowsOfItems ==
    ASSUME NEW b, NEW R, NEW S, IsFiniteSet(S),
           \A i \in R : b[i] \in S, \A i, j \in R : b[i] = b[j] => i = j
    PROVE  IsFiniteSet(R) /\ Cardinality(R) <= Cardinality(S)
<1> DEFINE f == [i \in R |-> b[i]]
<1>1. f \in [R -> S] /\ \A x, y \in R : f[x] = f[y] => x = y
  OBVIOUS
<1> HIDE DEF f
<1>2. f \in Injection(R, S)
  BY <1>1 DEF Injection, IsInjective
<1> QED BY <1>2, FS_Injection

(* Every event of a body is accepted or rejected. *)
LEMMA RowsAddUp ==
    ASSUME NEW b \in Seq(Item)
    PROVE  /\ IsFiniteSet(AcceptedRows(b)) /\ IsFiniteSet(UniqueRows(b))
           /\ Cardinality(AcceptedRows(b)) \in Nat /\ Cardinality(UniqueRows(b)) \in Nat
           /\ Cardinality(UniqueRows(b)) <= Cardinality(AcceptedRows(b))
           /\ Len(b) = Cardinality(AcceptedRows(b)) + Cardinality(RejectedRows(b))
           /\ RejectedRows(b) \subseteq DOMAIN b
<1> DEFINE A == AcceptedRows(b)
           R == RejectedRows(b)
           U == UniqueRows(b)
           D == 1..Len(b)
<1>1. /\ Len(b) \in Nat /\ A \subseteq D /\ R \subseteq D /\ U \subseteq A
      /\ A \cup R = D /\ A \cap R = {} /\ R \subseteq DOMAIN b
  BY LenProperties DEF AcceptedRows, RejectedRows, UniqueRows
<1> HIDE DEF A, R, U
<1>2. IsFiniteSet(D) /\ Cardinality(D) = Len(b)
  <2>1. Cardinality(D) = (IF 1 > Len(b) THEN 0 ELSE Len(b) - 1 + 1) /\ IsFiniteSet(D)
    BY <1>1, FS_Interval
  <2>2. CASE 1 > Len(b)
    BY <1>1, <2>1, <2>2
  <2>3. CASE ~(1 > Len(b))
    BY <1>1, <2>1, <2>3
  <2> QED BY <2>2, <2>3
<1> HIDE DEF D
<1>3. IsFiniteSet(A) /\ IsFiniteSet(R)
  BY <1>1, <1>2, FS_Subset
<1>4. IsFiniteSet(U) /\ Cardinality(U) <= Cardinality(A)
  BY <1>1, <1>3, FS_Subset
<1>5. Cardinality(A) \in Nat /\ Cardinality(R) \in Nat /\ Cardinality(U) \in Nat
  BY <1>3, <1>4, FS_CardinalityType
<1>6. Cardinality(D) = Cardinality(A) + Cardinality(R) - Cardinality({})
  BY <1>1, <1>3, FS_Union
<1>7. Cardinality(D) = Cardinality(A) + Cardinality(R)
  BY <1>5, <1>6, FS_EmptySet
<1> QED BY <1>1, <1>2, <1>3, <1>4, <1>5, <1>7 DEF A, R, U

(* The answer of a transaction that commits. *)
LEMMA CommitIsUsable ==
    ASSUME IngestionInv, NEW r \in Request, phase[r] = "commit"
    PROVE  PassesValidation(OkAnswer(r), batch[r])
<1> DEFINE b == batch[r]
           C == CandidateRows(r)
           i == Cardinality(inserted[r])
           c == Cardinality(C)
           p == Cardinality(paid[r])
           a == Cardinality(AcceptedRows(b))
           u == Cardinality(UniqueRows(b))
<1>1. /\ b \in Seq(Item) /\ IsFiniteSet(inserted[r]) /\ InsertedOf(r)
  BY BatchTypes DEF IngestionInv, Types, OpenInv, OpenPhases
<1>2. /\ IsFiniteSet(UniqueRows(b)) /\ a \in Nat /\ u \in Nat /\ u <= a
      /\ Len(b) = a + Cardinality(RejectedRows(b)) /\ RejectedRows(b) \subseteq DOMAIN b
  BY <1>1, RowsAddUp
<1>3. C \subseteq UniqueRows(b)
  BY DEF CandidateRows
<1>4. i <= u
  <2>1. \A e \in inserted[r] : \E k \in UniqueRows(b) : b[k] = e
    BY <1>1 DEF InsertedOf
  <2> QED BY <1>2, <2>1, ItemsOfRows
<1>5. IsFiniteSet(C) /\ c <= i
  <2>1. ASSUME NEW k \in C PROVE b[k] \in inserted[r]
    <3>1. PICK e \in inserted[r] : IdOf[e] = IdOf[b[k]]
      BY DEF CandidateRows, Ids
    <3>2. PICK l \in UniqueRows(b) : e = b[l]
      BY <1>1 DEF InsertedOf
    <3>3. k = l
      BY <1>1, <1>3, <3>1, <3>2, UniqueIds
    <3> QED BY <3>2, <3>3
  <2>2. \A k, l \in C : b[k] = b[l] => k = l
    BY <1>1, <1>3, UniqueIds
  <2> HIDE DEF b, C
  <2> QED BY <1>1, <2>1, <2>2, RowsOfItems
<1>6. IsFiniteSet(paid[r]) /\ p <= c
  <2>1. \A e \in paid[r] : \E k \in C : b[k] = e
    BY <1>1 DEF InsertedOf
  <2> HIDE DEF b, C
  <2> QED BY <1>5, <2>1, ItemsOfRows
<1>7. i \in Nat /\ c \in Nat /\ p \in Nat
  BY <1>1, <1>5, <1>6, FS_CardinalityType
<1>8. /\ OkAnswer(r).received = Len(b) /\ OkAnswer(r).accepted = a /\ OkAnswer(r).stored = i
      /\ OkAnswer(r).duplicate = a - i /\ OkAnswer(r).orderDuplicate = c - p
      /\ OkAnswer(r).rejected = RejectedRows(b)
  BY DEF OkAnswer, Answer
<1> HIDE DEF a, b, c, i, p, u, C
<1>9. a - i \in Nat /\ c - p \in Nat /\ c - p <= i /\ a = i + (a - i)
  BY <1>2, <1>4, <1>5, <1>6, <1>7
<1>10. PassesValidation(OkAnswer(r), b)
  BY <1>2, <1>7, <1>8, <1>9 DEF PassesValidation
<1> QED BY <1>10 DEF b

(* The answer to a batch without a valid event. *)
LEMMA EmptyIsUsable ==
    ASSUME NEW b \in Batches, UniqueRows(b) = {}
    PROVE  PassesValidation(Answer("ok", Len(b), 0, 0, 0, RejectedRows(b)), b)
<1> DEFINE x == Answer("ok", Len(b), 0, 0, 0, RejectedRows(b))
<1>1. b \in Seq(Item)
  BY IngestionAssumption
<1>2. AcceptedRows(b) = {}
  BY <1>1, UniqueCover
<1>3. Cardinality(AcceptedRows(b)) = 0
  BY <1>2, FS_EmptySet
<1>4. /\ Len(b) = 0 + Cardinality(RejectedRows(b)) /\ RejectedRows(b) \subseteq DOMAIN b
  BY <1>1, <1>3, RowsAddUp
<1>5. /\ x.received = Len(b) /\ x.accepted = 0 /\ x.stored = 0 /\ x.duplicate = 0 - 0
      /\ x.orderDuplicate = 0 /\ x.rejected = RejectedRows(b)
  BY DEF Answer
<1> HIDE DEF x
<1>6. PassesValidation(x, b)
  BY <1>4, <1>5 DEF PassesValidation
<1> QED BY <1>6 DEF x

(* What is answered, or would be if the client still listened. *)
UsableInv ==
    \A r \in Request :
        /\ phase[r] = "committed" => PassesValidation(OkAnswer(r), batch[r])
        /\ answer[r].status = "ok" => PassesValidation(answer[r], batch[r])

LEMMA UsableInit == Init => UsableInv
BY DEF Init, UsableInv, NoCounts, Answer

LEMMA UsableNext == UsableInv /\ IngestionInv /\ [Next]_vars => UsableInv'
<1> SUFFICES ASSUME UsableInv, IngestionInv, [Next]_vars, NEW s \in Request
             PROVE  /\ phase'[s] = "committed" => PassesValidation(OkAnswer(s), batch[s])'
                    /\ answer'[s].status = "ok" => PassesValidation(answer[s], batch[s])'
  BY DEF UsableInv
<1>0. /\ DOMAIN phase = Request /\ DOMAIN batch = Request /\ DOMAIN answer = Request
      /\ answer[s].status = "ok" => phase[s] = "done"
  BY DEF IngestionInv, Types, TypeOK, AnswerInv
<1>1. ASSUME UNCHANGED <<batch[s], inserted[s], paid[s]>>,
             phase'[s] = "committed" => phase[s] \in {"commit", "committed"},
             answer'[s].status = "ok" =>
                answer'[s] = answer[s] \/ (phase[s] = "committed" /\ answer'[s] = OkAnswer(s))
      PROVE  /\ phase'[s] = "committed" => PassesValidation(OkAnswer(s), batch[s])'
             /\ answer'[s].status = "ok" => PassesValidation(answer[s], batch[s])'
  <2>1. OkAnswer(s)' = OkAnswer(s)
    BY <1>1 DEF OkAnswer, CandidateRows
  <2>2. phase[s] = "commit" => PassesValidation(OkAnswer(s), batch[s])
    BY CommitIsUsable
  <2>3. phase'[s] = "committed" => PassesValidation(OkAnswer(s)', batch'[s])
    BY <1>1, <2>1, <2>2 DEF UsableInv
  <2>4. answer'[s].status = "ok" => PassesValidation(answer'[s], batch'[s])
    <3>1. CASE answer'[s] = answer[s]
      BY <1>1, <3>1 DEF UsableInv
    <3>2. CASE phase[s] = "committed" /\ answer'[s] = OkAnswer(s)
      BY <1>1, <3>2 DEF UsableInv
    <3> QED BY <1>1, <3>1, <3>2
  <2> QED BY <2>3, <2>4 DEF PassesValidation
<1>2. CASE Receive(s)
  <2>1. PICK b \in Batches :
           /\ batch' = [batch EXCEPT ![s] = b]
           /\ \/ /\ UniqueRows(b) = {} /\ phase' = [phase EXCEPT ![s] = "done"]
                 /\ Tell(s, Answer("ok", Len(b), 0, 0, 0, RejectedRows(b)))
              \/ phase' = [phase EXCEPT ![s] = "connect"] /\ answer' = answer
    BY <1>2 DEF Receive
  <2>2. answer[s].status # "ok" /\ batch'[s] = b /\ phase'[s] # "committed"
    BY <1>0, <1>2, <2>1 DEF Receive
  <2>3. answer'[s].status = "ok" =>
           /\ UniqueRows(b) = {}
           /\ answer'[s] = Answer("ok", Len(b), 0, 0, 0, RejectedRows(b))
    BY <1>0, <2>1, <2>2 DEF Tell
  <2>4. answer'[s].status = "ok" => PassesValidation(answer'[s], batch'[s])
    BY <2>2, <2>3, EmptyIsUsable
  <2> QED BY <2>2, <2>4 DEF PassesValidation
<1>3. ASSUME NEW r \in Request, r # s, Receive(r) \/ Step(r) \/ Fail(r) \/ Deadline(r)
      PROVE  UNCHANGED <<phase[s], batch[s], inserted[s], paid[s], answer[s]>>
  BY <1>0, <1>3 DEF Receive, Step, Begin, InsertEvent, EventsInserted, InsertPurchase,
     PurchasesInserted, Commit, Reply, Fail, Deadline, Tell, IngestionInv, Types, TypeOK
<1>4. CASE Begin(s) \/ EventsInserted(s) \/ PurchasesInserted(s) \/ Commit(s)
  <2>1. UNCHANGED <<batch, inserted, paid, answer>>
    BY <1>4 DEF Begin, EventsInserted, PurchasesInserted, Commit
  <2>2. phase'[s] = "committed" => phase[s] = "commit"
    BY <1>0, <1>4 DEF Begin, EventsInserted, PurchasesInserted, Commit
  <2> QED BY <1>1, <2>1, <2>2
<1>5. CASE InsertEvent(s) \/ InsertPurchase(s) \/ Fail(s)
  <2>1. phase'[s] # "committed" /\ phase[s] \notin {"done", "committed"}
    BY <1>0, <1>5 DEF InsertEvent, InsertPurchase, Fail, OpenPhases
  <2>2. answer'[s].status # "ok"
    BY <1>0, <1>5, <2>1 DEF InsertEvent, InsertPurchase, Fail, Tell, NoCounts, Answer
  <2> QED BY <2>1, <2>2
<1>6. CASE Reply(s)
  <2>1. /\ UNCHANGED <<batch, inserted, paid>> /\ phase[s] = "committed" /\ phase'[s] = "done"
        /\ answer'[s] \in {answer[s], OkAnswer(s)}
    BY <1>0, <1>6 DEF Reply, Tell
  <2> QED BY <1>1, <2>1
<1>7. CASE Deadline(s)
  <2>1. /\ UNCHANGED <<phase, batch, inserted, paid>>
        /\ answer'[s] = answer[s] \/ answer'[s].status # "ok"
    BY <1>0, <1>7 DEF Deadline, Tell, NoCounts, Answer
  <2> QED BY <1>1, <2>1
<1>8. CASE Crash
  <2>1. /\ UNCHANGED <<batch, inserted, paid>>
        /\ phase'[s] = IF phase[s] = "committed" THEN "done" ELSE phase[s]
        /\ answer'[s] = answer[s] \/ answer'[s].status # "ok"
    BY <1>8 DEF Crash, NoCounts, Answer
  <2> QED BY <1>1, <2>1
<1>9. CASE UNCHANGED vars
  BY <1>1, <1>9 DEF vars
<1> QED BY <1>1, <1>2, <1>3, <1>4, <1>5, <1>6, <1>7, <1>8, <1>9 DEF Next, Step, Idle

(* Every 200 the receiver sends passes the sender's check of its counts, so *)
(* an acknowledged batch is never sent again for the form of its answer.    *)
THEOREM AnswersPassValidation == Spec => []AnswersAreUsable
<1>1. UsableInv => AnswersAreUsable
  BY DEF UsableInv, AnswersAreUsable
<1> QED BY IngestionCorrect, UsableInit, UsableNext, <1>1, PTL DEF Spec
=============================================================================
