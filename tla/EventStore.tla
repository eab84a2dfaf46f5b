----------------------------- MODULE EventStore -----------------------------
(***************************************************************************)
(* What the receiver promises its senders, without transactions: storing a *)
(* batch is one step.  An event id is stored once, the first version seen  *)
(* wins, and an order id yields one purchase however many events name it.  *)
(***************************************************************************)
CONSTANTS
    Item,     \* the versions of events clients send
    IdOf,     \* event_id of each item
    OrderOf,  \* order_id of a shop_purchase, NoOrder of any other event
    NoOrder

VARIABLES
    stored,    \* rows of game_events
    purchases  \* the items that have a row in purchases

vars == <<stored, purchases>>

Ids(items) == {IdOf[e] : e \in items}
Orders(items) == {OrderOf[e] : e \in items} \ {NoOrder}

Init == stored = {} /\ purchases = {}

(* Store the new items of a batch, no two versions of one event, and give   *)
(* every order they name for the first time to exactly one of them.         *)
Store ==
    LET new == stored' \ stored
        paid == purchases' \ purchases
    IN  /\ stored \subseteq stored'
        /\ purchases \subseteq purchases'
        /\ Ids(new) \cap Ids(stored) = {}
        /\ \A e, f \in new : IdOf[e] = IdOf[f] => e = f
        /\ paid \subseteq new
        /\ Orders(paid) = Orders(new) \ Orders(purchases)
        /\ \A e, f \in paid : OrderOf[e] = OrderOf[f] => e = f

Spec == Init /\ [][Store]_vars
=============================================================================
