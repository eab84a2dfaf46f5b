------------------------------ MODULE MCMetrics ------------------------------
(***************************************************************************)
(* Metrics on a small instance: u logs in on two days and buys on the      *)
(* first, v logs in on the second but buys on the first.                   *)
(***************************************************************************)
EXTENDS Metrics, TLC

CONSTANTS a1, a2, b2, p1, r1

MCItem == {a1, a2, b2, p1, r1}
MCUserOf == a1 :> "u" @@ a2 :> "u" @@ b2 :> "v" @@ p1 :> "u" @@ r1 :> "v"
MCDayOf == a1 :> 1 @@ a2 :> 2 @@ b2 :> 2 @@ p1 :> 1 @@ r1 :> 1
MCTypeOf == [x \in MCItem |-> IF x \in {a1, a2, b2} THEN "session_login" ELSE "shop_purchase"]
MCAmountOf == a1 :> 0 @@ a2 :> 0 @@ b2 :> 0 @@ p1 :> 3 @@ r1 :> 2
MCCurrencyOf == [x \in MCItem |-> IF x \in {p1, r1} THEN "KRW" ELSE "none"]
MCOrderOf == a1 :> "none" @@ a2 :> "none" @@ b2 :> "none" @@ p1 :> "o" @@ r1 :> "o2"
MCIdOf == [x \in MCItem |-> x]

AllTypes == <<"session_login", "shop_purchase">>

Ask(kind, start, end, page, size) ==
    [kind |-> kind, start |-> start, end |-> end, currency |-> "KRW", types |-> AllTypes,
     page |-> page, size |-> size]

(* Every kind over one and two days, pages within and beyond the rows, and  *)
(* one request for each reason to refuse.                                   *)
ManyQueries ==
    {Ask(k, 1, 2, 1, 31) : k \in Kinds \ {"engagement"}}
    \cup {Ask("engagement", 1, 2, 2, 3), Ask("retention", 2, 2, 2, 1)}
    \cup {Ask("dau", 2, 1, 1, 1), Ask("dau", 1, 4, 1, 1), Ask("dau", 1, 99, 1, 1)}
    \cup {[Ask("revenue", 1, 1, 1, 1) EXCEPT !.currency = "won"],
          [Ask("engagement", 1, 1, 1, 1) EXCEPT !.types = <<"nonsense">>]}

RetentionQueries == {Ask("retention", 1, 2, 1, 31)}
=============================================================================
