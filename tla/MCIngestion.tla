---------------------------- MODULE MCIngestion ----------------------------
(***************************************************************************)
(* Ingestion on small instances.  a1 and a2 are two versions of one event  *)
(* with different orders, b is another event of a1's order, c is no        *)
(* purchase, x is invalid; game_events refuses u (a user_id beyond         *)
(* BIGINT), purchases refuses q (a quantity beyond INTEGER).               *)
(***************************************************************************)
EXTENDS Ingestion, TLC

CONSTANTS a1, a2, b, c, x, u, q

MCItem == {a1, a2, b, c, x, u, q}
MCIdOf == a1 :> "a" @@ a2 :> "a" @@ b :> "b" @@ c :> "c" @@ x :> "x"
           @@ u :> "u" @@ q :> "q"
MCOrderOf == a1 :> "o1" @@ a2 :> "o2" @@ b :> "o1" @@ c :> "none" @@ x :> "none"
              @@ u :> "none" @@ q :> "o2"
MCInvalid == {x}
MCUnstorable == {u}
MCUnderivable == {q}

(* Repeated ids in one batch, opposite insertion orders in two. *)
RivalBatches == {<<a1, c>>, <<c, b, a1>>, <<a2, x, a1>>, <<b, q>>}
ManyBatches == RivalBatches \cup {<<a1>>, <<b, a2>>, <<x, c, c>>, <<x>>, <<c, u>>}

Symmetry == Permutations(Request)
=============================================================================
