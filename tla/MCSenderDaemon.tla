--------------------------- MODULE MCSenderDaemon ---------------------------
(* Model checking of SenderDaemon on small instances. *)
EXTENDS SenderDaemon

MCSizes4 == <<1, 3, 1, 1>>
MCSizes3 == <<1, 2, 1>>
=============================================================================
