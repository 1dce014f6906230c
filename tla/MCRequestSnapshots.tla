------------------------- MODULE MCRequestSnapshots -------------------------
(* Two hook requests whose cards come and go.                              *)
EXTENDS RequestSnapshots, TLC

MCTickets == {"c1", "c2"}
MCIds == {"hook1", "hook2"}
MCIdOf == ("c1" :> "hook1") @@ ("c2" :> "hook2")
MCTakes == ("c1" :> {"leave"}) @@ ("c2" :> {"leave"})
=============================================================================
