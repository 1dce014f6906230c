-------------------------- MODULE MCHookCallbacks --------------------------
(***************************************************************************)
(* A small instance of HookCallbacks: a permission card, which takes       *)
(* "allow", and a card the HUD can only leave to the client.               *)
(***************************************************************************)
EXTENDS HookCallbacks, TLC

MCTickets == {"c1", "c2"}
MCIds == {"hook1", "hook2"}
MCIdOf == ("c1" :> "hook1") @@ ("c2" :> "hook2")
MCTakes == ("c1" :> {"leave", "allow"}) @@ ("c2" :> {"leave"})
=============================================================================
