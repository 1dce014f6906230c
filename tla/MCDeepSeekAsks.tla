--------------------------- MODULE MCDeepSeekAsks ---------------------------
(* Small instances of DeepSeekAsks: one ask and one observer.  A ticket is  *)
(* enough for an observer that runs on; one that is dropped in the middle   *)
(* of a pass can come to register the ask once more.                        *)
EXTENDS DeepSeekAsks, TLC

OneTicket == {"t1"}
TwoTickets == {"t1", "t2"}
MCIdOf == [t \in Tickets |-> "a1"]
MCBy == [t \in Tickets |-> 1]
MCTakes == [t \in Tickets |-> {"leave", "allow"}]
=============================================================================
