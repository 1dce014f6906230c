---------------------------- MODULE MCLanServer ----------------------------
(* One phone and two connections, which take the first place that is free:  *)
(* they are interchangeable.                                                *)
EXTENDS LanServer

MCPhones == {"p"}
MCConns == 1..2

\* Bound: a connection is served in the first free place.
FirstFree ==
    \A c, d \in Conns :
        c < d /\ conn[c].step = "none" /\ conn[d].step = "none" => conn'[d].step = "none"

\* Bound: the listener breaks down only while nobody is served.
BreaksAlone == listener = "accepted" /\ listener' = "off" /\ ~stop' => Sockets = {}

MCSpec == Init /\ [][Next /\ FirstFree /\ BreaksAlone]_vars /\ Fairness
=============================================================================
