----------------------------- MODULE MCProtocols -----------------------------
(* A small instance of Protocols.                                            *)
EXTENDS Protocols, TLC

Alike == Permutations(Names)

\* The two lines of a client are alike; the account, the log and the cards that
\* do not run begin in one way.
MCInit ==
    /\ Init
    /\ \E p \in Paths : file[p].line = "x"
    /\ who # "readings" => entry = Readings!NoEntry
    /\ who # "feed" => starts = {} /\ recent
    /\ who # "snapshots" => holdMs = 1

\* Bound: the third unit of time, in which words that nobody took are swept,
\* comes where one prompt at most was left.
SweptAlone == now = 3 => \E w \in Words : at[w] = 0

\* Bound: the screens, the windows or the menu bar fail, not two of them at once.
FailsAlone == \A f, g \in amiss : f = g

\* Bound: the host ends between two passes of its window worker, which does not
\* look whether it has ended during one.
EndsBetween == drawer.step \in {"off", "wait"} \/ mailbox'.stopped = mailbox.stopped

MCSpec == MCInit /\ [][Next /\ SweptAlone' /\ FailsAlone' /\ EndsBetween]_vars
=============================================================================
