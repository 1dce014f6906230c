---------------------------- MODULE MCHookInbox ----------------------------
(* A small instance of HookInbox: two reports of a session's origin, which  *)
(* are kept for good, beside a notification, which expires; or three        *)
(* account reports, which run under the lock.                               *)
EXTENDS HookInbox, TLC

SessionReports == {"o1", "o2", "s1"}
AccountReports == {"a1", "a2", "a3"}
AllReports == SessionReports \cup AccountReports
MCKeyOf == [r \in Reports |-> CASE r \in AccountReports -> "account"
                                [] r = "s1" -> "attention"
                                [] OTHER -> "origin"]
MCRetention == [k \in Keys |-> IF k = "origin" THEN MaxTime + 1 ELSE 1]

\* Bound: the reports of a behaviour are all of sessions or all of an account.
Begun == {r \in Reports : proc[r] # "none"}
Apart == Begun \subseteq AccountReports \/ Begun \subseteq SessionReports

MCSpec == Init /\ [][Next /\ Apart']_vars /\ Fairness
=============================================================================
