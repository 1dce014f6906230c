----------------------------- MODULE HookPromise -----------------------------
(***************************************************************************)
(* What the permission channel promises of each request, whatever threads  *)
(* it takes: its card opens once and is decided once or given up; the      *)
(* client takes the decision or leaves with none, but leaves only once the *)
(* card is gone; and the HUD hears either that the answer was handed over  *)
(* or, only when the client has left without it, that it came too late.    *)
(***************************************************************************)
CONSTANTS Requests, Replies, Nothing

VARIABLES
    outcome,   \* of each request: "new", "open", Nothing (given up) or a reply
    taken,     \* by its client: "waiting", Nothing or a reply
    told       \* the HUD of its answer: "untold", "ok" or "stopped"

vars == <<outcome, taken, told>>

Init ==
    /\ outcome = [r \in Requests |-> "new"]
    /\ taken = [r \in Requests |-> "waiting"]
    /\ told = [r \in Requests |-> "untold"]

Open(r) ==
    /\ outcome[r] = "new"
    /\ outcome' = [outcome EXCEPT ![r] = "open"]
    /\ UNCHANGED <<taken, told>>

Decide(r, d) ==
    /\ outcome[r] = "open"
    /\ outcome' = [outcome EXCEPT ![r] = d]
    /\ UNCHANGED <<taken, told>>

\* One expiry gives up every request that is past its deadline.
GiveUp(rs) ==
    /\ rs # {} /\ \A r \in rs : outcome[r] = "open"
    /\ outcome' = [r \in Requests |-> IF r \in rs THEN Nothing ELSE outcome[r]]
    /\ UNCHANGED <<taken, told>>

Take(r) ==
    /\ taken[r] = "waiting"
    /\ outcome[r] \in Replies
    /\ told[r] # "stopped"
    /\ taken' = [taken EXCEPT ![r] = outcome[r]]
    /\ UNCHANGED <<outcome, told>>

\* The client leaves with no decision; its card goes with it.
Abandon(r) ==
    /\ taken[r] = "waiting"
    /\ outcome[r] # "new"
    /\ outcome' = [outcome EXCEPT ![r] = IF @ = "open" THEN Nothing ELSE @]
    /\ taken' = [taken EXCEPT ![r] = Nothing]
    /\ UNCHANGED told

Report(r, how) ==
    /\ told[r] = "untold"
    /\ outcome[r] \notin {"new", "open"}
    /\ how = "stopped" => taken[r] = Nothing
    /\ how = "ok" => taken[r] = "waiting"
    /\ told' = [told EXCEPT ![r] = how]
    /\ UNCHANGED <<outcome, taken>>

Next ==
    \/ \E rs \in SUBSET Requests : GiveUp(rs)
    \/ \E r \in Requests :
        \/ Open(r) \/ Take(r) \/ Abandon(r)
        \/ \E d \in Replies \cup {Nothing} : Decide(r, d)
        \/ \E how \in {"ok", "stopped"} : Report(r, how)

Spec == Init /\ [][Next]_vars
=============================================================================
