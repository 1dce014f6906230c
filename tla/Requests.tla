------------------------------ MODULE Requests ------------------------------
(***************************************************************************)
(* The one owner of requests that wait on the user                         *)
(* (crates/core/src/requests.rs and requests/answer.rs).  It is a mutex    *)
(* around a queue of pending cards; every operator below that changes its  *)
(* state is one critical section of that mutex.  What a call does outside  *)
(* the lock - telling a client, after the card is gone, what became of it  *)
(* - is a step of its own, because the threads of the clients run between. *)
(*                                                                         *)
(* A ticket is one registration: the sending half of its channel lives in  *)
(* the pending card, the receiving half with the client that waits.  A     *)
(* hook's card has an id of its own; a native ask keeps its id over every  *)
(* ticket registered for it.                                               *)
(*                                                                         *)
(* The engine is the one thread that answers, renders and changes          *)
(* settings: the host takes its Backend lock for every such call.          *)
(***************************************************************************)
EXTENDS Naturals

CONSTANTS Tickets,     \* every registration the model can make
          Ids,         \* request ids
          IdOf,        \* the request id of each ticket
          Native,      \* the tickets registered by native adapters
          Decisions,   \* the decisions the HUD can send
          Takes,       \* the decisions each ticket's card supports
          Holds,       \* the hold times the user can choose between
          MaxTime      \* bound: the model's clock stops here

Leave   == "leave"      \* the decision to answer in the client instead
Empty   == "empty"      \* nothing sent on a channel
Nothing == "none"       \* Option::None: no decision
NoId     == "no id"
NoTicket == "no ticket"

ASSUME RequestsAssumption ==
    /\ IdOf \in [Tickets -> Ids]
    /\ Native \subseteq Tickets
    /\ Leave \in Decisions
    /\ {Empty, Nothing} \cap Decisions = {}
    /\ Takes \in [Tickets -> SUBSET Decisions]
    /\ \A t \in Tickets : Leave \in Takes[t]
    /\ Holds # {} /\ Holds \subseteq Nat \ {0}
    /\ MaxTime \in Nat
    /\ NoTicket \notin Tickets /\ NoId \notin Ids

\* A hook's id is made from the owner's sequence, so no other ticket has it.
ASSUME FreshIds ==
    \A t \in Tickets \ Native : \A u \in Tickets : IdOf[u] = IdOf[t] => u = t

VARIABLES
    now,        \* the wall clock
    holdMs,     \* State::hold_ms
    pending,    \* State::pending: the tickets whose card is shown
    created,    \* Pending::created_ms of each pending ticket, else 0
    deadline,   \* Pending::deadline_ms of each pending ticket, else 0
    dismissed,  \* State::dismissed: native ids not to show again
    revised,    \* State::revision has moved since the last render's key
    sent,       \* what was sent on each ticket's channel
    told,       \* what the HUD was told of the answer to each ticket
    engine      \* the engine's call in progress

ownerVars == <<holdMs, pending, created, deadline, dismissed, revised>>
channelVars == <<sent, told>>
requestVars == <<now, ownerVars, channelVars, engine>>

Replies == Decisions \ {Leave}

Response(d) == IF d = Leave THEN Nothing ELSE d

Waiting(id) == {t \in pending : IdOf[t] = id}
Lapsed(at)  == {t \in pending : deadline[t] <= at}

Idle == [step |-> "idle", id |-> NoId, decision |-> Nothing, at |-> 0,
         unsent |-> {}, ticket |-> NoTicket]

EngineSteps == {"idle", "expire", "notify", "send"}

RequestsTypeOK ==
    /\ now \in 0..MaxTime
    /\ holdMs \in Holds
    /\ pending \subseteq Tickets
    /\ created \in [Tickets -> Nat]
    /\ deadline \in [Tickets -> Nat]
    /\ dismissed \subseteq {IdOf[t] : t \in Native}
    /\ revised \in BOOLEAN
    /\ sent \in [Tickets -> Replies \cup {Empty, Nothing}]
    /\ told \in [Tickets -> {"untold", "ok", "stopped"}]
    /\ engine \in [step : EngineSteps, id : Ids \cup {NoId},
                   decision : Decisions \cup {Nothing}, at : Nat,
                   unsent : SUBSET Tickets, ticket : Tickets \cup {NoTicket}]

RequestsInit ==
    /\ now = 0
    /\ holdMs \in Holds
    /\ pending = {}
    /\ created = [t \in Tickets |-> 0]
    /\ deadline = [t \in Tickets |-> 0]
    /\ dismissed = {}
    /\ revised = TRUE
    /\ sent = [t \in Tickets |-> Empty]
    /\ told = [t \in Tickets |-> "untold"]
    /\ engine = Idle

-----------------------------------------------------------------------------
(* Critical sections of the owner.                                         *)

\* push_back of a new card; register_native refuses an id that is dismissed
\* or already shown, which its caller checks with Showable in the same section.
Push(t) ==
    /\ pending' = pending \cup {t}
    /\ created' = [created EXCEPT ![t] = now]
    /\ deadline' = [deadline EXCEPT ![t] = now + holdMs]
    /\ revised' = TRUE
    /\ UNCHANGED <<holdMs, dismissed>>

\* Mutant: only an id whose card is shown is refused.
Showable_Dismissed(id) == Waiting(id) = {}

Showable(id) == id \notin dismissed /\ Waiting(id) = {}

\* Cards leave the queue, and with them the times they kept.
Drop(ts) ==
    /\ pending' = pending \ ts
    /\ created' = [t \in Tickets |-> IF t \in ts THEN 0 ELSE created[t]]
    /\ deadline' = [t \in Tickets |-> IF t \in ts THEN 0 ELSE deadline[t]]
    /\ revised' = (revised \/ ts # {})

\* Remove the card of an id, if it is still there, and tell its client that
\* no decision comes.  The send follows the unlock; the thread that waits
\* reads its channel only through the message, so the two are one step.
Cancel(id) ==
    /\ Drop(Waiting(id))
    /\ sent' = [t \in Tickets |-> IF t \in Waiting(id) THEN Nothing ELSE sent[t]]
    /\ UNCHANGED <<holdMs, dismissed, told>>

\* Every card past its deadline leaves; a native one is not to come back.
ExpireSection(at) ==
    /\ Drop(Lapsed(at))
    /\ dismissed' = dismissed \cup {IdOf[t] : t \in Lapsed(at) \cap Native}
    /\ UNCHANGED holdMs

\* A new hold time moves the deadline of every card already waiting.
SetHold(h) ==
    /\ h # holdMs
    /\ holdMs' = h
    /\ deadline' = [t \in Tickets |->
                        IF t \in pending THEN created[t] + h ELSE deadline[t]]
    /\ UNCHANGED <<now, pending, created, dismissed, revised, channelVars, engine>>

-----------------------------------------------------------------------------
(* The engine's calls: answer(id, decision, now) is expire, then the card   *)
(* taken from the queue under the lock, then the send.                      *)

BeginAnswer(id, d) ==
    /\ engine.step = "idle"
    /\ engine' = [Idle EXCEPT !.step = "expire", !.id = id, !.decision = d, !.at = now]
    /\ UNCHANGED <<now, ownerVars, channelVars>>

\* A render's expire(now): the same section, with nothing to answer after it.
BeginExpire ==
    /\ engine.step = "idle"
    /\ engine' = [Idle EXCEPT !.step = "expire", !.at = now]
    /\ UNCHANGED <<now, ownerVars, channelVars>>

EngineExpire ==
    /\ engine.step = "expire"
    /\ ExpireSection(engine.at)
    /\ engine' = [engine EXCEPT !.step = "notify", !.unsent = Lapsed(engine.at)]
    /\ UNCHANGED <<now, channelVars>>

EngineNotify(t) ==
    /\ engine.step = "notify"
    /\ t \in engine.unsent
    /\ sent' = [sent EXCEPT ![t] = Nothing]
    /\ engine' = [engine EXCEPT !.unsent = @ \ {t}]
    /\ UNCHANGED <<now, ownerVars, told>>

\* The expiry is over: a render's call is done with this owner, and an answer
\* ends here when its request no longer waits or does not support the decision.
EngineDone ==
    /\ engine.step = "notify" /\ engine.unsent = {}
    /\ \A t \in Waiting(engine.id) : engine.decision \notin Takes[t]
    /\ engine' = Idle
    /\ UNCHANGED <<now, ownerVars, channelVars>>

\* Mutant: the card is taken whatever decisions it supports.
EngineTake_Unsupported(t) ==
    /\ engine.step = "notify" /\ engine.unsent = {}
    /\ t \in Waiting(engine.id)
    /\ Drop({t})
    /\ dismissed' = IF t \in Native THEN dismissed \cup {engine.id} ELSE dismissed
    /\ engine' = [engine EXCEPT !.step = "send", !.ticket = t]
    /\ UNCHANGED <<now, holdMs, channelVars>>

EngineTake(t) ==
    /\ engine.step = "notify" /\ engine.unsent = {}
    /\ t \in Waiting(engine.id)
    /\ engine.decision \in Takes[t]
    /\ Drop({t})
    /\ dismissed' = IF t \in Native THEN dismissed \cup {engine.id} ELSE dismissed
    /\ engine' = [engine EXCEPT !.step = "send", !.ticket = t]
    /\ UNCHANGED <<now, holdMs, channelVars>>

\* Mutant: the failed send goes unnoticed.
EngineSend_AlwaysOk(listening) ==
    /\ engine.step = "send"
    /\ sent' = [sent EXCEPT ![engine.ticket] = Response(engine.decision)]
    /\ told' = [told EXCEPT ![engine.ticket] = "ok"]
    /\ engine' = Idle
    /\ UNCHANGED <<now, ownerVars>>

\* sender.send(response): an error once the receiving half is gone.
EngineSend(listening) ==
    /\ engine.step = "send"
    /\ sent' = [sent EXCEPT ![engine.ticket] = Response(engine.decision)]
    /\ told' = [told EXCEPT ![engine.ticket] = IF listening THEN "ok" ELSE "stopped"]
    /\ engine' = Idle
    /\ UNCHANGED <<now, ownerVars>>

Tick == /\ now < MaxTime
        /\ now' = now + 1
        /\ UNCHANGED <<ownerVars, channelVars, engine>>

-----------------------------------------------------------------------------
(* Properties of the owner that every composition checks.                  *)

\* Where the sending half of a ticket's channel is: in its pending card, with
\* the engine on its way to be told, or used up by a message.
Holders(t) ==
    {h \in {"card", "expiring", "answering", "used"} :
        \/ h = "card"      /\ t \in pending
        \/ h = "expiring"  /\ t \in engine.unsent
        \/ h = "answering" /\ engine.step = "send" /\ engine.ticket = t
        \/ h = "used"      /\ sent[t] # Empty}

\* A ticket's sender is in one place at a time, whatever expiry, cancellation
\* and answer run together: a request is answered or given up, never both
\* (expire, cancel and answer of core/src/requests.rs).
OneHolder == \A t \in Tickets : \A g, h \in Holders(t) : g = h

\* A native id that was answered or ran out is not shown again before its
\* source settles it, and no id has two cards (register_native).
OneCardPerId ==
    /\ \A t, u \in pending : IdOf[t] = IdOf[u] => t = u
    /\ \A t \in pending : IdOf[t] \notin dismissed

\* The hold time in force decides when each waiting card leaves, also for the
\* cards that waited when it was changed (set_hold_ms).
DeadlineFollowsHold == \A t \in pending : deadline[t] = created[t] + holdMs
=============================================================================
