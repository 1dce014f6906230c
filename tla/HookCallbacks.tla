--------------------------- MODULE HookCallbacks ---------------------------
(***************************************************************************)
(* The callback channel of a client's permission hooks                     *)
(* (crates/platform/src/hooks/unix/mod.rs and hooks/callback.rs).  The     *)
(* client's command-line process connects, sends its request and reads     *)
(* until the server closes the connection.  One thread serves each         *)
(* connection: it registers the request with the owner and polls its       *)
(* channel, the connection and the deadline until there is an answer or    *)
(* a reason to stop.  The engine answers and expires meanwhile.            *)
(*                                                                         *)
(* Every ticket is a hook's: one connection makes one request.             *)
(***************************************************************************)
EXTENDS Requests, FiniteSets

CONSTANT ActiveLimit    \* connections served at a time (64 in the code)

ASSUME HooksAssumption ==
    /\ Native = {}
    /\ ActiveLimit \in Nat \ {0}
    /\ {"absent", "waiting", "gone", "new", "open"} \cap Decisions = {}

VARIABLES
    server,   \* "up" while `running`, "stopping" until the workers joined
    pc,       \* where the thread of each connection is
    got,      \* the response wait_for_answer returns
    cli       \* what the client's process knows of its request

hookVars == <<server, pc, got, cli>>
vars == <<requestVars, hookVars>>

Conns == Tickets

ThreadSteps == {"absent", "reading", "registering", "polling", "receiving",
                "timed out", "cancelling", "replying", "finished"}

TypeOK ==
    /\ RequestsTypeOK
    /\ server \in {"up", "stopping", "down"}
    /\ pc \in [Conns -> ThreadSteps]
    /\ got \in [Conns -> Replies \cup {Nothing}]
    /\ cli \in [Conns -> {"absent", "waiting", "gone", Nothing} \cup Replies]

Init ==
    /\ RequestsInit
    /\ server = "down"
    /\ pc = [c \in Conns |-> "absent"]
    /\ got = [c \in Conns |-> Nothing]
    /\ cli = [c \in Conns |-> "absent"]

Unserved == {"absent", "finished"}
Active == {c \in Conns : pc[c] \notin Unserved}

\* The receiving half of a ticket lives as long as wait_for_answer runs.
Listening(t) == pc[t] \in {"polling", "receiving", "timed out", "cancelling"}

\* The end of a connection the client still waits on gives it no decision.
Closed(c) == IF cli[c] = "waiting" THEN [cli EXCEPT ![c] = Nothing] ELSE cli

-----------------------------------------------------------------------------
(* The server.                                                             *)

StartServer ==
    /\ server = "down"
    /\ server' = "up"
    /\ UNCHANGED <<requestVars, pc, got, cli>>

\* Drop: running becomes false and the accept loop is woken.
StopServer ==
    /\ server = "up"
    /\ server' = "stopping"
    /\ UNCHANGED <<requestVars, pc, got, cli>>

\* The accept loop has joined every worker.
Joined ==
    /\ server = "stopping"
    /\ Active = {}
    /\ server' = "down"
    /\ UNCHANGED <<requestVars, pc, got, cli>>

Accept(c) ==
    /\ server = "up"
    /\ pc[c] = "absent"
    /\ Cardinality(Active) < ActiveLimit
    /\ pc' = [pc EXCEPT ![c] = "reading"]
    /\ cli' = [cli EXCEPT ![c] = "waiting"]
    /\ UNCHANGED <<requestVars, server, got>>

\* One connection too many is closed at once.
TurnAway(c) ==
    /\ server = "up"
    /\ pc[c] = "absent"
    /\ Cardinality(Active) >= ActiveLimit
    /\ pc' = [pc EXCEPT ![c] = "finished"]
    /\ cli' = [cli EXCEPT ![c] = Nothing]
    /\ UNCHANGED <<requestVars, server, got>>

-----------------------------------------------------------------------------
(* The thread of one connection.                                           *)

\* A whole frame arrived in time and the server still runs.
ReadFrame(c) ==
    /\ pc[c] = "reading"
    /\ server = "up"
    /\ pc' = [pc EXCEPT ![c] = "registering"]
    /\ UNCHANGED <<requestVars, server, got, cli>>

\* Mutant: a connection that sends nothing is read for ever.
Decline_NoTimeLimit(c) ==
    /\ pc[c] = "registering"
    /\ pc' = [pc EXCEPT ![c] = "finished"]
    /\ cli' = Closed(c)
    /\ UNCHANGED <<requestVars, server, got>>

\* No frame within two seconds, not JSON, the server stopping, or a request
\* whose reviewer is not the user: the connection closes with no answer.
Decline(c) ==
    /\ pc[c] \in {"reading", "registering"}
    /\ pc' = [pc EXCEPT ![c] = "finished"]
    /\ cli' = Closed(c)
    /\ UNCHANGED <<requestVars, server, got>>

\* Bound: no request is made so late that its deadline lies past MaxTime.
Register(c) ==
    /\ pc[c] = "registering"
    /\ \A h \in Holds : now + h <= MaxTime
    /\ Push(c)
    /\ pc' = [pc EXCEPT ![c] = "polling"]
    /\ UNCHANGED <<now, channelVars, engine, server, got, cli>>

KeepWaiting(c) ==
    /\ pc[c] = "polling"
    /\ pc' = [pc EXCEPT ![c] = IF server = "up" /\ cli[c] = "waiting"
                                THEN "receiving" ELSE "cancelling"]
    /\ UNCHANGED <<requestVars, server, got, cli>>

\* recv_timeout returned a message.  It never sees the channel disconnected:
\* whoever takes the sending half sends before it drops it.
Receive(c) ==
    /\ pc[c] = "receiving"
    /\ sent[c] # Empty
    /\ got' = [got EXCEPT ![c] = sent[c]]
    /\ pc' = [pc EXCEPT ![c] = "cancelling"]
    /\ UNCHANGED <<requestVars, server, cli>>

TimeOut(c) ==
    /\ pc[c] = "receiving"
    /\ sent[c] = Empty
    /\ pc' = [pc EXCEPT ![c] = "timed out"]
    /\ UNCHANGED <<requestVars, server, got, cli>>

\* Mutant: the thread leaves the deadline to the engine's expiry.
CheckDeadline_OnlyCard(c) ==
    /\ pc[c] = "timed out"
    /\ pc' = [pc EXCEPT ![c] = IF c \notin pending THEN "cancelling" ELSE "polling"]
    /\ UNCHANGED <<requestVars, server, got, cli>>

CheckDeadline(c) ==
    /\ pc[c] = "timed out"
    /\ pc' = [pc EXCEPT ![c] = IF c \notin pending \/ now >= deadline[c]
                                THEN "cancelling" ELSE "polling"]
    /\ UNCHANGED <<requestVars, server, got, cli>>

\* Mutant: the loop returns without cancelling its card.
CancelCard_Returns(c) ==
    /\ pc[c] = "cancelling"
    /\ pc' = [pc EXCEPT ![c] = "replying"]
    /\ UNCHANGED <<requestVars, server, got, cli>>

CancelCard(c) ==
    /\ pc[c] = "cancelling"
    /\ Cancel(IdOf[c])
    /\ pc' = [pc EXCEPT ![c] = "replying"]
    /\ UNCHANGED <<now, engine, server, got, cli>>

\* The response is written if there is one, and the connection closes.
Reply(c) ==
    /\ pc[c] = "replying"
    /\ pc' = [pc EXCEPT ![c] = "finished"]
    /\ cli' = IF cli[c] = "waiting" THEN [cli EXCEPT ![c] = got[c]] ELSE cli
    /\ UNCHANGED <<requestVars, server, got>>

\* The client's process ends, or its transcript shows the request settled.
ClientLeaves(c) ==
    /\ cli[c] = "waiting"
    /\ cli' = [cli EXCEPT ![c] = "gone"]
    /\ UNCHANGED <<requestVars, server, pc, got>>

ThreadStep(c) ==
    \/ ReadFrame(c) \/ Decline(c) \/ Register(c) \/ KeepWaiting(c) \/ Receive(c)
    \/ TimeOut(c) \/ CheckDeadline(c) \/ CancelCard(c) \/ Reply(c)

EngineStep ==
    /\ \/ EngineExpire
       \/ \E t \in Tickets : EngineNotify(t) \/ EngineTake(t)
       \/ EngineDone
       \/ engine.step = "send" /\ EngineSend(Listening(engine.ticket))
    /\ UNCHANGED hookVars

UserStep ==
    /\ \/ \E id \in Ids, d \in Decisions : BeginAnswer(id, d)
       \/ \E h \in Holds : SetHold(h)
       \/ BeginExpire
       \/ Tick
    /\ UNCHANGED hookVars

ServerStep == StartServer \/ StopServer \/ Joined

ClientStep(c) == Accept(c) \/ TurnAway(c) \/ ClientLeaves(c)

Next ==
    \/ ServerStep
    \/ EngineStep
    \/ UserStep
    \/ \E c \in Conns : ThreadStep(c) \/ ClientStep(c)

\* Threads run and time passes; nobody has to answer, call or stop anything.
Fairness ==
    /\ WF_vars(Tick /\ UNCHANGED hookVars)
    /\ WF_vars(EngineStep)
    /\ WF_vars(Joined)
    /\ \A c \in Conns : WF_vars(ThreadStep(c))

Spec == Init /\ [][Next]_vars /\ Fairness

-----------------------------------------------------------------------------
(* Safety.                                                                 *)

\* A card goes with the connection behind it: none is left for the user to
\* answer once its thread has stopped waiting, and none when the server has
\* joined its threads (wait_for_answer always cancels; Drop of Server joins).
NoOrphanCard ==
    /\ \A c \in pending : Listening(c)
    /\ server = "down" => pending = {}

\* A client acts on a decision only if the user made it on that request's
\* card, its card supports it, and the HUD was not told the answer came too
\* late.
OnlyTheUsersAnswer ==
    \A c \in Conns : cli[c] \in Decisions =>
        /\ cli[c] = sent[c]
        /\ cli[c] \in Takes[c] \ {Leave}
        /\ told[c] = "ok"

\* The owner's answer to the HUD is final: what was sent on a ticket never
\* changes, nor what the HUD was told of it, nor what the client got.
AnswersAreFinal ==
    [][\A c \in Conns :
        /\ sent[c] # Empty => sent'[c] = sent[c]
        /\ told[c] # "untold" => told'[c] = told[c]
        /\ cli[c] \in Decisions \cup {Nothing} => cli'[c] = cli[c]]_vars

-----------------------------------------------------------------------------
(* Liveness.                                                               *)

\* No client waits for ever: its connection closes at the latest when the
\* hold time is over, whatever the user does with the setting meanwhile.
EveryClientIsReleased ==
    \A c \in Conns : cli[c] = "waiting" ~> cli[c] # "waiting"

\* A stopped server joins its workers, so Drop returns.
StopEnds == server = "stopping" ~> server = "down"

(* What a callback promises the HUD and the client (HookPromise).          *)
outcome == [c \in Conns |->
    IF c \in pending THEN "open"
    ELSE IF engine.step = "send" /\ engine.ticket = c
         THEN Response(engine.decision)
    ELSE IF c \in engine.unsent THEN Nothing
    ELSE IF sent[c] # Empty THEN sent[c] ELSE "new"]
taken == [c \in Conns |->
    IF pc[c] \in {"replying", "finished"} /\ outcome[c] # "new"
    THEN got[c] ELSE "waiting"]
Promise == INSTANCE HookPromise WITH Requests <- Conns

\* Every callback, whatever the order its thread, the engine, the clock and the
\* server run in, keeps that promise.
PromiseSpec == Promise!Spec
=============================================================================
