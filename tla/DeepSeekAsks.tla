---------------------------- MODULE DeepSeekAsks ----------------------------
(***************************************************************************)
(* The asks of DeepSeek Harness sessions (crates/platform/src/             *)
(* deepseek_plugin/asks.rs) and the plugin in Harness they come from       *)
(* (agent-hud.mjs).  The two share a folder: the plugin writes one file    *)
(* per ask and polls for an answer beside it; the app's observer lists the *)
(* folder, shows new asks as native requests, settles the ones whose files *)
(* went and leaves the HUD's answers.  The client's own card races the     *)
(* HUD's, and the first answer wins.                                       *)
(*                                                                         *)
(* An observer has a worker thread, a thread per ticket that waits for the *)
(* HUD, and the caller's thread that drops it.  None of them is joined.    *)
(* One ask per session: a session is named by its ask.                     *)
(***************************************************************************)
EXTENDS Requests

CONSTANTS Observers,    \* the observers one app can start, in order
          By,           \* the observer each ticket is registered by
          Stops,        \* the observers the user may stop
          Webs          \* sessions of the other DeepSeek observer

\* What becomes of an ask in Harness but by the HUD's answer.
Fates == {"none", "open", "unseen", "hud only", "client", "failed", "lost"}

ASSUME AsksAssumption ==
    /\ Native = Tickets /\ Fates \cap Decisions = {}
    /\ Observers \subseteq Nat /\ Stops \subseteq Observers
    /\ By \in [Tickets -> Observers]
    /\ Webs \cap Ids = {}

VARIABLES
    outcome,   \* what became of each ask in Harness
    up,        \* the hosts that still check in, by ask
    file,      \* the asks whose file is in the folder
    answered,  \* asks/<id>.answer: the answer left for each ask
    app,       \* app.json is there
    observer,  \* the life of each observer
    known,     \* Shared::known of each observer
    worker,    \* its worker thread
    dropped,   \* what its Drop took from `known` and has yet to settle
    forget,    \* the ask whose dismissal a settle_native is yet to remove
    deliver,   \* the thread of each ticket
    receipt,   \* the newest delivery noted for each ask
    flagged,   \* State::native_waiting["deepseek"]
    web        \* the sessions that wait on the other observer's questions

harnessVars == <<outcome, up, file, answered>>
observerVars == <<app, observer, known, worker, dropped, forget>>
vars == <<requestVars, harnessVars, observerVars, deliver, receipt, flagged, web>>

\* Who is in the middle of a settle_native.
Settlers == {<<"worker", o>> : o \in Observers} \cup {<<"drop", o>> : o \in Observers}
                \cup {<<"deliver", t>> : t \in Tickets}

WorkerSteps == {"none", "checking", "beating", "listing", "scanning", "starting",
                "publishing", "ended"}
AtRest == [step |-> "none", todo |-> {}, present |-> {}, loaded |-> {}, sessions |-> {}]

Passes == [step : WorkerSteps, todo : SUBSET Ids, present : SUBSET Ids,
           loaded : SUBSET Ids, sessions : SUBSET Ids]

\* Harness and the folder, the observers, and the tickets' threads.
HarnessTypeOK ==
    /\ outcome \in [Ids -> Fates \cup Replies]
    /\ up \in [Ids -> BOOLEAN]
    /\ file \subseteq Ids
    /\ answered \in [Ids -> Replies \cup {Nothing}]

ObserverTypeOK ==
    /\ app \in BOOLEAN
    /\ observer \in [Observers -> {"off", "on", "dropping", "settling", "clearing", "gone"}]
    /\ known \in [Observers -> [Ids -> {"no", "shown", "hidden"}]]
    /\ worker \in [Observers -> Passes]
    /\ dropped \in [Observers -> SUBSET Ids]
    /\ forget \in [Settlers -> Ids \cup {NoId}]

DeliveryTypeOK ==
    /\ deliver \in [Tickets -> {"none", "started", "waiting", "checking", "writing",
                                "failing", "done"}]
    /\ receipt \in [Ids -> {"none", "confirmed", "failed"}]
    /\ flagged \subseteq Ids \cup Webs /\ web \subseteq Webs

TypeOK == RequestsTypeOK /\ HarnessTypeOK /\ ObserverTypeOK /\ DeliveryTypeOK

Init ==
    /\ RequestsInit
    /\ outcome = [a \in Ids |-> "none"]
    /\ up = [a \in Ids |-> TRUE]
    /\ file = {} /\ answered = [a \in Ids |-> Nothing]
    /\ app = FALSE /\ web = {}
    /\ observer = [o \in Observers |-> "off"]
    /\ known = [o \in Observers |-> [a \in Ids |-> "no"]]
    /\ worker = [o \in Observers |-> AtRest]
    /\ dropped = [o \in Observers |-> {}]
    /\ forget = [s \in Settlers |-> NoId]
    /\ deliver = [t \in Tickets |-> "none"]
    /\ receipt = [a \in Ids |-> "none"]
    /\ flagged = {}

-----------------------------------------------------------------------------
(* The plugin in Harness.  Its callbacks run to their end one at a time.   *)

Asking(a) == outcome[a] \in {"open", "unseen", "hud only"}

\* race(): the file is written before the client's own card is asked, which
\* a host without a window does not have.
Ask(a) ==
    /\ outcome[a] = "none"
    /\ \E card \in {"open", "unseen"} : outcome' = [outcome EXCEPT ![a] = card]
    /\ file' = file \cup {a}
    /\ UNCHANGED <<requestVars, up, answered, observerVars, deliver, receipt, flagged, web>>

\* Whoever is first, the ask's own file and an answer to it go.
Settled(a, how) ==
    /\ outcome' = [outcome EXCEPT ![a] = how]
    /\ file' = file \ {a}
    /\ answered' = [answered EXCEPT ![a] = Nothing]
    /\ UNCHANGED <<requestVars, up, observerVars, deliver, receipt, flagged, web>>

\* The client's card is answered, or the turn is cancelled.
ClientSettles(a) == outcome[a] = "open" /\ Settled(a, "client")

\* No card of its own: with the app there the HUD may still answer, without
\* it the request fails as it would have without the plugin.
NoProvider(a) ==
    /\ outcome[a] = "unseen"
    /\ IF app THEN /\ outcome' = [outcome EXCEPT ![a] = "hud only"]
                   /\ UNCHANGED <<requestVars, up, file, answered, observerVars,
                                  deliver, receipt, flagged, web>>
              ELSE Settled(a, "failed")

\* With no card of its own, a request fails too when its turn is cancelled or
\* the plugin stops.
TurnAborts(a) == outcome[a] \in {"unseen", "hud only"} /\ Settled(a, "failed")

PollAnswer(a) ==
    /\ Asking(a) /\ answered[a] # Nothing
    /\ Settled(a, answered[a])

\* The host's process dies: nobody removes what it wrote.
HostDies(a) ==
    /\ Asking(a)
    /\ up' = [up EXCEPT ![a] = FALSE]
    /\ outcome' = [outcome EXCEPT ![a] = "lost"]
    /\ UNCHANGED <<requestVars, file, answered, observerVars, deliver, receipt, flagged, web>>

-----------------------------------------------------------------------------
(* An observer: start, the worker's passes, and the drop.                  *)

\* Hooks::configure stops the last observer before it starts another.
Start(o) ==
    /\ observer[o] = "off"
    /\ \A p \in Observers : p < o => observer[p] = "gone"
    /\ observer' = [observer EXCEPT ![o] = "on"]
    /\ worker' = [worker EXCEPT ![o].step = "checking"]
    /\ UNCHANGED <<requestVars, harnessVars, app, known, dropped, forget,
                   deliver, receipt, flagged, web>>

CheckActive(o) ==
    /\ worker[o].step = "checking"
    /\ worker' = [worker EXCEPT ![o].step = IF observer[o] = "on" THEN "beating" ELSE "ended"]
    /\ UNCHANGED <<requestVars, harnessVars, app, observer, known, dropped, forget,
                   deliver, receipt, flagged, web>>

\* The heartbeat, when it is due; the sweep, when it is due, takes the files
\* a host that died left a day ago.
Beat(o, swept) ==
    /\ worker[o].step = "beating"
    /\ swept \subseteq {a \in Ids : ~up[a]}
    /\ app' \in {app, TRUE}
    /\ file' = file \ swept
    /\ answered' = [a \in Ids |-> IF a \in swept THEN Nothing ELSE answered[a]]
    /\ worker' = [worker EXCEPT ![o].step = "listing"]
    /\ UNCHANGED <<requestVars, outcome, up, observer, known, dropped, forget,
                   deliver, receipt, flagged, web>>

\* A pass locks `known` and lists the folder and who checks in.
List(o) ==
    /\ worker[o].step = "listing"
    /\ worker' = [worker EXCEPT ![o] =
           [@ EXCEPT !.step = "scanning", !.present = file,
                     !.todo = {a \in file : known[o][a] = "no"},
                     !.loaded = {a \in Ids : up[a]}]]
    /\ UNCHANGED <<requestVars, harnessVars, app, observer, known, dropped, forget,
                   deliver, receipt, flagged, web>>

Locked(o) == worker[o].step = "scanning"
LookedAt(o, a) == worker' = [worker EXCEPT ![o].todo = @ \ {a}]

Fresh(o, a) == {t \in Tickets : IdOf[t] = a /\ By[t] = o /\ deliver[t] = "none"}

\* A new ask of a session that checks in becomes a card, if its id may be
\* shown; either way the observer remembers it.  Bound: an observer has the
\* tickets of Fresh; the instances have as many as it can come to need.
ShowAsk(o, a) ==
    /\ Locked(o) /\ a \in worker[o].todo \cap file \cap worker[o].loaded
    /\ LookedAt(o, a)
    /\ IF Showable(a)
       THEN LET t == CHOOSE u \in Fresh(o, a) : TRUE
            IN  /\ Fresh(o, a) # {}
                /\ Push(t)
                /\ known' = [known EXCEPT ![o][a] = "shown"]
                /\ deliver' = [deliver EXCEPT ![t] = "started"]
       ELSE /\ known' = [known EXCEPT ![o][a] = "hidden"]
            /\ UNCHANGED <<ownerVars, deliver>>
    /\ UNCHANGED <<now, channelVars, engine, harnessVars, app, observer, dropped, forget,
                   receipt, flagged, web>>

\* The file went since it was listed, or its session does not check in: then
\* it is removed once it is older than the grace for a host just started.
PassOver(o, a) ==
    /\ Locked(o) /\ a \in worker[o].todo
    /\ a \notin file \cap worker[o].loaded
    /\ LookedAt(o, a)
    /\ file' \in {file, file \ {a}}
    /\ UNCHANGED <<requestVars, outcome, up, answered, app, observer, known, dropped, forget,
                   deliver, receipt, flagged, web>>

\* settle_native: cancel, then, under the lock again, the dismissal.
SettleNative(who, a) ==
    /\ forget[who] = NoId
    /\ Cancel(a)
    /\ forget' = [forget EXCEPT ![who] = a]

\* Mutant: the ask is settled, but the memory of its dismissal stays.
Forget_Kept(who) ==
    /\ forget[who] # NoId
    /\ forget' = [forget EXCEPT ![who] = NoId]
    /\ UNCHANGED <<requestVars, harnessVars, app, observer, known, worker, dropped,
                   deliver, receipt, flagged, web>>

Forget(who) ==
    /\ forget[who] # NoId
    /\ dismissed' = dismissed \ {forget[who]}
    /\ forget' = [forget EXCEPT ![who] = NoId]
    /\ UNCHANGED <<now, holdMs, pending, created, deadline, revised, channelVars, engine,
                   harnessVars, app, observer, known, worker, dropped, deliver, receipt,
                   flagged, web>>

Gone(o) == {a \in Ids : known[o][a] # "no" /\ a \notin worker[o].present}

\* An ask whose file went is settled; its card goes.
SettleGone(o, a) ==
    /\ Locked(o) /\ worker[o].todo = {} /\ a \in Gone(o)
    /\ forget[<<"worker", o>>] = NoId
    /\ known' = [known EXCEPT ![o][a] = "no"]
    /\ IF known[o][a] = "shown" THEN SettleNative(<<"worker", o>>, a)
                                ELSE UNCHANGED <<ownerVars, channelVars, forget>>
    /\ UNCHANGED <<now, engine, harnessVars, app, observer, worker, dropped,
                   deliver, receipt, flagged, web>>

\* `known` is unlocked, and every new card gets its thread.
StartThreads(o) ==
    /\ Locked(o) /\ worker[o].todo = {} /\ Gone(o) = {} /\ forget[<<"worker", o>>] = NoId
    /\ deliver' = [t \in Tickets |->
           IF By[t] = o /\ deliver[t] = "started" THEN "waiting" ELSE deliver[t]]
    /\ worker' = [worker EXCEPT ![o] =
           [AtRest EXCEPT !.step = "starting"]]
    /\ UNCHANGED <<requestVars, harnessVars, app, observer, known, dropped, forget,
                   receipt, flagged, web>>

\* publish: the sessions are read under one lock and set under another.
ReadSessions(o) ==
    /\ worker[o].step = "starting"
    /\ worker' = [worker EXCEPT ![o] = [@ EXCEPT !.step = "publishing",
           !.sessions = {a \in Ids : known[o][a] = "shown"}]]
    /\ UNCHANGED <<requestVars, harnessVars, app, observer, known, dropped, forget,
                   deliver, receipt, flagged, web>>

\* Mutant: a pass after which nothing waits has nothing to say.
SetWaiting_WhenAny(o) ==
    /\ worker[o].step = "publishing"
    /\ flagged' = IF worker[o].sessions = {} THEN flagged ELSE worker[o].sessions
    /\ worker' = [worker EXCEPT ![o] = [AtRest EXCEPT !.step = "checking"]]
    /\ UNCHANGED <<requestVars, harnessVars, app, observer, known, dropped, forget,
                   deliver, receipt, web>>

SetWaiting(o) ==
    /\ worker[o].step = "publishing"
    /\ flagged' = worker[o].sessions
    /\ worker' = [worker EXCEPT ![o] = [AtRest EXCEPT !.step = "checking"]]
    /\ UNCHANGED <<requestVars, harnessVars, app, observer, known, dropped, forget,
                   deliver, receipt, web>>

Stop(o) ==
    /\ o \in Stops /\ observer[o] = "on"
    /\ observer' = [observer EXCEPT ![o] = "dropping"]
    /\ UNCHANGED <<requestVars, harnessVars, app, known, worker, dropped, forget,
                   deliver, receipt, flagged, web>>

\* Drop waits for the lock of a pass, then takes what is known.
TakeKnown(o) ==
    /\ observer[o] = "dropping" /\ ~Locked(o)
    /\ observer' = [observer EXCEPT ![o] = "settling"]
    /\ dropped' = [dropped EXCEPT ![o] = {a \in Ids : known[o][a] = "shown"}]
    /\ known' = [known EXCEPT ![o] = [a \in Ids |-> "no"]]
    /\ UNCHANGED <<requestVars, harnessVars, app, worker, forget, deliver, receipt,
                   flagged, web>>

\* Mutant: what has been settled stays on the list.
SettleDropped_Again(o, a) ==
    /\ a \in dropped[o]
    /\ SettleNative(<<"drop", o>>, a)
    /\ UNCHANGED <<now, engine, harnessVars, app, observer, known, worker, dropped,
                   deliver, receipt, flagged, web>>

SettleDropped(o, a) ==
    /\ a \in dropped[o]
    /\ SettleNative(<<"drop", o>>, a)
    /\ dropped' = [dropped EXCEPT ![o] = @ \ {a}]
    /\ UNCHANGED <<now, engine, harnessVars, app, observer, known, worker,
                   deliver, receipt, flagged, web>>

ClearWaiting(o) ==
    /\ observer[o] = "settling" /\ dropped[o] = {} /\ forget[<<"drop", o>>] = NoId
    /\ observer' = [observer EXCEPT ![o] = "clearing"]
    /\ flagged' = {}
    /\ UNCHANGED <<requestVars, harnessVars, app, known, worker, dropped, forget,
                   deliver, receipt, web>>

RemoveApp(o) ==
    /\ observer[o] = "clearing"
    /\ observer' = [observer EXCEPT ![o] = "gone"]
    /\ app' = FALSE
    /\ UNCHANGED <<requestVars, harnessVars, known, worker, dropped, forget,
                   deliver, receipt, flagged, web>>

-----------------------------------------------------------------------------
(* The thread of one ticket.                                               *)

To(t, step) == deliver' = [deliver EXCEPT ![t] = step]
DeliverOnly == UNCHANGED <<requestVars, outcome, up, file, observerVars, flagged, web>>

\* The receiving half lives until the thread's loop has its decision.
Listening(t) == deliver[t] \in {"started", "waiting"}

StopDelivering(t) ==
    /\ deliver[t] \in {"waiting", "checking"}
    /\ observer[By[t]] # "on"
    /\ To(t, "done")
    /\ DeliverOnly /\ UNCHANGED <<answered, receipt>>

ReceiveDecision(t) ==
    /\ deliver[t] = "waiting" /\ sent[t] # Empty
    /\ To(t, IF sent[t] = Nothing THEN "done" ELSE "checking")
    /\ DeliverOnly /\ UNCHANGED <<answered, receipt>>

CheckStillActive(t) ==
    /\ deliver[t] = "checking" /\ observer[By[t]] = "on"
    /\ To(t, "writing")
    /\ DeliverOnly /\ UNCHANGED <<answered, receipt>>

LeaveAnswer(t) ==
    /\ deliver[t] = "writing"
    /\ answered' = [answered EXCEPT ![IdOf[t]] = sent[t]]
    /\ receipt' = [receipt EXCEPT ![IdOf[t]] = "confirmed"]
    /\ To(t, "done")
    /\ DeliverOnly

\* Mutant: an answer that cannot be left is not noted.
FailToLeave_Silent(t) ==
    /\ deliver[t] = "writing"
    /\ To(t, "failing")
    /\ DeliverOnly /\ UNCHANGED <<answered, receipt>>

\* The decision has no form in Harness, or the file cannot be written.
FailToLeave(t) ==
    /\ deliver[t] = "writing"
    /\ receipt' = [receipt EXCEPT ![IdOf[t]] = "failed"]
    /\ To(t, "failing")
    /\ DeliverOnly /\ UNCHANGED answered

SettleFailed(t) ==
    /\ deliver[t] = "failing"
    /\ SettleNative(<<"deliver", t>>, IdOf[t])
    /\ To(t, "done")
    /\ UNCHANGED <<now, engine, harnessVars, app, observer, known, worker, dropped,
                   receipt, flagged, web>>

-----------------------------------------------------------------------------
(* The other DeepSeek observer, which has the same source id: each of its  *)
(* publications replaces what is flagged (clients/deepseek/questions.rs).  *)

WebChanges(w) ==
    /\ web' \in {web \cup {w}, web \ {w}} \ {web}
    /\ UNCHANGED <<requestVars, harnessVars, observerVars, deliver, receipt, flagged>>

WebPublishes ==
    /\ Webs # {}
    /\ flagged' = web
    /\ UNCHANGED <<requestVars, harnessVars, observerVars, deliver, receipt, web>>

-----------------------------------------------------------------------------
HarnessStep(a) ==
    \/ Ask(a) \/ ClientSettles(a) \/ NoProvider(a) \/ TurnAborts(a)
    \/ PollAnswer(a) \/ HostDies(a)

WorkerStep(o) ==
    \/ CheckActive(o) \/ (\E swept \in SUBSET file : Beat(o, swept)) \/ List(o)
    \/ \E a \in Ids : ShowAsk(o, a) \/ PassOver(o, a) \/ SettleGone(o, a)
    \/ Forget(<<"worker", o>>) \/ StartThreads(o) \/ ReadSessions(o) \/ SetWaiting(o)

DropStep(o) ==
    \/ TakeKnown(o) \/ (\E a \in Ids : SettleDropped(o, a)) \/ Forget(<<"drop", o>>)
    \/ ClearWaiting(o) \/ RemoveApp(o)

DeliverStep(t) ==
    \/ StopDelivering(t) \/ ReceiveDecision(t) \/ CheckStillActive(t)
    \/ LeaveAnswer(t) \/ FailToLeave(t) \/ SettleFailed(t) \/ Forget(<<"deliver", t>>)

asksVars == <<harnessVars, observerVars, deliver, receipt, flagged, web>>

EngineStep ==
    /\ \/ EngineExpire
       \/ \E t \in Tickets : EngineNotify(t) \/ EngineTake(t)
       \/ EngineDone
       \/ engine.step = "send" /\ EngineSend(Listening(engine.ticket))
    /\ UNCHANGED asksVars

\* The hold time stays as it is here: HookCallbacks changes it.
UserStep ==
    /\ \/ \E id \in Ids, d \in Decisions : BeginAnswer(id, d)
       \/ BeginExpire
       \/ Tick
    /\ UNCHANGED asksVars

Next ==
    \/ \E a \in Ids : HarnessStep(a)
    \/ \E o \in Observers : Start(o) \/ WorkerStep(o) \/ Stop(o) \/ DropStep(o)
    \/ \E t \in Tickets : DeliverStep(t)
    \/ EngineStep \/ UserStep
    \/ (\E w \in Webs : WebChanges(w)) \/ WebPublishes

\* The observer's threads run.  Nothing is asked of Harness, which may end or
\* stop its plugin, and nobody has to answer, ask, stop or start anything.
Fairness ==
    /\ \A o \in Observers : WF_vars(WorkerStep(o)) /\ WF_vars(DropStep(o))
    /\ \A t \in Tickets : WF_vars(DeliverStep(t))
    /\ WF_vars(EngineStep)

Spec == Init /\ [][Next]_vars /\ Fairness

-----------------------------------------------------------------------------
(* Safety.                                                                 *)

\* Harness acts on the HUD's answer to an ask only if the user gave it on a
\* card of that ask, which supports it, and was told that it arrived.
HarnessTakesTheUsers ==
    \A a \in Ids : outcome[a] \in Replies =>
        \E t \in Tickets : /\ IdOf[t] = a /\ outcome[a] \in Takes[t]
                           /\ sent[t] = outcome[a] /\ told[t] = "ok"

\* While no observer is dropped, every card and every dismissal belongs to an
\* ask the observer knows it shows, or is about to be taken away by it: none
\* is left behind for its ask's id (known, register_native and settle_native).
CardsAreWatched ==
    /\ \A t \in pending : known[By[t]][IdOf[t]] = "shown"
    /\ \A a \in dismissed : \/ \E o \in Observers : known[o][a] = "shown"
                            \/ \E who \in Settlers : forget[who] = a

-----------------------------------------------------------------------------
(* Liveness.                                                               *)

\* An ask that Harness has settled leaves the HUD, whoever answered: its card,
\* the memory that it was dismissed, and its session's waiting flag.
SettledGoes ==
    \A a \in Ids : outcome[a] \in Replies \cup {"client", "failed"} ~>
        Waiting(a) = {} /\ a \notin dismissed /\ a \notin flagged

\* An answer the HUD was told had been taken is left for Harness or noted as
\* failed, unless its observer is stopped meanwhile.
AnswerIsLeft ==
    \A t \in Tickets : told[t] = "ok" /\ sent[t] \in Replies ~>
        receipt[IdOf[t]] # "none" \/ observer[By[t]] # "on"

\* Dropping an observer ends, also while its worker is in a pass.
DropEnds == \A o \in Observers : observer[o] = "dropping" ~> observer[o] = "gone"
=============================================================================
