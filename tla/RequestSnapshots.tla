-------------------------- MODULE RequestSnapshots --------------------------
(***************************************************************************)
(* How waiting cards reach the HUD: the core's render cache                *)
(* (crates/core/src/snapshot.rs) and the collector that asks it            *)
(* (crates/host/src/service/collector.rs, backend.rs).  A change of the    *)
(* request owner wakes the collector; its turn asks for a snapshot only if *)
(* something changed since the last one or that one fell due.  Hook        *)
(* threads register and cancel cards at any point of a render, since only  *)
(* the owner's own short sections exclude them.                            *)
(*                                                                         *)
(* The window's own calls (an answer, a new hold time) take the Backend    *)
(* lock a turn holds, so they come between turns.  The channel back to     *)
(* the client is HookCallbacks' subject: here an expiry and its sends are  *)
(* one step, and a hook thread is what it does to the owner.               *)
(***************************************************************************)
EXTENDS Requests, FiniteSetsExt

CONSTANT Safety        \* SAFETY_REFRESH_MS, not 0; Native is empty here

VARIABLES
    client,     \* what the thread of each hook has done to the owner
    requested,  \* the REQUEST bit of the collector's wake
    turn,       \* the step of the render in progress
    byUser,     \* the render answers the window, not the collector
    listed,     \* the cards the render in progress collected
    shown,      \* the cards of Backend::snapshot
    lastDue,    \* the due time kept with the last render's key
    dueAt,      \* when the collector next wakes for it
    changed     \* when each ticket's card last came or went

renderVars == <<turn, byUser, listed, shown, lastDue, dueAt>>
vars == <<requestVars, client, requested, renderVars, changed>>

TypeOK ==
    /\ RequestsTypeOK
    /\ client \in [Tickets -> {"absent", "pushed", "waiting", "removed", "left"}]
    /\ requested \in BOOLEAN
    /\ turn \in {"none", "checking", "expiring", "listing", "keying", "dating"}
    /\ byUser \in BOOLEAN
    /\ listed \subseteq Tickets /\ shown \subseteq Tickets
    /\ lastDue \in Nat /\ dueAt \in Nat
    /\ changed \in [Tickets -> Nat]

\* Nothing is shown yet and the collector's first pass is due at once.
Init ==
    /\ RequestsInit
    /\ client = [t \in Tickets |-> "absent"]
    /\ requested = FALSE
    /\ turn = "none" /\ byUser = FALSE
    /\ listed = {} /\ shown = {}
    /\ lastDue = 0 /\ dueAt = 0
    /\ changed = [t \in Tickets |-> 0]

\* History: the time at which cards came or went in a step.
NoteChanges ==
    changed' = [t \in Tickets |->
                   IF (t \in pending') # (t \in pending) THEN now ELSE changed[t]]

-----------------------------------------------------------------------------
(* Hook threads.  The waker is called after the owner's section.           *)

Register(t) ==
    /\ client[t] = "absent"
    /\ \A h \in Holds : now + h <= MaxTime
    /\ Push(t) /\ NoteChanges
    /\ client' = [client EXCEPT ![t] = "pushed"]
    /\ UNCHANGED <<now, channelVars, engine, requested, renderVars>>

\* The callback stops waiting: its card is removed, unless it already left.
CancelCard(t) ==
    /\ client[t] = "waiting"
    /\ Cancel(IdOf[t]) /\ NoteChanges
    /\ client' = [client EXCEPT ![t] = IF t \in pending THEN "removed" ELSE "left"]
    /\ UNCHANGED <<now, engine, requested, renderVars>>

Wake(t) ==
    /\ client[t] \in {"pushed", "removed"}
    /\ requested' = TRUE
    /\ client' = [client EXCEPT ![t] = IF @ = "pushed" THEN "waiting" ELSE "left"]
    /\ UNCHANGED <<requestVars, renderVars, changed>>

-----------------------------------------------------------------------------
(* The window's calls, between turns.                                      *)

\* An answer takes the card and wakes the collector; it renders nothing.
UserAnswers(t) ==
    /\ turn = "none"
    /\ t \in pending \cap shown /\ now < deadline[t]
    /\ Drop({t}) /\ NoteChanges
    /\ requested' = TRUE
    /\ sent' = [sent EXCEPT ![t] = Nothing]
    /\ UNCHANGED <<now, holdMs, dismissed, told, engine, client, renderVars>>

\* Mutant: the new hold time is not a change that wakes the collector.
UserSetsHold_Quiet(h) ==
    /\ turn = "none"
    /\ SetHold(h)
    /\ turn' = "expiring" /\ byUser' = TRUE
    /\ UNCHANGED <<client, requested, listed, shown, lastDue, dueAt, changed>>

\* A new hold time wakes the collector too, and the call renders a snapshot.
UserSetsHold(h) ==
    /\ turn = "none"
    /\ SetHold(h)
    /\ requested' = TRUE
    /\ turn' = "expiring" /\ byUser' = TRUE
    /\ UNCHANGED <<client, listed, shown, lastDue, dueAt, changed>>

-----------------------------------------------------------------------------
(* The collector's turn and the render.                                    *)

TurnDue == requested \/ dueAt <= now

\* The collector's Request turn; a Pass also takes the bit with the others and
\* asks for a snapshot in the same way.
StartTurn ==
    /\ turn = "none" /\ TurnDue
    /\ requested' = FALSE
    /\ turn' = "checking" /\ byUser' = FALSE
    /\ UNCHANGED <<requestVars, client, listed, shown, lastDue, dueAt, changed>>

\* render_if_changed with changesOnly answers "unchanged": the key is the last
\* render's and it is not due.
KeepSnapshot ==
    /\ turn = "checking"
    /\ ~revised /\ now < lastDue
    /\ turn' = "none"
    /\ dueAt' = lastDue
    /\ UNCHANGED <<requestVars, client, requested, byUser, listed, shown, lastDue, changed>>

RenderAgain ==
    /\ turn = "checking"
    /\ revised \/ now >= lastDue
    /\ turn' = "expiring"
    /\ UNCHANGED <<requestVars, client, requested, byUser, listed, shown, lastDue, dueAt, changed>>

\* expire(now), which wakes the collector when a card left.
Expire ==
    /\ ExpireSection(now) /\ NoteChanges
    /\ sent' = [t \in Tickets |-> IF t \in Lapsed(now) THEN Nothing ELSE sent[t]]
    /\ requested' = (requested \/ Lapsed(now) # {})
    /\ UNCHANGED <<now, told, engine, client>>

RenderExpire ==
    /\ turn = "expiring"
    /\ Expire
    /\ turn' = "listing"
    /\ UNCHANGED <<byUser, listed, shown, lastDue, dueAt>>

\* views(now) expires again and lists what waits.
RenderList ==
    /\ turn = "listing"
    /\ Expire
    /\ listed' = pending'
    /\ turn' = "keying"
    /\ UNCHANGED <<byUser, shown, lastDue, dueAt>>

\* render_key() reads the owner's revision, after the rows it stands for.
RenderKey ==
    /\ turn = "keying"
    /\ revised' = FALSE
    /\ turn' = "dating"
    /\ UNCHANGED <<now, holdMs, pending, created, deadline, dismissed, channelVars,
                   engine, client, requested, byUser, listed, shown, lastDue, dueAt, changed>>

\* Mutant: with a card waiting, only the deadlines count.
NextDue_Deadlines ==
    LET ahead == {d \in {deadline[t] : t \in pending} : d > now}
    IN  IF ahead = {} THEN now + Safety ELSE Min(ahead)

\* render_due: the next deadline or the safety refresh, whichever is first.
NextDue == Min({now + Safety} \cup {d \in {deadline[t] : t \in pending} : d > now})

RenderDue ==
    /\ turn = "dating"
    /\ lastDue' = NextDue
    /\ dueAt' = IF byUser THEN dueAt ELSE NextDue
    /\ shown' = listed /\ listed' = {}
    /\ turn' = "none"
    /\ UNCHANGED <<requestVars, client, requested, byUser, changed>>

\* The collector's turns and the waking of it take no time: a turn that is due
\* runs before the clock moves on.
Settled ==
    /\ turn = "none" /\ ~TurnDue
    /\ \A t \in Tickets : client[t] \notin {"pushed", "removed"}

TimePasses ==
    /\ Settled
    /\ Tick
    /\ UNCHANGED <<client, requested, renderVars, changed>>

Next ==
    \/ \E t \in Tickets : Register(t) \/ CancelCard(t) \/ Wake(t) \/ UserAnswers(t)
    \/ \E h \in Holds : UserSetsHold(h)
    \/ StartTurn \/ KeepSnapshot \/ RenderAgain
    \/ RenderExpire \/ RenderList \/ RenderKey \/ RenderDue
    \/ TimePasses

Spec == Init /\ [][Next]_vars

-----------------------------------------------------------------------------
\* A card that came or went during a render, and that its snapshot missed, is
\* put right within the safety refresh (render_due's first entry).
MissedAtMostSafety ==
    Settled => \A t \in Tickets :
        (t \in shown) # (t \in pending) => now < changed[t] + Safety

\* No card waits past its deadline once the collector has nothing to do, also
\* when the hold time was shortened while it waited (render_due's requests
\* entry, and the wake of set_hold_ms).
ExpiresOnTime == Settled => \A t \in pending : now < deadline[t]

\* snapshot.rs:120-121 says of render_if_changed: "with `changesOnly` and
\* nothing changed since the last one before its deadline, unchanged".
UnchangedMeansUnchanged ==
    [][KeepSnapshot => shown = pending]_vars
=============================================================================
