----------------------------- MODULE HookInbox -----------------------------
(***************************************************************************)
(* The inbox of hook events (crates/platform/src/hooks/inbox).  A client's *)
(* hook runs as a process of its own and records what it reports in a      *)
(* folder, one file per session and kind, whether the app runs or not.  The *)
(* app watches the folder; each drain reads the files that changed, and    *)
(* the newest report of each kind becomes the session's evidence           *)
(* (crates/core/src/hook_events.rs).                                       *)
(*                                                                         *)
(* A report is one call of record_event.  Its key is the file it belongs   *)
(* to.  What a record carries over from the one it replaces (a first       *)
(* surface, a title) is left out: no property here reads it.               *)
(***************************************************************************)
EXTENDS Naturals

CONSTANTS Reports,      \* everything hooks will ever report
          Keys,         \* (source, session, kind)
          KeyOf,        \* the key of each report
          Locked,       \* the keys of kind "account"
          Retention,    \* how long a record of each key is kept
          MaxTime       \* bound: the model's clock stops here

NoReport == "no report"
NoKey == "no key"
Unread == "unread"

ASSUME InboxAssumption ==
    /\ KeyOf \in [Reports -> Keys]
    /\ Locked \subseteq Keys
    /\ Retention \in [Keys -> Nat \ {0}]
    /\ MaxTime \in Nat
    /\ {NoReport, Unread} \cap Reports = {} /\ NoKey \notin Keys

VARIABLES
    now,
    at,         \* HookEvent::at_ms of each report that has begun
    proc,       \* where the record_event of each report is
    lock,       \* who holds .accounts.lock
    inbox,      \* the report in each key's file
    app,        \* the app runs and watches the folder
    notices,    \* changes the system has yet to tell the watcher
    rescan,     \* it has yet to tell that paths were lost
    full,       \* Inbox::pending is None: list the whole folder
    pending,    \* Inbox::pending otherwise
    seen,       \* Inbox::seen: what was last read from each file, with
                \* NoReport for no entry; Unread if there is none because what
                \* is in the file could not be read (a history)
    drain,      \* the drain in progress
    evidence    \* HookEvidence's slot for each key

hookVars == <<at, proc, lock>>
watchVars == <<notices, rescan, full, pending>>
readVars == <<seen, drain, evidence>>
vars == <<now, hookVars, inbox, app, watchVars, readVars>>

ProcSteps == {"none", "begun", "checked", "writing", "failed", "done"}
NoDrain == [step |-> "idle", todo |-> {}, expired |-> NoKey, at |-> 0, taken |-> {}]

TypeOK ==
    /\ now \in 0..MaxTime
    /\ at \in [Reports -> Nat]
    /\ proc \in [Reports -> ProcSteps]
    /\ lock \in {r \in Reports : KeyOf[r] \in Locked /\ proc[r] = "writing"} \cup {NoReport}
    /\ inbox \in [Keys -> Reports \cup {NoReport}]
    /\ app \in BOOLEAN /\ rescan \in BOOLEAN /\ full \in BOOLEAN
    /\ notices \subseteq Keys /\ pending \subseteq Keys
    /\ seen \in [Keys -> Reports \cup {NoReport, Unread}]
    /\ drain \in [step : {"idle", "listing", "reading"}, todo : SUBSET Keys,
                  expired : Keys \cup {NoKey}, at : 0..MaxTime, taken : SUBSET Reports]
    /\ evidence \in [Keys -> Reports \cup {NoReport}]

Init ==
    /\ now = 0
    /\ at = [r \in Reports |-> 0]
    /\ proc = [r \in Reports |-> "none"]
    /\ lock = NoReport
    /\ inbox = [k \in Keys |-> NoReport]
    /\ app = FALSE
    /\ notices = {} /\ rescan = FALSE /\ full = FALSE /\ pending = {}
    /\ seen = [k \in Keys |-> NoReport]
    /\ drain = NoDrain
    /\ evidence = [k \in Keys |-> NoReport]

Valid(r, time) == time < at[r] + Retention[KeyOf[r]]

-----------------------------------------------------------------------------
(* record_event, run by the hook's process.                                *)

Begin(r) ==
    /\ proc[r] = "none"
    /\ at' = [at EXCEPT ![r] = now]
    /\ proc' = [proc EXCEPT ![r] = "begun"]
    /\ UNCHANGED <<now, lock, inbox, app, watchVars, readVars>>

\* An event that has expired meanwhile is refused.
CheckValid(r) ==
    /\ proc[r] = "begun"
    /\ proc' = [proc EXCEPT ![r] = IF Valid(r, now) THEN "checked" ELSE "done"]
    /\ UNCHANGED <<now, at, lock, inbox, app, watchVars, readVars>>

Newer(k, r) == inbox[k] # NoReport /\ at[inbox[k]] > at[r]

\* Mutant: account callbacks take no lock either.
ReadOld_NoLock(r) ==
    /\ proc[r] = "checked"
    /\ proc' = [proc EXCEPT ![r] = IF Newer(KeyOf[r], r) THEN "done" ELSE "writing"]
    /\ UNCHANGED <<now, at, lock, inbox, app, watchVars, readVars>>

\* An account callback first waits for the lock, which it keeps while it
\* has something to write.  What is in the file decides whether it has.
ReadOld(r) ==
    /\ proc[r] = "checked"
    /\ KeyOf[r] \in Locked => lock = NoReport
    /\ IF Newer(KeyOf[r], r)
       THEN /\ proc' = [proc EXCEPT ![r] = "done"]
            /\ UNCHANGED lock
       ELSE /\ proc' = [proc EXCEPT ![r] = "writing"]
            /\ lock' = IF KeyOf[r] \in Locked THEN r ELSE lock
    /\ UNCHANGED <<now, at, inbox, app, watchVars, readVars>>

Released(r) == IF lock = r THEN NoReport ELSE lock

\* The watcher will be told of the file, or only that something changed.
Changed(k) ==
    \/ notices' = (IF app THEN notices \cup {k} ELSE notices) /\ UNCHANGED rescan
    \/ app /\ rescan' = TRUE /\ UNCHANGED notices

\* The whole record is written aside and renamed over the old one.
Rename(r) ==
    /\ proc[r] = "writing"
    /\ inbox' = [inbox EXCEPT ![KeyOf[r]] = r]
    /\ Changed(KeyOf[r])
    /\ proc' = [proc EXCEPT ![r] = "done"]
    /\ lock' = Released(r)
    /\ seen' = [seen EXCEPT ![KeyOf[r]] = IF @ = Unread THEN NoReport ELSE @]
    /\ UNCHANGED <<now, at, app, full, pending, drain, evidence>>

\* In a sandbox, say, the folder is read-only.
FailToWrite(r) ==
    /\ proc[r] = "writing"
    /\ proc' = [proc EXCEPT ![r] = "failed"]
    /\ lock' = Released(r)
    /\ UNCHANGED <<now, at, inbox, app, watchVars, readVars>>

\* The event is handed to the app, which records it in the same way; an
\* account event is not among those it takes (handed_event).
HandOver(r) ==
    /\ proc[r] = "failed"
    /\ app /\ KeyOf[r] \notin Locked
    /\ proc' = [proc EXCEPT ![r] = "begun"]
    /\ UNCHANGED <<now, at, lock, inbox, app, watchVars, readVars>>

\* The process is killed: the system gives its lock back.
Die(r) ==
    /\ proc[r] \notin {"none", "done"}
    /\ proc' = [proc EXCEPT ![r] = "done"]
    /\ lock' = Released(r)
    /\ UNCHANGED <<now, at, inbox, app, watchVars, readVars>>

-----------------------------------------------------------------------------
(* The app: its watcher, and the drain of a collection turn.               *)

\* Inbox::new watches before the first drain lists what is there.
Open ==
    /\ ~app
    /\ app' = TRUE
    /\ full' = TRUE
    /\ UNCHANGED <<now, hookVars, inbox, notices, rescan, pending, readVars>>

Close ==
    /\ app
    /\ app' = FALSE
    /\ notices' = {} /\ rescan' = FALSE /\ full' = FALSE /\ pending' = {}
    /\ seen' = [k \in Keys |-> NoReport]
    /\ drain' = NoDrain
    /\ evidence' = [k \in Keys |-> NoReport]
    /\ UNCHANGED <<now, hookVars, inbox>>

Notice(k) ==
    /\ k \in notices
    /\ notices' = notices \ {k}
    /\ pending' = IF full THEN pending ELSE pending \cup {k}
    /\ UNCHANGED <<now, hookVars, inbox, app, rescan, full, readVars>>

Rescan ==
    /\ rescan
    /\ rescan' = FALSE
    /\ full' = TRUE /\ pending' = {}
    /\ UNCHANGED <<now, hookVars, inbox, app, notices, readVars>>

BeginDrain ==
    /\ app /\ drain.step = "idle"
    /\ full \/ pending # {}
    /\ drain' = [NoDrain EXCEPT !.step = IF full THEN "listing" ELSE "reading",
                                !.todo = pending, !.at = now]
    /\ full' = FALSE /\ pending' = {}
    /\ UNCHANGED <<now, hookVars, inbox, app, notices, rescan, seen, evidence>>

ListFolder ==
    /\ drain.step = "listing"
    /\ LET listed == {k \in Keys : inbox[k] # NoReport}
       IN  /\ drain' = [drain EXCEPT !.step = "reading", !.todo = listed]
           /\ seen' = [k \in Keys |-> IF k \in listed THEN seen[k] ELSE NoReport]
    /\ UNCHANGED <<now, hookVars, inbox, app, watchVars, evidence>>

\* Mutant: a folder that cannot be listed is taken for a quiet one.
ListFails_Quiet ==
    /\ drain.step = "listing"
    /\ drain' = NoDrain
    /\ UNCHANGED <<now, hookVars, inbox, app, watchVars, seen, evidence>>

\* The folder cannot be listed: the next drain lists it again.
ListFails ==
    /\ drain.step = "listing"
    /\ full' = TRUE /\ pending' = {}
    /\ drain' = NoDrain
    /\ UNCHANGED <<now, hookVars, inbox, app, notices, rescan, seen, evidence>>

\* Files are read one after another.  One that differs from the last that was
\* read there is taken, and an expired one is to be removed.
ReadRecord(k) ==
    /\ drain.step = "reading" /\ k \in drain.todo /\ drain.expired = NoKey
    /\ LET r == inbox[k]
       IN  IF r # NoReport /\ ~Valid(r, drain.at)
           THEN /\ drain' = [drain EXCEPT !.todo = @ \ {k}, !.expired = k]
                /\ UNCHANGED seen
           ELSE /\ drain' = [drain EXCEPT !.todo = @ \ {k},
                                          !.taken = @ \cup ({r} \ {seen[k], NoReport})]
                /\ seen' = [seen EXCEPT ![k] = r]
    /\ UNCHANGED <<now, hookVars, inbox, app, watchVars, evidence>>

\* A file that is there but cannot be read, or makes no sense, is taken for
\* one that is not: nothing asks for it again.
ReadFails(k) ==
    /\ drain.step = "reading" /\ k \in drain.todo /\ drain.expired = NoKey
    /\ inbox[k] # NoReport
    /\ drain' = [drain EXCEPT !.todo = @ \ {k}]
    /\ seen' = [seen EXCEPT ![k] = Unread]
    /\ UNCHANGED <<now, hookVars, inbox, app, watchVars, evidence>>

\* remove_file takes whatever has the expired record's name by now.
RemoveExpired(k) ==
    /\ drain.expired = k
    /\ inbox' = [inbox EXCEPT ![k] = NoReport]
    /\ Changed(k)
    /\ seen' = [seen EXCEPT ![k] = NoReport]
    /\ drain' = [drain EXCEPT !.expired = NoKey]
    /\ UNCHANGED <<now, hookVars, app, full, pending, evidence>>

Kept(k) == evidence[k] # NoReport /\ Valid(evidence[k], now)

\* Mutant: what was drained last replaces the evidence.
Ingest_Latest ==
    /\ drain.step = "reading" /\ drain.todo = {} /\ drain.expired = NoKey
    /\ evidence' = [k \in Keys |->
           LET new == {r \in drain.taken : KeyOf[r] = k /\ Valid(r, now)}
           IN  IF new # {} THEN CHOOSE r \in new : TRUE
               ELSE IF Kept(k) THEN evidence[k] ELSE NoReport]
    /\ drain' = NoDrain
    /\ UNCHANGED <<now, hookVars, inbox, app, watchVars, seen>>

\* HookEvidence::ingest drops what has expired and takes what is not older.
\* Account events go to the accounts instead.
Ingest ==
    /\ drain.step = "reading" /\ drain.todo = {} /\ drain.expired = NoKey
    /\ evidence' = [k \in Keys |->
           LET new == {r \in drain.taken : /\ KeyOf[r] = k /\ k \notin Locked
                                           /\ Valid(r, now)
                                           /\ Kept(k) => at[r] >= at[evidence[k]]}
           IN  IF new # {} THEN CHOOSE r \in new : TRUE
               ELSE IF Kept(k) THEN evidence[k] ELSE NoReport]
    /\ drain' = NoDrain
    /\ UNCHANGED <<now, hookVars, inbox, app, watchVars, seen>>

Tick == /\ now < MaxTime
        /\ now' = now + 1
        /\ UNCHANGED <<hookVars, inbox, app, watchVars, readVars>>

-----------------------------------------------------------------------------
HookStep(r) ==
    \/ Begin(r) \/ CheckValid(r) \/ ReadOld(r) \/ Rename(r) \/ FailToWrite(r)
    \/ HandOver(r) \/ Die(r)

\* A listing that fails is tried again, so it does not fail for ever.
DrainStep ==
    \/ BeginDrain \/ ListFolder \/ Ingest
    \/ \E k \in Keys : ReadRecord(k) \/ ReadFails(k) \/ RemoveExpired(k)

Next ==
    \/ \E r \in Reports : HookStep(r)
    \/ Open \/ Close \/ (\E k \in Keys : Notice(k)) \/ Rescan
    \/ DrainStep \/ ListFails \/ Tick

\* The system delivers its notices and the collector, which a notice wakes,
\* drains at every turn; no hook has to get anywhere.
Fairness ==
    /\ \A k \in Keys : WF_vars(Notice(k))
    /\ WF_vars(Rescan) /\ WF_vars(DrainStep) /\ SF_vars(ListFolder)

Spec == Init /\ [][Next]_vars /\ Fairness

-----------------------------------------------------------------------------
\* mod.rs:57-58: the lock is there "so the timestamp comparison and atomic
\* replacement cannot let an older report overwrite a newer one", whatever
\* callbacks run at once, die, or have their record removed meanwhile.
AccountsNewest ==
    [][\A k \in Locked : inbox[k] # NoReport /\ inbox'[k] # NoReport =>
           at'[inbox'[k]] >= at[inbox[k]]]_vars

\* While the app runs, what it knows of a session never goes back to an older
\* report, also when the files do (newer of core/src/hook_events.rs).
EvidenceNewest ==
    [][\A k \in Keys : evidence[k] # NoReport /\ evidence'[k] # NoReport =>
           at'[evidence'[k]] >= at[evidence[k]]]_vars

\* A record that stays in the inbox becomes known to the app that watches it,
\* through every lost notice and failed listing, unless it expires, the app
\* knows something as new already, or could not read this very record when it
\* tried (drain and changed_paths of watch.rs).
LatestIsSeen ==
    \A r \in Reports : KeyOf[r] \notin Locked =>
        (app /\ inbox[KeyOf[r]] = r ~>
            \/ ~app \/ inbox[KeyOf[r]] # r \/ ~Valid(r, now)
            \/ seen[KeyOf[r]] = Unread
            \/ LET e == evidence[KeyOf[r]] IN e # NoReport /\ at[e] >= at[r])
=============================================================================
