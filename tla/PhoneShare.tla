----------------------------- MODULE PhoneShare -----------------------------
(***************************************************************************)
(* The switch of sharing with phones (crates/share/src/share/mod.rs,       *)
(* share/worker.rs and share/settings.rs).  The settings page sends its    *)
(* requests to the share's thread and waits for 20 seconds; the thread     *)
(* takes them in turn, starts and stops the LAN link, and keeps the switch *)
(* in share.json.  The phones' grants are in clients.json, which LanServer *)
(* is about.  A request the page has given up still runs.                  *)
(***************************************************************************)
EXTENDS Naturals, Sequences

CONSTANTS MaxRequests,  \* bound: requests the page makes
          MaxLaunches   \* bound: launches of the app

VARIABLES
    saved,      \* share.json's switch, and whether clients.json has grants
    worker,     \* the share's thread
    inbox,      \* its commands
    page,       \* which request the settings page waits for, and the last
                \* change it was told is made, unless it asked for another
    exit,       \* the host's call of stop
    asked,      \* requests made
    launches    \* launches made

vars == <<saved, worker, inbox, page, exit, asked, launches>>

Kinds == {"on", "off", "invite", "revoke"}
Quit == [id |-> 0, kind |-> "quit"]
Commands == [id : 1..MaxRequests, kind : Kinds] \cup {Quit}

NoWorker == [step |-> "down", command |-> Quit, ok |-> FALSE, enabled |-> FALSE, lan |-> FALSE]

TypeOK ==
    /\ saved \in [enabled : BOOLEAN, grants : BOOLEAN]
    /\ worker \in [step : {"down", "idle", "take", "save", "answer"}, command : Commands,
                   ok : BOOLEAN, enabled : BOOLEAN, lan : BOOLEAN]
    /\ worker.step = "down" => worker = NoWorker
    /\ inbox \in Seq(Commands) /\ asked \in 0..MaxRequests
    /\ page \in [waits : 0..MaxRequests, told : {"nothing", "on", "off", "revoke"}]
    /\ exit \in {"no", "waits"} /\ launches \in 0..MaxLaunches

Init ==
    /\ saved = [enabled |-> FALSE, grants |-> FALSE]
    /\ worker = NoWorker /\ inbox = <<>>
    /\ page = [waits |-> 0, told |-> "nothing"]
    /\ exit = "no" /\ asked = 0 /\ launches = 0

-----------------------------------------------------------------------------
\* run: a switch that was left on starts the link, if it can be started.
Launch ==
    /\ worker.step = "down" /\ launches < MaxLaunches
    /\ launches' = launches + 1
    /\ \E starts \in BOOLEAN :
          worker' = [NoWorker EXCEPT !.step = "idle", !.enabled = saved.enabled,
                                     !.lan = saved.enabled /\ starts]
    /\ UNCHANGED <<saved, inbox, page, exit, asked>>

Ask(kind) ==
    /\ worker.step # "down" /\ page.waits = 0 /\ asked < MaxRequests
    /\ asked' = asked + 1
    /\ inbox' = Append(inbox, [id |-> asked + 1, kind |-> kind])
    /\ page' = [waits |-> asked + 1, told |-> IF kind = "invite" THEN page.told ELSE "nothing"]
    /\ UNCHANGED <<saved, worker, exit, launches>>

\* The page waits no longer.
GiveUp ==
    /\ page.waits # 0
    /\ page' = [page EXCEPT !.waits = 0]
    /\ UNCHANGED <<saved, worker, inbox, exit, asked, launches>>

\* The host stops the share and waits for its thread.
Stop ==
    /\ worker.step # "down" /\ exit = "no"
    /\ exit' = "waits" /\ inbox' = Append(inbox, Quit)
    /\ UNCHANGED <<saved, worker, page, asked, launches>>

\* A phone pairs over the running link.
PhonePairs ==
    /\ worker.lan /\ ~saved.grants
    /\ saved' = [saved EXCEPT !.grants = TRUE]
    /\ page' = IF page.told = "revoke" THEN [page EXCEPT !.told = "nothing"] ELSE page
    /\ UNCHANGED <<worker, inbox, exit, asked, launches>>

Dies ==
    /\ worker.step # "down"
    /\ worker' = NoWorker /\ inbox' = <<>> /\ exit' = "no"
    /\ page' = [page EXCEPT !.waits = 0]
    /\ UNCHANGED <<saved, asked, launches>>

-----------------------------------------------------------------------------
(* The share's thread.                                                     *)

Take ==
    /\ worker.step = "idle" /\ inbox # <<>>
    /\ worker' = [worker EXCEPT !.step = "take", !.command = Head(inbox)]
    /\ inbox' = Tail(inbox)
    /\ UNCHANGED <<saved, page, exit, asked, launches>>

Taken(kind) == worker.step = "take" /\ worker.command.kind = kind
Answers(ok) == worker' = [worker EXCEPT !.step = "answer", !.ok = ok]

\* start_lan, which saves a new port with the switch as it was.
TurnOn ==
    /\ Taken("on")
    /\ worker' = [worker EXCEPT !.step = "save", !.lan = TRUE, !.enabled = TRUE]
    /\ saved' \in {saved, [saved EXCEPT !.enabled = IF worker.lan THEN @ ELSE worker.enabled]}
    /\ UNCHANGED <<inbox, page, exit, asked, launches>>

CannotStart ==
    /\ Taken("on") /\ ~worker.lan
    /\ Answers(FALSE)
    /\ UNCHANGED <<saved, inbox, page, exit, asked, launches>>

\* Mutant: without a link there is nothing to revoke.
TurnOff_Running ==
    /\ Taken("off")
    /\ worker' = [worker EXCEPT !.step = "save", !.lan = FALSE, !.enabled = FALSE]
    /\ saved' = [saved EXCEPT !.grants = @ /\ ~worker.lan]
    /\ UNCHANGED <<inbox, page, exit, asked, launches>>

\* stop_lan: the grants go, also those of a link that does not run.
TurnOff ==
    /\ Taken("off")
    /\ worker' = [worker EXCEPT !.step = "save", !.lan = FALSE, !.enabled = FALSE]
    /\ saved' = [saved EXCEPT !.grants = FALSE]
    /\ UNCHANGED <<inbox, page, exit, asked, launches>>

\* The emptied grants cannot be saved: the link is gone all the same.
CannotRevoke ==
    /\ Taken("off")
    /\ worker' = [worker EXCEPT !.step = "answer", !.ok = FALSE, !.lan = FALSE]
    /\ UNCHANGED <<saved, inbox, page, exit, asked, launches>>

Save ==
    /\ worker.step = "save"
    /\ saved' = [saved EXCEPT !.enabled = worker.enabled]
    /\ Answers(TRUE)
    /\ UNCHANGED <<inbox, page, exit, asked, launches>>

CannotSave ==
    /\ worker.step = "save"
    /\ Answers(FALSE)
    /\ UNCHANGED <<saved, inbox, page, exit, asked, launches>>

Invite ==
    /\ Taken("invite")
    /\ Answers(worker.lan)
    /\ UNCHANGED <<saved, inbox, page, exit, asked, launches>>

\* Without a link nothing is done, and the answer is that it is.
Revoke ==
    /\ Taken("revoke")
    /\ \/ Answers(TRUE) /\ saved' = [saved EXCEPT !.grants = @ /\ ~worker.lan]
       \/ worker.lan /\ Answers(FALSE) /\ UNCHANGED saved
    /\ UNCHANGED <<inbox, page, exit, asked, launches>>

\* An answer nobody waits for any more is dropped.
Answer ==
    /\ worker.step = "answer"
    /\ page' = IF page.waits # worker.command.id THEN page
               ELSE [waits |-> 0, told |-> IF worker.ok /\ worker.command.kind # "invite"
                                           THEN worker.command.kind ELSE page.told]
    /\ worker' = [worker EXCEPT !.step = "idle"]
    /\ UNCHANGED <<saved, inbox, exit, asked, launches>>

\* Mutant: the thread ends and the link runs on.
Quits_Serves ==
    /\ Taken("quit")
    /\ worker' = [NoWorker EXCEPT !.lan = worker.lan] /\ inbox' = <<>> /\ exit' = "no"
    /\ page' = [page EXCEPT !.waits = 0]
    /\ UNCHANGED <<saved, asked, launches>>

\* The thread ends with what is still in its inbox; the page hears of it.
Quits ==
    /\ Taken("quit")
    /\ worker' = NoWorker /\ inbox' = <<>> /\ exit' = "no"
    /\ page' = [page EXCEPT !.waits = 0]
    /\ UNCHANGED <<saved, asked, launches>>

-----------------------------------------------------------------------------
WorkerStep ==
    \/ Take \/ TurnOn \/ CannotStart \/ TurnOff \/ CannotRevoke \/ Save \/ CannotSave
    \/ Invite \/ Revoke \/ Answer \/ Quits

Next ==
    \/ Launch \/ (\E kind \in Kinds : Ask(kind)) \/ GiveUp \/ Stop \/ PhonePairs \/ Dies
    \/ WorkerStep

-----------------------------------------------------------------------------
(* Properties.                                                             *)

\* What the page was told is made stays made through deaths and launches, and
\* whatever it had asked and given up before: sharing that was turned off serves
\* nobody and leaves no grant behind (set_enabled).
ToldIsKept ==
    /\ page.told = "on" => saved.enabled
    /\ page.told = "off" => ~saved.enabled /\ ~saved.grants /\ ~worker.lan

=============================================================================
