--------------------------- MODULE AccountReadings ---------------------------
(***************************************************************************)
(* Readings of an account (crates/platform/src/accounts).  One worker      *)
(* reads the accounts, one at a time; what the user and the collection     *)
(* passes change meanwhile tells it what is due.  One provider stands for  *)
(* all: the others only keep the worker busy.  A sign-in is whatever the   *)
(* reader finds when it looks: saved credentials, a web session, a         *)
(* consent; a reading says which homes and which sign-in it is of.         *)
(* Pauses of a second between readings are left out, so are status pages.  *)
(***************************************************************************)
EXTENDS Naturals, FiniteSetsExt

CONSTANTS Signs,     \* sign-ins
          Local,     \* Provider::local_work: this computer's work spends it
          Running,   \* pause while a turn runs, in units of the least pause
          Quiet,     \* pause otherwise
          MaxTime,   \* bound of the clock
          MaxFailed  \* bound: readings that fail in a row

VARIABLES
    now,
    sign,     \* the sign-in there is
    control,  \* Control: force, enabled, the work of its sources, account_homes
    entry,    \* the provider's Entry, if it has one
    reader,   \* the worker
    unheard   \* whether a consent changed that the worker was not woken for

vars == <<now, sign, control, entry, reader, unheard>>

Times == 0..MaxTime
Spacing == 1
Never == MaxTime + 1
Homes == {"default", "chosen"}
NoSign == "none"
Work == {"running", "live", "none"}

\* reset is when the windows of the reading reset, 0 if it knows of none.
NoEntry == [there |-> FALSE, homes |-> "default", sign |-> NoSign, attempted |-> 0,
            failures |-> 0, retryAt |-> 0, reset |-> 0, restored |-> FALSE]
NoReading == [step |-> "look", until |-> 0, woken |-> FALSE, homes |-> "default",
              sign |-> NoSign, good |-> FALSE, attempted |-> 0]

TypeOK ==
    /\ now \in Times /\ sign \in Signs /\ unheard \in BOOLEAN
    /\ control \in [force : BOOLEAN, enabled : BOOLEAN, work : Work, finished : Times,
                    homes : Homes]
    /\ entry \in [there : BOOLEAN, homes : Homes, sign : Signs \cup {NoSign},
                  attempted : Times, failures : 0..MaxFailed, retryAt : 0..Never,
                  reset : 0..Never, restored : BOOLEAN]
    /\ reader \in [step : {"look", "asleep", "begun", "read"}, until : 0..(MaxTime + Quiet),
                   woken : BOOLEAN, homes : Homes, sign : Signs \cup {NoSign},
                   good : BOOLEAN, attempted : Times]

\* What the restart copy may hold: nothing, or an earlier reading and the homes
\* there were then.
Copies ==
    {[NoEntry EXCEPT !.homes = h] : h \in Homes} \cup
    UNION {{[NoEntry EXCEPT !.there = TRUE, !.homes = h, !.sign = s, !.restored = TRUE] :
               s \in Signs} : h \in Homes}

\* The providers in use come with the first pass.
Launched(kept) == [force |-> FALSE, enabled |-> FALSE, work |-> "none", finished |-> 0,
                   homes |-> kept.homes]

Init ==
    /\ now = 0 /\ sign \in Signs
    /\ entry \in Copies /\ control = Launched(entry)
    /\ reader = NoReading /\ unheard = FALSE

-----------------------------------------------------------------------------
(* When the next reading is due (schedule.rs).                             *)

Less(a, b) == IF a > b THEN a - b ELSE 0
\* A minute, doubled for each failure up to a quarter of an hour.
Backoff(failures) == IF failures <= 4 THEN <<1, 2, 4, 8>>[failures] ELSE 15
Elapsed == now - entry.attempted
Finished == control.finished > entry.attempted
\* Work here moves the windows, unless the homes are the user's choice.
OfThisComputer == Local /\ control.homes = "default"
ResetAhead == entry.reset > entry.attempted

Interval ==
    CASE control.force -> Spacing
      [] ~control.force /\ control.work = "running" -> Running
      [] ~control.force /\ control.work # "running" /\
         (control.work = "live" \/ ~OfThisComputer \/ ~ResetAhead) -> Quiet
      [] OTHER -> Never

\* The pause after a good reading, and after one that failed.
Pause ==
    LET rests == IF OfThisComputer /\ control.work = "none" /\ Finished THEN 0
                 ELSE Less(Interval, Elapsed)
    IN  IF ResetAhead THEN Min({rests, Less(entry.reset, now)}) ELSE rests
Retry ==
    IF control.force \/ (OfThisComputer /\ Finished) THEN 0
    ELSE Less(Backoff(entry.failures), Elapsed)

DueAfter ==
    IF ~entry.there \/ entry.restored THEN 0
    ELSE Max({IF entry.failures > 0 THEN Retry ELSE Pause,
              Less(Spacing, Elapsed), Less(entry.retryAt, now)})

-----------------------------------------------------------------------------
(* What changes beside the worker.  Each holds the state while it does.    *)

Tick ==
    /\ now < MaxTime /\ now' = now + 1
    /\ UNCHANGED <<sign, control, entry, reader, unheard>>

Notified == reader' = [reader EXCEPT !.woken = TRUE]

\* The user asks for a reading, or a client reports that its account changed.
Refresh ==
    /\ control' = [control EXCEPT !.force = @ \/ control.enabled]
    /\ Notified
    /\ UNCHANGED <<now, sign, entry, unheard>>

\* Saved credentials are read at once, even for a provider that was off; so
\* is a web sign-in or a sign-out.
SignIn(new) ==
    /\ new # sign /\ sign' = new
    /\ entry' = NoEntry
    /\ \E on \in {control.enabled, TRUE} : control' = [control EXCEPT !.force = TRUE, !.enabled = on]
    /\ Notified
    /\ UNCHANGED <<now, unheard>>

\* A consent is asked for again as well, by a pass, which wakes nobody for it;
\* what the relays said stays until they are read.
Consent(new) ==
    /\ new # sign /\ sign' = new
    /\ entry' \in {NoEntry, entry}
    /\ control' = [control EXCEPT !.force = TRUE]
    /\ unheard' = TRUE
    /\ UNCHANGED <<now, reader>>

\* A pass tells of the homes, the providers in use and their work.
UpdateSources ==
    \E homes \in Homes, on \in BOOLEAN, work \in Work, finished \in {control.finished, now} :
        LET moved == homes # control.homes
        IN  /\ control' = [control EXCEPT !.homes = homes, !.force = @ \/ moved,
                             !.enabled = on, !.work = work, !.finished = finished]
            /\ control' # control
            /\ entry' = IF moved THEN NoEntry ELSE entry
            /\ Notified
            /\ UNCHANGED <<now, sign, unheard>>

-----------------------------------------------------------------------------
(* The worker.                                                             *)

Due == control.enabled /\ DueAfter = 0

Sleep ==
    /\ reader.step = "look" /\ ~Due
    /\ reader' = [NoReading EXCEPT !.step = "asleep",
                    !.until = now + IF control.enabled THEN Min({Quiet, DueAfter}) ELSE Quiet]
    /\ unheard' = FALSE
    /\ UNCHANGED <<now, sign, control, entry>>

\* Others keep it from sleeping longer.
Wake ==
    /\ reader.step = "asleep"
    /\ reader' = NoReading
    /\ UNCHANGED <<now, sign, control, entry, unheard>>

\* The request this reading serves is done with; one that comes from here on
\* stays for the next.
Begin ==
    /\ reader.step = "look" /\ Due
    /\ control' = [control EXCEPT !.force = FALSE]
    /\ reader' = [NoReading EXCEPT !.step = "begun", !.homes = control.homes, !.attempted = now]
    /\ UNCHANGED <<now, sign, entry, unheard>>

\* Under the gate, with nothing else held.
ReadAccount ==
    /\ reader.step = "begun"
    /\ \E good \in BOOLEAN :
          reader' = [reader EXCEPT !.step = "read", !.sign = sign, !.good = good]
    /\ UNCHANGED <<now, sign, control, entry, unheard>>

\* A reading that failed leaves what the last one said, and waits as the
\* service asks.
Settled ==
    IF reader.good
    THEN {[NoEntry EXCEPT !.there = TRUE, !.homes = reader.homes, !.sign = reader.sign,
             !.attempted = reader.attempted, !.reset = reset] :
             reset \in {0, now + 1} \cap (0..Never)}
    ELSE {[entry EXCEPT !.there = TRUE, !.restored = FALSE, !.attempted = reader.attempted,
             !.homes = IF entry.there THEN @ ELSE reader.homes,
             !.failures = Min({@ + 1, MaxFailed}), !.retryAt = retry] :
             retry \in {0, reader.attempted + 2} \cap (0..Never)}

\* Mutant: whatever was read is kept.
Settle_Any ==
    /\ reader.step = "read"
    /\ reader' = NoReading
    /\ entry' \in Settled
    /\ UNCHANGED <<now, sign, control, unheard>>

\* A reading of homes that changed meanwhile is dropped.
Settle ==
    /\ reader.step = "read"
    /\ reader' = NoReading
    /\ entry' \in IF control.homes = reader.homes THEN Settled ELSE {entry}
    /\ UNCHANGED <<now, sign, control, unheard>>

-----------------------------------------------------------------------------
\* The app ends and starts from the copy it wrote last: at a stop, and every
\* five minutes at most as readings land.
Restart ==
    /\ entry' \in Copies /\ control' = Launched(entry')
    /\ reader' = NoReading /\ unheard' = FALSE
    /\ UNCHANGED <<now, sign>>

Next ==
    \/ Tick \/ Refresh \/ UpdateSources
    \/ \E new \in Signs : SignIn(new) \/ Consent(new)
    \/ Sleep \/ Wake \/ Begin \/ ReadAccount \/ Settle \/ Restart

Spec == Init /\ [][Next]_vars

-----------------------------------------------------------------------------
(* Properties.                                                             *)

\* A reading of the sign-in there is has begun, or is asked for.
BeingRead ==
    \/ control.force
    \/ reader.step = "begun" \/ (reader.step = "read" /\ reader.sign = sign)

\* What is shown is of the homes that are set ("A removed home must not
\* reappear when its in-flight read completes", worker.rs:171).  It is of the
\* sign-in there is, or it is about to be read again; a reading that fails
\* leaves it.  And the worker does not sleep through what is due, but for a
\* consent that changed.
ShownIsCurrent ==
    /\ entry.there => entry.homes = control.homes
    /\ entry.sign \in {sign, NoSign} \/ BeingRead \/ entry.failures > 0 \/ entry.restored
    /\ reader.step = "asleep" /\ ~reader.woken /\ now < reader.until => ~Due \/ unheard

=============================================================================
