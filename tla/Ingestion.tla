----------------------------- MODULE Ingestion -----------------------------
(***************************************************************************)
(* How a client's log becomes usage in the ledger (crates/core/src/        *)
(* ingestion.rs, ingestion/scan.rs and lines.rs).  A pass lists the log,   *)
(* reads on from its checkpoint, as far as its budget goes, and commits    *)
(* the new usage with the next checkpoint in one transaction.  The client  *)
(* writes all the while; the app may be killed at any point, and may come  *)
(* back as a version that counts by other rules, which reads the log from  *)
(* its start and replaces what was counted, span of time by span of time   *)
(* (crates/agents/src/transcript/carried_usage.rs).                        *)
(*                                                                         *)
(* One log of one source that appends lines; a line is one usage event.    *)
(* A file's modification time is what its length and its rewritings tell.  *)
(* Archives, removed logs and sessions mapped onto others are left out.    *)
(***************************************************************************)
EXTENDS Naturals, Sequences

CONSTANTS TimeOf,       \* the time of the event in each line, in line order
          Versions,     \* the parser versions the user may come to run
          Budget,       \* how many lines a pass reads at most
          Failures,     \* what may fail: "open", "read", "load", "commit"
          MaxRewrites   \* bound: how often the client starts its file over

ASSUME IngestionAssumption ==
    /\ TimeOf \in Seq(Nat)
    /\ Versions \subseteq Nat /\ Versions # {}
    /\ Budget \in Nat \ {0}
    /\ Failures \subseteq {"open", "read", "load", "commit"}
    /\ MaxRewrites \in Nat

Lines == 1..Len(TimeOf)
Times == {TimeOf[i] : i \in Lines}

VARIABLES
    file,      \* the log: its length, and how often it was rewritten
    up,        \* the app runs
    version,   \* PARSER_VERSION of the app that runs, or ran last
    listed,    \* Reads::listing: the log's stamp when it was last looked at
    pending,   \* the log is in Reads::pending
    forced,    \* it is in Reads::forced
    failed,    \* it is in Reads::failed, and whether its pause is over
    head,      \* AgentHudCore::logs: the checkpoint as it is in memory
    cache,     \* its parser in ParserCache
    scan,      \* the read in progress
    db         \* ingestion_logs and usage_meter_event of the log

readsVars == <<listed, pending, forced, failed>>
memoryVars == <<readsVars, head, cache, scan>>
vars == <<file, up, version, memoryVars, db>>

\* A file's length counts halves of lines: with 2 * i of them, line i is whole.
Halves == 0..(2 * Len(TimeOf))
Stamps == [len : Halves, gen : 0..MaxRewrites]
NoStamp == [len |-> 0, gen |-> MaxRewrites + 1]

\* A parser's checkpoint.  `len` and `gen` are the stamp it was read by, and
\* `span` the times in which a handover has replaced the earlier usage.
Logs == [offset : 0..Len(TimeOf), len : Halves, gen : 0..(MaxRewrites + 1),
         ver : Nat, waiting : BOOLEAN, carried : BOOLEAN, span : SUBSET Times]
NewLog(v, carry) == [offset |-> 0, len |-> 0, gen |-> MaxRewrites + 1, ver |-> v,
                     waiting |-> FALSE, carried |-> carry, span |-> {}]
NoVersion == 0
NoLog == NewLog(NoVersion, FALSE)

Rows == [line : Lines, gen : 0..MaxRewrites, ver : Nat]
NoScan == [step |-> "idle", log |-> NoLog, reset |-> FALSE, budget |-> 0, events |-> {}]

ASSUME NoVersionIsNone == NoVersion \notin Versions

TypeOK ==
    /\ file \in Stamps
    /\ up \in BOOLEAN
    /\ version \in Versions
    /\ listed \in Stamps \cup {NoStamp}
    /\ pending \in BOOLEAN /\ forced \in BOOLEAN
    /\ failed \in {"no", "pausing", "due"}
    /\ head \in Logs /\ cache \in Logs
    /\ scan \in [step : {"idle", "opening", "reading", "committing"}, log : Logs,
                 reset : BOOLEAN, budget : 0..Budget, events : SUBSET Rows]
    /\ db \in [log : Logs, rows : SUBSET Rows]

\* What the app has in memory before it listed anything.
Blank ==
    /\ listed' = NoStamp /\ pending' = FALSE /\ forced' = FALSE /\ failed' = "no"
    /\ cache' = NoLog /\ scan' = NoScan

Init ==
    /\ file = [len |-> 0, gen |-> 0]
    /\ up = FALSE /\ version \in Versions
    /\ listed = NoStamp /\ pending = FALSE /\ forced = FALSE /\ failed = "no"
    /\ head = NoLog /\ cache = NoLog /\ scan = NoScan
    /\ db = [log |-> NoLog, rows |-> {}]

-----------------------------------------------------------------------------
(* The client.                                                             *)

Write ==
    /\ file.len + 1 \in Halves
    /\ file' = [file EXCEPT !.len = @ + 1]
    /\ UNCHANGED <<up, version, memoryVars, db>>

\* The client starts its file over, which then holds other lines.
Rewrite(len) ==
    /\ file.gen < MaxRewrites
    /\ file' = [len |-> len, gen |-> file.gen + 1]
    /\ UNCHANGED <<up, version, memoryVars, db>>

-----------------------------------------------------------------------------
(* The app starts and is killed.  Bound: its version never goes back.      *)

Start(v) ==
    /\ ~up /\ v >= version
    /\ up' = TRUE /\ version' = v
    /\ head' = db.log
    /\ Blank
    /\ UNCHANGED <<file, db>>

Crash ==
    /\ up
    /\ up' = FALSE
    /\ head' = NoLog
    /\ Blank
    /\ UNCHANGED <<file, version, db>>

-----------------------------------------------------------------------------
(* Listing.                                                                *)

Same(log, stamp) == log.len = stamp.len /\ log.gen = stamp.gen

NeedsRead(log, stamp) ==
    \/ log = NoLog \/ log.ver # version
    \/ ~Same(log, stamp)
    \/ 2 * log.offset < log.len /\ ~log.waiting

\* A pass refreshes its listing, and a log that changed since may be read.
List ==
    /\ up /\ scan.step = "idle" /\ listed # file
    /\ listed' = file
    /\ pending' = (pending \/ NeedsRead(head, file))
    /\ UNCHANGED <<file, up, version, forced, failed, head, cache, scan, db>>

\* A hook names the log: it is read even if it looks unchanged, by a scan
\* of its own, which stamps it first, or by the next pass.
Remind ==
    /\ up /\ scan.step = "idle" /\ ~forced
    /\ pending' = TRUE /\ forced' = TRUE
    /\ UNCHANGED <<file, up, version, listed, failed, head, cache, scan, db>>

Restamp ==
    /\ up /\ scan.step = "idle" /\ forced /\ listed # file
    /\ listed' = file
    /\ UNCHANGED <<file, up, version, pending, forced, failed, head, cache, scan, db>>

-----------------------------------------------------------------------------
(* Reading.                                                                *)

\* Mutant: a log that got shorter is taken for one that grew.
Reset_NotShorter ==
    \/ head = NoLog \/ head.ver # version
    \/ listed.len = head.len /\ listed.gen # head.gen

\* The log is read from its start: it is new, it was read by other rules, or
\* it got shorter or was replaced.
Reset ==
    \/ head = NoLog \/ head.ver # version
    \/ listed.len < head.len
    \/ listed.len = head.len /\ listed.gen # head.gen

Due == up /\ scan.step = "idle" /\ pending /\ listed # NoStamp /\ failed # "pausing"

\* A log that is as it was when other rules read it keeps its usage, to be
\* replaced as it is read.
BeginReset ==
    /\ Due /\ Reset
    /\ scan' = [NoScan EXCEPT !.step = "opening", !.reset = TRUE, !.budget = Budget,
           !.log = NewLog(version, head # NoLog /\ Same(head, listed) /\ head.ver # version)]
    /\ forced' = FALSE
    /\ UNCHANGED <<file, up, version, listed, pending, failed, head, cache, db>>

\* The parser comes out of the cache, or from the database.
Parser == IF cache # NoLog THEN cache ELSE db.log
Done(log) == Same(log, listed) /\ (2 * log.offset >= log.len \/ log.waiting)

Begin ==
    /\ Due /\ ~Reset
    /\ cache' = NoLog
    /\ IF Done(Parser) /\ ~forced
       THEN /\ pending' = FALSE
            /\ UNCHANGED <<forced, scan>>
       ELSE /\ scan' = [NoScan EXCEPT !.step = "opening", !.budget = Budget, !.log = Parser]
            /\ forced' = FALSE
            /\ UNCHANGED pending
    /\ UNCHANGED <<file, up, version, listed, failed, head, db>>

\* The database cannot give the checkpoint.
LoadFails ==
    /\ "load" \in Failures
    /\ Due /\ ~Reset /\ cache = NoLog
    /\ failed' = "pausing"
    /\ UNCHANGED <<file, up, version, listed, pending, forced, head, cache, scan, db>>

\* The file cannot be opened: what follows is as after a read.
OpenFails ==
    /\ "open" \in Failures
    /\ scan.step = "opening"
    /\ failed' = "pausing"
    /\ scan' = [scan EXCEPT !.step = "committing"]
    /\ UNCHANGED <<file, up, version, listed, pending, forced, head, cache, db>>

Open ==
    /\ scan.step = "opening"
    /\ scan' = [scan EXCEPT !.step = "reading", !.log.waiting = FALSE]
    /\ UNCHANGED <<file, up, version, readsVars, head, cache, db>>

Whole(i) == i \in Lines /\ 2 * i <= file.len

ReadLine ==
    /\ scan.step = "reading" /\ scan.budget > 0
    /\ Whole(scan.log.offset + 1)
    /\ scan' = [scan EXCEPT !.log.offset = @ + 1, !.budget = @ - 1,
           !.events = @ \cup {[line |-> scan.log.offset + 1, gen |-> file.gen, ver |-> version]}]
    /\ UNCHANGED <<file, up, version, readsVars, head, cache, db>>

\* The budget is spent or no whole line is left; a part of one is waited for.
ReadEnd ==
    /\ scan.step = "reading"
    /\ scan.budget = 0 \/ ~Whole(scan.log.offset + 1)
    /\ scan' = [scan EXCEPT !.step = "committing",
           !.log.waiting = scan.budget > 0 /\ file.len > 2 * scan.log.offset]
    /\ failed' = "no"
    /\ UNCHANGED <<file, up, version, listed, pending, forced, head, cache, db>>

\* What was read before the failure counts.
ReadFails ==
    /\ "read" \in Failures
    /\ scan.step = "reading"
    /\ scan' = [scan EXCEPT !.step = "committing"]
    /\ failed' = "pausing"
    /\ UNCHANGED <<file, up, version, listed, pending, forced, head, cache, db>>

PauseEnds ==
    /\ failed = "pausing"
    /\ failed' = "due"
    /\ UNCHANGED <<file, up, version, listed, pending, forced, head, cache, scan, db>>

-----------------------------------------------------------------------------
(* Writing what was read.                                                  *)

Hull(ts) == {t \in Times : \E a, b \in ts : a <= t /\ t <= b}
TimesIn(rows) == {TimeOf[r.line] : r \in rows}

\* CarriedUsage::writing: the times whose earlier usage goes with this read.
\* With the whole log read, all that was not covered before goes.
Covers(log, events, whole) ==
    IF whole THEN Times \ log.span
    ELSE Hull(log.span \cup TimesIn(events)) \ log.span

\* The checkpoint this read leaves.
Stamped == [scan.log EXCEPT !.len = listed.len, !.gen = listed.gen]
ReadWhole == ~NeedsRead(Stamped, listed)
Checkpoint ==
    [Stamped EXCEPT !.carried = scan.log.carried /\ ~ReadWhole,
                    !.span = IF scan.log.carried /\ ~ReadWhole
                             THEN Hull(@ \cup TimesIn(scan.events)) ELSE {}]

\* Mutant: a handover drops the earlier usage only once all is read.
Kept_UntilWhole ==
    IF ~scan.log.carried THEN IF scan.reset THEN {} ELSE db.rows
    ELSE IF ReadWhole THEN {} ELSE db.rows

\* The usage in the ledger that this read does not replace.
Kept ==
    IF ~scan.log.carried THEN IF scan.reset THEN {} ELSE db.rows
    ELSE {r \in db.rows : TimeOf[r.line] \notin Covers(scan.log, scan.events, ReadWhole)}

\* Mutant: a log that was read is not pending, however far it was read.
Commit_AlwaysDone ==
    /\ scan.step = "committing"
    /\ db' = [log |-> Checkpoint, rows |-> Kept \cup scan.events]
    /\ head' = Checkpoint
    /\ cache' \in {Checkpoint, NoLog}
    /\ pending' = FALSE
    /\ scan' = NoScan
    /\ UNCHANGED <<file, up, version, listed, forced, failed>>

\* One transaction; then memory follows, and the cache, which may have no room.
Commit ==
    /\ scan.step = "committing"
    /\ db' = [log |-> Checkpoint, rows |-> Kept \cup scan.events]
    /\ head' = Checkpoint
    /\ cache' \in {Checkpoint, NoLog}
    /\ pending' = (pending /\ ~ReadWhole)
    /\ scan' = NoScan
    /\ UNCHANGED <<file, up, version, listed, forced, failed>>

\* Mutant: the failed pass keeps what it had read in memory.
CommitFails_KeepsLog ==
    /\ "commit" \in Failures
    /\ scan.step = "committing"
    /\ cache' = Checkpoint
    /\ scan' = NoScan
    /\ UNCHANGED <<file, up, version, readsVars, head, db>>

\* Nothing is written and the parser is forgotten: the log is still pending.
CommitFails ==
    /\ "commit" \in Failures
    /\ scan.step = "committing"
    /\ scan' = NoScan
    /\ UNCHANGED <<file, up, version, readsVars, head, cache, db>>

-----------------------------------------------------------------------------
ClientStep == Write \/ \E len \in Halves : Rewrite(len)

Pass ==
    \/ List \/ BeginReset \/ Begin \/ Open \/ ReadLine \/ ReadEnd \/ Commit

Trouble == LoadFails \/ OpenFails \/ ReadFails \/ CommitFails

Next ==
    \/ ClientStep
    \/ (\E v \in Versions : Start(v)) \/ Crash
    \/ Remind \/ Restamp
    \/ Pass \/ Trouble \/ PauseEnds

\* The collector makes its passes, pauses end, and no step fails for ever; of
\* the reads that succeed, not every commit fails.
Fairness ==
    /\ WF_vars(PauseEnds) /\ WF_vars(List) /\ WF_vars(Pass)
    /\ SF_vars(Begin) /\ SF_vars(Open) /\ SF_vars(ReadLine) /\ SF_vars(ReadEnd)
    /\ SF_vars(failed = "no" /\ Commit)

Spec == Init /\ [][Next]_vars /\ Fairness

-----------------------------------------------------------------------------
(* Safety.                                                                 *)

CountedBy(v) == {r.line : r \in {s \in db.rows : s.ver = v}}

\* docs/performance.md: "Checkpoint and usage updates commit together."  With
\* every crash, failure and reread, the ledger holds the lines before its
\* checkpoint's offset, each once, and, but for what a handover has yet to
\* replace, nothing else.
CheckpointMatches ==
    /\ CountedBy(db.log.ver) = 1..db.log.offset
    /\ ~db.log.carried => \A r \in db.rows : r.ver = db.log.ver

\* No line is counted twice, by the rules of two versions, at any point of a
\* handover between them, whatever the order of the events in the log.
OneRowPerLine ==
    \A r, s \in db.rows : r.line = s.line /\ r.gen = s.gen => r = s

\* A log that was listed shorter than before is counted again from its start:
\* nothing stays of what it held (reset in scan).
ShorterIsReplaced ==
    [][Commit /\ listed.len < db.log.len => \A r \in db'.rows : r.gen >= listed.gen]_vars

-----------------------------------------------------------------------------
(* Liveness.                                                               *)

Counted == /\ \A r \in db.rows : r.ver = version
           /\ CountedBy(version) = {i \in Lines : Whole(i)}

\* A log whose last line was partial and which could then not be opened: it
\* still waits for more, takes the new stamp and is not looked at again until
\* its listing changes (waiting_for_more, which only read_lines resets).
Overlooked == head.waiting /\ head.len = listed.len

\* While the app stays up, the ledger comes to hold every whole line of a log
\* the client has stopped writing to and has not started over, through failed
\* reads, failed commits, restarts and handovers (pending, FailedReads and
\* needs_read).
EveryLineIsCounted == <>[]up /\ [](file.gen = 0) => <>[](Counted \/ Overlooked)
=============================================================================
