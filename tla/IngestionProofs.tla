--------------------------- MODULE IngestionProofs ---------------------------
(***************************************************************************)
(* Proofs about Ingestion, for every log, every set of parser versions,    *)
(* every budget and every choice of what may fail.                         *)
(*                                                                         *)
(* That the ledger matches its checkpoint is not inductive: it needs to be *)
(* known what the read in progress holds, that memory agrees with the      *)
(* database, and how a handover stands - the usage counted by the rules    *)
(* of this version lies inside the span it has covered, all the earlier    *)
(* usage outside of it.                                                    *)
(***************************************************************************)
EXTENDS Ingestion, TLAPS

\* The database: its rows are those of the checkpoint's lines, besides what a
\* handover has yet to replace.
Ledger(log, rows) ==
    /\ \A i \in 1..log.offset : \E r \in rows : r.line = i /\ r.ver = log.ver
    /\ \A r \in rows : r.ver = log.ver => r.line \in 1..log.offset
    /\ \A r \in rows : r.ver <= log.ver
    /\ \A r, s \in rows : r.line = s.line => r = s
    /\ ~log.carried => \A r \in rows : r.ver = log.ver
    /\ log.carried => \A r \in rows : r.ver = log.ver <=> TimeOf[r.line] \in log.span

\* The offset a read starts from.
From == IF scan.reset THEN 0 ELSE db.log.offset

\* The read in progress holds the usage of the lines from there to its offset.
Reading ==
    /\ up /\ scan.log.ver = version
    /\ From <= scan.log.offset
    /\ \A i \in (From + 1)..scan.log.offset : \E e \in scan.events : e.line = i
    /\ \A e \in scan.events : e.ver = version /\ e.line \in (From + 1)..scan.log.offset
    /\ \A e, f \in scan.events : e.line = f.line => e = f
    /\ scan.reset => scan.log.span = {} /\ (scan.log.carried => db.log.ver < version)
    /\ ~scan.reset => /\ db.log.ver = version
                      /\ scan.log.carried = db.log.carried
                      /\ scan.log.span = db.log.span
    /\ scan.step = "opening" => scan.events = {}

Memory ==
    /\ up => head = db.log /\ cache \in {NoLog, db.log}
    /\ db.log.ver <= version

Inv ==
    /\ TypeOK
    /\ Memory
    /\ Ledger(db.log, db.rows)
    /\ scan.step # "idle" => Reading

-----------------------------------------------------------------------------
LEMMA NoLogType == NoLog \in Logs
BY IngestionAssumption DEF NoLog, NewLog, NoVersion, Logs, Halves

LEMMA NewLogType == ASSUME NEW v \in Nat, NEW c \in BOOLEAN PROVE NewLog(v, c) \in Logs
BY IngestionAssumption DEF NewLog, Logs, Halves

ScanType == [step : {"idle", "opening", "reading", "committing"}, log : Logs,
             reset : BOOLEAN, budget : 0..Budget, events : SUBSET Rows]

LEMMA NoScanType == NoScan \in ScanType /\ NoScan.step = "idle"
<1>1. 0 \in 0..Budget
    BY IngestionAssumption
<1> QED BY <1>1, NoLogType DEF NoScan, ScanType

LEMMA VersionsArePositive == \A v \in Versions : v \in Nat /\ v > NoVersion
BY IngestionAssumption, NoVersionIsNone DEF NoVersion

\* The hull of some of the log's times holds them.
LEMMA HullHolds == ASSUME NEW ts \in SUBSET Times PROVE ts \subseteq Hull(ts)
<1>1. \A t \in Times : t \in Nat
    BY IngestionAssumption DEF Times, Lines
<1> QED BY <1>1 DEF Hull

LEMMA RowTimes == ASSUME NEW rows \in SUBSET Rows
                  PROVE /\ TimesIn(rows) \in SUBSET Times
                        /\ \A r \in rows : TimeOf[r.line] \in TimesIn(rows)
BY DEF TimesIn, Rows, Times

LEMMA InitInv == Init => Inv
<1> SUFFICES ASSUME Init PROVE Inv OBVIOUS
<1>1. TypeOK
    <2>1. [len |-> 0, gen |-> 0] \in Stamps
        BY IngestionAssumption DEF Stamps, Halves
    <2>2. [log |-> NoLog, rows |-> {}] \in [log : Logs, rows : SUBSET Rows]
        BY NoLogType
    <2> QED BY <2>1, <2>2, NoLogType, NoScanType DEF Init, TypeOK, ScanType
<1>2. Memory /\ Ledger(db.log, db.rows) /\ scan.step = "idle"
    BY VersionsArePositive
    DEF Init, Memory, Ledger, NoLog, NewLog, NoVersion, NoScan
<1> QED BY <1>1, <1>2 DEF Inv

-----------------------------------------------------------------------------
(* A step that leaves the database, what Memory says and the read alone.   *)
LEMMA QuietStep ==
    ASSUME Inv, TypeOK', UNCHANGED <<up, version, head, cache, scan, db>>
    PROVE  Inv'
BY DEF Inv, Memory, Ledger, Reading, From, NoLog, NewLog, NoVersion

\* A step of the read that leaves the database and the checkpoint alone.
LEMMA ReadStep ==
    ASSUME Inv, TypeOK', UNCHANGED <<up, version, head, db>>,
           up => cache' \in {NoLog, db.log},
           scan'.step # "idle" => Reading'
    PROVE  Inv'
BY DEF Inv, Memory, Ledger, NoLog, NewLog, NoVersion

LEMMA ClientKeeps == Inv /\ ClientStep => Inv'
<1> SUFFICES ASSUME Inv, ClientStep PROVE Inv' OBVIOUS
<1> USE DEF Inv
<1>1. CASE Write
    <2>1. TypeOK'
        BY <1>1 DEF Write, TypeOK, Stamps, memoryVars, readsVars
    <2> QED BY <2>1, <1>1, QuietStep DEF Write, memoryVars
<1>2. CASE \E len \in Halves : Rewrite(len)
    <2>1. TypeOK'
        BY <1>2, IngestionAssumption DEF Rewrite, TypeOK, Stamps, memoryVars, readsVars
    <2> QED BY <2>1, <1>2, QuietStep DEF Rewrite, memoryVars
<1> QED BY <1>1, <1>2 DEF ClientStep

LEMMA StartKeeps == ASSUME Inv, NEW v \in Versions, Start(v) PROVE Inv'
<1>1. TypeOK'
    <2>1. db.log \in Logs
        BY DEF Inv, TypeOK
    <2> QED BY <2>1, NoLogType, NoScanType DEF Inv, Start, Blank, TypeOK, ScanType
<1>2. Memory' /\ Ledger(db.log, db.rows)' /\ scan'.step = "idle"
    BY VersionsArePositive DEF Inv, TypeOK, Start, Blank, Memory, Ledger, NoScan, Logs
<1> QED BY <1>1, <1>2 DEF Inv

LEMMA CrashKeeps == Inv /\ Crash => Inv'
<1> SUFFICES ASSUME Inv, Crash PROVE Inv' OBVIOUS
<1>1. TypeOK'
    BY NoLogType, NoScanType DEF Inv, Crash, Blank, TypeOK, ScanType
<1>2. Memory' /\ Ledger(db.log, db.rows)' /\ scan'.step = "idle"
    BY DEF Inv, Crash, Blank, Memory, Ledger, NoScan
<1> QED BY <1>1, <1>2 DEF Inv

\* Listing, reminders, failed loads and pauses.
LEMMA WaitKeeps == Inv /\ (List \/ Remind \/ Restamp \/ LoadFails \/ PauseEnds) => Inv'
<1> SUFFICES ASSUME Inv, List \/ Remind \/ Restamp \/ LoadFails \/ PauseEnds PROVE Inv'
    OBVIOUS
<1>1. TypeOK'
    BY DEF Inv, TypeOK, List, Remind, Restamp, LoadFails, PauseEnds
<1> QED BY <1>1, QuietStep DEF List, Remind, Restamp, LoadFails, PauseEnds

-----------------------------------------------------------------------------
(* The steps of a read.                                                    *)

LEMMA BeginResetKeeps == Inv /\ BeginReset => Inv'
<1> SUFFICES ASSUME Inv, BeginReset PROVE Inv' OBVIOUS
<1> DEFINE carry == head # NoLog /\ Same(head, listed) /\ head.ver # version
           log == NewLog(version, carry)
<1>1. log \in Logs
    BY NewLogType, VersionsArePositive DEF Inv, TypeOK
<1>2. scan' = [step |-> "opening", log |-> log, reset |-> TRUE, budget |-> Budget, events |-> {}]
    BY DEF BeginReset, NoScan
<1>3. TypeOK'
    <2>1. scan' \in ScanType
        <3> HIDE DEF log
        <3> QED BY <1>1, <1>2, IngestionAssumption DEF ScanType
    <2> QED BY <2>1 DEF Inv, TypeOK, ScanType, BeginReset
<1>4. Reading'
    <2>1. carry => db.log.ver < version
        BY VersionsArePositive DEF Inv, TypeOK, Logs, Memory, BeginReset, Due
    <2>2. log.ver = version /\ log.offset = 0 /\ log.span = {} /\ log.carried = carry
        BY DEF NewLog
    <2>3. db' = db /\ version' = version /\ up' = up /\ up
        BY DEF BeginReset, Due
    <2> HIDE DEF log, carry
    <2>4. scan'.log = log /\ scan'.reset = TRUE /\ scan'.events = {} /\ scan'.step = "opening"
        BY <1>2
    <2> QED BY <2>1, <2>2, <2>3, <2>4 DEF Reading, From
<1> QED BY <1>3, <1>4, ReadStep DEF BeginReset, Inv, Memory

LEMMA BeginKeeps == Inv /\ Begin => Inv'
<1> SUFFICES ASSUME Inv, Begin PROVE Inv' OBVIOUS
<1>1. Parser = db.log /\ up /\ db.log.ver = version
    BY DEF Inv, Memory, Parser, Begin, Due, Reset
<1>2. TypeOK'
    <2>1. scan' \in ScanType
        <3>1. db.log \in Logs /\ scan \in ScanType /\ Budget \in 0..Budget
            BY IngestionAssumption DEF Inv, TypeOK, ScanType
        <3> QED BY <3>1, <1>1 DEF Begin, NoScan, ScanType
    <2> QED BY <2>1, NoLogType DEF Inv, TypeOK, ScanType, Begin
<1>3. scan'.step # "idle" => Reading'
    <2>1. CASE Done(Parser) /\ ~forced
        BY <2>1 DEF Begin, Due
    <2>2. CASE ~(Done(Parser) /\ ~forced)
        <3>1. scan' = [step |-> "opening", log |-> db.log, reset |-> FALSE, budget |-> Budget,
                       events |-> {}]
            BY <2>2, <1>1 DEF Begin, NoScan
        <3>2. db.log.offset \in Nat /\ db' = db /\ version' = version /\ up'
            BY <1>1 DEF Inv, TypeOK, Logs, Begin
        <3> QED BY <3>1, <3>2, <1>1 DEF Reading, From
    <2> QED BY <2>1, <2>2
<1> QED BY <1>2, <1>3, ReadStep DEF Begin

\* What opening and the end of reading leave of the read.
Carries(next) ==
    /\ next.log.offset = scan.log.offset /\ next.log.ver = scan.log.ver
    /\ next.log.carried = scan.log.carried /\ next.log.span = scan.log.span
    /\ next.reset = scan.reset /\ next.events = scan.events
    /\ next.step \in {"reading", "committing"}
    /\ next \in ScanType

LEMMA WaitingCarries ==
    ASSUME scan \in ScanType, NEW step \in {"reading", "committing"}, NEW waiting \in BOOLEAN
    PROVE  /\ Carries([scan EXCEPT !.step = step])
           /\ Carries([scan EXCEPT !.step = step, !.log.waiting = waiting])
<1>1. [scan.log EXCEPT !.waiting = waiting] \in Logs
    BY DEF ScanType, Logs
<1>2. [scan EXCEPT !.step = step] =
          [step |-> step, log |-> scan.log, reset |-> scan.reset, budget |-> scan.budget,
           events |-> scan.events]
    BY DEF ScanType
<1>3. [scan EXCEPT !.step = step, !.log.waiting = waiting] =
          [step |-> step, log |-> [scan.log EXCEPT !.waiting = waiting], reset |-> scan.reset,
           budget |-> scan.budget, events |-> scan.events]
    <2> DEFINE log == [scan.log EXCEPT !.waiting = waiting]
    <2>1. [scan EXCEPT !.step = step, !.log = log] =
              [step |-> step, log |-> log, reset |-> scan.reset,
               budget |-> scan.budget, events |-> scan.events]
        <3> HIDE DEF log
        <3> DEFINE next == [step |-> step, log |-> scan.log, reset |-> scan.reset,
                            budget |-> scan.budget, events |-> scan.events]
        <3>1. [scan EXCEPT !.step = step, !.log = log] = [next EXCEPT !.log = log]
            BY <1>2
        <3> QED BY <3>1
    <2>2. [scan EXCEPT !.step = step, !.log.waiting = waiting] =
              [scan EXCEPT !.step = step, !.log = log]
        BY DEF ScanType
    <2> QED BY <2>1, <2>2
<1>4. scan.log \in Logs
    BY DEF ScanType
<1>5. Carries([scan EXCEPT !.step = step])
    BY <1>2, <1>4 DEF Carries, ScanType
<1>6. Carries([scan EXCEPT !.step = step, !.log.waiting = waiting])
    <2> DEFINE log == [scan.log EXCEPT !.waiting = waiting]
    <2>1. /\ log.offset = scan.log.offset /\ log.ver = scan.log.ver
          /\ log.carried = scan.log.carried /\ log.span = scan.log.span
        BY <1>4 DEF Logs
    <2> HIDE DEF log
    <2> QED BY <1>1, <1>3, <2>1 DEF Carries, ScanType, log
<1> QED BY <1>5, <1>6

LEMMA OpenKeeps == Inv /\ (Open \/ OpenFails \/ ReadEnd \/ ReadFails) => Inv'
<1> SUFFICES ASSUME Inv, Open \/ OpenFails \/ ReadEnd \/ ReadFails PROVE Inv' OBVIOUS
<1>1. Carries(scan') /\ scan.step # "idle"
    <2>1. scan \in ScanType
        BY DEF Inv, TypeOK, ScanType
    <2>2. (scan.budget > 0 /\ file.len > 2 * scan.log.offset) \in BOOLEAN
        OBVIOUS
    <2> QED BY <2>1, <2>2, WaitingCarries DEF Open, OpenFails, ReadEnd, ReadFails
<1>2. /\ UNCHANGED <<file, up, version, listed, pending, forced, head, cache, db>>
      /\ failed' \in {failed, "no", "pausing"}
    BY DEF Open, OpenFails, ReadEnd, ReadFails, readsVars
<1>3. TypeOK'
    BY <1>1, <1>2 DEF Inv, TypeOK, Carries, ScanType
<1>4. Reading'
    BY <1>1, <1>2 DEF Inv, Reading, From, Carries
<1> QED BY <1>2, <1>3, <1>4, ReadStep DEF Inv, Memory

LEMMA ReadLineKeeps == Inv /\ ReadLine => Inv'
<1> SUFFICES ASSUME Inv, ReadLine PROVE Inv' OBVIOUS
<1> DEFINE new == [line |-> scan.log.offset + 1, gen |-> file.gen, ver |-> version]
<1>1. scan' = [scan EXCEPT !.log.offset = @ + 1, !.budget = @ - 1, !.events = @ \cup {new}]
    BY DEF ReadLine
<1>2. /\ scan.step = "reading" /\ scan.budget > 0 /\ scan.log.offset + 1 \in Lines
      /\ UNCHANGED <<file, up, version, listed, pending, forced, failed, head, cache, db>>
    BY DEF ReadLine, Whole, readsVars
<1>3. new \in Rows
    BY <1>2, VersionsArePositive DEF Inv, TypeOK, Stamps, Rows
<1>4. /\ scan'.step = "reading" /\ scan'.reset = scan.reset
      /\ scan'.log = [scan.log EXCEPT !.offset = @ + 1]
      /\ scan'.budget = scan.budget - 1
      /\ scan'.events = scan.events \cup {new}
      /\ scan' = [step |-> "reading", log |-> scan'.log, reset |-> scan.reset,
                  budget |-> scan.budget - 1, events |-> scan'.events]
    BY <1>1, <1>2 DEF Inv, TypeOK
<1>5. scan'.log \in Logs
    <2>1. Len(TimeOf) \in Nat /\ scan.log \in Logs
        BY IngestionAssumption DEF Inv, TypeOK
    <2>2. scan.log.offset + 1 \in 0..Len(TimeOf)
        BY <1>2, <2>1 DEF Lines, Logs
    <2> QED BY <1>4, <2>1, <2>2 DEF Logs
<1>6. TypeOK'
    BY <1>2, <1>3, <1>4, <1>5, IngestionAssumption DEF Inv, TypeOK
<1>7. Reading'
    <2>1. /\ scan'.log.offset = scan.log.offset + 1 /\ scan'.log.ver = scan.log.ver
          /\ scan'.log.carried = scan.log.carried /\ scan'.log.span = scan.log.span
        BY <1>4 DEF Inv, TypeOK, Logs
    <2>2. From' = From /\ From \in Nat /\ scan.log.offset \in Nat /\ Reading
        BY <1>2, <1>4 DEF Inv, From, TypeOK, Logs
    <2>3. new.line = scan.log.offset + 1 /\ new.ver = version
        OBVIOUS
    <2>4. \A i \in (From + 1)..(scan.log.offset + 1) :
              \E e \in scan.events \cup {new} : e.line = i
        <3>1. \A i \in (From + 1)..scan.log.offset : \E e \in scan.events : e.line = i
            BY <2>2 DEF Reading
        <3> HIDE DEF new
        <3> QED BY <3>1, <2>2, <2>3
    <2>5. \A e \in scan.events \cup {new} :
              e.ver = version /\ e.line \in (From + 1)..(scan.log.offset + 1)
        <3>1. From <= scan.log.offset
            BY <2>2 DEF Reading
        <3>2. \A e \in scan.events : e.ver = version /\ e.line \in (From + 1)..scan.log.offset
            BY <2>2 DEF Reading
        <3> HIDE DEF new
        <3> QED BY <3>1, <3>2, <2>2, <2>3
    <2>6. \A e, f \in scan.events \cup {new} : e.line = f.line => e = f
        <3>1. \A e \in scan.events : e.line # new.line
            <4>1. \A e \in scan.events : e.line \in (From + 1)..scan.log.offset
                BY <2>2 DEF Reading
            <4> HIDE DEF new
            <4> QED BY <4>1, <2>2, <2>3
        <3>2. \A e, f \in scan.events : e.line = f.line => e = f
            BY <2>2 DEF Reading
        <3> HIDE DEF new
        <3> QED BY <3>1, <3>2
    <2> HIDE DEF new
    <2> QED BY <1>2, <1>4, <2>1, <2>2, <2>4, <2>5, <2>6 DEF Reading
<1> QED BY <1>2, <1>6, <1>7, ReadStep DEF Inv, Memory

-----------------------------------------------------------------------------
(* The commit.                                                             *)

\* What a reset without a handover leaves is what it read.
LEMMA ResetLedger ==
    ASSUME TypeOK, Reading, scan.reset, NEW log \in Logs,
           log.offset = scan.log.offset, log.ver = version, ~log.carried
    PROVE  Ledger(log, scan.events)
<1>1. /\ From = 0 /\ version \in Nat
      /\ \A i \in 1..log.offset : \E e \in scan.events : e.line = i
    BY VersionsArePositive DEF TypeOK, Reading, From
<1>2. /\ \A e \in scan.events : e.ver = version /\ e.line \in 1..log.offset
      /\ \A e, f \in scan.events : e.line = f.line => e = f
    BY <1>1 DEF Reading
<1> QED BY <1>1, <1>2 DEF Ledger

\* Reading on adds what it read to what was there.
LEMMA GrowLedger ==
    ASSUME TypeOK, Reading, ~scan.reset, Ledger(db.log, db.rows), NEW log \in Logs,
           NEW old \in SUBSET db.rows,
           \A r \in old : r.ver = db.log.ver,
           \A r \in db.rows : r.ver = db.log.ver => r \in old,
           log.offset = scan.log.offset, log.ver = version, ~log.carried
    PROVE  Ledger(log, old \cup scan.events)
<1>1. /\ db.log.ver = version /\ From = db.log.offset
      /\ db.log.offset \in Nat /\ scan.log.offset \in Nat /\ version \in Nat
    BY VersionsArePositive DEF Reading, From, TypeOK, Logs
<1>2. \A i \in 1..log.offset : \E r \in old \cup scan.events : r.line = i /\ r.ver = log.ver
    <2> SUFFICES ASSUME NEW i \in 1..log.offset
                 PROVE \E r \in old \cup scan.events : r.line = i /\ r.ver = log.ver
        OBVIOUS
    <2>1. CASE i <= db.log.offset
        BY <1>1, <2>1 DEF Ledger
    <2>2. CASE i > db.log.offset
        BY <1>1, <2>2 DEF Reading
    <2> QED BY <1>1, <2>1, <2>2
<1>3. \A r \in old \cup scan.events : r.ver = log.ver /\ r.line \in 1..log.offset
    BY <1>1 DEF Ledger, Reading
<1>4. \A r, s \in old \cup scan.events : r.line = s.line => r = s
    <2>1. \A r \in old, s \in scan.events : r.line # s.line
        BY <1>1 DEF Ledger, Reading
    <2> QED BY <2>1 DEF Ledger, Reading
<1> QED BY <1>1, <1>2, <1>3, <1>4 DEF Ledger, Logs

\* A handover that goes on: the span it covers grows over what it read, and
\* what was counted by other rules inside of it goes.
LEMMA CarryLedger ==
    ASSUME TypeOK, Reading, Ledger(db.log, db.rows), scan.log.carried, NEW log \in Logs,
           NEW span \in SUBSET Times,
           scan.log.span \subseteq span, TimesIn(scan.events) \subseteq span,
           log.offset = scan.log.offset, log.ver = version, log.carried, log.span = span
    PROVE  Ledger(log, {r \in db.rows : TimeOf[r.line] \notin span \ scan.log.span} \cup scan.events)
<1> DEFINE old == {r \in db.rows : TimeOf[r.line] \notin span \ scan.log.span}
<1>1. /\ db.log.offset \in Nat /\ scan.log.offset \in Nat /\ version \in Nat
      /\ db.log.ver \in Nat /\ scan.events \in SUBSET Rows /\ db.rows \in SUBSET Rows
      /\ scan.reset \in BOOLEAN
    BY VersionsArePositive DEF TypeOK, Logs
<1>2. \A e \in scan.events : TimeOf[e.line] \in span
    BY <1>1, RowTimes
<1>3. CASE scan.reset
    <2>1. scan.log.span = {} /\ db.log.ver < version /\ From = 0
        BY <1>3 DEF Reading, From
    <2>2. \A r \in old : r.ver < version /\ TimeOf[r.line] \notin span
        BY <1>1, <2>1 DEF Ledger, Rows
    <2>3. \A r \in old, e \in scan.events : r.line # e.line
        BY <1>2, <2>2
    <2>4. \A r, s \in old : r.line = s.line => r = s
        BY DEF Ledger
    <2> HIDE DEF old
    <2>5. \A r \in old : r.ver \in Nat
        BY <1>1, <2>2 DEF old, Rows
    <2>6. Ledger(log, old \cup scan.events)
        BY <1>1, <1>2, <2>1, <2>2, <2>3, <2>4, <2>5 DEF Ledger, Reading
    <2> QED BY <2>6 DEF old
<1>4. CASE ~scan.reset
    <2>1. /\ scan.log.span = db.log.span /\ db.log.ver = version /\ db.log.carried
          /\ From = db.log.offset
        BY <1>4 DEF Reading, From
    <2>2. \A r \in old : IF r.ver = version THEN TimeOf[r.line] \in span
                                            ELSE r.ver <= version /\ TimeOf[r.line] \notin span
        BY <1>1, <2>1 DEF Ledger
    <2>3. \A r \in db.rows : r.ver = version => r \in old /\ r.line \in 1..db.log.offset
        BY <2>1 DEF Ledger
    <2>4. \A r \in old, e \in scan.events : r.line # e.line
        <3> SUFFICES ASSUME NEW r \in old, NEW e \in scan.events PROVE r.line # e.line
            OBVIOUS
        <3>1. CASE r.ver = version
            BY <1>1, <2>1, <2>3, <3>1 DEF Reading
        <3>2. CASE r.ver # version
            BY <1>2, <2>2, <3>2
        <3> QED BY <3>1, <3>2
    <2>5. \A r, s \in old : r.line = s.line => r = s
        BY DEF Ledger
    <2>6. \A i \in 1..log.offset : \E r \in old \cup scan.events : r.line = i /\ r.ver = log.ver
        <3> SUFFICES ASSUME NEW i \in 1..log.offset
                     PROVE \E r \in old \cup scan.events : r.line = i /\ r.ver = log.ver
            OBVIOUS
        <3>1. CASE i <= db.log.offset
            <4>1. PICK r \in db.rows : r.line = i /\ r.ver = version
                BY <1>1, <2>1, <3>1 DEF Ledger
            <4> QED BY <4>1, <2>3
        <3>2. CASE i > db.log.offset
            BY <1>1, <2>1, <3>2 DEF Reading
        <3> QED BY <1>1, <3>1, <3>2
    <2>7. \A r \in old \cup scan.events : r.ver = version => r.line \in 1..log.offset
        <3> SUFFICES ASSUME NEW r \in old \cup scan.events, r.ver = version
                     PROVE r.line \in 1..log.offset
            OBVIOUS
        <3>1. CASE r \in old
            BY <1>1, <2>1, <2>3, <3>1 DEF Reading
        <3>2. CASE r \in scan.events
            BY <1>1, <2>1, <3>2 DEF Reading
        <3> QED BY <3>1, <3>2
    <2> HIDE DEF old
    <2>8. \A e \in scan.events : e.ver = version
        BY DEF Reading
    <2>9. Ledger(log, old \cup scan.events)
        BY <1>1, <1>2, <2>2, <2>4, <2>5, <2>6, <2>7, <2>8 DEF Ledger, Reading
    <2> QED BY <2>9 DEF old
<1> QED BY <1>1, <1>3, <1>4

LEMMA CheckpointType ==
    ASSUME Inv, scan.step = "committing"
    PROVE  /\ Checkpoint \in Logs
           /\ Checkpoint.offset = scan.log.offset /\ Checkpoint.ver = version
           /\ Checkpoint.carried = (scan.log.carried /\ ~ReadWhole)
           /\ Checkpoint.carried =>
                  Checkpoint.span = Hull(scan.log.span \cup TimesIn(scan.events))
<1>1. /\ scan.log \in Logs /\ scan.events \in SUBSET Rows
      /\ listed \in [len : Halves, gen : 0..(MaxRewrites + 1)]
    BY IngestionAssumption DEF Inv, TypeOK, Stamps, NoStamp, Halves
<1>2. /\ Stamped \in Logs /\ Stamped.offset = scan.log.offset /\ Stamped.ver = scan.log.ver
      /\ Stamped.span = scan.log.span
    BY <1>1 DEF Stamped, Logs
<1>3. Hull(scan.log.span \cup TimesIn(scan.events)) \in SUBSET Times
    BY DEF Hull
<1>4. ReadWhole \in BOOLEAN
    BY DEF ReadWhole
<1>5. scan.log.ver = version /\ scan.log.carried \in BOOLEAN
    BY <1>1 DEF Inv, Reading, Logs
<1> HIDE DEF Stamped, ReadWhole
<1> QED BY <1>2, <1>3, <1>4, <1>5 DEF Checkpoint, Logs

LEMMA CommitLedger ==
    ASSUME Inv, scan.step = "committing"
    PROVE  Ledger(Checkpoint, Kept \cup scan.events)
<1> USE DEF Inv
<1>1. Reading OBVIOUS
<1>2. /\ scan.log.span \in SUBSET Times /\ scan.events \in SUBSET Rows
      /\ db.rows \in SUBSET Rows /\ scan.log.carried \in BOOLEAN /\ scan.reset \in BOOLEAN
    BY DEF TypeOK, Logs
<1>3. CASE ~scan.log.carried
    <2>1. ~Checkpoint.carried
        BY <1>3, CheckpointType
    <2>2. CASE scan.reset
        <3>1. Kept \cup scan.events = scan.events
            BY <1>3, <2>2 DEF Kept
        <3> QED BY <3>1, <1>1, <2>1, <2>2, CheckpointType, ResetLedger
    <2>3. CASE ~scan.reset
        <3>1. Kept = db.rows
            BY <1>3, <2>3 DEF Kept
        <3>2. \A r \in db.rows : r.ver = db.log.ver
            BY <1>1, <1>3, <2>3 DEF Reading, Ledger
        <3> QED BY <3>1, <3>2, <1>1, <2>1, <2>3, CheckpointType, GrowLedger
    <2> QED BY <2>2, <2>3
<1>4. CASE scan.log.carried /\ ReadWhole
    <2>1. ~Checkpoint.carried
        BY <1>4, CheckpointType
    <2>2. Kept = {r \in db.rows : TimeOf[r.line] \in scan.log.span}
        <3>1. \A r \in db.rows : TimeOf[r.line] \in Times
            BY <1>2 DEF Rows, Times
        <3> QED BY <3>1, <1>4 DEF Kept, Covers
    <2>3. CASE scan.reset
        <3>1. Kept \cup scan.events = scan.events
            BY <1>1, <2>2, <2>3 DEF Reading
        <3> QED BY <3>1, <1>1, <2>1, <2>3, CheckpointType, ResetLedger
    <2>4. CASE ~scan.reset
        <3>1. \A r \in db.rows : r.ver = db.log.ver <=> r \in Kept
            BY <1>1, <1>4, <2>2, <2>4 DEF Reading, Ledger
        <3>2. Kept \in SUBSET db.rows
            BY <2>2
        <3> QED BY <3>1, <3>2, <1>1, <2>1, <2>4, CheckpointType, GrowLedger
    <2> QED BY <2>3, <2>4
<1>5. CASE scan.log.carried /\ ~ReadWhole
    <2> DEFINE ts == scan.log.span \cup TimesIn(scan.events)
               span == Hull(ts)
    <2>1. ts \in SUBSET Times
        BY <1>2, RowTimes
    <2>2. ts \subseteq span /\ span \in SUBSET Times
        BY <2>1, HullHolds DEF Hull
    <2>3. Kept = {r \in db.rows : TimeOf[r.line] \notin span \ scan.log.span}
        BY <1>5 DEF Kept, Covers
    <2>4. Checkpoint.carried /\ Checkpoint.span = span
        BY <1>5, CheckpointType
    <2> HIDE DEF span
    <2> QED BY <1>1, <1>5, <2>2, <2>3, <2>4, CheckpointType, CarryLedger
<1> QED BY <1>2, <1>3, <1>4, <1>5 DEF ReadWhole

LEMMA CommitKeeps == Inv /\ Commit => Inv'
<1> SUFFICES ASSUME Inv, Commit PROVE Inv' OBVIOUS
<1>1. scan.step = "committing" /\ db' = [log |-> Checkpoint, rows |-> Kept \cup scan.events]
    BY DEF Commit
<1>2. Checkpoint \in Logs /\ Checkpoint.ver = version
    BY <1>1, CheckpointType
<1>3. Kept \cup scan.events \in SUBSET Rows
    BY DEF Inv, TypeOK, Kept
<1>4. TypeOK'
    BY <1>1, <1>2, <1>3, NoLogType, IngestionAssumption
    DEF Inv, TypeOK, Commit, NoScan
<1>5. Memory'
    <2>1. version \in Nat /\ version' = version /\ db'.log = Checkpoint
        BY <1>1, VersionsArePositive DEF Inv, TypeOK, Commit
    <2>2. head' = Checkpoint /\ cache' \in {Checkpoint, NoLog}
        BY DEF Commit
    <2> QED BY <1>2, <2>1, <2>2 DEF Memory, NoLog, NewLog, NoVersion
<1>6. Ledger(db.log, db.rows)'
    <2>1. Ledger(Checkpoint, Kept \cup scan.events)
        BY <1>1, CommitLedger
    <2>2. Ledger(db.log, db.rows)' <=> Ledger(db'.log, db'.rows)
        BY DEF Ledger
    <2> QED BY <1>1, <2>1, <2>2
<1>7. scan'.step = "idle"
    BY DEF Commit, NoScan
<1> QED BY <1>4, <1>5, <1>6, <1>7 DEF Inv

LEMMA CommitFailsKeeps == Inv /\ CommitFails => Inv'
<1> SUFFICES ASSUME Inv, CommitFails PROVE Inv' OBVIOUS
<1>1. TypeOK'
    BY NoScanType DEF Inv, TypeOK, ScanType, CommitFails, readsVars
<1>2. scan'.step = "idle"
    BY DEF CommitFails, NoScan
<1> QED BY <1>1, <1>2, ReadStep DEF CommitFails, Inv, Memory

-----------------------------------------------------------------------------
LEMMA NextKeeps == Inv /\ [Next]_vars => Inv'
<1> SUFFICES ASSUME Inv, [Next]_vars PROVE Inv' OBVIOUS
<1>1. CASE Next
    <2>1. CASE \E v \in Versions : Start(v)
        BY <2>1, StartKeeps
    <2>2. CASE Pass
        BY <2>2, WaitKeeps, BeginResetKeeps, BeginKeeps, OpenKeeps, ReadLineKeeps, CommitKeeps
        DEF Pass
    <2>3. CASE Trouble
        BY <2>3, WaitKeeps, OpenKeeps, CommitFailsKeeps DEF Trouble
    <2> QED BY <1>1, <2>1, <2>2, <2>3, ClientKeeps, CrashKeeps, WaitKeeps DEF Next
<1>2. CASE UNCHANGED vars
    <2>1. TypeOK'
        BY <1>2 DEF Inv, TypeOK, vars, memoryVars, readsVars
    <2> QED BY <2>1, <1>2, QuietStep DEF vars, memoryVars
<1> QED BY <1>1, <1>2

\* The inductive invariant holds in every reachable state.
THEOREM Invariant == Spec => []Inv
BY InitInv, NextKeeps, PTL DEF Spec

\* Every variable keeps to its type, whatever fails and whenever the app dies.
THEOREM TypeCorrect == Spec => []TypeOK
<1>1. Inv => TypeOK
    BY DEF Inv
<1> QED BY <1>1, Invariant, PTL

\* The ledger holds exactly the lines before its checkpoint's offset and what a
\* handover has yet to replace (scan's one transaction per read).
THEOREM LedgerMatches == Spec => []CheckpointMatches
<1>1. Inv => CheckpointMatches
    <2> SUFFICES ASSUME Inv PROVE CheckpointMatches OBVIOUS
    <2>1. Ledger(db.log, db.rows)
        BY DEF Inv
    <2>2. CountedBy(db.log.ver) = 1..db.log.offset
        BY <2>1 DEF Ledger, CountedBy
    <2> QED BY <2>1, <2>2 DEF Ledger, CheckpointMatches
<1> QED BY <1>1, Invariant, PTL

\* No line is counted twice, at any point of any handover.
THEOREM CountedOnce == Spec => []OneRowPerLine
<1>1. Inv => OneRowPerLine
    BY DEF Inv, Ledger, OneRowPerLine
<1> QED BY <1>1, Invariant, PTL

-----------------------------------------------------------------------------
(* ShorterIsReplaced: a read that began when the log was listed shorter    *)
(* than before starts from nothing, carries nothing, and takes what it     *)
(* reads from the file as it was listed or as it became since.             *)

Fresh ==
    /\ listed # NoStamp => listed.gen <= file.gen
    /\ scan.step # "idle" =>
           /\ listed # NoStamp
           /\ listed.len < db.log.len => scan.reset /\ ~scan.log.carried
           /\ \A e \in scan.events : e.gen >= listed.gen

LEMMA FreshInit == Init => Fresh
BY DEF Init, Fresh, NoScan

\* A step that leaves the listing, the read and the database alone.
LEMMA FreshQuiet ==
    ASSUME Inv, Fresh, UNCHANGED <<listed, scan, db>>,
           file'.gen \in Nat, file'.gen >= file.gen
    PROVE  Fresh'
BY DEF Fresh, Inv, TypeOK, Stamps

\* A step after which no read is in progress.
LEMMA FreshIdle ==
    ASSUME Inv, Fresh, file' = file, listed' \in {listed, file, NoStamp}, scan'.step = "idle"
    PROVE  Fresh'
BY DEF Fresh, Inv, TypeOK, Stamps

\* A step of a read: its events and what it carries stay.
LEMMA FreshRead ==
    ASSUME Inv, Fresh, UNCHANGED <<file, listed, db>>, scan.step # "idle",
           scan'.reset = scan.reset, scan'.log.carried = scan.log.carried,
           \A e \in scan'.events : e \in scan.events \/ e.gen = file.gen
    PROVE  Fresh'
BY DEF Fresh, Inv, TypeOK, Stamps

LEMMA FreshBegins == ASSUME Inv, Fresh, BeginReset \/ Begin PROVE Fresh'
<1>1. /\ UNCHANGED <<file, listed, db>> /\ scan.step = "idle" /\ listed # NoStamp
      /\ head = db.log
    BY DEF BeginReset, Begin, Due, Inv, Memory
<1>2. listed.len \in Nat /\ db.log.len \in Nat
    <2>1. Halves \subseteq Nat
        BY IngestionAssumption DEF Halves
    <2>2. listed \in Stamps /\ db.log \in Logs
        BY <1>1 DEF Inv, TypeOK
    <2>3. listed.len \in Halves /\ db.log.len \in Halves
        BY <2>2 DEF Stamps, Logs
    <2> QED BY <2>1, <2>3
<1>3. CASE BeginReset
    <2> DEFINE carry == head # NoLog /\ Same(head, listed) /\ head.ver # version
               log == NewLog(version, carry)
    <2>1. scan'.reset = TRUE /\ scan'.events = {} /\ scan'.log = log
        BY <1>3 DEF BeginReset, NoScan
    <2>2. log.carried = carry
        BY DEF NewLog
    <2>3. listed.len < db.log.len => ~carry
        BY <1>1, <1>2 DEF Same
    <2> HIDE DEF log, carry
    <2> QED BY <1>1, <2>1, <2>2, <2>3 DEF Fresh
<1>4. CASE Begin
    <2>1. ~(listed.len < db.log.len)
        BY <1>1, <1>4 DEF Begin, Reset
    <2>2. scan'.events = {} \/ scan' = scan
        BY <1>4 DEF Begin, NoScan
    <2> QED BY <1>1, <2>1, <2>2 DEF Fresh
<1> QED BY <1>3, <1>4

LEMMA FreshReads ==
    ASSUME Inv, Fresh, Open \/ OpenFails \/ ReadLine \/ ReadEnd \/ ReadFails
    PROVE  Fresh'
<1>1. scan.step # "idle" /\ UNCHANGED <<file, listed, db>>
    BY DEF Open, OpenFails, ReadLine, ReadEnd, ReadFails, readsVars
<1>2. scan \in ScanType
    BY DEF Inv, TypeOK, ScanType
<1>3. scan'.reset = scan.reset /\ scan'.log.carried = scan.log.carried
    <2>1. CASE ReadLine
        BY <1>2, <2>1 DEF ScanType, Logs, ReadLine
    <2>2. CASE Open
        BY <1>2, <2>2 DEF ScanType, Logs, Open
    <2>3. CASE ReadEnd
        BY <1>2, <2>3 DEF ScanType, Logs, ReadEnd
    <2>4. CASE OpenFails \/ ReadFails
        BY <1>2, <2>4 DEF ScanType, Logs, OpenFails, ReadFails
    <2> QED BY <2>1, <2>2, <2>3, <2>4
<1>4. \A e \in scan'.events : e \in scan.events \/ e.gen = file.gen
    <2>1. CASE ReadLine
        <3>1. scan'.events = scan.events \cup
                  {[line |-> scan.log.offset + 1, gen |-> file.gen, ver |-> version]}
            BY <1>2, <2>1 DEF ScanType, ReadLine
        <3> QED BY <3>1
    <2>2. CASE Open \/ ReadEnd \/ OpenFails \/ ReadFails
        BY <1>2, <2>2 DEF ScanType, Open, ReadEnd, OpenFails, ReadFails
    <2> QED BY <2>1, <2>2
<1> QED BY <1>1, <1>3, <1>4, FreshRead

LEMMA FreshClient == ASSUME Inv, Fresh, ClientStep PROVE Fresh'
<1>1. file \in Stamps /\ MaxRewrites \in Nat
    BY IngestionAssumption DEF Inv, TypeOK
<1>2. file'.gen \in Nat /\ file'.gen >= file.gen
    BY <1>1 DEF ClientStep, Write, Rewrite, Stamps
<1>3. UNCHANGED <<listed, scan, db>>
    BY DEF ClientStep, Write, Rewrite, memoryVars, readsVars
<1> QED BY <1>2, <1>3, FreshQuiet

LEMMA FreshNext == Inv /\ Fresh /\ [Next]_vars => Fresh'
<1> SUFFICES ASSUME Inv, Fresh, [Next]_vars PROVE Fresh' OBVIOUS
<1>1. file.gen \in Nat
    BY IngestionAssumption DEF Inv, TypeOK, Stamps
<1>2. CASE Remind \/ LoadFails \/ PauseEnds \/ UNCHANGED vars
    BY <1>1, <1>2, FreshQuiet DEF Remind, LoadFails, PauseEnds, vars, memoryVars, readsVars
<1>3. CASE List \/ Restamp \/ Crash \/ (\E v \in Versions : Start(v)) \/ Commit \/ CommitFails
    BY <1>3, FreshIdle
    DEF List, Restamp, Crash, Start, Blank, Commit, CommitFails, NoScan, readsVars
<1> QED BY <1>2, <1>3, FreshBegins, FreshReads, FreshClient DEF Next, Pass, Trouble

\* A log that was listed shorter than before keeps no row of what it held,
\* however often it is started over and whatever fails (reset in scan).
THEOREM ShorterReplaced == Spec => ShorterIsReplaced
<1>1. Inv /\ Fresh /\ Commit /\ listed.len < db.log.len =>
          \A r \in db'.rows : r.gen >= listed.gen
    <2> SUFFICES ASSUME Inv, Fresh, Commit, listed.len < db.log.len
                 PROVE  \A r \in db'.rows : r.gen >= listed.gen
        OBVIOUS
    <2>1. scan.step # "idle" /\ db'.rows = Kept \cup scan.events
        BY DEF Commit
    <2>2. scan.reset /\ ~scan.log.carried
        BY <2>1 DEF Fresh
    <2>3. Kept = {}
        BY <2>2 DEF Kept
    <2> QED BY <2>1, <2>3 DEF Fresh
<1>2. Inv /\ Fresh /\ [Next]_vars =>
          [Commit /\ listed.len < db.log.len => \A r \in db'.rows : r.gen >= listed.gen]_vars
    BY <1>1
<1>3. Spec => [](Inv /\ Fresh)
    BY FreshInit, FreshNext, InitInv, NextKeeps, PTL DEF Spec
<1> QED BY <1>2, <1>3, PTL DEF Spec, ShorterIsReplaced
=============================================================================
