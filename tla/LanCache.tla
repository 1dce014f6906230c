------------------------------ MODULE LanCache ------------------------------
(***************************************************************************)
(* What phones are served (crates/lan/src/cache.rs, cache/serve.rs and     *)
(* server/events.rs).  The sharing thread publishes the records of this    *)
(* computer as versions; a phone that has one version asks for the changes *)
(* since it, or follows a stream of them.  The cache keeps one copy of the *)
(* records and, of the past, only when each was last written or removed.   *)
(*                                                                         *)
(* A cursor is a base (the time a base version was made) and the number of *)
(* changes on it.  Contents are functions from record ids to values.  The  *)
(* phone is not in this repository: it does what docs/local-network.md     *)
(* asks of a client.                                                       *)
(***************************************************************************)
EXTENDS Naturals, FiniteSets, Sequences, FiniteSetsExt

CONSTANTS Ids,          \* records
          Values,       \* what a record may say
          Nothing,      \* there is no such record
          Hour, Day,    \* between checkpoints; how long deletions are kept
          MaxTime,      \* bound: times of the clock
          MaxVersions,  \* bound: versions published in all
          MaxFrames     \* bound: frames written and not yet read

ASSUME CacheAssumption ==
    /\ Nothing \notin Values
    /\ Hour \in Nat \ {0} /\ Day \in Nat \ {0}
    /\ MaxTime \in Nat \ {0} /\ MaxVersions \in Nat /\ MaxFrames \in Nat \ {0}

\* What the clock may say when a version is made: it may have been set back.
Times == 1..MaxTime

Contents == [Ids -> Values \cup {Nothing}]
Empty == [i \in Ids |-> Nothing]

Cursors == [base : Nat, seq : Nat]
NoCursor == [base |-> 0, seq |-> 0]
Versions == [cursor : Cursors, records : Contents]
NoVersion == [cursor |-> NoCursor, records |-> Empty]

\* A frame of the event stream: a change set, or only a word.
Frames == [kind : {"changes", "revision", "reset"}, from : Cursors, to : Cursors,
           put : Contents, removed : SUBSET Ids]

VARIABLES
    file,           \* cursor.json
    persisted, head, records, written, deleted, bases, checkpoints,
    version, oldest, body,          \* SnapshotCache's fields
    stream,         \* the phone's event stream and its thread
    frames,         \* what the thread has written to it
    phone,          \* the phone's copy and what it waits for
    issued          \* history: every version ever published

publishedVars == <<head, records, written, deleted, bases, checkpoints, body>>
cacheVars == <<persisted, publishedVars, version, oldest>>
phoneVars == <<stream, frames, phone>>
vars == <<file, cacheVars, phoneVars, issued>>

\* bumped: the signal's count has moved since the thread last read it.
NoStream == [step |-> "none", changes |-> FALSE, bumped |-> FALSE, told |-> NoVersion,
             cursor |-> NoCursor]

TypeOK ==
    /\ file \in Cursors /\ persisted \in Cursors /\ head \in Cursors
    /\ records \in Contents
    /\ written \in [Ids -> 0..version] /\ deleted \in [Ids -> 0..version]
    /\ bases \subseteq [base : Nat, first : 1..version, last : 1..version]
    /\ checkpoints \subseteq [version : 1..version, at : 1..MaxTime]
    /\ version \in 0..MaxVersions /\ oldest \in 0..version
    /\ body \in Versions
    /\ stream \in [step : {"none", "look", "read", "wait"}, changes : BOOLEAN,
                   bumped : BOOLEAN, told : Versions, cursor : Cursors]
    /\ frames \in Seq(Frames)
    /\ phone \in [has : Versions, wants : {"nothing", "changes", "snapshot"}]
    /\ issued \subseteq Versions

Init ==
    /\ file = NoCursor /\ persisted = NoCursor /\ head = NoCursor
    /\ records = Empty
    /\ written = [i \in Ids |-> 0] /\ deleted = [i \in Ids |-> 0]
    /\ bases = {} /\ checkpoints = {}
    /\ version = 0 /\ oldest = 0
    /\ body = NoVersion
    /\ stream = NoStream /\ frames = <<>>
    /\ phone = [has |-> NoVersion, wants |-> "snapshot"]
    /\ issued = {}

-----------------------------------------------------------------------------
(* SnapshotCache: publishing.                                              *)

\* A new base is later than the one last saved, whatever the clock says.
NextBaseline(now) ==
    [base |-> IF now > persisted.base THEN now ELSE persisted.base + 1, seq |-> 0]

\* Mutant: the clock alone names a new base.
NextCursor_Clock(now) ==
    IF head = NoCursor THEN [base |-> now, seq |-> 0]
    ELSE [head EXCEPT !.seq = @ + 1]

NextCursor(now) ==
    IF head = NoCursor THEN NextBaseline(now) ELSE [head EXCEPT !.seq = @ + 1]

\* Mutant: the signal moves without waking anyone.
Bumped_Late == stream

\* Signal::bump
Bumped == [stream EXCEPT !.bumped = TRUE]

\* A checkpoint an hour, unless one is younger.
Checkpointed(now) ==
    checkpoints \cup
        IF \A c \in checkpoints : now >= c.at + Hour
        THEN {[version |-> version + 1, at |-> now]} ELSE {}

Expired(now) == {c \in Checkpointed(now) : c.at + Day <= now}
Oldest(now) == Max({oldest} \cup {c.version + 1 : c \in Expired(now)})

\* The bases, with the version at the given cursor.
Extended(cursor) ==
    IF \E b \in bases : b.base = cursor.base
    THEN {IF b.base = cursor.base THEN [b EXCEPT !.last = version + 1] ELSE b : b \in bases}
    ELSE bases \cup {[base |-> cursor.base, first |-> version + 1 - cursor.seq,
                      last |-> version + 1]}

\* Mutant: what was removed before is still told as removed.
Deleted_Stays(changed, gone, now) ==
    [i \in Ids |-> LET at == IF i \in gone THEN version + 1 ELSE deleted[i]
                   IN  IF at > Oldest(now) THEN at ELSE 0]

Deleted(changed, gone, now) ==
    [i \in Ids |-> LET at == CASE i \in changed -> 0
                               [] i \in gone -> version + 1
                               [] OTHER -> deleted[i]
                   IN  IF at > Oldest(now) THEN at ELSE 0]

Commit(new, changed, gone, cursor, now) ==
    /\ version' = version + 1
    /\ written' = [i \in Ids |-> CASE i \in changed -> version + 1
                                   [] i \in gone -> 0
                                   [] OTHER -> written[i]]
    /\ deleted' = Deleted(changed, gone, now)
    /\ bases' = {b \in Extended(cursor) : b.last >= Oldest(now)}
    /\ checkpoints' = Checkpointed(now) \ Expired(now)
    /\ oldest' = Oldest(now)
    /\ records' = new /\ head' = cursor /\ persisted' = cursor /\ file' = cursor
    /\ body' = NoVersion
    /\ issued' = issued \cup {[cursor |-> cursor, records |-> new]}
    /\ stream' = Bumped
    /\ UNCHANGED <<frames, phone>>

Changed(new) == {i \in Ids : new[i] \notin {Nothing, records[i]}}
Gone(new) == {i \in Ids : new[i] = Nothing /\ records[i] # Nothing}

\* update: the records the sharing thread has now.  The same ones publish
\* nothing; a version that cannot be saved leaves everything as it was.
Update(new, now) ==
    /\ Cardinality(issued) < MaxVersions
    /\ head = NoCursor \/ Changed(new) \cup Gone(new) # {}
    /\ Commit(new, Changed(new), Gone(new), NextCursor(now), now)

\* baseline: a new base over the same records.
Baseline(now) ==
    /\ Cardinality(issued) < MaxVersions
    /\ head # NoCursor
    /\ Commit(records, {}, {}, NextBaseline(now), now)

\* Sharing is turned off: the streams end and the cache is cleared.
Clear ==
    /\ head # NoCursor
    /\ head' = NoCursor /\ records' = Empty /\ body' = NoVersion
    /\ written' = [i \in Ids |-> 0] /\ deleted' = [i \in Ids |-> 0]
    /\ bases' = {} /\ checkpoints' = {}
    /\ stream' = NoStream /\ frames' = <<>>
    /\ UNCHANGED <<file, persisted, version, oldest, phone, issued>>

\* The app dies, in the middle of a commit perhaps, and starts again with
\* the cursor it finds.  (A run that has published nothing need not die.)
Restart(saved) ==
    /\ version > 0
    /\ file' = saved /\ persisted' = saved
    /\ head' = NoCursor /\ records' = Empty /\ body' = NoVersion
    /\ written' = [i \in Ids |-> 0] /\ deleted' = [i \in Ids |-> 0]
    /\ bases' = {} /\ checkpoints' = {}
    /\ version' = 0 /\ oldest' = 0
    /\ stream' = NoStream /\ frames' = <<>>
    /\ UNCHANGED <<phone, issued>>

Dies == \E now \in Times : \E saved \in {file, NextCursor(now), NextBaseline(now)} :
            Restart(saved)

-----------------------------------------------------------------------------
(* What the cache serves.                                                  *)

\* The published version; its revision is a hash of both fields.
Published == [cursor |-> head, records |-> records]

HasBase(since) == \E b \in bases : b.base = since.base
Base(since) == CHOOSE b \in bases : b.base = since.base

\* The version a cursor stands for, or 0 when one cannot go on from it.
VersionOf(since) ==
    IF since = head THEN version
    ELSE LET at == Base(since).first + since.seq
         IN  IF /\ HasBase(since)
                /\ at >= oldest /\ at <= Base(since).last /\ at < version
             THEN at ELSE 0

Servable(since) == head # NoCursor /\ VersionOf(since) # 0

Changes(since) ==
    LET at == VersionOf(since)
    IN  [kind |-> "changes", from |-> since, to |-> head,
         put |-> [i \in Ids |-> IF written[i] > at THEN records[i] ELSE Nothing],
         removed |-> {i \in Ids : deleted[i] > at}]

\* What a client makes of a change set.
Applied(change, content) ==
    [i \in Ids |-> IF i \in change.removed THEN Nothing
                   ELSE IF change.put[i] # Nothing THEN change.put[i] ELSE content[i]]

Word(kind) == [kind |-> kind, from |-> NoCursor, to |-> head, put |-> Empty, removed |-> {}]

\* next_frame, of a stream that has something to tell.  A change set may be
\* too large for the stream.
NextFrames ==
    IF ~stream.changes \/ stream.cursor \in {NoCursor, head} THEN {Word("revision")}
    ELSE IF ~Servable(stream.cursor) THEN {Word("reset")}
    ELSE {Changes(stream.cursor), Word("revision")}

-----------------------------------------------------------------------------
(* The thread of the phone's event stream.  It waits for the signal, and   *)
(* for five seconds at most.                                               *)

Look ==
    /\ stream.step = "look"
    /\ stream' = [stream EXCEPT !.step = "read", !.bumped = FALSE]
    /\ UNCHANGED <<file, cacheVars, frames, phone, issued>>

\* Mutant: a change set that is too large is passed over.
Tell_PassesOver ==
    /\ stream.step = "read" /\ head # NoCursor /\ stream.told # Published
    /\ Len(frames) < MaxFrames
    /\ \E frame \in NextFrames :
          frames' = IF frame.kind = "revision" /\ stream.changes /\ stream.cursor # NoCursor
                    THEN frames ELSE Append(frames, frame)
    /\ stream' = [stream EXCEPT !.step = "wait", !.told = Published, !.cursor = head]
    /\ UNCHANGED <<file, cacheVars, phone, issued>>

Tell ==
    /\ stream.step = "read" /\ head # NoCursor /\ stream.told # Published
    /\ Len(frames) < MaxFrames
    /\ \E frame \in NextFrames : frames' = Append(frames, frame)
    /\ stream' = [stream EXCEPT !.step = "wait", !.told = Published, !.cursor = head]
    /\ UNCHANGED <<file, cacheVars, phone, issued>>

\* With nothing to tell, a notice goes out every 30 seconds all the same.
Idle == stream.step = "read" /\ (head = NoCursor \/ stream.told = Published)

Rest ==
    /\ Idle
    /\ stream' = [stream EXCEPT !.step = "wait"]
    /\ UNCHANGED <<file, cacheVars, frames, phone, issued>>

Beat ==
    /\ Idle /\ head # NoCursor /\ Len(frames) < MaxFrames
    /\ frames' = Append(frames, Word("revision"))
    /\ stream' = [stream EXCEPT !.step = "wait"]
    /\ UNCHANGED <<file, cacheVars, phone, issued>>

Wake ==
    /\ stream.step = "wait"
    /\ stream' = [stream EXCEPT !.step = "look"]
    /\ UNCHANGED <<file, cacheVars, frames, phone, issued>>

-----------------------------------------------------------------------------
(* The phone.  It keeps a copy, follows a stream, and asks for what it     *)
(* misses; it reads the answer before it goes on.                          *)

Connect(changes) ==
    /\ stream.step = "none"
    /\ stream' = [NoStream EXCEPT !.step = "look", !.changes = changes,
                     !.cursor = IF changes THEN phone.has.cursor ELSE NoCursor]
    /\ UNCHANGED <<file, cacheVars, frames, phone, issued>>

Disconnect ==
    /\ stream.step # "none"
    /\ stream' = NoStream /\ frames' = <<>>
    /\ UNCHANGED <<file, cacheVars, phone, issued>>

\* /v1/snapshot, whose body is encoded once for a version.  With nothing
\* published yet it answers 503, and the phone asks again.
AskSnapshot ==
    /\ phone.wants = "snapshot" /\ head # NoCursor
    /\ body' = IF body # NoVersion THEN body ELSE Published
    /\ phone' = [has |-> body', wants |-> "nothing"]
    /\ UNCHANGED <<file, persisted, head, records, written, deleted, bases,
                   checkpoints, version, oldest, stream, frames, issued>>

After(change) ==
    [cursor |-> change.to, records |-> Applied(change, phone.has.records)]

\* /v1/changes, which answers 410 when it cannot go on from the cursor.
AskChanges ==
    /\ phone.wants = "changes" /\ head # NoCursor
    /\ phone' = IF Servable(phone.has.cursor)
                THEN [has |-> After(Changes(phone.has.cursor)), wants |-> "nothing"]
                ELSE [phone EXCEPT !.wants = "snapshot"]
    /\ UNCHANGED <<file, cacheVars, stream, frames, issued>>

\* A change set is applied to the version it starts from.  One that starts
\* elsewhere, or a notice of another version, means that something is missing.
ReadFrame ==
    /\ frames # <<>>
    /\ LET got == Head(frames)
       IN  phone' =
             IF got.kind = "changes" /\ got.from = phone.has.cursor
             THEN [phone EXCEPT !.has = After(got)]
             ELSE IF got.kind = "reset" THEN [phone EXCEPT !.wants = "snapshot"]
             ELSE IF got.to = phone.has.cursor \/ phone.wants = "snapshot" THEN phone
             ELSE [phone EXCEPT !.wants = "changes"]
    /\ frames' = Tail(frames)
    /\ UNCHANGED <<file, cacheVars, stream, issued>>

-----------------------------------------------------------------------------
Share ==
    \/ \E now \in Times : \/ Baseline(now)
                           \/ \E new \in Contents : Update(new, now)
    \/ Clear
    \/ Dies

StreamStep == Look \/ Tell \/ Rest \/ Beat \/ Wake

PhoneStep ==
    \/ \E changes \in BOOLEAN : Connect(changes)
    \/ Disconnect
    \/ AskSnapshot \/ AskChanges \/ ReadFrame

Next == Share \/ StreamStep \/ PhoneStep

\* The stream's thread goes on (its wait ends after five seconds at most); a
\* phone that keeps its stream reads it and asks.  No beat is relied on.
Fairness ==
    /\ WF_vars(Look \/ Tell \/ Rest \/ Wake)
    /\ WF_vars(ReadFrame) /\ WF_vars(AskSnapshot \/ AskChanges)

Spec == Init /\ [][Next]_vars /\ Fairness

-----------------------------------------------------------------------------
(* Properties.                                                             *)

\* Whatever version a client has, from this run of the app or an earlier one:
\* the changes it is given since then, if it is given any, lead to exactly
\* what is published now (cache/serve.rs, `changes`).  And the phone's copy is
\* one of the versions that were published, however answers, frames, restarts
\* and clearing interleave.
ChangesAreExact ==
    /\ \A e \in issued :
          Servable(e.cursor) => Applied(Changes(e.cursor), e.records) = records
    /\ phone.has # NoVersion => phone.has \in issued

\* A cursor names one version for good: no restart, cleared cache, unsaved
\* version or clock that was set back makes it name another (cache.rs,
\* `next_baseline`).
CursorsNameVersions ==
    \A d, e \in issued : d.cursor = e.cursor => d = e

\* A thread that sleeps with the signal unmoved has told the phone of the
\* published version: no commit falls between its look at the signal and
\* its look at the cache (server/connection.rs, the stream's loop).
NoLostWakeup ==
    stream.step = "wait" /\ ~stream.bumped /\ head # NoCursor =>
        stream.told = Published

\* A phone whose stream stays comes to hold what is published, once
\* publishing rests.
PhoneCatchesUp ==
    <>[](stream.step # "none" /\ head # NoCursor) => <>[](phone.has = Published)

=============================================================================
