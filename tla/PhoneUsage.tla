----------------------------- MODULE PhoneUsage -----------------------------
(***************************************************************************)
(* The usage records phones are sent (crates/share/src/share/worker.rs and *)
(* worker/usage.rs).  The share's thread reads the ledger when its         *)
(* revision has moved: yesterday and today every 30 seconds at most, every *)
(* day kept now and then.  What a phone is served is the worker's records. *)
(* A unit of the clock is the least time between two reads.                *)
(***************************************************************************)
EXTENDS Naturals

CONSTANTS Names,       \* what usage is counted under: clients and models
          Full,        \* time after which every day is read again
          LastDay,     \* bound: midnights
          MaxTime,     \* bound of the clock
          MaxRevision  \* bound: changes of the ledger

VARIABLES
    usage,     \* the ledger: what each day was used for
    revision,  \* its revision, as the app's snapshots carry it
    ready,     \* whether the ledger can be read, all of it
    clock,     \* the time, from 1, and which day it is
    reading,   \* the worker's notes on its reads
    served,    \* its records: the names of each day
    consumers, \* its records that describe names
    sharing,   \* whether the link runs
    passed,    \* whether the thread has made a pass since the clock moved
    since      \* when a day was last kept from being served as it is

vars == <<usage, revision, ready, clock, reading, served, consumers, sharing, passed, since>>

Days == 0..LastDay
Times == 0..MaxTime

TypeOK ==
    /\ usage \in [Days -> SUBSET Names] /\ served \in [Days -> SUBSET Names]
    /\ revision \in 0..MaxRevision /\ ready \in BOOLEAN
    /\ clock \in [time : 1..MaxTime, day : Days]
    /\ reading \in [seeded : BOOLEAN, revision : 0..MaxRevision, tried : Times,
                    fullRevision : 0..MaxRevision, fullAt : Times]
    /\ reading.tried <= clock.time /\ reading.fullRevision <= reading.revision
    /\ consumers \subseteq Names
    /\ sharing \in BOOLEAN /\ passed \in BOOLEAN
    /\ since \in [Days -> 1..MaxTime]

Init ==
    /\ usage = [d \in Days |-> {}] /\ served = usage
    /\ revision = 0 /\ ready = FALSE
    /\ clock = [time |-> 1, day |-> 0]
    /\ reading = [seeded |-> FALSE, revision |-> 0, tried |-> 0, fullRevision |-> 0, fullAt |-> 0]
    /\ consumers = {} /\ sharing = FALSE /\ passed = FALSE
    /\ since = [d \in Days |-> 1]

-----------------------------------------------------------------------------
(* The computer: work is done, logs are read late, prices and rules change  *)
(* what was counted before.                                                 *)

Now == clock.time

Count(day, names) ==
    /\ revision < MaxRevision /\ day <= clock.day /\ usage[day] # names
    /\ usage' = [usage EXCEPT ![day] = names]
    /\ revision' = revision + 1
    /\ since' = [since EXCEPT ![day] = Now]
    /\ UNCHANGED <<ready, clock, reading, served, consumers, sharing, passed>>

Interrupted == since' = [d \in Days |-> Now]

\* Indexing is done for now, or takes up again; a query may fail as well.
Index ==
    /\ ready' = ~ready /\ Interrupted
    /\ UNCHANGED <<usage, revision, clock, reading, served, consumers, sharing, passed>>

Switch ==
    /\ sharing' = ~sharing /\ Interrupted
    /\ UNCHANGED <<usage, revision, ready, clock, reading, served, consumers, passed>>

\* The thread makes a pass every five seconds at least.
TimePasses ==
    /\ Now < MaxTime /\ passed
    /\ \E day \in {clock.day, clock.day + 1} \cap Days : clock' = [time |-> Now + 1, day |-> day]
    /\ passed' = FALSE
    /\ UNCHANGED <<usage, revision, ready, reading, served, consumers, sharing, since>>

-----------------------------------------------------------------------------
(* The share's thread.                                                     *)

FullDue == reading.seeded /\ revision # reading.fullRevision /\ Now - reading.fullAt >= Full

Due ==
    /\ reading.seeded => revision # reading.revision \/ FullDue
    /\ reading.tried # 0 => Now - reading.tried >= 1

Whole == ~reading.seeded \/ FullDue
\* The days a read covers.
Window == IF Whole THEN Days ELSE {d \in Days : d + 1 >= clock.day}

\* Names stay for the days not read again.
Described == (IF Whole THEN {} ELSE consumers) \cup UNION {usage[d] : d \in Window}

NothingDue ==
    /\ ~sharing \/ ~Due
    /\ passed' = TRUE
    /\ UNCHANGED <<usage, revision, ready, clock, reading, served, consumers, sharing, since>>

\* Until indexing can replace whole days, the days already sent stay.
ReadFails ==
    /\ sharing /\ Due /\ ~ready
    /\ reading' = [reading EXCEPT !.tried = Now]
    /\ passed' = TRUE
    /\ UNCHANGED <<usage, revision, ready, clock, served, consumers, sharing, since>>

\* Mutant: the revision of a read of some days stands for all of them.
Read_Whole ==
    /\ sharing /\ Due /\ ready
    /\ reading' = [seeded |-> TRUE, revision |-> revision, tried |-> Now,
                   fullRevision |-> revision,
                   fullAt |-> IF Whole THEN Now ELSE reading.fullAt]
    /\ served' = [d \in Days |-> IF d \in Window THEN usage[d] ELSE served[d]]
    /\ consumers' = Described
    /\ passed' = TRUE
    /\ UNCHANGED <<usage, revision, ready, clock, sharing, since>>

Read ==
    /\ sharing /\ Due /\ ready
    /\ reading' = [seeded |-> TRUE, revision |-> revision, tried |-> Now,
                   fullRevision |-> IF Whole THEN revision ELSE reading.fullRevision,
                   fullAt |-> IF Whole THEN Now ELSE reading.fullAt]
    /\ served' = [d \in Days |-> IF d \in Window THEN usage[d] ELSE served[d]]
    /\ consumers' = Described
    /\ passed' = TRUE
    /\ UNCHANGED <<usage, revision, ready, clock, sharing, since>>

-----------------------------------------------------------------------------
Next ==
    \/ \E day \in Days, names \in SUBSET Names : Count(day, names)
    \/ Index \/ Switch \/ TimePasses
    \/ NothingDue \/ ReadFails \/ Read

-----------------------------------------------------------------------------
(* Properties.                                                             *)

Late(day) == Now - since[day]

\* What a phone is served is late by one read for today and yesterday, and by
\* the time between two full reads for any other day, whatever the midnights,
\* failures and pauses of sharing in between (USAGE_FULL_EVERY_MS); and it can
\* name everything it is told of, by the records that describe names.
ServedInTime ==
    /\ sharing /\ ready /\ passed =>
          \A d \in Days : d <= clock.day /\ served[d] # usage[d] =>
              Late(d) < (IF d + 1 >= clock.day THEN 1 ELSE Full + 1)
    /\ UNION {served[d] : d \in Days} \subseteq consumers

=============================================================================
