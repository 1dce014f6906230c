-------------------------- MODULE ConversationFeed --------------------------
(***************************************************************************)
(* What the store of conversations is told of a log                        *)
(* (crates/core/src/conversation_feed.rs and conversation_catchup.rs).     *)
(* Each read of a log is handed to the store after the ledger has it.  The *)
(* two are separate files, so the store can fall behind; core notes the    *)
(* span it lacks and reads it again after a pass.                          *)
(*                                                                         *)
(* One log stands for all: they share nothing but the budget of a pass,    *)
(* which may leave any log for later.  The log only grows; a position is   *)
(* the number of whole lines before it.  The store is a product's own; the *)
(* comments of ConversationSink say what it does.                          *)
(***************************************************************************)
EXTENDS Integers, FiniteSetsExt

CONSTANTS MaxLines,  \* bound: the lines of the log
          FILL,      \* how far before its end a log is filled, in lines
          NameLine,  \* the line that tells the session's id
          MayCrash   \* whether the app dies

VARIABLES
    starts,   \* the lines that start a turn
    recent,   \* whether the log's newest entry is of the last seven days
    offset,   \* LogHead::offset, what the ledger has
    batch,    \* a read that the ledger has and the store is still to get
    known,    \* conversation_positions of the log
    gap,      \* conversation_gaps of the log
    store,    \* what the store holds, and how far it says it knows the log
    failed    \* whether a delivery failed, or the app died, with a gap noted

vars == <<starts, recent, offset, batch, known, gap, store, failed>>

Offsets == 0..MaxLines
NotLoaded == -1
NeverSeen == 0
Spans == [from : Offsets, to : Offsets]
Nil == [from |-> 0, to |-> 0]
LinesOf(span) == (span.from + 1)..span.to

TypeOK ==
    /\ starts \subseteq 1..MaxLines /\ recent \in BOOLEAN
    /\ offset \in Offsets /\ batch \in Spans /\ gap \in Spans
    /\ known \in Offsets \cup {NotLoaded}
    /\ store \in [held : SUBSET (1..MaxLines), position : Offsets]
    /\ failed \in BOOLEAN

Init ==
    /\ starts \in SUBSET (1..MaxLines) /\ recent \in BOOLEAN
    /\ offset = 0 /\ batch = Nil /\ known = NotLoaded /\ gap = Nil
    /\ store = [held |-> {}, position |-> NeverSeen]
    /\ failed = FALSE

-----------------------------------------------------------------------------
(* A pass reads the log, commits, and hands over.                          *)

Read ==
    /\ batch = Nil
    /\ \E to \in (offset + 1)..MaxLines :
          batch' = [from |-> offset, to |-> to] /\ offset' = to
    /\ recent' \in {recent, TRUE}
    /\ UNCHANGED <<starts, known, gap, store, failed>>

HandedOver == batch # Nil /\ batch' = Nil
Named == offset >= NameLine

\* A session that has no id yet has no conversation.
PassOver ==
    /\ HandedOver /\ ~Named
    /\ UNCHANGED <<starts, recent, offset, known, gap, store, failed>>

CannotAsk ==
    /\ HandedOver /\ Named /\ known = NotLoaded
    /\ UNCHANGED <<starts, recent, offset, known, gap, store, failed>>

Position == IF known = NotLoaded THEN store.position ELSE known

\* A gap is a span of its own or grows to hold the new one.
Filled(from) == IF gap = Nil THEN [from |-> from, to |-> offset]
                ELSE [from |-> Min({gap.from, from}), to |-> Max({gap.to, offset})]

\* A log the store has never seen is left to the catch-up.
Meet ==
    /\ HandedOver /\ Named /\ Position = NeverSeen
    /\ known' = NeverSeen
    /\ gap' = Filled(Max({batch.from - FILL, 0}))
    /\ UNCHANGED <<starts, recent, offset, store, failed>>

\* The span between what the store knows and this read; a gap that is noted
\* already keeps its end.
Noted == IF Position >= batch.from THEN gap
         ELSE IF gap = Nil THEN [from |-> Position, to |-> batch.from]
         ELSE [gap EXCEPT !.from = Min({@, Position})]

Given(span, to) == [held |-> store.held \cup LinesOf(span), position |-> Max({store.position, to})]

\* Mutant: what lies between is not noted.
Deliver_Unnoted ==
    /\ HandedOver /\ Named /\ Position # NeverSeen
    /\ gap' = gap
    /\ known' = offset /\ store' = Given(batch, offset)
    /\ UNCHANGED <<starts, recent, offset, failed>>

Deliver ==
    /\ HandedOver /\ Named /\ Position # NeverSeen
    /\ gap' = Noted
    /\ known' = offset /\ store' = Given(batch, offset)
    /\ UNCHANGED <<starts, recent, offset, failed>>

DeliverFails ==
    /\ HandedOver /\ Named /\ Position # NeverSeen
    /\ gap' = Noted
    /\ known' = Position
    /\ failed' = (failed \/ gap' # Nil)
    /\ UNCHANGED <<starts, recent, offset, store>>

-----------------------------------------------------------------------------
(* After the passes, once nothing is left to read.                         *)

\* What it reads again: a gap first; the last part of a log the store has
\* never seen; the end the store lacks.
Wanted ==
    IF gap # Nil THEN gap
    ELSE IF Position = NeverSeen /\ recent THEN [from |-> Max({offset - FILL, 0}), to |-> offset]
    ELSE IF Position # NeverSeen /\ Position < offset THEN [from |-> Position, to |-> offset]
    ELSE Nil

\* It begins where the turn does that holds the first line.  Where none starts
\* before, it passes over the rest of a line: the line it cut, for a log
\* never seen; a whole one for a gap, which begins where a line does.
Replayed(span) ==
    LET before == {s \in starts : s <= span.from}
    IN  IF before # {} THEN [span EXCEPT !.from = Max(before) - 1]
        ELSE IF Position # NeverSeen /\ span.from > 0 THEN [span EXCEPT !.from = @ + 1]
        ELSE span

CatchUp ==
    /\ batch = Nil /\ Named /\ offset # 0 /\ Wanted # Nil
    /\ store' = Given(Replayed(Wanted), Wanted.to)
    /\ known' = Max({Position, Wanted.to})
    /\ gap' = Nil
    /\ UNCHANGED <<starts, recent, offset, batch, failed>>

\* The log cannot be read, or the store fails.
CatchUpFails ==
    /\ batch = Nil /\ Named /\ offset # 0 /\ Wanted # Nil
    /\ known' = Position
    /\ UNCHANGED <<starts, recent, offset, batch, gap, store, failed>>

Age ==
    /\ recent /\ recent' = FALSE
    /\ UNCHANGED <<starts, offset, batch, known, gap, store, failed>>

\* The ledger and the store stay; a store that has never seen the log fills it later.
Crash ==
    /\ MayCrash
    /\ batch' = Nil /\ known' = NotLoaded /\ gap' = Nil
    /\ failed' = (failed \/ (gap # Nil /\ known # NeverSeen))
    /\ UNCHANGED <<starts, recent, offset, store>>

Next ==
    \/ Read \/ PassOver \/ CannotAsk \/ Meet \/ Deliver \/ DeliverFails
    \/ CatchUp \/ CatchUpFails \/ Age \/ Crash

Spec == Init /\ [][Next]_vars

-----------------------------------------------------------------------------
(* Properties.                                                             *)

\* Lines the store lacks between what it holds and where it says its
\* knowledge ends.
Holes == {l \in 1..store.position : l \notin store.held /\ \E b \in store.held : b < l}

\* What the store lacks of a log that begins with a turn is read again: "the
\* spans it lacks are noted here and read again later"
\* (conversation_catchup.rs:4).
LacksAreReadAgain == 1 \in starts => Holes \subseteq LinesOf(gap)

\* It is, as long as no delivery fails and the app lives while a gap is noted:
\* after any failure before, a crash between the ledger and the store, and any
\* order of reads, deliveries and catch-ups.
HolesAreNoted == ~failed => LacksAreReadAgain

=============================================================================
