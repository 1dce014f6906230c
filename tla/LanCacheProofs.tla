--------------------------- MODULE LanCacheProofs ---------------------------
(***************************************************************************)
(* For any records and values, any number of versions, any clock and any   *)
(* interleaving of answers, streams, restarts and cleared caches: a cursor *)
(* names one version, the changes since a version lead to what is          *)
(* published, the phone's copy is a version that was published, and a      *)
(* stream that sleeps unwoken has told of the published version.           *)
(*                                                                         *)
(* The cache keeps of the past only when each record was last written or   *)
(* removed.  So the invariant follows every version ever issued: a version *)
(* that a base still reaches (Traced) has what the published records have  *)
(* wherever nothing was written or removed since.  That it is the version  *)
(* its cursor says needs the order of all cursors (Saved), and that the    *)
(* base of the published version ends with it (Current).                   *)
(***************************************************************************)
EXTENDS LanCache, TLAPS, FiniteSetTheorems, WellFoundedInduction

\* The order in which cursors are given out.
Below(c, d) == c.base < d.base \/ (c.base = d.base /\ c.seq <= d.seq)

\* The saved cursor is the latest of all that were given out.
Saved ==
    /\ file = persisted /\ head \in {NoCursor, persisted}
    /\ \A e \in issued : e.cursor.base > 0 /\ Below(e.cursor, persisted)

\* Every version of this run was issued.
Counted == IsFiniteSet(issued) /\ version <= Cardinality(issued)

\* A base's versions lie one after another; the published one ends the last.
Current ==
    /\ head # NoCursor =>
         /\ Published \in issued /\ version > 0
         /\ \E b \in bases : /\ b.base = head.base /\ b.last = version
                             /\ b.first + head.seq = version
    /\ head = NoCursor => bases = {}
    /\ \A b \in bases : b.base <= persisted.base
    /\ \A b, c \in bases : b.base = c.base => b = c

\* What is there was written, and what was removed is not there.
Marked ==
    \A i \in Ids : /\ written[i] > 0 => records[i] # Nothing
                   /\ deleted[i] > 0 => records[i] = Nothing

\* A version that a base reaches has what is published, but for what was
\* written or removed since.
Traced ==
    \A e \in issued, b \in bases :
        e.cursor.base = b.base /\ b.first + e.cursor.seq \in oldest..b.last =>
            \A i \in Ids :
                written[i] <= b.first + e.cursor.seq /\ deleted[i] <= b.first + e.cursor.seq
                    => e.records[i] = records[i]

\* What phones are, or are about to be, given.
Encoded == body # NoVersion => head # NoCursor /\ body = Published
Follows == stream.cursor = NoCursor \/ \E e \in issued : e.cursor = stream.cursor
Leads(frame) ==
    \E e \in issued : /\ e.cursor = frame.from
                      /\ [cursor |-> frame.to, records |-> Applied(frame, e.records)] \in issued
Framed == \A n \in 1..Len(frames) : frames[n].kind = "changes" => Leads(frames[n])
Held == (phone.has = NoVersion /\ phone.wants = "snapshot") \/ phone.has \in issued

CacheInv == Saved /\ Counted /\ Current /\ Marked /\ Traced /\ Encoded /\ CursorsNameVersions
PhoneInv == Follows /\ Framed /\ Held /\ NoLostWakeup

Inv == TypeOK /\ CacheInv /\ PhoneInv

-----------------------------------------------------------------------------
\* The greatest of some numbers up to n is one of them, and the greatest.
LEMMA MaxIsGreatest ==
    ASSUME NEW n \in Nat, NEW S, S \subseteq 0..n, S # {}
    PROVE  Max(S) \in S /\ \A s \in S : s <= Max(S)
  <1> DEFINE T == {n - s : s \in S}
  <1>1. \A s \in S : s \in Nat /\ n - s \in Nat  OBVIOUS
  <1>2. T \subseteq Nat /\ T # {}  BY <1>1
  <1>3. PICK m \in T : \A t \in T : <<t, m>> \notin OpToRel(<, Nat)
    <2> HIDE DEF T
    <2> QED BY <1>2, NatLessThanWellFounded, WFMin, Zenon
  <1>4. PICK s \in S : m = n - s  BY <1>3
  <1>5. \A r \in S : r <= s
    <2> TAKE r \in S
    <2>1. n - r \in T  OBVIOUS
    <2> HIDE DEF T
    <2>2. n - r \in Nat /\ m \in Nat  BY <1>2, <2>1
    <2>3. ~(n - r < m)  BY <1>3, <2>1, <2>2 DEF OpToRel
    <2> QED BY <1>1, <1>4, <2>2, <2>3
  <1> QED BY <1>1, <1>4, <1>5 DEF Max

\* The oldest version that changes are known since never goes back, and is at
\* most the one that is made.
LEMMA OldestIs ==
    ASSUME TypeOK, NEW now \in Times
    PROVE  /\ Oldest(now) \in oldest..(version + 1)
           /\ Checkpointed(now) \ Expired(now)
                \subseteq [version : 1..(version + 1), at : 1..MaxTime]
  <1>1. /\ checkpoints \subseteq [version : 1..version, at : 1..MaxTime]
        /\ version \in Nat /\ oldest \in 0..version
        /\ now \in Nat /\ 1 <= now /\ now <= MaxTime /\ Day \in Nat \ {0}
    BY CacheAssumption DEF TypeOK, Times
  <1>2. Checkpointed(now) \subseteq checkpoints \cup {[version |-> version + 1, at |-> now]}
    BY DEF Checkpointed
  <1>3. Expired(now) \subseteq checkpoints
    <2> SUFFICES ASSUME NEW c \in Expired(now) PROVE c \in checkpoints  OBVIOUS
    <2>1. c \in Checkpointed(now) /\ c.at + Day <= now  BY DEF Expired
    <2>2. c # [version |-> version + 1, at |-> now]  BY <1>1, <2>1
    <2> QED BY <1>2, <2>1, <2>2
  <1> DEFINE S == {oldest} \cup {c.version + 1 : c \in Expired(now)}
  <1>4. S \subseteq 0..(version + 1)
    <2> SUFFICES ASSUME NEW c \in Expired(now) PROVE c.version + 1 \in 0..(version + 1)
      BY <1>1
    <2>1. c.version \in 1..version  BY <1>1, <1>3
    <2> QED BY <1>1, <2>1
  <1>5. Oldest(now) \in S /\ oldest <= Oldest(now)
    <2>1. oldest \in S  OBVIOUS
    <2> HIDE DEF S
    <2>2. Max(S) \in S /\ \A s \in S : s <= Max(S)
      <3>1. version + 1 \in Nat /\ S # {}  BY <1>1, <2>1
      <3> QED BY <1>4, <3>1, MaxIsGreatest
    <2>3. Oldest(now) = Max(S)  BY DEF Oldest, S
    <2> QED BY <2>1, <2>2, <2>3
  <1>6. Checkpointed(now) \subseteq [version : 1..(version + 1), at : 1..MaxTime]
    BY <1>1, <1>2
  <1>7. Oldest(now) \in oldest..(version + 1)
    <2> HIDE DEF S
    <2>1. Oldest(now) \in 0..(version + 1)  BY <1>4, <1>5
    <2> QED BY <1>1, <1>5, <2>1
  <1> QED BY <1>6, <1>7

\* The cursor of the next version comes after all that were given out.
LEMMA CursorIsNew ==
    ASSUME TypeOK, Saved, Current, NEW now \in Times,
           NEW cursor, cursor = NextBaseline(now) \/ (head # NoCursor /\ cursor = NextCursor(now))
    PROVE  /\ cursor \in Cursors /\ cursor.base > 0
           /\ \A e \in issued : Below(e.cursor, cursor) /\ e.cursor # cursor
           /\ Below(persisted, cursor)
  <1>1. /\ now \in Nat /\ 1 <= now
        /\ persisted \in Cursors /\ head \in Cursors
        /\ \A e \in issued : e.cursor \in Cursors
    BY CacheAssumption DEF TypeOK, Times, Versions
  <1>2. CASE cursor = NextBaseline(now)
    <2>1. /\ cursor = [base |-> cursor.base, seq |-> 0]
          /\ cursor.base \in Nat /\ cursor.base > persisted.base
      BY <1>1, <1>2 DEF NextBaseline, Cursors
    <2>2. \A e \in issued : e.cursor.base <= persisted.base
      BY <1>1 DEF Saved, Below, Cursors
    <2> QED BY <1>1, <2>1, <2>2 DEF Cursors, Below
  <1>3. CASE head # NoCursor /\ cursor = NextCursor(now)
    <2>1. cursor = [persisted EXCEPT !.seq = @ + 1]  BY <1>3 DEF NextCursor, Saved
    <2>2. cursor = [base |-> persisted.base, seq |-> persisted.seq + 1]
      BY <1>1, <2>1 DEF Cursors
    <2>3. \A e \in issued : Below(e.cursor, persisted) /\ e.cursor.base > 0  BY DEF Saved
    <2>4. persisted.base > 0  BY <1>3, <2>3 DEF Saved, Current, Published
    <2> QED BY <1>1, <2>2, <2>3, <2>4 DEF Cursors, Below
  <1> QED BY <1>2, <1>3

\* What the next cursor stands on: a new base, or the base of the published
\* version.
Goes(cursor) ==
    \/ cursor.seq = 0 /\ cursor.base > persisted.base
    \/ head # NoCursor /\ cursor = [base |-> head.base, seq |-> head.seq + 1]

\* The next cursor is on a new base or follows the published one's.
LEMMA CursorGoes ==
    ASSUME TypeOK, NEW now \in Times,
           NEW cursor, cursor = NextBaseline(now) \/ (head # NoCursor /\ cursor = NextCursor(now))
    PROVE  Goes(cursor)
  <1>1. now \in Nat /\ persisted \in Cursors /\ head \in Cursors
    BY CacheAssumption DEF TypeOK, Times
  <1>2. CASE cursor = NextBaseline(now)
    BY <1>1, <1>2 DEF NextBaseline, Cursors, Goes
  <1>3. CASE head # NoCursor /\ cursor = NextCursor(now)
    <2>1. cursor = [head EXCEPT !.seq = @ + 1]  BY <1>3 DEF NextCursor
    <2>2. cursor = [base |-> head.base, seq |-> head.seq + 1]
      BY <1>1, <2>1 DEF Cursors
    <2> QED BY <1>3, <2>2 DEF Goes
  <1> QED BY <1>2, <1>3

\* The bases with the next version: each is one base, the version ends its
\* own, and an issued version that a base reaches was reached by one before.
LEMMA ExtendedIs ==
    ASSUME TypeOK, Saved, Current, NEW cursor \in Cursors, Goes(cursor)
    PROVE  /\ Extended(cursor)
                \subseteq [base : Nat, first : 1..(version + 1), last : 1..(version + 1)]
           /\ \A b, c \in Extended(cursor) : b.base = c.base => b = c
           /\ \A b \in Extended(cursor) : b.base <= cursor.base
           /\ \E b \in Extended(cursor) : /\ b.base = cursor.base /\ b.last = version + 1
                                          /\ b.first + cursor.seq = version + 1
           /\ \A b \in Extended(cursor), e \in issued :
                 e.cursor.base = b.base /\ b.first + e.cursor.seq <= b.last =>
                    \E a \in bases : /\ a.base = b.base /\ a.first = b.first
                                     /\ b.first + e.cursor.seq <= a.last
  <1>1. /\ bases \subseteq [base : Nat, first : 1..version, last : 1..version]
        /\ version \in Nat /\ head \in Cursors /\ persisted \in Cursors
        /\ \A e \in issued : e.cursor \in Cursors
    BY CacheAssumption DEF TypeOK, Versions
  <1>2. /\ \A b \in bases : b.base <= persisted.base
        /\ \A b, c \in bases : b.base = c.base => b = c
    BY DEF Current
  <1>3. CASE cursor.seq = 0 /\ cursor.base > persisted.base
    <2> DEFINE new == [base |-> cursor.base, first |-> version + 1, last |-> version + 1]
    <2>1. \A b \in bases : b.base # cursor.base
      <3> SUFFICES ASSUME NEW b \in bases PROVE b.base # cursor.base  OBVIOUS
      <3>1. b.base \in Nat /\ b.base <= persisted.base  BY <1>1, <1>2
      <3> QED BY <1>1, <1>3, <3>1 DEF Cursors
    <2>2. Extended(cursor) = bases \cup {new}
      <3>1. version + 1 - cursor.seq = version + 1  BY <1>1, <1>3
      <3> QED BY <2>1, <3>1 DEF Extended
    <2>3. \A e \in issued : e.cursor.base # cursor.base
      <3> SUFFICES ASSUME NEW e \in issued PROVE e.cursor.base # cursor.base  OBVIOUS
      <3>1. Below(e.cursor, persisted)  BY DEF Saved
      <3> QED BY <1>1, <1>3, <3>1 DEF Below, Cursors
    <2>4. new \in [base : Nat, first : 1..(version + 1), last : 1..(version + 1)]
      BY <1>1 DEF Cursors
    <2>5. \A b \in bases : b \in [base : Nat, first : 1..(version + 1), last : 1..(version + 1)]
      BY <1>1
    <2>6. \A b \in bases : b.base <= cursor.base
      <3> SUFFICES ASSUME NEW b \in bases PROVE b.base <= cursor.base  OBVIOUS
      <3>1. b.base \in Nat /\ b.base <= persisted.base  BY <1>1, <1>2
      <3> QED BY <1>1, <1>3, <3>1 DEF Cursors
    <2>7. new.base = cursor.base /\ new.last = version + 1 /\ new.first + cursor.seq = version + 1
      BY <1>1, <1>3
    <2>8. cursor.base \in Nat  BY DEF Cursors
    <2> HIDE DEF new
    <2>9. \A b, c \in Extended(cursor) : b.base = c.base => b = c
      BY <1>2, <2>1, <2>2, <2>7
    <2>10. \A b \in Extended(cursor) : b.base <= cursor.base
      BY <2>2, <2>6, <2>7, <2>8
    <2>11. \A b \in Extended(cursor), e \in issued : e.cursor.base = b.base => b \in bases
      BY <2>2, <2>3, <2>7
    <2> QED BY <2>2, <2>4, <2>5, <2>7, <2>9, <2>10, <2>11
  <1>4. CASE head # NoCursor /\ cursor = [base |-> head.base, seq |-> head.seq + 1]
    <2>1. PICK last \in bases : /\ last.base = head.base /\ last.last = version
                                /\ last.first + head.seq = version
      BY <1>4 DEF Current
    <2> DEFINE new == [last EXCEPT !.last = version + 1]
    <2>2. /\ new = [base |-> head.base, first |-> last.first, last |-> version + 1]
          /\ last.first \in 1..version
      BY <1>1, <2>1
    <2>3. head = persisted /\ head.base \in Nat /\ head.seq \in Nat
      BY <1>1, <1>4 DEF Saved, Cursors
    <2>4. Extended(cursor) = (bases \ {last}) \cup {new}
      <3> DEFINE Later(b) == IF b.base = cursor.base THEN [b EXCEPT !.last = version + 1] ELSE b
      <3>1. Extended(cursor) = {Later(b) : b \in bases}
        BY <1>4, <2>1 DEF Extended
      <3>2. \A b \in bases : b.base = cursor.base <=> b = last
        BY <1>2, <1>4, <2>1
      <3>3. \A b \in bases : Later(b) = IF b = last THEN new ELSE b
        <4> HIDE DEF new
        <4> QED BY <3>2 DEF new
      <3> HIDE DEF new, Later
      <3> QED BY <2>1, <3>1, <3>3
    <2>5. \A b \in bases : b \in [base : Nat, first : 1..(version + 1), last : 1..(version + 1)]
      BY <1>1
    <2>6. new \in [base : Nat, first : 1..(version + 1), last : 1..(version + 1)]
      BY <1>1, <2>2, <2>3
    <2>7. new.base = cursor.base /\ new.last = version + 1 /\ new.first + cursor.seq = version + 1
      BY <1>1, <1>4, <2>1, <2>2, <2>3
    <2>8. new.base = last.base /\ new.first = last.first  BY <2>1, <2>2
    <2> HIDE DEF new
    <2>9. \A b, c \in Extended(cursor) : b.base = c.base => b = c
      BY <1>2, <2>1, <2>4, <2>8
    <2>10. \A b \in Extended(cursor) : b.base <= cursor.base
      BY <1>2, <1>4, <2>3, <2>4, <2>7
    <2>11. ASSUME NEW e \in issued, e.cursor.base = new.base
           PROVE  new.first + e.cursor.seq <= last.last
      <3>1. Below(e.cursor, head)  BY <2>3 DEF Saved
      <3>2. e.cursor.seq <= head.seq  BY <1>1, <2>1, <2>3, <2>8, <2>11, <3>1 DEF Below, Cursors
      <3> QED BY <1>1, <2>1, <2>2, <2>3, <2>8, <3>2 DEF Cursors
    <2> QED BY <2>1, <2>4, <2>5, <2>6, <2>7, <2>8, <2>9, <2>10, <2>11
  <1> QED BY <1>3, <1>4 DEF Goes

\* What a commit writes of each record.
LEMMA WrittenIs ==
    ASSUME TypeOK, NEW now \in Times, NEW new \in Contents, NEW cursor,
           Commit(new, Changed(new), Gone(new), cursor, now),
           NEW i \in Ids
    PROVE  /\ new[i] # records[i] /\ new[i] # Nothing =>
                written'[i] = version + 1 /\ deleted'[i] = 0
           /\ new[i] # records[i] /\ new[i] = Nothing =>
                /\ written'[i] = 0
                /\ deleted'[i] = IF version + 1 > Oldest(now) THEN version + 1 ELSE 0
           /\ new[i] = records[i] =>
                /\ written'[i] = written[i]
                /\ deleted'[i] = IF deleted[i] > Oldest(now) THEN deleted[i] ELSE 0
  <1>1. written' = [j \in Ids |-> CASE j \in Changed(new) -> version + 1
                                   [] j \in Gone(new) -> 0
                                   [] OTHER -> written[j]]
    BY DEF Commit
  <1>2. deleted' = [j \in Ids |-> LET at == CASE j \in Changed(new) -> 0
                                              [] j \in Gone(new) -> version + 1
                                              [] OTHER -> deleted[j]
                                  IN  IF at > Oldest(now) THEN at ELSE 0]
    BY DEF Commit, Deleted
  <1>3. Oldest(now) \in Nat
    <2>1. Oldest(now) \in oldest..(version + 1)  BY OldestIs
    <2> QED BY <2>1 DEF TypeOK
  <1>4. CASE new[i] # records[i] /\ new[i] # Nothing
    <2>1. i \in Changed(new) /\ i \notin Gone(new)  BY <1>4 DEF Changed, Gone
    <2>2. written'[i] = version + 1  BY <1>1, <2>1
    <2>3. deleted'[i] = IF 0 > Oldest(now) THEN 0 ELSE 0  BY <1>2, <2>1
    <2> QED BY <1>4, <2>2, <2>3
  <1>5. CASE new[i] # records[i] /\ new[i] = Nothing
    <2>1. i \notin Changed(new) /\ i \in Gone(new)  BY <1>5 DEF Changed, Gone
    <2> QED BY <1>1, <1>2, <1>5, <2>1
  <1>6. CASE new[i] = records[i]
    <2>1. i \notin Changed(new) /\ i \notin Gone(new)  BY <1>6 DEF Changed, Gone
    <2> QED BY <1>1, <1>2, <1>6, <2>1
  <1> QED BY <1>4, <1>5, <1>6

\* A version that is published leaves the state of its type.
LEMMA CommitTypes ==
    ASSUME TypeOK, Saved, Counted, Current, NEW now \in Times, NEW new \in Contents,
           NEW cursor \in Cursors, Goes(cursor), Cardinality(issued) < MaxVersions,
           Commit(new, Changed(new), Gone(new), cursor, now)
    PROVE  TypeOK'
  <1>1. /\ version' = version + 1 /\ oldest' = Oldest(now)
        /\ records' = new /\ head' = cursor /\ persisted' = cursor /\ file' = cursor
        /\ checkpoints' = Checkpointed(now) \ Expired(now)
        /\ body' = NoVersion /\ stream' = Bumped
        /\ bases' = {b \in Extended(cursor) : b.last >= Oldest(now)}
        /\ issued' = issued \cup {[cursor |-> cursor, records |-> new]}
        /\ UNCHANGED <<frames, phone>>
    BY DEF Commit
  <1>2. version \in Nat /\ oldest \in Nat /\ oldest <= version  BY CacheAssumption DEF TypeOK
  <1>3. Oldest(now) \in Nat /\ Oldest(now) <= version + 1
    <2>1. Oldest(now) \in oldest..(version + 1)  BY OldestIs
    <2> QED BY <1>2, <2>1
  <1>4. version' \in 0..MaxVersions /\ oldest' \in 0..version'
    <2>1. Cardinality(issued) \in Nat  BY FS_CardinalityType DEF Counted
    <2> QED BY <1>1, <1>2, <1>3, <2>1, CacheAssumption DEF Counted
  <1>5. written' \in [Ids -> 0..version'] /\ deleted' \in [Ids -> 0..version']
    <2>1. /\ written' = [i \in Ids |-> written'[i]]
          /\ deleted' = [i \in Ids |-> deleted'[i]]
      BY DEF Commit, Deleted
    <2>2. ASSUME NEW i \in Ids PROVE written'[i] \in 0..version' /\ deleted'[i] \in 0..version'
      <3>1. written[i] \in 0..version /\ deleted[i] \in 0..version  BY DEF TypeOK
      <3>2. \/ written'[i] = version + 1 /\ deleted'[i] = 0
            \/ written'[i] = 0 /\ deleted'[i] \in {0, version + 1}
            \/ written'[i] = written[i] /\ deleted'[i] \in {0, deleted[i]}
        BY WrittenIs
      <3> QED BY <1>1, <1>2, <3>1, <3>2
    <2> QED BY <2>1, <2>2
  <1>6. bases' \subseteq [base : Nat, first : 1..version', last : 1..version']
    <2>1. bases' \subseteq Extended(cursor)  BY <1>1
    <2>2. Extended(cursor)
            \subseteq [base : Nat, first : 1..(version + 1), last : 1..(version + 1)]
      BY ExtendedIs
    <2> QED BY <1>1, <2>1, <2>2
  <1>7. checkpoints' \subseteq [version : 1..version', at : 1..MaxTime]
    <2>1. Checkpointed(now) \ Expired(now)
             \subseteq [version : 1..(version + 1), at : 1..MaxTime]
      BY OldestIs
    <2> QED BY <1>1, <2>1
  <1>8. body' \in Versions /\ issued' \subseteq Versions
    <2>1. NoVersion \in Versions
      BY DEF NoVersion, Versions, NoCursor, Cursors, Empty, Contents
    <2>2. [cursor |-> cursor, records |-> new] \in Versions  BY DEF Versions
    <2> QED BY <1>1, <2>1, <2>2 DEF TypeOK
  <1>9. stream' \in [step : {"none", "look", "read", "wait"}, changes : BOOLEAN,
                     bumped : BOOLEAN, told : Versions, cursor : Cursors]
    BY <1>1 DEF TypeOK, Bumped
  <1> QED BY <1>1, <1>4, <1>5, <1>6, <1>7, <1>8, <1>9 DEF TypeOK

\* A version that is published keeps what each version's cursor leads to.
LEMMA CommitTraces ==
    ASSUME TypeOK, Saved, Current, Traced, NEW now \in Times, NEW new \in Contents,
           NEW cursor \in Cursors, Goes(cursor),
           \A e \in issued : e.cursor # cursor,
           Commit(new, Changed(new), Gone(new), cursor, now)
    PROVE  Traced'
  <1>1. /\ version' = version + 1 /\ oldest' = Oldest(now) /\ records' = new
        /\ bases' = {b \in Extended(cursor) : b.last >= Oldest(now)}
        /\ issued' = issued \cup {[cursor |-> cursor, records |-> new]}
    BY DEF Commit
  <1>2. /\ version \in Nat /\ oldest \in Nat /\ Oldest(now) \in Nat
        /\ oldest <= Oldest(now) /\ Oldest(now) <= version + 1
    <2>1. Oldest(now) \in oldest..(version + 1)  BY OldestIs
    <2>2. version \in Nat /\ oldest \in Nat  BY CacheAssumption DEF TypeOK
    <2> QED BY <2>1, <2>2
  <1> SUFFICES ASSUME NEW e \in issued', NEW b \in bases',
                      e.cursor.base = b.base,
                      b.first + e.cursor.seq \in Oldest(now)..b.last,
                      NEW i \in Ids,
                      written'[i] <= b.first + e.cursor.seq,
                      deleted'[i] <= b.first + e.cursor.seq
               PROVE  e.records[i] = new[i]
    BY <1>1 DEF Traced
  <1> DEFINE at == b.first + e.cursor.seq
  <1>3. CASE e = [cursor |-> cursor, records |-> new]  BY <1>3
  <1>4. CASE e \in issued
    <2>1. /\ b \in Extended(cursor)
          /\ b \in [base : Nat, first : 1..(version + 1), last : 1..(version + 1)]
          /\ e.cursor \in Cursors
      BY <1>1, <1>4, ExtendedIs DEF TypeOK, Versions
    <2>2. at \in Nat /\ at >= Oldest(now) /\ at <= b.last
      BY <1>2, <2>1 DEF Cursors
    <2>3. PICK a \in bases : a.base = b.base /\ a.first = b.first /\ at <= a.last
      BY <1>4, <2>1, <2>2, ExtendedIs
    <2>4. at <= version /\ at >= oldest
      <3>1. a.last \in 1..version  BY <2>3 DEF TypeOK
      <3> QED BY <1>2, <2>2, <2>3, <3>1
    <2>5. a.first + e.cursor.seq = at /\ at \in oldest..a.last
      <3>1. a.last \in 1..version  BY <2>3 DEF TypeOK
      <3> QED BY <1>2, <2>2, <2>3, <2>4, <3>1
    <2> HIDE DEF at
    <2>6. written[i] <= at /\ deleted[i] <= at => e.records[i] = records[i]
      BY <1>4, <2>3, <2>5 DEF Traced
    <2>7. written[i] \in 0..version /\ deleted[i] \in 0..version  BY DEF TypeOK
    <2>8. written'[i] <= at /\ deleted'[i] <= at  BY DEF at
    <2>9. CASE new[i] # records[i] /\ new[i] # Nothing
      <3>1. written'[i] = version + 1  BY <2>9, WrittenIs
      <3> QED BY <1>2, <2>2, <2>4, <2>8, <3>1
    <2>10. CASE new[i] # records[i] /\ new[i] = Nothing
      <3>1. deleted'[i] = IF version + 1 > Oldest(now) THEN version + 1 ELSE 0
        BY <2>10, WrittenIs
      <3> QED BY <1>2, <2>2, <2>4, <2>8, <3>1
    <2>11. CASE new[i] = records[i]
      <3>1. /\ written'[i] = written[i]
            /\ deleted'[i] = IF deleted[i] > Oldest(now) THEN deleted[i] ELSE 0
        BY <2>11, WrittenIs
      <3>2. deleted[i] <= at  BY <1>2, <2>2, <2>7, <2>8, <3>1
      <3> QED BY <2>6, <2>8, <2>11, <3>1, <3>2
    <2> QED BY <2>9, <2>10, <2>11
  <1> QED BY <1>1, <1>3, <1>4

\* A version that is published keeps the invariant: nobody else knows its
\* cursor, and it ends its base.
LEMMA CommitKeeps ==
    ASSUME Inv, NEW now \in Times, NEW new \in Contents, NEW cursor,
           cursor = NextBaseline(now) \/ (head # NoCursor /\ cursor = NextCursor(now)),
           Cardinality(issued) < MaxVersions,
           Commit(new, Changed(new), Gone(new), cursor, now)
    PROVE  Inv'
  <1> DEFINE made == [cursor |-> cursor, records |-> new]
  <1>1. /\ version' = version + 1 /\ oldest' = Oldest(now)
        /\ records' = new /\ head' = cursor /\ persisted' = cursor /\ file' = cursor
        /\ body' = NoVersion /\ stream' = Bumped
        /\ bases' = {b \in Extended(cursor) : b.last >= Oldest(now)}
        /\ issued' = issued \cup {made}
        /\ UNCHANGED <<frames, phone>>
    BY DEF Commit
  <1>2. TypeOK /\ Saved /\ Counted /\ Current /\ Marked /\ Traced /\ CursorsNameVersions
    BY DEF Inv, CacheInv
  <1>3. /\ cursor \in Cursors /\ cursor.base > 0
        /\ \A e \in issued : Below(e.cursor, cursor) /\ e.cursor # cursor
        /\ Goes(cursor)
    BY <1>2, CursorIsNew, CursorGoes
  <1>4. version \in Nat /\ Oldest(now) \in 0..(version + 1)
    <2>1. Oldest(now) \in oldest..(version + 1)  BY <1>2, OldestIs
    <2>2. version \in Nat /\ oldest \in Nat  BY <1>2, CacheAssumption DEF TypeOK
    <2> QED BY <2>1, <2>2
  <1>5. made.cursor = cursor /\ made.records = new  OBVIOUS
  <1>6. TypeOK'  BY <1>2, <1>3, CommitTypes
  <1>7. Traced'  BY <1>2, <1>3, CommitTraces
  <1> HIDE DEF made
  <1>8. Saved'
    <2>1. Below(cursor, cursor)  BY <1>3 DEF Below, Cursors
    <2> QED BY <1>1, <1>2, <1>3, <1>5, <2>1 DEF Saved
  <1>9. Counted'
    <2>1. made \notin issued  BY <1>3, <1>5
    <2>2. IsFiniteSet(issued') /\ Cardinality(issued') = Cardinality(issued) + 1
      BY <1>1, <1>2, <2>1, FS_AddElement DEF Counted
    <2>3. Cardinality(issued) \in Nat  BY <1>2, FS_CardinalityType DEF Counted
    <2> QED BY <1>1, <1>2, <1>4, <2>2, <2>3 DEF Counted
  <1>10. Current'
    <2>1. PICK b \in Extended(cursor) : /\ b.base = cursor.base /\ b.last = version + 1
                                        /\ b.first + cursor.seq = version + 1
      BY <1>2, <1>3, ExtendedIs
    <2>2. b \in bases'  BY <1>1, <1>4, <2>1
    <2>3. head' # NoCursor  BY <1>1, <1>3 DEF NoCursor
    <2>4. Published' \in issued'  BY <1>1, <1>5 DEF Published, made
    <2>5. /\ \A c \in bases' : c.base <= persisted'.base
          /\ \A c, d \in bases' : c.base = d.base => c = d
      BY <1>1, <1>2, <1>3, ExtendedIs
    <2> QED BY <1>1, <1>4, <2>1, <2>2, <2>3, <2>4, <2>5 DEF Current
  <1>11. Marked'
    <2> SUFFICES ASSUME NEW i \in Ids
                 PROVE  /\ written'[i] > 0 => new[i] # Nothing
                        /\ deleted'[i] > 0 => new[i] = Nothing
      BY <1>1 DEF Marked
    <2>1. /\ written[i] > 0 => records[i] # Nothing
          /\ deleted[i] > 0 => records[i] = Nothing
      BY <1>2 DEF Marked
    <2>2. CASE new[i] # records[i] /\ new[i] # Nothing
      <3>1. deleted'[i] = 0  BY <1>2, <2>2, WrittenIs
      <3> QED BY <2>2, <3>1
    <2>3. CASE new[i] # records[i] /\ new[i] = Nothing
      <3>1. written'[i] = 0  BY <1>2, <2>3, WrittenIs
      <3> QED BY <2>3, <3>1
    <2>4. CASE new[i] = records[i]
      <3>1. /\ written'[i] = written[i]
            /\ deleted'[i] = IF deleted[i] > Oldest(now) THEN deleted[i] ELSE 0
        BY <1>2, <2>4, WrittenIs
      <3> QED BY <2>1, <2>4, <3>1
    <2> QED BY <2>2, <2>3, <2>4
  <1>12. Encoded' /\ NoLostWakeup'
    <2>1. stream'.bumped = TRUE  BY <1>1, <1>2 DEF Bumped, TypeOK
    <2> QED BY <1>1, <2>1 DEF Encoded, NoLostWakeup
  <1>13. CursorsNameVersions'
    BY <1>1, <1>2, <1>3, <1>5 DEF CursorsNameVersions
  <1>14. Follows' /\ Framed' /\ Held'
    <2>1. stream'.cursor = stream.cursor  BY <1>1, <1>2 DEF Bumped, TypeOK
    <2>2. \A f : Leads(f) => Leads(f)'  BY <1>1 DEF Leads
    <2> QED BY <1>1, <2>1, <2>2 DEF Inv, PhoneInv, Follows, Framed, Held
  <1> QED BY <1>6, <1>7, <1>8, <1>9, <1>10, <1>11, <1>12, <1>13, <1>14
          DEF Inv, CacheInv, PhoneInv

-----------------------------------------------------------------------------
\* Where the cache forgets what it published, no cursor leads on: the app
\* starts again, with the saved cursor or one that was to follow it, or
\* sharing is turned off.
LEMMA ForgetKeeps ==
    ASSUME Inv, head' = NoCursor, body' = NoVersion, records' = Empty,
           written' = [i \in Ids |-> 0], deleted' = [i \in Ids |-> 0],
           bases' = {}, checkpoints' = {}, stream' = NoStream, frames' = <<>>,
           UNCHANGED <<phone, issued>>,
           file' = persisted', persisted' \in Cursors, Below(persisted, persisted'),
           version' \in 0..version, oldest' \in 0..version'
    PROVE  Inv'
  <1>1. version \in Nat /\ version <= MaxVersions /\ MaxVersions \in Nat
    BY CacheAssumption DEF Inv, TypeOK
  <1>2. /\ NoVersion \in Versions /\ NoCursor \in Cursors /\ Empty \in Contents
        /\ NoStream \in [step : {"none", "look", "read", "wait"}, changes : BOOLEAN,
                         bumped : BOOLEAN, told : Versions, cursor : Cursors]
    BY DEF NoVersion, Versions, NoCursor, Cursors, Empty, Contents, NoStream
  <1>3. TypeOK'
    <2>1. version' \in 0..MaxVersions  BY <1>1
    <2>2. frames' \in Seq(Frames)  OBVIOUS
    <2>3. /\ written' \in [Ids -> 0..version'] /\ deleted' \in [Ids -> 0..version']
      BY <1>1
    <2> QED BY <1>2, <2>1, <2>2, <2>3 DEF Inv, TypeOK
  <1>4. Saved'
    <2> SUFFICES ASSUME NEW e \in issued
                 PROVE  e.cursor.base > 0 /\ Below(e.cursor, persisted')
      BY DEF Saved
    <2>1. e.cursor.base > 0 /\ Below(e.cursor, persisted)  BY DEF Inv, CacheInv, Saved
    <2>2. e.cursor \in Cursors /\ persisted \in Cursors
      BY DEF Inv, TypeOK, Versions
    <2> QED BY <2>1, <2>2 DEF Below, Cursors
  <1>5. Counted'
    <2>1. Cardinality(issued) \in Nat  BY FS_CardinalityType DEF Inv, CacheInv, Counted
    <2> QED BY <1>1, <2>1 DEF Inv, CacheInv, Counted
  <1>6. Current' /\ Marked' /\ Traced' /\ Encoded' /\ CursorsNameVersions'
    BY DEF Inv, CacheInv, Current, Marked, Traced, Encoded, CursorsNameVersions
  <1>7. Follows' /\ Framed' /\ Held' /\ NoLostWakeup'
    BY DEF Inv, PhoneInv, Follows, Framed, Held, NoLostWakeup, NoStream
  <1> QED BY <1>3, <1>4, <1>5, <1>6, <1>7 DEF Inv, CacheInv, PhoneInv

\* A cleared cache.
LEMMA ClearKeeps == ASSUME Inv, Clear PROVE Inv'
  <1>1. /\ file' = persisted' /\ persisted' \in Cursors /\ Below(persisted, persisted')
        /\ version' \in 0..version /\ oldest' \in 0..version'
    BY CacheAssumption DEF Inv, TypeOK, CacheInv, Saved, Clear, Below, Cursors
  <1> QED BY <1>1, ForgetKeeps DEF Clear

\* An app that dies, in the middle of a commit or not.
LEMMA DiesKeeps == ASSUME Inv, Dies PROVE Inv'
  <1>0. PICK now \in Times :
            \E saved \in {file, NextCursor(now), NextBaseline(now)} : Restart(saved)
    BY DEF Dies
  <1>1. PICK saved \in {file, NextCursor(now), NextBaseline(now)} : Restart(saved)
    BY <1>0
  <1>2. TypeOK /\ Saved /\ Current /\ persisted \in Cursors
    BY DEF Inv, CacheInv, TypeOK
  <1>3. saved \in Cursors /\ Below(persisted, saved)
    <2>1. CASE saved = file  BY <1>2, <2>1 DEF Saved, Below, Cursors
    <2>2. CASE saved = NextBaseline(now)  BY <1>2, <2>2, CursorIsNew
    <2>3. CASE saved = NextCursor(now)
      <3>1. head = NoCursor => saved = NextBaseline(now)  BY <2>3 DEF NextCursor
      <3> QED BY <1>2, <2>3, <3>1, CursorIsNew
    <2> QED BY <1>1, <2>1, <2>2, <2>3
  <1>4. version' \in 0..version /\ oldest' \in 0..version'
    BY <1>1, CacheAssumption DEF Restart, Inv, TypeOK
  <1> QED BY <1>1, <1>3, <1>4, ForgetKeeps DEF Restart

\* The sharing thread's steps.
LEMMA ShareKeeps == ASSUME Inv, Share PROVE Inv'
  <1>1. ASSUME NEW now \in Times, Baseline(now) PROVE Inv'
    <2>1. records \in Contents  BY DEF Inv, TypeOK
    <2>2. Changed(records) = {} /\ Gone(records) = {}  BY DEF Changed, Gone
    <2> QED BY <1>1, <2>1, <2>2, CommitKeeps DEF Baseline
  <1>2. ASSUME NEW now \in Times, NEW new \in Contents, Update(new, now) PROVE Inv'
    <2>1. NextCursor(now) = NextBaseline(now) \/ head # NoCursor  BY DEF NextCursor
    <2> QED BY <1>2, <2>1, CommitKeeps DEF Update
  <1> QED BY <1>1, <1>2, ClearKeeps, DiesKeeps DEF Share

-----------------------------------------------------------------------------
\* What a change set says is of its type.
LEMMA ChangesAreFrames ==
    ASSUME TypeOK, NEW since \in Cursors
    PROVE  Changes(since) \in Frames
  <1> DEFINE at == VersionOf(since)
  <1>1. [i \in Ids |-> IF written[i] > at THEN records[i] ELSE Nothing] \in Contents
    BY DEF TypeOK, Contents
  <1>2. {i \in Ids : deleted[i] > at} \in SUBSET Ids  OBVIOUS
  <1>3. head \in Cursors  BY DEF TypeOK
  <1> HIDE DEF at
  <1> QED BY <1>1, <1>2, <1>3 DEF Changes, Frames, at

\* A change set makes a content of a content.
LEMMA AppliedIsContent ==
    ASSUME NEW change, change.put \in Contents, NEW content \in Contents
    PROVE  Applied(change, content) \in Contents
  BY DEF Applied, Contents

\* The changes since a version that was issued lead to what is published.
LEMMA ChangesLead ==
    ASSUME TypeOK, CacheInv, NEW e \in issued, Servable(e.cursor)
    PROVE  Applied(Changes(e.cursor), e.records) = records
  <1> DEFINE at == VersionOf(e.cursor)
  <1>1. /\ records \in Contents /\ e.records \in Contents
        /\ e.cursor \in Cursors /\ version \in Nat /\ oldest \in Nat
    BY CacheAssumption DEF TypeOK, Versions
  <1>2. \A i \in Ids : written[i] \in 0..version /\ deleted[i] \in 0..version
    BY DEF TypeOK
  <1>3. at \in Nat /\ \A i \in Ids : written[i] <= at /\ deleted[i] <= at =>
                          e.records[i] = records[i]
    <2>1. CASE e.cursor = head
      <3>1. Published \in issued  BY DEF Servable, CacheInv, Current
      <3>2. e = Published  BY <2>1, <3>1 DEF CacheInv, CursorsNameVersions, Published
      <3> QED BY <1>1, <2>1, <3>2 DEF Published, VersionOf
    <2>2. CASE e.cursor # head
      <3>1. /\ HasBase(e.cursor) /\ at = Base(e.cursor).first + e.cursor.seq
            /\ at >= oldest /\ at <= Base(e.cursor).last
        BY <2>2 DEF Servable, VersionOf
      <3>2. Base(e.cursor) \in bases /\ Base(e.cursor).base = e.cursor.base
        BY <3>1 DEF HasBase, Base
      <3>3. Base(e.cursor).first \in 1..version /\ Base(e.cursor).last \in 1..version
        BY <3>2 DEF TypeOK
      <3>4. at \in Nat /\ at \in oldest..Base(e.cursor).last
        BY <1>1, <3>1, <3>3 DEF Cursors
      <3> HIDE DEF at
      <3> QED BY <3>1, <3>2, <3>4 DEF CacheInv, Traced
    <2> QED BY <2>1, <2>2
  <1> HIDE DEF at
  <1>4. /\ Changes(e.cursor).removed = {i \in Ids : deleted[i] > at}
        /\ Changes(e.cursor).put = [i \in Ids |-> IF written[i] > at THEN records[i] ELSE Nothing]
    BY DEF Changes, at
  <1>5. ASSUME NEW i \in Ids
        PROVE  records[i] = IF i \in Changes(e.cursor).removed THEN Nothing
                            ELSE IF Changes(e.cursor).put[i] # Nothing
                                 THEN Changes(e.cursor).put[i] ELSE e.records[i]
    <2>1. /\ written[i] > 0 => records[i] # Nothing
          /\ deleted[i] > 0 => records[i] = Nothing
      BY DEF CacheInv, Marked
    <2>2. written[i] \in Nat /\ deleted[i] \in Nat  BY <1>2
    <2>3. CASE deleted[i] > at  BY <1>3, <1>4, <2>1, <2>2, <2>3
    <2>4. CASE ~(deleted[i] > at) /\ written[i] > at  BY <1>3, <1>4, <2>1, <2>2, <2>4
    <2>5. CASE ~(deleted[i] > at) /\ ~(written[i] > at)
      <3>1. e.records[i] = records[i]  BY <1>3, <2>2, <2>5
      <3> QED BY <1>4, <2>5, <3>1
    <2> QED BY <2>3, <2>4, <2>5
  <1>6. records = [i \in Ids |-> records[i]]  BY <1>1 DEF Contents
  <1> QED BY <1>5, <1>6 DEF Applied

-----------------------------------------------------------------------------
\* Where the cache and what was issued stay, so does what is said of them.
LEMMA CacheSame ==
    ASSUME CacheInv, UNCHANGED <<file, cacheVars, issued>>
    PROVE  CacheInv'
  BY DEF CacheInv, cacheVars, publishedVars, Saved, Counted, Current, Published, Marked,
         Traced, Encoded, CursorsNameVersions

\* The type of the stream's thread.
StreamType == [step : {"none", "look", "read", "wait"}, changes : BOOLEAN,
               bumped : BOOLEAN, told : Versions, cursor : Cursors]

\* What is published, while something is, was issued.
LEMMA PublishedIsIssued ==
    ASSUME TypeOK, CacheInv, head # NoCursor
    PROVE  Published \in issued /\ Published \in Versions
  BY DEF TypeOK, CacheInv, Current

\* A frame that is written leads from a version that was issued to another.
LEMMA NextFramesLead ==
    ASSUME TypeOK, CacheInv, Follows, head # NoCursor, NEW frame \in NextFrames
    PROVE  frame \in Frames /\ (frame.kind = "changes" => Leads(frame))
  <1>1. stream.cursor \in Cursors /\ head \in Cursors  BY DEF TypeOK
  <1>2. CASE frame \in {Word("revision"), Word("reset")}
    <2>1. NoCursor \in Cursors /\ Empty \in Contents
      BY DEF NoCursor, Cursors, Empty, Contents
    <2> QED BY <1>1, <1>2, <2>1 DEF Word, Frames
  <1>3. CASE frame \notin {Word("revision"), Word("reset")}
    <2>1. /\ stream.cursor # NoCursor /\ Servable(stream.cursor)
          /\ frame = Changes(stream.cursor)
      BY <1>3 DEF NextFrames
    <2>2. PICK e \in issued : e.cursor = stream.cursor  BY <2>1 DEF Follows
    <2>3. Applied(frame, e.records) = records  BY <2>1, <2>2, ChangesLead
    <2>4. frame.from = e.cursor /\ frame.to = head  BY <2>1, <2>2 DEF Changes
    <2>5. [cursor |-> frame.to, records |-> Applied(frame, e.records)] \in issued
      BY <2>3, <2>4, PublishedIsIssued DEF Published
    <2> QED BY <1>1, <2>1, <2>2, <2>4, <2>5, ChangesAreFrames DEF Leads
  <1> QED BY <1>2, <1>3

\* A frame that leads from one version to another is put after the others.
LEMMA FramesGrow ==
    ASSUME TypeOK, Framed, NEW frame \in Frames, frame.kind = "changes" => Leads(frame),
           frames' = Append(frames, frame), issued' = issued
    PROVE  Framed' /\ frames' \in Seq(Frames)
  <1>1. frames \in Seq(Frames)  BY DEF TypeOK
  <1>2. /\ frames' \in Seq(Frames) /\ Len(frames') = Len(frames) + 1
        /\ \A n \in 1..Len(frames') :
              frames'[n] = IF n <= Len(frames) THEN frames[n] ELSE frame
    BY <1>1
  <1>3. \A f : Leads(f) => Leads(f)'  BY DEF Leads
  <1>4. ASSUME NEW n \in 1..Len(frames'), frames'[n].kind = "changes"
        PROVE  Leads(frames'[n])
    <2>1. Len(frames) \in Nat  BY <1>1
    <2>2. CASE n <= Len(frames)
      <3>1. n \in 1..Len(frames) /\ frames'[n] = frames[n]  BY <1>2, <2>1, <2>2
      <3> QED BY <1>4, <3>1 DEF Framed
    <2>3. CASE ~(n <= Len(frames))
      <3>1. frames'[n] = frame  BY <1>2, <2>3
      <3> QED BY <1>4, <3>1
    <2> QED BY <2>2, <2>3
  <1> QED BY <1>2, <1>3, <1>4 DEF Framed

\* The steps of the stream's thread.
LEMMA StreamKeeps == ASSUME Inv, StreamStep PROVE Inv'
  <1>1. /\ UNCHANGED <<file, cacheVars, phone, issued>>
        /\ TypeOK /\ CacheInv /\ Follows /\ Framed /\ Held /\ NoLostWakeup
        /\ stream \in StreamType
    BY DEF Inv, PhoneInv, TypeOK, StreamType, StreamStep, Look, Tell, Rest, Beat, Wake
  <1>2. CacheInv' /\ Held'  BY <1>1, CacheSame DEF Held
  <1>3. ASSUME stream' \in StreamType, frames' \in Seq(Frames) PROVE TypeOK'
    BY <1>1, <1>3 DEF TypeOK, cacheVars, publishedVars, StreamType
  <1>4. head' = head /\ Published' = Published
    BY <1>1 DEF cacheVars, publishedVars, Published
  <1>5. UNCHANGED frames => Framed' /\ frames' \in Seq(Frames)
    <2>1. \A f : Leads(f) => Leads(f)'  BY <1>1 DEF Leads
    <2> QED BY <1>1, <2>1 DEF Framed, TypeOK
  <1>6. CASE Look
    <2>1. /\ stream' = [stream EXCEPT !.step = "read", !.bumped = FALSE]
          /\ UNCHANGED frames
      BY <1>6 DEF Look
    <2>2. stream' \in StreamType /\ stream'.step = "read" /\ stream'.cursor = stream.cursor
      BY <1>1, <2>1 DEF StreamType
    <2>3. Follows' /\ NoLostWakeup'  BY <1>1, <2>2 DEF Follows, NoLostWakeup
    <2> QED BY <1>2, <1>3, <1>5, <2>1, <2>2, <2>3 DEF Inv, PhoneInv
  <1>7. CASE Tell
    <2>1. /\ head # NoCursor
          /\ stream' = [stream EXCEPT !.step = "wait", !.told = Published, !.cursor = head]
      BY <1>7 DEF Tell
    <2>2. PICK frame \in NextFrames : frames' = Append(frames, frame)
      BY <1>7 DEF Tell
    <2>3. Published \in issued /\ Published \in Versions /\ head \in Cursors
      BY <1>1, <2>1, PublishedIsIssued DEF TypeOK
    <2>4. stream' \in StreamType /\ stream'.cursor = head /\ stream'.told = Published
      BY <1>1, <2>1, <2>3 DEF StreamType
    <2>5. Framed' /\ frames' \in Seq(Frames)
      BY <1>1, <2>1, <2>2, NextFramesLead, FramesGrow
    <2>6. NoLostWakeup'  BY <1>4, <2>4 DEF NoLostWakeup
    <2>7. Follows'
      <3>1. Published.cursor = head  BY DEF Published
      <3> QED BY <1>1, <2>3, <2>4, <3>1 DEF Follows
    <2> QED BY <1>2, <1>3, <2>4, <2>5, <2>6, <2>7 DEF Inv, PhoneInv
  <1>8. CASE Rest
    <2>1. /\ head = NoCursor \/ stream.told = Published
          /\ stream' = [stream EXCEPT !.step = "wait"] /\ UNCHANGED frames
      BY <1>8 DEF Rest, Idle
    <2>2. /\ stream' \in StreamType /\ stream'.told = stream.told
          /\ stream'.cursor = stream.cursor
      BY <1>1, <2>1 DEF StreamType
    <2>3. Follows' /\ NoLostWakeup'  BY <1>1, <1>4, <2>1, <2>2 DEF Follows, NoLostWakeup
    <2> QED BY <1>2, <1>3, <1>5, <2>1, <2>2, <2>3 DEF Inv, PhoneInv
  <1>9. CASE Beat
    <2>1. /\ head = NoCursor \/ stream.told = Published
          /\ stream' = [stream EXCEPT !.step = "wait"]
          /\ frames' = Append(frames, Word("revision"))
      BY <1>9 DEF Beat, Idle
    <2>2. /\ stream' \in StreamType /\ stream'.told = stream.told
          /\ stream'.cursor = stream.cursor
      BY <1>1, <2>1 DEF StreamType
    <2>3. Follows' /\ NoLostWakeup'  BY <1>1, <1>4, <2>1, <2>2 DEF Follows, NoLostWakeup
    <2>4. Word("revision") \in Frames /\ Word("revision").kind # "changes"
      <3>1. NoCursor \in Cursors /\ Empty \in Contents /\ head \in Cursors
        BY <1>1 DEF NoCursor, Cursors, Empty, Contents, TypeOK
      <3> QED BY <3>1 DEF Word, Frames
    <2>5. Framed' /\ frames' \in Seq(Frames)  BY <1>1, <2>1, <2>4, FramesGrow
    <2> QED BY <1>2, <1>3, <2>2, <2>3, <2>5 DEF Inv, PhoneInv
  <1>10. CASE Wake
    <2>1. stream' = [stream EXCEPT !.step = "look"] /\ UNCHANGED frames
      BY <1>10 DEF Wake
    <2>2. stream' \in StreamType /\ stream'.step = "look" /\ stream'.cursor = stream.cursor
      BY <1>1, <2>1 DEF StreamType
    <2>3. Follows' /\ NoLostWakeup'  BY <1>1, <2>2 DEF Follows, NoLostWakeup
    <2> QED BY <1>2, <1>3, <1>5, <2>1, <2>2, <2>3 DEF Inv, PhoneInv
  <1> QED BY <1>6, <1>7, <1>8, <1>9, <1>10 DEF StreamStep

-----------------------------------------------------------------------------
\* A phone that takes what a change set leads to holds a version that was
\* issued.
LEMMA AfterIsIssued ==
    ASSUME TypeOK, CacheInv, phone.has \in issued, NEW change,
           change.from = phone.has.cursor, Leads(change)
    PROVE  After(change) \in issued
  <1>1. PICK e \in issued :
            /\ e.cursor = change.from
            /\ [cursor |-> change.to, records |-> Applied(change, e.records)] \in issued
    BY DEF Leads
  <1>2. e = phone.has  BY <1>1 DEF CacheInv, CursorsNameVersions
  <1> QED BY <1>1, <1>2 DEF After

\* The type of the phone.
PhoneType == [has : Versions, wants : {"nothing", "changes", "snapshot"}]

\* A phone that comes, or goes, leaves the cache.
LEMMA ConnectKeeps ==
    ASSUME Inv, (\E changes \in BOOLEAN : Connect(changes)) \/ Disconnect
    PROVE  Inv'
  <1>1. /\ UNCHANGED <<file, cacheVars, phone, issued>>
        /\ TypeOK /\ CacheInv /\ Held
    BY DEF Inv, PhoneInv, Connect, Disconnect
  <1>2. CacheInv' /\ Held'  BY <1>1, CacheSame DEF Held
  <1>3. ASSUME stream' \in StreamType, frames' \in Seq(Frames) PROVE TypeOK'
    BY <1>1, <1>3 DEF TypeOK, cacheVars, publishedVars, StreamType
  <1>4. NoVersion \in Versions /\ NoCursor \in Cursors
    BY DEF NoVersion, Versions, NoCursor, Cursors, Empty, Contents
  <1>5. ASSUME NEW changes \in BOOLEAN, Connect(changes) PROVE Inv'
    <2> DEFINE from == IF changes THEN phone.has.cursor ELSE NoCursor
    <2>1. /\ stream' = [NoStream EXCEPT !.step = "look", !.changes = changes, !.cursor = from]
          /\ UNCHANGED frames
      BY <1>5 DEF Connect
    <2>2. from \in Cursors /\ (from = NoCursor \/ \E e \in issued : e.cursor = from)
      BY <1>1, <1>4 DEF TypeOK, Versions, Held, NoVersion
    <2> HIDE DEF from
    <2>3. stream' \in StreamType /\ stream'.step = "look" /\ stream'.cursor = from
      BY <1>4, <2>1, <2>2 DEF NoStream, StreamType
    <2>4. Follows' /\ NoLostWakeup'  BY <1>1, <2>2, <2>3 DEF Follows, NoLostWakeup
    <2>5. Framed' /\ frames' \in Seq(Frames)
      <3>1. \A f : Leads(f) => Leads(f)'  BY <1>1 DEF Leads
      <3> QED BY <1>1, <2>1, <3>1 DEF Inv, PhoneInv, Framed, TypeOK
    <2> QED BY <1>2, <1>3, <2>3, <2>4, <2>5 DEF Inv, PhoneInv
  <1>6. CASE Disconnect
    <2>1. stream' = NoStream /\ frames' = <<>>  BY <1>6 DEF Disconnect
    <2>2. stream' \in StreamType  BY <1>4, <2>1 DEF NoStream, StreamType
    <2>3. Follows' /\ NoLostWakeup' /\ Framed' /\ frames' \in Seq(Frames)
      BY <2>1 DEF Follows, NoLostWakeup, Framed, NoStream
    <2> QED BY <1>2, <1>3, <2>2, <2>3 DEF Inv, PhoneInv
  <1> QED BY <1>5, <1>6

\* A phone that is answered, or reads a frame, holds a version that was
\* issued.
LEMMA AnswersKeep ==
    ASSUME Inv, AskSnapshot \/ AskChanges \/ ReadFrame
    PROVE  Inv'
  <1>1. TypeOK /\ CacheInv /\ Follows /\ Framed /\ Held /\ NoLostWakeup
        /\ phone \in PhoneType /\ frames \in Seq(Frames)
    BY DEF Inv, PhoneInv, TypeOK, PhoneType
  <1>2. \A f : UNCHANGED issued => (Leads(f) => Leads(f)')  BY DEF Leads
  <1>3. issued \subseteq Versions  BY <1>1 DEF TypeOK
  <1>4. CASE AskSnapshot
    <2>1. /\ head # NoCursor /\ phone' = [has |-> body', wants |-> "nothing"]
          /\ body' = IF body # NoVersion THEN body ELSE Published
          /\ UNCHANGED <<file, persisted, head, records, written, deleted, bases,
                         checkpoints, version, oldest, stream, frames, issued>>
      BY <1>4 DEF AskSnapshot
    <2>2. body' = Published  BY <1>1, <2>1 DEF CacheInv, Encoded
    <2>3. Published \in issued /\ Published \in Versions
      BY <1>1, <2>1, PublishedIsIssued
    <2>4. Published' = Published  BY <2>1 DEF Published
    <2>5. phone' \in PhoneType /\ body' \in Versions  BY <2>1, <2>2, <2>3 DEF PhoneType
    <2>6. TypeOK'  BY <1>1, <2>1, <2>5 DEF TypeOK, PhoneType
    <2>7. CacheInv'
      BY <1>1, <2>1, <2>2, <2>4
         DEF CacheInv, Saved, Counted, Current, Marked, Traced, Encoded, CursorsNameVersions
    <2>8. Follows' /\ Framed' /\ Held' /\ NoLostWakeup'
      BY <1>1, <1>2, <2>1, <2>2, <2>3, <2>4 DEF Follows, Framed, Held, NoLostWakeup
    <2> QED BY <2>6, <2>7, <2>8 DEF Inv, PhoneInv
  <1>5. ASSUME UNCHANGED <<file, cacheVars, stream, issued>>, phone' \in PhoneType,
               frames' \in Seq(Frames), Held', Framed'
        PROVE  Inv'
    <2>1. CacheInv'  BY <1>1, <1>5, CacheSame
    <2>2. TypeOK'
      BY <1>1, <1>5 DEF TypeOK, cacheVars, publishedVars, PhoneType
    <2>3. Follows' /\ NoLostWakeup'
      BY <1>1, <1>5 DEF Follows, NoLostWakeup, Published, cacheVars, publishedVars
    <2> QED BY <1>5, <2>1, <2>2, <2>3 DEF Inv, PhoneInv
  <1>6. CASE AskChanges
    <2>1. /\ phone.wants = "changes"
          /\ phone' = IF Servable(phone.has.cursor)
                      THEN [has |-> After(Changes(phone.has.cursor)), wants |-> "nothing"]
                      ELSE [phone EXCEPT !.wants = "snapshot"]
          /\ UNCHANGED <<file, cacheVars, stream, frames, issued>>
      BY <1>6 DEF AskChanges
    <2>2. phone.has \in issued  BY <1>1, <2>1 DEF Held
    <2>3. CASE Servable(phone.has.cursor)
      <3> DEFINE change == Changes(phone.has.cursor)
      <3>1. Applied(change, phone.has.records) = records
        BY <1>1, <2>2, <2>3, ChangesLead
      <3>2. After(change) = Published  BY <3>1 DEF After, Changes, Published
      <3>3. Published \in issued /\ Published \in Versions
        BY <1>1, <2>3, PublishedIsIssued DEF Servable
      <3>4. phone' = [has |-> Published, wants |-> "nothing"]
        BY <2>1, <2>3, <3>2
      <3>5. phone' \in PhoneType /\ Held'  BY <2>1, <3>3, <3>4 DEF PhoneType, Held
      <3>6. Framed'  BY <1>1, <1>2, <2>1 DEF Framed
      <3> QED BY <1>1, <1>5, <2>1, <3>5, <3>6
    <2>4. CASE ~Servable(phone.has.cursor)
      <3>1. phone' = [phone EXCEPT !.wants = "snapshot"]  BY <2>1, <2>4
      <3>2. phone' \in PhoneType /\ phone'.has = phone.has
        BY <1>1, <3>1 DEF PhoneType
      <3>3. Held' /\ Framed'  BY <1>1, <1>2, <2>1, <2>2, <3>2 DEF Held, Framed
      <3> QED BY <1>1, <1>5, <2>1, <3>2, <3>3
    <2> QED BY <2>3, <2>4
  <1>7. CASE ReadFrame
    <2> DEFINE got == Head(frames)
    <2>1. /\ frames # <<>> /\ frames' = Tail(frames)
          /\ UNCHANGED <<file, cacheVars, stream, issued>>
          /\ phone' =
                IF got.kind = "changes" /\ got.from = phone.has.cursor
                THEN [phone EXCEPT !.has = After(got)]
                ELSE IF got.kind = "reset" THEN [phone EXCEPT !.wants = "snapshot"]
                ELSE IF got.to = phone.has.cursor \/ phone.wants = "snapshot" THEN phone
                ELSE [phone EXCEPT !.wants = "changes"]
      BY <1>7 DEF ReadFrame
    <2>2. /\ frames' \in Seq(Frames) /\ got = frames[1] /\ 1 \in 1..Len(frames)
          /\ \A n \in 1..Len(frames') : n + 1 \in 1..Len(frames) /\ frames'[n] = frames[n + 1]
      BY <1>1, <2>1
    <2>3. Framed'  BY <1>1, <1>2, <2>1, <2>2 DEF Framed
    <2>4. got.kind = "changes" => Leads(got)  BY <1>1, <2>2 DEF Framed
    <2> HIDE DEF got
    <2>5. phone' \in PhoneType /\ Held'
      <3>1. CASE got.kind = "changes" /\ got.from = phone.has.cursor
        <4>1. PICK e \in issued : e.cursor = got.from  BY <2>4, <3>1 DEF Leads
        <4>2. e.cursor.base > 0  BY <1>1 DEF CacheInv, Saved
        <4>3. phone.has # NoVersion
          BY <3>1, <4>1, <4>2 DEF NoVersion, NoCursor
        <4>4. phone.has \in issued  BY <1>1, <4>3 DEF Held
        <4>5. After(got) \in issued  BY <1>1, <2>4, <3>1, <4>4, AfterIsIssued
        <4>6. phone' = [phone EXCEPT !.has = After(got)]  BY <2>1, <3>1
        <4>7. After(got) \in Versions  BY <1>3, <4>5
        <4>8. phone' \in PhoneType /\ phone'.has = After(got)
          BY <1>1, <4>6, <4>7 DEF PhoneType
        <4> QED BY <2>1, <4>5, <4>8 DEF Held
      <3>2. CASE ~(got.kind = "changes" /\ got.from = phone.has.cursor)
        <4>1. \/ phone' = phone
              \/ phone' = [phone EXCEPT !.wants = "snapshot"]
              \/ phone' = [phone EXCEPT !.wants = "changes"] /\ phone.wants # "snapshot"
          BY <2>1, <3>2
        <4>2. /\ phone' \in PhoneType /\ phone'.has = phone.has
              /\ phone.wants = "snapshot" => phone'.wants = "snapshot"
          BY <1>1, <4>1 DEF PhoneType
        <4> QED BY <1>1, <2>1, <4>2 DEF Held
      <3> QED BY <3>1, <3>2
    <2> QED BY <1>1, <1>5, <2>1, <2>2, <2>3, <2>5
  <1> QED BY <1>4, <1>6, <1>7

-----------------------------------------------------------------------------
\* Nothing has been published when the app first starts.
LEMMA InitHolds == Init => Inv
  <1> SUFFICES ASSUME Init PROVE Inv  OBVIOUS
  <1>1. /\ NoVersion \in Versions /\ NoCursor \in Cursors /\ Empty \in Contents
        /\ NoStream \in StreamType
    BY DEF NoVersion, Versions, NoCursor, Cursors, Empty, Contents, NoStream, StreamType
  <1>2. TypeOK
    <2>1. frames \in Seq(Frames)  BY DEF Init
    <2>2. phone \in PhoneType  BY <1>1 DEF Init, PhoneType
    <2>3. version \in 0..MaxVersions /\ oldest \in 0..version
      BY CacheAssumption DEF Init
    <2>4. written \in [Ids -> 0..version] /\ deleted \in [Ids -> 0..version]
      BY DEF Init
    <2> QED BY <1>1, <2>1, <2>2, <2>3, <2>4 DEF Init, TypeOK, PhoneType, StreamType
  <1>3. Counted  BY FS_EmptySet DEF Init, Counted
  <1>4. Saved /\ Current /\ Marked /\ Traced /\ Encoded /\ CursorsNameVersions
    BY DEF Init, Saved, Current, Marked, Traced, Encoded, CursorsNameVersions
  <1>5. Follows /\ Framed /\ Held /\ NoLostWakeup
    BY DEF Init, Follows, Framed, Held, NoLostWakeup, NoStream
  <1> QED BY <1>2, <1>3, <1>4, <1>5 DEF Inv, CacheInv, PhoneInv

\* Every step keeps the invariant.
LEMMA NextKeeps == Inv /\ [Next]_vars => Inv'
  <1> SUFFICES ASSUME Inv, [Next]_vars PROVE Inv'  OBVIOUS
  <1>1. CASE UNCHANGED vars
    <2>1. /\ UNCHANGED <<file, cacheVars, issued>> /\ UNCHANGED phoneVars
      BY <1>1 DEF vars
    <2>2. CacheInv'  BY <2>1, CacheSame DEF Inv
    <2>3. TypeOK'
      BY <2>1 DEF Inv, TypeOK, cacheVars, publishedVars, phoneVars
    <2>4. PhoneInv'
      BY <2>1 DEF Inv, PhoneInv, Follows, Framed, Leads, Held, NoLostWakeup, Published,
                  cacheVars, publishedVars, phoneVars
    <2> QED BY <2>2, <2>3, <2>4 DEF Inv
  <1>2. CASE PhoneStep  BY <1>2, ConnectKeeps, AnswersKeep DEF PhoneStep
  <1> QED BY <1>1, <1>2, ShareKeeps, StreamKeeps DEF Next

\* The invariant holds of every behaviour.
LEMMA InvHolds == Spec => []Inv
  BY InitHolds, NextKeeps, PTL DEF Spec

\* The state keeps its type: cursors, bases and marks of cache.rs never leave
\* the versions that were made.
THEOREM TypeCorrect == Spec => []TypeOK
  <1>1. Inv => TypeOK  BY DEF Inv
  <1> QED BY <1>1, InvHolds, PTL

\* No cursor of cache.rs ever names two versions, whatever the clock says and
\* wherever the app dies.
THEOREM OneVersionPerCursor == Spec => []CursorsNameVersions
  <1>1. Inv => CursorsNameVersions  BY DEF Inv, CacheInv
  <1> QED BY <1>1, InvHolds, PTL

\* The changes that cache/serve.rs gives since a version lead to exactly what
\* is published, and a phone holds a version that was published.
THEOREM ChangesLeadOn == Spec => []ChangesAreExact
  <1>1. Inv => ChangesAreExact
    BY ChangesLead DEF Inv, PhoneInv, Held, ChangesAreExact
  <1> QED BY <1>1, InvHolds, PTL

\* A stream of server/connection.rs that sleeps unwoken has told its phone of
\* the published version.
THEOREM NobodyOversleeps == Spec => []NoLostWakeup
  <1>1. Inv => NoLostWakeup  BY DEF Inv, PhoneInv
  <1> QED BY <1>1, InvHolds, PTL

=============================================================================
