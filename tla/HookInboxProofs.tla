-------------------------- MODULE HookInboxProofs --------------------------
(***************************************************************************)
(* For any number of hook processes, sessions and accounts: the account    *)
(* lock keeps an account's newest report through deaths, failures and      *)
(* removals, and what the running app knows never goes back.               *)
(*                                                                         *)
(* AccountsNewest is not inductive.  A callback compares itself with the   *)
(* file in one step and replaces it in a later one, so the invariant says  *)
(* that from the first to the second it alone holds the lock and the file  *)
(* holds nothing newer (Writers), and that the time of a report that got   *)
(* into a file, or was read from one, is settled (Recorded).               *)
(***************************************************************************)
EXTENDS HookInbox, TLAPS

\* An account callback that has compared itself holds the lock, and what it
\* is about to replace is not newer (record_event of inbox/mod.rs).
Writers ==
    \A r \in Reports : KeyOf[r] \in Locked /\ proc[r] = "writing" =>
        lock = r /\ ~Newer(KeyOf[r], r)

\* What is in a file or was read from one has been recorded, in its own file.
Recorded ==
    /\ \A k \in Keys : inbox[k] # NoReport => KeyOf[inbox[k]] = k /\ proc[inbox[k]] = "done"
    /\ \A k \in Keys : evidence[k] # NoReport =>
           KeyOf[evidence[k]] = k /\ proc[evidence[k]] = "done"
    /\ \A r \in drain.taken : proc[r] = "done"

Inv == TypeOK /\ Writers /\ Recorded

LEMMA InitInv == Init => Inv
  <1> SUFFICES ASSUME Init PROVE Inv
    OBVIOUS
  <1> USE InboxAssumption DEF Init, NoDrain
  <1>1. TypeOK
    <2>1. drain \in [step : {"idle", "listing", "reading"}, todo : SUBSET Keys,
                     expired : Keys \cup {NoKey}, at : 0..MaxTime, taken : SUBSET Reports]
      OBVIOUS
    <2> QED BY <2>1 DEF TypeOK, ProcSteps
  <1>2. Writers /\ Recorded
    BY DEF Writers, Recorded
  <1> QED BY <1>1, <1>2 DEF Inv

USE InboxAssumption

\* Every step keeps the types.
LEMMA StepType == ASSUME TypeOK, Next PROVE TypeOK'
  <1> USE DEF TypeOK, ProcSteps, NoDrain, hookVars, watchVars, readVars
  <1>1. ASSUME NEW r \in Reports, HookStep(r) PROVE TypeOK'
    <2>1. CASE Begin(r)      BY <2>1 DEF Begin
    <2>2. CASE CheckValid(r) BY <2>2 DEF CheckValid
    <2>3. CASE ReadOld(r)    BY <2>3 DEF ReadOld
    <2>4. CASE Rename(r)
      <3>1. lock' \in {q \in Reports : KeyOf[q] \in Locked /\ proc'[q] = "writing"} \cup {NoReport}
        BY <2>4 DEF Rename, Released
      <3>2. rescan' \in BOOLEAN /\ notices' \subseteq Keys
        BY <2>4 DEF Rename, Changed
      <3>3. seen' \in [Keys -> Reports \cup {NoReport, Unread}]
        BY <2>4 DEF Rename
      <3> QED BY <2>4, <3>1, <3>2, <3>3 DEF Rename
    <2>5. CASE FailToWrite(r) BY <2>5 DEF FailToWrite, Released
    <2>6. CASE HandOver(r)   BY <2>6 DEF HandOver
    <2>7. CASE Die(r)        BY <2>7 DEF Die, Released
    <2> QED BY <1>1, <2>1, <2>2, <2>3, <2>4, <2>5, <2>6, <2>7 DEF HookStep
  <1>2. CASE Open  BY <1>2 DEF Open
  <1>3. CASE Close
    <2>1. drain' \in [step : {"idle", "listing", "reading"}, todo : SUBSET Keys,
                     expired : Keys \cup {NoKey}, at : 0..MaxTime, taken : SUBSET Reports]
      BY <1>3 DEF Close
    <2> QED BY <1>3, <2>1 DEF Close
  <1>4. ASSUME NEW k \in Keys, Notice(k) PROVE TypeOK'  BY <1>4 DEF Notice
  <1>5. CASE Rescan BY <1>5 DEF Rescan
  <1>6. CASE DrainStep
    <2>1. CASE BeginDrain BY <2>1 DEF BeginDrain
    <2>2. CASE ListFolder BY <2>2 DEF ListFolder
    <2>3. CASE Ingest
      <3>1. ASSUME NEW k \in Keys PROVE evidence'[k] \in Reports \cup {NoReport}
        <4> DEFINE new == {r \in drain.taken : /\ KeyOf[r] = k /\ k \notin Locked
                                               /\ Valid(r, now)
                                               /\ Kept(k) => at[r] >= at[evidence[k]]}
        <4>1. evidence'[k] = IF new # {} THEN CHOOSE r \in new : TRUE
                             ELSE IF Kept(k) THEN evidence[k] ELSE NoReport
          BY <2>3 DEF Ingest
        <4>2. new \subseteq Reports  OBVIOUS
        <4>3. new # {} => (CHOOSE r \in new : TRUE) \in new  OBVIOUS
        <4> HIDE DEF new
        <4> QED BY <4>1, <4>2, <4>3
      <3>2. evidence' \in [Keys -> Reports \cup {NoReport}]  BY <2>3, <3>1 DEF Ingest
      <3> QED BY <2>3, <3>2 DEF Ingest
    <2>4. ASSUME NEW k \in Keys, ReadRecord(k) PROVE TypeOK'
      <3> DEFINE gone == inbox[k] # NoReport /\ ~Valid(inbox[k], drain.at)
                 new == {inbox[k]} \ {seen[k], NoReport}
      <3>1. seen' = IF gone THEN seen ELSE [seen EXCEPT ![k] = inbox[k]]
        BY <2>4 DEF ReadRecord
      <3>2. drain' = IF gone
                     THEN [drain EXCEPT !.todo = drain.todo \ {k}, !.expired = k]
                     ELSE [drain EXCEPT !.todo = drain.todo \ {k},
                                        !.taken = drain.taken \cup new]
        BY <2>4 DEF ReadRecord
      <3>3. new \subseteq Reports /\ inbox[k] \in Reports \cup {NoReport}
        OBVIOUS
      <3> HIDE DEF gone, new
      <3>4. seen' \in [Keys -> Reports \cup {NoReport, Unread}]
        BY <3>1, <3>3
      <3>5. drain' \in [step : {"idle", "listing", "reading"}, todo : SUBSET Keys,
                       expired : Keys \cup {NoKey}, at : 0..MaxTime,
                       taken : SUBSET Reports]
        BY <3>2, <3>3
      <3> QED BY <2>4, <3>4, <3>5 DEF ReadRecord
    <2>5. ASSUME NEW k \in Keys, RemoveExpired(k) PROVE TypeOK'
      BY <2>5 DEF RemoveExpired, Changed
    <2>6. ASSUME NEW k \in Keys, ReadFails(k) PROVE TypeOK'
      BY <2>6 DEF ReadFails
    <2> QED BY <1>6, <2>1, <2>2, <2>3, <2>4, <2>5, <2>6 DEF DrainStep
  <1>7. CASE ListFails BY <1>7 DEF ListFails
  <1>8. CASE Tick BY <1>8 DEF Tick
  <1> QED BY <1>1, <1>2, <1>3, <1>4, <1>5, <1>6, <1>7, <1>8 DEF Next

-----------------------------------------------------------------------------
\* A report that has been recorded stays so, and its time is settled.
LEMMA Settled ==
    ASSUME TypeOK, Next, NEW r \in Reports, proc[r] = "done"
    PROVE  proc'[r] = "done" /\ at'[r] = at[r]
  BY DEF TypeOK, Next, HookStep, Begin, CheckValid, ReadOld, Rename, FailToWrite,
         HandOver, Die, Open, Close, Notice, Rescan, DrainStep, BeginDrain, ListFolder,
         Ingest, ReadRecord, ReadFails, RemoveExpired, ListFails, Tick, hookVars, watchVars, readVars

\* What a drain leaves as evidence was evidence before or has just been taken,
\* and then is not older than what it replaces.
LEMMA IngestKeepsNewest ==
    ASSUME TypeOK, Ingest, NEW k \in Keys, evidence'[k] # NoReport
    PROVE  \/ evidence'[k] = evidence[k]
           \/ /\ evidence'[k] \in drain.taken /\ KeyOf[evidence'[k]] = k
              /\ Valid(evidence'[k], now)
              /\ Kept(k) => at[evidence'[k]] >= at[evidence[k]]
  <1> DEFINE new == {r \in drain.taken : /\ KeyOf[r] = k /\ k \notin Locked
                                         /\ Valid(r, now)
                                         /\ Kept(k) => at[r] >= at[evidence[k]]}
  <1>1. evidence'[k] = IF new # {} THEN CHOOSE r \in new : TRUE
                       ELSE IF Kept(k) THEN evidence[k] ELSE NoReport
    BY DEF Ingest
  <1>2. new # {} => (CHOOSE r \in new : TRUE) \in new
    OBVIOUS
  <1> QED BY <1>1, <1>2

\* A callback that compared itself keeps the lock until it has replaced the
\* file; nobody else puts a report there, whatever removes one.
LEMMA StepWriters == ASSUME Inv, Next PROVE Writers'
  <1> USE DEF Inv
  <1> SUFFICES ASSUME NEW r \in Reports, KeyOf[r] \in Locked, proc'[r] = "writing"
               PROVE  lock' = r /\ ~Newer(KeyOf[r], r)'
    BY DEF Writers
  <1> USE DEF TypeOK, ProcSteps, hookVars, watchVars, readVars
  <1>1. ASSUME UNCHANGED <<hookVars, inbox>> PROVE lock' = r /\ ~Newer(KeyOf[r], r)'
    BY <1>1 DEF Writers, Newer
  <1>2. ASSUME NEW q \in Reports, HookStep(q) PROVE lock' = r /\ ~Newer(KeyOf[r], r)'
    <2>1. CASE Begin(q)
      <3>1. proc[r] = "writing" /\ r # q
        BY <2>1 DEF Begin
      <3>2. inbox[KeyOf[r]] # NoReport => inbox[KeyOf[r]] # q
        BY <2>1 DEF Begin, Recorded
      <3> QED BY <2>1, <3>1, <3>2 DEF Begin, Writers, Newer
    <2>2. CASE CheckValid(q)  BY <2>2 DEF CheckValid, Writers, Newer
    <2>3. CASE ReadOld(q)
      <3>1. CASE q = r  BY <2>3, <3>1 DEF ReadOld, Newer
      <3>2. CASE q # r
        <4>1. lock = r /\ ~Newer(KeyOf[r], r)
          BY <2>3, <3>2 DEF ReadOld, Writers
        <4>2. KeyOf[q] \notin Locked \/ Newer(KeyOf[q], q)
          BY <2>3, <4>1 DEF ReadOld
        <4> QED BY <2>3, <4>1, <4>2 DEF ReadOld, Newer
      <3> QED BY <3>1, <3>2
    <2>4. CASE Rename(q)
      <3>1. r # q /\ proc[r] = "writing" /\ lock = r
        BY <2>4 DEF Rename, Writers
      <3>2. KeyOf[q] # KeyOf[r]
        BY <2>4, <3>1 DEF Rename, Writers
      <3> QED BY <2>4, <3>1, <3>2 DEF Rename, Released, Writers, Newer
    <2>5. CASE FailToWrite(q)  BY <2>5 DEF FailToWrite, Released, Writers, Newer
    <2>6. CASE HandOver(q)     BY <2>6 DEF HandOver, Writers, Newer
    <2>7. CASE Die(q)          BY <2>7 DEF Die, Released, Writers, Newer
    <2> QED BY <1>2, <2>1, <2>2, <2>3, <2>4, <2>5, <2>6, <2>7 DEF HookStep
  <1>3. ASSUME NEW k \in Keys, RemoveExpired(k) PROVE lock' = r /\ ~Newer(KeyOf[r], r)'
    BY <1>3 DEF RemoveExpired, Writers, Newer
  <1>4. Open \/ Close \/ Rescan \/ ListFails \/ Tick \/ (\E k \in Keys : Notice(k))
            => UNCHANGED <<hookVars, inbox>>
    BY DEF Open, Close, Rescan, ListFails, Tick, Notice
  <1>5. BeginDrain \/ ListFolder \/ Ingest \/ (\E k \in Keys : ReadRecord(k) \/ ReadFails(k))
            => UNCHANGED <<hookVars, inbox>>
    BY DEF BeginDrain, ListFolder, Ingest, ReadRecord, ReadFails
  <1> QED BY <1>1, <1>2, <1>3, <1>4, <1>5 DEF Next, DrainStep

LEMMA StepRecorded == ASSUME Inv, Next PROVE Recorded'
  <1> USE DEF Inv
  <1>1. \A r \in Reports : proc[r] = "done" => proc'[r] = "done"
    BY Settled
  <1>2. ASSUME NEW k \in Keys, inbox'[k] # NoReport
        PROVE  KeyOf[inbox'[k]] = k /\ proc'[inbox'[k]] = "done"
    <2>1. inbox'[k] = inbox[k] \/ \E r \in Reports : Rename(r) /\ KeyOf[r] = k /\ inbox'[k] = r
      BY <1>2 DEF TypeOK, Next, HookStep, Begin, CheckValid, ReadOld, Rename, FailToWrite,
            HandOver, Die, Open, Close, Notice, Rescan, DrainStep, BeginDrain, ListFolder,
            Ingest, ReadRecord, ReadFails, RemoveExpired, ListFails, Tick
    <2>2. CASE inbox'[k] = inbox[k]
      BY <1>1, <1>2, <2>2 DEF Recorded, TypeOK
    <2>3. ASSUME NEW r \in Reports, Rename(r), KeyOf[r] = k, inbox'[k] = r
          PROVE  KeyOf[inbox'[k]] = k /\ proc'[inbox'[k]] = "done"
      BY <2>3 DEF Rename, TypeOK
    <2> QED BY <2>1, <2>2, <2>3
  <1>3. ASSUME NEW k \in Keys, evidence'[k] # NoReport
        PROVE  KeyOf[evidence'[k]] = k /\ proc'[evidence'[k]] = "done"
    <2>1. evidence'[k] = evidence[k] \/ Ingest
      BY <1>3 DEF TypeOK, Next, HookStep, Begin, CheckValid, ReadOld, Rename, FailToWrite,
            HandOver, Die, Open, Close, Notice, Rescan, DrainStep, BeginDrain, ListFolder,
            ReadRecord, ReadFails, RemoveExpired, ListFails, Tick, readVars
    <2>2. CASE evidence'[k] = evidence[k]
      BY <1>1, <1>3, <2>2 DEF Recorded, TypeOK
    <2>3. CASE Ingest /\ evidence'[k] # evidence[k]
      <3>1. evidence'[k] \in drain.taken /\ KeyOf[evidence'[k]] = k
        BY <1>3, <2>3, IngestKeepsNewest
      <3>2. evidence'[k] \in Reports /\ proc[evidence'[k]] = "done"
        BY <3>1 DEF Recorded, TypeOK
      <3> QED BY <1>1, <3>1, <3>2
    <2> QED BY <2>1, <2>2, <2>3
  <1>4. ASSUME NEW r \in drain'.taken PROVE proc'[r] = "done"
    <2>1. \/ r \in drain.taken
          \/ \E k \in Keys : r = inbox[k] /\ r # NoReport
      <3> USE DEF TypeOK, NoDrain
      <3>1. drain' = drain \/ DrainStep \/ Close \/ ListFails
        BY DEF Next, HookStep, Begin, CheckValid, ReadOld, Rename, FailToWrite,
            HandOver, Die, Open, Notice, Rescan, Tick, readVars
      <3>2. CASE drain' = drain  BY <3>2
      <3>3. CASE Close \/ ListFails  BY <3>3 DEF Close, ListFails
      <3>4. CASE BeginDrain \/ ListFolder \/ Ingest
        <4>1. BeginDrain => drain'.taken = {}
          BY DEF BeginDrain
        <4>2. ListFolder => drain'.taken = drain.taken
          BY DEF ListFolder
        <4>3. Ingest => drain'.taken = {}
          BY DEF Ingest
        <4> QED BY <3>4, <4>1, <4>2, <4>3
      <3>5. ASSUME NEW k \in Keys, ReadRecord(k)
            PROVE  r \in drain.taken \/ (r = inbox[k] /\ r # NoReport)
        <4> DEFINE gone == inbox[k] # NoReport /\ ~Valid(inbox[k], drain.at)
                   new == {inbox[k]} \ {seen[k], NoReport}
        <4>1. drain' = IF gone
                       THEN [drain EXCEPT !.todo = drain.todo \ {k}, !.expired = k]
                       ELSE [drain EXCEPT !.todo = drain.todo \ {k},
                                          !.taken = drain.taken \cup new]
          BY <3>5 DEF ReadRecord
        <4> HIDE DEF gone
        <4>2. drain'.taken \subseteq drain.taken \cup new
          BY <4>1
        <4> QED BY <4>2
      <3>6. ASSUME NEW k \in Keys, RemoveExpired(k) PROVE r \in drain.taken
        BY <3>6 DEF RemoveExpired
      <3>7. ASSUME NEW k \in Keys, ReadFails(k) PROVE r \in drain.taken
        BY <3>7 DEF ReadFails
      <3> QED BY <3>1, <3>2, <3>3, <3>4, <3>5, <3>6, <3>7 DEF DrainStep
    <2> QED BY <1>1, <2>1 DEF Recorded, TypeOK
  <1> QED BY <1>2, <1>3, <1>4 DEF Recorded

-----------------------------------------------------------------------------
\* Account callbacks are serialised and every record is its own key's, in
\* every reachable state.
THEOREM Invariant == Spec => []Inv
  <1>1. Inv /\ UNCHANGED vars => Inv'
    BY DEF Inv, TypeOK, Writers, Recorded, Newer, vars, hookVars, watchVars, readVars
  <1>2. Inv /\ [Next]_vars => Inv'
    BY <1>1, StepType, StepWriters, StepRecorded DEF Inv
  <1> QED BY InitInv, <1>2, PTL DEF Spec

\* The inbox, the lock, the watcher and the drain keep their types.
THEOREM TypeCorrect == Spec => []TypeOK
  BY Invariant, PTL DEF Inv

\* No account report overwrites a newer one (mod.rs:57-58).
THEOREM AccountsKeepNewest == Spec => AccountsNewest
  <1>1. Inv /\ [Next]_vars =>
            [\A k \in Locked : inbox[k] # NoReport /\ inbox'[k] # NoReport =>
                at'[inbox'[k]] >= at[inbox[k]]]_vars
    <2> SUFFICES ASSUME Inv, Next, NEW k \in Locked,
                        inbox[k] # NoReport, inbox'[k] # NoReport
                 PROVE  at'[inbox'[k]] >= at[inbox[k]]
      OBVIOUS
    <2> USE DEF Inv
    <2>0. k \in Keys /\ inbox[k] \in Reports /\ at[inbox[k]] \in Nat
      BY DEF TypeOK
    <2>1. inbox'[k] = inbox[k] \/ \E r \in Reports : Rename(r) /\ KeyOf[r] = k /\ inbox'[k] = r
      BY <2>0 DEF TypeOK, Next, HookStep, Begin, CheckValid, ReadOld, Rename, FailToWrite,
            HandOver, Die, Open, Close, Notice, Rescan, DrainStep, BeginDrain, ListFolder,
            Ingest, ReadRecord, ReadFails, RemoveExpired, ListFails, Tick
    <2>2. CASE inbox'[k] = inbox[k]
      BY <2>0, <2>2, Settled DEF Recorded
    <2>3. ASSUME NEW r \in Reports, Rename(r), KeyOf[r] = k, inbox'[k] = r
          PROVE  at'[inbox'[k]] >= at[inbox[k]]
      <3>1. proc[r] = "writing" /\ at' = at
        BY <2>3 DEF Rename
      <3>2. ~Newer(k, r)
        BY <2>3, <3>1 DEF Writers
      <3> QED BY <2>0, <2>3, <3>1, <3>2 DEF Newer, TypeOK
    <2> QED BY <2>1, <2>2, <2>3
  <1> QED BY <1>1, Invariant, PTL DEF Spec, AccountsNewest

\* The evidence of a session never goes back while the app runs.
THEOREM EvidenceKeepsNewest == Spec => EvidenceNewest
  <1>1. Inv /\ [Next]_vars =>
            [\A k \in Keys : evidence[k] # NoReport /\ evidence'[k] # NoReport =>
                at'[evidence'[k]] >= at[evidence[k]]]_vars
    <2> SUFFICES ASSUME Inv, Next, NEW k \in Keys,
                        evidence[k] # NoReport, evidence'[k] # NoReport
                 PROVE  at'[evidence'[k]] >= at[evidence[k]]
      OBVIOUS
    <2> USE DEF Inv
    <2>0. evidence[k] \in Reports /\ at[evidence[k]] \in Nat /\ KeyOf[evidence[k]] = k
      BY DEF TypeOK, Recorded
    <2>1. evidence'[k] = evidence[k] \/ Ingest
      BY DEF TypeOK, Next, HookStep, Begin, CheckValid, ReadOld, Rename, FailToWrite,
            HandOver, Die, Open, Close, Notice, Rescan, DrainStep, BeginDrain, ListFolder,
            ReadRecord, ReadFails, RemoveExpired, ListFails, Tick, readVars
    <2>2. CASE evidence'[k] = evidence[k]
      BY <2>0, <2>2, Settled DEF Recorded
    <2>3. CASE Ingest /\ evidence'[k] # evidence[k]
      <3>1. /\ evidence'[k] \in drain.taken /\ KeyOf[evidence'[k]] = k
            /\ Valid(evidence'[k], now)
            /\ Kept(k) => at[evidence'[k]] >= at[evidence[k]]
        BY <2>3, IngestKeepsNewest
      <3>2. at' = at
        BY <2>3 DEF Ingest, hookVars
      <3>3. evidence'[k] \in Reports /\ at[evidence'[k]] \in Nat /\ now \in Nat
        BY <3>1 DEF TypeOK
      <3>4. Retention[k] \in Nat
        OBVIOUS
      <3>5. ~Kept(k) => now >= at[evidence[k]] + Retention[k]
        BY <2>0, <3>3, <3>4 DEF Kept, Valid
      <3>6. now < at[evidence'[k]] + Retention[k]
        BY <3>1 DEF Valid
      <3> QED BY <2>0, <3>1, <3>2, <3>3, <3>4, <3>5, <3>6
    <2> QED BY <2>1, <2>2, <2>3
  <1> QED BY <1>1, Invariant, PTL DEF Spec, EvidenceNewest
=============================================================================
