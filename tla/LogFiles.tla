------------------------------ MODULE LogFiles ------------------------------
(***************************************************************************)
(* Which logs there are (core/src/log_files.rs, log_files/walk.rs and      *)
(* platform/src/file_changes.rs).  The watcher of the system reports paths *)
(* to a callback, which gathers them; each pass of the collector takes     *)
(* them and brings its listing of the logs up to date: path by path when   *)
(* it knows what changed, and with a walk of every folder when it does not *)
(* or when the last walk is five minutes old.  Clients write, move and     *)
(* remove logs at any point of a pass.                                     *)
(*                                                                         *)
(* One root with folders in it.  A file's stamp is 0 when there is none.   *)
(* Ages count from the last event and stop at Reconcile + 1.               *)
(***************************************************************************)
EXTENDS Naturals, FiniteSets

CONSTANTS Files, Folders, Root,
          In,          \* the folder each file is in
          Silent,      \* folders whose walker says nothing of what it is refused
          MaxStamp,    \* bound: stamps of a file (two that differ are enough)
          Limit,       \* how many paths are gathered (10,000)
          Reconcile,   \* the age at which a walk is made again (300 s)
          Unknown      \* in place of a set of paths

Paths == Files \cup Folders

ASSUME ListingAssumption ==
    /\ Root \in Folders /\ Folders \cap Files = {}
    /\ In \in [Files -> Folders] /\ Silent \subseteq Folders
    /\ MaxStamp \in Nat \ {0} /\ Limit \in Nat /\ Reconcile \in Nat \ {0}
    /\ \A paths \in SUBSET Paths : paths # Unknown

VARIABLES
    disk,       \* the stamp of each file
    there,      \* the root exists
    bad,        \* folders the system refuses: they cannot be listed, and what
                \* is in them can at times not be looked at
    watch,      \* FileChanges: the targets wanted and watched; whether the watch works
    changes,    \* FileChanges::changes
    due,        \* the callback has woken the collector
    files,      \* LogFiles::files
    batch,      \* LogFiles::changes
    holders,    \* LogFiles::holders
    walked,     \* LogFiles::scanned_at: the age of the last walk
    pass,       \* the pass in progress
    age,        \* history: how long ago each file changed or came in sight
    gone,       \* history: files that were not there at some time of the pass
    hidden,     \* history: files its walk was refused and said nothing of
    blind       \* history: files whose last change no notice tells of, or that
                \* were refused since the last walk

diskVars == <<disk, there, bad>>
watchVars == <<watch, changes, due>>
listVars == <<files, batch, holders, walked>>
history == <<age, gone, hidden, blind>>
vars == <<diskVars, watchVars, listVars, pass, history>>

Stamps == [Files -> 0..MaxStamp]
NoFiles == [x \in Files |-> 0]
Never == Reconcile + 1

\* The folders are the root and those in it.
Under(folder) == {x \in Files : folder \in {Root, In[x]}}
FolderThere(folder) ==
    there /\ (folder = Root \/ \E x \in Under(folder) : disk[x] # 0)
Readable(x) == {Root, In[x]} \cap bad = {}
Refused(folder) == folder # Root /\ Root \in bad

NoPass == [step |-> "idle", todo |-> {}, seen |-> NoFiles, errors |-> FALSE,
           outer |-> {}, folder |-> Root, recheck |-> {}]

\* The paths gathered for a pass are never more than the limit.
TypeOK ==
    /\ disk \in Stamps /\ there \in BOOLEAN /\ bad \subseteq Folders
    /\ watch \in [wanted : BOOLEAN, watched : BOOLEAN, works : BOOLEAN]
    /\ changes \in {c \in SUBSET Paths : Cardinality(c) <= Limit} \cup {Unknown}
    /\ due \in BOOLEAN
    /\ files \in Stamps /\ batch \in (SUBSET Paths) \cup {Unknown}
    /\ holders \subseteq Folders /\ walked \in 0..Never
    /\ pass \in [step : {"idle", "noted", "full", "outer", "part", "recheck"},
                 todo : SUBSET Paths, seen : Stamps, errors : BOOLEAN,
                 outer : SUBSET Folders, folder : Folders, recheck : SUBSET Paths]
    /\ age \in [Files -> 0..Never] /\ gone \subseteq Files
    /\ hidden \subseteq Files /\ blind \subseteq Files

Init ==
    /\ disk = NoFiles /\ there = FALSE /\ bad = {}
    /\ watch = [wanted |-> FALSE, watched |-> FALSE, works |-> FALSE]
    /\ changes = Unknown /\ due = FALSE
    /\ files = NoFiles /\ batch = Unknown /\ holders = {} /\ walked = Never
    /\ pass = NoPass
    /\ age = [x \in Files |-> 0] /\ gone = {} /\ hidden = {} /\ blind = {}

-----------------------------------------------------------------------------
(* The clients and the system.                                             *)

\* The watcher's callback.  Past the limit it is unknown what changed.
Gathered(path) ==
    IF changes = Unknown \/ Cardinality(changes \cup {path}) > Limit THEN Unknown
    ELSE changes \cup {path}

\* A watch that works reports the path, or that it has dropped reports.  (What
\* is reported late is like what changes late.)
Reports(works, path) ==
    IF works
    THEN due' = TRUE /\ changes' \in {Gathered(path), Unknown}
    ELSE UNCHANGED <<due, changes>>

\* Files change.
Touch(changed, path) ==
    /\ Reports(watch.works, path)
    /\ age' = [x \in Files |-> IF x \in changed THEN 0 ELSE age[x]]
    /\ gone' = IF pass.step = "idle" THEN {} ELSE gone \cup {x \in changed : disk'[x] = 0}
    /\ blind' = IF watch.works THEN blind ELSE blind \cup changed
    /\ UNCHANGED <<watch, listVars, pass, hidden>>

Write(x) ==
    /\ there
    /\ \E stamp \in (1..MaxStamp) \ {disk[x]} : disk' = [disk EXCEPT ![x] = stamp]
    /\ Touch({x}, x)
    /\ UNCHANGED <<there, bad>>

Remove(x) ==
    /\ disk[x] # 0
    /\ disk' = [disk EXCEPT ![x] = 0]
    /\ Touch({x}, x)
    /\ UNCHANGED <<there, bad>>

\* A folder is moved away or into place with what it holds: one report.
MoveFolder(folder) ==
    /\ there /\ folder # Root
    /\ \E stamp \in 0..MaxStamp :
          disk' = [x \in Files |-> IF x \in Under(folder) THEN stamp ELSE disk[x]]
    /\ disk' # disk
    /\ Touch(Under(folder), folder)
    /\ UNCHANGED <<there, bad>>

RootComes ==
    /\ ~there
    /\ there' = TRUE
    /\ UNCHANGED <<disk, bad, watchVars, listVars, pass, history>>

\* With the root its watch may go, which nothing tells FileChanges.
RootGoes ==
    /\ there
    /\ there' = FALSE /\ disk' = NoFiles
    /\ \E works \in {FALSE, watch.works} :
          /\ watch' = [watch EXCEPT !.works = works]
          /\ Reports(works, Root)
          /\ blind' = IF works THEN blind ELSE Files
    /\ age' = [x \in Files |-> IF disk[x] # 0 THEN 0 ELSE age[x]]
    /\ gone' = IF pass.step = "idle" THEN {} ELSE Files
    /\ UNCHANGED <<bad, listVars, pass, hidden>>

\* A folder is refused from now on, or for a moment only, or no longer.
Protect(folder) ==
    /\ bad' = IF folder \in bad THEN bad \ {folder} ELSE bad \cup {folder}
    /\ age' = IF folder \in bad THEN [x \in Files |-> 0] ELSE age
    /\ UNCHANGED <<disk, there, watchVars, listVars, pass, gone, hidden, blind>>

-----------------------------------------------------------------------------
(* FileChanges.                                                            *)

\* update: the roots there are now are wanted; a watch that fails is tried
\* again after a pause.
Updated ==
    IF there # watch.wanted
    THEN [wanted : {there}, watched : {FALSE, there}, works : {FALSE}]
    ELSE IF watch.watched = watch.wanted THEN {watch}
    ELSE {watch, [watch EXCEPT !.watched = TRUE]}

Works(new) == [new EXCEPT !.works = IF new.watched /\ ~watch.watched THEN TRUE ELSE watch.works /\ new.watched]

\* What changed while the watched set moved is unknown.
Known == IF there # watch.wanted THEN Unknown ELSE changes

\* What a pass is told: a root that no watch covers is always read again.
Consumed(new) ==
    IF ~new.wanted \/ Known = Unknown THEN Unknown
    ELSE Known \cup (IF new.watched THEN {} ELSE {Root})

\* note_changes, onto what an earlier pass has left.
Noted(paths) == IF Unknown \in {batch, paths} THEN Unknown ELSE batch \cup paths

\* The first walk is due to everything; so is the one a user asks for.
BeginPass ==
    /\ pass.step = "idle"
    /\ \E new \in Updated :
          /\ watch' = Works(new)
          /\ changes' = IF new.wanted THEN {} ELSE Known
          /\ \E told \in {Consumed(new), Unknown} : batch' = Noted(told)
    /\ due' = FALSE
    /\ pass' = [NoPass EXCEPT !.step = "noted"]
    /\ gone' = {x \in Files : disk[x] = 0} /\ hidden' = {}
    /\ UNCHANGED <<diskVars, files, holders, walked, age, blind>>

-----------------------------------------------------------------------------
(* refresh.                                                                *)

\* A folder that cannot be looked at is one if it held logs.
IsFolder(path, unseen) ==
    path \in Folders /\ ((FolderThere(path) /\ path \notin unseen) \/ path \in holders)

\* Mutant: only folders that are there now are folders.
Outer_There(unseen) == {p \in batch \cap Folders : FolderThere(p) /\ p \notin unseen}

\* The folders to walk, those inside another one left out.
Outer(unseen) ==
    LET named == {p \in batch : IsFolder(p, unseen)}
    IN  IF Root \in named THEN {Root} ELSE named

Covered(path, outer) == \E p \in outer : p = Root \/ p = path \/ (path \in Files /\ path \in Under(p))

BeginFull ==
    /\ pass.step = "noted" /\ (batch = Unknown \/ walked >= Reconcile)
    /\ pass' = [pass EXCEPT !.step = "full", !.todo = {Root}]
    /\ batch' = {}
    /\ blind' = {}
    /\ UNCHANGED <<diskVars, watchVars, files, holders, walked, age, gone, hidden>>

\* With the logs that clients hold open.
BeginPart ==
    /\ pass.step = "noted" /\ batch # Unknown /\ walked < Reconcile
    /\ \E unseen \in SUBSET {p \in batch \cap Folders : Refused(p)}, open \in SUBSET Files :
          /\ pass' = [pass EXCEPT !.step = "outer", !.outer = Outer(unseen),
                         !.recheck = {p \in batch : ~Covered(p, Outer(unseen))} \cup open]
          /\ blind' = blind \cup UNION {Under(p) : p \in unseen \ holders}
    /\ batch' = {}
    /\ UNCHANGED <<diskVars, watchVars, files, holders, walked, age, gone, hidden>>

\* walk: a folder is listed, then what it holds is looked at.
ListFolder(folder) ==
    /\ pass.step \in {"full", "part"} /\ folder \in pass.todo
    /\ FolderThere(folder) => folder \notin bad
    /\ pass' = [pass EXCEPT !.todo =
           IF FolderThere(folder)
           THEN (@ \ {folder}) \cup {x \in Files : In[x] = folder /\ disk[x] # 0}
                   \cup (IF folder = Root THEN {p \in Folders \ {Root} : FolderThere(p)} ELSE {})
           ELSE @ \ {folder}]
    /\ UNCHANGED <<diskVars, watchVars, listVars, history>>

StatFile(x) ==
    /\ pass.step \in {"full", "part"} /\ x \in pass.todo
    /\ pass' = [pass EXCEPT !.todo = @ \ {x}, !.seen[x] = disk[x]]
    /\ UNCHANGED <<diskVars, watchVars, listVars, history>>

\* The walk passes over a path it is refused, with the files it would have
\* come to.  That is an error, but not for every walker: one takes a folder it
\* cannot list for an empty one (walk_antigravity), others a root in which they
\* cannot see their database for that of another client.
PassOver(path, folder, lost) ==
    /\ pass.step \in {"full", "part"} /\ path \in pass.todo
    /\ \E told \in {TRUE, folder \notin Silent} :
          /\ pass' = [pass EXCEPT !.todo = @ \ {path}, !.errors = @ \/ told]
          /\ hidden' = IF told THEN hidden ELSE hidden \cup lost
    /\ blind' = blind \cup lost
    /\ UNCHANGED <<diskVars, watchVars, listVars, age, gone>>

ListFails(folder) ==
    /\ there /\ ((FolderThere(folder) /\ folder \in bad) \/ Refused(folder))
    /\ PassOver(folder, folder, Under(folder))

StatFails(x) ==
    /\ ~Readable(x)
    /\ PassOver(x, In[x], {x})

HoldersOf(listing) == {p \in Folders : \E x \in Under(p) : listing[x] # 0}

\* What stays in the listing unseen.
Kept == {x \in Files : pass.errors /\ pass.seen[x] = 0 /\ files[x] # 0}

\* Mutant: a file that was not seen is gone, whatever could not be listed.
EndFull_Gone ==
    /\ pass.step = "full" /\ pass.todo = {}
    /\ files' = pass.seen
    /\ holders' = HoldersOf(files') /\ walked' = 0
    /\ pass' = NoPass /\ gone' = {} /\ hidden' = {}
    /\ UNCHANGED <<diskVars, watchVars, batch, age, blind>>

\* A walk that could not list everything takes no file away.
EndFull ==
    /\ pass.step = "full" /\ pass.todo = {}
    /\ files' = [x \in Files |-> IF x \in Kept THEN files[x] ELSE pass.seen[x]]
    /\ holders' = HoldersOf(files') /\ walked' = 0
    /\ pass' = NoPass /\ gone' = {} /\ hidden' = {}
    /\ blind' = blind \cup Kept
    /\ UNCHANGED <<diskVars, watchVars, batch, age>>

BeginOuter(folder) ==
    /\ pass.step = "outer" /\ folder \in pass.outer
    /\ pass' = [pass EXCEPT !.step = "part", !.outer = @ \ {folder}, !.folder = folder,
                            !.todo = {folder}, !.seen = NoFiles, !.errors = FALSE]
    /\ blind' = blind \ Under(folder)
    /\ UNCHANGED <<diskVars, watchVars, listVars, age, gone, hidden>>

EndOuter ==
    /\ pass.step = "part" /\ pass.todo = {}
    /\ files' = [x \in Files |-> IF x \in Under(pass.folder) \ Kept THEN pass.seen[x]
                                 ELSE files[x]]
    /\ holders' = holders \cup HoldersOf(pass.seen)
    /\ pass' = [pass EXCEPT !.step = "outer"]
    /\ blind' = blind \cup (Kept \cap Under(pass.folder))
    /\ UNCHANGED <<diskVars, watchVars, batch, walked, age, gone, hidden>>

\* A path that was a folder is none in the listing.
Recheck(path) ==
    /\ pass.step = "outer" /\ pass.outer = {} /\ path \in pass.recheck
    /\ pass' = [pass EXCEPT !.recheck = @ \ {path}]
    /\ IF path \in Files
       THEN /\ files' = [files EXCEPT ![path] = disk[path]]
            /\ holders' = IF disk[path] \in {0, files[path]} THEN holders
                          ELSE holders \cup HoldersOf([NoFiles EXCEPT ![path] = disk[path]])
       ELSE UNCHANGED <<files, holders>>
    /\ UNCHANGED <<diskVars, watchVars, batch, walked, history>>

\* A log the system refuses stays listed as it was, and its report is spent.
RecheckFails(x) ==
    /\ pass.step = "outer" /\ pass.outer = {} /\ x \in pass.recheck
    /\ ~Readable(x)
    /\ pass' = [pass EXCEPT !.recheck = @ \ {x}]
    /\ blind' = blind \cup {x}
    /\ UNCHANGED <<diskVars, watchVars, listVars, age, gone, hidden>>

EndPass ==
    /\ pass.step = "outer" /\ pass.outer = {} /\ pass.recheck = {}
    /\ pass' = NoPass /\ gone' = {} /\ hidden' = {}
    /\ UNCHANGED <<diskVars, watchVars, listVars, age, blind>>

\* A log that is gone could not be marked so: the next pass looks at all.
MarkFails ==
    /\ pass.step = "idle" /\ batch = {}
    /\ batch' = Unknown
    /\ UNCHANGED <<diskVars, watchVars, files, holders, walked, pass, history>>

\* Between passes, a hook's reminder lists the log it names.
Remind(x) ==
    /\ pass.step = "idle" /\ disk[x] # 0 /\ files[x] # disk[x]
    /\ files' = [files EXCEPT ![x] = disk[x]]
    /\ blind' = IF In[x] \in holders THEN blind ELSE blind \cup {x}
    /\ UNCHANGED <<diskVars, watchVars, batch, holders, walked, pass, age, gone, hidden>>

\* Mutant: time goes by while a walk is due.
Tick_Late ==
    /\ pass.step = "idle" /\ ~due
    /\ walked' = IF walked < Never THEN walked + 1 ELSE walked
    /\ age' = [x \in Files |-> IF age[x] < Never THEN age[x] + 1 ELSE age[x]]
    /\ UNCHANGED <<diskVars, watchVars, files, batch, holders, pass, gone, hidden, blind>>

\* A pass is made when the callback wakes the collector or a walk is due.
Tick ==
    /\ pass.step = "idle" /\ ~due /\ walked < Reconcile
    /\ walked' = walked + 1
    /\ age' = [x \in Files |-> IF age[x] < Never THEN age[x] + 1 ELSE age[x]]
    /\ UNCHANGED <<diskVars, watchVars, files, batch, holders, pass, gone, hidden, blind>>

-----------------------------------------------------------------------------
Outside ==
    \/ \E x \in Files : Write(x) \/ Remove(x) \/ Remind(x)
    \/ \E p \in Folders : MoveFolder(p) \/ Protect(p)
    \/ RootComes \/ RootGoes \/ Tick

Pass ==
    \/ BeginPass \/ BeginFull \/ BeginPart \/ EndFull \/ EndOuter \/ EndPass \/ MarkFails
    \/ \E p \in Folders : ListFolder(p) \/ ListFails(p) \/ BeginOuter(p)
    \/ \E x \in Files : StatFile(x) \/ StatFails(x) \/ RecheckFails(x)
    \/ \E p \in Paths : Recheck(p)

Next == Outside \/ Pass

Spec == Init /\ [][Next]_vars

-----------------------------------------------------------------------------
(* Properties.                                                             *)

\* No change is missed for longer than the time between two walks, whatever
\* was lost, once its folders can be listed; and, for a log that is gone, every
\* folder (log_files.rs, RECONCILE_SECS).
ChangesAreListed ==
    \A x \in Files : files[x] # disk[x] /\ (bad = {} \/ (disk[x] # 0 /\ Readable(x))) =>
        age[x] <= Reconcile

\* No report is waiting and no pass is under way.
Quiet ==
    /\ changes = {} /\ batch = {} /\ pass.step = "idle"
    /\ there = watch.wanted

\* What changed under a working watch is listed as soon as its report has been
\* taken, however many paths there were and whichever of a file and its
\* folders was named, unless the system refused to let it be looked at.
ReportsAreEnough ==
    Quiet => \A x \in Files \ blind : Readable(x) => files[x] = disk[x]

\* A log leaves the listing only if it was not there at some time of the
\* pass, or was passed over by a walker that says nothing of what it is
\* refused: never because a folder could not be listed that the walk tells of.
RemovedAreGone ==
    [][\A x \in Files : files[x] # 0 /\ files'[x] = 0 => x \in gone \cup hidden]_vars

\* log_files.rs:117: "A failed subtree read cannot prove that cached files
\* disappeared", whoever reads the subtree.
FailedReadsProveNothing ==
    [][\A x \in Files : files[x] # 0 /\ files'[x] = 0 => x \in gone]_vars
=============================================================================
