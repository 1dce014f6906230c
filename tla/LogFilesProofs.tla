--------------------------- MODULE LogFilesProofs ---------------------------
(***************************************************************************)
(* For any logs, folders, limit of paths and time between walks: no change *)
(* is missed for longer than that time, what is reported and can be looked *)
(* at is listed at once, and no log leaves the listing that was there,     *)
(* unless a walker says nothing of a folder it was refused.                *)
(*                                                                         *)
(* A pass looks at the disk a folder and a file at a time while clients    *)
(* move, write and remove logs.  So the invariant says of each file of a   *)
(* walk that it is still ahead, or that what the walk has seen of it is    *)
(* right unless it changed meanwhile or could not be seen (Walk), and of   *)
(* each file whose report was taken that somebody still has its path       *)
(* (Reported).  A path that was a folder is known for one by the folders   *)
(* of the files that are listed (Held).                                    *)
(***************************************************************************)
EXTENDS LogFiles, TLAPS, FiniteSetTheorems

Walking == pass.step \in {"full", "part"}

\* What the walk under way is of.
Scope == IF pass.step = "full" THEN Files ELSE Under(pass.folder)

\* The walk will still come to x.
Ahead(x) == {x, In[x], Root} \cap pass.todo # {}

\* Logs are in a root that is there; ages count from the last walk; what is not
\* there during a pass is noted.
Disk ==
    /\ \A x \in Files : disk[x] # 0 => there
    /\ walked = Never => \A x \in Files : age[x] = 0
    /\ pass.step # "idle" => \A x \in Files : disk[x] # 0 \/ x \in gone
    /\ changes # Unknown => IsFiniteSet(changes)

\* What a walk has seen of a file that is no longer ahead is what there is, but
\* for what changed since or cannot be listed.
Walk ==
    /\ pass.step = "noted" => pass.seen = NoFiles /\ ~pass.errors
    /\ Walking =>
        /\ pass.errors => bad # {} \/ \A x \in Files : age[x] = 0
        /\ \A x \in Files : pass.seen[x] \in {0, disk[x]} \/ age[x] = 0
        /\ \A x \in Scope : ~Ahead(x) =>
              /\ pass.seen[x] = disk[x] \/ age[x] = 0 \/ ~Readable(x)
              /\ pass.seen[x] # 0 \/ pass.errors \/ x \in gone \cup hidden

\* The file is listed, or its absence from the disk can be seen.
Shown(x) == bad = {} \/ (disk[x] # 0 /\ Readable(x))

\* What the listing does not have changed after the last walk began.
Recent == \A x \in Files : files[x] # disk[x] /\ Shown(x) => age[x] <= walked

\* The paths tell of x.
Told(paths, x) ==
    paths = Unknown \/ x \in paths \/ \E p \in paths \cap Folders : x \in Under(p)

\* Somebody has a path that tells of x.
ToCome(x) ==
    \/ Told(changes, x) \/ Told(batch, x)
    \/ pass.step \in {"outer", "part"} /\ (Told(pass.outer, x) \/ x \in pass.recheck)

\* The listing, or the walk that is to correct it, has x wrong.
Stale(x) ==
    IF Walking /\ x \in Scope
    THEN pass.seen[x] # disk[x] /\ (pass.seen[x] = 0 => ~Ahead(x))
    ELSE files[x] # disk[x]
Reported == \A x \in Files \ blind : Stale(x) => ToCome(x)

\* The folder of a file that is listed is known for one.
Held ==
    /\ holders # {} => Root \in holders
    /\ \A x \in Files \ blind :
          files[x] # 0 /\ ~(Walking /\ x \in Scope) => In[x] \in holders

Inv == TypeOK /\ Disk /\ Walk /\ Recent /\ Reported /\ Held

-----------------------------------------------------------------------------
USE ListingAssumption

(* Types.                                                                  *)

Passes == [step : {"idle", "noted", "full", "outer", "part", "recheck"},
           todo : SUBSET Paths, seen : Stamps, errors : BOOLEAN,
           outer : SUBSET Folders, folder : Folders, recheck : SUBSET Paths]

LEMMA NoFilesStamps == NoFiles \in Stamps /\ \A x \in Files : NoFiles[x] = 0
  BY DEF NoFiles, Stamps

LEMMA NoPassType ==
    NoPass \in Passes /\ NoPass.step = "idle" /\ NoPass.seen = NoFiles /\ ~NoPass.errors
  BY NoFilesStamps DEF NoPass, Passes

LEMMA Types ==
    ASSUME TypeOK
    PROVE  /\ pass \in Passes /\ disk \in Stamps /\ files \in Stamps
           /\ changes \in (SUBSET Paths) \cup {Unknown} /\ batch \in (SUBSET Paths) \cup {Unknown}
           /\ changes # Unknown => Cardinality(changes) <= Limit
           /\ holders \subseteq Folders /\ blind \subseteq Files /\ gone \subseteq Files
           /\ hidden \subseteq Files
           /\ bad \subseteq Folders /\ walked \in 0..Never /\ age \in [Files -> 0..Never]
           /\ there \in BOOLEAN /\ due \in BOOLEAN
           /\ watch \in [wanted : BOOLEAN, watched : BOOLEAN, works : BOOLEAN]
  <1>1. pass \in Passes  BY DEF TypeOK, Passes
  <1>2. /\ changes \in (SUBSET Paths) \cup {Unknown}
        /\ changes # Unknown => Cardinality(changes) <= Limit
    BY DEF TypeOK
  <1>3. batch \in (SUBSET Paths) \cup {Unknown}  BY DEF TypeOK
  <1> QED BY <1>1, <1>2, <1>3 DEF TypeOK

\* A folder holds files; the root holds all of them.
LEMMA InFolders ==
    /\ Root \in Folders /\ Under(Root) = Files
    /\ \A x \in Files : In[x] \in Folders /\ x \in Under(In[x]) /\ x \notin Folders
    /\ \A p \in Folders, x \in Files : x \in Under(p) <=> p = Root \/ p = In[x]
    /\ \A p \in Folders : Under(p) \subseteq Files
  BY DEF Under

\* What the callback gathers tells of all that was told before and of the path.
LEMMA GatheredTells ==
    ASSUME TypeOK, Disk, NEW path \in Paths, changes' \in {Gathered(path), Unknown}
    PROVE  /\ changes' \in {c \in SUBSET Paths : Cardinality(c) <= Limit} \cup {Unknown}
           /\ changes' # Unknown => IsFiniteSet(changes')
           /\ \A x \in Files : Told(changes, x) => Told(changes', x)
           /\ \A x \in Files : path = x \/ (path \in Folders /\ x \in Under(path)) => Told(changes', x)
  <1>1. CASE changes' = Unknown  BY <1>1 DEF Told
  <1>2. CASE changes' # Unknown
    <2>1. /\ changes' = changes \cup {path} /\ changes # Unknown
          /\ ~(Cardinality(changes \cup {path}) > Limit)
      BY <1>2 DEF Gathered
    <2>2. changes \subseteq Paths /\ IsFiniteSet(changes)  BY <2>1, Types DEF Disk
    <2>3. IsFiniteSet(changes \cup {path})  BY <2>2, FS_AddElement
    <2>4. Cardinality(changes \cup {path}) \in Nat  BY <2>3, FS_CardinalityType
    <2>5. Cardinality(changes') <= Limit  BY <2>1, <2>4
    <2> QED BY <2>1, <2>2, <2>3, <2>5 DEF Told
  <1> QED BY <1>1, <1>2

LEMMA EmptyPaths ==
    {} \in {c \in SUBSET Paths : Cardinality(c) <= Limit} /\ IsFiniteSet({})
  BY FS_EmptySet

-----------------------------------------------------------------------------
(* What clients and the system do to the files.                            *)

\* The files of a set change, and are told of unless they are blind.
Touched(changed) ==
    /\ \A x \in Files \ changed : disk'[x] = disk[x] /\ age'[x] = age[x]
    /\ \A x \in changed : age'[x] = 0
    /\ \A x \in Files : disk'[x] # 0 => there'
    /\ pass.step # "idle" => gone \subseteq gone' /\ \A x \in changed : disk'[x] # 0 \/ x \in gone'
    /\ blind \subseteq blind'
    /\ \A x \in Files : Told(changes, x) \/ x \in changed \ blind' => Told(changes', x)
    /\ changes' # Unknown => IsFiniteSet(changes')
    /\ UNCHANGED <<bad, listVars, pass, hidden>>

\* The types of what they change.
TouchedType ==
    /\ changes' \in {c \in SUBSET Paths : Cardinality(c) <= Limit} \cup {Unknown}
    /\ due' \in BOOLEAN /\ disk' \in Stamps /\ there' \in BOOLEAN
    /\ watch' \in [wanted : BOOLEAN, watched : BOOLEAN, works : BOOLEAN]
    /\ age' \in [Files -> 0..Never] /\ gone' \subseteq Files /\ blind' \subseteq Files

LEMMA ReportTells ==
    ASSUME TypeOK, Disk, NEW path \in Paths, NEW works \in BOOLEAN, Reports(works, path)
    PROVE  /\ changes' \in {c \in SUBSET Paths : Cardinality(c) <= Limit} \cup {Unknown}
           /\ changes' # Unknown => IsFiniteSet(changes')
           /\ due' \in BOOLEAN
           /\ \A x \in Files : Told(changes, x) => Told(changes', x)
           /\ works => \A x \in Files : path = x \/ (path \in Folders /\ x \in Under(path)) =>
                                            Told(changes', x)
  <1>1. CASE works
    <2>1. changes' \in {Gathered(path), Unknown} /\ due'  BY <1>1 DEF Reports
    <2> QED BY <2>1, GatheredTells
  <1>2. CASE ~works
    <2>1. changes' = changes /\ due' = due  BY <1>2 DEF Reports
    <2> QED BY <1>2, <2>1 DEF TypeOK, Disk
  <1> QED BY <1>1, <1>2

LEMMA TouchTells ==
    ASSUME TypeOK, Disk, NEW changed \in SUBSET Files, NEW path \in Paths, Touch(changed, path),
           \A x \in changed : path = x \/ (path \in Folders /\ x \in Under(path)),
           there, there' = there, bad' = bad, disk' \in Stamps,
           \A x \in Files \ changed : disk'[x] = disk[x]
    PROVE  Touched(changed) /\ TouchedType
  <1>1. watch.works \in BOOLEAN /\ Reports(watch.works, path)  BY Types DEF Touch
  <1>2. /\ changes' \in {c \in SUBSET Paths : Cardinality(c) <= Limit} \cup {Unknown}
        /\ changes' # Unknown => IsFiniteSet(changes')
        /\ due' \in BOOLEAN
        /\ \A x \in Files : Told(changes, x) => Told(changes', x)
        /\ watch.works => \A x \in changed : Told(changes', x)
    BY <1>1, ReportTells
  <1>3. /\ \A x \in changed : age'[x] = 0
        /\ \A x \in Files \ changed : age'[x] = age[x]
        /\ age' \in [Files -> 0..Never]
    BY Types DEF Touch, Never
  <1>4. /\ gone' \subseteq Files
        /\ pass.step # "idle" => gone \subseteq gone' /\ \A x \in changed : disk'[x] # 0 \/ x \in gone'
    BY Types DEF Touch
  <1>5. /\ blind \subseteq blind' /\ blind' \subseteq Files
        /\ ~watch.works => changed \subseteq blind'
    BY Types DEF Touch
  <1>6. watch' = watch /\ UNCHANGED <<listVars, pass, hidden>>  BY DEF Touch
  <1>7. Touched(changed)  BY <1>2, <1>3, <1>4, <1>5, <1>6 DEF Touched
  <1>8. TouchedType  BY <1>2, <1>3, <1>4, <1>5, <1>6, Types DEF TouchedType
  <1> QED BY <1>7, <1>8

LEMMA WriteTells == ASSUME TypeOK, Disk, NEW x \in Files, Write(x) PROVE Touched({x}) /\ TouchedType
  <1>1. PICK stamp \in 1..MaxStamp : disk' = [disk EXCEPT ![x] = stamp]  BY DEF Write
  <1>2. disk' \in Stamps /\ \A y \in Files \ {x} : disk'[y] = disk[y]  BY <1>1, Types DEF Stamps
  <1>3. there /\ there' = there /\ bad' = bad /\ Touch({x}, x)  BY DEF Write
  <1>4. x \in Paths /\ {x} \in SUBSET Files  BY DEF Paths
  <1>5. \A y \in {x} : x = y  OBVIOUS
  <1> QED BY <1>2, <1>3, <1>4, <1>5, TouchTells

LEMMA RemoveTells == ASSUME TypeOK, Disk, NEW x \in Files, Remove(x) PROVE Touched({x}) /\ TouchedType
  <1>1. disk' = [disk EXCEPT ![x] = 0]  BY DEF Remove
  <1>2. disk' \in Stamps /\ \A y \in Files \ {x} : disk'[y] = disk[y]  BY <1>1, Types DEF Stamps
  <1>3. there' = there /\ bad' = bad /\ Touch({x}, x) /\ disk[x] # 0  BY DEF Remove
  <1>4. there  BY <1>3 DEF Disk
  <1>5. x \in Paths /\ {x} \in SUBSET Files  BY DEF Paths
  <1>6. \A y \in {x} : x = y  OBVIOUS
  <1> QED BY <1>2, <1>3, <1>4, <1>5, <1>6, TouchTells

LEMMA MoveTells ==
    ASSUME TypeOK, Disk, NEW p \in Folders, MoveFolder(p)
    PROVE  Touched(Under(p)) /\ TouchedType
  <1>1. PICK stamp \in 0..MaxStamp : disk' = [x \in Files |-> IF x \in Under(p) THEN stamp ELSE disk[x]]
    BY DEF MoveFolder
  <1>2. disk' \in Stamps /\ \A y \in Files \ Under(p) : disk'[y] = disk[y]
    BY <1>1, Types DEF Stamps
  <1>3. there /\ there' = there /\ bad' = bad /\ Touch(Under(p), p)  BY DEF MoveFolder
  <1>4. p \in Paths /\ Under(p) \in SUBSET Files  BY InFolders DEF Paths
  <1> QED BY <1>2, <1>3, <1>4, TouchTells

LEMMA RootGoesTells ==
    ASSUME TypeOK, Disk, RootGoes
    PROVE  Touched({x \in Files : disk[x] # 0}) /\ TouchedType
  <1> DEFINE C == {x \in Files : disk[x] # 0}
  <1>1. watch.works \in BOOLEAN  BY Types
  <1>2. PICK works \in {FALSE, watch.works} :
            /\ watch' = [watch EXCEPT !.works = works]
            /\ Reports(works, Root)
            /\ blind' = IF works THEN blind ELSE Files
    BY DEF RootGoes
  <1>3. Root \in Paths /\ works \in BOOLEAN  BY <1>1 DEF Paths
  <1>4. /\ changes' \in {c \in SUBSET Paths : Cardinality(c) <= Limit} \cup {Unknown}
        /\ changes' # Unknown => IsFiniteSet(changes')
        /\ due' \in BOOLEAN
        /\ \A x \in Files : Told(changes, x) => Told(changes', x)
        /\ works => \A x \in Files : Told(changes', x)
    BY <1>2, <1>3, ReportTells, InFolders
  <1>5. disk' = NoFiles /\ there' = FALSE /\ \A x \in Files : disk'[x] = 0
    BY NoFilesStamps DEF RootGoes
  <1>6. /\ \A x \in C : age'[x] = 0
        /\ \A x \in Files \ C : age'[x] = age[x]
        /\ age' \in [Files -> 0..Never]
    BY Types DEF RootGoes, Never
  <1>7. gone' \subseteq Files /\ (pass.step # "idle" => gone' = Files)  BY DEF RootGoes
  <1>8. blind \subseteq blind' /\ blind' \subseteq Files /\ (~works => blind' = Files)  BY <1>2, Types
  <1>9. watch' \in [wanted : BOOLEAN, watched : BOOLEAN, works : BOOLEAN]  BY <1>2, <1>3, Types
  <1>10. UNCHANGED <<bad, listVars, pass, hidden>>  BY DEF RootGoes
  <1>11. Touched(C)  BY <1>4, <1>5, <1>6, <1>7, <1>8, <1>10, Types DEF Touched
  <1>12. TouchedType  BY <1>4, <1>5, <1>6, <1>7, <1>8, <1>9, NoFilesStamps DEF TouchedType
  <1> QED BY <1>11, <1>12

LEMMA TouchKeeps ==
    ASSUME Inv, NEW C \in SUBSET Files, Touched(C), TouchedType
    PROVE  Inv'
  <1> USE DEF Inv
  <1>1. UNCHANGED <<bad, files, batch, holders, walked, pass, hidden>>  BY DEF Touched, listVars
  <1>2. TypeOK'
    <2>1. /\ files \in Stamps /\ batch \in (SUBSET Paths) \cup {Unknown}
          /\ holders \subseteq Folders /\ walked \in 0..Never /\ bad \subseteq Folders
          /\ pass \in Passes /\ hidden \subseteq Files
      BY Types
    <2> QED BY <1>1, <2>1 DEF TypeOK, TouchedType, Passes
  <1>3. \A x \in Files : age[x] = 0 => age'[x] = 0  BY DEF Touched
  <1>4. /\ \A x \in C : age'[x] = 0
        /\ \A x \in Files \ C : disk'[x] = disk[x] /\ age'[x] = age[x]
    BY DEF Touched
  <1>5. Disk'
    <2>1. \A x \in Files : disk'[x] # 0 => there'  BY DEF Touched
    <2>2. walked' = Never => \A x \in Files : age'[x] = 0  BY <1>1, <1>3 DEF Disk
    <2>3. pass'.step # "idle" => \A x \in Files : disk'[x] # 0 \/ x \in gone'
      BY <1>1, <1>4 DEF Disk, Touched
    <2>4. changes' # Unknown => IsFiniteSet(changes')  BY DEF Touched
    <2> QED BY <2>1, <2>2, <2>3, <2>4 DEF Disk
  <1>6. Walk'
    <2> SUFFICES ASSUME Walking PROVE Walk'
      BY <1>1 DEF Walk, Walking
    <2>1. pass'.errors => bad' # {} \/ \A x \in Files : age'[x] = 0
      BY <1>1, <1>3 DEF Walk
    <2>2. \A x \in Files : pass'.seen[x] \in {0, disk'[x]} \/ age'[x] = 0
      BY <1>1, <1>4 DEF Walk
    <2>3. ASSUME NEW x \in Scope, ~Ahead(x)
          PROVE  /\ pass.seen[x] = disk'[x] \/ age'[x] = 0 \/ ~Readable(x)
                 /\ pass.seen[x] # 0 \/ pass.errors \/ x \in gone' \cup hidden'
      <3>1. x \in Files  BY InFolders, Types DEF Scope, Passes
      <3>2. gone \cup hidden \subseteq gone' \cup hidden'  BY <1>1 DEF Touched, Walking
      <3> QED BY <1>3, <1>4, <2>3, <3>1, <3>2 DEF Walk
    <2> QED BY <1>1, <2>1, <2>2, <2>3 DEF Walk, Walking, Scope, Ahead, Readable
  <1>7. Recent'
    <2>1. walked \in Nat  BY Types DEF Never
    <2> QED BY <1>1, <1>4, <2>1 DEF Recent, Shown, Readable
  <1>8. Reported'
    <2> SUFFICES ASSUME NEW x \in Files \ blind', Stale(x)' PROVE ToCome(x)'
      BY DEF Reported
    <2>1. x \notin blind /\ (Told(changes, x) \/ x \in C => Told(changes', x))  BY DEF Touched
    <2>2. CASE x \in C  BY <2>1, <2>2 DEF ToCome
    <2>3. CASE x \notin C
      <3>1. Stale(x)  BY <1>1, <1>4, <2>3 DEF Stale, Walking, Scope, Ahead
      <3>2. ToCome(x)  BY <2>1, <3>1 DEF Reported
      <3> QED BY <1>1, <2>1, <3>2 DEF ToCome
    <2> QED BY <2>2, <2>3
  <1>9. Held'
    <2>1. blind \subseteq blind'  BY DEF Touched
    <2> QED BY <1>1, <2>1 DEF Held, Walking, Scope
  <1> QED BY <1>2, <1>5, <1>6, <1>7, <1>8, <1>9

LEMMA TouchesKeep ==
    ASSUME Inv, \/ \E x \in Files : Write(x) \/ Remove(x)
                \/ \E p \in Folders : MoveFolder(p)
                \/ RootGoes
    PROVE  Inv'
  <1>1. TypeOK /\ Disk  BY DEF Inv
  <1>2. ASSUME NEW x \in Files, Write(x) \/ Remove(x) PROVE Inv'
    BY <1>1, <1>2, WriteTells, RemoveTells, TouchKeeps
  <1>3. ASSUME NEW p \in Folders, MoveFolder(p) PROVE Inv'
    <2>1. Under(p) \in SUBSET Files  BY InFolders
    <2> QED BY <1>1, <1>3, <2>1, MoveTells, TouchKeeps
  <1>4. CASE RootGoes
    <2> DEFINE C == {x \in Files : disk[x] # 0}
    <2>1. C \in SUBSET Files /\ Touched(C) /\ TouchedType  BY <1>1, <1>4, RootGoesTells
    <2> HIDE DEF C
    <2> QED BY <2>1, TouchKeeps
  <1> QED BY <1>2, <1>3, <1>4

-----------------------------------------------------------------------------
(* What else happens between the steps of a pass.                          *)

LEMMA RootComesKeeps == ASSUME Inv, RootComes PROVE Inv'
  <1>1. /\ there' = TRUE
        /\ UNCHANGED <<disk, bad, watch, changes, due, files, batch, holders, walked, pass, age,
                       gone, hidden, blind>>
    BY DEF RootComes, watchVars, listVars, history
  <1>2. TypeOK'  BY <1>1 DEF Inv, TypeOK
  <1>3. Disk'  BY <1>1 DEF Inv, Disk
  <1>4. Walk' /\ Recent' /\ Reported' /\ Held'
    BY <1>1 DEF Inv, Walk, Walking, Scope, Ahead, Readable, Recent, Shown, Reported, Stale, ToCome,
                Held
  <1> QED BY <1>2, <1>3, <1>4 DEF Inv

LEMMA ProtectKeeps == ASSUME Inv, NEW p \in Folders, Protect(p) PROVE Inv'
  <1> USE DEF Inv
  <1>1. UNCHANGED <<disk, there, watch, changes, due, files, batch, holders, walked, pass, gone,
                    hidden, blind>>
    BY DEF Protect, watchVars, listVars
  <1>2. \/ \A x \in Files : age'[x] = 0
        \/ age' = age /\ bad \subseteq bad' /\ bad' # {}
    BY DEF Protect
  <1>3. bad' \subseteq Folders /\ age' \in [Files -> 0..Never]  BY Types DEF Protect, Never
  <1>4. TypeOK'  BY <1>1, <1>3 DEF TypeOK
  <1>5. Disk'  BY <1>1, <1>2 DEF Disk
  <1>6. Walk'
    <2> SUFFICES ASSUME Walking PROVE Walk'
      BY <1>1 DEF Walk, Walking
    <2>1. \A x \in Scope : x \in Files  BY InFolders, Types DEF Scope, Passes
    <2>2. CASE \A x \in Files : age'[x] = 0
      BY <1>1, <2>1, <2>2 DEF Walk, Walking, Scope, Ahead
    <2>3. CASE age' = age /\ bad \subseteq bad' /\ bad' # {}
      BY <1>1, <2>1, <2>3 DEF Walk, Walking, Scope, Ahead, Readable
    <2> QED BY <1>2, <2>2, <2>3
  <1>7. Recent'
    <2>1. walked \in Nat  BY Types DEF Never
    <2>2. CASE \A x \in Files : age'[x] = 0  BY <1>1, <2>1, <2>2 DEF Recent
    <2>3. CASE age' = age /\ bad \subseteq bad' /\ bad' # {}
      BY <1>1, <2>3 DEF Recent, Shown, Readable
    <2> QED BY <1>2, <2>2, <2>3
  <1>8. Reported' /\ Held'
    BY <1>1 DEF Reported, Stale, ToCome, Walking, Scope, Ahead, Held
  <1> QED BY <1>4, <1>5, <1>6, <1>7, <1>8

LEMMA MarkFailsKeeps == ASSUME Inv, MarkFails PROVE Inv'
  <1> USE DEF Inv
  <1>1. /\ batch' = Unknown /\ pass.step = "idle"
        /\ UNCHANGED <<disk, there, bad, watch, changes, due, files, holders, walked, pass, age,
                       gone, hidden, blind>>
    BY DEF MarkFails, diskVars, watchVars, history
  <1>2. TypeOK'  BY <1>1 DEF TypeOK
  <1>3. Disk' /\ Walk' /\ Recent' /\ Held'
    BY <1>1 DEF Disk, Walk, Walking, Recent, Shown, Readable, Held, Scope
  <1>4. Reported'  BY <1>1 DEF Reported, ToCome, Told
  <1> QED BY <1>2, <1>3, <1>4

LEMMA RemindKeeps == ASSUME Inv, NEW x \in Files, Remind(x) PROVE Inv'
  <1> USE DEF Inv
  <1>1. /\ pass.step = "idle" /\ files' = [files EXCEPT ![x] = disk[x]] /\ disk[x] # 0
        /\ blind' = (IF In[x] \in holders THEN blind ELSE blind \cup {x})
        /\ UNCHANGED <<disk, there, bad, watch, changes, due, batch, holders, walked, pass, age,
                       gone, hidden>>
    BY DEF Remind, diskVars, watchVars
  <1>2. /\ files' \in Stamps /\ files'[x] = disk[x]
        /\ \A y \in Files \ {x} : files'[y] = files[y]
    BY <1>1, Types DEF Stamps
  <1>3. TypeOK'  BY <1>1, <1>2 DEF TypeOK
  <1>4. Disk' /\ Walk'  BY <1>1 DEF Disk, Walk, Walking
  <1>5. Recent'  BY <1>1, <1>2 DEF Recent, Shown, Readable
  <1>6. ~Walking /\ ~Walking'  BY <1>1 DEF Walking
  <1>7. Reported'  BY <1>1, <1>2, <1>6 DEF Reported, Stale, ToCome
  <1>8. Held'  BY <1>1, <1>2, <1>6 DEF Held
  <1> QED BY <1>3, <1>4, <1>5, <1>7, <1>8

LEMMA TickKeeps == ASSUME Inv, Tick PROVE Inv'
  <1> USE DEF Inv
  <1>1. /\ pass.step = "idle" /\ walked < Reconcile /\ walked' = walked + 1
        /\ age' = [x \in Files |-> IF age[x] < Never THEN age[x] + 1 ELSE age[x]]
        /\ UNCHANGED <<disk, there, bad, watch, changes, due, files, batch, holders, pass, gone,
                       hidden, blind>>
    BY DEF Tick, diskVars, watchVars
  <1>2. walked \in Nat /\ Reconcile \in Nat /\ \A x \in Files : age[x] \in 0..Never
    BY Types DEF Never
  <1>3. walked' \in 0..Never /\ walked' # Never  BY <1>1, <1>2 DEF Never
  <1>4. \A x \in Files : age'[x] \in 0..Never /\ age'[x] <= age[x] + 1  BY <1>1, <1>2 DEF Never
  <1>5. age' \in [Files -> 0..Never]  BY <1>1, <1>4
  <1>6. TypeOK'  BY <1>1, <1>3, <1>5 DEF TypeOK
  <1>7. Disk' /\ Walk'  BY <1>1, <1>3 DEF Disk, Walk, Walking
  <1>8. Recent'
    <2> SUFFICES ASSUME NEW x \in Files, files[x] # disk[x], Shown(x)
                 PROVE  age'[x] <= walked'
      BY <1>1 DEF Recent, Shown, Readable
    <2>1. age[x] <= walked  BY DEF Recent
    <2>2. age[x] \in Nat /\ age'[x] \in Nat /\ age'[x] <= age[x] + 1  BY <1>2, <1>4 DEF Never
    <2> QED BY <1>1, <1>2, <2>1, <2>2
  <1>9. Reported' /\ Held'
    BY <1>1 DEF Reported, Stale, ToCome, Walking, Scope, Ahead, Held
  <1> QED BY <1>6, <1>7, <1>8, <1>9

LEMMA EndPassKeeps == ASSUME Inv, EndPass PROVE Inv'
  <1> USE DEF Inv
  <1>1. /\ pass.step = "outer" /\ pass.outer = {} /\ pass.recheck = {}
        /\ pass' = NoPass /\ gone' = {} /\ hidden' = {}
        /\ UNCHANGED <<disk, there, bad, watch, changes, due, files, batch, holders, walked, age,
                       blind>>
    BY DEF EndPass, diskVars, watchVars, listVars
  <1>2. TypeOK'  BY <1>1, NoPassType DEF TypeOK, Passes
  <1>3. ~Walking /\ ~Walking' /\ pass'.step = "idle"  BY <1>1, NoPassType DEF Walking
  <1>4. Disk' /\ Walk' /\ Recent' /\ Held'
    BY <1>1, <1>3 DEF Disk, Walk, Recent, Shown, Readable, Held
  <1>5. Reported'
    <2> SUFFICES ASSUME NEW x \in Files \ blind, files[x] # disk[x]
                 PROVE  Told(changes, x) \/ Told(batch, x)
      BY <1>1, <1>3 DEF Reported, Stale, ToCome
    <2>1. ~Told({}, x)
      <3>1. {} # Unknown  OBVIOUS
      <3> QED BY <3>1 DEF Told
    <2> QED BY <1>1, <1>3, <2>1 DEF Reported, Stale, ToCome
  <1> QED BY <1>2, <1>4, <1>5

LEMMA BeginPassKeeps == ASSUME Inv, BeginPass PROVE Inv'
  <1> USE DEF Inv
  <1>1. /\ pass.step = "idle" /\ pass' = [NoPass EXCEPT !.step = "noted"] /\ due' = FALSE
        /\ gone' = {x \in Files : disk[x] = 0} /\ hidden' = {}
        /\ UNCHANGED <<disk, there, bad, files, holders, walked, age, blind>>
    BY DEF BeginPass, diskVars
  <1>2. PICK new \in Updated :
            /\ watch' = Works(new)
            /\ changes' = IF new.wanted THEN {} ELSE Known
            /\ \E told \in {Consumed(new), Unknown} : batch' = Noted(told)
    BY DEF BeginPass
  <1>3. new \in [wanted : BOOLEAN, watched : BOOLEAN, works : BOOLEAN]
    BY Types DEF Updated
  <1>4. watch' \in [wanted : BOOLEAN, watched : BOOLEAN, works : BOOLEAN]
    BY <1>2, <1>3, Types DEF Works
  <1>5. Known = Unknown \/ Known = changes  BY DEF Known
  <1>6. /\ changes' \in {c \in SUBSET Paths : Cardinality(c) <= Limit} \cup {Unknown}
        /\ changes' # Unknown => IsFiniteSet(changes')
    <2>1. CASE new.wanted  BY <1>2, <2>1, EmptyPaths
    <2>2. CASE ~new.wanted  BY <1>2, <1>5, <2>2 DEF TypeOK, Disk
    <2> QED BY <2>1, <2>2
  <1>7. /\ batch' \in (SUBSET Paths) \cup {Unknown}
        /\ \A x \in Files : Told(changes, x) \/ Told(batch, x) => Told(batch', x)
    <2>1. PICK told \in {Consumed(new), Unknown} : batch' = Noted(told)  BY <1>2
    <2>2. /\ told \in (SUBSET Paths) \cup {Unknown}
          /\ told = Unknown \/ (changes # Unknown /\ changes \subseteq told)
      <3>1. CASE told = Unknown  BY <3>1
      <3>2. CASE told # Unknown
        <4>1. told = Known \cup (IF new.watched THEN {} ELSE {Root}) /\ Known # Unknown
          BY <2>1, <3>2 DEF Consumed
        <4>2. Root \in Paths  BY DEF Paths
        <4> QED BY <1>5, <4>1, <4>2, Types
      <3> QED BY <3>1, <3>2
    <2>3. \/ batch' = Unknown
          \/ batch # Unknown /\ told # Unknown /\ batch' = batch \cup told
      BY <2>1 DEF Noted
    <2>4. CASE batch' = Unknown  BY <2>4 DEF Told
    <2>5. CASE batch # Unknown /\ told # Unknown /\ batch' = batch \cup told
      BY <2>2, <2>5, Types DEF Told
    <2> QED BY <2>3, <2>4, <2>5
  <1>8. pass' \in Passes /\ pass'.step = "noted" /\ pass'.seen = NoFiles /\ ~pass'.errors
    BY <1>1, NoPassType DEF Passes
  <1>9. TypeOK'  BY <1>1, <1>4, <1>6, <1>7, <1>8 DEF TypeOK, Passes
  <1>10. ~Walking /\ ~Walking'  BY <1>1, <1>8 DEF Walking
  <1>11. Disk' /\ Walk' /\ Recent' /\ Held'
    BY <1>1, <1>6, <1>8, <1>10 DEF Disk, Walk, Recent, Shown, Readable, Held
  <1>12. Reported'  BY <1>1, <1>7, <1>10 DEF Reported, Stale, ToCome
  <1> QED BY <1>9, <1>11, <1>12

-----------------------------------------------------------------------------
(* The steps of a pass.                                                    *)

LEMMA BeginFullKeeps == ASSUME Inv, BeginFull PROVE Inv'
  <1> USE DEF Inv
  <1>1. /\ pass.step = "noted" /\ pass' = [pass EXCEPT !.step = "full", !.todo = {Root}]
        /\ batch' = {} /\ blind' = {}
        /\ UNCHANGED <<disk, there, bad, watch, changes, due, files, holders, walked, age, gone, hidden>>
    BY DEF BeginFull, diskVars, watchVars
  <1>2. pass.seen = NoFiles /\ ~pass.errors  BY <1>1 DEF Walk
  <1>3. /\ pass' \in Passes /\ pass'.step = "full" /\ pass'.todo = {Root}
        /\ pass'.seen = NoFiles /\ ~pass'.errors
    BY <1>1, <1>2, Types DEF Passes, Paths
  <1>4. TypeOK'  BY <1>1, <1>3, Types DEF TypeOK, Passes
  <1>5. Disk' /\ Recent'  BY <1>1 DEF Disk, Recent, Shown, Readable
  <1>6. Walking' /\ Scope' = Files  BY <1>3 DEF Walking, Scope
  <1>7. \A x \in Files : Ahead(x)'  BY <1>3 DEF Ahead
  <1>8. Walk'  BY <1>3, <1>6, <1>7, NoFilesStamps DEF Walk
  <1>9. Reported'  BY <1>3, <1>6, <1>7, NoFilesStamps DEF Reported, Stale
  <1>10. Held'  BY <1>1, <1>6 DEF Held
  <1> QED BY <1>4, <1>5, <1>8, <1>9, <1>10

LEMMA BeginPartKeeps == ASSUME Inv, BeginPart PROVE Inv'
  <1> USE DEF Inv
  <1>1. /\ pass.step = "noted" /\ batch # Unknown /\ batch' = {}
        /\ UNCHANGED <<disk, there, bad, watch, changes, due, files, holders, walked, age, gone,
                       hidden>>
    BY DEF BeginPart, diskVars, watchVars
  <1>2. PICK unseen \in SUBSET {p \in batch \cap Folders : Refused(p)}, open \in SUBSET Files :
            /\ pass' = [pass EXCEPT !.step = "outer", !.outer = Outer(unseen),
                           !.recheck = {p \in batch : ~Covered(p, Outer(unseen))} \cup open]
            /\ blind' = blind \cup UNION {Under(p) : p \in unseen \ holders}
    BY DEF BeginPart
  <1>3. batch \subseteq Paths  BY <1>1, Types
  <1>4. Outer(unseen) \subseteq batch \cap Folders
    BY DEF Outer, IsFolder
  <1>5. /\ pass' \in Passes /\ pass'.step = "outer" /\ pass'.outer = Outer(unseen)
        /\ pass'.recheck = {p \in batch : ~Covered(p, Outer(unseen))} \cup open
    BY <1>2, <1>3, <1>4, Types DEF Passes, Paths
  <1>6. /\ blind' \subseteq Files /\ blind \subseteq blind'
        /\ \A p \in unseen \ holders : Under(p) \subseteq blind'
    BY <1>2, Types DEF Under
  <1>7. TypeOK'  BY <1>1, <1>5, <1>6, Types DEF TypeOK, Passes
  <1>8. ~Walking /\ ~Walking'  BY <1>1, <1>5 DEF Walking
  <1>9. Disk' /\ Walk' /\ Recent' /\ Held'
    BY <1>1, <1>5, <1>6, <1>8 DEF Disk, Walk, Recent, Shown, Readable, Held
  <1>10. ASSUME NEW x \in Files \ blind', files[x] # disk[x], NEW p \in batch \cap Folders, x \in Under(p)
        PROVE  Told(Outer(unseen), x)
    <2>1. p = Root \/ p = In[x]  BY <1>10, InFolders
    <2>2. disk[x] # 0 => FolderThere(p)
      BY <1>10 DEF Disk, FolderThere
    <2>3. files[x] # 0 => p \in holders
      BY <1>6, <1>8, <1>10, <2>1 DEF Held
    <2>4. IsFolder(p, unseen)
      <3>1. disk[x] \in Nat /\ files[x] \in Nat  BY Types DEF Stamps
      <3> QED BY <1>6, <1>10, <2>2, <2>3, <3>1 DEF IsFolder
    <2>5. Root \in Outer(unseen) \/ p \in Outer(unseen)
      BY <2>4 DEF Outer
    <2> QED BY <1>4, <1>10, <2>5, InFolders DEF Told
  <1>11. Reported'
    <2> SUFFICES ASSUME NEW x \in Files \ blind', files[x] # disk[x]
                 PROVE  ToCome(x)'
      BY <1>1, <1>8 DEF Reported, Stale
    <2>1. Told(changes, x) \/ Told(batch, x)
      BY <1>1, <1>6, <1>8 DEF Reported, Stale, ToCome
    <2>2. CASE Told(changes, x)  BY <1>1, <2>2 DEF ToCome
    <2>3. CASE x \in batch
      <3>1. x \in pass'.recheck \/ Covered(x, Outer(unseen))  BY <1>5, <2>3
      <3>2. Covered(x, Outer(unseen)) => Told(Outer(unseen), x)
        BY <1>4, InFolders DEF Covered, Told
      <3> QED BY <1>5, <3>1, <3>2 DEF ToCome
    <2>4. CASE \E p \in batch \cap Folders : x \in Under(p)
      <3>1. Told(Outer(unseen), x)  BY <1>10, <2>4
      <3> QED BY <1>5, <3>1 DEF ToCome
    <2> QED BY <1>1, <2>1, <2>2, <2>3, <2>4 DEF Told
  <1> QED BY <1>7, <1>9, <1>11

\* A walk has come to the end of its scope.
LEMMA WalkIsOver ==
    ASSUME Inv, Walking, pass.todo = {}, NEW x \in Scope
    PROVE  /\ pass.seen[x] = disk[x] \/ age[x] = 0 \/ ~Readable(x)
           /\ pass.seen[x] # 0 \/ pass.errors \/ x \in gone \cup hidden
           /\ pass.seen[x] # disk[x] /\ x \notin blind => ToCome(x)
           /\ Shown(x) /\ (pass.seen[x] # disk[x] \/ (x \in Kept /\ disk[x] # files[x])) =>
                  age[x] = 0
  <1> USE DEF Inv
  <1>1. ~Ahead(x)  BY DEF Ahead
  <1>2. x \in Files  BY InFolders, Types DEF Scope, Passes
  <1>3. /\ pass.seen[x] = disk[x] \/ age[x] = 0 \/ ~Readable(x)
        /\ pass.seen[x] # 0 \/ pass.errors \/ x \in gone \cup hidden
        /\ pass.errors => bad # {} \/ age[x] = 0
    BY <1>1, <1>2 DEF Walk
  <1>4. pass.seen[x] # disk[x] /\ x \notin blind => ToCome(x)
    BY <1>1, <1>2 DEF Reported, Stale
  <1>5. ~Readable(x) => bad # {}  BY DEF Readable
  <1>6. Shown(x) /\ pass.seen[x] # disk[x] => age[x] = 0  BY <1>3, <1>5 DEF Shown
  <1>7. Shown(x) /\ x \in Kept /\ disk[x] # files[x] => age[x] = 0
    BY <1>3, <1>6 DEF Shown, Kept
  <1> QED BY <1>3, <1>4, <1>6, <1>7

LEMMA EndFullKeeps == ASSUME Inv, EndFull PROVE Inv'
  <1> USE DEF Inv
  <1>1. /\ pass.step = "full" /\ pass.todo = {}
        /\ files' = [x \in Files |-> IF x \in Kept THEN files[x] ELSE pass.seen[x]]
        /\ holders' = HoldersOf(files') /\ walked' = 0
        /\ pass' = NoPass /\ gone' = {} /\ hidden' = {} /\ blind' = blind \cup Kept
        /\ UNCHANGED <<disk, there, bad, watch, changes, due, batch, age>>
    BY DEF EndFull, diskVars, watchVars
  <1>2. Walking /\ Scope = Files /\ pass \in Passes  BY <1>1, Types DEF Walking, Scope
  <1>3. /\ files' \in Stamps
        /\ \A x \in Files : files'[x] = IF x \in Kept THEN files[x] ELSE pass.seen[x]
    BY <1>1, <1>2, Types DEF Stamps, Passes
  <1>4. /\ holders' \subseteq Folders
        /\ holders' # {} => Root \in holders'
        /\ \A x \in Files : files'[x] # 0 => In[x] \in holders'
    BY <1>1, InFolders DEF HoldersOf
  <1>5. TypeOK'
    <2>1. walked' \in 0..Never /\ blind' \subseteq Files  BY <1>1, Types DEF Never, Kept
    <2> QED BY <1>1, <1>3, <1>4, <2>1, NoPassType DEF TypeOK, Passes
  <1>6. ~Walking' /\ pass'.step = "idle"  BY <1>1, NoPassType DEF Walking
  <1>7. Disk' /\ Walk'
    <2>1. walked' # Never  BY <1>1 DEF Never
    <2> QED BY <1>1, <1>6, <2>1 DEF Disk, Walk
  <1>8. Recent'
    <2> SUFFICES ASSUME NEW x \in Files, files'[x] # disk[x], Shown(x)
                 PROVE  age[x] = 0
      BY <1>1 DEF Recent, Shown, Readable
    <2> QED BY <1>1, <1>2, <1>3, WalkIsOver
  <1>9. Reported'
    <2> SUFFICES ASSUME NEW x \in Files, x \notin blind, x \notin Kept, files'[x] # disk[x]
                 PROVE  Told(changes, x) \/ Told(batch, x)
      BY <1>1, <1>6 DEF Reported, Stale, ToCome
    <2>1. ToCome(x)  BY <1>1, <1>2, <1>3, WalkIsOver
    <2> QED BY <1>1, <2>1 DEF ToCome
  <1>10. Held'  BY <1>4 DEF Held
  <1> QED BY <1>5, <1>7, <1>8, <1>9, <1>10

LEMMA EndOuterKeeps == ASSUME Inv, EndOuter PROVE Inv'
  <1> USE DEF Inv
  <1>1. /\ pass.step = "part" /\ pass.todo = {}
        /\ files' = [x \in Files |-> IF x \in Under(pass.folder) \ Kept THEN pass.seen[x]
                                     ELSE files[x]]
        /\ holders' = holders \cup HoldersOf(pass.seen)
        /\ pass' = [pass EXCEPT !.step = "outer"]
        /\ blind' = blind \cup (Kept \cap Under(pass.folder))
        /\ UNCHANGED <<disk, there, bad, watch, changes, due, batch, walked, age, gone, hidden>>
    BY DEF EndOuter, diskVars, watchVars
  <1>2. Walking /\ Scope = Under(pass.folder) /\ pass \in Passes /\ Scope \subseteq Files
    BY <1>1, Types, InFolders DEF Walking, Scope, Passes
  <1>3. /\ files' \in Stamps
        /\ \A x \in Files : files'[x] = IF x \in Scope \ Kept THEN pass.seen[x] ELSE files[x]
    BY <1>1, <1>2, Types DEF Stamps, Passes
  <1>4. /\ pass' \in Passes /\ pass'.step = "outer" /\ pass'.outer = pass.outer
        /\ pass'.recheck = pass.recheck
    BY <1>1, <1>2 DEF Passes
  <1>5. TypeOK'
    <2>1. holders' \subseteq Folders /\ blind' \subseteq Files
      BY <1>1, Types DEF HoldersOf, Kept
    <2> QED BY <1>1, <1>3, <1>4, <2>1 DEF TypeOK, Passes
  <1>6. ~Walking'  BY <1>4 DEF Walking
  <1>7. Disk' /\ Walk'  BY <1>1, <1>4, <1>6 DEF Disk, Walk
  <1>8. Recent'
    <2> SUFFICES ASSUME NEW x \in Files, files'[x] # disk[x], Shown(x)
                 PROVE  age[x] <= walked
      BY <1>1 DEF Recent, Shown, Readable
    <2>1. walked \in Nat  BY Types DEF Never
    <2>2. CASE x \in Scope \ Kept  BY <1>1, <1>2, <1>3, <2>1, <2>2, WalkIsOver
    <2>3. CASE x \notin Scope \ Kept  BY <1>3, <2>3 DEF Recent
    <2> QED BY <2>2, <2>3
  <1>9. Reported'
    <2> SUFFICES ASSUME NEW x \in Files, x \notin blind, x \notin Kept \cap Scope, files'[x] # disk[x]
                 PROVE  ToCome(x)'
      BY <1>1, <1>2, <1>6 DEF Reported, Stale
    <2>1. ToCome(x)
      <3>1. CASE x \in Scope  BY <1>1, <1>2, <1>3, <3>1, WalkIsOver
      <3>2. CASE x \notin Scope  BY <1>3, <3>2 DEF Reported, Stale
      <3> QED BY <3>1, <3>2
    <2> QED BY <1>1, <1>4, <2>1 DEF ToCome
  <1>10. Held'
    <2>1. holders' # {} => Root \in holders'
      BY <1>1, InFolders DEF Held, HoldersOf
    <2>2. ASSUME NEW x \in Files, x \notin blind, x \notin Kept \cap Scope, files'[x] # 0
          PROVE  In[x] \in holders'
      <3>1. CASE x \in Scope  BY <1>1, <1>3, <2>2, <3>1, InFolders DEF HoldersOf
      <3>2. CASE x \notin Scope  BY <1>1, <1>3, <2>2, <3>2 DEF Held
      <3> QED BY <3>1, <3>2
    <2> QED BY <1>1, <1>2, <2>1, <2>2 DEF Held
  <1> QED BY <1>5, <1>7, <1>8, <1>9, <1>10

LEMMA ListFolderKeeps == ASSUME Inv, NEW p \in Folders, ListFolder(p) PROVE Inv'
  <1> USE DEF Inv
  <1> DEFINE found == {x \in Files : In[x] = p /\ disk[x] # 0}
                         \cup (IF p = Root THEN {q \in Folders \ {Root} : FolderThere(q)} ELSE {})
  <1>1. /\ Walking /\ p \in pass.todo
        /\ FolderThere(p) => p \notin bad
        /\ UNCHANGED <<disk, there, bad, watch, changes, due, files, batch, holders, walked, age,
                       gone, hidden, blind>>
    BY DEF ListFolder, Walking, diskVars, watchVars, listVars, history
  <1>2. \/ ~FolderThere(p) /\ pass' = [pass EXCEPT !.todo = @ \ {p}]
        \/ FolderThere(p) /\ pass' = [pass EXCEPT !.todo = (@ \ {p}) \cup found]
    BY DEF ListFolder
  <1>3. found \subseteq Paths  BY DEF Paths
  <1>4. pass \in Passes  BY Types
  <1>5. /\ pass' \in Passes /\ pass'.step = pass.step /\ pass'.seen = pass.seen
        /\ pass'.outer = pass.outer /\ pass'.folder = pass.folder /\ pass'.recheck = pass.recheck
        /\ pass'.errors = pass.errors
        /\ \/ ~FolderThere(p) /\ pass'.todo = pass.todo \ {p}
           \/ FolderThere(p) /\ pass'.todo = (pass.todo \ {p}) \cup found
    <2> HIDE DEF found
    <2>1. CASE ~FolderThere(p) /\ pass' = [pass EXCEPT !.todo = @ \ {p}]
      BY <1>4, <2>1 DEF Passes
    <2>2. CASE FolderThere(p) /\ pass' = [pass EXCEPT !.todo = (@ \ {p}) \cup found]
      BY <1>3, <1>4, <2>2 DEF Passes
    <2> QED BY <1>2, <2>1, <2>2
  <1>6. TypeOK'  BY <1>1, <1>5 DEF TypeOK, Passes
  <1>7. Walking' /\ Scope' = Scope /\ Scope \subseteq Files
    BY <1>1, <1>4, <1>5, InFolders DEF Walking, Scope, Passes
  <1>8. \* What is no longer ahead was in the folder, and is not on the disk.
        ASSUME NEW x \in Files, ~Ahead(x)'
        PROVE  ~Ahead(x) \/ (x \in Under(p) /\ disk[x] = 0)
    <2>1. CASE x \notin Under(p)
      <3>1. p \notin {x, In[x], Root}  BY <2>1, InFolders
      <3> QED BY <1>5, <1>8, <3>1 DEF Ahead
    <2>2. CASE x \in Under(p) /\ disk[x] # 0
      <3>1. FolderThere(p) /\ FolderThere(In[x])
        BY <2>2, InFolders DEF Disk, FolderThere
      <3>2. pass'.todo = (pass.todo \ {p}) \cup found  BY <1>5, <2>2, <3>1
      <3>3. x \in found \/ In[x] \in found
        BY <2>2, <3>1, InFolders
      <3> QED BY <1>8, <3>2, <3>3 DEF Ahead
    <2> QED BY <2>1, <2>2
  <1> HIDE DEF found
  <1>9. Disk'  BY <1>1, <1>5 DEF Disk
  <1>10. Walk'
    <2>1. pass'.step # "noted"  BY <1>7 DEF Walking
    <2>2. pass'.errors => bad # {} \/ \A x \in Files : age[x] = 0
      BY <1>1, <1>5 DEF Walk
    <2>3. \A x \in Files : pass'.seen[x] \in {0, disk[x]} \/ age[x] = 0
      BY <1>1, <1>5 DEF Walk
    <2>4. ASSUME NEW x \in Scope, ~Ahead(x)'
          PROVE  /\ pass.seen[x] = disk[x] \/ age[x] = 0 \/ ~Readable(x)
                 /\ pass.seen[x] # 0 \/ pass'.errors \/ x \in gone \cup hidden
      <3>1. x \in Files  BY <1>7
      <3>2. CASE ~Ahead(x)  BY <1>1, <1>5, <3>2 DEF Walk
      <3>3. CASE disk[x] = 0
        <4>1. x \in gone  BY <1>1, <3>1, <3>3 DEF Disk, Walking
        <4> QED BY <1>1, <3>1, <3>3, <4>1 DEF Walk
      <3> QED BY <1>8, <2>4, <3>1, <3>2, <3>3
    <2> QED BY <1>1, <1>5, <1>7, <2>1, <2>2, <2>3, <2>4 DEF Walk, Readable
  <1>11. Recent'  BY <1>1 DEF Recent, Shown, Readable
  <1>12. Reported'
    <2> SUFFICES ASSUME NEW x \in Files \ blind', Stale(x)' PROVE ToCome(x)'
      BY DEF Reported
    <2>1. x \notin blind  BY <1>1
    <2>2. Stale(x)
      <3>1. CASE x \notin Scope  BY <1>1, <1>7, <3>1 DEF Stale
      <3>2. CASE x \in Scope
        <4>1. pass.seen[x] # disk[x] /\ (pass.seen[x] = 0 => ~Ahead(x)')
          BY <1>1, <1>5, <1>7, <3>2 DEF Stale
        <4>2. pass.seen[x] = 0 => ~Ahead(x)  BY <1>8, <4>1
        <4> QED BY <1>1, <3>2, <4>1, <4>2 DEF Stale
      <3> QED BY <3>1, <3>2
    <2>3. ToCome(x)  BY <2>1, <2>2 DEF Reported
    <2> QED BY <1>1, <1>5, <2>3 DEF ToCome
  <1>13. Held'  BY <1>1, <1>7 DEF Held
  <1> QED BY <1>6, <1>9, <1>10, <1>11, <1>12, <1>13

\* A walk that passes over what it is refused says so, or the files it lost
\* are noted; they are not known any more either way.
LEMMA PassOverKeeps ==
    ASSUME Inv, NEW path \in Paths, NEW p \in Folders, NEW lost \in SUBSET Files,
           PassOver(path, p, lost), bad # {}, \A x \in lost : ~Readable(x),
           \A x \in Files \ lost : path \notin {x, In[x], Root}
    PROVE  Inv'
  <1> USE DEF Inv
  <1>1. /\ Walking /\ path \in pass.todo /\ blind' = blind \cup lost
        /\ UNCHANGED <<disk, there, bad, watch, changes, due, files, batch, holders, walked, age,
                       gone>>
    BY DEF PassOver, Walking, diskVars, watchVars, listVars
  <1>2. PICK told \in BOOLEAN :
            /\ pass' = [pass EXCEPT !.todo = @ \ {path}, !.errors = @ \/ told]
            /\ hidden' = IF told THEN hidden ELSE hidden \cup lost
    BY DEF PassOver
  <1>3. pass \in Passes  BY Types
  <1>4. /\ pass' \in Passes /\ pass'.step = pass.step /\ pass'.seen = pass.seen
        /\ pass'.outer = pass.outer /\ pass'.folder = pass.folder /\ pass'.recheck = pass.recheck
        /\ pass'.todo = pass.todo \ {path}
        /\ pass.errors => pass'.errors
        /\ pass'.errors \/ lost \subseteq hidden'
    <2>1. CASE told
      <3>1. pass' = [pass EXCEPT !.todo = @ \ {path}, !.errors = TRUE]  BY <1>2, <1>3, <2>1 DEF Passes
      <3> QED BY <1>3, <3>1 DEF Passes
    <2>2. CASE ~told
      <3>1. pass' = [pass EXCEPT !.todo = @ \ {path}]  BY <1>2, <1>3, <2>2 DEF Passes
      <3> QED BY <1>2, <1>3, <2>2, <3>1 DEF Passes
    <2> QED BY <2>1, <2>2
  <1>5. hidden \subseteq hidden' /\ hidden' \subseteq Files /\ blind' \subseteq Files
    BY <1>1, <1>2, Types
  <1>6. TypeOK'  BY <1>1, <1>4, <1>5 DEF TypeOK, Passes
  <1>7. Walking' /\ Scope' = Scope /\ Scope \subseteq Files
    BY <1>1, <1>3, <1>4, InFolders DEF Walking, Scope, Passes
  <1>8. \A x \in Files \ lost : ~Ahead(x)' => ~Ahead(x)  BY <1>4 DEF Ahead
  <1>9. Disk'  BY <1>1, <1>4 DEF Disk
  <1>10. Walk'
    <2>1. pass'.step # "noted"  BY <1>7 DEF Walking
    <2>2. \A x \in Files : pass'.seen[x] \in {0, disk[x]} \/ age[x] = 0
      BY <1>1, <1>4 DEF Walk
    <2>3. ASSUME NEW x \in Scope, ~Ahead(x)'
          PROVE  /\ pass.seen[x] = disk[x] \/ age[x] = 0 \/ ~Readable(x)
                 /\ pass.seen[x] # 0 \/ pass'.errors \/ x \in gone \cup hidden'
      <3>1. CASE x \in lost  BY <1>4, <3>1
      <3>2. CASE x \notin lost  BY <1>1, <1>4, <1>5, <1>7, <1>8, <2>3, <3>2 DEF Walk
      <3> QED BY <3>1, <3>2
    <2> QED BY <1>1, <1>4, <1>7, <2>1, <2>2, <2>3 DEF Walk, Readable
  <1>11. Recent' /\ Held'  BY <1>1, <1>7 DEF Recent, Shown, Readable, Held
  <1>12. Reported'
    <2> SUFFICES ASSUME NEW x \in Files \ blind', Stale(x)' PROVE ToCome(x)'
      BY DEF Reported
    <2>1. x \notin blind /\ x \notin lost  BY <1>1
    <2>2. Stale(x)  BY <1>1, <1>4, <1>7, <1>8, <2>1 DEF Stale
    <2>3. ToCome(x)  BY <2>1, <2>2 DEF Reported
    <2> QED BY <1>1, <1>4, <2>3 DEF ToCome
  <1> QED BY <1>6, <1>9, <1>10, <1>11, <1>12

LEMMA FailuresKeep ==
    ASSUME Inv, (\E p \in Folders : ListFails(p)) \/ (\E x \in Files : StatFails(x))
    PROVE  Inv'
  <1>1. ASSUME NEW p \in Folders, ListFails(p) PROVE Inv'
    <2>1. p \in bad \/ Root \in bad  BY <1>1 DEF ListFails, Refused
    <2>2. bad # {} /\ \A x \in Under(p) : ~Readable(x)  BY <2>1, InFolders DEF Readable
    <2>3. \A x \in Files \ Under(p) : p \notin {x, In[x], Root}  BY InFolders
    <2>4. p \in Paths /\ Under(p) \in SUBSET Files /\ PassOver(p, p, Under(p))
      BY <1>1, InFolders DEF Paths, ListFails
    <2> QED BY <2>2, <2>3, <2>4, PassOverKeeps
  <1>2. ASSUME NEW x \in Files, StatFails(x) PROVE Inv'
    <2>1. bad # {} /\ \A y \in {x} : ~Readable(y)  BY <1>2 DEF StatFails, Readable
    <2>2. \A y \in Files \ {x} : x \notin {y, In[y], Root}  BY InFolders
    <2>3. x \in Paths /\ In[x] \in Folders /\ {x} \in SUBSET Files /\ PassOver(x, In[x], {x})
      BY <1>2, InFolders DEF Paths, StatFails
    <2> QED BY <2>1, <2>2, <2>3, PassOverKeeps
  <1> QED BY <1>1, <1>2

LEMMA RecheckFailsKeeps == ASSUME Inv, NEW x \in Files, RecheckFails(x) PROVE Inv'
  <1> USE DEF Inv
  <1>1. /\ pass.step = "outer" /\ pass' = [pass EXCEPT !.recheck = @ \ {x}]
        /\ blind' = blind \cup {x}
        /\ UNCHANGED <<disk, there, bad, watch, changes, due, files, batch, holders, walked, age,
                       gone, hidden>>
    BY DEF RecheckFails, diskVars, watchVars, listVars
  <1>2. pass \in Passes  BY Types
  <1>3. /\ pass' \in Passes /\ pass'.step = "outer" /\ pass'.outer = pass.outer
        /\ pass'.recheck = pass.recheck \ {x}
    BY <1>1, <1>2 DEF Passes
  <1>4. ~Walking /\ ~Walking'  BY <1>1, <1>3 DEF Walking
  <1>5. blind' \subseteq Files  BY <1>1, Types
  <1>6. TypeOK'  BY <1>1, <1>3, <1>5 DEF TypeOK, Passes
  <1>7. Disk' /\ Walk' /\ Recent' /\ Held'
    BY <1>1, <1>3, <1>4 DEF Disk, Walk, Recent, Shown, Readable, Held
  <1>8. Reported'
    <2> SUFFICES ASSUME NEW y \in Files \ blind', files[y] # disk[y] PROVE ToCome(y)'
      BY <1>1, <1>4 DEF Reported, Stale
    <2>1. y # x /\ ToCome(y)  BY <1>1, <1>4 DEF Reported, Stale
    <2> QED BY <1>1, <1>3, <2>1 DEF ToCome
  <1> QED BY <1>6, <1>7, <1>8

LEMMA StatFileKeeps == ASSUME Inv, NEW x \in Files, StatFile(x) PROVE Inv'
  <1> USE DEF Inv
  <1>1. /\ Walking /\ x \in pass.todo
        /\ pass' = [pass EXCEPT !.todo = @ \ {x}, !.seen[x] = disk[x]]
        /\ UNCHANGED <<disk, there, bad, watch, changes, due, files, batch, holders, walked, age,
                       gone, hidden, blind>>
    BY DEF StatFile, Walking, diskVars, watchVars, listVars, history
  <1>2. pass \in Passes  BY Types
  <1>3. /\ pass' \in Passes /\ pass'.step = pass.step /\ pass'.errors = pass.errors
        /\ pass'.outer = pass.outer /\ pass'.folder = pass.folder /\ pass'.recheck = pass.recheck
        /\ pass'.todo = pass.todo \ {x}
        /\ pass'.seen[x] = disk[x] /\ \A y \in Files \ {x} : pass'.seen[y] = pass.seen[y]
    <2> DEFINE seen == [pass.seen EXCEPT ![x] = disk[x]]
    <2>1. seen \in Stamps /\ seen[x] = disk[x] /\ \A y \in Files \ {x} : seen[y] = pass.seen[y]
      BY <1>2, Types DEF Stamps, Passes
    <2>2. pass' = [pass EXCEPT !.todo = @ \ {x}, !.seen = seen]  BY <1>1
    <2> HIDE DEF seen
    <2> QED BY <1>2, <2>1, <2>2 DEF Passes
  <1>4. TypeOK'  BY <1>1, <1>3 DEF TypeOK, Passes
  <1>5. Walking' /\ Scope' = Scope /\ Scope \subseteq Files
    BY <1>1, <1>2, <1>3, InFolders DEF Walking, Scope, Passes
  <1>6. \A y \in Files \ {x} : ~Ahead(y)' => ~Ahead(y)
    BY <1>3, InFolders DEF Ahead
  <1>7. Disk'  BY <1>1, <1>3 DEF Disk
  <1>8. Walk'
    <2>1. pass'.step # "noted"  BY <1>5 DEF Walking
    <2>2. pass'.errors => bad # {} \/ \A y \in Files : age[y] = 0  BY <1>1, <1>3 DEF Walk
    <2>3. \A y \in Files : pass'.seen[y] \in {0, disk[y]} \/ age[y] = 0  BY <1>1, <1>3 DEF Walk
    <2>4. ASSUME NEW y \in Scope, ~Ahead(y)'
          PROVE  /\ pass'.seen[y] = disk[y] \/ age[y] = 0 \/ ~Readable(y)
                 /\ pass'.seen[y] # 0 \/ pass'.errors \/ y \in gone \cup hidden
      <3>1. y \in Files  BY <1>5
      <3>2. CASE y = x  BY <1>1, <1>3, <3>1, <3>2 DEF Disk, Walking
      <3>3. CASE y # x  BY <1>1, <1>3, <1>6, <2>4, <3>1, <3>3 DEF Walk
      <3> QED BY <3>2, <3>3
    <2> QED BY <1>1, <1>5, <2>1, <2>2, <2>3, <2>4 DEF Walk, Readable
  <1>9. Recent' /\ Held'  BY <1>1, <1>5 DEF Recent, Shown, Readable, Held
  <1>10. Reported'
    <2> SUFFICES ASSUME NEW y \in Files \ blind, Stale(y)' PROVE ToCome(y)'
      BY <1>1 DEF Reported
    <2>1. Stale(y)
      <3>1. CASE y \notin Scope  BY <1>1, <1>5, <3>1 DEF Stale
      <3>2. CASE y \in Scope  BY <1>1, <1>3, <1>5, <1>6, <3>2 DEF Stale
      <3> QED BY <3>1, <3>2
    <2>2. ToCome(y)  BY <2>1 DEF Reported
    <2> QED BY <1>1, <1>3, <2>2 DEF ToCome
  <1> QED BY <1>4, <1>7, <1>8, <1>9, <1>10

LEMMA BeginOuterKeeps == ASSUME Inv, NEW p \in Folders, BeginOuter(p) PROVE Inv'
  <1> USE DEF Inv
  <1>1. /\ pass.step = "outer" /\ p \in pass.outer
        /\ pass' = [pass EXCEPT !.step = "part", !.outer = @ \ {p}, !.folder = p,
                                !.todo = {p}, !.seen = NoFiles, !.errors = FALSE]
        /\ blind' = blind \ Under(p)
        /\ UNCHANGED <<disk, there, bad, watch, changes, due, files, batch, holders, walked, age,
                       gone, hidden>>
    BY DEF BeginOuter, diskVars, watchVars, listVars
  <1>2. pass \in Passes  BY Types
  <1>3. /\ pass' \in Passes /\ pass'.step = "part" /\ ~pass'.errors
        /\ pass'.outer = pass.outer \ {p} /\ pass'.folder = p /\ pass'.recheck = pass.recheck
        /\ pass'.todo = {p} /\ pass'.seen = NoFiles
    BY <1>1, <1>2, NoFilesStamps DEF Passes, Paths
  <1>4. TypeOK'
    <2>1. blind' \subseteq Files  BY <1>1, Types
    <2> QED BY <1>1, <1>3, <2>1 DEF TypeOK, Passes
  <1>5. ~Walking /\ Walking' /\ Scope' = Under(p)  BY <1>1, <1>3 DEF Walking, Scope
  <1>6. \A x \in Under(p) : x \in Files /\ Ahead(x)'  BY <1>3, InFolders DEF Ahead
  <1>7. Disk' /\ Recent'  BY <1>1, <1>3 DEF Disk, Recent, Shown, Readable
  <1>8. Walk'  BY <1>3, <1>5, <1>6, NoFilesStamps DEF Walk
  <1>9. Reported'
    <2> SUFFICES ASSUME NEW x \in Files \ blind', Stale(x)' PROVE ToCome(x)'
      BY DEF Reported
    <2>1. x \notin Under(p)
      BY <1>3, <1>5, <1>6, NoFilesStamps DEF Stale
    <2>2. x \notin blind /\ Stale(x)  BY <1>1, <1>5, <2>1 DEF Stale
    <2>3. Told(changes, x) \/ Told(batch, x) \/ Told(pass.outer, x) \/ x \in pass.recheck
      BY <2>2 DEF Reported, ToCome
    <2>4. Told(pass.outer, x) => Told(pass'.outer, x)
      <3>1. pass.outer \in SUBSET Paths  BY <1>2 DEF Passes, Paths
      <3> QED BY <1>3, <2>1, <3>1, InFolders DEF Told
    <2> QED BY <1>1, <1>3, <2>3, <2>4 DEF ToCome
  <1>10. Held'  BY <1>1, <1>5 DEF Held
  <1> QED BY <1>4, <1>7, <1>8, <1>9, <1>10

LEMMA RecheckKeeps == ASSUME Inv, NEW path \in Paths, Recheck(path) PROVE Inv'
  <1> USE DEF Inv
  <1>1. /\ pass.step = "outer" /\ pass' = [pass EXCEPT !.recheck = @ \ {path}]
        /\ UNCHANGED <<disk, there, bad, watch, changes, due, batch, walked, age, gone, hidden, blind>>
    BY DEF Recheck, diskVars, watchVars, history
  <1>2. pass \in Passes  BY Types
  <1>3. /\ pass' \in Passes /\ pass'.step = "outer" /\ pass'.outer = pass.outer
        /\ pass'.recheck = pass.recheck \ {path}
    BY <1>1, <1>2 DEF Passes
  <1>4. ~Walking /\ ~Walking'  BY <1>1, <1>3 DEF Walking
  <1>5. CASE path \in Files
    <2>1. /\ files' = [files EXCEPT ![path] = disk[path]]
          /\ holders' = IF disk[path] \in {0, files[path]} THEN holders
                        ELSE holders \cup HoldersOf([NoFiles EXCEPT ![path] = disk[path]])
      BY <1>5 DEF Recheck
    <2>2. /\ files' \in Stamps /\ files'[path] = disk[path]
          /\ \A y \in Files \ {path} : files'[y] = files[y]
      BY <1>5, <2>1, Types DEF Stamps
    <2>3. /\ holders' \subseteq Folders /\ holders \subseteq holders'
          /\ holders' # {} => Root \in holders'
          /\ disk[path] \notin {0, files[path]} => In[path] \in holders'
      <3>1. CASE disk[path] \in {0, files[path]}  BY <2>1, <3>1, Types DEF Held
      <3>2. CASE disk[path] \notin {0, files[path]}
        <4> DEFINE listing == [NoFiles EXCEPT ![path] = disk[path]]
        <4>1. listing[path] = disk[path]  BY <1>5, NoFilesStamps DEF Stamps
        <4>2. holders' = holders \cup HoldersOf(listing)  BY <2>1, <3>2
        <4> HIDE DEF listing
        <4>3. {Root, In[path]} \subseteq HoldersOf(listing) /\ HoldersOf(listing) \subseteq Folders
          BY <1>5, <3>2, <4>1, InFolders DEF HoldersOf
        <4> QED BY <3>2, <4>2, <4>3, Types
      <3> QED BY <3>1, <3>2
    <2>4. TypeOK'  BY <1>1, <1>3, <2>2, <2>3 DEF TypeOK, Passes
    <2>5. Disk' /\ Walk'  BY <1>1, <1>3, <1>4 DEF Disk, Walk
    <2>6. Recent'  BY <1>1, <1>5, <2>2 DEF Recent, Shown, Readable
    <2>7. Reported'
      <3> SUFFICES ASSUME NEW x \in Files \ blind, files'[x] # disk[x] PROVE ToCome(x)'
        BY <1>1, <1>4 DEF Reported, Stale
      <3>1. x # path /\ files[x] # disk[x]  BY <1>5, <2>2
      <3>2. ToCome(x)  BY <1>4, <3>1 DEF Reported, Stale
      <3> QED BY <1>1, <1>3, <3>1, <3>2 DEF ToCome
    <2>8. Held'
      <3> SUFFICES ASSUME NEW x \in Files \ blind, files'[x] # 0 PROVE In[x] \in holders'
        BY <1>1, <2>3 DEF Held
      <3>1. CASE x # path  BY <1>4, <2>2, <2>3, <3>1 DEF Held
      <3>2. CASE x = path  BY <1>4, <1>5, <2>2, <2>3, <3>2 DEF Held
      <3> QED BY <3>1, <3>2
    <2> QED BY <2>4, <2>5, <2>6, <2>7, <2>8
  <1>6. CASE path \notin Files
    <2>1. UNCHANGED <<files, holders>>  BY <1>6 DEF Recheck
    <2>2. TypeOK'  BY <1>1, <1>3, <2>1 DEF TypeOK, Passes
    <2>3. Disk' /\ Walk' /\ Recent' /\ Held'
      BY <1>1, <1>3, <1>4, <2>1 DEF Disk, Walk, Recent, Shown, Readable, Held
    <2>4. Reported'  BY <1>1, <1>3, <1>4, <1>6, <2>1 DEF Reported, Stale, ToCome
    <2> QED BY <2>2, <2>3, <2>4
  <1> QED BY <1>5, <1>6

-----------------------------------------------------------------------------
(* The invariant, and what follows from it.                                *)

LEMMA InitInv == Init => Inv
  <1> SUFFICES ASSUME Init PROVE Inv
    OBVIOUS
  <1>1. TypeOK
    <2>1. pass \in Passes /\ disk \in Stamps /\ files \in Stamps  BY NoPassType, NoFilesStamps DEF Init
    <2>2. walked \in 0..Never /\ age \in [Files -> 0..Never]  BY DEF Init, Never
    <2> QED BY <2>1, <2>2 DEF Init, TypeOK, Passes
  <1>2. pass.step = "idle" /\ ~Walking  BY NoPassType DEF Init, Walking
  <1>3. Disk /\ Walk /\ Recent /\ Reported /\ Held
    BY <1>2, NoFilesStamps DEF Init, Disk, Walk, Recent, Reported, Stale, Held
  <1> QED BY <1>1, <1>3 DEF Inv

LEMMA InvKept == ASSUME Inv, [Next]_vars PROVE Inv'
  <1>1. CASE Outside
    BY <1>1, TouchesKeep, RemindKeeps, ProtectKeeps, RootComesKeeps, TickKeeps DEF Outside
  <1>2. CASE Pass
    BY <1>2, BeginPassKeeps, BeginFullKeeps, BeginPartKeeps, EndFullKeeps, EndOuterKeeps,
       EndPassKeeps, MarkFailsKeeps, ListFolderKeeps, BeginOuterKeeps, StatFileKeeps, RecheckKeeps,
       FailuresKeep, RecheckFailsKeeps
       DEF Pass
  <1>3. CASE UNCHANGED vars
    BY <1>3 DEF vars, diskVars, watchVars, listVars, history, Inv, TypeOK, Disk, Walk, Walking,
                Scope, Ahead, Readable, Recent, Shown, Reported, Stale, ToCome, Held
  <1> QED BY <1>1, <1>2, <1>3 DEF Next

\* The invariant holds throughout every behaviour of the listing.
THEOREM Invariant == Spec => []Inv
  BY InitInv, InvKept, PTL DEF Spec

\* Every variable keeps its type; no more paths are gathered than the limit
\* (file_changes.rs, log_files.rs).
THEOREM TypeCorrect == Spec => []TypeOK
  <1>1. Inv => TypeOK  BY DEF Inv
  <1> QED BY <1>1, Invariant, PTL

\* No change is missed for longer than the time between two walks, whatever
\* reports were lost (log_files.rs, RECONCILE_SECS).
THEOREM NoneIsMissed == Spec => []ChangesAreListed
  <1>1. ASSUME Inv PROVE ChangesAreListed
    <2> SUFFICES ASSUME NEW x \in Files, files[x] # disk[x], Shown(x)
                 PROVE  age[x] <= Reconcile
      BY DEF ChangesAreListed, Shown
    <2>1. age[x] <= walked  BY <1>1 DEF Inv, Recent
    <2>2. walked = Never => age[x] = 0  BY <1>1 DEF Inv, Disk
    <2>3. age[x] \in 0..Never /\ walked \in 0..Never  BY <1>1, Types DEF Inv
    <2> QED BY <2>1, <2>2, <2>3 DEF Never
  <1> QED BY <1>1, Invariant, PTL

\* What changed under a working watch is listed once its report was taken, if
\* the system let it be looked at (log_files.rs, `refresh`; file_changes.rs).
THEOREM ReportsSuffice == Spec => []ReportsAreEnough
  <1>1. ASSUME Inv PROVE ReportsAreEnough
    <2> SUFFICES ASSUME Quiet, NEW x \in Files \ blind, files[x] # disk[x]
                 PROVE  FALSE
      BY DEF ReportsAreEnough
    <2>1. ToCome(x)  BY <1>1 DEF Quiet, Inv, Reported, Stale, Walking
    <2>2. Told({}, x)  BY <2>1 DEF Quiet, ToCome
    <2>3. {} # Unknown  OBVIOUS
    <2> QED BY <2>2, <2>3 DEF Told
  <1> QED BY <1>1, Invariant, PTL

\* A log leaves the listing only in a pass in which it was not there, or was
\* passed over by a walker that says nothing of it (log_files.rs, `refresh`;
\* walk.rs).
THEOREM RemovedHaveGone == Spec => RemovedAreGone
  <1>1. ASSUME Inv, [Next]_vars, NEW x \in Files, files[x] # 0, files'[x] = 0
        PROVE  x \in gone \cup hidden
    <2> USE DEF Inv
    <2>1. EndFull \/ EndOuter \/ \E p \in Paths : Recheck(p)
      <3>1. files' # files  BY <1>1
      <3>2. ~UNCHANGED vars  BY <3>1 DEF vars, listVars
      <3>3. CASE Outside
        <4>1. PICK y \in Files : Remind(y)
          BY <3>1, <3>3 DEF Outside, Write, Remove, MoveFolder, Touch, Protect, RootComes, RootGoes,
                            Tick, listVars
        <4>2. files'[x] = IF x = y THEN disk[x] ELSE files[x]  BY <1>1, <4>1, Types DEF Remind, Stamps
        <4> QED BY <1>1, <4>1, <4>2 DEF Remind
      <3>4. CASE Pass
        BY <3>1, <3>4 DEF Pass, BeginPass, BeginFull, BeginPart, EndPass, MarkFails, ListFolder,
                          BeginOuter, StatFile, ListFails, StatFails, PassOver, RecheckFails,
                          listVars
      <3> QED BY <1>1, <3>2, <3>3, <3>4 DEF Next
    <2>2. CASE EndFull
      <3>1. /\ Walking /\ pass.todo = {} /\ x \in Scope
            /\ files' = [y \in Files |-> IF y \in Kept THEN files[y] ELSE pass.seen[y]]
        BY <2>2 DEF EndFull, Walking, Scope
      <3>2. x \notin Kept /\ pass.seen[x] = 0  BY <1>1, <3>1
      <3> QED BY <1>1, <3>1, <3>2, WalkIsOver DEF Kept
    <2>3. CASE EndOuter
      <3>1. /\ Walking /\ pass.todo = {} /\ Scope = Under(pass.folder)
            /\ files' = [y \in Files |-> IF y \in Under(pass.folder) \ Kept THEN pass.seen[y]
                                         ELSE files[y]]
        BY <2>3 DEF EndOuter, Walking, Scope
      <3>2. x \in Scope /\ x \notin Kept /\ pass.seen[x] = 0  BY <1>1, <3>1
      <3> QED BY <1>1, <3>1, <3>2, WalkIsOver DEF Kept
    <2>4. ASSUME NEW p \in Paths, Recheck(p) PROVE x \in gone \cup hidden
      <3>1. pass.step = "outer"  BY <2>4 DEF Recheck
      <3>2. p = x /\ files' = [files EXCEPT ![p] = disk[p]]  BY <1>1, <2>4, Types DEF Recheck, Stamps
      <3>3. disk[x] = 0  BY <1>1, <3>2, Types DEF Stamps
      <3> QED BY <1>1, <3>1, <3>3 DEF Disk
    <2> QED BY <2>1, <2>2, <2>3, <2>4
  <1>2. Inv /\ [Next]_vars => [\A x \in Files : files[x] # 0 /\ files'[x] = 0 =>
                                     x \in gone \cup hidden]_vars
    BY <1>1
  <1> QED BY <1>2, Invariant, PTL DEF Spec, RemovedAreGone

=============================================================================
