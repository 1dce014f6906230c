----------------------------- MODULE CliSettings -----------------------------
(***************************************************************************)
(* The status line the user connects in the settings files of Antigravity's *)
(* CLI (crates/platform/src/hooks/statusline_install.rs and its line.rs,   *)
(* install/files.rs, runtime/src/request.rs).  A request plans a change of *)
(* each file, applies them in turn and saves which files are connected; on *)
(* a failure it puts back what it wrote.  The client saves the same files  *)
(* whenever it likes.                                                      *)
(***************************************************************************)
EXTENDS Naturals, Sequences

CONSTANTS Paths,     \* the settings files
          Lines,     \* status lines the user may have
          MaxSaves,  \* bound: saves of the client
          MaxCalls   \* bound: requests

VARIABLES
    file,       \* what each file holds
    connected,  \* the preference: the files that are connected
    call,       \* the request under way
    answered,       \* what the last one answered
    expected,   \* each file as its client last saved it, with what the requests
                \* since then said they have done to it
    raced,      \* files the client saved between a check and the write after it
    saves,      \* saves made
    calls       \* requests made

vars == <<file, connected, call, answered, expected, raced, saves, calls>>

\* `line` is the client's own line, in force or kept in the record that undoes
\* the installation; `ours` whether the callback is installed, or has been
\* and was changed since.
Settings == [line : Lines, ours : {"no", "yes", "changed"}, save : 0..MaxSaves]
\* A planned edit: what the file held and what it will hold.
Edits == [path : Paths, original : Settings, updated : Settings]

NoCall == [step |-> "none", wanted |-> {}, todo |-> {}, edits |-> <<>>, next |-> 0]

TypeOK ==
    /\ file \in [Paths -> Settings]
    /\ connected \subseteq Paths
    /\ call \in [step : {"none", "plan", "apply", "write", "save", "undo", "put back"},
                 wanted : SUBSET Paths, todo : SUBSET Paths, edits : Seq(Edits), next : Nat]
    /\ call.next <= Len(call.edits) + 1
    /\ answered \in {"nothing", "done", "failed", "not all put back"}
    /\ expected \in [Paths -> Settings]
    /\ raced \subseteq Paths
    /\ saves \in 0..MaxSaves /\ calls \in 0..MaxCalls

Init ==
    /\ \E line \in Lines :
          /\ file = [p \in Paths |-> [line |-> line, ours |-> "no", save |-> 0]]
    /\ expected = file
    /\ connected = {} /\ call = NoCall /\ answered = "nothing"
    /\ raced = {} /\ saves = 0 /\ calls = 0

-----------------------------------------------------------------------------
(* The client.                                                             *)

\* It keeps what was installed, or writes over it from its own memory, or its
\* user edits a line that is installed.
ClientSaves(p, line, ours) ==
    /\ saves < MaxSaves
    /\ ours \in {"no", file[p].ours} \cup (IF file[p].ours = "no" THEN {} ELSE {"changed"})
    /\ ours = "no" \/ line = file[p].line
    /\ file' = [file EXCEPT ![p] = [line |-> line, ours |-> ours, save |-> saves + 1]]
    /\ expected' = [expected EXCEPT ![p] = file'[p]]
    /\ raced' = IF call.step \in {"write", "put back"} /\ call.edits[call.next].path = p
                THEN raced \cup {p} ELSE raced \ {p}
    /\ saves' = saves + 1
    /\ UNCHANGED <<connected, call, answered, calls>>

-----------------------------------------------------------------------------
(* The request set_setting of antigravityCliSettings.                      *)

\* The files connected so far and those that are wanted.
Call(wanted) ==
    /\ call.step = "none" /\ calls < MaxCalls
    /\ calls' = calls + 1
    /\ call' = [NoCall EXCEPT !.step = "plan", !.wanted = wanted, !.todo = connected \cup wanted]
    /\ answered' = "nothing"
    /\ UNCHANGED <<file, connected, expected, raced, saves>>

Ends(answer) ==
    /\ call' = NoCall /\ answered' = answer
    /\ UNCHANGED <<file, connected, raced, saves, calls>>

\* What a request says of the files in paths.
Says(paths) ==
    expected' = [p \in Paths |->
                  IF p \in paths THEN [expected[p] EXCEPT !.ours = file[p].ours] ELSE expected[p]]

\* plan_file: what a file would become.  A line that was changed since it was
\* installed is a conflict; unless its record is gone too and the file is not
\* wanted, which leaves it alone (PlanFails has the other conflicts).
Edited(p, wanted) ==
    IF file[p].ours = "changed" THEN IF wanted THEN {} ELSE {file[p]}
    ELSE {[file[p] EXCEPT !.ours = IF wanted THEN "yes" ELSE "no"]}

\* Those connected come first, each in the order the user listed them.
PlanFile(p) ==
    /\ call.step = "plan" /\ p \in call.todo
    /\ p \in connected \/ call.todo \cap connected = {}
    /\ \E new \in Edited(p, p \in call.wanted) :
          call' = [call EXCEPT !.todo = @ \ {p},
                     !.edits = IF new = file[p] THEN @
                               ELSE Append(@, [path |-> p, original |-> file[p], updated |-> new])]
    /\ UNCHANGED <<file, connected, answered, expected, raced, saves, calls>>

\* A file that cannot be read, or was changed by others, ends the request.
PlanFails ==
    /\ call.step = "plan" /\ call.todo # {}
    /\ Ends("failed") /\ UNCHANGED expected

Planned ==
    /\ call.step = "plan" /\ call.todo = {}
    /\ call' = [call EXCEPT !.step = "apply", !.next = 1]
    /\ UNCHANGED <<file, connected, answered, expected, raced, saves, calls>>

Edit == call.edits[call.next]

\* FileChange::apply compares ...
CheckEdit ==
    /\ call.step = "apply" /\ call.next <= Len(call.edits)
    /\ file[Edit.path] = Edit.original
    /\ call' = [call EXCEPT !.step = "write"]
    /\ UNCHANGED <<file, connected, answered, expected, raced, saves, calls>>

\* ... and replaces the file.
WriteEdit ==
    /\ call.step = "write"
    /\ file' = [file EXCEPT ![Edit.path] = Edit.updated]
    /\ call' = [call EXCEPT !.step = "apply", !.next = @ + 1]
    /\ UNCHANGED <<connected, answered, expected, raced, saves, calls>>

Undoes(last) == call' = [call EXCEPT !.step = "undo", !.next = last]

\* The file has changed since the plan, or cannot be written.
EditFails ==
    /\ \/ call.step = "apply" /\ call.next <= Len(call.edits)
       \/ call.step = "write"
    /\ Undoes(call.next - 1)
    /\ UNCHANGED <<file, connected, answered, expected, raced, saves, calls>>

\* The preference is saved last.
Save ==
    /\ call.step = "apply" /\ call.next > Len(call.edits)
    /\ connected' = call.wanted
    /\ call' = NoCall /\ answered' = "done"
    /\ Says({call.edits[i].path : i \in 1..Len(call.edits)})
    /\ UNCHANGED <<file, raced, saves, calls>>

SaveFails ==
    /\ call.step = "apply" /\ call.next > Len(call.edits)
    /\ Undoes(Len(call.edits))
    /\ UNCHANGED <<file, connected, answered, expected, raced, saves, calls>>

\* Mutant: what was written is put back whatever the file holds by now.
CheckUndo_Never ==
    /\ call.step = "undo" /\ call.next > 0
    /\ call' = [call EXCEPT !.step = "put back"]
    /\ UNCHANGED <<file, connected, answered, expected, raced, saves, calls>>

CheckUndo ==
    /\ call.step = "undo" /\ call.next > 0
    /\ file[Edit.path] = Edit.updated
    /\ call' = [call EXCEPT !.step = "put back"]
    /\ UNCHANGED <<file, connected, answered, expected, raced, saves, calls>>

PutBack ==
    /\ call.step = "put back"
    /\ file' = [file EXCEPT ![Edit.path] = Edit.original]
    /\ call' = [call EXCEPT !.step = "undo", !.next = @ - 1]
    /\ UNCHANGED <<connected, answered, expected, raced, saves, calls>>

\* A file that changed meanwhile is left as it is, and counted: `todo` holds
\* those that could not be put back.
UndoFails ==
    /\ call.step \in {"undo", "put back"} /\ call.next > 0
    /\ call' = [call EXCEPT !.step = "undo", !.next = @ - 1, !.todo = @ \cup {Edit.path}]
    /\ UNCHANGED <<file, connected, answered, expected, raced, saves, calls>>

Undone ==
    /\ call.step = "undo" /\ call.next = 0
    /\ Ends(IF call.todo = {} THEN "failed" ELSE "not all put back")
    /\ Says(call.todo)

Dies ==
    /\ call.step # "none"
    /\ Ends("nothing") /\ Says(Paths)

-----------------------------------------------------------------------------
Next ==
    \/ \E p \in Paths, line \in Lines, ours \in {"no", "yes", "changed"} : ClientSaves(p, line, ours)
    \/ \E wanted \in SUBSET Paths : Call(wanted)
    \/ \E p \in Paths : PlanFile(p)
    \/ PlanFails \/ Planned \/ CheckEdit \/ WriteEdit \/ EditFails
    \/ Save \/ SaveFails \/ CheckUndo \/ PutBack \/ UndoFails \/ Undone \/ Dies

-----------------------------------------------------------------------------
(* Properties.                                                             *)

\* The client's own line and its other settings are in a file as it last
\* saved them, through any plan, failure, undoing and death, unless it saved
\* in the very moment between a check and the write.  And what a request
\* answers is so: one that failed has left each file as it was, or has said
\* that it could not.
ClientsSettingsStay ==
    \A p \in Paths \ raced :
        /\ file[p].line = expected[p].line /\ file[p].save = expected[p].save
        /\ call = NoCall => file[p] = expected[p]

=============================================================================
