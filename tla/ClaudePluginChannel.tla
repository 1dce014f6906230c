------------------------ MODULE ClaudePluginChannel ------------------------
(***************************************************************************)
(* Words for a Claude Code session                                         *)
(* (crates/platform/src/claude_plugin/channel.rs and register.ts).  The    *)
(* app leaves a file per prompt in the session's folder; the plugin, in a  *)
(* process of its own, reads the folder every second, claims each prompt   *)
(* and submits it.  The app may ask to cancel a prompt, and sweeps the     *)
(* folder.  Nothing but files is shared.                                   *)
(***************************************************************************)
EXTENDS Naturals

CONSTANTS Words,    \* prompts' identities
          Brief,    \* age at which words that were taken are swept
          Lifetime, \* age at which a prompt expires
          MaxNow,   \* bound of the clock
          MaxLoads  \* bound: times the session loads the plugin

VARIABLES
    prompt,    \* each prompt's file
    mark,      \* the file that asks to cancel it: when it was written, 0 for none
    at,        \* when the words were left, 0 when they never were
    told,      \* what the app was last told of them
    plugin,    \* the plugin's pass over the folder
    underway,  \* submissions whose outcome is not noted yet
    submitted, \* times the words were submitted
    loads,     \* loads made
    now        \* the time, from 1

vars == <<prompt, mark, at, told, plugin, underway, submitted, loads, now>>

Answers == {"waiting", "taken", "started", "refused", "cancelled", "expired"}
\* The file's last words, and when they were written: words that were taken
\* back were never claimed.
States == Answers \cup {"taken back"}
Absent == [state |-> "absent", written |-> 0]
Files == [state : States, written : 1..MaxNow] \cup {Absent}
NoWord == "none"
NoPlugin == [step |-> "none", pending |-> {}, word |-> NoWord, time |-> 0]

TypeOK ==
    /\ prompt \in [Words -> Files] /\ mark \in [Words -> 0..MaxNow]
    /\ at \in [Words -> 0..MaxNow]
    /\ told \in [Words -> Answers \cup {"nothing", "cancel requested"}]
    /\ plugin \in [step : {"none", "idle", "each", "claim", "recheck", "submit", "give up"},
                   pending : SUBSET Words, word : Words \cup {NoWord}, time : 0..MaxNow]
    /\ underway \subseteq Words /\ submitted \in [Words -> 0..MaxLoads]
    /\ loads \in 0..MaxLoads /\ now \in 1..MaxNow

Init ==
    /\ prompt = [w \in Words |-> Absent]
    /\ mark = [w \in Words |-> 0] /\ at = [w \in Words |-> 0]
    /\ told = [w \in Words |-> "nothing"]
    /\ plugin = NoPlugin
    /\ underway = {} /\ submitted = [w \in Words |-> 0]
    /\ loads = 0 /\ now = 1

Writes(w, state) == prompt' = [prompt EXCEPT ![w] = [state |-> state, written |-> now]]

-----------------------------------------------------------------------------
(* The app.                                                                *)

TimePasses ==
    /\ now < MaxNow
    /\ now' = now + 1
    /\ UNCHANGED <<prompt, mark, at, told, plugin, underway, submitted, loads>>

\* An identity is used once.
Leave(w) ==
    /\ at[w] = 0 /\ prompt[w] = Absent
    /\ Writes(w, "waiting")
    /\ at' = [at EXCEPT ![w] = now]
    /\ UNCHANGED <<mark, told, plugin, underway, submitted, loads, now>>

State(w) ==
    IF prompt[w].state = "taken back" THEN "cancelled"
    ELSE IF prompt[w].state # "waiting" THEN prompt[w].state
    ELSE IF at[w] + Lifetime <= now THEN "expired"
    ELSE IF mark[w] # 0 THEN "cancel requested" ELSE "waiting"

Look(w) ==
    /\ prompt[w] # Absent
    /\ told' = [told EXCEPT ![w] = State(w)]
    /\ UNCHANGED <<prompt, mark, at, plugin, underway, submitted, loads, now>>

\* The second step of `cancel`: the mark, after a look that found the words
\* waiting and however much later.
Cancel(w) ==
    /\ told[w] \in {"waiting", "cancel requested"}
    /\ mark' = [mark EXCEPT ![w] = now]
    /\ told' = [told EXCEPT ![w] = "cancel requested"]
    /\ UNCHANGED <<prompt, at, plugin, underway, submitted, loads, now>>

Old(written, age) == written # 0 /\ now - written > age

SweepsPrompt(w) ==
    \/ Old(prompt[w].written, Lifetime)
    \/ /\ prompt[w].state \in {"taken", "started", "refused", "cancelled"}
       /\ Old(prompt[w].written, Brief)

Sweep(w) ==
    /\ prompt[w] # Absent /\ SweepsPrompt(w)
    /\ prompt' = [prompt EXCEPT ![w] = Absent]
    /\ UNCHANGED <<mark, at, told, plugin, underway, submitted, loads, now>>

SweepMark(w) ==
    /\ Old(mark[w], Lifetime)
    /\ mark' = [mark EXCEPT ![w] = 0]
    /\ UNCHANGED <<prompt, at, told, plugin, underway, submitted, loads, now>>

-----------------------------------------------------------------------------
(* The plugin.                                                             *)

\* A reload ends the pass that is under way, and what it was to note.
Load ==
    /\ loads < MaxLoads
    /\ loads' = loads + 1
    /\ plugin' = [NoPlugin EXCEPT !.step = "idle"]
    /\ underway' = {}
    /\ UNCHANGED <<prompt, mark, at, told, submitted, now>>

\* Mutant: words that were taken and not started are tried again.
Pending_Taken == {w \in Words : prompt[w].state \in {"waiting", "taken"}}

Pending == {w \in Words : prompt[w].state = "waiting"}

ReadFolder ==
    /\ plugin.step = "idle" /\ Pending # {}
    /\ plugin' = [plugin EXCEPT !.step = "each", !.pending = Pending]
    /\ UNCHANGED <<prompt, mark, at, told, underway, submitted, loads, now>>

\* The next of what was read, the earliest first, at a time of its own.
Take(w) ==
    /\ plugin.step = "each" /\ w \in plugin.pending
    /\ \A v \in plugin.pending : at[w] <= at[v]
    /\ plugin' = [step |-> "claim", pending |-> plugin.pending \ {w}, word |-> w, time |-> now]
    /\ UNCHANGED <<prompt, mark, at, told, underway, submitted, loads, now>>

EndPass ==
    /\ plugin.step = "each" /\ plugin.pending = {}
    /\ plugin' = [NoPlugin EXCEPT !.step = "idle"]
    /\ UNCHANGED <<prompt, mark, at, told, underway, submitted, loads, now>>

Passes == plugin' = [plugin EXCEPT !.step = "each", !.word = NoWord, !.time = 0]

TakeBack(w) ==
    /\ plugin.step = "claim" /\ plugin.word = w /\ mark[w] # 0
    /\ Writes(w, "taken back") /\ Passes
    /\ UNCHANGED <<mark, at, told, underway, submitted, loads, now>>

Expire(w) ==
    /\ plugin.step = "claim" /\ plugin.word = w /\ at[w] + Lifetime <= plugin.time
    /\ Writes(w, "expired") /\ Passes
    /\ UNCHANGED <<mark, at, told, underway, submitted, loads, now>>

\* A mark left after the look for one does not keep the words from being
\* claimed.
Claim(w) ==
    /\ plugin.step = "claim" /\ plugin.word = w /\ at[w] + Lifetime > plugin.time
    /\ Writes(w, "taken")
    /\ plugin' = [plugin EXCEPT !.step = "recheck"]
    /\ UNCHANGED <<mark, at, told, underway, submitted, loads, now>>

Recheck(w) ==
    /\ plugin.step = "recheck" /\ plugin.word = w
    /\ plugin' = [plugin EXCEPT !.step = IF mark[w] # 0 THEN "give up" ELSE "submit"]
    /\ UNCHANGED <<prompt, mark, at, told, underway, submitted, loads, now>>

\* What cannot be noted stays noted as taken.
GiveUp(w) ==
    /\ plugin.step = "give up" /\ plugin.word = w
    /\ Writes(w, "cancelled") \/ UNCHANGED prompt
    /\ Passes
    /\ UNCHANGED <<mark, at, told, underway, submitted, loads, now>>

Submit(w) ==
    /\ plugin.step = "submit" /\ plugin.word = w
    /\ submitted' = [submitted EXCEPT ![w] = @ + 1]
    /\ underway' = underway \cup {w} /\ Passes
    /\ UNCHANGED <<prompt, mark, at, told, loads, now>>

\* A read or a write fails: the next pass tries what is still waiting.
PassFails ==
    /\ plugin.step \in {"each", "claim", "recheck"}
    /\ plugin' = [NoPlugin EXCEPT !.step = "idle"]
    /\ UNCHANGED <<prompt, mark, at, told, underway, submitted, loads, now>>

\* The session has come to the words, or dropped them, however long after.
Became(w) ==
    /\ w \in underway
    /\ underway' = underway \ {w}
    /\ Writes(w, "started") \/ Writes(w, "refused") \/ UNCHANGED prompt
    /\ UNCHANGED <<mark, at, told, plugin, submitted, loads, now>>

-----------------------------------------------------------------------------
Next ==
    \/ TimePasses \/ Load \/ ReadFolder \/ EndPass \/ PassFails
    \/ \E w \in Words :
          \/ Leave(w) \/ Look(w) \/ Cancel(w) \/ Sweep(w) \/ SweepMark(w)
          \/ Take(w) \/ TakeBack(w) \/ Expire(w) \/ Claim(w) \/ Recheck(w)
          \/ GiveUp(w) \/ Submit(w) \/ Became(w)

-----------------------------------------------------------------------------
(* Properties.                                                             *)

\* Words reach the session once at most, through reloads, failed passes,
\* sweeps and cancellations that cross the claim; words the app was told are
\* cancelled never do; and words it was told were started have (register.ts:
\* "reloads never submit a prompt twice"; channel.rs: "Only the plugin can
\* confirm a withdrawal").
WordsOnce ==
    \A w \in Words :
        /\ submitted[w] <= 1
        /\ told[w] = "cancelled" => submitted[w] = 0
        /\ told[w] \in {"started", "refused"} => submitted[w] = 1

=============================================================================
