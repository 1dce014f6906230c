--------------------------- MODULE ProtocolsProofs ---------------------------
(***************************************************************************)
(* For any requests, names, words, files, changes, sign-ins, lines and     *)
(* cards, and any bounds: what the run checks of the eight small protocols *)
(* holds of them.  Each has an inductive invariant of its own, in          *)
(* conjuncts; the last section puts the eight together.                    *)
(***************************************************************************)
EXTENDS Protocols, Integers, Sequences, TLAPS, WellFoundedInduction

-----------------------------------------------------------------------------
(* PhoneShare.                                                             *)
(*                                                                         *)
(* ToldIsKept is not inductive: what was told is true because the last     *)
(* request is answered last (InOrder), so that nothing that could undo it  *)
(* is left when its answer comes (Quiet), and because the thread has       *)
(* really done what it is about to answer (Done).                          *)

\* The thread has a command in its hands.
ShareBusy == worker.step \in {"take", "save", "answer"}
Harmless == {"invite", "quit"}

\* Requests are numbered as they come, and the page waits for the last.
ShareInOrder ==
    /\ page.waits \in {0, asked}
    /\ \A i \in 1..Len(inbox) :
          /\ inbox[i].id <= asked
          /\ inbox[i].kind # "quit" => inbox[i].id > 0
          /\ inbox[i].kind # "quit" /\ inbox[i].id = asked =>
                \A j \in 1..Len(inbox) : j > i => inbox[j].kind = "quit"
    /\ worker.command.id <= asked
    /\ ShareBusy /\ worker.command.kind # "quit" =>
          /\ worker.command.id > 0
          /\ worker.command.id = asked => \A i \in 1..Len(inbox) : inbox[i].kind = "quit"

\* Once the page was told of a change nothing that could undo it is left to do.
ShareQuiet ==
    page.told # "nothing" =>
        /\ \A i \in 1..Len(inbox) : inbox[i].kind \in Harmless
        /\ ShareBusy => worker.command.kind \in Harmless

\* What the thread is to save, or to answer, it has done.
ShareDone ==
    /\ worker.step = "save" =>
          \/ worker.command.kind = "on" /\ worker.enabled
          \/ worker.command.kind = "off" /\ ~worker.enabled /\ ~worker.lan /\ ~saved.grants
    /\ worker.step = "answer" =>
          /\ worker.command.kind # "quit"
          /\ worker.ok /\ worker.command.kind = "on" => saved.enabled
          /\ worker.ok /\ worker.command.kind = "off" =>
                ~saved.enabled /\ ~saved.grants /\ ~worker.lan

ShareInv ==
    Share!TypeOK /\ ShareInOrder /\ ShareQuiet /\ ShareDone /\ Share!ToldIsKept

-----------------------------------------------------------------------------
(* PhoneUsage.                                                             *)
(*                                                                         *)
(* A pass may rest on an earlier one: what is served is as late as the     *)
(* bound allows also when the last read was tried in this unit of time     *)
(* (UsageTried), after the last read of any kind (UsageRecent) and after   *)
(* the last full one (UsageFull).                                          *)

Recent(d) == d + 1 >= clock.day
Differs(d) == served[d] # usage[d]
\* The day is late by no more than the bound.
InTime(d) ==
    /\ Recent(d) => since[d] = clock.time
    /\ ~Recent(d) => clock.time - since[d] <= Full

UsageTimes ==
    /\ reading.revision <= revision /\ reading.fullRevision <= revision
    /\ reading.fullAt <= clock.time
    /\ \A d \in Usage!Days : since[d] <= clock.time

UsageTried ==
    sharing /\ ready /\ reading.tried = clock.time =>
        \A d \in Usage!Days : Differs(d) => InTime(d)

UsagePassed ==
    sharing /\ ready /\ passed => \A d \in Usage!Days : Differs(d) => InTime(d)

UsageRecent ==
    reading.seeded /\ reading.revision = revision =>
        \A d \in Usage!Days : Recent(d) => ~Differs(d)

UsageFull ==
    reading.seeded =>
        \A d \in Usage!Days : Differs(d) =>
            since[d] >= reading.fullAt /\ reading.fullRevision < revision

UsageNamed == UNION {served[d] : d \in Usage!Days} \subseteq consumers

UsageInv ==
    /\ Usage!TypeOK /\ UsageTimes /\ UsageTried /\ UsagePassed /\ UsageRecent
    /\ UsageFull /\ UsageNamed

-----------------------------------------------------------------------------
(* ClaudePluginChannel.                                                    *)
(*                                                                         *)
(* Words go one way: they can be claimed (Open), are claimed (InHand) and   *)
(* are submitted, and no file, mark or word of the app's leads back.       *)

\* The plugin may still claim the words.
Open(w) ==
    \/ prompt[w].state = "waiting"
    \/ w \in plugin.pending
    \/ plugin.step = "claim" /\ plugin.word = w

\* It has claimed them, and not submitted them yet.
InHand(w) == plugin.step \in {"recheck", "submit", "give up"} /\ plugin.word = w

\* What the app was told, or would read, that words are done with.
Final == {"started", "refused", "cancelled"}

OneWord(w) ==
    /\ submitted[w] \in {0, 1}
    /\ at[w] = 0 =>
          /\ prompt[w] = Claude!Absent /\ told[w] = "nothing" /\ submitted[w] = 0
          /\ ~Open(w) /\ ~InHand(w) /\ w \notin underway
    /\ Open(w) \/ InHand(w) =>
          submitted[w] = 0 /\ told[w] \notin Final /\ w \notin underway
    /\ Open(w) => ~InHand(w) /\ prompt[w].state \in {"waiting", "absent"}
    /\ InHand(w) => prompt[w].state \in {"taken", "absent"}
    /\ w \in underway => submitted[w] = 1 /\ prompt[w].state \in {"taken", "absent"}
    /\ prompt[w].state \in {"cancelled", "taken back", "expired"} => submitted[w] = 0
    /\ prompt[w].state \in {"started", "refused"} => submitted[w] = 1
    /\ told[w] = "cancelled" => submitted[w] = 0
    /\ told[w] \in {"started", "refused"} => submitted[w] = 1

ClaudePass ==
    /\ plugin.step \in {"none", "idle"} => plugin.pending = {} /\ plugin.word = Claude!NoWord
    /\ plugin.step = "each" => plugin.word = Claude!NoWord
    /\ plugin.step \notin {"none", "idle", "each"} =>
          plugin.word \in Words /\ plugin.word \notin plugin.pending
    /\ (plugin.step # "none" \/ \E w \in Words : submitted[w] # 0) => loads > 0

ClaudeInv == Claude!TypeOK /\ ClaudePass /\ \A w \in Words : OneWord(w)

-----------------------------------------------------------------------------
(* CliSettings.                                                            *)
(*                                                                         *)
(* A request writes only what it planned, and plans only from what a file   *)
(* held; a file it has not touched, or has put back, is as its client left *)
(* it (Untouched).                                                         *)

\* The files the request may have written and not put back.
Written(n) == {call.edits[i].path : i \in {j \in 1..Len(call.edits) : j <= n}}
Touched ==
    CASE call.step \in {"apply", "write"} -> Written(call.next - 1)
      [] call.step \in {"undo", "put back"} -> Written(call.next) \cup call.todo
      [] OTHER -> {}

SettingsSaves ==
    /\ \A p \in Paths : file[p].save <= saves /\ expected[p].save <= saves
    /\ \A i \in 1..Len(call.edits) : call.edits[i].original.save <= saves

\* An edit changes whether the callback is installed, and nothing else; where
\* the client has not saved since, it is of the file as the client left it.
SettingsEdits ==
    \A i \in 1..Len(call.edits) :
        LET e == call.edits[i]
        IN  /\ e.updated.line = e.original.line /\ e.updated.save = e.original.save
            /\ e.path \notin raced /\ expected[e.path].save = e.original.save =>
                  expected[e.path] = e.original

\* The step the request is at, and the edit it is about to write.
SettingsStep ==
    /\ call.step \in {"apply", "write"} => call.next > 0
    /\ call.step = "apply" => call.next <= Len(call.edits) + 1
    /\ call.step = "undo" => call.next <= Len(call.edits)
    /\ call.step \in {"write", "put back"} => call.next \in 1..Len(call.edits)
    /\ call.step = "write" =>
          LET e == call.edits[call.next]
          IN  e.path \in raced \/ file[e.path] = e.original
    /\ call.step = "put back" =>
          LET e == call.edits[call.next]
          IN  e.path \in raced \/ file[e.path] = e.updated

SettingsStay ==
    \A p \in Paths \ raced : file[p].line = expected[p].line /\ file[p].save = expected[p].save

SettingsUntouched == \A p \in Paths \ raced : p \notin Touched => file[p] = expected[p]

SettingsInv ==
    /\ Settings!TypeOK /\ SettingsSaves /\ SettingsEdits /\ SettingsStep
    /\ SettingsStay /\ SettingsUntouched

-----------------------------------------------------------------------------
(* HostMailbox.                                                            *)
(*                                                                         *)
(* What the worker has, or has drawn, that is not so is still on its way:  *)
(* its owner owes a wake, the mailbox says so, or the worker is at work on *)
(* it.                                                                     *)

\* The worker is at one of the steps with the bit among what it took.
Doing(steps, bit) == drawer.step \in steps /\ bit \in drawer.bits
\* What the windows would show of what the worker has.
Shown == [f \in Host!Windows |-> drawer.has[f]]
\* They do, or some window could not be drawn.
WindowsDone == "windows" \in amiss \/ drawn.windows = Shown

HostMail ==
    /\ \A f \in owed : facts[f] # 0
    /\ "snapshot" \notin owed =>
          /\ mailbox.snapshot \in {0, facts["snapshot"]}
          /\ "SNAPSHOT" \notin mailbox.bits => drawer.has["snapshot"] = facts["snapshot"]
          /\ "SNAPSHOT" \in mailbox.bits => mailbox.snapshot # 0
    /\ mailbox.snapshot # 0 =>
          /\ mailbox.bits # {}
          /\ mailbox.snapshot # drawer.has["snapshot"] => "SNAPSHOT" \in mailbox.bits
    /\ "light" \notin owed =>
          /\ mailbox.light \in {0, facts["light"]}
          /\ "APPEARANCE" \notin mailbox.bits => drawer.has["light"] = facts["light"]
          /\ "APPEARANCE" \in mailbox.bits => mailbox.light # 0
    /\ mailbox.light # 0 => "APPEARANCE" \in mailbox.bits

HostFacts ==
    /\ drawer.has["view"] # facts["view"] =>
          "view" \in owed \/ "DISPLAY" \in mailbox.bits \/ Doing({"measure", "view"}, "DISPLAY")
    /\ drawer.has["screens"] # facts["screens"] /\ "screens" \notin amiss =>
          "screens" \in owed \/ "SCREENS" \in mailbox.bits \/ Doing({"measure"}, "SCREENS")
    /\ drawer.has["notice"] # facts["notice"] \/ drawn.notice # facts["notice"] =>
          \/ "notice" \in owed \/ "UPDATE" \in mailbox.bits
          \/ Doing({"measure", "view", "apply", "notice"}, "UPDATE")

HostDrawn ==
    /\ drawer.step = "off" /\ ~mailbox.stopped =>
          drawer.has = Host!Nil /\ {"DISPLAY", "SCREENS"} \subseteq mailbox.bits
    /\ drawer.step \in {"wait", "notice", "menu"} =>
          "DISPLAY" \in mailbox.bits \/ WindowsDone
    /\ drawer.step \in {"measure", "view", "apply"} =>
          \/ "DISPLAY" \in mailbox.bits \/ drawer.bits \cap Host!WindowBits # {}
          \/ WindowsDone
    /\ drawer.step \in {"off", "wait"} => drawer.bits = {}
    /\ drawer.step # "off" /\ drawer.has["snapshot"] # 0 /\ drawn.menu # drawer.has =>
          \/ "menu" \in amiss \/ owed # {} \/ mailbox.bits # {} \/ drawer.bits # {}

HostInv == Host!TypeOK /\ HostMail /\ HostFacts /\ HostDrawn

-----------------------------------------------------------------------------
(* AccountReadings.                                                        *)

\* A reading whose sign-in or homes are no longer those there are will be
\* followed by another.
ReadingsAgain ==
    /\ reader.step = "read" /\ reader.sign # sign => control.force
    /\ reader.step \in {"begun", "read"} /\ reader.homes # control.homes => control.force

\* The worker sleeps no longer than until a reading is due, unless it is woken.
ReadingsSlept ==
    reader.step = "asleep" /\ ~reader.woken /\ ~unheard /\ minute < reader.until
    /\ control.enabled => Readings!DueAfter >= reader.until - minute

ReadingsPast == entry.attempted <= minute /\ reader.attempted <= minute

ReadingsInv ==
    /\ Readings!TypeOK /\ ReadingsAgain /\ ReadingsSlept /\ ReadingsPast
    /\ Readings!ShownIsCurrent

-----------------------------------------------------------------------------
(* ConversationFeed.                                                       *)
(*                                                                         *)
(* A delivery looks at the position and the gap, and neither says what the *)
(* store holds.  The store holds the line its position names (Ends), so    *)
(* that what it lacks above what it holds lies before the position; and    *)
(* while a gap is noted every read begins where the position is            *)
(* (Followed), so that no second span has to be noted beside it.           *)

\* A read that is still to be handed over reaches what the ledger has.
FeedPending == batch # Feed!Nil => batch.from < batch.to /\ batch.to = offset

\* What core knows of the store is what the store says.
FeedPositions == known \in {Feed!NotLoaded, store.position} /\ store.position <= offset

\* The store holds the last line it says it knows, and none after it.
FeedEnds ==
    /\ store.held \subseteq 1..store.position
    /\ 1 \in starts /\ store.position > 0 => store.position \in store.held

FeedSpanned == gap # Feed!Nil => gap.from < gap.to /\ gap.to <= offset /\ Feed!Named

\* While a gap is noted, and none was lost, reads follow one another and the
\* store has each.
FeedFollowed ==
    gap # Feed!Nil /\ ~failed /\ 1 \in starts /\ store.position > 0 =>
        /\ gap.from \in store.held
        /\ known # Feed!NotLoaded
        /\ store.position = IF batch = Feed!Nil THEN offset ELSE batch.from

FeedInv ==
    /\ Feed!TypeOK /\ FeedPending /\ FeedPositions /\ FeedEnds /\ FeedSpanned
    /\ FeedFollowed /\ Feed!HolesAreNoted
-----------------------------------------------------------------------------
(* RequestSnapshots.                                                       *)
(*                                                                         *)
(* Both properties speak of the moments at which the collector rests.  In  *)
(* between, a render reads the queue several times while cards come and    *)
(* go, so the invariant says what each of its reads can have missed        *)
(* (SnapsTimed, SnapsListed) and why the due time it leaves is early       *)
(* enough for that (SnapsDated, SnapsWoken).                               *)

\* A card the HUD shows and that is gone, or one that waits and it does not show.
SnapsMissed(t) == (t \in shown) # (t \in pending)

\* Cards past their deadline leave before a render lists what waits.
SnapsTimed ==
    turn \in {"listing", "keying", "dating"} => \A t \in pending : time < deadline[t]

\* A card that came or went since it was listed did so in the same turn.
SnapsListed ==
    turn \in {"keying", "dating"} =>
        \A t \in Tickets : (t \in listed) # (t \in pending) => changed[t] = time

\* The due time kept with the last render's key is early enough for all that
\* the key does not tell: what the render missed, and the deadlines.
SnapsDated ==
    turn \in {"none", "checking"} /\ ~revised =>
        /\ \A t \in pending : lastDue <= deadline[t]
        /\ \A t \in Tickets : SnapsMissed(t) => lastDue <= changed[t] + Safety

\* So is the time of the collector's next turn, unless it will be woken.
SnapsWoken ==
    turn = "none" /\ ~requested =>
        /\ \A t \in pending : client[t] = "pushed" \/ dueAt <= deadline[t]
        /\ \A t \in Tickets : SnapsMissed(t) =>
               client[t] \in {"pushed", "removed"} \/ dueAt <= changed[t] + Safety

\* A render for the window leaves the collector a turn of its own.
SnapsTurnFollows ==
    /\ byUser /\ turn # "none" => requested
    /\ turn = "checking" => ~byUser

SnapsInv ==
    /\ Snaps!TypeOK /\ SnapsTimed /\ SnapsListed /\ SnapsDated /\ SnapsWoken
    /\ SnapsTurnFollows

-----------------------------------------------------------------------------
(* PhoneShare: every step keeps its invariant.                             *)

\* What the parts of the share's type say of the commands.
LEMMA ShareTypes ==
    ASSUME Share!TypeOK
    PROVE  /\ saved = [enabled |-> saved.enabled, grants |-> saved.grants]
           /\ saved.enabled \in BOOLEAN /\ saved.grants \in BOOLEAN
           /\ worker = [step |-> worker.step, command |-> worker.command, ok |-> worker.ok,
                        enabled |-> worker.enabled, lan |-> worker.lan]
           /\ worker.step \in {"down", "idle", "take", "save", "answer"}
           /\ worker.command \in Share!Commands
           /\ worker.ok \in BOOLEAN /\ worker.enabled \in BOOLEAN /\ worker.lan \in BOOLEAN
           /\ page = [waits |-> page.waits, told |-> page.told]
           /\ page.waits \in 0..MaxRequests
           /\ page.told \in {"nothing", "on", "off", "revoke"}
           /\ inbox \in Seq(Share!Commands) /\ asked \in Nat /\ asked <= MaxRequests
           /\ \A c \in Share!Commands : c.id \in Nat /\ c.kind \in Share!Kinds \cup {"quit"}
  <1>1. \A c \in Share!Commands : c.id \in Nat /\ c.kind \in Share!Kinds \cup {"quit"}
    BY ShareBounds DEF Share!Commands, Share!Quit
  <1>2. asked \in Nat /\ asked <= MaxRequests  BY ShareBounds DEF Share!TypeOK
  <1> QED BY <1>1, <1>2 DEF Share!TypeOK

\* A launch reads the switch as it was saved.
LEMMA ShareLaunchKeeps == ASSUME ShareInv, Share!Launch PROVE ShareInv'
  <1>1. PICK serves \in BOOLEAN :
           worker' = [Share!NoWorker EXCEPT !.step = "idle", !.enabled = saved.enabled,
                                            !.lan = saved.enabled /\ serves]
    BY DEF Share!Launch
  <1>2. /\ worker'.step = "idle" /\ worker'.command = Share!Quit /\ worker'.enabled = saved.enabled
        /\ worker'.lan = (saved.enabled /\ serves)
        /\ worker' \in [step : {"idle"}, command : {Share!Quit}, ok : BOOLEAN,
                        enabled : BOOLEAN, lan : BOOLEAN]
    BY <1>1, ShareTypes DEF ShareInv, Share!NoWorker
  <1>3. /\ launches' = launches + 1 /\ launches < MaxLaunches
        /\ UNCHANGED <<saved, inbox, page, exit, asked>>
    BY DEF Share!Launch
  <1>4. Share!TypeOK'
    <2>1. launches' \in 0..MaxLaunches  BY <1>3, ShareBounds DEF ShareInv, Share!TypeOK
    <2>2. Share!Quit \in Share!Commands  BY DEF Share!Commands
    <2> QED BY <1>2, <1>3, <2>1, <2>2 DEF ShareInv, Share!TypeOK
  <1>5. ShareInOrder'
    BY <1>2, <1>3, ShareTypes DEF ShareInv, ShareInOrder, ShareBusy, Share!Quit
  <1>6. ShareQuiet' /\ ShareDone' /\ Share!ToldIsKept'
    BY <1>2, <1>3 DEF ShareInv, ShareQuiet, ShareDone, ShareBusy, Share!ToldIsKept
  <1> QED BY <1>4, <1>5, <1>6 DEF ShareInv

\* A new request is the last, and takes back what the page was told before.
LEMMA ShareAskKeeps ==
    ASSUME ShareInv, NEW kind \in Share!Kinds, Share!Ask(kind)
    PROVE  ShareInv'
  <1> DEFINE new == [id |-> asked + 1, kind |-> kind]
  <1>1. /\ page.waits = 0 /\ asked < MaxRequests /\ asked' = asked + 1
        /\ inbox' = Append(inbox, new)
        /\ page' = [waits |-> asked + 1, told |-> IF kind = "invite" THEN page.told ELSE "nothing"]
        /\ UNCHANGED <<saved, worker, exit, launches>>
    BY DEF Share!Ask
  <1>2. new \in Share!Commands /\ new # Share!Quit /\ kind # "quit"
    BY <1>1, ShareTypes, ShareBounds DEF ShareInv, Share!Commands, Share!Kinds, Share!Quit
  <1>3. /\ inbox' \in Seq(Share!Commands) /\ Len(inbox') = Len(inbox) + 1
        /\ \A i \in 1..Len(inbox) : inbox'[i] = inbox[i]
        /\ inbox'[Len(inbox) + 1] = new
    BY <1>1, <1>2, ShareTypes DEF ShareInv
  <1>4. Share!TypeOK'
    <2>1. asked' \in 0..MaxRequests /\ asked + 1 \in 0..MaxRequests
      BY <1>1, ShareTypes, ShareBounds DEF ShareInv
    <2> QED BY <1>1, <1>3, <2>1 DEF ShareInv, Share!TypeOK
  <1>5. ShareInOrder'
    <2>1. asked \in Nat /\ Len(inbox) \in Nat /\ worker.command.id \in Nat
      BY ShareTypes DEF ShareInv
    <2>2. \A i \in 1..Len(inbox) : inbox[i] \in Share!Commands /\ inbox[i].id \in Nat
      BY ShareTypes DEF ShareInv
    <2>3. \A i \in 1..Len(inbox') : i \in 1..Len(inbox) \/ i = Len(inbox) + 1
      BY <1>3, <2>1
    <2>4. page'.waits = asked'  BY <1>1
    <2>5. ASSUME NEW i \in 1..Len(inbox')
          PROVE  /\ inbox'[i].id <= asked'
                 /\ inbox'[i].kind # "quit" => inbox'[i].id > 0
                 /\ inbox'[i].kind # "quit" /\ inbox'[i].id = asked' =>
                       \A j \in 1..Len(inbox') : j > i => inbox'[j].kind = "quit"
      <3> HIDE DEF new
      <3>1. CASE i \in 1..Len(inbox)
        <4>1. inbox'[i] = inbox[i] /\ inbox[i].id <= asked  BY <1>3, <3>1 DEF ShareInv, ShareInOrder
        <4> QED BY <1>1, <2>1, <2>2, <3>1, <4>1 DEF ShareInv, ShareInOrder
      <3>2. CASE i = Len(inbox) + 1
        <4>1. inbox'[i].id = asked + 1  BY <1>3, <3>2 DEF new
        <4> QED BY <1>1, <1>3, <2>1, <3>2, <4>1
      <3> QED BY <2>3, <3>1, <3>2
    <2>6. worker'.command.id < asked'  BY <1>1, <2>1 DEF ShareInv, ShareInOrder
    <2>7. ShareBusy' /\ worker'.command.kind # "quit" => worker'.command.id > 0
      BY <1>1 DEF ShareInv, ShareInOrder, ShareBusy
    <2>8. worker'.command.id <= asked' /\ worker'.command.id # asked'
      BY <1>1, <2>1, <2>6
    <2> HIDE DEF new
    <2> QED BY <2>4, <2>5, <2>7, <2>8 DEF ShareInOrder
  <1>6. ShareQuiet'
    <2> SUFFICES ASSUME page'.told # "nothing"
                 PROVE  /\ \A i \in 1..Len(inbox') : inbox'[i].kind \in Harmless
                        /\ ShareBusy' => worker'.command.kind \in Harmless
      BY DEF ShareQuiet
    <2>1. kind = "invite" /\ page.told # "nothing"  BY <1>1
    <2>2. \A i \in 1..Len(inbox') : i \in 1..Len(inbox) \/ i = Len(inbox) + 1
      BY <1>3, ShareTypes DEF ShareInv
    <2>3. ASSUME NEW i \in 1..Len(inbox') PROVE inbox'[i].kind \in Harmless
      BY <1>3, <2>1, <2>2 DEF ShareInv, ShareQuiet, Harmless
    <2> QED BY <1>1, <2>1, <2>3 DEF ShareInv, ShareQuiet, ShareBusy
  <1>7. ShareDone' /\ Share!ToldIsKept'
    BY <1>1 DEF ShareInv, ShareDone, Share!ToldIsKept
  <1> QED BY <1>4, <1>5, <1>6, <1>7 DEF ShareInv

\* The page may wait no longer at any time.
LEMMA ShareGiveUpKeeps == ASSUME ShareInv, Share!GiveUp PROVE ShareInv'
  <1>1. /\ page' = [waits |-> 0, told |-> page.told]
        /\ UNCHANGED <<saved, worker, inbox, exit, asked, launches>>
    BY ShareTypes DEF Share!GiveUp, ShareInv
  <1>2. Share!TypeOK'
    BY <1>1, ShareTypes, ShareBounds DEF ShareInv, Share!TypeOK
  <1> QED BY <1>1, <1>2 DEF ShareInv, ShareInOrder, ShareQuiet, ShareDone, ShareBusy, Share!ToldIsKept

\* The host's stop comes after every request made before.
LEMMA ShareStopKeeps == ASSUME ShareInv, Share!Stop PROVE ShareInv'
  <1>1. /\ exit' = "waits" /\ inbox' = Append(inbox, Share!Quit)
        /\ UNCHANGED <<saved, worker, page, asked, launches>>
    BY DEF Share!Stop
  <1>2. Share!Quit \in Share!Commands /\ Share!Quit.kind = "quit" /\ Share!Quit.id = 0
    BY DEF Share!Commands, Share!Quit
  <1>3. /\ inbox' \in Seq(Share!Commands) /\ Len(inbox') = Len(inbox) + 1 /\ Len(inbox) \in Nat
        /\ \A i \in 1..Len(inbox) : inbox'[i] = inbox[i]
        /\ inbox'[Len(inbox) + 1] = Share!Quit
        /\ \A i \in 1..Len(inbox') : i \in 1..Len(inbox) \/ i = Len(inbox) + 1
    BY <1>1, <1>2, ShareTypes DEF ShareInv
  <1>4. Share!TypeOK'  BY <1>1, <1>3 DEF ShareInv, Share!TypeOK
  <1>5. ShareInOrder'
    <2>1. ASSUME NEW i \in 1..Len(inbox')
          PROVE  /\ inbox'[i].id <= asked
                 /\ inbox'[i].kind # "quit" => inbox'[i].id > 0
                 /\ inbox'[i].kind # "quit" /\ inbox'[i].id = asked =>
                       \A j \in 1..Len(inbox') : j > i => inbox'[j].kind = "quit"
      <3>1. CASE i \in 1..Len(inbox)
        BY <1>2, <1>3, <3>1 DEF ShareInv, ShareInOrder
      <3>2. CASE i = Len(inbox) + 1
        BY <1>2, <1>3, <3>2, ShareTypes DEF ShareInv
      <3> QED BY <1>3, <3>1, <3>2
    <2>2. ShareBusy /\ worker.command.kind # "quit" /\ worker.command.id = asked =>
              \A i \in 1..Len(inbox') : inbox'[i].kind = "quit"
      BY <1>2, <1>3 DEF ShareInv, ShareInOrder
    <2> QED BY <1>1, <2>1, <2>2 DEF ShareInv, ShareInOrder, ShareBusy
  <1>6. ShareQuiet'
    BY <1>1, <1>2, <1>3 DEF ShareInv, ShareQuiet, ShareBusy, Harmless
  <1>7. ShareDone' /\ Share!ToldIsKept'
    BY <1>1 DEF ShareInv, ShareDone, Share!ToldIsKept
  <1> QED BY <1>4, <1>5, <1>6, <1>7 DEF ShareInv

\* A phone pairs only over a link, which there is not once sharing is off.
LEMMA SharePhonePairsKeeps == ASSUME ShareInv, Share!PhonePairs PROVE ShareInv'
  <1>1. /\ worker.lan /\ saved' = [saved EXCEPT !.grants = TRUE]
        /\ page' = IF page.told = "revoke" THEN [page EXCEPT !.told = "nothing"] ELSE page
        /\ UNCHANGED <<worker, inbox, exit, asked, launches>>
    BY DEF Share!PhonePairs
  <1>2. /\ page'.waits = page.waits /\ page'.told \in {page.told, "nothing"}
        /\ page' \in [waits : 0..MaxRequests, told : {"nothing", "on", "off", "revoke"}]
    BY <1>1 DEF ShareInv, Share!TypeOK
  <1>3. Share!TypeOK'
    <2>1. saved' \in [enabled : BOOLEAN, grants : BOOLEAN]
      BY <1>1 DEF ShareInv, Share!TypeOK
    <2> QED BY <1>1, <1>2, <2>1 DEF ShareInv, Share!TypeOK
  <1>4. ShareInOrder' /\ ShareQuiet'
    BY <1>1, <1>2 DEF ShareInv, ShareInOrder, ShareQuiet, ShareBusy
  <1>5. ShareDone' /\ Share!ToldIsKept'
    <2>1. saved'.enabled = saved.enabled  BY <1>1, ShareTypes DEF ShareInv
    <2> QED BY <1>1, <1>2, <2>1 DEF ShareInv, ShareDone, Share!ToldIsKept
  <1> QED BY <1>3, <1>4, <1>5 DEF ShareInv

\* The app dies, or the thread ends, with what is in its hands and its inbox.
LEMMA ShareEndsKeeps == ASSUME ShareInv, Share!Dies \/ Share!Quits PROVE ShareInv'
  <1>1. /\ worker' = Share!NoWorker /\ inbox' = <<>> /\ exit' = "no"
        /\ page' = [waits |-> 0, told |-> page.told]
        /\ UNCHANGED <<saved, asked, launches>>
    BY ShareTypes DEF Share!Dies, Share!Quits, ShareInv
  <1>2. /\ Share!NoWorker.step = "down" /\ Share!NoWorker.command.id = 0 /\ ~Share!NoWorker.lan
        /\ Share!Quit \in Share!Commands
    BY DEF Share!NoWorker, Share!Quit, Share!Commands
  <1>3. Share!TypeOK'
    BY <1>1, <1>2, ShareTypes, ShareBounds DEF ShareInv, Share!TypeOK, Share!NoWorker
  <1>4. ShareInOrder'
    BY <1>1, <1>2, ShareTypes DEF ShareInv, ShareInOrder, ShareBusy
  <1>5. ShareQuiet' /\ ShareDone' /\ Share!ToldIsKept'
    BY <1>1, <1>2 DEF ShareInv, ShareQuiet, ShareDone, ShareBusy, Share!ToldIsKept
  <1> QED BY <1>3, <1>4, <1>5 DEF ShareInv

\* The thread takes its commands in the order they came.
LEMMA ShareTakeKeeps == ASSUME ShareInv, Share!Take PROVE ShareInv'
  <1>1. /\ inbox # <<>> /\ worker.step = "idle" /\ inbox' = Tail(inbox)
        /\ worker' = [step |-> "take", command |-> Head(inbox), ok |-> worker.ok,
                      enabled |-> worker.enabled, lan |-> worker.lan]
        /\ UNCHANGED <<saved, page, exit, asked, launches>>
    BY ShareTypes DEF Share!Take, ShareInv
  <1>2. /\ inbox' \in Seq(Share!Commands) /\ Len(inbox') = Len(inbox) - 1 /\ Len(inbox) \in Nat
        /\ 1 \in 1..Len(inbox) /\ Head(inbox) = inbox[1] /\ Head(inbox) \in Share!Commands
        /\ \A i \in 1..Len(inbox') : inbox'[i] = inbox[i + 1] /\ i + 1 \in 1..Len(inbox) /\ i + 1 > 1
    BY <1>1, ShareTypes DEF ShareInv
  <1>3. Share!TypeOK'
    BY <1>1, <1>2, ShareTypes DEF ShareInv, Share!TypeOK
  <1>4. ShareInOrder'
    <2>1. ASSUME NEW i \in 1..Len(inbox')
          PROVE  /\ inbox'[i].id <= asked
                 /\ inbox'[i].kind # "quit" => inbox'[i].id > 0
                 /\ inbox'[i].kind # "quit" /\ inbox'[i].id = asked =>
                       \A j \in 1..Len(inbox') : j > i => inbox'[j].kind = "quit"
      <3>1. \A j \in 1..Len(inbox') : j > i => j + 1 > i + 1  BY <1>2
      <3> QED BY <1>2, <3>1 DEF ShareInv, ShareInOrder
    <2>2. /\ inbox[1].id <= asked
          /\ inbox[1].kind # "quit" =>
               /\ inbox[1].id > 0
               /\ inbox[1].id = asked => \A i \in 1..Len(inbox') : inbox'[i].kind = "quit"
      BY <1>2 DEF ShareInv, ShareInOrder
    <2>3. worker'.command = inbox[1]  BY <1>1, <1>2
    <2> QED BY <1>1, <2>1, <2>2, <2>3 DEF ShareInv, ShareInOrder
  <1>5. ShareQuiet'
    BY <1>1, <1>2 DEF ShareInv, ShareQuiet, ShareBusy
  <1>6. ShareDone' /\ Share!ToldIsKept'
    BY <1>1 DEF ShareInv, ShareDone, Share!ToldIsKept
  <1> QED BY <1>3, <1>4, <1>5, <1>6 DEF ShareInv

\* A step of the thread at its command leaves the requests, and those before.
LEMMA ShareWorkKeepsOrder ==
    ASSUME ShareInv, ShareBusy, worker'.command = worker.command,
           UNCHANGED <<inbox, page, asked>>
    PROVE  ShareInOrder' /\ ShareQuiet'
  BY DEF ShareInv, ShareInOrder, ShareQuiet, ShareBusy

\* Turning the link on, or not.
LEMMA ShareTurnOnKeeps == ASSUME ShareInv, Share!TurnOn \/ Share!CannotStart PROVE ShareInv'
  <1>1. worker.step = "take" /\ worker.command.kind = "on"
    BY DEF Share!TurnOn, Share!CannotStart, Share!Taken
  <1>2. UNCHANGED <<inbox, page, exit, asked, launches>>
    BY DEF Share!TurnOn, Share!CannotStart
  <1>3. \/ worker' = [step |-> "save", command |-> worker.command, ok |-> worker.ok,
                      enabled |-> TRUE, lan |-> TRUE]
        \/ worker' = [step |-> "answer", command |-> worker.command, ok |-> FALSE,
                      enabled |-> worker.enabled, lan |-> worker.lan]
    BY ShareTypes DEF Share!TurnOn, Share!CannotStart, Share!Answers, ShareInv
  <1>4. saved' \in [enabled : BOOLEAN, grants : BOOLEAN]
    <2>1. \/ saved' = saved \/ saved' = [saved EXCEPT !.enabled = saved.enabled]
          \/ saved' = [saved EXCEPT !.enabled = worker.enabled]
      BY DEF Share!TurnOn, Share!CannotStart
    <2> QED BY <2>1 DEF ShareInv, Share!TypeOK
  <1>5. page.told \notin {"on", "off"}
    BY <1>1 DEF ShareInv, ShareQuiet, ShareBusy, Harmless
  <1>6. Share!TypeOK'
    <2>1. worker' \in [step : {"down", "idle", "take", "save", "answer"},
                       command : Share!Commands, ok : BOOLEAN, enabled : BOOLEAN, lan : BOOLEAN]
      <3>1. \/ worker' = [worker EXCEPT !.step = "save", !.lan = TRUE, !.enabled = TRUE]
            \/ worker' = [worker EXCEPT !.step = "answer", !.ok = FALSE]
        BY DEF Share!TurnOn, Share!CannotStart, Share!Answers
      <3>2. CASE worker' = [worker EXCEPT !.step = "save", !.lan = TRUE, !.enabled = TRUE]
        BY <3>2 DEF ShareInv, Share!TypeOK
      <3>3. CASE worker' = [worker EXCEPT !.step = "answer", !.ok = FALSE]
        BY <3>3 DEF ShareInv, Share!TypeOK
      <3> QED BY <3>1, <3>2, <3>3
    <2>2. worker'.step # "down"  BY <1>3
    <2> QED BY <1>2, <1>4, <2>1, <2>2 DEF ShareInv, Share!TypeOK
  <1>7. ShareInOrder' /\ ShareQuiet'
    BY <1>1, <1>2, <1>3, ShareWorkKeepsOrder DEF ShareBusy
  <1>8. ShareDone' /\ Share!ToldIsKept'
    BY <1>1, <1>2, <1>3, <1>5 DEF ShareDone, Share!ToldIsKept
  <1> QED BY <1>6, <1>7, <1>8 DEF ShareInv

\* Turning it off: the grants are gone, or the answer is that it failed.
LEMMA ShareTurnOffKeeps == ASSUME ShareInv, Share!TurnOff \/ Share!CannotRevoke PROVE ShareInv'
  <1>1. worker.step = "take" /\ worker.command.kind = "off"
    BY DEF Share!TurnOff, Share!CannotRevoke, Share!Taken
  <1>2. UNCHANGED <<inbox, page, exit, asked, launches>>
    BY DEF Share!TurnOff, Share!CannotRevoke
  <1>3. \/ /\ worker' = [step |-> "save", command |-> worker.command, ok |-> worker.ok,
                         enabled |-> FALSE, lan |-> FALSE]
           /\ saved' = [enabled |-> saved.enabled, grants |-> FALSE]
        \/ /\ worker' = [step |-> "answer", command |-> worker.command, ok |-> FALSE,
                         enabled |-> worker.enabled, lan |-> FALSE]
           /\ saved' = saved
    BY ShareTypes DEF Share!TurnOff, Share!CannotRevoke, ShareInv
  <1>4. page.told \notin {"on", "off"}
    BY <1>1 DEF ShareInv, ShareQuiet, ShareBusy, Harmless
  <1>5. Share!TypeOK'
    <2>1. saved' \in [enabled : BOOLEAN, grants : BOOLEAN]
      <3>1. saved' = saved \/ saved' = [saved EXCEPT !.grants = FALSE]
        BY DEF Share!TurnOff, Share!CannotRevoke
      <3> QED BY <3>1 DEF ShareInv, Share!TypeOK
    <2>2. worker' \in [step : {"down", "idle", "take", "save", "answer"},
                       command : Share!Commands, ok : BOOLEAN, enabled : BOOLEAN, lan : BOOLEAN]
      <3>1. \/ worker' = [worker EXCEPT !.step = "save", !.lan = FALSE, !.enabled = FALSE]
            \/ worker' = [worker EXCEPT !.step = "answer", !.ok = FALSE, !.lan = FALSE]
        BY DEF Share!TurnOff, Share!CannotRevoke
      <3>2. CASE worker' = [worker EXCEPT !.step = "save", !.lan = FALSE, !.enabled = FALSE]
        BY <3>2 DEF ShareInv, Share!TypeOK
      <3>3. CASE worker' = [worker EXCEPT !.step = "answer", !.ok = FALSE, !.lan = FALSE]
        BY <3>3 DEF ShareInv, Share!TypeOK
      <3> QED BY <3>1, <3>2, <3>3
    <2>3. worker'.step # "down"  BY <1>3
    <2> QED BY <1>2, <2>1, <2>2, <2>3 DEF ShareInv, Share!TypeOK
  <1>6. ShareInOrder' /\ ShareQuiet'
    BY <1>1, <1>2, <1>3, ShareWorkKeepsOrder DEF ShareBusy
  <1>7. ShareDone' /\ Share!ToldIsKept'
    BY <1>1, <1>2, <1>3, <1>4 DEF ShareDone, Share!ToldIsKept
  <1> QED BY <1>5, <1>6, <1>7 DEF ShareInv

\* The switch is saved as the command said, or the answer is that it is not.
LEMMA ShareSaveKeeps == ASSUME ShareInv, Share!Save \/ Share!CannotSave PROVE ShareInv'
  <1>1. worker.step = "save" /\ UNCHANGED <<inbox, page, exit, asked, launches>>
    BY DEF Share!Save, Share!CannotSave
  <1>2. PICK ok \in BOOLEAN :
          /\ worker' = [step |-> "answer", command |-> worker.command, ok |-> ok,
                        enabled |-> worker.enabled, lan |-> worker.lan]
          /\ \/ ok /\ saved' = [enabled |-> worker.enabled, grants |-> saved.grants]
             \/ ~ok /\ saved' = saved
    BY ShareTypes DEF Share!Save, Share!CannotSave, Share!Answers, ShareInv
  <1>3. page.told \notin {"on", "off"}
    BY <1>1 DEF ShareInv, ShareQuiet, ShareDone, ShareBusy, Harmless
  <1>4. Share!TypeOK'
    <2>1. saved' \in [enabled : BOOLEAN, grants : BOOLEAN]
      <3>1. saved' = saved \/ saved' = [saved EXCEPT !.enabled = worker.enabled]
        BY DEF Share!Save, Share!CannotSave
      <3>2. worker.enabled \in BOOLEAN  BY ShareTypes DEF ShareInv
      <3>3. CASE saved' = [saved EXCEPT !.enabled = worker.enabled]
        BY <3>2, <3>3 DEF ShareInv, Share!TypeOK
      <3> QED BY <3>1, <3>3 DEF ShareInv, Share!TypeOK
    <2>2. worker' \in [step : {"down", "idle", "take", "save", "answer"},
                       command : Share!Commands, ok : BOOLEAN, enabled : BOOLEAN, lan : BOOLEAN]
      <3>1. \/ worker' = [worker EXCEPT !.step = "answer", !.ok = TRUE]
            \/ worker' = [worker EXCEPT !.step = "answer", !.ok = FALSE]
        BY DEF Share!Save, Share!CannotSave, Share!Answers
      <3> QED BY <3>1 DEF ShareInv, Share!TypeOK
    <2>3. worker'.step # "down"  BY <1>2
    <2> QED BY <1>1, <2>1, <2>2, <2>3 DEF ShareInv, Share!TypeOK
  <1>5. ShareInOrder' /\ ShareQuiet'
    BY <1>1, <1>2, ShareWorkKeepsOrder DEF ShareBusy
  <1>6. ShareDone'
    BY <1>1, <1>2 DEF ShareInv, ShareDone
  <1>7. Share!ToldIsKept'  BY <1>1, <1>3 DEF Share!ToldIsKept
  <1> QED BY <1>4, <1>5, <1>6, <1>7 DEF ShareInv

\* An invitation changes nothing, and a revocation no more than the grants.
LEMMA ShareInviteKeeps == ASSUME ShareInv, Share!Invite \/ Share!Revoke PROVE ShareInv'
  <1>1. /\ worker.step = "take" /\ worker.command.kind \in {"invite", "revoke"}
        /\ UNCHANGED <<inbox, page, exit, asked, launches>>
    BY DEF Share!Invite, Share!Revoke, Share!Taken
  <1>2. \E ok \in BOOLEAN :
          worker' = [step |-> "answer", command |-> worker.command, ok |-> ok,
                     enabled |-> worker.enabled, lan |-> worker.lan]
    BY ShareTypes DEF Share!Invite, Share!Revoke, Share!Answers, ShareInv
  <1>3. \/ saved' = saved
        \/ /\ worker.command.kind = "revoke"
           /\ saved' = [saved EXCEPT !.grants = @ /\ ~worker.lan]
    BY DEF Share!Invite, Share!Revoke, Share!Taken
  <1>4. worker.command.kind = "revoke" => page.told \notin {"on", "off"}
    BY <1>1 DEF ShareInv, ShareQuiet, ShareBusy, Harmless
  <1>5. Share!TypeOK'
    <2>1. saved' \in [enabled : BOOLEAN, grants : BOOLEAN]
      <3>1. (saved.grants /\ ~worker.lan) \in BOOLEAN  OBVIOUS
      <3> QED BY <1>3, <3>1 DEF ShareInv, Share!TypeOK
    <2> QED BY <1>1, <1>2, <2>1, ShareTypes DEF ShareInv, Share!TypeOK
  <1>6. ShareInOrder' /\ ShareQuiet'
    BY <1>1, <1>2, ShareWorkKeepsOrder DEF ShareBusy
  <1>7. ShareDone'  BY <1>1, <1>2 DEF ShareDone
  <1>8. Share!ToldIsKept'
    BY <1>1, <1>2, <1>3, <1>4 DEF ShareInv, Share!ToldIsKept
  <1> QED BY <1>5, <1>6, <1>7, <1>8 DEF ShareInv

\* An answer the page waits for is that of the last request, and is so.
LEMMA ShareAnswerKeeps == ASSUME ShareInv, Share!Answer PROVE ShareInv'
  <1>1. /\ worker.step = "answer"
        /\ worker' = [step |-> "idle", command |-> worker.command, ok |-> worker.ok,
                      enabled |-> worker.enabled, lan |-> worker.lan]
        /\ UNCHANGED <<saved, inbox, exit, asked, launches>>
        /\ page' = IF page.waits # worker.command.id THEN page
                   ELSE [waits |-> 0, told |-> IF worker.ok /\ worker.command.kind # "invite"
                                               THEN worker.command.kind ELSE page.told]
    BY ShareTypes DEF Share!Answer, ShareInv
  <1>2. /\ worker.command.kind \in {"on", "off", "invite", "revoke"}
        /\ worker.command.id > 0
    BY <1>1, ShareTypes DEF ShareInv, ShareDone, ShareInOrder, ShareBusy, Share!Kinds
  <1>3. CASE page' = page
    <2>1. Share!TypeOK'
      BY <1>1, <1>3, ShareTypes DEF ShareInv, Share!TypeOK
    <2>2. ShareInOrder' /\ ShareQuiet' /\ ShareDone' /\ Share!ToldIsKept'
      BY <1>1, <1>3 DEF ShareInv, ShareInOrder, ShareQuiet, ShareDone, ShareBusy, Share!ToldIsKept
    <2> QED BY <2>1, <2>2 DEF ShareInv
  <1>4. CASE page.waits = worker.command.id
    <2>1. /\ page'.waits = 0
          /\ page' = [waits |-> 0, told |-> page'.told]
          /\ \/ page'.told = page.told
             \/ worker.ok /\ page'.told = worker.command.kind /\ worker.command.kind # "invite"
      BY <1>1, <1>4
    <2>2. worker.command.id = asked
      BY <1>2, <1>4, ShareTypes DEF ShareInv, ShareInOrder
    <2>3. \A i \in 1..Len(inbox) : inbox[i].kind = "quit"
      BY <1>1, <1>2, <2>2 DEF ShareInv, ShareInOrder, ShareBusy
    <2>4. Share!TypeOK'
      <3>1. page'.told \in {"nothing", "on", "off", "revoke"}
        BY <1>2, <2>1, ShareTypes DEF ShareInv
      <3>2. page' \in [waits : 0..MaxRequests, told : {"nothing", "on", "off", "revoke"}]
        BY <2>1, <3>1, ShareBounds
      <3> QED BY <1>1, <3>2, ShareTypes DEF ShareInv, Share!TypeOK
    <2>5. ShareInOrder'
      BY <1>1, <2>1 DEF ShareInv, ShareInOrder, ShareBusy
    <2>6. ShareQuiet'
      BY <1>1, <2>3 DEF ShareQuiet, ShareBusy, Harmless
    <2>7. ShareDone'  BY <1>1 DEF ShareDone
    <2>8. Share!ToldIsKept'
      BY <1>1, <2>1 DEF ShareInv, ShareDone, Share!ToldIsKept
    <2> QED BY <2>4, <2>5, <2>6, <2>7, <2>8 DEF ShareInv
  <1> QED BY <1>1, <1>3, <1>4

\* The app starts with sharing off and nobody told of anything.
LEMMA ShareInitHolds == ASSUME Share!Init PROVE ShareInv
  <1>1. Share!TypeOK
    BY ShareBounds DEF Share!Init, Share!TypeOK, Share!NoWorker, Share!Commands, Share!Quit
  <1>2. ShareInOrder
    BY DEF Share!Init, ShareInOrder, ShareBusy, Share!NoWorker, Share!Quit
  <1>3. ShareQuiet /\ ShareDone /\ Share!ToldIsKept
    BY DEF Share!Init, ShareQuiet, ShareDone, ShareBusy, Share!ToldIsKept, Share!NoWorker
  <1> QED BY <1>1, <1>2, <1>3 DEF ShareInv

\* Every step of the share keeps its invariant.
LEMMA ShareNextKeeps == ASSUME ShareInv, Share!Next PROVE ShareInv'
  <1>1. CASE Share!WorkerStep
    BY <1>1, ShareTakeKeeps, ShareTurnOnKeeps, ShareTurnOffKeeps, ShareSaveKeeps,
       ShareInviteKeeps, ShareAnswerKeeps, ShareEndsKeeps DEF Share!WorkerStep
  <1> QED BY <1>1, ShareLaunchKeeps, ShareAskKeeps, ShareGiveUpKeeps, ShareStopKeeps,
             SharePhonePairsKeeps, ShareEndsKeeps DEF Share!Next

\* A step of another leaves it.
LEMMA ShareStays == ASSUME ShareInv, UNCHANGED shareVars PROVE ShareInv'
  BY DEF shareVars, ShareInv, Share!TypeOK, ShareInOrder, ShareQuiet, ShareDone, ShareBusy,
         Share!ToldIsKept

-----------------------------------------------------------------------------
(* PhoneUsage: every step keeps its invariant.                             *)

\* The numbers of the usage's state.
LEMMA UsageTypes ==
    ASSUME Usage!TypeOK
    PROVE  /\ revision \in Nat /\ revision <= MaxRevision
           /\ clock.time \in Nat /\ clock.time >= 1 /\ clock.time <= MaxTime
           /\ clock.day \in Nat /\ clock.day \in Usage!Days
           /\ clock = [time |-> clock.time, day |-> clock.day]
           /\ reading.seeded \in BOOLEAN /\ reading.revision \in Nat /\ reading.tried \in Nat
           /\ reading.fullRevision \in Nat /\ reading.fullAt \in Nat
           /\ reading.tried <= clock.time
           /\ Full \in Nat
           /\ \A d \in Usage!Days : d \in Nat /\ since[d] \in Nat
           /\ MaxTime \in Nat /\ MaxRevision \in Nat /\ Usage!Times = 0..MaxTime
  <1>1. Full \in Nat /\ LastDay \in Nat /\ MaxRevision \in Nat /\ MaxTime \in Nat /\ MaxTime >= 1
    BY UsageBounds
  <1>2. Usage!Days \subseteq Nat /\ 1..MaxTime \subseteq Nat
    BY <1>1 DEF Usage!Days
  <1>3. \A d \in Usage!Days : since[d] \in 1..MaxTime  BY DEF Usage!TypeOK
  <1>4. clock \in [time : 1..MaxTime, day : Usage!Days]  BY DEF Usage!TypeOK
  <1>5. clock.time \in Nat /\ clock.time >= 1 /\ clock.time <= MaxTime  BY <1>1, <1>4
  <1>6. /\ reading.seeded \in BOOLEAN /\ reading.revision \in Nat /\ reading.tried \in Nat
        /\ reading.fullRevision \in Nat /\ reading.fullAt \in Nat
    BY <1>1 DEF Usage!TypeOK, Usage!Times
  <1>7. revision \in Nat /\ revision <= MaxRevision  BY <1>1 DEF Usage!TypeOK
  <1> QED BY <1>1, <1>2, <1>3, <1>4, <1>5, <1>6, <1>7 DEF Usage!TypeOK, Usage!Times

\* What is served late enough, or not at all, is what the property asks.
LEMMA UsageServes == ASSUME UsageInv PROVE Usage!ServedInTime
  <1>1. ASSUME sharing, ready, passed, NEW d \in Usage!Days, d <= clock.day, Differs(d)
        PROVE  Usage!Late(d) < (IF d + 1 >= clock.day THEN 1 ELSE Full + 1)
    <2>1. InTime(d)  BY <1>1 DEF UsageInv, UsagePassed
    <2>2. since[d] \in Nat /\ clock.time \in Nat /\ Full \in Nat  BY UsageTypes DEF UsageInv
    <2> QED BY <2>1, <2>2 DEF InTime, Recent, Usage!Late, Usage!Now
  <1> QED BY <1>1 DEF Usage!ServedInTime, UsageInv, UsageNamed, Differs

\* Work that is counted is new since the last read of its day.
LEMMA UsageCountKeeps ==
    ASSUME UsageInv, NEW day \in Usage!Days, NEW names \in SUBSET Names, Usage!Count(day, names)
    PROVE  UsageInv'
  <1>1. /\ revision < MaxRevision /\ usage' = [usage EXCEPT ![day] = names]
        /\ revision' = revision + 1 /\ since' = [since EXCEPT ![day] = clock.time]
        /\ UNCHANGED <<ready, clock, reading, served, consumers, sharing, passed>>
        /\ day <= clock.day
    BY DEF Usage!Count, Usage!Now
  <1>2. /\ usage' \in [Usage!Days -> SUBSET Names] /\ since' \in [Usage!Days -> 1..MaxTime]
        /\ since'[day] = clock.time
        /\ \A d \in Usage!Days : d # day => since'[d] = since[d] /\ usage'[d] = usage[d]
    BY <1>1, UsageTypes DEF UsageInv, Usage!TypeOK
  <1>3. Usage!TypeOK'
    <2>1. revision' \in 0..MaxRevision  BY <1>1, UsageTypes DEF UsageInv
    <2> QED BY <1>1, <1>2, <2>1 DEF UsageInv, Usage!TypeOK
  <1>4. UsageTimes'
    BY <1>1, <1>2, UsageTypes DEF UsageInv, UsageTimes
  <1>5. ASSUME NEW d \in Usage!Days, Differs(d)'
        PROVE  d = day \/ Differs(d)
    BY <1>1, <1>2, <1>5 DEF Differs
  <1>6. InTime(day)'  BY <1>1, <1>2, UsageTypes DEF UsageInv, InTime, Recent
  <1>7. \A d \in Usage!Days : d # day /\ InTime(d) => InTime(d)'
    BY <1>1, <1>2 DEF InTime, Recent
  <1>8. UsageTried'
    BY <1>1, <1>5, <1>6, <1>7 DEF UsageInv, UsageTried
  <1>9. UsagePassed'
    BY <1>1, <1>5, <1>6, <1>7 DEF UsageInv, UsagePassed
  <1>10. UsageRecent'
    BY <1>1, UsageTypes DEF UsageInv, UsageTimes, UsageRecent
  <1>11. UsageFull'
    <2> SUFFICES ASSUME reading.seeded, NEW d \in Usage!Days, Differs(d)'
                 PROVE  since'[d] >= reading.fullAt /\ reading.fullRevision < revision'
      BY <1>1 DEF UsageFull
    <2>1. reading.fullRevision < revision'
      BY <1>1, UsageTypes DEF UsageInv, UsageTimes
    <2> QED BY <1>2, <1>5, <2>1 DEF UsageInv, UsageTimes, UsageFull
  <1>12. UsageNamed'  BY <1>1 DEF UsageInv, UsageNamed
  <1> QED BY <1>3, <1>4, <1>8, <1>9, <1>10, <1>11, <1>12 DEF UsageInv

\* An interruption of the indexing or of sharing starts the time anew.
LEMMA UsageInterruptedKeeps ==
    ASSUME UsageInv, Usage!Index \/ Usage!Switch
    PROVE  UsageInv'
  <1>1. /\ since' = [d \in Usage!Days |-> clock.time]
        /\ UNCHANGED <<usage, revision, clock, reading, served, consumers, passed>>
    BY DEF Usage!Index, Usage!Switch, Usage!Interrupted, Usage!Now
  <1>2. ready' \in BOOLEAN /\ sharing' \in BOOLEAN
    BY DEF Usage!Index, Usage!Switch, UsageInv, Usage!TypeOK
  <1>3. \A d \in Usage!Days : since'[d] = clock.time /\ InTime(d)'
    BY <1>1, UsageTypes DEF UsageInv, InTime, Recent
  <1>4. Usage!TypeOK'
    <2>1. since' \in [Usage!Days -> 1..MaxTime]  BY <1>1 DEF UsageInv, Usage!TypeOK
    <2> QED BY <1>1, <1>2, <2>1 DEF UsageInv, Usage!TypeOK
  <1>5. UsageTimes'  BY <1>1, <1>3, UsageTypes DEF UsageInv, UsageTimes
  <1>6. UsageTried' /\ UsagePassed'  BY <1>3 DEF UsageTried, UsagePassed
  <1>7. UsageRecent' /\ UsageNamed'
    BY <1>1 DEF UsageInv, UsageRecent, UsageNamed, Recent, Differs
  <1>8. UsageFull'
    BY <1>1, <1>3 DEF UsageInv, UsageTimes, UsageFull, Differs
  <1> QED BY <1>4, <1>5, <1>6, <1>7, <1>8 DEF UsageInv

\* The clock moves once the thread has made its pass; a day may have ended.
LEMMA UsageTimePassesKeeps == ASSUME UsageInv, Usage!TimePasses PROVE UsageInv'
  <1>1. PICK day \in {clock.day, clock.day + 1} \cap Usage!Days :
            clock' = [time |-> clock.time + 1, day |-> day]
    BY DEF Usage!TimePasses, Usage!Now
  <1>2. /\ clock.time < MaxTime /\ passed' = FALSE
        /\ UNCHANGED <<usage, revision, ready, reading, served, consumers, sharing, since>>
    BY DEF Usage!TimePasses, Usage!Now
  <1>3. clock'.time = clock.time + 1 /\ clock'.day >= clock.day /\ clock'.day \in Nat
    BY <1>1, UsageTypes DEF UsageInv
  <1>4. Usage!TypeOK'
    <2>1. clock' \in [time : 1..MaxTime, day : Usage!Days]
      BY <1>1, <1>2, UsageTypes DEF UsageInv
    <2>2. reading.tried <= clock'.time  BY <1>3, UsageTypes DEF UsageInv
    <2> QED BY <1>2, <2>1, <2>2 DEF UsageInv, Usage!TypeOK
  <1>5. UsageTimes'  BY <1>2, <1>3, UsageTypes DEF UsageInv, UsageTimes
  <1>6. UsageTried' /\ UsagePassed'
    BY <1>2, <1>3, UsageTypes DEF UsageInv, UsageTried, UsagePassed
  <1>7. UsageRecent'
    BY <1>2, <1>3, UsageTypes DEF UsageInv, UsageRecent, Recent, Differs
  <1>8. UsageFull' /\ UsageNamed'
    BY <1>2 DEF UsageInv, UsageFull, UsageNamed, Differs
  <1> QED BY <1>4, <1>5, <1>6, <1>7, <1>8 DEF UsageInv

\* A pass that has nothing to read leaves nothing out that is late.
LEMMA UsageNothingDueKeeps == ASSUME UsageInv, Usage!NothingDue PROVE UsageInv'
  <1>1. /\ ~sharing \/ ~Usage!Due
        /\ passed' = TRUE
        /\ UNCHANGED <<usage, revision, ready, clock, reading, served, consumers, sharing, since>>
    BY DEF Usage!NothingDue
  <1>2. Usage!TypeOK'  BY <1>1 DEF UsageInv, Usage!TypeOK
  <1>3. UsageTimes' /\ UsageTried' /\ UsageRecent' /\ UsageFull' /\ UsageNamed'
    BY <1>1 DEF UsageInv, UsageTimes, UsageTried, UsageRecent, UsageFull, UsageNamed,
                InTime, Recent, Differs
  <1>4. UsagePassed'
    <2> SUFFICES ASSUME sharing, ready, NEW d \in Usage!Days, Differs(d) PROVE InTime(d)
      BY <1>1 DEF UsagePassed, InTime, Recent, Differs
    <2>1. CASE reading.tried = clock.time  BY <2>1 DEF UsageInv, UsageTried
    <2>2. CASE reading.tried # clock.time
      <3>1. reading.seeded /\ revision = reading.revision /\ ~Usage!FullDue
        BY <1>1, <2>2, UsageTypes DEF UsageInv, Usage!Due, Usage!Now
      <3>2. ~Recent(d)  BY <3>1 DEF UsageInv, UsageRecent
      <3>3. since[d] >= reading.fullAt /\ reading.fullRevision < revision
        BY <3>1 DEF UsageInv, UsageFull
      <3>4. clock.time - reading.fullAt < Full
        BY <3>1, <3>3, UsageTypes DEF UsageInv, Usage!FullDue, Usage!Now
      <3>5. since[d] \in Nat  BY UsageTypes DEF UsageInv
      <3> QED BY <3>2, <3>3, <3>4, <3>5, UsageTypes DEF UsageInv, InTime
    <2> QED BY <2>1, <2>2
  <1> QED BY <1>2, <1>3, <1>4 DEF UsageInv

\* A read that fails is tried again when the clock has moved.
LEMMA UsageReadFailsKeeps == ASSUME UsageInv, Usage!ReadFails PROVE UsageInv'
  <1>1. /\ ~ready /\ reading' = [reading EXCEPT !.tried = clock.time] /\ passed' = TRUE
        /\ UNCHANGED <<usage, revision, ready, clock, served, consumers, sharing, since>>
    BY DEF Usage!ReadFails, Usage!Now
  <1>2. /\ reading'.tried = clock.time /\ reading'.seeded = reading.seeded
        /\ reading'.revision = reading.revision /\ reading'.fullRevision = reading.fullRevision
        /\ reading'.fullAt = reading.fullAt
    BY <1>1 DEF UsageInv, Usage!TypeOK
  <1>3. Usage!TypeOK'
    <2>1. clock.time \in Usage!Times  BY UsageTypes DEF UsageInv
    <2>2. reading' \in [seeded : BOOLEAN, revision : 0..MaxRevision, tried : Usage!Times,
                        fullRevision : 0..MaxRevision, fullAt : Usage!Times]
      BY <1>1, <2>1 DEF UsageInv, Usage!TypeOK
    <2>3. reading'.tried <= clock.time /\ reading'.fullRevision <= reading'.revision
      BY <1>2, UsageTypes DEF UsageInv, Usage!TypeOK
    <2> QED BY <1>1, <2>2, <2>3 DEF UsageInv, Usage!TypeOK
  <1>4. UsageTimes' /\ UsageRecent' /\ UsageFull' /\ UsageNamed'
    BY <1>1, <1>2 DEF UsageInv, UsageTimes, UsageRecent, UsageFull, UsageNamed, Recent, Differs
  <1>5. UsageTried' /\ UsagePassed'  BY <1>1 DEF UsageTried, UsagePassed
  <1> QED BY <1>3, <1>4, <1>5 DEF UsageInv

\* A read of every day leaves none late, and one of today and yesterday none
\* of these: the others are as late as the last full read allows.
LEMMA UsageReadKeeps == ASSUME UsageInv, Usage!Read PROVE UsageInv'
  <1>1. /\ reading' = [seeded |-> TRUE, revision |-> revision, tried |-> clock.time,
                       fullRevision |-> IF Usage!Whole THEN revision ELSE reading.fullRevision,
                       fullAt |-> IF Usage!Whole THEN clock.time ELSE reading.fullAt]
        /\ served' = [d \in Usage!Days |-> IF d \in Usage!Window THEN usage[d] ELSE served[d]]
        /\ consumers' = Usage!Described /\ passed' = TRUE
        /\ UNCHANGED <<usage, revision, ready, clock, sharing, since>>
    BY DEF Usage!Read, Usage!Now
  <1>2. /\ reading'.seeded = TRUE /\ reading'.revision = revision /\ reading'.tried = clock.time
        /\ Usage!Whole => reading'.fullRevision = revision /\ reading'.fullAt = clock.time
        /\ ~Usage!Whole => /\ reading'.fullRevision = reading.fullRevision
                           /\ reading'.fullAt = reading.fullAt
    BY <1>1
  <1>3. Usage!Window \subseteq Usage!Days
    BY DEF Usage!Window
  <1>4. ASSUME NEW d \in Usage!Days, Differs(d)'
        PROVE  ~Usage!Whole /\ ~Recent(d) /\ Differs(d)
    <2>1. served'[d] = IF d \in Usage!Window THEN usage[d] ELSE served[d]  BY <1>1
    <2>2. d \notin Usage!Window /\ served[d] # usage[d]  BY <1>1, <1>4, <2>1 DEF Differs
    <2> QED BY <2>2 DEF Usage!Window, Recent, Differs
  <1>5. ASSUME NEW d \in Usage!Days, Differs(d)' PROVE InTime(d)'
    <2>1. ~Usage!Whole /\ ~Recent(d) /\ Differs(d)  BY <1>4, <1>5
    <2>2. reading.seeded /\ ~Usage!FullDue  BY <2>1 DEF Usage!Whole
    <2>3. since[d] >= reading.fullAt /\ reading.fullRevision < revision
      BY <2>1, <2>2 DEF UsageInv, UsageFull
    <2>4. clock.time - reading.fullAt < Full
      BY <2>2, <2>3, UsageTypes DEF UsageInv, Usage!FullDue, Usage!Now
    <2>5. since[d] \in Nat  BY UsageTypes DEF UsageInv
    <2> QED BY <1>1, <2>1, <2>3, <2>4, <2>5, UsageTypes DEF UsageInv, InTime, Recent
  <1>6. UNION {usage[d] : d \in Usage!Window} \subseteq Names
    BY <1>3 DEF UsageInv, Usage!TypeOK
  <1>7. Usage!TypeOK'
    <2>1. served' \in [Usage!Days -> SUBSET Names]
      BY <1>1 DEF UsageInv, Usage!TypeOK
    <2>2. consumers' \subseteq Names
      BY <1>1, <1>6 DEF UsageInv, Usage!TypeOK, Usage!Described
    <2>3. reading' \in [seeded : BOOLEAN, revision : 0..MaxRevision, tried : Usage!Times,
                        fullRevision : 0..MaxRevision, fullAt : Usage!Times]
      BY <1>1, UsageTypes DEF UsageInv, Usage!TypeOK
    <2>4. reading'.fullRevision <= reading'.revision /\ reading'.tried <= clock.time
      BY <1>2, UsageTypes DEF UsageInv, UsageTimes
    <2> QED BY <1>1, <2>1, <2>2, <2>3, <2>4 DEF UsageInv, Usage!TypeOK
  <1>8. UsageTimes'
    BY <1>1, <1>2, UsageTypes DEF UsageInv, UsageTimes
  <1>9. UsageTried' /\ UsagePassed'  BY <1>5 DEF UsageTried, UsagePassed
  <1>10. UsageRecent'  BY <1>1, <1>4 DEF UsageRecent, Recent
  <1>11. UsageFull'
    <2> SUFFICES ASSUME NEW d \in Usage!Days, Differs(d)'
                 PROVE  since[d] >= reading'.fullAt /\ reading'.fullRevision < revision
      BY <1>1 DEF UsageFull
    <2>1. ~Usage!Whole /\ Differs(d)  BY <1>4
    <2>2. reading.seeded  BY <2>1 DEF Usage!Whole
    <2> QED BY <1>2, <2>1, <2>2 DEF UsageInv, UsageFull
  <1>12. UsageNamed'
    <2> SUFFICES ASSUME NEW d \in Usage!Days, NEW n \in served'[d] PROVE n \in consumers'
      BY DEF UsageNamed
    <2>1. CASE d \in Usage!Window
      <3>1. n \in usage[d]  BY <1>1, <2>1
      <3> QED BY <1>1, <2>1, <3>1 DEF Usage!Described
    <2>2. CASE d \notin Usage!Window
      <3>1. n \in served[d] /\ ~Usage!Whole  BY <1>1, <2>2 DEF Usage!Window
      <3>2. n \in consumers  BY <3>1 DEF UsageInv, UsageNamed
      <3> QED BY <1>1, <3>1, <3>2 DEF Usage!Described
    <2> QED BY <2>1, <2>2
  <1> QED BY <1>7, <1>8, <1>9, <1>10, <1>11, <1>12 DEF UsageInv

\* Nothing is counted and nothing is served when the thread starts.
LEMMA UsageInitHolds == ASSUME Usage!Init PROVE UsageInv
  <1>1. /\ usage = [d \in Usage!Days |-> {}] /\ served = usage
        /\ clock = [time |-> 1, day |-> 0] /\ since = [d \in Usage!Days |-> 1]
        /\ reading = [seeded |-> FALSE, revision |-> 0, tried |-> 0, fullRevision |-> 0,
                      fullAt |-> 0]
        /\ revision = 0 /\ consumers = {} /\ ready = FALSE /\ sharing = FALSE /\ passed = FALSE
    BY DEF Usage!Init
  <1>2. Usage!TypeOK
    <2>1. 0 \in Usage!Days /\ 0 \in 0..MaxRevision /\ 0 \in Usage!Times /\ 1 \in 1..MaxTime
      BY UsageBounds DEF Usage!Days, Usage!Times
    <2>2. served \in [Usage!Days -> SUBSET Names] /\ since \in [Usage!Days -> 1..MaxTime]
      BY <1>1, <2>1
    <2>3. /\ reading \in [seeded : BOOLEAN, revision : 0..MaxRevision, tried : Usage!Times,
                         fullRevision : 0..MaxRevision, fullAt : Usage!Times]
          /\ clock \in [time : 1..MaxTime, day : Usage!Days]
      BY <1>1, <2>1
    <2>4. reading.tried <= clock.time /\ reading.fullRevision <= reading.revision  BY <1>1
    <2>5. ready \in BOOLEAN /\ sharing \in BOOLEAN /\ passed \in BOOLEAN
          /\ revision \in 0..MaxRevision /\ consumers \subseteq Names
      BY <1>1, <2>1
    <2> QED BY <1>1, <2>2, <2>3, <2>4, <2>5 DEF Usage!TypeOK
  <1>3. UsageTimes /\ UsageTried /\ UsagePassed /\ UsageRecent /\ UsageFull
    BY <1>1 DEF UsageTimes, UsageTried, UsagePassed, UsageRecent, UsageFull
  <1>4. UsageNamed  BY <1>1 DEF UsageNamed
  <1> QED BY <1>2, <1>3, <1>4 DEF UsageInv

\* Every step of the usage keeps its invariant.
LEMMA UsageNextKeeps == ASSUME UsageInv, Usage!Next PROVE UsageInv'
  BY UsageCountKeeps, UsageInterruptedKeeps, UsageTimePassesKeeps, UsageNothingDueKeeps,
     UsageReadFailsKeeps, UsageReadKeeps DEF Usage!Next

\* A step of another leaves it.
LEMMA UsageStays == ASSUME UsageInv, UNCHANGED usageVars PROVE UsageInv'
  BY DEF usageVars, UsageInv, Usage!TypeOK, UsageTimes, UsageTried, UsagePassed, UsageRecent,
         UsageFull, UsageNamed, InTime, Recent, Differs

-----------------------------------------------------------------------------
(* ClaudePluginChannel: every step keeps its invariant.                    *)

\* Words none of whose parts change, or that only come further from being
\* claimed, stay as they are.
LEMMA ClaudeWordStays ==
    ASSUME NEW w \in Words, OneWord(w),
           prompt'[w] = prompt[w], at'[w] = at[w], told'[w] = told[w],
           submitted'[w] = submitted[w], w \in underway' => w \in underway,
           Open(w)' => Open(w), InHand(w)' => InHand(w)
    PROVE  OneWord(w)'
  <1> USE DEF OneWord
  <1> HIDE DEF Open, InHand
  <1> QED OBVIOUS

\* What the steps of the app and of the plugin make of the file of one prompt.
LEMMA ClaudeWrites ==
    ASSUME Claude!TypeOK, NEW w \in Words, NEW state \in Claude!States, Claude!Writes(w, state)
    PROVE  /\ prompt' \in [Words -> Claude!Files]
           /\ prompt'[w].state = state /\ prompt'[w] # Claude!Absent
           /\ \A v \in Words : v # w => prompt'[v] = prompt[v]
  <1>1. prompt \in [Words -> Claude!Files] /\ now \in 1..MaxNow  BY DEF Claude!TypeOK
  <1>2. prompt' = [prompt EXCEPT ![w] = [state |-> state, written |-> now]]
    BY DEF Claude!Writes
  <1>3. [state |-> state, written |-> now] \in Claude!Files  BY <1>1 DEF Claude!Files
  <1>4. state # "absent"  BY DEF Claude!States, Claude!Answers
  <1>5. prompt'[w] = [state |-> state, written |-> now]  BY <1>1, <1>2
  <1>6. prompt'[w].state = state  BY <1>5
  <1> QED BY <1>1, <1>2, <1>3, <1>4, <1>6 DEF Claude!Absent

\* The numbers and functions of the channel's state.
LEMMA ClaudeTypes ==
    ASSUME Claude!TypeOK
    PROVE  /\ MaxNow \in Nat /\ MaxLoads \in Nat
           /\ now \in Nat /\ now >= 1 /\ now <= MaxNow /\ now \in 0..MaxNow
           /\ loads \in Nat /\ loads <= MaxLoads
           /\ mark \in [Words -> 0..MaxNow] /\ at \in [Words -> 0..MaxNow]
           /\ told \in [Words -> Claude!Answers \cup {"nothing", "cancel requested"}]
           /\ submitted \in [Words -> 0..MaxLoads]
  <1>1. MaxNow \in Nat /\ MaxLoads \in Nat  BY ClaudeBounds
  <1>2. now \in 1..MaxNow /\ loads \in 0..MaxLoads  BY DEF Claude!TypeOK
  <1>3. /\ mark \in [Words -> 0..MaxNow] /\ at \in [Words -> 0..MaxNow]
        /\ told \in [Words -> Claude!Answers \cup {"nothing", "cancel requested"}]
        /\ submitted \in [Words -> 0..MaxLoads]
    BY DEF Claude!TypeOK
  <1>4. now \in Nat /\ now >= 1 /\ now <= MaxNow /\ now \in 0..MaxNow  BY <1>1, <1>2
  <1>5. loads \in Nat /\ loads <= MaxLoads  BY <1>1, <1>2
  <1> QED BY <1>1, <1>3, <1>4, <1>5

\* Its numbers alone.
LEMMA ClaudeNumbers ==
    ASSUME Claude!TypeOK
    PROVE  /\ MaxNow \in Nat /\ MaxNow >= 1 /\ MaxLoads \in Nat
           /\ now \in Nat /\ now >= 1 /\ now <= MaxNow
           /\ loads \in Nat /\ loads <= MaxLoads
  <1>1. MaxNow \in Nat /\ MaxNow >= 1 /\ MaxLoads \in Nat  BY ClaudeBounds
  <1>2. now \in 1..MaxNow /\ loads \in 0..MaxLoads  BY DEF Claude!TypeOK
  <1> QED BY <1>1, <1>2

\* The clock moves, or a mark is swept.
LEMMA ClaudeTimeKeeps ==
    ASSUME ClaudeInv, Claude!TimePasses \/ \E w \in Words : Claude!SweepMark(w)
    PROVE  ClaudeInv'
  <1>0. Claude!TypeOK  BY DEF ClaudeInv
  <1>1. /\ now' \in 1..MaxNow /\ mark' \in [Words -> 0..MaxNow]
        /\ UNCHANGED <<prompt, at, told, plugin, underway, submitted, loads>>
    <2>1. CASE Claude!TimePasses
      <3>1. now' = now + 1 /\ now < MaxNow /\ mark' = mark
        BY <2>1 DEF Claude!TimePasses
      <3>2. now' \in 1..MaxNow  BY <1>0, <3>1, ClaudeNumbers
      <3> QED BY <1>0, <2>1, <3>1, <3>2 DEF Claude!TimePasses, Claude!TypeOK
    <2>2. ASSUME NEW w \in Words, Claude!SweepMark(w)
          PROVE  mark' \in [Words -> 0..MaxNow] /\ now' = now
                 /\ UNCHANGED <<prompt, at, told, plugin, underway, submitted, loads>>
      <3>1. 0 \in 0..MaxNow  BY <1>0, ClaudeNumbers
      <3>2. mark \in [Words -> 0..MaxNow]  BY <1>0 DEF Claude!TypeOK
      <3> QED BY <2>2, <3>1, <3>2 DEF Claude!SweepMark
    <2>3. now \in 1..MaxNow  BY <1>0 DEF Claude!TypeOK
    <2> QED BY <2>1, <2>2, <2>3
  <1>2. Claude!TypeOK'  BY <1>1 DEF ClaudeInv, Claude!TypeOK
  <1> QED BY <1>1, <1>2 DEF ClaudeInv, ClaudePass, OneWord, Open, InHand

\* Words are left once.
LEMMA ClaudeLeaveKeeps == ASSUME ClaudeInv, NEW w \in Words, Claude!Leave(w) PROVE ClaudeInv'
  <1>1. /\ at[w] = 0 /\ prompt[w] = Claude!Absent /\ Claude!Writes(w, "waiting")
        /\ at' = [at EXCEPT ![w] = now]
        /\ UNCHANGED <<mark, told, plugin, underway, submitted, loads, now>>
    BY DEF Claude!Leave
  <1>2. /\ prompt' \in [Words -> Claude!Files] /\ prompt'[w].state = "waiting"
        /\ \A v \in Words : v # w => prompt'[v] = prompt[v]
    BY <1>1, ClaudeWrites DEF ClaudeInv, Claude!States, Claude!Answers
  <1>3. /\ at'[w] # 0 /\ at' \in [Words -> 0..MaxNow]
        /\ \A v \in Words : v # w => at'[v] = at[v]
    <2>1. Claude!TypeOK  BY DEF ClaudeInv
    <2>2. at \in [Words -> 0..MaxNow]  BY <2>1 DEF Claude!TypeOK
    <2>3. now \in 0..MaxNow /\ now # 0  BY <2>1, ClaudeNumbers
    <2> QED BY <1>1, <2>2, <2>3
  <1>4. Claude!TypeOK'  BY <1>1, <1>2, <1>3 DEF ClaudeInv, Claude!TypeOK
  <1>5. ClaudePass'  BY <1>1 DEF ClaudeInv, ClaudePass
  <1>6. ASSUME NEW v \in Words, v # w PROVE OneWord(v)'
    <2>1. Open(v)' => Open(v)  BY <1>1, <1>2, <1>6 DEF Open
    <2>2. InHand(v)' => InHand(v)  BY <1>1 DEF InHand
    <2>3. OneWord(v)  BY DEF ClaudeInv
    <2> QED BY <1>1, <1>2, <1>3, <1>6, <2>1, <2>2, <2>3, ClaudeWordStays
  <1>7. OneWord(w)'
    <2>1. /\ told[w] = "nothing" /\ submitted[w] = 0 /\ ~InHand(w) /\ w \notin underway
      BY <1>1 DEF ClaudeInv, OneWord
    <2>2. ~InHand(w)'  BY <1>1, <2>1 DEF InHand
    <2> QED BY <1>1, <1>2, <1>3, <2>1, <2>2 DEF OneWord, Final
  <1> QED BY <1>4, <1>5, <1>6, <1>7 DEF ClaudeInv

\* The app is told what the file says.
LEMMA ClaudeLookKeeps == ASSUME ClaudeInv, NEW w \in Words, Claude!Look(w) PROVE ClaudeInv'
  <1>1. /\ prompt[w] # Claude!Absent /\ told' = [told EXCEPT ![w] = Claude!State(w)]
        /\ UNCHANGED <<prompt, mark, at, plugin, underway, submitted, loads, now>>
    BY DEF Claude!Look
  <1>2. prompt[w].state \in Claude!States
    BY <1>1 DEF ClaudeInv, Claude!TypeOK, Claude!Files
  <1>3. /\ Claude!State(w) \in Claude!Answers \cup {"nothing", "cancel requested"}
        /\ Claude!State(w) = "cancelled" => prompt[w].state \in {"cancelled", "taken back"}
        /\ Claude!State(w) \in {"started", "refused"} => prompt[w].state \in {"started", "refused"}
    BY <1>2 DEF Claude!State, Claude!States, Claude!Answers
  <1>4. /\ told'[w] = Claude!State(w) /\ \A v \in Words : v # w => told'[v] = told[v]
        /\ told' \in [Words -> Claude!Answers \cup {"nothing", "cancel requested"}]
    BY <1>1, <1>3 DEF ClaudeInv, Claude!TypeOK
  <1>5. Claude!TypeOK'  BY <1>1, <1>4 DEF ClaudeInv, Claude!TypeOK
  <1>6. ClaudePass'  BY <1>1 DEF ClaudeInv, ClaudePass
  <1>7. \A v \in Words : (Open(v)' <=> Open(v)) /\ (InHand(v)' <=> InHand(v))
    BY <1>1 DEF Open, InHand
  <1>8. ASSUME NEW v \in Words, v # w PROVE OneWord(v)'
    <2>1. OneWord(v)  BY DEF ClaudeInv
    <2> QED BY <1>1, <1>4, <1>7, <1>8, <2>1, ClaudeWordStays
  <1>9. OneWord(w)'
    <2>1. OneWord(w) /\ Claude!Absent.state = "absent"  BY DEF ClaudeInv, Claude!Absent
    <2>2. prompt[w].state # "absent"  BY <1>2 DEF Claude!States, Claude!Answers
    <2> QED BY <1>1, <1>3, <1>4, <1>7, <2>1, <2>2 DEF OneWord, Final
  <1> QED BY <1>5, <1>6, <1>8, <1>9 DEF ClaudeInv

\* A mark says only that to cancel was asked.
LEMMA ClaudeCancelKeeps == ASSUME ClaudeInv, NEW w \in Words, Claude!Cancel(w) PROVE ClaudeInv'
  <1>1. /\ told[w] \in {"waiting", "cancel requested"} /\ mark' = [mark EXCEPT ![w] = now]
        /\ told' = [told EXCEPT ![w] = "cancel requested"]
        /\ UNCHANGED <<prompt, at, plugin, underway, submitted, loads, now>>
    BY DEF Claude!Cancel
  <1>2. /\ told'[w] = "cancel requested" /\ \A v \in Words : v # w => told'[v] = told[v]
        /\ told' \in [Words -> Claude!Answers \cup {"nothing", "cancel requested"}]
        /\ mark' \in [Words -> 0..MaxNow]
    BY <1>1, ClaudeTypes DEF ClaudeInv
  <1>3. Claude!TypeOK'  BY <1>1, <1>2 DEF ClaudeInv, Claude!TypeOK
  <1>4. ClaudePass'  BY <1>1 DEF ClaudeInv, ClaudePass
  <1>5. \A v \in Words : (Open(v)' <=> Open(v)) /\ (InHand(v)' <=> InHand(v))
    BY <1>1 DEF Open, InHand
  <1>6. ASSUME NEW v \in Words, v # w PROVE OneWord(v)'
    <2>1. OneWord(v)  BY DEF ClaudeInv
    <2> QED BY <1>1, <1>2, <1>5, <1>6, <2>1, ClaudeWordStays
  <1>7. OneWord(w)'
    <2>1. OneWord(w)  BY DEF ClaudeInv
    <2> QED BY <1>1, <1>2, <1>5, <2>1 DEF OneWord, Final
  <1> QED BY <1>3, <1>4, <1>6, <1>7 DEF ClaudeInv

\* A prompt that is swept is gone for good: its identity is not used again.
LEMMA ClaudeSweepKeeps == ASSUME ClaudeInv, NEW w \in Words, Claude!Sweep(w) PROVE ClaudeInv'
  <1>1. /\ prompt' = [prompt EXCEPT ![w] = Claude!Absent]
        /\ UNCHANGED <<mark, at, told, plugin, underway, submitted, loads, now>>
    BY DEF Claude!Sweep
  <1>2. /\ prompt' \in [Words -> Claude!Files] /\ prompt'[w] = Claude!Absent
        /\ \A v \in Words : v # w => prompt'[v] = prompt[v]
    BY <1>1 DEF ClaudeInv, Claude!TypeOK, Claude!Files
  <1>3. Claude!TypeOK'  BY <1>1, <1>2 DEF ClaudeInv, Claude!TypeOK
  <1>4. ClaudePass'  BY <1>1 DEF ClaudeInv, ClaudePass
  <1>5. Claude!Absent.state = "absent"  BY DEF Claude!Absent
  <1>6. \A v \in Words : (Open(v)' => Open(v)) /\ (InHand(v)' <=> InHand(v))
    BY <1>1, <1>2, <1>5 DEF Open, InHand
  <1>7. ASSUME NEW v \in Words, v # w PROVE OneWord(v)'
    <2>1. OneWord(v)  BY DEF ClaudeInv
    <2> QED BY <1>1, <1>2, <1>6, <1>7, <2>1, ClaudeWordStays
  <1>8. OneWord(w)'
    <2>1. OneWord(w)  BY DEF ClaudeInv
    <2> QED BY <1>1, <1>2, <1>5, <1>6, <2>1 DEF OneWord
  <1> QED BY <1>3, <1>4, <1>7, <1>8 DEF ClaudeInv

-----------------------------------------------------------------------------
\* The plugin begins anew, reads the folder, or ends its pass: it holds no
\* words that it has not read as waiting.
LEMMA ClaudePassKeeps ==
    ASSUME ClaudeInv, Claude!Load \/ Claude!ReadFolder \/ Claude!EndPass \/ Claude!PassFails
    PROVE  ClaudeInv'
  <1>1. UNCHANGED <<prompt, mark, at, told, submitted, now>> /\ underway' \subseteq underway
    BY DEF Claude!Load, Claude!ReadFolder, Claude!EndPass, Claude!PassFails
  <1>2. /\ loads' \in 0..MaxLoads /\ loads' >= loads
        /\ loads' > 0 \/ (loads' = loads /\ plugin.step # "none")
    <2>1. CASE Claude!Load
      BY <2>1, ClaudeNumbers DEF Claude!Load, ClaudeInv
    <2>2. CASE loads' = loads /\ plugin.step # "none"
      BY <2>2, ClaudeNumbers DEF ClaudeInv
    <2> QED BY <2>1, <2>2 DEF Claude!ReadFolder, Claude!EndPass, Claude!PassFails
  <1>3. \/ plugin' = [step |-> "idle", pending |-> {}, word |-> Claude!NoWord, time |-> 0]
        \/ /\ plugin' = [plugin EXCEPT !.step = "each", !.pending = Claude!Pending]
           /\ plugin.step = "idle"
    BY DEF Claude!Load, Claude!ReadFolder, Claude!EndPass, Claude!PassFails, Claude!NoPlugin
  <1>4. /\ plugin'.step \in {"idle", "each"} /\ plugin'.word = Claude!NoWord
        /\ plugin'.step = "idle" => plugin'.pending = {}
        /\ plugin'.pending \subseteq Claude!Pending
        /\ plugin' \in [step : {"none", "idle", "each", "claim", "recheck", "submit", "give up"},
                        pending : SUBSET Words, word : Words \cup {Claude!NoWord}, time : 0..MaxNow]
    <2>1. Claude!Pending \subseteq Words  BY DEF Claude!Pending
    <2>2. CASE plugin' = [step |-> "idle", pending |-> {}, word |-> Claude!NoWord, time |-> 0]
      BY <2>2, ClaudeBounds
    <2>3. CASE /\ plugin' = [plugin EXCEPT !.step = "each", !.pending = Claude!Pending]
               /\ plugin.step = "idle"
      BY <2>1, <2>3 DEF ClaudeInv, Claude!TypeOK, ClaudePass
    <2> QED BY <1>3, <2>2, <2>3
  <1>5. Claude!TypeOK'  BY <1>1, <1>2, <1>4 DEF ClaudeInv, Claude!TypeOK
  <1>6. ClaudePass'
    <2>1. loads' > 0  BY <1>2, ClaudeTypes DEF ClaudeInv, ClaudePass
    <2> QED BY <1>4, <2>1 DEF ClaudePass
  <1>7. ASSUME NEW w \in Words PROVE OneWord(w)'
    <2>1. Open(w)' => Open(w)  BY <1>1, <1>4 DEF Open, Claude!Pending
    <2>2. ~InHand(w)'  BY <1>4 DEF InHand
    <2>3. OneWord(w)  BY DEF ClaudeInv
    <2> QED BY <1>1, <2>1, <2>2, <2>3, ClaudeWordStays
  <1> QED BY <1>5, <1>6, <1>7 DEF ClaudeInv

\* The next of the pass is taken from what was read.
LEMMA ClaudeTakeKeeps == ASSUME ClaudeInv, NEW w \in Words, Claude!Take(w) PROVE ClaudeInv'
  <1>1. /\ plugin.step = "each" /\ w \in plugin.pending
        /\ plugin' = [step |-> "claim", pending |-> plugin.pending \ {w}, word |-> w, time |-> now]
        /\ UNCHANGED <<prompt, mark, at, told, underway, submitted, loads, now>>
    BY DEF Claude!Take
  <1>2. Claude!TypeOK'
    <2>1. plugin.pending \subseteq Words /\ now \in 0..MaxNow
      BY ClaudeTypes DEF ClaudeInv, Claude!TypeOK
    <2> QED BY <1>1, <2>1 DEF ClaudeInv, Claude!TypeOK
  <1>3. ClaudePass'  BY <1>1 DEF ClaudeInv, ClaudePass
  <1>4. ASSUME NEW v \in Words PROVE OneWord(v)'
    <2>1. Open(v)' => Open(v)  BY <1>1 DEF Open
    <2>2. ~InHand(v)'  BY <1>1 DEF InHand
    <2>3. OneWord(v)  BY DEF ClaudeInv
    <2> QED BY <1>1, <2>1, <2>2, <2>3, ClaudeWordStays
  <1> QED BY <1>2, <1>3, <1>4 DEF ClaudeInv

\* How the plugin goes on from the words it has in its hands.
LEMMA ClaudeGoesOn ==
    ASSUME ClaudeInv, plugin.step \in {"claim", "recheck", "submit", "give up"}, Claude!Passes
    PROVE  /\ plugin' \in [step : {"none", "idle", "each", "claim", "recheck", "submit", "give up"},
                           pending : SUBSET Words, word : Words \cup {Claude!NoWord},
                           time : 0..MaxNow]
           /\ plugin'.step = "each" /\ plugin'.pending = plugin.pending
           /\ plugin'.word = Claude!NoWord
           /\ loads > 0
           /\ \A v \in Words : (Open(v)' => Open(v) \/ prompt'[v].state = "waiting") /\ ~InHand(v)'
  <1>1. plugin' = [plugin EXCEPT !.step = "each", !.word = Claude!NoWord, !.time = 0]
    BY DEF Claude!Passes
  <1>2. /\ plugin'.step = "each" /\ plugin'.pending = plugin.pending
        /\ plugin'.word = Claude!NoWord
    BY <1>1 DEF ClaudeInv, Claude!TypeOK
  <1>3. plugin' \in [step : {"none", "idle", "each", "claim", "recheck", "submit", "give up"},
                     pending : SUBSET Words, word : Words \cup {Claude!NoWord}, time : 0..MaxNow]
    <2>1. Claude!TypeOK  BY DEF ClaudeInv
    <2>2. 0 \in 0..MaxNow  BY ONLY ClaudeBounds
    <2> QED BY <1>1, <2>1, <2>2 DEF Claude!TypeOK
  <1>4. loads > 0  BY DEF ClaudeInv, ClaudePass
  <1> QED BY <1>2, <1>3, <1>4 DEF Open, InHand

\* Words that are taken back or have expired are closed without being claimed.
LEMMA ClaudeCloseKeeps ==
    ASSUME ClaudeInv, NEW w \in Words, Claude!TakeBack(w) \/ Claude!Expire(w)
    PROVE  ClaudeInv'
  <1>1. /\ plugin.step = "claim" /\ plugin.word = w /\ Claude!Passes
        /\ UNCHANGED <<mark, at, told, underway, submitted, loads, now>>
    BY DEF Claude!TakeBack, Claude!Expire
  <1>2. PICK state \in {"taken back", "expired"} : Claude!Writes(w, state)
    BY DEF Claude!TakeBack, Claude!Expire
  <1>3. /\ prompt' \in [Words -> Claude!Files] /\ prompt'[w].state = state
        /\ \A v \in Words : v # w => prompt'[v] = prompt[v]
    BY <1>2, ClaudeWrites DEF ClaudeInv, Claude!States, Claude!Answers
  <1>4. /\ plugin' \in [step : {"none", "idle", "each", "claim", "recheck", "submit", "give up"},
                        pending : SUBSET Words, word : Words \cup {Claude!NoWord}, time : 0..MaxNow]
        /\ plugin'.step = "each" /\ plugin'.pending = plugin.pending
        /\ plugin'.word = Claude!NoWord /\ loads > 0
        /\ \A v \in Words : (Open(v)' => Open(v) \/ prompt'[v].state = "waiting") /\ ~InHand(v)'
    BY <1>1, ClaudeGoesOn
  <1>5. Claude!TypeOK'  BY <1>1, <1>3, <1>4 DEF ClaudeInv, Claude!TypeOK
  <1>6. ClaudePass'  BY <1>1, <1>4 DEF ClaudePass
  <1>7. ASSUME NEW v \in Words, v # w PROVE OneWord(v)'
    <2>1. Open(v)' => Open(v)
      <3>1. prompt'[v].state = "waiting" => Open(v)  BY <1>3, <1>7 DEF Open
      <3> QED BY <1>4, <3>1
    <2>2. OneWord(v)  BY DEF ClaudeInv
    <2> QED BY <1>1, <1>3, <1>4, <1>7, <2>1, <2>2, ClaudeWordStays
  <1>8. OneWord(w)'
    <2>1. Open(w) /\ OneWord(w) /\ w \notin plugin.pending
      BY <1>1 DEF Open, ClaudeInv, ClaudePass
    <2>2. ~Open(w)'  BY <1>3, <1>4, <2>1 DEF Open
    <2> QED BY <1>1, <1>3, <1>4, <2>1, <2>2 DEF OneWord
  <1> QED BY <1>5, <1>6, <1>7, <1>8 DEF ClaudeInv

\* Words that are claimed are no longer open, to this pass or another.
LEMMA ClaudeClaimKeeps == ASSUME ClaudeInv, NEW w \in Words, Claude!Claim(w) PROVE ClaudeInv'
  <1>1. /\ plugin.step = "claim" /\ plugin.word = w /\ Claude!Writes(w, "taken")
        /\ plugin' = [plugin EXCEPT !.step = "recheck"]
        /\ UNCHANGED <<mark, at, told, underway, submitted, loads, now>>
    BY DEF Claude!Claim
  <1>2. /\ prompt' \in [Words -> Claude!Files] /\ prompt'[w].state = "taken"
        /\ \A v \in Words : v # w => prompt'[v] = prompt[v]
    BY <1>1, ClaudeWrites DEF ClaudeInv, Claude!States, Claude!Answers
  <1>3. /\ plugin'.step = "recheck" /\ plugin'.pending = plugin.pending /\ plugin'.word = w
        /\ w \notin plugin.pending
    BY <1>1 DEF ClaudeInv, Claude!TypeOK, ClaudePass
  <1>4. Claude!TypeOK'  BY <1>1, <1>2 DEF ClaudeInv, Claude!TypeOK
  <1>5. ClaudePass'  BY <1>1, <1>3 DEF ClaudeInv, ClaudePass
  <1>6. ASSUME NEW v \in Words, v # w PROVE OneWord(v)'
    <2>1. Open(v)' => Open(v)  BY <1>2, <1>3, <1>6 DEF Open
    <2>2. ~InHand(v)'  BY <1>3, <1>6 DEF InHand
    <2>3. OneWord(v)  BY DEF ClaudeInv
    <2> QED BY <1>1, <1>2, <1>6, <2>1, <2>2, <2>3, ClaudeWordStays
  <1>7. OneWord(w)'
    <2>1. Open(w) /\ OneWord(w)  BY <1>1 DEF Open, ClaudeInv
    <2>2. ~Open(w)'  BY <1>2, <1>3 DEF Open
    <2> QED BY <1>1, <1>2, <2>1, <2>2 DEF OneWord
  <1> QED BY <1>4, <1>5, <1>6, <1>7 DEF ClaudeInv

\* The plugin looks for a mark once more.
LEMMA ClaudeRecheckKeeps == ASSUME ClaudeInv, NEW w \in Words, Claude!Recheck(w) PROVE ClaudeInv'
  <1>1. /\ plugin.step = "recheck" /\ plugin.word = w
        /\ plugin' = [plugin EXCEPT !.step = IF mark[w] # 0 THEN "give up" ELSE "submit"]
        /\ UNCHANGED <<prompt, mark, at, told, underway, submitted, loads, now>>
    BY DEF Claude!Recheck
  <1>2. /\ plugin'.step \in {"give up", "submit"} /\ plugin'.pending = plugin.pending
        /\ plugin'.word = w
    BY <1>1 DEF ClaudeInv, Claude!TypeOK
  <1>3. Claude!TypeOK'  BY <1>1 DEF ClaudeInv, Claude!TypeOK
  <1>4. ClaudePass'  BY <1>1, <1>2 DEF ClaudeInv, ClaudePass
  <1>5. ASSUME NEW v \in Words PROVE OneWord(v)'
    <2>1. Open(v)' => Open(v)  BY <1>1, <1>2 DEF Open
    <2>2. InHand(v)' => InHand(v)  BY <1>1, <1>2 DEF InHand
    <2>3. OneWord(v)  BY DEF ClaudeInv
    <2> QED BY <1>1, <2>1, <2>2, <2>3, ClaudeWordStays
  <1> QED BY <1>3, <1>4, <1>5 DEF ClaudeInv

\* Words that are given up are never submitted.
LEMMA ClaudeGiveUpKeeps == ASSUME ClaudeInv, NEW w \in Words, Claude!GiveUp(w) PROVE ClaudeInv'
  <1>1. /\ plugin.step = "give up" /\ plugin.word = w /\ Claude!Passes
        /\ Claude!Writes(w, "cancelled") \/ prompt' = prompt
        /\ UNCHANGED <<mark, at, told, underway, submitted, loads, now>>
    BY DEF Claude!GiveUp
  <1>2. /\ prompt' \in [Words -> Claude!Files]
        /\ prompt'[w] = prompt[w] \/ prompt'[w].state = "cancelled"
        /\ \A v \in Words : v # w => prompt'[v] = prompt[v]
    BY <1>1, ClaudeWrites DEF ClaudeInv, Claude!TypeOK, Claude!States, Claude!Answers
  <1>3. /\ plugin' \in [step : {"none", "idle", "each", "claim", "recheck", "submit", "give up"},
                        pending : SUBSET Words, word : Words \cup {Claude!NoWord}, time : 0..MaxNow]
        /\ plugin'.step = "each" /\ plugin'.pending = plugin.pending
        /\ plugin'.word = Claude!NoWord /\ loads > 0
        /\ \A v \in Words : (Open(v)' => Open(v) \/ prompt'[v].state = "waiting") /\ ~InHand(v)'
    BY <1>1, ClaudeGoesOn
  <1>4. Claude!TypeOK'  BY <1>1, <1>2, <1>3 DEF ClaudeInv, Claude!TypeOK
  <1>5. ClaudePass'  BY <1>1, <1>3 DEF ClaudePass
  <1>6. ASSUME NEW v \in Words, v # w PROVE OneWord(v)'
    <2>1. Open(v)' => Open(v)
      <3>1. prompt'[v].state = "waiting" => Open(v)  BY <1>2, <1>6 DEF Open
      <3> QED BY <1>3, <3>1
    <2>2. OneWord(v)  BY DEF ClaudeInv
    <2> QED BY <1>1, <1>2, <1>3, <1>6, <2>1, <2>2, ClaudeWordStays
  <1>7. OneWord(w)'
    <2>1. InHand(w) /\ OneWord(w)  BY <1>1 DEF InHand, ClaudeInv
    <2>2. ~Open(w)'
      <3>1. ~Open(w)  BY <2>1 DEF OneWord
      <3>2. prompt'[w].state # "waiting"  BY <1>2, <2>1 DEF OneWord
      <3> QED BY <1>3, <3>1, <3>2
    <2> QED BY <1>1, <1>2, <1>3, <2>1, <2>2 DEF OneWord
  <1> QED BY <1>4, <1>5, <1>6, <1>7 DEF ClaudeInv

\* Words that were claimed are submitted, once.
LEMMA ClaudeSubmitKeeps == ASSUME ClaudeInv, NEW w \in Words, Claude!Submit(w) PROVE ClaudeInv'
  <1>1. /\ plugin.step = "submit" /\ plugin.word = w /\ Claude!Passes
        /\ submitted' = [submitted EXCEPT ![w] = @ + 1] /\ underway' = underway \cup {w}
        /\ UNCHANGED <<prompt, mark, at, told, loads, now>>
    BY DEF Claude!Submit
  <1>2. /\ plugin' \in [step : {"none", "idle", "each", "claim", "recheck", "submit", "give up"},
                        pending : SUBSET Words, word : Words \cup {Claude!NoWord}, time : 0..MaxNow]
        /\ plugin'.step = "each" /\ plugin'.pending = plugin.pending
        /\ plugin'.word = Claude!NoWord /\ loads > 0
        /\ \A v \in Words : (Open(v)' => Open(v) \/ prompt'[v].state = "waiting") /\ ~InHand(v)'
    BY <1>1, ClaudeGoesOn
  <1>3. InHand(w) /\ OneWord(w)  BY <1>1 DEF InHand, ClaudeInv
  <1>4. /\ submitted[w] = 0 /\ submitted'[w] = 1
        /\ \A v \in Words : v # w => submitted'[v] = submitted[v]
    <2>1. submitted[w] = 0  BY <1>3 DEF OneWord
    <2>2. submitted \in [Words -> 0..MaxLoads]  BY DEF ClaudeInv, Claude!TypeOK
    <2> QED BY <1>1, <2>1, <2>2
  <1>5. Claude!TypeOK'
    <2>0. Claude!TypeOK  BY DEF ClaudeInv
    <2>1. 1 \in 0..MaxLoads
      <3>1. loads > 0 /\ loads \in Nat /\ loads <= MaxLoads /\ MaxLoads \in Nat
        BY <1>2, <2>0, ClaudeNumbers
      <3> QED BY ONLY <3>1
    <2>2. submitted' \in [Words -> 0..MaxLoads]
      BY <1>1, <1>4, <2>1 DEF ClaudeInv, Claude!TypeOK
    <2> QED BY <1>1, <1>2, <2>2 DEF ClaudeInv, Claude!TypeOK
  <1>6. ClaudePass'  BY <1>1, <1>2 DEF ClaudePass
  <1>7. ASSUME NEW v \in Words, v # w PROVE OneWord(v)'
    <2>1. Open(v)' => Open(v)
      <3>1. prompt'[v].state = "waiting" => Open(v)  BY <1>1 DEF Open
      <3> QED BY <1>2, <3>1
    <2>2. OneWord(v)  BY DEF ClaudeInv
    <2> QED BY <1>1, <1>2, <1>4, <1>7, <2>1, <2>2, ClaudeWordStays
  <1>8. OneWord(w)'
    <2>1. ~Open(w)'
      <3>1. ~Open(w)  BY <1>3 DEF OneWord
      <3>2. prompt'[w].state # "waiting"  BY <1>1, <1>3 DEF OneWord
      <3> QED BY <1>2, <3>1, <3>2
    <2> QED BY <1>1, <1>2, <1>3, <1>4, <2>1 DEF OneWord, Final
  <1> QED BY <1>5, <1>6, <1>7, <1>8 DEF ClaudeInv

\* What became of words that were submitted is noted, or is not.
LEMMA ClaudeBecameKeeps == ASSUME ClaudeInv, NEW w \in Words, Claude!Became(w) PROVE ClaudeInv'
  <1>1. /\ w \in underway /\ underway' = underway \ {w}
        /\ Claude!Writes(w, "started") \/ Claude!Writes(w, "refused") \/ prompt' = prompt
        /\ UNCHANGED <<mark, at, told, plugin, submitted, loads, now>>
    BY DEF Claude!Became
  <1>2. /\ prompt' \in [Words -> Claude!Files]
        /\ prompt'[w] = prompt[w] \/ prompt'[w].state \in {"started", "refused"}
        /\ \A v \in Words : v # w => prompt'[v] = prompt[v]
    BY <1>1, ClaudeWrites DEF ClaudeInv, Claude!TypeOK, Claude!States, Claude!Answers
  <1>3. Claude!TypeOK'  BY <1>1, <1>2 DEF ClaudeInv, Claude!TypeOK
  <1>4. ClaudePass'  BY <1>1 DEF ClaudeInv, ClaudePass
  <1>5. ASSUME NEW v \in Words, v # w PROVE OneWord(v)'
    <2>1. Open(v)' => Open(v)  BY <1>1, <1>2, <1>5 DEF Open
    <2>2. InHand(v)' => InHand(v)  BY <1>1 DEF InHand
    <2>3. OneWord(v)  BY DEF ClaudeInv
    <2> QED BY <1>1, <1>2, <1>5, <2>1, <2>2, <2>3, ClaudeWordStays
  <1>6. OneWord(w)'
    <2>1. OneWord(w)  BY DEF ClaudeInv
    <2>2. ~Open(w) /\ ~InHand(w) /\ at[w] # 0 /\ submitted[w] = 1
      BY <1>1, <2>1 DEF OneWord
    <2>3. ~Open(w)' /\ ~InHand(w)'  BY <1>1, <1>2, <2>2 DEF Open, InHand
    <2> QED BY <1>1, <1>2, <2>1, <2>2, <2>3 DEF OneWord
  <1> QED BY <1>3, <1>4, <1>5, <1>6 DEF ClaudeInv

-----------------------------------------------------------------------------
\* Nothing was left and nothing loaded before the app and the session start.
LEMMA ClaudeInitHolds == ASSUME Claude!Init PROVE ClaudeInv
  <1>1. /\ prompt = [w \in Words |-> Claude!Absent]
        /\ mark = [w \in Words |-> 0] /\ at = [w \in Words |-> 0]
        /\ told = [w \in Words |-> "nothing"] /\ plugin = Claude!NoPlugin
        /\ underway = {} /\ submitted = [w \in Words |-> 0] /\ loads = 0 /\ now = 1
    BY DEF Claude!Init
  <1>2. /\ Claude!NoPlugin.step = "none" /\ Claude!NoPlugin.pending = {}
        /\ Claude!NoPlugin.word = Claude!NoWord /\ Claude!Absent.state = "absent"
    BY DEF Claude!NoPlugin, Claude!Absent
  <1>3. Claude!TypeOK
    <2>1. 0 \in 0..MaxNow /\ 0 \in 0..MaxLoads /\ 1 \in 1..MaxNow  BY ClaudeBounds
    <2>2. plugin \in [step : {"none", "idle", "each", "claim", "recheck", "submit", "give up"},
                      pending : SUBSET Words, word : Words \cup {Claude!NoWord}, time : 0..MaxNow]
      BY <1>1, <2>1 DEF Claude!NoPlugin
    <2>3. prompt \in [Words -> Claude!Files]  BY <1>1 DEF Claude!Files
    <2>4. told \in [Words -> Claude!Answers \cup {"nothing", "cancel requested"}]  BY <1>1
    <2> QED BY <1>1, <2>1, <2>2, <2>3, <2>4 DEF Claude!TypeOK
  <1>4. ClaudePass  BY <1>1, <1>2 DEF ClaudePass
  <1>5. ASSUME NEW w \in Words PROVE OneWord(w)
    BY <1>1, <1>2 DEF OneWord, Open, InHand
  <1> QED BY <1>3, <1>4, <1>5 DEF ClaudeInv

\* Every step of the channel keeps its invariant.
LEMMA ClaudeNextKeeps == ASSUME ClaudeInv, Claude!Next PROVE ClaudeInv'
  BY ClaudeTimeKeeps, ClaudeLeaveKeeps, ClaudeLookKeeps, ClaudeCancelKeeps, ClaudeSweepKeeps,
     ClaudePassKeeps, ClaudeTakeKeeps, ClaudeCloseKeeps, ClaudeClaimKeeps, ClaudeRecheckKeeps,
     ClaudeGiveUpKeeps, ClaudeSubmitKeeps, ClaudeBecameKeeps DEF Claude!Next

\* A step of another leaves it.
LEMMA ClaudeStays == ASSUME ClaudeInv, UNCHANGED claudeVars PROVE ClaudeInv'
  BY DEF claudeVars, ClaudeInv, Claude!TypeOK, ClaudePass, OneWord, Open, InHand

\* Words that are once at most submitted are what the property asks.
LEMMA ClaudeOnce == ASSUME ClaudeInv PROVE Claude!WordsOnce
  <1> SUFFICES ASSUME NEW w \in Words
               PROVE  /\ submitted[w] <= 1
                      /\ told[w] = "cancelled" => submitted[w] = 0
                      /\ told[w] \in {"started", "refused"} => submitted[w] = 1
    BY DEF Claude!WordsOnce
  <1>1. OneWord(w)  BY DEF ClaudeInv
  <1>2. submitted[w] \in {0, 1}  BY <1>1 DEF OneWord
  <1>3. submitted[w] <= 1  BY <1>2
  <1>4. told[w] = "cancelled" => submitted[w] = 0  BY <1>1 DEF OneWord
  <1>5. told[w] \in {"started", "refused"} => submitted[w] = 1  BY <1>1 DEF OneWord
  <1> QED BY <1>3, <1>4, <1>5

-----------------------------------------------------------------------------
(* CliSettings: every step keeps its invariant.                            *)

SettingsCalls ==
    [step : {"none", "plan", "apply", "write", "save", "undo", "put back"},
     wanted : SUBSET Paths, todo : SUBSET Paths, edits : Seq(Settings!Edits), next : Nat]

\* The parts of the request under way.
LEMMA SettingsTypes ==
    ASSUME Settings!TypeOK
    PROVE  /\ saves \in Nat /\ MaxSaves \in Nat /\ saves <= MaxSaves
           /\ call \in SettingsCalls /\ call.next \in Nat /\ Len(call.edits) \in Nat
           /\ call.todo \subseteq Paths /\ call.edits \in Seq(Settings!Edits)
           /\ \A i \in 1..Len(call.edits) :
                 /\ call.edits[i] \in Settings!Edits /\ call.edits[i].path \in Paths
                 /\ call.edits[i].original \in Settings!Settings
                 /\ call.edits[i].updated \in Settings!Settings
           /\ \A p \in Paths : file[p] \in Settings!Settings /\ expected[p] \in Settings!Settings
  <1>1. saves \in Nat /\ MaxSaves \in Nat /\ saves <= MaxSaves
    <2>1. saves \in 0..MaxSaves  BY DEF Settings!TypeOK
    <2>2. MaxSaves \in Nat  BY SettingsBounds
    <2> QED BY ONLY <2>1, <2>2
  <1>2. call \in SettingsCalls  BY DEF Settings!TypeOK, SettingsCalls
  <1>3. /\ call.next \in Nat /\ call.todo \subseteq Paths
        /\ call.edits \in Seq(Settings!Edits)
    BY <1>2 DEF SettingsCalls
  <1>4. /\ Len(call.edits) \in Nat
        /\ \A i \in 1..Len(call.edits) : call.edits[i] \in Settings!Edits
    BY <1>3
  <1>5. \A e \in Settings!Edits : /\ e.path \in Paths /\ e.original \in Settings!Settings
                                  /\ e.updated \in Settings!Settings
    BY DEF Settings!Edits
  <1>6. \A p \in Paths : file[p] \in Settings!Settings /\ expected[p] \in Settings!Settings
    BY DEF Settings!TypeOK
  <1> QED BY <1>1, <1>2, <1>3, <1>4, <1>5, <1>6

\* A request begins with no edits.
LEMMA SettingsNone == <<>> \in Seq(Settings!Edits)
  OBVIOUS

\* A settings file is its three parts.
LEMMA SettingsSame ==
    ASSUME NEW a \in Settings!Settings, NEW b \in Settings!Settings,
           a.line = b.line, a.ours = b.ours, a.save = b.save
    PROVE  a = b
  BY DEF Settings!Settings

\* The files written grow by one with each edit.
LEMMA SettingsWritten ==
    ASSUME Settings!TypeOK
    PROVE  /\ Written(0) = {}
           /\ \A n \in 1..Len(call.edits) :
                 Written(n) = Written(n - 1) \cup {call.edits[n].path}
           /\ \A n \in Nat :
                 Written(n) \subseteq {call.edits[i].path : i \in 1..Len(call.edits)}
  <1>1. Len(call.edits) \in Nat  BY SettingsTypes
  <1>2. Written(0) = {}  BY <1>1 DEF Written
  <1>3. ASSUME NEW n \in 1..Len(call.edits)
        PROVE  Written(n) = Written(n - 1) \cup {call.edits[n].path}
    <2>1. {j \in 1..Len(call.edits) : j <= n} = {j \in 1..Len(call.edits) : j <= n - 1} \cup {n}
      BY <1>1
    <2> QED BY <2>1 DEF Written
  <1>4. \A n \in Nat : Written(n) \subseteq {call.edits[i].path : i \in 1..Len(call.edits)}
    BY DEF Written
  <1> QED BY <1>2, <1>3, <1>4

\* Where the step is, these are the files it may have touched.
LEMMA SettingsTouched ==
    /\ call.step \in {"apply", "write"} => Touched = Written(call.next - 1)
    /\ call.step \in {"undo", "put back"} => Touched = Written(call.next) \cup call.todo
    /\ call.step \in {"none", "plan"} => Touched = {}
  BY DEF Touched

\* The client saves a file: it is as the client left it, and no edit that is
\* planned is of it any more.
LEMMA SettingsClientKeeps ==
    ASSUME SettingsInv, NEW p \in Paths, NEW line \in Lines, NEW ours \in {"no", "yes", "changed"},
           Settings!ClientSaves(p, line, ours)
    PROVE  SettingsInv'
  <1>0. Settings!TypeOK  BY DEF SettingsInv
  <1> DEFINE new == [line |-> line, ours |-> ours, save |-> saves + 1]
  <1>1. /\ saves < MaxSaves /\ file' = [file EXCEPT ![p] = new]
        /\ expected' = [expected EXCEPT ![p] = file'[p]] /\ saves' = saves + 1
        /\ raced' = IF call.step \in {"write", "put back"} /\ call.edits[call.next].path = p
                    THEN raced \cup {p} ELSE raced \ {p}
        /\ UNCHANGED <<connected, call, answered, calls>>
    BY DEF Settings!ClientSaves
  <1>2. saves' \in 0..MaxSaves /\ saves' = saves + 1 /\ saves \in Nat
    <2>1. saves \in Nat /\ MaxSaves \in Nat  BY <1>0, SettingsTypes
    <2>2. saves < MaxSaves /\ saves' = saves + 1  BY <1>1
    <2> QED BY ONLY <2>1, <2>2
  <1>3. new \in Settings!Settings /\ new.save = saves + 1
    BY <1>1, <1>2 DEF Settings!Settings
  <1> HIDE DEF new
  <1>4. /\ file' \in [Paths -> Settings!Settings] /\ expected' \in [Paths -> Settings!Settings]
        /\ file'[p] = new /\ expected'[p] = new
        /\ \A q \in Paths : q # p => file'[q] = file[q] /\ expected'[q] = expected[q]
    BY <1>0, <1>1, <1>3 DEF Settings!TypeOK
  <1>5. \A q \in Paths : q # p => (q \in raced' <=> q \in raced)  BY <1>1
  <1>6. Settings!TypeOK'
    <2>1. raced' \subseteq Paths  BY <1>0, <1>1 DEF Settings!TypeOK
    <2> QED BY <1>0, <1>1, <1>2, <1>4, <2>1 DEF Settings!TypeOK
  <1>7. SettingsSaves'
    <2>1. ASSUME NEW q \in Paths PROVE file'[q].save <= saves' /\ expected'[q].save <= saves'
      <3>1. CASE q = p  BY <1>2, <1>3, <1>4, <3>1
      <3>2. CASE q # p
        <4>1. file[q].save <= saves /\ expected[q].save <= saves
          BY DEF SettingsInv, SettingsSaves
        <4>2. file[q].save \in Nat /\ expected[q].save \in Nat
          BY <1>0, SettingsTypes DEF Settings!Settings
        <4> QED BY <1>2, <1>4, <3>2, <4>1, <4>2
      <3> QED BY <3>1, <3>2
    <2>2. ASSUME NEW i \in 1..Len(call.edits) PROVE call.edits[i].original.save <= saves'
      <3>1. call.edits[i].original.save <= saves  BY DEF SettingsInv, SettingsSaves
      <3>2. call.edits[i].original.save \in Nat
        BY <1>0, SettingsTypes DEF Settings!Settings
      <3> QED BY <1>2, <3>1, <3>2
    <2> QED BY <1>1, <2>1, <2>2 DEF SettingsSaves
  <1>8. SettingsEdits'
    <2>1. ASSUME NEW i \in 1..Len(call.edits)
          PROVE  LET e == call.edits[i]
                 IN  /\ e.updated.line = e.original.line /\ e.updated.save = e.original.save
                     /\ e.path \notin raced' /\ expected'[e.path].save = e.original.save =>
                           expected'[e.path] = e.original
      <3>1. LET e == call.edits[i]
            IN  /\ e.updated.line = e.original.line /\ e.updated.save = e.original.save
                /\ e.path \notin raced /\ expected[e.path].save = e.original.save =>
                      expected[e.path] = e.original
        BY DEF SettingsInv, SettingsEdits
      <3>2. CASE call.edits[i].path = p
        <4>1. call.edits[i].original.save <= saves  BY DEF SettingsInv, SettingsSaves
        <4>2. call.edits[i].original.save # saves + 1  BY <1>2, <4>1
        <4> QED BY <1>3, <1>4, <3>1, <3>2, <4>2
      <3>3. CASE call.edits[i].path # p
        <4>1. call.edits[i].path \in Paths  BY <1>0, SettingsTypes
        <4> QED BY <1>4, <1>5, <3>1, <3>3, <4>1
      <3> QED BY <3>2, <3>3
    <2> QED BY <1>1, <2>1 DEF SettingsEdits
  <1>9. SettingsStep'
    <2>1. ASSUME call.step \in {"write", "put back"}
          PROVE  LET e == call.edits[call.next]
                 IN  /\ e.path \in raced => e.path \in raced'
                     /\ e.path \in raced' \/ file'[e.path] = file[e.path]
      <3>1. call.next \in 1..Len(call.edits)  BY <2>1 DEF SettingsInv, SettingsStep
      <3>2. call.edits[call.next].path \in Paths  BY <1>0, <3>1, SettingsTypes
      <3>3. CASE call.edits[call.next].path = p  BY <1>1, <2>1, <3>3
      <3>4. CASE call.edits[call.next].path # p  BY <1>4, <1>5, <3>2, <3>4
      <3> QED BY <3>3, <3>4
    <2> QED BY <1>1, <2>1 DEF SettingsInv, SettingsStep
  <1>10. SettingsStay'  BY <1>4, <1>5 DEF SettingsInv, SettingsStay
  <1>11. SettingsUntouched'
    <2>1. Touched' = Touched  BY <1>1 DEF Touched, Written
    <2> QED BY <1>4, <1>5, <2>1 DEF SettingsInv, SettingsUntouched
  <1> QED BY <1>6, <1>7, <1>8, <1>9, <1>10, <1>11 DEF SettingsInv

\* A step that moves the request on, and touches no file.
LEMMA SettingsMovesKeep ==
    ASSUME SettingsInv, UNCHANGED <<file, connected, answered, expected, raced, saves, calls>>,
           call' \in SettingsCalls, call'.edits = call.edits, call'.next <= Len(call.edits) + 1,
           SettingsStep', Touched \subseteq Touched'
    PROVE  SettingsInv'
  <1>1. Settings!TypeOK'  BY DEF SettingsInv, Settings!TypeOK, SettingsCalls
  <1>2. SettingsSaves' /\ SettingsEdits'  BY DEF SettingsInv, SettingsSaves, SettingsEdits
  <1>3. SettingsStay'  BY DEF SettingsInv, SettingsStay
  <1>4. SettingsUntouched'  BY DEF SettingsInv, SettingsUntouched
  <1> QED BY <1>1, <1>2, <1>3, <1>4 DEF SettingsInv

\* The request begins, with nothing planned.
LEMMA SettingsCallKeeps ==
    ASSUME SettingsInv, NEW wanted \in SUBSET Paths, Settings!Call(wanted)
    PROVE  SettingsInv'
  <1>1. /\ call.step = "none" /\ calls < MaxCalls /\ calls' = calls + 1
        /\ call' = [step |-> "plan", wanted |-> wanted, todo |-> connected \cup wanted,
                    edits |-> <<>>, next |-> 0]
        /\ answered' = "nothing" /\ UNCHANGED <<file, connected, expected, raced, saves>>
    BY DEF Settings!Call, Settings!NoCall
  <1>2. Settings!TypeOK'
    <2>0. Settings!TypeOK  BY DEF SettingsInv
    <2>1. calls' \in 0..MaxCalls
      <3>1. calls \in 0..MaxCalls /\ MaxCalls \in Nat
        BY <2>0, SettingsBounds DEF Settings!TypeOK
      <3>2. calls < MaxCalls /\ calls' = calls + 1  BY <1>1
      <3> QED BY ONLY <3>1, <3>2
    <2>2. call' \in SettingsCalls
      <3>1. <<>> \in Seq(Settings!Edits)  OBVIOUS
      <3>2. connected \cup wanted \in SUBSET Paths  BY <2>0 DEF Settings!TypeOK
      <3> QED BY <1>1, <3>1, <3>2 DEF SettingsCalls
    <2>3. call'.next <= Len(call'.edits) + 1
      <3>1. call'.next = 0 /\ Len(call'.edits) = 0  BY <1>1
      <3> QED BY <3>1
    <2> QED BY <1>1, <2>0, <2>1, <2>2, <2>3 DEF Settings!TypeOK, SettingsCalls
  <1>3. call'.step = "plan" /\ Len(call'.edits) = 0  BY <1>1
  <1>4. SettingsSaves' /\ SettingsEdits' /\ SettingsStep'
    BY <1>1, <1>3 DEF SettingsInv, SettingsSaves, SettingsEdits, SettingsStep
  <1>5. Touched = {}  BY <1>1 DEF Touched
  <1>6. SettingsStay' /\ SettingsUntouched'
    BY <1>1, <1>5 DEF SettingsInv, SettingsStay, SettingsUntouched
  <1> QED BY <1>2, <1>4, <1>6 DEF SettingsInv

\* An edit is planned from what the file holds.
LEMMA SettingsPlanKeeps ==
    ASSUME SettingsInv, NEW p \in Paths, Settings!PlanFile(p)
    PROVE  SettingsInv'
  <1>0. Settings!TypeOK  BY DEF SettingsInv
  <1>1. call.step = "plan" /\ UNCHANGED <<file, connected, answered, expected, raced, saves, calls>>
    BY DEF Settings!PlanFile
  <1>2. PICK new \in Settings!Edited(p, p \in call.wanted) :
          call' = [call EXCEPT !.todo = @ \ {p},
                     !.edits = IF new = file[p] THEN @
                               ELSE Append(@, [path |-> p, original |-> file[p], updated |-> new])]
    BY DEF Settings!PlanFile
  <1> DEFINE edit == [path |-> p, original |-> file[p], updated |-> new]
             edits == IF new = file[p] THEN call.edits ELSE Append(call.edits, edit)
  <1>3. /\ new \in Settings!Settings /\ new.line = file[p].line /\ new.save = file[p].save
    <2>1. file[p] \in Settings!Settings  BY <1>0, SettingsTypes
    <2> QED BY <1>2, <2>1 DEF Settings!Edited, Settings!Settings
  <1>4. edit \in Settings!Edits
    <2>1. file[p] \in Settings!Settings  BY <1>0, SettingsTypes
    <2> QED BY <1>3, <2>1 DEF Settings!Edits
  <1>5. edits \in Seq(Settings!Edits) /\ Len(edits) >= Len(call.edits) /\ Len(edits) \in Nat
    <2>1. call.edits \in Seq(Settings!Edits)  BY <1>0, SettingsTypes
    <2> QED BY <1>4, <2>1
  <1>6. \A i \in 1..Len(edits) : (i \in 1..Len(call.edits) /\ edits[i] = call.edits[i])
                                 \/ edits[i] = edit
    <2>1. call.edits \in Seq(Settings!Edits)  BY <1>0, SettingsTypes
    <2> QED BY <1>4, <2>1
  <1>7. call' \in SettingsCalls /\ call'.edits = edits /\ call'.step = "plan" /\ call'.next = call.next
    <2>1. call \in SettingsCalls  BY <1>0, SettingsTypes
    <2>2. call' = [call EXCEPT !.todo = call.todo \ {p}, !.edits = edits]  BY <1>2
    <2> HIDE DEF edits
    <2> QED BY <1>1, <1>5, <2>1, <2>2 DEF SettingsCalls
  <1>8. /\ file[p].save <= saves
        /\ p \notin raced /\ expected[p].save = file[p].save => expected[p] = file[p]
    <2>1. Touched = {}  BY <1>1 DEF Touched
    <2> QED BY <2>1 DEF SettingsInv, SettingsSaves, SettingsUntouched
  <1>9. edit.path = p /\ edit.original = file[p] /\ edit.updated = new  OBVIOUS
  <1> HIDE DEF edit, edits
  <1>10. Settings!TypeOK'
    <2>1. call.next <= Len(call.edits) + 1 /\ call.next \in Nat /\ Len(call.edits) \in Nat
      BY <1>0, SettingsTypes DEF Settings!TypeOK
    <2>2. call'.next <= Len(call'.edits) + 1  BY <1>5, <1>7, <2>1
    <2> QED BY <1>0, <1>1, <1>7, <2>2 DEF Settings!TypeOK, SettingsCalls
  <1>11. SettingsSaves'
    BY <1>1, <1>6, <1>7, <1>8, <1>9 DEF SettingsInv, SettingsSaves
  <1>12. SettingsEdits'
    <2>1. ASSUME NEW i \in 1..Len(edits)
          PROVE  LET e == edits[i]
                 IN  /\ e.updated.line = e.original.line /\ e.updated.save = e.original.save
                     /\ e.path \notin raced /\ expected[e.path].save = e.original.save =>
                           expected[e.path] = e.original
      <3>1. CASE edits[i] = edit  BY <1>3, <1>8, <1>9, <3>1
      <3>2. CASE i \in 1..Len(call.edits) /\ edits[i] = call.edits[i]
        BY <3>2 DEF SettingsInv, SettingsEdits
      <3> QED BY <1>6, <3>1, <3>2
    <2> QED BY <1>1, <1>7, <2>1 DEF SettingsEdits
  <1>13. SettingsStep'  BY <1>7 DEF SettingsStep
  <1>14. SettingsStay' /\ SettingsUntouched'
    <2>1. Touched = {}  BY <1>1 DEF Touched
    <2> QED BY <1>1, <2>1 DEF SettingsInv, SettingsStay, SettingsUntouched
  <1> QED BY <1>10, <1>11, <1>12, <1>13, <1>14 DEF SettingsInv

-----------------------------------------------------------------------------
\* The step that is next is another, and the rest of the request stays.
LEMMA SettingsMoved ==
    ASSUME Settings!TypeOK, NEW step \in {"plan", "apply", "write", "undo", "put back"},
           NEW next \in Nat, NEW todo \in SUBSET Paths,
           call' = [call EXCEPT !.step = step, !.next = next, !.todo = todo]
    PROVE  /\ call' \in SettingsCalls /\ call'.step = step /\ call'.next = next
           /\ call'.todo = todo /\ call'.edits = call.edits
           /\ \A n \in Nat : Written(n)' = Written(n)
  <1>1. call \in SettingsCalls  BY SettingsTypes
  <1>2. /\ call' \in SettingsCalls /\ call'.step = step /\ call'.next = next
        /\ call'.todo = todo /\ call'.edits = call.edits
    BY <1>1 DEF SettingsCalls
  <1> QED BY <1>2 DEF Written

\* All is planned; or the file of an edit is as it was when it was planned.
LEMMA SettingsApplyKeeps ==
    ASSUME SettingsInv, Settings!Planned \/ Settings!CheckEdit
    PROVE  SettingsInv'
  <1>0. /\ Settings!TypeOK /\ call.next \in Nat /\ call.todo \in SUBSET Paths
        /\ Len(call.edits) \in Nat /\ call \in SettingsCalls
    BY SettingsTypes DEF SettingsInv
  <1>1. UNCHANGED <<file, connected, answered, expected, raced, saves, calls>>
    BY DEF Settings!Planned, Settings!CheckEdit
  <1>2. CASE Settings!Planned
    <2>1. call.step = "plan" /\ call' = [call EXCEPT !.step = "apply", !.next = 1, !.todo = call.todo]
      BY <1>0, <1>2 DEF Settings!Planned, SettingsCalls
    <2>2. /\ call' \in SettingsCalls /\ call'.step = "apply" /\ call'.next = 1
          /\ call'.edits = call.edits
      BY <1>0, <2>1, SettingsMoved
    <2>3. SettingsStep'  BY <1>0, <2>2 DEF SettingsStep
    <2>4. Touched = {}  BY <2>1 DEF Touched
    <2> QED BY <1>0, <1>1, <2>2, <2>3, <2>4, SettingsMovesKeep
  <1>3. CASE Settings!CheckEdit
    <2>1. /\ call.step = "apply" /\ call.next <= Len(call.edits)
          /\ file[call.edits[call.next].path] = call.edits[call.next].original
          /\ call' = [call EXCEPT !.step = "write", !.next = call.next, !.todo = call.todo]
      BY <1>0, <1>3 DEF Settings!CheckEdit, Settings!Edit, SettingsCalls
    <2>2. /\ call' \in SettingsCalls /\ call'.step = "write" /\ call'.next = call.next
          /\ call'.edits = call.edits /\ \A n \in Nat : Written(n)' = Written(n)
      BY <1>0, <2>1, SettingsMoved
    <2>3. call.next > 0  BY <2>1 DEF SettingsInv, SettingsStep
    <2>4. SettingsStep'  BY <1>0, <1>1, <2>1, <2>2, <2>3 DEF SettingsStep
    <2>5. Touched' = Touched
      <3>1. call.next - 1 \in Nat  BY <1>0, <2>3
      <3> QED BY <2>1, <2>2, <3>1 DEF Touched
    <2>6. call'.next <= Len(call.edits) + 1  BY <1>0, <2>1, <2>2
    <2> QED BY <1>1, <2>2, <2>4, <2>5, <2>6, SettingsMovesKeep
  <1> QED BY <1>2, <1>3

\* A failure turns the request around: from here on it puts back what it wrote.
LEMMA SettingsFailKeeps ==
    ASSUME SettingsInv, Settings!EditFails \/ Settings!SaveFails
    PROVE  SettingsInv'
  <1>0. /\ Settings!TypeOK /\ call.next \in Nat /\ call.todo \in SUBSET Paths
        /\ Len(call.edits) \in Nat /\ call \in SettingsCalls
    BY SettingsTypes DEF SettingsInv
  <1>1. UNCHANGED <<file, connected, answered, expected, raced, saves, calls>>
    BY DEF Settings!EditFails, Settings!SaveFails
  <1>2. PICK last \in Nat : /\ call.step \in {"apply", "write"} /\ last = call.next - 1
                            /\ last <= Len(call.edits) /\ Settings!Undoes(last)
    <2>1. call.step \in {"apply", "write"}  BY DEF Settings!EditFails, Settings!SaveFails
    <2>2. /\ call.next > 0 /\ call.next <= Len(call.edits) + 1
          /\ call.step = "write" => call.next <= Len(call.edits)
      <3>1. SettingsStep /\ call.next <= Len(call.edits) + 1
        BY DEF SettingsInv, Settings!TypeOK
      <3>2. call.step = "write" => call.next \in 1..Len(call.edits)  BY <3>1 DEF SettingsStep
      <3>3. call.next > 0  BY <2>1, <3>1 DEF SettingsStep
      <3> QED BY <1>0, <3>1, <3>2, <3>3
    <2>3. call.next - 1 \in Nat  BY <1>0, <2>2
    <2>4. CASE Settings!EditFails
      BY <1>0, <2>1, <2>2, <2>3, <2>4 DEF Settings!EditFails
    <2>5. CASE Settings!SaveFails
      <3>1. call.next > Len(call.edits) /\ Settings!Undoes(Len(call.edits))
        BY <2>5 DEF Settings!SaveFails
      <3>2. Len(call.edits) = call.next - 1  BY <1>0, <2>2, <3>1
      <3> QED BY <1>0, <2>1, <2>3, <3>1, <3>2
    <2> QED BY <2>4, <2>5
  <1>3. call' = [call EXCEPT !.step = "undo", !.next = last, !.todo = call.todo]
    BY <1>0, <1>2 DEF Settings!Undoes, SettingsCalls
  <1>4. /\ call' \in SettingsCalls /\ call'.step = "undo" /\ call'.next = last
        /\ call'.edits = call.edits /\ Written(last)' = Written(last)
    BY <1>0, <1>3, SettingsMoved
  <1>5. SettingsStep'  BY <1>2, <1>4 DEF SettingsStep
  <1>6. Touched \subseteq Touched'
    <2>1. Touched = Written(last)  BY <1>2 DEF Touched
    <2>2. Touched' = Written(last)' \cup call'.todo
      <3>1. Touched' = (Written(call.next) \cup call.todo)'  BY <1>4 DEF Touched
      <3> QED BY <1>4, <3>1 DEF Written
    <2> QED BY <1>4, <2>1, <2>2
  <1>7. call'.next <= Len(call.edits) + 1  BY <1>0, <1>2, <1>4
  <1> QED BY <1>1, <1>4, <1>5, <1>6, <1>7, SettingsMovesKeep

\* An edit is looked at before it is put back, or cannot be put back.
LEMMA SettingsUndoKeeps ==
    ASSUME SettingsInv, Settings!CheckUndo \/ Settings!UndoFails
    PROVE  SettingsInv'
  <1>0. /\ Settings!TypeOK /\ call.next \in Nat /\ call.todo \in SUBSET Paths
        /\ Len(call.edits) \in Nat /\ call \in SettingsCalls
    BY SettingsTypes DEF SettingsInv
  <1>1. UNCHANGED <<file, connected, answered, expected, raced, saves, calls>>
    BY DEF Settings!CheckUndo, Settings!UndoFails
  <1>2. call.next \in 1..Len(call.edits)
    <2>1. call.step \in {"undo", "put back"} /\ call.next > 0
      BY DEF Settings!CheckUndo, Settings!UndoFails
    <2>2. SettingsStep  BY DEF SettingsInv
    <2>3. call.step = "undo" => call.next <= Len(call.edits)  BY <2>2 DEF SettingsStep
    <2>4. call.step = "put back" => call.next \in 1..Len(call.edits)  BY <2>2 DEF SettingsStep
    <2>5. CASE call.step = "undo"
      <3>1. call.next <= Len(call.edits) /\ call.next > 0  BY <2>1, <2>3, <2>5
      <3> QED BY ONLY <1>0, <3>1
    <2> QED BY <2>1, <2>4, <2>5
  <1>3. CASE Settings!CheckUndo
    <2>1. /\ call.step = "undo"
          /\ file[call.edits[call.next].path] = call.edits[call.next].updated
          /\ call' = [call EXCEPT !.step = "put back", !.next = call.next, !.todo = call.todo]
      BY <1>0, <1>3 DEF Settings!CheckUndo, Settings!Edit, SettingsCalls
    <2>2. /\ call' \in SettingsCalls /\ call'.step = "put back" /\ call'.next = call.next
          /\ call'.edits = call.edits /\ call'.todo = call.todo
          /\ \A n \in Nat : Written(n)' = Written(n)
      BY <1>0, <2>1, SettingsMoved
    <2>3. SettingsStep'  BY <1>1, <1>2, <2>1, <2>2 DEF SettingsStep
    <2>4. Touched' = Touched  BY <1>0, <2>1, <2>2 DEF Touched
    <2>5. call.next <= Len(call.edits) + 1  BY ONLY <1>0, <1>2
    <2> QED BY <1>1, <2>2, <2>3, <2>4, <2>5, SettingsMovesKeep
  <1>4. CASE Settings!UndoFails
    <2>1. /\ call.step \in {"undo", "put back"}
          /\ call' = [call EXCEPT !.step = "undo", !.next = call.next - 1,
                                  !.todo = call.todo \cup {call.edits[call.next].path}]
      BY <1>0, <1>4 DEF Settings!UndoFails, Settings!Edit, SettingsCalls
    <2>2. call.next - 1 \in Nat /\ call.edits[call.next].path \in Paths
      BY <1>0, <1>2, SettingsTypes
    <2> DEFINE next == call.next - 1
               todo == call.todo \cup {call.edits[call.next].path}
    <2>3. /\ call' \in SettingsCalls /\ call'.step = "undo" /\ call'.next = next
          /\ call'.edits = call.edits /\ call'.todo = todo
          /\ \A n \in Nat : Written(n)' = Written(n)
      <3>1. next \in Nat /\ todo \in SUBSET Paths  BY <1>0, <2>2
      <3>2. call' = [call EXCEPT !.step = "undo", !.next = next, !.todo = todo]  BY <2>1
      <3> HIDE DEF next, todo
      <3> QED BY <1>0, <3>1, <3>2, SettingsMoved
    <2>4. SettingsStep'  BY <1>0, <1>2, <2>2, <2>3 DEF SettingsStep
    <2>5. Touched \subseteq Touched'
      <3>1. Touched = Written(call.next) \cup call.todo  BY <2>1 DEF Touched
      <3>2. Written(call.next) = Written(next) \cup {call.edits[call.next].path}
        BY <1>0, <1>2, SettingsWritten
      <3>3. Touched' = Written(next) \cup todo
        <4>1. Touched' = (Written(call.next) \cup call.todo)'  BY <2>3 DEF Touched
        <4>2. Written(call.next)' = Written(next)  BY <2>3 DEF Written
        <4> QED BY <2>3, <4>1, <4>2
      <3> QED BY <3>1, <3>2, <3>3
    <2>6. call'.next <= Len(call.edits) + 1  BY <1>0, <1>2, <2>3
    <2> QED BY <1>1, <2>3, <2>4, <2>5, <2>6, SettingsMovesKeep
  <1> QED BY <1>3, <1>4

-----------------------------------------------------------------------------
\* The edit that is checked is written: where the client has not saved in
\* between, the file was as the edit has it.
LEMMA SettingsWriteKeeps == ASSUME SettingsInv, Settings!WriteEdit PROVE SettingsInv'
  <1>0. /\ Settings!TypeOK /\ call.next \in Nat /\ call.todo \in SUBSET Paths
        /\ Len(call.edits) \in Nat /\ call \in SettingsCalls
    BY SettingsTypes DEF SettingsInv
  <1> DEFINE e == call.edits[call.next]
             next == call.next + 1
  <1>1. /\ call.step = "write" /\ file' = [file EXCEPT ![e.path] = e.updated]
        /\ call' = [call EXCEPT !.step = "apply", !.next = next, !.todo = call.todo]
        /\ UNCHANGED <<connected, answered, expected, raced, saves, calls>>
    BY <1>0 DEF Settings!WriteEdit, Settings!Edit, SettingsCalls
  <1>2. call.next \in 1..Len(call.edits) /\ (e.path \in raced \/ file[e.path] = e.original)
    BY <1>1 DEF SettingsInv, SettingsStep
  <1>3. /\ e.path \in Paths /\ e.updated \in Settings!Settings
        /\ e.original \in Settings!Settings
    BY <1>0, <1>2, SettingsTypes
  <1>4. e.updated.line = e.original.line /\ e.updated.save = e.original.save
    BY <1>2 DEF SettingsInv, SettingsEdits
  <1>5. next \in Nat /\ next <= Len(call.edits) + 1 /\ next > 0 /\ next - 1 = call.next
    BY ONLY <1>0, <1>2
  <1>6. e.original.save <= saves  BY <1>2 DEF SettingsInv, SettingsSaves
  <1> HIDE DEF e, next
  <1>7. /\ call' \in SettingsCalls /\ call'.step = "apply" /\ call'.next = next
        /\ call'.edits = call.edits /\ \A n \in Nat : Written(n)' = Written(n)
    BY <1>0, <1>1, <1>5, SettingsMoved
  <1>8. /\ file' \in [Paths -> Settings!Settings] /\ file'[e.path] = e.updated
        /\ \A p \in Paths : p # e.path => file'[p] = file[p]
    BY <1>0, <1>1, <1>3 DEF Settings!TypeOK
  <1>9. Settings!TypeOK'  BY <1>0, <1>1, <1>5, <1>7, <1>8 DEF Settings!TypeOK, SettingsCalls
  <1>10. SettingsSaves'  BY <1>1, <1>4, <1>6, <1>7, <1>8 DEF SettingsInv, SettingsSaves
  <1>11. SettingsEdits'  BY <1>1, <1>7 DEF SettingsInv, SettingsEdits
  <1>12. SettingsStep'  BY <1>5, <1>7 DEF SettingsStep
  <1>13. SettingsStay'
    BY <1>1, <1>2, <1>3, <1>4, <1>8 DEF SettingsInv, SettingsStay
  <1>14. SettingsUntouched'
    <2>1. Touched = Written(call.next - 1)  BY <1>1 DEF Touched
    <2>2. Touched' = Written(call.next)
      <3>1. Touched' = Written(call.next - 1)'  BY <1>7 DEF Touched
      <3>2. Written(call.next - 1)' = Written(next - 1)  BY <1>7 DEF Written
      <3> QED BY <1>5, <3>1, <3>2
    <2>3. Written(call.next) = Written(call.next - 1) \cup {e.path}
      BY <1>0, <1>2, SettingsWritten DEF e
    <2> QED BY <1>1, <1>8, <2>1, <2>2, <2>3 DEF SettingsInv, SettingsUntouched
  <1> QED BY <1>9, <1>10, <1>11, <1>12, <1>13, <1>14 DEF SettingsInv

\* What was written is put back: the file is as its client left it again.
LEMMA SettingsBackKeeps == ASSUME SettingsInv, Settings!PutBack PROVE SettingsInv'
  <1>0. /\ Settings!TypeOK /\ call.next \in Nat /\ call.todo \in SUBSET Paths
        /\ Len(call.edits) \in Nat /\ call \in SettingsCalls
    BY SettingsTypes DEF SettingsInv
  <1> DEFINE e == call.edits[call.next]
             next == call.next - 1
  <1>1. /\ call.step = "put back" /\ file' = [file EXCEPT ![e.path] = e.original]
        /\ call' = [call EXCEPT !.step = "undo", !.next = next, !.todo = call.todo]
        /\ UNCHANGED <<connected, answered, expected, raced, saves, calls>>
    BY <1>0 DEF Settings!PutBack, Settings!Edit, SettingsCalls
  <1>2. call.next \in 1..Len(call.edits) /\ (e.path \in raced \/ file[e.path] = e.updated)
    BY <1>1 DEF SettingsInv, SettingsStep
  <1>3. /\ e.path \in Paths /\ e.updated \in Settings!Settings
        /\ e.original \in Settings!Settings
    BY <1>0, <1>2, SettingsTypes
  <1>4. e.updated.line = e.original.line /\ e.updated.save = e.original.save
    BY <1>2 DEF SettingsInv, SettingsEdits
  <1>5. next \in Nat /\ next <= Len(call.edits) /\ next <= Len(call.edits) + 1
    BY ONLY <1>0, <1>2
  <1>6. e.original.save <= saves  BY <1>2 DEF SettingsInv, SettingsSaves
  <1>7. e.path \notin raced => expected[e.path] = e.original
    <2>1. e.path \notin raced => expected[e.path].save = e.original.save
      BY <1>2, <1>3, <1>4 DEF SettingsInv, SettingsStay
    <2> QED BY <1>2, <2>1 DEF SettingsInv, SettingsEdits
  <1>8. Written(call.next) = Written(next) \cup {e.path}
    BY <1>0, <1>2, SettingsWritten
  <1> HIDE DEF e, next
  <1>9. /\ call' \in SettingsCalls /\ call'.step = "undo" /\ call'.next = next
        /\ call'.edits = call.edits /\ call'.todo = call.todo
        /\ \A n \in Nat : Written(n)' = Written(n)
    BY <1>0, <1>1, <1>5, SettingsMoved
  <1>10. /\ file' \in [Paths -> Settings!Settings] /\ file'[e.path] = e.original
         /\ \A p \in Paths : p # e.path => file'[p] = file[p]
    BY <1>0, <1>1, <1>3 DEF Settings!TypeOK
  <1>11. Settings!TypeOK'  BY <1>0, <1>1, <1>5, <1>9, <1>10 DEF Settings!TypeOK, SettingsCalls
  <1>12. SettingsSaves'  BY <1>1, <1>6, <1>9, <1>10 DEF SettingsInv, SettingsSaves
  <1>13. SettingsEdits'
    <2>1. SettingsEdits  BY DEF SettingsInv
    <2>2. call'.edits = call.edits /\ UNCHANGED <<expected, raced>>  BY <1>1, <1>9
    <2> QED BY ONLY <2>1, <2>2 DEF SettingsEdits
  <1>14. SettingsStep'  BY <1>5, <1>9 DEF SettingsStep
  <1>15. SettingsStay'  BY <1>1, <1>3, <1>7, <1>10 DEF SettingsInv, SettingsStay
  <1>16. SettingsUntouched'
    <2>1. Touched = Written(call.next) \cup call.todo  BY <1>1 DEF Touched
    <2>2. Touched' = Written(next) \cup call.todo
      <3>1. Touched' = (Written(call.next) \cup call.todo)'  BY <1>9 DEF Touched
      <3>2. Written(call.next)' = Written(next)  BY <1>9 DEF Written
      <3> QED BY <1>9, <3>1, <3>2
    <2> QED BY <1>1, <1>7, <1>8, <1>10, <2>1, <2>2 DEF SettingsInv, SettingsUntouched
  <1> QED BY <1>11, <1>12, <1>13, <1>14, <1>15, <1>16 DEF SettingsInv

\* What a request says of the files it may have touched is so.
LEMMA SettingsSays ==
    ASSUME SettingsInv, NEW paths \in SUBSET Paths, Touched \subseteq paths, Settings!Says(paths)
    PROVE  /\ expected' \in [Paths -> Settings!Settings]
           /\ \A p \in Paths : expected'[p].line = expected[p].line
                             /\ expected'[p].save = expected[p].save
           /\ \A p \in Paths \ raced : file[p] = expected'[p]
  <1>1. expected' = [p \in Paths |->
                      IF p \in paths THEN [expected[p] EXCEPT !.ours = file[p].ours] ELSE expected[p]]
    BY DEF Settings!Says
  <1>2. \A p \in Paths : file[p] \in Settings!Settings /\ expected[p] \in Settings!Settings
    BY SettingsTypes DEF SettingsInv
  <1>3. ASSUME NEW p \in Paths
        PROVE  /\ expected'[p] \in Settings!Settings
               /\ expected'[p].line = expected[p].line /\ expected'[p].save = expected[p].save
               /\ p \in paths => expected'[p].ours = file[p].ours
               /\ p \notin paths => expected'[p] = expected[p]
    BY <1>1, <1>2 DEF Settings!Settings
  <1>4. ASSUME NEW p \in Paths \ raced PROVE file[p] = expected'[p]
    <2>1. file[p].line = expected[p].line /\ file[p].save = expected[p].save
      BY DEF SettingsInv, SettingsStay
    <2>2. CASE p \in paths  BY <1>2, <1>3, <2>1, <2>2, SettingsSame
    <2>3. CASE p \notin paths
      BY <1>3, <2>3 DEF SettingsInv, SettingsUntouched
    <2> QED BY <2>2, <2>3
  <1> QED BY <1>1, <1>3, <1>4

\* A request ends, and says what is so.
LEMMA SettingsEndKeeps ==
    ASSUME SettingsInv, call' = Settings!NoCall, UNCHANGED <<file, raced, saves, calls>>,
           connected' \subseteq Paths, answered' \in {"nothing", "done", "failed", "not all put back"},
           \/ expected' = expected /\ Touched = {}
           \/ \E paths \in SUBSET Paths : Touched \subseteq paths /\ Settings!Says(paths)
    PROVE  SettingsInv'
  <1>0. Settings!TypeOK  BY DEF SettingsInv
  <1>1. /\ expected' \in [Paths -> Settings!Settings]
        /\ \A p \in Paths : expected'[p].line = expected[p].line
                          /\ expected'[p].save = expected[p].save
        /\ \A p \in Paths \ raced : file[p] = expected'[p]
    <2>1. CASE expected' = expected /\ Touched = {}
      BY <2>1 DEF SettingsInv, SettingsUntouched, Settings!TypeOK
    <2>2. CASE \E paths \in SUBSET Paths : Touched \subseteq paths /\ Settings!Says(paths)
      BY <2>2, SettingsSays
    <2> QED BY <2>1, <2>2
  <1>2. /\ call' = [step |-> "none", wanted |-> {}, todo |-> {}, edits |-> <<>>, next |-> 0]
        /\ call'.step = "none" /\ Len(call'.edits) = 0 /\ call'.next = 0
    BY DEF Settings!NoCall
  <1>3. Settings!TypeOK'
    <2>1. call' \in SettingsCalls
      <3>1. <<>> \in Seq(Settings!Edits)  BY ONLY SettingsNone
      <3> QED BY ONLY <1>2, <3>1 DEF SettingsCalls
    <2>2. call'.next <= Len(call'.edits) + 1  BY ONLY <1>2
    <2> QED BY <1>0, <1>1, <2>1, <2>2 DEF Settings!TypeOK, SettingsCalls
  <1>4. SettingsSaves' /\ SettingsEdits' /\ SettingsStep'
    <2>1. 1..Len(call'.edits) = {}  BY ONLY <1>2
    <2>2. SettingsSaves'  BY <1>1, <2>1 DEF SettingsInv, SettingsSaves
    <2>3. SettingsEdits'  BY ONLY <2>1 DEF SettingsEdits
    <2>4. SettingsStep'  BY ONLY <1>2 DEF SettingsStep
    <2> QED BY <2>2, <2>3, <2>4
  <1>5. SettingsStay' /\ SettingsUntouched'
    BY <1>1 DEF SettingsInv, SettingsStay, SettingsUntouched
  <1> QED BY <1>3, <1>4, <1>5 DEF SettingsInv

\* The ways a request ends.
LEMMA SettingsEndsKeep ==
    ASSUME SettingsInv,
           Settings!PlanFails \/ Settings!Save \/ Settings!Undone \/ Settings!Dies
    PROVE  SettingsInv'
  <1>0. /\ Settings!TypeOK /\ connected \subseteq Paths /\ call \in SettingsCalls
        /\ Len(call.edits) \in Nat /\ call.next \in Nat /\ call.todo \in SUBSET Paths
    BY SettingsTypes DEF SettingsInv, Settings!TypeOK
  <1>1. CASE Settings!PlanFails
    <2>1. Touched = {}  BY <1>1 DEF Settings!PlanFails, Touched
    <2> QED BY <1>0, <1>1, <2>1, SettingsEndKeeps DEF Settings!PlanFails, Settings!Ends
  <1>2. CASE Settings!Save
    <2> DEFINE paths == {call.edits[i].path : i \in 1..Len(call.edits)}
    <2>1. paths \in SUBSET Paths  BY <1>0, SettingsTypes
    <2>2. Touched \subseteq paths
      <3>1. call.step = "apply" /\ call.next > 0
        BY <1>2 DEF Settings!Save, SettingsInv, SettingsStep
      <3>2. call.next - 1 \in Nat  BY <1>0, <3>1
      <3>3. Touched = Written(call.next - 1)  BY <3>1 DEF Touched
      <3> QED BY <1>0, <3>2, <3>3, SettingsWritten
    <2>3. connected' = call.wanted /\ call.wanted \subseteq Paths
      BY <1>0, <1>2 DEF Settings!Save, SettingsCalls
    <2>4. Settings!Says(paths)  BY <1>2 DEF Settings!Save
    <2> HIDE DEF paths
    <2> QED BY <1>2, <2>1, <2>2, <2>3, <2>4, SettingsEndKeeps DEF Settings!Save
  <1>3. CASE Settings!Undone
    <2>1. call.step = "undo" /\ call.next = 0  BY <1>3 DEF Settings!Undone
    <2>2. Touched \subseteq call.todo
      <3>1. Touched = Written(call.next) \cup call.todo  BY <2>1 DEF Touched
      <3> QED BY <1>0, <2>1, <3>1, SettingsWritten
    <2> QED BY <1>0, <1>3, <2>2, SettingsEndKeeps DEF Settings!Undone, Settings!Ends
  <1>4. CASE Settings!Dies
    <2>1. Touched \subseteq Paths
      <3>1. {call.edits[i].path : i \in 1..Len(call.edits)} \subseteq Paths
        BY <1>0, SettingsTypes
      <3>2. call.step \in {"apply", "write"} => call.next > 0  BY DEF SettingsInv, SettingsStep
      <3>3. call.step \in {"apply", "write"} => call.next - 1 \in Nat  BY <1>0, <3>2
      <3>4. CASE call.step \in {"apply", "write"}
        BY <1>0, <3>1, <3>3, <3>4, SettingsWritten DEF Touched
      <3>5. CASE call.step \in {"undo", "put back"}
        BY <1>0, <3>1, <3>5, SettingsWritten DEF Touched
      <3>6. CASE call.step \notin {"apply", "write", "undo", "put back"}
        BY <3>6 DEF Touched
      <3> QED BY <3>4, <3>5, <3>6
    <2> QED BY <1>0, <1>4, <2>1, SettingsEndKeeps DEF Settings!Dies, Settings!Ends
  <1> QED BY <1>1, <1>2, <1>3, <1>4

-----------------------------------------------------------------------------
\* The files are as their client left them before the first request.
LEMMA SettingsInitHolds == ASSUME Settings!Init PROVE SettingsInv
  <1>1. PICK line \in Lines : file = [p \in Paths |-> [line |-> line, ours |-> "no", save |-> 0]]
    BY DEF Settings!Init
  <1>2. /\ expected = file /\ connected = {} /\ answered = "nothing" /\ raced = {}
        /\ saves = 0 /\ calls = 0
        /\ call = [step |-> "none", wanted |-> {}, todo |-> {}, edits |-> <<>>, next |-> 0]
    BY DEF Settings!Init, Settings!NoCall
  <1>3. call.step = "none" /\ Len(call.edits) = 0 /\ call.next = 0  BY <1>2
  <1>4. Settings!TypeOK
    <2>1. 0 \in 0..MaxSaves /\ 0 \in 0..MaxCalls  BY ONLY SettingsBounds
    <2>2. file \in [Paths -> Settings!Settings]  BY <1>1, <2>1 DEF Settings!Settings
    <2>3. call \in SettingsCalls  BY <1>2 DEF SettingsCalls
    <2>4. call.next <= Len(call.edits) + 1  BY <1>3
    <2> QED BY <1>2, <2>1, <2>2, <2>3, <2>4 DEF Settings!TypeOK, SettingsCalls
  <1>5. SettingsSaves
    <2>1. \A p \in Paths : file[p].save = 0  BY <1>1
    <2> QED BY <1>2, <1>3, <2>1 DEF SettingsSaves
  <1>6. SettingsEdits /\ SettingsStep  BY <1>3 DEF SettingsEdits, SettingsStep
  <1>7. SettingsStay /\ SettingsUntouched  BY <1>2 DEF SettingsStay, SettingsUntouched
  <1> QED BY <1>4, <1>5, <1>6, <1>7 DEF SettingsInv

\* Every step of the settings keeps their invariant.
LEMMA SettingsNextKeeps == ASSUME SettingsInv, Settings!Next PROVE SettingsInv'
  BY SettingsClientKeeps, SettingsCallKeeps, SettingsPlanKeeps, SettingsApplyKeeps,
     SettingsFailKeeps, SettingsUndoKeeps, SettingsWriteKeeps, SettingsBackKeeps,
     SettingsEndsKeep DEF Settings!Next

\* A step of another leaves them.
LEMMA SettingsStays == ASSUME SettingsInv, UNCHANGED settingsVars PROVE SettingsInv'
  <1>1. UNCHANGED <<file, connected, call, answered, expected, raced, saves, calls>>
    BY DEF settingsVars
  <1>2. Settings!TypeOK' /\ SettingsSaves'  BY <1>1 DEF SettingsInv, Settings!TypeOK, SettingsSaves
  <1>3. SettingsEdits'  BY <1>1 DEF SettingsInv, SettingsEdits
  <1>4. SettingsStep'  BY <1>1 DEF SettingsInv, SettingsStep
  <1>5. SettingsStay'  BY <1>1 DEF SettingsInv, SettingsStay
  <1>6. SettingsUntouched'
    <2>1. Touched' = Touched  BY <1>1 DEF Touched, Written
    <2> QED BY <1>1, <2>1 DEF SettingsInv, SettingsUntouched
  <1> QED BY <1>2, <1>3, <1>4, <1>5, <1>6 DEF SettingsInv

\* Between requests no file is touched.
LEMMA SettingsAsLeft == ASSUME SettingsInv PROVE Settings!ClientsSettingsStay
  <1>1. call = Settings!NoCall => Touched = {}  BY DEF Settings!NoCall, Touched
  <1> QED BY <1>1 DEF SettingsInv, SettingsStay, SettingsUntouched, Settings!ClientsSettingsStay

-----------------------------------------------------------------------------
(* HostMailbox: every step keeps its invariant.                            *)

\* The parts of the host's state.
LEMMA HostTypes ==
    ASSUME Host!TypeOK
    PROVE  /\ MaxChanges \in Nat /\ 0 \in Host!Numbers
           /\ facts \in [Host!Fact -> Host!Numbers]
           /\ \A f \in Host!Fact : facts[f] \in Nat /\ facts[f] \in Host!Numbers
           /\ mailbox.bits \subseteq Host!Bits /\ drawer.bits \subseteq Host!Bits
           /\ mailbox.snapshot \in Host!Numbers /\ mailbox.light \in Host!Numbers
           /\ drawer.has \in [Host!Fact -> Host!Numbers]
  <1>1. MaxChanges \in Nat  BY HostBounds
  <1>2. 0 \in Host!Numbers /\ Host!Numbers \subseteq Nat  BY ONLY <1>1 DEF Host!Numbers
  <1>3. facts \in [Host!Fact -> Host!Numbers]  BY DEF Host!TypeOK
  <1>4. /\ mailbox.bits \subseteq Host!Bits /\ mailbox.snapshot \in Host!Numbers
        /\ mailbox.light \in Host!Numbers
    BY DEF Host!TypeOK
  <1>5. drawer.bits \subseteq Host!Bits /\ drawer.has \in [Host!Fact -> Host!Numbers]
    BY DEF Host!TypeOK
  <1> QED BY <1>1, <1>2, <1>3, <1>4, <1>5

\* A fact can change while fewer than the bound have.
LEMMA HostCounts ==
    ASSUME Host!TypeOK, Host!Changes < MaxChanges, NEW f \in Host!Fact
    PROVE  /\ facts[f] + 1 \in Host!Numbers /\ facts[f] + 1 # 0
           /\ [facts EXCEPT ![f] = @ + 1] \in [Host!Fact -> Host!Numbers]
  <1>1. /\ facts["snapshot"] \in Nat /\ facts["view"] \in Nat /\ facts["screens"] \in Nat
        /\ facts["light"] \in Nat /\ facts["notice"] \in Nat /\ MaxChanges \in Nat
    BY HostTypes DEF Host!Fact
  <1>2. facts["snapshot"] + facts["view"] + facts["screens"] + facts["light"] + facts["notice"]
            < MaxChanges
    BY DEF Host!Changes
  <1>3. /\ facts["snapshot"] < MaxChanges /\ facts["view"] < MaxChanges
        /\ facts["screens"] < MaxChanges /\ facts["light"] < MaxChanges
        /\ facts["notice"] < MaxChanges
    BY ONLY <1>1, <1>2
  <1>4. facts[f] < MaxChanges /\ facts[f] \in Nat  BY <1>1, <1>3 DEF Host!Fact
  <1>5. facts[f] + 1 \in Host!Numbers /\ facts[f] + 1 # 0
    BY ONLY <1>1, <1>4 DEF Host!Numbers
  <1>6. facts \in [Host!Fact -> Host!Numbers]  BY HostTypes
  <1> QED BY <1>5, <1>6

\* A fact changes: its owner owes a wake.
LEMMA HostChangeKeeps == ASSUME HostInv, NEW f \in Host!Fact, Host!Change(f) PROVE HostInv'
  <1>0. Host!TypeOK  BY DEF HostInv
  <1>1. /\ facts' = [facts EXCEPT ![f] = @ + 1] /\ owed' = owed \cup {f}
        /\ amiss' = (IF f = "screens" THEN amiss \ {"screens"} ELSE amiss)
        /\ UNCHANGED <<mailbox, drawer, drawn>>
        /\ Host!Changes < MaxChanges
    BY DEF Host!Change
  <1>2. /\ facts' \in [Host!Fact -> Host!Numbers] /\ facts'[f] # 0
        /\ \A g \in Host!Fact : g # f => facts'[g] = facts[g]
    BY <1>0, <1>1, HostCounts, HostTypes
  <1>3. Host!TypeOK'
    <2>1. amiss' \subseteq {"screens", "windows", "menu"}  BY <1>0, <1>1 DEF Host!TypeOK
    <2> QED BY <1>0, <1>1, <1>2, <2>1 DEF Host!TypeOK
  <1>4. HostMail'
    <2>1. \A g \in owed' : facts'[g] # 0
      BY <1>0, <1>1, <1>2 DEF HostInv, HostMail, Host!TypeOK
    <2> QED BY <1>1, <1>2, <2>1 DEF HostInv, HostMail, Host!Fact
  <1>5. HostFacts'
    BY <1>1, <1>2 DEF HostInv, HostFacts, Host!Fact, Doing
  <1>6. HostDrawn'  BY <1>1 DEF HostInv, HostDrawn, Shown, WindowsDone
  <1> QED BY <1>3, <1>4, <1>5, <1>6 DEF HostInv

\* What the mailbox holds after a wake.
LEMMA HostWoken ==
    ASSUME Host!TypeOK, NEW bit \in Host!Bits, mailbox' = Host!Woken(bit)
    PROVE  /\ mailbox'.bits = mailbox.bits \cup {bit} /\ mailbox'.snapshot = mailbox.snapshot
           /\ mailbox'.light = mailbox.light /\ mailbox'.stopped = mailbox.stopped
           /\ mailbox' \in [bits : SUBSET Host!Bits, snapshot : Host!Numbers,
                            light : Host!Numbers, stopped : BOOLEAN]
  BY DEF Host!TypeOK, Host!Woken

\* The same, with a projection.
LEMMA HostCarriesSnapshot ==
    ASSUME Host!TypeOK, NEW bit \in Host!Bits, NEW n \in Host!Numbers,
           mailbox' = [Host!Woken(bit) EXCEPT !.snapshot = n]
    PROVE  /\ mailbox'.bits = mailbox.bits \cup {bit} /\ mailbox'.snapshot = n
           /\ mailbox'.light = mailbox.light /\ mailbox'.stopped = mailbox.stopped
           /\ mailbox' \in [bits : SUBSET Host!Bits, snapshot : Host!Numbers,
                            light : Host!Numbers, stopped : BOOLEAN]
  <1> DEFINE woken == Host!Woken(bit)
  <1>1. /\ woken.bits = mailbox.bits \cup {bit} /\ woken.light = mailbox.light
        /\ woken.stopped = mailbox.stopped
        /\ woken \in [bits : SUBSET Host!Bits, snapshot : Host!Numbers,
                      light : Host!Numbers, stopped : BOOLEAN]
    BY DEF Host!TypeOK, Host!Woken
  <1>2. mailbox' = [woken EXCEPT !.snapshot = n]  OBVIOUS
  <1> HIDE DEF woken
  <1> QED BY <1>1, <1>2

\* The same, with the system's appearance.
LEMMA HostCarriesLight ==
    ASSUME Host!TypeOK, NEW bit \in Host!Bits, NEW n \in Host!Numbers,
           mailbox' = [Host!Woken(bit) EXCEPT !.light = n]
    PROVE  /\ mailbox'.bits = mailbox.bits \cup {bit} /\ mailbox'.light = n
           /\ mailbox'.snapshot = mailbox.snapshot /\ mailbox'.stopped = mailbox.stopped
           /\ mailbox' \in [bits : SUBSET Host!Bits, snapshot : Host!Numbers,
                            light : Host!Numbers, stopped : BOOLEAN]
  <1> DEFINE woken == Host!Woken(bit)
  <1>1. /\ woken.bits = mailbox.bits \cup {bit} /\ woken.snapshot = mailbox.snapshot
        /\ woken.stopped = mailbox.stopped
        /\ woken \in [bits : SUBSET Host!Bits, snapshot : Host!Numbers,
                      light : Host!Numbers, stopped : BOOLEAN]
    BY DEF Host!TypeOK, Host!Woken
  <1>2. mailbox' = [woken EXCEPT !.light = n]  OBVIOUS
  <1> HIDE DEF woken
  <1> QED BY <1>1, <1>2

\* A wake that comes for a fact says so in the mailbox, and carries along what
\* it must.
LEMMA HostWakeSays ==
    ASSUME HostInv, NEW f \in Host!Fact, Host!Wake(f)
    PROVE  /\ f \in owed /\ owed' = owed \ {f}
           /\ mailbox'.bits = mailbox.bits \cup {Host!BitOf[f]}
           /\ mailbox'.stopped = mailbox.stopped
           /\ f = "snapshot" => mailbox'.snapshot = facts["snapshot"]
           /\ f # "snapshot" => mailbox'.snapshot = mailbox.snapshot
           /\ f = "light" => mailbox'.light = facts["light"]
           /\ f # "light" => mailbox'.light = mailbox.light
           /\ mailbox' \in [bits : SUBSET Host!Bits, snapshot : Host!Numbers,
                            light : Host!Numbers, stopped : BOOLEAN]
           /\ UNCHANGED <<facts, drawer, drawn, amiss>>
  <1>0. Host!TypeOK  BY DEF HostInv
  <1>1. /\ f \in owed /\ owed' = owed \ {f} /\ UNCHANGED <<facts, drawer, drawn, amiss>>
        /\ mailbox' = IF f \in {"snapshot", "light"}
                      THEN [Host!Woken(Host!BitOf[f]) EXCEPT ![f] = facts[f]]
                      ELSE Host!Woken(Host!BitOf[f])
    BY DEF Host!Wake
  <1>2. Host!BitOf[f] \in Host!Bits  BY DEF Host!BitOf, Host!Bits, Host!Fact
  <1>3. facts[f] \in Host!Numbers  BY <1>0, HostTypes
  <1>4. CASE f = "snapshot"
    <2>1. mailbox' = [Host!Woken(Host!BitOf[f]) EXCEPT !.snapshot = facts[f]]  BY <1>1, <1>4
    <2> QED BY <1>0, <1>1, <1>2, <1>3, <1>4, <2>1, HostCarriesSnapshot
  <1>5. CASE f = "light"
    <2>1. mailbox' = [Host!Woken(Host!BitOf[f]) EXCEPT !.light = facts[f]]  BY <1>1, <1>5
    <2> QED BY <1>0, <1>1, <1>2, <1>3, <1>5, <2>1, HostCarriesLight
  <1>6. CASE f \notin {"snapshot", "light"}
    BY <1>0, <1>1, <1>2, <1>6, HostWoken
  <1> QED BY <1>4, <1>5, <1>6

\* A wake leaves the change in the mailbox.
LEMMA HostWakeKeeps == ASSUME HostInv, NEW f \in Host!Fact, Host!Wake(f) PROVE HostInv'
  <1>0. Host!TypeOK  BY DEF HostInv
  <1>1. /\ f \in owed /\ owed' = owed \ {f}
        /\ mailbox'.bits = mailbox.bits \cup {Host!BitOf[f]}
        /\ mailbox'.stopped = mailbox.stopped
        /\ f = "snapshot" => mailbox'.snapshot = facts["snapshot"]
        /\ f # "snapshot" => mailbox'.snapshot = mailbox.snapshot
        /\ f = "light" => mailbox'.light = facts["light"]
        /\ f # "light" => mailbox'.light = mailbox.light
        /\ mailbox' \in [bits : SUBSET Host!Bits, snapshot : Host!Numbers,
                         light : Host!Numbers, stopped : BOOLEAN]
        /\ UNCHANGED <<facts, drawer, drawn, amiss>>
    BY HostWakeSays
  <1>2. /\ f = "snapshot" => Host!BitOf[f] = "SNAPSHOT"
        /\ f = "view" => Host!BitOf[f] = "DISPLAY"
        /\ f = "screens" => Host!BitOf[f] = "SCREENS"
        /\ f = "light" => Host!BitOf[f] = "APPEARANCE"
        /\ f = "notice" => Host!BitOf[f] = "UPDATE"
    BY DEF Host!BitOf
  <1>3. Host!TypeOK'  BY <1>0, <1>1 DEF Host!TypeOK
  <1>4. f \in {"snapshot", "view", "screens", "light", "notice"}  BY DEF Host!Fact
  <1>5. HostMail'
    <2>1. facts[f] # 0  BY <1>1 DEF HostInv, HostMail
    <2>2. HostMail  BY DEF HostInv
    <2>3. Host!BitOf[f] = "SNAPSHOT" => f = "snapshot"  BY <1>2, <1>4
    <2>4. Host!BitOf[f] = "APPEARANCE" => f = "light"  BY <1>2, <1>4
    <2>5. CASE f = "snapshot"  BY <1>1, <1>2, <2>1, <2>2, <2>5 DEF HostMail
    <2>6. CASE f = "light"  BY <1>1, <1>2, <2>1, <2>2, <2>6 DEF HostMail
    <2>7. CASE f \notin {"snapshot", "light"}  BY <1>1, <2>2, <2>3, <2>4, <2>7 DEF HostMail
    <2> QED BY <2>5, <2>6, <2>7
  <1>6. HostFacts'
    <2>1. HostFacts  BY DEF HostInv
    <2> QED BY <1>1, <1>2, <2>1 DEF HostFacts, Doing
  <1>7. HostDrawn'
    <2>1. HostDrawn  BY DEF HostInv
    <2> QED BY <1>1, <2>1 DEF HostDrawn, Shown, WindowsDone
  <1> QED BY <1>3, <1>5, <1>6, <1>7 DEF HostInv

\* The same projection comes again.
LEMMA HostClockKeeps == ASSUME HostInv, Host!Clock PROVE HostInv'
  <1>0. Host!TypeOK  BY DEF HostInv
  <1>1. /\ facts["snapshot"] # 0 /\ "snapshot" \notin owed
        /\ mailbox' = [Host!Woken("CLOCK") EXCEPT !.snapshot = facts["snapshot"]]
        /\ UNCHANGED <<facts, owed, drawer, drawn, amiss>>
    BY DEF Host!Clock
  <1>2. /\ mailbox'.bits = mailbox.bits \cup {"CLOCK"} /\ mailbox'.snapshot = facts["snapshot"]
        /\ mailbox'.light = mailbox.light /\ mailbox'.stopped = mailbox.stopped
        /\ mailbox' \in [bits : SUBSET Host!Bits, snapshot : Host!Numbers,
                         light : Host!Numbers, stopped : BOOLEAN]
    <2>1. facts["snapshot"] \in Host!Numbers /\ "CLOCK" \in Host!Bits
      BY <1>0, HostTypes DEF Host!Fact, Host!Bits
    <2> QED BY <1>0, <1>1, <2>1, HostCarriesSnapshot
  <1>3. Host!TypeOK'  BY <1>0, <1>1, <1>2 DEF Host!TypeOK
  <1>4. HostMail'
    <2>1. HostMail  BY DEF HostInv
    <2> QED BY <1>1, <1>2, <2>1 DEF HostMail
  <1>5. HostFacts'
    <2>1. HostFacts  BY DEF HostInv
    <2> QED BY <1>1, <1>2, <2>1 DEF HostFacts, Doing
  <1>6. HostDrawn'
    <2>1. HostDrawn  BY DEF HostInv
    <2> QED BY <1>1, <1>2, <2>1 DEF HostDrawn, Shown, WindowsDone
  <1> QED BY <1>3, <1>4, <1>5, <1>6 DEF HostInv

\* The host ends: the worker begins nothing any more.
LEMMA HostStopKeeps == ASSUME HostInv, Host!Stop PROVE HostInv'
  <1>0. Host!TypeOK  BY DEF HostInv
  <1>1. /\ mailbox' = [mailbox EXCEPT !.stopped = TRUE]
        /\ UNCHANGED <<facts, owed, drawer, drawn, amiss>>
    BY DEF Host!Stop
  <1>2. /\ mailbox'.bits = mailbox.bits /\ mailbox'.snapshot = mailbox.snapshot
        /\ mailbox'.light = mailbox.light /\ mailbox'.stopped
        /\ mailbox' \in [bits : SUBSET Host!Bits, snapshot : Host!Numbers,
                         light : Host!Numbers, stopped : BOOLEAN]
    BY <1>0, <1>1 DEF Host!TypeOK
  <1>3. Host!TypeOK'  BY <1>0, <1>1, <1>2 DEF Host!TypeOK
  <1>4. HostMail'  BY <1>1, <1>2 DEF HostInv, HostMail
  <1>5. HostFacts'  BY <1>1, <1>2 DEF HostInv, HostFacts, Doing
  <1>6. HostDrawn'  BY <1>1, <1>2 DEF HostInv, HostDrawn, Shown, WindowsDone
  <1> QED BY <1>3, <1>4, <1>5, <1>6 DEF HostInv

-----------------------------------------------------------------------------
\* What a step of the worker does to its own record.
LEMMA HostGoes ==
    ASSUME Host!TypeOK, NEW step \in {"off", "view", "notice"}, Host!Goes(step)
    PROVE  /\ drawer'.step = step /\ drawer'.bits = drawer.bits /\ drawer'.has = drawer.has
           /\ drawer' \in [step : {"off", "wait", "measure", "view", "apply", "notice", "menu"},
                           bits : SUBSET Host!Bits, has : [Host!Fact -> Host!Numbers]]
  BY DEF Host!TypeOK, Host!Goes

\* The worker starts from what it reads, with the windows still to draw.
LEMMA HostStartKeeps == ASSUME HostInv, Host!Start PROVE HostInv'
  <1>0. Host!TypeOK  BY DEF HostInv
  <1> DEFINE has == [Host!Nil EXCEPT !["view"] = facts["view"], !["light"] = facts["light"]]
  <1>1. /\ drawer.step = "off" /\ ~mailbox.stopped
        /\ drawer' = [drawer EXCEPT !.step = "wait", !.has = has]
        /\ UNCHANGED <<facts, owed, mailbox, drawn, amiss>>
    BY DEF Host!Start
  <1>2. /\ has \in [Host!Fact -> Host!Numbers] /\ has["snapshot"] = 0 /\ has["screens"] = 0
        /\ has["notice"] = 0 /\ has["view"] = facts["view"] /\ has["light"] = facts["light"]
    BY <1>0, HostTypes DEF Host!Nil, Host!Fact
  <1>3. /\ drawer.has["snapshot"] = 0 /\ drawer.has["screens"] = 0 /\ drawer.has["notice"] = 0
        /\ {"DISPLAY", "SCREENS"} \subseteq mailbox.bits /\ drawer.bits = {}
    BY <1>1 DEF HostInv, HostDrawn, Host!Nil, Host!Fact
  <1> HIDE DEF has
  <1>4. /\ drawer'.step = "wait" /\ drawer'.bits = {} /\ drawer'.has = has
        /\ drawer' \in [step : {"off", "wait", "measure", "view", "apply", "notice", "menu"},
                        bits : SUBSET Host!Bits, has : [Host!Fact -> Host!Numbers]]
    BY <1>0, <1>1, <1>2, <1>3 DEF Host!TypeOK
  <1>5. Host!TypeOK'  BY <1>0, <1>1, <1>4 DEF Host!TypeOK
  <1>6. HostMail'
    <2>1. HostMail  BY DEF HostInv
    <2> QED BY <1>1, <1>2, <1>3, <1>4, <2>1 DEF HostMail
  <1>7. HostFacts'
    <2>1. HostFacts  BY DEF HostInv
    <2> QED BY <1>1, <1>2, <1>3, <1>4, <2>1 DEF HostFacts, Doing
  <1>8. HostDrawn'  BY <1>1, <1>3, <1>4 DEF HostDrawn
  <1> QED BY <1>5, <1>6, <1>7, <1>8 DEF HostInv

\* The worker ends.
LEMMA HostEndKeeps == ASSUME HostInv, Host!End PROVE HostInv'
  <1>0. Host!TypeOK  BY DEF HostInv
  <1>1. /\ drawer.step = "wait" /\ mailbox.stopped /\ Host!Goes("off")
        /\ UNCHANGED <<facts, owed, mailbox, drawn, amiss>>
    BY DEF Host!End
  <1>2. /\ drawer'.step = "off" /\ drawer'.bits = drawer.bits /\ drawer'.has = drawer.has
        /\ drawer' \in [step : {"off", "wait", "measure", "view", "apply", "notice", "menu"},
                        bits : SUBSET Host!Bits, has : [Host!Fact -> Host!Numbers]]
    BY <1>0, <1>1, HostGoes
  <1>3. Host!TypeOK'  BY <1>0, <1>1, <1>2 DEF Host!TypeOK
  <1>4. HostMail'  BY <1>1, <1>2 DEF HostInv, HostMail
  <1>5. HostFacts'  BY <1>1, <1>2 DEF HostInv, HostFacts, Doing
  <1>6. HostDrawn'  BY <1>1, <1>2 DEF HostInv, HostDrawn
  <1> QED BY <1>3, <1>4, <1>5, <1>6 DEF HostInv

\* What was in the mailbox is the worker's to do.
LEMMA HostTakeKeeps == ASSUME HostInv, Host!Take PROVE HostInv'
  <1>0. Host!TypeOK  BY DEF HostInv
  <1> DEFINE has == [drawer.has EXCEPT !["snapshot"] = Host!Carried("snapshot"),
                                       !["light"] = Host!Carried("light")]
  <1>1. /\ drawer.step = "wait" /\ ~mailbox.stopped
        /\ mailbox' = [mailbox EXCEPT !.bits = {}, !.snapshot = 0, !.light = 0]
        /\ UNCHANGED <<facts, owed, drawn, amiss>>
    BY DEF Host!Take
  <1>2. PICK poll \in {{}, {"SCREENS"}} :
          drawer' = [step |-> "measure", bits |-> mailbox.bits \cup poll, has |-> has]
    BY DEF Host!Take
  <1>3. /\ has \in [Host!Fact -> Host!Numbers]
        /\ has["snapshot"] = (IF mailbox.snapshot # 0 THEN mailbox.snapshot ELSE drawer.has["snapshot"])
        /\ has["light"] = (IF mailbox.light # 0 THEN mailbox.light ELSE drawer.has["light"])
        /\ \A f \in Host!Fact : f \notin {"snapshot", "light"} => has[f] = drawer.has[f]
    BY <1>0, HostTypes DEF Host!Carried, Host!Fact
  <1>4. mailbox.bits \cup poll \in SUBSET Host!Bits  BY <1>0, <1>2, HostTypes DEF Host!Bits
  <1> HIDE DEF has
  <1>5. /\ mailbox'.bits = {} /\ mailbox'.snapshot = 0 /\ mailbox'.light = 0
        /\ mailbox'.stopped = mailbox.stopped
        /\ mailbox' \in [bits : SUBSET Host!Bits, snapshot : Host!Numbers,
                         light : Host!Numbers, stopped : BOOLEAN]
    BY <1>0, <1>1, HostTypes DEF Host!TypeOK
  <1>6. /\ drawer'.step = "measure" /\ drawer'.bits = mailbox.bits \cup poll /\ drawer'.has = has
        /\ drawer' \in [step : {"off", "wait", "measure", "view", "apply", "notice", "menu"},
                        bits : SUBSET Host!Bits, has : [Host!Fact -> Host!Numbers]]
    BY <1>2, <1>3, <1>4
  <1>7. Host!TypeOK'  BY <1>0, <1>1, <1>5, <1>6 DEF Host!TypeOK
  <1>8. HostMail'
    <2>1. HostMail  BY DEF HostInv
    <2> QED BY <1>1, <1>3, <1>5, <1>6, <2>1 DEF HostMail
  <1>9. HostFacts'
    <2>1. HostFacts  BY DEF HostInv
    <2>2. /\ has["view"] = drawer.has["view"] /\ has["screens"] = drawer.has["screens"]
          /\ has["notice"] = drawer.has["notice"]
      BY <1>3 DEF Host!Fact
    <2> QED BY <1>1, <1>5, <1>6, <2>1, <2>2 DEF HostFacts, Doing
  <1>10. HostDrawn'
    <2>1. HostMail /\ HostDrawn  BY DEF HostInv
    <2>2. \/ "DISPLAY" \in drawer'.bits \/ "SNAPSHOT" \in drawer'.bits
          \/ "windows" \in amiss \/ drawn'.windows = [f \in Host!Windows |-> has[f]]
      <3>1. CASE "SNAPSHOT" \notin mailbox.bits /\ "DISPLAY" \notin mailbox.bits
        <4>1. "windows" \in amiss \/ drawn.windows = Shown
          BY <1>1, <2>1, <3>1 DEF HostDrawn, WindowsDone
        <4>2. has["snapshot"] = drawer.has["snapshot"]  BY <1>3, <2>1, <3>1 DEF HostMail
        <4>3. \A f \in Host!Windows : has[f] = drawer.has[f]
          BY <1>3, <4>2 DEF Host!Windows, Host!Fact
        <4> QED BY <1>1, <4>1, <4>3 DEF Shown
      <3> QED BY <1>6, <3>1
    <2>3. has["snapshot"] # 0 /\ drawn.menu # has =>
            "menu" \in amiss \/ owed # {} \/ drawer'.bits # {}
      <3>1. CASE mailbox.bits = {}
        <4>1. mailbox.snapshot = 0 /\ mailbox.light = 0  BY <2>1, <3>1 DEF HostMail
        <4>2. has = drawer.has
          <5>1. \A f \in Host!Fact : has[f] = drawer.has[f]  BY <1>3, <4>1
          <5>2. drawer.has \in [Host!Fact -> Host!Numbers]  BY <1>0, HostTypes
          <5> QED BY <1>3, <5>1, <5>2
        <4>3. drawer.bits = {} /\ drawer.step # "off"  BY <1>1, <2>1 DEF HostDrawn
        <4> QED BY <2>1, <3>1, <4>2, <4>3 DEF HostDrawn
      <3> QED BY <1>6, <3>1
    <2> QED BY <1>1, <1>6, <2>2, <2>3 DEF HostDrawn, Shown, WindowsDone, Host!WindowBits
  <1> QED BY <1>7, <1>8, <1>9, <1>10 DEF HostInv

\* The screens are measured; where they have changed, the windows are drawn.
LEMMA HostMeasureKeeps == ASSUME HostInv, Host!Measure PROVE HostInv'
  <1>0. Host!TypeOK  BY DEF HostInv
  <1> DEFINE bits == IF drawer.has["screens"] = facts["screens"] THEN drawer.bits
                     ELSE drawer.bits \cup {"DISPLAY"}
             has == [drawer.has EXCEPT !["screens"] = facts["screens"]]
  <1>1. /\ drawer.step = "measure" /\ "SCREENS" \in drawer.bits
        /\ amiss' = amiss \ {"screens"}
        /\ drawer' = [drawer EXCEPT !.step = "view", !.has = has, !.bits = bits]
        /\ UNCHANGED <<owed, mailbox, drawn>>
    BY DEF Host!Measure
  <1>2. /\ facts' \in [Host!Fact -> Host!Numbers]
        /\ \A f \in Host!Fact : f # "view" => facts'[f] = facts[f]
        /\ facts'["view"] = facts["view"] \/ (facts'["view"] # 0 /\ "DISPLAY" \in bits)
    <2>1. CASE facts' = facts  BY <1>0, <2>1, HostTypes
    <2>2. CASE /\ drawer.has["screens"] # facts["screens"] /\ Host!Changes < MaxChanges
               /\ facts' = [facts EXCEPT !["view"] = @ + 1]
      <3>1. "view" \in Host!Fact  BY DEF Host!Fact
      <3> QED BY <1>0, <2>2, <3>1, HostCounts, HostTypes
    <2> QED BY <2>1, <2>2 DEF Host!Measure
  <1>3. /\ has \in [Host!Fact -> Host!Numbers] /\ has["screens"] = facts["screens"]
        /\ \A f \in Host!Fact : f # "screens" => has[f] = drawer.has[f]
    BY <1>0, HostTypes DEF Host!Fact
  <1>4. bits \subseteq Host!Bits /\ drawer.bits \subseteq bits
    BY <1>0, HostTypes DEF Host!Bits
  <1> HIDE DEF bits, has
  <1>5. /\ drawer'.step = "view" /\ drawer'.bits = bits /\ drawer'.has = has
        /\ drawer' \in [step : {"off", "wait", "measure", "view", "apply", "notice", "menu"},
                        bits : SUBSET Host!Bits, has : [Host!Fact -> Host!Numbers]]
    BY <1>0, <1>1, <1>3, <1>4 DEF Host!TypeOK
  <1>6. Host!TypeOK'
    <2>1. amiss' \subseteq {"screens", "windows", "menu"}  BY <1>0, <1>1 DEF Host!TypeOK
    <2> QED BY <1>0, <1>1, <1>2, <1>5, <2>1 DEF Host!TypeOK
  <1>7. HostMail'
    <2>1. HostMail  BY DEF HostInv
    <2>2. \A f \in owed : facts'[f] # 0
      <3>1. owed \subseteq Host!Fact  BY <1>0 DEF Host!TypeOK
      <3> QED BY <1>2, <2>1, <3>1 DEF HostMail
    <2>3. /\ facts'["snapshot"] = facts["snapshot"] /\ facts'["light"] = facts["light"]
          /\ has["snapshot"] = drawer.has["snapshot"] /\ has["light"] = drawer.has["light"]
      BY <1>2, <1>3 DEF Host!Fact
    <2> QED BY <1>1, <1>5, <2>1, <2>2, <2>3 DEF HostMail
  <1>8. HostFacts'
    <2>1. HostFacts  BY DEF HostInv
    <2>2. /\ facts'["screens"] = facts["screens"] /\ facts'["notice"] = facts["notice"]
          /\ has["view"] = drawer.has["view"] /\ has["notice"] = drawer.has["notice"]
      BY <1>2, <1>3 DEF Host!Fact
    <2> QED BY <1>1, <1>2, <1>3, <1>4, <1>5, <2>1, <2>2 DEF HostFacts, Doing
  <1>9. HostDrawn'
    <2>1. "SCREENS" \in bits  BY <1>1, <1>4
    <2>2. bits \cap Host!WindowBits # {}  BY <2>1 DEF Host!WindowBits
    <2> QED BY <1>5, <2>1, <2>2 DEF HostDrawn
  <1> QED BY <1>6, <1>7, <1>8, <1>9 DEF HostInv

\* The screens are not measured, for nothing says so or it fails.
LEMMA HostUnmeasuredKeeps ==
    ASSUME HostInv, Host!CannotMeasure \/ Host!NotMeasured
    PROVE  HostInv'
  <1>0. Host!TypeOK  BY DEF HostInv
  <1>1. /\ drawer.step = "measure" /\ Host!Goes("view") /\ UNCHANGED <<facts, owed, mailbox, drawn>>
        /\ "screens" \in amiss' \/ ("SCREENS" \notin drawer.bits /\ amiss' = amiss)
        /\ amiss' \subseteq {"screens", "windows", "menu"}
        /\ "windows" \in amiss => "windows" \in amiss'
        /\ "menu" \in amiss => "menu" \in amiss'
    BY <1>0 DEF Host!CannotMeasure, Host!NotMeasured, Host!TypeOK
  <1>2. /\ drawer'.step = "view" /\ drawer'.bits = drawer.bits /\ drawer'.has = drawer.has
        /\ drawer' \in [step : {"off", "wait", "measure", "view", "apply", "notice", "menu"},
                        bits : SUBSET Host!Bits, has : [Host!Fact -> Host!Numbers]]
    BY <1>0, <1>1, HostGoes
  <1>3. Host!TypeOK'  BY <1>0, <1>1, <1>2 DEF Host!TypeOK
  <1>4. HostMail'  BY <1>1, <1>2 DEF HostInv, HostMail
  <1>5. HostFacts'  BY <1>1, <1>2 DEF HostInv, HostFacts, Doing
  <1>6. HostDrawn'  BY <1>1, <1>2 DEF HostInv, HostDrawn, Shown, WindowsDone
  <1> QED BY <1>3, <1>4, <1>5, <1>6 DEF HostInv

\* The view is read, where it may have changed.
LEMMA HostViewKeeps == ASSUME HostInv, Host!ReadView PROVE HostInv'
  <1>0. Host!TypeOK  BY DEF HostInv
  <1> DEFINE has == [drawer.has EXCEPT !["view"] =
                       IF "DISPLAY" \in drawer.bits THEN facts["view"] ELSE drawer.has["view"]]
  <1>1. /\ drawer.step = "view" /\ drawer' = [drawer EXCEPT !.step = "apply", !.has = has]
        /\ UNCHANGED <<facts, owed, mailbox, drawn, amiss>>
    BY <1>0 DEF Host!ReadView, Host!TypeOK
  <1>2. /\ has \in [Host!Fact -> Host!Numbers]
        /\ "DISPLAY" \in drawer.bits => has["view"] = facts["view"]
        /\ \A f \in Host!Fact : f # "view" => has[f] = drawer.has[f]
        /\ "DISPLAY" \notin drawer.bits => has = drawer.has
    BY <1>0, HostTypes DEF Host!Fact
  <1> HIDE DEF has
  <1>3. /\ drawer'.step = "apply" /\ drawer'.bits = drawer.bits /\ drawer'.has = has
        /\ drawer' \in [step : {"off", "wait", "measure", "view", "apply", "notice", "menu"},
                        bits : SUBSET Host!Bits, has : [Host!Fact -> Host!Numbers]]
    BY <1>0, <1>1, <1>2 DEF Host!TypeOK
  <1>4. Host!TypeOK'  BY <1>0, <1>1, <1>3 DEF Host!TypeOK
  <1>5. /\ has["snapshot"] = drawer.has["snapshot"] /\ has["light"] = drawer.has["light"]
        /\ has["screens"] = drawer.has["screens"] /\ has["notice"] = drawer.has["notice"]
    BY <1>2 DEF Host!Fact
  <1>6. HostMail'  BY <1>1, <1>3, <1>5 DEF HostInv, HostMail
  <1>7. HostFacts'  BY <1>1, <1>2, <1>3, <1>5 DEF HostInv, HostFacts, Doing
  <1>8. HostDrawn'
    <2>1. HostDrawn  BY DEF HostInv
    <2>2. CASE "DISPLAY" \in drawer.bits
      <3>1. drawer.bits \cap Host!WindowBits # {}  BY <2>2 DEF Host!WindowBits
      <3> QED BY <1>3, <2>2, <3>1 DEF HostDrawn
    <2>3. CASE "DISPLAY" \notin drawer.bits
      BY <1>1, <1>2, <1>3, <2>1, <2>3 DEF HostDrawn, Shown, WindowsDone
    <2> QED BY <2>2, <2>3
  <1> QED BY <1>4, <1>6, <1>7, <1>8 DEF HostInv

\* The windows are drawn from what the worker has, or one of them cannot be.
LEMMA HostApplyKeeps == ASSUME HostInv, Host!Apply \/ Host!CannotApply PROVE HostInv'
  <1>0. Host!TypeOK  BY DEF HostInv
  <1>1. /\ drawer.step = "apply" /\ Host!Goes("notice") /\ UNCHANGED <<facts, owed, mailbox>>
        /\ \/ drawer.bits \cap Host!WindowBits = {} /\ drawn' = drawn /\ amiss' = amiss
           \/ drawn' = [drawn EXCEPT !.windows = Shown] /\ amiss' = amiss \ {"windows"}
           \/ drawn' = drawn /\ amiss' = amiss \cup {"windows"}
    BY DEF Host!Apply, Host!CannotApply, Shown
  <1>2. /\ drawer'.step = "notice" /\ drawer'.bits = drawer.bits /\ drawer'.has = drawer.has
        /\ drawer' \in [step : {"off", "wait", "measure", "view", "apply", "notice", "menu"},
                        bits : SUBSET Host!Bits, has : [Host!Fact -> Host!Numbers]]
    BY <1>0, <1>1, HostGoes
  <1>3. /\ drawn'.menu = drawn.menu /\ drawn'.notice = drawn.notice
        /\ \/ drawn'.windows = Shown \/ "windows" \in amiss'
           \/ drawer.bits \cap Host!WindowBits = {} /\ drawn' = drawn /\ amiss' = amiss
        /\ drawn' \in [windows : [Host!Windows -> Host!Numbers],
                       menu : [Host!Menu -> Host!Numbers], notice : Host!Numbers]
    <2>1. Shown \in [Host!Windows -> Host!Numbers]
      BY <1>0, HostTypes DEF Shown, Host!Windows, Host!Fact
    <2> QED BY <1>0, <1>1, <2>1 DEF Host!TypeOK
  <1>4. /\ amiss' \subseteq {"screens", "windows", "menu"}
        /\ "screens" \in amiss' <=> "screens" \in amiss
        /\ "menu" \in amiss' <=> "menu" \in amiss
    <2>1. amiss \subseteq {"screens", "windows", "menu"}  BY <1>0 DEF Host!TypeOK
    <2> QED BY <1>1, <2>1
  <1>5. Host!TypeOK'  BY <1>0, <1>1, <1>2, <1>3, <1>4 DEF Host!TypeOK
  <1>6. HostMail'  BY <1>1, <1>2 DEF HostInv, HostMail
  <1>7. HostFacts'  BY <1>1, <1>2, <1>3, <1>4 DEF HostInv, HostFacts, Doing
  <1>8. HostDrawn'
    <2>1. HostDrawn  BY DEF HostInv
    <2>2. Shown' = Shown  BY <1>2 DEF Shown
    <2>3. "DISPLAY" \in mailbox.bits \/ WindowsDone'
      BY <1>1, <1>3, <2>1, <2>2 DEF HostDrawn, WindowsDone
    <2> QED BY <1>1, <1>2, <1>3, <1>4, <2>1, <2>3 DEF HostDrawn
  <1> QED BY <1>5, <1>6, <1>7, <1>8 DEF HostInv

\* The notice is read, whether or not it changed.
LEMMA HostNoticeKeeps == ASSUME HostInv, Host!ReadNotice PROVE HostInv'
  <1>0. Host!TypeOK  BY DEF HostInv
  <1> DEFINE has == [drawer.has EXCEPT !["notice"] = facts["notice"]]
  <1>1. /\ drawer.step = "notice" /\ drawer' = [drawer EXCEPT !.step = "menu", !.has = has]
        /\ drawn' = IF "UPDATE" \in drawer.bits THEN [drawn EXCEPT !.notice = facts["notice"]] ELSE drawn
        /\ UNCHANGED <<facts, owed, mailbox, amiss>>
    BY DEF Host!ReadNotice
  <1>2. /\ has \in [Host!Fact -> Host!Numbers] /\ has["notice"] = facts["notice"]
        /\ \A f \in Host!Fact : f # "notice" => has[f] = drawer.has[f]
        /\ drawer.has["notice"] = facts["notice"] => has = drawer.has
    BY <1>0, HostTypes DEF Host!Fact
  <1> HIDE DEF has
  <1>3. /\ drawer'.step = "menu" /\ drawer'.bits = drawer.bits /\ drawer'.has = has
        /\ drawer' \in [step : {"off", "wait", "measure", "view", "apply", "notice", "menu"},
                        bits : SUBSET Host!Bits, has : [Host!Fact -> Host!Numbers]]
    BY <1>0, <1>1, <1>2 DEF Host!TypeOK
  <1>4. /\ drawn'.menu = drawn.menu /\ drawn'.windows = drawn.windows
        /\ "UPDATE" \in drawer.bits => drawn'.notice = facts["notice"]
        /\ "UPDATE" \notin drawer.bits => drawn'.notice = drawn.notice
        /\ drawn' \in [windows : [Host!Windows -> Host!Numbers],
                       menu : [Host!Menu -> Host!Numbers], notice : Host!Numbers]
    <2>1. facts["notice"] \in Host!Numbers  BY <1>0, HostTypes DEF Host!Fact
    <2> QED BY <1>0, <1>1, <2>1 DEF Host!TypeOK
  <1>5. Host!TypeOK'  BY <1>0, <1>1, <1>3, <1>4 DEF Host!TypeOK
  <1>6. /\ has["snapshot"] = drawer.has["snapshot"] /\ has["light"] = drawer.has["light"]
        /\ has["screens"] = drawer.has["screens"] /\ has["view"] = drawer.has["view"]
    BY <1>2 DEF Host!Fact
  <1>7. HostMail'  BY <1>1, <1>3, <1>6 DEF HostInv, HostMail
  <1>8. HostFacts'
    <2>1. HostFacts  BY DEF HostInv
    <2> QED BY <1>1, <1>2, <1>3, <1>4, <1>6, <2>1 DEF HostFacts, Doing
  <1>9. HostDrawn'
    <2>1. HostDrawn /\ HostFacts  BY DEF HostInv
    <2>2. Shown' = Shown
      <3>1. \A f \in Host!Windows : has[f] = drawer.has[f]
        BY <1>2 DEF Host!Windows, Host!Fact
      <3> QED BY <1>3, <3>1 DEF Shown
    <2>3. WindowsDone \/ "DISPLAY" \in mailbox.bits  BY <1>1, <2>1 DEF HostDrawn
    <2>4. has["snapshot"] # 0 /\ drawn.menu # has =>
            "menu" \in amiss \/ owed # {} \/ mailbox.bits # {} \/ drawer.bits # {}
      <3>1. CASE drawer.has["notice"] = facts["notice"]
        BY <1>1, <1>2, <2>1, <3>1 DEF HostDrawn
      <3>2. CASE drawer.has["notice"] # facts["notice"]
        BY <2>1, <3>2 DEF HostFacts, Doing
      <3> QED BY <3>1, <3>2
    <2> QED BY <1>1, <1>3, <1>4, <2>2, <2>3, <2>4 DEF HostDrawn, WindowsDone
  <1> QED BY <1>5, <1>7, <1>8, <1>9 DEF HostInv

\* The menu bar is drawn or cannot be, and the pass is over.
LEMMA HostMenuKeeps == ASSUME HostInv, Host!DrawMenu \/ Host!CannotDrawMenu PROVE HostInv'
  <1>0. Host!TypeOK  BY DEF HostInv
  <1>1. /\ drawer.step = "menu" /\ drawer' = [drawer EXCEPT !.step = "wait", !.bits = {}]
        /\ \/ drawn' = drawn /\ amiss' = amiss /\ (drawer.bits = {} \/ drawer.has["snapshot"] = 0)
           \/ drawn' = [drawn EXCEPT !.menu = drawer.has] /\ amiss' = amiss \ {"menu"}
           \/ drawn' = drawn /\ amiss' = amiss \cup {"menu"}
        /\ UNCHANGED <<facts, owed, mailbox>>
    BY DEF Host!DrawMenu, Host!CannotDrawMenu
  <1>2. /\ drawer'.step = "wait" /\ drawer'.bits = {} /\ drawer'.has = drawer.has
        /\ drawer' \in [step : {"off", "wait", "measure", "view", "apply", "notice", "menu"},
                        bits : SUBSET Host!Bits, has : [Host!Fact -> Host!Numbers]]
    BY <1>0, <1>1 DEF Host!TypeOK
  <1>3. /\ drawn'.windows = drawn.windows /\ drawn'.notice = drawn.notice
        /\ \/ drawn'.menu = drawer.has \/ "menu" \in amiss'
           \/ /\ drawn'.menu = drawn.menu /\ amiss' = amiss
              /\ drawer.bits = {} \/ drawer.has["snapshot"] = 0
        /\ drawn' \in [windows : [Host!Windows -> Host!Numbers],
                       menu : [Host!Menu -> Host!Numbers], notice : Host!Numbers]
    <2>1. drawer.has \in [Host!Menu -> Host!Numbers]  BY <1>0, HostTypes DEF Host!Menu
    <2> QED BY <1>0, <1>1, <2>1 DEF Host!TypeOK
  <1>4. /\ amiss' \subseteq {"screens", "windows", "menu"}
        /\ "screens" \in amiss' <=> "screens" \in amiss
        /\ "windows" \in amiss' <=> "windows" \in amiss
    <2>1. amiss \subseteq {"screens", "windows", "menu"}  BY <1>0 DEF Host!TypeOK
    <2> QED BY <1>1, <2>1
  <1>5. Host!TypeOK'  BY <1>0, <1>1, <1>2, <1>3, <1>4 DEF Host!TypeOK
  <1>6. HostMail'  BY <1>1, <1>2 DEF HostInv, HostMail
  <1>7. HostFacts'  BY <1>1, <1>2, <1>3, <1>4 DEF HostInv, HostFacts, Doing
  <1>8. HostDrawn'
    <2>1. HostDrawn  BY DEF HostInv
    <2>2. Shown' = Shown  BY <1>2 DEF Shown
    <2>3. "DISPLAY" \in mailbox.bits \/ WindowsDone'
      BY <1>1, <1>3, <1>4, <2>1, <2>2 DEF HostDrawn, WindowsDone
    <2> QED BY <1>1, <1>2, <1>3, <2>1, <2>3 DEF HostDrawn
  <1> QED BY <1>5, <1>6, <1>7, <1>8 DEF HostInv

-----------------------------------------------------------------------------
\* Nothing has changed and nothing is drawn before the host starts.
LEMMA HostInitHolds == ASSUME Host!Init PROVE HostInv
  <1>1. /\ facts = Host!Nil /\ owed = {} /\ amiss = {}
        /\ mailbox = [bits |-> {"SCREENS", "DISPLAY"}, snapshot |-> 0, light |-> 0, stopped |-> FALSE]
        /\ drawer = [step |-> "off", bits |-> {}, has |-> Host!Nil]
        /\ drawn = [windows |-> [f \in Host!Windows |-> 0], menu |-> Host!Nil, notice |-> 0]
    BY DEF Host!Init
  <1>2. /\ mailbox.bits = {"SCREENS", "DISPLAY"} /\ mailbox.snapshot = 0 /\ mailbox.light = 0
        /\ drawer.step = "off" /\ drawer.bits = {} /\ drawer.has = Host!Nil /\ drawn.notice = 0
    BY <1>1
  <1>3. Host!TypeOK
    <2>1. 0 \in Host!Numbers  BY ONLY HostBounds DEF Host!Numbers
    <2>2. Host!Nil \in [Host!Fact -> Host!Numbers]  BY <2>1 DEF Host!Nil
    <2>3. [f \in Host!Windows |-> 0] \in [Host!Windows -> Host!Numbers]  BY <2>1
    <2>4. mailbox \in [bits : SUBSET Host!Bits, snapshot : Host!Numbers, light : Host!Numbers,
                       stopped : BOOLEAN]
      BY <1>1, <2>1 DEF Host!Bits
    <2>5. drawer \in [step : {"off", "wait", "measure", "view", "apply", "notice", "menu"},
                      bits : SUBSET Host!Bits, has : [Host!Fact -> Host!Numbers]]
      BY <1>1, <2>2
    <2>6. drawn \in [windows : [Host!Windows -> Host!Numbers],
                     menu : [Host!Menu -> Host!Numbers], notice : Host!Numbers]
      BY <1>1, <2>1, <2>2, <2>3 DEF Host!Menu
    <2> QED BY <1>1, <2>2, <2>4, <2>5, <2>6 DEF Host!TypeOK
  <1>4. HostMail  BY <1>1, <1>2 DEF HostMail, Host!Nil, Host!Fact
  <1>5. HostFacts  BY <1>1, <1>2 DEF HostFacts, Host!Nil, Host!Fact
  <1>6. HostDrawn  BY <1>2 DEF HostDrawn
  <1> QED BY <1>3, <1>4, <1>5, <1>6 DEF HostInv

\* Every step of the host keeps its invariant.
LEMMA HostNextKeeps == ASSUME HostInv, Host!Next PROVE HostInv'
  BY HostChangeKeeps, HostWakeKeeps, HostClockKeeps, HostStopKeeps, HostStartKeeps,
     HostEndKeeps, HostTakeKeeps, HostMeasureKeeps, HostUnmeasuredKeeps, HostViewKeeps,
     HostApplyKeeps, HostNoticeKeeps, HostMenuKeeps DEF Host!Next

\* A step of another leaves it.
LEMMA HostStays == ASSUME HostInv, UNCHANGED hostVars PROVE HostInv'
  <1>1. UNCHANGED <<facts, owed, mailbox, drawer, drawn, amiss>>  BY DEF hostVars
  <1>2. Host!TypeOK'  BY <1>1 DEF HostInv, Host!TypeOK
  <1>3. HostMail'  BY <1>1 DEF HostInv, HostMail
  <1>4. HostFacts'  BY <1>1 DEF HostInv, HostFacts, Doing
  <1>5. HostDrawn'  BY <1>1 DEF HostInv, HostDrawn, Shown, WindowsDone
  <1> QED BY <1>2, <1>3, <1>4, <1>5 DEF HostInv

\* With nothing on its way, all the worker has and could draw is what is so.
LEMMA HostSo == ASSUME HostInv PROVE Host!DrawnIsSo
  <1> SUFFICES ASSUME drawer.step = "wait", mailbox.bits = {}, owed = {}
               PROVE  /\ \A f \in Host!Fact :
                            drawer.has[f] = facts[f] \/ (f = "screens" /\ f \in amiss)
                      /\ \/ "windows" \in amiss
                         \/ drawn.windows = [f \in Host!Windows |-> drawer.has[f]]
                      /\ facts["snapshot"] # 0 =>
                            "menu" \in amiss \/ drawn.menu = drawer.has
                      /\ drawn.notice = facts["notice"]
    BY DEF Host!DrawnIsSo
  <1>1. HostMail /\ HostFacts /\ HostDrawn  BY DEF HostInv
  <1>2. drawer.has["snapshot"] = facts["snapshot"] /\ drawer.has["light"] = facts["light"]
    BY <1>1 DEF HostMail
  <1>3. /\ drawer.has["view"] = facts["view"]
        /\ drawer.has["screens"] = facts["screens"] \/ "screens" \in amiss
        /\ drawer.has["notice"] = facts["notice"] /\ drawn.notice = facts["notice"]
    BY <1>1 DEF HostFacts, Doing
  <1>4. /\ "windows" \in amiss \/ drawn.windows = Shown
        /\ drawer.has["snapshot"] # 0 => "menu" \in amiss \/ drawn.menu = drawer.has
    BY <1>1 DEF HostDrawn, WindowsDone
  <1>5. \A f \in Host!Fact : drawer.has[f] = facts[f] \/ (f = "screens" /\ f \in amiss)
    BY <1>2, <1>3 DEF Host!Fact
  <1> QED BY <1>2, <1>3, <1>4, <1>5 DEF Shown

-----------------------------------------------------------------------------
(* AccountReadings: every step keeps its invariant.                        *)

ReadingsControls ==
    [force : BOOLEAN, enabled : BOOLEAN, work : Readings!Work, finished : Readings!Times,
     homes : Readings!Homes]
ReadingsEntries ==
    [there : BOOLEAN, homes : Readings!Homes, sign : Signs \cup {Readings!NoSign},
     attempted : Readings!Times, failures : 0..MaxFailed, retryAt : 0..Readings!Never,
     reset : 0..Readings!Never, restored : BOOLEAN]
ReadingsReaders ==
    [step : {"look", "asleep", "begun", "read"}, until : 0..(MaxMinute + Quiet),
     woken : BOOLEAN, homes : Readings!Homes, sign : Signs \cup {Readings!NoSign},
     good : BOOLEAN, attempted : Readings!Times]

\* The numbers of the readings' state.
LEMMA ReadingsNumbers ==
    ASSUME Readings!TypeOK
    PROVE  /\ MaxMinute \in Nat /\ Quiet \in Nat /\ Running \in Nat
           /\ MaxFailed \in Nat /\ MaxFailed >= 1
           /\ minute \in Nat /\ minute <= MaxMinute
           /\ entry.attempted \in Nat /\ entry.failures \in Nat /\ entry.failures <= MaxFailed
           /\ entry.retryAt \in Nat /\ entry.reset \in Nat
           /\ reader.until \in Nat /\ reader.attempted \in Nat
  <1>1. /\ MaxMinute \in Nat /\ Quiet \in Nat /\ Running \in Nat /\ MaxFailed \in Nat
        /\ MaxFailed >= 1
    BY ONLY ReadingsBounds
  <1>2. /\ minute \in 0..MaxMinute /\ entry.attempted \in 0..MaxMinute
        /\ entry.failures \in 0..MaxFailed /\ entry.retryAt \in 0..(MaxMinute + 1)
        /\ entry.reset \in 0..(MaxMinute + 1)
        /\ reader.until \in 0..(MaxMinute + Quiet) /\ reader.attempted \in 0..MaxMinute
    BY DEF Readings!TypeOK, Readings!Times, Readings!Never
  <1> QED BY ONLY <1>1, <1>2

\* The parts of the readings' state.
LEMMA ReadingsTypes ==
    ASSUME Readings!TypeOK
    PROVE  /\ control \in ReadingsControls /\ entry \in ReadingsEntries
           /\ reader \in ReadingsReaders /\ minute \in Readings!Times
           /\ 0 \in Readings!Times /\ 0 \in 0..MaxFailed /\ 0 \in 0..Readings!Never
           /\ 0 \in 0..(MaxMinute + Quiet)
  <1>1. /\ control \in ReadingsControls /\ entry \in ReadingsEntries
        /\ reader \in ReadingsReaders /\ minute \in Readings!Times
    BY DEF Readings!TypeOK, ReadingsControls, ReadingsEntries, ReadingsReaders
  <1>2. MaxMinute \in Nat /\ Quiet \in Nat /\ MaxFailed \in Nat  BY ONLY ReadingsBounds
  <1>3. /\ 0 \in Readings!Times /\ 0 \in 0..MaxFailed /\ 0 \in 0..Readings!Never
        /\ 0 \in 0..(MaxMinute + Quiet)
    BY ONLY <1>2 DEF Readings!Times, Readings!Never
  <1> QED BY <1>1, <1>3

\* The lesser of two, and the greatest of three.
LEMMA ReadingsMin ==
    ASSUME NEW a \in Nat, NEW b \in Nat
    PROVE  /\ Readings!Min({a, b}) \in {a, b} /\ Readings!Min({a, b}) \in Nat
           /\ Readings!Min({a, b}) <= a /\ Readings!Min({a, b}) <= b
  <1>1. \E x \in {a, b} : \A y \in {a, b} : x <= y  OBVIOUS
  <1>2. /\ Readings!Min({a, b}) \in {a, b}
        /\ \A y \in {a, b} : Readings!Min({a, b}) <= y
    BY <1>1 DEF Readings!Min
  <1> QED BY <1>2

LEMMA ReadingsMax ==
    ASSUME NEW a \in Nat, NEW b \in Nat, NEW c \in Nat
    PROVE  /\ Readings!Max({a, b, c}) \in {a, b, c} /\ Readings!Max({a, b, c}) \in Nat
           /\ Readings!Max({a, b, c}) >= a /\ Readings!Max({a, b, c}) >= b
           /\ Readings!Max({a, b, c}) >= c
  <1>1. \E x \in {a, b, c} : \A y \in {a, b, c} : x >= y
    <2>1. CASE a >= b /\ a >= c  BY <2>1
    <2>2. CASE b >= a /\ b >= c  BY <2>2
    <2>3. CASE c >= a /\ c >= b  BY <2>3
    <2> QED BY <2>1, <2>2, <2>3
  <1>2. /\ Readings!Max({a, b, c}) \in {a, b, c}
        /\ \A y \in {a, b, c} : Readings!Max({a, b, c}) >= y
    BY <1>1 DEF Readings!Max
  <1> QED BY <1>2

\* What is left of a pause falls by one at most when a unit of time passes.
LEMMA ReadingsLess ==
    ASSUME NEW a \in Nat, NEW b \in Nat
    PROVE  /\ Readings!Less(a, b) \in Nat
           /\ Readings!Less(a, b + 1) \in Nat /\ Readings!Less(a, b + 1) + 1 >= Readings!Less(a, b)
  BY DEF Readings!Less

\* The pauses are numbers.
LEMMA ReadingsPauses ==
    ASSUME Readings!TypeOK, ReadingsPast
    PROVE  /\ Readings!Elapsed \in Nat /\ Readings!Interval \in Nat
           /\ entry.failures > 0 => Readings!Backoff(entry.failures) \in Nat
  <1>1. Readings!Elapsed \in Nat
    <2>1. minute \in Nat /\ entry.attempted \in Nat  BY ReadingsNumbers
    <2>2. entry.attempted <= minute  BY DEF ReadingsPast
    <2> QED BY ONLY <2>1, <2>2 DEF Readings!Elapsed
  <1>2. Readings!Interval \in Nat
    <2>1. Quiet \in Nat /\ Running \in Nat /\ MaxMinute + 1 \in Nat  BY ReadingsNumbers
    <2>2. Readings!Interval \in {1, Running, Quiet, MaxMinute + 1}
      BY DEF Readings!Interval, Readings!Spacing, Readings!Never
    <2> QED BY <2>1, <2>2
  <1>3. ASSUME entry.failures > 0 PROVE Readings!Backoff(entry.failures) \in Nat
    <2>1. entry.failures \in Nat  BY ReadingsNumbers
    <2>2. entry.failures \in {1, 2, 3, 4} \/ entry.failures > 4  BY ONLY <1>3, <2>1
    <2> QED BY <2>1, <2>2 DEF Readings!Backoff
  <1> QED BY <1>1, <1>2, <1>3

\* What is left until the next reading is due is a number; and it falls by one
\* at most when a unit of time passes.
LEMMA ReadingsDue ==
    ASSUME Readings!TypeOK, ReadingsPast
    PROVE  Readings!DueAfter \in Nat
  <1>1. /\ Readings!Elapsed \in Nat /\ Readings!Interval \in Nat
        /\ entry.failures > 0 => Readings!Backoff(entry.failures) \in Nat
    BY ReadingsPauses
  <1>2. minute \in Nat /\ entry.retryAt \in Nat /\ entry.reset \in Nat  BY ReadingsNumbers
  <1>3. Readings!Pause \in Nat
    BY <1>1, <1>2, ReadingsLess, ReadingsMin DEF Readings!Pause
  <1>4. entry.failures > 0 => Readings!Retry \in Nat  BY <1>1, ReadingsLess DEF Readings!Retry
  <1>5. /\ Readings!Less(Readings!Spacing, Readings!Elapsed) \in Nat
        /\ Readings!Less(entry.retryAt, minute) \in Nat
    BY <1>1, <1>2, ReadingsLess DEF Readings!Spacing
  <1>6. (IF entry.failures > 0 THEN Readings!Retry ELSE Readings!Pause) \in Nat
    BY <1>3, <1>4
  <1> QED BY <1>5, <1>6, ReadingsMax DEF Readings!DueAfter

LEMMA ReadingsNearer ==
    ASSUME Readings!TypeOK, ReadingsPast, Readings!Tick
    PROVE  Readings!DueAfter' \in Nat /\ Readings!DueAfter' + 1 >= Readings!DueAfter
  <1>1. /\ Readings!Elapsed \in Nat /\ Readings!Interval \in Nat
        /\ entry.failures > 0 => Readings!Backoff(entry.failures) \in Nat
    BY ReadingsPauses
  <1>2. minute \in Nat /\ entry.retryAt \in Nat /\ entry.reset \in Nat
        /\ entry.attempted \in Nat
    BY ReadingsNumbers
  <1>3. minute' = minute + 1 /\ UNCHANGED <<sign, control, entry, reader, unheard>>
    BY DEF Readings!Tick
  <1>4. /\ Readings!Elapsed' = Readings!Elapsed + 1 /\ Readings!Interval' = Readings!Interval
        /\ Readings!Finished' = Readings!Finished /\ Readings!ResetAhead' = Readings!ResetAhead
        /\ Readings!OfThisComputer' = Readings!OfThisComputer
    BY <1>2, <1>3 DEF Readings!Elapsed, Readings!Interval, Readings!Finished, Readings!ResetAhead,
                      Readings!OfThisComputer
  <1> DEFINE rests == IF Readings!OfThisComputer /\ control.work = "none" /\ Readings!Finished
                      THEN 0 ELSE Readings!Less(Readings!Interval, Readings!Elapsed)
             later == IF Readings!OfThisComputer /\ control.work = "none" /\ Readings!Finished
                      THEN 0 ELSE Readings!Less(Readings!Interval, Readings!Elapsed + 1)
  <1>5. rests \in Nat /\ later \in Nat /\ later + 1 >= rests  BY <1>1, ReadingsLess
  <1>6. /\ Readings!Pause = IF Readings!ResetAhead
                            THEN Readings!Min({rests, Readings!Less(entry.reset, minute)}) ELSE rests
        /\ Readings!Pause' = IF Readings!ResetAhead
                             THEN Readings!Min({later, Readings!Less(entry.reset, minute + 1)}) ELSE later
    BY <1>3, <1>4 DEF Readings!Pause
  <1> HIDE DEF rests, later
  <1>7. Readings!Pause \in Nat /\ Readings!Pause' \in Nat /\ Readings!Pause' + 1 >= Readings!Pause
    <2> DEFINE a == Readings!Less(entry.reset, minute)
               b == Readings!Less(entry.reset, minute + 1)
    <2>1. a \in Nat /\ b \in Nat /\ b + 1 >= a  BY <1>2, ReadingsLess
    <2> HIDE DEF a, b
    <2>2. /\ Readings!Min({rests, a}) \in Nat /\ Readings!Min({rests, a}) <= rests
          /\ Readings!Min({rests, a}) <= a
      BY <1>5, <2>1, ReadingsMin
    <2>3. Readings!Min({later, b}) \in Nat /\ Readings!Min({later, b}) \in {later, b}
      BY <1>5, <2>1, ReadingsMin
    <2>4. Readings!Min({later, b}) + 1 >= Readings!Min({rests, a})
      BY <1>5, <2>1, <2>2, <2>3
    <2>5. /\ Readings!Pause = (IF Readings!ResetAhead THEN Readings!Min({rests, a}) ELSE rests)
          /\ Readings!Pause' = (IF Readings!ResetAhead THEN Readings!Min({later, b}) ELSE later)
      BY <1>6 DEF a, b
    <2>6. CASE Readings!ResetAhead  BY <2>2, <2>3, <2>4, <2>5, <2>6
    <2>7. CASE ~Readings!ResetAhead  BY <1>5, <2>5, <2>7
    <2> QED BY <2>6, <2>7
  <1>8. ASSUME entry.failures > 0
        PROVE  Readings!Retry \in Nat /\ Readings!Retry' \in Nat /\ Readings!Retry' + 1 >= Readings!Retry
    <2>1. /\ Readings!Retry = IF control.force \/ (Readings!OfThisComputer /\ Readings!Finished) THEN 0
                              ELSE Readings!Less(Readings!Backoff(entry.failures), Readings!Elapsed)
          /\ Readings!Retry' = IF control.force \/ (Readings!OfThisComputer /\ Readings!Finished) THEN 0
                               ELSE Readings!Less(Readings!Backoff(entry.failures), Readings!Elapsed + 1)
      BY <1>3, <1>4 DEF Readings!Retry, Readings!Backoff
    <2> QED BY <1>1, <1>8, <2>1, ReadingsLess
  <1>9. CASE ~entry.there \/ entry.restored
    BY <1>3, <1>9 DEF Readings!DueAfter
  <1>10. CASE entry.there /\ ~entry.restored
    <2> DEFINE a == IF entry.failures > 0 THEN Readings!Retry ELSE Readings!Pause
               a2 == IF entry.failures > 0 THEN Readings!Retry' ELSE Readings!Pause'
               b == Readings!Less(Readings!Spacing, Readings!Elapsed)
               b2 == Readings!Less(Readings!Spacing, Readings!Elapsed + 1)
               c == Readings!Less(entry.retryAt, minute)
               c2 == Readings!Less(entry.retryAt, minute + 1)
    <2>1. a \in Nat /\ a2 \in Nat /\ a2 + 1 >= a  BY <1>7, <1>8
    <2>2. b \in Nat /\ b2 \in Nat /\ b2 + 1 >= b  BY <1>1, ReadingsLess DEF Readings!Spacing
    <2>3. c \in Nat /\ c2 \in Nat /\ c2 + 1 >= c  BY <1>2, ReadingsLess
    <2>4. Readings!DueAfter = Readings!Max({a, b, c}) /\ Readings!DueAfter' = Readings!Max({a2, b2, c2})
      BY <1>3, <1>4, <1>10 DEF Readings!DueAfter, Readings!Spacing
    <2> HIDE DEF a, a2, b, b2, c, c2
    <2>5. Readings!Max({a, b, c}) \in {a, b, c}  BY <2>1, <2>2, <2>3, ReadingsMax
    <2>6. /\ Readings!Max({a2, b2, c2}) \in Nat /\ Readings!Max({a2, b2, c2}) >= a2
          /\ Readings!Max({a2, b2, c2}) >= b2 /\ Readings!Max({a2, b2, c2}) >= c2
      BY <2>1, <2>2, <2>3, ReadingsMax
    <2> QED BY <2>1, <2>2, <2>3, <2>4, <2>5, <2>6
  <1> QED BY <1>9, <1>10

-----------------------------------------------------------------------------
\* Time passes: the worker sleeps on, no longer than it may.
LEMMA ReadingsTickKeeps == ASSUME ReadingsInv, Readings!Tick PROVE ReadingsInv'
  <1>0. Readings!TypeOK /\ ReadingsPast  BY DEF ReadingsInv
  <1>1. /\ minute < MaxMinute /\ minute' = minute + 1
        /\ UNCHANGED <<sign, control, entry, reader, unheard>>
    BY DEF Readings!Tick
  <1>2. /\ minute \in Nat /\ MaxMinute \in Nat /\ entry.attempted \in Nat
        /\ reader.attempted \in Nat /\ reader.until \in Nat
    BY <1>0, ReadingsNumbers
  <1>3. minute' \in Readings!Times  BY ONLY <1>1, <1>2 DEF Readings!Times
  <1>4. Readings!TypeOK'  BY <1>0, <1>1, <1>3 DEF Readings!TypeOK
  <1>5. ReadingsAgain'  BY <1>1 DEF ReadingsInv, ReadingsAgain
  <1>6. Readings!DueAfter \in Nat /\ Readings!DueAfter' \in Nat
        /\ Readings!DueAfter' + 1 >= Readings!DueAfter
    BY <1>0, ReadingsDue, ReadingsNearer
  <1>7. ReadingsSlept'
    <2> SUFFICES ASSUME reader.step = "asleep", ~reader.woken, ~unheard, minute' < reader.until,
                        control.enabled
                 PROVE  Readings!DueAfter' >= reader.until - minute'
      BY <1>1 DEF ReadingsSlept
    <2>1. minute < reader.until  BY <1>1, <1>2
    <2>2. Readings!DueAfter >= reader.until - minute
      BY <2>1 DEF ReadingsInv, ReadingsSlept
    <2>3. minute' = minute + 1 /\ reader.until \in Nat /\ minute \in Nat  BY <1>1, <1>2
    <2>4. ASSUME NEW due \in Nat, NEW then \in Nat, NEW until \in Nat, NEW m \in Nat,
                 then + 1 >= due, due >= until - m
          PROVE  then >= until - (m + 1)
      BY ONLY <2>4
    <2> QED BY <1>6, <2>2, <2>3, <2>4
  <1>8. ReadingsPast'  BY <1>0, <1>1, <1>2 DEF ReadingsPast
  <1>9. Readings!ShownIsCurrent'
    <2>1. /\ entry'.there => entry'.homes = control'.homes
          /\ entry'.sign \in {sign', Readings!NoSign} \/ Readings!BeingRead' \/ entry'.failures > 0
             \/ entry'.restored
      BY <1>1 DEF ReadingsInv, Readings!ShownIsCurrent, Readings!BeingRead
    <2>2. ASSUME reader.step = "asleep", ~reader.woken, minute' < reader.until, Readings!Due',
                 ~unheard
          PROVE  FALSE
      <3>1. control.enabled /\ Readings!DueAfter' = 0  BY <1>1, <2>2 DEF Readings!Due
      <3>2. Readings!DueAfter' >= reader.until - minute'
        BY <1>1, <1>7, <2>2, <3>1 DEF ReadingsSlept
      <3> QED BY <1>1, <1>2, <2>2, <3>1, <3>2
    <2> QED BY <1>1, <2>1, <2>2 DEF Readings!ShownIsCurrent
  <1> QED BY <1>4, <1>5, <1>7, <1>8, <1>9 DEF ReadingsInv

\* A reading is asked for: the worker is woken.
LEMMA ReadingsRefreshKeeps == ASSUME ReadingsInv, Readings!Refresh PROVE ReadingsInv'
  <1>0. Readings!TypeOK  BY DEF ReadingsInv
  <1>1. /\ control' = [control EXCEPT !.force = control.force \/ control.enabled]
        /\ reader' = [reader EXCEPT !.woken = TRUE]
        /\ UNCHANGED <<minute, sign, entry, unheard>>
    BY <1>0, ReadingsTypes DEF Readings!Refresh, Readings!Notified, ReadingsControls
  <1>2. /\ control' \in ReadingsControls /\ control'.homes = control.homes
        /\ control.force => control'.force
    BY <1>0, <1>1, ReadingsTypes DEF ReadingsControls
  <1>3. /\ reader' \in ReadingsReaders /\ reader'.woken /\ reader'.step = reader.step
        /\ reader'.sign = reader.sign /\ reader'.homes = reader.homes
        /\ reader'.attempted = reader.attempted
    BY <1>0, <1>1, ReadingsTypes DEF ReadingsReaders
  <1>4. Readings!TypeOK'
    BY <1>0, <1>1, <1>2, <1>3 DEF Readings!TypeOK, ReadingsControls, ReadingsReaders
  <1>5. ReadingsAgain'  BY <1>1, <1>2, <1>3 DEF ReadingsInv, ReadingsAgain
  <1>6. ReadingsSlept'  BY <1>3 DEF ReadingsSlept
  <1>7. ReadingsPast'  BY <1>1, <1>3 DEF ReadingsInv, ReadingsPast
  <1>8. Readings!ShownIsCurrent'
    BY <1>1, <1>2, <1>3 DEF ReadingsInv, Readings!ShownIsCurrent, Readings!BeingRead
  <1> QED BY <1>4, <1>5, <1>6, <1>7, <1>8 DEF ReadingsInv

\* What an entry that is gone holds.
LEMMA ReadingsNoEntry ==
    ASSUME Readings!TypeOK
    PROVE  /\ Readings!NoEntry \in ReadingsEntries /\ ~Readings!NoEntry.there
           /\ Readings!NoEntry.sign = Readings!NoSign /\ Readings!NoEntry.attempted = 0
  BY ReadingsTypes DEF Readings!NoEntry, ReadingsEntries, Readings!Homes

\* Somebody signs in or out, or a consent changes: a reading is asked for.
LEMMA ReadingsSignKeeps ==
    ASSUME ReadingsInv, NEW new \in Signs, Readings!SignIn(new) \/ Readings!Consent(new)
    PROVE  ReadingsInv'
  <1>0. Readings!TypeOK  BY DEF ReadingsInv
  <1>1. /\ sign' = new /\ entry' \in {Readings!NoEntry, entry} /\ minute' = minute
        /\ \/ reader' = [reader EXCEPT !.woken = TRUE] /\ unheard' = unheard
           \/ reader' = reader /\ unheard' = TRUE
    BY DEF Readings!SignIn, Readings!Consent, Readings!Notified
  <1>2. /\ control' \in ReadingsControls /\ control'.homes = control.homes /\ control'.force
    <2>1. CASE Readings!SignIn(new)
      <3>1. PICK on \in {control.enabled, TRUE} :
              control' = [control EXCEPT !.force = TRUE, !.enabled = on]
        BY <2>1 DEF Readings!SignIn
      <3> QED BY <1>0, <3>1, ReadingsTypes DEF ReadingsControls
    <2>2. CASE Readings!Consent(new)
      BY <1>0, <2>2, ReadingsTypes DEF Readings!Consent, ReadingsControls
    <2> QED BY <2>1, <2>2
  <1>3. /\ reader' \in ReadingsReaders
        /\ reader'.woken \/ unheard'
        /\ reader'.step = reader.step
        /\ reader'.sign = reader.sign /\ reader'.homes = reader.homes
        /\ reader'.attempted = reader.attempted
    BY <1>0, <1>1, ReadingsTypes DEF ReadingsReaders
  <1>4. entry' \in ReadingsEntries /\ (entry' = entry \/ (~entry'.there /\ entry'.attempted = 0))
    BY <1>0, <1>1, ReadingsTypes, ReadingsNoEntry
  <1>5. Readings!TypeOK'
    <2>1. unheard' \in BOOLEAN  BY <1>0, <1>1 DEF Readings!TypeOK
    <2> QED BY <1>0, <1>1, <1>2, <1>3, <1>4, <2>1
          DEF Readings!TypeOK, ReadingsControls, ReadingsReaders, ReadingsEntries
  <1>6. ReadingsAgain'  BY <1>2 DEF ReadingsAgain
  <1>7. ReadingsSlept'  BY <1>3 DEF ReadingsSlept
  <1>8. ReadingsPast'
    <2>1. minute \in Nat  BY <1>0, ReadingsNumbers
    <2> QED BY <1>1, <1>3, <1>4, <2>1 DEF ReadingsInv, ReadingsPast
  <1>9. Readings!ShownIsCurrent'
    BY <1>2, <1>3, <1>4 DEF ReadingsInv, Readings!ShownIsCurrent, Readings!BeingRead
  <1> QED BY <1>5, <1>6, <1>7, <1>8, <1>9 DEF ReadingsInv

\* A pass tells of other homes: what was of the old ones is gone.
LEMMA ReadingsSourcesKeep == ASSUME ReadingsInv, Readings!UpdateSources PROVE ReadingsInv'
  <1>0. Readings!TypeOK  BY DEF ReadingsInv
  <1>1. PICK homes \in Readings!Homes, on \in BOOLEAN, work \in Readings!Work,
             finished \in {control.finished, minute} :
          /\ control' = [control EXCEPT !.homes = homes,
                           !.force = control.force \/ (homes # control.homes),
                           !.enabled = on, !.work = work, !.finished = finished]
          /\ entry' = IF homes # control.homes THEN Readings!NoEntry ELSE entry
    BY <1>0, ReadingsTypes DEF Readings!UpdateSources, ReadingsControls
  <1>2. /\ reader' = [reader EXCEPT !.woken = TRUE] /\ UNCHANGED <<minute, sign, unheard>>
    BY DEF Readings!UpdateSources, Readings!Notified
  <1>3. /\ control' \in ReadingsControls /\ control'.homes = homes
        /\ control.force => control'.force
        /\ homes # control.homes => control'.force
    <2>1. finished \in Readings!Times  BY <1>0, <1>1, ReadingsTypes DEF ReadingsControls
    <2>2. (control.force \/ (homes # control.homes)) \in BOOLEAN  OBVIOUS
    <2> QED BY <1>0, <1>1, <2>1, <2>2, ReadingsTypes DEF ReadingsControls
  <1>4. /\ reader' \in ReadingsReaders /\ reader'.woken /\ reader'.step = reader.step
        /\ reader'.sign = reader.sign /\ reader'.homes = reader.homes
        /\ reader'.attempted = reader.attempted
    BY <1>0, <1>2, ReadingsTypes DEF ReadingsReaders
  <1>5. /\ entry' \in ReadingsEntries
        /\ homes = control.homes => entry' = entry
        /\ homes # control.homes => ~entry'.there /\ entry'.attempted = 0
                                    /\ entry'.sign = Readings!NoSign
    BY <1>0, <1>1, ReadingsTypes, ReadingsNoEntry
  <1>6. Readings!TypeOK'
    BY <1>0, <1>2, <1>3, <1>4, <1>5
       DEF Readings!TypeOK, ReadingsControls, ReadingsReaders, ReadingsEntries
  <1>7. ReadingsAgain'  BY <1>2, <1>3, <1>4 DEF ReadingsInv, ReadingsAgain
  <1>8. ReadingsSlept'  BY <1>4 DEF ReadingsSlept
  <1>9. ReadingsPast'
    <2>1. minute \in Nat  BY <1>0, ReadingsNumbers
    <2> QED BY <1>2, <1>4, <1>5, <2>1 DEF ReadingsInv, ReadingsPast
  <1>10. Readings!ShownIsCurrent'
    BY <1>2, <1>3, <1>4, <1>5 DEF ReadingsInv, Readings!ShownIsCurrent, Readings!BeingRead
  <1> QED BY <1>6, <1>7, <1>8, <1>9, <1>10 DEF ReadingsInv

-----------------------------------------------------------------------------
\* What a worker that looks anew holds.
LEMMA ReadingsNoReading ==
    ASSUME Readings!TypeOK
    PROVE  /\ Readings!NoReading \in ReadingsReaders /\ Readings!NoReading.step = "look"
           /\ Readings!NoReading.attempted = 0
  BY ReadingsTypes DEF Readings!NoReading, ReadingsReaders, Readings!Homes

\* The worker sleeps until a reading is due.
LEMMA ReadingsSleepKeeps == ASSUME ReadingsInv, Readings!Sleep PROVE ReadingsInv'
  <1>0. Readings!TypeOK /\ ReadingsPast  BY DEF ReadingsInv
  <1> DEFINE least == Readings!Min({Quiet, Readings!DueAfter})
             pause == IF control.enabled THEN least ELSE Quiet
  <1>1. /\ reader.step = "look" /\ ~Readings!Due /\ unheard' = FALSE
        /\ reader' = [Readings!NoReading EXCEPT !.step = "asleep", !.until = minute + pause]
        /\ UNCHANGED <<minute, sign, control, entry>>
    BY DEF Readings!Sleep
  <1>2. /\ minute \in Nat /\ minute <= MaxMinute /\ MaxMinute \in Nat /\ Quiet \in Nat
        /\ Readings!DueAfter \in Nat
    BY <1>0, ReadingsNumbers, ReadingsDue
  <1>3. least \in Nat /\ least <= Quiet /\ least <= Readings!DueAfter
    BY <1>2, ReadingsMin
  <1>4. pause \in Nat /\ pause <= Quiet /\ (control.enabled => pause <= Readings!DueAfter)
    BY <1>2, <1>3
  <1> HIDE DEF least, pause
  <1>5. minute + pause \in 0..(MaxMinute + Quiet)  BY ONLY <1>2, <1>4
  <1>6. /\ reader' \in ReadingsReaders /\ reader'.step = "asleep" /\ reader'.until = minute + pause
        /\ reader'.attempted = 0
    BY <1>0, <1>1, <1>5, ReadingsNoReading DEF ReadingsReaders
  <1>7. Readings!TypeOK'
    <2>1. unheard' \in BOOLEAN  BY <1>1
    <2> QED BY <1>0, <1>1, <1>6, <2>1 DEF Readings!TypeOK, ReadingsReaders
  <1>8. ReadingsAgain'  BY <1>6 DEF ReadingsAgain
  <1>9. Readings!DueAfter' = Readings!DueAfter
    BY <1>1 DEF Readings!DueAfter, Readings!Retry, Readings!Pause, Readings!Interval,
       Readings!ResetAhead, Readings!OfThisComputer, Readings!Finished, Readings!Elapsed
  <1>10. ReadingsSlept'
    <2>1. control.enabled => Readings!DueAfter' >= reader'.until - minute'
      BY <1>1, <1>2, <1>4, <1>6, <1>9
    <2> QED BY <1>1, <2>1 DEF ReadingsSlept
  <1>11. ReadingsPast'  BY <1>0, <1>1, <1>2, <1>6 DEF ReadingsPast
  <1>12. Readings!ShownIsCurrent'
    <2>1. ~Readings!Due'  BY <1>1, <1>9 DEF Readings!Due
    <2> QED BY <1>1, <1>6, <2>1 DEF ReadingsInv, Readings!ShownIsCurrent, Readings!BeingRead
  <1> QED BY <1>7, <1>8, <1>10, <1>11, <1>12 DEF ReadingsInv

\* The worker looks again.
LEMMA ReadingsWakeKeeps == ASSUME ReadingsInv, Readings!Wake PROVE ReadingsInv'
  <1>0. Readings!TypeOK  BY DEF ReadingsInv
  <1>1. /\ reader.step = "asleep" /\ reader' = Readings!NoReading
        /\ UNCHANGED <<minute, sign, control, entry, unheard>>
    BY DEF Readings!Wake
  <1>2. reader' \in ReadingsReaders /\ reader'.step = "look" /\ reader'.attempted = 0
    BY <1>0, <1>1, ReadingsNoReading
  <1>3. Readings!TypeOK'  BY <1>0, <1>1, <1>2 DEF Readings!TypeOK, ReadingsReaders
  <1>4. ReadingsAgain' /\ ReadingsSlept'  BY <1>2 DEF ReadingsAgain, ReadingsSlept
  <1>5. ReadingsPast'
    <2>1. minute \in Nat  BY <1>0, ReadingsNumbers
    <2> QED BY <1>1, <1>2, <2>1 DEF ReadingsInv, ReadingsPast
  <1>6. Readings!ShownIsCurrent'
    BY <1>1, <1>2 DEF ReadingsInv, Readings!ShownIsCurrent, Readings!BeingRead
  <1> QED BY <1>3, <1>4, <1>5, <1>6 DEF ReadingsInv

\* A reading begins, of the homes there are.
LEMMA ReadingsBeginKeeps == ASSUME ReadingsInv, Readings!Begin PROVE ReadingsInv'
  <1>0. Readings!TypeOK  BY DEF ReadingsInv
  <1>1. /\ control' = [control EXCEPT !.force = FALSE]
        /\ reader' = [Readings!NoReading EXCEPT !.step = "begun", !.homes = control.homes,
                                                !.attempted = minute]
        /\ UNCHANGED <<minute, sign, entry, unheard>>
    BY DEF Readings!Begin
  <1>2. control' \in ReadingsControls /\ control'.homes = control.homes
    BY <1>0, <1>1, ReadingsTypes DEF ReadingsControls
  <1>3. /\ reader' \in ReadingsReaders /\ reader'.step = "begun" /\ reader'.homes = control.homes
        /\ reader'.attempted = minute
    <2>1. control.homes \in Readings!Homes /\ minute \in Readings!Times
      BY <1>0, ReadingsTypes DEF ReadingsControls
    <2> QED BY <1>0, <1>1, <2>1, ReadingsNoReading DEF ReadingsReaders
  <1>4. Readings!TypeOK'
    BY <1>0, <1>1, <1>2, <1>3 DEF Readings!TypeOK, ReadingsControls, ReadingsReaders
  <1>5. ReadingsAgain' /\ ReadingsSlept'  BY <1>2, <1>3 DEF ReadingsAgain, ReadingsSlept
  <1>6. ReadingsPast'
    <2>1. minute \in Nat  BY <1>0, ReadingsNumbers
    <2> QED BY <1>1, <1>3, <2>1 DEF ReadingsInv, ReadingsPast
  <1>7. Readings!ShownIsCurrent'
    BY <1>1, <1>2, <1>3 DEF ReadingsInv, Readings!ShownIsCurrent, Readings!BeingRead
  <1> QED BY <1>4, <1>5, <1>6, <1>7 DEF ReadingsInv

\* It finds the sign-in there is.
LEMMA ReadingsReadKeeps == ASSUME ReadingsInv, Readings!ReadAccount PROVE ReadingsInv'
  <1>0. Readings!TypeOK  BY DEF ReadingsInv
  <1>1. reader.step = "begun" /\ UNCHANGED <<minute, sign, control, entry, unheard>>
    BY DEF Readings!ReadAccount
  <1>2. PICK good \in BOOLEAN :
          reader' = [reader EXCEPT !.step = "read", !.sign = sign, !.good = good]
    BY DEF Readings!ReadAccount
  <1>3. /\ reader' \in ReadingsReaders /\ reader'.step = "read" /\ reader'.sign = sign
        /\ reader'.homes = reader.homes /\ reader'.attempted = reader.attempted
    <2>1. sign \in Signs  BY <1>0 DEF Readings!TypeOK
    <2> QED BY <1>0, <1>2, <2>1, ReadingsTypes DEF ReadingsReaders
  <1>4. Readings!TypeOK'  BY <1>0, <1>1, <1>3 DEF Readings!TypeOK, ReadingsReaders
  <1>5. ReadingsAgain'  BY <1>1, <1>3 DEF ReadingsInv, ReadingsAgain
  <1>6. ReadingsSlept'  BY <1>3 DEF ReadingsSlept
  <1>7. ReadingsPast'  BY <1>1, <1>3 DEF ReadingsInv, ReadingsPast
  <1>8. Readings!ShownIsCurrent'
    BY <1>1, <1>3 DEF ReadingsInv, Readings!ShownIsCurrent, Readings!BeingRead
  <1> QED BY <1>4, <1>5, <1>6, <1>7, <1>8 DEF ReadingsInv

\* What a reading that counts leaves.
LEMMA ReadingsSettled ==
    ASSUME Readings!TypeOK, NEW e \in Readings!Settled
    PROVE  /\ e \in ReadingsEntries /\ e.attempted = reader.attempted
           /\ e.homes \in {reader.homes, entry.homes}
           /\ e.homes # reader.homes => entry.there
           /\ e.sign = reader.sign \/ e.failures > 0
  <1>1. /\ entry \in ReadingsEntries /\ reader \in ReadingsReaders
        /\ Readings!NoEntry \in ReadingsEntries
    BY ReadingsTypes, ReadingsNoEntry
  <1>2. CASE reader.good
    <2>1. PICK reset \in 0..Readings!Never :
            e = [Readings!NoEntry EXCEPT !.there = TRUE, !.homes = reader.homes,
                   !.sign = reader.sign, !.attempted = reader.attempted, !.reset = reset]
      BY <1>2 DEF Readings!Settled
    <2>2. /\ reader.homes \in Readings!Homes /\ reader.sign \in Signs \cup {Readings!NoSign}
          /\ reader.attempted \in Readings!Times
      BY <1>1 DEF ReadingsReaders
    <2> QED BY <1>1, <2>1, <2>2 DEF ReadingsEntries
  <1>3. CASE ~reader.good
    <2> DEFINE homes == IF entry.there THEN entry.homes ELSE reader.homes
               failures == Readings!Min({entry.failures + 1, MaxFailed})
    <2>1. PICK retry \in 0..Readings!Never :
            e = [entry EXCEPT !.there = TRUE, !.restored = FALSE, !.attempted = reader.attempted,
                   !.homes = homes, !.failures = failures, !.retryAt = retry]
      BY <1>1, <1>3 DEF Readings!Settled, ReadingsEntries
    <2>2. homes \in Readings!Homes /\ reader.attempted \in Readings!Times
      BY <1>1 DEF ReadingsReaders, ReadingsEntries
    <2>3. failures \in 0..MaxFailed /\ failures > 0
      <3>1. /\ entry.failures \in Nat /\ MaxFailed \in Nat /\ MaxFailed >= 1
            /\ entry.failures + 1 \in Nat
        BY ReadingsNumbers
      <3>2. failures \in {entry.failures + 1, MaxFailed} /\ failures <= MaxFailed /\ failures \in Nat
        BY <3>1, ReadingsMin
      <3> QED BY <3>1, <3>2
    <2>4. homes \in {reader.homes, entry.homes} /\ (homes # reader.homes => entry.there)
      OBVIOUS
    <2> HIDE DEF homes, failures
    <2>5. /\ e \in ReadingsEntries /\ e.attempted = reader.attempted /\ e.homes = homes
          /\ e.failures = failures
      BY <1>1, <2>1, <2>2, <2>3 DEF ReadingsEntries
    <2> QED BY <2>3, <2>4, <2>5
  <1> QED BY <1>2, <1>3

\* A reading counts, unless the homes have changed since it began.
LEMMA ReadingsSettleKeeps == ASSUME ReadingsInv, Readings!Settle PROVE ReadingsInv'
  <1>0. Readings!TypeOK  BY DEF ReadingsInv
  <1>1. /\ reader.step = "read" /\ reader' = Readings!NoReading
        /\ entry' \in (IF control.homes = reader.homes THEN Readings!Settled ELSE {entry})
        /\ UNCHANGED <<minute, sign, control, unheard>>
    BY DEF Readings!Settle
  <1>2. reader' \in ReadingsReaders /\ reader'.step = "look" /\ reader'.attempted = 0
    BY <1>0, <1>1, ReadingsNoReading
  <1>3. CASE control.homes = reader.homes
    <2>1. /\ entry' \in ReadingsEntries /\ entry'.attempted = reader.attempted
          /\ entry'.homes \in {reader.homes, entry.homes}
          /\ entry'.homes # reader.homes => entry.there
          /\ entry'.sign = reader.sign \/ entry'.failures > 0
      BY <1>0, <1>1, <1>3, ReadingsSettled
    <2>2. Readings!TypeOK'
      BY <1>0, <1>1, <1>2, <2>1 DEF Readings!TypeOK, ReadingsReaders, ReadingsEntries
    <2>3. ReadingsAgain' /\ ReadingsSlept'  BY <1>2 DEF ReadingsAgain, ReadingsSlept
    <2>4. ReadingsPast'
      <3>1. minute \in Nat  BY <1>0, ReadingsNumbers
      <3> QED BY <1>1, <1>2, <2>1, <3>1 DEF ReadingsInv, ReadingsPast
    <2>5. Readings!ShownIsCurrent'
      <3>1. entry'.homes = control.homes
        BY <1>3, <2>1 DEF ReadingsInv, Readings!ShownIsCurrent
      <3>2. reader.sign = sign \/ control.force  BY <1>1 DEF ReadingsInv, ReadingsAgain
      <3> QED BY <1>1, <1>2, <2>1, <3>1, <3>2 DEF Readings!ShownIsCurrent, Readings!BeingRead
    <2> QED BY <2>2, <2>3, <2>4, <2>5 DEF ReadingsInv
  <1>4. CASE control.homes # reader.homes
    <2>1. entry' = entry  BY <1>1, <1>4
    <2>2. control.force  BY <1>1, <1>4 DEF ReadingsInv, ReadingsAgain
    <2>3. Readings!TypeOK'  BY <1>0, <1>1, <1>2, <2>1 DEF Readings!TypeOK, ReadingsReaders
    <2>4. ReadingsAgain' /\ ReadingsSlept'  BY <1>2 DEF ReadingsAgain, ReadingsSlept
    <2>5. ReadingsPast'
      <3>1. minute \in Nat  BY <1>0, ReadingsNumbers
      <3> QED BY <1>1, <1>2, <2>1, <3>1 DEF ReadingsInv, ReadingsPast
    <2>6. Readings!ShownIsCurrent'
      BY <1>1, <1>2, <2>1, <2>2 DEF ReadingsInv, Readings!ShownIsCurrent, Readings!BeingRead
    <2> QED BY <2>3, <2>4, <2>5, <2>6 DEF ReadingsInv
  <1> QED BY <1>3, <1>4

-----------------------------------------------------------------------------
\* What a copy restores.
LEMMA ReadingsCopies ==
    ASSUME NEW e \in Readings!Copies, 0 \in Readings!Times, 0 \in 0..MaxFailed,
           0 \in 0..Readings!Never
    PROVE  /\ e \in ReadingsEntries /\ e.attempted = 0
           /\ e.sign = Readings!NoSign \/ e.restored
           /\ Readings!Launched(e) \in ReadingsControls /\ Readings!Launched(e).homes = e.homes
  <1>1. Readings!NoEntry \in ReadingsEntries
    BY DEF Readings!NoEntry, ReadingsEntries, Readings!Homes
  <1>2. Readings!NoEntry.attempted = 0 /\ Readings!NoEntry.sign = Readings!NoSign
    BY DEF Readings!NoEntry
  <1>3. /\ e \in ReadingsEntries /\ e.attempted = 0
        /\ e.sign = Readings!NoSign \/ e.restored
    <2>1. ASSUME NEW h \in Readings!Homes, e = [Readings!NoEntry EXCEPT !.homes = h]
          PROVE  /\ e \in ReadingsEntries /\ e.attempted = 0 /\ e.sign = Readings!NoSign
      BY <1>1, <1>2, <2>1 DEF ReadingsEntries
    <2>2. ASSUME NEW h \in Readings!Homes, NEW s \in Signs,
                 e = [Readings!NoEntry EXCEPT !.there = TRUE, !.homes = h, !.sign = s,
                                              !.restored = TRUE]
          PROVE  /\ e \in ReadingsEntries /\ e.attempted = 0 /\ e.restored
      BY <1>1, <1>2, <2>2 DEF ReadingsEntries
    <2>3. CASE e \in {[Readings!NoEntry EXCEPT !.homes = h] : h \in Readings!Homes}
      <3>1. PICK h \in Readings!Homes : e = [Readings!NoEntry EXCEPT !.homes = h]  BY ONLY <2>3
      <3> QED BY <2>1, <3>1
    <2>4. CASE e \in UNION {{[Readings!NoEntry EXCEPT !.there = TRUE, !.homes = h, !.sign = s,
                                                      !.restored = TRUE] :
                               s \in Signs} : h \in Readings!Homes}
      <3>1. PICK h \in Readings!Homes :
              e \in {[Readings!NoEntry EXCEPT !.there = TRUE, !.homes = h, !.sign = s,
                                              !.restored = TRUE] : s \in Signs}
        BY ONLY <2>4
      <3>2. PICK s \in Signs :
              e = [Readings!NoEntry EXCEPT !.there = TRUE, !.homes = h, !.sign = s,
                                           !.restored = TRUE]
        BY ONLY <3>1
      <3> QED BY <2>2, <3>2
    <2> QED BY <2>3, <2>4 DEF Readings!Copies
  <1>4. e.homes \in Readings!Homes  BY <1>3 DEF ReadingsEntries
  <1> QED BY <1>3, <1>4 DEF Readings!Launched, ReadingsControls, Readings!Work

\* What is there when the app has started.
LEMMA ReadingsLaunched ==
    ASSUME NEW m \in Readings!Times, NEW s \in Signs, NEW e \in Readings!Copies,
           minute = m, sign = s, entry = e, control = Readings!Launched(e),
           reader = Readings!NoReading, unheard = FALSE
    PROVE  ReadingsInv
  <1>1. 0 \in Readings!Times /\ 0 \in 0..MaxFailed /\ 0 \in 0..Readings!Never
        /\ 0 \in 0..(MaxMinute + Quiet)
    BY ONLY ReadingsBounds DEF Readings!Times, Readings!Never
  <1>2. /\ entry \in ReadingsEntries /\ entry.attempted = 0
        /\ entry.sign = Readings!NoSign \/ entry.restored
        /\ control \in ReadingsControls /\ control.homes = entry.homes
    BY <1>1, ReadingsCopies
  <1>3. reader \in ReadingsReaders /\ reader.step = "look" /\ reader.attempted = 0
    BY <1>1 DEF Readings!NoReading, ReadingsReaders, Readings!Homes
  <1>4. Readings!TypeOK
    <2>1. unheard \in BOOLEAN  OBVIOUS
    <2> QED BY <1>2, <1>3, <2>1 DEF Readings!TypeOK, ReadingsReaders, ReadingsEntries, ReadingsControls
  <1>5. ReadingsAgain /\ ReadingsSlept  BY <1>3 DEF ReadingsAgain, ReadingsSlept
  <1>6. ReadingsPast
    <2>1. minute \in Nat  BY <1>4, ReadingsNumbers
    <2> QED BY <1>2, <1>3, <2>1 DEF ReadingsPast
  <1>7. Readings!ShownIsCurrent  BY <1>2, <1>3 DEF Readings!ShownIsCurrent
  <1> QED BY <1>4, <1>5, <1>6, <1>7 DEF ReadingsInv

LEMMA ReadingsInitHolds == ASSUME Readings!Init PROVE ReadingsInv
  <1>1. 0 \in Readings!Times  BY ONLY ReadingsBounds DEF Readings!Times
  <1> QED BY <1>1, ReadingsLaunched DEF Readings!Init

\* The app starts again.
LEMMA ReadingsRestartKeeps == ASSUME ReadingsInv, Readings!Restart PROVE ReadingsInv'
  <1>0. Readings!TypeOK  BY DEF ReadingsInv
  <1>1. /\ entry' \in Readings!Copies /\ control' = Readings!Launched(entry')
        /\ reader' = Readings!NoReading /\ unheard' = FALSE /\ UNCHANGED <<minute, sign>>
    BY DEF Readings!Restart
  <1>2. /\ entry' \in ReadingsEntries /\ entry'.attempted = 0
        /\ entry'.sign = Readings!NoSign \/ entry'.restored
        /\ control' \in ReadingsControls /\ control'.homes = entry'.homes
    BY <1>0, <1>1, ReadingsTypes, ReadingsCopies
  <1>3. reader' \in ReadingsReaders /\ reader'.step = "look" /\ reader'.attempted = 0
    BY <1>0, <1>1, ReadingsNoReading
  <1>4. Readings!TypeOK'
    <2>1. unheard' \in BOOLEAN  BY <1>1
    <2> QED BY <1>0, <1>1, <1>2, <1>3, <2>1
          DEF Readings!TypeOK, ReadingsReaders, ReadingsEntries, ReadingsControls
  <1>5. ReadingsAgain' /\ ReadingsSlept'  BY <1>3 DEF ReadingsAgain, ReadingsSlept
  <1>6. ReadingsPast'
    <2>1. minute \in Nat  BY <1>0, ReadingsNumbers
    <2> QED BY <1>1, <1>2, <1>3, <2>1 DEF ReadingsPast
  <1>7. Readings!ShownIsCurrent'  BY <1>2, <1>3 DEF Readings!ShownIsCurrent
  <1> QED BY <1>4, <1>5, <1>6, <1>7 DEF ReadingsInv

\* Every step of the readings keeps their invariant.
LEMMA ReadingsNextKeeps == ASSUME ReadingsInv, Readings!Next PROVE ReadingsInv'
  BY ReadingsTickKeeps, ReadingsRefreshKeeps, ReadingsSignKeeps, ReadingsSourcesKeep,
     ReadingsSleepKeeps, ReadingsWakeKeeps, ReadingsBeginKeeps, ReadingsReadKeeps,
     ReadingsSettleKeeps, ReadingsRestartKeeps DEF Readings!Next

\* A step of another leaves it.
LEMMA ReadingsStays == ASSUME ReadingsInv, UNCHANGED readingsVars PROVE ReadingsInv'
  <1>1. UNCHANGED <<minute, sign, control, entry, reader, unheard>>  BY DEF readingsVars
  <1>2. Readings!TypeOK'  BY <1>1 DEF ReadingsInv, Readings!TypeOK
  <1>3. Readings!DueAfter' = Readings!DueAfter
    BY <1>1 DEF Readings!DueAfter, Readings!Retry, Readings!Pause, Readings!Interval,
       Readings!ResetAhead, Readings!OfThisComputer, Readings!Finished, Readings!Elapsed
  <1>4. ReadingsAgain'  BY <1>1 DEF ReadingsInv, ReadingsAgain
  <1>5. ReadingsSlept'  BY <1>1, <1>3 DEF ReadingsInv, ReadingsSlept
  <1>6. ReadingsPast'  BY <1>1 DEF ReadingsInv, ReadingsPast
  <1>7. Readings!ShownIsCurrent'
    BY <1>1, <1>3 DEF ReadingsInv, Readings!ShownIsCurrent, Readings!BeingRead, Readings!Due
  <1> QED BY <1>2, <1>4, <1>5, <1>6, <1>7 DEF ReadingsInv

-----------------------------------------------------------------------------
(* ConversationFeed: every step keeps its invariant.                       *)

\* The bounds of the feed are numbers.
LEMMA FeedNumbers == MaxLines \in Nat /\ FILL \in Nat /\ NameLine \in Nat
  BY ONLY FeedBounds

\* The greater of two numbers.
LEMMA FeedMaxOfTwo ==
    ASSUME NEW a \in Int, NEW b \in Int
    PROVE  Feed!Max({a, b}) = IF a >= b THEN a ELSE b
  BY DEF Feed!Max

\* The lesser of two numbers.
LEMMA FeedMinOfTwo ==
    ASSUME NEW a \in Int, NEW b \in Int
    PROVE  Feed!Min({a, b}) = IF a <= b THEN a ELSE b
  BY DEF Feed!Min

\* The greatest of some numbers up to n is one of them, and the greatest.
LEMMA FeedMaxIsGreatest ==
    ASSUME NEW n \in Nat, NEW S, S \subseteq 0..n, S # {}
    PROVE  Feed!Max(S) \in S /\ \A s \in S : s <= Feed!Max(S)
  <1> DEFINE T == {n - s : s \in S}
  <1>0. \A s \in S : s \in Int /\ n - s \in Nat  OBVIOUS
  <1>1. T \subseteq Nat /\ T # {}  BY <1>0
  <1>2. PICK m \in T : \A t \in T : <<t, m>> \notin OpToRel(<, Nat)
    <2> HIDE DEF T
    <2> QED BY <1>1, NatLessThanWellFounded, WFMin, Zenon
  <1>3. \A t \in T : m <= t
    <2> TAKE t \in T
    <2>1. t \in Nat /\ m \in Nat  BY <1>1
    <2>2. ~(t < m)
      <3> HIDE DEF T
      <3> QED BY <1>2, <2>1 DEF OpToRel
    <2> QED BY <2>1, <2>2
  <1>4. PICK s \in S : m = n - s  BY <1>2
  <1>5. \A r \in S : r <= s
    <2> TAKE r \in S
    <2>1. n - r \in T  OBVIOUS
    <2>2. m <= n - r  BY <1>3, <2>1
    <2> HIDE DEF T
    <2> QED BY <1>0, <1>4, <2>2
  <1> QED BY <1>0, <1>4, <1>5 DEF Feed!Max

\* What core knows, or asks, of the store is the store's position.
LEMMA FeedPositionIsTheStores == ASSUME FeedPositions PROVE Feed!Position = store.position
  BY DEF FeedPositions, Feed!Position

\* What the store has after it was given the lines of a span up to `to`.
LEMMA FeedStoreGiven ==
    ASSUME Feed!TypeOK, NEW span, NEW to \in Feed!Offsets,
           span.from \in Nat, span.to \in Nat, span.to <= to
    PROVE  /\ Feed!Given(span, to).held = store.held \cup Feed!LinesOf(span)
           /\ Feed!Given(span, to).position = IF store.position >= to THEN store.position ELSE to
           /\ Feed!Given(span, to) \in [held : SUBSET (1..MaxLines), position : Feed!Offsets]
  <1>1. store.position \in Feed!Offsets /\ store.held \subseteq 1..MaxLines  BY DEF Feed!TypeOK
  <1>2. Feed!Max({store.position, to}) = IF store.position >= to THEN store.position ELSE to
    BY <1>1, FeedMaxOfTwo, FeedNumbers DEF Feed!Offsets
  <1>3. Feed!LinesOf(span) \subseteq 1..MaxLines  BY FeedNumbers DEF Feed!LinesOf, Feed!Offsets
  <1> QED BY <1>1, <1>2, <1>3 DEF Feed!Given

\* What the catch-up reads reaches as far as what is wanted and, of a log that
\* begins with a turn, begins before it or where it does.
LEMMA FeedReplayedHolds ==
    ASSUME Feed!TypeOK, NEW span \in Feed!Spans
    PROVE  /\ Feed!Replayed(span).from \in Nat /\ Feed!Replayed(span).to = span.to
           /\ 1 \in starts => /\ Feed!Replayed(span).from <= span.from
                              /\ span.from > 0 => Feed!Replayed(span).from < span.from
  <1> DEFINE before == {s \in starts : s <= span.from}
  <1>1. span.from \in Nat /\ starts \subseteq 1..MaxLines
    BY FeedNumbers DEF Feed!TypeOK, Feed!Spans, Feed!Offsets
  <1>0. \A s \in starts : s \in Nat /\ 1 <= s  BY <1>1, FeedNumbers
  <1>2. span = [from |-> span.from, to |-> span.to]  BY DEF Feed!Spans
  <1>3. CASE before # {}
    <2>1. before \subseteq 0..span.from
      <3> SUFFICES ASSUME NEW s \in before PROVE s \in 0..span.from  OBVIOUS
      <3>1. s \in starts /\ s <= span.from  OBVIOUS
      <3> QED BY <1>0, <1>1, <3>1
    <2>2. Feed!Max(before) \in before  BY <1>1, <1>3, <2>1, FeedMaxIsGreatest
    <2>3. Feed!Replayed(span) = [span EXCEPT !.from = Feed!Max(before) - 1]  BY <1>3 DEF Feed!Replayed
    <2>4. Feed!Replayed(span).from = Feed!Max(before) - 1 /\ Feed!Replayed(span).to = span.to
      BY <1>2, <2>3
    <2>5. Feed!Max(before) \in Nat /\ 1 <= Feed!Max(before) /\ Feed!Max(before) <= span.from
      BY <1>0, <1>1, <2>2
    <2> QED BY <1>1, <2>4, <2>5
  <1>4. CASE before = {}
    <2>1. \/ Feed!Replayed(span) = [span EXCEPT !.from = @ + 1]
          \/ Feed!Replayed(span) = span
      BY <1>4 DEF Feed!Replayed
    <2>2. 1 \in starts => span.from = 0  BY <1>1, <1>4
    <2>3. span.from = 0 => Feed!Replayed(span) = span  BY <1>4 DEF Feed!Replayed
    <2> QED BY <1>1, <1>2, <2>1, <2>2, <2>3
  <1> QED BY <1>3, <1>4

\* Where the store held the line before a span, or nothing, the lines of the
\* span leave no hole that was not there, or in the span, before.
LEMMA FeedNoHoleIsLeft ==
    ASSUME Feed!TypeOK, NEW span \in Feed!Spans, NEW read,
           read.from \in Nat, read.to = span.to, read.from <= span.from,
           span.from <= span.to,
           store.held = {} \/ (span.from \in store.held /\ Feed!Holes \subseteq Feed!LinesOf(span)),
           NEW end \in Nat, end <= store.position \/ end <= span.to,
           store.held = {} => end <= span.to,
           store.held \subseteq 1..store.position,
           NEW l \in 1..end, NEW b \in store.held \cup Feed!LinesOf(read), b < l
    PROVE  l \in store.held \cup Feed!LinesOf(read)
  <1>1. /\ span.from \in Nat /\ span.to \in Nat /\ l \in Nat /\ store.position \in Nat
        /\ store.held \subseteq Nat /\ Feed!LinesOf(read) \subseteq Nat
    BY FeedNumbers DEF Feed!TypeOK, Feed!Spans, Feed!Offsets, Feed!LinesOf
  <1>2. Feed!LinesOf(span) \subseteq Feed!LinesOf(read)  BY <1>1 DEF Feed!LinesOf
  <1>3. l > read.from /\ l <= span.to => l \in Feed!LinesOf(read)  BY <1>1 DEF Feed!LinesOf
  <1>4. CASE store.held = {}
    <2>1. b \in Feed!LinesOf(read)  BY <1>4
    <2>2. b > read.from  BY <1>1, <2>1 DEF Feed!LinesOf
    <2> QED BY <1>1, <1>3, <1>4, <2>1, <2>2
  <1>5. CASE span.from \in store.held /\ Feed!Holes \subseteq Feed!LinesOf(span)
    <2>1. span.from <= store.position  BY <1>1, <1>5
    <2>2. CASE l > read.from /\ l <= span.to  BY <1>3, <2>2
    <2>3. CASE l <= read.from
      <3>1. b \in store.held  BY <1>1, <2>3 DEF Feed!LinesOf
      <3>2. l \in 1..store.position  BY <1>1, <2>1, <2>3
      <3>3. l \in store.held \/ l \in Feed!Holes  BY <3>1, <3>2 DEF Feed!Holes
      <3> QED BY <1>2, <1>5, <3>3
    <2>4. CASE l > read.from /\ l > span.to
      <3>1. l \in 1..store.position  BY <1>1, <2>4
      <3>2. span.from < l  BY <1>1, <2>4
      <3>3. l \in store.held \/ l \in Feed!Holes  BY <1>5, <3>1, <3>2 DEF Feed!Holes
      <3> QED BY <1>2, <1>5, <3>3
    <2> QED BY <1>1, <2>2, <2>3, <2>4
  <1> QED BY <1>4, <1>5

-----------------------------------------------------------------------------
\* A log that was read on is handed over, or read on, as it is.
LEMMA FeedReadKeeps == ASSUME FeedInv, Feed!Read PROVE FeedInv'
  <1>1. PICK to \in (offset + 1)..MaxLines :
            batch' = [from |-> offset, to |-> to] /\ offset' = to
    BY DEF Feed!Read
  <1>2. /\ batch = Feed!Nil /\ recent' \in {recent, TRUE}
        /\ UNCHANGED <<starts, known, gap, store, failed>>
    BY DEF Feed!Read
  <1>3. offset \in Nat /\ to \in Nat /\ offset < to /\ to <= MaxLines
    BY <1>1, FeedNumbers DEF FeedInv, Feed!TypeOK, Feed!Offsets
  <1>4. Feed!TypeOK'
    <2>1. batch' \in Feed!Spans /\ offset' \in Feed!Offsets
      BY <1>1, <1>3, FeedNumbers DEF Feed!Spans, Feed!Offsets
    <2>2. recent' \in BOOLEAN  BY <1>2 DEF FeedInv, Feed!TypeOK
    <2> QED BY <1>2, <2>1, <2>2 DEF FeedInv, Feed!TypeOK
  <1>5. FeedPending'  BY <1>1, <1>3 DEF FeedPending
  <1>6. FeedPositions' /\ FeedSpanned'
    <2>1. store.position \in Nat /\ (gap # Feed!Nil => gap.to \in Nat)
      BY FeedNumbers DEF FeedInv, Feed!TypeOK, Feed!Offsets, Feed!Spans
    <2> QED BY <1>1, <1>2, <1>3, <2>1, FeedNumbers DEF FeedInv, FeedPositions, FeedSpanned,
           Feed!Named
  <1>7. FeedEnds' /\ Feed!HolesAreNoted'
    BY <1>2 DEF FeedInv, FeedEnds, Feed!HolesAreNoted, Feed!LacksAreReadAgain, Feed!Holes
  <1>8. FeedFollowed'
    <2>1. batch' # Feed!Nil /\ batch'.from = offset  BY <1>1, <1>3 DEF Feed!Nil
    <2> QED BY <1>2, <2>1 DEF FeedInv, FeedFollowed
  <1> QED BY <1>4, <1>5, <1>6, <1>7, <1>8 DEF FeedInv

\* What is handed over to nobody leaves the store and its gap.
LEMMA FeedPassedOverKeeps == ASSUME FeedInv, Feed!PassOver \/ Feed!CannotAsk PROVE FeedInv'
  <1>1. /\ batch # Feed!Nil /\ batch' = Feed!Nil
        /\ UNCHANGED <<starts, recent, offset, known, gap, store, failed>>
        /\ ~Feed!Named \/ known = Feed!NotLoaded
    BY DEF Feed!PassOver, Feed!CannotAsk, Feed!HandedOver
  <1>2. Feed!TypeOK'
    BY <1>1, FeedNumbers DEF FeedInv, Feed!TypeOK, Feed!Spans, Feed!Nil, Feed!Offsets
  <1>3. FeedPending' /\ FeedPositions' /\ FeedEnds' /\ FeedSpanned' /\ Feed!HolesAreNoted'
    BY <1>1 DEF FeedInv, FeedPending, FeedPositions, FeedEnds, FeedSpanned, Feed!Named,
                Feed!HolesAreNoted,
                Feed!LacksAreReadAgain, Feed!Holes
  <1>4. FeedFollowed'
    BY <1>1 DEF FeedInv, FeedFollowed, FeedSpanned
  <1> QED BY <1>2, <1>3, <1>4 DEF FeedInv

\* A log the store has never seen: there is nothing to have a hole in.
LEMMA FeedMeetKeeps == ASSUME FeedInv, Feed!Meet PROVE FeedInv'
  <1> DEFINE from == Feed!Max({batch.from - FILL, 0})
  <1>1. /\ batch # Feed!Nil /\ batch' = Feed!Nil /\ Feed!Named /\ known' = Feed!NeverSeen
        /\ gap' = Feed!Filled(from) /\ UNCHANGED <<starts, recent, offset, store, failed>>
        /\ Feed!Position = Feed!NeverSeen
    BY DEF Feed!Meet, Feed!HandedOver
  <1>2. store.position = 0
    BY <1>1, FeedPositionIsTheStores DEF FeedInv, Feed!NeverSeen
  <1>3. store.held = {}
    BY <1>2 DEF FeedInv, FeedEnds
  <1>4. /\ batch.from \in Nat /\ batch.from < offset /\ offset \in Nat /\ offset <= MaxLines
        /\ gap \in Feed!Spans
    BY <1>1, FeedNumbers DEF FeedInv, Feed!TypeOK, FeedPending, Feed!Spans, Feed!Offsets
  <1>5. from \in Nat /\ from < offset
    <2>1. from = IF batch.from - FILL >= 0 THEN batch.from - FILL ELSE 0
      BY <1>4, FeedMaxOfTwo, FeedNumbers
    <2> QED BY <1>4, <2>1, FeedNumbers
  <1>6. gap' \in Feed!Spans /\ gap'.from < gap'.to /\ gap'.to <= offset
    <2>1. CASE gap = Feed!Nil
      BY <1>1, <1>4, <1>5, <2>1, FeedNumbers DEF Feed!Filled, Feed!Spans, Feed!Offsets
    <2>2. CASE gap # Feed!Nil
      <3>1. gap.from \in Nat /\ gap.to \in Nat /\ gap.to <= offset
        BY <1>4, <2>2, FeedNumbers DEF FeedInv, FeedSpanned, Feed!Spans, Feed!Offsets
      <3>2. Feed!Min({gap.from, from}) \in Nat /\ Feed!Min({gap.from, from}) <= from
        <4> HIDE DEF from
        <4> QED BY <1>5, <3>1, FeedMinOfTwo
      <3>3. Feed!Max({gap.to, offset}) = offset
        BY <1>4, <3>1, FeedMaxOfTwo
      <3> HIDE DEF from
      <3>4. gap' = [from |-> Feed!Min({gap.from, from}), to |-> offset]
        BY <1>1, <2>2, <3>3 DEF Feed!Filled
      <3> QED BY <1>4, <1>5, <3>2, <3>4, FeedNumbers DEF Feed!Spans, Feed!Offsets
    <2> QED BY <2>1, <2>2
  <1> HIDE DEF from
  <1>7. Feed!TypeOK'
    BY <1>1, <1>6, FeedNumbers DEF FeedInv, Feed!TypeOK, Feed!Spans, Feed!Nil, Feed!NeverSeen,
                                   Feed!Offsets
  <1>8. FeedPending' /\ FeedPositions' /\ FeedEnds' /\ FeedSpanned' /\ FeedFollowed'
    BY <1>1, <1>2, <1>3, <1>6 DEF FeedInv, FeedPending, FeedPositions, FeedEnds, FeedSpanned,
                                  Feed!Named, FeedFollowed, Feed!NeverSeen
  <1>9. Feed!HolesAreNoted'
    BY <1>1, <1>3 DEF Feed!HolesAreNoted, Feed!LacksAreReadAgain, Feed!Holes
  <1> QED BY <1>7, <1>8, <1>9 DEF FeedInv
\* What is noted when a read is handed over is a span of the log, and none is
\* noted only when none was and the read follows what the store has.
LEMMA FeedNotedIsASpan ==
    ASSUME FeedInv, batch # Feed!Nil, Feed!Position # Feed!NeverSeen
    PROVE  /\ Feed!Noted \in Feed!Spans
           /\ Feed!Noted # Feed!Nil => Feed!Noted.from < Feed!Noted.to /\ Feed!Noted.to <= offset
           /\ Feed!Noted = Feed!Nil => gap = Feed!Nil
           /\ gap = Feed!Nil /\ Feed!Position < batch.from
                => Feed!Noted = [from |-> Feed!Position, to |-> batch.from]
  <1>1. /\ batch.from \in Nat /\ batch.from < offset /\ offset \in Nat /\ offset <= MaxLines
        /\ gap \in Feed!Spans /\ gap.from \in Nat /\ gap.to \in Nat
    BY FeedNumbers DEF FeedInv, Feed!TypeOK, FeedPending, Feed!Spans, Feed!Offsets
  <1>2. Feed!Position = store.position /\ Feed!Position \in Nat /\ Feed!Position <= offset
    BY FeedPositionIsTheStores, FeedNumbers DEF FeedInv, Feed!TypeOK, FeedPositions, Feed!Offsets
  <1>3. gap # Feed!Nil => gap.from < gap.to /\ gap.to <= offset  BY DEF FeedInv, FeedSpanned
  <1>4. CASE Feed!Position >= batch.from  BY <1>1, <1>2, <1>3, <1>4 DEF Feed!Noted
  <1>5. CASE Feed!Position < batch.from /\ gap = Feed!Nil
    <2>1. Feed!Noted = [from |-> Feed!Position, to |-> batch.from]  BY <1>1, <1>2, <1>5 DEF Feed!Noted
    <2>2. Feed!Noted # Feed!Nil  BY <1>1, <1>2, <1>5, <2>1 DEF Feed!Nil
    <2> QED BY <1>1, <1>2, <1>5, <2>1, <2>2, FeedNumbers DEF Feed!Spans, Feed!Offsets
  <1>6. CASE Feed!Position < batch.from /\ gap # Feed!Nil
    <2>1. Feed!Min({gap.from, Feed!Position}) \in Nat /\ Feed!Min({gap.from, Feed!Position}) <= gap.from
      BY <1>1, <1>2, FeedMinOfTwo
    <2>2. Feed!Noted = [gap EXCEPT !.from = Feed!Min({gap.from, Feed!Position})]
      BY <1>1, <1>2, <1>6 DEF Feed!Noted
    <2>3. Feed!Noted = [from |-> Feed!Min({gap.from, Feed!Position}), to |-> gap.to]
      BY <1>1, <2>2 DEF Feed!Spans
    <2>4. Feed!Noted # Feed!Nil  BY <1>1, <1>3, <1>6, <2>3 DEF Feed!Nil
    <2> QED BY <1>1, <1>3, <1>6, <2>1, <2>3, <2>4, FeedNumbers DEF Feed!Spans, Feed!Offsets
  <1> QED BY <1>1, <1>2, <1>4, <1>5, <1>6

\* A read is given to the store: a span is noted that it leaves open.
LEMMA FeedDeliverKeeps == ASSUME FeedInv, Feed!Deliver PROVE FeedInv'
  <1>1. /\ batch # Feed!Nil /\ batch' = Feed!Nil /\ Feed!Named /\ Feed!Position # Feed!NeverSeen
        /\ gap' = Feed!Noted /\ known' = offset /\ store' = Feed!Given(batch, offset)
        /\ UNCHANGED <<starts, recent, offset, failed>>
    BY DEF Feed!Deliver, Feed!HandedOver
  <1>2. /\ batch.from \in Nat /\ batch.to = offset /\ batch.from < offset
        /\ offset \in Nat /\ offset <= MaxLines /\ offset \in Feed!Offsets
    BY <1>1, FeedNumbers DEF FeedInv, Feed!TypeOK, FeedPending, Feed!Spans, Feed!Offsets
  <1>3. /\ Feed!Position = store.position /\ store.position \in Nat
        /\ store.position <= offset /\ store.position > 0
    BY <1>1, FeedPositionIsTheStores, FeedNumbers DEF FeedInv, Feed!TypeOK, FeedPositions,
           Feed!Offsets, Feed!NeverSeen
  <1>4. /\ store'.held = store.held \cup Feed!LinesOf(batch)
        /\ store'.position = offset
        /\ store' \in [held : SUBSET (1..MaxLines), position : Feed!Offsets]
    BY <1>1, <1>2, <1>3, FeedStoreGiven DEF FeedInv
  <1>5. Feed!LinesOf(batch) = (batch.from + 1)..offset  BY <1>2 DEF Feed!LinesOf
  <1>6. store.held \subseteq 1..store.position  BY DEF FeedInv, FeedEnds
  <1>7. /\ gap' \in Feed!Spans
        /\ gap' # Feed!Nil => gap'.from < gap'.to /\ gap'.to <= offset
        /\ gap = Feed!Nil /\ store.position < batch.from
             => gap' = [from |-> store.position, to |-> batch.from]
    BY <1>1, <1>3, FeedNotedIsASpan
  <1>8. ~failed /\ 1 \in starts /\ store.position < batch.from => gap = Feed!Nil
    BY <1>1, <1>2, <1>3 DEF FeedInv, FeedFollowed
  <1>9. ~(store.position < batch.from) => gap' = gap  BY <1>1, <1>2, <1>3 DEF Feed!Noted
  <1>10. Feed!TypeOK'
    BY <1>1, <1>2, <1>4, <1>7, FeedNumbers DEF FeedInv, Feed!TypeOK, Feed!Spans, Feed!Nil,
           Feed!Offsets
  <1>11. FeedPending' /\ FeedPositions' /\ FeedSpanned'
    BY <1>1, <1>2, <1>4, <1>7 DEF FeedInv, FeedPending, FeedPositions, FeedSpanned, Feed!Named
  <1>12. FeedEnds'
    <2>1. offset \in store'.held  BY <1>2, <1>4, <1>5
    <2>2. store'.held \subseteq 1..offset  BY <1>2, <1>3, <1>4, <1>5, <1>6
    <2> QED BY <1>4, <2>1, <2>2 DEF FeedEnds
  <1>13. FeedFollowed'
    <2> SUFFICES ASSUME gap' # Feed!Nil, ~failed, 1 \in starts
                 PROVE  gap'.from \in store'.held /\ known' # Feed!NotLoaded
                        /\ store'.position = offset
      BY <1>1 DEF FeedFollowed
    <2>1. gap'.from \in store.held
      <3>1. CASE store.position < batch.from
        BY <1>3, <1>7, <1>8, <3>1 DEF FeedInv, FeedEnds
      <3>2. CASE ~(store.position < batch.from)
        BY <1>3, <1>9, <3>2 DEF FeedInv, FeedFollowed
      <3> QED BY <3>1, <3>2
    <2> QED BY <1>1, <1>2, <1>4, <2>1 DEF Feed!NotLoaded
  <1>14. Feed!HolesAreNoted'
    <2> SUFFICES ASSUME ~failed, 1 \in starts,
                        NEW l \in 1..offset, l \notin store'.held,
                        NEW b \in store'.held, b < l
                 PROVE  l \in Feed!LinesOf(gap')
      <3>1. failed' = failed /\ starts' = starts  BY <1>1
      <3>2. Feed!Holes' = {l \in 1..offset : l \notin store'.held /\ \E b \in store'.held : b < l}
        BY <1>4 DEF Feed!Holes
      <3>3. Feed!LinesOf(gap)' = Feed!LinesOf(gap')  BY DEF Feed!LinesOf
      <3> QED BY <3>1, <3>2, <3>3 DEF Feed!HolesAreNoted, Feed!LacksAreReadAgain
    <2>1. l <= batch.from  BY <1>2, <1>4, <1>5
    <2>2. b \in store.held  BY <1>2, <1>4, <1>5, <2>1
    <2>3. l <= store.position => l \in Feed!Holes
      BY <1>3, <1>4, <2>2 DEF Feed!Holes
    <2>4. Feed!Holes \subseteq Feed!LinesOf(gap)  BY DEF FeedInv, Feed!HolesAreNoted,
           Feed!LacksAreReadAgain
    <2>5. CASE store.position < batch.from
      <3>1. Feed!LinesOf(gap) = {}  BY <1>8, <2>5 DEF Feed!LinesOf, Feed!Nil
      <3>2. l > store.position  BY <1>2, <1>3, <2>3, <2>4, <3>1
      <3>3. gap' = [from |-> store.position, to |-> batch.from]  BY <1>7, <1>8, <2>5
      <3> QED BY <1>2, <1>3, <2>1, <3>2, <3>3 DEF Feed!LinesOf
    <2>6. CASE ~(store.position < batch.from)
      BY <1>2, <1>3, <1>9, <2>1, <2>3, <2>4, <2>6
    <2> QED BY <2>5, <2>6
  <1> QED BY <1>10, <1>11, <1>12, <1>13, <1>14 DEF FeedInv

\* A delivery that fails leaves no gap only where the store lacks nothing
\* between what it holds.
LEMMA FeedDeliverFailsKeeps == ASSUME FeedInv, Feed!DeliverFails PROVE FeedInv'
  <1>1. /\ batch # Feed!Nil /\ batch' = Feed!Nil /\ Feed!Named /\ Feed!Position # Feed!NeverSeen
        /\ gap' = Feed!Noted /\ known' = Feed!Position /\ failed' = (failed \/ gap' # Feed!Nil)
        /\ UNCHANGED <<starts, recent, offset, store>>
    BY DEF Feed!DeliverFails, Feed!HandedOver
  <1>2. Feed!Position = store.position  BY FeedPositionIsTheStores DEF FeedInv
  <1>3. /\ gap' \in Feed!Spans
        /\ gap' # Feed!Nil => gap'.from < gap'.to /\ gap'.to <= offset
        /\ gap' = Feed!Nil => gap = Feed!Nil
    BY <1>1, FeedNotedIsASpan
  <1>4. Feed!TypeOK'
    <2>1. batch' \in Feed!Spans /\ known' \in Feed!Offsets
      BY <1>1, <1>2, FeedNumbers DEF FeedInv, Feed!TypeOK, Feed!Spans, Feed!Nil, Feed!Offsets
    <2>2. failed' \in BOOLEAN  BY <1>1 DEF FeedInv, Feed!TypeOK
    <2> QED BY <1>1, <1>3, <2>1, <2>2 DEF FeedInv, Feed!TypeOK
  <1>5. FeedPending' /\ FeedPositions' /\ FeedEnds' /\ FeedSpanned'
    BY <1>1, <1>2, <1>3 DEF FeedInv, FeedPending, FeedPositions, FeedEnds, FeedSpanned, Feed!Named
  <1>6. FeedFollowed'  BY <1>1 DEF FeedFollowed
  <1>7. Feed!HolesAreNoted'
    <2> SUFFICES ASSUME ~failed' PROVE Feed!LacksAreReadAgain'  BY DEF Feed!HolesAreNoted
    <2>1. gap' = gap /\ ~failed  BY <1>1, <1>3
    <2> QED BY <1>1, <2>1 DEF FeedInv, Feed!HolesAreNoted, Feed!LacksAreReadAgain, Feed!Holes
  <1> QED BY <1>4, <1>5, <1>6, <1>7 DEF FeedInv

-----------------------------------------------------------------------------
\* What the catch-up reads again is a span of the log, and of a log that
\* begins with a turn it holds every hole and begins where the store ends.
LEMMA FeedWantedHolds ==
    ASSUME FeedInv, offset # 0, Feed!Wanted # Feed!Nil
    PROVE  /\ Feed!Wanted \in Feed!Spans /\ Feed!Wanted.from \in Nat /\ Feed!Wanted.to \in Nat
           /\ Feed!Wanted.from < Feed!Wanted.to \/ Feed!Wanted.from = Feed!Wanted.to
           /\ Feed!Wanted.to <= offset /\ Feed!Wanted.to > 0
           /\ ~failed /\ 1 \in starts =>
                \/ store.held = {}
                \/ Feed!Wanted.from \in store.held /\ Feed!Holes \subseteq Feed!LinesOf(Feed!Wanted)
  <1>1. /\ offset \in Nat /\ offset <= MaxLines /\ gap \in Feed!Spans
        /\ gap.from \in Nat /\ gap.to \in Nat
    BY FeedNumbers DEF FeedInv, Feed!TypeOK, Feed!Spans, Feed!Offsets
  <1>2. Feed!Position = store.position /\ Feed!Position \in Nat /\ Feed!Position <= offset
    BY FeedPositionIsTheStores, FeedNumbers DEF FeedInv, Feed!TypeOK, FeedPositions, Feed!Offsets
  <1>3. store.position = 0 => store.held = {}  BY DEF FeedInv, FeedEnds
  <1>4. ~failed /\ 1 \in starts => Feed!Holes \subseteq Feed!LinesOf(gap)
    BY DEF FeedInv, Feed!HolesAreNoted, Feed!LacksAreReadAgain
  <1>5. CASE gap # Feed!Nil
    <2>1. Feed!Wanted = gap  BY <1>5 DEF Feed!Wanted
    <2>2. gap.from < gap.to /\ gap.to <= offset  BY <1>5 DEF FeedInv, FeedSpanned
    <2>3. ~failed /\ 1 \in starts /\ store.position > 0 => gap.from \in store.held
      BY <1>5 DEF FeedInv, FeedFollowed
    <2> QED BY <1>1, <1>2, <1>3, <1>4, <2>1, <2>2, <2>3
  <1>6. CASE gap = Feed!Nil /\ Feed!Position = Feed!NeverSeen
    <2>1. Feed!Wanted = [from |-> Feed!Max({offset - FILL, 0}), to |-> offset]
      BY <1>6 DEF Feed!Wanted
    <2>2. Feed!Max({offset - FILL, 0}) \in Nat /\ Feed!Max({offset - FILL, 0}) <= offset
      BY <1>1, FeedMaxOfTwo, FeedNumbers
    <2>3. store.held = {}  BY <1>2, <1>3, <1>6 DEF Feed!NeverSeen
    <2> QED BY <1>1, <2>1, <2>2, <2>3, FeedNumbers DEF Feed!Spans, Feed!Offsets
  <1>7. CASE gap = Feed!Nil /\ Feed!Position # Feed!NeverSeen
    <2>1. Feed!Wanted = [from |-> Feed!Position, to |-> offset] /\ Feed!Position < offset
      BY <1>7 DEF Feed!Wanted
    <2>2. 1 \in starts => store.position \in store.held
      BY <1>2, <1>7 DEF FeedInv, FeedEnds, Feed!NeverSeen
    <2>3. Feed!LinesOf(gap) = {}  BY <1>7 DEF Feed!LinesOf, Feed!Nil
    <2> QED BY <1>1, <1>2, <1>4, <2>1, <2>2, <2>3, FeedNumbers DEF Feed!Spans, Feed!Offsets
  <1> QED BY <1>5, <1>6, <1>7

\* The catch-up leaves no hole and no gap.
LEMMA FeedCatchUpKeeps == ASSUME FeedInv, Feed!CatchUp PROVE FeedInv'
  <1> DEFINE want == Feed!Wanted
             read == Feed!Replayed(Feed!Wanted)
  <1>1. /\ batch = Feed!Nil /\ offset # 0 /\ want # Feed!Nil
        /\ store' = Feed!Given(read, want.to) /\ known' = Feed!Max({Feed!Position, want.to}) /\ gap' = Feed!Nil
        /\ UNCHANGED <<starts, recent, offset, batch, failed>>
    BY DEF Feed!CatchUp
  <1>2. /\ want \in Feed!Spans /\ want.from \in Nat /\ want.to \in Nat /\ want.to \in Feed!Offsets
        /\ want.from <= want.to /\ want.to <= offset /\ want.to > 0
        /\ ~failed /\ 1 \in starts =>
             \/ store.held = {}
             \/ want.from \in store.held /\ Feed!Holes \subseteq Feed!LinesOf(want)
    BY <1>1, FeedWantedHolds DEF Feed!Spans
  <1>3. /\ read.from \in Nat /\ read.to = want.to
        /\ 1 \in starts => /\ read.from <= want.from
                           /\ want.from > 0 => read.from < want.from
    BY <1>2, FeedReplayedHolds DEF FeedInv
  <1> HIDE DEF want, read
  <1>4. /\ Feed!Position = store.position /\ store.position \in Nat
        /\ store.position <= offset /\ offset \in Nat
    BY FeedPositionIsTheStores, FeedNumbers DEF FeedInv, Feed!TypeOK, FeedPositions, Feed!Offsets
  <1> DEFINE end == IF store.position >= want.to THEN store.position ELSE want.to
  <1>5. /\ store'.held = store.held \cup Feed!LinesOf(read)
        /\ store'.position = end
        /\ store' \in [held : SUBSET (1..MaxLines), position : Feed!Offsets]
    BY <1>1, <1>2, <1>3, FeedStoreGiven DEF FeedInv
  <1>6. known' = end  BY <1>1, <1>2, <1>4, FeedMaxOfTwo
  <1>7. end \in Nat /\ end <= offset /\ end > 0  BY <1>2, <1>4
  <1>8. store.held \subseteq 1..store.position
        /\ (1 \in starts /\ store.position > 0 => store.position \in store.held)
    BY DEF FeedInv, FeedEnds
  <1>9. Feed!LinesOf(read) = (read.from + 1)..want.to  BY <1>3 DEF Feed!LinesOf
  <1>10. Feed!TypeOK'
    <2>1. known' \in Feed!Offsets  BY <1>5, <1>6
    <2> QED BY <1>1, <1>5, <2>1, FeedNumbers DEF FeedInv, Feed!TypeOK, Feed!Spans, Feed!Nil,
           Feed!Offsets
  <1>11. FeedPending' /\ FeedSpanned' /\ FeedFollowed'
    BY <1>1 DEF FeedInv, FeedPending, FeedSpanned, FeedFollowed
  <1>12. FeedPositions'  BY <1>1, <1>5, <1>6, <1>7 DEF FeedPositions
  <1>13. FeedEnds'
    <2>1. store'.held \subseteq 1..end
      BY <1>2, <1>3, <1>4, <1>5, <1>8, <1>9
    <2>2. 1 \in starts => end \in store'.held
      <3>1. CASE store.position >= want.to
        BY <1>2, <1>4, <1>5, <1>8, <3>1
      <3>2. CASE ~(store.position >= want.to)
        <4>1. 1 \in starts => want.to \in Feed!LinesOf(read)
          BY <1>2, <1>3, <1>9
        <4> QED BY <1>5, <3>2, <4>1
      <3> QED BY <3>1, <3>2
    <2> HIDE DEF end
    <2> QED BY <1>1, <1>5, <2>1, <2>2 DEF FeedEnds
  <1>14. Feed!HolesAreNoted'
    <2> SUFFICES ASSUME ~failed, 1 \in starts, NEW l \in 1..end, NEW b \in store'.held, b < l
                 PROVE  l \in store'.held
      <3> HIDE DEF end
      <3>1. failed' = failed /\ starts' = starts  BY <1>1
      <3>2. Feed!Holes' = {l \in 1..end : l \notin store'.held /\ \E b \in store'.held : b < l}
        BY <1>5 DEF Feed!Holes
      <3> QED BY <3>1, <3>2 DEF Feed!HolesAreNoted, Feed!LacksAreReadAgain
    <2>1. end <= store.position \/ end <= want.to  BY <1>2, <1>4
    <2>2. store.held = {} => end <= want.to  BY <1>2, <1>4, <1>8
    <2>3. Feed!TypeOK  BY DEF FeedInv
    <2> HIDE DEF end
    <2>4. l \in store.held \cup Feed!LinesOf(read)
      BY <1>2, <1>3, <1>5, <1>7, <1>8, <2>1, <2>2, <2>3, FeedNoHoleIsLeft
    <2> QED BY <1>5, <2>4
  <1> QED BY <1>10, <1>11, <1>12, <1>13, <1>14 DEF FeedInv

\* A catch-up that fails has asked the store's position, and changed nothing.
LEMMA FeedCatchUpFailsKeeps == ASSUME FeedInv, Feed!CatchUpFails PROVE FeedInv'
  <1>1. /\ known' = Feed!Position
        /\ UNCHANGED <<starts, recent, offset, batch, gap, store, failed>>
    BY DEF Feed!CatchUpFails
  <1>2. known' = store.position  BY <1>1, FeedPositionIsTheStores DEF FeedInv
  <1>3. store.position \in Feed!Offsets /\ store.position # Feed!NotLoaded
    BY FeedNumbers DEF FeedInv, Feed!TypeOK, Feed!Offsets, Feed!NotLoaded
  <1> QED BY <1>1, <1>2, <1>3
          DEF FeedInv, Feed!TypeOK, FeedPending, FeedPositions, FeedEnds, FeedSpanned,
              Feed!Named, FeedFollowed,
              Feed!HolesAreNoted, Feed!LacksAreReadAgain, Feed!Holes

\* A log that grows old keeps what the store has of it.
LEMMA FeedAgeKeeps == ASSUME FeedInv, Feed!Age PROVE FeedInv'
  BY DEF Feed!Age, FeedInv, Feed!TypeOK, FeedPending, FeedPositions, FeedEnds, FeedSpanned,
         Feed!Named, FeedFollowed,
         Feed!HolesAreNoted, Feed!LacksAreReadAgain, Feed!Holes

\* Where the app dies with no gap noted, or with that of a log the store has
\* never seen, there is no hole.
LEMMA FeedCrashKeeps == ASSUME FeedInv, Feed!Crash PROVE FeedInv'
  <1>1. /\ batch' = Feed!Nil /\ known' = Feed!NotLoaded /\ gap' = Feed!Nil
        /\ failed' = (failed \/ (gap # Feed!Nil /\ known # Feed!NeverSeen))
        /\ UNCHANGED <<starts, recent, offset, store>>
    BY DEF Feed!Crash
  <1>2. Feed!TypeOK'
    BY <1>1, FeedNumbers DEF FeedInv, Feed!TypeOK, Feed!Spans, Feed!Nil, Feed!Offsets
  <1>3. FeedPending' /\ FeedPositions' /\ FeedEnds' /\ FeedSpanned' /\ FeedFollowed'
    BY <1>1 DEF FeedInv, FeedPending, FeedPositions, FeedEnds, FeedSpanned, FeedFollowed
  <1>4. Feed!HolesAreNoted'
    <2> SUFFICES ASSUME ~failed' PROVE Feed!LacksAreReadAgain'  BY DEF Feed!HolesAreNoted
    <2>1. ~failed /\ (gap = Feed!Nil \/ known = Feed!NeverSeen)  BY <1>1
    <2>2. CASE gap = Feed!Nil
      BY <1>1, <2>1, <2>2 DEF FeedInv, Feed!HolesAreNoted, Feed!LacksAreReadAgain, Feed!Holes
    <2>3. CASE known = Feed!NeverSeen
      <3>1. store.position = 0  BY <2>3 DEF FeedInv, FeedPositions, Feed!NeverSeen, Feed!NotLoaded
      <3>2. Feed!Holes' = {}  BY <1>1, <3>1 DEF Feed!Holes
      <3> QED BY <3>2 DEF Feed!LacksAreReadAgain
    <2> QED BY <2>1, <2>2, <2>3
  <1> QED BY <1>2, <1>3, <1>4 DEF FeedInv

-----------------------------------------------------------------------------
\* Nothing of a log has been read when the app starts on it.
LEMMA FeedInitHolds == ASSUME Feed!Init PROVE FeedInv
  <1>1. Feed!TypeOK
    <2>1. Feed!Nil \in Feed!Spans /\ 0 \in Feed!Offsets  BY FeedNumbers DEF Feed!Spans,
           Feed!Nil, Feed!Offsets
    <2>2. store \in [held : SUBSET (1..MaxLines), position : Feed!Offsets]
      BY <2>1 DEF Feed!Init, Feed!NeverSeen
    <2> QED BY <2>1, <2>2 DEF Feed!Init, Feed!TypeOK
  <1>2. FeedPending /\ FeedPositions /\ FeedEnds /\ FeedSpanned /\ FeedFollowed /\ Feed!HolesAreNoted
    BY FeedNumbers DEF Feed!Init, FeedPending, FeedPositions, FeedEnds, FeedSpanned,
                       FeedFollowed, Feed!NeverSeen,
           Feed!HolesAreNoted, Feed!LacksAreReadAgain, Feed!Holes
  <1> QED BY <1>1, <1>2 DEF FeedInv

\* Every step keeps the invariant.
LEMMA FeedNextKeeps == ASSUME FeedInv, Feed!Next PROVE FeedInv'
  BY FeedReadKeeps, FeedPassedOverKeeps, FeedMeetKeeps, FeedDeliverKeeps, FeedDeliverFailsKeeps,
     FeedCatchUpKeeps, FeedCatchUpFailsKeeps, FeedAgeKeeps, FeedCrashKeeps DEF Feed!Next

\* A step of another leaves it.
LEMMA FeedStays == ASSUME FeedInv, UNCHANGED feedVars PROVE FeedInv'
  BY DEF feedVars, FeedInv, Feed!TypeOK, FeedPending, FeedPositions, FeedEnds, FeedSpanned,
         Feed!Named, FeedFollowed, Feed!HolesAreNoted, Feed!LacksAreReadAgain, Feed!Holes

-----------------------------------------------------------------------------
(* RequestSnapshots: every step keeps its invariant.                       *)

\* The least of some naturals is one of them, and the least.
LEMMA SnapsMinIsLeast ==
    ASSUME NEW S, S \subseteq Nat, S # {}
    PROVE  Snaps!Min(S) \in S /\ \A n \in S : Snaps!Min(S) <= n
  <1>1. PICK m \in S : \A n \in S : <<n, m>> \notin OpToRel(<, Nat)
    BY NatLessThanWellFounded, WFMin, Zenon
  <1>2. \A n \in S : m <= n
    <2> TAKE n \in S
    <2>1. n \in Nat /\ m \in Nat  OBVIOUS
    <2>2. ~(n < m)  BY <1>1, <2>1 DEF OpToRel
    <2> QED BY <2>1, <2>2
  <1> QED BY <1>2 DEF Snaps!Min

\* A hook's card is the only one of its id.
LEMMA SnapsOneOfItsId ==
    ASSUME Snaps!TypeOK, NEW t \in Tickets
    PROVE  Snaps!Waiting(t) = pending \cap {t}
  BY DEF Snaps!TypeOK, Snaps!RequestsTypeOK, Snaps!Waiting

\* The types of what a step reads.
LEMMA SnapsTypes ==
    ASSUME Snaps!TypeOK
    PROVE  /\ time \in Nat /\ holdMs \in Nat \ {0} /\ Safety \in Nat \ {0}
           /\ Holds \subseteq Nat \ {0}
           /\ pending \subseteq Tickets /\ lastDue \in Nat /\ dueAt \in Nat
           /\ \A t \in Tickets : deadline[t] \in Nat /\ created[t] \in Nat /\ changed[t] \in Nat
  BY SnapsBounds, UsageBounds DEF Snaps!TypeOK, Snaps!RequestsTypeOK

\* Cards leave: the rest keep their deadlines.
LEMMA SnapsCardsDropped ==
    ASSUME Snaps!TypeOK, NEW ts \in SUBSET Tickets, Snaps!Drop(ts), Snaps!NoteChanges
    PROVE  /\ pending' = pending \ ts
           /\ \A t \in pending' : deadline'[t] = deadline[t]
           /\ \A t \in Tickets : changed'[t] = IF t \in pending \cap ts THEN time ELSE changed[t]
           /\ revised' = (revised \/ ts # {})
           /\ created' \in [Tickets -> Nat] /\ deadline' \in [Tickets -> Nat]
           /\ changed' \in [Tickets -> Nat] /\ revised' \in BOOLEAN
  <1> USE SnapsTypes
  <1>1. pending' = pending \ ts /\ revised' = (revised \/ ts # {})  BY DEF Snaps!Drop
  <1>2. \A t \in pending' : deadline'[t] = deadline[t]  BY <1>1 DEF Snaps!Drop
  <1>3. \A t \in Tickets : changed'[t] = IF t \in pending \cap ts THEN time ELSE changed[t]
    BY <1>1 DEF Snaps!NoteChanges
  <1>4. created' \in [Tickets -> Nat] /\ deadline' \in [Tickets -> Nat]  BY DEF Snaps!Drop
  <1>5. changed' \in [Tickets -> Nat]  BY DEF Snaps!NoteChanges
  <1>6. revised' \in BOOLEAN  BY <1>1 DEF Snaps!TypeOK, Snaps!RequestsTypeOK
  <1> QED BY <1>1, <1>2, <1>3, <1>4, <1>5, <1>6

LEMMA SnapsCardPushed ==
    ASSUME Snaps!TypeOK, NEW c \in Tickets, Snaps!Push(c), Snaps!NoteChanges
    PROVE  /\ pending' = pending \cup {c} /\ revised' = TRUE
           /\ \A t \in pending \ {c} : deadline'[t] = deadline[t]
           /\ deadline'[c] = time + holdMs
           /\ \A t \in Tickets \ {c} : changed'[t] = changed[t]
           /\ changed'[c] = IF c \in pending THEN changed[c] ELSE time
           /\ created' \in [Tickets -> Nat] /\ deadline' \in [Tickets -> Nat]
           /\ changed' \in [Tickets -> Nat]
  <1> USE SnapsTypes
  <1>1. created \in [Tickets -> Nat] /\ deadline \in [Tickets -> Nat]
    BY DEF Snaps!TypeOK, Snaps!RequestsTypeOK
  <1>2. pending' = pending \cup {c} /\ revised' = TRUE  BY DEF Snaps!Push
  <1>3. time + holdMs \in Nat  OBVIOUS
  <1>4. created' = [created EXCEPT ![c] = time] /\ deadline' = [deadline EXCEPT ![c] = time + holdMs]
    BY DEF Snaps!Push
  <1>5. changed' \in [Tickets -> Nat]  BY DEF Snaps!NoteChanges
  <1> QED BY <1>1, <1>2, <1>3, <1>4, <1>5 DEF Snaps!NoteChanges

\* The next due time is not past any deadline ahead, nor the safety refresh.
LEMMA SnapsDueIsNext ==
    ASSUME Snaps!TypeOK
    PROVE  /\ Snaps!NextDue \in Nat /\ Snaps!NextDue <= time + Safety
           /\ \A t \in pending : time < deadline[t] => Snaps!NextDue <= deadline[t]
  <1> DEFINE S == {time + Safety} \cup {d \in {deadline[t] : t \in pending} : d > time}
  <1>1. S \subseteq Nat /\ S # {}  BY SnapsTypes
  <1>2. Snaps!NextDue = Snaps!Min(S)  BY DEF Snaps!NextDue
  <1>3. /\ time + Safety \in S
        /\ \A t \in pending : time < deadline[t] => deadline[t] \in S
    BY SnapsTypes
  <1> HIDE DEF S
  <1> QED BY <1>1, <1>2, <1>3, SnapsMinIsLeast

LEMMA SnapsInitInv == Snaps!Init => SnapsInv
  <1> SUFFICES ASSUME Snaps!Init PROVE SnapsInv
    OBVIOUS
  <1>1. Snaps!RequestsTypeOK
    BY SnapsBounds, UsageBounds
       DEF Snaps!Init, Snaps!RequestsInit, Snaps!RequestsTypeOK, Snaps!Idle, Snaps!EngineSteps
  <1> QED BY <1>1 DEF Snaps!Init, Snaps!RequestsInit, SnapsInv, Snaps!TypeOK, SnapsTimed,
             SnapsListed, SnapsDated, SnapsWoken, SnapsTurnFollows,
                      SnapsMissed

LEMMA SnapsTypesKept == ASSUME Snaps!TypeOK, Snaps!Next PROVE Snaps!TypeOK'
  <1> USE DEF Snaps!TypeOK
  <1>1. ASSUME NEW t \in Tickets, Snaps!Register(t) PROVE Snaps!TypeOK'
    <2>1. Snaps!Push(t) /\ Snaps!NoteChanges  BY <1>1 DEF Snaps!Register
    <2>2. Snaps!RequestsTypeOK'
      BY <1>1, <2>1, SnapsCardPushed DEF Snaps!Register, Snaps!Push, Snaps!RequestsTypeOK,
         Snaps!channelVars
    <2> QED BY <1>1, <2>1, <2>2, SnapsCardPushed DEF Snaps!Register, Snaps!renderVars
  <1>2. ASSUME NEW ts \in SUBSET Tickets, Snaps!Drop(ts), Snaps!NoteChanges,
               sent' \in [Tickets -> Snaps!Replies \cup {Snaps!Empty, Snaps!Nothing}],
               dismissed' = dismissed, UNCHANGED <<time, holdMs, heard, engine>>
        PROVE  Snaps!RequestsTypeOK' /\ changed' \in [Tickets -> Nat]
    BY <1>2, SnapsCardsDropped DEF Snaps!RequestsTypeOK
  <1>3. ASSUME NEW t \in Tickets, Snaps!CancelCard(t) PROVE Snaps!TypeOK'
    <2>1. Snaps!Waiting(t) \in SUBSET Tickets  BY SnapsOneOfItsId
    <2>2. sent' \in [Tickets -> Snaps!Replies \cup {Snaps!Empty, Snaps!Nothing}]
      BY <1>3 DEF Snaps!CancelCard, Snaps!Cancel, Snaps!RequestsTypeOK
    <2>3. /\ Snaps!Drop(Snaps!Waiting(t)) /\ Snaps!NoteChanges
          /\ dismissed' = dismissed /\ UNCHANGED <<time, holdMs, heard, engine>>
      BY <1>3 DEF Snaps!CancelCard, Snaps!Cancel
    <2>4. Snaps!RequestsTypeOK' /\ changed' \in [Tickets -> Nat]  BY <1>2, <2>1, <2>2, <2>3
    <2> QED BY <1>3, <2>4 DEF Snaps!CancelCard, Snaps!renderVars
  <1>4. ASSUME NEW t \in Tickets, Snaps!Wake(t) PROVE Snaps!TypeOK'
    BY <1>4 DEF Snaps!Wake, Snaps!RequestsTypeOK, Snaps!requestVars, Snaps!ownerVars,
       Snaps!channelVars, Snaps!renderVars
  <1>5. ASSUME NEW t \in Tickets, Snaps!UserAnswers(t) PROVE Snaps!TypeOK'
    <2>1. sent' \in [Tickets -> Snaps!Replies \cup {Snaps!Empty, Snaps!Nothing}]
      BY <1>5 DEF Snaps!UserAnswers, Snaps!RequestsTypeOK
    <2>2. /\ Snaps!Drop({t}) /\ Snaps!NoteChanges
          /\ dismissed' = dismissed /\ UNCHANGED <<time, holdMs, heard, engine>>
      BY <1>5 DEF Snaps!UserAnswers
    <2>3. Snaps!RequestsTypeOK' /\ changed' \in [Tickets -> Nat]  BY <1>2, <2>1, <2>2
    <2> QED BY <1>5, <2>3 DEF Snaps!UserAnswers, Snaps!renderVars
  <1>6. ASSUME NEW h \in Holds, Snaps!UserSetsHold(h) PROVE Snaps!TypeOK'
    <2>1. deadline' \in [Tickets -> Nat]  BY <1>6, SnapsTypes DEF Snaps!UserSetsHold,
                                             Snaps!SetHold
    <2>2. Snaps!RequestsTypeOK'
      BY <1>6, <2>1 DEF Snaps!UserSetsHold, Snaps!SetHold, Snaps!RequestsTypeOK, Snaps!channelVars
    <2> QED BY <1>6, <2>2 DEF Snaps!UserSetsHold
  <1>7. CASE Snaps!StartTurn \/ Snaps!KeepSnapshot \/ Snaps!RenderAgain
    BY <1>7 DEF Snaps!StartTurn, Snaps!KeepSnapshot, Snaps!RenderAgain, Snaps!RequestsTypeOK,
       Snaps!requestVars, Snaps!ownerVars,
                Snaps!channelVars
  <1>8. ASSUME Snaps!Expire PROVE Snaps!RequestsTypeOK' /\ changed' \in [Tickets -> Nat] /\ requested' \in BOOLEAN
    <2>1. Snaps!Lapsed(time) \in SUBSET Tickets  BY SnapsTypes DEF Snaps!Lapsed
    <2>2. sent' \in [Tickets -> Snaps!Replies \cup {Snaps!Empty, Snaps!Nothing}]
      BY <1>8 DEF Snaps!Expire, Snaps!RequestsTypeOK
    <2>3. dismissed' = dismissed
      BY <1>8 DEF Snaps!Expire, Snaps!ExpireSection
    <2>4. Snaps!RequestsTypeOK' /\ changed' \in [Tickets -> Nat]
      BY <1>2, <1>8, <2>1, <2>2, <2>3 DEF Snaps!Expire, Snaps!ExpireSection
    <2> QED BY <1>8, <2>4 DEF Snaps!Expire
  <1>9. CASE Snaps!RenderExpire
    BY <1>8, <1>9 DEF Snaps!RenderExpire, Snaps!Expire
  <1>10. CASE Snaps!RenderList
    <2>1. Snaps!RequestsTypeOK' /\ changed' \in [Tickets -> Nat] /\ requested' \in BOOLEAN
      BY <1>8, <1>10 DEF Snaps!RenderList
    <2>2. pending' \subseteq Tickets  BY <2>1 DEF Snaps!RequestsTypeOK
    <2> QED BY <1>10, <2>1, <2>2 DEF Snaps!RenderList, Snaps!Expire
  <1>11. CASE Snaps!RenderKey
    BY <1>11 DEF Snaps!RenderKey, Snaps!RequestsTypeOK, Snaps!channelVars
  <1>12. CASE Snaps!RenderDue
    <2>1. Snaps!NextDue \in Nat  BY SnapsDueIsNext
    <2> QED BY <1>12, <2>1 DEF Snaps!RenderDue, Snaps!RequestsTypeOK, Snaps!requestVars,
               Snaps!ownerVars, Snaps!channelVars
  <1>13. CASE Snaps!TimePasses
    <2>1. time' \in 0..MaxTime
      BY <1>13, SnapsTypes, UsageBounds DEF Snaps!TimePasses, Snaps!Tick, Snaps!RequestsTypeOK
    <2> QED BY <1>13, <2>1 DEF Snaps!TimePasses, Snaps!Tick, Snaps!RequestsTypeOK,
               Snaps!ownerVars, Snaps!channelVars, Snaps!renderVars
  <1> QED BY <1>1, <1>3, <1>4, <1>5, <1>6, <1>7, <1>9, <1>10, <1>11, <1>12, <1>13 DEF Snaps!Next

SnapsRest == SnapsTimed /\ SnapsListed /\ SnapsDated /\ SnapsWoken /\ SnapsTurnFollows

LEMMA SnapsRegisterKeeps == ASSUME SnapsInv, NEW c \in Tickets, Snaps!Register(c) PROVE SnapsRest'
  <1> USE DEF SnapsInv
  <1>1. /\ pending' = pending \cup {c} /\ revised' = TRUE
        /\ \A t \in pending \ {c} : deadline'[t] = deadline[t]
        /\ deadline'[c] = time + holdMs
        /\ \A t \in Tickets \ {c} : changed'[t] = changed[t]
        /\ changed'[c] = IF c \in pending THEN changed[c] ELSE time
    BY SnapsCardPushed DEF Snaps!Register
  <1>2. /\ client' = [client EXCEPT ![c] = "pushed"] /\ client'[c] = "pushed"
        /\ \A t \in Tickets \ {c} : client'[t] = client[t]
    BY DEF Snaps!Register, Snaps!TypeOK
  <1>3. UNCHANGED <<time, requested, turn, byUser, listed, shown, lastDue, dueAt>>
    BY DEF Snaps!Register, Snaps!renderVars
  <1>4. time < time + holdMs /\ pending \subseteq Tickets  BY SnapsTypes
  <1>5. SnapsTimed'   BY <1>1, <1>3, <1>4 DEF SnapsTimed
  <1>6. SnapsListed'  BY <1>1, <1>3, <1>4 DEF SnapsListed
  <1>7. SnapsDated'   BY <1>1 DEF SnapsDated
  <1>8. SnapsWoken'   BY <1>1, <1>2, <1>3, <1>4 DEF SnapsWoken, SnapsMissed
  <1>9. SnapsTurnFollows'  BY <1>3 DEF SnapsTurnFollows
  <1> QED BY <1>5, <1>6, <1>7, <1>8, <1>9 DEF SnapsRest

LEMMA SnapsCancelKeeps == ASSUME SnapsInv, NEW c \in Tickets, Snaps!CancelCard(c) PROVE SnapsRest'
  <1> USE DEF SnapsInv
  <1> DEFINE ts == pending \cap {c}
  <1>1. Snaps!Drop(ts) /\ Snaps!NoteChanges  BY SnapsOneOfItsId DEF Snaps!CancelCard, Snaps!Cancel
  <1>2. /\ pending' = pending \ {c} /\ revised' = (revised \/ c \in pending)
        /\ \A t \in pending' : deadline'[t] = deadline[t]
        /\ \A t \in Tickets : changed'[t] = IF t = c /\ c \in pending THEN time ELSE changed[t]
    BY <1>1, SnapsCardsDropped, SnapsTypes
  <1>3. /\ client'[c] = (IF c \in pending THEN "removed" ELSE "left")
        /\ \A t \in Tickets \ {c} : client'[t] = client[t]
        /\ client[c] = "waiting"
    BY DEF Snaps!CancelCard, Snaps!TypeOK
  <1>4. UNCHANGED <<time, requested, turn, byUser, listed, shown, lastDue, dueAt>>
    BY DEF Snaps!CancelCard, Snaps!renderVars
  <1> HIDE DEF ts
  <1>5. SnapsTimed'   BY <1>2, <1>4 DEF SnapsTimed
  <1>6. SnapsListed'  BY <1>2, <1>4 DEF SnapsListed
  <1>7. SnapsDated'   BY <1>2, <1>4 DEF SnapsDated, SnapsMissed
  <1>8. SnapsWoken'   BY <1>2, <1>3, <1>4, SnapsTypes DEF SnapsWoken, SnapsMissed
  <1>9. SnapsTurnFollows'  BY <1>4 DEF SnapsTurnFollows
  <1> QED BY <1>5, <1>6, <1>7, <1>8, <1>9 DEF SnapsRest

LEMMA SnapsWakeKeeps == ASSUME SnapsInv, NEW c \in Tickets, Snaps!Wake(c) PROVE SnapsRest'
  <1> USE DEF SnapsInv
  <1>1. /\ UNCHANGED <<time, pending, deadline, revised, turn, byUser, listed, shown, lastDue,
                       dueAt, changed>>
        /\ requested'
    BY DEF Snaps!Wake, Snaps!requestVars, Snaps!ownerVars, Snaps!renderVars
  <1> QED BY <1>1 DEF SnapsRest, SnapsTimed, SnapsListed, SnapsDated, SnapsWoken,
             SnapsTurnFollows, SnapsMissed

LEMMA SnapsAnswerKeeps == ASSUME SnapsInv, NEW c \in Tickets,
Snaps!UserAnswers(c) PROVE SnapsRest'
  <1> USE DEF SnapsInv
  <1>1. turn' = "none" /\ requested' /\ revised'
    BY SnapsCardsDropped DEF Snaps!UserAnswers, Snaps!renderVars
  <1> QED BY <1>1 DEF SnapsRest, SnapsTimed, SnapsListed, SnapsDated, SnapsWoken, SnapsTurnFollows

LEMMA SnapsHoldKeeps == ASSUME SnapsInv, NEW h \in Holds, Snaps!UserSetsHold(h) PROVE SnapsRest'
  <1>1. turn' = "expiring" /\ requested'  BY DEF Snaps!UserSetsHold
  <1> QED BY <1>1 DEF SnapsRest, SnapsTimed, SnapsListed, SnapsDated, SnapsWoken, SnapsTurnFollows

LEMMA SnapsStartKeeps == ASSUME SnapsInv, Snaps!StartTurn PROVE SnapsRest'
  <1> USE DEF SnapsInv
  <1>1. /\ turn = "none" /\ turn' = "checking" /\ byUser' = FALSE
        /\ UNCHANGED <<pending, deadline, revised, shown, lastDue, changed>>
    BY DEF Snaps!StartTurn, Snaps!requestVars, Snaps!ownerVars
  <1> QED BY <1>1 DEF SnapsRest, SnapsTimed, SnapsListed, SnapsDated, SnapsWoken,
             SnapsTurnFollows, SnapsMissed

LEMMA SnapsKeepKeeps == ASSUME SnapsInv, Snaps!KeepSnapshot PROVE SnapsRest'
  <1> USE DEF SnapsInv
  <1>1. /\ turn = "checking" /\ turn' = "none" /\ ~revised /\ dueAt' = lastDue
        /\ UNCHANGED <<pending, deadline, revised, shown, lastDue, changed>>
    BY DEF Snaps!KeepSnapshot, Snaps!requestVars, Snaps!ownerVars
  <1> QED BY <1>1 DEF SnapsRest, SnapsTimed, SnapsListed, SnapsDated, SnapsWoken,
             SnapsTurnFollows, SnapsMissed

LEMMA SnapsAgainKeeps == ASSUME SnapsInv, Snaps!RenderAgain PROVE SnapsRest'
  <1>1. turn = "checking" /\ turn' = "expiring" /\ byUser' = byUser  BY DEF Snaps!RenderAgain
  <1> QED BY <1>1 DEF SnapsInv, SnapsRest, SnapsTimed, SnapsListed, SnapsDated, SnapsWoken,
             SnapsTurnFollows

LEMMA SnapsCardsExpired ==
    ASSUME Snaps!TypeOK, Snaps!Expire
    PROVE  /\ \A t \in pending' : time < deadline'[t]
           /\ pending' \subseteq pending
           /\ \A t \in pending \ pending' : changed'[t] = time
  <1>1. Snaps!Drop(Snaps!Lapsed(time)) /\ Snaps!NoteChanges  BY DEF Snaps!Expire,
  Snaps!ExpireSection
  <1>2. Snaps!Lapsed(time) \in SUBSET Tickets  BY SnapsTypes DEF Snaps!Lapsed
  <1>3. /\ pending' = pending \ Snaps!Lapsed(time)
        /\ \A t \in pending' : deadline'[t] = deadline[t]
        /\ \A t \in Tickets : changed'[t] = IF t \in pending \cap Snaps!Lapsed(time) THEN time ELSE changed[t]
    BY <1>1, <1>2, SnapsCardsDropped
  <1>4. \A t \in pending \ Snaps!Lapsed(time) : time < deadline[t]
    <2> TAKE t \in pending \ Snaps!Lapsed(time)
    <2>1. time \in Nat /\ deadline[t] \in Nat  BY SnapsTypes
    <2>2. ~(deadline[t] <= time)  BY DEF Snaps!Lapsed
    <2> QED BY <2>1, <2>2
  <1> QED BY <1>3, <1>4, SnapsTypes

LEMMA SnapsExpireKeeps == ASSUME SnapsInv, Snaps!RenderExpire PROVE SnapsRest'
  <1> USE DEF SnapsInv
  <1>1. /\ turn = "expiring" /\ turn' = "listing" /\ byUser' = byUser /\ time' = time
        /\ requested => requested'
    BY DEF Snaps!RenderExpire, Snaps!Expire
  <1>2. \A t \in pending' : time < deadline'[t]  BY SnapsCardsExpired DEF Snaps!RenderExpire
  <1> QED BY <1>1, <1>2 DEF SnapsRest, SnapsTimed, SnapsListed, SnapsDated, SnapsWoken,
             SnapsTurnFollows

LEMMA SnapsListKeeps == ASSUME SnapsInv, Snaps!RenderList PROVE SnapsRest'
  <1> USE DEF SnapsInv
  <1>1. /\ turn = "listing" /\ turn' = "keying" /\ byUser' = byUser /\ time' = time
        /\ listed' = pending' /\ (requested => requested')
    BY DEF Snaps!RenderList, Snaps!Expire
  <1>2. \A t \in pending' : time < deadline'[t]  BY SnapsCardsExpired DEF Snaps!RenderList
  <1> QED BY <1>1, <1>2 DEF SnapsRest, SnapsTimed, SnapsListed, SnapsDated, SnapsWoken,
             SnapsTurnFollows

LEMMA SnapsKeyKeeps == ASSUME SnapsInv, Snaps!RenderKey PROVE SnapsRest'
  <1> USE DEF SnapsInv
  <1>1. /\ turn = "keying" /\ turn' = "dating"
        /\ UNCHANGED <<time, pending, deadline, listed, changed, byUser, requested>>
    BY DEF Snaps!RenderKey
  <1> QED BY <1>1 DEF SnapsRest, SnapsTimed, SnapsListed, SnapsDated, SnapsWoken, SnapsTurnFollows

LEMMA SnapsDueKeeps == ASSUME SnapsInv, Snaps!RenderDue PROVE SnapsRest'
  <1> USE DEF SnapsInv
  <1>1. /\ turn = "dating" /\ turn' = "none" /\ lastDue' = Snaps!NextDue
        /\ dueAt' = (IF byUser THEN dueAt ELSE Snaps!NextDue) /\ shown' = listed
        /\ UNCHANGED <<time, pending, deadline, changed, byUser, requested, revised>>
    BY DEF Snaps!RenderDue, Snaps!requestVars, Snaps!ownerVars
  <1>2. \A t \in pending : Snaps!NextDue <= deadline[t]  BY <1>1, SnapsDueIsNext DEF SnapsTimed
  <1>3. \A t \in Tickets : (t \in listed) # (t \in pending) => Snaps!NextDue <= changed[t] + Safety
    BY <1>1, SnapsDueIsNext DEF SnapsListed
  <1>4. byUser => requested  BY <1>1 DEF SnapsTurnFollows
  <1>5. SnapsTimed' /\ SnapsListed' /\ SnapsTurnFollows'  BY <1>1 DEF SnapsTimed, SnapsListed,
                                                             SnapsTurnFollows
  <1>6. SnapsDated'  BY <1>1, <1>2, <1>3 DEF SnapsDated, SnapsMissed
  <1>7. SnapsWoken'  BY <1>1, <1>2, <1>3, <1>4 DEF SnapsWoken, SnapsMissed
  <1> QED BY <1>5, <1>6, <1>7 DEF SnapsRest

LEMMA SnapsTimeKeeps == ASSUME SnapsInv, Snaps!TimePasses PROVE SnapsRest'
  <1> USE DEF SnapsInv
  <1>1. /\ turn = "none"
        /\ UNCHANGED <<pending, deadline, revised, client, requested, turn, byUser, listed, shown,
                       lastDue, dueAt, changed>>
    BY DEF Snaps!TimePasses, Snaps!Settled, Snaps!Tick, Snaps!ownerVars, Snaps!renderVars
  <1> QED BY <1>1 DEF SnapsRest, SnapsTimed, SnapsListed, SnapsDated, SnapsWoken,
             SnapsTurnFollows, SnapsMissed

LEMMA SnapsNextKeeps == ASSUME SnapsInv, Snaps!Next PROVE SnapsInv'
  <1>1. Snaps!TypeOK'  BY SnapsTypesKept DEF SnapsInv
  <1>2. SnapsRest'
    BY SnapsRegisterKeeps, SnapsCancelKeeps, SnapsWakeKeeps, SnapsAnswerKeeps, SnapsHoldKeeps,
       SnapsStartKeeps, SnapsKeepKeeps, SnapsAgainKeeps, SnapsExpireKeeps, SnapsListKeeps,
       SnapsKeyKeeps, SnapsDueKeeps, SnapsTimeKeeps
    DEF Snaps!Next
  <1> QED BY <1>1, <1>2 DEF SnapsInv, SnapsRest

LEMMA SnapsStays == ASSUME SnapsInv, UNCHANGED snapsVars PROVE SnapsInv'
  BY DEF snapsVars, SnapsInv, Snaps!TypeOK, Snaps!RequestsTypeOK, SnapsTimed, SnapsListed,
         SnapsDated, SnapsWoken, SnapsTurnFollows, SnapsMissed

\* What a resting collector shows is right, or late by less than the safety refresh.
LEMMA SnapsLate == ASSUME SnapsInv PROVE Snaps!MissedAtMostSafety
  <1> SUFFICES ASSUME Snaps!Settled, NEW t \in Tickets, SnapsMissed(t)
               PROVE  time < changed[t] + Safety
    BY DEF Snaps!MissedAtMostSafety, SnapsMissed
  <1>1. /\ turn = "none" /\ ~requested /\ client[t] \notin {"pushed", "removed"}
        /\ ~(dueAt <= time)
    BY DEF Snaps!Settled, Snaps!TurnDue
  <1>2. dueAt <= changed[t] + Safety  BY <1>1 DEF SnapsInv, SnapsWoken
  <1> QED BY <1>1, <1>2, SnapsTypes DEF SnapsInv

\* No card waits past its deadline while the collector rests.
LEMMA SnapsExpire == ASSUME SnapsInv PROVE Snaps!ExpiresOnTime
  <1> SUFFICES ASSUME Snaps!Settled, NEW t \in pending
               PROVE  time < deadline[t]
    BY DEF Snaps!ExpiresOnTime
  <1>0. t \in Tickets  BY SnapsTypes DEF SnapsInv
  <1>1. turn = "none" /\ ~requested /\ client[t] # "pushed" /\ ~(dueAt <= time)
    BY <1>0 DEF Snaps!Settled, Snaps!TurnDue
  <1>2. dueAt <= deadline[t]  BY <1>1 DEF SnapsInv, SnapsWoken
  <1> QED BY <1>0, <1>1, <1>2, SnapsTypes DEF SnapsInv


-----------------------------------------------------------------------------
(* The eight together.                                                     *)

\* The one that runs keeps its invariant.
Inv ==
    /\ who \in {"share", "usage", "claude", "settings", "host", "readings", "feed",
               "snapshots"}
    /\ who = "share" => ShareInv
    /\ who = "usage" => UsageInv
    /\ who = "claude" => ClaudeInv
    /\ who = "settings" => SettingsInv
    /\ who = "host" => HostInv
    /\ who = "readings" => ReadingsInv
    /\ who = "feed" => FeedInv
    /\ who = "snapshots" => SnapsInv

\* Each begins with its invariant.
LEMMA InitHolds == ASSUME Init PROVE Inv
  BY ShareInitHolds, UsageInitHolds, ClaudeInitHolds, SettingsInitHolds, HostInitHolds,
     ReadingsInitHolds, FeedInitHolds, SnapsInitInv
     DEF Init, Inv

\* A step is one of the one that runs, or leaves it.
LEMMA NextKeeps == ASSUME Inv, [Next]_vars PROVE Inv'
  <1>1. CASE ShareNext
    <2>1. who = "share" /\ who' = who /\ Share!Next  BY <1>1 DEF ShareNext
    <2>2. ShareInv'  BY <2>1, ShareNextKeeps DEF Inv
    <2> QED BY <2>1, <2>2 DEF Inv
  <1>2. CASE UsageNext
    <2>1. who = "usage" /\ who' = who /\ Usage!Next  BY <1>2 DEF UsageNext
    <2>2. UsageInv'  BY <2>1, UsageNextKeeps DEF Inv
    <2> QED BY <2>1, <2>2 DEF Inv
  <1>3. CASE ClaudeNext
    <2>1. who = "claude" /\ who' = who /\ Claude!Next  BY <1>3 DEF ClaudeNext
    <2>2. ClaudeInv'  BY <2>1, ClaudeNextKeeps DEF Inv
    <2> QED BY <2>1, <2>2 DEF Inv
  <1>4. CASE SettingsNext
    <2>1. who = "settings" /\ who' = who /\ Settings!Next  BY <1>4 DEF SettingsNext
    <2>2. SettingsInv'  BY <2>1, SettingsNextKeeps DEF Inv
    <2> QED BY <2>1, <2>2 DEF Inv
  <1>5. CASE HostNext
    <2>1. who = "host" /\ who' = who /\ Host!Next  BY <1>5 DEF HostNext
    <2>2. HostInv'  BY <2>1, HostNextKeeps DEF Inv
    <2> QED BY <2>1, <2>2 DEF Inv
  <1>6. CASE ReadingsNext
    <2>1. who = "readings" /\ who' = who /\ Readings!Next  BY <1>6 DEF ReadingsNext
    <2>2. ReadingsInv'  BY <2>1, ReadingsNextKeeps DEF Inv
    <2> QED BY <2>1, <2>2 DEF Inv
  <1>7. CASE FeedNext
    <2>1. who = "feed" /\ who' = who /\ Feed!Next  BY <1>7 DEF FeedNext
    <2>2. FeedInv'  BY <2>1, FeedNextKeeps DEF Inv
    <2> QED BY <2>1, <2>2 DEF Inv
  <1>8. CASE SnapsNext
    <2>1. who = "snapshots" /\ who' = who /\ Snaps!Next  BY <1>8 DEF SnapsNext
    <2>2. SnapsInv'  BY <2>1, SnapsNextKeeps DEF Inv
    <2> QED BY <2>1, <2>2 DEF Inv
  <1>9. CASE UNCHANGED vars
    <2>1. /\ who' = who
          /\ UNCHANGED shareVars /\ UNCHANGED usageVars /\ UNCHANGED claudeVars
          /\ UNCHANGED settingsVars /\ UNCHANGED hostVars /\ UNCHANGED readingsVars
          /\ UNCHANGED feedVars /\ UNCHANGED snapsVars
      BY <1>9 DEF vars
    <2> QED BY <2>1, ShareStays, UsageStays, ClaudeStays, SettingsStays, HostStays,
               ReadingsStays, FeedStays, SnapsStays DEF Inv
  <1> QED BY <1>1, <1>2, <1>3, <1>4, <1>5, <1>6, <1>7, <1>8, <1>9 DEF Next

\* The invariant holds of every behaviour, for all values of the constants.
LEMMA InvHolds == Spec => []Inv
  <1>1. Init => Inv  BY InitHolds
  <1>2. Inv /\ [Next]_vars => Inv'  BY NextKeeps
  <1> QED BY <1>1, <1>2, PTL DEF Spec

\* Each of the eight keeps the types of its state: no handler of them leaves
\* what the code's types, and its bounds, allow.
THEOREM TypeCorrect == Spec => []TypeOK
  <1>1. Inv => TypeOK  BY DEF Inv, TypeOK, ShareInv, UsageInv, ClaudeInv, SettingsInv, HostInv,
                               ReadingsInv, FeedInv, SnapsInv
  <1> QED BY <1>1, InvHolds, PTL

\* Sharing with phones stays as the settings page was last told, whatever is
\* asked before and however often the app ends and starts (crates/lan).
THEOREM SharingStaysAsTold == Spec => []ToldIsKept
  <1>1. Inv => ToldIsKept  BY DEF Inv, ToldIsKept, ShareInv
  <1> QED BY <1>1, InvHolds, PTL

\* What a phone is served is late by one read for today and yesterday and by
\* the time between two full reads for other days, for any days, names and bounds.
THEOREM PhonesAreServedInTime == Spec => []ServedInTime
  <1>1. Inv => ServedInTime  BY UsageServes DEF Inv, ServedInTime
  <1> QED BY <1>1, InvHolds, PTL

\* Words for a Claude Code session are submitted once at most, and what the
\* app was told of them is so, through any crash of the plugin and any sweep.
THEOREM WordsReachASessionOnce == Spec => []WordsOnce
  <1>1. Inv => WordsOnce  BY ClaudeOnce DEF Inv, WordsOnce
  <1> QED BY <1>1, InvHolds, PTL

\* Whatever fails of an installation, what a client has saved in its settings
\* stays, but in a file it saved between the comparison and the write.
THEOREM ClientsSettingsAreKept == Spec => []ClientsSettingsStay
  <1>1. Inv => ClientsSettingsStay  BY SettingsAsLeft DEF Inv, ClientsSettingsStay
  <1> QED BY <1>1, InvHolds, PTL

\* When the host's worker waits with nothing owed it has drawn the latest of
\* every fact, whatever wakes were merged meanwhile, but for screens it could
\* not measure, and for windows or a menu bar whose last drawing failed.
THEOREM WindowsShowWhatIsSo == Spec => []DrawnIsSo
  <1>1. Inv => DrawnIsSo  BY HostSo DEF Inv, DrawnIsSo
  <1> QED BY <1>1, InvHolds, PTL

\* An account that is shown is of the homes that are set, and of the sign-in
\* there is or is about to be read again, for any sign-ins and pauses.
THEOREM AccountsAreOfTheirHomes == Spec => []ShownIsCurrent
  <1>1. Inv => ShownIsCurrent  BY DEF Inv, ShownIsCurrent, ReadingsInv
  <1> QED BY <1>1, InvHolds, PTL

\* While no delivery fails and the app lives, every line the store lacks
\* between what it holds is in the gap that conversation_catchup.rs reads
\* again, for a log of any length.
THEOREM NoHoleIsForgotten == Spec => []HolesAreNoted
  <1>1. Inv => HolesAreNoted  BY DEF Inv, HolesAreNoted, FeedInv
  <1> QED BY <1>1, InvHolds, PTL

\* What a resting collector shows of the cards is right, or late by less than
\* the safety refresh, for any number of cards (core/src/snapshot.rs, `render_due`).
THEOREM LateBySafety == Spec => []MissedAtMostSafety
  <1>1. Inv => MissedAtMostSafety  BY SnapsLate DEF Inv, MissedAtMostSafety
  <1> QED BY <1>1, InvHolds, PTL

\* No card waits past its deadline while the collector rests, whatever hold
\* time was chosen while it waited (requests.rs, `set_hold_ms` and `expire`).
THEOREM NoneOutstays == Spec => []ExpiresOnTime
  <1>1. Inv => ExpiresOnTime  BY SnapsExpire DEF Inv, ExpiresOnTime
  <1> QED BY <1>1, InvHolds, PTL

=============================================================================
