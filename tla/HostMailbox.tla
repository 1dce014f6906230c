----------------------------- MODULE HostMailbox -----------------------------
(***************************************************************************)
(* The window worker of the host (crates/host/src/coordinator.rs and       *)
(* coordinator/worker.rs).  The collector, the settings, the system and    *)
(* the product wake it through one mailbox that merges what changed; it    *)
(* reads the facts themselves as it goes, and draws the HUD windows and    *)
(* the menu bar.  A fact is a number that grows when the fact changes.     *)
(***************************************************************************)
EXTENDS Naturals

CONSTANT MaxChanges  \* bound: changes of all facts together

VARIABLES
    facts,    \* what is so
    owed,     \* facts that have changed whose wake is still to come
    mailbox,  \* Pending
    drawer,   \* the worker
    drawn,    \* what the windows, the menu bar and the pages' notice show
    amiss     \* screens that could not be measured since they changed, and windows
              \* and menu bar that could not be drawn when they last were to be

vars == <<facts, owed, mailbox, drawer, drawn, amiss>>

Fact == {"snapshot", "view", "screens", "light", "notice"}
Bits == {"SNAPSHOT", "CLOCK", "SCREENS", "DISPLAY", "APPEARANCE", "UPDATE"}
BitOf == [snapshot |-> "SNAPSHOT", view |-> "DISPLAY", screens |-> "SCREENS",
          light |-> "APPEARANCE", notice |-> "UPDATE"]
Numbers == 0..MaxChanges

\* What it draws from: the snapshot 0 is none.
Windows == {"snapshot", "view", "screens"}
Menu == Fact

TypeOK ==
    /\ facts \in [Fact -> Numbers] /\ owed \subseteq Fact
    /\ mailbox \in [bits : SUBSET Bits, snapshot : Numbers, light : Numbers, stopped : BOOLEAN]
    /\ drawer \in [step : {"off", "wait", "measure", "view", "apply", "notice", "menu"},
                   bits : SUBSET Bits, has : [Fact -> Numbers]]
    /\ drawn \in [windows : [Windows -> Numbers], menu : [Menu -> Numbers], notice : Numbers]
    /\ amiss \subseteq {"screens", "windows", "menu"}

Nil == [f \in Fact |-> 0]

Init ==
    /\ facts = Nil /\ owed = {}
    /\ mailbox = [bits |-> {"SCREENS", "DISPLAY"}, snapshot |-> 0, light |-> 0, stopped |-> FALSE]
    /\ drawer = [step |-> "off", bits |-> {}, has |-> Nil]
    /\ drawn = [windows |-> [f \in Windows |-> 0], menu |-> Nil, notice |-> 0]
    /\ amiss = {}

-----------------------------------------------------------------------------
(* Those that wake it.  A fact changes first, its owner wakes after.       *)

Changes == facts["snapshot"] + facts["view"] + facts["screens"] + facts["light"] + facts["notice"]

Change(f) ==
    /\ Changes < MaxChanges
    /\ facts' = [facts EXCEPT ![f] = @ + 1]
    /\ owed' = owed \cup {f}
    /\ amiss' = IF f = "screens" THEN amiss \ {"screens"} ELSE amiss
    /\ UNCHANGED <<mailbox, drawer, drawn>>

\* Mutant: the last to wake says what changed.
Woken_Last(bit) == [mailbox EXCEPT !.bits = {bit}]

Woken(bit) == [mailbox EXCEPT !.bits = @ \cup {bit}]

\* A new projection and the system's appearance are carried along; the other
\* facts are read when they are needed.
Wake(f) ==
    /\ f \in owed
    /\ owed' = owed \ {f}
    /\ mailbox' = IF f \in {"snapshot", "light"}
                  THEN [Woken(BitOf[f]) EXCEPT ![f] = facts[f]] ELSE Woken(BitOf[f])
    /\ UNCHANGED <<facts, drawer, drawn, amiss>>

\* A pass that changed nothing brings the same projection at a later time.
Clock ==
    /\ facts["snapshot"] # 0 /\ "snapshot" \notin owed
    /\ mailbox' = [Woken("CLOCK") EXCEPT !.snapshot = facts["snapshot"]]
    /\ UNCHANGED <<facts, owed, drawer, drawn, amiss>>

Stop ==
    /\ ~mailbox.stopped
    /\ mailbox' = [mailbox EXCEPT !.stopped = TRUE]
    /\ UNCHANGED <<facts, owed, drawer, drawn, amiss>>

-----------------------------------------------------------------------------
(* The worker.                                                             *)

\* It starts when the windows and the tray are there, and reads the view and
\* the appearance before it waits.
Start ==
    /\ drawer.step = "off" /\ ~mailbox.stopped
    /\ drawer' = [drawer EXCEPT !.step = "wait",
                    !.has = [Nil EXCEPT !["view"] = facts["view"], !["light"] = facts["light"]]]
    /\ UNCHANGED <<facts, owed, mailbox, drawn, amiss>>

Goes(step) == drawer' = [drawer EXCEPT !.step = step]

End ==
    /\ drawer.step = "wait" /\ mailbox.stopped
    /\ Goes("off")
    /\ UNCHANGED <<facts, owed, mailbox, drawn, amiss>>

\* What is in the mailbox replaces what the worker has.
Carried(f) == IF mailbox[f] # 0 THEN mailbox[f] ELSE drawer.has[f]

\* Something changed, or Bots are due, or the screens on a host that polls them.
Take ==
    /\ drawer.step = "wait" /\ ~mailbox.stopped
    /\ \E poll \in {{}, {"SCREENS"}} :
          drawer' = [step |-> "measure", bits |-> mailbox.bits \cup poll,
                     has |-> [drawer.has EXCEPT !["snapshot"] = Carried("snapshot"),
                                                !["light"] = Carried("light")]]
    /\ mailbox' = [mailbox EXCEPT !.bits = {}, !.snapshot = 0, !.light = 0]
    /\ UNCHANGED <<facts, owed, drawn, amiss>>

\* Displays that changed may change the view, which its owner keeps.
Measure ==
    /\ drawer.step = "measure" /\ "SCREENS" \in drawer.bits
    /\ drawer' = [drawer EXCEPT !.step = "view", !.has["screens"] = facts["screens"],
                    !.bits = IF drawer.has["screens"] = facts["screens"] THEN @ ELSE @ \cup {"DISPLAY"}]
    /\ \/ UNCHANGED facts
       \/ /\ drawer.has["screens"] # facts["screens"] /\ Changes < MaxChanges
          /\ facts' = [facts EXCEPT !["view"] = @ + 1]
    /\ amiss' = amiss \ {"screens"}
    /\ UNCHANGED <<owed, mailbox, drawn>>

\* An error is logged; the screens are measured again when they change, or by
\* the poll of the hosts that have one.
CannotMeasure ==
    /\ drawer.step = "measure" /\ "SCREENS" \in drawer.bits
    /\ Goes("view") /\ amiss' = amiss \cup {"screens"}
    /\ UNCHANGED <<facts, owed, mailbox, drawn>>

NotMeasured ==
    /\ drawer.step = "measure" /\ "SCREENS" \notin drawer.bits
    /\ Goes("view")
    /\ UNCHANGED <<facts, owed, mailbox, drawn, amiss>>

ReadView ==
    /\ drawer.step = "view"
    /\ drawer' = [drawer EXCEPT !.step = "apply",
                    !.has["view"] = IF "DISPLAY" \in drawer.bits THEN facts["view"] ELSE @]
    /\ UNCHANGED <<facts, owed, mailbox, drawn, amiss>>

WindowBits == {"SNAPSHOT", "DISPLAY", "SCREENS"}

Apply ==
    /\ drawer.step = "apply"
    /\ IF drawer.bits \cap WindowBits = {} THEN UNCHANGED <<drawn, amiss>>
       ELSE /\ drawn' = [drawn EXCEPT !.windows = [f \in Windows |-> drawer.has[f]]]
            /\ amiss' = amiss \ {"windows"}
    /\ Goes("notice")
    /\ UNCHANGED <<facts, owed, mailbox>>

\* A window cannot be configured: that is logged, and nothing is owed for it.
\* (So is one that was left half configured, whose plan is again the one before.)
CannotApply ==
    /\ drawer.step = "apply" /\ drawer.bits \cap WindowBits # {}
    /\ amiss' = amiss \cup {"windows"}
    /\ Goes("notice")
    /\ UNCHANGED <<facts, owed, mailbox, drawn>>

ReadNotice ==
    /\ drawer.step = "notice"
    /\ drawer' = [drawer EXCEPT !.step = "menu", !.has["notice"] = facts["notice"]]
    /\ drawn' = IF "UPDATE" \in drawer.bits THEN [drawn EXCEPT !.notice = facts["notice"]] ELSE drawn
    /\ UNCHANGED <<facts, owed, mailbox, amiss>>

DrawMenu ==
    /\ drawer.step = "menu"
    /\ IF drawer.bits = {} \/ drawer.has["snapshot"] = 0 THEN UNCHANGED <<drawn, amiss>>
       ELSE drawn' = [drawn EXCEPT !.menu = drawer.has] /\ amiss' = amiss \ {"menu"}
    /\ drawer' = [drawer EXCEPT !.step = "wait", !.bits = {}]
    /\ UNCHANGED <<facts, owed, mailbox>>

\* The same of the menu bar.
CannotDrawMenu ==
    /\ drawer.step = "menu" /\ drawer.bits # {} /\ drawer.has["snapshot"] # 0
    /\ amiss' = amiss \cup {"menu"}
    /\ drawer' = [drawer EXCEPT !.step = "wait", !.bits = {}]
    /\ UNCHANGED <<facts, owed, mailbox, drawn>>

-----------------------------------------------------------------------------
Next ==
    \/ \E f \in Fact : Change(f) \/ Wake(f)
    \/ Clock \/ Stop \/ Start \/ End
    \/ Take \/ Measure \/ CannotMeasure \/ NotMeasured \/ ReadView \/ Apply
    \/ CannotApply \/ ReadNotice \/ DrawMenu \/ CannotDrawMenu

-----------------------------------------------------------------------------
(* Properties.                                                             *)

\* When the worker waits with an empty mailbox, and nobody is about to wake
\* it, all that is drawn is what is so: no change was merged away, whoever
\* came first and whatever changed while it was drawing; but for screens it
\* could not measure, and for windows or a menu bar that could not be drawn
\* when they last were to be (coordinator/worker.rs, `run`).
DrawnIsSo ==
    drawer.step = "wait" /\ mailbox.bits = {} /\ owed = {} =>
        /\ \A f \in Fact : drawer.has[f] = facts[f] \/ (f = "screens" /\ f \in amiss)
        /\ "windows" \in amiss \/ drawn.windows = [f \in Windows |-> drawer.has[f]]
        /\ facts["snapshot"] # 0 => "menu" \in amiss \/ drawn.menu = drawer.has
        /\ drawn.notice = facts["notice"]

=============================================================================
