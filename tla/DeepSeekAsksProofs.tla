-------------------------- MODULE DeepSeekAsksProofs --------------------------
(***************************************************************************)
(* For any number of asks, tickets, observers and decisions: Harness acts  *)
(* on the HUD's answer only if the user gave it, no ask has two cards or a *)
(* card it was dismissed from, and while no observer is dropped every card *)
(* belongs to an ask that its observer knows.                              *)
(*                                                                         *)
(* The owner's part of the invariant (Owner) is kept by each kind of       *)
(* critical section; what an observer, a ticket's thread or the plugin     *)
(* knows of a ticket is kept because a message, once sent, stays as it is. *)
(***************************************************************************)
EXTENDS DeepSeekAsks, TLAPS

Answering(t) == engine.step = "send" /\ engine.ticket = t

\* What the engine carries between two of its steps.
EngineInv ==
    /\ engine.step \in {"idle", "expire", "send"} => engine.unsent = {}
    /\ engine.step = "send" =>
           engine.ticket \in Tickets /\ engine.decision \in Takes[engine.ticket]

\* A sender is in one place: with a card, with the engine, or used up.
HolderInv == \A t \in Tickets :
    /\ t \in pending => t \notin engine.unsent /\ ~Answering(t) /\ sent[t] = Empty
    /\ t \in engine.unsent => sent[t] = Empty
    /\ Answering(t) => sent[t] = Empty

Owner == RequestsTypeOK /\ EngineInv /\ HolderInv /\ OneCardPerId

\* A ticket that no thread has been started for is not in use.
Unused(t) == t \notin pending /\ t \notin engine.unsent /\ ~Answering(t) /\ sent[t] = Empty
FreshInv == \A t \in Tickets : deliver[t] = "none" => Unused(t)

\* A decision that was sent is one its card supports; while a thread listens
\* for it, or has it, the HUD was told that it arrived.
TellInv == \A t \in Tickets :
    /\ sent[t] \in Replies => sent[t] \in Takes[t]
    /\ Listening(t) /\ sent[t] \in Replies => told[t] = "ok"
    /\ deliver[t] \in {"checking", "writing"} => sent[t] \in Replies /\ told[t] = "ok"

\* The user gave this answer on a card of this ask.
Given(a, answer) ==
    \E t \in Tickets : /\ IdOf[t] = a /\ answer \in Takes[t]
                       /\ sent[t] = answer /\ told[t] = "ok"

AnswerInv == \A a \in Ids : answered[a] # Nothing => Given(a, answered[a])

Inv == TypeOK /\ Owner /\ FreshInv /\ TellInv /\ AnswerInv /\ HarnessTakesTheUsers

-----------------------------------------------------------------------------
USE RequestsAssumption, AsksAssumption

LEMMA Constants ==
    /\ Native = Tickets /\ Empty \notin Decisions /\ Nothing \notin Decisions
    /\ Empty # Nothing /\ Replies \subseteq Decisions
    /\ \A t \in Tickets : IdOf[t] \in Ids /\ By[t] \in Observers /\ Takes[t] \subseteq Decisions
    /\ Holds \subseteq Nat \ {0} /\ MaxTime \in Nat /\ NoId \notin Ids /\ Leave \in Decisions
  BY DEF RequestsAssumption, AsksAssumption, Replies, Empty, Nothing

-----------------------------------------------------------------------------
(* Critical sections of the owner.                                         *)

\* What was sent and told stays.
SentStays == \A t \in Tickets : sent[t] # Empty => sent'[t] = sent[t] /\ told'[t] = told[t]

\* What is sent anew is what its card supports, and told truly.
SentRight == \A t \in Tickets :
    sent[t] = Empty /\ sent'[t] \in Replies =>
        Answering(t) /\ sent'[t] \in Takes[t] /\ (Listening(t) => told'[t] = "ok")

\* A section that keeps the owner and puts no new ticket to use.
Sound ==
    /\ Owner' /\ SentStays /\ SentRight
    /\ \A t \in Tickets : Unused(t) => Unused(t)'

LEMMA Untouched == ASSUME Owner, UNCHANGED requestVars PROVE Sound
  <1> USE DEF requestVars, ownerVars, channelVars
  <1>1. Owner'
    BY DEF Owner, RequestsTypeOK, EngineInv, HolderInv, OneCardPerId, Waiting, Answering
  <1>2. SentStays /\ SentRight  BY Constants DEF SentStays, SentRight
  <1>3. \A t \in Tickets : Unused(t) => Unused(t)'  BY DEF Unused, Answering
  <1> QED BY <1>1, <1>2, <1>3 DEF Sound

LEMMA PushOwner ==
    ASSUME Owner, NEW t \in Tickets, Push(t), Showable(IdOf[t]), Unused(t),
           UNCHANGED <<now, channelVars, engine>>
    PROVE  /\ Owner' /\ SentStays /\ SentRight
           /\ \A u \in Tickets \ {t} : Unused(u) => Unused(u)'
  <1> USE DEF channelVars, Owner
  <1>1. RequestsTypeOK'
    <2>1. now + holdMs \in Nat /\ now \in Nat  BY Constants DEF RequestsTypeOK
    <2> QED BY <2>1 DEF RequestsTypeOK, Push
  <1>2. EngineInv' /\ HolderInv'
    BY DEF Push, EngineInv, HolderInv, Unused, Answering
  <1>3. OneCardPerId'
    BY DEF Push, OneCardPerId, Showable, Waiting
  <1>4. SentStays /\ SentRight  BY Constants DEF SentStays, SentRight
  <1>5. \A u \in Tickets \ {t} : Unused(u) => Unused(u)'  BY DEF Push, Unused, Answering
  <1> QED BY <1>1, <1>2, <1>3, <1>4, <1>5

LEMMA CancelOwner ==
    ASSUME Owner, NEW a \in Ids, Cancel(a), UNCHANGED <<now, engine>>
    PROVE  Sound
  <1> USE DEF Owner
  <1>1. RequestsTypeOK'
    BY Constants DEF RequestsTypeOK, Cancel, Drop, Waiting
  <1>2. EngineInv' /\ HolderInv'
    BY DEF RequestsTypeOK, Cancel, Drop, Waiting, EngineInv, HolderInv, Answering
  <1>3. OneCardPerId'
    BY DEF Cancel, Drop, OneCardPerId
  <1>4. SentStays
    <2>1. ASSUME NEW t \in Waiting(a) PROVE sent[t] = Empty
      BY <2>1 DEF Waiting, HolderInv, RequestsTypeOK
    <2> QED BY <2>1 DEF SentStays, Cancel
  <1>5. SentRight  BY Constants DEF SentRight, Cancel
  <1>6. \A t \in Tickets : Unused(t) => Unused(t)'
    BY DEF Cancel, Drop, Waiting, Unused, Answering
  <1> QED BY <1>1, <1>2, <1>3, <1>4, <1>5, <1>6 DEF Sound

LEMMA ForgetOwner ==
    ASSUME Owner, dismissed' \subseteq dismissed,
           UNCHANGED <<now, holdMs, pending, created, deadline, revised, channelVars, engine>>
    PROVE  Sound
  <1> USE DEF Owner, channelVars
  <1>1. Owner'
    BY DEF RequestsTypeOK, EngineInv, HolderInv, OneCardPerId, Answering
  <1>2. SentStays /\ SentRight  BY Constants DEF SentStays, SentRight
  <1>3. \A t \in Tickets : Unused(t) => Unused(t)'  BY DEF Unused, Answering
  <1> QED BY <1>1, <1>2, <1>3 DEF Sound

LEMMA EngineOwner == ASSUME Owner, EngineStep PROVE Sound
  <1> USE DEF Owner
  <1>1. CASE EngineExpire
    <2> USE <1>1 DEF EngineExpire, ExpireSection, Drop, Lapsed, channelVars
    <2>1. RequestsTypeOK'  BY DEF RequestsTypeOK, EngineSteps
    <2>2. EngineInv' /\ HolderInv'  BY DEF RequestsTypeOK, EngineInv, HolderInv, Answering
    <2>3. OneCardPerId'
      BY Constants DEF RequestsTypeOK, OneCardPerId
    <2>4. SentStays /\ SentRight  BY Constants DEF SentStays, SentRight
    <2>5. \A t \in Tickets : Unused(t) => Unused(t)'
      BY DEF RequestsTypeOK, Unused, Answering
    <2> QED BY <2>1, <2>2, <2>3, <2>4, <2>5 DEF Sound
  <1>2. ASSUME NEW t \in Tickets, EngineNotify(t) PROVE Sound
    <2> USE <1>2 DEF EngineNotify, ownerVars
    <2>1. RequestsTypeOK'  BY Constants DEF RequestsTypeOK, EngineSteps
    <2>2. EngineInv' /\ HolderInv'  BY DEF RequestsTypeOK, EngineInv, HolderInv, Answering
    <2>3. OneCardPerId'  BY DEF OneCardPerId
    <2>4. SentStays /\ SentRight
      BY Constants DEF RequestsTypeOK, HolderInv, SentStays, SentRight
    <2>5. \A u \in Tickets : Unused(u) => Unused(u)'
      BY DEF RequestsTypeOK, Unused, Answering
    <2> QED BY <2>1, <2>2, <2>3, <2>4, <2>5 DEF Sound
  <1>3. ASSUME NEW t \in Tickets, EngineTake(t) PROVE Sound
    <2> USE <1>3 DEF EngineTake, Drop, Waiting, channelVars
    <2>1. RequestsTypeOK'
      <3>1. engine.id = IdOf[t]  OBVIOUS
      <3>2. dismissed' \subseteq {IdOf[u] : u \in Native}
        BY <3>1, Constants DEF RequestsTypeOK
      <3>3. engine' \in [step : EngineSteps, id : Ids \cup {NoId},
                         decision : Decisions \cup {Nothing}, at : Nat,
                         unsent : SUBSET Tickets, ticket : Tickets \cup {NoTicket}]
        BY DEF RequestsTypeOK, EngineSteps
      <3> QED BY <3>2, <3>3 DEF RequestsTypeOK
    <2>2. EngineInv' /\ HolderInv'  BY DEF RequestsTypeOK, EngineInv, HolderInv, Answering
    <2>3. OneCardPerId'  BY DEF RequestsTypeOK, OneCardPerId
    <2>4. SentStays /\ SentRight  BY Constants DEF SentStays, SentRight
    <2>5. \A u \in Tickets : Unused(u) => Unused(u)'
      BY DEF RequestsTypeOK, Unused, Answering
    <2> QED BY <2>1, <2>2, <2>3, <2>4, <2>5 DEF Sound
  <1>4. CASE EngineDone
    <2> USE <1>4 DEF EngineDone, Idle, ownerVars, channelVars
    <2>1. Owner'
      BY DEF RequestsTypeOK, EngineSteps, EngineInv, HolderInv, OneCardPerId, Answering
    <2>2. SentStays /\ SentRight  BY Constants DEF SentStays, SentRight
    <2>3. \A u \in Tickets : Unused(u) => Unused(u)'  BY DEF Unused, Answering
    <2> QED BY <2>1, <2>2, <2>3 DEF Sound
  <1>5. CASE engine.step = "send" /\ EngineSend(Listening(engine.ticket))
    <2> USE <1>5 DEF EngineSend, Idle, ownerVars
    <2>0. PICK t \in Tickets : /\ engine.ticket = t
                               /\ engine.decision \in Takes[t] /\ engine.decision \in Decisions
      BY Constants DEF EngineInv
    <2>1. RequestsTypeOK'
      BY <2>0, Constants DEF RequestsTypeOK, EngineSteps, Response, Replies
    <2>2. EngineInv' /\ HolderInv'
      BY <2>0 DEF RequestsTypeOK, EngineInv, HolderInv, Answering
    <2>3. OneCardPerId'  BY DEF OneCardPerId
    <2>4. SentStays /\ SentRight
      BY <2>0, Constants DEF RequestsTypeOK, HolderInv, Answering, SentStays, SentRight, Response,
                             Replies
    <2>5. \A u \in Tickets : Unused(u) => Unused(u)'
      BY <2>0 DEF RequestsTypeOK, Unused, Answering
    <2> QED BY <2>1, <2>2, <2>3, <2>4, <2>5 DEF Sound
  <1> QED BY <1>1, <1>2, <1>3, <1>4, <1>5 DEF EngineStep

LEMMA UserOwner == ASSUME Owner, UserStep PROVE Sound
  <1> USE DEF Owner
  <1> DEFINE Calls == [step : EngineSteps, id : Ids \cup {NoId},
                       decision : Decisions \cup {Nothing}, at : Nat,
                       unsent : SUBSET Tickets, ticket : Tickets \cup {NoTicket}]
  <1>1. ASSUME engine.step = "idle", engine' \in Calls, engine'.step = "expire",
               engine'.unsent = {}, UNCHANGED <<now, ownerVars, channelVars>>
        PROVE  Sound
    <2> USE <1>1 DEF ownerVars, channelVars
    <2>1. Owner'
      BY DEF RequestsTypeOK, EngineInv, HolderInv, OneCardPerId, Answering
    <2>2. SentStays /\ SentRight  BY Constants DEF SentStays, SentRight
    <2>3. \A u \in Tickets : Unused(u) => Unused(u)'  BY DEF Unused, Answering
    <2> QED BY <2>1, <2>2, <2>3 DEF Sound
  <1>2. now \in Nat  BY Constants DEF RequestsTypeOK
  <1>3. ASSUME NEW id \in Ids, NEW d \in Decisions, BeginAnswer(id, d) PROVE Sound
    <2>1. engine' \in Calls /\ engine'.step = "expire" /\ engine'.unsent = {}
      BY <1>2, <1>3 DEF BeginAnswer, Idle, EngineSteps
    <2> QED BY <1>1, <1>3, <2>1 DEF BeginAnswer
  <1>4. CASE BeginExpire
    <2>1. engine' \in Calls /\ engine'.step = "expire" /\ engine'.unsent = {}
      BY <1>2, <1>4 DEF BeginExpire, Idle, EngineSteps
    <2> QED BY <1>1, <1>4, <2>1 DEF BeginExpire
  <1>5. CASE Tick
    <2> USE <1>5 DEF Tick, ownerVars, channelVars
    <2>1. now' \in 0..MaxTime  BY Constants DEF RequestsTypeOK
    <2>2. Owner'
      BY <2>1 DEF RequestsTypeOK, EngineInv, HolderInv, OneCardPerId, Answering
    <2>3. SentStays /\ SentRight  BY Constants DEF SentStays, SentRight
    <2>4. \A u \in Tickets : Unused(u) => Unused(u)'  BY DEF Unused, Answering
    <2> QED BY <2>2, <2>3, <2>4 DEF Sound
  <1> QED BY <1>3, <1>4, <1>5 DEF UserStep

-----------------------------------------------------------------------------
(* What is known of the tickets, whatever moves.                           *)

\* The threads went on as theirs do, and no decision was changed.
Moved ==
    /\ Owner' /\ SentStays /\ SentRight
    /\ \A t \in Tickets :
          /\ deliver'[t] = "none" => deliver[t] = "none" /\ (Unused(t) => Unused(t)')
          /\ Listening(t)' => Listening(t) \/ sent'[t] = Empty
          /\ deliver'[t] \in {"checking", "writing"} =>
                \/ deliver[t] \in {"checking", "writing"}
                \/ Listening(t) /\ sent[t] \in Replies

LEMMA TicketsKept == ASSUME Inv, Moved PROVE FreshInv' /\ TellInv'
  <1>1. FreshInv'  BY DEF Inv, Moved, FreshInv
  <1>2. ASSUME NEW t \in Tickets, sent'[t] \in Replies
        PROVE  sent'[t] \in Takes[t] /\ (Listening(t) => told'[t] = "ok")
    <2>1. CASE sent[t] = Empty
      BY <1>2, <2>1 DEF Moved, SentRight
    <2>2. CASE sent[t] # Empty
      <3>1. sent'[t] = sent[t] /\ told'[t] = told[t]  BY <2>2 DEF Moved, SentStays
      <3> QED BY <1>2, <3>1 DEF Inv, TellInv
    <2> QED BY <2>1, <2>2
  <1>3. ASSUME NEW t \in Tickets, deliver'[t] \in {"checking", "writing"}
        PROVE  sent'[t] \in Replies /\ told'[t] = "ok"
    <2>1. sent[t] \in Replies /\ told[t] = "ok"
      BY <1>3 DEF Inv, TellInv, Moved
    <2>2. sent[t] # Empty  BY <2>1, Constants
    <2> QED BY <2>1, <2>2 DEF Moved, SentStays
  <1>4. ASSUME NEW t \in Tickets, Listening(t)', sent'[t] \in Replies
        PROVE  told'[t] = "ok"
    <2>1. sent'[t] # Empty  BY <1>4, Constants
    <2>2. Listening(t)  BY <1>4, <2>1 DEF Moved
    <2> QED BY <1>2, <1>4, <2>2
  <1> QED BY <1>1, <1>2, <1>3, <1>4 DEF TellInv

LEMMA GivenStays ==
    ASSUME SentStays, NEW a \in Ids, NEW answer, Given(a, answer) PROVE Given(a, answer)'
  <1>1. PICK t \in Tickets : /\ IdOf[t] = a /\ answer \in Takes[t]
                             /\ sent[t] = answer /\ told[t] = "ok"
    BY DEF Given
  <1>2. sent[t] # Empty  BY <1>1, Constants
  <1> QED BY <1>1, <1>2 DEF SentStays, Given

\* Steps by which Harness neither gets nor takes an answer.
LEMMA MovedKeeps ==
    ASSUME Inv, Moved, ObserverTypeOK', DeliveryTypeOK', UNCHANGED <<outcome, up, file, answered>>
    PROVE  Inv'
  <1>1. SentStays  BY DEF Moved
  <1>2. AnswerInv'  BY <1>1, GivenStays DEF Inv, AnswerInv
  <1>3. HarnessTakesTheUsers'
    <2> SUFFICES ASSUME NEW a \in Ids, outcome[a] \in Replies PROVE Given(a, outcome[a])'
      BY DEF HarnessTakesTheUsers, Given
    <2>1. Given(a, outcome[a])  BY DEF Inv, HarnessTakesTheUsers, Given
    <2> QED BY <1>1, <2>1, GivenStays
  <1>4. HarnessTypeOK' /\ RequestsTypeOK'  BY DEF Inv, TypeOK, HarnessTypeOK, Moved, Owner
  <1> QED BY <1>2, <1>3, <1>4, TicketsKept DEF Inv, TypeOK, Moved

\* What neither the owner nor a thread takes part in.
LEMMA StillMoved == ASSUME Inv, UNCHANGED <<requestVars, deliver>> PROVE Moved
  <1>1. Sound  BY Untouched DEF Inv
  <1>2. \A t \in Tickets : Listening(t)' = Listening(t)  BY DEF Listening
  <1> QED BY <1>1, <1>2 DEF Moved, Sound

LEMMA SoundMoved == ASSUME Inv, Sound, UNCHANGED deliver PROVE Moved
  <1>2. \A t \in Tickets : Listening(t)' = Listening(t)  BY DEF Listening
  <1> QED BY <1>2 DEF Moved, Sound

LEMMA ObserversStill == ASSUME ObserverTypeOK, UNCHANGED observerVars PROVE ObserverTypeOK'
  BY DEF ObserverTypeOK, observerVars

LEMMA EngineKeeps == ASSUME Inv, EngineStep \/ UserStep PROVE Inv'
  <1>1. Sound  BY EngineOwner, UserOwner DEF Inv
  <1>2. UNCHANGED asksVars  BY DEF EngineStep, UserStep
  <1>3. DeliveryTypeOK'  BY <1>2 DEF asksVars, Inv, TypeOK, DeliveryTypeOK
  <1>4. ObserverTypeOK'  BY <1>2, ObserversStill DEF asksVars, Inv, TypeOK
  <1> QED BY <1>4, <1>1, <1>2, <1>3, SoundMoved, MovedKeeps DEF asksVars, harnessVars

-----------------------------------------------------------------------------
(* Harness and the folder.                                                 *)

\* Answers leave the folder, and Harness settles an ask with what is there.
LEMMA HarnessKeeps ==
    ASSUME Inv, UNCHANGED <<requestVars, deliver>>,
           HarnessTypeOK', ObserverTypeOK', DeliveryTypeOK',
           \A a \in Ids : answered'[a] \in {answered[a], Nothing},
           \A a \in Ids : outcome'[a] \in Replies => outcome'[a] \in {outcome[a], answered[a]}
    PROVE  Inv'
  <1>1. Moved  BY StillMoved
  <1>2. SentStays  BY <1>1 DEF Moved
  <1>3. AnswerInv'
    <2> SUFFICES ASSUME NEW a \in Ids, NEW answer, answered'[a] = answer, answer # Nothing
                 PROVE  Given(a, answer)'
      BY DEF AnswerInv, Given
    <2>1. answered[a] = answer  OBVIOUS
    <2>2. Given(a, answer)  BY <2>1 DEF Inv, AnswerInv
    <2> QED BY <1>2, <2>2, GivenStays
  <1>4. HarnessTakesTheUsers'
    <2> SUFFICES ASSUME NEW a \in Ids, NEW answer \in Replies, outcome'[a] = answer
                 PROVE  Given(a, answer)'
      BY DEF HarnessTakesTheUsers, Given
    <2>1. answer # Nothing  BY Constants
    <2>2. Given(a, answer)
      BY <2>1 DEF Inv, AnswerInv, HarnessTakesTheUsers, Given
    <2> QED BY <1>2, <2>2, GivenStays
  <1>5. RequestsTypeOK'  BY <1>1 DEF Moved, Owner
  <1> QED BY <1>1, <1>3, <1>4, <1>5, TicketsKept DEF Inv, TypeOK, Moved

LEMMA HarnessStepKeeps == ASSUME Inv, NEW a \in Ids, HarnessStep(a) PROVE Inv'
  <1> USE DEF harnessVars, Asking
  <1>0. HarnessTypeOK /\ Fates \cap Replies = {} /\ Nothing \in Fates
    BY DEF Inv, TypeOK, AsksAssumption, Replies, Fates, Nothing
  <1>9. ASSUME UNCHANGED <<observerVars, deliver, receipt, flagged, web>>
        PROVE  ObserverTypeOK' /\ DeliveryTypeOK'
    BY <1>9, ObserversStill DEF Inv, TypeOK, DeliveryTypeOK
  <1>1. ASSUME NEW how, Settled(a, how), how \in {"client", "failed"} \/ how = answered[a]
        PROVE  Inv'
    <2>0. how \in Fates \cup Replies
      <3>1. how = answered[a] => how \in Replies \cup {Nothing}
        BY <1>0, <1>1 DEF HarnessTypeOK
      <3>2. "client" \in Fates /\ "failed" \in Fates  BY DEF Fates
      <3> QED BY <1>0, <1>1, <3>1, <3>2
    <2>1. HarnessTypeOK'  BY <1>0, <1>1, <2>0 DEF Settled, HarnessTypeOK
    <2>2. \A b \in Ids : answered'[b] \in {answered[b], Nothing}
      BY <1>0, <1>1 DEF Settled, HarnessTypeOK
    <2>3. \A b \in Ids : outcome'[b] \in Replies => outcome'[b] \in {outcome[b], answered[b]}
      BY <1>0, <1>1 DEF Settled, HarnessTypeOK, Fates
    <2> QED BY <1>1, <1>9, <2>1, <2>2, <2>3, HarnessKeeps DEF Settled
  <1>2. ASSUME NEW how \in Fates, outcome' = [outcome EXCEPT ![a] = how],
               file' \subseteq Ids, up' \in [Ids -> BOOLEAN],
               UNCHANGED <<requestVars, answered, observerVars, deliver, receipt, flagged, web>>
        PROVE  Inv'
    <2>1. HarnessTypeOK'  BY <1>0, <1>2 DEF HarnessTypeOK
    <2>2. \A b \in Ids : outcome'[b] \in Replies => outcome'[b] = outcome[b]
      BY <1>0, <1>2 DEF HarnessTypeOK
    <2> QED BY <1>2, <1>9, <2>1, <2>2, HarnessKeeps
  <1>3. CASE Ask(a)
    <2>1. PICK card \in {"open", "unseen"} : outcome' = [outcome EXCEPT ![a] = card]
      BY <1>3 DEF Ask
    <2> QED BY <1>0, <1>2, <1>3, <2>1 DEF Ask, Fates, HarnessTypeOK
  <1>4. CASE ClientSettles(a)  BY <1>1, <1>4 DEF ClientSettles
  <1>5. CASE NoProvider(a)
    <2>1. CASE app
      BY <1>0, <1>2, <1>5, <2>1 DEF NoProvider, Fates, HarnessTypeOK
    <2>2. CASE ~app  BY <1>1, <1>5, <2>2 DEF NoProvider
    <2> QED BY <2>1, <2>2
  <1>6. CASE TurnAborts(a)  BY <1>1, <1>6 DEF TurnAborts
  <1>7. CASE PollAnswer(a)  BY <1>1, <1>7 DEF PollAnswer
  <1>8. CASE HostDies(a)
    BY <1>0, <1>2, <1>8 DEF HostDies, Fates, HarnessTypeOK
  <1> QED BY <1>3, <1>4, <1>5, <1>6, <1>7, <1>8 DEF HarnessStep

-----------------------------------------------------------------------------
(* The observers: their steps alone, and those with the owner.             *)

\* Nobody answers and no card moves.
LEMMA QuietKeeps ==
    ASSUME Inv, UNCHANGED <<requestVars, deliver, outcome, up, answered>>, file' \subseteq Ids,
           ObserverTypeOK', DeliveryTypeOK'
    PROVE  Inv'
  <1>1. HarnessTypeOK'  BY DEF Inv, TypeOK, HarnessTypeOK
  <1> QED BY <1>1, HarnessKeeps

LEMMA PassChanged ==
    ASSUME NEW w \in Passes, NEW s \in WorkerSteps, NEW x \in SUBSET Ids
    PROVE  /\ [w EXCEPT !.step = s] \in Passes
           /\ [w EXCEPT !.todo = x] \in Passes
           /\ [w EXCEPT !.step = s, !.sessions = x] \in Passes
           /\ [AtRest EXCEPT !.step = s] \in Passes
           /\ \A y, z \in SUBSET Ids :
                 [w EXCEPT !.step = s, !.present = x, !.todo = y, !.loaded = z] \in Passes
  BY DEF Passes, AtRest

LEMMA QuietWorkerKeeps ==
    ASSUME Inv, NEW o \in Observers,
           \/ Start(o) \/ CheckActive(o) \/ List(o) \/ ReadSessions(o) \/ SetWaiting(o)
           \/ Stop(o) \/ TakeKnown(o) \/ ClearWaiting(o) \/ RemoveApp(o)
           \/ \E a \in Ids : PassOver(o, a)
           \/ \E swept \in SUBSET file : Beat(o, swept)
    PROVE  Inv'
  <1>0. ObserverTypeOK /\ DeliveryTypeOK /\ HarnessTypeOK  BY DEF Inv, TypeOK
  <1>1. worker[o] \in Passes /\ file \subseteq Ids
    BY <1>0 DEF ObserverTypeOK, HarnessTypeOK
  <1> USE DEF harnessVars
  <1>2. CASE Start(o) \/ CheckActive(o)
    <2>1. PICK s \in WorkerSteps : worker' = [worker EXCEPT ![o] = [worker[o] EXCEPT !.step = s]]
      BY <1>2 DEF Start, CheckActive, WorkerSteps
    <2>2. worker' \in [Observers -> Passes]
      BY <1>0, <1>1, <2>1, PassChanged DEF ObserverTypeOK
    <2>3. ObserverTypeOK'
      BY <1>0, <1>2, <2>2 DEF Start, CheckActive, ObserverTypeOK
    <2>4. DeliveryTypeOK'  BY <1>0, <1>2 DEF Start, CheckActive, DeliveryTypeOK
    <2> QED BY <1>1, <1>2, <2>3, <2>4, QuietKeeps DEF Start, CheckActive
  <1>3. CASE List(o)
    <2>1. worker' \in [Observers -> Passes]
      <3> DEFINE w == [worker[o] EXCEPT !.step = "scanning", !.present = file,
                          !.todo = {a \in file : known[o][a] = "no"},
                          !.loaded = {a \in Ids : up[a]}]
      <3>1. w \in Passes  BY <1>1, PassChanged DEF WorkerSteps
      <3>2. worker' = [worker EXCEPT ![o] = w]  BY <1>3 DEF List
      <3> HIDE DEF w
      <3> QED BY <1>0, <3>1, <3>2 DEF ObserverTypeOK
    <2>2. ObserverTypeOK'  BY <1>0, <1>3, <2>1 DEF List, ObserverTypeOK
    <2>3. DeliveryTypeOK'  BY <1>0, <1>3 DEF List, DeliveryTypeOK
    <2> QED BY <1>1, <1>3, <2>2, <2>3, QuietKeeps DEF List
  <1>4. CASE ReadSessions(o)
    <2>1. worker' \in [Observers -> Passes]
      <3> DEFINE w == [worker[o] EXCEPT !.step = "publishing",
                          !.sessions = {a \in Ids : known[o][a] = "shown"}]
      <3>1. w \in Passes  BY <1>1, PassChanged DEF WorkerSteps
      <3>2. worker' = [worker EXCEPT ![o] = w]  BY <1>4 DEF ReadSessions
      <3> HIDE DEF w
      <3> QED BY <1>0, <3>1, <3>2 DEF ObserverTypeOK
    <2>2. ObserverTypeOK'  BY <1>0, <1>4, <2>1 DEF ReadSessions, ObserverTypeOK
    <2>3. DeliveryTypeOK'  BY <1>0, <1>4 DEF ReadSessions, DeliveryTypeOK
    <2> QED BY <1>1, <1>4, <2>2, <2>3, QuietKeeps DEF ReadSessions
  <1>5. CASE SetWaiting(o)
    <2>1. worker' \in [Observers -> Passes]
      <3>1. [AtRest EXCEPT !.step = "checking"] \in Passes
        BY <1>1, PassChanged DEF WorkerSteps
      <3> QED BY <1>0, <1>5, <3>1 DEF SetWaiting, ObserverTypeOK
    <2>2. ObserverTypeOK'  BY <1>0, <1>5, <2>1 DEF SetWaiting, ObserverTypeOK
    <2>3. worker[o].sessions \subseteq Ids  BY <1>1 DEF Passes
    <2>4. DeliveryTypeOK'  BY <1>0, <1>5, <2>3 DEF SetWaiting, DeliveryTypeOK
    <2> QED BY <1>1, <1>5, <2>2, <2>4, QuietKeeps DEF SetWaiting
  <1>6. CASE Stop(o) \/ TakeKnown(o) \/ ClearWaiting(o) \/ RemoveApp(o)
    <2>1. ObserverTypeOK'
      <3>1. CASE TakeKnown(o)
        <4>1. [a \in Ids |-> "no"] \in [Ids -> {"no", "shown", "hidden"}]  OBVIOUS
        <4>2. {a \in Ids : known[o][a] = "shown"} \in SUBSET Ids  OBVIOUS
        <4>3. known' \in [Observers -> [Ids -> {"no", "shown", "hidden"}]]
          BY <1>0, <3>1, <4>1 DEF TakeKnown, ObserverTypeOK
        <4>4. dropped' \in [Observers -> SUBSET Ids]
          BY <1>0, <3>1, <4>2 DEF TakeKnown, ObserverTypeOK
        <4> QED BY <1>0, <3>1, <4>3, <4>4 DEF TakeKnown, ObserverTypeOK
      <3>2. CASE Stop(o) \/ ClearWaiting(o) \/ RemoveApp(o)
        BY <1>0, <3>2 DEF Stop, ClearWaiting, RemoveApp, ObserverTypeOK
      <3> QED BY <1>6, <3>1, <3>2
    <2>2. DeliveryTypeOK'
      BY <1>0, <1>6 DEF Stop, TakeKnown, ClearWaiting, RemoveApp, DeliveryTypeOK
    <2> QED BY <1>1, <1>6, <2>1, <2>2, QuietKeeps DEF Stop, TakeKnown, ClearWaiting, RemoveApp
  <1>7. ASSUME NEW a \in Ids, PassOver(o, a) PROVE Inv'
    <2>1. worker' \in [Observers -> Passes]
      <3>1. [worker[o] EXCEPT !.todo = @ \ {a}] \in Passes
        BY <1>1 DEF Passes
      <3>2. worker' = [worker EXCEPT ![o] = [worker[o] EXCEPT !.todo = @ \ {a}]]
        BY <1>7 DEF PassOver, LookedAt
      <3> QED BY <1>0, <3>1, <3>2 DEF ObserverTypeOK
    <2>2. ObserverTypeOK'  BY <1>0, <1>7, <2>1 DEF PassOver, ObserverTypeOK
    <2>3. DeliveryTypeOK'  BY <1>0, <1>7 DEF PassOver, DeliveryTypeOK
    <2> QED BY <1>1, <1>7, <2>2, <2>3, QuietKeeps DEF PassOver
  <1>8. ASSUME NEW swept \in SUBSET file, Beat(o, swept) PROVE Inv'
    <2>1. worker' \in [Observers -> Passes]
      <3>1. [worker[o] EXCEPT !.step = "listing"] \in Passes
        BY <1>1, PassChanged DEF WorkerSteps
      <3> QED BY <1>0, <1>8, <3>1 DEF Beat, ObserverTypeOK
    <2>2. ObserverTypeOK'  BY <1>0, <1>8, <2>1 DEF Beat, ObserverTypeOK
    <2>3. DeliveryTypeOK'  BY <1>0, <1>8 DEF Beat, DeliveryTypeOK
    <2>4. HarnessTypeOK'  BY <1>0, <1>8 DEF Beat, HarnessTypeOK
    <2>5. \A a \in Ids : answered'[a] \in {answered[a], Nothing}  BY <1>8 DEF Beat
    <2>6. UNCHANGED <<requestVars, deliver, outcome>>  BY <1>8 DEF Beat
    <2> QED BY <2>2, <2>3, <2>4, <2>5, <2>6, HarnessKeeps
  <1> QED BY <1>2, <1>3, <1>4, <1>5, <1>6, <1>7, <1>8

\* A card is put up, and its ticket has a thread.
LEMMA ShowKeeps == ASSUME Inv, NEW o \in Observers, NEW a \in Ids, ShowAsk(o, a) PROVE Inv'
  <1>0. ObserverTypeOK /\ DeliveryTypeOK /\ Owner  BY DEF Inv, TypeOK
  <1>1. worker' \in [Observers -> Passes]
    <2>0. worker[o] \in Passes  BY <1>0 DEF ObserverTypeOK
    <2>1. [worker[o] EXCEPT !.todo = @ \ {a}] \in Passes
      BY <2>0 DEF Passes
    <2>2. worker' = [worker EXCEPT ![o] = [worker[o] EXCEPT !.todo = @ \ {a}]]
      BY DEF ShowAsk, LookedAt
    <2> QED BY <1>0, <2>1, <2>2 DEF ObserverTypeOK
  <1>2. UNCHANGED <<now, channelVars, engine, outcome, up, file, answered, app, observer,
                    dropped, forget, receipt, flagged, web>>
    BY DEF ShowAsk, harnessVars
  <1>3. CASE Showable(a)
    <2>1. PICK t \in Tickets : /\ IdOf[t] = a /\ deliver[t] = "none" /\ Push(t)
                               /\ deliver' = [deliver EXCEPT ![t] = "started"]
                               /\ known' = [known EXCEPT ![o][a] = "shown"]
      <3> DEFINE u == CHOOSE u \in Fresh(o, a) : TRUE
      <3>1. u \in Fresh(o, a)  BY <1>3 DEF ShowAsk
      <3>2. Push(u) /\ deliver' = [deliver EXCEPT ![u] = "started"]
        BY <1>3 DEF ShowAsk
      <3>3. known' = [known EXCEPT ![o][a] = "shown"]  BY <1>3 DEF ShowAsk
      <3> HIDE DEF u
      <3> QED BY <3>1, <3>2, <3>3 DEF Fresh
    <2>2. ObserverTypeOK'  BY <1>0, <1>1, <1>2, <2>1 DEF ObserverTypeOK
    <2>3. DeliveryTypeOK'  BY <1>0, <1>2, <2>1 DEF DeliveryTypeOK
    <2>4. Unused(t)  BY <2>1 DEF Inv, FreshInv
    <2>5. /\ Owner' /\ SentStays /\ SentRight
          /\ \A u \in Tickets \ {t} : Unused(u) => Unused(u)'
      BY <1>0, <1>2, <1>3, <2>1, <2>4, PushOwner
    <2>6. \A u \in Tickets : deliver'[u] = IF u = t THEN "started" ELSE deliver[u]
      BY <1>0, <2>1 DEF DeliveryTypeOK
    <2>7. sent'[t] = Empty  BY <1>2, <2>4 DEF Unused, channelVars
    <2>8. Moved  BY <2>5, <2>6, <2>7 DEF Moved, Listening
    <2> QED BY <1>2, <2>2, <2>3, <2>8, MovedKeeps
  <1>4. CASE ~Showable(a)
    <2>1. known' = [known EXCEPT ![o][a] = "hidden"] /\ UNCHANGED <<ownerVars, deliver>>
      BY <1>4 DEF ShowAsk
    <2>2. ObserverTypeOK'  BY <1>0, <1>1, <1>2, <2>1 DEF ObserverTypeOK
    <2>3. DeliveryTypeOK'  BY <1>0, <1>2, <2>1 DEF DeliveryTypeOK
    <2>4. UNCHANGED requestVars  BY <1>2, <2>1 DEF requestVars
    <2> QED BY <1>2, <2>1, <2>2, <2>3, <2>4, StillMoved, MovedKeeps
  <1> QED BY <1>3, <1>4

\* An ask is settled, by the worker or the drop.
LEMMA SettleKeeps ==
    ASSUME Inv, NEW o \in Observers, NEW a \in Ids, SettleGone(o, a) \/ SettleDropped(o, a)
    PROVE  Inv'
  <1>0. ObserverTypeOK /\ DeliveryTypeOK /\ Owner  BY DEF Inv, TypeOK
  <1>1. UNCHANGED <<now, engine, outcome, up, file, answered, app, observer, worker,
                    deliver, receipt, flagged, web>>
    BY DEF SettleGone, SettleDropped, harnessVars
  <1>2. DeliveryTypeOK'  BY <1>0, <1>1 DEF DeliveryTypeOK
  <1>3. ObserverTypeOK'
    <2>1. <<"worker", o>> \in Settlers /\ <<"drop", o>> \in Settlers  BY DEF Settlers
    <2>2. forget' \in [Settlers -> Ids \cup {NoId}]
      BY <1>0, <2>1 DEF ObserverTypeOK, SettleGone, SettleDropped, SettleNative
    <2>3. known' \in [Observers -> [Ids -> {"no", "shown", "hidden"}]]
      BY <1>0 DEF ObserverTypeOK, SettleGone, SettleDropped
    <2>4. dropped' \in [Observers -> SUBSET Ids]
      BY <1>0 DEF ObserverTypeOK, SettleGone, SettleDropped
    <2> QED BY <1>0, <1>1, <2>2, <2>3, <2>4 DEF ObserverTypeOK
  <1>4. Cancel(a) \/ UNCHANGED <<ownerVars, channelVars>>
    BY DEF SettleGone, SettleDropped, SettleNative
  <1>5. Sound
    BY <1>0, <1>1, <1>4, CancelOwner, Untouched DEF requestVars
  <1> QED BY <1>1, <1>2, <1>3, <1>5, SoundMoved, MovedKeeps

LEMMA ForgetKeeps == ASSUME Inv, NEW who \in Settlers, Forget(who) PROVE Inv'
  <1>0. ObserverTypeOK /\ DeliveryTypeOK /\ Owner  BY DEF Inv, TypeOK
  <1>1. DeliveryTypeOK'  BY <1>0 DEF DeliveryTypeOK, Forget
  <1>2. ObserverTypeOK'  BY <1>0 DEF ObserverTypeOK, Forget
  <1>3. Sound  BY <1>0, ForgetOwner DEF Forget
  <1>4. UNCHANGED <<outcome, up, file, answered, deliver>>  BY DEF Forget, harnessVars
  <1> QED BY <1>1, <1>2, <1>3, <1>4, SoundMoved, MovedKeeps

LEMMA StartThreadsKeeps == ASSUME Inv, NEW o \in Observers, StartThreads(o) PROVE Inv'
  <1>0. ObserverTypeOK /\ DeliveryTypeOK  BY DEF Inv, TypeOK
  <1>1. worker' \in [Observers -> Passes]
    <2>1. [AtRest EXCEPT !.step = "starting"] \in Passes
      BY <1>0, PassChanged DEF WorkerSteps, ObserverTypeOK
    <2> QED BY <1>0, <2>1 DEF StartThreads, ObserverTypeOK
  <1>2. ObserverTypeOK'  BY <1>0, <1>1 DEF StartThreads, ObserverTypeOK
  <1>3. DeliveryTypeOK'  BY <1>0 DEF StartThreads, DeliveryTypeOK
  <1>4. Sound  BY Untouched DEF StartThreads, Inv
  <1>5. Moved  BY <1>4 DEF Sound, Moved, StartThreads, Listening
  <1>6. UNCHANGED <<outcome, up, file, answered>>  BY DEF StartThreads, harnessVars
  <1> QED BY <1>2, <1>3, <1>5, <1>6, MovedKeeps

-----------------------------------------------------------------------------
(* The thread of a ticket.                                                 *)

LEMMA ThreadKeeps ==
    ASSUME Inv, NEW t \in Tickets,
           \/ StopDelivering(t) \/ ReceiveDecision(t) \/ CheckStillActive(t) \/ FailToLeave(t)
    PROVE  Inv'
  <1> USE DEF StopDelivering, ReceiveDecision, CheckStillActive, FailToLeave, DeliverOnly, To
  <1>0. ObserverTypeOK /\ DeliveryTypeOK /\ RequestsTypeOK /\ IdOf[t] \in Ids
    BY Constants DEF Inv, TypeOK
  <1>1. ObserverTypeOK'  BY <1>0, ObserversStill
  <1>2. DeliveryTypeOK'  BY <1>0 DEF DeliveryTypeOK
  <1>3. Sound  BY Untouched DEF Inv
  <1>4. \A u \in Tickets \ {t} : deliver'[u] = deliver[u]
    BY <1>0 DEF DeliveryTypeOK
  <1>5. deliver'[t] \in {"done", "checking", "writing", "failing"} /\ deliver[t] # "none"
    BY <1>0 DEF DeliveryTypeOK
  <1>6. deliver'[t] \in {"checking", "writing"} =>
            deliver[t] = "checking" \/ (deliver[t] = "waiting" /\ sent[t] \in Replies)
    BY <1>0 DEF DeliveryTypeOK, RequestsTypeOK
  <1>7. Moved  BY <1>3, <1>4, <1>5, <1>6 DEF Moved, Sound, Listening
  <1> QED BY <1>1, <1>2, <1>7, MovedKeeps

LEMMA SettleFailedKeeps == ASSUME Inv, NEW t \in Tickets, SettleFailed(t) PROVE Inv'
  <1>0. ObserverTypeOK /\ DeliveryTypeOK /\ Owner /\ IdOf[t] \in Ids
    BY Constants DEF Inv, TypeOK
  <1>1. ObserverTypeOK'
    BY <1>0 DEF SettleFailed, SettleNative, Settlers, ObserverTypeOK
  <1>2. DeliveryTypeOK'  BY <1>0 DEF SettleFailed, To, DeliveryTypeOK
  <1>3. Sound  BY <1>0, CancelOwner DEF SettleFailed, SettleNative
  <1>4. \A u \in Tickets : deliver'[u] = IF u = t THEN "done" ELSE deliver[u]
    BY <1>0 DEF SettleFailed, To, DeliveryTypeOK
  <1>5. deliver[t] = "failing"  BY DEF SettleFailed
  <1>6. Moved  BY <1>3, <1>4, <1>5 DEF Moved, Sound, Listening
  <1> QED BY <1>1, <1>2, <1>6, MovedKeeps DEF SettleFailed, harnessVars

\* The thread leaves for Harness what the user sent.
LEMMA LeaveKeeps == ASSUME Inv, NEW t \in Tickets, LeaveAnswer(t) PROVE Inv'
  <1> USE DEF LeaveAnswer, DeliverOnly, To
  <1>0. /\ ObserverTypeOK /\ DeliveryTypeOK /\ HarnessTypeOK /\ IdOf[t] \in Ids
        /\ sent[t] \in Replies /\ sent[t] \in Takes[t] /\ told[t] = "ok"
    BY Constants DEF Inv, TypeOK, TellInv
  <1>1. ObserverTypeOK'  BY <1>0, ObserversStill
  <1>2. DeliveryTypeOK'  BY <1>0 DEF DeliveryTypeOK
  <1>3. HarnessTypeOK'  BY <1>0 DEF HarnessTypeOK
  <1>4. Sound  BY Untouched DEF Inv
  <1>5. \A u \in Tickets : deliver'[u] = IF u = t THEN "done" ELSE deliver[u]
    BY <1>0 DEF DeliveryTypeOK
  <1>6. Moved  BY <1>4, <1>5 DEF Moved, Sound, Listening
  <1>7. \A a \in Ids : \A answer : Given(a, answer)' <=> Given(a, answer)
    BY DEF Given, requestVars, channelVars
  <1>8. AnswerInv'
    <2> SUFFICES ASSUME NEW a \in Ids, answered'[a] # Nothing
                 PROVE  Given(a, answered[a])'
      BY DEF AnswerInv
    <2>1. CASE a = IdOf[t]
      BY <1>0, <2>1 DEF Given, HarnessTypeOK, requestVars, channelVars
    <2>2. CASE a # IdOf[t]
      BY <1>0, <2>2 DEF Inv, AnswerInv, Given, HarnessTypeOK, requestVars, channelVars
    <2> QED BY <2>1, <2>2
  <1>9. HarnessTakesTheUsers'
    BY DEF Inv, HarnessTakesTheUsers, requestVars, channelVars
  <1> QED BY <1>1, <1>2, <1>3, <1>6, <1>8, <1>9, TicketsKept DEF Inv, TypeOK, Moved, Owner

-----------------------------------------------------------------------------
LEMMA InitInv == Init => Inv
  <1> SUFFICES ASSUME Init PROVE Inv
    OBVIOUS
  <1> USE Constants DEF Init, RequestsInit
  <1>1. RequestsTypeOK  BY DEF RequestsTypeOK, Idle, EngineSteps
  <1>2. HarnessTypeOK  BY DEF HarnessTypeOK, Fates
  <1>3. ObserverTypeOK  BY DEF ObserverTypeOK, AtRest, Passes, WorkerSteps
  <1>4. DeliveryTypeOK  BY DEF DeliveryTypeOK
  <1>5. EngineInv /\ HolderInv /\ OneCardPerId
    BY DEF EngineInv, HolderInv, OneCardPerId, Answering, Idle
  <1>6. FreshInv /\ TellInv  BY DEF FreshInv, Unused, Answering, TellInv, Listening, Idle
  <1>7. AnswerInv /\ HarnessTakesTheUsers
    BY DEF AnswerInv, HarnessTakesTheUsers, AsksAssumption, Fates, Replies
  <1> QED BY <1>1, <1>2, <1>3, <1>4, <1>5, <1>6, <1>7 DEF Inv, TypeOK, Owner

LEMMA NextInv == Inv /\ [Next]_vars => Inv'
  <1> SUFFICES ASSUME Inv, [Next]_vars PROVE Inv'
    OBVIOUS
  <1>1. CASE UNCHANGED vars
    <2>1. DeliveryTypeOK' /\ ObserverTypeOK'
      BY <1>1, ObserversStill DEF vars, Inv, TypeOK, DeliveryTypeOK
    <2> QED BY <1>1, <2>1, StillMoved, MovedKeeps DEF vars, harnessVars
  <1>2. ASSUME NEW o \in Observers, Start(o) \/ WorkerStep(o) \/ Stop(o) \/ DropStep(o)
        PROVE  Inv'
    <2>1. <<"worker", o>> \in Settlers /\ <<"drop", o>> \in Settlers  BY DEF Settlers
    <2> QED BY <1>2, <2>1, QuietWorkerKeeps, ShowKeeps, SettleKeeps, ForgetKeeps,
               StartThreadsKeeps DEF WorkerStep, DropStep
  <1>3. ASSUME NEW t \in Tickets, DeliverStep(t) PROVE Inv'
    <2>1. <<"deliver", t>> \in Settlers  BY DEF Settlers
    <2> QED BY <1>3, <2>1, ThreadKeeps, SettleFailedKeeps, LeaveKeeps, ForgetKeeps
            DEF DeliverStep
  <1>4. CASE WebPublishes \/ \E w \in Webs : WebChanges(w)
    <2>1. ObserverTypeOK' /\ DeliveryTypeOK'
      BY <1>4, ObserversStill DEF WebPublishes, WebChanges, Inv, TypeOK, DeliveryTypeOK
    <2> QED BY <1>4, <2>1, StillMoved, MovedKeeps DEF WebPublishes, WebChanges, harnessVars
  <1> QED BY <1>1, <1>2, <1>3, <1>4, HarnessStepKeeps, EngineKeeps DEF Next

\* The invariant holds throughout every behaviour of asks and observers.
THEOREM Invariant == Spec => []Inv
  BY InitInv, NextInv, PTL DEF Spec

\* Every variable keeps its type, for any number of asks, tickets, observers
\* and sessions of the other one (asks.rs, requests.rs, agent-hud.mjs).
THEOREM TypeCorrect == Spec => []TypeOK
  <1>1. Inv => TypeOK  BY DEF Inv
  <1> QED BY <1>1, Invariant, PTL

\* Harness acts on an answer of the HUD only if the user gave it on a card of
\* that ask and was told that it arrived (asks.rs, `deliver`; agent-hud.mjs).
THEOREM UsersAnswer == Spec => []HarnessTakesTheUsers
  <1>1. Inv => HarnessTakesTheUsers  BY DEF Inv
  <1> QED BY <1>1, Invariant, PTL

\* No ask has two cards, nor one while its dismissal is remembered, wherever
\* observers are dropped and started (requests.rs, `register_native`).
THEOREM OneCard == Spec => []OneCardPerId
  <1>1. Inv => OneCardPerId  BY DEF Inv, Owner
  <1> QED BY <1>1, Invariant, PTL

-----------------------------------------------------------------------------
(* While no observer is dropped.                                           *)

Running == \A o \in Observers : observer[o] \in {"off", "on"} /\ dropped[o] = {}

\* What a pass has still to look at is not known yet.
Unseen == \A o \in Observers :
    Locked(o) => \A a \in worker[o].todo : known[o][a] = "no"

Watch == Running /\ Unseen /\ CardsAreWatched

\* Cards that leave are known, so that their dismissal is watched.
LEMMA SeenStays ==
    ASSUME CardsAreWatched, pending' \subseteq pending, pending \subseteq Tickets,
           dismissed' \subseteq dismissed \cup {IdOf[t] : t \in pending},
           UNCHANGED <<known, forget>>
    PROVE  CardsAreWatched'
  <1>1. \A t \in pending' : known'[By[t]][IdOf[t]] = "shown"  BY DEF CardsAreWatched
  <1>2. ASSUME NEW b \in dismissed'
        PROVE  \/ \E o \in Observers : known'[o][b] = "shown"
               \/ \E who \in Settlers : forget'[who] = b
    <2>1. CASE b \in dismissed  BY <2>1 DEF CardsAreWatched
    <2>2. ASSUME NEW t \in pending, b = IdOf[t]
          PROVE  By[t] \in Observers /\ known'[By[t]][b] = "shown"
      BY <2>2, Constants DEF CardsAreWatched
    <2> QED BY <1>2, <2>1, <2>2
  <1> QED BY <1>1, <1>2 DEF CardsAreWatched

LEMMA OwnerLeaves ==
    ASSUME Inv, EngineStep \/ UserStep
    PROVE  pending' \subseteq pending /\ dismissed' \subseteq dismissed \cup {IdOf[t] : t \in pending}
  <1>1. CASE EngineExpire
    BY <1>1 DEF EngineExpire, ExpireSection, Drop, Lapsed
  <1>2. ASSUME NEW t \in Tickets, EngineNotify(t)
        PROVE  UNCHANGED <<pending, dismissed>>
    BY <1>2 DEF EngineNotify, ownerVars
  <1>3. ASSUME NEW t \in Tickets, EngineTake(t)
        PROVE  /\ pending' \subseteq pending
               /\ dismissed' \subseteq dismissed \cup {IdOf[u] : u \in pending}
    BY <1>3 DEF EngineTake, Drop, Waiting
  <1>4. CASE EngineDone  BY <1>4 DEF EngineDone, ownerVars
  <1>5. CASE engine.step = "send" /\ EngineSend(Listening(engine.ticket))
    BY <1>5 DEF EngineSend, ownerVars
  <1>6. CASE UserStep  BY <1>6 DEF UserStep, BeginAnswer, BeginExpire, Tick, ownerVars
  <1> QED BY <1>1, <1>2, <1>3, <1>4, <1>5, <1>6 DEF EngineStep

\* Steps of which the observers notice nothing.
LEMMA ElsewhereWatched ==
    ASSUME Inv, Watch, UNCHANGED observerVars, pending' \subseteq pending,
           dismissed' \subseteq dismissed \cup {IdOf[t] : t \in pending}
    PROVE  Watch'
  <1>1. pending \subseteq Tickets  BY DEF Inv, Owner, RequestsTypeOK
  <1>2. CardsAreWatched'  BY <1>1, SeenStays DEF Watch, observerVars
  <1>3. Running' /\ Unseen'  BY DEF Watch, Running, Unseen, Locked, observerVars
  <1> QED BY <1>2, <1>3 DEF Watch

LEMMA SettleWatched ==
    ASSUME Inv, CardsAreWatched, NEW who \in Settlers, NEW a \in Ids, SettleNative(who, a),
           \A o \in Observers, b \in Ids : b # a => known'[o][b] = known[o][b]
    PROVE  CardsAreWatched'
  <1>0. /\ pending \subseteq Tickets /\ dismissed \subseteq Ids
        /\ forget \in [Settlers -> Ids \cup {NoId}]
    BY Constants DEF Inv, Owner, RequestsTypeOK, TypeOK, ObserverTypeOK
  <1>1. /\ pending' = {t \in pending : IdOf[t] # a} /\ dismissed' = dismissed
        /\ forget[who] = NoId /\ forget' = [forget EXCEPT ![who] = a]
    BY DEF SettleNative, Cancel, Drop, Waiting
  <1>2. \A t \in pending' : known'[By[t]][IdOf[t]] = "shown"
    <2> SUFFICES ASSUME NEW t \in pending' PROVE known'[By[t]][IdOf[t]] = "shown"
      OBVIOUS
    <2>1. t \in pending /\ IdOf[t] # a  BY <1>1
    <2>2. By[t] \in Observers /\ IdOf[t] \in Ids  BY <1>0, <2>1, Constants
    <2>3. known[By[t]][IdOf[t]] = "shown"  BY <2>1 DEF CardsAreWatched
    <2> QED BY <2>1, <2>2, <2>3
  <1>3. ASSUME NEW b \in dismissed
        PROVE  \/ \E o \in Observers : known'[o][b] = "shown"
               \/ \E w \in Settlers : forget'[w] = b
    <2>1. CASE b = a  BY <1>0, <1>1, <2>1
    <2>2. CASE b # a /\ \E o \in Observers : known[o][b] = "shown"
      BY <1>0, <2>2
    <2>3. ASSUME NEW w \in Settlers, forget[w] = b PROVE forget'[w] = b
      BY <1>0, <1>1, <1>3, <2>3, Constants
    <2> QED BY <1>0, <2>1, <2>2, <2>3 DEF CardsAreWatched
  <1> QED BY <1>1, <1>2, <1>3 DEF CardsAreWatched

LEMMA ForgetWatched ==
    ASSUME Inv, Watch, NEW who \in Settlers, Forget(who) PROVE Watch'
  <1>0. dismissed \subseteq Ids /\ forget \in [Settlers -> Ids \cup {NoId}]
    BY Constants DEF Inv, Owner, RequestsTypeOK, TypeOK, ObserverTypeOK
  <1>1. UNCHANGED <<pending, known, observer, dropped, worker>>  BY DEF Forget
  <1>2. ASSUME NEW b \in dismissed'
        PROVE  \/ \E o \in Observers : known'[o][b] = "shown"
               \/ \E w \in Settlers : forget'[w] = b
    <2>1. b \in dismissed /\ b # forget[who]  BY <1>2 DEF Forget
    <2>2. \A w \in Settlers : forget[w] = b => forget'[w] = b
      BY <1>0, <2>1 DEF Forget
    <2> QED BY <1>1, <2>1, <2>2 DEF Watch, CardsAreWatched
  <1>3. CardsAreWatched'  BY <1>1, <1>2 DEF Watch, CardsAreWatched
  <1>4. Running' /\ Unseen'  BY <1>1 DEF Watch, Running, Unseen, Locked
  <1> QED BY <1>3, <1>4 DEF Watch

LEMMA ShowWatched ==
    ASSUME Inv, Watch, NEW o \in Observers, NEW a \in Ids, ShowAsk(o, a) PROVE Watch'
  <1>0. /\ known \in [Observers -> [Ids -> {"no", "shown", "hidden"}]]
        /\ worker \in [Observers -> Passes]
        /\ dismissed \subseteq Ids /\ pending \subseteq Tickets
    BY Constants DEF Inv, Owner, RequestsTypeOK, TypeOK, ObserverTypeOK
  <1>1. Locked(o) /\ a \in worker[o].todo /\ known[o][a] = "no"
    BY DEF ShowAsk, Watch, Unseen
  <1>2. UNCHANGED <<observer, dropped, forget>>  BY DEF ShowAsk
  <1>3. Running'  BY <1>2 DEF Watch, Running
  <1>4. \E k \in {"shown", "hidden"} : known' = [known EXCEPT ![o][a] = k]
    BY DEF ShowAsk
  <1>5. \A p \in Observers, b \in Ids : p # o \/ b # a => known'[p][b] = known[p][b]
    BY <1>0, <1>4
  <1>6. Unseen'
    <2>1. /\ worker'[o].todo = worker[o].todo \ {a} /\ worker'[o].step = worker[o].step
          /\ \A p \in Observers \ {o} : worker'[p] = worker[p]
      <3>1. worker[o] \in Passes  BY <1>0
      <3> QED BY <1>0, <3>1 DEF ShowAsk, LookedAt, Passes
    <2>2. \A p \in Observers : worker[p].todo \subseteq Ids
      BY <1>0 DEF Passes
    <2> QED BY <1>5, <2>1, <2>2 DEF Watch, Unseen, Locked
  <1>7. \A b \in dismissed : \/ \E p \in Observers : known'[p][b] = "shown"
                             \/ \E who \in Settlers : forget'[who] = b
    BY <1>0, <1>1, <1>2, <1>5 DEF Watch, CardsAreWatched
  <1>8. \A t \in pending : known'[By[t]][IdOf[t]] = "shown"
    <2> SUFFICES ASSUME NEW t \in pending PROVE known'[By[t]][IdOf[t]] = "shown"
      OBVIOUS
    <2>1. known[By[t]][IdOf[t]] = "shown"  BY DEF Watch, CardsAreWatched
    <2>2. By[t] \in Observers /\ IdOf[t] \in Ids  BY <1>0, Constants
    <2> QED BY <1>1, <1>5, <2>1, <2>2
  <1>9. CASE Showable(a)
    <2>1. PICK t \in Tickets : /\ IdOf[t] = a /\ By[t] = o
                               /\ pending' = pending \cup {t} /\ dismissed' = dismissed
                               /\ known' = [known EXCEPT ![o][a] = "shown"]
      <3> DEFINE u == CHOOSE u \in Fresh(o, a) : TRUE
      <3>1. u \in Fresh(o, a)  BY <1>9 DEF ShowAsk
      <3>2. Push(u) /\ known' = [known EXCEPT ![o][a] = "shown"]  BY <1>9 DEF ShowAsk
      <3> HIDE DEF u
      <3> QED BY <3>1, <3>2 DEF Fresh, Push
    <2>2. known'[o][a] = "shown"  BY <1>0, <2>1
    <2> QED BY <1>3, <1>6, <1>7, <1>8, <2>1, <2>2 DEF Watch, CardsAreWatched
  <1>10. CASE ~Showable(a)
    <2>1. UNCHANGED <<pending, dismissed>>  BY <1>10 DEF ShowAsk, ownerVars
    <2> QED BY <1>3, <1>6, <1>7, <1>8, <2>1 DEF Watch, CardsAreWatched
  <1> QED BY <1>9, <1>10

\* The other steps of an observer's worker.
LEMMA WorkerWatched ==
    ASSUME Inv, Watch, NEW o \in Observers,
           \/ Start(o) \/ CheckActive(o) \/ List(o) \/ StartThreads(o) \/ ReadSessions(o)
           \/ SetWaiting(o)
           \/ \E a \in Ids : PassOver(o, a)
           \/ \E swept \in SUBSET file : Beat(o, swept)
    PROVE  Watch'
  <1> USE DEF Start, CheckActive, List, StartThreads, ReadSessions, SetWaiting, PassOver, Beat
  <1>0. /\ observer \in [Observers -> {"off", "on", "dropping", "settling", "clearing", "gone"}]
        /\ worker \in [Observers -> Passes] /\ pending \subseteq Tickets
    BY DEF Inv, Owner, RequestsTypeOK, TypeOK, ObserverTypeOK
  <1>1. UNCHANGED <<known, dropped, forget, pending, dismissed>>
    BY DEF requestVars, ownerVars
  <1>2. Running'  BY <1>0, <1>1 DEF Watch, Running
  <1>3. CardsAreWatched'  BY <1>0, <1>1, SeenStays DEF Watch
  <1>4. \A p \in Observers \ {o} : worker'[p] = worker[p]
    BY <1>0 DEF LookedAt
  <1>5. Locked(o)' => \A a \in worker'[o].todo : known[o][a] = "no"
    <2>1. worker[o] \in Passes  BY <1>0
    <2>2. CASE List(o)  BY <1>0, <2>1, <2>2 DEF Passes
    <2>3. ASSUME NEW a \in Ids, PassOver(o, a)
          PROVE  Locked(o) /\ worker'[o].todo \subseteq worker[o].todo
      BY <1>0, <2>1, <2>3 DEF LookedAt, Passes
    <2>4. CASE Start(o) \/ CheckActive(o) \/ StartThreads(o) \/ ReadSessions(o) \/ SetWaiting(o)
      <3>1. worker'[o].step # "scanning"
        <4>1. CASE Start(o)  BY <1>0, <2>1, <4>1 DEF Passes
        <4>2. CASE CheckActive(o)  BY <1>0, <2>1, <4>2 DEF Passes
        <4>3. CASE StartThreads(o)  BY <1>0, <4>3 DEF AtRest
        <4>4. CASE ReadSessions(o)  BY <1>0, <2>1, <4>4 DEF Passes
        <4>5. CASE SetWaiting(o)  BY <1>0, <4>5 DEF AtRest
        <4> QED BY <2>4, <4>1, <4>2, <4>3, <4>4, <4>5
      <3> QED BY <3>1 DEF Locked
    <2>5. ASSUME NEW swept \in SUBSET file, Beat(o, swept) PROVE ~Locked(o)'
      BY <1>0, <2>1, <2>5 DEF Passes, Locked
    <2> QED BY <2>2, <2>3, <2>4, <2>5 DEF Watch, Unseen
  <1>6. Unseen'  BY <1>1, <1>4, <1>5 DEF Watch, Unseen, Locked
  <1> QED BY <1>2, <1>3, <1>6 DEF Watch

LEMMA SettleGoneWatched ==
    ASSUME Inv, Watch, NEW o \in Observers, NEW a \in Ids, SettleGone(o, a) PROVE Watch'
  <1>0. /\ known \in [Observers -> [Ids -> {"no", "shown", "hidden"}]]
        /\ <<"worker", o>> \in Settlers /\ pending \subseteq Tickets /\ dismissed \subseteq Ids
        /\ \A p \in Observers : worker[p].todo \subseteq Ids
    BY Constants DEF Inv, Owner, RequestsTypeOK, TypeOK, ObserverTypeOK, Settlers, Passes
  <1>1. UNCHANGED <<observer, worker, dropped>> /\ known' = [known EXCEPT ![o][a] = "no"]
    BY DEF SettleGone
  <1>2. \A p \in Observers, b \in Ids : b # a => known'[p][b] = known[p][b]
    BY <1>0, <1>1
  <1>3. ASSUME known[o][a] = "shown" PROVE CardsAreWatched'
    <2>1. SettleNative(<<"worker", o>>, a)  BY <1>3 DEF SettleGone
    <2> QED BY <1>0, <1>2, <2>1, SettleWatched DEF Watch
  <1>4. ASSUME known[o][a] # "shown" PROVE CardsAreWatched'
    <2>1. UNCHANGED <<pending, dismissed, forget>>  BY <1>4 DEF SettleGone, ownerVars
    <2>2. \A p \in Observers, b \in Ids : known[p][b] = "shown" => known'[p][b] = "shown"
      BY <1>0, <1>1, <1>4
    <2>3. \A t \in pending : By[t] \in Observers /\ IdOf[t] \in Ids  BY <1>0, Constants
    <2> QED BY <1>0, <2>1, <2>2, <2>3 DEF Watch, CardsAreWatched
  <1>5. Unseen'
    BY <1>0, <1>1 DEF Watch, Unseen, Locked
  <1> QED BY <1>1, <1>3, <1>4, <1>5 DEF Watch, Running

LEMMA NextWatch == ASSUME Stops = {}, Inv, Watch, [Next]_vars PROVE Watch'
  <1>1. ASSUME NEW o \in Observers, Start(o) \/ WorkerStep(o) \/ Stop(o) \/ DropStep(o)
        PROVE  Watch'
    <2>1. <<"worker", o>> \in Settlers /\ <<"drop", o>> \in Settlers  BY DEF Settlers
    <2>2. ~Stop(o) /\ ~TakeKnown(o) /\ ~ClearWaiting(o) /\ ~RemoveApp(o)
          /\ \A a \in Ids : ~SettleDropped(o, a)
      BY DEF Watch, Running, Stop, TakeKnown, ClearWaiting, RemoveApp, SettleDropped
    <2> QED BY <1>1, <2>1, <2>2, WorkerWatched, ShowWatched, SettleGoneWatched, ForgetWatched
            DEF WorkerStep, DropStep
  <1>2. ASSUME NEW t \in Tickets, DeliverStep(t) PROVE Watch'
    <2>1. <<"deliver", t>> \in Settlers /\ IdOf[t] \in Ids  BY Constants DEF Settlers
    <2>2. CASE SettleFailed(t)
      <3>1. CardsAreWatched'
        BY <2>1, <2>2, SettleWatched DEF SettleFailed, Watch
      <3>2. Running' /\ Unseen'
        BY <2>2 DEF SettleFailed, Watch, Running, Unseen, Locked
      <3> QED BY <3>1, <3>2 DEF Watch
    <2>3. CASE StopDelivering(t) \/ ReceiveDecision(t) \/ CheckStillActive(t)
               \/ LeaveAnswer(t) \/ FailToLeave(t)
      <3>1. UNCHANGED <<observerVars, pending, dismissed>>
        BY <2>3 DEF StopDelivering, ReceiveDecision, CheckStillActive, LeaveAnswer,
                    FailToLeave, DeliverOnly, requestVars, ownerVars
      <3> QED BY <3>1, ElsewhereWatched
    <2> QED BY <1>2, <2>1, <2>2, <2>3, ForgetWatched DEF DeliverStep
  <1>3. CASE EngineStep \/ UserStep
    BY <1>3, OwnerLeaves, ElsewhereWatched DEF EngineStep, UserStep, asksVars
  <1>4. ASSUME UNCHANGED <<requestVars, observerVars>> PROVE Watch'
    BY <1>4, ElsewhereWatched DEF requestVars, ownerVars
  <1>5. ASSUME NEW a \in Ids, HarnessStep(a) PROVE Watch'
    BY <1>4, <1>5 DEF HarnessStep, Ask, ClientSettles, NoProvider, TurnAborts, PollAnswer,
                      HostDies, Settled
  <1>6. CASE WebPublishes \/ \E w \in Webs : WebChanges(w)
    BY <1>4, <1>6 DEF WebPublishes, WebChanges
  <1>7. CASE UNCHANGED vars  BY <1>4, <1>7 DEF vars
  <1> QED BY <1>1, <1>2, <1>3, <1>5, <1>6, <1>7 DEF Next

\* While no observer is dropped, every card and every dismissal belongs to an
\* ask its observer knows, or is about to be taken away (asks.rs, `known`).
THEOREM Watched == ASSUME Stops = {} PROVE Spec => []CardsAreWatched
  <1>1. Init => Watch
    BY DEF Init, RequestsInit, Watch, Running, Unseen, Locked, AtRest, CardsAreWatched
  <1>2. Inv /\ Watch /\ [Next]_vars => Watch'  BY NextWatch
  <1>3. Watch => CardsAreWatched  BY DEF Watch
  <1> QED BY <1>1, <1>2, <1>3, Invariant, PTL DEF Spec

=============================================================================
