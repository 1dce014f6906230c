------------------------ MODULE HookCallbacksProofs ------------------------
(***************************************************************************)
(* Proofs about HookCallbacks, for any set of connections, decisions and   *)
(* hold times: type correctness, that a request is answered or given up    *)
(* and never both, that no card outlives its callback, that a client acts  *)
(* only on the user's answer, and that the callbacks implement HookPromise.*)
(***************************************************************************)
EXTENDS HookCallbacks, TLAPS

Answering(t) == engine.step = "send" /\ engine.ticket = t

Unregistered == {"absent", "reading", "registering"}
Returned == {"replying", "finished"}

\* What the engine carries between two of its steps.
EngineInv ==
    /\ engine.step \in {"idle", "expire", "send"} => engine.unsent = {}
    /\ engine.step = "send" =>
           engine.ticket \in Tickets /\ engine.decision \in Takes[engine.ticket]

\* OneHolder, case by case.
HolderInv == \A t \in Tickets :
    /\ t \in pending => t \notin engine.unsent /\ ~Answering(t) /\ sent[t] = Empty
    /\ t \in engine.unsent => sent[t] = Empty
    /\ Answering(t) => sent[t] = Empty

\* Where a thread is bounds what has become of its ticket.
ThreadInv == \A c \in Conns :
    /\ pc[c] \in Unregistered =>
           /\ c \notin pending /\ c \notin engine.unsent /\ ~Answering(c)
           /\ sent[c] = Empty
    /\ c \in pending => Listening(c)
    /\ pc[c] \notin Returned \cup {"cancelling"} => got[c] = Nothing

\* What a message, a report and a client's response say of each other.
MessageInv == \A c \in Conns :
    /\ sent[c] \in Decisions => sent[c] \in Takes[c] \ {Leave} /\ told[c] # "untold"
    /\ told[c] # "untold" => sent[c] # Empty
    /\ told[c] = "stopped" => pc[c] \in Returned /\ got[c] = Nothing
    /\ got[c] \in Decisions => got[c] = sent[c] /\ told[c] = "ok"
    /\ cli[c] \in Decisions => cli[c] = got[c] /\ pc[c] = "finished"
    /\ pc[c] = "absent" => cli[c] = "absent"

ServerInv == server = "down" => Active = {}

Inv == TypeOK /\ EngineInv /\ HolderInv /\ ThreadInv /\ MessageInv /\ ServerInv

-----------------------------------------------------------------------------

\* A hook's id is its own, so cancelling it touches no other card.
LEMMA OwnId ==
    ASSUME TypeOK, NEW c \in Conns
    PROVE  Waiting(IdOf[c]) = pending \cap {c}
  BY FreshIds, HooksAssumption DEF Waiting, TypeOK, RequestsTypeOK, Conns

\* Steps of threads, clients and the server that leave the owner and the
\* engine alone keep what is said of those alone.
LEMMA OwnerUntouched ==
    ASSUME Inv, UNCHANGED requestVars
    PROVE  RequestsTypeOK' /\ EngineInv' /\ HolderInv'
  BY DEF Inv, TypeOK, RequestsTypeOK, EngineInv, HolderInv, Answering,
         requestVars, ownerVars, channelVars

LEMMA InitInv == Init => Inv
  <1> SUFFICES ASSUME Init PROVE Inv
    OBVIOUS
  <1> USE RequestsAssumption, HooksAssumption DEF Init, RequestsInit, Idle
  <1>1. TypeOK
    BY DEF TypeOK, RequestsTypeOK, ThreadSteps, Conns, EngineSteps
  <1>2. EngineInv /\ HolderInv
    BY DEF EngineInv, HolderInv, Answering
  <1>3. ThreadInv /\ MessageInv
    BY DEF ThreadInv, MessageInv, Unregistered, Returned, Answering, Conns
  <1>4. ServerInv
    BY DEF ServerInv, Active, Unserved
  <1> QED
    BY <1>1, <1>2, <1>3, <1>4 DEF Inv

LEMMA ServerInvStep ==
    ASSUME Inv, ServerStep
    PROVE  Inv'
  <1>1. UNCHANGED <<requestVars, pc, got, cli>>
    BY DEF ServerStep, StartServer, StopServer, Joined
  <1>2. RequestsTypeOK' /\ EngineInv' /\ HolderInv'
    BY <1>1, OwnerUntouched
  <1>3. TypeOK'
    BY <1>1, <1>2 DEF Inv, TypeOK, ServerStep, StartServer, StopServer, Joined
  <1>4. ThreadInv' /\ MessageInv'
    BY <1>1 DEF Inv, ThreadInv, MessageInv, Answering, Listening,
                requestVars, ownerVars, channelVars
  <1>5. ServerInv'
    BY <1>1 DEF Inv, ServerInv, ServerStep, StartServer, StopServer, Joined, Active
  <1> QED
    BY <1>2, <1>3, <1>4, <1>5 DEF Inv

LEMMA ClientInvStep ==
    ASSUME Inv, NEW c \in Conns, ClientStep(c)
    PROVE  Inv'
  <1> USE HooksAssumption
  <1>1. UNCHANGED <<requestVars, server, got>>
    BY DEF ClientStep, Accept, TurnAway, ClientLeaves
  <1>2. RequestsTypeOK' /\ EngineInv' /\ HolderInv'
    BY <1>1, OwnerUntouched
  <1>3. TypeOK'
    BY <1>1, <1>2 DEF Inv, TypeOK, ThreadSteps, ClientStep, Accept, TurnAway, ClientLeaves
  <1>4. ThreadInv'
    BY <1>1 DEF Inv, TypeOK, ThreadInv, Answering, Listening, Unregistered, Returned,
                requestVars, ownerVars, channelVars,
                ClientStep, Accept, TurnAway, ClientLeaves
  <1>5. MessageInv'
    BY <1>1, RequestsAssumption
       DEF Inv, TypeOK, ThreadInv, MessageInv, Unregistered, Returned,
                requestVars, ownerVars, channelVars,
                ClientStep, Accept, TurnAway, ClientLeaves
  <1>6. ServerInv'
    BY <1>1 DEF Inv, TypeOK, ServerInv, Active, Unserved,
                ClientStep, Accept, TurnAway, ClientLeaves
  <1> QED
    BY <1>2, <1>3, <1>4, <1>5, <1>6 DEF Inv

-----------------------------------------------------------------------------
(* The steps of a callback's thread.                                       *)

\* Every step but Register and CancelCard leaves the owner alone.
LEMMA QuietThreadInvStep ==
    ASSUME Inv, NEW c \in Conns,
           \/ ReadFrame(c) \/ Decline(c) \/ KeepWaiting(c) \/ Receive(c)
           \/ TimeOut(c) \/ CheckDeadline(c) \/ Reply(c)
    PROVE  Inv'
  <1> USE HooksAssumption, RequestsAssumption
  <1>1. UNCHANGED <<requestVars, server>>
    BY DEF ReadFrame, Decline, KeepWaiting, Receive, TimeOut, CheckDeadline, Reply
  <1>2. RequestsTypeOK' /\ EngineInv' /\ HolderInv'
    BY <1>1, OwnerUntouched
  <1>3. UNCHANGED <<pending, sent, told, engine>>
    BY <1>1 DEF requestVars, ownerVars, channelVars
  <1>4. CASE ReadFrame(c) \/ KeepWaiting(c) \/ TimeOut(c) \/ CheckDeadline(c)
    <2>1. /\ UNCHANGED <<got, cli>>
          /\ \E s \in {"registering", "polling", "receiving", "timed out", "cancelling"} :
                 /\ pc' = [pc EXCEPT ![c] = s]
                 /\ s = "registering" <=> pc[c] = "reading"
          /\ pc[c] \in {"reading", "polling", "receiving", "timed out"}
      BY <1>4 DEF ReadFrame, KeepWaiting, TimeOut, CheckDeadline
    <2>2. TypeOK'
      BY <1>1, <1>2, <2>1 DEF Inv, TypeOK, ThreadSteps, Conns
    <2>3. ThreadInv'
      BY <1>3, <2>1 DEF Inv, TypeOK, ThreadInv, Answering, Listening, Unregistered, Returned
    <2>4. MessageInv'
      BY <1>3, <2>1 DEF Inv, TypeOK, MessageInv, Returned
    <2>5. ServerInv'
      BY <1>1, <2>1 DEF Inv, TypeOK, ServerInv, Active, Unserved
    <2> QED
      BY <1>2, <2>2, <2>3, <2>4, <2>5 DEF Inv
  <1>5. CASE Decline(c)
    <2>1. /\ pc[c] \in {"reading", "registering"}
          /\ pc' = [pc EXCEPT ![c] = "finished"]
          /\ got' = got
          /\ cli' = cli \/ cli' = [cli EXCEPT ![c] = Nothing]
      BY <1>5 DEF Decline, Closed
    <2>2. TypeOK'
      BY <1>1, <1>2, <2>1 DEF Inv, TypeOK, ThreadSteps, Conns
    <2>3. ThreadInv'
      BY <1>3, <2>1 DEF Inv, TypeOK, ThreadInv, Answering, Listening, Unregistered, Returned
    <2>4. MessageInv'
      BY <1>3, <2>1 DEF Inv, TypeOK, ThreadInv, MessageInv, Unregistered, Returned
    <2>5. ServerInv'
      BY <1>1, <2>1 DEF Inv, TypeOK, ServerInv, Active, Unserved
    <2> QED
      BY <1>2, <2>2, <2>3, <2>4, <2>5 DEF Inv
  <1>6. CASE Receive(c)
    <2>1. /\ pc[c] = "receiving"
          /\ sent[c] \in Replies \cup {Nothing}
          /\ pc' = [pc EXCEPT ![c] = "cancelling"]
          /\ got' = [got EXCEPT ![c] = sent[c]]
          /\ cli' = cli
      BY <1>6 DEF Receive, Inv, TypeOK, RequestsTypeOK, Conns
    <2>2. TypeOK'
      BY <1>1, <1>2, <2>1 DEF Inv, TypeOK, ThreadSteps, Conns
    <2>3. ThreadInv'
      BY <1>3, <2>1 DEF Inv, TypeOK, ThreadInv, Answering, Listening, Unregistered, Returned
    <2>4. MessageInv'
      <3>1. sent[c] \in Decisions => told[c] = "ok"
        BY <2>1 DEF Inv, TypeOK, RequestsTypeOK, MessageInv, Returned, Conns
      <3> QED
        BY <1>3, <2>1, <3>1 DEF Inv, TypeOK, MessageInv, Returned, Replies
    <2>5. ServerInv'
      BY <1>1, <2>1 DEF Inv, TypeOK, ServerInv, Active, Unserved
    <2> QED
      BY <1>2, <2>2, <2>3, <2>4, <2>5 DEF Inv
  <1>7. CASE Reply(c)
    <2>1. /\ pc[c] = "replying"
          /\ pc' = [pc EXCEPT ![c] = "finished"]
          /\ got' = got
          /\ cli' = cli \/ cli' = [cli EXCEPT ![c] = got[c]]
      BY <1>7 DEF Reply
    <2>2. TypeOK'
      BY <1>1, <1>2, <2>1 DEF Inv, TypeOK, ThreadSteps, Conns
    <2>3. ThreadInv'
      BY <1>3, <2>1 DEF Inv, TypeOK, ThreadInv, Answering, Listening, Unregistered, Returned
    <2>4. MessageInv'
      BY <1>3, <2>1 DEF Inv, TypeOK, MessageInv, Returned
    <2>5. ServerInv'
      BY <1>1, <2>1 DEF Inv, TypeOK, ServerInv, Active, Unserved
    <2> QED
      BY <1>2, <2>2, <2>3, <2>4, <2>5 DEF Inv
  <1> QED
    BY <1>4, <1>5, <1>6, <1>7

LEMMA RegisterInvStep ==
    ASSUME Inv, NEW c \in Conns, Register(c)
    PROVE  Inv'
  <1> USE HooksAssumption, RequestsAssumption DEF Register, Push, Conns
  <1>0. now + holdMs \in Nat /\ now \in Nat
    BY DEF Inv, TypeOK, RequestsTypeOK
  <1>1. TypeOK'
    <2>1. RequestsTypeOK'
      BY <1>0 DEF Inv, TypeOK, RequestsTypeOK, channelVars
    <2> QED
      BY <2>1 DEF Inv, TypeOK, ThreadSteps
  <1>2. EngineInv'
    BY DEF Inv, EngineInv
  <1>3. HolderInv'
    BY DEF Inv, HolderInv, ThreadInv, Unregistered, Answering, channelVars
  <1>4. ThreadInv'
    BY DEF Inv, TypeOK, ThreadInv, Unregistered, Returned, Listening, Answering, channelVars
  <1>5. MessageInv'
    BY DEF Inv, TypeOK, MessageInv, Returned, channelVars
  <1>6. ServerInv'
    BY DEF Inv, TypeOK, ServerInv, Active, Unserved
  <1> QED
    BY <1>1, <1>2, <1>3, <1>4, <1>5, <1>6 DEF Inv

LEMMA CancelInvStep ==
    ASSUME Inv, NEW c \in Conns, CancelCard(c)
    PROVE  Inv'
  <1> USE HooksAssumption, RequestsAssumption DEF CancelCard, Cancel, Drop, Conns
  <1>0. Waiting(IdOf[c]) = pending \cap {c}
    BY OwnId DEF Inv
  <1>1. TypeOK'
    BY <1>0 DEF Inv, TypeOK, RequestsTypeOK, ThreadSteps
  <1>2. EngineInv'
    BY DEF Inv, EngineInv
  <1>3. HolderInv'
    BY <1>0 DEF Inv, HolderInv, Answering
  <1>4. ThreadInv'
    BY <1>0 DEF Inv, TypeOK, RequestsTypeOK, ThreadInv, Unregistered, Returned, Listening, Answering
  <1>5. MessageInv'
    BY <1>0 DEF Inv, TypeOK, RequestsTypeOK, HolderInv, ThreadInv, MessageInv, Returned
  <1>6. ServerInv'
    BY DEF Inv, TypeOK, ServerInv, Active, Unserved
  <1> QED
    BY <1>1, <1>2, <1>3, <1>4, <1>5, <1>6 DEF Inv

LEMMA ThreadInvStep ==
    ASSUME Inv, NEW c \in Conns, ThreadStep(c)
    PROVE  Inv'
  BY QuietThreadInvStep, RegisterInvStep, CancelInvStep DEF ThreadStep

-----------------------------------------------------------------------------
(* The steps of the engine, the user's choices and the clock.              *)

LEMMA EngineInvStep ==
    ASSUME Inv, EngineStep
    PROVE  Inv'
  <1> USE HooksAssumption, RequestsAssumption DEF Conns
  <1>0. UNCHANGED <<server, pc, got, cli>>
    BY DEF EngineStep, hookVars
  <1>a. ServerInv'
    BY <1>0 DEF Inv, ServerInv, Active
  <1>1. CASE EngineExpire
    <2> USE <1>0, <1>1 DEF EngineExpire, ExpireSection, Drop, Lapsed, channelVars
    <2>1. TypeOK'
      BY DEF Inv, TypeOK, RequestsTypeOK, EngineSteps
    <2>2. EngineInv'
      BY DEF Inv, TypeOK, RequestsTypeOK, EngineInv
    <2>3. HolderInv'
      BY DEF Inv, TypeOK, RequestsTypeOK, EngineInv, HolderInv, Answering
    <2>4. ThreadInv'
      BY DEF Inv, TypeOK, RequestsTypeOK, ThreadInv, Unregistered, Listening, Answering
    <2>5. MessageInv'
      BY DEF Inv, MessageInv
    <2> QED
      BY <1>a, <2>1, <2>2, <2>3, <2>4, <2>5 DEF Inv
  <1>2. ASSUME NEW t \in Tickets, EngineNotify(t)
        PROVE  Inv'
    <2> USE <1>0, <1>2 DEF EngineNotify, ownerVars
    <2>1. TypeOK'
      BY DEF Inv, TypeOK, RequestsTypeOK, EngineSteps
    <2>2. EngineInv'
      BY DEF Inv, TypeOK, RequestsTypeOK, EngineInv
    <2>3. HolderInv'
      BY DEF Inv, TypeOK, RequestsTypeOK, HolderInv, Answering
    <2>4. ThreadInv'
      BY DEF Inv, TypeOK, RequestsTypeOK, ThreadInv, Unregistered, Listening, Answering
    <2>5. MessageInv'
      BY DEF Inv, TypeOK, RequestsTypeOK, HolderInv, MessageInv
    <2> QED
      BY <1>a, <2>1, <2>2, <2>3, <2>4, <2>5 DEF Inv
  <1>3. ASSUME NEW t \in Tickets, EngineTake(t)
        PROVE  Inv'
    <2> USE <1>0, <1>3 DEF EngineTake, Drop, Waiting, channelVars
    <2>1. TypeOK'
      BY DEF Inv, TypeOK, RequestsTypeOK, EngineSteps
    <2>2. EngineInv'
      BY DEF Inv, TypeOK, RequestsTypeOK, EngineInv
    <2>3. HolderInv'
      BY DEF Inv, TypeOK, RequestsTypeOK, HolderInv, Answering
    <2>4. ThreadInv'
      BY DEF Inv, TypeOK, RequestsTypeOK, ThreadInv, Unregistered, Listening, Answering
    <2>5. MessageInv'
      BY DEF Inv, MessageInv
    <2> QED
      BY <1>a, <2>1, <2>2, <2>3, <2>4, <2>5 DEF Inv
  <1>4. CASE EngineDone
    <2> USE <1>0, <1>4 DEF EngineDone, Idle, ownerVars, channelVars
    <2>1. TypeOK'
      BY DEF Inv, TypeOK, RequestsTypeOK, EngineSteps
    <2>2. EngineInv' /\ HolderInv' /\ ThreadInv' /\ MessageInv'
      BY DEF Inv, EngineInv, HolderInv, ThreadInv, MessageInv, Listening, Answering
    <2> QED
      BY <1>a, <2>1, <2>2 DEF Inv
  <1>5. CASE engine.step = "send" /\ EngineSend(Listening(engine.ticket))
    <2> DEFINE t == engine.ticket
    <2> USE <1>0, <1>5 DEF EngineSend, Idle, ownerVars
    <2>0. t \in Tickets /\ engine.decision \in Takes[t] /\ engine.decision \in Decisions
      BY DEF Inv, EngineInv
    <2>1. TypeOK'
      BY <2>0 DEF Inv, TypeOK, RequestsTypeOK, EngineSteps, Response, Replies
    <2>2. EngineInv'
      BY DEF EngineInv
    <2>3. HolderInv'
      BY <2>0 DEF Inv, TypeOK, RequestsTypeOK, EngineInv, HolderInv, Answering
    <2>4. ThreadInv'
      BY <2>0 DEF Inv, TypeOK, RequestsTypeOK, ThreadInv, EngineInv, Unregistered, Listening, Answering
    <2>5. MessageInv'
      <3>1. sent[t] = Empty /\ told[t] = "untold" /\ got[t] \notin Decisions
            /\ pc[t] \notin Unregistered
        BY <2>0 DEF Inv, TypeOK, RequestsTypeOK, HolderInv, ThreadInv, MessageInv, Answering
      <3>2. ~Listening(t) => pc[t] \in Returned
        BY <2>0, <3>1 DEF Inv, TypeOK, ThreadSteps, Listening, Returned, Unregistered
      <3> QED
        BY <2>0, <3>1, <3>2
           DEF Inv, TypeOK, RequestsTypeOK, MessageInv, Response, Replies, Empty, Nothing
    <2> QED
      BY <1>a, <2>1, <2>2, <2>3, <2>4, <2>5 DEF Inv
  <1> QED
    BY <1>1, <1>2, <1>3, <1>4, <1>5 DEF EngineStep

LEMMA UserInvStep ==
    ASSUME Inv, UserStep
    PROVE  Inv'
  <1> USE HooksAssumption, RequestsAssumption DEF Conns
  <1>0. UNCHANGED <<server, pc, got, cli, pending, sent, told>>
    BY DEF UserStep, hookVars, BeginAnswer, SetHold, BeginExpire, Tick, ownerVars, channelVars
  <1>1. RequestsTypeOK'
    <2>0. now \in Nat /\ created \in [Tickets -> Nat]
      BY DEF Inv, TypeOK, RequestsTypeOK
    <2>1. CASE \E id \in Ids, d \in Decisions : BeginAnswer(id, d)
      <3>1. PICK id \in Ids, d \in Decisions : BeginAnswer(id, d)
        BY <2>1
      <3>2. engine' = [step |-> "expire", id |-> id, decision |-> d, at |-> now,
                       unsent |-> {}, ticket |-> NoTicket]
        BY <3>1 DEF BeginAnswer, Idle
      <3> QED
        BY <1>0, <2>0, <3>1, <3>2
           DEF Inv, TypeOK, RequestsTypeOK, EngineSteps, BeginAnswer, ownerVars
    <2>2. CASE \E h \in Holds : SetHold(h)
      <3>1. PICK h \in Holds : SetHold(h)
        BY <2>2
      <3>2. deadline' \in [Tickets -> Nat]
        <4>1. h \in Nat /\ deadline \in [Tickets -> Nat]
          BY <3>1 DEF Inv, TypeOK, RequestsTypeOK
        <4>2. \A t \in Tickets : created[t] + h \in Nat
          <5>1. SUFFICES ASSUME NEW t \in Tickets PROVE created[t] + h \in Nat
            OBVIOUS
          <5>2. created[t] \in Nat
            BY <2>0
          <5> QED
            BY <4>1, <5>2
        <4> QED
          BY <3>1, <4>1, <4>2 DEF SetHold
      <3> QED
        BY <1>0, <3>1, <3>2 DEF Inv, TypeOK, RequestsTypeOK, SetHold
    <2>3. CASE BeginExpire
      BY <1>0, <2>0, <2>3 DEF Inv, TypeOK, RequestsTypeOK, EngineSteps, BeginExpire, Idle, ownerVars
    <2>4. CASE Tick
      BY <1>0, <2>4 DEF Inv, TypeOK, RequestsTypeOK, Tick, ownerVars
    <2> QED
      BY <2>1, <2>2, <2>3, <2>4 DEF UserStep
  <1>2. TypeOK'
    BY <1>0, <1>1 DEF Inv, TypeOK
  <1>3. EngineInv' /\ engine'.unsent = engine.unsent
        /\ (engine'.step = "send" => engine'= engine)
    BY DEF Inv, EngineInv, UserStep, BeginAnswer, SetHold, BeginExpire, Tick, Idle, ownerVars
  <1>4. \A t \in Tickets : Answering(t)' => Answering(t)
    BY <1>3 DEF Answering
  <1>5. HolderInv' /\ ThreadInv'
    BY <1>0, <1>3, <1>4 DEF Inv, HolderInv, ThreadInv, Listening
  <1>6. MessageInv' /\ ServerInv'
    BY <1>0 DEF Inv, MessageInv, ServerInv, Active
  <1> QED
    BY <1>2, <1>3, <1>5, <1>6 DEF Inv

LEMMA NextInv == Inv /\ [Next]_vars => Inv'
  <1> SUFFICES ASSUME Inv, [Next]_vars PROVE Inv'
    OBVIOUS
  <1>1. CASE Next
    BY <1>1, ServerInvStep, EngineInvStep, UserInvStep, ThreadInvStep, ClientInvStep DEF Next
  <1>2. CASE UNCHANGED vars
    <2>1. RequestsTypeOK' /\ EngineInv' /\ HolderInv'
      BY <1>2, OwnerUntouched DEF vars
    <2>2. TypeOK' /\ ThreadInv' /\ MessageInv' /\ ServerInv'
      BY <1>2, <2>1 DEF Inv, TypeOK, ThreadInv, MessageInv, ServerInv, Listening, Answering,
                  Active, vars, hookVars, requestVars, ownerVars, channelVars
    <2> QED
      BY <2>1, <2>2 DEF Inv
  <1> QED
    BY <1>1, <1>2

-----------------------------------------------------------------------------
(* Safety, for every instance.                                             *)

LEMMA InvSafety ==
    ASSUME Inv
    PROVE  OneHolder /\ NoOrphanCard /\ OnlyTheUsersAnswer
  <1> USE RequestsAssumption, HooksAssumption DEF Conns
  <1>1. OneHolder
    BY DEF Inv, EngineInv, HolderInv, Answering, OneHolder, Holders
  <1>2. NoOrphanCard
    BY DEF Inv, TypeOK, RequestsTypeOK, ThreadInv, ServerInv, NoOrphanCard,
           Active, Unserved, Listening
  <1>3. OnlyTheUsersAnswer
    BY DEF Inv, MessageInv, OnlyTheUsersAnswer
  <1> QED
    BY <1>1, <1>2, <1>3

\* Every reachable state of the callbacks satisfies the inductive invariant.
THEOREM Invariant == Spec => []Inv
  <1> QED
    BY InitInv, NextInv, PTL DEF Spec

\* The variables keep their types (the state of requests.rs and of serve).
THEOREM TypeCorrect == Spec => []TypeOK
  <1>1. Inv => TypeOK
    BY DEF Inv
  <1> QED
    BY <1>1, Invariant, PTL

\* A request is answered or given up and never both: its sender is in one
\* place, through every interleaving of expire, cancel and answer.
THEOREM AnsweredOrGivenUp == Spec => []OneHolder
  BY InvSafety, Invariant, PTL

\* No card outlives the callback behind it, nor the server.
THEOREM CardsHaveCallbacks == Spec => []NoOrphanCard
  BY InvSafety, Invariant, PTL

\* A client acts only on a decision its user made, that its card supports,
\* and that the HUD was told had arrived.
THEOREM UsersAnswer == Spec => []OnlyTheUsersAnswer
  BY InvSafety, Invariant, PTL

-----------------------------------------------------------------------------
(* What was answered stays answered.                                       *)

LEMMA FinalStep ==
    ASSUME Inv, [Next]_vars, NEW c \in Conns
    PROVE  /\ sent[c] # Empty => sent'[c] = sent[c]
           /\ told[c] # "untold" => told'[c] = told[c]
           /\ cli[c] \in Decisions \cup {Nothing} => cli'[c] = cli[c]
  <1> USE RequestsAssumption, HooksAssumption DEF Conns
  <1>1. CASE EngineStep
    <2>1. cli' = cli
      BY <1>1 DEF EngineStep, hookVars
    <2>2. \/ UNCHANGED channelVars
          \/ \E t \in engine.unsent :
                sent' = [sent EXCEPT ![t] = Nothing] /\ told' = told
          \/ /\ Answering(engine.ticket)
             /\ sent' = [sent EXCEPT ![engine.ticket] = Response(engine.decision)]
             /\ \E how \in {"ok", "stopped"} :
                   told' = [told EXCEPT ![engine.ticket] = how]
      BY <1>1 DEF EngineStep, EngineExpire, EngineNotify, EngineTake, EngineDone,
                  EngineSend, Answering
    <2> QED
      BY <2>1, <2>2 DEF Inv, TypeOK, RequestsTypeOK, HolderInv, MessageInv, channelVars
  <1>2. CASE UserStep \/ ServerStep \/ UNCHANGED vars
    <2> UNCHANGED <<sent, told, cli>>
      BY <1>2 DEF UserStep, ServerStep, StartServer, StopServer, Joined, BeginAnswer,
                  SetHold, BeginExpire, Tick, vars, requestVars, channelVars, hookVars
    <2> QED
      OBVIOUS
  <1>3. ASSUME NEW d \in Conns, ThreadStep(d) \/ ClientStep(d)
        PROVE  /\ sent[c] # Empty => sent'[c] = sent[c]
               /\ told' = told
               /\ cli[c] \in Decisions \cup {Nothing} => cli'[c] = cli[c]
    <2>1. told' = told
      BY <1>3 DEF ThreadStep, ClientStep, ReadFrame, Decline, Register, KeepWaiting, Receive,
                  TimeOut, CheckDeadline, CancelCard, Cancel, Reply, Accept, TurnAway,
                  ClientLeaves, requestVars, channelVars
    <2>2. sent' = sent \/ CancelCard(d)
      BY <1>3 DEF ThreadStep, ClientStep, ReadFrame, Decline, Register, KeepWaiting, Receive,
                  TimeOut, CheckDeadline, Reply, Accept, TurnAway, ClientLeaves,
                  requestVars, channelVars
    <2>3. CancelCard(d) => (sent[c] # Empty => sent'[c] = sent[c])
      BY DEF CancelCard, Cancel, Waiting, Inv, HolderInv
    <2>4. \/ cli' = cli
          \/ /\ cli[d] \in {"absent", "waiting"}
             /\ \E v : cli' = [cli EXCEPT ![d] = v]
      BY <1>3 DEF ThreadStep, ClientStep, ReadFrame, Decline, Closed, Register, KeepWaiting,
                  Receive, TimeOut, CheckDeadline, CancelCard, Reply, Accept, TurnAway,
                  ClientLeaves, Inv, MessageInv
    <2>5. cli[c] \in Decisions \cup {Nothing} => cli'[c] = cli[c]
      BY <2>4 DEF Inv, TypeOK, Nothing
    <2> QED
      BY <2>1, <2>2, <2>3, <2>5
  <1> QED
    BY <1>1, <1>2, <1>3 DEF Next

\* The result of a request never changes once it is decided: neither what was
\* sent, nor what the HUD was told, nor what the client got.
THEOREM Final == Spec => AnswersAreFinal
  <1>1. Inv /\ [Next]_vars =>
          [\A c \in Conns :
            /\ sent[c] # Empty => sent'[c] = sent[c]
            /\ told[c] # "untold" => told'[c] = told[c]
            /\ cli[c] \in Decisions \cup {Nothing} => cli'[c] = cli[c]]_vars
    BY FinalStep
  <1> QED
    BY <1>1, Invariant, PTL DEF Spec, AnswersAreFinal

-----------------------------------------------------------------------------
(* The callbacks implement HookPromise.  A thread past its registration    *)
(* has a ticket whose sender is somewhere: that its client may give up is  *)
(* then a step of the promise.                                             *)

Registered(t) ==
    t \in pending \/ t \in engine.unsent \/ Answering(t) \/ sent[t] # Empty

RegisteredInv ==
    \A c \in Conns : pc[c] \notin Unregistered \cup {"finished"} => Registered(c)

IInv == Inv /\ RegisteredInv

LEMMA StaysRegistered ==
    ASSUME Inv, [Next]_vars, NEW c \in Conns, Registered(c)
    PROVE  Registered(c)'
  <1> USE RequestsAssumption, HooksAssumption DEF Conns
  <1>1. CASE EngineStep
    <2>1. CASE EngineExpire
      BY <2>1 DEF EngineExpire, ExpireSection, Drop, channelVars, Registered, Answering,
                  Inv, TypeOK, RequestsTypeOK, EngineInv
    <2>2. CASE \E t \in Tickets : EngineNotify(t)
      BY <2>2 DEF EngineNotify, ownerVars, Registered, Answering, Inv, TypeOK, RequestsTypeOK,
                  Empty, Nothing
    <2>3. CASE \E t \in Tickets : EngineTake(t)
      BY <2>3 DEF EngineTake, Drop, channelVars, Registered, Answering,
                  Inv, TypeOK, RequestsTypeOK
    <2>4. CASE EngineDone
      BY <2>4 DEF EngineDone, Idle, ownerVars, channelVars, Registered, Answering
    <2>5. CASE engine.step = "send" /\ EngineSend(Listening(engine.ticket))
      <3>1. engine.unsent = {} /\ Response(engine.decision) # Empty
        BY <2>5 DEF Inv, EngineInv, Response, Empty, Nothing
      <3> QED
        BY <2>5, <3>1 DEF EngineSend, ownerVars, Registered, Answering,
                          Inv, TypeOK, RequestsTypeOK
    <2> QED
      BY <1>1, <2>1, <2>2, <2>3, <2>4, <2>5 DEF EngineStep
  <1>2. CASE UserStep
    BY <1>2 DEF UserStep, BeginAnswer, SetHold, BeginExpire, Tick, Idle, ownerVars,
                channelVars, Registered, Answering, Inv, EngineInv
  <1>3. CASE \E d \in Conns : Register(d) \/ CancelCard(d)
    <2>1. engine' = engine
      BY <1>3 DEF Register, CancelCard
    <2>2. pending \subseteq pending' \/ \E d \in Conns : CancelCard(d)
      BY <1>3 DEF Register, Push
    <2>3. sent' = sent \/ \E d \in Conns : CancelCard(d)
      BY <1>3 DEF Register, channelVars
    <2>4. ASSUME NEW d \in Conns, CancelCard(d)
          PROVE  \A t \in Tickets : t \in pending \/ sent[t] # Empty =>
                                    t \in pending' \/ sent'[t] # Empty
      BY <2>4 DEF CancelCard, Cancel, Drop, Waiting, Empty, Nothing
    <2> QED
      BY <2>1, <2>2, <2>3, <2>4 DEF Registered, Answering
  <1>4. CASE UNCHANGED requestVars
    BY <1>4 DEF requestVars, ownerVars, channelVars, Registered, Answering
  <1> QED
    BY <1>1, <1>2, <1>3, <1>4
       DEF Next, vars, ServerStep, StartServer, StopServer, Joined, ThreadStep, ClientStep,
           ReadFrame, Decline, KeepWaiting, Receive, TimeOut, CheckDeadline, Reply,
           Accept, TurnAway, ClientLeaves

LEMMA RegisteredStep ==
    ASSUME IInv, [Next]_vars
    PROVE  RegisteredInv'
  <1> SUFFICES ASSUME NEW c \in Conns, pc'[c] \notin Unregistered \cup {"finished"}
               PROVE  Registered(c)'
    BY DEF RegisteredInv
  <1>1. CASE Register(c)
    BY <1>1 DEF Register, Push, Registered
  <1>2. CASE ~Register(c)
    <2>1. pc[c] \notin Unregistered \cup {"finished"}
      BY <1>2 DEF IInv, Inv, TypeOK, Unregistered, Next, vars, hookVars, EngineStep, UserStep,
                  ServerStep, StartServer, StopServer, Joined, ThreadStep, ClientStep,
                  ReadFrame, Decline, Register, KeepWaiting, Receive, TimeOut, CheckDeadline,
                  CancelCard, Reply, Accept, TurnAway, ClientLeaves
    <2> QED
      BY <2>1, StaysRegistered DEF IInv, RegisteredInv
  <1> QED
    BY <1>1, <1>2

LEMMA IInvariant == Spec => []IInv
  <1>1. Init => IInv
    BY InitInv DEF IInv, Init, RegisteredInv, Unregistered, Conns
  <1>2. IInv /\ [Next]_vars => IInv'
    BY NextInv, RegisteredStep DEF IInv
  <1> QED
    BY <1>1, <1>2, PTL DEF Spec

-----------------------------------------------------------------------------
(* The refinement mapping, ticket by ticket.                               *)

LEMMA OutcomeOf ==
    ASSUME Inv, NEW c \in Conns
    PROVE  /\ c \in pending <=> outcome[c] = "open"
           /\ outcome[c] = "new" <=> ~Registered(c)
           /\ sent[c] # Empty => outcome[c] = sent[c]
           /\ Answering(c) => outcome[c] = Response(engine.decision)
           /\ c \in engine.unsent => outcome[c] = Nothing
  <1> USE RequestsAssumption, HooksAssumption DEF Conns, outcome, Registered, Answering
  <1>1. engine.step = "send" /\ engine.ticket = c =>
            Response(engine.decision) \in Decisions \cup {Nothing}
    BY DEF Inv, EngineInv, Response
  <1>2. sent[c] \in Decisions \cup {Empty, Nothing}
    BY DEF Inv, TypeOK, RequestsTypeOK, Replies
  <1>3. Nothing \notin {"new", "open"} /\ Empty # Nothing
    BY DEF Nothing, Empty
  <1>4. sent[c] \in Decisions => sent[c] \in Replies
    BY DEF Inv, MessageInv, Replies
  <1> QED
    BY <1>1, <1>2, <1>3, <1>4 DEF Inv, HolderInv, EngineInv

LEMMA OutcomeUntouched ==
    ASSUME UNCHANGED <<pending, sent>>,
           engine'.unsent = engine.unsent,
           \A t \in Tickets : Answering(t)' <=> Answering(t),
           engine.step = "send" => engine'.decision = engine.decision
    PROVE  outcome' = outcome
  BY DEF outcome, Answering, Conns

LEMMA TakenUntouched ==
    ASSUME UNCHANGED <<pc, got>>,
           \A c \in Conns : outcome'[c] = "new" <=> outcome[c] = "new"
    PROVE  taken' = taken
  BY DEF taken

\* The engine's steps: an expiry gives cards up, taking the card decides it,
\* and the send is the report.
LEMMA EngineRefines ==
    ASSUME IInv, IInv', EngineStep
    PROVE  [Promise!Next]_Promise!vars
  <1> USE RequestsAssumption, HooksAssumption DEF Conns
  <1>0. UNCHANGED <<pc, got>> /\ Inv /\ Inv'
    BY DEF EngineStep, hookVars, IInv
  <1>1. CASE EngineExpire
    <2>1. outcome' = [r \in Conns |-> IF r \in Lapsed(engine.at) THEN Nothing ELSE outcome[r]]
      BY <1>0, <1>1 DEF EngineExpire, ExpireSection, Drop, Lapsed, channelVars, outcome,
                  Inv, TypeOK, RequestsTypeOK, EngineInv
    <2>2. \A r \in Lapsed(engine.at) : outcome[r] = "open"
      BY <1>0, OutcomeOf DEF Lapsed, Inv, TypeOK, RequestsTypeOK
    <2>3. taken' = taken
      <3>1. \A c \in Conns : outcome'[c] = "new" <=> outcome[c] = "new"
        BY <2>1, <2>2 DEF Nothing
      <3> QED
        BY <1>0, <3>1, TakenUntouched
    <2>4. told' = told
      BY <1>1 DEF EngineExpire, channelVars
    <2>5. CASE Lapsed(engine.at) = {}
      <3>1. outcome' = outcome
        BY <2>1, <2>5 DEF outcome
      <3> QED
        BY <2>3, <2>4, <3>1 DEF Promise!vars
    <2>6. CASE Lapsed(engine.at) # {}
      <3>1. Promise!GiveUp(Lapsed(engine.at))
        BY <2>1, <2>2, <2>3, <2>4, <2>6 DEF Promise!GiveUp
      <3>2. Lapsed(engine.at) \in SUBSET Conns
        BY <1>0 DEF Lapsed, Inv, TypeOK, RequestsTypeOK
      <3> QED
        BY <3>1, <3>2 DEF Promise!Next
    <2> QED
      BY <2>5, <2>6
  <1>2. ASSUME NEW t \in Tickets, EngineNotify(t)
        PROVE  [Promise!Next]_Promise!vars
    <2>1. outcome' = outcome
      BY <1>0, <1>2 DEF EngineNotify, ownerVars, outcome, Inv, TypeOK, RequestsTypeOK,
                  HolderInv, Empty, Nothing
    <2>2. taken' = taken
      BY <1>0, <2>1, TakenUntouched
    <2> QED
      BY <1>2, <2>1, <2>2 DEF EngineNotify, Promise!vars
  <1>3. ASSUME NEW t \in Tickets, EngineTake(t)
        PROVE  [Promise!Next]_Promise!vars
    <2>1. outcome' = [outcome EXCEPT ![t] = Response(engine.decision)]
      BY <1>0, <1>3 DEF EngineTake, Drop, channelVars, outcome, Inv, TypeOK, RequestsTypeOK
    <2>2. t \in pending /\ outcome[t] = "open"
      BY <1>0, <1>3, OutcomeOf DEF EngineTake, Waiting
    <2>3. Response(engine.decision) \in Replies \cup {Nothing}
      BY <1>0, <1>3 DEF EngineTake, Response, Replies, Inv, TypeOK, RequestsTypeOK
    <2>4. taken' = taken
      <3>1. Response(engine.decision) # "new"
        BY <2>3 DEF Replies, Nothing
      <3> QED
        BY <1>0, <2>1, <2>2, <3>1, TakenUntouched DEF outcome
    <2>5. Promise!Decide(t, Response(engine.decision))
      BY <1>3, <2>1, <2>2, <2>4 DEF EngineTake, channelVars, Promise!Decide
    <2> QED
      BY <2>3, <2>5 DEF Promise!Next
  <1>4. CASE EngineDone
    <2>1. outcome' = outcome
      BY <1>4, OutcomeUntouched DEF EngineDone, Idle, ownerVars, channelVars, Answering
    <2>2. taken' = taken
      BY <1>0, <2>1, TakenUntouched
    <2> QED
      BY <1>4, <2>1, <2>2 DEF EngineDone, channelVars, Promise!vars
  <1>5. CASE engine.step = "send" /\ EngineSend(Listening(engine.ticket))
    <2> DEFINE t == engine.ticket
               how == IF Listening(t) THEN "ok" ELSE "stopped"
    <2>1. t \in Conns /\ Answering(t) /\ sent[t] = Empty /\ told[t] = "untold"
      BY <1>0, <1>5 DEF Inv, EngineInv, HolderInv, MessageInv, Answering, TypeOK, RequestsTypeOK
    <2>2. outcome[t] = Response(engine.decision) /\ outcome[t] \notin {"new", "open"}
      BY <1>0, <2>1, OutcomeOf DEF Response, Nothing, Inv, TypeOK, RequestsTypeOK, EngineInv, Answering
    <2>3. outcome' = outcome
      <3>1. Response(engine.decision) # Empty
        BY <1>0, <1>5 DEF Inv, EngineInv, Response, Empty, Nothing
      <3> QED
        BY <1>0, <1>5, <2>1, <3>1 DEF EngineSend, Idle, ownerVars, outcome, Inv, TypeOK,
                  RequestsTypeOK, EngineInv, HolderInv, Answering
    <2>4. taken' = taken
      BY <1>0, <2>3, TakenUntouched
    <2>5. told' = [told EXCEPT ![t] = how]
      BY <1>5 DEF EngineSend
    <2>6. how = "ok" => taken[t] = "waiting"
      BY <2>1 DEF taken, Listening
    <2>7. how = "stopped" => taken[t] = Nothing
      <3>1. got[t] = Nothing
        BY <1>0, <2>1 DEF Inv, MessageInv, TypeOK, Replies
      <3>2. ~Listening(t) => pc[t] \in {"replying", "finished"}
        BY <1>0, <2>1 DEF Inv, TypeOK, ThreadSteps, ThreadInv, Unregistered, Listening
      <3> QED
        BY <2>1, <2>2, <3>1, <3>2 DEF taken
    <2>8. Promise!Report(t, how)
      BY <2>1, <2>2, <2>3, <2>4, <2>5, <2>6, <2>7 DEF Promise!Report
    <2> QED
      BY <2>1, <2>8 DEF Promise!Next
  <1> QED
    BY <1>1, <1>2, <1>3, <1>4, <1>5 DEF EngineStep

\* A callback's steps: it opens its card, and it takes the decision or
\* abandons the request when it cancels its card.
LEMMA ThreadRefines ==
    ASSUME IInv, IInv', NEW c \in Conns, ThreadStep(c) \/ ClientStep(c)
    PROVE  [Promise!Next]_Promise!vars
  <1> USE RequestsAssumption, HooksAssumption DEF Conns
  <1>0. Inv /\ Inv'
    BY DEF IInv
  <1>1. CASE Register(c)
    <2>1. ~Registered(c)
      BY <1>0, <1>1 DEF Register, Inv, ThreadInv, Unregistered, Registered
    <2>2. outcome[c] = "new"
      BY <1>0, <2>1, OutcomeOf
    <2>3. outcome' = [outcome EXCEPT ![c] = "open"]
      BY <1>0, <1>1 DEF Register, Push, channelVars, outcome
    <2>4. taken' = taken
      BY <1>0, <1>1, <2>2, <2>3 DEF Register, taken, outcome, Inv, TypeOK
    <2>5. Promise!Open(c)
      BY <1>1, <2>2, <2>3, <2>4 DEF Register, channelVars, Promise!Open
    <2> QED
      BY <2>5 DEF Promise!Next
  <1>2. CASE CancelCard(c)
    <2>0. /\ Waiting(IdOf[c]) = pending \cap {c}
          /\ pc[c] = "cancelling" /\ pc' = [pc EXCEPT ![c] = "replying"]
          /\ UNCHANGED <<engine, got, told>>
      BY <1>0, <1>2, OwnId DEF CancelCard, Cancel, Inv
    <2>1. Registered(c) /\ outcome[c] # "new" /\ taken[c] = "waiting"
      BY <1>0, <2>0, OutcomeOf DEF IInv, RegisteredInv, Unregistered, taken
    <2>2. outcome' = [outcome EXCEPT ![c] = IF @ = "open" THEN Nothing ELSE @]
      <3>1. c \notin pending => outcome' = outcome
        BY <1>0, <1>2, <2>0 DEF CancelCard, Cancel, Drop, outcome, Inv, TypeOK, RequestsTypeOK
      <3>2. CASE c \in pending
        <4>0. Waiting(IdOf[c]) = {c}
          BY <2>0, <3>2
        <4>1. /\ pending' = pending \ {c}
              /\ sent' = [t \in Tickets |-> IF t \in {c} THEN Nothing ELSE sent[t]]
          BY <1>2, <4>0 DEF CancelCard, Cancel, Drop
        <4>2. c \notin engine.unsent /\ ~Answering(c)
          BY <1>0, <3>2 DEF Inv, HolderInv
        <4>3. outcome' = [outcome EXCEPT ![c] = Nothing]
          BY <1>0, <2>0, <4>1, <4>2 DEF outcome, Answering, Empty, Nothing,
                      Inv, TypeOK, RequestsTypeOK
        <4> QED
          BY <1>0, <3>2, <4>3, OutcomeOf
      <3>3. CASE c \notin pending
        <4>1. outcome[c] # "open" /\ outcome' = outcome
          BY <1>0, <3>1, <3>3, OutcomeOf
        <4>2. outcome = [d \in Conns |-> outcome[d]]
          BY DEF outcome
        <4> QED
          BY <4>1, <4>2
      <3> QED
        BY <3>2, <3>3
    <2>3. taken' = [taken EXCEPT ![c] = got[c]]
      <3>1. \A d \in Conns : outcome'[d] = "new" <=> outcome[d] = "new"
        BY <2>1, <2>2 DEF outcome, Nothing
      <3> QED
        BY <1>0, <2>0, <2>1, <3>1 DEF taken, Inv, TypeOK
    <2>4. CASE got[c] = Nothing
      <3>1. Promise!Abandon(c)
        BY <2>0, <2>1, <2>2, <2>3, <2>4 DEF Promise!Abandon
      <3> QED
        BY <3>1 DEF Promise!Next
    <2>5. CASE got[c] \in Decisions
      <3>1. got[c] = sent[c] /\ told[c] = "ok" /\ sent[c] \in Replies /\ sent[c] # Empty
        BY <1>0, <2>5 DEF Inv, MessageInv, Replies
      <3>2. outcome[c] = got[c] /\ outcome[c] # "open"
        BY <1>0, <2>5, <3>1, OutcomeOf
      <3>3. outcome' = outcome
        BY <2>2, <3>2 DEF outcome
      <3>4. Promise!Take(c)
        BY <2>0, <2>1, <2>3, <3>1, <3>2, <3>3 DEF Promise!Take
      <3> QED
        BY <3>4 DEF Promise!Next
    <2> QED
      BY <1>0, <2>4, <2>5 DEF Inv, TypeOK, Replies
  <1>3. CASE ~Register(c) /\ ~CancelCard(c)
    <2>1. UNCHANGED requestVars
      BY <1>3 DEF ThreadStep, ClientStep, ReadFrame, Decline, KeepWaiting, Receive, TimeOut,
                  CheckDeadline, Reply, Accept, TurnAway, ClientLeaves
    <2>2. UNCHANGED <<outcome, told>>
      BY <2>1, OutcomeUntouched DEF requestVars, ownerVars, channelVars, Answering
    <2>3. taken' = taken
      <3>1. CASE pc[c] \in {"absent", "reading", "registering"}
        <4>1. outcome[c] = "new"
          BY <1>0, <3>1, OutcomeOf DEF Inv, ThreadInv, Unregistered, Registered
        <4>2. \A d \in Conns \ {c} : pc'[d] = pc[d] /\ got'[d] = got[d]
          BY <1>0, <1>3 DEF ThreadStep, ClientStep, ReadFrame, Decline, KeepWaiting, Receive,
                      TimeOut, CheckDeadline, Reply, Accept, TurnAway, ClientLeaves, Inv, TypeOK
        <4> QED
          BY <2>2, <4>1, <4>2 DEF taken
      <3>2. CASE pc[c] \notin {"absent", "reading", "registering"}
        <4>1. /\ pc'[c] \in Returned <=> pc[c] \in Returned
              /\ pc[c] \in Returned => got'[c] = got[c]
              /\ \A d \in Conns \ {c} : pc'[d] = pc[d] /\ got'[d] = got[d]
          BY <1>0, <1>3, <3>2 DEF ThreadStep, ClientStep, ReadFrame, Decline, KeepWaiting,
                      Receive, TimeOut, CheckDeadline, Reply, Accept, TurnAway, ClientLeaves,
                      Inv, TypeOK, Returned
        <4> QED
          BY <2>2, <4>1 DEF taken, Returned
      <3> QED
        BY <3>1, <3>2
    <2> QED
      BY <2>2, <2>3 DEF Promise!vars
  <1> QED
    BY <1>1, <1>2, <1>3

LEMMA StepRefines ==
    ASSUME IInv, IInv', [Next]_vars
    PROVE  [Promise!Next]_Promise!vars
  <1>1. CASE UserStep
    <2>1. outcome' = outcome
      BY <1>1, OutcomeUntouched
         DEF UserStep, BeginAnswer, SetHold, BeginExpire, Tick, Idle, ownerVars, channelVars,
             Answering, IInv, Inv, EngineInv
    <2>2. UNCHANGED <<pc, got, told>>
      BY <1>1 DEF UserStep, hookVars, BeginAnswer, SetHold, BeginExpire, Tick, channelVars
    <2> QED
      BY <2>1, <2>2, TakenUntouched DEF Promise!vars
  <1>2. CASE ServerStep \/ UNCHANGED vars
    <2>1. UNCHANGED <<requestVars, pc, got>>
      BY <1>2 DEF ServerStep, StartServer, StopServer, Joined, vars, hookVars
    <2>2. UNCHANGED <<outcome, told>>
      BY <2>1, OutcomeUntouched DEF requestVars, ownerVars, channelVars, Answering
    <2> QED
      BY <2>1, <2>2, TakenUntouched DEF Promise!vars
  <1> QED
    BY <1>1, <1>2, EngineRefines, ThreadRefines DEF Next

\* Whatever the order in which callbacks, engine, clock and server run, the
\* callbacks behave as HookPromise allows.
THEOREM Implements == Spec => PromiseSpec
  <1>1. Init => Promise!Init
    BY RequestsAssumption
       DEF Init, RequestsInit, Idle, Promise!Init, outcome, taken, Conns, Empty
  <1>2. IInv /\ IInv' /\ [Next]_vars => [Promise!Next]_Promise!vars
    BY StepRefines
  <1> QED
    BY <1>1, <1>2, IInvariant, PTL DEF Spec, PromiseSpec, Promise!Spec
-----------------------------------------------------------------------------
(* The hold time in force.                                                 *)

LEMMA DeadlineStep ==
    ASSUME TypeOK, DeadlineFollowsHold, [Next]_vars
    PROVE  DeadlineFollowsHold'
  <1> USE DEF DeadlineFollowsHold
  <1>1. ASSUME NEW c \in Conns, Register(c)
        PROVE  DeadlineFollowsHold'
    BY <1>1 DEF Register, Push, TypeOK, RequestsTypeOK, Conns
  <1>2. ASSUME NEW ts, Drop(ts), UNCHANGED holdMs
        PROVE  DeadlineFollowsHold'
    BY <1>2 DEF Drop, TypeOK, RequestsTypeOK
  <1>3. ASSUME NEW h \in Holds, SetHold(h)
        PROVE  DeadlineFollowsHold'
    BY <1>3 DEF SetHold, TypeOK, RequestsTypeOK
  <1>4. CASE UNCHANGED <<pending, created, deadline, holdMs>>
    BY <1>4
  <1>5. CASE EngineStep
    BY <1>2, <1>4, <1>5
       DEF EngineStep, EngineExpire, ExpireSection, EngineNotify, EngineDone, EngineTake,
           EngineSend, ownerVars
  <1>6. CASE UserStep
    BY <1>3, <1>4, <1>6 DEF UserStep, BeginAnswer, BeginExpire, Tick, ownerVars
  <1>7. CASE ServerStep \/ UNCHANGED vars
    BY <1>4, <1>7 DEF ServerStep, StartServer, StopServer, Joined, vars, requestVars, ownerVars
  <1>8. ASSUME NEW c \in Conns, ThreadStep(c) \/ ClientStep(c)
        PROVE  DeadlineFollowsHold'
    <2>1. CASE CancelCard(c)
      BY <1>2, <2>1 DEF CancelCard, Cancel
    <2> QED
      BY <1>1, <1>4, <1>8, <2>1
         DEF ThreadStep, ClientStep, ReadFrame, Decline, KeepWaiting, Receive, TimeOut,
             CheckDeadline, Reply, Accept, TurnAway, ClientLeaves, requestVars, ownerVars
  <1> QED
    BY <1>5, <1>6, <1>7, <1>8 DEF Next

\* Whenever the user changes the hold time, each waiting card leaves at its
\* creation plus the hold time now in force (set_hold_ms of requests.rs).
THEOREM DeadlinesFollow == Spec => []DeadlineFollowsHold
  <1>1. Init => DeadlineFollowsHold
    BY DEF Init, RequestsInit, DeadlineFollowsHold
  <1> QED
    BY <1>1, DeadlineStep, TypeCorrect, PTL DEF Spec
=============================================================================
