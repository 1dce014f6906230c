--------------------------- MODULE LanServerProofs ---------------------------
(***************************************************************************)
(* For any number of phones, connections and grants: what a revocation     *)
(* took serves nobody once it has returned, neither it nor an invitation   *)
(* from before it comes back, and an invitation pairs once.                *)
(*                                                                         *)
(* None of the three is inductive.  A revocation takes the grants in one   *)
(* step and shuts the sockets in a later one, and a connection is          *)
(* authorised in one step and written to in later ones, so the invariant   *)
(* says what each knows in between: the grants taken are out of reach      *)
(* (Taken), a stopped server has no open socket past its request           *)
(* (Stopped), and a phone that is about to be told of its grant can count  *)
(* on it (Promised).                                                       *)
(***************************************************************************)
EXTENDS LanServer, TLAPS, FiniteSetTheorems

\* The file has what memory has, and neither holds a grant that was taken by
\* a revocation, or one that is yet to be made.
Taken ==
    /\ file = clients
    /\ \A p \in Phones : clients[p] <= granted
    /\ \A t \in withdrawn \cup host.took : t <= granted /\ \A p \in Phones : clients[p] # t

\* Of a server that has stopped, and shut the sockets it knew, what is left
\* open has read no request.
Stopped ==
    /\ host.call \in {"stop", "stop and revoke"} => stop
    /\ stop /\ ~(host.call # "revoke" /\ host.step = "shut") =>
           \A c \in Conns : conn[c].shut \/ conn[c].step \in {"none", "start", "check", "end"}
    /\ host.step = "idle" \/ host.call = "none" => host = Idle

\* A connection past its request is not served with a grant that was taken.
Ended == \A c \in Conns : Served(c) => conn[c].token \notin withdrawn

\* Which invitations there are: all that were used, withdrawn or are open have
\* been made, those open after the last revocation.
Invited ==
    /\ barred <= invited /\ invitation.id <= invited
    /\ invitation.id # 0 => invitation.id > barred
    /\ \A t \in Tokens : from[t] <= invited /\ (t > granted => from[t] = 0)
    /\ \A t \in Tokens : from[t] # 0 => from[t] # invitation.id

\* A grant that is kept, or was taken by a revocation.
Holds(p, t) == t <= granted /\ (file[p] >= t \/ from[t] <= barred)

\* What a phone was told, or is about to be, holds.
Promised ==
    /\ \A p \in Phones : known[p] # 0 => Holds(p, known[p])
    /\ \A c \in Conns :
          /\ conn[c].step \in {"pair", "paired", "tell"} => conn[c].kind = "pair"
          /\ conn[c].step = "pair" => conn[c].token > 0
          /\ conn[c].step = "auth" => conn[c].kind # "pair"
          /\ conn[c].step \in {"paired", "tell"} \/ (conn[c].step = "count" /\ conn[c].kind = "pair")
                => conn[c].token \in Tokens /\ Holds(conn[c].phone, conn[c].token)

Inv == TypeOK /\ Taken /\ Stopped /\ Ended /\ Invited /\ RevokedStayOut /\ PairedOnce /\ Promised

-----------------------------------------------------------------------------
USE ServerAssumption DEF ServerAssumption

LEMMA InitInv == Init => Inv
  <1> SUFFICES ASSUME Init PROVE Inv
    OBVIOUS
  <1> USE DEF Init, NoGrants, NoInvitation, NoConn, Idle
  <1>1. ServerType  BY DEF ServerType
  <1>2. GrantsType  BY DEF GrantsType, Grants
  <1>3. MadeType    BY DEF MadeType
  <1>4. ConnsType   BY DEF ConnsType, Threads
  <1>5. Taken /\ Stopped /\ Ended /\ Invited /\ Promised
    BY DEF Taken, Stopped, Ended, Served, Invited, Promised, Tokens
  <1>6. RevokedStayOut /\ PairedOnce
    BY DEF RevokedStayOut, PairedOnce, Tokens
  <1> QED BY <1>1, <1>2, <1>3, <1>4, <1>5, <1>6 DEF Inv, TypeOK

-----------------------------------------------------------------------------
(* Types.                                                                  *)

Steps == {"none", "start", "check", "read", "pair", "paired", "tell", "auth",
          "count", "reply", "look", "ask", "frame", "uncount", "end"}

\* What a step does to a connection leaves it a connection.
LEMMA Changed ==
    ASSUME NEW t \in Threads
    PROVE  /\ \A s \in Steps : [t EXCEPT !.step = s] \in Threads
           /\ \A b \in BOOLEAN : [t EXCEPT !.stale = @ \/ b] \in Threads
           /\ \A b \in BOOLEAN : [t EXCEPT !.shut = @ \/ b] \in Threads
           /\ \A n \in Nat, s \in Steps : [t EXCEPT !.step = s, !.token = n] \in Threads
           /\ \A n \in Nat, s \in Steps, k \in {"none", "pair", "snapshot", "events"} :
                  [t EXCEPT !.step = s, !.kind = k, !.token = n] \in Threads
  <1>1. \A s \in Steps : [t EXCEPT !.step = s] \in Threads  BY DEF Threads, Steps
  <1>2. \A b \in BOOLEAN : /\ [t EXCEPT !.stale = @ \/ b] \in Threads
                           /\ [t EXCEPT !.shut = @ \/ b] \in Threads
    BY DEF Threads
  <1>3. \A n \in Nat, s \in Steps : [t EXCEPT !.step = s, !.token = n] \in Threads
    BY DEF Threads, Steps
  <1>4. \A n \in Nat, s \in Steps, k \in {"none", "pair", "snapshot", "events"} :
            [t EXCEPT !.step = s, !.kind = k, !.token = n] \in Threads
    BY DEF Threads, Steps
  <1> QED BY <1>1, <1>2, <1>3, <1>4

LEMMA NoConnType == NoConn \in Threads
  BY DEF Threads, NoConn

\* Connection c goes to step s with kind k and token n, and no other moves.
Moves(c, s, k, n) ==
    /\ conn' \in [Conns -> Threads]
    /\ \A d \in Conns \ {c} : conn'[d] = conn[d]
    /\ conn'[c].step = s /\ conn'[c].kind = k /\ conn'[c].token = n
    /\ conn'[c].phone = conn[c].phone /\ conn'[c].shut = conn[c].shut

LEMMA GoesMoves ==
    ASSUME TypeOK, NEW c \in Conns, NEW s \in Steps, Goes(c, s)
    PROVE  Moves(c, s, conn[c].kind, conn[c].token)
  <1> DEFINE t == [conn[c] EXCEPT !.step = s]
  <1>1. conn \in [Conns -> Threads] /\ conn[c] \in Threads  BY DEF TypeOK, ConnsType
  <1>2. t \in Threads  BY <1>1, Changed
  <1>3. /\ t.step = s /\ t.kind = conn[c].kind /\ t.token = conn[c].token
        /\ t.phone = conn[c].phone /\ t.shut = conn[c].shut
    BY <1>1 DEF Threads
  <1>4. conn' = [conn EXCEPT ![c] = t]  BY DEF Goes
  <1> HIDE DEF t
  <1> QED BY <1>1, <1>2, <1>3, <1>4 DEF Moves

LEMMA RequestMoves ==
    ASSUME TypeOK, NEW c \in Conns, Request(c)
    PROVE  \/ \E i \in 1..invited : Moves(c, "pair", "pair", i)
           \/ \E k \in {"snapshot", "events"} : Moves(c, "auth", k, known[conn[c].phone])
  <1>1. conn \in [Conns -> Threads] /\ conn[c] \in Threads  BY DEF TypeOK, ConnsType
  <1>2. /\ known[conn[c].phone] \in Nat
        /\ \A i \in 1..invited : i \in Nat
    <2>1. conn[c].phone \in Phones  BY DEF Request, At, TypeOK, ConnsType
    <2> QED BY <2>1 DEF TypeOK, GrantsType, MadeType
  <1>3. ASSUME NEW n \in Nat, NEW s \in Steps, NEW k \in {"none", "pair", "snapshot", "events"},
               conn' = [conn EXCEPT ![c].step = s, ![c].kind = k, ![c].token = n]
        PROVE  Moves(c, s, k, n)
    <2> DEFINE t == [conn[c] EXCEPT !.step = s, !.kind = k, !.token = n]
    <2>1. t \in Threads  BY <1>1, Changed
    <2>2. /\ t.step = s /\ t.kind = k /\ t.token = n
          /\ t.phone = conn[c].phone /\ t.shut = conn[c].shut
      BY <1>1 DEF Threads
    <2>3. conn' = [conn EXCEPT ![c] = t]  BY <1>3
    <2> HIDE DEF t
    <2> QED BY <1>1, <2>1, <2>2, <2>3 DEF Moves
  <1>4. {"pair", "auth"} \subseteq Steps  BY DEF Steps
  <1> QED BY <1>2, <1>3, <1>4 DEF Request

LEMMA PairMoves ==
    ASSUME TypeOK, NEW c \in Conns, Pair(c)
    PROVE  Moves(c, "paired", conn[c].kind, granted + 1)
  <1> DEFINE t == [conn[c] EXCEPT !.step = "paired", !.token = granted + 1]
  <1>1. conn \in [Conns -> Threads] /\ conn[c] \in Threads  BY DEF TypeOK, ConnsType
  <1>2. granted + 1 \in Nat  BY DEF TypeOK, MadeType
  <1>3. "paired" \in Steps  BY DEF Steps
  <1>4. t \in Threads  BY <1>1, <1>2, <1>3, Changed
  <1>5. /\ t.step = "paired" /\ t.kind = conn[c].kind /\ t.token = granted + 1
        /\ t.phone = conn[c].phone /\ t.shut = conn[c].shut
    BY <1>1 DEF Threads
  <1>6. conn' = [conn EXCEPT ![c] = t]  BY DEF Pair
  <1> HIDE DEF t
  <1> QED BY <1>1, <1>4, <1>5, <1>6 DEF Moves

LEMMA ClosesMoves ==
    ASSUME TypeOK, NEW c \in Conns, Closes(c)
    PROVE  /\ conn' \in [Conns -> Threads]
           /\ \A d \in Conns \ {c} : conn'[d] = conn[d]
           /\ conn'[c].step = "none"
  BY NoConnType DEF TypeOK, ConnsType, Closes, NoConn

\* What a connection's thread does to it, whatever else the step does.
LEMMA ThreadMoves ==
    ASSUME TypeOK, NEW c \in Conns, Thread(c)
    PROVE  /\ conn[c].step # "none"
           /\ conn' \in [Conns -> Threads]
           /\ \A d \in Conns \ {c} : conn'[d] = conn[d]
           /\ \/ conn'[c].step = "none"
              \/ conn'[c].phone = conn[c].phone /\ conn'[c].shut = conn[c].shut
  <1>1. conn[c].step # "none"
    BY DEF Thread, At, Pairs, ReadGeneration, CheckRunning, NoRequest, Request, PairRefused, Pair,
           PairFails, Paired, Tell, Authorize, CountStream, HeaderFails, Reply, LookRunning,
           AskGrant, WriteFrame, StreamBreaks, Uncount, Closes
  <1>2. CASE Request(c)  BY <1>1, <1>2, RequestMoves DEF Moves
  <1>3. CASE Pair(c)     BY <1>1, <1>3, PairMoves DEF Moves
  <1>4. CASE Closes(c)   BY <1>1, <1>4, ClosesMoves
  <1>5. CASE ~Request(c) /\ ~Pair(c) /\ ~Closes(c)
    <2>1. \E s \in {"check", "read", "end", "tell", "count", "reply", "look", "ask", "frame",
                     "uncount"} : Goes(c, s)
      BY <1>5 DEF Thread, ReadGeneration, CheckRunning, NoRequest, PairRefused, PairFails, Paired,
                  Tell, Authorize, CountStream, HeaderFails, Reply, LookRunning,
                  AskGrant, WriteFrame, StreamBreaks, Uncount
    <2>2. {"check", "read", "end", "tell", "count", "reply", "look", "ask", "frame",
                     "uncount"} \subseteq Steps  BY DEF Steps
    <2> QED BY <1>1, <2>1, <2>2, GoesMoves DEF Moves
  <1> QED BY <1>2, <1>3, <1>4, <1>5

LEMMA StaledType == ASSUME TypeOK PROVE Staled \in [Conns -> Threads]
  <1> SUFFICES ASSUME NEW c \in Conns
               PROVE  [conn[c] EXCEPT !.stale = @ \/ conn[c].step \notin {"none", "start"}]
                          \in Threads
    BY DEF Staled
  <1> QED BY Changed DEF TypeOK, ConnsType

LEMMA ShutAllType == ASSUME TypeOK PROVE ShutAll \in [Conns -> Threads]
  <1> SUFFICES ASSUME NEW c \in Conns
               PROVE  [conn[c] EXCEPT !.shut = @ \/ c \in Sockets] \in Threads
    BY DEF ShutAll
  <1> QED BY Changed DEF TypeOK, ConnsType

LEMMA CountedType ==
    ASSUME streams \in [Phones -> Nat], NEW p
    PROVE  /\ [streams EXCEPT ![p] = @ + 1] \in [Phones -> Nat]
           /\ streams[p] # 0 => [streams EXCEPT ![p] = @ - 1] \in [Phones -> Nat]
  <1>1. ASSUME NEW q \in Phones PROVE [streams EXCEPT ![p] = @ + 1][q] \in Nat
    OBVIOUS
  <1>2. ASSUME streams[p] # 0, NEW q \in Phones PROVE [streams EXCEPT ![p] = @ - 1][q] \in Nat
    BY <1>2
  <1> QED BY <1>1, <1>2

\* What the sharing thread, the listener and a death leave of the types.
Steered == Calls \/ CallStep \/ Dies \/ InvitationExpires \/ ListenerStep

LEMMA GrantOrNone == ASSUME TypeOK, NEW p \in Phones PROVE clients[p] \in Tokens \cup {0}
  <1>1. clients[p] \in 0..MaxGrants  BY DEF TypeOK, GrantsType, Grants
  <1> QED BY <1>1 DEF Tokens

LEMMA CallCounts ==
    ASSUME TypeOK, NEW call, NEW step, Call(call, step)
    PROVE  calls' \in 0..MaxCalls
  <1>1. calls \in 0..MaxCalls  BY DEF TypeOK, MadeType
  <1> QED BY <1>1 DEF Call

LEMMA SteeredServer == ASSUME TypeOK, Steered PROVE ServerType'
  <1> USE DEF TypeOK, ServerType
  <1>1. CASE Calls
    <2>1. CASE Start           BY <2>1 DEF Start
    <2>2. CASE RefreshAddress  BY <2>2 DEF RefreshAddress
    <2>3. CASE Invite          BY <2>3 DEF Invite
    <2>4. CASE BeginStop       BY <2>4 DEF BeginStop, Call, Idle
    <2>5. CASE BeginRevoke     BY <2>5 DEF BeginRevoke, Call, Idle
    <2> QED BY <1>1, <2>1, <2>2, <2>3, <2>4, <2>5 DEF Calls
  <1>2. CASE CallStep
    <2>1. CASE ShutSockets     BY <2>1 DEF ShutSockets, Idle
    <2>2. CASE Join            BY <2>2 DEF Join
    <2>3. CASE Withdraw
      <3> DEFINE took == {clients[p] : p \in Phones} \ {0}
      <3>2. \/ host' = [host EXCEPT !.step = "move", !.took = took]
            \/ host' = [host EXCEPT !.step = "streams", !.took = took]
        BY <2>3 DEF Withdraw
      <3>3. took \subseteq Tokens  BY GrantOrNone
      <3> HIDE DEF took
      <3> QED BY <2>3, <3>2, <3>3 DEF Withdraw
    <2>4. CASE WithdrawFails   BY <2>4 DEF WithdrawFails, Idle
    <2>5. CASE KeepGrants      BY <2>5 DEF KeepGrants
    <2>6. CASE MoveGeneration  BY <2>6 DEF MoveGeneration
    <2>7. CASE ClearStreams
      <3>1. host' = Idle \/ host' = [host EXCEPT !.step = "shut"]  BY <2>7 DEF ClearStreams
      <3>2. Idle \in [call : {"none", "stop", "stop and revoke", "revoke"},
                      step : {"idle", "shut", "join", "credentials", "move", "streams"},
                      took : SUBSET Tokens]
        BY DEF Idle
      <3> QED BY <2>7, <3>1, <3>2 DEF ClearStreams
    <2> QED BY <1>2, <2>1, <2>2, <2>3, <2>4, <2>5, <2>6, <2>7 DEF CallStep
  <1>3. CASE Dies               BY <1>3 DEF Dies, Idle
  <1>4. CASE InvitationExpires  BY <1>4 DEF InvitationExpires
  <1>5. CASE ListenerStep
    BY <1>5 DEF ListenerStep, Accept, Serve, TurnAway, AcceptsNone, ListenerEnds
  <1> QED BY <1>1, <1>2, <1>3, <1>4, <1>5 DEF Steered

LEMMA SteeredGrants == ASSUME TypeOK, Steered PROVE GrantsType'
  <1> USE DEF TypeOK, GrantsType, grantVars, historyVars
  <1>1. CASE Calls
    BY <1>1 DEF Calls, Start, RefreshAddress, Invite, BeginStop, BeginRevoke
  <1>2. CASE CallStep
    <2>1. host.took \subseteq Tokens  BY DEF ServerType
    <2>2. CASE Withdraw  BY <2>2 DEF Withdraw, NoGrants, Grants
    <2> QED BY <1>2, <2>1, <2>2 DEF CallStep, ShutSockets, Join, WithdrawFails, KeepGrants,
                                    MoveGeneration, ClearStreams
  <1>3. CASE Dies  BY <1>3 DEF Dies
  <1>4. CASE InvitationExpires  BY <1>4 DEF InvitationExpires
  <1>5. CASE ListenerStep
    BY <1>5 DEF ListenerStep, Accept, Serve, TurnAway, AcceptsNone, ListenerEnds
  <1> QED BY <1>1, <1>2, <1>3, <1>4, <1>5 DEF Steered

LEMMA SteeredMade == ASSUME TypeOK, Steered PROVE MadeType'
  <1> USE DEF TypeOK, MadeType, NoInvitation, grantVars, madeVars, historyVars
  <1>1. CASE Calls
    <2>1. CASE Start           BY <2>1 DEF Start
    <2>2. CASE RefreshAddress  BY <2>2 DEF RefreshAddress
    <2>3. CASE Invite          BY <2>3 DEF Invite
    <2>4. CASE BeginStop
      <3>1. PICK call \in {"stop", "stop and revoke"} : Call(call, "shut")  BY <2>4 DEF BeginStop
      <3>2. calls' \in 0..MaxCalls  BY <3>1, CallCounts
      <3> QED BY <2>4, <3>2 DEF BeginStop
    <2>5. CASE BeginRevoke     BY <2>5 DEF BeginRevoke, Call
    <2> QED BY <1>1, <2>1, <2>2, <2>3, <2>4, <2>5 DEF Calls
  <1>2. CASE CallStep
    <2>1. CASE ShutSockets     BY <2>1 DEF ShutSockets
    <2>2. CASE Join            BY <2>2 DEF Join
    <2>3. CASE Withdraw        BY <2>3 DEF Withdraw
    <2>4. CASE WithdrawFails   BY <2>4 DEF WithdrawFails
    <2>5. CASE KeepGrants      BY <2>5 DEF KeepGrants
    <2>6. CASE MoveGeneration  BY <2>6 DEF MoveGeneration
    <2>7. CASE ClearStreams    BY <2>7 DEF ClearStreams
    <2> QED BY <1>2, <2>1, <2>2, <2>3, <2>4, <2>5, <2>6, <2>7 DEF CallStep
  <1>3. CASE Dies  BY <1>3 DEF Dies
  <1>4. CASE InvitationExpires  BY <1>4 DEF InvitationExpires
  <1>5. CASE ListenerStep
    BY <1>5 DEF ListenerStep, Accept, Serve, TurnAway, AcceptsNone, ListenerEnds
  <1> QED BY <1>1, <1>2, <1>3, <1>4, <1>5 DEF Steered

\* A connection keeps its step and its phone when the generation moves or its
\* socket is shut.
LEMMA StaledKeeps ==
    ASSUME TypeOK, NEW c \in Conns
    PROVE  /\ Staled[c] \in Threads /\ ShutAll[c] \in Threads
           /\ Staled[c].step = conn[c].step /\ ShutAll[c].step = conn[c].step
           /\ Staled[c].phone = conn[c].phone /\ ShutAll[c].phone = conn[c].phone
           /\ Staled[c].kind = conn[c].kind /\ ShutAll[c].kind = conn[c].kind
           /\ Staled[c].token = conn[c].token /\ ShutAll[c].token = conn[c].token
           /\ Staled[c].shut = conn[c].shut
           /\ ShutAll[c].shut = (conn[c].shut \/ conn[c].step # "none")
  <1>1. conn[c] \in Threads  BY DEF TypeOK, ConnsType
  <1>2. Staled[c] \in Threads /\ ShutAll[c] \in Threads  BY StaledType, ShutAllType
  <1>3. /\ Staled[c] = [conn[c] EXCEPT !.stale = @ \/ conn[c].step \notin {"none", "start"}]
        /\ ShutAll[c] = [conn[c] EXCEPT !.shut = @ \/ conn[c].step # "none"]
    BY DEF Staled, ShutAll, Sockets
  <1> QED BY <1>1, <1>2, <1>3 DEF Threads

\* What a step does to the connections when no thread of theirs takes it.
LEMMA SteeredMoves ==
    ASSUME TypeOK, Steered
    PROVE  \/ conn' = conn \/ conn' = Staled \/ conn' = ShutAll
           \/ conn' = [c \in Conns |-> NoConn]
           \/ \E c \in Conns, p \in Phones : Serve(c, p)
  BY DEF Steered, Calls, CallStep, ListenerStep, Start, RefreshAddress, Invite, BeginStop,
         BeginRevoke, ShutSockets, Join, Withdraw, WithdrawFails, KeepGrants, MoveGeneration,
         ClearStreams, Dies, InvitationExpires, Accept, TurnAway, AcceptsNone, ListenerEnds

LEMMA ServeMoves ==
    ASSUME NEW c \in Conns, NEW p \in Phones, TypeOK, Serve(c, p)
    PROVE  LET t == [NoConn EXCEPT !.step = "start", !.phone = p]
           IN  /\ t \in Threads /\ t.step = "start" /\ t.phone = p
               /\ conn' = [conn EXCEPT ![c] = t]
  BY DEF NoConn, Threads, Serve

LEMMA SteeredConns == ASSUME TypeOK, Steered PROVE ConnsType'
  <1>1. streams' \in [Phones -> Nat] /\ lost' \in [Phones -> 0..MaxLost]
    <2>1. streams \in [Phones -> Nat] /\ lost \in [Phones -> 0..MaxLost]
      BY DEF TypeOK, ConnsType
    <2>2. \/ streams' = streams /\ lost' = lost
          \/ streams' = [p \in Phones |-> 0] /\ lost' = [p \in Phones |-> 0]
      BY DEF historyVars, Steered, Calls, CallStep, ListenerStep, Start, RefreshAddress, Invite, BeginStop,
             BeginRevoke, ShutSockets, Join, Withdraw, WithdrawFails, KeepGrants,
             MoveGeneration, ClearStreams, Dies, InvitationExpires, Accept, Serve, TurnAway,
             AcceptsNone, ListenerEnds
    <2> QED BY <2>1, <2>2
  <1>2. conn \in [Conns -> Threads] /\ \A c \in Conns : conn[c].step # "none" => conn[c].phone \in Phones
    BY DEF TypeOK, ConnsType
  <1>3. CASE conn' = conn  BY <1>1, <1>2, <1>3 DEF ConnsType
  <1>4. CASE conn' = Staled  BY <1>1, <1>2, <1>4, StaledType, StaledKeeps DEF ConnsType
  <1>5. CASE conn' = ShutAll  BY <1>1, <1>2, <1>5, ShutAllType, StaledKeeps DEF ConnsType
  <1>6. CASE conn' = [c \in Conns |-> NoConn]
    <2>1. NoConn.step = "none"  BY DEF NoConn
    <2> QED BY <1>1, <1>6, <2>1, NoConnType DEF ConnsType
  <1>7. ASSUME NEW c \in Conns, NEW p \in Phones, Serve(c, p) PROVE ConnsType'
    <2> DEFINE t == [NoConn EXCEPT !.step = "start", !.phone = p]
    <2>1. t \in Threads /\ t.phone = p /\ conn' = [conn EXCEPT ![c] = t]  BY <1>7, ServeMoves
    <2> HIDE DEF t
    <2> QED BY <1>1, <1>2, <2>1 DEF ConnsType
  <1> QED BY <1>3, <1>4, <1>5, <1>6, <1>7, SteeredMoves

LEMMA ThreadType == ASSUME TypeOK, NEW c \in Conns, Thread(c) PROVE TypeOK'
  <1> USE DEF TypeOK
  <1>1. ServerType'
    BY DEF ServerType, Thread, serverVars, ReadGeneration, CheckRunning, NoRequest, Request,
           PairRefused, Pair, PairFails, Paired, Tell, Authorize, CountStream, HeaderFails, Reply,
           LookRunning, AskGrant, WriteFrame, StreamBreaks, Uncount, Closes
  <1>2. GrantsType'
    <2>1. CASE Pair(c)
      <3>1. granted + 1 \in 0..MaxGrants /\ invitation.id \in 0..MaxInvitations
        BY <2>1 DEF MadeType, Pair, Grant
      <3>2. clients' \in Grants /\ file' \in Grants
        BY <2>1, <3>1 DEF Pair, Grant, Grants, GrantsType
      <3>3. from' \in [Tokens -> 0..MaxInvitations]
        BY <2>1, <3>1 DEF Pair, Grant, GrantsType
      <3> QED BY <2>1, <3>2, <3>3 DEF Pair, GrantsType, serverVars
    <2>2. CASE Tell(c)
      <3>1. conn[c].token \in Nat  BY DEF ConnsType, Threads
      <3> QED BY <2>2, <3>1 DEF Tell, GrantsType, serverVars, grantVars
    <2>3. CASE ~Pair(c) /\ ~Tell(c)
      BY <2>3 DEF GrantsType, Thread, serverVars, grantVars, ReadGeneration, CheckRunning,
             NoRequest, Request, PairRefused, PairFails, Paired, Authorize, CountStream, HeaderFails,
             Reply, LookRunning, AskGrant, WriteFrame, StreamBreaks, Uncount, Closes
    <2> QED BY <2>1, <2>2, <2>3
  <1>3. MadeType'
    <2>1. CASE Pair(c)  BY <2>1 DEF MadeType, Pair, Grant, NoInvitation, serverVars
    <2>2. CASE PairRefused(c)  BY <2>2 DEF MadeType, PairRefused, NoInvitation, serverVars
    <2>3. CASE PairFails(c)  BY <2>3 DEF MadeType, PairFails, NoInvitation, serverVars
    <2>4. CASE ~Pair(c) /\ ~PairRefused(c) /\ ~PairFails(c)
      <3>1. invitation' = invitation /\ granted' = granted
            /\ UNCHANGED <<invited, calls, barred>>
        BY <2>4 DEF Thread, serverVars, grantVars, ReadGeneration, CheckRunning, NoRequest,
               Request, Paired, Tell, Authorize, CountStream, HeaderFails, Reply, LookRunning,
               AskGrant, WriteFrame, StreamBreaks, Uncount, Closes
      <3> QED BY <3>1 DEF MadeType
    <2> QED BY <2>1, <2>2, <2>3, <2>4
  <1>4. ConnsType'
    <2>0. ASSUME NEW d \in Conns, conn'[d].step # "none" PROVE conn'[d].phone \in Phones
      <3>1. conn[d].step # "none" /\ conn'[d].phone = conn[d].phone  BY <2>0, ThreadMoves
      <3> QED BY <3>1 DEF ConnsType
    <2>1. streams' \in [Phones -> Nat]
      <3>1. streams' = streams \/ CountStream(c) \/ HeaderFails(c) \/ Uncount(c)
        BY DEF Thread, ReadGeneration, CheckRunning, NoRequest, Request, PairRefused, Pair,
               PairFails, Paired, Tell, Authorize, Reply, LookRunning, AskGrant,
               WriteFrame, StreamBreaks, Closes
      <3>2. CASE CountStream(c)  BY <3>2, CountedType DEF CountStream, ConnsType
      <3>3. CASE Uncount(c)      BY <3>3, CountedType DEF Uncount, ConnsType
      <3>4. CASE HeaderFails(c)  BY <3>4, CountedType DEF HeaderFails, ConnsType
      <3> QED BY <3>1, <3>2, <3>3, <3>4 DEF ConnsType
    <2>2. lost' \in [Phones -> 0..MaxLost]
      <3>1. CASE HeaderFails(c)
        <4>1. lost \in [Phones -> 0..MaxLost] /\ conn[c].phone \in Phones
          BY <3>1 DEF ConnsType, HeaderFails, At
        <4>2. lost[conn[c].phone] + 1 \in 0..MaxLost  BY <3>1, <4>1 DEF HeaderFails
        <4> QED BY <3>1, <4>1, <4>2 DEF HeaderFails
      <3>2. CASE ~HeaderFails(c)
        <4>1. lost' = lost
          BY <3>2 DEF Thread, serverVars, ReadGeneration, CheckRunning, NoRequest, Request,
                 PairRefused, Pair, PairFails, Paired, Tell, Authorize, CountStream, Reply,
                 LookRunning, AskGrant, WriteFrame, StreamBreaks, Uncount, Closes
        <4> QED BY <4>1 DEF ConnsType
      <3> QED BY <3>1, <3>2
    <2> QED BY <2>0, <2>1, <2>2, ThreadMoves DEF ConnsType
  <1> QED BY <1>1, <1>2, <1>3, <1>4

LEMMA TypesKept == ASSUME TypeOK, [Next]_vars PROVE TypeOK'
  <1>1. CASE Steered
    BY <1>1, SteeredServer, SteeredGrants, SteeredMade, SteeredConns DEF TypeOK
  <1>2. ASSUME NEW c \in Conns, Thread(c) PROVE TypeOK'  BY <1>2, ThreadType
  <1>3. CASE UNCHANGED vars
    BY <1>3 DEF vars, grantVars, madeVars, historyVars, TypeOK, ServerType, GrantsType, MadeType,
                ConnsType
  <1> QED BY <1>1, <1>2, <1>3 DEF Next, Steered

-----------------------------------------------------------------------------
(* What the steps do to the grants.                                        *)

\* A step that leaves the grants where they are, and takes none out of reach
\* or back.
GrantsStay ==
    /\ clients' = clients /\ file' = file /\ barred' = barred
    /\ withdrawn' \cup host'.took \subseteq withdrawn \cup host.took

LEMMA TakenAreTokens == ASSUME TypeOK PROVE \A t \in withdrawn \cup host.took : t \in Nat /\ t # 0
  <1>1. withdrawn \subseteq Tokens  BY DEF TypeOK, GrantsType
  <1>2. host.took \subseteq Tokens  BY DEF TypeOK, ServerType
  <1>3. \A t \in Tokens : t \in Nat /\ t # 0  BY DEF Tokens
  <1> QED BY <1>1, <1>2, <1>3

LEMMA SteeredGrantsStay ==
    ASSUME TypeOK, Taken, Steered
    PROVE  /\ granted' = granted /\ from' = from /\ known' = known
           /\ GrantsStay \/ Withdraw
  <1> USE DEF GrantsStay, grantVars, madeVars, historyVars, TypeOK, ServerType
  <1>1. CASE Calls
    BY <1>1 DEF Calls, Start, RefreshAddress, Invite, BeginStop, BeginRevoke, Call, Idle
  <1>2. CASE CallStep
    <2>1. CASE ShutSockets     BY <2>1 DEF ShutSockets, Idle
    <2>2. CASE Join            BY <2>2 DEF Join
    <2>3. CASE Withdraw
      <3>1. granted' = granted /\ from' = from /\ known' = known  BY <2>3 DEF Withdraw
      <3> QED BY <2>3, <3>1
    <2>4. CASE WithdrawFails   BY <2>4 DEF WithdrawFails, Idle
    <2>5. CASE KeepGrants      BY <2>5 DEF KeepGrants
    <2>6. CASE MoveGeneration  BY <2>6 DEF MoveGeneration
    <2>7. CASE ClearStreams
      <3>1. \/ host' = [host EXCEPT !.step = "shut"] /\ withdrawn' = withdrawn
            \/ host' = Idle /\ withdrawn' = withdrawn \cup host.took
        BY <2>7 DEF ClearStreams
      <3>2. [host EXCEPT !.step = "shut"].took = host.took /\ Idle.took = {}  BY DEF Idle
      <3>3. withdrawn' \cup host'.took \subseteq withdrawn \cup host.took  BY <3>1, <3>2
      <3> QED BY <2>7, <3>3 DEF ClearStreams
    <2> QED BY <1>2, <2>1, <2>2, <2>3, <2>4, <2>5, <2>6, <2>7 DEF CallStep
  <1>3. CASE Dies  BY <1>3 DEF Dies, Idle, Taken
  <1>4. CASE InvitationExpires \/ ListenerStep
    BY <1>4 DEF InvitationExpires, ListenerStep, Accept, Serve, TurnAway, AcceptsNone, ListenerEnds
  <1> QED BY <1>1, <1>2, <1>3, <1>4 DEF Steered

LEMMA ThreadGrantsStay ==
    ASSUME TypeOK, NEW c \in Conns, Thread(c)
    PROVE  /\ UNCHANGED <<stop, host, invited, barred, withdrawn>>
           /\ Pair(c) \/ UNCHANGED <<clients, file, granted, from>>
           /\ Tell(c) \/ known' = known
           /\ invitation' = NoInvitation \/ invitation' = invitation
  BY DEF Thread, serverVars, grantVars, ReadGeneration, CheckRunning, NoRequest, Request,
         PairRefused, Pair, PairFails, Paired, Tell, Authorize, CountStream, HeaderFails, Reply,
         LookRunning, AskGrant, WriteFrame, StreamBreaks, Uncount, Closes

\* The grant a pairing makes is a new one, and the only thing it changes of the
\* grants; the invitation it was made with is used up.
LEMMA PairMakes ==
    ASSUME TypeOK, Taken, NEW c \in Conns, Pair(c)
    PROVE  /\ conn[c].step = "pair" /\ conn[c].phone \in Phones
           /\ granted + 1 \in Tokens /\ granted' = granted + 1
           /\ clients'[conn[c].phone] = granted + 1 /\ file' = clients'
           /\ \A p \in Phones \ {conn[c].phone} : clients'[p] = clients[p]
           /\ from'[granted + 1] = invitation.id
           /\ \A t \in Tokens \ {granted + 1} : from'[t] = from[t]
           /\ invitation.id = conn[c].token /\ invitation'.id = 0
  <1>1. conn[c].step = "pair" /\ conn[c].phone \in Phones
    BY DEF Pair, Pairs, At, TypeOK, ConnsType
  <1>2. granted + 1 \in Tokens  BY DEF TypeOK, MadeType, Tokens, Pair, Grant
  <1>3. clients' = [clients EXCEPT ![conn[c].phone] = granted + 1] /\ clients \in [Phones -> 0..MaxGrants]
    BY DEF Pair, Grant, TypeOK, GrantsType, Grants
  <1>4. from' = [from EXCEPT ![granted + 1] = invitation.id] /\ from \in [Tokens -> 0..MaxInvitations]
    BY DEF Pair, Grant, TypeOK, GrantsType
  <1>5. file' = clients' /\ granted' = granted + 1 /\ invitation.id = conn[c].token /\ invitation'.id = 0
    BY DEF Pair, Pairs, Grant, NoInvitation
  <1> QED BY <1>1, <1>2, <1>3, <1>4, <1>5

LEMMA TakenKept == ASSUME TypeOK, Taken, [Next]_vars PROVE Taken'
  <1>1. CASE Steered
    <2>1. CASE GrantsStay
      BY <1>1, <2>1, SteeredGrantsStay DEF Taken, GrantsStay
    <2>2. CASE Withdraw
      <3>1. granted' = granted  BY <1>1, SteeredGrantsStay
      <3>2. clients' = NoGrants /\ file' = NoGrants /\ withdrawn' = withdrawn
        BY <2>2 DEF Withdraw
      <3>3. host'.took = {clients[p] : p \in Phones} \ {0}
        BY <2>2 DEF Withdraw, TypeOK, ServerType
      <3>4. 0 \notin withdrawn' \cup host'.took  BY <3>2, <3>3, TakenAreTokens
      <3>5. \A p \in Phones : clients'[p] = 0  BY <3>2 DEF NoGrants
      <3>6. granted \in Nat  BY DEF TypeOK, MadeType
      <3> QED BY <3>1, <3>2, <3>3, <3>4, <3>5, <3>6 DEF Taken
    <2> QED BY <1>1, <2>1, <2>2, SteeredGrantsStay
  <1>2. ASSUME NEW c \in Conns, Thread(c) PROVE Taken'
    <2>1. host' = host /\ withdrawn' = withdrawn  BY <1>2, ThreadGrantsStay
    <2>2. CASE Pair(c)
      <3>1. granted \in Nat  BY DEF TypeOK, MadeType
      <3>2. \A t \in withdrawn \cup host.took : t \in Nat  BY TakenAreTokens
      <3>3. \A p \in Phones : clients[p] \in Nat  BY GrantOrNone DEF Tokens
      <3> QED BY <2>1, <2>2, <3>1, <3>2, <3>3, PairMakes DEF Taken
    <2>3. CASE ~Pair(c)  BY <1>2, <2>1, <2>3, ThreadGrantsStay DEF Taken
    <2> QED BY <2>2, <2>3
  <1>3. CASE UNCHANGED vars
    BY <1>3 DEF vars, grantVars, madeVars, historyVars, Taken
  <1> QED BY <1>1, <1>2, <1>3 DEF Next, Steered

-----------------------------------------------------------------------------
(* What a connection's thread may turn to.                                 *)

Turns(c) ==
    LET k == conn[c].kind
        n == conn[c].token
        From(s) == conn[c].step = s
        To(s) == Moves(c, s, k, n)
    IN  \/ From("start") /\ To("check")
        \/ From("check") /\ ~stop /\ To("read")
        \/ From("read") /\ To("check")
        \/ From("read") /\ \E i \in 1..invited : Moves(c, "pair", "pair", i)
        \/ From("read") /\ \E q \in {"snapshot", "events"} :
                               Moves(c, "auth", q, known[conn[c].phone])
        \/ Pair(c) /\ From("pair") /\ Moves(c, "paired", k, granted + 1)
        \/ From("paired") /\ (To("count") \/ To("tell"))
        \/ From("auth") /\ Authorized(c) /\ To("count")
        \/ From("count") /\ k = "pair" /\ To("tell")
        \/ From("count") /\ k # "pair" /\ (To("reply") \/ To("look"))
        \/ From("look") /\ To("ask")
        \/ From("ask") /\ To("frame")
        \/ From("frame") /\ To("look")
        \/ conn[c].step \in {"look", "ask", "frame"} /\ To("uncount")
        \/ To("end")
        \/ conn'[c].step = "none"

LEMMA ThreadTurns == ASSUME TypeOK, NEW c \in Conns, Thread(c) PROVE Turns(c)
  <1> DEFINE To(s) == Moves(c, s, conn[c].kind, conn[c].token)
  <1>1. ASSUME NEW s \in Steps, Goes(c, s) PROVE To(s)  BY <1>1, GoesMoves
  <1>2. {"check", "read", "end", "tell", "count", "reply", "look", "ask", "frame", "uncount"}
            \subseteq Steps
    BY DEF Steps
  <1> HIDE DEF To
  <1>3. CASE ReadGeneration(c) \/ CheckRunning(c) \/ NoRequest(c)
    <2>1. \/ conn[c].step = "start" /\ To("check")
          \/ conn[c].step = "check" /\ ~stop /\ To("read")
          \/ conn[c].step = "read" /\ To("check")
          \/ To("end")
      BY <1>1, <1>2, <1>3 DEF ReadGeneration, CheckRunning, NoRequest, At
    <2> QED BY <2>1 DEF To, Turns
  <1>4. CASE Request(c)
    <2>1. conn[c].step = "read"  BY <1>4 DEF Request, At
    <2> QED BY <1>4, <2>1, RequestMoves DEF Turns
  <1>5. CASE Pair(c)
    <2>1. conn[c].step = "pair"  BY <1>5 DEF Pair, Pairs, At
    <2> QED BY <1>5, <2>1, PairMoves DEF Turns
  <1>6. CASE \/ PairRefused(c) \/ PairFails(c) \/ Tell(c) \/ HeaderFails(c) \/ Reply(c)
             \/ Uncount(c)
    <2>1. To("end")
      BY <1>1, <1>2, <1>6 DEF PairRefused, PairFails, Tell, HeaderFails, Reply, Uncount
    <2> QED BY <2>1 DEF To, Turns
  <1>7. CASE Paired(c) \/ Authorize(c)
    <2>1. \/ conn[c].step = "paired" /\ (To("count") \/ To("tell"))
          \/ conn[c].step = "auth" /\ Authorized(c) /\ To("count")
          \/ To("end")
      BY <1>1, <1>2, <1>7 DEF Paired, Authorize, At
    <2> QED BY <2>1 DEF To, Turns
  <1>8. CASE CountStream(c)
    <2>1. conn[c].step = "count"  BY <1>8 DEF CountStream, At
    <2>2. CASE conn[c].kind = "pair"
      <3>1. To("tell")  BY <1>1, <1>2, <1>8, <2>2 DEF CountStream
      <3> QED BY <2>1, <2>2, <3>1 DEF To, Turns
    <2>3. CASE conn[c].kind # "pair"
      <3>1. To("reply") \/ To("look")  BY <1>1, <1>2, <1>8, <2>3 DEF CountStream
      <3> QED BY <2>1, <2>3, <3>1 DEF To, Turns
    <2> QED BY <2>2, <2>3
  <1>9. CASE LookRunning(c) \/ AskGrant(c) \/ WriteFrame(c) \/ StreamBreaks(c)
    <2>1. \/ conn[c].step = "look" /\ To("ask")
          \/ conn[c].step = "ask" /\ To("frame")
          \/ conn[c].step = "frame" /\ To("look")
          \/ conn[c].step \in {"look", "ask", "frame"} /\ To("uncount")
      BY <1>1, <1>2, <1>9 DEF LookRunning, AskGrant, WriteFrame, StreamBreaks, At
    <2> QED BY <2>1 DEF To, Turns
  <1>10. CASE Closes(c)  BY <1>10, ClosesMoves DEF Turns
  <1> QED BY <1>3, <1>4, <1>5, <1>6, <1>7, <1>8, <1>9, <1>10 DEF Thread

-----------------------------------------------------------------------------
(* The rest of the invariant.                                              *)

LEMMA SteeredInvitations ==
    ASSUME TypeOK, Invited, Steered
    PROVE  \/ invitation'.id \in {0, invitation.id} /\ invited' = invited
           \/ invitation'.id = invited + 1 /\ invited' = invited + 1
  <1>1. invitation \in [id : 0..MaxInvitations, expired : BOOLEAN]  BY DEF TypeOK, MadeType
  <1>2. NoInvitation.id = 0  BY DEF NoInvitation
  <1>3. \/ (invitation' = invitation \/ invitation' = NoInvitation) /\ invited' = invited
        \/ invitation' = [invitation EXCEPT !.expired = TRUE] /\ invited' = invited
        \/ invitation' = [id |-> invited + 1, expired |-> FALSE] /\ invited' = invited + 1
    BY DEF Steered, Calls, CallStep, ListenerStep, Start, RefreshAddress, Invite, BeginStop,
           BeginRevoke, ShutSockets, Join, Withdraw, WithdrawFails, KeepGrants, MoveGeneration,
           ClearStreams, Dies, InvitationExpires, Accept, Serve, TurnAway, AcceptsNone,
           ListenerEnds,
           grantVars, madeVars
  <1> QED BY <1>1, <1>2, <1>3

LEMMA NumbersAreNat ==
    ASSUME TypeOK
    PROVE  /\ granted \in Nat /\ invited \in Nat /\ barred \in Nat /\ invitation.id \in Nat
           /\ \A t \in Tokens : t \in Nat /\ t # 0 /\ from[t] \in Nat
           /\ \A p \in Phones : known[p] \in Nat
           /\ \A p \in Phones : clients[p] # 0 => clients[p] \in Tokens
  <1>1. granted \in Nat /\ invited \in Nat /\ barred \in Nat /\ invitation.id \in Nat
    BY DEF TypeOK, MadeType
  <1>2. ASSUME NEW t \in Tokens PROVE t \in Nat /\ t # 0 /\ from[t] \in Nat
    BY DEF TypeOK, GrantsType, Tokens
  <1>3. ASSUME NEW p \in Phones PROVE known[p] \in Nat  BY DEF TypeOK, GrantsType
  <1> QED BY <1>1, <1>2, <1>3, GrantOrNone

LEMMA InvitedKept == ASSUME Inv, [Next]_vars PROVE Invited'
  <1> USE DEF Inv
  <1>1. CASE Steered
    <2>1. granted' = granted /\ from' = from  BY <1>1, SteeredGrantsStay
    <2>2. \/ barred' = barred
          \/ barred' = invited /\ invitation'.id = 0 /\ invited' = invited
      <3>1. CASE Withdraw  BY <3>1 DEF Withdraw, NoInvitation, madeVars
      <3>2. CASE GrantsStay  BY <3>2 DEF GrantsStay
      <3> QED BY <1>1, <3>1, <3>2, SteeredGrantsStay
    <2> QED BY <1>1, <2>1, <2>2, SteeredInvitations, NumbersAreNat DEF Invited
  <1>2. ASSUME NEW c \in Conns, Thread(c) PROVE Invited'
    <2>1. invited' = invited /\ barred' = barred  BY <1>2, ThreadGrantsStay
    <2>2. CASE Pair(c)
      <3>1. invitation.id # 0  BY <2>2, PairMakes DEF Promised
      <3> QED BY <2>1, <2>2, <3>1, PairMakes, NumbersAreNat DEF Invited
    <2>3. CASE ~Pair(c)
      <3>1. granted' = granted /\ from' = from  BY <1>2, <2>3, ThreadGrantsStay
      <3>2. invitation'.id \in {0, invitation.id}  BY <1>2, ThreadGrantsStay DEF NoInvitation
      <3> QED BY <2>1, <3>1, <3>2, NumbersAreNat DEF Invited
    <2> QED BY <2>2, <2>3
  <1>3. CASE UNCHANGED vars
    BY <1>3 DEF vars, grantVars, madeVars, historyVars, Invited
  <1> QED BY <1>1, <1>2, <1>3 DEF Next, Steered

\* With the same grant in memory and in the file, one case of two.
LEMMA OutKept == ASSUME Inv, [Next]_vars PROVE RevokedStayOut'
  <1> USE DEF Inv
  <1>1. CASE Steered
    <2>1. CASE GrantsStay
      BY <1>1, <2>1, SteeredGrantsStay DEF RevokedStayOut, GrantsStay
    <2>2. CASE Withdraw  BY <2>2 DEF Withdraw, NoGrants, RevokedStayOut
    <2> QED BY <1>1, <2>1, <2>2, SteeredGrantsStay
  <1>2. ASSUME NEW c \in Conns, Thread(c) PROVE RevokedStayOut'
    <2>1. barred' = barred  BY <1>2, ThreadGrantsStay
    <2>2. CASE Pair(c)
      <3>1. from'[granted + 1] > barred  BY <2>2, PairMakes DEF Promised, Invited
      <3>2. \A t \in Tokens : t <= granted => from'[t] = from[t]
        BY <2>2, PairMakes, NumbersAreNat
      <3>3. ASSUME NEW p \in Phones, clients'[p] # 0 PROVE from'[clients'[p]] > barred'
        <4>1. CASE p = conn[c].phone  BY <2>1, <2>2, <3>1, <4>1, PairMakes
        <4>2. CASE p # conn[c].phone
          <5>1. clients'[p] = clients[p] /\ clients[p] \in Tokens /\ clients[p] <= granted
            BY <2>2, <3>3, <4>2, PairMakes, NumbersAreNat DEF Taken
          <5> QED BY <2>1, <3>2, <3>3, <5>1 DEF RevokedStayOut
        <4> QED BY <4>1, <4>2
      <3> QED BY <2>2, <3>3, PairMakes DEF RevokedStayOut
    <2>3. CASE ~Pair(c)  BY <1>2, <2>1, <2>3, ThreadGrantsStay DEF RevokedStayOut
    <2> QED BY <2>2, <2>3
  <1>3. CASE UNCHANGED vars
    BY <1>3 DEF vars, grantVars, madeVars, historyVars, RevokedStayOut
  <1> QED BY <1>1, <1>2, <1>3 DEF Next, Steered

\* What held of a grant goes on holding: it is kept, or a revocation takes it.
LEMMA HoldsOn ==
    ASSUME Inv, [Next]_vars, NEW p \in Phones, NEW t \in Tokens, Holds(p, t)
    PROVE  Holds(p, t)'
  <1> USE DEF Inv
  <1>1. t <= granted  BY DEF Holds
  <1>2. CASE Steered
    <2>1. granted' = granted /\ from' = from  BY <1>2, SteeredGrantsStay
    <2>2. CASE GrantsStay  BY <2>1, <2>2 DEF GrantsStay, Holds
    <2>3. CASE Withdraw
      <3>1. barred' = invited /\ from[t] <= invited  BY <2>3 DEF Withdraw, Invited
      <3> QED BY <1>1, <2>1, <3>1 DEF Holds
    <2> QED BY <1>2, <2>2, <2>3, SteeredGrantsStay
  <1>3. ASSUME NEW c \in Conns, Thread(c) PROVE Holds(p, t)'
    <2>1. barred' = barred  BY <1>3, ThreadGrantsStay
    <2>2. CASE Pair(c)
      <3>1. t # granted + 1 /\ t <= granted + 1  BY <1>1, NumbersAreNat
      <3>2. from'[t] = from[t] /\ granted' = granted + 1  BY <2>2, <3>1, PairMakes
      <3>3. file[p] >= t => file'[p] >= t
        <4>1. CASE p = conn[c].phone  BY <2>2, <3>1, <4>1, PairMakes
        <4>2. CASE p # conn[c].phone  BY <2>2, <4>2, PairMakes DEF Taken
        <4> QED BY <4>1, <4>2
      <3> QED BY <2>1, <3>1, <3>2, <3>3 DEF Holds
    <2>3. CASE ~Pair(c)  BY <1>3, <2>1, <2>3, ThreadGrantsStay DEF Holds
    <2> QED BY <2>2, <2>3
  <1>4. CASE UNCHANGED vars
    BY <1>4 DEF vars, grantVars, madeVars, historyVars, Holds
  <1> QED BY <1>2, <1>3, <1>4 DEF Next, Steered

\* The second half of Promised, for one connection.
TellsTrue(c) ==
    /\ conn[c].step \in {"pair", "paired", "tell"} => conn[c].kind = "pair"
    /\ conn[c].step = "pair" => conn[c].token > 0
    /\ conn[c].step = "auth" => conn[c].kind # "pair"
    /\ conn[c].step \in {"paired", "tell"} \/ (conn[c].step = "count" /\ conn[c].kind = "pair")
          => conn[c].token \in Tokens /\ Holds(conn[c].phone, conn[c].token)

\* What stays of a connection when only its flags change.
LEMMA SameConn ==
    ASSUME Inv, [Next]_vars, NEW c \in Conns,
           \/ conn'[c].step = "none"
           \/ /\ conn'[c].step = conn[c].step /\ conn'[c].kind = conn[c].kind
              /\ conn'[c].token = conn[c].token /\ conn'[c].phone = conn[c].phone
    PROVE  TellsTrue(c)'
  <1>1. CASE conn'[c].step = "none"  BY <1>1 DEF TellsTrue
  <1>2. CASE conn'[c].step # "none"
    <2>1. conn[c].phone \in Phones  BY <1>2 DEF Inv, TypeOK, ConnsType
    <2>2. TellsTrue(c)  BY DEF Inv, Promised, TellsTrue
    <2>3. \A p \in Phones, t \in Tokens : Holds(p, t) => Holds(p, t)'  BY HoldsOn
    <2> QED BY <1>2, <2>1, <2>2, <2>3 DEF TellsTrue, Holds
  <1> QED BY <1>1, <1>2

LEMMA SteeredTellsTrue ==
    ASSUME Inv, Steered, NEW c \in Conns
    PROVE  TellsTrue(c)'
  <1>0. [Next]_vars  BY DEF Next, Steered
  <1>1. CASE conn' = conn  BY <1>0, <1>1, SameConn
  <1>2. CASE conn' = Staled  BY <1>0, <1>2, SameConn, StaledKeeps DEF Inv
  <1>3. CASE conn' = ShutAll  BY <1>0, <1>3, SameConn, StaledKeeps DEF Inv
  <1>4. CASE conn' = [d \in Conns |-> NoConn]
    <2>1. conn'[c].step = "none"  BY <1>4 DEF NoConn
    <2> QED BY <1>0, <2>1, SameConn
  <1>5. ASSUME NEW d \in Conns, NEW p \in Phones, Serve(d, p) PROVE TellsTrue(c)'
    <2> DEFINE t == [NoConn EXCEPT !.step = "start", !.phone = p]
    <2>1. t.step = "start" /\ conn' = [conn EXCEPT ![d] = t]  BY <1>5, ServeMoves DEF Inv
    <2> HIDE DEF t
    <2>2. conn \in [Conns -> Threads]  BY DEF Inv, TypeOK, ConnsType
    <2>3. CASE c = d
      <3>1. conn'[c].step = "start"  BY <2>1, <2>2, <2>3
      <3> QED BY <3>1 DEF TellsTrue
    <2>4. CASE c # d
      <3>1. conn'[c] = conn[c]  BY <2>1, <2>2, <2>4
      <3> QED BY <1>0, <3>1, SameConn
    <2> QED BY <2>3, <2>4
  <1> QED BY <1>1, <1>2, <1>3, <1>4, <1>5, SteeredMoves DEF Inv

LEMMA ThreadTellsTrue ==
    ASSUME Inv, NEW d \in Conns, Thread(d), NEW c \in Conns
    PROVE  TellsTrue(c)'
  <1>0. [Next]_vars  BY DEF Next
  <1>1. CASE c # d
    <2>1. conn'[c] = conn[c]  BY <1>1, ThreadMoves DEF Inv
    <2> QED BY <1>0, <2>1, SameConn
  <1>2. CASE c = d
    <2>1. Turns(c)  BY <1>2, ThreadTurns DEF Inv
    <2>2. TellsTrue(c)  BY DEF Inv, Promised, TellsTrue
    <2>3. conn[c].phone \in Phones  BY <1>2, ThreadMoves DEF Inv, TypeOK, ConnsType
    <2>4. \A p \in Phones, t \in Tokens : Holds(p, t) => Holds(p, t)'  BY <1>0, HoldsOn
    <2>5. CASE conn'[c].step \in {"none", "check", "read", "reply", "look", "ask", "frame",
                                  "uncount", "end"}
      BY <2>5 DEF TellsTrue
    <2>6. CASE \E i \in 1..invited : Moves(c, "pair", "pair", i)
      <3>1. conn'[c].step = "pair" /\ conn'[c].kind = "pair" /\ conn'[c].token > 0
        BY <2>6 DEF Moves
      <3> QED BY <3>1 DEF TellsTrue
    <2>7. CASE \E q \in {"snapshot", "events"} : Moves(c, "auth", q, known[conn[c].phone])
      BY <2>7 DEF Moves, TellsTrue
    <2>8. CASE Pair(c) /\ conn[c].step = "pair" /\ Moves(c, "paired", conn[c].kind, granted + 1)
      <3>1. /\ conn'[c].step = "paired" /\ conn'[c].kind = "pair"
            /\ conn'[c].token = granted + 1 /\ conn'[c].phone = conn[c].phone
        BY <2>2, <2>8 DEF Moves, TellsTrue
      <3>2. file'[conn[c].phone] = granted + 1 /\ granted' = granted + 1 /\ granted + 1 \in Tokens
        BY <2>8, PairMakes DEF Inv
      <3>3. granted + 1 \in Nat  BY <3>2, NumbersAreNat DEF Inv
      <3> QED BY <3>1, <3>2, <3>3 DEF TellsTrue, Holds
    <2>9. CASE /\ conn[c].step = "paired"
               /\ \/ Moves(c, "count", conn[c].kind, conn[c].token)
                  \/ Moves(c, "tell", conn[c].kind, conn[c].token)
      <3>1. /\ conn[c].kind = "pair" /\ conn[c].token \in Tokens
            /\ Holds(conn[c].phone, conn[c].token)
        BY <2>2, <2>9 DEF TellsTrue
      <3> QED BY <2>3, <2>4, <2>9, <3>1 DEF TellsTrue, Moves, Holds
    <2>10. CASE conn[c].step = "auth" /\ Moves(c, "count", conn[c].kind, conn[c].token)
      BY <2>2, <2>10 DEF TellsTrue, Moves
    <2>11. CASE /\ conn[c].step = "count" /\ conn[c].kind = "pair"
                /\ Moves(c, "tell", conn[c].kind, conn[c].token)
      <3>1. conn[c].token \in Tokens /\ Holds(conn[c].phone, conn[c].token)
        BY <2>2, <2>11 DEF TellsTrue
      <3> QED BY <2>3, <2>4, <2>11, <3>1 DEF TellsTrue, Moves, Holds
    <2> QED BY <2>1, <2>5, <2>6, <2>7, <2>8, <2>9, <2>10, <2>11 DEF Turns, Moves
  <1> QED BY <1>1, <1>2

LEMMA PromisedKept == ASSUME Inv, [Next]_vars PROVE Promised'
  <1>1. ASSUME NEW c \in Conns PROVE TellsTrue(c)'
    <2>1. CASE Steered  BY <2>1, SteeredTellsTrue
    <2>2. ASSUME NEW d \in Conns, Thread(d) PROVE TellsTrue(c)'  BY <2>2, ThreadTellsTrue
    <2>3. CASE UNCHANGED vars
      <3>1. conn'[c] = conn[c]  BY <2>3 DEF vars
      <3> QED BY <3>1, SameConn
    <2> QED BY <2>1, <2>2, <2>3 DEF Next, Steered
  <1>2. ASSUME NEW p \in Phones, known'[p] # 0 PROVE Holds(p, known[p])'
    <2>1. known[p] # 0 => known[p] \in Tokens
      PROOF BY NumbersAreNat DEF Inv, Promised, Holds, Tokens, TypeOK, MadeType
    <2>2. \A t \in Tokens : Holds(p, t) => Holds(p, t)'  BY HoldsOn
    <2>3. CASE known' = known
      BY <1>2, <2>1, <2>2, <2>3 DEF Inv, Promised, Holds
    <2>4. ASSUME NEW c \in Conns, Tell(c), known' # known PROVE Holds(p, known[p])'
      <3>1. known \in [Phones -> Nat]  BY DEF Inv, TypeOK, GrantsType
      <3>2. known' = [known EXCEPT ![conn[c].phone] = conn[c].token] /\ conn[c].step = "tell"
        BY <2>4 DEF Tell, At
      <3>3. conn[c].token \in Tokens /\ Holds(conn[c].phone, conn[c].token)
        BY <3>2 DEF Inv, Promised
      <3>4. CASE p = conn[c].phone
        <4>1. known'[p] = conn[c].token  BY <3>1, <3>2, <3>4
        <4> QED BY <2>2, <3>3, <3>4, <4>1 DEF Holds
      <3>5. CASE p # conn[c].phone
        <4>1. known'[p] = known[p]  BY <3>1, <3>2, <3>5
        <4> QED BY <1>2, <2>1, <2>2, <4>1 DEF Inv, Promised, Holds
      <3> QED BY <3>4, <3>5
    <2>5. known' = known \/ \E c \in Conns : Tell(c)
      <3>1. CASE Steered  BY <3>1, SteeredGrantsStay DEF Inv
      <3>2. ASSUME NEW c \in Conns, Thread(c) PROVE known' = known \/ Tell(c)
        BY <3>2, ThreadGrantsStay DEF Inv
      <3>3. CASE UNCHANGED vars  BY <3>3 DEF vars
      <3> QED BY <3>1, <3>2, <3>3 DEF Next, Steered
    <2> QED BY <2>3, <2>4, <2>5
  <1> QED BY <1>1, <1>2 DEF Promised, TellsTrue

LEMMA OnceKept == ASSUME Inv, Promised', [Next]_vars PROVE PairedOnce'
  <1> USE DEF Inv
  <1>1. ASSUME NEW s \in Tokens, NEW t \in Tokens, from'[s] = from'[t], from'[s] # 0
        PROVE  s = t
    <2>1. CASE from' = from  BY <1>1, <2>1 DEF PairedOnce
    <2>2. ASSUME NEW c \in Conns, Pair(c) PROVE s = t
      <3>1. from'[granted + 1] = invitation.id
            /\ \A u \in Tokens \ {granted + 1} : from'[u] = from[u] /\ from[u] # invitation.id
        BY <2>2, PairMakes, <1>1 DEF Invited, Promised
      <3> QED BY <1>1, <3>1 DEF PairedOnce
    <2>3. CASE Steered  BY <2>1, <2>3, SteeredGrantsStay
    <2>4. ASSUME NEW c \in Conns, Thread(c) PROVE s = t  BY <2>1, <2>2, <2>4, ThreadGrantsStay
    <2>5. CASE UNCHANGED vars  BY <2>1, <2>5 DEF vars, historyVars
    <2> QED BY <2>3, <2>4, <2>5 DEF Next, Steered
  <1> QED BY <1>1 DEF PairedOnce, Promised, Holds

LEMMA IdleIs == Idle.call = "none" /\ Idle.step = "idle"
  BY DEF Idle

LEMMA CallsAreNamed == ASSUME Inv, host.step # "idle" PROVE host.call # "none"
  BY IdleIs DEF Inv, Stopped

\* The steps of a call: only ShutSockets leaves the step that shuts.
LEMMA SteeredStops ==
    ASSUME Inv, Steered
    PROVE  Stopped'
  <1> USE DEF Inv, Stopped
  <1>0. \A s \in {"shut", "join", "credentials", "move", "streams"} :
            LET h == [host EXCEPT !.step = s] IN h.call = host.call /\ h.step = s
    BY DEF TypeOK, ServerType
  <1>1. CASE Calls
    <2>1. CASE Start
      <3>1. stop' = FALSE /\ host' = host /\ host = Idle  BY <2>1 DEF Start
      <3> QED BY <3>1 DEF Idle
    <2>2. CASE RefreshAddress \/ Invite
      <3>1. UNCHANGED <<stop, host, conn>>  BY <2>2 DEF RefreshAddress, Invite
      <3> QED BY <3>1
    <2>3. CASE BeginStop
      <3>1. PICK call \in {"stop", "stop and revoke"} : Call(call, "shut")  BY <2>3 DEF BeginStop
      <3>2. host'.call = call /\ host'.step = "shut"  BY <3>1 DEF Call, Idle
      <3>3. stop'  BY <2>3 DEF BeginStop
      <3> QED BY <3>2, <3>3
    <2>4. CASE BeginRevoke
      <3>1. host = Idle /\ host'.call = "revoke" /\ host'.step = "credentials"
        BY <2>4 DEF BeginRevoke, Call, Idle
      <3>2. conn' = conn /\ stop' = stop  BY <2>4 DEF BeginRevoke
      <3> QED BY <3>1, <3>2 DEF Idle
    <2> QED BY <1>1, <2>1, <2>2, <2>3, <2>4 DEF Calls
  <1>2. CASE CallStep
    <2>0. host.step # "idle"
      BY <1>2 DEF CallStep, ShutSockets, Join, Withdraw, WithdrawFails, KeepGrants, MoveGeneration,
                  ClearStreams
    <2>1. CASE ShutSockets
      <3>1. conn' = ShutAll /\ stop' = stop  BY <2>1 DEF ShutSockets
      <3>2. \A c \in Conns : conn'[c].shut \/ conn'[c].step = "none"  BY <3>1, StaledKeeps
      <3>3. host' = Idle \/ (host'.call = host.call /\ host'.step = "join")
        BY <1>0, <2>1 DEF ShutSockets
      <3> QED BY <2>0, <3>1, <3>2, <3>3, CallsAreNamed, IdleIs
    <2>2. ASSUME ~ShutSockets
          PROVE  /\ stop' = stop /\ (conn' = conn \/ conn' = Staled)
                 /\ host.call # "revoke" => host.step # "shut"
                 /\ \/ host' = Idle
                    \/ /\ host'.call = host.call /\ host'.step # "idle"
                       /\ host'.step = "shut" => host.call = "revoke"
      <3>1. CASE Join            BY <1>0, <3>1 DEF Join
      <3>2. CASE Withdraw
        <4>1. \E s \in {"move", "streams"} : host'.step = s /\ host'.call = host.call
          BY <3>2 DEF Withdraw, TypeOK, ServerType
        <4> QED BY <3>2, <4>1 DEF Withdraw
      <3>3. CASE WithdrawFails   BY <3>3 DEF WithdrawFails
      <3>4. CASE KeepGrants      BY <1>0, <3>4 DEF KeepGrants
      <3>5. CASE MoveGeneration  BY <1>0, <3>5 DEF MoveGeneration
      <3>6. CASE ClearStreams    BY <1>0, <3>6 DEF ClearStreams
      <3> QED BY <1>2, <2>2, <3>1, <3>2, <3>3, <3>4, <3>5, <3>6 DEF CallStep
    <2>3. ASSUME ~ShutSockets, NEW c \in Conns
          PROVE  conn'[c].shut = conn[c].shut /\ conn'[c].step = conn[c].step
      BY <2>2, <2>3, StaledKeeps
    <2>4. CASE ~ShutSockets
      <3>1. stop => \A c \in Conns :
                conn[c].shut \/ conn[c].step \in {"none", "start", "check", "end"}
        BY <2>2, <2>4
      <3>2. stop' => \A c \in Conns :
                conn'[c].shut \/ conn'[c].step \in {"none", "start", "check", "end"}
        BY <2>2, <2>3, <2>4, <3>1
      <3> QED BY <2>0, <2>2, <2>4, <3>2, CallsAreNamed, IdleIs
    <2> QED BY <2>1, <2>4
  <1>3. CASE Dies
    <2>1. NoConn.step = "none"  BY DEF NoConn
    <2>2. host' = Idle /\ conn' = [c \in Conns |-> NoConn]  BY <1>3 DEF Dies
    <2> QED BY <2>1, <2>2 DEF Idle
  <1>4. CASE InvitationExpires  BY <1>4 DEF InvitationExpires
  <1>5. CASE ListenerStep
    <2>1. stop' = stop /\ host' = host
      BY <1>5 DEF ListenerStep, Accept, Serve, TurnAway, AcceptsNone, ListenerEnds
    <2>2. ASSUME NEW d \in Conns, NEW p \in Phones, Serve(d, p), NEW c \in Conns
          PROVE  conn'[c].step = "start" \/ conn'[c] = conn[c]
      <3> DEFINE t == [NoConn EXCEPT !.step = "start", !.phone = p]
      <3>1. t.step = "start" /\ conn' = [conn EXCEPT ![d] = t]  BY <2>2, ServeMoves
      <3> HIDE DEF t
      <3>2. conn \in [Conns -> Threads]  BY DEF TypeOK, ConnsType
      <3> QED BY <3>1, <3>2
    <2>3. ASSUME \A d \in Conns, p \in Phones : ~Serve(d, p) PROVE conn' = conn
      BY <1>5, <2>3 DEF ListenerStep, Accept, TurnAway, AcceptsNone, ListenerEnds
    <2>4. \A c \in Conns : conn'[c].step = "start" \/ conn'[c] = conn[c]  BY <2>2, <2>3
    <2> QED BY <2>1, <2>4
  <1> QED BY <1>1, <1>2, <1>3, <1>4, <1>5 DEF Steered

LEMMA StoppedKept == ASSUME Inv, [Next]_vars PROVE Stopped'
  <1>1. CASE Steered  BY <1>1, SteeredStops
  <1>2. ASSUME NEW c \in Conns, Thread(c) PROVE Stopped'
    <2>1. stop' = stop /\ host' = host  BY <1>2, ThreadGrantsStay DEF Inv
    <2>2. \A d \in Conns \ {c} : conn'[d] = conn[d]  BY <1>2, ThreadMoves DEF Inv
    <2>3. conn'[c].step = "none" \/ conn'[c].shut = conn[c].shut  BY <1>2, ThreadMoves DEF Inv
    <2>4. stop /\ conn[c].step \in {"none", "start", "check", "end"}
             => conn'[c].step \in {"none", "check", "end"}
      BY <1>2, ThreadTurns, PairMakes DEF Inv, Turns, Moves
    <2> QED BY <2>1, <2>2, <2>3, <2>4 DEF Inv, Stopped
  <1>3. CASE UNCHANGED vars  BY <1>3 DEF vars, Inv, Stopped
  <1> QED BY <1>1, <1>2, <1>3 DEF Next, Steered

\* Of a connection past its request, a token that was taken is shown in vain.
LEMMA EndedKept == ASSUME Inv, Stopped', [Next]_vars PROVE Ended'
  <1> USE DEF Inv
  <1>1. CASE Steered
    <2> SUFFICES ASSUME NEW c \in Conns, Served(c)' PROVE (conn[c].token \notin withdrawn)'
      BY DEF Ended
    <2>1. conn'[c].step \in {"count", "reply", "look", "ask", "frame"} /\ ~conn'[c].shut
      BY DEF Served
    <2>2. conn' # ShutAll
      <3>1. CASE conn' = ShutAll  BY <2>1, <3>1, StaledKeeps
      <3> QED BY <3>1
    <2>3. Served(c) /\ conn'[c].token = conn[c].token
      <3>1. CASE conn' = conn  BY <3>1 DEF Served
      <3>2. CASE conn' = Staled  BY <3>2, StaledKeeps DEF Served
      <3>3. CASE conn' = [d \in Conns |-> NoConn]
        <4>1. conn'[c].step = "none"  BY <3>3 DEF NoConn
        <4> QED BY <2>1, <4>1
      <3>4. ASSUME NEW d \in Conns, NEW p \in Phones, Serve(d, p)
            PROVE  Served(c) /\ conn'[c].token = conn[c].token
        <4> DEFINE t == [NoConn EXCEPT !.step = "start", !.phone = p]
        <4>1. t.step = "start" /\ conn' = [conn EXCEPT ![d] = t]  BY <3>4, ServeMoves
        <4> HIDE DEF t
        <4>2. conn \in [Conns -> Threads]  BY DEF TypeOK, ConnsType
        <4>3. conn'[c] = conn[c]  BY <2>1, <4>1, <4>2
        <4> QED BY <4>3 DEF Served
      <3> QED BY <1>1, <2>2, <3>1, <3>2, <3>3, <3>4, SteeredMoves
    <2>4. CASE withdrawn' = withdrawn  BY <2>3, <2>4 DEF Ended
    <2>5. CASE ShutSockets  BY <2>2, <2>5 DEF ShutSockets
    <2>6. CASE ClearStreams /\ host.call # "revoke"
      <3>1. conn' = conn /\ host.step = "streams"  BY <2>6 DEF ClearStreams
      <3>2. host.call \in {"none", "stop", "stop and revoke", "revoke"}  BY DEF TypeOK, ServerType
      <3>3. CASE host.call = "none"
        BY <3>1, <3>3, CallsAreNamed
      <3>4. CASE host.call # "none"
        <4>1. stop  BY <2>6, <3>2, <3>4 DEF Stopped
        <4> QED BY <2>3, <3>1, <4>1 DEF Stopped, Served
      <3> QED BY <3>3, <3>4
    <2>7. withdrawn' = withdrawn \/ ShutSockets \/ (ClearStreams /\ host.call # "revoke")
      BY <1>1 DEF Steered, Calls, CallStep, ListenerStep, Start, RefreshAddress, Invite, BeginStop,
           BeginRevoke, Join, Withdraw, WithdrawFails, KeepGrants, MoveGeneration,
           ClearStreams, Dies, InvitationExpires, Accept, Serve, TurnAway, AcceptsNone,
           ListenerEnds,
           historyVars
    <2> QED BY <2>4, <2>5, <2>6, <2>7
  <1>2. ASSUME NEW c \in Conns, Thread(c) PROVE Ended'
    <2>1. withdrawn' = withdrawn  BY <1>2, ThreadGrantsStay
    <2>2. ASSUME NEW d \in Conns \ {c} PROVE (Served(d) => conn[d].token \notin withdrawn)'
      <3>1. conn'[d] = conn[d]  BY <1>2, ThreadMoves
      <3> QED BY <2>1, <3>1 DEF Ended, Served
    <2>3. (Served(c) => conn[c].token \notin withdrawn)'
      <3> SUFFICES ASSUME Served(c)' PROVE (conn[c].token \notin withdrawn)'
        OBVIOUS
      <3>1. /\ conn'[c].step \in {"count", "reply", "look", "ask", "frame"}
            /\ conn'[c].kind # "pair" /\ ~conn'[c].shut
        BY DEF Served
      <3>2. \/ conn[c].step \in {"count", "look", "ask", "frame"}
            \/ conn[c].step = "auth" /\ Authorized(c)
            \/ conn[c].step = "paired" /\ conn[c].kind = "pair"
        BY <1>2, <3>1, ThreadTurns DEF Turns, Moves, Promised
      <3>3. conn'[c].kind = conn[c].kind /\ conn'[c].token = conn[c].token /\ conn'[c].shut = conn[c].shut
        BY <1>2, <3>1, ThreadTurns DEF Turns, Moves
      <3>4. CASE conn[c].step \in {"count", "look", "ask", "frame"}
        BY <2>1, <3>1, <3>3, <3>4 DEF Ended, Served
      <3>5. CASE Authorized(c)
        BY <2>1, <3>3, <3>5 DEF Authorized, Taken
      <3> QED BY <3>1, <3>2, <3>3, <3>4, <3>5
    <2> QED BY <2>2, <2>3 DEF Ended
  <1>3. CASE UNCHANGED vars  BY <1>3 DEF vars, historyVars, Ended, Served
  <1> QED BY <1>1, <1>2, <1>3 DEF Next, Steered

LEMMA InvKept == ASSUME Inv, [Next]_vars PROVE Inv'
  <1>1. TypeOK' /\ Taken'  BY TypesKept, TakenKept DEF Inv
  <1>2. Stopped'  BY StoppedKept
  <1>3. Ended'    BY <1>2, EndedKept
  <1>4. Promised' BY PromisedKept
  <1>5. PairedOnce'  BY <1>4, OnceKept
  <1> QED BY <1>1, <1>2, <1>3, <1>4, <1>5, InvitedKept, OutKept DEF Inv

\* The invariant holds throughout every behaviour of the server.
THEOREM Invariant == Spec => []Inv
  BY InitInv, InvKept, PTL DEF Spec

-----------------------------------------------------------------------------
(* What follows for the specification.                                     *)

\* Every variable keeps its type, for any number of phones, connections and
\* grants (server.rs, credentials.rs).
THEOREM TypeCorrect == Spec => []TypeOK
  <1>1. Inv => TypeOK  BY DEF Inv
  <1> QED BY <1>1, Invariant, PTL

\* Once a revocation has returned nobody is served on the strength of a grant
\* it took, and once a stop has nobody is served at all (server/pairing.rs,
\* `revoke`; server.rs, `stop`).
THEOREM RevokedServeNobody == Spec => []RevokedGetsNothing
  <1>1. ASSUME Inv PROVE RevokedGetsNothing
    <2> SUFFICES ASSUME NEW c \in Conns, Served(c)
                 PROVE  conn[c].token \notin withdrawn /\ ~(stop /\ host = Idle)
      BY DEF RevokedGetsNothing
    <2>1. conn[c].token \notin withdrawn  BY <1>1 DEF Inv, Ended
    <2>2. ~(stop /\ host = Idle)  BY <1>1, IdleIs DEF Inv, Stopped, Served
    <2> QED BY <2>1, <2>2
  <1> QED BY <1>1, Invariant, PTL

\* No grant older than the last revocation, or made with an invitation from
\* before it, is ever held or saved (credentials.rs, `revoke` and `pair`).
THEOREM WithdrawnStayOut == Spec => []RevokedStayOut
  <1>1. Inv => RevokedStayOut  BY DEF Inv
  <1> QED BY <1>1, Invariant, PTL

\* An invitation pairs one phone, and what a phone was told holds after any
\* crash until it is revoked or replaced (credentials.rs, `pair`).
THEOREM PairsOnce == Spec => []PairedOnce
  <1>1. Inv => PairedOnce  BY DEF Inv
  <1> QED BY <1>1, Invariant, PTL

-----------------------------------------------------------------------------
(* The streams that are counted.                                           *)

\* The threads that will take a stream of p off the count.
Counted(p) == {c \in Conns : /\ conn[c].phone = p /\ conn[c].kind = "events"
                             /\ conn[c].step \in {"look", "ask", "frame", "uncount"}}

LEMMA PartIsFinite ==
    ASSUME NEW S \in SUBSET Conns
    PROVE  IsFiniteSet(S) /\ Cardinality(S) \in Nat
  BY FS_Subset, FS_CardinalityType

\* No stream more is counted, and no thread of a stream is gone.
LEMMA NoStreamMore ==
    ASSUME TypeOK, StreamsAreThere, lost' \in [Phones -> 0..MaxLost],
           \A p \in Phones :
               \/ streams'[p] = 0
               \/ /\ streams'[p] = streams[p] /\ lost'[p] = lost[p]
                  /\ Counted(p) \subseteq Counted(p)'
    PROVE  StreamsAreThere'
  <1> SUFFICES ASSUME NEW p \in Phones PROVE streams'[p] <= lost'[p] + Cardinality(Counted(p)')
    BY DEF StreamsAreThere, Counted
  <1>1. /\ IsFiniteSet(Counted(p)') /\ Cardinality(Counted(p)') \in Nat
        /\ Cardinality(Counted(p)) \in Nat
    <2>1. Counted(p)' \subseteq Conns /\ Counted(p) \subseteq Conns  BY DEF Counted
    <2> QED BY <2>1, PartIsFinite
  <1>2. streams[p] \in Nat /\ lost[p] \in Nat /\ lost'[p] \in Nat  BY DEF TypeOK, ConnsType
  <1>3. CASE streams'[p] = 0  BY <1>1, <1>2, <1>3
  <1>4. CASE /\ streams'[p] = streams[p] /\ lost'[p] = lost[p]
             /\ Counted(p) \subseteq Counted(p)'
    <2>1. streams[p] <= lost[p] + Cardinality(Counted(p))  BY DEF StreamsAreThere, Counted
    <2>2. Cardinality(Counted(p)) <= Cardinality(Counted(p)')  BY <1>1, <1>4, FS_Subset
    <2> QED BY <1>1, <1>2, <1>4, <2>1, <2>2
  <1> QED BY <1>3, <1>4

LEMMA SteeredStreams == ASSUME TypeOK, StreamsAreThere, Steered PROVE StreamsAreThere'
  <1>0. lost' \in [Phones -> 0..MaxLost]  BY SteeredConns DEF ConnsType
  <1>1. \A p \in Phones : \/ streams'[p] = 0
                          \/ streams'[p] = streams[p] /\ lost'[p] = lost[p] /\ ~Dies
    BY DEF Steered, Calls, CallStep, ListenerStep, Start, RefreshAddress, Invite, BeginStop,
           BeginRevoke, ShutSockets, Join, Withdraw, WithdrawFails, KeepGrants, MoveGeneration,
           ClearStreams, Dies, InvitationExpires, Accept, Serve, TurnAway, AcceptsNone,
           ListenerEnds, historyVars
  <1>2. CASE Dies  BY <1>0, <1>1, <1>2, NoStreamMore
  <1>3. CASE ~Dies
    <2>1. \/ conn' = conn \/ conn' = Staled \/ conn' = ShutAll
          \/ \E c \in Conns, p \in Phones : Serve(c, p)
      BY <1>3 DEF Steered, Calls, CallStep, ListenerStep, Start, RefreshAddress, Invite,
             BeginStop, BeginRevoke, ShutSockets, Join, Withdraw, WithdrawFails, KeepGrants,
             MoveGeneration, ClearStreams, InvitationExpires, Accept, TurnAway, AcceptsNone,
             ListenerEnds
    <2>2. ASSUME NEW p \in Phones, NEW c \in Counted(p) PROVE c \in Counted(p)'
      <3>1. c \in Conns /\ conn[c].step # "none"  BY DEF Counted
      <3>2. CASE conn' = conn  BY <3>2 DEF Counted
      <3>3. CASE conn' = Staled \/ conn' = ShutAll  BY <3>1, <3>3, StaledKeeps DEF Counted
      <3>4. ASSUME NEW d \in Conns, NEW q \in Phones, Serve(d, q) PROVE c \in Counted(p)'
        <4>1. conn[d].step = "none"  BY <3>4 DEF Serve
        <4>2. conn'[c] = conn[c]  BY <3>1, <3>4, <4>1 DEF Serve, TypeOK, ConnsType
        <4> QED BY <4>2 DEF Counted
      <3> QED BY <2>1, <3>2, <3>3, <3>4
    <2> QED BY <1>0, <1>1, <2>2, NoStreamMore
  <1> QED BY <1>2, <1>3

LEMMA CountedStream ==
    ASSUME TypeOK, StreamsAreThere, NEW c \in Conns, CountStream(c), conn[c].kind = "events"
    PROVE  StreamsAreThere'
  <1> SUFFICES ASSUME NEW p \in Phones PROVE streams'[p] <= lost'[p] + Cardinality(Counted(p)')
    BY DEF StreamsAreThere, Counted
  <1>1. streams \in [Phones -> Nat] /\ streams[p] <= lost[p] + Cardinality(Counted(p))
    BY DEF TypeOK, ConnsType, StreamsAreThere, Counted
  <1>2. Counted(p) \subseteq Conns  BY DEF Counted
  <1>3. IsFiniteSet(Counted(p)) /\ Cardinality(Counted(p)) \in Nat  BY <1>2, PartIsFinite
  <1>4. c \notin Counted(p)  BY DEF CountStream, At, Counted
  <1>5. Moves(c, "look", "events", conn[c].token)
    <2>1. Goes(c, "look") /\ "look" \in Steps  BY DEF CountStream, Steps
    <2> QED BY <2>1, GoesMoves
  <1>6. Counted(p)' = IF conn[c].phone = p THEN Counted(p) \cup {c} ELSE Counted(p)
    BY <1>4, <1>5 DEF Moves, Counted
  <1>7. streams' = [streams EXCEPT ![conn[c].phone] = @ + 1]  BY DEF CountStream
  <1>8. streams[p] \in Nat /\ lost[p] \in Nat /\ lost' = lost
    BY DEF TypeOK, ConnsType, CountStream, serverVars
  <1>9. CASE conn[c].phone = p
    <2>1. streams'[p] = streams[p] + 1  BY <1>1, <1>7, <1>9
    <2>2. Cardinality(Counted(p)') = Cardinality(Counted(p)) + 1
      BY <1>3, <1>4, <1>6, <1>9, FS_AddElement
    <2> QED BY <1>1, <1>3, <1>8, <2>1, <2>2
  <1>10. CASE conn[c].phone # p
    <2>1. streams'[p] = streams[p]  BY <1>1, <1>7, <1>10
    <2> QED BY <1>1, <1>6, <1>8, <1>10, <2>1
  <1> QED BY <1>9, <1>10

\* A stream whose header fails is counted, and known to be lost.
LEMMA LostStream ==
    ASSUME TypeOK, StreamsAreThere, NEW c \in Conns, HeaderFails(c)
    PROVE  StreamsAreThere'
  <1> SUFFICES ASSUME NEW p \in Phones PROVE streams'[p] <= lost'[p] + Cardinality(Counted(p)')
    BY DEF StreamsAreThere, Counted
  <1>1. streams[p] <= lost[p] + Cardinality(Counted(p))  BY DEF StreamsAreThere, Counted
  <1>2. Counted(p) \subseteq Conns  BY DEF Counted
  <1>3. Cardinality(Counted(p)) \in Nat  BY <1>2, PartIsFinite
  <1>4. Moves(c, "end", conn[c].kind, conn[c].token)
    <2>1. Goes(c, "end") /\ "end" \in Steps  BY DEF HeaderFails, Steps
    <2> QED BY <2>1, GoesMoves
  <1>5. Counted(p)' = Counted(p)
    <2>1. c \notin Counted(p)  BY DEF HeaderFails, At, Counted
    <2> QED BY <1>4, <2>1 DEF Moves, Counted
  <1>6. streams[p] \in Nat /\ lost[p] \in Nat  BY DEF TypeOK, ConnsType
  <1>7. \/ streams'[p] = streams[p] + 1 /\ lost'[p] = lost[p] + 1
        \/ streams'[p] = streams[p] /\ lost'[p] = lost[p]
    BY DEF HeaderFails, TypeOK, ConnsType
  <1> QED BY <1>1, <1>3, <1>5, <1>6, <1>7

LEMMA UncountedStream ==
    ASSUME TypeOK, StreamsAreThere, NEW c \in Conns, Uncount(c)
    PROVE  StreamsAreThere'
  <1> SUFFICES ASSUME NEW p \in Phones PROVE streams'[p] <= lost'[p] + Cardinality(Counted(p)')
    BY DEF StreamsAreThere, Counted
  <1>1. /\ streams \in [Phones -> Nat] /\ streams[p] \in Nat /\ lost[p] \in Nat
        /\ streams[p] <= lost[p] + Cardinality(Counted(p))
    BY DEF TypeOK, ConnsType, StreamsAreThere, Counted
  <1>2. Counted(p) \subseteq Conns  BY DEF Counted
  <1>3. IsFiniteSet(Counted(p)) /\ Cardinality(Counted(p)) \in Nat  BY <1>2, PartIsFinite
  <1>4. Moves(c, "end", conn[c].kind, conn[c].token)
    <2>1. Goes(c, "end") /\ "end" \in Steps  BY DEF Uncount, Steps
    <2> QED BY <2>1, GoesMoves
  <1>5. Counted(p)' = Counted(p) \ {c}  BY <1>4 DEF Moves, Counted
  <1>6. /\ IsFiniteSet(Counted(p) \ {c}) /\ Cardinality(Counted(p)') \in Nat
        /\ Cardinality(Counted(p)') =
               IF c \in Counted(p) THEN Cardinality(Counted(p)) - 1 ELSE Cardinality(Counted(p))
    BY <1>3, <1>5, FS_RemoveElement, FS_CardinalityType
  <1>7. c \in Counted(p) => conn[c].phone = p  BY DEF Counted
  <1>8. streams'[p] = IF conn[c].phone = p /\ streams[p] # 0 THEN streams[p] - 1 ELSE streams[p]
    BY <1>1 DEF Uncount
  <1>9. lost'[p] = lost[p]  BY DEF Uncount, serverVars
  <1>10. CASE conn[c].phone = p /\ streams[p] # 0  BY <1>1, <1>3, <1>6, <1>8, <1>9, <1>10
  <1>11. CASE conn[c].phone = p /\ streams[p] = 0  BY <1>1, <1>6, <1>8, <1>9, <1>11
  <1>12. CASE conn[c].phone # p  BY <1>1, <1>6, <1>7, <1>8, <1>9, <1>12
  <1> QED BY <1>10, <1>11, <1>12

\* A stream's thread goes from one step of its loop to another until it takes
\* the stream off.
LEMMA StreamGoesOn ==
    ASSUME TypeOK, NEW c \in Conns, Thread(c), ~Uncount(c),
           conn[c].step \in {"look", "ask", "frame", "uncount"}
    PROVE  \E s \in {"look", "ask", "frame", "uncount"} : Moves(c, s, conn[c].kind, conn[c].token)
  <1>1. LookRunning(c) \/ AskGrant(c) \/ WriteFrame(c) \/ StreamBreaks(c)
    BY DEF Thread, At, Pairs, ReadGeneration, CheckRunning, NoRequest, Request, PairRefused, Pair,
           PairFails, Paired, Tell, Authorize, CountStream, HeaderFails, Reply, Closes
  <1>2. \E s \in {"look", "ask", "frame", "uncount"} : Goes(c, s)
    BY <1>1 DEF LookRunning, AskGrant, WriteFrame, StreamBreaks
  <1>3. {"look", "ask", "frame", "uncount"} \subseteq Steps  BY DEF Steps
  <1> QED BY <1>2, <1>3, GoesMoves

LEMMA ThreadStreams ==
    ASSUME TypeOK, StreamsAreThere, NEW c \in Conns, Thread(c)
    PROVE  StreamsAreThere'
  <1>1. CASE CountStream(c) /\ conn[c].kind = "events"  BY <1>1, CountedStream
  <1>2. CASE Uncount(c)  BY <1>2, UncountedStream
  <1>3. CASE HeaderFails(c)  BY <1>3, LostStream
  <1>4. CASE ~(CountStream(c) /\ conn[c].kind = "events") /\ ~Uncount(c) /\ ~HeaderFails(c)
    <2>1. streams' = streams /\ lost' = lost
      BY <1>4 DEF Thread, serverVars, ReadGeneration, CheckRunning, NoRequest, Request, PairRefused, Pair,
             PairFails, Paired, Tell, Authorize, CountStream, Reply, LookRunning,
             AskGrant, WriteFrame, StreamBreaks, Closes
    <2>2. ASSUME NEW p \in Phones, NEW d \in Counted(p) PROVE d \in Counted(p)'
      <3>1. CASE d # c  BY <3>1, ThreadMoves DEF Counted
      <3>2. CASE d = c
        <4>1. conn[c].step \in {"look", "ask", "frame", "uncount"}  BY <3>2 DEF Counted
        <4>2. PICK s \in {"look", "ask", "frame", "uncount"} :
                  Moves(c, s, conn[c].kind, conn[c].token)
          BY <1>4, <4>1, StreamGoesOn
        <4> QED BY <3>2, <4>2 DEF Moves, Counted
      <3> QED BY <3>1, <3>2
    <2>3. lost' \in [Phones -> 0..MaxLost]  BY <2>1 DEF TypeOK, ConnsType
    <2> QED BY <2>1, <2>2, <2>3, NoStreamMore
  <1> QED BY <1>1, <1>2, <1>3, <1>4

\* However streams end, grants go and the server stops, a stream the page
\* counts is one a thread will take off, or one whose header could not be written
\* since the count was last cleared (server/peers.rs; connection.rs, the stream's
\* guard and the return before it).
THEOREM StreamsAreCounted == Spec => []StreamsAreThere
  <1>1. ASSUME Init PROVE StreamsAreThere
    <2> SUFFICES ASSUME NEW p \in Phones PROVE streams[p] <= lost[p] + Cardinality(Counted(p))
      BY DEF StreamsAreThere, Counted
    <2>1. Counted(p) \subseteq Conns  BY DEF Counted
    <2> QED BY <1>1, <2>1, PartIsFinite DEF Init
  <1>2. ASSUME TypeOK, StreamsAreThere, [Next]_vars PROVE StreamsAreThere'
    <2>1. CASE Steered  BY <1>2, <2>1, SteeredStreams
    <2>2. ASSUME NEW c \in Conns, Thread(c) PROVE StreamsAreThere'  BY <1>2, <2>2, ThreadStreams
    <2>3. CASE UNCHANGED vars  BY <1>2, <2>3 DEF vars, historyVars, StreamsAreThere
    <2> QED BY <1>2, <2>1, <2>2, <2>3 DEF Next, Steered
  <1> QED BY <1>1, <1>2, TypeCorrect, PTL DEF Spec

=============================================================================
