------------------------------ MODULE LanServer ------------------------------
(***************************************************************************)
(* Who is served over the local network (crates/lan/src/server.rs,         *)
(* server/connection.rs, server/pairing.rs, server/peers.rs and            *)
(* credentials.rs).  The sharing thread starts and stops the server, makes *)
(* invitations and revokes grants, one call at a time.  A listener thread  *)
(* accepts connections; each has a thread, which pairs a phone or serves   *)
(* one request or stream of it.  What is served is LanCache's matter.      *)
(*                                                                         *)
(* Tokens and invitations are numbered as they are made, and 0 is none.    *)
(* The shared generation is modelled by what is done with it: a connection *)
(* is stale once the generation has moved since it read it.                *)
(***************************************************************************)
EXTENDS Integers, FiniteSets

CONSTANTS Phones,
          Conns,        \* connections at one time
          Cap,          \* how many are served (32)
          MaxClients,   \* how many phones may be paired (32)
          MaxGrants,    \* bound: grants made in all
          MaxInvitations, \* bound: invitations made in all
          MaxCalls,     \* bound: stops, revocations and deaths of the app
          MaxLost       \* bound: streams of a phone whose header fails

ASSUME ServerAssumption ==
    /\ IsFiniteSet(Conns) /\ Cap \in Nat /\ MaxClients \in Nat
    /\ MaxGrants \in Nat /\ MaxInvitations \in Nat /\ MaxCalls \in Nat
    /\ MaxLost \in Nat

VARIABLES
    stop, endpoint, listener,   \* the server
    clients, file,              \* each phone's grant, in memory and in clients.json
    invitation,                 \* the one that is open, and whether it has expired
    streams,                    \* how many streams of each phone the page counts
    conn,                       \* the connections and their threads
    host,                       \* the call of the sharing thread
    known,                      \* what each phone was told in its last pairing
    granted, invited, calls,    \* how many were made
    from,                       \* history: the invitation each grant was made with
    barred,                     \* history: invitations made before the last revocation
    withdrawn,                  \* history: grants a revocation took that has returned
    lost                        \* history: streams that ended with their header, since
                                \* the count of them was last cleared

grantVars == <<clients, file, invitation>>
madeVars == <<granted, invited, calls>>
historyVars == <<from, barred, withdrawn, lost>>
vars == <<stop, endpoint, listener, grantVars, streams, conn, host, known,
          madeVars, historyVars>>

Tokens == 1..MaxGrants
Invitations == 1..MaxInvitations
Grants == [Phones -> 0..MaxGrants]
NoGrants == [p \in Phones |-> 0]
NoInvitation == [id |-> 0, expired |-> FALSE]

Nobody == "nobody"
NoConn == [step |-> "none", phone |-> Nobody, kind |-> "none", token |-> 0,
           stale |-> FALSE, shut |-> FALSE]
Idle == [call |-> "none", step |-> "idle", took |-> {}]

Threads ==
    [step : {"none", "start", "check", "read", "pair", "paired", "tell", "auth",
             "count", "reply", "look", "ask", "frame", "uncount", "end"},
     phone : Phones \cup {Nobody}, kind : {"none", "pair", "snapshot", "events"},
     token : Nat, stale : BOOLEAN, shut : BOOLEAN]

\* The server and the sharing thread's call, the grants, what was made, and
\* the connections.
ServerType ==
    /\ stop \in BOOLEAN /\ endpoint \in BOOLEAN
    /\ listener \in {"off", "wait", "accepted"}
    /\ host \in [call : {"none", "stop", "stop and revoke", "revoke"},
                 step : {"idle", "shut", "join", "credentials", "move", "streams"},
                 took : SUBSET Tokens]
GrantsType ==
    /\ clients \in Grants /\ file \in Grants
    /\ known \in [Phones -> Nat]
    /\ from \in [Tokens -> 0..MaxInvitations]
    /\ withdrawn \subseteq Tokens
MadeType ==
    /\ invitation \in [id : 0..MaxInvitations, expired : BOOLEAN]
    /\ granted \in 0..MaxGrants /\ invited \in 0..MaxInvitations /\ calls \in 0..MaxCalls
    /\ barred \in 0..MaxInvitations
ConnsType ==
    /\ conn \in [Conns -> Threads]
    /\ \A c \in Conns : conn[c].step # "none" => conn[c].phone \in Phones
    /\ streams \in [Phones -> Nat] /\ lost \in [Phones -> 0..MaxLost]

TypeOK == ServerType /\ GrantsType /\ MadeType /\ ConnsType

Init ==
    /\ stop = TRUE /\ endpoint = FALSE /\ listener = "off"
    /\ clients = NoGrants /\ file = NoGrants /\ invitation = NoInvitation
    /\ streams = [p \in Phones |-> 0]
    /\ conn = [c \in Conns |-> NoConn]
    /\ host = Idle
    /\ known = NoGrants
    /\ granted = 0 /\ invited = 0 /\ calls = 0
    /\ from = [t \in Tokens |-> 0] /\ barred = 0 /\ withdrawn = {}
    /\ lost = [p \in Phones |-> 0]

Sockets == {c \in Conns : conn[c].step # "none"}

\* The generation moves: whoever has read it is stale.
Staled == [c \in Conns |-> [conn[c] EXCEPT !.stale =
                                @ \/ conn[c].step \notin {"none", "start"}]]
ShutAll == [c \in Conns |-> [conn[c] EXCEPT !.shut = @ \/ c \in Sockets]]

-----------------------------------------------------------------------------
(* The sharing thread's calls.                                             *)

Start ==
    /\ host = Idle /\ stop /\ listener = "off"
    /\ stop' = FALSE /\ listener' = "wait" /\ conn' = Staled
    /\ \E reachable \in BOOLEAN : endpoint' = reachable
    /\ invitation' = IF endpoint' # endpoint THEN NoInvitation ELSE invitation
    /\ UNCHANGED <<clients, file, streams, host, known, madeVars, historyVars>>

\* set_endpoints: an address that goes, comes or changes retires the invitations.
RefreshAddress ==
    /\ host = Idle /\ ~stop
    /\ endpoint' \in {TRUE, ~endpoint}
    /\ invitation' = NoInvitation
    /\ UNCHANGED <<stop, listener, clients, file, streams, conn, host, known,
                   madeVars, historyVars>>

Invite ==
    /\ host = Idle /\ ~stop /\ endpoint
    /\ invited < MaxInvitations
    /\ invited' = invited + 1
    /\ invitation' = [id |-> invited + 1, expired |-> FALSE]
    /\ UNCHANGED <<stop, endpoint, listener, clients, file, streams, conn, host, known,
                   granted, calls, historyVars>>

Call(call, step) ==
    /\ host = Idle /\ calls < MaxCalls
    /\ calls' = calls + 1
    /\ host' = [Idle EXCEPT !.call = call, !.step = step]

BeginStop ==
    /\ \E call \in {"stop", "stop and revoke"} : Call(call, "shut")
    /\ ~stop
    /\ stop' = TRUE /\ conn' = Staled
    /\ UNCHANGED <<endpoint, listener, grantVars, streams, known, granted, invited,
                   historyVars>>

BeginRevoke ==
    /\ Call("revoke", "credentials")
    /\ UNCHANGED <<stop, endpoint, listener, grantVars, streams, conn, known, granted,
                   invited, historyVars>>

\* Mutant: connections end by themselves, sooner or later.
ShutSockets_No ==
    /\ host.step = "shut"
    /\ host' = IF host.call = "revoke" THEN Idle ELSE [host EXCEPT !.step = "join"]
    /\ withdrawn' = IF host.call = "revoke" THEN withdrawn \cup host.took ELSE withdrawn
    /\ UNCHANGED <<stop, endpoint, listener, grantVars, streams, conn, known, madeVars,
                   from, barred, lost>>

\* The last step of disconnect, and the second of stop.
ShutSockets ==
    /\ host.step = "shut"
    /\ conn' = ShutAll
    /\ host' = IF host.call = "revoke" THEN Idle ELSE [host EXCEPT !.step = "join"]
    /\ withdrawn' = IF host.call = "revoke" THEN withdrawn \cup host.took ELSE withdrawn
    /\ UNCHANGED <<stop, endpoint, listener, grantVars, streams, known, madeVars,
                   from, barred, lost>>

Join ==
    /\ host.step = "join" /\ listener = "off"
    /\ endpoint' = FALSE
    /\ host' = [host EXCEPT !.step = "credentials"]
    /\ UNCHANGED <<stop, listener, grantVars, streams, conn, known, madeVars, historyVars>>

\* Mutant: an open invitation outlives a revocation.
Withdraw_NotInvitations ==
    /\ host.step = "credentials" /\ host.call = "revoke"
    /\ file' = NoGrants /\ clients' = NoGrants
    /\ host' = [host EXCEPT !.step = "move",
                            !.took = {clients[p] : p \in Phones} \ {0}]
    /\ barred' = invited
    /\ UNCHANGED <<stop, endpoint, listener, invitation, streams, conn, known, madeVars,
                   from, withdrawn, lost>>

\* Credentials::revoke, once the emptied file is saved.
Withdraw ==
    /\ host.step = "credentials" /\ host.call # "stop"
    /\ file' = NoGrants /\ clients' = NoGrants /\ invitation' = NoInvitation
    /\ host' = [host EXCEPT !.step = IF host.call = "revoke" THEN "move" ELSE "streams",
                            !.took = {clients[p] : p \in Phones} \ {0}]
    /\ barred' = invited
    /\ UNCHANGED <<stop, endpoint, listener, streams, conn, known, madeVars, from, withdrawn, lost>>

\* It cannot be saved: the call ends here, and a stop leaves what follows.
WithdrawFails ==
    /\ host.step = "credentials" /\ host.call # "stop"
    /\ invitation' = IF host.call = "revoke" THEN invitation ELSE NoInvitation
    /\ host' = Idle
    /\ UNCHANGED <<stop, endpoint, listener, clients, file, streams, conn, known,
                   madeVars, historyVars>>

KeepGrants ==
    /\ host.step = "credentials" /\ host.call = "stop"
    /\ invitation' = NoInvitation
    /\ host' = [host EXCEPT !.step = "streams"]
    /\ UNCHANGED <<stop, endpoint, listener, clients, file, streams, conn, known,
                   madeVars, historyVars>>

\* disconnect
MoveGeneration ==
    /\ host.step = "move"
    /\ conn' = Staled
    /\ host' = [host EXCEPT !.step = "streams"]
    /\ UNCHANGED <<stop, endpoint, listener, grantVars, streams, known, madeVars, historyVars>>

ClearStreams ==
    /\ host.step = "streams"
    /\ streams' = [p \in Phones |-> 0] /\ lost' = [p \in Phones |-> 0]
    /\ IF host.call = "revoke"
       THEN /\ host' = [host EXCEPT !.step = "shut"]
            /\ UNCHANGED withdrawn
       ELSE /\ host' = Idle
            /\ withdrawn' = withdrawn \cup host.took
    /\ UNCHANGED <<stop, endpoint, listener, grantVars, conn, known, madeVars,
                   from, barred>>

\* The app dies and starts again with the grants it finds.
Dies ==
    /\ calls < MaxCalls
    /\ calls' = calls + 1
    /\ stop' = TRUE /\ endpoint' = FALSE /\ listener' = "off"
    /\ clients' = file /\ invitation' = NoInvitation
    /\ streams' = [p \in Phones |-> 0] /\ lost' = [p \in Phones |-> 0]
    /\ conn' = [c \in Conns |-> NoConn]
    /\ host' = Idle
    /\ UNCHANGED <<file, known, granted, invited, from, barred, withdrawn>>

InvitationExpires ==
    /\ invitation.id # 0
    /\ invitation' = [invitation EXCEPT !.expired = TRUE]
    /\ UNCHANGED <<stop, endpoint, listener, clients, file, streams, conn, host, known,
                   madeVars, historyVars>>

-----------------------------------------------------------------------------
(* The listener.                                                           *)

\* Mutant: what woke the listener is always taken for a connection.
Accept_Always ==
    /\ listener = "wait"
    /\ listener' = "accepted"
    /\ UNCHANGED <<stop, endpoint, grantVars, streams, conn, host, known, madeVars, historyVars>>

Accept ==
    /\ listener = "wait" /\ ~stop
    /\ listener' = "accepted"
    /\ UNCHANGED <<stop, endpoint, grantVars, streams, conn, host, known, madeVars, historyVars>>

\* A copy of the socket is kept until the connection's thread has ended.
Serve(c, p) ==
    /\ listener = "accepted" /\ Cardinality(Sockets) < Cap
    /\ conn[c].step = "none"
    /\ conn' = [conn EXCEPT ![c] = [NoConn EXCEPT !.step = "start", !.phone = p]]
    /\ listener' = "wait"
    /\ UNCHANGED <<stop, endpoint, grantVars, streams, host, known, madeVars, historyVars>>

TurnAway ==
    /\ listener = "accepted" /\ Cardinality(Sockets) >= Cap
    /\ listener' = "wait"
    /\ UNCHANGED <<stop, endpoint, grantVars, streams, conn, host, known, madeVars, historyVars>>

\* There is nothing to accept after all, or no copy of the socket to be had;
\* any other error ends the listener.
AcceptsNone ==
    /\ listener = "accepted"
    /\ listener' \in {"wait", "off"}
    /\ UNCHANGED <<stop, endpoint, grantVars, streams, conn, host, known, madeVars, historyVars>>

ListenerEnds ==
    /\ listener = "wait" /\ stop
    /\ listener' = "off"
    /\ UNCHANGED <<stop, endpoint, grantVars, streams, conn, host, known, madeVars, historyVars>>

-----------------------------------------------------------------------------
(* A connection's thread.                                                  *)

At(c, step) == conn[c].step = step
Goes(c, step) == conn' = [conn EXCEPT ![c].step = step]
serverVars == <<stop, endpoint, listener, host, invited, calls, barred, withdrawn,
                lost>>

ReadGeneration(c) ==
    /\ At(c, "start") /\ Goes(c, "check")
    /\ UNCHANGED <<serverVars, grantVars, streams, known, granted, from>>

\* It also ends when no request has come for 15 seconds.
CheckRunning(c) ==
    /\ At(c, "check")
    /\ \/ ~stop /\ ~conn[c].stale /\ Goes(c, "read")
       \/ Goes(c, "end")
    /\ UNCHANGED <<serverVars, grantVars, streams, known, granted, from>>

\* Nothing yet, or the connection is over, or what came is no request.
NoRequest(c) ==
    /\ At(c, "read")
    /\ \/ ~conn[c].shut /\ Goes(c, "check")
       \/ Goes(c, "end")
    /\ UNCHANGED <<serverVars, grantVars, streams, known, granted, from>>

\* The phone pairs with an invitation it has seen or shows its token.
Request(c) ==
    /\ At(c, "read") /\ ~conn[c].shut
    /\ \/ \E i \in 1..invited :
             conn' = [conn EXCEPT ![c].step = "pair", ![c].kind = "pair", ![c].token = i]
       \/ /\ known[conn[c].phone] # 0
          /\ \E kind \in {"snapshot", "events"} :
                conn' = [conn EXCEPT ![c].step = "auth", ![c].kind = kind,
                                     ![c].token = known[conn[c].phone]]
    /\ UNCHANGED <<serverVars, grantVars, streams, known, granted, from>>

\* Credentials::pair, in its order: the invitation is used up first.
Pairs(c) == At(c, "pair") /\ invitation.id = conn[c].token
MayPair(p) ==
    /\ ~invitation.expired
    /\ clients[p] # 0 \/ Cardinality({q \in Phones : clients[q] # 0}) < MaxClients

PairRefused(c) ==
    /\ At(c, "pair") /\ ~(Pairs(c) /\ MayPair(conn[c].phone))
    /\ invitation' = IF Pairs(c) THEN NoInvitation ELSE invitation
    /\ Goes(c, "end")
    /\ UNCHANGED <<serverVars, clients, file, streams, known, granted, from>>

Grant(p) ==
    /\ granted < MaxGrants
    /\ granted' = granted + 1
    /\ clients' = [clients EXCEPT ![p] = granted + 1]
    /\ from' = [from EXCEPT ![granted + 1] = invitation.id]

Pair(c) ==
    /\ Pairs(c) /\ MayPair(conn[c].phone)
    /\ invitation' = NoInvitation
    /\ Grant(conn[c].phone) /\ file' = clients'
    /\ conn' = [conn EXCEPT ![c].step = "paired", ![c].token = granted + 1]
    /\ UNCHANGED <<serverVars, streams, known>>

\* Mutant: a grant that could not be saved holds while the app runs.
PairFails_Granted(c) ==
    /\ Pairs(c) /\ MayPair(conn[c].phone)
    /\ invitation' = NoInvitation
    /\ Grant(conn[c].phone)
    /\ conn' = [conn EXCEPT ![c].step = "paired", ![c].token = granted + 1]
    /\ UNCHANGED <<serverVars, file, streams, known>>

\* The grant cannot be saved: the phone gets none, and keeps the one it has.
PairFails(c) ==
    /\ Pairs(c) /\ MayPair(conn[c].phone)
    /\ invitation' = NoInvitation
    /\ Goes(c, "end")
    /\ UNCHANGED <<serverVars, clients, file, streams, known, granted, from>>

Authorized(c) == \E p \in Phones : clients[p] = conn[c].token

\* Without an address there is nothing to tell (503); a grant taken back
\* meanwhile is told but not remembered.
Paired(c) ==
    /\ At(c, "paired")
    /\ Goes(c, IF ~endpoint THEN "end" ELSE IF Authorized(c) THEN "count" ELSE "tell")
    /\ UNCHANGED <<serverVars, grantVars, streams, known, granted, from>>

Tell(c) ==
    /\ At(c, "tell")
    /\ known' = IF conn[c].shut THEN known ELSE [known EXCEPT ![conn[c].phone] = conn[c].token]
    /\ Goes(c, "end")
    /\ UNCHANGED <<serverVars, grantVars, streams, granted, from>>

Authorize(c) ==
    /\ At(c, "auth")
    /\ Goes(c, IF Authorized(c) THEN "count" ELSE "end")
    /\ UNCHANGED <<serverVars, grantVars, streams, known, granted, from>>

\* remember_peer.  (What else it notes of the phone is for display.)
CountStream(c) ==
    /\ At(c, "count")
    /\ streams' = IF conn[c].kind = "events"
                  THEN [streams EXCEPT ![conn[c].phone] = @ + 1] ELSE streams
    /\ Goes(c, CASE conn[c].kind = "pair" -> "tell"
                 [] conn[c].kind = "snapshot" -> "reply"
                 [] OTHER -> "look")
    /\ UNCHANGED <<serverVars, grantVars, known, granted, from>>

\* The header of the stream cannot be written: its thread ends there, and
\* nobody takes the stream off the count.
HeaderFails(c) ==
    /\ At(c, "count") /\ conn[c].kind = "events"
    /\ lost[conn[c].phone] < MaxLost
    /\ streams' = [streams EXCEPT ![conn[c].phone] = @ + 1]
    /\ lost' = [lost EXCEPT ![conn[c].phone] = @ + 1]
    /\ Goes(c, "end")
    /\ UNCHANGED <<stop, endpoint, listener, host, invited, calls, barred, withdrawn,
                   grantVars, known, granted, from>>

Reply(c) ==
    /\ At(c, "reply") /\ Goes(c, "end")
    /\ UNCHANGED <<serverVars, grantVars, streams, known, granted, from>>

\* The stream's loop: the flag and the generation, then the grant, then a
\* frame, which is not written once the socket is shut.  (The header goes to the
\* TLS session's buffer, and so can fail or be taken whatever the socket does.)
LookRunning(c) ==
    /\ At(c, "look")
    /\ Goes(c, IF stop \/ conn[c].stale THEN "uncount" ELSE "ask")
    /\ UNCHANGED <<serverVars, grantVars, streams, known, granted, from>>

AskGrant(c) ==
    /\ At(c, "ask")
    /\ Goes(c, IF Authorized(c) THEN "frame" ELSE "uncount")
    /\ UNCHANGED <<serverVars, grantVars, streams, known, granted, from>>

WriteFrame(c) ==
    /\ At(c, "frame")
    /\ Goes(c, IF conn[c].shut THEN "uncount" ELSE "look")
    /\ UNCHANGED <<serverVars, grantVars, streams, known, granted, from>>

\* The phone goes away.
StreamBreaks(c) ==
    /\ At(c, "frame")
    /\ Goes(c, "uncount")
    /\ UNCHANGED <<serverVars, grantVars, streams, known, granted, from>>

\* Mutant: the count goes down only for a stream nobody has ended.
Uncount_OnlyFresh(c) ==
    /\ At(c, "uncount")
    /\ streams' = IF conn[c].stale \/ streams[conn[c].phone] = 0 THEN streams
                  ELSE [streams EXCEPT ![conn[c].phone] = @ - 1]
    /\ Goes(c, "end")
    /\ UNCHANGED <<serverVars, grantVars, known, granted, from>>

Uncount(c) ==
    /\ At(c, "uncount")
    /\ streams' = IF streams[conn[c].phone] = 0 THEN streams
                  ELSE [streams EXCEPT ![conn[c].phone] = @ - 1]
    /\ Goes(c, "end")
    /\ UNCHANGED <<serverVars, grantVars, known, granted, from>>

Closes(c) ==
    /\ At(c, "end")
    /\ conn' = [conn EXCEPT ![c] = NoConn]
    /\ UNCHANGED <<serverVars, grantVars, streams, known, granted, from>>

-----------------------------------------------------------------------------
Calls == Start \/ RefreshAddress \/ Invite \/ BeginStop \/ BeginRevoke
CallStep ==
    \/ ShutSockets \/ Join \/ Withdraw \/ WithdrawFails \/ KeepGrants
    \/ MoveGeneration \/ ClearStreams
ListenerStep ==
    \/ Accept \/ (\E c \in Conns, p \in Phones : Serve(c, p)) \/ TurnAway
    \/ AcceptsNone \/ ListenerEnds
Thread(c) ==
    \/ ReadGeneration(c) \/ CheckRunning(c) \/ NoRequest(c) \/ Request(c)
    \/ PairRefused(c) \/ Pair(c) \/ PairFails(c) \/ Paired(c) \/ Tell(c)
    \/ Authorize(c) \/ CountStream(c) \/ HeaderFails(c) \/ Reply(c)
    \/ LookRunning(c) \/ AskGrant(c) \/ WriteFrame(c) \/ StreamBreaks(c)
    \/ Uncount(c) \/ Closes(c)

Next ==
    \/ Calls \/ CallStep \/ Dies \/ InvitationExpires \/ ListenerStep
    \/ \E c \in Conns : Thread(c)

\* The sharing thread and the listener go on: no step of theirs waits without a
\* time limit.  Nothing here asks it of a connection's thread.
Fairness == WF_vars(CallStep) /\ WF_vars(ListenerStep)

Spec == Init /\ [][Next]_vars /\ Fairness

-----------------------------------------------------------------------------
(* Properties.                                                             *)

\* Past its request, with a socket that still takes what is written.
Served(c) ==
    /\ conn[c].step \in {"count", "reply", "look", "ask", "frame"}
    /\ conn[c].kind # "pair"
    /\ ~conn[c].shut

\* Once a revocation has returned, no connection can be written to on the
\* strength of a grant it took, whenever that connection was authorised; and
\* none at all once a stop has (server/pairing.rs, `revoke`; server.rs, `stop`;
\* docs/local-network.md: the stream ends when sharing is turned off).
RevokedGetsNothing ==
    \A c \in Conns : Served(c) => conn[c].token \notin withdrawn /\ ~(stop /\ host = Idle)

\* No grant, in memory or saved, is older than the last revocation or was made
\* with an invitation from before it.
RevokedStayOut ==
    \A p \in Phones : \A t \in {clients[p], file[p]} : t # 0 => from[t] > barred

\* An invitation works once, whoever uses it at the same time; and what a
\* phone was told in pairing holds after any crash, until it is revoked or the
\* phone pairs again (credentials.rs, `pair`).
PairedOnce ==
    /\ \A s, t \in Tokens : from[s] = from[t] /\ from[s] # 0 => s = t
    /\ \A p \in Phones :
          known[p] # 0 => \/ file[p] >= known[p]
                          \/ from[known[p]] <= barred

\* Every stream that is counted of a phone is one a thread will take off, or
\* one that ended before its header was written; of those nothing but a stop or
\* a revocation rids the count (connection.rs, `connection`; server/peers.rs).
StreamsAreThere ==
    \A p \in Phones :
        streams[p] <= lost[p] + Cardinality({c \in Conns :
            /\ conn[c].phone = p /\ conn[c].kind = "events"
            /\ conn[c].step \in {"look", "ask", "frame", "uncount"}})

\* Stopping and revoking return: the listener is joined, whatever it was just
\* accepting (server.rs, `stop`).
CallsReturn == host # Idle ~> host = Idle

=============================================================================
