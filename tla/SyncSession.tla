------------------------------ MODULE SyncSession ------------------------------
(* Sessions of the RemoteSync plug-in: the client instance (the state machine *)
(* of RemoteSync, its SyncClient and its SyncRemotePeer), the server instance *)
(* (SyncServer and one SyncRemotePeer per connection) and the TCP connections *)
(* between them.                                                              *)
(*                                                                            *)
(* An action is one event that the Qt event loop of one of the two programs   *)
(* dispatches, with every slot it calls.  Messages are whole and in order     *)
(* (SyncFraming); time is abstract, a timeout may strike a live connection    *)
(* (SyncHeartbeat says when it cannot).                                       *)
EXTENDS Naturals, Sequences

CONSTANTS Conns,          \* connections that may exist at a time
          None,           \* not a connection: a null pointer
          LostBehavior,   \* RemoteSync::connectionLostBehavior
          QuitBehavior,   \* RemoteSync::quitBehavior
          Versions,       \* how the two programs may differ, see compat
          MaxUnsent       \* bound: spontaneous writes stop at so many unread messages

Behavior == {"NONE", "RECONNECT", "QUIT"}

ASSUME SessionAssumption ==
    /\ None \notin Conns
    /\ LostBehavior \in Behavior /\ QuitBehavior \in Behavior
    /\ Versions \subseteq {"same", "large", "app", "protocol"}
    /\ MaxUnsent \in Nat

VARIABLES compat,         \* the two programs: same version, the same but an item
                          \* of the server's state may exceed a message, another
                          \* application version, another protocol version
          state,          \* RemoteSync::state of the client instance
          client,         \* RemoteSync::client: its connection, or None
          reconnectTimer, \* the single-shot timer is active
          app,            \* the client program
          wanted,         \* the user's last call was connectToServer (history)
          listening,      \* the server instance is in state SERVER
          peer,           \* peer[e][k]: the SyncRemotePeer at end e of k
          net,            \* net[e][k]: messages on their way to that peer
          cut             \* connections whose network path is dead

remoteSync == <<state, client, reconnectTimer, app>>
vars == <<compat, remoteSync, wanted, listening, peer, net, cut>>

End == {"client", "server"}
Other(e) == IF e = "client" THEN "server" ELSE "client"

State  == {"IDLE", "CLIENT", "CLIENT_CONNECTING", "CLIENT_CLOSING",
           "CLIENT_WAIT_RECONNECT"}
Socket == {"Unconnected", "Connecting", "Backlog", "Connected", "Closing"}
\* "state" stands for every message type that carries application state; "fin"
\* is the end of the stream.
Message == {"challenge", "response", "valid", "alive", "state", "error"}
Packet  == Message \union {"fin"}

\* out: bytes in the socket's write buffer; told: SyncClient::errorStr is set by
\* an ERROR message; failed: errorString is set.
Peer == [sock : Socket, expectDisconnect : BOOLEAN, authenticated : BOOLEAN,
         authResponseSent : BOOLEAN, failed : BOOLEAN, told : BOOLEAN,
         out : Seq(Message)]

NewPeer(s) == [sock |-> s, expectDisconnect |-> FALSE, authenticated |-> FALSE,
               authResponseSent |-> FALSE, failed |-> FALSE, told |-> FALSE,
               out |-> <<>>]

Init == /\ compat \in Versions
        /\ state = "IDLE" /\ client = None /\ reconnectTimer = FALSE
        /\ app = "running" /\ wanted = FALSE
        /\ listening = FALSE
        /\ peer = [e \in End |-> [k \in Conns |-> NewPeer("Unconnected")]]
        /\ net = [e \in End |-> [k \in Conns |-> <<>>]]
        /\ cut = {}

--------------------------------------------------------------------------------
(* RemoteSync: what follows when the client's peer reports `disconnected`.    *)

\* RECONNECT starts the timer; nothing stops a running one.
StartsTimer(bh)  == reconnectTimer \/ bh = "RECONNECT"

\* "when client closes we do nothing" but return to IDLE.  Mutant: not even that.
StaysClosing == "CLIENT_CLOSING"
AfterClosing == "IDLE"

\* `now` is the value of RemoteSync::state when the signal arrives.
applyClientBehavior(bh, now) ==
    IF now = "CLIENT_CLOSING"
      THEN state' = AfterClosing /\ UNCHANGED <<reconnectTimer, app>>
      ELSE /\ reconnectTimer' = StartsTimer(bh)
           /\ state' = IF bh = "RECONNECT" THEN "CLIENT_WAIT_RECONNECT" ELSE "IDLE"
           /\ app' = IF bh = "QUIT" THEN "quit" ELSE app

\* SyncClient::serverDisconnected: clean if no error string was ever set, by an
\* ERROR of the server or by an end the peer did not expect.
\* Mutant: the server's ERROR is not looked at.
CleanUnlessFailed(p) == p.expectDisconnect \/ ~p.failed
IsClean(p) == ~p.told /\ (p.expectDisconnect \/ ~p.failed)

clientDisconnected(p, now) ==
    /\ client' = None
    /\ applyClientBehavior(IF IsClean(p) THEN QuitBehavior ELSE LostBehavior, now)

--------------------------------------------------------------------------------
(* SyncRemotePeer at either end.                                              *)

Reset(p) == [p EXCEPT !.sock = "Unconnected", !.out = <<>>]

\* QAbstractSocket::disconnectFromHost waits for unsent bytes.
disconnectFromHost(p) == IF p.out = <<>> THEN Reset(p)
                                         ELSE [p EXCEPT !.sock = "Closing"]

writeData(p, m) == IF p.sock = "Connected" THEN [p EXCEPT !.out = Append(@, m)]
                                           ELSE p

writeError(p) == disconnectFromHost([writeData(p, "error") EXCEPT !.failed = TRUE])

\* Peer k at end e becomes p, `rest` is left to read, `sent` goes to the other
\* end.  A socket that gets unconnected ends the stream for the other end.
Becomes(e, k, p, rest, sent) ==
    LET closes == p.sock = "Unconnected"
        heard  == k \notin cut /\ peer[Other(e)][k].sock # "Unconnected"
    IN  /\ peer' = [peer EXCEPT ![e][k] = p]
        /\ net' = [net EXCEPT
             ![e][k] = IF closes THEN <<>> ELSE rest,
             ![Other(e)][k] = IF ~heard THEN @
                              ELSE @ \o sent \o (IF closes THEN <<"fin">> ELSE <<>>)]

\* The signal `disconnected` of an unconnected client socket runs through
\* SyncClient to RemoteSync; SyncServer merely forgets the peer.
Signals(e, p, now) ==
    IF e = "client" /\ p.sock = "Unconnected"
      THEN clientDisconnected(p, now)
      ELSE state' = now /\ UNCHANGED <<client, reconnectTimer, app>>

PeerEvent(e, k, p, rest, sent) ==
    /\ Becomes(e, k, p, rest, sent)
    /\ Signals(e, p, state)
    /\ UNCHANGED <<compat, wanted, listening, cut>>

--------------------------------------------------------------------------------
(* The client instance: the slots of RemoteSync.                              *)

\* connectToServer in a state that allows it: a new SyncClient whose socket
\* starts to connect.  A connection is used again when both its ends are gone.
connectToServer(k) ==
    /\ \A e \in End : peer[e][k].sock = "Unconnected"
    /\ client' = k
    /\ state' = "CLIENT_CONNECTING"
    /\ peer' = [e \in End |-> [peer[e] EXCEPT ![k] =
                   NewPeer(IF e = "client" THEN "Connecting" ELSE "Unconnected")]]
    /\ net' = [e \in End |-> [net[e] EXCEPT ![k] = <<>>]]
    /\ cut' = cut \ {k}
    /\ UNCHANGED <<compat, app, listening>>

\* Mutant: the slot does not look at the state.
MayAlwaysConnect == TRUE
MayConnect == state \in {"IDLE", "CLIENT_WAIT_RECONNECT"}

\* The dialog offers "Connect to server" in IDLE only, scripts whenever they like.
UserConnect(k) ==
    /\ app = "running" /\ MayConnect
    /\ wanted' = TRUE
    /\ connectToServer(k)
    /\ UNCHANGED reconnectTimer

\* The timer calls the same slot; in a state other than these it has no effect.
TimerFires(k) ==
    /\ app = "running" /\ reconnectTimer /\ MayConnect
    /\ reconnectTimer' = FALSE
    /\ connectToServer(k)
    /\ UNCHANGED wanted

TimerIgnored ==
    /\ app = "running" /\ reconnectTimer /\ ~MayConnect
    /\ reconnectTimer' = FALSE
    /\ UNCHANGED <<compat, state, client, app, wanted, listening, peer, net, cut>>

\* disconnectPeer looks at the socket first.  Mutant: it aborts it in any case.
AbortsAlways(p) == FALSE
ClosesFirst(p) == p.sock = "Connected"

\* disconnectFromServer in CLIENT, SyncRemotePeer::disconnectPeer included.  A
\* connected socket is closed.  One that is closing already is aborted, which
\* emits `disconnected`; disconnectPeer emits it again, and then
\* clientDisconnected reads through the client pointer it reset the first time.
DisconnectClient ==
    /\ state = "CLIENT"
    /\ LET p == [peer.client[client] EXCEPT !.expectDisconnect = TRUE]
           q == IF ClosesFirst(p) THEN disconnectFromHost(p) ELSE Reset(p)
       IN  /\ Becomes("client", client, q, net.client[client], <<>>)
           /\ IF ClosesFirst(p)
                THEN Signals("client", q, "CLIENT_CLOSING")
                ELSE /\ client' = None /\ state' = "IDLE" /\ app' = "crashed"
                     /\ UNCHANGED reconnectTimer

\* disconnectFromServer in CLIENT_WAIT_RECONNECT.
CancelReconnect ==
    /\ state = "CLIENT_WAIT_RECONNECT"
    /\ state' = "IDLE" /\ reconnectTimer' = FALSE
    /\ UNCHANGED <<client, app, peer, net>>

\* "invalid state": a warning is logged.  The dialog's button is wired to the
\* slot in CLIENT_CONNECTING too, as "Cancel connecting".
InvalidDisconnect ==
    /\ state \in {"CLIENT_CONNECTING", "IDLE", "CLIENT_CLOSING"}
    /\ UNCHANGED <<remoteSync, peer, net>>

UserDisconnect ==
    /\ app = "running"
    /\ DisconnectClient \/ CancelReconnect \/ InvalidDisconnect
    /\ wanted' = FALSE
    /\ UNCHANGED <<compat, listening, cut>>

--------------------------------------------------------------------------------
(* The connection.                                                            *)

\* The socket connects: the server's kernel queues the connection.
SocketConnects(k) ==
    /\ peer.client[k].sock = "Connecting"
    /\ listening
    /\ peer' = [client |-> [peer.client EXCEPT ![k].sock = "Connected"],
                server |-> [peer.server EXCEPT ![k] = NewPeer("Backlog")]]
    /\ UNCHANGED <<compat, remoteSync, wanted, listening, net, cut>>

\* Connection refused or unreachable: sockError finds the socket unconnected and
\* calls sockDisconnected itself.
SocketFails(k) ==
    /\ peer.client[k].sock = "Connecting"
    /\ PeerEvent("client", k, Reset([peer.client[k] EXCEPT !.failed = TRUE]), <<>>, <<>>)

\* The socket hands a message to TCP; a closing one closes after the last.
Flush(e, k) ==
    LET p == peer[e][k]
        q == [p EXCEPT !.out = Tail(@)]
    IN  /\ p.out # <<>>
        /\ PeerEvent(e, k, IF p.sock = "Closing" /\ q.out = <<>> THEN Reset(q) ELSE q,
                     net[e][k], <<Head(p.out)>>)

\* TCP gives up: the path is dead, or the other end has gone and what is written
\* comes back as a reset.
NetError(e, k) ==
    /\ peer[e][k].sock \in {"Connected", "Closing"}
    /\ \/ k \in cut
       \/ peer[Other(e)][k].sock = "Unconnected" /\ peer[e][k].out # <<>>
    /\ PeerEvent(e, k, Reset([peer[e][k] EXCEPT !.failed = TRUE]), <<>>, <<>>)

\* From here on nothing passes in either direction, and neither end is told.
Cut(k) ==
    /\ k \notin cut
    /\ \A e \in End : peer[e][k].sock # "Unconnected"
    /\ cut' = cut \union {k}
    /\ net' = [e \in End |-> [net[e] EXCEPT ![k] = <<>>]]
    /\ UNCHANGED <<compat, remoteSync, wanted, listening, peer>>

\* SyncRemotePeer::checkTimeout after 15 s of silence.  An ALIVE may be due in the
\* same call: the socket then waits for it to be sent.  A socket that still
\* connects is aborted and its end reported by hand.
\* Mutant: only authenticated peers are watched.
WatchesAuthenticated(p) == p.authenticated
Watches(p) == p.sock \in {"Connected", "Connecting"}
Timeout(e, k) ==
    LET p == [peer[e][k] EXCEPT !.failed = TRUE]
    IN  \/ /\ p.sock = "Connected" /\ Watches(p)
           /\ \E aliveDue \in {FALSE, p.authenticated} :
                PeerEvent(e, k, disconnectFromHost(IF aliveDue THEN writeData(p, "alive") ELSE p),
                          net[e][k], <<>>)
        \/ /\ p.sock = "Connecting" /\ Watches(p)
           /\ PeerEvent(e, k, Reset(p), <<>>, <<>>)

\* checkTimeout after 5 s without a write.
Alive(e, k) ==
    /\ peer[e][k].sock = "Connected" /\ peer[e][k].authenticated
    /\ Len(peer[e][k].out) + Len(net[Other(e)][k]) < MaxUnsent
    /\ PeerEvent(e, k, writeData(peer[e][k], "alive"), net[e][k], <<>>)

--------------------------------------------------------------------------------
(* receiveMessage and the handlers.                                           *)

\* ClientAuthHandler.
Challenge(p) == IF compat = "protocol" \/ p.authenticated
                  THEN writeError(p)
                  ELSE writeData([p EXCEPT !.authResponseSent = TRUE], "response")
Confirm(p) == IF p.authResponseSent THEN [p EXCEPT !.authenticated = TRUE]
                                    ELSE writeError(p)

ClientHandles(p, m) ==
    CASE m = "error"     -> [p EXCEPT !.told = TRUE]
      [] m = "challenge" -> Challenge(p)
      [] m = "valid"     -> Confirm(p)
      [] m \in {"alive", "state"} -> p
      [] OTHER           -> writeError(p)

\* ServerAuthHandler: the application versions must agree; the confirmation goes
\* first, then SyncServer::clientAuthenticated sends the present state.
\* Mutant AnyVersion: allowDivergingAppVersions.  Mutant StateFirst: the order.
AnyVersion == TRUE
VersionMatches == compat \in {"same", "large"}
StateFirst(p)   == writeData(writeData([p EXCEPT !.authenticated = TRUE], "state"), "valid")
ConfirmFirst(p) == writeData(writeData([p EXCEPT !.authenticated = TRUE], "valid"), "state")
TooLarge(p) == writeError(writeData([p EXCEPT !.authenticated = TRUE], "valid"))

Responses(p) == IF ~VersionMatches THEN {writeError(p)}
                ELSE {ConfirmFirst(p)} \union (IF compat = "large" THEN {TooLarge(p)} ELSE {})

ServerHandles(p, m) ==
    CASE m \in {"error", "alive"} -> {p}
      [] m = "response" -> Responses(p)
      [] OTHER          -> {writeError(p)}

\* Messages only an authenticated peer may send.
Restricted == {"alive", "state"}

\* What the peer may be after message m.
Handled(e, p, m) ==
    IF m \in Restricted /\ ~p.authenticated THEN {writeError(p)}
    ELSE IF e = "client" THEN {ClientHandles(p, m)} ELSE ServerHandles(p, m)

\* A confirmation accepted is reported to RemoteSync::clientConnected.
clientConnected(p, m) == IF m = "valid" /\ p.sock = "Connected" THEN "CLIENT" ELSE state

ReceiveMessage(e, k) ==
    /\ peer[e][k].sock = "Connected"
    /\ net[e][k] # <<>> /\ Head(net[e][k]) # "fin"
    /\ \E p \in Handled(e, peer[e][k], Head(net[e][k])) :
         /\ Becomes(e, k, p, Tail(net[e][k]), <<>>)
         /\ Signals(e, p, IF e = "client" THEN clientConnected(p, Head(net[e][k])) ELSE state)
    /\ UNCHANGED <<compat, wanted, listening, cut>>

\* The other end closed: sockError takes it for a normal disconnect.
RemoteHostClosed(e, k) ==
    /\ peer[e][k].sock = "Connected"
    /\ net[e][k] # <<>> /\ Head(net[e][k]) = "fin"
    /\ PeerEvent(e, k,
          disconnectFromHost([peer[e][k] EXCEPT !.failed = TRUE, !.expectDisconnect = TRUE]),
          <<>>, <<>>)

--------------------------------------------------------------------------------
(* The server instance.                                                       *)

startServer ==
    /\ ~listening /\ listening' = TRUE
    /\ UNCHANGED <<compat, remoteSync, wanted, peer, net, cut>>

\* SyncServer::stop: the queued connections are dropped with the QTcpServer, and
\* the loop over `clients` calls disconnectPeer until none is left: a peer that
\* still has bytes to send is closing the first time and aborted the second.
stopServer ==
    /\ listening /\ listening' = FALSE
    /\ peer' = [peer EXCEPT !.server = [k \in Conns |->
                   Reset([@[k] EXCEPT !.expectDisconnect = TRUE])]]
    /\ net' = [client |-> [k \in Conns |->
                  IF \/ k \in cut \/ peer.server[k].sock = "Unconnected"
                     \/ peer.client[k].sock = "Unconnected"
                    THEN net.client[k] ELSE Append(net.client[k], "fin")],
               server |-> [k \in Conns |-> <<>>]]
    /\ UNCHANGED <<compat, remoteSync, wanted, cut>>

handleNewConnection(k) ==
    /\ peer.server[k].sock = "Backlog"
    /\ PeerEvent("server", k, writeData(NewPeer("Connected"), "challenge"),
                 net.server[k], <<>>)

\* SyncServer::broadcastMessage, seen by one client.
Broadcast(k) ==
    /\ peer.server[k].sock = "Connected" /\ peer.server[k].authenticated
    /\ Len(peer.server[k].out) + Len(net.client[k]) < MaxUnsent
    /\ PeerEvent("server", k, writeData(peer.server[k], "state"), net.server[k], <<>>)

--------------------------------------------------------------------------------
User == (\E k \in Conns : UserConnect(k)) \/ UserDisconnect
Timers == (\E k \in Conns : TimerFires(k)) \/ TimerIgnored
Server == startServer \/ stopServer \/ \E k \in Conns : Broadcast(k)
EndStep(e, k) == \/ Flush(e, k) \/ NetError(e, k) \/ Timeout(e, k) \/ Alive(e, k)
                 \/ ReceiveMessage(e, k) \/ RemoteHostClosed(e, k)
Connection(k) == \/ SocketConnects(k) \/ SocketFails(k) \/ Cut(k)
                 \/ handleNewConnection(k)
                 \/ \E e \in End : EndStep(e, k)

Next == User \/ Timers \/ Server \/ \E k \in Conns : Connection(k)

Spec == Init /\ [][Next]_vars

\* Both event loops run, TCP takes what is written and delivers it, a socket that
\* connects succeeds or fails, the reconnect timer fires, and a peer that hears
\* nothing any more times out.  Nothing obliges a user to act, a live peer to time
\* out, or TCP to notice that the path is dead.
Responsive(k) == handleNewConnection(k) \/ SocketConnects(k) \/ SocketFails(k)
Hears(e, k) == ReceiveMessage(e, k) \/ RemoteHostClosed(e, k)
DeadPeerTimesOut(e, k) ==
    /\ k \in cut \/ peer[Other(e)][k].sock = "Unconnected"
    /\ Timeout(e, k)
Fairness ==
    /\ WF_vars(Timers)
    /\ \A k \in Conns :
         /\ WF_vars(Responsive(k))
         /\ \A e \in End : /\ WF_vars(Flush(e, k))
                           /\ WF_vars(Hears(e, k))
                           /\ WF_vars(DeadPeerTimesOut(e, k))
FairSpec == Spec /\ Fairness

--------------------------------------------------------------------------------
(* Properties.                                                                *)

\* The types.
TypeOK ==
    /\ compat \in Versions
    /\ state \in State /\ client \in Conns \union {None}
    /\ reconnectTimer \in BOOLEAN /\ app \in {"running", "quit", "crashed"}
    /\ wanted \in BOOLEAN /\ listening \in BOOLEAN
    /\ peer \in [End -> [Conns -> Peer]]
    /\ net \in [End -> [Conns -> Seq(Packet)]]
    /\ cut \subseteq Conns

\* Between two events the client pointer is set exactly in the states whose slots
\* dereference it, and no client socket lives but the one it names: the first
\* `disconnected` signal of a connection finds the SyncClient it is about.
ClientPointer ==
    /\ client # None <=> state \in {"CLIENT_CONNECTING", "CLIENT", "CLIENT_CLOSING"}
    /\ \A k \in Conns : peer.client[k].sock # "Unconnected" <=> client = k

\* The second signal that disconnectPeer may emit within one event finds the
\* pointer reset and crashes the program: that takes a connection that had failed
\* before the user gave it up, a healthy one is never the cause.
CrashNeedsFailure ==
    app = "crashed" =>
        \E k \in Conns : peer.client[k].failed /\ peer.client[k].expectDisconnect

\* An instance that waits to reconnect has the timer running that will do it.
WaitingHasTimer ==
    state = "CLIENT_WAIT_RECONNECT" => reconnectTimer

\* What the slots of RemoteSync rely on.
SessionInv == TypeOK /\ ClientPointer /\ CrashNeedsFailure /\ WaitingHasTimer

\* Q_ASSERT(state == CLIENT_CONNECTING) in clientConnected, which runs for every
\* confirmation the client's peer accepts, a repeated one too: whenever the next
\* message to be read is such a confirmation, the instance is still connecting,
\* over this connection.
Accepts(p, s) == p.sock = "Connected" /\ p.authResponseSent /\ s # <<>> /\ Head(s) = "valid"
ConnectedWhileConnecting ==
    \A k \in Conns : Accepts(peer.client[k], net.client[k])
                        => state = "CLIENT_CONNECTING" /\ client = k

\* RemoteSync reports CLIENT only for a peer that both ends have authenticated,
\* running the same version.
ClientIsAuthenticated ==
    state = "CLIENT" =>
        /\ compat \in {"same", "large"}
        /\ peer.client[client].authenticated
        /\ peer.server[client].sock # "Unconnected" => peer.server[client].authenticated

\* Programs of the same version never refuse each other's messages, whatever
\* happens to the connection and whenever either side gives it up.
NoProtocolError ==
    compat = "same" =>
        \A e \in End, k \in Conns :
            /\ "error" \notin {peer[e][k].out[i] : i \in DOMAIN peer[e][k].out}
            /\ "error" \notin {net[e][k][i] : i \in DOMAIN net[e][k]}

\* A server that refused the client is not taken for one that quit: what
\* follows is the behaviour for a lost connection.
RefusalIsNotAQuit ==
    [][client # None /\ peer.client[client].told /\ client' = None /\ wanted'
         => /\ app' = IF LostBehavior = "QUIT" THEN "quit" ELSE "running"
            /\ state' = IF LostBehavior = "RECONNECT" THEN "CLIENT_WAIT_RECONNECT"
                                                      ELSE "IDLE"]_vars

\* No state between two settled ones lasts for ever.
Transient == {"CLIENT_CONNECTING", "CLIENT_CLOSING", "CLIENT_WAIT_RECONNECT"}
TransientEnds == \A s \in Transient : state = s ~> state # s

\* The server does not keep a peer whose client has gone.
DeadPeersLeave ==
    \A k \in Conns :
        peer.client[k].sock = "Unconnected" ~>
            peer.server[k].sock = "Unconnected" \/ peer.client[k].sock # "Unconnected"
================================================================================
