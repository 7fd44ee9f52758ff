---------------------------- MODULE SyncSession_proofs ----------------------------
(*****************************************************************************)
(* Proofs about SyncSession: what follows a refusal, who is confirmed, that  *)
(* programs of the same version never refuse each other's messages, and, on  *)
(* these, the client pointer with what may crash it, the reconnect timer and *)
(* the moment of every confirmation, for any number of connections, all      *)
(* settings and all differences between the two programs.                    *)
(*****************************************************************************)
EXTENDS SyncSession, SequenceTheorems, TLAPS

\* A socket that neither sends nor closes has nothing to send.
Dry(p) == p.sock \notin {"Connected", "Closing"} => p.out = <<>>
Drained == \A e \in End, k \in Conns : Dry(peer[e][k])

\* Who is confirmed, who is closing, and that the program runs while it has a client.
Confirmation == state \in {"CLIENT", "CLIENT_CLOSING"} => peer.client[client].authenticated = TRUE
ClosingIsAsked == state = "CLIENT_CLOSING" => wanted = FALSE
ClientRuns == client # None => app = "running"

Inv == /\ TypeOK /\ ClientPointer /\ WaitingHasTimer /\ Drained
       /\ Confirmation /\ ClosingIsAsked /\ ClientRuns

\* The action property, for one step.
Refused ==
    client # None /\ peer.client[client].told /\ client' = None /\ wanted'
      => /\ app' = IF LostBehavior = "QUIT" THEN "quit" ELSE "running"
         /\ state' = IF LostBehavior = "RECONNECT" THEN "CLIENT_WAIT_RECONNECT" ELSE "IDLE"
Good == Inv' /\ Refused

LEMMA Settings == /\ None \notin Conns /\ LostBehavior \in Behavior /\ QuitBehavior \in Behavior
                  /\ MaxUnsent \in Nat
  BY SessionAssumption

LEMMA Ends == End = {"client", "server"} /\ \A e \in End : Other(e) \in End /\ Other(e) # e
  BY DEF End, Other

--------------------------------------------------------------------------------
(* What the operations on a peer keep.                                        *)

\* q may follow p: it is dry, and what p was told and confirmed stays.
Sound(q) == q \in Peer /\ Dry(q)
Grows(p, q) == /\ Sound(q) /\ (p.told = TRUE => q.told = TRUE)
               /\ q.authenticated = p.authenticated

LEMMA PeerFields ==
    ASSUME NEW p \in Peer
    PROVE  /\ p.sock \in Socket /\ p.expectDisconnect \in BOOLEAN /\ p.authenticated \in BOOLEAN
           /\ p.authResponseSent \in BOOLEAN /\ p.failed \in BOOLEAN /\ p.told \in BOOLEAN
           /\ p.out \in Seq(Message)
  BY DEF Peer

LEMMA ResetGrows ==
    ASSUME NEW p \in Peer
    PROVE  Grows(p, Reset(p)) /\ Reset(p).sock = "Unconnected"
  BY EmptySeq DEF Reset, Peer, Socket, Grows, Sound, Dry

LEMMA HostGrows ==
    ASSUME NEW p \in Peer
    PROVE  /\ Grows(p, disconnectFromHost(p))
           /\ disconnectFromHost(p).sock \in {"Unconnected", "Closing"}
           /\ p.out # <<>> => disconnectFromHost(p).sock = "Closing"
<1>1. CASE p.out = <<>>
  BY <1>1, ResetGrows DEF disconnectFromHost
<1>2. CASE p.out # <<>>
  <2>1. disconnectFromHost(p) = [p EXCEPT !.sock = "Closing"]
    BY <1>2 DEF disconnectFromHost
  <2> QED
    BY <1>2, <2>1 DEF Peer, Socket, Grows, Sound, Dry
<1> QED
  BY <1>1, <1>2

LEMMA WriteGrows ==
    ASSUME NEW p \in Peer, Dry(p), NEW m \in Message
    PROVE  /\ Grows(p, writeData(p, m)) /\ writeData(p, m).sock = p.sock
           /\ writeData(p, m).authResponseSent = p.authResponseSent
           /\ p.sock = "Connected" => writeData(p, m).out # <<>>
<1>1. CASE p.sock = "Connected"
  <2>1. p.out \in Seq(Message)
    BY PeerFields
  <2>2. Append(p.out, m) \in Seq(Message) /\ Append(p.out, m) # <<>>
    BY <2>1, AppendProperties
  <2>3. writeData(p, m) = [p EXCEPT !.out = Append(p.out, m)]
    BY <1>1 DEF writeData
  <2> QED
    BY <1>1, <2>2, <2>3 DEF Peer, Grows, Sound, Dry
<1>2. CASE p.sock # "Connected"
  BY <1>2 DEF writeData, Grows, Sound
<1> QED
  BY <1>1, <1>2

\* Members that say why the connection ended.
LEMMA FailedGrows ==
    ASSUME NEW p \in Peer, Dry(p)
    PROVE  /\ Grows(p, [p EXCEPT !.failed = TRUE]) /\ Grows(p, [p EXCEPT !.expectDisconnect = TRUE])
           /\ Grows(p, [p EXCEPT !.failed = TRUE, !.expectDisconnect = TRUE])
           /\ [p EXCEPT !.failed = TRUE].out = p.out /\ [p EXCEPT !.failed = TRUE].sock = p.sock
           /\ [p EXCEPT !.expectDisconnect = TRUE].sock = p.sock
  BY DEF Peer, Grows, Sound, Dry

LEMMA ErrorGrows ==
    ASSUME NEW p \in Peer, Dry(p)
    PROVE  /\ Grows(p, writeError(p)) /\ writeError(p).sock # "Connected"
           /\ p.sock = "Connected" => writeError(p).sock = "Closing"
<1>1. "error" \in Message
  BY DEF Message
<1> DEFINE w == writeData(p, "error")
           f == [w EXCEPT !.failed = TRUE]
<1>2. Grows(p, w) /\ (p.sock = "Connected" => w.out # <<>>)
  BY <1>1, WriteGrows
<1> HIDE DEF w
<1>3. w \in Peer /\ Dry(w)
  BY <1>2 DEF Grows, Sound
<1>4. Grows(w, f) /\ f.out = w.out
  BY <1>3, FailedGrows
<1> HIDE DEF f
<1>5. f \in Peer
  BY <1>4 DEF Grows, Sound
<1>6. /\ Grows(f, disconnectFromHost(f))
      /\ disconnectFromHost(f).sock \in {"Unconnected", "Closing"}
      /\ f.out # <<>> => disconnectFromHost(f).sock = "Closing"
  BY <1>5, HostGrows
<1>7. writeError(p) = disconnectFromHost(f)
  BY DEF writeError, w, f
<1> QED
  BY <1>2, <1>4, <1>6, <1>7 DEF Grows

LEMMA NewPeerSound ==
    ASSUME NEW s \in Socket
    PROVE  /\ Sound(NewPeer(s)) /\ NewPeer(s).sock = s /\ ~NewPeer(s).authenticated
  BY EmptySeq DEF NewPeer, Peer, Sound, Dry

--------------------------------------------------------------------------------
(* What becomes of one peer, and of the client instance with it.              *)

LEMMA BecomesTyped ==
    ASSUME TypeOK, NEW e \in End, NEW k \in Conns, NEW q \in Peer,
           NEW rest \in Seq(Packet), NEW sent \in Seq(Packet), Becomes(e, k, q, rest, sent)
    PROVE  /\ peer' \in [End -> [Conns -> Peer]] /\ net' \in [End -> [Conns -> Seq(Packet)]]
           /\ \A d \in End, l \in Conns :
                peer'[d][l] = IF d = e /\ l = k THEN q ELSE peer[d][l]
<1>1. peer \in [End -> [Conns -> Peer]] /\ net \in [End -> [Conns -> Seq(Packet)]]
  BY DEF TypeOK
<1>2. peer' = [peer EXCEPT ![e][k] = q]
  BY DEF Becomes
<1>3. peer' \in [End -> [Conns -> Peer]]
      /\ \A d \in End, l \in Conns : peer'[d][l] = IF d = e /\ l = k THEN q ELSE peer[d][l]
  BY <1>1, <1>2
<1> DEFINE o == Other(e)
           mine == IF q.sock = "Unconnected" THEN <<>> ELSE rest
           first == [net EXCEPT ![e][k] = mine]
           fin == IF q.sock = "Unconnected" THEN <<"fin">> ELSE <<>>
           theirs == IF ~(k \notin cut /\ peer[o][k].sock # "Unconnected") THEN net[o][k]
                     ELSE net[o][k] \o sent \o fin
<1>4. net' = [first EXCEPT ![o][k] = theirs]
  BY DEF Becomes
<1>5. mine \in Seq(Packet) /\ fin \in Seq(Packet)
  <2>1. <<>> \in Seq(Packet) /\ "fin" \in Packet
    BY EmptySeq DEF Packet
  <2>2. <<"fin">> \in Seq(Packet)
    BY <2>1
  <2> QED
    BY <2>1, <2>2
<1> HIDE DEF mine
<1>6. o \in End
  BY Ends
<1>7. first \in [End -> [Conns -> Seq(Packet)]]
  BY <1>1, <1>5
<1> HIDE DEF first, fin, o
<1>8. net[o][k] \in Seq(Packet)
  BY <1>1, <1>6
<1>9. net[o][k] \o sent \in Seq(Packet)
  BY <1>8, ConcatProperties
<1>10. net[o][k] \o sent \o fin \in Seq(Packet)
  BY <1>5, <1>9, ConcatProperties
<1>11. theirs \in Seq(Packet)
  BY <1>8, <1>10
<1> HIDE DEF theirs
<1>12. net' \in [End -> [Conns -> Seq(Packet)]]
  BY <1>4, <1>6, <1>7, <1>11
<1> QED
  BY <1>3, <1>12

LEMMA ClientGone ==
    ASSUME TypeOK, NEW q, NEW now, clientDisconnected(q, now)
    PROVE  /\ client' = None /\ state' \in {"IDLE", "CLIENT_WAIT_RECONNECT"}
           /\ reconnectTimer' \in BOOLEAN
           /\ state' = "CLIENT_WAIT_RECONNECT" => reconnectTimer' = TRUE
           /\ app' \in {"running", "quit", "crashed"}
           /\ q.told = TRUE /\ now # "CLIENT_CLOSING"
                => /\ app' = IF LostBehavior = "QUIT" THEN "quit" ELSE app
                   /\ state' = IF LostBehavior = "RECONNECT" THEN "CLIENT_WAIT_RECONNECT"
                                                             ELSE "IDLE"
<1>1. PICK bh : /\ bh = IF IsClean(q) THEN QuitBehavior ELSE LostBehavior
                /\ applyClientBehavior(bh, now)
  BY Zenon DEF clientDisconnected
<1>2. client' = None
  BY DEF clientDisconnected
<1>3. q.told = TRUE => bh = LostBehavior
  BY <1>1 DEF IsClean
<1>4. app \in {"running", "quit", "crashed"} /\ reconnectTimer \in BOOLEAN
  BY DEF TypeOK
<1>5. CASE now = "CLIENT_CLOSING"
  BY <1>1, <1>2, <1>4, <1>5 DEF applyClientBehavior, AfterClosing
<1>6. CASE now # "CLIENT_CLOSING"
  <2>1. /\ reconnectTimer' = StartsTimer(bh)
        /\ state' = IF bh = "RECONNECT" THEN "CLIENT_WAIT_RECONNECT" ELSE "IDLE"
        /\ app' = IF bh = "QUIT" THEN "quit" ELSE app
    BY <1>1, <1>6 DEF applyClientBehavior
  <2>2. reconnectTimer' \in BOOLEAN /\ (bh = "RECONNECT" => reconnectTimer' = TRUE)
    BY <2>1, Zenon DEF StartsTimer
  <2> QED
    BY <1>2, <1>3, <1>4, <1>6, <2>1, <2>2
<1> QED
  BY <1>5, <1>6

\* Only the server's end of a connection changes.
LEMMA ServerStep ==
    ASSUME Inv, NEW k \in Conns, NEW q, Sound(q), NEW rest \in Seq(Packet),
           NEW sent \in Seq(Packet), PeerEvent("server", k, q, rest, sent)
    PROVE  Good
<1> TypeOK
  BY DEF Inv
<1>1. /\ Becomes("server", k, q, rest, sent)
      /\ state' = state /\ client' = client /\ reconnectTimer' = reconnectTimer /\ app' = app
      /\ compat' = compat /\ wanted' = wanted /\ listening' = listening /\ cut' = cut
  BY DEF PeerEvent, Signals
<1>2. "server" \in End /\ "client" \in End /\ q \in Peer /\ Dry(q)
  BY DEF End, Sound
<1>3. /\ peer' \in [End -> [Conns -> Peer]] /\ net' \in [End -> [Conns -> Seq(Packet)]]
      /\ \A d \in End, l \in Conns :
           peer'[d][l] = IF d = "server" /\ l = k THEN q ELSE peer[d][l]
  BY <1>1, <1>2, BecomesTyped
<1>4. \A l \in Conns : peer'["client"][l] = peer["client"][l]
  BY <1>2, <1>3
<1>5. TypeOK'
  BY <1>1, <1>3 DEF TypeOK
<1>6. ClientPointer' /\ WaitingHasTimer' /\ Drained'
  <2>1. ClientPointer /\ WaitingHasTimer /\ Drained
    BY DEF Inv
  <2>2. ClientPointer'
    BY <1>1, <1>4, <2>1 DEF ClientPointer
  <2>3. WaitingHasTimer'
    BY <1>1, <2>1, Zenon DEF WaitingHasTimer
  <2>4. Drained'
    BY <1>2, <1>3, <2>1 DEF Drained
  <2> QED
    BY <2>2, <2>3, <2>4
<1>7. Confirmation' /\ ClosingIsAsked' /\ ClientRuns'
  <2>1. ClientPointer /\ Confirmation /\ ClosingIsAsked /\ ClientRuns /\ client \in Conns \union {None}
    BY DEF Inv, TypeOK
  <2>2. state \in {"CLIENT", "CLIENT_CLOSING"} => client \in Conns
    BY <2>1, Settings DEF ClientPointer
  <2> QED
    BY <1>1, <1>4, <2>1, <2>2 DEF Confirmation, ClosingIsAsked, ClientRuns
<1>8. Refused
  BY <1>1, Settings DEF Refused
<1> QED
  BY <1>5, <1>6, <1>7, <1>8 DEF Good, Inv

\* The client's end changes, and RemoteSync sees the state `now`.
LEMMA ClientStep ==
    ASSUME Inv, NEW k \in Conns, peer.client[k].sock # "Unconnected",
           NEW q, Sound(q), NEW rest \in Seq(Packet), NEW sent \in Seq(Packet),
           Becomes("client", k, q, rest, sent),
           NEW now \in {"CLIENT_CONNECTING", "CLIENT", "CLIENT_CLOSING"}, Signals("client", q, now),
           UNCHANGED <<compat, listening, cut>>, wanted' \in BOOLEAN,
           wanted' = TRUE => wanted = TRUE,
           now = "CLIENT_CLOSING" => wanted' = FALSE,
           now # "CLIENT_CONNECTING" => q.authenticated = TRUE,
           peer.client[k].told = TRUE => q.told = TRUE
    PROVE  Good
<1> TypeOK
  BY DEF Inv
<1>1. compat' = compat /\ listening' = listening /\ cut' = cut
  OBVIOUS
<1>2. "server" \in End /\ "client" \in End /\ q \in Peer /\ Dry(q)
  BY DEF End, Sound
<1>3. /\ peer' \in [End -> [Conns -> Peer]] /\ net' \in [End -> [Conns -> Seq(Packet)]]
      /\ \A d \in End, l \in Conns :
           peer'[d][l] = IF d = "client" /\ l = k THEN q ELSE peer[d][l]
  BY <1>1, <1>2, BecomesTyped
<1>4. client = k /\ k # None /\ app = "running"
  BY Settings DEF Inv, ClientPointer, ClientRuns
<1>5. \A l \in Conns : /\ l = k => peer'["client"][l] = q
                       /\ l # k => /\ peer'["client"][l] = peer["client"][l]
                                   /\ peer["client"][l].sock = "Unconnected"
  BY <1>2, <1>3, <1>4 DEF Inv, ClientPointer
<1>6. Drained'
  BY <1>2, <1>3 DEF Drained, Inv
<1>7. CASE q.sock # "Unconnected"
  <2>1. state' = now /\ client' = client /\ reconnectTimer' = reconnectTimer /\ app' = app
    BY <1>7 DEF Signals
  <2>2. TypeOK'
    BY <1>1, <1>3, <2>1 DEF TypeOK, State
  <2>3. ClientPointer' /\ WaitingHasTimer'
    BY <1>4, <1>5, <1>7, <2>1 DEF ClientPointer, WaitingHasTimer
  <2>4. Confirmation' /\ ClosingIsAsked' /\ ClientRuns'
    BY <1>4, <1>5, <2>1 DEF Confirmation, ClosingIsAsked, ClientRuns
  <2>5. Refused
    BY <1>4, <2>1 DEF Refused
  <2> QED
    BY <1>6, <2>2, <2>3, <2>4, <2>5 DEF Good, Inv
<1>8. CASE q.sock = "Unconnected"
  <2>1. clientDisconnected(q, now)
    BY <1>8 DEF Signals
  <2>2. /\ client' = None /\ state' \in {"IDLE", "CLIENT_WAIT_RECONNECT"}
        /\ reconnectTimer' \in BOOLEAN
        /\ state' = "CLIENT_WAIT_RECONNECT" => reconnectTimer' = TRUE
        /\ app' \in {"running", "quit", "crashed"}
        /\ q.told = TRUE /\ now # "CLIENT_CLOSING"
             => /\ app' = IF LostBehavior = "QUIT" THEN "quit" ELSE app
                /\ state' = IF LostBehavior = "RECONNECT" THEN "CLIENT_WAIT_RECONNECT"
                                                          ELSE "IDLE"
    BY <2>1, ClientGone
  <2>3. TypeOK'
    BY <1>1, <1>3, <2>2 DEF TypeOK, State
  <2>4. ClientPointer' /\ WaitingHasTimer'
    <3>1. \A l \in Conns : peer'["client"][l].sock = "Unconnected" /\ l # None
      BY <1>5, <1>8, Settings
    <3> QED
      BY <2>2, <3>1 DEF ClientPointer, WaitingHasTimer
  <2>5. Confirmation' /\ ClosingIsAsked' /\ ClientRuns'
    BY <2>2 DEF Confirmation, ClosingIsAsked, ClientRuns
  <2>6. Refused
    <3> SUFFICES ASSUME peer.client[client].told = TRUE, wanted' = TRUE
                 PROVE  /\ app' = IF LostBehavior = "QUIT" THEN "quit" ELSE "running"
                        /\ state' = IF LostBehavior = "RECONNECT" THEN "CLIENT_WAIT_RECONNECT"
                                                                  ELSE "IDLE"
      BY DEF Refused
    <3> QED
      BY <1>4, <2>2
  <2> QED
    BY <1>6, <2>3, <2>4, <2>5, <2>6 DEF Good, Inv
<1> QED
  BY <1>7, <1>8

\* An event at either end that confirms nobody.
LEMMA EndEvent ==
    ASSUME Inv, NEW e \in End, NEW k \in Conns, peer[e][k].sock # "Unconnected",
           NEW q, Grows(peer[e][k], q), NEW rest \in Seq(Packet), NEW sent \in Seq(Packet),
           PeerEvent(e, k, q, rest, sent)
    PROVE  Good
<1>1. Sound(q)
  BY DEF Grows
<1>2. CASE e = "server"
  BY <1>1, <1>2, ServerStep
<1>3. CASE e = "client"
  <2>1. /\ Becomes("client", k, q, rest, sent) /\ Signals("client", q, state)
        /\ UNCHANGED <<compat, listening, cut>> /\ wanted' = wanted
    BY <1>3 DEF PeerEvent
  <2>2. wanted' \in BOOLEAN /\ (wanted' = TRUE => wanted = TRUE)
    BY <2>1 DEF Inv, TypeOK
  <2>3. client = k /\ peer.client[k].sock # "Unconnected"
    BY <1>3 DEF Inv, ClientPointer
  <2>4. state \in {"CLIENT_CONNECTING", "CLIENT", "CLIENT_CLOSING"}
    BY <2>3, Settings DEF Inv, ClientPointer
  <2>5. /\ state = "CLIENT_CLOSING" => wanted' = FALSE
        /\ state # "CLIENT_CONNECTING" => q.authenticated = TRUE
    BY <1>3, <2>1, <2>3, <2>4 DEF Inv, ClosingIsAsked, Confirmation, Grows
  <2>6. peer.client[k].told = TRUE => q.told = TRUE
    BY <1>3 DEF Grows
  <2> QED
    BY <1>1, <2>1, <2>2, <2>3, <2>4, <2>5, <2>6, ClientStep
<1> QED
  BY <1>2, <1>3 DEF End

LEMMA PeersKnown ==
    ASSUME Inv, NEW e \in End, NEW k \in Conns
    PROVE  /\ peer[e][k] \in Peer /\ Dry(peer[e][k]) /\ net[e][k] \in Seq(Packet)
           /\ <<>> \in Seq(Packet)
  BY EmptySeq DEF Inv, TypeOK, Drained

--------------------------------------------------------------------------------
(* The events of a connection.                                                *)

LEMMA FlushStep ==
    ASSUME Inv, NEW e \in End, NEW k \in Conns, Flush(e, k)
    PROVE  Good
<1> DEFINE p == peer[e][k]
           q == [p EXCEPT !.out = Tail(p.out)]
           r == IF p.sock = "Closing" /\ q.out = <<>> THEN Reset(q) ELSE q
<1>1. p.out # <<>> /\ PeerEvent(e, k, r, net[e][k], <<Head(p.out)>>)
  BY DEF Flush
<1>2. p \in Peer /\ Dry(p) /\ net[e][k] \in Seq(Packet)
  BY PeersKnown
<1> HIDE DEF p
<1>3. p.out \in Seq(Message)
  BY <1>2, PeerFields
<1>4. Tail(p.out) \in Seq(Message) /\ Head(p.out) \in Message
  BY <1>1, <1>3, HeadTailProperties
<1>5. p.sock \in {"Connected", "Closing"}
  BY <1>1, <1>2 DEF Dry
<1>6. Grows(p, q) /\ q \in Peer
  BY <1>2, <1>4, <1>5 DEF Grows, Sound, Dry, Peer
<1>7. Grows(p, r)
  <2> HIDE DEF q
  <2>1. Grows(q, Reset(q))
    BY <1>6, ResetGrows
  <2> QED
    BY <1>6, <2>1 DEF Grows
<1>8. <<Head(p.out)>> \in Seq(Packet)
  BY <1>4 DEF Packet
<1> HIDE DEF q, r
<1>9. p.sock # "Unconnected"
  BY <1>5
<1> QED
  BY <1>1, <1>2, <1>7, <1>8, <1>9, EndEvent DEF p

LEMMA NetErrorStep ==
    ASSUME Inv, NEW e \in End, NEW k \in Conns, NetError(e, k)
    PROVE  Good
<1> DEFINE p == peer[e][k]
           f == [p EXCEPT !.failed = TRUE]
<1>1. p.sock \in {"Connected", "Closing"} /\ PeerEvent(e, k, Reset(f), <<>>, <<>>)
  BY DEF NetError
<1>2. p \in Peer /\ Dry(p) /\ <<>> \in Seq(Packet)
  BY PeersKnown
<1> HIDE DEF p
<1>3. Grows(p, f) /\ f \in Peer
  BY <1>2, FailedGrows DEF Grows, Sound
<1> HIDE DEF f
<1>4. Grows(p, Reset(f))
  BY <1>3, ResetGrows DEF Grows
<1>5. p.sock # "Unconnected"
  BY <1>1
<1> QED
  BY <1>1, <1>2, <1>4, <1>5, EndEvent DEF p

LEMMA TimeoutStep ==
    ASSUME Inv, NEW e \in End, NEW k \in Conns, Timeout(e, k)
    PROVE  Good
<1> DEFINE p == peer[e][k]
           f == [p EXCEPT !.failed = TRUE]
<1>1. /\ f.sock \in {"Connected", "Connecting"}
      /\ \/ PeerEvent(e, k, disconnectFromHost(writeData(f, "alive")), net[e][k], <<>>)
         \/ PeerEvent(e, k, disconnectFromHost(f), net[e][k], <<>>)
         \/ PeerEvent(e, k, Reset(f), <<>>, <<>>)
  BY DEF Timeout
<1>2. p \in Peer /\ Dry(p) /\ net[e][k] \in Seq(Packet) /\ <<>> \in Seq(Packet)
  BY PeersKnown
<1> HIDE DEF p
<1>3. Grows(p, f) /\ f \in Peer /\ Dry(f) /\ f.sock = p.sock
  BY <1>2, FailedGrows DEF Grows, Sound
<1> HIDE DEF f
<1>4. Grows(p, Reset(f)) /\ Grows(p, disconnectFromHost(f))
  BY <1>3, ResetGrows, HostGrows DEF Grows
<1> DEFINE w == writeData(f, "alive")
<1>5. Grows(p, w) /\ w \in Peer
  BY <1>3, WriteGrows DEF Grows, Sound, Message
<1> HIDE DEF w
<1>6. Grows(p, disconnectFromHost(w))
  BY <1>5, HostGrows DEF Grows
<1>7. p.sock # "Unconnected"
  BY <1>1, <1>3
<1>8. CASE PeerEvent(e, k, disconnectFromHost(w), net[e][k], <<>>)
  BY <1>2, <1>6, <1>7, <1>8, EndEvent DEF p
<1>9. CASE PeerEvent(e, k, disconnectFromHost(f), net[e][k], <<>>)
  BY <1>2, <1>4, <1>7, <1>9, EndEvent DEF p
<1>10. CASE PeerEvent(e, k, Reset(f), <<>>, <<>>)
  BY <1>2, <1>4, <1>7, <1>10, EndEvent DEF p
<1> QED
  BY <1>1, <1>8, <1>9, <1>10 DEF w

LEMMA AliveStep ==
    ASSUME Inv, NEW e \in End, NEW k \in Conns, Alive(e, k)
    PROVE  Good
<1> DEFINE p == peer[e][k]
<1>1. p.sock = "Connected" /\ PeerEvent(e, k, writeData(p, "alive"), net[e][k], <<>>)
  BY DEF Alive
<1>2. p \in Peer /\ Dry(p) /\ net[e][k] \in Seq(Packet) /\ <<>> \in Seq(Packet)
  BY PeersKnown
<1> HIDE DEF p
<1>3. Grows(p, writeData(p, "alive"))
  BY <1>2, WriteGrows DEF Message
<1>4. p.sock # "Unconnected"
  BY <1>1
<1> QED
  BY <1>1, <1>2, <1>3, <1>4, EndEvent DEF p

LEMMA RemoteHostClosedStep ==
    ASSUME Inv, NEW e \in End, NEW k \in Conns, RemoteHostClosed(e, k)
    PROVE  Good
<1> DEFINE p == peer[e][k]
           f == [p EXCEPT !.failed = TRUE, !.expectDisconnect = TRUE]
<1>1. p.sock = "Connected" /\ PeerEvent(e, k, disconnectFromHost(f), <<>>, <<>>)
  BY DEF RemoteHostClosed
<1>2. p \in Peer /\ Dry(p) /\ <<>> \in Seq(Packet)
  BY PeersKnown
<1> HIDE DEF p
<1>3. Grows(p, f) /\ f \in Peer
  BY <1>2, FailedGrows DEF Grows, Sound
<1> HIDE DEF f
<1>4. Grows(p, disconnectFromHost(f))
  BY <1>3, HostGrows DEF Grows
<1>5. p.sock # "Unconnected"
  BY <1>1
<1> QED
  BY <1>1, <1>2, <1>4, <1>5, EndEvent DEF p

LEMMA SocketFailsStep ==
    ASSUME Inv, NEW k \in Conns, SocketFails(k)
    PROVE  Good
<1> DEFINE p == peer["client"][k]
           f == [p EXCEPT !.failed = TRUE]
<1>1. p.sock = "Connecting" /\ PeerEvent("client", k, Reset(f), <<>>, <<>>)
  BY DEF SocketFails
<1>2. "client" \in End /\ p \in Peer /\ Dry(p) /\ <<>> \in Seq(Packet)
  BY PeersKnown DEF End
<1> HIDE DEF p
<1>3. Grows(p, f) /\ f \in Peer
  BY <1>2, FailedGrows DEF Grows, Sound
<1> HIDE DEF f
<1>4. Grows(p, Reset(f))
  BY <1>3, ResetGrows DEF Grows
<1>5. p.sock # "Unconnected"
  BY <1>1
<1> QED
  BY <1>1, <1>2, <1>4, <1>5, EndEvent DEF p

--------------------------------------------------------------------------------
(* The handlers.                                                              *)

LEMMA ClientHandled ==
    ASSUME NEW p \in Peer, p.sock = "Connected", NEW m \in Message,
           NEW q \in Handled("client", p, m)
    PROVE  /\ Sound(q) /\ (p.told = TRUE => q.told = TRUE)
           /\ p.authenticated = TRUE => q.authenticated = TRUE
           /\ m = "valid" /\ q.sock = "Connected" => q.authenticated = TRUE
           /\ q.authenticated = TRUE => p.authenticated = TRUE \/ m = "valid"
           /\ q.sock # "Connecting"
<1>1. Dry(p)
  BY DEF Dry
<1>2. Grows(p, writeError(p)) /\ writeError(p).sock = "Closing"
  BY <1>1, ErrorGrows
<1>3. CASE q = writeError(p)
  BY <1>2, <1>3 DEF Grows
<1>4. CASE q = [p EXCEPT !.told = TRUE] /\ m = "error"
  BY <1>4 DEF Peer, Sound, Dry
<1>5. CASE q = [p EXCEPT !.authenticated = TRUE] /\ m = "valid"
  BY <1>5 DEF Peer, Sound, Dry
<1>6. CASE q = writeData([p EXCEPT !.authResponseSent = TRUE], "response") /\ m = "challenge"
  <2> DEFINE r == [p EXCEPT !.authResponseSent = TRUE]
  <2>1. Grows(p, r) /\ r \in Peer /\ Dry(r) /\ r.sock = p.sock
    BY DEF Peer, Grows, Sound, Dry
  <2> HIDE DEF r
  <2>2. Grows(r, writeData(r, "response")) /\ writeData(r, "response").sock = r.sock
    BY <2>1, WriteGrows DEF Message
  <2>3. q = writeData(r, "response")
    BY <1>6 DEF r
  <2> QED
    BY <1>6, <2>1, <2>2, <2>3 DEF Grows
<1>7. CASE q = p /\ m # "valid"
  BY <1>1, <1>7 DEF Sound
<1> HIDE DEF Dry
<1>8. CASE m \in Restricted /\ ~p.authenticated
  <2>1. q \in {writeError(p)}
    BY <1>8 DEF Handled
  <2> QED
    BY <1>3, <2>1
<1>9. CASE ~(m \in Restricted /\ ~p.authenticated)
  <2>1. q = ClientHandles(p, m)
    BY <1>9 DEF Handled
  <2>2. CASE m = "error"
    BY <1>4, <2>1, <2>2 DEF ClientHandles
  <2>3. CASE m = "challenge"
    BY <1>3, <1>6, <2>1, <2>3 DEF ClientHandles, Challenge
  <2>4. CASE m = "valid"
    BY <1>3, <1>5, <2>1, <2>4 DEF ClientHandles, Confirm
  <2>5. CASE m \in {"alive", "state"}
    BY <1>7, <2>1, <2>5 DEF ClientHandles
  <2>6. CASE m = "response"
    BY <1>3, <2>1, <2>6 DEF ClientHandles
  <2> QED
    BY <2>2, <2>3, <2>4, <2>5, <2>6 DEF Message
<1> QED
  BY <1>8, <1>9

LEMMA ServerHandled ==
    ASSUME NEW p \in Peer, p.sock = "Connected", NEW m \in Message,
           NEW q \in Handled("server", p, m)
    PROVE  Sound(q)
<1>1. Dry(p)
  BY DEF Dry
<1>2. Sound(writeError(p))
  BY <1>1, ErrorGrows DEF Grows
<1>3. Sound(p)
  BY <1>1 DEF Sound
<1> DEFINE a == [p EXCEPT !.authenticated = TRUE]
           v == writeData(a, "valid")
<1>4. a \in Peer /\ Dry(a)
  BY DEF Peer, Dry
<1> HIDE DEF a
<1>5. v \in Peer /\ Dry(v)
  BY <1>4, WriteGrows DEF Grows, Sound, Message
<1> HIDE DEF v
<1>6. Sound(writeData(v, "state")) /\ Sound(writeError(v))
  BY <1>5, WriteGrows, ErrorGrows DEF Grows, Message
<1>7. \A r \in Responses(p) : Sound(r)
  <2>1. ConfirmFirst(p) = writeData(v, "state") /\ TooLarge(p) = writeError(v)
    BY DEF ConfirmFirst, TooLarge, v, a
  <2>2. \A r \in Responses(p) : r \in {writeError(p), ConfirmFirst(p), TooLarge(p)}
    BY Zenon DEF Responses
  <2> QED
    BY <1>2, <1>6, <2>1, <2>2
<1>8. q \in {p, writeError(p)} \/ q \in Responses(p)
  <2>1. "server" # "client"
    OBVIOUS
  <2>2. q \in {writeError(p)} \/ q \in ServerHandles(p, m)
    BY <2>1, Zenon DEF Handled
  <2>3. \A r \in ServerHandles(p, m) : r \in {p, writeError(p)} \/ r \in Responses(p)
    BY DEF ServerHandles
  <2> QED
    BY <2>2, <2>3
<1> QED
  BY <1>2, <1>3, <1>7, <1>8

LEMMA ReceiveMessageStep ==
    ASSUME Inv, NEW e \in End, NEW k \in Conns, ReceiveMessage(e, k)
    PROVE  Good
<1> DEFINE p == peer[e][k]
           m == Head(net[e][k])
           rest == Tail(net[e][k])
           now(q) == IF e = "client" THEN clientConnected(q, m) ELSE state
<1>1. PICK q \in Handled(e, p, m) : Becomes(e, k, q, rest, <<>>) /\ Signals(e, q, now(q))
  BY DEF ReceiveMessage
<1>2. /\ p.sock = "Connected" /\ net[e][k] # <<>> /\ m # "fin"
      /\ UNCHANGED <<compat, wanted, listening, cut>>
  BY DEF ReceiveMessage
<1>3. p \in Peer /\ net[e][k] \in Seq(Packet) /\ <<>> \in Seq(Packet)
  BY PeersKnown
<1>4. m \in Message /\ rest \in Seq(Packet)
  <2>1. m \in Packet /\ rest \in Seq(Packet)
    BY <1>2, <1>3, HeadTailProperties
  <2> QED
    BY <1>2, <2>1 DEF Packet
<1> HIDE DEF p, m, rest
<1>5. CASE e = "server"
  <2>1. Sound(q)
    BY <1>1, <1>2, <1>3, <1>4, <1>5, ServerHandled
  <2>2. PeerEvent("server", k, q, rest, <<>>)
    BY <1>1, <1>2, <1>5 DEF PeerEvent
  <2> QED
    BY <1>3, <1>4, <2>1, <2>2, ServerStep
<1>6. CASE e = "client"
  <2>1. /\ Sound(q) /\ (p.told = TRUE => q.told = TRUE)
        /\ p.authenticated = TRUE => q.authenticated = TRUE
        /\ m = "valid" /\ q.sock = "Connected" => q.authenticated = TRUE
    BY <1>1, <1>2, <1>3, <1>4, <1>6, ClientHandled
  <2>2. p = peer.client[k] /\ p.sock # "Unconnected"
    BY <1>2, <1>6 DEF p
  <2>3. client = k
    BY <2>2 DEF Inv, ClientPointer
  <2>4. state \in {"CLIENT_CONNECTING", "CLIENT", "CLIENT_CLOSING"}
    BY <2>3, Settings DEF Inv, ClientPointer
  <2>5. state # "CLIENT_CONNECTING" => p.authenticated = TRUE
    BY <2>2, <2>3, <2>4 DEF Inv, Confirmation
  <2> DEFINE n == clientConnected(q, m)
  <2>6. /\ n = state \/ (n = "CLIENT" /\ q.authenticated = TRUE)
        /\ n \in {"CLIENT_CONNECTING", "CLIENT", "CLIENT_CLOSING"}
    <3>1. CASE m = "valid" /\ q.sock = "Connected"
      BY <2>1, <3>1 DEF clientConnected
    <3>2. CASE ~(m = "valid" /\ q.sock = "Connected")
      BY <2>4, <3>2 DEF clientConnected
    <3> QED
      BY <3>1, <3>2
  <2>7. Becomes("client", k, q, rest, <<>>) /\ Signals("client", q, n)
    BY <1>1, <1>6
  <2> HIDE DEF n
  <2>8. wanted' = wanted /\ UNCHANGED <<compat, listening, cut>> /\ wanted' \in BOOLEAN
    BY <1>2 DEF Inv, TypeOK
  <2>9. /\ n = "CLIENT_CLOSING" => wanted' = FALSE
        /\ n # "CLIENT_CONNECTING" => q.authenticated = TRUE
    BY <2>1, <2>5, <2>6, <2>8 DEF Inv, ClosingIsAsked
  <2> QED
    BY <1>3, <1>4, <2>1, <2>2, <2>6, <2>7, <2>8, <2>9, ClientStep
<1> QED
  BY <1>5, <1>6 DEF End

--------------------------------------------------------------------------------
(* The server's own events, and those that leave the client's peer as it is.  *)

LEMMA NewConnectionStep ==
    ASSUME Inv, NEW k \in Conns, handleNewConnection(k)
    PROVE  Good
<1> DEFINE p == NewPeer("Connected")
<1>1. PeerEvent("server", k, writeData(p, "challenge"), net["server"][k], <<>>)
  BY DEF handleNewConnection
<1>2. p \in Peer /\ Dry(p)
  BY NewPeerSound DEF Socket, Sound
<1> HIDE DEF p
<1>3. Sound(writeData(p, "challenge"))
  BY <1>2, WriteGrows DEF Message, Grows
<1>4. net["server"][k] \in Seq(Packet) /\ <<>> \in Seq(Packet)
  BY PeersKnown DEF End
<1> QED
  BY <1>1, <1>3, <1>4, ServerStep

LEMMA BroadcastStep ==
    ASSUME Inv, NEW k \in Conns, Broadcast(k)
    PROVE  Good
<1> DEFINE p == peer["server"][k]
<1>1. PeerEvent("server", k, writeData(p, "state"), net["server"][k], <<>>)
  BY DEF Broadcast
<1>2. p \in Peer /\ Dry(p) /\ net["server"][k] \in Seq(Packet) /\ <<>> \in Seq(Packet)
  BY PeersKnown DEF End
<1> HIDE DEF p
<1>3. Sound(writeData(p, "state"))
  BY <1>2, WriteGrows DEF Message, Grows
<1> QED
  BY <1>1, <1>2, <1>3, ServerStep

\* RemoteSync sees nothing of it, and the client's sockets that live go on living.
LEMMA QuietStep ==
    ASSUME Inv, peer' \in [End -> [Conns -> Peer]], net' \in [End -> [Conns -> Seq(Packet)]],
           Drained', compat' = compat, state' = state, client' = client, app' = app,
           listening' \in BOOLEAN, cut' \subseteq Conns, wanted' \in BOOLEAN,
           wanted' = TRUE => wanted = TRUE, reconnectTimer' \in BOOLEAN,
           state = "CLIENT_WAIT_RECONNECT" => reconnectTimer' = reconnectTimer,
           \A l \in Conns :
             /\ peer'["client"][l].sock = "Unconnected" <=> peer["client"][l].sock = "Unconnected"
             /\ peer'["client"][l].authenticated = peer["client"][l].authenticated
    PROVE  Good
<1>1. TypeOK /\ ClientPointer /\ WaitingHasTimer /\ Confirmation /\ ClosingIsAsked /\ ClientRuns
  BY DEF Inv
<1>2. TypeOK'
  BY <1>1 DEF TypeOK
<1>3. ClientPointer'
  BY <1>1 DEF ClientPointer
<1>4. WaitingHasTimer'
  BY <1>1, Zenon DEF WaitingHasTimer
<1>5. state \in {"CLIENT", "CLIENT_CLOSING"} => client \in Conns
  BY <1>1, Settings DEF ClientPointer, TypeOK
<1>6. Confirmation' /\ ClosingIsAsked' /\ ClientRuns'
  BY <1>1, <1>2, <1>5 DEF Confirmation, ClosingIsAsked, ClientRuns, TypeOK
<1>7. Refused
  BY Settings DEF Refused
<1> QED
  BY <1>2, <1>3, <1>4, <1>6, <1>7 DEF Good, Inv

LEMMA SocketConnectsStep ==
    ASSUME Inv, NEW k \in Conns, SocketConnects(k)
    PROVE  Good
<1> DEFINE n == NewPeer("Backlog")
           c == [peer["client"] EXCEPT ![k].sock = "Connected"]
           s == [peer["server"] EXCEPT ![k] = n]
<1>1. /\ peer' = [client |-> c, server |-> s] /\ peer["client"][k].sock = "Connecting"
      /\ compat' = compat /\ state' = state /\ client' = client /\ app' = app
      /\ reconnectTimer' = reconnectTimer /\ wanted' = wanted /\ listening' = listening
      /\ net' = net /\ cut' = cut
  BY DEF SocketConnects, remoteSync
<1>2. TypeOK /\ Drained
  BY DEF Inv
<1>3. n \in Peer /\ Dry(n)
  BY NewPeerSound DEF Socket, Sound
<1> HIDE DEF n
<1>4. peer["client"] \in [Conns -> Peer] /\ peer["server"] \in [Conns -> Peer]
  BY <1>2 DEF TypeOK, End
<1>5. /\ c \in [Conns -> Peer] /\ s \in [Conns -> Peer]
      /\ \A l \in Conns : l # k => c[l] = peer["client"][l] /\ s[l] = peer["server"][l]
      /\ s[k] = n
  BY <1>3, <1>4 DEF Peer, Socket
<1>6. /\ c[k].sock = "Connected" /\ Dry(c[k])
      /\ c[k].authenticated = peer["client"][k].authenticated
  BY <1>4 DEF Dry, Peer
<1> HIDE DEF c, s
<1>7. peer' \in [End -> [Conns -> Peer]] /\ peer'["client"] = c /\ peer'["server"] = s
  BY <1>1, <1>5 DEF End
<1>8. Drained'
  <2> SUFFICES ASSUME NEW e \in End, NEW l \in Conns PROVE Dry(peer'[e][l])
    BY DEF Drained, Dry
  <2>1. Dry(peer[e][l])
    BY <1>2 DEF Drained
  <2> QED
    BY <1>3, <1>5, <1>6, <1>7, <2>1 DEF End
<1>9. \A l \in Conns :
        /\ peer'["client"][l].sock = "Unconnected" <=> peer["client"][l].sock = "Unconnected"
        /\ peer'["client"][l].authenticated = peer["client"][l].authenticated
  BY <1>1, <1>5, <1>6, <1>7
<1>10. /\ net' \in [End -> [Conns -> Seq(Packet)]] /\ cut' \subseteq Conns
       /\ wanted' \in BOOLEAN /\ reconnectTimer' \in BOOLEAN /\ listening' \in BOOLEAN
  BY <1>1, <1>2 DEF TypeOK
<1> QED
  BY <1>1, <1>7, <1>8, <1>9, <1>10, QuietStep

LEMMA CutStep ==
    ASSUME Inv, NEW k \in Conns, Cut(k)
    PROVE  Good
<1>1. /\ cut' = cut \union {k} /\ net' = [e \in End |-> [net[e] EXCEPT ![k] = <<>>]]
      /\ compat' = compat /\ state' = state /\ client' = client /\ app' = app
      /\ reconnectTimer' = reconnectTimer /\ wanted' = wanted /\ listening' = listening
      /\ peer' = peer
  BY DEF Cut, remoteSync
<1>2. /\ net' \in [End -> [Conns -> Seq(Packet)]] /\ peer' \in [End -> [Conns -> Peer]]
      /\ cut' \subseteq Conns
      /\ wanted' \in BOOLEAN /\ reconnectTimer' \in BOOLEAN /\ listening' \in BOOLEAN
  BY <1>1, EmptySeq DEF Inv, TypeOK
<1>3. Drained'
  BY <1>1 DEF Inv, Drained
<1> QED
  BY <1>1, <1>2, <1>3, QuietStep

\* The steps that change neither the connections nor the client's state.
LEMMA IdleStep ==
    ASSUME Inv, peer' = peer, net' = net, cut' = cut, compat' = compat,
           state' = state, client' = client, app' = app, listening' \in BOOLEAN,
           wanted' \in BOOLEAN, wanted' = TRUE => wanted = TRUE,
           reconnectTimer' \in BOOLEAN,
           state = "CLIENT_WAIT_RECONNECT" => reconnectTimer' = reconnectTimer
    PROVE  Good
<1>1. /\ net' \in [End -> [Conns -> Seq(Packet)]] /\ peer' \in [End -> [Conns -> Peer]]
      /\ cut' \subseteq Conns
  BY DEF Inv, TypeOK
<1>2. Drained'
  BY DEF Inv, Drained
<1> QED
  BY <1>1, <1>2, QuietStep

LEMMA StopServerStep ==
    ASSUME Inv, stopServer
    PROVE  Good
<1> DEFINE x(l) == [peer["server"][l] EXCEPT !.expectDisconnect = TRUE]
           s == [l \in Conns |-> Reset(x(l))]
           c == [l \in Conns |->
                  IF \/ l \in cut \/ peer["server"][l].sock = "Unconnected"
                     \/ peer["client"][l].sock = "Unconnected"
                    THEN net["client"][l] ELSE Append(net["client"][l], "fin")]
           none == [l \in Conns |-> <<>>]
<1>1. TypeOK /\ Drained
  BY DEF Inv
<1>2. peer \in [End -> [Conns -> Peer]] /\ net \in [End -> [Conns -> Seq(Packet)]]
  BY <1>1 DEF TypeOK
<1>3. /\ compat' = compat /\ state' = state /\ client' = client /\ app' = app
      /\ reconnectTimer' = reconnectTimer /\ wanted' = wanted /\ listening' = FALSE /\ cut' = cut
  BY DEF stopServer, remoteSync
<1>4. net' = [client |-> c, server |-> none]
  BY DEF stopServer
<1>5. peer' = [peer EXCEPT !["server"] = s]
  BY DEF stopServer
<1>6. \A l \in Conns : Reset(x(l)) \in Peer /\ Dry(Reset(x(l)))
  <2> TAKE l \in Conns
  <2>1. peer["server"][l] \in Peer /\ Dry(peer["server"][l])
    BY PeersKnown DEF End
  <2>2. x(l) \in Peer
    BY <2>1, FailedGrows DEF Grows, Sound
  <2> HIDE DEF x
  <2> QED
    BY <2>2, ResetGrows DEF Grows, Sound
<1>7. s \in [Conns -> Peer] /\ \A l \in Conns : Dry(s[l])
  <2> HIDE DEF x
  <2> QED
    BY <1>6
<1> HIDE DEF s
<1>8. /\ peer' \in [End -> [Conns -> Peer]] /\ peer'["client"] = peer["client"]
      /\ peer'["server"] = s
  BY <1>2, <1>5, <1>7 DEF End
<1>9. c \in [Conns -> Seq(Packet)] /\ none \in [Conns -> Seq(Packet)]
  <2>1. "fin" \in Packet /\ <<>> \in Seq(Packet)
    BY EmptySeq DEF Packet
  <2>2. \A l \in Conns : /\ net["client"][l] \in Seq(Packet)
                         /\ Append(net["client"][l], "fin") \in Seq(Packet)
    BY <1>2, <2>1, AppendProperties DEF End
  <2> QED
    BY <2>1, <2>2
<1> HIDE DEF c, none
<1>10. net' \in [End -> [Conns -> Seq(Packet)]]
  BY <1>4, <1>9 DEF End
<1>11. Drained'
  <2> SUFFICES ASSUME NEW e \in End, NEW l \in Conns PROVE Dry(peer'[e][l])
    BY DEF Drained, Dry
  <2>1. Dry(peer[e][l])
    BY <1>1 DEF Drained
  <2> QED
    BY <1>7, <1>8, <2>1 DEF End
<1>12. /\ cut' \subseteq Conns /\ wanted' \in BOOLEAN /\ reconnectTimer' \in BOOLEAN
       /\ listening' \in BOOLEAN
  BY <1>1, <1>3 DEF TypeOK
<1> QED
  BY <1>3, <1>8, <1>10, <1>11, <1>12, QuietStep

--------------------------------------------------------------------------------
(* The slots of RemoteSync.                                                   *)

LEMMA ConnectStep ==
    ASSUME Inv, NEW k \in Conns, app = "running", MayConnect, connectToServer(k),
           wanted' \in BOOLEAN, reconnectTimer' \in BOOLEAN
    PROVE  Good
<1> DEFINE n(e) == NewPeer(IF e = "client" THEN "Connecting" ELSE "Unconnected")
           p == [e \in End |-> [peer[e] EXCEPT ![k] = n(e)]]
<1>1. TypeOK /\ ClientPointer /\ Drained
  BY DEF Inv
<1>2. /\ client' = k /\ state' = "CLIENT_CONNECTING" /\ cut' = cut \ {k}
      /\ net' = [e \in End |-> [net[e] EXCEPT ![k] = <<>>]] /\ peer' = p
      /\ compat' = compat /\ app' = app /\ listening' = listening
  BY DEF connectToServer
<1>3. client = None /\ k # None /\ \A l \in Conns : peer["client"][l].sock = "Unconnected"
  <2>1. client = None
    BY <1>1 DEF ClientPointer, MayConnect
  <2> QED
    BY <1>1, <2>1, Settings DEF ClientPointer
<1>4. \A e \in End : n(e) \in Peer /\ Dry(n(e)) /\ n(e).authenticated = FALSE
  BY NewPeerSound DEF Socket, Sound, NewPeer
<1>5. n("client").sock = "Connecting"
  BY DEF NewPeer
<1> HIDE DEF n
<1>6. peer \in [End -> [Conns -> Peer]] /\ net \in [End -> [Conns -> Seq(Packet)]]
  BY <1>1 DEF TypeOK
<1>7. /\ peer' \in [End -> [Conns -> Peer]]
      /\ \A e \in End, l \in Conns : peer'[e][l] = IF l = k THEN n(e) ELSE peer[e][l]
  BY <1>2, <1>4, <1>6
<1>8. net' \in [End -> [Conns -> Seq(Packet)]]
  BY <1>2, <1>6, EmptySeq
<1>9. TypeOK'
  BY <1>1, <1>2, <1>7, <1>8 DEF TypeOK, State
<1>10. "client" \in End
  BY DEF End
<1>11. ClientPointer'
  BY <1>2, <1>3, <1>5, <1>7, <1>10 DEF ClientPointer
<1>12. Drained'
  BY <1>1, <1>4, <1>7 DEF Drained
<1>13. WaitingHasTimer' /\ Confirmation' /\ ClosingIsAsked' /\ ClientRuns'
  BY <1>2 DEF WaitingHasTimer, Confirmation, ClosingIsAsked, ClientRuns
<1>14. Refused
  BY <1>3 DEF Refused
<1> QED
  BY <1>9, <1>11, <1>12, <1>13, <1>14 DEF Good, Inv

\* The socket is aborted, and clientDisconnected runs a second time.
LEMMA AbortStep ==
    ASSUME Inv, NEW k \in Conns, client = k, NEW q, Sound(q), q.sock = "Unconnected",
           NEW rest \in Seq(Packet), NEW sent \in Seq(Packet),
           Becomes("client", k, q, rest, sent), client' = None, state' = "IDLE",
           app' = "crashed", reconnectTimer' = reconnectTimer, wanted' = FALSE,
           UNCHANGED <<compat, listening, cut>>
    PROVE  Good
<1>1. TypeOK /\ ClientPointer /\ Drained
  BY DEF Inv
<1>2. "client" \in End /\ q \in Peer /\ Dry(q)
  BY DEF End, Sound
<1>3. /\ peer' \in [End -> [Conns -> Peer]] /\ net' \in [End -> [Conns -> Seq(Packet)]]
      /\ \A d \in End, l \in Conns :
           peer'[d][l] = IF d = "client" /\ l = k THEN q ELSE peer[d][l]
  BY <1>1, <1>2, BecomesTyped
<1>4. TypeOK'
  BY <1>1, <1>3 DEF TypeOK, State
<1>5. \A l \in Conns : peer'["client"][l].sock = "Unconnected"
  BY <1>1, <1>2, <1>3 DEF ClientPointer
<1>6. ClientPointer'
  BY <1>5, Settings DEF ClientPointer
<1>7. Drained'
  BY <1>1, <1>2, <1>3 DEF Drained
<1>8. WaitingHasTimer' /\ Confirmation' /\ ClosingIsAsked' /\ ClientRuns'
  BY DEF WaitingHasTimer, Confirmation, ClosingIsAsked, ClientRuns
<1>9. Refused
  BY DEF Refused
<1> QED
  BY <1>4, <1>6, <1>7, <1>8, <1>9 DEF Good, Inv

LEMMA DisconnectStep ==
    ASSUME Inv, DisconnectClient, wanted' = FALSE, UNCHANGED <<compat, listening, cut>>
    PROVE  Good
<1> DEFINE k == client
           c == peer["client"][k]
           p == [c EXCEPT !.expectDisconnect = TRUE]
           q == IF p.sock = "Connected" THEN disconnectFromHost(p) ELSE Reset(p)
           rest == net["client"][k]
<1>1. /\ state = "CLIENT" /\ Becomes("client", k, q, rest, <<>>)
      /\ p.sock = "Connected" => Signals("client", q, "CLIENT_CLOSING")
      /\ p.sock # "Connected" => /\ client' = None /\ state' = "IDLE" /\ app' = "crashed"
                                 /\ reconnectTimer' = reconnectTimer
  BY DEF DisconnectClient, ClosesFirst
<1>2. k \in Conns /\ c.sock # "Unconnected" /\ c.authenticated = TRUE
  BY <1>1, Settings DEF Inv, TypeOK, ClientPointer, Confirmation
<1>3. "client" \in End /\ c \in Peer /\ Dry(c) /\ rest \in Seq(Packet) /\ <<>> \in Seq(Packet)
  BY <1>2, PeersKnown DEF End
<1> HIDE DEF c
<1>4. Grows(c, p) /\ p \in Peer /\ p.sock = c.sock
  BY <1>3, FailedGrows DEF Grows, Sound
<1> HIDE DEF p
<1>5. Grows(p, q) /\ q \in Peer
  BY <1>4, ResetGrows, HostGrows DEF Grows, Sound
<1>6. /\ Sound(q) /\ q.authenticated = TRUE /\ (c.told = TRUE => q.told = TRUE)
      /\ p.sock # "Connected" => q.sock = "Unconnected"
  BY <1>2, <1>4, <1>5, ResetGrows DEF Grows
<1> HIDE DEF q, rest, k
<1>7. CASE p.sock = "Connected"
  <2>1. wanted' \in BOOLEAN /\ (wanted' = TRUE => wanted = TRUE)
    OBVIOUS
  <2>2. peer.client[k].sock # "Unconnected" /\ peer.client[k].authenticated = TRUE
        /\ (peer.client[k].told = TRUE => q.told = TRUE)
    BY <1>2, <1>6 DEF c
  <2> QED
    BY <1>1, <1>2, <1>3, <1>6, <1>7, <2>1, <2>2, ClientStep
<1>8. CASE p.sock # "Connected"
  <2>1. client = k
    BY DEF k
  <2> QED
    BY <1>1, <1>2, <1>3, <1>6, <1>8, <2>1, AbortStep
<1> QED
  BY <1>7, <1>8

LEMMA UserStep ==
    ASSUME Inv, User
    PROVE  Good
<1>1. ASSUME NEW k \in Conns, UserConnect(k)
      PROVE  Good
  <2>1. /\ app = "running" /\ MayConnect /\ connectToServer(k) /\ wanted' = TRUE
        /\ reconnectTimer' = reconnectTimer
    BY <1>1 DEF UserConnect
  <2>2. reconnectTimer' \in BOOLEAN
    BY <2>1 DEF Inv, TypeOK
  <2> QED
    BY <2>1, <2>2, ConnectStep
<1>2. CASE UserDisconnect
  <2>1. wanted' = FALSE /\ compat' = compat /\ listening' = listening /\ cut' = cut
    BY <1>2 DEF UserDisconnect
  <2>2. CASE DisconnectClient
    BY <2>1, <2>2, DisconnectStep
  <2>3. CASE CancelReconnect
    <3>1. /\ state = "CLIENT_WAIT_RECONNECT" /\ state' = "IDLE" /\ reconnectTimer' = FALSE
          /\ client' = client /\ app' = app /\ peer' = peer /\ net' = net
      BY <2>3 DEF CancelReconnect
    <3>2. client = None
      BY <3>1 DEF Inv, ClientPointer
    <3>3. TypeOK'
      BY <2>1, <3>1 DEF Inv, TypeOK, State
    <3>4. ClientPointer' /\ Drained'
      BY <3>1, <3>2 DEF Inv, ClientPointer, Drained
    <3>5. WaitingHasTimer' /\ Confirmation' /\ ClosingIsAsked' /\ ClientRuns'
      BY <3>1, <3>2 DEF WaitingHasTimer, Confirmation, ClosingIsAsked, ClientRuns
    <3>6. Refused
      BY <3>2 DEF Refused
    <3> QED
      BY <3>3, <3>4, <3>5, <3>6 DEF Good, Inv
  <2>4. CASE InvalidDisconnect
    <3>1. /\ state' = state /\ client' = client /\ reconnectTimer' = reconnectTimer
          /\ app' = app /\ peer' = peer /\ net' = net
      BY <2>4 DEF InvalidDisconnect, remoteSync
    <3>2. reconnectTimer' \in BOOLEAN /\ wanted' \in BOOLEAN /\ listening' \in BOOLEAN
      BY <2>1, <3>1 DEF Inv, TypeOK
    <3> QED
      BY <2>1, <3>1, <3>2, IdleStep
  <2> QED
    BY <1>2, <2>2, <2>3, <2>4 DEF UserDisconnect
<1> QED
  BY <1>1, <1>2 DEF User

LEMMA TimersStep ==
    ASSUME Inv, Timers
    PROVE  Good
<1>1. ASSUME NEW k \in Conns, TimerFires(k)
      PROVE  Good
  <2>1. /\ app = "running" /\ MayConnect /\ connectToServer(k) /\ wanted' = wanted
        /\ reconnectTimer' = FALSE
    BY <1>1 DEF TimerFires
  <2>2. wanted' \in BOOLEAN
    BY <2>1 DEF Inv, TypeOK
  <2> QED
    BY <2>1, <2>2, ConnectStep
<1>2. CASE TimerIgnored
  <2>1. /\ state # "CLIENT_WAIT_RECONNECT" /\ reconnectTimer' = FALSE
        /\ compat' = compat /\ state' = state /\ client' = client /\ app' = app
        /\ wanted' = wanted /\ listening' = listening /\ peer' = peer /\ net' = net /\ cut' = cut
    BY <1>2 DEF TimerIgnored, MayConnect
  <2>2. wanted' \in BOOLEAN /\ listening' \in BOOLEAN
    BY <2>1 DEF Inv, TypeOK
  <2> QED
    BY <2>1, <2>2, IdleStep
<1> QED
  BY <1>1, <1>2 DEF Timers

LEMMA ServerSlots ==
    ASSUME Inv, Server
    PROVE  Good
<1>1. CASE startServer
  <2>1. /\ listening' = TRUE /\ state' = state /\ client' = client
        /\ reconnectTimer' = reconnectTimer /\ app' = app /\ compat' = compat
        /\ wanted' = wanted /\ peer' = peer /\ net' = net /\ cut' = cut
    BY <1>1 DEF startServer, remoteSync
  <2>2. reconnectTimer' \in BOOLEAN /\ wanted' \in BOOLEAN
    BY <2>1 DEF Inv, TypeOK
  <2> QED
    BY <2>1, <2>2, IdleStep
<1> QED
  BY <1>1, StopServerStep, BroadcastStep DEF Server

LEMMA ConnectionStep ==
    ASSUME Inv, NEW k \in Conns, Connection(k)
    PROVE  Good
<1>1. ASSUME NEW e \in End, EndStep(e, k)
      PROVE  Good
  BY <1>1, FlushStep, NetErrorStep, TimeoutStep, AliveStep, ReceiveMessageStep,
     RemoteHostClosedStep DEF EndStep
<1> QED
  BY <1>1, SocketConnectsStep, SocketFailsStep, CutStep, NewConnectionStep DEF Connection

LEMMA StepGood ==
    ASSUME Inv, [Next]_vars
    PROVE  Good
<1>1. CASE UNCHANGED vars
  <2>1. /\ state' = state /\ client' = client /\ reconnectTimer' = reconnectTimer
        /\ app' = app /\ compat' = compat /\ wanted' = wanted /\ listening' = listening
        /\ peer' = peer /\ net' = net /\ cut' = cut
    BY <1>1 DEF vars, remoteSync
  <2>2. reconnectTimer' \in BOOLEAN /\ wanted' \in BOOLEAN /\ listening' \in BOOLEAN
    BY <2>1 DEF Inv, TypeOK
  <2> QED
    BY <2>1, <2>2, IdleStep
<1> QED
  BY <1>1, UserStep, TimersStep, ServerSlots, ConnectionStep DEF Next

LEMMA InitGood == Init => Inv
<1> SUFFICES ASSUME Init PROVE Inv
  OBVIOUS
<1> USE DEF Init
<1> DEFINE n == NewPeer("Unconnected")
<1>1. Sound(n) /\ n.sock = "Unconnected"
  BY NewPeerSound DEF Socket
<1> HIDE DEF n
<1>2. \A e \in End, k \in Conns : peer[e][k] = n /\ net[e][k] = <<>>
  BY DEF n
<1>3. TypeOK
  <2>1. peer = [e \in End |-> [k \in Conns |-> n]] /\ n \in Peer
    BY <1>1 DEF n, Sound
  <2>2. peer \in [End -> [Conns -> Peer]]
    BY <2>1
  <2>3. net \in [End -> [Conns -> Seq(Packet)]]
    BY EmptySeq
  <2> QED
    BY <2>2, <2>3 DEF TypeOK, State
<1>4. ClientPointer
  BY <1>1, <1>2, Settings DEF ClientPointer, End
<1>5. Drained
  BY <1>1, <1>2 DEF Drained, Sound
<1> QED
  BY <1>3, <1>4, <1>5 DEF Inv, WaitingHasTimer, Confirmation, ClosingIsAsked, ClientRuns

LEMMA InvHolds == Spec => []Inv
<1>1. Inv /\ [Next]_vars => Inv'
  BY StepGood DEF Good
<1> QED
  BY InitGood, <1>1, PTL DEF Spec

--------------------------------------------------------------------------------
(* What a step may not do.                                                    *)

\* SyncClient::serverDisconnected never takes a refusal of the server, its ERROR
\* message, for a regular end: the behaviour for a lost connection follows,
\* unless the user has disconnected before.
THEOREM RefusedIsLost == Spec => RefusalIsNotAQuit
<1>1. Inv /\ [Next]_vars
        => [client # None /\ peer.client[client].told /\ client' = None /\ wanted'
             => /\ app' = IF LostBehavior = "QUIT" THEN "quit" ELSE "running"
                /\ state' = IF LostBehavior = "RECONNECT" THEN "CLIENT_WAIT_RECONNECT"
                                                          ELSE "IDLE"]_vars
  BY StepGood DEF Good, Refused
<1> QED
  BY InvHolds, <1>1, PTL DEF Spec, RefusalIsNotAQuit

--------------------------------------------------------------------------------
(* The handshake: a confirmation under way, or accepted, is one that a server *)
(* of the same version has sent and still stands by.                          *)

Has(s) == \E i \in DOMAIN s : s[i] = "valid"
Vouched(k) == /\ compat \in {"same", "large"}
              /\ peer.server[k].sock # "Unconnected"
                   => peer.server[k].sock # "Backlog" /\ peer.server[k].authenticated = TRUE
\* A connection that is only beginning has no past.
Joining(k) == peer.client[k].sock = "Connecting"
                => /\ peer.server[k].sock = "Unconnected" /\ net.client[k] = <<>>
                   /\ peer.client[k].authenticated = FALSE
Trust(k) == peer.client[k].authenticated = TRUE \/ Has(net.client[k]) \/ Has(peer.server[k].out)
              => Vouched(k)
Trusted == \A k \in Conns : Joining(k) /\ Trust(k)

LEMMA HasEmpty == ~Has(<<>>) /\ ~Has(<<"fin">>)
  BY DEF Has

LEMMA HasAppend ==
    ASSUME NEW S, NEW s \in Seq(S), NEW x \in S, Has(Append(s, x))
    PROVE  Has(s) \/ x = "valid"
<1>1. Len(Append(s, x)) = Len(s) + 1 /\ \A i \in 1 .. Len(s) : Append(s, x)[i] = s[i]
      /\ Append(s, x)[Len(s) + 1] = x /\ Append(s, x) \in Seq(S)
  BY AppendProperties
<1>2. PICK i \in 1 .. (Len(s) + 1) : Append(s, x)[i] = "valid"
  BY <1>1 DEF Has
<1>3. i \in 1 .. Len(s) \/ i = Len(s) + 1
  BY <1>2
<1> QED
  BY <1>1, <1>2, <1>3 DEF Has

LEMMA HasConcat ==
    ASSUME NEW S, NEW s \in Seq(S), NEW t \in Seq(S), Has(s \o t)
    PROVE  Has(s) \/ Has(t)
<1>1. /\ s \o t \in Seq(S) /\ Len(s \o t) = Len(s) + Len(t)
      /\ \A i \in 1 .. Len(s) + Len(t) :
           (s \o t)[i] = IF i <= Len(s) THEN s[i] ELSE t[i - Len(s)]
  BY ConcatProperties
<1>2. PICK i \in 1 .. (Len(s) + Len(t)) : (s \o t)[i] = "valid"
  BY <1>1 DEF Has
<1>3. CASE i <= Len(s)
  BY <1>1, <1>2, <1>3 DEF Has
<1>4. CASE i > Len(s)
  <2>1. i - Len(s) \in 1 .. Len(t) /\ t[i - Len(s)] = "valid"
    BY <1>1, <1>2, <1>4
  <2> QED
    BY <2>1 DEF Has
<1> QED
  BY <1>2, <1>3, <1>4

LEMMA HasTail ==
    ASSUME NEW S, NEW s \in Seq(S), s # <<>>
    PROVE  (Has(Tail(s)) => Has(s)) /\ (Head(s) = "valid" => Has(s))
<1>1. /\ Tail(s) \in Seq(S) /\ Len(Tail(s)) = Len(s) - 1 /\ Len(s) > 0
      /\ \A i \in 1 .. Len(Tail(s)) : Tail(s)[i] = s[i + 1]
  BY HeadTailProperties
<1>2. ASSUME Has(Tail(s)) PROVE Has(s)
  <2>1. PICK i \in 1 .. Len(Tail(s)) : Tail(s)[i] = "valid"
    BY <1>1, <1>2 DEF Has
  <2>2. i + 1 \in 1 .. Len(s) /\ s[i + 1] = "valid"
    BY <1>1, <2>1
  <2> QED
    BY <2>2 DEF Has
<1>3. ASSUME Head(s) = "valid" PROVE Has(s)
  <2>1. 1 \in 1 .. Len(s) /\ s[1] = "valid"
    BY <1>1, <1>3
  <2> QED
    BY <2>1 DEF Has
<1> QED
  BY <1>2, <1>3

\* What Becomes does to the messages under way.
LEMMA BecomesNet ==
    ASSUME TypeOK, NEW e \in End, NEW k \in Conns, NEW q \in Peer,
           NEW rest \in Seq(Packet), NEW sent \in Seq(Packet), Becomes(e, k, q, rest, sent)
    PROVE  /\ \A d \in End, l \in Conns \ {k} : net'[d][l] = net[d][l]
           /\ Has(net'[e][k]) => Has(rest)
           /\ Has(net'[Other(e)][k]) => Has(net[Other(e)][k]) \/ Has(sent)
<1> DEFINE o == Other(e)
           mine == IF q.sock = "Unconnected" THEN <<>> ELSE rest
           fin == IF q.sock = "Unconnected" THEN <<"fin">> ELSE <<>>
           heard == k \notin cut /\ peer[o][k].sock # "Unconnected"
           theirs == IF ~heard THEN net[o][k] ELSE net[o][k] \o sent \o fin
           first == [net EXCEPT ![e][k] = mine]
<1>1. net' = [first EXCEPT ![o][k] = theirs]
  BY DEF Becomes
<1>2. Has(mine) => Has(rest)
  BY HasEmpty
<1>3. fin \in Seq(Packet) /\ ~Has(fin)
  <2>1. <<>> \in Seq(Packet) /\ "fin" \in Packet
    BY EmptySeq DEF Packet
  <2>2. <<"fin">> \in Seq(Packet)
    BY <2>1
  <2> QED
    BY <2>1, <2>2, HasEmpty
<1> HIDE DEF mine, fin, heard
<1>4. o \in End /\ o # e
  BY Ends
<1> HIDE DEF o
<1>5. net \in [End -> [Conns -> Seq(Packet)]]
  BY DEF TypeOK
<1>6. net[o][k] \in Seq(Packet)
  BY <1>4, <1>5
<1>7. Has(theirs) => Has(net[o][k]) \/ Has(sent)
  <2>1. net[o][k] \o sent \in Seq(Packet)
    BY <1>6, ConcatProperties
  <2>2. Has(net[o][k] \o sent \o fin) => Has(net[o][k] \o sent)
    BY <1>3, <2>1, HasConcat
  <2>3. Has(net[o][k] \o sent) => Has(net[o][k]) \/ Has(sent)
    BY <1>6, HasConcat
  <2> QED
    BY <2>2, <2>3
<1> HIDE DEF theirs
<1>8. /\ \A d \in End, l \in Conns \ {k} : net'[d][l] = net[d][l]
      /\ net'[e][k] = mine /\ net'[o][k] = theirs
  BY <1>1, <1>4, <1>5
<1> QED
  BY <1>2, <1>7, <1>8 DEF o

\* An event at the server's end.
LEMMA ServerTrust ==
    ASSUME Inv, Trusted, NEW k \in Conns, peer.server[k].sock # "Unconnected",
           NEW q, Sound(q), q.sock # "Backlog",
           NEW rest \in Seq(Packet), NEW sent \in Seq(Packet),
           Becomes("server", k, q, rest, sent), compat' = compat,
           peer.server[k].sock # "Backlog" /\ peer.server[k].authenticated = TRUE
             => q.authenticated = TRUE,
           Has(q.out) \/ Has(sent)
             => \/ Has(peer.server[k].out)
                \/ q.authenticated = TRUE /\ compat \in {"same", "large"}
    PROVE  Trusted'
<1>1. TypeOK /\ "server" \in End /\ "client" \in End /\ q \in Peer /\ Other("server") = "client"
  BY DEF Inv, End, Sound, Other
<1>2. \A d \in End, l \in Conns : peer'[d][l] = IF d = "server" /\ l = k THEN q ELSE peer[d][l]
  BY <1>1, BecomesTyped
<1>3. /\ \A d \in End, l \in Conns \ {k} : net'[d][l] = net[d][l]
      /\ Has(net'["client"][k]) => Has(net["client"][k]) \/ Has(sent)
  BY <1>1, BecomesNet
<1>4. ASSUME NEW l \in Conns, l # k PROVE (Joining(l) /\ Trust(l))'
  <2>1. Joining(l) /\ Trust(l)
    BY DEF Trusted
  <2> QED
    BY <1>1, <1>2, <1>3, <1>4, <2>1 DEF Joining, Trust, Vouched
<1>5. Joining(k) /\ Trust(k)
  BY DEF Trusted
<1>6. Joining(k)'
  BY <1>1, <1>2, <1>5 DEF Joining
<1>7. Trust(k)'
  <2>1. peer'["client"][k] = peer["client"][k] /\ peer'["server"][k] = q
    BY <1>1, <1>2
  <2>2. peer["client"][k].authenticated = TRUE \/ Has(net["client"][k]) \/ Has(peer["server"][k].out)
          => q.authenticated = TRUE /\ compat \in {"same", "large"}
    BY <1>5 DEF Trust, Vouched
  <2> QED
    BY <1>3, <2>1, <2>2 DEF Trust, Vouched
<1> QED
  BY <1>4, <1>6, <1>7 DEF Trusted

\* An event at the client's end.
LEMMA ClientTrust ==
    ASSUME Inv, Trusted, NEW k \in Conns, NEW q, Sound(q), q.sock # "Connecting",
           NEW rest \in Seq(Packet), NEW sent \in Seq(Packet),
           Becomes("client", k, q, rest, sent), compat' = compat,
           Has(rest) => Has(net.client[k]),
           q.authenticated = TRUE => peer.client[k].authenticated = TRUE \/ Has(net.client[k])
    PROVE  Trusted'
<1>1. TypeOK /\ "server" \in End /\ "client" \in End /\ q \in Peer
  BY DEF Inv, End, Sound
<1>2. \A d \in End, l \in Conns : peer'[d][l] = IF d = "client" /\ l = k THEN q ELSE peer[d][l]
  BY <1>1, BecomesTyped
<1>3. /\ \A d \in End, l \in Conns \ {k} : net'[d][l] = net[d][l]
      /\ Has(net'["client"][k]) => Has(rest)
  BY <1>1, BecomesNet
<1>4. ASSUME NEW l \in Conns, l # k PROVE (Joining(l) /\ Trust(l))'
  <2>1. Joining(l) /\ Trust(l)
    BY DEF Trusted
  <2> QED
    BY <1>1, <1>2, <1>3, <1>4, <2>1 DEF Joining, Trust, Vouched
<1>5. Trust(k)
  BY DEF Trusted
<1>6. peer'["client"][k] = q /\ peer'["server"][k] = peer["server"][k]
  BY <1>1, <1>2
<1>7. Joining(k)' /\ Trust(k)'
  BY <1>3, <1>5, <1>6 DEF Joining, Trust, Vouched
<1> QED
  BY <1>4, <1>7 DEF Trusted

\* An event that confirms nobody, at either end.
LEMMA EndTrust ==
    ASSUME Inv, Trusted, NEW e \in End, NEW k \in Conns, peer[e][k].sock # "Unconnected",
           NEW q, Grows(peer[e][k], q), q.sock \notin {"Backlog", "Connecting"},
           Has(q.out) => Has(peer[e][k].out),
           NEW rest \in Seq(Packet), NEW sent \in Seq(Packet),
           Has(rest) => Has(net[e][k]), Has(sent) => Has(peer[e][k].out),
           PeerEvent(e, k, q, rest, sent)
    PROVE  Trusted'
<1>1. /\ Becomes(e, k, q, rest, sent) /\ compat' = compat /\ Sound(q)
      /\ q.authenticated = peer[e][k].authenticated
  BY DEF PeerEvent, Grows
<1>2. CASE e = "server"
  BY <1>1, <1>2, ServerTrust
<1>3. CASE e = "client"
  BY <1>1, <1>3, ClientTrust
<1> QED
  BY <1>2, <1>3 DEF End

\* q may follow p, and writes no confirmation.
Meek(p, q) == Grows(p, q) /\ (Has(q.out) => Has(p.out))
Over(q) == q.sock \in {"Unconnected", "Closing"}

LEMMA MeekReset ==
    ASSUME NEW p \in Peer
    PROVE  Meek(p, Reset(p)) /\ Over(Reset(p))
<1>1. Reset(p).out = <<>>
  BY DEF Reset, Peer
<1> QED
  BY <1>1, HasEmpty, ResetGrows DEF Meek, Over

LEMMA MeekHost ==
    ASSUME NEW p \in Peer
    PROVE  Meek(p, disconnectFromHost(p)) /\ Over(disconnectFromHost(p))
<1>1. disconnectFromHost(p).out = p.out \/ disconnectFromHost(p).out = <<>>
  BY DEF disconnectFromHost, Reset, Peer
<1> QED
  BY <1>1, HasEmpty, HostGrows DEF Meek, Over

LEMMA MeekWrite ==
    ASSUME NEW p \in Peer, Dry(p), NEW m \in Message, m # "valid"
    PROVE  Meek(p, writeData(p, m))
<1>1. p.out \in Seq(Message)
  BY PeerFields
<1>2. writeData(p, m).out = p.out \/ writeData(p, m).out = Append(p.out, m)
  BY DEF writeData, Peer
<1>3. Has(writeData(p, m).out) => Has(p.out)
  BY <1>1, <1>2, HasAppend
<1> QED
  BY <1>3, WriteGrows DEF Meek

LEMMA MeekFailed ==
    ASSUME NEW p \in Peer, Dry(p)
    PROVE  /\ Meek(p, [p EXCEPT !.failed = TRUE]) /\ Meek(p, [p EXCEPT !.expectDisconnect = TRUE])
           /\ Meek(p, [p EXCEPT !.failed = TRUE, !.expectDisconnect = TRUE])
  BY FailedGrows DEF Meek, Peer

LEMMA MeekSound == \A p, q : Meek(p, q) => q \in Peer /\ Dry(q)
  BY DEF Meek, Grows, Sound

LEMMA MeekTrans ==
    ASSUME NEW p, NEW q, NEW r, Meek(p, q), Meek(q, r)
    PROVE  Meek(p, r)
  BY DEF Meek, Grows

LEMMA MeekError ==
    ASSUME NEW p \in Peer, Dry(p)
    PROVE  Meek(p, writeError(p)) /\ Over(writeError(p))
<1> DEFINE w == writeData(p, "error")
           f == [w EXCEPT !.failed = TRUE]
<1>1. Meek(p, w)
  BY MeekWrite DEF Message
<1> HIDE DEF w
<1>2. w \in Peer /\ Dry(w)
  BY <1>1, MeekSound
<1>3. Meek(w, f)
  BY <1>2, MeekFailed
<1> HIDE DEF f
<1>4. Meek(f, disconnectFromHost(f)) /\ Over(disconnectFromHost(f))
  BY <1>3, MeekSound, MeekHost
<1>5. writeError(p) = disconnectFromHost(f)
  BY DEF writeError, f, w
<1> QED
  BY <1>1, <1>3, <1>4, <1>5, MeekTrans

--------------------------------------------------------------------------------
(* The events of a connection keep what is trusted.                           *)

LEMMA FlushTrust ==
    ASSUME Inv, Trusted, NEW e \in End, NEW k \in Conns, Flush(e, k)
    PROVE  Trusted'
<1> DEFINE p == peer[e][k]
           q == [p EXCEPT !.out = Tail(p.out)]
           r == IF p.sock = "Closing" /\ q.out = <<>> THEN Reset(q) ELSE q
<1>1. p.out # <<>> /\ PeerEvent(e, k, r, net[e][k], <<Head(p.out)>>)
  BY DEF Flush
<1>2. p \in Peer /\ Dry(p) /\ net[e][k] \in Seq(Packet)
  BY PeersKnown
<1> HIDE DEF p
<1>3. p.out \in Seq(Message)
  BY <1>2, PeerFields
<1>4. Tail(p.out) \in Seq(Message) /\ Head(p.out) \in Message
  BY <1>1, <1>3, HeadTailProperties
<1>5. (Has(Tail(p.out)) => Has(p.out)) /\ (Head(p.out) = "valid" => Has(p.out))
  BY <1>1, <1>3, HasTail
<1>6. p.sock \in {"Connected", "Closing"}
  BY <1>1, <1>2 DEF Dry
<1>7. Meek(p, q) /\ q \in Peer /\ q.sock = p.sock
  BY <1>2, <1>4, <1>5, <1>6 DEF Meek, Grows, Sound, Dry, Peer
<1>8. Meek(p, r) /\ r.sock \notin {"Backlog", "Connecting"}
  <2> HIDE DEF q
  <2>1. Meek(p, Reset(q)) /\ Over(Reset(q))
    BY <1>7, MeekReset, MeekTrans
  <2> QED
    BY <1>6, <1>7, <2>1 DEF Over
<1>9. <<Head(p.out)>> \in Seq(Packet) /\ (Has(<<Head(p.out)>>) => Has(p.out))
  BY <1>4, <1>5 DEF Packet, Has
<1> HIDE DEF q, r
<1> QED
  BY <1>1, <1>2, <1>6, <1>8, <1>9, EndTrust DEF p, Meek

LEMMA NetErrorTrust ==
    ASSUME Inv, Trusted, NEW e \in End, NEW k \in Conns, NetError(e, k)
    PROVE  Trusted'
<1> DEFINE p == peer[e][k]
           f == [p EXCEPT !.failed = TRUE]
<1>1. p.sock \in {"Connected", "Closing"} /\ PeerEvent(e, k, Reset(f), <<>>, <<>>)
  BY DEF NetError
<1>2. p \in Peer /\ Dry(p) /\ <<>> \in Seq(Packet)
  BY PeersKnown
<1> HIDE DEF p
<1>3. Meek(p, f)
  BY <1>2, MeekFailed
<1> HIDE DEF f
<1>4. Meek(p, Reset(f)) /\ Over(Reset(f))
  BY <1>3, MeekSound, MeekReset, MeekTrans
<1>5. p.sock # "Unconnected" /\ Reset(f).sock \notin {"Backlog", "Connecting"}
  BY <1>1, <1>4 DEF Over
<1> QED
  BY <1>1, <1>2, <1>4, <1>5, HasEmpty, EndTrust DEF p, Meek

LEMMA SocketFailsTrust ==
    ASSUME Inv, Trusted, NEW k \in Conns, SocketFails(k)
    PROVE  Trusted'
<1> DEFINE p == peer["client"][k]
           f == [p EXCEPT !.failed = TRUE]
<1>1. p.sock = "Connecting" /\ PeerEvent("client", k, Reset(f), <<>>, <<>>)
  BY DEF SocketFails
<1>2. "client" \in End /\ p \in Peer /\ Dry(p) /\ <<>> \in Seq(Packet)
  BY PeersKnown DEF End
<1> HIDE DEF p
<1>3. Meek(p, f)
  BY <1>2, MeekFailed
<1> HIDE DEF f
<1>4. Meek(p, Reset(f)) /\ Over(Reset(f))
  BY <1>3, MeekSound, MeekReset, MeekTrans
<1>5. p.sock # "Unconnected" /\ Reset(f).sock \notin {"Backlog", "Connecting"}
  BY <1>1, <1>4 DEF Over
<1> QED
  BY <1>1, <1>2, <1>4, <1>5, HasEmpty, EndTrust DEF p, Meek

LEMMA TimeoutTrust ==
    ASSUME Inv, Trusted, NEW e \in End, NEW k \in Conns, Timeout(e, k)
    PROVE  Trusted'
<1> DEFINE p == peer[e][k]
           f == [p EXCEPT !.failed = TRUE]
           w == writeData(f, "alive")
<1>1. /\ f.sock \in {"Connected", "Connecting"}
      /\ \/ PeerEvent(e, k, disconnectFromHost(w), net[e][k], <<>>)
         \/ PeerEvent(e, k, disconnectFromHost(f), net[e][k], <<>>)
         \/ PeerEvent(e, k, Reset(f), <<>>, <<>>)
  BY DEF Timeout
<1>2. p \in Peer /\ Dry(p) /\ net[e][k] \in Seq(Packet) /\ <<>> \in Seq(Packet)
  BY PeersKnown
<1> HIDE DEF p
<1>3. Meek(p, f) /\ f \in Peer /\ Dry(f) /\ f.sock = p.sock
  BY <1>2, MeekFailed, FailedGrows, MeekSound
<1> HIDE DEF f
<1>4. Meek(p, w) /\ w \in Peer
  BY <1>3, MeekWrite, MeekTrans, MeekSound DEF Message
<1> HIDE DEF w
<1>5. /\ Meek(p, Reset(f)) /\ Meek(p, disconnectFromHost(f)) /\ Meek(p, disconnectFromHost(w))
      /\ Over(Reset(f)) /\ Over(disconnectFromHost(f)) /\ Over(disconnectFromHost(w))
  BY <1>3, <1>4, MeekReset, MeekHost, MeekTrans
<1>6. p.sock # "Unconnected"
  BY <1>1, <1>3
<1>7. ASSUME NEW q, NEW rest \in Seq(Packet), Meek(p, q), Over(q), Has(rest) => Has(net[e][k]),
             PeerEvent(e, k, q, rest, <<>>)
      PROVE  Trusted'
  BY <1>2, <1>6, <1>7, HasEmpty, EndTrust DEF p, Meek, Over
<1>8. CASE PeerEvent(e, k, disconnectFromHost(w), net[e][k], <<>>)
  BY <1>2, <1>5, <1>7, <1>8
<1>9. CASE PeerEvent(e, k, disconnectFromHost(f), net[e][k], <<>>)
  BY <1>2, <1>5, <1>7, <1>9
<1>10. CASE PeerEvent(e, k, Reset(f), <<>>, <<>>)
  BY <1>2, <1>5, <1>7, <1>10, HasEmpty
<1> QED
  BY <1>1, <1>8, <1>9, <1>10

LEMMA WriteTrust ==
    ASSUME Inv, Trusted, NEW e \in End, NEW k \in Conns, NEW m \in Message, m # "valid",
           peer[e][k].sock = "Connected",
           PeerEvent(e, k, writeData(peer[e][k], m), net[e][k], <<>>)
    PROVE  Trusted'
<1> DEFINE p == peer[e][k]
           w == writeData(p, m)
<1>1. p \in Peer /\ Dry(p) /\ net[e][k] \in Seq(Packet) /\ <<>> \in Seq(Packet)
  BY PeersKnown
<1>2. PeerEvent(e, k, w, net[e][k], <<>>) /\ p.sock = "Connected"
  OBVIOUS
<1> HIDE DEF p
<1>3. Meek(p, w) /\ w.sock = p.sock
  BY <1>1, MeekWrite, WriteGrows
<1>4. p.sock # "Unconnected" /\ w.sock \notin {"Backlog", "Connecting"}
  BY <1>2, <1>3
<1> HIDE DEF w
<1> QED
  BY <1>1, <1>2, <1>3, <1>4, HasEmpty, EndTrust DEF p, Meek

LEMMA RemoteHostClosedTrust ==
    ASSUME Inv, Trusted, NEW e \in End, NEW k \in Conns, RemoteHostClosed(e, k)
    PROVE  Trusted'
<1> DEFINE p == peer[e][k]
           f == [p EXCEPT !.failed = TRUE, !.expectDisconnect = TRUE]
<1>1. p.sock = "Connected" /\ PeerEvent(e, k, disconnectFromHost(f), <<>>, <<>>)
  BY DEF RemoteHostClosed
<1>2. p \in Peer /\ Dry(p) /\ <<>> \in Seq(Packet)
  BY PeersKnown
<1> HIDE DEF p
<1>3. Meek(p, f)
  BY <1>2, MeekFailed
<1> HIDE DEF f
<1>4. Meek(p, disconnectFromHost(f)) /\ Over(disconnectFromHost(f))
  BY <1>3, MeekSound, MeekHost, MeekTrans
<1>5. p.sock # "Unconnected" /\ disconnectFromHost(f).sock \notin {"Backlog", "Connecting"}
  BY <1>1, <1>4 DEF Over
<1> QED
  BY <1>1, <1>2, <1>4, <1>5, HasEmpty, EndTrust DEF p, Meek

LEMMA ServerHandledTrust ==
    ASSUME NEW p \in Peer, p.sock = "Connected", NEW m \in Message,
           NEW q \in Handled("server", p, m)
    PROVE  /\ q.sock # "Backlog" /\ (p.authenticated = TRUE => q.authenticated = TRUE)
           /\ Has(q.out) => \/ Has(p.out)
                            \/ q.authenticated = TRUE /\ compat \in {"same", "large"}
<1>1. Dry(p)
  BY DEF Dry
<1>2. Meek(p, writeError(p)) /\ Over(writeError(p))
  BY <1>1, MeekError
<1> DEFINE a == [p EXCEPT !.authenticated = TRUE]
           v == writeData(a, "valid")
<1>3. a \in Peer /\ Dry(a) /\ a.authenticated = TRUE /\ a.sock = "Connected"
  BY DEF Peer, Dry
<1> HIDE DEF a
<1>4. v \in Peer /\ Dry(v) /\ v.authenticated = TRUE /\ v.sock = "Connected"
  BY <1>3, WriteGrows DEF Grows, Sound, Message
<1> HIDE DEF v
<1>5. /\ writeData(v, "state").authenticated = TRUE /\ writeData(v, "state").sock = "Connected"
      /\ writeError(v).authenticated = TRUE /\ Over(writeError(v))
  BY <1>4, WriteGrows, MeekError DEF Meek, Grows, Message
<1>6. \A r \in Responses(p) :
        \/ r = writeError(p)
        \/ compat \in {"same", "large"} /\ r \in {writeData(v, "state"), writeError(v)}
  <2>1. ConfirmFirst(p) = writeData(v, "state") /\ TooLarge(p) = writeError(v)
    BY DEF ConfirmFirst, TooLarge, v, a
  <2>2. \A r \in Responses(p) :
          r = writeError(p) \/ (VersionMatches /\ r \in {ConfirmFirst(p), TooLarge(p)})
    BY Zenon DEF Responses
  <2> QED
    BY <2>1, <2>2 DEF VersionMatches
<1>7. q \in {p, writeError(p)} \/ q \in Responses(p)
  <2>1. "server" # "client"
    OBVIOUS
  <2>2. q \in {writeError(p)} \/ q \in ServerHandles(p, m)
    BY <2>1, Zenon DEF Handled
  <2>3. \A r \in ServerHandles(p, m) : r \in {p, writeError(p)} \/ r \in Responses(p)
    BY DEF ServerHandles
  <2> QED
    BY <2>2, <2>3
<1> QED
  BY <1>2, <1>5, <1>6, <1>7 DEF Meek, Grows, Over

LEMMA ReceiveMessageTrust ==
    ASSUME Inv, Trusted, NEW e \in End, NEW k \in Conns, ReceiveMessage(e, k)
    PROVE  Trusted'
<1> DEFINE p == peer[e][k]
           s == net[e][k]
           m == Head(s)
           rest == Tail(s)
<1>1. PICK q \in Handled(e, p, m) : Becomes(e, k, q, rest, <<>>)
  BY DEF ReceiveMessage
<1>2. p.sock = "Connected" /\ s # <<>> /\ m # "fin" /\ compat' = compat
  BY DEF ReceiveMessage
<1>3. p \in Peer /\ s \in Seq(Packet) /\ <<>> \in Seq(Packet)
  BY PeersKnown
<1> HIDE DEF p, s
<1>4. m \in Message /\ rest \in Seq(Packet)
  <2>1. m \in Packet /\ rest \in Seq(Packet)
    BY <1>2, <1>3, HeadTailProperties
  <2> QED
    BY <1>2, <2>1 DEF Packet
<1>5. (Has(rest) => Has(s)) /\ (m = "valid" => Has(s))
  BY <1>2, <1>3, HasTail
<1> HIDE DEF m, rest
<1>6. CASE e = "server"
  <2>1. /\ Sound(q) /\ q.sock # "Backlog" /\ (p.authenticated = TRUE => q.authenticated = TRUE)
        /\ Has(q.out) => \/ Has(p.out)
                         \/ q.authenticated = TRUE /\ compat \in {"same", "large"}
    BY <1>1, <1>2, <1>3, <1>4, <1>6, ServerHandled, ServerHandledTrust
  <2>2. p = peer.server[k] /\ p.sock # "Unconnected" /\ Becomes("server", k, q, rest, <<>>)
    BY <1>1, <1>2, <1>6 DEF p
  <2> QED
    BY <1>2, <1>3, <1>4, <2>1, <2>2, HasEmpty, ServerTrust
<1>7. CASE e = "client"
  <2>1. /\ Sound(q) /\ q.sock # "Connecting"
        /\ q.authenticated = TRUE => p.authenticated = TRUE \/ m = "valid"
    BY <1>1, <1>2, <1>3, <1>4, <1>7, ClientHandled
  <2>2. p = peer.client[k] /\ s = net.client[k] /\ Becomes("client", k, q, rest, <<>>)
    BY <1>1, <1>7 DEF p, s
  <2> QED
    BY <1>2, <1>3, <1>4, <1>5, <2>1, <2>2, ClientTrust
<1> QED
  BY <1>6, <1>7 DEF End

LEMMA NewConnectionTrust ==
    ASSUME Inv, Trusted, NEW k \in Conns, handleNewConnection(k)
    PROVE  Trusted'
<1> DEFINE p == NewPeer("Connected")
           q == writeData(p, "challenge")
<1>1. /\ Becomes("server", k, q, net["server"][k], <<>>)
      /\ peer["server"][k].sock = "Backlog" /\ compat' = compat
  BY DEF handleNewConnection, PeerEvent
<1>2. p \in Peer /\ Dry(p) /\ p.sock = "Connected" /\ ~Has(p.out)
  BY NewPeerSound, HasEmpty DEF Socket, Sound, NewPeer
<1> HIDE DEF p
<1>3. Sound(q) /\ q.sock = "Connected" /\ ~Has(q.out)
  BY <1>2, WriteGrows, MeekWrite DEF Message, Meek, Grows
<1> HIDE DEF q
<1>4. net["server"][k] \in Seq(Packet) /\ <<>> \in Seq(Packet)
  BY PeersKnown DEF End
<1> QED
  BY <1>1, <1>3, <1>4, HasEmpty, ServerTrust

LEMMA SocketConnectsTrust ==
    ASSUME Inv, Trusted, NEW k \in Conns, SocketConnects(k)
    PROVE  Trusted'
<1> DEFINE n == NewPeer("Backlog")
           c == [peer["client"] EXCEPT ![k].sock = "Connected"]
           s == [peer["server"] EXCEPT ![k] = n]
<1>1. /\ peer' = [client |-> c, server |-> s] /\ peer["client"][k].sock = "Connecting"
      /\ compat' = compat /\ net' = net
  BY DEF SocketConnects
<1>2. ~Has(n.out)
  BY HasEmpty DEF NewPeer
<1> HIDE DEF n
<1>3. peer["client"] \in [Conns -> Peer] /\ peer["server"] \in [Conns -> Peer]
  BY DEF Inv, TypeOK, End
<1>4. /\ \A l \in Conns : l # k => c[l] = peer["client"][l] /\ s[l] = peer["server"][l]
      /\ s[k] = n
  BY <1>3
<1>5. c[k].sock = "Connected" /\ c[k].authenticated = peer["client"][k].authenticated
  BY <1>3 DEF Peer
<1> HIDE DEF c, s
<1>6. peer'["client"] = c /\ peer'["server"] = s
  BY <1>1
<1> SUFFICES ASSUME NEW l \in Conns PROVE (Joining(l) /\ Trust(l))'
  BY DEF Trusted
<1>7. Joining(l) /\ Trust(l)
  BY DEF Trusted
<1>8. CASE l # k
  BY <1>1, <1>4, <1>6, <1>7, <1>8 DEF Joining, Trust, Vouched
<1>9. CASE l = k
  <2>1. peer["client"][k].authenticated = FALSE /\ net["client"][k] = <<>>
    BY <1>1, <1>7, <1>9 DEF Joining
  <2>2. Joining(k)'
    BY <1>5, <1>6 DEF Joining
  <2>3. Trust(k)'
    BY <1>1, <1>2, <1>4, <1>5, <1>6, <2>1, HasEmpty DEF Trust
  <2> QED
    BY <1>9, <2>2, <2>3
<1> QED
  BY <1>8, <1>9

\* Messages that vanish, and peers of the server that are reset.
LEMMA LossTrust ==
    ASSUME Inv, Trusted, compat' = compat,
           \A l \in Conns :
             /\ peer'["client"][l] = peer["client"][l]
             /\ Has(net'["client"][l]) => Has(net["client"][l])
             /\ peer["client"][l].sock = "Connecting" => net'["client"][l] = net["client"][l]
             /\ \/ peer'["server"][l] = peer["server"][l]
                \/ peer'["server"][l].sock = "Unconnected" /\ peer'["server"][l].out = <<>>
    PROVE  Trusted'
<1> SUFFICES ASSUME NEW l \in Conns PROVE (Joining(l) /\ Trust(l))'
  BY DEF Trusted
<1>1. Joining(l) /\ Trust(l)
  BY DEF Trusted
<1>2. Joining(l)'
  BY <1>1 DEF Joining
<1>3. Trust(l)'
  BY <1>1, HasEmpty DEF Trust, Vouched
<1> QED
  BY <1>2, <1>3

LEMMA CutTrust ==
    ASSUME Inv, Trusted, NEW k \in Conns, Cut(k)
    PROVE  Trusted'
<1>1. /\ net' = [e \in End |-> [net[e] EXCEPT ![k] = <<>>]] /\ compat' = compat /\ peer' = peer
      /\ \A e \in End : peer[e][k].sock # "Unconnected"
  BY DEF Cut
<1>2. "client" \in End /\ "server" \in End /\ net \in [End -> [Conns -> Seq(Packet)]]
  BY DEF Inv, TypeOK, End
<1>3. \A l \in Conns : net'["client"][l] = IF l = k THEN <<>> ELSE net["client"][l]
  BY <1>1, <1>2
<1>4. peer["client"][k].sock # "Connecting"
  BY <1>1, <1>2 DEF Trusted, Joining
<1> QED
  BY <1>1, <1>3, <1>4, HasEmpty, LossTrust

LEMMA StopServerTrust ==
    ASSUME Inv, Trusted, stopServer
    PROVE  Trusted'
<1> DEFINE x(l) == [peer["server"][l] EXCEPT !.expectDisconnect = TRUE]
           s == [l \in Conns |-> Reset(x(l))]
           c == [l \in Conns |->
                  IF \/ l \in cut \/ peer["server"][l].sock = "Unconnected"
                     \/ peer["client"][l].sock = "Unconnected"
                    THEN net["client"][l] ELSE Append(net["client"][l], "fin")]
           none == [l \in Conns |-> <<>>]
<1>1. compat' = compat
  BY DEF stopServer
<1>2. net' = [client |-> c, server |-> none]
  BY DEF stopServer
<1>3. peer' = [peer EXCEPT !["server"] = s]
  BY DEF stopServer
<1>4. \A l \in Conns : Reset(x(l)).sock = "Unconnected" /\ Reset(x(l)).out = <<>>
  <2> TAKE l \in Conns
  <2>1. peer["server"][l] \in Peer /\ Dry(peer["server"][l])
    BY PeersKnown DEF End
  <2>2. x(l) \in Peer
    BY <2>1, FailedGrows DEF Grows, Sound
  <2> HIDE DEF x
  <2> QED
    BY <2>2 DEF Reset, Peer
<1>5. \A l \in Conns : s[l].sock = "Unconnected" /\ s[l].out = <<>>
  <2> HIDE DEF x
  <2> QED
    BY <1>4
<1> HIDE DEF s
<1>6. peer'["client"] = peer["client"] /\ peer'["server"] = s
  BY <1>3 DEF Inv, TypeOK, End
<1>7. \A l \in Conns : /\ Has(c[l]) => Has(net["client"][l])
                       /\ peer["server"][l].sock = "Unconnected" => c[l] = net["client"][l]
  <2> TAKE l \in Conns
  <2>1. net["client"][l] \in Seq(Packet) /\ "fin" \in Packet
    BY PeersKnown DEF End, Packet
  <2>2. Has(Append(net["client"][l], "fin")) => Has(net["client"][l])
    BY <2>1, HasAppend
  <2> QED
    BY <2>2
<1> HIDE DEF c, none
<1>8. net'["client"] = c
  BY <1>2
<1>9. \A l \in Conns : peer["client"][l].sock = "Connecting" => peer["server"][l].sock = "Unconnected"
  BY DEF Trusted, Joining
<1> QED
  BY <1>1, <1>5, <1>6, <1>7, <1>8, <1>9, LossTrust

LEMMA ConnectTrust ==
    ASSUME Inv, Trusted, NEW k \in Conns, connectToServer(k)
    PROVE  Trusted'
<1> DEFINE n(e) == NewPeer(IF e = "client" THEN "Connecting" ELSE "Unconnected")
<1>1. /\ net' = [e \in End |-> [net[e] EXCEPT ![k] = <<>>]] /\ compat' = compat
      /\ peer' = [e \in End |-> [peer[e] EXCEPT ![k] = n(e)]]
  BY DEF connectToServer
<1>2. /\ n("client").authenticated = FALSE
      /\ n("server").sock = "Unconnected" /\ n("server").out = <<>>
  BY DEF NewPeer
<1> HIDE DEF n
<1>3. /\ "client" \in End /\ "server" \in End /\ net \in [End -> [Conns -> Seq(Packet)]]
      /\ peer \in [End -> [Conns -> Peer]]
  BY DEF Inv, TypeOK, End
<1>4. \A e \in End, l \in Conns : /\ net'[e][l] = IF l = k THEN <<>> ELSE net[e][l]
                                  /\ peer'[e][l] = IF l = k THEN n(e) ELSE peer[e][l]
  BY <1>1, <1>3
<1> SUFFICES ASSUME NEW l \in Conns PROVE (Joining(l) /\ Trust(l))'
  BY DEF Trusted
<1>5. CASE l # k
  <2>1. Joining(l) /\ Trust(l)
    BY DEF Trusted
  <2> QED
    BY <1>1, <1>3, <1>4, <1>5, <2>1 DEF Joining, Trust, Vouched
<1>6. CASE l = k
  BY <1>2, <1>3, <1>4, <1>6, HasEmpty DEF Joining, Trust
<1> QED
  BY <1>5, <1>6

LEMMA DisconnectTrust ==
    ASSUME Inv, Trusted, DisconnectClient, compat' = compat
    PROVE  Trusted'
<1> DEFINE k == client
           c == peer["client"][k]
           p == [c EXCEPT !.expectDisconnect = TRUE]
           q == IF p.sock = "Connected" THEN disconnectFromHost(p) ELSE Reset(p)
           rest == net["client"][k]
<1>1. state = "CLIENT" /\ Becomes("client", k, q, rest, <<>>)
  BY DEF DisconnectClient, ClosesFirst
<1>2. k \in Conns
  BY <1>1, Settings DEF Inv, TypeOK, ClientPointer
<1>3. c \in Peer /\ Dry(c) /\ rest \in Seq(Packet) /\ <<>> \in Seq(Packet)
  BY <1>2, PeersKnown DEF End
<1> HIDE DEF c
<1>4. Meek(c, p)
  BY <1>3, MeekFailed
<1> HIDE DEF p
<1>5. Meek(c, q) /\ Over(q)
  BY <1>4, MeekSound, MeekReset, MeekHost, MeekTrans
<1> HIDE DEF q
<1>6. Sound(q) /\ q.sock # "Connecting" /\ q.authenticated = c.authenticated
  BY <1>5 DEF Meek, Grows, Over
<1>7. /\ Has(rest) => Has(net.client[k])
      /\ q.authenticated = TRUE => peer.client[k].authenticated = TRUE \/ Has(net.client[k])
  BY <1>6 DEF c
<1> HIDE DEF rest, k
<1> QED
  BY <1>1, <1>2, <1>3, <1>6, <1>7, ClientTrust

LEMMA StepTrust ==
    ASSUME Inv, Trusted, [Next]_vars
    PROVE  Trusted'
<1>1. ASSUME compat' = compat, peer' = peer, net' = net
      PROVE  Trusted'
  BY <1>1 DEF Trusted, Joining, Trust, Vouched
<1>2. CASE UNCHANGED vars
  BY <1>1, <1>2 DEF vars
<1>3. CASE User
  <2>1. CASE \E k \in Conns : UserConnect(k)
    BY <2>1, ConnectTrust DEF UserConnect
  <2>2. CASE UserDisconnect
    <3>1. compat' = compat /\ (DisconnectClient \/ (peer' = peer /\ net' = net))
      BY <2>2 DEF UserDisconnect, CancelReconnect, InvalidDisconnect
    <3> QED
      BY <1>1, <3>1, DisconnectTrust
  <2> QED
    BY <1>3, <2>1, <2>2 DEF User
<1>4. CASE Timers
  <2>1. CASE \E k \in Conns : TimerFires(k)
    BY <2>1, ConnectTrust DEF TimerFires
  <2>2. CASE TimerIgnored
    BY <1>1, <2>2 DEF TimerIgnored
  <2> QED
    BY <1>4, <2>1, <2>2 DEF Timers
<1>5. CASE Server
  <2>1. CASE startServer
    BY <1>1, <2>1 DEF startServer
  <2>2. ASSUME NEW k \in Conns, Broadcast(k)
        PROVE  Trusted'
    <3>1. /\ peer["server"][k].sock = "Connected" /\ "server" \in End
          /\ PeerEvent("server", k, writeData(peer["server"][k], "state"), net["server"][k], <<>>)
      BY <2>2 DEF Broadcast, End
    <3> QED
      BY <3>1, WriteTrust DEF Message
  <2> QED
    BY <1>5, <2>1, <2>2, StopServerTrust DEF Server
<1>6. ASSUME NEW k \in Conns, Connection(k)
      PROVE  Trusted'
  <2>1. ASSUME NEW e \in End, EndStep(e, k)
        PROVE  Trusted'
    <3>1. CASE Alive(e, k)
      <4>1. /\ peer[e][k].sock = "Connected"
            /\ PeerEvent(e, k, writeData(peer[e][k], "alive"), net[e][k], <<>>)
        BY <3>1 DEF Alive
      <4> QED
        BY <4>1, WriteTrust DEF Message
    <3> QED
      BY <2>1, <3>1, FlushTrust, NetErrorTrust, TimeoutTrust, ReceiveMessageTrust,
         RemoteHostClosedTrust DEF EndStep
  <2> QED
    BY <1>6, <2>1, SocketConnectsTrust, SocketFailsTrust, CutTrust, NewConnectionTrust
    DEF Connection
<1> QED
  BY <1>2, <1>3, <1>4, <1>5, <1>6 DEF Next

LEMMA TrustHolds == Spec => []Trusted
<1>1. Init => Trusted
  <2> SUFFICES ASSUME Init, NEW k \in Conns PROVE Joining(k) /\ Trust(k)
    BY DEF Trusted
  <2>1. /\ peer["client"][k] = NewPeer("Unconnected") /\ peer["server"][k] = NewPeer("Unconnected")
        /\ net["client"][k] = <<>>
    BY DEF Init, End
  <2>2. /\ NewPeer("Unconnected").sock = "Unconnected" /\ NewPeer("Unconnected").out = <<>>
        /\ NewPeer("Unconnected").authenticated = FALSE
    BY DEF NewPeer
  <2> QED
    BY <2>1, <2>2, HasEmpty DEF Joining, Trust
<1>2. Inv /\ Trusted /\ [Next]_vars => Trusted'
  BY StepTrust
<1> QED
  BY InvHolds, <1>1, <1>2, PTL DEF Spec

\* RemoteSync says CLIENT only for a peer that both ends have authenticated and
\* that runs the same version, whatever was lost, cut, timed out or restarted.
THEOREM ClientsAreAuthenticated == Spec => []ClientIsAuthenticated
<1>1. Inv /\ Trusted => ClientIsAuthenticated
  <2> SUFFICES ASSUME Inv, Trusted, state = "CLIENT"
               PROVE  /\ compat \in {"same", "large"}
                      /\ peer.client[client].authenticated
                      /\ peer.server[client].sock # "Unconnected"
                           => peer.server[client].authenticated
    BY DEF ClientIsAuthenticated
  <2>1. client \in Conns /\ peer.client[client].authenticated = TRUE
    BY Settings DEF Inv, TypeOK, ClientPointer, Confirmation
  <2> QED
    BY <2>1 DEF Trusted, Trust, Vouched
<1> QED
  BY InvHolds, TrustHolds, <1>1, PTL
--------------------------------------------------------------------------------
(* Programs of the same version understand each other: what is under way to a *)
(* peer, and what is written for it, is what it expects next.                 *)

\* The messages of a sequence, and a sequence that starts with one of `first` and
\* goes on with some of `more`.
Els(s) == {s[i] : i \in DOMAIN s}
Opens(t, first, more) == \A i \in 1 .. Len(t) : t[i] \in (IF i = 1 THEN first ELSE more)

\* What the client may still hear: a challenge until it has answered one, then the
\* confirmation, then anything a server says.
Later == {"valid", "alive", "state", "fin"}
FirstFor(c) == IF c.authResponseSent # TRUE THEN {"challenge", "fin"}
               ELSE IF c.authenticated # TRUE THEN {"valid", "fin"} ELSE Later
MoreFor(c) == IF c.authResponseSent = TRUE THEN Later ELSE {"fin"}

\* The client c reads t and has written u, the server's peer is s.
Asks(c, s, u) ==
    /\ c.authenticated = TRUE => c.authResponseSent = TRUE
    /\ c.authResponseSent # TRUE =>
         /\ "response" \notin u
         /\ s.sock \in {"Connected", "Closing"} => s.authenticated # TRUE
    /\ c.authResponseSent = TRUE => s.sock # "Backlog"
Answered(c, s, t) ==
    c.authResponseSent = TRUE /\ c.authenticated # TRUE /\ s.sock = "Connected" /\ s.authenticated = TRUE
      => t # <<>>
Hearing(c, s, t, u) == Opens(t, FirstFor(c), MoreFor(c)) /\ Asks(c, s, u) /\ Answered(c, s, t)

\* The server's peer s reads u.
Served(s, u) ==
    /\ u \subseteq {"response", "alive", "fin"}
    /\ "alive" \in u => s.sock = "Connected" /\ s.authenticated = TRUE

\* One connection: its two peers, what is on the way to them, whether it is cut.
Talk(c, s, nc, ns, dead) ==
    /\ "error" \notin Els(nc) \union Els(ns) \union Els(c.out) \union Els(s.out)
    /\ dead => nc = <<>> /\ ns = <<>>
    /\ s.sock = "Unconnected" => ns = <<>>
    /\ s.sock = "Backlog" => nc = <<>>
    /\ c.sock = "Connecting" => c.authResponseSent # TRUE /\ c.authenticated # TRUE
    /\ ~dead /\ c.sock = "Connected" => Hearing(c, s, nc \o s.out, Els(ns) \union Els(c.out))
    /\ ~dead /\ s.sock \in {"Backlog", "Connected"} => Served(s, Els(ns) \union Els(c.out))
Calmly(k) == Talk(peer["client"][k], peer["server"][k], net["client"][k], net["server"][k], k \in cut)
Calm == compat = "same" => \A k \in Conns : Calmly(k)

LEMMA ElsFacts ==
    ASSUME NEW S, NEW s \in Seq(S), NEW t \in Seq(S)
    PROVE  /\ Els(<<>>) = {} /\ (Els(s) = {} => s = <<>>) /\ Els(s) \subseteq S
           /\ Els(s \o t) = Els(s) \union Els(t)
           /\ s # <<>> => Els(Tail(s)) \subseteq Els(s) /\ Head(s) \in Els(s)
           /\ \A i \in 1 .. Len(s) : s[i] \in Els(s)
<1>1. DOMAIN s = 1 .. Len(s) /\ DOMAIN t = 1 .. Len(t) /\ Len(s) \in Nat /\ Len(t) \in Nat
  BY LenProperties
<1>2. Els(<<>>) = {}
  BY DEF Els
<1>3. Els(s) = {} => s = <<>>
  <2>1. s # <<>> => s[1] \in Els(s)
    BY <1>1, EmptySeq DEF Els
  <2> QED
    BY <2>1
<1>4. Els(s) \subseteq S /\ \A i \in 1 .. Len(s) : s[i] \in Els(s)
  BY <1>1, ElementOfSeq DEF Els
<1>5. /\ s \o t \in Seq(S) /\ DOMAIN (s \o t) = 1 .. Len(s) + Len(t)
      /\ \A i \in 1 .. Len(s) + Len(t) :
           (s \o t)[i] = IF i <= Len(s) THEN s[i] ELSE t[i - Len(s)]
  BY ConcatProperties, LenProperties
<1>6. Els(s \o t) \subseteq Els(s) \union Els(t)
  <2> SUFFICES ASSUME NEW i \in 1 .. Len(s) + Len(t) PROVE (s \o t)[i] \in Els(s) \union Els(t)
    BY <1>5 DEF Els
  <2>1. i <= Len(s) => i \in 1 .. Len(s)
    BY <1>1
  <2>2. ~(i <= Len(s)) => i - Len(s) \in 1 .. Len(t)
    BY <1>1
  <2> QED
    BY <1>1, <1>5, <2>1, <2>2 DEF Els
<1>7. Els(s) \subseteq Els(s \o t)
  <2> SUFFICES ASSUME NEW i \in 1 .. Len(s) PROVE s[i] \in Els(s \o t)
    BY <1>1 DEF Els
  <2>1. i \in 1 .. Len(s) + Len(t) /\ s[i] = (s \o t)[i]
    BY <1>1, <1>5
  <2> QED
    BY <1>5, <2>1 DEF Els
<1>8. Els(t) \subseteq Els(s \o t)
  <2> SUFFICES ASSUME NEW i \in 1 .. Len(t) PROVE t[i] \in Els(s \o t)
    BY <1>1 DEF Els
  <2>1. i + Len(s) \in 1 .. Len(s) + Len(t) /\ t[i] = (s \o t)[i + Len(s)]
    BY <1>1, <1>5
  <2> QED
    BY <1>5, <2>1 DEF Els
<1>9. s # <<>> => Els(Tail(s)) \subseteq Els(s) /\ Head(s) \in Els(s)
  <2> SUFFICES ASSUME s # <<>> PROVE Els(Tail(s)) \subseteq Els(s) /\ Head(s) \in Els(s)
    OBVIOUS
  <2>1. /\ Tail(s) \in Seq(S) /\ Len(Tail(s)) = Len(s) - 1 /\ Len(s) > 0
        /\ \A i \in 1 .. Len(Tail(s)) : Tail(s)[i] = s[i + 1]
    BY HeadTailProperties
  <2>2. DOMAIN Tail(s) = 1 .. (Len(s) - 1)
    BY <2>1, LenProperties
  <2>3. \A i \in 1 .. (Len(s) - 1) : Tail(s)[i] = s[i + 1] /\ i + 1 \in 1 .. Len(s)
    BY <1>1, <2>1
  <2>4. Els(Tail(s)) \subseteq Els(s)
    BY <1>1, <2>2, <2>3 DEF Els
  <2>5. Head(s) = s[1] /\ 1 \in 1 .. Len(s)
    BY <1>1, <2>1
  <2> QED
    BY <1>1, <2>4, <2>5 DEF Els
<1> QED
  BY <1>2, <1>3, <1>4, <1>6, <1>7, <1>8, <1>9

LEMMA ElsThree ==
    ASSUME NEW S, NEW s \in Seq(S), NEW t \in Seq(S), NEW u \in Seq(S)
    PROVE  /\ s \o t \in Seq(S) /\ s \o t \o u \in Seq(S)
           /\ Els(s \o t) = Els(s) \union Els(t)
           /\ Els(s \o t \o u) = Els(s) \union Els(t) \union Els(u)
           /\ s \o (t \o u) = (s \o t) \o u
<1>1. s \o t \in Seq(S) /\ Els(s \o t) = Els(s) \union Els(t)
  BY ConcatProperties, ElsFacts
<1>2. ASSUME NEW r \in Seq(S)
      PROVE  r \o u \in Seq(S) /\ Els(r \o u) = Els(r) \union Els(u)
  BY ConcatProperties, ElsFacts
<1>3. s \o (t \o u) = (s \o t) \o u
  BY ConcatAssociative
<1>4. Els(s \o t \o u) = Els(s) \union Els(t) \union Els(u)
  BY <1>1, <1>2, Zenon
<1> QED
  BY <1>1, <1>2, <1>3, <1>4, Zenon

LEMMA ElsOne == ASSUME NEW x PROVE Els(<<x>>) = {x}
  BY DEF Els

LEMMA ElsAdd ==
    ASSUME NEW r \in Seq(Packet), NEW x \in Packet
    PROVE  r \o <<x>> \in Seq(Packet) /\ Els(r \o <<x>>) = Els(r) \union {x}
<1>1. <<x>> \in Seq(Packet) /\ Els(<<x>>) = {x}
  BY ElsOne
<1>2. r \o <<x>> \in Seq(Packet)
  BY <1>1, ConcatProperties
<1>3. ASSUME NEW t \in Seq(Packet) PROVE Els(r \o t) = Els(r) \union Els(t)
  BY ElsFacts
<1> QED
  BY <1>1, <1>2, <1>3

LEMMA TailConcat ==
    ASSUME NEW S, NEW s \in Seq(S), NEW t \in Seq(S), s # <<>>
    PROVE  /\ s \o t # <<>> /\ Head(s \o t) = Head(s) /\ Tail(s \o t) = Tail(s) \o t
<1>1. /\ Head(s) \in S /\ Tail(s) \in Seq(S) /\ Len(Tail(s)) = Len(s) - 1 /\ Len(s) \in Nat /\ Len(s) > 0
      /\ \A i \in 1 .. Len(Tail(s)) : Tail(s)[i] = s[i + 1]
  BY HeadTailProperties, EmptySeq
<1>2. /\ s \o t \in Seq(S) /\ Len(s \o t) = Len(s) + Len(t) /\ Len(t) \in Nat
      /\ \A i \in 1 .. Len(s) + Len(t) :
           (s \o t)[i] = IF i <= Len(s) THEN s[i] ELSE t[i - Len(s)]
  BY ConcatProperties, LenProperties
<1>3. s \o t # <<>>
  BY <1>1, <1>2, EmptySeq
<1>4. /\ Tail(s \o t) \in Seq(S) /\ Len(Tail(s \o t)) = Len(s) + Len(t) - 1
      /\ \A i \in 1 .. Len(s) + Len(t) - 1 : Tail(s \o t)[i] = (s \o t)[i + 1]
  BY <1>2, <1>3, HeadTailProperties
<1>5. Head(s \o t) = Head(s)
  BY <1>1, <1>2, <1>3
<1>6. /\ Tail(s) \o t \in Seq(S) /\ Len(Tail(s) \o t) = Len(s) - 1 + Len(t)
      /\ \A i \in 1 .. Len(s) - 1 + Len(t) :
           (Tail(s) \o t)[i] = IF i <= Len(s) - 1 THEN Tail(s)[i] ELSE t[i - (Len(s) - 1)]
  BY <1>1, ConcatProperties
<1>7. \A i \in 1 .. Len(s) + Len(t) - 1 : Tail(s \o t)[i] = (Tail(s) \o t)[i]
  <2> TAKE i \in 1 .. Len(s) + Len(t) - 1
  <2>1. Tail(s \o t)[i] = IF i + 1 <= Len(s) THEN s[i + 1] ELSE t[i + 1 - Len(s)]
    BY <1>1, <1>2, <1>4
  <2>2. CASE i + 1 <= Len(s)
    <3>1. i \in 1 .. Len(Tail(s)) /\ i <= Len(s) - 1 /\ i \in 1 .. Len(s) - 1 + Len(t)
      BY <1>1, <1>2, <2>2
    <3> QED
      BY <1>1, <1>6, <2>1, <2>2, <3>1
  <2>3. CASE ~(i + 1 <= Len(s))
    <3>1. ~(i <= Len(s) - 1) /\ i \in 1 .. Len(s) - 1 + Len(t) /\ i - (Len(s) - 1) = i + 1 - Len(s)
      BY <1>1, <1>2, <2>3
    <3> QED
      BY <1>6, <2>1, <2>3, <3>1
  <2> QED
    BY <2>2, <2>3
<1>8. Len(Tail(s \o t)) = Len(Tail(s) \o t)
  BY <1>1, <1>2, <1>4, <1>6
<1>9. Tail(s \o t) = Tail(s) \o t
  BY <1>1, <1>2, <1>4, <1>6, <1>7, <1>8, SeqEqual
<1> QED
  BY <1>3, <1>5, <1>9

LEMMA HeadOnward ==
    ASSUME NEW S, NEW t \in Seq(S), t # <<>>
    PROVE  <<Head(t)>> \o Tail(t) = t
<1>1. /\ Head(t) \in S /\ Head(t) = t[1] /\ Tail(t) \in Seq(S) /\ Len(Tail(t)) = Len(t) - 1
      /\ Len(t) \in Nat /\ Len(t) > 0
      /\ \A i \in 1 .. Len(Tail(t)) : Tail(t)[i] = t[i + 1]
  BY HeadTailProperties, EmptySeq
<1>2. <<Head(t)>> \in Seq(S) /\ Len(<<Head(t)>>) = 1
  BY <1>1
<1>3. /\ <<Head(t)>> \o Tail(t) \in Seq(S) /\ Len(<<Head(t)>> \o Tail(t)) = Len(t)
      /\ \A i \in 1 .. Len(t) : (<<Head(t)>> \o Tail(t))[i] = IF i <= 1 THEN <<Head(t)>>[i] ELSE Tail(t)[i - 1]
  BY <1>1, <1>2, ConcatProperties
<1>4. \A i \in 1 .. Len(t) : (<<Head(t)>> \o Tail(t))[i] = t[i]
  <2> TAKE i \in 1 .. Len(t)
  <2>1. CASE i = 1
    BY <1>1, <1>3, <2>1
  <2>2. CASE i # 1
    <3>1. i - 1 \in 1 .. Len(Tail(t)) /\ ~(i <= 1) /\ (i - 1) + 1 = i
      BY <1>1, <2>2
    <3> QED
      BY <1>1, <1>3, <3>1
  <2> QED
    BY <2>1, <2>2
<1> QED
  BY <1>3, <1>4, SeqEqual

LEMMA OpensConcat ==
    ASSUME NEW S, NEW s \in Seq(S), NEW t \in Seq(S), NEW F, NEW M
    PROVE  /\ Opens(s \o t, F, M) => Opens(s, F, M)
           /\ Opens(s, F, M) /\ Els(t) \subseteq M /\ (s = <<>> => Els(t) \subseteq F)
                => Opens(s \o t, F, M)
<1>1. /\ Len(s \o t) = Len(s) + Len(t) /\ Len(t) \in Nat /\ Len(s) \in Nat
      /\ \A i \in 1 .. Len(s) + Len(t) :
           (s \o t)[i] = IF i <= Len(s) THEN s[i] ELSE t[i - Len(s)]
  BY ConcatProperties, LenProperties
<1>2. ASSUME Opens(s \o t, F, M) PROVE Opens(s, F, M)
  BY <1>1, <1>2 DEF Opens
<1>3. ASSUME Opens(s, F, M), Els(t) \subseteq M, s = <<>> => Els(t) \subseteq F
      PROVE  Opens(s \o t, F, M)
  <2> SUFFICES ASSUME NEW i \in 1 .. Len(s) + Len(t)
               PROVE  (s \o t)[i] \in (IF i = 1 THEN F ELSE M)
    BY <1>1 DEF Opens
  <2>1. CASE i <= Len(s)
    BY <1>1, <1>3, <2>1 DEF Opens
  <2>2. CASE ~(i <= Len(s))
    <3>1. i - Len(s) \in 1 .. Len(t) /\ (s \o t)[i] = t[i - Len(s)]
      BY <1>1, <2>2
    <3>2. t[i - Len(s)] \in Els(t)
      BY <3>1, ElsFacts
    <3>3. i = 1 => Len(s) = 0
      BY <1>1, <2>2
    <3>4. Len(s) = 0 => s = <<>>
      BY EmptySeq
    <3> QED
      BY <1>3, <3>1, <3>2, <3>3, <3>4
  <2> QED
    BY <2>1, <2>2
<1> QED
  BY <1>2, <1>3

LEMMA OpensTail ==
    ASSUME NEW S, NEW t \in Seq(S), NEW F, NEW M, Opens(t, F, M), t # <<>>
    PROVE  Head(t) \in F /\ Els(Tail(t)) \subseteq M
<1>1. /\ Head(t) = t[1] /\ Tail(t) \in Seq(S) /\ Len(Tail(t)) = Len(t) - 1
      /\ Len(t) \in Nat /\ Len(t) > 0
      /\ \A i \in 1 .. Len(Tail(t)) : Tail(t)[i] = t[i + 1]
  BY HeadTailProperties, EmptySeq
<1>2. DOMAIN Tail(t) = 1 .. (Len(t) - 1)
  BY <1>1, LenProperties
<1>3. \A i \in 1 .. (Len(t) - 1) : Tail(t)[i] = t[i + 1] /\ i + 1 \in 1 .. Len(t) /\ i + 1 # 1
  BY <1>1
<1>4. Els(Tail(t)) \subseteq M
  BY <1>2, <1>3 DEF Els, Opens
<1>5. 1 \in 1 .. Len(t)
  BY <1>1
<1>6. Head(t) \in F
  BY <1>1, <1>5 DEF Opens
<1> QED
  BY <1>4, <1>6

LEMMA OpensAny ==
    ASSUME NEW S, NEW t \in Seq(S), NEW F, NEW M, Els(t) \subseteq F, Els(t) \subseteq M
    PROVE  Opens(t, F, M)
  BY ElsFacts DEF Opens

\* What the connection is after the client's end became q, with `rest` left to
\* read and `sent` on its way; and the same for the server's end.
ClientSpoke(s, ns, dead, q, rest, sent) ==
    \A nc2, ns2 :
      /\ nc2 = IF q.sock = "Unconnected" THEN <<>> ELSE rest
      /\ ns2 = IF dead \/ s.sock = "Unconnected" THEN ns
               ELSE ns \o sent \o (IF q.sock = "Unconnected" THEN <<"fin">> ELSE <<>>)
      => Talk(q, s, nc2, ns2, dead)
ServerSpoke(c, nc, dead, q, rest, sent) ==
    \A nc2, ns2 :
      /\ ns2 = IF q.sock = "Unconnected" THEN <<>> ELSE rest
      /\ nc2 = IF dead \/ c.sock = "Unconnected" THEN nc
               ELSE nc \o sent \o (IF q.sock = "Unconnected" THEN <<"fin">> ELSE <<>>)
      => Talk(c, q, nc2, ns2, dead)

\* What the two events may be.
ClientMay(c, s, nc, ns, dead, q, rest, sent, W) ==
    /\ q \in Peer /\ rest \in Seq(Packet) /\ sent \in Seq(Packet)
    /\ q.sock # "Connecting" /\ Els(rest) \subseteq Els(nc)
    /\ W \subseteq {"alive", "response"} /\ Els(sent) \union Els(q.out) \subseteq Els(c.out) \union W
    /\ "alive" \in W => s.sock # "Backlog" /\ (s.sock = "Connected" => s.authenticated = TRUE)
    /\ ~dead /\ q.sock = "Connected" /\ Hearing(c, s, nc \o s.out, Els(ns) \union Els(c.out))
         => Hearing(q, s, rest \o s.out, Els(ns) \union Els(sent) \union Els(q.out))
    /\ q.sock = "Connected" => c.sock = "Connected"
ServerMay(c, s, nc, ns, dead, q, rest, sent) ==
    /\ q \in Peer /\ rest \in Seq(Packet) /\ sent \in Seq(Packet)
    /\ q.sock # "Backlog" /\ Els(rest) \subseteq Els(ns) /\ Dry(q)
    /\ "error" \notin Els(sent) \union Els(q.out)
    /\ q.sock = "Connected" =>
         /\ s.sock \in {"Backlog", "Connected"}
         /\ s.sock = "Connected" /\ s.authenticated = TRUE => q.authenticated = TRUE
    /\ ~dead /\ c.sock = "Connected" /\ Hearing(c, s, nc \o s.out, Els(ns) \union Els(c.out))
         => Hearing(c, q, nc \o (sent \o q.out), Els(ns) \union Els(c.out))

\* What is written at one end only adds to what the other end will read.
LEMMA ClientTalk ==
    ASSUME NEW c \in Peer, NEW s \in Peer, NEW nc \in Seq(Packet), NEW ns \in Seq(Packet),
           NEW dead \in BOOLEAN, Talk(c, s, nc, ns, dead),
           NEW q, NEW rest, NEW sent, NEW W, ClientMay(c, s, nc, ns, dead, q, rest, sent, W)
    PROVE  ClientSpoke(s, ns, dead, q, rest, sent)
<1> SUFFICES ASSUME NEW nc2, NEW ns2,
                    nc2 = IF q.sock = "Unconnected" THEN <<>> ELSE rest,
                    ns2 = IF dead \/ s.sock = "Unconnected" THEN ns
                          ELSE ns \o sent \o (IF q.sock = "Unconnected" THEN <<"fin">> ELSE <<>>)
             PROVE  Talk(q, s, nc2, ns2, dead)
  BY DEF ClientSpoke
<1> USE DEF ClientMay
<1>1. <<>> \in Seq(Packet) /\ "fin" \in Packet
  BY EmptySeq DEF Packet
<1>2. Els(nc2) \subseteq Els(nc) /\ nc2 \in Seq(Packet) /\ (nc = <<>> => nc2 = <<>>)
  <2>1. Els(<<>>) = {} /\ (Els(rest) = {} => rest = <<>>)
    BY <1>1, ElsFacts
  <2> QED
    BY <1>1, <2>1
<1>3. Els(ns2) \subseteq Els(ns) \union Els(sent)
                          \union (IF q.sock = "Unconnected" THEN {"fin"} ELSE {})
  <2> DEFINE fin == IF q.sock = "Unconnected" THEN <<"fin">> ELSE <<>>
  <2>1. fin \in Seq(Packet) /\ Els(fin) = IF q.sock = "Unconnected" THEN {"fin"} ELSE {}
    <3>1. <<"fin">> \in Seq(Packet)
      BY <1>1
    <3> QED
      BY <1>1, <3>1, ElsOne, ElsFacts
  <2> HIDE DEF fin
  <2>2. Els(ns \o sent \o fin) = Els(ns) \union Els(sent) \union Els(fin)
    BY <2>1, ElsThree
  <2>3. ns2 = ns \/ ns2 = ns \o sent \o fin
    BY DEF fin
  <2> QED
    BY <2>1, <2>2, <2>3
<1>4. "error" \notin Els(nc2) \union Els(ns2) \union Els(q.out) \union Els(s.out)
  BY <1>2, <1>3 DEF Talk
<1>5. dead => nc2 = <<>> /\ ns2 = <<>>
  BY <1>2 DEF Talk
<1>6. s.sock = "Unconnected" => ns2 = <<>>
  BY DEF Talk
<1>7. s.sock = "Backlog" => nc2 = <<>>
  BY <1>2 DEF Talk
<1>8. ASSUME ~dead, q.sock = "Connected"
      PROVE  Hearing(q, s, nc2 \o s.out, Els(ns2) \union Els(q.out))
  <2>1. Hearing(q, s, rest \o s.out, Els(ns) \union Els(sent) \union Els(q.out))
    BY <1>8 DEF Talk
  <2>2. nc2 = rest /\ Els(ns2) \subseteq Els(ns) \union Els(sent)
    BY <1>3, <1>8
  <2> QED
    BY <2>1, <2>2 DEF Hearing, Asks
<1>9. ASSUME ~dead, s.sock \in {"Backlog", "Connected"}
      PROVE  Served(s, Els(ns2) \union Els(q.out))
  <2>1. Served(s, Els(ns) \union Els(c.out))
    BY <1>9 DEF Talk
  <2>2. Els(ns2) \union Els(q.out) \subseteq Els(ns) \union Els(c.out) \union W \union {"fin"}
    BY <1>3
  <2> QED
    BY <1>9, <2>1, <2>2 DEF Served
<1> QED
  BY <1>4, <1>5, <1>6, <1>7, <1>8, <1>9 DEF Talk

LEMMA ServerTalk ==
    ASSUME NEW c \in Peer, NEW s \in Peer, NEW nc \in Seq(Packet), NEW ns \in Seq(Packet),
           NEW dead \in BOOLEAN, Talk(c, s, nc, ns, dead),
           NEW q, NEW rest, NEW sent, ServerMay(c, s, nc, ns, dead, q, rest, sent)
    PROVE  ServerSpoke(c, nc, dead, q, rest, sent)
<1> SUFFICES ASSUME NEW nc2, NEW ns2,
                    ns2 = IF q.sock = "Unconnected" THEN <<>> ELSE rest,
                    nc2 = IF dead \/ c.sock = "Unconnected" THEN nc
                          ELSE nc \o sent \o (IF q.sock = "Unconnected" THEN <<"fin">> ELSE <<>>)
             PROVE  Talk(c, q, nc2, ns2, dead)
  BY DEF ServerSpoke
<1> USE DEF ServerMay
<1> DEFINE fin == IF q.sock = "Unconnected" THEN <<"fin">> ELSE <<>>
<1>1. <<>> \in Seq(Packet) /\ "fin" \in Packet
  BY EmptySeq DEF Packet
<1>2. Els(ns2) \subseteq Els(ns) /\ ns2 \in Seq(Packet) /\ (ns = <<>> => ns2 = <<>>)
  <2>1. Els(<<>>) = {} /\ (Els(rest) = {} => rest = <<>>)
    BY <1>1, ElsFacts
  <2> QED
    BY <1>1, <2>1
<1>3. fin \in Seq(Packet) /\ Els(fin) = IF q.sock = "Unconnected" THEN {"fin"} ELSE {}
  <2>1. <<"fin">> \in Seq(Packet)
    BY <1>1
  <2> QED
    BY <1>1, <2>1, ElsOne, ElsFacts
<1>4. q.out \in Seq(Packet) /\ (q.sock = "Unconnected" => q.out = <<>>)
  <2>1. q.out \in Seq(Message)
    BY PeerFields
  <2>2. Message \subseteq Packet
    BY DEF Packet
  <2> QED
    BY <2>1, <2>2, SeqMonotonic DEF Dry
<1>5. nc2 = nc \/ nc2 = nc \o sent \o fin
  OBVIOUS
<1>6. /\ nc \o sent \in Seq(Packet) /\ Els(nc \o sent) = Els(nc) \union Els(sent)
      /\ Els(nc \o sent \o fin) = Els(nc) \union Els(sent) \union Els(fin)
      /\ nc \o sent \o fin \in Seq(Packet)
      /\ nc \o (sent \o q.out) = (nc \o sent) \o q.out
  <2> HIDE DEF fin
  <2>1. /\ nc \o sent \in Seq(Packet) /\ Els(nc \o sent) = Els(nc) \union Els(sent)
        /\ Els(nc \o sent \o fin) = Els(nc) \union Els(sent) \union Els(fin)
        /\ nc \o sent \o fin \in Seq(Packet)
    BY <1>3, ElsThree
  <2>2. \A u \in Seq(Packet) : nc \o (sent \o u) = (nc \o sent) \o u
    BY ElsThree
  <2> QED
    BY <1>4, <2>1, <2>2
<1>7. "error" \notin Els(nc2) \union Els(ns2) \union Els(c.out) \union Els(q.out)
  BY <1>2, <1>3, <1>5, <1>6 DEF Talk
<1>8. dead => nc2 = <<>> /\ ns2 = <<>>
  BY <1>2 DEF Talk
<1>9. c.sock = "Connecting" => c.authResponseSent # TRUE /\ c.authenticated # TRUE
  BY DEF Talk
<1>10. ASSUME ~dead, c.sock = "Connected"
       PROVE  Hearing(c, q, nc2 \o q.out, Els(ns2) \union Els(c.out))
  <2>1. Hearing(c, q, (nc \o sent) \o q.out, Els(ns) \union Els(c.out))
    BY <1>6, <1>10 DEF Talk
  <2>2. nc2 = nc \o sent \o fin
    BY <1>10
  <2>3. CASE q.sock # "Unconnected"
    <3>1. nc2 = nc \o sent
      BY <1>1, <1>6, <2>2, <2>3, ConcatEmptySeq
    <3> QED
      BY <1>2, <2>1, <3>1 DEF Hearing, Asks
  <2>4. CASE q.sock = "Unconnected"
    <3> DEFINE t == nc \o sent
    <3>1. Opens(t, FirstFor(c), MoreFor(c))
      BY <1>4, <1>6, <2>1, OpensConcat DEF Hearing
    <3>2. nc2 \o q.out = t \o fin
      BY <1>4, <1>6, <2>2, <2>4, ConcatEmptySeq
    <3>3. Els(fin) = {"fin"} /\ fin \in Seq(Packet) /\ t \in Seq(Packet)
      BY <1>3, <1>6, <2>4
    <3> HIDE DEF t, fin
    <3>4. "fin" \in FirstFor(c) /\ "fin" \in MoreFor(c)
      BY DEF FirstFor, MoreFor, Later
    <3>5. Opens(t \o fin, FirstFor(c), MoreFor(c))
      BY <3>1, <3>3, <3>4, OpensConcat
    <3> QED
      BY <1>2, <2>1, <2>4, <3>2, <3>5 DEF Hearing, Asks, Answered
  <2> QED
    BY <2>3, <2>4
<1>11. ASSUME ~dead, q.sock \in {"Backlog", "Connected"}
       PROVE  Served(q, Els(ns2) \union Els(c.out))
  <2>1. Served(s, Els(ns) \union Els(c.out))
    BY <1>11 DEF Talk
  <2> QED
    BY <1>2, <1>11, <2>1 DEF Served
<1> QED
  BY <1>7, <1>8, <1>9, <1>10, <1>11 DEF Talk

--------------------------------------------------------------------------------
\* The values after an event at one end of a connection.
LEMMA BecomesValues ==
    ASSUME TypeOK, NEW e \in End, NEW k \in Conns, NEW q \in Peer,
           NEW rest \in Seq(Packet), NEW sent \in Seq(Packet), Becomes(e, k, q, rest, sent)
    PROVE  /\ peer'[e][k] = q /\ peer'[Other(e)][k] = peer[Other(e)][k]
           /\ net'[e][k] = IF q.sock = "Unconnected" THEN <<>> ELSE rest
           /\ net'[Other(e)][k] =
                IF k \in cut \/ peer[Other(e)][k].sock = "Unconnected" THEN net[Other(e)][k]
                ELSE net[Other(e)][k] \o sent \o (IF q.sock = "Unconnected" THEN <<"fin">> ELSE <<>>)
           /\ \A d \in End, l \in Conns \ {k} : /\ net'[d][l] = net[d][l]
                                                /\ peer'[d][l] = peer[d][l]
<1> DEFINE o == Other(e)
           mine == IF q.sock = "Unconnected" THEN <<>> ELSE rest
           fin == IF q.sock = "Unconnected" THEN <<"fin">> ELSE <<>>
           heard == k \notin cut /\ peer[o][k].sock # "Unconnected"
           theirs == IF ~heard THEN net[o][k] ELSE net[o][k] \o sent \o fin
           first == [net EXCEPT ![e][k] = mine]
<1>1. net' = [first EXCEPT ![o][k] = theirs]
  BY DEF Becomes
<1>2. theirs = IF k \in cut \/ peer[o][k].sock = "Unconnected" THEN net[o][k]
               ELSE net[o][k] \o sent \o fin
  OBVIOUS
<1> HIDE DEF mine, heard
<1>3. o \in End /\ o # e
  BY Ends
<1> HIDE DEF o
<1>4. net \in [End -> [Conns -> Seq(Packet)]]
  BY DEF TypeOK
<1> HIDE DEF theirs
<1>5. /\ \A d \in End, l \in Conns \ {k} : net'[d][l] = net[d][l]
      /\ net'[e][k] = mine /\ net'[o][k] = theirs
  BY <1>1, <1>3, <1>4
<1>6. \A d \in End, l \in Conns : peer'[d][l] = IF d = e /\ l = k THEN q ELSE peer[d][l]
  BY BecomesTyped
<1>7. peer'[e][k] = q /\ peer'[o][k] = peer[o][k]
  BY <1>3, <1>6
<1> QED
  BY <1>2, <1>5, <1>6, <1>7 DEF o, mine

LEMMA ClientCalm ==
    ASSUME TypeOK, Calm, compat = "same", compat' = compat, cut' = cut,
           NEW k \in Conns, NEW q \in Peer, NEW rest \in Seq(Packet), NEW sent \in Seq(Packet),
           Becomes("client", k, q, rest, sent),
           ClientSpoke(peer["server"][k], net["server"][k], k \in cut, q, rest, sent)
    PROVE  Calm'
<1>1. "client" \in End /\ "server" \in End /\ Other("client") = "server"
  BY DEF End, Other
<1>2. /\ peer'["client"][k] = q /\ peer'["server"][k] = peer["server"][k]
      /\ net'["client"][k] = IF q.sock = "Unconnected" THEN <<>> ELSE rest
      /\ net'["server"][k] =
           IF k \in cut \/ peer["server"][k].sock = "Unconnected" THEN net["server"][k]
           ELSE net["server"][k] \o sent \o (IF q.sock = "Unconnected" THEN <<"fin">> ELSE <<>>)
      /\ \A d \in End, l \in Conns \ {k} : net'[d][l] = net[d][l] /\ peer'[d][l] = peer[d][l]
  BY <1>1, BecomesValues
<1> SUFFICES ASSUME NEW l \in Conns PROVE Calmly(l)'
  BY DEF Calm
<1>3. CASE l = k
  <2>1. Talk(peer'["client"][k], peer'["server"][k], net'["client"][k], net'["server"][k], k \in cut')
    <3>1. Talk(q, peer["server"][k], net'["client"][k], net'["server"][k], k \in cut)
      BY <1>2 DEF ClientSpoke
    <3> QED
      BY <1>2, <3>1
  <2> QED
    BY <1>3, <2>1 DEF Calmly
<1>4. CASE l # k
  <2>1. Calmly(l)
    BY DEF Calm
  <2> QED
    BY <1>1, <1>2, <1>4, <2>1 DEF Calmly
<1> QED
  BY <1>3, <1>4

LEMMA ServerCalm ==
    ASSUME TypeOK, Calm, compat = "same", compat' = compat, cut' = cut,
           NEW k \in Conns, NEW q \in Peer, NEW rest \in Seq(Packet), NEW sent \in Seq(Packet),
           Becomes("server", k, q, rest, sent),
           ServerSpoke(peer["client"][k], net["client"][k], k \in cut, q, rest, sent)
    PROVE  Calm'
<1>1. "client" \in End /\ "server" \in End /\ Other("server") = "client"
  BY DEF End, Other
<1>2. /\ peer'["server"][k] = q /\ peer'["client"][k] = peer["client"][k]
      /\ net'["server"][k] = IF q.sock = "Unconnected" THEN <<>> ELSE rest
      /\ net'["client"][k] =
           IF k \in cut \/ peer["client"][k].sock = "Unconnected" THEN net["client"][k]
           ELSE net["client"][k] \o sent \o (IF q.sock = "Unconnected" THEN <<"fin">> ELSE <<>>)
      /\ \A d \in End, l \in Conns \ {k} : net'[d][l] = net[d][l] /\ peer'[d][l] = peer[d][l]
  BY <1>1, BecomesValues
<1> SUFFICES ASSUME NEW l \in Conns PROVE Calmly(l)'
  BY DEF Calm
<1>3. CASE l = k
  <2>1. Talk(peer'["client"][k], peer'["server"][k], net'["client"][k], net'["server"][k], k \in cut')
    <3>1. Talk(peer["client"][k], q, net'["client"][k], net'["server"][k], k \in cut)
      BY <1>2 DEF ServerSpoke
    <3> QED
      BY <1>2, <3>1
  <2> QED
    BY <1>3, <2>1 DEF Calmly
<1>4. CASE l # k
  <2>1. Calmly(l)
    BY DEF Calm
  <2> QED
    BY <1>1, <1>2, <1>4, <2>1 DEF Calmly
<1> QED
  BY <1>3, <1>4

\* A peer after an event that changes neither what it has confirmed nor what it
\* has answered; it says w, or nothing new, or what it has to send is lost.
Plain(p, q, rest, net0, sent, w) ==
    /\ q \in Peer /\ Dry(q) /\ rest \in Seq(Packet) /\ sent \in Seq(Packet)
    /\ q.authenticated = p.authenticated /\ q.authResponseSent = p.authResponseSent
    /\ q.sock \notin {"Backlog", "Connecting"} /\ (q.sock = "Connected" => p.sock = "Connected")
    /\ q.sock = "Closing" => p.sock \in {"Connected", "Closing"}
    /\ Els(rest) \subseteq Els(net0) /\ (q.sock = "Connected" => rest = net0)
    /\ \/ sent \o q.out = p.out
       \/ sent \o q.out = <<>> /\ q.sock # "Connected"
       \/ /\ sent \o q.out = p.out \o <<w>> /\ w \in {"alive", "state"}
          /\ p.sock = "Connected" /\ p.authenticated = TRUE

LEMMA OutKnown ==
    ASSUME NEW p \in Peer
    PROVE  p.out \in Seq(Packet)
<1>1. p.out \in Seq(Message) /\ Message \subseteq Packet
  BY PeerFields DEF Packet
<1> QED
  BY <1>1, SeqMonotonic

\* What is sent and what is left to send.
LEMMA PlainEls ==
    ASSUME NEW p \in Peer, NEW q, NEW rest, NEW net0, NEW sent, NEW w, Plain(p, q, rest, net0, sent, w)
    PROVE  /\ q.out \in Seq(Packet)
           /\ Els(sent) \union Els(q.out) = Els(sent \o q.out)
           /\ \/ Els(sent) \union Els(q.out) \subseteq Els(p.out)
              \/ /\ Els(sent) \union Els(q.out) = Els(p.out) \union {w} /\ w \in {"alive", "state"}
                 /\ p.sock = "Connected" /\ p.authenticated = TRUE
<1>1. q.out \in Seq(Packet) /\ p.out \in Seq(Packet) /\ sent \in Seq(Packet) /\ Els(<<>>) = {}
  BY OutKnown, ElsFacts DEF Plain
<1>2. Els(sent) \union Els(q.out) = Els(sent \o q.out)
  BY <1>1, ElsFacts
<1>3. w \in {"alive", "state"} => Els(p.out \o <<w>>) = Els(p.out) \union {w}
  <2> SUFFICES ASSUME w \in {"alive", "state"} PROVE Els(p.out \o <<w>>) = Els(p.out) \union {w}
    OBVIOUS
  <2>1. w \in Packet
    BY DEF Packet, Message
  <2> QED
    BY <1>1, <2>1, ElsAdd
<1> QED
  BY <1>1, <1>2, <1>3 DEF Plain

LEMMA ClientPlainTalk ==
    ASSUME NEW c \in Peer, NEW s \in Peer, NEW nc \in Seq(Packet), NEW ns \in Seq(Packet),
           NEW dead \in BOOLEAN, Talk(c, s, nc, ns, dead),
           NEW q, NEW rest, NEW sent, NEW w, Plain(c, q, rest, nc, sent, w), w # "state",
           c.authenticated = TRUE
             => s.sock # "Backlog" /\ (s.sock = "Connected" => s.authenticated = TRUE)
    PROVE  ClientSpoke(s, ns, dead, q, rest, sent)
<1> DEFINE W == IF c.authenticated = TRUE THEN {"alive"} ELSE {}
<1>1. /\ q \in Peer /\ rest \in Seq(Packet) /\ sent \in Seq(Packet) /\ q.sock # "Connecting"
      /\ Els(rest) \subseteq Els(nc) /\ (q.sock = "Connected" => c.sock = "Connected")
      /\ q.authenticated = c.authenticated /\ q.authResponseSent = c.authResponseSent
      /\ q.sock = "Connected" => rest = nc
  BY DEF Plain
<1>2. \/ Els(sent) \union Els(q.out) \subseteq Els(c.out)
      \/ /\ Els(sent) \union Els(q.out) = Els(c.out) \union {w} /\ w \in {"alive", "state"}
         /\ c.sock = "Connected" /\ c.authenticated = TRUE
  BY PlainEls, Zenon
<1>3. Els(sent) \union Els(q.out) \subseteq Els(c.out) \union W
  BY <1>2
<1>4. ~dead /\ q.sock = "Connected"
        => (Hearing(c, s, nc \o s.out, Els(ns) \union Els(c.out))
              => Hearing(q, s, rest \o s.out, Els(ns) \union Els(sent) \union Els(q.out)))
  BY <1>1, <1>3 DEF Hearing, Asks, Answered, FirstFor, MoreFor
<1>5. /\ W \subseteq {"alive", "response"}
      /\ "alive" \in W => /\ s.sock # "Backlog"
                          /\ s.sock = "Connected" => s.authenticated = TRUE
  OBVIOUS
<1> HIDE DEF W
<1>6. ClientMay(c, s, nc, ns, dead, q, rest, sent, W)
  BY <1>1, <1>3, <1>4, <1>5 DEF ClientMay
<1> QED
  BY <1>6, ClientTalk

LEMMA ServerPlainTalk ==
    ASSUME NEW c \in Peer, NEW s \in Peer, NEW nc \in Seq(Packet), NEW ns \in Seq(Packet),
           NEW dead \in BOOLEAN, Talk(c, s, nc, ns, dead),
           NEW q, NEW rest, NEW sent, NEW w, Plain(s, q, rest, ns, sent, w)
    PROVE  ServerSpoke(c, nc, dead, q, rest, sent)
<1>1. /\ q \in Peer /\ rest \in Seq(Packet) /\ sent \in Seq(Packet) /\ q.sock # "Backlog" /\ Dry(q)
      /\ Els(rest) \subseteq Els(ns) /\ q.authenticated = s.authenticated
      /\ q.sock \in {"Connected", "Closing"} => s.sock \in {"Connected", "Closing"}
      /\ q.sock = "Connected" => s.sock = "Connected"
  BY DEF Plain
<1>2. "error" \notin Els(sent) \union Els(q.out)
  <2>1. \/ Els(sent) \union Els(q.out) \subseteq Els(s.out)
        \/ /\ Els(sent) \union Els(q.out) = Els(s.out) \union {w} /\ w \in {"alive", "state"}
           /\ s.sock = "Connected" /\ s.authenticated = TRUE
    BY PlainEls, Zenon
  <2> QED
    BY <2>1 DEF Talk
<1>3. s.out \in Seq(Packet) /\ q.out \in Seq(Packet)
  BY <1>1, OutKnown
<1>4. nc \o s.out \in Seq(Packet) /\ nc \o <<>> = nc
  BY <1>3, ConcatProperties, ConcatEmptySeq
<1>5. ASSUME Hearing(c, s, nc \o s.out, Els(ns) \union Els(c.out))
      PROVE  Hearing(c, q, nc \o (sent \o q.out), Els(ns) \union Els(c.out))
  <2> DEFINE F == FirstFor(c)
             M == MoreFor(c)
  <2>1. /\ Opens(nc \o s.out, F, M) /\ Asks(c, s, Els(ns) \union Els(c.out))
        /\ Answered(c, s, nc \o s.out)
    BY <1>5 DEF Hearing
  <2>2. Asks(c, q, Els(ns) \union Els(c.out))
    BY <1>1, <2>1 DEF Asks
  <2>3. CASE sent \o q.out = s.out
    BY <1>1, <2>1, <2>2, <2>3 DEF Hearing, Answered
  <2>4. CASE sent \o q.out = <<>> /\ q.sock # "Connected"
    <3>1. Opens(nc, F, M)
      BY <1>3, <2>1, OpensConcat
    <3> QED
      BY <1>4, <2>2, <2>4, <3>1 DEF Hearing, Answered
  <2>5. CASE /\ sent \o q.out = s.out \o <<w>> /\ w \in {"alive", "state"}
             /\ s.sock = "Connected" /\ s.authenticated = TRUE
    <3> DEFINE t == nc \o s.out
    <3>1. <<w>> \in Seq(Packet) /\ Els(<<w>>) = {w}
      BY <2>5, ElsOne DEF Packet, Message
    <3>2. nc \o (s.out \o <<w>>) = t \o <<w>> /\ t \in Seq(Packet)
      <4>1. \A x, y \in Seq(Packet) : nc \o (x \o y) = (nc \o x) \o y
        BY ElsThree
      <4> QED
        BY <1>3, <1>4, <3>1, <4>1
    <3>6. t \o <<w>> # <<>>
      BY <1>4, <3>1, ConcatProperties, EmptySeq
    <3>3. w \in M /\ (t = <<>> => w \in F)
      BY <2>1, <2>5 DEF Asks, Answered, FirstFor, MoreFor, Later
    <3>4. Opens(t, F, M)
      BY <2>1
    <3> HIDE DEF t, F, M
    <3>5. Opens(t \o <<w>>, F, M)
      BY <3>1, <3>2, <3>3, <3>4, OpensConcat
    <3> QED
      BY <2>2, <2>5, <3>2, <3>5, <3>6 DEF Hearing, Answered, F, M
  <2> QED
    BY <2>3, <2>4, <2>5 DEF Plain
<1>6. ServerMay(c, s, nc, ns, dead, q, rest, sent)
  BY <1>1, <1>2, <1>5 DEF ServerMay
<1> QED
  BY <1>6, ServerTalk

LEMMA Talking ==
    ASSUME Inv, Calm, compat = "same", NEW k \in Conns
    PROVE  /\ peer["client"][k] \in Peer /\ peer["server"][k] \in Peer
           /\ net["client"][k] \in Seq(Packet) /\ net["server"][k] \in Seq(Packet)
           /\ Dry(peer["client"][k]) /\ Dry(peer["server"][k])
           /\ TypeOK /\ (k \in cut) \in BOOLEAN
           /\ Talk(peer["client"][k], peer["server"][k], net["client"][k], net["server"][k], k \in cut)
  BY PeersKnown DEF End, Calm, Calmly, Inv

\* An event that changes neither what a peer has confirmed nor what it has answered.
LEMMA PlainCalm ==
    ASSUME Inv, Trusted, Calm, compat = "same", NEW e \in End, NEW k \in Conns,
           NEW q, NEW rest, NEW sent, NEW w, Plain(peer[e][k], q, rest, net[e][k], sent, w),
           e = "client" => w # "state",
           Becomes(e, k, q, rest, sent), compat' = compat, cut' = cut
    PROVE  Calm'
<1>1. q \in Peer /\ rest \in Seq(Packet) /\ sent \in Seq(Packet)
  BY DEF Plain
<1>2. CASE e = "client"
  <2>1. peer["client"][k].authenticated = TRUE
          => /\ peer["server"][k].sock # "Backlog"
             /\ peer["server"][k].sock = "Connected" => peer["server"][k].authenticated = TRUE
    BY DEF Trusted, Trust, Vouched
  <2>2. Plain(peer["client"][k], q, rest, net["client"][k], sent, w) /\ w # "state"
        /\ Becomes("client", k, q, rest, sent)
    BY <1>2
  <2>3. ClientSpoke(peer["server"][k], net["server"][k], k \in cut, q, rest, sent)
    BY <2>1, <2>2, Talking, ClientPlainTalk
  <2> QED
    BY <1>1, <2>2, <2>3, Talking, ClientCalm
<1>3. CASE e = "server"
  <2>1. Plain(peer["server"][k], q, rest, net["server"][k], sent, w)
        /\ Becomes("server", k, q, rest, sent)
    BY <1>3
  <2>2. ServerSpoke(peer["client"][k], net["client"][k], k \in cut, q, rest, sent)
    BY <2>1, Talking, ServerPlainTalk
  <2> QED
    BY <1>1, <2>1, <2>2, Talking, ServerCalm
<1> QED
  BY <1>2, <1>3 DEF End

\* q is p but for what it reports, or is giving up the connection.
Same(p, q) == /\ q \in Peer /\ Dry(q)
              /\ q.authenticated = p.authenticated /\ q.authResponseSent = p.authResponseSent
Noted(p, q) == Same(p, q) /\ q.sock = p.sock /\ q.out = p.out
Leaves(p, q) == /\ Same(p, q) /\ q.sock \in {"Unconnected", "Closing"}
                /\ q.sock = "Closing" => p.sock \in {"Connected", "Closing"}
                /\ q.out = p.out \/ q.out = <<>>

LEMMA NotedFlags ==
    ASSUME NEW p \in Peer, Dry(p)
    PROVE  /\ Noted(p, [p EXCEPT !.failed = TRUE]) /\ Noted(p, [p EXCEPT !.expectDisconnect = TRUE])
           /\ Noted(p, [p EXCEPT !.failed = TRUE, !.expectDisconnect = TRUE])
           /\ Noted(p, [p EXCEPT !.told = TRUE])
  BY DEF Peer, Dry, Same, Noted

LEMMA LeavesReset ==
    ASSUME NEW p \in Peer
    PROVE  Leaves(p, Reset(p))
  BY EmptySeq DEF Reset, Peer, Socket, Dry, Same, Leaves

LEMMA LeavesHost ==
    ASSUME NEW p \in Peer, p.sock \in {"Connected", "Closing"}
    PROVE  Leaves(p, disconnectFromHost(p))
<1>1. CASE p.out = <<>>
  BY <1>1, LeavesReset DEF disconnectFromHost
<1>2. CASE p.out # <<>>
  <2>1. disconnectFromHost(p) = [p EXCEPT !.sock = "Closing"]
    BY <1>2 DEF disconnectFromHost
  <2> QED
    BY <2>1 DEF Peer, Socket, Dry, Same, Leaves
<1> QED
  BY <1>1, <1>2

LEMMA LeavesNoted ==
    ASSUME NEW p, NEW f, NEW q, Noted(p, f), Leaves(f, q)
    PROVE  Leaves(p, q)
  BY DEF Noted, Leaves, Same

LEMMA Written ==
    ASSUME NEW p \in Peer, Dry(p), p.sock = "Connected", NEW m \in Message
    PROVE  /\ Same(p, writeData(p, m)) /\ writeData(p, m).sock = "Connected"
           /\ writeData(p, m).out = p.out \o <<m>>
<1>1. p.out \in Seq(Message)
  BY PeerFields
<1>2. Append(p.out, m) \in Seq(Message) /\ Append(p.out, m) = p.out \o <<m>>
  BY <1>1, AppendProperties, AppendIsConcat
<1>3. writeData(p, m) = [p EXCEPT !.out = Append(p.out, m)]
  BY DEF writeData
<1> QED
  BY <1>2, <1>3 DEF Peer, Dry, Same

LEMMA NothingSent == ASSUME NEW q \in Peer PROVE <<>> \o q.out = q.out
<1>1. q.out \in Seq(Message)
  BY PeerFields
<1> QED
  BY <1>1, ConcatEmptySeq

--------------------------------------------------------------------------------
(* The events of a connection keep the two programs in step.                  *)

LEMMA AliveCalm ==
    ASSUME Inv, Trusted, Calm, compat = "same", compat' = compat, cut' = cut,
           NEW e \in End, NEW k \in Conns, NEW q, NEW rest, NEW sent,
           Plain(peer[e][k], q, rest, net[e][k], sent, "alive"), Becomes(e, k, q, rest, sent)
    PROVE  Calm'
<1>1. ASSUME NEW w, w # "state", Plain(peer[e][k], q, rest, net[e][k], sent, w)
      PROVE  Calm'
  BY <1>1, PlainCalm
<1> QED
  BY <1>1

LEMMA LeaveCalm ==
    ASSUME Inv, Trusted, Calm, compat = "same", compat' = compat, cut' = cut,
           NEW e \in End, NEW k \in Conns, NEW q, Leaves(peer[e][k], q),
           NEW rest \in Seq(Packet), Els(rest) \subseteq Els(net[e][k]), Becomes(e, k, q, rest, <<>>)
    PROVE  Calm'
<1>1. <<>> \in Seq(Packet) /\ q \in Peer
  BY EmptySeq DEF Leaves, Same
<1>2. <<>> \o q.out = q.out
  BY <1>1, NothingSent
<1>3. Plain(peer[e][k], q, rest, net[e][k], <<>>, "alive")
  BY <1>1, <1>2 DEF Leaves, Same, Plain
<1> QED
  BY <1>3, AliveCalm

LEMMA SayCalm ==
    ASSUME Inv, Trusted, Calm, compat = "same", compat' = compat, cut' = cut,
           NEW e \in End, NEW k \in Conns, NEW m \in {"alive", "state"}, e = "client" => m # "state",
           peer[e][k].sock = "Connected", peer[e][k].authenticated = TRUE,
           Becomes(e, k, writeData(peer[e][k], m), net[e][k], <<>>)
    PROVE  Calm'
<1> DEFINE q == writeData(peer[e][k], m)
<1>1. m \in Message /\ <<>> \in Seq(Packet)
  BY EmptySeq DEF Message
<1>2. peer[e][k] \in Peer /\ Dry(peer[e][k]) /\ net[e][k] \in Seq(Packet)
  BY PeersKnown
<1>3. Same(peer[e][k], q) /\ q.sock = "Connected" /\ q.out = peer[e][k].out \o <<m>>
  BY <1>1, <1>2, Written
<1>4. Becomes(e, k, q, net[e][k], <<>>)
  OBVIOUS
<1> HIDE DEF q
<1>5. <<>> \o q.out = q.out
  BY <1>3, NothingSent DEF Same
<1>6. Plain(peer[e][k], q, net[e][k], net[e][k], <<>>, m)
  BY <1>1, <1>2, <1>3, <1>5 DEF Same, Plain
<1> QED
  BY <1>4, <1>6, PlainCalm

LEMMA NothingLeft == ASSUME NEW s PROVE Els(<<>>) \subseteq Els(s)
  BY DEF Els

LEMMA FlushCalm ==
    ASSUME Inv, Trusted, Calm, compat = "same", NEW e \in End, NEW k \in Conns, Flush(e, k)
    PROVE  Calm'
<1> DEFINE p == peer[e][k]
           q == [p EXCEPT !.out = Tail(p.out)]
           r == IF p.sock = "Closing" /\ q.out = <<>> THEN Reset(q) ELSE q
           sent == <<Head(p.out)>>
<1>1. p.out # <<>> /\ Becomes(e, k, r, net[e][k], sent) /\ compat' = compat /\ cut' = cut
  BY DEF Flush, PeerEvent
<1>2. p \in Peer /\ Dry(p) /\ net[e][k] \in Seq(Packet)
  BY PeersKnown
<1> HIDE DEF p
<1>3. p.out \in Seq(Message)
  BY <1>2, PeerFields
<1>4. Tail(p.out) \in Seq(Message) /\ Head(p.out) \in Message /\ sent \o Tail(p.out) = p.out
  BY <1>1, <1>3, HeadTailProperties, HeadOnward
<1>5. sent \in Seq(Packet)
  BY <1>4 DEF Packet
<1> HIDE DEF sent
<1>6. p.sock \in {"Connected", "Closing"}
  BY <1>1, <1>2 DEF Dry
<1>7. q \in Peer /\ Dry(q) /\ q.sock = p.sock /\ q.out = Tail(p.out)
      /\ q.authenticated = p.authenticated /\ q.authResponseSent = p.authResponseSent
  BY <1>2, <1>4, <1>6 DEF Dry, Peer
<1> HIDE DEF q
<1>8. /\ r \in Peer /\ Dry(r) /\ r.out = Tail(p.out) /\ r.authenticated = p.authenticated
      /\ r.authResponseSent = p.authResponseSent /\ r.sock \in {p.sock, "Unconnected"}
      /\ r.sock # p.sock => p.sock = "Closing"
  <2>1. Leaves(q, Reset(q)) /\ Reset(q).out = <<>> /\ Reset(q).sock = "Unconnected"
    BY <1>7, LeavesReset DEF Reset, Peer
  <2> QED
    BY <1>7, <2>1 DEF Leaves, Same
<1> HIDE DEF r
<1>9. Plain(p, r, net[e][k], net[e][k], sent, "alive")
  BY <1>2, <1>4, <1>5, <1>6, <1>8 DEF Plain
<1> QED
  BY <1>1, <1>9, AliveCalm DEF p

LEMMA NetErrorCalm ==
    ASSUME Inv, Trusted, Calm, compat = "same", NEW e \in End, NEW k \in Conns, NetError(e, k)
    PROVE  Calm'
<1> DEFINE p == peer[e][k]
           f == [p EXCEPT !.failed = TRUE]
<1>1. Becomes(e, k, Reset(f), <<>>, <<>>) /\ compat' = compat /\ cut' = cut
  BY DEF NetError, PeerEvent
<1>2. p \in Peer /\ Dry(p) /\ <<>> \in Seq(Packet)
  BY PeersKnown
<1> HIDE DEF p
<1>3. Noted(p, f)
  BY <1>2, NotedFlags
<1> HIDE DEF f
<1>4. Leaves(p, Reset(f))
  BY <1>3, LeavesReset, LeavesNoted DEF Noted, Same
<1> QED
  BY <1>1, <1>2, <1>4, NothingLeft, LeaveCalm DEF p

LEMMA SocketFailsCalm ==
    ASSUME Inv, Trusted, Calm, compat = "same", NEW k \in Conns, SocketFails(k)
    PROVE  Calm'
<1> DEFINE p == peer["client"][k]
           f == [p EXCEPT !.failed = TRUE]
<1>1. Becomes("client", k, Reset(f), <<>>, <<>>) /\ compat' = compat /\ cut' = cut
  BY DEF SocketFails, PeerEvent
<1>2. "client" \in End /\ p \in Peer /\ Dry(p) /\ <<>> \in Seq(Packet)
  BY PeersKnown DEF End
<1> HIDE DEF p
<1>3. Noted(p, f)
  BY <1>2, NotedFlags
<1> HIDE DEF f
<1>4. Leaves(p, Reset(f))
  BY <1>3, LeavesReset, LeavesNoted DEF Noted, Same
<1> QED
  BY <1>1, <1>2, <1>4, NothingLeft, LeaveCalm DEF p

LEMMA RemoteHostClosedCalm ==
    ASSUME Inv, Trusted, Calm, compat = "same", NEW e \in End, NEW k \in Conns, RemoteHostClosed(e, k)
    PROVE  Calm'
<1> DEFINE p == peer[e][k]
           f == [p EXCEPT !.failed = TRUE, !.expectDisconnect = TRUE]
<1>1. /\ p.sock = "Connected" /\ Becomes(e, k, disconnectFromHost(f), <<>>, <<>>)
      /\ compat' = compat /\ cut' = cut
  BY DEF RemoteHostClosed, PeerEvent
<1>2. p \in Peer /\ Dry(p) /\ <<>> \in Seq(Packet)
  BY PeersKnown
<1> HIDE DEF p
<1>3. Noted(p, f)
  BY <1>2, NotedFlags
<1> HIDE DEF f
<1>4. Leaves(p, disconnectFromHost(f))
  BY <1>1, <1>3, LeavesHost, LeavesNoted DEF Noted, Same
<1> QED
  BY <1>1, <1>2, <1>4, NothingLeft, LeaveCalm DEF p

LEMMA TimeoutCalm ==
    ASSUME Inv, Trusted, Calm, compat = "same", NEW e \in End, NEW k \in Conns, Timeout(e, k)
    PROVE  Calm'
<1> DEFINE p == peer[e][k]
           f == [p EXCEPT !.failed = TRUE]
           w == writeData(f, "alive")
<1>1. /\ compat' = compat /\ cut' = cut
      /\ \/ /\ f.sock = "Connected" /\ f.authenticated = TRUE
            /\ Becomes(e, k, disconnectFromHost(w), net[e][k], <<>>)
         \/ f.sock = "Connected" /\ Becomes(e, k, disconnectFromHost(f), net[e][k], <<>>)
         \/ Becomes(e, k, Reset(f), <<>>, <<>>)
  <2>1. f.authenticated \in BOOLEAN
    BY PeersKnown DEF Peer
  <2> HIDE DEF f
  <2> QED
    BY <2>1 DEF Timeout, PeerEvent, f
<1>2. p \in Peer /\ Dry(p) /\ net[e][k] \in Seq(Packet) /\ <<>> \in Seq(Packet)
  BY PeersKnown
<1> HIDE DEF p
<1>3. Noted(p, f)
  BY <1>2, NotedFlags
<1> HIDE DEF f
<1>4. f \in Peer /\ Dry(f) /\ f.sock = p.sock /\ f.out = p.out /\ Same(p, f)
  BY <1>3 DEF Noted, Same
<1>5. CASE /\ f.sock = "Connected" /\ f.authenticated = TRUE
           /\ Becomes(e, k, disconnectFromHost(w), net[e][k], <<>>)
  <2> DEFINE q == disconnectFromHost(w)
  <2>1. Same(f, w) /\ w.sock = "Connected" /\ w.out = p.out \o <<"alive">>
    BY <1>4, <1>5, Written DEF Message
  <2> HIDE DEF w
  <2>2. Leaves(w, q)
    BY <2>1, LeavesHost DEF Same
  <2>3. Becomes(e, k, q, net[e][k], <<>>)
    BY <1>5
  <2> HIDE DEF q
  <2>4. <<>> \o q.out = q.out
    BY <2>2, NothingSent DEF Leaves, Same
  <2>5. Plain(p, q, net[e][k], net[e][k], <<>>, "alive")
    BY <1>2, <1>4, <1>5, <2>1, <2>2, <2>4 DEF Plain, Leaves, Same
  <2> QED
    BY <1>1, <2>3, <2>5, AliveCalm DEF p
<1>6. CASE f.sock = "Connected" /\ Becomes(e, k, disconnectFromHost(f), net[e][k], <<>>)
  <2>1. Leaves(p, disconnectFromHost(f))
    BY <1>3, <1>4, <1>6, LeavesHost, LeavesNoted
  <2> QED
    BY <1>1, <1>2, <1>6, <2>1, LeaveCalm DEF p
<1>7. CASE Becomes(e, k, Reset(f), <<>>, <<>>)
  <2>1. Leaves(p, Reset(f))
    BY <1>3, <1>4, LeavesReset, LeavesNoted
  <2> QED
    BY <1>1, <1>2, <1>7, <2>1, NothingLeft, LeaveCalm DEF p
<1> QED
  BY <1>1, <1>5, <1>6, <1>7

LEMMA DisconnectCalm ==
    ASSUME Inv, Trusted, Calm, compat = "same", DisconnectClient, compat' = compat, cut' = cut
    PROVE  Calm'
<1> DEFINE k == client
           c == peer["client"][k]
           p == [c EXCEPT !.expectDisconnect = TRUE]
           q == IF p.sock = "Connected" THEN disconnectFromHost(p) ELSE Reset(p)
           rest == net["client"][k]
<1>1. state = "CLIENT" /\ Becomes("client", k, q, rest, <<>>)
  BY DEF DisconnectClient, ClosesFirst
<1>2. k \in Conns /\ "client" \in End
  BY <1>1, Settings DEF Inv, TypeOK, ClientPointer, End
<1>3. c \in Peer /\ Dry(c) /\ rest \in Seq(Packet)
  BY <1>2, PeersKnown
<1> HIDE DEF c
<1>4. Noted(c, p)
  BY <1>3, NotedFlags
<1> HIDE DEF p
<1>5. Leaves(p, q)
  BY <1>4, LeavesReset, LeavesHost DEF Noted, Same
<1> HIDE DEF q
<1>6. Leaves(c, q)
  BY <1>4, <1>5, LeavesNoted
<1>7. Leaves(peer["client"][k], q) /\ Becomes("client", k, q, rest, <<>>)
      /\ Els(rest) \subseteq Els(net["client"][k])
  BY <1>1, <1>6 DEF c
<1> HIDE DEF k, rest
<1> QED
  BY <1>2, <1>3, <1>7, LeaveCalm

--------------------------------------------------------------------------------
(* What is read is expected, and what is answered fits in.                    *)

LEMMA OpensOne == ASSUME NEW x, NEW F, NEW M, x \in F PROVE Opens(<<x>>, F, M)
  BY DEF Opens

\* Adding a message to what is on its way.
LEMMA OpensAdd ==
    ASSUME NEW t \in Seq(Packet), NEW x \in Packet, NEW F, NEW M, Opens(t, F, M),
           x \in M, t = <<>> => x \in F
    PROVE  Opens(t \o <<x>>, F, M) /\ t \o <<x>> \in Seq(Packet) /\ t \o <<x>> # <<>>
<1>1. <<x>> \in Seq(Packet) /\ Els(<<x>>) = {x} /\ Len(<<x>>) = 1
  BY ElsOne
<1>2. ASSUME NEW u \in Seq(Packet), Els(u) \subseteq M, t = <<>> => Els(u) \subseteq F
      PROVE  Opens(t \o u, F, M)
  BY <1>2, OpensConcat
<1>3. Opens(t \o <<x>>, F, M)
  BY <1>1, <1>2
<1>4. t \o <<x>> \in Seq(Packet) /\ Len(t \o <<x>>) = Len(t) + 1 /\ Len(t) \in Nat
  BY <1>1, ConcatProperties, LenProperties
<1>5. t \o <<x>> # <<>>
  BY <1>4, EmptySeq
<1> QED
  BY <1>3, <1>4, <1>5

LEMMA ClientHears ==
    ASSUME compat = "same", NEW p \in Peer, p.sock = "Connected", NEW m \in Message,
           p.authenticated = TRUE => p.authResponseSent = TRUE, m \in FirstFor(p),
           NEW q \in Handled("client", p, m)
    PROVE  /\ q \in Peer /\ q.sock = "Connected"
           /\ \/ /\ p.authResponseSent # TRUE /\ q.authResponseSent = TRUE /\ q.authenticated # TRUE
                 /\ q.out = p.out \o <<"response">>
              \/ /\ p.authResponseSent = TRUE /\ q.authResponseSent = TRUE /\ q.authenticated = TRUE
                 /\ q.out = p.out
<1>1. Dry(p) /\ p.authenticated \in BOOLEAN /\ p.authResponseSent \in BOOLEAN
  BY PeerFields DEF Dry
<1>2. CASE p.authResponseSent # TRUE
  <2> DEFINE a == [p EXCEPT !.authResponseSent = TRUE]
  <2>1. m = "challenge" /\ p.authenticated = FALSE
    BY <1>1, <1>2 DEF FirstFor, Message
  <2>2. q = Challenge(p)
    BY <2>1 DEF Handled, Restricted, ClientHandles
  <2>3. q = writeData(a, "response")
    BY <2>1, <2>2 DEF Challenge
  <2>4. a \in Peer /\ Dry(a) /\ a.sock = "Connected" /\ a.authResponseSent = TRUE
        /\ a.authenticated = FALSE /\ a.out = p.out
    BY <2>1 DEF Peer, Dry
  <2> HIDE DEF a
  <2>5. Same(a, q) /\ q.sock = "Connected" /\ q.out = p.out \o <<"response">>
    BY <2>3, <2>4, Written DEF Message
  <2> QED
    BY <1>2, <2>4, <2>5 DEF Same
<1>3. CASE p.authResponseSent = TRUE /\ p.authenticated # TRUE
  <2> DEFINE a == [p EXCEPT !.authenticated = TRUE]
  <2>1. m = "valid"
    BY <1>3 DEF FirstFor, Message
  <2>2. q = Confirm(p)
    BY <2>1 DEF Handled, Restricted, ClientHandles
  <2>3. q = a
    BY <1>3, <2>2 DEF Confirm
  <2> QED
    BY <1>3, <2>3 DEF Peer
<1>4. CASE p.authResponseSent = TRUE /\ p.authenticated = TRUE
  <2>1. m \in {"valid", "alive", "state"}
    BY <1>4 DEF FirstFor, Message, Later
  <2>2. q = ClientHandles(p, m)
    BY <1>4 DEF Handled
  <2>3. q = p \/ q = [p EXCEPT !.authenticated = TRUE]
    BY <1>4, <2>1, <2>2 DEF ClientHandles, Confirm
  <2> QED
    BY <1>4, <2>3 DEF Peer
<1> QED
  BY <1>1, <1>2, <1>3, <1>4

LEMMA ClientReads ==
    ASSUME NEW c \in Peer, NEW s \in Peer, NEW nc \in Seq(Packet), NEW ns \in Seq(Packet),
           NEW dead \in BOOLEAN, Talk(c, s, nc, ns, dead), compat = "same", c.sock = "Connected",
           nc # <<>>, Head(nc) # "fin", NEW q \in Handled("client", c, Head(nc))
    PROVE  \E W : ClientMay(c, s, nc, ns, dead, q, Tail(nc), <<>>, W)
<1>1. <<>> \in Seq(Packet) /\ Els(<<>>) = {} /\ s.out \in Seq(Packet) /\ c.out \in Seq(Packet)
  BY EmptySeq, ElsFacts, OutKnown
<1>2. ~dead /\ s.sock # "Backlog" /\ Hearing(c, s, nc \o s.out, Els(ns) \union Els(c.out))
  BY DEF Talk
<1>3. /\ Head(nc) \in Message /\ Tail(nc) \in Seq(Packet) /\ Els(Tail(nc)) \subseteq Els(nc)
  <2>1. Head(nc) \in Packet /\ Tail(nc) \in Seq(Packet)
    BY HeadTailProperties
  <2> QED
    BY <2>1, ElsFacts DEF Packet
<1>4. /\ nc \o s.out # <<>> /\ Head(nc \o s.out) = Head(nc) /\ Tail(nc \o s.out) = Tail(nc) \o s.out
      /\ nc \o s.out \in Seq(Packet) /\ Tail(nc) \o s.out \in Seq(Packet)
  BY <1>1, <1>3, TailConcat, ConcatProperties
<1> DEFINE t == Tail(nc) \o s.out
<1>5. Head(nc) \in FirstFor(c) /\ Els(t) \subseteq MoreFor(c)
  <2>1. ASSUME NEW u \in Seq(Packet), u # <<>>, Opens(u, FirstFor(c), MoreFor(c))
        PROVE  Head(u) \in FirstFor(c) /\ Els(Tail(u)) \subseteq MoreFor(c)
    BY <2>1, OpensTail
  <2> QED
    BY <1>2, <1>4, <2>1 DEF Hearing
<1>6. Asks(c, s, Els(ns) \union Els(c.out))
  BY <1>2 DEF Hearing
<1>7. /\ q \in Peer /\ q.sock = "Connected"
      /\ \/ /\ c.authResponseSent # TRUE /\ q.authResponseSent = TRUE /\ q.authenticated # TRUE
            /\ q.out = c.out \o <<"response">>
         \/ /\ c.authResponseSent = TRUE /\ q.authResponseSent = TRUE /\ q.authenticated = TRUE
            /\ q.out = c.out
  BY <1>3, <1>5, <1>6, ClientHears DEF Asks
<1>8. t \in Seq(Packet)
  BY <1>4
<1> HIDE DEF t
<1>9. Opens(t, FirstFor(q), MoreFor(q))
  <2>1. Els(t) \subseteq FirstFor(q) /\ Els(t) \subseteq MoreFor(q)
    BY <1>5, <1>7 DEF FirstFor, MoreFor, Later
  <2> QED
    BY <1>8, <2>1, OpensAny
<1>10. \A u : Asks(q, s, u) /\ Answered(q, s, t)
  BY <1>2, <1>6, <1>7 DEF Asks, Answered
<1>11. \A u : Hearing(q, s, Tail(nc) \o s.out, u)
  BY <1>9, <1>10 DEF Hearing, t
<1>12. Els(q.out) \subseteq Els(c.out) \union {"response"}
  <2>1. Els(c.out \o <<"response">>) = Els(c.out) \union {"response"}
    BY <1>1, ElsAdd DEF Packet, Message
  <2> QED
    BY <1>7, <2>1
<1>13. ClientMay(c, s, nc, ns, dead, q, Tail(nc), <<>>, {"response"})
  BY <1>1, <1>3, <1>7, <1>11, <1>12 DEF ClientMay
<1> QED
  BY <1>13

LEMMA ServerHears ==
    ASSUME compat = "same", NEW p \in Peer, p.sock = "Connected", NEW m \in {"response", "alive"},
           m = "alive" => p.authenticated = TRUE, NEW q \in Handled("server", p, m)
    PROVE  /\ q \in Peer /\ Dry(q) /\ q.sock = "Connected" /\ q.authenticated = TRUE
           /\ \/ m = "alive" /\ q.out = p.out
              \/ m = "response" /\ q.out = (p.out \o <<"valid">>) \o <<"state">>
<1>1. CASE m = "alive"
  <2>1. q = p
    BY <1>1 DEF Handled, Restricted, ServerHandles
  <2> QED
    BY <1>1, <2>1 DEF Dry
<1>2. CASE m = "response"
  <2> DEFINE a == [p EXCEPT !.authenticated = TRUE]
             v == writeData(a, "valid")
  <2>1. q \in Responses(p)
    BY <1>2 DEF Handled, Restricted, ServerHandles
  <2>2. q = writeData(v, "state")
    BY <2>1 DEF Responses, VersionMatches, ConfirmFirst
  <2>3. a \in Peer /\ Dry(a) /\ a.sock = "Connected" /\ a.authenticated = TRUE /\ a.out = p.out
    BY DEF Peer, Dry
  <2> HIDE DEF a
  <2>4. Same(a, v) /\ v.sock = "Connected" /\ v.out = p.out \o <<"valid">>
    BY <2>3, Written DEF Message
  <2> HIDE DEF v
  <2>5. Same(v, q) /\ q.sock = "Connected" /\ q.out = v.out \o <<"state">>
    BY <2>2, <2>4, Written DEF Message, Same
  <2> QED
    BY <1>2, <2>3, <2>4, <2>5 DEF Same
<1> QED
  BY <1>1, <1>2

LEMMA ServerReads ==
    ASSUME NEW c \in Peer, NEW s \in Peer, NEW nc \in Seq(Packet), NEW ns \in Seq(Packet),
           NEW dead \in BOOLEAN, Talk(c, s, nc, ns, dead), compat = "same", s.sock = "Connected",
           ns # <<>>, Head(ns) # "fin", NEW q \in Handled("server", s, Head(ns))
    PROVE  ServerMay(c, s, nc, ns, dead, q, Tail(ns), <<>>)
<1>1. <<>> \in Seq(Packet) /\ Els(<<>>) = {} /\ s.out \in Seq(Packet) /\ c.out \in Seq(Packet)
  BY EmptySeq, ElsFacts, OutKnown
<1>2. ~dead /\ Served(s, Els(ns) \union Els(c.out))
  BY DEF Talk
<1>3. Head(ns) \in Els(ns) /\ Tail(ns) \in Seq(Packet) /\ Els(Tail(ns)) \subseteq Els(ns)
  BY HeadTailProperties, ElsFacts
<1>4. Head(ns) \in {"response", "alive"} /\ (Head(ns) = "alive" => s.authenticated = TRUE)
  BY <1>2, <1>3 DEF Served
<1>5. /\ q \in Peer /\ Dry(q) /\ q.sock = "Connected" /\ q.authenticated = TRUE
      /\ \/ Head(ns) = "alive" /\ q.out = s.out
         \/ Head(ns) = "response" /\ q.out = (s.out \o <<"valid">>) \o <<"state">>
  BY <1>4, ServerHears
<1>6. /\ {"valid", "state"} \subseteq Packet /\ s.out \o <<"valid">> \in Seq(Packet)
      /\ Els(s.out \o <<"valid">>) = Els(s.out) \union {"valid"}
  BY <1>1, ElsAdd DEF Packet, Message
<1>7. Els((s.out \o <<"valid">>) \o <<"state">>) = Els(s.out) \union {"valid", "state"}
  <2>1. \A r \in Seq(Packet) : Els(r \o <<"state">>) = Els(r) \union {"state"}
    BY <1>6, ElsAdd
  <2> QED
    BY <1>6, <2>1
<1>8. "error" \notin Els(q.out)
  <2>1. "error" \notin Els(s.out)
    BY DEF Talk
  <2>2. Els(q.out) = Els(s.out) \/ Els(q.out) = Els(s.out) \union {"valid", "state"}
    BY <1>5, <1>7
  <2> QED
    BY <2>1, <2>2
<1>9. ASSUME Hearing(c, s, nc \o s.out, Els(ns) \union Els(c.out))
      PROVE  Hearing(c, q, nc \o q.out, Els(ns) \union Els(c.out))
  <2> DEFINE t == nc \o s.out
             F == FirstFor(c)
             M == MoreFor(c)
  <2>1. Opens(t, F, M) /\ Asks(c, s, Els(ns) \union Els(c.out)) /\ Answered(c, s, t)
    BY <1>9 DEF Hearing
  <2>2. CASE Head(ns) = "alive"
    <3>1. s.authenticated = TRUE /\ q.out = s.out
      BY <1>4, <1>5, <2>2
    <3> QED
      BY <1>5, <2>1, <3>1 DEF Hearing, Asks, Answered
  <2>3. CASE Head(ns) = "response"
    <3> DEFINE v == t \o <<"valid">>
    <3>1. c.authResponseSent = TRUE
      BY <1>3, <2>1, <2>3 DEF Asks
    <3>2. {"valid", "state"} \subseteq M /\ "valid" \in F
      BY <3>1 DEF FirstFor, MoreFor, Later
    <3>3. t \in Seq(Packet)
      BY <1>1, ConcatProperties
    <3>4. nc \o q.out = v \o <<"state">>
      <4>1. \A x \in Seq(Packet), y \in Packet : nc \o (x \o <<y>>) = (nc \o x) \o <<y>>
        <5>1. \A x \in Seq(Packet), u \in Seq(Packet) : nc \o (x \o u) = (nc \o x) \o u
          BY ElsThree
        <5> QED
          BY <5>1
      <4> DEFINE r == s.out \o <<"valid">>
      <4>2. nc \o r = v
        BY <1>1, <1>6, <4>1
      <4>3. q.out = r \o <<"state">> /\ r \in Seq(Packet)
        BY <1>5, <1>6, <2>3
      <4> HIDE DEF r, v
      <4> QED
        BY <1>6, <4>1, <4>2, <4>3
    <3> HIDE DEF t, F, M
    <3>5. Opens(v, F, M) /\ v \in Seq(Packet) /\ v # <<>>
      BY <1>6, <2>1, <3>2, <3>3, OpensAdd
    <3> HIDE DEF v
    <3>6. Opens(v \o <<"state">>, F, M) /\ v \o <<"state">> # <<>>
      BY <1>6, <3>2, <3>5, OpensAdd
    <3>7. Asks(c, q, Els(ns) \union Els(c.out))
      BY <1>5, <2>1, <3>1 DEF Asks
    <3> QED
      BY <3>4, <3>6, <3>7 DEF Hearing, Answered, F, M
  <2> QED
    BY <1>4, <2>2, <2>3
<1>10. <<>> \o q.out = q.out
  BY <1>5, NothingSent
<1> QED
  BY <1>1, <1>3, <1>5, <1>8, <1>9, <1>10 DEF ServerMay

LEMMA ReceiveMessageCalm ==
    ASSUME Inv, Calm, compat = "same", NEW e \in End, NEW k \in Conns, ReceiveMessage(e, k)
    PROVE  Calm'
<1> DEFINE c == peer["client"][k]
           s == peer["server"][k]
           nc == net["client"][k]
           ns == net["server"][k]
<1>1. compat' = compat /\ cut' = cut /\ <<>> \in Seq(Packet) /\ TypeOK
  BY EmptySeq DEF ReceiveMessage, Inv
<1>2. /\ c \in Peer /\ s \in Peer /\ nc \in Seq(Packet) /\ ns \in Seq(Packet)
      /\ (k \in cut) \in BOOLEAN /\ Talk(c, s, nc, ns, k \in cut)
  BY Talking
<1>3. CASE e = "client"
  <2>1. /\ c.sock = "Connected" /\ nc # <<>> /\ Head(nc) # "fin"
        /\ \E q \in Handled("client", c, Head(nc)) : Becomes("client", k, q, Tail(nc), <<>>)
    BY <1>3 DEF ReceiveMessage
  <2>2. PICK q \in Handled("client", c, Head(nc)) : Becomes("client", k, q, Tail(nc), <<>>)
    BY <2>1
  <2>3. PICK W : ClientMay(c, s, nc, ns, k \in cut, q, Tail(nc), <<>>, W)
    BY <1>2, <2>1, ClientReads
  <2>4. q \in Peer /\ Tail(nc) \in Seq(Packet)
    BY <2>3 DEF ClientMay
  <2>5. ClientSpoke(s, ns, k \in cut, q, Tail(nc), <<>>)
    BY <1>2, <2>3, ClientTalk
  <2> QED
    BY <1>1, <2>2, <2>4, <2>5, ClientCalm
<1>4. CASE e = "server"
  <2>1. /\ s.sock = "Connected" /\ ns # <<>> /\ Head(ns) # "fin"
        /\ \E q \in Handled("server", s, Head(ns)) : Becomes("server", k, q, Tail(ns), <<>>)
    BY <1>4 DEF ReceiveMessage
  <2>2. PICK q \in Handled("server", s, Head(ns)) : Becomes("server", k, q, Tail(ns), <<>>)
    BY <2>1
  <2>3. ServerMay(c, s, nc, ns, k \in cut, q, Tail(ns), <<>>)
    BY <1>2, <2>1, ServerReads
  <2>4. q \in Peer /\ Tail(ns) \in Seq(Packet)
    BY <2>3 DEF ServerMay
  <2>5. ServerSpoke(c, nc, k \in cut, q, Tail(ns), <<>>)
    BY <1>2, <2>3, ServerTalk
  <2> QED
    BY <1>1, <2>2, <2>4, <2>5, ServerCalm
<1> QED
  BY <1>3, <1>4 DEF End

--------------------------------------------------------------------------------
(* Connections that begin, vanish or are dropped with the server.             *)

\* One connection at a time.
LEMMA OneCalm ==
    ASSUME Calm, compat = "same", compat' = compat, NEW k \in Conns, Calmly(k)',
           \A l \in Conns \ {k} :
             /\ peer'["client"][l] = peer["client"][l] /\ peer'["server"][l] = peer["server"][l]
             /\ net'["client"][l] = net["client"][l] /\ net'["server"][l] = net["server"][l]
             /\ l \in cut' <=> l \in cut
    PROVE  Calm'
<1> SUFFICES ASSUME NEW l \in Conns, l # k PROVE Calmly(l)'
  BY DEF Calm
<1>1. Calmly(l)
  BY DEF Calm
<1> QED
  BY <1>1 DEF Calmly, Talk

LEMMA NewConnectionCalm ==
    ASSUME Inv, Calm, compat = "same", NEW k \in Conns, handleNewConnection(k)
    PROVE  Calm'
<1> DEFINE c == peer["client"][k]
           s == peer["server"][k]
           nc == net["client"][k]
           ns == net["server"][k]
           p == NewPeer("Connected")
           q == writeData(p, "challenge")
<1>1. /\ Becomes("server", k, q, ns, <<>>) /\ s.sock = "Backlog"
      /\ compat' = compat /\ cut' = cut /\ <<>> \in Seq(Packet) /\ TypeOK
  BY EmptySeq DEF handleNewConnection, PeerEvent, Inv
<1>2. /\ c \in Peer /\ s \in Peer /\ nc \in Seq(Packet) /\ ns \in Seq(Packet) /\ Dry(s)
      /\ (k \in cut) \in BOOLEAN /\ Talk(c, s, nc, ns, k \in cut)
  BY Talking
<1> HIDE DEF c, s, nc, ns
<1>3. p \in Peer /\ Dry(p) /\ p.sock = "Connected" /\ p.authenticated = FALSE /\ p.out = <<>>
  <2>1. "Connected" \in Socket
    BY DEF Socket
  <2> QED
    BY <2>1, NewPeerSound DEF Sound, NewPeer
<1> HIDE DEF p
<1>4. /\ q \in Peer /\ Dry(q) /\ q.sock = "Connected" /\ q.authenticated = FALSE
      /\ q.out = <<"challenge">>
  <2>1. Same(p, q) /\ q.sock = "Connected" /\ q.out = p.out \o <<"challenge">>
    BY <1>3, Written DEF Message
  <2>2. <<"challenge">> \in Seq(Packet)
    BY DEF Packet, Message
  <2>3. <<>> \o <<"challenge">> = <<"challenge">>
    BY <2>2, ConcatEmptySeq
  <2> QED
    BY <1>3, <2>1, <2>3 DEF Same
<1> HIDE DEF q
<1>5. nc = <<>> /\ s.out = <<>> /\ nc \o s.out = <<>> /\ nc \o q.out = <<"challenge">>
  <2>1. nc = <<>> /\ s.out = <<>> /\ <<"challenge">> \in Seq(Packet)
    BY <1>1, <1>2 DEF Talk, Dry, Packet, Message
  <2> QED
    BY <1>1, <1>4, <2>1, ConcatEmptySeq
<1>6. Els(<<>>) = {} /\ Els(q.out) = {"challenge"}
  BY <1>1, <1>4, ElsFacts, ElsOne
<1>7. ASSUME Hearing(c, s, nc \o s.out, Els(ns) \union Els(c.out))
      PROVE  Hearing(c, q, nc \o q.out, Els(ns) \union Els(c.out))
  <2>1. Asks(c, s, Els(ns) \union Els(c.out)) /\ c.authResponseSent # TRUE
    BY <1>1, <1>7 DEF Hearing, Asks
  <2>2. Asks(c, q, Els(ns) \union Els(c.out)) /\ Answered(c, q, nc \o q.out)
    BY <1>4, <2>1 DEF Asks, Answered
  <2>3. "challenge" \in FirstFor(c)
    BY <2>1 DEF FirstFor
  <2>4. Opens(nc \o q.out, FirstFor(c), MoreFor(c))
    BY <1>5, <2>3, OpensOne
  <2> QED
    BY <2>2, <2>4 DEF Hearing
<1>8. <<>> \o q.out = q.out
  BY <1>4, NothingSent
<1>9. ServerMay(c, s, nc, ns, k \in cut, q, ns, <<>>)
  BY <1>1, <1>2, <1>4, <1>6, <1>7, <1>8 DEF ServerMay
<1>10. ServerSpoke(c, nc, k \in cut, q, ns, <<>>)
  BY <1>2, <1>9, ServerTalk
<1> QED
  BY <1>1, <1>2, <1>4, <1>10, ServerCalm DEF c, nc

LEMMA SocketConnectsCalm ==
    ASSUME Inv, Trusted, Calm, compat = "same", NEW k \in Conns, SocketConnects(k)
    PROVE  Calm'
<1> DEFINE n == NewPeer("Backlog")
           c == [peer["client"] EXCEPT ![k].sock = "Connected"]
           s == [peer["server"] EXCEPT ![k] = n]
           nc == net["client"][k]
           ns == net["server"][k]
           old == peer["client"][k]
<1>1. /\ peer' = [client |-> c, server |-> s] /\ old.sock = "Connecting"
      /\ compat' = compat /\ net' = net /\ cut' = cut
  BY DEF SocketConnects
<1>2. n.sock = "Backlog" /\ n.out = <<>> /\ n.authenticated = FALSE
  BY DEF NewPeer
<1> HIDE DEF n
<1>3. peer["client"] \in [Conns -> Peer] /\ peer["server"] \in [Conns -> Peer]
  BY DEF Inv, TypeOK, End
<1>4. /\ \A l \in Conns : l # k => c[l] = peer["client"][l] /\ s[l] = peer["server"][l]
      /\ s[k] = n
  BY <1>3
<1>5. /\ c[k].sock = "Connected" /\ c[k].authenticated = old.authenticated
      /\ c[k].authResponseSent = old.authResponseSent /\ c[k].out = old.out
  BY <1>3 DEF Peer
<1> HIDE DEF c, s
<1>6. peer'["client"] = c /\ peer'["server"] = s
  BY <1>1
<1>7. nc = <<>> /\ ns = <<>> /\ old.out = <<>> /\ old.authenticated # TRUE /\ old.authResponseSent # TRUE
  <2>1. Dry(old) /\ Talk(old, peer["server"][k], nc, ns, k \in cut)
    BY Talking
  <2>2. peer["server"][k].sock = "Unconnected" /\ nc = <<>>
    BY <1>1 DEF Trusted, Joining
  <2> QED
    BY <1>1, <2>1, <2>2 DEF Talk, Dry
<1>8. <<>> \o <<>> = <<>> /\ Els(<<>>) = {} /\ Len(<<>>) = 0
  BY EmptySeq, ConcatEmptySeq, ElsFacts
<1>9. Hearing(c[k], s[k], <<>> \o <<>>, Els(<<>>) \union Els(<<>>))
  <2>1. s[k].sock = "Backlog" /\ c[k].authResponseSent # TRUE /\ c[k].authenticated # TRUE
    BY <1>2, <1>4, <1>5, <1>7
  <2>2. \A F, M : Opens(<<>>, F, M)
    BY <1>8 DEF Opens
  <2>3. Asks(c[k], s[k], {}) /\ Answered(c[k], s[k], <<>>)
    BY <2>1 DEF Asks, Answered
  <2> QED
    BY <1>8, <2>2, <2>3 DEF Hearing
<1>10. Served(s[k], Els(<<>>) \union Els(<<>>))
  BY <1>8 DEF Served
<1>11. Talk(c[k], s[k], <<>>, <<>>, k \in cut)
  BY <1>2, <1>4, <1>5, <1>7, <1>8, <1>9, <1>10 DEF Talk
<1>12. Calmly(k)'
  BY <1>1, <1>6, <1>7, <1>11 DEF Calmly
<1> QED
  BY <1>1, <1>4, <1>6, <1>12, OneCalm

LEMMA CutCalm ==
    ASSUME Inv, Calm, compat = "same", NEW k \in Conns, Cut(k)
    PROVE  Calm'
<1>1. /\ net' = [e \in End |-> [net[e] EXCEPT ![k] = <<>>]] /\ compat' = compat /\ peer' = peer
      /\ cut' = cut \union {k}
  BY DEF Cut
<1>2. "client" \in End /\ "server" \in End /\ net \in [End -> [Conns -> Seq(Packet)]]
  BY DEF Inv, TypeOK, End
<1>3. \A e \in End, l \in Conns : net'[e][l] = IF l = k THEN <<>> ELSE net[e][l]
  BY <1>1, <1>2
<1>4. Talk(peer["client"][k], peer["server"][k], net["client"][k], net["server"][k], k \in cut)
  BY Talking
<1>5. Els(<<>>) = {}
  BY EmptySeq, ElsFacts
<1>6. Talk(peer["client"][k], peer["server"][k], <<>>, <<>>, k \in cut')
  BY <1>1, <1>4, <1>5 DEF Talk
<1>7. Calmly(k)'
  BY <1>1, <1>2, <1>3, <1>6 DEF Calmly
<1> QED
  BY <1>1, <1>2, <1>3, <1>7, OneCalm

LEMMA ConnectCalm ==
    ASSUME Inv, Calm, compat = "same", NEW k \in Conns, connectToServer(k)
    PROVE  Calm'
<1> DEFINE n(e) == NewPeer(IF e = "client" THEN "Connecting" ELSE "Unconnected")
<1>1. /\ net' = [e \in End |-> [net[e] EXCEPT ![k] = <<>>]] /\ compat' = compat
      /\ peer' = [e \in End |-> [peer[e] EXCEPT ![k] = n(e)]] /\ cut' = cut \ {k}
  BY DEF connectToServer
<1>2. /\ n("client").authenticated = FALSE /\ n("client").authResponseSent = FALSE
      /\ n("client").sock = "Connecting" /\ n("client").out = <<>>
      /\ n("server").sock = "Unconnected" /\ n("server").out = <<>>
  BY DEF NewPeer
<1> HIDE DEF n
<1>3. /\ "client" \in End /\ "server" \in End /\ net \in [End -> [Conns -> Seq(Packet)]]
      /\ peer \in [End -> [Conns -> Peer]]
  BY DEF Inv, TypeOK, End
<1>4. \A e \in End, l \in Conns : /\ net'[e][l] = IF l = k THEN <<>> ELSE net[e][l]
                                  /\ peer'[e][l] = IF l = k THEN n(e) ELSE peer[e][l]
  BY <1>1, <1>3
<1>5. Els(<<>>) = {}
  BY EmptySeq, ElsFacts
<1>6. Talk(n("client"), n("server"), <<>>, <<>>, k \in cut')
  BY <1>2, <1>5 DEF Talk
<1>7. Calmly(k)'
  BY <1>3, <1>4, <1>6 DEF Calmly
<1> QED
  BY <1>1, <1>3, <1>4, <1>7, OneCalm

LEMMA StopServerCalm ==
    ASSUME Inv, Calm, compat = "same", stopServer
    PROVE  Calm'
<1> DEFINE x(l) == [peer["server"][l] EXCEPT !.expectDisconnect = TRUE]
           q(l) == Reset(x(l))
           s == [l \in Conns |-> q(l)]
           heard(l) == /\ l \notin cut /\ peer["server"][l].sock # "Unconnected"
                       /\ peer["client"][l].sock # "Unconnected"
           c == [l \in Conns |->
                  IF \/ l \in cut \/ peer["server"][l].sock = "Unconnected"
                     \/ peer["client"][l].sock = "Unconnected"
                    THEN net["client"][l] ELSE Append(net["client"][l], "fin")]
           none == [l \in Conns |-> <<>>]
<1>1. compat' = compat /\ cut' = cut
  BY DEF stopServer
<1>2. net' = [client |-> c, server |-> none]
  BY DEF stopServer
<1>3. peer' = [peer EXCEPT !["server"] = s]
  BY DEF stopServer
<1>4. \A l \in Conns : Leaves(peer["server"][l], q(l)) /\ q(l).sock = "Unconnected" /\ q(l).out = <<>>
  <2> TAKE l \in Conns
  <2>1. peer["server"][l] \in Peer /\ Dry(peer["server"][l])
    BY PeersKnown DEF End
  <2>2. Noted(peer["server"][l], x(l))
    BY <2>1, NotedFlags
  <2> HIDE DEF x
  <2>3. x(l) \in Peer
    BY <2>2 DEF Noted, Same
  <2>4. Leaves(peer["server"][l], q(l))
    BY <2>2, <2>3, LeavesReset, LeavesNoted
  <2> QED
    BY <2>3, <2>4 DEF Reset, Peer
<1>5. \A l \in Conns : s[l] = q(l)
  <2> HIDE DEF q
  <2> QED
    OBVIOUS
<1> HIDE DEF s, q, x
<1>6. peer'["client"] = peer["client"] /\ peer'["server"] = s
  BY <1>3 DEF Inv, TypeOK, End
<1>7. \A l \in Conns : /\ heard(l) => c[l] = net["client"][l] \o <<"fin">>
                       /\ ~heard(l) => c[l] = net["client"][l]
  <2> TAKE l \in Conns
  <2>1. net["client"][l] \in Seq(Packet) /\ "fin" \in Packet
    BY PeersKnown DEF End, Packet
  <2>2. Append(net["client"][l], "fin") = net["client"][l] \o <<"fin">>
    BY <2>1, AppendIsConcat
  <2> QED
    BY <2>2
<1>8. \A l \in Conns : none[l] = <<>>
  OBVIOUS
<1> HIDE DEF c, none
<1>9. net'["client"] = c /\ net'["server"] = none
  BY <1>2
<1> SUFFICES ASSUME NEW l \in Conns PROVE Calmly(l)'
  BY DEF Calm
<1> DEFINE a == peer["client"][l]
           b == peer["server"][l]
           nc == net["client"][l]
           ns == net["server"][l]
           r == q(l)
<1>10. /\ a \in Peer /\ b \in Peer /\ nc \in Seq(Packet) /\ ns \in Seq(Packet) /\ Dry(b)
       /\ (l \in cut) \in BOOLEAN /\ Talk(a, b, nc, ns, l \in cut)
  BY Talking
<1>11. Leaves(b, r) /\ r.sock = "Unconnected" /\ r.out = <<>>
  BY <1>4
<1>12. /\ heard(l) => c[l] = nc \o <<"fin">>
       /\ ~heard(l) => c[l] = nc
       /\ heard(l) <=> l \notin cut /\ b.sock # "Unconnected" /\ a.sock # "Unconnected"
  BY <1>7
<1>13. <<>> \in Seq(Packet) /\ Els(<<>>) = {} /\ nc \o <<>> = nc
  BY <1>10, EmptySeq, ElsFacts, ConcatEmptySeq
<1>14. Talk(a, r, c[l], <<>>, l \in cut)
  <2> HIDE DEF a, b, nc, ns, r, heard
  <2>1. CASE b.sock = "Unconnected"
    <3>1. c[l] = nc /\ b.out = <<>> /\ ns = <<>>
      BY <1>10, <1>12, <2>1 DEF Dry, Talk
    <3> QED
      BY <1>10, <1>11, <2>1, <3>1 DEF Talk, Hearing, Asks, Answered, Leaves, Same
  <2>2. CASE b.sock # "Unconnected"
    <3>1. Plain(b, r, <<>>, ns, <<>>, "alive")
      <4>1. <<>> \o r.out = <<>>
        BY <1>11, <1>13, ConcatEmptySeq
      <4> QED
        BY <1>11, <1>13, <4>1 DEF Plain, Leaves, Same
    <3>2. ServerSpoke(a, nc, l \in cut, r, <<>>, <<>>)
      BY <1>10, <3>1, ServerPlainTalk
    <3>3. c[l] = IF l \in cut \/ a.sock = "Unconnected" THEN nc
                 ELSE nc \o <<>> \o (IF r.sock = "Unconnected" THEN <<"fin">> ELSE <<>>)
      BY <1>11, <1>12, <1>13, <2>2
    <3>4. <<>> = IF r.sock = "Unconnected" THEN <<>> ELSE <<>>
      OBVIOUS
    <3> QED
      BY <3>2, <3>3, <3>4 DEF ServerSpoke
  <2> QED
    BY <2>1, <2>2
<1> QED
  BY <1>1, <1>5, <1>6, <1>8, <1>9, <1>14 DEF Calmly

LEMMA StepCalm ==
    ASSUME Inv, Trusted, Calm, [Next]_vars
    PROVE  Calm'
<1>0. compat' = compat
  <2>1. User \/ Timers \/ Server \/ UNCHANGED vars => compat' = compat
    BY DEF vars, User, UserConnect, UserDisconnect, Timers, TimerFires, TimerIgnored, Server,
           startServer, stopServer, Broadcast, PeerEvent, connectToServer
  <2>2. ASSUME NEW k \in Conns, Connection(k) PROVE compat' = compat
    <3>1. ASSUME NEW e \in End, EndStep(e, k) PROVE compat' = compat
      BY <3>1 DEF EndStep, Flush, NetError, Timeout, Alive, ReceiveMessage, RemoteHostClosed, PeerEvent
    <3> QED
      BY <2>2, <3>1 DEF Connection, SocketConnects, SocketFails, Cut, handleNewConnection, PeerEvent
  <2> QED
    BY <2>1, <2>2 DEF Next
<1> SUFFICES ASSUME compat = "same" PROVE Calm'
  BY <1>0 DEF Calm
<1>1. ASSUME peer' = peer, net' = net, cut' = cut
      PROVE  Calm'
  BY <1>0, <1>1 DEF Calm, Calmly
<1>2. CASE UNCHANGED vars
  BY <1>1, <1>2 DEF vars
<1>3. CASE User
  <2>1. CASE \E k \in Conns : UserConnect(k)
    BY <2>1, ConnectCalm DEF UserConnect
  <2>2. CASE UserDisconnect
    <3>1. cut' = cut /\ (DisconnectClient \/ (peer' = peer /\ net' = net))
      BY <2>2 DEF UserDisconnect, CancelReconnect, InvalidDisconnect
    <3> QED
      BY <1>0, <1>1, <3>1, DisconnectCalm
  <2> QED
    BY <1>3, <2>1, <2>2 DEF User
<1>4. CASE Timers
  <2>1. CASE \E k \in Conns : TimerFires(k)
    BY <2>1, ConnectCalm DEF TimerFires
  <2>2. CASE TimerIgnored
    BY <1>1, <2>2 DEF TimerIgnored
  <2> QED
    BY <1>4, <2>1, <2>2 DEF Timers
<1>5. CASE Server
  <2>1. CASE startServer
    BY <1>1, <2>1 DEF startServer
  <2>2. ASSUME NEW k \in Conns, Broadcast(k)
        PROVE  Calm'
    <3>1. peer["server"][k].authenticated \in BOOLEAN
      BY PeersKnown DEF Peer, End
    <3>2. /\ peer["server"][k].sock = "Connected" /\ peer["server"][k].authenticated = TRUE
          /\ "server" \in End /\ cut' = cut
          /\ Becomes("server", k, writeData(peer["server"][k], "state"), net["server"][k], <<>>)
      BY <2>2, <3>1 DEF Broadcast, End, PeerEvent
    <3>3. "server" = "client" => "state" # "state"
      OBVIOUS
    <3> QED
      BY <1>0, <3>2, <3>3, SayCalm
  <2> QED
    BY <1>5, <2>1, <2>2, StopServerCalm DEF Server
<1>6. ASSUME NEW k \in Conns, Connection(k)
      PROVE  Calm'
  <2>1. ASSUME NEW e \in End, EndStep(e, k)
        PROVE  Calm'
    <3>1. CASE Alive(e, k)
      <4>1. peer[e][k].authenticated \in BOOLEAN
        BY PeersKnown DEF Peer
      <4>2. /\ peer[e][k].sock = "Connected" /\ peer[e][k].authenticated = TRUE /\ cut' = cut
            /\ Becomes(e, k, writeData(peer[e][k], "alive"), net[e][k], <<>>)
        BY <3>1, <4>1 DEF Alive, PeerEvent
      <4>3. ASSUME NEW m \in {"alive", "state"}, m # "state",
                   Becomes(e, k, writeData(peer[e][k], m), net[e][k], <<>>)
            PROVE  Calm'
        BY <1>0, <4>2, <4>3, SayCalm
      <4> QED
        BY <4>2, <4>3
    <3> QED
      BY <2>1, <3>1, FlushCalm, NetErrorCalm, TimeoutCalm, ReceiveMessageCalm,
         RemoteHostClosedCalm DEF EndStep
  <2> QED
    BY <1>6, <2>1, SocketConnectsCalm, SocketFailsCalm, CutCalm, NewConnectionCalm
    DEF Connection
<1> QED
  BY <1>2, <1>3, <1>4, <1>5, <1>6 DEF Next

\* Programs of the same version never send each other an ERROR: whatever is cut,
\* timed out, given up or begun again, each message finds the receiver in the
\* state its handler demands.
THEOREM SameVersionsAgree == Spec => []NoProtocolError
<1>1. Init => Calm
  <2> SUFFICES ASSUME Init, compat = "same", NEW k \in Conns PROVE Calmly(k)
    BY DEF Calm
  <2>1. /\ peer["client"][k] = NewPeer("Unconnected") /\ peer["server"][k] = NewPeer("Unconnected")
        /\ net["client"][k] = <<>> /\ net["server"][k] = <<>>
    BY DEF Init, End
  <2>2. NewPeer("Unconnected").sock = "Unconnected" /\ NewPeer("Unconnected").out = <<>>
    BY DEF NewPeer
  <2>3. Els(<<>>) = {}
    BY EmptySeq, ElsFacts
  <2> QED
    BY <2>1, <2>2, <2>3 DEF Calmly, Talk
<1>2. Inv /\ Trusted /\ Calm /\ [Next]_vars => Calm'
  BY StepCalm
<1>3. Calm => NoProtocolError
  <2> SUFFICES ASSUME Calm, compat = "same", NEW e \in End, NEW k \in Conns
               PROVE  "error" \notin Els(peer[e][k].out) /\ "error" \notin Els(net[e][k])
    BY DEF NoProtocolError, Els
  <2>1. Talk(peer["client"][k], peer["server"][k], net["client"][k], net["server"][k], k \in cut)
    BY DEF Calm, Calmly
  <2>2. "error" \notin Els(net["client"][k]) \union Els(net["server"][k])
          \union Els(peer["client"][k].out) \union Els(peer["server"][k].out)
    BY <2>1 DEF Talk
  <2> QED
    BY <2>2 DEF End
<1> QED
  BY InvHolds, TrustHolds, <1>1, <1>2, <1>3, PTL DEF Spec

--------------------------------------------------------------------------------
(* One confirmation for each connection: the server's welcome, the challenge, *)
(* the response and the confirmation are one token that is handed on, and it  *)
(* ends in the client's peer.  And a socket that closes without having been   *)
(* asked to has failed.                                                       *)

Token == {"challenge", "response", "valid"}
At(s) == {i \in DOMAIN s : s[i] \in Token}
\* How many tokens s holds: none, one, or more.
Weight(s) == IF At(s) = {} THEN 0 ELSE IF \A i, j \in At(s) : i = j THEN 1 ELSE 2

\* What the peer p at end e holds, `s` being what is on its way to it.
Holds(e, p) == IF e = "client" /\ p.authenticated = TRUE THEN 1 ELSE 0
Begins(p) == IF p.sock \in {"Backlog", "Connecting"} THEN 1 ELSE 0
Load(e, p, s) == Weight(s) + Weight(p.out) + Holds(e, p) + Begins(p)
Once == \A k \in Conns : Load("client", peer["client"][k], net["client"][k])
                           + Load("server", peer["server"][k], net["server"][k]) <= 1

\* A socket of the client that closes has failed, or the user has asked for it.
Blamed(p, s) == p.sock \notin {"Unconnected", "Connecting", "Connected"}
                  => p.failed = TRUE \/ s = "CLIENT_CLOSING"
Failing == \A k \in Conns : Blamed(peer["client"][k], state)

Sure == Once /\ Failing /\ CrashNeedsFailure

LEMMA WeightRange == \A s : Weight(s) \in 0 .. 2
  BY DEF Weight

LEMMA WeightEmpty == Weight(<<>>) = 0 /\ Weight(<<"fin">>) = 0 /\ Weight(<<"error">>) = 0
<1>1. At(<<>>) = {} /\ At(<<"fin">>) = {} /\ At(<<"error">>) = {}
  BY DEF At, Token
<1> QED
  BY <1>1 DEF Weight

LEMMA WeightOne == \A x : Weight(<<x>>) = IF x \in Token THEN 1 ELSE 0
<1> TAKE x
<1>1. At(<<x>>) = IF x \in Token THEN {1} ELSE {}
  BY DEF At
<1> QED
  BY <1>1 DEF Weight

LEMMA WeightConcat ==
    ASSUME NEW S, NEW s \in Seq(S), NEW t \in Seq(S)
    PROVE  Weight(s \o t) <= Weight(s) + Weight(t)
<1>1. /\ s \o t \in Seq(S) /\ DOMAIN (s \o t) = 1 .. Len(s) + Len(t)
      /\ \A i \in 1 .. Len(s) + Len(t) :
           (s \o t)[i] = IF i <= Len(s) THEN s[i] ELSE t[i - Len(s)]
      /\ DOMAIN s = 1 .. Len(s) /\ DOMAIN t = 1 .. Len(t) /\ Len(s) \in Nat /\ Len(t) \in Nat
  BY ConcatProperties, LenProperties
<1>2. ASSUME NEW i \in At(s \o t)
      PROVE  /\ i \in Int
             /\ \/ i <= Len(s) /\ i \in At(s)
                \/ i > Len(s) /\ i - Len(s) \in At(t)
  <2>1. i \in 1 .. Len(s) + Len(t) /\ (s \o t)[i] \in Token
    BY <1>1 DEF At
  <2>2. CASE i <= Len(s)
    <3>1. i \in 1 .. Len(s) /\ s[i] \in Token
      BY <1>1, <2>1, <2>2
    <3> QED
      BY <1>1, <2>2, <3>1 DEF At
  <2>3. CASE i > Len(s)
    <3>1. i - Len(s) \in 1 .. Len(t) /\ t[i - Len(s)] \in Token
      BY <1>1, <2>1, <2>3
    <3> QED
      BY <1>1, <2>1, <2>3, <3>1 DEF At
  <2> QED
    BY <1>1, <2>1, <2>2, <2>3
<1>3. Weight(s) \in 0 .. 2 /\ Weight(t) \in 0 .. 2 /\ Weight(s \o t) \in 0 .. 2
  BY WeightRange
<1>4. CASE Weight(s) = 0
  <2>1. At(s) = {}
    BY <1>4 DEF Weight
  <2>2. CASE Weight(t) = 0
    <3>1. At(t) = {}
      BY <2>2 DEF Weight
    <3>2. At(s \o t) = {}
      BY <1>2, <2>1, <3>1
    <3> QED
      BY <1>3, <3>2 DEF Weight
  <2>3. CASE Weight(t) = 1
    <3>1. \A i, j \in At(t) : i = j
      BY <2>3 DEF Weight
    <3>2. \A i, j \in At(s \o t) : i = j
      <4> TAKE i, j \in At(s \o t)
      <4>1. /\ i - Len(s) \in At(t) /\ j - Len(s) \in At(t) /\ i \in Int /\ j \in Int
        BY <1>2, <2>1
      <4>2. i - Len(s) = j - Len(s)
        BY <3>1, <4>1
      <4> QED
        BY <1>1, <4>1, <4>2
    <3> QED
      BY <1>4, <2>3, <3>2 DEF Weight
  <2>4. CASE Weight(t) = 2
    BY <1>3, <2>4
  <2> QED
    BY <1>3, <2>2, <2>3, <2>4
<1>5. CASE Weight(s) = 1
  <2>1. \A i, j \in At(s) : i = j
    BY <1>5 DEF Weight
  <2>2. CASE Weight(t) = 0
    <3>1. At(t) = {}
      BY <2>2 DEF Weight
    <3>2. \A i, j \in At(s \o t) : i = j
      BY <1>2, <2>1, <3>1
    <3> QED
      BY <1>5, <2>2, <3>2 DEF Weight
  <2> QED
    BY <1>3, <1>5, <2>2
<1> QED
  BY <1>3, <1>4, <1>5

LEMMA WeightAppend ==
    ASSUME NEW S, NEW s \in Seq(S), NEW x \in S
    PROVE  Weight(Append(s, x)) <= Weight(s) + Weight(<<x>>)
<1>1. Append(s, x) = s \o <<x>> /\ <<x>> \in Seq(S)
  BY AppendIsConcat
<1> QED
  BY <1>1, WeightConcat

LEMMA WeightTail ==
    ASSUME NEW S, NEW s \in Seq(S), s # <<>>, Weight(s) <= 1
    PROVE  Weight(Tail(s)) + Weight(<<Head(s)>>) <= Weight(s)
<1>1. /\ Tail(s) \in Seq(S) /\ Len(Tail(s)) = Len(s) - 1 /\ Len(s) > 0 /\ Len(s) \in Nat
      /\ \A i \in 1 .. Len(Tail(s)) : Tail(s)[i] = s[i + 1]
      /\ DOMAIN s = 1 .. Len(s) /\ DOMAIN Tail(s) = 1 .. (Len(s) - 1) /\ Head(s) = s[1]
  BY HeadTailProperties, LenProperties
<1>2. ASSUME NEW i \in At(Tail(s))
      PROVE  i \in Int /\ i >= 1 /\ i + 1 \in At(s)
  <2>1. i \in 1 .. (Len(s) - 1) /\ Tail(s)[i] \in Token
    BY <1>1 DEF At
  <2>2. i + 1 \in 1 .. Len(s) /\ s[i + 1] \in Token
    BY <1>1, <2>1
  <2> QED
    BY <1>1, <2>1, <2>2 DEF At
<1>3. Weight(s) \in 0 .. 2 /\ Weight(Tail(s)) \in 0 .. 2
      /\ Weight(<<Head(s)>>) = IF Head(s) \in Token THEN 1 ELSE 0
  BY WeightRange, WeightOne
<1>4. Head(s) \in Token => 1 \in At(s)
  BY <1>1 DEF At
<1>5. CASE At(s) = {}
  <2>1. At(Tail(s)) = {} /\ Head(s) \notin Token
    BY <1>2, <1>4, <1>5
  <2>2. Weight(Tail(s)) = 0
    BY <2>1 DEF Weight
  <2> QED
    BY <1>3, <2>1, <2>2
<1>6. CASE At(s) # {}
  <2>1. (\A i, j \in At(s) : i = j) /\ Weight(s) = 1
    BY <1>3, <1>6 DEF Weight
  <2>2. CASE Head(s) \in Token
    <3>1. At(Tail(s)) = {}
      <4> SUFFICES ASSUME NEW i \in At(Tail(s)) PROVE FALSE
        OBVIOUS
      <4>1. i + 1 = 1 /\ i \in Int /\ i >= 1
        BY <1>2, <1>4, <2>1, <2>2
      <4> QED
        BY <4>1
    <3>2. Weight(Tail(s)) = 0
      BY <3>1 DEF Weight
    <3> QED
      BY <1>3, <2>1, <2>2, <3>2
  <2>3. CASE Head(s) \notin Token
    <3>1. \A i, j \in At(Tail(s)) : i = j
      <4> TAKE i, j \in At(Tail(s))
      <4>1. i \in Int /\ j \in Int /\ i + 1 = j + 1
        BY <1>2, <2>1
      <4> QED
        BY <4>1
    <3>2. Weight(Tail(s)) \in {0, 1}
      BY <3>1 DEF Weight
    <3> QED
      BY <1>3, <2>1, <2>3, <3>2
  <2> QED
    BY <2>2, <2>3
<1> QED
  BY <1>5, <1>6

LEMMA LoadTyped ==
    \A e, p, s : /\ Load(e, p, s) \in Nat /\ Weight(s) \in Nat /\ Weight(p.out) \in Nat
                 /\ Holds(e, p) \in {0, 1} /\ Begins(p) \in {0, 1}
                 /\ Load(e, p, s) = Weight(s) + Weight(p.out) + Holds(e, p) + Begins(p)
<1> TAKE e, p, s
<1>1. Weight(s) \in 0 .. 2 /\ Weight(p.out) \in 0 .. 2
  BY WeightRange
<1>2. Holds(e, p) \in {0, 1} /\ Begins(p) \in {0, 1}
  BY DEF Holds, Begins
<1> QED
  BY <1>1, <1>2 DEF Load

LEMMA LoadLess ==
    ASSUME NEW e, NEW p, NEW s, NEW t, NEW n \in Nat, Weight(s) <= Weight(t) + n
    PROVE  Load(e, p, s) <= Load(e, p, t) + n
<1>1. Weight(s) \in 0 .. 2 /\ Weight(t) \in 0 .. 2 /\ Weight(p.out) \in 0 .. 2
  BY WeightRange
<1>2. Holds(e, p) \in 0 .. 1 /\ Begins(p) \in 0 .. 1
  BY DEF Holds, Begins
<1> QED
  BY <1>1, <1>2 DEF Load

LEMMA Swap == \A a, b \in Nat : a + b <= 1 <=> b + a <= 1
  OBVIOUS

\* Whatever either end of a connection does, it hands on no more than it had.
LEMMA OnceEvent ==
    ASSUME TypeOK, Once, NEW e \in End, NEW k \in Conns, NEW q \in Peer,
           NEW rest \in Seq(Packet), NEW sent \in Seq(Packet), Becomes(e, k, q, rest, sent),
           Load(e, q, rest) + Weight(sent) <= Load(e, peer[e][k], net[e][k])
    PROVE  Once'
<1> DEFINE o == Other(e)
           fin == IF q.sock = "Unconnected" THEN <<"fin">> ELSE <<>>
           mine == IF q.sock = "Unconnected" THEN <<>> ELSE rest
           theirs == IF k \in cut \/ peer[o][k].sock = "Unconnected" THEN net[o][k]
                     ELSE net[o][k] \o sent \o fin
<1>1. /\ peer'[e][k] = q /\ peer'[o][k] = peer[o][k] /\ net'[e][k] = mine /\ net'[o][k] = theirs
      /\ \A d \in End, l \in Conns \ {k} : net'[d][l] = net[d][l] /\ peer'[d][l] = peer[d][l]
  BY BecomesValues
<1>2. o \in End /\ net[o][k] \in Seq(Packet)
  BY Ends DEF TypeOK
<1>3. Weight(theirs) <= Weight(net[o][k]) + Weight(sent)
  <2>1. fin \in Seq(Packet) /\ Weight(fin) = 0
    <3>1. <<>> \in Seq(Packet) /\ <<"fin">> \in Seq(Packet)
      BY EmptySeq DEF Packet
    <3> QED
      BY <3>1, WeightEmpty
  <2> HIDE DEF fin, o
  <2>2. net[o][k] \o sent \in Seq(Packet)
    BY <1>2, ConcatProperties
  <2>3. /\ Weight(net[o][k] \o sent) <= Weight(net[o][k]) + Weight(sent)
        /\ Weight(net[o][k] \o sent \o fin) <= Weight(net[o][k] \o sent) + Weight(fin)
    BY <1>2, <2>1, <2>2, WeightConcat
  <2>4. /\ Weight(net[o][k]) \in 0 .. 2 /\ Weight(sent) \in 0 .. 2
        /\ Weight(net[o][k] \o sent) \in 0 .. 2 /\ Weight(net[o][k] \o sent \o fin) \in 0 .. 2
    BY WeightRange
  <2> QED
    BY <2>1, <2>3, <2>4
<1>4. Weight(mine) <= Weight(rest)
  <2>1. Weight(rest) \in 0 .. 2 /\ Weight(<<>>) = 0
    BY WeightRange, WeightEmpty
  <2> QED
    BY <2>1
<1> HIDE DEF mine, theirs, fin
<1>5. Load(e, q, mine) + Weight(sent) <= Load(e, peer[e][k], net[e][k])
  <2>1. Weight(mine) <= Weight(rest) + 0
    BY <1>4, WeightRange
  <2>2. Load(e, q, mine) <= Load(e, q, rest) + 0
    BY <2>1, LoadLess
  <2>3. /\ Load(e, q, mine) \in Nat /\ Load(e, q, rest) \in Nat /\ Weight(sent) \in Nat
        /\ Load(e, peer[e][k], net[e][k]) \in Nat
    BY LoadTyped
  <2> QED
    BY <2>2, <2>3
<1>6. Load(o, peer[o][k], theirs) <= Load(o, peer[o][k], net[o][k]) + Weight(sent)
  <2>1. Weight(sent) \in Nat
    BY LoadTyped
  <2> QED
    BY <1>3, <2>1, LoadLess
<1>7. Load(e, q, mine) + Load(o, peer[o][k], theirs) <= 1
  <2>1. /\ Load(e, q, mine) \in Nat /\ Load(o, peer[o][k], theirs) \in Nat
        /\ Load(e, peer[e][k], net[e][k]) \in Nat /\ Load(o, peer[o][k], net[o][k]) \in Nat
        /\ Weight(sent) \in Nat
    BY LoadTyped
  <2>2. /\ Load("client", peer["client"][k], net["client"][k])
              + Load("server", peer["server"][k], net["server"][k]) <= 1
        /\ Load("client", peer["client"][k], net["client"][k]) \in Nat
        /\ Load("server", peer["server"][k], net["server"][k]) \in Nat
    BY LoadTyped DEF Once
  <2>3. Load(e, peer[e][k], net[e][k]) + Load(o, peer[o][k], net[o][k]) <= 1
    <3>1. CASE e = "client"
      BY <2>2, <3>1 DEF Other
    <3>2. CASE e = "server"
      BY <2>2, <3>2, Swap, Zenon DEF Other
    <3> QED
      BY <3>1, <3>2 DEF End
  <2> HIDE DEF o
  <2>4. PICK a \in Nat, b \in Nat, c \in Nat, d \in Nat, n \in Nat :
           /\ a = Load(e, q, mine) /\ c = Load(o, peer[o][k], theirs) /\ n = Weight(sent)
           /\ b = Load(e, peer[e][k], net[e][k]) /\ d = Load(o, peer[o][k], net[o][k])
    BY ONLY <2>1, Zenon
  <2>5. a + n <= b /\ c <= d + n /\ b + d <= 1
    BY ONLY <1>5, <1>6, <2>3, <2>4, Zenon
  <2>6. a + c <= 1
    BY ONLY <2>5, SMT
  <2> QED
    BY ONLY <2>4, <2>6, Zenon
<1> SUFFICES ASSUME NEW l \in Conns
             PROVE  Load("client", peer'["client"][l], net'["client"][l])
                      + Load("server", peer'["server"][l], net'["server"][l]) <= 1
  BY DEF Once, Load, Holds, Begins, Weight, At
<1>8. CASE l = k
  <2>1. Load(e, peer'[e][k], net'[e][k]) + Load(o, peer'[o][k], net'[o][k]) <= 1
    BY <1>1, <1>7
  <2>2. \A x, y : /\ Load("client", x, y) \in Nat /\ Load("server", x, y) \in Nat
    BY LoadTyped
  <2>3. CASE e = "client"
    BY <1>8, <2>1, <2>3 DEF Other
  <2>4. CASE e = "server"
    BY <1>8, <2>1, <2>2, <2>4, Swap, Zenon DEF Other
  <2> QED
    BY <2>3, <2>4 DEF End
<1>9. CASE l # k
  BY <1>1, <1>9 DEF Once, End
<1> QED
  BY <1>8, <1>9

\* q may follow p: it has written no token, and its socket is as it was or ends.
Light(p, q) == /\ q \in Peer /\ Weight(q.out) <= Weight(p.out)
               /\ q.authenticated = p.authenticated
               /\ q.sock = p.sock \/ Over(q)

LEMMA LightSame == \A p \in Peer : Light(p, p)
<1> TAKE p \in Peer
<1>1. Weight(p.out) \in 0 .. 2
  BY WeightRange
<1> QED
  BY <1>1 DEF Light

LEMMA LightTrans ==
    ASSUME NEW p, NEW q, NEW r, Light(p, q), Light(q, r)
    PROVE  Light(p, r)
<1>1. Weight(p.out) \in 0 .. 2 /\ Weight(q.out) \in 0 .. 2 /\ Weight(r.out) \in 0 .. 2
  BY WeightRange
<1>2. Weight(r.out) <= Weight(p.out)
  BY <1>1 DEF Light
<1> QED
  BY <1>2 DEF Light, Over

LEMMA LightReset ==
    ASSUME NEW p \in Peer
    PROVE  Light(p, Reset(p)) /\ Reset(p).sock = "Unconnected"
<1>1. Reset(p).out = <<>> /\ Reset(p).sock = "Unconnected" /\ Reset(p).authenticated = p.authenticated
  BY DEF Reset, Peer
<1>2. Weight(p.out) \in 0 .. 2 /\ Weight(<<>>) = 0
  BY WeightRange, WeightEmpty
<1>3. Reset(p) \in Peer
  BY ResetGrows DEF Grows, Sound
<1> QED
  BY <1>1, <1>2, <1>3 DEF Light, Over

LEMMA LightHost ==
    ASSUME NEW p \in Peer
    PROVE  /\ Light(p, disconnectFromHost(p)) /\ Over(disconnectFromHost(p))
           /\ disconnectFromHost(p).failed = p.failed
<1>1. CASE p.out = <<>>
  BY <1>1, LightReset DEF disconnectFromHost, Reset, Peer, Over
<1>2. CASE p.out # <<>>
  <2>1. disconnectFromHost(p) = [p EXCEPT !.sock = "Closing"]
    BY <1>2 DEF disconnectFromHost
  <2>2. Weight(p.out) \in 0 .. 2
    BY WeightRange
  <2> QED
    BY <2>1, <2>2 DEF Peer, Socket, Light, Over
<1> QED
  BY <1>1, <1>2

LEMMA LightWrite ==
    ASSUME NEW p \in Peer, Dry(p), NEW m \in Message, m \notin Token
    PROVE  /\ Light(p, writeData(p, m)) /\ writeData(p, m).sock = p.sock
           /\ writeData(p, m).failed = p.failed
<1>1. p.out \in Seq(Message)
  BY PeerFields
<1>2. /\ writeData(p, m).failed = p.failed /\ writeData(p, m).authenticated = p.authenticated
      /\ writeData(p, m).out = p.out \/ writeData(p, m).out = Append(p.out, m)
  BY DEF writeData, Peer
<1>3. writeData(p, m) \in Peer /\ writeData(p, m).sock = p.sock
  BY WriteGrows DEF Grows, Sound
<1>4. /\ Weight(Append(p.out, m)) <= Weight(p.out) + Weight(<<m>>) /\ Weight(<<m>>) = 0
      /\ Weight(p.out) \in 0 .. 2 /\ Weight(Append(p.out, m)) \in 0 .. 2
  BY <1>1, WeightAppend, WeightOne, WeightRange
<1>5. Weight(writeData(p, m).out) <= Weight(p.out)
  <2>1. CASE writeData(p, m).out = p.out
    BY <1>4, <2>1
  <2>2. CASE writeData(p, m).out = Append(p.out, m)
    BY <1>4, <2>2
  <2> QED
    BY <1>2, <2>1, <2>2
<1> QED
  BY <1>2, <1>3, <1>5, Zenon DEF Light

LEMMA LightFailed ==
    ASSUME NEW p \in Peer
    PROVE  /\ Light(p, [p EXCEPT !.failed = TRUE]) /\ Light(p, [p EXCEPT !.expectDisconnect = TRUE])
           /\ Light(p, [p EXCEPT !.failed = TRUE, !.expectDisconnect = TRUE])
<1>1. Weight(p.out) <= Weight(p.out)
  BY WeightRange
<1>2. ASSUME NEW q \in Peer, q.out = p.out, q.authenticated = p.authenticated, q.sock = p.sock
      PROVE  Light(p, q)
  BY <1>1, <1>2, Zenon DEF Light
<1> DEFINE Alike(q) == /\ q \in Peer /\ q.out = p.out
                       /\ q.authenticated = p.authenticated /\ q.sock = p.sock
<1>3. /\ Alike([p EXCEPT !.failed = TRUE]) /\ Alike([p EXCEPT !.expectDisconnect = TRUE])
      /\ Alike([p EXCEPT !.failed = TRUE, !.expectDisconnect = TRUE])
  BY DEF Peer
<1>4. \A q : Alike(q) => Light(p, q)
  BY <1>2
<1> HIDE DEF Alike
<1> QED
  BY <1>3, <1>4, Zenon

LEMMA LightError ==
    ASSUME NEW p \in Peer, Dry(p)
    PROVE  Light(p, writeError(p)) /\ Over(writeError(p)) /\ writeError(p).failed = TRUE
<1> DEFINE w == writeData(p, "error")
           f == [w EXCEPT !.failed = TRUE]
<1>1. Light(p, w)
  BY LightWrite DEF Message, Token
<1>2. w \in Peer
  BY <1>1 DEF Light
<1> HIDE DEF w
<1>3. Light(w, f) /\ f.failed = TRUE
  BY <1>2, LightFailed DEF Peer
<1>4. f \in Peer
  BY <1>3 DEF Light
<1> HIDE DEF f
<1>5. /\ Light(f, disconnectFromHost(f)) /\ Over(disconnectFromHost(f))
      /\ disconnectFromHost(f).failed = TRUE
  BY <1>3, <1>4, LightHost
<1>6. writeError(p) = disconnectFromHost(f)
  BY DEF writeError, f, w
<1> QED
  BY <1>1, <1>3, <1>5, <1>6, LightTrans

\* What the relation is for.
LEMMA LightLoad ==
    ASSUME NEW e, NEW p, NEW q, Light(p, q), NEW s, NEW rest, NEW sent,
           Weight(rest) + Weight(q.out) + Weight(sent) <= Weight(s) + Weight(p.out)
    PROVE  Load(e, q, rest) + Weight(sent) <= Load(e, p, s)
<1>1. /\ Weight(rest) \in 0 .. 2 /\ Weight(q.out) \in 0 .. 2 /\ Weight(sent) \in 0 .. 2
      /\ Weight(s) \in 0 .. 2 /\ Weight(p.out) \in 0 .. 2
  BY WeightRange
<1>2. Holds(e, q) = Holds(e, p) /\ Holds(e, p) \in {0, 1}
  BY DEF Light, Holds
<1>3. Begins(q) <= Begins(p) /\ Begins(p) \in {0, 1} /\ Begins(q) \in {0, 1}
  BY DEF Light, Begins, Over
<1> QED
  BY <1>1, <1>2, <1>3 DEF Load

\* The client's other sockets do not live, and a crash is not undone.
LEMMA OthersDead ==
    ASSUME Inv, NEW k \in Conns, peer.client[k].sock # "Unconnected"
    PROVE  /\ client = k /\ app = "running"
           /\ \A l \in Conns : l # k => peer.client[l].sock = "Unconnected"
  BY Settings DEF Inv, ClientPointer, ClientRuns

\* An event at the client's end.
LEMMA ClientSure ==
    ASSUME Inv, Sure, NEW k \in Conns, peer.client[k].sock # "Unconnected",
           NEW q \in Peer, NEW rest \in Seq(Packet), NEW sent \in Seq(Packet),
           Becomes("client", k, q, rest, sent), NEW now, Signals("client", q, now),
           Blamed(q, now),
           Load("client", q, rest) + Weight(sent) <= Load("client", peer.client[k], net.client[k])
    PROVE  Sure'
<1>1. TypeOK /\ "client" \in End
  BY DEF Inv, End
<1>2. Once'
  BY <1>1, OnceEvent DEF Sure
<1>3. /\ client = k /\ app = "running"
      /\ \A l \in Conns : l # k => peer.client[l].sock = "Unconnected"
  BY OthersDead
<1>4. \A l \in Conns : peer'["client"][l] = IF l = k THEN q ELSE peer["client"][l]
  BY <1>1, BecomesTyped
<1>5. CASE q.sock = "Unconnected"
  <2>1. clientDisconnected(q, now)
    BY <1>5 DEF Signals
  <2>2. app' # "crashed"
    BY <1>3, <2>1 DEF clientDisconnected, applyClientBehavior
  <2>3. Failing'
    BY <1>3, <1>4, <1>5 DEF Failing, Blamed
  <2> QED
    BY <1>2, <2>2, <2>3 DEF Sure, CrashNeedsFailure
<1>6. CASE q.sock # "Unconnected"
  <2>1. state' = now /\ app' = app
    BY <1>6 DEF Signals
  <2>2. Failing'
    BY <1>3, <1>4, <2>1 DEF Failing, Blamed
  <2> QED
    BY <1>2, <1>3, <2>1, <2>2 DEF Sure, CrashNeedsFailure
<1> QED
  BY <1>5, <1>6

\* An event at the server's end.
LEMMA ServerSure ==
    ASSUME Inv, Sure, NEW k \in Conns, NEW q \in Peer,
           NEW rest \in Seq(Packet), NEW sent \in Seq(Packet),
           Becomes("server", k, q, rest, sent), state' = state, app' = app,
           Load("server", q, rest) + Weight(sent) <= Load("server", peer.server[k], net.server[k])
    PROVE  Sure'
<1>1. TypeOK /\ "server" \in End /\ "client" \in End
  BY DEF Inv, End
<1>2. Once'
  BY <1>1, OnceEvent DEF Sure
<1>3. \A l \in Conns : peer'["client"][l] = peer["client"][l]
  BY <1>1, BecomesTyped
<1>4. Failing' /\ CrashNeedsFailure'
  BY <1>3 DEF Sure, Failing, Blamed, CrashNeedsFailure
<1> QED
  BY <1>2, <1>4 DEF Sure

\* An event at either end that hands on nothing but what was written.
LEMMA EndSure ==
    ASSUME Inv, Sure, NEW e \in End, NEW k \in Conns, peer[e][k].sock # "Unconnected",
           NEW q, Light(peer[e][k], q), e = "client" => Blamed(q, state),
           NEW rest \in Seq(Packet), NEW sent \in Seq(Packet),
           Weight(rest) + Weight(q.out) + Weight(sent)
             <= Weight(net[e][k]) + Weight(peer[e][k].out),
           PeerEvent(e, k, q, rest, sent)
    PROVE  Sure'
<1>1. /\ Becomes(e, k, q, rest, sent) /\ Signals(e, q, state) /\ q \in Peer
      /\ Load(e, q, rest) + Weight(sent) <= Load(e, peer[e][k], net[e][k])
  BY LightLoad DEF PeerEvent, Light
<1>2. CASE e = "server"
  BY <1>1, <1>2, ServerSure DEF Signals
<1>3. CASE e = "client"
  BY <1>1, <1>3, ClientSure
<1> QED
  BY <1>2, <1>3 DEF End

\* Nothing new on the way: the same messages are left, or none.
LEMMA LightSum ==
    ASSUME NEW p, NEW q, Light(p, q), NEW s
    PROVE  /\ Weight(s) + Weight(q.out) + Weight(<<>>) <= Weight(s) + Weight(p.out)
           /\ Weight(<<>>) + Weight(q.out) + Weight(<<>>) <= Weight(s) + Weight(p.out)
<1>1. /\ Weight(s) \in 0 .. 2 /\ Weight(q.out) \in 0 .. 2 /\ Weight(p.out) \in 0 .. 2
      /\ Weight(<<>>) = 0 /\ Weight(q.out) <= Weight(p.out)
  BY WeightRange, WeightEmpty DEF Light
<1> QED
  BY <1>1

LEMMA LeaveSure ==
    ASSUME Inv, Sure, NEW e \in End, NEW k \in Conns, peer[e][k].sock # "Unconnected",
           NEW q, Light(peer[e][k], q), e = "client" => Blamed(q, state),
           NEW rest, rest = <<>> \/ rest = net[e][k],
           PeerEvent(e, k, q, rest, <<>>)
    PROVE  Sure'
<1>1. net[e][k] \in Seq(Packet) /\ <<>> \in Seq(Packet)
  BY PeersKnown
<1>2. rest \in Seq(Packet)
  BY <1>1
<1>3. Weight(rest) + Weight(q.out) + Weight(<<>>) <= Weight(net[e][k]) + Weight(peer[e][k].out)
  BY LightSum
<1> QED
  BY <1>1, <1>2, <1>3, EndSure

--------------------------------------------------------------------------------
(* The events of a connection hand the token on, and no socket closes unasked. *)

LEMMA FlushSure ==
    ASSUME Inv, Sure, NEW e \in End, NEW k \in Conns, Flush(e, k)
    PROVE  Sure'
<1> DEFINE p == peer[e][k]
           s == net[e][k]
           q == [p EXCEPT !.out = Tail(p.out)]
           r == IF p.sock = "Closing" /\ q.out = <<>> THEN Reset(q) ELSE q
           h == <<Head(p.out)>>
<1>1. p.out # <<>> /\ PeerEvent(e, k, r, s, h)
  BY DEF Flush
<1>2. p \in Peer /\ Dry(p) /\ s \in Seq(Packet)
  BY PeersKnown
<1>3. e = "client" => Blamed(p, state)
  BY DEF Sure, Failing
<1>4. Weight(p.out) <= 1
  <2>1. \A d \in End : Load(d, peer[d][k], net[d][k]) <= 1
    <3>1. /\ Load("client", peer["client"][k], net["client"][k])
              + Load("server", peer["server"][k], net["server"][k]) <= 1
          /\ Load("client", peer["client"][k], net["client"][k]) \in Nat
          /\ Load("server", peer["server"][k], net["server"][k]) \in Nat
      BY LoadTyped DEF Sure, Once
    <3> QED
      BY <3>1 DEF End
  <2>2. Load(e, p, s) <= 1
    BY <2>1
  <2> HIDE DEF p, s
  <2> QED
    BY <2>2, LoadTyped
<1> HIDE DEF p, s
<1>5. p.out \in Seq(Message)
  BY <1>2, PeerFields
<1>6. Tail(p.out) \in Seq(Message) /\ Head(p.out) \in Message
  BY <1>1, <1>5, HeadTailProperties
<1>7. Weight(Tail(p.out)) + Weight(h) <= Weight(p.out)
  BY <1>1, <1>4, <1>5, WeightTail
<1> HIDE DEF h
<1>8. /\ Weight(Tail(p.out)) \in 0 .. 2 /\ Weight(h) \in 0 .. 2 /\ Weight(p.out) \in 0 .. 2
      /\ Weight(s) \in 0 .. 2
  BY WeightRange
<1>9. q \in Peer /\ q.out = Tail(p.out) /\ q.authenticated = p.authenticated /\ q.sock = p.sock
      /\ q.failed = p.failed
  BY <1>2, <1>6 DEF Peer
<1>10. Light(p, q)
  BY <1>7, <1>8, <1>9 DEF Light
<1> HIDE DEF q
<1>11. Light(q, r) /\ (r = q \/ r.sock = "Unconnected")
  BY <1>9, LightReset, LightSame
<1>12. Light(p, r)
  BY <1>10, <1>11, LightTrans
<1>13. e = "client" => Blamed(r, state)
  BY <1>3, <1>9, <1>11 DEF Blamed
<1> HIDE DEF r
<1>14. Weight(s) + Weight(r.out) + Weight(h) <= Weight(s) + Weight(p.out)
  <2>1. Weight(r.out) <= Weight(q.out) /\ Weight(r.out) \in 0 .. 2
    BY <1>11, WeightRange DEF Light
  <2> QED
    BY <1>7, <1>8, <1>9, <2>1
<1>15. h \in Seq(Packet) /\ p.sock # "Unconnected"
  <2>1. Head(p.out) \in Packet
    BY <1>6 DEF Packet
  <2> QED
    BY <1>1, <1>2, <2>1 DEF Dry, h
<1> QED
  BY <1>1, <1>2, <1>12, <1>13, <1>14, <1>15, EndSure DEF p, s

LEMMA NetErrorSure ==
    ASSUME Inv, Sure, NEW e \in End, NEW k \in Conns, NetError(e, k)
    PROVE  Sure'
<1> DEFINE p == peer[e][k]
           f == [p EXCEPT !.failed = TRUE]
<1>1. p.sock \in {"Connected", "Closing"} /\ PeerEvent(e, k, Reset(f), <<>>, <<>>)
  BY DEF NetError
<1>2. p \in Peer
  BY PeersKnown
<1> HIDE DEF p
<1>3. Light(p, f)
  BY <1>2, LightFailed
<1>4. f \in Peer
  BY <1>3 DEF Light
<1> HIDE DEF f
<1>5. Light(p, Reset(f)) /\ Blamed(Reset(f), state)
  BY <1>3, <1>4, LightReset, LightTrans DEF Blamed
<1>6. p.sock # "Unconnected"
  BY <1>1
<1> QED
  BY <1>1, <1>5, <1>6, LeaveSure DEF p

LEMMA SocketFailsSure ==
    ASSUME Inv, Sure, NEW k \in Conns, SocketFails(k)
    PROVE  Sure'
<1> DEFINE p == peer["client"][k]
           f == [p EXCEPT !.failed = TRUE]
<1>1. p.sock = "Connecting" /\ PeerEvent("client", k, Reset(f), <<>>, <<>>)
  BY DEF SocketFails
<1>2. "client" \in End /\ p \in Peer
  BY PeersKnown DEF End
<1> HIDE DEF p
<1>3. Light(p, f)
  BY <1>2, LightFailed
<1>4. f \in Peer
  BY <1>3 DEF Light
<1> HIDE DEF f
<1>5. Light(p, Reset(f)) /\ Blamed(Reset(f), state)
  BY <1>3, <1>4, LightReset, LightTrans DEF Blamed
<1>6. p.sock # "Unconnected"
  BY <1>1
<1> QED
  BY <1>1, <1>2, <1>5, <1>6, LeaveSure DEF p

LEMMA TimeoutSure ==
    ASSUME Inv, Sure, NEW e \in End, NEW k \in Conns, Timeout(e, k)
    PROVE  Sure'
<1> DEFINE p == peer[e][k]
           f == [p EXCEPT !.failed = TRUE]
           w == writeData(f, "alive")
<1>1. /\ f.sock \in {"Connected", "Connecting"}
      /\ \/ PeerEvent(e, k, disconnectFromHost(w), net[e][k], <<>>)
         \/ PeerEvent(e, k, disconnectFromHost(f), net[e][k], <<>>)
         \/ PeerEvent(e, k, Reset(f), <<>>, <<>>)
  BY DEF Timeout
<1>2. p \in Peer /\ Dry(p)
  BY PeersKnown
<1> HIDE DEF p
<1>3. Light(p, f) /\ Dry(f) /\ f.sock = p.sock /\ f.failed = TRUE
  BY <1>2, LightFailed, FailedGrows DEF Grows, Sound, Peer
<1>4. f \in Peer
  BY <1>3 DEF Light
<1> HIDE DEF f
<1>5. Light(f, w) /\ w.failed = TRUE
  BY <1>3, <1>4, LightWrite DEF Message, Token
<1>6. w \in Peer
  BY <1>5 DEF Light
<1> HIDE DEF w
<1>7. /\ Light(p, Reset(f)) /\ Light(p, disconnectFromHost(f))
      /\ Reset(f).sock = "Unconnected" /\ disconnectFromHost(f).failed = TRUE
  BY <1>3, <1>4, LightReset, LightHost, LightTrans
<1>8. Light(p, w)
  BY <1>3, <1>5, LightTrans
<1>9. Light(p, disconnectFromHost(w)) /\ disconnectFromHost(w).failed = TRUE
  BY <1>5, <1>6, <1>8, LightHost, LightTrans
<1>10. /\ Blamed(Reset(f), state) /\ Blamed(disconnectFromHost(f), state)
       /\ Blamed(disconnectFromHost(w), state)
  BY <1>7, <1>9 DEF Blamed
<1>11. p.sock # "Unconnected"
  BY <1>1, <1>3
<1>12. CASE PeerEvent(e, k, disconnectFromHost(w), net[e][k], <<>>)
  BY <1>9, <1>10, <1>11, <1>12, LeaveSure DEF p
<1>13. CASE PeerEvent(e, k, disconnectFromHost(f), net[e][k], <<>>)
  BY <1>7, <1>10, <1>11, <1>13, LeaveSure DEF p
<1>14. CASE PeerEvent(e, k, Reset(f), <<>>, <<>>)
  BY <1>7, <1>10, <1>11, <1>14, LeaveSure DEF p
<1> QED
  BY <1>1, <1>12, <1>13, <1>14

LEMMA WriteSure ==
    ASSUME Inv, Sure, NEW e \in End, NEW k \in Conns, NEW m \in Message, m \notin Token,
           peer[e][k].sock = "Connected",
           PeerEvent(e, k, writeData(peer[e][k], m), net[e][k], <<>>)
    PROVE  Sure'
<1> DEFINE p == peer[e][k]
           w == writeData(p, m)
<1>1. p \in Peer /\ Dry(p)
  BY PeersKnown
<1>2. PeerEvent(e, k, w, net[e][k], <<>>) /\ p.sock = "Connected"
  OBVIOUS
<1> HIDE DEF p
<1>3. Light(p, w) /\ w.sock = "Connected"
  BY <1>1, <1>2, LightWrite
<1>4. p.sock # "Unconnected" /\ Blamed(w, state)
  BY <1>2, <1>3 DEF Blamed
<1> HIDE DEF w
<1> QED
  BY <1>2, <1>3, <1>4, LeaveSure DEF p

LEMMA RemoteHostClosedSure ==
    ASSUME Inv, Sure, NEW e \in End, NEW k \in Conns, RemoteHostClosed(e, k)
    PROVE  Sure'
<1> DEFINE p == peer[e][k]
           f == [p EXCEPT !.failed = TRUE, !.expectDisconnect = TRUE]
<1>1. p.sock = "Connected" /\ PeerEvent(e, k, disconnectFromHost(f), <<>>, <<>>)
  BY DEF RemoteHostClosed
<1>2. p \in Peer
  BY PeersKnown
<1> HIDE DEF p
<1>3. Light(p, f) /\ f.failed = TRUE
  BY <1>2, LightFailed DEF Peer
<1>4. f \in Peer
  BY <1>3 DEF Light
<1> HIDE DEF f
<1>5. Light(p, disconnectFromHost(f)) /\ disconnectFromHost(f).failed = TRUE
  BY <1>3, <1>4, LightHost, LightTrans
<1>6. p.sock # "Unconnected" /\ Blamed(disconnectFromHost(f), state)
  BY <1>1, <1>5 DEF Blamed
<1> QED
  BY <1>1, <1>5, <1>6, LeaveSure DEF p

LEMMA WriteWeight ==
    ASSUME NEW p \in Peer, Dry(p), NEW m \in Message
    PROVE  /\ writeData(p, m) \in Peer /\ Dry(writeData(p, m))
           /\ writeData(p, m).sock = p.sock /\ writeData(p, m).authenticated = p.authenticated
           /\ Weight(writeData(p, m).out) <= Weight(p.out) + Weight(<<m>>)
<1>1. p.out \in Seq(Message)
  BY PeerFields
<1>2. /\ writeData(p, m).authenticated = p.authenticated
      /\ writeData(p, m).out = p.out \/ writeData(p, m).out = Append(p.out, m)
  BY DEF writeData, Peer
<1>3. /\ writeData(p, m) \in Peer /\ Dry(writeData(p, m)) /\ writeData(p, m).sock = p.sock
  BY WriteGrows DEF Grows, Sound
<1>4. /\ Weight(Append(p.out, m)) <= Weight(p.out) + Weight(<<m>>)
      /\ Weight(p.out) \in 0 .. 2 /\ Weight(<<m>>) \in 0 .. 2
  BY <1>1, WeightAppend, WeightRange
<1>5. Weight(writeData(p, m).out) <= Weight(p.out) + Weight(<<m>>)
  <2>1. CASE writeData(p, m).out = p.out
    BY <1>4, <2>1
  <2>2. CASE writeData(p, m).out = Append(p.out, m)
    BY <1>4, <2>2
  <2> QED
    BY <1>2, <2>1, <2>2
<1> QED
  BY <1>2, <1>3, <1>5

\* What a handler may add: the weight n of the message it was given.
Gains(e, p, q, n) == Weight(q.out) + Holds(e, q) + Begins(q)
                       <= Weight(p.out) + Holds(e, p) + Begins(p) + n

LEMMA LightGains ==
    ASSUME NEW e, NEW p, NEW q, Light(p, q), NEW n \in Nat
    PROVE  Gains(e, p, q, n)
<1>1. Weight(q.out) \in 0 .. 2 /\ Weight(p.out) \in 0 .. 2 /\ Weight(q.out) <= Weight(p.out)
  BY WeightRange DEF Light
<1>2. Holds(e, q) = Holds(e, p) /\ Holds(e, p) \in {0, 1}
  BY DEF Light, Holds
<1>3. Begins(q) <= Begins(p) /\ Begins(p) \in {0, 1} /\ Begins(q) \in {0, 1}
  BY DEF Light, Begins, Over
<1> QED
  BY <1>1, <1>2, <1>3 DEF Gains

LEMMA GainsLoad ==
    ASSUME NEW e, NEW p, NEW q, NEW s \in Seq(Packet), s # <<>>, Load(e, p, s) <= 1,
           Gains(e, p, q, Weight(<<Head(s)>>))
    PROVE  Load(e, q, Tail(s)) + Weight(<<>>) <= Load(e, p, s)
<1>1. /\ Weight(s) \in 0 .. 2 /\ Weight(Tail(s)) \in 0 .. 2 /\ Weight(<<Head(s)>>) \in 0 .. 2
      /\ Weight(p.out) \in 0 .. 2 /\ Weight(q.out) \in 0 .. 2 /\ Weight(<<>>) = 0
  BY WeightRange, WeightEmpty
<1>2. /\ Holds(e, p) \in {0, 1} /\ Holds(e, q) \in {0, 1}
      /\ Begins(p) \in {0, 1} /\ Begins(q) \in {0, 1}
  BY DEF Holds, Begins
<1>3. Weight(s) <= 1
  BY <1>1, <1>2 DEF Load
<1>4. Weight(Tail(s)) + Weight(<<Head(s)>>) <= Weight(s)
  BY <1>3, WeightTail
<1> QED
  BY <1>1, <1>2, <1>4 DEF Load, Gains

LEMMA ClientGains ==
    ASSUME NEW p \in Peer, p.sock = "Connected", NEW m \in Message,
           NEW q \in Handled("client", p, m)
    PROVE  /\ q \in Peer /\ (q.sock = "Connected" \/ q.failed = TRUE)
           /\ Gains("client", p, q, Weight(<<m>>))
<1> DEFINE Goal == /\ q \in Peer /\ (q.sock = "Connected" \/ q.failed = TRUE)
                   /\ Gains("client", p, q, Weight(<<m>>))
<1>1. Dry(p)
  BY DEF Dry
<1>2. Weight(<<m>>) \in Nat /\ Weight(<<m>>) = IF m \in Token THEN 1 ELSE 0
  BY WeightRange, WeightOne
<1>3. CASE q = writeError(p)
  <2>1. Light(p, q) /\ q.failed = TRUE
    BY <1>1, <1>3, LightError
  <2> QED
    BY <1>2, <2>1, LightGains DEF Light
<1>4. CASE q = [p EXCEPT !.told = TRUE] /\ m = "error"
  <2>1. q \in Peer /\ q.out = p.out /\ q.authenticated = p.authenticated /\ q.sock = p.sock
    BY <1>4 DEF Peer
  <2>2. Weight(q.out) <= Weight(p.out)
    BY <2>1, WeightRange
  <2>3. Light(p, q)
    BY <2>1, <2>2 DEF Light
  <2> QED
    BY <1>2, <2>1, <2>3, LightGains
<1>5. CASE q = [p EXCEPT !.authenticated = TRUE] /\ m = "valid"
  <2>1. q \in Peer /\ q.out = p.out /\ q.authenticated = TRUE /\ q.sock = p.sock
    BY <1>5 DEF Peer
  <2>2. Weight(<<m>>) = 1 /\ Weight(q.out) = Weight(p.out) /\ Weight(p.out) \in 0 .. 2
    BY <1>2, <1>5, <2>1, WeightRange DEF Token
  <2>3. /\ Holds("client", q) = 1 /\ Holds("client", p) \in {0, 1}
        /\ Begins(q) = 0 /\ Begins(p) = 0
    BY <2>1 DEF Holds, Begins
  <2>4. Gains("client", p, q, Weight(<<m>>))
    BY <2>2, <2>3 DEF Gains
  <2> QED
    BY <2>1, <2>4
<1>6. CASE q = writeData([p EXCEPT !.authResponseSent = TRUE], "response") /\ m = "challenge"
  <2> DEFINE r == [p EXCEPT !.authResponseSent = TRUE]
  <2>1. /\ r \in Peer /\ Dry(r) /\ r.sock = p.sock /\ r.out = p.out
        /\ r.authenticated = p.authenticated
    BY DEF Peer, Dry
  <2> HIDE DEF r
  <2>2. q = writeData(r, "response") /\ "response" \in Message
    BY <1>6 DEF r, Message
  <2>3. /\ q \in Peer /\ q.sock = p.sock /\ q.authenticated = p.authenticated
        /\ Weight(q.out) <= Weight(r.out) + Weight(<<"response">>)
    BY <2>1, <2>2, WriteWeight
  <2>4. /\ Weight(q.out) <= Weight(p.out) + Weight(<<m>>)
        /\ Weight(q.out) \in 0 .. 2 /\ Weight(p.out) \in 0 .. 2 /\ Weight(<<m>>) \in 0 .. 2
    BY <1>6, <2>1, <2>3, WeightOne, WeightRange DEF Token
  <2>5. /\ Holds("client", q) = Holds("client", p) /\ Holds("client", p) \in {0, 1}
        /\ Begins(q) = Begins(p) /\ Begins(p) \in {0, 1}
    BY <2>3 DEF Holds, Begins
  <2>6. Gains("client", p, q, Weight(<<m>>))
    BY <2>4, <2>5 DEF Gains
  <2> QED
    BY <2>3, <2>6
<1>7. CASE q = p
  BY <1>2, <1>7, LightSame, LightGains
<1> HIDE DEF Dry, Goal
<1>8. CASE m \in Restricted /\ ~p.authenticated
  <2>1. q \in {writeError(p)}
    BY <1>8 DEF Handled
  <2> QED
    BY <1>3, <2>1
<1>9. CASE ~(m \in Restricted /\ ~p.authenticated)
  <2>1. q = ClientHandles(p, m)
    BY <1>9 DEF Handled
  <2>2. CASE m = "error"
    BY <1>4, <2>1, <2>2 DEF ClientHandles
  <2>3. CASE m = "challenge"
    BY <1>3, <1>6, <2>1, <2>3 DEF ClientHandles, Challenge
  <2>4. CASE m = "valid"
    BY <1>3, <1>5, <2>1, <2>4 DEF ClientHandles, Confirm
  <2>5. CASE m \in {"alive", "state"}
    BY <1>7, <2>1, <2>5 DEF ClientHandles
  <2>6. CASE m = "response"
    BY <1>3, <2>1, <2>6 DEF ClientHandles
  <2> QED
    BY <2>2, <2>3, <2>4, <2>5, <2>6 DEF Message
<1> QED
  BY <1>8, <1>9

LEMMA ServerGains ==
    ASSUME NEW p \in Peer, p.sock = "Connected", NEW m \in Message,
           NEW q \in Handled("server", p, m)
    PROVE  q \in Peer /\ Gains("server", p, q, Weight(<<m>>))
<1>1. Dry(p)
  BY DEF Dry
<1>2. Weight(<<m>>) \in Nat /\ Weight(<<m>>) = IF m \in Token THEN 1 ELSE 0
  BY WeightRange, WeightOne
<1>3. ASSUME NEW r, Light(p, r)
      PROVE  r \in Peer /\ Gains("server", p, r, Weight(<<m>>))
  BY <1>2, <1>3, LightGains DEF Light
<1>4. Light(p, p) /\ Light(p, writeError(p))
  BY <1>1, LightSame, LightError
<1> DEFINE a == [p EXCEPT !.authenticated = TRUE]
           v == writeData(a, "valid")
<1>5. a \in Peer /\ Dry(a) /\ a.sock = "Connected" /\ a.out = p.out
  BY DEF Peer, Dry
<1> HIDE DEF a
<1>6. "valid" \in Message /\ "state" \in Message /\ "state" \notin Token
  BY DEF Message, Token
<1>7. /\ v \in Peer /\ Dry(v) /\ v.sock = "Connected"
      /\ Weight(v.out) <= Weight(a.out) + Weight(<<"valid">>)
  BY <1>5, <1>6, WriteWeight
<1>8. Weight(v.out) <= Weight(p.out) + 1
  BY <1>5, <1>7, WeightOne DEF Token
<1> HIDE DEF v
<1>9. Light(v, writeData(v, "state")) /\ Light(v, writeError(v))
  BY <1>6, <1>7, LightWrite, LightError
<1>10. ASSUME NEW r, Light(v, r), m = "response"
       PROVE  r \in Peer /\ Gains("server", p, r, Weight(<<m>>))
  <2>1. Weight(<<m>>) = 1
    BY <1>2, <1>10 DEF Token
  <2>2. /\ Weight(r.out) <= Weight(p.out) + 1
        /\ Weight(r.out) \in 0 .. 2 /\ Weight(p.out) \in 0 .. 2
    <3>1. Weight(r.out) <= Weight(v.out) /\ Weight(v.out) \in 0 .. 2
          /\ Weight(r.out) \in 0 .. 2 /\ Weight(p.out) \in 0 .. 2
      BY <1>10, WeightRange DEF Light
    <3> QED
      BY <1>8, <3>1
  <2>3. /\ Holds("server", r) = 0 /\ Holds("server", p) = 0
        /\ Begins(r) = 0 /\ Begins(p) = 0
    BY <1>7, <1>10 DEF Holds, Begins, Light, Over
  <2>4. Gains("server", p, r, Weight(<<m>>))
    BY <2>1, <2>2, <2>3 DEF Gains
  <2> QED
    BY <1>10, <2>4 DEF Light
<1>11. \A r \in Responses(p) : r \in {writeError(p), writeData(v, "state"), writeError(v)}
  <2>1. ConfirmFirst(p) = writeData(v, "state") /\ TooLarge(p) = writeError(v)
    BY DEF ConfirmFirst, TooLarge, v, a
  <2>2. \A r \in Responses(p) : r \in {writeError(p), ConfirmFirst(p), TooLarge(p)}
    BY Zenon DEF Responses
  <2> QED
    BY <2>1, <2>2
<1>12. q \in {p, writeError(p)} \/ (m = "response" /\ q \in Responses(p))
  <2>1. "server" # "client"
    OBVIOUS
  <2>2. q \in {writeError(p)} \/ q \in ServerHandles(p, m)
    BY <2>1, Zenon DEF Handled
  <2>3. \A r \in ServerHandles(p, m) :
          r \in {p, writeError(p)} \/ (m = "response" /\ r \in Responses(p))
    BY DEF ServerHandles
  <2> QED
    BY <2>2, <2>3
<1>13. CASE q \in {p, writeError(p)}
  BY <1>3, <1>4, <1>13
<1>14. CASE m = "response" /\ q \in Responses(p)
  <2>1. q \in {writeError(p), writeData(v, "state"), writeError(v)}
    BY <1>11, <1>14
  <2> QED
    BY <1>3, <1>4, <1>9, <1>10, <1>14, <2>1
<1> QED
  BY <1>12, <1>13, <1>14

LEMMA LoadSmall ==
    ASSUME Once, NEW e \in End, NEW k \in Conns
    PROVE  Load(e, peer[e][k], net[e][k]) <= 1
<1>1. /\ Load("client", peer["client"][k], net["client"][k])
            + Load("server", peer["server"][k], net["server"][k]) <= 1
      /\ Load("client", peer["client"][k], net["client"][k]) \in Nat
      /\ Load("server", peer["server"][k], net["server"][k]) \in Nat
  BY LoadTyped DEF Once
<1> QED
  BY <1>1 DEF End

LEMMA ReceiveMessageSure ==
    ASSUME Inv, Sure, NEW e \in End, NEW k \in Conns, ReceiveMessage(e, k)
    PROVE  Sure'
<1> DEFINE p == peer[e][k]
           s == net[e][k]
           m == Head(s)
           rest == Tail(s)
           now(q) == IF e = "client" THEN clientConnected(q, m) ELSE state
<1>1. PICK q \in Handled(e, p, m) : Becomes(e, k, q, rest, <<>>) /\ Signals(e, q, now(q))
  BY DEF ReceiveMessage
<1>2. p.sock = "Connected" /\ s # <<>> /\ m # "fin"
  BY DEF ReceiveMessage
<1>3. p \in Peer /\ s \in Seq(Packet) /\ <<>> \in Seq(Packet)
  BY PeersKnown
<1>4. Load(e, p, s) <= 1
  BY LoadSmall DEF Sure
<1> HIDE DEF p, s
<1>5. m \in Message /\ rest \in Seq(Packet)
  <2>1. m \in Packet /\ rest \in Seq(Packet)
    BY <1>2, <1>3, HeadTailProperties
  <2> QED
    BY <1>2, <2>1 DEF Packet
<1>6. q \in Peer /\ Gains(e, p, q, Weight(<<m>>))
      /\ (e = "client" => q.sock = "Connected" \/ q.failed = TRUE)
  <2>1. CASE e = "client"
    BY <1>1, <1>2, <1>3, <1>5, <2>1, ClientGains
  <2>2. CASE e = "server"
    BY <1>1, <1>2, <1>3, <1>5, <2>2, ServerGains
  <2> QED
    BY <2>1, <2>2 DEF End
<1>7. Load(e, q, rest) + Weight(<<>>) <= Load(e, p, s)
  BY <1>2, <1>3, <1>4, <1>6, GainsLoad
<1> HIDE DEF m, rest
<1>8. CASE e = "server"
  <2>1. state' = state /\ app' = app
    BY <1>1, <1>8 DEF Signals
  <2> QED
    BY <1>1, <1>3, <1>5, <1>6, <1>7, <1>8, <2>1, ServerSure DEF p, s
<1>9. CASE e = "client"
  <2> DEFINE n == clientConnected(q, m)
  <2>1. Becomes("client", k, q, rest, <<>>) /\ Signals("client", q, n)
    BY <1>1, <1>9
  <2>2. Blamed(q, n)
    BY <1>6, <1>9 DEF Blamed
  <2> HIDE DEF n
  <2>3. peer.client[k].sock # "Unconnected"
    BY <1>2, <1>9 DEF p
  <2> QED
    BY <1>3, <1>5, <1>6, <1>7, <1>9, <2>1, <2>2, <2>3, ClientSure DEF p, s
<1> QED
  BY <1>8, <1>9 DEF End

LEMMA NewConnectionSure ==
    ASSUME Inv, Sure, NEW k \in Conns, handleNewConnection(k)
    PROVE  Sure'
<1> DEFINE n == NewPeer("Connected")
           q == writeData(n, "challenge")
           p == peer["server"][k]
           s == net["server"][k]
<1>1. Becomes("server", k, q, s, <<>>) /\ p.sock = "Backlog" /\ state' = state /\ app' = app
  BY DEF handleNewConnection, PeerEvent, Signals
<1>2. n \in Peer /\ Dry(n) /\ n.sock = "Connected" /\ n.out = <<>>
  BY NewPeerSound DEF Socket, Sound, NewPeer
<1> HIDE DEF n
<1>3. /\ q \in Peer /\ q.sock = "Connected"
      /\ Weight(q.out) <= Weight(n.out) + Weight(<<"challenge">>)
  BY <1>2, WriteWeight DEF Message
<1>4. Weight(q.out) <= 1
  BY <1>2, <1>3, WeightEmpty, WeightOne DEF Token
<1> HIDE DEF q
<1>5. s \in Seq(Packet) /\ <<>> \in Seq(Packet)
  BY PeersKnown DEF End
<1> HIDE DEF p, s
<1>6. Load("server", q, s) + Weight(<<>>) <= Load("server", p, s)
  <2>1. /\ Weight(q.out) \in 0 .. 2 /\ Weight(p.out) \in 0 .. 2 /\ Weight(s) \in 0 .. 2
        /\ Weight(<<>>) = 0
    BY WeightRange, WeightEmpty
  <2>2. Begins(q) = 0 /\ Begins(p) = 1 /\ Holds("server", q) = 0 /\ Holds("server", p) = 0
    BY <1>1, <1>3 DEF Begins, Holds
  <2> QED
    BY <1>4, <2>1, <2>2 DEF Load
<1> QED
  BY <1>1, <1>3, <1>5, <1>6, ServerSure DEF p, s

--------------------------------------------------------------------------------
(* Connections that begin, vanish or are dropped, and the end of the session. *)

\* Both ends of each connection bear no more than they did.
Bears(k) == Load("client", peer'["client"][k], net'["client"][k])
              + Load("server", peer'["server"][k], net'["server"][k]) <= 1

LEMMA BearsAll == (\A k \in Conns : Bears(k)) => Once'
<1> SUFFICES ASSUME \A k \in Conns : Bears(k), NEW k \in Conns
             PROVE  Load("client", peer'["client"][k], net'["client"][k])
                      + Load("server", peer'["server"][k], net'["server"][k]) <= 1
  BY DEF Once, Load, Holds, Begins, Weight, At
<1> QED
  BY DEF Bears

LEMMA BearsSame ==
    ASSUME Once, NEW k \in Conns, peer'["client"][k] = peer["client"][k],
           peer'["server"][k] = peer["server"][k], net'["client"][k] = net["client"][k],
           net'["server"][k] = net["server"][k]
    PROVE  Bears(k)
  BY DEF Once, Bears

LEMMA LoadFew ==
    ASSUME NEW a \in Nat, NEW b \in Nat, NEW c \in Nat, NEW d \in Nat,
           a <= c, b <= d, c + d <= 1
    PROVE  a + b <= 1
  OBVIOUS

LEMMA SocketConnectsSure ==
    ASSUME Inv, Sure, NEW k \in Conns, SocketConnects(k)
    PROVE  Sure'
<1> DEFINE n == NewPeer("Backlog")
           c == [peer["client"] EXCEPT ![k].sock = "Connected"]
           s == [peer["server"] EXCEPT ![k] = n]
           p == peer["client"][k]
<1>1. /\ peer' = [client |-> c, server |-> s] /\ p.sock = "Connecting"
      /\ net' = net /\ state' = state /\ app' = app
  BY DEF SocketConnects, remoteSync
<1>2. n.sock = "Backlog" /\ n.out = <<>>
  BY DEF NewPeer
<1> HIDE DEF n
<1>3. peer["client"] \in [Conns -> Peer] /\ peer["server"] \in [Conns -> Peer]
  BY DEF Inv, TypeOK, End
<1>4. /\ \A l \in Conns : l # k => c[l] = peer["client"][l] /\ s[l] = peer["server"][l]
      /\ s[k] = n
  BY <1>3
<1>5. c[k].sock = "Connected" /\ c[k].authenticated = p.authenticated /\ c[k].out = p.out
  BY <1>3 DEF Peer
<1> HIDE DEF c, s
<1>6. peer'["client"] = c /\ peer'["server"] = s
  BY <1>1
<1>7. /\ client = k /\ app = "running"
      /\ \A l \in Conns : l # k => peer["client"][l].sock = "Unconnected"
  BY <1>1, OthersDead
<1>8. Failing' /\ CrashNeedsFailure'
  <2>1. app' # "crashed"
    BY <1>1, <1>7
  <2>2. \A l \in Conns : peer'["client"][l].sock \in {"Unconnected", "Connected"}
    BY <1>4, <1>5, <1>6, <1>7
  <2> QED
    BY <2>1, <2>2 DEF Failing, Blamed, CrashNeedsFailure
<1>9. ASSUME NEW l \in Conns PROVE Bears(l)
  <2>1. CASE l # k
    BY <1>1, <1>4, <1>6, <2>1, BearsSame DEF Sure
  <2>2. CASE l = k
    <3> DEFINE nc == net["client"][k]
               ns == net["server"][k]
               o == peer["server"][k]
    <3>1. /\ Load("client", p, nc) + Load("server", o, ns) <= 1
          /\ Load("client", p, nc) \in Nat /\ Load("server", o, ns) \in Nat
      BY LoadTyped DEF Sure, Once
    <3> HIDE DEF nc, ns, p, o
    <3>2. /\ Weight(nc) \in 0 .. 2 /\ Weight(ns) \in 0 .. 2 /\ Weight(p.out) \in 0 .. 2
          /\ Weight(o.out) \in 0 .. 2 /\ Weight(n.out) = 0
      BY <1>2, WeightRange, WeightEmpty
    <3>3. /\ Begins(c[k]) = 0 /\ Begins(p) = 1 /\ Begins(n) = 1 /\ Begins(o) \in {0, 1}
          /\ Holds("server", n) = 0 /\ Holds("server", o) = 0
          /\ Holds("client", c[k]) = Holds("client", p) /\ Holds("client", p) \in {0, 1}
      BY <1>1, <1>2, <1>5 DEF Begins, Holds
    <3>4. Load("client", c[k], nc) + Load("server", n, ns) <= 1
      BY <1>5, <3>1, <3>2, <3>3 DEF Load
    <3>5. /\ peer'["client"][k] = c[k] /\ peer'["server"][k] = n
          /\ net'["client"][k] = nc /\ net'["server"][k] = ns
      BY <1>1, <1>4, <1>6 DEF nc, ns
    <3> QED
      BY <2>2, <3>4, <3>5 DEF Bears
  <2> QED
    BY <2>1, <2>2
<1> QED
  BY <1>8, <1>9, BearsAll DEF Sure

\* Messages that vanish, and peers of the server that are reset.
LEMMA LossSure ==
    ASSUME Sure, state' = state, app' = app,
           \A l \in Conns :
             /\ peer'["client"][l] = peer["client"][l]
             /\ \A e \in End : Weight(net'[e][l]) <= Weight(net[e][l])
             /\ \/ peer'["server"][l] = peer["server"][l]
                \/ peer'["server"][l].sock = "Unconnected" /\ peer'["server"][l].out = <<>>
    PROVE  Sure'
<1>1. Failing' /\ CrashNeedsFailure'
  BY DEF Sure, Failing, Blamed, CrashNeedsFailure
<1>2. ASSUME NEW l \in Conns PROVE Bears(l)
  <2>1. PICK c, s, d, nc, ns, mc, ms :
          /\ c = peer["client"][l] /\ s = peer["server"][l] /\ d = peer'["server"][l]
          /\ nc = net["client"][l] /\ ns = net["server"][l]
          /\ mc = net'["client"][l] /\ ms = net'["server"][l]
    OBVIOUS
  <2>2. /\ peer'["client"][l] = c /\ Weight(mc) <= Weight(nc) /\ Weight(ms) <= Weight(ns)
        /\ d = s \/ (d.sock = "Unconnected" /\ d.out = <<>>)
    BY <2>1 DEF End
  <2>3. Load("client", c, nc) + Load("server", s, ns) <= 1
    BY <2>1 DEF Sure, Once
  <2>4. /\ Weight(mc) \in 0 .. 2 /\ Weight(ms) \in 0 .. 2 /\ Weight(nc) \in 0 .. 2
        /\ Weight(ns) \in 0 .. 2 /\ Weight(c.out) \in 0 .. 2 /\ Weight(s.out) \in 0 .. 2
        /\ Weight(<<>>) = 0
    BY WeightRange, WeightEmpty
  <2>5. /\ Begins(c) \in {0, 1} /\ Begins(s) \in {0, 1} /\ Holds("client", c) \in {0, 1}
        /\ Holds("server", s) = 0 /\ Holds("server", d) = 0
        /\ d.sock = "Unconnected" => Begins(d) = 0
    BY DEF Begins, Holds
  <2>6. Load("client", c, mc) + Load("server", d, ms) <= 1
    <3>1. CASE d = s
      BY <2>2, <2>3, <2>4, <2>5, <3>1 DEF Load
    <3>2. CASE d.sock = "Unconnected" /\ d.out = <<>>
      BY <2>2, <2>3, <2>4, <2>5, <3>2 DEF Load
    <3> QED
      BY <2>2, <3>1, <3>2
  <2> QED
    BY <2>1, <2>2, <2>6 DEF Bears
<1> QED
  BY <1>1, <1>2, BearsAll DEF Sure

LEMMA CutSure ==
    ASSUME Inv, Sure, NEW k \in Conns, Cut(k)
    PROVE  Sure'
<1>1. /\ net' = [e \in End |-> [net[e] EXCEPT ![k] = <<>>]] /\ peer' = peer
      /\ state' = state /\ app' = app
  BY DEF Cut, remoteSync
<1>2. net \in [End -> [Conns -> Seq(Packet)]]
  BY DEF Inv, TypeOK
<1>3. \A e \in End, l \in Conns : net'[e][l] = IF l = k THEN <<>> ELSE net[e][l]
  BY <1>1, <1>2
<1>4. \A l \in Conns, e \in End : Weight(net'[e][l]) <= Weight(net[e][l])
  <2> TAKE l \in Conns, e \in End
  <2>1. Weight(net[e][l]) \in 0 .. 2 /\ Weight(<<>>) = 0
    BY WeightRange, WeightEmpty
  <2>2. CASE l = k
    BY <1>3, <2>1, <2>2
  <2>3. CASE l # k
    BY <1>3, <2>1, <2>3
  <2> QED
    BY <2>2, <2>3
<1> QED
  BY <1>1, <1>4, LossSure

LEMMA StopServerSure ==
    ASSUME Inv, Sure, stopServer
    PROVE  Sure'
<1> DEFINE x(l) == [peer["server"][l] EXCEPT !.expectDisconnect = TRUE]
           s == [l \in Conns |-> Reset(x(l))]
           c == [l \in Conns |->
                  IF \/ l \in cut \/ peer["server"][l].sock = "Unconnected"
                     \/ peer["client"][l].sock = "Unconnected"
                    THEN net["client"][l] ELSE Append(net["client"][l], "fin")]
           none == [l \in Conns |-> <<>>]
<1>1. state' = state /\ app' = app
  BY DEF stopServer, remoteSync
<1>2. net' = [client |-> c, server |-> none]
  BY DEF stopServer
<1>3. peer' = [peer EXCEPT !["server"] = s]
  BY DEF stopServer
<1>4. \A l \in Conns : Reset(x(l)).sock = "Unconnected" /\ Reset(x(l)).out = <<>>
  <2> TAKE l \in Conns
  <2>1. peer["server"][l] \in Peer /\ Dry(peer["server"][l])
    BY PeersKnown DEF End
  <2>2. x(l) \in Peer
    BY <2>1, FailedGrows DEF Grows, Sound
  <2> HIDE DEF x
  <2> QED
    BY <2>2 DEF Reset, Peer
<1>5. \A l \in Conns : s[l].sock = "Unconnected" /\ s[l].out = <<>>
  <2> HIDE DEF x
  <2> QED
    BY <1>4
<1> HIDE DEF s
<1>6. peer'["client"] = peer["client"] /\ peer'["server"] = s
  BY <1>3 DEF Inv, TypeOK, End
<1>7. \A l \in Conns : Weight(c[l]) <= Weight(net["client"][l]) /\ Weight(none[l]) = 0
  <2> TAKE l \in Conns
  <2> DEFINE t == net["client"][l]
  <2>1. t \in Seq(Packet) /\ "fin" \in Packet
    BY PeersKnown DEF End, Packet
  <2>2. c[l] \in {t, Append(t, "fin")} /\ none[l] = <<>>
    OBVIOUS
  <2> HIDE DEF t, c, none
  <2>3. Weight(Append(t, "fin")) <= Weight(t) + Weight(<<"fin">>)
    BY <2>1, WeightAppend
  <2>4. /\ Weight(t) \in 0 .. 2 /\ Weight(Append(t, "fin")) \in 0 .. 2
        /\ Weight(<<"fin">>) = 0 /\ Weight(<<>>) = 0
    BY WeightRange, WeightEmpty
  <2>5. CASE c[l] = t
    BY <2>2, <2>4, <2>5 DEF t
  <2>6. CASE c[l] = Append(t, "fin")
    BY <2>2, <2>3, <2>4, <2>6 DEF t
  <2> QED
    BY <2>2, <2>5, <2>6
<1> HIDE DEF c, none
<1>8. net'["client"] = c /\ net'["server"] = none
  BY <1>2
<1>9. \A l \in Conns, e \in End : Weight(net'[e][l]) <= Weight(net[e][l])
  <2> TAKE l \in Conns, e \in End
  <2>1. Weight(net[e][l]) \in 0 .. 2
    BY WeightRange
  <2>2. CASE e = "client"
    BY <1>7, <1>8, <2>2
  <2>3. CASE e = "server"
    BY <1>7, <1>8, <2>1, <2>3
  <2> QED
    BY <2>2, <2>3 DEF End
<1> QED
  BY <1>1, <1>5, <1>6, <1>9, LossSure

LEMMA ConnectSure ==
    ASSUME Inv, Sure, NEW k \in Conns, app = "running", MayConnect, connectToServer(k)
    PROVE  Sure'
<1> DEFINE n(e) == NewPeer(IF e = "client" THEN "Connecting" ELSE "Unconnected")
<1>1. /\ net' = [e \in End |-> [net[e] EXCEPT ![k] = <<>>]] /\ app' = app
      /\ peer' = [e \in End |-> [peer[e] EXCEPT ![k] = n(e)]]
  BY DEF connectToServer
<1>2. /\ n("client").authenticated = FALSE /\ n("client").sock = "Connecting"
      /\ n("client").out = <<>>
      /\ n("server").sock = "Unconnected" /\ n("server").out = <<>>
  BY DEF NewPeer
<1> HIDE DEF n
<1>3. /\ "client" \in End /\ "server" \in End /\ net \in [End -> [Conns -> Seq(Packet)]]
      /\ peer \in [End -> [Conns -> Peer]]
  BY DEF Inv, TypeOK, End
<1>4. \A e \in End, l \in Conns : /\ net'[e][l] = IF l = k THEN <<>> ELSE net[e][l]
                                  /\ peer'[e][l] = IF l = k THEN n(e) ELSE peer[e][l]
  BY <1>1, <1>3
<1>5. \A l \in Conns : peer["client"][l].sock = "Unconnected"
  <2>1. client = None
    BY DEF Inv, ClientPointer, MayConnect
  <2> QED
    BY <2>1, Settings DEF Inv, ClientPointer
<1>6. Failing' /\ CrashNeedsFailure'
  BY <1>1, <1>2, <1>3, <1>4, <1>5 DEF Failing, Blamed, CrashNeedsFailure
<1>7. ASSUME NEW l \in Conns PROVE Bears(l)
  <2>1. CASE l # k
    BY <1>3, <1>4, <2>1, BearsSame DEF Sure
  <2>2. CASE l = k
    <3>1. Weight(<<>>) = 0
      BY WeightEmpty
    <3>2. /\ Begins(n("client")) = 1 /\ Begins(n("server")) = 0
          /\ Holds("client", n("client")) = 0 /\ Holds("server", n("server")) = 0
      BY <1>2 DEF Begins, Holds
    <3>3. Load("client", n("client"), <<>>) + Load("server", n("server"), <<>>) <= 1
      BY <1>2, <3>1, <3>2 DEF Load
    <3> QED
      BY <1>3, <1>4, <2>2, <3>3 DEF Bears
  <2> QED
    BY <2>1, <2>2
<1> QED
  BY <1>6, <1>7, BearsAll DEF Sure

\* A socket that has failed and was given up is aborted.
LEMMA AbortSure ==
    ASSUME Inv, Sure, NEW k \in Conns, peer.client[k].sock # "Unconnected",
           NEW q \in Peer, q.sock = "Unconnected", q.failed = TRUE, q.expectDisconnect = TRUE,
           NEW rest \in Seq(Packet), NEW sent \in Seq(Packet),
           Becomes("client", k, q, rest, sent),
           Load("client", q, rest) + Weight(sent) <= Load("client", peer.client[k], net.client[k])
    PROVE  Sure'
<1>1. TypeOK /\ "client" \in End
  BY DEF Inv, End
<1>2. Once'
  BY <1>1, OnceEvent DEF Sure
<1>3. \A l \in Conns : peer'["client"][l] = IF l = k THEN q ELSE peer["client"][l]
  BY <1>1, BecomesTyped
<1>4. \A l \in Conns : peer'["client"][l].sock = "Unconnected"
  BY <1>3, OthersDead
<1>5. peer'["client"][k].failed = TRUE /\ peer'["client"][k].expectDisconnect = TRUE
  BY <1>3
<1> QED
  BY <1>2, <1>4, <1>5 DEF Sure, Failing, Blamed, CrashNeedsFailure

\* The client's socket is neither connecting nor waiting to be accepted once it
\* is confirmed: the one that disconnectPeer aborts has failed.
LEMMA DisconnectSure ==
    ASSUME Inv, Trusted, Sure, DisconnectClient, cut' = cut
    PROVE  Sure'
<1> DEFINE k == client
           c == peer["client"][k]
           p == [c EXCEPT !.expectDisconnect = TRUE]
           q == IF p.sock = "Connected" THEN disconnectFromHost(p) ELSE Reset(p)
           s == net["client"][k]
<1>1. /\ state = "CLIENT" /\ Becomes("client", k, q, s, <<>>)
      /\ p.sock = "Connected" => Signals("client", q, "CLIENT_CLOSING")
      /\ p.sock # "Connected" => app' = "crashed"
  BY DEF DisconnectClient, ClosesFirst
<1>2. k \in Conns /\ c.sock # "Unconnected" /\ c.authenticated = TRUE
  BY <1>1, Settings DEF Inv, TypeOK, ClientPointer, Confirmation
<1>3. c \in Peer /\ "client" \in End /\ s \in Seq(Packet) /\ <<>> \in Seq(Packet)
  BY <1>2, PeersKnown DEF End
<1>4. c.sock # "Connecting"
  BY <1>2 DEF Trusted, Joining
<1>5. Blamed(c, state)
  BY <1>2 DEF Sure, Failing
<1> HIDE DEF c, k
<1>6. /\ p.sock = c.sock /\ p.failed = c.failed /\ p.expectDisconnect = TRUE /\ Light(c, p)
  BY <1>3, LightFailed DEF Peer
<1>7. p \in Peer
  BY <1>6 DEF Light
<1> HIDE DEF p
<1>8. /\ Light(p, q) /\ (p.sock # "Connected" => q.sock = "Unconnected")
      /\ p.sock # "Connected" => q.failed = p.failed /\ q.expectDisconnect = TRUE
  BY <1>6, <1>7, LightReset, LightHost DEF Reset, Peer
<1> HIDE DEF q
<1>9. Light(c, q) /\ q \in Peer
  BY <1>6, <1>8, LightTrans DEF Light
<1>10. Load("client", q, s) + Weight(<<>>) <= Load("client", c, s)
  BY <1>9, LightSum, LightLoad
<1>11. CASE p.sock = "Connected"
  <2>1. Blamed(q, "CLIENT_CLOSING")
    BY DEF Blamed
  <2> QED
    BY <1>1, <1>2, <1>3, <1>9, <1>10, <1>11, <2>1, ClientSure DEF c, s
<1>12. CASE p.sock # "Connected"
  <2>1. q.failed = TRUE /\ q.expectDisconnect = TRUE /\ q.sock = "Unconnected"
    BY <1>1, <1>2, <1>4, <1>5, <1>6, <1>8, <1>12 DEF Blamed
  <2> QED
    BY <1>1, <1>2, <1>3, <1>9, <1>10, <2>1, AbortSure DEF c, s
<1> QED
  BY <1>11, <1>12

\* The client instance is told nothing, and its peers stay as they are.
LEMMA SameSure ==
    ASSUME Inv, Sure, peer' = peer, net' = net, app' = app,
           state = state' \/ (state = "CLIENT_WAIT_RECONNECT" /\ state' = "IDLE")
    PROVE  Sure'
<1>1. \A l \in Conns : Bears(l)
  BY BearsSame DEF Sure
<1>2. Failing'
  BY DEF Sure, Failing, Blamed
<1>3. CrashNeedsFailure'
  BY DEF Sure, CrashNeedsFailure
<1> QED
  BY <1>1, <1>2, <1>3, BearsAll DEF Sure

LEMMA StepSure ==
    ASSUME Inv, Trusted, Sure, [Next]_vars
    PROVE  Sure'
<1>1. ASSUME peer' = peer, net' = net, app' = app, state' = state
      PROVE  Sure'
  BY <1>1, SameSure
<1>2. CASE UNCHANGED vars
  BY <1>1, <1>2 DEF vars, remoteSync
<1>3. CASE User
  <2>1. CASE \E k \in Conns : UserConnect(k)
    BY <2>1, ConnectSure DEF UserConnect
  <2>2. CASE UserDisconnect
    <3>1. cut' = cut
      BY <2>2 DEF UserDisconnect
    <3>2. CASE DisconnectClient
      BY <3>1, <3>2, DisconnectSure
    <3>3. CASE CancelReconnect
      BY <3>3, SameSure DEF CancelReconnect
    <3>4. CASE InvalidDisconnect
      BY <1>1, <3>4 DEF InvalidDisconnect, remoteSync
    <3> QED
      BY <2>2, <3>2, <3>3, <3>4 DEF UserDisconnect
  <2> QED
    BY <1>3, <2>1, <2>2 DEF User
<1>4. CASE Timers
  <2>1. CASE \E k \in Conns : TimerFires(k)
    BY <2>1, ConnectSure DEF TimerFires
  <2>2. CASE TimerIgnored
    BY <1>1, <2>2 DEF TimerIgnored
  <2> QED
    BY <1>4, <2>1, <2>2 DEF Timers
<1>5. CASE Server
  <2>1. CASE startServer
    BY <1>1, <2>1 DEF startServer, remoteSync
  <2>2. ASSUME NEW k \in Conns, Broadcast(k)
        PROVE  Sure'
    <3>1. /\ peer["server"][k].sock = "Connected" /\ "server" \in End
          /\ PeerEvent("server", k, writeData(peer["server"][k], "state"), net["server"][k], <<>>)
      BY <2>2 DEF Broadcast, End
    <3>2. "state" \in Message /\ "state" \notin Token
      BY DEF Message, Token
    <3> QED
      BY <3>1, <3>2, WriteSure
  <2> QED
    BY <1>5, <2>1, <2>2, StopServerSure DEF Server
<1>6. ASSUME NEW k \in Conns, Connection(k)
      PROVE  Sure'
  <2>1. ASSUME NEW e \in End, EndStep(e, k)
        PROVE  Sure'
    <3>1. CASE Alive(e, k)
      <4>1. /\ peer[e][k].sock = "Connected"
            /\ PeerEvent(e, k, writeData(peer[e][k], "alive"), net[e][k], <<>>)
        BY <3>1 DEF Alive
      <4>2. "alive" \in Message /\ "alive" \notin Token
        BY DEF Message, Token
      <4> QED
        BY <4>1, <4>2, WriteSure
    <3> QED
      BY <2>1, <3>1, FlushSure, NetErrorSure, TimeoutSure, ReceiveMessageSure,
         RemoteHostClosedSure DEF EndStep
  <2> QED
    BY <1>6, <2>1, SocketConnectsSure, SocketFailsSure, CutSure, NewConnectionSure
    DEF Connection
<1> QED
  BY <1>2, <1>3, <1>4, <1>5, <1>6 DEF Next

LEMMA SureHolds == Spec => []Sure
<1>1. Init => Sure
  <2> SUFFICES ASSUME Init PROVE Sure
    OBVIOUS
  <2> DEFINE n == NewPeer("Unconnected")
  <2>1. \A k \in Conns : /\ peer["client"][k] = n /\ peer["server"][k] = n
                         /\ net["client"][k] = <<>> /\ net["server"][k] = <<>>
    BY DEF Init, End
  <2>2. n.sock = "Unconnected" /\ n.out = <<>> /\ n.authenticated = FALSE
    BY DEF NewPeer
  <2> HIDE DEF n
  <2>3. Load("client", n, <<>>) + Load("server", n, <<>>) <= 1
    BY <2>2, WeightEmpty DEF Load, Begins, Holds
  <2>4. Once
    BY <2>1, <2>3 DEF Once
  <2>5. Failing /\ CrashNeedsFailure
    BY <2>1, <2>2 DEF Init, Failing, Blamed, CrashNeedsFailure
  <2> QED
    BY <2>4, <2>5 DEF Sure
<1>2. Inv /\ Trusted /\ Sure /\ [Next]_vars => Sure'
  BY StepSure
<1> QED
  BY InvHolds, TrustHolds, <1>1, <1>2, PTL DEF Spec

\* What the slots of RemoteSync rely on: the client pointer is set exactly in the
\* states whose slots dereference it and names the one socket that lives, an
\* instance that waits to reconnect has its timer running, and the one event that
\* reads through the pointer after resetting it, the second `disconnected` of
\* SyncRemotePeer::disconnectPeer, takes a connection that had failed before the
\* user gave it up.
THEOREM SessionCorrect == Spec => []SessionInv
<1>1. Inv /\ Sure => SessionInv
  BY DEF Inv, Sure, SessionInv
<1> QED
  BY InvHolds, SureHolds, <1>1, PTL

\* The assertion of RemoteSync::clientConnected holds whenever it is evaluated,
\* at a repeated confirmation too: there is none, a server confirms only what it
\* is asked and each welcome leads to one confirmation, however the messages, the
\* timeouts and the user's calls interleave.
THEOREM ConfirmedOnlyWhileConnecting == Spec => []ConnectedWhileConnecting
<1>1. Inv /\ Sure => ConnectedWhileConnecting
  <2> SUFFICES ASSUME Inv, Sure, NEW k \in Conns, Accepts(peer.client[k], net.client[k])
               PROVE  state = "CLIENT_CONNECTING" /\ client = k
    BY DEF ConnectedWhileConnecting
  <2> DEFINE p == peer["client"][k]
             s == net["client"][k]
  <2>1. p.sock = "Connected" /\ s # <<>> /\ Head(s) = "valid" /\ s \in Seq(Packet)
    BY PeersKnown DEF Accepts, End
  <2>2. client = k /\ state \in {"CLIENT_CONNECTING", "CLIENT", "CLIENT_CLOSING"}
    <3>1. client = k
      BY <2>1, OthersDead
    <3> QED
      BY <3>1, Settings DEF Inv, ClientPointer
  <2>3. state # "CLIENT_CONNECTING" => p.authenticated = TRUE
    BY <2>2 DEF Inv, Confirmation
  <2>4. Load("client", p, s) <= 1
    BY LoadSmall DEF Sure, End
  <2> HIDE DEF p, s
  <2>5. Weight(s) # 0
    <3>1. 1 \in At(s)
      <4>1. DOMAIN s = 1 .. Len(s) /\ Len(s) \in Nat /\ Len(s) # 0 /\ s[1] = "valid"
        BY <2>1, HeadTailProperties, LenProperties
      <4> QED
        BY <4>1 DEF At, Token
    <3> QED
      BY <3>1 DEF Weight
  <2>6. /\ Weight(s) \in 0 .. 2 /\ Weight(p.out) \in 0 .. 2
        /\ Begins(p) \in {0, 1} /\ (p.authenticated = TRUE => Holds("client", p) = 1)
    BY WeightRange DEF Begins, Holds
  <2>7. p.authenticated # TRUE
    <3> SUFFICES ASSUME p.authenticated = TRUE PROVE FALSE
      OBVIOUS
    <3>1. Holds("client", p) = 1
      BY <2>6
    <3> QED
      BY <2>4, <2>5, <2>6, <3>1 DEF Load
  <2> QED
    BY <2>2, <2>3, <2>7
<1> QED
  BY InvHolds, SureHolds, <1>1, PTL
================================================================================
