---------------------------- MODULE SyncServer_proofs ----------------------------
(*****************************************************************************)
(* Proofs about SyncServer: its list holds exactly the connected peers, no   *)
(* loop follows a pointer to freed memory, and serverStopped is emitted once,*)
(* for any number of peers, of clients and of event senders.                 *)
(*****************************************************************************)
EXTENDS SyncServer, TLAPS

\* What the list, the peers and the server's own flags have to be.
PeersOK ==
    /\ state \in {"IDLE", "SERVER"} /\ listening \in BOOLEAN
    /\ stopping \in BOOLEAN /\ stops \in 0..2 /\ sendersAlive \in BOOLEAN
    /\ mem \in [Slots -> Peers \union {None}] /\ size \in 0..Capacity
    /\ sock \in [Peers -> {"Unconnected", "Connected", "Closing"}]
    /\ unsent \subseteq Peers /\ silent \subseteq Peers
    /\ heap \in [Peers -> {"freed", "live", "deleteLater"}]
    /\ ListIsConnected
ControlOK ==
    /\ loop \in {"idle", "timeouts", "stop", "update", "crashed"}
    /\ next \in 0..(Capacity + 1) /\ last \in 0..Capacity
    /\ caller \in {"none", "stopServer", "broadcast"} /\ update \in 0..(Senders + 1)
    /\ checked \in [Peers -> Nat] /\ due \in [Peers -> 0..Capacity]

\* What checkTimeouts still reaches, with the iterators it has kept.
Reached == {mem[i] : i \in 1..last}
ReachIsSafe ==
    loop = "timeouts" =>
        /\ size <= last /\ next \in 1..(last + 1)
        /\ \A p \in Reached : p \in Peers /\ heap[p] # "freed"

\* The signal is emitted while the server is stopping, and it stops once.
StopIsOne ==
    /\ stops <= 1 /\ (stops = 1 => listening = FALSE /\ size = 0)
    /\ stopping = TRUE => loop = "stop" /\ stops = 0
    /\ loop = "stop" => listening = FALSE
    /\ sendersAlive = listening

\* No event is handled inside of update.
UpdateIsInside == loop \in {"idle", "timeouts"} => update = 0

\* When no message is too large, stopServer is the only caller of stop.
OnlyUserStops ==
    ~Oversize =>
        /\ loop # "crashed"
        /\ loop = "stop" => update = 0 /\ caller = "stopServer"
        /\ loop # "stop" => (state = "SERVER" <=> listening = TRUE)
        /\ loop = "update" /\ update <= Senders => sendersAlive = TRUE

Inv == /\ PeersOK /\ ControlOK /\ ReachIsSafe /\ StopIsOne /\ UpdateIsInside
       /\ OnlyUserStops

LEMMA ConstantFacts == /\ Capacity \in Nat /\ Senders \in Nat /\ Senders # 0
                       /\ None \notin Peers /\ Oversize \in BOOLEAN
  BY ServerAssumption

LEMMA InvServer == Inv => ServerInv
<1> SUFFICES ASSUME Inv PROVE ServerInv
  OBVIOUS
<1>1. TypeOK
  BY DEF Inv, PeersOK, ControlOK, TypeOK
<1>2. ~Oversize => ServerListens
  BY DEF Inv, OnlyUserStops, ServerListens, PeersOK
<1> QED
  BY <1>1, <1>2 DEF Inv, PeersOK, ServerInv

LEMMA InvStopped == Inv => StoppedOnce
  BY DEF Inv, StopIsOne, StoppedOnce, PeersOK

--------------------------------------------------------------------------------
(* The list.                                                                  *)

LEMMA PlaceIn ==
    ASSUME PeersOK, NEW p
    PROVE  /\ p \in Clients => Place(p) \in 1..size /\ mem[Place(p)] = p
           /\ Place(p) \in 0..Capacity
<1>1. CASE p \in Clients
  <2>1. \E i \in 1..size : mem[i] = p
    BY <1>1 DEF Clients
  <2>2. Place(p) \in 1..size /\ mem[Place(p)] = p
    BY <1>1, <2>1 DEF Place
  <2> QED
    BY <2>2, ConstantFacts DEF PeersOK
<1>2. CASE p \notin Clients
  BY <1>2, ConstantFacts DEF Place
<1> QED
  BY <1>1, <1>2

\* A client is a peer, connected and alive.
LEMMA ClientsArePeers ==
    ASSUME PeersOK
    PROVE  /\ \A p \in Clients : p \in Peers /\ sock[p] # "Unconnected" /\ heap[p] = "live"
           /\ \A p \in Peers : sock[p] # "Unconnected" <=> p \in Clients
           /\ \A p \in Peers : heap[p] = "live" <=> p \in Clients
           /\ \A i \in 1..size : i \in Slots /\ mem[i] \in Clients
  BY ConstantFacts DEF PeersOK, ListIsConnected, Clients, Slots

\* removeAll takes one peer out of the list and keeps all others, once each; the
\* array holds nothing but what it held within the list.
LEMMA Removed ==
    ASSUME PeersOK, NEW p, removeAll(p)
    PROVE  /\ mem' \in [Slots -> Peers \union {None}] /\ size' \in 0..Capacity
           /\ size' <= size
           /\ Clients' = Clients \ {p}
           /\ \A i, j \in 1..size' : mem'[i] = mem'[j] => i = j
           /\ \A i \in Slots : mem'[i] = mem[i] \/ mem'[i] \in Clients
           /\ p \notin Clients => UNCHANGED list
<1>0. size \in Nat /\ size <= Capacity /\ mem \in [Slots -> Peers \union {None}]
      /\ \A i, j \in 1..size : mem[i] = mem[j] => i = j
  BY ConstantFacts DEF PeersOK, ListIsConnected
<1>1. CASE p \notin Clients
  <2>1. mem' = mem /\ size' = size
    BY <1>1 DEF removeAll, list
  <2>2. Clients' = Clients
    BY <2>1 DEF Clients
  <2> QED
    BY <1>0, <1>1, <2>1, <2>2, ConstantFacts DEF list
<1>2. CASE p \in Clients
  <2> DEFINE at == Place(p)
  <2>1. at \in 1..size /\ mem[at] = p
    BY <1>2, PlaceIn
  <2>2. /\ mem' = [i \in Slots |-> IF i \in at..(size - 1) THEN mem[i + 1] ELSE mem[i]]
        /\ size' = size - 1
    BY <1>2 DEF removeAll
  <2> HIDE DEF at
  <2>3. \A i \in Slots : i \in 1..Capacity /\ mem[i] \in Peers \union {None}
    BY <1>0 DEF Slots
  <2>4. \A i \in Slots : i \in at..(size - 1) => i + 1 \in 1..size /\ i + 1 \in Slots
    BY <1>0, <2>1, ConstantFacts DEF Slots
  <2>5. mem' \in [Slots -> Peers \union {None}]
    BY <2>2, <2>3, <2>4
  <2>6. size' \in 0..Capacity /\ size' <= size
    BY <1>0, <2>1, <2>2, ConstantFacts
  <2>7. \A i \in 1..(size - 1) : i \in Slots /\ i \in 1..size /\ i + 1 \in 1..size
    BY <1>0, <2>1, ConstantFacts DEF Slots
  <2>8. \A i \in 1..(size - 1) : mem'[i] = IF i < at THEN mem[i] ELSE mem[i + 1]
    BY <1>0, <2>1, <2>2, <2>7
  <2>9. \A i, j \in 1..size' : mem'[i] = mem'[j] => i = j
    <3> SUFFICES ASSUME NEW i \in 1..(size - 1), NEW j \in 1..(size - 1), mem'[i] = mem'[j]
                 PROVE  i = j
      BY <2>2
    <3> DEFINE f(n) == IF n < at THEN n ELSE n + 1
    <3>1. f(i) \in 1..size /\ f(j) \in 1..size /\ mem'[i] = mem[f(i)] /\ mem'[j] = mem[f(j)]
      BY <1>0, <2>1, <2>7, <2>8
    <3>2. f(i) = f(j)
      BY <1>0, <3>1
    <3> QED
      BY <1>0, <2>1, <3>2
  <2>10. Clients' \subseteq Clients \ {p}
    <3> SUFFICES ASSUME NEW i \in 1..(size - 1) PROVE mem'[i] \in Clients \ {p}
      BY <2>2 DEF Clients
    <3>1. CASE i < at
      BY <1>0, <2>1, <2>7, <2>8, <3>1 DEF Clients
    <3>2. CASE ~(i < at)
      <4>1. mem'[i] = mem[i + 1] /\ i + 1 \in 1..size /\ i + 1 # at
        BY <1>0, <2>1, <2>7, <2>8, <3>2
      <4> QED
        BY <1>0, <2>1, <4>1 DEF Clients
    <3> QED
      BY <3>1, <3>2
  <2>11. Clients \ {p} \subseteq Clients'
    <3> SUFFICES ASSUME NEW i \in 1..size, mem[i] # p PROVE mem[i] \in Clients'
      BY DEF Clients
    <3>1. CASE i < at
      <4>1. i \in 1..(size - 1) /\ mem'[i] = mem[i]
        BY <1>0, <2>1, <2>8, <3>1
      <4>2. i \in 1..size' /\ mem[i] = mem'[i]
        BY <2>2, <4>1
      <4> QED
        BY <4>2 DEF Clients
    <3>2. CASE ~(i < at)
      <4>1. i - 1 \in 1..(size - 1) /\ (i - 1) + 1 = i /\ ~(i - 1 < at)
        BY <1>0, <2>1, <3>2
      <4>2. i - 1 \in 1..size' /\ mem'[i - 1] = mem[i]
        BY <2>2, <2>8, <4>1
      <4> QED
        BY <4>2 DEF Clients
    <3> QED
      BY <3>1, <3>2
  <2>12. \A i \in Slots : mem'[i] = mem[i] \/ mem'[i] \in Clients
    BY <2>2, <2>4 DEF Clients
  <2> QED
    BY <1>2, <2>5, <2>6, <2>9, <2>10, <2>11, <2>12
<1> QED
  BY <1>1, <1>2

--------------------------------------------------------------------------------
(* The peers: what the slots that are called in a loop, or by an event, keep. *)

Keeps ==
    /\ PeersOK'
    /\ size' <= size
    /\ \A i \in Slots : mem'[i] = mem[i] \/ mem'[i] \in Clients
    /\ \A p \in Peers : heap[p] # "freed" => heap'[p] # "freed"
    /\ state' = state /\ listening' = listening /\ sendersAlive' = sendersAlive
    /\ \/ stopping' = stopping /\ stops' = stops
       \/ /\ stopping = TRUE /\ size' = 0 /\ stopping' = FALSE
          /\ stops' = IF stops < 2 THEN stops + 1 ELSE 2

LEMMA CheckStop ==
    ASSUME PeersOK, checkStopState
    PROVE  /\ stopping' \in BOOLEAN /\ stops' \in 0..2
           /\ \/ stopping' = stopping /\ stops' = stops
              \/ /\ stopping = TRUE /\ size' = 0 /\ stopping' = FALSE
                 /\ stops' = IF stops < 2 THEN stops + 1 ELSE 2
<1>1. stopping \in BOOLEAN /\ stops \in 0..2
  BY DEF PeersOK
<1>2. CASE stopping = TRUE /\ size' = 0
  <2>1. stopping' = FALSE /\ stops' = IF stops < 2 THEN stops + 1 ELSE 2
    BY <1>2 DEF checkStopState, Stopping
  <2>2. (IF stops < 2 THEN stops + 1 ELSE 2) \in 0..2
    BY <1>1
  <2> QED
    BY <1>2, <2>1, <2>2
<1>3. CASE ~(stopping = TRUE /\ size' = 0)
  BY <1>1, <1>3 DEF checkStopState, Stopping
<1> QED
  BY <1>2, <1>3

LEMMA GoneKeeps ==
    ASSUME PeersOK, NEW p \in Peers, clientDisconnected(p)
    PROVE  Keeps
<1>1. /\ sock' = [sock EXCEPT ![p] = "Unconnected"] /\ unsent' = unsent \ {p}
      /\ heap' = [heap EXCEPT ![p] = "deleteLater"]
      /\ removeAll(p) /\ checkStopState
      /\ state' = state /\ listening' = listening /\ sendersAlive' = sendersAlive
      /\ silent' = silent
  BY DEF clientDisconnected, DeletedLater
<1>2. /\ sock \in [Peers -> {"Unconnected", "Connected", "Closing"}]
      /\ heap \in [Peers -> {"freed", "live", "deleteLater"}]
      /\ unsent \subseteq Peers /\ silent \subseteq Peers
      /\ state \in {"IDLE", "SERVER"} /\ listening \in BOOLEAN /\ sendersAlive \in BOOLEAN
  BY DEF PeersOK
<1>3. /\ sock' \in [Peers -> {"Unconnected", "Connected", "Closing"}]
      /\ heap' \in [Peers -> {"freed", "live", "deleteLater"}]
      /\ \A q \in Peers : sock'[q] = IF q = p THEN "Unconnected" ELSE sock[q]
      /\ \A q \in Peers : heap'[q] = IF q = p THEN "deleteLater" ELSE heap[q]
  BY <1>1, <1>2
<1>4. Clients' = {q \in Peers : sock'[q] # "Unconnected"}
  BY <1>1, <1>3, Removed, ClientsArePeers
<1>5. Clients' = {q \in Peers : heap'[q] = "live"}
  BY <1>1, <1>3, Removed, ClientsArePeers
<1>6. ListIsConnected'
  BY <1>1, <1>4, <1>5, Removed DEF ListIsConnected
<1>7. /\ state' \in {"IDLE", "SERVER"} /\ listening' \in BOOLEAN /\ sendersAlive' \in BOOLEAN
      /\ unsent' \subseteq Peers /\ silent' \subseteq Peers
  BY <1>1, <1>2
<1>8. PeersOK'
  BY <1>1, <1>3, <1>6, <1>7, Removed, CheckStop DEF PeersOK, Slots
<1> QED
  BY <1>1, <1>3, <1>8, Removed, CheckStop DEF Keeps

\* The flags, list and memory as they are, other sockets' states and buffers.
LEMMA SocketsKeep ==
    ASSUME PeersOK, UNCHANGED <<server, list, heap>>,
           unsent' \subseteq Peers, silent' \subseteq Peers,
           sock' \in [Peers -> {"Unconnected", "Connected", "Closing"}],
           \A p \in Peers : sock'[p] # "Unconnected" <=> sock[p] # "Unconnected"
    PROVE  Keeps
<1>1. UNCHANGED <<state, listening, stopping, stops, sendersAlive, mem, size, heap>>
  BY DEF server, list
<1>2. Clients' = Clients
  BY <1>1 DEF Clients
<1>3. ListIsConnected'
  BY <1>1, <1>2 DEF ListIsConnected, PeersOK
<1>4. PeersOK'
  BY <1>1, <1>3 DEF PeersOK, Slots
<1> QED
  BY <1>1, <1>4, ConstantFacts DEF Keeps, PeersOK

LEMMA SameKeeps == PeersOK /\ UNCHANGED <<server, list, peers>> => Keeps
  BY SocketsKeep DEF PeersOK, peers

LEMMA HostKeeps ==
    ASSUME PeersOK, NEW p \in Clients, NEW bytes, disconnectFromHost(p, bytes)
    PROVE  Keeps
<1>1. p \in Peers /\ sock[p] # "Unconnected"
  BY ClientsArePeers
<1>2. CASE bytes
  <2>1. /\ sock' = [sock EXCEPT ![p] = "Closing"] /\ unsent' = unsent \union {p}
        /\ UNCHANGED <<server, list, silent, heap>>
    BY <1>2 DEF disconnectFromHost
  <2>2. /\ sock \in [Peers -> {"Unconnected", "Connected", "Closing"}]
        /\ unsent \subseteq Peers /\ silent \subseteq Peers
    BY DEF PeersOK
  <2>3. /\ sock' \in [Peers -> {"Unconnected", "Connected", "Closing"}]
        /\ \A q \in Peers : sock'[q] = IF q = p THEN "Closing" ELSE sock[q]
    BY <2>1, <2>2
  <2>4. unsent' \subseteq Peers /\ silent' \subseteq Peers
    BY <1>1, <2>1, <2>2
  <2> QED
    BY <1>1, <2>1, <2>3, <2>4, SocketsKeep
<1>3. CASE ~bytes
  BY <1>1, <1>3, GoneKeeps DEF disconnectFromHost
<1> QED
  BY <1>2, <1>3

LEMMA BytesKeep ==
    ASSUME PeersOK, unsent' \subseteq Peers, UNCHANGED <<server, list, sock, silent, heap>>
    PROVE  Keeps
  BY SocketsKeep DEF PeersOK

LEMMA CheckKeeps ==
    ASSUME PeersOK, NEW p \in Peers, checkTimeout(p)
    PROVE  Keeps
<1>1. PICK aliveDue \in BOOLEAN :
        IF ~Checks(p) THEN UNCHANGED <<server, list, peers>>
        ELSE IF p \in silent THEN disconnectFromHost(p, aliveDue \/ p \in unsent)
        ELSE /\ unsent' = IF aliveDue THEN unsent \union {p} ELSE unsent
             /\ UNCHANGED <<server, list, sock, silent, heap>>
  BY DEF checkTimeout
<1>2. CASE ~Checks(p)
  BY <1>1, <1>2, SameKeeps
<1>3. CASE Checks(p) /\ p \in silent
  <2>1. disconnectFromHost(p, aliveDue \/ p \in unsent) /\ p \in Clients
    BY <1>1, <1>3, ClientsArePeers DEF Checks
  <2> QED
    BY <2>1, HostKeeps
<1>4. CASE Checks(p) /\ p \notin silent
  <2>1. /\ unsent' = unsent \union {p} \/ unsent' = unsent
        /\ UNCHANGED <<server, list, sock, silent, heap>>
    BY <1>1, <1>4
  <2>2. unsent' \subseteq Peers
    BY <2>1 DEF PeersOK
  <2> QED
    BY <2>1, <2>2, BytesKeep
<1> QED
  BY <1>2, <1>3, <1>4

LEMMA DisconnectKeeps ==
    ASSUME PeersOK, NEW p \in Clients, disconnectPeer(p)
    PROVE  Keeps
<1>1. p \in Peers /\ sock[p] \in {"Connected", "Closing"}
  BY ClientsArePeers DEF PeersOK
<1>2. CASE sock[p] = "Connected"
  BY <1>1, <1>2, HostKeeps DEF disconnectPeer
<1>3. CASE sock[p] = "Closing"
  BY <1>1, <1>3, GoneKeeps DEF disconnectPeer
<1> QED
  BY <1>1, <1>2, <1>3

LEMMA BroadcastKeeps == PeersOK /\ Broadcast => Keeps
<1> SUFFICES ASSUME PeersOK, Broadcast PROVE Keeps
  OBVIOUS
<1>1. PICK to \in SUBSET {p \in Clients : sock[p] = "Connected"} :
        unsent' = unsent \union to /\ UNCHANGED <<server, list, sock, silent, heap>>
  BY DEF Broadcast
<1>2. unsent' \subseteq Peers
  BY <1>1, ClientsArePeers DEF PeersOK
<1> QED
  BY <1>1, <1>2, BytesKeep

--------------------------------------------------------------------------------
(* The initial states and the events.                                         *)

LEMMA InitInv == Init => Inv
<1> SUFFICES ASSUME Init PROVE Inv
  OBVIOUS
<1>1. Clients = {}
  BY DEF Init, Clients
<1>2. /\ listening \in BOOLEAN /\ stopping \in BOOLEAN /\ sendersAlive \in BOOLEAN
      /\ sendersAlive = listening /\ ~(stopping = TRUE) /\ ~(listening = TRUE)
  BY Zenon DEF Init
<1>3. /\ sock = [p \in Peers |-> "Unconnected"] /\ heap = [p \in Peers |-> "freed"]
      /\ size = 0 /\ mem \in [Slots -> Peers \union {None}]
      /\ sock \in [Peers -> {"Unconnected", "Connected", "Closing"}]
      /\ heap \in [Peers -> {"freed", "live", "deleteLater"}]
  BY DEF Init
<1>4. ListIsConnected
  BY <1>1, <1>3 DEF ListIsConnected
<1>5. state = "IDLE" /\ stops = 0 /\ unsent = {} /\ silent = {} /\ loop = "idle" /\ update = 0
  BY DEF Init
<1>6. PeersOK
  BY <1>2, <1>3, <1>4, <1>5, ConstantFacts DEF PeersOK
<1>7. ControlOK
  BY ConstantFacts DEF Init, ControlOK
<1>8. StopIsOne
  BY <1>2, <1>5 DEF StopIsOne
<1> QED
  BY <1>2, <1>5, <1>6, <1>7, <1>8 DEF Inv, ReachIsSafe, UpdateIsInside, OnlyUserStops

\* After an event that a peer causes, and within timeouts after a check.
LEMMA KeepsStop ==
    ASSUME Inv, Keeps, UNCHANGED loop
    PROVE  PeersOK' /\ StopIsOne'
<1>1. /\ stops <= 1 /\ (stops = 1 => listening = FALSE /\ size = 0)
      /\ (stopping = TRUE => loop = "stop" /\ stops = 0)
      /\ (loop = "stop" => listening = FALSE) /\ sendersAlive = listening
      /\ stops \in Nat /\ size \in Nat /\ size' \in Nat /\ stops' \in Nat
      /\ loop' = loop /\ listening' = listening /\ sendersAlive' = sendersAlive /\ size' <= size
  BY ConstantFacts DEF Inv, StopIsOne, PeersOK, Keeps
<1>2. CASE stopping' = stopping /\ stops' = stops
  BY <1>1, <1>2 DEF Keeps, StopIsOne
<1>3. CASE /\ stopping = TRUE /\ size' = 0 /\ stopping' = FALSE
           /\ stops' = IF stops < 2 THEN stops + 1 ELSE 2
  <2>1. stops' = 1 /\ listening' = FALSE
    BY <1>1, <1>3
  <2>2. ~(stopping' = TRUE)
    BY <1>3
  <2> QED
    BY <1>1, <1>3, <2>1, <2>2 DEF Keeps, StopIsOne
<1> QED
  BY <1>2, <1>3 DEF Keeps

LEMMA EventInv ==
    ASSUME Inv, Event, Keeps
    PROVE  Inv'
<1>1. loop = "idle" /\ UNCHANGED <<loop, next, last, caller, update, checked, due>>
  BY DEF Event, control, history
<1>2. ControlOK'
  BY <1>1 DEF Inv, ControlOK
<1> QED
  BY <1>1, <1>2, KeepsStop
  DEF Inv, Keeps, ReachIsSafe, UpdateIsInside, OnlyUserStops

LEMMA PeerEvents ==
    ASSUME Inv, NEW p \in Peers,
           Flush(p) \/ RemoteClosed(p) \/ SocketError(p) \/ GoesSilent(p)
    PROVE  Inv'
<1>0. PeersOK
  BY DEF Inv
<1>1. CASE Flush(p)
  <2>1. Event
    BY <1>1 DEF Flush
  <2>2. CASE sock[p] = "Closing"
    BY <1>0, <1>1, <2>1, <2>2, GoneKeeps, EventInv DEF Flush
  <2>3. CASE sock[p] # "Closing"
    <3>1. unsent' = unsent \ {p} /\ UNCHANGED <<server, list, sock, silent, heap>>
      BY <1>1, <2>3 DEF Flush
    <3>2. unsent' \subseteq Peers
      BY <1>0, <3>1 DEF PeersOK
    <3> QED
      BY <1>0, <2>1, <3>1, <3>2, BytesKeep, EventInv
  <2> QED
    BY <2>2, <2>3
<1>2. CASE RemoteClosed(p)
  <2>1. Event /\ sock[p] = "Connected" /\ disconnectFromHost(p, p \in unsent)
    BY <1>2 DEF RemoteClosed
  <2>2. p \in Clients
    BY <1>0, <2>1, ClientsArePeers
  <2> QED
    BY <1>0, <2>1, <2>2, HostKeeps, EventInv
<1>3. CASE SocketError(p)
  BY <1>0, <1>3, GoneKeeps, EventInv DEF SocketError
<1>4. CASE GoesSilent(p)
  <2>1. Event /\ silent' = silent \union {p} /\ UNCHANGED <<server, list, sock, unsent, heap>>
    BY <1>4 DEF GoesSilent
  <2>2. silent' \subseteq Peers /\ unsent' \subseteq Peers
        /\ sock' \in [Peers -> {"Unconnected", "Connected", "Closing"}]
    BY <1>0, <2>1 DEF PeersOK
  <2> QED
    BY <1>0, <2>1, <2>2, SocketsKeep, EventInv
<1> QED
  BY <1>1, <1>2, <1>3, <1>4

LEMMA DeferredDeleteInv ==
    ASSUME Inv, NEW p \in Peers, DeferredDelete(p)
    PROVE  Inv'
<1>1. /\ loop = "idle" /\ heap[p] = "deleteLater"
      /\ heap' = [heap EXCEPT ![p] = "freed"]
      /\ UNCHANGED <<state, listening, stopping, stops, sendersAlive, mem, size, sock, unsent,
                     silent, loop, next, last, caller, update, checked, due>>
  BY DEF DeferredDelete, Event, control, history, server, list
<1>2. /\ heap' \in [Peers -> {"freed", "live", "deleteLater"}]
      /\ \A q \in Peers : heap'[q] = "live" <=> heap[q] = "live"
  BY <1>1 DEF Inv, PeersOK
<1>3. Clients' = Clients
  BY <1>1 DEF Clients
<1>4. PeersOK'
  BY <1>1, <1>2, <1>3 DEF Inv, PeersOK, ListIsConnected, Slots
<1> QED
  BY <1>1, <1>4 DEF Inv, ControlOK, ReachIsSafe, StopIsOne, UpdateIsInside, OnlyUserStops

LEMMA StartInv == Inv /\ startServer => Inv'
<1> SUFFICES ASSUME Inv, startServer PROVE Inv'
  OBVIOUS
<1>1. PICK ok \in BOOLEAN :
        state' = StartedState(ok) /\ listening' = ok /\ sendersAlive' = ok
  BY DEF startServer
<1>2. /\ loop = "idle" /\ stopping' = FALSE /\ stops' = 0
      /\ UNCHANGED <<mem, size, sock, unsent, silent, heap, loop, next, last, caller, update,
                     checked, due>>
  BY DEF startServer, Event, control, history, list, peers
<1>3. state' \in {"IDLE", "SERVER"} /\ (state' = "SERVER" <=> listening' = TRUE)
      /\ listening' \in BOOLEAN /\ sendersAlive' \in BOOLEAN /\ sendersAlive' = listening'
  BY <1>1 DEF StartedState
<1>4. Clients' = Clients
  BY <1>2 DEF Clients
<1>5. stopping' \in BOOLEAN /\ ~(stopping' = TRUE)
  BY <1>2, Zenon
<1>6. PeersOK'
  BY <1>2, <1>3, <1>4, <1>5 DEF Inv, PeersOK, ListIsConnected, Slots
<1>7. StopIsOne'
  BY <1>2, <1>3, <1>5 DEF Inv, StopIsOne
<1> QED
  BY <1>2, <1>3, <1>6, <1>7 DEF Inv, ControlOK, ReachIsSafe, UpdateIsInside, OnlyUserStops

LEMMA NewConnectionInv ==
    ASSUME Inv, NEW p \in Peers, handleNewConnection(p)
    PROVE  Inv'
<1>1. /\ loop = "idle" /\ listening /\ size < Capacity /\ heap[p] = "freed"
      /\ mem' = [mem EXCEPT ![size + 1] = p] /\ size' = size + 1
      /\ heap' = [heap EXCEPT ![p] = "live"] /\ sock' = [sock EXCEPT ![p] = "Connected"]
      /\ unsent' = unsent \union {p} /\ silent' = silent \ {p}
      /\ UNCHANGED <<state, listening, stopping, stops, sendersAlive, loop, next, last, caller,
                     update, checked, due>>
  BY DEF handleNewConnection, Event, control, history, server
<1>2. /\ PeersOK /\ size \in Nat /\ mem \in [Slots -> Peers \union {None}]
      /\ sock \in [Peers -> {"Unconnected", "Connected", "Closing"}]
      /\ heap \in [Peers -> {"freed", "live", "deleteLater"}]
      /\ unsent \subseteq Peers /\ silent \subseteq Peers
  BY ConstantFacts DEF Inv, PeersOK
<1>3. p \notin Clients
  BY <1>1, <1>2, ClientsArePeers
<1>4. /\ mem' \in [Slots -> Peers \union {None}] /\ size' \in 0..Capacity
      /\ \A i \in 1..size : mem'[i] = mem[i] /\ i \in 1..size'
      /\ mem'[size + 1] = p /\ size + 1 \in 1..size'
      /\ \A i \in 1..size' : i \in 1..size \/ i = size + 1
  BY <1>1, <1>2, ConstantFacts DEF Slots
<1>5. Clients' = Clients \union {p}
  BY <1>4 DEF Clients
<1>6. /\ heap' \in [Peers -> {"freed", "live", "deleteLater"}]
      /\ sock' \in [Peers -> {"Unconnected", "Connected", "Closing"}]
      /\ \A q \in Peers : heap'[q] = IF q = p THEN "live" ELSE heap[q]
      /\ \A q \in Peers : sock'[q] = IF q = p THEN "Connected" ELSE sock[q]
      /\ unsent' \subseteq Peers /\ silent' \subseteq Peers
  BY <1>1, <1>2
<1>7. Clients' = {q \in Peers : sock'[q] # "Unconnected"}
  BY <1>2, <1>5, <1>6, ClientsArePeers
<1>8. Clients' = {q \in Peers : heap'[q] = "live"}
  BY <1>2, <1>5, <1>6, ClientsArePeers
<1>9. \A i, j \in 1..size' : mem'[i] = mem'[j] => i = j
  <2>1. \A i \in 1..size : mem[i] \in Clients
    BY DEF Clients
  <2>2. \A i, j \in 1..size : mem[i] = mem[j] => i = j
    BY <1>2 DEF PeersOK, ListIsConnected
  <2> QED
    BY <1>3, <1>4, <2>1, <2>2
<1>10. ListIsConnected'
  BY <1>7, <1>8, <1>9 DEF ListIsConnected
<1>11. PeersOK'
  BY <1>1, <1>2, <1>4, <1>6, <1>10 DEF PeersOK, Slots
<1>12. listening = TRUE
  BY <1>1, <1>2 DEF PeersOK
<1>13. StopIsOne'
  BY <1>1, <1>12 DEF Inv, StopIsOne
<1> QED
  BY <1>1, <1>11, <1>13 DEF Inv, ControlOK, ReachIsSafe, UpdateIsInside, OnlyUserStops

--------------------------------------------------------------------------------
(* The loops.                                                                 *)

LEMMA TimerTickInv == Inv /\ TimerTick => Inv'
<1> SUFFICES ASSUME Inv, TimerTick PROVE Inv'
  OBVIOUS
<1>1. /\ loop = "idle" /\ loop' = "timeouts" /\ next' = 1 /\ last' = size
      /\ checked' = [p \in Peers |-> 0] /\ due' = [p \in Peers |-> Place(p)]
      /\ UNCHANGED <<state, listening, stopping, stops, sendersAlive, mem, size, sock, unsent,
                     silent, heap, caller, update>>
  BY DEF TimerTick, End, server, list, peers
<1>2. PeersOK /\ size \in Nat /\ size <= Capacity
  BY ConstantFacts DEF Inv, PeersOK
<1>3. due' \in [Peers -> 0..Capacity] /\ checked' \in [Peers -> Nat]
  BY <1>1, <1>2, PlaceIn
<1>4. ControlOK'
  BY <1>1, <1>2, <1>3, ConstantFacts DEF Inv, ControlOK
<1>5. Clients' = Clients /\ Reached' = Clients
  BY <1>1 DEF Clients, Reached
<1>6. PeersOK'
  BY <1>1, <1>2, <1>5 DEF PeersOK, ListIsConnected, Slots
<1>7. ReachIsSafe'
  BY <1>1, <1>2, <1>5, ClientsArePeers DEF ReachIsSafe
<1> QED
  BY <1>1, <1>4, <1>6, <1>7 DEF Inv, StopIsOne, UpdateIsInside, OnlyUserStops

LEMMA CheckNextInv == Inv /\ CheckNext => Inv'
<1> SUFFICES ASSUME Inv, CheckNext PROVE Inv'
  OBVIOUS
<1>1. /\ loop = "timeouts" /\ next <= last /\ PeersOK
      /\ next \in 1..last /\ last \in Nat /\ last <= Capacity /\ next \in Nat
      /\ size \in Nat /\ size <= last
  BY ConstantFacts DEF CheckNext, Inv, ReachIsSafe, ControlOK, PeersOK
<1>2. mem[next] \in Reached
  BY <1>1 DEF Reached
<1>3. mem[next] \in Peers /\ heap[mem[next]] # "freed"
  BY <1>1, <1>2 DEF Inv, ReachIsSafe
<1>4. /\ checkTimeout(mem[next])
      /\ checked' = [checked EXCEPT ![mem[next]] = @ + 1]
      /\ next' = next + 1 /\ UNCHANGED <<loop, last, caller, update, due>>
  BY <1>3 DEF CheckNext
<1>5. Keeps
  BY <1>1, <1>3, <1>4, CheckKeeps
<1>6. checked' \in [Peers -> Nat]
  BY <1>3, <1>4 DEF Inv, ControlOK
<1>7. ControlOK'
  BY <1>1, <1>4, <1>6, ConstantFacts DEF Inv, ControlOK
<1>8. ReachIsSafe'
  <2>1. size' \in Nat /\ size' <= last' /\ next' \in 1..(last' + 1)
    BY <1>1, <1>4, <1>5, ConstantFacts DEF Keeps, PeersOK
  <2>2. \A i \in 1..last : i \in Slots /\ mem[i] \in Reached
    BY <1>1, ConstantFacts DEF Slots, Reached
  <2>3. Clients \subseteq Reached
    BY <1>1 DEF Clients, Reached
  <2>4. Reached' \subseteq Reached
    BY <1>4, <1>5, <2>2, <2>3 DEF Reached, Keeps
  <2>5. \A p \in Reached' : p \in Peers /\ heap'[p] # "freed"
    BY <1>1, <1>5, <2>4 DEF Inv, ReachIsSafe, Keeps
  <2> QED
    BY <2>1, <2>5 DEF ReachIsSafe
<1> QED
  BY <1>1, <1>4, <1>5, <1>7, <1>8, KeepsStop DEF Inv, Keeps, UpdateIsInside, OnlyUserStops

LEMMA CheckEndsInv == Inv /\ CheckEnds => Inv'
<1> SUFFICES ASSUME Inv, CheckEnds PROVE Inv'
  OBVIOUS
<1>1. /\ loop = "timeouts" /\ loop' = "idle" /\ next' = 0 /\ last' = 0
      /\ checked' = [p \in Peers |-> 0] /\ due' = [p \in Peers |-> 0]
      /\ UNCHANGED <<state, listening, stopping, stops, sendersAlive, mem, size, sock, unsent,
                     silent, heap, caller, update>>
  BY DEF CheckEnds, server, list, peers
<1>2. PeersOK'
  BY <1>1 DEF Inv, PeersOK, ListIsConnected, Clients, Slots
<1>3. checked' \in [Peers -> Nat] /\ due' \in [Peers -> 0..Capacity] /\ Capacity \in Nat
  BY <1>1, ConstantFacts
<1> QED
  BY <1>1, <1>2, <1>3 DEF Inv, ControlOK, ReachIsSafe, StopIsOne, UpdateIsInside, OnlyUserStops

\* stop begins only while the server listens.
LEMMA BeginStopInv ==
    ASSUME Inv, loop # "stop", sendersAlive = TRUE, NEW who \in {"stopServer", "broadcast"},
           BeginStop(who), UNCHANGED <<next, last, history>>,
           update' \in 0..(Senders + 1),
           ~Oversize => who = "stopServer" /\ update' = 0
    PROVE  Inv'
<1>1. /\ loop' = "stop" /\ caller' = who
      /\ UNCHANGED <<state, stops, mem, size, sock, unsent, silent, heap, next, last, checked, due>>
  BY DEF BeginStop, list, peers, history
<1>2. /\ listening' \in BOOLEAN /\ stopping' \in BOOLEAN /\ sendersAlive' \in BOOLEAN
      /\ listening' = FALSE /\ sendersAlive' = listening'
  BY Zenon DEF BeginStop
<1>3. stops = 0
  <2>1. ~(listening = FALSE) /\ stops \in 0..2
    BY DEF Inv, StopIsOne, PeersOK
  <2> QED
    BY <2>1 DEF Inv, StopIsOne
<1>4. PeersOK'
  BY <1>1, <1>2 DEF Inv, PeersOK, ListIsConnected, Clients, Slots
<1>5. StopIsOne'
  BY <1>1, <1>2, <1>3 DEF StopIsOne
<1> QED
  BY <1>1, <1>4, <1>5 DEF Inv, ControlOK, ReachIsSafe, UpdateIsInside, OnlyUserStops

LEMMA StopNextInv == Inv /\ StopNext => Inv'
<1> SUFFICES ASSUME Inv, StopNext PROVE Inv'
  OBVIOUS
<1>1. loop = "stop" /\ size \in Nat /\ size > 0 /\ PeersOK
  BY DEF StopNext, Inv, PeersOK
<1>2. mem[1] \in Clients
  BY <1>1 DEF Clients
<1>3. heap[mem[1]] # "freed"
  BY <1>1, <1>2, ClientsArePeers
<1>4. /\ disconnectPeer(mem[1])
      /\ UNCHANGED <<loop, next, last, caller, update, checked, due>>
  BY <1>3 DEF StopNext, control, history
<1>5. Keeps
  BY <1>1, <1>2, <1>4, DisconnectKeeps
<1> QED
  BY <1>1, <1>4, <1>5, KeepsStop DEF Inv, ControlOK, Keeps, ReachIsSafe, UpdateIsInside, OnlyUserStops

LEMMA StopEndsInv == Inv /\ StopEnds => Inv'
<1> SUFFICES ASSUME Inv, StopEnds PROVE Inv'
  OBVIOUS
<1>1. /\ loop = "stop" /\ size = 0 /\ checkStopState
      /\ state' = IF caller = "stopServer" THEN "IDLE" ELSE state
      /\ loop' = (IF update > 0 THEN "update" ELSE "idle") /\ caller' = "none"
      /\ UNCHANGED <<listening, sendersAlive, mem, size, sock, unsent, silent, heap, next, last,
                     update, checked, due>>
  BY DEF StopEnds, list, peers, history
<1>2. update \in Nat /\ stops \in 0..2 /\ PeersOK
  BY ConstantFacts DEF Inv, ControlOK, PeersOK
<1>3. /\ stopping' \in BOOLEAN /\ stops' \in 0..2 /\ ~(stopping' = TRUE)
      /\ stops' \in {0, 1}
  <2>1. CASE stopping = TRUE
    <3>1. stops = 0
      BY <2>1 DEF Inv, StopIsOne
    <3>2. stopping' = FALSE /\ stops' = IF stops < 2 THEN stops + 1 ELSE 2
      BY <1>1, <2>1 DEF checkStopState, Stopping
    <3>3. stops' = 1
      BY <3>1, <3>2
    <3>4. stopping' \in BOOLEAN /\ ~(stopping' = TRUE)
      BY <3>2, Zenon
    <3> QED
      BY <3>3, <3>4
  <2>2. CASE ~(stopping = TRUE)
    <3>1. stopping \in BOOLEAN /\ ~stopping /\ stops <= 1
      BY <2>2 DEF Inv, PeersOK, StopIsOne
    <3>2. stopping' = stopping /\ stops' = stops
      BY <3>1 , <1>1 DEF checkStopState, Stopping
    <3> QED
      BY <1>2, <2>2, <3>1, <3>2
  <2> QED
    BY <2>1, <2>2
<1>4. PeersOK'
  BY <1>1, <1>2, <1>3 DEF PeersOK, ListIsConnected, Clients, Slots
<1>5. StopIsOne'
  BY <1>1, <1>3 DEF Inv, StopIsOne
<1>6. OnlyUserStops'
  <2> SUFFICES ASSUME ~Oversize PROVE OnlyUserStops'
    BY DEF OnlyUserStops
  <2>1. update = 0 /\ caller = "stopServer" /\ listening = FALSE
    BY <1>1 DEF Inv, OnlyUserStops, StopIsOne
  <2>2. state' = "IDLE" /\ loop' = "idle" /\ ~(listening' = TRUE)
    BY <1>1, <2>1
  <2> QED
    BY <2>2 DEF OnlyUserStops
<1> QED
  BY <1>1, <1>2, <1>4, <1>5, <1>6 DEF Inv, ControlOK, ReachIsSafe, UpdateIsInside

LEMMA StopServerInv == Inv /\ stopServer => Inv'
<1> SUFFICES ASSUME Inv, stopServer PROVE Inv'
  OBVIOUS
<1>1. loop = "idle" /\ UNCHANGED <<next, last, update, checked, due>> /\ update = 0
  BY DEF stopServer, history, Inv, UpdateIsInside
<1>2. CASE listening
  <2>1. BeginStop("stopServer") /\ UNCHANGED <<next, last, history>> /\ update' = 0
    BY <1>1, <1>2 DEF stopServer
  <2>2. sendersAlive = TRUE
    BY <1>2 DEF Inv, StopIsOne, PeersOK
  <2>3. update' \in 0..(Senders + 1)
    BY <2>1, ConstantFacts
  <2> QED
    BY <1>1, <2>1, <2>2, <2>3, BeginStopInv
<1>3. CASE ~listening
  <2>1. /\ state' = "IDLE"
        /\ UNCHANGED <<listening, stopping, stops, sendersAlive, mem, size, sock, unsent, silent,
                       heap, loop, caller>>
    BY <1>3 DEF stopServer, list, peers
  <2>2. PeersOK'
    BY <2>1 DEF Inv, PeersOK, ListIsConnected, Clients, Slots
  <2>3. ~(listening' = TRUE)
    BY <1>3, <2>1
  <2> QED
    BY <1>1, <2>1, <2>2, <2>3
    DEF Inv, ControlOK, ReachIsSafe, StopIsOne, UpdateIsInside, OnlyUserStops
<1> QED
  BY <1>2, <1>3

LEMMA FrameInv == Inv /\ Frame => Inv'
<1> SUFFICES ASSUME Inv, Frame PROVE Inv'
  OBVIOUS
<1>1. /\ loop = "idle" /\ loop' = "update"
      /\ update' = IF sendersAlive THEN 1 ELSE Senders + 1
      /\ UNCHANGED <<state, listening, stopping, stops, sendersAlive, mem, size, sock, unsent,
                     silent, heap, next, last, caller, checked, due>>
  BY DEF Frame, server, list, peers, history
<1>2. /\ update' \in 0..(Senders + 1)
      /\ update' <= Senders => sendersAlive' = TRUE
  <2>1. CASE sendersAlive
    <3>1. sendersAlive = TRUE /\ update' = 1
      BY <1>1, <2>1 DEF Inv, PeersOK
    <3> QED
      BY <1>1, <3>1, ConstantFacts
  <2>2. CASE ~sendersAlive
    <3>1. update' = Senders + 1
      BY <1>1, <2>2
    <3> QED
      BY <3>1, ConstantFacts
  <2> QED
    BY <2>1, <2>2
<1>3. PeersOK'
  BY <1>1 DEF Inv, PeersOK, ListIsConnected, Clients, Slots
<1> QED
  BY <1>1, <1>2, <1>3 DEF Inv, ControlOK, ReachIsSafe, StopIsOne, UpdateIsInside, OnlyUserStops

\* A broadcast, or nothing, by a sender in update or by a property between events.
LEMMA BroadcastInv ==
    ASSUME Inv, loop \in {"idle", "update"}, Keeps,
           UNCHANGED <<loop, next, last, caller, history>>,
           update' \in 0..(Senders + 1), loop = "idle" => update' = update,
           loop = "update" => sendersAlive = TRUE
    PROVE  Inv'
<1>1. UNCHANGED <<loop, next, last, caller, checked, due>>
  BY DEF history
<1> QED
  BY <1>1, KeepsStop DEF Inv, ControlOK, Keeps, ReachIsSafe, UpdateIsInside, OnlyUserStops

LEMMA SenderNextInv == Inv /\ SenderNext => Inv'
<1> SUFFICES ASSUME Inv, SenderNext PROVE Inv'
  OBVIOUS
<1>1. loop = "update" /\ update <= Senders /\ update \in Nat /\ PeersOK
  BY ConstantFacts DEF SenderNext, Inv, ControlOK
<1>2. CASE ~sendersAlive
  <2>1. Crash
    BY <1>2 DEF SenderNext
  <2>2. /\ loop' = "crashed"
        /\ UNCHANGED <<state, listening, stopping, stops, sendersAlive, mem, size, sock, unsent,
                       silent, heap, next, last, caller, update, checked, due>>
    BY <2>1 DEF Crash, server, list, peers, history
  <2>3. Oversize
    BY <1>1, <1>2 DEF Inv, OnlyUserStops
  <2>4. PeersOK'
    BY <2>2 DEF Inv, PeersOK, ListIsConnected, Clients, Slots
  <2> QED
    BY <1>1, <2>2, <2>3, <2>4
    DEF Inv, ControlOK, ReachIsSafe, StopIsOne, UpdateIsInside, OnlyUserStops
<1>3. CASE sendersAlive
  <2>1. /\ update' = update + 1 /\ UNCHANGED <<next, last, history>>
        /\ \/ UNCHANGED <<server, list, peers, loop, caller>>
           \/ Broadcast /\ UNCHANGED <<loop, caller>>
           \/ Oversize /\ BeginStop("broadcast")
    BY <1>3 DEF SenderNext
  <2>2. sendersAlive = TRUE /\ update' \in 0..(Senders + 1)
    BY <1>1, <1>3, <2>1, ConstantFacts DEF PeersOK
  <2>3. CASE UNCHANGED <<server, list, peers, loop, caller>>
    BY <1>1, <2>1, <2>2, <2>3, SameKeeps, BroadcastInv
  <2>4. CASE Broadcast /\ UNCHANGED <<loop, caller>>
    BY <1>1, <2>1, <2>2, <2>4, BroadcastKeeps, BroadcastInv
  <2>5. CASE Oversize /\ BeginStop("broadcast")
    BY <1>1, <2>1, <2>2, <2>5, BeginStopInv
  <2> QED
    BY <2>1, <2>3, <2>4, <2>5
<1> QED
  BY <1>2, <1>3

LEMMA UpdateEndsInv == Inv /\ UpdateEnds => Inv'
<1> SUFFICES ASSUME Inv, UpdateEnds PROVE Inv'
  OBVIOUS
<1>1. /\ loop = "update" /\ loop' = "idle" /\ update' = 0
      /\ UNCHANGED <<state, listening, stopping, stops, sendersAlive, mem, size, sock, unsent,
                     silent, heap, next, last, caller, checked, due>>
  BY DEF UpdateEnds, server, list, peers, history
<1>2. PeersOK'
  BY <1>1 DEF Inv, PeersOK, ListIsConnected, Clients, Slots
<1> QED
  BY <1>1, <1>2, ConstantFacts
  DEF Inv, ControlOK, ReachIsSafe, StopIsOne, UpdateIsInside, OnlyUserStops

LEMMA PropertyChangeInv == Inv /\ PropertyChange => Inv'
<1> SUFFICES ASSUME Inv, PropertyChange PROVE Inv'
  OBVIOUS
<1>1. /\ loop = "idle" /\ sendersAlive = TRUE /\ PeersOK
      /\ UNCHANGED <<next, last, update, history>>
      /\ update' \in 0..(Senders + 1)
  BY DEF PropertyChange, Inv, ControlOK, PeersOK
<1>2. CASE Broadcast /\ UNCHANGED <<loop, caller>>
  BY <1>1, <1>2, BroadcastKeeps, BroadcastInv
<1>3. CASE Oversize /\ BeginStop("broadcast")
  BY <1>1, <1>3, BeginStopInv
<1> QED
  BY <1>2, <1>3 DEF PropertyChange

LEMMA StutterInv == Inv /\ UNCHANGED vars => Inv'
<1> SUFFICES ASSUME Inv, UNCHANGED vars PROVE Inv'
  OBVIOUS
<1>1. UNCHANGED <<state, listening, stopping, stops, sendersAlive, mem, size, sock, unsent,
                  silent, heap, loop, next, last, caller, update, checked, due>>
  BY DEF vars, server, list, peers, control, history
<1>2. Reached' = Reached
  BY <1>1 DEF Reached
<1>3. PeersOK'
  BY <1>1 DEF Inv, PeersOK, ListIsConnected, Clients, Slots
<1> QED
  BY <1>1, <1>2, <1>3
  DEF Inv, ControlOK, ReachIsSafe, StopIsOne, UpdateIsInside, OnlyUserStops

--------------------------------------------------------------------------------
LEMMA StepInv == Inv /\ [Next]_vars => Inv'
<1> SUFFICES ASSUME Inv, [Next]_vars PROVE Inv'
  OBVIOUS
<1>1. CASE Loops
  BY <1>1, CheckNextInv, CheckEndsInv, StopNextInv, StopEndsInv, SenderNextInv, UpdateEndsInv
  DEF Loops
<1>2. CASE Events
  BY <1>2, StartInv, StopServerInv, TimerTickInv, FrameInv, PropertyChangeInv,
     NewConnectionInv, PeerEvents, DeferredDeleteInv
  DEF Events
<1>3. CASE UNCHANGED vars
  BY <1>3, StutterInv
<1> QED
  BY <1>1, <1>2, <1>3 DEF Next

LEMMA SpecInv == Spec => []Inv
  BY InitInv, StepInv, PTL DEF Spec

\* SyncServer's list holds exactly the peers whose socket is not unconnected, each
\* once and alive, although its own loops call what removes them; and, as long as
\* no message is too large, RemoteSync says SERVER exactly while it listens.
THEOREM ServerCorrect == Spec => []ServerInv
  BY SpecInv, InvServer, PTL

\* serverStopped, which deletes the SyncServer, is emitted once, after the last
\* client has left, whoever reports the end of a client how often.
THEOREM ServerStopsOnce == Spec => []StoppedOnce
  BY SpecInv, InvStopped, PTL

\* As long as no message is too large, neither checkTimeouts, which reads behind
\* the end of a list that has shrunk, nor stop nor update follow a pointer to
\* freed memory.
THEOREM ServerIsSafe ==
    ASSUME ~Oversize
    PROVE  Spec => []NoCrash
<1>1. Inv => NoCrash
  BY DEF Inv, OnlyUserStops, NoCrash
<1> QED
  BY <1>1, SpecInv, PTL
--------------------------------------------------------------------------------
(* Who is skipped by checkTimeouts has moved up.                              *)

\* The list while checkTimeouts is at `next`: a client that was there when the
\* tick began has not moved down, and is still ahead of the loop, or has been
\* checked, or has moved up.
AheadOrUp(p) ==
    due[p] > 0 => /\ Place(p) <= due[p]
                  /\ checked[p] = 0 => next <= Place(p) \/ Place(p) < due[p]
SkipInv == loop = "timeouts" => \A p \in Clients : AheadOrUp(p)

\* A client's place is the only one where the list has it.
LEMMA PlaceIs ==
    ASSUME PeersOK, NEW i \in 1..size
    PROVE  Place(mem[i]) = i
<1>1. mem[i] \in Clients
  BY DEF Clients
<1>2. Place(mem[i]) \in 1..size /\ mem[Place(mem[i])] = mem[i]
  BY <1>1, PlaceIn
<1> QED
  BY <1>2 DEF PeersOK, ListIsConnected

\* removeAll moves up, by one place, the clients behind the one it removes, and
\* leaves the places of the others.
LEMMA RemovedPlaces ==
    ASSUME PeersOK, PeersOK', NEW q \in Clients, removeAll(q), NEW p \in Clients, p # q
    PROVE  Place(p)' = IF Place(p) < Place(q) THEN Place(p) ELSE Place(p) - 1
<1> DEFINE at == Place(q)
           i == Place(p)
           j == IF i < at THEN i ELSE i - 1
<1>1. at \in 1..size /\ mem[at] = q /\ i \in 1..size /\ mem[i] = p
  BY PlaceIn
<1>2. /\ mem' = [n \in Slots |-> IF n \in at..(size - 1) THEN mem[n + 1] ELSE mem[n]]
      /\ size' = size - 1
  BY DEF removeAll
<1> HIDE DEF at, i
<1>3. size \in Nat /\ size <= Capacity /\ i # at
  BY <1>1, ConstantFacts DEF PeersOK
<1>4. j \in 1..size' /\ j \in Slots
  BY <1>1, <1>2, <1>3, ConstantFacts DEF Slots
<1>5. mem'[j] = p
  <2>1. CASE i < at
    BY <1>1, <1>2, <1>3, <1>4, <2>1
  <2>2. CASE ~(i < at)
    <3>1. j \in at..(size - 1) /\ j + 1 = i
      BY <1>1, <1>3, <2>2
    <3> QED
      BY <1>1, <1>2, <1>4, <3>1
  <2> QED
    BY <2>1, <2>2
<1>6. mem'[j] \in Clients'
  BY <1>4 DEF Clients
<1>7. /\ Place(p)' \in 1..size' /\ mem'[Place(p)'] = p
  <2>1. \E n \in 1..size' : mem'[n] = p
    BY <1>4, <1>5
  <2> QED
    BY <1>5, <1>6, <2>1 DEF Place
<1>8. Place(p)' = j
  BY <1>4, <1>5, <1>7 DEF PeersOK, ListIsConnected
<1> QED
  BY <1>8 DEF i, at

\* All that checkTimeout does to the list is that it may remove the peer.
LEMMA CheckRemovesOne ==
    ASSUME NEW p, checkTimeout(p)
    PROVE  UNCHANGED list \/ removeAll(p)
  BY DEF checkTimeout, disconnectFromHost, clientDisconnected

LEMMA TimerTickSkip == Inv /\ TimerTick => SkipInv'
<1> SUFFICES ASSUME Inv, TimerTick PROVE SkipInv'
  OBVIOUS
<1>1. /\ next' = 1 /\ mem' = mem /\ size' = size /\ PeersOK
      /\ due' = [p \in Peers |-> Place(p)]
  BY DEF TimerTick, list, Inv
<1>2. Clients' = Clients /\ \A p : Place(p)' = Place(p)
  BY <1>1 DEF Clients, Place
<1> SUFFICES ASSUME NEW p \in Clients PROVE AheadOrUp(p)'
  BY <1>2 DEF SkipInv
<1>3. p \in Peers /\ Place(p) \in 1..size /\ due'[p] = Place(p) /\ size \in Nat
  BY <1>1, PlaceIn, ClientsArePeers, ConstantFacts DEF PeersOK
<1> QED
  BY <1>1, <1>2, <1>3 DEF AheadOrUp

LEMMA CheckNextSkip == Inv /\ Inv' /\ SkipInv /\ CheckNext => SkipInv'
<1> SUFFICES ASSUME Inv, Inv', SkipInv, CheckNext PROVE SkipInv'
  OBVIOUS
<1>1. /\ loop = "timeouts" /\ PeersOK /\ PeersOK' /\ next \in 1..last /\ next \in Nat
      /\ last \in Nat /\ last <= Capacity /\ size \in Nat
      /\ due \in [Peers -> 0..Capacity] /\ checked \in [Peers -> Nat]
  BY ConstantFacts DEF CheckNext, Inv, ReachIsSafe, ControlOK, PeersOK
<1> DEFINE q == mem[next]
<1>2. q \in Reached
  BY <1>1 DEF Reached
<1>3. q \in Peers /\ heap[q] # "freed"
  BY <1>1, <1>2 DEF Inv, ReachIsSafe
<1>4. /\ checkTimeout(q) /\ next' = next + 1 /\ due' = due
      /\ checked' = [checked EXCEPT ![q] = @ + 1]
  BY <1>3 DEF CheckNext
<1>5. next <= size => q \in Clients /\ Place(q) = next
  BY <1>1, PlaceIs DEF Clients
<1> HIDE DEF q
<1> SUFFICES ASSUME NEW p \in Clients' PROVE AheadOrUp(p)'
  BY DEF SkipInv
<1>6. UNCHANGED list \/ removeAll(q)
  BY <1>4, CheckRemovesOne
<1>7. CASE UNCHANGED list
  <2>1. p \in Clients /\ Place(p)' = Place(p)
    BY <1>7 DEF list, Clients, Place
  <2>2. p \in Peers /\ Place(p) \in 1..size /\ AheadOrUp(p) /\ Place(p) \in Nat
    BY <1>1, <2>1, PlaceIn, ClientsArePeers DEF SkipInv
  <2>3. CASE p = q
    BY <1>1, <1>3, <1>4, <2>1, <2>2, <2>3 DEF AheadOrUp
  <2>4. CASE p # q
    <3>1. Place(p) # next
      BY <1>1, <1>5, <2>1, <2>2, <2>4, PlaceIn
    <3> QED
      BY <1>1, <1>3, <1>4, <2>1, <2>2, <2>4, <3>1 DEF AheadOrUp
  <2> QED
    BY <2>3, <2>4
<1>8. CASE removeAll(q) /\ ~UNCHANGED list
  <2>1. q \in Clients /\ p \in Clients /\ p # q
    BY <1>1, <1>8, Removed
  <2>2. /\ p \in Peers /\ AheadOrUp(p) /\ Place(p) \in 1..size /\ mem[Place(p)] = p
        /\ Place(q) \in 1..size /\ mem[Place(q)] = q
    BY <1>1, <2>1, PlaceIn, ClientsArePeers DEF SkipInv
  <2>3. Place(p)' = IF Place(p) < Place(q) THEN Place(p) ELSE Place(p) - 1
    BY <1>1, <1>8, <2>1, RemovedPlaces
  <2>4. Place(p) # Place(q) /\ Place(p) \in Nat /\ Place(q) \in Nat
    BY <1>1, <2>1, <2>2
  <2>5. next <= Place(p) => Place(q) = next
    BY <1>1, <1>5, <2>2
  <2>6. due'[p] = due[p] /\ checked'[p] = checked[p] /\ due[p] \in Nat
    BY <1>1, <1>3, <1>4, <2>1, <2>2
  <2> QED
    BY <1>1, <1>4, <2>2, <2>3, <2>4, <2>5, <2>6 DEF AheadOrUp
<1> QED
  BY <1>6, <1>7, <1>8

LEMMA OthersSkip ==
    ASSUME Next, ~TimerTick, ~CheckNext
    PROVE  loop' # "timeouts"
<1>1. CASE CheckEnds \/ StopNext \/ StopEnds
  BY <1>1 DEF CheckEnds, StopNext, StopEnds, Crash, control
<1>2. CASE SenderNext \/ UpdateEnds \/ Frame \/ PropertyChange \/ stopServer
  BY <1>2 DEF SenderNext, UpdateEnds, Frame, PropertyChange, stopServer, Crash, BeginStop
<1>3. CASE startServer
  BY <1>3 DEF startServer, Event, control
<1>4. ASSUME NEW p \in Peers,
             \/ handleNewConnection(p) \/ Flush(p) \/ RemoteClosed(p)
             \/ SocketError(p) \/ GoesSilent(p) \/ DeferredDelete(p)
      PROVE  loop' # "timeouts"
  <2>1. Event
    BY <1>4 DEF handleNewConnection, Flush, RemoteClosed, SocketError, GoesSilent, DeferredDelete
  <2> QED
    BY <2>1 DEF Event, control
<1> QED
  BY <1>1, <1>2, <1>3, <1>4 DEF Next, Loops, Events

LEMMA SpecSkip == Spec => []SkipInv
<1>1. Init => SkipInv
  BY DEF Init, SkipInv
<1>2. Inv /\ Inv' /\ SkipInv /\ [Next]_vars => SkipInv'
  <2> SUFFICES ASSUME Inv, Inv', SkipInv, [Next]_vars PROVE SkipInv'
    OBVIOUS
  <2>1. CASE TimerTick
    BY <2>1, TimerTickSkip
  <2>2. CASE CheckNext
    BY <2>2, CheckNextSkip
  <2>3. CASE Next /\ ~TimerTick /\ ~CheckNext
    BY <2>3, OthersSkip DEF SkipInv
  <2>4. CASE UNCHANGED vars
    BY <2>4 DEF vars, list, control, history, SkipInv, AheadOrUp, Clients, Place
  <2> QED
    BY <2>1, <2>2, <2>3, <2>4
<1> QED
  BY <1>1, <1>2, SpecInv, PTL DEF Spec

\* checkTimeouts increments its iterator although a client it drops shifts the
\* list under it: whom it skips thereby has moved up in the list, so it is skipped
\* less often than its place said, for any number of clients dropped in a tick.
THEOREM SkippedClientsMoveUp == Spec => []SkippedMovesUp
<1>1. Inv /\ SkipInv => SkippedMovesUp
  <2> SUFFICES ASSUME Inv, SkipInv, loop = "timeouts", next > last,
                      NEW p \in Clients, due[p] > 0, checked[p] = 0
               PROVE  Place(p) < due[p]
    BY DEF SkippedMovesUp
  <2>1. /\ Place(p) \in 1..size /\ size <= last /\ size \in Nat /\ last \in Nat
        /\ next \in Nat /\ p \in Peers
    BY PlaceIn, ClientsArePeers, ConstantFacts DEF Inv, PeersOK, ControlOK, ReachIsSafe
  <2> QED
    BY <2>1 DEF SkipInv, AheadOrUp, Inv, ControlOK
<1> QED
  BY <1>1, SpecInv, SpecSkip, PTL
================================================================================
