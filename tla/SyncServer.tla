------------------------------- MODULE SyncServer -------------------------------
(* The server instance of the RemoteSync plug-in: the life of a SyncServer, of *)
(* its event senders and of the SyncRemotePeer objects in its list `clients`.  *)
(*                                                                             *)
(* The slots of SyncServer loop over `clients` and `senderList` and call code  *)
(* that changes these lists, so a loop is a sequence of steps here.  The slots *)
(* of one event run to the end: no other event is handled while a loop is.     *)
(* `clients` is a QVector: its iterators point into an array that removeAll    *)
(* shifts in place, and behind its new end the old last pointers stay.         *)
EXTENDS Naturals

CONSTANTS Peers,        \* addresses of SyncRemotePeer objects
          None,         \* an unused slot of the array
          Capacity,     \* bound: clients at a time
          Senders,      \* number of event senders
          Oversize      \* a message may be too large

ASSUME ServerAssumption ==
    /\ None \notin Peers
    /\ Capacity \in Nat /\ Senders \in Nat \ {0}
    /\ Oversize \in BOOLEAN

VARIABLES state,        \* RemoteSync::state, as far as the server is concerned
          listening,    \* qserver->isListening()
          stopping,     \* SyncServer::stopping
          stops,        \* serverStopped signals since the last start, at most 2
          sendersAlive, \* the senders have not been deleted
          mem,          \* the array of `clients`
          size,         \* its size
          sock,         \* the state of a peer's socket
          unsent,       \* peers whose socket has bytes to send
          silent,       \* peers that will not be heard of any more
          heap,         \* what has become of a peer's memory
          loop,         \* the loop that runs, or "idle", or "crashed"
          next, last,   \* its iterator and its end
          caller,       \* who has called SyncServer::stop
          update,       \* the sender at which SyncServer::update is, or 0
          checked,      \* checkTimeout calls of this tick (history)
          due           \* their places when this tick began (history), or 0

server == <<state, listening, stopping, stops, sendersAlive>>
list   == <<mem, size>>
peers  == <<sock, unsent, silent, heap>>
control == <<loop, next, last, caller, update>>
history == <<checked, due>>
vars == <<server, list, peers, control, history>>

Slots == 1..Capacity
Clients == {mem[i] : i \in 1..size}
Place(p) == IF p \in Clients THEN CHOOSE i \in 1..size : mem[i] = p ELSE 0

Init == /\ state = "IDLE" /\ listening = FALSE /\ stopping = FALSE /\ stops = 0
        /\ sendersAlive = FALSE
        /\ mem = [i \in Slots |-> None] /\ size = 0
        /\ sock = [p \in Peers |-> "Unconnected"]
        /\ unsent = {} /\ silent = {}
        /\ heap = [p \in Peers |-> "freed"]
        /\ loop = "idle" /\ next = 0 /\ last = 0
        /\ caller = "none" /\ update = 0
        /\ checked = [p \in Peers |-> 0] /\ due = checked

--------------------------------------------------------------------------------
(* Disconnected peers.                                                         *)

\* QVector::removeAll of a pointer that is in the list once, or not at all: a peer
\* may report its end twice.  Mutant: the first element to shift stays.
ShiftsLess(p) ==
    LET at == Place(p)
    IN  IF p \notin Clients THEN UNCHANGED list
        ELSE /\ mem' = [i \in Slots |-> IF i \in (at + 1)..(size - 1) THEN mem[i + 1] ELSE mem[i]]
             /\ size' = size - 1
removeAll(p) ==
    LET at == Place(p)
    IN  IF p \notin Clients THEN UNCHANGED list
        ELSE /\ mem' = [i \in Slots |-> IF i \in at..(size - 1) THEN mem[i + 1] ELSE mem[i]]
             /\ size' = size - 1

\* Emits serverStopped.  Mutant: also when the server is not stopping.
AnyTime == TRUE
Stopping == stopping
checkStopState ==
    IF Stopping /\ size' = 0
      THEN stopping' = FALSE /\ stops' = IF stops < 2 THEN stops + 1 ELSE 2
      ELSE UNCHANGED <<stopping, stops>>

\* What deleteLater leaves of the memory until the event loop runs again.
\* Mutant: delete.
DeletedAtOnce == "freed"
DeletedLater == "deleteLater"

\* The peer's socket is unconnected now; its signal reaches clientDisconnected.
clientDisconnected(p) ==
    /\ sock' = [sock EXCEPT ![p] = "Unconnected"]
    /\ unsent' = unsent \ {p}
    /\ heap' = [heap EXCEPT ![p] = DeletedLater]
    /\ removeAll(p)
    /\ checkStopState
    /\ UNCHANGED <<state, listening, sendersAlive, silent>>

\* QAbstractSocket::disconnectFromHost waits for bytes to send.
disconnectFromHost(p, bytes) ==
    IF bytes
      THEN /\ sock' = [sock EXCEPT ![p] = "Closing"]
           /\ unsent' = unsent \union {p}
           /\ UNCHANGED <<server, list, silent, heap>>
      ELSE clientDisconnected(p)

\* An event of the loop-less kind.
Event == loop = "idle" /\ UNCHANGED <<control, history>>

\* The last byte leaves; a closing socket is closed then.
Flush(p) ==
    /\ Event /\ p \in unsent
    /\ IF sock[p] = "Closing"
         THEN clientDisconnected(p)
         ELSE unsent' = unsent \ {p} /\ UNCHANGED <<server, list, sock, silent, heap>>

\* The client closes the connection.
RemoteClosed(p) ==
    /\ Event /\ sock[p] = "Connected"
    /\ disconnectFromHost(p, p \in unsent)

\* An error of the socket: unsent bytes are lost.  sockError reports it when the
\* socket is unconnected, and the socket's own signal once more.
SocketError(p) ==
    /\ Event /\ heap[p] # "freed"
    /\ clientDisconnected(p)

\* The client dies, or the path to it does.
GoesSilent(p) ==
    /\ Event /\ sock[p] # "Unconnected" /\ p \notin silent
    /\ silent' = silent \union {p}
    /\ UNCHANGED <<server, list, sock, unsent, heap>>

\* The event loop deletes what deleteLater was called for.
DeferredDelete(p) ==
    /\ Event /\ heap[p] = "deleteLater"
    /\ heap' = [heap EXCEPT ![p] = "freed"]
    /\ UNCHANGED <<server, list, sock, unsent, silent>>

--------------------------------------------------------------------------------
(* RemoteSync::startServer and handleNewConnection.                            *)

\* Listening fails when the port is in use.
StartedState(ok) == IF ok THEN "SERVER" ELSE "IDLE"
startServer ==
    /\ Event /\ state = "IDLE"
    /\ \E ok \in BOOLEAN :
         state' = StartedState(ok) /\ listening' = ok /\ sendersAlive' = ok
    /\ stopping' = FALSE /\ stops' = 0
    /\ UNCHANGED <<list, peers>>

\* The challenge is written at once.
handleNewConnection(p) ==
    /\ Event /\ listening /\ size < Capacity
    /\ heap[p] = "freed"
    /\ mem' = [mem EXCEPT ![size + 1] = p] /\ size' = size + 1
    /\ heap' = [heap EXCEPT ![p] = "live"]
    /\ sock' = [sock EXCEPT ![p] = "Connected"]
    /\ unsent' = unsent \union {p} /\ silent' = silent \ {p}
    /\ UNCHANGED server

--------------------------------------------------------------------------------
(* SyncServer::checkTimeouts, every 5 s.                                       *)

\* Mutant: the last client is left out.
LastButOne == IF size = 0 THEN 0 ELSE size - 1
End == size
TimerTick ==
    /\ loop = "idle" /\ listening
    /\ loop' = "timeouts" /\ next' = 1 /\ last' = End
    /\ checked' = [p \in Peers |-> 0] 
    /\ due' = [p \in Peers |-> Place(p)]
    /\ UNCHANGED <<server, list, peers, caller, update>>

\* SyncRemotePeer::checkTimeout: an ALIVE may be due, then the time since the
\* last message is looked at.
Checks(p) == sock[p] \notin {"Unconnected", "Closing"}
checkTimeout(p) ==
    \E aliveDue \in BOOLEAN :
        IF ~Checks(p) THEN UNCHANGED <<server, list, peers>>
        ELSE IF p \in silent THEN disconnectFromHost(p, aliveDue \/ p \in unsent)
        ELSE /\ unsent' = IF aliveDue THEN unsent \union {p} ELSE unsent
             /\ UNCHANGED <<server, list, sock, silent, heap>>

\* Dereferencing a peer whose memory is freed.
Crash == /\ loop' = "crashed"
         /\ UNCHANGED <<server, list, peers, next, last, caller, update, history>>

CheckNext ==
    /\ loop = "timeouts" /\ next <= last
    /\ IF heap[mem[next]] = "freed" THEN Crash
       ELSE /\ checkTimeout(mem[next])
            /\ checked' = [checked EXCEPT ![mem[next]] = @ + 1]
            /\ next' = next + 1
            /\ UNCHANGED <<loop, last, caller, update, due>>

CheckEnds ==
    /\ loop = "timeouts" /\ next > last
    /\ loop' = "idle" /\ next' = 0 /\ last' = 0
    /\ checked' = [p \in Peers |-> 0] /\ due' = [p \in Peers |-> 0]
    /\ UNCHANGED <<server, list, peers, caller, update>>

--------------------------------------------------------------------------------
(* SyncServer::stop.                                                           *)

\* Its first part: listening ends, the senders are deleted.
BeginStop(who) ==
    /\ loop' = "stop" /\ caller' = who
    /\ listening' = FALSE /\ stopping' = TRUE /\ sendersAlive' = FALSE
    /\ UNCHANGED <<state, stops, list, peers>>

\* SyncRemotePeer::disconnectPeer.  An abort makes the socket and then
\* disconnectPeer itself report the end; the second report finds nothing to do.
\* Mutant: the peer is left to its write buffer.
OnlyOnce(p) ==
    CASE sock[p] = "Connected" -> disconnectFromHost(p, p \in unsent)
      [] OTHER -> UNCHANGED <<server, list, peers>>
disconnectPeer(p) ==
    CASE sock[p] = "Connected" -> disconnectFromHost(p, p \in unsent)
      [] sock[p] = "Closing" -> clientDisconnected(p)
      [] OTHER -> UNCHANGED <<server, list, peers>>

\* for(it = begin; it != end;): always the first client, until none is left.
StopNext ==
    /\ loop = "stop" /\ size > 0
    /\ IF heap[mem[1]] = "freed" THEN Crash
       ELSE disconnectPeer(mem[1]) /\ UNCHANGED <<control, history>>

\* The loop is over: checkStopState, and back to RemoteSync::stopServer, to
\* sendStelPropChange, or into the loop of SyncServer::update.
StopEnds ==
    /\ loop = "stop" /\ size = 0
    /\ UNCHANGED list
    /\ checkStopState
    /\ state' = IF caller = "stopServer" THEN "IDLE" ELSE state
    /\ loop' = (IF update > 0 THEN "update" ELSE "idle") /\ caller' = "none"
    /\ UNCHANGED <<listening, sendersAlive, peers, next, last, update, history>>

\* RemoteSync::stopServer.  A server that does not listen any more has nothing
\* to stop.
stopServer ==
    /\ loop = "idle" /\ state = "SERVER"
    /\ IF listening
         THEN BeginStop("stopServer")
         ELSE /\ state' = "IDLE"
              /\ UNCHANGED <<listening, stopping, stops, sendersAlive, list, peers, loop, caller>>
    /\ UNCHANGED <<next, last, update, history>>

--------------------------------------------------------------------------------
(* SyncServer::update and broadcastMessage.                                    *)

\* To the authenticated clients, some of the connected ones.
Broadcast ==
    \E to \in SUBSET {p \in Clients : sock[p] = "Connected"} :
        unsent' = unsent \union to /\ UNCHANGED <<server, list, sock, silent, heap>>

\* Every frame, as long as the RemoteSync has a server.
Frame ==
    /\ loop = "idle" /\ state = "SERVER"
    /\ loop' = "update"
    /\ update' = IF sendersAlive THEN 1 ELSE Senders + 1
    /\ UNCHANGED <<server, list, peers, next, last, caller, history>>

\* s->update() of the next sender: it has nothing to send, broadcasts, or has a
\* message that is too large.
SenderNext ==
    /\ loop = "update" /\ update <= Senders
    /\ IF ~sendersAlive THEN Crash
       ELSE /\ update' = update + 1
            /\ \/ UNCHANGED <<server, list, peers, loop, caller>>
               \/ Broadcast /\ UNCHANGED <<loop, caller>>
               \/ Oversize /\ BeginStop("broadcast")
            /\ UNCHANGED <<next, last, history>>

UpdateEnds ==
    /\ loop = "update" /\ update > Senders
    /\ loop' = "idle" /\ update' = 0
    /\ UNCHANGED <<server, list, peers, next, last, caller, history>>

\* StelPropertyEventSender::sendStelPropChange broadcasts outside of update.
PropertyChange ==
    /\ loop = "idle" /\ sendersAlive
    /\ \/ Broadcast /\ UNCHANGED <<loop, caller>>
       \/ Oversize /\ BeginStop("broadcast")
    /\ UNCHANGED <<next, last, update, history>>

--------------------------------------------------------------------------------
Loops == CheckNext \/ CheckEnds \/ StopNext \/ StopEnds \/ SenderNext \/ UpdateEnds
Events == \/ startServer \/ stopServer \/ TimerTick \/ Frame \/ PropertyChange
          \/ \E p \in Peers : \/ handleNewConnection(p) \/ Flush(p) \/ RemoteClosed(p)
                              \/ SocketError(p) \/ GoesSilent(p) \/ DeferredDelete(p)
Next == Loops \/ Events

Spec == Init /\ [][Next]_vars

\* The code runs, the timer fires again and again, and what is written is sent;
\* a frame is finished before the next tick.
FairSpec == /\ Spec /\ WF_vars(Loops) /\ SF_vars(TimerTick)
            /\ \A p \in Peers : SF_vars(Flush(p))

--------------------------------------------------------------------------------
(* Properties.                                                                 *)

\* The types.
TypeOK ==
    /\ state \in {"IDLE", "SERVER"} /\ listening \in BOOLEAN
    /\ stopping \in BOOLEAN /\ stops \in 0..2 /\ sendersAlive \in BOOLEAN
    /\ mem \in [Slots -> Peers \union {None}] /\ size \in 0..Capacity
    /\ sock \in [Peers -> {"Unconnected", "Connected", "Closing"}]
    /\ unsent \subseteq Peers /\ silent \subseteq Peers
    /\ heap \in [Peers -> {"freed", "live", "deleteLater"}]
    /\ loop \in {"idle", "timeouts", "stop", "update", "crashed"}
    /\ next \in 0..(Capacity + 1) /\ last \in 0..Capacity
    /\ caller \in {"none", "stopServer", "broadcast"} /\ update \in 0..(Senders + 1)
    /\ checked \in [Peers -> Nat] /\ due \in [Peers -> 0..Capacity]

\* The list holds exactly the peers whose socket is not unconnected, each once,
\* and their memory is valid: stop finds them all, and its loop makes progress
\* with each.
ListIsConnected ==
    /\ Clients = {p \in Peers : sock[p] # "Unconnected"}
    /\ Clients = {p \in Peers : heap[p] = "live"}
    /\ \A i, j \in 1..size : mem[i] = mem[j] => i = j

\* RemoteSync is in state SERVER exactly while the server listens, unless a
\* message that was too large has stopped it.
ServerListens == loop \in {"idle", "timeouts"} => (state = "SERVER" <=> listening)

\* What every slot relies on.
ServerInv == TypeOK /\ ListIsConnected /\ (~Oversize => ServerListens)

\* No loop follows a pointer to freed memory, although checkTimeouts reads
\* pointers behind the end of a list that has shrunk.
NoCrash == loop # "crashed"

\* serverStopped, which deletes the SyncServer, is emitted once, when listening
\* has ended and no client is left.
StoppedOnce ==
    /\ stops <= 1
    /\ stops = 1 => ~listening /\ size = 0
    /\ loop = "idle" => ~stopping

\* A client that checkTimeouts skips, because others were dropped in the loop, has
\* moved up in the list: it is skipped less often than its place says.
SkippedMovesUp ==
    loop = "timeouts" /\ next > last =>
        \A p \in Clients : due[p] > 0 /\ checked[p] = 0 => Place(p) < due[p]

\* A stop comes to its end, whatever the clients' sockets have to send.
StopReturns == loop = "stop" ~> loop = "idle"

\* A client that has died is dropped while the server runs, even though
\* checkTimeouts may skip it when others are dropped.
SilentLeaves ==
    \A p \in Peers : p \in silent /\ sock[p] # "Unconnected" ~>
                        sock[p] = "Unconnected" \/ p \notin silent
================================================================================
