# Stellarium: a TLA+ verification project

TLA+ models of the parts of Stellarium whose correctness depends on order,
interleaving and failure, the TLC configurations that check them on small
instances, and TLAPS proofs of what matters most for every instance.  Covered
are the RemoteSync plug-in (`plugins/RemoteSync`), which keeps several running
Stellarium instances in the same state over TCP and is the one part of the
program that is a distributed protocol, and three parts that are concurrent in
other ways: the command queue of LX200 telescopes (a serial line that is slow,
silent or noisy), the loader of 3D scenes (a worker thread and cancellation),
and the script engine (event loops inside event loops).

All paths below are relative to the repository's root.

- [Inventory](#inventory)
- [Modules and their correspondence to the code](#modules-and-their-correspondence-to-the-code)
- [Runs: what is checked](#runs-what-is-checked)
- [Fairness](#fairness)
- [Proofs](#proofs)
- [What the models found](#what-the-models-found)
- [Not modelled](#not-modelled)
- [Plan](#plan)

## Inventory

| Component | State | Operations | Hard behaviour | What makes it correct |
|---|---|---|---|---|
| Message framing (`SyncProtocol.cpp`) | socket buffer, `msgHeader`, `waitingForBody`, `authenticated` | `writeMessage`, `receiveMessage` | bytes arrive in any pieces; several messages with one `readyRead`; 16 bit size | messages are handled whole, in order, all of them |
| Sessions (`RemoteSync`, `SyncClient`, `SyncRemotePeer`, `SyncServer`) | client state machine, reconnect timer, client pointer, two socket ends per connection | connect, disconnect, start and stop server, time-out, handshake | signals that re-enter, timers that outlive their purpose, lost paths, refusal | the pointer is valid when used (but for one event, see the findings), the handshake is mutual, no state is a trap |
| Server lists (`SyncServer`) | `clients`, `senderList`, `stopping`, memory of peers | new connection, tick, broadcast, stop | loops over lists that their own callees shorten, deferred deletion | no dangling access, loops end, one stop signal |
| Keep-alive (`checkTimeout`) | two time stamps, two timers | ALIVE, time-out | the period of one end against the limit of the other | the living stay, the dead are noticed |
| Time (`StelCore`, `TimeEventSender`, `ClientTimeHandler`) | `JD`, `jdOfLastJDUpdate`, `milliSecondsOfLastJDUpdate`, `timeSpeed` on both sides | set day, set rate, frames, TIME messages | a message says what to compute from, not the time | both show the same time whatever the delays |
| View replication (event senders, handlers, `StelMovementMgr`, `StelObjectMgr`) | selection, tracking, automatic moves and zooms, what was last sent | user events, frames, snapshot for a joining client | property sent at once, selection at the end of the frame; own moves of the client | the client ends up seeing what the server sees |
| Observer travel (`SpaceShipObserver`, LOCATION) | remaining time of a journey | `moveObserverTo`, LOCATION | journey replayed late | not modelled |
| Script engine (`StelScriptMgr`, `StelMainScriptAPI`) | engine, `isPaused`, `waitEventLoop` and its timers, `scriptFileName` | run, wait, pause, resume, exit, stop, posted runs of the HTTP interface | events are dispatched while a script is on the stack, in three places; one wait loop for all waits | waits end and last, a stop ends the script, aborts are not left over |
| 3D scenery loader (`Scenery3d`) | worker future, `loadCancel`, progress bar, `currentLoadScene`, `currentScene` | load, cancel, complete, deinit | worker thread, completion still posted when the next load begins | each completion finds its own result; the last scene asked for is shown |
| Tile and texture loaders (`MultiLevelJsonBase`, `StelTexture`) | download, thread, deletion time | fetch, parse, draw, delete | deletion while a thread writes | not modelled |
| Telescope queues (`TelescopeControl`) | command list, `goto_commands_queued`, time-out, quiet time, write and read buffer | goto, sync, frame, answer, time-out, reset | answers late, in pieces, never, or noise; answers are matched by order alone | an answer is its command's; the counter is right; the position is asked for for ever |
| Remote control (`RemoteControl`) | request threads | get, post, stop | threads that block on the main thread | not modelled |
| Catalogue updates (`Satellites` etc.) | `updateState`, counters | update, download finished | several downloads | not modelled |
| Module registry, properties, actions | registries | register, set | sequential | left out |
| Ephemerides, geometry, rendering, GUI | numerics | | none that TLC reaches | left out |

How the parts of RemoteSync interact.  `RemoteSync` (a `StelModule`, updated
last in every frame) owns at most one `SyncServer` or one `SyncClient`.  Both
own `SyncRemotePeer` objects, one per TCP connection, which cut the byte stream
into messages and call a handler per type.  Everything runs on the main thread
of its program: an *event* (a socket notification, a timer, a user's click, a
frame) is dispatched and all slots it reaches by direct signals run before the
next.  Between two programs only bytes are shared.  On the server, event senders
listen to signals of the core and write messages in `SyncServer::update`, or at
once in the case of properties; on the client the handlers call the setters of
the same core.

The other three parts run on the main thread as well.  A telescope's queue is
stepped by every frame (`TelescopeClientDirectLx200::step`, `Server::step`) and
fed by slews of the user.  The scene loader shares `loadCancel` with its worker,
which reports back by posted events; scripts and scenes are also asked for by
the HTTP interface, whose request threads post calls to the main thread.

## Modules and their correspondence to the code

Each definition's source lines are in `PROJECT.json` under `map`.

| Module | Models | Step |
|---|---|---|
| `MsgChannel` | abstract: a FIFO of whole messages that may break | send, deliver, break |
| `SyncFraming` | one direction of a connection, byte by byte | write, arrival of *n* bytes, one iteration of the receive loop |
| `SyncSession` | one client program, one server program, up to two connections | one event with all its slots |
| `SyncServer` | one server program's lists and memory | one event; inside a loop, one iteration |
| `SyncHeartbeat` | one direction of keep-alive in discrete time | check or skipped check of either end, send, receive, tick of the clock |
| `SyncReplication` | selection, tracking, view and field of view in both programs | user event, frame, message |
| `SyncTime` | simulation time in both programs | change, frame, message, tick of the clock |
| `Lx200Queue` | one LX200 connection, its client and the telescope | slew, frame, then write, read and one answer at a time; telescope (one command at a time, in order), line and clock |
| `SceneLoader` | `loadScene`, its worker and the posted events of the main thread | request, worker's next report, end of `waitForFinished`, one posted event |
| `ScriptEngine` | one script on the stack and whatever may be called meanwhile | call of a slot, timer, wait, pause, end |
| `MC*` | constants for TLC | |
| `*_proofs` | theorems | |

They compose by assumption and guarantee.  `SyncFraming` is proved to implement
`MsgChannel`; `SyncSession`, `SyncReplication` and `SyncTime` use sequences of
whole messages on that ground.  `SyncSession` lets a time-out strike any
connection at any time, so that it needs nothing from `SyncHeartbeat`, which
says when it cannot strike a live one.  `SyncServer` keeps what `SyncSession`
abstracts, the order of the loops over `clients`, and abstracts what
`SyncSession` keeps, the client.  `Lx200Queue`, `SceneLoader` and `ScriptEngine`
stand for themselves; what the HTTP interface does to the last two is part of
them.

Abstractions worth knowing:

- *SyncFraming.*  `HeaderSize`, `MaxPayload` and `SizeModulus` are constants; the
  size field is the payload size modulo `SizeModulus`, as the cast makes it.  A
  header is known by its place in the stream; off a message's boundary the
  receiver may read any header.  A handler either takes the whole payload or
  refuses, having read some of it, and the loop then goes on, as in the code.
  The loop's own refusals are there too: a type beyond `MSGTYPE_MAX` at the header,
  one without a registered handler at the body.  A peer that keeps to the protocol
  writes neither, so that they can only come of a header read at the wrong place.
- *SyncSession.*  Messages that carry application state are one message,
  `"state"`.  `compat` says how the two programs differ: not at all, by an item
  of the snapshot that may not fit a message, by version, by protocol.  A TCP
  connection is two queues; `"fin"` is the end of a stream; a cut path delivers
  nothing and tells nobody.  `out` is the write buffer, because
  `disconnectFromHost` waits for it and `abort` drops it.  Settings (the two
  `ClientBehavior`s) are constants.  A crash is a state of `app`, in which the client
  program does no more.
- *SyncServer.*  `mem` is the array behind the `QVector`, with what stays behind
  its end after a removal, because a range-for in the code keeps its iterators.
  `heap` says whether a peer is alive, to be deleted, or freed.  Broadcast
  messages go to any subset of the connected clients: which of them are
  authenticated is the session's matter.
- *SyncHeartbeat.*  Ages, not time stamps; a timer may fire early by any amount
  and late never.  Both clocks tick together.  A tick of a timer is a check of the
  peer, except that the server's loop may leave a client out, up to `Skips` ticks
  in a row (`SyncServer` says when it does).  `overlooked` is history: an ALIVE was
  due at such a tick.
- *SyncReplication.*  Directions are values and an object is the direction it is
  seen in, so that the sky does not turn.  One object is selected at a time.  A
  move is a route from one direction to another; a frame either is still on the
  way, for which the start stands, or at the end, and overrides what else has set
  the view, which is what `updateMotion` does.  So "look north" (`Look`), which sets
  the view at once and leaves a running move alone, is undone by that move.  A search
  for coordinates and zooming out start a move and stop the tracking (`GoTo`); scripts
  and RemoteControl deselect before the move (`MoveTo`).  `autoZoomIn` is left out,
  which is a move and a zoom at once.  `unusual` records as history which of four
  timings occurred that the code does not bear (see below); it guards no action.
- *Lx200Queue.*  A byte that arrives carries what it means (`"0"`, `"1"`, a
  message or a position up to its `#`), the format of the position and, as
  history, whether it answers the command at the front; `misread` remembers that
  a command took another's answer, `unruly` that the telescope was slower than
  the time-outs allow for or that there was noise.  Values of right ascension
  and declination are left out; the parsers' outcomes (wait for more, done, reset)
  are kept, as sets where they depend on characters the model does not have.  The
  telescope handles what it is sent in the order in which it was written, the change
  of format (`Switch`) included, and goes on whatever has been misread.
- *SceneLoader.*  A worker is known by the number of the last progress it
  reported, which is where it looks at `loadCancel` next.  A model file may fail
  to load.  The dialog's requests come between two passes over the posted events,
  those of HTTP are posted themselves.  `QFutureWatcher` posts one event per load.
- *ScriptEngine.*  A script may wait, pause, exit or end at any time; its text
  does not matter.  `leftover` counts the timers that `wait` leaves behind; they
  quit the loop that all waits share.  `aborted` is QtScript's; `evaluate` then
  returns soon.  "run" over HTTP prepares and posts, as two steps.
  `overruled` is history: a timer quit the wait that a stop had already told to end;
  so is `repaused`: the script was told to pause after it was told to stop.
- *SyncTime.*  Days and rates are integers; a frame of either program happens at
  any moment.  System clocks are monotonic and their difference is constant.

## Runs: what is checked

Twelve runs; `PROJECT.json` gives for each property a mutation of the model,
in the way of a plausible bug, under which TLC finds the property violated.

| Run | Module, cfg | Properties | Size |
|---|---|---|---|
| `framing` | `MCSyncFraming` | type; messages in order; none left in the buffer; only handlers break; every message handled; implements `MsgChannel` | 511 850 states |
| `session` | `MCSyncSession` | `SessionInv` (type; between events, the pointer is set exactly in the states that use it; a crash takes a connection that had failed first; waiting has a timer); CLIENT means mutual authentication; no protocol error between equal versions; any confirmation, also a repeated one, finds the client connecting; a refusal is not a quit | 699 262 states |
| `session_live` | `MCSyncSessionLive` | no transient state lasts; the server gives up peers whose client has gone | 106 395 states |
| `replication` | `MCSyncReplication` | `ReplicationInv` (type, selection and field of view); followed object; view | 3 671 260 states |
| `replication_live` | `MCSyncReplicationLive` | a joined client catches up | 59 174 states |
| `server` | `MCSyncServer` | `ServerInv` (type, the list is the connected peers, state SERVER means listening); no dangling pointer; one stop; a skipped client moves up | 14 350 states |
| `server_live` | `MCSyncServerLive` | stop returns; silent clients leave | 72 367 states |
| `heartbeat` | `SyncHeartbeat` | type; silence is bounded, less tightly if the server has overlooked its client; no false time-out where that bound allows it; the dead are noticed | 26 943 states |
| `time` | `MCSyncTime` | type; same time on both sides, now and later; time never goes back by itself | 628 656 states |
| `lx200` | `Lx200Queue` | `QueueInv` (type, only the front is written and waits, quiet after a reset, slews counted, position asked for or queued); as long as the telescope keeps its times, an answer is its command's and the telescope's format stays long; the position is asked for again and again | 1 026 626 states |
| `scene` | `MCSceneLoader` | `SceneInv` (type, one end per load, own result and reports, cancel is brief); the last request wins; the loader comes to rest | 390 573 states |
| `script` | `ScriptEngine` | `ScriptInv` (type, waits have timers, no abort is left over, a stop is kept unless a timer overrules it, the name is right); waits last; stopped scripts end, with two exceptions | 11 938 states |

### Bounds, and why they are enough

- `framing`: a header of two bytes can be cut in the middle, payloads of 0 to 2
  bytes and one that does not fit give every relation of buffer and size; three
  messages are one before, one at and one after a refusal.
- `session`: two connections, because the client has one at a time and the
  server may still hold the last one (a third would be another old one, with
  which no code interacts).  `MaxUnsent` = 1 stops *spontaneous* writes (ALIVE,
  broadcasts) when a message is unread; handshake messages are never bounded.
  The live run has `MaxUnsent` = 0: spontaneous messages change no state.
- `server`: three clients are the least with a first, a middle and a last in the
  list; two senders are one before and one after the sender that stops the
  server.  Peers are symmetric.  The live run has three
  clients too, since skipping one takes three, and one sender.
- `replication`: two objects and two empty directions make every change and
  every return possible; three user events make all pairs of events with a third
  to disturb them.  Objects are symmetric, and the initial client is arbitrary.
- `heartbeat`: the code's 5 s and 15 s, the server's 5 s timer and the client's of
  2 s, both directions, up to 2 s of delay.  `Skips` = 1: one tick in a row leaves
  the client out, which is enough for a live client to give up.
- `time`: a clock of 4 units, two changes, rates backwards, zero and fast, a day
  beyond a limit, a client whose clock is one unit ahead.

- `lx200`: time-outs of 2 (slew) and 3, a quiet time of 4 and a pause between two
  polls of 1 have the order of the code's 3, 5, 10 and half a second; an answer
  older than `MaxAge` is lost, so that there are answers that arrive in time, after
  the time-out, after the quiet time, and never.  `MaxAge` = 8 lets the telescope
  be later than a reset and the quiet time together; it keeps at most two commands
  from one tick to the next (`MaxDue`), and at most two pieces arrive before they are
  read (`MaxArrived`).  Two slews are the most the counter admits, and a third is
  refused.
- `scene`: three scenes, one for each kind of ground and so each path through the
  worker; four requests, since the longest chase has a load under way, one posted
  and two more; at most two HTTP requests posted at a time.
- `script`: two scripts, four runs (one on the stack, one refused, one posted, one
  after the end), two leftover timers.

`CHECK_DEADLOCK` is off in `framing`, `heartbeat` and `scene` only: all messages
handled, the watcher's giving up, or the end of the program and of the bounded
requests, end the behaviour.

## Fairness

- `SyncFraming`: TCP delivers what was written and `receiveMessage` runs on.
- `SyncSession`: the event loops dispatch socket events, the socket writes its
  buffer (weak fairness of `Flush`), a connecting socket succeeds or fails, the
  reconnect timer fires, and a peer that hears nothing more times out
  (`DeadPeerTimesOut`; the timers of both ends run for ever).  Users, live
  time-outs and TCP's own errors are not fair.
- `SyncServer`: a loop that has begun runs on (weak), the 5 s timer fires again
  and again between frames (strong, since frames disable it), bytes leave sockets
  (strong).  Over a dead path a kernel may hold bytes for long; `Flush` then
  stands for the kernel giving them up.
- `SyncReplication`: both programs draw frames and handle messages.
- `Lx200Queue`: the code of a step runs on, frames are drawn (weak), and time
  passes (strong, since the code's steps are not interrupted by it).  The
  telescope need not do anything: the position is asked for again even if it never
  answers, because time-outs reset the queue.
- `SceneLoader`: the worker goes on, and so does the main thread (weak).  Nobody
  need ask for a scene, and the program need not end.
- `ScriptEngine`: timers fire, an event loop that was told to end ends, a pause
  that is over is left, an aborted evaluation returns.  A script that is not
  aborted may run for ever.

## Proofs

Checked by `tlapm`; each theorem holds for all values of the constants that
satisfy the named assumptions, which TLC evaluates in every run.

| Theorem | Module | Says |
|---|---|---|
| `TypeCorrect`, `FramesInOrderAlways`, `NoMessageLeftBehindAlways`, `OnlyHandlersBreakAlways`, `Refinement` | `SyncFraming_proofs` | the properties of `framing` but for liveness, and the refinement |
| `SessionCorrect`, `ConfirmedOnlyWhileConnecting`, `RefusedIsLost`, `ClientsAreAuthenticated`, `SameVersionsAgree` | `SyncSession_proofs` | all properties of `session` |
| `ServerCorrect`, `ServerStopsOnce`, `ServerIsSafe`, `SkippedClientsMoveUp` | `SyncServer_proofs` | all properties of `server`; `NoCrash` unless `Oversize` |
| `StateIsReplicated`, `FollowingIsReplicated`, `ViewIsReplicated` | `SyncReplication_proofs` | all properties of `replication` |
| `TypeCorrect`, `SilenceBound`, `LivePeersStay`, `DeadPeersTimeOut` | `SyncHeartbeat_proofs` | all properties of `heartbeat` |
| `TypeCorrect`, `ClientShowsServerTime`, `ServerNeverBack` | `SyncTime_proofs` | all properties of `time` |
| `QueueCorrect`, `AnswersKeepTheirPlace`, `LongFormatStays` | `Lx200Queue_proofs` | the properties of `lx200` but for liveness |
| `SceneCorrect`, `LastRequestWins` | `MainThread_proofs` | the properties of `scene` but for liveness |
| `ScriptCorrect`, `WaitsLast` | `MainThread_proofs` | the properties of `script` but for liveness |

*Framing.*  The properties are not inductive: that the next header read is the
next message's needs to know where the reader stands.  The invariant `IInv` adds
the layout of the stream (message bodies follow each other, each after its
header, the last one ends at `written`), that data follows a handshake, and,
until the first refusal, `Aligned`: what was handled is a prefix of what was
sent, and `pos` is the boundary after it, or the body of the next message when
`waitingForBody`.  `NextHeader` is the core: at a boundary, the header found is
the next message's and no other's, because bodies have distinct places.  The
refinement maps `handled` to `delivered`; an iteration is a `Deliver`, after a
refusal a `Garble`, anything else stutters.

*Sessions.*  `SessionInv` alone does not survive a step: whether `disconnected`
runs at once depends on the socket's buffer, so the invariant `Inv` adds that a
socket that is neither connected nor closing has nothing to send (`Drained`); and
for the action properties, that a client past connecting is authenticated, that one
that closes was asked to, and that the program runs while it has a client.  Two
lemmas, `ServerStep` and `ClientStep`, carry the argument for any event at either
end, and each action only has to say what its peer becomes (`Grows`: what it was
told and confirmed stays).  Two parts of what `session` checks are about the past of
a connection.  For `CrashNeedsFailure` the invariant `Failing` says that a
client's socket that closes has failed or was given up by the user; the second
`disconnected` of one event can then only be of one that has failed first.
`ConnectedWhileConnecting` is an argument by counting (`Once`): a connection in the
making, the server's challenge, the client's response, the confirmation and the
client's having it are one token that is handed on, at most one for each
connection.  So a client that reads a confirmation has had none before, and an
authenticated one reads none.
`ClientsAreAuthenticated` needs a second invariant,
`Trusted`: a confirmation accepted, on its way or still in the server's buffer
means that the versions agree and that the server, unless it has dropped the
connection, has authenticated this client; and a connection that only begins has
no past, so that nothing of an earlier session confirms it.  `SameVersionsAgree`
needs a third, `Calm`: what may still come on a connection (`Talk`).  A client
hears a challenge first, after its answer one confirmation, and only then
anything else (`Hearing`, over what is on its way followed by what the server has
yet to write); a server hears one response, and ALIVEs from a client it has
authenticated (`Served`).  No handler is then reached in a state that refuses its
message, and a cut connection has nothing on its way.

*Server.*  The lists are arrays that shrink while loops hold their old bounds.
`Removed` says what `removeAll` leaves: the list without the one removed, still
each client once, and in every place of the array what it held or another client.
The invariant adds to `ServerInv`
that whatever a loop can still reach by the bounds it took is not yet freed
(`ReachIsSafe`; freeing waits for the event loop, in which no slot is active),
that `stopping` is set only while the loop of `stop` runs and nothing listens,
so that the end is reported once, and that `update` is over before the next event.
`SkippedClientsMoveUp` adds that within the loop of `checkTimeouts` a client that was
there when it began has not moved down since, and is still ahead of the loop, or has
been checked, or has moved up (`AheadOrUp`).
`ServerIsSafe` assumes `~Oversize`; with `Oversize` the property fails, see the findings.

*Replication.*  Of a client four things matter: its selection, whether it tracks,
where it is going to look and the field of view it is going to have.  Its own
frames change none of them, and a message changes them in a known way (`Step`), so
that the messages under way lead it from one such state to another (`Leads`).
The invariant says where: `Arrives` relates the state it will be in to the
server as it is now, to what the server has last sent (`lastView`, `lastFov`) and
to what it has still to send (`selDirty`).  Appending a message is one more step at
the end of the run, handling one a step less at its start; a snapshot begins
a run from whatever the client was.  About the server alone (`ServerInv`) the
view needs more: that a server on its way to what it has sent last had set out
from there and looks there still, and that what it follows then is what it has sent
last, which is where the unusual timings come in.
When nothing is under way, the client is what it will be.

*Heartbeat.*  A sender's silence is bounded because of the last check: the
invariant relates `sendAge` to `timerAge` (a silence longer than `AliveAfter` has
begun to be so since the last check) and to the ticks that left the client out
(`LostTime`), and `recvAge` to `sendAge` and the messages in flight.  From
`HeardSilence <= ReadTimeout` follows that no live peer is given up.  With the
code's numbers this is 5 + 5 + 2 <= 15, unless an ALIVE was due at a tick that has
overlooked the client: then 5 + 10 + 2 > 15, and a live client may be timed out.
A watching server may be a period later for each tick it leaves out (`LeftTime`).

*Time.*  The invariant has three parts.  `FollowsServer`: when no change waits to
be sent, the newest TIME message under way (or the client's clock, if there is
none) holds the server's base, moment and rate; the message is a function of
these alone, so that it may be late by any amount.  `NotInFuture`: no moment of a
change lies ahead of the clock.  `NotAhead`: what is shown is not ahead of what
the next frame computes, which `ServerNeverBack` rests on.  The difference of
the two sides is then the skew times the rate, which `Limited` does not enlarge.

*LX200 queue.*  `QueueInv` needs one more conjunct, that there is a front command
while answers are read.  The counter is the work: `GotosAreCounted` says it is the
cardinality of the places in the queue that hold a slew, and the queue is
appended to, cut at its front and cleared; the lemmas give these places for an
appended queue (a disjoint union) and for a tail (a bijection by one).
`AnswersKeepTheirPlace` needs the telescope's times: the invariant `Orderly` holds
as long as the telescope is good (`~unruly`) and says where the answer to the waiting
command is: still a question, being answered, half read, or all in the buffer, and nothing
else with it (`Awaited`); that what a reset has orphaned is older than a
good telescope takes, counting what is left of the quiet time (`Late`), for which
the time-out that led to the reset must have run as long as the answer has been
due (`OnTime`); and that what arrives while nobody waits is thrown away in the
quiet time before the next command is written (`Told`).  `PromptAssumption` is
needed as it stands: one frame, `Gap`, is lost until an answer is read, and another
until a command has left.  `LongFormatStays` rests on it: while the telescope is
good, at most one change of format is under way, not yet written, in the write
buffer or with the telescope, and none but while the telescope is in the short format
(`FormatInv`).  A change is queued for a short answer, so that the answer's news must
still be true when it is read (`Known`): nothing stands at the telescope behind the
question that waits (`OwnLast`), hence nothing at all when it has been answered.

*Scenes.*  `SceneInv` is inductive by itself.  `OneEnd` ties the progress bar
to a worker or its one posted end, so that a new worker can start only when no
end is posted; `OwnReports` follows, since `currentLoadScene` changes only then.
`LastRequestWins` follows the last request through the queue (`LineInv`): loads that
are posted before the end of the cancelled load will go behind it, so if there are
any, the last of them is the last request; if not, it is the one that waits; if
none waits, the last posted behind the end; and if there is none either, what is
being loaded, or what is there.  Being `overtaken` is exactly what breaks this line.

*Scripts.*  The invariant is `ScriptInv /\ EarlyAfterStop`, that a wait that was
told to go on (`exit0`) while its own timer has not fired owes this to a leftover
timer, hence to an earlier stop, and that only a stop tells a wait to end with
code 1 (`ExitIsStop`), so that a timer's `quit` overrules a stop or nothing.

Only model-checked, and why: liveness (`EveryMessageHandled`, `TransientEnds`,
`DeadPeersLeave`, `CatchesUp`, `StopReturns`, `SilentLeaves`, `PollsAgain`, `Settles`,
`StopEnds`), since neither fairness nor ENABLED is in the prover's reach.
Everything else that a run checks is a theorem, for any number of connections,
clients, commands, scenes, scripts and messages.
No module uses a RECURSIVE operator, so that all stay open to proof.

## What the models found

Faults of the code that the models have, each reported under `findings`:

- *Disconnecting a closing client.*  `disconnectPeer` on a socket in ClosingState
  emits `disconnected` twice; the second time `RemoteSync::clientDisconnected`
  reads through a null `client` (`DisconnectClient`, which sets `app` to
  `"crashed"`).  It takes a time-out with an ALIVE due in the same `checkTimeout`,
  and a user who disconnects before the byte is out.  TLC reaches it as soon as
  `app # "crashed"` is added to the invariants of `session`.
- *A loop over a list that shrinks.*  `checkTimeouts` iterates over `clients` while
  its callee removes from it: one client is skipped, another checked twice.  The
  invariants of `server` show that the harm is bounded: no freed peer is reached,
  since deletion is deferred, and the skipped client moves up, so that it is
  checked within as many ticks as there are clients.  But it may then hear nothing for
  17 s and time the server out although both are alive (`heartbeat`).
- *A server that stops itself.*  A message that is too large stops the server from
  within `update`, whose loop then runs over deleted senders: `NoCrash` is
  violated with `Oversize = TRUE`.  `RemoteSync` stays in state SERVER.
- *A scene that failed is said to be loading.*  `loadSceneCompleted` clears
  `currentLoadScene` after a success only.  Its ID is then refused over HTTP, and
  the default scene is not loaded.
- *A scene overtaken.*  A load that posts itself again can be preceded by another
  request, which it then cancels: the older scene is shown (`overtaken`).
- *A stop that is lost.*  `stopScript` ends a wait with `exit(1)`, for which `wait`
  aborts the script; a timer that fires before the loop is left calls `quit`, which is
  `exit(0)` and replaces the code.  The script goes on as if it had not been stopped
  (`overruled`): `StopEnds` without this exception is violated, and `StopIsKept` says
  that it is the only way to lose a stop.
- *A wait ended by the timer of another.*  `wait` leaves its timer running when it
  is stopped; the timer ends the wait of the next script (`early`).
- *A script's name overwritten.*  Preparing a script that is then refused, or not
  run, changes what `runningScriptId` returns (`misnamed`).

Met while modelling, described by the models but no property of a run:

- Disconnecting in CLIENT_CONNECTING has no branch (`RemoteSync.cpp:371`), though
  the dialog calls its button "Cancel connecting" then (`InvalidDisconnect`).
- `connectToServer` during CLIENT_WAIT_RECONNECT leaves the timer running, which
  later reconnects an IDLE instance (`UserConnect`, `TimerFires`).
- A client that the server timed out takes it for a server that quit
  (`RemoteHostClosed`).
- "after no data was sent for about 5 seconds" (`SyncProtocol.hpp:66`) is up to
  `AliveAfter + Period`, nearly 10 s on the server, and a period more for a client
  that a tick has left out.
- A telescope that answers later than a reset and the quiet time together, about 16 s,
  answers a question from before the change of format after the code has forgotten
  that it sent one; the short answer has it sent again, and the telescope is back in
  the short format (`FormatStaysLong` without `unruly` is violated).
- Replication (`unusual`): selecting and tracking within one frame sends the
  property before the selection, which resets it on the client (`"quick"`); a
  client that joins between an act and the frame (a drag, say, while a move to
  the direction sent last is under way) is shown a view that this frame takes back
  without sending it, since `lastView` knows nothing of the snapshot (`"between"`);
  a user who returns to exactly the direction sent last sends no VIEW
  (`"revisit"`); a message handled while the client is still turning to an object
  loses against the end of that move (`"lag"`).  TLC finds `FollowingReplicated`
  violated without the condition on `"quick"`, and `ViewReplicated` without those on
  `"revisit"`, `"lag"` and the server's tracking; the other two are needed by the
  proof.  Deselecting leaves `flagTracking` set, so that views are not
  sent although nothing is tracked.

## Not modelled

Of RemoteSync: several selected objects, objects the client does not know,
property filters and the other properties (set as they arrive; none but
`StelMovementMgr.tracking` interacts with what is modelled), LOCATION messages,
settings and dialog.  The contents of the handshake (magic, UUID, version
fields) are the cases of `compat`.  Clocks that are set while the program runs.
Of the telescopes: a serial line that fails rather than loses bytes (`hangup`),
and the NexStar queue, which has the same design without time-outs.  Of scripts:
the preprocessor and the interface to other modules.  Of scenes: what is done
with a scene once it is loaded.
Of the rest of the program: see the components marked `not_modelled` in
`PROJECT.json`, with reasons; numerics and rendering stay out for good.

## Plan

Done, in this order: framing, sessions, replication, server lists, keep-alive,
time, telescope queue, scene loader, script engine, with the proofs named above.

What is left, most important first:

1. A module for the tile loader (`MultiLevelJsonBase`: download, thread, deletion),
   with a model of memory like `heap` in `SyncServer`.
2. LOCATION messages and journeys; request threads and the main thread.
3. A serial line that fails, in `Lx200Queue`, with what is left of the connection.

The number of runs is kept at twelve: one per component and a smaller one for
liveness where the instance for safety is too large for it.
