---------------------------- MODULE SyncReplication ----------------------------
(* What the RemoteSync plug-in keeps equal in two instances: the selection,   *)
(* the object that is tracked, the view direction and the field of view.  The *)
(* server program changes by its user, its event senders broadcast, and the   *)
(* handlers of the client program apply what arrives, in order (SyncFraming). *)
(*                                                                            *)
(* Both programs run the same StelObjectMgr and StelMovementMgr, so one set   *)
(* of operators on a record of type App serves both ends.  A direction is a   *)
(* model value; an object is the direction in which it is seen.               *)
EXTENDS Naturals, Sequences

CONSTANTS Objects,      \* objects of the sky
          Places,       \* directions where there is no object
          Fovs,         \* fields of view
          None,         \* no object, no direction
          MaxChanges    \* bound: what the user does

Directions == Objects \union Places
Routes == [from : Directions, to : Directions]

ASSUME ReplicationAssumption ==
    /\ Objects \intersect Places = {} /\ None \notin Directions \union Fovs \union Routes
    /\ MaxChanges \in Nat

VARIABLES server,       \* the server program
          client,       \* the client program
          selDirty,     \* SelectionEventSender::isDirty
          lastView,     \* ViewEventSender::lastView, None before the first
          lastFov,      \* FovEventSender::lastFov, None before the first
          joined,       \* the client is authenticated
          chan,         \* messages from the server to the client
          changes,      \* what the user has done, up to MaxChanges
          acted,        \* the user has acted since the last frame (history)
          seen,         \* directions the user has looked in (history)
          unusual       \* see Unusual (history)

senders == <<selDirty, lastView, lastFov>>
user == <<changes, acted, seen, unusual>>
vars == <<server, client, senders, joined, chan, user>>

\* sel: the object selected, or None; track: StelMovementMgr::flagTracking;
\* move: where an automatic move (flagAutoMove) starts and ends, or None; zoom: the field of
\* view at the end of an automatic zoom (flagAutoZoom), or None.
App == [sel : Objects \union {None}, track : BOOLEAN,
        move : Routes \union {None}, view : Directions,
        zoom : Fovs \union {None}, fov : Fovs]

\* An instance whose user has not touched it yet; a client may have been used.
Init == /\ server \in [sel : {None}, track : {FALSE}, move : {None},
                       view : Places, zoom : {None}, fov : Fovs]
        /\ client \in {a \in App : a.move = None /\ a.view \in Places /\ a.zoom = None}
        /\ selDirty = FALSE /\ lastView = None /\ lastFov = None
        /\ joined = FALSE /\ chan = <<>>
        /\ changes = 0 /\ acted = FALSE /\ seen = {server.view} /\ unusual = {}

\* The user acts twice between two frames; a client joins between an act and the
\* frame; the user looks exactly where he looked before; a message is handled
\* while the client is still turning to an object.
Unusual == {"quick", "between", "revisit", "lag"}

--------------------------------------------------------------------------------
(* Either program.                                                            *)

\* StelMovementMgr::moveToJ2000, moveToObject.
moveTo(a, d) == [a EXCEPT !.move = [from |-> a.view, to |-> d]]

\* StelMovementMgr::setFlagTracking: without a selection it can only be reset.
setFlagTracking(a, b) ==
    IF b /\ a.sel # None THEN [moveTo(a, a.sel) EXCEPT !.track = TRUE]
    ELSE IF b # a.track THEN [a EXCEPT !.track = FALSE]
    ELSE a

\* It emits flagTrackingChanged also when it could not obey.
Emits(a, b) == b # a.track

\* StelProperty::setValue writes only a value that differs.
SetTrackingProperty(a, b) == IF a.track = b THEN a ELSE setFlagTracking(a, b)

\* StelObjectMgr::setSelectedObject: StelMovementMgr::selectedObjectChange stops
\* the tracking of another object.
setSelectedObject(a, o) == setFlagTracking([a EXCEPT !.sel = o], FALSE)

\* StelObjectMgr::unSelect: nothing is selected now, so that the same slot leaves
\* flagTracking as it is.
unSelect(a) == [a EXCEPT !.sel = None]

\* What the view follows.
Follows(a) == IF a.track THEN a.sel ELSE None

\* StelMovementMgr::updateMotion, one frame.  An automatic move overrides what
\* else has set the view; it ends where it aims, as a zoom does, and is taken to
\* leap there at the end.
NewView(a) == IF a.move # None THEN [a EXCEPT !.view = a.move.to, !.move = None]
              ELSE IF Follows(a) # None THEN [a EXCEPT !.view = Follows(a)]
              ELSE a
OnTheWay(a) == [a EXCEPT !.view = a.move.from]
NewFov(a) == IF a.zoom = None THEN a ELSE [a EXCEPT !.fov = a.zoom, !.zoom = None]
Moves(a) == {NewView(a)} \union (IF a.move = None THEN {} ELSE {OnTheWay(a)})
Zooms(a) == {NewFov(a)} \union {b \in {a} : a.zoom # None}
updateMotion(a) == UNION {Zooms(b) : b \in Moves(a)}

--------------------------------------------------------------------------------
(* The server program: what its user does, and what is broadcast at once.     *)

Broadcast(msgs) == chan' = IF joined THEN chan \o msgs ELSE chan

\* StelPropertyEventSender::sendStelPropChange, on flagTrackingChanged: StelProperty
\* reads the flag anew.
TrackingMsgs(told, a) ==
    IF told THEN <<[type |-> "STELPROPERTY", tracking |-> a.track]>> ELSE <<>>

\* A user event after which the server program is `a`; told: flagTrackingChanged was
\* emitted.
UserEvent(a, told, dirty, looked, odd) ==
    /\ changes < MaxChanges
    /\ changes' = changes + 1 /\ acted' = TRUE
    /\ seen' = seen \union looked
    /\ unusual' = unusual \union odd \union (IF acted THEN {"quick"} ELSE {})
    /\ server' = a
    /\ selDirty' = (selDirty \/ dirty)
    /\ Broadcast(TrackingMsgs(told, a))
    /\ UNCHANGED <<client, lastView, lastFov, joined>>

LooksAt(d, a, told, dirty) ==
    UserEvent(a, told, dirty, {d}, IF d \in seen THEN {"revisit"} ELSE {})

\* Click on an object, by mouse, search or script.
Select(o) == UserEvent(setSelectedObject(server, o), Emits(server, FALSE), TRUE, {}, {})

\* Right click, Ctrl-Space.
Deselect == /\ server.sel # None
            /\ UserEvent(unSelect(server), FALSE, TRUE, {}, {})

\* The space bar, the tracking button, a double click.
ToggleTracking ==
    UserEvent(SetTrackingProperty(server, ~server.track),
              Emits(server, ~server.track), FALSE, {}, {})

\* Dragging the sky: panView stops the tracking.
Drag(d) == LooksAt(d, [setFlagTracking(server, FALSE) EXCEPT !.view = d],
                   Emits(server, FALSE), FALSE)

\* "Look north" and the like set the view and leave a move and the tracking alone.
Look(d) == LooksAt(d, [server EXCEPT !.view = d], FALSE, FALSE)

\* A search for coordinates and autoZoomOut start a move and stop the tracking.
GoTo(d) == LooksAt(d, setFlagTracking(moveTo(server, d), FALSE),
                   Emits(server, FALSE), FALSE)

\* A script and RemoteControl deselect before the move and do not touch the tracking.
MoveTo(d) == LooksAt(d, moveTo(unSelect(server), d), FALSE, server.sel # None)

\* zoomTo, by mouse wheel, keys and scripts.
Zoom(f) == UserEvent([server EXCEPT !.zoom = f], FALSE, FALSE, {}, {})

--------------------------------------------------------------------------------
(* A frame of the server program: the modules update, RemoteSync is the last  *)
(* and its senders send what has changed.                                     *)

SelectionMsg(a) == [type |-> "SELECTION", sel |-> a.sel]
ViewMsg(a)      == [type |-> "VIEW", view |-> a.view]
FovMsg(a)       == [type |-> "FOV", fov |-> a.fov]

When(p, m) == IF p THEN <<m>> ELSE <<>>

\* ViewEventSender and FovEventSender compare with what they sent last.
\* Mutant: they send once.
ViewOnce(a) == ~a.track /\ lastView = None
ViewChanged(a) == ~a.track /\ a.view # lastView
FovOnce(a) == lastFov = None
FovChanged(a) == a.fov # lastFov

\* Mutant: isDirty is not reset.
StaysDirty == selDirty
CleanAgain == FALSE

Frame ==
    \E a \in updateMotion(server) :
        /\ server' = a
        /\ Broadcast(When(selDirty, SelectionMsg(a)) \o
                     When(ViewChanged(a), ViewMsg(a)) \o When(FovChanged(a), FovMsg(a)))
        /\ selDirty' = CleanAgain
        /\ lastView' = IF ViewChanged(a) THEN a.view ELSE lastView
        /\ lastFov' = a.fov
        /\ acted' = FALSE
        /\ UNCHANGED <<client, joined, changes, seen, unusual>>

\* SyncServer::clientAuthenticated: every sender writes the present state for the
\* new client, in the order in which SyncServer::start added them, and takes no
\* note of it.  Mutant: the properties go first.
PropertiesFirst(a) == <<[type |-> "STELPROPERTY", tracking |-> a.track], SelectionMsg(a),
                        ViewMsg(a), FovMsg(a)>>
Snapshot(a) == <<SelectionMsg(a), [type |-> "STELPROPERTY", tracking |-> a.track],
                 ViewMsg(a), FovMsg(a)>>
Join ==
    /\ ~joined /\ joined' = TRUE
    /\ chan' = Snapshot(server)
    /\ unusual' = unusual \union (IF acted THEN {"between"} ELSE {})
    /\ UNCHANGED <<server, client, senders, changes, acted, seen>>

--------------------------------------------------------------------------------
(* The client program.                                                        *)

Apply(a, m) ==
    CASE m.type = "SELECTION"    -> IF m.sel = None THEN unSelect(a)
                                                    ELSE setSelectedObject(a, m.sel)
      [] m.type = "STELPROPERTY" -> SetTrackingProperty(a, m.tracking)
      [] m.type = "VIEW"         -> [a EXCEPT !.view = m.view]
      [] m.type = "FOV"          -> [a EXCEPT !.zoom = m.fov]

ClientHandles ==
    /\ chan # <<>>
    /\ client' = Apply(client, Head(chan)) /\ chan' = Tail(chan)
    /\ unusual' = unusual \union (IF NewView(client) = client THEN {} ELSE {"lag"})
    /\ UNCHANGED <<server, senders, joined, changes, acted, seen>>

ClientFrame ==
    /\ client' \in updateMotion(client)
    /\ UNCHANGED <<server, senders, joined, chan, user>>

--------------------------------------------------------------------------------
User == \/ \E o \in Objects : Select(o)
        \/ Deselect \/ ToggleTracking
        \/ \E d \in Places : Drag(d) \/ Look(d) \/ GoTo(d) \/ MoveTo(d)
        \/ \E f \in Fovs : Zoom(f)
Next == User \/ Frame \/ Join \/ ClientHandles \/ ClientFrame

Spec == Init /\ [][Next]_vars

\* Both programs draw frames, and messages arrive.
FairSpec == Spec /\ WF_vars(Frame) /\ WF_vars(ClientHandles) /\ WF_vars(ClientFrame)

--------------------------------------------------------------------------------
(* Properties.                                                                *)

Message == [type : {"SELECTION"}, sel : Objects \union {None}]
           \union [type : {"STELPROPERTY"}, tracking : BOOLEAN]
           \union [type : {"VIEW"}, view : Directions]
           \union [type : {"FOV"}, fov : Fovs]

\* The types.
TypeOK ==
    /\ server \in App /\ client \in App
    /\ selDirty \in BOOLEAN /\ joined \in BOOLEAN /\ acted \in BOOLEAN
    /\ lastView \in Directions \union {None} /\ lastFov \in Fovs \union {None}
    /\ changes \in 0..MaxChanges /\ seen \subseteq Directions /\ unusual \subseteq Unusual
    /\ chan \in Seq(Message)

\* Nothing is under way: as long as no user acts, both programs stay as they are.
Settled ==
    /\ joined /\ chan = <<>> /\ ~selDirty
    /\ updateMotion(server) = {server} /\ updateMotion(client) = {client}
    /\ ~ViewChanged(server) /\ ~FovChanged(server)

\* However fast the user acts and whenever the client joins, it ends up with the
\* server's selection and field of view.
StateReplicated ==
    Settled => client.sel = server.sel /\ client.fov = server.fov

ReplicationInv == TypeOK /\ StateReplicated

\* The client follows the object the server follows, unless the user has selected
\* and tracked within a frame: the property is sent at once, the selection later.
FollowingReplicated ==
    Settled /\ "quick" \notin unusual => Follows(client) = Follows(server)

\* While the server is not tracking, the client looks where the server looks,
\* unless something unusual has happened: lastView holds what was sent last, not
\* what the client was last shown.
ViewReplicated ==
    Settled /\ ~server.track /\ unusual = {} => client.view = server.view

\* A client that has joined catches up.
CatchesUp == joined ~> Settled
================================================================================
