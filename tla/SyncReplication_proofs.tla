------------------------- MODULE SyncReplication_proofs -------------------------
(* Proofs of SyncReplication: types, and what the client has in common with    *)
(* the server when nothing is under way.                                       *)
(*                                                                             *)
(* Of a client only four things matter: its selection, whether it tracks, the  *)
(* direction it is going to look in and the field of view it is going to have. *)
(* A frame of the client changes none of them, and every message changes them  *)
(* in a known way (Step).  The invariant speaks of where the messages that are *)
(* under way lead the client: `Leads(x, chan, y)`, where x is the client now   *)
(* and y is what it will be; y is related to the server program by Arrives.    *)
EXTENDS SyncReplication, SequenceTheorems, TLAPS

States == [sel : Objects \union {None}, track : BOOLEAN, goal : Directions, fov : Fovs]

Goal(a) == IF Follows(a) # None THEN Follows(a)
           ELSE IF a.move # None THEN a.move.to ELSE a.view
Bound(a) == IF a.zoom # None THEN a.zoom ELSE a.fov

\* What a message does.
Step(x, m) ==
    CASE m.type = "SELECTION" ->
             [x EXCEPT !.sel = m.sel, !.track = (m.sel = None /\ x.track)]
      [] m.type = "STELPROPERTY" ->
             [x EXCEPT !.track = (m.tracking /\ (x.track \/ x.sel # None)),
                       !.goal = IF m.tracking /\ ~x.track /\ x.sel # None
                                THEN x.sel ELSE x.goal]
      [] m.type = "VIEW" ->
             [x EXCEPT !.goal = IF x.track /\ x.sel # None THEN x.sel ELSE m.view]
      [] m.type = "FOV" -> [x EXCEPT !.fov = m.fov]

\* From x the messages c lead to y.
Leads(x, c, y) ==
    \E r \in [0..Len(c) -> States] :
        /\ r[0] = x /\ r[Len(c)] = y
        /\ \A i \in 1..Len(c) : r[i] = Step(r[i - 1], c[i])

--------------------------------------------------------------------------------
(* Messages.                                                                   *)

Selects(x, m, y) ==
    /\ y.sel = m.sel /\ (y.track = TRUE <=> m.sel = None /\ x.track = TRUE)
    /\ y.goal = x.goal /\ y.fov = x.fov
Tracks(x, m, y) ==
    /\ y.sel = x.sel /\ y.fov = x.fov
    /\ y.track = TRUE <=> m.tracking = TRUE /\ (x.track = TRUE \/ x.sel # None)
    /\ m.tracking = TRUE /\ ~(x.track = TRUE) /\ x.sel # None => y.goal = x.sel
    /\ ~(m.tracking = TRUE /\ ~(x.track = TRUE) /\ x.sel # None) => y.goal = x.goal
Shows(x, m, y) ==
    /\ y.sel = x.sel /\ y.fov = x.fov /\ y.track = x.track
    /\ x.track = TRUE /\ x.sel # None => y.goal = x.sel
    /\ ~(x.track = TRUE /\ x.sel # None) => y.goal = m.view
Widens(x, m, y) ==
    /\ y.sel = x.sel /\ y.goal = x.goal /\ y.track = x.track /\ y.fov = m.fov

\* What Step does, field by field.
LEMMA StepFields ==
    ASSUME NEW x \in States, NEW m \in Message
    PROVE  /\ Step(x, m) \in States
           /\ m.type = "SELECTION" => Selects(x, m, Step(x, m))
           /\ m.type = "STELPROPERTY" => Tracks(x, m, Step(x, m))
           /\ m.type = "VIEW" => Shows(x, m, Step(x, m))
           /\ m.type = "FOV" => Widens(x, m, Step(x, m))
<1>0. m.type \in {"SELECTION", "STELPROPERTY", "VIEW", "FOV"}
  BY DEF Message
<1>1. CASE m.type = "SELECTION"
  <2>1. m.sel \in Objects \union {None}
    BY <1>1 DEF Message
  <2>2. Step(x, m) = [x EXCEPT !.sel = m.sel, !.track = (m.sel = None /\ x.track)]
    BY <1>1 DEF Step
  <2>3. QED
    BY <1>1, <2>1, <2>2 DEF States, Selects
<1>2. CASE m.type = "STELPROPERTY"
  <2>1. m.tracking \in BOOLEAN
    BY <1>2 DEF Message
  <2>2. Step(x, m) = [x EXCEPT !.track = (m.tracking /\ (x.track \/ x.sel # None)),
                               !.goal = IF m.tracking /\ ~x.track /\ x.sel # None
                                        THEN x.sel ELSE x.goal]
    BY <1>2 DEF Step
  <2>3. QED
    BY <1>2, <2>1, <2>2 DEF States, Tracks, Directions
<1>3. CASE m.type = "VIEW"
  <2>1. m.view \in Directions
    BY <1>3 DEF Message
  <2>2. Step(x, m) = [x EXCEPT !.goal = IF x.track /\ x.sel # None THEN x.sel ELSE m.view]
    BY <1>3 DEF Step
  <2>3. QED
    BY <1>3, <2>1, <2>2 DEF States, Shows, Directions
<1>4. CASE m.type = "FOV"
  <2>1. m.fov \in Fovs
    BY <1>4 DEF Message
  <2>2. Step(x, m) = [x EXCEPT !.fov = m.fov]
    BY <1>4 DEF Step
  <2>3. QED
    BY <1>4, <2>1, <2>2 DEF States, Widens
<1>5. QED
  BY <1>0, <1>1, <1>2, <1>3, <1>4

\* Without messages nothing changes.
LEMMA LeadsNowhere ==
    ASSUME NEW x \in States
    PROVE  /\ Leads(x, <<>>, x)
           /\ \A y : Leads(x, <<>>, y) => y = x
<1>1. Len(<<>>) = 0
  OBVIOUS
<1>2. Leads(x, <<>>, x)
  <2> DEFINE r == [i \in 0..0 |-> x]
  <2>1. r \in [0..Len(<<>>) -> States] /\ r[0] = x /\ r[Len(<<>>)] = x
    BY <1>1
  <2>2. \A i \in 1..Len(<<>>) : r[i] = Step(r[i - 1], <<>>[i])
    BY <1>1
  <2> HIDE DEF r
  <2>3. QED
    BY <2>1, <2>2 DEF Leads
<1>3. ASSUME NEW y, Leads(x, <<>>, y) PROVE y = x
  BY <1>1, <1>3 DEF Leads
<1>4. QED
  BY <1>2, <1>3

\* One message more.
LEMMA LeadsOn ==
    ASSUME NEW x \in States, NEW y \in States, NEW c \in Seq(Message),
           NEW m \in Message, Leads(x, c, y)
    PROVE  Leads(x, c \o <<m>>, Step(y, m))
<1> DEFINE n == Len(c)  d == Append(c, m)
<1>1. PICK r \in [0..n -> States] :
          /\ r[0] = x /\ r[n] = y
          /\ \A i \in 1..n : r[i] = Step(r[i - 1], c[i])
  BY DEF Leads
<1>2. /\ n \in Nat /\ Len(d) = n + 1 /\ d[n + 1] = m
      /\ \A i \in 1..n : d[i] = c[i]
      /\ d = c \o <<m>>
  BY AppendProperties, AppendIsConcat
<1> HIDE DEF n, d
<1> DEFINE q == [i \in 0..n + 1 |-> IF i = n + 1 THEN Step(y, m) ELSE r[i]]
<1>3. Step(y, m) \in States
  BY StepFields
<1>4. q \in [0..n + 1 -> States]
  BY <1>1, <1>2, <1>3
<1>5. q[0] = x /\ q[n + 1] = Step(y, m) /\ \A i \in 0..n : q[i] = r[i]
  BY <1>1, <1>2
<1> HIDE DEF q
<1>6. ASSUME NEW i \in 1..n + 1 PROVE q[i] = Step(q[i - 1], d[i])
  <2>1. CASE i = n + 1
    <3>1. i - 1 = n /\ n \in 0..n
      BY <1>2, <2>1
    <3>2. q[i - 1] = y /\ d[i] = m /\ q[i] = Step(y, m)
      BY <1>1, <1>2, <1>5, <2>1, <3>1
    <3>3. QED
      BY <3>2
  <2>2. CASE i # n + 1
    <3>1. i \in 1..n /\ i \in 0..n /\ i - 1 \in 0..n
      BY <1>2, <2>2
    <3>2. QED
      BY <1>1, <1>2, <1>5, <3>1
  <2>3. QED
    BY <2>1, <2>2
<1>7. Leads(x, d, Step(y, m))
  BY <1>2, <1>4, <1>5, <1>6 DEF Leads
<1>8. QED
  BY <1>2, <1>7

\* The first message is handled.
LEMMA LeadsFrom ==
    ASSUME NEW x \in States, NEW y \in States, NEW c \in Seq(Message), c # <<>>,
           Leads(x, c, y)
    PROVE  Leads(Step(x, Head(c)), Tail(c), y)
<1> DEFINE n == Len(c)
<1>1. PICK r \in [0..n -> States] :
          /\ r[0] = x /\ r[n] = y
          /\ \A i \in 1..n : r[i] = Step(r[i - 1], c[i])
  BY DEF Leads
<1>2. /\ n \in Nat /\ n > 0 /\ Head(c) = c[1]
      /\ Len(Tail(c)) = n - 1 /\ \A i \in 1..n - 1 : Tail(c)[i] = c[i + 1]
  BY HeadTailProperties, LenProperties, EmptySeq
<1> HIDE DEF n
<1> DEFINE q == [i \in 0..n - 1 |-> r[i + 1]]
<1>3. q \in [0..n - 1 -> States]
  BY <1>1, <1>2
<1>4. /\ q[0] = Step(x, Head(c)) /\ q[n - 1] = y
      /\ \A i \in 0..n - 1 : q[i] = r[i + 1]
  BY <1>1, <1>2
<1> HIDE DEF q
<1>5. ASSUME NEW i \in 1..n - 1 PROVE q[i] = Step(q[i - 1], Tail(c)[i])
  <2>1. i \in 0..n - 1 /\ i - 1 \in 0..n - 1 /\ i + 1 \in 1..n /\ (i - 1) + 1 = i
        /\ (i + 1) - 1 = i
    BY <1>2
  <2>2. QED
    BY <1>1, <1>2, <1>4, <2>1
<1>6. QED
  BY <1>2, <1>3, <1>4, <1>5 DEF Leads

\* A message that is only sent when p holds.
LEMMA LeadsWhen ==
    ASSUME NEW x \in States, NEW y \in States, NEW c \in Seq(Message),
           NEW m \in Message, NEW p \in BOOLEAN, Leads(x, c, y)
    PROVE  /\ When(p, m) \in Seq(Message)
           /\ Leads(x, c \o When(p, m), IF p THEN Step(y, m) ELSE y)
<1>1. CASE p
  <2>1. When(p, m) = <<m>> /\ <<m>> \in Seq(Message)
    BY <1>1 DEF When
  <2>2. QED
    BY <1>1, <2>1, LeadsOn
<1>2. CASE ~p
  <2>1. When(p, m) = <<>> /\ <<>> \in Seq(Message)
    BY <1>2 DEF When
  <2>2. c \o <<>> = c
    BY ConcatEmptySeq
  <2>3. QED
    BY <1>2, <2>1, <2>2
<1>3. QED
  BY <1>1, <1>2

--------------------------------------------------------------------------------
(* Either program.                                                             *)

\* What starting a move does.
Starts(a, d, b) ==
    /\ b \in App /\ b.sel = a.sel /\ b.track = a.track /\ b.view = a.view
    /\ b.move = [from |-> a.view, to |-> d] /\ b.zoom = a.zoom /\ b.fov = a.fov

LEMMA MoveFields ==
    ASSUME NEW a \in App, NEW d \in Directions
    PROVE  Starts(a, d, moveTo(a, d))
<1>1. [from |-> a.view, to |-> d] \in Routes
  BY DEF App, Routes
<1>2. QED
  BY <1>1 DEF Starts, moveTo, App

\* A move is not None, and its ends are directions.
LEMMA RouteFields ==
    ASSUME NEW a \in App, a.move # None
    PROVE  a.move.from \in Directions /\ a.move.to \in Directions
BY DEF App, Routes

LEMMA NoRoute ==
    ASSUME NEW a \in Directions, NEW b \in Directions
    PROVE  [from |-> a, to |-> b] # None
BY ReplicationAssumption DEF Routes

\* What setting the tracking property does.
Toggled(a, t, b) ==
    /\ b \in App
    /\ b.sel = a.sel /\ b.view = a.view /\ b.zoom = a.zoom /\ b.fov = a.fov
    /\ b.track = TRUE <=> t = TRUE /\ (a.track = TRUE \/ a.sel # None)
    /\ t = TRUE /\ ~(a.track = TRUE) /\ a.sel # None =>
           b.move = [from |-> a.view, to |-> a.sel]
    /\ ~(t = TRUE /\ ~(a.track = TRUE) /\ a.sel # None) => b.move = a.move

LEMMA ToggledFields ==
    ASSUME NEW a \in App, NEW t \in BOOLEAN
    PROVE  Toggled(a, t, SetTrackingProperty(a, t))
<1>1. CASE a.track = t
  BY <1>1 DEF SetTrackingProperty, Toggled, App
<1>2. CASE a.track # t /\ t /\ a.sel # None
  <2>1. SetTrackingProperty(a, t) = [moveTo(a, a.sel) EXCEPT !.track = TRUE]
    BY <1>2 DEF SetTrackingProperty, setFlagTracking
  <2>2. Starts(a, a.sel, moveTo(a, a.sel))
    BY <1>2, MoveFields DEF App, Directions
  <2>3. QED
    BY <1>2, <2>1, <2>2 DEF Toggled, App, Starts
<1>3. CASE a.track # t /\ ~(t /\ a.sel # None)
  <2>1. SetTrackingProperty(a, t) = [a EXCEPT !.track = FALSE]
    BY <1>3 DEF SetTrackingProperty, setFlagTracking
  <2>2. a.track \in BOOLEAN
    BY DEF App
  <2>3. QED
    BY <1>3, <2>1, <2>2 DEF Toggled, App
<1>4. QED
  BY <1>1, <1>2, <1>3

\* What selecting an object, or panning, does to the tracking.
Stopped(a, b) ==
    /\ b \in App /\ b.track = FALSE
    /\ b.sel = a.sel /\ b.view = a.view /\ b.move = a.move
    /\ b.zoom = a.zoom /\ b.fov = a.fov

LEMMA StoppedFields ==
    ASSUME NEW a \in App
    PROVE  Stopped(a, setFlagTracking(a, FALSE))
<1>1. CASE a.track
  <2>1. setFlagTracking(a, FALSE) = [a EXCEPT !.track = FALSE]
    BY <1>1 DEF setFlagTracking, App
  <2>2. QED
    BY <2>1 DEF Stopped, App
<1>2. CASE ~a.track
  <2>1. setFlagTracking(a, FALSE) = a /\ a.track = FALSE
    BY <1>2 DEF setFlagTracking, App
  <2>2. QED
    BY <2>1 DEF Stopped
<1>3. QED
  BY <1>1, <1>2

Selected(a, o, b) ==
    /\ b \in App /\ b.sel = o /\ b.track = FALSE
    /\ b.view = a.view /\ b.move = a.move /\ b.zoom = a.zoom /\ b.fov = a.fov

LEMMA SelectedFields ==
    ASSUME NEW a \in App, NEW o \in Objects
    PROVE  Selected(a, o, setSelectedObject(a, o))
<1> DEFINE c == [a EXCEPT !.sel = o]
<1>1. /\ c \in App /\ c.sel = o /\ c.view = a.view /\ c.move = a.move
      /\ c.zoom = a.zoom /\ c.fov = a.fov
  BY DEF App
<1>2. setSelectedObject(a, o) = setFlagTracking(c, FALSE)
  BY DEF setSelectedObject
<1> HIDE DEF c
<1>3. Stopped(c, setFlagTracking(c, FALSE))
  BY <1>1, StoppedFields
<1>4. QED
  BY <1>1, <1>2, <1>3 DEF Stopped, Selected

\* What a frame does: an automatic move goes on, or ends, or the view follows.
Stays(a, b)   == /\ b.move = a.move
                 /\ b.view = IF a.move = None THEN a.view ELSE a.move.from
Arrived(a, b) == a.move # None /\ b.view = a.move.to /\ b.move = None
Keeps(a, b)   == /\ a.move = None /\ b.move = None
                 /\ a.track = TRUE /\ a.sel # None /\ b.view = a.sel
Zoomed(a, b)  == \/ b.zoom = a.zoom /\ b.fov = a.fov
                 \/ a.zoom # None /\ b.zoom = None /\ b.fov = a.zoom
Moved(a, b) ==
    /\ b \in App /\ b.sel = a.sel /\ b.track = a.track
    /\ Stays(a, b) \/ Arrived(a, b) \/ Keeps(a, b)
    /\ Zoomed(a, b)

LEMMA NewViewFields ==
    ASSUME NEW a \in App
    PROVE  /\ NewView(a) \in App
           /\ NewView(a).sel = a.sel /\ NewView(a).track = a.track
           /\ NewView(a).zoom = a.zoom /\ NewView(a).fov = a.fov
           /\ Stays(a, NewView(a)) \/ Arrived(a, NewView(a)) \/ Keeps(a, NewView(a))
<1>1. CASE a.move # None
  <2>1. NewView(a) = [a EXCEPT !.view = a.move.to, !.move = None]
    BY <1>1 DEF NewView
  <2>2. QED
    BY <1>1, <2>1, RouteFields DEF App, Arrived
<1>2. CASE a.move = None /\ Follows(a) # None
  <2>1. NewView(a) = [a EXCEPT !.view = a.sel] /\ a.track = TRUE /\ a.sel # None
    BY <1>2 DEF NewView, Follows, App
  <2>2. QED
    BY <1>2, <2>1 DEF App, Keeps, Directions
<1>3. CASE a.move = None /\ Follows(a) = None
  BY <1>3 DEF NewView, Stays
<1>4. QED
  BY <1>1, <1>2, <1>3

LEMMA MovedFields ==
    ASSUME NEW a \in App, NEW b \in updateMotion(a)
    PROVE  Moved(a, b)
<1>1. PICK c \in Moves(a) : b \in Zooms(c)
  BY DEF updateMotion
<1>2. /\ c \in App /\ c.sel = a.sel /\ c.track = a.track
      /\ c.zoom = a.zoom /\ c.fov = a.fov
      /\ Stays(a, c) \/ Arrived(a, c) \/ Keeps(a, c)
  <2>1. c = NewView(a) \/ (a.move # None /\ c = OnTheWay(a))
    BY <1>1 DEF Moves
  <2>2. CASE c = NewView(a)
    BY <2>2, NewViewFields
  <2>3. CASE a.move # None /\ c = OnTheWay(a)
    BY <2>3, RouteFields DEF OnTheWay, App, Stays
  <2>4. QED
    BY <2>1, <2>2, <2>3
<1>3. /\ b \in App /\ b.sel = c.sel /\ b.track = c.track
      /\ b.view = c.view /\ b.move = c.move /\ Zoomed(c, b)
  <2>1. b = c \/ b = NewFov(c)
    BY <1>1 DEF Zooms
  <2>2. CASE b = c
    BY <1>2, <2>2 DEF Zoomed
  <2>3. CASE b = NewFov(c) /\ c.zoom # None
    <3>1. b = [c EXCEPT !.fov = c.zoom, !.zoom = None]
      BY <2>3 DEF NewFov
    <3>2. QED
      BY <1>2, <2>3, <3>1 DEF App, Zoomed
  <2>4. CASE b = NewFov(c) /\ c.zoom = None
    BY <1>2, <2>4 DEF NewFov, Zoomed
  <2>5. QED
    BY <2>1, <2>2, <2>3, <2>4
<1>4. QED
  BY <1>2, <1>3 DEF Moved, Stays, Arrived, Keeps, Zoomed

\* A program at rest: nothing moves, nothing zooms, the view is the object followed.
LEMMA AtRest ==
    ASSUME NEW a \in App, updateMotion(a) = {a}
    PROVE  /\ a.move = None /\ a.zoom = None
           /\ a.track = TRUE /\ a.sel # None => a.view = a.sel
<1>1. NewFov(NewView(a)) = a
  BY DEF updateMotion, Moves, Zooms
<1>2. NewView(a) \in App /\ NewView(a).zoom = a.zoom
  BY NewViewFields
<1>3. a.zoom = None
  <2>1. SUFFICES ASSUME a.zoom # None PROVE FALSE
    OBVIOUS
  <2>2. NewFov(NewView(a)).zoom = None
    BY <1>2, <2>1 DEF NewFov, App
  <2>3. QED
    BY <1>1, <2>1, <2>2
<1>4. NewView(a) = a
  BY <1>1, <1>2, <1>3 DEF NewFov
<1>5. a.move = None
  <2>1. SUFFICES ASSUME a.move # None PROVE FALSE
    OBVIOUS
  <2>2. NewView(a).move = None
    BY <2>1 DEF NewView, App
  <2>3. QED
    BY <1>4, <2>1, <2>2
<1>6. ASSUME a.track = TRUE, a.sel # None PROVE a.view = a.sel
  <2>1. NewView(a) = [a EXCEPT !.view = a.sel]
    BY <1>5, <1>6 DEF NewView, Follows
  <2>2. NewView(a).view = a.sel
    BY <2>1 DEF App
  <2>3. QED
    BY <1>4, <2>2
<1>7. QED
  BY <1>3, <1>5, <1>6

--------------------------------------------------------------------------------
(* The client.  `exact` says that no message was handled while it was turning. *)

Shadow(x, a, exact) ==
    /\ x \in States
    /\ x.sel = a.sel /\ x.track = a.track /\ x.fov = Bound(a)
    /\ exact => x.goal = Goal(a)

LEMMA GoalFields ==
    ASSUME NEW a \in App
    PROVE  /\ Goal(a) \in Directions /\ Bound(a) \in Fovs
           /\ a.track = TRUE /\ a.sel # None => Goal(a) = a.sel
           /\ ~(a.track = TRUE /\ a.sel # None) /\ a.move # None => Goal(a) = a.move.to
           /\ ~(a.track = TRUE /\ a.sel # None) /\ a.move = None => Goal(a) = a.view
<1>1. a.move # None => a.move.to \in Directions
  BY RouteFields
<1>2. QED
  BY <1>1 DEF Goal, Bound, Follows, App, Directions

\* Every instance has a shadow.
LEMMA HasShadow ==
    ASSUME NEW a \in App
    PROVE  \E x \in States : Shadow(x, a, TRUE)
<1> DEFINE x == [sel |-> a.sel, track |-> a.track, goal |-> Goal(a), fov |-> Bound(a)]
<1>1. x \in States
  BY GoalFields DEF States, App
<1>2. Shadow(x, a, TRUE)
  BY <1>1 DEF Shadow
<1>3. QED
  BY <1>1, <1>2

\* A frame of the client does not move its shadow.
LEMMA FrameKeepsShadow ==
    ASSUME NEW a \in App, NEW b \in updateMotion(a), NEW x, NEW exact \in BOOLEAN,
           Shadow(x, a, exact)
    PROVE  Shadow(x, b, exact)
<1>1. Moved(a, b)
  BY MovedFields
<1>2. Bound(b) = Bound(a)
  <2>1. None \notin Fovs /\ a.fov \in Fovs /\ b.fov \in Fovs
    BY <1>1, ReplicationAssumption DEF Moved, App
  <2>2. QED
    BY <1>1, <2>1 DEF Moved, Zoomed, Bound, App
<1>3. Goal(b) = Goal(a)
  <2>1. b.sel = a.sel /\ b.track = a.track /\ b \in App
    BY <1>1 DEF Moved
  <2>2. CASE a.track = TRUE /\ a.sel # None
    BY <2>1, <2>2, GoalFields
  <2>3. CASE ~(a.track = TRUE /\ a.sel # None)
    BY <1>1, <2>1, <2>3, GoalFields DEF Moved, Stays, Arrived, Keeps
  <2>4. QED
    BY <2>2, <2>3
<1>4. QED
  BY <1>1, <1>2, <1>3 DEF Shadow, Moved

\* What a handler does to the client is what Step does to its shadow.
LEMMA HandlerMovesShadow ==
    ASSUME NEW a \in App, NEW m \in Message, NEW x, NEW exact \in BOOLEAN,
           Shadow(x, a, exact)
    PROVE  /\ Apply(a, m) \in App
           /\ Shadow(Step(x, m), Apply(a, m), exact /\ NewView(a) = a)
<1> DEFINE b == Apply(a, m)  y == Step(x, m)  still == NewView(a) = a
<1> SUFFICES b \in App /\ Shadow(y, b, exact /\ still)
  OBVIOUS
<1>0. /\ x \in States /\ x.sel = a.sel /\ x.track = a.track /\ x.fov = Bound(a)
      /\ exact => x.goal = Goal(a)
      /\ a.track \in BOOLEAN
  BY DEF Shadow, App
<1>1. /\ y \in States
      /\ m.type = "SELECTION" => Selects(x, m, y)
      /\ m.type = "STELPROPERTY" => Tracks(x, m, y)
      /\ m.type = "VIEW" => Shows(x, m, y)
      /\ m.type = "FOV" => Widens(x, m, y)
  BY <1>0, StepFields
<1>2. still => /\ a.move = None /\ Goal(a) = a.view
               /\ a.track = TRUE /\ a.sel # None => a.view = a.sel
  <2>1. SUFFICES ASSUME still
                 PROVE  /\ a.move = None /\ Goal(a) = a.view
                        /\ a.track = TRUE /\ a.sel # None => a.view = a.sel
    OBVIOUS
  <2>2. a.move = None
    <3>1. a.move # None => NewView(a).move = None
      BY DEF NewView, App
    <3>2. QED
      BY <2>1, <3>1
  <2>3. a.track = TRUE /\ a.sel # None => a.view = a.sel
    <3>1. a.track = TRUE /\ a.sel # None => NewView(a).view = a.sel
      BY <2>2 DEF NewView, Follows, App
    <3>2. QED
      BY <2>1, <3>1
  <2>4. QED
    BY <2>2, <2>3, GoalFields
<1>3. CASE m.type = "SELECTION" /\ m.sel = None
  <2>1. b = [a EXCEPT !.sel = None]
    BY <1>3 DEF Apply, unSelect
  <2>2. /\ b \in App /\ b.sel = None /\ b.track = a.track /\ b.view = a.view
        /\ b.move = a.move /\ Bound(b) = Bound(a)
    BY <2>1 DEF App, Bound
  <2>3. y.sel = None /\ y.goal = x.goal /\ y.fov = x.fov
    BY <1>1, <1>3 DEF Selects
  <2>4. y.track = x.track
    BY <1>0, <1>1, <1>3 DEF Selects, States
  <2>5. still => Goal(b) = a.view
    BY <1>2, <2>2, GoalFields
  <2> HIDE DEF b, y
  <2>6. QED
    BY <1>0, <1>1, <1>2, <2>2, <2>3, <2>4, <2>5 DEF Shadow
<1>4. CASE m.type = "SELECTION" /\ m.sel # None
  <2>1. m.sel \in Objects
    BY <1>4 DEF Message
  <2>2. b = setSelectedObject(a, m.sel)
    BY <1>4 DEF Apply
  <2>3. Selected(a, m.sel, b)
    BY <2>1, <2>2, SelectedFields
  <2>4. b \in App /\ Bound(b) = Bound(a)
    BY <2>3 DEF Selected, Bound
  <2>5. y.sel = m.sel /\ y.goal = x.goal /\ y.fov = x.fov /\ ~(y.track = TRUE)
    BY <1>1, <1>4 DEF Selects
  <2>6. y.track = FALSE
    BY <1>1, <2>5 DEF States
  <2>7. still => Goal(b) = a.view
    BY <1>2, <2>3, <2>4, GoalFields DEF Selected
  <2> HIDE DEF b, y
  <2>8. QED
    BY <1>0, <1>1, <1>2, <2>3, <2>4, <2>5, <2>6, <2>7 DEF Shadow, Selected
<1>5. CASE m.type = "STELPROPERTY"
  <2>1. m.tracking \in BOOLEAN
    BY <1>5 DEF Message
  <2>2. b = SetTrackingProperty(a, m.tracking)
    BY <1>5 DEF Apply
  <2>3. Toggled(a, m.tracking, b)
    BY <2>1, <2>2, ToggledFields
  <2>4. b \in App /\ Bound(b) = Bound(a)
    BY <2>3 DEF Toggled, Bound
  <2>5. Tracks(x, m, y)
    BY <1>1, <1>5
  <2>6. y.track = b.track
    <3>1. y.track = TRUE <=> b.track = TRUE
      BY <1>0, <2>3, <2>5 DEF Toggled, Tracks
    <3>2. y.track \in BOOLEAN /\ b.track \in BOOLEAN
      BY <1>1, <2>4 DEF States, App
    <3>3. QED
      BY <3>1, <3>2
  <2>7. ASSUME exact, still PROVE y.goal = Goal(b)
    <3>1. b.sel = a.sel /\ b.view = a.view /\ x.goal = a.view
      BY <1>0, <1>2, <2>3, <2>7 DEF Toggled
    <3>2. CASE m.tracking = TRUE /\ ~(a.track = TRUE) /\ a.sel # None
      <4>1. y.goal = a.sel /\ b.track = TRUE
        BY <1>0, <2>3, <2>5, <3>2 DEF Tracks, Toggled
      <4>2. QED
        BY <2>4, <3>1, <3>2, <4>1, GoalFields
    <3>3. CASE ~(m.tracking = TRUE /\ ~(a.track = TRUE) /\ a.sel # None)
      <4>1. y.goal = a.view /\ b.move = None
        BY <1>0, <1>2, <2>3, <2>5, <2>7, <3>1, <3>3 DEF Tracks, Toggled
      <4>2. b.track = TRUE /\ b.sel # None => a.track = TRUE /\ a.sel # None
        BY <2>3, <3>1, <3>3 DEF Toggled
      <4>3. Goal(b) = a.view
        BY <1>2, <2>4, <2>7, <3>1, <4>1, <4>2, GoalFields
      <4>4. QED
        BY <4>1, <4>3
    <3>4. QED
      BY <3>2, <3>3
  <2> HIDE DEF b, y
  <2>8. QED
    BY <1>0, <1>1, <2>3, <2>4, <2>5, <2>6, <2>7 DEF Shadow, Toggled, Tracks
<1>6. CASE m.type = "VIEW"
  <2>1. m.view \in Directions
    BY <1>6 DEF Message
  <2>2. b = [a EXCEPT !.view = m.view]
    BY <1>6 DEF Apply
  <2>3. /\ b \in App /\ b.sel = a.sel /\ b.track = a.track /\ b.view = m.view
        /\ b.move = a.move /\ Bound(b) = Bound(a)
    BY <2>1, <2>2 DEF App, Bound
  <2>4. Shows(x, m, y)
    BY <1>1, <1>6
  <2>5. ASSUME exact, still PROVE y.goal = Goal(b)
    BY <1>0, <1>2, <2>3, <2>4, <2>5, GoalFields DEF Shows
  <2> HIDE DEF b, y
  <2>6. QED
    BY <1>0, <1>1, <2>3, <2>4, <2>5 DEF Shadow, Shows
<1>7. CASE m.type = "FOV"
  <2>1. m.fov \in Fovs /\ m.fov # None
    BY <1>7, ReplicationAssumption DEF Message
  <2>2. b = [a EXCEPT !.zoom = m.fov]
    BY <1>7 DEF Apply
  <2>3. /\ b \in App /\ b.sel = a.sel /\ b.track = a.track /\ b.view = a.view
        /\ b.move = a.move /\ Bound(b) = m.fov
    BY <2>1, <2>2 DEF App, Bound
  <2>4. Widens(x, m, y)
    BY <1>1, <1>7
  <2>5. Goal(b) = Goal(a)
    BY <2>3 DEF Goal, Follows
  <2> HIDE DEF b, y
  <2>6. QED
    BY <1>0, <1>1, <2>3, <2>4, <2>5 DEF Shadow, Widens
<1>8. m.type \in {"SELECTION", "STELPROPERTY", "VIEW", "FOV"}
  BY DEF Message
<1>9. QED
  BY <1>3, <1>4, <1>5, <1>6, <1>7, <1>8

--------------------------------------------------------------------------------
(* The invariant.                                                              *)

\* Where the server is going to look, but for what it follows.
Target == IF server.move # None THEN server.move.to ELSE server.view

\* The directions where there is no object come from the user.
Known ==
    /\ \A d \in {server.view, lastView} : d \in Places => d \in seen
    /\ server.move # None =>
          \A d \in {server.move.from, server.move.to} : d \in Places => d \in seen

\* If the server follows an object and is on its way to what was sent last, then
\* that is the object.
FollowSent ==
    server.track = TRUE /\ server.sel # None /\ "revisit" \notin unusual
        /\ Target = lastView => server.sel = lastView

\* After a frame without tracking the view has been sent.
ShownSent == acted = FALSE /\ server.track = FALSE =>
                 server.view = lastView \/ lastView = None

\* An automatic move to what was sent last starts there.
MoveSent ==
    "quick" \notin unusual /\ "revisit" \notin unusual
        /\ (server.track = TRUE \/ acted = FALSE)
        /\ server.move # None /\ server.move.to = lastView =>
            server.move.from = lastView /\ (acted = FALSE => server.view = lastView)

\* A selection that has not been sent was made since the last frame, and has
\* stopped the tracking.
DirtyStops ==
    "quick" \notin unusual /\ selDirty = TRUE =>
        acted = TRUE /\ (server.sel # None => server.track = FALSE)

ServerInv == /\ Known /\ FollowSent /\ ShownSent /\ MoveSent /\ DirtyStops
             /\ lastFov \in {None, server.fov}

\* What the client will be when it has handled all messages.
Arrives(y) ==
    /\ selDirty = FALSE => y.sel = server.sel
    /\ y.fov = server.fov
    /\ "quick" \notin unusual =>
          /\ y.track = TRUE => server.track = TRUE
          /\ server.track = TRUE /\ server.sel # None /\ selDirty = FALSE => y.track = TRUE
    /\ "lag" \notin unusual /\ y.track = TRUE /\ y.sel # None => y.goal = y.sel
    /\ unusual = {} /\ Target = lastView => y.goal = lastView

Reaches ==
    joined = TRUE =>
        \E x, y \in States : /\ Leads(x, chan, y) /\ Arrives(y)
                             /\ Shadow(x, client, "lag" \notin unusual)

IInv == TypeOK /\ ServerInv /\ Reaches

LEMMA InitIInv == Init => IInv
<1> SUFFICES ASSUME Init PROVE IInv
  OBVIOUS
<1>1. /\ server \in [sel : {None}, track : {FALSE}, move : {None},
                     view : Places, zoom : {None}, fov : Fovs]
      /\ client \in App /\ selDirty = FALSE /\ lastView = None /\ lastFov = None
      /\ joined = FALSE /\ chan = <<>> /\ changes = 0 /\ acted = FALSE
      /\ seen = {server.view} /\ unusual = {}
  BY DEF Init
<1>2. TypeOK
  <2>1. chan \in Seq(Message)
    BY <1>1, EmptySeq
  <2>2. server \in App /\ server.view \in Directions
    BY <1>1 DEF App, Directions
  <2>3. changes \in 0..MaxChanges
    BY <1>1, ReplicationAssumption
  <2>4. QED
    BY <1>1, <2>1, <2>2, <2>3 DEF TypeOK, Unusual
<1>3. ServerInv
  <2>1. None \notin Places
    BY ReplicationAssumption DEF Directions
  <2>2. QED
    BY <1>1, <2>1 DEF ServerInv, Known, FollowSent, ShownSent, MoveSent, DirtyStops
<1>4. QED
  BY <1>1, <1>2, <1>3 DEF IInv, Reaches

--------------------------------------------------------------------------------
(* The user of the server.                                                     *)

\* What every event of the user does to the rest of the state.
Acts(a, dirty) ==
    /\ acted' = TRUE /\ seen \subseteq seen'
    /\ unusual \subseteq unusual' /\ unusual' \subseteq Unusual
    /\ acted = TRUE => "quick" \in unusual'
    /\ "lag" \in unusual' => "lag" \in unusual
    /\ server' = a /\ selDirty' = (selDirty \/ dirty)
    /\ client' = client /\ lastView' = lastView /\ lastFov' = lastFov
    /\ joined' = joined

\* What it makes of the client to come.
Hears(y, z, a, told) ==
    /\ told = FALSE => z = y
    /\ told = TRUE => Tracks(y, [type |-> "STELPROPERTY", tracking |-> a.track], z)

\* A change of the tracking is told.
Tells(a, told) == told \in BOOLEAN /\ (told = FALSE => a.track = server.track)

Lands(a, told) == \A y, z \in States : Arrives(y) /\ Hears(y, z, a, told) => Arrives(z)'

LEMMA UserActs ==
    ASSUME TypeOK, NEW a \in App, NEW told \in BOOLEAN, NEW dirty \in BOOLEAN,
           NEW looked \in SUBSET Directions, NEW odd \in SUBSET {"revisit"},
           UserEvent(a, told, dirty, looked, odd)
    PROVE  Acts(a, dirty) /\ seen' = seen \union looked /\ odd \subseteq unusual' /\ TypeOK'
<1>1. /\ changes < MaxChanges /\ changes' = changes + 1 /\ acted' = TRUE
      /\ seen' = seen \union looked
      /\ unusual' = unusual \union odd \union (IF acted THEN {"quick"} ELSE {})
      /\ server' = a /\ selDirty' = (selDirty \/ dirty)
      /\ Broadcast(TrackingMsgs(told, a))
      /\ client' = client /\ lastView' = lastView /\ lastFov' = lastFov
      /\ joined' = joined
  BY DEF UserEvent
<1>2. Acts(a, dirty) /\ odd \subseteq unusual'
  BY <1>1 DEF Acts, TypeOK, Unusual
<1>3. chan' \in Seq(Message)
  <2>1. TrackingMsgs(told, a) \in Seq(Message)
    <3>1. CASE ~told
      <4>1. TrackingMsgs(told, a) = <<>>
        BY <3>1 DEF TrackingMsgs
      <4>2. QED
        BY <4>1, EmptySeq
    <3>2. CASE told
      <4> DEFINE m == [type |-> "STELPROPERTY", tracking |-> a.track]
      <4>1. TrackingMsgs(told, a) = <<m>>
        BY <3>2 DEF TrackingMsgs
      <4>2. m \in Message
        BY DEF Message, App
      <4> HIDE DEF m
      <4>3. QED
        BY <4>1, <4>2
    <3>3. QED
      BY <3>1, <3>2
  <2>2. QED
    BY <1>1, <2>1, ConcatProperties DEF Broadcast, TypeOK
<1>4. changes' \in 0..MaxChanges
  BY <1>1, ReplicationAssumption DEF TypeOK
<1>5. selDirty' \in BOOLEAN
  BY <1>1
<1>6. QED
  BY <1>1, <1>2, <1>3, <1>4, <1>5 DEF TypeOK, Acts

LEMMA UserTells ==
    ASSUME TypeOK, Reaches, NEW a \in App, NEW told \in BOOLEAN, NEW dirty \in BOOLEAN,
           Acts(a, dirty), Broadcast(TrackingMsgs(told, a)), Lands(a, told)
    PROVE  Reaches'
<1> SUFFICES ASSUME joined = TRUE
             PROVE  \E x, z \in States : /\ Leads(x, chan', z) /\ Arrives(z)'
                                         /\ Shadow(x, client', "lag" \notin unusual')
  BY DEF Acts, Reaches, Leads
<1>1. PICK x \in States, y \in States :
          /\ Leads(x, chan, y) /\ Arrives(y) /\ Shadow(x, client, "lag" \notin unusual)
  BY DEF Reaches
<1>2. Shadow(x, client', "lag" \notin unusual')
  BY <1>1 DEF Acts, Shadow
<1>3. chan \in Seq(Message)
  BY DEF TypeOK
<1>4. \E z \in States : Leads(x, chan', z) /\ Hears(y, z, a, told)
  <2>1. CASE ~told
    <3>1. chan' = chan
      BY <1>3, <2>1, ConcatEmptySeq DEF Broadcast, TrackingMsgs
    <3>2. QED
      BY <1>1, <2>1, <3>1 DEF Hears
  <2>2. CASE told
    <3> DEFINE m == [type |-> "STELPROPERTY", tracking |-> a.track]
    <3>1. m \in Message /\ m.type = "STELPROPERTY"
      BY DEF Message, App
    <3>2. chan' = chan \o <<m>>
      BY <2>2 DEF Broadcast, TrackingMsgs
    <3>3. Tracks(y, m, Step(y, m)) /\ Step(y, m) \in States
      BY <3>1, StepFields
    <3>4. Hears(y, Step(y, m), a, told)
      BY <2>2, <3>3 DEF Hears
    <3>5. Leads(x, chan', Step(y, m))
      BY <1>1, <1>3, <3>1, <3>2, LeadsOn
    <3>6. QED
      BY <3>3, <3>4, <3>5
  <2>3. QED
    BY <2>1, <2>2
<1>5. QED
  BY <1>1, <1>2, <1>4 DEF Lands

\* The tracking is stopped and nothing is looked at: Select, and the tracking
\* button when it stops.
LEMMA StopKeeps ==
    ASSUME TypeOK, TypeOK', ServerInv, NEW a \in App, NEW told, Tells(a, told),
           NEW dirty \in BOOLEAN, Acts(a, dirty),
           a.track = FALSE, a.view = server.view, a.move = server.move, a.fov = server.fov,
           dirty = TRUE \/ a.sel = server.sel
    PROVE  ServerInv' /\ Lands(a, told)
<1>0. /\ acted' = TRUE /\ seen \subseteq seen' /\ unusual \subseteq unusual'
      /\ server' = a /\ lastView' = lastView /\ lastFov' = lastFov
      /\ selDirty \in BOOLEAN /\ server.track \in BOOLEAN
      /\ dirty = TRUE => selDirty' = TRUE
      /\ dirty = FALSE => selDirty' = selDirty
      /\ Target' = Target
  BY DEF Acts, TypeOK, App, Target
<1>1. ServerInv'
  BY <1>0 DEF ServerInv, Known, FollowSent, ShownSent, MoveSent, DirtyStops
<1>2. ASSUME NEW y \in States, NEW z \in States, Arrives(y), Hears(y, z, a, told)
      PROVE  Arrives(z)'
  <2>1. /\ z.sel = y.sel /\ z.fov = y.fov /\ z.goal = y.goal
        /\ z.track = TRUE => y.track = TRUE /\ server.track = FALSE
    BY <1>0, <1>2 DEF Hears, Tracks, Tells
  <2>2. "quick" \notin unusual' => ~(z.track = TRUE)
    BY <1>0, <1>2, <2>1 DEF Arrives
  <2>3. QED
    BY <1>0, <1>2, <2>1, <2>2 DEF Arrives, ServerInv
<1>3. QED
  BY <1>1, <1>2 DEF Lands

LEMMA DeselectKeeps ==
    ASSUME TypeOK, TypeOK', ServerInv, NEW a \in App, NEW told, told = FALSE,
           Acts(a, TRUE),
           a = [server EXCEPT !.sel = None]
    PROVE  ServerInv' /\ Lands(a, told)
<1>0. /\ acted' = TRUE /\ seen \subseteq seen' /\ unusual \subseteq unusual'
      /\ server' = a /\ lastView' = lastView /\ lastFov' = lastFov
      /\ selDirty' = TRUE
      /\ a.sel = None /\ a.track = server.track /\ a.view = server.view
      /\ a.move = server.move /\ a.fov = server.fov
      /\ Target' = Target
  BY DEF Acts, TypeOK, App, Target
<1>1. ServerInv'
  BY <1>0 DEF ServerInv, Known, FollowSent, ShownSent, MoveSent, DirtyStops
<1>2. ASSUME NEW y \in States, NEW z \in States, Arrives(y), Hears(y, z, a, told)
      PROVE  Arrives(z)'
  BY <1>0, <1>2 DEF Hears, Arrives
<1>3. QED
  BY <1>1, <1>2 DEF Lands

\* The tracking button when it starts the tracking: without "quick" the selection
\* has been sent.
LEMMA StartKeeps ==
    ASSUME TypeOK, TypeOK', ServerInv, NEW a \in App, NEW told, told = TRUE,
           Acts(a, FALSE), Toggled(server, TRUE, a), server.track = FALSE
    PROVE  ServerInv' /\ Lands(a, told)
<1>0. /\ acted' = TRUE /\ seen \subseteq seen' /\ unusual \subseteq unusual'
      /\ acted = TRUE => "quick" \in unusual'
      /\ server' = a /\ lastView' = lastView /\ lastFov' = lastFov
      /\ selDirty' = selDirty /\ selDirty \in BOOLEAN /\ acted \in BOOLEAN
      /\ a.sel = server.sel /\ a.view = server.view /\ a.fov = server.fov
      /\ a.track \in BOOLEAN
      /\ server.sel \in Objects \union {None}
  BY DEF Acts, TypeOK, App, Toggled
<1>1. CASE server.sel = None
  <2>1. a.track = FALSE /\ a.move = server.move
    BY <1>0, <1>1 DEF Toggled
  <2>2. QED
    BY <1>0, <2>1, StopKeeps DEF Tells
<1>2. CASE server.sel # None
  <2>1. /\ a.track = TRUE /\ a.move = [from |-> server.view, to |-> server.sel]
        /\ a.move # None /\ a.move.from = server.view /\ a.move.to = server.sel
        /\ Target' = server.sel /\ server.sel \notin Places
    <3>1. a.track = TRUE /\ a.move = [from |-> server.view, to |-> server.sel]
      BY <1>0, <1>2 DEF Toggled
    <3>2. server.view \in Directions /\ server.sel \in Directions
      BY <1>0, <1>2 DEF TypeOK, App, Directions
    <3>3. a.move # None
      BY <3>1, <3>2, NoRoute
    <3>4. QED
      BY <1>0, <1>2, <3>1, <3>3, ReplicationAssumption DEF Target
  <2>2. "quick" \notin unusual' => acted = FALSE /\ selDirty = FALSE
    BY <1>0 DEF ServerInv, DirtyStops
  <2>3. ServerInv'
    <3>1. Known' /\ FollowSent' /\ ShownSent'
      BY <1>0, <2>1 DEF ServerInv, Known, FollowSent, ShownSent
    <3>2. MoveSent'
      <4>1. "quick" \notin unusual' => server.view = lastView \/ lastView = None
        BY <2>2 DEF ServerInv, ShownSent
      <4>2. QED
        BY <1>0, <1>2, <2>1, <4>1 DEF MoveSent
    <3>3. DirtyStops' /\ lastFov' \in {None, server'.fov}
      BY <1>0, <2>2 DEF DirtyStops, ServerInv
    <3>4. QED
      BY <3>1, <3>2, <3>3 DEF ServerInv
  <2>4. ASSUME NEW y \in States, NEW z \in States, Arrives(y), Hears(y, z, a, told)
        PROVE  Arrives(z)'
    <3>1. /\ z.sel = y.sel /\ z.fov = y.fov
          /\ z.track = TRUE <=> y.track = TRUE \/ y.sel # None
          /\ ~(y.track = TRUE) /\ y.sel # None => z.goal = y.sel
          /\ ~(~(y.track = TRUE) /\ y.sel # None) => z.goal = y.goal
      BY <2>1, <2>4 DEF Hears, Tracks, Tells
    <3>2. "quick" \notin unusual' => y.sel = server.sel /\ ~(y.track = TRUE)
      BY <1>0, <2>2, <2>4 DEF Arrives
    <3>3. "lag" \notin unusual' /\ z.track = TRUE /\ z.sel # None => z.goal = z.sel
      BY <1>0, <2>4, <3>1 DEF Arrives
    <3>4. unusual' = {} /\ Target' = lastView' => z.goal = lastView'
      BY <1>0, <1>2, <2>1, <3>1, <3>2
    <3>5. QED
      BY <1>0, <1>2, <2>1, <2>4, <3>1, <3>2, <3>3, <3>4 DEF Arrives
  <2>5. QED
    BY <2>3, <2>4 DEF Lands
<1>3. QED
  BY <1>1, <1>2

\* Dragging: the direction is new, or the user is unusual.
LEMMA DragKeeps ==
    ASSUME TypeOK, TypeOK', ServerInv, NEW a \in App, NEW told, Tells(a, told),
           NEW d \in Places, Acts(a, FALSE),
           a.track = FALSE, a.view = d, a.move = server.move, a.fov = server.fov,
           a.sel = server.sel, d \in seen', d \in seen => "revisit" \in unusual'
    PROVE  ServerInv' /\ Lands(a, told)
<1>0. /\ acted' = TRUE /\ seen \subseteq seen' /\ unusual \subseteq unusual'
      /\ server' = a /\ lastView' = lastView /\ lastFov' = lastFov
      /\ selDirty' = selDirty /\ selDirty \in BOOLEAN /\ server.track \in BOOLEAN
      /\ Target' = IF server.move # None THEN server.move.to ELSE d
  BY DEF Acts, TypeOK, App, Target
<1>1. ServerInv'
  BY <1>0 DEF ServerInv, Known, FollowSent, ShownSent, MoveSent, DirtyStops
<1>2. "revisit" \notin unusual' => d # lastView
  BY DEF ServerInv, Known
<1>3. unusual' = {} /\ Target' = lastView' => unusual = {} /\ Target = lastView
  BY <1>0, <1>2 DEF Target
<1>4. ASSUME NEW y \in States, NEW z \in States, Arrives(y), Hears(y, z, a, told)
      PROVE  Arrives(z)'
  <2>1. /\ z.sel = y.sel /\ z.fov = y.fov /\ z.goal = y.goal
        /\ z.track = TRUE => y.track = TRUE /\ server.track = FALSE
    BY <1>0, <1>4 DEF Hears, Tracks, Tells
  <2>2. "quick" \notin unusual' => ~(z.track = TRUE)
    BY <1>0, <1>4, <2>1 DEF Arrives
  <2>3. QED
    BY <1>0, <1>3, <1>4, <2>1, <2>2 DEF Arrives, ServerInv
<1>5. QED
  BY <1>1, <1>4 DEF Lands

\* "Look north": the direction is new, or the user is unusual.
LEMMA LookKeeps ==
    ASSUME TypeOK, TypeOK', ServerInv, NEW a \in App, NEW told, told = FALSE,
           NEW d \in Places, Acts(a, FALSE),
           a.track = server.track, a.view = d, a.move = server.move, a.fov = server.fov,
           a.sel = server.sel, d \in seen', d \in seen => "revisit" \in unusual'
    PROVE  ServerInv' /\ Lands(a, told)
<1>0. /\ acted' = TRUE /\ seen \subseteq seen' /\ unusual \subseteq unusual'
      /\ server' = a /\ lastView' = lastView /\ lastFov' = lastFov
      /\ selDirty' = selDirty /\ selDirty \in BOOLEAN
      /\ Target' = IF server.move # None THEN server.move.to ELSE d
  BY DEF Acts, TypeOK, Target
<1>1. "revisit" \notin unusual' => d # lastView
  BY DEF ServerInv, Known
<1>2. ServerInv'
  BY <1>0, <1>1 DEF ServerInv, Known, FollowSent, ShownSent, MoveSent, DirtyStops, Target
<1>3. unusual' = {} /\ Target' = lastView' => unusual = {} /\ Target = lastView
  BY <1>0, <1>1 DEF Target
<1>4. ASSUME NEW y \in States, NEW z \in States, Arrives(y), Hears(y, z, a, told)
      PROVE  Arrives(z)'
  BY <1>0, <1>3, <1>4 DEF Hears, Arrives
<1>5. QED
  BY <1>2, <1>4 DEF Lands

\* A move to a direction that is new, unless the user is unusual.
LEMMA RouteKeeps ==
    ASSUME TypeOK, TypeOK', ServerInv, NEW a \in App, NEW told, Tells(a, told),
           told = TRUE => a.track = FALSE,
           NEW dirty \in BOOLEAN, NEW d \in Places, Acts(a, dirty),
           a.view = server.view, a.move = [from |-> server.view, to |-> d],
           a.fov = server.fov,
           (a.sel = server.sel /\ dirty = FALSE) \/ (a.sel = None /\ dirty = TRUE),
           d \in seen', d \in seen => "revisit" \in unusual'
    PROVE  ServerInv' /\ Lands(a, told)
<1>0. /\ acted' = TRUE /\ seen \subseteq seen' /\ unusual \subseteq unusual'
      /\ server' = a /\ lastView' = lastView /\ lastFov' = lastFov
      /\ selDirty \in BOOLEAN /\ a.track \in BOOLEAN /\ server.track \in BOOLEAN
      /\ dirty = TRUE => selDirty' = TRUE
      /\ dirty = FALSE => selDirty' = selDirty
      /\ a.track = TRUE => server.track = TRUE
  BY DEF Acts, TypeOK, App, Tells
<1>1. a.move # None /\ a.move.from = server.view /\ a.move.to = d /\ Target' = d
  <2>1. server.view \in Directions /\ d \in Directions
    BY DEF TypeOK, App, Directions
  <2>2. a.move # None
    BY <2>1, NoRoute
  <2>3. QED
    BY <1>0, <2>2 DEF Target
<1>2. "revisit" \notin unusual' => d # lastView
  BY DEF ServerInv, Known
<1>3. ServerInv'
  <2>1. Known' /\ ShownSent'
    BY <1>0, <1>1 DEF ServerInv, Known, ShownSent
  <2>2. FollowSent' /\ MoveSent'
    <3>1. "revisit" \notin unusual' => server'.move.to # lastView' /\ Target' # lastView'
      BY <1>0, <1>1, <1>2
    <3>2. FollowSent'
      BY ONLY <3>1 DEF FollowSent
    <3>3. MoveSent'
      BY ONLY <3>1 DEF MoveSent
    <3>4. QED
      BY <3>2, <3>3
  <2>3. DirtyStops' /\ lastFov' \in {None, server'.fov}
    BY <1>0 DEF ServerInv, DirtyStops
  <2>4. QED
    BY <2>1, <2>2, <2>3 DEF ServerInv
<1>4. ASSUME NEW y \in States, NEW z \in States, Arrives(y), Hears(y, z, a, told)
      PROVE  Arrives(z)'
  <2>1. /\ z.sel = y.sel /\ z.fov = y.fov /\ z.goal = y.goal
        /\ z.track = TRUE => y.track = TRUE /\ told = FALSE
        /\ told = FALSE => z.track = y.track /\ a.track = server.track
    BY <1>0, <1>4 DEF Hears, Tracks, Tells
  <2>2. "quick" \notin unusual' =>
           /\ z.track = TRUE => a.track = TRUE
           /\ a.track = TRUE /\ a.sel # None /\ selDirty' = FALSE => z.track = TRUE
    BY <1>0, <1>4, <2>1 DEF Arrives, Tells
  <2>3. selDirty' = FALSE => z.sel = a.sel
    BY <1>0, <1>4, <2>1 DEF Arrives
  <2>4. ~(unusual' = {} /\ Target' = lastView')
    BY <1>0, <1>1, <1>2
  <2>5. "lag" \notin unusual' /\ z.track = TRUE /\ z.sel # None => z.goal = z.sel
    BY <1>0, <1>4, <2>1 DEF Arrives
  <2>6. z.fov = a.fov
    BY <1>4, <2>1 DEF Arrives
  <2>7. QED
    BY <1>0, <2>2, <2>3, <2>4, <2>5, <2>6 DEF Arrives
<1>5. QED
  BY <1>3, <1>4 DEF Lands

LEMMA ZoomKeeps ==
    ASSUME TypeOK, TypeOK', ServerInv, NEW a \in App, NEW told, told = FALSE,
           Acts(a, FALSE),
           a.track = server.track, a.view = server.view, a.move = server.move,
           a.fov = server.fov, a.sel = server.sel
    PROVE  ServerInv' /\ Lands(a, told)
<1>0. /\ acted' = TRUE /\ seen \subseteq seen' /\ unusual \subseteq unusual'
      /\ server' = a /\ lastView' = lastView /\ lastFov' = lastFov
      /\ selDirty' = selDirty /\ selDirty \in BOOLEAN
      /\ Target' = Target
  BY DEF Acts, TypeOK, Target
<1>1. ServerInv'
  BY <1>0 DEF ServerInv, Known, FollowSent, ShownSent, MoveSent, DirtyStops
<1>2. ASSUME NEW y \in States, NEW z \in States, Arrives(y), Hears(y, z, a, told)
      PROVE  Arrives(z)'
  BY <1>0, <1>2 DEF Hears, Arrives
<1>3. QED
  BY <1>1, <1>2 DEF Lands

LEMMA UserKeeps == IInv /\ User => IInv'
<1> SUFFICES ASSUME IInv, User PROVE IInv'
  OBVIOUS
<1>0. TypeOK /\ ServerInv /\ Reaches /\ server \in App /\ server.track \in BOOLEAN
  BY DEF IInv, TypeOK, App
<1>1. ASSUME NEW a \in App, NEW told \in BOOLEAN, NEW dirty \in BOOLEAN,
             NEW looked, NEW odd, UserEvent(a, told, dirty, looked, odd),
             Acts(a, dirty), TypeOK', ServerInv' /\ Lands(a, told)
      PROVE  IInv'
  <2>1. Broadcast(TrackingMsgs(told, a))
    BY <1>1 DEF UserEvent
  <2>2. QED
    BY <1>0, <1>1, <2>1, UserTells DEF IInv
<1>2. ASSUME NEW o \in Objects, Select(o) PROVE IInv'
  <2> DEFINE a == setSelectedObject(server, o)  told == Emits(server, FALSE)
  <2>1. Selected(server, o, a)
    BY <1>0, SelectedFields
  <2>2. UserEvent(a, told, TRUE, {}, {})
    BY <1>2 DEF Select
  <2>3. told \in BOOLEAN /\ (told = FALSE => server.track = FALSE)
    BY DEF Emits
  <2> HIDE DEF a, told
  <2>4. a \in App /\ Acts(a, TRUE) /\ TypeOK' /\ Tells(a, told)
    BY <1>0, <2>1, <2>2, <2>3, UserActs DEF Selected, Tells
  <2>5. ServerInv' /\ Lands(a, told)
    BY <1>0, <2>1, <2>4, StopKeeps DEF Selected
  <2>6. QED
    BY <1>1, <2>2, <2>3, <2>4, <2>5
<1>3. ASSUME Deselect PROVE IInv'
  <2> DEFINE a == unSelect(server)
  <2>1. a = [server EXCEPT !.sel = None] /\ a \in App
    BY <1>0 DEF unSelect, App
  <2>2. UserEvent(a, FALSE, TRUE, {}, {})
    BY <1>3 DEF Deselect
  <2> HIDE DEF a
  <2>3. Acts(a, TRUE) /\ TypeOK'
    BY <1>0, <2>1, <2>2, UserActs
  <2>4. ServerInv' /\ Lands(a, FALSE)
    BY <1>0, <2>1, <2>3, DeselectKeeps
  <2>5. QED
    BY <1>1, <2>1, <2>2, <2>3, <2>4
<1>4. ASSUME ToggleTracking PROVE IInv'
  <2> DEFINE a == SetTrackingProperty(server, ~server.track)
  <2>1. Toggled(server, ~server.track, a)
    BY <1>0, ToggledFields DEF App
  <2>2. Emits(server, ~server.track) = TRUE
    BY <1>0 DEF Emits
  <2>3. UserEvent(a, TRUE, FALSE, {}, {})
    BY <1>4, <2>2 DEF ToggleTracking
  <2> HIDE DEF a
  <2>4. a \in App /\ Acts(a, FALSE) /\ TypeOK'
    BY <1>0, <2>1, <2>3, UserActs DEF Toggled
  <2>5. CASE server.track = TRUE
    <3>1. ~server.track = FALSE
      BY <2>5
    <3>2. /\ a.track = FALSE /\ a.view = server.view /\ a.move = server.move
          /\ a.fov = server.fov /\ a.sel = server.sel
      BY <2>1, <2>4, <3>1 DEF Toggled, App
    <3>3. ServerInv' /\ Lands(a, TRUE)
      BY <1>0, <2>4, <3>2, StopKeeps DEF Tells
    <3>4. QED
      BY <1>1, <2>3, <2>4, <3>3
  <2>6. CASE server.track = FALSE
    <3>1. ~server.track = TRUE
      BY <2>6
    <3>2. ServerInv' /\ Lands(a, TRUE)
      BY <1>0, <2>1, <2>4, <2>6, <3>1, StartKeeps
    <3>3. QED
      BY <1>1, <2>3, <2>4, <3>2
  <2>7. QED
    BY <1>0, <2>5, <2>6
<1>5. ASSUME NEW d \in Places, Drag(d) PROVE IInv'
  <2> DEFINE c == setFlagTracking(server, FALSE)  a == [c EXCEPT !.view = d]
             odd == IF d \in seen THEN {"revisit"} ELSE {}
             told == Emits(server, FALSE)
  <2>1. Stopped(server, c)
    BY <1>0, StoppedFields
  <2>2. UserEvent(a, told, FALSE, {d}, odd)
    BY <1>5 DEF Drag, LooksAt
  <2>3. told \in BOOLEAN /\ (told = FALSE => server.track = FALSE)
    BY DEF Emits
  <2> HIDE DEF c, told
  <2>4. /\ a \in App /\ a.track = FALSE /\ a.view = d /\ a.move = server.move
        /\ a.fov = server.fov /\ a.sel = server.sel
    BY <2>1 DEF Stopped, App, Directions
  <2> HIDE DEF a
  <2>5. Tells(a, told)
    BY <2>3, <2>4 DEF Tells
  <2>6. {d} \in SUBSET Directions /\ odd \in SUBSET {"revisit"}
    BY DEF Directions
  <2>7. Acts(a, FALSE) /\ TypeOK' /\ seen' = seen \union {d} /\ odd \subseteq unusual'
    <3>1. a \in App /\ told \in BOOLEAN
      BY <2>3, <2>4
    <3>2. QED
      BY <1>0, <2>2, <2>6, <3>1, UserActs
  <2>8. d \in seen' /\ (d \in seen => "revisit" \in unusual')
    BY <2>7
  <2>9. ServerInv' /\ Lands(a, told)
    BY <1>0, <2>4, <2>5, <2>7, <2>8, DragKeeps
  <2>10. QED
    BY <1>1, <2>2, <2>3, <2>4, <2>7, <2>9
<1>6. ASSUME NEW d \in Places, Look(d) PROVE IInv'
  <2> DEFINE a == [server EXCEPT !.view = d]
             odd == IF d \in seen THEN {"revisit"} ELSE {}
  <2>1. UserEvent(a, FALSE, FALSE, {d}, odd)
    BY <1>6 DEF Look, LooksAt
  <2>2. /\ a \in App /\ a.track = server.track /\ a.view = d /\ a.move = server.move
        /\ a.fov = server.fov /\ a.sel = server.sel
    BY <1>0 DEF App, Directions
  <2> HIDE DEF a
  <2>3. {d} \in SUBSET Directions /\ odd \in SUBSET {"revisit"}
    BY DEF Directions
  <2>4. Acts(a, FALSE) /\ TypeOK' /\ seen' = seen \union {d} /\ odd \subseteq unusual'
    BY <1>0, <2>1, <2>2, <2>3, UserActs
  <2>5. d \in seen' /\ (d \in seen => "revisit" \in unusual')
    BY <2>4
  <2>6. ServerInv' /\ Lands(a, FALSE)
    BY <1>0, <2>2, <2>4, <2>5, LookKeeps
  <2>7. QED
    BY <1>1, <2>1, <2>2, <2>4, <2>6
<1>7. ASSUME NEW d \in Places, GoTo(d) PROVE IInv'
  <2> DEFINE c == moveTo(server, d)  a == setFlagTracking(c, FALSE)
             odd == IF d \in seen THEN {"revisit"} ELSE {}
             told == Emits(server, FALSE)
  <2>1. Starts(server, d, c)
    BY <1>0, MoveFields DEF Directions
  <2>2. UserEvent(a, told, FALSE, {d}, odd)
    BY <1>7 DEF GoTo, LooksAt
  <2>3. told \in BOOLEAN /\ (told = FALSE => server.track = FALSE)
    BY DEF Emits
  <2> HIDE DEF c, told
  <2>4. Stopped(c, a)
    BY <2>1, StoppedFields DEF Starts
  <2> HIDE DEF a
  <2>5. /\ a \in App /\ a.track = FALSE /\ a.view = server.view
        /\ a.move = [from |-> server.view, to |-> d]
        /\ a.fov = server.fov /\ a.sel = server.sel
    BY <2>1, <2>4 DEF Stopped, Starts
  <2>6. Tells(a, told)
    BY <2>3, <2>5 DEF Tells
  <2>7. {d} \in SUBSET Directions /\ odd \in SUBSET {"revisit"}
    BY DEF Directions
  <2>8. Acts(a, FALSE) /\ TypeOK' /\ seen' = seen \union {d} /\ odd \subseteq unusual'
    <3>1. a \in App /\ told \in BOOLEAN
      BY <2>3, <2>5
    <3>2. QED
      BY <1>0, <2>2, <2>7, <3>1, UserActs
  <2>9. d \in seen' /\ (d \in seen => "revisit" \in unusual')
    BY <2>8
  <2>10. ServerInv' /\ Lands(a, told)
    BY <1>0, <2>5, <2>6, <2>8, <2>9, RouteKeeps
  <2>11. QED
    BY <1>1, <2>2, <2>3, <2>5, <2>8, <2>10
<1>8. ASSUME NEW d \in Places, MoveTo(d) PROVE IInv'
  <2> DEFINE c == unSelect(server)  a == moveTo(c, d)
             odd == IF d \in seen THEN {"revisit"} ELSE {}
             dirty == server.sel # None
  <2>1. /\ c \in App /\ c.sel = None /\ c.track = server.track /\ c.view = server.view
        /\ c.fov = server.fov
    BY <1>0 DEF unSelect, App
  <2>2. UserEvent(a, FALSE, dirty, {d}, odd)
    BY <1>8 DEF MoveTo, LooksAt
  <2>3. dirty \in BOOLEAN /\ (dirty = FALSE => server.sel = None)
    OBVIOUS
  <2> HIDE DEF c, dirty
  <2>4. Starts(c, d, a)
    BY <2>1, MoveFields DEF Directions
  <2> HIDE DEF a
  <2>5. /\ a \in App /\ a.track = server.track /\ a.view = server.view
        /\ a.move = [from |-> server.view, to |-> d]
        /\ a.fov = server.fov
        /\ (a.sel = server.sel /\ dirty = FALSE) \/ (a.sel = None /\ dirty = TRUE)
    BY <2>1, <2>3, <2>4 DEF Starts
  <2>6. Tells(a, FALSE)
    BY <2>5 DEF Tells
  <2>7. {d} \in SUBSET Directions /\ odd \in SUBSET {"revisit"}
    BY DEF Directions
  <2>8. Acts(a, dirty) /\ TypeOK' /\ seen' = seen \union {d} /\ odd \subseteq unusual'
    BY <1>0, <2>2, <2>3, <2>5, <2>7, UserActs
  <2>9. d \in seen' /\ (d \in seen => "revisit" \in unusual')
    BY <2>8
  <2>10. ServerInv' /\ Lands(a, FALSE)
    BY <1>0, <2>3, <2>5, <2>6, <2>8, <2>9, RouteKeeps
  <2>11. QED
    BY <1>1, <2>2, <2>3, <2>5, <2>8, <2>10
<1>9. ASSUME NEW f \in Fovs, Zoom(f) PROVE IInv'
  <2> DEFINE a == [server EXCEPT !.zoom = f]
  <2>1. UserEvent(a, FALSE, FALSE, {}, {})
    BY <1>9 DEF Zoom
  <2>2. /\ a \in App /\ a.track = server.track /\ a.view = server.view
        /\ a.move = server.move /\ a.fov = server.fov /\ a.sel = server.sel
    BY <1>0 DEF App
  <2> HIDE DEF a
  <2>3. Acts(a, FALSE) /\ TypeOK'
    BY <1>0, <2>1, <2>2, UserActs
  <2>4. ServerInv' /\ Lands(a, FALSE)
    BY <1>0, <2>2, <2>3, ZoomKeeps
  <2>5. QED
    BY <1>1, <2>1, <2>2, <2>3, <2>4
<1>10. QED
  BY <1>2, <1>3, <1>4, <1>5, <1>6, <1>7, <1>8, <1>9 DEF User

--------------------------------------------------------------------------------
(* A frame of the server.                                                      *)

LEMMA FrameKeeps == IInv /\ Frame => IInv'
<1> SUFFICES ASSUME IInv, Frame PROVE IInv'
  OBVIOUS
<1>0. TypeOK /\ ServerInv /\ Reaches /\ server \in App
  BY DEF IInv, TypeOK
<1>1. PICK a \in updateMotion(server) :
          /\ server' = a
          /\ Broadcast(When(selDirty, SelectionMsg(a)) \o
                       When(ViewChanged(a), ViewMsg(a)) \o When(FovChanged(a), FovMsg(a)))
          /\ selDirty' = CleanAgain
          /\ lastView' = IF ViewChanged(a) THEN a.view ELSE lastView
          /\ lastFov' = a.fov
          /\ acted' = FALSE
          /\ client' = client /\ joined' = joined /\ changes' = changes
          /\ seen' = seen /\ unusual' = unusual
  BY DEF Frame
<1>2. Moved(server, a) /\ a \in App
  BY <1>0, <1>1, MovedFields DEF Moved
<1>3. /\ selDirty' = FALSE /\ selDirty \in BOOLEAN /\ acted \in BOOLEAN
      /\ a.track = server.track /\ a.sel = server.sel /\ a.track \in BOOLEAN
      /\ ViewChanged(a) \in BOOLEAN /\ FovChanged(a) \in BOOLEAN
      /\ ViewChanged(a) <=> a.track = FALSE /\ a.view # lastView
      /\ FovChanged(a) <=> a.fov # lastFov
  BY <1>0, <1>1, <1>2 DEF CleanAgain, TypeOK, Moved, App, ViewChanged, FovChanged
<1>4. /\ SelectionMsg(a) \in Message /\ SelectionMsg(a).type = "SELECTION"
      /\ SelectionMsg(a).sel = server.sel
  BY <1>2, <1>3 DEF SelectionMsg, Message, App
<1>5. ViewMsg(a) \in Message /\ ViewMsg(a).type = "VIEW" /\ ViewMsg(a).view = a.view
  BY <1>2 DEF ViewMsg, Message, App
<1>6. FovMsg(a) \in Message /\ FovMsg(a).type = "FOV" /\ FovMsg(a).fov = a.fov
  BY <1>2 DEF FovMsg, Message, App
<1> DEFINE s == When(selDirty, SelectionMsg(a))  v == When(ViewChanged(a), ViewMsg(a))
           f == When(FovChanged(a), FovMsg(a))
<1>7. s \in Seq(Message) /\ v \in Seq(Message) /\ f \in Seq(Message)
  BY <1>3, <1>4, <1>5, <1>6 DEF When
<1>8. chan \in Seq(Message) /\ chan' \in Seq(Message)
      /\ (joined = TRUE => chan' = ((chan \o s) \o v) \o f)
  <2>1. chan \in Seq(Message)
    BY <1>0 DEF TypeOK
  <2>2. chan' = IF joined THEN chan \o ((s \o v) \o f) ELSE chan
    BY <1>1 DEF Broadcast
  <2> HIDE DEF s, v, f
  <2>3. s \o v \in Seq(Message) /\ (s \o v) \o f \in Seq(Message)
    BY <1>7, ConcatProperties
  <2>4. chan \o ((s \o v) \o f) \in Seq(Message)
    BY <2>1, <2>3, ConcatProperties
  <2>5. chan \o ((s \o v) \o f) = ((chan \o s) \o v) \o f
    <3>1. (chan \o (s \o v)) \o f = chan \o ((s \o v) \o f)
      BY <1>7, <2>1, <2>3, ConcatAssociative, SMTT(30)
    <3>2. (chan \o s) \o v = chan \o (s \o v)
      BY <1>7, <2>1, ConcatAssociative
    <3>3. QED
      BY <3>1, <3>2
  <2>6. joined = TRUE => chan' = ((chan \o s) \o v) \o f
    BY <2>2, <2>5
  <2>7. chan' \in Seq(Message)
    BY <2>1, <2>2, <2>4
  <2>8. QED
    BY <2>1, <2>6, <2>7
<1>9. TypeOK'
  BY <1>0, <1>1, <1>2, <1>3, <1>8 DEF TypeOK, App
<1>10. \/ Target' = Target
       \/ /\ server.track = TRUE /\ server.sel # None
          /\ a.move = None /\ Target' = server.sel
  BY <1>1, <1>2 DEF Moved, Stays, Arrived, Keeps, Target
<1>11. server.track = TRUE => lastView' = lastView
  BY <1>1, <1>3
<1>12. server.track = FALSE => lastView' = a.view
  BY <1>1, <1>3
<1>13. ServerInv'
  <2>1. Known'
    <3>1. /\ \/ a.view \in {server.view, server.sel}
             \/ server.move # None /\ a.view \in {server.move.from, server.move.to}
          /\ a.move \in {server.move, None}
      BY <1>2 DEF Moved, Stays, Arrived, Keeps
    <3>2. None \notin Places /\ server.sel \notin Places
      BY <1>0, ReplicationAssumption DEF App, Directions
    <3>3. a.view \in Places => a.view \in seen
      BY <1>0, <3>1, <3>2 DEF ServerInv, Known
    <3>4. QED
      BY <1>0, <1>1, <3>1, <3>3 DEF ServerInv, Known
  <2>2. FollowSent'
    BY <1>0, <1>1, <1>3, <1>10, <1>11 DEF ServerInv, FollowSent
  <2>3. ShownSent'
    BY <1>1, <1>3, <1>12 DEF ShownSent
  <2>4. MoveSent'
    <3>0. /\ a.move # None => a.move = server.move /\ a.view = server.move.from
          /\ server' = a /\ unusual' = unusual
      BY <1>1, <1>2 DEF Moved, Stays, Arrived, Keeps
    <3>1. CASE server.track = TRUE
      <4>1. "quick" \notin unusual /\ "revisit" \notin unusual
                /\ a.move # None /\ a.move.to = lastView => a.move.from = lastView
        BY <1>0, <3>0, <3>1 DEF ServerInv, MoveSent
      <4>2. QED
        BY <1>11, <3>0, <3>1, <4>1 DEF MoveSent
    <3>2. CASE server.track = FALSE
      <4>1. a.move # None => a.view = a.move.from
        BY <3>0
      <4>2. QED
        BY <1>12, <3>0, <3>2, <4>1 DEF MoveSent
    <3>3. QED
      BY <1>3, <3>1, <3>2
  <2>5. DirtyStops' /\ lastFov' \in {None, server'.fov}
    BY <1>1, <1>3 DEF DirtyStops
  <2>6. QED
    BY <2>1, <2>2, <2>3, <2>4, <2>5 DEF ServerInv
<1>14. Reaches'
  <2> SUFFICES ASSUME joined = TRUE
               PROVE  \E x, z \in States : /\ Leads(x, chan', z) /\ Arrives(z)'
                                           /\ Shadow(x, client', "lag" \notin unusual')
    BY <1>1 DEF Reaches, Leads
  <2>1. PICK x \in States, y \in States :
            /\ Leads(x, chan, y) /\ Arrives(y) /\ Shadow(x, client, "lag" \notin unusual)
    BY <1>0 DEF Reaches
  <2> DEFINE y1 == IF selDirty THEN Step(y, SelectionMsg(a)) ELSE y
             y2 == IF ViewChanged(a) THEN Step(y1, ViewMsg(a)) ELSE y1
             y3 == IF FovChanged(a) THEN Step(y2, FovMsg(a)) ELSE y2
  <2>2. y1 \in States /\ (selDirty = TRUE => Selects(y, SelectionMsg(a), y1))
        /\ (selDirty = FALSE => y1 = y)
    BY <1>3, <1>4, StepFields
  <2>3. Leads(x, chan \o s, y1) /\ chan \o s \in Seq(Message)
    BY <1>3, <1>4, <1>7, <1>8, <2>1, LeadsWhen, ConcatProperties
  <2> HIDE DEF y1, s
  <2>4. y2 \in States /\ (ViewChanged(a) => Shows(y1, ViewMsg(a), y2))
        /\ (~ViewChanged(a) => y2 = y1)
    BY <1>3, <1>5, <2>2, StepFields
  <2>5. Leads(x, (chan \o s) \o v, y2) /\ (chan \o s) \o v \in Seq(Message)
    BY <1>3, <1>5, <1>7, <2>2, <2>3, LeadsWhen, ConcatProperties
  <2> HIDE DEF y2, v
  <2>6. y3 \in States /\ (FovChanged(a) => Widens(y2, FovMsg(a), y3))
        /\ (~FovChanged(a) => y3 = y2)
    BY <1>3, <1>6, <2>4, StepFields
  <2>7. Leads(x, ((chan \o s) \o v) \o f, y3)
    BY <1>3, <1>6, <2>4, <2>5, LeadsWhen
  <2> HIDE DEF y3, f
  <2>8. /\ y1.fov = y.fov /\ y1.goal = y.goal /\ y1.sel = server.sel
        /\ y1.track = TRUE => y.track = TRUE
        /\ y1.track = TRUE /\ selDirty = TRUE => server.sel = None
        /\ selDirty = FALSE => y1 = y
    BY <1>3, <1>4, <2>1, <2>2 DEF Selects, Arrives
  <2>9. /\ y2.fov = y1.fov /\ y2.sel = y1.sel /\ y2.track = y1.track
        /\ ~ViewChanged(a) => y2.goal = y1.goal
        /\ ViewChanged(a) /\ y1.track = TRUE /\ y1.sel # None => y2.goal = y1.sel
        /\ ViewChanged(a) /\ ~(y1.track = TRUE /\ y1.sel # None) => y2.goal = a.view
    BY <1>5, <2>4 DEF Shows
  <2>10. y3.fov = a.fov /\ y3.sel = server.sel /\ y3.track = y1.track /\ y3.goal = y2.goal
    <3>1. ~FovChanged(a) => y3 = y2 /\ a.fov = server.fov
      BY <1>0, <1>2, <1>3, <2>6, ReplicationAssumption DEF ServerInv, App
    <3>2. y.fov = server.fov
      BY <2>1 DEF Arrives
    <3>3. QED
      BY <1>6, <2>6, <2>8, <2>9, <3>1, <3>2 DEF Widens
  <2>11. "quick" \notin unusual =>
             /\ y3.track = TRUE => server.track = TRUE
             /\ server.track = TRUE /\ server.sel # None => selDirty = FALSE /\ y3.track = TRUE
    BY <1>0, <1>3, <2>1, <2>8, <2>10 DEF Arrives, ServerInv, DirtyStops
  <2>12. "lag" \notin unusual /\ y3.track = TRUE /\ y3.sel # None => y3.goal = y3.sel
    <3>1. "lag" \notin unusual /\ y1.track = TRUE /\ y1.sel # None => y1.goal = y1.sel
      BY <1>3, <2>1, <2>8 DEF Arrives
    <3>2. QED
      BY <2>8, <2>9, <2>10, <3>1
  <2>13. ASSUME unusual = {}, Target' = lastView' PROVE y3.goal = lastView'
    <3>1. CASE ViewChanged(a)
      <4>1. ~(y3.track = TRUE)
        BY <1>3, <2>11, <2>13, <3>1
      <4>2. QED
        BY <1>1, <2>9, <2>10, <3>1, <4>1
    <3>2. CASE ~ViewChanged(a) /\ Target' = Target
      BY <1>1, <2>1, <2>8, <2>9, <2>10, <2>13, <3>2 DEF Arrives
    <3>3. CASE ~ViewChanged(a) /\ Target' # Target
      <4>1. server.track = TRUE /\ server.sel # None /\ Target' = server.sel
        BY <1>10, <3>3
      <4>2. y3.track = TRUE
        BY <2>11, <2>13, <4>1
      <4>3. QED
        BY <2>10, <2>12, <2>13, <4>1, <4>2
    <3>4. QED
      BY <3>1, <3>2, <3>3
  <2>14. PICK z \in States : z = y3
    BY <2>6
  <2>15. Arrives(z)'
    BY <1>1, <1>3, <2>10, <2>11, <2>12, <2>13, <2>14 DEF Arrives
  <2>16. QED
    BY <1>1, <1>8, <2>1, <2>7, <2>14, <2>15
<1>15. QED
  BY <1>9, <1>13, <1>14 DEF IInv

--------------------------------------------------------------------------------
(* A client joins, handles a message, draws a frame.                           *)

LEMMA JoinKeeps == IInv /\ Join => IInv'
<1> SUFFICES ASSUME IInv, Join PROVE IInv'
  OBVIOUS
<1>0. TypeOK /\ ServerInv /\ server \in App /\ client \in App
  BY DEF IInv, TypeOK
<1>1. /\ joined' = TRUE /\ chan' = Snapshot(server)
      /\ unusual' = unusual \union (IF acted THEN {"between"} ELSE {})
      /\ server' = server /\ client' = client /\ selDirty' = selDirty
      /\ lastView' = lastView /\ lastFov' = lastFov
      /\ changes' = changes /\ acted' = acted /\ seen' = seen
  BY DEF Join, senders
<1> DEFINE m1 == SelectionMsg(server)
           m2 == [type |-> "STELPROPERTY", tracking |-> server.track]
           m3 == ViewMsg(server)
           m4 == FovMsg(server)
<1>2. m1 \in Message /\ m1.type = "SELECTION" /\ m1.sel = server.sel
  BY <1>0 DEF SelectionMsg, Message, App
<1>3. m2 \in Message /\ m2.type = "STELPROPERTY" /\ m2.tracking = server.track
  BY <1>0 DEF Message, App
<1>4. m3 \in Message /\ m3.type = "VIEW" /\ m3.view = server.view
  BY <1>0 DEF ViewMsg, Message, App
<1>5. m4 \in Message /\ m4.type = "FOV" /\ m4.fov = server.fov
  BY <1>0 DEF FovMsg, Message, App
<1>6. Snapshot(server) = <<m1, m2, m3, m4>>
  BY DEF Snapshot
<1> HIDE DEF m1, m2, m3, m4
<1>7. chan' \in Seq(Message)
  BY <1>1, <1>2, <1>3, <1>4, <1>5, <1>6
<1>8. Len(chan') = 4 /\ chan'[1] = m1 /\ chan'[2] = m2 /\ chan'[3] = m3 /\ chan'[4] = m4
  BY <1>1, <1>6
<1>9. TypeOK'
  BY <1>0, <1>1, <1>7 DEF TypeOK, Unusual
<1>10. ServerInv' /\ Target' = Target
  BY <1>0, <1>1 DEF ServerInv, Known, FollowSent, ShownSent, MoveSent, DirtyStops, Target
<1>11. PICK x \in States : Shadow(x, client, TRUE)
  BY <1>0, HasShadow
<1>12. PICK y1 \in States : y1 = Step(x, m1) /\ Selects(x, m1, y1)
  BY <1>2, StepFields
<1>13. PICK y2 \in States : y2 = Step(y1, m2) /\ Tracks(y1, m2, y2)
  BY <1>3, StepFields
<1>14. PICK y3 \in States : y3 = Step(y2, m3) /\ Shows(y2, m3, y3)
  BY <1>4, StepFields
<1>15. PICK y4 \in States : y4 = Step(y3, m4) /\ Widens(y3, m4, y4)
  BY <1>5, StepFields
<1>16. Leads(x, chan', y4)
  <2> DEFINE r == [i \in 0..4 |-> IF i = 0 THEN x ELSE IF i = 1 THEN y1
                                  ELSE IF i = 2 THEN y2 ELSE IF i = 3 THEN y3 ELSE y4]
  <2>1. r \in [0..4 -> States]
    OBVIOUS
  <2>2. r[0] = x /\ r[1] = y1 /\ r[2] = y2 /\ r[3] = y3 /\ r[4] = y4
    OBVIOUS
  <2> HIDE DEF r
  <2>3. ASSUME NEW i \in 1..4 PROVE r[i] = Step(r[i - 1], chan'[i])
    <3>1. i = 1 \/ i = 2 \/ i = 3 \/ i = 4
      OBVIOUS
    <3>2. r[1] = Step(r[0], chan'[1]) /\ r[2] = Step(r[1], chan'[2])
      BY <1>8, <1>12, <1>13, <2>2
    <3>3. r[3] = Step(r[2], chan'[3]) /\ r[4] = Step(r[3], chan'[4])
      BY <1>8, <1>14, <1>15, <2>2
    <3>4. QED
      BY <3>1, <3>2, <3>3
  <2>4. QED
    BY <1>8, <2>1, <2>2, <2>3 DEF Leads
<1>17. /\ y4.sel = server.sel /\ y4.fov = server.fov
       /\ y4.track = TRUE <=> server.track = TRUE /\ (y1.track = TRUE \/ server.sel # None)
       /\ y4.track = TRUE /\ server.sel # None => y4.goal = server.sel
       /\ ~(y4.track = TRUE /\ server.sel # None) => y4.goal = server.view
  BY <1>2, <1>3, <1>4, <1>5, <1>12, <1>13, <1>14, <1>15 DEF Selects, Tracks, Shows, Widens
<1>18. Arrives(y4)'
  <2>1. ASSUME unusual' = {}, Target = lastView PROVE y4.goal = lastView
    <3>1. acted = FALSE /\ unusual = {}
      BY <1>0, <1>1, <2>1 DEF TypeOK
    <3>2. CASE y4.track = TRUE /\ server.sel # None
      BY <1>0, <1>17, <2>1, <3>1, <3>2 DEF ServerInv, FollowSent
    <3>3. CASE ~(y4.track = TRUE /\ server.sel # None)
      <4>1. server.view = lastView
        BY <1>0, <2>1, <3>1 DEF ServerInv, MoveSent, Target
      <4>2. QED
        BY <1>17, <3>3, <4>1
    <3>4. QED
      BY <3>2, <3>3
  <2>2. QED
    BY <1>1, <1>10, <1>17, <2>1 DEF Arrives
<1>19. Shadow(x, client', "lag" \notin unusual')
  BY <1>1, <1>11 DEF Shadow
<1>20. Reaches'
  BY <1>16, <1>18, <1>19 DEF Reaches, Leads
<1>21. QED
  BY <1>9, <1>10, <1>20 DEF IInv

LEMMA HandleKeeps == IInv /\ ClientHandles => IInv'
<1> SUFFICES ASSUME IInv, ClientHandles PROVE IInv'
  OBVIOUS
<1>0. TypeOK /\ ServerInv /\ Reaches /\ client \in App /\ chan \in Seq(Message)
  BY DEF IInv, TypeOK
<1>1. /\ chan # <<>> /\ client' = Apply(client, Head(chan)) /\ chan' = Tail(chan)
      /\ unusual' = unusual \union (IF NewView(client) = client THEN {} ELSE {"lag"})
      /\ server' = server /\ selDirty' = selDirty /\ joined' = joined
      /\ lastView' = lastView /\ lastFov' = lastFov
      /\ changes' = changes /\ acted' = acted /\ seen' = seen
  BY DEF ClientHandles, senders
<1>2. Head(chan) \in Message /\ chan' \in Seq(Message)
  BY <1>0, <1>1, HeadTailProperties
<1>3. client' \in App
  <2>1. PICK x \in States : Shadow(x, client, TRUE)
    BY <1>0, HasShadow
  <2>2. QED
    BY <1>0, <1>1, <1>2, <2>1, HandlerMovesShadow
<1>4. TypeOK'
  BY <1>0, <1>1, <1>2, <1>3 DEF TypeOK, Unusual
<1>5. ServerInv' /\ Target' = Target
  BY <1>0, <1>1 DEF ServerInv, Known, FollowSent, ShownSent, MoveSent, DirtyStops, Target
<1>6. Reaches'
  <2> SUFFICES ASSUME joined = TRUE
               PROVE  \E x, z \in States : /\ Leads(x, chan', z) /\ Arrives(z)'
                                           /\ Shadow(x, client', "lag" \notin unusual')
    BY <1>1 DEF Reaches, Leads
  <2>1. PICK x \in States, y \in States :
            /\ Leads(x, chan, y) /\ Arrives(y) /\ Shadow(x, client, "lag" \notin unusual)
    BY <1>0 DEF Reaches
  <2>2. Leads(Step(x, Head(chan)), chan', y) /\ Step(x, Head(chan)) \in States
    BY <1>0, <1>1, <1>2, <2>1, LeadsFrom, StepFields
  <2>3. Shadow(Step(x, Head(chan)), client', "lag" \notin unusual')
    <3>1. Shadow(Step(x, Head(chan)), client',
                 ("lag" \notin unusual) /\ NewView(client) = client)
      BY <1>0, <1>1, <1>2, <2>1, HandlerMovesShadow
    <3>2. "lag" \notin unusual' => ("lag" \notin unusual) /\ NewView(client) = client
      BY <1>1
    <3>3. QED
      BY <3>1, <3>2 DEF Shadow
  <2>4. Arrives(y)'
    BY <1>1, <1>5, <2>1 DEF Arrives
  <2>5. QED
    BY <2>2, <2>3, <2>4
<1>7. QED
  BY <1>4, <1>5, <1>6 DEF IInv

LEMMA ClientFrameKeeps == IInv /\ ClientFrame => IInv'
<1> SUFFICES ASSUME IInv, ClientFrame PROVE IInv'
  OBVIOUS
<1>0. TypeOK /\ ServerInv /\ Reaches /\ client \in App
  BY DEF IInv, TypeOK
<1>1. /\ client' \in updateMotion(client) /\ chan' = chan
      /\ server' = server /\ selDirty' = selDirty /\ joined' = joined
      /\ lastView' = lastView /\ lastFov' = lastFov /\ unusual' = unusual
      /\ changes' = changes /\ acted' = acted /\ seen' = seen
  BY DEF ClientFrame, senders, user
<1>2. client' \in App
  BY <1>0, <1>1, MovedFields DEF Moved
<1>3. TypeOK'
  BY <1>0, <1>1, <1>2 DEF TypeOK
<1>4. ServerInv' /\ Target' = Target
  BY <1>0, <1>1 DEF ServerInv, Known, FollowSent, ShownSent, MoveSent, DirtyStops, Target
<1>5. Reaches'
  <2> SUFFICES ASSUME joined = TRUE
               PROVE  \E x, z \in States : /\ Leads(x, chan', z) /\ Arrives(z)'
                                           /\ Shadow(x, client', "lag" \notin unusual')
    BY <1>1 DEF Reaches, Leads
  <2>1. PICK x \in States, y \in States :
            /\ Leads(x, chan, y) /\ Arrives(y) /\ Shadow(x, client, "lag" \notin unusual)
    BY <1>0 DEF Reaches
  <2>2. Shadow(x, client', "lag" \notin unusual')
    BY <1>0, <1>1, <2>1, FrameKeepsShadow
  <2>3. Arrives(y)'
    BY <1>1, <1>4, <2>1 DEF Arrives
  <2>4. QED
    BY <1>1, <2>1, <2>2, <2>3
<1>6. QED
  BY <1>3, <1>4, <1>5 DEF IInv

LEMMA StutterKeeps == IInv /\ UNCHANGED vars => IInv'
<1> SUFFICES ASSUME IInv, UNCHANGED vars PROVE IInv'
  OBVIOUS
<1>1. /\ server' = server /\ client' = client /\ selDirty' = selDirty
      /\ joined' = joined /\ chan' = chan /\ lastView' = lastView /\ lastFov' = lastFov
      /\ unusual' = unusual /\ changes' = changes /\ acted' = acted /\ seen' = seen
  BY DEF vars, senders, user
<1>2. QED
  BY <1>1 DEF IInv, TypeOK, ServerInv, Known, FollowSent, ShownSent, MoveSent, DirtyStops,
              Target, Reaches, Arrives, Shadow, Leads

LEMMA Invariant == Spec => []IInv
<1>1. IInv /\ [Next]_vars => IInv'
  BY UserKeeps, FrameKeeps, JoinKeeps, HandleKeeps, ClientFrameKeeps, StutterKeeps DEF Next
<1>2. QED
  BY <1>1, InitIInv, PTL DEF Spec

--------------------------------------------------------------------------------
(* Theorems.                                                                   *)

\* When nothing is under way, the client is what the messages made of it.
LEMMA SettledClient ==
    IInv /\ Settled => \E y \in States : Arrives(y) /\ Shadow(y, client, "lag" \notin unusual)
<1> SUFFICES ASSUME IInv, Settled
             PROVE  \E y \in States : Arrives(y) /\ Shadow(y, client, "lag" \notin unusual)
  OBVIOUS
<1>1. PICK x \in States, y \in States :
          /\ Leads(x, <<>>, y) /\ Arrives(y) /\ Shadow(x, client, "lag" \notin unusual)
  BY DEF IInv, Reaches, Settled
<1>2. QED
  BY <1>1, LeadsNowhere

\* Whatever the user does and whenever the client joins: once nothing is under way
\* the client has the selection and the field of view of the server, which the
\* senders (SyncServerEventSenders.cpp) write only when they have changed and the
\* handlers (SyncClientHandlers.cpp) apply in the order they were written.
THEOREM StateIsReplicated == Spec => []ReplicationInv
<1>1. IInv => ReplicationInv
  <2> SUFFICES ASSUME IInv, Settled
               PROVE  client.sel = server.sel /\ client.fov = server.fov
    BY DEF IInv, ReplicationInv, StateReplicated
  <2>1. PICK y \in States : Arrives(y) /\ Shadow(y, client, "lag" \notin unusual)
    BY SettledClient
  <2>2. client.zoom = None /\ selDirty = FALSE
    BY AtRest DEF IInv, TypeOK, Settled
  <2>3. QED
    BY <2>1, <2>2 DEF Arrives, Shadow, Bound
<1>2. QED
  BY <1>1, Invariant, PTL

\* Once nothing is under way the client follows the object that the server
\* follows, or both follow none, if the user acts once between two frames
\* (flagTracking is broadcast when it changes, the selection by the next frame).
THEOREM FollowingIsReplicated == Spec => []FollowingReplicated
<1>1. IInv => FollowingReplicated
  <2> SUFFICES ASSUME IInv, Settled, "quick" \notin unusual
               PROVE  Follows(client) = Follows(server)
    BY DEF FollowingReplicated
  <2>1. PICK y \in States : Arrives(y) /\ Shadow(y, client, "lag" \notin unusual)
    BY SettledClient
  <2>2. /\ selDirty = FALSE /\ server.track \in BOOLEAN /\ client.track \in BOOLEAN
    BY DEF IInv, TypeOK, Settled, App
  <2>3. /\ client.sel = server.sel
        /\ client.track = TRUE => server.track = TRUE
        /\ server.track = TRUE /\ server.sel # None => client.track = TRUE
    BY <2>1, <2>2 DEF Arrives, Shadow
  <2>4. QED
    BY <2>2, <2>3 DEF Follows
<1>2. QED
  BY <1>1, Invariant, PTL

\* Once nothing is under way and the server is not tracking, the client looks where
\* the server looks, unless something unusual has happened (see Unusual): what
\* ViewEventSender::update takes for the view sent last is then what the client shows.
THEOREM ViewIsReplicated == Spec => []ViewReplicated
<1>1. IInv => ViewReplicated
  <2> SUFFICES ASSUME IInv, Settled, ~server.track, unusual = {}
               PROVE  client.view = server.view
    BY DEF ViewReplicated
  <2>1. PICK y \in States : Arrives(y) /\ Shadow(y, client, "lag" \notin unusual)
    BY SettledClient
  <2>2. /\ server \in App /\ client \in App
        /\ updateMotion(server) = {server} /\ updateMotion(client) = {client}
    BY DEF IInv, TypeOK, Settled
  <2>3. server.move = None
    BY <2>2, AtRest
  <2>4. server.view = lastView
    BY DEF Settled, ViewChanged
  <2>5. y.goal = server.view
    BY <2>1, <2>3, <2>4 DEF Arrives, Target
  <2>6. client.move = None /\ (client.track = TRUE /\ client.sel # None => client.view = client.sel)
    BY <2>2, AtRest
  <2>7. Goal(client) = client.view
    BY <2>2, <2>6, GoalFields
  <2>8. QED
    BY <2>1, <2>5, <2>7 DEF Shadow
<1>2. QED
  BY <1>1, Invariant, PTL
================================================================================
