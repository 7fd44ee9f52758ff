--------------------------- MODULE MainThread_proofs ---------------------------
(*****************************************************************************)
(* Proofs about two machines that the main thread of a program drives: the   *)
(* loader of 3D scenes (SceneLoader), with the order of the events that      *)
(* decides which of two requests is shown, and the script engine             *)
(* (ScriptEngine), whose invariant is inductive once it says which waits may *)
(* be told to go on before their timer fires.                                *)
(*****************************************************************************)
EXTENDS SceneLoader, ScriptEngine, SequenceTheorems, TLAPS

At(s, kind) == {i \in DOMAIN s : s[i].kind = kind}

\* A new event takes a place of its own behind the others.
LEMMA AppendAt ==
    ASSUME NEW s \in Seq(Event), NEW e \in Event
    PROVE  /\ Append(s, e) \in Seq(Event)
           /\ At(Append(s, e), e.kind) = At(s, e.kind) \union {Len(s) + 1}
           /\ \A k : k # e.kind => At(Append(s, e), k) = At(s, k)
           /\ Append(s, e)[Len(s) + 1] = e
           /\ \A k : \A i \in At(s, k) : i \in 1 .. Len(s) /\ Append(s, e)[i] = s[i]
<1>1. /\ Append(s, e) \in Seq(Event) /\ Len(Append(s, e)) = Len(s) + 1
      /\ \A i \in 1 .. Len(s) : Append(s, e)[i] = s[i]
      /\ Append(s, e)[Len(s) + 1] = e
  BY AppendProperties
<1>2. /\ DOMAIN s = 1 .. Len(s) /\ Len(s) \in Nat
      /\ DOMAIN Append(s, e) = 1 .. (Len(s) + 1)
  BY <1>1, LenProperties
<1>3. At(Append(s, e), e.kind) = At(s, e.kind) \union {Len(s) + 1}
  BY <1>1, <1>2 DEF At
<1>4. \A k : k # e.kind => At(Append(s, e), k) = At(s, k)
  BY <1>1, <1>2 DEF At
<1> QED
  BY <1>1, <1>2, <1>3, <1>4 DEF At

\* When the first event has gone, the others are one place further.
LEMMA TailAt ==
    ASSUME NEW s \in Seq(Event), s # <<>>
    PROVE  /\ Head(s) \in Event /\ Head(s) = s[1] /\ Tail(s) \in Seq(Event)
           /\ 1 \in At(s, Head(s).kind)
           /\ \A k : At(s, k) \subseteq Nat /\ At(Tail(s), k) \subseteq Nat
           /\ \A k : \A i \in At(Tail(s), k) :
                i > 0 /\ i + 1 \in At(s, k) /\ Tail(s)[i] = s[i + 1]
           /\ \A k : \A i \in At(s, k) : i # 1 => i - 1 \in At(Tail(s), k)
           /\ \A k : 1 \in At(s, k) => Head(s).kind = k
<1>1. /\ Head(s) \in Event /\ Head(s) = s[1] /\ Tail(s) \in Seq(Event)
      /\ Len(Tail(s)) = Len(s) - 1
      /\ \A i \in 1 .. Len(Tail(s)) : Tail(s)[i] = s[i + 1]
  BY HeadTailProperties
<1>2. /\ Len(s) \in Nat /\ Len(s) > 0 /\ DOMAIN s = 1 .. Len(s)
      /\ DOMAIN Tail(s) = 1 .. (Len(s) - 1)
  BY <1>1, LenProperties, EmptySeq
<1>3. 1 \in At(s, Head(s).kind)
  BY <1>1, <1>2 DEF At
<1>4. \A k : At(s, k) \subseteq Nat /\ At(Tail(s), k) \subseteq Nat
  BY <1>2 DEF At
<1>5. ASSUME NEW k, NEW i \in At(Tail(s), k)
      PROVE  i > 0 /\ i + 1 \in At(s, k) /\ Tail(s)[i] = s[i + 1]
  BY <1>1, <1>2 DEF At
<1>6. ASSUME NEW k, NEW i \in At(s, k), i # 1
      PROVE  i - 1 \in At(Tail(s), k)
  <2>1. i - 1 \in 1 .. (Len(s) - 1) /\ (i - 1) + 1 = i
    BY <1>2, <1>6 DEF At
  <2>2. Tail(s)[i - 1] = s[i]
    BY <1>1, <1>2, <2>1
  <2> QED
    BY <1>2, <2>1, <2>2 DEF At
<1>7. \A k : 1 \in At(s, k) => Head(s).kind = k
  BY <1>1 DEF At
<1> QED
  BY <1>1, <1>3, <1>4, <1>5, <1>6, <1>7

--------------------------------------------------------------------------------
\* OneEnd and OwnReports, of any queue, progress bar, worker, loading and result.
Queued(s, b, w, l, r) ==
    /\ b <=> w # NoScene \/ At(s, "finished") # {}
    /\ w # NoScene => At(s, "finished") = {}
    /\ \A i, j \in At(s, "finished") : i = j
    /\ b => l # NoScene
    /\ w \in {NoScene, l}
    /\ \A i \in At(s, "finished") : r \in {NoScene, l} /\ s[i].scene = l
    /\ \A i \in At(s, "progress") :
         b /\ s[i].scene = l /\ \A j \in At(s, "finished") : i < j

LEMMA QueuedIs == (OneEnd /\ OwnReports) <=> Queued(posted, bar, worker, loading, result)
  BY DEF OneEnd, OwnReports, Queued, Places, At

\* The worker reports, and ends.
LEMMA AppendProgress ==
    ASSUME NEW s \in Seq(Event), NEW b \in BOOLEAN, NEW w \in Scene, NEW l, NEW r,
           Queued(s, b, w, l, r), NoScene \notin Scene
    PROVE  Queued(Append(s, Note("progress", w)), b, w, l, r)
<1> DEFINE e == Note("progress", w)
<1>1. e \in Event /\ e.kind = "progress" /\ e.scene = w
  BY DEF Note, Event
<1> HIDE DEF e
<1>2. /\ At(Append(s, e), "progress") = At(s, "progress") \union {Len(s) + 1}
      /\ At(Append(s, e), "finished") = At(s, "finished")
      /\ Append(s, e)[Len(s) + 1] = e
      /\ \A k : \A i \in At(s, k) : i \in 1 .. Len(s) /\ Append(s, e)[i] = s[i]
  BY <1>1, AppendAt
<1>3. b /\ w = l /\ l # NoScene /\ At(s, "finished") = {}
  BY DEF Queued
<1>4. Queued(Append(s, e), b, w, l, r)
  BY <1>1, <1>2, <1>3 DEF Queued
<1> QED
  BY <1>4 DEF e

LEMMA AppendFinished ==
    ASSUME NEW s \in Seq(Event), NEW b \in BOOLEAN, NEW w \in Scene, NEW l, NEW r,
           NEW q \in {NoScene, w}, Queued(s, b, w, l, r), NoScene \notin Scene
    PROVE  Queued(Append(s, Note("finished", w)), b, NoScene, l, q)
<1> DEFINE e == Note("finished", w)
<1>1. e \in Event /\ e.kind = "finished" /\ e.scene = w
  BY DEF Note, Event
<1> HIDE DEF e
<1>2. /\ At(Append(s, e), "finished") = At(s, "finished") \union {Len(s) + 1}
      /\ At(Append(s, e), "progress") = At(s, "progress")
      /\ Append(s, e)[Len(s) + 1] = e
      /\ \A k : \A i \in At(s, k) : i \in 1 .. Len(s) /\ Append(s, e)[i] = s[i]
  BY <1>1, AppendAt
<1>3. b /\ w = l /\ l # NoScene /\ At(s, "finished") = {}
  BY DEF Queued
<1>4. At(Append(s, e), "finished") = {Len(s) + 1} /\ Len(s) \in Nat
  BY <1>2, <1>3, LenProperties
<1>5. \A i \in At(Append(s, e), "progress") :
        Append(s, e)[i].scene = l /\ i < Len(s) + 1
  BY <1>2, <1>4 DEF Queued
<1>6. Queued(Append(s, e), b, NoScene, l, q)
  BY <1>1, <1>2, <1>3, <1>4, <1>5 DEF Queued
<1> QED
  BY <1>6 DEF e

\* Other events are posted.
LEMMA AppendOther ==
    ASSUME NEW s \in Seq(Event), NEW b, NEW w, NEW l, NEW r, NEW e \in Event,
           e.kind \notin {"finished", "progress"}, Queued(s, b, w, l, r)
    PROVE  Queued(Append(s, e), b, w, l, r)
<1>1. /\ At(Append(s, e), "finished") = At(s, "finished")
      /\ At(Append(s, e), "progress") = At(s, "progress")
      /\ \A k : \A i \in At(s, k) : Append(s, e)[i] = s[i]
  BY AppendAt
<1> QED
  BY <1>1 DEF Queued

\* An event is handled: the end of a load is the last that is heard of it.
LEMMA TailOther ==
    ASSUME NEW s \in Seq(Event), s # <<>>, NEW b \in BOOLEAN, NEW w, NEW l, NEW r,
           Head(s).kind # "finished", Queued(s, b, w, l, r)
    PROVE  Queued(Tail(s), b, w, l, r)
<1>1. /\ \A k : At(s, k) \subseteq Nat /\ At(Tail(s), k) \subseteq Nat
      /\ \A k : \A i \in At(Tail(s), k) : i + 1 \in At(s, k) /\ Tail(s)[i] = s[i + 1]
      /\ \A k : \A i \in At(s, k) : i # 1 => i - 1 \in At(Tail(s), k)
      /\ 1 \notin At(s, "finished")
  BY TailAt
<1>2. At(Tail(s), "finished") = {} <=> At(s, "finished") = {}
  BY <1>1
<1>3. ASSUME NEW i \in At(Tail(s), "finished"), NEW j \in At(Tail(s), "finished")
      PROVE  i = j
  <2>1. i + 1 = j + 1
    BY <1>1 DEF Queued
  <2> QED
    BY <1>1, <2>1
<1>4. ASSUME NEW i \in At(Tail(s), "progress")
      PROVE  /\ b /\ Tail(s)[i].scene = l
             /\ \A j \in At(Tail(s), "finished") : i < j
  <2>1. i \in Nat /\ i + 1 \in At(s, "progress") /\ Tail(s)[i] = s[i + 1]
    BY <1>1
  <2>2. b /\ s[i + 1].scene = l /\ \A j \in At(s, "finished") : i + 1 < j
    BY <2>1 DEF Queued
  <2>3. ASSUME NEW j \in At(Tail(s), "finished") PROVE i < j
    <3>1. j \in Nat /\ i + 1 < j + 1
      BY <1>1, <2>2
    <3> QED
      BY <2>1, <3>1
  <2> QED
    BY <2>1, <2>2, <2>3
<1>5. \A i \in At(Tail(s), "finished") : r \in {NoScene, l} /\ Tail(s)[i].scene = l
  BY <1>1 DEF Queued
<1> QED
  BY <1>2, <1>3, <1>4, <1>5 DEF Queued

LEMMA TailFinished ==
    ASSUME NEW s \in Seq(Event), s # <<>>, NEW b \in BOOLEAN, NEW w, NEW l, NEW r,
           Head(s).kind = "finished", Queued(s, b, w, l, r)
    PROVE  /\ b /\ w = NoScene /\ l # NoScene /\ r \in {NoScene, l}
           /\ At(Tail(s), "finished") = {} /\ At(Tail(s), "progress") = {}
<1>1. /\ \A k : At(s, k) \subseteq Nat /\ At(Tail(s), k) \subseteq Nat
      /\ \A k : \A i \in At(Tail(s), k) : i > 0 /\ i + 1 \in At(s, k)
      /\ 1 \in At(s, "finished")
  BY TailAt
<1>2. b /\ w = NoScene /\ l # NoScene /\ r \in {NoScene, l}
  BY <1>1 DEF Queued
<1>3. At(Tail(s), "finished") = {}
  <2> SUFFICES ASSUME NEW i \in At(Tail(s), "finished") PROVE FALSE
    OBVIOUS
  <2>1. i \in Nat /\ i > 0 /\ i + 1 = 1
    BY <1>1 DEF Queued
  <2> QED
    BY <2>1
<1>4. At(Tail(s), "progress") = {}
  <2> SUFFICES ASSUME NEW i \in At(Tail(s), "progress") PROVE FALSE
    OBVIOUS
  <2>1. i \in Nat /\ i > 0 /\ i + 1 < 1
    BY <1>1 DEF Queued
  <2> QED
    BY <2>1
<1> QED
  BY <1>2, <1>3, <1>4 DEF Queued

\* A load starts when the end of the last one has been handled.
LEMMA QueuedStart ==
    ASSUME NEW s, NEW w \in Scene, NEW l, NEW r, NEW v, NoScene \notin Scene,
           Queued(s, FALSE, v, l, r)
    PROVE  Queued(s, TRUE, w, w, NoScene)
<1>1. At(s, "finished") = {} /\ At(s, "progress") = {}
  BY DEF Queued
<1> QED
  BY <1>1 DEF Queued

--------------------------------------------------------------------------------
LEMMA InitInv == Init => SceneInv
<1> SUFFICES ASSUME Init PROVE SceneInv
  OBVIOUS
<1>1. posted \in Seq(Event) /\ \A k : Places(k) = {}
  BY EmptySeq DEF Init, Places
<1>2. TypeOK
  <2>1. /\ cancel \in BOOLEAN /\ bar \in BOOLEAN
        /\ overtaken \in BOOLEAN /\ failed \in BOOLEAN
    BY Zenon DEF Init
  <2>2. /\ pc = "between" /\ waiting = NoScene /\ worker = NoScene /\ stage = 0
        /\ loading = NoScene /\ result = NoScene /\ current = NoScene /\ asked = 0
        /\ wanted = NoScene
    BY DEF Init
  <2> QED
    BY <1>1, <2>1, <2>2 DEF TypeOK, Optional
<1>3. bar = FALSE /\ worker = NoScene
  BY DEF Init
<1>4. OneEnd
  BY <1>1, <1>3 DEF OneEnd
<1>5. OwnReports
  BY <1>1, <1>3 DEF OwnReports
<1>6. CancelIsBrief /\ LoadingOrFailed
  BY DEF Init, CancelIsBrief, LoadingOrFailed
<1> QED
  BY <1>2, <1>4, <1>5, <1>6 DEF SceneInv

LEMMA StepInv == SceneInv /\ [Next]_vars => SceneInv'
<1> SUFFICES ASSUME SceneInv, [Next]_vars PROVE SceneInv'
  OBVIOUS
<1>1. /\ TypeOK /\ CancelIsBrief /\ LoadingOrFailed
      /\ Queued(posted, bar, worker, loading, result)
      /\ NoScene \notin Scene
  BY QueuedIs, SceneAssumption DEF SceneInv
<1>2. ASSUME TypeOK', CancelIsBrief', LoadingOrFailed',
             Queued(posted', bar', worker', loading', result')
      PROVE  SceneInv'
  <2>1. OneEnd' /\ OwnReports'
    BY <1>2 DEF OneEnd, OwnReports, Queued, Places, At
  <2> QED
    BY <1>2, <2>1 DEF SceneInv
<1>3. CASE Work
  <2>1. /\ worker \in Scene
        /\ UNCHANGED <<pc, waiting, cancel, bar, loading, current, history>>
    BY <1>1, <1>3 DEF Work, TypeOK, Optional
  <2>2. Note("progress", worker) \in Event /\ Note("finished", worker) \in Event
    BY <2>1 DEF Note, Event
  <2>3. \/ \E q \in {NoScene, worker} : Finish(q)
        \/ stage < 6 /\ Report(NextStage)
    BY <1>3 DEF Work
  <2>4. CASE \E q \in {NoScene, worker} : Finish(q)
    <3>1. PICK q \in {NoScene, worker} : Finish(q)
      BY <2>4
    <3>2. /\ posted' = Append(posted, Note("finished", worker))
          /\ worker' = NoScene /\ stage' = 0 /\ result' = q
      BY <3>1 DEF Finish
    <3>3. posted' \in Seq(Event)
      BY <1>1, <2>2, <3>2, AppendAt DEF TypeOK
    <3>4. Queued(posted', bar', worker', loading', result')
      BY <1>1, <2>1, <3>2, AppendFinished DEF TypeOK
    <3>5. TypeOK'
      BY <1>1, <2>1, <3>2, <3>3 DEF TypeOK, Optional, history
    <3> QED
      BY <1>1, <1>2, <2>1, <3>4, <3>5 DEF CancelIsBrief, LoadingOrFailed, history
  <2>5. CASE stage < 6 /\ Report(NextStage)
    <3>1. /\ posted' = Append(posted, Note("progress", worker))
          /\ worker' = worker /\ result' = result /\ stage' = NextStage
      BY <2>5 DEF Report
    <3>2. NextStage \in 0 .. 6
      <4>1. Ground[worker] \in {"model", "none", "file"}
        BY <2>1, SceneAssumption
      <4> QED
        BY <1>1, <2>5, <4>1 DEF NextStage, TypeOK
    <3>3. posted' \in Seq(Event)
      BY <1>1, <2>2, <3>1, AppendAt DEF TypeOK
    <3>4. Queued(posted', bar', worker', loading', result')
      BY <1>1, <2>1, <3>1, AppendProgress DEF TypeOK
    <3>5. TypeOK'
      BY <1>1, <2>1, <3>1, <3>2, <3>3 DEF TypeOK, Optional, history
    <3> QED
      BY <1>1, <1>2, <2>1, <3>4, <3>5 DEF CancelIsBrief, LoadingOrFailed, history
  <2> QED
    BY <2>3, <2>4, <2>5
<1>4. CASE Proceed
  <2>1. /\ waiting \in Scene /\ worker = NoScene /\ waiting' = NoScene
        /\ cancel' = FALSE /\ UNCHANGED <<pc, current, history>>
    BY <1>1, <1>4 DEF Proceed, Returns, TypeOK, Optional
  <2>2. CancelIsBrief'
    BY <2>1 DEF CancelIsBrief
  <2>3. CASE bar
    <3>1. /\ posted' = Append(posted, Note("load", waiting))
          /\ UNCHANGED <<bar, loading, worker, stage, result>>
      BY <1>4, <2>3 DEF Proceed, PostAgain, work
    <3>2. /\ Note("load", waiting) \in Event
          /\ Note("load", waiting).kind \notin {"finished", "progress"}
      BY <2>1 DEF Note, Event
    <3>3. posted' \in Seq(Event)
      BY <1>1, <3>1, <3>2, AppendAt DEF TypeOK
    <3>4. Queued(posted', bar', worker', loading', result')
      BY <1>1, <3>1, <3>2, AppendOther DEF TypeOK
    <3>5. TypeOK'
      BY <1>1, <2>1, <3>1, <3>3 DEF TypeOK, Optional, history
    <3> QED
      BY <1>1, <1>2, <2>1, <2>2, <3>1, <3>4, <3>5 DEF LoadingOrFailed, history
  <2>4. CASE ~bar
    <3>1. /\ bar' = TRUE /\ loading' = waiting /\ worker' = waiting /\ stage' = 0
          /\ result' = NoScene /\ posted' = posted
      BY <1>4, <2>4 DEF Proceed, StartLoad
    <3>2. bar = FALSE
      BY <1>1, <2>4 DEF TypeOK
    <3>3. Queued(posted', bar', worker', loading', result')
      <4>1. Queued(posted, FALSE, worker, loading, result)
        BY <1>1, <3>2
      <4>2. Queued(posted, TRUE, waiting, waiting, NoScene)
        BY <1>1, <2>1, <4>1, QueuedStart
      <4> QED
        BY <3>1, <4>2, Zenon
    <3>4. TypeOK'
      <4>1. bar' \in BOOLEAN /\ cancel' \in BOOLEAN
        BY <2>1, <3>1, Zenon
      <4>2. /\ worker' = waiting /\ loading' = waiting /\ stage' = 0
            /\ result' = NoScene /\ posted' = posted
        BY <3>1
      <4> QED
        BY <1>1, <2>1, <4>1, <4>2 DEF TypeOK, Optional, history
    <3> QED
      BY <1>2, <2>2, <3>1, <3>3, <3>4 DEF LoadingOrFailed
  <2> QED
    BY <2>3, <2>4
<1>5. CASE Handle
  <2>1. /\ pc \in {"between", "pass"} /\ waiting = NoScene /\ posted # <<>>
        /\ pc' = "pass" /\ posted' = Tail(posted) /\ UNCHANGED <<work, asked>>
    BY <1>5 DEF Handle
  <2>2. Head(posted) \in Event /\ posted' \in Seq(Event)
    BY <1>1, <2>1, TailAt DEF TypeOK
  <2>3. cancel = FALSE
    BY <1>1, <2>1 DEF CancelIsBrief, TypeOK
  <2> DEFINE e == Head(posted)
  <2>4. e.kind \in {"http", "load", "progress", "finished"} /\ e.scene \in Scene
    BY <2>2 DEF Event
  <2>5. /\ e.kind = "progress" =>
             UNCHANGED <<waiting, cancel, bar, loading, current, wanted, overtaken, failed>>
        /\ e.kind = "finished" => Completed /\ UNCHANGED <<waiting, cancel, wanted, overtaken>>
        /\ e.kind = "load" =>
             LoadScene(e.scene) /\ UNCHANGED <<bar, loading, current, wanted, overtaken, failed>>
        /\ e.kind = "http" =>
             /\ Handled(e.scene, Refused(e.scene))
             /\ IF Refused(e.scene) THEN UNCHANGED <<waiting, cancel>> ELSE LoadScene(e.scene)
             /\ UNCHANGED <<bar, loading, current, failed>>
    BY <1>5, <2>4 DEF Handle
  <2> HIDE DEF e
  <2>6. CASE e.kind = "finished"
    <3>1. /\ bar /\ worker = NoScene /\ loading # NoScene /\ result \in {NoScene, loading}
          /\ At(posted', "finished") = {} /\ At(posted', "progress") = {}
      <4>1. posted \in Seq(Event) /\ bar \in BOOLEAN /\ Head(posted).kind = "finished"
        BY <1>1, <2>6 DEF TypeOK, e
      <4>2. /\ bar /\ worker = NoScene /\ loading # NoScene /\ result \in {NoScene, loading}
            /\ At(Tail(posted), "finished") = {} /\ At(Tail(posted), "progress") = {}
        BY <1>1, <2>1, <4>1, TailFinished
      <4> QED
        BY <2>1, <4>2, Zenon
    <3>2. Completed /\ UNCHANGED <<waiting, cancel, wanted, overtaken, worker, stage, result, asked>>
      BY <2>1, <2>5, <2>6 DEF work
    <3>3. bar' = FALSE /\ worker' = NoScene
      BY <3>1, <3>2 DEF Completed
    <3>4. Queued(posted', bar', worker', loading', result')
      BY <3>1, <3>3 DEF Queued
    <3>5. \/ current' = result /\ loading' = NoScene /\ failed' = FALSE
          \/ current' = current /\ loading' = loading /\ failed' = TRUE
      BY <3>2 DEF Completed, Fails, Succeeds
    <3>6. TypeOK'
      BY <1>1, <2>1, <2>2, <3>2, <3>3, <3>5 DEF TypeOK, Optional
    <3>7. CancelIsBrief' /\ LoadingOrFailed'
      BY <2>3, <3>2, <3>5 DEF CancelIsBrief, LoadingOrFailed
    <3> QED
      BY <1>2, <3>4, <3>6, <3>7
  <2>7. CASE e.kind # "finished"
    <3>1. Queued(posted', bar, worker, loading, result)
      BY <1>1, <2>1, <2>7, TailOther DEF TypeOK, e
    <3>2. /\ UNCHANGED <<bar, loading, current, failed, worker, stage, result, asked>>
          /\ \/ waiting' = waiting /\ cancel' = cancel
             \/ waiting' = e.scene /\ cancel' = TRUE
          /\ \/ UNCHANGED <<wanted, overtaken>>
             \/ Handled(e.scene, Refused(e.scene))
      BY <2>1, <2>4, <2>5, <2>7 DEF work, LoadScene
    <3>3. wanted' \in Optional /\ overtaken' \in BOOLEAN
      BY <1>1, <2>4, <3>2 DEF Handled, TypeOK, Optional
    <3>4. TypeOK'
      BY <1>1, <2>1, <2>2, <2>4, <3>2, <3>3 DEF TypeOK, Optional
    <3>5. CancelIsBrief' /\ LoadingOrFailed'
      BY <1>1, <2>3, <2>4, <3>2 DEF CancelIsBrief, LoadingOrFailed
    <3> QED
      BY <1>2, <3>1, <3>2, <3>4, <3>5
  <2> QED
    BY <2>6, <2>7
<1>6. ASSUME NEW s \in Scene, Ask(s) PROVE SceneInv'
  <2>1. /\ waiting' = s /\ cancel' = TRUE /\ asked' = asked + 1 /\ wanted' = s
        /\ overtaken' \in BOOLEAN
        /\ UNCHANGED <<posted, pc, worker, stage, result, bar, loading, current, failed>>
    BY <1>6 DEF Ask, Handled, LoadScene, work
  <2>2. TypeOK'
    BY <1>1, <2>1 DEF TypeOK, Optional
  <2> QED
    BY <1>1, <1>2, <2>1, <2>2 DEF CancelIsBrief, LoadingOrFailed
<1>7. ASSUME NEW s \in Scene, Request(s) PROVE SceneInv'
  <2>1. /\ asked' = asked + 1 /\ posted' = Append(posted, Note("http", s))
        /\ UNCHANGED <<pc, waiting, worker, stage, result, cancel, bar, loading, current,
                       wanted, overtaken, failed>>
    BY <1>7 DEF Request, work
  <2>2. /\ Note("http", s) \in Event
        /\ Note("http", s).kind \notin {"finished", "progress"}
    BY DEF Note, Event
  <2>3. posted' \in Seq(Event)
    BY <1>1, <2>1, <2>2, AppendAt DEF TypeOK
  <2>4. Queued(posted', bar', worker', loading', result')
    BY <1>1, <2>1, <2>2, AppendOther DEF TypeOK
  <2>5. TypeOK'
    BY <1>1, <2>1, <2>3 DEF TypeOK, Optional
  <2> QED
    BY <1>1, <1>2, <2>1, <2>4, <2>5 DEF CancelIsBrief, LoadingOrFailed
<1>8. CASE EndPass
  BY <1>1, <1>2, <1>8
     DEF EndPass, TypeOK, Optional, CancelIsBrief, LoadingOrFailed, work, history
<1>9. CASE Quit
  BY <1>1, <1>2, <1>9
     DEF Quit, TypeOK, Optional, CancelIsBrief, LoadingOrFailed, work, history
<1>10. CASE Deinit
  BY <1>1, <1>2, <1>10
     DEF Deinit, TypeOK, Optional, CancelIsBrief, LoadingOrFailed, work, history
<1>11. CASE UNCHANGED vars
  BY <1>1, <1>2, <1>11
     DEF vars, TypeOK, Optional, CancelIsBrief, LoadingOrFailed, work, history
<1> QED
  BY <1>3, <1>4, <1>5, <1>6, <1>7, <1>8, <1>9, <1>10, <1>11 DEF Next, Main

\* At every step the progress bar, the worker, its reports and its end belong to
\* one and the same load, whatever is asked for, for any number of requests.
THEOREM SceneCorrect == Spec => []SceneInv
  BY InitInv, StepInv, PTL DEF Spec
--------------------------------------------------------------------------------
(* The last request.  A load that is posted before the end of the load it     *)
(* cancelled posts itself again, behind all others; so the last one to start  *)
(* is the last of those, or else the scene whose loadScene waits, or else the *)
(* last one that is posted behind that end.                                   *)

First(s) == {j \in At(s, "load") : \A i \in At(s, "finished") : j < i}
Rest(s)  == {j \in At(s, "load") : \E i \in At(s, "finished") : i < j}
EndsIn(s, J, x) == \A j \in J : (\A k \in J : k <= j) => s[j].scene = x

\* What comes last is x: w waits, b is the progress bar, l is being loaded, c is
\* there, and f says that the last load failed.
Line(s, w, b, l, c, f, x) ==
    /\ EndsIn(s, First(s), x)
    /\ First(s) = {} /\ w # NoScene => w = x
    /\ First(s) = {} /\ w = NoScene => EndsIn(s, Rest(s), x)
    /\ First(s) = {} /\ w = NoScene /\ Rest(s) = {} => IF b THEN l = x ELSE c = x \/ f

LineInv == pc \in {"between", "pass"} /\ ~overtaken =>
               Line(posted, waiting, bar, loading, current, failed, wanted)

\* Reports and HTTP requests are posted.
LEMMA LineOther ==
    ASSUME NEW s \in Seq(Event), NEW e \in Event, e.kind \notin {"finished", "load"},
           NEW w, NEW b, NEW l, NEW c, NEW f, NEW x, Line(s, w, b, l, c, f, x)
    PROVE  Line(Append(s, e), w, b, l, c, f, x)
<1>1. /\ At(Append(s, e), "finished") = At(s, "finished")
      /\ At(Append(s, e), "load") = At(s, "load")
      /\ \A i \in At(s, "load") : Append(s, e)[i] = s[i]
  BY AppendAt
<1>2. First(Append(s, e)) = First(s) /\ Rest(Append(s, e)) = Rest(s)
  BY <1>1 DEF First, Rest
<1>3. \A y : EndsIn(s, First(s), y) => EndsIn(Append(s, e), First(s), y)
  BY <1>1 DEF EndsIn, First
<1>4. \A y : EndsIn(s, Rest(s), y) => EndsIn(Append(s, e), Rest(s), y)
  BY <1>1 DEF EndsIn, Rest
<1> QED
  BY <1>2, <1>3, <1>4 DEF Line

\* The end of the load is posted: every load that is posted comes before it.
LEMMA LineFinished ==
    ASSUME NEW s \in Seq(Event), NEW e \in Event, e.kind = "finished",
           At(s, "finished") = {},
           NEW w, NEW b, NEW l, NEW c, NEW f, NEW x, Line(s, w, b, l, c, f, x)
    PROVE  Line(Append(s, e), w, b, l, c, f, x)
<1>1. /\ At(Append(s, e), "finished") = {Len(s) + 1} /\ Len(s) \in Nat
      /\ At(Append(s, e), "load") = At(s, "load")
      /\ \A i \in At(s, "load") : i \in 1 .. Len(s) /\ Append(s, e)[i] = s[i]
  BY AppendAt, LenProperties
<1>2. First(Append(s, e)) = First(s)
  BY <1>1 DEF First
<1>3. Rest(Append(s, e)) = {} /\ Rest(s) = {}
  BY <1>1 DEF Rest
<1>4. \A y : EndsIn(s, First(s), y) => EndsIn(Append(s, e), First(s), y)
  BY <1>1 DEF EndsIn, First
<1>5. \A y, t : EndsIn(t, {}, y)
  BY DEF EndsIn
<1> QED
  BY <1>2, <1>3, <1>4, <1>5 DEF Line

\* The load that waited posts itself, behind the end of the one it cancelled.
LEMMA LineAgain ==
    ASSUME NEW s \in Seq(Event), NEW e \in Event, e.kind = "load", e.scene # NoScene,
           At(s, "finished") # {}, NEW w, w = e.scene,
           NEW b, NEW l, NEW c, NEW f, NEW x, Line(s, w, b, l, c, f, x)
    PROVE  Line(Append(s, e), NoScene, b, l, c, f, x)
<1>1. /\ At(Append(s, e), "finished") = At(s, "finished") /\ Len(s) \in Nat
      /\ At(Append(s, e), "load") = At(s, "load") \union {Len(s) + 1}
      /\ \A i \in At(s, "load") : i \in 1 .. Len(s) /\ Append(s, e)[i] = s[i]
      /\ \A i \in At(s, "finished") : i \in 1 .. Len(s)
      /\ Append(s, e)[Len(s) + 1] = e
  BY AppendAt, LenProperties
<1>2. First(Append(s, e)) = First(s)
  BY <1>1 DEF First
<1>3. Rest(Append(s, e)) = Rest(s) \union {Len(s) + 1}
  BY <1>1 DEF Rest
<1>4. \A y : EndsIn(s, First(s), y) => EndsIn(Append(s, e), First(s), y)
  BY <1>1 DEF EndsIn, First
<1>5. EndsIn(Append(s, e), Rest(s) \union {Len(s) + 1}, w)
  <2>1. \A j \in Rest(s) : j \in 1 .. Len(s)
    BY <1>1 DEF Rest
  <2>2. ASSUME NEW j \in Rest(s) \union {Len(s) + 1},
               \A k \in Rest(s) \union {Len(s) + 1} : k <= j
        PROVE  Append(s, e)[j].scene = w
    <3>1. Len(s) + 1 <= j
      BY <2>2
    <3>2. j = Len(s) + 1
      BY <1>1, <2>1, <3>1
    <3> QED
      BY <1>1, <3>2
  <2> QED
    BY <2>2 DEF EndsIn
<1> QED
  BY <1>2, <1>3, <1>4, <1>5 DEF Line

\* An event is handled: what comes last among others still does.
LEMMA EndsShift ==
    ASSUME NEW s, NEW t, NEW J \in SUBSET Nat, NEW K \in SUBSET Nat, NEW x,
           \A k \in K : k + 1 \in J /\ t[k] = s[k + 1],
           \A j \in J : j # 1 => j - 1 \in K,
           EndsIn(s, J, x)
    PROVE  EndsIn(t, K, x)
<1> SUFFICES ASSUME NEW k \in K, \A i \in K : i <= k PROVE t[k].scene = x
  BY DEF EndsIn
<1>1. \A j \in J : j <= k + 1
  <2> SUFFICES ASSUME NEW j \in J PROVE j <= k + 1
    OBVIOUS
  <2>1. CASE j = 1
    BY <2>1
  <2>2. CASE j # 1
    <3>1. j - 1 <= k
      BY <2>2
    <3> QED
      BY <3>1
  <2> QED
    BY <2>1, <2>2
<1> QED
  BY <1>1 DEF EndsIn

LEMMA TailParts ==
    ASSUME NEW s \in Seq(Event), s # <<>>, Head(s).kind # "finished"
    PROVE  /\ First(s) \in SUBSET Nat /\ First(Tail(s)) \in SUBSET Nat
           /\ Rest(s) \in SUBSET Nat /\ Rest(Tail(s)) \in SUBSET Nat
           /\ \A k \in First(Tail(s)) : k + 1 \in First(s) /\ Tail(s)[k] = s[k + 1]
           /\ \A j \in First(s) : j # 1 => j - 1 \in First(Tail(s))
           /\ \A k \in Rest(Tail(s)) : k + 1 \in Rest(s) /\ Tail(s)[k] = s[k + 1]
           /\ \A j \in Rest(s) : j # 1 => j - 1 \in Rest(Tail(s))
           /\ 1 \notin Rest(s)
           /\ Head(s).kind # "load" => 1 \notin First(s)
           /\ Head(s).kind = "load" => 1 \in First(s)
<1>1. /\ \A k : At(s, k) \subseteq Nat /\ At(Tail(s), k) \subseteq Nat
      /\ \A k : \A i \in At(Tail(s), k) :
           i > 0 /\ i + 1 \in At(s, k) /\ Tail(s)[i] = s[i + 1]
      /\ \A k : \A i \in At(s, k) : i # 1 => i - 1 \in At(Tail(s), k)
      /\ \A k : 1 \in At(s, k) => Head(s).kind = k
      /\ 1 \in At(s, Head(s).kind)
  BY TailAt
<1>2. \A i \in At(s, "finished") : i \in Nat /\ i # 1 /\ i - 1 \in At(Tail(s), "finished")
                                   /\ i - 1 > 0
  BY <1>1
<1>3. ASSUME NEW k \in First(Tail(s)) PROVE k + 1 \in First(s) /\ Tail(s)[k] = s[k + 1]
  <2>1. k \in Nat /\ k + 1 \in At(s, "load") /\ Tail(s)[k] = s[k + 1]
    BY <1>1 DEF First
  <2>2. \A i \in At(s, "finished") : k < i - 1
    BY <1>2 DEF First
  <2>3. \A i \in At(s, "finished") : k + 1 < i
    BY <1>2, <2>1, <2>2
  <2> QED
    BY <2>1, <2>3 DEF First
<1>4. ASSUME NEW j \in First(s), j # 1 PROVE j - 1 \in First(Tail(s))
  <2>1. j \in Nat /\ j - 1 \in At(Tail(s), "load")
    BY <1>1, <1>4 DEF First
  <2>2. \A i \in At(Tail(s), "finished") : i \in Nat /\ j < i + 1
    BY <1>1 DEF First
  <2> QED
    BY <2>1, <2>2 DEF First
<1>5. ASSUME NEW k \in Rest(Tail(s)) PROVE k + 1 \in Rest(s) /\ Tail(s)[k] = s[k + 1]
  <2>1. k \in Nat /\ k + 1 \in At(s, "load") /\ Tail(s)[k] = s[k + 1]
    BY <1>1 DEF Rest
  <2>2. PICK i \in At(Tail(s), "finished") : i < k
    BY DEF Rest
  <2>3. i \in Nat /\ i + 1 \in At(s, "finished") /\ i + 1 < k + 1
    BY <1>1, <2>1, <2>2
  <2> QED
    BY <2>1, <2>3 DEF Rest
<1>6. ASSUME NEW j \in Rest(s), j # 1 PROVE j - 1 \in Rest(Tail(s))
  <2>1. j \in Nat /\ j - 1 \in At(Tail(s), "load")
    BY <1>1, <1>6 DEF Rest
  <2>2. PICK i \in At(s, "finished") : i < j
    BY DEF Rest
  <2>3. i \in Nat /\ i - 1 \in At(Tail(s), "finished") /\ i - 1 < j - 1
    BY <1>2, <2>1, <2>2
  <2> QED
    BY <2>1, <2>3 DEF Rest
<1>7. 1 \notin Rest(s)
  BY <1>2 DEF Rest
<1>8. Head(s).kind = "load" => 1 \in First(s)
  BY <1>1, <1>2 DEF First
<1>9. First(s) \in SUBSET Nat /\ First(Tail(s)) \in SUBSET Nat
      /\ Rest(s) \in SUBSET Nat /\ Rest(Tail(s)) \in SUBSET Nat
  BY <1>1 DEF First, Rest
<1>10. Head(s).kind # "load" => 1 \notin First(s)
  BY <1>1 DEF First
<1> QED
  BY <1>3, <1>4, <1>5, <1>6, <1>7, <1>8, <1>9, <1>10

\* A report is handled.
LEMMA LineReported ==
    ASSUME NEW s \in Seq(Event), s # <<>>, Head(s).kind \notin {"finished", "load"},
           NEW w, NEW b, NEW l, NEW c, NEW f, NEW x, Line(s, w, b, l, c, f, x)
    PROVE  Line(Tail(s), w, b, l, c, f, x)
<1>1. /\ First(s) = {} <=> First(Tail(s)) = {}
      /\ Rest(s) = {} <=> Rest(Tail(s)) = {}
  BY TailParts
<1>2. ASSUME NEW y, EndsIn(s, First(s), y) PROVE EndsIn(Tail(s), First(Tail(s)), y)
  BY <1>2, TailParts, EndsShift
<1>3. ASSUME NEW y, EndsIn(s, Rest(s), y) PROVE EndsIn(Tail(s), Rest(Tail(s)), y)
  BY <1>3, TailParts, EndsShift
<1> QED
  BY <1>1, <1>2, <1>3 DEF Line

\* The call of loadScene that was posted is handled.
LEMMA LineCalled ==
    ASSUME NEW s \in Seq(Event), s # <<>>, Head(s).kind = "load", Head(s).scene # NoScene,
           NEW b, NEW l, NEW c, NEW f, NEW x, Line(s, NoScene, b, l, c, f, x)
    PROVE  Line(Tail(s), Head(s).scene, b, l, c, f, x)
<1>1. EndsIn(Tail(s), First(Tail(s)), x)
  BY TailParts, EndsShift DEF Line
<1>2. ASSUME First(Tail(s)) = {} PROVE Head(s).scene = x
  <2>1. 1 \in First(s) /\ \A j \in First(s) : j <= 1
    BY <1>2, TailParts
  <2>2. s[1].scene = x
    BY <2>1 DEF Line, EndsIn
  <2> QED
    BY <2>2, TailAt
<1> QED
  BY <1>1, <1>2 DEF Line

\* The one end of a load is handled: l is there now, or its load has failed.
LEMMA LineCompleted ==
    ASSUME NEW s \in Seq(Event), s # <<>>, Head(s).kind = "finished",
           \A i, j \in At(s, "finished") : i = j,
           NEW m, NEW c, NEW d, NEW f, NEW g, NEW l, NEW x,
           Line(s, NoScene, TRUE, l, c, f, x), d = l \/ g
    PROVE  Line(Tail(s), NoScene, FALSE, m, d, g, x)
<1>1. /\ \A k : At(s, k) \subseteq Nat /\ At(Tail(s), k) \subseteq Nat
      /\ \A k : \A i \in At(Tail(s), k) :
           i > 0 /\ i + 1 \in At(s, k) /\ Tail(s)[i] = s[i + 1]
      /\ \A k : \A i \in At(s, k) : i # 1 => i - 1 \in At(Tail(s), k)
      /\ \A k : 1 \in At(s, k) => Head(s).kind = k
      /\ 1 \in At(s, "finished")
  BY TailAt
<1>2. First(s) = {}
  <2> SUFFICES ASSUME NEW j \in First(s) PROVE FALSE
    OBVIOUS
  <2>1. j \in Nat /\ j # 1 /\ j < 1
    BY <1>1 DEF First
  <2>2. j - 1 \in At(Tail(s), "load")
    BY <1>1, <2>1 DEF First
  <2>3. j - 1 > 0
    BY <1>1, <2>2
  <2> QED
    BY <2>1, <2>3
<1>3. At(Tail(s), "finished") = {}
  <2> SUFFICES ASSUME NEW i \in At(Tail(s), "finished") PROVE FALSE
    OBVIOUS
  <2>1. i \in Nat /\ i > 0 /\ i + 1 = 1
    BY <1>1
  <2> QED
    BY <2>1
<1>4. First(Tail(s)) = At(Tail(s), "load") /\ Rest(Tail(s)) = {}
  BY <1>3 DEF First, Rest
<1>5. ASSUME NEW k \in First(Tail(s)) PROVE k + 1 \in Rest(s) /\ Tail(s)[k] = s[k + 1]
  <2>0. k \in At(Tail(s), "load")
    BY <1>4
  <2>1. k \in Nat /\ k > 0 /\ k + 1 \in At(s, "load") /\ Tail(s)[k] = s[k + 1]
    BY <1>1, <2>0
  <2>2. 1 < k + 1
    BY <2>1
  <2> QED
    BY <1>1, <2>1, <2>2 DEF Rest
<1>6. ASSUME NEW j \in Rest(s), j # 1 PROVE j - 1 \in First(Tail(s))
  BY <1>1, <1>4, <1>6 DEF Rest
<1>7. Rest(s) \in SUBSET Nat /\ First(Tail(s)) \in SUBSET Nat
  BY <1>1, <1>4 DEF Rest
<1>8. EndsIn(s, Rest(s), x)
  BY <1>2 DEF Line
<1>9. EndsIn(Tail(s), First(Tail(s)), x)
  BY <1>5, <1>6, <1>7, <1>8, EndsShift
<1>10. First(Tail(s)) = {} => d = x \/ g
  <2> SUFFICES ASSUME First(Tail(s)) = {} PROVE d = x \/ g
    OBVIOUS
  <2>1. Rest(s) = {}
    <3>1. 1 \notin Rest(s)
      BY <1>1 DEF Rest
    <3> QED
      BY <1>6, <3>1
  <2>2. l = x
    BY <1>2, <2>1 DEF Line
  <2> QED
    BY <2>2
<1>11. EndsIn(Tail(s), Rest(Tail(s)), x)
  BY <1>4 DEF EndsIn
<1> QED
  BY <1>4, <1>9, <1>10, <1>11 DEF Line

\* A request that is in line comes last, whatever was to come last before.
LEMMA LineAsked ==
    ASSUME NEW s \in Seq(Event), \A j \in At(s, "finished") : j \in Nat,
           \/ At(s, "load") = {}
           \/ \E i \in At(s, "finished") : \A j \in At(s, "load") : i < j,
           NEW w, w # NoScene, NEW b, NEW l, NEW c, NEW f
    PROVE  Line(s, w, b, l, c, f, w)
<1>1. At(s, "load") \subseteq Nat
  BY LenProperties DEF At
<1>2. First(s) = {}
  BY <1>1 DEF First
<1> QED
  BY <1>2 DEF Line, EndsIn

LEMMA InitLine == Init => LineInv
<1> SUFFICES ASSUME Init PROVE LineInv
  OBVIOUS
<1>1. posted = <<>> /\ waiting = NoScene /\ bar = FALSE /\ current = NoScene /\ wanted = NoScene
  BY DEF Init
<1>2. At(posted, "load") = {}
  BY <1>1 DEF At
<1>3. First(posted) = {} /\ Rest(posted) = {}
  BY <1>2 DEF First, Rest
<1> QED
  BY <1>1, <1>3 DEF LineInv, Line, EndsIn

LEMMA StepLine == SceneInv /\ LineInv /\ [Next]_vars => LineInv'
<1> SUFFICES ASSUME SceneInv, LineInv, [Next]_vars, pc' \in {"between", "pass"}, ~overtaken'
             PROVE  Line(posted', waiting', bar', loading', current', failed', wanted')
  BY DEF LineInv
<1>1. /\ TypeOK /\ LoadingOrFailed /\ posted \in Seq(Event) /\ NoScene \notin Scene
      /\ Queued(posted, bar, worker, loading, result)
      /\ \A k : At(posted, k) = Places(k)
      /\ \A i \in At(posted, "finished") : i \in Nat
  BY QueuedIs, SceneAssumption, LenProperties DEF SceneInv, TypeOK, At, Places
<1> DEFINE Now == Line(posted, waiting, bar, loading, current, failed, wanted)
<1>2. pc \in {"between", "pass"} /\ ~overtaken => Now
  BY DEF LineInv
<1> HIDE DEF Now
<1>3. CASE Work
  <2>1. /\ worker \in Scene
        /\ UNCHANGED <<pc, waiting, cancel, bar, loading, current, history>>
    BY <1>1, <1>3 DEF Work, TypeOK, Optional
  <2>2. Note("progress", worker) \in Event /\ Note("finished", worker) \in Event
    BY <2>1 DEF Note, Event
  <2>3. Note("progress", worker).kind = "progress" /\ Note("finished", worker).kind = "finished"
    BY DEF Note
  <2>4. /\ pc' = pc /\ overtaken' = overtaken /\ waiting' = waiting /\ bar' = bar
        /\ loading' = loading /\ current' = current /\ failed' = failed /\ wanted' = wanted
    BY <2>1 DEF history
  <2>5. Line(posted, waiting, bar, loading, current, failed, wanted)
    BY <1>2, <2>4 DEF Now
  <2>6. At(posted, "finished") = {}
    BY <1>1, <2>1 DEF Queued
  <2>7. \/ posted' = Append(posted, Note("finished", worker))
        \/ posted' = Append(posted, Note("progress", worker))
    BY <1>3 DEF Work, Finish, Report
  <2> QED
    BY <1>1, <2>2, <2>3, <2>4, <2>5, <2>6, <2>7, LineOther, LineFinished
<1>4. CASE Proceed
  <2>1. /\ waiting \in Scene /\ worker = NoScene /\ waiting' = NoScene
        /\ pc' = pc /\ current' = current /\ wanted' = wanted /\ overtaken' = overtaken
        /\ failed' = failed
    BY <1>1, <1>4 DEF Proceed, Returns, TypeOK, Optional, history
  <2>2. Line(posted, waiting, bar, loading, current, failed, wanted)
    BY <1>2, <2>1 DEF Now
  <2>3. CASE bar
    <3>1. /\ posted' = Append(posted, Note("load", waiting))
          /\ bar' = bar /\ loading' = loading
      BY <1>4, <2>3 DEF Proceed, PostAgain
    <3>2. /\ Note("load", waiting) \in Event
          /\ Note("load", waiting).kind = "load" /\ Note("load", waiting).scene = waiting
      BY <2>1 DEF Note, Event
    <3>3. At(posted, "finished") # {}
      BY <1>1, <2>1, <2>3 DEF Queued
    <3>4. waiting # NoScene
      BY <1>1, <2>1
    <3>5. Line(Append(posted, Note("load", waiting)), NoScene, bar, loading, current, failed,
               wanted)
      BY <1>1, <2>2, <3>2, <3>3, <3>4, LineAgain
    <3> QED
      BY <2>1, <3>1, <3>5
  <2>4. CASE ~bar
    <3>1. bar' = TRUE /\ loading' = waiting /\ posted' = posted
      BY <1>4, <2>4 DEF Proceed, StartLoad
    <3>2. Rest(posted) = {}
      BY <1>1, <2>4 DEF Queued, Rest
    <3> QED
      BY <1>1, <2>1, <2>2, <3>1, <3>2 DEF Line, EndsIn
  <2> QED
    BY <2>3, <2>4
<1>5. CASE Handle
  <2> DEFINE e == Head(posted)
  <2>1. /\ pc \in {"between", "pass"} /\ waiting = NoScene /\ posted # <<>>
        /\ posted' = Tail(posted) /\ result' = result /\ worker' = worker
    BY <1>5 DEF Handle, work
  <2>2. e.kind \in {"http", "load", "progress", "finished"} /\ e.scene \in Scene
    BY <1>1, <2>1, TailAt DEF Event
  <2>3. /\ e.kind = "progress" =>
             UNCHANGED <<waiting, bar, loading, current, wanted, overtaken, failed>>
        /\ e.kind = "finished" => Completed /\ UNCHANGED <<waiting, wanted, overtaken>>
        /\ e.kind = "load" =>
             LoadScene(e.scene) /\ UNCHANGED <<bar, loading, current, wanted, overtaken, failed>>
        /\ e.kind = "http" =>
             /\ Handled(e.scene, Refused(e.scene))
             /\ IF Refused(e.scene) THEN waiting' = waiting ELSE LoadScene(e.scene)
             /\ UNCHANGED <<bar, loading, current, failed>>
    BY <1>5, <2>2 DEF Handle
  <2>4. e.kind # "http" /\ waiting = NoScene /\ ~overtaken
          => Line(posted, NoScene, bar, loading, current, failed, wanted)
    BY <1>2, <2>1 DEF Now
  <2> HIDE DEF e
  <2>5. CASE e.kind = "progress"
    <3>1. Line(posted, NoScene, bar, loading, current, failed, wanted)
      BY <2>1, <2>3, <2>4, <2>5
    <3>2. Line(Tail(posted), NoScene, bar, loading, current, failed, wanted)
      BY <1>1, <2>1, <2>5, <3>1, LineReported DEF e
    <3> QED
      BY <2>1, <2>3, <2>5, <3>2
  <2>6. CASE e.kind = "finished"
    <3>1. Line(posted, NoScene, bar, loading, current, failed, wanted)
      BY <2>1, <2>3, <2>4, <2>6
    <3>2. bar = TRUE /\ result \in {NoScene, loading}
      <4>1. bar \in BOOLEAN /\ Head(posted).kind = "finished"
        BY <1>1, <2>6 DEF TypeOK, e
      <4> QED
        BY <1>1, <2>1, <4>1, TailFinished
    <3>3. /\ waiting' = NoScene /\ wanted' = wanted /\ bar' = FALSE
          /\ \/ result # NoScene /\ current' = result
             \/ failed' = TRUE
      BY <2>1, <2>3, <2>6 DEF Completed, Succeeds, Fails
    <3>4. current' = loading \/ failed'
      BY <3>2, <3>3
    <3>5. \A i, j \in At(posted, "finished") : i = j
      BY <1>1 DEF Queued
    <3>6. ASSUME NEW m, NEW d, NEW g, d = loading \/ g
          PROVE  Line(Tail(posted), NoScene, FALSE, m, d, g, wanted)
      BY <1>1, <2>1, <2>6, <3>1, <3>2, <3>5, <3>6, LineCompleted DEF e
    <3>7. Line(Tail(posted), NoScene, FALSE, loading', current', failed', wanted)
      BY <3>4, <3>6
    <3> QED
      BY <2>1, <3>3, <3>7
  <2>7. CASE e.kind = "load"
    <3>1. Line(posted, NoScene, bar, loading, current, failed, wanted)
      BY <2>1, <2>3, <2>4, <2>7
    <3>2. Head(posted).kind = "load" /\ Head(posted).scene # NoScene
      BY <1>1, <2>2, <2>7 DEF e
    <3>3. Line(Tail(posted), Head(posted).scene, bar, loading, current, failed, wanted)
      BY <1>1, <2>1, <3>1, <3>2, LineCalled
    <3>4. waiting' = Head(posted).scene
      BY <2>3, <2>7 DEF LoadScene, e
    <3> QED
      BY <2>1, <2>3, <2>7, <3>3, <3>4
  <2>8. CASE e.kind = "http"
    <3>1. /\ wanted' = e.scene /\ InLine /\ (Refused(e.scene) => Places("load") = {})
          /\ bar' = bar /\ loading' = loading /\ current' = current /\ failed' = failed
      BY <2>3, <2>8 DEF Handled
    <3>2. \/ At(posted, "load") = {}
          \/ \E i \in At(posted, "finished") : \A j \in At(posted, "load") : i < j
      BY <1>1, <3>1 DEF InLine
    <3>3. Line(posted, waiting', bar, loading, current, failed, e.scene)
      <4>1. CASE ~Refused(e.scene)
        <5>1. waiting' = e.scene /\ e.scene # NoScene
          BY <1>1, <2>2, <2>3, <2>8, <4>1 DEF LoadScene
        <5>2. Line(posted, e.scene, bar, loading, current, failed, e.scene)
          BY <1>1, <3>2, <5>1, LineAsked
        <5> QED
          BY <5>1, <5>2
      <4>2. CASE Refused(e.scene)
        <5>1. First(posted) = {} /\ Rest(posted) = {}
          BY <1>1, <3>1, <4>2 DEF First, Rest
        <5>2. waiting' = NoScene
          BY <2>1, <2>3, <2>8, <4>2
        <5>3. IF bar THEN loading = e.scene ELSE current = e.scene \/ failed
          BY <1>1, <2>2, <4>2 DEF Refused, Queued, LoadingOrFailed
        <5> QED
          BY <5>1, <5>2, <5>3 DEF Line, EndsIn
      <4> QED
        BY <4>1, <4>2
    <3>4. Head(posted).kind \notin {"finished", "load"}
      BY <2>8 DEF e
    <3>5. Line(Tail(posted), waiting', bar, loading, current, failed, e.scene)
      BY <1>1, <2>1, <3>3, <3>4, LineReported
    <3> QED
      BY <2>1, <3>1, <3>5
  <2> QED
    BY <2>2, <2>5, <2>6, <2>7, <2>8
<1>6. ASSUME NEW s \in Scene, Ask(s)
      PROVE  Line(posted', waiting', bar', loading', current', failed', wanted')
  <2>1. /\ waiting' = s /\ wanted' = s /\ InLine /\ s # NoScene
        /\ UNCHANGED <<posted, bar, loading, current, failed>>
    BY <1>1, <1>6 DEF Ask, Handled, LoadScene
  <2>2. \/ At(posted, "load") = {}
        \/ \E i \in At(posted, "finished") : \A j \in At(posted, "load") : i < j
    BY <1>1, <2>1 DEF InLine
  <2>3. Line(posted, s, bar, loading, current, failed, s)
    BY <1>1, <2>1, <2>2, LineAsked
  <2> QED
    BY <2>1, <2>3
<1>7. ASSUME NEW s \in Scene, Request(s)
      PROVE  Line(posted', waiting', bar', loading', current', failed', wanted')
  <2>1. /\ posted' = Append(posted, Note("http", s))
        /\ pc' = pc /\ overtaken' = overtaken /\ waiting' = waiting /\ bar' = bar
        /\ loading' = loading /\ current' = current /\ failed' = failed /\ wanted' = wanted
    BY <1>7 DEF Request
  <2>2. Note("http", s) \in Event /\ Note("http", s).kind \notin {"finished", "load"}
    BY DEF Note, Event
  <2>3. Line(posted, waiting, bar, loading, current, failed, wanted)
    BY <1>2, <2>1 DEF Now
  <2> QED
    BY <1>1, <2>1, <2>2, <2>3, LineOther
<1>8. CASE EndPass \/ UNCHANGED vars
  <2>1. /\ pc \in {"between", "pass"} /\ posted' = posted /\ overtaken' = overtaken
        /\ waiting' = waiting /\ bar' = bar /\ loading' = loading /\ current' = current
        /\ failed' = failed /\ wanted' = wanted
    BY <1>8 DEF EndPass, vars, history
  <2> QED
    BY <1>2, <2>1 DEF Now
<1>9. CASE Quit \/ Deinit
  BY <1>9 DEF Quit, Deinit
<1> QED
  BY <1>3, <1>4, <1>5, <1>6, <1>7, <1>8, <1>9 DEF Next, Main

\* When everything has been handled, the scene of the last request that was handled
\* is there, unless its load failed or it was overtaken by an older request: for any
\* scenes and any number of requests, from the dialog or over HTTP (loadScene posts
\* itself "to ensure correct execution order").
THEOREM LastRequestWins == Spec => []LastWins
<1>1. SceneInv /\ LineInv => LastWins
  <2> SUFFICES ASSUME SceneInv, LineInv, Settled, ~overtaken
               PROVE  current = wanted \/ failed
    BY DEF LastWins
  <2>1. /\ posted = <<>> /\ waiting = NoScene /\ worker = NoScene
        /\ Line(posted, waiting, bar, loading, current, failed, wanted)
    BY DEF Settled, LineInv
  <2>2. \A k : At(posted, k) = {}
    BY <2>1 DEF At
  <2>3. First(posted) = {} /\ Rest(posted) = {}
    BY <2>2 DEF First, Rest
  <2>4. ~bar
    BY <2>1, <2>2, QueuedIs DEF SceneInv, Queued
  <2> QED
    BY <2>1, <2>3, <2>4 DEF Line
<1> QED
  BY <1>1, InitInv, StepInv, InitLine, StepLine, PTL DEF Spec

--------------------------------------------------------------------------------
(* The script engine.                                                         *)

\* A wait that is told to go on although its timer has not fired was told so by
\* the timer of another, and so it comes after a stop.
GoesOnCut == loop = "exit0" /\ timer => cut

\* A wait is told to be left by stops only.
ExitIsStop == loop = "exit1" => stopping

ScriptsInv == ScriptInv /\ EarlyAfterStop /\ GoesOnCut /\ ExitIsStop

LEMMA InitScriptInv == ScriptInit => ScriptsInv
<1> SUFFICES ASSUME ScriptInit PROVE ScriptsInv
  OBVIOUS
<1>1. ScriptTypeOK
  BY EmptySeq DEF ScriptInit, ScriptTypeOK
<1>2. /\ IdleIsIdle /\ WaitHasTimer /\ AbortIsOwn
      /\ StopIsKept /\ NameIsTrue
  BY DEF ScriptInit, IdleIsIdle, WaitHasTimer, AbortIsOwn,
         StopIsKept, NameIsTrue
<1>3. EarlyAfterStop /\ GoesOnCut /\ ExitIsStop
  BY DEF ScriptInit, EarlyAfterStop, GoesOnCut, ExitIsStop
<1> QED
  BY <1>1, <1>2, <1>3 DEF ScriptsInv, ScriptInv

\* A timer that quits the wait loop overrules a stop that is not yet an abort.
LEMMA QuitKeepsStop ==
    ASSUME ScriptsInv, QuitLoop,
           running' = running, place' = place, aborted' = aborted
    PROVE  /\ loop' \in {"ended", "running", "exit0", "exit1"}
           /\ loop' # "ended" <=> place = "wait"
           /\ loop' # "running" /\ loop' # "exit1"
           /\ stopping' = stopping /\ overruled' \in BOOLEAN /\ repaused' = repaused
           /\ StopIsKept'
<1> USE DEF ScriptsInv, ScriptInv, ScriptTypeOK, WaitHasTimer, StopIsKept
<1>1. /\ loop' = IF place = "wait" THEN "exit0" ELSE loop
      /\ stopping' = stopping /\ repaused' = repaused
  BY DEF QuitLoop
<1>2. /\ loop' \in {"ended", "running", "exit0", "exit1"}
      /\ loop' # "ended" <=> place = "wait"
      /\ loop' # "running" /\ loop' # "exit1"
  BY <1>1
<1>3. overruled' <=> overruled \/ (loop = "exit1" /\ ~aborted)
  BY Zenon DEF QuitLoop
<1>4. overruled' \in BOOLEAN
  BY Zenon DEF QuitLoop
<1>5. stopping => /\ running # NoScript
                  /\ aborted \/ overruled'
  BY <1>3
<1>6. overruled' => stopping /\ ~aborted
  BY <1>3 DEF ExitIsStop
<1> QED
  BY <1>1, <1>2, <1>4, <1>5, <1>6

LEMMA StepScriptInv ==
    ASSUME ScriptsInv, [ScriptNext]_scriptVars
    PROVE  ScriptsInv'
<1> USE ScriptAssumption DEF ScriptsInv, ScriptInv, EarlyAfterStop, GoesOnCut,
        ExitIsStop, ScriptTypeOK, IdleIsIdle, WaitHasTimer, AbortIsOwn,
        StopIsKept, NameIsTrue, waits, scriptHistory
<1>1. ASSUME NEW s \in Script, RunScript(s) PROVE ScriptsInv'
<2>1. CASE running = NoScript
  <3>1. /\ running' = s /\ name' = s /\ place' = "js" /\ misnamed' = FALSE
        /\ runs' = runs + 1 /\ place = "idle"
        /\ UNCHANGED <<aborted, paused, loop, timer, leftover, postedRuns, stopping, overruled, repaused,
                       cut, early>>
    BY <1>1, <2>1 DEF RunScript, Begin
  <3>2. loop = "ended" /\ ~timer /\ ~aborted /\ ~stopping /\ ~overruled /\ s # NoScript
    BY <3>1, <2>1
  <3>3. ScriptTypeOK'
    <4>1. runs' \in Nat
      BY <3>1
    <4>2. /\ running' \in Script \union {NoScript} /\ name' \in Script \union {NoScript}
          /\ place' \in {"idle", "js", "paused", "wait"} /\ misnamed' \in BOOLEAN
      BY <3>1
    <4> QED
      BY <3>1, <4>1, <4>2, Zenon
  <3>4. /\ IdleIsIdle' /\ WaitHasTimer' /\ AbortIsOwn'
        /\ StopIsKept' /\ NameIsTrue'
    BY <3>1, <3>2, <3>3
  <3>5. EarlyAfterStop' /\ GoesOnCut' /\ ExitIsStop'
    BY <3>1, Zenon
  <3> QED
    BY <3>3, <3>4, <3>5
<2>2. CASE running # NoScript
  BY <1>1, <2>2 DEF RunScript
<2> QED
  BY <2>1, <2>2
<1>2. ASSUME NEW s \in Script, PostRun(s) PROVE ScriptsInv'
  BY <1>2 DEF PostRun
<1>3. CASE RunPosted
<2>1. Head(postedRuns) \in Script /\ Tail(postedRuns) \in Seq(Script)
  BY <1>3, HeadTailProperties DEF RunPosted
<2>2. CASE running = NoScript
  BY <1>3, <2>1, <2>2 DEF RunPosted, Begin
<2>3. CASE running # NoScript
  BY <1>3, <2>1, <2>3 DEF RunPosted
<2> QED
  BY <2>2, <2>3
<1>4. CASE StopScript
  BY <1>4 DEF StopScript, Abort, Told
<1>5. CASE PauseScript
  BY <1>5 DEF PauseScript
<1>6. CASE ResumeScript
  BY <1>6 DEF ResumeScript
<1>7. CASE Timer
<2>1. /\ timer /\ timer' = FALSE /\ QuitLoop
      /\ UNCHANGED <<running, place, name, aborted, paused, leftover, postedRuns, runs,
                     misnamed, cut, early>>
  BY <1>7 DEF Timer
<2>2. /\ loop' \in {"ended", "running", "exit0", "exit1"}
      /\ loop' # "ended" <=> place = "wait"
      /\ loop' # "running" /\ loop' # "exit1"
      /\ stopping' = stopping /\ overruled' \in BOOLEAN /\ repaused' = repaused
      /\ StopIsKept'
  BY <2>1, QuitKeepsStop, Zenon
<2> QED
  BY <2>1, <2>2
<1>8. CASE Leftover
<2>1. /\ leftover > 0 /\ leftover' = leftover - 1 /\ QuitLoop
      /\ UNCHANGED <<running, place, name, aborted, paused, timer, postedRuns, runs,
                     misnamed, cut>>
  BY <1>8 DEF Leftover
<2>2. /\ loop' \in {"ended", "running", "exit0", "exit1"}
      /\ loop' # "ended" <=> place = "wait"
      /\ loop' # "running" /\ loop' # "exit1"
      /\ stopping' = stopping /\ overruled' \in BOOLEAN /\ repaused' = repaused
      /\ StopIsKept'
  BY <2>1, QuitKeepsStop, Zenon
<2>3. early' \in BOOLEAN
  BY <1>8, Zenon DEF Leftover
<2>4. cut' = TRUE
  BY <2>1
<2> QED
  BY <2>1, <2>2, <2>3, <2>4
<1>9. CASE LeaveWait
<2>1. /\ place = "wait" /\ loop # "running" /\ place' = "js" /\ loop' = "ended" /\ timer' = FALSE
      /\ running' = running /\ name' = name /\ misnamed' = misnamed
      /\ postedRuns' = postedRuns /\ runs' = runs /\ stopping' = stopping /\ early' = early
      /\ overruled' = overruled /\ repaused' = repaused
  BY <1>9 DEF LeaveWait
<2>2. leftover' \in Nat /\ (leftover' > 0 => timer \/ leftover > 0)
  BY <1>9 DEF LeaveWait
<2>3. cut' = (cut \/ loop = "exit1")
  BY <1>9, Zenon DEF LeaveWait
<2>4. cut' \in BOOLEAN
  BY <2>3, Zenon
<2>5. \/ loop = "exit1" /\ aborted' = TRUE /\ paused' = FALSE
      \/ loop # "exit1" /\ aborted' = aborted /\ paused' = paused
  BY <1>9 DEF LeaveWait, Abort
<2>6. running # NoScript
  BY <2>1
<2>7. aborted' \in BOOLEAN /\ paused' \in BOOLEAN
  BY <2>5
<2>8. ScriptTypeOK'
  BY <2>1, <2>2, <2>4, <2>7
<2>9. IdleIsIdle' /\ WaitHasTimer' /\ NameIsTrue'
  BY <2>1
<2>10. AbortIsOwn' /\ StopIsKept'
  BY <2>1, <2>5, <2>6
<2>11. EarlyAfterStop'
  <3>1. CASE loop = "exit1"
    BY <2>3, <3>1, Zenon
  <3>2. CASE loop # "exit1"
    <4>1. cut' = cut
      BY <2>3, <3>2, Zenon
    <4>2. leftover' > 0 => timer \/ leftover > 0
      BY <2>2
    <4> QED
      BY <2>1, <3>2, <4>1, <4>2
  <3> QED
    BY <3>1, <3>2
<2>12. GoesOnCut' /\ ExitIsStop'
  BY <2>1
<2> QED
  BY <2>8, <2>9, <2>10, <2>11, <2>12
<1>10. CASE LeavePause
  BY <1>10 DEF LeavePause
<1>11. CASE Wait
  BY <1>11 DEF Wait
<1>12. CASE EnterPause
  BY <1>12 DEF EnterPause
<1>13. CASE Exit
  BY <1>13 DEF Exit, Abort, Told
<1>14. CASE End
  BY <1>14 DEF End
<1>15. CASE UNCHANGED scriptVars
  BY <1>15 DEF scriptVars
<1> QED
  BY <1>1, <1>2, <1>3, <1>4, <1>5, <1>6, <1>7, <1>8, <1>9, <1>10, <1>11, <1>12, <1>13,
     <1>14, <1>15 DEF ScriptNext, Goes

\* At every step the manager's flags, loop and timers agree with the script that
\* is evaluated, for any number of scripts, runs, stops and timers.
THEOREM ScriptCorrect == ScriptSpec => []ScriptInv
<1>1. ScriptsInv /\ [ScriptNext]_scriptVars => ScriptsInv'
  BY StepScriptInv
<1>2. ScriptsInv => ScriptInv
  BY DEF ScriptsInv
<1> QED
  BY <1>1, <1>2, InitScriptInv, PTL DEF ScriptSpec

\* Without a stop, no wait ends before its time.
THEOREM WaitsLast == ScriptSpec => []EarlyAfterStop
<1>1. ScriptsInv /\ [ScriptNext]_scriptVars => ScriptsInv'
  BY StepScriptInv
<1>2. ScriptsInv => EarlyAfterStop
  BY DEF ScriptsInv
<1> QED
  BY <1>1, <1>2, InitScriptInv, PTL DEF ScriptSpec
================================================================================
