------------------------------ MODULE SceneLoader ------------------------------
(*****************************************************************************)
(* The loader of 3D scenes (plug-in Scenery3d): a scene is built by a worker *)
(* thread, and a new request cancels the one under way, waits for its worker *)
(* and, if the event that completes it has not been handled yet, posts itself*)
(* behind that event.                                                        *)
(*                                                                           *)
(* Requests come from the dialog and the keyboard, between two passes over   *)
(* the posted events, and from the HTTP interface, as posted events.         *)
(*****************************************************************************)
EXTENDS Naturals, Sequences, FiniteSets

CONSTANTS Scene,      \* the scenes
          NoScene,    \* an invalid SceneInfo, a null S3DScene
          Ground,     \* the modelGround of each scene
          MaxAsked,   \* bound: requests in a behaviour
          MaxPosted   \* bound: HTTP requests waiting for the main thread

ASSUME SceneAssumption ==
    /\ NoScene \notin Scene
    /\ Ground \in [Scene -> {"model", "none", "file"}]
    /\ MaxAsked \in Nat /\ MaxPosted \in Nat

Event == [kind : {"http", "load", "progress", "finished"}, scene : Scene]

VARIABLES
    posted,     \* the posted events of the main thread
    pc,         \* the main thread: between two passes over them, in one, leaving
    waiting,    \* the scene whose loadScene is in waitForFinished, or NoScene
    worker,     \* the scene loadSceneBackground loads, or NoScene
    stage,      \* how far it is: the last progress it reported
    cancel,     \* loadCancel
    bar,        \* progressBar is not null
    loading,    \* currentLoadScene
    result,     \* the result of currentLoadFuture
    current,    \* currentScene
    asked,      \* number of requests so far
    wanted,     \* history: the scene of the last request that was handled
    overtaken,  \* history: it was handled while another waited to be started
    failed      \* history: the last load ended without a scene
work    == <<worker, stage, result>>
history == <<asked, wanted, overtaken, failed>>
vars == <<posted, pc, waiting, work, cancel, bar, loading, current, history>>

Init == /\ posted = <<>> /\ pc = "between" /\ waiting = NoScene
        /\ worker = NoScene /\ stage = 0 /\ cancel = FALSE /\ bar = FALSE
        /\ loading = NoScene /\ result = NoScene /\ current = NoScene
        /\ asked = 0 /\ wanted = NoScene /\ overtaken = FALSE /\ failed = FALSE

Note(kind, s) == [kind |-> kind, scene |-> s]
Places(kind) == {i \in DOMAIN posted : posted[i].kind = kind}

--------------------------------------------------------------------------------
(* The worker thread, in loadSceneBackground.                                 *)

\* The thread ends, and its future posts the event for loadSceneCompleted.
Finish(s) ==
    /\ result' = s /\ worker' = NoScene /\ stage' = 0
    /\ posted' = Append(posted, Note("finished", worker))

\* progressReport(n), a queued signal.
Report(n) ==
    /\ stage' = n /\ posted' = Append(posted, Note("progress", worker))
    /\ UNCHANGED <<worker, result>>

\* From a report to the next one, or to the end: for a model that cannot be
\* read, or a cancelled load, where loadCancel is looked at.
NextStage ==
    IF stage # 2 THEN stage + 1
    ELSE CASE Ground[worker] = "model" -> 5
           [] Ground[worker] = "file"  -> 3
           [] Ground[worker] = "none"  -> 6
ReadsModel == stage \in {1, 3}
LooksAtCancel == stage \notin {3, 6}
Work ==
    /\ worker # NoScene
    /\ \/ ReadsModel /\ Finish(NoScene)
       \/ LooksAtCancel /\ cancel /\ Finish(NoScene)
       \/ stage < 6 /\ ~(LooksAtCancel /\ cancel) /\ Report(NextStage)
       \/ stage = 6 /\ Finish(worker)
    /\ UNCHANGED <<pc, waiting, cancel, bar, loading, current, history>>

--------------------------------------------------------------------------------
(* The main thread.                                                           *)

\* loadScene, up to waitForFinished.
LoadScene(s) == waiting' = s /\ cancel' = TRUE

\* A request is handled, the last one so far.  It is in line if the loads that
\* are posted wait for the same end of a load as it will, or if there are none.
InLine == \/ Places("load") = {}
          \/ \E i \in Places("finished") : \A j \in Places("load") : i < j
Handled(s, refused) ==
    /\ wanted' = s
    /\ overtaken' = ~(InLine /\ (refused => Places("load") = {}))

\* The user chooses a scene.
Ask(s) ==
    /\ pc = "between" /\ waiting = NoScene /\ asked < MaxAsked
    /\ asked' = asked + 1
    /\ Handled(s, FALSE) /\ LoadScene(s)
    /\ UNCHANGED <<posted, pc, work, bar, loading, current, failed>>

\* An HTTP request arrives, and waits for the main thread.
Request(s) ==
    /\ pc \in {"between", "pass"} /\ asked < MaxAsked /\ asked' = asked + 1
    /\ Cardinality(Places("http")) < MaxPosted
    /\ posted' = Append(posted, Note("http", s))
    /\ UNCHANGED <<pc, waiting, work, cancel, bar, loading, current, wanted,
                   overtaken, failed>>

\* loadScene after waitForFinished.  Mutant: the load starts although the end of
\* the last one has not been handled.
StartLoad ==
    /\ bar' = TRUE /\ loading' = waiting
    /\ worker' = waiting /\ stage' = 0 /\ result' = NoScene
    /\ UNCHANGED posted
PostAgain ==
    /\ posted' = Append(posted, Note("load", waiting))
    /\ UNCHANGED <<bar, loading, work>>
Returns == /\ waiting # NoScene /\ worker = NoScene /\ waiting' = NoScene
           /\ UNCHANGED <<pc, current, history>>
StartsAtOnce == Returns /\ cancel' = FALSE /\ StartLoad
Proceed == Returns /\ cancel' = FALSE /\ IF bar THEN PostAgain ELSE StartLoad

\* loadSceneCompleted.  Mutants: a failure leaves the progress bar; the bar goes
\* but the scene does not come.
Succeeds ==
    /\ current' = result /\ loading' = NoScene /\ failed' = FALSE
Fails == failed' = TRUE /\ UNCHANGED <<current, loading>>
KeepsBar   == IF result = NoScene THEN Fails /\ UNCHANGED bar ELSE Succeeds /\ bar' = FALSE
KeepsScene == /\ bar' = FALSE /\ loading' = NoScene /\ failed' = (result = NoScene)
              /\ UNCHANGED current
Completed  == bar' = FALSE /\ IF result = NoScene THEN Fails ELSE Succeeds

\* "loadscene" of the HTTP interface: refused if the scene is there, or on its way.
Refused(s) == IF s = current THEN loading = NoScene ELSE s = loading

\* The next posted event is handled.
Handle ==
    /\ pc \in {"between", "pass"} /\ waiting = NoScene /\ posted # <<>>
    /\ pc' = "pass" /\ posted' = Tail(posted)
    /\ LET e == Head(posted) IN
       CASE e.kind = "progress" ->
              UNCHANGED <<waiting, cancel, bar, loading, current, wanted, overtaken, failed>>
         [] e.kind = "finished" ->
              Completed /\ UNCHANGED <<waiting, cancel, wanted, overtaken>>
         [] e.kind = "load" ->
              LoadScene(e.scene) /\ UNCHANGED <<bar, loading, current, wanted, overtaken, failed>>
         [] e.kind = "http" ->
              /\ Handled(e.scene, Refused(e.scene))
              /\ IF Refused(e.scene) THEN UNCHANGED <<waiting, cancel>> ELSE LoadScene(e.scene)
              /\ UNCHANGED <<bar, loading, current, failed>>
    /\ UNCHANGED <<work, asked>>

\* A pass ends when nothing is posted any more; then input is looked at.
EndPass ==
    /\ pc = "pass" /\ waiting = NoScene /\ posted = <<>> /\ pc' = "between"
    /\ UNCHANGED <<posted, waiting, work, cancel, bar, loading, current, history>>

\* deinit, when the program ends.
Quit ==
    /\ pc = "between" /\ waiting = NoScene /\ pc' = "leaving" /\ cancel' = TRUE
    /\ UNCHANGED <<posted, waiting, work, bar, loading, current, history>>
Deinit ==
    /\ pc = "leaving" /\ worker = NoScene /\ pc' = "left" /\ current' = NoScene
    /\ UNCHANGED <<posted, waiting, work, cancel, bar, loading, history>>

--------------------------------------------------------------------------------
Main == Proceed \/ Handle \/ EndPass \/ Deinit
Next == Work \/ Main \/ Quit \/ \E s \in Scene : Ask(s) \/ Request(s)

\* The worker and the main thread go on; requests and the end may never come.
Spec == Init /\ [][Next]_vars /\ WF_vars(Work) /\ WF_vars(Main)

--------------------------------------------------------------------------------
(* Properties.                                                                *)

\* The types, and what the two threads rely on.  The progress bar is there if
\* and only if a worker runs or its one "finished" event is still posted, so
\* that loadSceneCompleted never meets a null progressBar or a second worker's
\* result; the worker, its result and its reports are those of currentLoadScene,
\* from which loadSceneCompleted takes the view; loadCancel is set only while
\* someone waits; and a loadingSceneID that stays when nothing is loaded is that
\* of a load that failed.
Optional == Scene \union {NoScene}
TypeOK ==
    /\ posted \in Seq(Event) /\ pc \in {"between", "pass", "leaving", "left"}
    /\ waiting \in Optional /\ worker \in Optional /\ loading \in Optional
    /\ result \in Optional /\ current \in Optional /\ wanted \in Optional
    /\ stage \in 0 .. 6 /\ asked \in Nat
    /\ cancel \in BOOLEAN /\ bar \in BOOLEAN /\ overtaken \in BOOLEAN /\ failed \in BOOLEAN
OneEnd ==
    /\ bar <=> worker # NoScene \/ Places("finished") # {}
    /\ worker # NoScene => Places("finished") = {}
    /\ \A i, j \in Places("finished") : i = j
OwnReports ==
    /\ bar => loading # NoScene
    /\ worker \in {NoScene, loading}
    /\ \A i \in Places("finished") :
         result \in {NoScene, loading} /\ posted[i].scene = loading
    /\ \A i \in Places("progress") :
         bar /\ posted[i].scene = loading /\ \A j \in Places("finished") : i < j
CancelIsBrief == cancel => waiting # NoScene \/ pc \in {"leaving", "left"}
LoadingOrFailed == loading # NoScene => bar \/ failed
SceneInv == TypeOK /\ OneEnd /\ OwnReports /\ CancelIsBrief /\ LoadingOrFailed

\* When everything has been handled, the scene of the last request is there, if
\* it could be loaded.  The exception: while the load of an earlier request is
\* posted, and waits for the end of the load it cancelled to be handled, another
\* is started, or is refused because its scene is still said to be loading.
Settled == pc = "between" /\ posted = <<>> /\ worker = NoScene /\ waiting = NoScene
LastWins == Settled => current = wanted \/ failed \/ overtaken

\* However requests, cancelled loads and posted loads chase each other, the
\* loader comes to rest, or the program ends.
Settles == []<>(Settled \/ pc = "left")
================================================================================
