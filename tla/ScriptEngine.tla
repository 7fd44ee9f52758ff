----------------------------- MODULE ScriptEngine -----------------------------
(*****************************************************************************)
(* Running, pausing, waiting in and stopping a script (StelScriptMgr,        *)
(* StelMainScriptAPI and the script service of RemoteControl).               *)
(*                                                                           *)
(* A script is evaluated on the stack of the main thread, and events are     *)
(* dispatched there while it is evaluated, while it is paused and while it   *)
(* waits: everything the user does may come at any of these places.          *)
(*                                                                           *)
(* (Init, Next, Spec and the like begin with Script, so that a module can    *)
(* extend this one together with SceneLoader.)                               *)
(*****************************************************************************)
EXTENDS Naturals, Sequences

CONSTANTS Script,      \* the scripts
          NoScript,    \* the empty name
          MaxRuns,     \* bound: runs asked for in a behaviour
          MaxTimers    \* bound: timers left behind by waits

ASSUME ScriptAssumption ==
    NoScript \notin Script /\ MaxRuns \in Nat /\ MaxTimers \in Nat

VARIABLES
    running,    \* the script the engine evaluates, or NoScript
    place,      \* where the main thread is: idle, js, paused (positionChange), wait
    name,       \* scriptFileName
    aborted,    \* abortEvaluation was called
    paused,     \* isPaused
    loop,       \* waitEventLoop: running, or told to end with code 0 or 1
    timer,      \* the timer of this wait has not fired
    leftover,   \* number of timers of other waits that have not fired
    postedRuns, \* calls of runPreprocessedScript that are posted
    runs,       \* number of runs asked for
    stopping,   \* history: this script has been told to stop
    overruled,  \* history: a timer has quit the wait after it was told so
    repaused,   \* history: this script has been told to pause after it was told so
    misnamed,   \* history: a script was prepared since one began or ended
    cut,        \* history: a wait was ended by a stop
    early       \* history: a wait was ended by the timer of another
waits   == <<loop, timer, leftover>>
scriptHistory == <<stopping, overruled, repaused, misnamed, cut, early>>
scriptVars == <<running, place, name, aborted, paused, waits, postedRuns, runs, scriptHistory>>

ScriptInit ==
    /\ running = NoScript /\ place = "idle" /\ name = NoScript
    /\ aborted = FALSE /\ paused = FALSE
    /\ loop = "ended" /\ timer = FALSE /\ leftover = 0
    /\ postedRuns = <<>> /\ runs = 0
    /\ stopping = FALSE /\ overruled = FALSE /\ repaused = FALSE
    /\ misnamed = FALSE /\ cut = FALSE /\ early = FALSE

--------------------------------------------------------------------------------
(* Calls that are made while events are dispatched, at every place.           *)

\* runPreprocessedScript, up to evaluate, if no script is evaluated.
Begin(s) ==
    /\ running' = s /\ name' = s /\ place' = "js" /\ misnamed' = FALSE

\* runScript: the script is prepared, which sets scriptFileName, and then
\* refused if another is running.
RunScript(s) ==
    /\ runs < MaxRuns /\ runs' = runs + 1
    /\ IF running = NoScript
       THEN Begin(s)
       ELSE name' = s /\ misnamed' = TRUE /\ UNCHANGED <<running, place>>
    /\ UNCHANGED <<aborted, paused, waits, postedRuns, stopping, overruled, repaused, cut, early>>

\* "run" of the HTTP interface: it prepares the script, which may fail then, if
\* none is running, and posts the rest.
PostRun(s) ==
    /\ runs < MaxRuns /\ runs' = runs + 1 /\ running = NoScript
    /\ name' = s /\ misnamed' = TRUE
    /\ postedRuns' \in {postedRuns, Append(postedRuns, s)}
    /\ UNCHANGED <<running, place, aborted, paused, waits, stopping, overruled, repaused, cut, early>>

\* The posted runPreprocessedScript is called; another script may run by now.
RunPosted ==
    /\ postedRuns # <<>> /\ postedRuns' = Tail(postedRuns)
    /\ IF running = NoScript
       THEN Begin(Head(postedRuns))
       ELSE UNCHANGED <<running, place, name, misnamed>>
    /\ UNCHANGED <<aborted, paused, waits, runs, stopping, overruled, repaused, cut, early>>

\* The end of stopScript, for a script that is evaluated.  Mutant: a paused
\* script stays paused.
AbortsInPause == aborted' = TRUE /\ UNCHANGED paused
Abort == aborted' = TRUE /\ paused' = FALSE

Told == stopping' = TRUE /\ overruled' = FALSE /\ repaused' = FALSE

\* stopScript ends the wait, if there is one, or else aborts the script.
StopScript ==
    /\ IF loop = "running"
       THEN loop' = "exit1" /\ Told /\ UNCHANGED <<aborted, paused>>
       ELSE IF running # NoScript
       THEN Abort /\ Told /\ UNCHANGED loop
       ELSE UNCHANGED <<aborted, paused, loop, stopping, overruled, repaused>>
    /\ UNCHANGED <<running, place, name, timer, leftover, postedRuns, runs,
                   misnamed, cut, early>>

PauseScript ==
    /\ ~paused /\ paused' = TRUE /\ repaused' = stopping
    /\ UNCHANGED <<running, place, name, aborted, waits, postedRuns, runs,
                   stopping, overruled, misnamed, cut, early>>
ResumeScript ==
    /\ paused /\ paused' = FALSE
    /\ UNCHANGED <<running, place, name, aborted, waits, postedRuns, runs, scriptHistory>>

\* quit() of the wait loop is exit(0).  It replaces the code of an exit(1) that
\* came in the same pass over the events: the script goes on as if it had not
\* been told to stop.
QuitLoop ==
    /\ loop' = IF place = "wait" THEN "exit0" ELSE loop
    /\ overruled' = (overruled \/ (loop = "exit1" /\ ~aborted))
    /\ UNCHANGED <<stopping, repaused>>

\* The single shot timer of a wait fires, during that wait or later.  Mutant: it
\* is not a single shot.
TimerStays ==
    /\ timer /\ timer' = FALSE /\ QuitLoop /\ leftover' = leftover + 1
    /\ UNCHANGED <<running, place, name, aborted, paused, postedRuns, runs,
                   misnamed, cut, early>>
Timer ==
    /\ timer /\ timer' = FALSE /\ QuitLoop
    /\ UNCHANGED <<running, place, name, aborted, paused, leftover, postedRuns, runs,
                   misnamed, cut, early>>
Leftover ==
    /\ leftover > 0 /\ leftover' = leftover - 1 /\ QuitLoop
    /\ early' = (early \/ loop = "running")
    /\ UNCHANGED <<running, place, name, aborted, paused, timer, postedRuns, runs,
                   misnamed, cut>>

--------------------------------------------------------------------------------
(* The script.                                                                *)

\* wait and waitFor, up to the loop's exec.
Wait ==
    /\ place = "js" /\ ~aborted /\ leftover < MaxTimers
    /\ place' = "wait" /\ loop' = "running" /\ timer' = TRUE
    /\ UNCHANGED <<running, name, aborted, paused, leftover, postedRuns, runs, scriptHistory>>

\* exec returns: 0 lets the script go on, anything else is a requestExit, which
\* calls stopScript again.  Mutant: only the wait is left.
LeavesWaitOnly ==
    /\ place = "wait" /\ loop # "running"
    /\ place' = "js" /\ loop' = "ended" /\ timer' = FALSE
    /\ leftover' = leftover + (IF timer THEN 1 ELSE 0)
    /\ cut' = (cut \/ loop = "exit1")
    /\ UNCHANGED <<aborted, paused, running, name, postedRuns, runs, stopping,
                   overruled, repaused, misnamed, early>>
LeaveWait ==
    /\ place = "wait" /\ loop # "running"
    /\ place' = "js" /\ loop' = "ended" /\ timer' = FALSE
    /\ leftover' = leftover + (IF timer THEN 1 ELSE 0)
    /\ cut' = (cut \/ loop = "exit1")
    /\ IF loop = "exit1" THEN Abort ELSE UNCHANGED <<aborted, paused>>
    /\ UNCHANGED <<running, name, postedRuns, runs, stopping, overruled, repaused, misnamed, early>>

\* positionChange, before every statement.
EnterPause ==
    /\ place = "js" /\ ~aborted /\ paused /\ place' = "paused"
    /\ UNCHANGED <<running, name, aborted, paused, waits, postedRuns, runs, scriptHistory>>
LeavePause ==
    /\ place = "paused" /\ ~paused /\ place' = "js"
    /\ UNCHANGED <<running, name, aborted, paused, waits, postedRuns, runs, scriptHistory>>

\* exit(): a requestExit of the script itself.
Exit ==
    /\ place = "js" /\ ~aborted
    /\ Abort /\ Told
    /\ UNCHANGED <<running, place, name, waits, postedRuns, runs, misnamed, cut, early>>

\* evaluate returns, at the end of the script or because it is aborted; then
\* scriptEnded.
End ==
    /\ place = "js"
    /\ running' = NoScript /\ place' = "idle" /\ name' = NoScript
    /\ aborted' = FALSE /\ stopping' = FALSE /\ overruled' = FALSE /\ repaused' = FALSE
    /\ misnamed' = FALSE
    /\ UNCHANGED <<paused, waits, postedRuns, runs, cut, early>>

--------------------------------------------------------------------------------
Aborted == aborted /\ End
Goes == Wait \/ EnterPause \/ Exit \/ End
ScriptNext ==
    \/ \E s \in Script : RunScript(s) \/ PostRun(s)
    \/ RunPosted \/ StopScript \/ PauseScript \/ ResumeScript
    \/ Timer \/ Leftover \/ LeaveWait \/ LeavePause \/ Goes

\* Events are dispatched, timers fire, loops end, and an aborted script ends.
\* A script that is not aborted may run for ever.
ScriptSpec ==
    /\ ScriptInit /\ [][ScriptNext]_scriptVars
    /\ WF_scriptVars(Timer) /\ WF_scriptVars(LeaveWait)
    /\ WF_scriptVars(LeavePause) /\ WF_scriptVars(Aborted)

--------------------------------------------------------------------------------
(* Properties.                                                                *)

\* The types, and what the calls that re-enter the manager rely on: a wait that
\* goes on has its timer, so that it ends; an abort is never left over for the
\* next script; a script that was told to stop is aborted, or will be when its
\* wait ends, unless a timer quits that wait before it is left, the one thing by
\* which a stop is lost; and the running script's name is right, "" if there is
\* none, except after another script was prepared.
ScriptTypeOK ==
    /\ running \in Script \union {NoScript} /\ name \in Script \union {NoScript}
    /\ place \in {"idle", "js", "paused", "wait"}
    /\ loop \in {"ended", "running", "exit0", "exit1"}
    /\ aborted \in BOOLEAN /\ paused \in BOOLEAN /\ timer \in BOOLEAN
    /\ stopping \in BOOLEAN /\ overruled \in BOOLEAN /\ repaused \in BOOLEAN
    /\ misnamed \in BOOLEAN /\ cut \in BOOLEAN /\ early \in BOOLEAN
    /\ leftover \in Nat /\ runs \in Nat /\ postedRuns \in Seq(Script)
IdleIsIdle   == place = "idle" <=> running = NoScript
WaitHasTimer == /\ loop # "ended" <=> place = "wait"
                /\ loop = "running" => timer
                /\ timer => place = "wait"
AbortIsOwn   == aborted => running # NoScript
StopIsKept   == /\ stopping => /\ running # NoScript
                               /\ aborted \/ loop = "exit1" \/ overruled
                /\ overruled => stopping /\ ~aborted /\ loop # "exit1"
NameIsTrue   == ~misnamed => name = running
ScriptInv == /\ ScriptTypeOK /\ IdleIsIdle /\ WaitHasTimer /\ AbortIsOwn /\ StopIsKept
             /\ NameIsTrue

\* A wait ends before its time only when it is stopped, or by the timer of a
\* wait that was: without stops, every wait lasts as long as it should.
EarlyAfterStop == early \/ leftover > 0 => cut

\* A script that is told to stop ends, wherever it is, also when it is paused,
\* unless it is told to pause again before it has left the pause, or the stop is
\* overruled by a timer (QuitLoop).
PausedAgain == place = "paused" /\ paused /\ repaused
StopEnds == stopping ~> ~stopping \/ overruled \/ PausedAgain
================================================================================
