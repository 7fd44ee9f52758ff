------------------------------ MODULE Lx200Queue ------------------------------
(*****************************************************************************)
(* The command queue of a telescope on a serial line (TelescopeControl:      *)
(* Lx200Connection, Lx200Command, TelescopeClientDirectLx200), with the      *)
(* telescope and the line as its environment.                                *)
(*                                                                           *)
(* The queue sends one command at a time and waits for its answer, which it  *)
(* knows only by its place: the protocol numbers nothing.  A time-out throws *)
(* everything away and then keeps quiet, so that what still arrives can be   *)
(* told from answers.  Everything runs in frames of the main thread; time is *)
(* counted in ticks, and the code's moments are kept as ticks to go.         *)
(*****************************************************************************)
EXTENDS Integers, Sequences, FiniteSets

CONSTANTS SlewTimeout,   \* ticks to wait for the answer to a slew or a sync
          ReadTimeout,   \* ticks to wait for any other answer
          QuietTime,     \* ticks without sending after a reset
          PollPause,     \* ticks between two questions for the position
          Gap,           \* most ticks between two frames
          PromptSlew,    \* most ticks a good telescope takes over a slew
          Prompt,        \* and over any other command
          MaxAge,        \* bound: ticks after which nothing is answered
          MaxDue,        \* bound: commands that the telescope keeps for later ticks
          MaxArrived     \* bound: pieces that arrive before they are read

ASSUME TimesAssumption ==
    /\ SlewTimeout \in Nat /\ ReadTimeout \in Nat /\ QuietTime \in Nat
    /\ PollPause \in Nat /\ Gap \in Nat \ {0} /\ MaxAge \in Nat
    /\ MaxDue \in Nat /\ MaxArrived \in Nat
    /\ SlewTimeout <= ReadTimeout

\* What a good telescope is: it answers a slew while it is waited for, though
\* the answer is read a frame late, and everything else before the end of the
\* quiet time, though the command leaves a frame late as well.
ASSUME PromptAssumption ==
    /\ PromptSlew \in Nat /\ PromptSlew + Gap <= SlewTimeout
    /\ Prompt \in Nat /\ Prompt + 2 * Gap <= ReadTimeout + QuietTime

Silent  == {"StopSlew", "ToggleFormat"}        \* needsNoAnswer
Kind    == Silent \union {"Set", "Slew", "GetRa", "GetDec"}
Forever == ReadTimeout + 1

\* A queued command.  "Set" is SetSelectedRa or SetSelectedDec, "Slew" is
\* GotoSelected or SyncSelected: the code of the two is the same.  short is
\* shortAnswerReceived: the first byte of the answer to a slew has come.
Command == [kind : Kind, written : BOOLEAN, short : BOOLEAN]
New(k)  == [kind |-> k, written |-> FALSE, short |-> FALSE]
Slewing == <<New("StopSlew"), New("Set"), New("Set"), New("Slew")>>

\* What a telescope may send: a digit, a digit with a text that # ends, such a
\* text alone, a right ascension, a declination.
What   == {"0", "1", "1text", "text", "ra", "dec"}
Hashed == What \ {"0", "1"}

VARIABLES
    list,        \* command_list
    gotos,       \* goto_commands_queued
    timeLeft,    \* read_timeout_endtime, from now; negative when it has passed
    quiet,       \* next_send_time, from now
    poll,        \* queue_get_position
    pollWait,    \* next_pos_time, from now
    longUsed,    \* long_format_used
    out,         \* write_buff: the commands in it, see Written
    arrived,     \* what the telescope has sent, in the kernel and in read_buff
    ready,       \* something has arrived since the last read
    pc,          \* where the main thread is in these classes
    sinceFrame,  \* ticks since the last frame
    due,         \* commands that the telescope has not handled yet, in their order
    format,      \* the telescope's format: TRUE when it is the long one
    misread,     \* history: an answer was read as another command's
    unruly       \* history: the telescope was late, or sent what was not asked
times     == <<timeLeft, quiet, pollWait>>
queue     == <<list, gotos, poll, longUsed, times>>
buffers   == <<out, arrived, ready>>
telescope == <<due, format>>
history   == <<misread, unruly>>
vars == <<queue, buffers, telescope, history, pc, sinceFrame>>

Init == /\ list = <<>> /\ gotos = 0 /\ timeLeft = Forever /\ quiet = 0
        /\ poll = TRUE /\ pollWait = 0 /\ longUsed = FALSE
        /\ out = <<>> /\ arrived = <<>> /\ ready = FALSE
        /\ pc = "idle" /\ sinceFrame = 0
        /\ due = <<>> /\ format \in BOOLEAN
        /\ misread = FALSE /\ unruly = FALSE

--------------------------------------------------------------------------------
(* Lx200Connection.                                                           *)

\* own: the command this stands for, or answers, still waits in the queue.
Orphaned(s) == [i \in DOMAIN s |-> [s[i] EXCEPT !.own = FALSE]]

Timeout(k) == CASE k \in Silent -> Forever
                [] k = "Slew"   -> SlewTimeout
                [] OTHER        -> ReadTimeout

\* Mutants of resetCommunication forget the count of the slews, the quiet
\* time, the question for the position.
Cleared == /\ list' = <<>> /\ out' = <<>> /\ arrived' = <<>>
           /\ due' = Orphaned(due)
AsAtFirst == longUsed' = FALSE /\ pollWait' = 0 /\ timeLeft' = Forever
ResetKeepsGotos == /\ Cleared /\ AsAtFirst /\ quiet' = QuietTime /\ poll' = TRUE
                   /\ gotos' = gotos
ResetAtOnce == Cleared /\ AsAtFirst /\ gotos' = 0 /\ poll' = TRUE /\ quiet' = 0
ResetKeepsPoll == /\ Cleared /\ AsAtFirst /\ gotos' = 0 /\ quiet' = QuietTime
                  /\ poll' = poll

\* resetCommunication, with communicationResetReceived of the client.
Reset == Cleared /\ AsAtFirst /\ gotos' = 0 /\ quiet' = QuietTime /\ poll' = TRUE

GotosWithoutFront == gotos - (IF Head(list).kind = "Slew" THEN 1 ELSE 0)

\* sendGoto and sendSync, a user's calls; Flush is the rest of sendCommand.
SendSlew ==
    /\ pc = "idle" /\ gotos <= 1
    /\ list' = list \o Slewing
    /\ gotos' = gotos + 1
    /\ pc' = "send"
    /\ UNCHANGED <<poll, longUsed, times, buffers, telescope, history, sinceFrame>>

\* A frame calls performCommunication, and that step.
Frame ==
    /\ pc = "idle"
    /\ IF poll /\ pollWait = 0
       THEN /\ list' = list \o <<New("GetRa"), New("GetDec")>>
            /\ poll' = FALSE /\ pollWait' = PollPause
       ELSE UNCHANGED <<list, poll, pollWait>>
    /\ pc' = "frame" /\ sinceFrame' = 0
    /\ UNCHANGED <<gotos, longUsed, timeLeft, quiet, buffers, telescope, history>>

\* writeFrontCommandToBuffer succeeds.  (The commands of a slew and a poll are
\* fewer bytes than write_buff has.)
CanWrite == list # <<>> /\ ~Head(list).written /\ quiet = 0

\* write_buff, with the command added to what remains there.  What StopSlew does
\* to the telescope is left out; ToggleFormat does not wait in the queue.
Written(k, remains) ==
    IF k = "StopSlew" THEN remains
    ELSE Append(remains, [kind |-> k, own |-> k # "ToggleFormat"])

\* An iteration of flushCommandList, for sendCommand and for prepareSelectFds.
Flush ==
    /\ pc \in {"send", "frame"} /\ CanWrite
    /\ LET k == Head(list).kind IN
        /\ out' = Written(k, out)
        /\ list' = IF k \in Silent THEN Tail(list) ELSE [list EXCEPT ![1].written = TRUE]
        /\ timeLeft' = Timeout(k)
    /\ UNCHANGED <<gotos, poll, longUsed, quiet, pollWait, arrived, ready, telescope,
                   history, pc, sinceFrame>>

Sent ==
    /\ pc = "send" /\ ~CanWrite /\ pc' = "idle"
    /\ UNCHANGED <<queue, buffers, telescope, history, sinceFrame>>

\* The rest of prepareSelectFds: the time-out.  A slew that was answered by one
\* byte only is done, anything else resets the connection.
CheckTimeout ==
    /\ pc = "frame" /\ ~CanWrite /\ pc' = "write"
    /\ IF list = <<>> \/ timeLeft >= 0
       THEN UNCHANGED <<queue, out, arrived, due>>
       ELSE IF Head(list).short
       THEN /\ gotos' = GotosWithoutFront
            /\ list' = Tail(list) /\ timeLeft' = Forever
            /\ due' = Orphaned(due) /\ arrived' = Orphaned(arrived)
            /\ out' = Orphaned(out)
            /\ UNCHANGED <<quiet, poll, pollWait, longUsed>>
       ELSE Reset
    /\ UNCHANGED <<ready, format, history, sinceFrame>>

\* handleSelectFds: performWriting, then performReading if there is anything.
Write ==
    /\ pc = "write" /\ pc' = "read"
    /\ due' = due \o [i \in DOMAIN out |->
                         [kind |-> out[i].kind, own |-> out[i].own, age |-> 0]]
    /\ out' = <<>>
    /\ UNCHANGED <<queue, arrived, ready, format, history, sinceFrame>>

\* dataReceived, before its loop.
Read ==
    /\ pc = "read" /\ ready' = FALSE
    /\ CASE ~ready ->
              pc' = "idle" /\ UNCHANGED <<queue, out, arrived, due>>
         [] ready /\ list = <<>> /\ quiet = 0 ->
              pc' = "idle" /\ Reset
         [] ready /\ (IF list = <<>> THEN quiet > 0 ELSE Head(list).kind \in Silent) ->
              pc' = "idle" /\ arrived' = <<>> /\ UNCHANGED <<queue, out, due>>
         [] OTHER ->
              pc' = "answer" /\ UNCHANGED <<queue, out, arrived, due>>
    /\ UNCHANGED <<format, history, sinceFrame>>

\* readAnswerFromBuffer of the front command c, given the answers in the buffer:
\* the code it returns, what it leaves, and whether a slew has its first byte.
Outcome(rc, rest, short) == [rc |-> rc, rest |-> rest, short |-> short]
Left(s, what) == <<[s[1] EXCEPT !.what = what]>> \o Tail(s)
FirstHash(s)  == {i \in DOMAIN s : /\ s[i].what \in Hashed
                                   /\ \A j \in 1 .. i - 1 : s[j].what \notin Hashed}
JustDigits(s) == \A i \in DOMAIN s : s[i].what \in {"0", "1"}

\* SetSelectedRa and SetSelectedDec: one byte, 0 or 1 all the same, and any
\* other byte is an answer too, but is left there.
ReadSet(s) ==
    CASE s[1].what \in {"0", "1"}    -> {Outcome(1, Tail(s), FALSE)}
      [] s[1].what = "1text"         -> {Outcome(1, Left(s, "text"), FALSE)}
      [] s[1].what = "ra"            -> {Outcome(1, Left(s, "text"), FALSE), Outcome(1, s, FALSE)}
      [] s[1].what \in {"text", "dec"} -> {Outcome(1, s, FALSE)}

\* GotoSelected and SyncSelected: 0, or another digit and a text up to #.
ToHash(s) == IF FirstHash(s) = {} THEN {Outcome(0, s, TRUE)}
             ELSE {Outcome(1, SubSeq(s, i + 1, Len(s)), TRUE) : i \in FirstHash(s)}
ReadSlew(s, short) ==
    CASE short                         -> ToHash(s)
      [] ~short /\ s[1].what = "0"     -> {Outcome(1, Tail(s), TRUE)}
      [] ~short /\ s[1].what = "1"     -> IF Len(s) = 1 THEN {Outcome(0, <<>>, TRUE)} ELSE ToHash(s)
      [] ~short /\ s[1].what = "1text" -> ToHash(s)
      [] ~short /\ s[1].what = "ra"    -> ToHash(s) \union {Outcome(1, Left(s, "text"), TRUE)}
      [] OTHER                         -> {Outcome(-1, s, TRUE)}

\* GetRa and GetDec, whose answer is what.
ReadPosition(s, what) ==
    CASE s[1].what = what -> {Outcome(1, Tail(s), FALSE)}
      [] JustDigits(s)    -> {Outcome(0, s, FALSE)}
      [] OTHER            -> {Outcome(0, s, FALSE), Outcome(-1, s, FALSE)}

Outcomes(c, s) ==
    IF c.kind \in Silent THEN {Outcome(1, s, FALSE)}
    ELSE IF s = <<>>     THEN {Outcome(0, s, c.short)}
    ELSE CASE c.kind = "Set"    -> ReadSet(s)
           [] c.kind = "Slew"   -> ReadSlew(s, c.short)
           [] c.kind = "GetRa"  -> ReadPosition(s, "ra")
           [] c.kind = "GetDec" -> ReadPosition(s, "dec")

\* longFormatUsedReceived: the format is toggled once, when the first position
\* after a reset is a short one.  Mutant: whenever one is.
Asks(c) == c.kind \in {"GetRa", "GetDec"}
TogglesEachTime(c) == Asks(c) /\ ~Head(arrived).long
Toggles(c) == Asks(c) /\ ~Head(arrived).long /\ ~longUsed

\* The front command has its answer and leaves.  GetDec has the position asked
\* for again.  Then the next command is written.
Answered(r) ==
    LET c       == Head(list)
        queued  == Tail(list) \o (IF Toggles(c) THEN <<New("ToggleFormat")>> ELSE <<>>)
        next    == queued # <<>> /\ quiet = 0
    IN  /\ longUsed' = (longUsed \/ Asks(c))
        /\ poll' = (poll \/ c.kind = "GetDec")
        /\ gotos' = GotosWithoutFront
        /\ list' = IF next THEN [queued EXCEPT ![1].written = TRUE] ELSE queued
        /\ timeLeft' = IF next THEN Timeout(Head(queued).kind) ELSE Forever
        /\ out' = IF next THEN Written(Head(queued).kind, Orphaned(out)) ELSE Orphaned(out)
        /\ arrived' = Orphaned(r.rest) /\ due' = Orphaned(due)
        /\ pc' = IF next THEN "answer" ELSE "idle"
        /\ UNCHANGED <<quiet, pollWait>>

\* One iteration of the loop of dataReceived.
ReadAnswer ==
    /\ pc = "answer"
    /\ LET c == Head(list) IN
       IF ~c.written
       THEN /\ arrived' = <<>> /\ pc' = "idle"
            /\ UNCHANGED <<queue, out, due, misread>>
       ELSE /\ misread' = (misread \/ ( /\ c.kind \notin Silent /\ arrived # <<>>
                                        /\ ~Head(arrived).own ))
            /\ \E r \in Outcomes(c, arrived) :
                CASE r.rc = 1  -> Answered(r)
                  [] r.rc = 0  -> /\ list' = [list EXCEPT ![1].short = r.short]
                                  /\ arrived' = r.rest /\ pc' = "idle"
                                  /\ UNCHANGED <<gotos, poll, longUsed, times, out,
                                                 due>>
                  [] r.rc = -1 -> Reset /\ pc' = "idle"
    /\ UNCHANGED <<ready, format, unruly, sinceFrame>>

--------------------------------------------------------------------------------
(* The telescope, whose answers arrive in the kernel while the main thread is *)
(* in no step, or waits in select; and time, which passes between the frames. *)

Arrives(what, own) ==
    arrived' = Append(arrived, [what |-> what, own |-> own,
                                long |-> what \in {"ra", "dec"} => format])

\* The answer to a command.  A slew that fails is explained by a text, in the
\* same piece, or later (a command of its own here), or never (AutoStar 494).
Replies(k) == CASE k = "Set"    -> {"0", "1"}
                [] k = "Slew"   -> {"0", "1", "1text"}
                [] k = "Rest"   -> {"text"}
                [] k = "GetRa"  -> {"ra"}
                [] k = "GetDec" -> {"dec"}

TelescopeActs == pc \in {"idle", "write"}
Sends         == TelescopeActs /\ Len(arrived) < MaxArrived

\* It handles what it is sent in the order in which it was written.
Switch ==
    /\ TelescopeActs /\ due # <<>> /\ Head(due).kind = "ToggleFormat"
    /\ format' = ~format /\ due' = Tail(due)
    /\ UNCHANGED <<queue, buffers, history, pc, sinceFrame>>

Answer ==
    /\ Sends /\ due # <<>> /\ Head(due).kind # "ToggleFormat"
    /\ LET d == Head(due) IN
        \E what \in Replies(d.kind), more \in BOOLEAN :
          /\ more => what = "1" /\ d.kind = "Slew"
          /\ Arrives(what, d.own)
          /\ due' = (IF more THEN <<[d EXCEPT !.kind = "Rest"]>> ELSE <<>>) \o Tail(due)
          /\ unruly' = (unruly \/ d.age > (IF d.kind \in {"Slew", "Rest"} THEN PromptSlew
                                                                          ELSE Prompt))
    /\ ready' = TRUE
    /\ UNCHANGED <<queue, out, format, misread, pc, sinceFrame>>

\* A command is never answered: lost on the line, or not understood.
Drop ==
    /\ TelescopeActs /\ due # <<>> /\ Head(due).age = 0 /\ due' = Tail(due)
    /\ UNCHANGED <<queue, buffers, format, history, pc, sinceFrame>>

\* Something arrives that was not asked for.  (Bound: from a good telescope only.)
Noise ==
    /\ Sends /\ ~unruly
    /\ Arrives("text", FALSE) /\ ready' = TRUE /\ unruly' = TRUE
    /\ UNCHANGED <<queue, out, telescope, misread, pc, sinceFrame>>

Less(n) == IF n = 0 THEN 0 ELSE n - 1
Tick ==
    /\ pc = "idle" /\ sinceFrame < Gap
    /\ sinceFrame' = sinceFrame + 1
    /\ timeLeft' = IF timeLeft = Forever THEN Forever ELSE timeLeft - 1
    /\ quiet' = Less(quiet) /\ pollWait' = Less(pollWait)
    /\ LET lost == due # <<>> /\ (Head(due).age >= MaxAge \/ Len(due) > MaxDue)
           kept == IF lost THEN Tail(due) ELSE due IN
       due' = [i \in DOMAIN kept |-> [kept[i] EXCEPT !.age = @ + 1]]
    /\ UNCHANGED <<list, gotos, poll, longUsed, buffers, format, history, pc>>

--------------------------------------------------------------------------------
Code == Flush \/ Sent \/ CheckTimeout \/ Write \/ Read \/ ReadAnswer
Next == \/ SendSlew \/ Frame \/ Code \/ Switch \/ Answer \/ Drop \/ Noise \/ Tick

\* The main thread goes on, frames come, and time passes between them; nothing
\* is expected of the telescope.
Fairness == WF_vars(Code) /\ WF_vars(Frame) /\ SF_vars(Tick)
Spec == Init /\ [][Next]_vars /\ Fairness

--------------------------------------------------------------------------------
(* Properties.                                                                *)

\* The types, and what the code relies on at every step: only the front command
\* has been written, and its time runs if and only if it waits for an answer;
\* nothing is on its way during the quiet time, when what arrives is thrown
\* away; goto_commands_queued, which is counted down in two places and cleared
\* in a third, is the number of slews in the queue, so that a slew is not
\* refused for ever; and the position is asked for (queue_get_position is
\* false) if and only if the question that will set it again is in the queue.
Places(k) == {i \in DOMAIN list : list[i].kind = k}
TypeOK ==
    /\ list \in Seq(Command) /\ out \in Seq([kind : Kind \ {"StopSlew"}, own : BOOLEAN])
    /\ arrived \in Seq([what : What, own : BOOLEAN, long : BOOLEAN])
    /\ due \in Seq([kind : (Kind \ {"StopSlew"}) \union {"Rest"}, own : BOOLEAN, age : Nat])
    /\ gotos \in Nat /\ timeLeft \in Int /\ quiet \in Nat /\ pollWait \in Nat
    /\ poll \in BOOLEAN /\ longUsed \in BOOLEAN /\ ready \in BOOLEAN /\ format \in BOOLEAN
    /\ misread \in BOOLEAN /\ unruly \in BOOLEAN
    /\ pc \in {"idle", "send", "frame", "write", "read", "answer"}
    /\ sinceFrame \in 0 .. Gap
Waits == list # <<>> /\ Head(list).written /\ Head(list).kind \notin Silent
FrontIsWritten == \A i \in DOMAIN list :
                    /\ list[i].written => i = 1
                    /\ list[i].short => list[i].written /\ list[i].kind = "Slew"
WaitIsTimed == Waits <=> timeLeft < Forever
QuietIsQuiet == quiet > 0 => out = <<>> /\ (list # <<>> => ~Head(list).written)
GotosAreCounted == gotos = Cardinality(Places("Slew")) /\ gotos <= 2
PollIsQueued == /\ ~poll <=> Places("GetDec") # {}
                /\ \A i, j \in Places("GetDec") : i = j
QueueInv == /\ TypeOK /\ FrontIsWritten /\ WaitIsTimed /\ QuietIsQuiet
            /\ GotosAreCounted /\ PollIsQueued

\* An answer is never taken for the answer to another command, as long as the
\* telescope keeps the times the code allows it and sends nothing unasked: what
\* comes after a reset comes within the quiet time, however many commands were
\* lost.  (PromptAssumption says how late a telescope may be.)
AnswersAreOwn == misread => unruly

\* ":U#" switches to and fro, so a telescope must never handle it that is in the
\* long format already, whatever was lost or reset since it was last sent, as long
\* as it keeps its times.  (A telescope that is later than a reset and its quiet
\* time together answers questions from before the first ":U#" after the code has
\* forgotten that it sent one, and is switched back.)
FormatStaysLong == [][format /\ ~format' => unruly]_vars

\* The position is asked for again and again, whatever the telescope answers.
PollsAgain == ~poll ~> poll
================================================================================
