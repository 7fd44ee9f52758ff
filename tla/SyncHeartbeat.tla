----------------------------- MODULE SyncHeartbeat -----------------------------
(* The ALIVE messages and time-outs of the RemoteSync plug-in, in one         *)
(* direction of a connection: one SyncRemotePeer sends, the other watches.    *)
(* Each end calls checkTimeout from a timer of its program: the server's runs *)
(* every 5 s, the client's every 2 s.  The server's loop over its clients     *)
(* leaves one out when another is dropped under it (SyncServer,               *)
(* SkippedMovesUp), so that a tick of its timer may go by without a check.    *)
(*                                                                            *)
(* An age is the time since something happened, in units of one Tick.  A      *)
(* timer may be early, by any amount; ServerPeriod and ClientPeriod are the   *)
(* longest intervals.  Delay bounds the way of a message from one program's   *)
(* write to the other's receiveMessage, busy event loops included.            *)
EXTENDS Naturals

CONSTANTS AliveAfter,   \* 5 s: longest silence of a sender that its check accepts
          ReadTimeout,  \* 15 s: longest silence that the watcher's check accepts
          ServerPeriod, \* between two ticks of the server's timer
          ClientPeriod, \* between two ticks of the client's timer
          Skips,        \* ticks of the server in a row that leave this client out
          Delay         \* of a message

\* The last step of the handshake takes two messages at most, see Authenticate.
ASSUME HeartbeatAssumption ==
    /\ AliveAfter \in Nat /\ ReadTimeout \in Nat /\ Delay \in Nat
    /\ ServerPeriod \in Nat /\ ClientPeriod \in Nat /\ Skips \in Nat
    /\ Delay + Delay <= AliveAfter /\ AliveAfter <= ReadTimeout

VARIABLES sender,         \* "server" or "client"; the other end watches
          alive,          \* the sender runs and the path is intact
          authenticated,  \* SyncRemotePeer::authenticated of the sender
          sendAge,        \* age of lastSendTime
          timerAge,       \* age of the last tick of the sender's timer
          flight,         \* ages of the messages on their way
          recvAge,        \* age of the watcher's lastReceiveTime
          checkAge,       \* age of the last tick of the watcher's timer
          missed,         \* ticks of the server since it has checked this client
          overlooked,     \* an ALIVE was due at such a tick, and nothing has been
                          \* heard since (history)
          timedOut        \* the watcher has given up

vars == <<sender, alive, authenticated, sendAge, timerAge, flight, recvAge, checkAge,
          missed, overlooked, timedOut>>

Period     == IF sender = "server" THEN ServerPeriod ELSE ClientPeriod
CheckEvery == IF sender = "server" THEN ClientPeriod ELSE ServerPeriod

\* The sender has just written its last message of the handshake, in answer to one
\* of the watcher.
Init == /\ sender \in {"server", "client"}
        /\ alive = TRUE /\ authenticated = FALSE
        /\ sendAge = 0 /\ timerAge \in 0..Period
        /\ flight = {0}
        /\ recvAge \in 0..Delay /\ checkAge \in 0..CheckEvery
        /\ missed = 0 /\ overlooked = FALSE /\ timedOut = FALSE

--------------------------------------------------------------------------------
(* The sender.                                                                *)

\* The server is authenticated with that message, the client by its answer.
Authenticate ==
    /\ alive /\ ~authenticated /\ authenticated' = TRUE
    /\ UNCHANGED <<sender, alive, sendAge, timerAge, flight, recvAge, checkAge,
                   missed, overlooked, timedOut>>

writeData == sendAge' = 0 /\ flight' = flight \union {0}

\* A message of the application; the server's broadcasts.
Send ==
    /\ alive /\ authenticated
    /\ writeData
    /\ UNCHANGED <<sender, alive, authenticated, timerAge, recvAge, checkAge,
                   missed, overlooked, timedOut>>

\* checkTimeout: ALIVE if nothing was written for a while.
\* Mutant: the wrong limit.
AliveTooLate == sendAge > ReadTimeout
AliveDue == sendAge > AliveAfter
SenderChecks ==
    /\ alive
    /\ timerAge' = 0 /\ missed' = IF sender = "server" THEN 0 ELSE missed
    /\ IF AliveDue /\ authenticated THEN writeData ELSE UNCHANGED <<sendAge, flight>>
    /\ UNCHANGED <<sender, alive, authenticated, recvAge, checkAge, overlooked, timedOut>>

\* SyncServer::checkTimeouts leaves the client out.
SenderSkips ==
    /\ alive /\ sender = "server" /\ missed < Skips
    /\ timerAge' = 0 /\ missed' = missed + 1
    /\ overlooked' = (overlooked \/ (AliveDue /\ authenticated))
    /\ UNCHANGED <<sender, alive, authenticated, sendAge, flight, recvAge, checkAge, timedOut>>

\* The sender or the path dies: nothing arrives any more.
Die ==
    /\ alive /\ alive' = FALSE /\ flight' = {}
    /\ UNCHANGED <<sender, authenticated, sendAge, timerAge, recvAge, checkAge,
                   missed, overlooked, timedOut>>

--------------------------------------------------------------------------------
(* The watcher.                                                               *)

\* receiveMessage: any data counts.  TCP keeps the order.
Receive ==
    /\ ~timedOut
    /\ \E a \in flight :
         /\ \A b \in flight : b <= a
         /\ flight' = flight \ {a}
    /\ recvAge' = 0 /\ overlooked' = FALSE
    /\ UNCHANGED <<sender, alive, authenticated, sendAge, timerAge, checkAge, missed, timedOut>>

\* checkTimeout.  Mutants: the limit for sending an ALIVE; twice the limit.
Impatient == recvAge > AliveAfter
Patient == recvAge > ReadTimeout + ReadTimeout
Expired == recvAge > ReadTimeout
WatcherChecks ==
    /\ ~timedOut
    /\ checkAge' = 0 /\ missed' = IF sender = "client" THEN 0 ELSE missed
    /\ timedOut' = Expired
    /\ UNCHANGED <<sender, alive, authenticated, sendAge, timerAge, flight, recvAge, overlooked>>

WatcherSkips ==
    /\ ~timedOut /\ sender = "client" /\ missed < Skips
    /\ checkAge' = 0 /\ missed' = missed + 1
    /\ UNCHANGED <<sender, alive, authenticated, sendAge, timerAge, flight, recvAge,
                   overlooked, timedOut>>

--------------------------------------------------------------------------------
(* Time passes unless something is due.                                       *)

Later(ages) == {a + 1 : a \in ages}
Tick ==
    /\ ~timedOut
    /\ alive => timerAge < Period
    /\ alive /\ ~authenticated => sendAge < Delay + Delay
    /\ \A a \in flight : a < Delay
    /\ checkAge < CheckEvery
    /\ sendAge' = IF alive THEN sendAge + 1 ELSE sendAge
    /\ timerAge' = IF alive THEN timerAge + 1 ELSE timerAge
    /\ flight' = Later(flight)
    /\ recvAge' = recvAge + 1 /\ checkAge' = checkAge + 1
    /\ UNCHANGED <<sender, alive, authenticated, missed, overlooked, timedOut>>

Next == \/ Authenticate \/ Send \/ SenderChecks \/ SenderSkips \/ Die
        \/ Receive \/ WatcherChecks \/ WatcherSkips \/ Tick

Spec == Init /\ [][Next]_vars

--------------------------------------------------------------------------------
(* Properties.                                                                *)

\* The longest silence of a sender that runs, and the longest its watcher hears:
\* a period more for every tick that has overlooked the client.
Periods == IF overlooked THEN Skips + 1 ELSE 1
SenderSilence == AliveAfter + Periods * Period
HeardSilence == SenderSilence + Delay

TypeOK ==
    /\ sender \in {"server", "client"}
    /\ alive \in BOOLEAN /\ authenticated \in BOOLEAN /\ timedOut \in BOOLEAN
    /\ sendAge \in 0..SenderSilence /\ timerAge \in 0..Period
    /\ flight \subseteq 0..Delay
    /\ recvAge \in Nat /\ checkAge \in 0..CheckEvery
    /\ missed \in 0..Skips /\ overlooked \in BOOLEAN

\* A live sender is heard of at least every HeardSilence: a server that was due to
\* send an ALIVE and overlooked its client, up to Skips periods later.
SilenceIsBounded == alive => recvAge <= HeardSilence

\* If that is within the time-out, no live connection is given up.  With the code's
\* 5 s, 15 s and 5 s and a delay of 2 s it is (12 s), unless the server has
\* overlooked its client: then the client may hear nothing for 17 s, and gives up.
NoFalseTimeout == HeardSilence <= ReadTimeout => (timedOut => ~alive)

\* A dead sender is given up within one check of the time-out; a server may leave
\* Skips checks out.
DeadIsNoticed ==
    ~timedOut =>
        recvAge <= ReadTimeout + (IF sender = "client" THEN Skips + 1 ELSE 1) * CheckEvery
================================================================================
