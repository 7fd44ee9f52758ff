-------------------------- MODULE SyncHeartbeat_proofs --------------------------
(* The bounds of SyncHeartbeat for all values of its constants.                *)
EXTENDS SyncHeartbeat, TLAPS

\* The ticks of the sender's and of the watcher's timer that did not check, and the
\* time that they take at most.
Lost == IF sender = "server" THEN missed ELSE 0
Left == IF sender = "client" THEN missed ELSE 0
LostTime == Lost * Period
LeftTime == Left * CheckEvery

\* An unauthenticated sender is young; an authenticated one has been checked when
\* it had not been silent for more than AliveAfter, but for the ticks that have
\* left it out, and unless one of these overlooked it none counts.
SenderInv ==
    /\ alive = TRUE /\ ~(authenticated = TRUE) => sendAge <= Delay + Delay
    /\ alive = TRUE /\ overlooked = FALSE => sendAge <= AliveAfter + timerAge
    /\ alive = TRUE => sendAge <= AliveAfter + LostTime + timerAge

\* What the sender has written last is the youngest message on its way.
YoungInv ==
    /\ alive = TRUE => \A a \in flight : sendAge <= a
    /\ alive = FALSE => flight = {}

\* What the watcher hears next is on its way and was written at most SenderSilence
\* after what it heard last; with nothing on its way it has heard everything.
FlightInv ==
    alive = TRUE => \/ \E a \in flight : recvAge <= a + SenderSilence
                    \/ flight = {} /\ recvAge <= sendAge

\* The watcher's last check accepted the silence it found.
WatcherInv ==
    timedOut = FALSE => recvAge <= ReadTimeout + LeftTime + checkAge

\* The watcher gave up for a silence longer than the time-out, which has not
\* shrunk.
TimedOutInv ==
    timedOut = TRUE => recvAge > ReadTimeout

IInv == TypeOK /\ SenderInv /\ YoungInv /\ FlightInv /\ WatcherInv /\ TimedOutInv

--------------------------------------------------------------------------------
(* Numbers.                                                                    *)

LEMMA ConstantsAreNat ==
    /\ AliveAfter \in Nat /\ ReadTimeout \in Nat /\ Delay \in Nat /\ Skips \in Nat
    /\ ServerPeriod \in Nat /\ ClientPeriod \in Nat
    /\ Delay + Delay <= AliveAfter /\ AliveAfter <= ReadTimeout
BY HeartbeatAssumption

LEMMA Products ==
    ASSUME NEW m \in Nat, NEW n \in Nat, NEW p \in Nat
    PROVE  /\ m * p \in Nat /\ (m + 1) * p = m * p + p /\ 1 * p = p /\ 0 * p = 0
           /\ m <= n => m * p <= n * p
<1>1. m * p \in Nat /\ (m + 1) * p = m * p + p /\ 1 * p = p /\ 0 * p = 0
  OBVIOUS
<1>2. ASSUME m <= n PROVE m * p <= n * p
  <2>1. n - m \in Nat /\ n = m + (n - m)
    BY <1>2
  <2>2. PICK d \in Nat : n = m + d
    BY <2>1
  <2>3. n * p = m * p + d * p /\ d * p \in Nat
    BY <2>2
  <2>4. QED
    BY <1>1, <2>3
<1>3. QED
  BY <1>1, <1>2

\* The periods, and the time that ticks without a check take.
LEMMA Times ==
    ASSUME TypeOK
    PROVE  /\ Period \in Nat /\ CheckEvery \in Nat
           /\ LostTime \in Nat /\ LostTime <= Skips * Period /\ Skips * Period \in Nat
           /\ LeftTime \in Nat
           /\ LeftTime + CheckEvery
                <= (IF sender = "client" THEN Skips + 1 ELSE 1) * CheckEvery
           /\ SenderSilence \in Nat
           /\ overlooked = TRUE => SenderSilence = AliveAfter + (Skips * Period + Period)
           /\ overlooked = FALSE => SenderSilence = AliveAfter + Period
<1>1. Period \in Nat /\ CheckEvery \in Nat /\ Skips \in Nat /\ AliveAfter \in Nat
  BY ConstantsAreNat DEF Period, CheckEvery
<1>2. /\ Lost \in Nat /\ Lost <= Skips /\ Left \in Nat /\ Left <= Skips
      /\ sender # "client" => Left = 0
  BY <1>1 DEF TypeOK, Lost, Left
<1>3. LostTime \in Nat /\ LostTime <= Skips * Period /\ Skips * Period \in Nat
  <2>1. Lost * Period \in Nat /\ Lost * Period <= Skips * Period /\ Skips * Period \in Nat
    BY <1>1, <1>2, Products
  <2>2. QED
    BY <2>1 DEF LostTime
<1>4. /\ LeftTime \in Nat
      /\ LeftTime + CheckEvery <= (IF sender = "client" THEN Skips + 1 ELSE 1) * CheckEvery
  <2>1. CASE sender = "client"
    <3>1. Left * CheckEvery \in Nat /\ Left * CheckEvery <= Skips * CheckEvery
      BY <1>1, <1>2, Products
    <3>2. (Skips + 1) * CheckEvery = Skips * CheckEvery + CheckEvery
          /\ Skips * CheckEvery \in Nat
      BY <1>1, Products
    <3>3. LeftTime + CheckEvery <= (Skips + 1) * CheckEvery
      BY <1>1, <3>1, <3>2 DEF LeftTime
    <3>4. QED
      BY <2>1, <3>1, <3>3 DEF LeftTime
  <2>2. CASE sender # "client"
    <3>1. LeftTime = 0 /\ 1 * CheckEvery = CheckEvery
      BY <1>1, <1>2, <2>2, Products DEF LeftTime
    <3>2. QED
      BY <1>1, <2>2, <3>1
  <2>3. QED
    BY <2>1, <2>2
<1>5. /\ overlooked = TRUE => Periods * Period = Skips * Period + Period
      /\ overlooked = FALSE => Periods * Period = Period
  BY <1>1, Products DEF Periods
<1>6. overlooked \in BOOLEAN
  BY DEF TypeOK
<1>7. QED
  BY <1>1, <1>3, <1>4, <1>5, <1>6 DEF SenderSilence

\* The types of the ages.
LEMMA AgesAreNat ==
    ASSUME TypeOK
    PROVE  /\ sendAge \in Nat /\ timerAge \in Nat /\ recvAge \in Nat /\ checkAge \in Nat
           /\ sendAge <= SenderSilence /\ timerAge <= Period /\ checkAge <= CheckEvery
           /\ \A a \in flight : a \in Nat /\ a <= Delay
BY ConstantsAreNat, Times DEF TypeOK

LEMMA Flags ==
    ASSUME TypeOK
    PROVE  /\ alive \in BOOLEAN /\ authenticated \in BOOLEAN /\ timedOut \in BOOLEAN
           /\ overlooked \in BOOLEAN /\ sender \in {"server", "client"}
           /\ missed \in Nat /\ missed <= Skips
BY ConstantsAreNat DEF TypeOK

\* Steps that leave the ends of the connection and the missed ticks as they are.
LEMMA SameTimes ==
    ASSUME sender' = sender
    PROVE  /\ Period' = Period /\ CheckEvery' = CheckEvery
           /\ missed' = missed => LostTime' = LostTime /\ LeftTime' = LeftTime
           /\ overlooked' = overlooked => SenderSilence' = SenderSilence
BY DEF Period, CheckEvery, LostTime, LeftTime, Lost, Left, SenderSilence, Periods

--------------------------------------------------------------------------------
(* Initial states and steps.                                                   *)

LEMMA InitInv == Init => IInv
<1> SUFFICES ASSUME Init PROVE IInv
  OBVIOUS
<1>1. /\ sender \in {"server", "client"} /\ alive = TRUE /\ authenticated = FALSE
      /\ sendAge = 0 /\ timerAge \in 0..Period /\ flight = {0}
      /\ recvAge \in 0..Delay /\ checkAge \in 0..CheckEvery
      /\ missed = 0 /\ overlooked = FALSE /\ timedOut = FALSE
  BY DEF Init
<1>2. Period \in Nat /\ CheckEvery \in Nat
  BY ConstantsAreNat DEF Period, CheckEvery
<1>3. TypeOK
  <2>1. SenderSilence = AliveAfter + Period
    BY <1>1, <1>2, Products DEF SenderSilence, Periods
  <2>2. sendAge \in 0..SenderSilence /\ recvAge \in Nat /\ flight \subseteq 0..Delay
        /\ missed \in 0..Skips
    BY <1>1, <1>2, <2>1, ConstantsAreNat
  <2>3. QED
    BY <1>1, <2>2 DEF TypeOK
<1>4. SenderInv
  BY <1>1, <1>2, <1>3, ConstantsAreNat, Times DEF SenderInv
<1>5. YoungInv
  BY <1>1 DEF YoungInv
<1>6. FlightInv
  <2>1. SenderSilence = AliveAfter + Period
    BY <1>1, <1>3, Times
  <2>2. 0 \in flight /\ recvAge <= 0 + SenderSilence
    BY <1>1, <1>2, <2>1, ConstantsAreNat
  <2>3. QED
    BY <2>2 DEF FlightInv
<1>7. WatcherInv /\ TimedOutInv
  BY <1>1, <1>2, <1>3, ConstantsAreNat, Times DEF WatcherInv, TimedOutInv
<1>8. QED
  BY <1>3, <1>4, <1>5, <1>6, <1>7 DEF IInv

\* A message is written: Send, and a check that finds an ALIVE due.
LEMMA WriteKeeps ==
    ASSUME IInv, alive = TRUE, writeData, alive' = alive, authenticated' = authenticated,
           sender' = sender, recvAge' = recvAge, overlooked' = overlooked,
           timerAge' \in 0..Period, LostTime' \in Nat
    PROVE  SenderInv' /\ YoungInv' /\ FlightInv' /\ sendAge' \in 0..SenderSilence'
           /\ flight' \subseteq 0..Delay
<1>0. TypeOK /\ FlightInv
  BY DEF IInv
<1>1. sendAge' = 0 /\ flight' = flight \union {0}
  BY DEF writeData
<1>2. SenderSilence' = SenderSilence /\ Period' = Period /\ SenderSilence \in Nat
  BY <1>0, SameTimes, Times
<1>3. timerAge' \in Nat
  BY <1>0, Times
<1>4. SenderInv'
  <2>1. /\ 0 <= Delay + Delay /\ 0 <= AliveAfter + timerAge'
        /\ 0 <= AliveAfter + LostTime' + timerAge'
    <3>1. PICK l \in Nat, t \in Nat : l = LostTime' /\ t = timerAge'
      BY <1>3
    <3>2. 0 <= Delay + Delay /\ 0 <= AliveAfter + t /\ 0 <= AliveAfter + l + t
      BY ONLY ConstantsAreNat
    <3>3. QED
      BY <3>1, <3>2
  <2>2. QED
    BY <1>1, <2>1 DEF SenderInv
<1>5. \A a \in flight' : a \in Nat /\ a <= Delay
  BY <1>0, <1>1, AgesAreNat, ConstantsAreNat
<1>6. YoungInv'
  BY <1>1, <1>5 DEF YoungInv
<1>7. \E a \in flight' : recvAge <= a + SenderSilence
  <2>1. CASE \E a \in flight : recvAge <= a + SenderSilence
    BY <1>1, <2>1
  <2>2. CASE flight = {} /\ recvAge <= sendAge
    <3>1. recvAge <= 0 + SenderSilence
      BY <1>0, <2>2, AgesAreNat, <1>2
    <3>2. QED
      BY <1>1, <3>1
  <2>3. QED
    BY <1>0, <2>1, <2>2 DEF FlightInv
<1>8. FlightInv'
  <2>1. PICK a \in flight' : recvAge <= a + SenderSilence
    BY <1>7
  <2>2. recvAge' <= a + SenderSilence'
    BY <1>2, <2>1
  <2>3. QED
    BY <2>1, <2>2 DEF FlightInv
<1>9. sendAge' \in 0..SenderSilence' /\ flight' \subseteq 0..Delay
  BY <1>1, <1>2, <1>5, ConstantsAreNat
<1>10. QED
  BY <1>4, <1>6, <1>8, <1>9

LEMMA AuthenticateKeeps == IInv /\ Authenticate => IInv'
<1> SUFFICES ASSUME IInv, Authenticate PROVE IInv'
  OBVIOUS
<1>1. /\ authenticated' = TRUE
      /\ UNCHANGED <<sender, alive, sendAge, timerAge, flight, recvAge, checkAge,
                     missed, overlooked, timedOut>>
  BY DEF Authenticate
<1>2. LostTime' = LostTime /\ LeftTime' = LeftTime /\ SenderSilence' = SenderSilence
      /\ Period' = Period /\ CheckEvery' = CheckEvery
  BY <1>1, SameTimes
<1>3. QED
  BY <1>1, <1>2 DEF IInv, TypeOK, SenderInv, YoungInv, FlightInv, WatcherInv, TimedOutInv

LEMMA SendKeeps == IInv /\ Send => IInv'
<1> SUFFICES ASSUME IInv, Send PROVE IInv'
  OBVIOUS
<1>0. TypeOK /\ WatcherInv /\ TimedOutInv
  BY DEF IInv
<1>1. /\ alive = TRUE /\ writeData
      /\ UNCHANGED <<sender, alive, authenticated, timerAge, recvAge, checkAge,
                     missed, overlooked, timedOut>>
  BY <1>0, Flags DEF Send
<1>2. LostTime' = LostTime /\ LeftTime' = LeftTime
      /\ Period' = Period /\ CheckEvery' = CheckEvery /\ LostTime \in Nat
  BY <1>0, <1>1, SameTimes, Times
<1>3. timerAge' \in 0..Period
  BY <1>0, <1>1 DEF TypeOK
<1>4. SenderInv' /\ YoungInv' /\ FlightInv' /\ sendAge' \in 0..SenderSilence'
      /\ flight' \subseteq 0..Delay
  BY <1>1, <1>2, <1>3, WriteKeeps
<1>5. TypeOK'
  BY <1>0, <1>1, <1>2, <1>4 DEF TypeOK
<1>6. WatcherInv' /\ TimedOutInv'
  BY <1>0, <1>1, <1>2 DEF WatcherInv, TimedOutInv
<1>7. QED
  BY <1>4, <1>5, <1>6 DEF IInv

LEMMA SenderChecksKeeps == IInv /\ SenderChecks => IInv'
<1> SUFFICES ASSUME IInv, SenderChecks PROVE IInv'
  OBVIOUS
<1>0. TypeOK /\ SenderInv /\ YoungInv /\ FlightInv /\ WatcherInv /\ TimedOutInv
  BY DEF IInv
<1>1. /\ alive = TRUE /\ timerAge' = 0
      /\ missed' = IF sender = "server" THEN 0 ELSE missed
      /\ UNCHANGED <<sender, alive, authenticated, recvAge, checkAge, overlooked, timedOut>>
  BY <1>0, Flags DEF SenderChecks
<1>2. Period' = Period /\ CheckEvery' = CheckEvery /\ SenderSilence' = SenderSilence
      /\ Period \in Nat /\ CheckEvery \in Nat
  BY <1>0, <1>1, SameTimes, Times
<1>3. LostTime' = 0 /\ LeftTime' = LeftTime
  <2>1. Lost' = 0 /\ Left' = Left
    BY <1>0, <1>1, Flags DEF Lost, Left
  <2>2. QED
    BY <1>2, <2>1 DEF LostTime, LeftTime
<1>4. missed' \in 0..Skips /\ timerAge' \in 0..Period
  BY <1>0, <1>1, <1>2, ConstantsAreNat DEF TypeOK
<1>5. WatcherInv' /\ TimedOutInv'
  BY <1>0, <1>1, <1>3 DEF WatcherInv, TimedOutInv
<1>6. SenderInv' /\ YoungInv' /\ FlightInv' /\ sendAge' \in 0..SenderSilence'
      /\ flight' \subseteq 0..Delay
  <2>1. CASE AliveDue /\ authenticated
    <3>1. writeData
      BY <2>1 DEF SenderChecks
    <3>2. LostTime' \in Nat
      BY <1>3
    <3>3. QED
      BY <1>1, <1>4, <3>1, <3>2, WriteKeeps
  <2>2. CASE ~(AliveDue /\ authenticated)
    <3>1. sendAge' = sendAge /\ flight' = flight
      BY <2>2 DEF SenderChecks
    <3>2. sendAge <= AliveAfter /\ sendAge \in Nat
      BY <1>0, <1>1, <2>2, AgesAreNat, ConstantsAreNat, Flags DEF SenderInv, AliveDue
    <3>3. SenderInv'
      BY <1>0, <1>1, <1>3, <3>1, <3>2, ConstantsAreNat DEF SenderInv
    <3>4. YoungInv' /\ FlightInv'
      BY <1>0, <1>1, <1>2, <3>1 DEF YoungInv, FlightInv
    <3>5. sendAge' \in 0..SenderSilence' /\ flight' \subseteq 0..Delay
      BY <1>0, <1>2, <3>1 DEF TypeOK
    <3>6. QED
      BY <3>3, <3>4, <3>5
  <2>3. QED
    BY <2>1, <2>2
<1>7. TypeOK'
  BY <1>0, <1>1, <1>2, <1>4, <1>6 DEF TypeOK
<1>8. QED
  BY <1>5, <1>6, <1>7 DEF IInv

LEMMA SenderSkipsKeeps == IInv /\ SenderSkips => IInv'
<1> SUFFICES ASSUME IInv, SenderSkips PROVE IInv'
  OBVIOUS
<1>0. TypeOK /\ SenderInv /\ YoungInv /\ FlightInv /\ WatcherInv /\ TimedOutInv
  BY DEF IInv
<1>1. /\ alive = TRUE /\ sender = "server" /\ missed < Skips
      /\ timerAge' = 0 /\ missed' = missed + 1
      /\ overlooked' = (overlooked \/ (AliveDue /\ authenticated))
      /\ UNCHANGED <<sender, alive, authenticated, sendAge, flight, recvAge, checkAge, timedOut>>
  BY <1>0, Flags DEF SenderSkips
<1>2. Period' = Period /\ CheckEvery' = CheckEvery /\ Period \in Nat /\ CheckEvery \in Nat
  BY <1>0, <1>1, SameTimes, Times
<1>3. LostTime' = LostTime + Period /\ LeftTime' = LeftTime
  <2>1. Lost' = Lost + 1 /\ Lost \in Nat /\ Left' = 0 /\ Left = 0
    BY <1>0, <1>1, Flags DEF Lost, Left
  <2>2. (Lost + 1) * Period = Lost * Period + Period
    BY <1>2, <2>1, Products
  <2>3. QED
    BY <1>2, <2>1, <2>2 DEF LostTime, LeftTime
<1>4. overlooked' \in BOOLEAN /\ (overlooked' = FALSE => overlooked = FALSE)
      /\ (overlooked' = FALSE => ~(AliveDue /\ authenticated))
  BY <1>0, <1>1, Flags
<1>5. SenderSilence' \in Nat /\ SenderSilence <= SenderSilence'
  <2>1. Periods' \in Nat /\ Periods \in Nat /\ Periods <= Periods'
    BY <1>0, <1>4, Flags, ConstantsAreNat DEF Periods
  <2>2. PICK m \in Nat, n \in Nat, p \in Nat :
            m = Periods /\ n = Periods' /\ p = Period /\ p = Period' /\ m <= n
    BY <1>2, <2>1
  <2>3. m * p \in Nat /\ n * p \in Nat /\ m * p <= n * p
    BY <2>2, Products
  <2>4. SenderSilence = AliveAfter + m * p /\ SenderSilence' = AliveAfter + n * p
    BY <2>2 DEF SenderSilence
  <2>5. AliveAfter + n * p \in Nat /\ AliveAfter + m * p <= AliveAfter + n * p
    BY ONLY <2>3, ConstantsAreNat
  <2>6. QED
    BY <2>4, <2>5
<1>6. SenderInv'
  <2>1. sendAge \in Nat /\ timerAge \in Nat /\ timerAge <= Period /\ LostTime \in Nat
    BY <1>0, AgesAreNat, Times
  <2>2. sendAge <= AliveAfter + LostTime + timerAge
    BY <1>0, <1>1 DEF SenderInv
  <2>3. sendAge <= AliveAfter + (LostTime + Period) + 0
    BY <1>2, <2>1, <2>2, ConstantsAreNat
  <2>4. ~(authenticated = TRUE) => sendAge <= Delay + Delay
    BY <1>0, <1>1 DEF SenderInv
  <2>5. overlooked' = FALSE => sendAge <= AliveAfter + 0
    BY <1>0, <1>4, <2>1, <2>4, ConstantsAreNat, Flags DEF AliveDue
  <2>6. QED
    BY <1>1, <1>3, <2>3, <2>4, <2>5 DEF SenderInv
<1>7. YoungInv' /\ WatcherInv' /\ TimedOutInv'
  BY <1>0, <1>1, <1>3 DEF YoungInv, WatcherInv, TimedOutInv
<1>8. FlightInv'
  <2>1. CASE \E a \in flight : recvAge <= a + SenderSilence
    <3>1. PICK a \in flight : recvAge <= a + SenderSilence
      BY <2>1
    <3>2. a \in Nat /\ recvAge \in Nat /\ SenderSilence \in Nat
      BY <1>0, AgesAreNat, Times
    <3>3. recvAge <= a + SenderSilence'
      <4>1. PICK s \in Nat, t \in Nat : s = SenderSilence /\ t = SenderSilence' /\ s <= t
        BY <1>5, <3>2
      <4>2. PICK r \in Nat : r = recvAge
        BY <3>2
      <4>3. r <= a + s
        BY <3>1, <4>1, <4>2, Zenon
      <4>4. a \in Nat /\ s <= t
        BY <3>2, <4>1, Zenon
      <4>5. r <= a + t
        BY ONLY <4>3, <4>4
      <4>6. QED
        BY <4>1, <4>2, <4>5, Zenon
    <3>4. QED
      BY <1>1, <3>1, <3>3 DEF FlightInv
  <2>2. CASE flight = {} /\ recvAge <= sendAge
    BY <1>1, <2>2 DEF FlightInv
  <2>3. QED
    BY <1>0, <1>1, <2>1, <2>2 DEF FlightInv
<1>9. TypeOK'
  <2>1. sendAge' \in 0..SenderSilence'
    <3>1. PICK s \in Nat, t \in Nat : s = SenderSilence /\ t = SenderSilence' /\ s <= t
      BY <1>0, <1>5, Times
    <3>2. sendAge \in 0..s
      BY <1>0, <3>1 DEF TypeOK
    <3>3. sendAge \in 0..t
      BY ONLY <3>1, <3>2
    <3>4. QED
      BY <1>1, <3>1, <3>3
  <2>2. missed' \in 0..Skips /\ timerAge' \in 0..Period
    BY <1>0, <1>1, <1>2, ConstantsAreNat DEF TypeOK
  <2>3. QED
    BY <1>0, <1>1, <1>2, <1>4, <2>1, <2>2 DEF TypeOK
<1>10. QED
  BY <1>6, <1>7, <1>8, <1>9 DEF IInv

LEMMA DieKeeps == IInv /\ Die => IInv'
<1> SUFFICES ASSUME IInv, Die PROVE IInv'
  OBVIOUS
<1>1. /\ alive' = FALSE /\ flight' = {}
      /\ UNCHANGED <<sender, authenticated, sendAge, timerAge, recvAge, checkAge,
                     missed, overlooked, timedOut>>
  BY DEF Die
<1>2. LeftTime' = LeftTime /\ SenderSilence' = SenderSilence
      /\ Period' = Period /\ CheckEvery' = CheckEvery
  BY <1>1, SameTimes
<1>3. QED
  BY <1>1, <1>2 DEF IInv, TypeOK, SenderInv, YoungInv, FlightInv, WatcherInv, TimedOutInv

\* What is heard was written after the server last overlooked its client, and is
\* as old as its silence: the next check is in time.
LEMMA ReceiveKeeps == IInv /\ Receive => IInv'
<1> SUFFICES ASSUME IInv, Receive PROVE IInv'
  OBVIOUS
<1>0. TypeOK /\ SenderInv /\ YoungInv /\ FlightInv /\ WatcherInv /\ TimedOutInv
  BY DEF IInv
<1>1. /\ timedOut = FALSE /\ recvAge' = 0 /\ overlooked' = FALSE
      /\ UNCHANGED <<sender, alive, authenticated, sendAge, timerAge, checkAge, missed, timedOut>>
  BY <1>0, Flags DEF Receive
<1>2. PICK a \in flight : flight' = flight \ {a}
  BY DEF Receive
<1>3. /\ LostTime' = LostTime /\ LeftTime' = LeftTime
      /\ Period' = Period /\ CheckEvery' = CheckEvery
      /\ LostTime \in Nat /\ LeftTime \in Nat /\ Period \in Nat
  BY <1>0, <1>1, SameTimes, Times
<1>4. alive = TRUE
  BY <1>0, <1>2, Flags DEF YoungInv
<1>5. sendAge \in Nat /\ timerAge \in Nat /\ sendAge <= AliveAfter
  <2>1. sendAge <= a /\ a \in Nat /\ a <= Delay
    BY <1>0, <1>2, <1>4, AgesAreNat DEF YoungInv
  <2>2. QED
    BY <1>0, <2>1, AgesAreNat, ConstantsAreNat
<1>6. SenderSilence' = AliveAfter + Period
  <2>1. Periods' * Period' = Period
    BY <1>1, <1>3, Products DEF Periods
  <2>2. QED
    BY <2>1 DEF SenderSilence
<1>7. TypeOK'
  <2>1. sendAge' \in 0..SenderSilence'
    BY <1>1, <1>3, <1>5, <1>6, ConstantsAreNat
  <2>2. flight' \subseteq 0..Delay
    BY <1>0, <1>2 DEF TypeOK
  <2>3. QED
    BY <1>0, <1>1, <1>3, <2>1, <2>2 DEF TypeOK
<1>8. SenderInv'
  <2>1. sendAge <= AliveAfter + timerAge
    BY <1>5, ConstantsAreNat
  <2>2. QED
    BY <1>0, <1>1, <1>3, <2>1 DEF SenderInv
<1>9. YoungInv'
  BY <1>0, <1>1, <1>2, <1>4 DEF YoungInv
<1>10. FlightInv'
  <2>1. CASE flight' = {}
    BY <1>1, <1>5, <2>1 DEF FlightInv
  <2>2. CASE flight' # {}
    <3>1. PICK b \in flight' : b \in Nat
      BY <1>0, <1>2, <2>2, AgesAreNat
    <3>2. recvAge' <= b + SenderSilence'
      BY <1>1, <1>3, <1>6, <3>1, ConstantsAreNat
    <3>3. QED
      BY <3>1, <3>2 DEF FlightInv
  <2>3. QED
    BY <2>1, <2>2
<1>11. WatcherInv' /\ TimedOutInv'
  <2>1. checkAge \in Nat
    BY <1>0, AgesAreNat
  <2>2. 0 <= ReadTimeout + LeftTime + checkAge
    BY <1>3, <2>1, ConstantsAreNat
  <2>3. QED
    BY <1>1, <1>3, <2>2 DEF WatcherInv, TimedOutInv
<1>12. QED
  BY <1>7, <1>8, <1>9, <1>10, <1>11 DEF IInv

LEMMA WatcherChecksKeeps == IInv /\ WatcherChecks => IInv'
<1> SUFFICES ASSUME IInv, WatcherChecks PROVE IInv'
  OBVIOUS
<1>0. TypeOK /\ SenderInv /\ YoungInv /\ FlightInv /\ WatcherInv /\ TimedOutInv
  BY DEF IInv
<1>1. /\ checkAge' = 0 /\ missed' = IF sender = "client" THEN 0 ELSE missed
      /\ timedOut' = (recvAge > ReadTimeout)
      /\ UNCHANGED <<sender, alive, authenticated, sendAge, timerAge, flight, recvAge, overlooked>>
  BY DEF WatcherChecks, Expired
<1>2. Period' = Period /\ CheckEvery' = CheckEvery /\ SenderSilence' = SenderSilence
      /\ CheckEvery \in Nat
  BY <1>0, <1>1, SameTimes, Times
<1>3. LostTime' = LostTime /\ LeftTime' = 0
  <2>1. Lost' = Lost /\ Left' = 0
    BY <1>0, <1>1, Flags DEF Lost, Left
  <2>2. QED
    BY <1>2, <2>1 DEF LostTime, LeftTime
<1>4. TypeOK'
  <2>1. missed' \in 0..Skips /\ checkAge' \in 0..CheckEvery /\ timedOut' \in BOOLEAN
    BY <1>0, <1>1, <1>2, ConstantsAreNat DEF TypeOK
  <2>2. QED
    BY <1>0, <1>1, <1>2, <2>1 DEF TypeOK
<1>5. SenderInv' /\ YoungInv' /\ FlightInv'
  BY <1>0, <1>1, <1>2, <1>3 DEF SenderInv, YoungInv, FlightInv
<1>6. recvAge \in Nat
  BY <1>0, AgesAreNat
<1>7. WatcherInv'
  <2>1. timedOut' = FALSE => ~(recvAge > ReadTimeout)
    BY <1>1, Zenon
  <2>2. timedOut' = FALSE => recvAge <= ReadTimeout + 0 + 0
    BY <1>6, <2>1, ConstantsAreNat
  <2>3. QED
    BY <1>1, <1>3, <2>2 DEF WatcherInv
<1>8. TimedOutInv'
  BY <1>1 DEF TimedOutInv
<1>9. QED
  BY <1>4, <1>5, <1>7, <1>8 DEF IInv

LEMMA WatcherSkipsKeeps == IInv /\ WatcherSkips => IInv'
<1> SUFFICES ASSUME IInv, WatcherSkips PROVE IInv'
  OBVIOUS
<1>0. TypeOK /\ SenderInv /\ YoungInv /\ FlightInv /\ WatcherInv /\ TimedOutInv
  BY DEF IInv
<1>1. /\ timedOut = FALSE /\ sender = "client" /\ missed < Skips
      /\ checkAge' = 0 /\ missed' = missed + 1
      /\ UNCHANGED <<sender, alive, authenticated, sendAge, timerAge, flight, recvAge,
                     overlooked, timedOut>>
  BY <1>0, Flags DEF WatcherSkips
<1>2. Period' = Period /\ CheckEvery' = CheckEvery /\ SenderSilence' = SenderSilence
      /\ CheckEvery \in Nat /\ Period \in Nat
  BY <1>0, <1>1, SameTimes, Times
<1>3. LostTime' = LostTime /\ LeftTime' = LeftTime + CheckEvery
  <2>1. Lost' = Lost /\ Left' = Left + 1 /\ Left \in Nat
    BY <1>0, <1>1, Flags DEF Lost, Left
  <2>2. (Left + 1) * CheckEvery = Left * CheckEvery + CheckEvery
    BY <1>2, <2>1, Products
  <2>3. QED
    BY <1>2, <2>1, <2>2 DEF LostTime, LeftTime
<1>4. TypeOK'
  <2>1. missed' \in 0..Skips /\ checkAge' \in 0..CheckEvery
    BY <1>0, <1>1, <1>2, ConstantsAreNat DEF TypeOK
  <2>2. QED
    BY <1>0, <1>1, <1>2, <2>1 DEF TypeOK
<1>5. SenderInv' /\ YoungInv' /\ FlightInv' /\ TimedOutInv'
  BY <1>0, <1>1, <1>2, <1>3 DEF SenderInv, YoungInv, FlightInv, TimedOutInv
<1>6. WatcherInv'
  <2>1. recvAge \in Nat /\ checkAge \in Nat /\ checkAge <= CheckEvery /\ LeftTime \in Nat
        /\ recvAge <= ReadTimeout + LeftTime + checkAge
    BY <1>0, <1>1, AgesAreNat, Times DEF WatcherInv
  <2>2. recvAge <= ReadTimeout + (LeftTime + CheckEvery) + 0
    BY <1>2, <2>1, ConstantsAreNat
  <2>3. QED
    BY <1>1, <1>3, <2>2 DEF WatcherInv
<1>7. QED
  BY <1>4, <1>5, <1>6 DEF IInv

LEMMA TickKeeps == IInv /\ Tick => IInv'
<1> SUFFICES ASSUME IInv, Tick PROVE IInv'
  OBVIOUS
<1>0. TypeOK /\ SenderInv /\ YoungInv /\ FlightInv /\ WatcherInv /\ TimedOutInv
  BY DEF IInv
<1>1. /\ timedOut = FALSE /\ checkAge < CheckEvery /\ \A a \in flight : a < Delay
      /\ recvAge' = recvAge + 1 /\ checkAge' = checkAge + 1
      /\ flight' = {a + 1 : a \in flight}
      /\ UNCHANGED <<sender, alive, authenticated, missed, overlooked, timedOut>>
  BY <1>0, Flags DEF Tick, Later
<1>2. /\ alive = TRUE => /\ sendAge' = sendAge + 1 /\ timerAge' = timerAge + 1
                         /\ timerAge < Period
                         /\ ~(authenticated = TRUE) => sendAge < Delay + Delay
      /\ alive = FALSE => sendAge' = sendAge /\ timerAge' = timerAge
  BY <1>0, Flags DEF Tick
<1>3. /\ Period' = Period /\ CheckEvery' = CheckEvery /\ SenderSilence' = SenderSilence
      /\ LostTime' = LostTime /\ LeftTime' = LeftTime
  BY <1>1, SameTimes
<1>4. /\ sendAge \in Nat /\ timerAge \in Nat /\ recvAge \in Nat /\ checkAge \in Nat
      /\ \A a \in flight : a \in Nat
      /\ LostTime \in Nat /\ LostTime <= Skips * Period /\ Skips * Period \in Nat
      /\ LeftTime \in Nat /\ Period \in Nat /\ CheckEvery \in Nat /\ SenderSilence \in Nat
  BY <1>0, AgesAreNat, Times
<1>5. SenderInv'
  <2>1. CASE alive = TRUE
    <3>1. /\ ~(authenticated = TRUE) => sendAge + 1 <= Delay + Delay
          /\ overlooked = FALSE => sendAge + 1 <= AliveAfter + (timerAge + 1)
          /\ sendAge + 1 <= AliveAfter + LostTime + (timerAge + 1)
      BY <1>0, <1>2, <1>4, <2>1, ConstantsAreNat DEF SenderInv
    <3>2. QED
      BY <1>1, <1>2, <1>3, <2>1, <3>1 DEF SenderInv
  <2>2. CASE alive = FALSE
    BY <1>1, <2>2 DEF SenderInv
  <2>3. QED
    BY <1>0, <2>1, <2>2, Flags
<1>6. sendAge' \in 0..SenderSilence' /\ timerAge' \in 0..Period'
  <2>1. CASE alive = TRUE
    <3>1. /\ sendAge <= AliveAfter + LostTime + timerAge /\ timerAge < Period
          /\ overlooked = FALSE => sendAge <= AliveAfter + timerAge
      BY <1>0, <1>2, <2>1 DEF SenderInv
    <3>2. overlooked = TRUE => sendAge + 1 <= AliveAfter + (Skips * Period + Period)
      BY <1>4, <3>1, ConstantsAreNat
    <3>3. overlooked = FALSE => sendAge + 1 <= AliveAfter + Period
      BY <1>4, <3>1, ConstantsAreNat
    <3>4. sendAge + 1 <= SenderSilence
      BY <1>0, <3>2, <3>3, Times, Flags
    <3>5. sendAge + 1 \in 0..SenderSilence /\ timerAge + 1 \in 0..Period
      BY <1>4, <3>1, <3>4
    <3>6. QED
      BY <1>2, <1>3, <2>1, <3>5
  <2>2. CASE alive = FALSE
    BY <1>0, <1>2, <1>3, <2>2 DEF TypeOK
  <2>3. QED
    BY <1>0, <2>1, <2>2, Flags
<1>7. TypeOK'
  <2>1. flight' \subseteq 0..Delay
    BY <1>1, <1>4, ConstantsAreNat
  <2>2. recvAge' \in Nat /\ checkAge' \in 0..CheckEvery
    BY <1>1, <1>4
  <2>3. QED
    BY <1>0, <1>1, <1>3, <1>6, <2>1, <2>2 DEF TypeOK
<1>8. YoungInv'
  <2>1. ASSUME alive = TRUE, NEW b \in flight' PROVE sendAge' <= b
    <3>1. PICK a \in flight : b = a + 1
      BY <1>1, <2>1
    <3>2. sendAge + 1 <= a + 1
      BY <1>0, <1>4, <2>1, <3>1 DEF YoungInv
    <3>3. QED
      BY <1>2, <2>1, <3>1, <3>2
  <2>2. alive = FALSE => flight' = {}
    BY <1>0, <1>1 DEF YoungInv
  <2>3. QED
    BY <1>1, <2>1, <2>2 DEF YoungInv
<1>9. FlightInv'
  <2>1. SUFFICES ASSUME alive = TRUE PROVE FlightInv'
    BY <1>1 DEF FlightInv
  <2>2. CASE \E a \in flight : recvAge <= a + SenderSilence
    <3>1. PICK a \in flight : recvAge <= a + SenderSilence
      BY <2>2
    <3>2. a + 1 \in flight'
      BY <1>1, <3>1
    <3>3. recvAge + 1 <= (a + 1) + SenderSilence
      BY <1>4, <3>1
    <3>4. QED
      BY <1>1, <1>3, <3>2, <3>3 DEF FlightInv
  <2>3. CASE flight = {} /\ recvAge <= sendAge
    <3>1. flight' = {} /\ recvAge + 1 <= sendAge + 1
      BY <1>1, <1>4, <2>3
    <3>2. QED
      BY <1>1, <1>2, <2>1, <3>1 DEF FlightInv
  <2>4. QED
    BY <1>0, <2>1, <2>2, <2>3 DEF FlightInv
<1>10. WatcherInv' /\ TimedOutInv'
  <2>1. recvAge <= ReadTimeout + LeftTime + checkAge
    BY <1>0, <1>1 DEF WatcherInv
  <2>2. recvAge + 1 <= ReadTimeout + LeftTime + (checkAge + 1)
    BY <1>4, <2>1, ConstantsAreNat
  <2>3. QED
    BY <1>1, <1>3, <2>2 DEF WatcherInv, TimedOutInv
<1>11. QED
  BY <1>5, <1>7, <1>8, <1>9, <1>10 DEF IInv

LEMMA StutterKeeps == IInv /\ UNCHANGED vars => IInv'
<1> SUFFICES ASSUME IInv, UNCHANGED vars PROVE IInv'
  OBVIOUS
<1>1. UNCHANGED <<sender, alive, authenticated, sendAge, timerAge, flight, recvAge, checkAge,
                  missed, overlooked, timedOut>>
  BY DEF vars
<1>2. LostTime' = LostTime /\ LeftTime' = LeftTime /\ SenderSilence' = SenderSilence
      /\ Period' = Period /\ CheckEvery' = CheckEvery
  BY <1>1, SameTimes
<1>3. QED
  BY <1>1, <1>2 DEF IInv, TypeOK, SenderInv, YoungInv, FlightInv, WatcherInv, TimedOutInv

LEMMA Inductive == Spec => []IInv
<1>1. IInv /\ [Next]_vars => IInv'
  BY AuthenticateKeeps, SendKeeps, SenderChecksKeeps, SenderSkipsKeeps, DieKeeps,
     ReceiveKeeps, WatcherChecksKeeps, WatcherSkipsKeeps, TickKeeps, StutterKeeps DEF Next
<1>2. QED
  BY <1>1, InitInv, PTL DEF Spec

--------------------------------------------------------------------------------
(* Theorems.                                                                   *)

\* Ages stay in their types: in particular a live sender is never silent for
\* longer than AliveAfter + Period, or Skips periods more if it is the server and
\* SyncServer::checkTimeouts has overlooked this client when an ALIVE was due.
THEOREM TypeCorrect == Spec => []TypeOK
<1>1. IInv => TypeOK
  BY DEF IInv
<1>2. QED
  BY <1>1, Inductive, PTL

LEMMA HeardInTime == IInv => (alive = TRUE => recvAge <= HeardSilence)
<1> SUFFICES ASSUME IInv, alive = TRUE PROVE recvAge <= HeardSilence
  OBVIOUS
<1>0. TypeOK /\ FlightInv
  BY DEF IInv
<1>1. /\ SenderSilence \in Nat /\ recvAge \in Nat /\ sendAge \in Nat
      /\ sendAge <= SenderSilence /\ HeardSilence = SenderSilence + Delay
      /\ \A a \in flight : a \in Nat /\ a <= Delay
  BY <1>0, Times, AgesAreNat DEF HeardSilence
<1>2. CASE \E a \in flight : recvAge <= a + SenderSilence
  BY <1>1, <1>2, ConstantsAreNat
<1>3. CASE flight = {} /\ recvAge <= sendAge
  BY <1>1, <1>3, ConstantsAreNat
<1>4. QED
  BY <1>0, <1>2, <1>3 DEF FlightInv

\* SyncRemotePeer hears of a live peer at least every AliveAfter + Period + Delay,
\* if the peer's program has not left a check out when an ALIVE was due, and else
\* Skips periods later.
THEOREM SilenceBound == Spec => []SilenceIsBounded
<1>1. IInv => SilenceIsBounded
  BY HeardInTime DEF SilenceIsBounded, IInv, TypeOK
<1>2. QED
  BY <1>1, Inductive, PTL

\* If that is not longer than the time-out of checkTimeout, a live peer is never
\* timed out.
THEOREM LivePeersStay == Spec => []NoFalseTimeout
<1>1. IInv => NoFalseTimeout
  <2> SUFFICES ASSUME IInv, HeardSilence <= ReadTimeout, timedOut, alive PROVE FALSE
    BY DEF NoFalseTimeout
  <2>0. TypeOK /\ timedOut = TRUE /\ alive = TRUE
    BY DEF IInv, TypeOK
  <2>1. recvAge > ReadTimeout /\ recvAge <= HeardSilence
    BY <2>0, HeardInTime DEF IInv, TimedOutInv
  <2>2. recvAge \in Nat /\ HeardSilence \in Nat
    BY <2>0, AgesAreNat, Times, ConstantsAreNat DEF HeardSilence
  <2>3. QED
    BY <2>1, <2>2, ConstantsAreNat
<1>2. QED
  BY <1>1, Inductive, PTL

\* A peer that is silent for the time-out and one check more, or as many more as the
\* server may leave out in a row, has been given up.
THEOREM DeadPeersTimeOut == Spec => []DeadIsNoticed
<1>1. IInv => DeadIsNoticed
  <2> DEFINE ticks == (IF sender = "client" THEN Skips + 1 ELSE 1) * CheckEvery
  <2> SUFFICES ASSUME IInv, ~timedOut PROVE recvAge <= ReadTimeout + ticks
    BY Zenon DEF DeadIsNoticed
  <2>0. TypeOK /\ recvAge <= ReadTimeout + LeftTime + checkAge
    BY Flags DEF IInv, WatcherInv
  <2>1. /\ recvAge \in Nat /\ checkAge \in Nat /\ checkAge <= CheckEvery
        /\ CheckEvery \in Nat /\ LeftTime \in Nat /\ LeftTime + CheckEvery <= ticks
    BY <2>0, AgesAreNat, Times
  <2>2. ticks \in Nat
    BY <2>1, ConstantsAreNat, Products
  <2> HIDE DEF ticks
  <2>3. QED
    BY <2>0, <2>1, <2>2, ConstantsAreNat
<1>2. QED
  BY <1>1, Inductive, PTL
=================================================================================
