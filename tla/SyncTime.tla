-------------------------------- MODULE SyncTime --------------------------------
(* The simulation time of a RemoteSync server and of one of its clients.  The   *)
(* time itself is never sent: a TIME message holds what StelCore computes it    *)
(* from in every frame, the Julian day at the last change, when that was by     *)
(* the system clock, and the rate.  The client, whose system clock may be off   *)
(* by Skew, goes on from there.                                                 *)
EXTENDS Integers, Sequences

CONSTANTS JDs,              \* the days a user may choose
          Rates,            \* and the rates, per unit of the system clock
          Earliest, Latest, \* limits of what a frame shows
          Skew,             \* client's system clock - server's
          MaxWall,          \* bound: the server's system clock
          MaxChanges,       \* bound: changes of the server's time
          Horizon           \* how far SameTime looks ahead

ASSUME TimeAssumption ==
    /\ JDs \subseteq Int /\ Rates \subseteq Int
    /\ Earliest \in Int /\ Latest \in Int /\ Earliest <= Latest
    /\ Skew \in Int /\ MaxWall \in Nat /\ MaxChanges \in Nat /\ Horizon \in Nat

VARIABLES server, client,   \* the time variables of the two StelCores
          dirty,            \* TimeEventSender::isDirty
          joined,           \* the client is authenticated
          chan,             \* TIME messages on their way
          wall,             \* QDateTime::currentMSecsSinceEpoch of the server
          changes           \* changes so far

vars == <<server, client, dirty, joined, chan, wall, changes>>

\* JD.first, jdOfLastJDUpdate, milliSecondsOfLastJDUpdate, timeSpeed.
Clock == [jd : Int, base : Int, since : Int, rate : Int]
StartedWith(d, r, now) == [jd |-> d, base |-> d, since |-> now, rate |-> r]

ClientWall == wall + Skew

Init == /\ \E d \in JDs, r \in Rates : server = StartedWith(d, r, 0)
        /\ \E d \in JDs, r \in Rates : client = StartedWith(d, r, Skew)
        /\ dirty = FALSE /\ joined = FALSE /\ chan = <<>>
        /\ wall = 0 /\ changes = 0

--------------------------------------------------------------------------------
(* StelCore, on either side; now is its system clock.                           *)

\* Mutant: the limits are forgotten.
Unlimited(d) == d
Limited(d) == IF d > Latest THEN Latest ELSE IF d < Earliest THEN Earliest ELSE d

Elapsed(c, now) == (now - c.since) * c.rate
Shown(c, now) == Limited(c.base + Elapsed(c, now))
updateTime(c, now) == [c EXCEPT !.jd = Shown(c, now)]

\* The last frame's time is the new start.
resetSync(c, now) == [c EXCEPT !.base = c.jd, !.since = now]

setJD(c, d, now) == resetSync([c EXCEPT !.jd = d], now)

\* Mutant: what has passed at the old rate is converted to the new one.
NewRateOnly(c, r, now) == [c EXCEPT !.rate = r]
setTimeRate(c, r, now) == resetSync([c EXCEPT !.rate = r], now)

--------------------------------------------------------------------------------
(* The server.                                                                  *)

Change(c) ==
    /\ changes < MaxChanges /\ changes' = changes + 1
    /\ server' = c /\ dirty' = TRUE
    /\ UNCHANGED <<client, joined, chan, wall>>

SetJD == \E d \in JDs : Change(setJD(server, d, wall))
SetTimeRate == \E r \in Rates : Change(setTimeRate(server, r, wall))

constructMessage(c) == [base |-> c.base, since |-> c.since, rate |-> c.rate]

\* core->update is the first in a frame, RemoteSync::update the last.
ServerFrame ==
    /\ server' = updateTime(server, wall)
    /\ dirty' = FALSE
    /\ chan' = IF dirty /\ joined THEN Append(chan, constructMessage(server')) ELSE chan
    /\ UNCHANGED <<client, joined, wall, changes>>

\* clientAuthenticated sends the present state to the new client.
NewClientState == <<constructMessage(server)>>
Join ==
    /\ ~joined /\ joined' = TRUE
    /\ chan' = chan \o NewClientState
    /\ UNCHANGED <<server, client, dirty, wall, changes>>

--------------------------------------------------------------------------------
(* The client.                                                                  *)

\* Mutant: the rate last, whose resetSync then undoes the rest.
RateLast(c, msg, now) ==
    setTimeRate([setJD(c, msg.base, now) EXCEPT !.since = msg.since], msg.rate, now)
handleMessage(c, msg, now) ==
    [setJD(setTimeRate(c, msg.rate, now), msg.base, now) EXCEPT !.since = msg.since]

ClientReceive ==
    /\ chan # <<>> /\ chan' = Tail(chan)
    /\ client' = handleMessage(client, Head(chan), ClientWall)
    /\ UNCHANGED <<server, dirty, joined, wall, changes>>

ClientFrame ==
    /\ client' = updateTime(client, ClientWall)
    /\ UNCHANGED <<server, dirty, joined, chan, wall, changes>>

Tick == /\ wall < MaxWall /\ wall' = wall + 1
        /\ UNCHANGED <<server, client, dirty, joined, chan, changes>>

Next == \/ SetJD \/ SetTimeRate \/ ServerFrame \/ Join
        \/ ClientReceive \/ ClientFrame \/ Tick

Spec == Init /\ [][Next]_vars

--------------------------------------------------------------------------------
(* Properties.                                                                  *)

\* Days a frame shows or a user has chosen; no time of change in the future.
Days == Earliest..Latest \union JDs
TypeOK ==
    /\ server \in Clock /\ client \in Clock
    /\ server.jd \in Days /\ client.jd \in Days
    /\ wall \in 0..MaxWall /\ changes \in 0..MaxChanges
    /\ server.since \in 0..wall
    /\ dirty \in BOOLEAN /\ joined \in BOOLEAN
    /\ \A i \in 1..Len(chan) : chan[i].since \in 0..wall

Settled == joined /\ ~dirty /\ chan = <<>>

\* Once every TIME message has been handled, the two show the same time now and at
\* every later moment, however late the messages came and whatever the frames of
\* the two programs were, but for what the skew of their system clocks makes.
Magnitude(n) == IF n < 0 THEN -n ELSE n
SameTime ==
    Settled =>
      \A w \in wall..(wall + Horizon) :
        Magnitude(Shown(client, w + Skew) - Shown(server, w)) <= Magnitude(Skew * server.rate)

\* What is shown on the server never goes back by itself or by a change of the
\* rate, once a frame has brought a chosen day within the limits.
NeverBack ==
    [][ (server.rate >= 0 /\ server.jd <= Latest /\ server'.jd < server.jd) => SetJD ]_vars
================================================================================
