----------------------------- MODULE SyncTime_proofs -----------------------------
(* The client of SyncTime shows the server's time, for all days, rates, limits   *)
(* and skews, however many changes there are and however long messages take.     *)
EXTENDS SyncTime, SequenceTheorems, TLAPS

\* What a TIME message may hold, and the two clocks.
Message == [base : Days, since : Nat, rate : Int]
Typed ==
    /\ server \in [jd : Days, base : Days, since : Nat, rate : Int]
    /\ client \in [jd : Days, base : Days, since : Int, rate : Int]
    /\ chan \in Seq(Message)
    /\ wall \in 0..MaxWall /\ changes \in 0..MaxChanges
    /\ dirty \in BOOLEAN /\ joined \in BOOLEAN

NotInFuture ==
    /\ server.since <= wall
    /\ \A i \in 1..Len(chan) : chan[i].since <= wall

\* What the client will have been told when it has handled all that is on its way.
Newest == IF chan = <<>> THEN constructMessage(client) ELSE chan[Len(chan)]
FollowsServer == joined /\ ~dirty => Newest = constructMessage(server)

\* What is shown is not ahead of what the next frame computes.
NotAhead == server.rate >= 0 /\ server.jd <= Latest => server.jd <= Shown(server, wall)

IInv == Typed /\ NotInFuture /\ FollowsServer /\ NotAhead

\* What the constants are, as plain facts.
LEMMA ConstantsTyped ==
    /\ Earliest \in Int /\ Latest \in Int /\ Earliest <= Latest /\ Skew \in Int
    /\ MaxWall \in Nat /\ MaxChanges \in Nat /\ Horizon \in Nat
    /\ JDs \subseteq Days /\ Rates \subseteq Int
    /\ \A d \in Days : d \in Int
BY TimeAssumption DEF Days

\* A limited day is one a frame shows, and limiting brings days no further apart.
LEMMA LimitedFacts ==
    ASSUME NEW a \in Int, NEW b \in Int
    PROVE  /\ Limited(a) \in Int /\ Limited(a) \in Days
           /\ a <= Latest => a <= Limited(a)
           /\ a <= b => Limited(a) <= Limited(b)
           /\ a <= b => Limited(b) - Limited(a) <= b - a
BY ConstantsTyped DEF Limited, Days

\* A frame changes only the day that is shown.
LEMMA UpdateFacts ==
    ASSUME NEW c \in [jd : Days, base : Days, since : Int, rate : Int], NEW n \in Int
    PROVE  /\ updateTime(c, n) = [c EXCEPT !.jd = Shown(c, n)]
           /\ updateTime(c, n).jd = Shown(c, n)
           /\ constructMessage(updateTime(c, n)) = constructMessage(c)
           /\ Shown(updateTime(c, n), n) = Shown(c, n)
           /\ Shown(c, n) \in Days
<1>1. c.base \in Int /\ c.since \in Int /\ c.rate \in Int /\ c.jd \in Int
    BY ConstantsTyped
<1>2. (n - c.since) * c.rate \in Int
    BY <1>1
<1>3. c.base + Elapsed(c, n) \in Int
    BY <1>1, <1>2 DEF Elapsed
<1>4. Shown(c, n) \in Days
    BY <1>3, LimitedFacts DEF Shown
<1>5. updateTime(c, n) = [c EXCEPT !.jd = Shown(c, n)]
    BY DEF updateTime
<1>6. /\ updateTime(c, n).jd = Shown(c, n) /\ updateTime(c, n).base = c.base
      /\ updateTime(c, n).since = c.since /\ updateTime(c, n).rate = c.rate
    BY DEF updateTime
<1>7. Shown(updateTime(c, n), n) = Shown(c, n)
    BY <1>6 DEF Shown, Elapsed
<1> QED BY <1>4, <1>5, <1>6, <1>7 DEF constructMessage

\* A change takes effect from the day that is shown and from now on.
LEMMA ChangeFacts ==
    ASSUME NEW c \in [jd : Days, base : Days, since : Nat, rate : Int],
           NEW d \in Days, NEW r \in Int, NEW n \in Nat
    PROVE  /\ setJD(c, d, n) \in [jd : Days, base : Days, since : Nat, rate : Int]
           /\ setTimeRate(c, r, n) \in [jd : Days, base : Days, since : Nat, rate : Int]
           /\ setJD(c, d, n).since = n /\ setTimeRate(c, r, n).since = n
           /\ setJD(c, d, n).base = setJD(c, d, n).jd
           /\ setTimeRate(c, r, n).base = c.jd /\ setTimeRate(c, r, n).jd = c.jd
BY DEF setJD, setTimeRate, resetSync

\* The client takes over what the message says.
LEMMA HandleFacts ==
    ASSUME NEW c \in [jd : Days, base : Days, since : Int, rate : Int],
           NEW msg \in Message, NEW n \in Int
    PROVE  /\ handleMessage(c, msg, n) \in [jd : Days, base : Days, since : Int, rate : Int]
           /\ constructMessage(handleMessage(c, msg, n)) = msg
<1>1. /\ handleMessage(c, msg, n).base = msg.base
      /\ handleMessage(c, msg, n).since = msg.since
      /\ handleMessage(c, msg, n).rate = msg.rate
    BY DEF handleMessage, setJD, setTimeRate, resetSync
<1>2. msg = [base |-> msg.base, since |-> msg.since, rate |-> msg.rate]
    BY DEF Message
<1>3. handleMessage(c, msg, n) \in [jd : Days, base : Days, since : Int, rate : Int]
    <2>1. msg.base \in Days /\ msg.since \in Nat /\ msg.rate \in Int
        BY DEF Message
    <2> DEFINE c1 == setTimeRate(c, msg.rate, n)
               c2 == setJD(c1, msg.base, n)
    <2>2. c1 \in [jd : Days, base : Days, since : Int, rate : Int]
        BY <2>1 DEF setTimeRate, resetSync
    <2>3. handleMessage(c, msg, n) = [c2 EXCEPT !.since = msg.since]
        BY DEF handleMessage
    <2> HIDE DEF c1
    <2>4. c2 \in [jd : Days, base : Days, since : Int, rate : Int]
        BY <2>1, <2>2 DEF setJD, resetSync
    <2> HIDE DEF c2
    <2> QED BY <2>1, <2>3, <2>4
<1> QED BY <1>1, <1>2, <1>3 DEF constructMessage

\* What the server sends is a message that says when its time last changed.
LEMMA ConstructFacts ==
    ASSUME NEW c \in [jd : Days, base : Days, since : Nat, rate : Int]
    PROVE  constructMessage(c) \in Message /\ constructMessage(c).since = c.since
BY DEF constructMessage, Message

\* One more message is the last.
LEMMA AppendFacts ==
    ASSUME NEW s \in Seq(Message), NEW e \in Message
    PROVE  /\ Append(s, e) \in Seq(Message) /\ Append(s, e) # <<>>
           /\ Len(s) \in Nat
           /\ Len(Append(s, e)) = Len(s) + 1
           /\ Append(s, e)[Len(Append(s, e))] = e
           /\ \A i \in 1..Len(s) : Append(s, e)[i] = s[i]
OBVIOUS

\* The first message leaves the others as they were.
LEMMA TailFacts ==
    ASSUME NEW s \in Seq(Message), s # <<>>
    PROVE  /\ Tail(s) \in Seq(Message) /\ Head(s) \in Message /\ Head(s) = s[1]
           /\ Len(s) \in Nat \ {0} /\ Len(Tail(s)) = Len(s) - 1
           /\ \A i \in 1..Len(Tail(s)) : Tail(s)[i] = s[i + 1]
           /\ Tail(s) = <<>> <=> Len(s) = 1
<1>1. Tail(s) \in Seq(Message) /\ Head(s) = s[1]
    OBVIOUS
<1>2. Len(s) \in Nat \ {0} /\ Len(Tail(s)) = Len(s) - 1
    OBVIOUS
<1>3. Head(s) \in Message
    OBVIOUS
<1>4. \A i \in 1..Len(Tail(s)) : Tail(s)[i] = s[i + 1]
    OBVIOUS
<1>5. Tail(s) = <<>> <=> Len(Tail(s)) = 0
    BY <1>1, EmptySeq
<1>6. Tail(s) = <<>> <=> Len(s) = 1
    BY <1>2, <1>5
<1> QED BY <1>1, <1>2, <1>3, <1>4, <1>6

\* No message is dated by anything but a number.
LEMMA ElementFacts ==
    ASSUME NEW s \in Seq(Message), NEW i \in 1..Len(s)
    PROVE  s[i].since \in Nat
<1>1. s[i] \in Message
    OBVIOUS
<1> QED BY <1>1 DEF Message

\* Shown in terms of the clock's variables.
LEMMA ShownIs ==
    ASSUME NEW c, NEW n
    PROVE  Shown(c, n) = Limited(c.base + (n - c.since) * c.rate)
BY DEF Shown, Elapsed

LEMMA InitInv == Init => IInv
<1> SUFFICES ASSUME Init PROVE IInv
    OBVIOUS
<1>1. Typed
    <2>1. PICK d \in JDs, r \in Rates : server = StartedWith(d, r, 0)
        BY DEF Init
    <2>2. PICK e \in JDs, q \in Rates : client = StartedWith(e, q, Skew)
        BY DEF Init
    <2>3. d \in Days /\ r \in Int /\ e \in Days /\ q \in Int /\ Skew \in Int
        BY ConstantsTyped
    <2>4. /\ server \in [jd : Days, base : Days, since : Nat, rate : Int]
          /\ client \in [jd : Days, base : Days, since : Int, rate : Int]
        BY <2>1, <2>2, <2>3 DEF StartedWith
    <2>5. wall \in 0..MaxWall /\ changes \in 0..MaxChanges
        BY ConstantsTyped DEF Init
    <2>6. chan \in Seq(Message) /\ dirty \in BOOLEAN /\ joined \in BOOLEAN
        BY EmptySeq DEF Init
    <2> QED BY <2>4, <2>5, <2>6 DEF Typed
<1>2. NotInFuture
    BY DEF Init, NotInFuture, StartedWith
<1>3. FollowsServer
    BY DEF Init, FollowsServer
<1>4. NotAhead
    <2>1. PICK d \in JDs, r \in Rates : server = StartedWith(d, r, 0)
        BY DEF Init
    <2>2. server.jd = d /\ server.base = d /\ server.since = 0 /\ server.rate = r /\ wall = 0
        BY <2>1 DEF StartedWith, Init
    <2>3. d \in Int /\ r \in Int
        BY ConstantsTyped
    <2>4. d + (0 - 0) * r = d
        BY <2>3
    <2>5. Shown(server, wall) = Limited(d)
        BY <2>2, <2>4 DEF Shown, Elapsed
    <2> QED BY <2>2, <2>3, <2>5, LimitedFacts DEF NotAhead
<1> QED BY <1>1, <1>2, <1>3, <1>4 DEF IInv

\* A changed clock shows what it starts from.
LEMMA FreshNotAhead ==
    ASSUME NEW c \in [jd : Days, base : Days, since : Nat, rate : Int], NEW n \in Nat,
           c.base = c.jd, c.since = n, c.jd <= Latest
    PROVE  c.jd <= Shown(c, n)
<1>1. c.jd \in Int /\ c.rate \in Int
    BY ConstantsTyped
<1>2. c.base + (n - c.since) * c.rate = c.jd
    BY <1>1
<1> QED BY <1>1, <1>2, LimitedFacts DEF Shown, Elapsed

\* A change of the server's clock by its user.
LEMMA ChangeInv ==
    ASSUME IInv, NEW c \in [jd : Days, base : Days, since : Nat, rate : Int],
           c.base = c.jd, c.since = wall, Change(c)
    PROVE  IInv'
<1>1. Typed'
    BY ConstantsTyped DEF IInv, Typed, Change
<1>2. NotInFuture'
    BY ConstantsTyped DEF IInv, Typed, NotInFuture, Change
<1>3. FollowsServer'
    BY DEF FollowsServer, Change
<1>4. NotAhead'
    <2>1. server' = c /\ wall' = wall /\ wall \in Nat
        BY ConstantsTyped DEF IInv, Typed, Change
    <2>2. Shown(server, wall)' = Shown(c, wall)
        BY <2>1 DEF Shown, Elapsed
    <2> QED BY <2>1, <2>2, FreshNotAhead DEF NotAhead
<1> QED BY <1>1, <1>2, <1>3, <1>4 DEF IInv

LEMMA StepInv == IInv /\ [Next]_vars => IInv'
<1> SUFFICES ASSUME IInv, [Next]_vars PROVE IInv'
    OBVIOUS
<1>0. /\ server \in [jd : Days, base : Days, since : Nat, rate : Int]
      /\ client \in [jd : Days, base : Days, since : Int, rate : Int]
      /\ chan \in Seq(Message) /\ wall \in Nat /\ ClientWall \in Int
      /\ server.since \in Nat /\ server.rate \in Int
    BY ConstantsTyped DEF IInv, Typed, ClientWall
<1>1. CASE SetJD
    <2>1. PICK d \in JDs : Change(setJD(server, d, wall))
        BY <1>1 DEF SetJD
    <2>2. d \in Days
        BY ConstantsTyped
    <2> QED BY <1>0, <2>1, <2>2, ChangeFacts, ChangeInv
<1>2. CASE SetTimeRate
    <2>1. PICK r \in Rates : Change(setTimeRate(server, r, wall))
        BY <1>2 DEF SetTimeRate
    <2>2. r \in Int
        BY ConstantsTyped
    <2>3. setTimeRate(server, r, wall).base = setTimeRate(server, r, wall).jd
        BY <1>0, <2>2 DEF setTimeRate, resetSync
    <2>4. setTimeRate(server, r, wall).since = wall
        BY <1>0, <2>2 DEF setTimeRate, resetSync
    <2>5. setTimeRate(server, r, wall) \in [jd : Days, base : Days, since : Nat, rate : Int]
        BY <1>0, <2>2 DEF setTimeRate, resetSync
    <2> QED BY <2>1, <2>3, <2>4, <2>5, ChangeInv
<1>3. CASE ServerFrame
    <2>1. /\ server' \in [jd : Days, base : Days, since : Nat, rate : Int]
          /\ server'.jd = Shown(server, wall)
          /\ constructMessage(server') = constructMessage(server)
          /\ Shown(server', wall) = Shown(server, wall)
          /\ Shown(server, wall) \in Days
        <3>1. server \in [jd : Days, base : Days, since : Int, rate : Int] /\ wall \in Int
            BY <1>0
        <3>2. server' = updateTime(server, wall)
            BY <1>3 DEF ServerFrame
        <3>3. /\ server' = [server EXCEPT !.jd = Shown(server, wall)]
              /\ server'.jd = Shown(server, wall)
              /\ constructMessage(server') = constructMessage(server)
              /\ Shown(server', wall) = Shown(server, wall)
              /\ Shown(server, wall) \in Days
            BY <3>1, <3>2, UpdateFacts
        <3> QED BY <1>0, <3>3
    <2>2. constructMessage(server) \in Message /\ constructMessage(server).since = server.since
        BY <1>0, ConstructFacts
    <2>3. Typed' /\ NotInFuture'
        <3>1. server'.since = server.since
            BY <1>0, <1>3 DEF ServerFrame, updateTime
        <3>2. CASE dirty /\ joined
            <4>1. chan' = Append(chan, constructMessage(server))
                BY <1>3, <2>1, <3>2 DEF ServerFrame
            <4>2. Typed'
                BY <1>0, <1>3, <2>1, <2>2, <4>1, AppendFacts DEF IInv, Typed, ServerFrame
            <4>3. NotInFuture'
                BY <1>0, <1>3, <2>2, <3>1, <4>1, AppendFacts DEF IInv, NotInFuture, ServerFrame
            <4> QED BY <4>2, <4>3
        <3>3. CASE ~(dirty /\ joined)
            BY <1>3, <2>1, <3>1, <3>3 DEF IInv, Typed, NotInFuture, ServerFrame
        <3> QED BY <3>2, <3>3
    <2>4. FollowsServer'
        <3>1. CASE dirty /\ joined
            <4>1. chan' = Append(chan, constructMessage(server))
                BY <1>3, <2>1, <3>1 DEF ServerFrame
            <4>2. chan'[Len(chan')] = constructMessage(server) /\ chan' # <<>>
                BY <1>0, <2>2, <4>1, AppendFacts
            <4>3. Newest' = constructMessage(server')
                BY <2>1, <4>2 DEF Newest
            <4> QED BY <4>3 DEF FollowsServer, constructMessage
        <3>2. CASE joined /\ ~dirty
            <4>1. Newest = constructMessage(server)
                BY <3>2 DEF IInv, FollowsServer
            <4>2. Newest' = Newest
                BY <1>3, <3>2 DEF ServerFrame, Newest, constructMessage
            <4> QED BY <2>1, <4>1, <4>2 DEF FollowsServer, constructMessage
        <3>3. CASE ~joined
            BY <1>3, <3>3 DEF FollowsServer, ServerFrame
        <3> QED BY <3>1, <3>2, <3>3
    <2>5. NotAhead'
        <3>1. wall' = wall /\ server'.jd \in Int
            BY <1>3, <2>1, ConstantsTyped DEF ServerFrame
        <3>2. Shown(server, wall)' = server'.jd
            BY <2>1, <3>1 DEF Shown, Elapsed
        <3> QED BY <3>1, <3>2 DEF NotAhead
    <2> QED BY <2>3, <2>4, <2>5 DEF IInv
<1>4. CASE Join
    <2>1. constructMessage(server) \in Message /\ constructMessage(server).since = server.since
        BY <1>0, ConstructFacts
    <2>2. chan' = Append(chan, constructMessage(server))
        BY <1>0, <1>4, <2>1 DEF Join, NewClientState
    <2>3. Typed'
        BY <1>0, <1>4, <2>1, <2>2, AppendFacts DEF IInv, Typed, Join
    <2>4. NotInFuture'
        BY <1>0, <1>4, <2>1, <2>2, AppendFacts DEF IInv, NotInFuture, Join
    <2>5. Newest' = constructMessage(server) /\ server' = server
        BY <1>0, <1>4, <2>1, <2>2, AppendFacts DEF Newest, Join
    <2>6. NotAhead'
        BY <1>4 DEF IInv, NotAhead, Join, Shown, Elapsed
    <2> QED BY <2>3, <2>4, <2>5, <2>6 DEF IInv, FollowsServer, constructMessage
<1>5. CASE ClientReceive
    <2>1. /\ chan' = Tail(chan) /\ chan # <<>>
          /\ client' = handleMessage(client, Head(chan), ClientWall)
          /\ UNCHANGED <<server, dirty, joined, wall, changes>>
        BY <1>5 DEF ClientReceive
    <2>2. Head(chan) \in Message
        BY <1>0, <2>1, TailFacts
    <2>3. /\ client' \in [jd : Days, base : Days, since : Int, rate : Int]
          /\ constructMessage(client') = Head(chan)
        BY <1>0, <2>1, <2>2, HandleFacts
    <2>4. Typed'
        BY <1>0, <2>1, <2>3, TailFacts DEF IInv, Typed
    <2>5. NotInFuture'
        BY <1>0, <2>1, TailFacts DEF IInv, NotInFuture
    <2>6. Newest' = Newest
        <3>1. CASE Len(chan) = 1
            BY <1>0, <2>1, <2>3, <3>1, TailFacts DEF Newest
        <3>2. CASE Len(chan) # 1
            <4>1. Tail(chan) # <<>> /\ Tail(chan)[Len(Tail(chan))] = chan[Len(chan)]
                BY <1>0, <2>1, <3>2, TailFacts
            <4> QED BY <2>1, <4>1 DEF Newest
        <3> QED BY <3>1, <3>2
    <2>7. FollowsServer'
        BY <2>1, <2>6 DEF IInv, FollowsServer, constructMessage
    <2>8. NotAhead'
        BY <2>1 DEF IInv, NotAhead, Shown, Elapsed
    <2> QED BY <2>4, <2>5, <2>7, <2>8 DEF IInv
<1>6. CASE ClientFrame
    <2>1. /\ client' \in [jd : Days, base : Days, since : Int, rate : Int]
          /\ constructMessage(client') = constructMessage(client)
        BY <1>0, <1>6, UpdateFacts DEF ClientFrame
    <2>2. Typed' /\ NotInFuture' /\ NotAhead'
        BY <1>6, <2>1 DEF IInv, Typed, NotInFuture, NotAhead, Shown, Elapsed, ClientFrame
    <2>3. Newest' = Newest
        BY <1>6, <2>1 DEF Newest, ClientFrame
    <2>4. FollowsServer'
        BY <1>6, <2>3 DEF IInv, FollowsServer, constructMessage, ClientFrame
    <2> QED BY <2>2, <2>4 DEF IInv
<1>7. CASE Tick
    <2>1. /\ wall' = wall + 1 /\ wall < MaxWall
          /\ UNCHANGED <<server, client, dirty, joined, chan, changes>>
        BY <1>7 DEF Tick
    <2>2. Typed'
        BY <1>0, <2>1, ConstantsTyped DEF IInv, Typed
    <2>3. NotInFuture'
        <3>1. server.since <= wall + 1
            BY <1>0 DEF IInv, NotInFuture
        <3>2. ASSUME NEW i \in 1..Len(chan) PROVE chan[i].since <= wall + 1
            <4>1. chan[i].since \in Nat
                BY <1>0, ElementFacts
            <4>2. chan[i].since <= wall
                BY DEF IInv, NotInFuture
            <4> QED BY <1>0, <4>1, <4>2
        <3> QED BY <2>1, <3>1, <3>2 DEF NotInFuture
    <2>4. FollowsServer'
        BY <2>1 DEF IInv, FollowsServer, Newest, constructMessage
    <2>5. NotAhead'
        <3> SUFFICES ASSUME server.rate >= 0, server.jd <= Latest
                     PROVE  server.jd <= Shown(server, wall + 1)
            BY <2>1 DEF NotAhead, Shown, Elapsed
        <3> DEFINE p == (wall - server.since) * server.rate
                   q == ((wall + 1) - server.since) * server.rate
                   a == server.base + p
                   b == server.base + q
        <3>1. server.base \in Int /\ server.jd \in Int
            BY <1>0, ConstantsTyped
        <3>2. p \in Int
            BY <1>0
        <3>3. q = p + server.rate
            BY <1>0
        <3> HIDE DEF p, q
        <3>4. a \in Int /\ b \in Int /\ a <= b
            BY <1>0, <3>1, <3>2, <3>3
        <3> HIDE DEF a, b
        <3>5. Limited(a) <= Limited(b) /\ Limited(a) \in Int /\ Limited(b) \in Int
            BY <3>4, LimitedFacts
        <3>6. Shown(server, wall) = Limited(a) /\ Shown(server, wall + 1) = Limited(b)
            <4>1. Shown(server, wall) = Limited(server.base + (wall - server.since) * server.rate)
                BY ShownIs, Zenon
            <4>2. Shown(server, wall + 1)
                    = Limited(server.base + ((wall + 1) - server.since) * server.rate)
                BY ShownIs, Zenon
            <4> QED BY <4>1, <4>2, Zenon DEF a, b, p, q
        <3>7. server.jd <= Limited(a)
            BY <3>6 DEF IInv, NotAhead
        <3> QED BY <3>1, <3>5, <3>6, <3>7
    <2> QED BY <2>2, <2>3, <2>4, <2>5 DEF IInv
<1>8. CASE UNCHANGED vars
    BY <1>8 DEF IInv, Typed, NotInFuture, FollowsServer, NotAhead, Newest, constructMessage,
                Shown, Elapsed, vars
<1> QED BY <1>1, <1>2, <1>3, <1>4, <1>5, <1>6, <1>7, <1>8 DEF Next

LEMMA Invariance == Spec => []IInv
BY InitInv, StepInv, PTL DEF Spec

\* The variables stay in their domains: a client never shows a day that is neither
\* chosen on a server nor within the limits, and no change is dated in the future.
THEOREM TypeCorrect == Spec => []TypeOK
<1>1. IInv => TypeOK
    <2> SUFFICES ASSUME IInv PROVE TypeOK
        OBVIOUS
    <2>1. server \in Clock /\ client \in Clock
        BY ConstantsTyped DEF IInv, Typed, Clock
    <2>2. server.since \in 0..wall
        BY ConstantsTyped DEF IInv, Typed, NotInFuture
    <2>3. \A i \in 1..Len(chan) : chan[i].since \in 0..wall
        <3> SUFFICES ASSUME NEW i \in 1..Len(chan) PROVE chan[i].since \in 0..wall
            OBVIOUS
        <3>1. chan[i].since \in Nat
            BY ElementFacts DEF IInv, Typed
        <3>2. chan[i].since <= wall
            BY DEF IInv, NotInFuture
        <3>3. wall \in Nat
            BY ConstantsTyped DEF IInv, Typed
        <3> QED BY <3>1, <3>2, <3>3
    <2> QED BY <2>1, <2>2, <2>3 DEF IInv, Typed, TypeOK
<1> QED BY <1>1, Invariance, PTL

\* Once all messages are handled the client computes its time from the server's
\* variables, so that only the skew of the system clocks keeps them apart.
THEOREM ClientShowsServerTime == Spec => []SameTime
<1>1. IInv => SameTime
    <2> SUFFICES ASSUME IInv, Settled, NEW w \in wall..(wall + Horizon)
                 PROVE  Magnitude(Shown(client, w + Skew) - Shown(server, w))
                          <= Magnitude(Skew * server.rate)
        BY DEF SameTime
    <2>1. constructMessage(client) = constructMessage(server)
        BY DEF IInv, FollowsServer, Settled, Newest
    <2>2. client.base = server.base /\ client.since = server.since /\ client.rate = server.rate
        BY <2>1 DEF constructMessage
    <2>3. server.base \in Int /\ server.since \in Int /\ server.rate \in Int /\ w \in Int /\ Skew \in Int
        BY ConstantsTyped DEF IInv, Typed
    <2> DEFINE a == server.base + (w - server.since) * server.rate
               b == server.base + ((w + Skew) - server.since) * server.rate
               k == Skew * server.rate
    <2>4. (w - server.since) * server.rate \in Int /\ k \in Int
        BY <2>3
    <2>5. ((w + Skew) - server.since) * server.rate = (w - server.since) * server.rate + k
        BY <2>3
    <2>6. a \in Int /\ b \in Int /\ b - a = k
        BY <2>3, <2>4, <2>5
    <2>7. Shown(client, w + Skew) = Limited(b) /\ Shown(server, w) = Limited(a)
        <3>1. Shown(client, w + Skew)
                = Limited(client.base + ((w + Skew) - client.since) * client.rate)
            BY ShownIs, Zenon
        <3>2. Shown(server, w) = Limited(server.base + (w - server.since) * server.rate)
            BY ShownIs, Zenon
        <3> QED BY <2>2, <3>1, <3>2, Zenon
    <2> HIDE DEF a, b, k
    <2>8. Magnitude(Limited(b) - Limited(a)) <= Magnitude(k)
        <3>1. Limited(a) \in Int /\ Limited(b) \in Int
            BY <2>6, LimitedFacts
        <3>2. CASE a <= b
            <4>1. Limited(a) <= Limited(b) /\ Limited(b) - Limited(a) <= b - a
                BY <2>6, <3>2, LimitedFacts
            <4> QED BY <2>4, <2>6, <3>1, <4>1 DEF Magnitude
        <3>3. CASE b <= a
            <4>1. Limited(b) <= Limited(a) /\ Limited(a) - Limited(b) <= a - b
                BY <2>6, <3>3, LimitedFacts
            <4> QED BY <2>4, <2>6, <3>1, <4>1 DEF Magnitude
        <3> QED BY <2>6, <3>2, <3>3
    <2> QED BY <2>7, <2>8 DEF k
<1> QED BY <1>1, Invariance, PTL

\* The server's time never goes back but when its user chooses a day.
THEOREM ServerNeverBack == Spec => NeverBack
<1>1. IInv /\ [Next]_vars =>
        [(server.rate >= 0 /\ server.jd <= Latest /\ server'.jd < server.jd) => SetJD]_vars
    <2> SUFFICES ASSUME IInv, Next, server.rate >= 0, server.jd <= Latest, ~SetJD
                 PROVE  ~(server'.jd < server.jd)
        OBVIOUS
    <2>0. server.jd \in Int
        BY ConstantsTyped DEF IInv, Typed
    <2>1. CASE SetTimeRate
        <3>1. server'.jd = server.jd
            BY <2>1 DEF SetTimeRate, Change, setTimeRate, resetSync, IInv, Typed
        <3> QED BY <2>0, <3>1
    <2>2. CASE ServerFrame
        <3>1. server'.jd = Shown(server, wall) /\ Shown(server, wall) \in Int
            BY <2>2, UpdateFacts, ConstantsTyped DEF ServerFrame, IInv, Typed
        <3>2. server.jd <= Shown(server, wall)
            BY DEF IInv, NotAhead
        <3> QED BY <2>0, <3>1, <3>2
    <2>3. CASE Join \/ ClientReceive \/ ClientFrame \/ Tick
        <3>1. server' = server
            BY <2>3 DEF Join, ClientReceive, ClientFrame, Tick
        <3> QED BY <2>0, <3>1
    <2> QED BY <2>1, <2>2, <2>3 DEF Next
<1> QED BY <1>1, Invariance, PTL DEF Spec, NeverBack
================================================================================
