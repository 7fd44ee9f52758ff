--------------------------- MODULE Lx200Queue_proofs ---------------------------
(*****************************************************************************)
(* Proofs about Lx200Queue, for every value of the times and any number of   *)
(* commands: the invariant of the queue, whose answers are read, and the     *)
(* format of the telescope.  First what the operations on sequences do to    *)
(* the places of a kind of command and to their number.                      *)
(*****************************************************************************)
EXTENDS Lx200Queue, SequenceTheorems, FiniteSetTheorems, FunctionTheorems, TLAPS

At(l, k) == {i \in DOMAIN l : l[i].kind = k}
One(S)   == \A i, j \in S : i = j

\* The part of the invariant that is about the queue alone.
Listed(l, n) ==
    /\ l \in Seq(Command)
    /\ \A i \in DOMAIN l : /\ l[i].written => i = 1
                           /\ l[i].short => l[i].written /\ l[i].kind = "Slew"
    /\ n = Cardinality(At(l, "Slew"))

\* Places are few.
LEMMA AtFinite ==
    ASSUME NEW l \in Seq(Command), NEW k
    PROVE  /\ At(l, k) \subseteq 1 .. Len(l) /\ IsFiniteSet(At(l, k))
           /\ Cardinality(At(l, k)) \in Nat
<1>1. DOMAIN l = 1 .. Len(l) /\ Len(l) \in Nat
  BY LenProperties
<1>2. At(l, k) \in SUBSET (1 .. Len(l))
  BY <1>1 DEF At
<1>3. IsFiniteSet(1 .. Len(l))
  BY <1>1, FS_Interval
<1>4. IsFiniteSet(At(l, k))
  BY <1>2, <1>3, FS_Subset
<1> QED
  BY <1>2, <1>4, FS_CardinalityType

LEMMA ListedEmpty == Listed(<<>>, 0) /\ \A k : At(<<>>, k) = {}
<1>1. \A k : At(<<>>, k) = {}
  BY DEF At
<1>2. <<>> \in Seq(Command)
  BY EmptySeq
<1> QED
  BY <1>1, <1>2, FS_EmptySet DEF Listed

\* The front command leaves.
LEMMA TailAt ==
    ASSUME NEW l \in Seq(Command), l # <<>>
    PROVE  /\ Head(l) \in Command /\ Head(l) = l[1] /\ 1 \in DOMAIN l
           /\ Tail(l) \in Seq(Command)
           /\ \A i \in DOMAIN Tail(l) : i # 0 /\ i + 1 \in DOMAIN l /\ i + 1 # 1 /\ Tail(l)[i] = l[i + 1]
           /\ \A k : \A i \in At(Tail(l), k) : i \in Nat /\ i + 1 \in At(l, k) \ {1}
           /\ \A k : \A i \in At(l, k) : i \in Nat /\ (i # 1 => i - 1 \in At(Tail(l), k))
<1>1. /\ Head(l) \in Command /\ Head(l) = l[1] /\ Tail(l) \in Seq(Command)
      /\ Len(Tail(l)) = Len(l) - 1
      /\ \A i \in 1 .. Len(Tail(l)) : Tail(l)[i] = l[i + 1]
  BY HeadTailProperties
<1>2. /\ Len(l) \in Nat /\ Len(l) > 0 /\ DOMAIN l = 1 .. Len(l)
      /\ DOMAIN Tail(l) = 1 .. (Len(l) - 1)
  BY <1>1, LenProperties, EmptySeq
<1>3. \A i \in DOMAIN Tail(l) : i # 0 /\ i + 1 \in DOMAIN l /\ i + 1 # 1 /\ Tail(l)[i] = l[i + 1]
  BY <1>1, <1>2
<1>4. \A k : \A i \in At(Tail(l), k) : i \in Nat /\ i + 1 \in At(l, k) \ {1}
  BY <1>2, <1>3 DEF At
<1>5. ASSUME NEW k, NEW i \in At(l, k)
      PROVE  i \in Nat /\ (i # 1 => i - 1 \in At(Tail(l), k))
  <2>1. i \in 1 .. Len(l) /\ l[i].kind = k
    BY <1>2 DEF At
  <2>2. ASSUME i # 1 PROVE i - 1 \in At(Tail(l), k)
    <3>1. i - 1 \in 1 .. (Len(l) - 1) /\ (i - 1) + 1 = i
      BY <1>2, <2>1, <2>2
    <3>2. Tail(l)[i - 1] = l[i]
      BY <1>1, <1>2, <3>1
    <3> QED
      BY <1>2, <2>1, <3>1, <3>2 DEF At
  <2> QED
    BY <2>1, <2>2
<1> QED
  BY <1>1, <1>2, <1>3, <1>4, <1>5

LEMMA TailCount ==
    ASSUME NEW l \in Seq(Command), l # <<>>, NEW k
    PROVE  Cardinality(At(Tail(l), k)) =
             Cardinality(At(l, k)) - (IF Head(l).kind = k THEN 1 ELSE 0)
<1> DEFINE T == At(l, k) \ {1}
           f == [i \in At(Tail(l), k) |-> i + 1]
<1>1. f \in [At(Tail(l), k) -> T]
  BY TailAt
<1>2. \A i, j \in At(Tail(l), k) : f[i] = f[j] => i = j
  BY TailAt
<1>3. \A j \in T : \E i \in At(Tail(l), k) : f[i] = j
  <2>1. TAKE j \in T
  <2>2. j \in Nat /\ j - 1 \in At(Tail(l), k)
    BY TailAt
  <2>3. f[j - 1] = j
    BY <2>2
  <2> QED
    BY <2>2, <2>3
<1>4. ExistsBijection(At(Tail(l), k), T)
  <2>1. f \in Bijection(At(Tail(l), k), T)
    BY <1>1, <1>2, <1>3, Fun_IsBij
  <2> QED
    BY <2>1 DEF ExistsBijection
<1>5. IsFiniteSet(At(l, k)) /\ IsFiniteSet(At(Tail(l), k))
  BY AtFinite, TailAt
<1>6. Cardinality(T) = Cardinality(At(Tail(l), k))
  BY <1>4, <1>5, FS_Bijection
<1>7. Cardinality(T) = IF 1 \in At(l, k) THEN Cardinality(At(l, k)) - 1 ELSE Cardinality(At(l, k))
  BY <1>5, FS_RemoveElement
<1>8. 1 \in At(l, k) <=> Head(l).kind = k
  BY TailAt DEF At
<1>9. Cardinality(At(l, k)) \in Nat
  BY AtFinite
<1> QED
  BY <1>6, <1>7, <1>8, <1>9

LEMMA ListedTail ==
    ASSUME NEW l, NEW n, Listed(l, n), l # <<>>
    PROVE  /\ Listed(Tail(l), n - (IF Head(l).kind = "Slew" THEN 1 ELSE 0))
           /\ \A i \in DOMAIN Tail(l) : ~Tail(l)[i].written /\ ~Tail(l)[i].short
           /\ Head(l) \in Command
<1>1. l \in Seq(Command) /\ n = Cardinality(At(l, "Slew"))
  BY DEF Listed
<1>2. \A i \in DOMAIN l : l[i].written => i = 1
  BY DEF Listed
<1>3. \A i \in DOMAIN l : l[i].short => l[i].written
  BY DEF Listed
<1>4. \A i \in DOMAIN Tail(l) : ~Tail(l)[i].written /\ ~Tail(l)[i].short
  BY <1>1, <1>2, <1>3, TailAt
<1>5. Tail(l) \in Seq(Command) /\ Head(l) \in Command
  BY <1>1, TailAt
<1>6. Cardinality(At(Tail(l), "Slew")) = n - (IF Head(l).kind = "Slew" THEN 1 ELSE 0)
  BY <1>1, TailCount
<1> QED
  BY <1>4, <1>5, <1>6 DEF Listed

\* What a Tail does to the commands of a kind there is one of.
LEMMA OneTail ==
    ASSUME NEW l \in Seq(Command), l # <<>>, NEW k, One(At(l, k))
    PROVE  /\ One(At(Tail(l), k))
           /\ Head(l).kind = k => At(Tail(l), k) = {}
           /\ Head(l).kind # k => (At(Tail(l), k) = {} <=> At(l, k) = {})
<1>1. /\ \A i \in At(Tail(l), k) : i \in Nat /\ i + 1 \in At(l, k) \ {1}
      /\ \A i \in At(l, k) : i \in Nat /\ (i # 1 => i - 1 \in At(Tail(l), k))
      /\ 1 \in At(l, k) <=> Head(l).kind = k
  BY TailAt DEF At
<1>2. One(At(Tail(l), k))
  <2>1. ASSUME NEW i \in At(Tail(l), k), NEW j \in At(Tail(l), k) PROVE i = j
    <3>1. i \in Nat /\ j \in Nat /\ i + 1 = j + 1
      BY <1>1 DEF One
    <3> QED
      BY <3>1
  <2> QED
    BY <2>1 DEF One
<1>3. Head(l).kind = k => At(Tail(l), k) = {}
  BY <1>1 DEF One
<1>4. Head(l).kind # k => (At(Tail(l), k) = {} <=> At(l, k) = {})
  BY <1>1
<1> QED
  BY <1>2, <1>3, <1>4

\* A new command is put behind the others.
LEMMA ListedAppend ==
    ASSUME NEW l, NEW n, Listed(l, n), NEW e \in Command, ~e.written, ~e.short
    PROVE  /\ Append(l, e) # <<>> /\ Append(l, e) \in Seq(Command)
           /\ Listed(Append(l, e), n + (IF e.kind = "Slew" THEN 1 ELSE 0))
           /\ Head(Append(l, e)) = IF l = <<>> THEN e ELSE Head(l)
           /\ At(Append(l, e), e.kind) = At(l, e.kind) \union {Len(l) + 1}
           /\ \A k : k # e.kind => At(Append(l, e), k) = At(l, k)
<1> DEFINE m == Append(l, e)
<1>1. l \in Seq(Command) /\ n = Cardinality(At(l, "Slew"))
  BY DEF Listed
<1>2. /\ m \in Seq(Command) /\ m # <<>> /\ Len(m) = Len(l) + 1
      /\ \A i \in 1 .. Len(l) : m[i] = l[i]
      /\ m[Len(l) + 1] = e
  BY <1>1, AppendProperties
<1>3. DOMAIN l = 1 .. Len(l) /\ Len(l) \in Nat /\ DOMAIN m = 1 .. (Len(l) + 1)
  BY <1>1, <1>2, LenProperties
<1> HIDE DEF m
<1>4. At(m, e.kind) = At(l, e.kind) \union {Len(l) + 1}
  BY <1>2, <1>3 DEF At
<1>5. \A k : k # e.kind => At(m, k) = At(l, k)
  BY <1>2, <1>3 DEF At
<1>6. Cardinality(At(m, "Slew")) = n + (IF e.kind = "Slew" THEN 1 ELSE 0)
  <2>1. IsFiniteSet(At(l, "Slew")) /\ Len(l) + 1 \notin At(l, "Slew") /\ n \in Nat
    BY <1>1, <1>3, AtFinite
  <2>2. CASE e.kind = "Slew"
    <3>1. Cardinality(At(l, "Slew") \union {Len(l) + 1}) = n + 1
      BY <1>1, <2>1, FS_AddElement
    <3> QED
      BY <1>4, <2>2, <3>1
  <2>3. CASE e.kind # "Slew"
    BY <1>1, <1>5, <2>1, <2>3
  <2> QED
    BY <2>2, <2>3
<1>7. \A i \in DOMAIN m : /\ m[i].written => i = 1
                          /\ m[i].short => m[i].written /\ m[i].kind = "Slew"
  BY <1>2, <1>3 DEF Listed
<1>8. Head(m) = IF l = <<>> THEN e ELSE Head(l)
  <2>1. Head(m) = m[1] /\ (l # <<>> => Head(l) = l[1] /\ Len(l) > 0)
    BY <1>1, <1>2, TailAt, EmptySeq
  <2>2. l = <<>> => Len(l) = 0
    BY EmptySeq
  <2> QED
    BY <1>2, <1>3, <2>1, <2>2
<1>9. Listed(m, n + (IF e.kind = "Slew" THEN 1 ELSE 0))
  BY <1>2, <1>6, <1>7 DEF Listed
<1> QED
  BY <1>2, <1>4, <1>5, <1>8, <1>9 DEF m

LEMMA ListedAppendOther ==
    ASSUME NEW l, NEW n, Listed(l, n), NEW e \in Command, ~e.written, ~e.short, e.kind # "Slew"
    PROVE  /\ Append(l, e) # <<>> /\ Append(l, e) \in Seq(Command) /\ Listed(Append(l, e), n)
           /\ Head(Append(l, e)) = IF l = <<>> THEN e ELSE Head(l)
           /\ At(Append(l, e), e.kind) = At(l, e.kind) \union {Len(l) + 1}
           /\ \A k : k # e.kind => At(Append(l, e), k) = At(l, k)
<1>1. n \in Nat
  BY AtFinite DEF Listed
<1>2. n + (IF e.kind = "Slew" THEN 1 ELSE 0) = n
  BY <1>1
<1>3. Listed(Append(l, e), n + (IF e.kind = "Slew" THEN 1 ELSE 0))
  BY ListedAppend
<1>4. Listed(Append(l, e), n)
  BY <1>2, <1>3
<1> QED
  BY <1>4, ListedAppend

LEMMA ConcatTwo ==
    ASSUME NEW S, NEW s \in Seq(S), NEW a \in S, NEW b \in S
    PROVE  s \o <<a, b>> = Append(Append(s, a), b)
<1>1. <<a, b>> \in Seq(S) /\ Len(<<a, b>>) = 2
  OBVIOUS
<1> DEFINE t == s \o <<a, b>>
           u == Append(Append(s, a), b)
<1>2. /\ t \in Seq(S) /\ Len(t) = Len(s) + 2
      /\ \A i \in 1 .. Len(s) + 2 : t[i] = IF i <= Len(s) THEN s[i] ELSE <<a, b>>[i - Len(s)]
  BY <1>1, ConcatProperties
<1>3. Len(s) \in Nat
  BY LenProperties
<1>4. /\ Append(s, a) \in Seq(S) /\ Len(Append(s, a)) = Len(s) + 1
      /\ \A i \in 1 .. Len(s) : Append(s, a)[i] = s[i]
      /\ Append(s, a)[Len(s) + 1] = a
  BY AppendProperties
<1>5. /\ u \in Seq(S) /\ Len(u) = (Len(s) + 1) + 1
      /\ \A i \in 1 .. Len(s) + 1 : u[i] = Append(s, a)[i]
      /\ u[(Len(s) + 1) + 1] = b
  BY <1>4, AppendProperties
<1> HIDE DEF t, u
<1>6. \A i \in 1 .. Len(t) : t[i] = u[i]
  <2>1. TAKE i \in 1 .. Len(t)
  <2>2. CASE i <= Len(s)
    BY <1>2, <1>3, <1>4, <1>5, <2>2
  <2>3. CASE i = Len(s) + 1
    BY <1>2, <1>3, <1>4, <1>5, <2>3
  <2>4. CASE i = Len(s) + 2
    BY <1>2, <1>3, <1>4, <1>5, <2>4
  <2> QED
    BY <1>2, <1>3, <2>2, <2>3, <2>4
<1>7. t = u
  BY <1>2, <1>3, <1>5, <1>6, SeqEqual
<1> QED
  BY <1>7 DEF t, u

\* The question for the position is put behind the others.
Poll(l) == l \o <<New("GetRa"), New("GetDec")>>
LEMMA NewCommand == \A k \in Kind : /\ New(k) \in Command /\ New(k).kind = k
                                    /\ ~New(k).written /\ ~New(k).short
  BY DEF New, Command
LEMMA Kinds == {"StopSlew", "ToggleFormat", "Set", "Slew", "GetRa", "GetDec"} \subseteq Kind
  BY DEF Kind, Silent

LEMMA ListedPoll ==
    ASSUME NEW l, NEW n, Listed(l, n), At(l, "GetDec") = {}
    PROVE  /\ Listed(Poll(l), n) /\ Poll(l) # <<>>
           /\ Head(Poll(l)) = IF l = <<>> THEN New("GetRa") ELSE Head(l)
           /\ One(At(Poll(l), "GetDec")) /\ At(Poll(l), "GetDec") # {}
<1> DEFINE a == New("GetRa")
           b == New("GetDec")
<1>1. /\ a \in Command /\ ~a.written /\ ~a.short /\ a.kind = "GetRa"
      /\ b \in Command /\ ~b.written /\ ~b.short /\ b.kind = "GetDec"
  BY NewCommand, Kinds
<1>2. l \in Seq(Command) /\ n \in Nat
  BY AtFinite DEF Listed
<1> HIDE DEF a, b
<1> DEFINE m == Append(l, a)
           q == Append(m, b)
<1>3. /\ m # <<>> /\ m \in Seq(Command) /\ Listed(m, n)
      /\ Head(m) = IF l = <<>> THEN a ELSE Head(l)
      /\ At(m, "GetDec") = {}
  BY <1>1, <1>2, ListedAppendOther
<1> HIDE DEF m
<1>4. /\ q # <<>> /\ Listed(q, n) /\ Head(q) = Head(m)
      /\ At(q, "GetDec") = {Len(m) + 1}
  <2>1. At(q, b.kind) = At(m, b.kind) \union {Len(m) + 1}
    BY <1>1, <1>3, ListedAppendOther
  <2>2. q # <<>> /\ Listed(q, n) /\ Head(q) = Head(m)
    BY <1>1, <1>3, ListedAppendOther
  <2> QED
    BY <1>1, <1>3, <2>1, <2>2
<1>5. Poll(l) = q
  BY <1>1, <1>2, ConcatTwo DEF Poll, a, b, m
<1> HIDE DEF q
<1> QED
  BY <1>3, <1>4, <1>5 DEF One, a

\* The commands of a slew are put behind the others.
LEMMA ListedSlew ==
    ASSUME NEW l, NEW n, Listed(l, n)
    PROVE  /\ Listed(l \o Slewing, n + 1) /\ l \o Slewing # <<>>
           /\ Head(l \o Slewing) = IF l = <<>> THEN New("StopSlew") ELSE Head(l)
           /\ At(l \o Slewing, "GetDec") = At(l, "GetDec")
<1> DEFINE a == New("StopSlew")
           b == New("Set")
           c == New("Slew")
<1>1. /\ a \in Command /\ ~a.written /\ ~a.short /\ a.kind = "StopSlew"
      /\ b \in Command /\ ~b.written /\ ~b.short /\ b.kind = "Set"
      /\ c \in Command /\ ~c.written /\ ~c.short /\ c.kind = "Slew"
  BY NewCommand, Kinds
<1>2. l \in Seq(Command) /\ n \in Nat
  BY AtFinite DEF Listed
<1>3. l \o Slewing = (l \o <<a, b>>) \o <<b, c>>
  <2>1. /\ <<a, b>> \in Seq(Command) /\ <<b, c>> \in Seq(Command)
    BY <1>1
  <2>2. Slewing = <<a, b>> \o <<b, c>>
    BY DEF Slewing
  <2> QED
    BY <1>2, <2>1, <2>2, ConcatAssociative
<1> HIDE DEF a, b, c
<1> DEFINE m1 == Append(l, a)
           m2 == Append(m1, b)
           m3 == Append(m2, b)
           m4 == Append(m3, c)
<1>4. /\ m1 # <<>> /\ m1 \in Seq(Command) /\ Listed(m1, n)
      /\ Head(m1) = IF l = <<>> THEN a ELSE Head(l)
      /\ At(m1, "GetDec") = At(l, "GetDec")
  <2>1. "GetDec" # a.kind
    BY <1>1
  <2>2. \A k : k # a.kind => At(m1, k) = At(l, k)
    BY <1>1, ListedAppendOther
  <2>3. /\ m1 # <<>> /\ m1 \in Seq(Command) /\ Listed(m1, n)
        /\ Head(m1) = IF l = <<>> THEN a ELSE Head(l)
    BY <1>1, ListedAppendOther
  <2> QED
    BY <2>1, <2>2, <2>3
<1>5. l \o <<a, b>> = m2
  BY <1>1, <1>2, ConcatTwo
<1> HIDE DEF m1
<1>6. /\ m2 # <<>> /\ m2 \in Seq(Command) /\ Listed(m2, n)
      /\ Head(m2) = Head(m1) /\ At(m2, "GetDec") = At(m1, "GetDec")
  <2>1. "GetDec" # b.kind
    BY <1>1
  <2>2. \A k : k # b.kind => At(m2, k) = At(m1, k)
    BY <1>1, <1>4, ListedAppendOther
  <2>3. m2 # <<>> /\ m2 \in Seq(Command) /\ Listed(m2, n) /\ Head(m2) = Head(m1)
    BY <1>1, <1>4, ListedAppendOther
  <2> QED
    BY <2>1, <2>2, <2>3
<1> HIDE DEF m2
<1>7. m2 \o <<b, c>> = m4
  BY <1>1, <1>6, ConcatTwo
<1>8. /\ m3 # <<>> /\ m3 \in Seq(Command) /\ Listed(m3, n)
      /\ Head(m3) = Head(m2) /\ At(m3, "GetDec") = At(m2, "GetDec")
  <2>1. "GetDec" # b.kind
    BY <1>1
  <2>2. \A k : k # b.kind => At(m3, k) = At(m2, k)
    BY <1>1, <1>6, ListedAppendOther
  <2>3. m3 # <<>> /\ m3 \in Seq(Command) /\ Listed(m3, n) /\ Head(m3) = Head(m2)
    BY <1>1, <1>6, ListedAppendOther
  <2> QED
    BY <2>1, <2>2, <2>3
<1> HIDE DEF m3
<1>9. /\ m4 # <<>> /\ Listed(m4, n + 1)
      /\ Head(m4) = Head(m3) /\ At(m4, "GetDec") = At(m3, "GetDec")
  <2>1. Listed(m4, n + (IF c.kind = "Slew" THEN 1 ELSE 0))
    BY <1>1, <1>8, ListedAppend
  <2>2. Listed(m4, n + 1)
    BY <1>1, <2>1
  <2>3. \A k : k # c.kind => At(m4, k) = At(m3, k)
    BY <1>1, <1>8, ListedAppend
  <2>4. m4 # <<>> /\ Head(m4) = Head(m3)
    BY <1>1, <1>8, ListedAppend
  <2>5. "GetDec" # c.kind
    BY <1>1
  <2> QED
    BY <2>2, <2>3, <2>4, <2>5
<1> HIDE DEF m4
<1>10. l \o Slewing = m4
  BY <1>3, <1>5, <1>7
<1> QED
  BY <1>4, <1>6, <1>8, <1>9, <1>10 DEF a

\* The front command is written, and its first byte comes.
LEMMA ListedWritten ==
    ASSUME NEW l, NEW n, Listed(l, n), l # <<>>
    PROVE  /\ Listed([l EXCEPT ![1].written = TRUE], n)
           /\ [l EXCEPT ![1].written = TRUE] # <<>>
           /\ Head([l EXCEPT ![1].written = TRUE]).written
           /\ Head([l EXCEPT ![1].written = TRUE]).kind = Head(l).kind
           /\ Head([l EXCEPT ![1].written = TRUE]).short = Head(l).short
           /\ \A k : At([l EXCEPT ![1].written = TRUE], k) = At(l, k)
<1> DEFINE m == [l EXCEPT ![1].written = TRUE]
           e == [l[1] EXCEPT !.written = TRUE]
<1>1. l \in Seq(Command) /\ 1 \in DOMAIN l /\ l[1] \in Command /\ Head(l) = l[1]
  BY TailAt DEF Listed
<1>2. e \in Command /\ e.kind = l[1].kind /\ e.written = TRUE /\ e.short = l[1].short
  BY <1>1 DEF Command
<1>3. DOMAIN l = 1 .. Len(l) /\ Len(l) \in Nat
  BY <1>1, LenProperties
<1>4. m = [l EXCEPT ![1] = e]
  BY <1>1
<1> HIDE DEF e, m
<1>5. /\ m \in Seq(Command) /\ Len(m) = Len(l)
      /\ \A j \in 1 .. Len(l) : m[j] = IF j = 1 THEN e ELSE l[j]
  BY <1>1, <1>2, <1>3, <1>4, ExceptSeq
<1>6. DOMAIN m = DOMAIN l /\ m # <<>> /\ m[1] = e
  BY <1>1, <1>3, <1>5, LenProperties, EmptySeq
<1>7. \A k : At(m, k) = At(l, k)
  BY <1>2, <1>3, <1>5, <1>6 DEF At
<1>8. Head(m) = e
  BY <1>5, <1>6, TailAt
<1>9. \A i \in DOMAIN m : /\ m[i].written => i = 1
                          /\ m[i].short => m[i].written /\ m[i].kind = "Slew"
  BY <1>2, <1>3, <1>5, <1>6 DEF Listed
<1>10. n = Cardinality(At(m, "Slew"))
  BY <1>7 DEF Listed
<1>11. Listed(m, n)
  BY <1>5, <1>9, <1>10 DEF Listed
<1> QED
  BY <1>1, <1>2, <1>6, <1>7, <1>8, <1>11 DEF m

LEMMA ListedShort ==
    ASSUME NEW l, NEW n, Listed(l, n), l # <<>>, Head(l).written,
           NEW b \in BOOLEAN, b => Head(l).kind = "Slew"
    PROVE  /\ Listed([l EXCEPT ![1].short = b], n)
           /\ [l EXCEPT ![1].short = b] # <<>>
           /\ Head([l EXCEPT ![1].short = b]).written
           /\ Head([l EXCEPT ![1].short = b]).kind = Head(l).kind
           /\ \A k : At([l EXCEPT ![1].short = b], k) = At(l, k)
<1> DEFINE m == [l EXCEPT ![1].short = b]
           e == [l[1] EXCEPT !.short = b]
<1>1. l \in Seq(Command) /\ 1 \in DOMAIN l /\ l[1] \in Command /\ Head(l) = l[1]
  BY TailAt DEF Listed
<1>2. /\ e \in Command /\ e.kind = l[1].kind /\ e.written /\ (e.short => e.kind = "Slew")
  BY <1>1 DEF Command
<1>3. DOMAIN l = 1 .. Len(l) /\ Len(l) \in Nat
  BY <1>1, LenProperties
<1>4. m = [l EXCEPT ![1] = e]
  BY <1>1
<1> HIDE DEF e, m
<1>5. /\ m \in Seq(Command) /\ Len(m) = Len(l)
      /\ \A j \in 1 .. Len(l) : m[j] = IF j = 1 THEN e ELSE l[j]
  BY <1>1, <1>2, <1>3, <1>4, ExceptSeq
<1>6. DOMAIN m = DOMAIN l /\ m # <<>> /\ m[1] = e
  BY <1>1, <1>3, <1>5, LenProperties, EmptySeq
<1>7. \A k : At(m, k) = At(l, k)
  BY <1>2, <1>3, <1>5, <1>6 DEF At
<1>8. Head(m) = e
  BY <1>5, <1>6, TailAt
<1>9. \A i \in DOMAIN m : /\ m[i].written => i = 1
                          /\ m[i].short => m[i].written /\ m[i].kind = "Slew"
  BY <1>2, <1>3, <1>5, <1>6 DEF Listed
<1>10. n = Cardinality(At(m, "Slew"))
  BY <1>7 DEF Listed
<1>11. Listed(m, n)
  BY <1>5, <1>9, <1>10 DEF Listed
<1> QED
  BY <1>1, <1>2, <1>6, <1>7, <1>8, <1>11 DEF m

--------------------------------------------------------------------------------
\* The lines and the telescope: what is on its way has its type.
Asked    == [kind : Kind \ {"StopSlew"}, own : BOOLEAN]
Answers  == [what : What, own : BOOLEAN, long : BOOLEAN]
Awaiting == [kind : (Kind \ {"StopSlew"}) \union {"Rest"}, own : BOOLEAN, age : Nat]

LEMMA MapSeq ==
    ASSUME NEW S, NEW T, NEW s \in Seq(S), NEW f, DOMAIN f = DOMAIN s,
           f = [i \in DOMAIN f |-> f[i]], \A i \in DOMAIN s : f[i] \in T
    PROVE  f \in Seq(T)
<1>1. DOMAIN s = 1 .. Len(s) /\ Len(s) \in Nat
  BY LenProperties
<1>2. f \in [1 .. Len(s) -> T]
  BY <1>1
<1> QED
  BY <1>1, <1>2

LEMMA OrphanedType ==
    ASSUME NEW T, NEW s \in Seq(T), \A e \in T : [e EXCEPT !.own = FALSE] \in T
    PROVE  Orphaned(s) \in Seq(T)
<1>1. \A i \in DOMAIN s : s[i] \in T
  BY LenProperties, ElementOfSeq
<1> QED
  BY <1>1, MapSeq DEF Orphaned

LEMMA OrphanedTypes ==
    /\ \A s \in Seq(Asked) : Orphaned(s) \in Seq(Asked)
    /\ \A s \in Seq(Answers) : Orphaned(s) \in Seq(Answers)
    /\ \A s \in Seq(Awaiting) : Orphaned(s) \in Seq(Awaiting)
    /\ Orphaned(<<>>) = <<>>
<1>1. \A e \in Asked : [e EXCEPT !.own = FALSE] \in Asked
  BY DEF Asked
<1>2. \A e \in Answers : [e EXCEPT !.own = FALSE] \in Answers
  BY DEF Answers
<1>3. \A e \in Awaiting : [e EXCEPT !.own = FALSE] \in Awaiting
  BY DEF Awaiting
<1>4. Orphaned(<<>>) = <<>>
  BY DEF Orphaned
<1>5. \A s \in Seq(Asked) : Orphaned(s) \in Seq(Asked)
  BY <1>1, OrphanedType
<1>6. \A s \in Seq(Answers) : Orphaned(s) \in Seq(Answers)
  BY <1>2, OrphanedType
<1>7. \A s \in Seq(Awaiting) : Orphaned(s) \in Seq(Awaiting)
  BY <1>3, OrphanedType
<1> QED
  BY <1>4, <1>5, <1>6, <1>7

\* What readAnswerFromBuffer leaves in the buffer has its type, and only a slew
\* is answered in two parts.
Proper(r, c) == /\ r.rc \in {1, 0, -1} /\ r.rest \in Seq(Answers)
                /\ r.short \in BOOLEAN /\ (r.short => c.kind = "Slew")

LEMMA OutcomeProper ==
    ASSUME NEW n \in {1, 0, -1}, NEW s \in Seq(Answers), NEW b \in BOOLEAN, NEW c,
           b => c.kind = "Slew"
    PROVE  Proper(Outcome(n, s, b), c)
  BY DEF Proper, Outcome

LEMMA LeftType ==
    ASSUME NEW s \in Seq(Answers), s # <<>>
    PROVE  /\ s[1] \in Answers /\ Tail(s) \in Seq(Answers)
           /\ Left(s, "text") \in Seq(Answers)
<1>1. s[1] \in Answers /\ Tail(s) \in Seq(Answers)
  BY HeadTailProperties
<1> DEFINE a == [s[1] EXCEPT !.what = "text"]
<1>2. a \in Answers
  BY <1>1 DEF Answers, What
<1> HIDE DEF a
<1>3. <<a>> \in Seq(Answers)
  BY <1>2
<1>4. <<a>> \o Tail(s) \in Seq(Answers)
  BY <1>1, <1>3, ConcatProperties
<1> QED
  BY <1>1, <1>4 DEF Left, a

LEMMA ToHashProper ==
    ASSUME NEW s \in Seq(Answers), NEW c, c.kind = "Slew", NEW r \in ToHash(s)
    PROVE  Proper(r, c)
<1>1. CASE FirstHash(s) = {}
  BY <1>1, OutcomeProper DEF ToHash
<1>2. CASE FirstHash(s) # {}
  <2>1. PICK i \in FirstHash(s) : r = Outcome(1, SubSeq(s, i + 1, Len(s)), TRUE)
    BY <1>2 DEF ToHash
  <2>2. i \in 1 .. Len(s) /\ Len(s) \in Nat
    BY LenProperties DEF FirstHash
  <2>3. \A j \in i + 1 .. Len(s) : s[j] \in Answers
    BY <2>2, ElementOfSeq
  <2>4. SubSeq(s, i + 1, Len(s)) \in Seq(Answers)
    BY <2>2, <2>3, SubSeqProperties
  <2> QED
    BY <2>1, <2>4, OutcomeProper
<1> QED
  BY <1>1, <1>2

LEMMA OutcomesProper ==
    ASSUME NEW c \in Command, c.short => c.kind = "Slew", NEW s \in Seq(Answers),
           NEW r \in Outcomes(c, s)
    PROVE  Proper(r, c)
<1>1. c.kind \in Kind /\ c.short \in BOOLEAN /\ <<>> \in Seq(Answers)
  BY EmptySeq DEF Command
<1>2. CASE c.kind \in Silent
  <2>1. r = Outcome(1, s, FALSE)
    BY <1>2 DEF Outcomes
  <2> QED
    BY <2>1, OutcomeProper
<1>3. CASE c.kind \notin Silent /\ s = <<>>
  <2>1. r = Outcome(0, s, c.short)
    BY <1>3 DEF Outcomes
  <2> QED
    BY <1>1, <2>1, OutcomeProper
<1>4. CASE c.kind \notin Silent /\ s # <<>>
  <2>1. /\ s[1].what \in What /\ Tail(s) \in Seq(Answers) /\ Left(s, "text") \in Seq(Answers)
    BY <1>4, LeftType DEF Answers
  <2>2. CASE c.kind = "Set"
    <3>1. r \in ReadSet(s)
      BY <1>4, <2>2 DEF Outcomes, Silent
    <3>2. r \in {Outcome(1, Tail(s), FALSE), Outcome(1, Left(s, "text"), FALSE),
                 Outcome(1, s, FALSE)}
      BY <2>1, <3>1 DEF ReadSet, What
    <3> QED
      BY <2>1, <3>2, OutcomeProper
  <2>3. CASE c.kind = "Slew"
    <3>1. r \in ReadSlew(s, c.short)
      BY <1>4, <2>3 DEF Outcomes, Silent
    <3>2. \/ r \in ToHash(s)
          \/ r \in {Outcome(1, Tail(s), TRUE), Outcome(0, <<>>, TRUE),
                    Outcome(1, Left(s, "text"), TRUE), Outcome(-1, s, TRUE)}
      BY <3>1 DEF ReadSlew
    <3> QED
      BY <1>1, <2>1, <2>3, <3>2, OutcomeProper, ToHashProper
  <2>4. CASE c.kind \in {"GetRa", "GetDec"}
    <3>1. PICK w : r \in ReadPosition(s, w)
      BY <1>4, <2>4 DEF Outcomes, Silent
    <3>2. r \in {Outcome(1, Tail(s), FALSE), Outcome(0, s, FALSE), Outcome(-1, s, FALSE)}
      BY <3>1 DEF ReadPosition
    <3> QED
      BY <2>1, <3>2, OutcomeProper
  <2> QED
    BY <1>1, <1>4, <2>2, <2>3, <2>4 DEF Kind
<1> QED
  BY <1>2, <1>3, <1>4

--------------------------------------------------------------------------------
\* The inductive invariant: QueueInv in the words of the lemmas, and that an
\* answer is looked at only for a command that is there.
Lines == arrived \in Seq(Answers) /\ due \in Seq(Awaiting) /\ out \in Seq(Asked)
Flags == /\ longUsed \in BOOLEAN /\ ready \in BOOLEAN /\ format \in BOOLEAN
         /\ misread \in BOOLEAN /\ unruly \in BOOLEAN
Clocks == /\ timeLeft \in Int /\ quiet \in Nat /\ pollWait \in Nat
          /\ sinceFrame \in 0 .. Gap
Control == /\ pc \in {"idle", "send", "frame", "write", "read", "answer"}
           /\ poll \in BOOLEAN
PollKept == /\ One(At(list, "GetDec"))
            /\ ~poll <=> At(list, "GetDec") # {}
HasFront == pc = "answer" => list # <<>>
Inv == /\ Lines /\ Flags /\ Clocks /\ Control
       /\ Listed(list, gotos) /\ gotos <= 2
       /\ PollKept /\ WaitIsTimed /\ QuietIsQuiet /\ HasFront

LEMMA InvQueue == Inv => QueueInv
<1> SUFFICES ASSUME Inv PROVE QueueInv
  OBVIOUS
<1>1. list \in Seq(Command) /\ gotos = Cardinality(At(list, "Slew")) /\ gotos <= 2
  BY DEF Inv, Listed
<1>2. gotos \in Nat
  BY <1>1, AtFinite
<1>3. TypeOK
  BY <1>1, <1>2 DEF Inv, Lines, Flags, Clocks, Control, TypeOK, Asked, Answers, Awaiting
<1>4. FrontIsWritten
  BY DEF Inv, Listed, FrontIsWritten
<1>5. \A k : Places(k) = At(list, k)
  BY DEF Places, At
<1>6. GotosAreCounted /\ PollIsQueued
  BY <1>1, <1>5 DEF GotosAreCounted, PollIsQueued, Inv, PollKept, One
<1> QED
  BY <1>3, <1>4, <1>6 DEF QueueInv, Inv

LEMMA InitInv == Init => Inv
<1> SUFFICES ASSUME Init PROVE Inv
  OBVIOUS
<1>1. Lines
  BY EmptySeq DEF Init, Lines
<1>2. Flags
  BY Zenon DEF Init, Flags
<1>6. Control
  <2>1. poll \in BOOLEAN
    BY Zenon DEF Init
  <2>2. pc = "idle"
    BY DEF Init
  <2> QED
    BY <2>1, <2>2 DEF Control
<1>3. Clocks
  BY TimesAssumption DEF Init, Clocks, Forever
<1>4. Listed(list, gotos) /\ gotos <= 2 /\ PollKept
  BY ListedEmpty DEF Init, PollKept, One
<1>5. WaitIsTimed /\ QuietIsQuiet /\ HasFront
  BY DEF Init, WaitIsTimed, Waits, QuietIsQuiet, HasFront, Forever
<1> QED
  BY <1>1, <1>2, <1>3, <1>4, <1>5, <1>6 DEF Inv

\* What the queue is read for.
LEMMA InvFacts ==
    ASSUME Inv
    PROVE  /\ list \in Seq(Command) /\ gotos \in Nat
           /\ list # <<>> => /\ Head(list) \in Command /\ Head(list).kind \in Kind
                             /\ Head(list).written \in BOOLEAN /\ Head(list).short \in BOOLEAN
                             /\ Head(list).short => Head(list).written /\ Head(list).kind = "Slew"
<1>1. list \in Seq(Command) /\ gotos = Cardinality(At(list, "Slew"))
  BY DEF Inv, Listed
<1>2. gotos \in Nat
  BY <1>1, AtFinite
<1>3. ASSUME list # <<>>
      PROVE  /\ Head(list) \in Command
             /\ Head(list).short => Head(list).written /\ Head(list).kind = "Slew"
  <2>1. Head(list) \in Command /\ Head(list) = list[1] /\ 1 \in DOMAIN list
    BY <1>1, <1>3, TailAt
  <2> QED
    BY <2>1 DEF Inv, Listed
<1>4. list # <<>> => /\ Head(list).kind \in Kind
                     /\ Head(list).written \in BOOLEAN /\ Head(list).short \in BOOLEAN
  BY <1>3 DEF Command
<1> QED
  BY <1>1, <1>2, <1>3, <1>4

LEMMA TimeoutRuns ==
    ASSUME NEW k \in Kind
    PROVE  /\ Timeout(k) \in Int /\ Forever \in Int
           /\ Timeout(k) < Forever <=> k \notin Silent
  BY TimesAssumption DEF Timeout, Forever, Kind, Silent

\* A command is added to write_buff.
LEMMA WrittenType ==
    ASSUME NEW k \in Kind, NEW s \in Seq(Asked)
    PROVE  Written(k, s) \in Seq(Asked)
<1>1. CASE k = "StopSlew"
  BY <1>1 DEF Written
<1>2. CASE k # "StopSlew"
  <2> DEFINE e == [kind |-> k, own |-> k # "ToggleFormat"]
  <2>1. (k # "ToggleFormat") \in BOOLEAN
    BY Zenon
  <2>2. e \in Asked
    BY <1>2, <2>1 DEF Asked
  <2>3. Written(k, s) = Append(s, e)
    BY <1>2 DEF Written
  <2> HIDE DEF e
  <2> QED
    BY <2>2, <2>3, AppendProperties
<1> QED
  BY <1>1, <1>2

LEMMA ResetInv ==
    ASSUME Inv, Reset, pc' \in {"idle", "write"}, ready' \in BOOLEAN, format' \in BOOLEAN,
           misread' \in BOOLEAN, unruly' \in BOOLEAN, sinceFrame' \in 0 .. Gap
    PROVE  Inv'
<1>1. /\ list' = <<>> /\ gotos' = 0 /\ out' = <<>> /\ arrived' = <<>> /\ due' = Orphaned(due)
      /\ pollWait' = 0 /\ timeLeft' = Forever /\ quiet' = QuietTime
  BY DEF Reset, Cleared, AsAtFirst
<1>2. longUsed' = FALSE /\ poll' = TRUE
  BY DEF Reset, Cleared, AsAtFirst
<1>3. longUsed' \in BOOLEAN /\ poll' \in BOOLEAN
  BY <1>2, Zenon
<1>4. Lines'
  BY <1>1, EmptySeq, OrphanedTypes DEF Inv, Lines
<1>5. Flags' /\ Control'
  BY <1>3 DEF Flags, Control
<1>6. Clocks'
  BY <1>1, TimesAssumption DEF Clocks, Forever
<1>7. Listed(list', gotos') /\ gotos' <= 2
  BY <1>1, ListedEmpty
<1>8. PollKept'
  BY <1>1, <1>2, ListedEmpty DEF PollKept, One
<1>9. WaitIsTimed' /\ QuietIsQuiet' /\ HasFront'
  BY <1>1, <1>2 DEF WaitIsTimed, Waits, QuietIsQuiet, HasFront, Forever
<1> QED
  BY <1>4, <1>5, <1>6, <1>7, <1>8, <1>9 DEF Inv

LEMMA SendSlewInv == Inv /\ SendSlew => Inv'
<1> SUFFICES ASSUME Inv, SendSlew PROVE Inv'
  OBVIOUS
<1>1. /\ list' = list \o Slewing /\ gotos' = gotos + 1 /\ gotos <= 1 /\ pc' = "send"
      /\ UNCHANGED <<poll, longUsed, timeLeft, quiet, pollWait, out, arrived, ready,
                     due, format, misread, unruly, sinceFrame>>
  BY DEF SendSlew, times, buffers, telescope, history
<1>2. /\ Listed(list', gotos') /\ list' # <<>>
      /\ Head(list') = IF list = <<>> THEN New("StopSlew") ELSE Head(list)
      /\ At(list', "GetDec") = At(list, "GetDec")
  BY <1>1, ListedSlew DEF Inv
<1>3. gotos' <= 2
  BY <1>1, InvFacts
<1>4. Lines' /\ Flags' /\ Clocks' /\ Control'
  BY <1>1 DEF Inv, Lines, Flags, Clocks, Control
<1>5. PollKept' /\ HasFront'
  BY <1>1, <1>2 DEF Inv, PollKept, HasFront
<1>6. ~New("StopSlew").written
  BY NewCommand, Kinds
<1>7. WaitIsTimed' /\ QuietIsQuiet'
  BY <1>1, <1>2, <1>6 DEF Inv, WaitIsTimed, Waits, QuietIsQuiet, Forever
<1> QED
  BY <1>2, <1>3, <1>4, <1>5, <1>7 DEF Inv

LEMMA FrameInv == Inv /\ Frame => Inv'
<1> SUFFICES ASSUME Inv, Frame PROVE Inv'
  OBVIOUS
<1>1. /\ pc' = "frame" /\ sinceFrame' = 0
      /\ UNCHANGED <<gotos, longUsed, timeLeft, quiet, out, arrived, ready, due,
                     format, misread, unruly>>
  BY DEF Frame, buffers, telescope, history
<1>2. CASE poll /\ pollWait = 0
  <2>1. list' = Poll(list) /\ poll' = FALSE /\ pollWait' = PollPause
    BY <1>2 DEF Frame, Poll
  <2>2. /\ Listed(list', gotos') /\ list' # <<>>
        /\ Head(list') = IF list = <<>> THEN New("GetRa") ELSE Head(list)
        /\ One(At(list', "GetDec")) /\ At(list', "GetDec") # {}
    BY <1>1, <1>2, <2>1, ListedPoll DEF Inv, PollKept
  <2>3. poll' \in BOOLEAN
    BY <2>1, Zenon
  <2>4. Lines' /\ Flags' /\ Control'
    BY <1>1, <2>3 DEF Inv, Lines, Flags, Control
  <2>5. Clocks'
    BY <1>1, <2>1, TimesAssumption DEF Inv, Clocks
  <2>6. PollKept' /\ HasFront'
    BY <1>1, <2>1, <2>2 DEF PollKept, HasFront
  <2>7. ~New("GetRa").written
    BY NewCommand, Kinds
  <2>8. WaitIsTimed' /\ QuietIsQuiet'
    BY <1>1, <2>2, <2>7 DEF Inv, WaitIsTimed, Waits, QuietIsQuiet, Forever
  <2> QED
    BY <1>1, <2>2, <2>4, <2>5, <2>6, <2>8 DEF Inv
<1>3. CASE ~(poll /\ pollWait = 0)
  <2>1. UNCHANGED <<list, poll, pollWait>>
    BY <1>3 DEF Frame
  <2>2. Clocks'
    BY <1>1, <2>1, TimesAssumption DEF Inv, Clocks
  <2> QED
    BY <1>1, <2>1, <2>2 DEF Inv, Lines, Flags, Control, PollKept, WaitIsTimed, Waits,
                            QuietIsQuiet, HasFront, Forever
<1> QED
  BY <1>2, <1>3

\* What remains of the queue when its front command leaves.
LEMMA FrontLeaves ==
    ASSUME Inv, list # <<>>
    PROVE  /\ Listed(Tail(list), GotosWithoutFront) /\ GotosWithoutFront <= 2
           /\ Tail(list) # <<>> => ~Head(Tail(list)).written
           /\ One(At(Tail(list), "GetDec"))
           /\ Head(list).kind = "GetDec" => At(Tail(list), "GetDec") = {}
           /\ Head(list).kind # "GetDec" =>
                (At(Tail(list), "GetDec") = {} <=> At(list, "GetDec") = {})
<1>1. /\ Listed(list, gotos) /\ gotos <= 2 /\ gotos \in Nat /\ list \in Seq(Command)
      /\ One(At(list, "GetDec"))
  BY InvFacts DEF Inv, PollKept
<1>2. /\ Listed(Tail(list), gotos - (IF Head(list).kind = "Slew" THEN 1 ELSE 0))
      /\ \A i \in DOMAIN Tail(list) : ~Tail(list)[i].written
  BY <1>1, ListedTail
<1>3. Listed(Tail(list), GotosWithoutFront)
  BY <1>2 DEF GotosWithoutFront
<1>4. GotosWithoutFront <= 2
  BY <1>1 DEF GotosWithoutFront
<1>5. Tail(list) \in Seq(Command)
  BY <1>1, TailAt
<1>6. Tail(list) # <<>> => ~Head(Tail(list)).written
  BY <1>2, <1>5, TailAt
<1> QED
  BY <1>1, <1>3, <1>4, <1>6, OneTail

LEMMA FlushInv == Inv /\ Flush => Inv'
<1> SUFFICES ASSUME Inv, Flush PROVE Inv'
  OBVIOUS
<1> DEFINE k == Head(list).kind
<1>1. /\ pc \in {"send", "frame"} /\ list # <<>> /\ ~Head(list).written /\ quiet = 0
      /\ out' = Written(k, out) /\ timeLeft' = Timeout(k)
      /\ UNCHANGED <<gotos, poll, longUsed, quiet, pollWait, arrived, ready, due, format,
                     misread, unruly, pc, sinceFrame>>
  BY DEF Flush, CanWrite, telescope, history
<1>2. list' = IF k \in Silent THEN Tail(list) ELSE [list EXCEPT ![1].written = TRUE]
  BY DEF Flush
<1>3. k \in Kind
  BY <1>1, InvFacts
<1> HIDE DEF k
<1>4. out' \in Seq(Asked)
  BY <1>1, <1>3, WrittenType DEF Inv, Lines
<1>5. Lines' /\ Flags' /\ Control'
  BY <1>1, <1>4 DEF Inv, Lines, Flags, Control
<1>6. timeLeft' \in Int /\ (timeLeft' < Forever <=> k \notin Silent)
  BY <1>1, <1>3, TimeoutRuns
<1>7. Clocks'
  BY <1>1, <1>6 DEF Inv, Clocks
<1>8. QuietIsQuiet' /\ HasFront'
  BY <1>1 DEF QuietIsQuiet, HasFront
<1>9. CASE k \in Silent
  <2>1. list' = Tail(list) /\ k # "Slew" /\ k # "GetDec" /\ ~(timeLeft' < Forever)
    BY <1>2, <1>6, <1>9 DEF Silent
  <2>2. GotosWithoutFront = gotos
    BY <2>1, InvFacts DEF GotosWithoutFront, k
  <2>3. /\ Listed(list', gotos') /\ gotos' <= 2 /\ PollKept'
        /\ list' # <<>> => ~Head(list').written
    BY <1>1, <2>1, <2>2, FrontLeaves DEF Inv, PollKept, k
  <2>4. WaitIsTimed'
    BY <2>1, <2>3 DEF WaitIsTimed, Waits, Forever
  <2> QED
    BY <1>5, <1>7, <1>8, <2>3, <2>4 DEF Inv
<1>10. CASE k \notin Silent
  <2>1. list' = [list EXCEPT ![1].written = TRUE]
    BY <1>2, <1>10
  <2>2. /\ Listed(list', gotos') /\ list' # <<>> /\ Head(list').written
        /\ Head(list').kind = k /\ At(list', "GetDec") = At(list, "GetDec")
    BY <1>1, <2>1, ListedWritten DEF Inv, k
  <2>3. gotos' <= 2 /\ PollKept'
    BY <1>1, <2>2 DEF Inv, PollKept
  <2>4. WaitIsTimed'
    BY <1>6, <1>10, <2>2 DEF WaitIsTimed, Waits, Forever
  <2> QED
    BY <1>5, <1>7, <1>8, <2>2, <2>3, <2>4 DEF Inv
<1> QED
  BY <1>9, <1>10

LEMMA CheckTimeoutInv == Inv /\ CheckTimeout => Inv'
<1> SUFFICES ASSUME Inv, CheckTimeout PROVE Inv'
  OBVIOUS
<1>1. pc' = "write" /\ UNCHANGED <<ready, format, misread, unruly, sinceFrame>>
  BY DEF CheckTimeout, history
<1>2. CASE list = <<>> \/ timeLeft >= 0
  <2>1. UNCHANGED <<list, gotos, poll, longUsed, timeLeft, quiet, pollWait, out,
                    arrived, due>>
    BY <1>2 DEF CheckTimeout, queue, times
  <2> QED
    BY <1>1, <2>1 DEF Inv, Lines, Flags, Clocks, Control, PollKept, WaitIsTimed, Waits,
                      QuietIsQuiet, HasFront, Forever
<1>3. CASE ~(list = <<>> \/ timeLeft >= 0) /\ Head(list).short
  <2>1. /\ list # <<>> /\ gotos' = GotosWithoutFront /\ list' = Tail(list)
        /\ timeLeft' = Forever /\ due' = Orphaned(due) /\ arrived' = Orphaned(arrived)
        /\ out' = Orphaned(out)
        /\ UNCHANGED <<quiet, poll, pollWait, longUsed>>
    BY <1>3 DEF CheckTimeout
  <2>2. Head(list).kind # "GetDec"
    BY <1>3, <2>1, InvFacts
  <2>3. /\ Listed(list', gotos') /\ gotos' <= 2 /\ PollKept'
        /\ list' # <<>> => ~Head(list').written
    BY <2>1, <2>2, FrontLeaves DEF Inv, PollKept
  <2>4. Lines'
    BY <2>1, OrphanedTypes DEF Inv, Lines
  <2>5. Flags' /\ Control' /\ HasFront'
    BY <1>1, <2>1 DEF Inv, Flags, Control, HasFront
  <2>6. Clocks' /\ WaitIsTimed'
    BY <1>1, <2>1, <2>3, TimesAssumption DEF Inv, Clocks, WaitIsTimed, Waits, Forever
  <2>7. QuietIsQuiet'
    BY <2>1, <2>3, OrphanedTypes DEF Inv, QuietIsQuiet
  <2> QED
    BY <2>3, <2>4, <2>5, <2>6, <2>7 DEF Inv
<1>4. CASE ~(list = <<>> \/ timeLeft >= 0) /\ ~Head(list).short
  <2>1. Reset
    BY <1>4 DEF CheckTimeout
  <2>2. /\ pc' \in {"idle", "write"} /\ ready' \in BOOLEAN /\ format' \in BOOLEAN
        /\ misread' \in BOOLEAN /\ unruly' \in BOOLEAN /\ sinceFrame' \in 0 .. Gap
    BY <1>1 DEF Inv, Flags, Clocks
  <2> QED
    BY <2>1, <2>2, ResetInv
<1> QED
  BY <1>2, <1>3, <1>4

LEMMA WriteInv == Inv /\ Write => Inv'
<1> SUFFICES ASSUME Inv, Write PROVE Inv'
  OBVIOUS
<1> DEFINE sent == [i \in DOMAIN out |-> [kind |-> out[i].kind, own |-> out[i].own, age |-> 0]]
<1>1. /\ pc' = "read" /\ due' = due \o sent /\ out' = <<>>
      /\ UNCHANGED <<list, gotos, poll, longUsed, timeLeft, quiet, pollWait, arrived, ready,
                     format, misread, unruly, sinceFrame>>
  BY DEF Write, queue, times, history
<1>2. sent \in Seq(Awaiting)
  <2>1. \A i \in DOMAIN out : sent[i] \in Awaiting
    <3>1. TAKE i \in DOMAIN out
    <3>2. out[i] \in Asked
      BY LenProperties, ElementOfSeq DEF Inv, Lines
    <3> QED
      BY <3>2 DEF Asked, Awaiting
  <2>2. out \in Seq(Asked)
    BY DEF Inv, Lines
  <2> QED
    BY <2>1, <2>2, MapSeq
<1> HIDE DEF sent
<1>3. Lines'
  BY <1>1, <1>2, EmptySeq, ConcatProperties DEF Inv, Lines
<1>4. Flags' /\ Control' /\ Clocks'
  BY <1>1 DEF Inv, Flags, Control, Clocks
<1> QED
  BY <1>1, <1>3, <1>4 DEF Inv, PollKept, WaitIsTimed, Waits, QuietIsQuiet, HasFront, Forever

LEMMA ReadInv == Inv /\ Read => Inv'
<1> SUFFICES ASSUME Inv, Read PROVE Inv'
  OBVIOUS
<1>1. ready' = FALSE /\ UNCHANGED <<format, misread, unruly, sinceFrame>>
  BY DEF Read, history
<1>2. ready' \in BOOLEAN
  BY <1>1, Zenon
<1>3. quiet \in Nat
  BY DEF Inv, Clocks
<1>4. CASE pc' = "idle" /\ Reset
  <2>1. /\ pc' \in {"idle", "write"} /\ format' \in BOOLEAN
        /\ misread' \in BOOLEAN /\ unruly' \in BOOLEAN /\ sinceFrame' \in 0 .. Gap
    BY <1>1, <1>4 DEF Inv, Flags, Clocks
  <2> QED
    BY <1>2, <1>4, <2>1, ResetInv
<1>5. ASSUME pc' = "idle" \/ (pc' = "answer" /\ list # <<>>),
             arrived' \in {arrived, <<>>}, UNCHANGED <<queue, out, due>>
      PROVE  Inv'
  <2>1. UNCHANGED <<list, gotos, poll, longUsed, timeLeft, quiet, pollWait, out, due>>
    BY <1>5 DEF queue, times
  <2>2. Lines'
    BY <1>5, <2>1, EmptySeq DEF Inv, Lines
  <2>3. Flags' /\ Control' /\ Clocks' /\ HasFront'
    BY <1>1, <1>2, <1>5, <2>1 DEF Inv, Flags, Control, Clocks, HasFront
  <2> QED
    BY <2>1, <2>2, <2>3 DEF Inv, PollKept, WaitIsTimed, Waits, QuietIsQuiet, Forever
<1>6. CASE ~ready
  BY <1>5, <1>6 DEF Read
<1>7. CASE ready /\ list = <<>>
  BY <1>3, <1>4, <1>5, <1>7 DEF Read
<1>8. CASE ready /\ list # <<>>
  BY <1>5, <1>8 DEF Read
<1> QED
  BY <1>6, <1>7, <1>8

\* The front command has its answer, and the next one is written.
LEMMA AnsweredInv ==
    ASSUME Inv, list # <<>>, Head(list).written, NEW r, r.rest \in Seq(Answers), Answered(r),
           UNCHANGED <<ready, format, unruly, sinceFrame>>, misread' \in BOOLEAN
    PROVE  Inv'
<1> DEFINE c == Head(list)
           queued == Tail(list) \o (IF Toggles(c) THEN <<New("ToggleFormat")>> ELSE <<>>)
           next == queued # <<>> /\ quiet = 0
<1>1. /\ gotos' = GotosWithoutFront
      /\ list' = IF next THEN [queued EXCEPT ![1].written = TRUE] ELSE queued
      /\ timeLeft' = IF next THEN Timeout(Head(queued).kind) ELSE Forever
      /\ arrived' = Orphaned(r.rest) /\ due' = Orphaned(due)
      /\ pc' = IF next THEN "answer" ELSE "idle"
      /\ UNCHANGED <<quiet, pollWait>>
  BY DEF Answered
<1>2. /\ longUsed' = (longUsed \/ Asks(c)) /\ poll' = (poll \/ c.kind = "GetDec")
  BY DEF Answered
<1>3. out' = IF next THEN Written(Head(queued).kind, Orphaned(out)) ELSE Orphaned(out)
  BY DEF Answered
<1>4. quiet = 0
  BY DEF Inv, QuietIsQuiet, Clocks
<1>5. /\ Listed(Tail(list), gotos') /\ gotos' <= 2 /\ gotos' \in Nat /\ Tail(list) \in Seq(Command)
      /\ Tail(list) # <<>> => ~Head(Tail(list)).written
      /\ One(At(Tail(list), "GetDec"))
      /\ c.kind = "GetDec" => At(Tail(list), "GetDec") = {}
      /\ c.kind # "GetDec" => (At(Tail(list), "GetDec") = {} <=> At(list, "GetDec") = {})
  <2>1. Listed(Tail(list), gotos')
    BY <1>1, FrontLeaves
  <2> QED
    BY <1>1, <2>1, FrontLeaves, AtFinite DEF Listed
<1> HIDE DEF c
<1>6. /\ Listed(queued, gotos') /\ (queued # <<>> => ~Head(queued).written)
      /\ At(queued, "GetDec") = At(Tail(list), "GetDec")
  <2>1. CASE Toggles(c)
    <3> DEFINE e == New("ToggleFormat")
    <3>1. e \in Command /\ ~e.written /\ ~e.short /\ e.kind = "ToggleFormat"
      BY NewCommand, Kinds
    <3> HIDE DEF e
    <3>2. queued = Append(Tail(list), e)
      BY <1>5, <2>1, <3>1, AppendIsConcat DEF e
    <3>3. /\ Listed(Append(Tail(list), e), gotos')
          /\ Head(Append(Tail(list), e)) = IF Tail(list) = <<>> THEN e ELSE Head(Tail(list))
          /\ \A k : k # e.kind => At(Append(Tail(list), e), k) = At(Tail(list), k)
      BY <1>5, <3>1, ListedAppendOther
    <3>4. At(Append(Tail(list), e), "GetDec") = At(Tail(list), "GetDec")
      <4>1. "GetDec" # e.kind
        BY <3>1
      <4> QED
        BY <3>3, <4>1
    <3> HIDE DEF queued
    <3> QED
      BY <1>5, <3>1, <3>2, <3>3, <3>4
  <2>2. CASE ~Toggles(c)
    <3>1. queued = Tail(list)
      BY <1>5, <2>2, ConcatEmptySeq
    <3> QED
      BY <1>5, <3>1
  <2> QED
    BY <2>1, <2>2
<1> HIDE DEF queued
<1>7. longUsed' \in BOOLEAN /\ poll' \in BOOLEAN
  BY <1>2, Zenon
<1>8. Flags'
  BY <1>7 DEF Inv, Flags
<1>9. Orphaned(out) \in Seq(Asked) /\ arrived' \in Seq(Answers) /\ due' \in Seq(Awaiting)
  BY <1>1, OrphanedTypes DEF Inv, Lines
<1>10. QuietIsQuiet'
  BY <1>1, <1>4 DEF QuietIsQuiet
<1>11. ASSUME At(list', "GetDec") = At(Tail(list), "GetDec")
       PROVE  PollKept'
  <2>1. CASE c.kind = "GetDec"
    <3>1. poll' = TRUE
      BY <1>2, <2>1, Zenon
    <3> QED
      BY <1>5, <1>11, <2>1, <3>1 DEF PollKept, One
  <2>2. CASE c.kind # "GetDec"
    <3>1. poll' = poll
      BY <1>2, <2>2, Zenon DEF Inv, Control
    <3>2. At(list', "GetDec") = {} <=> At(list, "GetDec") = {}
      BY <1>5, <1>11, <2>2
    <3>3. One(At(list', "GetDec"))
      BY <1>5, <1>11
    <3> QED
      BY <3>1, <3>2, <3>3 DEF Inv, PollKept
  <2> QED
    BY <2>1, <2>2
<1>12. CASE next
  <2>1. /\ queued # <<>> /\ list' = [queued EXCEPT ![1].written = TRUE]
        /\ timeLeft' = Timeout(Head(queued).kind) /\ pc' = "answer"
        /\ out' = Written(Head(queued).kind, Orphaned(out))
    BY <1>1, <1>3, <1>12
  <2>2. /\ Listed(list', gotos') /\ list' # <<>> /\ Head(list').written
        /\ Head(list').kind = Head(queued).kind
        /\ At(list', "GetDec") = At(queued, "GetDec")
    BY <1>6, <2>1, ListedWritten
  <2>3. Head(queued).kind \in Kind
    BY <1>6, <2>1, TailAt DEF Listed, Command
  <2>4. timeLeft' \in Int /\ (timeLeft' < Forever <=> Head(queued).kind \notin Silent)
    BY <2>1, <2>3, TimeoutRuns
  <2>5. out' \in Seq(Asked)
    BY <1>9, <2>1, <2>3, WrittenType
  <2>6. Lines' /\ Control' /\ HasFront'
    BY <1>7, <1>9, <2>1, <2>2, <2>5 DEF Lines, Control, HasFront
  <2>7. Clocks'
    BY <1>1, <2>4 DEF Inv, Clocks
  <2>8. WaitIsTimed'
    BY <2>2, <2>4 DEF WaitIsTimed, Waits, Forever
  <2>9. PollKept'
    BY <1>6, <1>11, <2>2
  <2> QED
    BY <1>5, <1>8, <1>10, <2>2, <2>6, <2>7, <2>8, <2>9 DEF Inv
<1>13. CASE ~next
  <2>1. /\ list' = queued /\ timeLeft' = Forever /\ pc' = "idle" /\ out' = Orphaned(out)
    BY <1>1, <1>3, <1>13
  <2>2. Lines' /\ Control' /\ HasFront'
    BY <1>7, <1>9, <2>1 DEF Inv, Lines, Control, HasFront
  <2>3. Clocks' /\ WaitIsTimed'
    BY <1>1, <1>6, <2>1, TimesAssumption DEF Inv, Clocks, WaitIsTimed, Waits, Forever
  <2>4. PollKept' /\ Listed(list', gotos')
    BY <1>6, <1>11, <2>1
  <2> QED
    BY <1>5, <1>8, <1>10, <2>2, <2>3, <2>4 DEF Inv
<1> QED
  BY <1>12, <1>13

LEMMA ReadAnswerInv == Inv /\ ReadAnswer => Inv'
<1> SUFFICES ASSUME Inv, ReadAnswer PROVE Inv'
  OBVIOUS
<1>1. list # <<>> /\ UNCHANGED <<ready, format, unruly, sinceFrame>>
  BY DEF ReadAnswer, Inv, HasFront
<1>2. CASE ~Head(list).written
  <2>1. /\ arrived' = <<>> /\ pc' = "idle"
        /\ UNCHANGED <<list, gotos, poll, longUsed, timeLeft, quiet, pollWait, out,
                       due, misread>>
    BY <1>2 DEF ReadAnswer, queue, times
  <2>2. Lines' /\ Flags' /\ Clocks' /\ Control' /\ HasFront'
    BY <1>1, <2>1, EmptySeq DEF Inv, Lines, Flags, Clocks, Control, HasFront
  <2> QED
    BY <2>1, <2>2 DEF Inv, PollKept, WaitIsTimed, Waits, QuietIsQuiet, Forever
<1>3. CASE Head(list).written
  <2>1. misread' \in BOOLEAN
    BY <1>3, Zenon DEF ReadAnswer
  <2>2. PICK r \in Outcomes(Head(list), arrived) :
          CASE r.rc = 1  -> Answered(r)
            [] r.rc = 0  -> /\ list' = [list EXCEPT ![1].short = r.short]
                            /\ arrived' = r.rest /\ pc' = "idle"
                            /\ UNCHANGED <<gotos, poll, longUsed, times, out, due>>
            [] r.rc = -1 -> Reset /\ pc' = "idle"
    BY <1>3 DEF ReadAnswer
  <2>3. Proper(r, Head(list))
    BY <1>1, InvFacts, OutcomesProper DEF Inv, Lines
  <2>4. CASE r.rc = 1
    <3>1. Answered(r)
      BY <2>2, <2>4
    <3> QED
      BY <1>1, <1>3, <2>1, <2>3, <3>1, AnsweredInv DEF Proper
  <2>5. CASE r.rc = 0
    <3>1. /\ list' = [list EXCEPT ![1].short = r.short]
          /\ arrived' = r.rest /\ pc' = "idle"
          /\ UNCHANGED <<gotos, poll, longUsed, timeLeft, quiet, pollWait, out, due>>
      BY <2>2, <2>5 DEF times
    <3>2. /\ Listed(list', gotos') /\ list' # <<>> /\ Head(list').written
          /\ Head(list').kind = Head(list).kind
          /\ At(list', "GetDec") = At(list, "GetDec")
      BY <1>1, <1>3, <2>3, <3>1, ListedShort DEF Inv, Proper
    <3>3. Lines' /\ Flags' /\ Clocks' /\ Control' /\ HasFront'
      BY <1>1, <2>1, <2>3, <3>1 DEF Inv, Lines, Flags, Clocks, Control, HasFront, Proper
    <3>4. PollKept'
      BY <3>1, <3>2 DEF Inv, PollKept
    <3>5. WaitIsTimed' /\ QuietIsQuiet'
      BY <1>1, <1>3, <3>1, <3>2 DEF Inv, WaitIsTimed, Waits, QuietIsQuiet, Forever
    <3> QED
      BY <3>1, <3>2, <3>3, <3>4, <3>5 DEF Inv
  <2>6. CASE r.rc = -1
    <3>1. Reset /\ pc' = "idle"
      BY <2>2, <2>6
    <3>2. /\ ready' \in BOOLEAN /\ format' \in BOOLEAN /\ unruly' \in BOOLEAN
          /\ sinceFrame' \in 0 .. Gap /\ pc' \in {"idle", "write"}
      BY <1>1, <3>1 DEF Inv, Flags, Clocks
    <3> QED
      BY <2>1, <3>1, <3>2, ResetInv
  <2> QED
    BY <2>3, <2>4, <2>5, <2>6 DEF Proper
<1> QED
  BY <1>2, <1>3

--------------------------------------------------------------------------------
\* The telescope, the line and time leave the queue alone.
LEMMA OutsideInv ==
    ASSUME Inv, UNCHANGED <<list, gotos, poll, out, pc>>, Lines', Flags',
           Clocks', timeLeft' < Forever <=> timeLeft < Forever, quiet' > 0 => quiet > 0
    PROVE  Inv'
<1>1. Control' /\ HasFront' /\ PollKept'
  BY DEF Inv, Control, HasFront, PollKept
<1>2. WaitIsTimed'
  BY DEF Inv, WaitIsTimed, Waits, Forever
<1>3. QuietIsQuiet'
  BY DEF Inv, QuietIsQuiet
<1> QED
  BY <1>1, <1>2, <1>3 DEF Inv

LEMMA ArrivesType ==
    ASSUME NEW what \in What, NEW own \in BOOLEAN, arrived \in Seq(Answers), format \in BOOLEAN,
           Arrives(what, own)
    PROVE  arrived' \in Seq(Answers)
<1> DEFINE e == [what |-> what, own |-> own, long |-> what \in {"ra", "dec"} => format]
<1>1. (what \in {"ra", "dec"} => format) \in BOOLEAN
  BY Zenon
<1>2. e \in Answers
  BY <1>1 DEF Answers
<1>3. arrived' = Append(arrived, e)
  BY DEF Arrives
<1> QED
  BY <1>2, <1>3, AppendProperties

LEMMA AnswerInv == Inv /\ Answer => Inv'
<1> SUFFICES ASSUME Inv, Answer PROVE Inv'
  OBVIOUS
<1> DEFINE d == Head(due)
<1>1. /\ due # <<>> /\ Head(due).kind # "ToggleFormat" /\ ready' = TRUE
      /\ UNCHANGED <<list, gotos, poll, longUsed, timeLeft, quiet, pollWait, out,
                     format, misread, pc, sinceFrame>>
  BY DEF Answer, queue, times
<1>2. PICK what \in Replies(d.kind), more \in BOOLEAN :
        /\ Arrives(what, d.own)
        /\ due' = (IF more THEN <<[d EXCEPT !.kind = "Rest"]>> ELSE <<>>) \o Tail(due)
        /\ unruly' = (unruly \/ d.age > (IF d.kind \in {"Slew", "Rest"} THEN PromptSlew
                                                                        ELSE Prompt))
  BY DEF Answer
<1>3. d \in Awaiting /\ Tail(due) \in Seq(Awaiting) /\ due \in Seq(Awaiting)
  BY <1>1, HeadTailProperties DEF Inv, Lines
<1> HIDE DEF d
<1>4. what \in What
  <2>1. d.kind \in {"Set", "Slew", "GetRa", "GetDec", "Rest"}
    BY <1>1, <1>3 DEF d, Awaiting, Kind, Silent
  <2> QED
    BY <1>2, <2>1 DEF Replies, What
<1>5. arrived' \in Seq(Answers)
  <2>1. d.own \in BOOLEAN
    BY <1>3 DEF Awaiting
  <2> QED
    BY <1>2, <1>4, <2>1, ArrivesType DEF Inv, Lines, Flags
<1>6. due' \in Seq(Awaiting)
  <2>1. [d EXCEPT !.kind = "Rest"] \in Awaiting
    BY <1>3 DEF Awaiting
  <2>2. <<[d EXCEPT !.kind = "Rest"]>> \in Seq(Awaiting) /\ <<>> \in Seq(Awaiting)
    BY <2>1
  <2> QED
    BY <1>2, <1>3, <2>2, ConcatProperties
<1>7. unruly' \in BOOLEAN /\ ready' \in BOOLEAN
  BY <1>1, <1>2, Zenon
<1>8. Lines' /\ Flags' /\ Clocks'
  BY <1>1, <1>5, <1>6, <1>7 DEF Inv, Lines, Flags, Clocks
<1> QED
  BY <1>1, <1>8, OutsideInv DEF Forever

LEMMA DropInv == Inv /\ Drop => Inv'
<1> SUFFICES ASSUME Inv, Drop PROVE Inv'
  OBVIOUS
<1>1. /\ due # <<>> /\ due' = Tail(due)
      /\ UNCHANGED <<list, gotos, poll, longUsed, timeLeft, quiet, pollWait, out,
                     arrived, ready, format, misread, unruly, pc, sinceFrame>>
  BY DEF Drop, queue, times, buffers, history
<1>2. due' \in Seq(Awaiting)
  BY <1>1, HeadTailProperties DEF Inv, Lines
<1>3. Lines' /\ Flags' /\ Clocks'
  BY <1>1, <1>2 DEF Inv, Lines, Flags, Clocks
<1> QED
  BY <1>1, <1>3, OutsideInv DEF Forever

LEMMA SwitchInv == Inv /\ Switch => Inv'
<1> SUFFICES ASSUME Inv, Switch PROVE Inv'
  OBVIOUS
<1>1. /\ due # <<>> /\ due' = Tail(due)
      /\ UNCHANGED <<list, gotos, poll, longUsed, timeLeft, quiet, pollWait, out,
                     arrived, ready, misread, unruly, pc, sinceFrame>>
  BY DEF Switch, queue, times, buffers, history
<1>2. due' \in Seq(Awaiting)
  BY <1>1, HeadTailProperties DEF Inv, Lines
<1>3. format' \in BOOLEAN
  BY Zenon DEF Switch
<1>4. Lines' /\ Flags' /\ Clocks'
  BY <1>1, <1>2, <1>3 DEF Inv, Lines, Flags, Clocks
<1> QED
  BY <1>1, <1>4, OutsideInv DEF Forever

LEMMA NoiseInv == Inv /\ Noise => Inv'
<1> SUFFICES ASSUME Inv, Noise PROVE Inv'
  OBVIOUS
<1>1. /\ Arrives("text", FALSE) /\ ready' = TRUE /\ unruly' = TRUE
      /\ UNCHANGED <<list, gotos, poll, longUsed, timeLeft, quiet, pollWait, out,
                     due, format, misread, pc, sinceFrame>>
  BY DEF Noise, queue, times, telescope
<1>2. arrived' \in Seq(Answers)
  BY <1>1, ArrivesType DEF Inv, Lines, Flags, What
<1>3. ready' \in BOOLEAN /\ unruly' \in BOOLEAN
  BY <1>1, Zenon
<1>4. Lines' /\ Flags' /\ Clocks'
  BY <1>1, <1>2, <1>3 DEF Inv, Lines, Flags, Clocks
<1> QED
  BY <1>1, <1>4, OutsideInv DEF Forever

LEMMA TickInv == Inv /\ Tick => Inv'
<1> SUFFICES ASSUME Inv, Tick PROVE Inv'
  OBVIOUS
<1> DEFINE lost == due # <<>> /\ (Head(due).age >= MaxAge \/ Len(due) > MaxDue)
           kept == IF lost THEN Tail(due) ELSE due
           older == [i \in DOMAIN kept |-> [kept[i] EXCEPT !.age = @ + 1]]
<1>1. /\ sinceFrame < Gap /\ sinceFrame' = sinceFrame + 1
      /\ timeLeft' = IF timeLeft = Forever THEN Forever ELSE timeLeft - 1
      /\ quiet' = Less(quiet) /\ pollWait' = Less(pollWait) /\ due' = older
      /\ UNCHANGED <<list, gotos, poll, longUsed, out, arrived, ready, format,
                     misread, unruly, pc>>
  BY DEF Tick, buffers, history
<1>2. kept \in Seq(Awaiting)
  BY HeadTailProperties DEF Inv, Lines
<1>3. older \in Seq(Awaiting)
  <2> HIDE DEF kept
  <2>1. \A i \in DOMAIN kept : older[i] \in Awaiting
    <3>1. TAKE i \in DOMAIN kept
    <3>2. kept[i] \in Awaiting
      BY <1>2, LenProperties, ElementOfSeq
    <3> QED
      BY <3>2 DEF Awaiting
  <2> QED
    BY <1>2, <2>1, MapSeq
<1> HIDE DEF kept, older
<1>4. Lines' /\ Flags'
  BY <1>1, <1>3 DEF Inv, Lines, Flags
<1>5. Clocks'
  BY <1>1, TimesAssumption DEF Inv, Clocks, Less, Forever
<1>6. (timeLeft' < Forever <=> timeLeft < Forever) /\ (quiet' > 0 => quiet > 0)
  <2>1. timeLeft \in Int /\ Forever \in Int /\ quiet \in Nat
    BY TimesAssumption DEF Inv, Clocks, Forever
  <2>2. PICK x \in Int : x = Forever
    BY <2>1
  <2>3. timeLeft' = IF timeLeft = x THEN x ELSE timeLeft - 1
    BY <1>1, <2>2
  <2> QED
    BY <1>1, <2>1, <2>2, <2>3 DEF Less
<1> QED
  BY <1>1, <1>4, <1>5, <1>6, OutsideInv

--------------------------------------------------------------------------------
LEMMA StepInv == Inv /\ [Next]_vars => Inv'
<1> SUFFICES ASSUME Inv, [Next]_vars PROVE Inv'
  OBVIOUS
<1>1. CASE Sent
  <2>1. /\ pc' = "idle"
        /\ UNCHANGED <<list, gotos, poll, longUsed, timeLeft, quiet, pollWait, out,
                       arrived, ready, due, format, misread, unruly, sinceFrame>>
    BY <1>1 DEF Sent, queue, times, buffers, telescope, history
  <2> QED
    BY <2>1 DEF Inv, Lines, Flags, Clocks, Control, PollKept, WaitIsTimed, Waits,
                QuietIsQuiet, HasFront, Forever
<1>2. CASE UNCHANGED vars
  <2>1. UNCHANGED <<list, gotos, poll, longUsed, timeLeft, quiet, pollWait, out,
                    arrived, ready, due, format, misread, unruly, pc, sinceFrame>>
    BY <1>2 DEF vars, queue, times, buffers, telescope, history
  <2> QED
    BY <2>1 DEF Inv, Lines, Flags, Clocks, Control, PollKept, WaitIsTimed, Waits,
                QuietIsQuiet, HasFront, Forever
<1> QED
  BY <1>1, <1>2, SendSlewInv, FrameInv, FlushInv, CheckTimeoutInv, WriteInv, ReadInv,
     ReadAnswerInv, SwitchInv, AnswerInv, DropInv, NoiseInv, TickInv DEF Next, Code

\* Only the front command is written and waited for, nothing is on its way in the
\* quiet time, the slews are counted and the question for the position is in the
\* queue until it is answered: for every value of the times, whatever the
\* telescope and the line do.
THEOREM QueueCorrect == Spec => []QueueInv
  BY InitInv, StepInv, InvQueue, PTL DEF Spec

--------------------------------------------------------------------------------
(* Whose answers are read.                                                    *)

\* The invariant, while the telescope is as good as PromptAssumption says.  Own
\* entries are those of the command that waits: there is one at most, in
\* write_buff, behind nothing but a change of format (Mute), at the telescope with
\* its answer or with the rest of it, or its answer has arrived; nothing else has.
\* What an earlier command left at the telescope (Late) is so old that the
\* telescope has given it up, or will answer it within the quiet time.  What has
\* arrived from there is thrown away before the next command is written (Told),
\* which is read at once (Heard).
Own(s)  == {i \in DOMAIN s : s[i].own}
Mine(a) == \A i \in DOMAIN a : a[i].own
Few(a, k, short) ==
    \/ a = <<>>
    \/ Len(a) = 1 /\ a[1].what \in (IF short THEN {"text"} ELSE Replies(k))
    \/ Len(a) = 2 /\ k = "Slew" /\ ~short /\ a[1].what = "1" /\ a[2].what = "text"

Mute(o) == \A i \in DOMAIN o : o[i].own = FALSE /\ o[i].kind = "ToggleFormat"
Buffered(o, d, a, k, short) ==
    /\ \E s \in Seq(Asked) : Mute(s) /\ o = Append(s, [kind |-> k, own |-> TRUE])
    /\ Own(d) = {} /\ a = <<>> /\ ~short
Pending(o, d, a, k, short) ==
    /\ o = <<>> /\ Own(d) # {} /\ a = <<>> /\ ~short
    /\ \A i \in Own(d) : d[i].kind = k
Half(o, d, a, k, short) ==
    /\ o = <<>> /\ Own(d) # {} /\ k = "Slew"
    /\ \A i \in Own(d) : d[i].kind = "Rest"
    /\ IF short THEN a = <<>> ELSE Len(a) = 1 /\ a[1].what = "1"
Over(o, d, a, k, short) == o = <<>> /\ Own(d) = {} /\ Few(a, k, short)
Awaited(o, d, a, k, short) ==
    /\ One(Own(d)) /\ Mine(a)
    /\ \/ Buffered(o, d, a, k, short) \/ Pending(o, d, a, k, short)
       \/ Half(o, d, a, k, short) \/ Over(o, d, a, k, short)

Past(e, q)  == IF e.kind \in {"Slew", "Rest"} THEN e.age > PromptSlew
                                              ELSE e.age + q > Prompt + Gap
Late(d, q)  == \A i \in DOMAIN d : ~d[i].own /\ d[i].kind # "ToggleFormat" => Past(d[i], q)
Slack       == IF pc \in {"frame", "write"} THEN Gap ELSE sinceFrame
OnTime(o, d, t, s, k) == /\ o # <<>> => t + s >= Timeout(k)
                         /\ \A i \in Own(d) : t + d[i].age + Gap >= Timeout(k)
FrontWritten == list # <<>> /\ Head(list).written
Matched == IF Waits THEN /\ Awaited(out, due, arrived, Head(list).kind, Head(list).short)
                         /\ OnTime(out, due, timeLeft, Slack, Head(list).kind)
                    ELSE Mute(out) /\ Own(due) = {}
Told == ~Waits /\ arrived # <<>> =>
          IF pc \in {"idle", "send"} THEN quiet + sinceFrame > Gap
          ELSE quiet > 0 \/ (pc \in {"write", "read", "answer"} /\ ~FrontWritten)
Heard == arrived # <<>> => ready \/ pc = "answer"
Orderly == Matched /\ Late(due, quiet) /\ Told /\ Heard
FrameStarts == pc \in {"frame", "write", "read", "answer"} => sinceFrame = 0

\* Nothing is answered for a command that needs no answer.
LEMMA OutcomesSilent ==
    ASSUME NEW c, NEW s, NEW r \in Outcomes(c, s), c.kind \in Silent
    PROVE  r.rc = 1 /\ r.rest = s
  BY DEF Outcomes, Outcome

LEMMA OrphanedSame ==
    ASSUME NEW s
    PROVE  /\ DOMAIN Orphaned(s) = DOMAIN s
           /\ \A i \in DOMAIN s : Orphaned(s)[i] = [s[i] EXCEPT !.own = FALSE]
  BY DEF Orphaned

\* What waits in write_buff, while no command waits for an answer.
LEMMA MuteOrphaned ==
    ASSUME NEW s \in Seq(Asked), Mute(s)
    PROVE  Mute(Orphaned(s)) /\ Orphaned(s) \in Seq(Asked)
<1>1. \A e \in Asked : /\ [e EXCEPT !.own = FALSE].own = FALSE
                       /\ [e EXCEPT !.own = FALSE].kind = e.kind
  BY DEF Asked
<1>2. ASSUME NEW i \in DOMAIN s
      PROVE  Orphaned(s)[i].own = FALSE /\ Orphaned(s)[i].kind = "ToggleFormat"
  <2>1. s[i] \in Asked /\ s[i].kind = "ToggleFormat"
    BY LenProperties, ElementOfSeq DEF Mute
  <2>2. Orphaned(s)[i] = [s[i] EXCEPT !.own = FALSE]
    BY OrphanedSame
  <2> QED
    BY <1>1, <2>1, <2>2
<1> QED
  BY <1>2, OrphanedSame, OrphanedTypes DEF Mute

LEMMA MuteWritten ==
    ASSUME NEW k \in Silent, NEW s \in Seq(Asked), Mute(s)
    PROVE  Mute(Written(k, s))
<1>1. CASE k = "StopSlew"
  BY <1>1 DEF Written
<1>2. CASE k = "ToggleFormat"
  <2> DEFINE e == [kind |-> k, own |-> k # "ToggleFormat"]
  <2>1. e.own = FALSE /\ e.kind = "ToggleFormat"
    <3>1. (k # "ToggleFormat") = FALSE
      BY <1>2, Zenon
    <3> QED
      BY <1>2, <3>1
  <2>2. e \in Asked
    BY <1>2, <2>1 DEF Asked, Kind, Silent
  <2>3. Written(k, s) = Append(s, e)
    BY <1>2 DEF Written
  <2> HIDE DEF e
  <2>4. /\ Append(s, e) \in Seq(Asked) /\ Len(Append(s, e)) = Len(s) + 1 /\ Len(s) \in Nat
        /\ \A i \in 1 .. Len(s) : Append(s, e)[i] = s[i]
        /\ Append(s, e)[Len(s) + 1] = e
    BY <2>2, AppendProperties, LenProperties
  <2>5. DOMAIN s = 1 .. Len(s) /\ DOMAIN Append(s, e) = 1 .. Len(s) + 1
    BY <2>4, LenProperties
  <2>6. ASSUME NEW i \in DOMAIN Append(s, e)
        PROVE  Append(s, e)[i].own = FALSE /\ Append(s, e)[i].kind = "ToggleFormat"
    <3>1. CASE i = Len(s) + 1
      BY <2>1, <2>4, <3>1
    <3>2. CASE i # Len(s) + 1
      BY <2>4, <2>5, <3>2 DEF Mute
    <3> QED
      BY <3>1, <3>2
  <2> QED
    BY <2>3, <2>6 DEF Mute
<1> QED
  BY <1>1, <1>2 DEF Silent

\* A command that needs an answer is put into write_buff behind that.
LEMMA BufferedWritten ==
    ASSUME NEW k \in Kind \ Silent, NEW s \in Seq(Asked), Mute(s), NEW d, Own(d) = {}
    PROVE  Awaited(Written(k, s), d, <<>>, k, FALSE) /\ Written(k, s) # <<>>
<1> DEFINE e == [kind |-> k, own |-> TRUE]
<1>1. Written(k, s) = Append(s, e)
  <2>1. (k # "ToggleFormat") = TRUE
    BY Zenon DEF Silent
  <2> QED
    BY <2>1 DEF Written, Silent
<1>2. e \in Asked
  BY DEF Asked, Silent
<1>3. Append(s, e) # <<>>
  BY <1>2, AppendProperties
<1>4. Buffered(Append(s, e), d, <<>>, k, FALSE)
  BY DEF Buffered
<1>5. Mine(<<>>) /\ One(Own(d))
  BY DEF Mine, One
<1> QED
  BY <1>1, <1>3, <1>4, <1>5 DEF Awaited

LEMMA OwnOrphaned ==
    ASSUME NEW s \in Seq(Awaiting)
    PROVE  /\ Own(Orphaned(s)) = {} /\ DOMAIN Orphaned(s) = DOMAIN s
           /\ \A i \in DOMAIN s : /\ Orphaned(s)[i].kind = s[i].kind
                                  /\ Orphaned(s)[i].age = s[i].age
<1>1. \A e \in Awaiting : /\ [e EXCEPT !.own = FALSE].own = FALSE
                          /\ [e EXCEPT !.own = FALSE].kind = e.kind
                          /\ [e EXCEPT !.own = FALSE].age = e.age
  BY DEF Awaiting
<1>2. ASSUME NEW i \in DOMAIN s
      PROVE  /\ Orphaned(s)[i].own = FALSE /\ Orphaned(s)[i].kind = s[i].kind
             /\ Orphaned(s)[i].age = s[i].age
  <2>1. s[i] \in Awaiting
    BY LenProperties, ElementOfSeq
  <2>2. Orphaned(s)[i] = [s[i] EXCEPT !.own = FALSE]
    BY OrphanedSame
  <2> QED
    BY <1>1, <2>1, <2>2
<1> QED
  BY <1>2, OrphanedSame DEF Own

\* The time-outs are long enough for a slew, and with the quiet time for the rest.
LEMMA TimesAllow ==
    ASSUME NEW k \in Kind \ Silent
    PROVE  /\ Timeout(k) \in Nat /\ Timeout(k) >= PromptSlew + Gap
           /\ k # "Slew" => Timeout(k) + QuietTime >= Prompt + Gap + Gap
  BY TimesAssumption, PromptAssumption DEF Timeout

LEMMA WaitsFacts ==
    ASSUME Inv, Waits
    PROVE  /\ quiet = 0 /\ Head(list).kind \in Kind \ Silent /\ Head(list) \in Command
           /\ Head(list).short \in BOOLEAN /\ timeLeft \in Int
  BY InvFacts DEF Inv, Waits, QuietIsQuiet, Clocks

\* Entries leave, or grow older.
Fewer(e, d, n) ==
    /\ One(Own(d)) => One(Own(e))
    /\ \A i \in DOMAIN e : \E j \in DOMAIN d :
         e[i].kind = d[j].kind /\ (e[i].own <=> d[j].own) /\ e[i].age = d[j].age + n

LEMMA FewerTail ==
    ASSUME NEW d \in Seq(Awaiting), d # <<>>
    PROVE  /\ Fewer(Tail(d), d, 0) /\ 1 \in DOMAIN d /\ d[1] = Head(d) /\ d[1] \in Awaiting
           /\ One(Own(d)) /\ d[1].own => Own(Tail(d)) = {}
<1>1. /\ Head(d) = d[1] /\ Tail(d) \in Seq(Awaiting) /\ Len(Tail(d)) = Len(d) - 1
      /\ \A i \in 1 .. Len(Tail(d)) : Tail(d)[i] = d[i + 1]
  BY HeadTailProperties
<1>2. /\ Len(d) \in Nat /\ Len(d) > 0 /\ DOMAIN d = 1 .. Len(d)
      /\ DOMAIN Tail(d) = 1 .. (Len(d) - 1)
  BY <1>1, LenProperties, EmptySeq
<1>3. \A i \in DOMAIN d : d[i] \in Awaiting
  BY <1>2, ElementOfSeq
<1>4. ASSUME NEW i \in DOMAIN Tail(d)
      PROVE  i \in Nat /\ i + 1 \in DOMAIN d /\ i + 1 # 1 /\ Tail(d)[i] = d[i + 1]
  BY <1>1, <1>2
<1>5. \A i \in DOMAIN d : d[i].age + 0 = d[i].age
  BY <1>3 DEF Awaiting
<1>6. \A i \in Own(Tail(d)) : i \in Nat /\ i + 1 \in Own(d) /\ i + 1 # 1
  BY <1>4 DEF Own
<1>7. One(Own(d)) => One(Own(Tail(d)))
  <2>1. SUFFICES ASSUME One(Own(d)), NEW i \in Own(Tail(d)), NEW j \in Own(Tail(d)) PROVE i = j
    BY DEF One
  <2>2. i \in Nat /\ j \in Nat /\ i + 1 = j + 1
    BY <1>6, <2>1 DEF One
  <2> QED
    BY <2>2
<1>8. One(Own(d)) /\ d[1].own => Own(Tail(d)) = {}
  <2>1. SUFFICES ASSUME One(Own(d)), d[1].own, NEW i \in Own(Tail(d)) PROVE FALSE
    OBVIOUS
  <2>2. 1 \in Own(d)
    BY <1>2, <2>1 DEF Own
  <2> QED
    BY <1>6, <2>1, <2>2 DEF One
<1>9. Fewer(Tail(d), d, 0)
  <2>1. ASSUME NEW i \in DOMAIN Tail(d)
        PROVE  \E j \in DOMAIN d : /\ Tail(d)[i].kind = d[j].kind
                                   /\ Tail(d)[i].own <=> d[j].own
                                   /\ Tail(d)[i].age = d[j].age + 0
    BY <1>4, <1>5
  <2> QED
    BY <1>7, <2>1 DEF Fewer
<1> QED
  BY <1>1, <1>2, <1>3, <1>8, <1>9

LEMMA FewerSame ==
    ASSUME NEW d \in Seq(Awaiting)
    PROVE  Fewer(d, d, 0)
<1>1. \A i \in DOMAIN d : d[i] \in Awaiting
  BY LenProperties, ElementOfSeq
<1>2. \A i \in DOMAIN d : d[i].age + 0 = d[i].age
  BY <1>1 DEF Awaiting
<1> QED
  BY <1>2 DEF Fewer

LEMMA FewerOlder ==
    ASSUME NEW d, NEW s \in Seq(Awaiting), Fewer(s, d, 0), \A i \in DOMAIN d : d[i] \in Awaiting
    PROVE  Fewer([i \in DOMAIN s |-> [s[i] EXCEPT !.age = @ + 1]], d, 1)
<1> DEFINE e == [i \in DOMAIN s |-> [s[i] EXCEPT !.age = @ + 1]]
<1>1. \A i \in DOMAIN s : s[i] \in Awaiting
  BY LenProperties, ElementOfSeq
<1>2. \A x \in Awaiting : /\ [x EXCEPT !.age = @ + 1].kind = x.kind
                          /\ [x EXCEPT !.age = @ + 1].own <=> x.own
                          /\ [x EXCEPT !.age = @ + 1].age = x.age + 1
  BY DEF Awaiting
<1>3. /\ DOMAIN e = DOMAIN s
      /\ \A i \in DOMAIN s : e[i] = [s[i] EXCEPT !.age = @ + 1]
  OBVIOUS
<1> HIDE DEF e
<1>4. ASSUME NEW i \in DOMAIN s
      PROVE  e[i].kind = s[i].kind /\ (e[i].own <=> s[i].own) /\ e[i].age = s[i].age + 1
  <2>1. e[i] = [s[i] EXCEPT !.age = @ + 1] /\ s[i] \in Awaiting
    BY <1>1, <1>3
  <2> QED
    BY <1>2, <2>1
<1>5. Own(e) = Own(s)
  BY <1>3, <1>4 DEF Own
<1>6. ASSUME NEW i \in DOMAIN e
      PROVE  \E j \in DOMAIN d : e[i].kind = d[j].kind /\ (e[i].own <=> d[j].own)
                                 /\ e[i].age = d[j].age + 1
  <2>1. PICK j \in DOMAIN d : s[i].kind = d[j].kind /\ (s[i].own <=> d[j].own)
                              /\ s[i].age = d[j].age + 0
    BY <1>3 DEF Fewer
  <2>2. d[j].age \in Nat
    BY DEF Awaiting
  <2>3. e[i].age = d[j].age + 1
    BY <1>3, <1>4, <2>1, <2>2
  <2> QED
    BY <1>3, <1>4, <2>1, <2>3
<1>7. One(Own(d)) => One(Own(e))
  BY <1>5 DEF Fewer
<1> QED
  BY <1>6, <1>7 DEF Fewer, e

LEMMA LateFewer ==
    ASSUME NEW d, NEW e, NEW n \in {0, 1}, NEW q \in Nat, NEW u \in Nat, Late(d, q),
           \A i \in DOMAIN d : d[i] \in Awaiting, Fewer(e, d, n), u + n >= q
    PROVE  Late(e, u)
<1> SUFFICES ASSUME NEW i \in DOMAIN e, ~e[i].own, e[i].kind # "ToggleFormat"
             PROVE  Past(e[i], u)
  BY DEF Late
<1>1. PICK j \in DOMAIN d : e[i].kind = d[j].kind /\ (e[i].own <=> d[j].own)
                            /\ e[i].age = d[j].age + n
  BY DEF Fewer
<1>2. d[j].age \in Nat /\ Past(d[j], q)
  BY <1>1 DEF Late, Awaiting
<1> QED
  BY <1>1, <1>2, PromptAssumption, TimesAssumption DEF Past

LEMMA OnTimeFewer ==
    ASSUME NEW o, NEW d, NEW e, NEW n \in {0, 1}, NEW t \in Int, NEW u \in Int,
           NEW s \in Int, NEW v \in Int, NEW k \in Kind \ Silent,
           \A i \in DOMAIN d : d[i] \in Awaiting, OnTime(o, d, t, s, k),
           Fewer(e, d, n), u + n >= t, u + v >= t + s
    PROVE  OnTime(o, e, u, v, k)
<1>1. Timeout(k) \in Nat /\ Gap \in Nat
  BY TimesAllow, TimesAssumption
<1>2. o # <<>> => u + v >= Timeout(k)
  BY <1>1 DEF OnTime
<1>3. ASSUME NEW i \in Own(e) PROVE u + e[i].age + Gap >= Timeout(k)
  <2>1. PICK j \in DOMAIN d : e[i].kind = d[j].kind /\ (e[i].own <=> d[j].own)
                              /\ e[i].age = d[j].age + n
    BY DEF Fewer, Own
  <2>2. j \in Own(d) /\ d[j].age \in Nat
    BY <2>1 DEF Own, Awaiting
  <2>3. t + d[j].age + Gap >= Timeout(k)
    BY <2>2 DEF OnTime
  <2> QED
    BY <1>1, <2>1, <2>2, <2>3
<1> QED
  BY <1>2, <1>3 DEF OnTime

LEMMA AwaitedFewer ==
    ASSUME NEW o, NEW d, NEW e, NEW a, NEW k, NEW short \in BOOLEAN, NEW n,
           Awaited(o, d, a, k, short), Fewer(e, d, n)
    PROVE  Awaited(o, e, a, k, short)
<1>1. One(Own(e)) /\ Mine(a)
  BY DEF Fewer, Awaited
<1>2. \A i \in Own(e) : \E j \in Own(d) : e[i].kind = d[j].kind
  BY DEF Fewer, Own
<1>3. CASE Own(e) = {}
  <2>1. CASE Buffered(o, d, a, k, short)
    BY <1>1, <1>3, <2>1 DEF Awaited, Buffered
  <2>2. CASE Pending(o, d, a, k, short)
    BY <1>1, <1>3, <2>2 DEF Awaited, Pending, Over, Few
  <2>3. CASE Half(o, d, a, k, short)
    BY <1>1, <1>3, <2>3 DEF Awaited, Half, Over, Few, Replies
  <2>4. CASE Over(o, d, a, k, short)
    BY <1>1, <1>3, <2>4 DEF Awaited, Over
  <2> QED
    BY <2>1, <2>2, <2>3, <2>4 DEF Awaited
<1>4. CASE Own(e) # {}
  <2>1. Own(d) # {}
    BY <1>2, <1>4
  <2>2. CASE Pending(o, d, a, k, short)
    BY <1>1, <1>2, <1>4, <2>2 DEF Awaited, Pending
  <2>3. CASE Half(o, d, a, k, short)
    BY <1>1, <1>2, <1>4, <2>3 DEF Awaited, Half
  <2> QED
    BY <2>1, <2>2, <2>3 DEF Awaited, Buffered, Over
<1> QED
  BY <1>3, <1>4

\* The step of a command that is reset, or given up, makes its entries late.
LEMMA LateOrphaned ==
    ASSUME NEW d \in Seq(Awaiting), NEW q \in Nat, NEW u \in Nat, u >= q, Late(d, q),
           \A i \in Own(d) : Past(d[i], u)
    PROVE  Late(Orphaned(d), u)
<1> SUFFICES ASSUME NEW i \in DOMAIN Orphaned(d), Orphaned(d)[i].kind # "ToggleFormat"
             PROVE  Past(Orphaned(d)[i], u)
  BY DEF Late
<1>1. i \in DOMAIN d /\ Orphaned(d)[i].kind = d[i].kind /\ Orphaned(d)[i].age = d[i].age
  BY OwnOrphaned
<1>2. d[i] \in Awaiting
  BY <1>1, LenProperties, ElementOfSeq
<1>3. d[i].age \in Nat
  BY <1>2 DEF Awaiting
<1>4. CASE d[i].own
  <2>1. Past(d[i], u)
    BY <1>1, <1>4 DEF Own
  <2> QED
    BY <1>1, <2>1 DEF Past
<1>5. CASE ~d[i].own
  <2>1. Past(d[i], q)
    BY <1>1, <1>5 DEF Late
  <2> QED
    BY <1>1, <1>3, <2>1, PromptAssumption, TimesAssumption DEF Past
<1> QED
  BY <1>4, <1>5

\* At its time-out a command has no entry in write_buff, and that at the telescope
\* is past the time in which a slew is answered, or the rest with the quiet time.
LEMMA TimedOut ==
    ASSUME Inv, Orderly, pc = "frame", list # <<>>, timeLeft < 0
    PROVE  /\ Waits /\ out = <<>> /\ quiet = 0
           /\ \A i \in Own(due) : Past(due[i], QuietTime)
           /\ Head(list).short => \A i \in Own(due) : Past(due[i], 0)
<1> DEFINE k == Head(list).kind
<1>1. Waits
  BY TimesAssumption DEF Inv, WaitIsTimed, Forever, Clocks
<1>2. /\ quiet = 0 /\ k \in Kind \ Silent /\ timeLeft \in Int
      /\ Timeout(k) \in Nat /\ Timeout(k) >= PromptSlew + Gap
      /\ k # "Slew" => Timeout(k) + QuietTime >= Prompt + Gap + Gap
  BY <1>1, WaitsFacts, TimesAllow
<1>3. /\ Awaited(out, due, arrived, k, Head(list).short)
      /\ OnTime(out, due, timeLeft, Gap, k)
  BY <1>1 DEF Orderly, Matched, Slack
<1> HIDE DEF k
<1>4. /\ Gap \in Nat /\ PromptSlew \in Nat /\ Prompt \in Nat /\ QuietTime \in Nat
  BY TimesAssumption, PromptAssumption
<1>5. out = <<>>
  BY <1>2, <1>3, <1>4 DEF OnTime
<1>6. ASSUME NEW i \in Own(due)
      PROVE  Past(due[i], QuietTime) /\ (Head(list).short => Past(due[i], 0))
  <2>1. due[i] \in Awaiting
    BY LenProperties, ElementOfSeq DEF Own, Inv, Lines
  <2>2. due[i].age \in Nat
    BY <2>1 DEF Awaiting
  <2>3. timeLeft + due[i].age + Gap >= Timeout(k)
    BY <1>3 DEF OnTime
  <2>4. due[i].age + Gap > Timeout(k)
    BY <1>2, <1>4, <2>2, <2>3
  <2>5. \/ due[i].kind = k /\ ~Head(list).short
        \/ due[i].kind = "Rest" /\ k = "Slew"
    BY <1>3 DEF Awaited, Buffered, Pending, Half, Over
  <2>6. due[i].kind \in {"Slew", "Rest"} => due[i].age > PromptSlew
    BY <1>2, <1>4, <2>2, <2>4
  <2>7. due[i].kind \notin {"Slew", "Rest"} => due[i].age + QuietTime > Prompt + Gap
    <3>1. SUFFICES ASSUME due[i].kind \notin {"Slew", "Rest"}
                   PROVE  due[i].age + QuietTime > Prompt + Gap
      OBVIOUS
    <3>2. k # "Slew"
      BY <2>5, <3>1
    <3> QED
      BY <1>2, <1>4, <2>2, <2>4, <3>2
  <2>8. Head(list).short => due[i].kind = "Rest"
    BY <2>5
  <2> QED
    BY <2>6, <2>7, <2>8 DEF Past
<1> QED
  BY <1>1, <1>2, <1>5, <1>6

LEMMA ResetOrderly ==
    ASSUME Inv, Reset, Late(due, quiet), quiet = 0, \A i \in Own(due) : Past(due[i], QuietTime)
    PROVE  Orderly'
<1>1. /\ list' = <<>> /\ out' = <<>> /\ arrived' = <<>> /\ due' = Orphaned(due)
      /\ quiet' = QuietTime
  BY DEF Reset, Cleared, AsAtFirst
<1>2. QuietTime \in Nat /\ due \in Seq(Awaiting)
  BY TimesAssumption DEF Inv, Lines
<1>3. Late(due', quiet')
  <2>1. Late(Orphaned(due), QuietTime)
    BY <1>2, LateOrphaned
  <2> QED
    BY <1>1, <2>1
<1>4. ~Waits' /\ Own(due') = {}
  BY <1>1, <1>2, OwnOrphaned DEF Waits
<1> QED
  BY <1>1, <1>3, <1>4 DEF Orderly, Matched, Told, Heard, Mute

LEMMA OrderlyCheckTimeout ==
    ASSUME Inv, Inv', FrameStarts, Orderly, CheckTimeout
    PROVE  Orderly'
<1>1. pc = "frame" /\ pc' = "write" /\ UNCHANGED <<ready, sinceFrame>>
  BY DEF CheckTimeout
<1>2. CASE list = <<>> \/ timeLeft >= 0
  <2>1. UNCHANGED <<list, timeLeft, quiet, out, arrived, due>>
    BY <1>2 DEF CheckTimeout, queue, times
  <2>2. Matched'
    BY <1>1, <2>1 DEF Orderly, Matched, Slack, Waits
  <2> QED
    BY <1>1, <2>1, <2>2 DEF Orderly, Told, Heard, Waits
<1>3. CASE ~(list = <<>> \/ timeLeft >= 0)
  <2>1. list # <<>> /\ timeLeft < 0
    BY <1>3 DEF Inv, Clocks
  <2>2. /\ Waits /\ out = <<>> /\ quiet = 0 /\ \A i \in Own(due) : Past(due[i], QuietTime)
        /\ Head(list).short => \A i \in Own(due) : Past(due[i], 0)
    BY <1>1, <2>1, TimedOut
  <2>3. CASE ~Head(list).short
    <3>1. Reset
      BY <1>3, <2>3 DEF CheckTimeout
    <3> QED
      BY <2>2, <3>1, ResetOrderly DEF Orderly
  <2>4. CASE Head(list).short
    <3>1. /\ list' = Tail(list) /\ due' = Orphaned(due) /\ arrived' = Orphaned(arrived)
          /\ out' = Orphaned(out) /\ quiet' = quiet
      BY <1>3, <2>4 DEF CheckTimeout
    <3>2. list' # <<>> => ~Head(list').written
      BY <2>1, <3>1, FrontLeaves
    <3>3. ~Waits' /\ ~FrontWritten'
      BY <3>2 DEF Waits, FrontWritten
    <3>4. out' = <<>> /\ Own(due') = {}
      BY <2>2, <3>1, OrphanedTypes, OwnOrphaned DEF Inv, Lines
    <3>5. Late(due', quiet')
      <4>1. Late(due, 0) /\ 0 \in Nat /\ due \in Seq(Awaiting)
        BY <2>2 DEF Orderly, Inv, Lines
      <4>2. Late(Orphaned(due), 0)
        BY <2>2, <2>4, <4>1, LateOrphaned
      <4> QED
        BY <2>2, <3>1, <4>2
    <3>6. arrived' # <<>> => arrived # <<>>
      BY <3>1, OrphanedTypes
    <3> QED
      BY <1>1, <3>3, <3>4, <3>5, <3>6 DEF Orderly, Matched, Told, Heard, Mute
  <2> QED
    BY <2>3, <2>4
<1> QED
  BY <1>2, <1>3

\* The queue grows behind its front, or the frame begins.
LEMMA FrontSame ==
    ASSUME list' # <<>>, NEW e, ~e.written, Head(list') = IF list = <<>> THEN e ELSE Head(list)
    PROVE  /\ Waits' <=> Waits
           /\ Waits => Head(list') = Head(list)
           /\ FrontWritten' <=> FrontWritten
  BY DEF Waits, FrontWritten

LEMMA OrderlySendSlew ==
    ASSUME Inv, Inv', FrameStarts, Orderly, SendSlew
    PROVE  Orderly'
<1>1. /\ list' = list \o Slewing /\ pc = "idle" /\ pc' = "send"
      /\ UNCHANGED <<timeLeft, quiet, out, arrived, ready, due, sinceFrame>>
  BY DEF SendSlew, times, buffers, telescope
<1>2. /\ list' # <<>> /\ Head(list') = IF list = <<>> THEN New("StopSlew") ELSE Head(list)
      /\ ~New("StopSlew").written
  BY <1>1, ListedSlew, NewCommand, Kinds DEF Inv
<1>3. (Waits' <=> Waits) /\ (Waits => Head(list') = Head(list))
  BY <1>2, FrontSame
<1>4. Matched'
  BY <1>1, <1>3 DEF Orderly, Matched, Slack
<1> QED
  BY <1>1, <1>3, <1>4 DEF Orderly, Told, Heard

LEMMA OrderlyFrame ==
    ASSUME Inv, Inv', FrameStarts, Orderly, Frame
    PROVE  Orderly'
<1>1. /\ pc = "idle" /\ pc' = "frame" /\ sinceFrame' = 0
      /\ UNCHANGED <<timeLeft, quiet, out, arrived, ready, due>>
  BY DEF Frame, buffers, telescope
<1>2. (Waits' <=> Waits) /\ (Waits => Head(list') = Head(list))
  <2>1. CASE poll /\ pollWait = 0
    <3>1. list' = Poll(list)
      BY <2>1 DEF Frame, Poll
    <3>2. /\ list' # <<>> /\ Head(list') = IF list = <<>> THEN New("GetRa") ELSE Head(list)
          /\ ~New("GetRa").written
      BY <2>1, <3>1, ListedPoll, NewCommand, Kinds DEF Inv, PollKept
    <3> QED
      BY <3>2, FrontSame
  <2>2. CASE ~(poll /\ pollWait = 0)
    BY <2>2 DEF Frame, Waits
  <2> QED
    BY <2>1, <2>2
<1>3. Matched'
  <2>1. CASE Waits
    <3>1. /\ Head(list).kind \in Kind \ Silent /\ timeLeft \in Int
          /\ Timeout(Head(list).kind) \in Nat /\ sinceFrame \in Nat /\ sinceFrame <= Gap
          /\ Gap \in Nat
      BY <2>1, WaitsFacts, TimesAllow, TimesAssumption DEF Inv, Clocks
    <3>2. OnTime(out, due, timeLeft, sinceFrame, Head(list).kind)
      BY <1>1, <2>1 DEF Orderly, Matched, Slack
    <3>3. OnTime(out, due, timeLeft, Gap, Head(list).kind)
      BY <3>1, <3>2 DEF OnTime
    <3>4. Slack' = Gap
      BY <1>1 DEF Slack
    <3> QED
      BY <1>1, <1>2, <2>1, <3>3, <3>4 DEF Orderly, Matched
  <2>2. CASE ~Waits
    BY <1>1, <1>2, <2>2 DEF Orderly, Matched
  <2> QED
    BY <2>1, <2>2
<1>4. Told'
  <2>1. sinceFrame \in Nat /\ sinceFrame <= Gap /\ Gap \in Nat /\ quiet \in Nat
    BY TimesAssumption DEF Inv, Clocks
  <2> QED
    BY <1>1, <1>2, <2>1 DEF Orderly, Told
<1> QED
  BY <1>1, <1>3, <1>4 DEF Orderly, Heard

LEMMA OrderlyFlush ==
    ASSUME Inv, Inv', FrameStarts, Orderly, Flush
    PROVE  Orderly' /\ arrived' = <<>>
<1> DEFINE k == Head(list).kind
<1>1. /\ pc \in {"send", "frame"} /\ list # <<>> /\ ~Head(list).written /\ quiet = 0
      /\ timeLeft' = Timeout(k) /\ out' = Written(k, out)
      /\ list' = IF k \in Silent THEN Tail(list) ELSE [list EXCEPT ![1].written = TRUE]
      /\ UNCHANGED <<quiet, arrived, ready, due, pc, sinceFrame>>
  BY DEF Flush, CanWrite, telescope
<1>2. ~Waits /\ Mute(out) /\ Own(due) = {} /\ out \in Seq(Asked)
  BY <1>1 DEF Waits, Orderly, Matched, Inv, Lines
<1>3. arrived = <<>>
  <2>1. sinceFrame \in Nat /\ sinceFrame <= Gap /\ Gap \in Nat
    BY TimesAssumption DEF Inv, Clocks
  <2> QED
    BY <1>1, <1>2, <2>1 DEF Orderly, Told
<1>4. Late(due', quiet') /\ Told' /\ Heard'
  BY <1>1, <1>3 DEF Orderly, Told, Heard
<1>5. CASE k \in Silent
  <2>1. ~Waits'
    BY <1>1, <1>5, FrontLeaves DEF Waits
  <2>2. Mute(out')
    BY <1>1, <1>2, <1>5, MuteWritten
  <2> QED
    BY <1>1, <1>2, <1>3, <1>4, <2>1, <2>2 DEF Orderly, Matched
<1>6. CASE k \notin Silent
  <2>1. /\ Head(list').written /\ Head(list').kind = k /\ Head(list').short = Head(list).short
        /\ list' # <<>>
    BY <1>1, <1>6, ListedWritten DEF Inv
  <2>2. Head(list').short = FALSE /\ k \in Kind \ Silent
    BY <1>1, <1>6, <2>1, InvFacts
  <2>3. Waits'
    BY <1>6, <2>1 DEF Waits
  <2>4. Awaited(out', due', arrived', k, Head(list').short)
    <3>1. Awaited(Written(k, out), due, <<>>, k, FALSE)
      BY <1>2, <2>2, BufferedWritten
    <3>2. arrived' = <<>> /\ due' = due
      BY <1>1, <1>3
    <3> QED
      BY <1>1, <2>2, <3>1, <3>2
  <2>5. Slack' \in Nat /\ Timeout(k) \in Nat
    BY <1>1, <2>2, TimesAllow, TimesAssumption DEF Slack, Inv, Clocks
  <2>6. OnTime(out', due', timeLeft', Slack', k)
    <3>1. timeLeft' + Slack' >= Timeout(k)
      BY <1>1, <2>5
    <3> QED
      BY <1>1, <1>2, <3>1 DEF OnTime
  <2> QED
    BY <1>1, <1>3, <1>4, <2>1, <2>3, <2>4, <2>6 DEF Orderly, Matched
<1> QED
  BY <1>5, <1>6

LEMMA OrderlySent ==
    ASSUME Inv, Inv', FrameStarts, Orderly, Sent
    PROVE  Orderly'
<1>1. /\ pc = "send" /\ pc' = "idle"
      /\ UNCHANGED <<list, timeLeft, quiet, out, arrived, ready, due, sinceFrame>>
  BY DEF Sent, queue, times, buffers, telescope
<1>2. Matched'
  BY <1>1 DEF Orderly, Matched, Slack, Waits
<1> QED
  BY <1>1, <1>2 DEF Orderly, Told, Heard, Waits

\* What is in write_buff goes to the telescope, behind what it has already.
LEMMA WriteAppends ==
    ASSUME Inv, Write
    PROVE  /\ Len(due) \in Nat /\ Len(out) \in Nat /\ DOMAIN due = 1 .. Len(due)
           /\ DOMAIN out = 1 .. Len(out) /\ DOMAIN due' = 1 .. Len(due) + Len(out)
           /\ \A i \in DOMAIN due : due'[i] = due[i]
           /\ \A i \in DOMAIN due' : i > Len(due) =>
                /\ i - Len(due) \in DOMAIN out
                /\ due'[i] = [kind |-> out[i - Len(due)].kind, own |-> out[i - Len(due)].own,
                             age |-> 0]
<1> DEFINE sent == [i \in DOMAIN out |-> [kind |-> out[i].kind, own |-> out[i].own, age |-> 0]]
<1>1. due' = due \o sent
  BY DEF Write
<1>2. out \in Seq(Asked) /\ due \in Seq(Awaiting)
  BY DEF Inv, Lines
<1>3. /\ DOMAIN sent = DOMAIN out
      /\ \A i \in DOMAIN out : sent[i] = [kind |-> out[i].kind, own |-> out[i].own, age |-> 0]
  OBVIOUS
<1>4. sent \in Seq(Awaiting)
  <2>1. \A i \in DOMAIN out : sent[i] \in Awaiting
    <3>1. TAKE i \in DOMAIN out
    <3>2. out[i] \in Asked
      BY <1>2, LenProperties, ElementOfSeq
    <3> QED
      BY <3>2 DEF Asked, Awaiting
  <2> QED
    BY <1>2, <2>1, MapSeq
<1> HIDE DEF sent
<1>5. /\ Len(due) \in Nat /\ DOMAIN due = 1 .. Len(due) /\ Len(out) \in Nat
      /\ DOMAIN out = 1 .. Len(out) /\ DOMAIN sent = 1 .. Len(sent) /\ Len(sent) \in Nat
  BY <1>2, <1>4, LenProperties
<1>6. Len(sent) = Len(out)
  <2>1. PICK m \in Nat, n \in Nat : m = Len(sent) /\ n = Len(out)
    BY <1>5
  <2>2. 1 .. m = 1 .. n
    BY <1>3, <1>5, <2>1
  <2> QED
    BY <2>1, <2>2
<1>7. /\ due' \in Seq(Awaiting) /\ Len(due') = Len(due) + Len(out)
      /\ \A i \in 1 .. Len(due) + Len(out) : due'[i] = IF i <= Len(due) THEN due[i]
                                                       ELSE sent[i - Len(due)]
  <2>1. /\ due \o sent \in Seq(Awaiting) /\ Len(due \o sent) = Len(due) + Len(sent)
        /\ \A i \in 1 .. Len(due) + Len(sent) :
             (due \o sent)[i] = IF i <= Len(due) THEN due[i] ELSE sent[i - Len(due)]
    BY <1>2, <1>4, ConcatProperties
  <2> QED
    BY <1>1, <1>6, <2>1
<1>8. DOMAIN due' = 1 .. Len(due) + Len(out)
  BY <1>7, LenProperties
<1>9. \A i \in DOMAIN due : due'[i] = due[i]
  BY <1>5, <1>7
<1>10. ASSUME NEW i \in DOMAIN due', i > Len(due)
       PROVE  i - Len(due) \in DOMAIN out /\ due'[i] = sent[i - Len(due)]
  BY <1>5, <1>7, <1>8, <1>10
<1> QED
  BY <1>3, <1>5, <1>8, <1>9, <1>10

LEMMA OrderlyWrite ==
    ASSUME Inv, Inv', FrameStarts, Orderly, Write
    PROVE  Orderly'
<1> DEFINE k == Head(list).kind
           sh == Head(list).short
<1>1. /\ pc = "write" /\ pc' = "read" /\ out' = <<>>
      /\ UNCHANGED <<list, timeLeft, quiet, arrived, ready, sinceFrame>>
  BY DEF Write, queue, times
<1>2. due \in Seq(Awaiting) /\ timeLeft \in Int /\ sinceFrame \in Nat
  BY DEF Inv, Lines, Clocks
<1>3. Told' /\ Heard' /\ (Waits' <=> Waits)
  BY <1>1 DEF Orderly, Told, Heard, Waits, FrontWritten
<1>4. /\ Len(due) \in Nat /\ Len(out) \in Nat /\ DOMAIN due = 1 .. Len(due)
      /\ DOMAIN out = 1 .. Len(out) /\ DOMAIN due' = 1 .. Len(due) + Len(out)
      /\ \A i \in DOMAIN due : due'[i] = due[i]
  BY WriteAppends
<1>5. ASSUME NEW i \in DOMAIN due', i > Len(due)
      PROVE  /\ i - Len(due) \in DOMAIN out /\ due'[i].kind = out[i - Len(due)].kind
             /\ due'[i].own = out[i - Len(due)].own /\ due'[i].age = 0
  BY <1>5, WriteAppends
<1>9. \A i \in DOMAIN due' : i \in DOMAIN due \/ i > Len(due)
  BY <1>4
<1>6. CASE ~Waits
  <2>1. Mute(out) /\ Own(due) = {}
    BY <1>6 DEF Orderly, Matched
  <2>2. ASSUME NEW i \in DOMAIN due', i > Len(due)
        PROVE  due'[i].own = FALSE /\ due'[i].kind = "ToggleFormat"
    BY <1>5, <2>1, <2>2 DEF Mute
  <2>3. Own(due') = {}
    BY <1>4, <1>9, <2>1, <2>2 DEF Own
  <2>4. Late(due', quiet')
    BY <1>1, <1>4, <1>9, <2>2 DEF Orderly, Late
  <2>5. Matched'
    BY <1>1, <1>3, <1>6, <2>3 DEF Matched, Mute
  <2> QED
    BY <1>3, <2>4, <2>5 DEF Orderly
<1>7. CASE Waits /\ out = <<>>
  <2>1. due' = due
    <3>1. Len(out) = 0 /\ due' \in Seq(Awaiting)
      BY <1>7, EmptySeq DEF Inv, Lines
    <3>2. Len(due') = Len(due)
      <4>1. Len(due') \in Nat /\ DOMAIN due' = 1 .. Len(due')
        BY <3>1, LenProperties
      <4>2. PICK m \in Nat, n \in Nat : m = Len(due') /\ n = Len(due)
        BY <1>4, <4>1
      <4>3. 1 .. m = 1 .. n
        BY <1>4, <3>1, <4>1, <4>2
      <4> QED
        BY <4>2, <4>3
    <3> QED
      BY <1>2, <1>4, <3>1, <3>2, SeqEqual
  <2>2. OnTime(out, due, timeLeft, Slack, k) => OnTime(out', due', timeLeft', Slack', k)
    BY <1>1, <1>7, <2>1 DEF OnTime
  <2>3. Matched'
    BY <1>1, <1>3, <1>7, <2>1, <2>2 DEF Orderly, Matched
  <2> QED
    BY <1>1, <1>3, <2>1, <2>3 DEF Orderly
<1>8. CASE Waits /\ out # <<>>
  <2> DEFINE e == [kind |-> k, own |-> TRUE]
  <2>1. /\ Awaited(out, due, arrived, k, sh)
        /\ OnTime(out, due, timeLeft, Gap, k)
    BY <1>1, <1>8 DEF Orderly, Matched, Slack
  <2>2. Buffered(out, due, arrived, k, sh)
    BY <1>8, <2>1 DEF Awaited, Pending, Half, Over
  <2>3. k \in Kind \ Silent
    BY <1>8, WaitsFacts
  <2>4. PICK s \in Seq(Asked) : Mute(s) /\ out = Append(s, e)
    BY <2>2 DEF Buffered
  <2>5. e \in Asked /\ e.own = TRUE /\ e.kind = k
    BY <2>3 DEF Asked, Silent
  <2> HIDE DEF e
  <2>6. /\ Len(out) = Len(s) + 1 /\ Len(s) \in Nat /\ DOMAIN s = 1 .. Len(s)
        /\ \A i \in 1 .. Len(s) : out[i] = s[i]
        /\ out[Len(out)] = e
    BY <2>4, <2>5, AppendProperties, LenProperties
  <2> HIDE DEF k, sh
  <2>7. ASSUME NEW i \in DOMAIN due', i > Len(due), i # Len(due) + Len(out)
        PROVE  due'[i].own = FALSE /\ due'[i].kind = "ToggleFormat"
    <3>1. i - Len(due) \in 1 .. Len(s)
      BY <1>4, <2>6, <2>7
    <3> QED
      BY <1>5, <2>4, <2>6, <2>7, <3>1 DEF Mute
  <2> DEFINE n == Len(due) + Len(out)
  <2>8. n \in DOMAIN due' /\ due'[n].own = TRUE /\ due'[n].kind = k /\ due'[n].age = 0
    <3>1. n \in DOMAIN due' /\ n > Len(due) /\ n - Len(due) = Len(out)
      BY <1>4, <2>6
    <3> HIDE DEF n
    <3> QED
      BY <1>5, <2>5, <2>6, <3>1
  <2>9. Own(due) = {}
    BY <2>2 DEF Buffered
  <2>10. Own(due') = {n}
    <3>1. \A i \in DOMAIN due' : i # n => ~due'[i].own
      BY <1>4, <1>9, <2>7, <2>9 DEF Own, n
    <3> HIDE DEF n
    <3> QED
      BY <2>8, <3>1 DEF Own
  <2> HIDE DEF n
  <2>11. Late(due', quiet')
    <3>1. \A i \in DOMAIN due : ~due'[i].own /\ due'[i].kind # "ToggleFormat" => Past(due'[i], quiet)
      BY <1>4 DEF Orderly, Late
    <3>2. \A i \in DOMAIN due' : i \notin DOMAIN due => due'[i].own \/ due'[i].kind = "ToggleFormat"
      BY <1>4, <1>9, <2>7, <2>8 DEF n
    <3> QED
      BY <1>1, <3>1, <3>2 DEF Late
  <2>12. Awaited(out', due', arrived', k, sh)
    <3>1. Pending(out', due', arrived', k, sh)
      BY <1>1, <2>2, <2>8, <2>10 DEF Buffered, Pending
    <3> QED
      BY <1>1, <2>1, <2>10, <3>1 DEF Awaited, One
  <2>13. OnTime(out', due', timeLeft', Slack', k)
    <3>1. timeLeft + Gap >= Timeout(k) /\ Gap \in Nat /\ Timeout(k) \in Nat
      BY <1>8, <2>1, <2>3, TimesAllow, TimesAssumption DEF OnTime
    <3>2. timeLeft + 0 + Gap >= Timeout(k)
      BY <1>2, <3>1
    <3> QED
      BY <1>1, <2>8, <2>10, <3>2 DEF OnTime
  <2>14. Matched'
    BY <1>1, <1>3, <1>8, <2>12, <2>13 DEF Matched, k, sh
  <2> QED
    BY <1>3, <2>11, <2>14 DEF Orderly
<1> QED
  BY <1>6, <1>7, <1>8

LEMMA OrderlyRead ==
    ASSUME Inv, Inv', FrameStarts, Orderly, Read
    PROVE  Orderly'
<1>1. pc = "read" /\ ready' = FALSE /\ sinceFrame' = sinceFrame /\ quiet \in Nat
      /\ pc' \in {"idle", "answer"}
  BY DEF Read, Inv, Clocks
<1>2. sinceFrame = 0
  BY <1>1 DEF FrameStarts
<1>3. CASE ready /\ list = <<>> /\ quiet = 0
  <2>1. Reset
    BY <1>3 DEF Read
  <2>2. Own(due) = {}
    BY <1>3 DEF Orderly, Matched, Waits
  <2> QED
    BY <1>3, <2>1, <2>2, ResetOrderly DEF Orderly
<1>4. CASE ~(ready /\ list = <<>> /\ quiet = 0)
  <2>1. /\ UNCHANGED <<queue, out, due>>
        /\ \/ arrived' = <<>> /\ (Waits => arrived = <<>>)
           \/ arrived' = arrived /\ pc' = "answer"
    <3>1. CASE ~ready
      <4>1. arrived = <<>>
        BY <1>1, <3>1 DEF Orderly, Heard
      <4> QED
        BY <3>1, <4>1 DEF Read
    <3>2. CASE ready /\ (IF list = <<>> THEN quiet > 0 ELSE Head(list).kind \in Silent)
      <4>1. ~Waits
        BY <3>2 DEF Waits
      <4> QED
        BY <1>4, <3>2, <4>1 DEF Read
    <3>3. CASE ready /\ ~(IF list = <<>> THEN quiet > 0 ELSE Head(list).kind \in Silent)
      BY <1>1, <1>4, <3>3 DEF Read
    <3> QED
      BY <3>1, <3>2, <3>3
  <2>2. UNCHANGED <<list, timeLeft, quiet, out, due>>
    BY <2>1 DEF queue, times
  <2>3. (Waits' <=> Waits) /\ (FrontWritten' <=> FrontWritten) /\ Slack' = Slack
    BY <1>1, <2>2 DEF Waits, FrontWritten, Slack
  <2>4. Matched'
    <3>1. Waits => arrived' = arrived
      BY <2>1
    <3> QED
      BY <2>2, <2>3, <3>1 DEF Orderly, Matched
  <2>5. Told'
    BY <1>1, <2>1, <2>2, <2>3 DEF Orderly, Told
  <2>6. Heard'
    BY <2>1 DEF Heard
  <2> QED
    BY <2>2, <2>4, <2>5, <2>6 DEF Orderly
<1> QED
  BY <1>3, <1>4

\* The answer of the command that waits is read to its end, or to the end of its
\* first part.
LEMMA HashLast ==
    ASSUME NEW s \in Seq(Answers), NEW n \in {1, 2}, Len(s) = n, s[n].what \in Hashed,
           n = 2 => s[1].what \notin Hashed, NEW r \in ToHash(s)
    PROVE  r.rc = 1 /\ r.rest = <<>>
<1>1. DOMAIN s = 1 .. n
  BY LenProperties
<1>2. FirstHash(s) = {n}
  BY <1>1 DEF FirstHash
<1>3. r = Outcome(1, SubSeq(s, n + 1, n), TRUE)
  BY <1>2 DEF ToHash
<1>4. /\ SubSeq(s, n + 1, n) \in Seq(Answers)
      /\ Len(SubSeq(s, n + 1, n)) = IF n + 1 <= n THEN n - (n + 1) + 1 ELSE 0
  <2>1. \A j \in n + 1 .. n : s[j] \in Answers
    OBVIOUS
  <2> QED
    BY <2>1, SubSeqProperties
<1>5. SubSeq(s, n + 1, n) = <<>>
  <2>1. Len(SubSeq(s, n + 1, n)) = 0
    BY <1>4
  <2> QED
    BY <1>4, <2>1, EmptySeq
<1> QED
  BY <1>3, <1>5 DEF Outcome

LEMMA TailOne ==
    ASSUME NEW s \in Seq(Answers), Len(s) = 1
    PROVE  Tail(s) = <<>>
<1>1. s # <<>>
  BY EmptySeq
<1>2. Tail(s) \in Seq(Answers) /\ Len(Tail(s)) = 0
  BY <1>1, HeadTailProperties
<1> QED
  BY <1>2, EmptySeq

Fitting(r, o, d, k) ==
    /\ r.rc \in {0, 1} /\ r.rest = <<>>
    /\ r.rc = 1 => o = <<>> /\ Own(d) = {}
    /\ r.rc = 0 => Awaited(o, d, <<>>, k, r.short)

LEMMA OutcomesOwn ==
    ASSUME NEW o, NEW d, NEW s \in Seq(Answers), NEW c \in Command, c.kind \notin Silent,
           c.short => c.kind = "Slew", Awaited(o, d, s, c.kind, c.short),
           NEW r \in Outcomes(c, s)
    PROVE  Fitting(r, o, d, c.kind)
<1>1. /\ c.kind \in {"Set", "Slew", "GetRa", "GetDec"} /\ c.short \in BOOLEAN
      /\ Len(s) \in Nat /\ (s = <<>> <=> Len(s) = 0)
  BY LenProperties, EmptySeq DEF Command, Kind, Silent
<1>2. Mine(<<>>) /\ One(Own(d))
  BY DEF Mine, Awaited
<1>3. CASE s = <<>>
  <2>1. r = Outcome(0, <<>>, c.short)
    BY <1>3 DEF Outcomes
  <2> QED
    BY <1>3, <2>1 DEF Fitting, Outcome
<1>4. CASE s # <<>>
  <2>1. \/ Half(o, d, s, c.kind, c.short)
        \/ Over(o, d, s, c.kind, c.short)
    BY <1>4 DEF Awaited, Buffered, Pending
  <2>3. CASE Half(o, d, s, c.kind, c.short)
    <3>1. c.kind = "Slew" /\ ~c.short /\ Len(s) = 1 /\ s[1].what = "1"
      BY <1>4, <2>3 DEF Half
    <3>2. r = Outcome(0, <<>>, TRUE)
      BY <1>4, <3>1 DEF Outcomes, ReadSlew, Silent
    <3>3. r.rc = 0 /\ r.rest = <<>> /\ r.short
      BY <3>2 DEF Outcome
    <3>4. Half(o, d, <<>>, c.kind, r.short)
      BY <2>3, <3>3 DEF Half
    <3>5. Awaited(o, d, <<>>, c.kind, r.short)
      BY <1>2, <3>4 DEF Awaited
    <3>6. r.rc \in {0, 1} /\ r.rc # 1
      BY <3>3
    <3> QED
      BY <3>3, <3>5, <3>6, Zenon DEF Fitting
  <2>4. CASE Over(o, d, s, c.kind, c.short)
    <3>1. o = <<>> /\ Own(d) = {} /\ Few(s, c.kind, c.short)
      BY <2>4 DEF Over
    <3>2. ASSUME r.rc = 1, r.rest = <<>> PROVE Fitting(r, o, d, c.kind)
      BY <3>1, <3>2 DEF Fitting
    <3>3. CASE c.kind # "Slew"
      <4>1. Len(s) = 1 /\ s[1].what \in Replies(c.kind)
        BY <1>4, <3>1, <3>3 DEF Few
      <4>2. Tail(s) = <<>>
        BY <4>1, TailOne
      <4>3. 1 \in DOMAIN s
        BY <4>1, LenProperties
      <4>4. CASE c.kind = "Set"
        <5>1. r = Outcome(1, Tail(s), FALSE)
          BY <1>4, <4>1, <4>4 DEF Outcomes, ReadSet, Silent, Replies
        <5> QED
          BY <3>2, <4>2, <5>1 DEF Outcome
      <4>5. CASE c.kind \in {"GetRa", "GetDec"}
        <5>1. CASE c.kind = "GetRa"
          <6>1. r \in ReadPosition(s, "ra") /\ s[1].what = "ra"
            BY <1>4, <4>1, <5>1 DEF Outcomes, Silent, Replies
          <6>2. r = Outcome(1, Tail(s), FALSE)
            BY <4>3, <6>1 DEF ReadPosition, JustDigits
          <6> QED
            BY <3>2, <4>2, <6>2 DEF Outcome
        <5>2. CASE c.kind = "GetDec"
          <6>1. r \in ReadPosition(s, "dec") /\ s[1].what = "dec"
            BY <1>4, <4>1, <5>2 DEF Outcomes, Silent, Replies
          <6>2. r = Outcome(1, Tail(s), FALSE)
            BY <4>3, <6>1 DEF ReadPosition, JustDigits
          <6> QED
            BY <3>2, <4>2, <6>2 DEF Outcome
        <5> QED
          BY <4>5, <5>1, <5>2
      <4> QED
        BY <1>1, <3>3, <4>4, <4>5
    <3>4. CASE c.kind = "Slew"
      <4>1. r \in ReadSlew(s, c.short)
        BY <1>4, <3>4 DEF Outcomes, Silent
      <4>2. CASE c.short
        <5>1. Len(s) = 1 /\ s[1].what = "text"
          BY <1>4, <3>1, <4>2 DEF Few
        <5>2. r \in ToHash(s)
          BY <4>1, <4>2 DEF ReadSlew
        <5> QED
          BY <3>2, <5>1, <5>2, HashLast DEF Hashed, What
      <4>3. CASE ~c.short /\ Len(s) = 1
        <5>1. s[1].what \in {"0", "1", "1text"}
          BY <1>4, <3>1, <3>4, <4>3 DEF Few, Replies
        <5>2. CASE s[1].what = "0"
          <6>1. r = Outcome(1, Tail(s), TRUE)
            BY <4>1, <4>3, <5>2 DEF ReadSlew
          <6> QED
            BY <3>2, <4>3, <6>1, TailOne DEF Outcome
        <5>3. CASE s[1].what = "1"
          <6>1. r = Outcome(0, <<>>, TRUE)
            BY <4>1, <4>3, <5>3 DEF ReadSlew
          <6>2. Over(o, d, <<>>, c.kind, r.short)
            BY <3>1 DEF Over, Few
          <6>3. r.rc = 0 /\ r.rest = <<>>
            BY <6>1 DEF Outcome
          <6> QED
            BY <1>2, <6>2, <6>3 DEF Fitting, Awaited
        <5>4. CASE s[1].what = "1text"
          <6>1. r \in ToHash(s)
            BY <4>1, <4>3, <5>4 DEF ReadSlew
          <6> QED
            BY <3>2, <4>3, <5>4, <6>1, HashLast DEF Hashed, What
        <5> QED
          BY <5>1, <5>2, <5>3, <5>4
      <4>4. CASE ~c.short /\ Len(s) # 1
        <5>1. Len(s) = 2 /\ s[1].what = "1" /\ s[2].what = "text"
          BY <1>4, <3>1, <4>4 DEF Few
        <5>2. r \in ToHash(s)
          BY <4>1, <4>4, <5>1 DEF ReadSlew
        <5> QED
          BY <3>2, <5>1, <5>2, HashLast DEF Hashed, What
      <4> QED
        BY <1>1, <4>2, <4>3, <4>4
    <3> QED
      BY <3>3, <3>4
  <2> QED
    BY <2>1, <2>3, <2>4
<1> QED
  BY <1>3, <1>4

\* What the queue is without its front command, with the change of format.
Queued == Tail(list) \o (IF Toggles(Head(list)) THEN <<New("ToggleFormat")>> ELSE <<>>)
LEMMA QueuedBehind ==
    ASSUME Inv, list # <<>>
    PROVE  /\ Listed(Queued, GotosWithoutFront)
           /\ Queued # <<>> => ~Head(Queued).written /\ Head(Queued).short = FALSE
                              /\ Head(Queued).kind \in Kind
<1>1. /\ Listed(Tail(list), GotosWithoutFront)
      /\ Tail(list) # <<>> => ~Head(Tail(list)).written
  BY FrontLeaves
<1>2. Tail(list) \in Seq(Command)
  BY <1>1 DEF Listed
<1>3. Listed(Queued, GotosWithoutFront) /\ (Queued # <<>> => ~Head(Queued).written)
  <2>1. CASE Toggles(Head(list))
    <3> DEFINE e == New("ToggleFormat")
    <3>1. e \in Command /\ ~e.written /\ ~e.short /\ e.kind = "ToggleFormat"
      BY NewCommand, Kinds
    <3> HIDE DEF e
    <3>2. Queued = Append(Tail(list), e)
      BY <1>2, <2>1, <3>1, AppendIsConcat DEF e, Queued
    <3> QED
      BY <1>1, <3>1, <3>2, ListedAppendOther
  <2>2. CASE ~Toggles(Head(list))
    <3>1. Queued = Tail(list)
      BY <1>2, <2>2, ConcatEmptySeq DEF Queued
    <3> QED
      BY <1>1, <3>1
  <2> QED
    BY <2>1, <2>2
<1>4. ASSUME Queued # <<>>
      PROVE  Head(Queued).short = FALSE /\ Head(Queued).kind \in Kind
  <2>1. /\ Queued \in Seq(Command)
        /\ \A i \in DOMAIN Queued : Queued[i].short => Queued[i].written
    BY <1>3 DEF Listed
  <2>2. Head(Queued) \in Command /\ Head(Queued) = Queued[1] /\ 1 \in DOMAIN Queued
    BY <1>4, <2>1, TailAt
  <2> QED
    BY <1>3, <1>4, <2>1, <2>2 DEF Command
<1> QED
  BY <1>3, <1>4

LEMMA OrderlyAnswered ==
    ASSUME Inv, Late(due, quiet), list # <<>>, sinceFrame' = 0, Mute(out), Own(due) = {},
           NEW r, r.rest = <<>>, Answered(r)
    PROVE  Orderly' /\ arrived' = <<>>
<1> DEFINE next == Queued # <<>> /\ quiet = 0
           k == Head(Queued).kind
<1>1. /\ list' = IF next THEN [Queued EXCEPT ![1].written = TRUE] ELSE Queued
      /\ timeLeft' = IF next THEN Timeout(k) ELSE Forever
      /\ arrived' = Orphaned(<<>>) /\ due' = Orphaned(due)
      /\ pc' = IF next THEN "answer" ELSE "idle"
      /\ quiet' = quiet
      /\ out' = IF next THEN Written(k, Orphaned(out)) ELSE Orphaned(out)
  BY DEF Answered, Queued
<1>2. /\ due \in Seq(Awaiting) /\ quiet \in Nat /\ Orphaned(<<>>) = <<>>
      /\ Mute(Orphaned(out)) /\ Orphaned(out) \in Seq(Asked)
  BY OrphanedTypes, MuteOrphaned DEF Inv, Lines, Clocks
<1>3. arrived' = <<>> /\ Own(due') = {} /\ Late(due', quiet')
  <2>1. \A i \in Own(due) : Past(due[i], quiet)
    OBVIOUS
  <2>2. Late(Orphaned(due), quiet)
    BY <1>2, <2>1, LateOrphaned
  <2> QED
    BY <1>1, <1>2, <2>2, OwnOrphaned
<1>4. Told' /\ Heard'
  BY <1>3 DEF Told, Heard
<1>5. CASE ~(next /\ k \notin Silent)
  <2>1. Mute(out')
    <3>1. CASE next
      BY <1>1, <1>2, <1>5, <3>1, MuteWritten
    <3>2. CASE ~next
      BY <1>1, <1>2, <3>2
    <3> QED
      BY <3>1, <3>2
  <2>2. ~Waits'
    <3>1. CASE next
      <4>1. Head(list').kind = k
        BY <1>1, <3>1, QueuedBehind, ListedWritten
      <4> QED
        BY <1>5, <3>1, <4>1 DEF Waits
    <3>2. CASE ~next
      BY <1>1, <3>2, QueuedBehind DEF Waits
    <3> QED
      BY <3>1, <3>2
  <2> QED
    BY <1>3, <1>4, <2>1, <2>2 DEF Orderly, Matched
<1>6. CASE next /\ k \notin Silent
  <2>1. /\ Head(list').written /\ Head(list').kind = k /\ Head(list').short = FALSE
        /\ list' # <<>> /\ k \in Kind \ Silent
    <3>1. list' = [Queued EXCEPT ![1].written = TRUE] /\ Queued # <<>>
      BY <1>1, <1>6
    <3>2. /\ Listed(Queued, GotosWithoutFront) /\ Head(Queued).short = FALSE /\ k \in Kind
      BY <3>1, QueuedBehind
    <3> HIDE DEF k
    <3> QED
      BY <1>6, <3>1, <3>2, ListedWritten DEF k
  <2>2. Waits'
    BY <1>6, <2>1 DEF Waits
  <2>3. out' = Written(k, Orphaned(out))
    BY <1>1, <1>6
  <2> HIDE DEF k
  <2>4. Awaited(out', due', arrived', k, Head(list').short)
    <3>1. PICK d : d = due'
      OBVIOUS
    <3>2. PICK o : o = Orphaned(out)
      OBVIOUS
    <3>3. Awaited(Written(k, o), d, <<>>, k, FALSE)
      BY <1>2, <1>3, <2>1, <3>1, <3>2, BufferedWritten
    <3> QED
      BY <1>3, <2>1, <2>3, <3>1, <3>2, <3>3
  <2>5. Slack' = 0 /\ Timeout(k) \in Nat
    BY <1>1, <1>6, <2>1, TimesAllow DEF Slack
  <2>6. OnTime(out', due', timeLeft', Slack', k)
    <3>1. timeLeft' = Timeout(k)
      BY <1>1, <1>6
    <3>2. timeLeft' + Slack' >= Timeout(k)
      BY <2>5, <3>1
    <3> QED
      BY <1>3, <3>2 DEF OnTime
  <2> QED
    BY <1>3, <1>4, <2>1, <2>2, <2>4, <2>6 DEF Orderly, Matched
<1> QED
  BY <1>3, <1>5, <1>6

LEMMA FrontShort ==
    ASSUME NEW l \in Seq(Command), l # <<>>, NEW b \in BOOLEAN
    PROVE  Head([l EXCEPT ![1].short = b]).short <=> b
<1> DEFINE e == [l[1] EXCEPT !.short = b]
<1>1. 1 \in DOMAIN l /\ l[1] \in Command /\ DOMAIN l = 1 .. Len(l) /\ Len(l) \in Nat
  BY TailAt, LenProperties
<1>2. e \in Command /\ (e.short <=> b)
  BY <1>1 DEF Command
<1>3. [l EXCEPT ![1].short = b] = [l EXCEPT ![1] = e]
  BY <1>1
<1> HIDE DEF e
<1>4. /\ [l EXCEPT ![1] = e] \in Seq(Command) /\ Len([l EXCEPT ![1] = e]) = Len(l)
      /\ [l EXCEPT ![1] = e][1] = e
  BY <1>1, <1>2, ExceptSeq
<1>5. Head([l EXCEPT ![1] = e]) = e
  BY <1>1, <1>4, HeadTailProperties, EmptySeq
<1> QED
  BY <1>2, <1>3, <1>5

LEMMA OrderlyReadAnswer ==
    ASSUME Inv, Inv', FrameStarts, Orderly, ReadAnswer
    PROVE  Orderly' /\ (misread' => misread) /\ arrived' = <<>>
<1>1. pc = "answer" /\ list # <<>> /\ sinceFrame' = sinceFrame /\ ready' = ready
  BY DEF ReadAnswer, Inv, HasFront
<1>2. sinceFrame = 0 /\ quiet \in Nat /\ arrived \in Seq(Answers)
  BY <1>1 DEF FrameStarts, Inv, Clocks, Lines
<1>3. CASE ~Head(list).written
  <2>1. /\ arrived' = <<>> /\ pc' = "idle" /\ UNCHANGED <<queue, out, due, misread>>
    BY <1>3 DEF ReadAnswer
  <2>2. UNCHANGED <<list, quiet>>
    BY <2>1 DEF queue, times
  <2>3. ~Waits /\ ~Waits'
    BY <1>3, <2>2 DEF Waits
  <2> QED
    BY <2>1, <2>2, <2>3 DEF Orderly, Matched, Told, Heard
<1>4. CASE Head(list).written
  <2>1. PICK r \in Outcomes(Head(list), arrived) :
          CASE r.rc = 1  -> Answered(r)
            [] r.rc = 0  -> /\ list' = [list EXCEPT ![1].short = r.short]
                            /\ arrived' = r.rest /\ pc' = "idle"
                            /\ UNCHANGED <<gotos, poll, longUsed, times, out, due>>
            [] r.rc = -1 -> Reset /\ pc' = "idle"
    BY <1>4 DEF ReadAnswer
  <2>2. misread' = (misread \/ ( /\ Head(list).kind \notin Silent /\ arrived # <<>>
                                 /\ ~Head(arrived).own ))
    BY <1>4 DEF ReadAnswer
  <2>3. /\ Head(list) \in Command /\ Listed(list, gotos)
        /\ Head(list).short => Head(list).kind = "Slew"
    BY <1>1, InvFacts DEF Inv
  <2>4. CASE Head(list).kind \in Silent
    <3>1. ~Waits
      BY <2>4 DEF Waits
    <3>2. quiet = 0
      BY <1>1, <1>2, <1>4 DEF Inv, QuietIsQuiet
    <3>3. arrived = <<>> /\ Mute(out) /\ Own(due) = {}
      BY <1>1, <1>4, <3>1, <3>2 DEF Orderly, Told, FrontWritten, Matched
    <3>4. r.rc = 1 /\ r.rest = <<>>
      BY <2>4, <3>3, OutcomesSilent
    <3>5. Answered(r)
      BY <2>1, <3>4
    <3>6. Orderly' /\ arrived' = <<>>
      BY <1>1, <1>2, <3>3, <3>4, <3>5, OrderlyAnswered DEF Orderly
    <3> QED
      BY <2>2, <2>4, <3>6
  <2>5. CASE Head(list).kind \notin Silent
    <3>1. Waits
      BY <1>1, <1>4, <2>5 DEF Waits
    <3>2. /\ Awaited(out, due, arrived, Head(list).kind, Head(list).short)
          /\ OnTime(out, due, timeLeft, Slack, Head(list).kind)
      BY <3>1 DEF Orderly, Matched
    <3>3. Fitting(r, out, due, Head(list).kind) /\ Proper(r, Head(list))
      BY <1>2, <2>3, <2>5, <3>2, OutcomesOwn, OutcomesProper
    <3>4. misread' => misread
      <4>1. arrived # <<>> => Head(arrived).own
        <5>1. arrived # <<>> => Head(arrived) = arrived[1] /\ 1 \in DOMAIN arrived
          BY <1>2, HeadTailProperties, LenProperties, EmptySeq
        <5> QED
          BY <3>2, <5>1 DEF Awaited, Mine
      <4> QED
        BY <2>2, <4>1
    <3>5. CASE r.rc = 1
      <4>1. Answered(r) /\ r.rest = <<>> /\ out = <<>> /\ Own(due) = {}
        BY <2>1, <3>3, <3>5 DEF Fitting
      <4>3. Mute(out)
        BY <4>1 DEF Mute
      <4>2. Orderly' /\ arrived' = <<>>
        BY <1>1, <1>2, <4>1, <4>3, OrderlyAnswered DEF Orderly
      <4> QED
        BY <3>4, <4>2
    <3>6. CASE r.rc = 0
      <4>1. /\ list' = [list EXCEPT ![1].short = r.short]
            /\ arrived' = <<>> /\ pc' = "idle"
            /\ UNCHANGED <<timeLeft, quiet, out, due>>
        BY <2>1, <3>3, <3>6 DEF times, Fitting
      <4>2. r.short \in BOOLEAN /\ (r.short => Head(list).kind = "Slew")
        BY <3>3 DEF Proper
      <4>3. /\ list' # <<>> /\ Head(list').written /\ Head(list').kind = Head(list).kind
            /\ Listed(list', gotos)
        BY <1>1, <1>4, <2>3, <4>1, <4>2, ListedShort
      <4>9. Head(list').short = r.short
        <5>1. Head(list').short <=> r.short
          BY <1>1, <2>3, <4>1, <4>2, FrontShort DEF Listed
        <5>2. Head(list').short \in BOOLEAN
          BY <4>3, TailAt DEF Listed, Command
        <5> QED
          BY <4>2, <5>1, <5>2
      <4>4. Waits'
        BY <2>5, <4>3 DEF Waits
      <4>5. Awaited(out, due, <<>>, Head(list).kind, r.short)
        BY <3>3, <3>6 DEF Fitting
      <4>6. Slack' = Slack
        BY <1>1, <4>1 DEF Slack
      <4>7. Matched'
        <5>1. Awaited(out', due', arrived', Head(list').kind, Head(list').short)
          BY <4>1, <4>3, <4>5, <4>9
        <5>2. OnTime(out', due', timeLeft', Slack', Head(list').kind)
          BY <3>2, <4>1, <4>3, <4>6
        <5> QED
          BY <4>4, <5>1, <5>2 DEF Matched
      <4>8. Told' /\ Heard' /\ Late(due', quiet')
        BY <4>1 DEF Told, Heard, Orderly
      <4> QED
        BY <3>4, <4>1, <4>7, <4>8 DEF Orderly
    <3> QED
      BY <3>3, <3>5, <3>6 DEF Fitting
  <2> QED
    BY <2>4, <2>5
<1> QED
  BY <1>3, <1>4

--------------------------------------------------------------------------------
\* What arrives is the answer awaited, or it comes in the quiet time.
LEMMA ArrivesLast ==
    ASSUME NEW what \in What, NEW own \in BOOLEAN, Arrives(what, own), Inv
    PROVE  /\ Len(arrived') = Len(arrived) + 1 /\ Len(arrived) \in Nat
           /\ DOMAIN arrived = 1 .. Len(arrived) /\ DOMAIN arrived' = 1 .. Len(arrived) + 1
           /\ \A i \in DOMAIN arrived : arrived'[i] = arrived[i]
           /\ arrived'[Len(arrived) + 1].what = what
           /\ arrived'[Len(arrived) + 1].own <=> own
           /\ arrived = <<>> => Len(arrived) = 0
<1> DEFINE e == [what |-> what, own |-> own, long |-> what \in {"ra", "dec"} => format]
<1>1. arrived' = Append(arrived, e) /\ arrived \in Seq(Answers)
  BY DEF Arrives, Inv, Lines
<1>2. e.what = what /\ (e.own <=> own)
  OBVIOUS
<1> HIDE DEF e
<1>3. arrived \in Seq(Answers \union {e}) /\ e \in Answers \union {e}
  BY <1>1
<1>4. /\ Len(arrived') = Len(arrived) + 1 /\ Len(arrived) \in Nat
      /\ \A i \in 1 .. Len(arrived) : arrived'[i] = arrived[i]
      /\ arrived'[Len(arrived) + 1] = e
      /\ arrived' \in Seq(Answers \union {e})
  BY <1>1, <1>3, AppendProperties, LenProperties
<1>5. DOMAIN arrived = 1 .. Len(arrived) /\ DOMAIN arrived' = 1 .. Len(arrived) + 1
  BY <1>1, <1>3, <1>4, LenProperties
<1> QED
  BY <1>1, <1>2, <1>4, <1>5, EmptySeq

\* The rest of an answer takes the place of the answer.
LEMMA RestStays ==
    ASSUME NEW d \in Seq(Awaiting), d # <<>>, NEW e \in Awaiting, e.own <=> d[1].own
    PROVE  /\ <<e>> \o Tail(d) \in Seq(Awaiting)
           /\ DOMAIN (<<e>> \o Tail(d)) = DOMAIN d /\ 1 \in DOMAIN d
           /\ (<<e>> \o Tail(d))[1] = e
           /\ \A i \in DOMAIN d : i # 1 => (<<e>> \o Tail(d))[i] = d[i]
           /\ Own(<<e>> \o Tail(d)) = Own(d)
<1> DEFINE t == <<e>> \o Tail(d)
<1>1. /\ Tail(d) \in Seq(Awaiting) /\ Len(Tail(d)) = Len(d) - 1
      /\ \A i \in 1 .. Len(Tail(d)) : Tail(d)[i] = d[i + 1]
  BY HeadTailProperties
<1>2. <<e>> \in Seq(Awaiting) /\ Len(<<e>>) = 1 /\ <<e>>[1] = e
  OBVIOUS
<1>3. /\ t \in Seq(Awaiting) /\ Len(t) = 1 + Len(Tail(d))
      /\ \A i \in 1 .. 1 + Len(Tail(d)) : t[i] = IF i <= 1 THEN <<e>>[i] ELSE Tail(d)[i - 1]
  BY <1>1, <1>2, ConcatProperties
<1> HIDE DEF t
<1>4. DOMAIN d = 1 .. Len(d) /\ Len(d) \in Nat /\ Len(d) > 0 /\ DOMAIN t = 1 .. Len(d)
  BY <1>1, <1>3, LenProperties, EmptySeq
<1>5. t[1] = e
  BY <1>1, <1>2, <1>3, <1>4
<1>6. ASSUME NEW i \in DOMAIN d, i # 1 PROVE t[i] = d[i]
  <2>1. /\ i - 1 \in 1 .. Len(Tail(d)) /\ (i - 1) + 1 = i /\ ~(i <= 1)
        /\ i \in 1 .. 1 + Len(Tail(d))
    BY <1>1, <1>4, <1>6
  <2> QED
    BY <1>1, <1>3, <2>1
<1>7. Own(t) = Own(d)
  BY <1>4, <1>5, <1>6 DEF Own
<1> QED
  BY <1>3, <1>4, <1>5, <1>6, <1>7 DEF t

LEMMA OrderlyAnswer ==
    ASSUME Inv, Inv', FrameStarts, Orderly, Answer, ~unruly'
    PROVE  Orderly'
<1> DEFINE d == Head(due)
           k == Head(list).kind
           s == Head(list).short
<1>1. /\ pc \in {"idle", "write"} /\ due # <<>> /\ ready' = TRUE
      /\ Head(due).kind # "ToggleFormat"
      /\ UNCHANGED <<list, timeLeft, quiet, out, pc, sinceFrame>>
  BY DEF Answer, Sends, TelescopeActs, queue, times
<1>2. PICK what \in Replies(d.kind), more \in BOOLEAN :
        /\ more => what = "1" /\ d.kind = "Slew"
        /\ Arrives(what, d.own)
        /\ due' = (IF more THEN <<[d EXCEPT !.kind = "Rest"]>> ELSE <<>>) \o Tail(due)
        /\ unruly' = (unruly \/ d.age > (IF d.kind \in {"Slew", "Rest"} THEN PromptSlew
                                                                        ELSE Prompt))
  BY DEF Answer
<1>3. due \in Seq(Awaiting) /\ quiet \in Nat /\ sinceFrame \in Nat /\ timeLeft \in Int
  BY DEF Inv, Lines, Clocks
<1>4. /\ d = due[1] /\ 1 \in DOMAIN due /\ d \in Awaiting /\ Fewer(Tail(due), due, 0)
      /\ One(Own(due)) /\ due[1].own => Own(Tail(due)) = {}
  BY <1>1, <1>3, FewerTail
<1>5. \A i \in DOMAIN due : due[i] \in Awaiting
  BY <1>3, LenProperties, ElementOfSeq
<1>18. d.kind # "ToggleFormat"
  BY <1>1
<1> HIDE DEF d
<1>6. d.kind \in {"Set", "Slew", "GetRa", "GetDec", "Rest"} /\ d.own \in BOOLEAN /\ d.age \in Nat
  BY <1>4, <1>18 DEF Awaiting, Kind, Silent
<1>7. what \in What
  BY <1>2, <1>6 DEF Replies, What
<1>8. /\ Len(arrived') = Len(arrived) + 1 /\ Len(arrived) \in Nat
      /\ DOMAIN arrived = 1 .. Len(arrived) /\ DOMAIN arrived' = 1 .. Len(arrived) + 1
      /\ \A i \in DOMAIN arrived : arrived'[i] = arrived[i]
      /\ arrived'[Len(arrived) + 1].what = what
      /\ arrived'[Len(arrived) + 1].own <=> d.own
      /\ arrived = <<>> => Len(arrived) = 0
  BY <1>2, <1>6, <1>7, ArrivesLast
<1>9. Heard' /\ (Waits' <=> Waits) /\ Slack' = Slack
  BY <1>1 DEF Heard, Waits, Slack
<1>10. d.age <= (IF d.kind \in {"Slew", "Rest"} THEN PromptSlew ELSE Prompt)
  <2>1. ~(d.age > (IF d.kind \in {"Slew", "Rest"} THEN PromptSlew ELSE Prompt))
    BY <1>2
  <2> QED
    BY <1>6, <2>1, PromptAssumption
\* The answer to an earlier command comes in the quiet time.
<1>11. ~d.own => quiet > Gap /\ d.kind \notin {"Slew", "Rest"}
  <2>1. ~d.own => Past(d, quiet)
    BY <1>4, <1>18 DEF Orderly, Late
  <2> QED
    BY <1>3, <1>6, <1>10, <2>1, PromptAssumption, TimesAssumption DEF Past
<1>12. ~d.own => due' = Tail(due)
  <2>1. Tail(due) \in Seq(Awaiting)
    BY <1>1, <1>3, HeadTailProperties
  <2> QED
    BY <1>2, <1>11, <2>1, ConcatEmptySeq
<1>13. ~more => due' = Tail(due)
  <2>1. Tail(due) \in Seq(Awaiting)
    BY <1>1, <1>3, HeadTailProperties
  <2> QED
    BY <1>2, <2>1, ConcatEmptySeq
<1> DEFINE e == [d EXCEPT !.kind = "Rest"]
<1>14. more => /\ d.own /\ d.kind = "Slew" /\ what = "1"
               /\ due' \in Seq(Awaiting) /\ DOMAIN due' = DOMAIN due
               /\ due'[1].kind = "Rest" /\ due'[1].age = d.age /\ (due'[1].own <=> d.own)
               /\ \A i \in DOMAIN due : i # 1 => due'[i] = due[i]
               /\ Own(due') = Own(due)
  <2>1. e \in Awaiting /\ (e.own <=> d.own) /\ e.kind = "Rest" /\ e.age = d.age
    BY <1>4 DEF Awaiting
  <2>2. more => due' = <<e>> \o Tail(due)
    BY <1>2
  <2>3. e.own <=> due[1].own
    BY <1>4, <2>1
  <2> HIDE DEF e
  <2>4. SUFFICES ASSUME more
                 PROVE  /\ d.own /\ d.kind = "Slew" /\ what = "1"
                        /\ due' \in Seq(Awaiting) /\ DOMAIN due' = DOMAIN due
                        /\ due'[1].kind = "Rest" /\ due'[1].age = d.age
                        /\ due'[1].own <=> d.own
                        /\ \A i \in DOMAIN due : i # 1 => due'[i] = due[i]
                        /\ Own(due') = Own(due)
    OBVIOUS
  <2>5. d.own /\ d.kind = "Slew" /\ what = "1"
    BY <1>2, <1>11, <2>4
  <2>6. due' = <<e>> \o Tail(due)
    BY <2>2, <2>4
  <2>7. /\ due' \in Seq(Awaiting) /\ DOMAIN due' = DOMAIN due /\ due'[1] = e
        /\ \A i \in DOMAIN due : i # 1 => due'[i] = due[i]
        /\ Own(due') = Own(due)
    BY <1>1, <1>3, <2>1, <2>3, <2>6, RestStays
  <2> QED
    BY <2>1, <2>5, <2>7
<1>15. Late(due', quiet')
  <2>1. CASE ~more
    <3>1. Late(Tail(due), quiet)
      <4>1. quiet + 0 >= quiet
        BY <1>3
      <4> QED
        BY <1>3, <1>4, <1>5, <4>1, LateFewer DEF Orderly
    <3> QED
      BY <1>1, <1>13, <2>1, <3>1
  <2>2. CASE more
    <3>1. \A i \in DOMAIN due' : ~due'[i].own => i # 1 /\ i \in DOMAIN due
      BY <1>14, <2>2
    <3> QED
      BY <1>1, <1>14, <2>2, <3>1 DEF Orderly, Late
  <2> QED
    BY <2>1, <2>2
<1>16. CASE ~Waits
  <2>1. Mute(out) /\ Own(due) = {}
    BY <1>16 DEF Orderly, Matched
  <2>2. ~d.own
    BY <1>4, <2>1 DEF Own
  <2>3. quiet > Gap
    BY <1>11, <2>2
  <2>4. Own(due') = {}
    <3>1. Own(Tail(due)) = {}
      BY <1>4, <2>1 DEF Fewer, Own
    <3> QED
      BY <1>12, <2>2, <3>1
  <2>5. Told'
    <3>1. quiet' + sinceFrame' > Gap /\ quiet' > 0
      BY <1>1, <1>3, <2>3, TimesAssumption
    <3> QED
      BY <3>1 DEF Told
  <2>6. Matched'
    BY <1>1, <1>9, <1>16, <2>1, <2>4 DEF Matched
  <2> QED
    BY <1>9, <1>15, <2>5, <2>6 DEF Orderly
<1>17. CASE Waits
  <2>1. /\ Awaited(out, due, arrived, k, s) /\ OnTime(out, due, timeLeft, Slack, k)
        /\ quiet = 0 /\ k \in Kind \ Silent /\ s \in BOOLEAN
    BY <1>17, WaitsFacts DEF Orderly, Matched
  <2> HIDE DEF k, s
  <2>2. d.own
    BY <1>3, <1>11, <2>1, TimesAssumption
  <2>3. 1 \in Own(due) /\ One(Own(due)) /\ Mine(arrived)
    BY <1>4, <2>1, <2>2 DEF Own, Awaited
  <2>4. out = <<>>
    BY <2>1, <2>3 DEF Awaited, Buffered, Pending, Half, Over
  <2>5. Mine(arrived')
    <3>1. ASSUME NEW i \in DOMAIN arrived' PROVE arrived'[i].own
      <4>1. CASE i = Len(arrived) + 1
        BY <1>8, <2>2, <4>1
      <4>2. CASE i # Len(arrived) + 1
        <5>1. i \in DOMAIN arrived
          BY <1>8, <4>2
        <5> QED
          BY <1>8, <2>3, <5>1 DEF Mine
      <4> QED
        BY <4>1, <4>2
    <3> QED
      BY <3>1 DEF Mine
  <2>6. CASE more
    <3>1. Pending(out, due, arrived, k, s)
      BY <1>4, <1>14, <2>1, <2>3, <2>6 DEF Awaited, Buffered, Pending, Half, Over
    <3>2. k = "Slew" /\ ~s /\ arrived = <<>>
      BY <1>4, <1>14, <2>3, <2>6, <3>1 DEF Pending
    <3>3. Len(arrived') = 1 /\ arrived'[1].what = "1"
      BY <1>8, <1>14, <2>6, <3>2
    <3>4. Own(due') # {} /\ \A i \in Own(due') : due'[i].kind = "Rest"
      <4>1. \A i \in Own(due) : i = 1
        BY <2>3 DEF One
      <4> QED
        BY <1>14, <2>3, <2>6, <4>1
    <3>5. Awaited(out, due', arrived', k, s)
      BY <1>14, <2>3, <2>4, <2>5, <2>6, <3>2, <3>3, <3>4 DEF Awaited, Half
    <3>6. OnTime(out, due', timeLeft, Slack, k)
      <4>1. \A i \in Own(due) : i = 1
        BY <2>3 DEF One
      <4>2. timeLeft + due[1].age + Gap >= Timeout(k)
        BY <2>1, <2>3 DEF OnTime
      <4>3. Own(due') = Own(due) /\ due'[1].age = due[1].age
        BY <1>4, <1>14, <2>6
      <4> QED
        BY <2>4, <4>1, <4>2, <4>3 DEF OnTime
    <3>7. Matched'
      BY <1>1, <1>9, <1>17, <3>5, <3>6 DEF Matched, k, s
    <3>8. Told'
      BY <1>9, <1>17 DEF Told
    <3> QED
      BY <1>9, <1>15, <3>7, <3>8 DEF Orderly
  <2>7. CASE ~more
    <3>1. due' = Tail(due) /\ Own(due') = {}
      BY <1>4, <1>13, <2>2, <2>3, <2>7
    <3>2. Few(arrived', k, s)
      <4>1. CASE Pending(out, due, arrived, k, s)
        <5>1. d.kind = k /\ ~s /\ arrived = <<>>
          BY <1>4, <2>3, <4>1 DEF Pending
        <5>2. Len(arrived') = 1 /\ arrived'[1].what \in Replies(k)
          BY <1>2, <1>8, <5>1
        <5> QED
          BY <5>1, <5>2 DEF Few
      <4>2. CASE Half(out, due, arrived, k, s)
        <5>1. d.kind = "Rest" /\ k = "Slew" /\ what = "text"
          BY <1>2, <1>4, <2>3, <4>2 DEF Half, Replies
        <5>2. CASE s
          <6>1. Len(arrived') = 1 /\ arrived'[1].what = "text"
            BY <1>8, <4>2, <5>1, <5>2 DEF Half
          <6> QED
            BY <5>2, <6>1 DEF Few
        <5>3. CASE ~s
          <6>1. Len(arrived) = 1 /\ arrived[1].what = "1"
            BY <4>2, <5>3 DEF Half
          <6>2. Len(arrived') = 2 /\ arrived'[2].what = "text" /\ arrived'[1].what = "1"
            BY <1>8, <5>1, <6>1
          <6> QED
            BY <5>1, <5>3, <6>2 DEF Few
        <5> QED
          BY <5>2, <5>3
      <4> QED
        BY <2>1, <2>3, <4>1, <4>2 DEF Awaited, Buffered, Over
    <3>3. Awaited(out, due', arrived', k, s)
      BY <2>4, <2>5, <3>1, <3>2 DEF Awaited, Over, One
    <3>4. OnTime(out, due', timeLeft, Slack, k)
      BY <2>4, <3>1 DEF OnTime
    <3>5. Matched'
      BY <1>1, <1>9, <1>17, <3>3, <3>4 DEF Matched, k, s
    <3>6. Told'
      BY <1>9, <1>17 DEF Told
    <3> QED
      BY <1>9, <1>15, <3>5, <3>6 DEF Orderly
  <2> QED
    BY <2>6, <2>7
<1> QED
  BY <1>16, <1>17

\* (The provers add a variable to its next value only by another name.)
LEMMA Passing ==
    \A n \in {0, 1}, q \in Nat, u \in Nat, s \in Nat, v \in Nat :
      u + n >= q /\ v = s + n /\ q + s > Gap => u + v > Gap
  BY TimesAssumption

LEMMA Lasting ==
    \A n \in {0, 1}, q \in Nat, u \in Nat :
      u + n >= q /\ n # 1 /\ q > 0 => u > 0
  OBVIOUS

LEMMA Running ==
    \A n \in {0, 1}, t \in Int, w \in Int, x \in Int, y \in Int :
      w + n = t /\ y = x + n => w + n >= t /\ w + y >= t + x
  OBVIOUS

\* Nothing is answered: entries leave, or grow older while time passes.
LEMMA OrderlyWaiting ==
    ASSUME Inv, Inv', FrameStarts, Orderly, NEW n \in {0, 1}, Fewer(due', due, n),
           quiet' + n >= quiet, quiet' = 0 \/ quiet' + n = quiet,
           sinceFrame' = sinceFrame + n,
           timeLeft < Forever => timeLeft' + n = timeLeft,
           n = 1 => pc = "idle",
           UNCHANGED <<list, out, arrived, ready, pc>>
    PROVE  Orderly'
<1>1. /\ quiet \in Nat /\ quiet' \in Nat /\ sinceFrame \in Nat /\ timeLeft \in Int
      /\ timeLeft' \in Int /\ due \in Seq(Awaiting) /\ Gap \in Nat /\ n \in Nat
      /\ sinceFrame' \in Nat
  BY TimesAssumption DEF Inv, Clocks, Lines
<1>2. \A i \in DOMAIN due : due[i] \in Awaiting
  BY <1>1, LenProperties, ElementOfSeq
<1>3. Late(due', quiet')
  BY <1>1, <1>2, LateFewer DEF Orderly
<1>4. (Waits' <=> Waits) /\ (FrontWritten' <=> FrontWritten) /\ Heard'
  BY DEF Waits, FrontWritten, Heard, Orderly
<1>5. Matched'
  <2>1. CASE Waits
    <3>1. /\ Awaited(out, due, arrived, Head(list).kind, Head(list).short)
          /\ OnTime(out, due, timeLeft, Slack, Head(list).kind)
          /\ Head(list).kind \in Kind \ Silent /\ Head(list).short \in BOOLEAN
          /\ timeLeft < Forever
      BY <2>1, WaitsFacts DEF Orderly, Matched, Inv, WaitIsTimed
    <3>2. Awaited(out, due', arrived, Head(list).kind, Head(list).short)
      BY <3>1, AwaitedFewer
    <3>3. Slack \in Int /\ Slack' \in Int /\ Slack' = Slack + n
      BY <1>1 DEF Slack
    <3>4. timeLeft' + n >= timeLeft /\ timeLeft' + Slack' >= timeLeft + Slack
      BY <1>1, <3>1, <3>3, Running, Zenon
    <3>5. OnTime(out, due', timeLeft', Slack', Head(list).kind)
      BY <1>1, <1>2, <3>1, <3>3, <3>4, OnTimeFewer
    <3> QED
      BY <1>4, <2>1, <3>2, <3>5 DEF Matched
  <2>2. CASE ~Waits
    <3>1. Mute(out) /\ Own(due) = {}
      BY <2>2 DEF Orderly, Matched
    <3>2. Own(due') = {}
      BY <3>1 DEF Fewer, Own
    <3> QED
      BY <1>4, <2>2, <3>1, <3>2 DEF Matched
  <2> QED
    BY <2>1, <2>2
<1>6. Told'
  <2>1. SUFFICES ASSUME ~Waits, arrived # <<>>
                 PROVE  IF pc \in {"idle", "send"} THEN quiet' + sinceFrame' > Gap
                        ELSE quiet' > 0 \/ (pc \in {"write", "read", "answer"} /\ ~FrontWritten)
    BY <1>4 DEF Told
  <2>2. quiet + sinceFrame > Gap => quiet' + sinceFrame' > Gap
    <3>1. /\ n \in {0, 1} /\ quiet \in Nat /\ quiet' \in Nat /\ sinceFrame \in Nat
          /\ sinceFrame' \in Nat /\ quiet' + n >= quiet /\ sinceFrame' = sinceFrame + n
      BY <1>1
    <3> QED
      BY ONLY <3>1, Passing, Zenon
  <2>3. n # 1 /\ quiet > 0 => quiet' > 0
    BY <1>1, Lasting, Zenon
  <2>4. IF pc \in {"idle", "send"} THEN quiet + sinceFrame > Gap
        ELSE quiet > 0 \/ (pc \in {"write", "read", "answer"} /\ ~FrontWritten)
    BY <2>1 DEF Orderly, Told
  <2>5. pc \notin {"idle", "send"} => n # 1
    OBVIOUS
  <2> QED
    BY <2>2, <2>3, <2>4, <2>5, Zenon
<1> QED
  BY <1>3, <1>4, <1>5, <1>6 DEF Orderly

LEMMA OrderlyTail ==
    ASSUME Inv, Inv', FrameStarts, Orderly, Drop \/ Switch
    PROVE  Orderly'
<1>1. /\ due # <<>> /\ due' = Tail(due)
      /\ UNCHANGED <<list, timeLeft, quiet, out, arrived, ready, pc, sinceFrame>>
  BY DEF Drop, Switch, queue, times, buffers
<1>2. due \in Seq(Awaiting) /\ quiet \in Nat /\ sinceFrame \in Nat /\ timeLeft \in Int
  BY DEF Inv, Lines, Clocks
<1>3. Fewer(due', due, 0)
  BY <1>1, <1>2, FewerTail
<1>4. /\ quiet' + 0 >= quiet /\ quiet' + 0 = quiet /\ sinceFrame' = sinceFrame + 0
      /\ timeLeft' + 0 = timeLeft
  BY <1>1, <1>2
<1> QED
  BY <1>1, <1>3, <1>4, OrderlyWaiting

LEMMA OrderlyTick ==
    ASSUME Inv, Inv', FrameStarts, Orderly, Tick
    PROVE  Orderly'
<1> DEFINE lost == due # <<>> /\ (Head(due).age >= MaxAge \/ Len(due) > MaxDue)
           kept == IF lost THEN Tail(due) ELSE due
<1>1. /\ pc = "idle" /\ sinceFrame' = sinceFrame + 1
      /\ timeLeft' = IF timeLeft = Forever THEN Forever ELSE timeLeft - 1
      /\ quiet' = Less(quiet)
      /\ due' = [i \in DOMAIN kept |-> [kept[i] EXCEPT !.age = @ + 1]]
      /\ UNCHANGED <<list, out, arrived, ready, pc>>
  BY DEF Tick, buffers
<1>2. due \in Seq(Awaiting) /\ quiet \in Nat /\ timeLeft \in Int /\ Forever \in Int
  BY TimesAssumption DEF Inv, Lines, Clocks, Forever
<1>3. kept \in Seq(Awaiting) /\ Fewer(kept, due, 0)
  BY <1>2, HeadTailProperties, FewerTail, FewerSame
<1>4. \A i \in DOMAIN due : due[i] \in Awaiting
  BY <1>2, LenProperties, ElementOfSeq
<1> HIDE DEF kept
<1>5. Fewer(due', due, 1)
  BY <1>1, <1>3, <1>4, FewerOlder
<1>6. quiet' + 1 >= quiet /\ (quiet' = 0 \/ quiet' + 1 = quiet)
  BY <1>1, <1>2 DEF Less
<1>7. timeLeft < Forever => timeLeft' + 1 = timeLeft
  BY <1>1, <1>2
<1> QED
  BY <1>1, <1>5, <1>6, <1>7, OrderlyWaiting

--------------------------------------------------------------------------------
LEMMA StartStep == Inv /\ FrameStarts /\ [Next]_vars => FrameStarts'
<1> SUFFICES ASSUME Inv, FrameStarts, [Next]_vars PROVE FrameStarts'
  OBVIOUS
<1>1. CASE SendSlew
  BY <1>1 DEF SendSlew, FrameStarts
<1>2. CASE Frame
  BY <1>2 DEF Frame, FrameStarts
<1>3. CASE Flush
  BY <1>3 DEF Flush, FrameStarts
<1>4. CASE Sent
  BY <1>4 DEF Sent, FrameStarts
<1>5. CASE CheckTimeout
  BY <1>5 DEF CheckTimeout, FrameStarts
<1>6. CASE Write
  BY <1>6 DEF Write, FrameStarts
<1>7. CASE Read
  <2>1. pc = "read" /\ sinceFrame' = sinceFrame
    BY <1>7 DEF Read
  <2> QED
    BY <2>1 DEF FrameStarts
<1>8. CASE ReadAnswer
  <2>1. pc = "answer" /\ sinceFrame' = sinceFrame
    BY <1>8 DEF ReadAnswer
  <2> QED
    BY <2>1 DEF FrameStarts
<1>9. CASE Answer \/ Drop \/ Switch \/ Noise
  BY <1>9 DEF Answer, Drop, Switch, Noise, FrameStarts
<1>10. CASE Tick
  BY <1>10 DEF Tick, FrameStarts
<1>11. CASE UNCHANGED vars
  BY <1>11 DEF vars, FrameStarts
<1> QED
  BY <1>1, <1>2, <1>3, <1>4, <1>5, <1>6, <1>7, <1>8, <1>9, <1>10, <1>11 DEF Next, Code

\* While the telescope has been good, the invariant holds and nothing was misread.
Good == ~unruly => Orderly /\ ~misread

LEMMA GoodStep ==
    ASSUME Inv, Inv', FrameStarts, Good, [Next]_vars
    PROVE  Good'
<1> SUFFICES ASSUME ~unruly' PROVE Orderly' /\ ~misread'
  BY DEF Good
<1>1. CASE ReadAnswer
  <2>1. ~unruly
    BY <1>1 DEF ReadAnswer
  <2> QED
    BY <1>1, <2>1, OrderlyReadAnswer DEF Good
<1>2. CASE Answer
  <2>1. ~unruly /\ misread' = misread
    BY <1>2 DEF Answer
  <2> QED
    BY <1>2, <2>1, OrderlyAnswer DEF Good
<1>3. CASE Noise
  BY <1>3 DEF Noise
<1>4. CASE UNCHANGED vars
  <2>1. UNCHANGED <<list, timeLeft, quiet, out, arrived, ready, due, misread, unruly, pc,
                    sinceFrame>>
    BY <1>4 DEF vars, queue, times, buffers, telescope, history
  <2>2. ~unruly /\ ~misread /\ Orderly
    BY <2>1 DEF Good
  <2>3. (Waits' <=> Waits) /\ (FrontWritten' <=> FrontWritten) /\ Slack' = Slack
    BY <2>1 DEF Waits, FrontWritten, Slack
  <2>4. Matched'
    BY <2>1, <2>2, <2>3 DEF Orderly, Matched
  <2> QED
    BY <2>1, <2>2, <2>3, <2>4 DEF Orderly, Told, Heard
<1>5. ASSUME UNCHANGED history
      PROVE  ~unruly /\ Orderly /\ ~misread'
  BY <1>5 DEF history, Good
<1>6. CASE SendSlew
  <2>1. UNCHANGED history
    BY <1>6 DEF SendSlew
  <2> QED
    BY <1>5, <1>6, <2>1, OrderlySendSlew
<1>7. CASE Frame
  <2>1. UNCHANGED history
    BY <1>7 DEF Frame
  <2> QED
    BY <1>5, <1>7, <2>1, OrderlyFrame
<1>8. CASE Flush
  <2>1. UNCHANGED history
    BY <1>8 DEF Flush
  <2> QED
    BY <1>5, <1>8, <2>1, OrderlyFlush
<1>9. CASE Sent
  <2>1. UNCHANGED history
    BY <1>9 DEF Sent
  <2> QED
    BY <1>5, <1>9, <2>1, OrderlySent
<1>10. CASE CheckTimeout
  <2>1. UNCHANGED history
    BY <1>10 DEF CheckTimeout
  <2> QED
    BY <1>5, <1>10, <2>1, OrderlyCheckTimeout
<1>11. CASE Write
  <2>1. UNCHANGED history
    BY <1>11 DEF Write
  <2> QED
    BY <1>5, <1>11, <2>1, OrderlyWrite
<1>12. CASE Read
  <2>1. UNCHANGED history
    BY <1>12 DEF Read
  <2> QED
    BY <1>5, <1>12, <2>1, OrderlyRead
<1>13. CASE Drop \/ Switch
  <2>1. UNCHANGED history
    BY <1>13 DEF Drop, Switch
  <2> QED
    BY <1>5, <1>13, <2>1, OrderlyTail
<1>14. CASE Tick
  <2>1. UNCHANGED history
    BY <1>14 DEF Tick
  <2> QED
    BY <1>5, <1>14, <2>1, OrderlyTick
<1> QED
  BY <1>1, <1>2, <1>3, <1>4, <1>6, <1>7, <1>8, <1>9, <1>10, <1>11, <1>12, <1>13, <1>14
     DEF Next, Code

\* An answer is read as the answer of the command it was given to, whatever is lost
\* and however often the queue is reset, as long as the telescope sends nothing
\* unasked and is no later than PromptAssumption says: the time-outs and the quiet
\* time of the code are long enough for that, with frames Gap apart.
THEOREM AnswersKeepTheirPlace == Spec => []AnswersAreOwn
<1>1. Init => FrameStarts /\ Good
  <2> SUFFICES ASSUME Init PROVE FrameStarts /\ Good
    OBVIOUS
  <2>1. /\ list = <<>> /\ out = <<>> /\ arrived = <<>> /\ due = <<>> /\ pc = "idle"
        /\ misread = FALSE
    BY DEF Init
  <2>2. ~Waits /\ Own(due) = {}
    BY <2>1 DEF Waits, Own
  <2> QED
    BY <2>1, <2>2 DEF FrameStarts, Good, Orderly, Matched, Mute, Late, Told, Heard
<1>2. Inv /\ FrameStarts /\ Good /\ [Next]_vars => Inv' /\ FrameStarts' /\ Good'
  BY StepInv, StartStep, GoodStep
<1>3. Good => AnswersAreOwn
  BY DEF Good, AnswersAreOwn
<1> QED
  BY <1>1, <1>2, <1>3, InitInv, PTL DEF Spec

--------------------------------------------------------------------------------
(* The format of the positions.                                               *)

\* The invariant, while the telescope is good.  There is at most one change of
\* format on its way, not written yet, in write_buff or at the telescope, and none
\* but while the telescope is in the short format; nothing is at the telescope
\* behind the question that waits, so that nothing is when its answer has come;
\* and what that answer says of the format is still true.
Unsent(l)   == {i \in DOMAIN l : l[i].kind = "ToggleFormat" /\ ~l[i].written}
Switches(s) == {i \in DOMAIN s : s[i].kind = "ToggleFormat"}
Shorts(a)   == \E i \in DOMAIN a : ~a[i].long
Once(Q, O, D) ==
    /\ One(Q) /\ One(O) /\ One(D)
    /\ Q # {} => O = {} /\ D = {}
    /\ O # {} => D = {}
FromShort(Q, O, D, f) == Q # {} \/ O # {} \/ D # {} => ~f
OwnLast(d) == \A i \in Own(d) : i = Len(d)
Known == Waits /\ Asks(Head(list)) /\ Shorts(arrived) => ~format /\ out = <<>> /\ due = <<>>
Sure  == ~longUsed => Unsent(list) = {}
Few1(Q, O, D, f) == Once(Q, O, D) /\ FromShort(Q, O, D, f)
FormatInv ==
    /\ Sure /\ Few1(Unsent(list), Switches(out), Switches(due), format)
    /\ OwnLast(due) /\ Known

\* A set of places, and what remains of it when the front leaves.
Thins(P, Q)   == (Q = {} => P = {}) /\ (One(Q) => One(P))
Shifted(P, Q) == \A i \in P : i \in Nat /\ i + 1 \in Q /\ i + 1 # 1

LEMMA ThinsSame == \A Q : Thins(Q, Q)
  BY DEF Thins

LEMMA ShiftedThins ==
    ASSUME NEW P, NEW Q, Shifted(P, Q)
    PROVE  Thins(P, Q) /\ (1 \in Q /\ One(Q) => P = {})
<1>1. One(Q) => One(P)
  <2>1. SUFFICES ASSUME One(Q), NEW i \in P, NEW j \in P PROVE i = j
    BY DEF One
  <2>2. i \in Nat /\ j \in Nat /\ i + 1 = j + 1
    BY <2>1 DEF One, Shifted
  <2> QED
    BY <2>2
<1> QED
  BY <1>1 DEF Thins, Shifted, One

LEMMA FewThins ==
    ASSUME NEW Q, NEW O, NEW D, NEW f, Few1(Q, O, D, f), NEW P, NEW M, NEW C,
           Thins(P, Q), Thins(M, O), Thins(C, D)
    PROVE  Few1(P, M, C, f)
  BY DEF Few1, Once, FromShort, Thins

LEMMA TailUnsent ==
    ASSUME NEW l \in Seq(Command), l # <<>>
    PROVE  /\ Thins(Unsent(Tail(l)), Unsent(l))
           /\ Head(l).kind = "ToggleFormat" /\ ~Head(l).written =>
                /\ Unsent(l) # {}
                /\ One(Unsent(l)) => Unsent(Tail(l)) = {}
<1>1. /\ Head(l) = l[1] /\ 1 \in DOMAIN l
      /\ \A i \in DOMAIN Tail(l) : i + 1 \in DOMAIN l /\ i + 1 # 1 /\ Tail(l)[i] = l[i + 1]
  BY TailAt
<1>2. \A i \in DOMAIN Tail(l) : i \in Nat
  BY TailAt, LenProperties
<1>3. Shifted(Unsent(Tail(l)), Unsent(l))
  BY <1>1, <1>2 DEF Shifted, Unsent
<1>4. Head(l).kind = "ToggleFormat" /\ ~Head(l).written => 1 \in Unsent(l)
  BY <1>1 DEF Unsent
<1> QED
  BY <1>3, <1>4, ShiftedThins

LEMMA ConcatUnsent ==
    ASSUME NEW l \in Seq(Command), NEW m \in Seq(Command),
           \A i \in DOMAIN m : m[i].kind # "ToggleFormat"
    PROVE  Unsent(l \o m) = Unsent(l)
<1>1. /\ l \o m \in Seq(Command) /\ Len(l \o m) = Len(l) + Len(m)
      /\ \A i \in 1 .. Len(l) + Len(m) : (l \o m)[i] = IF i <= Len(l) THEN l[i] ELSE m[i - Len(l)]
  BY ConcatProperties
<1>2. /\ DOMAIN l = 1 .. Len(l) /\ DOMAIN m = 1 .. Len(m) /\ Len(l) \in Nat /\ Len(m) \in Nat
      /\ DOMAIN (l \o m) = 1 .. Len(l) + Len(m)
  BY <1>1, LenProperties
<1> DEFINE q == l \o m
<1> HIDE DEF q
<1>3. ASSUME NEW i \in DOMAIN q, q[i].kind = "ToggleFormat" PROVE i \in DOMAIN l /\ q[i] = l[i]
  <2>1. CASE i <= Len(l)
    BY <1>1, <1>2, <1>3, <2>1 DEF q
  <2>2. CASE i > Len(l)
    <3>1. i - Len(l) \in DOMAIN m /\ q[i] = m[i - Len(l)]
      BY <1>1, <1>2, <2>2 DEF q
    <3> QED
      BY <1>3, <3>1
  <2> QED
    BY <1>1, <1>2, <2>1, <2>2 DEF q
<1>4. ASSUME NEW i \in DOMAIN l PROVE i \in DOMAIN q /\ q[i] = l[i]
  BY <1>1, <1>2, <1>4 DEF q
<1>5. Unsent(q) = Unsent(l)
  BY <1>3, <1>4 DEF Unsent
<1> QED
  BY <1>5 DEF q

LEMMA QueuedUnsent ==
    ASSUME Inv
    PROVE  /\ Unsent(list \o Slewing) = Unsent(list)
           /\ Unsent(list \o <<New("GetRa"), New("GetDec")>>) = Unsent(list)
<1> DEFINE a == New("StopSlew")
           b == New("Set")
           c == New("Slew")
           d == New("GetRa")
           e == New("GetDec")
<1>1. /\ a \in Command /\ a.kind = "StopSlew" /\ b \in Command /\ b.kind = "Set"
      /\ c \in Command /\ c.kind = "Slew" /\ d \in Command /\ d.kind = "GetRa"
      /\ e \in Command /\ e.kind = "GetDec"
  BY NewCommand, Kinds
<1>2. list \in Seq(Command)
  BY InvFacts
<1>3. Slewing = <<a, b, b, c>>
  BY DEF Slewing
<1> HIDE DEF a, b, c, d, e
<1>4. /\ Slewing \in Seq(Command) /\ <<d, e>> \in Seq(Command)
      /\ \A i \in DOMAIN Slewing : Slewing[i].kind # "ToggleFormat"
      /\ \A i \in DOMAIN <<d, e>> : <<d, e>>[i].kind # "ToggleFormat"
  BY <1>1, <1>3
<1>5. Unsent(list \o Slewing) = Unsent(list)
  BY <1>2, <1>4, ConcatUnsent
<1>6. Unsent(list \o <<d, e>>) = Unsent(list)
  BY <1>2, <1>4, ConcatUnsent
<1> QED
  BY <1>5, <1>6 DEF d, e

\* The front command is written, or has its first byte.
LEMMA FrontUnsent ==
    ASSUME NEW l \in Seq(Command), l # <<>>, NEW e \in Command, e.kind = l[1].kind,
           e.written \/ e.written = l[1].written
    PROVE  /\ Thins(Unsent([l EXCEPT ![1] = e]), Unsent(l))
           /\ l[1].kind = "ToggleFormat" /\ ~l[1].written /\ e.written =>
                /\ Unsent(l) # {}
                /\ One(Unsent(l)) => Unsent([l EXCEPT ![1] = e]) = {}
<1> DEFINE m == [l EXCEPT ![1] = e]
<1>1. 1 \in DOMAIN l /\ DOMAIN l = 1 .. Len(l) /\ Len(l) \in Nat
  BY TailAt, LenProperties
<1>2. /\ m \in Seq(Command) /\ Len(m) = Len(l)
      /\ \A j \in 1 .. Len(l) : m[j] = IF j = 1 THEN e ELSE l[j]
  BY <1>1, ExceptSeq
<1> HIDE DEF m
<1>3. DOMAIN m = DOMAIN l
  BY <1>1, <1>2, LenProperties
<1>4. Unsent(m) \subseteq Unsent(l)
  <2>1. ASSUME NEW i \in Unsent(m) PROVE i \in Unsent(l)
    <3>1. i \in DOMAIN l /\ m[i].kind = "ToggleFormat" /\ ~m[i].written
      BY <1>3 DEF Unsent
    <3>2. CASE i = 1
      BY <1>1, <1>2, <3>1, <3>2 DEF Unsent
    <3>3. CASE i # 1
      BY <1>1, <1>2, <3>1, <3>3 DEF Unsent
    <3> QED
      BY <3>2, <3>3
  <2> QED
    BY <2>1
<1>5. Thins(Unsent(m), Unsent(l))
  BY <1>4 DEF Thins, One
<1>6. ASSUME l[1].kind = "ToggleFormat", ~l[1].written, e.written
      PROVE  1 \in Unsent(l) /\ 1 \notin Unsent(m)
  BY <1>1, <1>2, <1>6 DEF Unsent
<1> QED
  BY <1>4, <1>5, <1>6 DEF m, One

LEMMA WrittenUnsent ==
    ASSUME NEW l \in Seq(Command), l # <<>>
    PROVE  /\ Thins(Unsent([l EXCEPT ![1].written = TRUE]), Unsent(l))
           /\ Head(l).kind = "ToggleFormat" /\ ~Head(l).written =>
                /\ Unsent(l) # {}
                /\ One(Unsent(l)) => Unsent([l EXCEPT ![1].written = TRUE]) = {}
<1> DEFINE e == [l[1] EXCEPT !.written = TRUE]
<1>1. 1 \in DOMAIN l /\ l[1] \in Command /\ Head(l) = l[1]
  BY TailAt
<1>2. e \in Command /\ e.kind = l[1].kind /\ e.written
  BY <1>1 DEF Command
<1>3. [l EXCEPT ![1].written = TRUE] = [l EXCEPT ![1] = e]
  BY <1>1
<1> HIDE DEF e
<1> QED
  BY <1>1, <1>2, <1>3, FrontUnsent

LEMMA ShortUnsent ==
    ASSUME NEW l \in Seq(Command), l # <<>>, NEW b \in BOOLEAN
    PROVE  Thins(Unsent([l EXCEPT ![1].short = b]), Unsent(l))
<1> DEFINE e == [l[1] EXCEPT !.short = b]
<1>1. 1 \in DOMAIN l /\ l[1] \in Command
  BY TailAt
<1>2. e \in Command /\ e.kind = l[1].kind /\ e.written = l[1].written
  BY <1>1 DEF Command
<1>3. [l EXCEPT ![1].short = b] = [l EXCEPT ![1] = e]
  BY <1>1
<1> HIDE DEF e
<1> QED
  BY <1>2, <1>3, FrontUnsent

\* The changes of format in write_buff and at the telescope.
LEMMA EmptySwitches == Switches(<<>>) = {}
  BY DEF Switches

LEMMA WrittenSwitches ==
    ASSUME NEW k \in Kind, NEW s \in Seq(Asked)
    PROVE  /\ k # "ToggleFormat" => Switches(Written(k, s)) = Switches(s)
           /\ Switches(s) = {} => One(Switches(Written(k, s)))
<1>1. CASE k = "StopSlew"
  BY <1>1 DEF Written, One
<1>2. CASE k # "StopSlew"
  <2> DEFINE e == [kind |-> k, own |-> k # "ToggleFormat"]
  <2>1. (k # "ToggleFormat") \in BOOLEAN
    BY Zenon
  <2>2. e \in Asked /\ e.kind = k
    BY <1>2, <2>1 DEF Asked
  <2>3. Written(k, s) = Append(s, e)
    BY <1>2 DEF Written
  <2> HIDE DEF e
  <2>4. /\ Append(s, e) \in Seq(Asked) /\ Len(Append(s, e)) = Len(s) + 1 /\ Len(s) \in Nat
        /\ \A i \in 1 .. Len(s) : Append(s, e)[i] = s[i]
        /\ Append(s, e)[Len(s) + 1] = e
    BY <2>2, AppendProperties, LenProperties
  <2>5. DOMAIN s = 1 .. Len(s) /\ DOMAIN Append(s, e) = 1 .. Len(s) + 1
    BY <2>4, LenProperties
  <2>6. k # "ToggleFormat" => Switches(Append(s, e)) = Switches(s)
    BY <2>2, <2>4, <2>5 DEF Switches
  <2>7. \A i \in Switches(Append(s, e)) : i \in Switches(s) \/ i = Len(s) + 1
    BY <2>4, <2>5 DEF Switches
  <2> QED
    BY <2>3, <2>6, <2>7 DEF One
<1> QED
  BY <1>1, <1>2

LEMMA OrphanedSwitches ==
    /\ \A s \in Seq(Asked) : Switches(Orphaned(s)) = Switches(s)
    /\ \A s \in Seq(Awaiting) : Switches(Orphaned(s)) = Switches(s)
<1>1. \A e \in Asked \union Awaiting : [e EXCEPT !.own = FALSE].kind = e.kind
  BY DEF Asked, Awaiting
<1>2. ASSUME NEW s, \A i \in DOMAIN s : s[i] \in Asked \union Awaiting
      PROVE  Switches(Orphaned(s)) = Switches(s)
  <2>1. \A i \in DOMAIN s : Orphaned(s)[i].kind = s[i].kind
    BY <1>1, <1>2, OrphanedSame
  <2> QED
    BY <2>1, OrphanedSame DEF Switches
<1>3. \A s \in Seq(Asked) : \A i \in DOMAIN s : s[i] \in Asked
  BY LenProperties, ElementOfSeq
<1>4. \A s \in Seq(Awaiting) : \A i \in DOMAIN s : s[i] \in Awaiting
  BY LenProperties, ElementOfSeq
<1> QED
  BY <1>2, <1>3, <1>4

LEMMA OrphanedLast ==
    ASSUME NEW s \in Seq(Awaiting)
    PROVE  OwnLast(Orphaned(s))
  BY OwnOrphaned DEF OwnLast

\* What the telescope has handled leaves.
LEMMA TailSwitches ==
    ASSUME NEW d \in Seq(Awaiting), d # <<>>, OwnLast(d)
    PROVE  /\ Thins(Switches(Tail(d)), Switches(d)) /\ OwnLast(Tail(d))
           /\ Head(d).kind = "ToggleFormat" /\ One(Switches(d)) =>
                Switches(d) # {} /\ Switches(Tail(d)) = {}
           /\ Head(d).own => Tail(d) = <<>>
<1>1. /\ Head(d) = d[1] /\ Tail(d) \in Seq(Awaiting) /\ Len(Tail(d)) = Len(d) - 1
      /\ \A i \in 1 .. Len(Tail(d)) : Tail(d)[i] = d[i + 1]
  BY HeadTailProperties
<1>2. /\ Len(d) \in Nat /\ Len(d) > 0 /\ DOMAIN d = 1 .. Len(d)
      /\ DOMAIN Tail(d) = 1 .. (Len(d) - 1)
  BY <1>1, LenProperties, EmptySeq
<1>3. ASSUME NEW i \in DOMAIN Tail(d)
      PROVE  i \in Nat /\ i + 1 \in DOMAIN d /\ i + 1 # 1 /\ Tail(d)[i] = d[i + 1]
  BY <1>1, <1>2
<1>4. Shifted(Switches(Tail(d)), Switches(d))
  BY <1>3 DEF Shifted, Switches
<1>5. Head(d).kind = "ToggleFormat" => 1 \in Switches(d)
  BY <1>1, <1>2 DEF Switches
<1>6. OwnLast(Tail(d))
  <2>1. SUFFICES ASSUME NEW i \in Own(Tail(d)) PROVE i = Len(Tail(d))
    BY DEF OwnLast
  <2>2. i \in Nat /\ i + 1 \in Own(d)
    BY <1>3 DEF Own
  <2>3. i + 1 = Len(d)
    BY <2>2 DEF OwnLast
  <2>4. PICK m \in Nat : m = Len(d)
    BY <1>2
  <2>5. i + 1 = m /\ Len(Tail(d)) = m - 1
    BY <1>1, <2>3, <2>4
  <2>6. i = m - 1
    BY ONLY <2>2, <2>4, <2>5
  <2> QED
    BY <2>5, <2>6
<1>7. ASSUME Head(d).own PROVE Tail(d) = <<>>
  <2>1. 1 \in Own(d)
    BY <1>1, <1>2, <1>7 DEF Own
  <2>2. Len(d) = 1
    BY <2>1 DEF OwnLast
  <2>3. Len(Tail(d)) = 0
    BY <1>1, <2>2
  <2> QED
    BY <1>1, <2>3, EmptySeq
<1> QED
  BY <1>4, <1>5, <1>6, <1>7, ShiftedThins

\* Everything grows older.
LEMMA OlderSwitches ==
    ASSUME NEW s \in Seq(Awaiting), OwnLast(s)
    PROVE  /\ Switches([i \in DOMAIN s |-> [s[i] EXCEPT !.age = @ + 1]]) = Switches(s)
           /\ OwnLast([i \in DOMAIN s |-> [s[i] EXCEPT !.age = @ + 1]])
           /\ s = <<>> => [i \in DOMAIN s |-> [s[i] EXCEPT !.age = @ + 1]] = <<>>
<1> DEFINE e == [i \in DOMAIN s |-> [s[i] EXCEPT !.age = @ + 1]]
<1>1. \A x \in Awaiting : /\ [x EXCEPT !.age = @ + 1].kind = x.kind
                          /\ [x EXCEPT !.age = @ + 1].own <=> x.own
                          /\ [x EXCEPT !.age = @ + 1] \in Awaiting
  BY DEF Awaiting
<1>2. /\ DOMAIN e = DOMAIN s
      /\ \A i \in DOMAIN s : e[i] = [s[i] EXCEPT !.age = @ + 1]
  OBVIOUS
<1>3. \A i \in DOMAIN s : s[i] \in Awaiting
  BY LenProperties, ElementOfSeq
<1>4. \A i \in DOMAIN s : e[i] \in Awaiting
  BY <1>1, <1>3
<1>5. e \in Seq(Awaiting)
  BY <1>4, MapSeq
<1> HIDE DEF e
<1>6. ASSUME NEW i \in DOMAIN s
      PROVE  e[i].kind = s[i].kind /\ (e[i].own <=> s[i].own)
  <2>1. e[i] = [s[i] EXCEPT !.age = @ + 1] /\ s[i] \in Awaiting
    BY <1>2, <1>3
  <2> QED
    BY <1>1, <2>1
<1>7. Switches(e) = Switches(s) /\ Own(e) = Own(s)
  BY <1>2, <1>6 DEF Switches, Own
<1>8. Len(e) = Len(s)
  <2>1. PICK m \in Nat, n \in Nat : m = Len(e) /\ n = Len(s)
    BY <1>5, LenProperties
  <2>2. 1 .. m = 1 .. n
    BY <1>2, <1>5, <2>1, LenProperties
  <2> QED
    BY <2>1, <2>2
<1>9. s = <<>> => e = <<>>
  BY <1>5, <1>8, EmptySeq
<1> QED
  BY <1>7, <1>8, <1>9 DEF e, OwnLast

LEMMA ResetFormat ==
    ASSUME Inv, FormatInv, Reset, format' = format
    PROVE  FormatInv'
<1>1. list' = <<>> /\ arrived' = <<>> /\ out' = <<>> /\ due' = Orphaned(due)
  BY DEF Reset, Cleared, AsAtFirst
<1>2. due \in Seq(Awaiting)
  BY DEF Inv, Lines
<1>3. Unsent(list') = {} /\ Switches(out') = {} /\ Switches(due') = Switches(due)
  BY <1>1, <1>2, EmptySwitches, OrphanedSwitches DEF Unsent
<1>4. OwnLast(due')
  BY <1>1, <1>2, OrphanedLast
<1>5. Few1(Unsent(list'), Switches(out'), Switches(due'), format')
  BY <1>3 DEF FormatInv, Few1, Once, FromShort, One
<1>6. Sure' /\ Known'
  BY <1>1, <1>3 DEF Sure, Known, Shorts
<1> QED
  BY <1>4, <1>5, <1>6 DEF FormatInv

\* A step that changes nothing but the queue behind its front, or time.
LEMMA FormatKept ==
    ASSUME FormatInv, Thins(Unsent(list'), Unsent(list)), Thins(Switches(due'), Switches(due)),
           OwnLast(due'), UNCHANGED <<out, format, longUsed>>,
           Waits' /\ Asks(Head(list')) /\ Shorts(arrived') => 
             Waits /\ Asks(Head(list)) /\ Shorts(arrived),
           due = <<>> => due' = <<>>
    PROVE  FormatInv'
<1>1. Few1(Unsent(list'), Switches(out'), Switches(due'), format')
  <2>1. PICK q, d : q = Unsent(list') /\ d = Switches(due')
    OBVIOUS
  <2>2. Few1(q, Switches(out), d, format)
    BY <2>1, FewThins, ThinsSame DEF FormatInv
  <2> QED
    BY <2>1, <2>2
<1>2. Sure'
  BY DEF FormatInv, Sure, Thins
<1>3. Known'
  BY DEF FormatInv, Known
<1> QED
  BY <1>1, <1>2, <1>3 DEF FormatInv

\* The short answer to the question that waits leaves nothing of it elsewhere.
LEMMA OverWhen ==
    ASSUME NEW o, NEW d, NEW a, NEW k \in {"GetRa", "GetDec"}, NEW s, Shorts(a),
           Awaited(o, d, a, k, s)
    PROVE  o = <<>> /\ Own(d) = {} /\ Mine(a)
<1>1. a # <<>>
  BY DEF Shorts
<1> QED
  BY <1>1 DEF Awaited, Buffered, Pending, Half, Over

LEMMA FormatSendSlew ==
    ASSUME Inv, FormatInv, SendSlew
    PROVE  FormatInv'
<1>1. list' = list \o Slewing /\ UNCHANGED <<out, arrived, due, format, longUsed>>
  BY DEF SendSlew, buffers, telescope
<1>2. /\ list' # <<>> /\ Head(list') = IF list = <<>> THEN New("StopSlew") ELSE Head(list)
      /\ ~New("StopSlew").written
  BY <1>1, ListedSlew, NewCommand, Kinds DEF Inv
<1>3. (Waits' <=> Waits) /\ (Waits => Head(list') = Head(list))
  BY <1>2, FrontSame
<1>4. Unsent(list') = Unsent(list)
  BY <1>1, QueuedUnsent
<1>5. OwnLast(due')
  BY <1>1 DEF FormatInv
<1> QED
  BY <1>1, <1>3, <1>4, <1>5, ThinsSame, FormatKept

LEMMA FormatFrame ==
    ASSUME Inv, FormatInv, Frame
    PROVE  FormatInv'
<1>1. UNCHANGED <<out, arrived, due, format, longUsed>>
  BY DEF Frame, buffers, telescope
<1>2. /\ (Waits' <=> Waits) /\ (Waits => Head(list') = Head(list))
      /\ Unsent(list') = Unsent(list)
  <2>1. CASE poll /\ pollWait = 0
    <3>1. list' = Poll(list) /\ list' = list \o <<New("GetRa"), New("GetDec")>>
      BY <2>1 DEF Frame, Poll
    <3>2. /\ list' # <<>> /\ Head(list') = IF list = <<>> THEN New("GetRa") ELSE Head(list)
          /\ ~New("GetRa").written
      BY <2>1, <3>1, ListedPoll, NewCommand, Kinds DEF Inv, PollKept
    <3> QED
      BY <3>1, <3>2, FrontSame, QueuedUnsent
  <2>2. CASE ~(poll /\ pollWait = 0)
    BY <2>2 DEF Frame, Waits
  <2> QED
    BY <2>1, <2>2
<1>3. OwnLast(due')
  BY <1>1 DEF FormatInv
<1> QED
  BY <1>1, <1>2, <1>3, ThinsSame, FormatKept

LEMMA FormatTick ==
    ASSUME Inv, FormatInv, Tick
    PROVE  FormatInv'
<1> DEFINE lost == due # <<>> /\ (Head(due).age >= MaxAge \/ Len(due) > MaxDue)
           kept == IF lost THEN Tail(due) ELSE due
<1>1. /\ due' = [i \in DOMAIN kept |-> [kept[i] EXCEPT !.age = @ + 1]]
      /\ UNCHANGED <<list, out, arrived, format, longUsed>>
  BY DEF Tick, buffers
<1>2. due \in Seq(Awaiting) /\ OwnLast(due)
  BY DEF Inv, Lines, FormatInv
<1>3. /\ kept \in Seq(Awaiting) /\ OwnLast(kept) /\ Thins(Switches(kept), Switches(due))
      /\ due = <<>> => kept = <<>>
  <2>1. CASE lost
    BY <1>2, <2>1, HeadTailProperties, TailSwitches
  <2>2. CASE ~lost
    BY <1>2, <2>2, ThinsSame
  <2> QED
    BY <2>1, <2>2
<1> HIDE DEF kept
<1>4. /\ Switches(due') = Switches(kept) /\ OwnLast(due')
      /\ kept = <<>> => due' = <<>>
  BY <1>1, <1>3, OlderSwitches
<1>5. Waits' <=> Waits
  BY <1>1 DEF Waits
<1> QED
  BY <1>1, <1>3, <1>4, <1>5, ThinsSame, FormatKept

LEMMA FormatDrop ==
    ASSUME Inv, FormatInv, Drop
    PROVE  FormatInv'
<1>1. due # <<>> /\ due' = Tail(due) /\ UNCHANGED <<list, out, arrived, format, longUsed>>
  BY DEF Drop, queue, buffers
<1>2. due \in Seq(Awaiting) /\ OwnLast(due)
  BY DEF Inv, Lines, FormatInv
<1>3. Thins(Switches(due'), Switches(due)) /\ OwnLast(due')
  BY <1>1, <1>2, TailSwitches
<1>4. Waits' <=> Waits
  BY <1>1 DEF Waits
<1> QED
  BY <1>1, <1>3, <1>4, ThinsSame, FormatKept

\* The telescope changes its format: from the short one, and nothing else is on its
\* way that would change it back.
LEMMA FormatSwitch ==
    ASSUME Inv, FormatInv, Switch
    PROVE  FormatInv' /\ ~format
<1>1. /\ due # <<>> /\ Head(due).kind = "ToggleFormat" /\ due' = Tail(due)
      /\ UNCHANGED <<list, out, arrived, longUsed>>
  BY DEF Switch, queue, buffers
<1>2. due \in Seq(Awaiting) /\ OwnLast(due) /\ One(Switches(due))
  BY DEF Inv, Lines, FormatInv, Few1, Once
<1>3. Switches(due) # {} /\ Switches(due') = {} /\ OwnLast(due')
  BY <1>1, <1>2, TailSwitches
<1>4. Unsent(list') = {} /\ Switches(out') = {} /\ ~format
  BY <1>1, <1>3 DEF FormatInv, Few1, Once, FromShort
<1>5. Few1(Unsent(list'), Switches(out'), Switches(due'), format')
  BY <1>3, <1>4 DEF Few1, Once, FromShort, One
<1>6. Sure'
  BY <1>1, <1>4 DEF Sure
<1>7. Known'
  <2>1. Waits' <=> Waits
    BY <1>1 DEF Waits
  <2> QED
    BY <1>1, <2>1 DEF FormatInv, Known
<1> QED
  BY <1>3, <1>4, <1>5, <1>6, <1>7 DEF FormatInv

LEMMA NothingShort == ~Shorts(<<>>)
  BY DEF Shorts

LEMMA KindsWritten ==
    ASSUME Inv, list # <<>>
    PROVE  Head(list).kind \in Kind /\ out \in Seq(Asked) /\ due \in Seq(Awaiting)
  BY InvFacts DEF Inv, Lines

LEMMA FormatFlush ==
    ASSUME Inv, Inv', FrameStarts, Orderly, FormatInv, Flush
    PROVE  FormatInv'
<1> DEFINE k == Head(list).kind
           O == Switches(out)
           D == Switches(due)
           L == Unsent(list)
<1>1. /\ list # <<>> /\ ~Head(list).written /\ out' = Written(k, out)
      /\ list' = IF k \in Silent THEN Tail(list) ELSE [list EXCEPT ![1].written = TRUE]
      /\ UNCHANGED <<due, format, longUsed>>
  BY DEF Flush, CanWrite, telescope
<1>2. Known' /\ OwnLast(due')
  <2>1. arrived' = <<>>
    BY OrderlyFlush
  <2> QED
    BY <1>1, <2>1, NothingShort DEF Known, FormatInv
<1>3. /\ k \in Kind /\ out \in Seq(Asked) /\ list \in Seq(Command)
      /\ Few1(L, O, D, format) /\ Sure
  BY <1>1, KindsWritten, InvFacts DEF FormatInv
<1>4. /\ k # "ToggleFormat" => Switches(Written(k, out)) = O
      /\ O = {} => One(Switches(Written(k, out)))
  BY <1>3, WrittenSwitches
<1>5. /\ Thins(Unsent(list'), L)
      /\ k = "ToggleFormat" => L # {} /\ (One(L) => Unsent(list') = {})
  <2>1. CASE k \in Silent
    BY <1>1, <1>3, <2>1, TailUnsent
  <2>2. CASE k \notin Silent
    BY <1>1, <1>3, <2>2, WrittenUnsent DEF Silent
  <2> QED
    BY <2>1, <2>2
<1>6. Switches(out') = Switches(Written(k, out)) /\ Switches(due') = D /\ format' = format
  BY <1>1
<1> HIDE DEF k, O, D, L
<1>7. Few1(Unsent(list'), Switches(out'), Switches(due'), format')
  <2>1. PICK M : M = Unsent(list')
    OBVIOUS
  <2>2. PICK P : P = Switches(Written(k, out))
    OBVIOUS
  <2>3. CASE k = "ToggleFormat"
    <3>1. L # {} /\ One(L) /\ O = {} /\ D = {} /\ ~format
      BY <1>3, <1>5, <2>3 DEF Few1, Once, FromShort
    <3>2. M = {} /\ One(P) /\ D = {} /\ ~format
      BY <1>4, <1>5, <2>1, <2>2, <2>3, <3>1
    <3>3. Few1(M, P, D, format)
      BY <3>2 DEF Few1, Once, FromShort, One
    <3> QED
      BY <1>6, <2>1, <2>2, <3>3
  <2>4. CASE k # "ToggleFormat"
    <3>1. P = O /\ Thins(M, L)
      BY <1>4, <1>5, <2>1, <2>2, <2>4
    <3>2. Few1(M, P, D, format)
      BY <1>3, <3>1, FewThins, ThinsSame
    <3> QED
      BY <1>6, <2>1, <2>2, <3>2
  <2> QED
    BY <2>3, <2>4
<1>8. Sure'
  BY <1>1, <1>3, <1>5 DEF Sure, Thins, L
<1> QED
  BY <1>2, <1>7, <1>8 DEF FormatInv

LEMMA FormatCheckTimeout ==
    ASSUME Inv, FormatInv, CheckTimeout
    PROVE  FormatInv'
<1>1. format' = format
  BY DEF CheckTimeout
<1>2. CASE list = <<>> \/ timeLeft >= 0
  <2>1. UNCHANGED <<list, longUsed, out, arrived, due>>
    BY <1>2 DEF CheckTimeout, queue
  <2>2. (Waits' <=> Waits) /\ OwnLast(due')
    BY <2>1 DEF Waits, FormatInv
  <2> QED
    BY <1>1, <2>1, <2>2, ThinsSame, FormatKept
<1>3. CASE ~(list = <<>> \/ timeLeft >= 0) /\ ~Head(list).short
  <2>1. Reset
    BY <1>3 DEF CheckTimeout
  <2> QED
    BY <1>1, <2>1, ResetFormat
<1>4. CASE ~(list = <<>> \/ timeLeft >= 0) /\ Head(list).short
  <2>1. /\ list # <<>> /\ list' = Tail(list) /\ due' = Orphaned(due) /\ out' = Orphaned(out)
        /\ longUsed' = longUsed
    BY <1>4 DEF CheckTimeout
  <2>2. list \in Seq(Command) /\ out \in Seq(Asked) /\ due \in Seq(Awaiting)
    BY <2>1, KindsWritten, InvFacts
  <2>3. /\ Thins(Unsent(list'), Unsent(list)) /\ Switches(out') = Switches(out)
        /\ Switches(due') = Switches(due) /\ OwnLast(due')
    BY <2>1, <2>2, TailUnsent, OrphanedSwitches, OrphanedLast
  <2>4. Few1(Unsent(list'), Switches(out'), Switches(due'), format')
    <3>1. PICK M : M = Unsent(list')
      OBVIOUS
    <3>2. Few1(M, Switches(out), Switches(due), format)
      BY <2>3, <3>1, FewThins, ThinsSame DEF FormatInv
    <3> QED
      BY <1>1, <2>3, <3>1, <3>2
  <2>5. Sure'
    BY <2>1, <2>3 DEF FormatInv, Sure, Thins
  <2>6. Known'
    <3>1. list' # <<>> => ~Head(list').written
      BY <2>1, FrontLeaves
    <3> QED
      BY <3>1 DEF Known, Waits
  <2> QED
    BY <2>3, <2>4, <2>5, <2>6 DEF FormatInv
<1> QED
  BY <1>2, <1>3, <1>4

\* What is in write_buff goes to the telescope: its change of format is the only
\* one there, and the question that waits is the last of all.
LEMMA FormatWrite ==
    ASSUME Inv, Inv', Orderly, FormatInv, Write
    PROVE  FormatInv'
<1> DEFINE k == Head(list).kind
           n == Len(due)
           m == Len(out)
           L == Unsent(list)
           O == Switches(out)
           D == Switches(due)
<1>1. out' = <<>> /\ UNCHANGED <<list, arrived, format, longUsed>>
  BY DEF Write, queue
<1>2. /\ n \in Nat /\ m \in Nat /\ DOMAIN due = 1 .. n /\ DOMAIN out = 1 .. m
      /\ DOMAIN due' = 1 .. n + m
      /\ \A i \in DOMAIN due : due'[i] = due[i]
  BY WriteAppends
<1>3. ASSUME NEW i \in DOMAIN due', i > n
      PROVE  /\ i - n \in DOMAIN out /\ due'[i].kind = out[i - n].kind
             /\ due'[i].own = out[i - n].own
  BY <1>3, WriteAppends
<1>4. due \in Seq(Awaiting) /\ out \in Seq(Asked) /\ due' \in Seq(Awaiting)
  BY DEF Inv, Lines
<1>5. Len(due') = n + m
  <2>1. PICK a \in Nat, b \in Nat : a = Len(due') /\ b = n + m
    BY <1>2, <1>4, LenProperties
  <2>2. 1 .. a = 1 .. b
    BY <1>2, <1>4, <2>1, LenProperties
  <2> QED
    BY <2>1, <2>2
<1>6. Few1(L, O, D, format) /\ OwnLast(due) /\ Sure /\ Known
  BY DEF FormatInv
<1>7. \A i \in DOMAIN due' : i \in Nat /\ (i \in DOMAIN due \/ i > n)
  BY <1>2
<1> HIDE DEF n, m
<1>8. ASSUME NEW i \in Switches(due')
      PROVE  i \in Nat /\ (i \in D \/ (i > n /\ i - n \in O))
  <2>1. i \in DOMAIN due' /\ due'[i].kind = "ToggleFormat"
    BY DEF Switches
  <2>2. CASE i \in DOMAIN due
    BY <1>2, <1>7, <2>1, <2>2 DEF Switches
  <2>3. CASE i > n
    BY <1>3, <1>7, <2>1, <2>3 DEF Switches
  <2> QED
    BY <1>7, <2>1, <2>2, <2>3
<1> HIDE DEF L, O, D
<1>9. One(Switches(due'))
  <2>1. SUFFICES ASSUME NEW i \in Switches(due'), NEW j \in Switches(due') PROVE i = j
    BY DEF One
  <2>2. CASE D # {}
    <3>1. O = {} /\ One(D)
      BY <1>6, <2>2 DEF Few1, Once
    <3> QED
      BY <1>8, <3>1 DEF One
  <2>3. CASE D = {}
    <3>1. i - n \in O /\ j - n \in O /\ i \in Nat /\ j \in Nat
      BY <1>8, <2>3
    <3>2. i - n = j - n
      BY <1>6, <3>1 DEF Few1, Once, One
    <3> QED
      BY <1>2, <3>1, <3>2
  <2> QED
    BY <2>2, <2>3
<1>10. Few1(Unsent(list'), Switches(out'), Switches(due'), format')
  <2>1. Unsent(list') = L /\ Switches(out') = {} /\ format' = format
    BY <1>1, EmptySwitches DEF L
  <2>2. Switches(due') # {} => D # {} \/ O # {}
    BY <1>8
  <2>3. PICK C : C = Switches(due')
    OBVIOUS
  <2>4. Few1(L, {}, C, format)
    BY <1>6, <1>9, <2>2, <2>3 DEF Few1, Once, FromShort, One
  <2> QED
    BY <2>1, <2>3, <2>4
<1>11. OwnLast(due')
  <2>1. SUFFICES ASSUME NEW i \in Own(due') PROVE i = n + m
    BY <1>5 DEF OwnLast
  <2>2. i \in DOMAIN due' /\ due'[i].own /\ (i \in DOMAIN due => i \in Own(due))
    BY <1>2 DEF Own
  <2>3. CASE ~Waits
    <3>1. Mute(out) /\ Own(due) = {}
      BY <2>3 DEF Orderly, Matched
    <3>2. i > n
      BY <1>7, <2>2, <3>1
    <3>3. FALSE
      BY <1>3, <2>2, <3>1, <3>2 DEF Mute
    <3> QED
      BY <3>3
  <2>4. CASE Waits /\ out = <<>>
    <3>1. m = 0
      BY <2>4 DEF m
    <3>2. i \in DOMAIN due
      BY <1>2, <2>2, <3>1
    <3>3. i = Len(due)
      BY <1>6, <2>2, <3>2 DEF OwnLast
    <3> QED
      BY <1>2, <3>1, <3>3 DEF n
  <2>5. CASE Waits /\ out # <<>>
    <3> DEFINE e == [kind |-> k, own |-> TRUE]
               s == Head(list).short
    <3>1. Awaited(out, due, arrived, k, s)
      BY <2>5 DEF Orderly, Matched
    <3>2. Buffered(out, due, arrived, k, s)
      BY <2>5, <3>1 DEF Awaited, Pending, Half, Over
    <3>3. PICK q \in Seq(Asked) : Mute(q) /\ out = Append(q, e)
      BY <3>2 DEF Buffered
    <3>4. e \in Asked
      BY <2>5, WaitsFacts DEF Asked, Silent
    <3> HIDE DEF e, k, s
    <3>5. /\ m = Len(q) + 1 /\ Len(q) \in Nat /\ DOMAIN q = 1 .. Len(q)
          /\ \A j \in 1 .. Len(q) : out[j] = q[j]
      BY <3>3, <3>4, AppendProperties, LenProperties DEF m
    <3>6. i > n
      BY <1>7, <2>2, <3>2 DEF Buffered
    <3>7. i - n \in 1 .. m /\ out[i - n].own = due'[i].own
      BY <1>2, <1>3, <2>2, <3>6
    <3>8. i - n \notin 1 .. Len(q)
      BY <2>2, <3>3, <3>5, <3>7 DEF Mute
    <3>9. i - n = m
      BY <3>5, <3>7, <3>8
    <3> QED
      BY <1>2, <1>7, <2>2, <3>9
  <2> QED
    BY <2>3, <2>4, <2>5
<1>12. Known'
  <2>1. SUFFICES ASSUME Waits, Asks(Head(list)), Shorts(arrived)
                 PROVE  ~format /\ due' = <<>>
    <3>1. Waits' <=> Waits
      BY <1>1 DEF Waits
    <3> QED
      BY <1>1, <3>1 DEF Known
  <2>2. ~format /\ out = <<>> /\ due = <<>>
    BY <1>6, <2>1 DEF Known
  <2>3. Len(due') = 0
    BY <1>5, <2>2 DEF n, m
  <2> QED
    BY <1>4, <2>2, <2>3, EmptySeq
<1>13. Sure'
  BY <1>1, <1>6 DEF Sure
<1> QED
  BY <1>10, <1>11, <1>12, <1>13 DEF FormatInv

LEMMA FormatRead ==
    ASSUME Inv, FormatInv, Read
    PROVE  FormatInv'
<1>1. \/ Reset
      \/ UNCHANGED <<queue, out, due>> /\ (arrived' = arrived \/ arrived' = <<>>)
  BY DEF Read
<1>2. format' = format
  BY DEF Read
<1>3. CASE Reset
  BY <1>2, <1>3, ResetFormat
<1>4. CASE UNCHANGED <<queue, out, due>> /\ (arrived' = arrived \/ arrived' = <<>>)
  <2>1. UNCHANGED <<list, longUsed, out, due>>
    BY <1>4 DEF queue
  <2>2. (Waits' <=> Waits) /\ (Shorts(arrived') => Shorts(arrived)) /\ OwnLast(due')
    BY <1>4, <2>1, NothingShort DEF Waits, FormatInv
  <2> QED
    BY <1>2, <2>1, <2>2, ThinsSame, FormatKept
<1> QED
  BY <1>1, <1>3, <1>4

\* The queue without its front, with the change of format if one is asked for:
\* then the telescope is in the short format and no other change is on its way.
LEMMA QueuedFew ==
    ASSUME Inv, FormatInv, list # <<>>, Head(list).written,
           NEW r \in Outcomes(Head(list), arrived), r.rc = 1
    PROVE  /\ Few1(Unsent(Queued), Switches(out), Switches(due), format)
           /\ ~longUsed /\ ~Asks(Head(list)) => Unsent(Queued) = {}
<1> DEFINE c == Head(list)
<1>1. list \in Seq(Command) /\ Tail(list) \in Seq(Command) /\ arrived \in Seq(Answers)
  BY InvFacts, HeadTailProperties DEF Inv, Lines
<1>2. Thins(Unsent(Tail(list)), Unsent(list))
  BY <1>1, TailUnsent
<1>3. CASE ~Toggles(c)
  <2>1. Queued = Tail(list)
    BY <1>1, <1>3, ConcatEmptySeq DEF Queued
  <2>2. PICK M : M = Unsent(Tail(list))
    OBVIOUS
  <2>3. Few1(M, Switches(out), Switches(due), format)
    BY <1>2, <2>2, FewThins, ThinsSame DEF FormatInv
  <2> QED
    BY <1>2, <2>1, <2>2, <2>3 DEF FormatInv, Sure, Thins
<1>4. CASE Toggles(c)
  <2>1. Asks(c) /\ ~longUsed /\ ~Head(arrived).long /\ c.kind \notin Silent
    BY <1>4 DEF Toggles, Asks, Silent
  <2>2. arrived # <<>>
    <3>1. ASSUME arrived = <<>> PROVE r.rc = 0
      BY <2>1, <3>1 DEF Outcomes, Outcome
    <3> QED
      BY <3>1
  <2>3. Shorts(arrived)
    <3>1. Head(arrived) = arrived[1] /\ 1 \in DOMAIN arrived
      BY <1>1, <2>2, HeadTailProperties, LenProperties, EmptySeq
    <3> QED
      BY <2>1, <3>1 DEF Shorts
  <2>4. Waits
    BY <2>1 DEF Waits
  <2>5. ~format /\ out = <<>> /\ due = <<>> /\ Unsent(list) = {}
    BY <2>1, <2>3, <2>4 DEF FormatInv, Known, Sure
  <2>6. Unsent(Tail(list)) = {}
    BY <1>2, <2>5 DEF Thins
  <2> DEFINE e == New("ToggleFormat")
             t == Tail(list)
  <2>7. e \in Command /\ e.kind = "ToggleFormat"
    BY NewCommand, Kinds
  <2> HIDE DEF e
  <2>8. Queued = Append(t, e)
    BY <1>1, <1>4, <2>7, AppendIsConcat DEF e, Queued
  <2>9. t \in Seq(Command) /\ Unsent(t) = {}
    BY <1>1, <2>6
  <2> HIDE DEF t
  <2>10. /\ Append(t, e) \in Seq(Command) /\ Len(Append(t, e)) = Len(t) + 1 /\ Len(t) \in Nat
         /\ \A i \in 1 .. Len(t) : Append(t, e)[i] = t[i]
    BY <2>7, <2>9, AppendProperties, LenProperties
  <2>11. DOMAIN t = 1 .. Len(t) /\ DOMAIN Append(t, e) = 1 .. Len(t) + 1
    BY <2>9, <2>10, LenProperties
  <2>12. \A i \in Unsent(Append(t, e)) : i \in Unsent(t) \/ i = Len(t) + 1
    BY <2>10, <2>11 DEF Unsent
  <2>13. One(Unsent(Queued))
    BY <2>8, <2>9, <2>12 DEF One
  <2>14. Switches(out) = {} /\ Switches(due) = {}
    BY <2>5, EmptySwitches
  <2>15. PICK M : M = Unsent(Queued)
    OBVIOUS
  <2>16. Few1(M, {}, {}, format)
    BY <2>5, <2>13, <2>15 DEF Few1, Once, FromShort, One
  <2> QED
    BY <2>1, <2>14, <2>15, <2>16
<1> QED
  BY <1>3, <1>4

LEMMA FormatAnswered ==
    ASSUME Inv, FormatInv, list # <<>>, Head(list).written, arrived' = <<>>,
           format' = format,
           NEW r \in Outcomes(Head(list), arrived), r.rc = 1, Answered(r)
    PROVE  FormatInv'
<1> DEFINE next == Queued # <<>> /\ quiet = 0
           k == Head(Queued).kind
           U == Unsent(Queued)
           O == Switches(out)
           D == Switches(due)
           o == Orphaned(out)
<1>1. /\ list' = IF next THEN [Queued EXCEPT ![1].written = TRUE] ELSE Queued
      /\ due' = Orphaned(due)
      /\ out' = IF next THEN Written(k, o) ELSE o
      /\ longUsed' = (longUsed \/ Asks(Head(list)))
  BY DEF Answered, Queued
<1>2. /\ Few1(U, O, D, format)
      /\ ~longUsed /\ ~Asks(Head(list)) => U = {}
  BY QueuedFew
<1>3. /\ Queued \in Seq(Command)
      /\ Queued # <<>> => k \in Kind /\ ~Head(Queued).written
  BY QueuedBehind DEF Listed
<1>4. out \in Seq(Asked) /\ due \in Seq(Awaiting)
  BY DEF Inv, Lines
<1>5. o \in Seq(Asked) /\ Switches(o) = O /\ Switches(due') = D /\ OwnLast(due')
  BY <1>1, <1>4, OrphanedTypes, OrphanedSwitches, OrphanedLast
<1>6. Known'
  BY NothingShort DEF Known
<1> HIDE DEF k, U, O, D, o
<1>7. CASE next
  <2>1. Queued # <<>> /\ list' = [Queued EXCEPT ![1].written = TRUE] /\ out' = Written(k, o)
    BY <1>1, <1>7
  <2>2. k \in Kind /\ ~Head(Queued).written
    BY <1>3, <2>1
  <2>3. /\ Thins(Unsent(list'), U)
        /\ k = "ToggleFormat" => U # {} /\ (One(U) => Unsent(list') = {})
    BY <1>3, <2>1, <2>2, WrittenUnsent DEF U, k
  <2>4. /\ k # "ToggleFormat" => Switches(Written(k, o)) = O
        /\ O = {} => One(Switches(Written(k, o)))
    BY <1>5, <2>2, WrittenSwitches
  <2>5. PICK M : M = Unsent(list')
    OBVIOUS
  <2>6. PICK P : P = Switches(Written(k, o))
    OBVIOUS
  <2>7. Few1(M, P, D, format)
    <3>1. CASE k = "ToggleFormat"
      <4>1. One(U) /\ U # {} /\ O = {} /\ D = {} /\ ~format
        BY <1>2, <2>3, <3>1 DEF Few1, Once, FromShort
      <4>2. M = {} /\ One(P)
        BY <2>3, <2>4, <2>5, <2>6, <3>1, <4>1
      <4> QED
        BY <4>1, <4>2 DEF Few1, Once, FromShort, One
    <3>2. CASE k # "ToggleFormat"
      <4>1. P = O /\ Thins(M, U)
        BY <2>3, <2>4, <2>5, <2>6, <3>2
      <4> QED
        BY <1>2, <4>1, FewThins, ThinsSame
    <3> QED
      BY <3>1, <3>2
  <2>8. Few1(Unsent(list'), Switches(out'), Switches(due'), format')
    BY <1>5, <2>1, <2>5, <2>6, <2>7
  <2>9. Sure'
    <3>1. ~longUsed' => U = {}
      BY <1>1, <1>2
    <3> QED
      BY <2>3, <3>1 DEF Sure, Thins
  <2> QED
    BY <1>5, <1>6, <2>8, <2>9 DEF FormatInv
<1>8. CASE ~next
  <2>1. list' = Queued /\ out' = o
    BY <1>1, <1>8
  <2>2. Few1(Unsent(list'), Switches(out'), Switches(due'), format')
    BY <1>2, <1>5, <2>1 DEF U
  <2>3. Sure'
    BY <1>1, <1>2, <2>1 DEF Sure, U
  <2> QED
    BY <1>5, <1>6, <2>2, <2>3 DEF FormatInv
<1> QED
  BY <1>7, <1>8

LEMMA FormatReadAnswer ==
    ASSUME Inv, Inv', FrameStarts, Orderly, FormatInv, ReadAnswer
    PROVE  FormatInv'
<1>1. list # <<>> /\ format' = format /\ arrived' = <<>>
  BY OrderlyReadAnswer DEF ReadAnswer, Inv, HasFront
<1>2. CASE ~Head(list).written
  <2>1. UNCHANGED <<queue, out, due>>
    BY <1>2 DEF ReadAnswer
  <2>2. UNCHANGED <<list, longUsed, out, due>>
    BY <2>1 DEF queue
  <2>3. OwnLast(due')
    BY <2>2 DEF FormatInv
  <2> QED
    BY <1>1, <2>2, <2>3, NothingShort, ThinsSame, FormatKept
<1>3. CASE Head(list).written
  <2>1. PICK r \in Outcomes(Head(list), arrived) :
          CASE r.rc = 1  -> Answered(r)
            [] r.rc = 0  -> /\ list' = [list EXCEPT ![1].short = r.short]
                            /\ arrived' = r.rest /\ pc' = "idle"
                            /\ UNCHANGED <<gotos, poll, longUsed, times, out, due>>
            [] r.rc = -1 -> Reset /\ pc' = "idle"
    BY <1>3 DEF ReadAnswer
  <2>2. /\ Head(list) \in Command /\ list \in Seq(Command) /\ arrived \in Seq(Answers)
        /\ Head(list).short => Head(list).kind = "Slew"
    BY <1>1, InvFacts DEF Inv, Lines
  <2>3. Proper(r, Head(list))
    BY <2>2, OutcomesProper
  <2>4. CASE r.rc = 1
    <3>1. Answered(r)
      BY <2>1, <2>4
    <3> QED
      BY <1>1, <1>3, <2>4, <3>1, FormatAnswered
  <2>5. CASE r.rc = 0
    <3>1. /\ list' = [list EXCEPT ![1].short = r.short]
          /\ UNCHANGED <<longUsed, out, due>>
      BY <2>1, <2>5
    <3>2. Thins(Unsent(list'), Unsent(list))
      BY <1>1, <2>2, <2>3, <3>1, ShortUnsent DEF Proper
    <3>3. OwnLast(due')
      BY <3>1 DEF FormatInv
    <3> QED
      BY <1>1, <3>1, <3>2, <3>3, NothingShort, ThinsSame, FormatKept
  <2>6. CASE r.rc = -1
    <3>1. Reset
      BY <2>1, <2>6
    <3> QED
      BY <1>1, <3>1, ResetFormat
  <2> QED
    BY <2>3, <2>4, <2>5, <2>6 DEF Proper
<1> QED
  BY <1>2, <1>3

LEMMA FormatAnswer ==
    ASSUME Inv, Inv', FrameStarts, Orderly, Orderly', FormatInv, Answer, ~unruly'
    PROVE  FormatInv'
<1> DEFINE d == Head(due)
           e == [d EXCEPT !.kind = "Rest"]
           k == Head(list).kind
           s == Head(list).short
<1>1. due # <<>> /\ UNCHANGED <<list, out, format, longUsed>>
  BY DEF Answer, queue
<1>2. PICK what \in Replies(d.kind), more \in BOOLEAN :
        /\ more => what = "1" /\ d.kind = "Slew"
        /\ Arrives(what, d.own)
        /\ due' = (IF more THEN <<e>> ELSE <<>>) \o Tail(due)
  BY DEF Answer
<1>3. /\ due \in Seq(Awaiting) /\ Tail(due) \in Seq(Awaiting) /\ d = due[1] /\ d \in Awaiting
      /\ OwnLast(due) /\ arrived \in Seq(Answers) /\ arrived' \in Seq(Answers)
  BY <1>1, HeadTailProperties, EmptySeq DEF Inv, Lines, FormatInv
<1>4. Thins(Switches(due'), Switches(due)) /\ OwnLast(due')
  <2>1. CASE ~more
    <3>1. due' = Tail(due)
      BY <1>2, <1>3, <2>1, ConcatEmptySeq
    <3> QED
      BY <1>1, <1>3, <3>1, TailSwitches
  <2>2. CASE more
    <3>1. e \in Awaiting /\ (e.own <=> d.own) /\ e.kind = "Rest"
      BY <1>3 DEF Awaiting
    <3>2. due' = <<e>> \o Tail(due)
      BY <1>2, <2>2
    <3>3. e.own <=> due[1].own
      BY <1>3, <3>1
    <3> HIDE DEF e, d
    <3>4. /\ due' \in Seq(Awaiting) /\ DOMAIN due' = DOMAIN due /\ due'[1] = e
          /\ \A i \in DOMAIN due : i # 1 => due'[i] = due[i]
          /\ Own(due') = Own(due)
      BY <1>1, <1>3, <3>1, <3>2, <3>3, RestStays
    <3>5. Switches(due') \subseteq Switches(due)
      BY <3>1, <3>4 DEF Switches
    <3>6. Len(due') = Len(due)
      <4>1. PICK a \in Nat, b \in Nat : a = Len(due') /\ b = Len(due)
        BY <1>3, <3>4, LenProperties
      <4>2. 1 .. a = 1 .. b
        BY <1>3, <3>4, <4>1, LenProperties
      <4> QED
        BY <4>1, <4>2
    <3> QED
      BY <1>3, <3>4, <3>5, <3>6 DEF OwnLast, Thins, One
  <2> QED
    BY <2>1, <2>2
<1>5. Few1(Unsent(list'), Switches(out'), Switches(due'), format')
  <2>1. PICK C : C = Switches(due')
    OBVIOUS
  <2>2. Few1(Unsent(list), Switches(out), C, format)
    BY <1>4, <2>1, FewThins, ThinsSame DEF FormatInv
  <2> QED
    BY <1>1, <2>1, <2>2
<1>6. Sure'
  BY <1>1 DEF FormatInv, Sure
<1>7. Waits' <=> Waits
  BY <1>1 DEF Waits
<1>8. Known'
  <2>1. SUFFICES ASSUME Waits, Asks(Head(list)), Shorts(arrived')
                 PROVE  ~format /\ out' = <<>> /\ due' = <<>>
    BY <1>1, <1>7 DEF Known
  <2>2. ~Shorts(arrived)
    BY <1>1, <2>1 DEF FormatInv, Known
  <2>3. Awaited(out', due', arrived', k, s) /\ k \in {"GetRa", "GetDec"}
    BY <1>1, <1>7, <2>1 DEF Orderly, Matched, Asks
  <2>4. out' = <<>> /\ Mine(arrived')
    <3>1. PICK o, q, a : o = out' /\ q = due' /\ a = arrived'
      OBVIOUS
    <3>2. Awaited(o, q, a, k, s) /\ Shorts(a)
      BY <2>1, <2>3, <3>1
    <3>3. o = <<>> /\ Mine(a)
      BY <2>3, <3>2, OverWhen
    <3> QED
      BY <3>1, <3>3
  <2> DEFINE new == [what |-> what, own |-> d.own, long |-> what \in {"ra", "dec"} => format]
  <2>5. /\ arrived' = Append(arrived, new)
        /\ new.own = d.own /\ (new.long <=> (what \in {"ra", "dec"} => format))
    BY <1>2 DEF Arrives
  <2> HIDE DEF new
  <2>6. /\ Len(arrived) \in Nat /\ DOMAIN arrived = 1 .. Len(arrived)
        /\ DOMAIN arrived' = 1 .. Len(arrived) + 1
        /\ \A i \in 1 .. Len(arrived) : arrived'[i] = arrived[i]
        /\ arrived'[Len(arrived) + 1] = new
    <3>1. arrived \in Seq(Answers \union {new}) /\ new \in Answers \union {new}
      BY <1>3
    <3>2. /\ Len(Append(arrived, new)) = Len(arrived) + 1 /\ Len(arrived) \in Nat
          /\ \A i \in 1 .. Len(arrived) : Append(arrived, new)[i] = arrived[i]
          /\ Append(arrived, new)[Len(arrived) + 1] = new
          /\ Append(arrived, new) \in Seq(Answers \union {new})
      BY <3>1, AppendProperties, LenProperties
    <3>3. DOMAIN Append(arrived, new) = 1 .. Len(arrived) + 1
      BY <3>2, LenProperties
    <3> QED
      BY <1>3, <2>5, <3>2, <3>3, LenProperties
  <2>7. ~new.long /\ new.own
    <3>1. PICK i \in DOMAIN arrived' : ~arrived'[i].long
      BY <2>1 DEF Shorts
    <3>2. i = Len(arrived) + 1
      <4>1. i \notin 1 .. Len(arrived)
        BY <2>2, <2>6, <3>1 DEF Shorts
      <4> QED
        BY <2>6, <3>1, <4>1
    <3>3. Len(arrived) + 1 \in DOMAIN arrived'
      BY <2>6
    <3> QED
      BY <2>4, <2>6, <3>1, <3>2, <3>3 DEF Mine
  <2>8. ~format /\ what \in {"ra", "dec"}
    BY <2>5, <2>7
  <2>9. Tail(due) = <<>>
    <3>1. d.own
      BY <2>5, <2>7
    <3> QED
      BY <1>1, <1>3, <3>1, TailSwitches
  <2>10. ~more
    BY <1>2, <2>8
  <2>11. due' = <<>>
    <3>1. due' = <<>> \o Tail(due)
      BY <1>2, <2>10
    <3> QED
      BY <1>3, <2>9, <3>1, ConcatEmptySeq
  <2> QED
    BY <2>4, <2>8, <2>11
<1> QED
  BY <1>4, <1>5, <1>6, <1>8 DEF FormatInv

--------------------------------------------------------------------------------
Fine == ~unruly => FormatInv

LEMMA FineStep ==
    ASSUME Inv, Inv', FrameStarts, Good, Good', Fine, [Next]_vars
    PROVE  Fine'
<1> SUFFICES ASSUME ~unruly' PROVE FormatInv'
  BY DEF Fine
<1>1. Orderly'
  BY DEF Good
<1>2. CASE Answer
  <2>1. ~unruly
    BY <1>2 DEF Answer
  <2> QED
    BY <1>1, <1>2, <2>1, FormatAnswer DEF Good, Fine
<1>3. CASE Noise
  BY <1>3 DEF Noise
<1>4. CASE ReadAnswer
  <2>1. ~unruly
    BY <1>4 DEF ReadAnswer
  <2> QED
    BY <1>4, <2>1, FormatReadAnswer DEF Good, Fine
<1>5. CASE UNCHANGED vars
  <2>1. UNCHANGED <<list, longUsed, out, arrived, due, format, unruly>>
    BY <1>5 DEF vars, queue, buffers, telescope, history
  <2>2. FormatInv
    BY <2>1 DEF Fine
  <2>3. (Waits' <=> Waits) /\ OwnLast(due')
    BY <2>1, <2>2 DEF Waits, FormatInv
  <2> QED
    BY <2>1, <2>2, <2>3, ThinsSame, FormatKept
<1>6. ASSUME UNCHANGED history
      PROVE  Orderly /\ FormatInv
  BY <1>6 DEF history, Good, Fine
<1>7. CASE SendSlew
  <2>1. UNCHANGED history
    BY <1>7 DEF SendSlew
  <2> QED
    BY <1>6, <1>7, <2>1, FormatSendSlew
<1>8. CASE Frame
  <2>1. UNCHANGED history
    BY <1>8 DEF Frame
  <2> QED
    BY <1>6, <1>8, <2>1, FormatFrame
<1>9. CASE Flush
  <2>1. UNCHANGED history
    BY <1>9 DEF Flush
  <2> QED
    BY <1>6, <1>9, <2>1, FormatFlush
<1>10. CASE Sent
  <2>1. UNCHANGED history /\ UNCHANGED <<list, longUsed, out, arrived, due, format>>
    BY <1>10 DEF Sent, queue, buffers, telescope
  <2>2. FormatInv
    BY <1>6, <2>1
  <2>3. (Waits' <=> Waits) /\ OwnLast(due')
    BY <2>1, <2>2 DEF Waits, FormatInv
  <2> QED
    BY <2>1, <2>2, <2>3, ThinsSame, FormatKept
<1>11. CASE CheckTimeout
  <2>1. UNCHANGED history
    BY <1>11 DEF CheckTimeout
  <2> QED
    BY <1>6, <1>11, <2>1, FormatCheckTimeout
<1>12. CASE Write
  <2>1. UNCHANGED history
    BY <1>12 DEF Write
  <2> QED
    BY <1>6, <1>12, <2>1, FormatWrite
<1>13. CASE Read
  <2>1. UNCHANGED history
    BY <1>13 DEF Read
  <2> QED
    BY <1>6, <1>13, <2>1, FormatRead
<1>14. CASE Drop
  <2>1. UNCHANGED history
    BY <1>14 DEF Drop
  <2> QED
    BY <1>6, <1>14, <2>1, FormatDrop
<1>15. CASE Switch
  <2>1. UNCHANGED history
    BY <1>15 DEF Switch
  <2> QED
    BY <1>6, <1>15, <2>1, FormatSwitch
<1>16. CASE Tick
  <2>1. UNCHANGED history
    BY <1>16 DEF Tick
  <2> QED
    BY <1>6, <1>16, <2>1, FormatTick
<1> QED
  BY <1>2, <1>3, <1>4, <1>5, <1>7, <1>8, <1>9, <1>10, <1>11, <1>12, <1>13, <1>14, <1>15,
     <1>16 DEF Next, Code

LEMMA OnlySwitches ==
    ASSUME Inv, Fine, [Next]_vars
    PROVE  [format /\ ~format' => unruly]_vars
<1> SUFFICES ASSUME ~unruly, format, ~format' PROVE FALSE
  OBVIOUS
<1>1. CASE Switch
  BY <1>1, FormatSwitch DEF Fine
<1>2. CASE ~Switch
  <2>1. UNCHANGED format
    BY <1>2 DEF Next, Code, SendSlew, Frame, Flush, Sent, CheckTimeout, Write, Read, ReadAnswer,
                Answer, Drop, Noise, Tick, vars, telescope
  <2> QED
    BY <2>1
<1> QED
  BY <1>1, <1>2

\* A telescope that keeps its times and sends nothing unasked is never sent back to
\* the short format, whatever is lost and however often the connection is reset: a
\* change of format is sent only when a position has come in the short format, and
\* then nothing else is on its way that would change it too.
THEOREM LongFormatStays == Spec => FormatStaysLong
<1>1. Init => FrameStarts /\ Good /\ Fine
  <2> SUFFICES ASSUME Init PROVE FrameStarts /\ Good /\ Fine
    OBVIOUS
  <2>1. /\ list = <<>> /\ out = <<>> /\ arrived = <<>> /\ due = <<>> /\ pc = "idle"
        /\ misread = FALSE
    BY DEF Init
  <2>2. ~Waits /\ Own(due) = {} /\ Unsent(list) = {} /\ Switches(due) = {}
    BY <2>1 DEF Waits, Own, Unsent, Switches
  <2>3. FrameStarts /\ Good
    BY <2>1, <2>2 DEF FrameStarts, Good, Orderly, Matched, Mute, Late, Told, Heard
  <2>4. FormatInv
    BY <2>1, <2>2 DEF FormatInv, Sure, Few1, Once, FromShort, One, OwnLast, Known
  <2> QED
    BY <2>3, <2>4 DEF Fine
<1>2. Inv /\ FrameStarts /\ Good /\ Fine /\ [Next]_vars =>
        Inv' /\ FrameStarts' /\ Good' /\ Fine'
  BY StepInv, StartStep, GoodStep, FineStep
<1>3. Inv /\ Fine /\ [Next]_vars => [format /\ ~format' => unruly]_vars
  BY OnlySwitches
<1> QED
  BY <1>1, <1>2, <1>3, InitInv, PTL DEF Spec, FormatStaysLong
================================================================================
