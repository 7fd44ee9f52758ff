-------------------------- MODULE SyncFraming_proofs --------------------------
(* Proofs about SyncFraming, for every header size, every size limit below    *)
(* the modulus of the size field, every set of message sizes and every way    *)
(* the network may cut the byte stream up.                                    *)
EXTENDS SyncFraming, SequenceTheorems, TLAPS

--------------------------------------------------------------------------------
(* The inductive invariant.                                                   *)

\* The messages tile the byte stream, each with its header in front.
Layout ==
    /\ \A i \in 1..Len(sent) : /\ HeaderSize <= sent[i].body
                               /\ sent[i].body + sent[i].size <= written
    /\ \A i, j \in 1..Len(sent) :
         i < j => sent[i].body + sent[i].size + HeaderSize <= sent[j].body
    /\ \A i \in 1..(Len(sent) - 1) :
         sent[i + 1].body = sent[i].body + sent[i].size + HeaderSize
    /\ Len(sent) = 0 => written = 0
    /\ Len(sent) > 0 => /\ sent[1].body = HeaderSize
                        /\ written = sent[Len(sent)].body + sent[Len(sent)].size

\* No data is written before the writer's handshake.
DataFollowsHandshake ==
    \A j \in 1..Len(sent) : sent[j].type = "data" =>
        \E i \in 1..(j - 1) : sent[i].type = "handshake"

InBuffer == pos <= arrived /\ arrived <= written

\* Where the receiver must be when k messages have been handled.
AtBoundary(k) ==
    IF waitingForBody
      THEN /\ k < Len(sent)
           /\ pos = sent[k + 1].body
           /\ msgHeader = [type |-> sent[k + 1].type, size |-> sent[k + 1].size]
           /\ msgHeader.size > 0
      ELSE pos = IF k < Len(sent) THEN sent[k + 1].body - HeaderSize ELSE written

Aligned ==
    /\ Len(handled) <= Len(sent)
    /\ \A i \in 1..Len(handled) : handled[i] = sent[i]
    /\ \A i \in 1..Len(handled) : sent[i].type = "handshake" => authenticated
    /\ AtBoundary(Len(handled))

IInv == /\ TypeOK
        /\ Layout
        /\ DataFollowsHandshake
        /\ InBuffer
        /\ ~broken => Aligned
        /\ NoMessageLeftBehind

--------------------------------------------------------------------------------
LEMMA ModSmall ==
    ASSUME NEW m \in Nat, NEW n \in Nat, n < m
    PROVE  n % m = n
  BY SMT

\* Appending keeps what is there and puts the new element at the end.
LEMMA AppendFacts ==
    ASSUME NEW S, NEW s \in Seq(S), NEW e \in S
    PROVE  /\ Append(s, e) \in Seq(S)
           /\ Len(Append(s, e)) = Len(s) + 1
           /\ \A i \in 1..Len(s) : Append(s, e)[i] = s[i]
           /\ Append(s, e)[Len(s) + 1] = e
  BY AppendProperties

THEOREM InitInv == Init => IInv
  <1> SUFFICES ASSUME Init PROVE IInv
    OBVIOUS
  <1> USE SizesAssumption DEF Init, InitialHeader
  <1>1. Len(sent) = 0 /\ Len(handled) = 0 /\ sent \in Seq(Message) /\ handled \in Seq(Message)
    OBVIOUS
  <1>2. TypeOK
    <2>1. 0 \in 0..(SizeModulus - 1)
      OBVIOUS
    <2>2. msgHeader \in Header
      BY <2>1 DEF Header, Type
    <2>3. arrived \in 0..written /\ pos \in 0..arrived /\ written \in Nat
      OBVIOUS
    <2>4. /\ writerOpen \in BOOLEAN /\ waitingForBody \in BOOLEAN /\ inLoop \in BOOLEAN
          /\ authenticated \in BOOLEAN /\ broken \in BOOLEAN
      OBVIOUS
    <2> QED BY ONLY <1>1, <2>2, <2>3, <2>4 DEF TypeOK
  <1>3. Layout /\ DataFollowsHandshake /\ InBuffer
    BY <1>1 DEF Layout, DataFollowsHandshake, InBuffer
  <1>4. Aligned
    BY <1>1 DEF Aligned, AtBoundary
  <1>5. NoMessageLeftBehind
    BY <1>1 DEF NoMessageLeftBehind
  <1> QED BY <1>2, <1>3, <1>4, <1>5 DEF IInv

--------------------------------------------------------------------------------
(* One step of the writing end.                                               *)

receiverVars == <<arrived, pos, msgHeader, waitingForBody, inLoop,
                  authenticated, handled, broken>>

LEMMA FrameInv ==
    ASSUME IInv, NEW t \in Type, NEW size \in Nat, FitsMessage(size),
           t = "data" => \E m \in Elements(sent) : m.type = "handshake",
           WriteFrame(t, size), writerOpen' \in BOOLEAN, UNCHANGED receiverVars
    PROVE  IInv'
  <1> DEFINE m == FrameOf(t, size)
             n == Len(sent)
             k == Len(handled)
  <1>h. HeaderSize \in Nat /\ HeaderSize > 0
    BY SizesAssumption
  <1>s. /\ sent \in Seq(Message) /\ handled \in Seq(Message)
        /\ written \in Nat
    BY DEF IInv, TypeOK
  <1>1. /\ m.type = t /\ m.size = size /\ m.body = written + HeaderSize
        /\ m \in Message
    <2>1. size % SizeModulus = size
      BY ModSmall, SizesAssumption DEF FitsMessage
    <2>2. size \in 0..(SizeModulus - 1)
      BY SizesAssumption DEF FitsMessage
    <2> QED BY <2>1, <2>2, <1>h, <1>s DEF FrameOf, Message
  <1>2. /\ n \in Nat /\ k \in Nat
        /\ \A i \in 1..n : sent[i].body \in Nat /\ sent[i].size \in Nat
    <2>1. n \in Nat /\ k \in Nat /\ \A i \in 1..n : sent[i] \in Message
      BY <1>s
    <2>2. \A x \in Message : x.body \in Nat /\ x.size \in Nat
      BY DEF Message
    <2> QED BY <2>1, <2>2
  <1>3. /\ sent' \in Seq(Message) /\ Len(sent') = n + 1
        /\ \A i \in 1..n : sent'[i] = sent[i]
        /\ sent'[n + 1] = m
    <2> HIDE DEF m
    <2>1. sent' = Append(sent, m)
      BY DEF WriteFrame, m
    <2> QED BY <1>1, <1>s, <2>1, AppendFacts
  <1>4. written' = written + HeaderSize + size /\ written' \in Nat
    <2>1. size \in Nat
      OBVIOUS
    <2> QED BY <1>s, <1>h, <2>1 DEF WriteFrame
  <1> HIDE DEF m, n, k
  <1>t. /\ \A i \in 1..n : sent'[i] = sent[i]
        /\ sent'[n + 1].type = t /\ sent'[n + 1].size = size
        /\ sent'[n + 1].body = written + HeaderSize
    BY <1>1, <1>3
  <1>l. n = Len(sent) /\ Len(sent') = n + 1
    BY <1>3 DEF n
  <1>5. TypeOK'
    <2>1. arrived' \in 0..written' /\ pos' \in 0..arrived'
      BY <1>4, <1>s, <1>h DEF IInv, TypeOK, receiverVars
    <2> QED BY <1>3, <1>4, <2>1 DEF IInv, TypeOK, receiverVars
  <1>w. written \in Nat
    BY <1>s
  <1>6. Layout'
    <2> USE <1>2, <1>t, <1>4, <1>h, <1>w
    <2>1. \A i \in 1..n : /\ HeaderSize <= sent[i].body
                          /\ sent[i].body + sent[i].size <= written
      BY <1>l DEF IInv, Layout
    <2>1a. \A i, j \in 1..n :
             i < j => sent[i].body + sent[i].size + HeaderSize <= sent[j].body
      BY <1>l DEF IInv, Layout
    <2>1b. /\ \A i \in 1..(n - 1) :
                sent[i + 1].body = sent[i].body + sent[i].size + HeaderSize
           /\ n = 0 => written = 0
           /\ n > 0 => /\ sent[1].body = HeaderSize
                       /\ written = sent[n].body + sent[n].size
      BY <1>l DEF IInv, Layout
    <2>2. \A i \in 1..(n + 1) : /\ HeaderSize <= sent'[i].body
                                /\ sent'[i].body + sent'[i].size <= written'
      <3> TAKE i \in 1..(n + 1)
      <3>1. CASE i \in 1..n
        BY <2>1, <3>1
      <3>2. CASE i = n + 1
        BY <3>2
      <3> QED BY <3>1, <3>2
    <2>3. \A i, j \in 1..(n + 1) :
            i < j => sent'[i].body + sent'[i].size + HeaderSize <= sent'[j].body
      <3> TAKE i, j \in 1..(n + 1)
      <3>1. CASE j \in 1..n
        BY <2>1a, <3>1
      <3>2. CASE j = n + 1
        BY <2>1, <3>2
      <3> QED BY <3>1, <3>2
    <2>4. \A i \in 1..n :
            sent'[i + 1].body = sent'[i].body + sent'[i].size + HeaderSize
      <3> TAKE i \in 1..n
      <3>1. CASE i < n
        BY <2>1b, <3>1
      <3>2. CASE i = n
        BY <2>1b, <3>2
      <3> QED BY <3>1, <3>2
    <2>5. sent'[1].body = HeaderSize
      BY <2>1b
    <2>6. written' = sent'[n + 1].body + sent'[n + 1].size
      OBVIOUS
    <2>7. (n + 1) - 1 = n /\ n + 1 # 0
      OBVIOUS
    <2> QED BY <1>l, <2>2, <2>3, <2>4, <2>5, <2>6, <2>7 DEF Layout
  <1>7. DataFollowsHandshake'
    <2> SUFFICES ASSUME NEW j \in 1..(n + 1), sent'[j].type = "data"
                 PROVE  \E i \in 1..(j - 1) : sent'[i].type = "handshake"
      BY <1>l DEF DataFollowsHandshake
    <2>1. CASE j \in 1..n
      <3>1. PICK i \in 1..(j - 1) : sent[i].type = "handshake"
        BY <2>1, <1>l, <1>t DEF IInv, DataFollowsHandshake
      <3> QED BY <3>1, <2>1, <1>t, <1>2
    <2>2. CASE j = n + 1
      <3>1. PICK i \in 1..n : sent[i].type = "handshake"
        BY <2>2, <1>l, <1>t, <1>s DEF Elements
      <3> QED BY <3>1, <2>2, <1>t, <1>2
    <2> QED BY <2>1, <2>2, <1>2
  <1>8. InBuffer'
    BY <1>w, <1>4, <1>h DEF IInv, TypeOK, InBuffer, receiverVars
  <1>k. k = Len(handled) /\ k = Len(handled')
    BY DEF k, receiverVars
  <1>9. ASSUME ~broken' PROVE Aligned'
    <2>1. Aligned
      BY <1>9 DEF IInv, receiverVars
    <2>2. k <= n /\ AtBoundary(k)
      BY <2>1, <1>k, <1>l DEF Aligned
    <2>3. AtBoundary(k)'
      <3>1. k' = k
        BY DEF k, receiverVars
      <3>2. CASE waitingForBody
        BY <3>1, <3>2, <2>2, <1>l, <1>t, <1>2 DEF AtBoundary, receiverVars
      <3>3. CASE ~waitingForBody /\ k < n
        BY <3>1, <3>3, <2>2, <1>l, <1>t, <1>2 DEF AtBoundary, receiverVars
      <3>4. CASE ~waitingForBody /\ k = n
        BY <3>1, <3>4, <2>2, <1>l, <1>t, <1>2, <1>w, <1>h DEF AtBoundary, receiverVars
      <3> QED BY <3>2, <3>3, <3>4, <2>2, <1>2
    <2>4. /\ \A i \in 1..k : handled[i] = sent[i] /\ i \in 1..n
          /\ \A i \in 1..k : sent[i].type = "handshake" => authenticated
      BY <2>1, <2>2, <1>k, <1>l, <1>2 DEF Aligned
    <2>5. k <= n + 1
      BY <2>2, <1>2
    <2>6. AtBoundary(Len(handled))'
      BY <2>3 DEF k
    <2> QED BY <2>4, <2>5, <2>6, <1>k, <1>l, <1>t DEF Aligned, receiverVars
  <1>10. NoMessageLeftBehind'
    <2> SUFFICES ASSUME ~inLoop, ~broken, k < n + 1
                 PROVE  arrived < sent'[k + 1].body + sent'[k + 1].size
      BY <1>l, <1>k DEF NoMessageLeftBehind, receiverVars
    <2>1. CASE k < n
      BY <2>1, <1>2, <1>t, <1>l, <1>k DEF IInv, NoMessageLeftBehind
    <2>2. CASE k = n
      <3>1. arrived \in Nat /\ arrived <= written
        BY DEF IInv, TypeOK, InBuffer
      <3> QED BY <3>1, <2>2, <1>t, <1>w, <1>h
    <2> QED BY <2>1, <2>2, <1>2
  <1> QED BY <1>5, <1>6, <1>7, <1>8, <1>9, <1>10 DEF IInv

LEMMA WriteInv == IInv /\ Write => IInv'
  <1> SUFFICES ASSUME IInv, NEW t \in Type \ {"error"}, NEW size \in PayloadSizes,
                      WriteMessage(t, size)
               PROVE  IInv'
    BY DEF Write
  <1>1. size \in Nat /\ ErrorSize \in Nat /\ FitsMessage(ErrorSize) /\ "error" \in Type
    BY SizesAssumption DEF FitsMessage, Type
  <1>2. UNCHANGED receiverVars /\ writerOpen' \in BOOLEAN
    BY DEF WriteMessage, receiverVars, IInv, TypeOK
  <1>3. CASE FitsMessage(size)
    BY <1>1, <1>2, <1>3, FrameInv DEF WriteMessage
  <1>4. CASE ~FitsMessage(size)
    BY <1>1, <1>2, <1>4, FrameInv DEF WriteMessage
  <1> QED BY <1>3, <1>4

--------------------------------------------------------------------------------
(* One step of the receiving end.                                             *)

LEMMA ArriveInv == IInv /\ Arrive => IInv'
  <1> SUFFICES ASSUME IInv, NEW n \in 1..(written - arrived), ReadyRead(n)
               PROVE  IInv'
    BY DEF Arrive
  <1>1. arrived' \in Nat /\ arrived <= arrived' /\ arrived' <= written
    BY DEF IInv, TypeOK, ReadyRead
  <1> USE DEF ReadyRead, senderVars
  <1>2. TypeOK'
    BY <1>1 DEF IInv, TypeOK
  <1>3. Layout' /\ DataFollowsHandshake'
    BY DEF IInv, Layout, DataFollowsHandshake
  <1>4. InBuffer'
    BY <1>1 DEF IInv, TypeOK, InBuffer
  <1>5. ASSUME ~broken' PROVE Aligned'
    BY <1>5 DEF IInv, Aligned, AtBoundary
  <1>6. NoMessageLeftBehind'
    BY DEF IInv, NoMessageLeftBehind
  <1> QED BY <1>2, <1>3, <1>4, <1>5, <1>6 DEF IInv

LEMMA LeaveInv == IInv /\ LeaveLoop => IInv'
  <1> SUFFICES ASSUME IInv, LeaveLoop PROVE IInv'
    OBVIOUS
  <1> USE DEF LeaveLoop, senderVars
  <1>2. TypeOK'
    BY DEF IInv, TypeOK
  <1>3. Layout' /\ DataFollowsHandshake' /\ InBuffer'
    BY DEF IInv, Layout, DataFollowsHandshake, InBuffer
  <1>5. ASSUME ~broken' PROVE Aligned'
    BY <1>5 DEF IInv, Aligned, AtBoundary
  <1>6. NoMessageLeftBehind'
    <2> SUFFICES ASSUME ~broken, Len(handled) < Len(sent)
                 PROVE  arrived < sent[Len(handled) + 1].body + sent[Len(handled) + 1].size
      BY DEF NoMessageLeftBehind
    <2> DEFINE b == sent[Len(handled) + 1].body
               z == sent[Len(handled) + 1].size
    <2>1. AtBoundary(Len(handled))
      BY DEF IInv, Aligned
    <2>2. /\ arrived \in Nat /\ pos \in Nat
          /\ bytesAvailable = 0 \/ (~waitingForBody /\ arrived - pos < HeaderSize)
      <3>1. arrived \in Nat /\ pos \in Nat /\ HeaderSize \in Nat
        BY SizesAssumption DEF IInv, TypeOK
      <3>2. bytesAvailable = 0 \/ (~waitingForBody /\ ~(arrived - pos >= HeaderSize))
        BY DEF HasHeader, bytesAvailable
      <3> QED BY <3>1, <3>2
    <2>3. b \in Nat /\ z \in Nat
      <3>1. sent[Len(handled) + 1] \in Message
        BY DEF IInv, TypeOK
      <3> HIDE DEF LeaveLoop
      <3> QED BY <3>1 DEF Message
    <2>4. \/ waitingForBody /\ pos = b /\ z > 0
          \/ ~waitingForBody /\ pos = b - HeaderSize
      BY <2>1 DEF AtBoundary
    <2>5. bytesAvailable = 0 => arrived = pos
      BY <2>2 DEF bytesAvailable
    <2> HIDE DEF b, z
    <2>6. arrived < b + z
      BY <2>2, <2>3, <2>4, <2>5, SizesAssumption
    <2> QED BY <2>6 DEF b, z
  <1> QED BY <1>2, <1>3, <1>5, <1>6 DEF IInv

\* What a second half of an iteration does, whether or not the receiver is
\* still aligned with the stream.
LEMMA TryBodyBasics ==
    ASSUME IInv, NEW h \in Header, NEW p \in Nat, p <= arrived,
           TryBody(h, p), inLoop, msgHeader' = h, UNCHANGED <<senderVars, arrived>>
    PROVE  /\ TypeOK' /\ Layout' /\ DataFollowsHandshake' /\ InBuffer'
           /\ broken => broken'
           /\ broken' /\ ~broken /\ h.type \in Type => Refusal
  <1>1. h.size \in Nat /\ h.size \in 0..(SizeModulus - 1)
    BY SizesAssumption DEF Header
  <1>2. arrived \in Nat /\ pos \in Nat /\ arrived <= written /\ written \in Nat
    BY DEF IInv, TypeOK, InBuffer
  <1>3. Layout' /\ DataFollowsHandshake'
    BY DEF IInv, Layout, DataFollowsHandshake, senderVars
  <1>4. sent' = sent /\ written' = written /\ writerOpen' = writerOpen /\ arrived' = arrived
    BY DEF senderVars
  <1>n. p \in 0..arrived
    BY <1>2
  <1>5. CASE ~BodyIsHere(h, p)
    <2>1. /\ waitingForBody' = TRUE /\ inLoop' = FALSE /\ pos' = p
          /\ UNCHANGED <<authenticated, handled, broken>>
      BY <1>5 DEF TryBody
    <2>2. TypeOK'
      BY <2>1, <1>4, <1>n DEF IInv, TypeOK
    <2>3. InBuffer'
      BY <2>1, <1>2, <1>4 DEF InBuffer
    <2> QED BY <2>1, <2>2, <2>3, <1>3
  <1>7. CASE BodyIsHere(h, p) /\ h.type \notin Type
    <2>1. /\ waitingForBody' = FALSE /\ inLoop' = FALSE /\ pos' = p /\ broken' = TRUE
          /\ UNCHANGED <<authenticated, handled>>
      BY <1>7 DEF TryBody, NoHandler
    <2>2. TypeOK'
      BY <2>1, <1>4, <1>n DEF IInv, TypeOK
    <2>3. InBuffer'
      BY <2>1, <1>2, <1>4 DEF InBuffer
    <2> QED BY <2>1, <2>2, <2>3, <1>3, <1>7
  <1>6. CASE BodyIsHere(h, p) /\ h.type \in Type
    <2>1. CallHandler(h, p)
      BY <1>6 DEF TryBody
    <2>0. ~(arrived - p < h.size)
      BY <1>1, <1>2, <1>6 DEF BodyIsHere
    <2>2. pos' \in p..(p + h.size)
      BY <2>1, <1>1 DEF CallHandler, LoopGoesOn
    <2>3. pos' \in Nat /\ pos' <= arrived /\ pos' \in 0..arrived
      BY <2>0, <2>2, <1>1, <1>2
    <2>4. [type |-> h.type, size |-> h.size, body |-> p] \in Message
      BY <1>1, <1>6 DEF Message
    <2>5. handled' \in Seq(Message)
      BY <2>4, <2>1 DEF CallHandler, IInv, TypeOK
    <2>6. /\ waitingForBody' \in BOOLEAN /\ inLoop' \in BOOLEAN
          /\ authenticated' \in BOOLEAN /\ broken' \in BOOLEAN
          /\ broken => broken'
          /\ broken' /\ ~broken => h.type \in RefusedTypes
      <3>1. /\ inLoop \in BOOLEAN /\ authenticated \in BOOLEAN /\ broken \in BOOLEAN
        BY DEF IInv, TypeOK
      <3>2. /\ waitingForBody' = FALSE
            /\ inLoop' = inLoop
            /\ \/ /\ authenticated' = (authenticated \/ Authenticates(h))
                  /\ broken' = broken
               \/ /\ h.type \in RefusedTypes
                  /\ broken' = TRUE
                  /\ authenticated' = authenticated
        BY <2>1 DEF CallHandler, LoopGoesOn
      <3>3. CASE broken' = broken /\ authenticated' = (authenticated \/ Authenticates(h))
        BY <3>1, <3>2, <3>3
      <3>4. CASE h.type \in RefusedTypes /\ broken' = TRUE /\ authenticated' = authenticated
        BY <3>1, <3>2, <3>4
      <3> QED BY <3>2, <3>3, <3>4
    <2>7. TypeOK'
      BY <2>3, <2>5, <2>6, <1>4 DEF IInv, TypeOK
    <2>8. InBuffer'
      BY <2>3, <1>2, <1>4 DEF InBuffer
    <2>9. broken' /\ ~broken => Refusal
      <3> DEFINE q == [type |-> h.type, size |-> h.size, body |-> p]
      <3>1. handled' = Append(handled, q) /\ handled \in Seq(Message) /\ q \in Message
        BY <2>1, <2>4 DEF CallHandler, IInv, TypeOK
      <3>2. q.type = h.type
        OBVIOUS
      <3> HIDE DEF q
      <3>3. Len(handled') = Len(handled) + 1 /\ handled'[Len(handled) + 1] = q
        BY <3>1, AppendFacts
      <3> QED BY <2>6, <3>2, <3>3 DEF Refusal
    <2> QED BY <2>6, <2>7, <2>8, <2>9, <1>3
  <1> QED BY <1>5, <1>6, <1>7

\* The same when the receiver is at message k+1: it stays aligned, whether the
\* body is missing, is handed over, or is refused.
LEMMA TryBodyAligned ==
    ASSUME IInv, ~broken, inLoop, NEW h \in Header, NEW p \in Nat, p <= arrived,
           Len(handled) < Len(sent),
           h.type = sent[Len(handled) + 1].type,
           h.size = sent[Len(handled) + 1].size,
           p = sent[Len(handled) + 1].body,
           TryBody(h, p), msgHeader' = h, UNCHANGED <<senderVars, arrived>>
    PROVE  IInv'
  <1> DEFINE k == Len(handled)
             n == Len(sent)
  <1>b. /\ TypeOK' /\ Layout' /\ DataFollowsHandshake' /\ InBuffer'
    BY TryBodyBasics
  <1>1. /\ sent \in Seq(Message) /\ handled \in Seq(Message)
        /\ k \in Nat /\ n \in Nat /\ k < n
        /\ sent[k + 1] \in Message
    BY DEF IInv, TypeOK
  <1>2. h.size \in Nat /\ arrived \in Nat /\ arrived <= written
    BY SizesAssumption DEF Header, IInv, TypeOK, InBuffer
  <1>3. Aligned
    BY DEF IInv
  <1>s. sent' = sent /\ written' = written /\ arrived' = arrived
    BY DEF senderVars
  <1>t. h.type \in Type
    <2>1. \A x \in Message : x.type \in Type
      BY DEF Message
    <2> QED BY <1>1, <2>1
  <1>5. CASE ~BodyIsHere(h, p)
    <2>1. /\ waitingForBody' = TRUE /\ inLoop' = FALSE /\ pos' = p
          /\ UNCHANGED <<authenticated, handled, broken>>
      BY <1>5 DEF TryBody
    <2>2. h.size > 0 /\ arrived < p + h.size
      BY <1>2, <1>5 DEF BodyIsHere
    <2>h. h = [type |-> h.type, size |-> h.size]
      BY DEF Header
    <2>3. AtBoundary(k)'
      BY <2>1, <2>2, <2>h, <1>s, <1>1 DEF AtBoundary
    <2>4. Aligned'
      BY <2>1, <2>3, <1>3, <1>s DEF Aligned
    <2>5. NoMessageLeftBehind'
      BY <2>1, <2>2, <1>s DEF NoMessageLeftBehind
    <2> QED BY <2>4, <2>5, <1>b DEF IInv
  <1>6. CASE BodyIsHere(h, p)
    <2> DEFINE r == [type |-> h.type, size |-> h.size, body |-> p]
    <2>1. /\ handled' = Append(handled, r)
          /\ waitingForBody' = FALSE
          /\ inLoop' = inLoop
      BY <1>6, <1>t DEF TryBody, CallHandler, LoopGoesOn
    <2>2. r = sent[k + 1] /\ r \in Message
      BY <1>1 DEF Message
    <2>3. /\ Len(handled') = k + 1
          /\ \A i \in 1..k : handled'[i] = handled[i]
          /\ handled'[k + 1] = sent[k + 1]
      <3> HIDE DEF r
      <3> QED BY <2>1, <2>2, <1>1, AppendFacts
    <2>4. ASSUME ~broken' PROVE Aligned'
      <3>1. /\ pos' = p + h.size
            /\ authenticated' = (authenticated \/ Authenticates(h))
        BY <2>4, <1>6, <1>t DEF TryBody, CallHandler
      <3>2. /\ \A i \in 1..k : handled[i] = sent[i]
            /\ \A i \in 1..k : sent[i].type = "handshake" => authenticated
        BY <1>3 DEF Aligned
      <3>3. \A i \in 1..(k + 1) : i \in 1..k \/ i = k + 1
        BY <1>1
      <3>4. \A i \in 1..(k + 1) : handled'[i] = sent[i]
        BY <2>3, <3>2, <3>3
      <3>5. \A i \in 1..(k + 1) : sent[i].type = "handshake" => authenticated'
        BY <3>1, <3>2, <3>3 DEF Authenticates
      <3>6. pos' = IF k + 1 < n THEN sent[k + 2].body - HeaderSize ELSE written
        <4>1. CASE k + 1 < n
          <5>1. sent[k + 2].body = sent[k + 1].body + sent[k + 1].size + HeaderSize
            <6>1. k + 1 \in 1..(n - 1) /\ (k + 1) + 1 = k + 2
              BY <4>1, <1>1
            <6> QED BY <6>1 DEF IInv, Layout
          <5>2. HeaderSize \in Nat
            BY SizesAssumption
          <5> QED BY <5>1, <5>2, <3>1, <4>1, <1>2
        <4>2. CASE k + 1 = n
          <5>1. written = sent[n].body + sent[n].size
            BY <1>1 DEF IInv, Layout
          <5> QED BY <5>1, <3>1, <4>2
        <4> QED BY <4>1, <4>2, <1>1
      <3>7. k + 1 <= n /\ (k + 1) + 1 = k + 2
        BY <1>1
      <3>8. AtBoundary(Len(handled))'
        BY <3>6, <3>7, <2>1, <2>3, <1>s DEF AtBoundary
      <3> QED BY <3>4, <3>5, <3>7, <3>8, <2>3, <1>s DEF Aligned
    <2>5. NoMessageLeftBehind'
      BY <2>1 DEF NoMessageLeftBehind
    <2> QED BY <2>4, <2>5, <1>b DEF IInv
  <1> QED BY <1>5, <1>6

\* Between two messages the header found in the buffer is the next message's.
LEMMA NextHeader ==
    ASSUME IInv, ~broken, ~waitingForBody, HasHeader,
           NEW h \in HeadersAt(pos)
    PROVE  /\ Len(handled) < Len(sent)
           /\ h.type = sent[Len(handled) + 1].type
           /\ h.size = sent[Len(handled) + 1].size
           /\ pos + HeaderSize = sent[Len(handled) + 1].body
  <1> DEFINE k == Len(handled)
             n == Len(sent)
  <1>1. /\ sent \in Seq(Message) /\ k \in Nat /\ n \in Nat /\ k <= n
        /\ \A i \in 1..n : sent[i] \in Message
        /\ pos = IF k < n THEN sent[k + 1].body - HeaderSize ELSE written
    BY DEF IInv, TypeOK, Aligned, AtBoundary
  <1>2. /\ pos \in Nat /\ arrived \in Nat /\ written \in Nat /\ arrived <= written
        /\ arrived - pos >= HeaderSize /\ HeaderSize \in Nat /\ HeaderSize > 0
    BY SizesAssumption DEF IInv, TypeOK, InBuffer, HasHeader, bytesAvailable
  <1>3. k < n
    BY <1>1, <1>2
  <1>4. \A i \in 1..n : sent[i].body \in Nat /\ sent[i].size \in Nat
    <2>1. \A x \in Message : x.body \in Nat /\ x.size \in Nat
      BY DEF Message
    <2> QED BY <2>1, <1>1
  <1>5. pos + HeaderSize = sent[k + 1].body /\ k + 1 \in 1..n
    BY <1>1, <1>2, <1>3, <1>4
  <1>6. \A j \in 1..n : sent[j].body = sent[k + 1].body => j = k + 1
    <2> TAKE j \in 1..n
    <2>1. CASE j < k + 1
      <3>1. sent[j].body + sent[j].size + HeaderSize <= sent[k + 1].body
        BY <2>1, <1>5 DEF IInv, Layout
      <3> QED BY <3>1, <1>2, <1>4, <1>5
    <2>2. CASE j > k + 1
      <3>1. sent[k + 1].body + sent[k + 1].size + HeaderSize <= sent[j].body
        BY <2>2, <1>5 DEF IInv, Layout
      <3> QED BY <3>1, <1>2, <1>4, <1>5
    <2> QED BY <2>1, <2>2, <1>1
  <1>7. PICK m \in Elements(sent) : m.body = pos + HeaderSize /\ h.type = m.type /\ h.size = m.size
    <2> DEFINE here == {m \in Elements(sent) : m.body = pos + HeaderSize}
    <2>1. sent[k + 1] \in here
      BY <1>1, <1>5 DEF Elements
    <2>2. h \in {[type |-> m.type, size |-> m.size] : m \in here}
      BY <2>1 DEF HeadersAt
    <2> QED BY <2>2
  <1>8. PICK j \in 1..n : m = sent[j]
    BY <1>1, <1>7 DEF Elements
  <1> QED BY <1>3, <1>5, <1>6, <1>7, <1>8

\* Its type is one that the receiver accepts at this point.
LEMMA HeaderAccepted ==
    ASSUME IInv, ~broken, ~waitingForBody, HasHeader,
           NEW h \in HeadersAt(pos)
    PROVE  Acceptable(h) /\ h.type \in Type
  <1>0. h.type \in Type /\ h.type # "invalid"
    <2>1. \A x \in Message : x.type \in Type
      BY DEF Message
    <2>2. Len(handled) + 1 \in 1..Len(sent) /\ h.type = sent[Len(handled) + 1].type
      BY NextHeader DEF IInv, TypeOK
    <2>3. sent[Len(handled) + 1] \in Message
      BY <2>2 DEF IInv, TypeOK
    <2> QED BY <2>1, <2>2, <2>3 DEF Type
  <1> SUFFICES ASSUME h.type = "data" PROVE authenticated
    BY <1>0 DEF Acceptable
  <1>1. Len(handled) < Len(sent) /\ h.type = sent[Len(handled) + 1].type
    BY NextHeader
  <1>2. Len(handled) \in Nat /\ Len(sent) \in Nat
    BY DEF IInv, TypeOK
  <1>3. Len(handled) + 1 \in 1..Len(sent) /\ (Len(handled) + 1) - 1 = Len(handled)
    BY <1>1, <1>2
  <1>4. PICK i \in 1..Len(handled) : sent[i].type = "handshake"
    BY <1>1, <1>3 DEF IInv, DataFollowsHandshake
  <1> QED BY <1>4 DEF IInv, Aligned

LEMMA HeaderIsTyped == ASSUME IInv, NEW h \in HeadersAt(pos) PROVE h \in Header
  <1>1. \A x \in Message : [type |-> x.type, size |-> x.size] \in Header
    BY DEF Message, Header
  <1>2. \A x \in Elements(sent) : x \in Message
    BY DEF IInv, TypeOK, Elements
  <1> QED BY <1>1, <1>2 DEF HeadersAt

LEMMA ReadHeaderInv == IInv /\ ReadHeader => IInv'
  <1> SUFFICES ASSUME IInv, ReadHeader PROVE IInv'
    OBVIOUS
  <1>1. PICK h \in HeadersAt(pos) :
          /\ msgHeader' = h
          /\ IF ~Acceptable(h)
               THEN /\ pos' = pos + HeaderSize
                    /\ broken' = TRUE
                    /\ inLoop' = FALSE
                    /\ UNCHANGED <<waitingForBody, authenticated, handled>>
               ELSE TryBody(h, pos + HeaderSize)
    BY DEF ReadHeader
  <1>2. /\ inLoop /\ ~waitingForBody /\ HasHeader
        /\ UNCHANGED <<senderVars, arrived>>
    BY DEF ReadHeader
  <1>3. h \in Header
    BY HeaderIsTyped
  <1>4. pos + HeaderSize \in Nat /\ pos + HeaderSize <= arrived
    BY <1>2, SizesAssumption DEF IInv, TypeOK, HasHeader, bytesAvailable
  <1>5. CASE broken
    <2>1. CASE ~Acceptable(h)
      <3>0. pos' \in 0..arrived' /\ arrived' \in 0..written'
        BY <1>1, <1>2, <1>4, <2>1 DEF IInv, TypeOK, senderVars
      <3>1. TypeOK'
        BY <1>1, <1>2, <1>3, <2>1, <3>0 DEF IInv, TypeOK, senderVars
      <3>2. Layout' /\ DataFollowsHandshake' /\ InBuffer'
        BY <1>1, <1>2, <1>4, <2>1
           DEF IInv, Layout, DataFollowsHandshake, InBuffer, senderVars
      <3>3. broken'
        BY <1>1, <2>1
      <3> QED BY <3>1, <3>2, <3>3 DEF IInv, NoMessageLeftBehind
    <2>2. CASE Acceptable(h)
      <3>1. /\ TypeOK' /\ Layout' /\ DataFollowsHandshake' /\ InBuffer'
            /\ broken'
        BY <1>1, <1>2, <1>3, <1>4, <1>5, <2>2, TryBodyBasics
      <3> QED BY <3>1 DEF IInv, NoMessageLeftBehind
    <2> QED BY <2>1, <2>2
  <1>6. CASE ~broken
    <2>1. /\ Len(handled) < Len(sent)
          /\ h.type = sent[Len(handled) + 1].type
          /\ h.size = sent[Len(handled) + 1].size
          /\ pos + HeaderSize = sent[Len(handled) + 1].body
      BY <1>2, <1>6, NextHeader
    <2>2. Acceptable(h)
      BY <1>2, <1>6, HeaderAccepted
    <2> QED BY <1>1, <1>2, <1>3, <1>4, <1>6, <2>1, <2>2, TryBodyAligned
  <1> QED BY <1>5, <1>6

LEMMA ReadBodyInv == IInv /\ ReadBody => IInv'
  <1> SUFFICES ASSUME IInv, ReadBody PROVE IInv'
    OBVIOUS
  <1>1. /\ inLoop /\ waitingForBody
        /\ TryBody(msgHeader, pos)
        /\ msgHeader' = msgHeader /\ UNCHANGED <<senderVars, arrived>>
    BY DEF ReadBody
  <1>2. msgHeader \in Header /\ pos \in Nat /\ pos <= arrived
    BY DEF IInv, TypeOK, InBuffer
  <1>3. CASE broken
    <2>1. /\ TypeOK' /\ Layout' /\ DataFollowsHandshake' /\ InBuffer'
          /\ broken'
      BY <1>1, <1>2, <1>3, TryBodyBasics
    <2> QED BY <2>1 DEF IInv, NoMessageLeftBehind
  <1>4. CASE ~broken
    <2>1. /\ Len(handled) < Len(sent)
          /\ msgHeader.type = sent[Len(handled) + 1].type
          /\ msgHeader.size = sent[Len(handled) + 1].size
          /\ pos = sent[Len(handled) + 1].body
      BY <1>1, <1>4 DEF IInv, Aligned, AtBoundary
    <2> QED BY <1>1, <1>2, <1>4, <2>1, TryBodyAligned
  <1> QED BY <1>3, <1>4

LEMMA NextInv == IInv /\ [Next]_vars => IInv'
  <1> SUFFICES ASSUME IInv, [Next]_vars PROVE IInv'
    OBVIOUS
  <1>1. CASE Write
    BY <1>1, WriteInv
  <1>2. CASE Arrive
    BY <1>2, ArriveInv
  <1>3. CASE ReadHeader
    BY <1>3, ReadHeaderInv
  <1>4. CASE ReadBody
    BY <1>4, ReadBodyInv
  <1>5. CASE LeaveLoop
    BY <1>5, LeaveInv
  <1>6. CASE UNCHANGED vars
    BY <1>6 DEF vars, IInv, TypeOK, Layout, DataFollowsHandshake, InBuffer, Aligned,
                AtBoundary, NoMessageLeftBehind
  <1> QED BY <1>1, <1>2, <1>3, <1>4, <1>5, <1>6 DEF Next, Receive

\* The inductive invariant holds in every reachable state.
THEOREM Invariance == Spec => []IInv
  <1> QED BY InitInv, NextInv, PTL DEF Spec

--------------------------------------------------------------------------------
(* The properties of SyncFraming.                                             *)

\* Every variable stays within its type.
THEOREM TypeCorrect == Spec => []TypeOK
  <1>1. IInv => TypeOK
    BY DEF IInv
  <1> QED BY <1>1, Invariance, PTL

\* receiveMessage hands the written messages over whole and in order.
THEOREM FramesInOrderAlways == Spec => []FramesInOrder
  <1>1. IInv => FramesInOrder
    <2> SUFFICES ASSUME IInv, ~broken
                 PROVE  Len(handled) <= Len(sent) /\ handled = SubSeq(sent, 1, Len(handled))
      BY DEF FramesInOrder
    <2> DEFINE k == Len(handled)
               front == SubSeq(sent, 1, k)
    <2>1. /\ sent \in Seq(Message) /\ handled \in Seq(Message)
          /\ k \in Nat /\ Len(sent) \in Nat
          /\ k <= Len(sent) /\ \A i \in 1..k : handled[i] = sent[i]
      BY DEF IInv, TypeOK, Aligned
    <2>2. /\ front \in Seq(Message) /\ Len(front) = k
          /\ \A i \in 1..k : front[i] = sent[i]
      BY <2>1
    <2> HIDE DEF front
    <2>3. handled = front
      BY <2>1, <2>2, SeqEqual
    <2> QED BY <2>1, <2>3 DEF front
  <1> QED BY <1>1, Invariance, PTL

\* receiveMessage never returns with a whole message in the buffer.
THEOREM NoMessageLeftBehindAlways == Spec => []NoMessageLeftBehind
  <1>1. IInv => NoMessageLeftBehind
    BY DEF IInv
  <1> QED BY <1>1, Invariance, PTL

\* An honest peer is never refused by the loop itself.
LEMMA BreakIsRefusal == IInv /\ Next => (broken' /\ ~broken => Refusal)
  <1> SUFFICES ASSUME IInv, Next, broken', ~broken PROVE Refusal
    OBVIOUS
  <1>1. CASE Write
    BY <1>1 DEF Write, WriteMessage
  <1>2. CASE Arrive
    BY <1>2 DEF Arrive, ReadyRead
  <1>3. CASE ReadHeader
    <2>1. PICK h \in HeadersAt(pos) :
            /\ msgHeader' = h
            /\ Acceptable(h) => TryBody(h, pos + HeaderSize)
      BY <1>3 DEF ReadHeader
    <2>2. /\ inLoop /\ ~waitingForBody /\ HasHeader
          /\ UNCHANGED <<senderVars, arrived>>
      BY <1>3 DEF ReadHeader
    <2>3. h \in Header
      BY HeaderIsTyped
    <2>4. pos + HeaderSize \in Nat /\ pos + HeaderSize <= arrived
      BY <2>2, SizesAssumption DEF IInv, TypeOK, HasHeader, bytesAvailable
    <2>5. TryBody(h, pos + HeaderSize) /\ h.type \in Type
      BY <2>1, <2>2, HeaderAccepted
    <2> QED BY <2>1, <2>2, <2>3, <2>4, <2>5, TryBodyBasics
  <1>4. CASE ReadBody
    <2>1. msgHeader \in Header /\ pos \in Nat /\ pos <= arrived
      BY DEF IInv, TypeOK, InBuffer
    <2>2. /\ inLoop /\ TryBody(msgHeader, pos)
          /\ msgHeader' = msgHeader /\ UNCHANGED <<senderVars, arrived>>
      BY <1>4 DEF ReadBody
    <2>3. msgHeader.type \in Type
      <3>1. \A x \in Message : x.type \in Type
        BY DEF Message
      <3>2. /\ Len(handled) < Len(sent)
            /\ msgHeader = [type |-> sent[Len(handled) + 1].type,
                            size |-> sent[Len(handled) + 1].size]
        BY <1>4 DEF ReadBody, IInv, Aligned, AtBoundary
      <3>3. sent[Len(handled) + 1] \in Message
        BY <3>2 DEF IInv, TypeOK
      <3> QED BY <3>1, <3>2, <3>3
    <2> QED BY <2>1, <2>2, <2>3, TryBodyBasics
  <1>5. CASE LeaveLoop
    BY <1>5 DEF LeaveLoop
  <1> QED BY <1>1, <1>2, <1>3, <1>4, <1>5 DEF Next, Receive

THEOREM OnlyHandlersBreakAlways == Spec => OnlyHandlersBreak
  <1>1. IInv /\ [Next]_vars => [broken' /\ ~broken => Refusal]_vars
    BY BreakIsRefusal
  <1> QED BY <1>1, Invariance, PTL DEF Spec, OnlyHandlersBreak

--------------------------------------------------------------------------------
(* The refinement: every step is a step of the channel or leaves it alone.    *)

LEMMA WriteIsSend == IInv /\ IInv' /\ Write => Channel!Send
  <1> SUFFICES ASSUME IInv, IInv', NEW t \in Type, NEW size \in PayloadSizes,
                      WriteMessage(t, size)
               PROVE  Channel!Send
    BY DEF Write
  <1>1. sent \in Seq(Message) /\ sent' \in Seq(Message) /\ written \in Nat
    BY DEF IInv, TypeOK
  <1>2. PICK m : sent' = Append(sent, m)
    BY DEF WriteMessage, WriteFrame
  <1>3. Len(sent') = Len(sent) + 1 /\ \A i \in 1..Len(sent) : sent'[i] = sent[i]
    <2>1. /\ Len(Append(sent, m)) = Len(sent) + 1
          /\ \A i \in 1..Len(sent) : Append(sent, m)[i] = sent[i]
      BY <1>1
    <2> QED BY <1>2, <2>1
  <1>4. SubSeq(sent', 1, Len(sent)) = sent
    <2> DEFINE front == SubSeq(sent', 1, Len(sent))
    <2>1. /\ front \in Seq(Message) /\ Len(front) = Len(sent)
          /\ \A i \in 1..Len(sent) : front[i] = sent'[i]
      BY <1>1, <1>3
    <2> HIDE DEF front
    <2>2. front = sent
      BY <2>1, <1>1, <1>3, SeqEqual
    <2> QED BY <2>2 DEF front
  <1> QED BY <1>1, <1>3, <1>4 DEF Channel!Send, WriteMessage

\* The second half of an iteration at message k+1, or after the break.
LEMMA TryBodyRefines ==
    ASSUME IInv, IInv', NEW h \in Header, NEW p \in Nat, TryBody(h, p),
           UNCHANGED senderVars,
           ~broken => /\ Len(handled) < Len(sent)
                      /\ h.type = sent[Len(handled) + 1].type
                      /\ h.size = sent[Len(handled) + 1].size
                      /\ p = sent[Len(handled) + 1].body
    PROVE  [Channel!Next]_(Channel!vars)
  <1>1. sent' = sent /\ handled' \in Seq(Message) /\ broken' \in BOOLEAN /\ broken \in BOOLEAN
    BY DEF IInv, TypeOK, senderVars
  <1>2. CASE UNCHANGED <<handled, broken>>
    BY <1>1, <1>2 DEF Channel!vars
  <1>3. CASE CallHandler(h, p)
    <2>1. CASE broken
      <3>1. broken' = broken
        BY <1>1, <1>3, <2>1 DEF CallHandler, LoopGoesOn
      <3> QED BY <1>1, <2>1, <3>1 DEF Channel!Garble, Channel!Next
    <2>2. CASE ~broken
      <3>1. sent[Len(handled) + 1] \in Message
        BY <2>2 DEF IInv, TypeOK
      <3>2. [type |-> h.type, size |-> h.size, body |-> p] = sent[Len(handled) + 1]
        BY <2>2, <3>1 DEF Message
      <3>3. handled' = Append(handled, sent[Len(handled) + 1])
        BY <1>3, <3>2 DEF CallHandler, LoopGoesOn
      <3> QED BY <1>1, <2>2, <3>3 DEF Channel!Deliver, Channel!Next
    <2> QED BY <2>1, <2>2
  <1>4. CASE BodyIsHere(h, p) /\ NoHandler(p)
    BY <1>1, <1>4 DEF NoHandler, Channel!Break, Channel!Next
  <1> QED BY <1>2, <1>3, <1>4 DEF TryBody

LEMMA ReadHeaderRefines == IInv /\ IInv' /\ ReadHeader => [Channel!Next]_(Channel!vars)
  <1> SUFFICES ASSUME IInv, IInv', ReadHeader PROVE [Channel!Next]_(Channel!vars)
    OBVIOUS
  <1>1. PICK h \in HeadersAt(pos) :
          IF ~Acceptable(h)
            THEN broken' = TRUE /\ handled' = handled
            ELSE TryBody(h, pos + HeaderSize)
    BY DEF ReadHeader
  <1>2. UNCHANGED senderVars /\ sent' = sent
    BY DEF ReadHeader, senderVars
  <1>3. CASE ~Acceptable(h)
    BY <1>1, <1>2, <1>3 DEF Channel!Break, Channel!Next
  <1>4. CASE Acceptable(h)
    <2>1. h \in Header
      <3>1. \A x \in Message : [type |-> x.type, size |-> x.size] \in Header
        BY DEF Message, Header
      <3>2. \A x \in Elements(sent) : x \in Message
        BY DEF IInv, TypeOK, Elements
      <3> QED BY <3>1, <3>2 DEF HeadersAt
    <2>2. pos + HeaderSize \in Nat
      BY SizesAssumption DEF IInv, TypeOK
    <2>3. ~broken => /\ Len(handled) < Len(sent)
                     /\ h.type = sent[Len(handled) + 1].type
                     /\ h.size = sent[Len(handled) + 1].size
                     /\ pos + HeaderSize = sent[Len(handled) + 1].body
      BY NextHeader DEF ReadHeader
    <2> QED BY <1>1, <1>2, <1>4, <2>1, <2>2, <2>3, TryBodyRefines
  <1> QED BY <1>3, <1>4

LEMMA ReadBodyRefines == IInv /\ IInv' /\ ReadBody => [Channel!Next]_(Channel!vars)
  <1> SUFFICES ASSUME IInv, IInv', ReadBody PROVE [Channel!Next]_(Channel!vars)
    OBVIOUS
  <1>1. msgHeader \in Header /\ pos \in Nat
    BY DEF IInv, TypeOK
  <1>2. ~broken => /\ Len(handled) < Len(sent)
                   /\ msgHeader.type = sent[Len(handled) + 1].type
                   /\ msgHeader.size = sent[Len(handled) + 1].size
                   /\ pos = sent[Len(handled) + 1].body
    BY DEF IInv, Aligned, AtBoundary, ReadBody
  <1> QED BY <1>1, <1>2, TryBodyRefines DEF ReadBody

\* The reassembled byte stream implements the abstract channel of messages.
THEOREM Refinement == Spec => ImplementsChannel
  <1>1. Init => Channel!Init
    BY DEF Init, Channel!Init
  <1>2. IInv /\ IInv' /\ [Next]_vars => [Channel!Next]_(Channel!vars)
    <2> SUFFICES ASSUME IInv, IInv', [Next]_vars PROVE [Channel!Next]_(Channel!vars)
      OBVIOUS
    <2>1. CASE Write
      BY <2>1, WriteIsSend DEF Channel!Next
    <2>2. CASE Arrive
      BY <2>2 DEF Arrive, ReadyRead, senderVars, Channel!vars
    <2>3. CASE ReadHeader
      BY <2>3, ReadHeaderRefines
    <2>4. CASE ReadBody
      BY <2>4, ReadBodyRefines
    <2>5. CASE LeaveLoop
      BY <2>5 DEF LeaveLoop, senderVars, Channel!vars
    <2>6. CASE UNCHANGED vars
      BY <2>6 DEF vars, Channel!vars
    <2> QED BY <2>1, <2>2, <2>3, <2>4, <2>5, <2>6 DEF Next, Receive
  <1> QED BY <1>1, <1>2, Invariance, PTL DEF Spec, ImplementsChannel, Channel!Spec
================================================================================
