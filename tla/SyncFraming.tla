------------------------------ MODULE SyncFraming ------------------------------
(* Message framing of the RemoteSync plug-in: one direction of a connection,  *)
(* SyncRemotePeer::writeMessage at one end, SyncRemotePeer::receiveMessage at *)
(* the other, a TCP byte stream in between that delivers the bytes in order   *)
(* but in arbitrary pieces.                                                   *)
(*                                                                            *)
(* A byte is its offset in the stream: `written` bytes have been written,     *)
(* `arrived` of them are or were in the receiver's socket buffer, `pos` have  *)
(* been read.  A message is [type, size, body]: its type, the size its header *)
(* announces and the offset of its payload.  The header is the HeaderSize     *)
(* bytes before the payload: reading it anywhere else yields garbage.         *)
EXTENDS Integers, Sequences

CONSTANTS HeaderSize,     \* SYNC_HEADER_SIZE, 3 bytes in the code
          MaxPayload,     \* SYNC_MAX_PAYLOAD_SIZE, 65535 in the code
          SizeModulus,    \* tPayloadSize wraps here, 2^16 in the code
          PayloadSizes,   \* sizes the messages written serialise to
          ErrorSize,      \* payload of an ERROR message
          RefusedTypes,   \* types a handler of the receiver may refuse
          MaxMessages     \* bound: messages written in one behaviour

ASSUME SizesAssumption ==
    /\ HeaderSize \in Nat \ {0}
    /\ MaxPayload \in Nat
    /\ SizeModulus \in Nat
    /\ MaxPayload < SizeModulus
    /\ PayloadSizes \subseteq Nat
    /\ ErrorSize \in 0..MaxPayload
    /\ MaxMessages \in Nat

\* SyncMessageType, up to what the receive loop distinguishes: "error", the
\* handshake message that authenticates its sender, and "data" for every type
\* above SERVER_CHALLENGERESPONSEVALID.
Type == {"error", "handshake", "data"}

ASSUME RefusedAssumption == RefusedTypes \subseteq Type

VARIABLES sent,           \* messages written to the socket (history)
          written,        \* bytes written to the socket
          writerOpen,     \* the writing end has not called disconnectFromHost
          arrived,        \* bytes that reached the receiver's socket buffer
          pos,            \* bytes read from that buffer
          msgHeader,      \* the last header read
          waitingForBody,
          inLoop,         \* receiveMessage() is on the stack
          authenticated,
          handled,        \* messages passed to a handler (history)
          broken          \* the receiver called writeError

senderVars == <<sent, written, writerOpen>>
vars == <<sent, written, writerOpen, arrived, pos, msgHeader,
          waitingForBody, inLoop, authenticated, handled, broken>>

\* What a header may hold when it is not read where one was written: also a
\* number above MSGTYPE_MAX, or a type this end has no handler for.
Header  == [type : Type \cup {"invalid", "unregistered"},
            size : 0..(SizeModulus - 1)]
Message == [type : Type, size : 0..(SizeModulus - 1), body : Nat]

Elements(s) == {s[i] : i \in DOMAIN s}
bytesAvailable == arrived - pos

InitialHeader == [type |-> "error", size |-> 0]

Init == /\ sent = <<>> /\ written = 0 /\ writerOpen = TRUE
        /\ arrived = 0 /\ pos = 0
        /\ msgHeader = InitialHeader
        /\ waitingForBody = FALSE /\ inLoop = FALSE
        /\ authenticated = FALSE
        /\ handled = <<>>
        /\ broken = FALSE

--------------------------------------------------------------------------------
(* The writing end.                                                           *)

\* createFullMessage: the size field is the payload size cast to tPayloadSize.
\* Mutant FitsAlmost: off by one, the cast then truncates the size.
FitsAlmost(size)  == size <= MaxPayload + 1
FitsMessage(size) == size <= MaxPayload
FrameOf(t, size)  == [type |-> t, size |-> size % SizeModulus,
                      body |-> written + HeaderSize]

\* writeData after a successful createFullMessage.
WriteFrame(t, size) == /\ sent' = Append(sent, FrameOf(t, size))
                       /\ written' = written + HeaderSize + size

\* writeMessage: a message too large for the size field is replaced by an
\* ERROR message and the connection is given up (writeError).
WriteMessage(t, size) ==
    /\ writerOpen /\ Len(sent) < MaxMessages
    /\ t = "data" => \E m \in Elements(sent) : m.type = "handshake"
    /\ IF FitsMessage(size)
         THEN WriteFrame(t, size) /\ UNCHANGED writerOpen
         ELSE WriteFrame("error", ErrorSize) /\ writerOpen' = FALSE
    /\ UNCHANGED <<arrived, pos, msgHeader, waitingForBody, inLoop,
                   authenticated, handled, broken>>

--------------------------------------------------------------------------------
(* The receiving end.  The socket hands bytes over only between two calls of  *)
(* receiveMessage; after writeError it is closing and hands over none.        *)

ReadyRead(n) ==
    /\ ~inLoop /\ ~broken
    /\ arrived' = arrived + n
    /\ inLoop' = TRUE
    /\ UNCHANGED <<senderVars, pos, msgHeader, waitingForBody,
                   authenticated, handled, broken>>

\* What `stream>>msgHeader` finds at offset p.
HeadersAt(p) ==
    LET here == {m \in Elements(sent) : m.body = p + HeaderSize}
    IN  IF here # {} THEN {[type |-> m.type, size |-> m.size] : m \in here}
                     ELSE Header

\* Mutant: the client forgets that the handshake authenticates its peer.
NothingAuthenticates(h) == FALSE
Authenticates(h) == h.type = "handshake"

\* The loop condition lets the call go on; mutant: one message per readyRead.
OneMessagePerCall == inLoop' = FALSE
LoopGoesOn == UNCHANGED inLoop

\* Mutant: a header that is exactly all there is in the buffer is not read.
MoreThanHeader == bytesAvailable > HeaderSize
HasHeader == bytesAvailable >= HeaderSize

\* The handler of h takes the whole payload at p and accepts it, or rejects the
\* message having read some of it: writeError, and the loop goes on.
CallHandler(h, p) ==
    /\ handled' = Append(handled, [type |-> h.type, size |-> h.size, body |-> p])
    /\ waitingForBody' = FALSE
    /\ \/ /\ pos' = p + h.size
          /\ authenticated' = (authenticated \/ Authenticates(h))
          /\ UNCHANGED broken
       \/ /\ h.type \in RefusedTypes
          /\ pos' \in p..(p + h.size)
          /\ broken' = TRUE
          /\ UNCHANGED authenticated
    /\ LoopGoesOn

\* handlerList has no handler for the type: writeError, and out of the loop.
NoHandler(p) ==
    /\ pos' = p
    /\ waitingForBody' = FALSE
    /\ inLoop' = FALSE
    /\ broken' = TRUE
    /\ UNCHANGED <<authenticated, handled>>

\* Mutant: the bytes are counted before the header is taken out of the buffer.
BodyCountedEarly(h, p) == bytesAvailable >= h.size
BodyIsHere(h, p) == arrived - p >= h.size

\* The second half of an iteration, h just read or kept from an earlier call.
TryBody(h, p) ==
    \/ /\ ~BodyIsHere(h, p)
       /\ waitingForBody' = TRUE
       /\ inLoop' = FALSE
       /\ pos' = p
       /\ UNCHANGED <<authenticated, handled, broken>>
    \/ BodyIsHere(h, p) /\ h.type \notin Type /\ NoHandler(p)
    \/ BodyIsHere(h, p) /\ h.type \in Type /\ CallHandler(h, p)

\* The two checks of a header just read: the type exists, and a peer that is not
\* authenticated sends handshake messages only.
Acceptable(h) == /\ h.type # "invalid"
                 /\ authenticated \/ h.type # "data"

\* No header yet: leave, or read it.
ReadHeader ==
    /\ inLoop /\ ~waitingForBody /\ HasHeader
    /\ \E h \in HeadersAt(pos) :
         /\ msgHeader' = h
         /\ IF ~Acceptable(h)
              THEN /\ pos' = pos + HeaderSize
                   /\ broken' = TRUE
                   /\ inLoop' = FALSE
                   /\ UNCHANGED <<waitingForBody, authenticated, handled>>
              ELSE TryBody(h, pos + HeaderSize)
    /\ UNCHANGED <<senderVars, arrived>>

ReadBody ==
    /\ inLoop /\ waitingForBody /\ bytesAvailable > 0
    /\ TryBody(msgHeader, pos)
    /\ UNCHANGED <<senderVars, arrived, msgHeader>>

\* The buffer is empty, or holds less than a header.
LeaveLoop ==
    /\ inLoop
    /\ \/ bytesAvailable = 0
       \/ ~waitingForBody /\ ~HasHeader
    /\ inLoop' = FALSE
    /\ UNCHANGED <<senderVars, arrived, pos, msgHeader, waitingForBody,
                   authenticated, handled, broken>>

Receive == ReadHeader \/ ReadBody \/ LeaveLoop

Write  == \E t \in Type \ {"error"}, size \in PayloadSizes : WriteMessage(t, size)
Arrive == \E n \in 1..(written - arrived) : ReadyRead(n)

Next == Write \/ Arrive \/ Receive

Spec == Init /\ [][Next]_vars

\* The network keeps delivering what was written, and receiveMessage runs on.
FairSpec == Spec /\ WF_vars(Arrive) /\ WF_vars(Receive)

--------------------------------------------------------------------------------
(* Properties.                                                                *)

TypeOK == /\ sent \in Seq(Message) /\ written \in Nat /\ writerOpen \in BOOLEAN
          /\ arrived \in 0..written /\ pos \in 0..arrived /\ msgHeader \in Header
          /\ waitingForBody \in BOOLEAN /\ inLoop \in BOOLEAN
          /\ authenticated \in BOOLEAN /\ broken \in BOOLEAN
          /\ handled \in Seq(Message)

\* However the bytes are cut up, receiveMessage hands over exactly the messages
\* written, whole and in order, for as long as it has refused none.
FramesInOrder ==
    ~broken => Len(handled) <= Len(sent) /\ handled = SubSeq(sent, 1, Len(handled))

\* receiveMessage never returns with a whole message left in the buffer: there
\* may be no further readyRead to wake it up again.
NoMessageLeftBehind ==
    ~inLoop /\ ~broken /\ Len(handled) < Len(sent) =>
        LET next == sent[Len(handled) + 1] IN arrived < next.body + next.size

\* A peer that writes data only after its handshake is never told "invalid
\* message type", "not authenticated" or "unregistered message type": the step
\* that gives up is a handler's refusal of the message it was given.
Refusal == /\ Len(handled') = Len(handled) + 1
           /\ handled'[Len(handled')].type \in RefusedTypes
OnlyHandlersBreak == [][broken' /\ ~broken => Refusal]_vars

\* Every message written reaches its handler, or the connection is given up.
EveryMessageHandled ==
    \A k \in 1..MaxMessages : Len(sent) >= k ~> Len(handled) >= k \/ broken

\* The byte stream with its receive loop implements a channel of whole messages.
Channel == INSTANCE MsgChannel WITH delivered <- handled
ImplementsChannel == Channel!Spec
================================================================================
