------------------------------ MODULE MsgChannel ------------------------------
(* What a RemoteSync connection promises to the code above it: whole          *)
(* messages, each handed over once, in the order in which they were written,  *)
(* until one of the two ends gives the connection up (broken).  A broken      *)
(* connection hands over nothing that may be relied upon: the receive loop of *)
(* SyncRemotePeer keeps parsing what it has buffered after a rejection.       *)
EXTENDS Naturals, Sequences

CONSTANT Message        \* every message a peer may write

VARIABLES sent,         \* the messages written, in order
          delivered,    \* the messages handed to a handler, in order
          broken        \* one end has written an ERROR and is disconnecting

vars == <<sent, delivered, broken>>

Init == /\ sent = <<>>
        /\ delivered = <<>>
        /\ broken = FALSE

\* One more message, the earlier ones as they were.
Send == /\ sent' \in Seq(Message)
        /\ Len(sent') = Len(sent) + 1
        /\ SubSeq(sent', 1, Len(sent)) = sent
        /\ UNCHANGED <<delivered, broken>>

\* The next message in order reaches its handler, which may refuse it.
Deliver == /\ Len(delivered) < Len(sent)
           /\ ~broken
           /\ delivered' = Append(delivered, sent[Len(delivered) + 1])
           /\ broken' \in BOOLEAN
           /\ UNCHANGED sent

\* The peer gives up before a message reaches a handler.
Break == broken' = TRUE /\ UNCHANGED <<sent, delivered>>

\* After the break nothing is promised about what the handlers see.
Garble == /\ broken
          /\ UNCHANGED <<sent, broken>>
          /\ delivered' \in Seq(Message)

Next == Send \/ Deliver \/ Break \/ Garble

Spec == Init /\ [][Next]_vars
===============================================================================
