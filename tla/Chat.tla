-------------------------------- MODULE Chat --------------------------------
(***************************************************************************)
(* chat.Service and chat.History: a send is a stream of its own with one   *)
(* message and one ACK; the receiving end runs the same code.  A stream    *)
(* may fail to open, break, or outlive the sender's deadline; the message  *)
(* may be recorded at the peer after the sender gave up.                   *)
(***************************************************************************)
EXTENDS EventBus

CONSTANTS
  Peers,                \* addresses of peers
  Sends,                \* identifiers of messages sent from here
  MaxMessagesPerPeer    \* messages a conversation keeps

ASSUME ChatAssumption == Sends \subseteq Nat /\ MaxMessagesPerPeer \in Nat

VARIABLES
  exchange,   \* exchange[n]: the stream of send n and what each end has done
  convos,     \* History.convos, per peer
  ingested    \* per peer: identifiers its History has recorded for this node

chat == <<exchange, convos, ingested>>

ChatInit ==
  /\ exchange = [n \in Sends |-> [to |-> None, sender |-> "idle", peer |-> "idle", ack |-> None]]
  /\ convos = [a \in Peers |-> <<>>]
  /\ ingested = [a \in Peers |-> <<>>]

\* History.Append: the oldest message goes when the conversation is full.
AppendTo(h, m) ==
  LET msgs == Append(h, m)
  IN IF Len(msgs) > MaxMessagesPerPeer
     THEN SubSeq(msgs, Len(msgs) - MaxMessagesPerPeer + 1, Len(msgs)) ELSE msgs

\* SendMessage; ok says whether the node service is registered and the peer connected.
SendMessage(n, a, ok) ==
  /\ exchange[n].sender = "idle"
  /\ exchange' = [exchange EXCEPT ![n].to = a, ![n].sender = IF ok THEN "open" ELSE "failed"]
  /\ UNCHANGED <<convos, ingested>>

\* sendTo: the stream opens and the signed envelope is written, or not.
WriteText(n) ==
  /\ exchange[n].sender = "open"
  /\ \/ exchange' = [exchange EXCEPT ![n].sender = "wait", ![n].peer = "text"]
     \/ exchange' = [exchange EXCEPT ![n].sender = "failed"]
  /\ UNCHANGED <<convos, ingested>>

\* handleIncoming at the peer: recorded first, acknowledged after; the ACK may
\* not get through, and a peer of another make may name the wrong message.
PeerIngests(n) ==
  /\ exchange[n].peer = "text"
  /\ ingested' = [ingested EXCEPT ![exchange[n].to] = Append(@, n)]
  /\ \E ack \in {n, 0, None} : exchange' = [exchange EXCEPT ![n].peer = "done", ![n].ack = ack]
  /\ UNCHANGED convos

\* A peer that has nothing registered, or cannot verify the envelope, returns.
PeerReturns(n) ==
  /\ exchange[n].peer = "text"
  /\ \E ack \in {0, None} : exchange' = [exchange EXCEPT ![n].peer = "done", ![n].ack = ack]
  /\ UNCHANGED <<convos, ingested>>

MutReadAck(n) ==
  /\ exchange[n].sender = "wait" /\ exchange[n].ack # None
  /\ exchange' = [exchange EXCEPT ![n].sender = "ok"]
  /\ convos' = [convos EXCEPT ![exchange[n].to] = AppendTo(@, n)]
  /\ UNCHANGED ingested

\* The ACK is checked against the message; only then the send is recorded.
ReadAck(n) ==
  LET ok == exchange[n].ack = n
  IN /\ exchange[n].sender = "wait" /\ exchange[n].ack # None
     /\ exchange' = [exchange EXCEPT ![n].sender = IF ok THEN "ok" ELSE "failed"]
     /\ convos' = IF ok THEN [convos EXCEPT ![exchange[n].to] = AppendTo(@, n)] ELSE convos
     /\ UNCHANGED ingested

\* The read deadline passes or the stream is reset, wherever the peer is.
AckTimeout(n) ==
  /\ exchange[n].sender = "wait"
  /\ exchange' = [exchange EXCEPT ![n].sender = "failed"]
  /\ UNCHANGED <<convos, ingested>>

\* ingest of an incoming message (0 stands for its identifier), with the event.
Ingest(a) ==
  /\ convos' = [convos EXCEPT ![a] = AppendTo(@, 0)]
  /\ Publish(Event("chat_message", a))
  /\ UNCHANGED <<exchange, ingested>>
=============================================================================
