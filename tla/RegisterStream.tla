--------------------------- MODULE RegisterStream ---------------------------
(***************************************************************************)
(* The RegisterService call of the API: a stream per registered service.   *)
(* The action loop reads what the client sends, a forwarder writes the     *)
(* queued events to the client, and both write under sendMu.  The handlers *)
(* that the call puts into the registry, serviceHandlers, are called by    *)
(* whoever takes them from there: nothing in the daemon does so yet, and   *)
(* the callers here are external, as services/service.go describes them.   *)
(***************************************************************************)
EXTENDS Sequences, Naturals, FiniteSets

CONSTANTS
  Streams,          \* RegisterService calls
  Chats, Requests,  \* calls of OnChatMessage and of OnConnectionRequest
  EventQueueSize

ASSUME StreamAssumption ==
  Streams # {} /\ EventQueueSize \in Nat \ {0} /\ Chats \cap Requests = {}

VARIABLES
  client,    \* client[s]: "none", "there", "done" (it has closed its half and still
             \* reads) or "gone"; the stream's context ends with the last
  loop,      \* loop[s]: where the RegisterService call is
  queue,     \* queue[s]: rs.events
  forward,   \* forward[s]: the forwarder, "none", "idle", "sending" or "ended"
  pending,   \* pending[s]: rs.pending
  handler,   \* handler[h]: a call of the handlers: where it is and on which stream
  decision   \* decision[r]: the channel of request r, "open", "yes" or "no"

Handlers == Chats \cup Requests
streamVars == <<client, loop, queue, forward, pending, handler, decision>>

StreamsStart ==
  /\ client = [s \in Streams |-> "none"]
  /\ loop = [s \in Streams |-> "none"]
  /\ queue = [s \in Streams |-> <<>>]
  /\ forward = [s \in Streams |-> "none"]
  /\ pending = [s \in Streams |-> {}]
  /\ handler = [h \in Handlers |-> [at |-> "idle", on |-> CHOOSE s \in Streams : TRUE]]
  /\ decision = [r \in Requests |-> "open"]

\* The process ends, and every connection with it.
StreamsEnd ==
  /\ client' = [s \in Streams |-> IF client[s] = "none" THEN "none" ELSE "gone"]
  /\ loop' = [s \in Streams |-> IF loop[s] = "none" THEN "none" ELSE "ended"]
  /\ queue' = [s \in Streams |-> <<>>]
  /\ forward' = [s \in Streams |-> "none"]
  /\ pending' = [s \in Streams |-> {}]
  /\ handler' = [h \in Handlers |-> IF handler[h].at = "idle" THEN handler[h]
                                    ELSE [handler[h] EXCEPT !.at = "returned"]]
  /\ UNCHANGED decision

Gone(s) == client[s] = "gone"
Goto(s, l) == loop' = [loop EXCEPT ![s] = l]
Connect(s) ==
  /\ client[s] = "none" /\ client' = [client EXCEPT ![s] = "there"]
  /\ Goto(s, "manifest")
  /\ UNCHANGED <<queue, forward, pending, handler, decision>>
Disconnect(s) ==
  /\ client[s] \in {"there", "done"} /\ client' = [client EXCEPT ![s] = "gone"]
  /\ UNCHANGED <<loop, queue, forward, pending, handler, decision>>

\* CloseSend, as the reader of the stream meets it: behind what was sent before.
HalfClose(s) ==
  /\ client[s] = "there" /\ client' = [client EXCEPT ![s] = "done"]
  /\ UNCHANGED <<loop, queue, forward, pending, handler, decision>>

\* The call moves on or ends before anything is started.
Advance(s, from, to) ==
  /\ loop[s] = from /\ Goto(s, to)
  /\ UNCHANGED <<client, queue, forward, pending, handler, decision>>

\* ServiceRegistered is sent and the forwarder started; a send that fails goes straight
\* to the cleanup, and the queue stays open.
SendRegistered(s) ==
  /\ loop[s] = "registered"
  /\ \/ Goto(s, "acting") /\ forward' = [forward EXCEPT ![s] = "idle"]
     \/ Gone(s) /\ Goto(s, "unregister") /\ forward' = forward
  /\ UNCHANGED <<client, queue, pending, handler, decision>>

-----------------------------------------------------------------------------
(* runActions.                                                             *)

take(s, r) == pending' = [pending EXCEPT ![s] = @ \ {r}]

\* handleAccept and handleReject: an unknown request is answered with an error.
Decide(s, r, d) ==
  \/ /\ r \in pending[s] /\ take(s, r) /\ UNCHANGED loop
     /\ decision' = [decision EXCEPT ![r] = IF @ = "open" THEN d ELSE @]
  \/ /\ r \notin pending[s] /\ Goto(s, "error") /\ UNCHANGED <<pending, decision>>
ReadAction(s, r, d) ==
  /\ loop[s] = "acting" /\ client[s] = "there"
  /\ Decide(s, r, d)
  /\ UNCHANGED <<client, queue, forward, handler>>

\* handleSend: chat goes out through the node; an error is reported.
ReadSend(s) ==
  /\ loop[s] = "acting" /\ client[s] = "there" /\ Goto(s, "dispatch")
  /\ UNCHANGED <<client, queue, forward, pending, handler, decision>>
Dispatched(s, ok) ==
  /\ loop[s] = "dispatch" /\ Goto(s, IF ok THEN "acting" ELSE "error")
  /\ UNCHANGED <<client, queue, forward, pending, handler, decision>>

\* sendError takes sendMu; its write returns when the client reads or is gone.
SendError(s) ==
  /\ loop[s] = "error" /\ forward[s] # "sending"
  /\ Goto(s, "acting")
  /\ UNCHANGED <<client, queue, forward, pending, handler, decision>>

\* Recv ends with EOF or an error, and the queue is closed.
LoopEnds(s) ==
  /\ loop[s] = "acting" /\ client[s] \in {"done", "gone"} /\ Goto(s, "closed")
  /\ UNCHANGED <<client, queue, forward, pending, handler, decision>>
ForwarderEnded(s) ==
  /\ loop[s] = "closed" /\ forward[s] = "ended" /\ Goto(s, "unregister")
  /\ UNCHANGED <<client, queue, forward, pending, handler, decision>>

\* Mutant of dropAll: nobody is told.
MutDropAll(s) == pending' = [pending EXCEPT ![s] = {}] /\ UNCHANGED decision
dropAll(s) ==
  /\ pending' = [pending EXCEPT ![s] = {}]
  /\ decision' = [r \in Requests |-> IF r \in pending[s] /\ decision[r] = "open" THEN "no" ELSE decision[r]]
Dropped(s) ==
  /\ loop[s] = "drop" /\ Goto(s, "ended")
  /\ dropAll(s)
  /\ UNCHANGED <<client, queue, forward, handler>>

-----------------------------------------------------------------------------
(* forwardEvents.                                                          *)

\* close(rs.events), which a call that never sent ServiceRegistered does not reach.
Closed(s) == loop[s] \in {"closed", "unregister", "drop", "ended"} /\ forward[s] # "none"

ForwardTake(s) ==
  /\ forward[s] = "idle" /\ queue[s] # <<>> /\ loop[s] # "error"
  /\ queue' = [queue EXCEPT ![s] = Tail(@)]
  /\ forward' = [forward EXCEPT ![s] = "sending"]
  /\ UNCHANGED <<client, loop, pending, handler, decision>>
\* Send returns when the client reads, and with an error when it is gone.
ForwardSent(s) ==
  /\ forward[s] = "sending" /\ client[s] \in {"there", "done"}
  /\ forward' = [forward EXCEPT ![s] = "idle"]
  /\ UNCHANGED <<client, loop, queue, pending, handler, decision>>
\* Mutant of ForwardEnds: a failed Send is not noticed.
MutForwardEnds(s) ==
  /\ forward[s] = "idle" /\ (Gone(s) \/ (Closed(s) /\ queue[s] = <<>>))
  /\ forward' = [forward EXCEPT ![s] = "ended"]
  /\ UNCHANGED <<client, loop, queue, pending, handler, decision>>

ForwardEnds(s) ==
  /\ \/ forward[s] = "sending" /\ Gone(s)
     \/ forward[s] = "idle" /\ (Gone(s) \/ (Closed(s) /\ queue[s] = <<>>))
  /\ forward' = [forward EXCEPT ![s] = "ended"]
  /\ UNCHANGED <<client, loop, queue, pending, handler, decision>>

-----------------------------------------------------------------------------
(* serviceHandlers.                                                        *)

\* A caller takes the handlers of s from the registry and calls one of them.
HandlerCalled(h, s) ==
  /\ handler[h].at = "idle"
  /\ handler' = [handler EXCEPT ![h] = [at |-> IF h \in Requests THEN "called" ELSE "emit", on |-> s]]
  /\ UNCHANGED <<client, loop, queue, forward, pending, decision>>
\* OnConnectionRequest parks its channel, the stream being in whatever state it is by now.
Park(r) ==
  /\ handler[r].at = "called" /\ handler' = [handler EXCEPT ![r].at = "emit"]
  /\ pending' = [pending EXCEPT ![handler[r].on] = @ \cup {r}]
  /\ UNCHANGED <<client, loop, queue, forward, decision>>

\* emit: into the queue, or the oldest event is dropped and the send tried again.
Emit(h) ==
  LET s == handler[h].on
  IN /\ handler[h].at = "emit" /\ ~Closed(s)
     /\ \/ /\ Len(queue[s]) < EventQueueSize
           /\ queue' = [queue EXCEPT ![s] = Append(@, h)]
           /\ handler' = [handler EXCEPT ![h].at = IF h \in Requests THEN "waiting" ELSE "returned"]
        \/ /\ Len(queue[s]) = EventQueueSize
           /\ queue' = [queue EXCEPT ![s] = Tail(@)] /\ handler' = handler
     /\ UNCHANGED <<client, loop, forward, pending, decision>>

\* A send on the closed queue panics, and nothing recovers.
EmitPanics(h) == handler[h].at = "emit" /\ Closed(handler[h].on)

Return(h) == handler' = [handler EXCEPT ![h].at = "returned"]
Decided(r) ==
  /\ handler[r].at = "waiting" /\ decision[r] # "open" /\ Return(r)
  /\ UNCHANGED <<client, loop, queue, forward, pending, decision>>
\* The caller's context ends.
Abandoned(r) ==
  /\ handler[r].at = "waiting" /\ Return(r)
  /\ take(handler[r].on, r)
  /\ UNCHANGED <<client, loop, queue, forward, decision>>
=============================================================================
