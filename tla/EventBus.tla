------------------------------ MODULE EventBus ------------------------------
(***************************************************************************)
(* node.EventBus seen by one SubscribeAll subscriber: a channel per event  *)
(* type, a forwarding goroutine per type that takes an event and then      *)
(* waits for room in the merged channel, and the merged channel.  Publish  *)
(* treats every subscriber alone, so one is enough.  Events of one type    *)
(* keep their order, events of two types need not.                         *)
(***************************************************************************)
EXTENDS SequencesExt, Naturals

CONSTANTS
  AllEventTypes,     \* allEventTypes, in order
  SubscriberBuffer,  \* capacity of every channel
  None

ASSUME BusAssumption == SubscriberBuffer \in Nat \ {0} /\ IsInjective(AllEventTypes)

VARIABLES
  subs,      \* subs[t]: the subscriber's channel for type t, None before Subscribe
  held,      \* held[t]: event the forwarder of t has taken and not yet delivered
  merged,    \* the channel SubscribeAll returned
  gone,      \* the subscriber's context is done
  inflight   \* history: per type, events accepted and not yet handled, oldest first

Types == ToSet(AllEventTypes)
bus == <<subs, held, merged, gone, inflight>>

Event(t, x) == [type |-> t, of |-> x]

BusStarts(channel) ==
  /\ subs = [t \in Types |-> channel]
  /\ held = [t \in Types |-> None]
  /\ merged = <<>>
  /\ gone = FALSE
  /\ inflight = [t \in Types |-> <<>>]

BusInit == BusStarts(None)
BusSubscribed == BusStarts(<<>>)

\* Subscriptions are made one type after the other.
Unsubscribed == {i \in DOMAIN AllEventTypes : subs[AllEventTypes[i]] = None}
Subscribe(t) ==
  /\ \E i \in Unsubscribed : t = AllEventTypes[i] /\ \A j \in Unsubscribed : i <= j
  /\ subs' = [subs EXCEPT ![t] = <<>>]
  /\ UNCHANGED <<held, merged, gone, inflight>>

\* Never blocks: a full channel loses the event.
Publish(e) ==
  LET accepted == subs[e.type] # None /\ Len(subs[e.type]) < SubscriberBuffer
  IN /\ subs' = IF accepted THEN [subs EXCEPT ![e.type] = Append(@, e)] ELSE subs
     /\ inflight' = IF accepted /\ ~gone THEN [inflight EXCEPT ![e.type] = Append(@, e)]
                    ELSE inflight
     /\ UNCHANGED <<held, merged, gone>>

\* forwardUntilDone of type t: the receive, then the send.
TakeEvent(t) ==
  /\ ~gone /\ held[t] = None /\ subs[t] \notin {None, <<>>}
  /\ held' = [held EXCEPT ![t] = Head(subs[t])]
  /\ subs' = [subs EXCEPT ![t] = Tail(@)]
  /\ UNCHANGED <<merged, gone, inflight>>

MutPutEvent(t) ==
  /\ ~gone /\ held[t] # None
  /\ merged' = IF Len(merged) < SubscriberBuffer THEN Append(merged, held[t]) ELSE merged
  /\ held' = [held EXCEPT ![t] = None]
  /\ UNCHANGED <<subs, gone, inflight>>

PutEvent(t) ==
  /\ ~gone /\ held[t] # None
  /\ Len(merged) < SubscriberBuffer
  /\ merged' = Append(merged, held[t])
  /\ held' = [held EXCEPT ![t] = None]
  /\ UNCHANGED <<subs, gone, inflight>>

\* The context ends: every forwarder returns, nobody closes the merged channel,
\* and the subscriptions stay in the bus.
Unsubscribe ==
  /\ ~gone /\ gone' = TRUE
  /\ held' = [t \in Types |-> None]
  /\ inflight' = [t \in Types |-> <<>>]
  /\ UNCHANGED <<subs, merged>>
=============================================================================
