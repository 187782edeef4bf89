----------------------------- MODULE Connector -----------------------------
(***************************************************************************)
(* transport.Connector: the table of peers, the calls that fill it         *)
(* (Connect, Reconnect, ReconnectWithFallback) and empty it (Disconnect,   *)
(* eviction), NAT traversal, and the loop of StartAutoReconnect.           *)
(*                                                                         *)
(* A call names the PeerConnection it creates.  Every critical section of  *)
(* c.mu is a step, and so is everything between two waits for the network. *)
(* The states from discovering to NAT traversal and reconnecting are       *)
(* "busy", connected and connected-tor are "connected".  The lookup of the *)
(* peer is one wait that may fail, and handshake and IP exchange together  *)
(* are another: the table does not depend on where they do.                *)
(***************************************************************************)
EXTENDS Naturals, Sequences, FiniteSets

CONSTANTS
  Addrs,                \* addresses of peers
  Calls,                \* calls of the connector's operations
  Mixes,                \* functions that say which operation each call is of
  MaxPeers,
  ReconnectMaxRetries,
  MaxMissed,            \* pings a peer may miss
  None

Kinds == {"connect", "reconnect", "fallback", "disconnect"}

ASSUME ConnectorAssumption ==
  /\ Mixes \subseteq [Calls -> Kinds \cup {None}]
  /\ MaxPeers \in Nat \ {0} /\ ReconnectMaxRetries \in Nat \ {0} /\ MaxMissed \in Nat \ {0}
  /\ None \notin Calls \cup Addrs

\* NATStrategy, in the order in which they are tried.
Direct == 0
HolePunch == 1
Relay == 2
TorOnly == 3
Strategies == Direct .. TorOnly

VARIABLES
  kind,       \* kind[k]: the operation k calls, None if it is not made
  at,         \* at[k]: where call k is
  addr,       \* addr[k]: the address it is about
  attempt,    \* attempt[k]: attempts that failed
  start,      \* start[k]: previous strategy, as ReconnectWithFallback read it
  try,        \* try[k]: the strategy being tried
  found,      \* found[k]: the PeerConnection Disconnect found
  state, strategy, peerID,   \* fields of the PeerConnection of k
  order,      \* PeerConnections by LastActivity, the oldest first
  peers,      \* Connector.peers
  link,       \* link[a]: libp2p has a connection to a
  snapshot,   \* peers the monitor still has to ping in this round
  missed      \* missed[a]: its failure counter

callVars == <<kind, at, addr, attempt, start, try, found>>
pcVars == <<state, strategy, peerID, order>>
monitorVars == <<snapshot, missed>>
vars == <<callVars, pcVars, peers, link, monitorVars>>

Init ==
  /\ kind \in Mixes
  /\ at = [k \in Calls |-> "idle"]
  /\ addr = [k \in Calls |-> None]
  /\ attempt = [k \in Calls |-> 0]
  /\ start = [k \in Calls |-> Direct]
  /\ try = [k \in Calls |-> Direct]
  /\ found = [k \in Calls |-> None]
  /\ state = [k \in Calls |-> "busy"]
  /\ strategy = [k \in Calls |-> Direct]
  /\ peerID = [k \in Calls |-> FALSE]
  /\ order = <<>>
  /\ peers = [a \in Addrs |-> None]
  /\ link = [a \in Addrs |-> FALSE]
  /\ snapshot = {}
  /\ missed = [a \in Addrs |-> 0]

Goto(k, l) == at' = [at EXCEPT ![k] = l]
Entries == {a \in Addrs : peers[a] # None}
IsConnected(a) == peers[a] # None /\ state[peers[a]] = "connected"

----------------------------------------------------------------------------
(* Connect, Reconnect and ReconnectWithFallback enter their PeerConnection *)

\* Mutant of Evictable: pending connections are evicted as well.
MutEvictable == Entries

\* Only connected peers are candidates for eviction.
Evictable == {a \in Addrs : IsConnected(a)}

Pos(k) == IF \E i \in 1 .. Len(order) : order[i] = k
            THEN CHOOSE i \in 1 .. Len(order) : order[i] = k
            ELSE 0

\* evictIfNeededLocked: the one that has been inactive longest.
Victims ==
  IF Cardinality(Entries) < MaxPeers THEN {}
  ELSE {a \in Evictable : \A b \in Evictable : Pos(peers[a]) <= Pos(peers[b])}

Connect(k, a) ==
  /\ at[k] = "idle" /\ kind[k] = "connect"
  /\ addr' = [addr EXCEPT ![k] = a]
  /\ \/ /\ IsConnected(a)
        /\ Goto(k, "ok")
        /\ UNCHANGED <<peers, link>>
     \/ /\ ~IsConnected(a)
        /\ peers' = [b \in Addrs |-> IF b = a THEN k ELSE IF b \in Victims THEN None ELSE peers[b]]
        /\ link' = [b \in Addrs |-> link[b] /\ ~(b \in Victims /\ peerID[peers[b]])]
        /\ Goto(k, "lookup")
  /\ UNCHANGED <<kind, attempt, start, try, found, pcVars, monitorVars>>

\* ClosePeer for the connection in the table.
CloseStale(a) ==
  link' = [link EXCEPT ![a] = @ /\ ~(peers[a] # None /\ peerID[peers[a]])]

Reconnect(k, a) ==
  /\ at[k] = "idle" /\ kind[k] = "reconnect"
  /\ addr' = [addr EXCEPT ![k] = a]
  /\ \/ /\ IsConnected(a)
        /\ Goto(k, "ok")
        /\ UNCHANGED <<peers, link>>
     \/ /\ ~IsConnected(a)
        /\ CloseStale(a)
        /\ peers' = [peers EXCEPT ![a] = k]
        /\ Goto(k, "lookup")
  /\ UNCHANGED <<kind, attempt, start, try, found, pcVars, monitorVars>>

\* ReconnectWithFallback reads the previous strategy in one critical section ...
ReadPrevious(k) ==
  LET a == addr[k]
  IN  /\ at[k] = "previous"
      /\ start' = [start EXCEPT ![k] = IF peers[a] = None THEN Direct ELSE strategy[peers[a]]]
      /\ CloseStale(a)
      /\ Goto(k, "replace")
      /\ UNCHANGED <<kind, addr, attempt, try, found, pcVars, peers, monitorVars>>

\* ... and replaces the entry in another, whatever it is by then.
Replace(k) ==
  /\ at[k] = "replace"
  /\ peers' = [peers EXCEPT ![addr[k]] = k]
  /\ Goto(k, "lookup")
  /\ UNCHANGED <<kind, addr, attempt, start, try, found, pcVars, link, monitorVars>>

----------------------------------------------------------------------------
(* connectFlow, connectFlowFromStrategy and the loops around them *)

\* The strategy an attempt starts from.
FirstStrategy(k) == IF kind[k] = "fallback" THEN start[k] + attempt[k] ELSE Direct

LastAttempt(k) ==
  \/ kind[k] = "connect"
  \/ kind[k] = "reconnect" /\ attempt[k] + 1 = ReconnectMaxRetries
  \/ kind[k] = "fallback" /\ start[k] + attempt[k] = TorOnly

\* Mutant of Fail: a reconnection starts over.
MutFail(k) ==
  /\ Goto(k, IF kind[k] = "fallback" THEN "previous" ELSE "err")
  /\ state' = [state EXCEPT ![k] = IF kind[k] = "fallback" THEN @ ELSE "failed"]
  /\ UNCHANGED attempt

\* The flow returned an error: try again, after a pause or with the next
\* strategy, or give up.
Fail(k) ==
  IF LastAttempt(k)
    THEN /\ Goto(k, "err")
         /\ state' = [state EXCEPT ![k] = "failed"]
         /\ attempt' = [attempt EXCEPT ![k] = 0]
    ELSE /\ Goto(k, IF kind[k] = "reconnect" THEN "backoff" ELSE "lookup")
         /\ attempt' = [attempt EXCEPT ![k] = @ + 1]
         /\ state' = [state EXCEPT ![k] = IF kind[k] = "fallback" THEN "busy" ELSE @]

Touch(k) == order' = Append(SelectSeq(order, LAMBDA x : x # k), k)

\* The end of the flow: activity, strategy, state.  The locals are gone.
Finish(k, s) ==
  /\ strategy' = [strategy EXCEPT ![k] = s]
  /\ state' = [state EXCEPT ![k] = "connected"]
  /\ Touch(k)
  /\ try' = [try EXCEPT ![k] = Direct]
  /\ attempt' = [attempt EXCEPT ![k] = 0]
  /\ Goto(k, IF kind[k] = "fallback" THEN "ok" ELSE "touch")

\* FindPeer, or cachedOrFreshLookup in a reconnection: from the cache at once,
\* or when the peers asked have answered or failed.
Lookup(k) ==
  /\ at[k] = "lookup"
  /\ \/ Fail(k)
     \/ Goto(k, "negotiate") /\ UNCHANGED <<state, attempt>>
  /\ UNCHANGED <<kind, addr, start, try, found, strategy, peerID, order, peers, link, monitorVars>>

\* Handshake and IP exchange.  A peer without addresses is left with Tor; one
\* whose addresses do not parse has its PeerID all the same.
Negotiate(k) ==
  /\ at[k] = "negotiate"
  /\ \/ /\ Fail(k)
        /\ \/ UNCHANGED peerID
           \/ peerID' = [peerID EXCEPT ![k] = TRUE]
        /\ UNCHANGED <<try, strategy, order>>
     \/ /\ Finish(k, TorOnly)
        /\ peerID' = [peerID EXCEPT ![k] = TRUE]
     \/ /\ peerID' = [peerID EXCEPT ![k] = TRUE]
        /\ try' = [try EXCEPT ![k] = FirstStrategy(k)]
        /\ state' = [state EXCEPT ![k] = "busy"]
        /\ Goto(k, "nat")
        /\ UNCHANGED <<kind, attempt, strategy, order>>
  /\ UNCHANGED <<kind, addr, start, found, peers, link, monitorVars>>

NextStrategy(k) == try' = [try EXCEPT ![k] = @ + 1]

\* NATTraverseFrom: the next strategy works or does not; tryHolePunch first
\* connects through the relay.
Traverse(k) ==
  /\ at[k] = "nat"
  /\ \/ /\ try[k] \in {Direct, Relay}
        /\ Finish(k, try[k])
        /\ link' = [link EXCEPT ![addr[k]] = TRUE]
     \/ /\ try[k] = HolePunch
        /\ link' = [link EXCEPT ![addr[k]] = TRUE]
        /\ Goto(k, "punch")
        /\ UNCHANGED <<try, attempt, state, strategy, order>>
     \/ /\ try[k] # TorOnly
        /\ NextStrategy(k)
        /\ UNCHANGED <<at, attempt, state, strategy, order, link>>
     \/ /\ try[k] = TorOnly
        /\ Finish(k, TorOnly)
        /\ UNCHANGED link
  /\ UNCHANGED <<kind, addr, start, found, peerID, peers, monitorVars>>

\* An upgrade within the time, or ClosePeer.
Punch(k) ==
  /\ at[k] = "punch"
  /\ \/ /\ link[addr[k]]
        /\ Finish(k, HolePunch)
        /\ UNCHANGED link
     \/ /\ link' = [link EXCEPT ![addr[k]] = FALSE]
        /\ NextStrategy(k)
        /\ Goto(k, "nat")
        /\ UNCHANGED <<attempt, state, strategy, order>>
  /\ UNCHANGED <<kind, addr, start, found, peerID, peers, monitorVars>>

\* Connect and Reconnect set LastActivity once more before they return.
Return(k) ==
  /\ at[k] = "touch"
  /\ Touch(k)
  /\ Goto(k, "ok")
  /\ UNCHANGED <<kind, addr, attempt, start, try, found, state, strategy, peerID, peers, link, monitorVars>>

\* Mutant of Backoff: the state is left as it is when ctx is done.
MutBackoff(k) ==
  /\ at[k] = "backoff"
  /\ Goto(k, "lookup") \/ Goto(k, "err")
  /\ UNCHANGED <<kind, addr, attempt, start, try, found, pcVars, peers, link, monitorVars>>

\* Reconnect waits before the next attempt, or until ctx is done.
Backoff(k) ==
  /\ at[k] = "backoff"
  /\ \/ /\ state' = [state EXCEPT ![k] = "busy"]
        /\ Goto(k, "lookup")
        /\ UNCHANGED attempt
     \/ /\ state' = [state EXCEPT ![k] = "failed"]
        /\ Goto(k, "err")
        /\ attempt' = [attempt EXCEPT ![k] = 0]
  /\ UNCHANGED <<kind, addr, start, try, found, strategy, peerID, order, peers, link, monitorVars>>

----------------------------------------------------------------------------
(* Disconnect *)

FindEntry(k, a) ==
  /\ at[k] = "idle" /\ kind[k] = "disconnect"
  /\ addr' = [addr EXCEPT ![k] = a]
  /\ found' = [found EXCEPT ![k] = peers[a]]
  /\ Goto(k, IF peers[a] = None THEN "ok" ELSE "close")
  /\ UNCHANGED <<kind, attempt, start, try, pcVars, peers, link, monitorVars>>

Close(k) ==
  /\ at[k] = "close"
  /\ link' = [link EXCEPT ![addr[k]] = @ /\ ~peerID[found[k]]]
  /\ Goto(k, "mark")
  /\ UNCHANGED <<kind, addr, attempt, start, try, found, pcVars, peers, monitorVars>>

Mark(k) ==
  /\ at[k] = "mark"
  /\ state' = [state EXCEPT ![found[k]] = "disconnected"]
  /\ Goto(k, "delete")
  /\ UNCHANGED <<kind, addr, attempt, start, try, found, strategy, peerID, order, peers, link, monitorVars>>

\* By address: whatever is there now.
Delete(k) ==
  /\ at[k] = "delete"
  /\ peers' = [peers EXCEPT ![addr[k]] = None]
  /\ found' = [found EXCEPT ![k] = None]
  /\ Goto(k, "ok")
  /\ UNCHANGED <<kind, addr, attempt, start, try, pcVars, link, monitorVars>>

----------------------------------------------------------------------------
(* StartAutoReconnect, and the network *)

Tick ==
  /\ snapshot = {}
  /\ snapshot' = {a \in Addrs : IsConnected(a) /\ peerID[peers[a]]}
  /\ UNCHANGED <<callVars, pcVars, peers, link, missed>>

\* OpenStream dials a peer that has no connection.
PingAnswered(a) ==
  /\ a \in snapshot
  /\ snapshot' = snapshot \ {a}
  /\ missed' = [missed EXCEPT ![a] = 0]
  /\ link' = [link EXCEPT ![a] = TRUE]
  /\ UNCHANGED <<callVars, pcVars, peers>>

\* Mutant of PingMissed: the miss is not counted.
MutPingMissed(a) ==
  /\ a \in snapshot
  /\ snapshot' = snapshot \ {a}
  /\ UNCHANGED <<callVars, pcVars, peers, link, missed>>

PingMissed(a) ==
  /\ a \in snapshot
  /\ missed[a] + 1 < MaxMissed
  /\ snapshot' = snapshot \ {a}
  /\ missed' = [missed EXCEPT ![a] = @ + 1]
  /\ UNCHANGED <<callVars, pcVars, peers, link>>

\* One miss too many: a goroutine of its own reconnects.
StartReconnect(a, k) ==
  /\ a \in snapshot
  /\ missed[a] + 1 >= MaxMissed
  /\ at[k] = "idle" /\ kind[k] = "fallback"
  /\ snapshot' = snapshot \ {a}
  /\ missed' = [missed EXCEPT ![a] = 0]
  /\ addr' = [addr EXCEPT ![k] = a]
  /\ Goto(k, "previous")
  /\ UNCHANGED <<kind, attempt, start, try, found, pcVars, peers, link>>

\* A connection breaks, or the peer opens one.
LinkChanges(a) ==
  /\ link' = [link EXCEPT ![a] = ~@]
  /\ UNCHANGED <<callVars, pcVars, peers, monitorVars>>

----------------------------------------------------------------------------
CallStep(k) ==
  \/ ReadPrevious(k) \/ Replace(k)
  \/ Negotiate(k) \/ Traverse(k) \/ Punch(k) \/ Return(k) \/ Backoff(k)
  \/ Close(k) \/ Mark(k) \/ Delete(k)

Monitor ==
  \/ Tick
  \/ \E a \in Addrs :
       \/ PingAnswered(a)
       \/ PingMissed(a)
       \/ \E k \in Calls : StartReconnect(a, k)

Environment ==
  \E a \in Addrs :
    \/ LinkChanges(a)
    \/ \E k \in Calls : Connect(k, a) \/ Reconnect(k, a) \/ FindEntry(k, a)

Next == (\E k \in Calls : Lookup(k) \/ CallStep(k)) \/ Monitor \/ Environment

Spec == Init /\ [][Next]_vars

\* The loop runs, and what its reconnections do has a deadline of two minutes,
\* with one exception: a lookup may wait for a DHT peer in protocol.ReadMsg
\* (dht.go:373), which has no deadline and does not watch ctx, so nothing is
\* assumed of Lookup.  The contexts of the other calls come from their callers
\* and may have no deadline.
FairSpec ==
  /\ Spec
  /\ WF_vars(Monitor)
  /\ \A k \in Calls : WF_vars(kind[k] = "fallback" /\ CallStep(k))

----------------------------------------------------------------------------
(* Properties *)

Returned == {"ok", "err"}
InFlow == {"lookup", "negotiate", "nat", "punch", "backoff"}

\* The table does not lie: an entry whose call has returned shows what the
\* call returned, on every path out of the retry loops and whatever replaced
\* or disconnected its predecessors, or is just being disconnected.
EntryTruthful ==
  \A a \in Addrs, k \in Calls : peers[a] = k /\ at[k] \in Returned =>
    /\ addr[k] = a
    /\ \/ state[k] = IF at[k] = "ok" THEN "connected" ELSE "failed"
       \/ \E d \in Calls : at[d] = "delete" /\ found[d] = k

\* A connection in progress leaves the table only for a newer one of the same
\* address or through Disconnect; eviction does not touch it.
InProgressKept ==
  [][\A a \in Addrs, k \in Calls :
       peers[a] = k /\ at[k] \in InFlow /\ peers'[a] # k =>
         \/ peers'[a] # None
         \/ \E d \in Calls : at[d] = "delete" /\ addr[d] = a /\ at'[d] = "ok"]_vars

\* A reconnection started by the monitor comes to an end, through all its
\* strategies and whatever else happens to the entry, unless one of its lookups
\* never returns.
ReconnectionEnds ==
  \A k \in Calls :
    (at[k] = "previous") ~> (at[k] \in Returned \/ [](at[k] = "lookup"))

\* A connection that is down does not stay in the table as connected: the
\* monitor replaces it, if it is not replaced, closed or back before that.
\* (The instance has a bounded number of reconnections.)
DeadNoticed ==
  \A a \in Addrs, k \in Calls :
    (peers[a] = k /\ state[k] = "connected" /\ ~link[a])
      ~> \/ peers[a] # k \/ state[k] # "connected" \/ link[a]
         \/ ~ \E f \in Calls : kind[f] = "fallback" /\ at[f] = "idle"
============================================================================
