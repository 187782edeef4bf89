---------------------------- MODULE RoutingTable ----------------------------
(***************************************************************************)
(* The Kademlia routing table of internal/discovery/routing.go as          *)
(* operators on a table value.  A node identifier is a tuple of NumBuckets *)
(* bits; an ensemble address stands for the identifier it encodes.  An     *)
(* entry keeps of LastSeen what isExpired and Evict make of it:            *)
(*   "fresh"   within RecordTTL                                            *)
(*   "expired" older than RecordTTL, within the table's maximum age        *)
(*   "ancient" older than the maximum age, or the zero time                *)
(* A tracker counts the insertions a source is answerable for: all of them *)
(* (count) and those within RateWindow (recent).                           *)
(***************************************************************************)
EXTENDS Naturals, FiniteSets, SequencesExt

CONSTANTS
  Local,         \* identifier of this node
  Ids,           \* identifiers of the other nodes
  NumBuckets,    \* bits of an identifier
  K,             \* peers per bucket
  MaxPerSource,  \* insertions a source may ever cause
  RateLimit      \* insertions a source may cause within RateWindow

ASSUME TableAssumption ==
  /\ NumBuckets \in Nat \ {0}
  /\ K \in Nat \ {0}
  /\ MaxPerSource \in Nat
  /\ RateLimit \in Nat
  /\ Ids \cup {Local} \subseteq [1..NumBuckets -> {0, 1}]
  /\ Local \notin Ids

Ages == {"fresh", "expired", "ancient"}
Buckets == 0..(NumBuckets - 1)

Distance(a, b) == [i \in 1..NumBuckets |-> IF a[i] = b[i] THEN 0 ELSE 1]

\* The first position in which two distances differ decides.
compareDist(d, e) ==
  d # e /\ LET i == Min({j \in 1..NumBuckets : d[j] # e[j]}) IN d[i] < e[i]

CommonPrefixLen(a, b) ==
  IF a = b THEN NumBuckets ELSE Min({i \in 1..NumBuckets : a[i] # b[i]}) - 1

EmptyTable == [b \in Buckets |-> <<>>]

AllPeers(rt) == UNION {ToSet(rt[b]) : b \in Buckets}
Size(rt) == Cardinality(AllPeers(rt))
Known(rt) == {e.id : e \in AllPeers(rt)}
EntryOf(rt, id) == CHOOSE e \in AllPeers(rt) : e.id = id

NewTracker == [count |-> 0, recent |-> 0]
checkRateLimit(t) == t.count < MaxPerSource /\ t.recent < RateLimit
recordInsertion(t) == [count |-> t.count + 1, recent |-> t.recent + 1]

\* The entries that are in S, in their order.
Keep(entries, S) ==
  LET kept[i \in 0..Len(entries)] ==
        IF i = 0 THEN <<>>
        ELSE IF entries[i] \in S THEN Append(kept[i - 1], entries[i]) ELSE kept[i - 1]
  IN kept[Len(entries)]

(***************************************************************************)
(* AddPeer on a state [rt, sources]: an entry that is there is refreshed   *)
(* and moved to the tail with its failures; a new one needs room in its    *)
(* bucket and a source within its limits.                                  *)
(***************************************************************************)
MutPresent(rt, id) == FALSE
Present(rt, id) == \E e \in ToSet(rt[CommonPrefixLen(Local, id)]) : e.id = id

Refreshed(rt, peer) ==
  LET b == CommonPrefixLen(Local, peer.id)
      i == Min({j \in 1..Len(rt[b]) : rt[b][j].id = peer.id})
      entry == [rt[b][i] EXCEPT !.age = peer.age, !.onion = peer.onion]
  IN [rt EXCEPT ![b] = Append(RemoveAt(@, i), entry)]

AddPeer(s, peer, source) ==
  LET b == CommonPrefixLen(Local, peer.id) IN
  CASE peer.id = Local -> s
    [] peer.id # Local /\ Present(s.rt, peer.id) ->
         [s EXCEPT !.rt = Refreshed(s.rt, peer)]
    [] /\ peer.id # Local /\ ~Present(s.rt, peer.id)
       /\ checkRateLimit(s.sources[source]) /\ Len(s.rt[b]) < K ->
         [rt |-> [s.rt EXCEPT ![b] = Append(@, peer)],
          sources |-> [s.sources EXCEPT ![source] = recordInsertion(@)]]
    [] OTHER -> s

\* The peers of an answer one after the other, peers[i] on the account of source[i].
AddPeers(s, peers, source) ==
  LET added[i \in 0..Len(peers)] ==
        IF i = 0 THEN s ELSE AddPeer(added[i - 1], peers[i], source[i])
  IN added[Len(peers)]

Evict(rt) == [b \in Buckets |-> Keep(rt[b], {e \in ToSet(rt[b]) : e.age # "ancient"})]

EvictByFailures(rt, threshold) ==
  IF threshold = 0 THEN rt
  ELSE [b \in Buckets |-> Keep(rt[b], {e \in ToSet(rt[b]) : e.fails < threshold})]

\* RecordFailure and RecordSuccess go by onion address and touch the first
\* entry that has it.
BucketsWith(rt, onion) == {b \in Buckets : \E e \in ToSet(rt[b]) : e.onion = onion}
FirstWith(rt, onion) ==
  LET b == Min(BucketsWith(rt, onion))
  IN [bucket |-> b, place |-> Min({j \in 1..Len(rt[b]) : rt[b][j].onion = onion})]

SetFailures(rt, onion, failed) ==
  LET first == FirstWith(rt, onion)
  IN IF BucketsWith(rt, onion) = {} THEN rt
     ELSE [rt EXCEPT ![first.bucket][first.place].fails = IF failed THEN @ + 1 ELSE 0]
RecordFailure(rt, onion) == SetFailures(rt, onion, TRUE)
MutRecordSuccess(rt, onion) == rt
RecordSuccess(rt, onion) == SetFailures(rt, onion, FALSE)

\* What FindClosest may return: as many as there are up to count, by distance.
FindClosest(rt, target, count) ==
  LET Closer(e, f) == compareDist(Distance(e.id, target), Distance(f.id, target)) IN
  {peers \in [1..Min({count, Size(rt)}) -> AllPeers(rt)] :
     /\ IsInjective(peers)
     /\ \A i, j \in DOMAIN peers : i < j => ~Closer(peers[j], peers[i])
     /\ \A i \in DOMAIN peers, e \in AllPeers(rt) \ ToSet(peers) : ~Closer(e, peers[i])}

\* Save writes the buckets one after the other, without the failures.
Saved(rt) ==
  FlattenSeq([n \in 1..NumBuckets |->
                [i \in 1..Len(rt[n - 1]) |-> [rt[n - 1][i] EXCEPT !.fails = 0]]])

\* Load fills the buckets, the most recently seen first, with neither the
\* limits nor a look for duplicates.
OfAge(peers, age) == Keep(peers, {e \in ToSet(peers) : e.age = age})
Load(peers) ==
  LET sorted == OfAge(peers, "fresh") \o OfAge(peers, "expired") \o OfAge(peers, "ancient")
  IN [b \in Buckets |->
       LET mine == Keep(sorted, {e \in ToSet(sorted) : e.id # Local
                                                   /\ CommonPrefixLen(Local, e.id) = b})
       IN SubSeq(mine, 1, Min({K, Len(mine)}))]
=============================================================================
