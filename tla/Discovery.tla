------------------------------ MODULE Discovery ------------------------------
(***************************************************************************)
(* The discovery manager with its DHT and mDNS backends (manager.go,       *)
(* dht.go, mdns.go of internal/discovery) on one node, against peers that  *)
(* answer or do not.  Jobs are the goroutines that announce and save: the  *)
(* start-up pass of the daemon, the announce loop, and AddNode.  Calls are *)
(* FindPeer calls.  Every access to the table, the callback and the file   *)
(* is a step, so jobs, calls, handlers and a crash interleave.             *)
(***************************************************************************)
EXTENDS RoutingTable

CONSTANTS
  None, Torn,
  Calls, Target,    \* FindPeer calls, and the address each one asks for
  Service,          \* identifier of an onion service hosted here
  OnionsOf,         \* the onion addresses a peer may announce, per identifier
  Answers,          \* lists of records a peer may answer with
  LanPeers,         \* the peers mDNS sees
  FailureThreshold, LookupMaxIterations, PeerChanBuffer,
  Files,            \* what an earlier run may have left on disk
  MaxCrashes,       \* crashes of the daemon in a behaviour
  MaxEvents         \* per set of jobs and calls that run together: how many ticks,
                    \* requests, announcements and ageings come from outside

Startup == "startup"
Loop == "loop"
Add == "add"
Jobs == {Startup, Loop, Add}

Record(id, onion, age) == [id |-> id, onion |-> onion, age |-> age, fails |-> 0]
Records ==
  {p \in [id : Ids \cup {Local}, onion : UNION Range(OnionsOf), age : Ages, fails : {0}] :
     p.onion \in OnionsOf[p.id]}

\* What Save writes: every peer once, this node not at all, and no more peers for a
\* bucket than it has room for.
FitsTable(peers) ==
  /\ IsInjective([i \in DOMAIN peers |-> peers[i].id])
  /\ \A e \in ToSet(peers) : e.id # Local
  /\ \A b \in Buckets :
       Cardinality({e \in ToSet(peers) : CommonPrefixLen(Local, e.id) = b}) <= K

ASSUME DiscoveryAssumption ==
  /\ Target \in [Calls -> Ids]
  /\ LanPeers \subseteq Ids
  /\ Calls \cap Jobs = {}
  /\ {FailureThreshold, LookupMaxIterations, PeerChanBuffer, MaxCrashes} \subseteq Nat
  /\ MaxEvents \in [DOMAIN MaxEvents -> Nat]
  /\ DOMAIN MaxEvents \subseteq SUBSET (Jobs \cup Calls)

\* A record pairs an identifier with an onion address and nothing signs it, so two
\* peers may come with the same one; an earlier run left what Save writes.
ASSUME RecordAssumption ==
  /\ DOMAIN OnionsOf = Ids \cup {Local}
  /\ \A answer \in Answers : answer \in Seq(Records)
  /\ \A f \in Files \ {None, Torn} : f \in Seq(Records) /\ FitsTable(f)

VARIABLES
  rt, sources,      \* RoutingTable
  idents,           \* DHTDiscovery.localIdentities
  file,             \* routing_table.json: None, Torn (truncated, cut) or entries
  up, crashes,      \* the daemon has wired discovery; crashes so far
  events,           \* events from outside so far
  active,           \* which jobs and calls run in this behaviour
  job,              \* per job: pc, identities and peers still to do, outcome, snapshot
  call,             \* per call: pc, its result channel, peers to query and queried
  callback, browser,\* MDNSDiscovery.callback; a browse entry with the callback read for it
  seen, peerCh,     \* Manager.seen, Manager.peerCh
  misses            \* history: failed announcements to an onion a peer may have since a
                    \* success was recorded for the peer

table == <<rt, sources>>
daemon == <<up, crashes, active>>
manager == <<callback, browser, seen, peerCh>>
vars == <<rt, sources, idents, file, up, crashes, events, active, job, call, callback, browser,
          seen, peerCh, misses>>

IdleJob == [pc |-> "idle", ids |-> <<>>, todo |-> <<>>, ok |-> FALSE, snap |-> <<>>,
            booted |-> TRUE]
IdleCall == [pc |-> "idle", result |-> None, todo |-> <<>>, queried |-> {},
             progressed |-> FALSE, round |-> 0]

Init ==
  /\ rt = EmptyTable
  /\ sources = [i \in Ids |-> NewTracker]
  /\ idents = {}
  /\ file \in Files
  /\ up = FALSE
  /\ crashes = 0
  /\ events = 0
  /\ active \in DOMAIN MaxEvents
  /\ job = [j \in Jobs |-> IdleJob]
  /\ call = [c \in Calls |-> IdleCall]
  /\ callback = "general"
  /\ browser = None
  /\ seen = {}
  /\ peerCh = <<>>
  /\ misses = [i \in Ids |-> 0]

Table == [rt |-> rt, sources |-> sources]
Becomes(s) == rt' = s.rt /\ sources' = s.sources
Event == events < MaxEvents[active] /\ events' = events + 1

-----------------------------------------------------------------------------
(* The world: time, other nodes, the hosted service.                       *)

\* Time passes for one entry: it expires, then grows ancient.
Older(age) == IF age = "fresh" THEN "expired" ELSE "ancient"
AgeEntry ==
  /\ Event
  /\ \E b \in Buckets : \E i \in DOMAIN rt[b] :
       /\ rt[b][i].age # "ancient"
       /\ rt' = [rt EXCEPT ![b][i].age = Older(@)]
  /\ UNCHANGED <<sources, idents, file, daemon, job, call, manager, misses>>

\* An insertion of source s falls out of its rate window.
WindowPasses ==
  /\ Event
  /\ \E s \in Ids : sources[s].recent > 0
                 /\ sources' = [sources EXCEPT ![s].recent = @ - 1]
  /\ UNCHANGED <<rt, idents, file, daemon, job, call, manager, misses>>

isExpired(p) == p.age # "fresh"

\* A peer announces a record of its own; an expired one is refused.
handlePutRecord ==
  /\ Event
  /\ up
  /\ \E id \in Ids : \E o \in OnionsOf[id], a \in Ages :
       LET peer == Record(id, o, a) IN
       /\ ~isExpired(peer)
       /\ Becomes(AddPeer(Table, peer, id))
  /\ UNCHANGED <<idents, file, daemon, job, call, manager, misses>>

AddLocalIdentity ==
  /\ Event
  /\ up /\ idents' = idents \cup {Service} /\ idents' # idents
  /\ UNCHANGED <<table, file, daemon, job, call, manager, misses>>
RemoveLocalIdentity ==
  /\ Event
  /\ idents' = idents \ {Service} /\ idents' # idents
  /\ UNCHANGED <<table, file, daemon, job, call, manager, misses>>

-----------------------------------------------------------------------------
(* Jobs: bootstrap, announce, evict, save.                                 *)

\* Of the copies FindClosest returns a caller uses these fields.
Copies(peers) == [i \in DOMAIN peers |-> [id |-> peers[i].id, onion |-> peers[i].onion]]

JobAt(j, pc) == j \in active \cup {Startup} /\ job[j].pc = pc
otherThanJob == <<idents, daemon, events, call, manager>>

\* What sendFindNode returns of an answer.
Unexpired(answer) == Keep(answer, {p \in ToSet(answer) : ~isExpired(p)})

\* AddNode: the seed's answer goes into the table, each record on its own account.
Bootstrap ==
  /\ Event
  /\ up /\ JobAt(Add, "idle")
  /\ \E answer \in Answers :
       LET peers == Unexpired(answer)
       IN Becomes(AddPeers(Table, peers, [i \in DOMAIN peers |-> peers[i].id]))
  /\ job' = [job EXCEPT ![Add].pc = "announce"]
  /\ UNCHANGED <<idents, daemon, call, manager, file, misses>>

\* A tick of the announce loop first evicts what is too old.
EvictStale ==
  /\ Event
  /\ up /\ JobAt(Loop, "idle")
  /\ rt' = Evict(rt)
  /\ job' = [job EXCEPT ![Loop].pc = "announce"]
  /\ UNCHANGED <<idents, daemon, call, manager, sources, file, misses>>

\* Announce lists the identities, the node's own first.
Announce(j) ==
  /\ JobAt(j, "announce")
  /\ job' = [job EXCEPT ![j].pc = "next", ![j].ids = <<Local>> \o SetToSeq(idents)]
  /\ UNCHANGED <<otherThanJob, table, file, misses>>

NextIdentity(j) ==
  /\ JobAt(j, "next") /\ job[j].ids # <<>>
  /\ \E closest \in FindClosest(rt, Head(job[j].ids), K) :
       job' = [job EXCEPT ![j].ids = Tail(@), ![j].pc = "put", ![j].todo = Copies(closest)]
  /\ UNCHANGED <<otherThanJob, table, file, misses>>

\* sendPutRecord: the dial fails, or the peer's answer goes into the table on
\* the peer's account; the records are not looked at for their age.
sendPutRecord(j) ==
  /\ JobAt(j, "put") /\ job[j].todo # <<>>
  /\ LET peer == Head(job[j].todo) IN
     \/ /\ job' = [job EXCEPT ![j].pc = "record", ![j].ok = FALSE]
        /\ UNCHANGED table
     \/ /\ \E answer \in Answers :
             Becomes(AddPeers(Table, answer, [i \in DOMAIN answer |-> peer.id]))
        /\ job' = [job EXCEPT ![j].pc = "record", ![j].ok = TRUE]
  /\ UNCHANGED <<otherThanJob, file, misses>>

\* The peer for which RecordSuccess records a success, if there is one.
Cleared(onion) ==
  LET first == FirstWith(rt, onion)
  IN IF BucketsWith(rt, onion) = {} THEN {} ELSE {rt[first.bucket][first.place].id}

RecordOutcome(j) ==
  /\ JobAt(j, "record")
  /\ LET peer == Head(job[j].todo) IN
     /\ rt' = IF job[j].ok THEN RecordSuccess(rt, peer.onion)
                           ELSE RecordFailure(rt, peer.onion)
     /\ misses' = [i \in Ids |->
                     CASE ~job[j].ok /\ peer.onion \in OnionsOf[i] ->
                            Min({FailureThreshold, misses[i] + 1})
                       [] job[j].ok /\ i \in Cleared(peer.onion) -> 0
                       [] OTHER -> misses[i]]
  /\ job' = [job EXCEPT ![j].pc = "put", ![j].todo = Tail(@), ![j].ok = FALSE]
  /\ UNCHANGED <<otherThanJob, sources, file>>

IdentityDone(j) ==
  /\ JobAt(j, "put") /\ job[j].todo = <<>>
  /\ job' = [job EXCEPT ![j].pc = "next"]
  /\ UNCHANGED <<otherThanJob, table, file, misses>>

EvictUnreachable(j) ==
  /\ JobAt(j, "next") /\ job[j].ids = <<>>
  /\ rt' = EvictByFailures(rt, FailureThreshold)
  /\ job' = [job EXCEPT ![j].pc = "save"]
  /\ UNCHANGED <<otherThanJob, sources, file, misses>>

(***************************************************************************)
(* Save: the list of entries is copied under the lock, their fields are    *)
(* read without it, so each may be the old or the current one; then the    *)
(* file is truncated and written in place.  A write into a file that       *)
(* another Save wrote after this one's truncation leaves a tail of it.     *)
(***************************************************************************)
Snapshot(j) ==
  /\ JobAt(j, "save")
  /\ job' = [job EXCEPT ![j].pc = "marshal", ![j].snap = Saved(rt)]
  /\ UNCHANGED <<otherThanJob, table, file, misses>>

Current(e) ==
  IF Present(rt, e.id) THEN [EntryOf(rt, e.id) EXCEPT !.fails = 0] ELSE e
OpenFile(j) ==
  /\ JobAt(j, "marshal")
  /\ \E late \in SUBSET DOMAIN job[j].snap :
       job' = [job EXCEPT ![j].pc = "write",
                 ![j].snap = [i \in DOMAIN @ |-> IF i \in late THEN Current(@[i]) ELSE @[i]]]
  /\ file' = Torn
  /\ UNCHANGED <<otherThanJob, table, misses>>

WriteFile(j) ==
  /\ JobAt(j, "write")
  /\ \/ file' = job[j].snap
     \/ /\ file # Torn /\ Len(file) >= Len(job[j].snap)
        /\ file' = Torn
  /\ job' = [job EXCEPT ![j] = IF job[j].booted THEN IdleJob
                               ELSE [IdleJob EXCEPT !.pc = "boot"]]
  /\ up' = TRUE
  /\ UNCHANGED <<idents, crashes, active, events, call, manager, table, misses>>

\* The rest of wireSubsystems: announce when the file held any peer.  In a mix
\* without the start-up job its announcement is over.
StartupAnnounce ==
  /\ JobAt(Startup, "boot")
  /\ job' = [job EXCEPT ![Startup].pc = IF Startup \in active /\ Size(rt) > 0 THEN "announce" ELSE "idle"]
  /\ UNCHANGED <<otherThanJob, table, file, misses>>

JobStep(j) ==
  \/ Announce(j) \/ NextIdentity(j) \/ sendPutRecord(j) \/ RecordOutcome(j)
  \/ IdentityDone(j) \/ EvictUnreachable(j) \/ Snapshot(j) \/ OpenFile(j) \/ WriteFile(j)

-----------------------------------------------------------------------------
(* The daemon dies and starts again: what is in memory is lost.            *)

Crash ==
  /\ up /\ Startup \in active /\ crashes < MaxCrashes
  /\ crashes' = crashes + 1
  /\ up' = FALSE
  /\ rt' = EmptyTable
  /\ sources' = [i \in Ids |-> NewTracker]
  /\ idents' = {}
  /\ job' = [j \in Jobs |-> IdleJob]
  /\ call' = [c \in Calls |-> IdleCall]
  /\ callback' = "general" /\ browser' = None /\ seen' = {} /\ peerCh' = <<>>
  /\ misses' = [i \in Ids |-> 0]
  /\ UNCHANGED <<file, active, events>>

\* A file that is missing or does not parse gives a fresh table.
OnDisk == IF file \in {None, Torn} THEN <<>> ELSE file
Restart ==
  /\ ~up /\ job[Startup].pc = "idle"
  /\ rt' = Evict(Load(OnDisk))
  /\ IF rt' # Load(OnDisk)
       THEN /\ job' = [job EXCEPT ![Startup].pc = "save", ![Startup].booted = FALSE]
            /\ up' = FALSE
       ELSE /\ job' = [job EXCEPT ![Startup].pc = "boot"]
            /\ up' = TRUE
  /\ UNCHANGED <<sources, idents, file, crashes, active, events, call, manager, misses>>

-----------------------------------------------------------------------------
(* FindPeer: mDNS through a callback of its own, then the DHT.             *)

CallAt(c, pc) == c \in active /\ up /\ call[c].pc = pc
otherThanCall == <<idents, file, daemon, events, job, misses>>

FindPeer(c) ==
  /\ CallAt(c, "idle")
  /\ callback' = c
  /\ call' = [call EXCEPT ![c].pc = "mdns"]
  /\ UNCHANGED <<otherThanCall, table, browser, seen, peerCh>>

FoundOnLan(c) ==
  /\ CallAt(c, "mdns") /\ call[c].result # None
  /\ call' = [call EXCEPT ![c].pc = "found"]
  /\ UNCHANGED <<otherThanCall, table, manager>>

\* The context of the call ends while it waits or between two queries.
CallCancelled(c) ==
  /\ \/ CallAt(c, "mdns")
     \/ CallAt(c, "query") /\ call[c].todo # <<>>
  /\ call' = [call EXCEPT ![c].pc = "failed"]
  /\ UNCHANGED <<otherThanCall, table, manager>>

MutMdnsTimeout(c) ==
  /\ CallAt(c, "mdns") /\ callback = c
  /\ call' = [call EXCEPT ![c].pc = "restore"]
  /\ UNCHANGED <<otherThanCall, table, manager>>
MdnsTimeout(c) ==
  /\ CallAt(c, "mdns")
  /\ call' = [call EXCEPT ![c].pc = "restore"]
  /\ UNCHANGED <<otherThanCall, table, manager>>

RestoreCallback(c) ==
  /\ CallAt(c, "restore")
  /\ callback' = "general"
  /\ call' = [call EXCEPT ![c].pc = "lookup"]
  /\ UNCHANGED <<otherThanCall, table, browser, seen, peerCh>>

Lookup(c) ==
  /\ CallAt(c, "lookup")
  /\ \E closest \in FindClosest(rt, Target[c], K) :
       LET local == {p \in ToSet(closest) : p.id = Target[c] /\ ~isExpired(p)}
       IN call' = [call EXCEPT ![c].pc = IF local # {} THEN "found" ELSE "round",
                               ![c].result = IF local # {} THEN Target[c] ELSE None]
  /\ UNCHANGED <<otherThanCall, table, manager>>

LookupRound(c) ==
  /\ CallAt(c, "round") /\ call[c].round < LookupMaxIterations
  /\ \E closest \in FindClosest(rt, Target[c], K) :
       call' = [call EXCEPT ![c].pc = "query", ![c].round = @ + 1, ![c].progressed = FALSE,
                            ![c].todo = Copies(closest)]
  /\ UNCHANGED <<otherThanCall, table, manager>>

SkipQueried(c) ==
  /\ CallAt(c, "query") /\ call[c].todo # <<>>
  /\ Head(call[c].todo).id \in call[c].queried
  /\ call' = [call EXCEPT ![c].todo = Tail(@)]
  /\ UNCHANGED <<otherThanCall, table, manager>>

\* sendFindNode: an error, the record asked for, or records for the table,
\* on the account of the peer that sent them.
QueryPeer(c) ==
  /\ CallAt(c, "query") /\ call[c].todo # <<>>
  /\ Head(call[c].todo).id \notin call[c].queried
  /\ LET peer == Head(call[c].todo)
         asked == [call[c] EXCEPT !.todo = Tail(@), !.queried = @ \cup {peer.id},
                                  !.progressed = TRUE]
     IN \/ /\ call' = [call EXCEPT ![c] = asked]
           /\ UNCHANGED table
        \/ \E answer \in Answers :
             LET peers == Unexpired(answer)
                 at == SelectInSeq(peers, LAMBDA p : p.id = Target[c])
                 new == IF at = 0 THEN peers ELSE SubSeq(peers, 1, at - 1)
             IN /\ call' = [call EXCEPT ![c] =
                     IF at = 0 THEN asked
                     ELSE [asked EXCEPT !.pc = "found", !.result = Target[c]]]
                /\ Becomes(AddPeers(Table, new, [i \in DOMAIN new |-> peer.id]))
  /\ UNCHANGED <<otherThanCall, manager>>

RoundDone(c) ==
  /\ CallAt(c, "query") /\ call[c].todo = <<>>
  /\ call' = [call EXCEPT ![c].pc = IF call[c].progressed THEN "round" ELSE "failed"]
  /\ UNCHANGED <<otherThanCall, table, manager>>

LookupExhausted(c) ==
  /\ CallAt(c, "round") /\ call[c].round = LookupMaxIterations
  /\ call' = [call EXCEPT ![c].pc = "failed"]
  /\ UNCHANGED <<otherThanCall, table, manager>>

CallStep(c) ==
  \/ FoundOnLan(c) \/ MdnsTimeout(c) \/ RestoreCallback(c) \/ Lookup(c) \/ LookupRound(c)
  \/ SkipQueried(c) \/ RoundDone(c) \/ LookupExhausted(c)

-----------------------------------------------------------------------------
(* mDNS: the browser reads the callback, then calls it.                    *)

Browse ==
  /\ Event
  /\ up /\ browser = None /\ active \cap Calls # {}
  /\ \E id \in LanPeers : browser' = [peer |-> id, cb |-> callback]
  /\ UNCHANGED <<idents, file, daemon, job, misses, table, call, callback, seen, peerCh>>

\* A call's callback offers the peer to its result channel of capacity one;
\* either callback emits a peer that was not seen, unless the channel is full.
InvokeCallback ==
  /\ browser # None
  /\ LET p == browser.peer
         c == browser.cb
         wanted == c # "general" /\ call[c].pc = "mdns" /\ call[c].result = None
                   /\ Target[c] = p
     IN /\ call' = IF wanted THEN [call EXCEPT ![c].result = p] ELSE call
        /\ seen' = seen \cup {p}
        /\ peerCh' = IF p \notin seen /\ Len(peerCh) < PeerChanBuffer
                     THEN Append(peerCh, p) ELSE peerCh
  /\ browser' = None
  /\ UNCHANGED <<otherThanCall, table, callback>>

ReceivePeer ==
  /\ peerCh # <<>>
  /\ peerCh' = Tail(peerCh)
  /\ UNCHANGED <<otherThanCall, table, call, callback, browser, seen>>

-----------------------------------------------------------------------------
Next ==
  \/ AgeEntry \/ WindowPasses \/ handlePutRecord
  \/ AddLocalIdentity \/ RemoveLocalIdentity
  \/ Bootstrap \/ EvictStale \/ StartupAnnounce
  \/ \E j \in Jobs : JobStep(j)
  \/ Crash \/ Restart
  \/ \E c \in Calls : FindPeer(c) \/ CallCancelled(c) \/ QueryPeer(c) \/ CallStep(c)
  \/ Browse \/ InvokeCallback \/ ReceivePeer

Spec == Init /\ [][Next]_vars

\* A goroutine of a call runs on and its timer fires.  Nothing is assumed of the
\* browser, the jobs, or the peers that are asked: sendFindNode reads the answer
\* with no deadline and does not watch ctx (dht.go:373), so QueryPeer may never
\* come.
FairSpec == Spec /\ \A c \in Calls : WF_vars(CallStep(c))

-----------------------------------------------------------------------------
(* Properties                                                              *)

WellFormed(t) ==
  \A b \in Buckets :
    /\ Len(t[b]) <= K
    /\ IsInjective([i \in DOMAIN t[b] |-> t[b][i].id])
    /\ \A e \in ToSet(t[b]) : e.id # Local /\ CommonPrefixLen(Local, e.id) = b

\* However handlers, lookups, announcements and a restart from disk interleave,
\* every peer is in the table once, in the bucket of its distance, no bucket
\* exceeds K, and the node itself is never listed (AddPeer, Load).
TableSound == WellFormed(rt)

\* A peer leaves a running table only when it is ancient, or when FailureThreshold
\* announcements to an onion address it came with failed with no success recorded
\* for it in between; announcements of several jobs, stale copies and changed
\* onions do not add up to less.  Entries are found by onion address, so of two
\* peers with the same one the first answers for both (RecordFailure,
\* RecordSuccess, EvictByFailures, Evict).
EvictedForCause ==
  [][crashes' = crashes =>
       \A id \in Known(rt) \ Known(rt') :
         EntryOf(rt, id).age = "ancient" \/ misses[id] >= FailureThreshold]_vars

\* A file that can be read gives back, after a crash at any point, exactly the
\* entries a Save wrote: Load, which neither checks for duplicates nor reports
\* a full bucket, loses and repeats nothing.
RestoreExact ==
  file \notin {None, Torn} =>
    WellFormed(Load(file)) /\ AllPeers(Load(file)) = ToSet(file)

\* A call waits for the answer of a peer.
Asking(c) ==
  /\ CallAt(c, "query") /\ call[c].todo # <<>>
  /\ Head(call[c].todo).id \notin call[c].queried

\* Every FindPeer call ends, also when another call replaced or removed its mDNS
\* callback, the table changes under its lookup, or no peer is known, unless a
\* peer it asks neither answers nor hangs up.
FindPeerEnds ==
  \A c \in Calls :
    (call[c].pc = "mdns")
      ~> (call[c].pc \in {"found", "failed", "idle"} \/ []Asking(c))
=============================================================================
