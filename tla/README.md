# Ensemble: verification project

Ensemble is a peer-to-peer messenger and service host: peers find each other
through Tor onion services and a DHT, authenticate with a three-step handshake,
exchange direct addresses, and then talk over libp2p streams (chat, files,
registered services). This directory holds TLA+ models of its core, the TLC
runs that check them on small instances, and TLAPS proofs of the results that
hold for instances of any size. Every definition that models code is listed in
`PROJECT.json` under `map` with the source lines it stands for.

## 1. Inventory

| Component | State | Operations | Talks to |
|---|---|---|---|
| request validation, `signaling/handshake.go` | `NonceCache.entries` (nonce -> time) | `ValidateConnRequest`, `Check`, `ValidateConnResponse`, `ValidateConnConfirm` | called by server and client handlers; one cache for all handlers |
| handshake server and client, `signaling/{server,client,ipexchange}.go` | one goroutine per stream; services by name with their contexts | `handleEnvelopeForService`, `RequestConnection` (retries), `ExchangeIPs`, `AddService`, `RemoveService`, `Stop` | Tor listener and dialer, contacts, `ConnectionRequest.Decision` channels |
| pending requests, `node/node.go` | `pendingReqs`: address -> request | `handleConnectionRequest`, `AcceptConnection`, `RejectConnection` | server handlers (channel), UI, API, event bus |
| ACL gate, `daemon/service_gate.go` | none (service manifest) | `serviceConnectionGate` | server handlers of registered services |
| sender and receiver, `filetransfer/{sender,receiver}.go` | window, retries, acknowledgements; pending offers, kept chunks | `OfferFile`, `sendChunks`, `handleIncoming`, `receiveChunks`, `AcceptFile`, `RejectFile`, `CancelTransfer` | one libp2p stream per transfer |
| chunker and Merkle tree, `filetransfer/{chunker,merkle}.go` | file, tree nodes | `ReadChunk`, `ChunkHash`, `BuildMerkleTree`, `Proof`, `VerifyProof` | sender and receiver |
| service registry, `services/registry.go` | `byName`, discovery, hooks | `Register`, `Unregister`, `SetDiscovery`, `SetOnRegister`, `SetOnUnregister` | Tor engine, discovery, signaling server, daemon |
| Tor engine, `tor/*.go` | onions by service name | `Start`, `AddOnion`, `RemoveOnion`, `Stop` | tor process |
| connector, presence, NAT, `transport/*.go` | peer table, lookup cache, failure counters, transfer slots | `Connect`, `Reconnect`, `ReconnectWithFallback`, `Disconnect`, eviction, `StartAutoReconnect`, `PingPeer` | signaling, libp2p host, discovery |
| routing table, `discovery/routing.go` | k-buckets, insertions per source, file | `AddPeer`, `Evict`, `EvictByFailures`, `RecordFailure`, `RecordSuccess`, `FindClosest`, `Save`, `Load` | DHT, manager |
| DHT, manager, mDNS, `discovery/{dht,manager,mdns}.go` | local identities, mDNS callback, peers seen, peer channel | `FindPeer`, `AddNode`, `Announce`, `Lookup`, `Bootstrap`, FIND_NODE and PUT_RECORD handlers, announce loop | signaling server (DHT envelopes), connector, daemon |
| event bus, `node/events.go` | subscriber channels, a forwarder per type | `Publish`, `Subscribe`, `SubscribeAll` | all publishers; interface, API |
| API server and event stream, `api/{server,events}.go` | none of its own | one method per call; `streamEvents` | node, bus, gRPC clients |
| register stream, `api/registerservice.go` | event queue, parked requests, forwarder | `RegisterService`, `runActions`, `forwardEvents`, `emit` | registry, gRPC client |
| chat, `chat/*.go` | bounded history per peer | `SendMessage`, `handleIncoming`, `ingest` | libp2p streams, event bus |
| user interface, `ui/**` | the `App` value: screen, prompts, lists | `Update`, `handleEvent`, `handleKey`, commands; `DirectBackend`, `GRPCBackend` | node, or API server |
| contacts, `contacts/store.go`; keystore, `identity/keystore.go`; tor provider, `tor/provider.go` | maps in memory, files in the data directory | `Add`, `Remove`, `Save`, `Load`; `GetOrGenerate`; `EnsureTor` | handshake, API, daemon |
| daemon, `daemon/daemon.go`, `main.go` | life-cycle | `Start`, `startTor`, `wireSubsystems`, `Stop` | all of the above |

What is hard to test in it: handlers that share a cache, a map or a channel
while a user, a timer and a context all may end their wait; requests that are
replayed, duplicated or stamped by a clock that is off; a client that times out
and retries while its first attempt is still being decided; a sliding window
with retransmissions over a stream whose two directions are bounded; a file
that changes while it is read again; start-up that installs hooks while
services already register; announcements, lookups and saves on one routing
table; events, answers and prompts that overtake each other on the way to the
user; a process that dies between truncating a file and writing it. `PROJECT.json` lists each such place under
`hazards`, with the properties that would notice it going wrong.

## 2. Modules

| Module | Models | Proved about |
|---|---|---|
| `AtMostOnce` | abstract: a request is admitted once, a second time only when it came stamped at the edge of its freshness | |
| `ReplayGuard` | `ValidateConnRequest` and `NonceCache` | `ReplayGuardProofs` |
| `Handshake` | server handler, client, connector handshake, IP exchange, pending requests, ACL gate | `HandshakeProofs` |
| `FileDelivery` | abstract: consent, then a verified copy, then success | |
| `FileTransfer` | sender, receiver, stream, accept and reject calls | `FileTransferProofs` |
| `Merkle` | the hash tree, with SHA-256 as a free constructor | `FileTransferProofs` |
| `FileChunks` | chunker, tree, proofs and reassembly at byte level; extends `Merkle` | `FileTransferProofs` |
| `ServiceRegistry` | registry, Tor engine's onions and key files, DHT's local identities, signaling server's services, the daemon's wiring and stop | `ServiceRegistryProofs` |
| `Connector` | peer table, connect and reconnect calls, NAT cascade, disconnect, eviction, auto-reconnect loop | `ConnectorProofs` |
| `RoutingTable` | the k-bucket table as operators on a value | `DiscoveryProofs` |
| `Discovery` | DHT, manager and mDNS over `RoutingTable`: announcing jobs, `FindPeer` calls, handlers, saves, a restart | `DiscoveryProofs` |
| `EventBus` | the bus as one `SubscribeAll` subscriber sees it | `FrontendProofs` |
| `Chat` | chat sends and receipts, the history; extends `EventBus` | `FrontendProofs` |
| `Frontend` | the terminal interface with both backends, the API's event stream and the node's side of the calls; extends `Chat` | `FrontendProofs` |
| `DataDir` | keystore, contacts store and tor provider with their files | `DaemonProofs` |
| `RegisterStream` | `RegisterService` calls, their forwarders and handlers | `DaemonProofs` |
| `Daemon` | the process over `DataDir` and `RegisterStream`: start, provisioning, stop, crash | `DaemonProofs` |

`MC*` modules give the constants their values for TLC.

### ReplayGuard

`now` is the responder's clock. `ValidateConnRequest` reads it three times:
`CheckAge` (`time.Since`), `CheckFuture` (`time.Now`) and `CheckNonce` (inside
`NonceCache.Check`, under the mutex, after the pruning loop); `Tick` may come
between any two of them. One call lasts at most `MaxDelay` between its first
and its last read; nothing else is assumed of the schedule. The initiator's
clock is off by up to `MaxSkew`. `sent` never shrinks: every request may be
delivered again at any time, to any handler. The constants relate as in the
code: `NonceCacheTTL` (10 min) is exactly twice `TimestampFreshness` (5 min). A
stamp may be 5 minutes ahead when first seen and 5 minutes behind when seen
again, so the retention is just enough for a validation that takes no time. A
real one takes some: a copy can pass the age check in the last moment of its
freshness and reach the cache, a moment later, when the entry has just been
pruned. The code then admits it a second time. `Timely` names the requests for
which this cannot happen, those not stamped ahead by all but the duration of a
validation of the 5 minutes; `NoReplay` says that they pass once, the others at
most twice, and `AtMostOnce` is stated accordingly.

### Handshake

One record per initiator (`call`), one program counter per stream (`handler`),
two FIFO wires per stream. Every step of `handleEnvelopeForService` between two
blocking points is an action: `ReadRequest`, `LookupContact`, `AskUser` (the
callback), `TakeDecision` or `AskTimeout` (the select), `SendAccept` or
`SendReject`, `ReadConfirm`, `SendIPs`, `FinishExchange`. `Decide` is
`AcceptConnection`/`RejectConnection` on `pendingReqs`. The environment breaks
streams, redelivers old requests on new streams, adds and removes contacts,
cancels services, and lets dials land on any service (a stale lookup). An
address stands for its key, a signature for the pair of signer and nonce;
`seen` abstracts the nonce cache by what `ReplayGuard` proves of it: `LetThrough`
admits a nonce once and, whoever's clock it may be that ran ahead, once more.
None of the properties needs the cache; the proofs do not mention `seen`.
`ValidateConnRequest` may also refuse a request for its stamp at any time.

### FileTransfer, FileDelivery

`spc` and `rpc` are the program counters of `OfferFile` and `handleIncoming`;
`inFlight` wraps at `MaxUint32` as the code's `uint32` does. The stream is two
bounded FIFO queues. A chunk on the wire is its index and whether its bytes are
still those that were hashed: `sendOneChunk` reads the file again each time.
`Faults` selects what may go wrong (broken stream, I/O deadlines, edits of the
file, cancellation, disk errors, refused offers). `FileDelivery` is what a
transfer promises: nothing is held before consent, success is reported only
after the receiver holds a verified copy, and a saved file is a held one. Note
what it does not promise: the sender reports success when the receiver's final
write to disk fails, because the last read of `OfferFile` counts as success
whatever it returns.

### Merkle, FileChunks

`Sha256` is a free constructor, so two digests are equal only if they are
digests of the same thing. `BuildMerkleTree` is the code's heap-indexed array
with odd levels padded to a power of two; `RootOf` is the recursive-by-halving
reference it is compared with. The loops of the code are recursive functions
over their iterations: `Pow2` the doubling of `size` and `leafStart`, `Above`
the halving of `pos`, and `current` in `VerifyProof` the hash at each level. The
receiver checks neither the length of a proof nor that an index is below the
number of chunks. `ChunksInit`, `ChunksNext` and `ChunksSpec` are the parts of
`FileChunks`' specification.

### ServiceRegistry

Each `RegisterService` call is a stream that registers the name of its manifest
and unregisters it when it ends; the daemon is one more stream, for the node
service. Every critical section of `registry.go`, `engine.go` and `server.go` is
a step, so another call may come between the look at a map and the insertion.
A stream also names the record it creates, its listener and the onion key tor
generates for it; a key already on disk is called by its service's name, and
the tor process refuses a key it already serves. `byName`, `onions`,
`localIds` and `signal` are the four tables that must agree; `disc`,
`onRegister` and `onUnregister` are what the daemon has installed in the
registry so far. `SetDiscovery` and `SetOnRegister` install and take a list in
one critical section and then work through the list outside it. `Early` are the
streams that may come before the daemon is done: the API server is up by then.
The model has no early stream that takes the name of the node service itself.

The point of the model: rolling back and unregistering go by name, in four
tables with four locks. What keeps them from hitting another call's service is
that the engine's onion map works as the lock of a name, from `InsertOnion` to
`RemoveOnion` (`OnionIsLock`).

### Connector

A call names the `PeerConnection` it creates, so `peers` maps addresses to
calls. `c.mu` protects the map but not the fields of an entry: `setState` writes
them unlocked while other calls read them. `link` is libp2p's view. Discovery,
dial, handshake and exchange are one wait (`Negotiate`) that may fail anywhere;
`Handshake` models what happens inside it. Before it comes `Lookup`
(`cachedOrFreshLookup`), which answers from the cache, asks discovery, or waits
there for good. The NAT cascade is a step per
strategy, because a failed hole punch closes every connection to the peer,
also another call's. `order` is the order of `LastActivity`. `Tick`,
`PingAnswered`, `PingMissed` and `StartReconnect` are the loop of
`StartAutoReconnect`, which pings a list of copies taken under the lock.

### RoutingTable, Discovery

An identifier is a tuple of bits, an address stands for its identifier, and an
entry keeps of `LastSeen` whether it is fresh, expired (older than the record
lifetime) or ancient (older than the maximum age of the table). A table is a
value; every access that the code makes under `rt.mu` is one step. `Keep` is the
filtering loop of `Evict`, `EvictByFailures` and `Load`, `AddPeers` the loop of
`AddPeer` over an answer. `sort.Slice` is not stable, so `FindClosest` gives the
set of lists that it may return, and a step takes any of them.

`Jobs` are the goroutines that announce and then save: the daemon's start-up
pass, the announce loop and `AddNode`. Each walks over the local identities and,
for each, over copies of the closest peers, with one step per peer
(`sendPutRecord`, then `RecordOutcome`), so a peer may move, leave or come back
between the copy and its outcome. Saving is three steps: the snapshot, the
truncation and the write (`Snapshot`, `OpenFile`, `WriteFile`). `Calls` are
`FindPeer` calls: they install their mDNS callback, wait, restore what they found
installed before, and go on to the DHT lookup. An exchange with a peer is a step
that answers with some list of records, fails, or never comes. Records are not
signed, so nothing keeps two of them from naming one onion address:
`BucketsWith` and `FirstWith` are the search that then finds the first entry for
both. `misses` is a history variable: failed announcements to an onion address a
peer came with since a success that was recorded for its entry. The daemon
never calls `Manager.Start`, so in production nobody browses and `FindPeer`
waits its three seconds in vain; the model lets `Browse` happen, as the code of
the backend does once started.

### EventBus, Chat, Frontend

`EventBus` has one subscriber, because `Publish` treats each alone: a channel
and a forwarder per type and the merged channel. `inflight` is a history
variable: the events the bus accepted and `handleEvent` has not seen.

`Chat` follows one stream per send; the peer runs the same code. The peer
records the message before it acknowledges, so a lost ACK leaves a message
that was delivered and reported as failed.

`Frontend` is `ui.App`: `Update` is a function from the value and a message to
the next value and the commands it returns. Commands run in goroutines of their
own, so `cmds` and `msgs` are bags and their results arrive in any order; the
keys of the user come between any two messages. A prompt replaces whatever
screen is shown. In `direct` mode commands call the node; in `attached` mode
they pass through `GRPCBackend` and `api.Server`, which may fail, and events
through the server's stream, which leaves out what it cannot marshal, and
`GRPCBackend.Subscribe`. `yes`, `granted` and `finished` are history variables.

An incoming file is a stream to the `Receiver`, `Offers`; the transfer id it is
parked under, `IdOf`, is chosen by its sender and may be another file's too.
`OfferArrives` puts the offer in the place of one with its id, `OfferDecided` and
`OfferTimeout` end the wait for a decision, and `OfferForgotten` removes whatever
is under the id by then. `AcceptFile` looks the id up when it runs, leaves the
entry where it is and sends on a channel of one place: a second call waits behind
the first (`Blocks`), for good if the handler has stopped waiting.
A behaviour draws one of `Mixes`: how the interface runs, what the node holds,
how often each thing from outside happens and which keys are pressed.

### DataDir, RegisterStream, Daemon

`DataDir` has a file as a value or `Absent`, `Empty` (truncated, the process
died) or `Torn` (two writers at once). `os.WriteFile` is two steps, truncation
and write. A key is a number, an encrypted file the pair of key and passphrase;
the bundle is whole, part, old or absent. `used`, `acked` and `mishap` are
history variables: the first key a service was given; the contacts whose
addition was reported; whether some save failed, was cut short or overlapped
another. Contacts are a set of addresses: `Save` marshals entries that another
call may be updating in place, a data race on their fields that the
abstraction to addresses leaves out.

`RegisterStream` has, per call, the action loop, the forwarder and the handlers
that the call puts into the registry. Nothing in the daemon calls these
handlers yet; the model lets them be called the way `services/service.go`
describes. A client may close its half of the stream and go on reading
(`HalfClose`), which ends the action loop as its leaving does. Between the look
at the registry and the parking of a request (`HandlerCalled`, `Park`) the stream
may come to its end. A call whose send of ServiceRegistered failed returns without
closing the queue (`registerservice.go:175`), so `Closed` asks whether there was
a forwarder.

`Daemon` runs `Start` step by step, every step of it a place where the process
may die or an error may end it, `startTor`'s goroutine beside it, then API calls
and streams, and `Stop`. `Rpcs` are the calls that neither change contacts nor
register a service: Subscribe, AcceptFile, AddNode and the rest, which
`GracefulStop` waits for and which nothing in the model ends. `Crash` may come anywhere; `Start` begins again on what
is on disk. A behaviour draws one of `Mixes` again.

## 3. Runs

| Run | Instance | Shows |
|---|---|---|
| `replay_guard` | 2 handlers, 2 nonces (one malformed), freshness 2, TTL 4, delay 1, skew 3 | a request is admitted once, at the edge of its freshness twice, never three times; refused requests leave no trace in the cache; `AtMostOnce` is implemented; all clock positions around both boundaries occur |
| `handshake_safe` | the node service with user and contacts, a service with an allowlist that answers for others too, a retrying client, a connector that may claim the client's address, 2 streams | addresses go only to contacts and approved peers that proved to be the ones, one approval per stream; both ends agree on who talks to whom; a waiting handler can be answered unless a later request of its address displaced it |
| `handshake_live` | 1 client, 3 services (user, allowlist, no callback), 2 streams | clients return; cancelled and gated handlers return |
| `file_transfer` | 3 chunks, window 2, a stream that holds one chunk, 1 retry, 1 caller; breaks, edits, cancellation, refusals and disk errors, but no I/O deadline ever fires | window, integrity, completion, `FileDelivery`; both sides end without the help of deadlines; an accepted file is saved and reported unless the connection, the caller or an edit disturbed it |
| `file_chunks` | all files of at most 5 bytes over 2 byte values, chunks of 1 and 2 | chunking, tree, proofs and reassembly deliver exactly what was hashed |
| `registry_wired` | the daemon, 3 streams for one name, 1 for the node's; every error, shutdown | the four tables agree about every name on which no call is in progress; who is registered keeps record and onion |
| `registry_startup` | 3 streams for one name while the daemon is wiring; every error | who is registered when the daemon is up is advertised and served; an existing onion key stays in use |
| `connector` | 2 addresses, room for 1 peer, 2 or 3 calls of every kind | entries of finished calls are truthful, eviction spares connections in progress, reconnections end unless a lookup never returns, dead connections are replaced |
| `discovery` | 4 peers in 3 buckets of 2, one with two onions, two with the same; 5 combinations of jobs and calls; 1 crash | the table stays well-formed, a readable file restores it exactly, peers are evicted only for cause, `FindPeer` ends unless a peer it asked never answers |
| `frontend` | 2 peers, 3 offers, two of them with one transfer id, 2 sends, channels of one place; 10 mixes | accepted events arrive once and in order of their type; nothing is granted without a consent; ticks and completed transfers are backed by results; what the history says was sent the peer has, once; a request reaches the user |
| `frontend_attached` | the same | **violation**: attached, a file offer never reaches the user |
| `daemon` | 2 services, 2 contact calls, 2 streams, 3 handlers, a queue of one, another call that may stay open; mixes with up to 3 starts and 2 crashes | identities survive, tor is whole, saved contacts stay, nobody waits undecided on an ended stream that had a forwarder, `Stop` returns once clients and calls are gone |

Bounds. Two handlers are enough for every race on the cache, whose operations
lock it. Three chunks and a window of two make the window fill, close and open
again with a retransmission beside fresh chunks, and a forward direction of one
place blocks the sender; the proofs remove the bound,
and hold for any number of callers and with deadlines. Three streams for one
name give a winner, a loser and one that comes while the winner leaves; the
proofs remove that bound too. In the connector's run `Mixes` lists which
operations are called together. Five leaves give trees of one, two, four and
eight slots with and without padding. Two streams give a request and its
replay, or two competing requests, or an attempt and its retry. Three peers
compete for a bucket of two, and a peer with two onions is enough for an
outcome to miss its entry, two peers with one onion for it to hit another's;
two jobs save at once; two calls replace each
other's callback. `MaxEvents` bounds ticks, requests and ageings per
combination. Channels of one place are full after one event, so every wait for
room and every dropped event occurs. Two crashes can hit a start and its
repetition. Stream names are interchangeable, so `handshake_safe` uses
symmetry, and so does `replay_guard`; the runs with liveness do not.

`CHECK_DEADLOCK FALSE` is set everywhere: a finished handshake or transfer, an
exhausted supply of streams, keys or starts is a legitimate end.

Sizes, in distinct states: `replay_guard` 700 thousand, `handshake_safe` 4.5
million, `handshake_live` 320 thousand, `file_transfer` 84 thousand, `connector`
250 thousand, `discovery` 360 thousand, `frontend` 260 thousand, `daemon` 550
thousand. The longest takes about two minutes.

Fairness. Weak fairness of the goroutines' own steps: the Go scheduler runs
what can run. None of the user, the network, callers of the API, crashes or
faults. The deadline of an attempt of `Client.RequestConnection` belongs to the
client's steps, because the code sets one on every stream; the connector's
handshake has only the context's deadline, which may be absent, so
`ClientReturns` is stated for clients alone. The handler's read of CONN_CONFIRM
has no deadline: a peer that keeps the stream open and silent keeps the
goroutine. The modelled initiators confirm or hang up. In `Connector` the
monitor is fair, and so are the reconnections it starts, whose context has a
deadline, but not their `Lookup`: the read of a DHT peer's answer (`dht.go:373`)
has no deadline and does not watch the context. `ReconnectionEnds` therefore
allows for a reconnection that stays in its lookup; calls of `Connect` run under
their caller's context and are not fair. In `Discovery` the steps of `FindPeer`
calls are fair except `QueryPeer`, for the same reason, and `FindPeerEnds` allows
for a call that waits for a peer it asked. In `Frontend` the interface, the
backend, the bus and the chat's deadlines are fair, and the receiver's handlers
once they can go on. In `Daemon` the process is; `StopReturns` assumes that the
clients of register streams leave and the other calls return in the end, because
`GracefulStop` waits for all of them without a deadline.

### Where code and documentation disagree

`frontend_attached`: the comment at `internal/ui/backend.go:58` says that the
interface works identically in process and attached. The payload of a file
offer event is the `FileOffer` itself, which holds a channel; `eventToProto`
cannot marshal it and `forwardToStream` passes over the event. The offer then
times out at the receiver with nobody having seen it. (Other differences of
the same kind: chat messages and connection states arrive attached as values
that `handleEvent` does not recognise, and `peer_online` is missing from
`eventNameTypes`. They are part of the model, see `Usable`.)

The models also show, without a run of their own:

* The responder's public key goes out with CONN_RESPONSE, before CONN_CONFIRM is
  read, and to whoever names a contact's address (`server.go:301-305`), while
  `src/README.md:149` has keys go to contacts and approved peers only and the
  next line has "No key material until both sides are verified." What holds is
  said of the addresses, which follow the confirmation (`AddressesToApproved`).
* The retention of a nonce leaves nothing for the duration of a validation: see
  `ReplayGuard` above, and "NonceCache provides replay protection" at
  `handshake.go:27`.
* The comment at `registerservice.go:382` promises `OnConnectionRequest` an answer
  on disconnect. A request that parks after `dropAll` on a stream whose send of
  ServiceRegistered had failed gets none; its caller's context ends it.
  `StreamSettled` makes this exception and no other.
* `Register` inserts the record in one critical section and reads `onRegister` in
  a later one. When `SetOnRegister` installs the hook and takes its list in
  between, the replay wires the service, `Register`'s own call of the hook fails
  because the service exists, and a live service is rolled back
  (`registry.go:126`), which the comment at `registry.go:198` rules out. The
  signaling entry stays behind with a closed listener, so the name cannot be
  registered again until the daemon restarts.
* `AddOnion` writes a generated key to disk before its second look at the map
  (`engine.go:271`). Of two first registrations of a name the loser closes its
  onion but may have written last; the next registration loads a key the
  service never had, while `engine.go:290` promises the same address. With a
  key on disk the promise holds (`KeyedAddressStable`, proved).

### Remarks

Handshake, registry, connector, transfers:

* A second request from one address replaces the first one's entry in
  `pendingReqs`; the first handler then waits until its service is cancelled
  (`Reachable` says this is the only way to become unreachable).
* A client that leaves while the daemon is still wiring can leave traces: the
  replay of `SetDiscovery` or `SetOnRegister` may come after its removal, and
  before `SetOnUnregister` nobody removes the signaling entry. `Coherent` is
  therefore stated for streams that come after start-up.
* `Connector.MaxPeers` bounds nothing under concurrency: entries that are not
  connected are not evicted, so two `Connect` calls at the limit both stay, and
  failed entries keep counting. `Disconnect` during a `Connect` leaves a
  connection without an entry. The monitor's failure counter survives a
  disconnection, so that a new connection may be replaced after one missed ping.
* The Decision channel of an offer has one slot. One call always returns; of two
  calls that both found the offer, the second blocks for good if the handler
  has given up in the meantime, and `Daemon.Stop` with it.
* A transfer id is the sender's choice. A second offer with the id of one that is
  shown takes its entry (`receiver.go:217`), and a yes under way accepts the file
  that nobody saw; the handler that is done first removes the other's entry
  (`:234`), and the other can no longer be answered. `ConsentBacksGrant` is
  therefore about ids: as many files are accepted under an id as the user said
  yes to prompts with it.

Discovery:

* `RecordSuccess` and `RecordFailure` go by onion (`routing.go:260`): a success
  at an onion the peer has left since is not recorded for it. Of two peers with
  one onion the first entry takes the failures and successes of both.
  `EvictedForCause` counts what is recorded, by onion.
* A `FindPeer` whose callback another call replaced misses what mDNS sees and
  goes on to the DHT after its three seconds.
* Overlapping saves may leave a file that cannot be read; the daemon then starts
  with an empty table. `MaxPerSource` is never given back when a peer leaves.
  `Bootstrap` returns the number of records received, not of peers that are
  new, and nobody reads `PeerChan`, so it fills up and stays full.

Interface:

* Events of different types may overtake each other; those of one type do not.
* A prompt that comes up over the splash screen returns to it, and the splash
  screen is left only by `maybeTransition`, which nothing calls any more once
  identity and Tor are ready. The same happens when Tor becomes ready between
  the status query and the subscription.
* A second prompt over a first has the first as its previous screen, so the
  answer leads back to a prompt that was already answered; an answer that comes
  back late, or a form that is saved, dismisses whichever prompt is shown.
  Consent is still per peer and per transfer id: `ConsentBacksGrant`.
* Acknowledgements and finished transfers are matched by position, so the tick
  may stand at another message than the one acknowledged; `TicksBacked` says the
  number is right.
* When the stream breaks, the chain of events ends without a message and nobody
  subscribes again; the subscription stays in the bus. The comment at
  `events.go:69`, that the channel is closed on cancellation, does not hold.
* The cursor of the contact list is not moved when the list shrinks; f or enter
  then indexes past the end and the interface panics (`Panic`).

Daemon and data directory:

* `EnsureTor` runs inside `Start`: a slow download keeps the API from coming up.
* The registry is handed to the API server only if the server exists when Tor
  becomes ready (`daemon.go:238`); otherwise `RegisterService` stays
  unimplemented until a restart.
* A key file that was cut short makes `Start` fail; it is never replaced by a new
  identity, which is what `IdentityStable` is about. Contacts have no such
  protection: a save that is cut short loses the list, and of two overlapping
  saves the older may win (`mishap` in `ContactsDurable`).
* `emit` on the queue of a stream that has ended panics; nothing in the daemon
  calls `emit`'s callers yet.
* `Stop` during the wiring leaves the reconnection loop and the signaling server
  to the end of the process.

## 4. Proofs

Every theorem below holds for all values of the constants that satisfy the named
assumptions of the modules, and every inductive invariant was checked by TLC on
the instance of a run before it was proved. No assumption bounds a set or a
counter. Some say only that a mark such as `None` or `Absent` is not one of the
values it stands apart from (`MarksAssumption`, parts of `HandshakeAssumption`,
`ConnectorAssumption` and `RegistryAssumption`); the others are relations the
code's own constants have.

`ReplayGuardProofs`. `NoReplay` is not inductive: it says nothing of the cache.
`ReplayInv` adds that every admitted nonce is either in the cache with the time of
its last admission or was pruned because that is longer than the retention ago,
that a handler which has passed the age check did so at most `MaxDelay` ago, that
a stamp is at most `TimestampFreshness` ahead of the first admission, and that a
second admission came after the first entry had expired. A third would then come
more than two retentions after the first, too late for the age check. From
`ReplayAssumption` and `RetentionAssumption` (a retention of twice the freshness,
validations not longer than it) follow `ReplayInvariant`, `ReplayProtection` and
`ReplayRefinement` (the guard implements `AtMostOnce`) for every number of
handlers and requests, every skew and every schedule. `RefusedForgotten` needs
only that the entries are those of admitted requests.

`HandshakeProofs`. The properties speak of two ends that never see each other's
state, so the invariant is about the wires. `WireInv` says what a stream can carry
at all: towards the initiator a rejection, a response to the request this stream
carried if the handler has accepted, and addresses if it has sent them; towards
the responder proofs only from an initiator that dialled this stream and meant
this service. A check that passes therefore identifies the sender, although
addresses are claimed, lookups stale and requests redelivered (`EndsAgree`,
`ResponderAuthentic`). `ConsentInv` counts: the streams on which a decision of the
user has been taken, or still lies in the channel, are at most as many as the
user's approvals of that address; a stream that was confirmed belongs to the peer
its request named, and `GateInv` says that a handler which accepted without the
user had a contact or a manifest behind it. Together they are what
`AddressesEntitled` needs when one decision meets several handlers. `PromptInv` keeps the order of prompts and
gives `WaitersReachable`. `BaseInv` is the type invariant with what is known of a
stream that was opened.

`FileTransferProofs`. `TransferInv` is the conjunction of the type invariant
and named parts: `InFlightInv` (the counter equals what is on the wires plus the
one being retransmitted), `ResendInv` and `QuietInv` (where a chunk may be, and
that nothing is under way outside the loop), `AckedInv` (acknowledged chunks are
kept by the receiver and no longer under way). Without the first the counter
could wrap; without the last FILE_COMPLETE could overtake a chunk. From
`TransferAssumption` follow `TransferInvariant`, `WindowSafety`,
`IntegritySafety`, `CompletionSafety` and `TransferRefinement` (a transfer
implements `FileDelivery`) for every file size, window, retry limit, buffer size
and set of faults, deadlines included.

`ServiceRegistryProofs`. `RegistryInv` is the type invariant, `OnionIsLock`,
`OwnListener` (the listener fetched by name is the call's own) and `DaemonOrder`.
It is inductive for any number of streams and names, any set of errors and early
streams, and gives `OwnerKept`. `Coherent` needs more: `StartupInv` (what is
installed at which point of the wiring), `WiringInv` (a call's service is
advertised and served at exactly the steps where it should be, and an entry in
either table belongs to such a call) and `KeysInv` (each listening call has its
own key). Together they are `WiredInv`, inductive under the additional
hypothesis that no stream is early (`WiredInvariant`, `Coherence`); the remarks
above say why the hypothesis is there. `KeyedInv` gives `AddressStability`.
`LiveServicesWired` is the counterpart for early streams. `OrderInv` says what is
installed when and what the replay in progress still holds, `SignalInv` that a
live service is served or is going to be by that replay, `IdentityInv` the same
of its advertisement. Its hypothesis, `Keyed = Names`, is needed: when keys are
generated, a replay of `SetDiscovery` that comes late for a service that has left
advertises the key of the departed one in place of its successor's.

`ConnectorProofs`. `EntryTruthful` is about calls that have returned; `TableInv`
says of every call that is in the table that the entry is under its own address,
that it has not yet come to its end or shows its outcome, and that it does not
show as connected before. It also says what a `Disconnect` between its look-up
and its deletion has in hand. `RangeInv` keeps the retry and fallback loops within
their strategies. From them `ConnectorInvariant`, `TableTruthful` and, as an
action property, `ProgressKept`: eviction picks among connected entries, and an
entry in progress is not one of them.

`DaemonProofs`. Four invariants, each over the variables of one part and the place
of the main goroutine, so each is proved against every step of the process.
`KeyInv`: a key in use is on disk under the old or the new name, and a key being
written is not in use yet; a crash between truncation and write therefore leaves
a file that nobody has used (`IdentityKept`). `TorInv`: the version marker stands
only beside a whole bundle, and the marker is removed before an extraction begins
(`TorVerified`). `BookInv`: without a mishap one call saves at a time and its list
holds every contact that was reported (`ContactsKept`). `StreamInv`: the channel of
an undecided request is parked with its stream until the stream ends; one that
parks later finds the queue closed, or is on a stream that never had a forwarder
(`StreamsSettled`).

`FrontendProofs`. `BagsOK` says that `cmds` and `msgs` are bags and what their
members carry. For `HistoryBacked`, `ExchangeInv` relates the two ends of a chat
stream: before the peer has read the text it has recorded nothing and
acknowledged nothing, and an acknowledgement that names the message is one of a
recorded message. From them `FrontendInvariant` and `HistoryTrue`, in process and
attached, for every bound of the history.

`ConsentBacksGrant` compares two counters that are several asynchronous steps
apart. `ConsentInv` closes the gap: grants, answers emitted by a prompt, answers
on their way to `Update`, accepting calls under way and, for files, the yeses
waiting in the channels of the offers with that id (`Spent`, `Answered`) are
together at most the consents given, counted copy by copy in the bags.
`UpdateConsents` and `KeyConsents` are the lemmas that say which messages and keys
lead to such a command at all. Since a prompt shows what an event brought,
`ShownInv` follows the offers from the bus to the screen; it rests on the event
invariant below (`ConsentInvariant`, `GrantsConsented`).

`EventsConserved` equates what the bus accepted with what lies in six places one
after the other. It is not inductive without knowing who reads: `ReaderInv` says
that the event channel is held by one command or one message at a time (the
subscription, the wait, the event on its way to `Update`), so that no event can
be overtaken on the last stretch, `ChannelsOK` that the channels of a type hold
events of that type and that in process there is no stream, and `PassedOver` that
the types the stream cannot carry are never found behind it. Each step of a
forwarder, the stream or a command then moves the first event of one place to
the end of the next (`EventInvariant`, `EventsDelivered`). `Of`, the events of a
type in a channel, is a recursive function; the lemmas on it say what it makes of
an appended and of a removed event. `FrontendAssumption` says that `None` is
neither an event nor a channel and that every mix names its mode.

`TicksBacked` compares what is shown with what was acknowledged, and between the
two there are bags. `CarrierInv` says that the number of a message is carried by
one thing at a time, first the command that sends it and then the message that
reports it, in one copy, and that it is reported only if acknowledged. So the
lines ticked are at most the acknowledged sends that nothing carries any more
(`Told`): a report that is handled draws at most one tick and adds one such
send. For transfers the reports under way are counted copy by copy
(`TickInvariant`, `TicksTrue`). That ticks go by position, and may land on the
wrong line, does not matter to the count.

`DiscoveryProofs`. `TableInv` holds the table in `Tables`: in every bucket no peer
twice, each at the distance of its bucket, at most `K`, never this node; and
`Backed`, that an entry's failures are at most the failed announcements counted in
`misses`, unless those have reached the threshold already, which is why an eviction has a cause although outcomes are recorded by
onion address and from stale copies. `JobInv` says that what a job holds are
copies of entries and that the list it is about to write fits a table, `FileInv`
the same of the file unless it is torn or absent, `BootInv` that the start-up job
is alone until the daemon is up. The lemmas go operator by operator (`Keep`,
`FlattenSeq`, `AddPeer`, `AddPeers`, `Evict`, the failure counts, `Saved`, `Load`),
each says what a table becomes, and the actions are put together from them
(`DiscoveryInvariant`, `TableIsSound`, `RestoreIsExact`, `EvictionsHaveCause`).
`RecordAssumption` says only that answers are lists of records and that a file
found at the start is one that `Save` wrote. Peers may share an onion address:
`misses` of a peer counts the failures at every address it came with, which is no
less than what its entry was charged, and is cleared only when the search for the
address found its entry.

`FileTransferProofs`, second half: the bytes. `TreeFacts` says that
`BuildMerkleTree` fills its heap, `AboveRange` that the way up from a leaf meets
every level once and ends at the root. `VerifyExact`: with the siblings that
`Proof` collects, the hash at a level is the tree's own if and only if it was so
one level below, because a pair has one hash; hence the proof of chunk i admits
the hash of chunk i and no other, for any number of chunks and any padding.
`RootInjective` goes the other way, from the root down: equal roots of lists of
one length have equal nodes everywhere. `RootByHalves` relates the heap to the
reference level by level. `ChunksJoin` is chunking: the first k chunks are the
first k chunk lengths of the file, and `TotalChunks` of them are enough.
`ChunksInv` then needs only to say that the tree is that of the chunks read and
that a chunk kept at a place is the one read there (`ChunksInvariant`,
`SavedFileHashed`, `FileRoundTrip`, `RootsCommit`), for any bytes, file size,
chunk size and number of edits.

Induction. The library's induction theorems take the property as an operator,
which the provers cannot instantiate. `DiscoveryProofs`, `FrontendProofs` and
`FileTransferProofs` do without: a property of numbers up to `N` is the set of
numbers that have it, the order of the natural numbers is well founded (`WFMin`), so
a set without a least exception is everything (`Least`, `UpTo`), and a recursive
function exists because each of its prefixes does (`Iteration`). This is why the
models these modules speak of define what the code computes in loops by recursive
functions over the iterations.

Every invariant and every action property that a run checks is proved, and both
refinements are. Only model-checked is liveness (`ClientReturns`, `HandlersReturn`,
`TransferEnds`, `AcceptedIsDelivered`, `ReconnectionEnds`, `DeadNoticed`,
`FindPeerEnds`, `RequestReachesUser`, `StopReturns`): fairness and ENABLED are
outside the prover.

## 5. Plan

Everything in the inventory that keeps state is modelled, and what is safety is
proved. What would extend the project:

1. the handler's read of CONN_CONFIRM and the DHT's reads, once the code gives
   them deadlines: `HandlersReturn`, `FindPeerEnds`, `ReconnectionEnds` and
   `StopReturns` could then be stated without their exceptions;
2. `Decision` channels that are answered twice, once `AcceptFile` gives up with
   its handler: a liveness property of the calls;
3. the cursor of the contact list, once it is moved when the list shrinks: the
   absence of `Panic` as an invariant.

## 6. Not modelled

Rendering, text editing and the contents of the settings and debug screens
(`ui`); generated code (`api/pb`, `protocol/pb`, a quarter of the lines); the
framing of messages (`protocol/codec.go`: a message is atomic); key derivation
and ciphers (one value per identity); the auth interceptors of the API
(`api/auth.go`: a check of one signature and timestamp, without state);
rates and formatting of transfer progress; libp2p and the tor process
themselves; test helpers. Two daemons on one data directory, and a client that
registers the node service's name before the daemon does, are outside the
models. Code without a caller is left out: `RoutingTable.RemovePeer`, the
connector's transfer slots, `Keystore.Get`, `Generate`, `Remove` and `List`, and
the interface's `Connect` and `RemoveContact`.
