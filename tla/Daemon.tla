------------------------------- MODULE Daemon -------------------------------
(***************************************************************************)
(* The daemon process over its data directory: Start, the provisioning of  *)
(* Tor and of the node service, API calls and RegisterService streams at   *)
(* work, Stop, and the end of the process at any moment.                   *)
(***************************************************************************)
EXTENDS DataDir, RegisterStream

CONSTANTS
  NameOf,    \* NameOf[s]: the service in the manifest of stream s
  Rpcs,      \* calls of the API other than RegisterService and those that change contacts
  Mixes      \* what happens in a behaviour: see Init

\* Streams ask for other services than the node's own.
ASSUME DaemonAssumption ==
  /\ NameOf \in [Streams -> Services \ {Node}]
  /\ Mixes \subseteq [old : BOOLEAN, tor : {"off", "path", "bundle"}, faults : SUBSET STRING,
                      starts : Nat, crashes : Nat, changes : Nat,
                      streams : SUBSET Streams, handlers : SUBSET Handlers, rpcs : SUBSET Rpcs]

VARIABLES
  mix,          \* what is configured, what may fail, and how often the rest may happen
  pc,           \* where the main goroutine is in Start and Stop; "down": no process
  provision,    \* the goroutine that waits for Tor
  host,         \* the libp2p host is there
  engine,       \* the tor process: "none", "booting" or "ready"
  server,       \* the gRPC server: "none", "made", "serving" or "draining"
  hasRegistry,  \* the API server was given the registry
  registered,   \* Registry.byName, the streams of it
  sig,          \* d.sigServer
  reconnect,    \* the automatic reconnection runs
  open          \* the calls of Rpcs under way

process == <<pc, provision, host, engine, server, hasRegistry, registered, sig, reconnect, open>>
vars == <<mix, onDisk, keys, book, streamVars, process>>

Fault(f) == f \in mix.faults
Spend(what) == mix[what] > 0 /\ mix' = [mix EXCEPT ![what] = @ - 1]

Init ==
  /\ mix \in Mixes
  /\ DataDirInit(mix.old)
  /\ StreamsStart
  /\ pc = "down" /\ provision = "none" /\ host = FALSE /\ engine = "none" /\ server = "none"
  /\ hasRegistry = FALSE /\ registered = {} /\ sig = FALSE /\ reconnect = FALSE /\ open = {}

\* The process ends, with whatever it was doing.
Exit ==
  /\ Forget /\ StreamsEnd
  /\ pc' = "down" /\ provision' = "none" /\ host' = FALSE /\ engine' = "none" /\ server' = "none"
  /\ hasRegistry' = FALSE /\ registered' = {} /\ sig' = FALSE /\ reconnect' = FALSE /\ open' = {}

-----------------------------------------------------------------------------
(* Start.                                                                  *)

At(l) == pc = l
Proceed(l) == pc' = l /\ UNCHANGED <<mix, streamVars, provision, host, engine, server, hasRegistry,
                                     registered, sig, reconnect, open>>

Start ==
  /\ At("down") /\ Spend("starts")
  /\ \E p \in Passphrases :
       /\ p = (CHOOSE q \in Passphrases : TRUE) \/ Fault("passphrase")
       /\ NewKeystore(p)
  /\ pc' = "identity"
  /\ UNCHANGED <<streamVars, provision, host, engine, server, hasRegistry, registered, sig, reconnect, open>>

\* loadOrGenerateIdentity; an error ends the program.
loadOrGenerateIdentity ==
  \/ At("identity") /\ KeyFound(Node) /\ Proceed("contacts")
  \/ At("identity") /\ OpenKeyFile(Node) /\ Proceed("save key")
  \/ At("save key") /\ WriteKeyFile(Node) /\ Proceed("contacts")
IdentityRefused == At("identity") /\ Refused(Node) /\ Exit /\ UNCHANGED mix
IdentityUnsaved == At("save key") /\ Fault("disk") /\ Exit /\ UNCHANGED mix

LoadContacts == At("contacts") /\ Load /\ Proceed("host")

\* Without a host there is no chat, no file transfer and no presence.
StartHost ==
  /\ At("host")
  /\ host' \in {TRUE} \cup (IF Fault("host") THEN {FALSE} ELSE {})
  /\ pc' = CASE mix.tor = "off" -> "server" [] mix.tor = "path" -> "launch" [] OTHER -> "ensure"
  /\ UNCHANGED <<mix, onDisk, keys, book, streamVars, provision, engine, server, hasRegistry,
                 registered, sig, reconnect, open>>

files == <<onDisk, keys, book>>

verifyChecksum == archive = "bundle"

\* EnsureTor.  Every error leaves the daemon without Tor.
EnsureTor ==
  \/ At("ensure") /\ Cached /\ Proceed("launch") /\ UNCHANGED files
  \/ At("ensure") /\ ~Cached /\ CreateArchive /\ Proceed("download")
  \/ At("download") /\ DownloadArchive("bundle") /\ Proceed("verify")
  \/ At("download") /\ Fault("network") /\ DownloadArchive("foreign") /\ Proceed("verify")
  \/ At("verify") /\ verifyChecksum /\ Proceed("clear") /\ UNCHANGED files
  \/ At("clear") /\ ~BinEmpty /\ RemoveOne /\ Proceed("clear")
  \/ At("clear") /\ BinEmpty /\ ExtractSome /\ Proceed("extract")
  \/ At("extract") /\ ExtractAll /\ Proceed("mark")
  \/ At("mark") /\ OpenVersion /\ Proceed("marking")
  \/ At("marking") /\ WriteVersion /\ Proceed("tidy")
  \/ At("tidy") /\ RemoveArchive /\ Proceed("launch")
EnsureTorFails ==
  \/ At("ensure") /\ ~Cached /\ Fault("network") /\ Proceed("server") /\ UNCHANGED files
  \/ At("download") /\ Fault("network") /\ Proceed("server") /\ UNCHANGED files
  \/ At("verify") /\ ~verifyChecksum /\ RemoveArchive /\ Proceed("server")
  \/ At("extract") /\ Fault("disk") /\ Proceed("undo") /\ UNCHANGED files
  \/ At("undo") /\ ~BinEmpty /\ RemoveOne /\ Proceed("undo")
  \/ At("undo") /\ BinEmpty /\ Proceed("server") /\ UNCHANGED files
  \/ At("marking") /\ Fault("disk") /\ Proceed("server") /\ UNCHANGED files

\* The rest of startTor: the tor process and the goroutine that waits for it.
startTor ==
  /\ At("launch") /\ pc' = "server"
  /\ \/ engine' = "booting" /\ provision' = "wait"
     \/ Fault("tor") /\ UNCHANGED <<engine, provision>>
  /\ UNCHANGED <<mix, files, streamVars, host, server, hasRegistry, registered, sig, reconnect, open>>

NewServer ==
  /\ At("server") /\ pc' = "listen" /\ server' = "made"
  /\ UNCHANGED <<mix, files, streamVars, provision, host, engine, hasRegistry, registered, sig, reconnect, open>>
listen ==
  /\ At("listen") /\ pc' = "up" /\ server' = "serving"
  /\ UNCHANGED <<mix, files, streamVars, provision, host, engine, hasRegistry, registered, sig, reconnect, open>>
\* An admin key that is none, or a listener that cannot be had, ends the program.
ServerFails == pc \in {"server", "listen"} /\ Fault("listen") /\ Exit /\ UNCHANGED mix

-----------------------------------------------------------------------------
(* The goroutine that provisions the node service once Tor is ready.       *)

Provisioned(l) ==
  /\ provision' = l
  /\ UNCHANGED <<mix, streamVars, pc, host, server, registered, open>>

TorBootstrapped ==
  /\ engine = "booting" /\ engine' = "ready"
  /\ UNCHANGED <<mix, files, streamVars, pc, provision, host, server, hasRegistry, registered, sig, reconnect, open>>
\* The API server gets the registry only when it exists by now.
NewRegistry ==
  /\ provision = "wait" /\ engine = "ready"
  /\ hasRegistry' = (server # "none")
  /\ Provisioned("register") /\ UNCHANGED <<files, engine, sig, reconnect>>
\* With or without the node service Tor is reported ready.
RegisterNode ==
  /\ provision = "register" /\ KeyFound(Node)
  /\ Provisioned("wire") \/ (Fault("tor") /\ Provisioned("ended"))
  /\ UNCHANGED <<engine, hasRegistry, sig, reconnect>>
wireSubsystems ==
  \/ /\ provision = "wire" /\ sig' = TRUE /\ Provisioned("connector")
     /\ UNCHANGED <<files, engine, hasRegistry, reconnect>>
  \/ /\ provision = "wire" /\ Fault("tor") /\ Provisioned("ended")
     /\ UNCHANGED <<files, engine, hasRegistry, sig, reconnect>>
  \/ /\ provision = "connector" /\ reconnect' = host /\ Provisioned("ended")
     /\ UNCHANGED <<files, engine, hasRegistry, sig>>

-----------------------------------------------------------------------------
(* Stop: what has been started by then is stopped, in this order.          *)

outsideStop == <<mix, files, streamVars, provision, host, engine, hasRegistry, registered, open>>
Signal ==
  /\ At("up") /\ pc' = "stop" /\ UNCHANGED <<outsideStop, server, sig, reconnect>>
StopServices ==
  /\ At("stop") /\ pc' = "drain"
  /\ reconnect' = FALSE /\ sig' = FALSE
  /\ server' = "draining"
  /\ UNCHANGED outsideStop

Serving == server = "serving"
Busy ==
  \/ open # {} \/ \E c \in Calls : call[c].at # "idle"
  \/ \E s \in Streams : loop[s] \notin {"none", "ended"}

\* GracefulStop returns when no call is left; then the host and tor are closed.
GracefulStop == At("drain") /\ ~Busy /\ Exit /\ UNCHANGED mix

-----------------------------------------------------------------------------
(* API calls.                                                              *)

\* Any other call.  Subscribe lasts until its client leaves, AcceptFile until the decision
\* fits into its channel, AddNode and FindPeer until a peer answers: nothing ends them here.
RpcCalled ==
  /\ Serving
  /\ \E c \in mix.rpcs \ open : open' = open \cup {c}
  /\ UNCHANGED <<mix, files, streamVars, pc, provision, host, engine, server, hasRegistry, registered,
                 sig, reconnect>>
RpcReturns ==
  /\ \E c \in open : open' = open \ {c}
  /\ UNCHANGED <<mix, files, streamVars, pc, provision, host, engine, server, hasRegistry, registered,
                 sig, reconnect>>

notContacts == <<streamVars, process>>
ContactCall ==
  /\ Serving /\ Spend("changes")
  /\ \E c \in Calls, op \in {"add", "remove"}, a \in Addrs : ChangeContacts(c, op, a)
  /\ UNCHANGED notContacts
SaveContacts ==
  /\ \E c \in Calls : Snapshot(c) \/ OpenContacts(c) \/ WriteContacts(c) \/ (Fault("disk") /\ SaveFails(c))
  /\ UNCHANGED <<mix, notContacts>>

-----------------------------------------------------------------------------
(* RegisterService.                                                        *)

stays == <<mix, pc, provision, host, engine, server, hasRegistry, sig, reconnect, open>>

ClientConnects(s) == Serving /\ s \in mix.streams /\ Connect(s) /\ UNCHANGED <<stays, files, registered>>
ClientLeaves(s) == (HalfClose(s) \/ Disconnect(s)) /\ UNCHANGED <<stays, files, registered>>

Taken(s) == \E t \in registered : NameOf[t] = NameOf[s]

\* Without a registry, a manifest that is valid or a free name the call ends here.
ReadManifest(s) ==
  /\ \/ hasRegistry /\ client[s] = "there" /\ ~Taken(s) /\ Advance(s, "manifest", "identity")
     \/ /\ ~hasRegistry \/ client[s] # "there" \/ Taken(s) \/ Fault("manifest")
        /\ Advance(s, "manifest", "ended")
  /\ UNCHANGED <<stays, files, registered>>
ServiceKey(s) ==
  /\ \/ KeyFound(NameOf[s]) /\ Advance(s, "identity", "onion")
     \/ KeyRefused(NameOf[s]) /\ Advance(s, "identity", "ended")
     \/ OpenKeyFile(NameOf[s]) /\ Advance(s, "identity", "save key")
     \/ WriteKeyFile(NameOf[s]) /\ Advance(s, "save key", "onion")
     \/ Fault("disk") /\ WriteKeyFails(NameOf[s]) /\ Advance(s, "save key", "ended")
  /\ UNCHANGED <<stays, registered>>
\* Register publishes and wires the service (ServiceRegistry), or fails.
Registers(s) ==
  /\ \/ ~Taken(s) /\ Advance(s, "onion", "registered") /\ registered' = registered \cup {s}
     \/ /\ Taken(s) \/ Fault("tor")
        /\ Advance(s, "onion", "ended") /\ UNCHANGED registered
  /\ UNCHANGED <<stays, files>>
Unregister(s) ==
  /\ Advance(s, "unregister", "drop")
  /\ registered' = registered \ {s}
  /\ UNCHANGED <<stays, files>>

StreamStep(s) ==
  \/ ReadManifest(s) \/ ServiceKey(s) \/ Registers(s) \/ Unregister(s)
  \/ /\ \/ SendRegistered(s) \/ LoopEnds(s) \/ ForwarderEnded(s) \/ Dropped(s)
        \/ (\E ok \in BOOLEAN : Dispatched(s, ok))
        \/ ForwardTake(s) \/ ForwardEnds(s) \/ (Gone(s) /\ SendError(s))
     /\ UNCHANGED <<stays, files, registered>>
\* What waits for the client: its messages and its reading.
ClientStep(s) ==
  /\ \/ ForwardSent(s) \/ (~Gone(s) /\ SendError(s)) \/ ReadSend(s)
     \/ (\E r \in Requests, d \in {"yes", "no"} : ReadAction(s, r, d))
  /\ UNCHANGED <<stays, files, registered>>

HandlerCall ==
  /\ \E h \in Handlers, s \in registered : h \in mix.handlers /\ HandlerCalled(h, s)
  /\ UNCHANGED <<stays, files, registered>>
HandlerStep ==
  /\ (\E h \in Handlers : Emit(h)) \/ (\E r \in Requests : Park(r) \/ Decided(r))
  /\ UNCHANGED <<stays, files, registered>>
HandlerAbandoned ==
  /\ \E r \in Requests : Abandoned(r)
  /\ UNCHANGED <<stays, files, registered>>
Panic == /\ \E h \in Handlers : EmitPanics(h)
         /\ Exit /\ UNCHANGED mix

Crash == pc # "down" /\ Spend("crashes") /\ Exit

System ==
  \/ loadOrGenerateIdentity \/ IdentityRefused \/ LoadContacts \/ StartHost
  \/ EnsureTor \/ EnsureTorFails \/ startTor \/ NewServer \/ listen
  \/ NewRegistry \/ RegisterNode \/ wireSubsystems
  \/ StopServices \/ GracefulStop \/ SaveContacts \/ HandlerStep \/ Panic
  \/ \E s \in Streams : StreamStep(s)
Environment ==
  \/ Start \/ IdentityUnsaved \/ ServerFails \/ TorBootstrapped \/ Signal \/ Crash
  \/ RpcCalled \/ RpcReturns \/ ContactCall \/ HandlerCall \/ HandlerAbandoned
  \/ \E s \in Streams : ClientConnects(s) \/ ClientLeaves(s) \/ ClientStep(s)
Next == System \/ Environment

Spec == Init /\ [][Next]_vars
\* Goroutines that can run do; clients, peers, the network and the user need not.
FairSpec == Spec /\ WF_vars(System)

-----------------------------------------------------------------------------
(* Properties                                                              *)

StoredKey(n) == IF n = Node /\ keyFile[n] = Absent THEN legacy ELSE keyFile[n]

\* Once GetOrGenerate has returned a key for a service, or an early version has left
\* one, every later process has that key or none for it, and its file stays complete:
\* no crash, failed write, wrong passphrase or migration makes a new identity.
IdentityStable ==
  \A n \in Services : used[n] # None =>
    /\ StoredKey(n) \notin {Absent, Empty, Torn} /\ StoredKey(n).key = used[n]
    /\ cache[n] \in {None, used[n]}

\* The tor process that EnsureTor provides runs the whole bundle whose checksum was
\* compared, also after a download, an extraction or a start that was cut short.
TorIntact == engine # "none" /\ mix.tor = "bundle" => bin = "whole"

\* A contact whose addition was reported and whose removal was not asked for is on
\* disk and in memory through restarts, when no save has been cut short, has failed
\* or has overlapped another; a save under way has the file truncated.
ContactsDurable ==
  ~mishap /\ (\A c \in Calls : call[c].at # "opened") =>
    /\ acked # {} => contactsFile \notin {Absent, Empty, Torn} /\ acked \subseteq contactsFile
    /\ Serving => acked \subseteq contacts

\* When RegisterService has returned the service is out of the registry and nobody waits
\* on its stream without a decision, whichever handlers were running: one that comes late
\* finds the queue closed.  The exception is a stream that never sent ServiceRegistered,
\* whose queue stays open: there a request that parks after dropAll has its caller's
\* context alone to end it.
StreamSettled ==
  \A s \in Streams : loop[s] = "ended" =>
    /\ s \notin registered
    /\ \A r \in Requests : handler[r].at = "waiting" /\ handler[r].on = s =>
         decision[r] # "open" \/ (forward[s] = "none" /\ r \in pending[s])

\* Daemon.Stop returns once the clients of the register streams are gone and the other
\* calls of the API, Subscribe among them, have returned: the action loop, the forwarder,
\* the handlers and the saves under way do not keep it.
StopReturns ==
  <>[](open = {} /\ \A s \in Streams : client[s] \in {"none", "gone"}) =>
    (pc \in {"stop", "drain"} ~> pc = "down")
=============================================================================
