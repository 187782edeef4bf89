-------------------------- MODULE ServiceRegistry --------------------------
(***************************************************************************)
(* services.Registry with the tables it keeps in step: the Tor engine's    *)
(* onions and their key files, the DHT's local identities and the          *)
(* signaling server's services.  Each RegisterService stream registers one *)
(* name and unregisters it when it ends; the daemon registers the node     *)
(* service and then wires discovery and signaling into the registry while  *)
(* streams may already be at work.  Every critical section is one step.    *)
(*                                                                         *)
(* A stream also names the service record it creates, its listener and the *)
(* onion key it generates.  The keystore returns one address per name      *)
(* (GetOrGenerate runs under its lock), so an address is its name.         *)
(***************************************************************************)
EXTENDS FiniteSets

CONSTANTS
  Streams,    \* RegisterService calls, and the daemon's own registration
  Daemon,     \* the stream of the node service
  Names,      \* service names
  NameOf,     \* NameOf[s]: the name in the manifest of s
  Early,      \* streams that may come before the daemon has wired everything
  Keyed,      \* names whose onion.key is already on disk
  Faults,     \* what may go wrong: subset of AllFaults
  None

AllFaults == {"keystore", "load", "tor", "save", "advertise", "close", "stop"}

ASSUME RegistryAssumption ==
  /\ Daemon \in Streams
  /\ NameOf \in [Streams -> Names]
  /\ Early \subseteq Streams
  /\ Keyed \subseteq Names
  /\ Faults \subseteq AllFaults
  /\ None \notin Streams \cup Names
  /\ None \notin [svc : Streams, lis : Streams]

\* The key found on disk at start is called by its name, a new one by its stream.
Keys == Names \cup Streams

VARIABLES
  pc,         \* pc[s]: where the call of s is
  key,        \* key[s]: onion key s loaded or generated
  viaDisc,    \* viaDisc[s]: r.disc as s read it, if there is something to withdraw
  viaHook,    \* viaHook[s]: r.onUnregister as s read it
  lis,        \* lis[s]: listener the hook got for s
  byName,     \* Registry.byName (byOnion changes in the same sections)
  disc, onRegister, onUnregister,   \* Registry: what is installed
  onions,     \* Engine.onions: name -> stream whose listener it is
  published,  \* keys the tor process serves
  keyFile,    \* keyFile[n]: services/n/onion.key
  localIds,   \* DHTDiscovery.localIdentities: name -> onion key advertised
  signal,     \* signaling.Server.services: name -> record and listener
  stopped,    \* signaling.Server.stopped
  dpc,        \* where the daemon's wiring is
  replay,     \* services still to be replayed by SetDiscovery or SetOnRegister
  current     \* the replayed service whose hook has fetched a listener

callVars == <<pc, key, viaDisc, viaHook, lis>>
wiringVars == <<disc, onRegister, onUnregister, dpc, replay, current>>
engineVars == <<onions, published, keyFile>>
tableVars == <<byName, localIds, signal, stopped>>
vars == <<callVars, wiringVars, engineVars, tableVars>>

Clients == Streams \ {Daemon}
Node == NameOf[Daemon]
Entry == [svc : Streams, lis : Streams]

Init ==
  /\ pc = [s \in Streams |-> "idle"]
  /\ key = [s \in Streams |-> None]
  /\ viaDisc = [s \in Streams |-> FALSE]
  /\ viaHook = [s \in Streams |-> FALSE]
  /\ lis = [s \in Streams |-> None]
  /\ byName = [n \in Names |-> None]
  /\ disc = FALSE
  /\ onRegister = FALSE
  /\ onUnregister = FALSE
  /\ onions = [n \in Names |-> None]
  /\ published = {}
  /\ keyFile = [n \in Names |-> IF n \in Keyed THEN n ELSE None]
  /\ localIds = [n \in Names |-> None]
  /\ signal = [n \in Names |-> None]
  /\ stopped = FALSE
  /\ dpc = "register"
  /\ replay = {}
  /\ current = None

Goto(s, l) == pc' = [pc EXCEPT ![s] = l]

----------------------------------------------------------------------------
(* Registry.Register *)

\* The name is looked up and the identity loaded; RPCs end with GracefulStop.
CheckName(s) ==
  /\ pc[s] = "idle"
  /\ s \in Early \cup {Daemon} \/ dpc \in {"up", "stopping"}
  /\ dpc \notin {"draining", "down"}
  /\ \/ byName[NameOf[s]] = None /\ Goto(s, "add")
     \/ byName[NameOf[s]] # None /\ Goto(s, "ended")
     \/ "keystore" \in Faults /\ Goto(s, "ended")
  /\ UNCHANGED <<key, viaDisc, viaHook, lis, wiringVars, engineVars, tableVars>>

\* AddOnion: one onion per name.
CheckOnion(s) ==
  /\ pc[s] = "add"
  /\ \/ onions[NameOf[s]] = None /\ Goto(s, "load")
     \/ onions[NameOf[s]] # None /\ Goto(s, "ended")
  /\ UNCHANGED <<key, viaDisc, viaHook, lis, wiringVars, engineVars, tableVars>>

\* Mutant of LoadKey: the key on disk is not used.
MutLoadKey(s) ==
  /\ pc[s] = "load"
  /\ Goto(s, "listen")
  /\ UNCHANGED <<key, viaDisc, viaHook, lis, wiringVars, engineVars, tableVars>>

\* loadOnionKey: absent is no error.
LoadKey(s) ==
  /\ pc[s] = "load"
  /\ \/ /\ key' = [key EXCEPT ![s] = keyFile[NameOf[s]]]
        /\ Goto(s, "listen")
     \/ /\ "load" \in Faults
        /\ Goto(s, "ended")
        /\ UNCHANGED key
  /\ UNCHANGED <<viaDisc, viaHook, lis, wiringVars, engineVars, tableVars>>

\* tor.Listen: the tor process refuses a key it already serves.
Listen(s) ==
  LET k == IF key[s] = None THEN s ELSE key[s]
  IN  /\ pc[s] = "listen"
      /\ \/ /\ k \notin published
            /\ published' = published \cup {k}
            /\ key' = [key EXCEPT ![s] = k]
            /\ Goto(s, IF key[s] = None THEN "save" ELSE "insert")
         \/ /\ k \in published \/ "tor" \in Faults
            /\ Goto(s, "ended")
            /\ UNCHANGED <<key, published>>
      /\ UNCHANGED <<viaDisc, viaHook, lis, wiringVars, onions, keyFile, tableVars>>

\* saveOnionKey, for a key tor generated; on error the onion is closed.
SaveKey(s) ==
  /\ pc[s] = "save"
  /\ \/ /\ keyFile' = [keyFile EXCEPT ![NameOf[s]] = key[s]]
        /\ Goto(s, "insert")
        /\ UNCHANGED published
     \/ /\ "save" \in Faults
        /\ Goto(s, "ended")
        /\ published' = published \ {key[s]}
        /\ UNCHANGED keyFile
  /\ UNCHANGED <<key, viaDisc, viaHook, lis, wiringVars, onions, tableVars>>

\* Mutant of InsertOnion: the second look at the map is left out.
MutInsertOnion(s) ==
  /\ pc[s] = "insert"
  /\ onions' = [onions EXCEPT ![NameOf[s]] = s]
  /\ Goto(s, "record")
  /\ UNCHANGED <<key, viaDisc, viaHook, lis, wiringVars, published, keyFile, tableVars>>

\* The second look at the onion map: another call may have been faster.
InsertOnion(s) ==
  LET n == NameOf[s]
  IN  /\ pc[s] = "insert"
      /\ \/ /\ onions[n] = None
            /\ onions' = [onions EXCEPT ![n] = s]
            /\ Goto(s, "record")
            /\ UNCHANGED published
         \/ /\ onions[n] # None
            /\ published' = published \ {key[s]}
            /\ Goto(s, "ended")
            /\ UNCHANGED onions
      /\ UNCHANGED <<key, viaDisc, viaHook, lis, wiringVars, keyFile, tableVars>>

\* The record enters the map and r.disc is read, in one critical section.
InsertName(s) ==
  LET n == NameOf[s]
  IN  /\ pc[s] = "record"
      /\ IF byName[n] = None
           THEN /\ byName' = [byName EXCEPT ![n] = s]
                /\ viaDisc' = [viaDisc EXCEPT ![s] = disc]
                /\ Goto(s, "advertise")
           ELSE /\ Goto(s, "remove")
                /\ UNCHANGED <<byName, viaDisc>>
      /\ UNCHANGED <<key, viaHook, lis, wiringVars, engineVars, localIds, signal, stopped>>

\* disc.AddLocalIdentity, if there is a disc.
Advertise(s) ==
  /\ pc[s] = "advertise"
  /\ \/ /\ localIds' = [localIds EXCEPT ![NameOf[s]] = IF viaDisc[s] THEN key[s] ELSE @]
        /\ Goto(s, "hook")
        /\ UNCHANGED viaDisc
     \/ /\ viaDisc[s] /\ "advertise" \in Faults
        /\ viaDisc' = [viaDisc EXCEPT ![s] = FALSE]
        /\ Goto(s, "rollback")
        /\ UNCHANGED localIds
  /\ UNCHANGED <<key, viaHook, lis, wiringVars, engineVars, byName, signal, stopped>>

\* r.onRegister is read; without a hook, or for the node service, that is all.
ReadHook(s) ==
  /\ pc[s] = "hook"
  /\ Goto(s, IF onRegister /\ NameOf[s] # Node THEN "listener" ELSE "live")
  /\ UNCHANGED <<key, viaDisc, viaHook, lis, wiringVars, engineVars, tableVars>>

\* The hook: OnionListener ...
GetListener(s) ==
  /\ pc[s] = "listener"
  /\ lis' = [lis EXCEPT ![s] = onions[NameOf[s]]]
  /\ Goto(s, IF onions[NameOf[s]] = None THEN "rollback" ELSE "serve")
  /\ UNCHANGED <<key, viaDisc, viaHook, wiringVars, engineVars, tableVars>>

CanAddService(n) == ~stopped /\ signal[n] = None

\* ... and AddService.
AddService(s) ==
  LET n == NameOf[s]
  IN  /\ pc[s] = "serve"
      /\ \/ /\ CanAddService(n)
            /\ signal' = [signal EXCEPT ![n] = [svc |-> s, lis |-> lis[s]]]
            /\ Goto(s, "live")
         \/ /\ ~CanAddService(n)
            /\ Goto(s, "rollback")
            /\ UNCHANGED signal
      /\ UNCHANGED <<key, viaDisc, viaHook, lis, wiringVars, engineVars,
                     byName, localIds, stopped>>

\* A failed hook or advertisement: the record leaves the map, then the rest.
Rollback(s) ==
  /\ pc[s] = "rollback"
  /\ byName' = [byName EXCEPT ![NameOf[s]] = None]
  /\ Goto(s, "withdraw")
  /\ UNCHANGED <<key, viaDisc, viaHook, lis, wiringVars, engineVars, localIds, signal, stopped>>

----------------------------------------------------------------------------
(* Registry.Unregister, deferred by RegisterService *)

\* The stream ends.  The daemon keeps the node service to the end.
Disconnect(s) ==
  /\ pc[s] = "live"
  /\ s \in Clients
  /\ Goto(s, "unregister")
  /\ UNCHANGED <<key, viaDisc, viaHook, lis, wiringVars, engineVars, tableVars>>

\* The record leaves the map; r.disc and r.onUnregister are read with it.
DeleteName(s) ==
  /\ pc[s] = "unregister"
  /\ IF byName[NameOf[s]] = None
       THEN Goto(s, "ended") /\ UNCHANGED <<byName, viaDisc, viaHook>>
       ELSE /\ byName' = [byName EXCEPT ![NameOf[s]] = None]
            /\ viaDisc' = [viaDisc EXCEPT ![s] = disc]
            /\ viaHook' = [viaHook EXCEPT ![s] = onUnregister]
            /\ Goto(s, "unserve")
  /\ UNCHANGED <<key, lis, wiringVars, engineVars, localIds, signal, stopped>>

\* Mutant of RemoveService: only a service that is still listed is removed.
MutRemoveService(s) ==
  /\ pc[s] = "unserve"
  /\ signal' = [signal EXCEPT ![NameOf[s]] =
                  IF viaHook[s] /\ byName[NameOf[s]] = s THEN None ELSE @]
  /\ Goto(s, "withdraw")
  /\ UNCHANGED <<key, viaDisc, viaHook, lis, wiringVars, engineVars, byName, localIds, stopped>>

\* The hook: RemoveService, by name.
RemoveService(s) ==
  /\ pc[s] = "unserve"
  /\ signal' = [signal EXCEPT ![NameOf[s]] =
                  IF viaHook[s] /\ NameOf[s] # Node THEN None ELSE @]
  /\ Goto(s, "withdraw")
  /\ UNCHANGED <<key, viaDisc, viaHook, lis, wiringVars, engineVars, byName, localIds, stopped>>

\* RemoveLocalIdentity, by address.
Withdraw(s) ==
  /\ pc[s] = "withdraw"
  /\ localIds' = [localIds EXCEPT ![NameOf[s]] = IF viaDisc[s] THEN None ELSE @]
  /\ Goto(s, "remove")
  /\ UNCHANGED <<key, viaDisc, viaHook, lis, wiringVars, engineVars, byName, signal, stopped>>

\* RemoveOnion, by name: out of the map ...
RemoveOnion(s) ==
  LET n == NameOf[s]
  IN  /\ pc[s] = "remove"
      /\ lis' = [lis EXCEPT ![s] = onions[n]]
      /\ onions' = [onions EXCEPT ![n] = None]
      /\ Goto(s, IF onions[n] = None THEN "ended" ELSE "close")
      /\ UNCHANGED <<key, viaDisc, viaHook, wiringVars, published, keyFile, tableVars>>

\* ... and closed, outside the lock.
CloseOnion(s) ==
  /\ pc[s] = "close"
  /\ \/ published' = published \ {key[lis[s]]}
     \/ "close" \in Faults /\ UNCHANGED published
  /\ Goto(s, "ended")
  /\ UNCHANGED <<key, viaDisc, viaHook, lis, wiringVars, onions, keyFile, tableVars>>

----------------------------------------------------------------------------
(* Daemon: wireSubsystems and Stop *)

Listed == {s \in Streams : byName[NameOf[s]] = s}

\* Registry.SetDiscovery, once the node service is registered: install and
\* take the list of services in one critical section.
SetDiscovery ==
  /\ dpc = "register"
  /\ pc[Daemon] = "live"
  /\ disc' = TRUE
  /\ replay' = Listed
  /\ dpc' = "readvertise"
  /\ UNCHANGED <<callVars, onRegister, onUnregister, current, engineVars, tableVars>>

\* Then each of them is advertised.
ReplayIdentity(s) ==
  /\ dpc = "readvertise"
  /\ s \in replay
  /\ replay' = replay \ {s}
  /\ localIds' = [localIds EXCEPT ![NameOf[s]] = key[s]]
  /\ UNCHANGED <<callVars, disc, onRegister, onUnregister, dpc, current,
                 engineVars, byName, signal, stopped>>

\* The new signaling server gets the node service and starts.
StartSignaling ==
  /\ dpc = "readvertise"
  /\ replay = {}
  /\ signal' = [signal EXCEPT ![Node] = [svc |-> Daemon, lis |-> Daemon]]
  /\ dpc' = "signaling"
  /\ UNCHANGED <<callVars, disc, onRegister, onUnregister, replay, current,
                 engineVars, byName, localIds, stopped>>

\* Mutant of SetOnRegister: services that exist already are not replayed.
MutSetOnRegister ==
  /\ dpc = "signaling"
  /\ onRegister' = TRUE
  /\ dpc' = "rehook"
  /\ UNCHANGED <<callVars, disc, onUnregister, replay, current, engineVars, tableVars>>

SetOnRegister ==
  /\ dpc = "signaling"
  /\ onRegister' = TRUE
  /\ replay' = Listed \ {Daemon}
  /\ dpc' = "rehook"
  /\ UNCHANGED <<callVars, disc, onUnregister, current, engineVars, tableVars>>

\* The hook for a replayed service: OnionListener, then AddService.  Errors
\* are dropped.
ReplayListener(s) ==
  /\ dpc = "rehook"
  /\ s \in replay
  /\ current = None
  /\ replay' = replay \ {s}
  /\ current' = IF onions[NameOf[s]] = None THEN None
                ELSE [svc |-> s, lis |-> onions[NameOf[s]]]
  /\ UNCHANGED <<callVars, disc, onRegister, onUnregister, dpc, engineVars, tableVars>>

ReplayService ==
  /\ dpc = "rehook"
  /\ current # None
  /\ LET n == NameOf[current.svc]
     IN  \/ /\ CanAddService(n)
            /\ signal' = [signal EXCEPT ![n] = current]
         \/ /\ ~CanAddService(n)
            /\ UNCHANGED signal
  /\ current' = None
  /\ UNCHANGED <<callVars, disc, onRegister, onUnregister, dpc, replay, engineVars,
                 byName, localIds, stopped>>

SetOnUnregister ==
  /\ dpc = "rehook"
  /\ replay = {} /\ current = None
  /\ onUnregister' = TRUE
  /\ dpc' = "up"
  /\ UNCHANGED <<callVars, disc, onRegister, replay, current, engineVars, tableVars>>

\* Daemon.Stop: the signaling server, ...
StopSignaling ==
  /\ dpc = "up"
  /\ "stop" \in Faults
  /\ stopped' = TRUE
  /\ signal' = [n \in Names |-> None]
  /\ dpc' = "stopping"
  /\ UNCHANGED <<callVars, disc, onRegister, onUnregister, replay, current,
                 engineVars, byName, localIds>>

\* ... GracefulStop, which takes no more calls ...
GracefulStop ==
  /\ dpc = "stopping"
  /\ dpc' = "draining"
  /\ UNCHANGED <<callVars, disc, onRegister, onUnregister, replay, current,
                 engineVars, tableVars>>

\* ... and waits for those there are, and then the Tor engine.
StopTor ==
  /\ dpc = "draining"
  /\ \A s \in Clients : pc[s] \in {"idle", "ended"}
  /\ onions' = [n \in Names |-> None]
  /\ published' = {}
  /\ dpc' = "down"
  /\ UNCHANGED <<callVars, disc, onRegister, onUnregister, replay, current,
                 keyFile, tableVars>>

----------------------------------------------------------------------------
Register(s) ==
  \/ CheckName(s) \/ CheckOnion(s) \/ LoadKey(s) \/ Listen(s) \/ SaveKey(s)
  \/ InsertOnion(s) \/ InsertName(s) \/ Advertise(s) \/ ReadHook(s)
  \/ GetListener(s) \/ AddService(s) \/ Rollback(s)

Unregister(s) ==
  \/ DeleteName(s) \/ RemoveService(s) \/ Withdraw(s) \/ RemoveOnion(s) \/ CloseOnion(s)

Wire ==
  \/ SetDiscovery
  \/ \E s \in Streams : ReplayIdentity(s)
  \/ StartSignaling
  \/ SetOnRegister
  \/ \E s \in Streams : ReplayListener(s)
  \/ ReplayService
  \/ SetOnUnregister

Stop == StopSignaling \/ GracefulStop \/ StopTor

Next ==
  \/ \E s \in Streams : Register(s) \/ Disconnect(s) \/ Unregister(s)
  \/ Wire
  \/ Stop

Spec == Init /\ [][Next]_vars

----------------------------------------------------------------------------
(* Properties *)

\* The calls between their insertion into the onion map and their removal from it.
Holding == {"record", "advertise", "hook", "listener", "serve", "live", "rollback",
            "unregister", "unserve", "withdraw", "remove"}

\* Those whose record is in byName.
Recorded == {"advertise", "hook", "listener", "serve", "live", "rollback", "unregister"}

TypeOK ==
  /\ pc \in [Streams -> {"idle", "add", "load", "listen", "save", "insert", "close", "ended"}
                        \cup Holding]
  /\ key \in [Streams -> Keys \cup {None}]
  /\ viaDisc \in [Streams -> BOOLEAN]
  /\ viaHook \in [Streams -> BOOLEAN]
  /\ lis \in [Streams -> Streams \cup {None}]
  /\ byName \in [Names -> Streams \cup {None}]
  /\ disc \in BOOLEAN /\ onRegister \in BOOLEAN /\ onUnregister \in BOOLEAN
  /\ onions \in [Names -> Streams \cup {None}]
  /\ published \subseteq Keys
  /\ keyFile \in [Names -> Keys \cup {None}]
  /\ localIds \in [Names -> Keys \cup {None}]
  /\ signal \in [Names -> Entry \cup {None}]
  /\ stopped \in BOOLEAN
  /\ dpc \in {"register", "readvertise", "signaling", "rehook", "up",
              "stopping", "draining", "down"}
  /\ replay \subseteq Streams
  /\ current \in Entry \cup {None}

\* The onion map is the lock of a name: exactly the call that put its onion
\* there is between InsertOnion and RemoveOnion, and exactly that call's record
\* can be in byName.  This is why rolling back and unregistering by name never
\* hit somebody else's service.
OnionIsLock ==
  \A n \in Names, s \in Streams :
    /\ onions[n] = s <=> NameOf[s] = n /\ pc[s] \in Holding /\ dpc # "down"
    /\ byName[n] = s <=> NameOf[s] = n /\ pc[s] \in Recorded

\* The listener the hook fetches by name, and the onion a call closes, are its own.
OwnListener == \A s \in Streams : pc[s] \in {"serve", "close"} => lis[s] = s

\* The daemon wires only after the node service is registered, and stops the
\* Tor engine only when no client's call is left.
DaemonOrder ==
  /\ dpc # "register" => pc[Daemon] = "live"
  /\ dpc = "down" => \A s \in Clients : pc[s] \in {"idle", "ended"}

RegistryInv == TypeOK /\ OnionIsLock /\ OwnListener /\ DaemonOrder

\* RegisterService told its client that it is registered: until it ends, the
\* record and the onion are its own, whatever the calls that compete for the
\* name do, also while they are rolled back.
OwnerServed ==
  \A s \in Streams : pc[s] = "live" /\ dpc # "down" =>
    byName[NameOf[s]] = s /\ onions[NameOf[s]] = s

Settled(n) == \A s \in Streams : NameOf[s] = n => pc[s] \in {"idle", "live", "ended"}

\* When no call on a name is in progress, registry, Tor engine, DHT and
\* signaling server agree about it: all have the same service, or none has
\* one.  Nothing is left behind by errors, rollbacks and lost races.
Coherent ==
  \A n \in Names : Settled(n) /\ dpc = "up" =>
    IF byName[n] = None
      THEN onions[n] = None /\ localIds[n] = None /\ signal[n] = None
      ELSE LET s == byName[n]
           IN  /\ pc[s] = "live"
               /\ onions[n] = s
               /\ localIds[n] = key[s]
               /\ signal[n] = [svc |-> s, lis |-> s]
               /\ key[s] \in published

Up == {"up", "stopping", "draining", "down"}
Advertised(s) ==
  \/ pc[s] \in {"hook", "listener", "serve", "live", "unregister", "unserve"}
  \/ pc[s] \in {"rollback", "withdraw"} /\ viaDisc[s]
Served(s) == pc[s] \in {"live", "unregister", "unserve"}
Serving(s) == pc[s] \in {"save", "insert", "close"} \cup Holding

\* How far the daemon is, and what it has installed by then.
StartupInv ==
  /\ disc <=> dpc # "register"
  /\ onRegister <=> dpc \notin {"register", "readvertise", "signaling"}
  /\ onUnregister <=> dpc \in Up
  /\ stopped => dpc \in Up \ {"up"}
  /\ pc[Daemon] \notin {"listener", "serve", "rollback", "unregister", "unserve"}
  /\ ~viaDisc[Daemon]
  /\ replay \subseteq {Daemon}
  /\ dpc # "readvertise" => replay = {}
  /\ current = None
  /\ dpc = "readvertise" => Daemon \in replay \/ localIds[Node] = key[Daemon]
  /\ dpc \notin {"register", "readvertise"} =>
       /\ localIds[Node] = key[Daemon]
       /\ ~stopped => signal[Node] = [svc |-> Daemon, lis |-> Daemon]
  /\ \A s \in Clients :
       /\ pc[s] # "idle" => dpc \in Up
       /\ NameOf[s] = Node => pc[s] \in {"idle", "ended"}

\* A client's service is advertised and served while its call is at the steps
\* where it should be ...
ClientWired(s) ==
  /\ pc[s] \in {"advertise", "hook", "listener", "serve", "unserve"} => viaDisc[s]
  /\ pc[s] = "unserve" => viaHook[s]
  /\ Advertised(s) => localIds[NameOf[s]] = key[s]
  /\ Served(s) /\ ~stopped => signal[NameOf[s]] = [svc |-> s, lis |-> s]

\* ... and at no other.
NothingLeft(n) ==
  /\ localIds[n] # None => \E s \in Clients : NameOf[s] = n /\ Advertised(s)
  /\ signal[n] # None => \E s \in Clients : NameOf[s] = n /\ Served(s)

WiringInv ==
  /\ \A s \in Clients : ClientWired(s)
  /\ \A n \in Names \ {Node} : NothingLeft(n)

\* The tor process serves the keys of the calls that listen, each its own.
KeysInv ==
  dpc # "down" =>
    \A s \in Streams : Serving(s) =>
      /\ key[s] \in published
      /\ \A t \in Streams : Serving(t) /\ key[t] = key[s] => t = s

WiredInv == RegistryInv /\ StartupInv /\ WiringInv /\ KeysInv

\* A service that was registered while the daemon was still wiring is wired
\* too once the daemon is up: one of Register and the two replays has done it.
LiveIsWired ==
  \A s \in Streams : pc[s] = "live" /\ dpc = "up" =>
    /\ localIds[NameOf[s]] = key[s]
    /\ signal[NameOf[s]] = [svc |-> s, lis |-> s]

\* Nobody generates a key for a name that has one.
KeyedInv ==
  /\ \A n \in Keyed : keyFile[n] = n
  /\ \A s \in Streams : NameOf[s] \in Keyed =>
       /\ pc[s] # "save"
       /\ pc[s] = "listen" \/ Serving(s) => key[s] = NameOf[s]

\* A name whose key is on disk is published under one onion address for good
\* (engine.go: "a subsequent AddOnion under the same name re-publishes the
\* same .onion address").
KeyedAddressStable ==
  \A n \in Keyed : onions[n] # None => key[onions[n]] = n
============================================================================
