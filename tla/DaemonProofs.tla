---------------------------- MODULE DaemonProofs ----------------------------
(***************************************************************************)
(* What the daemon promises about its data directory and its streams holds *)
(* for every number of services, contacts, calls and streams, and for      *)
(* every mix of faults, restarts and crashes.  Each of the four parts has  *)
(* an inductive invariant over its own variables and the place of the main *)
(* goroutine.                                                              *)
(***************************************************************************)
EXTENDS Daemon, TLAPS

-----------------------------------------------------------------------------
(* The keystore.                                                           *)

KeyRec == [key : Nat, pass : Passphrases \cup {None}]

KeyTypes ==
  /\ legacy \in KeyRec \cup {Absent}
  /\ keyFile \in [Services -> KeyRec \cup {Absent, Empty}]
  /\ passphrase \in Passphrases \cup {None}
  /\ cache \in [Services -> Nat \cup {None}]
  /\ used \in [Services -> Nat \cup {None}]
  /\ writing \in [name : Services, key : Nat] \cup {None}
  /\ fresh \in Nat

\* A key in use is on disk, under the old name or the new one; a key that is being
\* written is in use nowhere; a process that runs has migrated.
KeyInv ==
  /\ KeyTypes
  /\ \A n \in Services : cache[n] \in {None, used[n]}
  /\ \A n \in Services : used[n] # None => StoredKey(n) \in KeyRec /\ StoredKey(n).key = used[n]
  /\ writing # None => used[writing.name] = None /\ keyFile[writing.name] = Empty
  /\ pc # "down" => legacy = Absent \/ keyFile[Node] # Absent

-----------------------------------------------------------------------------
(* The tor binary.                                                         *)

Mix == [old : BOOLEAN, tor : {"off", "path", "bundle"}, faults : SUBSET STRING,
        starts : Nat, crashes : Nat, changes : Nat,
        streams : SUBSET Streams, handlers : SUBSET Handlers, rpcs : SUBSET Rpcs]
Launched == {"server", "listen", "up", "stop", "drain"}

\* The marker stands for a whole bundle; the tor process runs when EnsureTor is over.
TorInv ==
  /\ mix \in Mix
  /\ version = "current" /\ bin # Absent => bin = "whole"
  /\ pc \in {"clear", "extract"} => archive = "bundle"
  /\ pc = "extract" => version = Absent
  /\ pc \in {"mark", "marking", "tidy"} => bin = "whole"
  /\ pc = "launch" /\ mix.tor = "bundle" => bin = "whole"
  /\ engine # "none" => pc \in Launched
  /\ TorIntact

-----------------------------------------------------------------------------
(* The contacts.                                                           *)

Served == {"listen", "up", "stop", "drain"}
Unloaded == {"down", "identity", "save key", "contacts"}
Saving(c) == call[c].at \in {"snapped", "opened"}

CallRec == [at : {"idle", "changed", "snapped", "opened"}, op : {"add", "remove", None},
            addr : Addrs \cup {None}, list : SUBSET Addrs]
BookTypes ==
  /\ contactsFile \in (SUBSET Addrs) \cup {Absent, Empty, Torn}
  /\ contacts \subseteq Addrs /\ acked \subseteq Addrs /\ mishap \in BOOLEAN
  /\ call \in [Calls -> CallRec]

Orderly ==
  /\ pc \notin Unloaded => acked \subseteq contacts
  /\ \A c, d \in Calls : Saving(c) /\ Saving(d) => c = d
  /\ \A c \in Calls : Saving(c) => acked \subseteq call[c].list
  /\ \A c \in Calls : call[c].at = "opened" => contactsFile = Empty
  /\ (\A c \in Calls : call[c].at # "opened") =>
       \/ contactsFile = Absent /\ acked = {}
       \/ contactsFile \in SUBSET Addrs /\ acked \subseteq contactsFile

\* Without a mishap one call saves at a time, and what it saves holds every contact
\* that was reported; the file is unreadable only while it is open.
BookInv ==
  /\ BookTypes
  /\ server # "none" => pc \in Served
  /\ pc \in Unloaded => \A c \in Calls : call[c].at = "idle"
  /\ ~mishap => Orderly

-----------------------------------------------------------------------------
(* The streams.                                                            *)

BeforeRegistered == {"none", "manifest", "identity", "save key", "onion"}
WhileRegistered == {"registered", "acting", "dispatch", "error", "closed", "unregister"}
Places == BeforeRegistered \cup WhileRegistered \cup {"drop", "ended"}
HandlerPlaces == {"idle", "called", "emit", "waiting", "returned"}
Running(h) == handler[h].at \in {"called", "emit", "waiting"}
Parked(r) == handler[r].at \in {"emit", "waiting"}

\* r waits on a stream that has ended, and nobody has decided.
Left(r) == handler[r].at = "waiting" /\ loop[handler[r].on] = "ended" /\ decision[r] = "open"

StreamTypes ==
  /\ client \in [Streams -> {"none", "there", "done", "gone"}]
  /\ forward \in [Streams -> {"none", "idle", "sending", "ended"}]
  /\ loop \in [Streams -> Places]
  /\ pending \in [Streams -> SUBSET Requests]
  /\ handler \in [Handlers -> [at : HandlerPlaces, on : Streams]]
  /\ decision \in [Requests -> {"open", "yes", "no"}]
  /\ registered \subseteq Streams

\* A handler is called for a stream that is registered, and the channel it waits on is
\* parked with that stream until somebody decides.  Then nobody is left when it ends, and
\* nobody comes to wait later unless the queue was never closed.
StreamInv ==
  /\ StreamTypes
  /\ \A s \in Streams : client[s] = "none" => loop[s] = "none"
  /\ \A s \in registered : loop[s] \in WhileRegistered
  /\ \A h \in Handlers : Running(h) => loop[handler[h].on] \notin BeforeRegistered
  /\ \A r \in Requests : Parked(r) /\ decision[r] = "open" => r \in pending[handler[r].on]
  /\ \A r \in Requests : Left(r) => forward[handler[r].on] = "none"

-----------------------------------------------------------------------------
(* The process ends in six ways, and all of them are Exit.                 *)

Ends == IdentityRefused \/ IdentityUnsaved \/ ServerFails \/ GracefulStop \/ Panic \/ Crash

\* What runs without a process is its start and what clients and callers do.
LEMMA KeysLeft ==
  ASSUME [Next]_vars, ~Ends, ~Start, ~loadOrGenerateIdentity, ~RegisterNode,
         \A s \in Streams : ~ServiceKey(s)
  PROVE  UNCHANGED <<legacy, keyFile, keys>> /\ (pc # "down" \/ pc' = pc)
<1> USE DEF files, onDisk, keys
<1>1. CASE LoadContacts \/ StartHost \/ startTor \/ NewServer \/ listen
  BY <1>1 DEF LoadContacts, Load, Proceed, At, StartHost, startTor, NewServer, listen
<1>2. CASE EnsureTor
  BY <1>2 DEF EnsureTor, At, Proceed, CreateArchive, DownloadArchive, RemoveOne, ExtractSome,
              ExtractAll, OpenVersion, WriteVersion, RemoveArchive, otherFiles
<1>3. CASE EnsureTorFails
  BY <1>3 DEF EnsureTorFails, At, Proceed, RemoveOne, RemoveArchive, otherFiles
<1>4. CASE NewRegistry \/ wireSubsystems \/ StopServices \/ TorBootstrapped \/ Signal
           \/ RpcCalled \/ RpcReturns
  BY <1>4 DEF NewRegistry, wireSubsystems, Provisioned, StopServices, outsideStop, TorBootstrapped,
              Signal, At, RpcCalled, RpcReturns
<1>5. CASE SaveContacts \/ ContactCall
  BY <1>5 DEF SaveContacts, Snapshot, OpenContacts, WriteContacts, SaveFails, ContactCall,
              ChangeContacts, notContacts, process
<1>6. CASE HandlerStep \/ HandlerCall \/ HandlerAbandoned
  BY <1>6 DEF HandlerStep, HandlerCall, HandlerAbandoned, stays
<1>7. CASE \E s \in Streams : StreamStep(s) \/ ClientConnects(s) \/ ClientLeaves(s) \/ ClientStep(s)
  BY <1>7 DEF StreamStep, ReadManifest, Registers, Unregister, ClientConnects, ClientLeaves,
              ClientStep, stays
<1>8. CASE UNCHANGED vars
  BY <1>8 DEF vars, process
<1> QED
  BY <1>1, <1>2, <1>3, <1>4, <1>5, <1>6, <1>7, <1>8 DEF Ends, Next, System, Environment

\* GetOrGenerate finds the key of service n.
LEMMA KeyFoundStep ==
  ASSUME KeyInv, NEW n \in Services, KeyFound(n), pc # "down" \/ pc' = pc
  PROVE  KeyInv'
<1> USE DataDirAssumption, MarksAssumption DEF KeyInv, KeyTypes, KeyRec
<1>1. UNCHANGED <<legacy, keyFile, passphrase, writing, fresh>>
  BY DEF KeyFound, onDisk
<1>2. PICK k \in Nat :
        /\ \/ k = cache[n]
           \/ cache[n] = None /\ keyFile[n] \in KeyRec /\ k = keyFile[n].key
        /\ Given(n, k)
  <2>1. CASE cache[n] # None /\ Given(n, cache[n])
    BY <2>1
  <2>2. CASE cache[n] = None /\ loadFromDisk(n) /\ Given(n, keyFile[n].key)
    BY <2>2 DEF loadFromDisk, Unreadable
  <2> QED BY <2>1, <2>2 DEF KeyFound
<1>3. used[n] = None \/ used[n] = k
  BY <1>2 DEF StoredKey
<1>4. used' = [used EXCEPT ![n] = k] /\ cache' = [cache EXCEPT ![n] = k]
  BY <1>2, <1>3 DEF Given
<1>5. StoredKey(n) \in KeyRec /\ StoredKey(n).key = k
  BY <1>2 DEF StoredKey
<1> QED
  BY <1>1, <1>3, <1>4, <1>5 DEF StoredKey

\* GetOrGenerate finds no file and truncates a new one: nobody has used a key of n.
LEMMA OpenKeyFileStep ==
  ASSUME KeyInv, NEW n \in Services, OpenKeyFile(n),
         pc # "down" \/ n # Node, pc # "down" \/ pc' = pc
  PROVE  KeyInv'
<1> USE DataDirAssumption, MarksAssumption DEF KeyInv, KeyTypes, KeyRec
<1>1. used[n] = None /\ cache[n] = None
  BY DEF OpenKeyFile, Missing, StoredKey
<1>2. /\ writing' = [name |-> n, key |-> fresh + 1] /\ fresh' = fresh + 1
      /\ keyFile' = [keyFile EXCEPT ![n] = Empty]
      /\ UNCHANGED <<legacy, passphrase, cache, used>>
  BY DEF OpenKeyFile
<1>3. KeyTypes'
  BY <1>2
<1>4. ASSUME NEW m \in Services, used'[m] # None
      PROVE  StoredKey(m)' \in KeyRec /\ StoredKey(m)'.key = used'[m]
  BY <1>1, <1>2, <1>4 DEF StoredKey
<1>5. pc' # "down" => legacy' = Absent \/ keyFile'[Node] # Absent
  BY <1>2 DEF OpenKeyFile, Missing
<1> QED
  BY <1>1, <1>2, <1>3, <1>4, <1>5

\* The key is written and given out at once; nobody has used another one of n.
LEMMA WriteKeyFileStep ==
  ASSUME KeyInv, NEW n \in Services, WriteKeyFile(n), pc # "down" \/ pc' = pc
  PROVE  KeyInv'
<1> USE DataDirAssumption, MarksAssumption DEF KeyInv, KeyTypes, KeyRec
<1>1. writing \in [name : Services, key : Nat] /\ writing.name = n /\ used[n] = None
  BY DEF WriteKeyFile
<1>2. /\ writing' = None
      /\ keyFile' = [keyFile EXCEPT ![n] = [key |-> writing.key, pass |-> passphrase]]
      /\ used' = [used EXCEPT ![n] = writing.key] /\ cache' = [cache EXCEPT ![n] = writing.key]
      /\ UNCHANGED <<legacy, passphrase, fresh>>
  BY <1>1 DEF WriteKeyFile, Given
<1>3. KeyTypes'
  BY <1>1, <1>2
<1>4. ASSUME NEW m \in Services, used'[m] # None
      PROVE  StoredKey(m)' \in KeyRec /\ StoredKey(m)'.key = used'[m]
  BY <1>1, <1>2, <1>4 DEF StoredKey
<1> QED
  BY <1>1, <1>2, <1>3, <1>4

\* Start migrates the key of an early version, which is the one in use.
LEMMA NewKeystoreStep ==
  ASSUME KeyInv, NEW p \in Passphrases, NewKeystore(p)
  PROVE  KeyInv'
<1> USE DataDirAssumption, MarksAssumption DEF KeyInv, KeyTypes, KeyRec
<1>1. UNCHANGED <<cache, writing, fresh, used>> /\ passphrase' = p
  BY DEF NewKeystore
<1>2. CASE legacy # Absent /\ keyFile[Node] = Absent
  <2>1. keyFile' = [keyFile EXCEPT ![Node] = legacy] /\ legacy' = Absent /\ legacy \in KeyRec
    BY <1>2 DEF NewKeystore
  <2> QED BY <1>1, <1>2, <2>1 DEF StoredKey
<1>3. CASE legacy = Absent \/ keyFile[Node] # Absent
  BY <1>1, <1>3 DEF NewKeystore, StoredKey
<1> QED BY <1>2, <1>3

\* No step makes a second identity for a service.
LEMMA KeyStep ==
  ASSUME KeyInv, [Next]_vars
  PROVE  KeyInv'
<1> USE DataDirAssumption, DaemonAssumption
<1>1. CASE Ends
  <2>1. Exit
    BY <1>1 DEF Ends, IdentityRefused, IdentityUnsaved, ServerFails, GracefulStop, Panic, Crash
  <2> QED
    BY <2>1 DEF Exit, Forget, onDisk, KeyInv, KeyTypes, KeyRec, StoredKey
<1>2. CASE Start
  BY <1>2, NewKeystoreStep DEF Start
<1>3. CASE loadOrGenerateIdentity
  BY <1>3, KeyFoundStep, OpenKeyFileStep, WriteKeyFileStep DEF loadOrGenerateIdentity, At
<1>4. CASE RegisterNode
  BY <1>4, KeyFoundStep DEF RegisterNode, Provisioned
<1>5. ASSUME NEW s \in Streams, ServiceKey(s) PROVE KeyInv'
  <2> DEFINE n == NameOf[s]
  <2>1. n \in Services \ {Node} /\ pc' = pc
    BY <1>5 DEF ServiceKey, stays
  <2> HIDE DEF n
  <2>2. CASE KeyFound(n) \/ OpenKeyFile(n) \/ WriteKeyFile(n)
    BY <2>1, <2>2, KeyFoundStep, OpenKeyFileStep, WriteKeyFileStep
  <2>3. CASE KeyRefused(n)
    BY <2>1, <2>3 DEF KeyRefused, onDisk, keys, KeyInv, KeyTypes, StoredKey
  <2>4. CASE WriteKeyFails(n)
    BY <2>1, <2>4, MarksAssumption DEF WriteKeyFails, onDisk, KeyInv, KeyTypes, StoredKey
  <2> QED
    BY <1>5, <2>2, <2>3, <2>4 DEF ServiceKey, n
<1>6. CASE ~Ends /\ ~Start /\ ~loadOrGenerateIdentity /\ ~RegisterNode
           /\ \A s \in Streams : ~ServiceKey(s)
  BY <1>6, KeysLeft DEF KeyInv, KeyTypes, StoredKey, keys
<1> QED
  BY <1>1, <1>2, <1>3, <1>4, <1>5, <1>6

-----------------------------------------------------------------------------
\* What is configured stays, whatever a step uses up.
LEMMA MixStep ==
  ASSUME mix \in Mix, [Next]_vars
  PROVE  mix' \in Mix /\ mix'.tor = mix.tor
<1>1. CASE UNCHANGED mix
  BY <1>1
<1>2. CASE Spend("starts") \/ Spend("crashes") \/ Spend("changes")
  BY <1>2 DEF Spend, Mix
<1>3. UNCHANGED mix \/ Spend("starts") \/ Spend("crashes") \/ Spend("changes")
  <2>1. CASE System
    BY <2>1 DEF System, loadOrGenerateIdentity, IdentityRefused, LoadContacts, StartHost, EnsureTor,
           EnsureTorFails, startTor, NewServer, listen, NewRegistry, RegisterNode, wireSubsystems,
           StopServices, GracefulStop, SaveContacts, HandlerStep, Panic, StreamStep, ReadManifest,
           ServiceKey, Registers, Unregister, Proceed, Provisioned, outsideStop, stays
  <2>2. CASE Environment
    BY <2>2 DEF Environment, Start, IdentityUnsaved, ServerFails, TorBootstrapped, Signal, Crash,
           RpcCalled, RpcReturns, ContactCall, HandlerCall, HandlerAbandoned, ClientConnects,
           ClientLeaves, ClientStep, outsideStop, stays
  <2>3. CASE UNCHANGED vars
    BY <2>3 DEF vars
  <2> QED BY <2>1, <2>2, <2>3 DEF Next
<1> QED BY <1>1, <1>2, <1>3

\* Only EnsureTor touches the files of tor, and only startTor starts it.
LEMMA TorLeft ==
  ASSUME [Next]_vars, ~Ends, ~StartHost, ~EnsureTor, ~EnsureTorFails, ~startTor
  PROVE  /\ UNCHANGED torFiles
         /\ engine' = engine \/ (engine # "none" /\ pc' = pc)
         /\ \/ pc' = pc
            \/ /\ pc' \notin {"clear", "extract", "mark", "marking", "tidy", "launch"}
               /\ pc \in Launched => pc' \in Launched
<1> USE DEF torFiles, files, onDisk, Launched
<1>1. CASE LoadContacts \/ NewServer \/ listen \/ loadOrGenerateIdentity
  BY <1>1 DEF LoadContacts, Load, Proceed, At, NewServer, listen, loadOrGenerateIdentity, KeyFound,
              OpenKeyFile, WriteKeyFile
<1>2. CASE Start
  BY <1>2 DEF Start, NewKeystore, At
<1>3. CASE NewRegistry \/ RegisterNode \/ wireSubsystems \/ StopServices \/ TorBootstrapped \/ Signal
           \/ RpcCalled \/ RpcReturns
  BY <1>3 DEF NewRegistry, RegisterNode, KeyFound, wireSubsystems, Provisioned, StopServices,
              outsideStop, TorBootstrapped, Signal, At, RpcCalled, RpcReturns
<1>4. CASE SaveContacts \/ ContactCall
  BY <1>4 DEF SaveContacts, Snapshot, OpenContacts, WriteContacts, SaveFails, ContactCall,
              ChangeContacts, notContacts, process
<1>5. CASE HandlerStep \/ HandlerCall \/ HandlerAbandoned
  BY <1>5 DEF HandlerStep, HandlerCall, HandlerAbandoned, stays
<1>6. ASSUME NEW s \in Streams, ServiceKey(s) PROVE UNCHANGED <<torFiles, engine, pc>>
  BY <1>6 DEF ServiceKey, KeyFound, KeyRefused, OpenKeyFile, WriteKeyFile, WriteKeyFails, stays
<1>7. CASE \E s \in Streams : StreamStep(s) \/ ClientConnects(s) \/ ClientLeaves(s) \/ ClientStep(s)
  BY <1>6, <1>7 DEF StreamStep, ReadManifest, Registers, Unregister, ClientConnects, ClientLeaves,
              ClientStep, stays
<1>8. CASE UNCHANGED vars
  BY <1>8 DEF vars, process
<1> QED
  BY <1>1, <1>2, <1>3, <1>4, <1>5, <1>7, <1>8 DEF Ends, Next, System, Environment

\* A start that is cut short leaves no marker for a bundle that is not whole.
LEMMA TorStep ==
  ASSUME TorInv, [Next]_vars
  PROVE  TorInv'
<1>0. Absent \notin {"current", "whole"} /\ Empty # "current"
  BY MarksAssumption
<1> USE <1>0 DEF TorInv, TorIntact, Launched
<1>1. mix' \in Mix /\ mix'.tor = mix.tor
  BY MixStep
<1>2. CASE Ends
  <2>1. Exit
    BY <1>2 DEF Ends, IdentityRefused, IdentityUnsaved, ServerFails, GracefulStop, Panic, Crash
  <2> QED
    BY <1>1, <2>1 DEF Exit, Forget, onDisk
<1>3. CASE StartHost
  <2>1. pc = "host" /\ UNCHANGED <<archive, bin, version, engine>>
    BY <1>3 DEF StartHost, At, onDisk
  <2>2. pc' = CASE mix.tor = "off" -> "server" [] mix.tor = "path" -> "launch" [] OTHER -> "ensure"
    BY <1>3 DEF StartHost
  <2>3. pc' \in {"server", "launch", "ensure"} /\ (pc' = "launch" => mix.tor = "path")
    BY <2>2
  <2> QED BY <1>1, <2>1, <2>3
<1>4. CASE startTor
  BY <1>1, <1>4 DEF startTor, At, files, onDisk
<1>5. CASE EnsureTor
  BY <1>1, <1>5 DEF EnsureTor, At, Proceed, Cached, verifyChecksum, BinEmpty, CreateArchive,
     DownloadArchive, RemoveOne, ExtractSome, ExtractAll, OpenVersion, WriteVersion, RemoveArchive,
     files, onDisk
<1>6. CASE EnsureTorFails
  BY <1>1, <1>6 DEF EnsureTorFails, At, Proceed, RemoveOne, RemoveArchive, files, onDisk
<1>7. CASE ~Ends /\ ~StartHost /\ ~EnsureTor /\ ~EnsureTorFails /\ ~startTor
  BY <1>1, <1>7, TorLeft DEF torFiles
<1> QED
  BY <1>2, <1>3, <1>4, <1>5, <1>6, <1>7

-----------------------------------------------------------------------------
\* Contacts are loaded before there is a server, and changed by its calls alone.
LEMMA BookLeft ==
  ASSUME [Next]_vars, ~Ends, ~LoadContacts, ~SaveContacts, ~ContactCall
  PROVE  /\ UNCHANGED <<contactsFile, book>>
         /\ pc' \in Unloaded <=> pc \in Unloaded
         /\ pc' \in Served \/ (server' = server /\ pc \notin Served)
<1> USE DEF files, onDisk, Unloaded, Served
<1>1. CASE StartHost
  <2>1. pc = "host" /\ UNCHANGED <<contactsFile, book, server>>
    BY <1>1 DEF StartHost, At
  <2>2. pc' = CASE mix.tor = "off" -> "server" [] mix.tor = "path" -> "launch" [] OTHER -> "ensure"
    BY <1>1 DEF StartHost
  <2>3. pc' \in {"server", "launch", "ensure"}
    BY <2>2
  <2> QED BY <2>1, <2>3
<1>2. CASE startTor \/ NewServer \/ listen
  BY <1>2 DEF startTor, NewServer, listen, At
<1>3. CASE loadOrGenerateIdentity \/ Start
  BY <1>3 DEF Start, NewKeystore, Proceed, At, loadOrGenerateIdentity, KeyFound, OpenKeyFile, WriteKeyFile
<1>4. CASE EnsureTor
  BY <1>4 DEF EnsureTor, At, Proceed, CreateArchive, DownloadArchive, RemoveOne, ExtractSome,
              ExtractAll, OpenVersion, WriteVersion, RemoveArchive, otherFiles
<1>5. CASE EnsureTorFails
  BY <1>5 DEF EnsureTorFails, At, Proceed, RemoveOne, RemoveArchive, otherFiles
<1>6. CASE NewRegistry \/ RegisterNode \/ wireSubsystems \/ TorBootstrapped \/ RpcCalled \/ RpcReturns
  BY <1>6 DEF NewRegistry, RegisterNode, KeyFound, wireSubsystems, Provisioned, TorBootstrapped,
              RpcCalled, RpcReturns
<1>7. CASE StopServices \/ Signal
  BY <1>7 DEF StopServices, outsideStop, Signal, At
<1>8. CASE HandlerStep \/ HandlerCall \/ HandlerAbandoned
  BY <1>8 DEF HandlerStep, HandlerCall, HandlerAbandoned, stays
<1>9. ASSUME NEW s \in Streams, ServiceKey(s) PROVE UNCHANGED <<contactsFile, book, pc, server>>
  BY <1>9 DEF ServiceKey, KeyFound, KeyRefused, OpenKeyFile, WriteKeyFile, WriteKeyFails, stays
<1>10. CASE \E s \in Streams : StreamStep(s) \/ ClientConnects(s) \/ ClientLeaves(s) \/ ClientStep(s)
  BY <1>9, <1>10 DEF StreamStep, ReadManifest, Registers, Unregister, ClientConnects, ClientLeaves,
              ClientStep, stays
<1>11. CASE UNCHANGED vars
  BY <1>11 DEF vars, process
<1> QED
  BY <1>1, <1>2, <1>3, <1>4, <1>5, <1>6, <1>7, <1>8, <1>10, <1>11 DEF Ends, Next, System, Environment

\* A contact that was reported is in every list that is saved from then on.
LEMMA SaveStep ==
  ASSUME BookInv, NEW c \in Calls, UNCHANGED <<pc, server>>,
         Snapshot(c) \/ OpenContacts(c) \/ WriteContacts(c) \/ SaveFails(c)
  PROVE  BookInv'
<1>0. Absent \notin SUBSET Addrs /\ Empty \notin SUBSET Addrs /\ Absent # Empty
  BY MarksAssumption
<1>1. CASE Snapshot(c)
  <2>1. /\ call' = [call EXCEPT ![c].at = "snapped", ![c].list = contacts] /\ call[c].at = "changed"
        /\ mishap' = (mishap \/ \E d \in Calls : Saving(d))
        /\ UNCHANGED <<contactsFile, contacts, acked, pc, server>>
    BY <1>1 DEF Snapshot, onDisk, Saving
  <2>2. pc \notin Unloaded /\ call \in [Calls -> CallRec] /\ contacts \in SUBSET Addrs
    BY <2>1 DEF BookInv, BookTypes
  <2>3. call' \in [Calls -> CallRec] /\ call'[c].at = "snapped" /\ call'[c].list = contacts
        /\ \A d \in Calls \ {c} : call'[d] = call[d]
    BY <2>1, <2>2 DEF CallRec
  <2>4. BookTypes'
    BY <2>1, <2>3 DEF BookInv, BookTypes
  <2>5. ASSUME ~mishap' PROVE Orderly'
    <3>1. Orderly /\ ~mishap /\ \A d \in Calls : ~Saving(d)
      BY <2>1, <2>5 DEF BookInv
    <3> QED BY <2>1, <2>2, <2>3, <3>1 DEF Orderly, Saving
  <2> QED BY <2>1, <2>2, <2>4, <2>5 DEF BookInv
<1>2. CASE OpenContacts(c)
  <2>1. /\ call' = [call EXCEPT ![c].at = "opened"] /\ call[c].at = "snapped"
        /\ contactsFile' = Empty
        /\ UNCHANGED <<contacts, acked, mishap, pc, server>>
    BY <1>2 DEF OpenContacts
  <2>2. pc \notin Unloaded /\ call \in [Calls -> CallRec]
    BY <2>1 DEF BookInv, BookTypes
  <2>3. call' \in [Calls -> CallRec] /\ call'[c].at = "opened" /\ call'[c].list = call[c].list
        /\ \A d \in Calls \ {c} : call'[d] = call[d]
    BY <2>1, <2>2 DEF CallRec
  <2>4. BookTypes'
    BY <2>1, <2>3 DEF BookInv, BookTypes
  <2>5. ASSUME ~mishap' PROVE Orderly'
    BY <2>1, <2>2, <2>3, <2>5 DEF BookInv, Orderly, Saving
  <2> QED BY <2>1, <2>2, <2>4, <2>5 DEF BookInv
<1>3. CASE WriteContacts(c)
  <2>1. /\ call' = [call EXCEPT ![c] = IdleCall] /\ call[c].at = "opened"
        /\ contactsFile' = call[c].list \/ (contactsFile # Empty /\ contactsFile' = Torn)
        /\ Reported(c)
        /\ UNCHANGED <<contacts, mishap, pc, server>>
    BY <1>3 DEF WriteContacts
  <2>2. BookTypes' /\ pc \notin Unloaded
    <3>1. call \in [Calls -> CallRec] /\ acked \subseteq Addrs /\ contacts \subseteq Addrs
          /\ mishap \in BOOLEAN
      BY DEF BookInv, BookTypes
    <3>2. IdleCall \in CallRec /\ call[c].list \in SUBSET Addrs
      BY <3>1 DEF IdleCall, CallRec
    <3>3. call' \in [Calls -> CallRec]
      BY <2>1, <3>1, <3>2
    <3>4. acked' \subseteq Addrs /\ contactsFile' \in (SUBSET Addrs) \cup {Absent, Empty, Torn}
      BY <2>1, <3>1, <3>2 DEF Reported
    <3> QED BY <2>1, <3>1, <3>3, <3>4 DEF BookInv, BookTypes
  <2>3. ASSUME ~mishap PROVE Orderly'
    <3>1. contactsFile' = call[c].list /\ acked \subseteq call[c].list /\ acked \subseteq contacts
      BY <2>1, <2>2, <2>3 DEF BookInv, Orderly, Saving
    <3>2. acked' \subseteq contactsFile' /\ acked' \subseteq contacts
      BY <2>1, <3>1 DEF Reported
    <3>3. \A d \in Calls : ~Saving(d)'
      BY <2>1, <2>3 DEF BookInv, BookTypes, Orderly, Saving, IdleCall
    <3>4. contactsFile' \in SUBSET Addrs
      BY <3>1 DEF BookInv, BookTypes, CallRec
    <3> QED BY <2>1, <3>2, <3>3, <3>4 DEF Orderly, Saving
  <2> QED BY <2>1, <2>2, <2>3 DEF BookInv
<1>4. CASE SaveFails(c)
  BY <1>4 DEF SaveFails, IdleCall, onDisk, BookInv, BookTypes, CallRec
<1> QED BY <1>1, <1>2, <1>3, <1>4

\* The other steps of a call, of Start and of the end of the process.
LEMMA BookStep ==
  ASSUME BookInv, [Next]_vars
  PROVE  BookInv'
<1>0. \A m \in {Absent, Empty, Torn} : m \notin SUBSET Addrs
  BY MarksAssumption
<1>1. CASE Ends
  <2>1. Exit
    BY <1>1 DEF Ends, IdentityRefused, IdentityUnsaved, ServerFails, GracefulStop, Panic, Crash
  <2>2. /\ call' = [c \in Calls |-> IdleCall] /\ mishap' = (mishap \/ contactsFile \in Unreadable)
        /\ UNCHANGED <<contactsFile, acked>> /\ contacts' = {}
        /\ pc' = "down" /\ server' = "none"
    BY <2>1 DEF Exit, Forget, onDisk
  <2>3. BookTypes'
    BY <2>2 DEF BookInv, BookTypes, IdleCall, CallRec
  <2>4. ASSUME ~mishap' PROVE Orderly'
    <3>1. Orderly /\ contactsFile # Empty
      BY <2>2, <2>4 DEF BookInv, Unreadable
    <3> QED BY <2>2, <3>1 DEF Orderly, Saving, IdleCall, Unloaded
  <2> QED
    BY <2>2, <2>3, <2>4 DEF BookInv, IdleCall
<1>2. CASE LoadContacts
  <2>1. /\ pc = "contacts" /\ pc' = "host" /\ UNCHANGED <<contactsFile, call, acked, mishap, server>>
        /\ contacts' = IF contactsFile \in {Absent} \cup Unreadable THEN {} ELSE contactsFile
    BY <1>2 DEF LoadContacts, Load, Proceed, At, onDisk
  <2>2. \A c \in Calls : call[c].at = "idle"
    BY <2>1 DEF BookInv, Unloaded
  <2>3. BookTypes'
    <3>1. contacts' \subseteq Addrs
      <4>1. CASE contactsFile \in SUBSET Addrs
        BY <1>0, <2>1, <4>1 DEF Unreadable
      <4>2. CASE contactsFile \in {Absent, Empty, Torn}
        BY <2>1, <4>2 DEF Unreadable
      <4> QED BY <4>1, <4>2 DEF BookInv, BookTypes
    <3> QED BY <2>1, <3>1 DEF BookInv, BookTypes
  <2>4. ASSUME ~mishap PROVE Orderly'
    BY <1>0, <2>1, <2>2, <2>4 DEF BookInv, Orderly, Saving, Unreadable
  <2> QED
    BY <2>1, <2>3, <2>4 DEF BookInv, Served, Unloaded
<1>3. CASE SaveContacts
  BY <1>3, SaveStep DEF SaveContacts, notContacts, process
<1>4. CASE ContactCall
  <2>1. PICK c \in Calls, op \in {"add", "remove"}, a \in Addrs : ChangeContacts(c, op, a)
    BY <1>4 DEF ContactCall
  <2>2. UNCHANGED <<pc, server>> /\ pc \notin Unloaded
    BY <1>4 DEF ContactCall, Serving, notContacts, process, BookInv, Served, Unloaded
  <2>3. /\ call[c].at = "idle" /\ UNCHANGED <<contactsFile, mishap>>
        /\ call' = [call EXCEPT ![c] = [at |-> "changed", op |-> op, addr |-> a, list |-> {}]]
        /\ contacts' = IF op = "add" THEN contacts \cup {a} ELSE contacts \ {a}
        /\ acked' = IF op = "remove" THEN acked \ {a} ELSE acked
    BY <2>1 DEF ChangeContacts, onDisk
  <2>4. BookTypes'
    BY <2>3 DEF BookInv, BookTypes, CallRec
  <2>5. ASSUME ~mishap PROVE Orderly'
    <3>1. \A d \in Calls : Saving(d)' => Saving(d) /\ call'[d] = call[d]
      BY <2>3 DEF BookInv, BookTypes, Saving
    <3>2. \A d \in Calls : call'[d].at = "opened" <=> call[d].at = "opened"
      BY <2>3 DEF BookInv, BookTypes
    <3>3. acked' \subseteq acked /\ (acked \subseteq contacts => acked' \subseteq contacts')
      BY <2>3
    <3> QED
      BY <2>2, <2>3, <2>5, <3>1, <3>2, <3>3 DEF BookInv, Orderly
  <2> QED
    BY <2>2, <2>3, <2>4, <2>5 DEF BookInv
<1>5. CASE ~Ends /\ ~LoadContacts /\ ~SaveContacts /\ ~ContactCall
  <2>1. UNCHANGED <<contactsFile, contacts, call, acked, mishap>>
    BY <1>5, BookLeft DEF book
  <2>2. BookTypes' /\ (Orderly => Orderly')
    BY <1>5, <2>1, BookLeft DEF BookInv, BookTypes, Orderly, Saving
  <2> QED BY <1>5, <2>1, <2>2, BookLeft DEF BookInv
<1> QED
  BY <1>1, <1>2, <1>3, <1>4, <1>5

-----------------------------------------------------------------------------
\* A call that moves on does not come back before its registration, and ends without
\* dropping its requests only from there, when no handler has it yet.
LEMMA LoopMoves ==
  ASSUME StreamInv, NEW s \in Streams, NEW l \in Places, loop[s] # "none", Goto(s, l),
         UNCHANGED <<client, pending, handler, decision>>,
         forward' \in [Streams -> {"none", "idle", "sending", "ended"}],
         \A t \in Streams \ {s} : forward'[t] = forward[t],
         l \in BeforeRegistered \cup {"ended"} => loop[s] \in BeforeRegistered,
         registered' \subseteq Streams, registered' \ {s} = registered \ {s},
         s \in registered' => l \in WhileRegistered
  PROVE  StreamInv'
<1>1. loop' = [loop EXCEPT ![s] = l] /\ StreamTypes /\ StreamTypes'
  BY DEF Goto, StreamInv, StreamTypes
<1>2. \A t \in Streams : client'[t] = "none" => loop'[t] = "none"
  BY <1>1 DEF StreamInv, StreamTypes
<1>3. \A t \in registered' : loop'[t] \in WhileRegistered
  BY <1>1 DEF StreamInv, StreamTypes
<1>4. ASSUME NEW h \in Handlers, Running(h)' PROVE loop'[handler'[h].on] \notin BeforeRegistered
  BY <1>1, <1>4 DEF StreamInv, StreamTypes, Running
<1>5. ASSUME NEW r \in Requests, Left(r)' PROVE forward'[handler'[r].on] = "none"
  <2>1. r \in Handlers /\ Running(r) /\ handler[r].on \in Streams
    BY <1>1, <1>5 DEF Handlers, Running, Left, StreamTypes
  <2>2. loop[handler[r].on] \notin BeforeRegistered
    BY <2>1 DEF StreamInv
  <2>3. handler[r].on # s /\ Left(r)
    BY <1>1, <1>5, <2>1, <2>2 DEF StreamTypes, Left
  <2> QED
    BY <1>1, <2>1, <2>3 DEF StreamInv
<1> QED
  BY <1>1, <1>2, <1>3, <1>4, <1>5 DEF StreamInv, Parked

\* The steps of RegisterService, of its forwarder and of its client.
LEMMA StreamMoves ==
  ASSUME StreamInv, NEW s \in Streams,
         StreamStep(s) \/ ClientStep(s) \/ ClientConnects(s) \/ ClientLeaves(s)
  PROVE  StreamInv'
<1>0. StreamTypes /\ Requests \subseteq Handlers
  BY DEF StreamInv, Handlers
<1>1. CASE ReadManifest(s) \/ ServiceKey(s)
  <2>1. PICK from \in {"manifest", "identity", "save key"}, to \in {"identity", "save key", "onion", "ended"} :
          Advance(s, from, to)
    BY <1>1 DEF ReadManifest, ServiceKey
  <2>2. UNCHANGED registered /\ s \notin registered
    BY <1>1, <2>1 DEF ReadManifest, ServiceKey, Advance, StreamInv, WhileRegistered
  <2> QED
    BY <1>0, <2>1, <2>2, LoopMoves DEF Advance, StreamTypes, Places, BeforeRegistered
<1>2. CASE Registers(s)
  <2>1. loop[s] = "onion" /\ UNCHANGED <<client, forward, pending, handler, decision>> /\ s \notin registered
    BY <1>2 DEF Registers, Advance, StreamInv, WhileRegistered
  <2>2. \/ Goto(s, "registered") /\ registered' = registered \cup {s}
        \/ Goto(s, "ended") /\ registered' = registered
    BY <1>2 DEF Registers, Advance
  <2> QED
    BY <1>0, <2>1, <2>2, LoopMoves DEF StreamTypes, Places, BeforeRegistered, WhileRegistered
<1>3. CASE Unregister(s)
  <2>1. loop[s] = "unregister" /\ UNCHANGED <<client, forward, pending, handler, decision>> /\ Goto(s, "drop")
        /\ registered' = registered \ {s}
    BY <1>3 DEF Unregister, Advance
  <2> QED
    BY <1>0, <2>1, LoopMoves DEF StreamTypes, Places, BeforeRegistered
<1>4. ASSUME NEW to \in {"acting", "unregister", "closed", "dispatch", "error"},
             loop[s] \in {"registered", "acting", "closed", "dispatch", "error"}, Goto(s, to),
             forward' = forward \/ forward' = [forward EXCEPT ![s] = "idle"],
             UNCHANGED <<client, pending, handler, decision, registered>>
      PROVE  StreamInv'
  <2>1. forward' \in [Streams -> {"none", "idle", "sending", "ended"}]
        /\ \A t \in Streams \ {s} : forward'[t] = forward[t]
    BY <1>0, <1>4 DEF StreamTypes
  <2> QED
    BY <1>0, <1>4, <2>1, LoopMoves DEF StreamTypes, Places, BeforeRegistered, WhileRegistered
<1>5. CASE /\ SendRegistered(s) \/ LoopEnds(s) \/ ForwarderEnded(s) \/ SendError(s) \/ ReadSend(s)
              \/ (\E ok \in BOOLEAN : Dispatched(s, ok))
           /\ UNCHANGED registered
  BY <1>4, <1>5 DEF SendRegistered, LoopEnds, ForwarderEnded, SendError, ReadSend, Dispatched
<1>6. CASE Dropped(s) /\ UNCHANGED registered
  <2>1. /\ loop[s] = "drop" /\ loop' = [loop EXCEPT ![s] = "ended"]
        /\ pending' = [pending EXCEPT ![s] = {}]
        /\ decision' = [r \in Requests |-> IF r \in pending[s] /\ decision[r] = "open" THEN "no" ELSE decision[r]]
        /\ UNCHANGED <<client, forward, handler, registered>>
    BY <1>6 DEF Dropped, Goto, dropAll
  <2>2. StreamTypes'
    BY <1>0, <2>1 DEF StreamTypes, Places
  <2>3. \A r \in Requests : decision'[r] = "open" => decision[r] = "open" /\ r \notin pending[s]
    BY <1>0, <2>1 DEF StreamTypes
  <2>4. ASSUME NEW r \in Requests, Parked(r), decision'[r] = "open"
        PROVE  r \in pending'[handler[r].on] /\ handler[r].on # s
    BY <1>0, <2>1, <2>3, <2>4 DEF StreamInv, StreamTypes
  <2>5. \A r \in Requests : Left(r)' => forward'[handler'[r].on] = "none"
    BY <1>0, <2>1, <2>3, <2>4 DEF StreamInv, StreamTypes, Parked, Left
  <2>6. \A h \in Handlers : Running(h)' => loop'[handler'[h].on] \notin BeforeRegistered
    BY <1>0, <2>1 DEF StreamInv, StreamTypes, Running, BeforeRegistered
  <2>7. /\ \A t \in Streams : client'[t] = "none" => loop'[t] = "none"
        /\ \A t \in registered' : loop'[t] \in WhileRegistered
    BY <1>0, <2>1 DEF StreamInv, StreamTypes, WhileRegistered
  <2> QED
    BY <2>1, <2>2, <2>4, <2>5, <2>6, <2>7 DEF StreamInv, Parked
<1>7. CASE (ForwardTake(s) \/ ForwardEnds(s) \/ ForwardSent(s)) /\ UNCHANGED registered
  <2>1. /\ forward[s] # "none" /\ \E f \in {"idle", "sending", "ended"} : forward' = [forward EXCEPT ![s] = f]
        /\ UNCHANGED <<client, loop, pending, handler, decision, registered>>
    BY <1>7 DEF ForwardTake, ForwardEnds, ForwardSent
  <2>2. StreamTypes' /\ \A t \in Streams : forward[t] = "none" => forward'[t] = "none"
    BY <1>0, <2>1 DEF StreamTypes
  <2>3. \A r \in Requests : handler[r].on \in Streams
    BY <1>0 DEF StreamTypes
  <2> QED
    BY <2>1, <2>2, <2>3 DEF StreamInv, Parked, Running, Left
<1>8. ASSUME NEW r \in Requests, NEW d \in {"yes", "no"}, ReadAction(s, r, d), UNCHANGED registered
      PROVE  StreamInv'
  <2>1. CASE r \notin pending[s]
    BY <1>4, <1>8, <2>1 DEF ReadAction, Decide
  <2>2. CASE r \in pending[s]
    <3>1. /\ pending' = [pending EXCEPT ![s] = @ \ {r}]
          /\ decision' = [decision EXCEPT ![r] = IF @ = "open" THEN d ELSE @]
          /\ UNCHANGED <<client, loop, forward, handler, registered>>
      BY <1>8, <2>2 DEF ReadAction, Decide, take
    <3>2. StreamTypes' /\ decision'[r] # "open" /\ \A q \in Requests \ {r} : decision'[q] = decision[q]
      BY <1>0, <3>1 DEF StreamTypes
    <3>3. ASSUME NEW q \in Requests, Parked(q), decision'[q] = "open" PROVE q \in pending'[handler[q].on]
      BY <1>0, <3>1, <3>2, <3>3 DEF StreamInv, StreamTypes
    <3>4. \A q \in Requests : decision'[q] = "open" => decision[q] = "open"
      BY <3>2
    <3> QED
      BY <3>1, <3>2, <3>3, <3>4 DEF StreamInv, Parked, Running, Left
  <2> QED BY <2>1, <2>2
<1>9. CASE ClientConnects(s)
  <2>1. /\ client[s] = "none" /\ client' = [client EXCEPT ![s] = "there"]
        /\ loop' = [loop EXCEPT ![s] = "manifest"] /\ loop[s] = "none"
        /\ UNCHANGED <<forward, pending, handler, decision, registered>>
    BY <1>9 DEF ClientConnects, Connect, Goto, StreamInv
  <2>2. StreamTypes'
    BY <1>0, <2>1 DEF StreamTypes, Places, BeforeRegistered
  <2>3. \A h \in Handlers : Running(h) => handler[h].on # s
    BY <2>1 DEF StreamInv, BeforeRegistered
  <2>4. s \notin registered
    BY <2>1 DEF StreamInv, WhileRegistered
  <2>5. \A r \in Requests : Left(r)' => forward'[handler'[r].on] = "none"
    BY <1>0, <2>1, <2>3 DEF StreamInv, StreamTypes, Running, Left
  <2>6. \A h \in Handlers : Running(h)' => loop'[handler'[h].on] \notin BeforeRegistered
    BY <1>0, <2>1, <2>3 DEF StreamInv, StreamTypes, Running
  <2>7. /\ \A t \in Streams : client'[t] = "none" => loop'[t] = "none"
        /\ \A t \in registered' : loop'[t] \in WhileRegistered
    BY <1>0, <2>1, <2>4 DEF StreamInv, StreamTypes
  <2> QED
    BY <2>1, <2>2, <2>5, <2>6, <2>7 DEF StreamInv, Parked
<1>10. CASE ClientLeaves(s)
  BY <1>10 DEF ClientLeaves, HalfClose, Disconnect, StreamInv, StreamTypes, Parked, Running, Left
<1> QED
  BY <1>1, <1>2, <1>3, <1>5, <1>6, <1>7, <1>8, <1>9, <1>10 DEF StreamStep, ClientStep

\* A request is parked before its handler can wait, and comes to wait on an open queue only.
LEMMA HandlerMoves ==
  ASSUME StreamInv, HandlerCall \/ HandlerStep \/ HandlerAbandoned
  PROVE  StreamInv'
<1>0. StreamTypes /\ UNCHANGED registered /\ Requests \subseteq Handlers
  BY DEF StreamInv, HandlerCall, HandlerStep, HandlerAbandoned, Handlers
<1>1. ASSUME NEW h \in Handlers, NEW s \in registered, HandlerCalled(h, s) PROVE StreamInv'
  <2>1. /\ handler' = [handler EXCEPT ![h] = [at |-> IF h \in Requests THEN "called" ELSE "emit", on |-> s]]
        /\ UNCHANGED <<client, loop, forward, pending, decision>>
    BY <1>1 DEF HandlerCalled
  <2>2. s \in Streams /\ loop[s] \in WhileRegistered
    BY <1>0, <1>1 DEF StreamInv, StreamTypes
  <2>3. StreamTypes'
    BY <1>0, <2>1, <2>2 DEF StreamTypes, HandlerPlaces
  <2>4. \A g \in Handlers : Running(g)' => loop'[handler'[g].on] \notin BeforeRegistered
    BY <1>0, <2>1, <2>2 DEF StreamInv, StreamTypes, Running, BeforeRegistered, WhileRegistered
  <2>5. \A r \in Requests : (Parked(r)' \/ Left(r)') => handler'[r] = handler[r]
    BY <1>0, <2>1 DEF StreamTypes, Parked, Left
  <2> QED
    BY <1>0, <2>1, <2>3, <2>4, <2>5 DEF StreamInv, Parked, Left
<1>2. ASSUME NEW h \in Handlers, Emit(h) PROVE StreamInv'
  <2>1. /\ handler[h].at = "emit" /\ ~Closed(handler[h].on)
        /\ \/ handler' = [handler EXCEPT ![h].at = IF h \in Requests THEN "waiting" ELSE "returned"]
           \/ handler' = handler
        /\ UNCHANGED <<client, loop, forward, pending, decision>>
    BY <1>2 DEF Emit
  <2>2. StreamTypes'
    BY <1>0, <2>1 DEF StreamTypes, HandlerPlaces
  <2>3. \A g \in Handlers : handler'[g].on = handler[g].on /\ (Running(g)' => Running(g))
        /\ (Parked(g)' => Parked(g)) /\ (g # h => handler'[g] = handler[g])
    BY <1>0, <2>1 DEF StreamTypes, Running, Parked
  <2>4. \A r \in Requests : Left(r)' => forward'[handler'[r].on] = "none"
    BY <1>0, <2>1, <2>3 DEF StreamInv, StreamTypes, Left, Closed
  <2> QED
    BY <1>0, <2>1, <2>2, <2>3, <2>4 DEF StreamInv
<1>3. ASSUME NEW r \in Requests, Decided(r) \/ Abandoned(r) PROVE StreamInv'
  <2>1. /\ handler' = [handler EXCEPT ![r].at = "returned"]
        /\ pending' = pending \/ pending' = [pending EXCEPT ![handler[r].on] = @ \ {r}]
        /\ UNCHANGED <<client, loop, forward, decision>>
    BY <1>3 DEF Decided, Abandoned, Return, take
  <2>2. StreamTypes'
    <3>1. handler[r].on \in Streams
      BY <1>0 DEF StreamTypes
    <3>2. pending' \in [Streams -> SUBSET Requests]
      BY <1>0, <2>1, <3>1 DEF StreamTypes
    <3>3. handler' \in [Handlers -> [at : HandlerPlaces, on : Streams]]
      BY <1>0, <2>1 DEF StreamTypes, HandlerPlaces
    <3> QED BY <1>0, <2>1, <3>2, <3>3 DEF StreamTypes
  <2>3. \A g \in Handlers : handler'[g].on = handler[g].on /\ (Running(g)' => Running(g))
        /\ (Parked(g)' => g # r /\ Parked(g)) /\ (handler'[g].at = "waiting" => handler[g].at = "waiting")
    BY <1>0, <2>1 DEF StreamTypes, Running, Parked
  <2>4. \A q \in Requests : Parked(q)' /\ decision'[q] = "open" => q \in pending'[handler'[q].on]
    BY <1>0, <2>1, <2>3 DEF StreamInv, StreamTypes
  <2> QED
    BY <1>0, <2>1, <2>2, <2>3, <2>4 DEF StreamInv, Left
<1>4. ASSUME NEW r \in Requests, Park(r) PROVE StreamInv'
  <2>1. /\ handler[r].at = "called" /\ handler' = [handler EXCEPT ![r].at = "emit"]
        /\ pending' = [pending EXCEPT ![handler[r].on] = @ \cup {r}]
        /\ UNCHANGED <<client, loop, forward, decision>>
    BY <1>4 DEF Park
  <2>2. handler[r].on \in Streams
    BY <1>0 DEF StreamTypes
  <2>3. StreamTypes'
    BY <1>0, <2>1, <2>2 DEF StreamTypes, HandlerPlaces
  <2>4. \A g \in Handlers : handler'[g].on = handler[g].on /\ (Running(g)' => Running(g))
        /\ (g # r => handler'[g] = handler[g])
    BY <1>0, <2>1 DEF StreamTypes, Running
  <2>5. \A q \in Requests : Parked(q)' /\ decision'[q] = "open" => q \in pending'[handler'[q].on]
    BY <1>0, <2>1, <2>2, <2>4 DEF StreamInv, StreamTypes, Parked
  <2>6. \A q \in Requests : Left(q)' => Left(q)
    BY <1>0, <2>1, <2>4 DEF StreamTypes, Left
  <2> QED
    BY <1>0, <2>1, <2>3, <2>4, <2>5, <2>6 DEF StreamInv
<1> QED
  BY <1>1, <1>2, <1>3, <1>4 DEF HandlerCall, HandlerStep, HandlerAbandoned

\* When the process ends every handler has returned; nothing else touches the streams.
LEMMA StreamsKept ==
  ASSUME StreamInv, [Next]_vars
  PROVE  StreamInv'
<1>1. CASE Ends
  <2>1. Exit
    BY <1>1 DEF Ends, IdentityRefused, IdentityUnsaved, ServerFails, GracefulStop, Panic, Crash
  <2>2. StreamsEnd /\ registered' = {}
    BY <2>1 DEF Exit
  <2>3. StreamTypes'
    <3>1. StreamTypes
      BY DEF StreamInv
    <3>2. /\ client' \in [Streams -> {"none", "there", "done", "gone"}] /\ loop' \in [Streams -> Places]
          /\ forward' \in [Streams -> {"none", "idle", "sending", "ended"}]
      BY <2>2 DEF StreamsEnd, Places, BeforeRegistered
    <3>3. pending' \in [Streams -> SUBSET Requests] /\ decision' = decision
      BY <2>2 DEF StreamsEnd
    <3>4. handler' \in [Handlers -> [at : HandlerPlaces, on : Streams]]
      BY <2>2, <3>1 DEF StreamsEnd, StreamTypes, HandlerPlaces
    <3>5. QED
      BY <2>2, <3>1, <3>2, <3>3, <3>4 DEF StreamTypes
  <2>4. \A h \in Handlers : handler'[h].at \in {"idle", "returned"}
    BY <2>2 DEF StreamsEnd, StreamInv, StreamTypes
  <2> QED
    BY <2>2, <2>3, <2>4 DEF StreamsEnd, StreamInv, StreamTypes, Parked, Running, Left, Handlers
<1>2. CASE HandlerCall \/ HandlerStep \/ HandlerAbandoned
  BY <1>2, HandlerMoves
<1>3. CASE \E s \in Streams : StreamStep(s) \/ ClientStep(s) \/ ClientConnects(s) \/ ClientLeaves(s)
  BY <1>3, StreamMoves
<1>4. ASSUME UNCHANGED <<streamVars, registered>> PROVE StreamInv'
  BY <1>4 DEF streamVars, StreamInv, StreamTypes, Parked, Running, Left
<1>5. CASE loadOrGenerateIdentity \/ LoadContacts \/ EnsureTor \/ EnsureTorFails
  BY <1>4, <1>5 DEF loadOrGenerateIdentity, LoadContacts, EnsureTor, EnsureTorFails, Proceed
<1>6. CASE Start \/ StartHost \/ startTor \/ NewServer \/ listen
  BY <1>4, <1>6 DEF Start, StartHost, startTor, NewServer, listen
<1>7. CASE NewRegistry \/ RegisterNode \/ wireSubsystems \/ TorBootstrapped \/ StopServices \/ Signal
           \/ RpcCalled \/ RpcReturns
  BY <1>4, <1>7 DEF NewRegistry, RegisterNode, wireSubsystems, Provisioned, TorBootstrapped,
                    StopServices, Signal, outsideStop, RpcCalled, RpcReturns
<1>8. CASE SaveContacts \/ ContactCall
  BY <1>4, <1>8 DEF SaveContacts, ContactCall, notContacts, process
<1>9. CASE UNCHANGED vars
  BY <1>4, <1>9 DEF vars, process
<1> QED
  BY <1>1, <1>2, <1>3, <1>5, <1>6, <1>7, <1>8, <1>9 DEF Ends, Next, System, Environment

-----------------------------------------------------------------------------
(* The theorems.                                                           *)

\* Whatever is found in the data directory at first.
LEMMA DaemonInit == Init => KeyInv /\ TorInv /\ BookInv /\ StreamInv
<1> SUFFICES ASSUME Init PROVE KeyInv /\ TorInv /\ BookInv /\ StreamInv
  OBVIOUS
<1>1. mix \in Mix
  BY DaemonAssumption DEF Init, Mix
<1>2. KeyInv
  <2>1. (CHOOSE p \in Passphrases : TRUE) \in Passphrases
    BY DataDirAssumption
  <2>2. [key |-> 0, pass |-> CHOOSE p \in Passphrases : TRUE] \in KeyRec
    BY <2>1 DEF KeyRec
  <2>3. CASE mix.old
    <3>1. /\ legacy = [key |-> 0, pass |-> CHOOSE p \in Passphrases : TRUE]
          /\ used = [n \in Services |-> IF n = Node THEN 0 ELSE None]
          /\ keyFile = [n \in Services |-> Absent] /\ cache = [n \in Services |-> None]
          /\ passphrase = None /\ writing = None /\ fresh = 0 /\ pc = "down"
      BY <2>3 DEF Init, DataDirInit
    <3>2. \A n \in Services : used[n] # None => n = Node /\ used[n] = 0
      BY <3>1
    <3>3. legacy \in KeyRec /\ legacy.key = 0
      BY <2>2, <3>1
    <3> QED
      BY <3>1, <3>2, <3>3, DataDirAssumption DEF KeyInv, KeyTypes, StoredKey
  <2>4. CASE ~mix.old
    BY <2>4, DataDirAssumption, MarksAssumption
       DEF Init, DataDirInit, KeyInv, KeyTypes, StoredKey
  <2> QED
    BY <2>3, <2>4
<1>3. TorInv
  BY <1>1 DEF Init, DataDirInit, TorInv, TorIntact
<1>4. BookInv
  BY DEF Init, DataDirInit, BookInv, BookTypes, CallRec, IdleCall, Orderly, Saving, Unloaded
<1>5. StreamInv
  <2>1. (CHOOSE s \in Streams : TRUE) \in Streams
    BY StreamAssumption
  <2> QED
    BY <2>1 DEF Init, StreamsStart, StreamInv, StreamTypes, Parked, Running, Left, HandlerPlaces, Places,
                BeforeRegistered, Handlers
<1> QED BY <1>2, <1>3, <1>4, <1>5

\* Type correctness of the daemon's directory and streams, and the four invariants
\* that GetOrGenerate, EnsureTor, Save and RegisterService keep.
THEOREM DaemonInvariant == Spec => [](KeyInv /\ TorInv /\ BookInv /\ StreamInv)
<1>1. KeyInv /\ TorInv /\ BookInv /\ StreamInv /\ [Next]_vars => (KeyInv /\ TorInv /\ BookInv /\ StreamInv)'
  BY KeyStep, TorStep, BookStep, StreamsKept
<1> QED BY <1>1, DaemonInit, PTL DEF Spec

\* GetOrGenerate never replaces the identity of a service.
THEOREM IdentityKept == Spec => []IdentityStable
<1>1. KeyInv => IdentityStable
  BY MarksAssumption DEF KeyInv, KeyTypes, KeyRec, IdentityStable
<1> QED BY <1>1, DaemonInvariant, PTL

\* EnsureTor runs nothing but the bundle it has verified.
THEOREM TorVerified == Spec => []TorIntact
<1>1. TorInv => TorIntact
  BY DEF TorInv
<1> QED BY <1>1, DaemonInvariant, PTL

\* Store.Save loses no contact that was reported, short of a mishap.
THEOREM ContactsKept == Spec => []ContactsDurable
<1>1. BookInv => ContactsDurable
  <2> SUFFICES ASSUME BookInv, ~mishap, \A c \in Calls : call[c].at # "opened"
               PROVE  /\ acked # {} => contactsFile \notin {Absent, Empty, Torn} /\ acked \subseteq contactsFile
                      /\ Serving => acked \subseteq contacts
    BY DEF ContactsDurable
  <2>1. \A m \in {Absent, Empty, Torn} : m \notin SUBSET Addrs
    BY MarksAssumption
  <2> QED
    BY <2>1 DEF BookInv, Orderly, Serving, Served, Unloaded
<1> QED BY <1>1, DaemonInvariant, PTL

\* RegisterService returns with its service out of the registry and nobody waiting, but for
\* requests that park later on a stream that never sent ServiceRegistered.
THEOREM StreamsSettled == Spec => []StreamSettled
<1>1. StreamInv => StreamSettled
  BY DEF StreamInv, StreamSettled, WhileRegistered, Parked, Left
<1> QED BY <1>1, DaemonInvariant, PTL
=============================================================================
