------------------------------ MODULE DataDir ------------------------------
(***************************************************************************)
(* What the daemon keeps in its data directory, and the code that reads    *)
(* and writes it: the keystore, the contacts store and the provider of the *)
(* tor binary.  Files are written in place (os.WriteFile, os.Create): they *)
(* are truncated first, so a process that dies leaves them Empty, and two  *)
(* writers at once may leave them Torn.                                    *)
(***************************************************************************)
EXTENDS Naturals, FiniteSets

CONSTANTS
  Node,               \* the node service
  Services,           \* service names
  Addrs,              \* addresses of contacts
  Calls,              \* API calls that change the contacts
  Passphrases,
  Absent, Empty, Torn, None

ASSUME DataDirAssumption == Node \in Services /\ Passphrases # {}

\* The marks for what a file or a map does not hold are no contents of it.
ASSUME MarksAssumption ==
  /\ \A m \in {Absent, Empty, Torn, None} :
       /\ m \notin {"old", "current", "bundle", "foreign", "partial", "whole"}
       /\ m \notin Nat /\ (\A X \in SUBSET Addrs : m # X)
       /\ m \notin [key : Nat, pass : Passphrases \cup {None}]
       /\ m \notin [name : Services, key : Nat]
  /\ Absent \notin {Empty, Torn, None} /\ Empty \notin {Torn, None} /\ Torn # None

VARIABLES
  legacy,         \* identity.key, where early versions kept the node's key
  keyFile,        \* keyFile[n]: services/n/identity.key
  contactsFile,   \* contacts.json
  archive,        \* the downloaded bundle
  bin, version,   \* tor/bin: the files of the bundle, and the marker version.txt
  passphrase,     \* Keystore.passphrase
  cache,          \* Keystore.cache
  writing,        \* the key that is being written, under Keystore.mu
  contacts,       \* Store.contacts
  call,           \* the calls of AddContact and RemoveContact
  fresh,          \* history: number of keys generated
  used,           \* history: the first key a service was given
  acked,          \* history: contacts whose addition was reported and whose removal was not asked for
  mishap          \* history: a save was cut short, failed or overlapped with another

onDisk == <<legacy, keyFile, contactsFile, archive, bin, version>>
keys == <<passphrase, cache, writing, fresh, used>>
book == <<contacts, call, acked, mishap>>

IdleCall == [at |-> "idle", op |-> None, addr |-> None, list |-> {}]
Unreadable == {Empty, Torn}

\* A directory that an early version may have left, or one with an older tor.
DataDirInit(old) ==
  /\ legacy = IF old THEN [key |-> 0, pass |-> CHOOSE p \in Passphrases : TRUE] ELSE Absent
  /\ keyFile = [n \in Services |-> Absent]
  /\ contactsFile = Absent
  /\ archive = Absent
  /\ bin = (IF old THEN "old" ELSE Absent) /\ version = (IF old THEN "old" ELSE Absent)
  /\ passphrase = None
  /\ cache = [n \in Services |-> None]
  /\ writing = None
  /\ contacts = {}
  /\ call = [c \in Calls |-> IdleCall]
  /\ fresh = 0
  /\ used = [n \in Services |-> IF old /\ n = Node THEN 0 ELSE None]
  /\ acked = {} /\ mishap = FALSE

\* The process ends: memory is gone, files stay as they are.
Forget ==
  /\ passphrase' = None
  /\ cache' = [n \in Services |-> None]
  /\ writing' = None
  /\ contacts' = {}
  /\ call' = [c \in Calls |-> IdleCall]
  /\ mishap' = (mishap \/ contactsFile \in Unreadable)
  /\ UNCHANGED <<onDisk, fresh, used, acked>>

-----------------------------------------------------------------------------
(* Keystore.                                                               *)

NewKeystore(p) ==
  LET migrate == legacy # Absent /\ keyFile[Node] = Absent
  IN /\ passphrase' = p
     /\ keyFile' = IF migrate THEN [keyFile EXCEPT ![Node] = legacy] ELSE keyFile
     /\ legacy' = IF migrate THEN Absent ELSE legacy
     /\ UNCHANGED <<contactsFile, archive, bin, version, cache, writing, fresh, used, book>>

loadFromDisk(n) == keyFile[n] \notin {Absent} \cup Unreadable /\ keyFile[n].pass = passphrase

Given(n, k) ==
  /\ cache' = [cache EXCEPT ![n] = k]
  /\ used' = IF used[n] = None THEN [used EXCEPT ![n] = k] ELSE used

\* GetOrGenerate, under the lock: the key is there, ...
KeyFound(n) ==
  /\ writing = None
  /\ \/ cache[n] # None /\ Given(n, cache[n])
     \/ cache[n] = None /\ loadFromDisk(n) /\ Given(n, keyFile[n].key)
  /\ UNCHANGED <<onDisk, passphrase, writing, fresh, book>>

\* Mutant of Missing: a key that cannot be read is replaced.
MutMissing(n) == ~loadFromDisk(n)

Missing(n) == keyFile[n] = Absent

\* ... or its file cannot be read or decrypted, which is an error, ...
Refused(n) == writing = None /\ cache[n] = None /\ ~Missing(n) /\ ~loadFromDisk(n)
KeyRefused(n) == Refused(n) /\ UNCHANGED <<onDisk, keys, book>>

\* ... or there is none yet: generate and save.
OpenKeyFile(n) ==
  /\ writing = None /\ cache[n] = None /\ Missing(n)
  /\ fresh' = fresh + 1
  /\ writing' = [name |-> n, key |-> fresh + 1]
  /\ keyFile' = [keyFile EXCEPT ![n] = Empty]
  /\ UNCHANGED <<legacy, contactsFile, archive, bin, version, passphrase, cache, used, book>>

WriteKeyFile(n) ==
  /\ writing # None /\ writing.name = n /\ writing' = None
  /\ keyFile' = [keyFile EXCEPT ![n] = [key |-> writing.key, pass |-> passphrase]]
  /\ Given(n, writing.key)
  /\ UNCHANGED <<legacy, contactsFile, archive, bin, version, passphrase, fresh, book>>
WriteKeyFails(n) ==
  /\ writing # None /\ writing.name = n /\ writing' = None
  /\ UNCHANGED <<onDisk, passphrase, cache, fresh, used, book>>

-----------------------------------------------------------------------------
(* Contacts: Add or Remove, then Save.                                     *)

\* Mutant of Load: what was read is not put into the store.
MutLoad == contacts' = {} /\ UNCHANGED <<onDisk, keys, call, acked, mishap>>

\* A file that cannot be parsed leaves the store empty; Start only logs it.
Load ==
  /\ contacts' = IF contactsFile \in {Absent} \cup Unreadable THEN {} ELSE contactsFile
  /\ UNCHANGED <<onDisk, keys, call, acked, mishap>>

ChangeContacts(c, op, a) ==
  /\ call[c].at = "idle"
  /\ contacts' = IF op = "add" THEN contacts \cup {a} ELSE contacts \ {a}
  /\ call' = [call EXCEPT ![c] = [at |-> "changed", op |-> op, addr |-> a, list |-> {}]]
  /\ acked' = IF op = "remove" THEN acked \ {a} ELSE acked
  /\ UNCHANGED <<onDisk, keys, mishap>>

\* Save copies the list under the lock and goes on without it.
Snapshot(c) ==
  /\ call[c].at = "changed"
  /\ call' = [call EXCEPT ![c].at = "snapped", ![c].list = contacts]
  /\ mishap' = (mishap \/ \E d \in Calls : call[d].at \in {"snapped", "opened"})
  /\ UNCHANGED <<onDisk, keys, contacts, acked>>
OpenContacts(c) ==
  /\ call[c].at = "snapped"
  /\ call' = [call EXCEPT ![c].at = "opened"]
  /\ contactsFile' = Empty
  /\ UNCHANGED <<legacy, keyFile, archive, bin, version, keys, contacts, acked, mishap>>

Reported(c) ==
  acked' = IF call[c].op = "add" /\ call[c].addr \in call[c].list \cap contacts
           THEN acked \cup {call[c].addr} ELSE acked

\* What another call has written meanwhile may be longer and show at the end.
WriteContacts(c) ==
  /\ call[c].at = "opened"
  /\ \/ contactsFile' = call[c].list
     \/ contactsFile \notin {Empty, call[c].list} /\ contactsFile' = Torn
  /\ call' = [call EXCEPT ![c] = IdleCall]
  /\ Reported(c)
  /\ UNCHANGED <<legacy, keyFile, archive, bin, version, keys, contacts, mishap>>
SaveFails(c) ==
  /\ call[c].at = "opened"
  /\ call' = [call EXCEPT ![c] = IdleCall]
  /\ mishap' = TRUE
  /\ UNCHANGED <<onDisk, keys, contacts, acked>>

-----------------------------------------------------------------------------
(* EnsureTor, one step of the directory after the other.                   *)

\* Mutant of Cached: the marker is not looked at.
MutCached == bin # Absent
Cached == version = "current" /\ bin # Absent

torFiles == <<archive, bin, version>>
otherFiles == <<legacy, keyFile, contactsFile, keys, book>>

\* The archive is created, and holds the bundle, something else or a part.
CreateArchive == archive' = Empty /\ UNCHANGED <<bin, version, otherFiles>>
DownloadArchive(content) == archive' = content /\ UNCHANGED <<bin, version, otherFiles>>
RemoveArchive == archive' = Absent /\ UNCHANGED <<bin, version, otherFiles>>

\* RemoveAll empties the directory one file after the other, in any order.
RemoveOne ==
  /\ \/ version # Absent /\ version' = Absent /\ bin' = bin
     \/ bin # Absent /\ bin' = Absent /\ version' = version
  /\ UNCHANGED <<archive, otherFiles>>
BinEmpty == bin = Absent /\ version = Absent

ExtractSome == bin' = "partial" /\ UNCHANGED <<archive, version, otherFiles>>
ExtractAll ==
  /\ bin' = IF archive = "bundle" THEN "whole" ELSE "foreign"
  /\ UNCHANGED <<archive, version, otherFiles>>
OpenVersion == version' = Empty /\ UNCHANGED <<archive, bin, otherFiles>>
WriteVersion == version' = "current" /\ UNCHANGED <<archive, bin, otherFiles>>
=============================================================================
