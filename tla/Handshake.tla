----------------------------- MODULE Handshake -----------------------------
(***************************************************************************)
(* The three-step signaling handshake over Tor streams: initiators         *)
(* (signaling.Client.RequestConnection, or performClientHandshake followed *)
(* by ExchangeIPs in transport.Connector), the handler goroutine the       *)
(* signaling.Server runs per connection, the user's decisions routed       *)
(* through Node.pendingReqs, and the per-service ACL gate.                 *)
(*                                                                         *)
(* An address stands for the key that hashes to it.  A signature is the    *)
(* pair of the signer and the nonce.  The nonces of connection c are       *)
(* <<"req", c>> and <<"resp", c>>.  What the checks of the handshake are   *)
(* for is in the model: a lookup may be stale, so a dial may land on any   *)
(* service; an old request may arrive again on a new stream that has no    *)
(* initiator behind it; a peer of another make may answer requests that    *)
(* are not for it, or put an address that is not its own in a request.     *)
(***************************************************************************)
EXTENDS Naturals, FiniteSets, Sequences

CONSTANTS
  Initiators,    \* addresses that dial
  Clients,       \* those that use Client.RequestConnection; the others a Connector
  Services,      \* addresses of the services behind the onion listeners
  Acl,           \* Acl[s]: who decides about unknown peers
  Allowlist,     \* addresses on the allowlist of the services that have one
  HasContacts,   \* services configured with a contact store (the node service)
  KnownPeers,    \* addresses the user may add to the contact store and remove again
  Lax,           \* peers of another make that answer whatever the target is
  Claimed,       \* Claimed[i]: the addresses initiator i may put in its requests
  Conns,         \* streams, one per handshake attempt
  MaxRetries,    \* const MaxRetries of the client
  None

ASSUME HandshakeAssumption ==
  /\ Clients \subseteq Initiators
  /\ Acl \in [Services -> {"interactive", "public", "allowlist", "contacts", "nil"}]
  /\ Allowlist \subseteq Initiators
  /\ HasContacts \subseteq Services
  /\ KnownPeers \subseteq Initiators
  /\ Lax \subseteq Services
  /\ Claimed \in [Initiators -> SUBSET Initiators]
  /\ MaxRetries \in Nat \ {0}
  /\ None \notin Initiators \cup Services \cup Conns
  /\ None \notin [from : Initiators, target : Services, nonce : {"req"} \X Conns]

VARIABLES
  call,       \* call[i]: the initiator's pc, target, attempt number and stream
  carried,    \* carried[c]: the CONN_REQUEST sent on c, or None
  owner,      \* owner[c]: the initiator at the other end of c, or None
  landed,     \* landed[c]: the service whose listener accepted c
  toResp,     \* toResp[c]: bytes under way to the responder
  toInit,     \* toInit[c]: bytes under way to the initiator
  up,         \* up[c]: the ends of c that are still open
  handler,    \* handler[c]: pc of handleEnvelopeForService
  seen,       \* <<n, k>>: ValidateConnRequest let nonce n through for the k-th time
  chan,       \* chan[c]: the Decision channel of c's ConnectionRequest
  pending,    \* Node.pendingReqs: address -> stream whose channel it holds
  contacts,   \* contacts.Store
  cancelled,  \* services whose accept context is done (RemoveService, Stop)
  approved,   \* history: why the handler of c accepted
  grants,     \* history: decisions AcceptConnection delivered, per address
  prompts,    \* history: streams in the order the user was asked about them
  keySent,    \* history: streams on which the responder's key was sent
  verified,   \* history: streams whose CONN_CONFIRM was validated
  ipSent      \* history: streams on which the responder's addresses were sent

initVars == <<call, carried, owner, landed>>
wireVars == <<toResp, toInit, up>>
userVars == <<pending, contacts, cancelled, grants>>
histVars == <<approved, prompts, keySent, verified, ipSent>>
vars == <<initVars, wireVars, handler, seen, chan, userVars, histVars>>

Finished == {"ok", "rejected", "failed"}

Request(c, a, s) == [from |-> a, target |-> s, nonce |-> <<"req", c>>]
Sig(a, n) == [by |-> a, over |-> n]
Response(a, n, c) == [type |-> "CONN_RESPONSE", accepted |-> TRUE, key |-> a,
                      sig |-> Sig(a, n), nonce |-> <<"resp", c>>]
Rejection == [type |-> "CONN_RESPONSE", accepted |-> FALSE]
Confirm(a, n) == [type |-> "CONN_CONFIRM", key |-> a, sig |-> Sig(a, n)]
IPInfo(a, b) == [type |-> "IP_EXCHANGE", from |-> a, for |-> b]

Init ==
  /\ call = [i \in Initiators |-> [pc |-> "idle", target |-> None, attempt |-> 0, conn |-> None]]
  /\ carried = [c \in Conns |-> None]
  /\ owner = [c \in Conns |-> None]
  /\ landed = [c \in Conns |-> None]
  /\ toResp = [c \in Conns |-> <<>>]
  /\ toInit = [c \in Conns |-> <<>>]
  /\ up = [c \in Conns |-> {}]
  /\ handler = [c \in Conns |-> "none"]
  /\ seen = {}
  /\ chan = [c \in Conns |-> "empty"]
  /\ pending = [a \in Initiators |-> None]
  /\ contacts = {}
  /\ cancelled = {}
  /\ approved = [c \in Conns |-> "no"]
  /\ grants = [a \in Initiators |-> 0]
  /\ prompts = <<>>
  /\ keySent = {}
  /\ verified = {}
  /\ ipSent = {}

----------------------------------------------------------------------------
(* Streams.  What was written before an end closed can still be read.      *)

Fresh(c) == handler[c] = "none"
Hangup(c, end) == up' = [up EXCEPT ![c] = @ \ {end}]
EOF(c, wire, peer) == wire[c] = <<>> /\ peer \notin up[c]

\* A write to an end that is gone is lost, or reported as an error.
WriteResp(c, ms) ==
  toResp' = [toResp EXCEPT ![c] = IF "resp" \in up[c] THEN @ \o ms ELSE @]
WriteInit(c, m) ==
  toInit' = [toInit EXCEPT ![c] = IF "init" \in up[c] THEN Append(@, m) ELSE @]

\* The circuit behind a stream breaks: both ends read an error, after what
\* had already reached them or at once.
BreakStream(c) ==
  /\ up[c] # {}
  /\ up' = [up EXCEPT ![c] = {}]
  /\ \/ UNCHANGED <<toResp, toInit>>
     \/ /\ toResp' = [toResp EXCEPT ![c] = <<>>]
        /\ toInit' = [toInit EXCEPT ![c] = <<>>]
  /\ UNCHANGED <<initVars, handler, seen, chan, userVars, histVars>>

\* A request already sent arrives once more, on a stream without an initiator.
Redeliver(c, d) ==
  /\ Fresh(c)
  /\ carried[d] # None
  /\ carried' = [carried EXCEPT ![c] = carried[d]]
  /\ landed' = [landed EXCEPT ![c] = landed[d]]
  /\ toResp' = [toResp EXCEPT ![c] = <<"CONN_REQUEST">>]
  /\ up' = [up EXCEPT ![c] = {"resp"}]
  /\ handler' = [handler EXCEPT ![c] = "read"]
  /\ UNCHANGED <<call, owner, toInit, seen, chan, userVars, histVars>>

----------------------------------------------------------------------------
(* Initiator *)

Attempts(i) == IF i \in Clients THEN MaxRetries ELSE 1

RequestConnection(i, s) ==
  /\ call[i].pc = "idle"
  /\ call' = [call EXCEPT ![i].pc = "dial", ![i].target = s]
  /\ UNCHANGED <<carried, owner, landed, wireVars, handler, seen, chan, userVars, histVars>>

\* Dial some onion and write the CONN_REQUEST; the accept loop starts a handler.
Dial(i, c, s) ==
  /\ call[i].pc = "dial"
  /\ Fresh(c)
  /\ call' = [call EXCEPT ![i].pc = "await", ![i].conn = c]
  /\ \E a \in Claimed[i] : carried' = [carried EXCEPT ![c] = Request(c, a, call[i].target)]
  /\ owner' = [owner EXCEPT ![c] = i]
  /\ landed' = [landed EXCEPT ![c] = s]
  /\ toResp' = [toResp EXCEPT ![c] = <<"CONN_REQUEST">>]
  /\ up' = [up EXCEPT ![c] = {"init", "resp"}]
  /\ handler' = [handler EXCEPT ![c] = "read"]
  /\ UNCHANGED <<toInit, seen, chan, userVars, histVars>>

\* An attempt failed: back off and dial again unless it was the last one.
AfterFailure(i) ==
  call' = [call EXCEPT ![i].pc = IF call[i].attempt + 1 < Attempts(i) THEN "dial" ELSE "failed",
                       ![i].attempt = @ + 1, ![i].conn = None]

DialFails(i) ==
  /\ call[i].pc = "dial"
  /\ AfterFailure(i)
  /\ UNCHANGED <<carried, owner, landed, wireVars, handler, seen, chan, userVars, histVars>>

\* Mutant of AttemptFails: no deadline on the stream.
MutAttemptFails(i) ==
  LET c == call[i].conn
  IN  /\ call[i].pc \in {"await", "exchange"}
      /\ EOF(c, toInit, "resp")
      /\ AfterFailure(i)
      /\ Hangup(c, "init")
      /\ UNCHANGED <<carried, owner, landed, toResp, toInit, handler, seen, chan, userVars, histVars>>

\* Read error, or the attempt's deadline: the deferred Close runs.
AttemptFails(i) ==
  LET c == call[i].conn
  IN  /\ call[i].pc \in {"await", "exchange"}
      /\ i \in Clients \/ EOF(c, toInit, "resp")
      /\ AfterFailure(i)
      /\ Hangup(c, "init")
      /\ UNCHANGED <<carried, owner, landed, toResp, toInit, handler, seen, chan, userVars, histVars>>

\* ctx is done: the client sees it after a failed attempt or while backing
\* off, the connector through the deadline ctx may have put on the stream.
ContextDone(i) ==
  /\ \/ /\ call[i].pc = "dial"
        /\ call[i].attempt > 0
        /\ UNCHANGED up
     \/ /\ call[i].pc \in {"await", "exchange"}
        /\ i \notin Clients
        /\ Hangup(call[i].conn, "init")
  /\ call' = [call EXCEPT ![i].pc = "failed"]
  /\ UNCHANGED <<carried, owner, landed, toResp, toInit, handler, seen, chan, userVars, histVars>>

\* Mutant of ValidResponse: the key is not compared with the target address.
MutValidResponse(m, c, target) == m.sig = Sig(m.key, <<"req", c>>)

\* ValidateConnResponse: key hashes to the target, signature over our nonce.
ValidResponse(m, c, target) ==
  /\ m.key = target
  /\ m.sig = Sig(m.key, <<"req", c>>)

\* Read CONN_RESPONSE.  A rejection is final; an acceptance is confirmed, after
\* which the client closes the stream and the connector sends its addresses.
ReadResponse(i) ==
  LET c == call[i].conn
      m == Head(toInit[c])
  IN  /\ call[i].pc = "await"
      /\ toInit[c] # <<>>
      /\ toInit' = [toInit EXCEPT ![c] = Tail(@)]
      /\ \/ /\ ~m.accepted
            /\ call' = [call EXCEPT ![i].pc = "rejected"]
            /\ Hangup(c, "init")
            /\ UNCHANGED toResp
         \/ /\ m.accepted
            /\ ~ValidResponse(m, c, call[i].target) \/ "resp" \notin up[c]
            /\ AfterFailure(i)
            /\ Hangup(c, "init")
            /\ UNCHANGED toResp
         \/ /\ m.accepted
            /\ ValidResponse(m, c, call[i].target)
            /\ i \in Clients
            /\ WriteResp(c, <<Confirm(i, m.nonce)>>)
            /\ call' = [call EXCEPT ![i].pc = "ok"]
            /\ Hangup(c, "init")
         \/ /\ m.accepted
            /\ ValidResponse(m, c, call[i].target)
            /\ i \notin Clients
            /\ WriteResp(c, <<Confirm(i, m.nonce), IPInfo(i, m.key)>>)
            /\ call' = [call EXCEPT ![i].pc = "exchange"]
            /\ UNCHANGED up
      /\ UNCHANGED <<carried, owner, landed, handler, seen, chan, userVars, histVars>>

\* The connector's ExchangeIPs read the responder's addresses.
ReadIPs(i) ==
  LET c == call[i].conn
      m == Head(toInit[c])
  IN  /\ call[i].pc = "exchange"
      /\ toInit[c] # <<>>
      /\ toInit' = [toInit EXCEPT ![c] = Tail(@)]
      /\ call' = [call EXCEPT ![i].pc =
                    IF m.type = "IP_EXCHANGE" /\ m.for = i THEN "ok" ELSE "failed"]
      /\ Hangup(c, "init")
      /\ UNCHANGED <<carried, owner, landed, toResp, handler, seen, chan, userVars, histVars>>

----------------------------------------------------------------------------
(* Responder: handleEnvelopeForService *)

Step(c, pc) == handler' = [handler EXCEPT ![c] = pc]

\* Every return closes the stream.
Return(c) == Step(c, "done") /\ Hangup(c, "resp")

\* The initiator is gone before anything could be read.
ReadFails(c) ==
  /\ handler[c] \in {"read", "confirm", "recv_ip"}
  /\ EOF(c, toResp, "init")
  /\ Return(c)
  /\ UNCHANGED <<initVars, toResp, toInit, seen, chan, userVars, histVars>>

\* NonceCache.Check: once, and a second time if the request came stamped at the edge of
\* its freshness (AtMostOnce); whose clock is that far ahead is left open.
LetThrough(n) ==
  \E k \in {1, 2} :
    /\ <<n, k>> \notin seen /\ (k = 2 => <<n, 1>> \in seen)
    /\ seen' = seen \cup {<<n, k>>}

\* ValidateConnRequest (a stamp may always be out of range), then the target.
ReadRequest(c) ==
  LET m == carried[c]
  IN  /\ handler[c] = "read"
      /\ toResp[c] # <<>>
      /\ toResp' = [toResp EXCEPT ![c] = Tail(@)]
      /\ \/ Return(c) /\ UNCHANGED seen
         \/ /\ LetThrough(m.nonce)
            /\ \/ /\ m.target # landed[c]
                  /\ landed[c] \notin Lax
                  /\ Return(c)
               \/ /\ m.target = landed[c] \/ landed[c] \in Lax
                  /\ Step(c, "lookup")
                  /\ UNCHANGED up
      /\ UNCHANGED <<initVars, toInit, chan, userVars, histVars>>

\* Contacts.Get: known contacts are accepted without asking.
LookupContact(c) ==
  LET known == landed[c] \in HasContacts /\ carried[c].from \in contacts
  IN  /\ handler[c] = "lookup"
      /\ Step(c, IF known THEN "respond" ELSE "ask")
      /\ approved' = [approved EXCEPT ![c] = IF known THEN "contact" ELSE @]
      /\ UNCHANGED <<initVars, wireVars, seen, chan, userVars,
                     prompts, keySent, verified, ipSent>>

\* serviceConnectionGate: the manifest decides at once.
GateAccepts(s, a) ==
  \/ Acl[s] = "public"
  \/ Acl[s] = "allowlist" /\ a \in Allowlist

\* askUser up to its select: the callback runs.  For the node service it is
\* handleConnectionRequest, which replaces the entry of the address.
AskUser(c) ==
  LET s == landed[c]
      a == carried[c].from
  IN  /\ handler[c] = "ask"
      /\ \/ /\ Acl[s] = "nil"
            /\ Step(c, "reject")
            /\ UNCHANGED <<chan, pending, prompts>>
         \/ /\ Acl[s] = "interactive"
            /\ Step(c, "waiting")
            /\ pending' = [pending EXCEPT ![a] = c]
            /\ prompts' = Append(prompts, c)
            /\ UNCHANGED chan
         \/ /\ Acl[s] \notin {"nil", "interactive"}
            /\ Step(c, "waiting")
            /\ chan' = [chan EXCEPT ![c] = IF GateAccepts(s, a) THEN "accept" ELSE "reject"]
            /\ UNCHANGED <<pending, prompts>>
      /\ UNCHANGED <<initVars, wireVars, seen, contacts, cancelled, grants,
                     approved, keySent, verified, ipSent>>

\* askUser's select takes the decision ...
TakeDecision(c) ==
  /\ handler[c] = "waiting"
  /\ chan[c] # "empty"
  /\ Step(c, IF chan[c] = "accept" THEN "respond" ELSE "reject")
  /\ approved' = [approved EXCEPT ![c] =
       IF chan[c] = "reject" THEN @
       ELSE IF Acl[landed[c]] = "interactive" THEN "user" ELSE "gate"]
  /\ chan' = [chan EXCEPT ![c] = "empty"]
  /\ UNCHANGED <<initVars, wireVars, seen, userVars, prompts, keySent, verified, ipSent>>

\* Mutant of AskTimeout: the zero decision is taken for an acceptance.
MutAskTimeout(c) ==
  /\ handler[c] = "waiting"
  /\ landed[c] \in cancelled
  /\ Step(c, "respond")
  /\ approved' = [approved EXCEPT ![c] = "user"]
  /\ UNCHANGED <<initVars, wireVars, seen, chan, userVars, prompts, keySent, verified, ipSent>>

\* Mutant of AskTimeout: only a decision ends the wait.
MutNoAskTimeout(c) == FALSE /\ UNCHANGED vars

\* ... or the accept context, whichever the runtime picks when both are ready.
AskTimeout(c) ==
  /\ handler[c] = "waiting"
  /\ landed[c] \in cancelled
  /\ Step(c, "reject")
  /\ UNCHANGED <<initVars, wireVars, seen, chan, userVars, histVars>>

\* CONN_RESPONSE with the key, the signature and a nonce of our own.
SendAccept(c) ==
  /\ handler[c] = "respond"
  /\ \/ /\ "init" \notin up[c]
        /\ Return(c)
        /\ UNCHANGED <<toInit, keySent>>
     \/ /\ Step(c, "confirm")
        /\ WriteInit(c, Response(landed[c], carried[c].nonce, c))
        /\ keySent' = keySent \cup {c}
        /\ UNCHANGED up
  /\ UNCHANGED <<initVars, toResp, seen, chan, userVars, approved, prompts, verified, ipSent>>

SendReject(c) ==
  /\ handler[c] = "reject"
  /\ WriteInit(c, Rejection)
  /\ Return(c)
  /\ UNCHANGED <<initVars, toResp, seen, chan, userVars, histVars>>

\* Mutant of ValidConfirm: the key is not compared with the claimed address.
MutValidConfirm(m, c) ==
  /\ m.type = "CONN_CONFIRM"
  /\ m.sig = Sig(m.key, <<"resp", c>>)

\* ValidateConnConfirm: key hashes to the claimed address, signature over our nonce.
ValidConfirm(m, c) ==
  /\ m.type = "CONN_CONFIRM"
  /\ m.key = carried[c].from
  /\ m.sig = Sig(m.key, <<"resp", c>>)

ReadConfirm(c) ==
  LET m == Head(toResp[c])
  IN  /\ handler[c] = "confirm"
      /\ toResp[c] # <<>>
      /\ toResp' = [toResp EXCEPT ![c] = Tail(@)]
      /\ \/ /\ ~ValidConfirm(m, c)
            /\ Return(c)
            /\ UNCHANGED verified
         \/ /\ ValidConfirm(m, c)
            /\ Step(c, "send_ip")
            /\ verified' = verified \cup {c}
            /\ UNCHANGED up
      /\ UNCHANGED <<initVars, toInit, seen, chan, userVars, approved, prompts, keySent, ipSent>>

\* ExchangeIPs writes our addresses, encrypted to the confirmed key.
SendIPs(c) ==
  /\ handler[c] = "send_ip"
  /\ \/ /\ "init" \notin up[c]
        /\ Return(c)
        /\ UNCHANGED <<toInit, ipSent>>
     \/ /\ Step(c, "recv_ip")
        /\ WriteInit(c, IPInfo(landed[c], carried[c].from))
        /\ ipSent' = ipSent \cup {c}
        /\ UNCHANGED up
  /\ UNCHANGED <<initVars, toResp, seen, chan, userVars, approved, prompts, keySent, verified>>

\* The peer's addresses arrive, or ten seconds pass, or ctx is done.
FinishExchange(c) ==
  /\ handler[c] = "recv_ip"
  /\ toResp' = [toResp EXCEPT ![c] = IF @ = <<>> THEN @ ELSE Tail(@)]
  /\ Return(c)
  /\ UNCHANGED <<initVars, toInit, seen, chan, userVars, histVars>>

----------------------------------------------------------------------------
(* The user, and the server's lifecycle *)

\* Mutant of Decide: a rejection removes the entry and sends nothing.
MutDecideSilently(a, d) ==
  /\ pending[a] # None
  /\ pending' = [pending EXCEPT ![a] = None]
  /\ chan' = [chan EXCEPT ![pending[a]] = IF d = "accept" THEN d ELSE @]
  /\ grants' = [grants EXCEPT ![a] = IF d = "accept" THEN @ + 1 ELSE @]
  /\ UNCHANGED <<initVars, wireVars, handler, seen, contacts, cancelled, histVars>>

\* AcceptConnection and RejectConnection: take the entry, send the decision.
Decide(a, d) ==
  /\ pending[a] # None
  /\ pending' = [pending EXCEPT ![a] = None]
  /\ chan' = [chan EXCEPT ![pending[a]] = d]
  /\ grants' = [grants EXCEPT ![a] = IF d = "accept" THEN @ + 1 ELSE @]
  /\ UNCHANGED <<initVars, wireVars, handler, seen, contacts, cancelled, histVars>>

AddContact(a) ==
  /\ a \notin contacts
  /\ contacts' = contacts \cup {a}
  /\ UNCHANGED <<initVars, wireVars, handler, seen, chan, pending, cancelled, grants, histVars>>

RemoveContact(a) ==
  /\ a \in contacts
  /\ contacts' = contacts \ {a}
  /\ UNCHANGED <<initVars, wireVars, handler, seen, chan, pending, cancelled, grants, histVars>>

\* RemoveService or Stop cancels the accept context; the listener stays open
\* until the Tor engine closes it, so streams are still accepted.
CancelService(s) ==
  /\ s \notin cancelled
  /\ cancelled' = cancelled \cup {s}
  /\ UNCHANGED <<initVars, wireVars, handler, seen, chan, pending, contacts, grants, histVars>>

----------------------------------------------------------------------------
InitiatorStep(i) ==
  \/ \E c \in Conns, s \in Services : Dial(i, c, s)
  \/ DialFails(i)
  \/ AttemptFails(i)
  \/ ReadResponse(i)
  \/ ReadIPs(i)

HandlerStep(c) ==
  \/ ReadFails(c)
  \/ ReadRequest(c)
  \/ LookupContact(c)
  \/ AskUser(c)
  \/ TakeDecision(c)
  \/ AskTimeout(c)
  \/ SendAccept(c)
  \/ SendReject(c)
  \/ ReadConfirm(c)
  \/ SendIPs(c)
  \/ FinishExchange(c)

Environment ==
  \/ \E i \in Initiators, s \in Services : RequestConnection(i, s)
  \/ \E i \in Initiators : ContextDone(i)
  \/ \E c \in Conns : BreakStream(c)
  \/ \E c, d \in Conns : Redeliver(c, d)
  \/ \E a \in Initiators, d \in {"accept", "reject"} : Decide(a, d)
  \/ \E a \in KnownPeers : AddContact(a) \/ RemoveContact(a)
  \/ \E s \in Services : CancelService(s)

Next ==
  \/ \E i \in Initiators : InitiatorStep(i)
  \/ \E c \in Conns : HandlerStep(c)
  \/ Environment

Spec == Init /\ [][Next]_vars

\* The scheduler runs every goroutine that can run, and deadlines expire.  No
\* fairness of the user, of the network or of anybody who calls the API.
FairSpec ==
  /\ Spec
  /\ \A i \in Initiators : WF_vars(InitiatorStep(i))
  /\ \A c \in Conns : WF_vars(HandlerStep(c))

----------------------------------------------------------------------------
(* Properties *)

\* Once CONN_CONFIRM is validated the two ends agree: the peer is who the
\* request named, it meant this service, and it is the one that dialed.
Agreement ==
  \A c \in verified :
    /\ owner[c] = carried[c].from
    /\ carried[c].nonce = <<"req", c>>
    /\ call[owner[c]].target = landed[c]

\* An initiator that succeeds talked to the service it asked for, on the
\* stream of its current attempt, and that service had approved it.
AuthenticatedResponder ==
  \A i \in Initiators : call[i].pc \in {"exchange", "ok"} =>
    LET c == call[i].conn
    IN  owner[c] = i /\ landed[c] = call[i].target /\ approved[c] # "no" /\ c \in keySent

\* Addresses go to peers that are who they say and are entitled to them: a
\* contact, a peer the manifest admits, or one the user approved, where every
\* AcceptConnection pays for one stream of the peer it names.  This is about the
\* peer at the other end (owner), not the address in the request: no claim and no
\* replay of a contact's or an approved peer's request gets anyone the addresses.
\* It cannot be said of the responder's public key, which CONN_RESPONSE carries to
\* whoever names a contact's address, before CONN_CONFIRM (server.go:301-305).
AddressesToApproved ==
  /\ \A c \in ipSent :
       /\ c \in verified /\ owner[c] = carried[c].from
       /\ \/ approved[c] = "contact" /\ landed[c] \in HasContacts /\ owner[c] \in KnownPeers
          \/ approved[c] = "gate" /\ GateAccepts(landed[c], owner[c])
          \/ approved[c] = "user"
  /\ \A a \in Initiators :
       Cardinality({c \in verified : approved[c] = "user" /\ owner[c] = a}) <= grants[a]

Before(seq, x, y) == \E j, k \in DOMAIN seq : j < k /\ seq[j] = x /\ seq[k] = y

\* A handler that waits for the user can be reached by the user, unless a
\* later request of the same address has taken its entry in pendingReqs.
Reachable ==
  \A c \in Conns :
    (handler[c] = "waiting" /\ chan[c] = "empty" /\ pending[carried[c].from] # c)
      => \E d \in Conns : carried[d] # None /\ carried[d].from = carried[c].from
                          /\ Before(prompts, c, d)

\* RequestConnection returns whatever the responder, its user and the network
\* do: every attempt has a deadline and the number of attempts is bounded.
ClientReturns ==
  \A i \in Clients : (call[i].pc = "dial") ~> (call[i].pc \in Finished)

\* A handler comes to its end by itself where no user is asked, and when its
\* service is cancelled (RemoveService, Stop) also while it waits for one.
HandlersReturn ==
  \A c \in Conns :
    (handler[c] # "none" /\ (landed[c] \in cancelled \/ Acl[landed[c]] # "interactive"))
      ~> (handler[c] = "done")
============================================================================
