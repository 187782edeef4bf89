-------------------------- MODULE HandshakeProofs --------------------------
(***************************************************************************)
(* The handshake keeps its promises for every number of initiators,        *)
(* services and streams, whatever claims, stale lookups, redeliveries,     *)
(* broken streams and decisions there are.  The argument is about what can *)
(* be on the wire: WireInv says which messages a stream may carry at all,  *)
(* so that a check that passes identifies the sender.  ConsentInv counts   *)
(* decisions that are still in a channel together with those taken from    *)
(* it, and PromptInv keeps the order in which the user was asked.          *)
(***************************************************************************)
EXTENDS Handshake, FiniteSetTheorems, TLAPS

Reqs == [from : Initiators, target : Services, nonce : {"req"} \X Conns]
Places == {"none", "read", "lookup", "ask", "waiting", "respond", "reject", "confirm",
           "send_ip", "recv_ip", "done"}
CallRec == [pc : {"idle", "dial", "await", "exchange"} \cup Finished, target : Services \cup {None},
            attempt : Nat, conn : Conns \cup {None}]

TypeOK ==
  /\ call \in [Initiators -> CallRec]
  /\ carried \in [Conns -> Reqs \cup {None}]
  /\ owner \in [Conns -> Initiators \cup {None}]
  /\ landed \in [Conns -> Services \cup {None}]
  /\ handler \in [Conns -> Places]
  /\ chan \in [Conns -> {"empty", "accept", "reject"}]
  /\ pending \in [Initiators -> Conns \cup {None}]
  /\ approved \in [Conns -> {"no", "contact", "user", "gate"}]
  /\ grants \in [Initiators -> Nat]
  /\ prompts \in Seq(Conns)
  /\ keySent \subseteq Conns /\ verified \subseteq Conns /\ ipSent \subseteq Conns

\* Nothing is known of a stream that has not been opened; one that has been carries a
\* request, and its initiator, if it has one, has a target.
BaseInv ==
  /\ TypeOK
  /\ \A c \in Conns : handler[c] = "none" =>
       /\ carried[c] = None /\ owner[c] = None
       /\ approved[c] = "no" /\ chan[c] = "empty" /\ c \notin keySent
  /\ \A c \in Conns : handler[c] # "none" => carried[c] \in Reqs /\ landed[c] \in Services
  /\ \A c \in Conns : owner[c] # None =>
       call[owner[c]].pc # "idle" /\ carried[c].nonce = <<"req", c>>
  /\ \A i \in Initiators : call[i].pc # "idle" => call[i].target \in Services
  /\ \A i \in Initiators : call[i].pc \in {"await", "exchange", "ok"} =>
       call[i].conn \in Conns /\ owner[call[i].conn] = i
  /\ \A a \in Initiators : pending[a] # None =>
       handler[pending[a]] # "none" /\ carried[pending[a]].from = a

-----------------------------------------------------------------------------
(* What is on the wire.                                                    *)

Accepted(c) == approved[c] # "no" /\ c \in keySent

\* What the responder may have written to c, ...
Answers(c) ==
  {Rejection}
  \cup {m \in {Response(landed[c], carried[c].nonce, c)} : Accepted(c)}
  \cup {m \in {IPInfo(landed[c], carried[c].from)} : c \in ipSent}

Dialed(c) ==
  /\ owner[c] \in Initiators /\ carried[c].nonce = <<"req", c>>
  /\ call[owner[c]].target = landed[c]

\* ... and its initiator after the request.
Proofs(c) ==
  {m \in {Confirm(owner[c], <<"resp", c>>), IPInfo(owner[c], landed[c])} : Dialed(c)}

Readable(c) ==
  /\ handler[c] \in {"none", "read"} => toInit[c] = <<>> /\ toResp[c] \in {<<>>, <<"CONN_REQUEST">>}
  /\ handler[c] \notin {"none", "read"} => toInit[c] \in Seq(Answers(c)) /\ toResp[c] \in Seq(Proofs(c))

\* Who waits for the service has proved nothing yet.
Unproved(i) ==
  call[i].pc = "await" =>
    /\ call[i].conn \notin verified
    /\ handler[call[i].conn] # "read" => toResp[call[i].conn] = <<>>

\* A handler that has come so far has left these marks.
Marked(c) ==
  /\ handler[c] \in {"respond", "confirm", "send_ip", "recv_ip"} \/ c \in keySent => approved[c] # "no"
  /\ handler[c] \in {"confirm", "send_ip", "recv_ip"} \/ c \in verified => c \in keySent
  /\ handler[c] \in {"send_ip", "recv_ip"} \/ c \in ipSent => c \in verified

WireInv ==
  /\ DOMAIN toInit = Conns /\ DOMAIN toResp = Conns
  /\ \A c \in Conns : Readable(c) /\ Marked(c)
  /\ \A i \in Initiators : Unproved(i)
  /\ \A c \in verified : Dialed(c) /\ owner[c] = carried[c].from
  /\ \A i \in Initiators : call[i].pc \in {"exchange", "ok"} =>
       Dialed(call[i].conn) /\ Accepted(call[i].conn)

-----------------------------------------------------------------------------
(* What the user has decided and was asked.                                *)

\* The streams of a that a decision of the user has been spent on, or will be.
Paid(a) ==
  {c \in Conns : /\ handler[c] # "none" /\ carried[c].from = a
                 /\ approved[c] = "user" \/ (chan[c] = "accept" /\ Acl[landed[c]] = "interactive")}

ConsentInv ==
  \A a \in Initiators : IsFiniteSet(Paid(a)) /\ Cardinality(Paid(a)) <= grants[a]

PromptInv ==
  /\ \A c \in Conns : handler[c] = "waiting" /\ chan[c] = "empty" =>
       \E k \in DOMAIN prompts : prompts[k] = c
  /\ Reachable

\* Who was accepted without the user is a contact or admitted by the manifest, and the
\* user is asked about nobody else's streams.
GateInv ==
  /\ contacts \subseteq KnownPeers
  /\ \A a \in Initiators : pending[a] # None => Acl[landed[pending[a]]] = "interactive"
  /\ \A c \in Conns : chan[c] = "accept" /\ Acl[landed[c]] # "interactive" =>
       GateAccepts(landed[c], carried[c].from)
  /\ \A c \in Conns : approved[c] = "gate" => GateAccepts(landed[c], carried[c].from)
  /\ \A c \in Conns : approved[c] = "contact" =>
       landed[c] \in HasContacts /\ carried[c].from \in KnownPeers

HandshakeInv == BaseInv /\ WireInv /\ ConsentInv /\ GateInv /\ PromptInv

-----------------------------------------------------------------------------
(* What a step may do to the records of a call and of a stream.            *)

\* An initiator that has dialed keeps its target, and its stream while it succeeds.
LEMMA CallMoves ==
  ASSUME BaseInv, NEW i \in Initiators,
         DialFails(i) \/ AttemptFails(i) \/ ContextDone(i) \/ ReadResponse(i) \/ ReadIPs(i)
  PROVE  /\ \E r \in CallRec :
              /\ call' = [call EXCEPT ![i] = r]
              /\ r.pc \notin {"idle", "await"} /\ r.target = call[i].target
              /\ r.pc \in {"exchange", "ok"} =>
                   r.conn = call[i].conn /\ call[i].pc \in {"await", "exchange"}
         /\ call[i].pc # "idle"
         /\ UNCHANGED <<carried, owner, landed, handler, seen, chan, userVars, histVars>>
<1>0. call \in [Initiators -> CallRec] /\ call[i] \in CallRec
  BY DEF BaseInv, TypeOK
<1>1. UNCHANGED <<carried, owner, landed, handler, seen, chan, userVars, histVars>> /\ call[i].pc # "idle"
  BY DEF DialFails, AttemptFails, ContextDone, ReadResponse, ReadIPs
<1>2. PICK l \in {"dial", "exchange", "rejected", "failed", "ok"}, n \in Nat, d \in Conns \cup {None} :
        /\ call' = [call EXCEPT ![i].pc = l, ![i].attempt = n, ![i].conn = d]
        /\ l \in {"exchange", "ok"} => d = call[i].conn /\ call[i].pc \in {"await", "exchange"}
  <2>1. CASE AfterFailure(i)
    <3>1. PICK l \in {"dial", "failed"} :
            call' = [call EXCEPT ![i].pc = l, ![i].attempt = @ + 1, ![i].conn = None]
      BY <2>1 DEF AfterFailure
    <3>2. call[i].attempt + 1 \in Nat
      BY <1>0 DEF CallRec
    <3>3. call' = [call EXCEPT ![i].pc = l, ![i].attempt = call[i].attempt + 1, ![i].conn = None]
      BY <1>0, <3>1 DEF CallRec
    <3> QED BY <3>2, <3>3
  <2>2. ASSUME NEW l \in {"exchange", "rejected", "failed", "ok"}, call' = [call EXCEPT ![i].pc = l]
        PROVE  call' = [call EXCEPT ![i].pc = l, ![i].attempt = call[i].attempt, ![i].conn = call[i].conn]
               /\ call[i].attempt \in Nat /\ call[i].conn \in Conns \cup {None}
    BY <1>0, <2>2 DEF CallRec
  <2>3. CASE DialFails(i) \/ AttemptFails(i)
    BY <2>1, <2>3 DEF DialFails, AttemptFails
  <2>4. CASE ContextDone(i)
    BY <2>2, <2>4 DEF ContextDone
  <2>5. CASE ReadResponse(i)
    BY <2>1, <2>2, <2>5 DEF ReadResponse
  <2>6. CASE ReadIPs(i)
    BY <2>2, <2>6 DEF ReadIPs
  <2> QED BY <2>3, <2>4, <2>5, <2>6
<1>3. [call[i] EXCEPT !.pc = l, !.attempt = n, !.conn = d] \in CallRec
  BY <1>0 DEF CallRec, Finished
<1>4. call' = [call EXCEPT ![i] = [call[i] EXCEPT !.pc = l, !.attempt = n, !.conn = d]]
  BY <1>0, <1>2 DEF CallRec
<1> QED
  <2> DEFINE r == [call[i] EXCEPT !.pc = l, !.attempt = n, !.conn = d]
  <2>1. r \in CallRec /\ call' = [call EXCEPT ![i] = r] /\ r.pc = l /\ r.conn = d /\ r.target = call[i].target
    BY <1>0, <1>3, <1>4 DEF CallRec
  <2> QED BY <1>1, <1>2, <2>1

\* A handler moves past the request and records only what concerns its stream.
LEMMA HandlerMoves ==
  ASSUME BaseInv, NEW c \in Conns, HandlerStep(c)
  PROVE  /\ UNCHANGED <<initVars, contacts, cancelled, grants>>
         /\ handler[c] # "none"
         /\ \E l \in Places \ {"none", "read"} : handler' = [handler EXCEPT ![c] = l]
         /\ \E x \in {"no", "contact", "user", "gate"} :
              approved' = [approved EXCEPT ![c] = x] /\ (x = "no" => approved[c] = "no")
         /\ \E x \in {"empty", "accept", "reject"} : chan' = [chan EXCEPT ![c] = x]
         /\ keySent' \in {keySent, keySent \cup {c}}
         /\ verified' \in {verified, verified \cup {c}}
         /\ ipSent' \in {ipSent, ipSent \cup {c}}
         /\ \/ UNCHANGED <<pending, prompts>>
            \/ pending' = [pending EXCEPT ![carried[c].from] = c] /\ prompts' = Append(prompts, c)
<1>0. TypeOK
  BY DEF BaseInv
<1>1. approved = [approved EXCEPT ![c] = approved[c]] /\ approved[c] \in {"no", "contact", "user", "gate"}
      /\ chan = [chan EXCEPT ![c] = chan[c]] /\ chan[c] \in {"empty", "accept", "reject"}
  BY <1>0 DEF TypeOK
<1>2. CASE ReadFails(c) \/ ReadRequest(c) \/ AskTimeout(c) \/ SendReject(c) \/ FinishExchange(c)
  BY <1>1, <1>2 DEF ReadFails, ReadRequest, AskTimeout, SendReject, FinishExchange, Return, Step,
                    userVars, histVars, Places
<1>3. CASE LookupContact(c)
  BY <1>1, <1>3 DEF LookupContact, Step, userVars, Places
<1>4. CASE AskUser(c)
  <2>1. \E x \in {"empty", "accept", "reject"} : chan' = [chan EXCEPT ![c] = x]
    BY <1>1, <1>4 DEF AskUser
  <2> QED
    BY <1>1, <1>4, <2>1 DEF AskUser, Step, Places
<1>5. CASE TakeDecision(c)
  <2>1. \E x \in {"no", "contact", "user", "gate"} :
          approved' = [approved EXCEPT ![c] = x] /\ (x = "no" => approved[c] = "no")
    BY <1>1, <1>5 DEF TakeDecision
  <2> QED
    BY <1>1, <1>5, <2>1 DEF TakeDecision, Step, userVars, Places
<1>6. CASE SendAccept(c) \/ SendIPs(c) \/ ReadConfirm(c)
  BY <1>1, <1>6 DEF SendAccept, SendIPs, ReadConfirm, Return, Step, userVars, Places
<1> QED
  BY <1>2, <1>3, <1>4, <1>5, <1>6 DEF HandlerStep

\* The base of the other invariants.
LEMMA BaseStep ==
  ASSUME BaseInv, [Next]_vars
  PROVE  BaseInv'
<1> USE HandshakeAssumption
<1>0. TypeOK
  BY DEF BaseInv
<1>1. ASSUME NEW i \in Initiators, NEW s \in Services, RequestConnection(i, s) PROVE BaseInv'
  <2>1. /\ call' = [call EXCEPT ![i].pc = "dial", ![i].target = s] /\ call[i].pc = "idle"
        /\ UNCHANGED <<carried, owner, landed, handler, chan, userVars, histVars>>
    BY <1>1 DEF RequestConnection
  <2>2. call' \in [Initiators -> CallRec] /\ call'[i].pc = "dial" /\ call'[i].target = s
        /\ \A j \in Initiators \ {i} : call'[j] = call[j]
    <3>1. call[i] \in CallRec
      BY <1>0 DEF TypeOK
    <3>2. [call[i] EXCEPT !.pc = "dial", !.target = s] \in CallRec
      BY <3>1 DEF CallRec
    <3>3. call' = [call EXCEPT ![i] = [call[i] EXCEPT !.pc = "dial", !.target = s]]
      BY <1>0, <2>1, <3>1, ZenonT(40) DEF TypeOK, CallRec
    <3> QED BY <1>0, <3>1, <3>2, <3>3 DEF TypeOK, CallRec
  <2>3. TypeOK'
    BY <1>0, <2>1, <2>2 DEF TypeOK, userVars, histVars
  <2>4. \A d \in Conns : owner[d] # None => owner[d] \in Initiators
    BY <1>0 DEF TypeOK
  <2> QED BY <2>1, <2>2, <2>3, <2>4 DEF BaseInv, userVars, histVars
<1>2. ASSUME NEW i \in Initiators, NEW c \in Conns, NEW s \in Services, Dial(i, c, s) PROVE BaseInv'
  <2>1. PICK a \in Claimed[i] : carried' = [carried EXCEPT ![c] = Request(c, a, call[i].target)]
    BY <1>2 DEF Dial
  <2>2. /\ call[i].pc = "dial" /\ handler[c] = "none"
        /\ call' = [call EXCEPT ![i].pc = "await", ![i].conn = c]
        /\ owner' = [owner EXCEPT ![c] = i] /\ landed' = [landed EXCEPT ![c] = s]
        /\ handler' = [handler EXCEPT ![c] = "read"]
        /\ UNCHANGED <<chan, userVars, histVars>>
    BY <1>2 DEF Dial, Fresh
  <2>3. Request(c, a, call[i].target) \in Reqs
    BY <2>2 DEF BaseInv, Request, Reqs
  <2>4. call' \in [Initiators -> CallRec] /\ call'[i].pc = "await" /\ call'[i].target = call[i].target
        /\ call'[i].conn = c /\ \A j \in Initiators \ {i} : call'[j] = call[j]
    <3>1. call[i] \in CallRec
      BY <1>0 DEF TypeOK
    <3>2. [call[i] EXCEPT !.pc = "await", !.conn = c] \in CallRec
      BY <3>1 DEF CallRec
    <3>3. call' = [call EXCEPT ![i] = [call[i] EXCEPT !.pc = "await", !.conn = c]]
      BY <1>0, <2>2, <3>1 DEF TypeOK, CallRec
    <3> QED BY <1>0, <3>1, <3>2, <3>3 DEF TypeOK, CallRec
  <2>5. TypeOK'
    BY <1>0, <2>1, <2>2, <2>3, <2>4 DEF TypeOK, userVars, histVars, Places
  <2>6. /\ carried'[c] \in Reqs /\ carried'[c].nonce = <<"req", c>> /\ owner'[c] = i
        /\ landed'[c] = s /\ handler'[c] = "read"
        /\ \A d \in Conns \ {c} : /\ carried'[d] = carried[d] /\ owner'[d] = owner[d]
                                  /\ landed'[d] = landed[d] /\ handler'[d] = handler[d]
    BY <1>0, <2>1, <2>2, <2>3 DEF TypeOK, Request
  <2>7. \A j \in Initiators : call[j].pc \in {"await", "exchange", "ok"} => call[j].conn # c
    BY <2>2 DEF BaseInv
  <2>8. \A d \in Conns : owner'[d] # None =>
          call'[owner'[d]].pc # "idle" /\ carried'[d].nonce = <<"req", d>>
    <3>1. ASSUME NEW d \in Conns \ {c}, owner[d] # None
          PROVE  call'[owner[d]].pc # "idle" /\ carried[d].nonce = <<"req", d>>
      <4>1. owner[d] \in Initiators /\ call[owner[d]].pc # "idle" /\ carried[d].nonce = <<"req", d>>
        BY <1>0, <3>1 DEF TypeOK, BaseInv
      <4> QED BY <2>4, <4>1
    <3> QED BY <2>4, <2>6, <3>1
  <2>9. \A j \in Initiators : call'[j].pc \in {"await", "exchange", "ok"} =>
          call'[j].conn \in Conns /\ owner'[call'[j].conn] = j
    BY <2>4, <2>6, <2>7 DEF BaseInv
  <2>10. \A b \in Initiators : pending'[b] # None =>
           handler'[pending'[b]] # "none" /\ carried'[pending'[b]].from = b
    BY <1>0, <2>2, <2>6 DEF TypeOK, BaseInv, userVars
  <2>11. \A d \in Conns : handler'[d] = "none" =>
           /\ carried'[d] = None /\ owner'[d] = None
           /\ approved'[d] = "no" /\ chan'[d] = "empty" /\ d \notin keySent'
    BY <2>2, <2>6 DEF BaseInv, histVars
  <2>12. /\ \A d \in Conns : handler'[d] # "none" => carried'[d] \in Reqs /\ landed'[d] \in Services
         /\ \A j \in Initiators : call'[j].pc # "idle" => call'[j].target \in Services
    BY <2>2, <2>4, <2>6 DEF BaseInv
  <2> QED BY <2>5, <2>8, <2>9, <2>10, <2>11, <2>12 DEF BaseInv
<1>3. ASSUME NEW i \in Initiators,
             DialFails(i) \/ AttemptFails(i) \/ ContextDone(i) \/ ReadResponse(i) \/ ReadIPs(i)
      PROVE  BaseInv'
  <2>1. PICK r \in CallRec :
          /\ call' = [call EXCEPT ![i] = r]
          /\ r.pc \notin {"idle", "await"} /\ r.target = call[i].target
          /\ r.pc \in {"exchange", "ok"} => r.conn = call[i].conn /\ call[i].pc \in {"await", "exchange"}
    BY <1>3, CallMoves
  <2>2. UNCHANGED <<carried, owner, landed, handler, seen, chan, userVars, histVars>> /\ call[i].pc # "idle"
    BY <1>3, CallMoves
  <2>3. call' \in [Initiators -> CallRec] /\ call'[i] = r /\ \A j \in Initiators \ {i} : call'[j] = call[j]
    BY <1>0, <2>1 DEF TypeOK
  <2>4. TypeOK'
    BY <1>0, <2>2, <2>3 DEF TypeOK, userVars, histVars
  <2> QED BY <1>0, <2>1, <2>2, <2>3, <2>4 DEF BaseInv, userVars, histVars
<1>4. ASSUME NEW c \in Conns, HandlerStep(c) PROVE BaseInv'
  <2>1. PICK l \in Places \ {"none", "read"} : handler' = [handler EXCEPT ![c] = l]
    BY <1>4, HandlerMoves
  <2>2. PICK x \in {"no", "contact", "user", "gate"} : approved' = [approved EXCEPT ![c] = x]
    BY <1>4, HandlerMoves
  <2>3. PICK y \in {"empty", "accept", "reject"} : chan' = [chan EXCEPT ![c] = y]
    BY <1>4, HandlerMoves
  <2>4. UNCHANGED <<call, carried, owner, landed, grants>> /\ handler[c] # "none"
    BY <1>4, HandlerMoves DEF initVars
  <2>5. /\ keySent' \in {keySent, keySent \cup {c}} /\ verified' \in {verified, verified \cup {c}}
        /\ ipSent' \in {ipSent, ipSent \cup {c}}
    BY <1>4, HandlerMoves
  <2>6. /\ pending' \in [Initiators -> Conns \cup {None}] /\ prompts' \in Seq(Conns)
        /\ \A a \in Initiators : pending'[a] \in {pending[a], None} \/ (pending'[a] = c /\ carried[c].from = a)
    <3>1. carried[c].from \in Initiators
      BY <2>4 DEF BaseInv, Reqs
    <3>2. CASE UNCHANGED <<pending, prompts>>
      BY <1>0, <3>2 DEF TypeOK
    <3>3. CASE pending' = [pending EXCEPT ![carried[c].from] = c] /\ prompts' = Append(prompts, c)
      BY <1>0, <3>1, <3>3 DEF TypeOK
    <3> QED BY <1>4, <3>2, <3>3, HandlerMoves
  <2>7. TypeOK'
    BY <1>0, <2>1, <2>2, <2>3, <2>4, <2>5, <2>6 DEF TypeOK
  <2>8. \A d \in Conns : handler'[d] = "none" =>
          d # c /\ handler[d] = "none" /\ approved'[d] = approved[d] /\ chan'[d] = chan[d]
    BY <1>0, <2>1, <2>2, <2>3 DEF TypeOK
  <2>9. \A d \in Conns : handler'[d] # "none" => handler[d] # "none"
    BY <1>0, <2>1, <2>4 DEF TypeOK
  <2>10. ASSUME NEW a \in Initiators, pending'[a] # None
         PROVE  handler'[pending'[a]] # "none" /\ carried'[pending'[a]].from = a
    BY <1>0, <2>1, <2>4, <2>6, <2>10 DEF BaseInv, TypeOK
  <2> QED BY <2>4, <2>5, <2>7, <2>8, <2>9, <2>10 DEF BaseInv
<1>5. ASSUME NEW c \in Conns, NEW d \in Conns, Redeliver(c, d) PROVE BaseInv'
  <2>1. /\ handler[c] = "none" /\ carried[d] # None
        /\ carried' = [carried EXCEPT ![c] = carried[d]] /\ landed' = [landed EXCEPT ![c] = landed[d]]
        /\ handler' = [handler EXCEPT ![c] = "read"]
        /\ UNCHANGED <<call, owner, chan, userVars, histVars>>
    BY <1>5 DEF Redeliver, Fresh
  <2>2. carried[d] \in Reqs /\ landed[d] \in Services /\ owner[c] = None
    BY <1>0, <2>1 DEF BaseInv
  <2>3. TypeOK'
    BY <1>0, <2>1, <2>2 DEF TypeOK, userVars, histVars, Places
  <2>4. /\ carried'[c] \in Reqs /\ landed'[c] \in Services /\ handler'[c] = "read"
        /\ \A e \in Conns \ {c} : /\ carried'[e] = carried[e] /\ landed'[e] = landed[e]
                                  /\ handler'[e] = handler[e]
    BY <1>0, <2>1, <2>2 DEF TypeOK
  <2> QED BY <2>1, <2>2, <2>3, <2>4 DEF BaseInv, userVars, histVars
<1>6. ASSUME NEW a \in Initiators, NEW d \in {"accept", "reject"}, Decide(a, d) PROVE BaseInv'
  <2>1. /\ pending[a] # None /\ pending' = [pending EXCEPT ![a] = None]
        /\ chan' = [chan EXCEPT ![pending[a]] = d]
        /\ grants' = [grants EXCEPT ![a] = IF d = "accept" THEN @ + 1 ELSE @]
        /\ UNCHANGED <<initVars, handler, histVars>>
    BY <1>6 DEF Decide
  <2>2. TypeOK'
    BY <1>0, <2>1 DEF TypeOK, initVars, histVars
  <2> QED BY <2>1, <2>2 DEF BaseInv, initVars, histVars
<1>7. CASE \/ \E c \in Conns : BreakStream(c)
           \/ \E a \in KnownPeers : AddContact(a) \/ RemoveContact(a)
           \/ \E s \in Services : CancelService(s)
           \/ UNCHANGED vars
  BY <1>7 DEF BreakStream, AddContact, RemoveContact, CancelService, vars, initVars, userVars,
              histVars, BaseInv, TypeOK
<1> QED
  BY <1>1, <1>2, <1>3, <1>4, <1>5, <1>6, <1>7 DEF Next, InitiatorStep, Environment

-----------------------------------------------------------------------------
\* Facts about sequences of messages.
LEMMA SeqFacts ==
  ASSUME NEW S, NEW T, S \subseteq T, NEW q \in Seq(S)
  PROVE  /\ q \in Seq(T) /\ <<>> \in Seq(T)
         /\ q # <<>> => Head(q) \in S /\ Tail(q) \in Seq(T)
         /\ \A m \in T : Append(q, m) \in Seq(T) /\ q \o <<m>> \in Seq(T)
         /\ \A m, n \in T : q \o <<m, n>> \in Seq(T)
<1>1. q \in Seq(T) /\ <<>> \in Seq(T)
  OBVIOUS
<1>2. q # <<>> => Head(q) \in S /\ Tail(q) \in Seq(T)
  OBVIOUS
<1>3. \A m \in T : Append(q, m) \in Seq(T) /\ q \o <<m>> \in Seq(T)
  BY <1>1
<1>4. \A m, n \in T : q \o <<m, n>> \in Seq(T)
  BY <1>1
<1> QED BY <1>1, <1>2, <1>3, <1>4

\* What is known of a stream that has been opened stays so.
LEMMA Kept ==
  ASSUME BaseInv, [Next]_vars, NEW c \in Conns, handler[c] # "none"
  PROVE  /\ carried'[c] = carried[c] /\ owner'[c] = owner[c] /\ landed'[c] = landed[c]
         /\ approved[c] # "no" => approved'[c] # "no"
         /\ keySent \subseteq keySent' /\ verified \subseteq verified' /\ ipSent \subseteq ipSent'
         /\ \A i \in Initiators : call[i].pc # "idle" => call'[i].target = call[i].target
<1>0. TypeOK
  BY DEF BaseInv
<1>1. ASSUME NEW i \in Initiators, NEW s \in Services, RequestConnection(i, s)
      PROVE  \A j \in Initiators : call[j].pc # "idle" => call'[j].target = call[j].target
  BY <1>0, <1>1 DEF RequestConnection, TypeOK
<1>2. ASSUME NEW i \in Initiators, NEW d \in Conns, NEW s \in Services, Dial(i, d, s)
      PROVE  /\ \A j \in Initiators : call'[j].target = call[j].target
             /\ carried'[c] = carried[c] /\ owner'[c] = owner[c] /\ landed'[c] = landed[c]
  BY <1>0, <1>2 DEF Dial, Fresh, TypeOK, CallRec
<1>3. ASSUME NEW i \in Initiators,
             DialFails(i) \/ AttemptFails(i) \/ ContextDone(i) \/ ReadResponse(i) \/ ReadIPs(i)
      PROVE  /\ \A j \in Initiators : call'[j].target = call[j].target
             /\ UNCHANGED <<carried, owner, landed, histVars>>
  BY <1>0, <1>3, CallMoves DEF TypeOK
<1>4. ASSUME NEW d \in Conns, HandlerStep(d)
      PROVE  /\ UNCHANGED <<call, carried, owner, landed>>
             /\ approved[c] # "no" => approved'[c] # "no"
             /\ keySent \subseteq keySent' /\ verified \subseteq verified' /\ ipSent \subseteq ipSent'
  <2>1. UNCHANGED <<call, carried, owner, landed>>
    BY <1>4, HandlerMoves DEF initVars
  <2>2. approved[c] # "no" => approved'[c] # "no"
    BY <1>0, <1>4, HandlerMoves DEF TypeOK
  <2>3. keySent \subseteq keySent' /\ verified \subseteq verified' /\ ipSent \subseteq ipSent'
    BY <1>4, HandlerMoves
  <2> QED BY <2>1, <2>2, <2>3
<1>5. ASSUME NEW d \in Conns, NEW e \in Conns, Redeliver(d, e)
      PROVE  /\ carried'[c] = carried[c] /\ landed'[c] = landed[c]
             /\ UNCHANGED <<call, owner, histVars>>
  BY <1>0, <1>5 DEF Redeliver, Fresh, TypeOK
<1>6. CASE \/ \E d \in Conns : BreakStream(d)
           \/ \E a \in Initiators, d \in {"accept", "reject"} : Decide(a, d)
           \/ \E a \in KnownPeers : AddContact(a) \/ RemoveContact(a)
           \/ \E s \in Services : CancelService(s)
           \/ UNCHANGED vars
  BY <1>6 DEF BreakStream, Decide, AddContact, RemoveContact, CancelService, vars, initVars, histVars
<1>7. CASE \E i \in Initiators, s \in Services : RequestConnection(i, s)
  BY <1>1, <1>7 DEF RequestConnection, histVars
<1>8. CASE \E i \in Initiators, d \in Conns, s \in Services : Dial(i, d, s)
  BY <1>2, <1>8, ZenonT(60) DEF Dial, histVars
<1> QED
  BY <1>3, <1>4, <1>5, <1>6, <1>7, <1>8 DEF Next, InitiatorStep, Environment, histVars

\* What may be on the wire stays allowed, and nothing that an initiator could not say.
LEMMA MessagesKept ==
  ASSUME BaseInv, [Next]_vars, NEW c \in Conns, handler[c] # "none"
  PROVE  /\ Answers(c) \subseteq Answers(c)' /\ Proofs(c)' = Proofs(c)
         /\ Dialed(c)' <=> Dialed(c)
<1>1. Answers(c) \subseteq Answers(c)'
  BY Kept DEF Answers, Accepted
<1>2. Dialed(c)' <=> Dialed(c)
  <2>1. CASE owner[c] = None
    BY <2>1, Kept, HandshakeAssumption DEF Dialed
  <2>2. CASE owner[c] # None
    <3>1. owner[c] \in Initiators /\ call[owner[c]].pc # "idle"
      BY <2>2 DEF BaseInv, TypeOK
    <3> QED BY <3>1, Kept DEF Dialed
  <2> QED BY <2>1, <2>2
<1>3. Proofs(c)' = Proofs(c)
  BY <1>2, Kept DEF Proofs
<1> QED BY <1>1, <1>2, <1>3

\* A stream that a step does not touch stays readable.
LEMMA ReadableKept ==
  ASSUME BaseInv, [Next]_vars, NEW c \in Conns, Readable(c),
         handler'[c] = handler[c], toInit'[c] = toInit[c], toResp'[c] = toResp[c]
  PROVE  Readable(c)'
<1>1. CASE handler[c] \in {"none", "read"}
  BY <1>1 DEF Readable
<1>2. CASE handler[c] \notin {"none", "read"}
  <2>1. toInit[c] \in Seq(Answers(c)') /\ toResp[c] \in Seq(Proofs(c)')
    BY <1>2, MessagesKept, SeqFacts DEF Readable
  <2> QED BY <1>2, <2>1 DEF Readable
<1> QED BY <1>1, <1>2

\* A response that is accepted is the answer of the service, for this stream.
LEMMA ResponseRead ==
  ASSUME BaseInv, WireInv, NEW i \in Initiators, call[i].pc = "await",
         toInit[call[i].conn] # <<>>
  PROVE  LET c == call[i].conn
             m == Head(toInit[c])
         IN  /\ c \in Conns /\ owner[c] = i /\ handler[c] \notin {"none", "read"}
             /\ m.accepted => m = Response(landed[c], carried[c].nonce, c) /\ Accepted(c)
<1> DEFINE c == call[i].conn
           m == Head(toInit[c])
<1>1. c \in Conns /\ owner[c] = i
  BY DEF BaseInv
<1>2. handler[c] \notin {"none", "read"} /\ toInit[c] \in Seq(Answers(c))
  BY <1>1 DEF WireInv, Readable
<1>3. m \in Answers(c)
  BY <1>2, SeqFacts
<1>4. c \notin ipSent
  BY <1>1 DEF WireInv, Unproved, Marked
<1>5. m.accepted => m = Response(landed[c], carried[c].nonce, c) /\ Accepted(c)
  BY <1>3, <1>4 DEF Answers, Rejection
<1> QED BY <1>1, <1>2, <1>5

\* What was verified, on either side, stays true of the stream.
LEMMA VerifiedKept ==
  ASSUME BaseInv, WireInv, [Next]_vars
  PROVE  /\ \A c \in verified : c \in Conns /\ Dialed(c)' /\ owner'[c] = carried'[c].from
         /\ \A i \in Initiators, c \in Conns :
              call[i].pc \in {"exchange", "ok"} /\ call[i].conn = c => Dialed(c)' /\ Accepted(c)'
<1>1. ASSUME NEW c \in verified PROVE c \in Conns /\ Dialed(c)' /\ owner'[c] = carried'[c].from
  <2>1. c \in Conns /\ c \in keySent /\ handler[c] # "none"
    BY DEF WireInv, Marked, BaseInv, TypeOK
  <2> QED BY <2>1, Kept, MessagesKept DEF WireInv
<1>2. ASSUME NEW i \in Initiators, NEW c \in Conns, call[i].pc \in {"exchange", "ok"}, call[i].conn = c
      PROVE  Dialed(c)' /\ Accepted(c)'
  <2>1. Dialed(c) /\ Accepted(c) /\ handler[c] # "none"
    BY <1>2 DEF WireInv, Accepted, BaseInv
  <2> QED BY <2>1, Kept, MessagesKept DEF Accepted
<1> QED BY <1>1, <1>2

\* An initiator that neither reads nor dials touches nothing.
LEMMA QuietWire ==
  ASSUME BaseInv, WireInv, [Next]_vars, UNCHANGED <<toInit, toResp, handler, histVars>>,
         \A i \in Initiators : call'[i] = call[i] \/ call'[i].pc \notin {"await", "exchange", "ok"}
  PROVE  WireInv'
<1>1. \A c \in Conns : Readable(c)'
  BY ReadableKept DEF WireInv
<1>2. \A c \in Conns : Marked(c)'
  BY DEF WireInv, Marked, histVars
<1>3. \A i \in Initiators : Unproved(i)'
  BY DEF WireInv, Unproved, histVars
<1>4. \A c \in verified' : Dialed(c)' /\ owner'[c] = carried'[c].from
  BY VerifiedKept DEF histVars
<1>5. ASSUME NEW i \in Initiators, call'[i].pc \in {"exchange", "ok"}
      PROVE  (Dialed(call[i].conn) /\ Accepted(call[i].conn))'
  <2>1. call'[i] = call[i] /\ call[i].conn \in Conns
    BY <1>5 DEF BaseInv
  <2> QED BY <1>5, <2>1, VerifiedKept
<1> QED BY <1>1, <1>2, <1>3, <1>4, <1>5 DEF WireInv

\* A stream is opened.
LEMMA OpenWire ==
  ASSUME BaseInv, BaseInv', WireInv, [Next]_vars, NEW c \in Conns,
         (\E i \in Initiators, s \in Services : Dial(i, c, s)) \/ (\E d \in Conns : Redeliver(c, d))
  PROVE  WireInv'
<1>0. TypeOK /\ DOMAIN toInit = Conns /\ DOMAIN toResp = Conns
  BY DEF BaseInv, WireInv
<1>1. /\ handler[c] = "none" /\ handler' = [handler EXCEPT ![c] = "read"]
      /\ toResp' = [toResp EXCEPT ![c] = <<"CONN_REQUEST">>] /\ toInit' = toInit
      /\ UNCHANGED histVars
  BY DEF Dial, Redeliver, Fresh
<1>2. \A i \in Initiators : call'[i] = call[i] \/ (call'[i].pc = "await" /\ call'[i].conn = c)
  <2>1. ASSUME NEW i \in Initiators, NEW s \in Services, Dial(i, c, s)
        PROVE  call'[i].pc = "await" /\ call'[i].conn = c /\ \A j \in Initiators \ {i} : call'[j] = call[j]
    BY <1>0, <2>1 DEF Dial, TypeOK, CallRec
  <2>2. CASE \E d \in Conns : Redeliver(c, d)
    BY <2>2 DEF Redeliver
  <2> QED BY <2>1, <2>2
<1>3. \A d \in Conns : d # c => handler'[d] = handler[d] /\ toInit'[d] = toInit[d] /\ toResp'[d] = toResp[d]
  BY <1>0, <1>1 DEF TypeOK
<1>4. handler'[c] = "read" /\ toResp'[c] = <<"CONN_REQUEST">> /\ toInit'[c] = <<>>
  BY <1>0, <1>1 DEF TypeOK, WireInv, Readable
<1>5. \A d \in Conns : Readable(d)'
  <2>1. Readable(c)'
    BY <1>4 DEF Readable
  <2>2. ASSUME NEW d \in Conns, d # c PROVE Readable(d)'
    BY <1>3, <2>2, ReadableKept DEF WireInv
  <2> QED BY <2>1, <2>2
<1>6. \A d \in Conns : Marked(d)'
  BY <1>1, <1>3, <1>4 DEF WireInv, Marked, histVars
<1>7. c \notin verified /\ c \notin keySent
  BY <1>1 DEF WireInv, Marked, BaseInv
<1>8. ASSUME NEW i \in Initiators PROVE Unproved(i)'
  <2>1. CASE call'[i].pc = "await" /\ call'[i].conn = c
    BY <1>1, <1>4, <1>7, <2>1 DEF Unproved, histVars
  <2>2. CASE call'[i] = call[i] /\ call[i].pc = "await"
    <3>1. call[i].conn \in Conns /\ call[i].conn # c
      BY <1>1, <2>2, HandshakeAssumption DEF BaseInv
    <3> QED BY <1>1, <1>3, <2>2, <3>1 DEF WireInv, Unproved, histVars
  <2>3. CASE call'[i].pc # "await"
    BY <2>3 DEF Unproved
  <2> QED BY <1>2, <2>1, <2>2, <2>3
<1>9. \A d \in verified' : Dialed(d)' /\ owner'[d] = carried'[d].from
  BY <1>1, VerifiedKept DEF histVars
<1>10. ASSUME NEW i \in Initiators, call'[i].pc \in {"exchange", "ok"}
       PROVE  (Dialed(call[i].conn) /\ Accepted(call[i].conn))'
  <2>1. call'[i] = call[i] /\ call[i].conn \in Conns
    BY <1>2, <1>10 DEF BaseInv
  <2> QED BY <1>10, <2>1, VerifiedKept
<1> QED
  BY <1>0, <1>1, <1>5, <1>6, <1>8, <1>9, <1>10 DEF WireInv

\* The initiator reads from its stream and answers.
LEMMA InitiatorReads ==
  ASSUME BaseInv, BaseInv', WireInv, [Next]_vars, NEW i \in Initiators, ReadResponse(i) \/ ReadIPs(i)
  PROVE  WireInv'
<1>0. TypeOK /\ DOMAIN toInit = Conns /\ DOMAIN toResp = Conns
  BY DEF BaseInv, WireInv
<1>1. PICK c \in Conns :
        /\ c = call[i].conn /\ owner[c] = i /\ handler[c] \notin {"none", "read"} /\ toInit[c] # <<>>
        /\ call[i].pc \in {"await", "exchange"}
  <2>1. toInit[call[i].conn] # <<>> /\ call[i].pc \in {"await", "exchange"}
    BY DEF ReadResponse, ReadIPs
  <2>2. call[i].conn \in Conns /\ owner[call[i].conn] = i
    BY <2>1 DEF BaseInv
  <2> QED BY <2>1, <2>2 DEF WireInv, Readable
<1>2. UNCHANGED <<carried, owner, landed, handler, histVars>>
      /\ \A j \in Initiators \ {i} : call'[j] = call[j]
  BY <1>0, CallMoves DEF TypeOK
<1>3. toInit' = [toInit EXCEPT ![c] = Tail(@)]
  BY <1>1 DEF ReadResponse, ReadIPs
<1>4. toInit[c] \in Seq(Answers(c)) /\ toResp[c] \in Seq(Proofs(c))
  BY <1>1 DEF WireInv, Readable
<1>5. /\ \/ toResp' = toResp
         \/ \E q \in {<<Confirm(owner[c], <<"resp", c>>)>>,
                     <<Confirm(owner[c], <<"resp", c>>), IPInfo(owner[c], landed[c])>>} :
              Dialed(c) /\ Accepted(c) /\ toResp' = [toResp EXCEPT ![c] = IF "resp" \in up[c] THEN @ \o q ELSE @]
      /\ call'[i].pc # "await"
      /\ call'[i].pc \in {"exchange", "ok"} => call'[i].conn = c /\ Dialed(c) /\ Accepted(c)
  <2>0. call'[i].pc \notin {"idle", "await"} /\ (call'[i].pc \in {"exchange", "ok"} => call'[i].conn = c)
    BY <1>0, <1>1, CallMoves DEF TypeOK
  <2>1. CASE ReadIPs(i)
    <3>1. call[i].pc = "exchange" /\ toResp' = toResp
      BY <2>1 DEF ReadIPs
    <3> QED BY <1>1, <2>0, <3>1 DEF WireInv
  <2>2. CASE ReadResponse(i)
    <3> DEFINE m == Head(toInit[c])
    <3>1. call[i].pc = "await"
      BY <2>2 DEF ReadResponse
    <3>2. m.accepted => m = Response(landed[c], carried[c].nonce, c) /\ Accepted(c)
      BY <1>1, <3>1, ResponseRead
    <3>3. CASE ~(m.accepted /\ ValidResponse(m, c, call[i].target))
      <4>1. toResp' = toResp
        BY <1>1, <2>2, <3>3 DEF ReadResponse
      <4>2. \/ call' = [call EXCEPT ![i].pc = "rejected"]
            \/ AfterFailure(i)
        BY <1>1, <2>2, <3>3 DEF ReadResponse
      <4>3. call \in [Initiators -> CallRec]
        BY <1>0 DEF TypeOK
      <4>4. call'[i].pc \in {"rejected", "dial", "failed"}
        BY <4>2, <4>3 DEF AfterFailure, CallRec
      <4> QED
        BY <4>1, <4>4
    <3>4. CASE m.accepted /\ ValidResponse(m, c, call[i].target)
      <4>1. /\ m.key = landed[c] /\ m.nonce = <<"resp", c>> /\ m.key = call[i].target
            /\ carried[c].nonce = <<"req", c>> /\ Accepted(c)
        BY <1>1, <3>2, <3>4, HandshakeAssumption DEF ValidResponse, Response, BaseInv
      <4>2. Dialed(c)
        BY <1>1, <4>1 DEF Dialed
      <4>3. \/ toResp' = toResp
            \/ WriteResp(c, <<Confirm(i, m.nonce)>>)
            \/ WriteResp(c, <<Confirm(i, m.nonce), IPInfo(i, m.key)>>)
        BY <1>1, <2>2 DEF ReadResponse
      <4> QED BY <1>1, <2>0, <4>1, <4>2, <4>3 DEF WriteResp
    <3> QED BY <3>3, <3>4
  <2> QED BY <2>1, <2>2
<1>6. \A d \in Conns : d # c => toInit'[d] = toInit[d] /\ toResp'[d] = toResp[d]
  BY <1>0, <1>3, <1>5
<1>7. Answers(c) \subseteq Answers(c)' /\ Proofs(c)' = Proofs(c)
  BY <1>1, MessagesKept
<1>8. Readable(c)'
  <2>1. toInit'[c] \in Seq(Answers(c)')
    BY <1>0, <1>1, <1>3, <1>4, <1>7, SeqFacts
  <2>2. toResp'[c] \in Seq(Proofs(c))
    <3>1. Dialed(c) => Confirm(owner[c], <<"resp", c>>) \in Proofs(c) /\ IPInfo(owner[c], landed[c]) \in Proofs(c)
      BY DEF Proofs
    <3>2. CASE toResp' = toResp
      BY <1>4, <3>2
    <3>3. ASSUME NEW q \in Seq(Proofs(c)),
                 toResp' = [toResp EXCEPT ![c] = IF "resp" \in up[c] THEN @ \o q ELSE @]
          PROVE  toResp'[c] \in Seq(Proofs(c))
      <4>1. toResp[c] \o q \in Seq(Proofs(c))
        BY <1>4
      <4> QED BY <1>0, <1>1, <1>4, <3>3, <4>1
    <3>4. Dialed(c) => /\ <<Confirm(owner[c], <<"resp", c>>)>> \in Seq(Proofs(c))
                       /\ <<Confirm(owner[c], <<"resp", c>>), IPInfo(owner[c], landed[c])>> \in Seq(Proofs(c))
      BY <3>1
    <3> QED BY <1>5, <3>2, <3>3, <3>4
  <2> QED BY <1>1, <1>2, <1>7, <2>1, <2>2 DEF Readable
<1>9. \A d \in Conns : Readable(d)'
  BY <1>2, <1>6, <1>8, ReadableKept DEF WireInv
<1>10. \A d \in Conns : Marked(d)'
  BY <1>2 DEF WireInv, Marked, histVars
<1>11. ASSUME NEW j \in Initiators PROVE Unproved(j)'
  <2>1. CASE j = i
    BY <1>5, <2>1 DEF Unproved
  <2>2. CASE j # i /\ call[j].pc = "await"
    <3>1. call[j].conn \in Conns /\ call[j].conn # c
      BY <1>1, <2>2 DEF BaseInv
    <3> QED BY <1>2, <1>6, <2>2, <3>1 DEF WireInv, Unproved, histVars
  <2>3. CASE j # i /\ call[j].pc # "await"
    BY <1>2, <2>3 DEF Unproved
  <2> QED BY <2>1, <2>2, <2>3
<1>12. \A d \in verified' : Dialed(d)' /\ owner'[d] = carried'[d].from
  BY <1>2, VerifiedKept DEF histVars
<1>13. ASSUME NEW j \in Initiators, call'[j].pc \in {"exchange", "ok"}
       PROVE  (Dialed(call[j].conn) /\ Accepted(call[j].conn))'
  <2>1. CASE j = i
    <3>1. call'[i].conn = c /\ Dialed(c) /\ Accepted(c)
      BY <1>5, <1>13, <2>1
    <3>2. Dialed(c)' /\ Accepted(c)'
      BY <1>1, <1>2, <3>1, MessagesKept DEF Accepted, histVars
    <3> QED BY <2>1, <3>1, <3>2
  <2>2. CASE j # i
    <3>1. call'[j] = call[j] /\ call[j].conn \in Conns
      BY <1>2, <1>13, <2>2 DEF BaseInv
    <3> QED BY <1>13, <3>1, VerifiedKept
  <2> QED BY <2>1, <2>2
<1> QED
  BY <1>0, <1>3, <1>5, <1>9, <1>10, <1>11, <1>12, <1>13 DEF WireInv

\* The circuit behind a stream breaks.
LEMMA BrokenWire ==
  ASSUME BaseInv, BaseInv', WireInv, [Next]_vars, NEW c \in Conns, BreakStream(c)
  PROVE  WireInv'
<1>0. DOMAIN toInit = Conns /\ DOMAIN toResp = Conns
  BY DEF WireInv
<1>1. UNCHANGED <<initVars, handler, histVars>>
  BY DEF BreakStream
<1>2. /\ DOMAIN toInit' = Conns /\ DOMAIN toResp' = Conns
      /\ \A d \in Conns : (toInit'[d] = toInit[d] \/ toInit'[d] = <<>>)
                         /\ (toResp'[d] = toResp[d] \/ toResp'[d] = <<>>)
  BY <1>0 DEF BreakStream
<1>3. ASSUME NEW d \in Conns PROVE Readable(d)'
  <2>1. Answers(d)' = Answers(d) /\ Proofs(d)' = Proofs(d)
    BY <1>1 DEF Answers, Proofs, Accepted, Dialed, initVars, histVars
  <2>2. <<>> \in Seq(Answers(d)) /\ <<>> \in Seq(Proofs(d))
    OBVIOUS
  <2> QED BY <1>1, <1>2, <2>1, <2>2 DEF WireInv, Readable
<1>4. \A d \in Conns : Marked(d)'
  BY <1>1 DEF WireInv, Marked, histVars
<1>5. \A i \in Initiators : Unproved(i)'
  BY <1>1, <1>2 DEF WireInv, Unproved, BaseInv, initVars, histVars
<1>6. /\ \A d \in verified' : Dialed(d)' /\ owner'[d] = carried'[d].from
      /\ \A i \in Initiators : call'[i].pc \in {"exchange", "ok"} =>
           (Dialed(call[i].conn) /\ Accepted(call[i].conn))'
  BY <1>1 DEF WireInv, Dialed, Accepted, initVars, histVars
<1> QED BY <1>2, <1>3, <1>4, <1>5, <1>6 DEF WireInv

\* What is common to the steps of a handler: they concern one stream, and what it has
\* verified belongs to whom the request named.
LEMMA HandlerWire ==
  ASSUME BaseInv, BaseInv', WireInv, NEW c \in Conns, HandlerStep(c), [Next]_vars,
         DOMAIN toInit' = Conns, DOMAIN toResp' = Conns,
         \A d \in Conns : d # c => toInit'[d] = toInit[d] /\ toResp'[d] = toResp[d],
         toInit'[c] \in Seq(Answers(c)'), toResp'[c] \in Seq(Proofs(c)),
         toResp[c] = <<>> \/ handler[c] = "read" => toResp'[c] = <<>>,
         Marked(c)',
         c \in verified' => c \in verified \/ (toResp[c] # <<>> /\ handler[c] # "read"
                                               /\ Dialed(c) /\ owner[c] = carried[c].from)
  PROVE  WireInv'
<1>1. UNCHANGED initVars /\ handler[c] # "none"
  BY HandlerMoves
<1>2. /\ handler'[c] \notin {"none", "read"}
      /\ \A d \in Conns : d # c => /\ handler'[d] = handler[d] /\ approved'[d] = approved[d]
                                  /\ (d \in keySent' <=> d \in keySent)
                                  /\ (d \in ipSent' <=> d \in ipSent)
      /\ \A d : d # c => (d \in verified' <=> d \in verified)
  <2>1. \E l \in Places \ {"none", "read"} : handler' = [handler EXCEPT ![c] = l]
    BY HandlerMoves
  <2>2. \E x \in {"no", "contact", "user", "gate"} : approved' = [approved EXCEPT ![c] = x]
    BY HandlerMoves
  <2>3. /\ keySent' \in {keySent, keySent \cup {c}} /\ ipSent' \in {ipSent, ipSent \cup {c}}
        /\ verified' \in {verified, verified \cup {c}}
    BY HandlerMoves
  <2> QED BY <2>1, <2>2, <2>3 DEF BaseInv, TypeOK
<1>3. Proofs(c)' = Proofs(c)
  BY <1>1, MessagesKept
<1>4. Readable(c)'
  BY <1>2, <1>3 DEF Readable
<1>5. \A d \in Conns : Readable(d)'
  BY <1>2, <1>4, ReadableKept DEF WireInv
<1>6. ASSUME NEW d \in Conns PROVE Marked(d)'
  <2>1. CASE d # c
    BY <1>2, <2>1 DEF WireInv, Marked
  <2> QED BY <2>1
<1>7. ASSUME NEW i \in Initiators, call[i].pc = "await"
      PROVE  Unproved(i)'
  <2>1. call'[i] = call[i] /\ call[i].conn \in Conns
    BY <1>1, <1>7 DEF BaseInv, initVars
  <2>2. Unproved(i)
    BY DEF WireInv
  <2>3. CASE call[i].conn # c
    BY <1>2, <1>7, <2>1, <2>2, <2>3 DEF Unproved
  <2>4. CASE call[i].conn = c
    BY <1>2, <1>7, <2>1, <2>2, <2>4 DEF Unproved
  <2> QED BY <2>3, <2>4
<1>8. \A i \in Initiators : Unproved(i)'
  BY <1>1, <1>7 DEF Unproved, initVars
<1>9. ASSUME NEW d \in verified' PROVE Dialed(d)' /\ owner'[d] = carried'[d].from
  <2>1. CASE d \in verified
    BY <2>1, VerifiedKept
  <2>2. CASE d \notin verified
    <3>1. d = c /\ Dialed(c) /\ owner[c] = carried[c].from
      BY <1>2, <2>2
    <3> QED BY <1>1, <3>1 DEF Dialed, initVars
  <2> QED BY <2>1, <2>2
<1>10. ASSUME NEW i \in Initiators, call'[i].pc \in {"exchange", "ok"}
       PROVE  (Dialed(call[i].conn) /\ Accepted(call[i].conn))'
  <2>1. call'[i] = call[i] /\ call[i].conn \in Conns
    BY <1>1, <1>10 DEF BaseInv, initVars
  <2> QED BY <1>10, <2>1, VerifiedKept
<1> QED BY <1>5, <1>6, <1>8, <1>9, <1>10 DEF WireInv

\* The marks that a handler leaves on its way.
LEMMA MarkedStep ==
  ASSUME BaseInv, NEW c \in Conns, Marked(c), HandlerStep(c)
  PROVE  Marked(c)'
<1>0. /\ DOMAIN handler = Conns /\ DOMAIN approved = Conns /\ chan[c] \in {"empty", "accept", "reject"}
  BY DEF BaseInv, TypeOK
<1>1. CASE ReadFails(c) \/ ReadRequest(c) \/ AskTimeout(c) \/ SendReject(c) \/ FinishExchange(c)
  BY <1>0, <1>1 DEF ReadFails, ReadRequest, AskTimeout, SendReject, FinishExchange, Return, Step,
                    histVars, Marked
<1>2. CASE LookupContact(c)
  BY <1>0, <1>2 DEF LookupContact, Step, Marked
<1>3. CASE AskUser(c)
  BY <1>0, <1>3 DEF AskUser, Step, Marked
<1>4. CASE TakeDecision(c)
  BY <1>0, <1>4 DEF TakeDecision, Step, Marked
<1>5. CASE SendAccept(c)
  BY <1>0, <1>5 DEF SendAccept, Return, Step, Marked
<1>6. CASE ReadConfirm(c)
  BY <1>0, <1>6 DEF ReadConfirm, Return, Step, Marked
<1>7. CASE SendIPs(c)
  BY <1>0, <1>7 DEF SendIPs, Return, Step, Marked
<1> QED
  BY <1>1, <1>2, <1>3, <1>4, <1>5, <1>6, <1>7 DEF HandlerStep

\* A confirmation that passes the check comes from whom the request names.
LEMMA ConfirmRead ==
  ASSUME NEW c \in Conns, NEW m \in Proofs(c), ValidConfirm(m, c)
  PROVE  Dialed(c) /\ owner[c] = carried[c].from
<1>1. Dialed(c) /\ m \in {Confirm(owner[c], <<"resp", c>>), IPInfo(owner[c], landed[c])}
  BY DEF Proofs
<1>2. m = Confirm(owner[c], <<"resp", c>>)
  BY <1>1 DEF ValidConfirm, IPInfo
<1> QED BY <1>1, <1>2 DEF ValidConfirm, Confirm

\* A handler reads and writes its own stream, and only what its place in the protocol allows.
LEMMA HandlerWireStep ==
  ASSUME BaseInv, BaseInv', WireInv, NEW c \in Conns, HandlerStep(c), [Next]_vars
  PROVE  WireInv'
<1>0. DOMAIN toInit = Conns /\ DOMAIN toResp = Conns /\ Readable(c) /\ Marked(c) /\ DOMAIN handler = Conns
  BY DEF BaseInv, TypeOK, WireInv
<1>1. UNCHANGED initVars /\ handler[c] # "none" /\ handler'[c] \notin {"none", "read"}
  BY <1>0, HandlerMoves
<1>2. Answers(c) \subseteq Answers(c)'
  BY <1>1, MessagesKept
<1>3. toInit[c] \in Seq(Answers(c)') /\ (toInit[c] # <<>> => handler[c] # "read")
  <2>1. <<>> \in Seq(Answers(c)')
    OBVIOUS
  <2>2. handler[c] # "read" => toInit[c] \in Seq(Answers(c))
    BY <1>0, <1>1 DEF Readable
  <2>3. handler[c] # "read" => toInit[c] \in Seq(Answers(c)')
    BY <1>2, <2>2, SeqFacts
  <2> QED BY <1>0, <2>1, <2>3 DEF Readable
<1>4. handler[c] # "read" => toResp[c] \in Seq(Proofs(c))
  BY <1>0, <1>1 DEF Readable
<1>5. handler[c] = "read" => toResp[c] \in {<<>>, <<"CONN_REQUEST">>}
  BY <1>0 DEF Readable
<1>6. Marked(c)'
  BY <1>0, MarkedStep
<1>7. <<>> \in Seq(Proofs(c))
  OBVIOUS
<1>8. CASE ReadFails(c) \/ LookupContact(c) \/ AskUser(c) \/ TakeDecision(c) \/ AskTimeout(c)
  <2>1. UNCHANGED <<toInit, toResp, verified>> /\ (handler[c] = "read" => toResp[c] = <<>>)
    BY <1>8 DEF ReadFails, EOF, LookupContact, AskUser, TakeDecision, AskTimeout, wireVars, histVars
  <2> QED BY <1>0, <1>3, <1>4, <1>6, <1>7, <2>1, HandlerWire
<1>9. CASE ReadRequest(c)
  <2>1. UNCHANGED <<toInit, verified>> /\ handler[c] = "read" /\ toResp[c] # <<>>
        /\ toResp' = [toResp EXCEPT ![c] = Tail(@)]
    BY <1>9 DEF ReadRequest, histVars
  <2>2. DOMAIN toResp' = Conns /\ toResp'[c] = <<>> /\ \A d \in Conns : d # c => toResp'[d] = toResp[d]
    BY <1>0, <1>5, <2>1
  <2> QED BY <1>0, <1>3, <1>6, <1>7, <2>1, <2>2, HandlerWire
<1>10. CASE SendAccept(c) \/ SendReject(c) \/ SendIPs(c)
  <2>1. UNCHANGED <<toResp, verified>> /\ handler[c] # "read"
    BY <1>10 DEF SendAccept, SendReject, SendIPs, histVars
  <2>2. toInit' = toInit \/ \E m \in Answers(c)' : WriteInit(c, m)
    <3>1. CASE SendAccept(c)
      <4>1. CASE toInit' = toInit
        BY <4>1
      <4>2. CASE WriteInit(c, Response(landed[c], carried[c].nonce, c)) /\ keySent' = keySent \cup {c}
                 /\ approved' = approved /\ handler[c] = "respond"
        <5>1. Accepted(c)'
          BY <1>0, <4>2 DEF Marked, Accepted
        <5>2. Response(landed[c], carried[c].nonce, c) \in Answers(c)'
          BY <1>1, <5>1 DEF Answers, initVars
        <5> QED BY <4>2, <5>2
      <4> QED BY <3>1, <4>1, <4>2 DEF SendAccept
    <3>2. CASE SendReject(c)
      BY <3>2 DEF SendReject, Answers
    <3>3. CASE SendIPs(c)
      <4>1. CASE toInit' = toInit
        BY <4>1
      <4>2. CASE WriteInit(c, IPInfo(landed[c], carried[c].from)) /\ ipSent' = ipSent \cup {c}
        <5>1. IPInfo(landed[c], carried[c].from) \in Answers(c)'
          BY <1>1, <4>2 DEF Answers, initVars
        <5> QED BY <4>2, <5>1
      <4> QED BY <3>3, <4>1, <4>2 DEF SendIPs
    <3> QED BY <1>10, <3>1, <3>2, <3>3
  <2>3. DOMAIN toInit' = Conns /\ \A d \in Conns : d # c => toInit'[d] = toInit[d]
    BY <1>0, <2>2 DEF WriteInit
  <2>4. toInit'[c] \in Seq(Answers(c)')
    <3>1. CASE toInit' = toInit
      BY <1>3, <3>1
    <3>2. ASSUME NEW m \in Answers(c)', WriteInit(c, m) PROVE toInit'[c] \in Seq(Answers(c)')
      <4>1. Append(toInit[c], m) \in Seq(Answers(c)')
        BY <1>3, SeqFacts
      <4> QED BY <1>0, <1>3, <3>2, <4>1 DEF WriteInit
    <3> QED BY <2>2, <3>1, <3>2
  <2> QED BY <1>0, <1>4, <1>6, <2>1, <2>3, <2>4, HandlerWire
<1>11. CASE ReadConfirm(c)
  <2>1. UNCHANGED toInit /\ handler[c] # "read" /\ toResp[c] # <<>> /\ toResp' = [toResp EXCEPT ![c] = Tail(@)]
        /\ (verified' # verified => ValidConfirm(Head(toResp[c]), c))
    BY <1>11 DEF ReadConfirm
  <2>2. Head(toResp[c]) \in Proofs(c) /\ Tail(toResp[c]) \in Seq(Proofs(c))
    BY <1>4, <2>1, SeqFacts
  <2>3. DOMAIN toResp' = Conns /\ toResp'[c] \in Seq(Proofs(c)) /\ \A d \in Conns : d # c => toResp'[d] = toResp[d]
    BY <1>0, <2>1, <2>2
  <2>4. c \in verified' => c \in verified \/ (Dialed(c) /\ owner[c] = carried[c].from)
    BY <2>1, <2>2, ConfirmRead
  <2> QED BY <1>0, <1>3, <1>6, <2>1, <2>3, <2>4, HandlerWire
<1>12. CASE FinishExchange(c)
  <2>1. UNCHANGED <<toInit, verified>> /\ handler[c] # "read"
        /\ toResp' = [toResp EXCEPT ![c] = IF @ = <<>> THEN @ ELSE Tail(@)]
    BY <1>12 DEF FinishExchange, histVars
  <2>2. toResp[c] # <<>> => Tail(toResp[c]) \in Seq(Proofs(c))
    BY <1>4, <2>1, SeqFacts
  <2>3. DOMAIN toResp' = Conns /\ toResp'[c] \in Seq(Proofs(c)) /\ (toResp[c] = <<>> => toResp'[c] = <<>>)
        /\ \A d \in Conns : d # c => toResp'[d] = toResp[d]
    BY <1>0, <1>4, <2>1, <2>2
  <2> QED BY <1>0, <1>3, <1>6, <2>1, <2>3, HandlerWire
<1> QED
  BY <1>8, <1>9, <1>10, <1>11, <1>12 DEF HandlerStep

\* Every step keeps what a stream can carry.
LEMMA WireStep ==
  ASSUME BaseInv, BaseInv', WireInv, [Next]_vars
  PROVE  WireInv'
<1>1. ASSUME NEW i \in Initiators, DialFails(i) \/ AttemptFails(i) \/ ContextDone(i) PROVE WireInv'
  <2>1. UNCHANGED <<toInit, toResp, handler, histVars>>
    BY <1>1 DEF DialFails, AttemptFails, ContextDone, wireVars
  <2>2. call'[i].pc \notin {"await", "exchange", "ok"} /\ \A j \in Initiators \ {i} : call'[j] = call[j]
    BY <1>1 DEF DialFails, AttemptFails, ContextDone, AfterFailure, BaseInv, TypeOK, CallRec
  <2> QED BY <2>1, <2>2, QuietWire
<1>2. ASSUME NEW i \in Initiators, NEW s \in Services, RequestConnection(i, s) PROVE WireInv'
  <2>1. UNCHANGED <<toInit, toResp, handler, histVars>>
    BY <1>2 DEF RequestConnection, wireVars
  <2>2. call'[i].pc = "dial" /\ \A j \in Initiators \ {i} : call'[j] = call[j]
    BY <1>2 DEF RequestConnection, BaseInv, TypeOK, CallRec
  <2> QED BY <2>1, <2>2, QuietWire
<1>3. CASE \/ \E a \in Initiators, d \in {"accept", "reject"} : Decide(a, d)
           \/ \E a \in KnownPeers : AddContact(a) \/ RemoveContact(a)
           \/ \E s \in Services : CancelService(s)
           \/ UNCHANGED vars
  <2>1. UNCHANGED <<toInit, toResp, handler, histVars, call>>
    BY <1>3 DEF Decide, AddContact, RemoveContact, CancelService, vars, wireVars, initVars
  <2> QED BY <2>1, QuietWire
<1> QED
  BY <1>1, <1>2, <1>3, OpenWire, InitiatorReads, BrokenWire, HandlerWireStep
  DEF Next, InitiatorStep, Environment

-----------------------------------------------------------------------------
\* The decision channel of a stream: filled by the user, or by the gate of a service that
\* asks nobody, and emptied into the reason for which the handler accepted.
LEMMA ChannelMoves ==
  ASSUME BaseInv, NEW c \in Conns, HandlerStep(c)
  PROVE  /\ approved'[c] = "user" =>
              approved[c] = "user" \/ (chan[c] = "accept" /\ Acl[landed[c]] = "interactive")
         /\ chan'[c] = "accept" /\ Acl[landed[c]] = "interactive" => chan[c] = "accept"
         /\ UNCHANGED <<pending, prompts>> \/ (AskUser(c) /\ Acl[landed[c]] = "interactive")
         /\ handler'[c] = "waiting" /\ chan'[c] = "empty" =>
              AskUser(c) /\ Acl[landed[c]] = "interactive"
<1>0. /\ DOMAIN handler = Conns /\ DOMAIN approved = Conns /\ DOMAIN chan = Conns
      /\ chan[c] \in {"empty", "accept", "reject"}
  BY DEF BaseInv, TypeOK
<1>1. CASE ReadFails(c) \/ ReadRequest(c) \/ AskTimeout(c) \/ SendReject(c) \/ FinishExchange(c)
  BY <1>0, <1>1 DEF ReadFails, ReadRequest, AskTimeout, SendReject, FinishExchange, Return, Step,
                    histVars, userVars
<1>2. CASE LookupContact(c)
  BY <1>0, <1>2 DEF LookupContact, Step, userVars
<1>3. CASE AskUser(c)
  BY <1>0, <1>3 DEF AskUser, Step
<1>4. CASE TakeDecision(c)
  BY <1>0, <1>4 DEF TakeDecision, Step, userVars
<1>5. CASE SendAccept(c) \/ ReadConfirm(c) \/ SendIPs(c)
  BY <1>0, <1>5 DEF SendAccept, ReadConfirm, SendIPs, Return, Step, userVars
<1> QED
  BY <1>1, <1>2, <1>3, <1>4, <1>5 DEF HandlerStep

\* Fewer streams paid for by no fewer decisions.
LEMMA PaidFewer ==
  ASSUME BaseInv, BaseInv', ConsentInv, NEW a \in Initiators, Paid(a)' \subseteq Paid(a), grants[a] <= grants'[a]
  PROVE  (IsFiniteSet(Paid(a)) /\ Cardinality(Paid(a)) <= grants[a])'
<1>1. IsFiniteSet(Paid(a)) /\ Cardinality(Paid(a)) <= grants[a]
  BY DEF ConsentInv
<1>2. IsFiniteSet(Paid(a)') /\ Cardinality(Paid(a)') <= Cardinality(Paid(a))
  BY <1>1, FS_Subset
<1>3. Cardinality(Paid(a)) \in Nat /\ Cardinality(Paid(a)') \in Nat /\ grants[a] \in Nat /\ grants'[a] \in Nat
  BY <1>1, <1>2, FS_CardinalityType DEF BaseInv, TypeOK
<1> QED BY <1>1, <1>2, <1>3

\* Nothing that Paid looks at changes.
LEMMA QuietConsent ==
  ASSUME BaseInv, BaseInv', ConsentInv, UNCHANGED <<carried, landed, handler, chan, approved, grants>>
  PROVE  ConsentInv'
<1>1. ASSUME NEW a \in Initiators PROVE Paid(a)' = Paid(a) /\ grants[a] <= grants'[a]
  BY DEF Paid, BaseInv, TypeOK
<1> QED BY <1>1, PaidFewer DEF ConsentInv

\* Every step keeps decisions taken and decisions in a channel within those the user gave.
LEMMA ConsentStep ==
  ASSUME BaseInv, BaseInv', ConsentInv, [Next]_vars
  PROVE  ConsentInv'
<1>0. TypeOK /\ TypeOK'
  BY DEF BaseInv
<1>1. ASSUME NEW c \in Conns,
             (\E i \in Initiators, s \in Services : Dial(i, c, s)) \/ (\E d \in Conns : Redeliver(c, d))
      PROVE  ConsentInv'
  <2>1. handler[c] = "none" /\ UNCHANGED <<chan, approved, grants>>
        /\ \A d \in Conns : d # c => handler'[d] = handler[d] /\ carried'[d] = carried[d] /\ landed'[d] = landed[d]
    <3>1. handler[c] = "none" /\ UNCHANGED <<chan, approved, grants>> /\ handler' = [handler EXCEPT ![c] = "read"]
      BY <1>1 DEF Dial, Redeliver, Fresh, userVars, histVars
    <3>2. (\E r : carried' = [carried EXCEPT ![c] = r]) /\ (\E s : landed' = [landed EXCEPT ![c] = s])
      BY <1>1 DEF Dial, Redeliver
    <3> QED BY <1>0, <3>1, <3>2 DEF TypeOK
  <2>2. approved[c] = "no" /\ chan[c] = "empty"
    BY <2>1 DEF BaseInv
  <2>3. ASSUME NEW a \in Initiators PROVE Paid(a)' \subseteq Paid(a) /\ grants[a] <= grants'[a]
    BY <1>0, <2>1, <2>2, SMTT(30) DEF Paid, TypeOK
  <2> QED BY <2>3, PaidFewer DEF ConsentInv
<1>2. ASSUME NEW c \in Conns, HandlerStep(c) PROVE ConsentInv'
  <2>1. UNCHANGED <<carried, landed, grants>> /\ handler[c] # "none"
    BY <1>2, HandlerMoves DEF initVars
  <2>2. \A d \in Conns : d # c => handler'[d] = handler[d] /\ approved'[d] = approved[d] /\ chan'[d] = chan[d]
    <3>1. \E l : handler' = [handler EXCEPT ![c] = l]
      BY <1>2, HandlerMoves
    <3>2. \E x : approved' = [approved EXCEPT ![c] = x]
      BY <1>2, HandlerMoves
    <3>3. \E x : chan' = [chan EXCEPT ![c] = x]
      BY <1>2, HandlerMoves
    <3> QED BY <1>0, <3>1, <3>2, <3>3 DEF TypeOK
  <2>3. ASSUME NEW a \in Initiators PROVE Paid(a)' \subseteq Paid(a) /\ grants[a] <= grants'[a]
    <3>1. ASSUME NEW d \in Conns, d \in Paid(a)' PROVE d \in Paid(a)
      <4>1. CASE d # c
        BY <2>1, <2>2, <3>1, <4>1 DEF Paid
      <4>2. CASE d = c
        BY <1>2, <2>1, <3>1, <4>2, ChannelMoves DEF Paid
      <4> QED BY <4>1, <4>2
    <3>2. Paid(a)' \subseteq Conns
      BY DEF Paid
    <3> QED BY <1>0, <2>1, <3>1, <3>2 DEF TypeOK
  <2> QED BY <2>3, PaidFewer DEF ConsentInv
<1>3. ASSUME NEW a \in Initiators, NEW d \in {"accept", "reject"}, Decide(a, d) PROVE ConsentInv'
  <2> DEFINE c == pending[a]
  <2>1. c \in Conns /\ handler[c] # "none" /\ carried[c].from = a
    BY <1>0, <1>3 DEF Decide, BaseInv, TypeOK
  <2>2. UNCHANGED <<carried, landed, handler, approved>> /\ chan' = [chan EXCEPT ![c] = d]
        /\ grants' = [grants EXCEPT ![a] = IF d = "accept" THEN @ + 1 ELSE @]
    BY <1>3 DEF Decide, initVars, histVars
  <2>3. ASSUME NEW b \in Initiators, b # a \/ d = "reject" PROVE Paid(b)' \subseteq Paid(b) /\ grants[b] <= grants'[b]
    BY <1>0, <2>1, <2>2, <2>3 DEF Paid, TypeOK
  <2>4. CASE d = "accept"
    <3>1. Paid(a)' \subseteq Paid(a) \cup {c} /\ grants'[a] = grants[a] + 1
      BY <1>0, <2>1, <2>2, <2>4 DEF Paid, TypeOK
    <3>2. IsFiniteSet(Paid(a)) /\ Cardinality(Paid(a)) <= grants[a] /\ Cardinality(Paid(a)) \in Nat
      BY FS_CardinalityType DEF ConsentInv
    <3>3. IsFiniteSet(Paid(a) \cup {c}) /\ Cardinality(Paid(a) \cup {c}) <= Cardinality(Paid(a)) + 1
      <4>1. CASE c \in Paid(a)
        <5>1. Paid(a) \cup {c} = Paid(a)
          BY <4>1
        <5> QED BY <3>2, <5>1
      <4>2. CASE c \notin Paid(a)
        BY <3>2, <4>2, FS_AddElement
      <4> QED BY <4>1, <4>2
    <3>4. IsFiniteSet(Paid(a)') /\ Cardinality(Paid(a)') <= Cardinality(Paid(a) \cup {c})
      BY <3>1, <3>3, FS_Subset
    <3>5. /\ Cardinality(Paid(a)') \in Nat /\ Cardinality(Paid(a) \cup {c}) \in Nat /\ grants[a] \in Nat
      BY <1>0, <3>3, <3>4, FS_CardinalityType DEF TypeOK
    <3>6. (IsFiniteSet(Paid(a)) /\ Cardinality(Paid(a)) <= grants[a])'
      BY <3>1, <3>2, <3>3, <3>4, <3>5
    <3> QED BY <2>3, <3>6, PaidFewer DEF ConsentInv
  <2> QED BY <2>3, <2>4, PaidFewer DEF ConsentInv
<1>4. CASE \/ \E i \in Initiators : DialFails(i) \/ AttemptFails(i) \/ ContextDone(i) \/ ReadResponse(i) \/ ReadIPs(i)
           \/ \E i \in Initiators, s \in Services : RequestConnection(i, s)
           \/ \E c \in Conns : BreakStream(c)
           \/ \E a \in KnownPeers : AddContact(a) \/ RemoveContact(a)
           \/ \E s \in Services : CancelService(s)
           \/ UNCHANGED vars
  <2>1. UNCHANGED <<carried, landed, handler, chan, approved, grants>>
    BY <1>4 DEF DialFails, AttemptFails, ContextDone, ReadResponse, ReadIPs, RequestConnection, BreakStream,
                AddContact, RemoveContact, CancelService, vars, initVars, userVars, histVars
  <2> QED BY <2>1, QuietConsent
<1> QED
  BY <1>1, <1>2, <1>3, <1>4 DEF Next, InitiatorStep, Environment

-----------------------------------------------------------------------------
\* One more prompt comes after those before it.
LEMMA BeforeAppend ==
  ASSUME NEW q \in Seq(Conns), NEW c \in Conns
  PROVE  /\ \A x, y : Before(q, x, y) => Before(Append(q, c), x, y)
         /\ \A k \in DOMAIN q : Before(Append(q, c), q[k], c)
         /\ \A k \in DOMAIN q : k \in DOMAIN Append(q, c) /\ Append(q, c)[k] = q[k]
         /\ \E k \in DOMAIN Append(q, c) : Append(q, c)[k] = c
<1>1. /\ DOMAIN q = 1 .. Len(q) /\ Len(q) \in Nat /\ DOMAIN Append(q, c) = 1 .. (Len(q) + 1)
      /\ \A k \in 1 .. Len(q) : Append(q, c)[k] = q[k]
      /\ Append(q, c)[Len(q) + 1] = c
  OBVIOUS
<1> QED BY <1>1 DEF Before

\* Every step keeps the order in which the user was asked.
LEMMA PromptStep ==
  ASSUME BaseInv, BaseInv', PromptInv, [Next]_vars
  PROVE  PromptInv'
<1>0. TypeOK
  BY DEF BaseInv
<1>1. CASE UNCHANGED <<carried, handler, chan, pending, prompts>>
  BY <1>1 DEF PromptInv, Reachable
<1>2. ASSUME NEW c \in Conns,
             (\E i \in Initiators, s \in Services : Dial(i, c, s)) \/ (\E d \in Conns : Redeliver(c, d))
      PROVE  PromptInv'
  <2>1. handler[c] = "none" /\ UNCHANGED <<chan, pending, prompts>> /\ handler' = [handler EXCEPT ![c] = "read"]
    BY <1>2 DEF Dial, Redeliver, Fresh, userVars, histVars
  <2>2. \E r : carried' = [carried EXCEPT ![c] = r]
    BY <1>2 DEF Dial, Redeliver
  <2>3. /\ carried[c] = None /\ handler'[c] = "read"
        /\ \A d \in Conns : d # c => handler'[d] = handler[d] /\ carried'[d] = carried[d]
    BY <1>0, <2>1, <2>2 DEF TypeOK, BaseInv
  <2> QED BY <2>1, <2>3 DEF PromptInv, Reachable
<1>3. ASSUME NEW c \in Conns, HandlerStep(c) PROVE PromptInv'
  <2>1. UNCHANGED carried /\ carried[c] \in Reqs
    BY <1>3, HandlerMoves DEF initVars, BaseInv
  <2>2. \A d \in Conns : d # c => handler'[d] = handler[d] /\ chan'[d] = chan[d]
    <3>1. \E l : handler' = [handler EXCEPT ![c] = l]
      BY <1>3, HandlerMoves
    <3>2. \E x : chan' = [chan EXCEPT ![c] = x]
      BY <1>3, HandlerMoves
    <3> QED BY <1>0, <3>1, <3>2 DEF TypeOK
  <2>3. CASE UNCHANGED <<pending, prompts>> /\ ~(handler'[c] = "waiting" /\ chan'[c] = "empty")
    BY <2>1, <2>2, <2>3 DEF PromptInv, Reachable
  <2>4. CASE AskUser(c) /\ Acl[landed[c]] = "interactive"
    <3> DEFINE a == carried[c].from
    <3>1. pending' = [pending EXCEPT ![a] = c] /\ prompts' = Append(prompts, c)
      BY <2>4 DEF AskUser
    <3>2. a \in Initiators /\ pending'[a] = c /\ \A b \in Initiators : b # a => pending'[b] = pending[b]
      BY <1>0, <2>1, <3>1 DEF TypeOK, Reqs
    <3> HIDE DEF a
    <3>3. /\ \A x, y : Before(prompts, x, y) => Before(prompts', x, y)
          /\ \A k \in DOMAIN prompts : Before(prompts', prompts[k], c)
          /\ \A k \in DOMAIN prompts : k \in DOMAIN prompts' /\ prompts'[k] = prompts[k]
          /\ \E k \in DOMAIN prompts' : prompts'[k] = c
      BY <1>0, <3>1, BeforeAppend DEF TypeOK
    <3>4. ASSUME NEW d \in Conns, handler'[d] = "waiting", chan'[d] = "empty", d # c
          PROVE  \E k \in DOMAIN prompts : prompts[k] = d
      BY <2>2, <3>4 DEF PromptInv
    <3>5. ASSUME NEW d \in Conns, handler'[d] = "waiting", chan'[d] = "empty",
                 pending'[carried[d].from] # d
          PROVE  \E e \in Conns : /\ carried[e] # None /\ carried[e].from = carried[d].from
                                  /\ Before(prompts', d, e)
      <4>1. d # c
        BY <3>2, <3>5 DEF a
      <4>2. CASE carried[d].from = a
        <5>1. Before(prompts', d, c)
          BY <3>3, <3>4, <3>5, <4>1
        <5>2. carried[c] # None /\ carried[c].from = carried[d].from
          BY <2>1, <4>2, HandshakeAssumption DEF a, Reqs
        <5> QED BY <5>1, <5>2
      <4>3. CASE carried[d].from # a
        <5>1. carried[d].from \in Initiators
          BY <2>2, <3>5, <4>1 DEF BaseInv, Reqs
        <5>2. pending[carried[d].from] # d /\ handler[d] = "waiting" /\ chan[d] = "empty"
          BY <2>2, <3>2, <3>5, <4>1, <4>3, <5>1
        <5>3. PICK e \in Conns : carried[e] # None /\ carried[e].from = carried[d].from /\ Before(prompts, d, e)
          BY <5>2 DEF PromptInv, Reachable
        <5> QED BY <3>3, <5>3
      <4> QED BY <4>2, <4>3
    <3>6. Reachable'
      BY <2>1, <3>5 DEF Reachable
    <3>7. \A d \in Conns : handler'[d] = "waiting" /\ chan'[d] = "empty" => \E k \in DOMAIN prompts' : prompts'[k] = d
      BY <3>3, <3>4
    <3> QED BY <3>6, <3>7 DEF PromptInv
  <2> QED BY <1>3, <2>3, <2>4, ChannelMoves
<1>4. ASSUME NEW a \in Initiators, NEW d \in {"accept", "reject"}, Decide(a, d) PROVE PromptInv'
  <2>1. /\ pending[a] \in Conns /\ UNCHANGED <<carried, handler, prompts>>
        /\ pending' = [pending EXCEPT ![a] = None] /\ chan' = [chan EXCEPT ![pending[a]] = d]
    BY <1>0, <1>4 DEF Decide, TypeOK, initVars, histVars
  <2>2. ASSUME NEW c \in Conns, handler'[c] = "waiting", chan'[c] = "empty"
        PROVE  /\ handler[c] = "waiting" /\ chan[c] = "empty" /\ c # pending[a]
    BY <1>0, <2>1, <2>2 DEF TypeOK
  <2>3. ASSUME NEW c \in Conns, handler'[c] = "waiting", chan'[c] = "empty",
               pending'[carried[c].from] # c
        PROVE  \E e \in Conns : /\ carried[e] # None /\ carried[e].from = carried[c].from
                                /\ Before(prompts, c, e)
    <3>1. carried[c].from \in Initiators
      BY <2>2, <2>3 DEF BaseInv, Reqs
    <3>2. pending[carried[c].from] # c
      BY <1>0, <2>1, <2>2, <2>3, <3>1 DEF TypeOK
    <3> QED BY <2>2, <2>3, <3>2 DEF PromptInv, Reachable
  <2>4. Reachable'
    BY <2>1, <2>3 DEF Reachable
  <2> QED BY <2>1, <2>2, <2>4 DEF PromptInv
<1>5. CASE \/ \E i \in Initiators : DialFails(i) \/ AttemptFails(i) \/ ContextDone(i) \/ ReadResponse(i) \/ ReadIPs(i)
           \/ \E i \in Initiators, s \in Services : RequestConnection(i, s)
           \/ \E c \in Conns : BreakStream(c)
           \/ \E a \in KnownPeers : AddContact(a) \/ RemoveContact(a)
           \/ \E s \in Services : CancelService(s)
           \/ UNCHANGED vars
  <2>1. UNCHANGED <<carried, handler, chan, pending, prompts>>
    BY <1>5 DEF DialFails, AttemptFails, ContextDone, ReadResponse, ReadIPs, RequestConnection, BreakStream,
                AddContact, RemoveContact, CancelService, vars, initVars, userVars, histVars
  <2> QED BY <1>1, <2>1
<1> QED
  BY <1>2, <1>3, <1>4, <1>5 DEF Next, InitiatorStep, Environment

-----------------------------------------------------------------------------
\* Every step keeps what entitles a stream that was accepted.
LEMMA GateStep ==
  ASSUME BaseInv, BaseInv', GateInv, [Next]_vars
  PROVE  GateInv'
<1>0. TypeOK /\ TypeOK'
  BY DEF BaseInv
<1>1. ASSUME NEW c \in Conns,
             (\E i \in Initiators, s \in Services : Dial(i, c, s)) \/ (\E d \in Conns : Redeliver(c, d))
      PROVE  GateInv'
  <2>1. handler[c] = "none" /\ UNCHANGED <<chan, approved, pending, contacts>>
    BY <1>1 DEF Dial, Redeliver, Fresh, userVars, histVars
  <2>2. \A d \in Conns : d # c => carried'[d] = carried[d] /\ landed'[d] = landed[d]
    <3>1. (\E r : carried' = [carried EXCEPT ![c] = r]) /\ (\E s : landed' = [landed EXCEPT ![c] = s])
      BY <1>1 DEF Dial, Redeliver
    <3> QED BY <1>0, <3>1 DEF TypeOK
  <2>3. approved[c] = "no" /\ chan[c] = "empty" /\ \A a \in Initiators : pending[a] # c
    BY <2>1, HandshakeAssumption DEF BaseInv
  <2>4. ASSUME NEW a \in Initiators, pending[a] # None
        PROVE  Acl[landed'[pending[a]]] = "interactive"
    <3>1. pending[a] \in Conns /\ pending[a] # c
      BY <1>0, <2>3, <2>4 DEF TypeOK
    <3> QED BY <2>2, <2>4, <3>1 DEF GateInv
  <2>5. \A d \in Conns : d = c \/ (carried'[d] = carried[d] /\ landed'[d] = landed[d])
    BY <2>2
  <2>6. ASSUME NEW d \in Conns
        PROVE  /\ chan[d] = "accept" /\ Acl[landed'[d]] # "interactive" => GateAccepts(landed'[d], carried'[d].from)
               /\ approved[d] = "gate" => GateAccepts(landed'[d], carried'[d].from)
               /\ approved[d] = "contact" => landed'[d] \in HasContacts /\ carried'[d].from \in KnownPeers
    <3>1. CASE d = c
      BY <2>3, <3>1
    <3>2. CASE d # c
      BY <2>5, <3>2 DEF GateInv
    <3> QED BY <3>1, <3>2
  <2> QED BY <2>1, <2>4, <2>6 DEF GateInv
<1>2. ASSUME NEW c \in Conns, HandlerStep(c) PROVE GateInv'
  <2>1. UNCHANGED <<carried, landed>> /\ handler[c] # "none"
    BY <1>2, HandlerMoves DEF initVars
  <2>2. CASE LookupContact(c)
    BY <1>0, <2>1, <2>2 DEF LookupContact, GateInv, TypeOK, userVars
  <2>3. CASE AskUser(c)
    BY <1>0, <2>1, <2>3, HandshakeAssumption DEF AskUser, GateInv, TypeOK
  <2>4. CASE TakeDecision(c)
    BY <1>0, <2>1, <2>4 DEF TakeDecision, GateInv, TypeOK, userVars
  <2>5. CASE \/ ReadFails(c) \/ ReadRequest(c) \/ AskTimeout(c) \/ SendAccept(c)
             \/ SendReject(c) \/ ReadConfirm(c) \/ SendIPs(c) \/ FinishExchange(c)
    <3>1. UNCHANGED <<chan, approved, pending, contacts>>
      BY <2>5 DEF ReadFails, ReadRequest, AskTimeout, SendAccept, SendReject, ReadConfirm,
                  SendIPs, FinishExchange, userVars, histVars
    <3> QED BY <2>1, <3>1 DEF GateInv
  <2> QED BY <1>2, <2>2, <2>3, <2>4, <2>5 DEF HandlerStep
<1>3. ASSUME NEW a \in Initiators, NEW d \in {"accept", "reject"}, Decide(a, d) PROVE GateInv'
  BY <1>0, <1>3 DEF Decide, GateInv, TypeOK, initVars, histVars
<1>4. CASE \/ \E i \in Initiators : DialFails(i) \/ AttemptFails(i) \/ ContextDone(i) \/ ReadResponse(i) \/ ReadIPs(i)
           \/ \E i \in Initiators, s \in Services : RequestConnection(i, s)
           \/ \E c \in Conns : BreakStream(c)
           \/ \E a \in KnownPeers : AddContact(a) \/ RemoveContact(a)
           \/ \E s \in Services : CancelService(s)
           \/ UNCHANGED vars
  <2>1. UNCHANGED <<carried, landed, chan, approved, pending>>
    BY <1>4 DEF DialFails, AttemptFails, ContextDone, ReadResponse, ReadIPs, RequestConnection, BreakStream,
                AddContact, RemoveContact, CancelService, vars, initVars, userVars, histVars
  <2>2. contacts' \subseteq contacts \cup KnownPeers
    BY <1>4 DEF DialFails, AttemptFails, ContextDone, ReadResponse, ReadIPs, RequestConnection, BreakStream,
                AddContact, RemoveContact, CancelService, vars, initVars, userVars, histVars
  <2> QED BY <2>1, <2>2 DEF GateInv
<1> QED
  BY <1>1, <1>2, <1>3, <1>4 DEF Next, InitiatorStep, Environment

-----------------------------------------------------------------------------
\* No stream is open and nobody was asked.
LEMMA HandshakeInit == Init => HandshakeInv
<1> SUFFICES ASSUME Init PROVE HandshakeInv
  OBVIOUS
<1> USE HandshakeAssumption
<1>1. TypeOK
  BY DEF Init, TypeOK, CallRec, Places
<1>2. BaseInv
  BY <1>1 DEF Init, BaseInv
<1>3. WireInv
  BY DEF Init, WireInv, Readable, Marked, Unproved
<1>4. ASSUME NEW a \in Initiators PROVE Paid(a) = {} /\ grants[a] = 0
  BY DEF Init, Paid
<1>5. ConsentInv
  <2>1. IsFiniteSet({}) /\ Cardinality({}) = 0
    BY FS_EmptySet
  <2>2. \A a \in Initiators : IsFiniteSet(Paid(a)) /\ Cardinality(Paid(a)) = 0 /\ grants[a] = 0
    BY <1>4, <2>1
  <2> QED BY <2>2 DEF ConsentInv
<1>6. PromptInv
  BY DEF Init, PromptInv, Reachable
<1>7. GateInv
  BY DEF Init, GateInv
<1> QED BY <1>2, <1>3, <1>5, <1>6, <1>7 DEF HandshakeInv

\* The inductive invariant of the handshake, for every number of initiators, services and
\* streams: what the state, the wire, the user's decisions and the prompts look like.
THEOREM HandshakeInvariant == Spec => []HandshakeInv
<1>1. HandshakeInv /\ [Next]_vars => HandshakeInv'
  <2> SUFFICES ASSUME HandshakeInv, [Next]_vars PROVE HandshakeInv'
    OBVIOUS
  <2>1. BaseInv'
    BY BaseStep DEF HandshakeInv
  <2> QED BY <2>1, WireStep, ConsentStep, GateStep, PromptStep DEF HandshakeInv
<1> QED BY <1>1, HandshakeInit, PTL DEF Spec

\* After a validated CONN_CONFIRM the two ends agree about who dialed, on which stream and
\* which service was meant, although lookups may be stale, requests come again and claims be false.
THEOREM EndsAgree == Spec => []Agreement
<1>1. HandshakeInv => Agreement
  BY DEF HandshakeInv, WireInv, Dialed, Agreement
<1> QED BY <1>1, HandshakeInvariant, PTL

\* An initiator that succeeds has talked to the service it asked for, on the stream of its
\* current attempt, and that service had approved it and shown its key.
THEOREM ResponderAuthentic == Spec => []AuthenticatedResponder
<1>1. HandshakeInv => AuthenticatedResponder
  BY DEF HandshakeInv, BaseInv, WireInv, Dialed, Accepted, AuthenticatedResponder
<1> QED BY <1>1, HandshakeInvariant, PTL

\* Addresses are sent only to peers that proved to be who the request named and are a contact,
\* admitted by the manifest or approved, and every verified stream that rests on the user is
\* paid for by a decision about the peer at its other end.
THEOREM AddressesEntitled == Spec => []AddressesToApproved
<1>1. ASSUME HandshakeInv PROVE AddressesToApproved
  <2>1. ASSUME NEW c \in ipSent
        PROVE  /\ c \in verified /\ owner[c] = carried[c].from
               /\ \/ approved[c] = "contact" /\ landed[c] \in HasContacts /\ owner[c] \in KnownPeers
                  \/ approved[c] = "gate" /\ GateAccepts(landed[c], owner[c])
                  \/ approved[c] = "user"
    <3>1. c \in Conns /\ c \in verified /\ c \in keySent
      BY <1>1, <2>1 DEF HandshakeInv, BaseInv, TypeOK, WireInv, Marked
    <3>2. approved[c] \in {"contact", "user", "gate"} /\ owner[c] = carried[c].from
      BY <1>1, <3>1 DEF HandshakeInv, BaseInv, TypeOK, WireInv, Marked
    <3> QED BY <1>1, <3>1, <3>2 DEF HandshakeInv, GateInv
  <2>2. ASSUME NEW a \in Initiators
        PROVE  Cardinality({c \in verified : approved[c] = "user" /\ owner[c] = a}) <= grants[a]
    <3> DEFINE U == {c \in verified : approved[c] = "user" /\ owner[c] = a}
    <3>1. U \subseteq Paid(a)
      BY <1>1 DEF HandshakeInv, BaseInv, TypeOK, WireInv, Paid
    <3>2. IsFiniteSet(Paid(a)) /\ Cardinality(Paid(a)) <= grants[a] /\ grants[a] \in Nat
      BY <1>1 DEF HandshakeInv, ConsentInv, BaseInv, TypeOK
    <3>3. IsFiniteSet(U) /\ Cardinality(U) <= Cardinality(Paid(a))
      BY <3>1, <3>2, FS_Subset
    <3>4. Cardinality(U) \in Nat /\ Cardinality(Paid(a)) \in Nat
      BY <3>2, <3>3, FS_CardinalityType
    <3> HIDE DEF U
    <3>5. Cardinality(U) <= grants[a]
      BY <3>2, <3>3, <3>4
    <3> QED BY <3>5 DEF U
  <2> QED BY <2>1, <2>2 DEF AddressesToApproved
<1> QED BY <1>1, HandshakeInvariant, PTL

\* A handler that waits for the user can be reached by the user, unless a later prompt for
\* the same address has taken its place in pendingReqs.
THEOREM WaitersReachable == Spec => []Reachable
<1>1. HandshakeInv => Reachable
  BY DEF HandshakeInv, PromptInv
<1> QED BY <1>1, HandshakeInvariant, PTL
=============================================================================
