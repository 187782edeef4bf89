---------------------------- MODULE ReplayGuard ----------------------------
(***************************************************************************)
(* signaling.ValidateConnRequest and signaling.NonceCache                  *)
(* (internal/signaling/handshake.go): the check a CONN_REQUEST passes      *)
(* before the responder looks at it.  Several handler goroutines share one *)
(* cache.  Each reads the clock three times (request age, future stamp,    *)
(* cache pruning) and time passes between the reads; the initiator stamps  *)
(* its request with a clock of its own.  A request may be delivered any    *)
(* number of times.                                                        *)
(***************************************************************************)
EXTENDS Integers

CONSTANTS
  Handlers,            \* handleConn goroutines of one signaling.Server
  Nonces,              \* request nonces
  ShortNonces,         \* the nonces whose length is not NonceSize
  TimestampFreshness,  \* const TimestampFreshness, in clock units
  NonceCacheTTL,       \* const NonceCacheTTL, in clock units
  MaxDelay,            \* longest ValidateConnRequest call, first to last clock read
  MaxSkew,             \* how far an initiator's clock may be off
  MaxTime,             \* bound on the clock
  NoRequest            \* what an idle handler holds

ASSUME ReplayAssumption ==
  /\ ShortNonces \subseteq Nonces
  /\ TimestampFreshness \in Nat
  /\ NonceCacheTTL \in Nat
  /\ MaxDelay \in Nat
  /\ MaxSkew \in Nat
  /\ MaxTime \in Nat

(***************************************************************************)
(* What the two constants of the code satisfy: a nonce is kept for twice   *)
(* the time a request stays fresh (10 minutes for 5, handshake.go:20-23),  *)
(* exactly, with nothing to spare for the time a validation takes, which   *)
(* is taken to be under the 10 minutes an entry lives.                     *)
(***************************************************************************)
ASSUME RetentionAssumption ==
  /\ NonceCacheTTL >= 2 * TimestampFreshness
  /\ MaxDelay <= NonceCacheTTL

VARIABLES
  now,         \* the responder's clock
  sent,        \* CONN_REQUESTs on the network: any of them may arrive, again and again
  entries,     \* NonceCache.entries: nonce -> time it was recorded
  pc,          \* pc[h]: where handler h is in ValidateConnRequest
  req,         \* req[h]: the request handler h validates
  readAt,      \* readAt[h]: the clock when handler h checked the age
  admitted,    \* history: how often each nonce passed validation
  admittedAt,  \* history: the last time it did
  firstAt      \* history: the first time it did

vars == <<now, sent, entries, pc, req, readAt, admitted, admittedAt, firstAt>>

Request == [nonce : Nonces, ts : Int]

TypeOK ==
  /\ now \in Nat
  /\ sent \in SUBSET Request
  /\ DOMAIN entries \subseteq Nonces
  /\ entries \in [DOMAIN entries -> Nat]
  /\ pc \in [Handlers -> {"idle", "age", "future", "nonce"}]
  /\ req \in [Handlers -> Request \cup {NoRequest}]
  /\ readAt \in [Handlers -> Nat]
  /\ admitted \in [Nonces -> Nat]
  /\ admittedAt \in [Nonces -> Nat]
  /\ firstAt \in [Nonces -> Nat]

Init ==
  /\ now = 0
  /\ sent = {}
  /\ entries = [n \in {} |-> 0]
  /\ pc = [h \in Handlers |-> "idle"]
  /\ req = [h \in Handlers |-> NoRequest]
  /\ readAt = [h \in Handlers |-> 0]
  /\ admitted = [n \in Nonces |-> 0]
  /\ admittedAt = [n \in Nonces |-> 0]
  /\ firstAt = [n \in Nonces |-> 0]

\* Mutant of TooOld: a request stays fresh as long as its nonce is remembered.
MutTooOld(m, t) == t - m.ts > NonceCacheTTL

TooOld(m, t) == t - m.ts > TimestampFreshness

InFuture(m, t) == m.ts > t + TimestampFreshness

\* Mutant of Expired: entries live as long as a request is fresh.
MutExpired(at, t) == t - at > TimestampFreshness

Expired(at, t) == t - at > NonceCacheTTL

\* The loop at the head of Check drops every expired entry.
Pruned(e, t) == [k \in {n \in DOMAIN e : ~Expired(e[n], t)} |-> e[k]]

Recorded(e, n, t) == [k \in DOMAIN e \cup {n} |-> IF k = n THEN t ELSE e[k]]

\* CreateConnRequest: a nonce never used before, stamped by the initiator's clock.
CreateConnRequest(n, skew) ==
  /\ \A m \in sent : m.nonce # n
  /\ sent' = sent \cup {[nonce |-> n, ts |-> now + skew]}
  /\ UNCHANGED <<now, entries, pc, req, readAt, admitted, admittedAt, firstAt>>

\* Mutant of Receive: the nonce is recorded as soon as the request is read.
MutReceive(h, m) ==
  /\ pc[h] = "idle"
  /\ pc' = [pc EXCEPT ![h] = "age"]
  /\ req' = [req EXCEPT ![h] = m]
  /\ entries' = Recorded(entries, m.nonce, now)
  /\ UNCHANGED <<now, sent, readAt, admitted, admittedAt, firstAt>>

\* handleConn read the envelope and calls ValidateConnRequest on it.
Receive(h, m) ==
  /\ pc[h] = "idle"
  /\ pc' = [pc EXCEPT ![h] = "age"]
  /\ req' = [req EXCEPT ![h] = m]
  /\ UNCHANGED <<now, sent, entries, readAt, admitted, admittedAt, firstAt>>

\* Every error return of ValidateConnRequest leaves the cache as it is.
Refuse(h) ==
  /\ pc' = [pc EXCEPT ![h] = "idle"]
  /\ req' = [req EXCEPT ![h] = NoRequest]
  /\ UNCHANGED <<entries, admitted, admittedAt, firstAt>>

\* time.Since(ts) > TimestampFreshness: too old.
CheckAge(h) ==
  /\ pc[h] = "age"
  /\ readAt' = [readAt EXCEPT ![h] = now]
  /\ \/ /\ TooOld(req[h], now)
        /\ Refuse(h)
     \/ /\ ~TooOld(req[h], now)
        /\ pc' = [pc EXCEPT ![h] = "future"]
        /\ UNCHANGED <<req, entries, admitted, admittedAt, firstAt>>
  /\ UNCHANGED <<now, sent>>

\* ts.After(now + TimestampFreshness), then the length of the nonce.
CheckFuture(h) ==
  /\ pc[h] = "future"
  /\ \/ /\ InFuture(req[h], now) \/ req[h].nonce \in ShortNonces
        /\ Refuse(h)
     \/ /\ ~InFuture(req[h], now)
        /\ req[h].nonce \notin ShortNonces
        /\ pc' = [pc EXCEPT ![h] = "nonce"]
        /\ UNCHANGED <<req, entries, admitted, admittedAt, firstAt>>
  /\ UNCHANGED <<now, sent, readAt>>

\* NonceCache.Check, one critical section: prune, then refuse or record.
CheckNonce(h) ==
  LET n    == req[h].nonce
      live == Pruned(entries, now)
  IN  /\ pc[h] = "nonce"
      /\ pc' = [pc EXCEPT ![h] = "idle"]
      /\ req' = [req EXCEPT ![h] = NoRequest]
      /\ \/ /\ n \in DOMAIN live
            /\ entries' = live
            /\ UNCHANGED <<admitted, admittedAt, firstAt>>
         \/ /\ n \notin DOMAIN live
            /\ entries' = Recorded(live, n, now)
            /\ admitted' = [admitted EXCEPT ![n] = @ + 1]
            /\ admittedAt' = [admittedAt EXCEPT ![n] = now]
            /\ firstAt' = [firstAt EXCEPT ![n] = IF admitted[n] = 0 THEN now ELSE @]
      /\ UNCHANGED <<now, sent, readAt>>

\* A handler between its first and its last clock read.
Validating(h) == pc[h] \in {"future", "nonce"}

\* Time passes, but no ValidateConnRequest call takes longer than MaxDelay.
Tick ==
  /\ now < MaxTime
  /\ \A h \in Handlers : Validating(h) => now < readAt[h] + MaxDelay
  /\ now' = now + 1
  /\ UNCHANGED <<sent, entries, pc, req, readAt, admitted, admittedAt, firstAt>>

Next ==
  \/ \E n \in Nonces, skew \in -MaxSkew .. MaxSkew : CreateConnRequest(n, skew)
  \/ \E h \in Handlers :
       \/ \E m \in sent : Receive(h, m)
       \/ CheckAge(h)
       \/ CheckFuture(h)
       \/ CheckNonce(h)
  \/ Tick

Spec == Init /\ [][Next]_vars

----------------------------------------------------------------------------
(* Properties *)

\* The stamp of request n was not so far ahead of the clock that first admitted
\* it that a copy can pass the age check at the very end of its freshness and
\* reach the cache, a moment later, when its entry has just been pruned.
Timely(n) ==
  \A m \in sent : m.nonce = n =>
    m.ts <= firstAt[n] + (NonceCacheTTL - TimestampFreshness - MaxDelay)

\* No request passes ValidateConnRequest twice, however often it is delivered
\* and however the handlers interleave ("NonceCache provides replay
\* protection", handshake.go:27), unless its initiator's clock was ahead by all
\* but the duration of a validation of TimestampFreshness: the cache keeps it
\* exactly as long as it stays fresh, and the two clock reads differ.  Such a
\* request may pass a second time, and never a third.
NoReplay == \A n \in Nonces : admitted[n] <= (IF Timely(n) THEN 1 ELSE 2)

\* ValidateConnRequest implements the guard the handshake relies on: one pass
\* for each request, a second one only for a request stamped that far ahead.
Guard == INSTANCE AtMostOnce WITH
  times <- admitted,
  ahead <- {n \in Nonces : admitted[n] > 0 /\ ~Timely(n)}
AtMostOnceSpec == Guard!Spec

\* Only a request that passed validation occupies the cache, so a request
\* refused for its stamp can be sent again with a corrected one, and a first
\* delivery is never taken for a replay.
OnlyAdmittedRemembered == \A n \in DOMAIN entries : admitted[n] > 0

----------------------------------------------------------------------------
(* The inductive invariant behind NoReplay *)

\* The stamp of a nonce is fixed once and for all by the request that carries it.
OneStampPerNonce == \A m1, m2 \in sent : m1.nonce = m2.nonce => m1 = m2

\* What a handler knows at each step of ValidateConnRequest.
HandlerInv ==
  \A h \in Handlers :
    /\ pc[h] # "idle" => req[h] \in sent
    /\ Validating(h) => /\ readAt[h] <= now
                        /\ now <= readAt[h] + MaxDelay
                        /\ ~TooOld(req[h], readAt[h])
    /\ pc[h] = "nonce" => ~InFuture(req[h], now)

\* An admitted nonce is either still in the cache, recorded when it was last
\* admitted, or was pruned because that is longer than NonceCacheTTL ago; its
\* stamp was at most TimestampFreshness ahead of the clock that first admitted
\* it; and a second admission came after the first entry had expired.
CacheInv ==
  /\ OnlyAdmittedRemembered
  /\ \A n \in Nonces : admitted[n] > 0 =>
       /\ firstAt[n] <= admittedAt[n] /\ admittedAt[n] <= now
       /\ n \in DOMAIN entries => entries[n] = admittedAt[n]
       /\ n \notin DOMAIN entries => Expired(admittedAt[n], now)
       /\ \A m \in sent : m.nonce = n => ~InFuture(m, firstAt[n])
       /\ admitted[n] > 1 => Expired(firstAt[n], admittedAt[n])

\* A nonce enters the history through a request on the network.
AdmittedWereSent ==
  \A n \in Nonces : admitted[n] > 0 => \E m \in sent : m.nonce = n

ReplayInv ==
  TypeOK /\ OneStampPerNonce /\ HandlerInv /\ CacheInv /\ AdmittedWereSent /\ NoReplay

============================================================================
