------------------------- MODULE ReplayGuardProofs -------------------------
(***************************************************************************)
(* Replay protection for every number of handlers and requests and every  *)
(* clock skew, from what the code's two constants satisfy: a nonce is kept *)
(* for twice the freshness window (RetentionAssumption).                   *)
(***************************************************************************)
EXTENDS ReplayGuard, TLAPS

\* Pruning keeps exactly the entries that have not expired, with their times.
LEMMA PrunedFacts ==
  ASSUME NEW e, NEW t
  PROVE  /\ DOMAIN Pruned(e, t) = {n \in DOMAIN e : ~Expired(e[n], t)}
         /\ \A k \in DOMAIN Pruned(e, t) : Pruned(e, t)[k] = e[k]
BY DEF Pruned

\* The initial state satisfies the inductive invariant.
LEMMA ReplayInit == Init => ReplayInv
BY ReplayAssumption DEF Init, ReplayInv, TypeOK, OneStampPerNonce, HandlerInv,
   CacheInv, OnlyAdmittedRemembered, AdmittedWereSent, NoReplay, Validating

\* CheckNonce is the step that could admit a request again: the entry of an
\* admitted nonce cannot have expired while its request is still fresh.
LEMMA CheckNonceStep ==
  ASSUME ReplayInv, NEW h \in Handlers, CheckNonce(h)
  PROVE  ReplayInv'
<1> DEFINE n == req[h].nonce
           live == Pruned(entries, now)
<1>1. TypeOK /\ OneStampPerNonce /\ HandlerInv /\ CacheInv /\ AdmittedWereSent /\ NoReplay
  BY DEF ReplayInv
<1>2. /\ req[h] \in sent /\ sent \subseteq Request
      /\ readAt[h] \in Nat /\ now \in Nat /\ n \in Nonces /\ req[h].ts \in Int
      /\ now <= readAt[h] + MaxDelay
      /\ ~TooOld(req[h], readAt[h])
      /\ ~InFuture(req[h], now)
  BY <1>1 DEF TypeOK, HandlerInv, Validating, CheckNonce, Request
<1>3. /\ DOMAIN live = {k \in DOMAIN entries : ~Expired(entries[k], now)}
      /\ \A k \in DOMAIN live : live[k] = entries[k]
  BY PrunedFacts
<1>4. ASSUME n \notin DOMAIN live, admitted[n] > 0
      PROVE  /\ admitted[n] = 1
             /\ firstAt[n] \in Nat /\ Expired(firstAt[n], now)
             /\ ~Timely(n)
  <2>1. Expired(admittedAt[n], now)
    BY <1>1, <1>2, <1>3, <1>4 DEF CacheInv, TypeOK
  <2>2. /\ ~InFuture(req[h], firstAt[n]) /\ firstAt[n] <= admittedAt[n]
        /\ admitted[n] > 1 => Expired(firstAt[n], admittedAt[n])
    BY <1>1, <1>2, <1>4 DEF CacheInv
  <2>3. admittedAt[n] \in Nat /\ firstAt[n] \in Nat /\ admitted[n] \in Nat
    BY <1>1, <1>2 DEF TypeOK
  <2>4. ~(admitted[n] > 1)
    BY <1>2, <2>1, <2>2, <2>3, ReplayAssumption, RetentionAssumption
       DEF Expired, InFuture, TooOld
  <2>5. req[h].ts > firstAt[n] + (NonceCacheTTL - TimestampFreshness - MaxDelay)
    BY <1>2, <2>1, <2>2, <2>3, ReplayAssumption DEF Expired, TooOld
  <2>6. ~Timely(n)
    BY <1>2, <2>3, <2>5, ReplayAssumption DEF Timely
  <2>7. QED
    BY <1>2, <1>4, <2>1, <2>2, <2>3, <2>4, <2>6, ReplayAssumption DEF Expired
<1>5. CASE n \in DOMAIN live
  <2>1. /\ entries' = live /\ UNCHANGED <<now, sent, readAt, admitted, admittedAt, firstAt>>
        /\ pc' = [pc EXCEPT ![h] = "idle"] /\ req' = [req EXCEPT ![h] = NoRequest]
    BY <1>5 DEF CheckNonce
  <2>2. TypeOK'
    BY <1>1, <1>3, <2>1 DEF TypeOK, Pruned
  <2>3. HandlerInv'
    BY <1>1, <2>1 DEF HandlerInv, Validating, TypeOK
  <2>4. CacheInv'
    BY <1>1, <1>3, <2>1 DEF CacheInv, OnlyAdmittedRemembered, TypeOK
  <2>5. QED
    BY <1>1, <2>1, <2>2, <2>3, <2>4
       DEF ReplayInv, OneStampPerNonce, AdmittedWereSent, NoReplay, Timely
<1>6. CASE n \notin DOMAIN live
  <2>1. /\ entries' = Recorded(live, n, now) /\ UNCHANGED <<now, sent, readAt>>
        /\ pc' = [pc EXCEPT ![h] = "idle"] /\ req' = [req EXCEPT ![h] = NoRequest]
        /\ admitted' = [admitted EXCEPT ![n] = @ + 1]
        /\ admittedAt' = [admittedAt EXCEPT ![n] = now]
        /\ firstAt' = [firstAt EXCEPT ![n] = IF admitted[n] = 0 THEN now ELSE @]
    BY <1>6 DEF CheckNonce
  <2>2. /\ DOMAIN entries' = DOMAIN live \cup {n}
        /\ entries'[n] = now
        /\ \A k \in DOMAIN live : k # n => entries'[k] = live[k]
        /\ entries' \in [DOMAIN entries' -> {now} \cup {live[k] : k \in DOMAIN live}]
    BY <2>1 DEF Recorded
  <2>3. TypeOK'
    BY <1>1, <1>2, <1>3, <2>1, <2>2 DEF TypeOK
  <2>4. HandlerInv'
    BY <1>1, <2>1 DEF HandlerInv, Validating, TypeOK
  <2>5. CacheInv'
    <3>1. OnlyAdmittedRemembered'
      BY <1>1, <1>2, <1>3, <2>1, <2>2 DEF CacheInv, OnlyAdmittedRemembered, TypeOK
    <3>2. ASSUME NEW k \in Nonces, admitted'[k] > 0
          PROVE  /\ firstAt'[k] <= admittedAt'[k] /\ admittedAt'[k] <= now'
                 /\ k \in DOMAIN entries' => entries'[k] = admittedAt'[k]
                 /\ k \notin DOMAIN entries' => Expired(admittedAt'[k], now')
                 /\ \A m \in sent' : m.nonce = k => ~InFuture(m, firstAt'[k])
                 /\ admitted'[k] > 1 => Expired(firstAt'[k], admittedAt'[k])
      <4>1. CASE k = n
        <5>1. CASE admitted[n] = 0
          BY <1>1, <1>2, <2>1, <2>2, <4>1, <5>1 DEF TypeOK, OneStampPerNonce
        <5>2. CASE admitted[n] # 0
          <6>1. admitted[n] > 0
            BY <1>1, <1>2, <5>2 DEF TypeOK
          <6>2. /\ firstAt'[k] = firstAt[n] /\ admittedAt'[k] = now
                /\ k \in DOMAIN entries' /\ entries'[k] = now
            BY <1>1, <1>2, <2>1, <2>2, <4>1, <5>2 DEF TypeOK
          <6>3. Expired(firstAt[n], now) /\ firstAt[n] <= admittedAt[n] /\ admittedAt[n] <= now
            BY <1>1, <1>2, <1>4, <1>6, <6>1 DEF CacheInv
          <6>4. \A m \in sent : m.nonce = n => ~InFuture(m, firstAt[n])
            BY <1>1, <1>2, <6>1 DEF CacheInv
          <6>5. firstAt[n] \in Nat /\ admittedAt[n] \in Nat
            BY <1>1, <1>2 DEF TypeOK
          <6>6. QED BY <1>2, <2>1, <4>1, <6>2, <6>3, <6>4, <6>5
        <5>3. QED BY <5>1, <5>2
      <4>2. CASE k # n
        BY <1>1, <1>2, <1>3, <2>1, <2>2, <3>2, <4>2 DEF TypeOK, CacheInv
      <4>3. QED BY <4>1, <4>2
    <3>3. QED BY <3>1, <3>2 DEF CacheInv
  <2>6. NoReplay' /\ AdmittedWereSent'
    <3>1. AdmittedWereSent'
      BY <1>1, <1>2, <2>1 DEF TypeOK, AdmittedWereSent
    <3>2. ASSUME NEW k \in Nonces
          PROVE  admitted'[k] <= (IF Timely(k)' THEN 1 ELSE 2)
      <4>1. CASE k # n
        <5>1. admitted'[k] = admitted[k] /\ (Timely(k)' <=> Timely(k))
          BY <1>1, <1>2, <2>1, <4>1 DEF TypeOK, Timely
        <5>2. QED BY <1>1, <5>1 DEF NoReplay
      <4>2. CASE k = n /\ admitted[n] = 0
        BY <1>1, <1>2, <2>1, <4>2 DEF TypeOK
      <4>3. CASE k = n /\ admitted[n] # 0
        <5>1. admitted[n] > 0
          BY <1>1, <1>2, <4>3 DEF TypeOK
        <5>2. admitted[n] = 1 /\ ~Timely(n)
          BY <1>4, <1>6, <5>1
        <5>3. firstAt' = firstAt
          BY <1>1, <1>2, <2>1, <4>3 DEF TypeOK
        <5>4. ~Timely(k)'
          BY <2>1, <4>3, <5>2, <5>3 DEF Timely
        <5>5. admitted'[k] = 2
          BY <1>1, <1>2, <2>1, <4>3, <5>2 DEF TypeOK
        <5>6. QED BY <5>4, <5>5
      <4>4. QED BY <4>1, <4>2, <4>3
    <3>3. QED BY <3>1, <3>2 DEF NoReplay
  <2>7. QED
    BY <1>1, <2>1, <2>3, <2>4, <2>5, <2>6 DEF ReplayInv, OneStampPerNonce
<1>7. QED BY <1>5, <1>6

\* The other steps leave the cache alone; time passing can only age entries.
LEMMA ReplayStep == ReplayInv /\ [Next]_vars => ReplayInv'
<1> SUFFICES ASSUME ReplayInv, [Next]_vars PROVE ReplayInv'
  OBVIOUS
<1> USE DEF ReplayInv, NoReplay, AdmittedWereSent, Timely
<1>1. ASSUME NEW n \in Nonces, NEW skew \in -MaxSkew .. MaxSkew, CreateConnRequest(n, skew)
      PROVE  ReplayInv'
  <2>1. [nonce |-> n, ts |-> now + skew] \in Request
    BY ReplayAssumption DEF Request, TypeOK
  <2>2. admitted[n] = 0
    BY <1>1 DEF CreateConnRequest, TypeOK
  <2>3. TypeOK' /\ OneStampPerNonce' /\ HandlerInv'
    BY <1>1, <2>1 DEF CreateConnRequest, TypeOK, OneStampPerNonce, HandlerInv, Validating
  <2>4. CacheInv'
    BY <1>1, <2>2 DEF CreateConnRequest, TypeOK, CacheInv, OnlyAdmittedRemembered
  <2>5. NoReplay'
    <3> SUFFICES ASSUME NEW k \in Nonces
                 PROVE  admitted'[k] <= (IF Timely(k)' THEN 1 ELSE 2)
      OBVIOUS
    <3>1. CASE k = n
      BY <1>1, <2>2, <3>1 DEF CreateConnRequest
    <3>2. CASE k # n
      <4>1. Timely(k)' <=> Timely(k)
        BY <1>1, <3>2 DEF CreateConnRequest
      <4>2. admitted' = admitted
        BY <1>1 DEF CreateConnRequest
      <4>3. admitted[k] <= (IF Timely(k) THEN 1 ELSE 2)
        BY DEF NoReplay
      <4>4. QED BY <4>1, <4>2, <4>3
    <3>3. QED BY <3>1, <3>2
  <2>6. QED BY <1>1, <2>3, <2>4, <2>5 DEF CreateConnRequest
<1>2. ASSUME NEW h \in Handlers, NEW m \in sent, Receive(h, m)
      PROVE  ReplayInv'
  <2>1. TypeOK' /\ HandlerInv'
    BY <1>2 DEF Receive, TypeOK, HandlerInv, Validating
  <2>2. QED
    BY <1>2, <2>1 DEF Receive, OneStampPerNonce, CacheInv, OnlyAdmittedRemembered
<1>3. ASSUME NEW h \in Handlers, CheckAge(h)
      PROVE  ReplayInv'
  <2>1. TypeOK'
    BY <1>3 DEF CheckAge, Refuse, TypeOK
  <2>2. HandlerInv'
    BY <1>3, ReplayAssumption DEF CheckAge, Refuse, TypeOK, HandlerInv, Validating
  <2>3. QED
    BY <1>3, <2>1, <2>2
       DEF CheckAge, Refuse, OneStampPerNonce, CacheInv, OnlyAdmittedRemembered
<1>4. ASSUME NEW h \in Handlers, CheckFuture(h)
      PROVE  ReplayInv'
  <2>1. TypeOK' /\ HandlerInv'
    BY <1>4 DEF CheckFuture, Refuse, TypeOK, HandlerInv, Validating
  <2>2. QED
    BY <1>4, <2>1
       DEF CheckFuture, Refuse, OneStampPerNonce, CacheInv, OnlyAdmittedRemembered
<1>5. ASSUME NEW h \in Handlers, CheckNonce(h)
      PROVE  ReplayInv'
  BY <1>5, CheckNonceStep
<1>6. ASSUME Tick
      PROVE  ReplayInv'
  <2>1. TypeOK' /\ OneStampPerNonce'
    BY <1>6 DEF Tick, TypeOK, OneStampPerNonce
  <2>2. HandlerInv'
    <3> SUFFICES ASSUME NEW h \in Handlers
                 PROVE  /\ pc'[h] # "idle" => req'[h] \in sent'
                        /\ Validating(h)' => /\ readAt'[h] <= now'
                                             /\ now' <= readAt'[h] + MaxDelay
                                             /\ ~TooOld(req'[h], readAt'[h])
                        /\ pc'[h] = "nonce" => ~InFuture(req'[h], now')
      BY DEF HandlerInv
    <3>1. pc'[h] # "idle" => req'[h] \in sent' /\ req'[h].ts \in Int
      BY <1>6 DEF Tick, TypeOK, HandlerInv, Request
    <3>2. QED
      BY <1>6, <3>1, ReplayAssumption
         DEF Tick, TypeOK, HandlerInv, Validating, TooOld, InFuture
  <2>3. CacheInv'
    BY <1>6, ReplayAssumption
       DEF Tick, TypeOK, CacheInv, OnlyAdmittedRemembered, Expired
  <2>4. QED BY <1>6, <2>1, <2>2, <2>3 DEF Tick
<1>7. CASE UNCHANGED vars
  BY <1>7 DEF vars, TypeOK, OneStampPerNonce, HandlerInv, Validating, CacheInv,
     OnlyAdmittedRemembered
<1>8. QED
  BY <1>1, <1>2, <1>3, <1>4, <1>5, <1>6, <1>7 DEF Next

\* The inductive invariant, type correctness included, holds in every
\* reachable state of ValidateConnRequest and its nonce cache.
THEOREM ReplayInvariant == Spec => []ReplayInv
BY ReplayInit, ReplayStep, PTL DEF Spec

\* No CONN_REQUEST passes ValidateConnRequest twice unless it came stamped at
\* the very edge of the freshness window, and none passes three times.
THEOREM ReplayProtection == Spec => []NoReplay
<1>1. ReplayInv => NoReplay
  BY DEF ReplayInv
<1>2. QED BY ReplayInvariant, <1>1, PTL

\* NonceCache.Check remembers nothing that ValidateConnRequest has refused.
THEOREM RefusedForgotten == Spec => []OnlyAdmittedRemembered
<1>1. ReplayInv => OnlyAdmittedRemembered
  BY DEF ReplayInv, CacheInv
<1>2. QED BY ReplayInvariant, <1>1, PTL

\* ValidateConnRequest implements the at-most-once guard: a request passes
\* again only when it came stamped at the very edge of the freshness window.
THEOREM ReplayRefinement == Spec => AtMostOnceSpec
<1> DEFINE ahead == {n \in Nonces : admitted[n] > 0 /\ ~Timely(n)}
<1>1. Init => Guard!Init
  BY DEF Init, Guard!Init
<1>2. ReplayInv /\ ReplayInv' /\ [Next]_vars => [Guard!Next]_<<admitted, ahead>>
  <2> SUFFICES ASSUME ReplayInv, ReplayInv', [Next]_vars
               PROVE  [Guard!Next]_<<admitted, ahead>>
    OBVIOUS
  <2>0. TypeOK /\ TypeOK' /\ NoReplay /\ NoReplay'
    BY DEF ReplayInv
  <2>1. CASE admitted' = admitted /\ firstAt' = firstAt /\ sent' = sent
    BY <2>1 DEF Timely
  <2>2. CASE \E n \in Nonces, skew \in -MaxSkew .. MaxSkew : CreateConnRequest(n, skew)
    <3>1. PICK n \in Nonces, skew \in -MaxSkew .. MaxSkew : CreateConnRequest(n, skew)
      BY <2>2
    <3>2. admitted' = admitted /\ firstAt' = firstAt /\ \A m \in sent : m.nonce # n
      BY <3>1 DEF CreateConnRequest
    <3>3. admitted[n] = 0
      BY <2>0, <3>2 DEF ReplayInv, AdmittedWereSent, TypeOK
    <3>4. ASSUME NEW k \in Nonces, k # n PROVE Timely(k)' <=> Timely(k)
      BY <3>1, <3>4 DEF CreateConnRequest, Timely
    <3>5. ahead' = ahead
      BY <3>2, <3>3, <3>4
    <3>6. QED BY <3>2, <3>5
  <2>3. CASE \E h \in Handlers : CheckNonce(h) /\ admitted' # admitted
    <3>1. PICK h \in Handlers : CheckNonce(h) /\ admitted' # admitted
      BY <2>3
    <3>2. PICK n \in Nonces : n = req[h].nonce
      BY <3>1, <2>0 DEF ReplayInv, TypeOK, HandlerInv, CheckNonce, Request
    <3>3. /\ admitted' = [admitted EXCEPT ![n] = @ + 1]
          /\ firstAt' = [firstAt EXCEPT ![n] = IF admitted[n] = 0 THEN now ELSE @]
          /\ sent' = sent
      BY <3>1, <3>2 DEF CheckNonce
    <3>4. /\ admitted[n] \in Nat /\ admitted'[n] = admitted[n] + 1
          /\ \A k \in Nonces : k # n => admitted'[k] = admitted[k]
      BY <2>0, <3>2, <3>3 DEF TypeOK
    <3>5. ASSUME NEW k \in Nonces, k # n PROVE Timely(k)' <=> Timely(k)
      BY <2>0, <3>2, <3>3, <3>5 DEF TypeOK, Timely
    <3>6. CASE admitted[n] = 0
      <4>1. admitted' = [admitted EXCEPT ![n] = 1]
        BY <2>0, <3>2, <3>3, <3>4, <3>6 DEF TypeOK
      <4>2. n \notin ahead
        BY <3>6
      <4>3. ahead' \in {ahead, ahead \cup {n}}
        BY <3>2, <3>4, <3>5, <4>2
      <4>4. Guard!LetThrough(n)
        BY <3>6, <4>1, <4>3 DEF Guard!LetThrough
      <4>5. Guard!Next
        BY <3>2, <4>4 DEF Guard!Next
      <4>6. QED BY <4>5
    <3>7. CASE admitted[n] # 0
      <4>1. firstAt' = firstAt
        BY <2>0, <3>2, <3>3, <3>7 DEF TypeOK
      <4>2. Timely(n)' <=> Timely(n)
        BY <3>3, <4>1 DEF Timely
      <4>3. admitted'[n] <= (IF Timely(n)' THEN 1 ELSE 2)
        BY <2>0, <3>2 DEF NoReplay
      <4>4. admitted[n] = 1 /\ ~Timely(n)
        BY <3>4, <3>7, <4>2, <4>3
      <4>5. admitted' = [admitted EXCEPT ![n] = 2]
        BY <2>0, <3>2, <3>3, <4>4 DEF TypeOK
      <4>6. n \in ahead /\ ahead' = ahead
        BY <3>2, <3>4, <3>5, <4>2, <4>4
      <4>7. Guard!LetThroughAgain(n)
        BY <4>4, <4>5, <4>6 DEF Guard!LetThroughAgain
      <4>8. Guard!Next
        BY <3>2, <4>7 DEF Guard!Next
      <4>9. QED BY <4>8
    <3>8. QED BY <3>6, <3>7
  <2>4. QED
    <3>1. ASSUME NEW h \in Handlers, CheckNonce(h), admitted' = admitted
          PROVE  firstAt' = firstAt /\ sent' = sent
      <4>1. req[h].nonce \in Nonces
        BY <3>1, <2>0 DEF ReplayInv, TypeOK, HandlerInv, CheckNonce, Request
      <4>2. admitted[req[h].nonce] \in Nat
        BY <2>0, <4>1 DEF TypeOK
      <4>3. admitted' # [admitted EXCEPT ![req[h].nonce] = @ + 1]
        BY <2>0, <3>1, <4>1, <4>2 DEF TypeOK
      <4>4. QED BY <3>1, <4>3 DEF CheckNonce
    <3>2. ASSUME NEW h \in Handlers, NEW m \in sent, Receive(h, m)
          PROVE  admitted' = admitted /\ firstAt' = firstAt /\ sent' = sent
      BY <3>2 DEF Receive
    <3>3. ASSUME NEW h \in Handlers, CheckAge(h) \/ CheckFuture(h)
          PROVE  admitted' = admitted /\ firstAt' = firstAt /\ sent' = sent
      BY <3>3 DEF CheckAge, CheckFuture, Refuse
    <3>4. ASSUME Tick \/ UNCHANGED vars
          PROVE  admitted' = admitted /\ firstAt' = firstAt /\ sent' = sent
      BY <3>4 DEF Tick, vars
    <3> HIDE DEF ahead
    <3>5. QED BY <2>1, <2>2, <2>3, <3>1, <3>2, <3>3, <3>4 DEF Next
<1>3. QED
  BY <1>1, <1>2, ReplayInvariant, PTL DEF Spec, AtMostOnceSpec, Guard!Spec
============================================================================
