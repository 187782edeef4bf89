-------------------------- MODULE ConnectorProofs --------------------------
(***************************************************************************)
(* The table of the connector for any number of peers and calls.  An entry *)
(* is put in by a call for its own address, and only that call and a       *)
(* Disconnect that has found the entry write its state: TableInv.  That    *)
(* eviction spares what is in progress rests on the same invariant, since  *)
(* a call that has not come to its end does not show as connected.         *)
(* Nothing here depends on the order of activity, the links or the pings.  *)
(***************************************************************************)
EXTENDS Connector, TLAPS

\* Where a call is once its PeerConnection has been put in the table.
Entered == InFlow \cup {"touch", "ok", "err"}
Places == Entered \cup {"idle", "previous", "replace", "close", "mark", "delete"}
States == {"busy", "connected", "failed", "disconnected"}

CallsOK ==
  /\ kind \in [Calls -> Kinds \cup {None}]
  /\ at \in [Calls -> Places]
  /\ addr \in [Calls -> Addrs \cup {None}]
  /\ found \in [Calls -> Calls \cup {None}]
  /\ state \in [Calls -> States]
  /\ peers \in [Addrs -> Calls \cup {None}]
  /\ \A k \in Calls : at[k] # "idle" => addr[k] \in Addrs

\* The retry loops stay within their bounds: a strategy is one of the four, and
\* ReconnectWithFallback never starts from one past the last.
RangeInv ==
  /\ attempt \in [Calls -> Nat]
  /\ start \in [Calls -> Strategies] /\ try \in [Calls -> Strategies] /\ strategy \in [Calls -> Strategies]
  /\ \A k \in Calls :
       /\ at[k] \in {"idle", "previous", "replace"} => attempt[k] = 0
       /\ at[k] = "punch" => try[k] = HolePunch
       /\ kind[k] = "fallback" => start[k] + attempt[k] <= TorOnly
       /\ kind[k] = "reconnect" => attempt[k] < ReconnectMaxRetries

\* What the PeerConnection of a call that has come to its end shows.
Shown(k) ==
  \/ state[k] = IF at[k] = "err" THEN "failed" ELSE "connected"
  \/ \E d \in Calls : at[d] = "delete" /\ found[d] = k

TableInv ==
  /\ \A a \in Addrs, k \in Calls : peers[a] = k =>
       /\ addr[k] = a /\ at[k] \in Entered
       /\ at[k] \notin InFlow => Shown(k)
  /\ \A d \in Calls : at[d] \in {"close", "mark", "delete"} =>
       /\ found[d] \in Calls /\ at[found[d]] \in Entered
       /\ addr[found[d]] = addr[d]
  /\ \A k \in Calls : at[k] \notin {"touch", "ok", "err"} => state[k] # "connected"

ConnectorInv == CallsOK /\ RangeInv /\ TableInv

-----------------------------------------------------------------------------
\* A step of the flow: it writes the state of its own PeerConnection, and leaves the flow
\* with the state that it returns.
LEMMA FlowMoves ==
  ASSUME CallsOK, RangeInv, NEW k \in Calls,
         Lookup(k) \/ Negotiate(k) \/ Traverse(k) \/ Punch(k) \/ Return(k) \/ Backoff(k)
  PROVE  /\ UNCHANGED <<kind, addr, start, found, peers>>
         /\ at[k] \in InFlow \cup {"touch"}
         /\ \E l \in Entered, x \in States :
              /\ at' = [at EXCEPT ![k] = l] /\ state' = [state EXCEPT ![k] = x]
              /\ l \in InFlow => at[k] \in InFlow /\ (x = state[k] \/ x = "busy")
              /\ l = "err" => x = "failed"
              /\ l \in {"touch", "ok"} => x = "connected" \/ (at[k] = "touch" /\ x = state[k])
<1> USE DEF Goto, Entered, InFlow, States
<1>0. state = [state EXCEPT ![k] = state[k]] /\ state[k] \in States /\ at = [at EXCEPT ![k] = at[k]]
  BY DEF CallsOK
<1>1. ASSUME Fail(k)
      PROVE  \E l \in {"lookup", "backoff", "err"}, x \in States :
               /\ at' = [at EXCEPT ![k] = l] /\ state' = [state EXCEPT ![k] = x]
               /\ l # "err" => x = state[k] \/ x = "busy"
               /\ l = "err" => x = "failed"
  <2>1. CASE LastAttempt(k)
    BY <1>1, <2>1 DEF Fail
  <2>2. CASE ~LastAttempt(k)
    BY <1>0, <1>1, <2>2 DEF Fail
  <2> QED BY <2>1, <2>2
<1>2. ASSUME NEW s, Finish(k, s)
      PROVE  \E l \in {"touch", "ok"} : at' = [at EXCEPT ![k] = l] /\ state' = [state EXCEPT ![k] = "connected"]
  BY <1>2 DEF Finish
<1>3. CASE Negotiate(k)
  <2>1. CASE Fail(k)
    BY <1>1, <1>3, <2>1 DEF Negotiate
  <2>2. CASE Finish(k, TorOnly)
    BY <1>2, <1>3, <2>2 DEF Negotiate
  <2>3. CASE ~Fail(k) /\ ~Finish(k, TorOnly)
    BY <1>3, <2>3 DEF Negotiate
  <2> QED BY <2>1, <2>2, <2>3
<1>4. CASE Traverse(k)
  <2>1. CASE \E s : Finish(k, s)
    BY <1>2, <1>4, <2>1 DEF Traverse
  <2>2. CASE ~ \E s : Finish(k, s)
    BY <1>0, <1>4, <2>2 DEF Traverse
  <2> QED BY <2>1, <2>2
<1>5. CASE Punch(k)
  <2>1. CASE Finish(k, HolePunch)
    BY <1>2, <1>5, <2>1 DEF Punch
  <2>2. CASE ~Finish(k, HolePunch)
    BY <1>0, <1>5, <2>2 DEF Punch
  <2> QED BY <2>1, <2>2
<1>6. CASE Return(k)
  BY <1>0, <1>6 DEF Return
<1>7. CASE Backoff(k)
  BY <1>7 DEF Backoff
<1>8. CASE Lookup(k)
  <2>1. CASE Fail(k)
    BY <1>1, <1>8, <2>1 DEF Lookup
  <2>2. CASE ~Fail(k)
    BY <1>0, <1>8, <2>2 DEF Lookup
  <2> QED BY <2>1, <2>2
<1> QED BY <1>3, <1>4, <1>5, <1>6, <1>7, <1>8

\* The rest of what happens is not about the calls at all.
Background ==
  \/ Tick
  \/ \E a \in Addrs : PingAnswered(a) \/ PingMissed(a) \/ LinkChanges(a)
  \/ UNCHANGED vars

\* The steps of the system, by what they touch.
LEMMA Steps ==
  ASSUME [Next]_vars
  PROVE  \/ \E k \in Calls : Lookup(k) \/ Negotiate(k) \/ Traverse(k) \/ Punch(k) \/ Return(k) \/ Backoff(k)
         \/ \E k \in Calls : ReadPrevious(k) \/ Replace(k) \/ Close(k) \/ Mark(k) \/ Delete(k)
         \/ \E k \in Calls, a \in Addrs :
              Connect(k, a) \/ Reconnect(k, a) \/ FindEntry(k, a) \/ StartReconnect(a, k)
         \/ Background
BY DEF Next, CallStep, Monitor, Environment, Background

\* Every step leaves calls, entries and what Disconnect found well-typed.
LEMMA CallsStep ==
  ASSUME CallsOK, RangeInv, TableInv, [Next]_vars
  PROVE  CallsOK'
<1> USE DEF Goto, Places, Entered, InFlow
<1>1. ASSUME NEW k \in Calls, Lookup(k) \/ Negotiate(k) \/ Traverse(k) \/ Punch(k) \/ Return(k) \/ Backoff(k) PROVE CallsOK'
  BY <1>1, FlowMoves DEF CallsOK
<1>2. ASSUME NEW k \in Calls, ReadPrevious(k) \/ Replace(k) PROVE CallsOK'
  BY <1>2 DEF ReadPrevious, Replace, CallsOK, pcVars, TableInv
<1>3. ASSUME NEW k \in Calls, Close(k) \/ Mark(k) \/ Delete(k) PROVE CallsOK'
  BY <1>3 DEF Close, Mark, Delete, CallsOK, pcVars, TableInv, States
<1>4. ASSUME NEW k \in Calls, NEW a \in Addrs, Connect(k, a) \/ Reconnect(k, a) PROVE CallsOK'
  BY <1>4 DEF Connect, Reconnect, CallsOK, pcVars
<1>5. ASSUME NEW k \in Calls, NEW a \in Addrs, FindEntry(k, a) \/ StartReconnect(a, k) PROVE CallsOK'
  BY <1>5 DEF FindEntry, StartReconnect, CallsOK, pcVars
<1>6. CASE Background
  BY <1>6 DEF Background, Tick, PingAnswered, PingMissed, LinkChanges, vars, callVars, pcVars, CallsOK
<1> QED BY <1>1, <1>2, <1>3, <1>4, <1>5, <1>6, Steps

\* No retry or fallback leaves its range.
LEMMA RangeStep ==
  ASSUME CallsOK, CallsOK', RangeInv, TableInv, [Next]_vars
  PROVE  RangeInv'
<1> USE ConnectorAssumption DEF Goto, Direct, HolePunch, Relay, TorOnly, Strategies
<1>0. /\ at \in [Calls -> Places] /\ attempt \in [Calls -> Nat]
      /\ start \in [Calls -> 0 .. 3] /\ try \in [Calls -> 0 .. 3] /\ strategy \in [Calls -> 0 .. 3]
  BY DEF CallsOK, RangeInv
<1>1. ASSUME NEW k \in Calls, Fail(k), UNCHANGED <<kind, start, try, strategy>> PROVE RangeInv'
  <2>1. CASE LastAttempt(k)
    BY <1>0, <1>1, <2>1 DEF Fail, RangeInv
  <2>2. CASE ~LastAttempt(k)
    BY <1>0, <1>1, <2>2 DEF Fail, LastAttempt, RangeInv
  <2> QED BY <2>1, <2>2
<1>2. ASSUME NEW k \in Calls, NEW s \in Strategies, Finish(k, s), UNCHANGED <<kind, start>> PROVE RangeInv'
  BY <1>0, <1>2 DEF Finish, RangeInv
<1>3. ASSUME NEW k \in Calls, Negotiate(k) PROVE RangeInv'
  <2>1. CASE Fail(k) /\ UNCHANGED <<try, strategy>>
    BY <1>1, <1>3, <2>1 DEF Negotiate
  <2>2. CASE Finish(k, TorOnly)
    BY <1>2, <1>3, <2>2 DEF Negotiate
  <2>3. CASE /\ try' = [try EXCEPT ![k] = FirstStrategy(k)] /\ at' = [at EXCEPT ![k] = "nat"]
             /\ UNCHANGED <<kind, attempt, strategy>>
    <3>1. FirstStrategy(k) \in 0 .. 3
      BY <1>0 DEF FirstStrategy, RangeInv
    <3> QED BY <1>0, <1>3, <2>3, <3>1 DEF Negotiate, RangeInv
  <2> QED BY <1>3, <2>1, <2>2, <2>3 DEF Negotiate
<1>4. ASSUME NEW k \in Calls, Traverse(k) \/ Punch(k) PROVE RangeInv'
  <2>1. CASE \E s \in Strategies : Finish(k, s)
    BY <1>2, <1>4, <2>1 DEF Traverse, Punch
  <2>2. CASE ~ \E s \in Strategies : Finish(k, s)
    BY <1>0, <1>4, <2>2 DEF Traverse, Punch, NextStrategy, RangeInv
  <2> QED BY <2>1, <2>2
<1>5. ASSUME NEW k \in Calls, Return(k) \/ Backoff(k) \/ Replace(k) \/ Close(k) \/ Mark(k) \/ Delete(k) PROVE RangeInv'
  BY <1>0, <1>5 DEF Return, Backoff, Replace, Close, Mark, Delete, pcVars, RangeInv
<1>6. ASSUME NEW k \in Calls, ReadPrevious(k) PROVE RangeInv'
  <2>1. PICK s \in 0 .. 3 : start' = [start EXCEPT ![k] = s]
    <3>1. peers[addr[k]] # None => strategy[peers[addr[k]]] \in 0 .. 3
      BY <1>0, <1>6 DEF ReadPrevious, CallsOK
    <3>2. start' = [start EXCEPT ![k] = IF peers[addr[k]] = None THEN 0 ELSE strategy[peers[addr[k]]]]
      BY <1>6 DEF ReadPrevious
    <3>3. (IF peers[addr[k]] = None THEN 0 ELSE strategy[peers[addr[k]]]) \in 0 .. 3
      BY <3>1
    <3> QED BY <3>2, <3>3
  <2>2. attempt[k] = 0
    BY <1>6 DEF ReadPrevious, RangeInv
  <2> QED BY <1>0, <1>6, <2>1, <2>2 DEF ReadPrevious, pcVars, RangeInv
<1>7. ASSUME NEW k \in Calls, NEW a \in Addrs,
             Connect(k, a) \/ Reconnect(k, a) \/ FindEntry(k, a) \/ StartReconnect(a, k)
      PROVE  RangeInv'
  BY <1>0, <1>7 DEF Connect, Reconnect, FindEntry, StartReconnect, pcVars, RangeInv
<1>8. CASE Background
  BY <1>8 DEF Background, Tick, PingAnswered, PingMissed, LinkChanges, vars, callVars, pcVars, RangeInv
<1>9. ASSUME NEW k \in Calls, Lookup(k) PROVE RangeInv'
  <2>1. CASE Fail(k)
    BY <1>1, <1>9, <2>1 DEF Lookup
  <2>2. CASE ~Fail(k)
    BY <1>0, <1>9, <2>2 DEF Lookup, RangeInv
  <2> QED BY <2>1, <2>2
<1> QED BY <1>3, <1>4, <1>5, <1>6, <1>7, <1>8, <1>9, Steps

\* An entry is written only by the call that put it in, or by a Disconnect that found it.
LEMMA TableStep ==
  ASSUME CallsOK, RangeInv, TableInv, [Next]_vars
  PROVE  TableInv'
<1> USE ConnectorAssumption DEF Goto, Places, Entered, InFlow
<1>1. ASSUME NEW k \in Calls, Lookup(k) \/ Negotiate(k) \/ Traverse(k) \/ Punch(k) \/ Return(k) \/ Backoff(k) PROVE TableInv'
  <2>1. UNCHANGED <<addr, found, peers>> /\ at[k] \in InFlow \cup {"touch"}
    BY <1>1, FlowMoves
  <2>2. PICK l \in Entered, x \in States :
          /\ at' = [at EXCEPT ![k] = l] /\ state' = [state EXCEPT ![k] = x]
          /\ l \in InFlow => at[k] \in InFlow /\ (x = state[k] \/ x = "busy")
          /\ l = "err" => x = "failed"
          /\ l \in {"touch", "ok"} => x = "connected" \/ (at[k] = "touch" /\ x = state[k])
    BY <1>1, FlowMoves
  <2>3. /\ at'[k] = l /\ state'[k] = x
        /\ \A j \in Calls : j # k => at'[j] = at[j] /\ state'[j] = state[j]
    BY <2>2 DEF CallsOK
  <2>4. \A j \in Calls : Shown(j) /\ (j = k => at[k] = "touch" /\ x = state[k] /\ l # "err") => Shown(j)'
    BY <2>1, <2>3 DEF Shown
  <2>5. ASSUME NEW a \in Addrs, NEW j \in Calls, peers[a] = j, at'[j] \notin InFlow PROVE Shown(j)'
    <3>1. CASE j # k
      BY <2>3, <2>4, <2>5, <3>1 DEF TableInv
    <3>2. CASE j = k /\ x = "connected" /\ l # "err"
      BY <2>3, <3>2 DEF Shown
    <3>3. CASE j = k /\ l = "err"
      BY <2>2, <2>3, <3>3 DEF Shown
    <3>4. CASE j = k /\ l \in {"touch", "ok"} /\ at[k] = "touch" /\ x = state[k]
      BY <2>4, <2>5, <3>4 DEF TableInv
    <3> QED BY <2>2, <2>3, <2>5, <3>1, <3>2, <3>3, <3>4
  <2>6. \A j \in Calls : at'[j] \notin {"touch", "ok", "err"} => state'[j] # "connected"
    BY <2>2, <2>3 DEF TableInv
  <2> QED BY <2>1, <2>3, <2>5, <2>6 DEF TableInv
<1>2. ASSUME NEW k \in Calls, ReadPrevious(k) PROVE TableInv'
  BY <1>2 DEF ReadPrevious, CallsOK, TableInv, Shown, pcVars
<1>3. ASSUME NEW k \in Calls, Replace(k) PROVE TableInv'
  BY <1>3 DEF Replace, CallsOK, TableInv, Shown, pcVars
<1>4. ASSUME NEW k \in Calls, Close(k) PROVE TableInv'
  BY <1>4 DEF Close, CallsOK, TableInv, Shown, pcVars
<1>5. ASSUME NEW k \in Calls, Mark(k) PROVE TableInv'
  BY <1>5 DEF Mark, CallsOK, TableInv, Shown
<1>6. ASSUME NEW k \in Calls, Delete(k) PROVE TableInv'
  BY <1>6 DEF Delete, CallsOK, TableInv, Shown, pcVars
<1>7. ASSUME NEW k \in Calls, NEW a \in Addrs, Connect(k, a) \/ Reconnect(k, a) PROVE TableInv'
  BY <1>7 DEF Connect, Reconnect, CallsOK, TableInv, Shown, pcVars
<1>8. ASSUME NEW k \in Calls, NEW a \in Addrs, FindEntry(k, a) \/ StartReconnect(a, k) PROVE TableInv'
  BY <1>8 DEF FindEntry, StartReconnect, CallsOK, TableInv, Shown, pcVars
<1>9. CASE Background
  BY <1>9 DEF Background, Tick, PingAnswered, PingMissed, LinkChanges, vars, callVars, pcVars, TableInv, Shown
<1> QED BY <1>1, <1>2, <1>3, <1>4, <1>5, <1>6, <1>7, <1>8, <1>9, Steps

-----------------------------------------------------------------------------
\* No call has begun and the table is empty.
LEMMA ConnectorInit == Init => ConnectorInv
BY ConnectorAssumption
DEF Init, ConnectorInv, CallsOK, RangeInv, TableInv, Places, Entered, InFlow, States, Kinds,
    Direct, HolePunch, TorOnly, Strategies

\* The inductive invariant of the connector: the calls and the entries they put in the
\* table belong together, and the retry loops stay within their bounds.
THEOREM ConnectorInvariant == Spec => []ConnectorInv
<1>1. ConnectorInv /\ [Next]_vars => ConnectorInv'
  <2> SUFFICES ASSUME ConnectorInv, [Next]_vars PROVE ConnectorInv'
    OBVIOUS
  <2>1. CallsOK'
    BY CallsStep DEF ConnectorInv
  <2> QED BY <2>1, RangeStep, TableStep DEF ConnectorInv
<1> QED BY <1>1, ConnectorInit, PTL DEF Spec

\* An entry whose call has returned shows what the call returned, or is being disconnected,
\* whatever calls there are for the same peer at the same time.
THEOREM TableTruthful == Spec => []EntryTruthful
<1>1. ConnectorInv => EntryTruthful
  BY DEF ConnectorInv, TableInv, Shown, EntryTruthful, Returned, Entered, InFlow
<1> QED BY <1>1, ConnectorInvariant, PTL

\* Eviction spares connections in progress: they leave the table only for a newer one or
\* through Disconnect.
THEOREM ProgressKept == Spec => InProgressKept
<1>1. ASSUME ConnectorInv, [Next]_vars
      PROVE  \A a \in Addrs, k \in Calls :
               peers[a] = k /\ at[k] \in InFlow /\ peers'[a] # k =>
                 \/ peers'[a] # None
                 \/ \E d \in Calls : at[d] = "delete" /\ addr[d] = a /\ at'[d] = "ok"
  <2> SUFFICES ASSUME NEW a \in Addrs, NEW k \in Calls, peers[a] = k, at[k] \in InFlow, peers'[a] = None
               PROVE  \E d \in Calls : at[d] = "delete" /\ addr[d] = a /\ at'[d] = "ok"
    OBVIOUS
  <2> USE <1>1, ConnectorAssumption DEF ConnectorInv, CallsOK
  <2>1. state[k] # "connected" /\ ~IsConnected(a) /\ a \notin Victims
    BY DEF TableInv, InFlow, IsConnected, Victims, Evictable
  <2>2. ASSUME NEW j \in Calls, Lookup(j) \/ Negotiate(j) \/ Traverse(j) \/ Punch(j) \/ Return(j) \/ Backoff(j) PROVE FALSE
    BY <2>2, FlowMoves
  <2>3. ASSUME NEW j \in Calls, ReadPrevious(j) \/ Replace(j) \/ Close(j) \/ Mark(j) PROVE FALSE
    BY <2>3 DEF ReadPrevious, Replace, Close, Mark, pcVars
  <2>4. ASSUME NEW j \in Calls, Delete(j) PROVE at[j] = "delete" /\ addr[j] = a /\ at'[j] = "ok"
    BY <2>4 DEF Delete, Goto
  <2>5. ASSUME NEW j \in Calls, NEW b \in Addrs, Connect(j, b) \/ Reconnect(j, b) PROVE FALSE
    BY <2>1, <2>5 DEF Connect, Reconnect
  <2>6. ASSUME NEW j \in Calls, NEW b \in Addrs, FindEntry(j, b) \/ StartReconnect(b, j) PROVE FALSE
    BY <2>6 DEF FindEntry, StartReconnect
  <2>7. CASE Background
    BY <2>7 DEF Background, Tick, PingAnswered, PingMissed, LinkChanges, vars
  <2> QED BY <2>2, <2>3, <2>4, <2>5, <2>6, <2>7, Steps
<1> QED BY <1>1, ConnectorInvariant, PTL DEF Spec, InProgressKept
=============================================================================
