---------------------------- MODULE AtMostOnce ----------------------------
(***************************************************************************)
(* What replay protection promises its caller: every connection request,   *)
(* named by its nonce, is let through to the handshake once, and a second  *)
(* time only when it came stamped so far ahead of the clock that its copy  *)
(* is still fresh when the guard forgets it.  Nothing passes a third time. *)
(***************************************************************************)
EXTENDS Naturals

CONSTANT Nonces

VARIABLES
  times,     \* times[n]: how often the request with nonce n was let through
  ahead      \* the requests let through that far ahead of the clock

Init ==
  /\ times = [n \in Nonces |-> 0]
  /\ ahead = {}

LetThrough(n) ==
  /\ times[n] = 0
  /\ times' = [times EXCEPT ![n] = 1]
  /\ ahead' \in {ahead, ahead \cup {n}}

LetThroughAgain(n) ==
  /\ times[n] = 1
  /\ n \in ahead
  /\ times' = [times EXCEPT ![n] = 2]
  /\ UNCHANGED ahead

Next == \E n \in Nonces : LetThrough(n) \/ LetThroughAgain(n)

Spec == Init /\ [][Next]_<<times, ahead>>
===========================================================================
