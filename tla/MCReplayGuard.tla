--------------------------- MODULE MCReplayGuard ---------------------------
(***************************************************************************)
(* Two handlers, two requests (one of them with a malformed nonce).  As in *)
(* the code a nonce is kept exactly twice as long as a request stays       *)
(* fresh; a validation takes up to one tick and clocks may be off by more  *)
(* than the freshness window, so the boundary where a copy is still fresh  *)
(* and its entry just pruned is reached.                                   *)
(***************************************************************************)
EXTENDS ReplayGuard, TLC

CONSTANTS h1, h2, n1, n2

MCHandlers == {h1, h2}
MCNonces == {n1, n2}
MCShortNonces == {n2}

Symmetry == Permutations(MCHandlers)
============================================================================
