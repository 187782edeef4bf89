---------------------------- MODULE MCHandshake ----------------------------
(***************************************************************************)
(* Instances of the handshake.  The node service n decides through its     *)
(* user and its contacts; the registered services decide by their ACL.     *)
(* Under Masked the initiator x may put the address of y in its requests.  *)
(***************************************************************************)
EXTENDS Handshake, TLC

CONSTANTS x, y, n, p, q, z, c1, c2

MCConns == {c1, c2}
Peers == {x, y}
JustX == {x}
JustY == {y}
NodeOnly == {n}
JustP == {p}
NodeAndGated == {n, p}
MixedServices == {n, q, z}

NodeAcl == (n :> "interactive")
NodeAndGatedAcl == NodeAcl @@ (p :> "allowlist")
MixedAcl == NodeAcl @@ (q :> "allowlist") @@ (z :> "nil")
ConnSymmetry == Permutations(Conns)
XHonest == (x :> {x})
Masked == (x :> {x, y}) @@ (y :> {y})
============================================================================
