---------------------------- MODULE MCConnector ----------------------------
(***************************************************************************)
(* Two addresses, with room for one peer, and up to three calls.           *)
(***************************************************************************)
EXTENDS Connector, TLC

CONSTANTS a1, a2, k1, k2, k3

Mix(x, y, z) == (k1 :> x) @@ (k2 :> y) @@ (k3 :> z)
MCMixes == {Mix("connect", "fallback", "disconnect"),
            Mix("reconnect", "fallback", "disconnect"),
            Mix("connect", "reconnect", None)}
============================================================================
