------------------------- MODULE MCServiceRegistry -------------------------
(***************************************************************************)
(* Streams s1, s2 and s3 compete for one name; the daemon registers the    *)
(* node service.                                                           *)
(***************************************************************************)
EXTENDS ServiceRegistry, TLC

CONSTANTS d, s1, s2, s3, s4, node, app

Three == {d, s1, s2, s3}
Four == {d, s1, s2, s3, s4}
TwoNames == {node, app}

Competing == [s \in Streams |-> IF s = d THEN node ELSE app]
\* s4 asks for the name of the node service.
Mixed == [s \in Streams |-> IF s \in {d, s4} THEN node ELSE app]
============================================================================
