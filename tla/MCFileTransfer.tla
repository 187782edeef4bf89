--------------------------- MODULE MCFileTransfer ---------------------------
(***************************************************************************)
(* A file of three chunks with a window of two: the window fills, closes   *)
(* and opens again, and chunks of both kinds are in flight together.       *)
(***************************************************************************)
EXTENDS FileTransfer

CONSTANT k1

OneCaller == {k1}
\* No timeout: a timeout would end every wait, also one that should never last.
Untimed == AllFaults \ {"timeout"}
=============================================================================
