---------------------------- MODULE MCFileChunks ----------------------------
(***************************************************************************)
(* Files of up to five bytes in chunks of one or two: one to five leaves,  *)
(* trees of two, four and eight, full and partial last chunks.             *)
(***************************************************************************)
EXTENDS FileChunks
=============================================================================
