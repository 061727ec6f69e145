----------------------------- MODULE MCXrefChain -----------------------------
(* XrefChain for TLC, over the files of MCXrefFiles. *)
EXTENDS XrefChain, MCXrefFiles
=============================================================================
