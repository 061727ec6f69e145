-------------------------------- MODULE MCXref --------------------------------
(* Xref for TLC, over the files of MCXrefFiles. *)
EXTENDS Xref, MCXrefFiles

\* Following /Prev comes to an end, by the steps of the sections and entries
\* (pindf_parse_xref has no set of visited offsets).
LoadingEnds == Chain!LoadingEnds
=============================================================================
