------------------------- MODULE MCIncrementalUpdate -------------------------
(***************************************************************************)
(* IncrementalUpdate for TLC.  The files to start from have one object, of  *)
(* generation 1, and a number that is free or taken by the xref stream.    *)
(***************************************************************************)
EXTENDS IncrementalUpdate, TLC

CONSTANTS v1, v2

Object(n, g) == [kind |-> "obj", num |-> n, gen |-> g, val |-> v1]

TableFile ==
  <<Object(2, 1),
    [kind |-> "table", size |-> 3, prev |-> NoPrev,
     sections |-> << [first |-> 0, entries |-> <<Entry(F, 1, 65535), Entry(F, 0, 1),
                                                 Entry(N, 1, 1)>>] >>]>>

StreamFile ==
  <<Object(1, 1),
    [kind |-> "stream", size |-> 3, prev |-> NoPrev, index |-> << <<0, 3>> >>,
     data |-> <<Entry(F, 0, 255), Entry(N, 1, 1), Entry(N, 2, 0)>>,
     gen |-> 0, val |-> None]>>

MCOriginals == {TableFile, StreamFile}

\* A file whose /Size is too small for its own section.
SmallFile == <<TableFile[1], [TableFile[2] EXCEPT !.size = 2]>>

MCAllOriginals == MCOriginals \union {SmallFile}

Symmetry == Permutations(Objs)
=============================================================================
