----------------------------- MODULE MCXrefFiles -----------------------------
(***************************************************************************)
(* Small files for TLC: two or three revisions, each a table or a stream   *)
(* over one of a few section layouts.  The first has three numbers and     *)
(* every update adds one.                                                  *)
(***************************************************************************)
EXTENDS XrefFormat

MCSize(rev) == rev + 2

\* Section layouts: pairs <<first number, length>>.
Layouts == {<< <<0, 3>> >>, << <<1, 2>> >>, << <<0, 1>>, <<2, 1>> >>,
            << <<3, 1>>, <<1, 1>> >>}

Sum(index) == LET s[k \in 0..Len(index)] == IF k = 0 THEN 0 ELSE s[k - 1] + index[k][2]
              IN  s[Len(index)]

\* An object in use, the end of the free list and a free entry that is chained
\* to another one.
EntryKinds(rev) == {Entry(N, rev, 0), Entry(F, 0, 1), Entry(F, 1, 1)}

\* The sections of a table for a layout and the entries of all of them in a row.
Sections(index, data) ==
  [k \in 1..Len(index) |->
     [first |-> index[k][1],
      entries |-> SubSeq(data, PairStart(index)[k], PairStart(index)[k] + index[k][2] - 1)]]

TableItem(rev, prev, index, data) ==
  [kind |-> "table", size |-> MCSize(rev), prev |-> prev, sections |-> Sections(index, data)]

StreamItem(rev, prev, index, data) ==
  [kind |-> "stream", size |-> MCSize(rev), prev |-> prev, index |-> index, data |-> data]

\* The revisions at offset rev whose /Prev is prev.
RevisionsAt(rev, prev, layouts) ==
  UNION {{TableItem(rev, prev, l, d) : d \in [1..Sum(l) -> EntryKinds(rev)]} \union
         {StreamItem(rev, prev, l, d) : d \in [1..Sum(l) -> EntryKinds(rev)]} : l \in layouts}

\* A fresh file: one section over all numbers, number 0 ends the free list.
Originals == {r \in RevisionsAt(1, NoPrev, {<< <<0, 3>> >>}) :
                DeclaredEntry(r, 0) = Entry(F, 0, 1)}

TwoRevisions == {<<a, b>> : a \in Originals, b \in RevisionsAt(2, 1, Layouts)}

Updates == {r \in RevisionsAt(2, 1, {<< <<1, 2>> >>}) : r.kind = "table"}

ThreeRevisions ==
  {<<a, b, c>> : a \in {r \in Originals : r.kind = "table"}, b \in Updates,
                 c \in RevisionsAt(3, 2, {<< <<0, 1>>, <<2, 1>> >>})}

\* Files whose newest revision declares a size that the older one exceeds.
ShrunkFiles ==
  {<<a, [b EXCEPT !.size = 2]>> :
     a \in Originals, b \in RevisionsAt(2, 1, {<< <<1, 1>> >>})}

AllFiles == TwoRevisions \union ThreeRevisions \union ShrunkFiles
=============================================================================
