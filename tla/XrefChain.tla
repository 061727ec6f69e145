------------------------------ MODULE XrefChain ------------------------------
(***************************************************************************)
(* Loading the cross-reference table of a file, one step per revision:     *)
(* pindf_parse_xref follows the chain of /Prev from the newest revision to *)
(* the oldest one and merges each into doc->xref.                          *)
(***************************************************************************)
EXTENDS XrefFormat

CONSTANT Files    \* the files that may be opened; the newest xref comes last

VARIABLES
  file,       \* the items of the file
  prev,       \* offset of the revision to read next
  size,       \* doc->xref->size, or NoXref
  entries,    \* doc->xref->entries
  status      \* "reading", "done", "failed" (a negative return), "aborted"

vars == <<file, prev, size, entries, status>>

\* pindf_file_parse has found startxref; nothing is loaded yet.
Start ==
  /\ prev = Len(file)
  /\ size = NoXref
  /\ entries = BlankTable(0)
  /\ status = "reading"

\* Only the newest revision sizes the table: it is allocated once.
TableSize(item) == IF size = NoXref THEN item.size ELSE size

Table(item) == IF size = NoXref THEN BlankTable(item.size) ELSE entries

\* The offset of the revision after this one.
NextRevision(item) == item.prev

ReadRevision ==
  /\ status = "reading"
  /\ LET item == file[prev] IN
       /\ IsXref(item)
       /\ AllFit(item, TableSize(item))
       /\ size' = TableSize(item)
       /\ entries' = Merge(Table(item), item)
       /\ prev' = NextRevision(item)
       /\ status' = IF NextRevision(item) = NoPrev THEN "done" ELSE "reading"
  /\ UNCHANGED file

\* "xref overflow": a revision has a section past the size of the newest one.
Overflow ==
  /\ status = "reading"
  /\ LET item == file[prev] IN
       /\ IsXref(item)
       /\ ~AllFit(item, TableSize(item))
  /\ status' = "aborted"
  /\ UNCHANGED <<file, prev, size, entries>>

\* The text of a revision does not have its form: a negative return.
Malformed ==
  /\ status = "reading"
  /\ status' = "failed"
  /\ UNCHANGED <<file, prev, size, entries>>

Next == ReadRevision \/ Overflow \/ Malformed

\* The loop goes on while nothing fails: nothing else runs meanwhile.
Fairness == WF_vars(ReadRevision \/ Overflow)

Load == Start /\ [][Next]_vars /\ Fairness

Init == file \in Files /\ Start

Spec == Init /\ [][Next]_vars /\ Fairness

-----------------------------------------------------------------------------
(* Properties                                                              *)

\* The offsets of the revisions that a reader of the file visits.
Revisions == {o \in 1..Len(file) : IsXref(file[o])}

\* The newest revision that declares n, or 0.
Newest(n) ==
  LET rs == {o \in Revisions : n \in DeclaredNums(file[o])} IN
  IF rs = {} THEN 0 ELSE CHOOSE o \in rs : \A p \in rs : p <= o

\* A loaded table gives every number the entry of the newest revision that
\* declares it (incremental updates, docs/pdf_structure.rst:126-137).
NewestWins ==
  status = "done" =>
    \A n \in 0..(size - 1) :
      entries[n] = IF Newest(n) = 0 THEN BlankEntry
                   ELSE DeclaredEntry(file[Newest(n)], n)

\* An object that the newest revision marks as free is not in use: "Free
\* objects (marked as free in xref tables) are detected and ignored"
\* (docs/limitations.rst:32).
FreeIsIgnored ==
  status = "done" =>
    \A n \in 0..(size - 1) :
      Newest(n) # 0 /\ DeclaredEntry(file[Newest(n)], n).type = F
        => entries[n].type = F

\* Following /Prev comes to an end.
LoadingEnds == <>(status # "reading")
=============================================================================
