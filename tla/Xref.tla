--------------------------------- MODULE Xref ---------------------------------
(***************************************************************************)
(* Loading the cross-reference table of a file, entry by entry: the loop   *)
(* of pindf_parse_xref over the revisions, _parse_xref_table over the      *)
(* sections of a table and pindf_parse_xref_obj over the entries of a      *)
(* stream, with the bookkeeping that maps them to the pairs of /Index.     *)
(***************************************************************************)
EXTENDS XrefFormat

CONSTANT Files    \* the files that may be opened; the newest xref comes last

ASSUME FilesAssumption ==
  \A f \in Files :
    /\ Len(f) \in Nat \ {0}
    /\ \A o \in 1..Len(f) :
         /\ f[o].size \in Nat
         /\ f[o].prev \in {NoPrev} \union 1..Len(f)
         /\ f[o].kind = "table" => HasSections(f[o])
         /\ f[o].kind = "stream" => HasPairs(f[o])

ASSUME OnceAssumption ==
  \A f \in Files : \A o \in 1..Len(f) : IsXref(f[o]) => DeclaresOnce(f[o])

VARIABLES
  file,       \* the items of the file
  pc,         \* "seek", "sections", "data", "done", "failed", "aborted"
  at,         \* offset of the revision being read
  prev,       \* offset of the revision to read next
  size,       \* doc->xref->size, or NoXref
  entries,    \* doc->xref->entries
  i,          \* sections (table) or entries (stream) of the revision read so far
  cur,        \* cur_section, the pair of the index being filled
  first,      \* cur_section_first_entry, the value of i when it was begun
  base        \* size and entries after the last whole revision (history)

vars == <<file, pc, at, prev, size, entries, i, cur, first, base>>

Init ==
  /\ file \in Files
  /\ pc = "seek"
  /\ at = Len(file)
  /\ prev = Len(file)
  /\ size = NoXref
  /\ entries = BlankTable(0)
  /\ i = 0 /\ cur = 0 /\ first = 0
  /\ base = [size |-> NoXref, entries |-> BlankTable(0)]

item == file[at]

\* doc->xref is allocated for the /Size of the first revision read.
AllocXref(it) ==
  IF size = NoXref
  THEN size' = it.size /\ entries' = BlankTable(it.size)
  ELSE UNCHANGED <<size, entries>>

-----------------------------------------------------------------------------
(* pindf_parse_xref: the head of its loop.  The token at the offset tells   *)
(* a table from a stream; trailer or stream dictionary are read first.      *)

Begin(next_pc) ==
  /\ at' = prev
  /\ AllocXref(file[prev])
  /\ pc' = next_pc
  /\ i' = 0 /\ cur' = 0 /\ first' = 0
  /\ UNCHANGED <<file, prev, base>>

BeginTable == pc = "seek" /\ file[prev].kind = "table" /\ Begin("sections")

BeginStream == pc = "seek" /\ file[prev].kind = "stream" /\ Begin("data")

\* Mutant: the offset of the revision just read is taken for its /Prev.
Unchained == IF item.prev = NoPrev THEN NoPrev ELSE prev

\* The offset of the revision after this one.
NextRevision == item.prev

\* The end of a revision: its /Prev is next, NoPrev ends the loop.
EndRevision ==
  /\ prev' = NextRevision
  /\ pc' = IF NextRevision = NoPrev THEN "done" ELSE "seek"
  /\ base' = [size |-> size, entries |-> entries]
  /\ UNCHANGED <<file, at, size, entries, i, cur, first>>

Abort ==
  /\ pc' = "aborted"
  /\ UNCHANGED <<file, at, prev, size, entries, i, cur, first, base>>

-----------------------------------------------------------------------------
(* _parse_xref_table                                                        *)

Section == item.sections[i + 1]

\* The lines of a section set the entries from its first number on.
SetLines(es, sec) ==
  [n \in DOMAIN es |->
     IF n \in sec.first .. sec.first + Len(sec.entries) - 1 /\ Untouched(es[n])
     THEN sec.entries[n - sec.first + 1] ELSE es[n]]

TableSection ==
  /\ pc = "sections"
  /\ i < Len(item.sections)
  /\ IF Fits(Section.first, Len(Section.entries), size)
     THEN /\ entries' = SetLines(entries, Section)
          /\ i' = i + 1
          /\ UNCHANGED <<file, pc, at, prev, size, cur, first, base>>
     ELSE Abort

\* The keyword trailer ends the sections.
TableEnd == pc = "sections" /\ i = Len(item.sections) /\ EndRevision

-----------------------------------------------------------------------------
(* pindf_parse_xref_obj                                                     *)

Index == item.index[cur + 1]

\* Mutant: the pair is closed one entry late.
PairFullLate(k) == k > first + Index[2]

\* Whether the pair is full once k entries have been read.
PairFull(k) == k >= first + Index[2]

\* The first entry of a pair allocates its section.
SectionReady == i = first => Fits(Index[1], Index[2], size)

\* Mutant: the place in the section is counted from the start of the stream.
NumberFromStart == Index[1] + i

\* The number of entry i: its place in the section of the current pair.
NumberOfEntry == Index[1] + (i - first)

StreamEntry ==
  /\ pc = "data"
  /\ i < Len(item.data)
  /\ SectionReady
  /\ entries' = SetEntry(entries, NumberOfEntry, item.data[i + 1])
  /\ i' = i + 1
  /\ IF PairFull(i + 1) THEN cur' = cur + 1 /\ first' = i + 1
                        ELSE UNCHANGED <<cur, first>>
  /\ UNCHANGED <<file, pc, at, prev, size, base>>

StreamOverflow ==
  /\ pc = "data"
  /\ i < Len(item.data)
  /\ ~SectionReady
  /\ Abort

StreamEnd == pc = "data" /\ i = Len(item.data) /\ EndRevision

-----------------------------------------------------------------------------

\* Any check on the text of a revision fails: a negative return.
Malformed ==
  /\ pc \in {"seek", "sections", "data"}
  /\ pc' = "failed"
  /\ UNCHANGED <<file, at, prev, size, entries, i, cur, first, base>>

Next ==
  \/ BeginTable \/ TableSection \/ TableEnd
  \/ BeginStream \/ StreamEntry \/ StreamOverflow \/ StreamEnd
  \/ Malformed

Spec == Init /\ [][Next]_vars /\ WF_vars(Next)

-----------------------------------------------------------------------------
(* Properties                                                              *)

\* While entries of a stream are left there is a pair for them, and the entry
\* lies inside the section of that pair, which lies inside the table (entries[index]
\* of pindf_xref_section_setentry and index_pairs[cur_section * 2] stay in bounds).
InBounds ==
  pc = "data" /\ i < Len(item.data) =>
    /\ cur < Len(item.index)
    /\ i - first \in 0..(Index[2] - 1)
    /\ i > first => NumberOfEntry \in DOMAIN entries

\* The assertion "xref overflow" of pindf_xref_alloc_section never stops the
\* program on a file whose newest /Size covers all its revisions.
NoOverflow ==
  (\A o \in 1..Len(file) : IsXref(file[o]) =>
     \A n \in DeclaredNums(file[o]) : n < file[Len(file)].size)
    => pc # "aborted"

Status == IF pc \in {"seek", "sections", "data"} THEN "reading" ELSE pc

\* The table as it is between two revisions.
Chain == INSTANCE XrefChain WITH
  size <- base.size, entries <- base.entries, status <- Status

\* Reading entry by entry has the effect of merging one revision after the
\* other: sections and index pairs give every entry the number it was written
\* for.
ImplementsChain == Chain!Load

\* The same without the fairness.
ImplementsChainSteps == Chain!Start /\ [][Chain!Next]_Chain!vars

\* Each /Prev is the revision before, and the newest one comes last.
PrevIsPrevious ==
  /\ Len(file) \in Chain!Revisions
  /\ \A o \in Chain!Revisions :
       /\ file[o].prev \in Chain!Revisions \union {NoPrev} /\ file[o].prev < o
       /\ \A p \in Chain!Revisions : p < o => p <= file[o].prev

\* An entry at the end of the list of free entries: no next one.
EndsFreeList(e) == e.type = F /\ e.fields[1] = 0

\* No update frees an object with the entry that ends the list of free entries, except
\* one that is that end already.
FreesAreChained ==
  \A o, p \in Chain!Revisions :
    \A n \in DeclaredNums(file[o]) \intersect DeclaredNums(file[p]) :
      o < p /\ EndsFreeList(DeclaredEntry(file[p], n))
        => DeclaredEntry(file[o], n) = DeclaredEntry(file[p], n)

\* When the loop over the revisions is over, every number has the entry of the
\* newest revision that declares it, in the files whose updates free no object
\* with the end of the free list (pindf_xref_section_setentry keeps what is set).
NewestWins == PrevIsPrevious /\ FreesAreChained => Chain!NewestWins
=============================================================================
