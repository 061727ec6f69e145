------------------------------ MODULE XrefFormat ------------------------------
(***************************************************************************)
(* The data of cross-reference sections, shared by the modules that read   *)
(* and write them: entries (pdf/xref.h:39-47), the rule by which an entry  *)
(* is set (pdf/xref.c:11-23) and the forms a revision has in a file.       *)
(*                                                                         *)
(* A file is a sequence of items and the offset of an item is its place in *)
(* the sequence.  An xref item is one revision of the table:               *)
(*   [kind |-> "table",  size, prev, sections]                             *)
(*   [kind |-> "stream", size, prev, index, data]                          *)
(* where a section is [first, entries], index is a sequence of pairs       *)
(* <<first number, length>> and data holds the entries of all pairs in a   *)
(* row.                                                                    *)
(***************************************************************************)
EXTENDS Integers, Sequences

\* enum pindf_xref_entry_type
F == 0
N == 1
C == 2

Entry(type, f0, f1) == [type |-> type, fields |-> <<f0, f1>>]

\* An entry as calloc leaves it, and a table of them.
BlankEntry == Entry(F, 0, 0)
BlankTable(size) == [n \in 0..(size - 1) |-> BlankEntry]

\* The value of prev when a trailer has no /Prev.
NoPrev == -1

\* The state of doc->xref before the first revision is read.
NoXref == -1

\* Mutant: any free entry can be overwritten.
UntouchedFree(e) == e.type = F

\* The condition of pindf_xref_section_setentry, under which an entry is set.
\* It tests the type and fields[0] (fields[1] here) and never the generation.
Untouched(e) == e.type = F /\ e.fields[1] = 0

SetEntry(entries, n, e) ==
  IF Untouched(entries[n]) THEN [entries EXCEPT ![n] = e] ELSE entries

\* Mutant: no section may reach the last number.
FitsStrictly(first, len, size) == first + len < size

\* The assertion of pindf_xref_alloc_section.
Fits(first, len, size) == first + len <= size

-----------------------------------------------------------------------------
(* What a revision declares, whatever the order it is read in: a set of     *)
(* numbered entries.                                                        *)

Pair(n, e) == [num |-> n, entry |-> e]

TableEntries(item) ==
  UNION {{Pair(sec.first + j - 1, sec.entries[j]) : j \in 1..Len(sec.entries)} :
           sec \in {item.sections[k] : k \in 1..Len(item.sections)}}

\* The place in data where each pair of the index starts.
PairStart(index) ==
  LET start[k \in 1..Len(index)] ==
        IF k = 1 THEN 1 ELSE start[k - 1] + index[k - 1][2]
  IN  start

StreamEntries(item) ==
  UNION {{Pair(item.index[k][1] + j - 1, item.data[PairStart(item.index)[k] + j - 1]) :
            j \in 1..item.index[k][2]} : k \in 1..Len(item.index)}

Declared(item) ==
  IF item.kind = "table" THEN TableEntries(item) ELSE StreamEntries(item)

DeclaredNums(item) == {d.num : d \in Declared(item)}

\* The entry a revision declares for n (revisions declare a number once).
DeclaredEntry(item, n) == (CHOOSE d \in Declared(item) : d.num = n).entry

IsXref(item) == item.kind \in {"table", "stream"}

\* Whether every section of a revision passes pindf_xref_alloc_section.
AllFit(item, size) ==
  IF item.kind = "table"
  THEN \A k \in 1..Len(item.sections) :
         Fits(item.sections[k].first, Len(item.sections[k].entries), size)
  ELSE \A k \in 1..Len(item.index) : Fits(item.index[k][1], item.index[k][2], size)

\* Mutant: an older revision overwrites a newer one.
MergeOverwrites(entries, item) ==
  [n \in DOMAIN entries |->
     IF n \in DeclaredNums(item) THEN DeclaredEntry(item, n) ELSE entries[n]]

\* The table after all entries of a revision went through SetEntry.
Merge(entries, item) ==
  [n \in DOMAIN entries |->
     IF n \in DeclaredNums(item) /\ Untouched(entries[n])
     THEN DeclaredEntry(item, n)
     ELSE entries[n]]

-----------------------------------------------------------------------------
(* The forms that a revision of a file has.                                 *)

\* Sections are not empty.
HasSections(it) ==
  /\ Len(it.sections) \in Nat
  /\ \A k \in 1..Len(it.sections) :
       it.sections[k].first \in Nat /\ Len(it.sections[k].entries) \in Nat \ {0}

\* start[k] entries stand before those of pair k, and the pairs divide the data.
Divides(start, it) ==
  /\ start[1] = 0
  /\ \A k \in 1..Len(it.index) : start[k + 1] = start[k] + it.index[k][2]
  /\ start[Len(it.index) + 1] = Len(it.data)

\* Pairs are not empty, and they are made for the entries.
HasPairs(it) ==
  /\ Len(it.index) \in Nat /\ Len(it.data) \in Nat
  /\ \A k \in 1..Len(it.index) : it.index[k][1] \in Nat /\ it.index[k][2] \in Nat \ {0}
  /\ \E start \in [1..(Len(it.index) + 1) -> 0..Len(it.data)] : Divides(start, it)

\* The numbers of a section, or of a pair.
SectionNums(it, k) ==
  IF it.kind = "table"
  THEN it.sections[k].first .. it.sections[k].first + Len(it.sections[k].entries) - 1
  ELSE it.index[k][1] .. it.index[k][1] + it.index[k][2] - 1

SectionsOf(it) == 1..Len(IF it.kind = "table" THEN it.sections ELSE it.index)

\* A revision declares a number once.
DeclaresOnce(it) ==
  \A k, l \in SectionsOf(it) : SectionNums(it, k) \intersect SectionNums(it, l) # {} => k = l
=============================================================================
