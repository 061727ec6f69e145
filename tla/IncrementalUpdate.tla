-------------------------- MODULE IncrementalUpdate --------------------------
(***************************************************************************)
(* A document from opening to saving and opening again: the loader of      *)
(* XrefChain reads the file, the log of Modif collects edits, and          *)
(* pindf_doc_save_modif (pindf.c:1091-1286) appends the edited objects and *)
(* a new revision of the cross-reference table, as a table or as a stream. *)
(***************************************************************************)
EXTENDS XrefFormat

CONSTANTS
  Objs,        \* heap cells of indirect objects
  Vals,        \* contents of objects
  None,        \* no content
  MaxNum,      \* bound: the largest object number the caller uses
  MaxItems,    \* bound: the largest number of items in a file
  Originals,   \* the files a document may start from
  Outputs      \* what the caller has put in the output before saving

Nums == 0..MaxNum
Gens == {0, 1}

ASSUME OutputsAssumption == Outputs \subseteq {"copy", "append"}

ASSUME NumsAssumption == MaxNum \in Nat

\* An entry in use of the revision at offset o: its object was written before the
\* revision, or it is the xref stream itself, and has the number of the entry.
PointsHome(f, o, n, e) ==
  e.type = N =>
    /\ e.fields[1] \in 1..o
    /\ f[e.fields[1]].gen \in Gens /\ f[e.fields[1]].val \in Vals \union {None}
    /\ f[e.fields[1]].kind = "obj" => f[e.fields[1]].num = n

IsRevision(f, o) ==
  /\ f[o].size \in Nat \ {0}
  /\ f[o].prev # NoPrev => f[o].prev \in 1..(o - 1) /\ IsXref(f[f[o].prev])
  /\ f[o].kind = "table" => HasSections(f[o])
  /\ f[o].kind = "stream" => HasPairs(f[o])
  /\ DeclaresOnce(f[o])
  /\ \A n \in DeclaredNums(f[o]) : PointsHome(f, o, n, DeclaredEntry(f[o], n))

\* A file that grew by appending objects and a revision that describes them, any
\* number of times.  No revision has to fit in the /Size of the newest one.
IsFile(f) ==
  /\ Len(f) \in Nat \ {0}
  /\ f = [o \in 1..Len(f) |-> f[o]]
  /\ IsXref(f[Len(f)])
  /\ \A o \in 1..Len(f) : IsXref(f[o]) => IsRevision(f, o)

ASSUME OriginalsAssumption == \A f \in Originals : IsFile(f)

VARIABLES
  file,                            \* the file, or the output last saved to
  prev, size, entries, status,     \* the loader, see XrefChain
  xref_offset,                     \* doc->xref_offset
  alive, log, count, max_obj_num, msize, cell, num,   \* see Modif
  content                          \* generation and value of each heap cell in use

loader == <<prev, size, entries, status, xref_offset>>
modif == <<alive, log, count, max_obj_num, msize, cell, num>>
vars == <<file, loader, modif, content>>

Loader == INSTANCE XrefChain WITH Files <- Originals
Modif == INSTANCE Modif WITH Sizes <- 1..(MaxNum + 3), size <- msize

\* An offset that is not in the file: no document is open.
Closed == 0

\* The content of a cell that nobody owns.
Nothing == [gen |-> 0, val |-> None]

Freed == [o \in Objs |-> IF cell'[o] = "free" THEN Nothing ELSE content[o]]

Init ==
  /\ file \in Originals
  /\ prev = NoPrev /\ size = NoXref /\ entries = BlankTable(0)
  /\ status = "closed"
  /\ xref_offset = Closed
  /\ alive = FALSE /\ log = <<>> /\ count = 0 /\ max_obj_num = 0 /\ msize = 0
  /\ cell = [o \in Objs |-> "free"]
  /\ num = [o \in Objs |-> Modif!NoNum]
  /\ content = [o \in Objs |-> Nothing]

-----------------------------------------------------------------------------
(* Opening: pindf_file_parse finds startxref and loads the revisions.       *)

Open ==
  /\ status = "closed"
  /\ xref_offset' = Len(file)
  /\ prev' = Len(file)
  /\ size' = NoXref /\ entries' = BlankTable(0)
  /\ status' = "reading"
  /\ UNCHANGED <<file, modif, content>>

LoadRevision == Loader!ReadRevision /\ UNCHANGED <<xref_offset, modif, content>>

\* The assertion in pindf_xref_alloc_section ends the program.
LoadAborts == Loader!Overflow /\ UNCHANGED <<xref_offset, modif, content>>

-----------------------------------------------------------------------------
(* Editing                                                                 *)

\* pindf_doc_getobj: the object at the offset that the table gives, without a
\* check of its number.
ObjectAt(o) == file[o].val
Lookup(n) ==
  IF n < size /\ entries[n].type = N THEN ObjectAt(entries[n].fields[1]) ELSE None

\* Mutant: the offset is taken for the generation.
GenOfOffset(n) ==
  IF n < size /\ entries[n].type = N THEN entries[n].fields[1] ELSE 0

\* An edited object keeps its generation, a new one has generation 0.
GenOf(n) ==
  IF n < size /\ entries[n].type = N THEN file[entries[n].fields[1]].gen ELSE 0

\* doc->modif = pindf_modif_new(doc->xref->size)
NewLog ==
  /\ status = "done"
  /\ Modif!New(size)
  /\ UNCHANGED <<file, loader, content>>

\* The caller edits an object it can read or gives the next number to a new one;
\* it adds the object before it makes another.
MakeObject(o, n, v) ==
  /\ status = "done" /\ alive
  /\ \A c \in Objs : cell[c] # "caller"
  /\ Lookup(n) # None \/ n \in Modif!LogNums \/ n = max_obj_num + 1
  /\ Modif!MakeIndObj(o, n)
  /\ content' = [content EXCEPT ![o] = [gen |-> GenOf(n), val |-> v]]
  /\ UNCHANGED <<file, loader>>

AddEntry(o) ==
  /\ status = "done"
  /\ Modif!AddEntry(o)
  /\ content' = Freed
  /\ UNCHANGED <<file, loader>>

-----------------------------------------------------------------------------
(* pindf_doc_save_modif                                                    *)

\* Where fp stands: behind a copy of the file that was opened, or behind the
\* output of an earlier save.  The code writes there and copies nothing itself.
Base(output) == IF output = "copy" THEN SubSeq(file, 1, xref_offset) ELSE file

\* Step 1: the objects of the log, in its order.
SavedObject(i) ==
  LET o == log[i].ind_obj IN
  [kind |-> "obj", num |-> num[o], gen |-> content[o].gen, val |-> content[o].val]

SavedObjects == [i \in 1..Len(log) |-> SavedObject(i)]

\* Mutant: all nodes are put in one section.
StartsRunAtFirst(i) == i = 1

\* The places of the log where a section begins: the number is not the one
\* that would continue the section (section_obj_num + section_len).
StartsRun(i) == i = 1 \/ log[i].obj_num # log[i - 1].obj_num + 1

Starts ==
  LET upto[i \in 0..Len(log)] ==
        IF i = 0 THEN <<>> ELSE IF StartsRun(i) THEN Append(upto[i - 1], i) ELSE upto[i - 1]
  IN  upto[Len(log)]

RunLength(k) ==
  (IF k = Len(Starts) THEN Len(log) + 1 ELSE Starts[k + 1]) - Starts[k]

FirstNum(k) == log[Starts[k]].obj_num

\* start_pos of the object of node i.
StartPos(base, i) == Len(base) + i

\* Step 2, xref table: sections with the generation of each object.
TableSections(base) ==
  [k \in 1..Len(Starts) |->
     [first |-> FirstNum(k),
      entries |-> [j \in 1..RunLength(k) |->
                     LET i == Starts[k] + j - 1 IN
                     Entry(N, StartPos(base, i), content[log[i].ind_obj].gen)]]]

\* Mutant: the stream is numbered like the last object.
OwnNumTaken == max_obj_num

\* The number of the xref stream object.
OwnNum == max_obj_num + 1

\* Step 2, xref stream: an index of sections, the entries with generation 0,
\* and at the end the entry of the stream itself.
StreamIndex ==
  [k \in 1..Len(Starts) |-> <<FirstNum(k), RunLength(k)>>] \o << <<OwnNum, 1>> >>

StreamData(base) ==
  [i \in 1..Len(log) |-> Entry(N, StartPos(base, i), 0)]
    \o <<Entry(N, Len(base) + Len(log) + 1, 0)>>

\* Mutant: /Size leaves no room for the stream.
NewSizeTight == max_obj_num + 1

\* /Size of the new trailer, for a table and for a stream.
NewSize == max_obj_num + 2

NewXref(compress, base) ==
  IF compress
  THEN [kind |-> "stream", size |-> NewSize, prev |-> xref_offset,
        index |-> StreamIndex, data |-> StreamData(base), gen |-> 0, val |-> None]
  ELSE [kind |-> "table", size |-> NewSize, prev |-> xref_offset,
        sections |-> TableSections(base)]

\* The log and the document stay as they are: a second save writes it all again.
Save(compress, output) ==
  /\ status = "done" /\ alive
  /\ LET base == Base(output) IN
       /\ Len(base) + Len(log) + 1 <= MaxItems
       /\ file' = (base \o SavedObjects) \o <<NewXref(compress, base)>>
  /\ UNCHANGED <<loader, modif, content>>

-----------------------------------------------------------------------------
(* pindf_doc_destroy                                                       *)

CloseDoc ==
  /\ status = "done"
  /\ IF alive THEN Modif!Destroy ELSE UNCHANGED modif
  /\ prev' = NoPrev /\ size' = NoXref /\ entries' = BlankTable(0)
  /\ status' = "closed" /\ xref_offset' = Closed
  /\ content' = Freed
  /\ UNCHANGED file

Next ==
  \/ Open \/ LoadRevision \/ LoadAborts \/ NewLog \/ CloseDoc
  \/ \E o \in Objs, n \in Nums, v \in Vals : MakeObject(o, n, v)
  \/ \E o \in Objs : AddEntry(o)
  \/ \E compress \in BOOLEAN, output \in Outputs : Save(compress, output)

Spec == Init /\ [][Next]_vars

-----------------------------------------------------------------------------
(* Properties                                                              *)

TypeOK ==
  /\ prev \in {NoPrev} \union 1..Len(file)
  /\ status \in {"closed", "reading", "done", "aborted"}
  /\ xref_offset \in 0..Len(file)
  /\ Modif!TypeOK
  /\ content \in [Objs -> [gen : Gens, val : Vals \union {None}]]

AllNums == 0..(MaxNum + 3)

NoEntries == [n \in AllNums |-> BlankEntry]

\* What the revisions of a file hold together, from the oldest to the one at each
\* offset: for each number the entry of the newest revision that declares one.
Tables(f) ==
  LET upto[o \in 1..Len(f)] ==
        IF ~IsXref(f[o]) THEN NoEntries
        ELSE LET older == IF f[o].prev = NoPrev THEN NoEntries ELSE upto[f[o].prev]
                 own == {d \in Declared(f[o]) : ~Untouched(d.entry)}
             IN  [n \in AllNums |->
                    IF \E d \in own : d.num = n
                    THEN (CHOOSE d \in own : d.num = n).entry ELSE older[n]]
  IN  upto

TableOf(f) == Tables(f)[Len(f)]

\* The contents that a file holds.
StoreOf(f) ==
  LET table == TableOf(f) IN
  [n \in AllNums |-> IF table[n].type = N /\ n < f[Len(f)].size
                     THEN f[table[n].fields[1]].val ELSE None]

PendingEdits ==
  [n \in Modif!LogNums |-> content[Modif!PendingMap[n]].val]

Store == INSTANCE DocStore WITH
  Nums <- AllNums, stored <- StoreOf(file),
  pending <- PendingEdits

\* Saving overrides exactly the edited objects and nothing else changes what a
\* reader of the file finds, through any number of edits, saves and sessions.
ImplementsStore == Store!Spec

\* An open document shows what the file it was opened from holds.
OpenShowsFile ==
  status = "done" =>
    [n \in AllNums |-> Lookup(n)] = StoreOf(SubSeq(file, 1, xref_offset))

\* The number after max_obj_num belongs to no object of the file and of the log,
\* so a new object or the xref stream takes nothing away.
NextNumberIsUnused ==
  alive => \A n \in Nums : n > max_obj_num => Lookup(n) = None /\ n \notin Modif!LogNums

\* What was saved can be opened: no revision exceeds the newest /Size, and a
\* file that stops the program was not written by the library.
NeverOverflows == status = "aborted" => file \in Originals

\* Every entry in use points at the object that has its number.
EntriesPointHome ==
  status = "done" =>
    \A n \in 0..(size - 1) :
      entries[n].type = N /\ file[entries[n].fields[1]].kind = "obj"
        => file[entries[n].fields[1]].num = n
=============================================================================
