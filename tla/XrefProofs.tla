------------------------------ MODULE XrefProofs ------------------------------
(***************************************************************************)
(* Proofs about the loading of a cross-reference table: reading stays in    *)
(* bounds, and the overflow assertion holds, for any number of revisions    *)
(* with sections and /Index pairs of any lengths.  The inductive invariant   *)
(* IInv says where first and i stand among the places at which the pairs     *)
(* begin.  MInv adds that exactly what was read of a revision is merged      *)
(* into the table, so that Xref implements XrefChain; NInv that the table    *)
(* has the newest entries of the revisions merged so far.                    *)
(***************************************************************************)
EXTENDS Xref, XrefFormatProofs, TLAPS

NewestSize == file[Len(file)].size

Positions ==
  /\ file \in Files
  /\ pc \in {"seek", "sections", "data", "done", "failed", "aborted"}
  /\ at \in 1..Len(file)
  /\ prev \in {NoPrev} \union 1..Len(file)
  /\ pc = "seek" => prev # NoPrev

\* The table is made for the first revision that is read.
Sized ==
  /\ size \in {NoXref, NewestSize}
  /\ size = NoXref /\ pc = "seek" => prev = Len(file)
  /\ pc \in {"sections", "data"} => size = NewestSize
  /\ size = NewestSize => DOMAIN entries = 0..(size - 1)

InSections == pc = "sections" => item.kind = "table" /\ i \in 0..Len(item.sections)

\* first is the place where the current pair begins, and i lies in it, or everything
\* was read.
At(start) ==
  /\ cur \in 0..Len(item.index)
  /\ first = start[cur + 1]
  /\ i \in first..Len(item.data)
  /\ IF cur < Len(item.index) THEN i < start[cur + 2] ELSE i = Len(item.data)

\* The section of a pair was allocated when its first entry was read.
Allocated == i > first => Fits(Index[1], Index[2], size)

InData ==
  pc = "data" =>
    /\ item.kind = "stream"
    /\ Allocated
    /\ \E start \in [1..(Len(item.index) + 1) -> 0..Len(item.data)] : Divides(start, item) /\ At(start)

IInv == Positions /\ Sized /\ InSections /\ InData /\ NoOverflow

-----------------------------------------------------------------------------

\* What the assumption says of a revision of an open file.
LEMMA ItemOf ==
  ASSUME Positions, NEW o \in 1..Len(file)
  PROVE  /\ Len(file) \in Nat \ {0}
         /\ file[o].size \in Nat
         /\ file[o].prev \in {NoPrev} \union 1..Len(file)
         /\ file[o].kind = "table" => HasSections(file[o])
         /\ file[o].kind = "stream" => HasPairs(file[o])
BY FilesAssumption DEF Positions

LEMMA NewestItem == ASSUME Positions PROVE Len(file) \in 1..Len(file) /\ NewestSize \in Nat
<1>1. Len(file) \in 1..Len(file)
  BY FilesAssumption DEF Positions
<1>2. QED
  BY <1>1, ItemOf DEF NewestSize

-----------------------------------------------------------------------------

LEMMA InitIInv == Init => IInv
<1> SUFFICES ASSUME Init PROVE IInv
  OBVIOUS
<1> USE DEF Init
<1>1. Positions
  BY FilesAssumption DEF Positions, NoPrev
<1>2. NewestSize \in Nat
  BY <1>1, NewestItem
<1>3. Sized
  BY <1>2 DEF Sized, NoXref
<1>4. InSections /\ InData /\ NoOverflow
  BY DEF InSections, InData, NoOverflow
<1>5. QED
  BY <1>1, <1>3, <1>4 DEF IInv

\* A revision is begun: the table exists from now on.
LEMMA BeginSizes ==
  ASSUME IInv, pc = "seek", NEW next_pc, Begin(next_pc)
  PROVE  /\ size' = NewestSize
         /\ DOMAIN entries' = 0..(size' - 1)
<1>1. Positions
  BY DEF IInv
<1>2. NewestSize \in Nat
  BY <1>1, NewestItem
<1>3. CASE size = NoXref
  <2>1. prev = Len(file)
    BY <1>3 DEF IInv, Sized
  <2>2. size' = file[prev].size /\ entries' = BlankTable(file[prev].size)
    BY <1>3 DEF Begin, AllocXref
  <2>3. QED
    BY <2>1, <2>2 DEF BlankTable, NewestSize
<1>4. CASE size # NoXref
  BY <1>4 DEF IInv, Sized, Begin, AllocXref
<1>5. QED
  BY <1>3, <1>4

LEMMA BeginTableStep == IInv /\ BeginTable => IInv'
<1> SUFFICES ASSUME IInv, BeginTable PROVE IInv'
  OBVIOUS
<1>1. pc = "seek" /\ Begin("sections") /\ Positions /\ file[prev].kind = "table"
  BY DEF BeginTable, IInv
<1>2. prev \in 1..Len(file) /\ pc' = "sections" /\ file' = file /\ at' = prev /\ prev' = prev
  BY <1>1 DEF Begin, Positions
<1>3. Positions'
  BY <1>1, <1>2 DEF Positions
<1>4. Sized'
  BY <1>1, <1>2, BeginSizes DEF Sized, NewestSize
<1>5. InSections'
  <2>1. HasSections(file[prev])
    BY <1>1, <1>2, ItemOf
  <2>2. QED
    BY <1>1, <1>2, <2>1 DEF InSections, item, Begin, HasSections
<1>6. InData' /\ NoOverflow'
  BY <1>2 DEF InData, NoOverflow
<1>7. QED
  BY <1>3, <1>4, <1>5, <1>6 DEF IInv

LEMMA BeginStreamStep == IInv /\ BeginStream => IInv'
<1> SUFFICES ASSUME IInv, BeginStream PROVE IInv'
  OBVIOUS
<1>1. pc = "seek" /\ Begin("data") /\ Positions /\ file[prev].kind = "stream"
  BY DEF BeginStream, IInv
<1>2. prev \in 1..Len(file) /\ pc' = "data" /\ file' = file /\ at' = prev /\ prev' = prev
  BY <1>1 DEF Begin, Positions
<1>3. Positions'
  BY <1>1, <1>2 DEF Positions
<1>4. Sized'
  BY <1>1, <1>2, BeginSizes DEF Sized, NewestSize
<1> DEFINE it == file[prev]
<1>5. item' = it /\ i' = 0 /\ cur' = 0 /\ first' = 0
  BY <1>1, <1>2 DEF item, Begin
<1>6. HasPairs(it)
  BY <1>1, <1>2, ItemOf
<1>7. PICK start \in [1..(Len(it.index) + 1) -> 0..Len(it.data)] : Divides(start, it)
  BY <1>6 DEF HasPairs
<1>8. At(start)'
  <2>1. Len(it.index) \in Nat /\ Len(it.data) \in Nat /\ start[1] = 0
    BY <1>6, <1>7 DEF HasPairs, Divides
  <2>2. CASE Len(it.index) = 0
    BY <2>1, <2>2, <1>5, <1>7 DEF At, Divides
  <2>3. CASE Len(it.index) # 0
    <3>1. 1 \in 1..Len(it.index)
      BY <2>1, <2>3
    <3>2. start[2] = start[1] + it.index[1][2] /\ it.index[1][2] \in Nat \ {0}
      BY <3>1, <1>6, <1>7 DEF Divides, HasPairs
    <3>3. QED
      BY <2>1, <3>1, <3>2, <1>5 DEF At
  <2>4. QED
    BY <2>2, <2>3
<1>9. InData'
  BY <1>1, <1>2, <1>5, <1>7, <1>8 DEF InData, Allocated
<1>10. InSections' /\ NoOverflow'
  BY <1>2 DEF InSections, NoOverflow
<1>11. QED
  BY <1>3, <1>4, <1>9, <1>10 DEF IInv

\* The end of a revision.
LEMMA EndStep == ASSUME IInv, EndRevision, pc \in {"sections", "data"} PROVE IInv'
<1>1. file' = file /\ at' = at /\ size' = size /\ entries' = entries
  BY DEF EndRevision
<1>2. Positions /\ at \in 1..Len(file)
  BY DEF IInv, Positions
<1>3. prev' \in {NoPrev} \union 1..Len(file)
  BY <1>2, ItemOf DEF EndRevision, NextRevision, item
<1>4. pc' \in {"done", "seek"} /\ (pc' = "seek" => prev' # NoPrev)
  BY DEF EndRevision
<1>5. Positions'
  BY <1>1, <1>2, <1>3, <1>4 DEF Positions
<1>6. Sized'
  <2>1. NewestSize \in Nat
    BY <1>2, NewestItem
  <2>2. QED
    BY <1>1, <1>4, <2>1 DEF IInv, Sized, NewestSize, NoXref
<1>7. InSections' /\ InData' /\ NoOverflow'
  BY <1>4 DEF InSections, InData, NoOverflow
<1>8. QED
  BY <1>5, <1>6, <1>7 DEF IInv

\* Reading goes no further, be it by the assertion or by a negative return.
LEMMA StopStep ==
  ASSUME IInv, pc' \in {"failed", "aborted"}, UNCHANGED <<file, at, prev, size, entries>>
  PROVE  Positions' /\ Sized' /\ InSections' /\ InData'
BY DEF IInv, Positions, Sized, InSections, InData, NewestSize

\* The assertion stops the program for a number past the table only.
LEMMA AbortStep ==
  ASSUME IInv, Abort, pc \in {"sections", "data"}, IsXref(item),
         NEW n \in DeclaredNums(item), ~(n < size)
  PROVE  IInv'
<1>1. pc' = "aborted" /\ UNCHANGED <<file, at, prev, size, entries>>
  BY DEF Abort
<1>2. Positions' /\ Sized' /\ InSections' /\ InData'
  BY <1>1, StopStep
<1>3. size = file[Len(file)].size /\ at \in 1..Len(file)
  BY DEF IInv, Sized, Positions, NewestSize
<1>4. ~ (\A o \in 1..Len(file) : IsXref(file[o]) =>
           \A m \in DeclaredNums(file[o]) : m < file[Len(file)].size)
  BY <1>3 DEF item
<1>5. NoOverflow'
  BY <1>1, <1>4 DEF NoOverflow
<1>6. QED
  BY <1>2, <1>5 DEF IInv

LEMMA TableSectionStep == IInv /\ TableSection => IInv'
<1> SUFFICES ASSUME IInv, TableSection PROVE IInv'
  OBVIOUS
<1>1. pc = "sections" /\ Positions /\ at \in 1..Len(file) /\ item.kind = "table"
  BY DEF TableSection, IInv, Positions, InSections
<1>2. HasSections(item)
  BY <1>1, ItemOf DEF item
<1>3. i \in 0..Len(item.sections) /\ i < Len(item.sections) /\ Len(item.sections) \in Nat
  BY <1>1, <1>2 DEF TableSection, IInv, InSections, HasSections
<1>4. i + 1 \in 1..Len(item.sections)
  BY <1>3
<1>5. CASE Fits(Section.first, Len(Section.entries), size)
  <2>1. entries' = SetLines(entries, Section) /\ i' = i + 1
        /\ UNCHANGED <<file, pc, at, prev, size>>
    BY <1>5 DEF TableSection
  <2>2. Positions'
    BY <1>1, <2>1 DEF Positions
  <2>3. DOMAIN entries' = DOMAIN entries
    BY <2>1 DEF SetLines
  <2>4. Sized'
    BY <1>1, <2>1, <2>3 DEF IInv, Sized, NewestSize
  <2>5. InSections'
    BY <1>1, <1>3, <2>1 DEF InSections, item
  <2>6. InData' /\ NoOverflow'
    BY <1>1, <2>1 DEF InData, NoOverflow
  <2>7. QED
    BY <2>2, <2>4, <2>5, <2>6 DEF IInv
<1>6. CASE ~Fits(Section.first, Len(Section.entries), size)
  <2> DEFINE n == Section.first + Len(Section.entries) - 1
  <2>1. n \in DeclaredNums(item)
    BY <1>1, <1>2, <1>4, DeclaresLastOfSection DEF Section
  <2>2. Section.first \in Nat /\ Len(Section.entries) \in Nat
    BY <1>2, <1>4 DEF Section, HasSections
  <2>3. size \in Nat
    BY <1>1, NewestItem DEF IInv, Sized
  <2>4. ~(n < size)
    BY <1>6, <2>2, <2>3 DEF Fits
  <2>5. Abort
    BY <1>6 DEF TableSection
  <2>6. QED
    BY <1>1, <2>1, <2>4, <2>5, AbortStep DEF IsXref
<1>7. QED
  BY <1>5, <1>6

\* What an entry of a stream is read with.
LEMMA DataFacts ==
  ASSUME IInv, pc = "data", i < Len(item.data)
  PROVE  /\ Positions /\ HasPairs(item) /\ item.kind = "stream"
         /\ size = NewestSize /\ size \in Nat
         /\ cur + 1 \in 1..Len(item.index) /\ cur \in Nat
         /\ Index[1] \in Nat /\ Index[2] \in Nat \ {0}
         /\ i \in Nat /\ first \in Nat /\ first <= i /\ i < first + Index[2]
         /\ Len(item.data) \in Nat
<1>1. Positions /\ at \in 1..Len(file) /\ item.kind = "stream"
  BY DEF IInv, Positions, InData
<1>2. HasPairs(item)
  BY <1>1, ItemOf DEF item
<1>3. size = NewestSize /\ size \in Nat
  BY <1>1, NewestItem DEF IInv, Sized
<1>4. PICK start \in [1..(Len(item.index) + 1) -> 0..Len(item.data)] :
        Divides(start, item) /\ At(start)
  BY DEF IInv, InData
<1>5. Len(item.index) \in Nat /\ Len(item.data) \in Nat
  BY <1>2 DEF HasPairs
<1>6. cur \in Nat /\ cur < Len(item.index) /\ i < start[cur + 2] /\ first = start[cur + 1]
  BY <1>4, <1>5 DEF At
<1>7. cur + 1 \in 1..Len(item.index)
  BY <1>5, <1>6
<1>8. Index[1] \in Nat /\ Index[2] \in Nat \ {0}
  BY <1>2, <1>7 DEF HasPairs, Index
<1>9. start[(cur + 1) + 1] = start[cur + 1] + Index[2]
  BY <1>4, <1>7 DEF Divides, Index
<1>10. first \in Nat /\ i \in Nat /\ first <= i
  BY <1>4, <1>5, <1>6, <1>7 DEF At
<1>11. QED
  BY <1>1, <1>2, <1>3, <1>5, <1>6, <1>7, <1>8, <1>9, <1>10

LEMMA StreamEntryStep == IInv /\ StreamEntry => IInv'
<1> SUFFICES ASSUME IInv, StreamEntry PROVE IInv'
  OBVIOUS
<1>1. pc = "data" /\ i < Len(item.data) /\ SectionReady /\ i' = i + 1
      /\ UNCHANGED <<file, pc, at, prev, size>> /\ item' = item
  BY DEF StreamEntry, item
<1>2. /\ Positions /\ HasPairs(item) /\ item.kind = "stream"
      /\ cur + 1 \in 1..Len(item.index) /\ cur \in Nat
      /\ Index[2] \in Nat \ {0}
      /\ i \in Nat /\ first \in Nat /\ first <= i /\ i < first + Index[2]
      /\ Len(item.data) \in Nat
  BY <1>1, DataFacts
<1>3. Positions'
  BY <1>1, <1>2 DEF Positions
<1>4. DOMAIN entries' = DOMAIN entries
  BY DEF StreamEntry, SetEntry
<1>5. Sized'
  BY <1>1, <1>4 DEF IInv, Sized, NewestSize
<1>6. Fits(Index[1], Index[2], size)
  BY <1>1, <1>2 DEF SectionReady, IInv, InData, Allocated
<1>7. PICK start \in [1..(Len(item.index) + 1) -> 0..Len(item.data)] :
        Divides(start, item) /\ At(start)
  BY <1>1 DEF IInv, InData
<1>8. Len(item.index) \in Nat
  BY <1>2 DEF HasPairs
<1>9. start[cur + 2] = first + Index[2]
  <2>1. start[(cur + 1) + 1] = start[cur + 1] + Index[2]
    BY <1>2, <1>7 DEF Divides, Index
  <2>2. QED
    BY <1>2, <2>1, <1>7 DEF At
<1>10. Allocated' /\ At(start)'
  <2>1. CASE PairFull(i + 1)
    <3>1. cur' = cur + 1 /\ first' = i + 1
      BY <2>1 DEF StreamEntry
    <3>2. i + 1 = start[cur + 2]
      BY <2>1, <1>2, <1>9 DEF PairFull
    <3>3. Allocated'
      BY <3>1, <1>1, <1>2 DEF Allocated
    <3>4. CASE cur' < Len(item.index)
      <4>1. cur + 2 \in 1..Len(item.index)
        BY <3>1, <3>4, <1>2, <1>8
      <4>2. start[(cur + 2) + 1] = start[cur + 2] + item.index[cur + 2][2]
            /\ item.index[cur + 2][2] \in Nat \ {0}
        BY <4>1, <1>2, <1>7 DEF Divides, HasPairs
      <4>3. i' < start[cur' + 2]
        BY SMTT(30), <3>1, <3>2, <4>2, <1>1, <1>2
      <4>4. QED
        BY <3>1, <3>2, <3>3, <3>4, <4>3, <1>1, <1>2, <1>8 DEF At
    <3>5. CASE ~(cur' < Len(item.index))
      <4>1. cur + 1 = Len(item.index)
        BY <3>1, <3>5, <1>2, <1>8
      <4>2. start[Len(item.index) + 1] = Len(item.data)
        BY <1>7 DEF Divides
      <4>3. i' = Len(item.data)
        BY <4>1, <4>2, <3>2, <1>1, <1>2
      <4>4. cur' \in 0..Len(item.index) /\ first' = start[cur' + 1]
        BY <3>1, <3>2, <4>1, <1>2, <1>8
      <4>5. i' \in first'..Len(item.data)
        BY <3>1, <4>3, <1>1, <1>2
      <4>6. QED
        BY <3>3, <3>5, <4>3, <4>4, <4>5, <1>1 DEF At
    <3>6. QED
      BY <3>3, <3>4, <3>5
  <2>2. CASE ~PairFull(i + 1)
    <3>1. cur' = cur /\ first' = first
      BY <2>2 DEF StreamEntry
    <3>2. i + 1 < start[cur + 2] /\ cur < Len(item.index)
      BY <2>2, <1>2, <1>8, <1>9 DEF PairFull
    <3>3. Allocated'
      BY <3>1, <1>1, <1>6 DEF Allocated, Index
    <3>4. At(start)'
      BY <3>1, <3>2, <1>1, <1>2, <1>7 DEF At
    <3>5. QED
      BY <3>3, <3>4
  <2>3. QED
    BY <2>1, <2>2
<1>11. InData'
  BY <1>1, <1>2, <1>7, <1>10 DEF InData, Divides
<1>12. InSections' /\ NoOverflow'
  BY <1>1 DEF InSections, NoOverflow
<1>13. QED
  BY <1>3, <1>5, <1>11, <1>12 DEF IInv

LEMMA StreamOverflowStep == IInv /\ StreamOverflow => IInv'
<1> SUFFICES ASSUME IInv, StreamOverflow PROVE IInv'
  OBVIOUS
<1> DEFINE n == Index[1] + Index[2] - 1
<1>1. pc = "data" /\ i < Len(item.data) /\ ~SectionReady /\ Abort
  BY DEF StreamOverflow
<1>2. /\ HasPairs(item) /\ item.kind = "stream" /\ size \in Nat
      /\ cur + 1 \in 1..Len(item.index) /\ Index[1] \in Nat /\ Index[2] \in Nat \ {0}
  BY <1>1, DataFacts
<1>3. n \in DeclaredNums(item)
  BY <1>2, DeclaresLastOfPair DEF Index
<1>4. ~(n < size)
  BY <1>1, <1>2 DEF SectionReady, Fits
<1>5. QED
  BY <1>1, <1>2, <1>3, <1>4, AbortStep DEF IsXref

LEMMA MalformedStep == IInv /\ Malformed => IInv'
<1> SUFFICES ASSUME IInv, Malformed PROVE IInv'
  OBVIOUS
<1>1. pc' = "failed" /\ UNCHANGED <<file, at, prev, size, entries>>
  BY DEF Malformed
<1>2. NoOverflow'
  BY <1>1 DEF NoOverflow
<1>3. QED
  BY <1>1, <1>2, StopStep DEF IInv

LEMMA StutterStep == IInv /\ UNCHANGED vars => IInv'
BY DEF vars, IInv, Positions, Sized, InSections, InData, NoOverflow, NewestSize, item,
       Allocated, At, Index, Divides

LEMMA NextIInv == IInv /\ [Next]_vars => IInv'
<1> SUFFICES ASSUME IInv, [Next]_vars PROVE IInv'
  OBVIOUS
<1>1. CASE BeginTable
  BY <1>1, BeginTableStep
<1>2. CASE TableSection
  BY <1>2, TableSectionStep
<1>3. CASE TableEnd
  BY <1>3, EndStep DEF TableEnd
<1>4. CASE BeginStream
  BY <1>4, BeginStreamStep
<1>5. CASE StreamEntry
  BY <1>5, StreamEntryStep
<1>6. CASE StreamOverflow
  BY <1>6, StreamOverflowStep
<1>7. CASE StreamEnd
  BY <1>7, EndStep DEF StreamEnd
<1>8. CASE Malformed
  BY <1>8, MalformedStep
<1>9. CASE UNCHANGED vars
  BY <1>9, StutterStep
<1>10. QED
  BY <1>1, <1>2, <1>3, <1>4, <1>5, <1>6, <1>7, <1>8, <1>9 DEF Next

LEMMA IInvInBounds == IInv => InBounds
<1> SUFFICES ASSUME IInv, pc = "data", i < Len(item.data)
             PROVE  /\ cur < Len(item.index)
                    /\ i - first \in 0..(Index[2] - 1)
                    /\ i > first => NumberOfEntry \in DOMAIN entries
  BY DEF InBounds
<1>1. /\ size = NewestSize /\ size \in Nat /\ HasPairs(item)
      /\ cur + 1 \in 1..Len(item.index) /\ cur \in Nat
      /\ Index[1] \in Nat /\ Index[2] \in Nat \ {0}
      /\ i \in Nat /\ first \in Nat /\ first <= i /\ i < first + Index[2]
  BY DataFacts
<1>2. cur < Len(item.index)
  BY <1>1 DEF HasPairs
<1>3. i - first \in 0..(Index[2] - 1)
  BY <1>1
<1>4. ASSUME i > first PROVE NumberOfEntry \in DOMAIN entries
  <2>1. DOMAIN entries = 0..(size - 1)
    BY <1>1 DEF IInv, Sized
  <2>2. Fits(Index[1], Index[2], size)
    BY <1>4 DEF IInv, InData, Allocated
  <2>3. NumberOfEntry \in 0..(size - 1)
    BY SMTT(30), <1>1, <2>2 DEF Fits, NumberOfEntry
  <2>4. QED
    BY <2>1, <2>3
<1>5. QED
  BY <1>2, <1>3, <1>4

-----------------------------------------------------------------------------

\* Whatever the revisions and their sections, pindf_parse_xref_obj reads only pairs that
\* index_pairs has and writes only entries of the table that its sections allow.
THEOREM ReadsInBounds == Spec => []InBounds
<1>1. Init => IInv
  BY InitIInv
<1>2. IInv /\ [Next]_vars => IInv'
  BY NextIInv
<1>3. IInv => InBounds
  BY IInvInBounds
<1>4. QED
  BY <1>1, <1>2, <1>3, PTL DEF Spec

\* A file of any number of revisions whose newest /Size covers all of them is never
\* stopped by the assertion of pindf_xref_alloc_section.
THEOREM NeverAborts == Spec => []NoOverflow
<1>1. Init => IInv
  BY InitIInv
<1>2. IInv /\ [Next]_vars => IInv'
  BY NextIInv
<1>3. IInv => NoOverflow
  BY DEF IInv
<1>4. QED
  BY <1>1, <1>2, <1>3, PTL DEF Spec

-----------------------------------------------------------------------------
(* Reading entry by entry merges a revision: the invariant.                *)

\* The table that the revision is merged into.
Before == IF base.size = NoXref THEN BlankTable(item.size) ELSE base.entries

\* Whether the entry of number n in section or pair k has been read.
IsRead(k, n) ==
  /\ n \in SectionNums(item, k)
  /\ IF item.kind = "table" THEN k <= i
     ELSE PairStart(item.index)[k] + (n - item.index[k][1]) <= i

\* The entries read so far are set where the older table has none, the others are not.
MergedSoFar ==
  /\ entries = [n \in DOMAIN Before |-> entries[n]]
  /\ \A n \in DOMAIN Before :
       /\ \A k \in SectionsOf(item) :
            IsRead(k, n) /\ Untouched(Before[n]) => entries[n] = EntryIn(item, k, n)
       /\ ~Untouched(Before[n]) \/ (\A k \in SectionsOf(item) : ~IsRead(k, n))
            => entries[n] = Before[n]

FitSoFar ==
  IF item.kind = "table"
  THEN \A k \in 1..i : Fits(item.sections[k].first, Len(item.sections[k].entries), size)
  ELSE \A k \in 1..cur : Fits(item.index[k][1], item.index[k][2], size)

Reading ==
  /\ at = prev
  /\ size = (IF base.size = NoXref THEN item.size ELSE base.size)
  /\ MergedSoFar
  /\ FitSoFar

MInv ==
  /\ IInv
  /\ pc \in {"sections", "data"} => Reading
  /\ pc = "seek" => base = [size |-> size, entries |-> entries]
  /\ entries = [n \in DOMAIN entries |-> entries[n]]

\* The revisions that were merged, from the newest on, and what the table has of them.
Merged == {o \in Chain!Revisions : prev < o}

MergedEntry(n) ==
  \/ base.entries[n] = BlankEntry /\ \A o \in Merged : n \notin DeclaredNums(file[o])
  \/ \E o \in Merged : /\ n \in DeclaredNums(file[o])
                       /\ \A p \in Merged : n \in DeclaredNums(file[p]) => p <= o
                       /\ base.entries[n] = DeclaredEntry(file[o], n)

NewestFirst ==
  /\ prev \in Chain!Revisions \union {NoPrev}
  /\ IF base.size = NoXref
     THEN prev = Len(file) /\ Status # "done"
     ELSE DOMAIN base.entries = 0..(base.size - 1) /\ \A n \in 0..(base.size - 1) : MergedEntry(n)
  /\ Status = "done" => prev = NoPrev

NInv == PrevIsPrevious /\ FreesAreChained => NewestFirst

-----------------------------------------------------------------------------
(* MInv holds throughout.                                                   *)

\* What is read of an item in one step was not read before and is set as
\* pindf_xref_section_setentry does it.
LEMMA MergedStep ==
  ASSUME MergedSoFar, DeclaresOnce(item), item' = item, base' = base,
         entries' = [n \in DOMAIN entries |-> entries'[n]],
         \A n \in DOMAIN entries :
           \/ /\ entries'[n] = entries[n]
              /\ \A k \in SectionsOf(item) : (IsRead(k, n))' <=> IsRead(k, n)
           \/ \E k \in SectionsOf(item) :
                /\ (IsRead(k, n))'
                /\ \A l \in SectionsOf(item) : ~IsRead(l, n)
                /\ entries'[n] = IF Untouched(entries[n]) THEN EntryIn(item, k, n) ELSE entries[n]
  PROVE  MergedSoFar'
<1>1. Before' = Before
  BY DEF Before
<1>2. DOMAIN entries = DOMAIN Before
  BY DEF MergedSoFar
<1>3. DOMAIN entries' = DOMAIN Before
  BY <1>2
<1>4. ASSUME NEW n \in DOMAIN Before
      PROVE  /\ \A k \in SectionsOf(item) :
                  (IsRead(k, n))' /\ Untouched(Before[n]) => entries'[n] = EntryIn(item, k, n)
             /\ ~Untouched(Before[n]) \/ (\A k \in SectionsOf(item) : ~(IsRead(k, n))')
                  => entries'[n] = Before[n]
  <2>1. /\ \A k \in SectionsOf(item) :
             IsRead(k, n) /\ Untouched(Before[n]) => entries[n] = EntryIn(item, k, n)
        /\ ~Untouched(Before[n]) \/ (\A k \in SectionsOf(item) : ~IsRead(k, n))
             => entries[n] = Before[n]
    BY DEF MergedSoFar
  <2>2. CASE entries'[n] = entries[n] /\ \A k \in SectionsOf(item) : (IsRead(k, n))' <=> IsRead(k, n)
    BY <2>1, <2>2
  <2>3. ASSUME NEW k \in SectionsOf(item), (IsRead(k, n))', \A l \in SectionsOf(item) : ~IsRead(l, n),
               entries'[n] = IF Untouched(entries[n]) THEN EntryIn(item, k, n) ELSE entries[n]
        PROVE  /\ \A l \in SectionsOf(item) :
                    (IsRead(l, n))' /\ Untouched(Before[n]) => entries'[n] = EntryIn(item, l, n)
               /\ ~Untouched(Before[n]) \/ (\A l \in SectionsOf(item) : ~(IsRead(l, n))')
                    => entries'[n] = Before[n]
    <3>1. entries[n] = Before[n]
      BY <2>1, <2>3
    <3>2. ASSUME NEW l \in SectionsOf(item), (IsRead(l, n))' PROVE l = k
      <4>1. n \in SectionNums(item, l) /\ n \in SectionNums(item, k)
        BY <2>3, <3>2 DEF IsRead
      <4>2. QED
        BY <4>1 DEF DeclaresOnce
    <3>3. QED
      BY <2>3, <3>1, <3>2
  <2>4. QED
    BY <1>2, <2>2, <2>3
<1>5. entries' = [n \in DOMAIN Before' |-> entries'[n]]
  BY <1>1, <1>2
<1>6. QED
  BY <1>1, <1>4, <1>5 DEF MergedSoFar

LEMMA InitMInv == Init => MInv
<1>1. ASSUME Init PROVE entries = [n \in DOMAIN entries |-> entries[n]]
  BY <1>1 DEF Init, BlankTable
<1>2. QED
  BY <1>1, InitIInv DEF Init, MInv

\* Nothing of a revision is read when it is begun.
LEMMA BeginMInv ==
  ASSUME MInv, pc = "seek", NEW next_pc \in {"sections", "data"}, Begin(next_pc),
         file[prev].kind = IF next_pc = "sections" THEN "table" ELSE "stream", IInv'
  PROVE  MInv'
<1>1. /\ IInv /\ Positions /\ prev \in 1..Len(file)
      /\ base = [size |-> size, entries |-> entries]
      /\ entries = [n \in DOMAIN entries |-> entries[n]]
  BY DEF MInv, IInv, Positions
<1>2. /\ file' = file /\ at' = prev /\ prev' = prev /\ item' = file[prev] /\ base' = base
      /\ i' = 0 /\ cur' = 0 /\ pc' = next_pc
  BY DEF Begin, item
<1> DEFINE it == file[prev]
<1>3. /\ size' = IF base.size = NoXref THEN it.size ELSE base.size
      /\ entries' = IF base.size = NoXref THEN BlankTable(it.size) ELSE base.entries
  BY <1>1 DEF Begin, AllocXref
<1>4. entries' = Before'
  BY <1>2, <1>3 DEF Before
<1>5. entries' = [n \in DOMAIN entries' |-> entries'[n]]
  BY <1>1, <1>3 DEF BlankTable
<1>6. ASSUME NEW k \in SectionsOf(it), NEW n PROVE ~(IsRead(k, n))'
  <2>1. CASE it.kind = "table"
    <3>1. HasSections(it)
      BY <1>1, <2>1, ItemOf
    <3>2. k \in 1..Len(it.sections) /\ Len(it.sections) \in Nat
      BY <2>1, <3>1 DEF SectionsOf, HasSections
    <3>3. ~(k <= 0)
      BY <3>2
    <3>4. QED
      BY <1>2, <2>1, <3>3 DEF IsRead
  <2>2. CASE it.kind # "table"
    <3>1. it.kind = "stream"
      BY <2>2
    <3>2. HasPairs(it)
      BY <1>1, <3>1, ItemOf
    <3>3. k \in 1..Len(it.index) /\ Len(it.index) \in Nat
      BY <2>2, <3>2 DEF SectionsOf, HasPairs
    <3>4. PICK start \in [1..(Len(it.index) + 1) -> 0..Len(it.data)] : Divides(start, it)
      BY <3>2 DEF HasPairs
    <3>5. start[k] \in Nat /\ it.index[k][1] \in Nat /\ it.index[k][2] \in Nat
      <4>1. k \in 1..(Len(it.index) + 1)
        BY <3>3
      <4>2. QED
        BY <3>2, <3>3, <3>4, <4>1, StartFacts
    <3>6. PairStart(it.index)[k] = start[k] + 1
      BY <3>2, <3>3, <3>4, PairStartIs
    <3>7. ASSUME n \in SectionNums(it, k) PROVE ~(PairStart(it.index)[k] + (n - it.index[k][1]) <= 0)
      <4> DEFINE a == it.index[k][1]
                 b == it.index[k][2]
                 p == PairStart(it.index)[k]
      <4>1. n \in a .. a + b - 1
        BY <2>2, <3>7 DEF SectionNums
      <4>2. a \in Nat /\ b \in Nat /\ p \in Nat \ {0}
        BY <3>5, <3>6
      <4> HIDE DEF a, b, p
      <4>3. ~(p + (n - a) <= 0)
        BY <4>1, <4>2
      <4>4. QED
        BY <4>3 DEF a, p
    <3>8. QED
      BY <1>2, <2>2, <3>7 DEF IsRead
  <2>3. QED
    BY <2>1, <2>2
<1>7. MergedSoFar'
  BY <1>2, <1>4, <1>5, <1>6 DEF MergedSoFar
<1>8. FitSoFar'
  BY <1>2 DEF FitSoFar
<1>9. Reading'
  BY <1>2, <1>3, <1>7, <1>8 DEF Reading
<1>10. QED
  BY <1>2, <1>5, <1>9 DEF MInv

\* An open revision that is read has the form it should have.
LEMMA ReadItem ==
  ASSUME IInv, pc \in {"sections", "data"}
  PROVE  /\ Positions /\ IsXref(item) /\ DeclaresOnce(item)
         /\ pc = "sections" => item.kind = "table" /\ HasSections(item)
         /\ pc = "data" => item.kind = "stream" /\ HasPairs(item)
         /\ item.kind = "table" => HasSections(item)
         /\ item.kind = "stream" => HasPairs(item)
<1>1. Positions /\ at \in 1..Len(file) /\ file \in Files
  BY DEF IInv, Positions
<1>2. /\ pc = "sections" => item.kind = "table"
      /\ pc = "data" => item.kind = "stream"
  BY DEF IInv, InSections, InData
<1>3. IsXref(item)
  BY <1>2 DEF IsXref
<1>4. DeclaresOnce(item)
  BY <1>1, <1>3, OnceAssumption DEF item
<1>5. QED
  BY <1>1, <1>2, <1>3, <1>4, ItemOf DEF item

LEMMA TableSectionMInv == ASSUME MInv, TableSection, IInv' PROVE MInv'
<1>1. /\ IInv /\ pc = "sections" /\ i < Len(item.sections) /\ Reading
      /\ entries = [n \in DOMAIN entries |-> entries[n]]
  BY DEF MInv, TableSection
<1>2. item.kind = "table" /\ HasSections(item) /\ DeclaresOnce(item)
  BY <1>1, ReadItem
<1>3. i \in 0..Len(item.sections) /\ Len(item.sections) \in Nat
  BY <1>1, <1>2 DEF IInv, InSections, HasSections
<1>4. i + 1 \in 1..Len(item.sections) /\ SectionsOf(item) = 1..Len(item.sections)
  BY <1>1, <1>2, <1>3 DEF SectionsOf
<1>0. PICK k0 \in SectionsOf(item) : k0 = i + 1
  BY <1>4
<1>5. CASE Fits(Section.first, Len(Section.entries), size)
  <2>1. /\ entries' = SetLines(entries, Section) /\ i' = i + 1
        /\ UNCHANGED <<file, pc, at, prev, size, cur, first, base>>
    BY <1>5 DEF TableSection
  <2>2. item' = item
    BY <2>1 DEF item
  <2>3. entries' = [n \in DOMAIN entries |-> entries'[n]]
    BY <2>1 DEF SetLines
  <2>4. ASSUME NEW n \in DOMAIN entries, n \in SectionNums(item, k0)
        PROVE  /\ (IsRead(k0, n))'
               /\ \A l \in SectionsOf(item) : ~IsRead(l, n)
               /\ entries'[n] = IF Untouched(entries[n]) THEN EntryIn(item, k0, n) ELSE entries[n]
    <3>1. (IsRead(k0, n))'
      <4>1. k0 <= i'
        BY <1>0, <1>3, <2>1
      <4>2. QED
        BY <1>2, <2>1, <2>2, <2>4, <4>1 DEF IsRead
    <3>2. ASSUME NEW l \in SectionsOf(item), IsRead(l, n) PROVE FALSE
      <4>1. n \in SectionNums(item, l) /\ l <= i
        BY <1>2, <3>2 DEF IsRead
      <4>2. l = k0
        BY <1>2, <2>4, <4>1 DEF DeclaresOnce
      <4>3. QED
        BY <1>0, <1>3, <4>1, <4>2
    <3>3. entries'[n] = IF Untouched(entries[n]) THEN EntryIn(item, k0, n) ELSE entries[n]
      BY <1>0, <1>2, <2>1, <2>4 DEF SetLines, Section, SectionNums, EntryIn
    <3>4. QED
      BY <3>1, <3>2, <3>3
  <2>5. ASSUME NEW n \in DOMAIN entries, n \notin SectionNums(item, k0)
        PROVE  /\ entries'[n] = entries[n]
               /\ \A k \in SectionsOf(item) : (IsRead(k, n))' <=> IsRead(k, n)
    <3>1. entries'[n] = entries[n]
      BY <1>0, <1>2, <2>1, <2>5 DEF SetLines, Section, SectionNums
    <3>2. ASSUME NEW k \in SectionsOf(item) PROVE (IsRead(k, n))' <=> IsRead(k, n)
      <4>1. (IsRead(k, n))' <=> n \in SectionNums(item, k) /\ k <= i + 1
        BY <1>2, <2>1, <2>2 DEF IsRead
      <4>2. IsRead(k, n) <=> n \in SectionNums(item, k) /\ k <= i
        BY <1>2 DEF IsRead
      <4>3. k \in Nat /\ i \in Nat
        BY <1>3, <1>4
      <4>4. CASE k = i + 1
        BY <1>0, <2>5, <4>1, <4>2, <4>4
      <4>5. CASE k # i + 1
        <5>1. k <= i + 1 <=> k <= i
          BY <4>3, <4>5
        <5>2. QED
          BY <4>1, <4>2, <5>1
      <4>6. QED
        BY <4>4, <4>5
    <3>3. QED
      BY <3>1, <3>2
  <2>6. MergedSoFar'
    <3>1. MergedSoFar
      BY <1>1 DEF Reading
    <3>2. base' = base
      BY <2>1
    <3>3. \A n \in DOMAIN entries :
            \/ /\ entries'[n] = entries[n]
               /\ \A k \in SectionsOf(item) : (IsRead(k, n))' <=> IsRead(k, n)
            \/ \E k \in SectionsOf(item) :
                 /\ (IsRead(k, n))'
                 /\ \A l \in SectionsOf(item) : ~IsRead(l, n)
                 /\ entries'[n] = IF Untouched(entries[n]) THEN EntryIn(item, k, n) ELSE entries[n]
      BY <2>4, <2>5
    <3>4. QED
      BY <1>2, <2>2, <2>3, <3>1, <3>2, <3>3, MergedStep
  <2>7. FitSoFar'
    <3>1. \A k \in 1..i : Fits(item.sections[k].first, Len(item.sections[k].entries), size)
      BY <1>1, <1>2 DEF Reading, FitSoFar
    <3>2. Fits(item.sections[i + 1].first, Len(item.sections[i + 1].entries), size)
      BY <1>5 DEF Section
    <3>3. \A k \in 1..(i + 1) : k \in 1..i \/ k = i + 1
      BY <1>3
    <3>4. \A k \in 1..(i + 1) : Fits(item.sections[k].first, Len(item.sections[k].entries), size)
      BY <3>1, <3>2, <3>3
    <3>5. QED
      BY <1>2, <2>1, <2>2, <3>4 DEF FitSoFar
  <2>8. Reading'
    BY <1>1, <2>1, <2>2, <2>6, <2>7 DEF Reading
  <2>9. QED
    BY <1>1, <2>1, <2>3, <2>8 DEF MInv
<1>6. CASE ~Fits(Section.first, Len(Section.entries), size)
  BY <1>1, <1>6 DEF TableSection, Abort, MInv
<1>7. QED
  BY <1>5, <1>6

\* The place of entry i among the pairs: it is the one of NumberOfEntry in the current
\* pair and of no other number.
LEMMA PlaceOfEntry ==
  ASSUME IInv, pc = "data", i < Len(item.data)
  PROVE  /\ NumberOfEntry \in SectionNums(item, cur + 1)
         /\ PairStart(item.index)[cur + 1] = first + 1
         /\ \A k \in SectionsOf(item) : \A n \in SectionNums(item, k) :
              /\ PairStart(item.index)[k] + (n - item.index[k][1]) \in Nat
              /\ PairStart(item.index)[k] + (n - item.index[k][1]) = i + 1
                   => k = cur + 1 /\ n = NumberOfEntry
<1>1. /\ HasPairs(item) /\ item.kind = "stream"
      /\ cur + 1 \in 1..Len(item.index) /\ cur \in Nat
      /\ Index[1] \in Nat /\ Index[2] \in Nat \ {0}
      /\ i \in Nat /\ first \in Nat /\ first <= i /\ i < first + Index[2]
  BY DataFacts
<1>2. PICK start \in [1..(Len(item.index) + 1) -> 0..Len(item.data)] :
        Divides(start, item) /\ At(start)
  BY DEF IInv, InData
<1>3. /\ Len(item.index) \in Nat
      /\ \A k \in 1..(Len(item.index) + 1) : start[k] \in Nat
      /\ \A k \in 1..Len(item.index) : /\ item.index[k][1] \in Nat /\ item.index[k][2] \in Nat \ {0}
                                       /\ start[k + 1] = start[k] + item.index[k][2]
  BY <1>1, <1>2, StartFacts
<1>4. \A k \in 1..Len(item.index) : PairStart(item.index)[k] = start[k] + 1
  BY <1>1, <1>2, PairStartIs
<1>5. start[cur + 1] = first
  BY <1>2 DEF At
<1>6. NumberOfEntry \in SectionNums(item, cur + 1)
  <2>1. NumberOfEntry \in Index[1] .. Index[1] + Index[2] - 1
    BY SMTT(30), <1>1 DEF NumberOfEntry
  <2>2. QED
    BY <1>1, <2>1 DEF SectionNums, Index
<1>7. ASSUME NEW k \in SectionsOf(item), NEW n \in SectionNums(item, k)
      PROVE  /\ PairStart(item.index)[k] + (n - item.index[k][1]) \in Nat
             /\ PairStart(item.index)[k] + (n - item.index[k][1]) = i + 1
                   => k = cur + 1 /\ n = NumberOfEntry
  <2> DEFINE a == item.index[k][1]
             b == item.index[k][2]
             p == PairStart(item.index)[k]
             m == Len(item.index)
  <2>1. k \in 1..m
    BY <1>1, <1>7 DEF SectionsOf
  <2>2. m \in Nat /\ k \in 1..(m + 1) /\ k + 1 \in 1..(m + 1)
    BY <2>1, <1>3
  <2>3. a \in Nat /\ b \in Nat \ {0} /\ p = start[k] + 1 /\ start[k] \in Nat
        /\ start[k + 1] = start[k] + b
    BY <1>3, <1>4, <2>1, <2>2
  <2>4. n \in a .. a + b - 1
    BY <1>1, <1>7 DEF SectionNums
  <2> HIDE DEF a, b, p
  <2>5. p + (n - a) \in Nat
    BY <2>3, <2>4
  <2>6. ASSUME p + (n - a) = i + 1 PROVE k = cur + 1 /\ n = NumberOfEntry
    <3>1. start[k] <= i /\ i < start[k + 1]
      <4> DEFINE s == start[k]
      <4>1. s \in Nat /\ p = s + 1 /\ start[k + 1] = s + b
        BY <2>3
      <4> HIDE DEF s
      <4>2. s <= i /\ i < s + b
        BY SMTT(30), <4>1, <2>3, <2>4, <2>6, <1>1
      <4>3. QED
        BY <4>1, <4>2 DEF s
    <3>2. cur + 1 \in 1..m /\ cur + 1 \in 1..(m + 1) /\ (cur + 1) + 1 \in 1..(m + 1)
      BY <1>1, <2>2
    <3>3. start[(cur + 1) + 1] = first + Index[2]
      BY <1>3, <1>5, <3>2 DEF Index
    <3>4. ~(k + 1 <= cur + 1)
      <4>1. ASSUME k + 1 <= cur + 1 PROVE start[k + 1] <= start[cur + 1]
        BY <4>1, <1>1, <1>2, <2>2, <3>2, StartMonotone
      <4>2. start[k + 1] \in Nat
        BY <1>3, <2>2
      <4>3. QED
        BY <1>1, <1>5, <3>1, <4>1, <4>2
    <3>5. ~((cur + 1) + 1 <= k)
      <4>1. ASSUME (cur + 1) + 1 <= k PROVE start[(cur + 1) + 1] <= start[k]
        BY <4>1, <1>1, <1>2, <2>2, <3>2, StartMonotone
      <4>2. QED
        BY <1>1, <2>3, <3>1, <3>3, <4>1
    <3>6. k = cur + 1
      BY <2>2, <3>2, <3>4, <3>5
    <3>7. a = Index[1] /\ start[k] = first
      BY <1>5, <3>6 DEF Index, a
    <3>8. n = Index[1] + (i - first)
      <4>1. a \in Nat /\ first \in Nat /\ p = first + 1 /\ n \in Int
        BY <1>1, <2>3, <2>4, <3>7
      <4>2. n = a + (i - first)
        BY <1>1, <2>6, <4>1
      <4>3. QED
        BY <3>7, <4>2
    <3>9. QED
      BY <3>6, <3>8 DEF NumberOfEntry
  <2>7. QED
    BY <2>5, <2>6 DEF a, p
<1>8. QED
  BY <1>1, <1>4, <1>5, <1>6, <1>7

LEMMA StreamEntryMInv == ASSUME MInv, StreamEntry, IInv' PROVE MInv'
<1>1. /\ IInv /\ pc = "data" /\ i < Len(item.data) /\ Reading /\ SectionReady
      /\ entries = [n \in DOMAIN entries |-> entries[n]]
      /\ i' = i + 1 /\ entries' = SetEntry(entries, NumberOfEntry, item.data[i + 1])
      /\ UNCHANGED <<file, pc, at, prev, size, base>>
  BY DEF MInv, StreamEntry
<1>2. item.kind = "stream" /\ HasPairs(item) /\ DeclaresOnce(item) /\ item' = item
  BY <1>1, ReadItem DEF item
<1>3. /\ cur + 1 \in 1..Len(item.index) /\ cur \in Nat
      /\ Index[1] \in Nat /\ Index[2] \in Nat \ {0}
      /\ i \in Nat /\ first \in Nat /\ first <= i /\ i < first + Index[2]
  BY <1>1, DataFacts
<1>4. PICK k0 \in SectionsOf(item) : k0 = cur + 1
  BY <1>2, <1>3 DEF SectionsOf
<1>5. entries' = [n \in DOMAIN entries |-> entries'[n]]
  BY <1>1 DEF SetEntry
<1>6. /\ NumberOfEntry \in SectionNums(item, k0)
      /\ PairStart(item.index)[k0] + (NumberOfEntry - item.index[k0][1]) = i + 1
  <2>1. PairStart(item.index)[k0] = first + 1 /\ NumberOfEntry \in SectionNums(item, k0)
    BY <1>1, <1>4, PlaceOfEntry
  <2>2. (first + 1) + (NumberOfEntry - Index[1]) = i + 1
    BY <1>3 DEF NumberOfEntry
  <2>3. QED
    BY <1>4, <2>1, <2>2 DEF Index
<1>7. ASSUME NEW k \in SectionsOf(item), NEW n
      PROVE  /\ IsRead(k, n) => (IsRead(k, n))'
             /\ (IsRead(k, n))' => IsRead(k, n) \/ (k = k0 /\ n = NumberOfEntry)
             /\ IsRead(k, n) => ~(k = k0 /\ n = NumberOfEntry)
  <2> DEFINE q == PairStart(item.index)[k] + (n - item.index[k][1])
  <2>1. IsRead(k, n) <=> n \in SectionNums(item, k) /\ q <= i
    BY <1>2 DEF IsRead
  <2>2. (IsRead(k, n))' <=> n \in SectionNums(item, k) /\ q <= i + 1
    BY <1>1, <1>2 DEF IsRead
  <2>3. n \in SectionNums(item, k) => q \in Nat /\ (q = i + 1 => k = k0 /\ n = NumberOfEntry)
    BY <1>1, <1>4, PlaceOfEntry
  <2>4. k = k0 /\ n = NumberOfEntry => q = i + 1
    BY <1>6
  <2> HIDE DEF q
  <2>5. QED
    BY <1>3, <2>1, <2>2, <2>3, <2>4
<1>8. ASSUME NEW n \in DOMAIN entries, n = NumberOfEntry
      PROVE  /\ (IsRead(k0, n))'
             /\ \A l \in SectionsOf(item) : ~IsRead(l, n)
             /\ entries'[n] = IF Untouched(entries[n]) THEN EntryIn(item, k0, n) ELSE entries[n]
  <2>1. (IsRead(k0, n))'
    <3>1. i + 1 <= i'
      BY <1>1, <1>3
    <3>2. QED
      BY <1>2, <1>6, <1>8, <3>1 DEF IsRead
  <2>2. ASSUME NEW l \in SectionsOf(item), IsRead(l, n) PROVE FALSE
    <3>1. n \in SectionNums(item, l)
      BY <2>2 DEF IsRead
    <3>2. l = k0
      BY <1>2, <1>4, <1>6, <1>8, <3>1 DEF DeclaresOnce
    <3>3. QED
      BY <1>7, <1>8, <2>2, <3>2
  <2>3. entries'[n] = IF Untouched(entries[n]) THEN item.data[i + 1] ELSE entries[n]
    BY <1>1, <1>8 DEF SetEntry
  <2>4. EntryIn(item, k0, n) = item.data[i + 1]
    BY <1>2, <1>6, <1>8 DEF EntryIn
  <2>5. QED
    BY <2>1, <2>2, <2>3, <2>4
<1>9. ASSUME NEW n \in DOMAIN entries, n # NumberOfEntry
      PROVE  /\ entries'[n] = entries[n]
             /\ \A k \in SectionsOf(item) : (IsRead(k, n))' <=> IsRead(k, n)
  <2>1. entries'[n] = entries[n]
    BY <1>1, <1>9 DEF SetEntry
  <2>2. QED
    BY <1>7, <1>9, <2>1
<1>10. MergedSoFar'
  <2>1. MergedSoFar
    BY <1>1 DEF Reading
  <2>2. base' = base
    BY <1>1
  <2>3. \A n \in DOMAIN entries :
          \/ /\ entries'[n] = entries[n]
             /\ \A k \in SectionsOf(item) : (IsRead(k, n))' <=> IsRead(k, n)
          \/ \E k \in SectionsOf(item) :
               /\ (IsRead(k, n))'
               /\ \A l \in SectionsOf(item) : ~IsRead(l, n)
               /\ entries'[n] = IF Untouched(entries[n]) THEN EntryIn(item, k, n) ELSE entries[n]
    BY <1>8, <1>9
  <2>4. QED
    BY <1>2, <1>5, <2>1, <2>2, <2>3, MergedStep
<1>11. FitSoFar'
  <2>1. \A k \in 1..cur : Fits(item.index[k][1], item.index[k][2], size)
    BY <1>1, <1>2 DEF Reading, FitSoFar
  <2>2. Fits(item.index[cur + 1][1], item.index[cur + 1][2], size)
    BY <1>1, <1>3 DEF SectionReady, IInv, InData, Allocated, Index
  <2>3. \A k \in 1..(cur + 1) : k \in 1..cur \/ k = cur + 1
    BY <1>3
  <2>4. cur' \in {cur, cur + 1}
    BY DEF StreamEntry
  <2>5. \A k \in 1..cur' : Fits(item.index[k][1], item.index[k][2], size)
    BY <2>1, <2>2, <2>3, <2>4
  <2>6. QED
    BY <1>1, <1>2, <2>5 DEF FitSoFar
<1>12. Reading'
  BY <1>1, <1>2, <1>10, <1>11 DEF Reading
<1>13. QED
  BY <1>1, <1>5, <1>12 DEF MInv

LEMMA NextMInv == MInv /\ [Next]_vars => MInv'
<1> SUFFICES ASSUME MInv, [Next]_vars PROVE MInv'
  OBVIOUS
<1>1. IInv'
  BY NextIInv DEF MInv
<1>2. CASE BeginTable
  BY <1>1, <1>2, BeginMInv DEF BeginTable
<1>3. CASE BeginStream
  BY <1>1, <1>3, BeginMInv DEF BeginStream
<1>4. CASE TableSection
  BY <1>1, <1>4, TableSectionMInv
<1>5. CASE StreamEntry
  BY <1>1, <1>5, StreamEntryMInv
<1>6. CASE TableEnd \/ StreamEnd
  BY <1>1, <1>6 DEF TableEnd, StreamEnd, EndRevision, MInv
<1>7. CASE StreamOverflow \/ Malformed
  BY <1>1, <1>7 DEF StreamOverflow, Malformed, Abort, MInv
<1>8. CASE UNCHANGED vars
  <2>1. item' = item /\ Before' = Before
    BY <1>8 DEF vars, item, Before
  <2>2. \A k, n : (IsRead(k, n))' <=> IsRead(k, n)
    BY <1>8, <2>1 DEF vars, IsRead
  <2>3. Reading => Reading'
    BY <1>8, <2>1, <2>2 DEF vars, Reading, MergedSoFar, FitSoFar
  <2>4. QED
    BY <1>1, <1>8, <2>3 DEF vars, MInv
<1>9. QED
  BY <1>2, <1>3, <1>4, <1>5, <1>6, <1>7, <1>8 DEF Next

-----------------------------------------------------------------------------
(* A revision read to its end has been merged as XrefChain does it.         *)

LEMMA WholeRevision ==
  ASSUME MInv,
         \/ pc = "sections" /\ i = Len(item.sections)
         \/ pc = "data" /\ i = Len(item.data)
  PROVE  AllFit(item, size) /\ entries = Merge(Before, item)
<1>1. IInv /\ pc \in {"sections", "data"} /\ Reading
  BY DEF MInv
<1>2. /\ IsXref(item) /\ DeclaresOnce(item)
      /\ item.kind = "table" => HasSections(item)
      /\ item.kind = "stream" => HasPairs(item)
      /\ pc = "sections" => item.kind = "table"
      /\ pc = "data" => item.kind = "stream"
  BY <1>1, ReadItem
<1>3. ASSUME NEW k \in SectionsOf(item), NEW n \in SectionNums(item, k) PROVE IsRead(k, n)
  <2>1. CASE pc = "sections"
    <3>1. k \in 1..Len(item.sections) /\ item.kind = "table" /\ Len(item.sections) \in Nat
      BY <1>2, <2>1 DEF SectionsOf, HasSections
    <3>2. k <= i
      BY <2>1, <3>1
    <3>3. QED
      BY <1>3, <3>1, <3>2 DEF IsRead
  <2>2. CASE pc = "data"
    <3> DEFINE a == item.index[k][1]
               b == item.index[k][2]
               p == PairStart(item.index)[k]
               m == Len(item.index)
    <3>1. k \in 1..m /\ item.kind = "stream" /\ HasPairs(item)
      BY <1>2, <2>2 DEF SectionsOf
    <3>2. PICK start \in [1..(m + 1) -> 0..Len(item.data)] : Divides(start, item)
      BY <3>1 DEF HasPairs
    <3>3. m \in Nat /\ k \in 1..(m + 1) /\ k + 1 \in 1..(m + 1) /\ m + 1 \in 1..(m + 1) /\ k + 1 <= m + 1
      BY <3>1 DEF HasPairs
    <3>4. a \in Nat /\ b \in Nat \ {0} /\ start[k] \in Nat /\ start[k + 1] = start[k] + b
      BY <3>1, <3>2, <3>3, StartFacts
    <3>5. p = start[k] + 1
      BY <3>1, <3>2, PairStartIs
    <3>6. start[k + 1] <= start[m + 1]
      BY <3>1, <3>2, <3>3, StartMonotone
    <3>7. start[m + 1] = i
      BY <2>2, <3>2 DEF Divides
    <3>8. n \in a .. a + b - 1
      BY <1>3, <3>1 DEF SectionNums
    <3>9. p + (n - a) <= i
      <4> DEFINE s == start[k]
      <4>1. s \in Nat /\ p = s + 1 /\ s + b <= i /\ i \in Int
        BY <1>2, <2>2, <3>1, <3>4, <3>5, <3>6, <3>7 DEF HasPairs
      <4> HIDE DEF s, a, b, p
      <4>2. QED
        BY <3>4, <3>8, <4>1
    <3>10. QED
      BY <1>3, <3>1, <3>9 DEF IsRead
  <2>3. QED
    BY <1>1, <2>1, <2>2
<1>4. AllFit(item, size)
  <2>1. FitSoFar
    BY <1>1 DEF Reading
  <2>2. CASE pc = "sections"
    BY <1>2, <2>1, <2>2 DEF FitSoFar, AllFit
  <2>3. CASE pc = "data"
    <3>1. item.kind = "stream" /\ HasPairs(item)
      BY <1>2, <2>3
    <3>2. PICK start \in [1..(Len(item.index) + 1) -> 0..Len(item.data)] :
            Divides(start, item) /\ At(start)
      BY <1>1, <2>3 DEF IInv, InData
    <3>3. cur = Len(item.index)
      <4>1. cur \in 0..Len(item.index) /\ Len(item.index) \in Nat /\ Len(item.data) \in Nat
        BY <3>1, <3>2 DEF HasPairs, At
      <4>2. ASSUME cur < Len(item.index) PROVE FALSE
        <5>1. cur + 2 \in 1..(Len(item.index) + 1)
          BY <4>1, <4>2
        <5>2. start[cur + 2] \in 0..Len(item.data)
          BY <5>1
        <5>3. i < start[cur + 2]
          BY <3>2, <4>2 DEF At
        <5>4. QED
          BY <2>3, <4>1, <5>2, <5>3
      <4>3. QED
        BY <4>1, <4>2
    <3>4. QED
      BY <2>1, <3>1, <3>3 DEF FitSoFar, AllFit
  <2>4. QED
    BY <1>1, <2>2, <2>3
<1>5. ASSUME NEW n \in DOMAIN Before
      PROVE  entries[n] = IF n \in DeclaredNums(item) /\ Untouched(Before[n])
                          THEN DeclaredEntry(item, n) ELSE Before[n]
  <2>1. /\ \A k \in SectionsOf(item) :
             IsRead(k, n) /\ Untouched(Before[n]) => entries[n] = EntryIn(item, k, n)
        /\ ~Untouched(Before[n]) \/ (\A k \in SectionsOf(item) : ~IsRead(k, n))
             => entries[n] = Before[n]
    BY <1>1 DEF Reading, MergedSoFar
  <2>2. /\ n \in DeclaredNums(item) <=> \E k \in SectionsOf(item) : n \in SectionNums(item, k)
        /\ \A k \in SectionsOf(item) :
             n \in SectionNums(item, k) => DeclaredEntry(item, n) = EntryIn(item, k, n)
    BY <1>2, DeclaredBySections
  <2>3. CASE n \in DeclaredNums(item)
    <3>1. PICK k \in SectionsOf(item) : n \in SectionNums(item, k)
      BY <2>2, <2>3
    <3>2. QED
      BY <1>3, <2>1, <2>2, <2>3, <3>1
  <2>4. CASE n \notin DeclaredNums(item)
    <3>1. \A k \in SectionsOf(item) : ~IsRead(k, n)
      BY <2>2, <2>4 DEF IsRead
    <3>2. QED
      BY <2>1, <2>4, <3>1
  <2>5. QED
    BY <2>3, <2>4
<1>6. entries = Merge(Before, item)
  <2>1. entries = [n \in DOMAIN Before |-> entries[n]]
    BY <1>1 DEF Reading, MergedSoFar
  <2>2. entries = [n \in DOMAIN Before |-> IF n \in DeclaredNums(item) /\ Untouched(Before[n])
                                           THEN DeclaredEntry(item, n) ELSE Before[n]]
    BY <1>5, <2>1
  <2>3. QED
    BY <2>2 DEF Merge
<1>7. QED
  BY <1>4, <1>6

\* XrefChain speaks of the same forms.
LEMMA SameFormat ==
  /\ Chain!NoXref = NoXref /\ Chain!NoPrev = NoPrev /\ Chain!BlankEntry = BlankEntry
  /\ \A n : Chain!BlankTable(n) = BlankTable(n)
  /\ \A it : Chain!IsXref(it) = IsXref(it) /\ Chain!DeclaredNums(it) = DeclaredNums(it)
  /\ \A it, n : Chain!AllFit(it, n) = AllFit(it, n) /\ Chain!DeclaredEntry(it, n) = DeclaredEntry(it, n)
  /\ \A es, it : Chain!Merge(es, it) = Merge(es, it)
BY DEF Chain!NoXref, NoXref, Chain!NoPrev, NoPrev, Chain!BlankEntry, BlankEntry, Chain!BlankTable,
       BlankTable, Chain!IsXref, IsXref, Chain!DeclaredNums, DeclaredNums, Chain!AllFit, AllFit,
       Chain!DeclaredEntry, DeclaredEntry, Chain!Merge, Merge, Chain!Entry, Entry, Chain!F, F,
       Chain!Declared, Declared, Chain!TableEntries, TableEntries, Chain!StreamEntries,
       StreamEntries, Chain!Pair, Pair, Chain!PairStart, PairStart, Chain!Fits, Fits,
       Chain!Untouched, Untouched

\* The end of a revision is the step of XrefChain that reads it.
LEMMA EndReads ==
  ASSUME MInv, EndRevision,
         \/ pc = "sections" /\ i = Len(item.sections)
         \/ pc = "data" /\ i = Len(item.data)
  PROVE  Chain!ReadRevision
<1>1. AllFit(item, size) /\ entries = Merge(Before, item)
  BY WholeRevision
<1>2. pc \in {"sections", "data"} /\ Reading /\ IInv
  BY DEF MInv
<1>3. item = file[prev] /\ IsXref(item)
  BY <1>2, ReadItem DEF Reading, item
<1>4. size = Chain!TableSize(item) /\ Before = Chain!Table(item)
  BY <1>2, SameFormat DEF Reading, Before, Chain!TableSize, Chain!Table
<1>5. /\ prev' = item.prev /\ base' = [size |-> size, entries |-> entries] /\ file' = file
      /\ pc' = IF item.prev = NoPrev THEN "done" ELSE "seek"
  BY DEF EndRevision, NextRevision
<1>6. Status = "reading" /\ Status' = IF item.prev = NoPrev THEN "done" ELSE "reading"
  BY <1>2, <1>5 DEF Status
<1>7. base.size' = size /\ base.entries' = entries
  BY <1>5
<1>8. QED
  BY <1>1, <1>3, <1>4, <1>5, <1>6, <1>7, SameFormat DEF Chain!ReadRevision, Chain!NextRevision

\* The assertion stops the program at a revision that does not fit.
LEMMA AbortOverflows ==
  ASSUME MInv, Abort, pc \in {"sections", "data"}, ~AllFit(item, size)
  PROVE  Chain!Overflow
<1>1. Reading /\ IInv
  BY DEF MInv
<1>2. item = file[prev] /\ IsXref(item)
  BY <1>1, ReadItem DEF Reading, item
<1>3. size = Chain!TableSize(item)
  BY <1>1, SameFormat DEF Reading, Chain!TableSize
<1>4. Status = "reading" /\ Status' = "aborted" /\ UNCHANGED <<file, prev, base>>
  BY DEF Abort, Status
<1>5. QED
  BY <1>2, <1>3, <1>4, SameFormat DEF Chain!Overflow

LEMMA StepsOfChain == MInv /\ [Next]_vars => [Chain!Next]_Chain!vars
<1> SUFFICES ASSUME MInv, [Next]_vars PROVE [Chain!Next]_Chain!vars
  OBVIOUS
<1>1. IInv
  BY DEF MInv
<1>2. ASSUME UNCHANGED <<file, prev, base>>, Status' = Status PROVE UNCHANGED Chain!vars
  BY <1>2 DEF Chain!vars
<1>3. CASE BeginTable
  BY <1>2, <1>3 DEF BeginTable, Begin, Status
<1>4. CASE BeginStream
  BY <1>2, <1>4 DEF BeginStream, Begin, Status
<1>5. CASE TableSection
  <2>1. CASE Fits(Section.first, Len(Section.entries), size)
    <3>1. Status' = Status /\ UNCHANGED <<file, prev, base>>
      BY <1>5, <2>1 DEF TableSection, Status
    <3>2. QED
      BY <1>2, <3>1
  <2>2. CASE ~Fits(Section.first, Len(Section.entries), size)
    <3>1. pc = "sections" /\ i < Len(item.sections) /\ Abort
      BY <1>5, <2>2 DEF TableSection
    <3>2. item.kind = "table" /\ HasSections(item) /\ i \in 0..Len(item.sections)
      BY <1>1, <3>1, ReadItem DEF IInv, InSections
    <3>3. i + 1 \in 1..Len(item.sections)
      BY <3>1, <3>2 DEF HasSections
    <3>4. ~AllFit(item, size)
      BY <2>2, <3>2, <3>3 DEF AllFit, Section
    <3>5. QED
      BY <3>1, <3>4, AbortOverflows DEF Chain!Next
  <2>3. QED
    BY <2>1, <2>2
<1>6. CASE StreamEntry
  BY <1>2, <1>6 DEF StreamEntry, Status
<1>7. CASE StreamOverflow
  <2>1. pc = "data" /\ i < Len(item.data) /\ ~SectionReady /\ Abort
    BY <1>7 DEF StreamOverflow
  <2>2. item.kind = "stream" /\ cur + 1 \in 1..Len(item.index)
    BY <1>1, <2>1, DataFacts
  <2>3. ~AllFit(item, size)
    BY <2>1, <2>2 DEF AllFit, SectionReady, Index
  <2>4. QED
    BY <2>1, <2>3, AbortOverflows DEF Chain!Next
<1>8. CASE TableEnd \/ StreamEnd
  BY <1>8, EndReads DEF TableEnd, StreamEnd, Chain!Next
<1>9. CASE Malformed
  <2>1. Status = "reading" /\ Status' = "failed" /\ UNCHANGED <<file, prev, base>>
    BY <1>9 DEF Malformed, Status
  <2>2. QED
    BY <2>1 DEF Chain!Malformed, Chain!Next
<1>10. CASE UNCHANGED vars
  BY <1>2, <1>10 DEF vars, Status
<1>11. QED
  BY <1>3, <1>4, <1>5, <1>6, <1>7, <1>8, <1>9, <1>10 DEF Next

LEMMA StartOfChain == Init => Chain!Start
BY SameFormat DEF Init, Chain!Start, Status

\* Whatever the sections of the tables and the pairs of the streams, reading entry by
\* entry does what merging one revision after the other does: each entry goes to the
\* number it was written for, and the offsets, the size of the table and the way the loop
\* ends are the same.  That the loop goes on, the fairness of ImplementsChain, is left out.
THEOREM ReadsRevisionByRevision == Spec => ImplementsChainSteps
<1>1. Init => MInv
  BY InitMInv
<1>2. MInv /\ [Next]_vars => MInv'
  BY NextMInv
<1>3. MInv /\ [Next]_vars => [Chain!Next]_Chain!vars
  BY StepsOfChain
<1>4. Init => Chain!Start
  BY StartOfChain
<1>5. QED
  BY <1>1, <1>2, <1>3, <1>4, PTL DEF Spec, ImplementsChainSteps

-----------------------------------------------------------------------------
(* The newest revision wins.                                                *)

LEMMA RevisionsAre == \A o : o \in Chain!Revisions <=> o \in 1..Len(file) /\ IsXref(file[o])
BY SameFormat DEF Chain!Revisions

LEMMA InitNInv == Init => NInv
<1> SUFFICES ASSUME Init, PrevIsPrevious PROVE NewestFirst
  BY DEF NInv
<1>1. prev = Len(file) /\ base.size = NoXref /\ Status = "reading"
  BY DEF Init, Status
<1>2. prev \in Chain!Revisions
  BY <1>1 DEF PrevIsPrevious
<1>3. QED
  BY <1>1, <1>2 DEF NewestFirst

\* Reading a revision adds it to those that were merged.
LEMMA MergedGrows ==
  ASSUME MInv, PrevIsPrevious, NewestFirst, Chain!ReadRevision
  PROVE  /\ prev \in Chain!Revisions /\ prev \in 1..Len(file)
         /\ prev' \in Chain!Revisions \union {NoPrev}
         /\ Chain!Revisions' = Chain!Revisions
         /\ Merged' = Merged \union {prev}
         /\ \A o \in Merged : prev < o
<1>1. Status = "reading" /\ prev' = file[prev].prev /\ file' = file
  BY DEF Chain!ReadRevision, Chain!NextRevision
<1>2. Positions
  BY DEF MInv, IInv
<1>3. prev \in 1..Len(file)
  <2>1. pc \in {"seek", "sections", "data"}
    BY <1>1, <1>2 DEF Status, Positions
  <2>2. CASE pc = "seek"
    BY <2>2, <1>2 DEF Positions
  <2>3. CASE pc # "seek"
    BY <2>1, <2>3, <1>2 DEF MInv, Reading, Positions
  <2>4. QED
    BY <2>2, <2>3
<1>4. prev \in Chain!Revisions
  <2>1. Chain!IsXref(file[prev])
    BY DEF Chain!ReadRevision
  <2>2. QED
    BY <1>3, <2>1, SameFormat, RevisionsAre
<1>5. /\ prev' \in Chain!Revisions \union {NoPrev} /\ prev' < prev
      /\ \A p \in Chain!Revisions : p < prev => p <= prev'
  BY <1>1, <1>4 DEF PrevIsPrevious
<1>6. \A o \in Chain!Revisions : o \in Int
  BY RevisionsAre
<1>7. prev \in Int /\ prev' \in Int
  BY <1>3, <1>5, <1>6 DEF NoPrev
<1>8. Chain!Revisions' = Chain!Revisions
  BY <1>1 DEF Chain!Revisions
<1>9. Merged' = Merged \union {prev}
  <2>1. ASSUME NEW o \in Chain!Revisions PROVE prev' < o <=> prev < o \/ o = prev
    <3>1. o \in Int /\ (o < prev => o <= prev') /\ prev' < prev
      BY <1>5, <1>6
    <3>2. QED
      BY <3>1, <1>7
  <2>2. Merged' = {o \in Chain!Revisions : prev' < o}
    BY <1>8 DEF Merged
  <2>3. QED
    BY <1>4, <2>1, <2>2 DEF Merged
<1>10. QED
  BY <1>3, <1>4, <1>5, <1>8, <1>9 DEF Merged

LEMMA ReadNInv == ASSUME MInv, NInv, Chain!ReadRevision PROVE NInv'
<1> SUFFICES ASSUME PrevIsPrevious', FreesAreChained' PROVE NewestFirst'
  BY DEF NInv
<1> DEFINE it == file[prev]
<1>1. file' = file /\ prev' = it.prev
  BY DEF Chain!ReadRevision, Chain!NextRevision
<1>2. PrevIsPrevious /\ FreesAreChained
  <2>1. Chain!Revisions' = Chain!Revisions
    BY <1>1 DEF Chain!Revisions
  <2>2. PrevIsPrevious
    BY <1>1, <2>1 DEF PrevIsPrevious
  <2>3. FreesAreChained
    BY <1>1, <2>1 DEF FreesAreChained
  <2>4. QED
    BY <2>2, <2>3
<1>3. NewestFirst
  BY <1>2 DEF NInv
<1>4. /\ prev \in Chain!Revisions /\ prev \in 1..Len(file)
      /\ prev' \in Chain!Revisions \union {NoPrev}
      /\ Chain!Revisions' = Chain!Revisions
      /\ Merged' = Merged \union {prev}
      /\ \A o \in Merged : prev < o
  BY <1>2, <1>3, MergedGrows
<1>5. Positions /\ it.size \in Nat
  BY <1>4, ItemOf DEF MInv, IInv
<1> DEFINE s == IF base.size = NoXref THEN it.size ELSE base.size
           t == IF base.size = NoXref THEN BlankTable(it.size) ELSE base.entries
<1>6. base'.size = s /\ base'.entries = Merge(t, it)
  BY SameFormat DEF Chain!ReadRevision, Chain!TableSize, Chain!Table
<1>7. s # NoXref /\ DOMAIN t = 0..(s - 1)
  BY <1>3, <1>5 DEF NewestFirst, NoXref, BlankTable
<1>8. DOMAIN base'.entries = 0..(s - 1)
  BY <1>6, <1>7 DEF Merge
<1>9. ASSUME NEW n \in 0..(s - 1)
      PROVE  \/ t[n] = BlankEntry /\ \A o \in Merged : n \notin DeclaredNums(file[o])
             \/ \E o \in Merged : /\ n \in DeclaredNums(file[o])
                                  /\ \A p \in Merged : n \in DeclaredNums(file[p]) => p <= o
                                  /\ t[n] = DeclaredEntry(file[o], n)
  <2>1. CASE base.size = NoXref
    <3>1. t[n] = BlankEntry
      BY <2>1, <1>9 DEF BlankTable
    <3>2. Merged = {}
      <4>1. prev = Len(file)
        BY <2>1, <1>3 DEF NewestFirst
      <4>2. ASSUME NEW o \in Merged PROVE FALSE
        <5>1. o \in 1..Len(file) /\ prev < o
          BY <4>2, RevisionsAre DEF Merged
        <5>2. QED
          BY <1>4, <4>1, <5>1
      <4>3. QED
        BY <4>2
    <3>3. QED
      BY <3>1, <3>2
  <2>2. CASE base.size # NoXref
    <3>1. MergedEntry(n) /\ t[n] = base.entries[n]
      BY <2>2, <1>3, <1>9 DEF NewestFirst
    <3> HIDE DEF t
    <3>2. QED
      BY <3>1 DEF MergedEntry
  <2>3. QED
    BY <2>1, <2>2
<1>10. ASSUME NEW n \in 0..(s - 1) PROVE (MergedEntry(n))'
  <2> DEFINE e == base'.entries[n]
  <2>1. e = IF n \in DeclaredNums(it) /\ Untouched(t[n]) THEN DeclaredEntry(it, n) ELSE t[n]
    BY <1>6, <1>7, <1>10 DEF Merge
  <2>2. (MergedEntry(n))' =
          \/ e = BlankEntry /\ \A o \in Merged' : n \notin DeclaredNums(file[o])
          \/ \E o \in Merged' : /\ n \in DeclaredNums(file[o])
                                /\ \A p \in Merged' : n \in DeclaredNums(file[p]) => p <= o
                                /\ e = DeclaredEntry(file[o], n)
    BY <1>1 DEF MergedEntry
  <2> HIDE DEF t, e, s
  <2>3. CASE t[n] = BlankEntry /\ \A o \in Merged : n \notin DeclaredNums(file[o])
    <3>1. CASE n \in DeclaredNums(it)
      <4>1. e = DeclaredEntry(it, n)
        BY <2>1, <2>3, <3>1 DEF Untouched, BlankEntry, Entry
      <4>2. \A p \in Merged' : n \in DeclaredNums(file[p]) => p = prev
        BY <1>4, <2>3
      <4>3. prev <= prev
        BY <1>4
      <4>4. prev \in Merged' /\ \A p \in Merged' : n \in DeclaredNums(file[p]) => p <= prev
        BY <1>4, <4>2, <4>3
      <4>5. QED
        BY <2>2, <3>1, <4>1, <4>4
    <3>2. CASE n \notin DeclaredNums(it)
      <4>1. e = BlankEntry
        BY <2>1, <2>3, <3>2
      <4>2. \A o \in Merged' : n \notin DeclaredNums(file[o])
        BY <1>4, <2>3, <3>2
      <4>3. QED
        BY <2>2, <4>1, <4>2
    <3>3. QED
      BY <3>1, <3>2
  <2>4. ASSUME NEW o \in Merged, n \in DeclaredNums(file[o]),
               \A p \in Merged : n \in DeclaredNums(file[p]) => p <= o,
               t[n] = DeclaredEntry(file[o], n)
        PROVE  (MergedEntry(n))'
    <3>1. o \in Chain!Revisions /\ prev < o /\ o \in Int
      BY <1>4, RevisionsAre DEF Merged
    <3>2. e = DeclaredEntry(file[o], n)
      <4>1. ASSUME n \in DeclaredNums(it), Untouched(t[n])
            PROVE  DeclaredEntry(it, n) = DeclaredEntry(file[o], n)
        <5>1. n \in DeclaredNums(file[prev]) \intersect DeclaredNums(file[o])
          BY <2>4, <4>1
        <5>2. Untouched(DeclaredEntry(file[o], n))
          BY <2>4, <4>1
        <5>3. QED
          BY <1>2, <1>4, <3>1, <5>1, <5>2 DEF FreesAreChained, EndsFreeList, Untouched
      <4>2. QED
        BY <2>1, <2>4, <4>1
    <3>3. prev <= o
      BY <1>4, <3>1
    <3>4. o \in Merged' /\ \A p \in Merged' : n \in DeclaredNums(file[p]) => p <= o
      BY <1>4, <2>4, <3>3
    <3>5. QED
      BY <2>2, <2>4, <3>2, <3>4
  <2>5. QED
    BY <1>9, <1>10, <2>3, <2>4
<1>11. Status' = "done" => prev' = NoPrev
  BY SameFormat DEF Chain!ReadRevision, Chain!NextRevision
<1>12. QED
  BY <1>4, <1>6, <1>7, <1>8, <1>10, <1>11 DEF NewestFirst

LEMMA NextNInv == MInv /\ NInv /\ [Chain!Next]_Chain!vars => NInv'
<1> SUFFICES ASSUME MInv, NInv, [Chain!Next]_Chain!vars PROVE NInv'
  OBVIOUS
<1>1. CASE Chain!ReadRevision
  BY <1>1, ReadNInv
<1>2. ASSUME file' = file, prev' = prev, base'.size = base.size, base'.entries = base.entries,
             Status' = "done" => Status = "done"
      PROVE  NInv'
  <2>1. PrevIsPrevious' = PrevIsPrevious /\ FreesAreChained' = FreesAreChained
        /\ Chain!Revisions' = Chain!Revisions
    BY <1>2 DEF PrevIsPrevious, FreesAreChained, Chain!Revisions
  <2>2. Merged' = Merged
    BY <1>2, <2>1 DEF Merged
  <2>3. \A n : (MergedEntry(n))' = MergedEntry(n)
    BY <1>2, <2>2 DEF MergedEntry
  <2>4. QED
    BY <1>2, <2>1, <2>3 DEF NInv, NewestFirst
<1>3. CASE Chain!Overflow \/ Chain!Malformed \/ UNCHANGED Chain!vars
  BY <1>2, <1>3 DEF Chain!Overflow, Chain!Malformed, Chain!vars
<1>4. QED
  BY <1>1, <1>3 DEF Chain!Next

LEMMA NInvNewestWins == MInv /\ NInv => NewestWins
<1> SUFFICES ASSUME MInv, NInv, PrevIsPrevious, FreesAreChained, Status = "done",
                    NEW n \in 0..(base.size - 1)
             PROVE  base.entries[n] = IF Chain!Newest(n) = 0 THEN BlankEntry
                                      ELSE DeclaredEntry(file[Chain!Newest(n)], n)
  BY SameFormat DEF NewestWins, Chain!NewestWins
<1>1. NewestFirst
  BY DEF NInv
<1>2. Merged = Chain!Revisions
  <2>1. prev = NoPrev
    BY <1>1 DEF NewestFirst
  <2>2. \A o \in Chain!Revisions : prev < o
    BY <2>1, RevisionsAre DEF NoPrev
  <2>3. QED
    BY <2>2 DEF Merged
<1>3. MergedEntry(n)
  BY <1>1 DEF NewestFirst
<1> DEFINE rs == {o \in Chain!Revisions : n \in DeclaredNums(file[o])}
<1>4. Chain!Newest(n) = IF rs = {} THEN 0 ELSE CHOOSE o \in rs : \A p \in rs : p <= o
  <2>1. {o \in Chain!Revisions : n \in Chain!DeclaredNums(file[o])} = rs
    BY SameFormat
  <2>2. Chain!Newest(n) = LET r == {o \in Chain!Revisions : n \in Chain!DeclaredNums(file[o])}
                          IN  IF r = {} THEN 0 ELSE CHOOSE o \in r : \A p \in r : p <= o
    BY DEF Chain!Newest
  <2> HIDE DEF rs
  <2>3. QED
    BY <2>1, <2>2
<1>5. \A o \in rs : o \in 1..Len(file)
  BY RevisionsAre
<1>6. CASE base.entries[n] = BlankEntry /\ \A o \in Merged : n \notin DeclaredNums(file[o])
  <2>1. rs = {}
    BY <1>2, <1>6
  <2>2. QED
    BY <1>4, <1>6, <2>1
<1>7. ASSUME NEW o \in Merged, n \in DeclaredNums(file[o]),
             \A p \in Merged : n \in DeclaredNums(file[p]) => p <= o,
             base.entries[n] = DeclaredEntry(file[o], n)
      PROVE  base.entries[n] = IF Chain!Newest(n) = 0 THEN BlankEntry
                               ELSE DeclaredEntry(file[Chain!Newest(n)], n)
  <2>1. o \in rs /\ \A p \in rs : p <= o
    BY <1>2, <1>7
  <2> HIDE DEF rs
  <2>2. \A q \in rs : (\A p \in rs : p <= q) => q = o
    <3>1. ASSUME NEW q \in rs, \A p \in rs : p <= q PROVE q = o
      <4>1. o <= q /\ q <= o /\ q \in Int /\ o \in Int
        BY <1>5, <2>1, <3>1
      <4>2. QED
        BY <4>1
    <3>2. QED
      BY <3>1
  <2>3. Chain!Newest(n) = o
    BY <1>4, <2>1, <2>2
  <2>4. o # 0
    BY <1>5, <2>1
  <2>5. QED
    BY <1>7, <2>3, <2>4
<1>8. QED
  BY <1>3, <1>6, <1>7 DEF MergedEntry

\* A file of any number of revisions is loaded so that each number has the entry of the
\* newest revision that declares it, if each /Prev is the revision before and no update
\* frees an object with an entry that setentry may overwrite.
THEOREM NewestRevisionWins == Spec => []NewestWins
<1>1. Init => MInv /\ NInv
  BY InitMInv, InitNInv
<1>2. MInv /\ NInv /\ [Next]_vars => MInv' /\ NInv'
  BY NextMInv, StepsOfChain, NextNInv
<1>3. MInv /\ NInv => NewestWins
  BY NInvNewestWins
<1>4. QED
  BY <1>1, <1>2, <1>3, PTL DEF Spec
=============================================================================
