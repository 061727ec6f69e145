------------------------ MODULE IncrementalUpdateProofs ------------------------
(***************************************************************************)
(* Proofs about a document from opening to saving and opening again, for    *)
(* any files to start from, numbers, edits and saves: what a saved file     *)
(* holds is what the file that was opened held, overridden by the edits.    *)
(***************************************************************************)
EXTENDS IncrementalUpdate, XrefFormatProofs, SequenceTheorems, TLAPS

ModifFacts == INSTANCE ModifProofs WITH Sizes <- Nat \ {0}, size <- msize

-----------------------------------------------------------------------------
(* The inductive invariant.                                                 *)

Current(n) == IF n \in 0..(size - 1) THEN entries[n] ELSE BlankEntry

\* What the revisions that are still to be read hold.
Below(n) == IF prev = NoPrev THEN BlankEntry ELSE Tables(file)[prev][n]

Document ==
  /\ status \in {"closed", "reading", "done", "aborted"}
  /\ IsFile(file)
  /\ status # "done" => ~alive
  /\ status = "closed" => xref_offset = Closed /\ prev = NoPrev
  /\ status \in {"reading", "aborted"} =>
       xref_offset = Len(file) /\ prev \in 1..Len(file) /\ IsXref(file[prev])
  /\ status = "done" => prev = NoPrev /\ xref_offset \in 1..Len(file) /\ IsXref(file[xref_offset])
  /\ alive => msize = size

\* The table has what the revisions that were read hold.
TableIsRead ==
  status \in {"reading", "done"} =>
    IF size = NoXref THEN status = "reading" /\ prev = Len(file)
    ELSE /\ size = file[xref_offset].size
         /\ DOMAIN entries = 0..(size - 1)
         /\ \A n \in 0..(size - 1) : PointsHome(file, xref_offset, n, entries[n])
         /\ \A n \in AllNums :
              Tables(file)[xref_offset][n] = IF Untouched(Current(n)) THEN Below(n) ELSE Current(n)

\* The revisions of a set have no number past s, and each /Prev is one of them or p.
Fit(S, s, p) ==
  \A o \in S : IsXref(file[o]) /\ AllFit(file[o], s) /\ file[o].prev \in S \union {NoPrev, p}

ReadFits ==
  status \in {"reading", "done"} /\ size # NoXref =>
    \E S \in SUBSET (1..xref_offset) : xref_offset \in S /\ Fit(S, size, prev)

\* A file that was saved can be read to its end.
SavedFits ==
  \/ file \in Originals
  \/ /\ status # "aborted"
     /\ \E S \in SUBSET (1..Len(file)) :
          /\ Len(file) \in S /\ Fit(S, file[Len(file)].size, NoPrev)
          /\ status = "reading" => prev \in S

HeapOK ==
  /\ content \in [Objs -> [gen : Gens, val : Vals \union {None}]]
  /\ \A o \in Objs : cell[o] # "free" => content[o].val \in Vals

\* Where a saved file differs from the one that was opened there is an edit in the log.
EditsAreLogged ==
  status = "done" =>
    \A n \in AllNums \ Modif!LogNums : StoreOf(file)[n] = StoreOf(SubSeq(file, 1, xref_offset))[n]

IInv ==
  /\ ModifFacts!IInv
  /\ Document
  /\ TableIsRead
  /\ ReadFits
  /\ SavedFits
  /\ HeapOK
  /\ EditsAreLogged

-----------------------------------------------------------------------------
(* The entries that the revisions of a file hold together.                  *)

\* The entries of a revision over those of the older ones.
Own(it) == {d \in Declared(it) : ~Untouched(d.entry)}

Over(it, older) ==
  [n \in AllNums |->
     IF \E d \in Own(it) : d.num = n THEN (CHOOSE d \in Own(it) : d.num = n).entry ELSE older[n]]

\* The entries at offset o, from those at the offsets before.
TableAt(f, g, o) ==
  IF ~IsXref(f[o]) THEN NoEntries
  ELSE Over(f[o], IF f[o].prev = NoPrev THEN NoEntries ELSE g[f[o].prev])

LEMMA RevisionOf ==
  ASSUME NEW f, IsFile(f), NEW o \in 1..Len(f), IsXref(f[o])
  PROVE  /\ IsRevision(f, o) /\ Len(f) \in Nat
         /\ DeclaresOnce(f[o])
         /\ f[o].kind = "table" => HasSections(f[o])
         /\ f[o].kind = "stream" => HasPairs(f[o])
BY DEF IsFile, IsRevision

\* TableAt reads g at an offset before o only.
LEMMA TableAtBefore ==
  ASSUME NEW f, NEW h, NEW g1, NEW g2, IsFile(f), NEW o \in 1..Len(f), h[o] = f[o],
         \A p \in 1..(o - 1) : g1[p] = g2[p]
  PROVE  TableAt(f, g1, o) = TableAt(h, g2, o)
<1>1. CASE ~IsXref(f[o])
  BY <1>1 DEF TableAt
<1>2. CASE IsXref(f[o])
  <2>1. f[o].prev # NoPrev => f[o].prev \in 1..(o - 1)
    BY <1>2 DEF IsFile, IsRevision
  <2>2. QED
    BY <1>2, <2>1 DEF TableAt
<1>3. QED
  BY <1>1, <1>2

\* Each /Prev is an offset before, so that the recursion in Tables is well-founded.
LEMMA TablesIs ==
  ASSUME NEW f, IsFile(f)
  PROVE  Tables(f) = [o \in 1..Len(f) |-> TableAt(f, Tables(f), o)]
<1> DEFINE N0 == Len(f)
           T == {m \in Nat : m <= N0 => \E g : g = [o \in 1..m |-> TableAt(f, g, o)]}
<1>1. N0 \in Nat
  BY DEF IsFile
<1> HIDE DEF N0
<1>2. 0 \in T
  <2> DEFINE g == [o \in 1..0 |-> NoEntries]
  <2>1. g = [o \in 1..0 |-> TableAt(f, g, o)]
    OBVIOUS
  <2> HIDE DEF g
  <2>2. QED
    BY <2>1
<1>3. ASSUME NEW m \in T PROVE m + 1 \in T
  <2>1. ASSUME m + 1 <= N0 PROVE \E h : h = [o \in 1..(m + 1) |-> TableAt(f, h, o)]
    <3>1. m \in Nat /\ m <= N0
      BY <2>1, <1>1
    <3>2. PICK g : g = [o \in 1..m |-> TableAt(f, g, o)]
      BY <3>1
    <3> DEFINE h == [o \in 1..(m + 1) |-> IF o <= m THEN g[o] ELSE TableAt(f, g, o)]
    <3>3. ASSUME NEW o \in 1..(m + 1) PROVE h[o] = TableAt(f, h, o)
      <4>1. \A p \in 1..(o - 1) : g[p] = h[p]
        BY <3>1
      <4>2. o \in 1..Len(f)
        BY <2>1, <3>1, <1>1 DEF N0
      <4> HIDE DEF h
      <4>3. TableAt(f, g, o) = TableAt(f, h, o)
        BY <4>1, <4>2, TableAtBefore
      <4>4. h[o] = TableAt(f, g, o)
        <5>1. CASE o <= m
          <6>1. o \in 1..m
            BY <5>1, <3>1
          <6>2. g[o] = TableAt(f, g, o)
            BY <3>2, <6>1
          <6>3. QED
            BY <5>1, <6>2 DEF h
        <5>2. CASE ~(o <= m)
          BY <5>2 DEF h
        <5>3. QED
          BY <5>1, <5>2
      <4>5. QED
        BY <4>3, <4>4
    <3>4. h = [o \in 1..(m + 1) |-> h[o]]
      OBVIOUS
    <3> HIDE DEF h
    <3>5. h = [o \in 1..(m + 1) |-> TableAt(f, h, o)]
      BY <3>3, <3>4
    <3>6. QED
      BY <3>5
  <2>2. QED
    BY <2>1
<1>4. T = Nat
  <2> HIDE DEF T
  <2>1. T \in SUBSET Nat
    BY DEF T
  <2>2. QED
    BY <2>1, <1>2, <1>3, SetInductionOnNat
<1>5. N0 \in T
  BY <1>1, <1>4
<1>6. \E g : g = [o \in 1..N0 |-> TableAt(f, g, o)]
  BY <1>1, <1>5
<1>7. Tables(f) = CHOOSE g : g = [o \in 1..N0 |-> TableAt(f, g, o)]
  BY DEF Tables, TableAt, Over, Own, N0
<1>8. QED
  BY <1>6, <1>7 DEF N0

\* Files that begin alike hold the same up to there.
LEMMA TablesOfPrefix ==
  ASSUME NEW f, NEW h, IsFile(f), IsFile(h), NEW m \in Nat, m <= Len(f), m <= Len(h),
         \A o \in 1..m : f[o] = h[o]
  PROVE  \A o \in 1..m : Tables(f)[o] = Tables(h)[o]
<1> DEFINE tf == Tables(f)
           th == Tables(h)
           T == {k \in Nat : \A o \in 1..m : o <= k => tf[o] = th[o]}
<1>1. /\ tf = [o \in 1..Len(f) |-> TableAt(f, tf, o)]
      /\ th = [o \in 1..Len(h) |-> TableAt(h, th, o)]
  BY TablesIs
<1>2. Len(f) \in Nat /\ Len(h) \in Nat
  BY DEF IsFile
<1> HIDE DEF tf, th
<1>3. 0 \in T
  OBVIOUS
<1>4. ASSUME NEW k \in T PROVE k + 1 \in T
  <2>1. ASSUME NEW o \in 1..m, o <= k + 1 PROVE tf[o] = th[o]
    <3>1. o \in 1..Len(f) /\ o \in 1..Len(h)
      BY <1>2
    <3>2. ASSUME NEW p \in 1..(o - 1) PROVE tf[p] = th[p]
      <4>1. p \in 1..m /\ p <= k
        BY <2>1
      <4>2. QED
        BY <4>1
    <3>3. TableAt(f, tf, o) = TableAt(h, th, o)
      BY <3>1, <3>2, TableAtBefore
    <3>4. tf[o] = TableAt(f, tf, o) /\ th[o] = TableAt(h, th, o)
      BY <1>1, <3>1, Zenon
    <3>5. QED
      BY <3>3, <3>4
  <2>2. QED
    BY <2>1
<1>5. T = Nat
  <2> HIDE DEF T
  <2>1. T \in SUBSET Nat
    BY DEF T
  <2>2. QED
    BY <2>1, <1>3, <1>4, SetInductionOnNat
<1>6. m \in T
  BY <1>5
<1>7. QED
  BY <1>6 DEF tf, th

\* What a revision adds to the older ones.
LEMMA TableOfRevision ==
  ASSUME NEW f, IsFile(f), NEW o \in 1..Len(f), IsXref(f[o]), NEW n \in AllNums
  PROVE  Tables(f)[o][n] =
           IF n \in DeclaredNums(f[o]) /\ ~Untouched(DeclaredEntry(f[o], n))
           THEN DeclaredEntry(f[o], n)
           ELSE IF f[o].prev = NoPrev THEN BlankEntry ELSE Tables(f)[f[o].prev][n]
<1> DEFINE it == f[o]
           tf == Tables(f)
           older == IF it.prev = NoPrev THEN NoEntries ELSE tf[it.prev]
<1>1. DeclaresOnce(it) /\ (it.kind = "table" => HasSections(it)) /\ (it.kind = "stream" => HasPairs(it))
  BY RevisionOf
<1>2. tf[o] = Over(it, older)
  <2>1. tf = [p \in 1..Len(f) |-> TableAt(f, tf, p)]
    BY TablesIs
  <2> HIDE DEF tf
  <2>2. tf[o] = TableAt(f, tf, o)
    BY <2>1, Zenon
  <2>3. QED
    BY <2>2 DEF TableAt
<1>3. \A d \in Declared(it) : d = Pair(d.num, DeclaredEntry(it, d.num))
  BY <1>1, DeclaredIsEntry
<1>4. older[n] = IF it.prev = NoPrev THEN BlankEntry ELSE tf[it.prev][n]
  BY DEF NoEntries
<1> HIDE DEF older, it, tf
<1>5. tf[o][n] = IF \E d \in Own(it) : d.num = n THEN (CHOOSE d \in Own(it) : d.num = n).entry ELSE older[n]
  BY <1>2 DEF Over
<1>6. CASE n \in DeclaredNums(it) /\ ~Untouched(DeclaredEntry(it, n))
  <2>1. PICK d \in Declared(it) : d.num = n
    BY <1>6 DEF DeclaredNums
  <2>2. d.entry = DeclaredEntry(it, n)
    BY <1>3, <2>1 DEF Pair
  <2>3. d \in Own(it) /\ d.num = n
    BY <1>6, <2>1, <2>2 DEF Own
  <2>4. ASSUME NEW e \in Own(it), e.num = n PROVE e.entry = DeclaredEntry(it, n)
    BY <1>3, <2>4 DEF Pair, Own
  <2>5. (CHOOSE e \in Own(it) : e.num = n).entry = DeclaredEntry(it, n)
    BY <2>3, <2>4
  <2>6. QED
    BY <1>5, <1>6, <2>3, <2>5 DEF it, tf
<1>7. CASE ~(n \in DeclaredNums(it) /\ ~Untouched(DeclaredEntry(it, n)))
  <2>1. ~\E d \in Own(it) : d.num = n
    <3>1. ASSUME NEW d \in Own(it), d.num = n PROVE FALSE
      <4>1. d \in Declared(it) /\ ~Untouched(d.entry)
        BY DEF Own
      <4>2. n \in DeclaredNums(it)
        BY <3>1, <4>1 DEF DeclaredNums
      <4>3. d.entry = DeclaredEntry(it, n)
        BY <1>3, <3>1, <4>1 DEF Pair
      <4>4. QED
        BY <1>7, <4>1, <4>2, <4>3
    <3>2. QED
      BY <3>1
  <2>2. QED
    BY <1>4, <1>5, <1>7, <2>1 DEF it, tf
<1>8. QED
  BY <1>6, <1>7

\* Every entry in use that the revisions hold together points at an object that is there.
LEMMA TablesPointHome ==
  ASSUME NEW f, IsFile(f)
  PROVE  \A o \in 1..Len(f) : IsXref(f[o]) => \A n \in AllNums : PointsHome(f, o, n, Tables(f)[o][n])
<1> DEFINE P(o) == IsXref(f[o]) => \A n \in AllNums : PointsHome(f, o, n, Tables(f)[o][n])
           T == {k \in Nat : \A o \in 1..Len(f) : o <= k => P(o)}
<1>1. Len(f) \in Nat
  BY DEF IsFile
<1>2. ASSUME NEW o \in 1..Len(f), IsXref(f[o]), f[o].prev # NoPrev => P(f[o].prev) PROVE P(o)
  <2> SUFFICES ASSUME NEW n \in AllNums PROVE PointsHome(f, o, n, Tables(f)[o][n])
    OBVIOUS
  <2> DEFINE e == DeclaredEntry(f[o], n)
             tf == Tables(f)
  <2>1. IsRevision(f, o)
    BY <1>2, RevisionOf
  <2>2. tf[o][n] = IF n \in DeclaredNums(f[o]) /\ ~Untouched(e) THEN e
                   ELSE IF f[o].prev = NoPrev THEN BlankEntry ELSE tf[f[o].prev][n]
    BY <1>2, TableOfRevision
  <2>3. n \in DeclaredNums(f[o]) => PointsHome(f, o, n, e)
    BY <2>1 DEF IsRevision
  <2>4. PointsHome(f, o, n, BlankEntry)
    BY DEF PointsHome, BlankEntry, Entry, F, N
  <2> HIDE DEF e
  <2>5. f[o].prev # NoPrev => PointsHome(f, o, n, tf[f[o].prev][n])
    <3>1. SUFFICES ASSUME f[o].prev # NoPrev PROVE PointsHome(f, o, n, tf[f[o].prev][n])
      OBVIOUS
    <3>2. f[o].prev \in 1..(o - 1) /\ IsXref(f[f[o].prev])
      BY <2>1, <3>1 DEF IsRevision
    <3>3. PointsHome(f, f[o].prev, n, tf[f[o].prev][n])
      BY <1>2, <3>1, <3>2
    <3> DEFINE p == f[o].prev
    <3>4. \A a \in 1..p : a \in 1..o
      BY <3>2
    <3> HIDE DEF p
    <3>5. QED
      BY <3>3, <3>4 DEF PointsHome, p
  <2> HIDE DEF tf
  <2>6. PointsHome(f, o, n, tf[o][n])
    BY <2>2, <2>3, <2>4, <2>5
  <2>7. QED
    BY <2>6 DEF tf
<1> HIDE DEF P
<1>3. 0 \in T
  OBVIOUS
<1>4. ASSUME NEW k \in T PROVE k + 1 \in T
  <2>1. ASSUME NEW o \in 1..Len(f), o <= k + 1 PROVE P(o)
    <3>1. CASE ~IsXref(f[o])
      BY <3>1 DEF P
    <3>2. CASE IsXref(f[o])
      <4>1. f[o].prev # NoPrev => f[o].prev \in 1..(o - 1)
        BY <3>2, RevisionOf DEF IsRevision
      <4>2. f[o].prev # NoPrev => P(f[o].prev)
        <5>1. SUFFICES ASSUME f[o].prev # NoPrev PROVE P(f[o].prev)
          OBVIOUS
        <5> DEFINE p == f[o].prev
        <5>2. p \in 1..(o - 1)
          BY <4>1, <5>1
        <5> HIDE DEF p
        <5>3. p \in 1..Len(f) /\ p <= k
          BY <1>1, <2>1, <5>2
        <5>4. P(p)
          BY <5>3
        <5>5. QED
          BY <5>4 DEF p
      <4>3. QED
        BY <1>2, <3>2, <4>2
    <3>3. QED
      BY <3>1, <3>2
  <2>2. QED
    BY <2>1
<1>5. T = Nat
  <2> HIDE DEF T
  <2>1. T \in SUBSET Nat
    BY DEF T
  <2>2. QED
    BY <2>1, <1>3, <1>4, SetInductionOnNat
<1>6. Len(f) \in T
  BY <1>1, <1>5
<1>7. \A o \in 1..Len(f) : P(o)
  BY <1>6
<1>8. QED
  BY <1>7 DEF P

-----------------------------------------------------------------------------
(* The log.                                                                 *)

LEMMA NumsAre == Nums \subseteq Nat /\ Nums \subseteq AllNums /\ AllNums \subseteq Nat
BY NumsAssumption DEF Nums, AllNums

LEMMA LogAssumptions == ModifFacts!NumsAssumption /\ ModifFacts!SizesAssumption
BY NumsAre DEF ModifFacts!NumsAssumption, ModifFacts!SizesAssumption

\* The actions on the log are those of Modif.
LEMMA LogSteps ==
  ASSUME \/ \E o \in Objs, n \in Nums : Modif!MakeIndObj(o, n)
         \/ \E s \in Nat \ {0} : Modif!New(s)
         \/ \E o \in Objs : Modif!AddEntry(o)
         \/ Modif!Destroy
         \/ UNCHANGED modif
  PROVE  [ModifFacts!Next]_ModifFacts!vars
BY DEF ModifFacts!Next, ModifFacts!vars, modif,
       Modif!MakeIndObj, ModifFacts!MakeIndObj, Modif!New, ModifFacts!New,
       Modif!InitialMax, ModifFacts!InitialMax, Modif!AddEntry, ModifFacts!AddEntry,
       Modif!Destroy, ModifFacts!Destroy, Modif!NoNum, ModifFacts!NoNum,
       Modif!IsPosition, ModifFacts!IsPosition, Modif!ReplaceEntry, ModifFacts!ReplaceEntry,
       Modif!InsertEntry, ModifFacts!InsertEntry, Modif!NodeOf, ModifFacts!NodeOf,
       Modif!TakeOver, ModifFacts!TakeOver, Modif!Raise, ModifFacts!Raise,
       Modif!InLog, ModifFacts!InLog, Modif!Released, ModifFacts!Released,
       Modif!ReplaceAt, ModifFacts!ReplaceAt, Modif!InsertAt, ModifFacts!InsertAt

LEMMA LogKept == ModifFacts!IInv /\ [ModifFacts!Next]_ModifFacts!vars => ModifFacts!IInv'
BY LogAssumptions, ModifFacts!NextIInv

\* What the invariant of the log says, about the log as this module uses it.
LEMMA LogFacts ==
  ASSUME ModifFacts!IInv
  PROVE  /\ Modif!TypeOK /\ alive \in BOOLEAN /\ max_obj_num \in Nat /\ msize \in Nat
         /\ Len(log) \in Nat
         /\ \A i \in 1..Len(log) :
              /\ log[i].obj_num \in Nums /\ log[i].ind_obj \in Objs
              /\ log[i].obj_num \in Nat /\ log[i].obj_num <= max_obj_num
              /\ cell[log[i].ind_obj] = "log" /\ num[log[i].ind_obj] = log[i].obj_num
         /\ \A i, j \in 1..Len(log) : i < j => log[i].obj_num < log[j].obj_num
         /\ ~alive => log = <<>>
         /\ alive => max_obj_num >= msize - 1
<1>1. ModifFacts!TypeOK
  BY DEF ModifFacts!IInv
<1>2. ModifFacts!Nodes = Modif!Nodes /\ ModifFacts!NoNum = Modif!NoNum
  BY DEF ModifFacts!Nodes, Modif!Nodes, ModifFacts!NoNum, Modif!NoNum
<1>3. Modif!TypeOK
  BY <1>1, <1>2 DEF ModifFacts!TypeOK, Modif!TypeOK
<1>4. \A i \in 1..Len(log) : log[i] \in Modif!Nodes
  BY <1>3, ElementOfSeq DEF Modif!TypeOK
<1>5. \A i \in 1..Len(log) : log[i].obj_num \in Nums /\ log[i].ind_obj \in Objs /\ log[i].obj_num \in Nat
  BY <1>4, NumsAre DEF Modif!Nodes
<1>6. ~alive => log = <<>>
  BY DEF ModifFacts!IInv, ModifFacts!NoLogNoNodes
<1>7. Len(log) \in Nat
  BY <1>3 DEF Modif!TypeOK
<1>8. \A i \in 1..Len(log) : log[i].obj_num <= max_obj_num
  BY <1>6 DEF ModifFacts!IInv, ModifFacts!NextNumberIsFresh
<1>9. QED
  BY <1>3, <1>5, <1>6, <1>7, <1>8
     DEF ModifFacts!IInv, ModifFacts!Sorted, ModifFacts!Ownership, ModifFacts!NextNumberIsFresh, Modif!TypeOK

LEMMA SameLog == ModifFacts!LogNums = Modif!LogNums /\ ModifFacts!PendingMap = Modif!PendingMap
BY DEF ModifFacts!LogNums, Modif!LogNums, ModifFacts!PendingMap, Modif!PendingMap

\* The edit of a number is the content of the cell that the log holds under it.
LEMMA EditOf ==
  ASSUME ModifFacts!IInv
  PROVE  /\ DOMAIN PendingEdits = Modif!LogNums
         /\ Modif!LogNums \subseteq Nums
         /\ \A i \in 1..Len(log) : /\ log[i].obj_num \in Modif!LogNums
                                   /\ PendingEdits[log[i].obj_num] = content[log[i].ind_obj].val
<1>1. ModifFacts!PendingIsLog
  BY LogAssumptions, ModifFacts!PendingMapIsLog
<1>2. \A i \in 1..Len(log) : log[i].obj_num \in Modif!LogNums
  BY DEF Modif!LogNums
<1>3. \A i \in 1..Len(log) : Modif!PendingMap[log[i].obj_num] = log[i].ind_obj
  BY <1>1, <1>2, SameLog DEF ModifFacts!PendingIsLog
<1>4. Modif!LogNums \subseteq Nums
  BY LogFacts DEF Modif!LogNums
<1>5. QED
  BY <1>2, <1>3, <1>4 DEF PendingEdits

-----------------------------------------------------------------------------
(* The steps but Save keep the invariant.                                   *)

LEMMA SameFormat ==
  /\ Loader!NoXref = NoXref /\ Loader!NoPrev = NoPrev /\ Loader!BlankEntry = BlankEntry
  /\ \A n : Loader!BlankTable(n) = BlankTable(n)
  /\ \A it : Loader!IsXref(it) = IsXref(it) /\ Loader!DeclaredNums(it) = DeclaredNums(it)
  /\ \A it, n : Loader!AllFit(it, n) = AllFit(it, n) /\ Loader!DeclaredEntry(it, n) = DeclaredEntry(it, n)
  /\ \A es, it : Loader!Merge(es, it) = Merge(es, it)
BY DEF Loader!NoXref, NoXref, Loader!NoPrev, NoPrev, Loader!BlankEntry, BlankEntry, Loader!BlankTable,
       BlankTable, Loader!IsXref, IsXref, Loader!DeclaredNums, DeclaredNums, Loader!AllFit, AllFit,
       Loader!DeclaredEntry, DeclaredEntry, Loader!Merge, Merge, Loader!Entry, Entry, Loader!F, F,
       Loader!Declared, Declared, Loader!TableEntries, TableEntries, Loader!StreamEntries,
       StreamEntries, Loader!Pair, Pair, Loader!PairStart, PairStart, Loader!Fits, Fits,
       Loader!Untouched, Untouched

\* The steps of the loader, in the names of this module.
LEMMA LoadSteps ==
  /\ LoadRevision =>
       /\ status = "reading" /\ IsXref(file[prev])
       /\ LET it == file[prev]
              s == IF size = NoXref THEN it.size ELSE size
              table == IF size = NoXref THEN BlankTable(it.size) ELSE entries
          IN  AllFit(it, s) /\ size' = s /\ entries' = Merge(table, it)
       /\ prev' = file[prev].prev
       /\ status' = IF file[prev].prev = NoPrev THEN "done" ELSE "reading"
       /\ UNCHANGED <<file, xref_offset, modif, content>>
  /\ LoadAborts =>
       /\ status = "reading"
       /\ ~AllFit(file[prev], IF size = NoXref THEN file[prev].size ELSE size)
       /\ status' = "aborted"
       /\ UNCHANGED <<file, prev, size, entries, xref_offset, modif, content>>
<1>1. LoadRevision => Loader!ReadRevision /\ UNCHANGED <<xref_offset, modif, content>>
  BY DEF LoadRevision
<1>2. LoadAborts => Loader!Overflow /\ UNCHANGED <<xref_offset, modif, content>>
  BY DEF LoadAborts
<1>3. QED
  BY <1>1, <1>2, SameFormat DEF Loader!ReadRevision, Loader!Overflow, Loader!TableSize, Loader!Table, Loader!NextRevision

LEMMA InitHolds == Init => IInv
<1> SUFFICES ASSUME Init PROVE IInv
  OBVIOUS
<1>1. ModifFacts!Init
  BY DEF Init, ModifFacts!Init, Modif!NoNum, ModifFacts!NoNum
<1>2. ModifFacts!IInv
  BY <1>1, LogAssumptions, ModifFacts!InitIInv
<1>3. file \in Originals /\ IsFile(file)
  BY OriginalsAssumption DEF Init
<1>4. Document
  BY <1>3 DEF Init, Document
<1>5. TableIsRead /\ ReadFits /\ EditsAreLogged
  BY DEF Init, TableIsRead, ReadFits, EditsAreLogged
<1>6. SavedFits
  BY <1>3 DEF SavedFits
<1>7. HeapOK
  BY DEF Init, HeapOK, Nothing, Gens
<1>8. QED
  BY <1>2, <1>4, <1>5, <1>6, <1>7 DEF IInv

LEMMA OpenHolds == IInv /\ Open => IInv'
<1> SUFFICES ASSUME IInv, Open PROVE IInv'
  OBVIOUS
<1>1. ModifFacts!IInv'
  BY LogSteps, LogKept DEF IInv, Open
<1>2. /\ file' = file /\ xref_offset' = Len(file) /\ prev' = Len(file) /\ size' = NoXref
      /\ status' = "reading" /\ alive' = alive
  BY DEF Open, modif
<1>3. Len(file) \in 1..Len(file) /\ IsXref(file[Len(file)])
  BY DEF IInv, Document, IsFile
<1>4. Document'
  BY <1>2, <1>3 DEF IInv, Document, Open
<1>5. TableIsRead' /\ ReadFits'
  BY <1>2 DEF TableIsRead, ReadFits
<1>6. SavedFits'
  BY <1>2 DEF IInv, SavedFits, Fit, Open
<1>7. HeapOK' /\ EditsAreLogged'
  BY <1>2 DEF IInv, HeapOK, EditsAreLogged, Open, modif
<1>8. QED
  BY <1>1, <1>4, <1>5, <1>6, <1>7 DEF IInv

LEMMA LoadAbortsHolds == IInv /\ LoadAborts => IInv'
<1> SUFFICES ASSUME IInv, LoadAborts PROVE IInv'
  OBVIOUS
<1>1. /\ status = "reading" /\ status' = "aborted"
      /\ ~AllFit(file[prev], IF size = NoXref THEN file[prev].size ELSE size)
      /\ UNCHANGED <<file, prev, size, entries, xref_offset, modif, content>>
  BY LoadSteps
<1>2. ModifFacts!IInv'
  BY <1>1, LogSteps, LogKept DEF IInv
<1>3. Document'
  BY <1>1 DEF IInv, Document, modif
<1>4. TableIsRead' /\ ReadFits' /\ EditsAreLogged'
  BY <1>1 DEF TableIsRead, ReadFits, EditsAreLogged
<1>5. SavedFits'
  <2>1. CASE file \in Originals
    BY <1>1, <2>1 DEF SavedFits
  <2>2. CASE file \notin Originals
    <3>1. PICK S \in SUBSET (1..Len(file)) :
            /\ Len(file) \in S /\ Fit(S, file[Len(file)].size, NoPrev)
            /\ prev \in S
      BY <1>1, <2>2 DEF IInv, SavedFits
    <3>2. AllFit(file[prev], file[Len(file)].size)
      BY <3>1 DEF Fit
    <3>3. size = NoXref => prev = Len(file)
      BY <1>1 DEF IInv, TableIsRead
    <3>4. size # NoXref => size = file[Len(file)].size
      BY <1>1 DEF IInv, TableIsRead, Document
    <3>5. QED
      BY <1>1, <3>2, <3>3, <3>4
  <2>3. QED
    BY <2>1, <2>2
<1>6. HeapOK'
  BY <1>1 DEF IInv, HeapOK, modif
<1>7. QED
  BY <1>2, <1>3, <1>4, <1>5, <1>6 DEF IInv

\* What the loader did does not depend on the log and the heap.
LEMMA LoaderKept ==
  ASSUME IInv, UNCHANGED <<file, prev, size, entries, status, xref_offset>>
  PROVE  TableIsRead' /\ ReadFits' /\ SavedFits'
BY DEF IInv, TableIsRead, ReadFits, SavedFits, Current, Below, Fit

LEMMA NewLogHolds == IInv /\ NewLog => IInv'
<1> SUFFICES ASSUME IInv, NewLog PROVE IInv'
  OBVIOUS
<1>1. /\ status = "done" /\ Modif!New(size)
      /\ UNCHANGED <<file, prev, size, entries, status, xref_offset, content>>
  BY DEF NewLog, loader
<1>2. size \in Nat \ {0}
  <2>1. size = file[xref_offset].size
    BY <1>1 DEF IInv, TableIsRead
  <2>2. IsRevision(file, xref_offset)
    BY <1>1, RevisionOf DEF IInv, Document
  <2>3. QED
    BY <2>1, <2>2 DEF IsRevision
<1>3. ModifFacts!IInv'
  BY <1>1, <1>2, LogSteps, LogKept DEF IInv
<1>4. ~alive /\ log = <<>> /\ log' = <<>> /\ msize' = size /\ cell' = cell
  BY <1>1, LogFacts DEF Modif!New, IInv
<1>5. Document'
  BY <1>1, <1>4 DEF IInv, Document
<1>6. TableIsRead' /\ ReadFits' /\ SavedFits'
  BY <1>1, LoaderKept
<1>7. EditsAreLogged'
  <2>1. Modif!LogNums' = Modif!LogNums
    BY <1>4 DEF Modif!LogNums
  <2>2. QED
    BY <1>1, <2>1 DEF IInv, EditsAreLogged
<1>8. HeapOK'
  BY <1>1, <1>4 DEF IInv, HeapOK
<1>9. QED
  BY <1>3, <1>5, <1>6, <1>7, <1>8 DEF IInv

\* The generation of an object that the table knows is the one in the file.
LEMMA GenOfIsGen ==
  ASSUME IInv, status = "done", NEW n \in Nums
  PROVE  GenOf(n) \in Gens /\ Lookup(n) \in Vals \union {None}
<1>1. n \in Nat
  BY NumsAre
<1>2. size \in Nat /\ \A m \in 0..(size - 1) : PointsHome(file, xref_offset, m, entries[m])
  <2>1. IsRevision(file, xref_offset)
    BY RevisionOf DEF IInv, Document
  <2>2. QED
    BY <2>1 DEF IInv, TableIsRead, IsRevision
<1>3. n < size => PointsHome(file, xref_offset, n, entries[n])
  BY <1>1, <1>2
<1>4. QED
  BY <1>3 DEF GenOf, Lookup, ObjectAt, PointsHome, Gens

LEMMA MakeObjectHolds ==
  ASSUME IInv, NEW o \in Objs, NEW n \in Nums, NEW v \in Vals, MakeObject(o, n, v)
  PROVE  IInv'
<1>1. /\ status = "done" /\ Modif!MakeIndObj(o, n)
      /\ content' = [content EXCEPT ![o] = [gen |-> GenOf(n), val |-> v]]
      /\ UNCHANGED <<file, prev, size, entries, status, xref_offset>>
  BY DEF MakeObject, loader
<1>2. ModifFacts!IInv'
  BY <1>1, LogSteps, LogKept DEF IInv
<1>3. /\ alive' = alive /\ log' = log /\ msize' = msize
      /\ cell' = [cell EXCEPT ![o] = "caller"]
  BY <1>1 DEF Modif!MakeIndObj
<1>4. Document'
  BY <1>1, <1>3 DEF IInv, Document
<1>5. TableIsRead' /\ ReadFits' /\ SavedFits'
  BY <1>1, LoaderKept
<1>6. EditsAreLogged'
  <2>1. Modif!LogNums' = Modif!LogNums
    BY <1>3 DEF Modif!LogNums
  <2>2. QED
    BY <1>1, <2>1 DEF IInv, EditsAreLogged
<1>7. HeapOK'
  <2>1. GenOf(n) \in Gens
    BY <1>1, GenOfIsGen
  <2>2. cell \in [Objs -> {"free", "caller", "log"}]
    BY LogFacts DEF IInv, Modif!TypeOK
  <2>3. QED
    BY <1>1, <1>3, <2>1, <2>2 DEF IInv, HeapOK
<1>8. QED
  BY <1>2, <1>4, <1>5, <1>6, <1>7 DEF IInv

\* Cells that the log frees lose their content, the others keep it.
LEMMA FreedKeepsHeap ==
  ASSUME HeapOK, content' = Freed, cell \in [Objs -> {"free", "caller", "log"}],
         \A o \in Objs : cell'[o] # "free" => cell[o] # "free"
  PROVE  HeapOK'
BY DEF HeapOK, Freed, Nothing, Gens

\* The log owns the cells that it holds.
LEMMA LogCells ==
  ModifFacts!IInv =>
    \A m \in Modif!LogNums : Modif!PendingMap[m] \in Objs /\ cell[Modif!PendingMap[m]] = "log"
<1> SUFFICES ASSUME ModifFacts!IInv, NEW m \in Modif!LogNums
             PROVE  Modif!PendingMap[m] \in Objs /\ cell[Modif!PendingMap[m]] = "log"
  OBVIOUS
<1>1. ModifFacts!PendingIsLog
  BY LogAssumptions, ModifFacts!PendingMapIsLog
<1>2. PICK i \in 1..Len(log) : log[i].obj_num = m
  BY DEF Modif!LogNums
<1>3. Modif!PendingMap[m] = log[i].ind_obj
  BY <1>1, <1>2, SameLog DEF ModifFacts!PendingIsLog
<1>4. QED
  BY <1>3, LogFacts

\* What a step that adds an object to the log does to the cells and to the edits.
LEMMA AddEntryEdits ==
  ASSUME IInv, ModifFacts!IInv', NEW o \in Objs, AddEntry(o)
  PROVE  /\ num[o] \in Nums /\ content[o].val \in Vals
         /\ PendingEdits' = [m \in Modif!LogNums \union {num[o]} |->
                               IF m = num[o] THEN content[o].val ELSE PendingEdits[m]]
         /\ Modif!LogNums' = Modif!LogNums \union {num[o]}
         /\ \A x \in Objs : cell'[x] # "free" => cell[x] # "free"
         /\ alive' = alive /\ msize' = msize
<1>1. ModifFacts!IInv /\ HeapOK /\ Modif!AddEntry(o) /\ content' = Freed
  BY DEF IInv, AddEntry
<1>2. ModifFacts!AddEntry(o)
  BY <1>1 DEF
       Modif!NoNum, ModifFacts!NoNum, Modif!AddEntry, ModifFacts!AddEntry,
       Modif!IsPosition, ModifFacts!IsPosition, Modif!ReplaceEntry, ModifFacts!ReplaceEntry,
       Modif!InsertEntry, ModifFacts!InsertEntry, Modif!NodeOf, ModifFacts!NodeOf,
       Modif!TakeOver, ModifFacts!TakeOver, Modif!Raise, ModifFacts!Raise,
       Modif!ReplaceAt, ModifFacts!ReplaceAt, Modif!InsertAt, ModifFacts!InsertAt
<1>3. /\ num[o] \in Nums
      /\ ModifFacts!PendingMap' =
           [m \in ModifFacts!LogNums \union {num[o]} |-> IF m = num[o] THEN o ELSE ModifFacts!PendingMap[m]]
  BY <1>1, <1>2, LogAssumptions, ModifFacts!AddEntryPending
<1>4. /\ Modif!LogNums' = Modif!LogNums \union {num[o]}
      /\ \A m \in Modif!LogNums' : Modif!PendingMap'[m] = IF m = num[o] THEN o ELSE Modif!PendingMap[m]
  <2>1. (ModifFacts!LogNums = Modif!LogNums /\ ModifFacts!PendingMap = Modif!PendingMap)'
    BY SameLog, PTL
  <2>2. Modif!PendingMap' =
          [m \in Modif!LogNums \union {num[o]} |-> IF m = num[o] THEN o ELSE Modif!PendingMap[m]]
    BY <1>3, <2>1, SameLog
  <2>3. DOMAIN Modif!PendingMap' = Modif!LogNums'
    BY DEF Modif!PendingMap
  <2>4. QED
    BY <2>2, <2>3
<1>5. cell \in [Objs -> {"free", "caller", "log"}] /\ cell[o] = "caller"
  BY <1>1, LogFacts DEF Modif!TypeOK, Modif!AddEntry
<1>6. alive' = alive /\ msize' = msize
  BY <1>1 DEF Modif!AddEntry, Modif!ReplaceEntry, Modif!InsertEntry
<1>7. \A x \in Objs : cell'[x] # "free" => cell[x] # "free"
  BY <1>1, <1>5 DEF Modif!AddEntry, Modif!ReplaceEntry, Modif!InsertEntry, Modif!TakeOver
<1>8. (\A m \in Modif!LogNums : Modif!PendingMap[m] \in Objs /\ cell[Modif!PendingMap[m]] = "log")'
  BY <1>1, LogCells, PTL
<1>9. \A m \in Modif!LogNums' : content'[Modif!PendingMap'[m]] = content[Modif!PendingMap'[m]]
  BY <1>1, <1>8 DEF Freed
<1>10. PendingEdits' = [m \in Modif!LogNums' |-> content[Modif!PendingMap'[m]].val]
  BY <1>9 DEF PendingEdits
<1>11. \A m \in Modif!LogNums : PendingEdits[m] = content[Modif!PendingMap[m]].val
  BY DEF PendingEdits
<1>12. content[o].val \in Vals
  BY <1>1, <1>5 DEF HeapOK
<1>13. ASSUME NEW m \in Modif!LogNums \union {num[o]}
       PROVE  content[Modif!PendingMap'[m]].val = IF m = num[o] THEN content[o].val ELSE PendingEdits[m]
  BY <1>4, <1>11
<1>14. PendingEdits' = [m \in Modif!LogNums \union {num[o]} |->
                          IF m = num[o] THEN content[o].val ELSE PendingEdits[m]]
  BY <1>4, <1>10, <1>13
<1>15. QED
  BY <1>3, <1>4, <1>6, <1>7, <1>12, <1>14

LEMMA AddEntryHolds ==
  ASSUME IInv, NEW o \in Objs, AddEntry(o)
  PROVE  IInv'
<1>1. /\ status = "done" /\ Modif!AddEntry(o) /\ content' = Freed
      /\ UNCHANGED <<file, prev, size, entries, status, xref_offset>>
  BY DEF AddEntry, loader
<1>2. ModifFacts!IInv'
  BY <1>1, LogSteps, LogKept DEF IInv
<1>3. /\ Modif!LogNums' = Modif!LogNums \union {num[o]}
      /\ \A x \in Objs : cell'[x] # "free" => cell[x] # "free"
      /\ alive' = alive /\ msize' = msize
  BY <1>2, AddEntryEdits
<1>4. Document'
  BY <1>1, <1>3 DEF IInv, Document
<1>5. TableIsRead' /\ ReadFits' /\ SavedFits'
  BY <1>1, LoaderKept
<1>6. EditsAreLogged'
  BY <1>1, <1>3 DEF IInv, EditsAreLogged
<1>7. HeapOK'
  <2>1. cell \in [Objs -> {"free", "caller", "log"}]
    BY LogFacts DEF IInv, Modif!TypeOK
  <2>2. QED
    BY <1>1, <1>3, <2>1, FreedKeepsHeap DEF IInv
<1>8. QED
  BY <1>2, <1>4, <1>5, <1>6, <1>7 DEF IInv

LEMMA CloseDocHolds == IInv /\ CloseDoc => IInv'
<1> SUFFICES ASSUME IInv, CloseDoc PROVE IInv'
  OBVIOUS
<1>1. /\ status = "done" /\ status' = "closed" /\ xref_offset' = Closed /\ prev' = NoPrev
      /\ content' = Freed /\ file' = file
      /\ IF alive THEN Modif!Destroy ELSE UNCHANGED modif
  BY DEF CloseDoc
<1>2. ModifFacts!IInv'
  BY <1>1, LogSteps, LogKept DEF IInv
<1>3. ~alive'
  BY <1>1 DEF Modif!Destroy, modif
<1>4. Document'
  BY <1>1, <1>3 DEF IInv, Document
<1>5. TableIsRead' /\ ReadFits' /\ EditsAreLogged'
  BY <1>1 DEF TableIsRead, ReadFits, EditsAreLogged
<1>6. SavedFits'
  BY <1>1 DEF IInv, SavedFits, Fit
<1>7. HeapOK'
  <2>1. cell \in [Objs -> {"free", "caller", "log"}]
    BY LogFacts DEF IInv, Modif!TypeOK
  <2>2. \A x \in Objs : cell'[x] # "free" => cell[x] # "free"
    BY <1>1 DEF Modif!Destroy, Modif!Released, modif
  <2>3. QED
    BY <1>1, <2>1, <2>2, FreedKeepsHeap DEF IInv
<1>8. QED
  BY <1>2, <1>4, <1>5, <1>6, <1>7 DEF IInv

Items(f) == {f[o] : o \in 1..Len(f)}

\* A prefix of a file.
LEMMA PrefixOf ==
  ASSUME NEW f, IsFile(f), NEW m \in 1..Len(f)
  PROVE  /\ f \in Seq(Items(f)) /\ Len(f) \in Nat
         /\ SubSeq(f, 1, m) \in Seq(Items(f)) /\ Len(SubSeq(f, 1, m)) = m
         /\ \A o \in 1..m : SubSeq(f, 1, m)[o] = f[o]
         /\ m = Len(f) => SubSeq(f, 1, m) = f
<1>1. Len(f) \in Nat /\ f = [o \in 1..Len(f) |-> f[o]]
  BY DEF IsFile
<1>2. f \in Seq(Items(f))
  <2>1. f \in [1..Len(f) -> Items(f)]
    <3>1. \A o \in 1..Len(f) : f[o] \in Items(f)
      BY DEF Items
    <3>2. QED
      BY <1>1, <3>1
  <2>2. QED
    BY <1>1, <2>1, SeqDef
<1> DEFINE T == Items(f)
<1> HIDE DEF T
<1>3. f \in Seq(T)
  BY <1>2 DEF T
<1>4. /\ SubSeq(f, 1, m) \in Seq(T) /\ Len(SubSeq(f, 1, m)) = m
      /\ \A o \in 1..m : SubSeq(f, 1, m)[o] = f[o]
  BY <1>1, <1>3, SubSeqProperties
<1>5. m = Len(f) => SubSeq(f, 1, m) = f
  BY <1>3, <1>4, SeqEqual
<1>6. QED
  BY <1>1, <1>2, <1>4, <1>5 DEF T

LEMMA FartherPointsHome ==
  ASSUME NEW f, NEW p \in Nat, NEW o \in Nat, p <= o, NEW n, NEW e, PointsHome(f, p, n, e)
  PROVE  PointsHome(f, o, n, e)
BY DEF PointsHome

LEMMA LoadRevisionHolds == IInv /\ LoadRevision => IInv'
<1> SUFFICES ASSUME IInv, LoadRevision PROVE IInv'
  OBVIOUS
<1> DEFINE it == file[prev]
           s == IF size = NoXref THEN it.size ELSE size
           table == IF size = NoXref THEN BlankTable(it.size) ELSE entries
           T == Tables(file)
<1>1. /\ status = "reading" /\ IsXref(it)
      /\ AllFit(it, s) /\ size' = s /\ entries' = Merge(table, it)
      /\ prev' = it.prev
      /\ status' = IF it.prev = NoPrev THEN "done" ELSE "reading"
      /\ UNCHANGED <<file, xref_offset, modif, content>>
  BY LoadSteps
<1>2. /\ IsFile(file) /\ Len(file) \in Nat /\ xref_offset = Len(file) /\ prev \in 1..Len(file)
      /\ ~alive /\ NoXref = -1 /\ NoPrev = -1 /\ Len(file) \in 1..Len(file) /\ IsXref(file[Len(file)])
  BY <1>1 DEF IInv, Document, NoXref, NoPrev, IsFile
<1>3. IsRevision(file, prev)
  BY <1>1, <1>2, RevisionOf
<1>4. /\ DeclaresOnce(it)
      /\ it.kind = "table" => HasSections(it)
      /\ it.kind = "stream" => HasPairs(it)
      /\ it.size \in Nat \ {0}
      /\ it.prev # NoPrev => it.prev \in 1..(prev - 1) /\ IsXref(file[it.prev])
      /\ \A n \in DeclaredNums(it) : PointsHome(file, prev, n, DeclaredEntry(it, n))
  BY <1>3 DEF IsRevision
<1>5. size # NoXref =>
        /\ size = file[xref_offset].size /\ DOMAIN entries = 0..(size - 1)
        /\ \A n \in 0..(size - 1) : PointsHome(file, xref_offset, n, entries[n])
  BY <1>1 DEF IInv, TableIsRead
<1>6. size = NoXref => prev = Len(file)
  BY <1>1 DEF IInv, TableIsRead
<1>7. s \in Nat \ {0} /\ s = file[xref_offset].size
  <2>1. file[Len(file)].size \in Nat \ {0}
    BY <1>2, RevisionOf DEF IsRevision
  <2>2. QED
    BY <1>2, <1>4, <1>5, <1>6, <2>1
<1>8. DOMAIN table = 0..(s - 1)
  BY <1>5 DEF BlankTable
<1>9. \A n \in 0..(s - 1) : PointsHome(file, xref_offset, n, table[n])
  BY SMTT(30), <1>5 DEF BlankTable, BlankEntry, Entry, PointsHome, F, N
<1>10. \A n \in DeclaredNums(it) : n \in 0..(s - 1)
  BY <1>1, <1>4, <1>7, FitDeclares
<1> DEFINE Now(n) == IF n \in 0..(s - 1) THEN table[n] ELSE BlankEntry
<1>11. Untouched(BlankEntry)
  BY DEF Untouched, BlankEntry, Entry
<1>12. \A n \in AllNums : T[xref_offset][n] = IF Untouched(Now(n)) THEN T[prev][n] ELSE Now(n)
  <2>1. CASE size = NoXref
    <3>1. \A n \in AllNums : Now(n) = BlankEntry
      BY <2>1 DEF BlankTable
    <3> HIDE DEF Now
    <3>2. QED
      BY <1>2, <1>6, <1>11, <2>1, <3>1
  <2>2. CASE size # NoXref
    <3>1. \A n \in AllNums : Now(n) = Current(n) /\ Below(n) = T[prev][n]
      BY <1>2, <2>2 DEF Current, Below
    <3>2. \A n \in AllNums : T[xref_offset][n] = IF Untouched(Current(n)) THEN Below(n) ELSE Current(n)
      BY <1>1, <2>2 DEF IInv, TableIsRead
    <3> HIDE DEF Now, T
    <3>3. QED
      BY <3>1, <3>2
  <2>3. QED
    BY <2>1, <2>2
<1> DEFINE old(n) == IF it.prev = NoPrev THEN BlankEntry ELSE T[it.prev][n]
<1>13. \A n \in AllNums : T[prev][n] = IF n \in DeclaredNums(it) /\ ~Untouched(DeclaredEntry(it, n))
                                       THEN DeclaredEntry(it, n) ELSE old(n)
  BY <1>1, <1>2, TableOfRevision
<1>14. \A n : Below(n)' = old(n)
  BY <1>1 DEF Below
<1>15. /\ DOMAIN entries' = 0..(s - 1)
       /\ \A n \in 0..(s - 1) : entries'[n] = IF n \in DeclaredNums(it) /\ Untouched(table[n])
                                             THEN DeclaredEntry(it, n) ELSE table[n]
  <2> HIDE DEF table, it, s
  <2>1. QED
    BY <1>1, <1>8 DEF Merge
<1>16. \A n : Current(n)' = IF n \in 0..(s - 1) THEN entries'[n] ELSE BlankEntry
  BY <1>1 DEF Current
<1>17. /\ size' = s /\ s # NoXref /\ file' = file /\ xref_offset' = xref_offset
  BY <1>1, <1>2, <1>7
<1> HIDE DEF it, table, s, T, old
<1>18. ASSUME NEW n \in AllNums
       PROVE  T[xref_offset][n] = IF Untouched(Current(n)') THEN Below(n)' ELSE Current(n)'
  <2>1. Below(n)' = old(n)
    BY <1>14
  <2>2. Current(n)' = IF n \in DeclaredNums(it) /\ Untouched(Now(n)) THEN DeclaredEntry(it, n) ELSE Now(n)
    BY <1>10, <1>15, <1>16
  <2>3. /\ T[xref_offset][n] = IF Untouched(Now(n)) THEN T[prev][n] ELSE Now(n)
        /\ T[prev][n] = IF n \in DeclaredNums(it) /\ ~Untouched(DeclaredEntry(it, n))
                        THEN DeclaredEntry(it, n) ELSE old(n)
    BY <1>12, <1>13
  <2> HIDE DEF Now
  <2>4. QED
    BY <2>1, <2>2, <2>3
<1>19. ASSUME NEW n \in 0..(s - 1) PROVE PointsHome(file, xref_offset, n, entries'[n])
  <2>1. n \in DeclaredNums(it) => PointsHome(file, xref_offset, n, DeclaredEntry(it, n))
    BY <1>2, <1>4, FartherPointsHome
  <2>2. QED
    BY <1>9, <1>15, <2>1
<1>20. TableIsRead'
  BY <1>7, <1>15, <1>17, <1>18, <1>19 DEF TableIsRead, T
<1>21. ReadFits'
  <2>1. ASSUME NEW S \in SUBSET (1..xref_offset), xref_offset \in S, Fit(S, s, it.prev)
        PROVE  ReadFits'
    <3>1. Fit(S, size, prev)'
      BY <1>1, <1>17, <2>1 DEF Fit
    <3>2. QED
      BY <1>17, <2>1, <3>1 DEF ReadFits
  <2>2. CASE size = NoXref
    <3>1. Fit({prev}, s, it.prev)
      BY <1>1 DEF Fit, it
    <3>2. QED
      BY <1>2, <1>6, <2>1, <2>2, <3>1
  <2>3. CASE size # NoXref
    <3>1. PICK S \in SUBSET (1..xref_offset) : xref_offset \in S /\ Fit(S, size, prev)
      BY <1>1, <2>3 DEF IInv, ReadFits
    <3>2. s = size
      BY <2>3 DEF s
    <3>3. Fit(S \union {prev}, s, it.prev)
      BY <1>1, <3>1, <3>2 DEF Fit, it
    <3>4. S \union {prev} \in SUBSET (1..xref_offset) /\ xref_offset \in S \union {prev}
      BY <1>2, <3>1
    <3>5. QED
      BY <2>1, <3>3, <3>4
  <2>4. QED
    BY <2>2, <2>3
<1>22. SavedFits'
  <2>1. CASE file \in Originals
    BY <1>17, <2>1 DEF SavedFits
  <2>2. CASE file \notin Originals
    <3>1. PICK S \in SUBSET (1..Len(file)) :
            /\ Len(file) \in S /\ Fit(S, file[Len(file)].size, NoPrev)
            /\ prev \in S
      BY <1>1, <2>2 DEF IInv, SavedFits
    <3>2. it.prev \in S \union {NoPrev}
      BY <3>1 DEF Fit, it
    <3>3. status' = "reading" => prev' \in S
      BY <1>1, <3>2
    <3>4. status' # "aborted"
      BY <1>1
    <3>5. Fit(S, file[Len(file)].size, NoPrev)'
      BY <1>17, <3>1 DEF Fit
    <3>6. QED
      BY <1>17, <3>1, <3>3, <3>4, <3>5 DEF SavedFits, Fit
  <2>3. QED
    BY <2>1, <2>2
<1>23. Document'
  BY <1>1, <1>2, <1>4, <1>17 DEF Document, modif
<1>24. ModifFacts!IInv' /\ HeapOK'
  <2>1. ModifFacts!IInv'
    BY <1>1, LogSteps, LogKept DEF IInv
  <2>2. QED
    BY <1>1, <2>1 DEF IInv, HeapOK, modif
<1>25. EditsAreLogged'
  <2>1. SubSeq(file, 1, xref_offset) = file
    BY <1>2, PrefixOf
  <2>2. (SubSeq(file, 1, xref_offset) = file)'
    BY <1>17, <2>1
  <2>3. QED
    BY <2>2 DEF EditsAreLogged
<1>26. QED
  BY <1>20, <1>21, <1>22, <1>23, <1>24, <1>25 DEF IInv

-----------------------------------------------------------------------------
(* The sections of a saved revision.                                        *)

\* t lists the places up to m where a section begins, in order.
Lists(t, m) ==
  /\ t \in Seq(Nat)
  /\ \A k \in 1..Len(t) : t[k] \in 1..m /\ StartsRun(t[k])
  /\ \A k, l \in 1..Len(t) : k < l => t[k] < t[l]
  /\ \A i \in 1..m : StartsRun(i) => \E k \in 1..Len(t) : t[k] = i

LEMMA ListsNext ==
  ASSUME NEW m \in Nat, NEW t, Lists(t, m)
  PROVE  Lists(IF StartsRun(m + 1) THEN Append(t, m + 1) ELSE t, m + 1)
<1>1. t \in Seq(Nat) /\ Len(t) \in Nat
  BY DEF Lists
<1>2. CASE StartsRun(m + 1)
  <2> DEFINE u == Append(t, m + 1)
             n == Len(t)
  <2>1. /\ u \in Seq(Nat) /\ Len(u) = n + 1 /\ u[n + 1] = m + 1
        /\ \A k \in 1..n : u[k] = t[k]
    BY <1>1
  <2>2. \A k \in 1..n : t[k] \in 1..m /\ StartsRun(t[k])
    BY DEF Lists
  <2>3. \A k, l \in 1..n : k < l => t[k] < t[l]
    BY DEF Lists
  <2>4. \A i \in 1..m : StartsRun(i) => \E k \in 1..n : t[k] = i
    BY DEF Lists
  <2>5. n \in Nat
    BY <1>1
  <2> HIDE DEF u, n
  <2>6. \A k \in 1..(n + 1) : u[k] \in 1..(m + 1) /\ StartsRun(u[k])
    <3>1. SUFFICES ASSUME NEW k \in 1..(n + 1) PROVE u[k] \in 1..(m + 1) /\ StartsRun(u[k])
      OBVIOUS
    <3>2. CASE k = n + 1
      BY <1>2, <2>1, <3>2
    <3>3. CASE k \in 1..n
      BY <2>1, <2>2, <3>3
    <3>4. QED
      BY <2>5, <3>2, <3>3
  <2>7. \A k, l \in 1..(n + 1) : k < l => u[k] < u[l]
    <3>1. SUFFICES ASSUME NEW k \in 1..(n + 1), NEW l \in 1..(n + 1), k < l PROVE u[k] < u[l]
      OBVIOUS
    <3>2. k \in 1..n /\ u[k] = t[k] /\ t[k] \in 1..m
      BY <2>1, <2>2, <2>5, <3>1
    <3>3. CASE l = n + 1
      BY <2>1, <3>2, <3>3
    <3>4. CASE l \in 1..n
      BY <2>1, <2>3, <3>1, <3>2, <3>4
    <3>5. QED
      BY <2>5, <3>3, <3>4
  <2>8. \A i \in 1..(m + 1) : StartsRun(i) => \E k \in 1..(n + 1) : u[k] = i
    <3>1. SUFFICES ASSUME NEW i \in 1..(m + 1), StartsRun(i) PROVE \E k \in 1..(n + 1) : u[k] = i
      OBVIOUS
    <3>2. CASE i = m + 1
      BY <2>1, <2>5, <3>2
    <3>3. CASE i \in 1..m
      <4>1. PICK k \in 1..n : t[k] = i
        BY <2>4, <3>1, <3>3
      <4>2. k \in 1..(n + 1) /\ u[k] = i
        BY <2>1, <2>5, <4>1
      <4>3. QED
        BY <4>2
    <3>4. QED
      BY <3>2, <3>3
  <2>9. Lists(u, m + 1)
    BY <2>1, <2>6, <2>7, <2>8 DEF Lists
  <2>10. QED
    BY <1>2, <2>9 DEF u
<1>3. CASE ~StartsRun(m + 1)
  <2>1. \A k \in 1..Len(t) : t[k] \in 1..(m + 1) /\ StartsRun(t[k])
    BY DEF Lists
  <2>2. \A i \in 1..(m + 1) : StartsRun(i) => i \in 1..m
    BY <1>3
  <2>3. Lists(t, m + 1)
    BY <2>1, <2>2 DEF Lists
  <2>4. QED
    BY <1>3, <2>3
<1>4. QED
  BY <1>2, <1>3

\* The recursion in Starts is well-founded.
LEMMA StartsAre ==
  ASSUME Len(log) \in Nat
  PROVE  Lists(Starts, Len(log))
<1> DEFINE L == Len(log)
           Step(g, i) == IF i = 0 THEN <<>>
                         ELSE IF StartsRun(i) THEN Append(g[i - 1], i) ELSE g[i - 1]
           T == {m \in Nat : m <= L => \E g : g = [i \in 0..m |-> Step(g, i)]}
           upto == CHOOSE g : g = [i \in 0..L |-> Step(g, i)]
           U == {m \in Nat : m <= L => Lists(upto[m], m)}
<1>1. Starts = upto[L]
  BY DEF Starts
<1>2. L \in Nat
  OBVIOUS
<1> HIDE DEF L
<1>3. 0 \in T
  <2> DEFINE g == [i \in 0..0 |-> <<>>]
  <2>1. g = [i \in 0..0 |-> Step(g, i)]
    OBVIOUS
  <2> HIDE DEF g
  <2>2. QED
    BY <2>1
<1>4. ASSUME NEW m \in T PROVE m + 1 \in T
  <2>1. ASSUME m + 1 <= L PROVE \E h : h = [i \in 0..(m + 1) |-> Step(h, i)]
    <3>1. m \in Nat /\ m <= L
      BY <2>1, <1>2
    <3>2. PICK g : g = [i \in 0..m |-> Step(g, i)]
      BY <3>1
    <3> DEFINE h == [i \in 0..(m + 1) |-> IF i <= m THEN g[i] ELSE Step(g, i)]
    <3>3. ASSUME NEW i \in 0..(m + 1) PROVE h[i] = Step(h, i)
      <4>1. i # 0 => h[i - 1] = g[i - 1]
        BY <3>1
      <4>2. h[i] = IF i <= m THEN g[i] ELSE Step(g, i)
        OBVIOUS
      <4> HIDE DEF h
      <4>3. Step(g, i) = Step(h, i)
        BY <4>1
      <4>4. i <= m => g[i] = Step(g, i)
        <5>1. SUFFICES ASSUME i <= m PROVE g[i] = Step(g, i)
          OBVIOUS
        <5>2. i \in 0..m
          BY <3>1, <5>1
        <5> HIDE DEF Step
        <5>3. QED
          BY <3>2, <5>2, Zenon
      <4> HIDE DEF Step
      <4>5. QED
        BY <4>2, <4>3, <4>4
    <3>4. h = [i \in 0..(m + 1) |-> h[i]]
      OBVIOUS
    <3> HIDE DEF h, Step
    <3>5. h = [i \in 0..(m + 1) |-> Step(h, i)]
      BY <3>3, <3>4
    <3>6. QED
      BY <3>5
  <2>2. QED
    BY <2>1
<1>5. L \in T
  <2> HIDE DEF T
  <2>1. T \in SUBSET Nat
    BY DEF T
  <2>2. T = Nat
    BY <2>1, <1>3, <1>4, SetInductionOnNat
  <2>3. QED
    BY <1>2, <2>2
<1>6. upto = [i \in 0..L |-> Step(upto, i)]
  <2> HIDE DEF Step
  <2>1. L <= L
    BY <1>2
  <2>2. \E g : g = [i \in 0..L |-> Step(g, i)]
    BY <1>5, <2>1, Zenon
  <2>3. QED
    BY <2>2
<1> HIDE DEF upto
<1>7. 0 \in U
  <2>1. upto[0] = <<>>
    BY <1>2, <1>6
  <2>2. Lists(<<>>, 0)
    BY DEF Lists
  <2>3. QED
    BY <2>1, <2>2
<1>8. ASSUME NEW m \in U PROVE m + 1 \in U
  <2>1. ASSUME m + 1 <= L PROVE Lists(upto[m + 1], m + 1)
    <3>1. m \in Nat /\ m <= L /\ m + 1 \in 0..L /\ m + 1 # 0 /\ (m + 1) - 1 = m
      BY <2>1, <1>2
    <3>2. Lists(upto[m], m)
      BY <3>1
    <3> HIDE DEF Step
    <3>3. upto[m + 1] = Step(upto, m + 1)
      BY <1>6, <3>1, Zenon
    <3>4. Step(upto, m + 1) = IF StartsRun(m + 1) THEN Append(upto[m], m + 1) ELSE upto[m]
      BY <3>1 DEF Step
    <3>5. QED
      BY <3>1, <3>2, <3>3, <3>4, ListsNext
  <2>2. QED
    BY <2>1
<1>9. L \in U
  <2> HIDE DEF U
  <2>1. U \in SUBSET Nat
    BY DEF U
  <2>2. U = Nat
    BY <2>1, <1>7, <1>8, SetInductionOnNat
  <2>3. QED
    BY <1>2, <2>2
<1>10. QED
  BY <1>1, <1>2, <1>9 DEF L

\* The place after the last one of section k.
End(k) == IF k = Len(Starts) THEN Len(log) + 1 ELSE Starts[k + 1]

\* The sections divide the log, and the numbers of a section are consecutive.
LEMMA Runs ==
  ASSUME ModifFacts!IInv
  PROVE  /\ Len(Starts) \in Nat
         /\ \A k \in 1..Len(Starts) : /\ Starts[k] \in 1..Len(log)
                                      /\ End(k) \in (Starts[k] + 1)..(Len(log) + 1)
                                      /\ RunLength(k) = End(k) - Starts[k]
         /\ \A k, l \in 1..Len(Starts) : k < l => End(k) <= Starts[l]
         /\ \A i \in 1..Len(log) : \E k \in 1..Len(Starts) : i \in Starts[k]..(End(k) - 1)
         /\ \A k \in 1..Len(Starts) : \A i \in Starts[k]..(End(k) - 1) :
              log[i].obj_num = FirstNum(k) + (i - Starts[k])
<1> DEFINE L == Len(log)
           S == Starts
           K == Len(S)
           num1(i) == log[i].obj_num
           ends(k) == End(k)
<1>1. L \in Nat /\ \A i \in 1..L : num1(i) \in Nat
  BY LogFacts
<1>2. Lists(S, L)
  BY <1>1, StartsAre
<1>3. /\ S \in Seq(Nat) /\ K \in Nat
      /\ \A k \in 1..K : S[k] \in 1..L
      /\ \A k, l \in 1..K : k < l => S[k] < S[l]
      /\ \A i \in 1..L : (i = 1 \/ num1(i) # num1(i - 1) + 1) => \E k \in 1..K : S[k] = i
  <2>1. /\ S \in Seq(Nat)
        /\ \A k \in 1..K : S[k] \in 1..L
        /\ \A k, l \in 1..K : k < l => S[k] < S[l]
        /\ \A i \in 1..L : StartsRun(i) => \E k \in 1..K : S[k] = i
    BY <1>2 DEF Lists
  <2>2. K \in Nat
    <3> HIDE DEF S
    <3>1. QED
      BY <2>1
  <2>3. \A i : StartsRun(i) <=> (i = 1 \/ num1(i) # num1(i - 1) + 1)
    BY DEF StartsRun
  <2> HIDE DEF S, K, L, num1
  <2>4. QED
    BY <2>1, <2>2, <2>3
<1>4. \A k \in 1..K : ends(k) = IF k = K THEN L + 1 ELSE S[k + 1]
  BY DEF End
<1>5. \A k \in 1..K : RunLength(k) = ends(k) - S[k] /\ FirstNum(k) = num1(S[k])
  BY DEF RunLength, End, FirstNum
<1> HIDE DEF S, K, L, num1, ends
<1>6. \A k \in 1..K : ends(k) \in (S[k] + 1)..(L + 1)
  <2>1. SUFFICES ASSUME NEW k \in 1..K PROVE ends(k) \in (S[k] + 1)..(L + 1)
    OBVIOUS
  <2>2. CASE k = K
    BY <1>1, <1>3, <1>4, <2>2
  <2>3. CASE k # K
    <3>1. k + 1 \in 1..K /\ k < k + 1
      BY <1>3, <2>3
    <3>2. S[k] < S[k + 1] /\ S[k + 1] \in 1..L /\ S[k] \in 1..L /\ ends(k) = S[k + 1]
      BY <1>3, <1>4, <2>3, <3>1
    <3>3. QED
      BY <1>1, <3>2
  <2>4. QED
    BY <2>2, <2>3
<1>7. ASSUME NEW k \in 1..K, NEW l \in 1..K, k < l PROVE ends(k) <= S[l]
  <2>1. k # K /\ k + 1 \in 1..K /\ ends(k) = S[k + 1]
    BY <1>3, <1>4, <1>7
  <2>2. CASE k + 1 = l
    BY <1>1, <1>3, <2>1, <2>2
  <2>3. CASE k + 1 < l
    <3>1. S[k + 1] < S[l] /\ S[l] \in 1..L /\ S[k + 1] \in 1..L
      BY <1>3, <2>1, <2>3
    <3>2. QED
      BY <1>1, <2>1, <3>1
  <2>4. QED
    BY <1>3, <1>7, <2>2, <2>3
\* Inside a section no other one begins.
<1>8. ASSUME NEW k \in 1..K, NEW i \in (S[k] + 1)..(ends(k) - 1)
      PROVE  i \in 1..L /\ i - 1 \in S[k]..(ends(k) - 1) /\ num1(i) = num1(i - 1) + 1
  <2>1. S[k] \in 1..L /\ ends(k) \in (S[k] + 1)..(L + 1)
    BY <1>3, <1>6
  <2>2. i \in 1..L /\ i # 1 /\ i - 1 \in S[k]..(ends(k) - 1)
    BY <1>1, <2>1
  <2>3. ASSUME num1(i) # num1(i - 1) + 1 PROVE FALSE
    <3>1. PICK l \in 1..K : S[l] = i
      BY <1>3, <2>2, <2>3
    <3>2. CASE l = k
      BY <2>1, <3>1, <3>2
    <3>3. CASE k < l
      <4>1. ends(k) <= i
        BY <1>7, <3>1, <3>3
      <4>2. QED
        BY <1>1, <2>1, <4>1
    <3>4. CASE l < k
      <4>1. S[l] < S[k]
        BY <1>3, <3>4
      <4>2. QED
        BY <2>1, <3>1, <4>1
    <3>5. QED
      BY <1>3, <3>2, <3>3, <3>4
  <2>4. QED
    BY <2>2, <2>3
<1> DEFINE T == {m \in Nat : m + 1 <= L => \E k \in 1..K : m + 1 \in S[k]..(ends(k) - 1)}
<1>9. 0 \in T
  <2>1. ASSUME 1 <= L PROVE \E k \in 1..K : 1 \in S[k]..(ends(k) - 1)
    <3>1. PICK k \in 1..K : S[k] = 1
      BY <1>1, <1>3, <2>1
    <3>2. ends(k) \in 2..(L + 1)
      BY <1>6, <3>1
    <3>3. QED
      BY <1>1, <3>1, <3>2
  <2>2. QED
    BY <2>1
<1>10. ASSUME NEW m \in T PROVE m + 1 \in T
  <2>1. ASSUME m + 2 <= L PROVE \E k \in 1..K : m + 2 \in S[k]..(ends(k) - 1)
    <3>1. m \in Nat /\ m + 1 <= L
      BY <1>1, <2>1
    <3>2. PICK k \in 1..K : m + 1 \in S[k]..(ends(k) - 1)
      BY <3>1
    <3>3. S[k] \in 1..L /\ ends(k) \in (S[k] + 1)..(L + 1)
      BY <1>3, <1>6
    <3>4. CASE m + 2 < ends(k)
      BY <1>1, <3>1, <3>2, <3>3, <3>4
    <3>5. CASE m + 2 = ends(k)
      <4>1. k # K /\ k + 1 \in 1..K /\ S[k + 1] = m + 2
        <5>1. ends(k) = IF k = K THEN L + 1 ELSE S[k + 1]
          BY <1>4
        <5>2. k # K
          BY <1>1, <2>1, <3>1, <3>5, <5>1
        <5>3. QED
          BY <1>3, <3>5, <5>1, <5>2
      <4>2. ends(k + 1) \in (m + 3)..(L + 1)
        <5>1. ends(k + 1) \in (S[k + 1] + 1)..(L + 1)
          BY <1>6, <4>1
        <5>2. QED
          BY <3>1, <4>1, <5>1
      <4>3. m + 2 \in S[k + 1]..(ends(k + 1) - 1)
        BY <1>1, <3>1, <4>1, <4>2
      <4>4. QED
        BY <4>1, <4>3
    <3>6. m + 2 <= ends(k)
      BY <1>1, <3>1, <3>2, <3>3
    <3>7. QED
      BY <1>1, <3>1, <3>3, <3>4, <3>5, <3>6
  <2>2. m \in Nat /\ (m + 1) + 1 = m + 2
    OBVIOUS
  <2>3. QED
    BY <2>1, <2>2
<1>11. T = Nat
  <2> HIDE DEF T
  <2>1. T \in SUBSET Nat
    BY DEF T
  <2>2. QED
    BY <2>1, <1>9, <1>10, SetInductionOnNat
<1>12. ASSUME NEW i \in 1..L PROVE \E k \in 1..K : i \in S[k]..(ends(k) - 1)
  <2> DEFINE m == i - 1
  <2>1. m \in Nat /\ m + 1 = i /\ m + 1 <= L
    BY <1>1
  <2> HIDE DEF m
  <2>2. m \in T
    BY <1>11, <2>1
  <2>3. QED
    BY <2>1, <2>2
<1>13. ASSUME NEW k \in 1..K PROVE \A i \in S[k]..(ends(k) - 1) : num1(i) = num1(S[k]) + (i - S[k])
  <2> DEFINE a == S[k]
             e == ends(k)
             V == {m \in Nat : a + m <= e - 1 => num1(a + m) = num1(a) + m}
  <2>1. a \in Nat /\ e \in Nat /\ \A i \in a..(e - 1) : i \in 1..L
    BY SMTT(30), <1>1, <1>3, <1>6
  <2>2. \A i \in (a + 1)..(e - 1) : num1(i) = num1(i - 1) + 1
    BY <1>8
  <2> HIDE DEF a, e
  <2>3. 0 \in V
    <3>1. a + 0 <= e - 1 => num1(a) \in Nat
      BY <1>1, <2>1
    <3>2. a + 0 = a
      BY <2>1
    <3>3. QED
      BY <3>1, <3>2
  <2>4. ASSUME NEW m \in V PROVE m + 1 \in V
    <3>1. ASSUME a + (m + 1) <= e - 1 PROVE num1(a + (m + 1)) = num1(a) + (m + 1)
      <4>1. m \in Nat /\ a + m <= e - 1 /\ a + (m + 1) \in (a + 1)..(e - 1) /\ (a + (m + 1)) - 1 = a + m
            /\ a \in a..(e - 1)
        BY <2>1, <3>1
      <4>2. num1(a + m) = num1(a) + m
        BY <4>1
      <4>3. num1(a + (m + 1)) = num1(a + m) + 1
        BY <2>2, <4>1
      <4>4. num1(a) \in Nat
        BY <1>1, <2>1, <4>1
      <4>5. QED
        BY <4>1, <4>2, <4>3, <4>4
    <3>2. QED
      BY <3>1
  <2>5. V = Nat
    <3> HIDE DEF V
    <3>1. V \in SUBSET Nat
      BY DEF V
    <3>2. QED
      BY <3>1, <2>3, <2>4, SetInductionOnNat
  <2>6. ASSUME NEW i \in a..(e - 1) PROVE num1(i) = num1(a) + (i - a)
    <3> DEFINE m == i - a
    <3>1. m \in Nat /\ a + m = i /\ a + m <= e - 1
      BY <2>1
    <3> HIDE DEF m
    <3>2. m \in V
      BY <2>5, <3>1
    <3>3. num1(i) = num1(a) + m
      BY <3>1, <3>2
    <3>4. QED
      BY <3>3 DEF m
  <2>7. QED
    BY <2>6 DEF a, e
<1>14. \A k \in 1..K : \A i \in S[k]..(ends(k) - 1) : log[i].obj_num = FirstNum(k) + (i - S[k])
  BY <1>5, <1>13 DEF num1
<1>15. /\ K \in Nat
       /\ \A k \in 1..K : S[k] \in 1..L /\ ends(k) \in (S[k] + 1)..(L + 1) /\ RunLength(k) = ends(k) - S[k]
       /\ \A k, l \in 1..K : k < l => ends(k) <= S[l]
       /\ \A i \in 1..L : \E k \in 1..K : i \in S[k]..(ends(k) - 1)
  BY <1>3, <1>5, <1>6, <1>7, <1>12
<1>16. QED
  BY <1>14, <1>15 DEF K, S, L, ends

\* The numbers of section k, and where the node of a number is.
RunNums(k) == FirstNum(k) .. FirstNum(k) + RunLength(k) - 1
PlaceOf(k, n) == Starts[k] + (n - FirstNum(k))

LEMMA RunNumsAre ==
  ASSUME ModifFacts!IInv
  PROVE  /\ \A k \in 1..Len(Starts) :
              /\ FirstNum(k) \in Nat /\ RunLength(k) \in Nat \ {0}
              /\ FirstNum(k) + RunLength(k) - 1 <= max_obj_num
              /\ \A n \in RunNums(k) : PlaceOf(k, n) \in 1..Len(log) /\ log[PlaceOf(k, n)].obj_num = n
         /\ \A i \in 1..Len(log) : \E k \in 1..Len(Starts) : log[i].obj_num \in RunNums(k)
         /\ \A i \in 1..Len(log) : \A k \in 1..Len(Starts) :
              log[i].obj_num \in RunNums(k) => PlaceOf(k, log[i].obj_num) = i
         /\ \A k, l \in 1..Len(Starts) : RunNums(k) \intersect RunNums(l) # {} => k = l
<1> DEFINE L == Len(log)
           K == Len(Starts)
           a(k) == Starts[k]
           e(k) == End(k)
           f(k) == FirstNum(k)
           r(k) == RunLength(k)
           nm(i) == log[i].obj_num
<1>1. /\ L \in Nat /\ K \in Nat /\ max_obj_num \in Nat
      /\ \A i \in 1..L : nm(i) \in Nat /\ nm(i) <= max_obj_num
      /\ \A i, j \in 1..L : i < j => nm(i) < nm(j)
  BY LogFacts, Runs
<1>2. /\ \A k \in 1..K : a(k) \in 1..L /\ e(k) \in (a(k) + 1)..(L + 1) /\ r(k) = e(k) - a(k)
      /\ \A k, l \in 1..K : k < l => e(k) <= a(l)
      /\ \A i \in 1..L : \E k \in 1..K : i \in a(k)..(e(k) - 1)
      /\ \A k \in 1..K : \A i \in a(k)..(e(k) - 1) : nm(i) = f(k) + (i - a(k))
  BY Runs
<1>3. \A k \in 1..K : f(k) = nm(a(k))
  BY DEF FirstNum
<1>4. \A k, n : /\ n \in RunNums(k) <=> n \in f(k) .. f(k) + r(k) - 1
                /\ PlaceOf(k, n) = a(k) + (n - f(k))
  BY DEF RunNums, PlaceOf
<1> HIDE DEF L, K, a, e, f, r, nm
<1>5. ASSUME NEW k \in 1..K
      PROVE  /\ a(k) \in Nat /\ e(k) \in Nat /\ f(k) \in Nat /\ r(k) \in Nat \ {0} /\ r(k) = e(k) - a(k)
             /\ a(k) >= 1 /\ e(k) <= L + 1 /\ f(k) + r(k) - 1 <= max_obj_num
  <2>1. a(k) \in 1..L /\ e(k) \in (a(k) + 1)..(L + 1) /\ r(k) = e(k) - a(k) /\ f(k) = nm(a(k))
    BY <1>2, <1>3
  <2>2. a(k) \in Nat /\ e(k) \in Nat /\ f(k) \in Nat /\ r(k) \in Nat \ {0} /\ a(k) >= 1 /\ e(k) <= L + 1
    BY <1>1, <2>1
  <2>3. e(k) - 1 \in a(k)..(e(k) - 1) /\ e(k) - 1 \in 1..L
    BY <1>1, <2>1, <2>2
  <2>4. nm(e(k) - 1) = f(k) + (e(k) - 1 - a(k)) /\ nm(e(k) - 1) <= max_obj_num
    BY <1>1, <1>2, <2>3
  <2>5. f(k) + r(k) - 1 <= max_obj_num
    BY <1>1, <2>1, <2>2, <2>4
  <2>6. QED
    BY <2>1, <2>2, <2>5
<1>6. ASSUME NEW k \in 1..K, NEW n \in RunNums(k)
      PROVE  PlaceOf(k, n) \in a(k)..(e(k) - 1) /\ PlaceOf(k, n) \in 1..L /\ nm(PlaceOf(k, n)) = n
  <2> DEFINE i == PlaceOf(k, n)
  <2>1. n \in f(k) .. f(k) + r(k) - 1 /\ i = a(k) + (n - f(k))
    BY <1>4
  <2> HIDE DEF i
  <2>2. i \in a(k)..(e(k) - 1) /\ i \in 1..L /\ i - a(k) = n - f(k)
    BY <1>1, <1>5, <2>1
  <2>3. nm(i) = f(k) + (i - a(k))
    BY <1>2, <2>2
  <2>4. nm(i) = n
    BY <1>5, <2>1, <2>2, <2>3
  <2>5. QED
    BY <2>2, <2>4 DEF i
<1>7. ASSUME NEW i \in 1..L PROVE \E k \in 1..K : nm(i) \in RunNums(k)
  <2>1. PICK k \in 1..K : i \in a(k)..(e(k) - 1)
    BY <1>2
  <2>2. nm(i) = f(k) + (i - a(k))
    BY <1>2, <2>1
  <2>3. nm(i) \in f(k) .. f(k) + r(k) - 1
    BY <1>5, <2>1, <2>2
  <2>4. QED
    BY <1>4, <2>3
<1>8. \A i, j \in 1..L : nm(i) = nm(j) => i = j
  <2>1. SUFFICES ASSUME NEW i \in 1..L, NEW j \in 1..L, nm(i) = nm(j) PROVE i = j
    OBVIOUS
  <2>2. nm(i) \in Nat /\ (i < j => nm(i) < nm(j)) /\ (j < i => nm(j) < nm(i))
    BY <1>1
  <2>3. ~(i < j) /\ ~(j < i)
    BY <2>1, <2>2
  <2>4. QED
    BY <1>1, <2>3
<1>9. ASSUME NEW i \in 1..L, NEW k \in 1..K, nm(i) \in RunNums(k) PROVE PlaceOf(k, nm(i)) = i
  <2>1. PlaceOf(k, nm(i)) \in 1..L /\ nm(PlaceOf(k, nm(i))) = nm(i)
    BY <1>6, <1>9
  <2>2. QED
    BY <1>8, <2>1
<1>10. ASSUME NEW k \in 1..K, NEW l \in 1..K, RunNums(k) \intersect RunNums(l) # {} PROVE k = l
  <2>1. PICK n : n \in RunNums(k) /\ n \in RunNums(l)
    BY <1>10
  <2> DEFINE i == PlaceOf(k, n)
             j == PlaceOf(l, n)
  <2>2. /\ i \in a(k)..(e(k) - 1) /\ i \in 1..L /\ nm(i) = n
        /\ j \in a(l)..(e(l) - 1) /\ j \in 1..L /\ nm(j) = n
    BY <1>6, <2>1
  <2> HIDE DEF i, j
  <2>3. i = j
    BY <1>8, <2>2
  <2>4. /\ k < l => e(k) <= a(l)
        /\ l < k => e(l) <= a(k)
    BY <1>2
  <2>5. ~(k < l) /\ ~(l < k)
    BY <1>5, <2>2, <2>3, <2>4
  <2>6. QED
    BY <1>1, <2>5
<1>11. /\ \A k \in 1..K : /\ f(k) \in Nat /\ r(k) \in Nat \ {0} /\ f(k) + r(k) - 1 <= max_obj_num
                          /\ \A n \in RunNums(k) : PlaceOf(k, n) \in 1..L /\ nm(PlaceOf(k, n)) = n
       /\ \A i \in 1..L : \E k \in 1..K : nm(i) \in RunNums(k)
       /\ \A i \in 1..L : \A k \in 1..K : nm(i) \in RunNums(k) => PlaceOf(k, nm(i)) = i
       /\ \A k, l \in 1..K : RunNums(k) \intersect RunNums(l) # {} => k = l
  BY <1>5, <1>6, <1>7, <1>9, <1>10
<1>12. QED
  BY <1>11 DEF K, L, f, r, nm

\* A revision describes the objects of the log, saved after base, and itself when
\* it is a stream.
Describes(it, compress, base) ==
  /\ IsXref(it) /\ it.size = NewSize /\ it.prev = xref_offset
  /\ it.kind = "table" => HasSections(it)
  /\ it.kind = "stream" => HasPairs(it)
  /\ DeclaresOnce(it)
  /\ AllFit(it, NewSize)
  /\ DeclaredNums(it) = Modif!LogNums \union (IF compress THEN {OwnNum} ELSE {})
  /\ \A i \in 1..Len(log) : /\ DeclaredEntry(it, log[i].obj_num).type = N
                            /\ DeclaredEntry(it, log[i].obj_num).fields[1] = Len(base) + i
  /\ compress => /\ DeclaredEntry(it, OwnNum).type = N
                 /\ DeclaredEntry(it, OwnNum).fields[1] = Len(base) + Len(log) + 1

LEMMA NewTableDescribes ==
  ASSUME ModifFacts!IInv, NEW base, Len(base) \in Nat
  PROVE  Describes(NewXref(FALSE, base), FALSE, base)
<1> DEFINE it == NewXref(FALSE, base)
           K == Len(Starts)
           L == Len(log)
           b == Len(base)
<1>0. /\ K \in Nat /\ L \in Nat /\ max_obj_num \in Nat
      /\ \A k \in 1..K : FirstNum(k) \in Nat /\ RunLength(k) \in Nat \ {0} /\ Starts[k] \in Nat
      /\ \A k \in 1..K : FirstNum(k) + RunLength(k) - 1 <= max_obj_num
  BY SMTT(30), LogFacts, Runs, RunNumsAre
<1>1. /\ \A k \in 1..K : \A n \in RunNums(k) : PlaceOf(k, n) \in 1..L /\ log[PlaceOf(k, n)].obj_num = n
      /\ \A i \in 1..L : \E k \in 1..K : log[i].obj_num \in RunNums(k)
      /\ \A i \in 1..L : \A k \in 1..K : log[i].obj_num \in RunNums(k) => PlaceOf(k, log[i].obj_num) = i
      /\ \A k, l \in 1..K : RunNums(k) \intersect RunNums(l) # {} => k = l
  BY RunNumsAre
<1>2. it.kind = "table" /\ it.size = NewSize /\ it.prev = xref_offset /\ it.sections = TableSections(base)
  BY DEF NewXref
<1> HIDE DEF it, K, L, b
<1> DEFINE sec(k) == it.sections[k]
           at(k, j) == Starts[k] + j - 1
<1>3. /\ Len(it.sections) = K
      /\ \A k \in 1..K : /\ sec(k).first = FirstNum(k)
                         /\ Len(sec(k).entries) = RunLength(k)
                         /\ \A j \in 1..RunLength(k) :
                              sec(k).entries[j] = Entry(N, b + at(k, j), content[log[at(k, j)].ind_obj].gen)
  <2> DEFINE es(k) == [j \in 1..RunLength(k) |-> Entry(N, b + at(k, j), content[log[at(k, j)].ind_obj].gen)]
             row(k) == [first |-> FirstNum(k), entries |-> es(k)]
  <2>1. it.sections = [k \in 1..K |-> row(k)]
    BY <1>2 DEF TableSections, StartPos, b, K
  <2> HIDE DEF row
  <2>2. Len(it.sections) = K
    BY <1>0, <2>1
  <2>3. \A k \in 1..K : sec(k) = row(k)
    BY <2>1
  <2>4. ASSUME NEW k \in 1..K
        PROVE  /\ sec(k).first = FirstNum(k)
               /\ Len(sec(k).entries) = RunLength(k)
               /\ \A j \in 1..RunLength(k) :
                    sec(k).entries[j] = Entry(N, b + at(k, j), content[log[at(k, j)].ind_obj].gen)
    <3>1. Len(es(k)) = RunLength(k)
      BY <1>0
    <3>2. \A j \in 1..RunLength(k) : es(k)[j] = Entry(N, b + at(k, j), content[log[at(k, j)].ind_obj].gen)
      OBVIOUS
    <3> HIDE DEF es, at
    <3> HIDE DEF sec
    <3>3. sec(k).first = FirstNum(k) /\ sec(k).entries = es(k)
      <4>1. sec(k) = row(k)
        BY <2>3
      <4>2. row(k).first = FirstNum(k) /\ row(k).entries = es(k)
        BY DEF row
      <4>3. QED
        BY <4>1, <4>2
    <3>4. QED
      BY <3>1, <3>2, <3>3
  <2>5. QED
    BY <2>2, <2>4
<1> HIDE DEF at
<1>4. HasSections(it)
  BY <1>0, <1>3 DEF HasSections
<1>5. SectionsOf(it) = 1..K /\ \A k \in 1..K : SectionNums(it, k) = RunNums(k)
  BY <1>2, <1>3 DEF SectionsOf, SectionNums, RunNums
<1>6. DeclaresOnce(it)
  BY <1>1, <1>5 DEF DeclaresOnce
<1>7. IsXref(it)
  BY <1>2 DEF IsXref
<1>8. AllFit(it, NewSize)
  <2>1. ASSUME NEW k \in 1..K PROVE Fits(FirstNum(k), RunLength(k), NewSize)
    <3> DEFINE f == FirstNum(k)
               r == RunLength(k)
    <3>1. f \in Nat /\ r \in Nat /\ f + r - 1 <= max_obj_num
      BY <1>0
    <3> HIDE DEF f, r
    <3>2. f + r <= max_obj_num + 2
      BY <1>0, <3>1
    <3>3. QED
      BY <3>2 DEF Fits, NewSize, f, r
  <2>2. QED
    BY <1>2, <1>3, <2>1 DEF AllFit
<1>9. \A n : /\ n \in DeclaredNums(it) <=> \E k \in 1..K : n \in RunNums(k)
             /\ \A k \in 1..K : n \in RunNums(k) => DeclaredEntry(it, n) = EntryIn(it, k, n)
  <2>1. \A n : /\ n \in DeclaredNums(it) <=> \E k \in SectionsOf(it) : n \in SectionNums(it, k)
               /\ \A k \in SectionsOf(it) :
                    n \in SectionNums(it, k) => DeclaredEntry(it, n) = EntryIn(it, k, n)
    BY <1>2, <1>4, <1>6, <1>7, DeclaredBySections
  <2>2. QED
    BY <1>5, <2>1
<1>10. DeclaredNums(it) = Modif!LogNums
  <2>1. ASSUME NEW n \in DeclaredNums(it) PROVE n \in Modif!LogNums
    <3>1. PICK k \in 1..K : n \in RunNums(k)
      BY <1>9
    <3>2. PlaceOf(k, n) \in 1..L /\ log[PlaceOf(k, n)].obj_num = n
      BY <1>1, <3>1
    <3>3. QED
      BY <3>2 DEF Modif!LogNums, L
  <2>2. \A i \in 1..L : log[i].obj_num \in DeclaredNums(it)
    BY <1>1, <1>9
  <2>3. QED
    BY <2>1, <2>2 DEF Modif!LogNums, L
<1>11. ASSUME NEW i \in 1..L
       PROVE  /\ DeclaredEntry(it, log[i].obj_num).type = N
              /\ DeclaredEntry(it, log[i].obj_num).fields[1] = b + i
  <2> DEFINE n == log[i].obj_num
  <2>1. PICK k \in 1..K : n \in RunNums(k)
    BY <1>1
  <2> DEFINE j == n - FirstNum(k) + 1
  <2>2. PlaceOf(k, n) = i
    BY <1>1, <2>1
  <2>3. /\ FirstNum(k) \in Nat /\ RunLength(k) \in Nat /\ Starts[k] \in Nat
        /\ n \in FirstNum(k) .. FirstNum(k) + RunLength(k) - 1
    BY <1>0, <2>1 DEF RunNums
  <2>4. j \in 1..RunLength(k) /\ at(k, j) = i
    BY SMTT(30), <2>2, <2>3 DEF PlaceOf, at
  <2>5. DeclaredEntry(it, n) = sec(k).entries[j]
    BY <1>2, <1>3, <1>9, <2>1 DEF EntryIn
  <2> HIDE DEF j, n
  <2>6. DeclaredEntry(it, n) = Entry(N, b + i, content[log[i].ind_obj].gen)
    BY <1>3, <2>4, <2>5
  <2>7. QED
    BY <2>6 DEF Entry, n
<1>12. QED
  BY <1>2, <1>4, <1>6, <1>7, <1>8, <1>10, <1>11 DEF Describes, it, b, L

\* The index and the data of the stream.
LEMMA StreamParts ==
  ASSUME ModifFacts!IInv, NEW base, Len(base) \in Nat
  PROVE  /\ Len(StreamIndex) = Len(Starts) + 1
         /\ \A k \in 1..Len(Starts) : StreamIndex[k] = <<FirstNum(k), RunLength(k)>>
         /\ StreamIndex[Len(Starts) + 1] = <<OwnNum, 1>>
         /\ Len(StreamData(base)) = Len(log) + 1
         /\ \A i \in 1..(Len(log) + 1) : StreamData(base)[i] = Entry(N, Len(base) + i, 0)
<1>1. /\ Len(Starts) \in Nat /\ Len(log) \in Nat /\ max_obj_num \in Nat
      /\ \A k \in 1..Len(Starts) : FirstNum(k) \in Nat /\ RunLength(k) \in Nat
  BY LogFacts, Runs, RunNumsAre
<1>2. /\ Len(StreamIndex) = Len(Starts) + 1
      /\ \A k \in 1..Len(Starts) : StreamIndex[k] = <<FirstNum(k), RunLength(k)>>
      /\ StreamIndex[Len(Starts) + 1] = <<OwnNum, 1>>
  <2> DEFINE pair(k) == <<FirstNum(k), RunLength(k)>>
             K == Len(Starts)
             own == <<OwnNum, 1>>
  <2>1. \A k \in 1..K : pair(k) \in Nat \X Nat
    BY <1>1
  <2>2. own \in Nat \X Nat
    BY <1>1 DEF OwnNum
  <2>3. StreamIndex = [k \in 1..K |-> pair(k)] \o <<own>>
    BY DEF StreamIndex
  <2>4. K \in Nat
    BY <1>1
  <2> HIDE DEF pair, own, K
  <2>5. /\ Len(StreamIndex) = K + 1 /\ StreamIndex[K + 1] = own
        /\ \A k \in 1..K : StreamIndex[k] = pair(k)
    BY <2>1, <2>2, <2>3, <2>4
  <2>6. QED
    BY <2>5 DEF pair, own, K
<1>3. /\ Len(StreamData(base)) = Len(log) + 1
      /\ \A i \in 1..(Len(log) + 1) : StreamData(base)[i] = Entry(N, Len(base) + i, 0)
  <2> DEFINE entry(i) == Entry(N, Len(base) + i, 0)
             L == Len(log)
             D == {entry(i) : i \in Nat}
             own == Entry(N, Len(base) + L + 1, 0)
  <2>1. \A i \in 1..L : entry(i) \in D
    OBVIOUS
  <2>2. L \in Nat
    BY <1>1
  <2>3. own = entry(L + 1)
    <3>1. Len(base) + L + 1 = Len(base) + (L + 1)
      BY <2>2
    <3>2. QED
      BY <3>1
  <2>4. own \in D
    <3>1. L + 1 \in Nat
      BY <2>2
    <3> HIDE DEF own, entry, L
    <3>2. QED
      BY <2>3, <3>1
  <2>5. StreamData(base) = [i \in 1..L |-> entry(i)] \o <<own>>
    BY DEF StreamData, StartPos
  <2> HIDE DEF entry, own, L, D
  <2>6. /\ Len(StreamData(base)) = L + 1 /\ StreamData(base)[L + 1] = own
        /\ \A i \in 1..L : StreamData(base)[i] = entry(i)
    BY <2>1, <2>2, <2>4, <2>5
  <2>7. \A i \in 1..(L + 1) : StreamData(base)[i] = entry(i)
    BY <2>2, <2>3, <2>6
  <2>8. QED
    BY <2>6, <2>7 DEF entry, L
<1>4. QED
  BY <1>2, <1>3

LEMMA NewStreamDescribes ==
  ASSUME ModifFacts!IInv, NEW base, Len(base) \in Nat
  PROVE  Describes(NewXref(TRUE, base), TRUE, base)
<1> DEFINE it == NewXref(TRUE, base)
           K == Len(Starts)
           L == Len(log)
           b == Len(base)
           start == [k \in 1..(K + 2) |-> IF k <= K THEN Starts[k] - 1 ELSE IF k = K + 1 THEN L ELSE L + 1]
           nums(k) == IF k <= K THEN RunNums(k) ELSE {OwnNum}
<1>1. /\ K \in Nat /\ L \in Nat /\ max_obj_num \in Nat
      /\ \A k \in 1..K : FirstNum(k) \in Nat /\ RunLength(k) \in Nat \ {0} /\ Starts[k] \in Nat
      /\ \A k \in 1..K : FirstNum(k) + RunLength(k) - 1 <= max_obj_num
  BY SMTT(30), LogFacts, Runs, RunNumsAre
<1>2. /\ \A k \in 1..K : \A n \in RunNums(k) : PlaceOf(k, n) \in 1..L /\ log[PlaceOf(k, n)].obj_num = n
      /\ \A i \in 1..L : \E k \in 1..K : log[i].obj_num \in RunNums(k)
      /\ \A i \in 1..L : \A k \in 1..K : log[i].obj_num \in RunNums(k) => PlaceOf(k, log[i].obj_num) = i
      /\ \A k, l \in 1..K : RunNums(k) \intersect RunNums(l) # {} => k = l
  BY RunNumsAre
<1>3. \A i \in 1..L : log[i].obj_num \in Nat /\ log[i].obj_num <= max_obj_num
  BY LogFacts
<1>4. /\ it.kind = "stream" /\ it.size = NewSize /\ it.prev = xref_offset
      /\ it.index = StreamIndex /\ it.data = StreamData(base)
  BY DEF NewXref
<1> HIDE DEF it
<1>5. /\ Len(it.index) = K + 1
      /\ \A k \in 1..K : it.index[k][1] = FirstNum(k) /\ it.index[k][2] = RunLength(k)
      /\ it.index[K + 1][1] = OwnNum /\ it.index[K + 1][2] = 1
      /\ Len(it.data) = L + 1
      /\ \A i \in 1..(L + 1) : it.data[i] = Entry(N, b + i, 0)
  <2>1. /\ Len(StreamIndex) = K + 1
        /\ \A k \in 1..K : StreamIndex[k] = <<FirstNum(k), RunLength(k)>>
        /\ StreamIndex[K + 1] = <<OwnNum, 1>>
        /\ Len(StreamData(base)) = L + 1
        /\ \A i \in 1..(L + 1) : StreamData(base)[i] = Entry(N, b + i, 0)
    BY StreamParts
  <2>2. QED
    BY <1>4, <2>1
<1> HIDE DEF K, L, b
<1>6. \A k \in 1..(K + 1) : it.index[k][1] \in Nat /\ it.index[k][2] \in Nat \ {0}
  <2>1. SUFFICES ASSUME NEW k \in 1..(K + 1) PROVE it.index[k][1] \in Nat /\ it.index[k][2] \in Nat \ {0}
    OBVIOUS
  <2>2. CASE k \in 1..K
    BY <1>1, <1>5, <2>2
  <2>3. CASE k = K + 1
    BY <1>1, <1>5, <2>3 DEF OwnNum
  <2>4. QED
    BY <1>1, <2>2, <2>3
<1>7. start \in [1..(Len(it.index) + 1) -> 0..Len(it.data)]
  <2>1. \A k \in 1..K : Starts[k] - 1 \in 0..(L + 1)
    <3>1. \A k \in 1..K : Starts[k] \in 1..L
      BY Runs DEF K, L
    <3>2. QED
      BY SMTT(30), <1>1, <3>1
  <2>2. \A k \in 1..(K + 2) : start[k] \in 0..(L + 1)
    BY <1>1, <2>1
  <2>3. Len(it.index) + 1 = K + 2 /\ Len(it.data) = L + 1
    BY <1>1, <1>5
  <2> HIDE DEF it
  <2>4. QED
    BY <2>2, <2>3
<1>8. Divides(start, it)
  <2> DEFINE e(k) == End(k)
  <2>1. /\ \A k \in 1..K : e(k) = IF k = K THEN L + 1 ELSE Starts[k + 1]
        /\ \A k \in 1..K : RunLength(k) = e(k) - Starts[k] /\ e(k) \in Nat
        /\ \A i \in 1..L : \E k \in 1..K : i \in Starts[k]..(e(k) - 1)
        /\ \A k \in 1..K : Starts[k] \in 1..L
        /\ \A k, l \in 1..K : k < l => e(k) <= Starts[l] /\ Starts[k] < e(k)
    <3>1. \A k \in 1..K : e(k) = IF k = K THEN L + 1 ELSE Starts[k + 1]
      BY DEF End, K, L
    <3>2. \A k \in 1..K : Starts[k] \in 1..L /\ e(k) \in (Starts[k] + 1)..(L + 1) /\ RunLength(k) = e(k) - Starts[k]
      BY Runs DEF K, L
    <3>3. \A k, l \in 1..K : k < l => e(k) <= Starts[l]
      BY Runs DEF K
    <3>4. \A i \in 1..L : \E k \in 1..K : i \in Starts[k]..(e(k) - 1)
      BY Runs DEF K, L
    <3> HIDE DEF e
    <3>5. \A k \in 1..K : e(k) \in Nat /\ Starts[k] < e(k)
      BY <1>1, <3>2
    <3>6. QED
      BY <3>1, <3>2, <3>3, <3>4, <3>5
  <2> HIDE DEF e
  <2>2. start[1] = 0
    <3>1. CASE K = 0
      <4>1. L = 0
        BY <1>1, <2>1, <3>1
      <4>2. QED
        BY <1>1, <3>1, <4>1
    <3>2. CASE K # 0
      <4>1. 1 \in 1..K /\ 1 \in 1..L
        <5>1. 1 \in 1..K
          BY <1>1, <3>2
        <5>2. Starts[1] \in 1..L
          BY <2>1, <5>1
        <5>3. QED
          BY <1>1, <5>1, <5>2
      <4>2. PICK k \in 1..K : 1 \in Starts[k]..(e(k) - 1)
        BY <2>1, <4>1
      <4>3. Starts[k] = 1
        <5>1. Starts[k] \in 1..L /\ e(k) \in Nat
          BY <2>1
        <5>2. QED
          BY SMTT(30), <1>1, <4>2, <5>1
      <4>4. k = 1
        <5>1. 1 < k => e(1) <= Starts[k] /\ Starts[1] < e(1)
          BY <2>1, <4>1
        <5>2. Starts[1] \in 1..L /\ e(1) \in Nat
          BY <2>1, <4>1
        <5>3. ~(1 < k)
          BY <1>1, <4>3, <5>1, <5>2
        <5>4. QED
          BY <5>3
      <4>5. QED
        BY <1>1, <4>1, <4>3, <4>4
    <3>3. QED
      BY <3>1, <3>2
  <2>3. start[K + 2] = L + 1
    BY <1>1
  <2>4. ASSUME NEW k \in 1..(K + 1) PROVE start[k + 1] = start[k] + it.index[k][2]
    <3>1. CASE k = K + 1
      <4>1. start[K + 2] = L + 1 /\ start[K + 1] = L /\ it.index[K + 1][2] = 1
        BY <1>1, <1>5
      <4> HIDE DEF start
      <4>2. k + 1 = K + 2
        BY <1>1, <3>1
      <4>3. QED
        BY <3>1, <4>1, <4>2
    <3>2. CASE k = K
      <4>1. start[k + 1] = L /\ start[k] = Starts[k] - 1 /\ k \in 1..K
        BY <1>1, <3>2
      <4> DEFINE a == Starts[k]
      <4>2. it.index[k][2] = e(k) - a /\ e(k) = L + 1 /\ a \in Nat
        BY <1>1, <1>5, <2>1, <3>2, <4>1
      <4> HIDE DEF start, a
      <4>3. L = (a - 1) + ((L + 1) - a)
        BY <1>1, <4>2
      <4>4. QED
        BY <4>1, <4>2, <4>3 DEF a
    <3>3. CASE k < K
      <4>1. start[k + 1] = Starts[k + 1] - 1 /\ start[k] = Starts[k] - 1 /\ k \in 1..K /\ k # K
        BY <1>1, <3>3
      <4> DEFINE a == Starts[k]
                 c == Starts[k + 1]
      <4>2. it.index[k][2] = RunLength(k) /\ a \in Nat
        BY <1>1, <1>5, <4>1
      <4>3. e(k) = c /\ RunLength(k) = e(k) - a /\ e(k) \in Nat
        BY <2>1, <4>1
      <4> HIDE DEF start, a, c
      <4>4. c - 1 = (a - 1) + (c - a)
        BY <4>2, <4>3
      <4>5. QED
        BY <4>1, <4>2, <4>3, <4>4 DEF a, c
    <3>4. QED
      BY <1>1, <3>1, <3>2, <3>3
  <2> HIDE DEF start
  <2>5. (K + 1) + 1 = K + 2
    BY <1>1
  <2>6. QED
    BY <1>5, <2>2, <2>3, <2>4, <2>5 DEF Divides
<1>9. HasPairs(it)
  <2>1. Len(it.index) \in Nat /\ Len(it.data) \in Nat
    BY <1>1, <1>5
  <2> HIDE DEF start
  <2>2. \A k \in 1..Len(it.index) : it.index[k][1] \in Nat /\ it.index[k][2] \in Nat \ {0}
    BY <1>5, <1>6
  <2>3. QED
    BY <1>7, <1>8, <2>1, <2>2 DEF HasPairs
<1>10. /\ \A k \in 1..K : PairStart(it.index)[k] = Starts[k]
       /\ PairStart(it.index)[K + 1] = L + 1
  <2>1. /\ \A k \in 1..K : start[k] = Starts[k] - 1
        /\ start[K + 1] = L
    BY <1>1
  <2> HIDE DEF start
  <2>2. \A k \in 1..(K + 1) : PairStart(it.index)[k] = start[k] + 1
    BY <1>5, <1>7, <1>8, <1>9, PairStartIs
  <2>3. \A k \in 1..K : k \in 1..(K + 1) /\ (Starts[k] - 1) + 1 = Starts[k]
    BY <1>1
  <2>4. K + 1 \in 1..(K + 1)
    BY <1>1
  <2> DEFINE ps(k) == PairStart(it.index)[k]
  <2> HIDE DEF ps
  <2>5. \A k \in 1..(K + 1) : ps(k) = start[k] + 1
    BY <2>2 DEF ps
  <2>6. (\A k \in 1..K : ps(k) = Starts[k]) /\ ps(K + 1) = L + 1
    BY <2>1, <2>3, <2>4, <2>5
  <2>7. QED
    BY <2>6 DEF ps
<1> HIDE DEF nums, start
<1>11. SectionsOf(it) = 1..(K + 1) /\ \A k \in 1..(K + 1) : SectionNums(it, k) = nums(k)
  <2>1. SectionsOf(it) = 1..(K + 1)
    BY <1>4, <1>5 DEF SectionsOf
  <2>2. ASSUME NEW k \in 1..(K + 1) PROVE SectionNums(it, k) = nums(k)
    <3>1. SectionNums(it, k) = it.index[k][1] .. it.index[k][1] + it.index[k][2] - 1
      BY <1>4 DEF SectionNums
    <3>2. CASE k \in 1..K
      <4>1. nums(k) = FirstNum(k) .. FirstNum(k) + RunLength(k) - 1
        BY <3>2 DEF nums, RunNums
      <4>2. QED
        BY <1>5, <3>1, <3>2, <4>1
    <3>3. CASE k = K + 1
      <4>1. nums(k) = {OwnNum}
        BY <1>1, <3>3 DEF nums
      <4>2. OwnNum \in Nat
        BY <1>1 DEF OwnNum
      <4>3. SectionNums(it, k) = OwnNum .. OwnNum + 1 - 1
        BY <1>5, <3>1, <3>3
      <4>4. QED
        BY <4>1, <4>2, <4>3
    <3>4. QED
      BY <1>1, <3>2, <3>3
  <2>3. QED
    BY <2>1, <2>2
<1>12. \A k \in 1..K : nums(k) = RunNums(k) /\ OwnNum \notin RunNums(k)
  <2>1. ASSUME NEW k \in 1..K PROVE OwnNum \notin RunNums(k)
    <3>1. \A n \in RunNums(k) : PlaceOf(k, n) \in 1..L /\ log[PlaceOf(k, n)].obj_num = n
      BY <1>2
    <3>2. \A n \in RunNums(k) : n \in Nat /\ n <= max_obj_num
      BY <1>3, <3>1
    <3>3. QED
      BY <1>1, <3>2 DEF OwnNum
  <2>2. QED
    BY <2>1 DEF nums
<1>13. nums(K + 1) = {OwnNum}
  BY <1>1 DEF nums
<1>14. DeclaresOnce(it)
  <2>1. SUFFICES ASSUME NEW k \in 1..(K + 1), NEW l \in 1..(K + 1), nums(k) \intersect nums(l) # {} PROVE k = l
    BY <1>11 DEF DeclaresOnce
  <2>2. CASE k \in 1..K /\ l \in 1..K
    BY <1>2, <1>12, <2>1, <2>2
  <2>3. CASE k \in 1..K /\ l = K + 1
    BY <1>12, <1>13, <2>1, <2>3
  <2>4. CASE k = K + 1 /\ l \in 1..K
    BY <1>12, <1>13, <2>1, <2>4
  <2>5. QED
    BY <1>1, <2>2, <2>3, <2>4
<1>15. IsXref(it)
  BY <1>4 DEF IsXref
<1>16. AllFit(it, NewSize)
  <2>1. ASSUME NEW k \in 1..(K + 1) PROVE Fits(it.index[k][1], it.index[k][2], NewSize)
    <3>1. CASE k \in 1..K
      <4> DEFINE f == FirstNum(k)
                 r == RunLength(k)
      <4>1. f \in Nat /\ r \in Nat /\ f + r - 1 <= max_obj_num
        BY <1>1, <3>1
      <4>2. it.index[k][1] = f /\ it.index[k][2] = r
        BY <1>5, <3>1
      <4> HIDE DEF f, r
      <4>3. f + r <= max_obj_num + 2
        BY <1>1, <4>1
      <4>4. QED
        BY <4>2, <4>3 DEF Fits, NewSize
    <3>2. CASE k = K + 1
      <4>1. max_obj_num + 1 + 1 <= max_obj_num + 2
        BY <1>1
      <4>2. QED
        BY <1>5, <3>2, <4>1 DEF Fits, NewSize, OwnNum
    <3>3. QED
      BY <1>1, <3>1, <3>2
  <2>2. QED
    BY <1>4, <1>5, <2>1 DEF AllFit
<1>17. \A n : /\ n \in DeclaredNums(it) <=> \E k \in 1..(K + 1) : n \in nums(k)
              /\ \A k \in 1..(K + 1) : n \in nums(k) => DeclaredEntry(it, n) = EntryIn(it, k, n)
  <2>1. \A n : /\ n \in DeclaredNums(it) <=> \E k \in SectionsOf(it) : n \in SectionNums(it, k)
               /\ \A k \in SectionsOf(it) :
                    n \in SectionNums(it, k) => DeclaredEntry(it, n) = EntryIn(it, k, n)
    BY <1>4, <1>9, <1>14, <1>15, DeclaredBySections
  <2>2. QED
    BY <1>11, <2>1
<1>18. DeclaredNums(it) = Modif!LogNums \union {OwnNum}
  <2>1. ASSUME NEW n \in DeclaredNums(it) PROVE n \in Modif!LogNums \union {OwnNum}
    <3>1. PICK k \in 1..(K + 1) : n \in nums(k)
      BY <1>17
    <3>2. CASE k = K + 1
      BY <1>13, <3>1, <3>2
    <3>3. CASE k \in 1..K
      <4>1. PlaceOf(k, n) \in 1..L /\ log[PlaceOf(k, n)].obj_num = n
        BY <1>2, <1>12, <3>1, <3>3
      <4>2. QED
        BY <4>1 DEF Modif!LogNums, L
    <3>4. QED
      BY <1>1, <3>2, <3>3
  <2>2. ASSUME NEW i \in 1..L PROVE log[i].obj_num \in DeclaredNums(it)
    <3>1. PICK k \in 1..K : log[i].obj_num \in RunNums(k)
      BY <1>2
    <3>2. k \in 1..(K + 1) /\ log[i].obj_num \in nums(k)
      BY <1>1, <1>12, <3>1
    <3>3. QED
      BY <1>17, <3>2
  <2>3. OwnNum \in DeclaredNums(it)
    <3>1. K + 1 \in 1..(K + 1)
      BY <1>1
    <3>2. QED
      BY <1>13, <1>17, <3>1
  <2>4. QED
    BY <2>1, <2>2, <2>3 DEF Modif!LogNums, L
<1>19. ASSUME NEW i \in 1..L PROVE DeclaredEntry(it, log[i].obj_num) = Entry(N, b + i, 0)
  <2> DEFINE n == log[i].obj_num
  <2>1. PICK k \in 1..K : n \in RunNums(k)
    BY <1>2
  <2>2. PlaceOf(k, n) = i /\ k \in 1..(K + 1) /\ k <= K
    BY <1>1, <1>2, <2>1
  <2>3. DeclaredEntry(it, n) = EntryIn(it, k, n)
    BY <1>12, <1>17, <2>1, <2>2
  <2>4. PairStart(it.index)[k] = Starts[k]
    BY <1>10
  <2>5. it.index[k][1] = FirstNum(k) /\ Starts[k] \in Nat /\ FirstNum(k) \in Nat /\ n \in Nat
    BY <1>1, <1>3, <1>5
  <2> HIDE DEF n
  <2>6. PairStart(it.index)[k] + (n - it.index[k][1]) = i
    BY <2>2, <2>4, <2>5 DEF PlaceOf
  <2>7. EntryIn(it, k, n) = it.data[i]
    BY <1>4, <2>6 DEF EntryIn
  <2>8. it.data[i] = Entry(N, b + i, 0)
    BY <1>1, <1>5
  <2>9. QED
    BY <2>3, <2>7, <2>8 DEF n
<1>20. DeclaredEntry(it, OwnNum) = Entry(N, b + (L + 1), 0)
  <2>1. K + 1 \in 1..(K + 1) /\ OwnNum \in nums(K + 1)
    BY <1>1, <1>13
  <2>2. DeclaredEntry(it, OwnNum) = EntryIn(it, K + 1, OwnNum)
    BY <1>17, <2>1
  <2>3. PairStart(it.index)[K + 1] = L + 1
    BY <1>10
  <2>4. it.index[K + 1][1] = OwnNum /\ OwnNum \in Nat
    BY <1>1, <1>5 DEF OwnNum
  <2>5. PairStart(it.index)[K + 1] + (OwnNum - it.index[K + 1][1]) = L + 1
    BY <1>1, <2>3, <2>4
  <2>6. EntryIn(it, K + 1, OwnNum) = it.data[L + 1]
    BY <1>4, <2>5 DEF EntryIn
  <2>7. it.data[L + 1] = Entry(N, b + (L + 1), 0)
    BY <1>1, <1>5
  <2>8. QED
    BY <2>2, <2>6, <2>7
<1>21. b + (L + 1) = b + L + 1
  BY <1>1 DEF b
<1>22. /\ \A i \in 1..L : /\ DeclaredEntry(it, log[i].obj_num).type = N
                          /\ DeclaredEntry(it, log[i].obj_num).fields[1] = b + i
       /\ DeclaredEntry(it, OwnNum).type = N /\ DeclaredEntry(it, OwnNum).fields[1] = b + L + 1
  <2>1. \A x, y : Entry(N, x, y).type = N /\ Entry(N, x, y).fields[1] = x
    BY DEF Entry
  <2>2. QED
    BY <1>19, <1>20, <1>21, <2>1
<1>23. QED
  BY <1>4, <1>9, <1>14, <1>15, <1>16, <1>18, <1>22 DEF Describes, it, b, L

-----------------------------------------------------------------------------
(* A saved file.                                                            *)

\* A revision stays one in a file that has the same items up to it.
LEMMA RevisionStays ==
  ASSUME NEW f, NEW g, NEW o \in Nat, IsXref(f[o]), IsRevision(f, o), \A p \in 1..o : g[p] = f[p], o >= 1
  PROVE  IsRevision(g, o)
<1>1. g[o] = f[o] /\ \A p \in 1..(o - 1) : g[p] = f[p]
  OBVIOUS
<1>2. \A n, e : PointsHome(f, o, n, e) => PointsHome(g, o, n, e)
  BY DEF PointsHome
<1>3. QED
  BY <1>1, <1>2 DEF IsRevision

LEMMA PrefixIsFile ==
  ASSUME NEW f, IsFile(f), NEW m \in 1..Len(f), IsXref(f[m])
  PROVE  /\ IsFile(SubSeq(f, 1, m))
         /\ \A o \in 1..m : Tables(SubSeq(f, 1, m))[o] = Tables(f)[o]
<1> DEFINE g == SubSeq(f, 1, m)
<1>1. /\ Len(f) \in Nat /\ g \in Seq(Items(f)) /\ Len(g) = m
      /\ \A o \in 1..m : g[o] = f[o]
  BY PrefixOf
<1>2. g = [o \in 1..Len(g) |-> g[o]]
  BY <1>1
<1> HIDE DEF g
<1>3. ASSUME NEW o \in 1..m, IsXref(g[o]) PROVE IsRevision(g, o)
  <2>1. IsXref(f[o]) /\ o \in 1..Len(f) /\ o \in Nat /\ o >= 1
    BY <1>1, <1>3
  <2>2. IsRevision(f, o)
    BY <2>1, RevisionOf
  <2>3. \A p \in 1..o : g[p] = f[p]
    BY <1>1
  <2>4. QED
    BY <2>1, <2>2, <2>3, RevisionStays
<1>4. IsFile(g)
  <2>1. m \in Nat \ {0} /\ m \in 1..m
    BY <1>1
  <2>2. QED
    BY <1>1, <1>2, <1>3, <2>1 DEF IsFile
<1>5. \A o \in 1..m : f[o] = g[o]
  BY <1>1
<1>6. m \in Nat /\ m <= Len(f) /\ m <= Len(g)
  BY <1>1
<1>7. \A o \in 1..m : Tables(f)[o] = Tables(g)[o]
  BY <1>4, <1>5, <1>6, TablesOfPrefix
<1>8. QED
  BY <1>4, <1>7 DEF g

SavedFile(compress, output) ==
  (Base(output) \o SavedObjects) \o <<NewXref(compress, Base(output))>>

LEMMA BaseIs ==
  ASSUME IInv, status = "done", NEW output \in Outputs
  PROVE  /\ Base(output) \in Seq(Items(file))
         /\ Len(Base(output)) \in Nat /\ xref_offset \in 1..Len(Base(output))
         /\ Len(Base(output)) <= Len(file)
         /\ \A o \in 1..Len(Base(output)) : Base(output)[o] = file[o]
<1>1. IsFile(file) /\ xref_offset \in 1..Len(file) /\ Len(file) \in Nat
  BY DEF IInv, Document, IsFile
<1>2. CASE output = "copy"
  <2> DEFINE g == SubSeq(file, 1, xref_offset)
  <2>1. g \in Seq(Items(file)) /\ Len(g) = xref_offset /\ \A o \in 1..xref_offset : g[o] = file[o]
    BY <1>1, PrefixOf
  <2>2. Base(output) = g
    BY <1>2 DEF Base
  <2> HIDE DEF g
  <2>3. QED
    BY <1>1, <2>1, <2>2
<1>3. CASE output # "copy"
  <2>1. file \in Seq(Items(file))
    BY <1>1, PrefixOf
  <2>2. Base(output) = file
    BY <1>3 DEF Base
  <2>3. QED
    BY <1>1, <2>1, <2>2
<1>4. QED
  BY <1>2, <1>3

LEMMA SavedItems ==
  ASSUME IInv, status = "done", NEW compress \in BOOLEAN, NEW output \in Outputs
  PROVE  LET g == SavedFile(compress, output)
             b == Len(Base(output))
         IN  /\ Len(g) = b + Len(log) + 1
             /\ g = [o \in 1..Len(g) |-> g[o]]
             /\ \A o \in 1..b : g[o] = file[o]
             /\ \A i \in 1..Len(log) : g[b + i] = SavedObject(i)
             /\ g[b + Len(log) + 1] = NewXref(compress, Base(output))
<1> DEFINE base == Base(output)
           b == Len(base)
           L == Len(log)
           objects == SavedObjects
           new == NewXref(compress, base)
           S == Items(file) \union {SavedObject(i) : i \in 1..L} \union {new}
           g == SavedFile(compress, output)
<1>1. /\ base \in Seq(S) /\ b \in Nat /\ \A o \in 1..b : base[o] = file[o]
  <2>1. base \in Seq(Items(file)) /\ b \in Nat /\ \A o \in 1..b : base[o] = file[o]
    BY BaseIs
  <2>2. \A o \in 1..b : base[o] \in Items(file)
    BY <2>1, ElementOfSeq
  <2>3. base = [o \in 1..b |-> base[o]]
    BY <2>1
  <2> HIDE DEF base
  <2>4. base \in [1..b -> S]
    BY <2>2, <2>3
  <2> HIDE DEF b, S
  <2>5. base \in Seq(S)
    BY <2>1, <2>4, SeqDef
  <2>6. QED
    BY <2>1, <2>5
<1>2. L \in Nat
  BY LogFacts DEF IInv
<1>3. objects \in Seq(S) /\ Len(objects) = L /\ \A i \in 1..L : objects[i] = SavedObject(i)
  <2>1. objects \in [1..L -> S]
    BY DEF SavedObjects
  <2>2. Len(objects) = L /\ \A i \in 1..L : objects[i] = SavedObject(i)
    BY <1>2 DEF SavedObjects
  <2> HIDE DEF S, L, objects
  <2>3. objects \in Seq(S)
    BY <1>2, <2>1, SeqDef
  <2>4. QED
    BY <2>2, <2>3
<1>4. new \in S
  OBVIOUS
<1>5. g = (base \o objects) \o <<new>>
  BY DEF SavedFile
<1> HIDE DEF base, b, L, objects, new, S, g
<1> DEFINE u == base \o objects
<1>6. /\ u \in Seq(S) /\ Len(u) = b + L
      /\ \A o \in 1..(b + L) : u[o] = IF o <= b THEN base[o] ELSE objects[o - b]
  <2>1. /\ u \in Seq(S) /\ Len(u) = Len(base) + Len(objects)
        /\ \A o \in 1..(Len(base) + Len(objects)) : u[o] = IF o <= Len(base) THEN base[o] ELSE objects[o - Len(base)]
    BY <1>1, <1>3, ConcatProperties, Zenon
  <2>2. QED
    BY <1>3, <2>1 DEF b
<1> HIDE DEF u
<1>7. g = Append(u, new)
  BY <1>5, <1>6 DEF u
<1>8. /\ Len(g) = b + L + 1 /\ g[b + L + 1] = new
      /\ \A o \in 1..(b + L) : g[o] = u[o]
      /\ g = [o \in 1..Len(g) |-> g[o]]
  <2>1. /\ g \in Seq(S) /\ Len(g) = Len(u) + 1 /\ g[Len(u) + 1] = new
        /\ \A o \in 1..Len(u) : g[o] = u[o]
    <3>1. u \in Seq(S)
      BY <1>6
    <3>2. QED
      BY <1>4, <1>7, <3>1, AppendProperties
  <2>2. g = [o \in 1..Len(g) |-> g[o]]
    BY <2>1
  <2>3. QED
    BY <1>1, <1>2, <1>6, <2>1, <2>2
<1>9. \A o \in 1..b : g[o] = file[o]
  BY <1>1, <1>2, <1>6, <1>8
<1>10. ASSUME NEW i \in 1..L PROVE g[b + i] = SavedObject(i)
  <2>1. b + i \in 1..(b + L) /\ ~(b + i <= b) /\ (b + i) - b = i
    BY <1>1, <1>2
  <2>2. u[b + i] = objects[i]
    BY <1>6, <2>1
  <2>3. QED
    BY <1>3, <1>8, <2>1, <2>2
<1>11. QED
  BY <1>8, <1>9, <1>10 DEF g, b, L, new, base

LEMMA NewXrefDescribes ==
  ASSUME IInv, status = "done", NEW compress \in BOOLEAN, NEW output \in Outputs
  PROVE  Describes(NewXref(compress, Base(output)), compress, Base(output))
<1>1. Len(Base(output)) \in Nat
  BY BaseIs
<1>2. CASE compress = TRUE
  BY <1>1, <1>2, NewStreamDescribes DEF IInv
<1>3. CASE compress = FALSE
  BY <1>1, <1>3, NewTableDescribes DEF IInv
<1>4. QED
  BY <1>2, <1>3

\* What was saved is a file again.
LEMMA SavedIsFile ==
  ASSUME IInv, status = "done", alive, NEW compress \in BOOLEAN, NEW output \in Outputs
  PROVE  IsFile(SavedFile(compress, output))
<1> DEFINE g == SavedFile(compress, output)
           base == Base(output)
           b == Len(base)
           L == Len(log)
           new == NewXref(compress, base)
<1>1. /\ Len(g) = b + L + 1 /\ g = [o \in 1..Len(g) |-> g[o]]
      /\ \A o \in 1..b : g[o] = file[o]
      /\ \A i \in 1..L : g[b + i] = SavedObject(i)
      /\ g[b + L + 1] = new
  BY SavedItems
<1>2. b \in Nat /\ xref_offset \in 1..b /\ b <= Len(file) /\ Len(file) \in Nat
  BY BaseIs DEF IInv, Document, IsFile
<1>3. /\ L \in Nat /\ max_obj_num \in Nat
      /\ \A i \in 1..L : /\ log[i].obj_num \in Nums /\ log[i].ind_obj \in Objs
                         /\ cell[log[i].ind_obj] = "log" /\ num[log[i].ind_obj] = log[i].obj_num
  BY LogFacts DEF IInv
<1>4. Describes(new, compress, base)
  BY NewXrefDescribes
<1>5. compress <=> new.kind = "stream"
  BY DEF NewXref
<1>6. compress => new.gen = 0 /\ new.val = None
  BY DEF NewXref
<1>7. \A i \in 1..L : /\ SavedObject(i).kind = "obj" /\ SavedObject(i).num = log[i].obj_num
                      /\ SavedObject(i).gen \in Gens /\ SavedObject(i).val \in Vals
  BY <1>3 DEF SavedObject, IInv, HeapOK
<1> HIDE DEF g, base, b, L, new
<1> DEFINE z == b + L + 1
<1>8. z \in Nat /\ z >= 1 /\ xref_offset \in 1..(z - 1) /\ z \in 1..Len(g) /\ Len(g) = z
  BY <1>1, <1>2, <1>3
<1>9. ASSUME NEW n \in DeclaredNums(new) PROVE PointsHome(g, z, n, DeclaredEntry(new, n))
  <2> DEFINE e == DeclaredEntry(new, n)
  <2>1. CASE n \in Modif!LogNums
    <3>1. PICK i \in 1..L : log[i].obj_num = n
      BY <2>1 DEF Modif!LogNums, L
    <3>2. e.type = N /\ e.fields[1] = b + i
      BY <1>4, <3>1 DEF Describes, L, b
    <3>3. g[b + i] = SavedObject(i) /\ b + i \in 1..z
      BY <1>1, <1>2, <1>3
    <3> HIDE DEF e
    <3>4. QED
      BY <1>7, <3>1, <3>2, <3>3 DEF PointsHome, e
  <2>2. CASE n \notin Modif!LogNums
    <3>1. compress /\ n = OwnNum
      BY <1>4, <2>2 DEF Describes
    <3>2. e.type = N /\ e.fields[1] = z
      BY <1>4, <3>1 DEF Describes, L, b
    <3>3. g[z] = new /\ new.kind # "obj" /\ new.gen = 0 /\ new.val = None /\ z \in 1..z
      BY <1>1, <1>5, <1>6, <1>8, <3>1
    <3> HIDE DEF e
    <3>4. QED
      BY <3>2, <3>3 DEF PointsHome, Gens, e
  <2>3. QED
    BY <2>1, <2>2
<1>10. IsRevision(g, z)
  <2>1. new.size \in Nat \ {0}
    BY <1>3, <1>4 DEF Describes, NewSize
  <2>2. new.prev \in 1..(z - 1) /\ IsXref(g[new.prev])
    <3>1. new.prev = xref_offset
      BY <1>4 DEF Describes
    <3>2. IsXref(file[xref_offset]) /\ g[xref_offset] = file[xref_offset]
      BY <1>1, <1>2 DEF IInv, Document
    <3>3. QED
      BY <1>8, <3>1, <3>2
  <2>3. g[z] = new
    BY <1>1
  <2>4. (new.kind = "table" => HasSections(new)) /\ (new.kind = "stream" => HasPairs(new)) /\ DeclaresOnce(new)
    BY <1>4 DEF Describes
  <2> HIDE DEF z
  <2>5. QED
    BY <1>9, <2>1, <2>2, <2>3, <2>4 DEF IsRevision
<1>11. ASSUME NEW o \in 1..z, IsXref(g[o]) PROVE IsRevision(g, o)
  <2>1. CASE o \in 1..b
    <3>1. o \in 1..Len(file) /\ o \in Nat /\ o >= 1 /\ \A p \in 1..o : g[p] = file[p]
      BY <1>1, <1>2, <2>1
    <3>2. IsXref(file[o]) /\ IsFile(file)
      BY <1>11, <3>1 DEF IInv, Document
    <3>3. IsRevision(file, o)
      BY <3>1, <3>2, RevisionOf
    <3>4. QED
      BY <3>1, <3>2, <3>3, RevisionStays
  <2>2. CASE o \in (b + 1)..(b + L)
    <3> DEFINE i == o - b
    <3>1. i \in 1..L /\ b + i = o
      BY <1>2, <1>3, <2>2
    <3> HIDE DEF i
    <3>2. g[o].kind = "obj"
      BY <1>1, <1>7, <3>1
    <3>3. QED
      BY <1>11, <3>2 DEF IsXref
  <2>3. CASE o = z
    BY <1>10, <2>3
  <2>4. QED
    BY <1>2, <1>3, <2>1, <2>2, <2>3
<1>12. IsXref(g[z])
  BY <1>1, <1>4 DEF Describes
<1>13. IsFile(g)
  <2>1. z \in Nat \ {0}
    BY <1>8
  <2> HIDE DEF z
  <2>2. QED
    BY <1>1, <1>8, <1>11, <1>12, <2>1 DEF IsFile
<1>14. QED
  BY <1>13 DEF g

\* What an open document shows is what the revisions up to its own hold.
LEMMA LookupIs ==
  ASSUME IInv, status = "done", NEW n \in AllNums
  PROVE  LET e == Tables(file)[xref_offset][n] IN
         /\ Lookup(n) = IF e.type = N THEN file[e.fields[1]].val ELSE None
         /\ e.type = N => n < size /\ e.fields[1] \in 1..xref_offset
         /\ size \in Nat /\ size = file[xref_offset].size
<1> DEFINE e == Tables(file)[xref_offset][n]
<1>1. /\ n \in Nat /\ IsFile(file) /\ xref_offset \in 1..Len(file) /\ IsXref(file[xref_offset])
      /\ prev = NoPrev
  BY NumsAre DEF IInv, Document
<1>2. /\ size = file[xref_offset].size
      /\ \A m \in 0..(size - 1) : PointsHome(file, xref_offset, m, entries[m])
      /\ e = IF Untouched(Current(n)) THEN Below(n) ELSE Current(n)
  BY DEF IInv, TableIsRead
<1>3. size \in Nat
  BY <1>1, <1>2, RevisionOf DEF IsRevision
<1>4. Below(n) = BlankEntry /\ BlankEntry.type # N /\ N # F
  BY <1>1 DEF Below, BlankEntry, Entry, F, N
<1>5. e.type = N <=> Current(n).type = N
  BY <1>2, <1>4 DEF Untouched
<1>6. e.type = N => e = Current(n)
  BY <1>2, <1>4
<1> HIDE DEF e
<1>7. CASE n < size
  <2>1. Current(n) = entries[n] /\ PointsHome(file, xref_offset, n, entries[n])
    BY <1>1, <1>2, <1>3, <1>7 DEF Current
  <2>2. QED
    BY <1>2, <1>3, <1>5, <1>6, <1>7, <2>1 DEF Lookup, ObjectAt, PointsHome, e
<1>8. CASE ~(n < size)
  <2>1. Current(n) = BlankEntry
    BY <1>1, <1>3, <1>8 DEF Current
  <2>2. QED
    BY <1>2, <1>3, <1>4, <1>5, <1>8, <2>1 DEF Lookup, e
<1>9. QED
  BY <1>7, <1>8

\* What the file that was opened holds.
LEMMA OpenedStore ==
  ASSUME IInv, status = "done", NEW n \in AllNums
  PROVE  StoreOf(SubSeq(file, 1, xref_offset))[n] = Lookup(n)
<1> DEFINE g == SubSeq(file, 1, xref_offset)
           e == Tables(file)[xref_offset][n]
<1>1. IsFile(file) /\ xref_offset \in 1..Len(file) /\ IsXref(file[xref_offset])
  BY DEF IInv, Document
<1>2. /\ Len(g) = xref_offset /\ \A o \in 1..xref_offset : g[o] = file[o]
      /\ \A o \in 1..xref_offset : Tables(g)[o] = Tables(file)[o]
      /\ xref_offset \in 1..xref_offset
  BY <1>1, PrefixOf, PrefixIsFile
<1>3. TableOf(g)[n] = e /\ g[Len(g)].size = size
  BY <1>2, LookupIs DEF TableOf
<1>4. StoreOf(g)[n] = IF e.type = N /\ n < size THEN g[e.fields[1]].val ELSE None
  BY <1>3 DEF StoreOf
<1>5. /\ Lookup(n) = IF e.type = N THEN file[e.fields[1]].val ELSE None
      /\ e.type = N => n < size /\ e.fields[1] \in 1..xref_offset
  BY LookupIs
<1> HIDE DEF g, e
<1>6. StoreOf(g)[n] = Lookup(n)
  BY <1>2, <1>4, <1>5
<1>7. QED
  BY <1>6 DEF g

\* A saved file holds the edits of the log, and under every other number what the
\* file that was opened holds.
LEMMA SavedStore ==
  ASSUME IInv, status = "done", alive, NEW compress \in BOOLEAN, NEW output \in Outputs,
         NEW n \in AllNums
  PROVE  StoreOf(SavedFile(compress, output))[n] =
           IF n \in Modif!LogNums THEN PendingEdits[n] ELSE Lookup(n)
<1> DEFINE g == SavedFile(compress, output)
           b == Len(Base(output))
           L == Len(log)
           z == b + L + 1
           new == NewXref(compress, Base(output))
           e == Tables(file)[xref_offset][n]
           d == DeclaredEntry(new, n)
           ge == Tables(g)[z][n]
<1>1. /\ Len(g) = z /\ g[z] = new
      /\ \A o \in 1..b : g[o] = file[o]
      /\ \A i \in 1..L : g[b + i] = SavedObject(i)
  BY SavedItems
<1>2. /\ b \in Nat /\ xref_offset \in 1..b /\ b <= Len(file) /\ Len(file) \in Nat /\ IsFile(file)
      /\ msize = size
  BY BaseIs DEF IInv, Document, IsFile
<1>3. /\ L \in Nat /\ max_obj_num \in Nat /\ max_obj_num >= size - 1
      /\ \A i \in 1..L : log[i].obj_num \in Nat /\ log[i].obj_num <= max_obj_num
  BY <1>2, LogFacts DEF IInv
<1>4. Describes(new, compress, Base(output)) /\ IsFile(g)
  BY NewXrefDescribes, SavedIsFile
<1>5. n \in Nat /\ NoPrev = -1
  BY NumsAre DEF NoPrev
<1>6. z \in Nat /\ z \in 1..Len(g) /\ IsXref(g[z]) /\ xref_offset \in 1..z
  BY <1>1, <1>2, <1>3, <1>4 DEF Describes
<1>7. g[z].prev = xref_offset /\ g[z].size = NewSize
  BY <1>1, <1>4 DEF Describes
<1> HIDE DEF g, z, new, b, L
<1>8. Tables(g)[xref_offset] = Tables(file)[xref_offset]
  <2>1. \A o \in 1..xref_offset : file[o] = g[o]
    BY <1>1, <1>2
  <2>2. xref_offset \in Nat /\ xref_offset <= Len(file) /\ xref_offset <= Len(g) /\ xref_offset \in 1..xref_offset
    BY <1>2, <1>1, <1>6
  <2>3. QED
    BY <1>2, <1>4, <2>1, <2>2, TablesOfPrefix
<1>9. ge = IF n \in DeclaredNums(new) /\ ~Untouched(d) THEN d ELSE e
  <2>1. ge = IF n \in DeclaredNums(g[z]) /\ ~Untouched(DeclaredEntry(g[z], n))
             THEN DeclaredEntry(g[z], n)
             ELSE IF g[z].prev = NoPrev THEN BlankEntry ELSE Tables(g)[g[z].prev][n]
    BY <1>4, <1>6, TableOfRevision
  <2>2. g[z].prev # NoPrev
    BY <1>2, <1>5, <1>7
  <2>3. QED
    BY <1>1, <1>7, <1>8, <2>1, <2>2
<1>10. StoreOf(g)[n] = IF ge.type = N /\ n < NewSize THEN g[ge.fields[1]].val ELSE None
  <2>1. TableOf(g)[n] = ge /\ g[Len(g)].size = NewSize
    BY <1>1, <1>7 DEF TableOf
  <2> HIDE DEF ge
  <2>2. QED
    BY <2>1 DEF StoreOf
<1>11. /\ Lookup(n) = IF e.type = N THEN file[e.fields[1]].val ELSE None
       /\ e.type = N => n < size /\ e.fields[1] \in 1..xref_offset
       /\ size \in Nat
  BY LookupIs
<1> HIDE DEF e, d, ge
<1>12. CASE n \in Modif!LogNums
  <2>1. PICK i \in 1..L : log[i].obj_num = n
    BY <1>12 DEF Modif!LogNums, L
  <2>2. d.type = N /\ d.fields[1] = b + i
    BY <1>4, <2>1 DEF Describes, d, b, L
  <2>3. n \in DeclaredNums(new)
    BY <1>4, <1>12 DEF Describes
  <2>4. ge = d
    BY <1>9, <2>2, <2>3 DEF Untouched, F, N
  <2>5. n < NewSize
    BY <1>3, <2>1 DEF NewSize
  <2>6. g[b + i] = SavedObject(i) /\ SavedObject(i).val = content[log[i].ind_obj].val
    BY <1>1 DEF SavedObject
  <2>7. PendingEdits[n] = content[log[i].ind_obj].val
    BY <2>1, EditOf DEF IInv, L
  <2>8. StoreOf(g)[n] = PendingEdits[n]
    BY <1>10, <2>2, <2>4, <2>5, <2>6, <2>7
  <2>9. QED
    BY <1>12, <2>8 DEF g
<1>13. CASE n \notin Modif!LogNums /\ compress /\ n = OwnNum
  <2>1. Lookup(n) = None
    BY <1>3, <1>5, <1>11, <1>13 DEF OwnNum
  <2>2. d.type = N /\ d.fields[1] = z
    BY <1>4, <1>13 DEF Describes, d, z, b, L
  <2>3. n \in DeclaredNums(new)
    BY <1>4, <1>13 DEF Describes
  <2>4. ge = d
    BY <1>9, <2>2, <2>3 DEF Untouched, F, N
  <2>5. new.val = None
    BY <1>13 DEF new, NewXref
  <2>6. StoreOf(g)[n] = None
    BY <1>1, <1>10, <2>2, <2>4, <2>5
  <2>7. QED
    BY <1>13, <2>1, <2>6 DEF g
<1>14. CASE n \notin Modif!LogNums /\ ~(compress /\ n = OwnNum)
  <2>1. n \notin DeclaredNums(new)
    BY <1>4, <1>14 DEF Describes
  <2>2. ge = e
    BY <1>9, <2>1
  <2>3. n < size => n < NewSize
    BY <1>3, <1>5, <1>11 DEF NewSize
  <2>4. e.type = N => g[e.fields[1]] = file[e.fields[1]]
    BY <1>1, <1>2, <1>11
  <2>5. StoreOf(g)[n] = Lookup(n)
    BY <1>10, <1>11, <2>2, <2>3, <2>4
  <2>6. QED
    BY <1>14, <2>5 DEF g
<1>15. QED
  BY <1>12, <1>13, <1>14

\* An open document shows the same after the save.
LEMMA SaveShowsSame ==
  ASSUME IInv, status = "done", alive, NEW compress \in BOOLEAN, NEW output \in Outputs
  PROVE  LET g == SavedFile(compress, output) IN
         /\ xref_offset \in 1..Len(g) /\ Len(g) \in Nat
         /\ \A o \in 1..xref_offset : g[o] = file[o]
         /\ Tables(g)[xref_offset] = Tables(file)[xref_offset]
         /\ SubSeq(g, 1, xref_offset) = SubSeq(file, 1, xref_offset)
<1> DEFINE g == SavedFile(compress, output)
           b == Len(Base(output))
<1>1. Len(g) = b + Len(log) + 1 /\ \A o \in 1..b : g[o] = file[o]
  BY SavedItems
<1>2. b \in Nat /\ xref_offset \in 1..b /\ b <= Len(file) /\ Len(file) \in Nat /\ IsFile(file) /\ Len(log) \in Nat
  BY BaseIs, LogFacts DEF IInv, Document, IsFile
<1>3. IsFile(g)
  BY SavedIsFile
<1> HIDE DEF g, b
<1>4. /\ xref_offset \in 1..Len(g) /\ xref_offset \in 1..Len(file) /\ Len(g) \in Nat
      /\ \A o \in 1..xref_offset : g[o] = file[o] /\ file[o] = g[o]
  BY <1>1, <1>2
<1>5. Tables(g)[xref_offset] = Tables(file)[xref_offset]
  <2>1. xref_offset \in Nat /\ xref_offset <= Len(file) /\ xref_offset <= Len(g) /\ xref_offset \in 1..xref_offset
    BY <1>2, <1>4
  <2>2. QED
    BY SMTT(30), <1>2, <1>3, <1>4, <2>1, TablesOfPrefix
<1>6. SubSeq(g, 1, xref_offset) = SubSeq(file, 1, xref_offset)
  <2> DEFINE u == SubSeq(g, 1, xref_offset)
             v == SubSeq(file, 1, xref_offset)
  <2>1. u \in Seq(Items(g)) /\ Len(u) = xref_offset /\ \A o \in 1..xref_offset : u[o] = g[o]
    BY <1>3, <1>4, PrefixOf
  <2>2. v \in Seq(Items(file)) /\ Len(v) = xref_offset /\ \A o \in 1..xref_offset : v[o] = file[o]
    BY <1>2, <1>4, PrefixOf
  <2> HIDE DEF u, v
  <2>3. u = [o \in 1..xref_offset |-> u[o]] /\ v = [o \in 1..xref_offset |-> v[o]]
    BY <2>1, <2>2
  <2>4. \A o \in 1..xref_offset : u[o] = v[o]
    BY <1>4, <2>1, <2>2
  <2>5. u = v
    BY <2>3, <2>4
  <2>6. QED
    BY <2>5 DEF u, v
<1>7. QED
  BY <1>4, <1>5, <1>6 DEF g

LEMMA SaveHolds ==
  ASSUME IInv, NEW compress \in BOOLEAN, NEW output \in Outputs, Save(compress, output)
  PROVE  IInv'
<1> DEFINE g == SavedFile(compress, output)
<1>1. /\ status = "done" /\ alive /\ file' = g
      /\ UNCHANGED <<prev, size, entries, status, xref_offset, modif, content>>
  BY DEF Save, SavedFile, loader
<1>2. /\ xref_offset \in 1..Len(g) /\ Len(g) \in Nat
      /\ \A o \in 1..xref_offset : g[o] = file[o]
      /\ Tables(g)[xref_offset] = Tables(file)[xref_offset]
      /\ SubSeq(g, 1, xref_offset) = SubSeq(file, 1, xref_offset)
  BY <1>1, SaveShowsSame
<1>3. IsFile(g)
  BY <1>1, SavedIsFile
<1>4. ModifFacts!IInv'
  BY <1>1, LogSteps, LogKept DEF IInv
<1>5. /\ Document /\ xref_offset \in 1..Len(file) /\ prev = NoPrev /\ IsXref(file[xref_offset])
      /\ xref_offset \in Nat /\ msize = size /\ Len(file) \in Nat /\ IsFile(file)
  BY <1>1, <1>2 DEF IInv, Document, IsFile
<1>6. g[xref_offset] = file[xref_offset]
  BY <1>2, <1>5
<1>7. ASSUME NEW n \in AllNums
      PROVE  StoreOf(g)[n] = IF n \in Modif!LogNums THEN PendingEdits[n] ELSE Lookup(n)
  BY <1>1, SavedStore
<1>8. \A n \in AllNums : StoreOf(SubSeq(file, 1, xref_offset))[n] = Lookup(n)
  BY <1>1, OpenedStore
<1>9. Describes(NewXref(compress, Base(output)), compress, Base(output))
  BY <1>1, NewXrefDescribes
<1>10. g[Len(g)] = NewXref(compress, Base(output))
  BY <1>1, SavedItems
<1>11. xref_offset < Len(g)
  <2>1. Len(g) = Len(Base(output)) + Len(log) + 1
    BY <1>1, SavedItems
  <2>2. Len(Base(output)) \in Nat /\ xref_offset \in 1..Len(Base(output)) /\ Len(log) \in Nat
    BY <1>1, BaseIs, LogFacts DEF IInv
  <2> HIDE DEF g
  <2>3. QED
    BY <2>1, <2>2
<1> HIDE DEF g
<1>12. Document'
  BY <1>1, <1>2, <1>3, <1>5, <1>6 DEF Document, modif
<1>13. TableIsRead'
  <2>1. size # NoXref
    BY <1>1 DEF IInv, TableIsRead
  <2>2. /\ size = file[xref_offset].size /\ DOMAIN entries = 0..(size - 1)
        /\ \A n \in 0..(size - 1) : PointsHome(file, xref_offset, n, entries[n])
        /\ \A n \in AllNums :
             Tables(file)[xref_offset][n] = IF Untouched(Current(n)) THEN Below(n) ELSE Current(n)
    BY <1>1, <2>1 DEF IInv, TableIsRead
  <2>3. \A n \in 0..(size - 1) : PointsHome(g, xref_offset, n, entries[n])
    BY <1>2, <2>2 DEF PointsHome
  <2>4. \A n : Current(n)' = Current(n) /\ Below(n)' = Below(n)
    BY <1>1, <1>5 DEF Current, Below
  <2>5. \A n \in AllNums :
          Tables(g)[xref_offset][n] = IF Untouched(Current(n)') THEN Below(n)' ELSE Current(n)'
    BY <1>2, <2>2, <2>4
  <2>6. QED
    BY <1>1, <1>6, <2>1, <2>2, <2>3, <2>5 DEF TableIsRead
<1>14. size \in Nat /\ size <= NewSize /\ NewSize \in Nat
  <2>1. size \in Nat
    BY <1>1, <1>5, RevisionOf DEF IInv, TableIsRead, IsRevision
  <2>2. max_obj_num \in Nat /\ max_obj_num >= size - 1
    BY <1>1, <1>5, LogFacts DEF IInv
  <2>3. QED
    BY <2>1, <2>2 DEF NewSize
<1>15. PICK S \in SUBSET (1..xref_offset) : xref_offset \in S /\ Fit(S, size, NoPrev)
  BY <1>1, <1>5 DEF IInv, ReadFits, TableIsRead
<1>16. ReadFits'
  <2>1. Fit(S, size, prev)'
    <3>1. \A o \in S : g[o] = file[o]
      BY <1>2
    <3>2. QED
      BY <1>1, <1>5, <1>15, <3>1 DEF Fit
  <2>2. QED
    BY <1>1, <1>15, <2>1 DEF ReadFits
<1>17. SavedFits'
  <2> DEFINE z == Len(g)
             S1 == S \union {z}
  <2>1. \A o \in S : IsXref(g[o]) /\ AllFit(g[o], NewSize) /\ g[o].prev \in S \union {NoPrev}
    <3>1. SUFFICES ASSUME NEW o \in S
                   PROVE  IsXref(g[o]) /\ AllFit(g[o], NewSize) /\ g[o].prev \in S \union {NoPrev}
      OBVIOUS
    <3>2. g[o] = file[o] /\ o \in 1..Len(file)
      BY <1>2, <1>5
    <3>3. IsXref(file[o]) /\ AllFit(file[o], size) /\ file[o].prev \in S \union {NoPrev}
      BY <1>15 DEF Fit
    <3>4. (file[o].kind = "table" => HasSections(file[o])) /\ (file[o].kind = "stream" => HasPairs(file[o]))
      BY <1>5, <3>2, <3>3, RevisionOf
    <3>5. AllFit(file[o], NewSize)
      BY <1>14, <3>3, <3>4, FitsInLarger
    <3>6. QED
      BY <3>2, <3>3, <3>5
  <2>2. IsXref(g[z]) /\ AllFit(g[z], NewSize) /\ g[z].prev = xref_offset /\ g[z].size = NewSize
    BY <1>9, <1>10 DEF Describes
  <2>3. S1 \in SUBSET (1..z) /\ z \in S1
    <3>1. z \in 1..z /\ \A o \in 1..xref_offset : o \in 1..z
      BY <1>2, <1>11
    <3> HIDE DEF z
    <3>2. QED
      BY <3>1
  <2>4. \A o \in S1 : IsXref(g[o]) /\ AllFit(g[o], g[z].size) /\ g[o].prev \in S1 \union {NoPrev}
    BY <1>15, <2>1, <2>2
  <2> HIDE DEF z
  <2>5. \E S2 : S2 = S1
    OBVIOUS
  <2>6. PICK S2 : S2 = S1
    BY <2>5
  <2>7. S2 \in SUBSET (1..z) /\ z \in S2
        /\ \A o \in S2 : IsXref(g[o]) /\ AllFit(g[o], g[z].size) /\ g[o].prev \in S2 \union {NoPrev}
    BY <2>3, <2>4, <2>6
  <2>8. Fit(S2, file[Len(file)].size, NoPrev)'
    BY <1>1, <2>7 DEF Fit, z
  <2>9. QED
    BY <1>1, <2>7, <2>8 DEF SavedFits, z
<1>18. HeapOK'
  BY <1>1 DEF IInv, HeapOK, modif
<1>19. EditsAreLogged'
  <2>1. (SubSeq(file, 1, xref_offset))' = SubSeq(file, 1, xref_offset)
    BY <1>1, <1>2
  <2>2. Modif!LogNums' = Modif!LogNums
    BY <1>1 DEF modif, Modif!LogNums
  <2>3. \A n \in AllNums \ Modif!LogNums : StoreOf(g)[n] = StoreOf(SubSeq(file, 1, xref_offset))[n]
    BY <1>7, <1>8
  <2>4. QED
    BY <1>1, <1>2, <2>2, <2>3 DEF EditsAreLogged
<1>20. QED
  BY <1>4, <1>12, <1>13, <1>16, <1>17, <1>18, <1>19 DEF IInv

-----------------------------------------------------------------------------
(* The theorems.                                                            *)

LEMMA StutterHolds == IInv /\ UNCHANGED vars => IInv'
<1> SUFFICES ASSUME IInv, UNCHANGED vars PROVE IInv'
  OBVIOUS
<1>1. UNCHANGED <<file, prev, size, entries, status, xref_offset, modif, content>>
  BY DEF vars, loader
<1>2. ModifFacts!IInv'
  BY <1>1, LogSteps, LogKept DEF IInv
<1>3. TableIsRead' /\ ReadFits' /\ SavedFits'
  BY <1>1, LoaderKept
<1>4. Document' /\ HeapOK'
  BY <1>1 DEF IInv, Document, HeapOK, modif
<1>5. EditsAreLogged'
  BY <1>1 DEF IInv, EditsAreLogged, modif, Modif!LogNums
<1>6. QED
  BY <1>2, <1>3, <1>4, <1>5 DEF IInv

\* The inductive invariant holds in every behaviour.
THEOREM InductiveInvariant == Spec => []IInv
<1>1. IInv /\ Next => IInv'
  <2> SUFFICES ASSUME IInv, Next PROVE IInv'
    OBVIOUS
  <2>1. CASE Open
    BY <2>1, OpenHolds
  <2>2. CASE LoadRevision
    BY <2>2, LoadRevisionHolds
  <2>3. CASE LoadAborts
    BY <2>3, LoadAbortsHolds
  <2>4. CASE NewLog
    BY <2>4, NewLogHolds
  <2>5. CASE CloseDoc
    BY <2>5, CloseDocHolds
  <2>6. ASSUME NEW o \in Objs, NEW n \in Nums, NEW v \in Vals, MakeObject(o, n, v) PROVE IInv'
    BY <2>6, MakeObjectHolds
  <2>7. ASSUME NEW o \in Objs, AddEntry(o) PROVE IInv'
    BY <2>7, AddEntryHolds
  <2>8. ASSUME NEW compress \in BOOLEAN, NEW output \in Outputs, Save(compress, output) PROVE IInv'
    BY <2>8, SaveHolds
  <2>9. QED
    BY <2>1, <2>2, <2>3, <2>4, <2>5, <2>6, <2>7, <2>8 DEF Next
<1>2. IInv /\ [Next]_vars => IInv'
  BY <1>1, StutterHolds
<1>3. QED
  BY <1>2, InitHolds, PTL DEF Spec

\* Offsets lie in the file, and the log and the contents of its cells have their form.
THEOREM TypeCorrect == Spec => []TypeOK
<1>1. IInv => TypeOK
  <2> SUFFICES ASSUME IInv PROVE TypeOK
    OBVIOUS
  <2>1. Modif!TypeOK
    BY LogFacts DEF IInv
  <2>2. content \in [Objs -> [gen : Gens, val : Vals \union {None}]]
    BY DEF IInv, HeapOK
  <2>3. Len(file) \in Nat /\ Document
    BY DEF IInv, Document, IsFile
  <2>4. xref_offset \in 0..Len(file)
    BY <2>3 DEF Document, Closed
  <2>5. prev \in {NoPrev} \union 1..Len(file) /\ status \in {"closed", "reading", "done", "aborted"}
    BY <2>3 DEF Document
  <2>6. QED
    BY <2>1, <2>2, <2>4, <2>5 DEF TypeOK
<1>2. QED
  BY <1>1, InductiveInvariant, PTL

\* An open document shows what the file it was opened from holds, whatever was saved since.
THEOREM DocumentShowsFile == Spec => []OpenShowsFile
<1>1. IInv => OpenShowsFile
  <2> SUFFICES ASSUME IInv, status = "done"
               PROVE  [n \in AllNums |-> Lookup(n)] = StoreOf(SubSeq(file, 1, xref_offset))
    BY DEF OpenShowsFile
  <2> DEFINE s == StoreOf(SubSeq(file, 1, xref_offset))
  <2>1. \A n \in AllNums : s[n] = Lookup(n)
    BY OpenedStore
  <2>2. s = [n \in AllNums |-> s[n]]
    BY DEF StoreOf
  <2> HIDE DEF s
  <2>3. s = [n \in AllNums |-> Lookup(n)]
    BY <2>1, <2>2
  <2>4. QED
    BY <2>3 DEF s
<1>2. QED
  BY <1>1, InductiveInvariant, PTL

\* The number for a new object, or for the xref stream, belongs to no object of the file
\* and of the log.
THEOREM NewNumberIsUnused == Spec => []NextNumberIsUnused
<1>1. IInv => NextNumberIsUnused
  <2> SUFFICES ASSUME IInv, alive, NEW n \in Nums, n > max_obj_num
               PROVE  Lookup(n) = None /\ n \notin Modif!LogNums
    BY DEF NextNumberIsUnused
  <2>1. status = "done" /\ msize = size
    BY DEF IInv, Document
  <2>2. n \in Nat /\ n \in AllNums
    BY NumsAre
  <2>3. max_obj_num \in Nat /\ max_obj_num >= size - 1 /\ size \in Nat
    BY <2>1, <2>2, LogFacts, LookupIs DEF IInv
  <2>4. ~(n < size)
    BY <2>2, <2>3
  <2>5. Lookup(n) = None
    BY <2>4 DEF Lookup
  <2>6. \A i \in 1..Len(log) : log[i].obj_num \in Nat /\ log[i].obj_num <= max_obj_num
    BY LogFacts DEF IInv
  <2>7. n \notin Modif!LogNums
    BY <2>2, <2>3, <2>6 DEF Modif!LogNums
  <2>8. QED
    BY <2>5, <2>7
<1>2. QED
  BY <1>1, InductiveInvariant, PTL

\* The program is never stopped by a file that the library saved.
THEOREM SavedFilesOpen == Spec => []NeverOverflows
<1>1. IInv => NeverOverflows
  BY DEF IInv, SavedFits, NeverOverflows
<1>2. QED
  BY <1>1, InductiveInvariant, PTL

\* A loaded table sends no number to an object of another one.
THEOREM NumbersFindTheirObjects == Spec => []EntriesPointHome
<1>1. IInv => EntriesPointHome
  <2> SUFFICES ASSUME IInv, status = "done" PROVE EntriesPointHome
    BY DEF EntriesPointHome
  <2>1. \A n \in 0..(size - 1) : PointsHome(file, xref_offset, n, entries[n])
    BY DEF IInv, TableIsRead
  <2>2. QED
    BY <2>1 DEF EntriesPointHome, PointsHome
<1>2. QED
  BY <1>1, InductiveInvariant, PTL

-----------------------------------------------------------------------------
(* The document implements DocStore.                                        *)

\* Every content of a file is that of one of its objects.
LEMMA StoreIs ==
  ASSUME IsFile(file)
  PROVE  StoreOf(file) \in [AllNums -> Vals \union {None}]
<1>1. \A n \in AllNums : StoreOf(file)[n] \in Vals \union {None}
  <2>1. SUFFICES ASSUME NEW n \in AllNums PROVE StoreOf(file)[n] \in Vals \union {None}
    OBVIOUS
  <2> DEFINE z == Len(file)
             e == Tables(file)[z][n]
  <2>2. z \in 1..z /\ IsXref(file[z])
    BY DEF IsFile
  <2>3. PointsHome(file, z, n, e)
    BY <2>2, TablesPointHome
  <2>4. StoreOf(file)[n] = IF e.type = N /\ n < file[z].size THEN file[e.fields[1]].val ELSE None
    BY DEF StoreOf, TableOf
  <2> HIDE DEF e, z
  <2>5. QED
    BY <2>3, <2>4 DEF PointsHome
<1>2. StoreOf(file) = [n \in AllNums |-> StoreOf(file)[n]]
  BY DEF StoreOf
<1>3. QED
  BY <1>1, <1>2

\* A step that is neither an edit, a save nor a close.
LEMMA QuietStep ==
  ASSUME file' = file, Modif!LogNums' = Modif!LogNums,
         \A m \in Modif!LogNums : content'[Modif!PendingMap'[m]].val = content[Modif!PendingMap[m]].val
  PROVE  UNCHANGED <<StoreOf(file), PendingEdits>>
<1>1. PendingEdits' = [m \in Modif!LogNums |-> content'[Modif!PendingMap'[m]].val]
  BY DEF PendingEdits
<1>2. PendingEdits' = PendingEdits
  BY <1>1 DEF PendingEdits
<1>3. QED
  BY <1>2

LEMMA StepImplements ==
  ASSUME IInv, IInv', [Next]_vars
  PROVE  [Store!Next]_<<StoreOf(file), PendingEdits>>
<1> DEFINE quiet == UNCHANGED <<StoreOf(file), PendingEdits>>
<1>1. ASSUME UNCHANGED <<file, modif, content>> PROVE quiet
  BY <1>1 DEF PendingEdits, Modif!LogNums, Modif!PendingMap, modif
<1>2. CASE Open \/ UNCHANGED vars
  BY <1>1, <1>2 DEF Open, vars
<1>3. CASE LoadRevision \/ LoadAborts
  BY <1>1, <1>3, LoadSteps
<1>4. CASE NewLog
  <2>1. log' = log /\ file' = file /\ content' = content
    BY <1>4, LogFacts DEF IInv, NewLog, Modif!New, Document
  <2>2. QED
    BY <2>1 DEF PendingEdits, Modif!LogNums, Modif!PendingMap
<1>5. ASSUME NEW o \in Objs, NEW n \in Nums, NEW v \in Vals, MakeObject(o, n, v) PROVE quiet
  <2>1. /\ log' = log /\ file' = file /\ cell[o] = "free"
        /\ content' = [content EXCEPT ![o] = [gen |-> GenOf(n), val |-> v]]
    BY <1>5 DEF MakeObject, Modif!MakeIndObj
  <2>2. Modif!LogNums' = Modif!LogNums /\ Modif!PendingMap' = Modif!PendingMap
    BY <2>1 DEF Modif!LogNums, Modif!PendingMap
  <2>3. \A m \in Modif!LogNums : Modif!PendingMap[m] \in Objs /\ Modif!PendingMap[m] # o
    BY <2>1, LogCells DEF IInv
  <2>4. \A m \in Modif!LogNums : content'[Modif!PendingMap[m]] = content[Modif!PendingMap[m]]
    BY <2>1, <2>3 DEF IInv, HeapOK
  <2>5. QED
    BY <2>1, <2>2, <2>4, QuietStep
<1>6. ASSUME NEW o \in Objs, AddEntry(o) PROVE \E n \in AllNums, v \in Vals : Store!Edit(n, v)
  <2>1. /\ num[o] \in Nums /\ content[o].val \in Vals
        /\ PendingEdits' = [m \in Modif!LogNums \union {num[o]} |->
                              IF m = num[o] THEN content[o].val ELSE PendingEdits[m]]
    BY <1>6, AddEntryEdits DEF IInv
  <2>2. DOMAIN PendingEdits = Modif!LogNums
    BY DEF PendingEdits
  <2>3. StoreOf(file)' = StoreOf(file)
    BY <1>6 DEF AddEntry
  <2>4. PICK n \in AllNums, v \in Vals : n = num[o] /\ v = content[o].val
    BY <2>1, NumsAre
  <2>5. Store!Edit(n, v)
    BY <2>1, <2>2, <2>3, <2>4 DEF Store!Edit
  <2>6. QED
    BY <2>5
<1>7. ASSUME NEW compress \in BOOLEAN, NEW output \in Outputs, Save(compress, output) PROVE Store!Save
  <2>1. status = "done" /\ alive /\ file' = SavedFile(compress, output) /\ UNCHANGED <<modif, content>>
    BY <1>7 DEF Save, SavedFile
  <2>2. PendingEdits' = PendingEdits
    BY <2>1 DEF PendingEdits, Modif!LogNums, Modif!PendingMap, modif
  <2>3. DOMAIN PendingEdits = Modif!LogNums
    BY DEF PendingEdits
  <2>4. ASSUME NEW n \in AllNums
        PROVE  StoreOf(SavedFile(compress, output))[n] =
                 IF n \in DOMAIN PendingEdits THEN PendingEdits[n] ELSE StoreOf(file)[n]
    <3>1. StoreOf(SavedFile(compress, output))[n] = IF n \in Modif!LogNums THEN PendingEdits[n] ELSE Lookup(n)
      BY <2>1, SavedStore
    <3>2. StoreOf(SubSeq(file, 1, xref_offset))[n] = Lookup(n)
      BY <2>1, OpenedStore
    <3>3. n \notin Modif!LogNums => StoreOf(file)[n] = Lookup(n)
      BY <2>1, <3>2 DEF IInv, EditsAreLogged
    <3>4. QED
      BY <2>3, <3>1, <3>3
  <2> DEFINE s == StoreOf(SavedFile(compress, output))
  <2>5. s = [n \in AllNums |-> s[n]]
    BY DEF StoreOf
  <2>6. StoreOf(file)' = s
    BY <2>1
  <2>7. \A n \in AllNums : s[n] = IF n \in DOMAIN PendingEdits THEN PendingEdits[n] ELSE StoreOf(file)[n]
    BY <2>4
  <2> HIDE DEF s
  <2>8. s = [n \in AllNums |-> IF n \in DOMAIN PendingEdits THEN PendingEdits[n] ELSE StoreOf(file)[n]]
    BY <2>5, <2>7
  <2>9. QED
    BY <2>2, <2>6, <2>8 DEF Store!Save
<1>8. ASSUME CloseDoc PROVE Store!Close
  <2>1. log' = <<>> /\ file' = file
    BY <1>8, LogFacts DEF CloseDoc, Modif!Destroy, modif, IInv
  <2>2. Modif!LogNums' = {}
    BY <2>1 DEF Modif!LogNums
  <2>3. PendingEdits' = Store!NoEdits
    BY <2>2 DEF PendingEdits, Store!NoEdits
  <2>4. QED
    BY <2>1, <2>3 DEF Store!Close
<1>9. QED
  BY <1>2, <1>3, <1>4, <1>5, <1>6, <1>7, <1>8 DEF Next, Store!Next

\* Through any number of edits, saves and sessions, saving overrides the edited objects
\* and changes nothing else of what a reader of the file finds.
THEOREM DocumentImplementsStore == Spec => ImplementsStore
<1>1. Init => Store!Init
  <2> SUFFICES ASSUME Init PROVE Store!Init
    OBVIOUS
  <2>1. IsFile(file)
    BY OriginalsAssumption DEF Init
  <2>2. StoreOf(file) \in [AllNums -> Vals \union {None}]
    BY <2>1, StoreIs
  <2>3. Modif!LogNums = {}
    BY DEF Init, Modif!LogNums
  <2>4. PendingEdits = Store!NoEdits
    BY <2>3 DEF PendingEdits, Store!NoEdits
  <2>5. QED
    BY <2>2, <2>4 DEF Store!Init
<1>2. IInv /\ IInv' /\ [Next]_vars => [Store!Next]_<<StoreOf(file), PendingEdits>>
  BY StepImplements
<1>3. IInv /\ IInv' /\ [Next]_vars => [Store!Next]_Store!vars
  BY <1>2 DEF Store!vars
<1>4. QED
  BY <1>1, <1>3, InductiveInvariant, PTL DEF Spec, ImplementsStore, Store!Spec
=============================================================================
