--------------------------- MODULE XrefFormatProofs ---------------------------
(***************************************************************************)
(* Lemmas about what a revision of a file declares: where the pairs of an   *)
(* index start in the data of a stream, and which entry a table or a stream *)
(* declares for a number, in terms of its sections and pairs.  Before them   *)
(* induction over the natural numbers, in a form that needs no operators,    *)
(* and what FlattenSeq computes.                                            *)
(***************************************************************************)
EXTENDS XrefFormat, SequencesExt, WellFoundedInduction, TLAPS

\* The entry of number n in section or pair k.
EntryIn(it, k, n) ==
  IF it.kind = "table" THEN it.sections[k].entries[n - it.sections[k].first + 1]
  ELSE it.data[PairStart(it.index)[k] + (n - it.index[k][1])]

-----------------------------------------------------------------------------
(* Induction over the natural numbers as facts about sets of numbers, for  *)
(* what is defined by recursion or by a least number, here and in the other *)
(* proof modules (Numbers).                                                *)

\* Every set of natural numbers that is not empty has a least one.
LEMMA LeastNumber ==
  ASSUME NEW T \in SUBSET Nat, T # {}
  PROVE  \E n \in T : \A m \in T : n <= m
<1> DEFINE Below == OpToRel(<, Nat)
<1>1. IsWellFoundedOn(Below, Nat)
  BY NatLessThanWellFounded
<1> HIDE DEF Below
<1>2. PICK n \in T : \A m \in T : ~(<<m, n>> \in Below)
  BY <1>1, WFMin
<1>3. ASSUME NEW m \in T PROVE n <= m
  <2>1. ~(<<m, n>> \in Below) /\ <<m, n>> \in Nat \X Nat
    BY <1>2
  <2>2. ~(m < n)
    BY <2>1 DEF Below, OpToRel
  <2>3. QED
    BY <2>2
<1>4. QED
  BY <1>3

\* A set that holds 0, and with each number the next, holds every natural number.
LEMMA SetInductionOnNat ==
  ASSUME NEW T \in SUBSET Nat, 0 \in T, \A n \in T : n + 1 \in T
  PROVE  T = Nat
<1>1. SUFFICES ASSUME Nat \ T # {} PROVE FALSE
  OBVIOUS
<1>2. PICK n \in Nat \ T : \A m \in Nat \ T : n <= m
  BY <1>1, LeastNumber
<1>3. n # 0 /\ n - 1 \in Nat
  BY <1>2
<1>4. n - 1 \in T
  BY <1>2, <1>3
<1>5. QED
  BY <1>2, <1>3, <1>4

-----------------------------------------------------------------------------
(* FlattenSeq, which strings sequences together, for the other proof modules. *)

LEMMA FlattenIs ==
  ASSUME NEW ss, Len(ss) \in Nat \ {0}
  PROVE  \E f : /\ f = [i \in 1..Len(ss) |-> IF i = 1 THEN ss[i] ELSE f[i - 1] \o ss[i]]
                /\ FlattenSeq(ss) = f[Len(ss)]
<1> DEFINE Step(f, i) == IF i = 1 THEN ss[i] ELSE f[i - 1] \o ss[i]
           T == {m \in Nat : \E f : f = [i \in 1..m |-> Step(f, i)]}
<1>1. 0 \in T
  <2> DEFINE f == [i \in 1..0 |-> <<>>]
  <2>1. f = [i \in 1..0 |-> Step(f, i)]
    OBVIOUS
  <2> HIDE DEF f
  <2>2. QED
    BY <2>1
<1>2. ASSUME NEW m \in T PROVE m + 1 \in T
  <2>1. m \in Nat
    OBVIOUS
  <2>2. PICK f : f = [i \in 1..m |-> Step(f, i)]
    OBVIOUS
  <2> DEFINE g == [i \in 1..(m + 1) |-> IF i <= m THEN f[i] ELSE Step(f, i)]
  <2>3. ASSUME NEW i \in 1..(m + 1) PROVE g[i] = Step(g, i)
    <3>1. i # 1 => i - 1 \in 1..m /\ g[i - 1] = f[i - 1]
      BY <2>1
    <3>2. Step(g, i) = Step(f, i)
      BY <3>1
    <3>3. CASE i \in 1..m
      <4>1. g[i] = f[i]
        BY <3>3
      <4>2. f[i] = Step(f, i)
        BY <2>2, <3>3
      <4>3. QED
        BY <4>1, <4>2, <3>2
    <3>4. CASE i = m + 1
      <4>1. ~(i <= m)
        BY <2>1, <3>4
      <4>2. QED
        BY <4>1, <3>2
    <3>5. QED
      BY <2>1, <3>3, <3>4
  <2>4. g = [i \in 1..(m + 1) |-> g[i]]
    OBVIOUS
  <2> HIDE DEF g, Step
  <2>5. g = [i \in 1..(m + 1) |-> Step(g, i)]
    BY <2>3, <2>4
  <2>6. m + 1 \in Nat
    BY <2>1
  <2>7. QED
    BY <2>5, <2>6
<1>3. T = Nat
  <2> HIDE DEF T
  <2>1. T \in SUBSET Nat
    BY DEF T
  <2>2. QED
    BY <2>1, <1>1, <1>2, SetInductionOnNat
<1> DEFINE flatten == CHOOSE f : f = [i \in 1..Len(ss) |-> IF i = 1 THEN ss[i] ELSE f[i - 1] \o ss[i]]
<1>4. \E f : f = [i \in 1..Len(ss) |-> IF i = 1 THEN ss[i] ELSE f[i - 1] \o ss[i]]
  BY <1>3
<1>5. flatten = [i \in 1..Len(ss) |-> IF i = 1 THEN ss[i] ELSE flatten[i - 1] \o ss[i]]
  BY <1>4
<1>6. FlattenSeq(ss) = flatten[Len(ss)]
  BY DEF FlattenSeq
<1> HIDE DEF flatten
<1>7. QED
  BY <1>5, <1>6

LEMMA FlattenAppend ==
  ASSUME NEW S, NEW ss \in Seq(Seq(S)), NEW s \in Seq(S)
  PROVE  /\ FlattenSeq(ss) \in Seq(S)
         /\ FlattenSeq(Append(ss, s)) = FlattenSeq(ss) \o s
<1> DEFINE n == Len(ss)
           all == Append(ss, s)
<1>1. /\ n \in Nat /\ Len(all) = n + 1 /\ Len(all) \in Nat \ {0}
      /\ all[n + 1] = s /\ \A i \in 1..n : all[i] = ss[i] /\ ss[i] \in Seq(S)
  OBVIOUS
<1>2. CASE n = 0
  <2>1. ss = <<>> /\ FlattenSeq(ss) = ss
    BY <1>2 DEF FlattenSeq
  <2>2. PICK f : /\ f = [i \in 1..Len(all) |-> IF i = 1 THEN all[i] ELSE f[i - 1] \o all[i]]
                 /\ FlattenSeq(all) = f[Len(all)]
    BY <1>1, FlattenIs
  <2>3. f[1] = s
    BY <2>2, <1>1, <1>2
  <2>4. Len(all) = 1
    BY <1>1, <1>2
  <2>5. FlattenSeq(all) = s
    BY <2>2, <2>3, <2>4
  <2>6. <<>> \o s = s /\ <<>> \in Seq(S)
    OBVIOUS
  <2>7. QED
    BY <2>1, <2>5, <2>6
<1>3. CASE n # 0
  <2> HIDE DEF all
  <2>1. PICK f : /\ f = [i \in 1..Len(all) |-> IF i = 1 THEN all[i] ELSE f[i - 1] \o all[i]]
                 /\ FlattenSeq(all) = f[Len(all)]
    BY <1>1, FlattenIs
  <2>2. n \in Nat \ {0}
    BY <1>1, <1>3
  <2>3. PICK g : /\ g = [i \in 1..n |-> IF i = 1 THEN ss[i] ELSE g[i - 1] \o ss[i]]
                 /\ FlattenSeq(ss) = g[n]
    BY <2>2, FlattenIs
  <2>4. /\ f[1] = all[1] /\ g[1] = ss[1]
        /\ \A i \in 1..n : f[i + 1] = f[i] \o all[i + 1]
        /\ \A i \in 1..(n - 1) : g[i + 1] = g[i] \o ss[i + 1]
    <3>1. 1 \in 1..(n + 1) /\ 1 \in 1..n
      BY <2>2
    <3>2. f[1] = all[1] /\ g[1] = ss[1]
      BY <2>1, <2>3, <1>1, <3>1
    <3>3. ASSUME NEW i \in 1..n PROVE f[i + 1] = f[i] \o all[i + 1]
      <4>1. i + 1 \in 1..(n + 1) /\ i + 1 # 1 /\ (i + 1) - 1 = i
        BY <2>2
      <4>2. QED
        BY <2>1, <1>1, <4>1
    <3>4. ASSUME NEW i \in 1..(n - 1) PROVE g[i + 1] = g[i] \o ss[i + 1]
      <4>1. i + 1 \in 1..n /\ i + 1 # 1 /\ (i + 1) - 1 = i
        BY <2>2
      <4>2. QED
        BY <2>3, <4>1
    <3>5. QED
      BY <3>2, <3>3, <3>4
  <2> DEFINE U == {m \in Nat : m < n => f[m + 1] = g[m + 1] /\ f[m + 1] \in Seq(S)}
  <2>5. 0 \in U
    <3>1. all[1] = ss[1] /\ ss[1] \in Seq(S)
      BY <1>1, <2>2
    <3>2. QED
      BY <2>4, <3>1
  <2>6. ASSUME NEW m \in U PROVE m + 1 \in U
    <3>1. ASSUME m + 1 < n PROVE f[(m + 1) + 1] = g[(m + 1) + 1] /\ f[(m + 1) + 1] \in Seq(S)
      <4>1. m \in Nat /\ m < n /\ m + 1 \in 1..n /\ m + 1 \in 1..(n - 1) /\ (m + 1) + 1 \in 1..n
        BY <2>2, <3>1
      <4>2. f[m + 1] = g[m + 1] /\ f[m + 1] \in Seq(S)
        BY <4>1
      <4>3. f[(m + 1) + 1] = f[m + 1] \o all[(m + 1) + 1] /\ g[(m + 1) + 1] = g[m + 1] \o ss[(m + 1) + 1]
        BY <2>4, <4>1
      <4>4. all[(m + 1) + 1] = ss[(m + 1) + 1] /\ ss[(m + 1) + 1] \in Seq(S)
        BY <1>1, <4>1
      <4>5. QED
        BY <4>2, <4>3, <4>4
    <3>2. QED
      BY <3>1
  <2>7. U = Nat
    <3> HIDE DEF U
    <3>1. U \in SUBSET Nat
      BY DEF U
    <3>2. QED
      BY <3>1, <2>5, <2>6, SetInductionOnNat
  <2>8. n - 1 \in Nat /\ n - 1 < n /\ (n - 1) + 1 = n /\ n \in 1..n
    BY <2>2
  <2>9. f[n] = g[n] /\ f[n] \in Seq(S)
    <3>1. n - 1 \in U
      BY <2>7, <2>8
    <3>2. QED
      BY <2>8, <3>1
  <2>10. f[n + 1] = f[n] \o all[n + 1]
    BY <2>4, <2>8
  <2>11. QED
    BY <1>1, <2>1, <2>3, <2>9, <2>10 DEF all
<1>4. QED
  BY <1>2, <1>3

-----------------------------------------------------------------------------
(* The places of the pairs of an index.                                    *)

LEMMA StartFacts ==
  ASSUME NEW it, HasPairs(it),
         NEW start \in [1..(Len(it.index) + 1) -> 0..Len(it.data)], Divides(start, it)
  PROVE  /\ Len(it.index) \in Nat /\ start[1] = 0
         /\ \A k \in 1..(Len(it.index) + 1) : start[k] \in Nat
         /\ \A k \in 1..Len(it.index) : /\ it.index[k][1] \in Nat /\ it.index[k][2] \in Nat \ {0}
                                       /\ start[k + 1] = start[k] + it.index[k][2]
<1>1. Len(it.index) \in Nat /\ Len(it.data) \in Nat
      /\ \A k \in 1..Len(it.index) : it.index[k][1] \in Nat /\ it.index[k][2] \in Nat \ {0}
  BY DEF HasPairs
<1>2. start[1] = 0 /\ \A k \in 1..Len(it.index) : start[k + 1] = start[k] + it.index[k][2]
  BY DEF Divides
<1>3. ASSUME NEW k \in 1..(Len(it.index) + 1) PROVE start[k] \in Nat
  <2>1. start[k] \in 0..Len(it.data)
    OBVIOUS
  <2>2. QED
    BY <2>1, <1>1
<1>4. QED
  BY <1>1, <1>2, <1>3

\* The k-th pair starts where the pairs before it end.
LEMMA PairStartIs ==
  ASSUME NEW it, HasPairs(it),
         NEW start \in [1..(Len(it.index) + 1) -> 0..Len(it.data)], Divides(start, it)
  PROVE  \A k \in 1..Len(it.index) : PairStart(it.index)[k] = start[k] + 1
<1> DEFINE n == Len(it.index)
           len(k) == it.index[k][2]
           Begins(f) == [k \in 1..n |-> IF k = 1 THEN 1 ELSE f[k - 1] + len(k - 1)]
           f == PairStart(it.index)
           g == [k \in 1..n |-> start[k] + 1]
<1>1. /\ n \in Nat /\ start[1] = 0
      /\ \A k \in 1..(n + 1) : start[k] \in Nat
      /\ \A k \in 1..n : len(k) \in Nat /\ start[k + 1] = start[k] + len(k)
  BY StartFacts
<1>2. f = CHOOSE h : h = Begins(h)
  BY DEF PairStart
<1> HIDE DEF n, len, f
<1>3. ASSUME NEW k \in 1..n, k # 1
      PROVE  k - 1 \in 1..n /\ start[k] = start[k - 1] + len(k - 1) /\ start[k - 1] \in Nat
  <2>1. k - 1 \in 1..n /\ k - 1 \in 1..(n + 1) /\ (k - 1) + 1 = k
    BY <1>1, <1>3
  <2>2. QED
    BY <2>1, <1>1
<1>4. g = Begins(g)
  <2>1. ASSUME NEW k \in 1..n PROVE g[k] = IF k = 1 THEN 1 ELSE g[k - 1] + len(k - 1)
    <3>1. CASE k = 1
      BY <3>1, <1>1
    <3>2. CASE k # 1
      <4>1. k - 1 \in 1..n /\ start[k] = start[k - 1] + len(k - 1) /\ start[k - 1] \in Nat /\ len(k - 1) \in Nat
        BY <3>2, <1>1, <1>3
      <4>2. g[k] = start[k] + 1 /\ g[k - 1] = start[k - 1] + 1
        BY <4>1
      <4>3. QED
        BY <3>2, <4>1, <4>2
    <3>3. QED
      BY <3>1, <3>2
  <2>2. QED
    BY <2>1
<1>5. f = Begins(f)
  <2> HIDE DEF Begins
  <2>1. QED
    BY <1>2, <1>4
<1> DEFINE T == {m \in Nat : m + 1 \in 1..n => f[m + 1] = start[m + 1] + 1}
<1>6. 0 \in T
  BY <1>1, <1>5
<1>7. ASSUME NEW m \in T PROVE m + 1 \in T
  <2>1. ASSUME (m + 1) + 1 \in 1..n PROVE f[(m + 1) + 1] = start[(m + 1) + 1] + 1
    <3> DEFINE k == (m + 1) + 1
    <3>1. k \in 1..n /\ k # 1 /\ k - 1 = m + 1
      BY <2>1
    <3>2. k - 1 \in 1..n /\ start[k] = start[k - 1] + len(k - 1) /\ start[k - 1] \in Nat
          /\ len(k - 1) \in Nat
      BY <3>1, <1>1, <1>3
    <3>3. f[k] = f[k - 1] + len(k - 1)
      BY <3>1, <1>5
    <3>4. f[k - 1] = start[k - 1] + 1
      BY <3>1, <3>2
    <3>5. QED
      BY <3>2, <3>3, <3>4
  <2>2. QED
    BY <2>1
<1>8. T = Nat
  <2> HIDE DEF T
  <2>1. T \in SUBSET Nat
    BY DEF T
  <2>2. QED
    BY <2>1, <1>6, <1>7, SetInductionOnNat
<1>9. ASSUME NEW k \in 1..n PROVE f[k] = start[k] + 1
  <2>1. k - 1 \in Nat /\ (k - 1) + 1 = k
    BY <1>1
  <2>2. k - 1 \in T
    BY <2>1, <1>8
  <2>3. QED
    BY <2>1, <2>2
<1>10. QED
  BY <1>9 DEF n, f

\* Pairs start in the order of the index.
LEMMA StartMonotone ==
  ASSUME NEW it, HasPairs(it),
         NEW start \in [1..(Len(it.index) + 1) -> 0..Len(it.data)], Divides(start, it),
         NEW a \in 1..(Len(it.index) + 1), NEW b \in 1..(Len(it.index) + 1), a <= b
  PROVE  start[a] <= start[b]
<1> DEFINE n == Len(it.index)
           len(k) == it.index[k][2]
<1>1. /\ n \in Nat
      /\ \A k \in 1..(n + 1) : start[k] \in Nat
      /\ \A k \in 1..n : len(k) \in Nat /\ start[k + 1] = start[k] + len(k)
  BY StartFacts
<1> HIDE DEF n, len
<1> DEFINE T == {d \in Nat : a + d \in 1..(n + 1) => start[a] <= start[a + d]}
<1>2. a \in 1..(n + 1) /\ b \in 1..(n + 1)
  BY DEF n
<1>3. 0 \in T
  BY <1>1, <1>2
<1>4. ASSUME NEW d \in T PROVE d + 1 \in T
  <2>1. ASSUME a + (d + 1) \in 1..(n + 1) PROVE start[a] <= start[a + (d + 1)]
    <3>1. a + d \in 1..n /\ a + d \in 1..(n + 1) /\ (a + d) + 1 = a + (d + 1)
      BY <2>1, <1>1, <1>2
    <3>2. start[(a + d) + 1] = start[a + d] + len(a + d) /\ len(a + d) \in Nat
          /\ start[a + d] \in Nat /\ start[a] \in Nat
      BY <3>1, <1>1, <1>2
    <3>3. start[a] <= start[a + d]
      BY <3>1
    <3>4. start[a] <= start[(a + d) + 1]
      BY <3>2, <3>3
    <3>5. QED
      BY <3>1, <3>4
  <2>2. QED
    BY <2>1
<1>5. T = Nat
  <2> HIDE DEF T
  <2>1. T \in SUBSET Nat
    BY DEF T
  <2>2. QED
    BY <2>1, <1>3, <1>4, SetInductionOnNat
<1>6. b - a \in Nat /\ a + (b - a) = b
  BY <1>1, <1>2
<1>7. b - a \in T
  BY <1>5, <1>6
<1>8. QED
  BY <1>2, <1>6, <1>7

-----------------------------------------------------------------------------
(* What a revision declares, section by section.                           *)

LEMMA DeclaredOfTable ==
  ASSUME NEW it, it.kind = "table", HasSections(it), NEW d
  PROVE  d \in Declared(it) <=>
           \E k \in SectionsOf(it) : \E n \in SectionNums(it, k) : d = Pair(n, EntryIn(it, k, n))
<1>1. SectionsOf(it) = 1..Len(it.sections)
  BY DEF SectionsOf
<1>2. ASSUME NEW k \in 1..Len(it.sections), NEW n \in SectionNums(it, k), d = Pair(n, EntryIn(it, k, n))
      PROVE  d \in Declared(it)
  <2> DEFINE sec == it.sections[k]
             j == n - sec.first + 1
  <2>1. sec.first \in Nat /\ Len(sec.entries) \in Nat
    BY DEF HasSections
  <2>2. j \in 1..Len(sec.entries) /\ n = sec.first + j - 1
    BY SMTT(30), <1>2, <2>1 DEF SectionNums
  <2>3. d = Pair(sec.first + j - 1, sec.entries[j])
    BY <1>2, <2>2 DEF EntryIn
  <2> HIDE DEF j
  <2>4. d \in {Pair(sec.first + m - 1, sec.entries[m]) : m \in 1..Len(sec.entries)}
    BY <2>2, <2>3
  <2>5. QED
    BY <2>4 DEF Declared, TableEntries
<1>3. ASSUME d \in Declared(it)
      PROVE  \E k \in 1..Len(it.sections) : \E n \in SectionNums(it, k) : d = Pair(n, EntryIn(it, k, n))
  <2>1. PICK k \in 1..Len(it.sections) :
          d \in {Pair(it.sections[k].first + j - 1, it.sections[k].entries[j]) : j \in 1..Len(it.sections[k].entries)}
    BY <1>3 DEF Declared, TableEntries
  <2>2. PICK j \in 1..Len(it.sections[k].entries) :
          d = Pair(it.sections[k].first + j - 1, it.sections[k].entries[j])
    BY <2>1
  <2> DEFINE n == it.sections[k].first + j - 1
  <2>3. it.sections[k].first \in Nat /\ Len(it.sections[k].entries) \in Nat
    BY DEF HasSections
  <2>4. n \in SectionNums(it, k) /\ n - it.sections[k].first + 1 = j
    BY <2>3 DEF SectionNums
  <2>5. d = Pair(n, EntryIn(it, k, n))
    BY <2>2, <2>4 DEF EntryIn
  <2>6. QED
    BY <2>4, <2>5
<1>4. QED
  BY <1>1, <1>2, <1>3

LEMMA DeclaredOfStream ==
  ASSUME NEW it, it.kind = "stream", HasPairs(it), NEW d
  PROVE  d \in Declared(it) <=>
           \E k \in SectionsOf(it) : \E n \in SectionNums(it, k) : d = Pair(n, EntryIn(it, k, n))
<1> DEFINE first1(k) == it.index[k][1]
           len(k) == it.index[k][2]
           at1(k) == PairStart(it.index)[k]
<1>1. SectionsOf(it) = 1..Len(it.index)
  BY DEF SectionsOf
<1>2. \A k \in 1..Len(it.index) : first1(k) \in Nat /\ len(k) \in Nat /\ at1(k) \in Nat
  <2>1. PICK start \in [1..(Len(it.index) + 1) -> 0..Len(it.data)] : Divides(start, it)
    BY DEF HasPairs
  <2>2. ASSUME NEW k \in 1..Len(it.index) PROVE first1(k) \in Nat /\ len(k) \in Nat /\ at1(k) \in Nat
    <3>1. k \in 1..(Len(it.index) + 1)
      BY DEF HasPairs
    <3>2. first1(k) \in Nat /\ len(k) \in Nat /\ start[k] \in Nat
      BY <3>1, <2>1, StartFacts
    <3>3. at1(k) = start[k] + 1
      BY <2>1, PairStartIs
    <3>4. QED
      BY <3>2, <3>3
  <2>3. QED
    BY <2>2
<1>3. \A k \in 1..Len(it.index) :
        /\ SectionNums(it, k) = first1(k) .. first1(k) + len(k) - 1
        /\ \A n : EntryIn(it, k, n) = it.data[at1(k) + (n - first1(k))]
  BY DEF SectionNums, EntryIn
<1>4. d \in Declared(it) <=>
        \E k \in 1..Len(it.index) : \E j \in 1..len(k) :
           d = Pair(first1(k) + j - 1, it.data[at1(k) + j - 1])
  BY DEF Declared, StreamEntries
<1> HIDE DEF first1, len, at1
<1>5. ASSUME NEW k \in 1..Len(it.index), NEW j \in 1..len(k),
             d = Pair(first1(k) + j - 1, it.data[at1(k) + j - 1])
      PROVE  \E n \in SectionNums(it, k) : d = Pair(n, EntryIn(it, k, n))
  <2>1. first1(k) \in Nat /\ len(k) \in Nat /\ at1(k) \in Nat
    BY <1>2
  <2> DEFINE n == first1(k) + j - 1
  <2>2. n \in first1(k) .. first1(k) + len(k) - 1 /\ at1(k) + (n - first1(k)) = at1(k) + j - 1
    BY <2>1
  <2>3. n \in SectionNums(it, k) /\ EntryIn(it, k, n) = it.data[at1(k) + j - 1]
    BY <2>2, <1>3
  <2>4. QED
    BY <2>3, <1>5
<1>6. ASSUME NEW k \in 1..Len(it.index), NEW n \in SectionNums(it, k), d = Pair(n, EntryIn(it, k, n))
      PROVE  \E j \in 1..len(k) : d = Pair(first1(k) + j - 1, it.data[at1(k) + j - 1])
  <2>1. first1(k) \in Nat /\ len(k) \in Nat /\ at1(k) \in Nat /\ n \in first1(k) .. first1(k) + len(k) - 1
    BY <1>2, <1>3
  <2> DEFINE j == n - first1(k) + 1
  <2>2. j \in 1..len(k) /\ first1(k) + j - 1 = n /\ at1(k) + j - 1 = at1(k) + (n - first1(k))
    BY <2>1
  <2>3. d = Pair(first1(k) + j - 1, it.data[at1(k) + j - 1])
    BY <2>2, <1>3, <1>6
  <2>4. QED
    BY <2>2, <2>3
<1>7. QED
  BY <1>1, <1>4, <1>5, <1>6

\* The numbers a revision declares are those of its sections, and as it declares each
\* once its entry is the one of that section.
LEMMA DeclaredBySections ==
  ASSUME NEW it, IsXref(it), DeclaresOnce(it),
         it.kind = "table" => HasSections(it), it.kind = "stream" => HasPairs(it)
  PROVE  \A n : /\ n \in DeclaredNums(it) <=> \E k \in SectionsOf(it) : n \in SectionNums(it, k)
               /\ \A k \in SectionsOf(it) :
                    n \in SectionNums(it, k) => DeclaredEntry(it, n) = EntryIn(it, k, n)
<1>1. \A d : d \in Declared(it) <=>
        \E k \in SectionsOf(it) : \E n \in SectionNums(it, k) : d = Pair(n, EntryIn(it, k, n))
  BY DeclaredOfTable, DeclaredOfStream DEF IsXref
<1> SUFFICES ASSUME NEW n
             PROVE  /\ n \in DeclaredNums(it) <=> \E k \in SectionsOf(it) : n \in SectionNums(it, k)
                    /\ \A k \in SectionsOf(it) :
                         n \in SectionNums(it, k) => DeclaredEntry(it, n) = EntryIn(it, k, n)
  OBVIOUS
<1>2. n \in DeclaredNums(it) <=> \E k \in SectionsOf(it) : n \in SectionNums(it, k)
  <2>1. ASSUME n \in DeclaredNums(it) PROVE \E k \in SectionsOf(it) : n \in SectionNums(it, k)
    <3>1. PICK d \in Declared(it) : d.num = n
      BY <2>1 DEF DeclaredNums
    <3>2. PICK k \in SectionsOf(it) : \E m \in SectionNums(it, k) : d = Pair(m, EntryIn(it, k, m))
      BY <1>1
    <3>3. n \in SectionNums(it, k)
      BY <3>1, <3>2 DEF Pair
    <3>4. QED
      BY <3>3
  <2>2. ASSUME NEW k \in SectionsOf(it), n \in SectionNums(it, k) PROVE n \in DeclaredNums(it)
    <3> DEFINE d == Pair(n, EntryIn(it, k, n))
    <3>1. d \in Declared(it)
      BY <1>1, <2>2
    <3>2. d.num = n
      BY DEF Pair
    <3> HIDE DEF d
    <3>3. QED
      BY <3>1, <3>2 DEF DeclaredNums
  <2>3. QED
    BY <2>1, <2>2
<1>3. ASSUME NEW k \in SectionsOf(it), n \in SectionNums(it, k)
      PROVE  DeclaredEntry(it, n) = EntryIn(it, k, n)
  <2> DEFINE d == Pair(n, EntryIn(it, k, n))
  <2>1. d \in Declared(it) /\ d.num = n /\ d.entry = EntryIn(it, k, n)
    BY <1>1, <1>3 DEF Pair
  <2>2. ASSUME NEW e \in Declared(it), e.num = n PROVE e = d
    <3>1. PICK l \in SectionsOf(it) : \E m \in SectionNums(it, l) : e = Pair(m, EntryIn(it, l, m))
      BY <1>1
    <3>2. n \in SectionNums(it, l) /\ e = Pair(n, EntryIn(it, l, n))
      BY <3>1, <2>2 DEF Pair
    <3>3. l = k
      BY <3>2, <1>3 DEF DeclaresOnce
    <3>4. QED
      BY <3>2, <3>3
  <2> HIDE DEF d
  <2>3. (CHOOSE e \in Declared(it) : e.num = n) = d
    BY <2>1, <2>2
  <2>4. QED
    BY <2>1, <2>3 DEF DeclaredEntry
<1>4. QED
  BY <1>2, <1>3

\* A table declares the last number of each of its sections, a stream the last number
\* of each of its pairs.
LEMMA DeclaresLastOfSection ==
  ASSUME NEW it, it.kind = "table", HasSections(it), NEW k \in 1..Len(it.sections)
  PROVE  it.sections[k].first + Len(it.sections[k].entries) - 1 \in DeclaredNums(it)
<1> DEFINE sec == it.sections[k]
           e == Pair(sec.first + Len(sec.entries) - 1, sec.entries[Len(sec.entries)])
<1>1. sec.first \in Nat /\ Len(sec.entries) \in Nat \ {0}
  BY DEF HasSections
<1>2. e \in {Pair(sec.first + j - 1, sec.entries[j]) : j \in 1..Len(sec.entries)}
  <2>1. Len(sec.entries) \in 1..Len(sec.entries)
    BY <1>1
  <2>2. QED
    BY <2>1, Zenon
<1>3. e \in TableEntries(it)
  BY <1>2 DEF TableEntries
<1>4. e.num = sec.first + Len(sec.entries) - 1
  BY DEF Pair
<1>5. e \in Declared(it)
  BY <1>3 DEF Declared
<1>6. QED
  BY <1>4, <1>5 DEF DeclaredNums

LEMMA DeclaresLastOfPair ==
  ASSUME NEW it, it.kind = "stream", HasPairs(it), NEW k \in 1..Len(it.index)
  PROVE  it.index[k][1] + it.index[k][2] - 1 \in DeclaredNums(it)
<1> DEFINE n == it.index[k][2]
           e == Pair(it.index[k][1] + n - 1, it.data[PairStart(it.index)[k] + n - 1])
<1>1. it.index[k][1] \in Nat /\ n \in Nat \ {0}
  BY DEF HasPairs
<1>2. e \in {Pair(it.index[k][1] + j - 1, it.data[PairStart(it.index)[k] + j - 1]) : j \in 1..n}
  <2>1. n \in 1..n
    BY <1>1
  <2>2. QED
    BY <2>1, Zenon
<1>3. e \in StreamEntries(it)
  BY <1>2 DEF StreamEntries
<1>4. e.num = it.index[k][1] + n - 1
  BY DEF Pair
<1>5. e \in Declared(it)
  BY <1>3 DEF Declared
<1>6. QED
  BY <1>4, <1>5 DEF DeclaredNums

\* A revision declares one entry for a number.
LEMMA DeclaredIsEntry ==
  ASSUME NEW it, IsXref(it), DeclaresOnce(it),
         it.kind = "table" => HasSections(it), it.kind = "stream" => HasPairs(it),
         NEW d \in Declared(it)
  PROVE  d = Pair(d.num, DeclaredEntry(it, d.num))
<1>1. PICK k \in SectionsOf(it) : \E n \in SectionNums(it, k) : d = Pair(n, EntryIn(it, k, n))
  BY DeclaredOfTable, DeclaredOfStream DEF IsXref
<1>2. PICK n \in SectionNums(it, k) : d = Pair(n, EntryIn(it, k, n))
  BY <1>1
<1>3. d.num = n
  BY <1>2 DEF Pair
<1>4. DeclaredEntry(it, n) = EntryIn(it, k, n)
  BY DeclaredBySections
<1>5. QED
  BY <1>2, <1>3, <1>4

\* The first number of section k and the number of its entries.
FirstOf(it, k) == IF it.kind = "table" THEN it.sections[k].first ELSE it.index[k][1]
LengthOf(it, k) == IF it.kind = "table" THEN Len(it.sections[k].entries) ELSE it.index[k][2]

LEMMA SectionForm ==
  ASSUME NEW it, IsXref(it),
         it.kind = "table" => HasSections(it), it.kind = "stream" => HasPairs(it)
  PROVE  /\ \A k \in SectionsOf(it) :
              /\ FirstOf(it, k) \in Nat /\ LengthOf(it, k) \in Nat \ {0}
              /\ SectionNums(it, k) = FirstOf(it, k) .. FirstOf(it, k) + LengthOf(it, k) - 1
         /\ \A s : AllFit(it, s) <=> \A k \in SectionsOf(it) : Fits(FirstOf(it, k), LengthOf(it, k), s)
<1>1. CASE it.kind = "table"
  BY <1>1 DEF HasSections, SectionsOf, SectionNums, FirstOf, LengthOf, AllFit
<1>2. CASE it.kind = "stream"
  BY <1>2 DEF HasPairs, SectionsOf, SectionNums, FirstOf, LengthOf, AllFit
<1>3. QED
  BY <1>1, <1>2 DEF IsXref

\* A revision that fits in a table declares numbers of the table only.
LEMMA FitDeclares ==
  ASSUME NEW it, IsXref(it), DeclaresOnce(it),
         it.kind = "table" => HasSections(it), it.kind = "stream" => HasPairs(it),
         NEW s \in Nat, AllFit(it, s), NEW n \in DeclaredNums(it)
  PROVE  n \in 0..(s - 1)
<1>1. PICK k \in SectionsOf(it) : n \in SectionNums(it, k)
  BY DeclaredBySections
<1> DEFINE a == FirstOf(it, k)
           b == LengthOf(it, k)
<1>2. a \in Nat /\ b \in Nat \ {0} /\ n \in a .. a + b - 1 /\ a + b <= s
  BY <1>1, SectionForm DEF Fits
<1> HIDE DEF a, b
<1>3. QED
  BY <1>2

\* It fits in a larger table too.
LEMMA FitsInLarger ==
  ASSUME NEW it, IsXref(it),
         it.kind = "table" => HasSections(it), it.kind = "stream" => HasPairs(it),
         NEW s \in Nat, AllFit(it, s), NEW t \in Nat, s <= t
  PROVE  AllFit(it, t)
<1>1. ASSUME NEW k \in SectionsOf(it) PROVE Fits(FirstOf(it, k), LengthOf(it, k), t)
  <2> DEFINE a == FirstOf(it, k)
             b == LengthOf(it, k)
  <2>1. a \in Nat /\ b \in Nat /\ a + b <= s
    BY SectionForm DEF Fits
  <2> HIDE DEF a, b
  <2>2. a + b <= t
    BY <2>1
  <2>3. QED
    BY <2>2 DEF Fits, a, b
<1>2. QED
  BY <1>1, SectionForm
=============================================================================
