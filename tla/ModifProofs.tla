----------------------------- MODULE ModifProofs -----------------------------
(***************************************************************************)
(* Proofs about the modification log.  The inductive invariant is the      *)
(* conjunction of the safety invariants of Modif with one more fact: a     *)
(* document without a log holds no nodes.                                  *)
(***************************************************************************)
EXTENDS Modif, SequenceTheorems, TLAPS

NoLogNoNodes == ~alive => log = <<>>

IInv ==
  /\ TypeOK
  /\ Sorted
  /\ CountIsLength
  /\ NextNumberIsFresh
  /\ Ownership
  /\ NoLogNoNodes

-----------------------------------------------------------------------------

\* Inserting at position p shifts the elements from p on by one.
LEMMA InsertAtProperties ==
  ASSUME NEW S, NEW s \in Seq(S), NEW p \in 1..(Len(s) + 1), NEW e \in S
  PROVE  /\ InsertAt(s, p, e) \in Seq(S)
         /\ Len(InsertAt(s, p, e)) = Len(s) + 1
         /\ \A i \in 1..(Len(s) + 1) :
              InsertAt(s, p, e)[i] = IF i < p THEN s[i]
                                     ELSE IF i = p THEN e ELSE s[i - 1]
<1> DEFINE a == SubSeq(s, 1, p - 1)
           b == SubSeq(s, p, Len(s))
           c == Append(a, e)
<1>1. /\ a \in Seq(S) /\ Len(a) = p - 1
      /\ \A i \in 1..(p - 1) : a[i] = s[i]
  BY SubSeqProperties
<1>2. /\ b \in Seq(S) /\ Len(b) = Len(s) - p + 1
      /\ \A i \in 1..(Len(s) - p + 1) : b[i] = s[p + i - 1]
  BY SubSeqProperties
<1> HIDE DEF a, b
<1>3. /\ c \in Seq(S)
      /\ Len(c) = p
      /\ \A i \in 1..p : c[i] = IF i < p THEN s[i] ELSE e
  BY <1>1
<1>4. c = a \o <<e>>
  BY <1>1
<1> HIDE DEF c
<1>5. /\ c \o b \in Seq(S)
      /\ Len(c \o b) = Len(c) + Len(b)
      /\ \A i \in 1..(Len(c) + Len(b)) :
           (c \o b)[i] = IF i <= Len(c) THEN c[i] ELSE b[i - Len(c)]
  <2>1. c \in Seq(S) /\ b \in Seq(S)
    BY <1>2, <1>3
  <2>2. QED
    BY <2>1, ConcatProperties, Zenon
<1>6. InsertAt(s, p, e) = c \o b
  BY <1>4 DEF InsertAt, a, b
<1>7. Len(s) \in Nat /\ p \in Nat
  OBVIOUS
<1>8. Len(c) = p /\ Len(b) = Len(s) - p + 1 /\ Len(c) + Len(b) = Len(s) + 1
  BY <1>2, <1>3, <1>7
<1>9. ASSUME NEW i \in 1..(Len(s) + 1)
      PROVE  (c \o b)[i] = IF i < p THEN s[i] ELSE IF i = p THEN e ELSE s[i - 1]
  <2>1. CASE i <= p
    BY <2>1, <1>3, <1>5, <1>7, <1>8
  <2>2. CASE i > p
    <3>1. /\ (c \o b)[i] = b[i - p]
          /\ i - p \in 1..(Len(s) - p + 1)
      BY <2>2, <1>5, <1>7, <1>8
    <3>2. p + (i - p) - 1 = i - 1
      BY <1>7
    <3>3. QED
      BY SMTT(30), <2>2, <3>1, <3>2, <1>2, <1>7
  <2>3. i <= p \/ i > p
    BY <1>7
  <2>4. QED
    BY <2>1, <2>2, <2>3, Zenon
<1>10. QED
  BY <1>5, <1>6, <1>8, <1>9

\* The same for a list of nodes, in the form in which it is used.
LEMMA InsertNode ==
  \A s \in Seq(Nodes), nd \in Nodes : \A p \in 1..(Len(s) + 1) :
    /\ InsertAt(s, p, nd) \in Seq(Nodes)
    /\ Len(InsertAt(s, p, nd)) = Len(s) + 1
    /\ \A i \in 1..(Len(s) + 1) :
         InsertAt(s, p, nd)[i] = IF i < p THEN s[i]
                                 ELSE IF i = p THEN nd ELSE s[i - 1]
<1> SUFFICES ASSUME NEW s \in Seq(Nodes), NEW nd \in Nodes, NEW p \in 1..(Len(s) + 1)
             PROVE  /\ InsertAt(s, p, nd) \in Seq(Nodes)
                    /\ Len(InsertAt(s, p, nd)) = Len(s) + 1
                    /\ \A i \in 1..(Len(s) + 1) :
                         InsertAt(s, p, nd)[i] = IF i < p THEN s[i]
                                                 ELSE IF i = p THEN nd ELSE s[i - 1]
  OBVIOUS
<1>1. QED
  BY InsertAtProperties

-----------------------------------------------------------------------------
(* The conjuncts of the invariant, one lemma for each action.              *)

\* The initial state has no log and no cells in use.
LEMMA InitIInv == Init => IInv
<1> SUFFICES ASSUME Init PROVE IInv
  OBVIOUS
<1> USE DEF Init
<1>1. TypeOK
  <2>1. alive \in BOOLEAN
    BY Zenon
  <2>2. log \in Seq(Nodes)
    BY EmptySeq
  <2>3. QED
    BY <2>1, <2>2 DEF TypeOK
<1>2. Sorted /\ CountIsLength /\ NextNumberIsFresh /\ NoLogNoNodes
  BY DEF Sorted, CountIsLength, NextNumberIsFresh, NoLogNoNodes
<1>3. Ownership
  BY DEF Ownership
<1>4. QED
  BY <1>1, <1>2, <1>3 DEF IInv

\* A cell that malloc returns belongs to nobody, so to no node either.
LEMMA MakeIndObjIInv ==
  ASSUME IInv, NEW o \in Objs, NEW n \in Nums, MakeIndObj(o, n)
  PROVE  IInv'
<1> USE DEF IInv, TypeOK, MakeIndObj
<1>1. \A i \in 1..Len(log) : log[i].ind_obj \in Objs /\ log[i].ind_obj # o
  <2>1. \A i \in 1..Len(log) : log[i] \in Nodes
    BY ElementOfSeq
  <2>2. QED
    BY <2>1 DEF Ownership, Nodes
<1>2. TypeOK'
  OBVIOUS
<1>3. Sorted' /\ CountIsLength' /\ NextNumberIsFresh' /\ NoLogNoNodes'
  BY DEF Sorted, CountIsLength, NextNumberIsFresh, NoLogNoNodes
<1>4. Ownership'
  BY <1>1 DEF Ownership, InLog
<1>5. QED
  BY <1>2, <1>3, <1>4

\* A new log is empty, and its maximum is below the size it was created for.
LEMMA NewIInv ==
  ASSUME IInv, NEW s \in Sizes, New(s)
  PROVE  IInv'
<1> USE DEF IInv, New
<1>1. s \in Nat /\ s - 1 \in Nat
  BY SizesAssumption
<1>2. log = <<>>
  BY DEF NoLogNoNodes
<1>3. TypeOK'
  BY <1>1 DEF TypeOK, InitialMax
<1>4. Sorted' /\ CountIsLength' /\ NextNumberIsFresh' /\ NoLogNoNodes'
  BY <1>1 DEF Sorted, CountIsLength, NextNumberIsFresh, NoLogNoNodes, InitialMax
<1>5. Ownership'
  BY <1>2 DEF Ownership, InLog
<1>6. QED
  BY <1>3, <1>4, <1>5

\* Destroying the log frees exactly the cells of its nodes.
LEMMA DestroyIInv ==
  ASSUME IInv, Destroy
  PROVE  IInv'
<1> USE DEF IInv, Destroy
<1>1. TypeOK'
  <2>1. alive' \in BOOLEAN
    BY Zenon
  <2>2. log' \in Seq(Nodes)
    BY EmptySeq
  <2>3. cell' \in [Objs -> {"free", "caller", "log"}]
    BY DEF TypeOK, Released
  <2>4. QED
    BY <2>1, <2>2, <2>3 DEF TypeOK
<1>2. Sorted' /\ CountIsLength' /\ NextNumberIsFresh' /\ NoLogNoNodes'
  BY DEF Sorted, CountIsLength, NextNumberIsFresh, NoLogNoNodes
<1>3. Ownership'
  BY DEF Ownership, InLog, Released, TypeOK
<1>4. QED
  BY <1>1, <1>2, <1>3

\* What an invariant state says of the nodes before the walk reaches position p
\* and of the nodes from p on.
LEMMA PositionSplitsLog ==
  ASSUME IInv, NEW n \in Nums, NEW p \in 1..(Len(log) + 1), IsPosition(p, n)
  PROVE  /\ \A i \in 1..Len(log) : i < p => log[i].obj_num < n
         /\ \A i \in 1..Len(log) : i > p => log[i].obj_num > n
         /\ p <= Len(log) => log[p].obj_num >= n
<1>1. /\ Len(log) \in Nat
      /\ \A i \in 1..Len(log) : log[i].obj_num \in Nat
  <2>1. \A i \in 1..Len(log) : log[i] \in Nodes
    BY ElementOfSeq DEF IInv, TypeOK
  <2>2. \A i \in 1..Len(log) : log[i].obj_num \in Nat
    BY <2>1, NumsAssumption DEF Nodes
  <2>3. QED
    BY <2>2 DEF IInv, TypeOK
<1>2. n \in Nat
  BY NumsAssumption
<1>3. QED
  BY <1>1, <1>2 DEF IInv, Sorted, IsPosition

\* The node found keeps its place in the order; the cell it held is freed and
\* no other node held it.
LEMMA ReplaceEntryIInv ==
  ASSUME IInv, NEW o \in Objs, NEW p \in 1..(Len(log) + 1),
         alive, cell[o] = "caller", num[o] # NoNum, ReplaceEntry(o, p)
  PROVE  IInv'
<1> DEFINE nd == NodeOf(o)
<1>1. /\ nd \in Nodes
      /\ nd.obj_num = num[o] /\ nd.ind_obj = o
  BY DEF IInv, TypeOK, Nodes, NodeOf
<1>2. p \in 1..Len(log)
  BY DEF ReplaceEntry, IInv, TypeOK
<1>3. /\ log' \in Seq(Nodes)
      /\ Len(log') = Len(log)
      /\ \A j \in 1..Len(log) : log'[j] = IF j = p THEN nd ELSE log[j]
  BY <1>1, <1>2, ExceptSeq DEF ReplaceEntry, ReplaceAt, IInv, TypeOK
<1>4. \A j \in 1..Len(log) : log'[j].obj_num = log[j].obj_num
  BY <1>1, <1>3 DEF ReplaceEntry
<1>5. \A j \in 1..Len(log) : log[j].ind_obj \in Objs /\ log[j].ind_obj # o
  <2>1. \A j \in 1..Len(log) : log[j] \in Nodes
    BY ElementOfSeq DEF IInv, TypeOK
  <2>2. QED
    BY <2>1 DEF Nodes, IInv, Ownership
<1>6. /\ cell' \in [Objs -> {"free", "caller", "log"}]
      /\ cell'[o] = "log" /\ cell'[log[p].ind_obj] = "free"
      /\ \A x \in Objs : x # o /\ x # log[p].ind_obj => cell'[x] = cell[x]
  BY <1>2, <1>5 DEF ReplaceEntry, TakeOver, IInv, TypeOK
<1>7. TypeOK'
  BY <1>3, <1>6 DEF ReplaceEntry, IInv, TypeOK
<1>8. Sorted'
  BY <1>3, <1>4 DEF IInv, Sorted
<1>9. CountIsLength' /\ NextNumberIsFresh' /\ NoLogNoNodes'
  BY <1>3, <1>4 DEF ReplaceEntry, IInv, CountIsLength, NextNumberIsFresh, NoLogNoNodes
<1>10. Ownership'
  <2>1. \A j \in 1..Len(log') : /\ cell'[log'[j].ind_obj] = "log"
                                /\ num'[log'[j].ind_obj] = log'[j].obj_num
    BY <1>1, <1>2, <1>3, <1>5, <1>6 DEF ReplaceEntry, IInv, Ownership
  <2>2. \A i, j \in 1..Len(log') : log'[i].ind_obj = log'[j].ind_obj => i = j
    BY <1>1, <1>2, <1>3, <1>5 DEF IInv, Ownership
  <2>3. ASSUME NEW x \in Objs, cell'[x] = "log"
        PROVE  InLog(x)'
    <3>1. CASE x = o
      BY <3>1, <1>1, <1>2, <1>3 DEF InLog
    <3>2. CASE x # o
      <4>1. cell[x] = "log" /\ x # log[p].ind_obj
        BY <2>3, <3>2, <1>6
      <4>2. PICK i \in 1..Len(log) : log[i].ind_obj = x
        BY <4>1 DEF IInv, Ownership, InLog
      <4>3. log'[i].ind_obj = x
        BY <4>1, <4>2, <1>3
      <4>4. QED
        BY <4>2, <4>3, <1>3 DEF InLog
    <3>3. QED
      BY <3>1, <3>2
  <2>4. QED
    BY <2>1, <2>2, <2>3 DEF Ownership
<1>11. QED
  BY <1>7, <1>8, <1>9, <1>10 DEF IInv

\* A number that is not in the log gets a node between the smaller and the
\* larger ones.
LEMMA InsertEntryIInv ==
  ASSUME IInv, NEW o \in Objs, NEW p \in 1..(Len(log) + 1),
         alive, cell[o] = "caller", num[o] # NoNum,
         IsPosition(p, num[o]), InsertEntry(o, p)
  PROVE  IInv'
<1> DEFINE nd == NodeOf(o)
<1>1. /\ nd \in Nodes
      /\ nd.obj_num = num[o] /\ nd.ind_obj = o
      /\ num[o] \in Nums /\ num[o] \in Nat
  BY NumsAssumption DEF IInv, TypeOK, Nodes, NodeOf
<1>2. /\ log' \in Seq(Nodes)
      /\ Len(log') = Len(log) + 1
      /\ \A i \in 1..(Len(log) + 1) :
           log'[i] = IF i < p THEN log[i] ELSE IF i = p THEN nd ELSE log[i - 1]
  <2>1. log \in Seq(Nodes)
    BY DEF IInv, TypeOK
  <2>2. /\ InsertAt(log, p, nd) \in Seq(Nodes)
        /\ Len(InsertAt(log, p, nd)) = Len(log) + 1
        /\ \A i \in 1..(Len(log) + 1) :
             InsertAt(log, p, nd)[i] = IF i < p THEN log[i]
                                       ELSE IF i = p THEN nd ELSE log[i - 1]
    <3>1. nd \in Nodes
      BY <1>1
    <3>2. QED
      BY SMTT(30), <2>1, <3>1, InsertNode
  <2>3. log' = InsertAt(log, p, nd)
    BY DEF InsertEntry
  <2>4. QED
    BY <2>2, <2>3
<1>3. \A i \in 1..Len(log) : /\ log[i].obj_num \in Nat
                             /\ log[i].ind_obj \in Objs /\ log[i].ind_obj # o
  <2>1. \A j \in 1..Len(log) : log[j] \in Nodes
    BY ElementOfSeq DEF IInv, TypeOK
  <2>2. QED
    BY <2>1, NumsAssumption DEF Nodes, IInv, Ownership
<1>4. /\ \A i \in 1..Len(log) : i < p => log[i].obj_num < num[o]
      /\ \A i \in 1..Len(log) : i >= p => log[i].obj_num > num[o]
  <2>1. /\ \A i \in 1..Len(log) : i < p => log[i].obj_num < num[o]
        /\ \A i \in 1..Len(log) : i > p => log[i].obj_num > num[o]
        /\ p <= Len(log) => log[p].obj_num >= num[o]
    BY <1>1, PositionSplitsLog
  <2>2. p <= Len(log) => log[p].obj_num # num[o]
    BY DEF InsertEntry
  <2>3. Len(log) \in Nat
    BY DEF IInv, TypeOK
  <2>4. ASSUME NEW i \in 1..Len(log), i >= p
        PROVE  log[i].obj_num > num[o]
    BY <2>1, <2>2, <2>3, <2>4, <1>1, <1>3
  <2>5. QED
    BY <2>1, <2>4
<1>5. /\ Len(log) \in Nat
      /\ \A i \in 1..(Len(log) + 1) :
           \/ i < p /\ i \in 1..Len(log) /\ log'[i] = log[i]
           \/ i = p /\ log'[i] = nd
           \/ i > p /\ i - 1 \in 1..Len(log) /\ log'[i] = log[i - 1]
  <2>1. Len(log) \in Nat
    BY DEF IInv, TypeOK
  <2>2. ASSUME NEW i \in 1..(Len(log) + 1)
        PROVE  \/ i < p /\ i \in 1..Len(log) /\ log'[i] = log[i]
               \/ i = p /\ log'[i] = nd
               \/ i > p /\ i - 1 \in 1..Len(log) /\ log'[i] = log[i - 1]
    <3>1. log'[i] = IF i < p THEN log[i] ELSE IF i = p THEN nd ELSE log[i - 1]
      BY <1>2, Zenon
    <3> HIDE DEF nd
    <3>2. CASE i < p
      BY <2>1, <3>1, <3>2
    <3>3. CASE i = p
      BY <2>1, <3>1, <3>3
    <3>4. CASE i > p
      BY <2>1, <3>1, <3>4
    <3>5. QED
      BY <2>1, <3>2, <3>3, <3>4
  <2>3. QED
    BY <2>1, <2>2
<1>6. TypeOK'
  <2>1. max_obj_num' \in Nat
    BY <1>1 DEF InsertEntry, Raise, IInv, TypeOK
  <2>2. cell' \in [Objs -> {"free", "caller", "log"}]
    BY DEF InsertEntry, IInv, TypeOK
  <2>3. QED
    BY <1>2, <2>1, <2>2 DEF InsertEntry, IInv, TypeOK
<1>7. Sorted'
  <2> SUFFICES ASSUME NEW i \in 1..(Len(log) + 1), NEW j \in 1..(Len(log) + 1), i < j
               PROVE  log'[i].obj_num < log'[j].obj_num
    BY <1>2 DEF Sorted
  <2>1. \A k, l \in 1..Len(log) : k < l => log[k].obj_num < log[l].obj_num
    BY DEF IInv, Sorted
  <2>2. CASE j < p
    <3>1. log'[i] = log[i] /\ log'[j] = log[j] /\ i \in 1..Len(log) /\ j \in 1..Len(log)
      BY <2>2, <1>5
    <3>2. QED
      BY <2>1, <3>1
  <2>3. CASE j = p
    <3>1. log'[i] = log[i] /\ log'[j] = nd /\ i \in 1..Len(log) /\ i < p
      BY <2>3, <1>5
    <3>2. QED
      BY <3>1, <1>1, <1>4
  <2>4. CASE j > p
    <3>1. log'[j] = log[j - 1] /\ j - 1 \in 1..Len(log) /\ j - 1 >= p
      BY <2>4, <1>5
    <3>2. CASE i < p
      <4>1. log'[i] = log[i] /\ i \in 1..Len(log) /\ i < j - 1
        BY <3>2, <3>1, <1>5
      <4>2. QED
        BY <2>1, <3>1, <4>1
    <3>3. CASE i = p
      <4>1. log'[i] = nd
        BY <3>3, <1>5
      <4>2. QED
        BY <3>1, <4>1, <1>1, <1>4
    <3>4. CASE i > p
      <4>1. log'[i] = log[i - 1] /\ i - 1 \in 1..Len(log) /\ i - 1 < j - 1
        BY <3>4, <1>5
      <4>2. QED
        BY <2>1, <3>1, <4>1
    <3>5. QED
      BY <3>2, <3>3, <3>4
  <2>5. QED
    BY <2>2, <2>3, <2>4
<1>8. CountIsLength' /\ NoLogNoNodes'
  BY <1>2 DEF InsertEntry, IInv, CountIsLength, NoLogNoNodes
<1>9. NextNumberIsFresh'
  <2>1. /\ max_obj_num' \in Nat /\ max_obj_num \in Nat
        /\ max_obj_num' >= num[o] /\ max_obj_num' >= max_obj_num
    BY <1>1 DEF InsertEntry, Raise, IInv, TypeOK
  <2>2. ASSUME NEW i \in 1..Len(log')
        PROVE  log'[i].obj_num <= max_obj_num'
    <3>1. \A k \in 1..Len(log) : log[k].obj_num <= max_obj_num
      BY DEF IInv, NextNumberIsFresh
    <3>2. CASE i = p
      BY <3>2, <2>1, <1>1, <1>2, <1>5
    <3>3. CASE i # p
      <4>1. PICK k \in 1..Len(log) : log'[i] = log[k]
        BY <3>3, <1>2, <1>5
      <4>2. QED
        BY <4>1, <3>1, <2>1, <1>3
    <3>4. QED
      BY <3>2, <3>3
  <2>3. max_obj_num' >= size' - 1
    BY <2>1 DEF InsertEntry, IInv, NextNumberIsFresh, TypeOK
  <2>4. QED
    BY <2>2, <2>3 DEF NextNumberIsFresh
<1>10. Ownership'
  <2>1. /\ cell'[o] = "log"
        /\ \A x \in Objs : x # o => cell'[x] = cell[x]
        /\ num' = num
    BY DEF InsertEntry, IInv, TypeOK
  <2>2. /\ \A i \in 1..Len(log) : /\ cell[log[i].ind_obj] = "log"
                                 /\ num[log[i].ind_obj] = log[i].obj_num
        /\ \A i, j \in 1..Len(log) : log[i].ind_obj = log[j].ind_obj => i = j
    BY DEF IInv, Ownership
  <2>3. ASSUME NEW j \in 1..Len(log')
        PROVE  /\ cell'[log'[j].ind_obj] = "log"
               /\ num'[log'[j].ind_obj] = log'[j].obj_num
    <3>1. CASE j = p
      BY <3>1, <2>1, <1>1, <1>2, <1>5
    <3>2. CASE j # p
      <4>1. PICK k \in 1..Len(log) : log'[j] = log[k]
        BY <3>2, <1>2, <1>5
      <4>2. QED
        BY <4>1, <2>1, <2>2, <1>3
    <3>3. QED
      BY <3>1, <3>2
  <2>4. ASSUME NEW i \in 1..Len(log'), NEW j \in 1..Len(log'),
               log'[i].ind_obj = log'[j].ind_obj
        PROVE  i = j
    <3>1. \A k \in 1..Len(log') : log'[k].ind_obj = o => k = p
      BY <1>2, <1>3, <1>5
    <3>2. CASE i = p \/ j = p
      BY <3>1, <3>2, <2>4, <1>1, <1>5
    <3>3. CASE i # p /\ j # p
      <4> DEFINE k == IF i < p THEN i ELSE i - 1
                 l == IF j < p THEN j ELSE j - 1
      <4>1. k \in 1..Len(log) /\ log'[i] = log[k]
        BY <3>3, <1>2, <1>5
      <4>2. l \in 1..Len(log) /\ log'[j] = log[l]
        BY <3>3, <1>2, <1>5
      <4>3. k = l
        <5> HIDE DEF k, l
        <5>1. QED
          BY <4>1, <4>2, <2>2, <2>4
      <4>4. QED
        BY <4>3, <3>3, <1>2, <1>5
    <3>4. QED
      BY <3>2, <3>3
  <2>5. ASSUME NEW x \in Objs, cell'[x] = "log"
        PROVE  InLog(x)'
    <3>1. CASE x = o
      BY <3>1, <1>1, <1>2, <1>5 DEF InLog
    <3>2. CASE x # o
      <4>1. PICK i \in 1..Len(log) : log[i].ind_obj = x
        BY <3>2, <2>1, <2>5 DEF IInv, Ownership, InLog
      <4>2. CASE i < p
        BY <4>1, <4>2, <1>2, <1>5 DEF InLog
      <4>3. CASE i >= p
        <5>1. i + 1 \in 1..Len(log') /\ log'[i + 1] = log[i]
          BY <4>3, <1>2, <1>5
        <5>2. QED
          BY <4>1, <5>1 DEF InLog
      <4>4. QED
        BY <4>2, <4>3
    <3>3. QED
      BY <3>1, <3>2
  <2>6. QED
    BY <2>3, <2>4, <2>5 DEF Ownership
<1>11. QED
  BY <1>6, <1>7, <1>8, <1>9, <1>10 DEF IInv

-----------------------------------------------------------------------------

LEMMA NextIInv == IInv /\ [Next]_vars => IInv'
<1> SUFFICES ASSUME IInv, [Next]_vars PROVE IInv'
  OBVIOUS
<1>1. ASSUME NEW o \in Objs, NEW n \in Nums, MakeIndObj(o, n) PROVE IInv'
  BY <1>1, MakeIndObjIInv
<1>2. ASSUME NEW s \in Sizes, New(s) PROVE IInv'
  BY <1>2, NewIInv
<1>3. ASSUME NEW o \in Objs, AddEntry(o) PROVE IInv'
  <2>1. PICK p \in 1..(Len(log) + 1) : /\ IsPosition(p, num[o])
                                       /\ ReplaceEntry(o, p) \/ InsertEntry(o, p)
    BY <1>3 DEF AddEntry
  <2>2. alive /\ cell[o] = "caller" /\ num[o] # NoNum
    BY <1>3 DEF AddEntry
  <2>3. QED
    BY <2>1, <2>2, ReplaceEntryIInv, InsertEntryIInv
<1>4. CASE Destroy
  BY <1>4, DestroyIInv
<1>5. CASE UNCHANGED vars
  BY <1>5 DEF vars, IInv, TypeOK, Sorted, CountIsLength, NextNumberIsFresh,
              Ownership, InLog, NoLogNoNodes
<1>6. QED
  BY <1>1, <1>2, <1>3, <1>4, <1>5 DEF Next

\* IInv is inductive, so it holds in every state of every behaviour.
THEOREM InductiveInvariant == Spec => []IInv
BY InitIInv, NextIInv, PTL DEF Spec

\* The variables of the log keep their types.
THEOREM TypeCorrect == Spec => []TypeOK
BY InductiveInvariant, PTL DEF IInv

\* The list is strictly ascending by object number.
THEOREM AlwaysSorted == Spec => []Sorted
BY InductiveInvariant, PTL DEF IInv

\* count is the number of nodes.
THEOREM AlwaysCounted == Spec => []CountIsLength
BY InductiveInvariant, PTL DEF IInv

\* max_obj_num + 1 is a number that neither the file nor the log uses.
THEOREM AlwaysFresh == Spec => []NextNumberIsFresh
BY InductiveInvariant, PTL DEF IInv

\* The log owns its objects: none is used after free, freed twice or leaked.
THEOREM AlwaysOwned == Spec => []Ownership
BY InductiveInvariant, PTL DEF IInv

-----------------------------------------------------------------------------
(* No edit is lost: a property of steps, from the same invariant.          *)

\* A replaced node keeps its number and its place.
LEMMA ReplaceEntryKeeps ==
  ASSUME IInv, NEW o \in Objs, NEW p \in 1..(Len(log) + 1),
         num[o] # NoNum, ReplaceEntry(o, p)
  PROVE  KeepsNumbers
<1>1. /\ NodeOf(o) \in Nodes /\ NodeOf(o).obj_num = num[o]
      /\ p \in 1..Len(log) /\ max_obj_num \in Nat
  BY DEF IInv, TypeOK, Nodes, NodeOf, ReplaceEntry
<1>2. /\ Len(log') = Len(log)
      /\ \A i \in 1..Len(log) : log'[i] = IF i = p THEN NodeOf(o) ELSE log[i]
  BY <1>1, ExceptSeq DEF ReplaceEntry, ReplaceAt, IInv, TypeOK
<1>3. \A i \in 1..Len(log) : log'[i].obj_num = log[i].obj_num
  BY <1>1, <1>2 DEF ReplaceEntry
<1>4. QED
  BY <1>1, <1>2, <1>3 DEF ReplaceEntry, KeepsNumbers

\* A new node moves the nodes behind it by one place and drops none.
LEMMA InsertEntryKeeps ==
  ASSUME IInv, NEW o \in Objs, NEW p \in 1..(Len(log) + 1),
         num[o] # NoNum, InsertEntry(o, p)
  PROVE  KeepsNumbers
<1>1. /\ NodeOf(o) \in Nodes /\ log \in Seq(Nodes) /\ Len(log) \in Nat
      /\ max_obj_num \in Nat /\ num[o] \in Nat
  <2>1. num[o] \in Nums
    BY DEF IInv, TypeOK
  <2>2. NodeOf(o) \in Nodes
    BY <2>1 DEF Nodes, NodeOf
  <2>3. log \in Seq(Nodes) /\ Len(log) \in Nat /\ max_obj_num \in Nat
    BY DEF IInv, TypeOK
  <2>4. QED
    BY <2>1, <2>2, <2>3, NumsAssumption
<1>2. /\ Len(log') = Len(log) + 1
      /\ \A i \in 1..(Len(log) + 1) :
           log'[i] = IF i < p THEN log[i] ELSE IF i = p THEN NodeOf(o) ELSE log[i - 1]
  <2>1. log' = InsertAt(log, p, NodeOf(o))
    BY DEF InsertEntry
  <2>2. QED
    BY SMTT(30), <1>1, <2>1, InsertNode
<1>3. ASSUME NEW i \in 1..Len(log)
      PROVE  \E j \in 1..Len(log') : log'[j].obj_num = log[i].obj_num
  <2>1. CASE i < p
    <3>1. i \in 1..Len(log') /\ log'[i] = log[i]
      BY <1>1, <1>2, <2>1
    <3>2. QED
      BY <3>1
  <2>2. CASE i >= p
    <3>1. i + 1 \in 1..Len(log') /\ log'[i + 1] = log[i]
      BY <1>1, <1>2, <2>2
    <3>2. QED
      BY <3>1
  <2>3. QED
    BY <1>1, <2>1, <2>2
<1>4. max_obj_num' >= max_obj_num
  BY <1>1 DEF InsertEntry, Raise
<1>5. QED
  BY <1>3, <1>4 DEF KeepsNumbers

\* While a log exists its largest number never goes down and no number leaves
\* it, whatever is added and in whatever order.
THEOREM AlwaysKept == Spec => NothingLost
<1>1. IInv /\ [Next]_vars => [KeepsNumbers]_vars
  <2> SUFFICES ASSUME IInv, Next PROVE KeepsNumbers
    OBVIOUS
  <2>1. log \in Seq(Nodes) /\ max_obj_num \in Nat /\ Len(log) \in Nat
    BY DEF IInv, TypeOK
  <2>2. ASSUME NEW o \in Objs, NEW n \in Nums, MakeIndObj(o, n) PROVE KeepsNumbers
    BY <2>1, <2>2 DEF MakeIndObj, KeepsNumbers
  <2>3. ASSUME NEW s \in Sizes, New(s) PROVE KeepsNumbers
    BY <2>3 DEF New, KeepsNumbers
  <2>4. ASSUME NEW o \in Objs, AddEntry(o) PROVE KeepsNumbers
    <3>1. PICK p \in 1..(Len(log) + 1) : ReplaceEntry(o, p) \/ InsertEntry(o, p)
      BY <2>4 DEF AddEntry
    <3>2. num[o] # NoNum
      BY <2>4 DEF AddEntry
    <3>3. QED
      BY <3>1, <3>2, ReplaceEntryKeeps, InsertEntryKeeps
  <2>5. CASE Destroy
    BY <2>5 DEF Destroy, KeepsNumbers
  <2>6. QED
    BY <2>2, <2>3, <2>4, <2>5 DEF Next
<1>2. QED
  BY <1>1, InductiveInvariant, PTL DEF Spec, NothingLost

-----------------------------------------------------------------------------
(* The log implements a map from numbers to objects.                       *)

PendingIsLog ==
  /\ DOMAIN PendingMap = LogNums
  /\ \A i \in 1..Len(log) : PendingMap[log[i].obj_num] = log[i].ind_obj

\* No number is in two nodes, so that the map has what the node of a number holds.
LEMMA PendingMapIsLog == IInv => PendingIsLog
<1> SUFFICES ASSUME IInv, NEW i \in 1..Len(log)
             PROVE  PendingMap[log[i].obj_num] = log[i].ind_obj
  BY DEF PendingIsLog, PendingMap
<1> DEFINE nodes == {log[j] : j \in 1..Len(log)}
           n == log[i].obj_num
<1>1. \A j \in 1..Len(log) : log[j] \in Nodes /\ log[j].obj_num \in Nat
  <2>1. \A j \in 1..Len(log) : log[j] \in Nodes
    BY ElementOfSeq DEF IInv, TypeOK
  <2>2. QED
    BY <2>1, NumsAssumption DEF Nodes
<1>2. \A j \in 1..Len(log) : log[j].obj_num = n => j = i
  <2> SUFFICES ASSUME NEW j \in 1..Len(log), log[j].obj_num = n PROVE j = i
    OBVIOUS
  <2>1. ~(i < j) /\ ~(j < i)
    BY <1>1 DEF IInv, Sorted
  <2>2. QED
    BY <2>1
<1>3. log[i] \in nodes /\ \A nd \in nodes : nd.obj_num = n => nd = log[i]
  BY <1>2
<1>4. (CHOOSE nd \in nodes : nd.obj_num = n) = log[i]
  BY <1>3
<1>5. n \in LogNums
  BY DEF LogNums
<1>6. PendingMap[n] = (CHOOSE nd \in nodes : nd.obj_num = n).ind_obj
  BY <1>5 DEF PendingMap
<1>7. QED
  BY <1>4, <1>6

Held == {o \in Objs : cell[o] = "caller"}

\* A step that moves o from the caller into the log, under n, maps to a Put.
LEMMA PutMaps ==
  ASSUME PendingIsLog, PendingIsLog', NEW n \in Nums, NEW o \in Objs,
         LogNums' = LogNums \union {n},
         \A m \in LogNums' : \E j \in 1..Len(log') :
            log'[j].obj_num = m /\ log'[j].ind_obj = IF m = n THEN o ELSE PendingMap[m],
         o \in Held, Held' = Held \ {o}
  PROVE  Map!Put(n, o)
<1>1. \A m \in LogNums' : PendingMap'[m] = IF m = n THEN o ELSE PendingMap[m]
  BY DEF PendingIsLog
<1>2. PendingMap' = [m \in LogNums' |-> PendingMap'[m]]
  BY DEF PendingMap
<1>3. DOMAIN PendingMap = LogNums
  BY DEF PendingIsLog
<1>4. PendingMap' = [m \in DOMAIN PendingMap \union {n} |-> IF m = n THEN o ELSE PendingMap[m]]
  BY <1>1, <1>2, <1>3
<1>5. QED
  BY <1>4 DEF Map!Put, Held

LEMMA ReplaceEntryMaps ==
  ASSUME IInv, PendingIsLog, PendingIsLog', NEW o \in Objs, NEW p \in 1..(Len(log) + 1),
         cell[o] = "caller", num[o] # NoNum, ReplaceEntry(o, p)
  PROVE  num[o] \in Nums /\ Map!Put(num[o], o)
<1> DEFINE nd == NodeOf(o)
           n == num[o]
<1>1. /\ nd \in Nodes /\ n \in Nums
      /\ nd.obj_num = n /\ nd.ind_obj = o
  BY DEF IInv, TypeOK, Nodes, NodeOf, NoNum
<1>2. p \in 1..Len(log) /\ log[p].obj_num = n
  BY DEF ReplaceEntry, IInv, TypeOK
<1>3. /\ Len(log') = Len(log)
      /\ \A j \in 1..Len(log) : log'[j] = IF j = p THEN nd ELSE log[j]
  BY <1>1, <1>2, ExceptSeq DEF ReplaceEntry, ReplaceAt, IInv, TypeOK
<1>4. \A j \in 1..Len(log) : log'[j].obj_num = log[j].obj_num
  BY <1>1, <1>2, <1>3
<1>5. LogNums' = LogNums /\ n \in LogNums
  BY <1>2, <1>3, <1>4 DEF LogNums
<1>6. ASSUME NEW m \in LogNums'
      PROVE  \E j \in 1..Len(log') :
               log'[j].obj_num = m /\ log'[j].ind_obj = IF m = n THEN o ELSE PendingMap[m]
  <2>1. CASE m = n
    BY <2>1, <1>1, <1>2, <1>3
  <2>2. CASE m # n
    <3>1. PICK j \in 1..Len(log) : log[j].obj_num = m
      BY <1>5, <1>6 DEF LogNums
    <3>2. log'[j] = log[j] /\ PendingMap[m] = log[j].ind_obj
      BY <2>2, <3>1, <1>2, <1>3 DEF PendingIsLog
    <3>3. QED
      BY <2>2, <3>1, <3>2, <1>3
  <2>3. QED
    BY <2>1, <2>2
<1>7. Held' = Held \ {o}
  <2>1. log[p].ind_obj \in Objs /\ cell[log[p].ind_obj] = "log"
    <3>1. log[p] \in Nodes
      BY <1>2, ElementOfSeq DEF IInv, TypeOK
    <3>2. QED
      BY <1>2, <3>1 DEF IInv, Nodes, Ownership
  <2>2. QED
    BY <2>1 DEF ReplaceEntry, TakeOver, Held, IInv, TypeOK
<1>8. o \in Held
  BY DEF Held
<1>9. QED
  BY <1>1, <1>5, <1>6, <1>7, <1>8, PutMaps

LEMMA InsertEntryMaps ==
  ASSUME IInv, PendingIsLog, PendingIsLog', NEW o \in Objs, NEW p \in 1..(Len(log) + 1),
         cell[o] = "caller", num[o] # NoNum, IsPosition(p, num[o]), InsertEntry(o, p)
  PROVE  num[o] \in Nums /\ Map!Put(num[o], o)
<1> DEFINE nd == NodeOf(o)
           n == num[o]
<1>1. /\ nd \in Nodes /\ n \in Nums
      /\ nd.obj_num = n /\ nd.ind_obj = o /\ Len(log) \in Nat
  BY DEF IInv, TypeOK, Nodes, NodeOf, NoNum
<1>2. /\ Len(log') = Len(log) + 1
      /\ \A i \in 1..(Len(log) + 1) :
           log'[i] = IF i < p THEN log[i] ELSE IF i = p THEN nd ELSE log[i - 1]
  <2>1. log' = InsertAt(log, p, nd) /\ log \in Seq(Nodes)
    BY DEF InsertEntry, IInv, TypeOK
  <2>2. QED
    BY SMTT(30), <1>1, <2>1, InsertNode
<1>3. \A j \in 1..Len(log) : log[j].obj_num # n
  <2>1. ASSUME NEW j \in 1..Len(log) PROVE log[j].obj_num # n
    <3>1. \A i \in 1..Len(log) : log[i].obj_num \in Nat
      <4>1. \A i \in 1..Len(log) : log[i] \in Nodes
        BY ElementOfSeq DEF IInv, TypeOK
      <4>2. QED
        BY <4>1, NumsAssumption DEF Nodes
    <3>2. n \in Nat
      BY <1>1, NumsAssumption
    <3>3. CASE j = p
      BY <3>3, <1>1 DEF InsertEntry
    <3>4. CASE j < p \/ j > p
      <4>1. log[j].obj_num < n \/ log[j].obj_num > n
        BY <1>1, <3>4, PositionSplitsLog
      <4>2. QED
        BY <3>1, <3>2, <4>1
    <3>5. QED
      BY <3>3, <3>4
  <2>2. QED
    BY <2>1
\* Where each node of the log is after the step.
<1>4. ASSUME NEW i \in 1..Len(log)
      PROVE  \E j \in 1..Len(log') : log'[j] = log[i]
  <2>1. CASE i < p
    <3>1. i \in 1..Len(log') /\ log'[i] = log[i]
      BY <1>1, <1>2, <2>1
    <3>2. QED
      BY <3>1
  <2>2. CASE i >= p
    <3>1. i + 1 \in 1..Len(log') /\ log'[i + 1] = log[i]
      BY <1>1, <1>2, <2>2
    <3>2. QED
      BY <3>1
  <2>3. QED
    BY <1>1, <2>1, <2>2
<1>5. ASSUME NEW j \in 1..Len(log')
      PROVE  log'[j] = nd \/ \E i \in 1..Len(log) : log'[j] = log[i]
  <2>1. CASE j < p
    <3>1. j \in 1..Len(log) /\ log'[j] = log[j]
      BY <1>1, <1>2, <2>1
    <3>2. QED
      BY <3>1
  <2>2. CASE j > p
    <3>1. j - 1 \in 1..Len(log) /\ log'[j] = log[j - 1]
      BY <1>1, <1>2, <2>2
    <3>2. QED
      BY <3>1
  <2>3. CASE j = p
    BY <2>3, <1>1, <1>2
  <2>4. QED
    BY <2>1, <2>2, <2>3
<1>6. p \in 1..Len(log') /\ log'[p] = nd
  BY <1>1, <1>2
<1>7. LogNums' = LogNums \union {n}
  <2>1. \A m \in LogNums' : m \in LogNums \union {n}
    BY <1>1, <1>5 DEF LogNums
  <2>2. \A m \in LogNums : m \in LogNums'
    BY <1>4 DEF LogNums
  <2>3. n \in LogNums'
    BY <1>1, <1>6 DEF LogNums
  <2>4. QED
    BY <2>1, <2>2, <2>3
<1>8. ASSUME NEW m \in LogNums'
      PROVE  \E j \in 1..Len(log') :
               log'[j].obj_num = m /\ log'[j].ind_obj = IF m = n THEN o ELSE PendingMap[m]
  <2>1. CASE m = n
    BY <2>1, <1>1, <1>6
  <2>2. CASE m # n
    <3>1. PICK i \in 1..Len(log) : log[i].obj_num = m
      BY <2>2, <1>7, <1>8 DEF LogNums
    <3>2. PICK j \in 1..Len(log') : log'[j] = log[i]
      BY <1>4
    <3>3. PendingMap[m] = log[i].ind_obj
      BY <3>1 DEF PendingIsLog
    <3>4. QED
      BY <2>2, <3>1, <3>2, <3>3
  <2>3. QED
    BY <2>1, <2>2
<1>9. Held' = Held \ {o} /\ o \in Held
  BY DEF InsertEntry, Held, IInv, TypeOK
<1>10. QED
  BY <1>1, <1>7, <1>8, <1>9, PutMaps

LEMMA AddEntryMaps ==
  ASSUME IInv, PendingIsLog, PendingIsLog', NEW o \in Objs, AddEntry(o)
  PROVE  num[o] \in Nums /\ Map!Put(num[o], o)
<1>1. PICK p \in 1..(Len(log) + 1) :
        /\ IsPosition(p, num[o])
        /\ ReplaceEntry(o, p) \/ InsertEntry(o, p)
  BY DEF AddEntry
<1>2. QED
  BY <1>1, ReplaceEntryMaps, InsertEntryMaps DEF AddEntry

\* What a step that adds an object does to the map.
LEMMA AddEntryPending ==
  ASSUME IInv, IInv', NEW o \in Objs, AddEntry(o)
  PROVE  /\ num[o] \in Nums
         /\ PendingMap' = [m \in LogNums \union {num[o]} |-> IF m = num[o] THEN o ELSE PendingMap[m]]
<1>1. PendingIsLog /\ PendingIsLog'
  BY PendingMapIsLog, PTL
<1>2. num[o] \in Nums /\ Map!Put(num[o], o)
  BY <1>1, AddEntryMaps
<1>3. DOMAIN PendingMap = LogNums
  BY DEF PendingMap
<1>4. QED
  BY <1>2, <1>3 DEF Map!Put

LEMMA StepMaps ==
  ASSUME IInv, PendingIsLog, PendingIsLog', [Next]_vars
  PROVE  [Map!Next]_<<PendingMap, Held>>
<1>1. ASSUME NEW o \in Objs, NEW n \in Nums, MakeIndObj(o, n) PROVE Map!Make(o)
  <2>1. UNCHANGED PendingMap
    BY <1>1 DEF MakeIndObj, PendingMap, LogNums
  <2>2. o \notin Held /\ Held' = Held \union {o}
    BY <1>1 DEF MakeIndObj, Held, IInv, TypeOK
  <2>3. ASSUME NEW m \in DOMAIN PendingMap PROVE PendingMap[m] # o
    <3>1. PICK i \in 1..Len(log) : log[i].obj_num = m
      BY DEF PendingIsLog, LogNums
    <3>2. PendingMap[m] = log[i].ind_obj /\ cell[log[i].ind_obj] = "log"
      BY <3>1 DEF PendingIsLog, IInv, Ownership
    <3>3. QED
      BY <3>2, <1>1 DEF MakeIndObj
  <2>4. QED
    BY <2>1, <2>2, <2>3 DEF Map!Make, Held
<1>2. ASSUME NEW s \in Sizes, New(s) PROVE UNCHANGED <<PendingMap, Held>>
  <2>1. log' = log /\ cell' = cell
    BY <1>2 DEF New, IInv, NoLogNoNodes
  <2>2. QED
    BY <2>1 DEF PendingMap, LogNums, Held
<1>3. ASSUME NEW o \in Objs, AddEntry(o) PROVE num[o] \in Nums /\ Map!Put(num[o], o)
  BY <1>3, AddEntryMaps
<1>4. CASE Destroy
  <2>1. LogNums' = {}
    BY <1>4 DEF Destroy, LogNums
  <2>2. PendingMap' = Map!EmptyMap
    BY <2>1 DEF PendingMap, Map!EmptyMap
  <2>3. ASSUME NEW o \in Objs PROVE cell'[o] = "caller" <=> cell[o] = "caller"
    <3>1. cell'[o] = IF InLog(o) THEN "free" ELSE cell[o]
      BY <1>4 DEF Destroy, Released
    <3>2. InLog(o) => cell[o] = "log"
      BY DEF InLog, IInv, Ownership
    <3>3. QED
      BY <3>1, <3>2
  <2>4. Held' = Held
    BY <2>3 DEF Held
  <2>5. QED
    BY <2>2, <2>4 DEF Map!Next, Map!Drop, Held
<1>5. CASE UNCHANGED vars
  BY <1>5 DEF vars, PendingMap, LogNums, Held
<1>6. QED
  BY <1>1, <1>2, <1>3, <1>4, <1>5 DEF Next, Map!Next

\* Every behaviour of the list is one of a map from numbers to objects in which the
\* last object handed over under a number is the one that counts, and nothing that
\* was handed over is dropped before the log is.
THEOREM LogImplementsMap == Spec => ImplementsMap
<1>1. Init => Map!Init
  <2> SUFFICES ASSUME Init PROVE Map!Init
    OBVIOUS
  <2>1. LogNums = {}
    BY DEF Init, LogNums
  <2>2. PendingMap = Map!EmptyMap
    BY <2>1 DEF PendingMap, Map!EmptyMap
  <2>3. Held = {}
    BY DEF Init, Held
  <2>4. QED
    BY <2>2, <2>3 DEF Map!Init, Held
<1>2. IInv /\ PendingIsLog /\ PendingIsLog' /\ [Next]_vars => [Map!Next]_<<PendingMap, Held>>
  BY StepMaps
<1>3. IInv /\ PendingIsLog /\ PendingIsLog' /\ [Next]_vars => [Map!Next]_Map!vars
  BY <1>2 DEF Map!vars, Held
<1>4. QED
  BY <1>1, <1>3, PendingMapIsLog, InductiveInvariant, PTL DEF Spec, ImplementsMap, Map!Spec
=============================================================================
