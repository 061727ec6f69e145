-------------------------------- MODULE Modif --------------------------------
(***************************************************************************)
(* The modification log of a document, pdf/modif.c: a linked list of       *)
(* indirect objects sorted by object number (a sequence here; the header   *)
(* node is left out), the number of its nodes and the largest object       *)
(* number in use.                                                          *)
(*                                                                         *)
(* An indirect object is a heap cell.  The log owns the cells added to it  *)
(* and frees them, when another object with the same number replaces them  *)
(* or when the log is destroyed.  A cell that was freed may be returned by *)
(* a later malloc.                                                         *)
(***************************************************************************)
EXTENDS Integers, Sequences, SequencesExt

CONSTANTS Objs,     \* heap cells of indirect objects (pindf_pdf_ind_obj)
          Nums,     \* object numbers an indirect object can carry
          Sizes     \* doc->xref->size, the argument of pindf_modif_new

ASSUME NumsAssumption == Nums \subseteq Nat
ASSUME SizesAssumption == Sizes \subseteq Nat \ {0}

VARIABLES
  alive,         \* doc->modif # NULL
  log,           \* modif_log->next, ...
  count,         \* modif->count
  max_obj_num,   \* modif->max_obj_num
  size,          \* the argument given to pindf_modif_new
  cell,          \* who owns each heap cell: "free" (nobody), "caller", "log"
  num            \* ind_obj->obj_num of each cell, NoNum when nobody owns it

vars == <<alive, log, count, max_obj_num, size, cell, num>>

NoNum == 0

Nodes == [obj_num : Nums, ind_obj : Objs]

TypeOK ==
  /\ alive \in BOOLEAN
  /\ log \in Seq(Nodes)
  /\ count \in Nat
  /\ max_obj_num \in Nat
  /\ size \in Nat
  /\ cell \in [Objs -> {"free", "caller", "log"}]
  /\ num \in [Objs -> Nums \union {NoNum}]

Init ==
  /\ alive = FALSE
  /\ log = <<>>
  /\ count = 0
  /\ max_obj_num = 0
  /\ size = 0
  /\ cell = [o \in Objs |-> "free"]
  /\ num = [o \in Objs |-> NoNum]

-----------------------------------------------------------------------------
(* The caller: it builds indirect objects with malloc, and creates and     *)
(* destroys the log (pindf_modif_new, pindf_doc_destroy).                  *)

\* malloc and initialisation of an indirect object by the caller.
MakeIndObj(o, n) ==
  /\ cell[o] = "free"
  /\ cell' = [cell EXCEPT ![o] = "caller"]
  /\ num' = [num EXCEPT ![o] = n]
  /\ UNCHANGED <<alive, log, count, max_obj_num, size>>

\* Mutant: one is taken off twice.
InitialMaxOffByTwo(s) == s - 2

\* The caller passes the size of the xref table, not a number in use.
InitialMax(s) == s - 1

New(s) ==
  /\ ~alive
  /\ alive' = TRUE
  /\ log' = <<>>
  /\ count' = 0
  /\ max_obj_num' = InitialMax(s)
  /\ size' = s
  /\ UNCHANGED <<cell, num>>

-----------------------------------------------------------------------------
(* pindf_modif_addentry                                                    *)

\* Mutant: the walk passes a node with the same number.
IsPositionPastEqual(p, n) ==
  /\ \A i \in 1..(p - 1) : log[i].obj_num <= n
  /\ p <= Len(log) => log[p].obj_num > n

\* Where the walk from the header stops: the first node that is not below n.
IsPosition(p, n) ==
  /\ \A i \in 1..(p - 1) : log[i].obj_num < n
  /\ p <= Len(log) => log[p].obj_num >= n

NodeOf(o) == [obj_num |-> num[o], ind_obj |-> o]

\* Mutant: the object replaced is not freed.
TakeOverLeaks(p, o) == [cell EXCEPT ![o] = "log"]

\* The owners after the node at p takes o: the object it held is freed.
TakeOver(p, o) == [cell EXCEPT ![log[p].ind_obj] = "free", ![o] = "log"]

\* Mutant: the maximum is only raised when the number is not the next one.
RaiseNotNext(max, n) == IF n > max + 1 THEN n ELSE max

Raise(max, n) == IF n > max THEN n ELSE max

\* Mutants: a replacement is counted as a new node; the new object is freed
\* instead of the one it replaces.
ReplaceEntryCounts(o, p) ==
  /\ p <= Len(log)
  /\ log[p].obj_num = num[o]
  /\ log' = ReplaceAt(log, p, NodeOf(o))
  /\ cell' = TakeOver(p, o)
  /\ count' = count + 1
  /\ num' = [num EXCEPT ![log[p].ind_obj] = NoNum]
  /\ UNCHANGED <<alive, max_obj_num, size>>

ReplaceEntryKeepsOld(o, p) ==
  /\ p <= Len(log)
  /\ log[p].obj_num = num[o]
  /\ cell' = [cell EXCEPT ![o] = "free"]
  /\ num' = [num EXCEPT ![o] = NoNum]
  /\ UNCHANGED <<alive, log, count, max_obj_num, size>>

ReplaceEntry(o, p) ==
  /\ p <= Len(log)
  /\ log[p].obj_num = num[o]
  /\ log' = ReplaceAt(log, p, NodeOf(o))
  /\ cell' = TakeOver(p, o)
  /\ num' = [num EXCEPT ![log[p].ind_obj] = NoNum]
  /\ UNCHANGED <<alive, count, max_obj_num, size>>

\* Mutant: the new node does not point to the rest of the list.
InsertEntryCutsTail(o, p) ==
  /\ p <= Len(log) => log[p].obj_num # num[o]
  /\ log' = Append(SubSeq(log, 1, p - 1), NodeOf(o))
  /\ count' = count + 1
  /\ max_obj_num' = Raise(max_obj_num, num[o])
  /\ cell' = [cell EXCEPT ![o] = "log"]
  /\ UNCHANGED <<alive, size, num>>

InsertEntry(o, p) ==
  /\ p <= Len(log) => log[p].obj_num # num[o]
  /\ log' = InsertAt(log, p, NodeOf(o))
  /\ count' = count + 1
  /\ max_obj_num' = Raise(max_obj_num, num[o])
  /\ cell' = [cell EXCEPT ![o] = "log"]
  /\ UNCHANGED <<alive, size, num>>

\* The object added is one the caller still owns: the function takes it over.
AddEntry(o) ==
  /\ alive
  /\ cell[o] = "caller"
  /\ num[o] # NoNum
  /\ \E p \in 1..(Len(log) + 1) :
       /\ IsPosition(p, num[o])
       /\ ReplaceEntry(o, p) \/ InsertEntry(o, p)

-----------------------------------------------------------------------------
(* pindf_modif_destroy                                                     *)

InLog(o) == \E i \in 1..Len(log) : log[i].ind_obj = o

\* The cells that the loop over the nodes releases.
Released == [o \in Objs |-> IF InLog(o) THEN "free" ELSE cell[o]]

Destroy ==
  /\ alive
  /\ alive' = FALSE
  /\ log' = <<>>
  /\ count' = 0 /\ max_obj_num' = 0 /\ size' = 0
  /\ cell' = Released
  /\ num' = [o \in Objs |-> IF InLog(o) THEN NoNum ELSE num[o]]

Next ==
  \/ \E o \in Objs, n \in Nums : MakeIndObj(o, n)
  \/ \E s \in Sizes : New(s)
  \/ \E o \in Objs : AddEntry(o)
  \/ Destroy

Spec == Init /\ [][Next]_vars

-----------------------------------------------------------------------------
(* Properties                                                              *)

\* The list is in strictly ascending order of object numbers, so that no
\* number occurs twice (modif_test.c:47-53 checks one such list).
Sorted == \A i, j \in 1..Len(log) : i < j => log[i].obj_num < log[j].obj_num

\* modif->count, from which pindf_doc_save_modif allocates its buffer of
\* 6 * (count + 10) bytes, is the number of nodes; replacing does not count.
CountIsLength == count = Len(log)

\* max_obj_num is an upper bound of the numbers in the file (below size) and
\* of the numbers in the log: max_obj_num + 1, which callers give to a new
\* object and pindf_doc_save_modif to the xref stream, is never taken.
NextNumberIsFresh ==
  alive => /\ max_obj_num >= size - 1
           /\ \A i \in 1..Len(log) : log[i].obj_num <= max_obj_num

\* Every node holds a cell that the log owns under the number of the node, no
\* two nodes share a cell, and no cell the log owns is out of reach: nothing
\* is freed while in use, freed twice or leaked.
Ownership ==
  /\ \A i \in 1..Len(log) : /\ cell[log[i].ind_obj] = "log"
                            /\ num[log[i].ind_obj] = log[i].obj_num
  /\ \A i, j \in 1..Len(log) : log[i].ind_obj = log[j].ind_obj => i = j
  /\ \A o \in Objs : cell[o] = "log" => InLog(o)

\* While a log exists its largest number never goes down and no number leaves
\* it: an edit can only be overridden, never lost.
KeepsNumbers ==
  alive /\ alive' =>
    /\ max_obj_num' >= max_obj_num
    /\ \A i \in 1..Len(log) :
         \E j \in 1..Len(log') : log'[j].obj_num = log[i].obj_num

NothingLost == [][KeepsNumbers]_vars

LogNums == {log[i].obj_num : i \in 1..Len(log)}

PendingMap ==
  [n \in LogNums |->
     (CHOOSE nd \in {log[i] : i \in 1..Len(log)} : nd.obj_num = n).ind_obj]

Map == INSTANCE ModifMap WITH
  pending <- PendingMap,
  held <- {o \in Objs : cell[o] = "caller"}

\* The log implements a map in which the last object added under a number wins
\* (modif_test.c:55-57): no object handed over is dropped.
ImplementsMap == Map!Spec
=============================================================================
