--------------------------------- MODULE Dict ---------------------------------
(***************************************************************************)
(* Dictionaries as pdf/obj.c keeps them: two vectors that grow together,    *)
(* one of keys and one of pointers to values.  A vector has a slot more     *)
(* than its capacity, and a lookup that finds no key reads the slot behind  *)
(* the last value.  Cells are the value objects on the heap; key objects,   *)
(* which no one but their dictionary ever holds, are left out.              *)
(***************************************************************************)
EXTENDS Integers, SequencesExt

CONSTANTS
  Keys,
  CellCount,       \* the number of cells
  EditKeys,        \* the keys that a caller sets
  Contents,        \* what the caller puts in a cell
  ParsedDicts,     \* sequences of <<key, content>>: dictionaries of files
  FreshCap,        \* capacity of an empty dictionary, 8 in the code
  Null,            \* the NULL pointer
  Junk,            \* the value of a slot that was never written
  Free,            \* the content of a cell that is not allocated
  NoMap            \* what a dictionary stands for that does not exist

ASSUME FreshCapAssumption == FreshCap \in Nat \ {0}

ASSUME CellsAssumption ==
  /\ CellCount \in Nat
  /\ {Null, Junk} \intersect (1..CellCount) = {} /\ Null # Junk

\* A key of a dictionary may occur twice in a file.
ASSUME ContentsAssumption ==
  /\ EditKeys \subseteq Keys
  /\ Free \notin Contents
  /\ \A pairs \in ParsedDicts :
       /\ Len(pairs) \in Nat
       /\ \A i \in 1..Len(pairs) : pairs[i][1] \in Keys /\ pairs[i][2] # Free

\* What a cell may hold, and what a key may stand for.
Objects == Contents \union UNION {{pairs[i][2] : i \in 1..Len(pairs)} : pairs \in ParsedDicts}
MapValues == Objects \union {Null}

ASSUME NoMapAssumption == \A ks \in SUBSET Keys : NoMap \notin [ks -> MapValues]

VARIABLES
  heap,            \* the content of every cell
  dicts            \* two dictionaries

dvars == <<heap, dicts>>

Names == {"a", "b"}
Cells == 1..CellCount

\* Mutant: no slot more.
SlotsExact(cap) == cap

\* Number of slots of a vector (pindf_vector_init and pindf_vector_append allocate one more).
Slots(cap) == cap + 1

\* born is the capacity that the vectors were allocated with.
NewDict(cap) == [cap |-> cap, born |-> cap, keys |-> <<>>, vals |-> [i \in 1..Slots(cap) |-> Null]]
NoDict == [cap |-> 0, born |-> 0, keys |-> <<>>, vals |-> <<>>]

HasGrown(dict) == dict.cap # dict.born

\* realloc keeps what was there and leaves the rest as it is.
Expand(dict) ==
  [dict EXCEPT !.cap = 2 * @,
               !.vals = [i \in 1..Slots(2 * dict.cap) |-> IF i \in DOMAIN @ THEN @[i] ELSE Junk]]

\* Mutant: the vectors grow when the slot more is used too.
IsFullLate(dict) == Len(dict.keys) > dict.cap

IsFull(dict) == Len(dict.keys) = dict.cap

AppendPair(dict, key, val) ==
  LET room == IF IsFull(dict) THEN Expand(dict) ELSE dict
  IN  [room EXCEPT !.keys = Append(@, key), !.vals[Len(dict.keys) + 1] = val]

\* The dictionary to which the keys were appended in their order.
Filled(cap, keys, vals) ==
  LET upto[n \in 0..Len(keys)] ==
        IF n = 0 THEN NewDict(cap) ELSE AppendPair(upto[n - 1], keys[n], vals[n])
  IN  upto[Len(keys)]

HasKey(dict, key) == \E i \in DOMAIN dict.keys : dict.keys[i] = key

\* The slot that a lookup ends at.
Position(dict, key) ==
  IF HasKey(dict, key) THEN SelectInSeq(dict.keys, LAMBDA k : k = key) ELSE Len(dict.keys) + 1

GetValue2(dict, key) == IF dict.keys = <<>> THEN Null ELSE dict.vals[Position(dict, key)]

-----------------------------------------------------------------------------

DictInit ==
  /\ heap = [c \in Cells |-> Free]
  /\ dicts = [d \in Names |-> NoDict]

\* The cells that malloc gives, one for each of these places in their order: which ones
\* makes no difference, so they are the lowest.
FreeCells == {c \in Cells : heap[c] = Free}
FreshCells(places) ==
  {cs \in [places -> FreeCells] :
     /\ \A i, j \in places : i < j => cs[i] < cs[j]
     /\ \A i \in places, c \in FreeCells : c < cs[i] => \E j \in places : cs[j] = c}

\* The heap in which the cells have these contents.
Made(cs, content) ==
  [c \in Cells |-> IF \E i \in DOMAIN cs : cs[i] = c
                   THEN content[CHOOSE i \in DOMAIN cs : cs[i] = c] ELSE heap[c]]

\* Bound: the second dictionary is a copy of the first one.
Alone(d) == d = "a" /\ \A e \in Names : dicts[e] = NoDict

\* The parser makes a dictionary of the pairs that it read (_reduce_dict).
Parse(d, pairs) ==
  /\ Alone(d)
  /\ \E cs \in FreshCells(1..Len(pairs)) :
       /\ heap' = Made(cs, [i \in 1..Len(pairs) |-> pairs[i][2]])
       /\ dicts' = [dicts EXCEPT ![d] = Filled(Len(pairs) + 2, [i \in 1..Len(pairs) |-> pairs[i][1]], cs)]

New(d) ==
  /\ Alone(d)
  /\ dicts' = [dicts EXCEPT ![d] = NewDict(FreshCap)]
  /\ UNCHANGED heap

\* Mutant: the object is freed even if it is set again.
ReplacedAlways(old, val) == {old} \ {Null}

\* Mutant: the object that is replaced is not freed.
ReplacedNever(old, val) == {}

\* The object that is freed when a slot gets another pointer.
Replaced(old, val) == {old} \ {Null, val}

\* pindf_dict_set_value, from a heap in which the value was made.
SetPointer(d, key, val, made) ==
  IF HasKey(dicts[d], key)
  THEN LET i == Position(dicts[d], key) IN
       /\ heap' = [c \in Cells |-> IF c \in Replaced(dicts[d].vals[i], val) THEN Free ELSE made[c]]
       /\ dicts' = [dicts EXCEPT ![d].vals[i] = val]
  ELSE /\ heap' = made
       /\ dicts' = [dicts EXCEPT ![d] = AppendPair(@, key, val)]

\* The caller sets an object that it has just made, the object that is there, or NULL.
SetNew(d, key, content) ==
  /\ dicts[d] # NoDict
  /\ \E cs \in FreshCells({1}) : SetPointer(d, key, cs[1], [heap EXCEPT ![cs[1]] = content])
SetSame(d, key) ==
  /\ HasKey(dicts[d], key)
  /\ SetPointer(d, key, GetValue2(dicts[d], key), heap)
SetNull(d, key) == dicts[d] # NoDict /\ SetPointer(d, key, Null, heap)

\* The values of the keys a dictionary has.
Values(dict) == {dict.vals[i] : i \in DOMAIN dict.keys} \ {Null}

\* pindf_dict_deepcopy: every value is copied, the copy of NULL is NULL.  Bound: only
\* dictionaries of values that a caller could have set are copied.
DeepCopy(s, d) ==
  /\ dicts[s] # NoDict /\ dicts[d] = NoDict
  /\ \A c \in Values(dicts[s]) : heap[c] \in Contents
  /\ LET src == dicts[s]
         valued == {i \in DOMAIN src.keys : src.vals[i] # Null}
     IN \E cs \in FreshCells(valued) :
          /\ heap' = Made(cs, [i \in valued |-> heap[src.vals[i]]])
          /\ dicts' = [dicts EXCEPT ![d] =
                         Filled(FreshCap, src.keys,
                                [i \in DOMAIN src.keys |-> IF i \in valued THEN cs[i] ELSE Null])]

Destroy(d) ==
  /\ dicts[d] # NoDict
  /\ heap' = [c \in Cells |-> IF c \in Values(dicts[d]) THEN Free ELSE heap[c]]
  /\ dicts' = [dicts EXCEPT ![d] = NoDict]

DictNext ==
  \E d \in Names :
    \/ \E pairs \in ParsedDicts : Parse(d, pairs)
    \/ New(d)
    \/ \E key \in EditKeys :
         (\E content \in Contents : SetNew(d, key, content)) \/ SetSame(d, key) \/ SetNull(d, key)
    \/ \E s \in Names \ {d} : DeepCopy(s, d)
    \/ Destroy(d)

-----------------------------------------------------------------------------
(* Properties                                                              *)

DictTypeOK ==
  /\ \A d \in Names :
       /\ dicts[d].keys \in Seq(Keys)
       /\ dicts[d].cap \in Nat /\ Len(dicts[d].keys) <= dicts[d].cap
       /\ \A i \in DOMAIN dicts[d].vals : dicts[d].vals[i] \in Cells \union {Null, Junk}
  /\ DOMAIN heap = Cells

\* Whatever is set, replaced by itself, set to NULL, copied and destroyed, every object
\* on the heap is the value of one key of one dictionary: nothing leaks, and nothing is
\* freed that a dictionary, or the copy of one, still holds.
Holders(c) ==
  {p \in Names \X UNION {DOMAIN dicts[d].keys : d \in Names} :
     p[2] \in DOMAIN dicts[p[1]].keys /\ dicts[p[1]].vals[p[2]] = c}
ValueOwnedOnce == \A c \in Cells : heap[c] # Free <=> Cardinality(Holders(c)) = 1

\* Looking up a key that is missing reads a slot that exists, and it reads NULL there as
\* long as the vectors never grew: the callers take NULL for "not present".
MissingIsNull ==
  \A d \in Names, key \in Keys :
    dicts[d] # NoDict /\ ~HasKey(dicts[d], key) =>
      /\ Position(dicts[d], key) \in DOMAIN dicts[d].vals
      /\ HasGrown(dicts[d]) \/ GetValue2(dicts[d], key) = Null

\* The abstract maps that the dictionaries stand for.
MapOf(dict) ==
  [key \in {k \in Keys : HasKey(dict, k)} |->
     LET val == GetValue2(dict, key) IN IF val = Null THEN Null ELSE heap[val]]

\* Of a key that occurs twice the first one counts.
FirstOf(pairs, key) ==
  CHOOSE i \in 1..Len(pairs) : pairs[i][1] = key /\ \A j \in 1..(i - 1) : pairs[j][1] # key
FileMaps ==
  {[k \in {pairs[i][1] : i \in 1..Len(pairs)} |-> pairs[FirstOf(pairs, k)][2]] : pairs \in ParsedDicts}
AllMaps == [d \in Names |-> IF dicts[d] = NoDict THEN NoMap ELSE MapOf(dicts[d])]
Maps == INSTANCE DictMap WITH maps <- AllMaps

\* The dictionaries behave as independent maps of keys to values, in which a key that
\* is set again keeps one value and a copy is not touched by what happens to its source.
ImplementsMap == Maps!Spec
=============================================================================
