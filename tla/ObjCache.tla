------------------------------- MODULE ObjCache -------------------------------
(***************************************************************************)
(* The object table of a document: pindf_doc_getobj reads an object at most *)
(* once, an object of an object stream after the stream that holds it       *)
(* (by a call of itself with the same parser), and owns what it read until  *)
(* pindf_doc_destroy; pindf_deref follows references through it.            *)
(*                                                                         *)
(* A file gives for each number the entry of the xref table: free, an       *)
(* object that is read at its offset, or the number of an object stream.    *)
(* What an object holds is told apart as far as getobj and deref do: a      *)
(* reference, an object stream with its members, or anything else.          *)
(***************************************************************************)
EXTENDS Integers, Sequences, FiniteSets, SequencesExt

CONSTANTS
  Size,       \* doc->xref->size
  Values,     \* what objects are that are no reference and no object stream
  Files,      \* files: functions from numbers to entries
  MaxDeref    \* PINDF_MAX_DEREF_ITER

VARIABLES
  file,     \* the file
  table,    \* doc->ind_obj_list
  heap,     \* the objects that were read, with the number of times each was freed
  calls,    \* the calls of getobj in progress, from the caller's to the innermost
  ret,      \* what the last call returned: a place in heap or Null
  parsers,  \* what the caller's parser and the one of deref's own hold: "clear", "used",
            \* or "stale" if a token on the stack was freed by the reader that failed
  deref,    \* the call of pindf_deref: the object, the steps, the result
  status,   \* "open", "destroyed", "crashed" or "freedTwice"
  asked     \* auxiliary: what the last call of getobj or deref was asked for

vars == <<file, table, heap, calls, ret, parsers, deref, status, asked>>

Nums == 0..(Size - 1)

Null == 0
Waiting == -1      \* ret while the call has not returned

FreeXref == [type |-> "F"]
Offset(obj) == [type |-> "N", obj |-> obj]
Within(num) == [type |-> "C", within |-> num]

Value(v) == [t |-> "value", v |-> v]
RefTo(num) == [t |-> "ref", to |-> num]
ObjStm(items) == [t |-> "objstm", items |-> items]
\* What the reader finds where no object can be parsed.
Unreadable == [t |-> "unreadable"]
\* The indirect object in cell c of the heap, as deref passes it on.
Indirect(c) == [t |-> "ind", cell |-> c]

\* A member of an object stream is no stream, and no reference: the reader of a
\* buffer would return its first number.  What stands at its offset may be no object.
Items == [num : Nat, obj : [t : {"value"}, v : Values] \union {Unreadable}]

Objects ==
  [t : {"value"}, v : Values] \union [t : {"ref"}, to : Nat]
    \union [t : {"objstm"}, items : Seq(Items)] \union {Unreadable}

Entries == {FreeXref} \union [type : {"N"}, obj : Objects] \union [type : {"C"}, within : Nat]

ASSUME SizeAssumption == Size \in Nat \ {0}
ASSUME MaxDerefAssumption == MaxDeref \in Nat

\* Number 0 is no object's: its entry in the table would never count as loaded.
ASSUME FilesAssumption == \A f \in Files : f \in [Nums -> Entries] /\ f[0] = FreeXref

\* calloc
NotLoaded == [available |-> "none", number |-> 0, cell |-> Null]
Loaded(num, c) == [available |-> "available", number |-> num, cell |-> c]
FreeEntry == [available |-> "free", number |-> 0, cell |-> Null]

NoTable == <<>>
NoDeref == [obj |-> Unreadable, steps |-> 0, state |-> "idle"]

Init ==
  /\ file \in Files
  /\ table = NoTable /\ heap = <<>>
  /\ calls = <<>> /\ ret = Null
  /\ parsers = [p \in {"caller", "own"} |-> "clear"]
  /\ deref = NoDeref
  /\ status = "open"
  /\ asked = Unreadable

-----------------------------------------------------------------------------
(* pindf_doc_getobj                                                         *)

Call(num) == [num |-> num, inner |-> FALSE]

Num == Last(calls).num

\* The innermost call was made and has not asked for an object stream.
Entered == status = "open" /\ calls # <<>> /\ ~Last(calls).inner

Return(c) ==
  /\ calls' = Front(calls)
  /\ ret' = c
  /\ UNCHANGED <<file, deref, status, asked>>

\* The parser of the calls in progress.
Whose == IF deref.state = "waiting" THEN "own" ELSE "caller"
Parser == parsers[Whose]

Leaves(holds) == parsers' = [parsers EXCEPT ![Whose] = holds]

\* A reader that failed may have freed the token on top of the stack, or the keyword
\* obj below it.
LeavesFailed == \E holds \in {"used", "stale"} : Leaves(holds)

\* The table is allocated by the first call.
Table == IF table = NoTable THEN [n \in Nums |-> NotLoaded] ELSE table

\* Mutant: no entry counts as loaded.
IsLoadedNever(num) == FALSE

IsLoaded(num) == Table[num].number # 0

\* Mutant: the parser is left with the object that it read.
NotCleared == "used"

\* The parser at the end of a call that gets that far.
Cleared == "clear"

OutOfTable ==
  /\ Entered /\ Num >= Size
  /\ Return(Null)
  /\ UNCHANGED <<table, heap, parsers>>

\* pindf_parser_clear destroys the tokens on the stack, also those that are freed: first
\* thing for an object that is not loaded, at the end for one that is.
ClearsStale ==
  /\ Entered /\ Num < Size /\ Parser = "stale"
  /\ status' = "freedTwice"
  /\ table' = Table
  /\ UNCHANGED <<file, heap, calls, ret, parsers, deref, asked>>

Evaluates == Entered /\ Num < Size /\ ~IsLoaded(Num) /\ Parser # "stale"

Cached ==
  /\ Entered /\ Num < Size /\ IsLoaded(Num) /\ Parser # "stale"
  /\ Return(Table[Num].cell)
  /\ Leaves(Cleared)
  /\ UNCHANGED <<table, heap>>

\* Mutant: the entry is not marked as available.
StoredUnmarked(num, c) == [Table EXCEPT ![num] = [Loaded(num, c) EXCEPT !.available = "none"]]

\* The table with an object that was read.
Stored(num, c) == [Table EXCEPT ![num] = Loaded(num, c)]

\* An object that was read becomes the one of this call.
Keep(obj) ==
  /\ heap' = Append(heap, [obj |-> obj, freed |-> 0])
  /\ table' = Stored(Num, Len(heap'))
  /\ Return(Len(heap'))
  /\ Leaves(Cleared)

\* Returning NULL early.
GiveUp == Return(Null) /\ UNCHANGED heap

ReadFromFile ==
  /\ Evaluates /\ file[Num].type = "N"
  /\ IF file[Num].obj = Unreadable
     THEN GiveUp /\ table' = Table /\ LeavesFailed
     ELSE Keep(file[Num].obj)

IsFree ==
  /\ Evaluates /\ file[Num].type = "F"
  /\ table' = [Table EXCEPT ![Num] = FreeEntry]
  /\ Leaves(Cleared)
  /\ GiveUp

\* The call of itself for the object stream.
AskContainer ==
  /\ Evaluates /\ file[Num].type = "C"
  /\ calls' = Append([calls EXCEPT ![Len(calls)].inner = TRUE], Call(file[Num].within))
  /\ ret' = Waiting
  /\ table' = Table
  /\ Leaves("clear")
  /\ UNCHANGED <<file, heap, deref, status, asked>>

\* The places in an object stream that have the number asked for.
Members(items, num) == {i \in DOMAIN items : items[i].num = num}

\* The search ends at the first one.
Member(items, num) == items[Min(Members(items, num))].obj

\* The object behind the pointer that a call returned.
Answer == IF ret = Null THEN Unreadable ELSE heap[ret].obj

HasMember == Answer.t = "objstm" /\ Members(Answer.items, Num) # {}

\* Back in the call for the member: the parser that goes on reading is the one that
\* the inner call used, and must be empty for the stack to become one object.
FromContainer ==
  /\ status = "open" /\ calls # <<>> /\ Last(calls).inner /\ ret # Waiting
  /\ \/ ~HasMember /\ GiveUp /\ UNCHANGED <<table, parsers>>
     \/ /\ HasMember
        /\ IF Parser # "clear" \/ Member(Answer.items, Num) = Unreadable
           THEN GiveUp /\ LeavesFailed /\ UNCHANGED table
           ELSE Keep(Member(Answer.items, Num))

-----------------------------------------------------------------------------
(* pindf_deref                                                              *)

Dereferences == status = "open" /\ deref.state = "running"

Finish(obj) == deref' = [deref EXCEPT !.obj = obj, !.state = "done"]

\* Mutant: the steps are not counted.
OneStepUncounted == deref.steps

OneStep == deref.steps + 1

\* Mutant: one step fewer.
OverLimitEarly == OneStep >= MaxDeref

OverLimit == OneStep > MaxDeref

\* The end of the loop's body: the limit is looked at before the object is.
GoOn(obj) ==
  IF OverLimit
  THEN Finish(Unreadable) /\ UNCHANGED status
  ELSE IF obj = Unreadable
  THEN status' = "crashed" /\ UNCHANGED deref
  ELSE deref' = [obj |-> obj, steps |-> OneStep, state |-> "running"] /\ UNCHANGED status

\* A reference is looked up with a parser of its own.
DerefRef ==
  /\ Dereferences /\ calls = <<>> /\ deref.obj.t = "ref"
  /\ calls' = <<Call(deref.obj.to)>>
  /\ deref' = [deref EXCEPT !.state = "waiting"]
  /\ ret' = Waiting
  /\ parsers' = [parsers EXCEPT !["own"] = "clear"]
  /\ UNCHANGED <<file, table, heap, status, asked>>

DerefAnswer ==
  /\ status = "open" /\ deref.state = "waiting" /\ calls = <<>>
  /\ GoOn(IF ret = Null THEN Unreadable ELSE Indirect(ret))
  /\ UNCHANGED <<file, table, heap, calls, ret, parsers, asked>>

DerefIndirect ==
  /\ Dereferences /\ deref.obj.t = "ind"
  /\ GoOn(heap[deref.obj.cell].obj)
  /\ UNCHANGED <<file, table, heap, calls, ret, parsers, asked>>

DerefEnd ==
  /\ Dereferences /\ deref.obj.t \notin {"ref", "ind"}
  /\ Finish(deref.obj)
  /\ UNCHANGED <<file, table, heap, calls, ret, parsers, status, asked>>

-----------------------------------------------------------------------------
(* The caller                                                               *)

Idle == status = "open" /\ calls = <<>> /\ deref.state \in {"idle", "done"}

\* The caller goes on with its parser, or makes a new one.
GetObj(num) ==
  /\ Idle
  /\ calls' = <<Call(num)>>
  /\ ret' = Waiting
  /\ deref' = NoDeref
  /\ asked' = RefTo(num)
  /\ parsers' \in {parsers, [parsers EXCEPT !["caller"] = "clear"]}
  /\ UNCHANGED <<file, table, heap, status>>

Deref(obj) ==
  /\ Idle
  /\ deref' = [obj |-> obj, steps |-> 0, state |-> "running"]
  /\ ret' = Null
  /\ asked' = obj
  /\ UNCHANGED <<file, table, heap, calls, parsers, status>>

\* pindf_obj_entry_destroy
Owned == {e \in {Table[n] : n \in Nums} : e.available = "available" /\ e.cell # Null}

\* pindf_doc_destroy
Destroy ==
  /\ Idle
  /\ heap' = [c \in DOMAIN heap |->
                [heap[c] EXCEPT !.freed = @ + Cardinality({e \in Owned : e.cell = c})]]
  /\ table' = NoTable
  /\ status' = "destroyed"
  /\ deref' = NoDeref
  /\ UNCHANGED <<file, calls, ret, parsers, asked>>

Step == OutOfTable \/ ClearsStale \/ Cached \/ ReadFromFile \/ IsFree \/ AskContainer \/ FromContainer
          \/ DerefRef \/ DerefAnswer \/ DerefIndirect \/ DerefEnd

Next ==
  \/ Step \/ Destroy
  \/ \E num \in 0..Size : GetObj(num) \/ Deref(RefTo(num))
  \/ \E c \in DOMAIN heap : Deref(Indirect(c))

\* A call that was made goes on to its end.
Spec == Init /\ [][Next]_vars /\ WF_vars(Step)

-----------------------------------------------------------------------------
(* Properties                                                              *)

\* "Each obj entry corresponds to an entry in xref table; it owns the ind_obj"
\* (pdf/xref.h:63-66): every object that was read belongs to exactly one entry of
\* the table, and destroying the document frees it exactly once.
OwnedOnce ==
  \A c \in DOMAIN heap :
    IF status = "destroyed" THEN heap[c].freed = 1
    ELSE /\ heap[c].freed = 0
         /\ Cardinality({n \in DOMAIN table : table[n].available = "available"
                                                /\ table[n].cell = c}) = 1

\* A pointer that getobj returned stays the object of its number: no later call
\* reads the number again.
StaysLoaded ==
  [][\A n \in DOMAIN table :
       status' # "destroyed" /\ table[n].cell # Null => table'[n] = table[n]]_vars

InFile(n) == IF n < Size /\ file[n].type = "N" THEN file[n].obj ELSE Unreadable

\* What the file says an object is.
Content(n) ==
  IF n < Size /\ file[n].type = "C"
  THEN LET stm == InFile(file[n].within)
       IN  IF stm.t # "objstm" \/ Members(stm.items, n) = {} THEN Unreadable
           ELSE Member(stm.items, n)
  ELSE InFile(n)

\* A call of getobj that returns gives what the file has under the number, whatever was
\* read or cached before and whatever failed: an object of an object stream is read
\* with the parser of the call that read the stream.  A call with a parser on which
\* another one failed may not get that far: the pindf_parser_clear that it begins with
\* frees tokens again (pindf.c:874, "freedTwice"; FreedOnce of Parser is violated so).
GetsWhatTheFileHas ==
  deref = NoDeref /\ calls = <<>> /\ asked.t = "ref" /\ status = "open" =>
    Answer = Content(asked.to)

\* A reference leads to the indirect object that holds what the file has.
Wrapped(obj) == [t |-> "ind", of |-> obj]
Seen(obj) == IF obj.t = "ind" THEN Wrapped(heap[obj.cell].obj) ELSE obj

IsEnd(obj) == obj.t \notin {"ref", "ind"}

LeadsTo(obj) ==
  IF IsEnd(obj) THEN obj ELSE IF obj.t = "ref" THEN Wrapped(Content(obj.to)) ELSE obj.of

\* What the references lead to in k lookups and unwrappings.
Path[k \in 0..MaxDeref] == IF k = 0 THEN Seen(asked) ELSE LeadsTo(Path[k - 1])

\* Dereferencing gives the object that the references of the file lead to, or NULL if
\* it is more than the limit away.
DerefFollows ==
  deref.state = "done" =>
    deref.obj = IF IsEnd(Path[MaxDeref]) THEN Path[MaxDeref] ELSE Unreadable

\* Dereferencing ends, also when references lead in a circle.
DerefEnds == deref.state = "running" ~> (deref.state = "done" \/ status = "crashed")

\* "Dereferenced object, or NULL if not found" (pindf.h:102): a reference to a
\* number without an object gives NULL.
NullIfNotFound == status # "crashed"
=============================================================================
