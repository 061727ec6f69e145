---------------------------- MODULE ObjCacheProofs ----------------------------
(***************************************************************************)
(* Proofs about the object table.  The inductive invariant relates three   *)
(* things: the table and the heap are inverse to each other, the calls in  *)
(* progress are a walk from member to object stream whose numbers are not  *)
(* loaded, and what a call returned is what the file has.                  *)
(***************************************************************************)
EXTENDS ObjCache, FiniteSetTheorems, SequenceTheorems, TLAPS

\* Induction over the natural numbers.
Numbers == INSTANCE XrefFormatProofs

Places == 1..Len(heap)

\* What the caller's parser and the one of deref's own may hold.
ParserStates == [{"caller", "own"} -> {"clear", "used", "stale"}]
ParsersOK == parsers \in ParserStates

TypeInv ==
  /\ file \in Files
  /\ table = NoTable \/ DOMAIN table = Nums
  /\ heap \in Seq([obj : Objects, freed : Nat])
  /\ calls \in Seq([num : Nat, inner : BOOLEAN])
  /\ ret \in {Waiting, Null} \union Places
  /\ deref \in [obj : Objects \union [t : {"ind"}, cell : Places], steps : Nat,
               state : {"idle", "running", "waiting", "done"}]
  /\ status \in {"open", "destroyed", "crashed", "freedTwice"}

\* An entry is untouched, free, or holds an object, which is the one of the file.
EntryOK(n) ==
  \/ Table[n] \in {NotLoaded, FreeEntry}
  \/ n # 0 /\ \E c \in Places : Table[n] = Loaded(n, c) /\ heap[c].obj = Content(n)

TableOK == \A n \in Nums : EntryOK(n)

\* No two entries share an object, and none is out of reach.
HeapOK ==
  /\ \A m, n \in Nums : Table[m].cell = Table[n].cell /\ Table[n].cell # Null => m = n
  /\ \A c \in Places : heap[c].freed = 0 /\ \E n \in Nums : Table[n] = Loaded(n, c)

\* The call at i waits for an object stream or has just been given it.
InnerOK(i) ==
  /\ calls[i].inner <=> i < Len(calls) \/ ret # Waiting
  /\ calls[i].inner =>
       /\ calls[i].num \in Nums /\ file[calls[i].num].type = "C"
       /\ Table[calls[i].num] \in {NotLoaded, FreeEntry}
  /\ i < Len(calls) => calls[i + 1].num = file[calls[i].num].within

CallsOK ==
  /\ \A i \in 1..Len(calls) : InnerOK(i)
  /\ calls = <<>> => ret # Waiting

\* A number called for twice is in a circle of object streams: then the innermost
\* call goes round in it, and no call returns.
CirclesStay ==
  \A i, j \in 1..Len(calls) : i < j /\ calls[i].num = calls[j].num =>
    ret = Waiting /\ \E k \in 1..(Len(calls) - 1) : calls[k].num = calls[Len(calls)].num

\* The reference that the outermost call of getobj is for, the caller's or deref's.
Wanted == IF deref.state = "idle" THEN asked ELSE deref.obj

\* What a call returned is what the file has, at the end of the outermost call and
\* where a call for a member goes on with its object stream.
AnswerOK ==
  /\ calls # <<>> /\ ret # Waiting =>
       /\ Answer = Content(file[Num].within)
       /\ ret # Null => Parser = "clear"
  /\ calls # <<>> => deref.state \in {"idle", "waiting"} /\ Wanted = RefTo(calls[1].num)
  /\ calls = <<>> /\ deref.state \in {"idle", "waiting"} /\ Wanted.t = "ref" =>
       Answer = Content(Wanted.to)

InUse ==
  /\ TableOK
  /\ HeapOK
  /\ CallsOK
  /\ CirclesStay
  /\ AnswerOK

Gone == calls = <<>> /\ \A c \in Places : heap[c].freed = 1

IInv ==
  /\ TypeInv
  /\ ParsersOK
  /\ status # "destroyed" => InUse
  /\ status = "destroyed" => Gone /\ table = NoTable

-----------------------------------------------------------------------------
(* The table                                                               *)

LEMMA TableIsFunction ==
  ASSUME TypeInv
  PROVE  DOMAIN Table = Nums /\ Table # NoTable
<1>1. 0 \in Nums
  BY SizeAssumption DEF Nums
<1>2. DOMAIN Table = Nums
  BY DEF TypeInv, Table
<1>3. QED
  BY <1>1, <1>2 DEF NoTable

\* An entry counts as loaded exactly when it holds an object.
LEMMA LoadedEntry ==
  ASSUME TypeInv, NEW n \in Nums, EntryOK(n)
  PROVE  /\ ~IsLoaded(n) => Table[n] \in {NotLoaded, FreeEntry}
         /\ IsLoaded(n) => \E c \in Places : Table[n] = Loaded(n, c) /\ heap[c].obj = Content(n)
<1>1. ASSUME Table[n] \in {NotLoaded, FreeEntry} PROVE ~IsLoaded(n)
  BY <1>1 DEF IsLoaded, NotLoaded, FreeEntry
<1>2. ASSUME n # 0, NEW c \in Places, Table[n] = Loaded(n, c), heap[c].obj = Content(n)
      PROVE  IsLoaded(n)
  BY <1>2 DEF IsLoaded, Loaded
<1>3. QED
  <2>1. CASE n # 0 /\ \E c \in Places : Table[n] = Loaded(n, c) /\ heap[c].obj = Content(n)
    BY <1>2, <2>1
  <2>2. CASE Table[n] \in {NotLoaded, FreeEntry}
    <3>1. ~IsLoaded(n)
      BY <1>1, <2>2
    <3>2. QED
      BY <3>1, <2>2
  <2>3. QED
    BY <2>1, <2>2 DEF EntryOK

\* The first member with a number is a value, or no object.
LEMMA MemberIsValue ==
  ASSUME NEW items \in Seq(Items), NEW n, Members(items, n) # {}
  PROVE  Member(items, n) \in [t : {"value"}, v : Values] \union {Unreadable}
<1>1. Members(items, n) \in SUBSET Nat /\ Members(items, n) \subseteq DOMAIN items
  BY DEF Members
<1>2. \E k \in Members(items, n) : \A j \in Members(items, n) : k <= j
  BY <1>1, Numbers!LeastNumber
<1>3. Min(Members(items, n)) \in Members(items, n)
  BY <1>2 DEF Min
<1>4. items[Min(Members(items, n))] \in Items
  BY <1>1, <1>3
<1>5. QED
  BY <1>4 DEF Member, Items

LEMMA ContentIsObject ==
  ASSUME TypeInv, NEW n \in Nat
  PROVE  /\ Content(n) \in Objects
         /\ n \in Nums /\ file[n].type = "C" => Content(n).t # "objstm"
<1>1. file \in [Nums -> Entries]
  BY FilesAssumption DEF TypeInv
<1>2. ASSUME NEW m \in Nat PROVE InFile(m) \in Objects
  <2>1. CASE m < Size /\ file[m].type = "N"
    <3>1. m \in Nums
      BY <2>1, SizeAssumption DEF Nums
    <3>2. file[m] \in [type : {"N"}, obj : Objects]
      BY <1>1, <3>1, <2>1 DEF Entries, FreeXref
    <3>3. QED
      BY <2>1, <3>2 DEF InFile
  <2>2. QED
    BY <2>1 DEF InFile, Objects
<1>3. CASE n < Size /\ file[n].type = "C"
  <2>1. n \in Nums
    BY <1>3, SizeAssumption DEF Nums
  <2>2. file[n].within \in Nat
    BY <1>1, <2>1, <1>3 DEF Entries, FreeXref
  <2> DEFINE stm == InFile(file[n].within)
  <2>3. stm \in Objects
    BY <1>2, <2>2
  <2> HIDE DEF stm
  <2>4. CASE stm.t # "objstm" \/ Members(stm.items, n) = {}
    <3>1. Content(n) = Unreadable
      BY <1>3, <2>4 DEF Content, stm
    <3>2. QED
      BY <3>1 DEF Objects, Unreadable
  <2>5. CASE stm.t = "objstm" /\ Members(stm.items, n) # {}
    <3>1. stm.items \in Seq(Items)
      BY <2>3, <2>5 DEF Objects, Unreadable
    <3>2. Member(stm.items, n) \in [t : {"value"}, v : Values] \union {Unreadable}
      BY <3>1, <2>5, MemberIsValue
    <3>3. Content(n) = Member(stm.items, n)
      BY <1>3, <2>5 DEF Content, stm
    <3>4. QED
      BY <3>2, <3>3 DEF Objects, Unreadable
  <2>6. QED
    BY <2>4, <2>5
<1>4. CASE ~(n < Size /\ file[n].type = "C")
  BY <1>2, <1>4, SizeAssumption DEF Content, Nums
<1>5. QED
  BY <1>3, <1>4

\* Storing an object that was not loaded keeps the table and the heap inverse.
LEMMA StoreKeeps ==
  ASSUME TypeInv, InUse, NEW n \in Nums, n # 0, ~IsLoaded(n), NEW obj \in Objects,
         obj = Content(n), heap' = Append(heap, [obj |-> obj, freed |-> 0]),
         table' = Stored(n, Len(heap')), file' = file
  PROVE  /\ heap' \in Seq([obj : Objects, freed : Nat]) /\ Len(heap') = Len(heap) + 1
         /\ heap'[Len(heap')].obj = Content(n)
         /\ \A c \in Places : heap'[c] = heap[c]
         /\ DOMAIN table' = Nums
         /\ \A m \in Nums : m # n => Table'[m] = Table[m]
         /\ TableOK' /\ HeapOK'
<1> DEFINE new == Len(heap) + 1
<1>1. /\ heap' \in Seq([obj : Objects, freed : Nat]) /\ Len(heap') = new
      /\ heap'[new] = [obj |-> obj, freed |-> 0]
      /\ \A c \in Places : heap'[c] = heap[c]
      /\ Places' = 1..new /\ Places = 1..Len(heap) /\ new \in Nat /\ Len(heap) \in Nat
  BY DEF TypeInv, Places
<1>2. DOMAIN Table = Nums /\ Table # NoTable
  BY TableIsFunction
<1>3. table' = [Table EXCEPT ![n] = Loaded(n, new)] /\ Nums # {}
  BY <1>1 DEF Stored
<1>4. Table' = table' /\ DOMAIN table' = Nums
  BY <1>2, <1>3 DEF Table, NoTable
<1>5. Table'[n] = Loaded(n, new) /\ \A m \in Nums : m # n => Table'[m] = Table[m]
  BY <1>2, <1>3, <1>4
<1>6. \A m : Content(m)' = Content(m)
  BY DEF Content, InFile
<1>7. ASSUME NEW m \in Nums PROVE EntryOK(m)'
  <2>1. CASE m = n
    BY <2>1, <1>1, <1>5, <1>6 DEF EntryOK
  <2>2. CASE m # n
    <3>1. EntryOK(m)
      BY DEF InUse, TableOK
    <3>2. CASE Table[m] \in {NotLoaded, FreeEntry}
      BY <3>2, <2>2, <1>5 DEF EntryOK
    <3>3. CASE m # 0 /\ \E c \in Places : Table[m] = Loaded(m, c) /\ heap[c].obj = Content(m)
      <4>1. PICK c \in Places : Table[m] = Loaded(m, c) /\ heap[c].obj = Content(m)
        BY <3>3
      <4>2. c \in Places' /\ Table'[m] = Loaded(m, c) /\ heap'[c].obj = Content(m)'
        BY <4>1, <1>1, <1>5, <1>6, <2>2
      <4>3. QED
        BY <3>3, <4>2 DEF EntryOK
    <3>4. QED
      BY <3>1, <3>2, <3>3 DEF EntryOK
  <2>3. QED
    BY <2>1, <2>2
<1>8. TableOK'
  BY <1>7 DEF TableOK
<1>9. \A m \in Nums : Table[m].cell \in Places \union {Null}
  <2>1. ASSUME NEW m \in Nums PROVE Table[m].cell \in Places \union {Null}
    <3>1. EntryOK(m)
      BY DEF InUse, TableOK
    <3>2. CASE Table[m] \in {NotLoaded, FreeEntry}
      BY <3>2 DEF NotLoaded, FreeEntry
    <3>3. ASSUME NEW c \in Places, Table[m] = Loaded(m, c)
          PROVE  Table[m].cell \in Places \union {Null}
      BY <3>3 DEF Loaded
    <3>4. QED
      BY <3>1, <3>2, <3>3 DEF EntryOK
  <2>2. QED
    BY <2>1
<1>10. Table'[n].cell = new /\ new \notin Places \union {Null}
  BY <1>1, <1>5 DEF Loaded, Null
<1>11. ASSUME NEW k \in Nums, NEW m \in Nums, Table'[k].cell = Table'[m].cell, Table'[m].cell # Null
       PROVE  k = m
  <2>1. CASE k = n \/ m = n
    BY <2>1, <1>5, <1>9, <1>10, <1>11
  <2>2. CASE k # n /\ m # n
    BY <2>2, <1>5, <1>11 DEF InUse, HeapOK
  <2>3. QED
    BY <2>1, <2>2
<1>12. ASSUME NEW c \in Places'
       PROVE  heap'[c].freed = 0 /\ \E m \in Nums : Table'[m] = Loaded(m, c)
  <2>1. CASE c = new
    BY <2>1, <1>1, <1>5
  <2>2. CASE c # new
    <3>1. c \in Places
      BY <2>2, <1>1
    <3>2. PICK m \in Nums : heap[c].freed = 0 /\ Table[m] = Loaded(m, c)
      BY <3>1 DEF InUse, HeapOK
    <3>3. m # n
      <4>1. Table[n].cell = Null
        BY LoadedEntry DEF InUse, TableOK, NotLoaded, FreeEntry
      <4>2. QED
        BY <4>1, <3>1, <3>2, <1>1 DEF Loaded, Null
    <3>4. QED
      BY <3>1, <3>2, <3>3, <1>1, <1>5
  <2>3. QED
    BY <2>1, <2>2
<1>13. HeapOK'
  BY <1>11, <1>12 DEF HeapOK
<1>14. QED
  BY <1>1, <1>4, <1>5, <1>8, <1>13

-----------------------------------------------------------------------------
(* The calls                                                               *)

LEMMA CallsFacts ==
  ASSUME TypeInv, calls # <<>>
  PROVE  /\ Len(calls) \in Nat \ {0} /\ Last(calls) = calls[Len(calls)]
         /\ \A i \in 1..Len(calls) : calls[i] \in [num : Nat, inner : BOOLEAN]
         /\ Front(calls) \in Seq([num : Nat, inner : BOOLEAN])
         /\ Len(Front(calls)) = Len(calls) - 1
         /\ \A i \in 1..(Len(calls) - 1) : Front(calls)[i] = calls[i]
<1>1. calls \in Seq([num : Nat, inner : BOOLEAN])
  BY DEF TypeInv
<1>2. Len(calls) \in Nat \ {0} /\ Last(calls) = calls[Len(calls)]
  BY <1>1 DEF Last
<1>3. Front(calls) = [i \in 1..(Len(calls) - 1) |-> calls[i]]
  BY DEF Front
<1>4. \A i \in 1..Len(calls) : calls[i] \in [num : Nat, inner : BOOLEAN]
  BY <1>1, ElementOfSeq
<1>5. /\ Front(calls) \in Seq([num : Nat, inner : BOOLEAN])
      /\ Len(Front(calls)) = Len(calls) - 1
  <2> DEFINE n == Len(calls) - 1
  <2>1. n \in Nat /\ Front(calls) \in [1..n -> [num : Nat, inner : BOOLEAN]]
    BY <1>2, <1>3, <1>4
  <2> HIDE DEF n
  <2>2. Front(calls) \in Seq([num : Nat, inner : BOOLEAN])
    BY <2>1, SeqDef
  <2>3. Len(Front(calls)) = n
    BY <2>1, <2>2
  <2>4. QED
    BY <2>2, <2>3 DEF n
<1>6. \A i \in 1..(Len(calls) - 1) : Front(calls)[i] = calls[i]
  BY <1>3
<1>7. QED
  BY <1>2, <1>4, <1>5, <1>6

\* A call that returns is the only one for its number: in a circle of object
\* streams the innermost call is for a number that waits.
LEMMA ReturningCall ==
  ASSUME TypeInv, CallsOK, CirclesStay, calls # <<>>,
         \/ ret # Waiting
         \/ ~(Num \in Nums /\ file[Num].type = "C" /\ Table[Num] \in {NotLoaded, FreeEntry})
  PROVE  \A i, j \in 1..Len(calls) : calls[i].num = calls[j].num => i = j
<1> SUFFICES ASSUME NEW i \in 1..Len(calls), NEW j \in 1..Len(calls),
                    calls[i].num = calls[j].num, i < j
             PROVE  FALSE
  BY CallsFacts
<1>1. PICK k \in 1..(Len(calls) - 1) : ret = Waiting /\ calls[k].num = Num
  BY CallsFacts DEF CirclesStay, Num
<1>2. k \in 1..Len(calls) /\ k < Len(calls)
  BY CallsFacts
<1>3. calls[k].inner
  BY <1>2 DEF CallsOK, InnerOK
<1>4. QED
  BY <1>1, <1>2, <1>3 DEF CallsOK, InnerOK

\* A call that returns what the file has leaves the calls around it in order.
LEMMA ReturnKeeps ==
  ASSUME TypeInv, InUse, calls # <<>>, NEW c \in {Null} \union Places', Return(c),
         \/ ret # Waiting
         \/ ~(Num \in Nums /\ file[Num].type = "C" /\ Table[Num] \in {NotLoaded, FreeEntry}),
         \A m \in Nums : m # Num /\ Table[m] \in {NotLoaded, FreeEntry}
                           => Table'[m] \in {NotLoaded, FreeEntry},
         (IF c = Null THEN Unreadable ELSE heap'[c].obj) = Content(Num),
         parsers' \in ParserStates, c # Null => Parser' = "clear"
  PROVE  /\ calls' \in Seq([num : Nat, inner : BOOLEAN])
         /\ CallsOK' /\ CirclesStay' /\ AnswerOK'
<1> DEFINE n == Len(calls)
<1>1. /\ n \in Nat \ {0} /\ Num = calls[n].num
      /\ calls' \in Seq([num : Nat, inner : BOOLEAN])
      /\ Len(calls') = n - 1
      /\ \A i \in 1..(n - 1) : calls'[i] = calls[i]
      /\ calls' # <<>> => n - 1 \in 1..(n - 1) /\ Num' = calls[n - 1].num
  <2>1. calls' = Front(calls)
    BY DEF Return
  <2>2. calls' # <<>> => n - 1 \in 1..(n - 1) /\ Last(calls') = calls'[n - 1]
    BY <2>1, CallsFacts DEF Last
  <2>3. QED
    BY <2>1, <2>2, CallsFacts DEF Num
<1>2. ret' = c /\ ret' # Waiting
  <2>1. Places' \subseteq Nat
    BY DEF Places
  <2>2. c # Waiting
    BY <2>1 DEF Waiting, Null
  <2>3. QED
    BY <2>2 DEF Return
<1>3. \A i, j \in 1..n : calls[i].num = calls[j].num => i = j
  BY ReturningCall DEF InUse
<1>4. \A i \in 1..(n - 1) : InnerOK(i)
  BY <1>1 DEF InUse, CallsOK
<1>5. ASSUME NEW i \in 1..(n - 1) PROVE InnerOK(i)'
  <2>1. calls[i].inner /\ calls'[i] = calls[i] /\ calls[i].num # Num
    <3>1. i \in 1..n /\ n \in 1..n /\ i < n /\ i # n
      BY <1>1
    <3>2. calls[i].inner
      BY <3>1, <1>4 DEF InnerOK
    <3>3. calls[i].num # Num
      BY <3>1, <1>1, <1>3
    <3>4. QED
      BY <3>2, <3>3, <1>1
  <2>2. file' = file
    BY DEF Return
  <2>3. calls[i].num \in Nums /\ file[calls[i].num].type = "C"
        /\ Table'[calls[i].num] \in {NotLoaded, FreeEntry}
    BY <2>1, <1>4 DEF InnerOK
  <2>4. i < n - 1 => calls'[i + 1].num = file[calls[i].num].within
    <3>1. i < n - 1 => i + 1 \in 1..(n - 1) /\ i < n
      BY <1>1
    <3>2. QED
      BY <3>1, <1>1, <1>4 DEF InnerOK
  <2>5. QED
    BY <1>1, <1>2, <2>1, <2>2, <2>3, <2>4 DEF InnerOK
<1>6. CallsOK'
  BY <1>1, <1>2, <1>5 DEF CallsOK
<1>7. CirclesStay'
  <2>1. ASSUME NEW i \in 1..(n - 1), NEW j \in 1..(n - 1), i < j
        PROVE  calls'[i].num # calls'[j].num
    <3>1. i \in 1..n /\ j \in 1..n /\ i # j
      BY <1>1, <2>1
    <3>2. QED
      BY <3>1, <1>1, <1>3
  <2>2. QED
    BY <1>1, <2>1 DEF CirclesStay
<1>8. Answer' = Content(Num)
  BY <1>2 DEF Answer
<1>9. \A m : Content(m)' = Content(m)
  BY DEF Content, InFile, Return
<1>10. calls' # <<>> => file'[Num'].within = Num
  BY <1>1, <1>4 DEF InnerOK, Return
<1>11. deref.state \in {"idle", "waiting"} /\ Wanted = RefTo(calls[1].num)
  BY DEF InUse, AnswerOK
<1>12. deref' = deref /\ asked' = asked /\ Wanted' = Wanted
  BY DEF Return, Wanted
<1>13. calls' = <<>> => n = 1
  BY <1>1
<1>14. AnswerOK'
  <2>1. calls' # <<>> => (Answer = Content(file[Num].within))' /\ (ret' # Null => Parser' = "clear")
    <3>1. calls' # <<>> => Content(file[Num].within)' = Content(Num)
      BY <1>9, <1>10
    <3>2. QED
      BY <1>2, <1>8, <3>1
  <2>2. calls' # <<>> => deref'.state \in {"idle", "waiting"} /\ Wanted' = RefTo(calls'[1].num)
    BY <1>1, <1>11, <1>12 DEF RefTo
  <2>3. calls' = <<>> => (Answer = Content(Wanted.to))'
    <3>1. ASSUME calls' = <<>> PROVE Wanted'.to = Num
      <4>1. Wanted' = RefTo(calls[1].num) /\ calls[1].num = Num
        BY <3>1, <1>1, <1>11, <1>12, <1>13
      <4>2. QED
        BY <4>1 DEF RefTo
    <3>2. calls' = <<>> => Content(Wanted.to)' = Content(Num)
      BY <3>1, <1>9
    <3>3. QED
      BY <1>8, <3>2
  <2>4. QED
    BY <2>1, <2>2, <2>3 DEF AnswerOK
<1>15. QED
  BY <1>1, <1>6, <1>7, <1>14

-----------------------------------------------------------------------------
(* The steps of getobj                                                     *)

\* Allocating the table, or leaving it alone, changes no entry.
LEMMA TableKept ==
  ASSUME TypeInv, InUse, table' \in {table, Table}, heap' = heap, file' = file
  PROVE  Table' = Table /\ TableOK' /\ HeapOK' /\ (table' = NoTable \/ DOMAIN table' = Nums)
<1>1. DOMAIN Table = Nums /\ Table # NoTable
  BY TableIsFunction
<1>2. Table' = Table
  BY <1>1 DEF Table
<1>3. \A m : Content(m)' = Content(m)
  BY DEF Content, InFile
<1>4. TableOK' /\ HeapOK'
  BY <1>2, <1>3 DEF InUse, TableOK, EntryOK, HeapOK, Places
<1>5. QED
  BY <1>1, <1>2, <1>4 DEF TypeInv

\* The invariant after a call has returned c.
LEMMA ReturnInv ==
  ASSUME IInv, status = "open", calls # <<>>, NEW c, c \in {Null} \union Places', Return(c),
         \/ ret # Waiting
         \/ ~(Num \in Nums /\ file[Num].type = "C" /\ Table[Num] \in {NotLoaded, FreeEntry}),
         heap' \in Seq([obj : Objects, freed : Nat]), Len(heap') >= Len(heap),
         DOMAIN table' = Nums \/ table' = NoTable,
         \A m \in Nums : m # Num /\ Table[m] \in {NotLoaded, FreeEntry}
                           => Table'[m] \in {NotLoaded, FreeEntry},
         TableOK', HeapOK',
         (IF c = Null THEN Unreadable ELSE heap'[c].obj) = Content(Num),
         parsers' \in ParserStates, c # Null => Parser' = "clear"
  PROVE  IInv'
<1>1. TypeInv /\ InUse
  BY DEF IInv
<1>2. /\ calls' \in Seq([num : Nat, inner : BOOLEAN])
      /\ CallsOK' /\ CirclesStay' /\ AnswerOK'
  BY <1>1, ReturnKeeps
<1>3. Places \subseteq Places'
  BY <1>1 DEF TypeInv, Places
<1>4. file' = file /\ deref' = deref /\ status' = status /\ ret' = c
  BY DEF Return
<1>5. deref' \in [obj : Objects \union [t : {"ind"}, cell : Places'], steps : Nat,
                   state : {"idle", "running", "waiting", "done"}]
  BY <1>1, <1>3, <1>4 DEF TypeInv
<1>6. TypeInv'
  BY <1>1, <1>2, <1>4, <1>5 DEF TypeInv
<1>7. InUse'
  BY <1>2 DEF InUse
<1>8. QED
  BY <1>4, <1>6, <1>7 DEF IInv, ParsersOK

LEMMA NumFacts ==
  ASSUME TypeInv, calls # <<>>
  PROVE  /\ Num \in Nat /\ (Num < Size <=> Num \in Nums)
         /\ file \in [Nums -> Entries] /\ file[0] = FreeXref
<1>1. Num \in Nat
  BY CallsFacts DEF Num
<1>2. QED
  BY <1>1, SizeAssumption, FilesAssumption DEF Nums, TypeInv

\* What a parser holds is kept apart from the other parser.
LEMMA ParserSet ==
  ASSUME ParsersOK, NEW holds \in {"clear", "used", "stale"}, NEW p \in {"caller", "own"}
  PROVE  [parsers EXCEPT ![p] = holds] \in ParserStates
         /\ [parsers EXCEPT ![p] = holds][p] = holds
BY DEF ParsersOK, ParserStates

LEMMA LeavesIs ==
  ASSUME ParsersOK, NEW holds \in {"clear", "used", "stale"}, Leaves(holds)
  PROVE  parsers' \in ParserStates /\ (deref' = deref => Parser' = holds)
<1>1. Whose \in {"caller", "own"} /\ (deref' = deref => Whose' = Whose)
  BY DEF Whose
<1>2. QED
  BY <1>1, ParserSet DEF Leaves, Parser

LEMMA FailedIs == ASSUME ParsersOK, LeavesFailed PROVE parsers' \in ParserStates
BY LeavesIs DEF LeavesFailed

LEMMA OutOfTableInv == IInv /\ OutOfTable => IInv'
<1> SUFFICES ASSUME IInv, OutOfTable PROVE IInv'
  OBVIOUS
<1>1. TypeInv /\ InUse /\ status = "open" /\ calls # <<>> /\ Return(Null)
  BY DEF IInv, OutOfTable, Entered
<1>2. Table' = Table /\ TableOK' /\ HeapOK' /\ (table' = NoTable \/ DOMAIN table' = Nums)
  BY <1>1, TableKept DEF OutOfTable, Return
<1>3. Num \notin Nums /\ Content(Num) = Unreadable
  <2>1. ~(Num < Size)
    BY <1>1, NumFacts, SizeAssumption DEF OutOfTable
  <2>2. QED
    BY <2>1, <1>1, NumFacts DEF Content, InFile
<1>4. heap' = heap /\ heap \in Seq([obj : Objects, freed : Nat]) /\ Len(heap) >= Len(heap)
  BY <1>1 DEF OutOfTable, TypeInv
<1>6. parsers' \in ParserStates
  BY DEF OutOfTable, IInv, ParsersOK
<1>5. QED
  BY <1>1, <1>2, <1>3, <1>4, <1>6, ReturnInv

\* A step that stops everything changes nothing but allocates the table.
LEMMA ClearsStaleInv == IInv /\ ClearsStale => IInv'
<1> SUFFICES ASSUME IInv, ClearsStale PROVE IInv'
  OBVIOUS
<1>1. TypeInv /\ InUse /\ status' = "freedTwice" /\ table' = Table
      /\ UNCHANGED <<file, heap, calls, ret, parsers, deref, asked>>
  BY DEF IInv, ClearsStale, Entered
<1>2. Table' = Table /\ TableOK' /\ HeapOK' /\ (table' = NoTable \/ DOMAIN table' = Nums)
  BY <1>1, TableKept
<1>3. TypeInv'
  BY <1>1, <1>2 DEF TypeInv, Places
<1>4. CallsOK' /\ CirclesStay'
  BY <1>1, <1>2 DEF InUse, CallsOK, InnerOK, CirclesStay
<1>5. AnswerOK'
  BY <1>1 DEF InUse, AnswerOK, Answer, Content, InFile, Num, Wanted, Parser, Whose
<1>6. QED
  BY <1>1, <1>2, <1>3, <1>4, <1>5 DEF IInv, InUse, ParsersOK

LEMMA CachedInv == IInv /\ Cached => IInv'
<1> SUFFICES ASSUME IInv, Cached PROVE IInv'
  OBVIOUS
<1> DEFINE c == Table[Num].cell
<1>1. TypeInv /\ InUse /\ status = "open" /\ calls # <<>> /\ Return(c)
  BY DEF IInv, Cached, Entered
<1>2. Table' = Table /\ TableOK' /\ HeapOK' /\ (table' = NoTable \/ DOMAIN table' = Nums)
  BY <1>1, TableKept DEF Cached, Return
<1>3. Num \in Nums /\ IsLoaded(Num)
  BY <1>1, NumFacts DEF Cached
<1>4. c \in Places /\ heap[c].obj = Content(Num) /\ c # Null
      /\ Table[Num] \notin {NotLoaded, FreeEntry}
  <2>1. PICK d \in Places : Table[Num] = Loaded(Num, d) /\ heap[d].obj = Content(Num)
    BY <1>1, <1>3, LoadedEntry DEF InUse, TableOK
  <2>2. QED
    BY <2>1 DEF Loaded, Places, Null, NotLoaded, FreeEntry
<1>5. heap' = heap /\ heap \in Seq([obj : Objects, freed : Nat]) /\ Len(heap) >= Len(heap)
      /\ Places' = Places
  BY <1>1 DEF Cached, TypeInv, Places
<1>7. parsers' \in ParserStates /\ Parser' = "clear"
  BY LeavesIs DEF IInv, Cached, Return, Cleared
<1> HIDE DEF c
<1>6. QED
  BY <1>1, <1>2, <1>3, <1>4, <1>5, <1>7, ReturnInv

\* An object that was read becomes the one of its number.
LEMMA KeepInv ==
  ASSUME IInv, status = "open", calls # <<>>, Num \in Nums, Num # 0, ~IsLoaded(Num),
         ret # Waiting \/ file[Num].type # "C",
         NEW obj \in Objects, obj = Content(Num), Keep(obj)
  PROVE  IInv'
<1>1. TypeInv /\ InUse /\ ParsersOK
  BY DEF IInv
<1>2. /\ heap' = Append(heap, [obj |-> obj, freed |-> 0])
      /\ table' = Stored(Num, Len(heap'))
      /\ Return(Len(heap')) /\ parsers' \in ParserStates /\ Parser' = "clear"
      /\ file' = file
  BY <1>1, LeavesIs DEF Keep, Cleared, Return
<1>3. /\ heap' \in Seq([obj : Objects, freed : Nat]) /\ Len(heap') = Len(heap) + 1
      /\ heap'[Len(heap')].obj = Content(Num)
      /\ DOMAIN table' = Nums
      /\ \A m \in Nums : m # Num => Table'[m] = Table[m]
      /\ TableOK' /\ HeapOK'
  BY <1>1, <1>2, StoreKeeps
<1>4. Len(heap') \in Places' /\ Len(heap') >= Len(heap) /\ Len(heap') # Null
  BY <1>1, <1>3 DEF TypeInv, Places, Null
<1>5. QED
  BY <1>1, <1>2, <1>3, <1>4, ReturnInv

LEMMA ReadFromFileInv == IInv /\ ReadFromFile => IInv'
<1> SUFFICES ASSUME IInv, ReadFromFile PROVE IInv'
  OBVIOUS
<1>1. TypeInv /\ InUse /\ ParsersOK /\ status = "open" /\ calls # <<>>
  BY DEF IInv, ReadFromFile, Evaluates, Entered
<1>2. Num \in Nums /\ ~IsLoaded(Num) /\ file[Num].type = "N"
  BY <1>1, NumFacts DEF ReadFromFile, Evaluates
<1>3. Num # 0 /\ file[Num].obj \in Objects
  BY <1>1, <1>2, NumFacts DEF Entries, FreeXref
<1>4. Content(Num) = file[Num].obj
  BY <1>1, <1>2, NumFacts DEF Content, InFile
<1>5. CASE file[Num].obj = Unreadable
  <2>1. Return(Null) /\ table' = Table /\ heap' = heap /\ parsers' \in ParserStates
    BY <1>1, <1>5, FailedIs DEF ReadFromFile, GiveUp
  <2>2. Table' = Table /\ TableOK' /\ HeapOK' /\ (table' = NoTable \/ DOMAIN table' = Nums)
    BY <1>1, <2>1, TableKept DEF Return
  <2>3. heap \in Seq([obj : Objects, freed : Nat]) /\ Len(heap) >= Len(heap)
    BY <1>1 DEF TypeInv
  <2>4. QED
    BY <1>1, <1>2, <1>4, <1>5, <2>1, <2>2, <2>3, ReturnInv
<1>6. CASE file[Num].obj # Unreadable
  <2>1. Keep(file[Num].obj)
    BY <1>6 DEF ReadFromFile
  <2>2. QED
    BY <1>1, <1>2, <1>3, <1>4, <2>1, KeepInv
<1>7. QED
  BY <1>5, <1>6

LEMMA IsFreeInv == IInv /\ IsFree => IInv'
<1> SUFFICES ASSUME IInv, IsFree PROVE IInv'
  OBVIOUS
<1>1. TypeInv /\ InUse /\ status = "open" /\ calls # <<>> /\ Return(Null) /\ heap' = heap
      /\ parsers' \in ParserStates
  BY LeavesIs DEF IInv, IsFree, Evaluates, Entered, GiveUp, Cleared, Return
<1>2. Num \in Nums /\ ~IsLoaded(Num) /\ file[Num].type = "F"
  BY <1>1, NumFacts DEF IsFree, Evaluates
<1>3. Content(Num) = Unreadable
  BY <1>2 DEF Content, InFile
<1>4. table' = [Table EXCEPT ![Num] = FreeEntry]
  BY DEF IsFree
<1>5. DOMAIN Table = Nums /\ Table # NoTable
  BY <1>1, TableIsFunction
<1>6. Table' = table' /\ DOMAIN table' = Nums
  BY <1>2, <1>4, <1>5 DEF Table, NoTable
<1>7. Table'[Num] = FreeEntry /\ \A m \in Nums : m # Num => Table'[m] = Table[m]
  BY <1>2, <1>4, <1>5, <1>6
<1>8. \A m : Content(m)' = Content(m)
  BY <1>1 DEF Content, InFile, Return
<1>9. Places' = Places
  BY <1>1 DEF Places
<1>10. TableOK'
  <2>1. ASSUME NEW m \in Nums PROVE EntryOK(m)'
    <3>1. CASE m = Num
      BY <3>1, <1>7 DEF EntryOK
    <3>2. CASE m # Num
      <4>1. Table'[m] = Table[m] /\ EntryOK(m)
        BY <3>2, <1>1, <1>7 DEF InUse, TableOK
      <4>2. QED
        BY <4>1, <1>1, <1>8, <1>9 DEF EntryOK
    <3>3. QED
      BY <3>1, <3>2
  <2>2. QED
    BY <2>1 DEF TableOK
<1>11. Table[Num].cell = Null
  BY <1>1, <1>2, LoadedEntry DEF InUse, TableOK, NotLoaded, FreeEntry
<1>12. HeapOK'
  <2>1. ASSUME NEW k \in Nums, NEW m \in Nums, Table'[k].cell = Table'[m].cell, Table'[m].cell # Null
        PROVE  k = m
    <3>1. k # Num /\ m # Num
      BY <2>1, <1>7 DEF FreeEntry
    <3>2. QED
      BY <2>1, <3>1, <1>1, <1>7 DEF InUse, HeapOK
  <2>2. ASSUME NEW c \in Places PROVE heap[c].freed = 0 /\ \E m \in Nums : Table'[m] = Loaded(m, c)
    <3>1. PICK m \in Nums : heap[c].freed = 0 /\ Table[m] = Loaded(m, c)
      BY <1>1 DEF InUse, HeapOK
    <3>2. m # Num
      BY <3>1, <1>11 DEF Loaded, Places, Null
    <3>3. QED
      BY <3>1, <3>2, <1>7
  <2>3. QED
    BY <2>1, <2>2, <1>1, <1>9 DEF HeapOK
<1>13. heap \in Seq([obj : Objects, freed : Nat]) /\ Len(heap) >= Len(heap)
  BY <1>1 DEF TypeInv
<1>14. QED
  BY <1>1, <1>2, <1>3, <1>6, <1>7, <1>10, <1>12, <1>13, ReturnInv

LEMMA AskContainerInv == IInv /\ AskContainer => IInv'
<1> SUFFICES ASSUME IInv, AskContainer PROVE IInv'
  OBVIOUS
<1> DEFINE n == Len(calls)
           within == file[Num].within
<1>1. /\ TypeInv /\ InUse /\ status = "open" /\ calls # <<>> /\ ~Last(calls).inner
      /\ file[Num].type = "C" /\ ret' = Waiting /\ table' = Table
      /\ file' = file /\ heap' = heap /\ deref' = deref /\ status' = status /\ asked' = asked
      /\ parsers' \in ParserStates
  BY LeavesIs DEF IInv, AskContainer, Evaluates, Entered
<1>2. Num \in Nums /\ ~IsLoaded(Num) /\ within \in Nat
  BY <1>1, NumFacts DEF AskContainer, Evaluates, Entries, FreeXref
<1>3. /\ n \in Nat \ {0} /\ Num = calls[n].num /\ Last(calls) = calls[n]
      /\ calls \in Seq([num : Nat, inner : BOOLEAN])
      /\ \A i \in 1..n : calls[i] \in [num : Nat, inner : BOOLEAN]
  BY <1>1, CallsFacts DEF Num, TypeInv
<1>4. Table' = Table /\ TableOK' /\ HeapOK' /\ (table' = NoTable \/ DOMAIN table' = Nums)
  BY <1>1, TableKept
<1>5. Table[Num] \in {NotLoaded, FreeEntry}
  BY <1>1, <1>2, LoadedEntry DEF InUse, TableOK
<1> DEFINE waits == [calls EXCEPT ![n].inner = TRUE]
<1>6. /\ waits \in Seq([num : Nat, inner : BOOLEAN]) /\ Len(waits) = n
      /\ waits[n] = [num |-> Num, inner |-> TRUE]
      /\ \A i \in 1..(n - 1) : waits[i] = calls[i]
  <2> DEFINE e == [calls[n] EXCEPT !.inner = TRUE]
  <2>1. n \in 1..n /\ calls[n] \in [num : Nat, inner : BOOLEAN] /\ calls[n].num = Num
    BY <1>3
  <2>2. e = [num |-> Num, inner |-> TRUE] /\ e \in [num : Nat, inner : BOOLEAN]
    <3>1. e \in [num : Nat, inner : BOOLEAN] /\ e.num = Num /\ e.inner = TRUE
      BY <2>1
    <3> HIDE DEF e
    <3>2. e = [num |-> e.num, inner |-> e.inner]
      BY <3>1
    <3>3. QED
      BY <3>1, <3>2
  <2>3. waits = [calls EXCEPT ![n] = e]
    BY <1>3
  <2>4. \A i \in 1..(n - 1) : i \in 1..n /\ i # n
    BY <1>3
  <2> HIDE DEF e, waits
  <2>5. /\ waits \in Seq([num : Nat, inner : BOOLEAN]) /\ Len(waits) = n
        /\ \A i \in 1..n : waits[i] = IF i = n THEN e ELSE calls[i]
    BY <1>3, <2>1, <2>2, <2>3, ExceptSeq
  <2>6. QED
    BY <2>1, <2>2, <2>4, <2>5
<1>7. calls' = Append(waits, Call(within))
  BY DEF AskContainer
<1> HIDE DEF waits, within
<1>8. /\ calls' \in Seq([num : Nat, inner : BOOLEAN]) /\ Len(calls') = n + 1
      /\ calls'[n + 1] = [num |-> within, inner |-> FALSE]
      /\ calls'[n] = [num |-> Num, inner |-> TRUE]
      /\ \A i \in 1..(n - 1) : calls'[i] = calls[i]
  BY <1>2, <1>3, <1>6, <1>7 DEF Call
<1>9. \A i \in 1..n : calls'[i].num = calls[i].num
  <2>1. ASSUME NEW i \in 1..n PROVE calls'[i].num = calls[i].num
    <3>1. i = n \/ i \in 1..(n - 1)
      BY <1>3
    <3>2. CASE i = n
      BY <3>2, <1>3, <1>8
    <3>3. CASE i \in 1..(n - 1)
      BY <3>3, <1>8
    <3>4. QED
      BY <3>1, <3>2, <3>3
  <2>2. QED
    BY <2>1
<1>10. ASSUME NEW i \in 1..(n + 1) PROVE InnerOK(i)'
  <2>1. CASE i = n + 1
    BY <2>1, <1>1, <1>3, <1>8 DEF InnerOK
  <2>2. CASE i = n
    BY <2>2, <1>1, <1>2, <1>3, <1>4, <1>5, <1>8 DEF InnerOK, within
  <2>3. CASE i \in 1..(n - 1)
    <3>1. i \in 1..n /\ i < n /\ i + 1 \in 1..n
      BY <2>3, <1>3
    <3>2. InnerOK(i)
      BY <3>1, <1>1 DEF InUse, CallsOK
    <3>3. calls'[i] = calls[i] /\ calls'[i + 1].num = calls[i + 1].num
      BY <2>3, <3>1, <1>8, <1>9
    <3>4. i < n + 1
      BY <3>1, <1>3
    <3>5. QED
      BY <3>1, <3>2, <3>3, <3>4, <1>1, <1>4, <1>8 DEF InnerOK
  <2>4. QED
    BY <2>1, <2>2, <2>3, <1>3
<1>11. CallsOK'
  BY <1>3, <1>8, <1>10 DEF CallsOK
<1>12. ASSUME NEW i \in 1..(n + 1), NEW j \in 1..(n + 1), i < j, calls'[i].num = calls'[j].num
       PROVE  \E k \in 1..n : calls'[k].num = calls'[n + 1].num
  <2>1. CASE j = n + 1
    BY <2>1, <1>3, <1>12
  <2>2. CASE j # n + 1
    <3>1. i \in 1..n /\ j \in 1..n
      BY <2>2, <1>3, <1>12
    <3>2. PICK k \in 1..(n - 1) : calls[k].num = Num
      BY <3>1, <1>1, <1>3, <1>9, <1>12 DEF InUse, CirclesStay
    <3>3. k \in 1..n /\ k < n /\ k + 1 \in 1..n
      BY <1>3
    <3>4. calls[k + 1].num = within
      BY <3>2, <3>3, <1>1 DEF InUse, CallsOK, InnerOK, within
    <3>5. QED
      BY SMTT(30), <3>3, <3>4, <1>8, <1>9
  <2>3. QED
    BY <2>1, <2>2
<1>13. CirclesStay'
  <2>1. Len(calls') - 1 = n
    BY <1>3, <1>8
  <2>2. QED
    BY <2>1, <1>1, <1>8, <1>12 DEF CirclesStay
<1>14. AnswerOK'
  BY <1>1, <1>3, <1>8, <1>9 DEF InUse, AnswerOK, RefTo, Wanted
<1>15. InUse'
  BY <1>4, <1>11, <1>13, <1>14 DEF InUse
<1>16. TypeInv'
  BY <1>1, <1>4, <1>8 DEF TypeInv, Places
<1>17. QED
  BY <1>1, <1>15, <1>16 DEF IInv, ParsersOK

LEMMA FromContainerInv == IInv /\ FromContainer => IInv'
<1> SUFFICES ASSUME IInv, FromContainer PROVE IInv'
  OBVIOUS
<1> DEFINE n == Len(calls)
           within == file[Num].within
<1>1. TypeInv /\ InUse /\ status = "open" /\ calls # <<>> /\ Last(calls).inner /\ ret # Waiting /\ ParsersOK
  BY DEF IInv, FromContainer
<1>2. n \in 1..n /\ Num = calls[n].num /\ Last(calls) = calls[n]
  BY <1>1, CallsFacts DEF Num
<1>3. Num \in Nums /\ file[Num].type = "C" /\ Table[Num] \in {NotLoaded, FreeEntry}
  BY <1>1, <1>2 DEF InUse, CallsOK, InnerOK
<1>4. Num # 0 /\ within \in Nat /\ Num \in Nat /\ Num < Size
  BY <1>1, <1>3, NumFacts DEF Entries, FreeXref
<1>5. Answer = Content(within) /\ (ret # Null => Parser = "clear")
  BY <1>1 DEF InUse, AnswerOK
<1>6. ~IsLoaded(Num)
  BY <1>3 DEF IsLoaded, NotLoaded, FreeEntry
\* An object stream is no member of another: what the call for it returned was read
\* at its own offset.
<1>7. InFile(within) = IF Answer.t = "objstm" THEN Answer ELSE InFile(within)
  <2>1. CASE within \in Nums /\ file[within].type = "C"
    BY <2>1, <1>1, <1>4, <1>5, ContentIsObject
  <2>2. CASE ~(within \in Nums /\ file[within].type = "C")
    <3>1. ~(within < Size /\ file[within].type = "C")
      BY <2>2, <1>4, SizeAssumption DEF Nums
    <3>2. Content(within) = InFile(within)
      BY <3>1 DEF Content
    <3>3. QED
      BY <3>2, <1>5
  <2>3. QED
    BY <2>1, <2>2
<1>8. InFile(within).t = "objstm" => Answer = InFile(within)
  BY <1>4, <1>5 DEF Content, InFile, Unreadable
<1>9. Content(Num) = IF InFile(within).t # "objstm" \/ Members(InFile(within).items, Num) = {}
                     THEN Unreadable ELSE Member(InFile(within).items, Num)
  BY <1>3, <1>4 DEF Content
<1>10. CASE ~HasMember \/ Parser # "clear" \/ Member(Answer.items, Num) = Unreadable
  <2>1. Return(Null) /\ heap' = heap /\ table' = table /\ parsers' \in ParserStates
    <3>1. \/ GiveUp /\ UNCHANGED <<table, parsers>>
          \/ GiveUp /\ LeavesFailed /\ UNCHANGED table
      BY <1>10 DEF FromContainer
    <3>2. QED
      BY <1>1, <3>1, FailedIs DEF GiveUp, ParsersOK
  <2>2. Table' = Table /\ TableOK' /\ HeapOK' /\ (table' = NoTable \/ DOMAIN table' = Nums)
    BY <1>1, <2>1, TableKept DEF Return
  <2>3. ret = Null => Answer.t # "objstm"
    BY DEF Answer, Unreadable
  <2>4. Content(Num) = Unreadable
    BY <1>5, <1>7, <1>8, <1>9, <1>10, <2>3 DEF HasMember
  <2>5. heap \in Seq([obj : Objects, freed : Nat]) /\ Len(heap) >= Len(heap)
    BY <1>1 DEF TypeInv
  <2>6. QED
    BY <1>1, <2>1, <2>2, <2>4, <2>5, ReturnInv
<1>11. CASE HasMember /\ Parser = "clear" /\ Member(Answer.items, Num) # Unreadable
  <2>1. Keep(Member(Answer.items, Num))
    BY <1>11 DEF FromContainer
  <2>2. InFile(within) = Answer
    BY <1>7, <1>11 DEF HasMember
  <2>3. Content(Num) = Member(Answer.items, Num)
    BY <1>9, <1>11, <2>2 DEF HasMember
  <2>4. Content(Num) \in Objects
    BY <1>1, <1>4, ContentIsObject
  <2>5. QED
    BY <1>1, <1>3, <1>4, <1>6, <2>1, <2>3, <2>4, KeepInv
<1>12. QED
  BY <1>10, <1>11

-----------------------------------------------------------------------------
(* The steps of deref                                                      *)

\* What deref passes on.
Passed == Objects \union [t : {"ind"}, cell : Places]

DerefOK(d) ==
  d \in [obj : Passed, steps : Nat, state : {"idle", "running", "waiting", "done"}]

\* A step of deref that leaves the table and the calls alone.
LEMMA DerefStepInv ==
  ASSUME IInv, status = "open", UNCHANGED <<file, table, heap, calls, ret, parsers, asked>>,
         calls = <<>>, DerefOK(deref'), deref' = deref \/ deref'.state \in {"running", "done"},
         status' \in {"open", "crashed"}
  PROVE  IInv'
<1>1. TypeInv /\ InUse
  BY DEF IInv
<1>2. TypeInv'
  BY <1>1 DEF TypeInv, DerefOK, Passed, Places
<1>3. Table' = Table /\ TableOK' /\ HeapOK'
  BY <1>1, TableKept
<1>4. CallsOK' /\ CirclesStay'
  BY <1>1, <1>3 DEF InUse, CallsOK, InnerOK, CirclesStay
<1>5. AnswerOK'
  <2>1. CASE deref' = deref
    BY <1>1, <2>1 DEF InUse, AnswerOK, Answer, Content, InFile, Num, Wanted
  <2>2. CASE deref'.state \in {"running", "done"}
    BY <2>2 DEF AnswerOK
  <2>3. QED
    BY <2>1, <2>2
<1>6. QED
  BY <1>2, <1>3, <1>4, <1>5 DEF IInv, InUse, ParsersOK

LEMMA GoOnTypes ==
  ASSUME TypeInv, status = "open", NEW obj \in Passed, GoOn(obj), deref.state # "idle"
  PROVE  /\ DerefOK(deref') /\ (deref' = deref \/ deref'.state \in {"running", "done"})
         /\ status' \in {"open", "crashed"}
<1>1. DerefOK(deref)
  BY DEF TypeInv, DerefOK, Passed
<1>2. CASE OverLimit
  <2>1. Unreadable \in Passed
    BY DEF Passed, Objects
  <2>2. QED
    BY <1>1, <1>2, <2>1 DEF GoOn, Finish, DerefOK
<1>3. CASE ~OverLimit /\ obj = Unreadable
  BY <1>1, <1>3 DEF GoOn
<1>4. CASE ~OverLimit /\ obj # Unreadable
  <2>1. OneStep \in Nat
    BY <1>1 DEF OneStep, DerefOK
  <2>2. QED
    BY <1>4, <2>1 DEF GoOn, DerefOK
<1>5. QED
  BY <1>2, <1>3, <1>4

LEMMA DerefAnswerInv == IInv /\ DerefAnswer => IInv'
<1> SUFFICES ASSUME IInv, DerefAnswer PROVE IInv'
  OBVIOUS
<1>1. TypeInv /\ InUse /\ status = "open" /\ deref.state # "idle" /\ calls = <<>>
  BY DEF IInv, DerefAnswer
<1>2. (IF ret = Null THEN Unreadable ELSE Indirect(ret)) \in Passed
  <2>1. ret = Null \/ ret \in Places
    BY <1>1 DEF TypeInv, InUse, CallsOK
  <2>2. QED
    BY <2>1 DEF Passed, Objects, Indirect
<1>3. QED
  BY <1>1, <1>2, GoOnTypes, DerefStepInv DEF DerefAnswer

LEMMA DerefIndirectInv == IInv /\ DerefIndirect => IInv'
<1> SUFFICES ASSUME IInv, DerefIndirect PROVE IInv'
  OBVIOUS
<1>1. TypeInv /\ InUse /\ status = "open" /\ deref.state # "idle" /\ calls = <<>>
  BY DEF IInv, InUse, AnswerOK, DerefIndirect, Dereferences
<1>2. deref.obj \in [t : {"ind"}, cell : Places]
  BY <1>1 DEF TypeInv, DerefIndirect, Objects, Unreadable
<1>3. heap[deref.obj.cell].obj \in Passed
  <2>1. deref.obj.cell \in 1..Len(heap) /\ heap \in Seq([obj : Objects, freed : Nat])
    BY <1>1, <1>2 DEF Places, TypeInv
  <2>2. heap[deref.obj.cell] \in [obj : Objects, freed : Nat]
    BY <2>1, ElementOfSeq
  <2>3. QED
    BY <2>2 DEF Passed
<1>4. QED
  BY <1>1, <1>3, GoOnTypes, DerefStepInv DEF DerefIndirect

LEMMA DerefEndInv == IInv /\ DerefEnd => IInv'
<1> SUFFICES ASSUME IInv, DerefEnd PROVE IInv'
  OBVIOUS
<1>1. TypeInv /\ status = "open" /\ DerefOK(deref) /\ calls = <<>>
  BY DEF IInv, InUse, AnswerOK, DerefEnd, Dereferences, TypeInv, DerefOK, Passed
<1>2. DerefOK(deref') /\ deref'.state \in {"running", "done"}
  BY <1>1 DEF DerefEnd, Finish, DerefOK
<1>3. QED
  BY <1>1, <1>2, DerefStepInv DEF DerefEnd

\* The invariant after an outermost call was made.
LEMMA CallInv ==
  ASSUME IInv, status = "open", calls = <<>>, NEW n \in Nat, calls' = <<Call(n)>>,
         ret' = Waiting, UNCHANGED <<file, table, heap, status>>, DerefOK(deref'),
         parsers' \in ParserStates,
         deref'.state \in {"idle", "waiting"}, Wanted' = RefTo(n)
  PROVE  IInv'
<1>1. TypeInv /\ InUse
  BY DEF IInv
<1>2. /\ calls' \in Seq([num : Nat, inner : BOOLEAN]) /\ Len(calls') = 1
      /\ calls'[1] = [num |-> n, inner |-> FALSE]
  BY DEF Call
<1>3. TypeInv'
  BY <1>1, <1>2 DEF TypeInv, DerefOK, Passed, Places
<1>4. Table' = Table /\ TableOK' /\ HeapOK'
  BY <1>1, TableKept
<1>5. CallsOK' /\ CirclesStay'
  BY <1>2 DEF CallsOK, InnerOK, CirclesStay
<1>6. AnswerOK'
  BY <1>2 DEF AnswerOK
<1>7. QED
  BY <1>3, <1>4, <1>5, <1>6 DEF IInv, InUse, ParsersOK

LEMMA DerefRefInv == IInv /\ DerefRef => IInv'
<1> SUFFICES ASSUME IInv, DerefRef PROVE IInv'
  OBVIOUS
<1>1. TypeInv /\ status = "open" /\ calls = <<>> /\ DerefOK(deref)
  BY DEF IInv, DerefRef, Dereferences, TypeInv, DerefOK, Passed
<1>2. deref.obj \in [t : {"ref"}, to : Nat]
  BY <1>1 DEF DerefOK, DerefRef, Passed, Objects, Unreadable
<1>3. DerefOK(deref') /\ deref'.state = "waiting"
  BY <1>1 DEF DerefRef, DerefOK
<1>6. parsers' \in ParserStates
  BY ParserSet DEF DerefRef, IInv
<1>5. Wanted' = RefTo(deref.obj.to)
  BY <1>1, <1>2, <1>3 DEF DerefRef, DerefOK, Wanted, RefTo
<1>4. QED
  BY <1>1, <1>2, <1>3, <1>5, <1>6, CallInv DEF DerefRef

-----------------------------------------------------------------------------
(* The caller                                                              *)

LEMMA GetObjInv == \A n \in Nat : IInv /\ GetObj(n) => IInv'
<1> SUFFICES ASSUME NEW n \in Nat, IInv, GetObj(n) PROVE IInv'
  OBVIOUS
<1>1. DerefOK(deref') /\ deref'.state = "idle" /\ Wanted' = RefTo(n)
  BY DEF GetObj, NoDeref, DerefOK, Passed, Objects, Wanted
<1>2. parsers' \in ParserStates
  BY ParserSet DEF GetObj, IInv, ParsersOK
<1>3. QED
  BY <1>1, <1>2, CallInv DEF GetObj, Idle

LEMMA DerefInv == \A obj \in Passed : IInv /\ Deref(obj) => IInv'
<1> SUFFICES ASSUME NEW obj \in Passed, IInv, Deref(obj) PROVE IInv'
  OBVIOUS
<1>1. TypeInv /\ InUse /\ status = "open" /\ calls = <<>>
  BY DEF IInv, Deref, Idle
<1>2. DerefOK(deref') /\ deref'.state = "running"
  BY DEF Deref, DerefOK
<1>3. TypeInv'
  BY <1>1, <1>2 DEF Deref, TypeInv, DerefOK, Passed, Places
<1>4. TableOK' /\ HeapOK'
  BY <1>1, TableKept DEF Deref
<1>5. CallsOK' /\ CirclesStay' /\ AnswerOK'
  BY <1>1, <1>2 DEF Deref, CallsOK, InnerOK, CirclesStay, AnswerOK, Null, Waiting
<1>6. QED
  BY <1>1, <1>3, <1>4, <1>5 DEF Deref, IInv, InUse, ParsersOK

\* Each object is in one entry, and so freed once.
LEMMA DestroyInv == IInv /\ Destroy => IInv'
<1> SUFFICES ASSUME IInv, Destroy PROVE IInv'
  OBVIOUS
<1>1. TypeInv /\ InUse /\ status = "open" /\ calls = <<>>
  BY DEF IInv, Destroy, Idle
<1>2. ASSUME NEW c \in Places
      PROVE  Cardinality({e \in Owned : e.cell = c}) = 1
  <2>1. PICK n \in Nums : Table[n] = Loaded(n, c)
    BY <1>1 DEF InUse, HeapOK
  <2>2. c # Null
    BY DEF Places, Null
  <2>3. \A m \in Nums : Table[m].cell = c => m = n
    BY <2>1, <2>2, <1>1 DEF InUse, HeapOK, Loaded
  <2>4. {e \in Owned : e.cell = c} = {Table[n]}
    BY <2>1, <2>2, <2>3 DEF Owned, Loaded
  <2>5. QED
    BY <2>4, FS_Singleton
<1>3. /\ heap' \in Seq([obj : Objects, freed : Nat]) /\ Len(heap') = Len(heap)
      /\ \A c \in Places : heap'[c].freed = 1
  <2> DEFINE new(c) == [heap[c] EXCEPT !.freed = @ + Cardinality({e \in Owned : e.cell = c})]
  <2>1. heap \in Seq([obj : Objects, freed : Nat]) /\ Len(heap) \in Nat /\ DOMAIN heap = 1..Len(heap)
    BY <1>1 DEF TypeInv
  <2>2. ASSUME NEW c \in Places PROVE new(c) \in [obj : Objects, freed : Nat] /\ new(c).freed = 1
    <3>1. heap[c] \in [obj : Objects, freed : Nat] /\ heap[c].freed = 0
      BY <2>1, <1>1, ElementOfSeq DEF Places, InUse, HeapOK
    <3>2. QED
      BY <3>1, <1>2
  <2>3. heap' = [c \in 1..Len(heap) |-> new(c)]
    BY <2>1 DEF Destroy
  <2> HIDE DEF new
  <2>4. heap' \in [1..Len(heap) -> [obj : Objects, freed : Nat]]
    BY <2>2, <2>3 DEF Places
  <2>5. heap' \in Seq([obj : Objects, freed : Nat])
    BY <2>1, <2>4, SeqDef
  <2>6. QED
    BY <2>1, <2>2, <2>3, <2>4, <2>5 DEF Places
<1>4. Gone'
  BY <1>1, <1>3 DEF Gone, Destroy, Places
<1>5. TypeInv'
  <2>1. NoDeref.obj \in Objects /\ DerefOK(deref')
    BY DEF Destroy, NoDeref, DerefOK, Passed, Objects
  <2>2. QED
    BY <1>1, <1>3, <2>1 DEF TypeInv, Destroy, DerefOK, Passed, Places
<1>6. QED
  BY <1>4, <1>5 DEF IInv, Destroy, ParsersOK

LEMMA InitInv == Init => IInv
<1> SUFFICES ASSUME Init PROVE IInv
  OBVIOUS
<1>1. heap = <<>> /\ calls = <<>> /\ Len(heap) = 0 /\ Len(calls) = 0 /\ Places = {}
  BY DEF Init, Places
<1>2. TypeInv
  BY <1>1 DEF Init, TypeInv, NoDeref, Objects, Null
<1>8. ParsersOK
  BY DEF Init, ParsersOK, ParserStates
<1>3. \A n \in Nums : Table[n] = NotLoaded
  BY DEF Init, Table
<1>4. TableOK /\ HeapOK
  BY <1>1, <1>3 DEF TableOK, EntryOK, HeapOK, NotLoaded
<1>5. CallsOK /\ CirclesStay
  BY <1>1 DEF Init, CallsOK, CirclesStay, Null, Waiting
<1>6. AnswerOK
  BY <1>1 DEF Init, AnswerOK, Unreadable, Wanted, NoDeref
<1>7. QED
  BY <1>2, <1>4, <1>5, <1>6, <1>8 DEF Init, IInv, InUse

LEMMA NextInv == IInv /\ [Next]_vars => IInv'
<1> SUFFICES ASSUME IInv, [Next]_vars PROVE IInv'
  OBVIOUS
<1>1. CASE Step
  BY <1>1, OutOfTableInv, ClearsStaleInv, CachedInv, ReadFromFileInv, IsFreeInv, AskContainerInv, FromContainerInv,
     DerefRefInv, DerefAnswerInv, DerefIndirectInv, DerefEndInv DEF Step
<1>2. CASE Destroy
  BY <1>2, DestroyInv
<1>3. ASSUME NEW n \in 0..Size, GetObj(n) \/ Deref(RefTo(n)) PROVE IInv'
  <2>1. n \in Nat /\ RefTo(n) \in Passed
    BY SizeAssumption DEF RefTo, Passed, Objects
  <2>2. QED
    BY <1>3, <2>1, GetObjInv, DerefInv
<1>4. ASSUME NEW c \in DOMAIN heap, Deref(Indirect(c)) PROVE IInv'
  <2>1. Indirect(c) \in Passed
    BY DEF Indirect, Passed, IInv, TypeInv, Places
  <2>2. QED
    BY <1>4, <2>1, DerefInv
<1>5. CASE UNCHANGED vars
  <2> USE <1>5 DEF vars
  <2>1. TypeInv' /\ (Gone => Gone')
    BY DEF IInv, TypeInv, Gone, Places
  <2>2. ASSUME InUse PROVE TableOK' /\ HeapOK' /\ Table' = Table
    BY <2>2, TableKept DEF IInv
  <2>3. ASSUME InUse PROVE CallsOK' /\ CirclesStay'
    BY <2>2, <2>3 DEF InUse, CallsOK, InnerOK, CirclesStay
  <2>4. ASSUME InUse PROVE AnswerOK'
    <3>1. /\ Answer' = Answer /\ Num' = Num /\ Parser' = Parser /\ Wanted' = Wanted
          /\ \A m : Content(m)' = Content(m)
      BY DEF Answer, Num, Parser, Whose, Wanted, Content, InFile
    <3>2. QED
      BY <2>4, <3>1 DEF InUse, AnswerOK
  <2>5. QED
    BY <2>1, <2>2, <2>3, <2>4 DEF IInv, InUse, ParsersOK
<1>6. QED
  BY <1>1, <1>2, <1>3, <1>4, <1>5 DEF Next

-----------------------------------------------------------------------------
(* What deref has followed so far.                                         *)

\* A reference that is looked up is the object that the path has come to, and an
\* indirect object holds the one that the path comes to next.
FollowInv ==
  deref.state # "idle" =>
    /\ asked \in Passed
    /\ deref.steps \in 0..MaxDeref
    /\ deref.state = "running" => Seen(deref.obj) = Path[deref.steps]
    /\ deref.state = "waiting" => deref.obj.t = "ref" /\ deref.obj = Path[deref.steps]
    /\ DerefFollows

LEMMA PathIs ==
  Path = [k \in 0..MaxDeref |-> IF k = 0 THEN Seen(asked) ELSE LeadsTo(Path[k - 1])]
<1> DEFINE T == {m \in Nat : m <= MaxDeref =>
                   \E p : p = [k \in 0..m |-> IF k = 0 THEN Seen(asked) ELSE LeadsTo(p[k - 1])]}
<1>1. 0 \in T
  <2> DEFINE p == [k \in 0..0 |-> Seen(asked)]
  <2>1. p = [k \in 0..0 |-> IF k = 0 THEN Seen(asked) ELSE LeadsTo(p[k - 1])]
    OBVIOUS
  <2> HIDE DEF p
  <2>2. QED
    BY <2>1
<1>2. ASSUME NEW m \in T PROVE m + 1 \in T
  <2>1. ASSUME m + 1 <= MaxDeref
        PROVE  \E q : q = [k \in 0..(m + 1) |-> IF k = 0 THEN Seen(asked) ELSE LeadsTo(q[k - 1])]
    <3>1. m \in Nat /\ m <= MaxDeref
      BY <2>1, MaxDerefAssumption
    <3>2. PICK p : p = [k \in 0..m |-> IF k = 0 THEN Seen(asked) ELSE LeadsTo(p[k - 1])]
      BY <3>1
    <3> DEFINE q == [k \in 0..(m + 1) |-> IF k <= m THEN p[k] ELSE LeadsTo(p[m])]
    <3>3. \A k \in 0..m : q[k] = p[k]
      BY <3>1
    <3>4. ASSUME NEW k \in 0..(m + 1)
          PROVE  q[k] = IF k = 0 THEN Seen(asked) ELSE LeadsTo(q[k - 1])
      <4>1. CASE k = m + 1
        <5>1. q[k] = LeadsTo(p[m]) /\ q[k - 1] = p[m] /\ k # 0
          BY <4>1, <3>1
        <5>2. QED
          BY <5>1
      <4>2. CASE k \in 0..m
        <5>1. q[k] = p[k] /\ (k # 0 => q[k - 1] = p[k - 1])
          BY <4>2, <3>1
        <5>2. p[k] = IF k = 0 THEN Seen(asked) ELSE LeadsTo(p[k - 1])
          BY <4>2, <3>2
        <5>3. QED
          BY <5>1, <5>2
      <4>3. QED
        BY <4>1, <4>2, <3>1
    <3>5. q = [k \in 0..(m + 1) |-> q[k]]
      OBVIOUS
    <3> HIDE DEF q
    <3>6. q = [k \in 0..(m + 1) |-> IF k = 0 THEN Seen(asked) ELSE LeadsTo(q[k - 1])]
      BY <3>4, <3>5
    <3>7. QED
      BY <3>6
  <2>2. QED
    BY <2>1
<1>3. T = Nat
  <2> HIDE DEF T
  <2>1. T \in SUBSET Nat
    BY DEF T
  <2>2. QED
    BY <2>1, <1>1, <1>2, Numbers!SetInductionOnNat
<1>4. QED
  <2>1. MaxDeref \in T
    BY <1>3, MaxDerefAssumption
  <2>2. \E p : p = [k \in 0..MaxDeref |-> IF k = 0 THEN Seen(asked) ELSE LeadsTo(p[k - 1])]
    BY <2>1
  <2>3. QED
    BY <2>2 DEF Path

LEMMA PathSteps ==
  /\ Path[0] = Seen(asked)
  /\ \A k \in Nat : k < MaxDeref => Path[k + 1] = LeadsTo(Path[k])
<1>1. 0 \in 0..MaxDeref
  BY MaxDerefAssumption
<1>2. ASSUME NEW k \in Nat, k < MaxDeref PROVE Path[k + 1] = LeadsTo(Path[k])
  <2>1. k + 1 \in 0..MaxDeref /\ k + 1 # 0 /\ (k + 1) - 1 = k
    BY <1>2, MaxDerefAssumption
  <2> HIDE DEF Path
  <2>2. QED
    BY <2>1, PathIs
<1>3. QED
  BY <1>1, <1>2, PathIs

\* A path that has come to an end stays there.
LEMMA PathEnds ==
  ASSUME NEW k \in 0..MaxDeref, IsEnd(Path[k])
  PROVE  Path[MaxDeref] = Path[k]
<1> DEFINE T == {m \in Nat : k + m <= MaxDeref => Path[k + m] = Path[k]}
<1>1. 0 \in T
  BY MaxDerefAssumption
<1>2. ASSUME NEW m \in T PROVE m + 1 \in T
  <2>1. ASSUME k + (m + 1) <= MaxDeref PROVE Path[k + (m + 1)] = Path[k]
    <3>1. k + m \in Nat /\ k + m < MaxDeref /\ k + m <= MaxDeref /\ k + (m + 1) = (k + m) + 1
      BY <2>1, MaxDerefAssumption
    <3>2. Path[(k + m) + 1] = LeadsTo(Path[k + m])
      BY <3>1, PathSteps
    <3>3. Path[k + m] = Path[k]
      BY <3>1
    <3>4. QED
      BY <3>1, <3>2, <3>3 DEF LeadsTo
  <2>2. QED
    BY <2>1
<1>3. T = Nat
  <2> HIDE DEF T
  <2>1. T \in SUBSET Nat
    BY DEF T
  <2>2. QED
    BY <2>1, <1>1, <1>2, Numbers!SetInductionOnNat
<1>4. MaxDeref - k \in Nat /\ k + (MaxDeref - k) = MaxDeref /\ MaxDeref <= MaxDeref
  BY MaxDerefAssumption
<1>5. MaxDeref - k \in T
  BY <1>3, <1>4
<1>6. QED
  BY <1>4, <1>5

LEMMA PathStays ==
  ASSUME asked' = asked, file' = file, Seen(asked)' = Seen(asked)
  PROVE  \A k \in 0..MaxDeref : Path'[k] = Path[k]
<1> DEFINE T == {m \in Nat : m <= MaxDeref => Path'[m] = Path[m]}
<1>1. (/\ Path[0] = Seen(asked)
       /\ \A k \in Nat : k < MaxDeref => Path[k + 1] = LeadsTo(Path[k]))'
  BY PathSteps, PTL
<1>2. ASSUME NEW k \in Nat, Path'[k] = Path[k] PROVE LeadsTo(Path[k])' = LeadsTo(Path[k])
  BY <1>2 DEF LeadsTo, Content, InFile
<1>3. 0 \in T
  BY <1>1, PathSteps
<1>4. ASSUME NEW m \in T PROVE m + 1 \in T
  <2>1. ASSUME m + 1 <= MaxDeref PROVE Path'[m + 1] = Path[m + 1]
    <3>1. m \in Nat /\ m < MaxDeref /\ Path'[m] = Path[m]
      BY <2>1, MaxDerefAssumption
    <3>2. Path[m + 1] = LeadsTo(Path[m]) /\ Path'[m + 1] = LeadsTo(Path[m])'
      BY <3>1, <1>1, PathSteps
    <3>3. QED
      BY <3>1, <3>2, <1>2
  <2>2. QED
    BY <2>1
<1>5. T = Nat
  <2> HIDE DEF T
  <2>1. T \in SUBSET Nat
    BY DEF T
  <2>2. QED
    BY <2>1, <1>3, <1>4, Numbers!SetInductionOnNat
<1>6. QED
  BY <1>5, MaxDerefAssumption

\* A step that leaves the call of deref and the objects that were read alone.
LEMMA FollowKept ==
  ASSUME TypeInv, FollowInv, UNCHANGED <<file, asked, deref>>,
         \A c \in Places : c \in Places' /\ heap'[c].obj = heap[c].obj
  PROVE  FollowInv'
<1> SUFFICES ASSUME deref.state # "idle" PROVE FollowInv'
  BY DEF FollowInv
<1>1. \A o \in Passed : o \in Passed' /\ Seen(o)' = Seen(o)
  BY DEF Passed, Seen, Objects, Unreadable
<1>2. asked \in Passed /\ deref.obj \in Passed /\ deref.steps \in 0..MaxDeref
  BY DEF FollowInv, TypeInv, Passed
<1>3. Seen(asked)' = Seen(asked) /\ Seen(deref.obj)' = Seen(deref.obj)
  BY <1>1, <1>2 DEF Seen
<1>4. \A k \in 0..MaxDeref : Path'[k] = Path[k]
  BY <1>3, PathStays
<1>5. MaxDeref \in 0..MaxDeref
  BY MaxDerefAssumption
<1>6. DerefFollows'
  BY <1>4, <1>5 DEF FollowInv, DerefFollows
<1>7. QED
  BY <1>1, <1>2, <1>3, <1>4, <1>6 DEF FollowInv

\* The end of the loop's body, with the object that the path comes to next.
LEMMA FollowGoOn ==
  ASSUME TypeInv, FollowInv, deref.state \in {"running", "waiting"},
         UNCHANGED <<file, heap, asked>>, NEW obj \in Passed, GoOn(obj),
         ~IsEnd(Path[deref.steps]), obj # Unreadable => Seen(obj) = LeadsTo(Path[deref.steps])
  PROVE  FollowInv'
<1> DEFINE k == deref.steps
<1>1. k \in 0..MaxDeref /\ asked \in Passed /\ MaxDeref \in 0..MaxDeref
  BY MaxDerefAssumption DEF FollowInv
<1>2. \A o : Seen(o)' = Seen(o)
  BY DEF Seen
<1>3. \A i \in 0..MaxDeref : Path'[i] = Path[i]
  BY PathStays DEF Seen
<1>4. asked' \in Passed'
  BY <1>1 DEF Passed, Places
<1>5. CASE OverLimit
  <2>1. k = MaxDeref
    BY <1>1, <1>5, MaxDerefAssumption DEF OverLimit, OneStep
  <2>2. deref'.obj = Unreadable /\ deref'.steps = k /\ deref'.state = "done"
    BY <1>5 DEF GoOn, Finish, TypeInv
  <2>3. DerefFollows'
    BY <1>1, <1>3, <2>1, <2>2 DEF DerefFollows
  <2>4. QED
    BY <1>1, <1>4, <2>2, <2>3 DEF FollowInv
<1>6. CASE ~OverLimit /\ obj = Unreadable
  <2>1. deref' = deref
    BY <1>6 DEF GoOn
  <2>2. QED
    BY <2>1, FollowKept DEF Places
<1>7. CASE ~OverLimit /\ obj # Unreadable
  <2>1. deref' = [obj |-> obj, steps |-> k + 1, state |-> "running"]
    BY <1>7 DEF GoOn, OneStep
  <2>2. k < MaxDeref /\ k + 1 \in 0..MaxDeref
    BY <1>1, <1>7, MaxDerefAssumption DEF OverLimit, OneStep
  <2>3. Seen(obj)' = Path'[k + 1]
    BY <1>1, <1>2, <1>3, <1>7, <2>2, PathSteps
  <2>4. QED
    BY <1>4, <2>1, <2>2, <2>3 DEF FollowInv, DerefFollows, Seen
<1>8. QED
  BY <1>5, <1>6, <1>7

LEMMA FollowAnswer == IInv /\ FollowInv /\ DerefAnswer => FollowInv'
<1> SUFFICES ASSUME IInv, FollowInv, DerefAnswer PROVE FollowInv'
  OBVIOUS
<1> DEFINE obj == IF ret = Null THEN Unreadable ELSE Indirect(ret)
<1>1. /\ TypeInv /\ InUse /\ calls = <<>> /\ deref.state = "waiting"
      /\ deref.obj.t = "ref" /\ deref.obj = Path[deref.steps]
  BY DEF IInv, DerefAnswer, FollowInv
<1>2. Answer = Content(deref.obj.to)
  BY <1>1 DEF InUse, AnswerOK, Wanted
<1>3. ret = Null \/ ret \in Places
  BY <1>1 DEF TypeInv, InUse, CallsOK
<1>4. obj \in Passed
  BY <1>3 DEF Passed, Objects, Indirect
<1>5. obj # Unreadable => Seen(obj) = LeadsTo(Path[deref.steps])
  BY <1>1, <1>2 DEF Seen, LeadsTo, IsEnd, Indirect, Answer
<1>6. ~IsEnd(Path[deref.steps])
  BY <1>1 DEF IsEnd
<1>7. GoOn(obj) /\ UNCHANGED <<file, heap, asked>>
  BY DEF DerefAnswer
<1> HIDE DEF obj
<1>8. QED
  BY <1>1, <1>4, <1>5, <1>6, <1>7, FollowGoOn

LEMMA FollowIndirect == IInv /\ FollowInv /\ DerefIndirect => FollowInv'
<1> SUFFICES ASSUME IInv, FollowInv, DerefIndirect PROVE FollowInv'
  OBVIOUS
<1> DEFINE obj == heap[deref.obj.cell].obj
<1>1. TypeInv /\ deref.state = "running" /\ deref.obj.t = "ind" /\ Seen(deref.obj) = Path[deref.steps]
  BY DEF IInv, DerefIndirect, Dereferences, FollowInv
<1>2. Path[deref.steps] = Wrapped(obj)
  BY <1>1 DEF Seen
<1>3. obj \in Objects
  <2>1. deref.obj \in [t : {"ind"}, cell : Places]
    BY <1>1 DEF TypeInv, Objects, Unreadable
  <2>2. deref.obj.cell \in 1..Len(heap) /\ heap \in Seq([obj : Objects, freed : Nat])
    BY <1>1, <2>1 DEF Places, TypeInv
  <2>3. heap[deref.obj.cell] \in [obj : Objects, freed : Nat]
    BY <2>2, ElementOfSeq
  <2>4. QED
    BY <2>3
<1>4. GoOn(obj) /\ UNCHANGED <<file, heap, asked>>
  BY DEF DerefIndirect
<1> HIDE DEF obj
<1>5. obj.t # "ind" /\ obj \in Passed
  BY <1>3 DEF Objects, Unreadable, Passed
<1>6. Seen(obj) = LeadsTo(Path[deref.steps]) /\ ~IsEnd(Path[deref.steps])
  BY <1>2, <1>5 DEF Seen, LeadsTo, IsEnd, Wrapped
<1>7. QED
  BY <1>1, <1>4, <1>5, <1>6, FollowGoOn

LEMMA FollowEnd == IInv /\ FollowInv /\ DerefEnd => FollowInv'
<1> SUFFICES ASSUME IInv, FollowInv, DerefEnd PROVE FollowInv'
  OBVIOUS
<1>1. /\ TypeInv /\ deref.state = "running" /\ deref.obj.t \notin {"ref", "ind"}
      /\ Seen(deref.obj) = Path[deref.steps] /\ deref.steps \in 0..MaxDeref /\ asked \in Passed
  BY DEF IInv, DerefEnd, Dereferences, FollowInv
<1>2. Path[deref.steps] = deref.obj /\ IsEnd(Path[deref.steps])
  BY <1>1 DEF Seen, IsEnd
<1>3. Path[MaxDeref] = deref.obj
  BY <1>1, <1>2, PathEnds
<1>4. deref'.obj = deref.obj /\ deref'.steps = deref.steps /\ deref'.state = "done"
  BY <1>1 DEF DerefEnd, Finish, TypeInv
<1>5. Path'[MaxDeref] = Path[MaxDeref]
  <2>1. Seen(asked)' = Seen(asked) /\ MaxDeref \in 0..MaxDeref
    BY MaxDerefAssumption DEF Seen, DerefEnd
  <2>2. QED
    BY <2>1, PathStays DEF DerefEnd
<1>6. DerefFollows'
  BY <1>2, <1>3, <1>4, <1>5 DEF DerefFollows
<1>7. asked' \in Passed'
  BY <1>1 DEF DerefEnd, Passed, Places
<1>8. QED
  BY <1>1, <1>4, <1>6, <1>7 DEF FollowInv

LEMMA FollowRef == IInv /\ FollowInv /\ DerefRef => FollowInv'
<1> SUFFICES ASSUME IInv, FollowInv, DerefRef PROVE FollowInv'
  OBVIOUS
<1>1. /\ TypeInv /\ deref.state = "running" /\ deref.obj.t = "ref"
      /\ Seen(deref.obj) = Path[deref.steps] /\ deref.steps \in 0..MaxDeref /\ asked \in Passed
  BY DEF IInv, DerefRef, Dereferences, FollowInv
<1>2. deref'.obj = deref.obj /\ deref'.steps = deref.steps /\ deref'.state = "waiting"
  BY <1>1 DEF DerefRef, TypeInv
<1>3. Path'[deref.steps] = Path[deref.steps]
  BY <1>1, PathStays DEF Seen, DerefRef
<1>4. asked' \in Passed'
  BY <1>1 DEF DerefRef, Passed, Places
<1>5. QED
  BY <1>1, <1>2, <1>3, <1>4 DEF FollowInv, DerefFollows, Seen

LEMMA FollowDeref == \A obj \in Passed : IInv /\ FollowInv /\ Deref(obj) => FollowInv'
<1> SUFFICES ASSUME NEW obj \in Passed, IInv, FollowInv, Deref(obj) PROVE FollowInv'
  OBVIOUS
<1>1. (/\ Path[0] = Seen(asked)
       /\ \A k \in Nat : k < MaxDeref => Path[k + 1] = LeadsTo(Path[k]))'
  BY PathSteps, PTL
<1>2. asked' = obj /\ deref' = [obj |-> obj, steps |-> 0, state |-> "running"] /\ heap' = heap
  BY DEF Deref
<1>3. 0 \in 0..MaxDeref /\ asked' \in Passed'
  BY <1>2, MaxDerefAssumption DEF Passed, Places
<1>4. QED
  BY <1>1, <1>2, <1>3 DEF FollowInv, DerefFollows, Seen

LEMMA FollowNext == IInv /\ FollowInv /\ [Next]_vars => FollowInv'
<1> SUFFICES ASSUME IInv, FollowInv, [Next]_vars PROVE FollowInv'
  OBVIOUS
<1>1. TypeInv /\ Len(heap) \in Nat
  BY DEF IInv, TypeInv
<1>2. ASSUME UNCHANGED <<file, asked, deref>>, heap' = heap PROVE FollowInv'
  BY <1>1, <1>2, FollowKept DEF Places
<1>3. ASSUME NEW obj, Keep(obj) PROVE FollowInv'
  <2>1. heap' = Append(heap, [obj |-> obj, freed |-> 0]) /\ UNCHANGED <<file, asked, deref>>
    BY <1>3 DEF Keep, Return
  <2>2. \A c \in Places : c \in Places' /\ heap'[c] = heap[c]
    BY <1>1, <2>1 DEF Places, TypeInv
  <2>3. QED
    BY <1>1, <2>1, <2>2, FollowKept
<1>4. CASE OutOfTable \/ ClearsStale \/ Cached \/ IsFree \/ AskContainer
  BY <1>2, <1>4 DEF OutOfTable, ClearsStale, Cached, IsFree, AskContainer, GiveUp, Return
<1>5. CASE ReadFromFile \/ FromContainer
  BY <1>2, <1>3, <1>5 DEF ReadFromFile, FromContainer, GiveUp, Return
<1>6. CASE DerefRef \/ DerefAnswer \/ DerefIndirect \/ DerefEnd
  BY <1>6, FollowRef, FollowAnswer, FollowIndirect, FollowEnd
<1>7. CASE Destroy \/ \E n \in 0..Size : GetObj(n)
  BY <1>7 DEF Destroy, GetObj, NoDeref, FollowInv
<1>8. ASSUME NEW n \in 0..Size, Deref(RefTo(n)) PROVE FollowInv'
  <2>1. RefTo(n) \in Passed
    BY SizeAssumption DEF RefTo, Passed, Objects
  <2>2. QED
    BY <1>8, <2>1, FollowDeref
<1>9. ASSUME NEW c \in DOMAIN heap, Deref(Indirect(c)) PROVE FollowInv'
  <2>1. Indirect(c) \in Passed
    BY <1>1 DEF Indirect, Passed, TypeInv, Places
  <2>2. QED
    BY <1>9, <2>1, FollowDeref
<1>10. CASE UNCHANGED vars
  BY <1>2, <1>10 DEF vars
<1>11. QED
  BY <1>4, <1>5, <1>6, <1>7, <1>8, <1>9, <1>10 DEF Next, Step

-----------------------------------------------------------------------------
(* Theorems                                                                *)

LEMMA Invariant == Spec => []IInv
<1>1. Init => IInv
  BY InitInv
<1>2. IInv /\ [Next]_vars => IInv'
  BY NextInv
<1>3. QED
  BY <1>1, <1>2, PTL DEF Spec

\* Every object that getobj read belongs to exactly one entry of the table, and
\* destroying the document frees it exactly once, whatever the file refers to,
\* object streams that are members of each other included.
THEOREM EachObjectIsOwnedOnce == Spec => []OwnedOnce
<1>1. ASSUME IInv PROVE OwnedOnce
  <2>1. DOMAIN heap = Places /\ TypeInv
    BY <1>1 DEF IInv, TypeInv, Places
  <2>2. CASE status = "destroyed"
    BY <1>1, <2>1, <2>2 DEF OwnedOnce, IInv, Gone
  <2>3. CASE status # "destroyed"
    <3>1. HeapOK
      BY <1>1, <2>3 DEF IInv, InUse
    <3>2. ASSUME NEW c \in Places
          PROVE  Cardinality({n \in DOMAIN table : table[n].available = "available"
                                                     /\ table[n].cell = c}) = 1
      <4>1. PICK n \in Nums : Table[n] = Loaded(n, c)
        BY <3>1 DEF HeapOK
      <4>2. c # Null
        BY DEF Places, Null
      <4>3. table # NoTable
        BY <4>1, <4>2 DEF Table, Loaded, NotLoaded
      <4>4. Table = table /\ DOMAIN table = Nums
        BY <4>3, <2>1 DEF Table, TypeInv
      <4>5. \A m \in Nums : table[m].cell = c => m = n
        BY <3>1, <4>1, <4>2, <4>4 DEF HeapOK, Loaded
      <4>6. {m \in DOMAIN table : table[m].available = "available" /\ table[m].cell = c} = {n}
        BY <4>1, <4>4, <4>5 DEF Loaded
      <4>7. QED
        BY <4>6, FS_Singleton
    <3>3. QED
      BY <2>1, <2>3, <3>1, <3>2 DEF OwnedOnce, HeapOK
  <2>4. QED
    BY <2>2, <2>3
<1>2. QED
  BY <1>1, Invariant, PTL

\* No step of a getobj, a deref or their caller changes an entry that holds an object:
\* a pointer that getobj returned stays the object of its number until the document
\* is destroyed.
THEOREM LoadedObjectsStay == Spec => StaysLoaded
<1>1. ASSUME IInv, [Next]_vars
      PROVE  \A n \in DOMAIN table :
               status' # "destroyed" /\ table[n].cell # Null => table'[n] = table[n]
  <2> SUFFICES ASSUME NEW n \in DOMAIN table, status' # "destroyed", table[n].cell # Null
               PROVE  table'[n] = table[n]
    BY <1>1
  <2>1. TypeInv /\ table # NoTable /\ n \in Nums /\ Table = table
    BY <1>1 DEF IInv, TypeInv, Table, NoTable
  <2>2. CASE UNCHANGED table
    BY <2>2
  <2>3. CASE ~UNCHANGED table
    <3>1. status = "open" /\ InUse
      BY <1>1, <2>3 DEF IInv, Next, Step, vars, OutOfTable, ClearsStale, Cached, ReadFromFile, IsFree, AskContainer,
            FromContainer, Evaluates, Entered, GiveUp, Keep, Return, DerefRef, DerefAnswer,
            DerefIndirect, DerefEnd, Destroy, Idle, GetObj, Deref
    <3>2. EntryOK(n) /\ IsLoaded(n)
      <4>1. EntryOK(n)
        BY <2>1, <3>1 DEF InUse, TableOK
      <4>2. ~(Table[n] \in {NotLoaded, FreeEntry})
        BY <2>1 DEF NotLoaded, FreeEntry
      <4>3. QED
        BY <4>1, <4>2, <2>1, LoadedEntry
    <3>3. ASSUME Evaluates \/ FromContainer PROVE Num # n
      <4>1. CASE Evaluates
        BY <4>1, <3>2 DEF Evaluates
      <4>2. CASE FromContainer
        <5>1. calls # <<>> /\ Last(calls).inner
          BY <4>2 DEF FromContainer
        <5>2. Len(calls) \in 1..Len(calls) /\ Num = calls[Len(calls)].num /\ Last(calls) = calls[Len(calls)]
          BY <2>1, <5>1, CallsFacts DEF Num
        <5>3. Table[Num] \in {NotLoaded, FreeEntry}
          BY <3>1, <5>1, <5>2 DEF InUse, CallsOK, InnerOK
        <5>4. QED
          BY <5>3, <3>2 DEF IsLoaded, NotLoaded, FreeEntry
      <4>3. QED
        BY <3>3, <4>1, <4>2
    <3>4. CASE ReadFromFile \/ FromContainer \/ IsFree
      <4>1. Num # n
        BY <3>3, <3>4 DEF ReadFromFile, IsFree
      <4>2. \A c : Stored(Num, c)[n] = Table[n]
        BY <4>1, <2>1 DEF Stored
      <4>3. [Table EXCEPT ![Num] = FreeEntry][n] = Table[n]
        BY <4>1, <2>1
      <4>4. QED
        BY <3>4, <4>2, <4>3, <2>1, <2>3 DEF ReadFromFile, FromContainer, IsFree, Keep
    <3>5. CASE AskContainer \/ ClearsStale
      BY <3>5, <2>1 DEF AskContainer, ClearsStale
    <3>6. QED
      BY <1>1, <2>3, <3>4, <3>5 DEF Next, Step, vars, OutOfTable, Cached, DerefRef, DerefAnswer,
            DerefIndirect, DerefEnd, Destroy, GetObj, Deref
  <2>4. QED
    BY <2>2, <2>3
<1>2. QED
  BY <1>1, Invariant, PTL DEF Spec, StaysLoaded

\* A call of getobj that returns gives what the file has under the number, or NULL if the
\* file has none, whatever was read, was not found or was loaded before: in any file
\* whose object streams hold neither streams nor references.  What a call with a parser
\* that holds freed tokens does is left open (ClearsStale).
THEOREM GetObjReadsTheFile == Spec => []GetsWhatTheFileHas
<1>1. ASSUME IInv PROVE GetsWhatTheFileHas
  BY <1>1 DEF IInv, InUse, AnswerOK, GetsWhatTheFileHas, NoDeref, Wanted
<1>2. QED
  BY <1>1, Invariant, PTL

\* Dereferencing gives the object that the references of the file lead to, for chains of
\* any length and with circles, or NULL if it is more than the limit away.
THEOREM DerefGivesTheEnd == Spec => []DerefFollows
<1>1. Init => IInv /\ FollowInv
  BY InitInv DEF Init, NoDeref, FollowInv
<1>2. IInv /\ FollowInv /\ [Next]_vars => IInv' /\ FollowInv'
  BY NextInv, FollowNext
<1>3. FollowInv => DerefFollows
  BY DEF FollowInv, DerefFollows
<1>4. QED
  BY <1>1, <1>2, <1>3, PTL DEF Spec
=============================================================================
