------------------------------ MODULE MCObjReader ------------------------------
(***************************************************************************)
(* ObjReader for TLC: texts of objects of each type, followed by the start  *)
(* of another one, with and without streams, and texts that break off or    *)
(* are damaged.  Beside them the texts of MCParser, whose tokens a caller   *)
(* adds to the parser, which it may clear at any time.                      *)
(***************************************************************************)
EXTENDS MCParser, ObjReader

Zero == Leaf("0")
Two == Leaf("2")
Dict(s) == Obj("dict", s)
Ind(o) == Obj("ind", <<Two, Zero, o>>)

Parts == {Zero, Leaf("/A"), Obj("ref", <<Two, Zero>>)}
Values == Parts \union {Obj("array", s) : s \in SeqOf(Parts, 2)}
                \union {Dict(<<>>), Dict(<<Leaf("/A"), Two>>), Leaf("1"), Leaf("12")}
Described == {Dict(<<>>)} \union {Dict(<<Leaf("/A"), v>>) : v \in Values}

\* Dictionaries with a length.
WithLength == UNION {{Dict(<<Leaf(Length), n>>),
                      Dict(<<Leaf("/A"), v, Leaf(Length), n>>),
                      Dict(<<Leaf(Length), n, Leaf("/A"), v>>)} :
                       n \in {Leaf(tok) : tok \in MCInts},
                       v \in Parts \union {Obj("array", <<Zero>>), Dict(<<Leaf("/A"), Two>>)}}

\* What an object stream holds, and what a file holds at the offset of an object.
ReaderObjects == LET contents == Values \union Described \union WithLength
             IN  contents \union {Ind(o) : o \in contents}

\* The text goes on after the object.
ObjectTexts == {Append(TextOf(o), "2") : o \in ReaderObjects}
StreamTexts == {Append(StreamText(Ind(d)), "2") : d \in WithLength}

\* Other texts: streams with other data than their length says, a keyword of the file,
\* a stream of nothing, brackets and keywords in any order.
Damaged ==
  {<<"<", Length, "1", ">", "stream">> \o rest : rest \in SeqOf({EOL, Byte, "endstream", "1"}, 3)}
  \union {<<"trailer">>, <<Length, "[">>, <<"[", Length, "1", "stream", EOL>>, <<Length, "1", "[", "stream", EOL>>,
         <<Length, "1", "obj", "stream", EOL>>}
  \union SeqOf({"1", "[", "]", "<", ">", "R", "obj", "endobj"}, 3)
  \union {<<"1", "1", "1", "[", "/A", "endobj", c>> : c \in {"]", ">"}}
  \union {<<"1", "/A", "obj", "1", "endobj">>}

ReaderInputs == ObjectTexts \union StreamTexts \union Damaged
MCTargets == {"ind", "dict", AnyType}

\* What TLC explores: reading is over at once for a caller who adds tokens.
AllObjects == MCObjects \union ReaderObjects
AllInputs == MCInputs \union ReaderInputs

Reads == raw \in ReaderInputs /\ RInit

Adds ==
  /\ raw \in MCInputs /\ Init
  /\ source = "caller" /\ target = AnyType
  /\ stream_state = 0 /\ stream_len = 0
  /\ ret = 0 /\ result = NoObj

AddOrClear == source = "caller" /\ Next /\ UNCHANGED <<source, target, reader>>

ReadOrAdd == (Reads \/ Adds) /\ [][RNext \/ AddOrClear]_rvars
=============================================================================
