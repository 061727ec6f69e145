-------------------------------- MODULE ObjText --------------------------------
(***************************************************************************)
(* The text that a writer of PDF produces for an object.  It is written     *)
(* from the outside to the inside: each time, the objects that are still     *)
(* there are replaced by the tokens around their parts, and the parts.       *)
(***************************************************************************)
EXTENDS PdfObj, SequencesExt

\* Bound: objects nest at most so deep.
CONSTANT MaxNest

\* A token as an item of a text that is not fully written yet.
Item(tok) == Obj("token", <<tok>>)
ItemsOf(toks) == [i \in 1..Len(toks) |-> Item(toks[i])]

\* An object, with what is inside left as it is; a token stays.
Unwrapped(obj) ==
  CASE obj.t = "array" -> <<Item("[")>> \o obj.of \o <<Item("]")>>
    [] obj.t = "dict"  -> <<Item("<")>> \o obj.of \o <<Item(">")>>
    [] obj.t = "ref"   -> obj.of \o <<Item("R")>>
    [] obj.t = "ind"   -> <<obj.of[1], obj.of[2], Item("obj"), obj.of[3], Item("endobj")>>
    [] OTHER -> ItemsOf(obj.of)

Expanded(items) == FlattenSeq([i \in 1..Len(items) |-> Unwrapped(items[i])])

\* What has become of the items after n rounds.
Written(items, n) ==
  LET written[k \in 0..n] == IF k = 0 THEN items ELSE Expanded(written[k - 1]) IN written[n]

TextOf(obj) ==
  LET items == Written(<<obj>>, MaxNest) IN [i \in 1..Len(items) |-> items[i].of[1]]

\* An indirect object whose content is the dictionary of a stream, with the stream: as
\* many bytes as the value of /Length says.
WithStream(obj) ==
  Obj("ind", <<obj.of[1], obj.of[2], Obj("stream", <<obj.of[3]>>)>>)
LengthPlaces(toks) == {i \in 1..Len(toks) : toks[i] = Length}
DataLength(toks) == IntValue[toks[(CHOOSE i \in LengthPlaces(toks) : TRUE) + 1]]
StreamText(obj) ==
  LET toks == TextOf(obj)
  IN  Front(toks) \o <<"stream", EOL>> \o [i \in 1..DataLength(toks) |-> Byte]
                  \o <<"endstream", "endobj">>
=============================================================================
