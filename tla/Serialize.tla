------------------------------ MODULE Serialize ------------------------------
(***************************************************************************)
(* The characters that core/serialize.c writes to a file for an object      *)
(* (pindf_pdf_obj_serialize_file), and that pindf_doc_save_modif writes      *)
(* around objects.  slack is what stands behind the bytes of a name, up to   *)
(* the next NUL.                                                             *)
(***************************************************************************)
EXTENDS PdfObj, Lexer

\* The value of a key that was set to NULL (pindf_dict_set_value).
NullValue == Obj("NULL", <<>>)

\* The characters of a leaf.  Bound: integers of one digit.
Spell(tok) ==
  CASE tok \in Ints -> <<tok>>
    [] tok = "/A" -> <<"/", "A">> [] tok = Length -> <<"/", "L">>
    [] tok = "(1)" -> <<"(", "1", "(", Backslash, ")", ")", ")">>
    [] tok = "<12>" -> <<"<", "1", "2", ">">>
    [] tok = "null" -> <<"n", "u", "l", "l">>
    [] tok = "true" -> <<"t", "r", "u", "e">> [] tok = "false" -> <<"f", "a", "l", "s", "e">>

NewLine == <<CR, LF>>
Space == <<Blank>>

StreamWord == <<"s", "t", "r", "e", "a", "m">>
EndWord == <<"e", "n", "d">>

\* A name is written up to a NUL, which nothing puts behind its bytes.
NameText(tok, slack) == Spell(tok) \o slack

RECURSIVE FileText(_, _), FilePairs(_, _), FileItems(_, _)

\* The pairs of a dictionary that have a value.
FilePairs(parts, slack) ==
  IF parts = <<>> THEN <<>>
  ELSE (IF parts[2] = NullValue THEN <<>>
        ELSE FileText(parts[1], slack) \o Space \o FileText(parts[2], slack) \o Space)
       \o FilePairs(SubSeq(parts, 3, Len(parts)), slack)

\* Mutant: nothing separates the objects.
FileItemsJoined(objs, slack) == FlattenSeq([i \in DOMAIN objs |-> FileText(objs[i], slack)])

FileItems(objs, slack) ==
  FlattenSeq([i \in DOMAIN objs |-> FileText(objs[i], slack) \o Space])

\* The data of a stream, which the lexer does not read, are left out.
FileText(obj, slack) ==
  CASE obj.t = "array" -> <<"[", Blank>> \o FileItems(obj.of, slack) \o <<"]">>
    [] obj.t = "dict" -> <<"<", "<", Blank>> \o FilePairs(obj.of, slack) \o <<">", ">">>
    [] obj.t = "ref" -> FileItems(obj.of, slack) \o <<"R">>
    [] obj.t = "ind" -> FileItems(SubSeq(obj.of, 1, 2), slack) \o <<"o", "b", "j">> \o NewLine
                          \o FileText(obj.of[3], slack) \o NewLine
                          \o EndWord \o <<"o", "b", "j">> \o NewLine
    [] obj.t = "stream" -> FileText(obj.of[1], slack) \o NewLine \o StreamWord \o NewLine
                             \o NewLine \o EndWord \o StreamWord
    [] obj.t = "name" -> NameText(obj.of[1], slack)
    [] OTHER -> Spell(obj.of[1])

-----------------------------------------------------------------------------
(* A section of a cross-reference table (_write_xref_section)               *)

Numeral(n) == CASE n = 0 -> <<"0">> [] n = 1 -> <<"1">> [] n = 2 -> <<"2">>

\* "%010zu %05d n": numbers of a fixed width, two places here.
Padded(n) == <<"0">> \o Numeral(n)

EntryLine(entry) ==
  Padded(entry[1]) \o Space \o Padded(entry[2]) \o Space \o <<"n">> \o NewLine

SectionText(first, entries) ==
  Numeral(first) \o Space \o Numeral(Len(entries)) \o NewLine
    \o FlattenSeq([i \in DOMAIN entries |-> EntryLine(entries[i])])

-----------------------------------------------------------------------------
(* The end of a saved file                                                  *)

TailText(offset) ==
  NewLine \o <<"s", "t", "a", "r", "t", "x", "r", "e", "f">> \o NewLine
    \o Numeral(offset) \o NewLine \o <<"%", "%", "E", "O", "F", LF>>
=============================================================================
