-------------------------------- MODULE PdfObj --------------------------------
(***************************************************************************)
(* Tokens and objects, as far as the parser tells them apart.  A token is   *)
(* the class the lexer gives it; integers, none of them negative, have a    *)
(* value.  An object is [t |-> type, of |-> parts]: the parts of an array or *)
(* of a dictionary are its objects in order (keys and values in turn), those *)
(* of a reference its numbers, those of an indirect object its numbers and   *)
(* content, that of a stream its dictionary; a leaf has its token.          *)
(***************************************************************************)
EXTENDS Integers, Sequences

CONSTANTS
  Ints,       \* the integer tokens
  IntValue    \* the value of each (atoi)

Length == "/Length"
Names == {"/A", Length}

Strings == {"(1)", "<12>"}
Booleans == {"true", "false"}

\* Tokens that become an object at once.
Leaves == Ints \union Names \union Strings \union Booleans \union {"null"}

\* Keywords that stay on the stack (obj, and f and n outside a table) and tokens
\* that the parser refuses (an unknown word, xref, trailer, startxref).
Kept == {"obj", "n"}
Refused == {"word", "trailer"}

Brackets == {"[", "]", "<", ">"}

Tokens == Leaves \union Kept \union Refused \union Brackets
            \union {"R", "endobj", "stream", "endstream"}

\* A byte of stream data, and the line break after the keyword stream; all other
\* white space is dropped by the lexer options that the readers use.
Byte == "byte"
EOL == "eol"

\* A word is an integer only if it is nothing else.
ASSUME IntsAssumption ==
  /\ IntValue \in [Ints -> Nat]
  /\ Ints \intersect (Names \union Strings \union Booleans \union {"null"} \union Kept \union Refused
       \union Brackets \union {"R", "endobj", "stream", "endstream", Byte, EOL}) = {}

\* enum pindf_pdf_obj_type, without the types that differ only in their leaf.
LeafTypes == {"int", "name", "string", "bool", "null"}
Types == LeafTypes \union {"array", "dict", "ref", "ind", "stream"}

LeafType(tok) ==
  CASE tok \in Ints -> "int" [] tok \in Names -> "name" [] tok \in Strings -> "string"
    [] tok \in Booleans -> "bool" [] OTHER -> "null"

Obj(t, parts) == [t |-> t, of |-> parts]
Leaf(tok) == Obj(LeafType(tok), <<tok>>)
=============================================================================
