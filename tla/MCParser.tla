------------------------------- MODULE MCParser -------------------------------
(***************************************************************************)
(* Parser for TLC: the texts of small objects nested up to three deep, and  *)
(* every short sequence of tokens.                                          *)
(***************************************************************************)
EXTENDS Parser

\* The integers of this model, with their values.
MCIntValue == [tok \in {"0", "1", "2", "12"} |-> CASE tok = "0" -> 0 [] tok = "1" -> 1 [] tok = "2" -> 2 [] OTHER -> 12]
MCInts == DOMAIN MCIntValue

\* Behind the characters of a token there is a NUL or a 2: 1 may come out as 12, true as
\* false.  Bound: 22 and 02 are not among the integers of this model.
MCSlack == {"NUL", "2"}
MCConverted == [tok \in {"1", "true"} |->
  [behind \in MCSlack |-> IF behind = "NUL" THEN tok ELSE IF tok = "1" THEN "12" ELSE "false"]]

Ref2(obj) == Obj("ref", <<obj, Leaf("0")>>)
Atoms == {Leaf("0"), Leaf("2"), Leaf("/A"), Ref2(Leaf("2"))}

Arrays(os) == {Obj("array", s) : s \in SeqOf(os, 2)}
Dicts(os) == {Obj("dict", <<>>)} \union {Obj("dict", <<Leaf("/A"), o>>) : o \in os}

Flat == Atoms \union Arrays(Atoms) \union Dicts(Atoms)
Siblings == Atoms \union {Obj("array", <<>>), Obj("array", <<Leaf("/A")>>)} \union Dicts({Leaf("2")})
Nested == Flat \union Arrays(Siblings) \union {Obj("array", <<o>>) : o \in Flat} \union Dicts(Flat)

\* Objects with leaves that are converted, and what they may be read as.
Ones == {Leaf("1"), Leaf("12")}
Converted1 == Ones \union {Leaf("true"), Leaf("false")} \union {Ref2(o) : o \in Ones}
Converts == LET flat == Converted1 \union Arrays(Converted1) \union Dicts(Converted1)
            IN  flat \union {Obj("ind", <<n, Leaf("0"), o>>) : n \in Ones, o \in flat}

MCObjects == Nested \union Dicts({Obj("array", <<d>>) : d \in Dicts(Flat)})
               \union {Obj("ind", <<Leaf("2"), Leaf("0"), o>>) : o \in Flat \union Dicts(Flat)}
               \union Converts

Alphabet == {"2", "/A", "[", "]", "<", ">", "R", "obj", "endobj", "stream", "word"}

\* Brackets that are open when endobj comes.
Torn == {<<"2", "0", "[", "2", "endobj", c>> : c \in {"]", ">", "2"}}

MCInputs == Legal \union SeqOf(Alphabet, 4) \union Torn
=============================================================================
