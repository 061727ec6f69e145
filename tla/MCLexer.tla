------------------------------- MODULE MCLexer -------------------------------
(* Instance for TLC: texts to lex, files to open, and what serialize.c writes. *)
EXTENDS Opening, Serialize, ObjText

CONSTANTS
  Junk,      \* characters that may stand behind the bytes of a name
  Kinds      \* the kinds of texts of this run

\* The integers of the objects that are written, with their values.
MCIntValue == [tok \in {"0", "1", "2"} |-> CASE tok = "0" -> 0 [] tok = "1" -> 1 [] OTHER -> 2]
MCInts == DOMAIN MCIntValue

Text(kind, chars, of) == [kind |-> kind, chars |-> chars, of |-> of]

-----------------------------------------------------------------------------
(* Texts of every order of characters, one of each class                    *)

Chars == {Blank, CR, LF, "(", ")", "<", ">", "[", "/", "%", Backslash, "a"}
Of3(S) == {<<a, b, c>> : a \in S, b \in S, c \in S}
Of5(S) == {<<a, b, c, d, e>> : a \in S, b \in S, c \in S, d \in S, e \in S}
ShortTexts ==
  {Text("any", chars, <<>>) :
     chars \in UNION {Of3(Chars), Of5({"(", ")", Backslash, "a"}), Of5({"<", ">", Blank, "a"}),
                      Of5({CR, LF, "%", "a"})}}

-----------------------------------------------------------------------------
(* Texts whose tokens are known                                            *)

\* A piece of a text: what makes one token, or white space that makes none.
Piece(event, raw) == [event |-> event, raw |-> raw]
White(chars) == Piece("white", chars)
Eol == Piece("eol", <<>>)

\* The text of pieces, and its words.
Line(pieces) ==
  LET chars(n) == FlattenSeq([i \in 1..n |-> SpelledAs(pieces[i])])
      places == SelectSeq([i \in DOMAIN pieces |-> i], LAMBDA i : pieces[i].event # "white")
      word(i) == [event |-> pieces[i].event, raw |-> pieces[i].raw, at |-> Len(chars(i - 1)) + 1]
  IN  Text("tokens", chars(Len(pieces)), [k \in DOMAIN places |-> word(places[k])])

\* The last two just fit the buffer, or do not.
MCWords ==
  {Piece("regular", <<"-", "1">>), Piece("regular", <<"R">>), Piece("name", <<"/", "a">>),
   Piece("string", <<Backslash, ")", "(", "a", ")">>), Piece("string", <<>>),
   Piece("hex", <<"1", "a">>), Piece("hex", <<>>), Piece("delim", <<"<", "<">>),
   Piece("delim", <<">", ">">>), Piece("delim", <<"[">>),
   Piece("regular", [i \in 1..BufSize |-> "a"]), Piece("string", [i \in 1..BufSize + 1 |-> "a"])}
Comment == Piece("comment", <<"a", "(">>)

\* What may stand between two words: a carriage return is a line end only together
\* with a line feed.
LineGaps == {<<White(<<CR>>)>>, <<Eol>>, <<White(<<CR>>), Eol>>, <<Eol, White(<<CR>>)>>}
Gaps == LineGaps \union {<<>>, <<White(<<Blank>>)>>}

MayFollow(word, gap, next) ==
  /\ word.event = "comment" => gap \in LineGaps
  /\ word.event \in {"regular", "name"} /\ next.event = "regular" => gap # <<>>

LegalTexts ==
  {Line(<<v[1]>> \o v[3] \o <<v[2]>> \o v[4]) :
     v \in {u \in (MCWords \union {Comment}) \X MCWords \X Gaps \X Gaps : MayFollow(u[1], u[3], u[2])}}

\* A section of a table as _write_xref_section writes it, up to the keyword trailer.
RegularToken(chars) == Token("regular", chars)
Sections == {<<1, <<<<2, 0>>>>>>, <<0, <<<<1, 0>>, <<2, 1>>>>>>}
SectionPieces(first, entries) ==
  LET number(chars) == <<RegularToken(chars), White(<<Blank>>)>>
      ends(chars) == <<RegularToken(chars), White(<<CR>>), Eol>>
  IN  number(Numeral(first)) \o ends(Numeral(Len(entries)))
        \o FlattenSeq([i \in DOMAIN entries |->
             number(Padded(entries[i][1])) \o number(Padded(entries[i][2])) \o ends(<<"n">>)])
SectionTexts ==
  {[Line(SectionPieces(s[1], s[2])) EXCEPT !.chars = SectionText(s[1], s[2])] : s \in Sections}

-----------------------------------------------------------------------------
(* Objects, as they are written                                            *)

Parts == {Leaf(tok) : tok \in Leaves} \union {Obj("ref", <<Leaf("1"), Leaf("0")>>)}
Arrays == {Obj("array", <<x, y>>) : x \in Parts, y \in Parts} \union {Obj("array", <<>>)}
Dicts == {Obj("dict", <<Leaf("/A"), x, Leaf(Length), y>>) : x \in Parts, y \in Parts \union {NullValue}}
Nested == {Obj("dict", <<Leaf("/A"), x>>) : x \in {Obj("dict", <<>>), Obj("array", <<Leaf("(1)")>>),
                                                   Obj("dict", <<Leaf("/A"), Leaf("/A")>>)}}
Streams == {Obj("stream", <<Obj("dict", <<Leaf(Length), Leaf("0")>>)>>)}
\* The token of the lexer that the parser calls tok.
LexerToken(tok) ==
  CASE tok \in Names -> Token("name", Spell(tok))
    [] tok = "(1)" -> Token("string", <<"1", "(", Backslash, ")", ")">>)
    [] tok = "<12>" -> Token("hex", <<"1", "2">>)
    [] tok \in {"[", "]"} -> Token("delim", <<tok>>)
    [] tok \in {"<", ">"} -> Token("delim", <<tok, tok>>)
    [] tok = "0" -> RegularToken(<<"0">>) [] tok = "R" -> RegularToken(<<"R">>) [] tok = "obj" -> RegularToken(<<"o", "b", "j">>)
    [] tok = "endobj" -> RegularToken(EndWord \o <<"o", "b", "j">>)
    [] tok = "stream" -> RegularToken(StreamWord) [] tok = "endstream" -> RegularToken(EndWord \o StreamWord)
    [] OTHER -> RegularToken(Spell(tok))

\* What stays of a dictionary when it is written: the pairs that have a value.
WithValue(parts) == IF Len(parts) = 4 /\ parts[4] = NullValue THEN SubSeq(parts, 1, 2) ELSE parts
Saved(obj) == IF obj.t = "dict" THEN Obj("dict", WithValue(obj.of)) ELSE obj
SavedText(number, gen, content) ==
  IF content.t = "stream" THEN StreamText(Obj("ind", <<number, gen, content.of[1]>>))
                          ELSE TextOf(Obj("ind", <<number, gen, Saved(content)>>))
ObjectTokens(obj) ==
  LET toks == SelectSeq(SavedText(obj.of[1], obj.of[2], obj.of[3]), LAMBDA tok : tok # EOL)
  IN  [i \in DOMAIN toks |-> LexerToken(toks[i])]

WrittenText(content, behind) ==
  LET obj == Obj("ind", <<Leaf("1"), Leaf("0"), content>>) IN Text("object", FileText(obj, behind), obj)
WrittenOf(contents) ==
  {WrittenText(x, behind) : x \in contents, behind \in {<<>>} \union {<<c>> : c \in Junk}}
WrittenTexts == UNION {WrittenOf(Parts), WrittenOf(Arrays), WrittenOf(Dicts), WrittenOf(Nested), WrittenOf(Streams)}

MCTexts ==
  {t \in UNION {ShortTexts, LegalTexts, SectionTexts, WrittenTexts} : t.kind \in Kinds}

-----------------------------------------------------------------------------
(* Files: a first line, an object, and an end                              *)

FirstLines == {<<"%", "P">> \o end : end \in {<<CR>>, <<LF>>, <<CR, LF>>}} \union {<<>>}
Body == FileText(Obj("ind", <<Leaf("1"), Leaf("0"), Obj("array", <<>>)>>), <<>>)
Ends == {<<CR>>, <<LF>>, <<CR, LF>>}
OtherTail(offset, end, last) ==
  end \o Startxref \o end \o Numeral(offset) \o end \o <<"%", "E">> \o last

\* A finished file, with what follows its end: it can be opened when the white space
\* before the keyword is in the window.  A file that was cut off in its tail cannot.
Finished(first, tail, offset, trailing) ==
  Text("file", first \o Body \o tail \o [i \in 1..trailing |-> Blank],
       IF Len(tail) + trailing <= Window THEN Numeral(offset) ELSE <<>>)
Trailing(tail) == {0} \union (Window - Len(tail))..(Window + 1 - Len(tail))

MCFiles ==
  UNION {{Finished(first, tail, 1, n) : first \in FirstLines, n \in Trailing(tail)} :
           tail \in {OtherTail(1, end, last) : end \in Ends, last \in Ends \union {<<>>}}}
  \union {Finished(first, TailText(2), 2, 0) : first \in FirstLines}
  \union {Text("file", Body \o SubSeq(TailText(2), 1, n), <<>>) : n \in 0..14}

-----------------------------------------------------------------------------
(* Properties                                                              *)

\* An indirect object that was saved has the tokens of that object when the file is
\* read again, without the keys that have no value.
WrittenReadsBack ==
  text.kind = "object" /\ halted = "end" =>
    SelectSeq(Read(tokens), LAMBDA tok : tok.event # "eol") = ObjectTokens(text.of)
=============================================================================
