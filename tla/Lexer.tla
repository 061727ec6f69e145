-------------------------------- MODULE Lexer --------------------------------
(***************************************************************************)
(* The automaton of core/lexer.c.  It reads a text character by character:  *)
(* a character joins the token in buf, or ends it and starts another one.   *)
(* What ends a token is the state it was read in (_prev_state_emit), so     *)
(* most tokens leave the lexer one character late, and the last one of a    *)
(* text never does.                                                        *)
(***************************************************************************)
EXTENDS Integers, SequencesExt

CONSTANTS
  Texts,      \* records [kind, chars, of]: a text and what its writer meant by it
  Letters,
  BufSize     \* PINDF_LEXER_BUFSIZE

ASSUME BufSizeAssumption == BufSize \in Nat /\ BufSize >= 2

VARIABLES
  text,          \* the text being read
  pos,           \* the number of its characters that were read
  state,         \* lexer->state
  buf,           \* lexer->buf
  string_level,  \* lexer->string_level
  tokens,        \* the tokens emitted so far
  halted         \* "no", "end" (EOF was emitted), "overflow" (exit)

lexer == <<pos, state, buf, string_level, tokens, halted>>
vars == <<text, lexer>>

CR == "CR"
LF == "LF"
Blank == " "
Backslash == "\\"
Digits == {"0", "1", "2"}
Signs == {"+", "-"}
Special == {Blank, CR, LF, "(", ")", "<", ">", "[", "]", "/", "%"}

ASSUME LettersAssumption == Letters \cap Special = {}

\* The automaton takes any letter or digit for a hex digit.
IsAlnum(c) == c \in Digits \union Letters

Alphabet == Special \union Signs \union {".", Backslash} \union Digits \union Letters

ASSUME TextsAssumption == \A t \in Texts : t.chars \in Seq(Alphabet)

Token(event, raw) == [event |-> event, raw |-> raw]

\* _prev_state_emit: the event that a state ends with, "none" if it emits nothing.
Pending ==
  [default |-> "none", regular |-> "regular", white |-> "white", delim |-> "delim",
   in_eol |-> "white", name |-> "name"]

LexInit ==
  /\ pos = 0
  /\ state = "default"
  /\ buf = <<>>
  /\ string_level = 0
  /\ tokens = <<>>
  /\ halted = "no"

Init == text \in Texts /\ LexInit

Char == text.chars[pos + 1]

\* _append_ch exits when the buffer is full.
Overflow == halted' = "overflow" /\ UNCHANGED <<state, buf, tokens>>

\* Mutant: the end of the buffer is not looked for.
KeepUnbounded(st) ==
  buf' = Append(buf, Char) /\ state' = st /\ UNCHANGED <<tokens, halted>>

\* The character joins the token.
Keep(st) ==
  IF Len(buf) = BufSize
  THEN Overflow
  ELSE /\ buf' = Append(buf, Char)
       /\ state' = st
       /\ UNCHANGED <<tokens, halted>>

\* _emit: the token is complete, and the buffer starts with another one.
Emit(event, raw, st, next) ==
  /\ tokens' = IF event = "none" THEN tokens ELSE Append(tokens, Token(event, raw))
  /\ state' = st
  /\ buf' = next
  /\ UNCHANGED halted

\* Mutant: the buffer is not emptied.
FlushKeeps(st, next) == Emit(Pending[state], buf, st, buf \o next)

\* The token that was being read ends here.
Flush(st, next) == Emit(Pending[state], buf, st, next)

Error == tokens' = Append(tokens, Token("error", <<>>)) /\ UNCHANGED <<state, buf, halted>>

-----------------------------------------------------------------------------
(* _update_state                                                            *)

\* Mutant: a bracket counts after a backslash too.
EscapedCounts == state = "string" \/ Char \in {"(", ")"}

\* The character after a backslash is part of the string whatever it is.
Unescaped == state = "string"

InString ==
  /\ state \in {"string", "escape"}
  /\ \/ ~Unescaped /\ Keep("string") /\ UNCHANGED string_level
     \/ Unescaped /\ Char = Backslash /\ Keep("escape") /\ UNCHANGED string_level
     \/ Unescaped /\ Char = "(" /\ string_level' = string_level + 1 /\ Keep("string")
     \/ /\ Unescaped /\ Char = ")" /\ string_level' = string_level - 1
        /\ IF string_level = 1 THEN Emit("string", buf, "default", <<>>) ELSE Keep("string")
     \/ /\ Unescaped /\ Char \notin {Backslash, "(", ")"}
        /\ Keep("string") /\ UNCHANGED string_level

\* A second < makes the delimiter of a dictionary, with what was read in between.
InHexString ==
  /\ state = "hex"
  /\ \/ Char = "<" /\ IF Len(buf) + 2 > BufSize THEN Overflow
                      ELSE Emit("delim", buf \o <<"<", "<">>, "default", <<>>)
     \/ Char = ">" /\ Emit("hex", buf, "default", <<>>)
     \/ IsAlnum(Char) /\ Keep("hex")
     \/ Char \notin {"<", ">"} /\ ~IsAlnum(Char) /\ Error
  /\ UNCHANGED string_level

InComment ==
  /\ state = "comment"
  /\ \/ Char = LF /\ Emit("comment", buf, "out_eol", <<>>)
     \/ Char = CR /\ Emit("comment", buf, "in_eol", <<>>)
     \/ Char \notin {LF, CR} /\ Keep("comment")
  /\ UNCHANGED string_level

InToken == state \in DOMAIN Pending

\* Whether a line feed completes the line end that a carriage return began.
CompletesEOL == state = "in_eol"

WhiteSpace ==
  /\ InToken
  /\ \/ /\ Char = Blank
        /\ IF state = "white" THEN UNCHANGED <<state, buf, tokens, halted>>
                              ELSE Flush("white", <<>>)
     \/ Char = CR /\ Flush("in_eol", <<>>)
     \/ Char = LF /\ IF CompletesEOL THEN Emit("none", buf, "out_eol", buf)
                                     ELSE Flush("out_eol", <<>>)
  /\ UNCHANGED string_level

\* > waits for another one; no delimiter but it does.
Delimiter ==
  /\ InToken
  /\ \/ Char = ")" /\ Error
     \/ Char = "<" /\ Flush("hex", <<>>)
     \/ Char \in {"[", "]"} /\ Flush("delim", <<Char>>)
     \/ Char = ">" /\ IF state = "delim" /\ buf # <<>> /\ Last(buf) = ">"
                      THEN Emit("delim", Append(buf, Char), "default", <<>>)
                      ELSE Flush("delim", <<Char>>)
     \/ Char = "/" /\ Flush("name", <<Char>>)
     \/ Char = "%" /\ Flush("comment", <<>>)
  /\ UNCHANGED string_level

OpenString == InToken /\ Char = "(" /\ string_level' = 1 /\ Flush("string", <<>>)

Regular ==
  /\ InToken
  /\ Char \notin Special
  /\ IF state \in {"regular", "name"} THEN Keep(state) ELSE Flush("regular", <<Char>>)
  /\ UNCHANGED string_level

-----------------------------------------------------------------------------
(* pindf_lex, which reads on until a token is emitted                       *)

\* A line end that is complete is emitted before anything is read.
LineEnd ==
  /\ halted = "no" /\ state = "out_eol"
  /\ Emit("eol", <<>>, "default", buf)
  /\ UNCHANGED <<text, pos, string_level>>

\* Nothing is left: the token in buf is not emitted.
EndOfText ==
  /\ halted = "no" /\ state # "out_eol"
  /\ pos = Len(text.chars)
  /\ tokens' = Append(tokens, Token("eof", <<>>))
  /\ halted' = "end"
  /\ UNCHANGED <<text, pos, state, buf, string_level>>

ReadChar ==
  /\ halted = "no" /\ state # "out_eol"
  /\ pos < Len(text.chars)
  /\ InString \/ InHexString \/ InComment \/ WhiteSpace \/ Delimiter \/ OpenString \/ Regular
  /\ pos' = pos + 1
  /\ UNCHANGED text

LexStep == LineEnd \/ ReadChar \/ EndOfText

-----------------------------------------------------------------------------
(* pindf_token_regular_lex                                                  *)

\* pindf_lexer_keyword_list, without startxref and the words that no text here has.
Keywords ==
  {<<"n">>, <<"f">>, <<"R">>, <<"o","b","j">>, <<"e","n","d","o","b","j">>, <<"n","u","l","l">>,
   <<"t","r","u","e">>, <<"f","a","l","s","e">>, <<"s","t","r","e","a","m">>,
   <<"e","n","d","s","t","r","e","a","m">>, <<"x","r","e","f">>, <<"t","r","a","i","l","e","r">>}

IntStep(st, c) ==
  CASE st = "sign" /\ c \in Signs -> "sign"
    [] st \in {"sign", "digits"} /\ c \in Digits -> "digits"
    [] OTHER -> "no"

RealStep(st, c) ==
  CASE st = "sign" /\ c \in Signs -> "sign"
    [] st = "sign" /\ c = "0" -> "zero"
    [] st \in {"sign", "whole"} /\ c \in Digits \ {"0"} -> "whole"
    [] st = "whole" /\ c = "0" -> "whole"
    [] st \in {"sign", "zero", "whole"} /\ c = "." -> "fraction"
    [] st = "fraction" /\ c \in Digits -> "fraction"
    [] OTHER -> "no"

IsInt(raw) == FoldLeft(IntStep, "sign", raw) # "no"
IsReal(raw) == FoldLeft(RealStep, "sign", raw) # "no"

RegType(raw) ==
  CASE raw \in Keywords -> "keyword"
    [] raw \notin Keywords /\ IsInt(raw) -> "int"
    [] raw \notin Keywords /\ ~IsInt(raw) /\ IsReal(raw) -> "real"
    [] OTHER -> "norm"

-----------------------------------------------------------------------------
(* Properties                                                              *)

LexerTypeOK ==
  /\ pos \in 0..Len(text.chars)
  /\ state \in DOMAIN Pending \union {"string", "escape", "hex", "comment", "out_eol"}
  /\ Len(buf) <= BufSize
  /\ string_level \in Nat
  /\ halted \in {"no", "end", "overflow"}

\* What stood in the text for a token, and for the one that is being read.
Quoted(event, raw) ==
  CASE event \in {"string", "escape"} -> <<"(">> \o raw
    [] event = "hex" -> <<"<">> \o raw
    [] event = "comment" -> <<"%">> \o raw
    [] OTHER -> raw

Spelling(tok) ==
  Quoted(tok.event, tok.raw) \o (CASE tok.event = "string" -> <<")">>
                                  [] tok.event = "hex" -> <<">">>
                                  [] OTHER -> <<>>)

\* The characters that are no white space.
Ink(chars) ==
  FlattenSeq([i \in DOMAIN chars |-> IF chars[i] \in {Blank, CR, LF} THEN <<>> ELSE <<chars[i]>>])

\* No character was refused, and no < was found in a hex string.
Accepted ==
  \A i \in DOMAIN tokens :
    tokens[i].event # "error" /\ (tokens[i].event = "delim" => Len(tokens[i].raw) <= 2)

\* Every character but white space is in one token, and they are in order: those of
\* the tokens that were emitted and then those in the buffer.
EveryCharKept ==
  Accepted /\ halted # "overflow" =>
    Ink(FlattenSeq([i \in DOMAIN tokens |-> Spelling(tokens[i])]) \o Quoted(state, buf))
      = Ink(SubSeq(text.chars, 1, pos))

-----------------------------------------------------------------------------
(* What a writer means by a text                                            *)

\* A word is a token with the place of its first character; a line feed is one too.
Words == [event : {"regular", "name", "string", "hex", "delim", "comment", "eol"},
          raw : Seq(Alphabet), at : Nat \ {0}]
SpelledAs(word) == IF word.event = "eol" THEN <<LF>> ELSE Spelling(word)
LastOf(word) == word.at + Len(SpelledAs(word)) - 1

\* esc are the places of a string whose characters a backslash takes the meaning from,
\* and the others open and close brackets.
Escapes(raw, esc) ==
  \A i \in 1..Len(raw) : i \in esc <=> i > 1 /\ raw[i - 1] = Backslash /\ i - 1 \notin esc
Nesting(raw, esc, n) ==
  LET many(c) == Cardinality({i \in (1..n) \ esc : raw[i] = c}) IN 1 + many("(") - many(")")
Balanced(raw) ==
  \E esc \in SUBSET (1..Len(raw)) :
    /\ Escapes(raw, esc)
    /\ \A n \in 0..Len(raw) : Nesting(raw, esc, n) > 0
    /\ Nesting(raw, esc, Len(raw)) = 1
    /\ \A i \in 1..Len(raw) : i = Len(raw) /\ raw[i] = Backslash => i \in esc

WellSpelled(word) ==
  LET raw == word.raw
      size == Len(raw)
  IN  \/ word.event = "regular" /\ size > 0 /\ \A i \in 1..size : raw[i] \notin Special
      \/ word.event = "name" /\ size > 0 /\ raw[1] = "/" /\ \A i \in 2..size : raw[i] \notin Special
      \/ word.event = "string" /\ Balanced(raw)
      \/ word.event = "hex" /\ \A i \in 1..size : IsAlnum(raw[i])
      \/ word.event = "delim" /\ raw \in {<<"<", "<">>, <<">", ">">>, <<"[">>, <<"]">>}
      \/ word.event = "comment" /\ \A i \in 1..size : raw[i] \notin {CR, LF}
      \/ word.event = "eol" /\ raw = <<>>

\* The words stand in the text in their order, with nothing but white space between
\* them; a comment ends with its line, and what runs together is one word.
Spelled(chars, words) ==
  /\ words \in Seq(Words)
  /\ \A k \in 1..Len(words) :
       LET word == words[k]
           last == LastOf(word)
       IN  /\ WellSpelled(word)
           /\ last <= Len(chars)
           /\ \A j \in 1..Len(SpelledAs(word)) : chars[word.at + j - 1] = SpelledAs(word)[j]
           /\ word.event = "comment" => last < Len(chars) /\ chars[last + 1] \in {CR, LF}
           /\ \A m \in (k + 1)..Len(words) :
                /\ last < words[m].at
                /\ word.event \in {"regular", "name"} /\ words[m].event = "regular" => last + 1 < words[m].at
  /\ \A i \in 1..Len(chars) :
       chars[i] \in {Blank, CR} \/ \E k \in 1..Len(words) : i \in words[k].at..LastOf(words[k])

ASSUME WordsAssumption == \A t \in Texts : t.kind = "tokens" => Spelled(t.chars, t.of)

\* The tokens that were read and mean something.
Read(toks) ==
  FlattenSeq([i \in DOMAIN toks |-> IF toks[i].event \in {"white", "eof"} THEN <<>> ELSE <<toks[i]>>])

\* The one that is in the buffer when the text ends.
Unfinished == IF buf = <<>> THEN <<>> ELSE <<Token(Pending[state], buf)>>

\* A text that follows the syntax has the tokens its writer meant, however its words
\* are put together and its lines end; the lexer gives up only at a word that does
\* not fit its buffer, and the only token that can be missing at the end is the one
\* that the text stops in.
TokensMeant ==
  LET meant == [k \in 1..Len(text.of) |-> Token(text.of[k].event, text.of[k].raw)]
  IN  /\ IsPrefix(Read(tokens), meant)
      /\ halted = "end" => meant = Read(tokens) \o Unfinished
      /\ halted = "overflow" => \E k \in 1..Len(meant) : Len(meant[k].raw) > BufSize
=============================================================================
