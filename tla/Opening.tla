------------------------------- MODULE Opening -------------------------------
(***************************************************************************)
(* Where a file begins to be read: pindf_file_parse up to the offset of the *)
(* newest cross-reference section.  One lexer reads the version comment at  *)
(* the start of the file and then, after pindf_quick_match_startxref has    *)
(* looked for the keyword in the last bytes, the number behind it, without  *)
(* being cleared in between.                                               *)
(***************************************************************************)
EXTENDS Lexer

CONSTANTS
  Files,     \* texts of files; the others are only lexed
  Window     \* the number of bytes at the end that are searched, 50 in the code

ASSUME WindowAssumption == Window \in Nat /\ Window > 0

ASSUME FilesAssumption == \A f \in Files : f.chars \in Seq(Alphabet)

Startxref == <<"s", "t", "a", "r", "t", "x", "r", "e", "f">>

\* The first token ends at white space, which leaves nothing of the next in the lexer.
BegunRight(chars) ==
  \E l \in 2..Len(chars) :
    \/ chars[1] = "%" /\ chars[l] \in {CR, LF} /\ \A i \in 2..(l - 1) : chars[i] \notin {CR, LF}
    \/ chars[l] \in {Blank, CR, LF} /\ \A i \in 1..(l - 1) : chars[i] \notin Special

\* The keyword begins at key, with the white space before it among the characters that
\* are searched, and nothing there is taken for it earlier.  The offset begins at num.
EndedRight(chars, offset) ==
  \E key \in 2..Len(chars), num \in 2..Len(chars) :
    LET stands(c, place) == place \in 1..Len(chars) /\ chars[place] = c
    IN  /\ key - 1 > Len(chars) - Window /\ chars[key - 1] \in {Blank, CR, LF}
        /\ \A j \in 1..Len(Startxref) : stands(Startxref[j], key + j - 1)
        /\ \A i \in 1..(key - 2) :
             i > Len(chars) - Window /\ chars[i] \in {Blank, CR, LF} =>
               \E j \in 1..(Len(Startxref) - 1) : ~stands(Startxref[j], i + j)
        /\ num >= key + Len(Startxref)
        /\ \A i \in (key + Len(Startxref))..(num - 1) : chars[i] \in {Blank, CR, LF}
        /\ \A j \in 1..Len(offset) : offset[j] \in Digits /\ stands(offset[j], num + j - 1)
        /\ \E c \in {Blank, CR, LF} : stands(c, num + Len(offset))

\* A file is finished when its writer has given an offset to be opened at.
ASSUME FinishedAssumption ==
  \A f \in Files : f.kind = "file" /\ f.of # <<>> =>
    f.of \in Seq(Digits) /\ BegunRight(f.chars) /\ EndedRight(f.chars, f.of)

VARIABLES
  phase,     \* "lex" (a text is lexed to its end), "version", "scan", "number",
             \* "opened", "failed" (a negative return), "exited"
  match,     \* state of pindf_quick_match_startxref
  mark       \* the number of tokens when the number was begun to be read

ovars == <<vars, phase, match, mark>>

OpeningInit ==
  /\ \/ phase = "lex" /\ text \in Texts
     \/ phase = "version" /\ text \in Files
  /\ LexInit
  /\ match = 0
  /\ mark = 0

Lex == phase = "lex" /\ LexStep /\ UNCHANGED <<phase, match, mark>>

\* The first token, which is the version if it is a comment.
Version ==
  /\ phase = "version" /\ tokens = <<>>
  /\ LexStep
  /\ UNCHANGED <<phase, match, mark>>

\* Mutant: the last bytes are counted from the start of the file.
WindowAtStart == IF Len(text.chars) < Window THEN Len(text.chars) ELSE Window

\* Where the last bytes begin.
WindowStart == IF Len(text.chars) < Window THEN 0 ELSE Len(text.chars) - Window

SeekEnd ==
  /\ phase = "version" /\ tokens # <<>>
  /\ pos' = WindowStart
  /\ phase' = "scan"
  /\ halted' = "no"
  /\ UNCHANGED <<text, state, buf, string_level, tokens, match, mark>>

-----------------------------------------------------------------------------
(* pindf_quick_match_startxref                                              *)

Found == Len(Startxref) + 1

\* White space begins a match, or completes one that lacks its last letter.
MatchBlank == IF match = Len(Startxref) THEN Found ELSE 1

MatchLetter == IF match >= 1 /\ Char = Startxref[match] THEN match + 1 ELSE 0

Scan ==
  /\ phase = "scan" /\ match # Found
  /\ pos < Len(text.chars)
  /\ match' = IF Char \in {Blank, CR, LF} THEN MatchBlank ELSE MatchLetter
  /\ pos' = pos + 1
  /\ UNCHANGED <<text, state, buf, string_level, tokens, halted, phase, mark>>

\* The keyword was found: the lexer goes on behind it.
ScanEnds ==
  /\ phase = "scan" /\ match = Found
  /\ phase' = "number"
  /\ mark' = Len(tokens)
  /\ UNCHANGED <<vars, match>>

NotFound ==
  /\ phase = "scan" /\ match # Found
  /\ pos = Len(text.chars)
  /\ phase' = "exited"
  /\ UNCHANGED <<vars, match, mark>>

-----------------------------------------------------------------------------

\* pindf_lex_options reads on until a token is none of these.
Skipped == {"white", "comment", "eol"}

\* The tokens read since then which it returns.
Behind ==
  FlattenSeq([i \in 1..(Len(tokens) - mark) |->
                IF tokens[mark + i].event \in Skipped THEN <<>> ELSE <<tokens[mark + i]>>])

Number ==
  /\ phase = "number" /\ Behind = <<>>
  /\ LexStep
  /\ UNCHANGED <<phase, match, mark>>

IsOffset(tok) == tok.event = "regular" /\ RegType(tok.raw) = "int"

\* The first token is the offset, or the file is refused.
NumberRead ==
  /\ phase = "number" /\ Behind # <<>>
  /\ phase' = IF IsOffset(Behind[1]) THEN "opened" ELSE "failed"
  /\ UNCHANGED <<vars, match, mark>>

OpeningNext ==
  Lex \/ Version \/ SeekEnd \/ Scan \/ ScanEnds \/ NotFound \/ Number \/ NumberRead

OpeningSpec == OpeningInit /\ [][OpeningNext]_ovars

-----------------------------------------------------------------------------
(* Properties                                                              *)

TypeOK ==
  /\ LexerTypeOK
  /\ phase \in {"lex", "version", "scan", "number", "opened", "failed", "exited"}
  /\ match \in 0..Found
  /\ mark \in 0..Len(tokens)

\* From the first character of any text to its last, no character is lost, repeated or
\* moved between two tokens: the readers take offsets and lengths from what was read.
NothingLost == phase = "lex" => EveryCharKept

\* A file that a writer has finished (its offset is text.of, any other file has none)
\* is opened at that offset, whatever line ends it has and in whatever state its first
\* line left the lexer.
OpensWhereWritten ==
  text.kind = "file" /\ text.of # <<>> /\ phase \in {"opened", "failed", "exited"} =>
    phase = "opened" /\ Behind[1].raw = text.of

\* A text whose words are known is read as these words.
ReadsTokens == phase = "lex" /\ text.kind = "tokens" => TokensMeant
=============================================================================
