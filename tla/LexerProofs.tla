----------------------------- MODULE LexerProofs -----------------------------
(***************************************************************************)
(* Proofs about the lexer, for texts of any characters and any length, while *)
(* a file is opened and after: the token buffer is never written past its    *)
(* end and brackets of a string are never closed twice (LexInv); no          *)
(* character is lost (KeptInv): each one the lexer reads is refused, does not *)
(* fit, is white space, or is the next one of what the tokens and the buffer *)
(* spell together (Grown); a text that is made of words is read as these     *)
(* words (WordsInv); and a finished file is opened where its writer says     *)
(* (FinishedInv).                                                            *)
(***************************************************************************)
EXTENDS Opening, FiniteSetTheorems, TLAPS

\* Induction over the natural numbers.
Numbers == INSTANCE XrefFormatProofs

Events ==
  {"none", "regular", "white", "delim", "name", "string", "hex", "comment", "eol", "eof", "error"}
TokenSet == [event : Events, raw : Seq(Alphabet)]

\* What is read is characters, and a string is open as long as a bracket is.
LexInv ==
  /\ text.chars \in Seq(Alphabet)
  /\ pos \in 0..Len(text.chars)
  /\ state \in DOMAIN Pending \union {"string", "escape", "hex", "comment", "out_eol"}
  /\ buf \in Seq(Alphabet) /\ Len(buf) <= BufSize
  /\ string_level \in Nat
  /\ state \in {"string", "escape"} => string_level > 0
  /\ tokens \in Seq(TokenSet)
  /\ halted \in {"no", "end", "overflow"}

PhaseInv ==
  /\ phase \in {"lex", "version", "scan", "number", "opened", "failed", "exited"}
  /\ match \in 0..Found
  /\ mark \in 0..Len(tokens)

States == DOMAIN Pending \union {"string", "escape", "hex", "comment", "out_eol"}

LEMMA PendingStates ==
  /\ DOMAIN Pending = {"default", "regular", "white", "delim", "in_eol", "name"}
  /\ \A st \in DOMAIN Pending : Pending[st] \in Events
<1>1. DOMAIN Pending = {"default", "regular", "white", "delim", "in_eol", "name"}
  BY DEF Pending
<1>2. /\ Pending["default"] \in Events /\ Pending["regular"] \in Events
      /\ Pending["white"] \in Events /\ Pending["delim"] \in Events
      /\ Pending["in_eol"] \in Events /\ Pending["name"] \in Events
  BY DEF Pending, Events
<1>3. QED
  BY <1>1, <1>2

\* The effect that a character has on the automaton, but for string_level.
StepOK ==
  /\ state' \in States
  /\ buf' \in Seq(Alphabet) /\ Len(buf') <= BufSize
  /\ tokens' \in Seq(TokenSet) /\ Len(tokens') >= Len(tokens)
  /\ halted' \in {"no", "end", "overflow"}

LEMMA KeepOK ==
  ASSUME LexInv, Char \in Alphabet, NEW st \in States, Keep(st)
  PROVE  StepOK /\ state' \in {st, state}
<1>1. buf \in Seq(Alphabet) /\ Len(buf) \in Nat /\ BufSize \in Nat
  BY BufSizeAssumption DEF LexInv
<1>2. CASE Len(buf) = BufSize
  BY <1>1, <1>2 DEF Keep, Overflow, StepOK, LexInv, States
<1>3. CASE Len(buf) # BufSize
  <2>1. buf' = Append(buf, Char) /\ state' = st /\ UNCHANGED <<tokens, halted>>
    BY <1>3 DEF Keep
  <2>2. buf' \in Seq(Alphabet) /\ Len(buf') = Len(buf) + 1
    BY <1>1, <2>1
  <2>3. QED
    BY <1>1, <1>3, <2>1, <2>2 DEF StepOK, LexInv
<1>4. QED
  BY <1>2, <1>3

LEMMA EmitOK ==
  ASSUME LexInv, NEW event \in Events, NEW raw \in Seq(Alphabet), NEW st \in States,
         NEW next \in Seq(Alphabet), Len(next) <= BufSize, Emit(event, raw, st, next)
  PROVE  StepOK /\ state' = st
<1>1. Token(event, raw) \in TokenSet
  BY DEF Token, TokenSet
<1>2. tokens' \in Seq(TokenSet) /\ Len(tokens') >= Len(tokens)
  BY <1>1 DEF Emit, LexInv
<1>3. QED
  BY <1>2 DEF Emit, StepOK, LexInv

LEMMA FlushOK ==
  ASSUME LexInv, InToken, NEW st \in States, NEW next \in Seq(Alphabet), Len(next) <= BufSize,
         Flush(st, next)
  PROVE  StepOK /\ state' = st
<1>1. Pending[state] \in Events
  BY PendingStates DEF InToken
<1>2. buf \in Seq(Alphabet)
  BY DEF LexInv
<1>3. QED
  BY <1>1, <1>2, EmitOK DEF Flush

LEMMA ErrorOK == ASSUME LexInv, Error PROVE StepOK /\ state' = state
<1>1. Token("error", <<>>) \in TokenSet
  BY DEF Token, TokenSet, Events
<1>2. QED
  BY <1>1 DEF Error, StepOK, LexInv, States

\* Texts that a token can start with.
LEMMA ShortTexts ==
  ASSUME Char \in Alphabet
  PROVE  /\ <<>> \in Seq(Alphabet) /\ Len(<<>>) <= BufSize
         /\ <<Char>> \in Seq(Alphabet) /\ Len(<<Char>>) <= BufSize
BY BufSizeAssumption

LEMMA KnownStates ==
  {"default", "regular", "white", "delim", "in_eol", "name", "string", "escape", "hex",
   "comment", "out_eol"} = States
BY PendingStates DEF States

-----------------------------------------------------------------------------
(* Each kind of character                                                   *)

\* string_level stays positive in a string and is left alone outside.
LevelOK == string_level' \in Nat /\ (state' \in {"string", "escape"} => string_level' > 0)

LEMMA InStringOK == ASSUME LexInv, Char \in Alphabet, InString PROVE StepOK /\ LevelOK
<1>1. state \in {"string", "escape"} /\ string_level \in Nat /\ string_level > 0
  BY DEF InString, LexInv
<1>2. buf \in Seq(Alphabet)
  BY DEF LexInv
<1>3. ASSUME NEW st \in {"string", "escape"}, Keep(st), string_level' \in Nat, string_level' > 0
      PROVE  StepOK /\ LevelOK
  BY <1>3, KeepOK, KnownStates DEF LevelOK
<1>4. ASSUME Emit("string", buf, "default", <<>>), string_level' \in Nat PROVE StepOK /\ LevelOK
  BY <1>2, <1>4, EmitOK, ShortTexts, KnownStates DEF LevelOK, Events
<1>5. CASE string_level' = string_level - 1
           /\ (IF string_level = 1 THEN Emit("string", buf, "default", <<>>) ELSE Keep("string"))
  BY <1>1, <1>3, <1>4, <1>5
<1>6. CASE \E st \in {"string", "escape"} : Keep(st) /\ string_level' \in {string_level, string_level + 1}
  BY <1>1, <1>3, <1>6
<1>7. QED
  BY <1>5, <1>6 DEF InString

LEMMA InHexStringOK == ASSUME LexInv, Char \in Alphabet, InHexString PROVE StepOK /\ LevelOK
<1>1. state = "hex" /\ string_level' = string_level /\ string_level \in Nat
  BY DEF InHexString, LexInv
<1>2. buf \in Seq(Alphabet) /\ buf \o <<"<", "<">> \in Seq(Alphabet)
  BY DEF LexInv, Alphabet, Special
<1>3. CASE Overflow
  BY <1>1, <1>3 DEF Overflow, StepOK, LevelOK, LexInv, States
<1>4. CASE Emit("delim", buf \o <<"<", "<">>, "default", <<>>)
  BY <1>1, <1>2, <1>4, EmitOK, ShortTexts, KnownStates DEF LevelOK, Events
<1>5. CASE Emit("hex", buf, "default", <<>>)
  BY <1>1, <1>2, <1>5, EmitOK, ShortTexts, KnownStates DEF LevelOK, Events
<1>6. CASE Keep("hex")
  BY <1>1, <1>6, KeepOK, KnownStates DEF LevelOK
<1>7. CASE Error
  BY <1>1, <1>7, ErrorOK DEF LevelOK
<1>8. QED
  BY <1>3, <1>4, <1>5, <1>6, <1>7 DEF InHexString

LEMMA InCommentOK == ASSUME LexInv, Char \in Alphabet, InComment PROVE StepOK /\ LevelOK
<1>1. state = "comment" /\ string_level' = string_level /\ string_level \in Nat
      /\ buf \in Seq(Alphabet)
  BY DEF InComment, LexInv
<1>2. CASE \E st \in {"out_eol", "in_eol"} : Emit("comment", buf, st, <<>>)
  BY <1>1, <1>2, EmitOK, ShortTexts, KnownStates DEF LevelOK, Events
<1>3. CASE Keep("comment")
  BY <1>1, <1>3, KeepOK, KnownStates DEF LevelOK
<1>4. QED
  BY <1>2, <1>3 DEF InComment

\* Outside of strings a token ends, and another one that is no string may begin.
LEMMA FlushLevelOK ==
  ASSUME LexInv, InToken, string_level' = string_level, NEW st \in States \ {"string", "escape"},
         NEW next \in Seq(Alphabet), Len(next) <= BufSize, Flush(st, next)
  PROVE  StepOK /\ LevelOK
BY FlushOK DEF LevelOK, LexInv

LEMMA WhiteSpaceOK == ASSUME LexInv, Char \in Alphabet, WhiteSpace PROVE StepOK /\ LevelOK
<1>1. InToken /\ string_level' = string_level /\ string_level \in Nat
      /\ buf \in Seq(Alphabet) /\ Len(buf) <= BufSize
  BY DEF WhiteSpace, LexInv
<1>2. state \notin {"string", "escape"}
  BY <1>1, PendingStates DEF InToken
<1>3. CASE UNCHANGED <<state, buf, tokens, halted>>
  BY <1>1, <1>2, <1>3 DEF StepOK, LevelOK, LexInv, States
<1>4. CASE \E st \in {"white", "in_eol", "out_eol"} : Flush(st, <<>>)
  BY <1>1, <1>4, FlushLevelOK, ShortTexts, KnownStates
<1>5. CASE Emit("none", buf, "out_eol", buf)
  BY <1>1, <1>5, EmitOK, KnownStates DEF LevelOK, Events
<1>6. QED
  BY <1>3, <1>4, <1>5 DEF WhiteSpace

LEMMA DelimiterOK == ASSUME LexInv, Char \in Alphabet, Delimiter PROVE StepOK /\ LevelOK
<1>1. InToken /\ string_level' = string_level /\ string_level \in Nat /\ buf \in Seq(Alphabet)
  BY DEF Delimiter, LexInv
<1>2. state \notin {"string", "escape"}
  BY <1>1, PendingStates DEF InToken
<1>3. CASE Error
  BY <1>1, <1>2, <1>3, ErrorOK DEF LevelOK
<1>4. CASE \E st \in {"hex", "delim", "name", "comment"}, next \in {<<>>, <<Char>>} : Flush(st, next)
  <2>1. PICK st \in {"hex", "delim", "name", "comment"}, next \in {<<>>, <<Char>>} : Flush(st, next)
    BY <1>4
  <2>2. next \in Seq(Alphabet) /\ Len(next) <= BufSize /\ st \in States \ {"string", "escape"}
    BY ShortTexts, KnownStates
  <2>3. QED
    BY <1>1, <2>1, <2>2, FlushLevelOK
<1>5. CASE Emit("delim", Append(buf, Char), "default", <<>>)
  <2>1. Append(buf, Char) \in Seq(Alphabet)
    BY <1>1
  <2>2. QED
    BY <1>1, <1>5, <2>1, EmitOK, ShortTexts, KnownStates DEF LevelOK, Events
<1>6. QED
  BY <1>3, <1>4, <1>5 DEF Delimiter

LEMMA OpenStringOK == ASSUME LexInv, Char \in Alphabet, OpenString PROVE StepOK /\ LevelOK
<1>1. InToken /\ Flush("string", <<>>) /\ string_level' = 1
  BY DEF OpenString
<1>2. StepOK
  BY <1>1, FlushOK, ShortTexts, KnownStates
<1>3. QED
  BY <1>1, <1>2 DEF LevelOK

LEMMA RegularOK == ASSUME LexInv, Char \in Alphabet, Regular PROVE StepOK /\ LevelOK
<1>1. InToken /\ string_level' = string_level /\ string_level \in Nat /\ state \in States
  BY DEF Regular, LexInv, States
<1>2. state \notin {"string", "escape"}
  BY <1>1, PendingStates DEF InToken
<1>3. CASE Keep(state)
  BY <1>1, <1>2, <1>3, KeepOK DEF LevelOK
<1>4. CASE Flush("regular", <<Char>>)
  BY <1>1, <1>4, FlushLevelOK, ShortTexts, KnownStates
<1>5. QED
  BY <1>3, <1>4 DEF Regular

-----------------------------------------------------------------------------

\* A step of pindf_lex, whatever it reads.
LEMMA LexStepOK == ASSUME LexInv, LexStep PROVE LexInv' /\ Len(tokens') >= Len(tokens)
<1>1. CASE LineEnd
  <2>1. Emit("eol", <<>>, "default", buf) /\ UNCHANGED <<text, pos, string_level>>
    BY <1>1 DEF LineEnd
  <2>2. buf \in Seq(Alphabet) /\ Len(buf) <= BufSize /\ <<>> \in Seq(Alphabet)
    BY DEF LexInv
  <2>3. StepOK /\ state' = "default"
    BY <2>1, <2>2, EmitOK, KnownStates DEF Events
  <2>4. QED
    BY <2>1, <2>3 DEF LexInv, StepOK, States
<1>2. CASE EndOfText
  <2>1. tokens' = Append(tokens, Token("eof", <<>>)) /\ halted' = "end"
        /\ UNCHANGED <<text, pos, state, buf, string_level>>
    BY <1>2 DEF EndOfText
  <2>2. Token("eof", <<>>) \in TokenSet
    BY DEF Token, TokenSet, Events
  <2>3. tokens' \in Seq(TokenSet) /\ Len(tokens') >= Len(tokens)
    BY <2>1, <2>2 DEF LexInv
  <2>4. QED
    BY <2>1, <2>3 DEF LexInv
<1>3. CASE ReadChar
  <2>1. pos < Len(text.chars) /\ pos' = pos + 1 /\ text' = text
    BY <1>3 DEF ReadChar
  <2>2. text.chars \in Seq(Alphabet) /\ pos + 1 \in 1..Len(text.chars)
    BY <2>1 DEF LexInv
  <2>3. Char \in Alphabet
    BY <2>2 DEF Char
  <2>4. StepOK /\ LevelOK
    BY <1>3, <2>3, InStringOK, InHexStringOK, InCommentOK, WhiteSpaceOK, DelimiterOK, OpenStringOK,
       RegularOK DEF ReadChar
  <2>5. QED
    BY <2>1, <2>2, <2>4 DEF LexInv, StepOK, LevelOK, States
<1>4. QED
  BY <1>1, <1>2, <1>3 DEF LexStep

LEMMA InitInv == OpeningInit => LexInv /\ PhaseInv
<1> SUFFICES ASSUME OpeningInit PROVE LexInv /\ PhaseInv
  OBVIOUS
<1>1. text.chars \in Seq(Alphabet)
  BY TextsAssumption, FilesAssumption DEF OpeningInit
<1>2. QED
  BY <1>1, BufSizeAssumption, PendingStates DEF OpeningInit, LexInit, LexInv, PhaseInv, Found, Startxref

LEMMA NextInv == LexInv /\ PhaseInv /\ [OpeningNext]_ovars => (LexInv /\ PhaseInv)'
<1> SUFFICES ASSUME LexInv, PhaseInv, [OpeningNext]_ovars PROVE LexInv' /\ PhaseInv'
  OBVIOUS
<1>1. CASE Lex \/ Version \/ Number
  <2>1. LexStep /\ UNCHANGED <<phase, match, mark>>
    BY <1>1 DEF Lex, Version, Number
  <2>2. LexInv' /\ Len(tokens') >= Len(tokens)
    BY <2>1, LexStepOK
  <2>3. tokens \in Seq(TokenSet) /\ tokens' \in Seq(TokenSet)
    BY <2>2 DEF LexInv
  <2>4. QED
    BY <2>1, <2>2, <2>3 DEF PhaseInv, Found
<1>2. CASE SeekEnd
  <2>1. WindowStart \in 0..Len(text.chars)
    BY WindowAssumption DEF WindowStart, LexInv
  <2>2. QED
    BY <1>2, <2>1 DEF SeekEnd, LexInv, PhaseInv, Found
<1>3. CASE Scan
  <2>1. match' \in 0..Found
    BY <1>3 DEF Scan, MatchBlank, MatchLetter, PhaseInv, Found, Startxref
  <2>2. QED
    BY <1>3, <2>1 DEF Scan, LexInv, PhaseInv, Found
<1>4. CASE ScanEnds \/ NotFound \/ NumberRead
  <2>1. UNCHANGED vars /\ match' = match /\ mark' \in {mark, Len(tokens)}
        /\ phase' \in {"number", "exited", "opened", "failed"}
    BY <1>4 DEF ScanEnds, NotFound, NumberRead
  <2>2. QED
    BY <2>1 DEF vars, lexer, LexInv, PhaseInv, Found
<1>5. CASE UNCHANGED ovars
  BY <1>5 DEF ovars, vars, lexer, LexInv, PhaseInv, Found
<1>6. QED
  BY <1>1, <1>2, <1>3, <1>4, <1>5 DEF OpeningNext

\* Whatever characters a text has, the lexer never writes past lexer->buf, string_level
\* never goes below zero, and the scan for startxref never reads past its keyword.
THEOREM BufferNeverOverrun == OpeningSpec => []TypeOK
<1>1. OpeningInit => LexInv /\ PhaseInv
  BY InitInv
<1>2. (LexInv /\ PhaseInv) /\ [OpeningNext]_ovars => (LexInv /\ PhaseInv)'
  BY NextInv
<1>3. LexInv /\ PhaseInv => TypeOK
  BY DEF LexInv, PhaseInv, TypeOK, LexerTypeOK
<1>4. QED
  BY <1>1, <1>2, <1>3, PTL DEF OpeningSpec

-----------------------------------------------------------------------------
(* Sequences of sequences, and the characters of a text that are no white   *)
(* space.                                                                   *)

LEMMA FlattenAppend ==
  ASSUME NEW S, NEW ss \in Seq(Seq(S)), NEW s \in Seq(S)
  PROVE  /\ FlattenSeq(ss) \in Seq(S)
         /\ FlattenSeq(Append(ss, s)) = FlattenSeq(ss) \o s
<1>1. \A seqs : FlattenSeq(seqs) = Numbers!FlattenSeq(seqs)
  BY DEF FlattenSeq, Numbers!FlattenSeq
<1>2. QED
  BY <1>1, Numbers!FlattenAppend

LEMMA ConcatFacts ==
  ASSUME NEW S, NEW a \in Seq(S), NEW b \in Seq(S), NEW c \in S
  PROVE  /\ a \o <<>> = a /\ <<>> \o a = a
         /\ a \o b \in Seq(S)
         /\ <<c>> \in Seq(S) /\ Append(a, c) = a \o <<c>>
         /\ a \o Append(b, c) = Append(a \o b, c)
         /\ (a \o b) \o <<c>> = Append(a \o b, c)
<1>1. a \o <<>> = a /\ <<>> \o a = a /\ a \o b \in Seq(S) /\ <<c>> \in Seq(S)
  OBVIOUS
<1>2. \A s \in Seq(S) : Append(s, c) = s \o <<c>>
  <2>1. ASSUME NEW s \in Seq(S) PROVE Append(s, c) = s \o <<c>>
    OBVIOUS
  <2>2. QED
    BY <2>1
<1>3. a \o Append(b, c) = Append(a \o b, c)
  OBVIOUS
<1>4. QED
  BY <1>1, <1>2, <1>3

LEMMA InkAppend ==
  ASSUME NEW s \in Seq(Alphabet), NEW c \in Alphabet
  PROVE  Ink(Append(s, c)) = IF c \in {Blank, CR, LF} THEN Ink(s) ELSE Ink(s) \o <<c>>
<1> DEFINE Drop(d) == IF d \in {Blank, CR, LF} THEN <<>> ELSE <<d>>
           drops(t) == [i \in DOMAIN t |-> Drop(t[i])]
<1>1. \A d \in Alphabet : Drop(d) \in Seq(Alphabet)
  OBVIOUS
<1>2. drops(s) \in Seq(Seq(Alphabet))
  <2> HIDE DEF Drop
  <2>1. DOMAIN s = 1..Len(s) /\ Len(s) \in Nat /\ \A i \in 1..Len(s) : s[i] \in Alphabet
    OBVIOUS
  <2>2. QED
    BY <1>1, <2>1
<1>3. drops(Append(s, c)) = Append(drops(s), Drop(c))
  <2> HIDE DEF Drop
  <2>1. /\ Len(drops(s)) = Len(s) /\ DOMAIN Append(s, c) = 1..(Len(s) + 1)
        /\ \A i \in 1..Len(s) : Append(s, c)[i] = s[i] /\ drops(s)[i] = Drop(s[i])
        /\ Append(s, c)[Len(s) + 1] = c
    OBVIOUS
  <2>2. drops(Append(s, c)) = [i \in 1..(Len(s) + 1) |-> Drop(Append(s, c)[i])]
    BY <2>1
  <2>3. QED
    BY <1>2, <2>1, <2>2
<1>4. Drop(c) \in Seq(Alphabet)
  BY <1>1
<1> HIDE DEF drops, Drop
<1>5. /\ FlattenSeq(Append(drops(s), Drop(c))) = FlattenSeq(drops(s)) \o Drop(c)
      /\ FlattenSeq(drops(s)) \in Seq(Alphabet)
  BY <1>2, <1>4, FlattenAppend
<1>6. Ink(s) = FlattenSeq(drops(s)) /\ Ink(Append(s, c)) = FlattenSeq(drops(Append(s, c)))
  BY DEF Ink, drops, Drop
<1>7. Ink(s) \in Seq(Alphabet) /\ Ink(s) \o <<>> = Ink(s)
  BY <1>5, <1>6
<1>8. QED
  BY <1>3, <1>5, <1>6, <1>7 DEF Drop

-----------------------------------------------------------------------------
(* What the tokens and the buffer hold together.                            *)

Spelt(toks) == FlattenSeq([i \in DOMAIN toks |-> Spelling(toks[i])])

AllText == Spelt(tokens) \o Quoted(state, buf)

LEMMA QuotedIs ==
  ASSUME NEW raw
  PROVE  /\ \A st \in {"string", "escape"} : Quoted(st, raw) = <<"(">> \o raw
         /\ Quoted("hex", raw) = <<"<">> \o raw
         /\ Quoted("comment", raw) = <<"%">> \o raw
         /\ \A st : st \notin {"string", "escape", "hex", "comment"} => Quoted(st, raw) = raw
BY DEF Quoted

LEMMA QuotedIsText ==
  ASSUME NEW st, NEW raw \in Seq(Alphabet)
  PROVE  Quoted(st, raw) \in Seq(Alphabet)
<1>1. "(" \in Alphabet /\ "<" \in Alphabet /\ "%" \in Alphabet
  BY DEF Alphabet, Special
<1>2. <<"(">> \o raw \in Seq(Alphabet) /\ <<"<">> \o raw \in Seq(Alphabet) /\ <<"%">> \o raw \in Seq(Alphabet)
  BY <1>1, ConcatFacts
<1>3. QED
  BY <1>2, QuotedIs

LEMMA SpellingIs ==
  ASSUME NEW event, NEW raw \in Seq(Alphabet)
  PROVE  /\ Spelling(Token(event, raw)) \in Seq(Alphabet)
         /\ event = "string" => Spelling(Token(event, raw)) = Append(<<"(">> \o raw, ")")
         /\ event = "hex" => Spelling(Token(event, raw)) = Append(<<"<">> \o raw, ">")
         /\ event \notin {"string", "escape", "hex"} => Spelling(Token(event, raw)) = Quoted(event, raw)
<1> DEFINE q == Quoted(event, raw)
           close == CASE event = "string" -> <<")">> [] event = "hex" -> <<">">> [] OTHER -> <<>>
<1>1. ")" \in Alphabet /\ ">" \in Alphabet
  BY DEF Alphabet, Special
<1>2. q \in Seq(Alphabet) /\ close \in Seq(Alphabet) /\ Spelling(Token(event, raw)) = q \o close
  BY <1>1, QuotedIsText DEF Spelling, Token
<1>3. event \notin {"string", "hex"} => close = <<>>
  OBVIOUS
<1> HIDE DEF q
<1>4. q \o close \in Seq(Alphabet) /\ q \o <<>> = q
      /\ q \o <<")">> = Append(q, ")") /\ q \o <<">">> = Append(q, ">")
  BY <1>1, <1>2, ConcatFacts
<1>5. (event = "string" => close = <<")">>) /\ (event = "hex" => close = <<">">>)
  OBVIOUS
<1> HIDE DEF close
<1>6. QED
  BY <1>2, <1>3, <1>4, <1>5, QuotedIs DEF q

LEMMA SpeltAppend ==
  ASSUME NEW toks \in Seq(TokenSet), NEW tok \in TokenSet
  PROVE  /\ Spelt(toks) \in Seq(Alphabet)
         /\ Spelt(Append(toks, tok)) = Spelt(toks) \o Spelling(tok)
<1> DEFINE spell(ts) == [i \in DOMAIN ts |-> Spelling(ts[i])]
<1>1. \A t \in TokenSet : Spelling(t) \in Seq(Alphabet)
  <2>1. ASSUME NEW t \in TokenSet PROVE Spelling(t) \in Seq(Alphabet)
    <3>1. t.raw \in Seq(Alphabet) /\ t = Token(t.event, t.raw)
      BY DEF TokenSet, Token
    <3>2. Spelling(Token(t.event, t.raw)) \in Seq(Alphabet)
      BY <3>1, SpellingIs
    <3>3. QED
      BY <3>1, <3>2
  <2>2. QED
    BY <2>1
<1>2. spell(toks) \in Seq(Seq(Alphabet))
  BY <1>1
<1>3. spell(Append(toks, tok)) = Append(spell(toks), Spelling(tok))
  <2>1. /\ Len(spell(toks)) = Len(toks) /\ DOMAIN Append(toks, tok) = 1..(Len(toks) + 1)
        /\ \A i \in 1..Len(toks) : Append(toks, tok)[i] = toks[i] /\ spell(toks)[i] = Spelling(toks[i])
        /\ Append(toks, tok)[Len(toks) + 1] = tok
    OBVIOUS
  <2>2. spell(Append(toks, tok)) = [i \in 1..(Len(toks) + 1) |-> Spelling(Append(toks, tok)[i])]
    BY <2>1
  <2>3. QED
    BY <1>2, <2>1, <2>2
<1>4. Spelling(tok) \in Seq(Alphabet)
  BY <1>1
<1> HIDE DEF spell
<1>5. QED
  BY <1>2, <1>3, <1>4, FlattenAppend DEF Spelt, spell

\* The buffer is empty between tokens.
BufInv == state \in {"default", "white", "in_eol", "out_eol"} => buf = <<>>

\* What a character does: it is refused, there is no room for it, or it is the next one
\* of the tokens and the buffer, if it is no white space.
Grown ==
  \/ ~Accepted'
  \/ halted' = "overflow"
  \/ AllText' = Append(AllText, Char)
  \/ Char \in {Blank, CR, LF} /\ AllText' = AllText

LEMMA AllIs ==
  ASSUME LexInv
  PROVE  /\ Spelt(tokens) \in Seq(Alphabet) /\ Quoted(state, buf) \in Seq(Alphabet)
         /\ AllText \in Seq(Alphabet)
<1>1. Token("eof", <<>>) \in TokenSet
  BY DEF Token, TokenSet, Events
<1>2. Spelt(tokens) \in Seq(Alphabet)
  BY <1>1, SpeltAppend DEF LexInv
<1>3. Quoted(state, buf) \in Seq(Alphabet)
  BY QuotedIsText DEF LexInv
<1>4. QED
  BY <1>2, <1>3, ConcatFacts DEF AllText

LEMMA KeepGrows ==
  ASSUME LexInv, BufInv, Char \in Alphabet, NEW st, Keep(st),
         st \notin {"default", "white", "in_eol", "out_eol"},
         Quoted(st, Append(buf, Char)) = Append(Quoted(state, buf), Char)
  PROVE  Grown /\ BufInv'
<1>1. CASE Len(buf) = BufSize
  BY <1>1 DEF Keep, Overflow, Grown, BufInv
<1>2. CASE Len(buf) # BufSize
  <2>1. buf' = Append(buf, Char) /\ state' = st /\ tokens' = tokens
    BY <1>2 DEF Keep
  <2>2. AllText' = Spelt(tokens) \o Append(Quoted(state, buf), Char)
    BY <2>1 DEF AllText
  <2>3. AllText' = Append(AllText, Char)
    BY <2>2, AllIs, ConcatFacts DEF AllText
  <2>4. QED
    BY <2>1, <2>3 DEF Grown, BufInv
<1>3. QED
  BY <1>1, <1>2

LEMMA EmitGrows ==
  ASSUME LexInv, NEW event \in Events \ {"none"}, NEW raw \in Seq(Alphabet), NEW st, NEW next,
         Emit(event, raw, st, next)
  PROVE  AllText' = (Spelt(tokens) \o Spelling(Token(event, raw))) \o Quoted(st, next)
<1>1. tokens' = Append(tokens, Token(event, raw)) /\ state' = st /\ buf' = next
  BY DEF Emit
<1>2. Token(event, raw) \in TokenSet /\ tokens \in Seq(TokenSet)
  BY DEF Token, TokenSet, LexInv
<1>3. Spelt(tokens') = Spelt(tokens) \o Spelling(Token(event, raw))
  BY <1>1, <1>2, SpeltAppend
<1>4. QED
  BY <1>1, <1>3 DEF AllText

\* The token that ends is what was in the buffer.
LEMMA FlushGrows ==
  ASSUME LexInv, BufInv, InToken, NEW st, NEW next, Flush(st, next)
  PROVE  AllText' = AllText \o Quoted(st, next)
<1>1. buf \in Seq(Alphabet) /\ state \in {"default", "regular", "white", "delim", "in_eol", "name"}
  BY PendingStates DEF LexInv, InToken
<1>2. Quoted(state, buf) = buf
  BY <1>1, QuotedIs
<1>3. CASE state = "default"
  <2>1. buf = <<>> /\ Pending[state] = "none"
    BY <1>3 DEF BufInv, Pending
  <2>2. tokens' = tokens /\ state' = st /\ buf' = next
    BY <2>1 DEF Flush, Emit
  <2>3. AllText = Spelt(tokens)
    BY <1>2, <2>1, AllIs, ConcatFacts DEF AllText
  <2>4. QED
    BY <2>2, <2>3 DEF AllText
<1>4. CASE state # "default"
  <2>1. Pending[state] \in {"regular", "white", "delim", "name"}
    BY <1>1, <1>4 DEF Pending
  <2>2. Pending[state] \in Events \ {"none"}
    BY <2>1 DEF Events
  <2>3. Spelling(Token(Pending[state], buf)) = buf
    <3> DEFINE event == Pending[state]
    <3>1. event \notin {"string", "escape", "hex", "comment"}
      BY <2>1
    <3> HIDE DEF event
    <3>2. Spelling(Token(event, buf)) = Quoted(event, buf)
      BY <1>1, <3>1, SpellingIs
    <3>3. Quoted(event, buf) = buf
      BY <3>1, QuotedIs
    <3>4. QED
      BY <3>2, <3>3 DEF event
  <2>4. AllText' = (Spelt(tokens) \o Spelling(Token(Pending[state], buf))) \o Quoted(st, next)
    BY <1>1, <2>2, EmitGrows DEF Flush
  <2>5. QED
    BY <1>2, <2>3, <2>4 DEF AllText
<1>5. QED
  BY <1>3, <1>4

\* How a token begins.
LEMMA BeginsGrow ==
  ASSUME LexInv, BufInv, InToken, Char \in Alphabet, NEW st, NEW next, Flush(st, next),
         \/ Quoted(st, next) = <<Char>> /\ st \notin {"default", "white", "in_eol", "out_eol"}
         \/ Quoted(st, next) = <<>> /\ next = <<>> /\ Char \in {Blank, CR, LF}
  PROVE  Grown /\ BufInv'
<1>1. AllText' = AllText \o Quoted(st, next) /\ state' = st /\ buf' = next
  BY FlushGrows DEF Flush, Emit
<1>2. AllText \o <<>> = AllText /\ AllText \o <<Char>> = Append(AllText, Char)
  BY AllIs, ConcatFacts
<1>3. QED
  BY <1>1, <1>2 DEF Grown, BufInv

LEMMA ErrorGrows == ASSUME LexInv, BufInv, Error PROVE Grown /\ BufInv'
<1>1. /\ tokens' = Append(tokens, Token("error", <<>>)) /\ state' = state /\ buf' = buf
      /\ tokens \in Seq(TokenSet)
  BY DEF Error, LexInv
<1>2. tokens'[Len(tokens) + 1] = Token("error", <<>>) /\ Len(tokens) + 1 \in DOMAIN tokens'
  BY <1>1
<1>3. ~Accepted'
  BY <1>2 DEF Accepted, Token
<1>4. QED
  BY <1>1, <1>3 DEF Grown, BufInv

LEMMA InStringGrows == ASSUME LexInv, BufInv, Char \in Alphabet, InString PROVE Grown /\ BufInv'
<1>1. state \in {"string", "escape"} /\ buf \in Seq(Alphabet)
  BY DEF InString, LexInv
<1>2. "(" \in Alphabet
  BY DEF Alphabet, Special
<1>3. ASSUME NEW st \in {"string", "escape"}, Keep(st) PROVE Grown /\ BufInv'
  <2>1. Quoted(st, Append(buf, Char)) = <<"(">> \o Append(buf, Char)
        /\ Quoted(state, buf) = <<"(">> \o buf
    BY <1>1, <1>3, QuotedIs
  <2>2. <<"(">> \o Append(buf, Char) = Append(<<"(">> \o buf, Char)
    BY <1>1, <1>2, ConcatFacts
  <2>3. QED
    BY <1>3, <2>1, <2>2, KeepGrows
<1>4. ASSUME state = "string", Char = ")", Emit("string", buf, "default", <<>>)
      PROVE  Grown /\ BufInv'
  <2>1. AllText' = (Spelt(tokens) \o Spelling(Token("string", buf))) \o Quoted("default", <<>>)
    BY <1>1, <1>4, EmitGrows DEF Events
  <2>2. Spelling(Token("string", buf)) = Append(Quoted(state, buf), Char)
    <3>1. Spelling(Token("string", buf)) = Append(<<"(">> \o buf, ")")
      BY <1>1, SpellingIs
    <3>2. Quoted(state, buf) = <<"(">> \o buf
      BY <1>1, QuotedIs
    <3>3. QED
      BY <1>4, <3>1, <3>2
  <2>3. Quoted("default", <<>>) = <<>>
    BY QuotedIs
  <2>4. Spelt(tokens) \o Append(Quoted(state, buf), Char) = Append(AllText, Char)
    BY AllIs, ConcatFacts DEF AllText
  <2>5. Append(AllText, Char) \o <<>> = Append(AllText, Char)
    BY AllIs
  <2>6. AllText' = Append(AllText, Char)
    BY <2>1, <2>2, <2>3, <2>4, <2>5
  <2>7. BufInv'
    BY <1>4 DEF Emit, BufInv
  <2>8. QED
    BY <2>6, <2>7 DEF Grown
<1>5. CASE \E st \in {"string", "escape"} : Keep(st)
  BY <1>3, <1>5
<1>6. CASE state = "string" /\ Char = ")" /\ Emit("string", buf, "default", <<>>)
  BY <1>4, <1>6
<1>7. QED
  BY <1>5, <1>6 DEF InString, Unescaped

\* < in a string of hexadecimal digits is accepted right behind another one.
LEMMA InHexStringGrows ==
  ASSUME LexInv, BufInv, Char \in Alphabet, InHexString PROVE Grown /\ BufInv'
<1>1. state = "hex" /\ buf \in Seq(Alphabet) /\ Quoted(state, buf) = <<"<">> \o buf
  BY QuotedIs DEF InHexString, LexInv
<1>2. "<" \in Alphabet /\ ">" \in Alphabet
  BY DEF Alphabet, Special
<1>3. CASE Overflow
  BY <1>1, <1>3 DEF Overflow, Grown, BufInv
<1>4. CASE Char = "<" /\ Emit("delim", buf \o <<"<", "<">>, "default", <<>>)
  <2> DEFINE raw == buf \o <<"<", "<">>
  <2>1. raw \in Seq(Alphabet) /\ Len(raw) = Len(buf) + 2 /\ Len(buf) \in Nat
    BY <1>1, <1>2
  <2>2. buf = <<>> => raw = Append(<<"<">>, "<")
    OBVIOUS
  <2> HIDE DEF raw
  <2>3. /\ tokens' = Append(tokens, Token("delim", raw)) /\ state' = "default" /\ buf' = <<>>
        /\ tokens \in Seq(TokenSet)
    BY <1>4 DEF Emit, raw, LexInv
  <2>4. CASE buf # <<>>
    <3>1. Len(raw) > 2
      BY <1>1, <2>1, <2>4
    <3>2. tokens'[Len(tokens) + 1] = Token("delim", raw) /\ Len(tokens) + 1 \in DOMAIN tokens'
      BY <2>3
    <3>3. ~Accepted'
      BY <2>1, <3>1, <3>2 DEF Accepted, Token
    <3>4. QED
      BY <2>3, <3>3 DEF Grown, BufInv
  <2>5. CASE buf = <<>>
    <3>1. AllText' = (Spelt(tokens) \o Spelling(Token("delim", raw))) \o Quoted("default", <<>>)
      BY <1>4, <2>1, EmitGrows DEF Events, raw
    <3>2. Spelling(Token("delim", raw)) = raw
      <4>1. Spelling(Token("delim", raw)) = Quoted("delim", raw)
        BY <2>1, SpellingIs
      <4>2. QED
        BY <4>1, QuotedIs
    <3>3. Quoted("default", <<>>) = <<>>
      BY QuotedIs
    <3>4. Quoted(state, buf) = <<"<">>
      BY <1>1, <2>5
    <3>5. Spelt(tokens) \o Append(Quoted(state, buf), Char) = Append(AllText, Char)
      BY AllIs, ConcatFacts DEF AllText
    <3>6. Append(AllText, Char) \o <<>> = Append(AllText, Char)
      BY AllIs
    <3>7. AllText' = Append(AllText, Char)
      BY <1>4, <2>2, <2>5, <3>1, <3>2, <3>3, <3>4, <3>5, <3>6
    <3>8. QED
      BY <2>3, <3>7 DEF Grown, BufInv
  <2>6. QED
    BY <2>4, <2>5
<1>5. CASE Char = ">" /\ Emit("hex", buf, "default", <<>>)
  <2>1. AllText' = (Spelt(tokens) \o Spelling(Token("hex", buf))) \o Quoted("default", <<>>)
    BY <1>1, <1>5, EmitGrows DEF Events
  <2>2. Spelling(Token("hex", buf)) = Append(Quoted(state, buf), Char)
    BY <1>1, <1>5, SpellingIs
  <2>3. Quoted("default", <<>>) = <<>>
    BY QuotedIs
  <2>4. Spelt(tokens) \o Append(Quoted(state, buf), Char) = Append(AllText, Char)
    BY AllIs, ConcatFacts DEF AllText
  <2>5. Append(AllText, Char) \o <<>> = Append(AllText, Char)
    BY AllIs
  <2>6. AllText' = Append(AllText, Char)
    BY <2>1, <2>2, <2>3, <2>4, <2>5
  <2>7. BufInv'
    BY <1>5 DEF Emit, BufInv
  <2>8. QED
    BY <2>6, <2>7 DEF Grown
<1>6. CASE Keep("hex")
  <2>1. Quoted("hex", Append(buf, Char)) = <<"<">> \o Append(buf, Char)
    BY QuotedIs
  <2>2. <<"<">> \o Append(buf, Char) = Append(<<"<">> \o buf, Char)
    BY <1>1, <1>2, ConcatFacts
  <2>3. QED
    BY <1>1, <1>6, <2>1, <2>2, KeepGrows
<1>7. CASE Error
  BY <1>1, <1>7, ErrorGrows DEF BufInv
<1>8. QED
  BY <1>3, <1>4, <1>5, <1>6, <1>7 DEF InHexString

LEMMA InCommentGrows == ASSUME LexInv, BufInv, Char \in Alphabet, InComment PROVE Grown /\ BufInv'
<1>1. state = "comment" /\ buf \in Seq(Alphabet) /\ Quoted(state, buf) = <<"%">> \o buf
  BY QuotedIs DEF InComment, LexInv
<1>2. "%" \in Alphabet
  BY DEF Alphabet, Special
<1>3. ASSUME NEW st \in {"out_eol", "in_eol"}, Char \in {LF, CR}, Emit("comment", buf, st, <<>>)
      PROVE  Grown /\ BufInv'
  <2>1. AllText' = (Spelt(tokens) \o Spelling(Token("comment", buf))) \o Quoted(st, <<>>)
    BY <1>1, <1>3, EmitGrows DEF Events
  <2>2. Spelling(Token("comment", buf)) = Quoted("comment", buf)
    BY <1>1, SpellingIs
  <2>3. Quoted(st, <<>>) = <<>>
    BY <1>3, QuotedIs
  <2>4. AllText \o <<>> = AllText
    BY AllIs
  <2>5. AllText' = AllText
    BY <1>1, <2>1, <2>2, <2>3, <2>4 DEF AllText
  <2>6. BufInv'
    BY <1>3 DEF Emit, BufInv
  <2>7. QED
    BY <1>3, <2>5, <2>6 DEF Grown
<1>4. CASE Keep("comment")
  <2>1. Quoted("comment", Append(buf, Char)) = <<"%">> \o Append(buf, Char)
    BY QuotedIs
  <2>2. <<"%">> \o Append(buf, Char) = Append(<<"%">> \o buf, Char)
    BY <1>1, <1>2, ConcatFacts
  <2>3. QED
    BY <1>1, <1>4, <2>1, <2>2, KeepGrows
<1>5. QED
  BY <1>3, <1>4 DEF InComment

LEMMA WhiteSpaceGrows == ASSUME LexInv, BufInv, Char \in Alphabet, WhiteSpace PROVE Grown /\ BufInv'
<1>1. InToken /\ buf \in Seq(Alphabet) /\ Char \in {Blank, CR, LF}
  BY DEF WhiteSpace, LexInv
<1>2. ASSUME NEW st \in {"white", "in_eol", "out_eol"}, Flush(st, <<>>) PROVE Grown /\ BufInv'
  <2>1. Quoted(st, <<>>) = <<>>
    BY <1>2, QuotedIs
  <2>2. QED
    BY <1>1, <1>2, <2>1, BeginsGrow
<1>3. CASE UNCHANGED <<state, buf, tokens, halted>>
  BY <1>1, <1>3 DEF Grown, AllText, BufInv
<1>4. CASE CompletesEOL /\ Emit("none", buf, "out_eol", buf)
  <2>1. state = "in_eol" /\ buf = <<>> /\ tokens' = tokens /\ state' = "out_eol" /\ buf' = buf
    BY <1>4 DEF CompletesEOL, BufInv, Emit
  <2>2. Quoted("in_eol", buf) = buf /\ Quoted("out_eol", buf) = buf
    BY QuotedIs
  <2>3. AllText' = AllText
    BY <2>1, <2>2 DEF AllText
  <2>4. QED
    BY <1>1, <2>1, <2>3 DEF Grown, BufInv
<1>5. QED
  BY <1>2, <1>3, <1>4 DEF WhiteSpace

LEMMA DelimiterGrows == ASSUME LexInv, BufInv, Char \in Alphabet, Delimiter PROVE Grown /\ BufInv'
<1>1. InToken /\ buf \in Seq(Alphabet)
  BY DEF Delimiter, LexInv
<1>2. ASSUME NEW st, NEW next, Flush(st, next), Quoted(st, next) = <<Char>>,
             st \in {"hex", "delim", "name", "comment"}
      PROVE  Grown /\ BufInv'
  BY <1>1, <1>2, BeginsGrow
<1>3. CASE Error
  BY <1>3, ErrorGrows
<1>4. CASE Char = "<" /\ Flush("hex", <<>>)
  <2>1. Quoted("hex", <<>>) = <<"<">> \o <<>>
    BY QuotedIs
  <2>2. Quoted("hex", <<>>) = <<Char>>
    BY <1>4, <2>1
  <2>3. QED
    BY <1>2, <1>4, <2>2
<1>5. CASE Char = "%" /\ Flush("comment", <<>>)
  <2>1. Quoted("comment", <<>>) = <<"%">> \o <<>>
    BY QuotedIs
  <2>2. Quoted("comment", <<>>) = <<Char>>
    BY <1>5, <2>1
  <2>3. QED
    BY <1>2, <1>5, <2>2
<1>6. CASE \E st \in {"delim", "name"} : Flush(st, <<Char>>)
  <2>1. \A st \in {"delim", "name"} : Quoted(st, <<Char>>) = <<Char>>
    BY QuotedIs
  <2>2. QED
    BY <1>2, <1>6, <2>1
<1>7. CASE state = "delim" /\ Emit("delim", Append(buf, Char), "default", <<>>)
  <2>1. Append(buf, Char) \in Seq(Alphabet)
    BY <1>1
  <2>2. AllText' = (Spelt(tokens) \o Spelling(Token("delim", Append(buf, Char)))) \o Quoted("default", <<>>)
    BY <1>7, <2>1, EmitGrows DEF Events
  <2>3. Spelling(Token("delim", Append(buf, Char))) = Quoted("delim", Append(buf, Char))
    BY <2>1, SpellingIs
  <2>4. Quoted("delim", Append(buf, Char)) = Append(buf, Char) /\ Quoted("default", <<>>) = <<>>
        /\ Quoted("delim", buf) = buf
    BY QuotedIs
  <2>5. Spelt(tokens) \o Append(Quoted(state, buf), Char) = Append(AllText, Char)
    BY AllIs, ConcatFacts DEF AllText
  <2>6. Append(AllText, Char) \o <<>> = Append(AllText, Char)
    BY AllIs
  <2>7. AllText' = Append(AllText, Char)
    BY <1>7, <2>2, <2>3, <2>4, <2>5, <2>6
  <2>8. BufInv'
    BY <1>7 DEF Emit, BufInv
  <2>9. QED
    BY <2>7, <2>8 DEF Grown
<1>8. QED
  BY <1>3, <1>4, <1>5, <1>6, <1>7 DEF Delimiter

LEMMA OpenStringGrows == ASSUME LexInv, BufInv, Char \in Alphabet, OpenString PROVE Grown /\ BufInv'
<1>1. InToken /\ Char = "(" /\ Flush("string", <<>>)
  BY DEF OpenString
<1>2. Quoted("string", <<>>) = <<"(">> \o <<>>
  BY QuotedIs
<1>3. Quoted("string", <<>>) = <<Char>>
  BY <1>1, <1>2
<1>4. QED
  BY <1>1, <1>3, BeginsGrow

LEMMA RegularGrows == ASSUME LexInv, BufInv, Char \in Alphabet, Regular PROVE Grown /\ BufInv'
<1>1. InToken /\ buf \in Seq(Alphabet)
  BY DEF Regular, LexInv
<1>2. CASE state \in {"regular", "name"} /\ Keep(state)
  <2>1. Quoted(state, Append(buf, Char)) = Append(buf, Char) /\ Quoted(state, buf) = buf
    BY <1>2, QuotedIs
  <2>2. QED
    BY <1>2, <2>1, KeepGrows
<1>3. CASE Flush("regular", <<Char>>)
  <2>1. Quoted("regular", <<Char>>) = <<Char>>
    BY QuotedIs
  <2>2. QED
    BY <1>1, <1>3, <2>1, BeginsGrow
<1>4. QED
  BY <1>2, <1>3 DEF Regular

-----------------------------------------------------------------------------

KeptInv == LexInv /\ BufInv /\ EveryCharKept

\* A refused character stays refused.
LEMMA AcceptedBefore ==
  ASSUME tokens \in Seq(TokenSet), NEW tok, tokens' \in {tokens, Append(tokens, tok)}, Accepted'
  PROVE  Accepted
<1>1. \A i \in DOMAIN tokens : i \in DOMAIN tokens' /\ tokens'[i] = tokens[i]
  OBVIOUS
<1>2. QED
  BY <1>1 DEF Accepted

LEMMA TokensGrow ==
  ASSUME LexStep PROVE \E tok : tokens' \in {tokens, Append(tokens, tok)}
<1>1. ASSUME NEW st, Keep(st) PROVE tokens' = tokens
  BY <1>1 DEF Keep, Overflow
<1>2. ASSUME NEW event, NEW raw, NEW st, NEW next, Emit(event, raw, st, next)
      PROVE  \E tok : tokens' \in {tokens, Append(tokens, tok)}
  BY <1>2 DEF Emit
<1>3. ASSUME NEW st, NEW next, Flush(st, next) PROVE \E tok : tokens' \in {tokens, Append(tokens, tok)}
  BY <1>2, <1>3 DEF Flush
<1>4. CASE LineEnd
  BY <1>2, <1>4 DEF LineEnd
<1>5. CASE EndOfText
  BY <1>5 DEF EndOfText
<1>6. CASE ReadChar
  <2>1. CASE InString
    BY <1>1, <1>2, <2>1 DEF InString
  <2>2. CASE InHexString
    BY <1>1, <1>2, <2>2 DEF InHexString, Overflow, Error
  <2>3. CASE InComment
    BY <1>1, <1>2, <2>3 DEF InComment
  <2>4. CASE WhiteSpace
    BY <1>2, <1>3, <2>4 DEF WhiteSpace
  <2>5. CASE Delimiter
    BY <1>2, <1>3, <2>5 DEF Delimiter, Error
  <2>6. CASE OpenString \/ Regular
    BY <1>1, <1>3, <2>6 DEF OpenString, Regular
  <2>7. QED
    BY <1>6, <2>1, <2>2, <2>3, <2>4, <2>5, <2>6 DEF ReadChar
<1>7. QED
  BY <1>4, <1>5, <1>6 DEF LexStep

LEMMA KeptIs ==
  EveryCharKept <=> (Accepted /\ halted # "overflow" => Ink(AllText) = Ink(SubSeq(text.chars, 1, pos)))
BY DEF EveryCharKept, AllText, Spelt

LEMMA NothingSpelt ==
  ASSUME NEW event \in {"eol", "eof"}
  PROVE  Spelling(Token(event, <<>>)) = <<>>
<1>1. <<>> \in Seq(Alphabet)
  OBVIOUS
<1>2. Spelling(Token(event, <<>>)) = Quoted(event, <<>>)
  BY <1>1, SpellingIs
<1>3. QED
  BY <1>2, QuotedIs

LEMMA LexStepKeeps == ASSUME KeptInv, LexStep PROVE KeptInv'
<1>1. LexInv /\ BufInv /\ EveryCharKept /\ LexInv'
  BY LexStepOK DEF KeptInv
<1>2. /\ buf \in Seq(Alphabet) /\ tokens \in Seq(TokenSet) /\ halted = "no"
      /\ text.chars \in Seq(Alphabet) /\ pos \in 0..Len(text.chars)
  BY <1>1 DEF LexInv, LexStep, LineEnd, ReadChar, EndOfText
<1>3. Accepted' => Accepted
  BY <1>2, TokensGrow, AcceptedBefore
<1>4. Accepted' => Ink(AllText) = Ink(SubSeq(text.chars, 1, pos))
  BY <1>1, <1>2, <1>3, KeptIs
<1>5. (Accepted' /\ halted' # "overflow" => Ink(AllText') = Ink(SubSeq(text'.chars, 1, pos')))
        => EveryCharKept'
  <2>1. (EveryCharKept <=> (Accepted /\ halted # "overflow" => Ink(AllText) = Ink(SubSeq(text.chars, 1, pos))))'
    BY KeptIs, PTL
  <2>2. QED
    BY <2>1
<1>6. CASE LineEnd
  <2>1. state = "out_eol" /\ Emit("eol", <<>>, "default", buf) /\ UNCHANGED <<text, pos>>
    BY <1>6 DEF LineEnd
  <2>2. buf = <<>>
    BY <1>1, <2>1 DEF BufInv
  <2>3. AllText' = (Spelt(tokens) \o Spelling(Token("eol", <<>>))) \o Quoted("default", buf)
    <3>1. "eol" \in Events \ {"none"} /\ <<>> \in Seq(Alphabet)
      BY DEF Events
    <3>2. QED
      BY <1>1, <2>1, <3>1, EmitGrows
  <2>4. Spelling(Token("eol", <<>>)) = <<>>
    BY NothingSpelt
  <2>5. Quoted("default", buf) = buf /\ Quoted("out_eol", buf) = buf
    BY QuotedIs
  <2>6. AllText' = AllText
    <3>1. Spelt(tokens) \o <<>> = Spelt(tokens)
      BY <1>1, AllIs
    <3>2. QED
      BY <2>1, <2>3, <2>4, <2>5, <3>1 DEF AllText
  <2>7. BufInv' /\ EveryCharKept'
    BY <1>4, <1>5, <2>1, <2>2, <2>6 DEF BufInv, Emit
  <2>8. QED
    BY <1>1, <2>7 DEF KeptInv
<1>7. CASE EndOfText
  <2>1. /\ tokens' = Append(tokens, Token("eof", <<>>))
        /\ UNCHANGED <<text, pos, state, buf>>
    BY <1>7 DEF EndOfText
  <2>2. Token("eof", <<>>) \in TokenSet
    BY DEF Token, TokenSet, Events
  <2>3. Spelt(tokens') = Spelt(tokens) \o Spelling(Token("eof", <<>>))
    BY <1>2, <2>1, <2>2, SpeltAppend
  <2>4. Spelling(Token("eof", <<>>)) = <<>>
    BY NothingSpelt
  <2>5. AllText' = AllText
    <3>1. Spelt(tokens) \o <<>> = Spelt(tokens)
      BY <1>1, AllIs
    <3>2. Spelt(tokens') = Spelt(tokens)
      BY <2>3, <2>4, <3>1
    <3>3. AllText' = Spelt(tokens') \o Quoted(state, buf)
      BY <2>1 DEF AllText
    <3>4. QED
      BY <3>2, <3>3 DEF AllText
  <2>6. BufInv' /\ EveryCharKept'
    BY <1>1, <1>4, <1>5, <2>1, <2>5 DEF BufInv
  <2>7. QED
    BY <1>1, <2>6 DEF KeptInv
<1>8. CASE ReadChar
  <2>1. pos < Len(text.chars) /\ pos' = pos + 1 /\ text' = text
    BY <1>8 DEF ReadChar
  <2>2. Char \in Alphabet /\ SubSeq(text.chars, 1, pos + 1) = Append(SubSeq(text.chars, 1, pos), Char)
        /\ SubSeq(text.chars, 1, pos) \in Seq(Alphabet)
    BY <1>2, <2>1 DEF Char
  <2>3. Grown /\ BufInv'
    BY <1>1, <1>8, <2>2, InStringGrows, InHexStringGrows, InCommentGrows, WhiteSpaceGrows, DelimiterGrows,
       OpenStringGrows, RegularGrows DEF ReadChar
  <2>4. AllText \in Seq(Alphabet)
    BY <1>1, AllIs
  <2>5. ASSUME Accepted', halted' # "overflow" PROVE Ink(AllText') = Ink(SubSeq(text'.chars, 1, pos'))
    <3>1. Ink(AllText) = Ink(SubSeq(text.chars, 1, pos))
      BY <1>4, <2>5
    <3>2. Ink(Append(AllText, Char)) = IF Char \in {Blank, CR, LF} THEN Ink(AllText) ELSE Ink(AllText) \o <<Char>>
      BY <2>2, <2>4, InkAppend
    <3>3. Ink(SubSeq(text'.chars, 1, pos')) =
            IF Char \in {Blank, CR, LF} THEN Ink(AllText) ELSE Ink(AllText) \o <<Char>>
      <4>1. SubSeq(text'.chars, 1, pos') = Append(SubSeq(text.chars, 1, pos), Char)
        BY <2>1, <2>2
      <4>2. Ink(Append(SubSeq(text.chars, 1, pos), Char)) =
              IF Char \in {Blank, CR, LF} THEN Ink(SubSeq(text.chars, 1, pos))
              ELSE Ink(SubSeq(text.chars, 1, pos)) \o <<Char>>
        BY <2>2, InkAppend
      <4>3. QED
        BY <3>1, <4>1, <4>2
    <3>4. CASE AllText' = Append(AllText, Char)
      <4>1. \/ Char \in {Blank, CR, LF}
            \/ Char \notin {Blank, CR, LF}
        OBVIOUS
      <4>2. Ink(AllText') = Ink(Append(AllText, Char))
        BY <3>4
      <4>3. QED
        BY ONLY <4>2, <3>2, <3>3
    <3>5. CASE Char \in {Blank, CR, LF} /\ AllText' = AllText
      <4>1. Ink(AllText') = Ink(AllText)
        BY <3>5
      <4>2. QED
        BY ONLY <3>5, <4>1, <3>3
    <3>6. QED
      BY <2>3, <2>5, <3>4, <3>5 DEF Grown
  <2>6. QED
    BY <1>1, <1>5, <2>3, <2>5 DEF KeptInv
<1>9. QED
  BY <1>6, <1>7, <1>8 DEF LexStep

\* In a text that is lexed to its end every character but white space is in one token, in
\* the order of the text, or still in the buffer, for texts of any characters and length.
THEOREM NoCharacterIsLost == OpeningSpec => []NothingLost
<1> DEFINE Inv == LexInv /\ PhaseInv /\ (phase = "lex" => KeptInv)
<1>1. OpeningInit => Inv
  <2> SUFFICES ASSUME OpeningInit PROVE LexInv /\ PhaseInv /\ KeptInv
    OBVIOUS
  <2>1. LexInv /\ PhaseInv
    BY InitInv
  <2>2. pos = 0 /\ state = "default" /\ buf = <<>> /\ tokens = <<>>
    BY DEF OpeningInit, LexInit
  <2>3. Spelt(tokens) = <<>>
    BY <2>2 DEF Spelt, FlattenSeq
  <2>4. Quoted(state, buf) = <<>>
    BY <2>2, QuotedIs
  <2>5. AllText = <<>>
    BY <2>3, <2>4 DEF AllText
  <2>6. SubSeq(text.chars, 1, pos) = <<>>
    BY <2>1, <2>2 DEF LexInv
  <2>7. EveryCharKept
    BY <2>5, <2>6, KeptIs
  <2>8. QED
    BY <2>1, <2>2, <2>7 DEF KeptInv, BufInv
<1>2. Inv /\ [OpeningNext]_ovars => Inv'
  <2> SUFFICES ASSUME Inv, [OpeningNext]_ovars, phase' = "lex" PROVE KeptInv'
    BY NextInv
  <2>1. CASE Lex
    BY <2>1, LexStepKeeps DEF Lex
  <2>2. CASE UNCHANGED ovars
    BY <2>2 DEF ovars, vars, lexer, KeptInv, LexInv, BufInv, EveryCharKept, Accepted
  <2>3. CASE ~Lex /\ ~UNCHANGED ovars
    BY <2>3 DEF OpeningNext, Version, SeekEnd, Scan, ScanEnds, NotFound, Number, NumberRead
  <2>4. QED
    BY <2>1, <2>2, <2>3
<1>3. Inv => NothingLost
  BY DEF NothingLost, KeptInv
<1>4. QED
  BY <1>1, <1>2, <1>3, PTL DEF OpeningSpec

-----------------------------------------------------------------------------
(* Which words a text has been read as                                      *)

Word(k) == text.of[k]
First(k) == text.of[k].at
Final(k) == LastOf(text.of[k])
Many == Len(text.of)

\* Where the brackets of a string are none.
Escaped(raw) == CHOOSE esc \in SUBSET (1..Len(raw)) :
  /\ Escapes(raw, esc)
  /\ \A n \in 0..Len(raw) : Nesting(raw, esc, n) > 0
  /\ Nesting(raw, esc, Len(raw)) = 1
  /\ \A i \in 1..Len(raw) : i = Len(raw) /\ raw[i] = Backslash => i \in esc

\* The buffer has the first m characters of raw.
Held(raw, m) == Len(buf) = m /\ \A i \in 1..m : buf[i] = raw[i]

\* The first n words were read.
Shows(n) == Len(Read(tokens)) = n /\ \A k \in 1..n : Read(tokens)[k] = Token(Word(k).event, Word(k).raw)

\* The lexer stands behind word n and before the next.
Between(n) ==
  /\ buf = <<>> /\ state \in {"default", "white", "in_eol"}
  /\ n > 0 => Final(n) <= pos
  /\ n < Many => pos < First(n + 1)

\* A word that was read to its last character, which the next character will end.
Ended(k) ==
  /\ pos = Final(k)
  /\ Word(k).event \in {"regular", "name", "delim"} /\ state = Word(k).event /\ buf = Word(k).raw
  /\ Word(k).event = "delim" => buf \in {<<"[">>, <<"]">>}

\* The lexer stands in a string behind m of its characters.
InsideString(raw, m) ==
  /\ state \in {"string", "escape"} /\ Held(raw, m)
  /\ string_level = Nesting(raw, Escaped(raw), m)
  /\ state = "escape" <=> m > 0 /\ raw[m] = Backslash /\ m \notin Escaped(raw)

\* The lexer stands in word k, or right behind its last character.
InWord(k) ==
  LET event == Word(k).event
      raw == Word(k).raw
      m == pos - First(k)
  IN  /\ First(k) <= pos /\ pos <= Final(k)
      /\ \/ event \in {"regular", "name"} /\ state = event /\ Held(raw, m + 1)
         \/ event = "string" /\ pos < Final(k) /\ InsideString(raw, m)
         \/ event = "hex" /\ pos < Final(k) /\ state = "hex" /\ Held(raw, m)
         \/ event = "delim" /\ raw = <<"<", "<">> /\ pos < Final(k) /\ state = "hex" /\ buf = <<>>
         \/ event = "delim" /\ raw = <<">", ">">> /\ pos < Final(k) /\ state = "delim" /\ buf = <<">">>
         \/ event = "delim" /\ raw \in {<<"[">>, <<"]">>} /\ state = "delim" /\ buf = raw
         \/ event = "comment" /\ state = "comment" /\ Held(raw, m)
         \/ event = "eol" /\ state = "out_eol" /\ buf = <<>>

\* What lexing a text of known words keeps.
WordsInv ==
  \E n \in 0..Many :
    /\ Shows(n)
    /\ halted = "no" => Between(n) \/ (n < Many /\ InWord(n + 1))
    /\ halted = "end" => \/ n = Many /\ buf = <<>>
                         \/ n + 1 = Many /\ buf = Word(Many).raw /\ buf # <<>> /\ Pending[state] = Word(Many).event
    /\ halted = "overflow" => \E k \in 1..Many : Len(Word(k).raw) > BufSize

\* The characters of a text, and the words that are meant by it.
TextOK == text.chars \in Seq(Alphabet) /\ Spelled(text.chars, text.of)

\* What a word is spelled like, by its event.
AsItIs(spelled, raw) == Len(spelled) = Len(raw) /\ \A j \in 1..Len(raw) : spelled[j] = raw[j]
Framed(spelled, raw, open, close) ==
  /\ Len(spelled) = Len(raw) + 2 /\ spelled[1] = open /\ spelled[Len(raw) + 2] = close
  /\ \A j \in 1..Len(raw) : spelled[j + 1] = raw[j]
Marked(spelled, raw, sign) ==
  /\ Len(spelled) = Len(raw) + 1 /\ spelled[1] = sign
  /\ \A j \in 1..Len(raw) : spelled[j + 1] = raw[j]

LEMMA JoinedText ==
  ASSUME NEW S, NEW a \in Seq(S), NEW c \in S, NEW d \in S
  PROVE  /\ Marked(<<c>> \o a, a, c)
         /\ Framed((<<c>> \o a) \o <<d>>, a, c, d)
         /\ (<<c>> \o a) \o <<>> = <<c>> \o a /\ a \o <<>> = a
<1>1. PICK b : b = <<c>> \o a
  OBVIOUS
<1>2. /\ b \in Seq(S) /\ Len(b) = Len(a) + 1 /\ b[1] = c /\ Len(a) \in Nat
      /\ \A j \in 1..Len(a) : b[j + 1] = a[j]
  BY <1>1
<1>3. PICK r : r = b \o <<d>>
  OBVIOUS
<1>4. /\ Len(r) = Len(b) + 1 /\ r[Len(b) + 1] = d
      /\ \A j \in 1..Len(b) : r[j] = b[j]
  BY <1>2, <1>3
<1>5. Framed(r, a, c, d)
  <2>1. 1 \in 1..Len(b) /\ \A j \in 1..Len(a) : j + 1 \in 1..Len(b)
    BY <1>2
  <2>2. Len(r) = Len(a) + 2 /\ r[Len(a) + 2] = d
    BY <1>2, <1>4
  <2>3. QED
    BY <1>2, <1>4, <2>1, <2>2 DEF Framed
<1>6. b \o <<>> = b /\ a \o <<>> = a
  BY <1>2
<1>7. QED
  BY <1>1, <1>2, <1>3, <1>5, <1>6 DEF Marked

LEMMA SpelledIs ==
  ASSUME NEW w, w \in Words
  PROVE  /\ w.event \in {"regular", "name", "delim"} => AsItIs(SpelledAs(w), w.raw)
         /\ w.event = "string" => Framed(SpelledAs(w), w.raw, "(", ")")
         /\ w.event = "hex" => Framed(SpelledAs(w), w.raw, "<", ">")
         /\ w.event = "comment" => Marked(SpelledAs(w), w.raw, "%")
         /\ w.event = "eol" => SpelledAs(w) = <<LF>>
         /\ w.event \in {"regular", "name", "string", "hex", "delim", "comment", "eol"}
         /\ w.raw \in Seq(Alphabet) /\ w.at \in Nat \ {0}
<1>1. /\ w.event \in {"regular", "name", "string", "hex", "delim", "comment", "eol"}
      /\ w.raw \in Seq(Alphabet) /\ w.at \in Nat \ {0}
  BY DEF Words
<1>2. PICK raw, event : raw = w.raw /\ event = w.event
  OBVIOUS
<1>3. "(" \in Alphabet /\ ")" \in Alphabet /\ "<" \in Alphabet /\ ">" \in Alphabet /\ "%" \in Alphabet
  BY DEF Alphabet, Special
<1>4. event = "eol" => SpelledAs(w) = <<LF>>
  BY <1>2 DEF SpelledAs
<1>5. event # "eol" => SpelledAs(w) = Quoted(event, raw) \o (CASE event = "string" -> <<")">>
                                                               [] event = "hex" -> <<">">>
                                                               [] OTHER -> <<>>)
  BY <1>2 DEF SpelledAs, Spelling
<1>6. event \in {"regular", "name", "delim"} => AsItIs(SpelledAs(w), raw)
  <2>1. event \in {"regular", "name", "delim"} => SpelledAs(w) = raw \o <<>>
    BY <1>5, QuotedIs
  <2>2. raw \o <<>> = raw
    BY <1>1, <1>2
  <2>3. QED
    BY <2>1, <2>2 DEF AsItIs
<1>7. event = "string" => SpelledAs(w) = (<<"(">> \o raw) \o <<")">>
  BY <1>5, QuotedIs
<1>8. event = "hex" => SpelledAs(w) = (<<"<">> \o raw) \o <<">">>
  BY <1>5, QuotedIs
<1>9. event = "comment" => SpelledAs(w) = (<<"%">> \o raw) \o <<>>
  BY <1>5, QuotedIs
<1>10. /\ Framed((<<"(">> \o raw) \o <<")">>, raw, "(", ")") /\ Framed((<<"<">> \o raw) \o <<">">>, raw, "<", ">")
       /\ Marked(<<"%">> \o raw, raw, "%") /\ (<<"%">> \o raw) \o <<>> = <<"%">> \o raw
  BY <1>1, <1>2, <1>3, JoinedText
<1>11. QED
  BY <1>1, <1>2, <1>4, <1>6, <1>7, <1>8, <1>9, <1>10

\* A word is not empty.
LEMMA WordSize ==
  ASSUME NEW w, w \in Words, WellSpelled(w)
  PROVE  Len(w.raw) \in Nat /\ Len(SpelledAs(w)) \in Nat /\ Len(SpelledAs(w)) > 0
<1>1. PICK raw, size, spelled : raw = w.raw /\ size = Len(raw) /\ spelled = SpelledAs(w)
  OBVIOUS
<1>2. raw \in Seq(Alphabet) /\ size \in Nat
  BY <1>1, SpelledIs
<1>3. CASE w.event \in {"regular", "name", "delim"}
  <2>1. Len(spelled) = size
    <3>1. AsItIs(SpelledAs(w), w.raw)
      BY <1>3, SpelledIs
    <3>2. QED
      BY <1>1, <3>1 DEF AsItIs
  <2>2. size > 0
    <3>1. w.event \in {"regular", "name"} => Len(w.raw) > 0
      BY DEF WellSpelled
    <3>2. w.event = "delim" => w.raw \in {<<"<", "<">>, <<">", ">">>, <<"[">>, <<"]">>}
      BY DEF WellSpelled
    <3>3. Len(<<"<", "<">>) = 2 /\ Len(<<">", ">">>) = 2 /\ Len(<<"[">>) = 1 /\ Len(<<"]">>) = 1
      OBVIOUS
    <3>4. w.event = "delim" => Len(w.raw) > 0
      <4>1. Len(<<"<", "<">>) > 0 /\ Len(<<">", ">">>) > 0 /\ Len(<<"[">>) > 0 /\ Len(<<"]">>) > 0
        BY <3>3
      <4>2. PICK s, t, u, v : s = <<"<", "<">> /\ t = <<">", ">">> /\ u = <<"[">> /\ v = <<"]">>
        OBVIOUS
      <4>3. Len(s) > 0 /\ Len(t) > 0 /\ Len(u) > 0 /\ Len(v) > 0
        BY <4>1, <4>2
      <4>4. w.event = "delim" => w.raw \in {s, t, u, v}
        BY <3>2, <4>2
      <4>5. QED
        BY ONLY <4>3, <4>4
    <3>5. QED
      BY <1>1, <1>3, <3>1, <3>4
  <2>3. QED
    BY <1>1, <1>2, <2>1, <2>2
<1>4. CASE w.event \in {"string", "hex"}
  BY <1>1, <1>2, <1>4, SpelledIs DEF Framed
<1>5. CASE w.event = "comment"
  BY <1>1, <1>2, <1>5, SpelledIs DEF Marked
<1>6. CASE w.event = "eol"
  <2>1. SpelledAs(w) = <<LF>>
    BY <1>6 DEF SpelledAs
  <2>2. QED
    BY <1>1, <1>2, <2>1
<1>7. w.event \in {"regular", "name", "string", "hex", "delim", "comment", "eol"}
  BY DEF Words
<1>8. QED
  BY <1>3, <1>4, <1>5, <1>6, <1>7

\* Where words stand.
LEMMA WordFacts ==
  ASSUME TextOK
  PROVE  /\ Many \in Nat
         /\ \A k \in 1..Many :
              /\ Word(k) \in Words /\ WellSpelled(Word(k))
              /\ First(k) \in Nat \ {0} /\ Final(k) \in Nat /\ First(k) <= Final(k) /\ Final(k) <= Len(text.chars)
              /\ Final(k) = First(k) + Len(SpelledAs(Word(k))) - 1
<1>1. text.of \in Seq(Words)
  BY DEF TextOK, Spelled
<1>2. Many \in Nat /\ \A k \in 1..Many : Word(k) \in Words
  BY <1>1 DEF Many, Word
<1>3. ASSUME NEW k \in 1..Many
      PROVE  /\ Word(k) \in Words /\ WellSpelled(Word(k))
             /\ First(k) \in Nat \ {0} /\ Final(k) \in Nat /\ First(k) <= Final(k) /\ Final(k) <= Len(text.chars)
             /\ Final(k) = First(k) + Len(SpelledAs(Word(k))) - 1
  <2>1. WellSpelled(Word(k)) /\ LastOf(Word(k)) <= Len(text.chars)
    BY <1>3 DEF TextOK, Spelled, Many, Word
  <2>2. PICK w, size : w = Word(k) /\ size = Len(SpelledAs(w))
    OBVIOUS
  <2>3. w \in Words /\ WellSpelled(w)
    BY <1>2, <2>1, <2>2
  <2>4. size \in Nat /\ size > 0
    BY <2>2, <2>3, WordSize
  <2>5. w.at \in Nat \ {0}
    BY <2>3 DEF Words
  <2>6. First(k) = w.at /\ Final(k) = w.at + size - 1
    BY <2>2 DEF First, Final, LastOf, Word
  <2>7. Final(k) = LastOf(w)
    BY <2>2 DEF Final, Word
  <2>8. QED
    BY <2>1, <2>2, <2>3, <2>4, <2>5, <2>6, <2>7
<1>4. QED
  BY <1>2, <1>3

\* The characters of a word.
LEMMA WordChar ==
  ASSUME TextOK, NEW k \in 1..Many, NEW p \in First(k)..Final(k)
  PROVE  /\ p - First(k) + 1 \in 1..Len(SpelledAs(Word(k)))
         /\ text.chars[p] = SpelledAs(Word(k))[p - First(k) + 1]
<1>1. PICK j, f, size : j = p - First(k) + 1 /\ f = First(k) /\ size = Len(SpelledAs(Word(k)))
  OBVIOUS
<1>2. f \in Nat \ {0} /\ Final(k) = f + size - 1 /\ Final(k) \in Nat
  BY <1>1, WordFacts
<1>3. j \in 1..size /\ p = f + j - 1
  <2>1. size \in Nat
    BY <1>1, WordFacts, WordSize
  <2>2. p \in f..(f + size - 1) /\ j = p - f + 1
    BY <1>1, <1>2
  <2>3. f \in Nat
    BY <1>2
  <2>4. QED
    BY ONLY <2>1, <2>2, <2>3
<1>4. \A i \in 1..Len(SpelledAs(Word(k))) : text.chars[Word(k).at + i - 1] = SpelledAs(Word(k))[i]
  BY DEF TextOK, Spelled, Many, Word
<1>5. Word(k).at = f
  BY <1>1 DEF First, Word
<1>6. text.chars[f + j - 1] = SpelledAs(Word(k))[j]
  BY <1>1, <1>3, <1>4, <1>5
<1>7. QED
  BY <1>1, <1>3, <1>6

\* Words stand one after the other.
LEMMA WordOrder ==
  ASSUME TextOK, NEW k \in 1..Many, NEW m \in 1..Many, k < m
  PROVE  /\ Final(k) < First(m)
         /\ Word(k).event \in {"regular", "name"} /\ Word(m).event = "regular" => Final(k) + 1 < First(m)
<1>1. m \in (k + 1)..Many
  BY WordFacts
<1>2. \A l \in (k + 1)..Len(text.of) :
        /\ LastOf(text.of[k]) < text.of[l].at
        /\ text.of[k].event \in {"regular", "name"} /\ text.of[l].event = "regular" => LastOf(text.of[k]) + 1 < text.of[l].at
  BY DEF TextOK, Spelled, Many
<1>3. QED
  BY <1>1, <1>2 DEF First, Final, Word, Many

\* A comment ends with its line.
LEMMA CommentEnds ==
  ASSUME TextOK, NEW k \in 1..Many, Word(k).event = "comment"
  PROVE  Final(k) < Len(text.chars) /\ text.chars[Final(k) + 1] \in {CR, LF}
BY DEF TextOK, Spelled, Many, Word, Final

\* What can stand behind word n: white space, or the next word.
LEMMA NextIs ==
  ASSUME TextOK, NEW n \in 0..Many, NEW p \in 0..(Len(text.chars) - 1),
         n > 0 => Final(n) <= p, n < Many => p < First(n + 1)
  PROVE  \/ text.chars[p + 1] \in {Blank, CR} /\ (n < Many => p + 1 < First(n + 1))
         \/ n < Many /\ First(n + 1) = p + 1
<1>1. Len(text.chars) \in Nat /\ Many \in Nat
  BY WordFacts DEF TextOK
<1>2. SUFFICES ASSUME ~(n < Many /\ First(n + 1) = p + 1)
               PROVE  text.chars[p + 1] \in {Blank, CR} /\ (n < Many => p + 1 < First(n + 1))
  OBVIOUS
<1>3. n < Many => n + 1 \in 1..Many /\ First(n + 1) \in Nat /\ p + 1 < First(n + 1)
  <2>1. n < Many => n + 1 \in 1..Many
    BY <1>1
  <2>2. n < Many => First(n + 1) \in Nat
    BY <2>1, WordFacts
  <2>3. QED
    BY <1>1, <1>2, <2>1, <2>2
<1>4. ASSUME NEW k \in 1..Many PROVE p + 1 \notin First(k)..Final(k)
  <2>1. First(k) \in Nat /\ Final(k) \in Nat /\ First(k) <= Final(k)
    BY WordFacts
  <2>2. CASE k <= n
    <3>1. n \in 1..Many /\ Final(n) \in Nat
      BY <1>1, <2>2, WordFacts
    <3>2. Final(k) <= Final(n)
      <4>1. CASE k = n
        BY <2>1, <4>1
      <4>2. CASE k < n
        <5>1. Final(k) < First(n) /\ First(n) <= Final(n) /\ First(n) \in Nat
          BY <3>1, <4>2, WordOrder, WordFacts
        <5>2. QED
          BY <2>1, <3>1, <5>1
      <4>3. QED
        BY <1>1, <2>2, <4>1, <4>2
    <3>3. QED
      BY <1>1, <2>1, <3>1, <3>2
  <2>3. CASE n < k
    <3>1. n + 1 \in 1..Many /\ First(n + 1) \in Nat /\ p + 1 < First(n + 1)
      BY <1>1, <1>3, <2>3
    <3>2. First(n + 1) <= First(k)
      <4>1. CASE k = n + 1
        BY <2>1, <4>1
      <4>2. CASE n + 1 < k
        <5>1. Final(n + 1) < First(k) /\ First(n + 1) <= Final(n + 1) /\ Final(n + 1) \in Nat
          BY <3>1, <4>2, WordOrder, WordFacts
        <5>2. QED
          BY <2>1, <3>1, <5>1
      <4>3. QED
        BY <1>1, <2>3, <4>1, <4>2
    <3>3. QED
      BY <1>1, <2>1, <3>1, <3>2
  <2>4. QED
    BY <1>1, <2>2, <2>3
<1>5. p + 1 \in 1..Len(text.chars)
  BY <1>1
<1>6. \A i \in 1..Len(text.chars) : text.chars[i] \in {Blank, CR} \/ \E k \in 1..Many : i \in First(k)..Final(k)
  BY DEF TextOK, Spelled, Many, First, Final
<1>7. QED
  BY <1>3, <1>4, <1>5, <1>6

-----------------------------------------------------------------------------
(* The tokens that were read                                                *)

LEMMA ReadAppend ==
  ASSUME NEW toks \in Seq(TokenSet), NEW tok \in TokenSet
  PROVE  /\ Read(toks) \in Seq(TokenSet)
         /\ Read(Append(toks, tok)) = IF tok.event \in {"white", "eof"} THEN Read(toks) ELSE Append(Read(toks), tok)
<1> DEFINE Kept(t) == IF t.event \in {"white", "eof"} THEN <<>> ELSE <<t>>
           all(s) == [i \in DOMAIN s |-> Kept(s[i])]
<1>1. \A t \in TokenSet : Kept(t) \in Seq(TokenSet)
  OBVIOUS
<1>2. all(toks) \in Seq(Seq(TokenSet))
  <2> HIDE DEF Kept
  <2>1. DOMAIN toks = 1..Len(toks) /\ Len(toks) \in Nat /\ \A i \in 1..Len(toks) : toks[i] \in TokenSet
    OBVIOUS
  <2>2. QED
    BY <1>1, <2>1
<1>3. all(Append(toks, tok)) = Append(all(toks), Kept(tok))
  <2> HIDE DEF Kept
  <2>1. /\ Len(all(toks)) = Len(toks) /\ DOMAIN Append(toks, tok) = 1..(Len(toks) + 1)
        /\ \A i \in 1..Len(toks) : Append(toks, tok)[i] = toks[i] /\ all(toks)[i] = Kept(toks[i])
        /\ Append(toks, tok)[Len(toks) + 1] = tok
    OBVIOUS
  <2>2. all(Append(toks, tok)) = [i \in 1..(Len(toks) + 1) |-> Kept(Append(toks, tok)[i])]
    BY <2>1
  <2>3. QED
    BY <1>2, <2>1, <2>2
<1>4. Kept(tok) \in Seq(TokenSet)
  BY <1>1
<1> HIDE DEF all, Kept
<1>5. /\ FlattenSeq(Append(all(toks), Kept(tok))) = FlattenSeq(all(toks)) \o Kept(tok)
      /\ FlattenSeq(all(toks)) \in Seq(TokenSet)
  BY <1>2, <1>4, FlattenAppend
<1>6. Read(toks) = FlattenSeq(all(toks)) /\ Read(Append(toks, tok)) = FlattenSeq(all(Append(toks, tok)))
  BY DEF Read, all, Kept
<1>7. Read(toks) \in Seq(TokenSet)
  BY <1>5, <1>6
<1>8. Read(toks) \o <<>> = Read(toks) /\ Read(toks) \o <<tok>> = Append(Read(toks), tok)
  BY <1>7, ConcatFacts
<1>9. QED
  BY <1>3, <1>5, <1>6, <1>7, <1>8 DEF Kept

\* White space is no word.
LEMMA ShowsStill ==
  ASSUME LexInv, NEW n \in Nat, Shows(n), text' = text,
         tokens' = tokens \/ tokens' = Append(tokens, Token("white", buf)) \/ tokens' = Append(tokens, Token("eof", <<>>))
  PROVE  Shows(n)'
<1>1. tokens \in Seq(TokenSet) /\ Token("white", buf) \in TokenSet /\ Token("eof", <<>>) \in TokenSet
  BY DEF LexInv, Token, TokenSet, Events
<1>2. Token("white", buf).event = "white" /\ Token("eof", <<>>).event = "eof"
  BY DEF Token
<1>3. Read(tokens') = Read(tokens)
  BY <1>1, <1>2, ReadAppend
<1>4. QED
  BY <1>3 DEF Shows, Word

\* A word that is complete is one more.
LEMMA ShowsMore ==
  ASSUME LexInv, NEW n \in Nat, Shows(n), text' = text,
         NEW w, w = Word(n + 1), w \in Words, tokens' = Append(tokens, Token(w.event, w.raw))
  PROVE  Shows(n + 1)'
<1>1. PICK tok, r, more : tok = Token(w.event, w.raw) /\ r = Read(tokens) /\ more = Read(tokens')
  OBVIOUS
<1>2. tokens \in Seq(TokenSet) /\ tok \in TokenSet /\ tok.event \notin {"white", "eof"}
  BY <1>1 DEF LexInv, Token, TokenSet, Events, Words
<1>3. r \in Seq(TokenSet) /\ more = Append(r, tok)
  BY <1>1, <1>2, ReadAppend
<1>4. Len(r) = n /\ \A k \in 1..n : r[k] = Token(Word(k).event, Word(k).raw)
  BY <1>1 DEF Shows
<1>5. Len(more) = n + 1 /\ (\A k \in 1..n : more[k] = r[k]) /\ more[n + 1] = tok
  BY <1>2, <1>3, <1>4
<1>6. \A k \in 1..(n + 1) : more[k] = Token(Word(k).event, Word(k).raw)
  <2>1. \A k \in 1..(n + 1) : k \in 1..n \/ k = n + 1
    OBVIOUS
  <2>2. QED
    BY <1>1, <1>4, <1>5, <2>1
<1>7. QED
  BY <1>1, <1>5, <1>6 DEF Shows, Word

-----------------------------------------------------------------------------
(* Between two words                                                        *)

\* Words up to n were read, the last one perhaps not emitted yet.
Ready(n) ==
  \/ Shows(n) /\ Between(n)
  \/ n > 0 /\ Shows(n - 1) /\ Ended(n)

LEMMA ReadyPlace ==
  ASSUME TextOK, NEW n \in 0..Many, Ready(n)
  PROVE  /\ n > 0 => Final(n) <= pos
         /\ n < Many => pos < First(n + 1)
         /\ state \in DOMAIN Pending
<1>1. CASE Between(n)
  BY <1>1, PendingStates DEF Between
<1>2. CASE n > 0 /\ Ended(n)
  <2>1. Final(n) = pos /\ state \in DOMAIN Pending
    BY <1>2, PendingStates DEF Ended
  <2>2. n \in 1..Many /\ Final(n) \in Nat
    BY <1>2, WordFacts
  <2>3. ASSUME n < Many PROVE Final(n) < First(n + 1)
    <3>1. PICK m : m = n + 1
      OBVIOUS
    <3>2. m \in 1..Many /\ n < m
      BY <2>3, <3>1, WordFacts
    <3>3. QED
      BY <2>2, <3>1, <3>2, WordOrder
  <2>4. QED
    BY <2>1, <2>2, <2>3
<1>3. QED
  BY <1>1, <1>2 DEF Ready

LEMMA FlushReads ==
  ASSUME LexInv, TextOK, NEW n \in 0..Many, Ready(n), NEW st, NEW next, Flush(st, next), text' = text
  PROVE  Shows(n)' /\ state' = st /\ buf' = next /\ halted' = halted
<1>1. /\ tokens' = IF Pending[state] = "none" THEN tokens ELSE Append(tokens, Token(Pending[state], buf))
      /\ state' = st /\ buf' = next /\ halted' = halted
  BY DEF Flush, Emit
<1>2. Many \in Nat /\ n \in Nat
  BY WordFacts
<1>3. CASE Shows(n) /\ Between(n)
  <2>1. Pending[state] \in {"none", "white"}
    BY <1>3 DEF Between, Pending
  <2>2. tokens' = tokens \/ tokens' = Append(tokens, Token("white", buf))
    BY <1>1, <2>1
  <2>3. QED
    BY <1>1, <1>2, <1>3, <2>2, ShowsStill
<1>4. CASE n > 0 /\ Shows(n - 1) /\ Ended(n)
  <2>1. PICK w, m : w = Word(n) /\ m = n - 1
    OBVIOUS
  <2>2. m \in Nat /\ m + 1 = n /\ n \in 1..Many
    BY <1>2, <1>4, <2>1
  <2>3. w \in Words /\ w = Word(m + 1)
    BY <2>1, <2>2, WordFacts
  <2>4. Pending[state] = w.event /\ buf = w.raw /\ w.event # "none"
    BY <1>4, <2>1 DEF Ended, Pending
  <2>5. tokens' = Append(tokens, Token(w.event, w.raw))
    BY <1>1, <2>4
  <2>6. Shows(m)
    BY <1>4, <2>1
  <2>7. Shows(m + 1)'
    BY <2>2, <2>3, <2>5, <2>6, ShowsMore
  <2>8. QED
    BY <1>1, <2>2, <2>7
<1>5. QED
  BY <1>3, <1>4 DEF Ready

\* Which branch takes a character between two words, or at the end of one.
LEMMA TokenBranch ==
  ASSUME ReadChar, state \in DOMAIN Pending
  PROVE  /\ Char \in {Blank, CR, LF} => WhiteSpace
         /\ Char = "(" => OpenString
         /\ Char \in {")", "<", ">", "[", "]", "/", "%"} => Delimiter
         /\ Char \notin Special => Regular
         /\ pos' = pos + 1 /\ text' = text /\ halted = "no"
<1>1. state \notin {"string", "escape", "hex", "comment"}
  BY PendingStates
<1>2. WhiteSpace \/ Delimiter \/ OpenString \/ Regular
  BY <1>1 DEF ReadChar, InString, InHexString, InComment
<1>3. WhiteSpace => Char \in {Blank, CR, LF}
  BY DEF WhiteSpace
<1>4. Delimiter => Char \in {")", "<", ">", "[", "]", "/", "%"}
  BY DEF Delimiter
<1>5. OpenString => Char = "("
  BY DEF OpenString
<1>6. Regular => Char \notin Special
  BY DEF Regular
<1>7. Special = {Blank, CR, LF, "(", ")", "<", ">", "[", "]", "/", "%"} /\ Blank = " " /\ CR = "CR" /\ LF = "LF"
  BY DEF Special, Blank, CR, LF
<1>8. QED
  BY <1>2, <1>3, <1>4, <1>5, <1>6, <1>7 DEF ReadChar

LEMMA GapOK ==
  ASSUME LexInv, TextOK, NEW n \in 0..Many, Ready(n), ReadChar, Char \in {Blank, CR},
         n < Many => pos + 1 < First(n + 1)
  PROVE  Shows(n)' /\ Between(n)' /\ halted' = "no"
<1>1. WhiteSpace /\ pos' = pos + 1 /\ text' = text /\ halted = "no" /\ pos \in Nat
  BY ReadyPlace, TokenBranch DEF LexInv
<1>2. n > 0 => Final(n) <= pos /\ Final(n) \in Nat
  BY ReadyPlace, WordFacts
<1>3. Blank # CR /\ Blank # LF /\ CR # LF
  BY DEF Blank, CR, LF
<1>4. ASSUME Shows(n)', buf' = <<>>, state' \in {"default", "white", "in_eol"}, halted' = "no"
      PROVE  Shows(n)' /\ Between(n)' /\ halted' = "no"
  <2>1. n > 0 => Final(n) <= pos + 1
    BY <1>1, <1>2
  <2>2. QED
    BY <1>1, <1>4, <2>1 DEF Between, Final, First, Many
<1>5. ASSUME NEW st \in {"white", "in_eol"}, Flush(st, <<>>)
      PROVE  Shows(n)' /\ Between(n)' /\ halted' = "no"
  BY <1>1, <1>4, <1>5, FlushReads
<1>6. CASE Char = Blank /\ state = "white"
  <2>1. UNCHANGED <<state, buf, tokens, halted>>
    BY <1>1, <1>3, <1>6 DEF WhiteSpace
  <2>2. Shows(n) /\ Between(n)
    BY <1>6 DEF Ready, Ended
  <2>3. Shows(n)'
    BY <1>1, <2>1, <2>2 DEF Shows, Word
  <2>4. QED
    BY <1>1, <1>4, <1>6, <2>1, <2>2, <2>3 DEF Between
<1>7. CASE Char = Blank /\ state # "white"
  BY <1>1, <1>3, <1>5, <1>7 DEF WhiteSpace
<1>8. CASE Char = CR
  BY <1>1, <1>3, <1>5, <1>8 DEF WhiteSpace
<1>9. QED
  BY <1>6, <1>7, <1>8

-----------------------------------------------------------------------------
(* The first character of a word                                            *)

LEMMA NestingStart == ASSUME NEW raw, NEW esc PROVE Nesting(raw, esc, 0) = 1
<1>1. \A c : {i \in (1..0) \ esc : raw[i] = c} = {}
  OBVIOUS
<1>2. Cardinality({}) = 0
  BY FS_EmptySet
<1>3. QED
  BY <1>1, <1>2 DEF Nesting

\* The characters that a word begins with.
LEMMA WordStarts ==
  ASSUME TextOK, NEW k \in 1..Many
  PROVE  LET w == Word(k)
             c == text.chars[First(k)]
         IN  /\ w.event = "regular" => c = w.raw[1] /\ c \notin Special /\ Len(w.raw) > 0
             /\ w.event = "name" => c = "/" /\ w.raw[1] = "/" /\ Len(w.raw) > 0
             /\ w.event = "string" => c = "(" /\ First(k) < Final(k)
             /\ w.event = "hex" => c = "<" /\ First(k) < Final(k)
             /\ w.event = "delim" => c = w.raw[1] /\ w.raw \in {<<"<", "<">>, <<">", ">">>, <<"[">>, <<"]">>}
             /\ w.event = "delim" /\ w.raw \in {<<"<", "<">>, <<">", ">">>} => First(k) < Final(k)
             /\ w.event = "comment" => c = "%"
             /\ w.event = "eol" => c = LF
<1>1. PICK w, c, f, l, spelled, raw :
        /\ w = Word(k) /\ c = text.chars[f] /\ f = First(k) /\ l = Final(k)
        /\ spelled = SpelledAs(w) /\ raw = w.raw
  OBVIOUS
<1>2. /\ w \in Words /\ WellSpelled(w) /\ f \in Nat \ {0} /\ l \in Nat /\ f <= l
      /\ l = f + Len(spelled) - 1
  BY <1>1, WordFacts
<1>3. c = spelled[1]
  <2>1. f \in First(k)..Final(k) /\ f - First(k) + 1 = 1
    BY <1>1, <1>2
  <2>2. QED
    BY <1>1, <2>1, WordChar
<1>4. raw \in Seq(Alphabet) /\ Len(raw) \in Nat
  BY <1>1, <1>2, SpelledIs
<1>5. w.event = "regular" => c = raw[1] /\ c \notin Special /\ Len(raw) > 0
  <2> SUFFICES ASSUME w.event = "regular" PROVE c = raw[1] /\ c \notin Special /\ Len(raw) > 0
    OBVIOUS
  <2>1. Len(raw) > 0 /\ \A i \in 1..Len(raw) : raw[i] \notin Special
    BY <1>1, <1>2 DEF WellSpelled
  <2>2. 1 \in 1..Len(raw)
    BY <1>4, <2>1
  <2>3. AsItIs(spelled, raw)
    BY <1>1, <1>2, SpelledIs
  <2>4. QED
    BY <1>3, <2>1, <2>2, <2>3 DEF AsItIs
<1>6. w.event = "name" => c = "/" /\ raw[1] = "/" /\ Len(raw) > 0
  <2> SUFFICES ASSUME w.event = "name" PROVE c = "/" /\ raw[1] = "/" /\ Len(raw) > 0
    OBVIOUS
  <2>1. Len(raw) > 0 /\ raw[1] = "/"
    BY <1>1, <1>2 DEF WellSpelled
  <2>2. 1 \in 1..Len(raw)
    BY <1>4, <2>1
  <2>3. AsItIs(spelled, raw)
    BY <1>1, <1>2, SpelledIs
  <2>4. QED
    BY <1>3, <2>1, <2>2, <2>3 DEF AsItIs
<1>7. w.event = "string" => c = "(" /\ f < l
  <2>1. w.event = "string" => Framed(spelled, raw, "(", ")")
    BY <1>1, <1>2, SpelledIs
  <2>2. QED
    BY <1>2, <1>3, <1>4, <2>1 DEF Framed
<1>8. w.event = "hex" => c = "<" /\ f < l
  <2>1. w.event = "hex" => Framed(spelled, raw, "<", ">")
    BY <1>1, <1>2, SpelledIs
  <2>2. QED
    BY <1>2, <1>3, <1>4, <2>1 DEF Framed
<1>9. w.event = "delim" => c = raw[1] /\ raw \in {<<"<", "<">>, <<">", ">">>, <<"[">>, <<"]">>}
                           /\ (raw \in {<<"<", "<">>, <<">", ">">>} => f < l)
  <2> SUFFICES ASSUME w.event = "delim"
               PROVE  c = raw[1] /\ raw \in {<<"<", "<">>, <<">", ">">>, <<"[">>, <<"]">>}
                      /\ (raw \in {<<"<", "<">>, <<">", ">">>} => f < l)
    OBVIOUS
  <2>1. raw \in {<<"<", "<">>, <<">", ">">>, <<"[">>, <<"]">>}
    BY <1>1, <1>2 DEF WellSpelled
  <2>2. Len(<<"<", "<">>) = 2 /\ Len(<<">", ">">>) = 2 /\ Len(<<"[">>) = 1 /\ Len(<<"]">>) = 1
    OBVIOUS
  <2>3. 1 \in 1..Len(raw) /\ (raw \in {<<"<", "<">>, <<">", ">">>} => Len(raw) = 2)
    <3>1. PICK s, t, u, v : s = <<"<", "<">> /\ t = <<">", ">">> /\ u = <<"[">> /\ v = <<"]">>
      OBVIOUS
    <3>2. raw \in {s, t, u, v} /\ Len(s) = 2 /\ Len(t) = 2 /\ Len(u) = 1 /\ Len(v) = 1
      BY <2>1, <2>2, <3>1
    <3>3. 1 \in 1..Len(raw) /\ (raw \in {s, t} => Len(raw) = 2)
      BY ONLY <3>2
    <3>4. QED
      BY <3>1, <3>3
  <2>4. AsItIs(spelled, raw)
    BY <1>1, <1>2, SpelledIs
  <2>5. QED
    BY <1>2, <1>3, <2>1, <2>3, <2>4 DEF AsItIs
<1>10. w.event = "comment" => c = "%"
  <2>1. w.event = "comment" => Marked(spelled, raw, "%")
    BY <1>1, <1>2, SpelledIs
  <2>2. QED
    BY <1>3, <2>1 DEF Marked
<1>11. w.event = "eol" => c = LF
  <2>1. w.event = "eol" => spelled = <<LF>>
    BY <1>1 DEF SpelledAs
  <2>2. QED
    BY <1>3, <2>1
<1>12. QED
  BY <1>1, <1>5, <1>6, <1>7, <1>8, <1>9, <1>10, <1>11

LEMMA BeginOK ==
  ASSUME LexInv, TextOK, NEW n \in 0..Many, Ready(n), ReadChar, NEW k \in 1..Many, k = n + 1, First(k) = pos + 1
  PROVE  Shows(n)' /\ InWord(k)' /\ halted' = "no"
<1>1. /\ pos' = pos + 1 /\ text' = text /\ halted = "no" /\ pos \in Nat
      /\ state \in DOMAIN Pending
  BY ReadyPlace, TokenBranch DEF LexInv
<1>2. PICK w, raw, f, l : w = Word(k) /\ raw = w.raw /\ f = First(k) /\ l = Final(k)
  OBVIOUS
<1>3. f \in Nat /\ l \in Nat /\ f <= l /\ pos' = f /\ pos' - f = 0
  BY <1>1, <1>2, WordFacts
<1>4. Char = text.chars[f]
  BY <1>2 DEF Char
<1>5. Word(k)' = w /\ First(k)' = f /\ Final(k)' = l
  BY <1>1, <1>2 DEF Word, First, Final
<1>6. \A m : Held(raw, m)' <=> Len(buf') = m /\ \A i \in 1..m : buf'[i] = raw[i]
  BY DEF Held
<1>7. ASSUME NEW st, NEW next, Flush(st, next) PROVE Shows(n)' /\ state' = st /\ buf' = next /\ halted' = "no"
  BY <1>1, <1>7, FlushReads
<1>8. raw \in Seq(Alphabet)
  BY <1>2, SpelledIs, WordFacts
<1>9. CASE w.event = "regular"
  <2>1. Char = raw[1] /\ Char \notin Special
    BY <1>2, <1>4, <1>9, WordStarts
  <2>2. Regular
    BY <1>1, <2>1, TokenBranch
  <2>3. state \notin {"regular", "name"}
    <3> SUFFICES ASSUME state \in {"regular", "name"} PROVE FALSE
      OBVIOUS
    <3>1. n > 0 /\ Ended(n)
      BY DEF Ready, Between
    <3>2. n \in 1..Many /\ n < k /\ Word(n).event \in {"regular", "name"} /\ pos = Final(n)
      BY <3>1, WordFacts DEF Ended
    <3>3. Final(n) + 1 < First(k)
      BY <1>2, <1>9, <3>2, WordOrder
    <3>4. QED
      BY <1>1, <1>2, <1>3, <3>2, <3>3
  <2>4. Flush("regular", <<Char>>)
    BY <2>2, <2>3 DEF Regular
  <2>5. Shows(n)' /\ state' = "regular" /\ buf' = <<Char>> /\ halted' = "no"
    BY <1>7, <2>4
  <2>6. Held(raw, 0 + 1)'
    BY <1>6, <2>1, <2>5
  <2>7. QED
    BY <1>2, <1>3, <1>5, <1>9, <2>5, <2>6 DEF InWord
<1>10. CASE w.event = "name"
  <2>1. Char = raw[1] /\ Char = "/"
    BY <1>2, <1>4, <1>10, WordStarts
  <2>2. Delimiter
    BY <1>1, <2>1, TokenBranch
  <2>3. Flush("name", <<Char>>)
    BY <2>1, <2>2 DEF Delimiter
  <2>4. Shows(n)' /\ state' = "name" /\ buf' = <<Char>> /\ halted' = "no"
    BY <1>7, <2>3
  <2>5. Held(raw, 0 + 1)'
    <3>1. Len(buf') = 0 + 1 /\ \A i \in 1..(0 + 1) : buf'[i] = raw[i]
      <4>1. buf'[1] = Char /\ Len(buf') = 1
        BY <2>4
      <4>2. Char = raw[1]
        BY <2>1
      <4>3. buf'[1] = raw[1]
        BY <4>1, <4>2
      <4>4. QED
        BY ONLY <4>1, <4>3
    <3>2. QED
      BY <1>6, <3>1
  <2>6. QED
    BY <1>2, <1>3, <1>5, <1>10, <2>4, <2>5 DEF InWord
<1>11. CASE w.event = "string"
  <2>1. Char = "(" /\ f < l
    BY <1>2, <1>4, <1>11, WordStarts
  <2>2. OpenString
    BY <1>1, <2>1, TokenBranch
  <2>3. Flush("string", <<>>) /\ string_level' = 1
    BY <2>2 DEF OpenString
  <2>4. Shows(n)' /\ state' = "string" /\ buf' = <<>> /\ halted' = "no"
    BY <1>7, <2>3
  <2>5. InsideString(raw, 0)'
    <3>1. Held(raw, 0)'
      BY <1>6, <2>4
    <3>2. QED
      BY <2>3, <2>4, <3>1, NestingStart DEF InsideString
  <2>6. QED
    BY <1>2, <1>3, <1>5, <1>11, <2>1, <2>4, <2>5 DEF InWord
<1>12. CASE w.event = "hex"
  <2>1. Char = "<" /\ f < l
    BY <1>2, <1>4, <1>12, WordStarts
  <2>2. Delimiter
    BY <1>1, <2>1, TokenBranch
  <2>3. Flush("hex", <<>>)
    BY <2>1, <2>2 DEF Delimiter
  <2>4. Shows(n)' /\ state' = "hex" /\ buf' = <<>> /\ halted' = "no"
    BY <1>7, <2>3
  <2>5. Held(raw, 0)'
    BY <1>6, <2>4
  <2>6. QED
    BY <1>2, <1>3, <1>5, <1>12, <2>1, <2>4, <2>5 DEF InWord
<1>13. CASE w.event = "comment"
  <2>1. Char = "%"
    BY <1>2, <1>4, <1>13, WordStarts
  <2>2. Delimiter
    BY <1>1, <2>1, TokenBranch
  <2>3. Flush("comment", <<>>)
    BY <2>1, <2>2 DEF Delimiter
  <2>4. Shows(n)' /\ state' = "comment" /\ buf' = <<>> /\ halted' = "no"
    BY <1>7, <2>3
  <2>5. Held(raw, 0)'
    BY <1>6, <2>4
  <2>6. QED
    BY <1>2, <1>3, <1>5, <1>13, <2>4, <2>5 DEF InWord
<1>14. CASE w.event = "eol"
  <2>1. Char = LF
    BY <1>2, <1>4, <1>14, WordStarts
  <2>2. WhiteSpace
    BY <1>1, <2>1, TokenBranch
  <2>3. Blank # LF /\ CR # LF
    BY DEF Blank, CR, LF
  <2>4. IF CompletesEOL THEN Emit("none", buf, "out_eol", buf) ELSE Flush("out_eol", <<>>)
    BY <2>1, <2>2, <2>3 DEF WhiteSpace
  <2>5. Shows(n)' /\ state' = "out_eol" /\ buf' = <<>> /\ halted' = "no"
    <3>1. CASE CompletesEOL
      <4>1. Shows(n) /\ buf = <<>>
        BY <3>1 DEF CompletesEOL, Ready, Between, Ended
      <4>2. tokens' = tokens /\ state' = "out_eol" /\ buf' = buf /\ halted' = halted
        BY <2>4, <3>1 DEF Emit
      <4>3. QED
        BY <1>1, <4>1, <4>2 DEF Shows, Word
    <3>2. CASE ~CompletesEOL
      BY <1>7, <2>4, <3>2
    <3>3. QED
      BY <3>1, <3>2
  <2>6. InWord(k)'
    <3>1. Word(k)'.event = "eol" /\ First(k)' <= pos' /\ pos' <= Final(k)'
      BY <1>2, <1>3, <1>5, <1>14
    <3>2. QED
      BY <2>5, <3>1 DEF InWord
  <2>7. QED
    BY <2>5, <2>6
<1>15. CASE w.event = "delim"
  <2>1. Char = raw[1] /\ raw \in {<<"<", "<">>, <<">", ">">>, <<"[">>, <<"]">>}
        /\ (raw \in {<<"<", "<">>, <<">", ">">>} => f < l)
    BY <1>2, <1>4, <1>15, WordStarts
  <2>2. Char \in {"<", ">", "[", "]"}
    BY <2>1
  <2>3. Delimiter
    BY <1>1, <2>2, TokenBranch
  <2>4. CASE raw = <<"<", "<">>
    <3>1. Char = "<"
      BY <2>1, <2>4
    <3>2. Flush("hex", <<>>)
      BY <2>3, <3>1 DEF Delimiter
    <3>3. Shows(n)' /\ state' = "hex" /\ buf' = <<>> /\ halted' = "no"
      BY <1>7, <3>2
    <3>4. QED
      BY <1>2, <1>3, <1>5, <1>15, <2>1, <2>4, <3>3 DEF InWord
  <2>5. CASE raw = <<">", ">">>
    <3>1. Char = ">"
      BY <2>1, <2>5
    <3>2. ~(state = "delim" /\ buf # <<>> /\ Last(buf) = ">")
      <4> SUFFICES ASSUME state = "delim", buf # <<>>, Last(buf) = ">" PROVE FALSE
        OBVIOUS
      <4>1. n > 0 /\ Ended(n) /\ Shows(n - 1)
        BY DEF Ready, Between
      <4>2. buf \in {<<"[">>, <<"]">>}
        BY <4>1 DEF Ended
      <4>3. Last(<<"[">>) = "[" /\ Last(<<"]">>) = "]"
        BY DEF Last
      <4>4. QED
        BY <4>2, <4>3
    <3>3. Flush("delim", <<Char>>)
      BY <2>3, <3>1, <3>2 DEF Delimiter
    <3>4. Shows(n)' /\ state' = "delim" /\ buf' = <<">">> /\ halted' = "no"
      BY <1>7, <3>1, <3>3
    <3>5. QED
      BY <1>2, <1>3, <1>5, <1>15, <2>1, <2>5, <3>4 DEF InWord
  <2>6. CASE raw \in {<<"[">>, <<"]">>}
    <3>1. Char \in {"[", "]"} /\ <<Char>> = raw
      BY <2>1, <2>6
    <3>2. Flush("delim", <<Char>>)
      BY <2>3, <3>1 DEF Delimiter
    <3>3. Shows(n)' /\ state' = "delim" /\ buf' = raw /\ halted' = "no"
      BY <1>7, <3>1, <3>2
    <3>4. QED
      BY <1>2, <1>3, <1>5, <1>15, <2>6, <3>3 DEF InWord
  <2>7. QED
    BY <2>1, <2>4, <2>5, <2>6
<1>16. QED
  <2>1. w.event \in {"regular", "name", "string", "hex", "delim", "comment", "eol"}
    BY <1>2, WordFacts DEF Words
  <2>2. QED
    BY <2>1, <1>9, <1>10, <1>11, <1>12, <1>13, <1>14, <1>15

-----------------------------------------------------------------------------
(* The next character of a word                                             *)

LEMMA WordNext ==
  ASSUME LexInv, TextOK, NEW k \in 1..Many, First(k) <= pos, pos < Final(k)
  PROVE  LET w == Word(k)
             m == pos - First(k)
         IN  /\ pos < Len(text.chars) /\ m \in Nat /\ m + 1 = pos + 1 - First(k) /\ Len(w.raw) \in Nat
             /\ w.event \in {"regular", "name", "delim"} => m + 2 <= Len(w.raw) /\ Char = w.raw[m + 2]
             /\ w.event = "string" => \/ m < Len(w.raw) /\ Char = w.raw[m + 1] /\ pos + 1 < Final(k)
                                      \/ m = Len(w.raw) /\ Char = ")" /\ pos + 1 = Final(k)
             /\ w.event = "hex" => \/ m < Len(w.raw) /\ Char = w.raw[m + 1] /\ pos + 1 < Final(k)
                                   \/ m = Len(w.raw) /\ Char = ">" /\ pos + 1 = Final(k)
             /\ w.event = "comment" => m < Len(w.raw) /\ Char = w.raw[m + 1]
             /\ w.event # "eol"
<1>1. PICK w, f, l, p, spelled, raw, size, m :
        /\ w = Word(k) /\ f = First(k) /\ l = Final(k) /\ p = pos
        /\ spelled = SpelledAs(w) /\ raw = w.raw /\ size = Len(raw) /\ m = p - f
  OBVIOUS
<1>2. /\ w \in Words /\ f \in Nat \ {0} /\ l \in Nat /\ l <= Len(text.chars)
      /\ l = f + Len(spelled) - 1 /\ p \in Nat /\ f <= p /\ p < l /\ Len(text.chars) \in Nat
  <2>1. pos \in 0..Len(text.chars) /\ Len(text.chars) \in Nat
    BY DEF LexInv
  <2>2. QED
    BY <1>1, <2>1, WordFacts
<1>3. size \in Nat /\ raw \in Seq(Alphabet)
  BY <1>1, <1>2, SpelledIs
<1>4. Char = spelled[m + 2]
  <2>1. p + 1 \in First(k)..Final(k) /\ (p + 1) - First(k) + 1 = m + 2
    <3>1. f \in Nat /\ l \in Nat /\ p \in Nat /\ f <= p /\ p < l /\ m = p - f
      BY <1>1, <1>2
    <3>2. p + 1 \in f..l /\ (p + 1) - f + 1 = m + 2
      BY ONLY <3>1
    <3>3. QED
      BY <1>1, <3>2
  <2>2. text.chars[p + 1] = spelled[(p + 1) - First(k) + 1]
    BY <1>1, <2>1, WordChar
  <2>3. QED
    BY <1>1, <2>1, <2>2 DEF Char
<1>5. m \in Nat /\ m + 2 <= Len(spelled) /\ m + 1 = p + 1 - f /\ p < Len(text.chars) /\ p = f + m
  <2>1. Len(spelled) \in Nat /\ m = p - f
    BY <1>1, WordFacts, WordSize
  <2>2. PICK long, many : long = Len(spelled) /\ many = Len(text.chars)
    OBVIOUS
  <2>3. long \in Nat /\ m = p - f /\ f \in Nat /\ l \in Nat /\ l = f + long - 1 /\ p \in Nat /\ f <= p /\ p < l
        /\ l <= many /\ many \in Nat
    BY <1>2, <2>1, <2>2
  <2>4. m \in Nat /\ m + 2 <= long /\ m + 1 = p + 1 - f /\ p < many /\ p = f + m
    BY ONLY <2>3
  <2>5. QED
    BY <2>2, <2>4
<1>6. w.event \in {"regular", "name", "delim"} => m + 2 <= size /\ Char = raw[m + 2]
  <2>1. w.event \in {"regular", "name", "delim"} => AsItIs(spelled, raw)
    BY <1>1, <1>2, SpelledIs
  <2>2. QED
    BY <1>1, <1>3, <1>4, <1>5, <2>1 DEF AsItIs
<1>7. ASSUME NEW open, NEW close, Framed(spelled, raw, open, close)
      PROVE  \/ m < size /\ Char = raw[m + 1] /\ p + 1 < l
             \/ m = size /\ Char = close /\ p + 1 = l
  <2>1. Len(spelled) = size + 2 /\ spelled[size + 2] = close /\ \A j \in 1..size : spelled[j + 1] = raw[j]
    BY <1>1, <1>7 DEF Framed
  <2>2. m <= size /\ l = f + size + 1
    BY <1>2, <1>3, <1>5, <2>1
  <2>3. CASE m < size
    <3>1. m + 1 \in 1..size /\ (m + 1) + 1 = m + 2
      BY <1>3, <1>5, <2>3
    <3>2. spelled[(m + 1) + 1] = raw[m + 1]
      BY <2>1, <3>1
    <3>3. QED
      BY <1>2, <1>3, <1>4, <1>5, <2>2, <2>3, <3>1, <3>2
  <2>4. CASE m = size
    BY <1>2, <1>3, <1>4, <1>5, <2>1, <2>2, <2>4
  <2>5. QED
    BY <1>3, <1>5, <2>2, <2>3, <2>4
<1>8. /\ w.event = "string" => Framed(spelled, raw, "(", ")")
      /\ w.event = "hex" => Framed(spelled, raw, "<", ">")
  BY <1>1, <1>2, SpelledIs
<1>9. w.event = "comment" => m < size /\ Char = raw[m + 1]
  <2> SUFFICES ASSUME w.event = "comment" PROVE m < size /\ Char = raw[m + 1]
    OBVIOUS
  <2>1. Marked(spelled, raw, "%")
    BY <1>1, <1>2, SpelledIs
  <2>2. Len(spelled) = size + 1 /\ \A j \in 1..size : spelled[j + 1] = raw[j]
    BY <1>1, <2>1 DEF Marked
  <2>3. m + 1 \in 1..size /\ (m + 1) + 1 = m + 2
    BY <1>3, <1>5, <2>2
  <2>4. spelled[(m + 1) + 1] = raw[m + 1]
    BY <2>2, <2>3
  <2>5. QED
    BY <1>3, <1>4, <1>5, <2>3, <2>4
<1>10. w.event # "eol"
  <2> SUFFICES ASSUME w.event = "eol" PROVE FALSE
    OBVIOUS
  <2>1. spelled = <<LF>>
    BY <1>1, <1>2, SpelledIs
  <2>2. Len(spelled) = 1
    BY <2>1
  <2>3. QED
    BY <1>5, <2>2
<1>11. QED
  BY <1>1, <1>3, <1>5, <1>6, <1>7, <1>8, <1>9, <1>10

\* What a character does that the word goes on with: it stands in the buffer, or there is no
\* room for it.
Full(k) == halted' = "overflow" /\ Len(Word(k).raw) > BufSize
LEMMA KeepHeld ==
  ASSUME LexInv, TextOK, halted = "no", text' = text, NEW n \in Nat, Shows(n), NEW k \in 1..Many,
         NEW st, Keep(st), NEW m \in Nat, Held(Word(k).raw, m), m < Len(Word(k).raw), Char = Word(k).raw[m + 1]
  PROVE  /\ Shows(n)'
         /\ Full(k) \/ (halted' = "no" /\ state' = st /\ Held(Word(k).raw, m + 1)')
<1>1. PICK raw, size : raw = Word(k).raw /\ size = Len(raw)
  OBVIOUS
<1>2. size \in Nat /\ Len(buf) = m /\ (\A i \in 1..m : buf[i] = raw[i]) /\ buf \in Seq(Alphabet) /\ Char = raw[m + 1]
      /\ m < size
  <2>1. raw \in Seq(Alphabet)
    BY <1>1, SpelledIs, WordFacts
  <2>2. QED
    BY <1>1, <2>1 DEF Held, LexInv
<1>3. CASE Len(buf) = BufSize
  <2>1. Overflow
    BY <1>3 DEF Keep
  <2>2. Shows(n)'
    BY <2>1 DEF Overflow, Shows, Word
  <2>3. Full(k)
    BY <1>1, <1>2, <1>3, <2>1 DEF Full, Overflow
  <2>4. QED
    BY <2>2, <2>3
<1>4. CASE Len(buf) # BufSize
  <2>1. buf' = Append(buf, Char) /\ state' = st /\ tokens' = tokens /\ halted' = halted
    BY <1>4 DEF Keep
  <2>2. Shows(n)'
    BY <2>1 DEF Shows, Word
  <2>3. Len(Append(buf, Char)) = m + 1 /\ (\A i \in 1..m : Append(buf, Char)[i] = buf[i]) /\ Append(buf, Char)[m + 1] = Char
    BY <1>2
  <2>4. \A i \in 1..(m + 1) : i \in 1..m \/ i = m + 1
    OBVIOUS
  <2>5. \A i \in 1..(m + 1) : buf'[i] = raw[i]
    BY <1>2, <2>1, <2>3, <2>4
  <2>6. Len(buf') = m + 1
    BY <2>1, <2>3
  <2>7. Word(k)'.raw = raw
    BY <1>1 DEF Word
  <2>8. Held(Word(k).raw, m + 1)'
    BY <2>5, <2>6, <2>7 DEF Held
  <2>9. QED
    BY <2>1, <2>2, <2>8
<1>5. QED
  BY <1>3, <1>4

\* The whole word is in the buffer.
LEMMA HeldAll ==
  ASSUME LexInv, NEW raw \in Seq(Alphabet), Held(raw, Len(raw))
  PROVE  buf = raw
<1>1. buf \in Seq(Alphabet) /\ Len(buf) = Len(raw) /\ \A i \in 1..Len(raw) : buf[i] = raw[i]
  BY DEF Held, LexInv
<1>2. QED
  BY <1>1

LEMMA WordAfter ==
  ASSUME TextOK, NEW k \in 1..Many, k < Many
  PROVE  k + 1 \in 1..Many /\ Final(k) < First(k + 1)
<1>1. PICK m : m = k + 1
  OBVIOUS
<1>2. m \in 1..Many /\ k < m
  BY <1>1, WordFacts
<1>3. QED
  BY <1>1, <1>2, WordOrder

\* What the lexer can do with word k after n: it is still in it, it is behind it, or the
\* word does not fit.
Goes(n, k) ==
  \/ Shows(n)' /\ halted' = "no" /\ InWord(k)'
  \/ Shows(k)' /\ halted' = "no" /\ Between(k)'
  \/ Shows(n)' /\ Full(k)

LEMMA WordEnds ==
  ASSUME LexInv, TextOK, halted = "no", text' = text, NEW n \in Nat, Shows(n), NEW k \in 1..Many, k = n + 1,
         NEW event, NEW raw, event = Word(k).event, raw = Word(k).raw,
         NEW st \in {"default", "in_eol"}, Emit(event, raw, st, <<>>),
         pos' \in Nat, Final(k) <= pos', k < Many => pos' < First(k + 1)
  PROVE  Shows(k)' /\ halted' = "no" /\ Between(k)'
<1>1. PICK w : w = Word(k)
  OBVIOUS
<1>2. w \in Words /\ w = Word(n + 1) /\ event # "none"
  <2>1. Word(k) \in Words
    BY WordFacts
  <2>2. event # "none"
    BY <2>1 DEF Words
  <2>3. QED
    BY <1>1, <2>1, <2>2
<1>3. tokens' = Append(tokens, Token(w.event, w.raw)) /\ state' = st /\ buf' = <<>> /\ halted' = halted
  BY <1>1, <1>2 DEF Emit
<1>4. Shows(n + 1)'
  BY <1>2, <1>3, ShowsMore
<1>5. Between(k)'
  BY <1>3 DEF Between, Final, First, Many
<1>6. QED
  BY <1>3, <1>4, <1>5

LEMMA RegularWord ==
  ASSUME LexInv, TextOK, ReadChar, NEW n \in Nat, Shows(n), NEW k \in 1..Many, k = n + 1,
         InWord(k), pos < Final(k), Word(k).event \in {"regular", "name"}
  PROVE  Goes(n, k)
<1>1. PICK raw, event, m, f : raw = Word(k).raw /\ event = Word(k).event /\ m = pos - First(k) /\ f = First(k)
  OBVIOUS
<1>2. state = event /\ Held(raw, m + 1) /\ First(k) <= pos
  BY <1>1 DEF InWord
<1>3. m \in Nat /\ m + 1 = pos + 1 - First(k) /\ m + 2 <= Len(raw) /\ Char = raw[m + 2] /\ Len(raw) \in Nat
  BY <1>1, <1>2, WordNext
<1>4. Char \notin Special
  <2>1. Word(k) \in Words /\ WellSpelled(Word(k))
    BY WordFacts
  <2>2. \A i \in 2..Len(raw) : raw[i] \notin Special
    BY <1>1, <2>1 DEF WellSpelled
  <2>3. m + 2 \in 2..Len(raw)
    BY <1>3
  <2>4. QED
    BY <1>3, <2>2, <2>3
<1>5. state \in DOMAIN Pending
  BY <1>1, <1>2, PendingStates
<1>6. Regular /\ pos' = pos + 1 /\ text' = text /\ halted = "no"
  BY <1>4, <1>5, TokenBranch
<1>7. Keep(event)
  BY <1>1, <1>2, <1>6 DEF Regular
<1>8. PICK i : i = m + 1
  OBVIOUS
<1>9. i \in Nat /\ i < Len(raw) /\ Char = raw[i + 1] /\ Held(raw, i)
  <2>1. i + 1 = m + 2
    BY <1>3, <1>8
  <2>2. QED
    BY <1>2, <1>3, <1>8, <2>1
<1>10. /\ Shows(n)'
       /\ Full(k) \/ (halted' = "no" /\ state' = event /\ Held(Word(k).raw, i + 1)')
  BY <1>1, <1>6, <1>7, <1>9, KeepHeld
<1>11. ASSUME state' = event, Held(Word(k).raw, i + 1)' PROVE InWord(k)'
  <2>1. Word(k)' = Word(k) /\ First(k)' = f /\ Final(k)' = Final(k)
    BY <1>1, <1>6 DEF Word, First, Final
  <2>2. pos \in Nat /\ f \in Nat /\ Final(k) \in Nat
    BY <1>1, WordFacts DEF LexInv
  <2>3. f <= pos' /\ pos' <= Final(k) /\ pos' - f + 1 = i + 1
    <3>1. m + 1 = pos + 1 - f /\ f <= pos /\ pos' = pos + 1 /\ pos < Final(k) /\ i = m + 1 /\ m \in Nat
      BY <1>1, <1>2, <1>3, <1>6, <1>8
    <3>2. QED
      BY ONLY <2>2, <3>1
  <2>4. QED
    BY <1>1, <1>11, <2>1, <2>3 DEF InWord
<1>12. QED
  BY <1>10, <1>11 DEF Goes

LEMMA HexWord ==
  ASSUME LexInv, TextOK, ReadChar, NEW n \in Nat, Shows(n), NEW k \in 1..Many, k = n + 1,
         InWord(k), Word(k).event = "hex"
  PROVE  Goes(n, k)
<1>1. PICK raw, m, f, l : raw = Word(k).raw /\ m = pos - First(k) /\ f = First(k) /\ l = Final(k)
  OBVIOUS
<1>2. state = "hex" /\ Held(raw, m) /\ First(k) <= pos /\ pos < Final(k)
  BY <1>1 DEF InWord
<1>3. m \in Nat /\ m + 1 = pos + 1 - First(k) /\ Len(raw) \in Nat
      /\ \/ m < Len(raw) /\ Char = raw[m + 1] /\ pos + 1 < Final(k)
         \/ m = Len(raw) /\ Char = ">" /\ pos + 1 = Final(k)
  BY <1>1, <1>2, WordNext
<1>4. InHexString /\ pos' = pos + 1 /\ text' = text /\ halted = "no"
  <2>1. state \notin DOMAIN Pending
    BY <1>2, PendingStates
  <2>2. QED
    BY <1>2, <2>1 DEF ReadChar, InString, InComment, WhiteSpace, Delimiter, OpenString, Regular, InToken
<1>5. Word(k) \in Words /\ WellSpelled(Word(k)) /\ raw \in Seq(Alphabet)
  BY <1>1, WordFacts, SpelledIs
<1>6. pos \in Nat /\ f \in Nat /\ l \in Nat
  BY <1>1, WordFacts DEF LexInv
<1>7. CASE m < Len(raw) /\ Char = raw[m + 1] /\ pos + 1 < Final(k)
  <2>1. IsAlnum(Char)
    <3>1. \A i \in 1..Len(raw) : IsAlnum(raw[i])
      BY <1>1, <1>5 DEF WellSpelled
    <3>2. m + 1 \in 1..Len(raw)
      BY <1>3, <1>7
    <3>3. QED
      BY <1>7, <3>1, <3>2
  <2>2. Char \notin {"<", ">"}
    BY <2>1, LettersAssumption DEF IsAlnum, Digits, Special
  <2>3. Keep("hex")
    BY <1>4, <2>1, <2>2 DEF InHexString
  <2>4. /\ Shows(n)'
        /\ Full(k) \/ (halted' = "no" /\ state' = "hex" /\ Held(Word(k).raw, m + 1)')
    BY <1>1, <1>2, <1>3, <1>4, <1>7, <2>3, KeepHeld
  <2>5. ASSUME state' = "hex", Held(Word(k).raw, m + 1)' PROVE InWord(k)'
    <3>1. Word(k)' = Word(k) /\ First(k)' = f /\ Final(k)' = l
      BY <1>1, <1>4 DEF Word, First, Final
    <3>2. f <= pos' /\ pos' < l /\ pos' <= l /\ pos' - f = m + 1
      BY <1>1, <1>2, <1>3, <1>4, <1>6, <1>7
    <3>3. QED
      BY <2>5, <3>1, <3>2 DEF InWord
  <2>6. QED
    BY <2>4, <2>5 DEF Goes
<1>8. CASE m = Len(raw) /\ Char = ">" /\ pos + 1 = Final(k)
  <2>1. buf = raw
    BY <1>2, <1>5, <1>8, HeldAll
  <2>2. ~IsAlnum(Char)
    BY <1>8, LettersAssumption DEF IsAlnum, Digits, Special
  <2>3. Emit("hex", raw, "default", <<>>)
    BY <1>4, <1>8, <2>1, <2>2 DEF InHexString
  <2>4. pos' = Final(k) /\ pos' \in Nat /\ (k < Many => Final(k) < First(k + 1))
    BY <1>1, <1>4, <1>6, <1>8, WordAfter
  <2>5. Shows(k)' /\ halted' = "no" /\ Between(k)'
    BY <1>1, <1>4, <2>3, <2>4, WordEnds
  <2>6. QED
    BY <2>5 DEF Goes
<1>9. QED
  BY <1>3, <1>7, <1>8

-----------------------------------------------------------------------------
(* Strings                                                                  *)

LEMMA EscapedIs ==
  ASSUME NEW raw, Balanced(raw)
  PROVE  /\ Escapes(raw, Escaped(raw)) /\ Nesting(raw, Escaped(raw), Len(raw)) = 1
         /\ \A n \in 0..Len(raw) : Nesting(raw, Escaped(raw), n) > 0
         /\ \A i \in 1..Len(raw) : i = Len(raw) /\ raw[i] = Backslash => i \in Escaped(raw)
BY DEF Balanced, Escaped

\* How many brackets of one kind stand in a string up to a place.
Brackets(raw, esc, c, n) == Cardinality({i \in (1..n) \ esc : raw[i] = c})

LEMMA BracketStep ==
  ASSUME NEW raw, NEW esc, NEW n \in Nat, NEW c
  PROVE  /\ Brackets(raw, esc, c, n) \in Nat
         /\ Brackets(raw, esc, c, n + 1) =
              IF n + 1 \notin esc /\ raw[n + 1] = c THEN Brackets(raw, esc, c, n) + 1 ELSE Brackets(raw, esc, c, n)
<1> DEFINE places == {i \in (1..n) \ esc : raw[i] = c}
           more == {i \in (1..(n + 1)) \ esc : raw[i] = c}
<1>1. IsFiniteSet(places)
  <2>1. IsFiniteSet(1..n)
    BY FS_Interval
  <2>2. QED
    BY <2>1, FS_Subset
<1>2. IF n + 1 \notin esc /\ raw[n + 1] = c THEN more = places \union {n + 1} /\ n + 1 \notin places ELSE more = places
  OBVIOUS
<1> HIDE DEF places, more
<1>3. Cardinality(places) \in Nat
  BY <1>1, FS_CardinalityType
<1>4. n + 1 \notin places => Cardinality(places \union {n + 1}) = Cardinality(places) + 1
  BY <1>1, FS_AddElement
<1>5. Cardinality(more) = IF n + 1 \notin esc /\ raw[n + 1] = c THEN Cardinality(places) + 1 ELSE Cardinality(places)
  BY <1>2, <1>4
<1>6. QED
  BY <1>3, <1>5 DEF places, more, Brackets

LEMMA NestingStep ==
  ASSUME NEW raw, NEW esc, NEW n \in Nat, NEW c, c = raw[n + 1]
  PROVE  /\ Nesting(raw, esc, n) \in Int
         /\ n + 1 \in esc \/ c \notin {"(", ")"} => Nesting(raw, esc, n + 1) = Nesting(raw, esc, n)
         /\ n + 1 \notin esc /\ c = "(" => Nesting(raw, esc, n + 1) = Nesting(raw, esc, n) + 1
         /\ n + 1 \notin esc /\ c = ")" => Nesting(raw, esc, n + 1) = Nesting(raw, esc, n) - 1
<1> DEFINE many(b, j) == Brackets(raw, esc, b, j)
<1>1. ASSUME NEW b
      PROVE  /\ many(b, n) \in Nat
             /\ many(b, n + 1) = IF n + 1 \notin esc /\ raw[n + 1] = b THEN many(b, n) + 1 ELSE many(b, n)
  BY BracketStep
<1>2. \A j : Nesting(raw, esc, j) = 1 + many("(", j) - many(")", j)
  BY DEF Nesting, Brackets
<1> HIDE DEF many
<1>3. PICK o1, c1, o2, c2 : o1 = many("(", n) /\ c1 = many(")", n) /\ o2 = many("(", n + 1) /\ c2 = many(")", n + 1)
  OBVIOUS
<1>4. o1 \in Nat /\ c1 \in Nat
  BY <1>1, <1>3
<1>5. /\ o2 = IF n + 1 \notin esc /\ c = "(" THEN o1 + 1 ELSE o1
      /\ c2 = IF n + 1 \notin esc /\ c = ")" THEN c1 + 1 ELSE c1
  BY <1>1, <1>3
<1>6. Nesting(raw, esc, n) = 1 + o1 - c1 /\ Nesting(raw, esc, n + 1) = 1 + o2 - c2
  BY <1>2, <1>3
<1>7. "(" # ")"
  OBVIOUS
<1>8. CASE n + 1 \in esc \/ c \notin {"(", ")"}
  BY <1>4, <1>5, <1>6, <1>7, <1>8
<1>9. CASE n + 1 \notin esc /\ c = "("
  BY <1>4, <1>5, <1>6, <1>7, <1>9
<1>10. CASE n + 1 \notin esc /\ c = ")"
  BY <1>4, <1>5, <1>6, <1>7, <1>10
<1>11. QED
  BY <1>4, <1>6, <1>8, <1>9, <1>10

LEMMA StringWord ==
  ASSUME LexInv, TextOK, ReadChar, NEW n \in Nat, Shows(n), NEW k \in 1..Many, k = n + 1,
         InWord(k), Word(k).event = "string"
  PROVE  Goes(n, k)
<1>1. PICK raw, m, f, l, esc, size :
        /\ raw = Word(k).raw /\ m = pos - First(k) /\ f = First(k) /\ l = Final(k)
        /\ esc = Escaped(raw) /\ size = Len(raw)
  OBVIOUS
<1>2. InsideString(raw, m) /\ First(k) <= pos /\ pos < Final(k)
  BY <1>1 DEF InWord
<1>3. /\ state \in {"string", "escape"} /\ Held(raw, m) /\ string_level = Nesting(raw, esc, m)
      /\ state = "escape" <=> m > 0 /\ raw[m] = Backslash /\ m \notin esc
  BY <1>1, <1>2 DEF InsideString
<1>4. m \in Nat /\ m + 1 = pos + 1 - First(k) /\ size \in Nat
      /\ \/ m < size /\ Char = raw[m + 1] /\ pos + 1 < Final(k)
         \/ m = size /\ Char = ")" /\ pos + 1 = Final(k)
  BY <1>1, <1>2, WordNext
<1>5. InString /\ pos' = pos + 1 /\ text' = text /\ halted = "no"
  <2>1. state \notin DOMAIN Pending
    BY <1>3, PendingStates
  <2>2. QED
    BY <1>3, <2>1 DEF ReadChar, InHexString, InComment, WhiteSpace, Delimiter, OpenString, Regular, InToken
<1>6. Word(k) \in Words /\ WellSpelled(Word(k)) /\ raw \in Seq(Alphabet)
  BY <1>1, WordFacts, SpelledIs
<1>7. /\ Escapes(raw, esc) /\ Nesting(raw, esc, size) = 1
      /\ \A i \in 0..size : Nesting(raw, esc, i) > 0
      /\ \A i \in 1..size : i = size /\ raw[i] = Backslash => i \in esc
  <2>1. Balanced(raw)
    BY <1>1, <1>6 DEF WellSpelled
  <2>2. QED
    BY <1>1, <2>1, EscapedIs
<1>8. pos \in Nat /\ f \in Nat /\ l \in Nat
  BY <1>1, WordFacts DEF LexInv
<1>9. CASE m < size /\ Char = raw[m + 1] /\ pos + 1 < Final(k)
  <2>1. PICK i : i = m + 1
    OBVIOUS
  <2>2. i \in 1..size /\ i - 1 = m /\ Char = raw[i] /\ i > 0
    BY <1>4, <1>9, <2>1
  <2>3. i \in esc <=> state = "escape"
    <3>1. i \in esc <=> i > 1 /\ raw[i - 1] = Backslash /\ i - 1 \notin esc
      BY <1>1, <1>7, <2>2 DEF Escapes
    <3>2. i > 1 <=> m > 0
      BY <1>4, <2>1
    <3>3. QED
      BY <1>3, <2>2, <3>1, <3>2
  <2>4. Nesting(raw, esc, i) > 0
    BY <1>7, <2>2
  <2>5. /\ Nesting(raw, esc, m) \in Int
        /\ i \in esc \/ Char \notin {"(", ")"} => Nesting(raw, esc, i) = Nesting(raw, esc, m)
        /\ i \notin esc /\ Char = "(" => Nesting(raw, esc, i) = Nesting(raw, esc, m) + 1
        /\ i \notin esc /\ Char = ")" => Nesting(raw, esc, i) = Nesting(raw, esc, m) - 1
    BY <1>4, <1>9, <2>1, NestingStep
  <2>6. ASSUME NEW st \in {"string", "escape"}, Keep(st), string_level' = Nesting(raw, esc, i),
               st = "escape" <=> raw[i] = Backslash /\ i \notin esc
        PROVE  Goes(n, k)
    <3>1. /\ Shows(n)'
          /\ Full(k) \/ (halted' = "no" /\ state' = st /\ Held(Word(k).raw, m + 1)')
      BY <1>1, <1>3, <1>4, <1>5, <1>9, <2>6, KeepHeld
    <3>2. ASSUME state' = st, Held(Word(k).raw, m + 1)' PROVE InWord(k)'
      <4>1. Word(k)' = Word(k) /\ First(k)' = f /\ Final(k)' = l
        BY <1>1, <1>5 DEF Word, First, Final
      <4>2. f <= pos' /\ pos' < l /\ pos' <= l /\ pos' - f = i
        <5>1. m + 1 = pos + 1 - f /\ pos + 1 < l /\ f <= pos /\ pos' = pos + 1
          BY <1>1, <1>2, <1>4, <1>5, <1>9
        <5>2. QED
          BY ONLY <1>8, <2>1, <5>1
      <4>3. Held(raw, i)'
        BY <1>1, <2>1, <3>2, <4>1 DEF Held
      <4>4. InsideString(raw, i)'
        BY <1>1, <2>2, <2>6, <3>2, <4>3 DEF InsideString
      <4>5. QED
        BY <1>1, <4>1, <4>2, <4>4 DEF InWord
    <3>3. QED
      BY <3>1, <3>2 DEF Goes
  <2>7. "(" # ")" /\ Backslash \notin {"(", ")"}
    BY DEF Backslash
  <2>8. CASE state = "escape"
    <3>1. Keep("string") /\ string_level' = string_level
      BY <1>5, <2>8 DEF InString, Unescaped
    <3>2. QED
      BY <1>3, <2>3, <2>5, <2>6, <2>8, <3>1
  <2>9. CASE state = "string" /\ Char = Backslash
    <3>1. Keep("escape") /\ string_level' = string_level
      BY <1>5, <2>7, <2>9 DEF InString, Unescaped
    <3>2. QED
      BY <1>3, <2>2, <2>3, <2>5, <2>6, <2>7, <2>9, <3>1
  <2>10. CASE state = "string" /\ Char = "("
    <3>1. Keep("string") /\ string_level' = string_level + 1
      BY <1>5, <2>7, <2>10 DEF InString, Unescaped
    <3>2. i \notin esc /\ raw[i] # Backslash
      BY <2>2, <2>3, <2>7, <2>10
    <3>3. QED
      BY <1>3, <2>5, <2>6, <2>10, <3>1, <3>2
  <2>11. CASE state = "string" /\ Char = ")"
    <3>1. i \notin esc /\ raw[i] # Backslash
      BY <2>2, <2>3, <2>7, <2>11
    <3>2. string_level # 1
      BY <1>3, <2>4, <2>5, <2>11, <3>1
    <3>3. Keep("string") /\ string_level' = string_level - 1
      BY <1>5, <2>7, <2>11, <3>2 DEF InString, Unescaped
    <3>4. QED
      BY <1>3, <2>5, <2>6, <2>11, <3>1, <3>3
  <2>12. CASE state = "string" /\ Char \notin {Backslash, "(", ")"}
    <3>1. Keep("string") /\ string_level' = string_level
      BY <1>5, <2>12 DEF InString, Unescaped
    <3>2. raw[i] # Backslash
      BY <2>2, <2>12
    <3>3. QED
      BY <1>3, <2>5, <2>6, <2>12, <3>1, <3>2
  <2>13. QED
    BY <1>3, <2>8, <2>9, <2>10, <2>11, <2>12
<1>10. CASE m = size /\ Char = ")" /\ pos + 1 = Final(k)
  <2>1. state = "string"
    <3> SUFFICES ASSUME state = "escape" PROVE FALSE
      BY <1>3
    <3>1. m \in 1..size /\ raw[m] = Backslash /\ m \notin esc
      BY <1>3, <1>4, <1>10
    <3>2. QED
      BY <1>7, <1>10, <3>1
  <2>2. buf = raw
    BY <1>1, <1>3, <1>6, <1>10, HeldAll
  <2>3. string_level = 1
    BY <1>3, <1>7, <1>10
  <2>4. Backslash # ")"
    BY DEF Backslash
  <2>5. Emit("string", raw, "default", <<>>)
    BY <1>5, <1>10, <2>1, <2>2, <2>3, <2>4 DEF InString, Unescaped
  <2>6. pos' = Final(k) /\ pos' \in Nat /\ (k < Many => Final(k) < First(k + 1))
    BY <1>1, <1>5, <1>8, <1>10, WordAfter
  <2>7. Shows(k)' /\ halted' = "no" /\ Between(k)'
    BY <1>1, <1>5, <2>5, <2>6, WordEnds
  <2>8. QED
    BY <2>7 DEF Goes
<1>11. QED
  BY <1>4, <1>9, <1>10

-----------------------------------------------------------------------------
(* Delimiters, comments and lines                                           *)

LEMMA AppendPair == ASSUME NEW c, NEW d PROVE Append(<<c>>, d) = <<c, d>>
<1>1. PICK S : S = {c, d}
  OBVIOUS
<1>2. c \in S /\ d \in S
  BY <1>1
<1>3. <<c>> \in Seq(S) /\ <<c, d>> \in Seq(S) /\ Append(<<c>>, d) \in Seq(S)
  BY <1>2
<1>4. Len(Append(<<c>>, d)) = 2 /\ Append(<<c>>, d)[1] = c /\ Append(<<c>>, d)[2] = d
  BY <1>2
<1>5. PICK s, t : s = Append(<<c>>, d) /\ t = <<c, d>>
  OBVIOUS
<1>6. Len(t) = 2 /\ t[1] = c /\ t[2] = d
  BY <1>5
<1>7. \A i \in 1..2 : i = 1 \/ i = 2
  OBVIOUS
<1>8. s \in Seq(S) /\ t \in Seq(S) /\ Len(s) = Len(t) /\ \A i \in 1..Len(s) : s[i] = t[i]
  BY <1>3, <1>4, <1>5, <1>6, <1>7
<1>9. s = t
  BY ONLY <1>8
<1>10. QED
  BY <1>5, <1>9

LEMMA DelimWord ==
  ASSUME LexInv, TextOK, ReadChar, NEW n \in Nat, Shows(n), NEW k \in 1..Many, k = n + 1,
         InWord(k), pos < Final(k), Word(k).event = "delim"
  PROVE  Goes(n, k)
<1>1. PICK raw, m, f, l, size :
        raw = Word(k).raw /\ m = pos - First(k) /\ f = First(k) /\ l = Final(k) /\ size = Len(raw)
  OBVIOUS
<1>2. First(k) <= pos
  BY DEF InWord
<1>3. m \in Nat /\ m + 2 <= size /\ Char = raw[m + 2] /\ pos < l
  BY <1>1, <1>2, WordNext
<1>4. Word(k) \in Words /\ WellSpelled(Word(k)) /\ l = f + Len(SpelledAs(Word(k))) - 1
  BY <1>1, WordFacts
<1>5. raw \in {<<"<", "<">>, <<">", ">">>}
  <2>1. raw \in {<<"<", "<">>, <<">", ">">>, <<"[">>, <<"]">>}
    BY <1>1, <1>4 DEF WellSpelled
  <2>2. Len(<<"[">>) = 1 /\ Len(<<"]">>) = 1
    OBVIOUS
  <2>3. size # 1
    BY <1>1, <1>3, <1>4, SpelledIs
  <2>4. QED
    BY <1>1, <2>1, <2>2, <2>3
<1>6. size = 2 /\ m = 0 /\ Char = raw[2]
  <2>1. Len(<<"<", "<">>) = 2 /\ Len(<<">", ">">>) = 2
    OBVIOUS
  <2>2. size = 2
    BY <1>1, <1>5, <2>1
  <2>3. m = 0
    BY ONLY <1>3, <2>2
  <2>4. QED
    BY <1>3, <2>2, <2>3
<1>7. pos \in Nat /\ f \in Nat /\ l \in Nat /\ l = f + 1 /\ pos + 1 = l
  <2>1. AsItIs(SpelledAs(Word(k)), raw)
    BY <1>1, <1>4, SpelledIs
  <2>2. Len(SpelledAs(Word(k))) = 2
    BY <1>1, <1>6, <2>1 DEF AsItIs
  <2>3. pos \in Nat /\ f \in Nat /\ l \in Nat
    BY <1>1, WordFacts DEF LexInv
  <2>4. l = f + 2 - 1 /\ pos - f = 0
    BY <1>1, <1>4, <1>6, <2>2
  <2>5. QED
    BY ONLY <2>3, <2>4
<1>8. ASSUME Emit("delim", raw, "default", <<>>), pos' = pos + 1, text' = text, halted = "no"
      PROVE  Goes(n, k)
  <2>1. pos' = Final(k) /\ pos' \in Nat /\ (k < Many => Final(k) < First(k + 1))
    BY <1>1, <1>7, <1>8, WordAfter
  <2>2. Shows(k)' /\ halted' = "no" /\ Between(k)'
    BY <1>1, <1>8, <2>1, WordEnds
  <2>3. QED
    BY <2>2 DEF Goes
<1>9. CASE raw = <<"<", "<">>
  <2>1. raw # <<">", ">">> /\ raw \notin {<<"[">>, <<"]">>}
    BY <1>9
  <2>2. state = "hex" /\ buf = <<>>
    BY <1>1, <2>1 DEF InWord
  <2>3. Char = "<"
    BY <1>6, <1>9
  <2>4. InHexString /\ pos' = pos + 1 /\ text' = text /\ halted = "no"
    <3>1. state \notin DOMAIN Pending
      BY <2>2, PendingStates
    <3>2. QED
      BY <2>2, <3>1 DEF ReadChar, InString, InComment, WhiteSpace, Delimiter, OpenString, Regular, InToken
  <2>5. ~IsAlnum(Char) /\ Char # ">"
    BY <2>3, LettersAssumption DEF IsAlnum, Digits, Special
  <2>6. Len(buf) + 2 <= BufSize /\ BufSize \in Nat
    BY <2>2, BufSizeAssumption
  <2>7. Emit("delim", buf \o <<"<", "<">>, "default", <<>>)
    <3>1. IF Len(buf) + 2 > BufSize THEN Overflow ELSE Emit("delim", buf \o <<"<", "<">>, "default", <<>>)
      BY <2>3, <2>4, <2>5 DEF InHexString
    <3>2. ~(Len(buf) + 2 > BufSize)
      BY <2>2, <2>6
    <3>3. QED
      BY <3>1, <3>2
  <2>8. <<>> \o <<"<", "<">> = <<"<", "<">>
    BY ConcatFacts
  <2>9. Emit("delim", raw, "default", <<>>)
    BY <1>9, <2>2, <2>7, <2>8
  <2>10. QED
    BY <1>8, <2>4, <2>9
<1>10. CASE raw = <<">", ">">>
  <2>1. raw # <<"<", "<">> /\ raw \notin {<<"[">>, <<"]">>}
    BY <1>10
  <2>2. state = "delim" /\ buf = <<">">>
    BY <1>1, <2>1 DEF InWord
  <2>3. Char = ">"
    BY <1>6, <1>10
  <2>4. Delimiter /\ pos' = pos + 1 /\ text' = text /\ halted = "no"
    <3>1. state \in DOMAIN Pending
      BY <2>2, PendingStates
    <3>2. QED
      BY <2>3, <3>1, TokenBranch
  <2>5. buf # <<>> /\ Last(buf) = ">"
    BY <2>2 DEF Last
  <2>6. Emit("delim", Append(buf, Char), "default", <<>>)
    BY <2>2, <2>3, <2>4, <2>5 DEF Delimiter
  <2>7. Append(buf, Char) = raw
    <3>1. Append(<<">">>, ">") = <<">", ">">>
      BY AppendPair
    <3>2. QED
      BY <1>10, <2>2, <2>3, <3>1
  <2>8. QED
    BY <1>8, <2>4, <2>6, <2>7
<1>11. QED
  BY <1>5, <1>9, <1>10

\* No word but a line feed begins with a line end.
LEMMA LineFeedWord ==
  ASSUME TextOK, NEW k \in 1..Many, text.chars[First(k)] \in {CR, LF}
  PROVE  Word(k).event = "eol" /\ text.chars[First(k)] = LF /\ First(k) = Final(k)
<1>1. PICK w, c, raw : w = Word(k) /\ c = text.chars[First(k)] /\ raw = w.raw
  OBVIOUS
<1>2. /\ w.event = "regular" => c \notin Special
      /\ w.event = "name" => c = "/"
      /\ w.event = "string" => c = "("
      /\ w.event = "hex" => c = "<"
      /\ w.event = "delim" => c = raw[1] /\ raw \in {<<"<", "<">>, <<">", ">">>, <<"[">>, <<"]">>}
      /\ w.event = "comment" => c = "%"
      /\ w.event = "eol" => c = LF
  BY <1>1, WordStarts
<1>3. w \in Words /\ w.event \in {"regular", "name", "string", "hex", "delim", "comment", "eol"}
  BY <1>1, WordFacts, SpelledIs
<1>4. c \in Special /\ c \notin {"/", "(", "<", ">", "[", "]", "%"}
  BY <1>1 DEF Special, CR, LF
<1>5. w.event # "delim"
  BY <1>2, <1>4
<1>6. w.event = "eol"
  BY <1>2, <1>3, <1>4, <1>5
<1>7. First(k) = Final(k)
  <2>1. SpelledAs(w) = <<LF>>
    BY <1>3, <1>6, SpelledIs
  <2>2. Len(SpelledAs(w)) = 1
    BY <2>1
  <2>3. Final(k) = First(k) + Len(SpelledAs(w)) - 1 /\ First(k) \in Nat
    BY <1>1, WordFacts
  <2>4. QED
    BY <2>2, <2>3
<1>8. QED
  BY <1>1, <1>2, <1>6, <1>7

LEMMA CommentWord ==
  ASSUME LexInv, TextOK, ReadChar, NEW n \in Nat, Shows(n), NEW k \in 1..Many, k = n + 1,
         InWord(k), Word(k).event = "comment"
  PROVE  Goes(n, k) \/ (k < Many /\ Goes(k, k + 1))
<1>1. PICK raw, m, f, l : raw = Word(k).raw /\ m = pos - First(k) /\ f = First(k) /\ l = Final(k)
  OBVIOUS
<1>2. state = "comment" /\ Held(raw, m) /\ First(k) <= pos /\ pos <= Final(k)
  BY <1>1 DEF InWord
<1>3. InComment /\ pos' = pos + 1 /\ text' = text /\ halted = "no" /\ pos < Len(text.chars)
  <2>1. state \notin DOMAIN Pending
    BY <1>2, PendingStates
  <2>2. QED
    BY <1>2, <2>1 DEF ReadChar, InString, InHexString, WhiteSpace, Delimiter, OpenString, Regular, InToken
<1>4. Word(k) \in Words /\ WellSpelled(Word(k)) /\ raw \in Seq(Alphabet) /\ l = f + Len(SpelledAs(Word(k))) - 1
  BY <1>1, WordFacts, SpelledIs
<1>5. pos \in Nat /\ f \in Nat /\ l \in Nat /\ Len(raw) \in Nat /\ Len(text.chars) \in Nat
  <2>1. pos \in Nat /\ Len(text.chars) \in Nat
    BY DEF LexInv
  <2>2. f \in Nat /\ l \in Nat
    BY <1>1, WordFacts
  <2>3. Len(raw) \in Nat
    BY <1>4
  <2>4. QED
    BY <2>1, <2>2, <2>3
<1>6. CASE pos < l
  <2>1. m \in Nat /\ m + 1 = pos + 1 - f /\ m < Len(raw) /\ Char = raw[m + 1]
    BY <1>1, <1>2, <1>6, WordNext
  <2>2. Char \notin {LF, CR}
    <3>1. \A i \in 1..Len(raw) : raw[i] \notin {CR, LF}
      BY <1>1, <1>4 DEF WellSpelled
    <3>2. m + 1 \in 1..Len(raw)
      BY <1>5, <2>1
    <3>3. QED
      BY <2>1, <3>1, <3>2
  <2>3. Keep("comment")
    BY <1>3, <2>2 DEF InComment
  <2>4. /\ Shows(n)'
        /\ Full(k) \/ (halted' = "no" /\ state' = "comment" /\ Held(Word(k).raw, m + 1)')
    BY <1>1, <1>2, <1>3, <2>1, <2>3, KeepHeld
  <2>5. ASSUME state' = "comment", Held(Word(k).raw, m + 1)' PROVE InWord(k)'
    <3>1. Word(k)' = Word(k) /\ First(k)' = f /\ Final(k)' = l
      BY <1>1, <1>3 DEF Word, First, Final
    <3>2. f <= pos' /\ pos' <= l /\ pos' - f = m + 1
      <4>1. m + 1 = pos + 1 - f /\ pos' = pos + 1 /\ f <= pos
        BY <1>1, <1>2, <1>3, <2>1
      <4>2. QED
        BY ONLY <1>5, <1>6, <4>1
    <3>3. QED
      BY <2>5, <3>1, <3>2 DEF InWord
  <2>6. QED
    BY <2>4, <2>5 DEF Goes
<1>7. CASE pos = l
  <2>1. buf = raw
    <3>1. Marked(SpelledAs(Word(k)), raw, "%")
      BY <1>1, <1>4, SpelledIs
    <3>2. Len(SpelledAs(Word(k))) = Len(raw) + 1
      BY <3>1 DEF Marked
    <3>3. m = Len(raw)
      <4>1. l = f + (Len(raw) + 1) - 1 /\ m = l - f
        BY <1>1, <1>4, <1>7, <3>2
      <4>2. QED
        BY ONLY <1>5, <4>1
    <3>4. QED
      BY <1>2, <1>4, <3>3, HeldAll
  <2>2. Char \in {CR, LF}
    BY <1>1, <1>7, CommentEnds DEF Char
  <2>3. \/ Char \in {Blank, CR} /\ (k < Many => pos + 1 < First(k + 1))
        \/ k < Many /\ First(k + 1) = pos + 1
    <3>1. k \in 0..Many /\ pos \in 0..(Len(text.chars) - 1) /\ (k < Many => Final(k) < First(k + 1))
      BY <1>3, <1>5, WordAfter, WordFacts
    <3>2. QED
      BY <1>1, <1>7, <3>1, NextIs DEF Char
  <2>4. Blank # LF /\ CR # LF /\ Blank # CR
    BY DEF Blank, CR, LF
  <2>5. CASE k < Many /\ First(k + 1) = pos + 1
    <3>1. PICK j : j = k + 1
      OBVIOUS
    <3>2. j \in 1..Many /\ First(j) = pos + 1
      BY <2>5, <3>1, WordAfter
    <3>3. Word(j).event = "eol" /\ Char = LF /\ First(j) = Final(j)
      BY <2>2, <3>2, LineFeedWord DEF Char
    <3>4. Emit("comment", raw, "out_eol", <<>>)
      BY <1>3, <2>1, <2>4, <3>3 DEF InComment
    <3>5. tokens' = Append(tokens, Token("comment", raw)) /\ state' = "out_eol" /\ buf' = <<>> /\ halted' = "no"
      BY <1>3, <3>4 DEF Emit
    <3>6. Shows(k)'
      <4>1. PICK w : w = Word(k)
        OBVIOUS
      <4>2. w \in Words /\ w = Word(n + 1) /\ tokens' = Append(tokens, Token(w.event, w.raw))
        BY <1>1, <1>4, <3>5, <4>1
      <4>3. Shows(n + 1)'
        BY <1>3, <4>2, ShowsMore
      <4>4. QED
        BY <4>3
    <3>7. InWord(j)'
      <4>1. Word(j)'.event = "eol" /\ First(j)' <= pos' /\ pos' <= Final(j)'
        BY <1>3, <1>5, <3>2, <3>3 DEF Word, First, Final
      <4>2. QED
        BY <3>5, <4>1 DEF InWord
    <3>8. Goes(k, j)
      BY <3>5, <3>6, <3>7 DEF Goes
    <3>9. QED
      BY <2>5, <3>1, <3>8
  <2>6. CASE Char \in {Blank, CR} /\ (k < Many => pos + 1 < First(k + 1))
    <3>1. Char = CR
      BY <2>2, <2>4, <2>6
    <3>2. Emit("comment", raw, "in_eol", <<>>)
      BY <1>3, <2>1, <2>4, <3>1 DEF InComment
    <3>3. pos' \in Nat /\ Final(k) <= pos' /\ (k < Many => pos' < First(k + 1))
      <4>1. pos' = pos + 1 /\ Final(k) = pos
        BY <1>1, <1>3, <1>7
      <4>2. pos + 1 \in Nat /\ pos <= pos + 1
        BY <1>5
      <4>3. QED
        BY <2>6, <4>1, <4>2
    <3>4. Shows(k)' /\ halted' = "no" /\ Between(k)'
      BY <1>1, <1>3, <3>2, <3>3, WordEnds
    <3>5. QED
      BY <3>4 DEF Goes
  <2>7. QED
    BY <2>3, <2>5, <2>6
<1>8. QED
  BY <1>1, <1>2, <1>5, <1>6, <1>7

LEMMA LineWord ==
  ASSUME LexInv, TextOK, LineEnd, NEW n \in Nat, Shows(n), NEW k \in 1..Many, k = n + 1, InWord(k)
  PROVE  Goes(n, k)
<1>1. /\ halted = "no" /\ state = "out_eol" /\ Emit("eol", <<>>, "default", buf)
      /\ text' = text /\ pos' = pos
  BY DEF LineEnd
<1>2. Word(k).event = "eol" /\ buf = <<>> /\ First(k) <= pos /\ pos <= Final(k)
  BY <1>1 DEF InWord, InsideString
<1>3. Word(k) \in Words /\ WellSpelled(Word(k)) /\ First(k) \in Nat /\ Final(k) \in Nat
      /\ Final(k) = First(k) + Len(SpelledAs(Word(k))) - 1
  BY WordFacts
<1>4. Word(k).raw = <<>>
  BY <1>2, <1>3 DEF WellSpelled
<1>5. pos' = Final(k) /\ pos' \in Nat
  <2>1. SpelledAs(Word(k)) = <<LF>>
    BY <1>2, <1>3, SpelledIs
  <2>2. Len(SpelledAs(Word(k))) = 1
    BY <2>1
  <2>3. pos \in Nat
    BY DEF LexInv
  <2>4. Final(k) = First(k) + 1 - 1 /\ First(k) \in Nat /\ First(k) <= pos /\ pos <= Final(k) /\ pos' = pos
    BY <1>1, <1>2, <1>3, <2>2
  <2>5. QED
    BY ONLY <2>3, <2>4
<1>6. PICK event, raw : event = Word(k).event /\ raw = Word(k).raw
  OBVIOUS
<1>7. Emit(event, raw, "default", <<>>)
  BY <1>1, <1>2, <1>4, <1>6
<1>8. Final(k) <= pos' /\ (k < Many => pos' < First(k + 1))
  BY <1>3, <1>5, WordAfter
<1>9. Shows(k)' /\ halted' = "no" /\ Between(k)'
  BY <1>1, <1>5, <1>6, <1>7, <1>8, WordEnds
<1>10. QED
  BY <1>9 DEF Goes

-----------------------------------------------------------------------------
(* One step                                                                 *)

LEMMA ReadyStep ==
  ASSUME LexInv, TextOK, ReadChar, NEW n \in 0..Many, Ready(n)
  PROVE  (Shows(n)' /\ Between(n)' /\ halted' = "no") \/ (n < Many /\ Goes(n, n + 1))
<1>1. /\ n > 0 => Final(n) <= pos
      /\ n < Many => pos < First(n + 1)
  BY ReadyPlace
<1>2. pos \in 0..(Len(text.chars) - 1)
  BY DEF LexInv, ReadChar
<1>3. \/ Char \in {Blank, CR} /\ (n < Many => pos + 1 < First(n + 1))
      \/ n < Many /\ First(n + 1) = pos + 1
  BY <1>1, <1>2, NextIs DEF Char
<1>4. CASE Char \in {Blank, CR} /\ (n < Many => pos + 1 < First(n + 1))
  BY <1>4, GapOK
<1>5. CASE n < Many /\ First(n + 1) = pos + 1
  <2>1. PICK k : k = n + 1
    OBVIOUS
  <2>2. k \in 1..Many
    BY <1>5, <2>1, WordFacts
  <2>3. Shows(n)' /\ InWord(k)' /\ halted' = "no"
    BY <1>5, <2>1, <2>2, BeginOK
  <2>4. QED
    BY <1>5, <2>1, <2>3 DEF Goes
<1>6. QED
  BY <1>3, <1>4, <1>5

\* The lexer is never behind a word that ends with its last character.
LEMMA WordIsRead ==
  ASSUME LexInv, TextOK, NEW k \in 1..Many, InWord(k), pos = Final(k), state \notin {"comment", "out_eol"}
  PROVE  Ended(k)
<1>1. PICK raw, m, event : raw = Word(k).raw /\ m = pos - First(k) /\ event = Word(k).event
  OBVIOUS
<1>2. ~(pos < Final(k))
  <2>1. Final(k) \in Nat
    BY WordFacts
  <2>2. QED
    BY <2>1
<1>3. \/ event \in {"regular", "name"} /\ state = event /\ Held(raw, m + 1)
      \/ event = "delim" /\ raw \in {<<"[">>, <<"]">>} /\ state = "delim" /\ buf = raw
  BY <1>1, <1>2 DEF InWord
<1>4. ASSUME event \in {"regular", "name"}, state = event, Held(raw, m + 1) PROVE Ended(k)
  <2>1. Word(k) \in Words /\ Final(k) = First(k) + Len(SpelledAs(Word(k))) - 1 /\ First(k) \in Nat
    BY WordFacts
  <2>2. AsItIs(SpelledAs(Word(k)), raw) /\ raw \in Seq(Alphabet)
    BY <1>1, <1>4, <2>1, SpelledIs
  <2>3. Len(SpelledAs(Word(k))) = Len(raw) /\ Len(raw) \in Nat
    BY <2>2 DEF AsItIs
  <2>4. m + 1 = Len(raw)
    <3>1. m = (First(k) + Len(raw) - 1) - First(k)
      BY <1>1, <2>1, <2>3
    <3>2. QED
      BY ONLY <2>1, <2>3, <3>1
  <2>5. buf = raw
    BY <1>4, <2>2, <2>4, HeldAll
  <2>6. event # "delim"
    BY <1>4
  <2>7. QED
    BY <1>1, <1>4, <2>5, <2>6 DEF Ended
<1>5. ASSUME event = "delim", raw \in {<<"[">>, <<"]">>}, state = "delim", buf = raw PROVE Ended(k)
  BY <1>1, <1>5 DEF Ended
<1>6. QED
  BY <1>3, <1>4, <1>5

LEMMA InsideStep ==
  ASSUME LexInv, TextOK, ReadChar, NEW n \in Nat, Shows(n), NEW k \in 1..Many, k = n + 1, InWord(k)
  PROVE  \/ Goes(n, k)
         \/ Shows(k)' /\ Between(k)' /\ halted' = "no"
         \/ k < Many /\ Goes(k, k + 1)
<1>1. state # "out_eol"
  BY DEF ReadChar
<1>2. Word(k).event \in {"regular", "name", "string", "hex", "delim", "comment", "eol"}
  BY WordFacts, SpelledIs
<1>3. CASE Word(k).event = "string"
  BY <1>3, StringWord
<1>4. CASE Word(k).event = "hex"
  BY <1>4, HexWord
<1>5. CASE Word(k).event = "comment"
  BY <1>5, CommentWord
<1>6. CASE Word(k).event = "eol"
  BY <1>1, <1>6 DEF InWord
<1>7. CASE Word(k).event \in {"regular", "name", "delim"} /\ pos < Final(k)
  BY <1>7, RegularWord, DelimWord
<1>8. CASE Word(k).event \in {"regular", "name", "delim"} /\ ~(pos < Final(k))
  <2>1. pos = Final(k)
    <3>1. pos \in Nat /\ Final(k) \in Nat /\ pos <= Final(k)
      BY WordFacts DEF LexInv, InWord
    <3>2. QED
      BY <1>8, <3>1
  <2>2. state # "comment"
    BY <1>8 DEF InWord
  <2>3. Ended(k)
    BY <1>1, <2>1, <2>2, WordIsRead
  <2>4. PICK j : j = k - 1
    OBVIOUS
  <2>5. j = n /\ k > 0 /\ k \in 0..Many
    BY <2>4, WordFacts
  <2>6. Ready(k)
    BY <2>3, <2>4, <2>5 DEF Ready
  <2>7. QED
    BY <2>5, <2>6, ReadyStep
<1>9. QED
  BY <1>2, <1>3, <1>4, <1>5, <1>6, <1>7, <1>8

LEMMA GoesOn ==
  ASSUME TextOK, text' = text, NEW n \in 0..Many, NEW k \in 1..Many, k = n + 1, Goes(n, k)
  PROVE  WordsInv'
<1>1. Many' = Many /\ n \in 0..Many' /\ k \in 0..Many' /\ n < Many' /\ Many \in Nat
  BY WordFacts DEF Many
<1>2. CASE Shows(n)' /\ halted' = "no" /\ InWord(k)'
  BY <1>1, <1>2 DEF WordsInv
<1>3. CASE Shows(k)' /\ halted' = "no" /\ Between(k)'
  BY <1>1, <1>3 DEF WordsInv
<1>4. CASE Shows(n)' /\ Full(k)
  <2>1. Word(k)' = Word(k)
    BY DEF Word
  <2>2. halted' = "overflow" /\ (\E j \in 1..Many : Len(Word(j).raw) > BufSize)'
    BY <1>1, <1>4, <2>1 DEF Full
  <2>3. QED
    BY <1>1, <1>4, <2>2 DEF WordsInv
<1>5. QED
  BY <1>2, <1>3, <1>4 DEF Goes

LEMMA BetweenOn ==
  ASSUME TextOK, text' = text, NEW n \in 0..Many, Shows(n)', Between(n)', halted' = "no"
  PROVE  WordsInv'
<1>1. n \in 0..Many'
  BY DEF Many
<1>2. QED
  BY <1>1 DEF WordsInv

\* The text ends.
LEMMA EndOn ==
  ASSUME LexInv, TextOK, EndOfText, NEW n \in 0..Many, Shows(n), Between(n) \/ (n < Many /\ InWord(n + 1))
  PROVE  WordsInv'
<1>1. /\ halted = "no" /\ state # "out_eol" /\ pos = Len(text.chars)
      /\ tokens' = Append(tokens, Token("eof", <<>>)) /\ halted' = "end"
      /\ text' = text /\ state' = state /\ buf' = buf
  BY DEF EndOfText
<1>2. Many \in Nat /\ n \in Nat /\ Many' = Many /\ n \in 0..Many' /\ pos \in Nat
  BY <1>1, WordFacts DEF Many, LexInv
<1>3. Shows(n)'
  BY <1>1, <1>2, ShowsStill
<1>4. \A k \in 1..Many : First(k) \in Nat /\ Final(k) \in Nat /\ First(k) <= Final(k) /\ Final(k) <= pos
  BY <1>1, WordFacts
<1>5. CASE Between(n)
  <2>1. ~(n < Many)
    <3> SUFFICES ASSUME n < Many PROVE FALSE
      OBVIOUS
    <3>1. PICK k : k = n + 1
      OBVIOUS
    <3>2. k \in 1..Many /\ pos < First(k)
      BY <1>2, <1>5, <3>1 DEF Between
    <3>3. QED
      BY <1>2, <1>4, <3>2
  <2>2. n = Many' /\ buf' = <<>>
    BY <1>1, <1>2, <1>5, <2>1 DEF Between
  <2>3. QED
    BY <1>1, <1>2, <1>3, <2>2 DEF WordsInv
<1>6. CASE n < Many /\ InWord(n + 1)
  <2>1. PICK k : k = n + 1
    OBVIOUS
  <2>2. k \in 1..Many /\ InWord(k)
    BY <1>2, <1>6, <2>1
  <2>3. pos = Final(k)
    <3>1. pos <= Final(k)
      BY <2>2 DEF InWord
    <3>2. QED
      BY <1>2, <1>4, <2>2, <3>1
  <2>4. state # "comment"
    <3> SUFFICES ASSUME state = "comment" PROVE FALSE
      OBVIOUS
    <3>1. Word(k).event = "comment"
      BY <2>2 DEF InWord, InsideString
    <3>2. Final(k) < Len(text.chars)
      BY <2>2, <3>1, CommentEnds
    <3>3. QED
      BY <1>1, <1>2, <2>3, <3>2
  <2>5. Ended(k)
    BY <1>1, <2>2, <2>3, <2>4, WordIsRead
  <2>6. k = Many
    <3> SUFFICES ASSUME k < Many PROVE FALSE
      BY <1>2, <2>2
    <3>1. PICK j : j = k + 1
      OBVIOUS
    <3>2. j \in 1..Many /\ Final(k) < First(j)
      BY <2>2, <3>1, WordAfter
    <3>3. QED
      BY <1>2, <1>4, <2>3, <3>2
  <2>7. buf = Word(k).raw /\ Pending[state] = Word(k).event
    BY <2>5 DEF Ended, Pending
  <2>8. buf # <<>>
    <3>1. CASE Word(k).event = "delim"
      <4>1. buf \in {<<"[">>, <<"]">>}
        BY <2>5, <3>1 DEF Ended
      <4>2. QED
        BY <4>1
    <3>2. CASE Word(k).event \in {"regular", "name"}
      <4>1. Len(buf) > 0
        BY <2>2, <2>7, <3>2, WordStarts
      <4>2. QED
        BY <4>1
    <3>3. QED
      BY <2>5, <3>1, <3>2 DEF Ended
  <2>9. PICK last : last = Many
    OBVIOUS
  <2>10. last = Many' /\ n + 1 = last /\ buf' = Word(last)'.raw /\ buf' # <<>> /\ Pending[state'] = Word(last)'.event
    BY <1>1, <1>2, <2>1, <2>6, <2>7, <2>8, <2>9 DEF Word
  <2>11. QED
    BY <1>1, <1>2, <1>3, <2>10 DEF WordsInv
<1>7. QED
  BY <1>5, <1>6

LEMMA WordsStep == ASSUME LexInv, TextOK, WordsInv, LexStep PROVE WordsInv'
<1>1. halted = "no"
  BY DEF LexStep, LineEnd, ReadChar, EndOfText
<1>2. PICK n \in 0..Many : Shows(n) /\ (Between(n) \/ (n < Many /\ InWord(n + 1)))
  BY <1>1 DEF WordsInv
<1>3. Many \in Nat /\ n \in Nat /\ text' = text
  BY WordFacts DEF LexStep, LineEnd, ReadChar, EndOfText
<1>4. PICK k : k = n + 1
  OBVIOUS
<1>5. n < Many => k \in 1..Many
  BY <1>3, <1>4
<1>6. CASE LineEnd
  <2>1. ~Between(n)
    BY <1>6 DEF LineEnd, Between
  <2>2. k \in 1..Many /\ InWord(k)
    BY <1>2, <1>4, <1>5, <2>1
  <2>3. Goes(n, k)
    BY <1>2, <1>3, <1>4, <1>6, <2>2, LineWord
  <2>4. QED
    BY <1>3, <1>4, <2>2, <2>3, GoesOn
<1>7. CASE EndOfText
  BY <1>2, <1>7, EndOn
<1>8. CASE ReadChar /\ Between(n)
  <2>1. Ready(n)
    BY <1>2, <1>8 DEF Ready
  <2>2. (Shows(n)' /\ Between(n)' /\ halted' = "no") \/ (n < Many /\ Goes(n, k))
    BY <1>4, <1>8, <2>1, ReadyStep
  <2>3. QED
    BY <1>3, <1>4, <1>5, <2>2, BetweenOn, GoesOn
<1>9. CASE ReadChar /\ n < Many /\ InWord(n + 1)
  <2>1. k \in 1..Many /\ InWord(k) /\ k \in 0..Many
    BY <1>4, <1>5, <1>9
  <2>2. \/ Goes(n, k)
        \/ Shows(k)' /\ Between(k)' /\ halted' = "no"
        \/ k < Many /\ Goes(k, k + 1)
    BY <1>2, <1>3, <1>4, <1>9, <2>1, InsideStep
  <2>3. ASSUME k < Many, Goes(k, k + 1) PROVE WordsInv'
    <3>1. PICK j : j = k + 1
      OBVIOUS
    <3>2. j \in 1..Many
      BY <1>3, <2>1, <2>3, <3>1
    <3>3. QED
      BY <1>3, <2>1, <2>3, <3>1, <3>2, GoesOn
  <2>4. QED
    BY <1>3, <1>4, <2>1, <2>2, <2>3, BetweenOn, GoesOn
<1>10. QED
  BY <1>2, <1>6, <1>7, <1>8, <1>9 DEF LexStep

-----------------------------------------------------------------------------
(* What was read so far is what was meant                                   *)

LEMMA WordsStill ==
  ASSUME WordsInv, text' = text, pos' = pos, state' = state, buf' = buf, string_level' = string_level,
         tokens' = tokens, halted' = halted
  PROVE  WordsInv'
<1>1. PICK n \in 0..Many :
        /\ Shows(n)
        /\ halted = "no" => Between(n) \/ (n < Many /\ InWord(n + 1))
        /\ halted = "end" => \/ n = Many /\ buf = <<>>
                             \/ n + 1 = Many /\ buf = Word(Many).raw /\ buf # <<>> /\ Pending[state] = Word(Many).event
        /\ halted = "overflow" => \E k \in 1..Many : Len(Word(k).raw) > BufSize
  BY DEF WordsInv
<1>2. Many' = Many /\ \A k : Word(k)' = Word(k) /\ First(k)' = First(k) /\ Final(k)' = Final(k)
  BY DEF Many, Word, First, Final
<1>3. Shows(n)'
  BY <1>1, <1>2 DEF Shows
<1>4. Between(n) => Between(n)'
  BY <1>2 DEF Between
<1>5. \A raw, m : /\ Held(raw, m)' <=> Held(raw, m)
                  /\ InsideString(raw, m)' <=> InsideString(raw, m)
  BY DEF Held, InsideString
<1>6. InWord(n + 1) => InWord(n + 1)'
  BY <1>2, <1>5 DEF InWord
<1>7. QED
  BY <1>1, <1>2, <1>3, <1>4, <1>6 DEF WordsInv

LEMMA WordsMeant == ASSUME LexInv, TextOK, WordsInv PROVE TokensMeant
<1> DEFINE meant == [k \in 1..Len(text.of) |-> Token(text.of[k].event, text.of[k].raw)]
<1>1. PICK read, words : read = Read(tokens) /\ words = meant
  OBVIOUS
<1>2. Many \in Nat /\ Many = Len(text.of)
  BY WordFacts DEF Many
<1>3. words \in Seq(TokenSet) /\ Len(words) = Many
      /\ \A k \in 1..Many : words[k] = Token(Word(k).event, Word(k).raw)
  <2>1. \A k \in 1..Many : Token(Word(k).event, Word(k).raw) \in TokenSet
    <3> SUFFICES ASSUME NEW k \in 1..Many PROVE Token(Word(k).event, Word(k).raw) \in TokenSet
      OBVIOUS
    <3>1. Word(k) \in Words
      BY WordFacts
    <3>2. QED
      BY <3>1, SpelledIs DEF Token, TokenSet, Events
  <2>2. words = [k \in 1..Many |-> Token(Word(k).event, Word(k).raw)]
    BY <1>1, <1>2 DEF Word
  <2>3. QED
    BY <1>2, <2>1, <2>2
<1>4. PICK n \in 0..Many :
        /\ Shows(n)
        /\ halted = "end" => \/ n = Many /\ buf = <<>>
                             \/ n + 1 = Many /\ buf = Word(Many).raw /\ buf # <<>> /\ Pending[state] = Word(Many).event
        /\ halted = "overflow" => \E k \in 1..Many : Len(Word(k).raw) > BufSize
  BY DEF WordsInv
<1>5. read \in Seq(TokenSet) /\ Len(read) = n /\ \A k \in 1..n : read[k] = words[k]
  <2>1. read \in Seq(TokenSet)
    <3>1. tokens \in Seq(TokenSet) /\ Token("eof", <<>>) \in TokenSet
      BY DEF LexInv, Token, TokenSet, Events
    <3>2. QED
      BY <1>1, <3>1, ReadAppend
  <2>2. Len(read) = n /\ \A k \in 1..n : read[k] = Token(Word(k).event, Word(k).raw)
    BY <1>1, <1>4 DEF Shows
  <2>3. \A k \in 1..n : k \in 1..Many
    BY <1>2
  <2>4. QED
    BY <1>3, <2>1, <2>2, <2>3
<1>6. n \in Nat /\ n <= Many
  BY <1>2
<1>7. IsPrefix(read, words)
  <2>1. SubSeq(read, 1, n) = SubSeq(words, 1, n)
    <3>1. SubSeq(read, 1, n) \in Seq(TokenSet) /\ Len(SubSeq(read, 1, n)) = n
          /\ \A i \in 1..n : SubSeq(read, 1, n)[i] = read[i]
      BY <1>5, <1>6
    <3>2. SubSeq(words, 1, n) \in Seq(TokenSet) /\ Len(SubSeq(words, 1, n)) = n
          /\ \A i \in 1..n : SubSeq(words, 1, n)[i] = words[i]
      BY <1>2, <1>3, <1>6
    <3>3. PICK a, b : a = SubSeq(read, 1, n) /\ b = SubSeq(words, 1, n)
      OBVIOUS
    <3>4. a \in Seq(TokenSet) /\ b \in Seq(TokenSet) /\ Len(a) = Len(b) /\ \A i \in 1..Len(a) : a[i] = b[i]
      BY <1>5, <3>1, <3>2, <3>3
    <3>5. a = b
      BY ONLY <3>4
    <3>6. QED
      BY <3>3, <3>5
  <2>2. QED
    BY <1>3, <1>5, <1>6, <2>1 DEF IsPrefix
<1>8. ASSUME halted = "end" PROVE words = read \o Unfinished
  <2>1. CASE n = Many /\ buf = <<>>
    <3>1. Unfinished = <<>>
      BY <2>1 DEF Unfinished
    <3>2. read \o <<>> = read
      BY <1>5, ConcatFacts
    <3>3. Len(words) = Len(read) /\ \A i \in 1..Len(words) : words[i] = read[i]
      BY <1>3, <1>5, <2>1
    <3>4. words = read
      BY ONLY <1>3, <1>5, <3>3
    <3>5. QED
      BY <3>1, <3>2, <3>4
  <2>2. CASE n + 1 = Many /\ buf = Word(Many).raw /\ buf # <<>> /\ Pending[state] = Word(Many).event
    <3>1. PICK tok : tok = Token(Word(Many).event, Word(Many).raw)
      OBVIOUS
    <3>2. Many \in 1..Many /\ tok = words[Many] /\ tok \in TokenSet
      BY <1>2, <1>3, <1>6, <2>2, <3>1
    <3>3. Unfinished = <<tok>>
      BY <2>2, <3>1 DEF Unfinished
    <3>4. read \o <<tok>> = Append(read, tok)
      BY <1>5, <3>2, ConcatFacts
    <3>5. PICK more : more = Append(read, tok)
      OBVIOUS
    <3>6. more \in Seq(TokenSet) /\ Len(more) = n + 1 /\ more[n + 1] = tok /\ \A i \in 1..n : more[i] = read[i]
      BY <1>5, <3>2, <3>5
    <3>7. Len(words) = Len(more) /\ \A i \in 1..Len(words) : words[i] = more[i]
      <4>1. \A i \in 1..Many : i \in 1..n \/ i = n + 1
        BY <1>2, <1>6, <2>2
      <4>2. QED
        BY <1>3, <1>5, <2>2, <3>2, <3>6, <4>1
    <3>8. words = more
      BY ONLY <1>3, <3>6, <3>7
    <3>9. QED
      BY <3>3, <3>4, <3>5, <3>8
  <2>3. QED
    BY <1>4, <1>8, <2>1, <2>2
<1>9. ASSUME halted = "overflow" PROVE \E k \in 1..Len(words) : Len(words[k].raw) > BufSize
  <2>1. PICK k \in 1..Many : Len(Word(k).raw) > BufSize
    BY <1>4, <1>9
  <2>2. words[k].raw = Word(k).raw /\ k \in 1..Len(words)
    BY <1>3 DEF Token
  <2>3. QED
    BY <2>1, <2>2
<1>10. QED
  BY <1>1, <1>7, <1>8, <1>9 DEF TokensMeant

\* A text of words that is lexed to its end is read as the words that its writer meant,
\* for words of any number and length, however lines end and strings nest and escape.
THEOREM WordsAreRead == OpeningSpec => []ReadsTokens
<1> DEFINE Known == phase = "lex" => text \in Texts
           Lexed == phase = "lex" /\ text.kind = "tokens"
           Inv == LexInv /\ PhaseInv /\ Known /\ (Lexed => WordsInv)
<1>1. ASSUME Known, Lexed PROVE TextOK
  BY <1>1, TextsAssumption, WordsAssumption DEF TextOK
<1>2. OpeningInit => Inv
  <2> SUFFICES ASSUME OpeningInit PROVE LexInv /\ PhaseInv /\ Known /\ (Lexed => WordsInv)
    OBVIOUS
  <2>1. LexInv /\ PhaseInv /\ Known
    BY InitInv DEF OpeningInit
  <2>2. ASSUME Lexed PROVE WordsInv
    <3>1. pos = 0 /\ state = "default" /\ buf = <<>> /\ tokens = <<>> /\ halted = "no"
      BY DEF OpeningInit, LexInit
    <3>2. Shows(0)
      <4>1. Read(tokens) = <<>>
        BY <3>1 DEF Read, FlattenSeq
      <4>2. QED
        BY <4>1 DEF Shows
    <3>3. Many \in Nat /\ 0 \in 0..Many
      BY <1>1, <2>1, <2>2, WordFacts
    <3>4. 0 < Many => pos < First(0 + 1)
      <4> SUFFICES ASSUME 0 < Many PROVE pos < First(1)
        OBVIOUS
      <4>1. 1 \in 1..Many
        BY <3>3
      <4>2. First(1) \in Nat \ {0}
        BY <1>1, <2>1, <2>2, <4>1, WordFacts
      <4>3. QED
        BY <3>1, <4>2
    <3>5. Between(0)
      BY <3>1, <3>4 DEF Between
    <3>6. QED
      BY <3>1, <3>2, <3>3, <3>5 DEF WordsInv
  <2>3. QED
    BY <2>1, <2>2
<1>3. Inv /\ [OpeningNext]_ovars => Inv'
  <2> SUFFICES ASSUME Inv, [OpeningNext]_ovars PROVE Known' /\ (Lexed' => WordsInv')
    BY NextInv
  <2>1. CASE Lex
    <3>1. text' = text /\ phase = "lex" /\ phase' = "lex" /\ LexStep
      BY <2>1 DEF Lex, LexStep, LineEnd, ReadChar, EndOfText
    <3>2. Known'
      BY <3>1
    <3>3. Lexed' => WordsInv'
      BY <1>1, <3>1, WordsStep
    <3>4. QED
      BY <3>2, <3>3
  <2>2. CASE UNCHANGED ovars
    <3>1. /\ text' = text /\ pos' = pos /\ state' = state /\ buf' = buf /\ string_level' = string_level
          /\ tokens' = tokens /\ halted' = halted /\ phase' = phase
      BY <2>2 DEF ovars, vars, lexer
    <3>2. Known' /\ (Lexed' <=> Lexed)
      BY <3>1
    <3>3. WordsInv => WordsInv'
      BY <3>1, WordsStill
    <3>4. QED
      BY <3>2, <3>3
  <2>3. CASE ~Lex /\ ~UNCHANGED ovars
    BY <2>3 DEF OpeningNext, Version, SeekEnd, Scan, ScanEnds, NotFound, Number, NumberRead
  <2>4. QED
    BY <2>1, <2>2, <2>3
<1>4. Inv => ReadsTokens
  BY <1>1, WordsMeant DEF ReadsTokens
<1>5. QED
  BY <1>2, <1>3, <1>4, PTL DEF OpeningSpec

-----------------------------------------------------------------------------
(* The number formats                                                       *)

\* What IsInt folds a text with.
Folding(raw, f) ==
  f = [s \in SUBSET (DOMAIN raw) |-> IF s = {} THEN "sign" ELSE IntStep(f[s \ {Max(s)}], raw[Max(s)])]

LEMMA IntFolds ==
  ASSUME NEW raw
  PROVE  FoldLeft(IntStep, "sign", raw) = (CHOOSE f : Folding(raw, f))[DOMAIN raw]
BY DEF FoldLeft, MapThenFoldSet, Folding

LEMMA LargestNumber ==
  ASSUME NEW n \in Nat, NEW s \in SUBSET (1..n), s # {}
  PROVE  Max(s) \in s /\ \A y \in s : Max(s) >= y
<1> DEFINE T == {n - i : i \in s}
<1>1. T \in SUBSET Nat /\ T # {}
  <2>1. \A i \in s : i \in 1..n /\ n - i \in Nat
    OBVIOUS
  <2>2. PICK e : e \in s
    OBVIOUS
  <2>3. n - e \in T
    BY <2>2
  <2>4. QED
    BY <2>1, <2>3
<1>2. PICK m \in T : \A k \in T : m <= k
  BY <1>1, Numbers!LeastNumber
<1>3. PICK x \in s : m = n - x
  BY <1>2
<1>4. ASSUME NEW y \in s PROVE x >= y
  <2>1. n - y \in T
    OBVIOUS
  <2>2. x \in 1..n /\ y \in 1..n /\ n - x <= n - y
    BY <1>2, <1>3, <2>1
  <2>3. QED
    BY ONLY <2>2
<1>5. QED
  BY <1>4 DEF Max

\* A text of digits is an integer.
LEMMA DigitsAreInt ==
  ASSUME NEW raw \in Seq(Digits), raw # <<>>
  PROVE  RegType(raw) = "int"
<1> DEFINE n == Len(raw)
<1>1. n \in Nat /\ n > 0 /\ DOMAIN raw = 1..n /\ \A i \in 1..n : raw[i] \in Digits
  OBVIOUS
<1>2. \A c \in Digits : c \notin Signs /\ IntStep("sign", c) = "digits" /\ IntStep("digits", c) = "digits"
  BY DEF IntStep, Digits, Signs
<1> HIDE DEF n
<1>3. \E f : Folding(raw, f)
  <2> DEFINE f == [s \in SUBSET (1..n) |-> IF s = {} THEN "sign" ELSE "digits"]
             g == [s \in SUBSET (1..n) |-> IF s = {} THEN "sign" ELSE IntStep(f[s \ {Max(s)}], raw[Max(s)])]
  <2>1. ASSUME NEW s \in SUBSET (1..n) PROVE f[s] = g[s]
    <3>1. CASE s = {}
      BY <3>1
    <3>2. CASE s # {}
      <4>1. raw[Max(s)] \in Digits
        BY <1>1, <3>2, LargestNumber
      <4>2. f[s \ {Max(s)}] \in {"sign", "digits"}
        OBVIOUS
      <4>3. IntStep(f[s \ {Max(s)}], raw[Max(s)]) = "digits"
        BY <1>2, <4>1, <4>2
      <4>4. QED
        BY <3>2, <4>3
    <3>3. QED
      BY <3>1, <3>2
  <2>2. f = [s \in SUBSET (1..n) |-> f[s]]
    OBVIOUS
  <2>3. g = [s \in SUBSET (1..n) |-> g[s]]
    OBVIOUS
  <2> HIDE DEF f
  <2>4. f = g
    <3> HIDE DEF g
    <3>1. QED
      BY <2>1, <2>2, <2>3
  <2>5. f = [s \in SUBSET (DOMAIN raw) |-> IF s = {} THEN "sign" ELSE IntStep(f[s \ {Max(s)}], raw[Max(s)])]
    BY <1>1, <2>4
  <2>6. QED
    BY <2>5 DEF Folding
<1>4. PICK f : f = (CHOOSE h : Folding(raw, h))
  OBVIOUS
<1>5. f = [s \in SUBSET (1..n) |-> IF s = {} THEN "sign" ELSE IntStep(f[s \ {Max(s)}], raw[Max(s)])]
  BY <1>1, <1>3, <1>4 DEF Folding
<1> DEFINE T == {m \in Nat : m <= n => f[1..m] = IF m = 0 THEN "sign" ELSE "digits"}
<1>6. 0 \in T
  <2>1. 1..0 = {} /\ {} \in SUBSET (1..n)
    OBVIOUS
  <2>2. f[{}] = "sign"
    BY <1>5, <2>1
  <2>3. QED
    BY <2>1, <2>2
<1>7. ASSUME NEW m \in T PROVE m + 1 \in T
  <2>1. m \in Nat
    OBVIOUS
  <2>2. SUFFICES ASSUME m + 1 <= n PROVE f[1..(m + 1)] = "digits"
    BY <2>1
  <2>3. PICK s : s = 1..(m + 1)
    OBVIOUS
  <2>4. s \in SUBSET (1..n) /\ s # {} /\ m + 1 \in s /\ m + 1 \in 1..n
    <3>1. m + 1 \in 1..(m + 1) /\ m + 1 \in 1..n /\ \A i \in 1..(m + 1) : i \in 1..n
      BY ONLY <1>1, <2>1, <2>2
    <3>2. QED
      BY ONLY <2>3, <3>1
  <2>5. Max(s) = m + 1
    <3>1. Max(s) \in s /\ \A y \in s : Max(s) >= y
      BY <1>1, <2>4, LargestNumber
    <3>2. QED
      BY <2>1, <2>3, <2>4, <3>1
  <2>6. s \ {Max(s)} = 1..m
    BY <2>1, <2>3, <2>5
  <2>7. f[s] = IntStep(f[1..m], raw[m + 1])
    BY <1>5, <2>4, <2>5, <2>6
  <2>8. f[1..m] \in {"sign", "digits"}
    BY <1>1, <2>1, <2>2
  <2>9. QED
    BY <1>1, <1>2, <2>3, <2>4, <2>7, <2>8
<1>8. T = Nat
  <2> HIDE DEF T
  <2>1. T \in SUBSET Nat
    BY DEF T
  <2>2. QED
    BY <1>6, <1>7, <2>1, Numbers!SetInductionOnNat
<1>9. f[1..n] = "digits"
  BY <1>1, <1>8
<1>10. IsInt(raw)
  BY <1>1, <1>4, <1>9, IntFolds DEF IsInt
<1>11. raw \notin Keywords
  <2>1. raw[1] \in Digits
    BY <1>1
  <2>2. \A w \in Keywords : w[1] \in {"n", "f", "R", "o", "e", "t", "s", "x"}
    BY DEF Keywords
  <2>3. QED
    BY <2>1, <2>2 DEF Digits
<1>12. QED
  BY <1>10, <1>11 DEF RegType

-----------------------------------------------------------------------------
(* A finished file                                                          *)

Spaces == {Blank, CR, LF}
Size == Len(text.chars)
IsFinished == text.kind = "file" /\ text.of # <<>>

\* Where the first token ends.
FirstEnds(l) ==
  /\ l \in 2..Size
  /\ \/ text.chars[1] = "%" /\ text.chars[l] \in {CR, LF} /\ \A i \in 2..(l - 1) : text.chars[i] \notin {CR, LF}
     \/ text.chars[l] \in Spaces /\ \A i \in 1..(l - 1) : text.chars[i] \notin Special

\* Where the keyword and the offset begin.
KeyAt(key, num) ==
  /\ key \in Nat /\ key >= 2 /\ key - 1 > Size - Window /\ text.chars[key - 1] \in Spaces
  /\ \A j \in 1..9 : key + j - 1 <= Size /\ text.chars[key + j - 1] = Startxref[j]
  /\ \A i \in 1..(key - 2) :
       i > Size - Window /\ text.chars[i] \in Spaces =>
         \E j \in 1..8 : ~(i + j \in 1..Size /\ text.chars[i + j] = Startxref[j])
  /\ num \in Nat /\ num >= key + 9 /\ \A i \in (key + 9)..(num - 1) : text.chars[i] \in Spaces
  /\ text.of \in Seq(Digits) /\ text.of # <<>>
  /\ \A j \in 1..Len(text.of) : text.chars[num + j - 1] = text.of[j]
  /\ num + Len(text.of) <= Size /\ text.chars[num + Len(text.of)] \in Spaces

LEMMA StartxrefIs ==
  /\ Len(Startxref) = 9 /\ Found = 10
  /\ \A j \in 1..9 : Startxref[j] \notin Spaces
<1>1. Len(Startxref) = 9
  BY DEF Startxref
<1>2. ASSUME NEW j \in 1..9 PROVE Startxref[j] \notin Spaces
  <2>1. Startxref[j] \in {"s", "t", "a", "r", "x", "e", "f"}
    <3>1. j \in {1, 2, 3, 4, 5, 6, 7, 8, 9}
      OBVIOUS
    <3>2. QED
      BY <3>1 DEF Startxref
  <2>2. QED
    BY <2>1 DEF Spaces, Blank, CR, LF
<1>3. QED
  BY <1>1, <1>2 DEF Found

LEMMA FileMarks ==
  ASSUME text \in Files, IsFinished
  PROVE  \E l, key, num : FirstEnds(l) /\ KeyAt(key, num)
<1>1. /\ text.of \in Seq(Digits) /\ text.of # <<>>
      /\ BegunRight(text.chars) /\ EndedRight(text.chars, text.of) /\ text.chars \in Seq(Alphabet)
  BY FinishedAssumption, FilesAssumption DEF IsFinished
<1>2. PICK l : FirstEnds(l)
  BY <1>1 DEF BegunRight, FirstEnds, Spaces, Size
<1> DEFINE stands(c, place) == place \in 1..Len(text.chars) /\ text.chars[place] = c
<1>3. PICK key \in 2..Len(text.chars), num \in 2..Len(text.chars) :
         /\ key - 1 > Len(text.chars) - Window /\ text.chars[key - 1] \in {Blank, CR, LF}
         /\ \A j \in 1..Len(Startxref) : stands(Startxref[j], key + j - 1)
         /\ \A i \in 1..(key - 2) :
              i > Len(text.chars) - Window /\ text.chars[i] \in {Blank, CR, LF} =>
                \E j \in 1..(Len(Startxref) - 1) : ~stands(Startxref[j], i + j)
         /\ num >= key + Len(Startxref)
         /\ \A i \in (key + Len(Startxref))..(num - 1) : text.chars[i] \in {Blank, CR, LF}
         /\ \A j \in 1..Len(text.of) : text.of[j] \in Digits /\ stands(text.of[j], num + j - 1)
         /\ \E c \in {Blank, CR, LF} : stands(c, num + Len(text.of))
  BY <1>1 DEF EndedRight
<1>4. Size \in Nat /\ Len(Startxref) = 9 /\ Len(Startxref) - 1 = 8 /\ Spaces = {Blank, CR, LF} /\ Size = Len(text.chars)
  BY <1>1, StartxrefIs DEF Size, Spaces
<1>5. /\ key \in 2..Size /\ num \in 2..Size
      /\ key - 1 > Size - Window /\ text.chars[key - 1] \in Spaces
      /\ \A j \in 1..9 : key + j - 1 \in 1..Size /\ text.chars[key + j - 1] = Startxref[j]
      /\ \A i \in 1..(key - 2) :
           i > Size - Window /\ text.chars[i] \in Spaces =>
             \E j \in 1..8 : ~(i + j \in 1..Size /\ text.chars[i + j] = Startxref[j])
      /\ num >= key + 9
      /\ \A i \in (key + 9)..(num - 1) : text.chars[i] \in Spaces
      /\ \A j \in 1..Len(text.of) : num + j - 1 \in 1..Size /\ text.chars[num + j - 1] = text.of[j]
      /\ \E c \in Spaces : num + Len(text.of) \in 1..Size /\ text.chars[num + Len(text.of)] = c
  <2> HIDE DEF Size, Spaces
  <2>1. /\ key \in 2..Size /\ num \in 2..Size
        /\ key - 1 > Size - Window /\ text.chars[key - 1] \in Spaces
    BY <1>3, <1>4
  <2>2. \A j \in 1..9 : key + j - 1 \in 1..Size /\ text.chars[key + j - 1] = Startxref[j]
    BY <1>3, <1>4
  <2>3. \A i \in 1..(key - 2) :
           i > Size - Window /\ text.chars[i] \in Spaces =>
             \E j \in 1..8 : ~(i + j \in 1..Size /\ text.chars[i + j] = Startxref[j])
    <3> SUFFICES ASSUME NEW i \in 1..(key - 2), i > Size - Window, text.chars[i] \in Spaces
                 PROVE  \E j \in 1..8 : ~(i + j \in 1..Size /\ text.chars[i + j] = Startxref[j])
      OBVIOUS
    <3>1. \E j \in 1..(Len(Startxref) - 1) : ~stands(Startxref[j], i + j)
      BY <1>3, <1>4
    <3>2. QED
      BY <1>4, <3>1
  <2>4. num >= key + 9 /\ \A i \in (key + 9)..(num - 1) : text.chars[i] \in Spaces
    BY <1>3, <1>4
  <2>5. \A j \in 1..Len(text.of) : num + j - 1 \in 1..Size /\ text.chars[num + j - 1] = text.of[j]
    BY <1>3, <1>4
  <2>6. \E c \in Spaces : num + Len(text.of) \in 1..Size /\ text.chars[num + Len(text.of)] = c
    BY <1>3, <1>4
  <2>7. QED
    BY <2>1, <2>2, <2>3, <2>4, <2>5, <2>6
<1>6. num + Len(text.of) <= Size /\ text.chars[num + Len(text.of)] \in Spaces
  <2>1. PICK c \in Spaces : num + Len(text.of) \in 1..Size /\ text.chars[num + Len(text.of)] = c
    BY <1>5
  <2>2. PICK place : place = num + Len(text.of)
    OBVIOUS
  <2>3. place \in 1..Size /\ text.chars[place] \in Spaces
    BY <2>1, <2>2
  <2>4. place <= Size
    BY ONLY <1>4, <2>3
  <2>5. QED
    BY ONLY <2>2, <2>3, <2>4
<1>7. \A j \in 1..9 : key + j - 1 <= Size /\ text.chars[key + j - 1] = Startxref[j]
  <2> SUFFICES ASSUME NEW j \in 1..9 PROVE key + j - 1 <= Size /\ text.chars[key + j - 1] = Startxref[j]
    OBVIOUS
  <2>1. key + j - 1 \in 1..Size /\ text.chars[key + j - 1] = Startxref[j]
    BY <1>5
  <2>2. QED
    BY ONLY <1>4, <2>1
<1>8. \A i \in 1..(key - 2) :
        i > Size - Window /\ text.chars[i] \in Spaces =>
          \E j \in 1..8 : ~(i + j \in 1..Size /\ text.chars[i + j] = Startxref[j])
  BY <1>4, <1>5
<1>9. \A j \in 1..Len(text.of) : text.chars[num + j - 1] = text.of[j]
  BY <1>5
<1>10. key \in Nat /\ key >= 2 /\ num \in Nat
  BY <1>4, <1>5
<1>11. KeyAt(key, num)
  BY <1>1, <1>5, <1>6, <1>7, <1>8, <1>9, <1>10 DEF KeyAt
<1>12. QED
  BY <1>2, <1>11

-----------------------------------------------------------------------------
(* What the lexer does with white space                                     *)

\* Nothing of a token is in the lexer.
Clear == buf = <<>> /\ state \in {"default", "white", "in_eol", "out_eol"}

LEMMA SpaceReads ==
  ASSUME ReadChar, Clear, Char \in Spaces
  PROVE  /\ Clear' /\ halted' = "no" /\ pos' = pos + 1
         /\ tokens' = tokens \/ tokens' = Append(tokens, Token("white", buf))
<1>1. state \in {"default", "white", "in_eol"} /\ halted = "no"
  BY DEF ReadChar, Clear
<1>2. state \in DOMAIN Pending
  BY <1>1, PendingStates
<1>3. WhiteSpace /\ pos' = pos + 1
  BY <1>2, TokenBranch DEF Spaces
<1>4. ASSUME NEW st \in {"white", "in_eol", "out_eol"}, Flush(st, <<>>)
      PROVE  Clear' /\ halted' = "no" /\ (tokens' = tokens \/ tokens' = Append(tokens, Token("white", buf)))
  <2>1. Pending[state] \in {"none", "white"}
    BY <1>1 DEF Pending
  <2>2. QED
    BY <1>1, <1>4, <2>1 DEF Flush, Emit, Clear
<1>5. CASE UNCHANGED <<state, buf, tokens, halted>>
  BY <1>1, <1>3, <1>5 DEF Clear
<1>6. CASE Emit("none", buf, "out_eol", buf)
  BY <1>1, <1>3, <1>6 DEF Clear, Emit
<1>7. \/ UNCHANGED <<state, buf, tokens, halted>> \/ Emit("none", buf, "out_eol", buf)
      \/ \E st \in {"white", "in_eol", "out_eol"} : Flush(st, <<>>)
  BY <1>3 DEF WhiteSpace
<1>8. QED
  BY <1>3, <1>4, <1>5, <1>6, <1>7

LEMMA SpaceEnds ==
  ASSUME ReadChar, state = "regular", Char \in Spaces
  PROVE  Clear' /\ halted' = "no" /\ pos' = pos + 1 /\ tokens' = Append(tokens, Token("regular", buf))
<1>1. state \in DOMAIN Pending /\ Pending[state] = "regular"
  BY PendingStates DEF Pending
<1>2. WhiteSpace /\ pos' = pos + 1 /\ halted = "no"
  BY <1>1, TokenBranch DEF Spaces
<1>3. \E st \in {"white", "in_eol", "out_eol"} : Flush(st, <<>>)
  BY <1>2 DEF WhiteSpace, CompletesEOL
<1>4. QED
  BY <1>1, <1>2, <1>3 DEF Flush, Emit, Clear

\* The tokens behind the keyword.
LEMMA BehindAppend ==
  ASSUME LexInv, mark \in 0..Len(tokens), mark' = mark, NEW tok \in TokenSet, tokens' = Append(tokens, tok)
  PROVE  Behind' = IF tok.event \in Skipped THEN Behind ELSE Append(Behind, tok)
<1> DEFINE Kept(t) == IF t.event \in Skipped THEN <<>> ELSE <<t>>
           all(s) == [i \in 1..(Len(s) - mark) |-> Kept(s[mark + i])]
<1>1. tokens \in Seq(TokenSet) /\ Len(tokens) \in Nat /\ mark \in Nat /\ \A t \in TokenSet : Kept(t) \in Seq(TokenSet)
  BY DEF LexInv
<1> HIDE DEF Kept
<1>2. PICK more, size : more = tokens' /\ size = Len(tokens) - mark
  OBVIOUS
<1>3. /\ size \in Nat /\ Len(more) - mark = size + 1 /\ more[mark + (size + 1)] = tok
      /\ \A i \in 1..size : more[mark + i] = tokens[mark + i] /\ tokens[mark + i] \in TokenSet
  <2>1. Len(more) = Len(tokens) + 1 /\ more[Len(tokens) + 1] = tok /\ \A i \in 1..Len(tokens) : more[i] = tokens[i]
    BY <1>1, <1>2
  <2>2. size \in Nat /\ mark + (size + 1) = Len(tokens) + 1 /\ \A i \in 1..size : mark + i \in 1..Len(tokens)
    BY <1>1, <1>2
  <2>3. Len(more) - mark = size + 1 /\ more[mark + (size + 1)] = tok
    BY <1>1, <1>2, <2>1, <2>2
  <2>4. \A i \in 1..Len(tokens) : tokens[i] \in TokenSet
    BY <1>1
  <2>5. ASSUME NEW i \in 1..size PROVE more[mark + i] = tokens[mark + i] /\ tokens[mark + i] \in TokenSet
    <3>1. PICK p \in 1..Len(tokens) : p = mark + i
      BY <2>2
    <3>2. more[p] = tokens[p] /\ tokens[p] \in TokenSet
      BY <2>1, <2>4
    <3>3. QED
      BY <3>1, <3>2
  <2>6. QED
    BY <2>2, <2>3, <2>5
<1>4. all(tokens) \in Seq(Seq(TokenSet)) /\ Len(all(tokens)) = size /\ Kept(tok) \in Seq(TokenSet)
  <2>1. all(tokens) = [i \in 1..size |-> Kept(tokens[mark + i])]
    BY <1>2
  <2>2. \A i \in 1..size : Kept(tokens[mark + i]) \in Seq(TokenSet)
    BY <1>1, <1>3
  <2>3. PICK T : T = Seq(TokenSet)
    OBVIOUS
  <2>4. size \in Nat /\ \A i \in 1..size : Kept(tokens[mark + i]) \in T
    BY <1>3, <2>2, <2>3
  <2>5. all(tokens) \in Seq(T) /\ Len(all(tokens)) = size
    <3> HIDE DEF all
    <3>1. QED
      BY ONLY <2>1, <2>4
  <2>6. Kept(tok) \in Seq(TokenSet)
    BY <1>1
  <2>7. QED
    BY <2>3, <2>5, <2>6
<1>5. all(more) = Append(all(tokens), Kept(tok))
  <2>1. all(more) = [i \in 1..(size + 1) |-> Kept(more[mark + i])]
    BY <1>3
  <2>2. \A i \in 1..size : all(tokens)[i] = Kept(tokens[mark + i])
    BY <1>2
  <2>3. PICK a, b : a = all(more) /\ b = Append(all(tokens), Kept(tok))
    OBVIOUS
  <2>4. /\ b \in Seq(Seq(TokenSet)) /\ Len(b) = size + 1 /\ b[size + 1] = Kept(tok)
        /\ \A i \in 1..size : b[i] = Kept(tokens[mark + i])
    <3>1. PICK s, t, T : s = all(tokens) /\ t = Kept(tok) /\ T = Seq(TokenSet)
      OBVIOUS
    <3> HIDE DEF all
    <3>2. s \in Seq(T) /\ Len(s) = size /\ t \in T /\ b = Append(s, t)
      BY <1>4, <2>3, <3>1
    <3>3. b \in Seq(T) /\ Len(b) = size + 1 /\ b[size + 1] = t /\ \A i \in 1..size : b[i] = s[i]
      BY ONLY <3>2
    <3>4. \A i \in 1..size : s[i] = Kept(tokens[mark + i])
      BY <2>2, <3>1
    <3>5. QED
      BY <3>1, <3>3, <3>4
  <2>5. \A i \in 1..(size + 1) : i \in 1..size \/ i = size + 1
    BY <1>3
  <2>6. \A i \in 1..(size + 1) : Kept(more[mark + i]) = b[i]
    BY <1>3, <2>4, <2>5
  <2>7. a = [i \in 1..(size + 1) |-> b[i]]
    BY <2>1, <2>3, <2>6
  <2>8. b = [i \in 1..(size + 1) |-> b[i]]
    BY ONLY <1>3, <2>4
  <2>9. QED
    BY <2>3, <2>7, <2>8
<1> HIDE DEF all
<1>6. /\ FlattenSeq(Append(all(tokens), Kept(tok))) = FlattenSeq(all(tokens)) \o Kept(tok)
      /\ FlattenSeq(all(tokens)) \in Seq(TokenSet)
  BY <1>4, FlattenAppend
<1>7. Behind = FlattenSeq(all(tokens)) /\ Behind' = FlattenSeq(all(more))
  BY <1>2 DEF Behind, all, Kept
<1>8. Behind \o <<>> = Behind /\ Behind \o <<tok>> = Append(Behind, tok)
  BY <1>6, <1>7, ConcatFacts
<1>9. QED
  BY <1>5, <1>6, <1>7, <1>8 DEF Kept

-----------------------------------------------------------------------------
(* What is true of a finished file while it is opened                       *)

\* Until the first token has been read the lexer is in it.
AtFirst(l) ==
  /\ match = 0
  /\ \/ tokens = <<>> /\ halted = "overflow"
     \/ tokens = <<>> /\ halted = "no" /\ pos = 0 /\ state = "default"
     \/ /\ tokens = <<>> /\ halted = "no" /\ pos \in 1..(l - 1)
        /\ state = IF text.chars[1] = "%" THEN "comment" ELSE "regular"
     \/ tokens # <<>> /\ Clear

\* What the scan has matched stands before it, and it is complete only behind the keyword.
Scanning(key) ==
  /\ Clear /\ halted = "no" /\ pos \in WindowStart..(key + 8)
  /\ pos >= key - 1 => match = pos - key + 2
  /\ pos < key - 1 => match <= 8
  /\ match >= 1 => /\ pos - match + 1 > WindowStart /\ text.chars[pos - match + 1] \in Spaces
                   /\ \A j \in 1..(match - 1) : text.chars[pos - match + 1 + j] = Startxref[j]

Offset == <<Token("regular", text.of)>>

\* The lexer stands before the offset, in it or behind it.
AtOffset(key, num) ==
  \/ Behind = <<>> /\ halted = "overflow"
  \/ Behind = <<>> /\ halted = "no" /\ Clear /\ pos \in (key + 8)..(num - 1)
  \/ /\ Behind = <<>> /\ halted = "no" /\ state = "regular"
     /\ pos \in num..(num + Len(text.of) - 1) /\ Held(text.of, pos - num + 1)
  \/ Behind = Offset

OpensAt(l, key, num) ==
  /\ FirstEnds(l) /\ KeyAt(key, num)
  /\ phase \in {"version", "scan", "number", "opened"}
  /\ phase = "version" => AtFirst(l)
  /\ phase = "scan" => Scanning(key)
  /\ phase = "number" => AtOffset(key, num)
  /\ phase = "opened" => Behind = Offset

FinishedInv == IsFinished /\ phase # "lex" => \E l, key, num : OpensAt(l, key, num)

\* What a step does to the marks of the file, which it leaves alone.
LEMMA SameFile ==
  ASSUME text' = text, NEW l, NEW key, NEW num, FirstEnds(l), KeyAt(key, num)
  PROVE  FirstEnds(l)' /\ KeyAt(key, num)'
BY DEF FirstEnds, KeyAt, Size

LEMMA LexStepKeepsText == ASSUME LexStep PROVE text' = text
BY DEF LexStep, LineEnd, EndOfText, ReadChar

\* A token is never without an end.
LEMMA AppendsSome ==
  ASSUME LexInv, NEW tok \in TokenSet
  PROVE  Append(tokens, tok) # <<>>
<1>1. Len(Append(tokens, tok)) = Len(tokens) + 1 /\ Len(tokens) \in Nat
  BY DEF LexInv
<1>2. QED
  BY <1>1

LEMMA VersionStep ==
  ASSUME LexInv, NEW l, FirstEnds(l), AtFirst(l), tokens = <<>>, LexStep, match' = match
  PROVE  AtFirst(l)'
<1>1. text' = text /\ FirstEnds(l)' /\ Size \in Nat /\ l \in 2..Size /\ pos \in Nat /\ Size = Len(text.chars)
      /\ buf \in Seq(Alphabet)
  BY LexStepKeepsText DEF FirstEnds, Size, LexInv
<1>2. halted = "no"
  BY DEF LexStep, LineEnd, ReadChar, EndOfText
<1>3. (pos = 0 /\ state = "default") \/ (pos \in 1..(l - 1) /\ state = IF text.chars[1] = "%" THEN "comment" ELSE "regular")
  BY <1>2 DEF AtFirst
<1>4. match' = 0
  BY DEF AtFirst
<1>5. pos < Len(text.chars) /\ state # "out_eol"
  BY <1>1, <1>3
<1>6. ReadChar /\ pos' = pos + 1
  BY <1>1, <1>5 DEF LexStep, LineEnd, EndOfText, ReadChar
<1>7. ASSUME NEW st, tokens' = <<>>, halted' = "no", pos' \in 1..(l - 1), state' = st,
             st = IF text.chars[1] = "%" THEN "comment" ELSE "regular"
      PROVE  AtFirst(l)'
  BY <1>1, <1>4, <1>7 DEF AtFirst
<1>8. ASSUME NEW tok \in TokenSet, tokens' = Append(tokens, tok), Clear' PROVE AtFirst(l)'
  <2>1. tokens' # <<>>
    BY <1>8, AppendsSome
  <2>2. QED
    BY <1>4, <1>8, <2>1 DEF AtFirst
<1>9. ASSUME NEW st, Keep(st), state = st, pos + 1 \in 2..(l - 1),
             st = IF text.chars[1] = "%" THEN "comment" ELSE "regular"
      PROVE  AtFirst(l)'
  <2>1. CASE Len(buf) = BufSize
    BY <1>4, <1>9, <2>1 DEF Keep, Overflow, AtFirst
  <2>2. CASE Len(buf) # BufSize
    <3>1. state' = st /\ tokens' = <<>> /\ halted' = "no"
      BY <1>2, <1>9, <2>2 DEF Keep
    <3>2. pos' \in 1..(l - 1)
      BY <1>1, <1>6, <1>9
    <3>3. QED
      BY <1>7, <1>9, <3>1, <3>2
  <2>3. QED
    BY <2>1, <2>2
<1>10. CASE pos = 0 /\ state = "default"
  <2>1. state \in DOMAIN Pending /\ Pending[state] = "none" /\ Char = text.chars[1] /\ pos' \in 1..(l - 1)
    BY <1>1, <1>6, <1>10, PendingStates DEF Pending, Char
  <2>2. CASE Char = "%"
    <3>1. Delimiter
      BY <1>6, <2>1, <2>2, TokenBranch
    <3>2. Flush("comment", <<>>)
      BY <2>2, <3>1 DEF Delimiter
    <3>3. tokens' = <<>> /\ halted' = "no" /\ state' = "comment"
      BY <1>2, <2>1, <3>2 DEF Flush, Emit
    <3>4. QED
      BY <1>7, <2>1, <2>2, <3>3
  <2>3. CASE Char # "%"
    <3>1. Char \notin Special
      <4>1. 1 \in 1..(l - 1)
        BY <1>1
      <4>2. QED
        BY <2>1, <2>3, <4>1 DEF FirstEnds
    <3>2. Regular
      BY <1>6, <2>1, <3>1, TokenBranch
    <3>3. Flush("regular", <<Char>>)
      BY <1>10, <3>2 DEF Regular
    <3>4. tokens' = <<>> /\ halted' = "no" /\ state' = "regular"
      BY <1>2, <2>1, <3>3 DEF Flush, Emit
    <3>5. QED
      BY <1>7, <2>1, <2>3, <3>4
  <2>4. QED
    BY <2>2, <2>3
<1>11. CASE pos \in 1..(l - 1) /\ text.chars[1] = "%" /\ state = "comment"
  <2>1. text.chars[l] \in {CR, LF} /\ \A i \in 2..(l - 1) : text.chars[i] \notin {CR, LF}
    <3>1. 1 \in 1..(l - 1) /\ text.chars[1] \in Special
      BY <1>1, <1>11 DEF Special
    <3>2. QED
      BY <3>1 DEF FirstEnds
  <2>2. InComment
    BY <1>6, <1>11, PendingStates DEF ReadChar, InString, InHexString, WhiteSpace, Delimiter, OpenString, Regular, InToken
  <2>3. CASE pos + 1 = l
    <3>1. PICK st \in {"out_eol", "in_eol"} : Emit("comment", buf, st, <<>>)
      BY <2>1, <2>2, <2>3 DEF InComment, Char
    <3>2. tokens' = Append(tokens, Token("comment", buf)) /\ Clear'
      BY <3>1 DEF Emit, Clear
    <3>3. Token("comment", buf) \in TokenSet
      BY <1>1 DEF Token, TokenSet, Events
    <3>4. QED
      BY <1>8, <3>2, <3>3
  <2>4. CASE pos + 1 # l
    <3>1. pos + 1 \in 2..(l - 1)
      BY <1>1, <1>11, <2>4
    <3>2. Char \notin {CR, LF}
      BY <2>1, <3>1 DEF Char
    <3>3. Keep("comment")
      BY <2>2, <3>2 DEF InComment
    <3>4. QED
      BY <1>9, <1>11, <3>1, <3>3
  <2>5. QED
    BY <2>3, <2>4
<1>12. CASE pos \in 1..(l - 1) /\ text.chars[1] # "%" /\ state = "regular"
  <2>1. text.chars[l] \in Spaces /\ \A i \in 1..(l - 1) : text.chars[i] \notin Special
    BY <1>12 DEF FirstEnds
  <2>2. CASE pos + 1 = l
    <3>1. Clear' /\ tokens' = Append(tokens, Token("regular", buf))
      BY <1>6, <1>12, <2>1, <2>2, SpaceEnds DEF Char
    <3>2. Token("regular", buf) \in TokenSet
      BY <1>1 DEF Token, TokenSet, Events
    <3>3. QED
      BY <1>8, <3>1, <3>2
  <2>3. CASE pos + 1 # l
    <3>1. pos + 1 \in 2..(l - 1) /\ pos + 1 \in 1..(l - 1)
      BY <1>1, <1>12, <2>3
    <3>2. Char \notin Special
      BY <2>1, <3>1 DEF Char
    <3>3. Regular
      BY <1>6, <1>12, <3>2, PendingStates, TokenBranch
    <3>4. Keep("regular")
      BY <1>12, <3>3 DEF Regular
    <3>5. QED
      BY <1>9, <1>12, <3>1, <3>4
  <2>4. QED
    BY <2>2, <2>3
<1>13. QED
  BY <1>3, <1>10, <1>11, <1>12

LEMMA KeyFacts ==
  ASSUME LexInv, NEW key, NEW num, KeyAt(key, num)
  PROVE  /\ Size \in Nat /\ Size = Len(text.chars) /\ pos \in Nat /\ key \in Nat /\ num \in Nat /\ key >= 2
         /\ WindowStart \in Nat /\ Window \in Nat /\ WindowStart < key - 1 /\ WindowStart >= Size - Window
         /\ num >= key + 9 /\ key + 8 < Size
         /\ Len(text.of) \in Nat /\ Len(text.of) > 0 /\ num + Len(text.of) <= Size
<1>1. Size \in Nat /\ Size = Len(text.chars) /\ pos \in Nat /\ Window \in Nat
  BY WindowAssumption DEF LexInv, Size
<1>2. key \in Nat /\ num \in Nat /\ key >= 2 /\ num >= key + 9 /\ key - 1 > Size - Window
      /\ text.of \in Seq(Digits) /\ text.of # <<>> /\ num + Len(text.of) <= Size
  BY DEF KeyAt
<1>3. PICK n : n = Len(text.of)
  OBVIOUS
<1>4. n \in Nat /\ n > 0
  BY <1>2, <1>3
<1>5. key + 8 < Size /\ num + n <= Size
  BY ONLY <1>1, <1>2, <1>3, <1>4
<1>6. WindowStart \in Nat /\ WindowStart < key - 1 /\ WindowStart >= Size - Window
  <2>1. WindowStart = IF Size < Window THEN 0 ELSE Size - Window
    BY <1>1 DEF WindowStart
  <2>2. QED
    BY ONLY <1>1, <1>2, <2>1
<1>7. QED
  BY <1>1, <1>2, <1>3, <1>4, <1>5, <1>6

LEMMA SeekStep ==
  ASSUME LexInv, NEW l, NEW key, NEW num, KeyAt(key, num), AtFirst(l), SeekEnd
  PROVE  Scanning(key)'
<1>1. Clear /\ match = 0
  BY DEF SeekEnd, AtFirst
<1>2. Clear' /\ match' = 0 /\ halted' = "no" /\ pos' = WindowStart /\ text' = text
  BY <1>1 DEF SeekEnd, Clear
<1>3. WindowStart' = WindowStart
  BY <1>2 DEF WindowStart
<1>4. WindowStart \in WindowStart..(key + 8) /\ WindowStart < key - 1
  BY KeyFacts
<1>5. QED
  BY <1>2, <1>3, <1>4, KeyFacts DEF Scanning

\* Before the keyword no more than eight characters of it are matched.
LEMMA NoEarlierKey ==
  ASSUME LexInv, NEW key, NEW num, KeyAt(key, num), NEW start \in Nat, start > WindowStart, start < key - 1,
         text.chars[start] \in Spaces
  PROVE  ~\A j \in 1..8 : start + j <= Size /\ text.chars[start + j] = Startxref[j]
<1> SUFFICES ASSUME \A j \in 1..8 : start + j <= Size /\ text.chars[start + j] = Startxref[j] PROVE FALSE
  OBVIOUS
<1>1. start \in 1..(key - 2) /\ start > Size - Window
  <2>1. /\ start \in Nat /\ start > WindowStart /\ start < key - 1 /\ key \in Nat /\ Size \in Nat /\ Window \in Nat
        /\ WindowStart \in Nat /\ WindowStart >= Size - Window
    BY KeyFacts
  <2>2. QED
    BY ONLY <2>1
<1>2. PICK j \in 1..8 : ~(start + j \in 1..Size /\ text.chars[start + j] = Startxref[j])
  BY <1>1 DEF KeyAt
<1>3. start + j \in 1..Size
  <2>1. start + j <= Size /\ j \in 1..8 /\ Size \in Nat
    BY KeyFacts
  <2>2. QED
    BY ONLY <2>1
<1>4. QED
  BY <1>2, <1>3

LEMMA ScanStep ==
  ASSUME LexInv, PhaseInv, NEW key, NEW num, KeyAt(key, num), Scanning(key), Scan
  PROVE  Scanning(key)'
<1>1. /\ pos' = pos + 1 /\ match # Found /\ pos < Len(text.chars)
      /\ match' = (IF Char \in Spaces THEN MatchBlank ELSE MatchLetter)
      /\ text' = text /\ state' = state /\ buf' = buf /\ halted' = halted
  BY DEF Scan, Spaces
<1>2. /\ Clear' /\ halted' = "no" /\ WindowStart' = WindowStart /\ Char = text.chars[pos + 1]
  BY <1>1 DEF Scanning, Clear, WindowStart, Char
<1>3. /\ pos \in WindowStart..(key + 8)
      /\ pos >= key - 1 => match = pos - key + 2
      /\ pos < key - 1 => match <= 8
      /\ match >= 1 => /\ pos - match + 1 > WindowStart /\ text.chars[pos - match + 1] \in Spaces
                       /\ \A j \in 1..(match - 1) : text.chars[pos - match + 1 + j] = Startxref[j]
  BY DEF Scanning
<1>4. /\ pos \in Nat /\ key \in Nat /\ key >= 2 /\ WindowStart \in Nat /\ WindowStart < key - 1 /\ match \in 0..10
      /\ Size \in Nat /\ pos < Size /\ match # 10
  BY <1>1, KeyFacts, StartxrefIs DEF PhaseInv
<1>5. pos < key + 8
  BY ONLY <1>3, <1>4
<1>6. pos + 1 \in WindowStart..(key + 8)
  BY ONLY <1>3, <1>4, <1>5
<1>7. PICK next : next = match'
  OBVIOUS
\* What is to be shown.
<1> DEFINE After(m) ==
      /\ pos + 1 >= key - 1 => m = pos + 1 - key + 2
      /\ pos + 1 < key - 1 => m <= 8
      /\ m >= 1 => /\ pos + 1 - m + 1 > WindowStart /\ text.chars[pos + 1 - m + 1] \in Spaces
                   /\ \A j \in 1..(m - 1) : text.chars[pos + 1 - m + 1 + j] = Startxref[j]
<1>8. next = IF Char \in Spaces THEN (IF match = 9 THEN 10 ELSE 1)
             ELSE (IF match >= 1 /\ Char = Startxref[match] THEN match + 1 ELSE 0)
  BY <1>1, <1>7, StartxrefIs DEF MatchBlank, MatchLetter
<1>9. SUFFICES After(next)
  <2> SUFFICES ASSUME After(next) PROVE Scanning(key)'
    OBVIOUS
  <2>1. Clear' /\ halted' = "no" /\ pos' \in WindowStart'..(key + 8)
    BY <1>1, <1>2, <1>6
  <2>2. (pos + 1 >= key - 1 => next = pos + 1 - key + 2) /\ (pos + 1 < key - 1 => next <= 8)
    OBVIOUS
  <2>3. (pos' >= key - 1 => match' = pos' - key + 2) /\ (pos' < key - 1 => match' <= 8)
    BY ONLY <1>1, <1>4, <1>7, <2>2
  <2>4. match' >= 1 => /\ pos' - match' + 1 > WindowStart' /\ text'.chars[pos' - match' + 1] \in Spaces
                       /\ \A j \in 1..(match' - 1) : text'.chars[pos' - match' + 1 + j] = Startxref[j]
    <3>1. pos' = pos + 1 /\ match' = next /\ text' = text /\ WindowStart' = WindowStart
      BY <1>1, <1>2, <1>7
    <3>2. next >= 1 => /\ pos + 1 - next + 1 > WindowStart /\ text.chars[pos + 1 - next + 1] \in Spaces
                       /\ \A j \in 1..(next - 1) : text.chars[pos + 1 - next + 1 + j] = Startxref[j]
      OBVIOUS
    <3>3. PICK start : start = pos + 1 - next + 1
      OBVIOUS
    <3>4. pos' - match' + 1 = start
      <4>1. next \in Int /\ pos \in Nat
        BY <1>4, <1>8
      <4>2. QED
        BY ONLY <3>1, <3>3, <4>1
    <3>5. next >= 1 => /\ start > WindowStart /\ text.chars[start] \in Spaces
                       /\ \A j \in 1..(next - 1) : text.chars[start + j] = Startxref[j]
      BY ONLY <3>2, <3>3
    <3>6. QED
      BY ONLY <3>1, <3>4, <3>5
  <2>5. QED
    BY <2>1, <2>2, <2>3, <2>4 DEF Scanning, Spaces, Startxref
<1>10. CASE pos < key - 1
  <2>1. CASE Char \in Spaces
    <3>1. next = 1
      BY ONLY <1>3, <1>8, <1>10, <2>1
    <3>2. pos + 1 - 1 + 1 = pos + 1 /\ pos + 1 > WindowStart /\ 1..(1 - 1) = {}
      BY ONLY <1>3, <1>4
    <3>3. pos + 1 >= key - 1 => 1 = pos + 1 - key + 2
      BY ONLY <1>4, <1>10
    <3>4. QED
      BY <1>2, <2>1, <3>1, <3>2, <3>3
  <2>2. CASE Char \notin Spaces
    <3>1. pos + 1 < key - 1
      <4>1. text.chars[key - 1] \in Spaces
        BY DEF KeyAt
      <4>2. pos + 1 # key - 1
        BY <1>2, <2>2, <4>1
      <4>3. QED
        BY ONLY <1>4, <1>10, <4>2
    <3>2. CASE match >= 1 /\ Char = Startxref[match]
      <4>1. next = match + 1
        BY <1>8, <2>2, <3>2
      <4>2. PICK start : start = pos - match + 1
        OBVIOUS
      <4>3. /\ start \in Nat /\ start > WindowStart /\ text.chars[start] \in Spaces
            /\ pos + 1 - (match + 1) + 1 = start /\ start + match = pos + 1 /\ start < key - 1
            /\ \A j \in 1..(match - 1) : text.chars[start + j] = Startxref[j]
        <5>1. start > WindowStart /\ text.chars[start] \in Spaces
              /\ \A j \in 1..(match - 1) : text.chars[start + j] = Startxref[j]
          BY <1>3, <3>2, <4>2
        <5>2. start \in Nat /\ pos + 1 - (match + 1) + 1 = start /\ start + match = pos + 1 /\ start < key - 1
          BY ONLY <1>4, <1>10, <3>2, <4>2, <5>1
        <5>3. QED
          BY <5>1, <5>2
      <4>4. ASSUME NEW j \in 1..match PROVE text.chars[start + j] = Startxref[j]
        <5>1. CASE j = match
          BY <1>2, <3>2, <4>3, <5>1
        <5>2. CASE j # match
          <6>1. j \in 1..(match - 1)
            BY ONLY <1>4, <5>2
          <6>2. QED
            BY <4>3, <6>1
        <5>3. QED
          BY <5>1, <5>2
      <4>5. match # 8
        <5>1. SUFFICES ASSUME match = 8 PROVE FALSE
          OBVIOUS
        <5>2. \A j \in 1..8 : start + j <= Size
          BY ONLY <1>4, <4>3, <5>1
        <5>3. \A j \in 1..8 : text.chars[start + j] = Startxref[j]
          BY <4>4, <5>1
        <5>4. QED
          BY <4>3, <5>2, <5>3, NoEarlierKey
      <4>6. match + 1 <= 8 /\ match + 1 - 1 = match
        BY ONLY <1>3, <1>4, <1>10, <4>5
      <4>7. QED
        <5>1. PICK m : m = match + 1
          OBVIOUS
        <5>2. pos + 1 - m + 1 = start /\ m - 1 = match /\ m <= 8 /\ ~(pos + 1 >= key - 1)
          BY ONLY <1>4, <3>1, <4>3, <4>6, <5>1
        <5>3. After(m)
          BY <4>3, <4>4, <5>2
        <5>4. QED
          BY <4>1, <5>1, <5>3
    <3>3. CASE ~(match >= 1 /\ Char = Startxref[match])
      <4>1. next = 0
        BY <1>8, <2>2, <3>3
      <4>2. QED
        BY ONLY <1>4, <3>1, <4>1
    <3>4. QED
      BY <3>2, <3>3
  <2>3. QED
    BY <2>1, <2>2
<1>11. CASE pos >= key - 1
  <2>1. match = pos - key + 2 /\ match \in 1..9 /\ pos + 1 = key + match - 1
    BY ONLY <1>3, <1>4, <1>11
  <2>2. Char = Startxref[match] /\ Char \notin Spaces
    <3>1. text.chars[key + match - 1] = Startxref[match]
      BY <2>1 DEF KeyAt
    <3>2. QED
      BY <1>2, <2>1, <3>1, StartxrefIs
  <2>3. next = match + 1
    BY <1>8, <2>1, <2>2
  <2>4. PICK start, m : start = key - 1 /\ m = next
    OBVIOUS
  <2>5. /\ pos - match + 1 = start /\ pos + 1 - m + 1 = start /\ m = pos + 1 - key + 2 /\ start + match = pos + 1
        /\ start > WindowStart /\ m - 1 = match /\ pos + 1 >= key - 1
    BY ONLY <1>4, <2>1, <2>3, <2>4
  <2>6. text.chars[start] \in Spaces /\ \A j \in 1..(match - 1) : text.chars[start + j] = Startxref[j]
    BY <1>3, <2>1, <2>5
  <2>7. ASSUME NEW j \in 1..match PROVE text.chars[start + j] = Startxref[j]
    <3>1. CASE j = match
      BY <1>2, <2>2, <2>5, <3>1
    <3>2. CASE j # match
      <4>1. j \in 1..(match - 1)
        BY ONLY <2>1, <3>2
      <4>2. QED
        BY <2>6, <4>1
    <3>3. QED
      BY <3>1, <3>2
  <2>8. After(m)
    <3>1. ~(pos + 1 < key - 1)
      BY ONLY <1>4, <1>11
    <3>2. QED
      BY <2>5, <2>6, <2>7, <3>1
  <2>9. QED
    BY <2>4, <2>8
<1>12. QED
  BY <1>4, <1>10, <1>11

LEMMA ScanEndsStep ==
  ASSUME LexInv, PhaseInv, NEW key, NEW num, KeyAt(key, num), Scanning(key), ScanEnds
  PROVE  AtOffset(key, num)'
<1>1. /\ match = 10 /\ mark' = Len(tokens) /\ tokens' = tokens /\ pos' = pos /\ halted' = halted /\ text' = text
      /\ state' = state /\ buf' = buf
  BY StartxrefIs DEF ScanEnds, vars, lexer
<1>2. Clear' /\ halted' = "no"
  BY <1>1 DEF Scanning, Clear
<1>3. pos' \in (key + 8)..(num - 1)
  <2>1. /\ pos \in Nat /\ key \in Nat /\ num \in Nat /\ num >= key + 9 /\ WindowStart \in Nat
    BY KeyFacts
  <2>2. /\ pos \in WindowStart..(key + 8)
        /\ pos >= key - 1 => match = pos - key + 2
        /\ pos < key - 1 => match <= 8
    BY DEF Scanning
  <2>3. match = 10 /\ pos' = pos
    BY <1>1
  <2>4. QED
    BY ONLY <2>1, <2>2, <2>3
<1>4. Behind' = <<>>
  <2>1. Len(tokens') - mark' = 0
    <3>1. Len(tokens) \in Nat
      BY DEF LexInv
    <3>2. QED
      BY <1>1, <3>1
  <2>2. 1..0 = {}
    OBVIOUS
  <2>3. QED
    BY <2>1, <2>2 DEF Behind, FlattenSeq
<1>5. QED
  BY <1>2, <1>3, <1>4 DEF AtOffset

LEMMA KeywordIsFound ==
  ASSUME LexInv, PhaseInv, NEW key, NEW num, KeyAt(key, num), Scanning(key)
  PROVE  ~NotFound
<1>1. SUFFICES ASSUME match # 10, pos = Len(text.chars) PROVE FALSE
  BY StartxrefIs DEF NotFound
<1>2. /\ pos \in Nat /\ key \in Nat /\ Size \in Nat /\ Size = Len(text.chars) /\ key + 8 < Size /\ WindowStart \in Nat
  BY KeyFacts
<1>3. pos \in WindowStart..(key + 8)
  BY DEF Scanning
<1>4. QED
  BY ONLY <1>1, <1>2, <1>3

LEMMA NumberStep ==
  ASSUME LexInv, PhaseInv, NEW key, NEW num, KeyAt(key, num), AtOffset(key, num), Behind = <<>>,
         LexStep, mark' = mark
  PROVE  AtOffset(key, num)'
<1>1. /\ text' = text /\ halted = "no" /\ mark \in 0..Len(tokens) /\ buf \in Seq(Alphabet) /\ Len(buf) <= BufSize
      /\ tokens \in Seq(TokenSet)
  BY LexStepKeepsText DEF LexStep, LineEnd, ReadChar, EndOfText, LexInv, PhaseInv
<1>2. PICK of, last : of = text.of /\ last = num + Len(of)
  OBVIOUS
<1>3. /\ pos \in Nat /\ key \in Nat /\ num \in Nat /\ Size \in Nat /\ Size = Len(text.chars) /\ num >= key + 9
      /\ last \in Nat /\ num < last /\ last <= Size /\ last = num + Len(of) /\ Len(of) \in Nat
  <2>1. Len(text.of) \in Nat /\ Len(text.of) > 0 /\ num + Len(text.of) <= Size /\ num \in Nat
    BY KeyFacts
  <2>2. Len(of) = Len(text.of)
    BY <1>2
  <2>3. last \in Nat /\ num < last /\ last <= Size
    BY ONLY <1>2, <2>1, <2>2
  <2>4. QED
    BY <1>2, <2>1, <2>2, <2>3, KeyFacts
<1>4. /\ \A i \in (key + 9)..(num - 1) : text.chars[i] \in Spaces
      /\ of \in Seq(Digits) /\ of # <<>> /\ text.chars[last] \in Spaces
      /\ \A j \in 1..Len(of) : text.chars[num + j - 1] = of[j]
  BY <1>2 DEF KeyAt
<1>5. <<>> # Offset
  BY DEF Offset
<1>6. \/ Clear /\ pos \in (key + 8)..(num - 1)
      \/ state = "regular" /\ pos \in num..(last - 1) /\ Held(of, pos - num + 1)
  <2>1. \/ Clear /\ pos \in (key + 8)..(num - 1)
        \/ state = "regular" /\ pos \in num..(num + Len(of) - 1) /\ Held(of, pos - num + 1)
    BY <1>1, <1>2, <1>5 DEF AtOffset
  <2>2. num + Len(of) - 1 = last - 1
    BY ONLY <1>3
  <2>3. QED
    BY <2>1, <2>2
<1>7. pos < Len(text.chars)
  <2>1. pos \in (key + 8)..(num - 1) \/ pos \in num..(last - 1)
    BY <1>6
  <2>2. QED
    BY ONLY <1>3, <2>1
\* The cases of what comes out.
<1>8. ASSUME tokens' = tokens PROVE Behind' = <<>>
  BY <1>8 DEF Behind
<1>9. ASSUME NEW event \in {"white", "eol"}, tokens' = Append(tokens, Token(event, buf))
      PROVE  Behind' = <<>>
  <2>1. Token(event, buf) \in TokenSet /\ Token(event, buf).event \in Skipped
    BY <1>1 DEF Token, TokenSet, Events, Skipped
  <2>2. QED
    BY <1>1, <1>9, <2>1, BehindAppend
<1>10. ASSUME NEW k, k = pos' - num + 1, Held(of, k)', pos' \in num..(last - 1), state' = "regular", halted' = "no",
             Behind' = <<>>
      PROVE  AtOffset(key, num)'
  <2>1. text'.of = of /\ num + Len(text'.of) - 1 = last - 1
    <3>1. text'.of = of
      BY <1>1, <1>2
    <3>2. num + Len(of) - 1 = last - 1
      BY ONLY <1>3
    <3>3. QED
      BY <3>1, <3>2
  <2>2. Len(buf') = k /\ \A i \in 1..k : buf'[i] = text'.of[i]
    BY <1>10, <2>1 DEF Held
  <2>3. Held(text.of, pos - num + 1)'
    BY <1>10, <2>2 DEF Held
  <2>4. pos' \in num..(num + Len(text'.of) - 1)
    BY <1>10, <2>1
  <2>5. QED
    BY <1>10, <2>3, <2>4 DEF AtOffset
<1>11. CASE LineEnd
  <2>1. state = "out_eol" /\ Emit("eol", <<>>, "default", buf) /\ pos' = pos
    BY <1>11 DEF LineEnd
  <2>2. buf = <<>> /\ pos \in (key + 8)..(num - 1)
    BY <1>6, <2>1 DEF Clear
  <2>3. tokens' = Append(tokens, Token("eol", buf)) /\ Clear' /\ halted' = "no"
    BY <1>1, <2>1, <2>2 DEF Emit, Clear
  <2>4. Behind' = <<>>
    BY <1>9, <2>3
  <2>5. QED
    BY <2>1, <2>2, <2>3, <2>4 DEF AtOffset
<1>12. CASE ReadChar
  <2>1. pos' = pos + 1 /\ state # "out_eol" /\ Char = text.chars[pos + 1]
    BY <1>12 DEF ReadChar, Char
  <2>2. CASE Clear /\ pos + 1 \in (key + 9)..(num - 1)
    <3>1. Char \in Spaces
      BY <1>4, <2>1, <2>2
    <3>2. /\ Clear' /\ halted' = "no"
          /\ tokens' = tokens \/ tokens' = Append(tokens, Token("white", buf))
      BY <1>12, <2>2, <3>1, SpaceReads
    <3>3. Behind' = <<>>
      BY <1>8, <1>9, <3>2
    <3>4. pos' \in (key + 8)..(num - 1)
      BY ONLY <1>3, <2>1, <2>2
    <3>5. QED
      BY <3>2, <3>3, <3>4 DEF AtOffset
  <2>3. CASE Clear /\ pos + 1 = num
    <3>1. Char = of[1] /\ Char \notin Special
      <4>1. 1 \in 1..Len(of) /\ num + 1 - 1 = num
        BY <1>3
      <4>2. Char = of[1] /\ of[1] \in Digits
        BY <1>4, <2>1, <2>3, <4>1
      <4>3. QED
        BY <4>2 DEF Digits, Special, Blank, CR, LF
    <3>2. state \in DOMAIN Pending /\ Pending[state] \in {"none", "white"}
      BY <2>1, <2>3, PendingStates DEF Clear, Pending
    <3>3. Regular
      BY <1>12, <3>1, <3>2, TokenBranch
    <3>4. Flush("regular", <<Char>>)
      BY <2>3, <3>3 DEF Regular, Clear
    <3>5. /\ state' = "regular" /\ buf' = <<Char>> /\ halted' = "no"
          /\ tokens' = tokens \/ tokens' = Append(tokens, Token("white", buf))
      BY <1>1, <3>2, <3>4 DEF Flush, Emit
    <3>6. Behind' = <<>>
      BY <1>8, <1>9, <3>5
    <3>7. pos' - num + 1 = 1 /\ pos' \in num..(last - 1)
      <4>1. pos' = num /\ num \in Nat /\ last \in Nat /\ num < last
        BY <1>3, <2>1, <2>3
      <4>2. QED
        BY ONLY <4>1
    <3>8. Held(of, 1)'
      BY <3>1, <3>5 DEF Held
    <3>9. QED
      BY <1>10, <3>5, <3>6, <3>7, <3>8
  <2>4. CASE state = "regular" /\ pos + 1 \in num..(last - 1) /\ Held(of, pos - num + 1)
    <3>1. PICK m : m = pos - num + 1
      OBVIOUS
    <3>2. m + 1 \in 1..Len(of) /\ num + (m + 1) - 1 = pos + 1 /\ m \in Nat /\ pos' \in num..(last - 1)
          /\ pos' - num + 1 = m + 1
      <4>1. pos \in num..(last - 1)
        BY <1>6, <2>4 DEF Clear
      <4>2. pos + 1 \in num..(last - 1) /\ pos' = pos + 1
        BY <2>1, <2>4
      <4>3. QED
        BY ONLY <1>3, <3>1, <4>1, <4>2
    <3>3. Char = of[m + 1] /\ Char \notin Special
      <4>1. Char = of[m + 1] /\ of[m + 1] \in Digits
        BY <1>4, <2>1, <3>2
      <4>2. QED
        BY <4>1 DEF Digits, Special, Blank, CR, LF
    <3>4. Regular
      BY <1>12, <2>4, <3>3, PendingStates, TokenBranch
    <3>5. Keep("regular")
      BY <2>4, <3>4 DEF Regular
    <3>6. CASE Len(buf) = BufSize
      <4>1. tokens' = tokens /\ halted' = "overflow"
        BY <3>5, <3>6 DEF Keep, Overflow
      <4>2. QED
        BY <1>8, <4>1 DEF AtOffset
    <3>7. CASE Len(buf) # BufSize
      <4>1. buf' = Append(buf, Char) /\ state' = "regular" /\ tokens' = tokens /\ halted' = "no"
        BY <1>1, <3>5, <3>7 DEF Keep
      <4>2. Held(of, m + 1)'
        <5>1. Len(buf) = m /\ \A i \in 1..m : buf[i] = of[i]
          BY <2>4, <3>1 DEF Held
        <5>2. Len(Append(buf, Char)) = m + 1 /\ (\A i \in 1..m : Append(buf, Char)[i] = buf[i])
              /\ Append(buf, Char)[m + 1] = Char
          BY <1>1, <5>1
        <5>3. \A i \in 1..(m + 1) : i \in 1..m \/ i = m + 1
          BY <3>2
        <5>4. QED
          BY <3>3, <4>1, <5>1, <5>2, <5>3 DEF Held
      <4>3. QED
        BY <1>8, <1>10, <3>2, <4>1, <4>2
    <3>8. QED
      BY <3>6, <3>7
  <2>5. CASE state = "regular" /\ pos + 1 = last /\ Held(of, pos - num + 1)
    <3>1. buf = of
      <4>1. pos - num + 1 = Len(of)
        BY ONLY <1>3, <2>5
      <4>2. of \in Seq(Alphabet)
        <5>1. Digits \subseteq Alphabet
          BY DEF Alphabet
        <5>2. QED
          BY <1>4, <5>1
      <4>3. QED
        BY <2>5, <4>1, <4>2, HeldAll
    <3>2. tokens' = Append(tokens, Token("regular", buf))
      BY <1>4, <1>12, <2>1, <2>5, SpaceEnds
    <3>3. Token("regular", buf) \in TokenSet /\ Token("regular", buf).event \notin Skipped
      BY <1>1 DEF Token, TokenSet, Events, Skipped
    <3>4. Behind' = Append(<<>>, Token("regular", buf))
      BY <1>1, <3>2, <3>3, BehindAppend
    <3>5. Behind' = Offset'
      BY <1>1, <1>2, <3>1, <3>4 DEF Offset
    <3>6. QED
      BY <3>5 DEF AtOffset
  <2>6. \/ Clear /\ (pos + 1 \in (key + 9)..(num - 1) \/ pos + 1 = num)
        \/ state = "regular" /\ (pos + 1 \in num..(last - 1) \/ pos + 1 = last) /\ Held(of, pos - num + 1)
    <3>1. pos \in (key + 8)..(num - 1) => pos + 1 \in (key + 9)..(num - 1) \/ pos + 1 = num
      BY ONLY <1>3
    <3>2. pos \in num..(last - 1) => pos + 1 \in num..(last - 1) \/ pos + 1 = last
      BY ONLY <1>3
    <3>3. QED
      BY <1>6, <3>1, <3>2
  <2>7. QED
    BY <2>2, <2>3, <2>4, <2>5, <2>6
<1>13. ~EndOfText
  BY <1>3, <1>7 DEF EndOfText
<1>14. QED
  BY <1>11, <1>12, <1>13 DEF LexStep

LEMMA FinishedStep == ASSUME LexInv, PhaseInv, FinishedInv, [OpeningNext]_ovars PROVE FinishedInv'
<1>1. text' = text /\ (phase' = "lex" <=> phase = "lex")
  <2>1. CASE UNCHANGED ovars
    BY <2>1 DEF ovars, vars
  <2>2. CASE OpeningNext
    BY <2>2, LexStepKeepsText DEF OpeningNext, Lex, Version, SeekEnd, Scan, ScanEnds, NotFound, Number, NumberRead, vars
  <2>3. QED
    BY <2>1, <2>2
<1>2. SUFFICES ASSUME IsFinished, phase # "lex" PROVE \E l, key, num : OpensAt(l, key, num)'
  BY <1>1 DEF FinishedInv, IsFinished
<1>3. PICK l, key, num : OpensAt(l, key, num)
  BY <1>2 DEF FinishedInv
<1>4. FirstEnds(l) /\ KeyAt(key, num) /\ FirstEnds(l)' /\ KeyAt(key, num)'
  BY <1>1, <1>3, SameFile DEF OpensAt
<1>5. Offset' = Offset
  BY <1>1 DEF Offset
<1>6. CASE UNCHANGED ovars
  <2>1. /\ text' = text /\ pos' = pos /\ state' = state /\ buf' = buf /\ tokens' = tokens /\ halted' = halted
        /\ phase' = phase /\ match' = match /\ mark' = mark
    BY <1>6 DEF ovars, vars, lexer
  <2>2. AtFirst(l) => AtFirst(l)'
    BY <2>1 DEF AtFirst, Clear
  <2>3. Scanning(key) => Scanning(key)'
    BY <2>1 DEF Scanning, Clear, WindowStart
  <2>4. Behind' = Behind
    BY <2>1 DEF Behind
  <2>5. AtOffset(key, num) => AtOffset(key, num)'
    BY <1>5, <2>1, <2>4 DEF AtOffset, Clear, Held
  <2>6. QED
    BY <1>3, <1>4, <1>5, <2>1, <2>2, <2>3, <2>4, <2>5 DEF OpensAt
<1>7. CASE Version
  <2>1. phase = "version" /\ phase' = "version" /\ tokens = <<>> /\ LexStep /\ match' = match
    BY <1>7 DEF Version
  <2>2. AtFirst(l)'
    BY <1>3, <1>4, <2>1, VersionStep DEF OpensAt
  <2>3. QED
    BY <1>4, <2>1, <2>2 DEF OpensAt
<1>8. CASE SeekEnd
  <2>1. phase = "version" /\ phase' = "scan"
    BY <1>8 DEF SeekEnd
  <2>2. Scanning(key)'
    BY <1>3, <1>4, <1>8, <2>1, SeekStep DEF OpensAt
  <2>3. QED
    BY <1>4, <2>1, <2>2 DEF OpensAt
<1>9. CASE Scan
  <2>1. phase = "scan" /\ phase' = "scan"
    BY <1>9 DEF Scan
  <2>2. Scanning(key)'
    BY <1>3, <1>4, <1>9, <2>1, ScanStep DEF OpensAt
  <2>3. QED
    BY <1>4, <2>1, <2>2 DEF OpensAt
<1>10. CASE ScanEnds
  <2>1. phase = "scan" /\ phase' = "number"
    BY <1>10 DEF ScanEnds
  <2>2. AtOffset(key, num)'
    BY <1>3, <1>4, <1>10, <2>1, ScanEndsStep DEF OpensAt
  <2>3. QED
    BY <1>4, <2>1, <2>2 DEF OpensAt
<1>11. CASE NotFound
  <2>1. phase = "scan"
    BY <1>11 DEF NotFound
  <2>2. QED
    BY <1>3, <1>4, <1>11, <2>1, KeywordIsFound DEF OpensAt
<1>12. CASE Number
  <2>1. phase = "number" /\ phase' = "number" /\ Behind = <<>> /\ LexStep /\ mark' = mark
    BY <1>12 DEF Number
  <2>2. AtOffset(key, num)'
    BY <1>3, <1>4, <2>1, NumberStep DEF OpensAt
  <2>3. QED
    BY <1>4, <2>1, <2>2 DEF OpensAt
<1>13. CASE NumberRead
  <2>1. phase = "number" /\ Behind # <<>> /\ phase' = (IF IsOffset(Behind[1]) THEN "opened" ELSE "failed")
        /\ tokens' = tokens /\ mark' = mark
    BY <1>13 DEF NumberRead, vars, lexer
  <2>2. Behind = Offset
    BY <1>3, <2>1 DEF OpensAt, AtOffset
  <2>3. IsOffset(Behind[1])
    <3>1. Behind[1].event = "regular" /\ Behind[1].raw = text.of
      BY <2>2 DEF Offset, Token
    <3>2. RegType(text.of) = "int"
      BY <1>4, DigitsAreInt DEF KeyAt
    <3>3. QED
      BY <3>1, <3>2 DEF IsOffset
  <2>4. Behind' = Behind
    BY <2>1 DEF Behind
  <2>5. QED
    BY <1>4, <1>5, <2>1, <2>2, <2>3, <2>4 DEF OpensAt
<1>14. ~Lex
  BY <1>2 DEF Lex
<1>15. QED
  BY <1>6, <1>7, <1>8, <1>9, <1>10, <1>11, <1>12, <1>13, <1>14 DEF OpeningNext

\* A file that its writer has finished is never refused and opened nowhere but at its
\* offset, for files of any length and characters and a window of any size that the
\* keyword is in, whatever state the first line left the lexer in.
THEOREM FinishedFilesOpen == OpeningSpec => []OpensWhereWritten
<1>1. OpeningInit => LexInv /\ PhaseInv /\ FinishedInv
  <2> SUFFICES ASSUME OpeningInit PROVE FinishedInv
    BY InitInv
  <2> SUFFICES ASSUME IsFinished, phase # "lex" PROVE \E l, key, num : OpensAt(l, key, num)
    BY DEF FinishedInv
  <2>1. phase = "version" /\ text \in Files /\ pos = 0 /\ state = "default" /\ tokens = <<>> /\ halted = "no" /\ match = 0
    BY DEF OpeningInit, LexInit
  <2>2. PICK l, key, num : FirstEnds(l) /\ KeyAt(key, num)
    BY <2>1, FileMarks
  <2>3. AtFirst(l)
    BY <2>1 DEF AtFirst
  <2>4. QED
    BY <2>1, <2>2, <2>3 DEF OpensAt
<1>2. LexInv /\ PhaseInv /\ FinishedInv /\ [OpeningNext]_ovars => (LexInv /\ PhaseInv /\ FinishedInv)'
  BY NextInv, FinishedStep
<1>3. FinishedInv => OpensWhereWritten
  <2> SUFFICES ASSUME FinishedInv, IsFinished, phase \in {"opened", "failed", "exited"}
               PROVE  phase = "opened" /\ Behind[1].raw = text.of
    BY DEF OpensWhereWritten, IsFinished
  <2>1. PICK l, key, num : OpensAt(l, key, num)
    BY DEF FinishedInv
  <2>2. phase = "opened" /\ Behind = Offset
    BY <2>1 DEF OpensAt
  <2>3. QED
    BY <2>2 DEF Offset, Token
<1>4. QED
  BY <1>1, <1>2, <1>3, PTL DEF OpeningSpec
=============================================================================
