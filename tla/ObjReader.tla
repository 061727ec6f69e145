------------------------------- MODULE ObjReader -------------------------------
(***************************************************************************)
(* Reading one object of a given type: pindf_parse_one_obj, which reads a   *)
(* file and takes over stream data (_stream_state_handling), and            *)
(* pindf_parse_one_obj_from_buffer, which reads a decoded object stream.    *)
(* Both feed the parser of module Parser until its stack is one object of   *)
(* the type.                                                                *)
(*                                                                         *)
(* A text is what the lexer emits: a number or keyword at the very end of a *)
(* file, with nothing behind it to end it, is not part of it.               *)
(***************************************************************************)
EXTENDS Parser

CONSTANT Targets    \* the types that are asked for

VARIABLES
  source,         \* "file" or "buffer"
  target,         \* target_type
  stream_state,   \* 0 to 3
  stream_len,     \* the length that the dictionary gives
  ret,            \* the value returned, or Running
  result          \* *ret_obj

request == <<raw, text, source, target>>
reader == <<stream_state, stream_len, ret, result>>
rvars == <<request, read, parser, reader>>

\* PINDF_PDF_UNK, "0 for any type"
AnyType == "any"

Running == 2

RInit ==
  /\ Init
  /\ source \in {"file", "buffer"}
  /\ target \in Targets
  /\ stream_state = 0 /\ stream_len = 0
  /\ ret = Running
  /\ result = NoObj

Tok == text[read + 1]

More == ret = Running /\ read < Len(text)

Return(value) == ret' = value /\ UNCHANGED <<stream_state, stream_len, result>>

\* The lexer has reached the end of the file or buffer: the event is an error.
EndOfText ==
  /\ ret = Running /\ read = Len(text)
  /\ Return(-1)
  /\ UNCHANGED <<request, read, parser>>

\* White space never leaves pindf_lex_options.
SkipEOL ==
  /\ More /\ Tok = EOL
  /\ read' = read + 1
  /\ UNCHANGED <<request, parser, reader>>

\* A keyword of the file structure: it is not given to the parser.
Unexpected ==
  /\ More /\ Tok = "trailer"
  /\ read' = read + 1
  /\ Return(-3)
  /\ UNCHANGED <<request, parser>>

\* A byte of stream data that the lexer reads is a word of its own.  After memory
\* was misread (status "undefined") anything may follow: reading is given up.
Feed ==
  /\ Tok # EOL /\ Tok # "trailer"
  /\ AddToken(IF Tok = Byte THEN "word" ELSE Tok)
  /\ read' = read + 1
  /\ UNCHANGED request

-----------------------------------------------------------------------------
(* pindf_parse_one_obj                                                      *)

Found(type) == Len(stack') = 1 /\ IsObj(stack'[1]) /\ stack'[1].obj.t = type

\* state 0: the stack is looked at, and any key /Length announces a stream.
Plain ==
  /\ stream_state = 0
  /\ stream_state' = IF Tok = Length THEN 1 ELSE 0
  /\ IF Found(target) THEN ret' = 1 /\ result' = stack'[1].obj
                      ELSE UNCHANGED <<ret, result>>
  /\ UNCHANGED stream_len

\* state 1: the value of /Length, or of the first part of a reference.
LengthValue ==
  /\ stream_state = 1
  /\ IF Tok \in Ints
     THEN /\ stream_len' = IntValue[Tok] /\ stream_state' = 2
          /\ UNCHANGED <<ret, result>>
     ELSE Return(-1)

\* state 2: everything up to the keyword stream.
BeforeStream == stream_state = 2 /\ Tok # "stream" /\ UNCHANGED reader

\* state 3: the data was read.
StreamEnd ==
  /\ stream_state = 3
  /\ IF Tok = "endstream"
     THEN stream_state' = 0 /\ UNCHANGED <<stream_len, ret, result>>
     ELSE Return(-1)

FileToken ==
  /\ More /\ source = "file"
  /\ ~(stream_state = 2 /\ Tok = "stream")
  /\ Feed
  /\ IF status' # "ok" THEN Return(-1)
     ELSE Plain \/ LengthValue \/ BeforeStream \/ StreamEnd

\* Mutant: one byte too many is read.
AfterDataLong == read + 3 + stream_len

\* Where reading goes on after the keyword, the line break and the data (fread
\* stops at the end of the file).
AfterData == read + 2 + stream_len

\* pindf_parser_add_stream, whose check takes any object for a dictionary and reads
\* the token of any other symbol.
AddStream ==
  \/ /\ Top > 0 /\ IsObj(stack[Top])
     /\ stack' = Append(Front(stack), NonTerm(Obj("stream", <<Last(stack).obj>>)))
     /\ stream_state' = 3
     /\ UNCHANGED <<status, stream_len, ret, result>>
  \/ /\ Top > 0 /\ ~IsObj(stack[Top]) /\ ~stack[Top].live
     /\ Undefined /\ Return(-1)
  \/ /\ Top = 0 \/ (~IsObj(stack[Top]) /\ stack[Top].live)
     /\ Return(-1) /\ UNCHANGED <<stack, status>>

\* The keyword stream: a line break has to follow, the data are read as they are
\* and the object on top of the stack becomes their dictionary.
StreamData ==
  /\ More /\ source = "file"
  /\ stream_state = 2 /\ Tok = "stream"
  /\ IF read + 2 > Len(text) \/ text[read + 2] # EOL
     THEN Return(-1) /\ read' = read + 1 /\ UNCHANGED <<stack, status>>
     ELSE AddStream /\ read' = IF AfterData > Len(text) THEN Len(text) ELSE AfterData
  /\ UNCHANGED <<request, reduce_pos, saved>>

-----------------------------------------------------------------------------
(* pindf_parse_one_obj_from_buffer: no streams, and the value returned is the *)
(* one of pindf_parser_add_token.                                           *)

BufferToken ==
  /\ More /\ source = "buffer"
  /\ Feed
  /\ IF status' # "ok" THEN Return(-1)
     ELSE IF \E type \in (IF target = AnyType THEN Types ELSE {target}) : Found(type)
     THEN /\ ret' = 0 /\ result' = stack'[1].obj
          /\ UNCHANGED <<stream_state, stream_len>>
     ELSE UNCHANGED reader

RNext == EndOfText \/ SkipEOL \/ Unexpected \/ FileToken \/ StreamData \/ BufferToken

RSpec == RInit /\ [][RNext]_rvars

-----------------------------------------------------------------------------
(* Properties                                                              *)

\* What is read begins with these tokens.
Begins(toks) == IsPrefix(toks, text)

\* The object was returned, with one of these values, and the reader stands behind its
\* last token.
Gives(values, obj, toks) == ret \in values /\ result = obj /\ read = Len(toks)

\* Objects that are found when they are asked for: without a type, a reference and an
\* indirect object are not, because their text begins with an object of its own.
Asked(obj) == target = obj.t \/ (target = AnyType /\ obj.t \notin {"ref", "ind"})

\* Reading from a buffer gives the object that begins the text, without an error, when
\* its type is asked for or any, whatever keys and nested objects it has.  Like in
\* ReadsBack, the text has the values that the conversions of its tokens give.  The value
\* returned is 1 to pindf.h:60 and 0 to the code (pindf.c:842); either will do here.
BufferReadsFirst ==
  source = "buffer" /\ ret # Running =>
    \A obj \in Objects : Asked(obj) /\ Begins(TextOf(obj)) => Gives({0, 1}, obj, TextOf(obj))

\* Its content has one key /Length, with a number, and is a dictionary.
DescribesStream(obj) ==
  /\ obj.t = "ind" /\ obj.of[3].t = "dict"
  /\ \E i \in LengthPlaces(TextOf(obj)) :
       LengthPlaces(TextOf(obj)) = {i} /\ TextOf(obj)[i + 1] \in Ints

\* Reading from a file returns the object that begins the text when its type is asked
\* for: one that has no key /Length at all, or an indirect object that holds a stream of
\* as many bytes as atoi makes of its /Length.
FileReadsFirst ==
  source = "file" /\ ret # Running =>
    \A obj \in Objects : target = obj.t =>
      /\ LengthPlaces(TextOf(obj)) = {} /\ Begins(TextOf(obj)) => Gives({1}, obj, TextOf(obj))
      /\ DescribesStream(obj) /\ Begins(StreamText(obj)) => Gives({1}, WithStream(obj), StreamText(obj))
=============================================================================
