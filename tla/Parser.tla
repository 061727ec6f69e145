-------------------------------- MODULE Parser --------------------------------
(***************************************************************************)
(* The push-down automaton of core/parser.c.  Tokens are pushed on a stack  *)
(* of symbols; a closing bracket replaces the symbols since the bracket     *)
(* that is open (at reduce_pos, with the outer ones in reduce_pos_stack) by *)
(* one object, R and endobj replace the last three or five symbols.         *)
(*                                                                         *)
(* A token is heap memory.  As soon as it was added the reader frees it     *)
(* (_free_token_after_parse, and the error paths of the readers), unless it *)
(* is a delimiter that was accepted: only these belong to the parser.  A    *)
(* symbol therefore says whether the token it points to is still live.      *)
(***************************************************************************)
EXTENDS ObjText, FiniteSets

CONSTANTS
  Inputs,    \* texts: sequences of tokens that a reader feeds
  Objects,   \* objects whose texts are among them
  Slack,     \* what the heap may hold behind the characters of a token
  Converted  \* what strcmp and atoi make of a token with that behind it

\* Between the tokens of objects there are the bytes of streams, which are not added.
ASSUME InputsAssumption == \A t \in Inputs : t \in Seq(Tokens \union {Byte, EOL})

\* atoi reads on while there are digits; a number has ten at most.
Continues(long, tok) ==
  \/ IntValue[long] = IntValue[tok]
  \/ \E k \in 1..9 : IntValue[long] \div 10^k = IntValue[tok]

\* The bytes of raw_str do not end with a NUL (pindf_uchar_str_init allocates more
\* bytes than it clears), and the conversions of a token read on: an integer may get
\* further digits, and true may be taken for false, as it is compared with a whole
\* string.  Behind some tokens there is a NUL.
ASSUME ConvertedAssumption ==
  /\ DOMAIN Converted \subseteq Ints \union {"true"}
  /\ \A tok \in DOMAIN Converted, behind \in Slack :
       LET as == Converted[tok][behind]
       IN  IF tok = "true" THEN as \in Booleans ELSE as \in Ints /\ Continues(as, tok)
  /\ \E behind \in Slack : \A tok \in DOMAIN Converted : Converted[tok][behind] = tok

\* A token or an object other than a stream, as far as one can tell without a look at
\* the parts of its parts.
WellFormed(item) ==
  LET parts == item.of
      size == Len(parts)
  IN  /\ size \in Nat /\ parts = [i \in 1..size |-> parts[i]]
      /\ item = Obj(item.t, parts)
      /\ \/ item.t = "token" /\ size = 1 /\ parts[1] \in Tokens
         \/ item.t \in LeafTypes /\ size = 1 /\ parts[1] \in Leaves /\ item = Leaf(parts[1])
         \/ item.t = "array" /\ \A i \in 1..size : parts[i].t # "token"
         \/ /\ item.t = "dict" /\ size % 2 = 0
            /\ \A i \in 1..size : parts[i].t # "token" /\ (i % 2 = 1 => parts[i].t = "name")
         \/ item.t = "ref" /\ size = 2 /\ parts[1].t = "int" /\ parts[2].t = "int"
         \/ /\ item.t = "ind" /\ size = 3
            /\ parts[1].t = "int" /\ parts[2].t = "int" /\ parts[3].t # "token"

\* Whatever comes to light when an object is written is well-formed, and in the end
\* there are tokens.
ASSUME ObjectsAssumption ==
  /\ MaxNest \in Nat
  /\ \A obj \in Objects :
       /\ obj.t # "token"
       /\ \A n \in 0..MaxNest : \A i \in DOMAIN Written(<<obj>>, n) : WellFormed(Written(<<obj>>, n)[i])
       /\ \A i \in DOMAIN Written(<<obj>>, MaxNest) : Written(<<obj>>, MaxNest)[i].t = "token"

VARIABLES
  raw,          \* the text being read, as it is written
  text,         \* the same with the values that the conversions of its tokens give
  read,         \* number of its tokens that were read
  stack,        \* parser->symbol_stack
  reduce_pos,   \* place in the stack of the bracket that is open
  saved,        \* parser->reduce_pos_stack
  status        \* "ok", "error" (add_token < 0), "undefined" (memory was read that
                \* is not what it is taken for), "freed twice"

parser == <<stack, reduce_pos, saved, status>>
vars == <<raw, text, read, parser>>

NoObj == Obj("none", <<>>)

Term(tok, live) == [type |-> "term", tok |-> tok, live |-> live, obj |-> NoObj]
NonTerm(obj) == [type |-> "nonterm", tok |-> "", live |-> FALSE, obj |-> obj]

IsObj(sym) == sym.type = "nonterm"
IsInt(sym) == IsObj(sym) /\ sym.obj.t = "int"
IsName(sym) == IsObj(sym) /\ sym.obj.t = "name"

Top == Len(stack)

Start ==
  /\ read = 0
  /\ stack = <<>>
  /\ reduce_pos = 0
  /\ saved = <<>>
  /\ status = "ok"

\* What is read when these are the bytes behind the tokens that are converted.
AsRead(toks, behind) ==
  [i \in 1..Len(toks) |-> IF i \in DOMAIN behind THEN Converted[toks[i]][behind[i]] ELSE toks[i]]

\* The memory behind a token is only read when the token is converted, so it may as
\* well be chosen here.
Init ==
  /\ raw \in Inputs
  /\ \E behind \in [{i \in 1..Len(raw) : raw[i] \in DOMAIN Converted} -> Slack] :
       text = AsRead(raw, behind)
  /\ Start

\* A token that was taken in.
Push(sym) == stack' = Append(stack, sym) /\ UNCHANGED status

\* The last k symbols are replaced by one object.
Replace(k, obj) ==
  /\ stack' = Append(SubSeq(stack, 1, Top - k), NonTerm(obj))
  /\ UNCHANGED status

\* An error: the token stays on the stack, and the reader frees it.
Fail(tok) ==
  /\ stack' = Append(stack, Term(tok, FALSE))
  /\ status' = "error"

Undefined == status' = "undefined" /\ UNCHANGED stack

-----------------------------------------------------------------------------
(* pindf_parser_add_token: brackets                                        *)

\* Mutant: the place is taken before the bracket is pushed.
OpenPosBefore == Top - 1

\* The place of the bracket that is pushed.
OpenPos == Top

\* _update_reduce_pos
Open(tok) ==
  /\ Push(Term(tok, TRUE))
  /\ saved' = Append(saved, reduce_pos)
  /\ reduce_pos' = OpenPos

\* Mutant: the position goes back to the outermost bracket.
RestoreFirst ==
  /\ reduce_pos' = Head(saved)
  /\ saved' = Front(saved)

\* _restore_reduce_pos
Restore ==
  /\ reduce_pos' = Last(saved)
  /\ saved' = Front(saved)

\* The symbol at reduce_pos, which is the closing token if nothing is open.
Opener(close) == Append(stack, Term(close, TRUE))[reduce_pos + 1]

Body == SubSeq(stack, reduce_pos + 2, Top)

Opening(close) == IF close = "]" THEN "[" ELSE "<"
TypeOf(close) == IF close = "]" THEN "array" ELSE "dict"

\* What brackets may hold: objects, and in a dictionary a name before each value.
IsBody(close) ==
  /\ \A i \in 1..Len(Body) : IsObj(Body[i])
  /\ close = ">" =>
       /\ Len(Body) % 2 = 0
       /\ \A i \in 1..Len(Body) : i % 2 = 1 => IsName(Body[i])

\* The symbol at reduce_pos cannot be told: the stack has shrunk below it or its
\* token was freed.
NoOpener(close) ==
  reduce_pos > Top \/ (~IsObj(Opener(close)) /\ ~Opener(close).live)

IsOpener(close) == ~IsObj(Opener(close)) /\ Opener(close).tok = Opening(close)

\* _reduce_array and _reduce_dict.  The opening token is freed before the body is
\* looked at; a body that is not accepted stays on the stack with it.
Close(close) ==
  IF NoOpener(close) THEN Undefined /\ UNCHANGED <<reduce_pos, saved>>
  ELSE \/ ~IsOpener(close) /\ Fail(close) /\ UNCHANGED <<reduce_pos, saved>>
       \/ /\ IsOpener(close) /\ ~IsBody(close)
          /\ stack' = Append([stack EXCEPT ![reduce_pos + 1].live = FALSE],
                             Term(close, FALSE))
          /\ status' = "error"
          /\ UNCHANGED <<reduce_pos, saved>>
       \/ /\ IsOpener(close) /\ IsBody(close)
          /\ Replace(Top - reduce_pos,
                     Obj(TypeOf(close), [i \in 1..Len(Body) |-> Body[i].obj]))
          /\ Restore

-----------------------------------------------------------------------------
(* pindf_parser_add_token: R and endobj                                     *)

\* Mutant: the generation is taken for the number.
RefPartsSwapped == <<stack[Top].obj, stack[Top - 1].obj>>

RefParts == <<stack[Top - 1].obj, stack[Top].obj>>

\* _reduce_ref takes the two symbols before R for numbers without looking.
Ref ==
  IF Top >= 2 /\ IsInt(stack[Top - 1]) /\ IsInt(stack[Top])
  THEN Replace(2, Obj("ref", RefParts))
  ELSE Undefined

\* _reduce_ind_obj: two numbers, a symbol that is not looked at, and an object.
EndObj ==
  \/ Top < 4 /\ Undefined
  \/ /\ Top >= 4
     /\ IF IsInt(stack[Top - 3]) /\ IsInt(stack[Top - 2]) /\ IsObj(stack[Top])
        THEN Replace(4, Obj("ind", <<stack[Top - 3].obj, stack[Top - 2].obj, stack[Top].obj>>))
        ELSE Fail("endobj")

-----------------------------------------------------------------------------

\* pindf_parser_add_token, with the release of the token by the reader.  A stream
\* keyword is popped again.
AddToken(tok) ==
  \/ tok \in Leaves /\ Push(NonTerm(Leaf(tok))) /\ UNCHANGED <<reduce_pos, saved>>
  \/ tok \in Kept /\ Push(Term(tok, FALSE)) /\ UNCHANGED <<reduce_pos, saved>>
  \/ tok \in Refused /\ Fail(tok) /\ UNCHANGED <<reduce_pos, saved>>
  \/ tok \in {"stream", "endstream"} /\ UNCHANGED parser
  \/ tok \in {"[", "<"} /\ Open(tok)
  \/ tok \in {"]", ">"} /\ Close(tok)
  \/ tok = "R" /\ Ref /\ UNCHANGED <<reduce_pos, saved>>
  \/ tok = "endobj" /\ EndObj /\ UNCHANGED <<reduce_pos, saved>>

ReadToken ==
  /\ status = "ok"
  /\ read < Len(text)
  /\ AddToken(text[read + 1])
  /\ read' = read + 1
  /\ UNCHANGED <<raw, text>>

\* Mutant: the content of every symbol is destroyed as a token.
DestroysAny(sym) == TRUE

\* The symbols whose token pindf_parser_clear destroys.
Destroys(sym) == ~IsObj(sym)

\* pindf_parser_clear
Clear ==
  /\ status \in {"ok", "error"}
  /\ stack' = <<>> /\ reduce_pos' = 0 /\ saved' = <<>>
  /\ status' = IF \E i \in 1..Top : Destroys(stack[i]) /\ ~stack[i].live
               THEN "freed twice" ELSE "ok"
  /\ read' = 0
  /\ UNCHANGED <<raw, text>>

Next == ReadToken \/ Clear

Spec == Init /\ [][Next]_vars

-----------------------------------------------------------------------------
(* Properties                                                              *)

IsSymbol(sym) ==
  \/ \E tok \in Tokens, live \in BOOLEAN : sym = Term(tok, live)
  \/ sym.obj.t \in Types /\ sym = NonTerm(sym.obj)

TypeOK ==
  /\ read \in 0..Len(text)
  /\ \A i \in 1..Top : IsSymbol(stack[i])
  /\ reduce_pos \in Nat
  /\ saved \in Seq(Nat)
  /\ status \in {"ok", "error", "undefined", "freed twice"}

BracketPlaces == {k \in 1..Top : stack[k].tok \in {"[", "<"}}

HowMany(toks, n) == Cardinality({i \in 1..n : text[i] \in toks})

\* The brackets that are open after n tokens.
Depth(n) == HowMany({"[", "<"}, n) - HowMany({"]", ">"}, n)

\* Indirect objects end outside of brackets, as in every text that a writer produces.
EndsOutside == \A i \in 1..read : text[i] = "endobj" => Depth(i) = 0

\* reduce_pos_stack and reduce_pos, without the place below the first bracket, hold the
\* places of the brackets that are open, from the outermost to the innermost, through
\* references and indirect objects, as long as no error was reported.
KnowsOpenBrackets ==
  status = "ok" /\ EndsOutside =>
    LET open == Tail(Append(saved, reduce_pos))
    IN  /\ {open[i] + 1 : i \in DOMAIN open} = BracketPlaces
        /\ \A i, j \in DOMAIN open : i < j => open[i] < open[j]

Legal == {TextOf(obj) : obj \in Objects}

\* The symbols as the items of a text.
SymbolItem(sym) == IF IsObj(sym) THEN sym.obj ELSE Item(sym.tok)
Content == [i \in 1..Top |-> SymbolItem(stack[i])]

\* When the tokens, with the values that their conversions give, are the text of an
\* object, reading them gives that object: at each point the symbols on the stack
\* stand for the tokens read, in their order, and at the end they are one object
\* (parser_from_buffer_test.c reads one such text).  The values are the written ones
\* wherever a NUL follows the token; what is lost elsewhere is LeavesAsWritten.
ReadsBack ==
  text \in Legal =>
    /\ status \notin {"error", "undefined"}
    /\ Written(Content, read) = ItemsOf(SubSeq(text, 1, read))
    /\ read = Len(text) => \E obj \in Objects : stack = <<NonTerm(obj)>> /\ TextOf(obj) = text

\* "Boolean values", "true or false", "Integer numbers" (docs/pdf_structure.rst:21, 110
\* and 98): an object that was read is the one that is written in the file.
LeavesAsWritten ==
  raw \in Legal /\ status = "ok" /\ read = Len(raw) =>
    \E obj \in Objects : stack = <<NonTerm(obj)>> /\ TextOf(obj) = raw

\* Clearing a parser that has read a whole object frees nothing twice.
CleanAfterObject ==
  [][read = Len(text) /\ text \in Legal => status' = "ok"]_vars

\* "For any delim, parser got ownership of the whole token. Otherwise, parser do
\* not get the ownership of anything" (core/parser.h:63-64): clearing the parser
\* frees no token that its reader has freed already.
FreedOnce == status # "freed twice"
=============================================================================
