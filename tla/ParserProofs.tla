----------------------------- MODULE ParserProofs -----------------------------
(***************************************************************************)
(* Proofs about the parser and the readers of objects.                       *)
(*                                                                         *)
(* For texts of any tokens and any length: what is on the stack is a symbol  *)
(* and a bracket that is closed has left a position to go back to, and       *)
(* reduce_pos and its stack are the places of the brackets that are open.    *)
(*                                                                         *)
(* For the texts of objects, of any size and depth: the parser is a function *)
(* of the tokens read, AfterToken, that is run over what Written makes of an *)
(* object.  Each round of Written leaves the run where it was, so that the   *)
(* text of an object ends where the object itself would have been pushed;    *)
(* and the symbols on the stack are written as the tokens that were read.    *)
(*                                                                         *)
(* From that follows what the two readers return: no object of the type that *)
(* is asked for is on the stack alone before the end of the text.            *)
(***************************************************************************)
EXTENDS ObjReader, FiniteSetTheorems, TLAPS

\* Induction over the natural numbers.
Numbers == INSTANCE XrefFormatProofs

\* An integer is no other token.
LEMMA IntsOnly ==
  Ints \intersect {"/A", "/Length", "(1)", "<12>", "true", "false", "null", "obj", "n", "word", "trailer",
                   "[", "]", "<", ">", "R", "endobj", "stream", "endstream", "byte", "eol"} = {}
BY IntsAssumption DEF Names, Length, Strings, Booleans, Kept, Refused, Brackets, Byte, EOL

\* Conversions make integers and truth values of integers and truth values, so that the
\* tokens as they are read are tokens.
LEMMA InitText == ASSUME Init PROVE text \in Seq(Tokens \union {Byte, EOL})
<1>1. PICK behind \in [{i \in 1..Len(raw) : raw[i] \in DOMAIN Converted} -> Slack] : text = AsRead(raw, behind)
  BY DEF Init
<1>2. raw \in Seq(Tokens \union {Byte, EOL})
  BY InputsAssumption DEF Init
<1>3. PICK n \in Nat : n = Len(raw)
  BY <1>2
<1>4. text = [i \in 1..n |-> IF i \in DOMAIN behind THEN Converted[raw[i]][behind[i]] ELSE raw[i]]
  BY <1>1, <1>3 DEF AsRead
<1>5. ASSUME NEW i \in 1..n PROVE text[i] \in Tokens \union {Byte, EOL}
  <2>1. CASE i \in DOMAIN behind
    <3>1. raw[i] \in DOMAIN Converted /\ behind[i] \in Slack
      BY <1>1, <1>3, <2>1
    <3>2. Converted[raw[i]][behind[i]] \in Booleans \union Ints
      BY <3>1, ConvertedAssumption
    <3>3. QED
      BY <1>4, <2>1, <3>2 DEF Tokens, Leaves
  <2>2. CASE i \notin DOMAIN behind
    BY <1>2, <1>3, <1>4, <2>2
  <2>3. QED
    BY <2>1, <2>2
<1>6. text \in [1..n -> Tokens \union {Byte, EOL}]
  BY <1>4, <1>5
<1>7. QED
  BY ONLY <1>3, <1>6

IsStack == \E S : stack \in Seq(S)

\* The brackets that a closing one may match.
LiveBrackets == {k \in BracketPlaces : stack[k].live}

\* reduce_pos_stack has a place for each of them.
Restorable == Cardinality(LiveBrackets) <= Len(saved)

\* As long as no error was reported, it has one for each open bracket of the text.
OnePerBracket == status = "ok" => Len(saved) = Depth(read)

IInv ==
  /\ text \in Seq(Tokens \union {Byte, EOL})
  /\ IsStack
  /\ TypeOK
  /\ Restorable
  /\ OnePerBracket
  /\ KnowsOpenBrackets

-----------------------------------------------------------------------------
(* Counting tokens                                                         *)

LEMMA HowManyStep ==
  ASSUME NEW toks, NEW n \in Nat
  PROVE  /\ HowMany(toks, n) \in Nat
         /\ HowMany(toks, n + 1) = IF text[n + 1] \in toks THEN HowMany(toks, n) + 1 ELSE HowMany(toks, n)
<1> DEFINE places == {i \in 1..n : text[i] \in toks}
           more == {i \in 1..(n + 1) : text[i] \in toks}
<1>1. IsFiniteSet(places)
  <2>1. IsFiniteSet(1..n)
    BY FS_Interval
  <2>2. QED
    BY <2>1, FS_Subset
<1>2. IF text[n + 1] \in toks THEN more = places \union {n + 1} /\ n + 1 \notin places ELSE more = places
  OBVIOUS
<1> HIDE DEF places, more
<1>3. Cardinality(places) \in Nat
  BY <1>1, FS_CardinalityType
<1>4. n + 1 \notin places => Cardinality(places \union {n + 1}) = Cardinality(places) + 1
  BY <1>1, FS_AddElement
<1>5. Cardinality(more) = IF text[n + 1] \in toks THEN Cardinality(places) + 1 ELSE Cardinality(places)
  BY <1>2, <1>4
<1>6. QED
  BY <1>3, <1>5 DEF HowMany, places, more

LEMMA DepthStep ==
  ASSUME NEW n \in Nat
  PROVE  /\ Depth(n) \in Int
         /\ text[n + 1] \in {"[", "<"} => Depth(n + 1) = Depth(n) + 1
         /\ text[n + 1] \in {"]", ">"} => Depth(n + 1) = Depth(n) - 1
         /\ text[n + 1] \notin Brackets => Depth(n + 1) = Depth(n)
<1> DEFINE opens(k) == HowMany({"[", "<"}, k)
           closes(k) == HowMany({"]", ">"}, k)
<1>1. /\ opens(n) \in Nat /\ closes(n) \in Nat
      /\ opens(n + 1) = IF text[n + 1] \in {"[", "<"} THEN opens(n) + 1 ELSE opens(n)
      /\ closes(n + 1) = IF text[n + 1] \in {"]", ">"} THEN closes(n) + 1 ELSE closes(n)
  BY HowManyStep
<1>2. Depth(n) = opens(n) - closes(n) /\ Depth(n + 1) = opens(n + 1) - closes(n + 1)
  BY DEF Depth
<1>3. \A t \in {"[", "<"} : t \notin {"]", ">"}
  OBVIOUS
<1> HIDE DEF opens, closes
<1>4. QED
  BY <1>1, <1>2, <1>3 DEF Brackets

-----------------------------------------------------------------------------
(* Sequences                                                               *)

LEMMA AppendFacts ==
  ASSUME NEW S, NEW s \in Seq(S), NEW x
  PROVE  /\ Append(s, x) \in Seq(S \union {x}) /\ Len(s) \in Nat /\ DOMAIN s = 1..Len(s)
         /\ Len(Append(s, x)) = Len(s) + 1 /\ DOMAIN Append(s, x) = 1..(Len(s) + 1)
         /\ \A i \in 1..Len(s) : Append(s, x)[i] = s[i] /\ s[i] \in S
         /\ Append(s, x)[Len(s) + 1] = x
OBVIOUS

LEMMA ReplaceFacts ==
  ASSUME NEW S, NEW s \in Seq(S), NEW k \in 1..Len(s), NEW x
  PROVE  /\ [s EXCEPT ![k] = x] \in Seq(S \union {x}) /\ Len([s EXCEPT ![k] = x]) = Len(s)
         /\ \A i \in 1..Len(s) : [s EXCEPT ![k] = x][i] = IF i = k THEN x ELSE s[i]
OBVIOUS

LEMMA FrontLastFacts ==
  ASSUME NEW S, NEW s \in Seq(S), Len(s) >= 1
  PROVE  /\ Front(s) \in Seq(S) /\ Len(Front(s)) = Len(s) - 1 /\ Last(s) \in S
         /\ s = Append(Front(s), Last(s))
<1>1. /\ Front(s) \in Seq(S) /\ Len(Front(s)) = Len(s) - 1
      /\ \A i \in 1..(Len(s) - 1) : Front(s)[i] = s[i]
  <2>1. Len(s) - 1 \in 0..Len(s)
    OBVIOUS
  <2>2. PICK m \in 0..Len(s) : m = Len(s) - 1
    BY <2>1
  <2>3. SubSeq(s, 1, m) \in Seq(S) /\ Len(SubSeq(s, 1, m)) = m /\ \A i \in 1..m : SubSeq(s, 1, m)[i] = s[i]
    OBVIOUS
  <2>4. QED
    BY <2>2, <2>3 DEF Front
<1>2. Last(s) = s[Len(s)] /\ Last(s) \in S
  BY DEF Last
<1>3. /\ Append(Front(s), Last(s)) \in Seq(S) /\ Len(Append(Front(s), Last(s))) = Len(s)
      /\ \A i \in 1..(Len(s) - 1) : Append(Front(s), Last(s))[i] = Front(s)[i]
      /\ Append(Front(s), Last(s))[Len(s)] = Last(s)
  BY <1>1, <1>2
<1>4. 1..Len(s) = (1..(Len(s) - 1)) \union {Len(s)}
  OBVIOUS
<1>5. \A i \in 1..Len(s) : Append(Front(s), Last(s))[i] = s[i]
  BY <1>1, <1>2, <1>3, <1>4
<1>6. QED
  BY ONLY s \in Seq(S), <1>2, <1>3, <1>5

LEMMA TailFacts ==
  ASSUME NEW S, NEW s \in Seq(S), Len(s) >= 1, NEW x \in S
  PROVE  Tail(s) \in Seq(S) /\ Tail(Append(s, x)) = Append(Tail(s), x)
OBVIOUS

LEMMA FieldFacts ==
  ASSUME NEW a, NEW b, NEW c, NEW d, NEW e
  PROVE  [[type |-> a, tok |-> b, live |-> c, obj |-> d] EXCEPT !.live = e]
           = [type |-> a, tok |-> b, live |-> e, obj |-> d]
OBVIOUS

LEMMA EmptyFacts ==
  /\ \A S : <<>> \in Seq(S)
  /\ Len(<<>>) = 0
  /\ \A x : Tail(Append(<<>>, x)) = <<>>
<1>1. ASSUME NEW S PROVE <<>> \in Seq(S)
  OBVIOUS
<1>2. ASSUME NEW x PROVE Tail(Append(<<>>, x)) = <<>>
  <2>1. Append(<<>>, x) = <<x>>
    OBVIOUS
  <2>2. QED
    BY <2>1
<1>3. QED
  BY <1>1, <1>2

\* What stands behind place k.
LEMMA RestFacts ==
  ASSUME NEW S, NEW s \in Seq(S), NEW k \in 1..Len(s)
  PROVE  /\ Len(SubSeq(s, k + 1, Len(s))) = Len(s) - k
         /\ \A i \in 1..Len(SubSeq(s, k + 1, Len(s))) : SubSeq(s, k + 1, Len(s))[i] = s[k + i]
OBVIOUS

-----------------------------------------------------------------------------
(* What the steps do to the stack                                          *)

LEMMA PlacesFinite ==
  ASSUME IsStack
  PROVE  /\ Top \in Nat /\ IsFiniteSet(LiveBrackets) /\ Cardinality(LiveBrackets) \in Nat
         /\ BracketPlaces \subseteq 1..Top
<1>1. Top \in Nat
  BY DEF IsStack, Top
<1>2. IsFiniteSet(1..Top)
  BY <1>1, FS_Interval
<1>3. LiveBrackets \subseteq 1..Top
  BY DEF LiveBrackets, BracketPlaces
<1>4. IsFiniteSet(LiveBrackets)
  BY <1>2, <1>3, FS_Subset
<1>5. QED
  BY <1>1, <1>4, FS_CardinalityType DEF BracketPlaces

\* The symbols behind place m are replaced by one that is no opening bracket.
LEMMA CutStack ==
  ASSUME IsStack, \A i \in 1..Top : IsSymbol(stack[i]),
         NEW m \in 0..Top, NEW sym, IsSymbol(sym), sym.tok \notin {"[", "<"},
         stack' = Append(SubSeq(stack, 1, m), sym)
  PROVE  /\ IsStack'
         /\ \A i \in 1..Top' : IsSymbol(stack'[i])
         /\ BracketPlaces' = BracketPlaces \intersect (1..m)
         /\ LiveBrackets' = LiveBrackets \intersect (1..m)
<1>1. PICK S : stack \in Seq(S)
  BY DEF IsStack
<1>2. /\ m \in Nat /\ m <= Top /\ Top' = m + 1
      /\ \A i \in 1..m : stack'[i] = stack[i]
      /\ stack'[m + 1] = sym
      /\ stack' \in Seq(S \union {sym})
  BY <1>1 DEF Top
<1>3. 1..Top' = (1..m) \union {m + 1} /\ 1..m \subseteq 1..Top
  BY <1>1, <1>2 DEF Top
<1>4. \A i \in 1..Top' : IsSymbol(stack'[i])
  BY <1>2, <1>3
<1>5. BracketPlaces' = BracketPlaces \intersect (1..m)
  BY <1>2, <1>3 DEF BracketPlaces
<1>6. LiveBrackets' = LiveBrackets \intersect (1..m)
  BY <1>2, <1>5 DEF LiveBrackets
<1>7. QED
  BY <1>2, <1>4, <1>5, <1>6 DEF IsStack

LEMMA Pushed ==
  ASSUME IsStack, NEW sym, stack' = Append(stack, sym)
  PROVE  /\ stack' = Append(SubSeq(stack, 1, Top), sym) /\ Top \in 0..Top
         /\ IsStack' /\ Top' = Top + 1 /\ stack'[Top + 1] = sym
         /\ \A i \in 1..Top : stack'[i] = stack[i]
<1>1. PICK S : stack \in Seq(S)
  BY DEF IsStack
<1>2. stack' \in Seq(S \union {sym})
  BY <1>1
<1>3. QED
  BY <1>1, <1>2 DEF IsStack, Top

\* Fewer live brackets on the stack leave enough places.
LEMMA StillRestorable ==
  ASSUME IsStack, TypeOK, Restorable, LiveBrackets' \subseteq LiveBrackets, saved' = saved
  PROVE  Restorable'
<1>1. saved \in Seq(Nat)
  BY DEF TypeOK
<1>2. IsFiniteSet(LiveBrackets) /\ Cardinality(LiveBrackets) \in Nat /\ Len(saved) \in Nat
  BY <1>1, PlacesFinite
<1>3. Cardinality(LiveBrackets') <= Cardinality(LiveBrackets) /\ Cardinality(LiveBrackets') \in Nat
  BY <1>2, FS_Subset, FS_CardinalityType
<1>4. QED
  BY <1>2, <1>3 DEF Restorable

-----------------------------------------------------------------------------
(* What is left to show of a step that reads a token                        *)

\* The conclusion of KnowsOpenBrackets.
PlacesKnown ==
  LET open == Tail(Append(saved, reduce_pos))
  IN  /\ {open[i] + 1 : i \in DOMAIN open} = BracketPlaces
      /\ \A i, j \in DOMAIN open : i < j => open[i] < open[j]

LEMMA KnowsIs == KnowsOpenBrackets <=> (status = "ok" /\ EndsOutside => PlacesKnown)
BY DEF KnowsOpenBrackets, PlacesKnown

\* How many positions a token adds.
Change(tok) == IF tok \in {"[", "<"} THEN 1 ELSE IF tok \in {"]", ">"} THEN -1 ELSE 0

LEMMA ReadOK ==
  ASSUME IInv, status = "ok", read < Len(text), read' = read + 1, text' = text,
         IsStack', \A i \in 1..Top' : IsSymbol(stack'[i]), reduce_pos' \in Nat, saved' \in Seq(Nat),
         status' \in {"ok", "error", "undefined"}, Restorable',
         status' = "ok" => /\ Len(saved') = Len(saved) + Change(text[read + 1])
                           /\ PlacesKnown /\ (text[read + 1] = "endobj" => Len(saved) = 0) => PlacesKnown'
  PROVE  IInv'
<1>1. text \in Seq(Tokens \union {Byte, EOL}) /\ read \in Nat /\ read + 1 \in 0..Len(text)
  BY DEF IInv, TypeOK
<1>2. TypeOK'
  BY <1>1 DEF TypeOK
<1>3. \A n : Depth(n)' = Depth(n)
  BY DEF Depth, HowMany
<1>4. Depth(read)' = Depth(read + 1)
  BY <1>3
<1>5. /\ Depth(read) \in Int /\ Depth(read + 1) = Depth(read) + Change(text[read + 1])
  BY <1>1, DepthStep DEF Change, Brackets
<1>6. Len(saved) = Depth(read)
  BY DEF IInv, OnePerBracket
<1>7. OnePerBracket'
  BY <1>4, <1>5, <1>6 DEF OnePerBracket
<1>8. ASSUME EndsOutside', status' = "ok" PROVE PlacesKnown'
  <2>1. \A i \in 1..(read + 1) : text[i] = "endobj" => Depth(i) = 0
    BY <1>3, <1>8 DEF EndsOutside
  <2>2. EndsOutside
    BY <1>1, <2>1 DEF EndsOutside
  <2>3. PlacesKnown
    BY <2>2, KnowsIs DEF IInv
  <2>4. text[read + 1] = "endobj" => Len(saved) = 0
    <3>1. ASSUME text[read + 1] = "endobj" PROVE Len(saved) = 0
      <4>1. Change(text[read + 1]) = 0
        BY <3>1 DEF Change
      <4>2. Depth(read + 1) = 0
        BY <1>1, <2>1, <3>1
      <4>3. QED
        BY <1>5, <1>6, <4>1, <4>2
    <3>2. QED
      BY <3>1
  <2>5. QED
    BY <1>8, <2>3, <2>4
<1>9. KnowsOpenBrackets'
  <2>1. (KnowsOpenBrackets <=> (status = "ok" /\ EndsOutside => PlacesKnown))'
    BY KnowsIs, PTL
  <2>2. QED
    BY <1>8, <2>1
<1>10. QED
  BY <1>2, <1>7, <1>9 DEF IInv

\* The symbols behind place m are no opening brackets, and are replaced by one that is
\* none; or the token is an error.
LEMMA CutOK ==
  ASSUME IInv, status = "ok", read < Len(text), read' = read + 1, text' = text,
         NEW m \in 0..Top, NEW sym, IsSymbol(sym), sym.tok \notin {"[", "<"},
         stack' = Append(SubSeq(stack, 1, m), sym), UNCHANGED <<reduce_pos, saved>>,
         status' \in {"ok", "error"},
         status' = "ok" => /\ text[read + 1] \notin Brackets
                           /\ BracketPlaces \subseteq 1..m \/ text[read + 1] = "endobj"
  PROVE  IInv'
<1>1. IsStack /\ TypeOK /\ Restorable
  BY DEF IInv
<1>2. /\ IsStack' /\ \A i \in 1..Top' : IsSymbol(stack'[i])
      /\ BracketPlaces' = BracketPlaces \intersect (1..m)
      /\ LiveBrackets' = LiveBrackets \intersect (1..m)
  BY <1>1, CutStack DEF TypeOK
<1>3. Restorable'
  BY <1>1, <1>2, StillRestorable
<1>4. saved' = saved /\ reduce_pos' = reduce_pos /\ saved \in Seq(Nat) /\ Len(saved) \in Nat /\ reduce_pos \in Nat
  BY <1>1 DEF TypeOK
<1>5. ASSUME status' = "ok" PROVE Len(saved') = Len(saved) + Change(text[read + 1])
  BY <1>4, <1>5 DEF Change, Brackets
<1>6. ASSUME status' = "ok", PlacesKnown, text[read + 1] = "endobj" => Len(saved) = 0 PROVE PlacesKnown'
  <2>1. BracketPlaces' = BracketPlaces
    <3>1. CASE BracketPlaces \subseteq 1..m
      BY <3>1, <1>2
    <3>2. CASE text[read + 1] = "endobj"
      <4>1. saved = <<>>
        BY <3>2, <1>4, <1>6
      <4>2. Tail(Append(saved, reduce_pos)) = <<>>
        BY <4>1
      <4>3. BracketPlaces = {}
        BY <1>6, <4>2 DEF PlacesKnown
      <4>4. QED
        BY <1>2, <4>3
    <3>3. QED
      BY <1>6, <3>1, <3>2
  <2>2. QED
    BY <2>1, <1>4, <1>6 DEF PlacesKnown
<1>7. QED
  BY <1>2, <1>3, <1>4, <1>5, <1>6, ReadOK

-----------------------------------------------------------------------------
(* The steps                                                               *)

\* What every token that is read finds.
Reading ==
  IInv /\ status = "ok" /\ read < Len(text) /\ read' = read + 1 /\ text' = text

LEMMA Symbols ==
  /\ \A tok \in Tokens, live \in BOOLEAN : IsSymbol(Term(tok, live))
  /\ \A t \in Types : \A parts : IsSymbol(NonTerm(Obj(t, parts))) /\ NonTerm(Obj(t, parts)).tok = ""
  /\ \A tok \in Leaves : IsSymbol(NonTerm(Leaf(tok))) /\ NonTerm(Leaf(tok)).tok = ""
<1>1. \A tok \in Tokens, live \in BOOLEAN : IsSymbol(Term(tok, live))
  BY DEF IsSymbol
<1>2. ASSUME NEW t \in Types, NEW parts PROVE IsSymbol(NonTerm(Obj(t, parts))) /\ NonTerm(Obj(t, parts)).tok = ""
  BY DEF IsSymbol, NonTerm, Obj
<1>3. ASSUME NEW tok \in Leaves PROVE LeafType(tok) \in Types
  BY DEF LeafType, LeafTypes, Types
<1>4. QED
  BY <1>1, <1>2, <1>3 DEF Leaf

\* An object on the stack is no bracket.
LEMMA ObjIsNoBracket ==
  ASSUME NEW sym, IsSymbol(sym), IsObj(sym)
  PROVE  sym.tok \notin {"[", "<"}
<1>1. ASSUME NEW tok \in Tokens, NEW live \in BOOLEAN, sym = Term(tok, live) PROVE FALSE
  BY <1>1 DEF IsObj, Term
<1>2. PICK obj : sym = NonTerm(obj)
  BY <1>1 DEF IsSymbol
<1>3. NonTerm(obj).tok = ""
  BY DEF NonTerm
<1>4. QED
  BY <1>2, <1>3

\* A token that is pushed, and is no bracket.
LEMMA PushOK ==
  ASSUME Reading, NEW sym, IsSymbol(sym), sym.tok \notin {"[", "<"}, stack' = Append(stack, sym),
         UNCHANGED <<reduce_pos, saved>>, status' \in {"ok", "error"},
         status' = "ok" => text[read + 1] \notin Brackets
  PROVE  IInv'
<1>1. IsStack
  BY DEF Reading, IInv
<1>2. stack' = Append(SubSeq(stack, 1, Top), sym) /\ Top \in 0..Top
  BY <1>1, Pushed
<1>3. BracketPlaces \subseteq 1..Top
  BY <1>1, PlacesFinite
<1>4. QED
  BY <1>2, <1>3, CutOK DEF Reading

\* A refused token stays on the stack.
LEMMA FailOK ==
  ASSUME Reading, NEW tok \in Tokens \ {"[", "<"}, Fail(tok), UNCHANGED <<reduce_pos, saved>>
  PROVE  IInv'
<1>1. IsSymbol(Term(tok, FALSE))
  BY Symbols
<1>2. Term(tok, FALSE).tok \notin {"[", "<"}
  BY DEF Term
<1>3. QED
  BY <1>1, <1>2, PushOK DEF Fail

\* Nothing that the parser has changes.
LEMMA SameOK ==
  ASSUME Reading, UNCHANGED <<stack, reduce_pos, saved>>,
         \/ status' = "undefined"
         \/ status' = "ok" /\ text[read + 1] \notin Brackets \union {"endobj"}
  PROVE  IInv'
<1>1. IsStack /\ TypeOK /\ Restorable
  BY DEF Reading, IInv
<1>2. IsStack' /\ \A i \in 1..Top' : IsSymbol(stack'[i])
  BY <1>1 DEF IsStack, TypeOK, Top
<1>3. LiveBrackets' = LiveBrackets /\ BracketPlaces' = BracketPlaces
  BY DEF LiveBrackets, BracketPlaces, Top
<1>4. Restorable'
  BY <1>1, <1>3, StillRestorable
<1>5. PlacesKnown' = PlacesKnown
  BY <1>3 DEF PlacesKnown
<1>6. saved' \in Seq(Nat) /\ reduce_pos' \in Nat /\ Len(saved') = Len(saved) /\ Len(saved) \in Nat
  <2>1. saved \in Seq(Nat) /\ reduce_pos \in Nat
    BY <1>1 DEF TypeOK
  <2>2. QED
    BY <2>1
<1>7. text[read + 1] \notin Brackets => Change(text[read + 1]) = 0
  BY DEF Change, Brackets
<1>8. QED
  BY <1>2, <1>4, <1>5, <1>6, <1>7, ReadOK DEF Reading

LEMMA OpenOK ==
  ASSUME Reading, NEW tok \in {"[", "<"}, text[read + 1] = tok, Open(tok)
  PROVE  IInv'
<1>1. IsStack /\ TypeOK /\ Restorable
  BY DEF Reading, IInv
<1>2. stack' = Append(stack, Term(tok, TRUE)) /\ status' = status
      /\ saved' = Append(saved, reduce_pos) /\ reduce_pos' = Top
  BY DEF Open, Push, OpenPos
<1>3. /\ IsStack' /\ Top' = Top + 1 /\ stack'[Top + 1] = Term(tok, TRUE) /\ Top \in Nat
      /\ \A i \in 1..Top : stack'[i] = stack[i]
  BY <1>1, <1>2, Pushed, PlacesFinite
<1>4. 1..Top' = (1..Top) \union {Top + 1}
  BY <1>3
<1>5. \A i \in 1..Top' : IsSymbol(stack'[i])
  BY <1>1, <1>3, <1>4, Symbols DEF TypeOK, Tokens, Brackets
<1>6. Term(tok, TRUE).tok = tok /\ Term(tok, TRUE).live
  BY DEF Term
<1>7. BracketPlaces' = BracketPlaces \union {Top + 1}
  BY <1>3, <1>4, <1>6 DEF BracketPlaces
<1>8. LiveBrackets' = LiveBrackets \union {Top + 1}
  <2>1. BracketPlaces \subseteq 1..Top
    BY <1>1, PlacesFinite
  <2>2. QED
    BY <2>1, <1>3, <1>6, <1>7 DEF LiveBrackets
<1>9. saved \in Seq(Nat) /\ reduce_pos \in Nat /\ saved' \in Seq(Nat) /\ Len(saved') = Len(saved) + 1
      /\ reduce_pos' \in Nat /\ Len(saved) \in Nat
  <2>1. saved \in Seq(Nat) /\ reduce_pos \in Nat
    BY <1>1 DEF TypeOK
  <2>2. QED
    BY <2>1, <1>2, <1>3
<1>10. Restorable'
  <2>1. IsFiniteSet(LiveBrackets) /\ Cardinality(LiveBrackets) \in Nat
    BY <1>1, PlacesFinite
  <2>2. Cardinality(LiveBrackets') <= Cardinality(LiveBrackets) + 1 /\ Cardinality(LiveBrackets') \in Nat
    BY <2>1, <1>8, FS_AddElement
  <2>3. QED
    BY <2>1, <2>2, <1>1, <1>9 DEF Restorable
<1>11. ASSUME PlacesKnown PROVE PlacesKnown'
  <2> DEFINE open == Tail(Append(saved, reduce_pos))
             more == Append(open, Top)
  <2>1. Tail(Append(saved', reduce_pos')) = more /\ open \in Seq(Nat)
    <3>1. /\ Append(saved, reduce_pos) \in Seq(Nat) /\ Len(Append(saved, reduce_pos)) >= 1 /\ Top \in Nat
      BY <1>3, <1>9
    <3>2. open \in Seq(Nat) /\ Tail(Append(Append(saved, reduce_pos), Top)) = more
      BY ONLY <3>1, TailFacts
    <3>3. QED
      BY <1>2, <3>2
  <2>2. /\ {open[i] + 1 : i \in DOMAIN open} = BracketPlaces
        /\ \A i, j \in DOMAIN open : i < j => open[i] < open[j]
    BY <1>11 DEF PlacesKnown
  <2> HIDE DEF open
  <2>3. /\ DOMAIN more = (DOMAIN open) \union {Len(open) + 1} /\ Len(open) \in Nat
        /\ \A i \in DOMAIN open : more[i] = open[i] /\ i \in Nat /\ i <= Len(open)
        /\ more[Len(open) + 1] = Top
    BY <2>1, <1>3
  <2> HIDE DEF more
  <2>4. {more[i] + 1 : i \in DOMAIN more} = BracketPlaces'
    BY <2>2, <2>3, <1>7
  <2>5. \A i \in DOMAIN open : open[i] < Top
    <3>1. ASSUME NEW i \in DOMAIN open PROVE open[i] < Top
      <4>1. open[i] + 1 \in 1..Top /\ open[i] \in Nat
        BY <2>1, <2>2, <1>1, PlacesFinite
      <4>2. QED
        BY <4>1, <1>3
    <3>2. QED
      BY <3>1
  <2>6. ASSUME NEW i \in DOMAIN more, NEW j \in DOMAIN more, i < j PROVE more[i] < more[j]
    BY <2>2, <2>3, <2>5, <2>6
  <2>7. QED
    BY <2>1, <2>4, <2>6 DEF PlacesKnown
<1>12. Change(tok) = 1
  BY DEF Change
<1>13. QED
  BY <1>2, <1>3, <1>5, <1>9, <1>10, <1>11, <1>12, ReadOK DEF Reading

LEMMA CloseOK ==
  ASSUME Reading, NEW close \in {"]", ">"}, text[read + 1] = close, Close(close)
  PROVE  IInv'
<1>1. IsStack /\ TypeOK /\ Restorable /\ status = "ok"
  BY DEF Reading, IInv
<1>2. saved \in Seq(Nat) /\ reduce_pos \in Nat /\ Len(saved) \in Nat
  BY <1>1 DEF TypeOK
<1>3. Top \in Nat /\ IsFiniteSet(LiveBrackets) /\ Cardinality(LiveBrackets) \in Nat
      /\ BracketPlaces \subseteq 1..Top
  BY <1>1, PlacesFinite
<1>4. PICK S : stack \in Seq(S)
  BY <1>1 DEF IsStack
<1>5. Change(close) = -1 /\ close \in Tokens \ {"[", "<"}
  BY DEF Change, Tokens, Brackets
<1>6. CASE NoOpener(close)
  <2>1. status' = "undefined" /\ UNCHANGED <<stack, reduce_pos, saved>>
    BY <1>6 DEF Close, Undefined
  <2>2. QED
    BY <2>1, SameOK
<1>7. CASE ~NoOpener(close) /\ ~IsOpener(close)
  <2>1. Fail(close) /\ UNCHANGED <<reduce_pos, saved>>
    BY <1>7 DEF Close
  <2>2. QED
    BY <2>1, <1>5, FailOK
<1>8. ASSUME ~NoOpener(close), IsOpener(close)
      PROVE  /\ reduce_pos < Top /\ reduce_pos + 1 \in LiveBrackets
             /\ ~IsObj(stack[reduce_pos + 1])
  <2>1. reduce_pos <= Top /\ ~IsObj(Opener(close)) /\ Opener(close).live
    BY <1>2, <1>3, <1>8 DEF NoOpener, IsOpener
  <2>2. Opener(close).tok \in {"[", "<"}
    BY <1>8 DEF IsOpener, Opening
  <2>3. reduce_pos < Top => Opener(close) = stack[reduce_pos + 1]
    <3>1. reduce_pos < Top => reduce_pos + 1 \in 1..Len(stack)
      BY <1>2, <1>3 DEF Top
    <3>2. QED
      BY <3>1, <1>4, AppendFacts DEF Opener
  <2>4. reduce_pos = Top => Opener(close) = Term(close, TRUE)
    <3>1. \A sym : Append(stack, sym)[Len(stack) + 1] = sym
      BY <1>4, AppendFacts
    <3>2. QED
      BY <3>1 DEF Opener, Top
  <2>5. Term(close, TRUE).tok = close
    BY DEF Term
  <2>6. reduce_pos < Top
    <3>1. reduce_pos # Top
      BY <2>2, <2>4, <2>5
    <3>2. QED
      BY <1>2, <1>3, <2>1, <3>1
  <2>7. reduce_pos + 1 \in 1..Top
    BY <1>2, <1>3, <2>6
  <2>8. QED
    BY <2>1, <2>2, <2>3, <2>6, <2>7 DEF LiveBrackets, BracketPlaces
<1>9. CASE ~NoOpener(close) /\ IsOpener(close) /\ ~IsBody(close)
  <2> DEFINE freed == [stack EXCEPT ![reduce_pos + 1].live = FALSE]
  <2>1. stack' = Append(freed, Term(close, FALSE)) /\ status' = "error" /\ UNCHANGED <<reduce_pos, saved>>
    BY <1>9 DEF Close
  <2>2. /\ reduce_pos + 1 \in 1..Top /\ ~IsObj(stack[reduce_pos + 1])
    BY <1>2, <1>3, <1>8, <1>9
  <2>3. PICK tok \in Tokens, live \in BOOLEAN : stack[reduce_pos + 1] = Term(tok, live)
    <3>1. IsSymbol(stack[reduce_pos + 1])
      BY <1>1, <2>2 DEF TypeOK
    <3>2. \A obj : stack[reduce_pos + 1] # NonTerm(obj)
      <4>1. \A obj : IsObj(NonTerm(obj))
        BY DEF NonTerm, IsObj
      <4>2. QED
        BY <4>1, <2>2
    <3>3. QED
      BY <3>1, <3>2 DEF IsSymbol
  <2>4. [stack[reduce_pos + 1] EXCEPT !.live = FALSE] = Term(tok, FALSE)
    <3>1. \A no : [Term(tok, live) EXCEPT !.live = no] = Term(tok, no)
      BY FieldFacts DEF Term
    <3>2. [Term(tok, live) EXCEPT !.live = FALSE] = Term(tok, FALSE)
      BY <3>1
    <3>3. QED
      BY <2>3, <3>2
  <2>5. freed = [stack EXCEPT ![reduce_pos + 1] = Term(tok, FALSE)]
    BY <2>4
  <2> HIDE DEF freed
  <2>6. /\ freed \in Seq(S \union {Term(tok, FALSE)}) /\ Len(freed) = Top
        /\ \A i \in 1..Top : freed[i] = IF i = reduce_pos + 1 THEN Term(tok, FALSE) ELSE stack[i]
    <3>1. reduce_pos + 1 \in 1..Len(stack)
      BY <2>2 DEF Top
    <3>2. \A sym : LET new == [stack EXCEPT ![reduce_pos + 1] = sym]
                   IN  /\ new \in Seq(S \union {sym}) /\ Len(new) = Len(stack)
                       /\ \A i \in 1..Len(stack) : new[i] = IF i = reduce_pos + 1 THEN sym ELSE stack[i]
      BY <1>4, <3>1, ReplaceFacts
    <3>3. QED
      BY <2>5, <3>2 DEF Top
  <2>7. /\ stack' \in Seq((S \union {Term(tok, FALSE)}) \union {Term(close, FALSE)}) /\ Top' = Top + 1
        /\ \A i \in 1..Top : stack'[i] = freed[i]
        /\ stack'[Top + 1] = Term(close, FALSE)
    <3>1. PICK T : freed \in Seq(T) /\ T = S \union {Term(tok, FALSE)}
      BY <2>6
    <3>2. \A sym : LET new == Append(freed, sym)
                   IN  /\ new \in Seq(T \union {sym}) /\ Len(new) = Len(freed) + 1
                       /\ \A i \in 1..Len(freed) : new[i] = freed[i]
                       /\ new[Len(freed) + 1] = sym
      <4>1. freed \in Seq(T)
        BY <3>1
      <4>2. \A sym : /\ Append(freed, sym) \in Seq(T \union {sym}) /\ Len(Append(freed, sym)) = Len(freed) + 1
                     /\ \A i \in 1..Len(freed) : Append(freed, sym)[i] = freed[i]
                     /\ Append(freed, sym)[Len(freed) + 1] = sym
        BY ONLY <4>1, AppendFacts
      <4>3. QED
        BY ONLY <4>2
    <3>3. QED
      BY <2>1, <2>6, <3>1, <3>2 DEF Top
  <2>8. 1..Top' = (1..Top) \union {Top + 1}
    BY <1>3, <2>7
  <2>9. \A i \in 1..Top' : IsSymbol(stack'[i])
    BY <1>1, <1>5, <2>6, <2>7, <2>8, Symbols DEF TypeOK
  <2>10. LiveBrackets' \subseteq LiveBrackets
    <3>1. ~Term(tok, FALSE).live /\ ~Term(close, FALSE).live
      BY DEF Term
    <3>2. ASSUME NEW k \in 1..Top', stack'[k].live PROVE k \in 1..Top /\ stack'[k] = stack[k]
      BY <3>1, <3>2, <2>6, <2>7, <2>8
    <3>3. QED
      BY <3>2 DEF LiveBrackets, BracketPlaces
  <2>11. Restorable'
    BY <1>1, <2>1, <2>10, StillRestorable
  <2>12. IsStack'
    BY <2>7 DEF IsStack
  <2>13. QED
    BY <1>2, <2>1, <2>9, <2>11, <2>12, ReadOK DEF Reading
<1>10. CASE ~NoOpener(close) /\ IsOpener(close) /\ IsBody(close)
  <2> DEFINE new == NonTerm(Obj(TypeOf(close), [i \in 1..Len(Body) |-> Body[i].obj]))
  <2>1. reduce_pos < Top /\ reduce_pos + 1 \in LiveBrackets
    BY <1>8, <1>10
  <2>2. /\ stack' = Append(SubSeq(stack, 1, Top - (Top - reduce_pos)), new) /\ status' = status
        /\ reduce_pos' = Last(saved) /\ saved' = Front(saved)
    BY <1>10 DEF Close, Replace, Restore
  <2>3. IsSymbol(new) /\ new.tok \notin {"[", "<"}
    <3>1. TypeOf(close) \in Types
      BY DEF TypeOf, Types
    <3>2. QED
      BY <3>1, Symbols
  <2> HIDE DEF new
  <2>4. Top - (Top - reduce_pos) = reduce_pos /\ reduce_pos \in 0..Top
    BY <1>2, <1>3, <2>1
  <2>5. stack' = Append(SubSeq(stack, 1, reduce_pos), new)
    BY <2>2, <2>4
  <2>6. /\ IsStack' /\ \A i \in 1..Top' : IsSymbol(stack'[i])
        /\ BracketPlaces' = BracketPlaces \intersect (1..reduce_pos)
        /\ LiveBrackets' = LiveBrackets \intersect (1..reduce_pos)
    BY <1>1, <2>3, <2>4, <2>5, CutStack DEF TypeOK
  <2>7. Cardinality(LiveBrackets') <= Cardinality(LiveBrackets) - 1 /\ Cardinality(LiveBrackets') \in Nat
    <3> DEFINE rest == LiveBrackets \ {reduce_pos + 1}
    <3>1. IsFiniteSet(rest) /\ Cardinality(rest) = Cardinality(LiveBrackets) - 1
      BY <1>3, <2>1, FS_RemoveElement
    <3>2. LiveBrackets' \subseteq rest
      BY <1>2, <2>6
    <3> HIDE DEF rest
    <3>3. IsFiniteSet(LiveBrackets') /\ Cardinality(LiveBrackets') <= Cardinality(rest)
      BY <3>1, <3>2, FS_Subset
    <3>4. QED
      BY <3>1, <3>3, FS_CardinalityType
  <2>8. Len(saved) >= 1
    BY <1>1, <1>2, <1>3, <2>7 DEF Restorable
  <2>9. /\ saved' \in Seq(Nat) /\ Len(saved') = Len(saved) - 1 /\ reduce_pos' \in Nat
        /\ saved = Append(saved', reduce_pos')
    BY <1>2, <2>2, <2>8, FrontLastFacts
  <2>10. Restorable'
    BY <1>1, <1>2, <1>3, <2>7, <2>9 DEF Restorable
  <2>11. BracketPlaces \subseteq 1..(reduce_pos + 1) /\ reduce_pos + 1 \in BracketPlaces
    <3>1. Len(Body) = Top - (reduce_pos + 1)
          /\ \A i \in 1..Len(Body) : Body[i] = stack[reduce_pos + 1 + i]
      <4>1. reduce_pos + 1 \in 1..Len(stack) /\ Body = SubSeq(stack, (reduce_pos + 1) + 1, Len(stack))
        BY <1>2, <1>3, <2>1 DEF Body, Top
      <4>2. QED
        BY <4>1, <1>4, RestFacts DEF Top
    <3>2. ASSUME NEW k \in 1..Top, k > reduce_pos + 1 PROVE stack[k].tok \notin {"[", "<"}
      <4>1. k - (reduce_pos + 1) \in 1..Len(Body)
        BY <1>2, <1>3, <3>1, <3>2
      <4>2. IsObj(Body[k - (reduce_pos + 1)])
        BY <1>10, <4>1 DEF IsBody
      <4>3. Body[k - (reduce_pos + 1)] = stack[k]
        BY <1>2, <1>3, <3>1, <4>1
      <4>4. IsSymbol(stack[k])
        BY <1>1 DEF TypeOK
      <4>5. QED
        BY <4>2, <4>3, <4>4, ObjIsNoBracket
    <3>3. ASSUME NEW k \in BracketPlaces PROVE k \in 1..(reduce_pos + 1)
      <4>1. k \in 1..Top /\ stack[k].tok \in {"[", "<"}
        BY <1>3 DEF BracketPlaces
      <4>2. ~(k > reduce_pos + 1)
        BY <3>2, <4>1
      <4>3. QED
        BY <1>2, <1>3, <4>1, <4>2
    <3>4. QED
      BY <2>1, <3>3 DEF LiveBrackets
  <2>12. ASSUME PlacesKnown PROVE PlacesKnown'
    <3> DEFINE rest == Tail(saved)
               all == Append(rest, reduce_pos)
    <3>1. /\ Tail(Append(saved, reduce_pos)) = all
          /\ Tail(Append(saved', reduce_pos')) = rest
          /\ rest \in Seq(Nat)
      <4>1. Tail(Append(saved, reduce_pos)) = all /\ rest \in Seq(Nat)
        BY <1>2, <2>8, TailFacts
      <4>2. QED
        BY <4>1, <2>9
    <3>2. /\ {all[i] + 1 : i \in DOMAIN all} = BracketPlaces
          /\ \A i, j \in DOMAIN all : i < j => all[i] < all[j]
      BY <2>12, <3>1 DEF PlacesKnown
    <3> HIDE DEF rest
    <3>3. /\ DOMAIN all = (DOMAIN rest) \union {Len(rest) + 1} /\ Len(rest) \in Nat
          /\ \A i \in DOMAIN rest : all[i] = rest[i] /\ rest[i] \in Nat /\ i < Len(rest) + 1
          /\ all[Len(rest) + 1] = reduce_pos
      <4>1. /\ Len(rest) \in Nat /\ DOMAIN rest = 1..Len(rest) /\ \A i \in DOMAIN rest : rest[i] \in Nat
            /\ DOMAIN all = 1..(Len(rest) + 1)
            /\ \A i \in 1..Len(rest) : all[i] = rest[i]
            /\ all[Len(rest) + 1] = reduce_pos
        BY <3>1, AppendFacts
      <4>2. QED
        BY <4>1
    <3> HIDE DEF all
    <3>4. \A i \in DOMAIN rest : rest[i] < reduce_pos
      BY <3>2, <3>3
    <3>5. {rest[i] + 1 : i \in DOMAIN rest} = BracketPlaces \ {reduce_pos + 1}
      <4>1. BracketPlaces = {rest[i] + 1 : i \in DOMAIN rest} \union {reduce_pos + 1}
        BY <3>2, <3>3
      <4>2. \A i \in DOMAIN rest : rest[i] + 1 # reduce_pos + 1
        BY <1>2, <3>3, <3>4
      <4>3. QED
        BY <4>1, <4>2
    <3>6. BracketPlaces' = BracketPlaces \ {reduce_pos + 1}
      <4>1. 1..(reduce_pos + 1) = (1..reduce_pos) \union {reduce_pos + 1} /\ reduce_pos + 1 \notin 1..reduce_pos
        BY <1>2
      <4>2. QED
        BY <2>6, <2>11, <4>1
    <3>7. \A i, j \in DOMAIN rest : i < j => rest[i] < rest[j]
      BY <3>2, <3>3
    <3>8. QED
      BY <3>1, <3>5, <3>6, <3>7 DEF PlacesKnown
  <2>13. QED
    BY <1>1, <1>2, <1>5, <2>2, <2>6, <2>9, <2>10, <2>12, ReadOK DEF Reading
<1>11. QED
  BY <1>6, <1>7, <1>9, <1>10

LEMMA RefOK ==
  ASSUME Reading, text[read + 1] = "R", Ref, UNCHANGED <<reduce_pos, saved>>
  PROVE  IInv'
<1>1. IsStack /\ TypeOK /\ status = "ok"
  BY DEF Reading, IInv
<1>2. Top \in Nat /\ BracketPlaces \subseteq 1..Top
  BY <1>1, PlacesFinite
<1>3. CASE Undefined
  BY <1>3, SameOK DEF Undefined
<1>4. CASE ~Undefined
  <2> DEFINE new == NonTerm(Obj("ref", RefParts))
  <2>1. /\ Top >= 2 /\ IsObj(stack[Top - 1]) /\ IsObj(stack[Top])
        /\ stack' = Append(SubSeq(stack, 1, Top - 2), new) /\ status' = status
    BY <1>4 DEF Ref, Replace, IsInt
  <2>2. IsSymbol(new) /\ new.tok \notin {"[", "<"}
    BY Symbols DEF Types
  <2> HIDE DEF new
  <2>3. Top - 2 \in 0..Top /\ Top - 1 \in 1..Top /\ Top \in 1..Top
    BY <1>2, <2>1
  <2>4. stack[Top - 1].tok \notin {"[", "<"} /\ stack[Top].tok \notin {"[", "<"}
    BY <1>1, <2>1, <2>3, ObjIsNoBracket DEF TypeOK
  <2>5. Top - 1 \notin BracketPlaces /\ Top \notin BracketPlaces
    BY <2>4 DEF BracketPlaces
  <2>6. BracketPlaces \subseteq 1..(Top - 2)
    BY <1>2, <2>1, <2>5
  <2>7. text[read + 1] \notin Brackets
    BY DEF Brackets
  <2>8. QED
    BY <1>1, <2>1, <2>2, <2>3, <2>6, <2>7, CutOK DEF Reading
<1>5. QED
  BY <1>3, <1>4

LEMMA EndObjOK ==
  ASSUME Reading, text[read + 1] = "endobj", EndObj, UNCHANGED <<reduce_pos, saved>>
  PROVE  IInv'
<1>1. IsStack /\ TypeOK /\ status = "ok"
  BY DEF Reading, IInv
<1>2. Top \in Nat
  BY <1>1, PlacesFinite
<1>3. CASE Undefined
  BY <1>3, SameOK DEF Undefined
<1>4. CASE Fail("endobj")
  BY <1>4, FailOK DEF Tokens
<1>5. CASE Top >= 4 /\ Replace(4, Obj("ind", <<stack[Top - 3].obj, stack[Top - 2].obj, stack[Top].obj>>))
  <2> DEFINE new == NonTerm(Obj("ind", <<stack[Top - 3].obj, stack[Top - 2].obj, stack[Top].obj>>))
  <2>1. stack' = Append(SubSeq(stack, 1, Top - 4), new) /\ status' = status
    BY <1>5 DEF Replace
  <2>2. IsSymbol(new) /\ new.tok \notin {"[", "<"}
    BY Symbols DEF Types
  <2> HIDE DEF new
  <2>3. Top - 4 \in 0..Top
    BY <1>2, <1>5
  <2>4. text[read + 1] \notin Brackets
    BY DEF Brackets
  <2>5. QED
    BY <1>1, <2>1, <2>2, <2>3, <2>4, CutOK DEF Reading
<1>6. QED
  BY <1>3, <1>4, <1>5 DEF EndObj

LEMMA ReadTokenOK == ASSUME IInv, ReadToken PROVE IInv'
<1> DEFINE tok == text[read + 1]
<1>1. Reading /\ AddToken(tok) /\ status = "ok"
  BY DEF Reading, ReadToken
<1> HIDE DEF tok
<1>2. CASE tok \in Leaves /\ Push(NonTerm(Leaf(tok))) /\ UNCHANGED <<reduce_pos, saved>>
  <2>1. IsSymbol(NonTerm(Leaf(tok))) /\ NonTerm(Leaf(tok)).tok \notin {"[", "<"}
    BY <1>2, Symbols
  <2>2. tok \notin Brackets
    BY <1>2, IntsOnly DEF Leaves, Names, Length, Strings, Booleans, Brackets
  <2>3. QED
    BY <1>1, <1>2, <2>1, <2>2, PushOK DEF Push, tok
<1>3. CASE tok \in Kept /\ Push(Term(tok, FALSE)) /\ UNCHANGED <<reduce_pos, saved>>
  <2>1. tok \in Tokens /\ tok \notin Brackets
    BY <1>3 DEF Tokens, Kept, Brackets
  <2>2. IsSymbol(Term(tok, FALSE)) /\ Term(tok, FALSE).tok = tok
    BY <2>1, Symbols DEF Term
  <2>3. QED
    BY <1>1, <1>3, <2>1, <2>2, PushOK DEF Push, tok, Brackets
<1>4. CASE tok \in Refused /\ Fail(tok) /\ UNCHANGED <<reduce_pos, saved>>
  BY <1>1, <1>4, FailOK DEF Refused, Tokens
<1>5. CASE tok \in {"stream", "endstream"} /\ UNCHANGED parser
  BY <1>1, <1>5, SameOK DEF parser, tok, Brackets
<1>6. CASE tok \in {"[", "<"} /\ Open(tok)
  BY <1>1, <1>6, OpenOK DEF tok
<1>7. CASE tok \in {"]", ">"} /\ Close(tok)
  BY <1>1, <1>7, CloseOK DEF tok
<1>8. CASE tok = "R" /\ Ref /\ UNCHANGED <<reduce_pos, saved>>
  BY <1>1, <1>8, RefOK DEF tok
<1>9. CASE tok = "endobj" /\ EndObj /\ UNCHANGED <<reduce_pos, saved>>
  BY <1>1, <1>9, EndObjOK DEF tok
<1>10. QED
  BY <1>1, <1>2, <1>3, <1>4, <1>5, <1>6, <1>7, <1>8, <1>9 DEF AddToken

\* The parser as it begins, and as it is after it was cleared.
Clean ==
  /\ text \in Seq(Tokens \union {Byte, EOL})
  /\ read = 0
  /\ stack = <<>>
  /\ reduce_pos = 0
  /\ saved = <<>>
  /\ status \in {"ok", "freed twice"}

LEMMA CleanOK == Clean => IInv
<1> SUFFICES ASSUME Clean PROVE IInv
  OBVIOUS
<1>1. stack \in Seq({}) /\ Top = 0
  BY EmptyFacts DEF Clean, Top
<1>2. /\ text \in Seq(Tokens \union {Byte, EOL})
      /\ read = 0 /\ reduce_pos = 0 /\ status \in {"ok", "freed twice"}
  BY DEF Clean
<1>3. saved \in Seq(Nat) /\ Len(saved) = 0 /\ Tail(Append(saved, reduce_pos)) = <<>>
  BY EmptyFacts DEF Clean
<1>4. TypeOK
  <2>1. \A i \in 1..Top : IsSymbol(stack[i])
    BY <1>1
  <2>2. Len(text) \in Nat
    BY <1>2, AppendFacts
  <2>3. read \in 0..Len(text)
    <3>1. read = 0
      BY <1>2
    <3>2. QED
      BY ONLY <2>2, <3>1
  <2>4. reduce_pos \in Nat /\ saved \in Seq(Nat)
    BY <1>2, <1>3
  <2>5. status \in {"ok", "error", "undefined", "freed twice"}
    BY <1>2
  <2>6. QED
    BY ONLY <2>1, <2>3, <2>4, <2>5 DEF TypeOK
<1>5. BracketPlaces = {} /\ LiveBrackets = {}
  BY <1>1 DEF BracketPlaces, LiveBrackets
<1>6. Restorable
  BY <1>3, <1>5, FS_EmptySet DEF Restorable
<1>7. Depth(0) = 0
  <2>1. \A toks : {i \in 1..0 : text[i] \in toks} = {}
    OBVIOUS
  <2>2. \A toks : HowMany(toks, 0) = 0
    BY <2>1, FS_EmptySet DEF HowMany
  <2>3. QED
    BY <2>2 DEF Depth
<1>8. OnePerBracket
  BY <1>2, <1>3, <1>7 DEF OnePerBracket
<1>9. PlacesKnown
  BY <1>3, <1>5 DEF PlacesKnown
<1>10. QED
  BY <1>1, <1>2, <1>4, <1>6, <1>8, <1>9, KnowsIs DEF IInv, IsStack

LEMMA ClearOK == ASSUME IInv, Clear PROVE IInv'
<1>1. Clean'
  BY DEF IInv, Clear, Clean
<1>2. (Clean => IInv)'
  BY CleanOK, PTL
<1>3. QED
  BY <1>1, <1>2

LEMMA StutterOK == ASSUME IInv, UNCHANGED vars PROVE IInv'
<1>1. UNCHANGED <<text, read, stack, reduce_pos, saved, status>>
  BY DEF vars, parser
<1>2. (IsStack /\ TypeOK)'
  BY <1>1 DEF IInv, IsStack, TypeOK, Top
<1>3. Restorable'
  BY <1>1 DEF IInv, Restorable, LiveBrackets, BracketPlaces, Top
<1>4. \A n : Depth(n)' = Depth(n)
  BY <1>1 DEF Depth, HowMany
<1>5. OnePerBracket'
  BY <1>1, <1>4 DEF IInv, OnePerBracket
<1>6. EndsOutside' = EndsOutside
  BY <1>1, <1>4 DEF EndsOutside
<1>7. BracketPlaces' = BracketPlaces
  BY <1>1 DEF BracketPlaces, Top
<1>8. KnowsOpenBrackets'
  BY <1>1, <1>6, <1>7 DEF IInv, KnowsOpenBrackets
<1>9. QED
  BY <1>1, <1>2, <1>3, <1>5, <1>8 DEF IInv

-----------------------------------------------------------------------------
(* The theorems                                                            *)

LEMMA Invariant == Spec => []IInv
<1>1. Init => IInv
  BY InitText, CleanOK DEF Init, Start, Clean
<1>2. IInv /\ [Next]_vars => IInv'
  BY ReadTokenOK, ClearOK, StutterOK DEF Next
<1>3. QED
  BY <1>1, <1>2, PTL DEF Spec

\* Whatever tokens are added, the stack holds symbols, and every bracket that is closed
\* has left a position in reduce_pos_stack to go back to (_restore_reduce_pos).
THEOREM TypeCorrect == Spec => []TypeOK
<1>1. IInv => TypeOK
  BY DEF IInv
<1>2. QED
  BY <1>1, Invariant, PTL

\* For texts of any tokens and length whose indirect objects end outside of brackets,
\* reduce_pos_stack and reduce_pos are the places of the brackets that are open.
THEOREM AlwaysKnowsOpenBrackets == Spec => []KnowsOpenBrackets
<1>1. IInv => KnowsOpenBrackets
  BY DEF IInv
<1>2. QED
  BY <1>1, Invariant, PTL

-----------------------------------------------------------------------------
(* Sequences of anything                                                   *)

IsSeq(s) == \E S : s \in Seq(S)

LEMMA SeqFacts ==
  ASSUME NEW s, IsSeq(s)
  PROVE  Len(s) \in Nat /\ DOMAIN s = 1..Len(s) /\ s = [i \in 1..Len(s) |-> s[i]]
BY DEF IsSeq

LEMMA FnIsSeq ==
  ASSUME NEW n \in Nat, NEW f, f = [i \in 1..n |-> f[i]]
  PROVE  IsSeq(f) /\ Len(f) = n
<1>1. f \in [1..n -> {f[i] : i \in 1..n}]
  OBVIOUS
<1>2. f \in Seq({f[i] : i \in 1..n})
  BY <1>1
<1>3. Len(f) = n
  <2>1. DOMAIN f = 1..n
    BY <1>1
  <2>2. QED
    BY <1>2, <2>1
<1>4. QED
  BY <1>2, <1>3 DEF IsSeq

Same(s, t) == Len(s) = Len(t) /\ \A i \in 1..Len(s) : s[i] = t[i]

LEMMA SameIsEqual ==
  ASSUME NEW s, NEW t, IsSeq(s), IsSeq(t), Same(s, t)
  PROVE  s = t
<1>1. Len(s) = Len(t) /\ \A i \in 1..Len(s) : s[i] = t[i]
  BY DEF Same
<1>2. s = [i \in 1..Len(s) |-> s[i]] /\ t = [i \in 1..Len(t) |-> t[i]]
  BY SeqFacts
<1>3. [i \in 1..Len(s) |-> s[i]] = [i \in 1..Len(t) |-> t[i]]
  BY <1>1
<1>4. QED
  BY <1>2, <1>3

LEMMA JoinFacts ==
  ASSUME NEW s, NEW t, IsSeq(s), IsSeq(t)
  PROVE  /\ IsSeq(s \o t) /\ Len(s \o t) = Len(s) + Len(t)
         /\ \A i \in 1..Len(s) : (s \o t)[i] = s[i]
         /\ \A i \in 1..Len(t) : (s \o t)[Len(s) + i] = t[i]
<1>1. PICK S : s \in Seq(S)
  BY DEF IsSeq
<1>2. PICK T : t \in Seq(T)
  BY DEF IsSeq
<1>3. s \in Seq(S \union T) /\ t \in Seq(S \union T)
  BY <1>1, <1>2
<1>4. s \o t \in Seq(S \union T)
  BY <1>3
<1>5. QED
  BY <1>3, <1>4 DEF IsSeq

LEMMA OneFacts == ASSUME NEW x PROVE IsSeq(<<x>>) /\ Len(<<x>>) = 1 /\ <<x>>[1] = x
<1>1. <<x>> \in Seq({x})
  OBVIOUS
<1>2. QED
  BY <1>1 DEF IsSeq

LEMMA NoneFacts == IsSeq(<<>>) /\ Len(<<>>) = 0
<1>1. <<>> \in Seq({})
  OBVIOUS
<1>2. QED
  BY <1>1 DEF IsSeq

LEMMA AppendIs ==
  ASSUME NEW s, NEW x, IsSeq(s)
  PROVE  /\ Append(s, x) = s \o <<x>> /\ IsSeq(Append(s, x)) /\ Len(Append(s, x)) = Len(s) + 1
         /\ \A i \in 1..Len(s) : Append(s, x)[i] = s[i]
         /\ Append(s, x)[Len(s) + 1] = x
<1>1. PICK S : s \in Seq(S)
  BY DEF IsSeq
<1>2. s \in Seq(S \union {x}) /\ Append(s, x) \in Seq(S \union {x})
  BY <1>1
<1>3. /\ Len(Append(s, x)) = Len(s) + 1 /\ \A i \in 1..Len(s) : Append(s, x)[i] = s[i]
      /\ Append(s, x)[Len(s) + 1] = x
  BY <1>1
<1>4. IsSeq(Append(s, x))
  BY <1>2 DEF IsSeq
<1>5. IsSeq(s \o <<x>>) /\ Len(s \o <<x>>) = Len(s) + 1
      /\ \A i \in 1..Len(s) : (s \o <<x>>)[i] = s[i]
      /\ (s \o <<x>>)[Len(s) + 1] = x
  BY JoinFacts, OneFacts
<1>6. Same(Append(s, x), s \o <<x>>)
  <2>1. Len(s) \in Nat
    BY <1>1
  <2>2. QED
    BY <2>1, <1>3, <1>5 DEF Same
<1>7. Append(s, x) = s \o <<x>>
  BY <1>4, <1>5, <1>6, SameIsEqual
<1>8. QED
  BY <1>3, <1>4, <1>7

\* r is s, of n items, and x behind them: what that says of r item by item.
Grows(s, x, r, n) == n \in Nat /\ IsSeq(s) /\ Len(s) = n /\ r = Append(s, x)
Grown(s, x, r, n) == IsSeq(r) /\ Len(r) = n + 1 /\ (\A i \in 1..n : r[i] = s[i]) /\ r[n + 1] = x

LEMMA Appended ==
  ASSUME NEW s, NEW x, NEW r, NEW n, Grows(s, x, r, n)
  PROVE  Grown(s, x, r, n)
<1>1. n \in Nat /\ IsSeq(s) /\ Len(s) = n /\ r = Append(s, x)
  BY DEF Grows
<1>2. PICK S : s \in Seq(S)
  BY <1>1 DEF IsSeq
<1>3. s \in Seq(S \union {x}) /\ r \in Seq(S \union {x})
  BY <1>1, <1>2
<1>4. Len(r) = n + 1 /\ (\A i \in 1..n : r[i] = s[i]) /\ r[n + 1] = x
  BY <1>1, <1>2
<1>5. QED
  BY <1>3, <1>4 DEF Grown, IsSeq

\* r is t behind s.
Joins(s, t, r) == IsSeq(s) /\ IsSeq(t) /\ r = s \o t
Joined(s, t, r) ==
  /\ IsSeq(r) /\ Len(r) = Len(s) + Len(t)
  /\ \A i \in 1..Len(s) : r[i] = s[i]
  /\ \A i \in 1..Len(t) : r[Len(s) + i] = t[i]

LEMMA BothJoined == ASSUME NEW s, NEW t, NEW r, Joins(s, t, r) PROVE Joined(s, t, r)
<1>1. IsSeq(s) /\ IsSeq(t) /\ r = s \o t
  BY DEF Joins
<1>2. PICK S : s \in Seq(S)
  BY <1>1 DEF IsSeq
<1>3. PICK T : t \in Seq(T)
  BY <1>1 DEF IsSeq
<1>4. s \in Seq(S \union T) /\ t \in Seq(S \union T)
  BY <1>2, <1>3
<1>5. r \in Seq(S \union T)
  BY <1>1, <1>4
<1>6. /\ Len(r) = Len(s) + Len(t)
      /\ \A i \in 1..Len(s) : r[i] = s[i]
      /\ \A i \in 1..Len(t) : r[Len(s) + i] = t[i]
  BY <1>1, <1>4
<1>7. QED
  BY <1>5, <1>6 DEF Joined, IsSeq

\* Joining does not depend on where it starts.
Assoc(s, t, u) == (s \o t) \o u = s \o (t \o u)

LEMMA JoinAssoc ==
  ASSUME NEW s, NEW t, NEW u, IsSeq(s), IsSeq(t), IsSeq(u)
  PROVE  Assoc(s, t, u)
<1>1. PICK S : s \in Seq(S)
  BY DEF IsSeq
<1>2. PICK T : t \in Seq(T)
  BY DEF IsSeq
<1>3. PICK U : u \in Seq(U)
  BY DEF IsSeq
<1>4. s \in Seq((S \union T) \union U) /\ t \in Seq((S \union T) \union U) /\ u \in Seq((S \union T) \union U)
  BY <1>1, <1>2, <1>3
<1>5. QED
  BY <1>4 DEF Assoc

LEMMA JoinNone == ASSUME NEW s, IsSeq(s) PROVE s \o <<>> = s /\ <<>> \o s = s
BY DEF IsSeq

\* The first m, and what stands behind them.
LEMMA CutFacts ==
  ASSUME NEW s, IsSeq(s), NEW m \in 0..Len(s)
  PROVE  /\ IsSeq(SubSeq(s, 1, m)) /\ Len(SubSeq(s, 1, m)) = m
         /\ \A i \in 1..m : SubSeq(s, 1, m)[i] = s[i]
<1>1. PICK S : s \in Seq(S)
  BY DEF IsSeq
<1>2. SubSeq(s, 1, m) \in Seq(S) /\ Len(SubSeq(s, 1, m)) = m /\ \A i \in 1..m : SubSeq(s, 1, m)[i] = s[i]
  BY <1>1
<1>3. QED
  BY <1>2 DEF IsSeq

\* What stands behind the first m items.
LEMMA BehindFacts ==
  ASSUME NEW s, IsSeq(s), NEW m \in Nat, NEW n \in Nat, Len(s) = m + n
  PROVE  LET rest == SubSeq(s, m + 1, Len(s)) IN
         /\ IsSeq(rest) /\ Len(rest) = n /\ \A i \in 1..n : rest[i] = s[m + i]
<1>1. PICK S : s \in Seq(S)
  BY DEF IsSeq
<1>2. PICK k, l : k = m + 1 /\ l = Len(s)
  OBVIOUS
<1>3. k \in 1..(l + 1) /\ l \in Nat /\ k \in Nat
  BY <1>1, <1>2
<1>4. Len(SubSeq(s, k, l)) = n /\ \A i \in 1..n : SubSeq(s, k, l)[i] = s[m + i]
  BY <1>1, <1>2, <1>3
<1>5. SubSeq(s, k, l) \in Seq(S)
  <2>1. \A i \in k..l : s[i] \in S
    <3>1. \A i \in k..l : i \in 1..Len(s)
      BY <1>2, <1>3
    <3>2. QED
      BY <1>1, <3>1
  <2>2. QED
    BY <1>1, <1>2, <1>3, <2>1
<1>6. QED
  BY <1>2, <1>4, <1>5 DEF IsSeq

\* A sequence that is not empty is one that an item was appended to.
LEMMA LastFacts ==
  ASSUME NEW s, IsSeq(s), NEW n \in Nat, Len(s) = n + 1
  PROVE  /\ s = Append(SubSeq(s, 1, n), s[n + 1])
         /\ IsSeq(SubSeq(s, 1, n)) /\ Len(SubSeq(s, 1, n)) = n
         /\ \A i \in 1..n : SubSeq(s, 1, n)[i] = s[i]
<1> DEFINE front == SubSeq(s, 1, n)
           again == Append(front, s[n + 1])
<1>1. IsSeq(front) /\ Len(front) = n /\ \A i \in 1..n : front[i] = s[i]
  BY CutFacts
<1> HIDE DEF front
<1>2. IsSeq(again) /\ Len(again) = n + 1
      /\ (\A i \in 1..n : again[i] = front[i]) /\ again[n + 1] = s[n + 1]
  <2>1. PICK f, x, r : f = front /\ x = s[n + 1] /\ r = again
    OBVIOUS
  <2>2. Grown(f, x, r, n)
    <3>1. Grows(f, x, r, n)
      BY <1>1, <2>1 DEF Grows
    <3>2. QED
      BY ONLY <3>1, Appended
  <2>3. QED
    BY <2>1, <2>2 DEF Grown
<1> HIDE DEF again
<1>3. \A i \in 1..(n + 1) : again[i] = s[i]
  BY <1>1, <1>2
<1>4. s = again
  <2>1. Same(s, again)
    BY <1>2, <1>3 DEF Same
  <2>2. QED
    BY <1>2, <2>1, SameIsEqual
<1>5. QED
  BY <1>1, <1>4 DEF front, again

-----------------------------------------------------------------------------
(* What is written of objects                                              *)

\* FlattenSeq is the one of the lemmas.
LEMMA FlattenAppend ==
  ASSUME NEW S, NEW ss \in Seq(Seq(S)), NEW s \in Seq(S)
  PROVE  /\ FlattenSeq(ss) \in Seq(S)
         /\ FlattenSeq(Append(ss, s)) = FlattenSeq(ss) \o s
<1>1. \A seqs : FlattenSeq(seqs) = Numbers!FlattenSeq(seqs)
  BY DEF FlattenSeq, Numbers!FlattenSeq
<1>2. QED
  BY <1>1, Numbers!FlattenAppend

\* A text that is not fully written.
ItemSeq(s) == IsSeq(s) /\ \A i \in 1..Len(s) : WellFormed(s[i])

LEMMA ItemsOfIs ==
  ASSUME NEW toks, IsSeq(toks)
  PROVE  IsSeq(ItemsOf(toks)) /\ Len(ItemsOf(toks)) = Len(toks) /\ \A i \in 1..Len(toks) : ItemsOf(toks)[i] = Item(toks[i])
<1> DEFINE f == [i \in 1..Len(toks) |-> Item(toks[i])]
<1>1. Len(toks) \in Nat
  BY SeqFacts
<1>2. f = [i \in 1..Len(toks) |-> f[i]] /\ \A i \in 1..Len(toks) : f[i] = Item(toks[i])
  OBVIOUS
<1> HIDE DEF f
<1>3. IsSeq(f) /\ Len(f) = Len(toks)
  BY <1>1, <1>2, FnIsSeq
<1>4. f = ItemsOf(toks)
  BY DEF f, ItemsOf
<1>5. QED
  BY <1>2, <1>3, <1>4

\* What is around the parts of an object.
LEMMA UnwrappedIs ==
  ASSUME NEW x, WellFormed(x)
  PROVE  /\ IsSeq(x.of) /\ x = Obj(x.t, x.of)
         /\ x.t = "array" => Unwrapped(x) = <<Item("[")>> \o x.of \o <<Item("]")>>
         /\ x.t = "dict" => Unwrapped(x) = <<Item("<")>> \o x.of \o <<Item(">")>>
         /\ x.t = "ref" => Unwrapped(x) = x.of \o <<Item("R")>>
         /\ x.t = "ind" => Unwrapped(x) = <<x.of[1], x.of[2], Item("obj"), x.of[3], Item("endobj")>>
         /\ x.t \in LeafTypes \union {"token"} => Unwrapped(x) = <<Item(x.of[1])>>
         /\ IsSeq(Unwrapped(x))
<1>1. Len(x.of) \in Nat /\ x.of = [i \in 1..Len(x.of) |-> x.of[i]]
  BY DEF WellFormed
<1>2. IsSeq(x.of)
  BY <1>1, FnIsSeq
<1>3. CASE x.t = "array"
  <2>1. Unwrapped(x) = <<Item("[")>> \o x.of \o <<Item("]")>>
    BY <1>3 DEF Unwrapped
  <2>2. IsSeq(<<Item("[")>> \o x.of \o <<Item("]")>>)
    BY <1>2, OneFacts, JoinFacts
  <2>3. QED
    BY <1>2, <1>3, <2>1, <2>2 DEF LeafTypes, WellFormed
<1>4. CASE x.t = "dict"
  <2>1. Unwrapped(x) = <<Item("<")>> \o x.of \o <<Item(">")>>
    BY <1>4 DEF Unwrapped
  <2>2. IsSeq(<<Item("<")>> \o x.of \o <<Item(">")>>)
    BY <1>2, OneFacts, JoinFacts
  <2>3. QED
    BY <1>2, <1>4, <2>1, <2>2 DEF LeafTypes, WellFormed
<1>5. CASE x.t = "ref"
  <2>1. Unwrapped(x) = x.of \o <<Item("R")>>
    BY <1>5 DEF Unwrapped
  <2>2. IsSeq(x.of \o <<Item("R")>>)
    BY <1>2, OneFacts, JoinFacts
  <2>3. QED
    BY <1>2, <1>5, <2>1, <2>2 DEF LeafTypes, WellFormed
<1>6. CASE x.t = "ind"
  <2>1. Unwrapped(x) = <<x.of[1], x.of[2], Item("obj"), x.of[3], Item("endobj")>>
    BY <1>6 DEF Unwrapped
  <2>2. \A a, b, c, d, e : IsSeq(<<a, b, c, d, e>>)
    <3>1. \A a, b, c, d, e : <<a, b, c, d, e>> \in Seq({a, b, c, d, e})
      OBVIOUS
    <3>2. QED
      BY <3>1 DEF IsSeq
  <2>3. IsSeq(Unwrapped(x))
    BY <2>1, <2>2
  <2>4. QED
    BY <1>2, <1>6, <2>1, <2>3 DEF LeafTypes, WellFormed
<1>7. CASE x.t \in LeafTypes \union {"token"}
  <2>1. Unwrapped(x) = ItemsOf(x.of)
    BY <1>7 DEF Unwrapped, LeafTypes
  <2>2. Len(x.of) = 1
    BY <1>7 DEF WellFormed, LeafTypes
  <2>3. IsSeq(ItemsOf(x.of)) /\ Len(ItemsOf(x.of)) = 1 /\ ItemsOf(x.of)[1] = Item(x.of[1])
    BY <1>2, <2>2, ItemsOfIs
  <2>4. Same(ItemsOf(x.of), <<Item(x.of[1])>>)
    BY <2>3, OneFacts DEF Same
  <2>5. ItemsOf(x.of) = <<Item(x.of[1])>>
    BY <2>3, <2>4, OneFacts, SameIsEqual
  <2>6. QED
    BY <1>2, <1>7, <2>1, <2>3, <2>5 DEF LeafTypes, WellFormed
<1>8. QED
  BY <1>3, <1>4, <1>5, <1>6, <1>7 DEF WellFormed

LEMMA ExpandedNone == Expanded(<<>>) = <<>>
<1>1. [i \in 1..Len(<<>>) |-> Unwrapped(<<>>[i])] = <<>>
  BY NoneFacts
<1>2. FlattenSeq(<<>>) = <<>>
  BY NoneFacts DEF FlattenSeq
<1>3. QED
  BY <1>1, <1>2 DEF Expanded

LEMMA ExpandedAppend ==
  ASSUME NEW s, NEW x, ItemSeq(s), WellFormed(x)
  PROVE  /\ IsSeq(Expanded(s))
         /\ Expanded(Append(s, x)) = Expanded(s) \o Unwrapped(x)
<1> DEFINE n == Len(s)
           ss == [i \in 1..n |-> Unwrapped(s[i])]
           P == UNION {{Unwrapped(s[i])[j] : j \in 1..Len(Unwrapped(s[i]))} : i \in 1..n}
           R == {Unwrapped(x)[j] : j \in 1..Len(Unwrapped(x))}
           S == P \union R
<1>1. IsSeq(s) /\ n \in Nat
  BY SeqFacts DEF ItemSeq
<1>2. ASSUME NEW i \in 1..n PROVE Unwrapped(s[i]) \in Seq(S)
  <2>1. WellFormed(s[i])
    BY DEF ItemSeq
  <2>2. IsSeq(Unwrapped(s[i]))
    BY <2>1, UnwrappedIs
  <2>3. PICK u : u = Unwrapped(s[i])
    OBVIOUS
  <2>4. Len(u) \in Nat /\ u = [j \in 1..Len(u) |-> u[j]]
    BY <2>2, <2>3, SeqFacts
  <2>5. \A j \in 1..Len(u) : u[j] \in S
    BY <2>3
  <2> HIDE DEF S
  <2>6. u \in Seq(S)
    BY <2>4, <2>5
  <2>7. QED
    BY <2>3, <2>6
<1>3. Unwrapped(x) \in Seq(S)
  <2>1. IsSeq(Unwrapped(x))
    BY UnwrappedIs
  <2>2. PICK u : u = Unwrapped(x)
    OBVIOUS
  <2>3. Len(u) \in Nat /\ u = [j \in 1..Len(u) |-> u[j]]
    BY <2>1, <2>2, SeqFacts
  <2>4. \A j \in 1..Len(u) : u[j] \in S
    BY <2>2
  <2> HIDE DEF S
  <2>5. u \in Seq(S)
    BY <2>3, <2>4
  <2>6. QED
    BY <2>2, <2>5
<1> HIDE DEF S
<1>4. ss \in Seq(Seq(S))
  BY <1>1, <1>2
<1>5. /\ FlattenSeq(ss) \in Seq(S)
      /\ FlattenSeq(Append(ss, Unwrapped(x))) = FlattenSeq(ss) \o Unwrapped(x)
  <2> HIDE DEF ss
  <2>1. QED
    BY <1>3, <1>4, FlattenAppend
<1>6. Expanded(s) = FlattenSeq(ss)
  BY DEF Expanded
<1>7. Expanded(Append(s, x)) = FlattenSeq(Append(ss, Unwrapped(x)))
  <2> DEFINE all == Append(s, x)
             new == [i \in 1..Len(all) |-> Unwrapped(all[i])]
             more == Append(ss, Unwrapped(x))
  <2>1. Len(all) = n + 1 /\ (\A i \in 1..n : all[i] = s[i]) /\ all[n + 1] = x
    BY <1>1, AppendIs
  <2>2. Len(ss) = n /\ \A i \in 1..n : ss[i] = Unwrapped(s[i])
    BY <1>1
  <2>3. IsSeq(ss)
    BY <1>4 DEF IsSeq
  <2> HIDE DEF ss, all
  <2>4. IsSeq(more) /\ Len(more) = n + 1 /\ (\A i \in 1..n : more[i] = ss[i]) /\ more[n + 1] = Unwrapped(x)
    <3>1. PICK f, y, r : f = ss /\ y = Unwrapped(x) /\ r = more
      OBVIOUS
    <3>2. Grown(f, y, r, n)
      <4>1. Grows(f, y, r, n)
        BY <2>2, <2>3, <3>1 DEF Grows
      <4>2. QED
        BY ONLY <4>1, Appended
    <3>3. QED
      BY <3>1, <3>2 DEF Grown
  <2> HIDE DEF more
  <2>5. new = [i \in 1..(n + 1) |-> new[i]] /\ \A i \in 1..(n + 1) : new[i] = Unwrapped(all[i])
    BY <2>1
  <2>6. Expanded(all) = FlattenSeq(new)
    BY DEF Expanded
  <2> HIDE DEF new
  <2>7. IsSeq(new) /\ Len(new) = n + 1
    BY <1>1, <2>5, FnIsSeq
  <2>8. \A i \in 1..(n + 1) : new[i] = more[i]
    BY <1>1, <2>1, <2>2, <2>4, <2>5
  <2>9. Same(new, more)
    BY <2>4, <2>7, <2>8 DEF Same
  <2>10. new = more
    BY <2>4, <2>7, <2>9, SameIsEqual
  <2>11. QED
    BY <2>6, <2>10 DEF all, more
<1>8. QED
  BY <1>5, <1>6, <1>7 DEF IsSeq

LEMMA ItemSeqJoin ==
  ASSUME NEW s, NEW t, IsSeq(s), IsSeq(t)
  PROVE  ItemSeq(s \o t) <=> ItemSeq(s) /\ ItemSeq(t)
<1>1. /\ IsSeq(s \o t) /\ Len(s \o t) = Len(s) + Len(t)
      /\ \A i \in 1..Len(s) : (s \o t)[i] = s[i]
      /\ \A i \in 1..Len(t) : (s \o t)[Len(s) + i] = t[i]
  BY JoinFacts
<1>2. Len(s) \in Nat /\ Len(t) \in Nat
  BY SeqFacts
<1>3. ASSUME ItemSeq(s \o t) PROVE ItemSeq(s) /\ ItemSeq(t)
  <2>1. \A i \in 1..(Len(s) + Len(t)) : WellFormed((s \o t)[i])
    BY <1>1, <1>3 DEF ItemSeq
  <2>2. \A i \in 1..Len(s) : i \in 1..(Len(s) + Len(t))
    BY <1>2
  <2>3. \A i \in 1..Len(t) : Len(s) + i \in 1..(Len(s) + Len(t))
    BY <1>2
  <2>4. QED
    BY <1>1, <2>1, <2>2, <2>3 DEF ItemSeq
<1>4. ASSUME ItemSeq(s), ItemSeq(t) PROVE ItemSeq(s \o t)
  <2>1. ASSUME NEW i \in 1..(Len(s) + Len(t)) PROVE WellFormed((s \o t)[i])
    <3>1. CASE i <= Len(s)
      BY <1>1, <1>2, <1>4, <3>1 DEF ItemSeq
    <3>2. CASE ~(i <= Len(s))
      <4>1. i - Len(s) \in 1..Len(t) /\ i = Len(s) + (i - Len(s))
        BY <1>2, <3>2
      <4>2. (s \o t)[i] = t[i - Len(s)]
        BY <1>1, <4>1
      <4>3. QED
        BY <1>4, <4>1, <4>2 DEF ItemSeq
    <3>3. QED
      BY <3>1, <3>2
  <2>2. QED
    BY <1>1, <2>1 DEF ItemSeq
<1>5. QED
  BY <1>3, <1>4

LEMMA ItemSeqOne == ASSUME NEW x PROVE ItemSeq(<<x>>) <=> WellFormed(x)
<1>1. IsSeq(<<x>>) /\ Len(<<x>>) = 1 /\ <<x>>[1] = x /\ \A i \in 1..1 : i = 1
  BY OneFacts
<1>2. QED
  BY <1>1 DEF ItemSeq

LEMMA ExpandedOne == ASSUME NEW x, WellFormed(x) PROVE Expanded(<<x>>) = Unwrapped(x)
<1>1. ItemSeq(<<>>)
  BY NoneFacts DEF ItemSeq
<1>2. Expanded(Append(<<>>, x)) = Expanded(<<>>) \o Unwrapped(x)
  BY <1>1, ExpandedAppend
<1>3. IsSeq(Unwrapped(x))
  BY UnwrappedIs
<1>4. Append(<<>>, x) = <<x>>
  OBVIOUS
<1>5. <<>> \o Unwrapped(x) = Unwrapped(x)
  BY <1>3, JoinNone
<1>6. QED
  BY <1>2, <1>4, <1>5, ExpandedNone

LEMMA ExpandedJoin ==
  ASSUME NEW s, NEW t, ItemSeq(s), ItemSeq(t)
  PROVE  /\ IsSeq(Expanded(s)) /\ IsSeq(Expanded(t))
         /\ Expanded(s \o t) = Expanded(s) \o Expanded(t)
<1> DEFINE head(n) == SubSeq(t, 1, n)
           T == {n \in Nat : n <= Len(t) => Expanded(s \o head(n)) = Expanded(s) \o Expanded(head(n))}
<1>1. IsSeq(s) /\ IsSeq(t) /\ Len(t) \in Nat
  BY SeqFacts DEF ItemSeq
<1>2. ASSUME NEW u, ItemSeq(u) PROVE IsSeq(Expanded(u))
  <2>1. WellFormed(Item("R"))
    BY DEF WellFormed, Item, Obj, Tokens
  <2>2. QED
    BY <1>2, <2>1, ExpandedAppend
<1>3. ASSUME NEW n \in 0..Len(t) PROVE ItemSeq(head(n)) /\ IsSeq(head(n)) /\ Len(head(n)) = n
  <2>1. IsSeq(head(n)) /\ Len(head(n)) = n /\ \A i \in 1..n : head(n)[i] = t[i]
    BY <1>1, CutFacts
  <2>2. 1..n \subseteq 1..Len(t)
    BY <1>1
  <2>3. QED
    BY <2>1, <2>2 DEF ItemSeq
<1>4. 0 \in T
  <2>1. head(0) = <<>>
    <3>1. IsSeq(head(0)) /\ Len(head(0)) = 0
      BY <1>1, <1>3
    <3>2. Same(head(0), <<>>)
      BY <3>1, NoneFacts DEF Same
    <3>3. QED
      BY <3>1, <3>2, NoneFacts, SameIsEqual
  <2>2. s \o <<>> = s /\ Expanded(s) \o <<>> = Expanded(s)
    BY <1>1, <1>2, JoinNone
  <2> HIDE DEF head
  <2>3. QED
    BY <2>1, <2>2, ExpandedNone
<1>5. ASSUME NEW n \in T PROVE n + 1 \in T
  <2>1. n \in Nat
    OBVIOUS
  <2>2. ASSUME n + 1 <= Len(t) PROVE Expanded(s \o head(n + 1)) = Expanded(s) \o Expanded(head(n + 1))
    <3>1. n \in 0..Len(t) /\ n + 1 \in 0..Len(t) /\ n <= Len(t) /\ n + 1 \in 1..Len(t)
      BY <1>1, <2>1, <2>2
    <3>2. head(n + 1) = Append(head(n), t[n + 1])
      <4>1. /\ IsSeq(head(n)) /\ Len(head(n)) = n /\ \A i \in 1..n : head(n)[i] = t[i]
            /\ IsSeq(head(n + 1)) /\ Len(head(n + 1)) = n + 1 /\ \A i \in 1..(n + 1) : head(n + 1)[i] = t[i]
        BY <1>1, <3>1, CutFacts
      <4> HIDE DEF head
      <4>2. \A x : LET m == Append(head(n), x) IN
              IsSeq(m) /\ Len(m) = n + 1 /\ (\A i \in 1..n : m[i] = head(n)[i]) /\ m[n + 1] = x
        <5>1. PICK h : h = head(n)
          OBVIOUS
        <5>2. IsSeq(h) /\ Len(h) = n
          BY <4>1, <5>1
        <5>3. ASSUME NEW x
              PROVE  /\ IsSeq(Append(h, x)) /\ Len(Append(h, x)) = Len(h) + 1
                     /\ (\A i \in 1..Len(h) : Append(h, x)[i] = h[i]) /\ Append(h, x)[Len(h) + 1] = x
          BY ONLY <5>2, AppendIs
        <5>4. QED
          BY <5>1, <5>2, <5>3
      <4>3. Same(head(n + 1), Append(head(n), t[n + 1]))
        <5>1. \A i \in 1..(n + 1) : i \in 1..n \/ i = n + 1
          BY <2>1
        <5>2. QED
          BY <4>1, <4>2, <5>1, <2>1 DEF Same
      <4>4. QED
        BY <4>1, <4>2, <4>3, SameIsEqual
    <3>3. Expanded(s \o head(n)) = Expanded(s) \o Expanded(head(n))
      BY <3>1
    <3>4. ItemSeq(head(n)) /\ IsSeq(head(n)) /\ WellFormed(t[n + 1])
      BY <1>3, <3>1 DEF ItemSeq
    <3> HIDE DEF head
    <3>5. Expanded(head(n + 1)) = Expanded(head(n)) \o Unwrapped(t[n + 1])
      BY <3>2, <3>4, ExpandedAppend
    <3>6. s \o head(n + 1) = Append(s \o head(n), t[n + 1])
      <4>1. \A x : IsSeq(<<x>>) /\ Append(head(n), x) = head(n) \o <<x>>
        BY <3>4, AppendIs, OneFacts
      <4>2. IsSeq(s \o head(n))
        BY <1>1, <3>4, JoinFacts
      <4>3. \A x : Append(s \o head(n), x) = (s \o head(n)) \o <<x>>
        BY <4>2, AppendIs
      <4>4. ASSUME NEW x PROVE (s \o head(n)) \o <<x>> = s \o (head(n) \o <<x>>)
        <5>1. PICK h, o : h = head(n) /\ o = <<x>>
          OBVIOUS
        <5>2. IsSeq(s) /\ IsSeq(h) /\ IsSeq(o)
          BY <1>1, <3>4, <5>1, OneFacts
        <5>3. Assoc(s, h, o)
          BY ONLY <5>2, JoinAssoc
        <5>4. QED
          BY <5>1, <5>3 DEF Assoc
      <4>5. QED
        BY <3>2, <4>1, <4>3, <4>4
    <3>7. ItemSeq(s \o head(n))
      BY <1>1, <3>4, ItemSeqJoin
    <3>8. Expanded(s \o head(n + 1)) = Expanded(s \o head(n)) \o Unwrapped(t[n + 1])
      BY <3>4, <3>6, <3>7, ExpandedAppend
    <3>9. IsSeq(Expanded(s)) /\ IsSeq(Expanded(head(n))) /\ IsSeq(Unwrapped(t[n + 1]))
      BY <1>2, <3>4, UnwrappedIs
    <3>10. (Expanded(s) \o Expanded(head(n))) \o Unwrapped(t[n + 1])
             = Expanded(s) \o (Expanded(head(n)) \o Unwrapped(t[n + 1]))
      <4>1. PICK a, b, d : a = Expanded(s) /\ b = Expanded(head(n)) /\ d = Unwrapped(t[n + 1])
        OBVIOUS
      <4>2. IsSeq(a) /\ IsSeq(b) /\ IsSeq(d)
        BY <3>9, <4>1
      <4>3. Assoc(a, b, d)
        BY ONLY <4>2, JoinAssoc
      <4>4. QED
        BY <4>1, <4>3 DEF Assoc
    <3>11. QED
      BY <3>3, <3>5, <3>8, <3>10
  <2>3. QED
    BY <2>1, <2>2
<1>6. T = Nat
  <2> HIDE DEF T
  <2>1. T \in SUBSET Nat
    BY DEF T
  <2>2. QED
    BY <2>1, <1>4, <1>5, Numbers!SetInductionOnNat
<1>7. head(Len(t)) = t
  <2>1. IsSeq(head(Len(t))) /\ Len(head(Len(t))) = Len(t) /\ \A i \in 1..Len(t) : head(Len(t))[i] = t[i]
    BY <1>1, CutFacts
  <2> HIDE DEF head
  <2>2. Same(head(Len(t)), t)
    BY <2>1 DEF Same
  <2>3. QED
    BY <1>1, <2>1, <2>2, SameIsEqual
<1>8. Len(t) \in T
  BY <1>1, <1>6
<1>9. Expanded(s \o head(Len(t))) = Expanded(s) \o Expanded(head(Len(t)))
  BY <1>1, <1>8
<1> HIDE DEF head, T
<1>10. QED
  BY <1>2, <1>7, <1>9

\* The rounds of Written are a function of their number.
Rounds(items, n, w) == w = [k \in 0..n |-> IF k = 0 THEN items ELSE Expanded(w[k - 1])]

LEMMA RoundsExist ==
  ASSUME NEW items, NEW n \in Nat
  PROVE  \E w : Rounds(items, n, w) /\ Written(items, n) = w[n]
<1> DEFINE Next1(w, k) == IF k = 0 THEN items ELSE Expanded(w[k - 1])
           T == {m \in Nat : \E w : w = [k \in 0..m |-> Next1(w, k)]}
<1>1. 0 \in T
  <2> DEFINE w == [k \in 0..0 |-> items]
  <2>1. w = [k \in 0..0 |-> Next1(w, k)]
    OBVIOUS
  <2> HIDE DEF w, Next1
  <2>2. QED
    BY <2>1
<1>2. ASSUME NEW m \in T PROVE m + 1 \in T
  <2>1. m \in Nat
    OBVIOUS
  <2>2. PICK w : w = [k \in 0..m |-> Next1(w, k)]
    OBVIOUS
  <2> DEFINE v == [k \in 0..(m + 1) |-> IF k <= m THEN w[k] ELSE Expanded(w[m])]
  <2>3. ASSUME NEW k \in 0..(m + 1) PROVE v[k] = Next1(v, k)
    <3>1. CASE k = m + 1
      <4>1. v[k] = Expanded(w[m]) /\ v[k - 1] = w[m] /\ k # 0
        BY <3>1, <2>1
      <4>2. QED
        BY <4>1
    <3>2. CASE k \in 0..m
      <4>1. v[k] = w[k] /\ (k # 0 => v[k - 1] = w[k - 1])
        BY <3>2, <2>1
      <4>2. w[k] = Next1(w, k)
        BY <3>2, <2>2
      <4>3. QED
        BY <4>1, <4>2
    <3>3. QED
      BY <3>1, <3>2, <2>1
  <2>4. v = [k \in 0..(m + 1) |-> v[k]]
    OBVIOUS
  <2> HIDE DEF v, Next1
  <2>5. v = [k \in 0..(m + 1) |-> Next1(v, k)]
    BY <2>3, <2>4
  <2>6. QED
    BY <2>1, <2>5
<1>3. T = Nat
  <2> HIDE DEF T
  <2>1. T \in SUBSET Nat
    BY DEF T
  <2>2. QED
    BY <2>1, <1>1, <1>2, Numbers!SetInductionOnNat
<1> DEFINE written == CHOOSE w : w = [k \in 0..n |-> IF k = 0 THEN items ELSE Expanded(w[k - 1])]
<1>4. \E w : w = [k \in 0..n |-> IF k = 0 THEN items ELSE Expanded(w[k - 1])]
  BY <1>3
<1>5. written = [k \in 0..n |-> IF k = 0 THEN items ELSE Expanded(written[k - 1])]
  BY <1>4
<1>6. Written(items, n) = written[n]
  BY DEF Written
<1> HIDE DEF written
<1>7. QED
  BY <1>5, <1>6 DEF Rounds

LEMMA RoundsAgree ==
  ASSUME NEW items, NEW n \in Nat, NEW w, NEW v, Rounds(items, n, w), Rounds(items, n + 1, v)
  PROVE  \A k \in 0..n : w[k] = v[k]
<1> DEFINE T == {k \in Nat : k <= n => w[k] = v[k]}
<1>1. /\ \A k \in 0..n : w[k] = IF k = 0 THEN items ELSE Expanded(w[k - 1])
      /\ \A k \in 0..(n + 1) : v[k] = IF k = 0 THEN items ELSE Expanded(v[k - 1])
  BY DEF Rounds
<1>2. 0 \in T
  BY <1>1
<1>3. ASSUME NEW k \in T PROVE k + 1 \in T
  <2>1. ASSUME k + 1 <= n PROVE w[k + 1] = v[k + 1]
    <3>1. k \in Nat /\ k <= n /\ k + 1 \in 0..n /\ k + 1 \in 0..(n + 1) /\ k + 1 # 0 /\ (k + 1) - 1 = k
      BY <2>1
    <3>2. w[k] = v[k]
      BY <3>1
    <3>3. QED
      BY <1>1, <3>1, <3>2
  <2>2. QED
    BY <2>1
<1>4. T = Nat
  <2> HIDE DEF T
  <2>1. T \in SUBSET Nat
    BY DEF T
  <2>2. QED
    BY <2>1, <1>2, <1>3, Numbers!SetInductionOnNat
<1>5. QED
  BY <1>4

\* A round expands what the rounds before have written.
LEMMA WrittenSteps ==
  ASSUME NEW items, NEW n \in Nat
  PROVE  Written(items, 0) = items /\ Written(items, n + 1) = Expanded(Written(items, n))
<1>1. PICK w : Rounds(items, n, w) /\ Written(items, n) = w[n]
  BY RoundsExist
<1>2. PICK v : Rounds(items, n + 1, v) /\ Written(items, n + 1) = v[n + 1]
  BY RoundsExist
<1>3. PICK u : Rounds(items, 0, u) /\ Written(items, 0) = u[0]
  BY RoundsExist
<1>4. u[0] = items
  BY <1>3 DEF Rounds
<1>5. v[n + 1] = Expanded(v[n])
  <2>1. n + 1 \in 0..(n + 1) /\ n + 1 # 0 /\ (n + 1) - 1 = n
    OBVIOUS
  <2>2. v[n + 1] = Expanded(v[(n + 1) - 1])
    BY <1>2, <2>1 DEF Rounds
  <2>3. QED
    BY <2>1, <2>2
<1>6. w[n] = v[n]
  <2>1. \A k \in 0..n : w[k] = v[k]
    BY <1>1, <1>2, RoundsAgree
  <2>2. QED
    BY <2>1
<1>7. QED
  BY <1>1, <1>2, <1>3, <1>4, <1>5, <1>6

\* Everything that comes to light is well-formed.
Deep(items) == \A n \in Nat : ItemSeq(Written(items, n))

\* The first round may be done first.
LEMMA WrittenFirst ==
  ASSUME NEW items, NEW n \in Nat
  PROVE  Written(items, n + 1) = Written(Expanded(items), n)
<1> DEFINE T == {k \in Nat : Written(items, k + 1) = Written(Expanded(items), k)}
<1>1. 0 \in T
  <2>1. Written(items, 0 + 1) = Expanded(Written(items, 0)) /\ Written(items, 0) = items
        /\ Written(Expanded(items), 0) = Expanded(items)
    BY WrittenSteps
  <2>2. QED
    BY <2>1
<1>2. ASSUME NEW k \in T PROVE k + 1 \in T
  <2>1. k \in Nat /\ k + 1 \in Nat
    OBVIOUS
  <2>2. Written(items, (k + 1) + 1) = Expanded(Written(items, k + 1))
    BY <2>1, WrittenSteps
  <2>3. Written(Expanded(items), k + 1) = Expanded(Written(Expanded(items), k))
    BY <2>1, WrittenSteps
  <2>4. Written(items, k + 1) = Written(Expanded(items), k)
    OBVIOUS
  <2>5. QED
    BY <2>1, <2>2, <2>3, <2>4
<1>3. T = Nat
  <2> HIDE DEF T
  <2>1. T \in SUBSET Nat
    BY DEF T
  <2>2. QED
    BY <2>1, <1>1, <1>2, Numbers!SetInductionOnNat
<1>4. QED
  BY <1>3

LEMMA WrittenJoin ==
  ASSUME NEW s, NEW t, Deep(s), Deep(t)
  PROVE  \A n \in Nat : Written(s \o t, n) = Written(s, n) \o Written(t, n)
<1> DEFINE T == {n \in Nat : Written(s \o t, n) = Written(s, n) \o Written(t, n)}
<1>1. 0 \in T
  BY WrittenSteps
<1>2. ASSUME NEW n \in T PROVE n + 1 \in T
  <2>1. n \in Nat
    OBVIOUS
  <2>2. ItemSeq(Written(s, n)) /\ ItemSeq(Written(t, n))
    BY <2>1 DEF Deep
  <2>3. Written(s \o t, n + 1) = Expanded(Written(s \o t, n))
        /\ Written(s, n + 1) = Expanded(Written(s, n)) /\ Written(t, n + 1) = Expanded(Written(t, n))
    BY <2>1, WrittenSteps
  <2>4. Expanded(Written(s, n) \o Written(t, n)) = Expanded(Written(s, n)) \o Expanded(Written(t, n))
    BY <2>2, ExpandedJoin
  <2>5. Written(s \o t, n) = Written(s, n) \o Written(t, n)
    OBVIOUS
  <2>6. QED
    BY <2>1, <2>3, <2>4, <2>5
<1>3. T = Nat
  <2> HIDE DEF T
  <2>1. T \in SUBSET Nat
    BY DEF T
  <2>2. QED
    BY <2>1, <1>1, <1>2, Numbers!SetInductionOnNat
<1>4. QED
  BY <1>3

LEMMA DeepJoin ==
  ASSUME NEW s, NEW t, Deep(s), Deep(t)
  PROVE  Deep(s \o t)
<1>1. ASSUME NEW n \in Nat PROVE ItemSeq(Written(s \o t, n))
  <2>1. Written(s \o t, n) = Written(s, n) \o Written(t, n)
    BY WrittenJoin
  <2>2. ItemSeq(Written(s, n)) /\ ItemSeq(Written(t, n))
    BY DEF Deep
  <2>3. IsSeq(Written(s, n)) /\ IsSeq(Written(t, n))
    BY <2>2 DEF ItemSeq
  <2>4. QED
    BY <2>1, <2>2, <2>3, ItemSeqJoin
<1>2. QED
  BY <1>1 DEF Deep

LEMMA DeepParts ==
  ASSUME NEW s, NEW t, IsSeq(s), IsSeq(t), Deep(s \o t)
  PROVE  Deep(s) /\ Deep(t)
<1> DEFINE T == {n \in Nat : /\ Written(s \o t, n) = Written(s, n) \o Written(t, n)
                             /\ ItemSeq(Written(s, n)) /\ ItemSeq(Written(t, n))}
<1>1. 0 \in T
  <2>1. Written(s \o t, 0) = s \o t /\ Written(s, 0) = s /\ Written(t, 0) = t
    BY WrittenSteps
  <2>2. ItemSeq(s \o t)
    BY <2>1 DEF Deep
  <2>3. ItemSeq(s) /\ ItemSeq(t)
    BY <2>2, ItemSeqJoin
  <2>4. QED
    BY <2>1, <2>3
<1>2. ASSUME NEW n \in T PROVE n + 1 \in T
  <2>1. n \in Nat /\ n + 1 \in Nat
    OBVIOUS
  <2>2. ItemSeq(Written(s, n)) /\ ItemSeq(Written(t, n)) /\ Written(s \o t, n) = Written(s, n) \o Written(t, n)
    OBVIOUS
  <2>3. Written(s \o t, n + 1) = Expanded(Written(s \o t, n))
        /\ Written(s, n + 1) = Expanded(Written(s, n)) /\ Written(t, n + 1) = Expanded(Written(t, n))
    BY <2>1, WrittenSteps
  <2>4. Expanded(Written(s, n) \o Written(t, n)) = Expanded(Written(s, n)) \o Expanded(Written(t, n))
        /\ IsSeq(Expanded(Written(s, n))) /\ IsSeq(Expanded(Written(t, n)))
    BY <2>2, ExpandedJoin
  <2>5. Written(s \o t, n + 1) = Written(s, n + 1) \o Written(t, n + 1)
    BY <2>2, <2>3, <2>4
  <2>6. ItemSeq(Written(s \o t, n + 1))
    BY <2>1 DEF Deep
  <2>7. IsSeq(Written(s, n + 1)) /\ IsSeq(Written(t, n + 1))
    BY <2>3, <2>4
  <2>8. ItemSeq(Written(s, n + 1)) /\ ItemSeq(Written(t, n + 1))
    <3>1. PICK a, b : a = Written(s, n + 1) /\ b = Written(t, n + 1)
      OBVIOUS
    <3>2. IsSeq(a) /\ IsSeq(b) /\ ItemSeq(a \o b)
      BY <2>5, <2>6, <2>7, <3>1
    <3>3. ItemSeq(a) /\ ItemSeq(b)
      BY ONLY <3>2, ItemSeqJoin
    <3>4. QED
      BY <3>1, <3>3
  <2>9. QED
    BY <2>1, <2>5, <2>8
<1>3. T = Nat
  <2> HIDE DEF T
  <2>1. T \in SUBSET Nat
    BY DEF T
  <2>2. QED
    BY <2>1, <1>1, <1>2, Numbers!SetInductionOnNat
<1>4. QED
  BY <1>3 DEF Deep

\* Tokens stay as they are.
AllTokens(items) == IsSeq(items) /\ \A i \in 1..Len(items) : items[i].t = "token" /\ WellFormed(items[i])

LEMMA TokenIs ==
  ASSUME NEW x, WellFormed(x), x.t = "token"
  PROVE  x = Item(x.of[1]) /\ x.of[1] \in Tokens /\ Unwrapped(x) = <<x>>
<1>1. x.of[1] \in Tokens /\ Len(x.of) = 1 /\ x.of = [i \in 1..1 |-> x.of[i]]
  BY DEF WellFormed, LeafTypes
<1>2. x.of = <<x.of[1]>>
  <2>1. [i \in 1..1 |-> x.of[i]] = <<x.of[1]>>
    OBVIOUS
  <2>2. QED
    BY <1>1, <2>1
<1>3. x = Obj(x.t, x.of)
  BY UnwrappedIs
<1>4. x = Item(x.of[1])
  BY <1>2, <1>3 DEF Item
<1>5. QED
  BY <1>1, <1>4, UnwrappedIs

LEMMA TokensStay ==
  ASSUME NEW items, AllTokens(items)
  PROVE  /\ Expanded(items) = items
         /\ \A n \in Nat : Written(items, n) = items
         /\ Deep(items)
<1>1. ItemSeq(items) /\ IsSeq(items) /\ Len(items) \in Nat
  BY SeqFacts DEF AllTokens, ItemSeq
<1> DEFINE head(n) == SubSeq(items, 1, n)
           T == {n \in Nat : n <= Len(items) => Expanded(head(n)) = head(n)}
<1>2. ASSUME NEW n \in 0..Len(items) PROVE ItemSeq(head(n)) /\ IsSeq(head(n)) /\ Len(head(n)) = n
                                           /\ \A i \in 1..n : head(n)[i] = items[i]
  <2>1. IsSeq(head(n)) /\ Len(head(n)) = n /\ \A i \in 1..n : head(n)[i] = items[i]
    BY <1>1, CutFacts
  <2>2. 1..n \subseteq 1..Len(items)
    BY <1>1
  <2>3. QED
    BY <1>1, <2>1, <2>2 DEF ItemSeq
<1>3. 0 \in T
  <2>1. Same(head(0), <<>>) /\ IsSeq(head(0))
    BY <1>1, <1>2, NoneFacts DEF Same
  <2>2. head(0) = <<>>
    BY <2>1, NoneFacts, SameIsEqual
  <2>3. QED
    BY <2>2, ExpandedNone
<1>4. ASSUME NEW n \in T PROVE n + 1 \in T
  <2>1. n \in Nat
    OBVIOUS
  <2>2. ASSUME n + 1 <= Len(items) PROVE Expanded(head(n + 1)) = head(n + 1)
    <3>1. n \in 0..Len(items) /\ n + 1 \in 0..Len(items) /\ n <= Len(items) /\ n + 1 \in 1..Len(items)
      BY <1>1, <2>1, <2>2
    <3>2. head(n + 1) = Append(head(n), items[n + 1])
      <4>1. /\ IsSeq(head(n)) /\ Len(head(n)) = n /\ (\A i \in 1..n : head(n)[i] = items[i])
            /\ IsSeq(head(n + 1)) /\ Len(head(n + 1)) = n + 1
            /\ \A i \in 1..(n + 1) : head(n + 1)[i] = items[i]
        BY <1>2, <3>1
      <4> HIDE DEF head
      <4>2. PICK x : x = items[n + 1]
        OBVIOUS
      <4>3. LET m == Append(head(n), x) IN
              /\ IsSeq(m) /\ Len(m) = Len(head(n)) + 1
              /\ (\A i \in 1..Len(head(n)) : m[i] = head(n)[i]) /\ m[Len(head(n)) + 1] = x
        <5>1. PICK h, r, k : h = head(n) /\ r = Append(h, x) /\ k = Len(h)
          OBVIOUS
        <5>2. Grown(h, x, r, k)
          <6>1. Grows(h, x, r, k)
            BY <4>1, <5>1 DEF Grows
          <6>2. QED
            BY ONLY <6>1, Appended
        <5>3. QED
          BY <5>1, <5>2 DEF Grown
      <4>4. Same(head(n + 1), Append(head(n), x))
        BY <2>1, <4>1, <4>2, <4>3 DEF Same
      <4>5. head(n + 1) = Append(head(n), x)
        BY <4>1, <4>3, <4>4, SameIsEqual
      <4>6. QED
        BY <4>2, <4>5
    <3>3. Expanded(head(n)) = head(n) /\ ItemSeq(head(n)) /\ IsSeq(head(n))
      BY <1>2, <3>1
    <3>4. items[n + 1].t = "token" /\ WellFormed(items[n + 1])
      BY <3>1 DEF AllTokens
    <3>5. Unwrapped(items[n + 1]) = <<items[n + 1]>>
      BY <3>4, TokenIs
    <3> HIDE DEF head
    <3>6. Expanded(head(n + 1)) = head(n) \o <<items[n + 1]>>
      BY <3>2, <3>3, <3>4, <3>5, ExpandedAppend
    <3>7. \A x : Append(head(n), x) = head(n) \o <<x>>
      BY <3>3, AppendIs
    <3>8. QED
      BY <3>2, <3>6, <3>7
  <2>3. QED
    BY <2>1, <2>2
<1>5. T = Nat
  <2> HIDE DEF T
  <2>1. T \in SUBSET Nat
    BY DEF T
  <2>2. QED
    BY <2>1, <1>3, <1>4, Numbers!SetInductionOnNat
<1>6. head(Len(items)) = items
  <2>1. Same(head(Len(items)), items) /\ IsSeq(head(Len(items)))
    BY <1>1, <1>2 DEF Same
  <2>2. QED
    BY <1>1, <2>1, SameIsEqual
<1>7. Len(items) \in T
  BY <1>1, <1>5
<1>8. Expanded(items) = items
  <2>1. Expanded(head(Len(items))) = head(Len(items))
    BY <1>1, <1>7
  <2> HIDE DEF head
  <2>2. QED
    BY <1>6, <2>1
<1> HIDE DEF head, T
<1> DEFINE R == {n \in Nat : Written(items, n) = items}
<1>9. 0 \in R
  BY WrittenSteps
<1>10. ASSUME NEW n \in R PROVE n + 1 \in R
  <2>1. n \in Nat /\ Written(items, n) = items
    OBVIOUS
  <2>2. Written(items, n + 1) = Expanded(Written(items, n))
    BY <2>1, WrittenSteps
  <2>3. QED
    BY <1>8, <2>1, <2>2
<1>11. R = Nat
  <2> HIDE DEF R
  <2>1. R \in SUBSET Nat
    BY DEF R
  <2>2. QED
    BY <2>1, <1>9, <1>10, Numbers!SetInductionOnNat
<1>12. \A n \in Nat : Written(items, n) = items
  BY <1>11
<1>13. QED
  BY <1>1, <1>8, <1>12 DEF Deep

LEMMA DeepOne ==
  ASSUME NEW x, WellFormed(x)
  PROVE  /\ Deep(<<x>>) <=> Deep(Unwrapped(x))
         /\ \A n \in Nat : Written(<<x>>, n + 1) = Written(Unwrapped(x), n)
<1>1. \A n \in Nat : Written(<<x>>, n + 1) = Written(Unwrapped(x), n)
  BY WrittenFirst, ExpandedOne
<1>2. ItemSeq(Written(<<x>>, 0))
  <2>1. Written(<<x>>, 0) = <<x>>
    BY WrittenSteps
  <2>2. QED
    BY <2>1, ItemSeqOne
<1>3. ASSUME Deep(<<x>>) PROVE Deep(Unwrapped(x))
  BY <1>1, <1>3 DEF Deep
<1>4. ASSUME Deep(Unwrapped(x)), NEW n \in Nat PROVE ItemSeq(Written(<<x>>, n))
  <2>1. CASE n = 0
    BY <1>2, <2>1
  <2>2. CASE n # 0
    <3>1. n - 1 \in Nat /\ n = (n - 1) + 1
      BY <2>2
    <3>2. Written(<<x>>, n) = Written(Unwrapped(x), n - 1)
      BY <1>1, <3>1
    <3>3. QED
      BY <1>4, <3>1, <3>2 DEF Deep
  <2>3. QED
    BY <2>1, <2>2
<1>5. QED
  BY <1>1, <1>3, <1>4 DEF Deep

\* With one more token read, what stands behind the first items has become one item.
LEMMA OneMore ==
  ASSUME NEW front, NEW mid, NEW x, NEW tok \in Tokens, NEW n \in Nat,
         IsSeq(front), IsSeq(mid), WellFormed(x), Unwrapped(x) = mid \o <<Item(tok)>>,
         Deep(front \o mid), AllTokens(Written(front \o mid, n))
  PROVE  /\ Deep(Append(front, x))
         /\ Written(Append(front, x), n + 1) = Append(Written(front \o mid, n), Item(tok))
         /\ AllTokens(Written(Append(front, x), n + 1))
<1>1. Deep(front) /\ Deep(mid)
  BY DeepParts
<1> DEFINE one == <<Item(tok)>>
<1>2. WellFormed(Item(tok)) /\ Item(tok).t = "token"
  <2>1. <<tok>> = [i \in 1..1 |-> <<tok>>[i]] /\ Len(<<tok>>) = 1 /\ <<tok>>[1] = tok
    OBVIOUS
  <2>2. QED
    BY <2>1 DEF WellFormed, Item, Obj
<1>3. AllTokens(one)
  <2>1. IsSeq(one) /\ Len(one) = 1 /\ one[1] = Item(tok) /\ \A i \in 1..1 : i = 1
    BY OneFacts
  <2>2. QED
    BY <1>2, <2>1 DEF AllTokens
<1> HIDE DEF one
<1>4. Deep(one) /\ \A k \in Nat : Written(one, k) = one
  BY <1>3, TokensStay
<1>5. Deep(mid \o one) /\ Written(mid \o one, n) = Written(mid, n) \o one
  <2>1. Deep(mid) /\ Deep(one)
    BY <1>1, <1>4
  <2>2. Deep(mid \o one)
    BY ONLY <2>1, DeepJoin
  <2>3. \A k \in Nat : Written(mid \o one, k) = Written(mid, k) \o Written(one, k)
    BY ONLY <2>1, WrittenJoin
  <2>4. QED
    BY <1>4, <2>2, <2>3
<1>6. Deep(<<x>>) /\ Written(<<x>>, n + 1) = Written(mid, n) \o one
  <2>1. Unwrapped(x) = mid \o one
    BY DEF one
  <2>2. QED
    BY <1>5, <2>1, DeepOne
<1>7. Append(front, x) = front \o <<x>>
  BY AppendIs
<1>8. Deep(Append(front, x))
  BY <1>1, <1>6, <1>7, DeepJoin
<1>9. n + 1 \in Nat
  OBVIOUS
<1>10. Written(Append(front, x), n + 1) = Written(front, n + 1) \o Written(<<x>>, n + 1)
  <2>1. PICK xs : xs = <<x>>
    OBVIOUS
  <2>2. Deep(front) /\ Deep(xs)
    BY <1>1, <1>6, <2>1
  <2>3. \A k \in Nat : Written(front \o xs, k) = Written(front, k) \o Written(xs, k)
    BY ONLY <2>2, WrittenJoin
  <2>4. QED
    BY <1>7, <1>9, <2>1, <2>3
<1>11. Written(front \o mid, n) = Written(front, n) \o Written(mid, n)
  BY <1>1, WrittenJoin
<1>12. PICK a, b : a = Written(front, n) /\ b = Written(mid, n)
  OBVIOUS
<1>13. IsSeq(a) /\ IsSeq(b) /\ IsSeq(one)
  <2>1. ItemSeq(a) /\ ItemSeq(b)
    BY <1>1, <1>12 DEF Deep
  <2>2. QED
    BY <1>3, <2>1 DEF ItemSeq, AllTokens
<1>14. AllTokens(a \o b)
  BY <1>11, <1>12
<1>15. AllTokens(a)
  <2>1. /\ Len(a \o b) = Len(a) + Len(b) /\ \A i \in 1..Len(a) : (a \o b)[i] = a[i]
    BY <1>13, JoinFacts
  <2>2. Len(a) \in Nat /\ Len(b) \in Nat
    BY <1>13, SeqFacts
  <2>3. \A i \in 1..Len(a) : i \in 1..Len(a \o b)
    BY <2>1, <2>2
  <2>4. QED
    BY <1>13, <1>14, <2>1, <2>3 DEF AllTokens
<1>16. Written(front, n + 1) = a
  <2>1. Written(front, n + 1) = Expanded(a)
    BY <1>12, WrittenSteps
  <2>2. QED
    BY <1>15, <2>1, TokensStay
<1>17. Written(Append(front, x), n + 1) = (a \o b) \o one
  <2>1. PICK d : d = one
    OBVIOUS
  <2>2. IsSeq(a) /\ IsSeq(b) /\ IsSeq(d)
    BY <1>13, <2>1
  <2>3. Assoc(a, b, d)
    BY ONLY <2>2, JoinAssoc
  <2>4. (a \o b) \o one = a \o (b \o one)
    BY ONLY <2>1, <2>3 DEF Assoc
  <2>5. QED
    BY <1>6, <1>10, <1>12, <1>16, <2>4
<1>18. IsSeq(a \o b)
  BY <1>14 DEF AllTokens
<1>19. PICK ab : ab = a \o b
  OBVIOUS
<1>20. IsSeq(ab) /\ AllTokens(ab)
  BY <1>14, <1>18, <1>19
<1>21. Append(ab, Item(tok)) = ab \o one /\ AllTokens(Append(ab, Item(tok)))
  <2>1. PICK y : y = Item(tok)
    OBVIOUS
  <2>2. LET m == Append(ab, y) IN /\ m = ab \o <<y>> /\ IsSeq(m) /\ Len(m) = Len(ab) + 1
          /\ (\A i \in 1..Len(ab) : m[i] = ab[i]) /\ m[Len(ab) + 1] = y
    BY <1>20, AppendIs
  <2>3. Len(ab) \in Nat
    BY <1>20, SeqFacts
  <2>4. \A i \in 1..(Len(ab) + 1) : i \in 1..Len(ab) \/ i = Len(ab) + 1
    BY <2>3
  <2>5. AllTokens(Append(ab, y))
    BY <1>2, <1>20, <2>1, <2>2, <2>4 DEF AllTokens
  <2>6. QED
    BY <2>1, <2>2, <2>5 DEF one
<1>22. QED
  BY <1>8, <1>11, <1>12, <1>17, <1>19, <1>21

-----------------------------------------------------------------------------
(* The parser as a function, where it reports no error, on the items of a   *)
(* text that is not fully written: an object is pushed as it is.            *)

State(ok, syms, pos, outer) == [ok |-> ok, syms |-> syms, pos |-> pos, outer |-> outer]

IsState(c) ==
  /\ c = State(c.ok, c.syms, c.pos, c.outer)
  /\ c.ok \in {"ok", "stuck"} /\ IsSeq(c.syms) /\ c.pos \in Nat /\ c.outer \in Seq(Nat)

Stuck(c) == State("stuck", c.syms, c.pos, c.outer)
Pushing(c, sym) == State("ok", Append(c.syms, sym), c.pos, c.outer)
Replacing(c, k, obj) ==
  State("ok", Append(SubSeq(c.syms, 1, Len(c.syms) - k), NonTerm(obj)), c.pos, c.outer)

Opened(c, tok) == State("ok", Append(c.syms, Term(tok, TRUE)), Len(c.syms), Append(c.outer, c.pos))

BodyOf(c) == SubSeq(c.syms, c.pos + 2, Len(c.syms))
Closable(c, tok) ==
  /\ Len(c.outer) >= 1 /\ c.pos < Len(c.syms)
  /\ c.syms[c.pos + 1] = Term(Opening(tok), TRUE)
  /\ \A i \in 1..Len(BodyOf(c)) : IsObj(BodyOf(c)[i])
  /\ tok = ">" => /\ Len(BodyOf(c)) % 2 = 0
                  /\ \A i \in 1..Len(BodyOf(c)) : i % 2 = 1 => IsName(BodyOf(c)[i])
Closed(c, tok) ==
  State("ok",
        Append(SubSeq(c.syms, 1, c.pos),
               NonTerm(Obj(TypeOf(tok), [i \in 1..Len(BodyOf(c)) |-> BodyOf(c)[i].obj]))),
        Last(c.outer), Front(c.outer))

Refers(c) ==
  LET n == Len(c.syms) IN n >= 2 /\ IsInt(c.syms[n - 1]) /\ IsInt(c.syms[n])
RefOf(c) ==
  LET n == Len(c.syms) IN Obj("ref", <<c.syms[n - 1].obj, c.syms[n].obj>>)

EndsObj(c) ==
  LET n == Len(c.syms)
  IN  /\ n >= 4 /\ IsInt(c.syms[n - 3]) /\ IsInt(c.syms[n - 2]) /\ IsObj(c.syms[n])
      /\ c.syms[n - 1] = Term("obj", FALSE)
IndOf(c) ==
  LET n == Len(c.syms) IN Obj("ind", <<c.syms[n - 3].obj, c.syms[n - 2].obj, c.syms[n].obj>>)

AfterToken(c, tok) ==
  IF tok \in Leaves THEN Pushing(c, NonTerm(Leaf(tok)))
  ELSE IF tok = "obj" THEN Pushing(c, Term(tok, FALSE))
  ELSE IF tok \in {"[", "<"} THEN Opened(c, tok)
  ELSE IF tok \in {"]", ">"} /\ Closable(c, tok) THEN Closed(c, tok)
  ELSE IF tok = "R" /\ Refers(c) THEN Replacing(c, 2, RefOf(c))
  ELSE IF tok = "endobj" /\ EndsObj(c) THEN Replacing(c, 4, IndOf(c))
  ELSE Stuck(c)

After(c, x) ==
  IF c.ok # "ok" THEN c
  ELSE IF x.t # "token" THEN Pushing(c, NonTerm(x)) ELSE AfterToken(c, x.of[1])

LEMMA StateFields ==
  ASSUME NEW ok, NEW syms, NEW pos, NEW outer
  PROVE  /\ State(ok, syms, pos, outer).ok = ok /\ State(ok, syms, pos, outer).syms = syms
         /\ State(ok, syms, pos, outer).pos = pos /\ State(ok, syms, pos, outer).outer = outer
BY DEF State

LEMMA StateIs ==
  ASSUME NEW ok \in {"ok", "stuck"}, NEW syms, NEW pos \in Nat, NEW outer \in Seq(Nat), IsSeq(syms)
  PROVE  IsState(State(ok, syms, pos, outer))
BY DEF State, IsState

LEMMA CutAppend ==
  ASSUME NEW s, NEW m, NEW x, IsSeq(s), m \in 0..Len(s)
  PROVE  IsSeq(Append(SubSeq(s, 1, m), x))
BY CutFacts, AppendIs

LEMMA AfterIsState ==
  ASSUME NEW c, NEW x, IsState(c), WellFormed(x)
  PROVE  IsState(After(c, x))
<1>1. /\ c.ok \in {"ok", "stuck"} /\ IsSeq(c.syms) /\ c.pos \in Nat /\ c.outer \in Seq(Nat) /\ Len(c.syms) \in Nat
      /\ Len(c.outer) \in Nat
  BY SeqFacts DEF IsState
<1>2. \A sym : IsState(Pushing(c, sym))
  <2>1. ASSUME NEW sym PROVE IsSeq(Append(c.syms, sym))
    BY <1>1, AppendIs
  <2>2. QED
    BY <1>1, <2>1, StateIs DEF Pushing
<1>3. ASSUME NEW k \in 0..Len(c.syms), NEW obj PROVE IsState(Replacing(c, k, obj))
  <2>1. Len(c.syms) - k \in 0..Len(c.syms)
    BY <1>1
  <2>2. IsSeq(Append(SubSeq(c.syms, 1, Len(c.syms) - k), NonTerm(obj)))
    BY <1>1, <2>1, CutAppend
  <2>3. QED
    BY <1>1, <2>2, StateIs DEF Replacing
<1>4. IsState(Stuck(c))
  BY <1>1, StateIs DEF Stuck
<1>5. \A tok : IsState(Opened(c, tok))
  <2>1. ASSUME NEW tok PROVE IsSeq(Append(c.syms, Term(tok, TRUE)))
    BY <1>1, AppendIs
  <2>2. Append(c.outer, c.pos) \in Seq(Nat)
    BY <1>1
  <2>3. QED
    BY <1>1, <2>1, <2>2, StateIs DEF Opened
<1>6. ASSUME NEW tok, Closable(c, tok) PROVE IsState(Closed(c, tok))
  <2>1. c.pos \in 0..Len(c.syms) /\ Len(c.outer) >= 1
    BY <1>1, <1>6 DEF Closable
  <2>2. Front(c.outer) \in Seq(Nat) /\ Last(c.outer) \in Nat
    <3>1. Len(c.outer) - 1 \in 0..Len(c.outer) /\ Len(c.outer) \in 1..Len(c.outer)
      BY <1>1, <2>1
    <3>2. PICK m \in 0..Len(c.outer) : m = Len(c.outer) - 1
      BY <3>1
    <3>3. SubSeq(c.outer, 1, m) \in Seq(Nat)
      BY <1>1
    <3>4. QED
      BY <1>1, <3>1, <3>2, <3>3 DEF Front, Last
  <2>3. IsSeq(Append(SubSeq(c.syms, 1, c.pos), NonTerm(Obj(TypeOf(tok), [i \in 1..Len(BodyOf(c)) |-> BodyOf(c)[i].obj]))))
    BY <1>1, <2>1, CutAppend
  <2>4. QED
    BY <2>2, <2>3, StateIs DEF Closed
<1>7. ASSUME NEW tok PROVE IsState(AfterToken(c, tok))
  <2>1. Refers(c) => 2 \in 0..Len(c.syms)
    BY <1>1 DEF Refers
  <2>2. EndsObj(c) => 4 \in 0..Len(c.syms)
    BY <1>1 DEF EndsObj
  <2>3. Refers(c) => IsState(Replacing(c, 2, RefOf(c)))
    BY <1>3, <2>1
  <2>4. EndsObj(c) => IsState(Replacing(c, 4, IndOf(c)))
    BY <1>3, <2>2
  <2>5. QED
    BY <1>2, <1>4, <1>5, <1>6, <2>3, <2>4 DEF AfterToken
<1>8. QED
  BY <1>2, <1>7 DEF After

-----------------------------------------------------------------------------
(* Runs of it                                                              *)

\* The states that it comes to from c with the first n items.
Runs(c, items, n, r) == r = [k \in 0..n |-> IF k = 0 THEN c ELSE After(r[k - 1], items[k])]
RanTo(c, items, n) == (CHOOSE r : Runs(c, items, n, r))[n]
Ran(c, items) == RanTo(c, items, Len(items))

LEMMA RunsExist ==
  ASSUME NEW c, NEW items, NEW n \in Nat
  PROVE  \E r : Runs(c, items, n, r) /\ RanTo(c, items, n) = r[n]
<1> DEFINE Next1(w, k) == IF k = 0 THEN c ELSE After(w[k - 1], items[k])
           T == {m \in Nat : \E w : w = [k \in 0..m |-> Next1(w, k)]}
<1>1. 0 \in T
  <2> DEFINE w == [k \in 0..0 |-> c]
  <2>1. w = [k \in 0..0 |-> Next1(w, k)]
    OBVIOUS
  <2> HIDE DEF w, Next1
  <2>2. QED
    BY <2>1
<1>2. ASSUME NEW m \in T PROVE m + 1 \in T
  <2>1. m \in Nat
    OBVIOUS
  <2>2. PICK w : w = [k \in 0..m |-> Next1(w, k)]
    OBVIOUS
  <2> DEFINE v == [k \in 0..(m + 1) |-> IF k <= m THEN w[k] ELSE After(w[m], items[m + 1])]
  <2>3. ASSUME NEW k \in 0..(m + 1) PROVE v[k] = Next1(v, k)
    <3>1. CASE k = m + 1
      <4>1. v[k] = After(w[m], items[k]) /\ v[k - 1] = w[m] /\ k # 0
        BY <3>1, <2>1
      <4>2. QED
        BY <4>1
    <3>2. CASE k \in 0..m
      <4>1. v[k] = w[k] /\ (k # 0 => v[k - 1] = w[k - 1])
        BY <3>2, <2>1
      <4>2. w[k] = Next1(w, k)
        BY <3>2, <2>2
      <4>3. QED
        BY <4>1, <4>2
    <3>3. QED
      BY <3>1, <3>2, <2>1
  <2>4. v = [k \in 0..(m + 1) |-> v[k]]
    OBVIOUS
  <2> HIDE DEF v, Next1
  <2>5. v = [k \in 0..(m + 1) |-> Next1(v, k)]
    BY <2>3, <2>4
  <2>6. QED
    BY <2>1, <2>5
<1>3. T = Nat
  <2> HIDE DEF T
  <2>1. T \in SUBSET Nat
    BY DEF T
  <2>2. QED
    BY <2>1, <1>1, <1>2, Numbers!SetInductionOnNat
<1>4. \E r : Runs(c, items, n, r)
  BY <1>3 DEF Runs
<1>5. QED
  BY <1>4 DEF RanTo

\* The same items at the beginning.
SameTo(s, t, n) == \A k \in 1..n : s[k] = t[k]

\* The states depend on the items that were read only.
LEMMA RunsAgree ==
  ASSUME NEW c, NEW s, NEW t, NEW n \in Nat, NEW m \in Nat, NEW w, NEW v,
         Runs(c, s, n, w), Runs(c, t, m, v), n <= m, SameTo(s, t, n)
  PROVE  \A k \in 0..n : w[k] = v[k]
<1> DEFINE T == {k \in Nat : k <= n => w[k] = v[k]}
<1>1. /\ \A k \in 0..n : w[k] = IF k = 0 THEN c ELSE After(w[k - 1], s[k])
      /\ \A k \in 0..m : v[k] = IF k = 0 THEN c ELSE After(v[k - 1], t[k])
  BY DEF Runs
<1>2. 0 \in T
  BY <1>1
<1>3. ASSUME NEW k \in T PROVE k + 1 \in T
  <2>1. ASSUME k + 1 <= n PROVE w[k + 1] = v[k + 1]
    <3>1. k \in Nat /\ k <= n /\ k + 1 \in 0..n /\ k + 1 \in 0..m /\ k + 1 # 0 /\ (k + 1) - 1 = k /\ k + 1 \in 1..n
      BY <2>1
    <3>2. w[k] = v[k] /\ s[k + 1] = t[k + 1]
      BY <3>1 DEF SameTo
    <3>3. QED
      BY <1>1, <3>1, <3>2
  <2>2. QED
    BY <2>1
<1>4. T = Nat
  <2> HIDE DEF T
  <2>1. T \in SUBSET Nat
    BY DEF T
  <2>2. QED
    BY <2>1, <1>2, <1>3, Numbers!SetInductionOnNat
<1>5. QED
  BY <1>4

LEMMA RanLocal ==
  ASSUME NEW c, NEW s, NEW t, NEW n \in Nat, SameTo(s, t, n)
  PROVE  RanTo(c, s, n) = RanTo(c, t, n)
<1>1. PICK w : Runs(c, s, n, w) /\ RanTo(c, s, n) = w[n]
  BY RunsExist
<1>2. PICK v : Runs(c, t, n, v) /\ RanTo(c, t, n) = v[n]
  BY RunsExist
<1>3. n <= n
  OBVIOUS
<1>4. \A k \in 0..n : w[k] = v[k]
  BY <1>1, <1>2, <1>3, RunsAgree
<1>5. QED
  BY <1>1, <1>2, <1>4

LEMMA RanSteps ==
  ASSUME NEW c, NEW items, NEW n \in Nat
  PROVE  /\ RanTo(c, items, 0) = c
         /\ RanTo(c, items, n + 1) = After(RanTo(c, items, n), items[n + 1])
<1>1. PICK w : Runs(c, items, n, w) /\ RanTo(c, items, n) = w[n]
  BY RunsExist
<1>2. PICK v : Runs(c, items, n + 1, v) /\ RanTo(c, items, n + 1) = v[n + 1]
  BY RunsExist
<1>3. PICK u : Runs(c, items, 0, u) /\ RanTo(c, items, 0) = u[0]
  BY RunsExist
<1>4. u[0] = c
  BY <1>3 DEF Runs
<1>5. v[n + 1] = After(v[n], items[n + 1])
  <2>1. n + 1 \in 0..(n + 1) /\ n + 1 # 0 /\ (n + 1) - 1 = n
    OBVIOUS
  <2>2. v[n + 1] = After(v[(n + 1) - 1], items[n + 1])
    BY <1>2, <2>1 DEF Runs
  <2>3. QED
    BY <2>1, <2>2
<1>6. w[n] = v[n]
  <2>1. n <= n + 1 /\ n + 1 \in Nat /\ SameTo(items, items, n)
    BY DEF SameTo
  <2>2. \A k \in 0..n : w[k] = v[k]
    BY <1>1, <1>2, <2>1, RunsAgree
  <2>3. QED
    BY <2>2
<1>7. QED
  BY <1>1, <1>2, <1>3, <1>4, <1>5, <1>6

LEMMA RanJoin ==
  ASSUME NEW c, NEW s, NEW t, IsSeq(s), IsSeq(t)
  PROVE  /\ Ran(c, <<>>) = c
         /\ \A k \in 0..Len(t) : RanTo(c, s \o t, Len(s) + k) = RanTo(Ran(c, s), t, k)
         /\ Ran(c, s \o t) = Ran(Ran(c, s), t)
<1>1. /\ Len(s) \in Nat /\ Len(t) \in Nat /\ Len(s \o t) = Len(s) + Len(t)
      /\ \A i \in 1..Len(s) : (s \o t)[i] = s[i]
      /\ \A i \in 1..Len(t) : (s \o t)[Len(s) + i] = t[i]
  BY SeqFacts, JoinFacts
<1>2. Ran(c, <<>>) = c
  BY RanSteps, NoneFacts DEF Ran
<1> DEFINE T == {k \in Nat : k <= Len(t) => RanTo(c, s \o t, Len(s) + k) = RanTo(Ran(c, s), t, k)}
<1>3. 0 \in T
  <2>1. SameTo(s \o t, s, Len(s))
    BY <1>1 DEF SameTo
  <2>2. RanTo(c, s \o t, Len(s)) = RanTo(c, s, Len(s))
    BY <1>1, <2>1, RanLocal
  <2>3. Len(s) + 0 = Len(s)
    BY <1>1
  <2>4. RanTo(Ran(c, s), t, 0) = Ran(c, s)
    BY RanSteps
  <2>5. QED
    BY <2>2, <2>3, <2>4 DEF Ran
<1>4. ASSUME NEW k \in T PROVE k + 1 \in T
  <2>1. ASSUME k + 1 <= Len(t) PROVE RanTo(c, s \o t, Len(s) + (k + 1)) = RanTo(Ran(c, s), t, k + 1)
    <3>1. k \in Nat /\ k <= Len(t) /\ k + 1 \in 1..Len(t) /\ Len(s) + k \in Nat /\ Len(s) + (k + 1) = (Len(s) + k) + 1
      BY <1>1, <2>1
    <3>2. RanTo(c, s \o t, (Len(s) + k) + 1) = After(RanTo(c, s \o t, Len(s) + k), (s \o t)[(Len(s) + k) + 1])
      <4>1. PICK u, j : u = s \o t /\ j = Len(s) + k
        OBVIOUS
      <4>2. j \in Nat
        BY <3>1, <4>1
      <4>3. RanTo(c, u, j + 1) = After(RanTo(c, u, j), u[j + 1])
        BY ONLY <4>2, RanSteps
      <4>4. QED
        BY <4>1, <4>3
    <3>3. RanTo(Ran(c, s), t, k + 1) = After(RanTo(Ran(c, s), t, k), t[k + 1])
      BY <3>1, RanSteps
    <3>4. (s \o t)[Len(s) + (k + 1)] = t[k + 1]
      BY <1>1, <3>1
    <3>5. RanTo(c, s \o t, Len(s) + k) = RanTo(Ran(c, s), t, k)
      BY <3>1
    <3>6. QED
      BY <3>1, <3>2, <3>3, <3>4, <3>5
  <2>2. QED
    BY <2>1
<1>5. T = Nat
  <2> HIDE DEF T
  <2>1. T \in SUBSET Nat
    BY DEF T
  <2>2. QED
    BY <2>1, <1>3, <1>4, Numbers!SetInductionOnNat
<1>6. \A k \in 0..Len(t) : RanTo(c, s \o t, Len(s) + k) = RanTo(Ran(c, s), t, k)
  BY <1>1, <1>5
<1>7. Ran(c, s \o t) = Ran(Ran(c, s), t)
  <2>1. Len(t) \in 0..Len(t)
    BY <1>1
  <2>2. RanTo(c, s \o t, Len(s) + Len(t)) = RanTo(Ran(c, s), t, Len(t))
    BY <1>6, <2>1
  <2>3. QED
    BY <1>1, <2>2 DEF Ran
<1>8. QED
  BY <1>2, <1>6, <1>7

LEMMA RanOne == ASSUME NEW c, NEW x PROVE Ran(c, <<x>>) = After(c, x)
<1>1. Len(<<x>>) = 0 + 1 /\ <<x>>[0 + 1] = x
  BY OneFacts
<1>2. RanTo(c, <<x>>, 0 + 1) = After(RanTo(c, <<x>>, 0), <<x>>[0 + 1]) /\ RanTo(c, <<x>>, 0) = c
  BY RanSteps
<1>3. QED
  BY <1>1, <1>2 DEF Ran

LEMMA RanIsState ==
  ASSUME NEW c, NEW items, IsState(c), ItemSeq(items)
  PROVE  \A n \in 0..Len(items) : IsState(RanTo(c, items, n))
<1> DEFINE T == {n \in Nat : n <= Len(items) => IsState(RanTo(c, items, n))}
<1>1. Len(items) \in Nat
  BY SeqFacts DEF ItemSeq
<1>2. 0 \in T
  BY RanSteps
<1>3. ASSUME NEW n \in T PROVE n + 1 \in T
  <2>1. ASSUME n + 1 <= Len(items) PROVE IsState(RanTo(c, items, n + 1))
    <3>1. n \in Nat /\ n <= Len(items) /\ n + 1 \in 1..Len(items)
      BY <1>1, <2>1
    <3>2. IsState(RanTo(c, items, n)) /\ WellFormed(items[n + 1])
      BY <3>1 DEF ItemSeq
    <3>3. RanTo(c, items, n + 1) = After(RanTo(c, items, n), items[n + 1])
      BY <3>1, RanSteps
    <3>4. QED
      BY <3>2, <3>3, AfterIsState
  <2>2. QED
    BY <2>1
<1>4. T = Nat
  <2> HIDE DEF T
  <2>1. T \in SUBSET Nat
    BY DEF T
  <2>2. QED
    BY <2>1, <1>2, <1>3, Numbers!SetInductionOnNat
<1>5. QED
  BY <1>1, <1>4

\* After an error nothing follows.
LEMMA StaysStuck ==
  ASSUME NEW c, NEW items, NEW n \in Nat, RanTo(c, items, n).ok # "ok"
  PROVE  \A k \in Nat : RanTo(c, items, n + k) = RanTo(c, items, n)
<1> DEFINE T == {k \in Nat : RanTo(c, items, n + k) = RanTo(c, items, n)}
<1>1. 0 \in T
  OBVIOUS
<1>2. ASSUME NEW k \in T PROVE k + 1 \in T
  <2>1. k \in Nat /\ n + k \in Nat /\ n + (k + 1) = (n + k) + 1 /\ k + 1 \in Nat
    OBVIOUS
  <2>2. RanTo(c, items, n + k) = RanTo(c, items, n)
    OBVIOUS
  <2>3. RanTo(c, items, (n + k) + 1) = After(RanTo(c, items, n + k), items[(n + k) + 1])
    BY <2>1, RanSteps
  <2>4. RanTo(c, items, (n + k) + 1) = RanTo(c, items, n)
    BY <2>2, <2>3 DEF After
  <2>5. QED
    BY <2>1, <2>4
<1>3. T = Nat
  <2> HIDE DEF T
  <2>1. T \in SUBSET Nat
    BY DEF T
  <2>2. QED
    BY <2>1, <1>1, <1>2, Numbers!SetInductionOnNat
<1>4. QED
  BY <1>3

-----------------------------------------------------------------------------
(* Reading the text of an object does what pushing the object does.         *)

NonTerms(objs) == [i \in 1..Len(objs) |-> NonTerm(objs[i])]

LEMMA NonTermsIs ==
  ASSUME NEW objs, IsSeq(objs)
  PROVE  /\ IsSeq(NonTerms(objs)) /\ Len(NonTerms(objs)) = Len(objs)
         /\ \A i \in 1..Len(objs) : NonTerms(objs)[i] = NonTerm(objs[i])
<1>1. Len(objs) \in Nat
  BY SeqFacts
<1>2. PICK n, f : n = Len(objs) /\ f = NonTerms(objs)
  OBVIOUS
<1>3. n \in Nat /\ f = [i \in 1..n |-> f[i]] /\ \A i \in 1..n : f[i] = NonTerm(objs[i])
  BY <1>1, <1>2 DEF NonTerms
<1>4. IsSeq(f) /\ Len(f) = n
  BY <1>3, FnIsSeq
<1>5. QED
  BY <1>2, <1>3, <1>4

LEMMA NonTermFields ==
  ASSUME NEW obj
  PROVE  NonTerm(obj).obj = obj /\ IsObj(NonTerm(obj)) /\ (obj.t = "int" => IsInt(NonTerm(obj)))
         /\ (obj.t = "name" => IsName(NonTerm(obj)))
BY DEF NonTerm, IsObj, IsInt, IsName

LEMMA PushAll ==
  ASSUME NEW c, NEW objs, IsState(c), c.ok = "ok", IsSeq(objs), \A i \in 1..Len(objs) : objs[i].t # "token"
  PROVE  Ran(c, objs) = State("ok", c.syms \o NonTerms(objs), c.pos, c.outer)
<1>1. Len(objs) \in Nat /\ IsSeq(c.syms) /\ c = State("ok", c.syms, c.pos, c.outer)
  BY SeqFacts DEF IsState
<1>2. PICK nt : nt = NonTerms(objs)
  OBVIOUS
<1>3. IsSeq(nt) /\ Len(nt) = Len(objs) /\ \A i \in 1..Len(objs) : nt[i] = NonTerm(objs[i])
  BY <1>2, NonTermsIs
<1> DEFINE T == {m \in Nat : m <= Len(objs) => RanTo(c, objs, m) = State("ok", c.syms \o SubSeq(nt, 1, m), c.pos, c.outer)}
<1>4. 0 \in T
  <2>1. PICK z : z = SubSeq(nt, 1, 0)
    OBVIOUS
  <2>2. 0 \in 0..Len(nt)
    BY <1>1, <1>3
  <2>3. IsSeq(z) /\ Len(z) = 0
    BY <1>3, <2>1, <2>2, CutFacts
  <2>4. Same(z, <<>>)
    BY <2>3, NoneFacts DEF Same
  <2>5. z = <<>>
    BY <2>3, <2>4, NoneFacts, SameIsEqual
  <2>6. State("ok", c.syms \o SubSeq(nt, 1, 0), c.pos, c.outer) = c
    BY <1>1, <2>1, <2>5, JoinNone
  <2>7. QED
    BY <2>6, RanSteps
<1>5. ASSUME NEW n \in T PROVE n + 1 \in T
  <2>1. ASSUME n + 1 <= Len(objs) PROVE RanTo(c, objs, n + 1) = State("ok", c.syms \o SubSeq(nt, 1, n + 1), c.pos, c.outer)
    <3>1. n \in Nat /\ n <= Len(objs) /\ n + 1 \in 1..Len(objs) /\ n \in 0..Len(nt) /\ n + 1 \in 0..Len(nt)
          /\ \A i \in 1..n : i \in 1..(n + 1) /\ i \in 1..Len(nt)
      BY <1>1, <1>3, <2>1
    <3>2. PICK a, b, y : a = SubSeq(nt, 1, n) /\ b = SubSeq(nt, 1, n + 1) /\ y = NonTerm(objs[n + 1])
      OBVIOUS
    <3>3. IsSeq(a) /\ Len(a) = n /\ \A i \in 1..n : a[i] = nt[i]
      BY <1>3, <3>1, <3>2, CutFacts
    <3>4. IsSeq(b) /\ Len(b) = n + 1 /\ \A i \in 1..(n + 1) : b[i] = nt[i]
      BY <1>3, <3>1, <3>2, CutFacts
    <3>5. /\ Append(a, y) = a \o <<y>> /\ IsSeq(Append(a, y)) /\ Len(Append(a, y)) = n + 1
          /\ (\A i \in 1..n : Append(a, y)[i] = a[i]) /\ Append(a, y)[n + 1] = y
      BY <3>3, AppendIs
    <3>6. b[n + 1] = y
      BY <1>3, <3>1, <3>2, <3>4
    <3>7. Same(Append(a, y), b)
      <4>1. \A i \in 1..(n + 1) : i \in 1..n \/ i = n + 1
        BY <3>1
      <4>2. QED
        BY <3>1, <3>3, <3>4, <3>5, <3>6, <4>1 DEF Same
    <3>8. b = a \o <<y>>
      BY <3>4, <3>5, <3>7, SameIsEqual
    <3>9. Append(c.syms \o a, y) = c.syms \o b
      <4>1. PICK s, o : s = c.syms /\ o = <<y>>
        OBVIOUS
      <4>2. IsSeq(s) /\ IsSeq(a) /\ IsSeq(o)
        BY <1>1, <3>3, <4>1, OneFacts
      <4>3. (s \o a) \o o = s \o (a \o o) /\ IsSeq(s \o a)
        <5>1. Assoc(s, a, o)
          BY ONLY <4>2, JoinAssoc
        <5>2. IsSeq(s \o a)
          BY ONLY <4>2, JoinFacts
        <5>3. QED
          BY ONLY <5>1, <5>2 DEF Assoc
      <4>4. PICK sa : sa = s \o a
        OBVIOUS
      <4>5. Append(sa, y) = sa \o <<y>>
        BY <4>3, <4>4, AppendIs
      <4>6. QED
        BY <3>8, <4>1, <4>3, <4>4, <4>5
    <3>10. PICK d : d = RanTo(c, objs, n)
      OBVIOUS
    <3>11. d = State("ok", c.syms \o a, c.pos, c.outer)
      BY <3>1, <3>2, <3>10
    <3>12. RanTo(c, objs, n + 1) = After(d, objs[n + 1])
      <4>1. RanTo(c, objs, n + 1) = After(RanTo(c, objs, n), objs[n + 1])
        BY ONLY <3>1, RanSteps
      <4>2. QED
        BY <3>10, <4>1
    <3>13. d.ok = "ok" /\ d.syms = c.syms \o a /\ d.pos = c.pos /\ d.outer = c.outer
      <4>1. PICK sa, p, o : sa = c.syms \o a /\ p = c.pos /\ o = c.outer
        OBVIOUS
      <4>2. d = State("ok", sa, p, o)
        BY <3>11, <4>1
      <4>3. d.ok = "ok" /\ d.syms = sa /\ d.pos = p /\ d.outer = o
        BY ONLY <4>2, StateFields
      <4>4. QED
        BY <4>1, <4>3
    <3>14. After(d, objs[n + 1]) = State("ok", Append(c.syms \o a, y), c.pos, c.outer)
      <4>1. objs[n + 1].t # "token"
        BY <3>1
      <4>2. After(d, objs[n + 1]) = Pushing(d, y)
        BY <3>2, <3>13, <4>1 DEF After
      <4>3. QED
        BY <3>13, <4>2 DEF Pushing
    <3>15. State("ok", c.syms \o SubSeq(nt, 1, n + 1), c.pos, c.outer) = State("ok", c.syms \o b, c.pos, c.outer)
      BY <3>2
    <3>16. QED
      BY <3>9, <3>12, <3>14, <3>15
  <2>2. QED
    BY <2>1
<1>6. T = Nat
  <2> HIDE DEF T
  <2>1. T \in SUBSET Nat
    BY DEF T
  <2>2. 0 \in T
    BY <1>4
  <2>3. \A n \in T : n + 1 \in T
    BY <1>5
  <2>4. QED
    BY ONLY <2>1, <2>2, <2>3, Numbers!SetInductionOnNat
<1>7. Ran(c, objs) = State("ok", c.syms \o SubSeq(nt, 1, Len(objs)), c.pos, c.outer)
  BY <1>1, <1>6 DEF Ran
<1>8. SubSeq(nt, 1, Len(objs)) = nt
  <2>1. PICK m : m = Len(objs)
    OBVIOUS
  <2>2. m \in 0..Len(nt) /\ m = Len(nt)
    BY <1>1, <1>3, <2>1
  <2>3. IsSeq(SubSeq(nt, 1, m)) /\ Len(SubSeq(nt, 1, m)) = m /\ \A i \in 1..m : SubSeq(nt, 1, m)[i] = nt[i]
    BY <1>3, <2>2, CutFacts
  <2>4. Same(SubSeq(nt, 1, m), nt)
    BY <2>2, <2>3 DEF Same
  <2>5. QED
    BY <1>3, <2>1, <2>3, <2>4, SameIsEqual
<1>9. QED
  BY <1>2, <1>7, <1>8

Kind(open, close) == open = Opening(close) /\ close \in {"]", ">"}

\* What a dictionary may hold.
InTurn(objs) == Len(objs) % 2 = 0 /\ \A i \in 1..Len(objs) : i % 2 = 1 => objs[i].t = "name"

LEMMA ClosedIs ==
  ASSUME NEW c, NEW objs, NEW open, NEW close, NEW d, IsState(c), IsSeq(objs), Kind(open, close),
         close = ">" => InTurn(objs),
         d = State("ok", Append(c.syms, Term(open, TRUE)) \o NonTerms(objs), Len(c.syms), Append(c.outer, c.pos))
  PROVE  AfterToken(d, close) = Pushing(c, NonTerm(Obj(TypeOf(close), objs)))
<1>1. IsSeq(c.syms) /\ Len(c.syms) \in Nat /\ c.pos \in Nat /\ c.outer \in Seq(Nat) /\ Len(objs) \in Nat
  BY SeqFacts DEF IsState
<1>2. PICK s, op, front, nt, all, p :
        s = c.syms /\ op = Term(open, TRUE) /\ front = Append(s, op) /\ nt = NonTerms(objs) /\ all = front \o nt /\ p = Len(s)
  OBVIOUS
<1>3. p \in Nat /\ IsSeq(s) /\ IsSeq(front) /\ Len(front) = p + 1 /\ (\A i \in 1..p : front[i] = s[i]) /\ front[p + 1] = op
  <2>1. IsSeq(s) /\ p = Len(s) /\ p \in Nat /\ front = Append(s, op)
    BY <1>1, <1>2
  <2>2. Grown(s, op, front, p)
    <3>1. Grows(s, op, front, p)
      BY <2>1 DEF Grows
    <3>2. QED
      BY ONLY <3>1, Appended
  <2>3. QED
    BY <2>1, <2>2 DEF Grown
<1>4. IsSeq(nt) /\ Len(nt) = Len(objs) /\ \A i \in 1..Len(objs) : nt[i] = NonTerm(objs[i])
  BY <1>2, NonTermsIs
<1>5. /\ IsSeq(all) /\ Len(all) = (p + 1) + Len(objs) /\ (\A i \in 1..(p + 1) : all[i] = front[i])
      /\ \A i \in 1..Len(objs) : all[(p + 1) + i] = nt[i]
  <2>1. IsSeq(front) /\ IsSeq(nt)
    BY <1>3, <1>4
  <2>2. LET f == front \o nt IN /\ IsSeq(f) /\ Len(f) = Len(front) + Len(nt)
         /\ (\A i \in 1..Len(front) : f[i] = front[i]) /\ \A i \in 1..Len(nt) : f[Len(front) + i] = nt[i]
    BY ONLY <2>1, JoinFacts
  <2>3. all = front \o nt
    BY <1>2
  <2>4. QED
    BY <1>3, <1>4, <2>2, <2>3
<1>6. /\ d.ok = "ok" /\ d.syms = all /\ d.pos = p /\ d.outer = Append(c.outer, c.pos)
  BY <1>2 DEF State
<1>7. BodyOf(d) = nt
  <2>1. PICK body, n : body = BodyOf(d) /\ n = Len(objs)
    OBVIOUS
  <2>2. n \in Nat /\ Len(all) = (p + 1) + n
    BY <1>1, <1>5, <2>1
  <2>3. body = SubSeq(all, p + 2, (p + 1) + n)
    BY <1>6, <2>1, <2>2 DEF BodyOf
  <2>4. PICK q : q = p + 1
    OBVIOUS
  <2>5. q \in Nat /\ n \in Nat /\ IsSeq(all) /\ Len(all) = q + n
    BY <1>3, <1>5, <2>2, <2>4
  <2>6. LET rest == SubSeq(all, q + 1, Len(all)) IN
         /\ IsSeq(rest) /\ Len(rest) = n /\ \A i \in 1..n : rest[i] = all[q + i]
    BY ONLY <2>5, BehindFacts
  <2>7. q + 1 = p + 2 /\ (p + 1) + n = Len(all)
    BY <1>3, <2>2, <2>4
  <2>8. IsSeq(body) /\ Len(body) = n /\ \A i \in 1..n : body[i] = all[(p + 1) + i]
    BY <2>3, <2>4, <2>6, <2>7
  <2>9. Same(body, nt)
    BY <1>4, <1>5, <2>1, <2>8 DEF Same
  <2>10. QED
    BY <1>4, <2>1, <2>8, <2>9, SameIsEqual
<1>8. \A i \in 1..Len(objs) : nt[i].obj = objs[i] /\ IsObj(nt[i]) /\ (objs[i].t = "name" => IsName(nt[i]))
  BY <1>4, NonTermFields
<1>9. /\ Len(Append(c.outer, c.pos)) >= 1 /\ Last(Append(c.outer, c.pos)) = c.pos
      /\ Front(Append(c.outer, c.pos)) = c.outer
  <2>1. PICK n, o, x, a : o = c.outer /\ n = Len(o) /\ x = c.pos /\ a = Append(o, x)
    OBVIOUS
  <2>2. n \in Nat /\ IsSeq(o)
    BY <1>1, <2>1 DEF IsSeq
  <2>3. /\ IsSeq(a) /\ Len(a) = n + 1 /\ (\A i \in 1..n : a[i] = o[i]) /\ a[n + 1] = x
    <3>1. Grown(o, x, a, n)
      <4>1. Grows(o, x, a, n)
        BY <2>1, <2>2 DEF Grows
      <4>2. QED
        BY ONLY <4>1, Appended
    <3>2. QED
      BY <3>1 DEF Grown
  <2>4. IsSeq(SubSeq(a, 1, n)) /\ Len(SubSeq(a, 1, n)) = n /\ \A i \in 1..n : SubSeq(a, 1, n)[i] = a[i]
    BY <2>2, <2>3, LastFacts
  <2>5. Same(SubSeq(a, 1, n), o)
    BY <2>1, <2>3, <2>4 DEF Same
  <2>6. SubSeq(a, 1, n) = o
    BY <2>2, <2>4, <2>5, SameIsEqual
  <2>7. Front(a) = SubSeq(a, 1, n)
    BY <2>2, <2>3 DEF Front
  <2>8. QED
    BY <2>1, <2>2, <2>3, <2>6, <2>7 DEF Last
<1>10. Closable(d, close)
  <2>1. d.pos < Len(d.syms)
    <3>1. p < (p + 1) + Len(objs)
      BY <1>1, <1>3
    <3>2. QED
      BY <1>5, <1>6, <3>1
  <2>2. d.syms[d.pos + 1] = Term(Opening(close), TRUE)
    <3>1. p + 1 \in 1..(p + 1)
      BY <1>3
    <3>2. all[p + 1] = op
      BY <1>3, <1>5, <3>1
    <3>3. QED
      BY <1>2, <1>6, <3>2 DEF Kind
  <2>3. Len(d.outer) >= 1
    BY <1>6, <1>9
  <2>4. close = ">" => Len(nt) % 2 = 0 /\ \A i \in 1..Len(nt) : i % 2 = 1 => IsName(nt[i])
    BY <1>4, <1>8 DEF InTurn
  <2>5. QED
    BY <1>4, <1>7, <1>8, <2>1, <2>2, <2>3, <2>4 DEF Closable
<1>11. SubSeq(all, 1, p) = s
  <2>1. p \in 0..Len(all) /\ \A i \in 1..p : i \in 1..(p + 1)
    BY <1>1, <1>3, <1>5
  <2>2. IsSeq(SubSeq(all, 1, p)) /\ Len(SubSeq(all, 1, p)) = p /\ \A i \in 1..p : SubSeq(all, 1, p)[i] = all[i]
    BY <1>5, <2>1, CutFacts
  <2>3. Same(SubSeq(all, 1, p), s)
    <3>1. p = Len(s)
      BY <1>2
    <3>2. \A i \in 1..p : SubSeq(all, 1, p)[i] = s[i]
      BY <1>3, <1>5, <2>1, <2>2
    <3>3. QED
      BY <2>2, <3>1, <3>2 DEF Same
  <2>4. QED
    BY <1>3, <2>2, <2>3, SameIsEqual
<1>12. [i \in 1..Len(BodyOf(d)) |-> BodyOf(d)[i].obj] = objs
  <2>1. [i \in 1..Len(nt) |-> nt[i].obj] = [i \in 1..Len(objs) |-> objs[i]]
    BY <1>4, <1>8
  <2>2. QED
    BY <1>7, <2>1, SeqFacts
<1>13. Closed(d, close) = Pushing(c, NonTerm(Obj(TypeOf(close), objs)))
  <2>1. PICK y : y = Obj(TypeOf(close), objs)
    OBVIOUS
  <2>2. NonTerm(Obj(TypeOf(close), [i \in 1..Len(BodyOf(d)) |-> BodyOf(d)[i].obj])) = NonTerm(y)
    BY <1>12, <2>1
  <2>3. Append(SubSeq(d.syms, 1, d.pos), NonTerm(y)) = Append(c.syms, NonTerm(y))
    BY <1>2, <1>6, <1>11
  <2>4. Closed(d, close) = State("ok", Append(c.syms, NonTerm(y)), c.pos, c.outer)
    BY <1>6, <1>9, <2>2, <2>3 DEF Closed
  <2>5. QED
    BY <2>1, <2>4 DEF Pushing
<1>14. AfterToken(d, close) = Closed(d, close)
  <2>1. close \notin Leaves /\ close # "obj" /\ close \notin {"[", "<"} /\ close \in {"]", ">"}
    BY IntsOnly DEF Kind, Leaves, Names, Strings, Booleans, Length
  <2>2. QED
    BY <1>10, <2>1 DEF AfterToken
<1>15. QED
  BY <1>13, <1>14

LEMMA BracketsRan ==
  ASSUME NEW c, NEW objs, NEW open, NEW close, IsState(c), c.ok = "ok", IsSeq(objs), Kind(open, close),
         \A i \in 1..Len(objs) : objs[i].t # "token", close = ">" => InTurn(objs)
  PROVE  Ran(c, <<Item(open)>> \o objs \o <<Item(close)>>) = Pushing(c, NonTerm(Obj(TypeOf(close), objs)))
<1>1. open \in {"[", "<"} /\ Item(open).t = "token" /\ Item(open).of[1] = open
      /\ Item(close).t = "token" /\ Item(close).of[1] = close
  BY DEF Kind, Opening, Item, Obj
<1>2. PICK c1, a, z : c1 = Opened(c, open) /\ a = <<Item(open)>> /\ z = <<Item(close)>>
  OBVIOUS
<1>3. IsSeq(a) /\ IsSeq(z) /\ IsSeq(a \o objs)
  <2>1. IsSeq(a) /\ IsSeq(z)
    BY <1>2, OneFacts
  <2>2. QED
    BY <2>1, JoinFacts
<1>4. Ran(c, a) = c1
  <2>1. Ran(c, a) = After(c, Item(open))
    BY <1>2, RanOne
  <2>2. After(c, Item(open)) = AfterToken(c, open)
    BY <1>1 DEF After
  <2>3. open \notin Leaves /\ open # "obj"
    BY <1>1, IntsOnly DEF Leaves, Names, Strings, Booleans, Length
  <2>4. AfterToken(c, open) = Opened(c, open)
    BY <1>1, <2>3 DEF AfterToken
  <2>5. QED
    BY <1>2, <2>1, <2>2, <2>4
<1>5. /\ IsState(c1) /\ c1.ok = "ok" /\ c1.syms = Append(c.syms, Term(open, TRUE)) /\ c1.pos = Len(c.syms)
      /\ c1.outer = Append(c.outer, c.pos)
  <2>1. /\ c1.ok = "ok" /\ c1.syms = Append(c.syms, Term(open, TRUE)) /\ c1.pos = Len(c.syms)
        /\ c1.outer = Append(c.outer, c.pos) /\ c1 = State(c1.ok, c1.syms, c1.pos, c1.outer)
    BY <1>2 DEF Opened, State
  <2>2. IsSeq(c.syms) /\ Len(c.syms) \in Nat /\ c.pos \in Nat /\ c.outer \in Seq(Nat)
    BY SeqFacts DEF IsState
  <2>3. IsSeq(Append(c.syms, Term(open, TRUE)))
    <3>1. PICK s, x : s = c.syms /\ x = Term(open, TRUE)
      OBVIOUS
    <3>2. IsSeq(s)
      BY <2>2, <3>1
    <3>3. IsSeq(Append(s, x))
      BY ONLY <3>2, AppendIs
    <3>4. QED
      BY <3>1, <3>3
  <2>4. Append(c.outer, c.pos) \in Seq(Nat)
    BY <2>2
  <2>5. IsSeq(c1.syms) /\ c1.pos \in Nat /\ c1.outer \in Seq(Nat) /\ c1.ok \in {"ok", "stuck"}
    BY <2>1, <2>2, <2>3, <2>4
  <2>6. QED
    BY <2>1, <2>5 DEF IsState
<1>6. PICK d : d = Ran(c1, objs)
  OBVIOUS
<1>7. d = State("ok", c1.syms \o NonTerms(objs), c1.pos, c1.outer)
  BY <1>5, <1>6, PushAll
<1>8. d = State("ok", Append(c.syms, Term(open, TRUE)) \o NonTerms(objs), Len(c.syms), Append(c.outer, c.pos))
  BY <1>5, <1>7
<1>9. AfterToken(d, close) = Pushing(c, NonTerm(Obj(TypeOf(close), objs)))
  BY <1>8, ClosedIs
<1>10. d.ok = "ok"
  BY <1>7 DEF State
<1>11. Ran(d, z) = AfterToken(d, close)
  <2>1. Ran(d, z) = After(d, Item(close))
    BY <1>2, RanOne
  <2>2. QED
    BY <1>1, <1>10, <2>1 DEF After
<1>12. Ran(c, a \o objs) = Ran(Ran(c, a), objs)
  BY <1>3, RanJoin
<1>13. PICK b : b = a \o objs
  OBVIOUS
<1>14. IsSeq(b) /\ IsSeq(z)
  BY <1>3, <1>13
<1>15. Ran(c, b \o z) = Ran(Ran(c, b), z)
  BY ONLY <1>14, RanJoin
<1>16. QED
  BY <1>2, <1>4, <1>6, <1>9, <1>11, <1>12, <1>13, <1>15

LEMMA RefRan ==
  ASSUME NEW c, NEW objs, IsState(c), c.ok = "ok", IsSeq(objs), Len(objs) = 2, objs[1].t = "int", objs[2].t = "int"
  PROVE  Ran(c, objs \o <<Item("R")>>) = Pushing(c, NonTerm(Obj("ref", objs)))
<1>1. Item("R").t = "token" /\ Item("R").of[1] = "R"
  BY DEF Item, Obj
<1>2. PICK z, d : z = <<Item("R")>> /\ d = Ran(c, objs)
  OBVIOUS
<1>3. PICK nt, s : nt = NonTerms(objs) /\ s = c.syms
  OBVIOUS
<1>4. IsSeq(nt) /\ Len(nt) = 2 /\ nt[1] = NonTerm(objs[1]) /\ nt[2] = NonTerm(objs[2])
  BY <1>3, NonTermsIs
<1>5. IsSeq(s) /\ Len(s) \in Nat /\ c.ok = "ok" /\ IsSeq(z)
  <2>1. IsSeq(s)
    BY <1>3 DEF IsState
  <2>2. QED
    BY <1>2, <2>1, OneFacts, SeqFacts
<1>6. d = State("ok", s \o nt, c.pos, c.outer)
  <2>1. \A i \in 1..Len(objs) : objs[i].t # "token"
    <3>1. \A i \in 1..2 : i = 1 \/ i = 2
      OBVIOUS
    <3>2. QED
      BY <3>1
  <2>2. QED
    BY <1>2, <1>3, <2>1, PushAll
<1>7. d.ok = "ok" /\ d.syms = s \o nt /\ d.pos = c.pos /\ d.outer = c.outer
  BY <1>6 DEF State
<1>8. PICK all, n : all = s \o nt /\ n = Len(s)
  OBVIOUS
<1>9. /\ IsSeq(all) /\ Len(all) = n + 2 /\ \A i \in 1..n : all[i] = s[i]
      /\ all[n + 1] = nt[1] /\ all[n + 2] = nt[2]
  <2> IsSeq(s) /\ IsSeq(nt)
    BY <1>4, <1>5
  <2>1. LET f == s \o nt IN /\ IsSeq(f) /\ Len(f) = Len(s) + Len(nt)
         /\ (\A i \in 1..Len(s) : f[i] = s[i]) /\ \A i \in 1..Len(nt) : f[Len(s) + i] = nt[i]
    BY JoinFacts
  <2>2. 1 \in 1..2 /\ 2 \in 1..2
    OBVIOUS
  <2>3. QED
    BY <1>4, <1>8, <2>1, <2>2
<1>10. n \in Nat /\ (n + 2) - 1 = n + 1 /\ n + 2 >= 2 /\ (n + 2) - 2 = n
  BY <1>5, <1>8
<1>11. Refers(d) /\ RefOf(d) = Obj("ref", objs)
  <2>1. IsInt(all[n + 1]) /\ IsInt(all[n + 2]) /\ all[n + 1].obj = objs[1] /\ all[n + 2].obj = objs[2]
    BY <1>4, <1>9, NonTermFields
  <2>2. Refers(d)
    BY <1>7, <1>8, <1>9, <1>10, <2>1 DEF Refers
  <2>3. Same(<<objs[1], objs[2]>>, objs)
    BY DEF Same
  <2>4. IsSeq(<<objs[1], objs[2]>>)
    <3>1. PICK S : S = {objs[1], objs[2]}
      OBVIOUS
    <3>2. <<objs[1], objs[2]>> \in Seq(S)
      BY <3>1
    <3>3. QED
      BY <3>2 DEF IsSeq
  <2>5. <<objs[1], objs[2]>> = objs
    BY <2>3, <2>4, SameIsEqual
  <2>6. RefOf(d) = Obj("ref", <<objs[1], objs[2]>>)
    BY <1>7, <1>8, <1>9, <1>10, <2>1 DEF RefOf
  <2>7. QED
    BY <2>2, <2>5, <2>6
<1>12. Replacing(d, 2, RefOf(d)) = Pushing(c, NonTerm(Obj("ref", objs)))
  <2>1. n \in 0..Len(all)
    BY <1>9, <1>10
  <2>2. IsSeq(SubSeq(all, 1, n)) /\ Len(SubSeq(all, 1, n)) = n /\ \A i \in 1..n : SubSeq(all, 1, n)[i] = all[i]
    BY <1>9, <2>1, CutFacts
  <2>3. Same(SubSeq(all, 1, n), s)
    BY <1>8, <1>9, <2>2 DEF Same
  <2>4. SubSeq(all, 1, n) = s
    BY <1>5, <2>2, <2>3, SameIsEqual
  <2>5. PICK y : y = Obj("ref", objs)
    OBVIOUS
  <2>6. Replacing(d, 2, RefOf(d)) = State("ok", Append(s, NonTerm(y)), c.pos, c.outer)
    BY <1>7, <1>8, <1>9, <1>10, <1>11, <2>4, <2>5 DEF Replacing
  <2>7. QED
    BY <1>3, <2>5, <2>6 DEF Pushing
<1>13. Ran(d, z) = Replacing(d, 2, RefOf(d))
  <2>1. Ran(d, z) = After(d, Item("R"))
    BY <1>2, RanOne
  <2>2. "R" \notin Leaves
    BY IntsOnly DEF Leaves, Names, Strings, Booleans, Length
  <2>3. AfterToken(d, "R") = Replacing(d, 2, RefOf(d))
    BY <1>11, <2>2 DEF AfterToken
  <2>4. QED
    BY <1>1, <1>7, <2>1, <2>3 DEF After
<1>14. Ran(c, objs \o z) = Ran(d, z)
  <2>1. Ran(c, objs \o z) = Ran(Ran(c, objs), z)
    BY <1>5, RanJoin
  <2>2. QED
    BY <1>2, <2>1
<1>15. QED
  BY <1>2, <1>12, <1>13, <1>14

LEMMA Five ==
  ASSUME NEW c, NEW v, NEW w, NEW x, NEW y, NEW z
  PROVE  Ran(c, <<v, w, x, y, z>>) = After(After(After(After(After(c, v), w), x), y), z)
<1>1. PICK u : u = <<v, w, x, y, z>>
  OBVIOUS
<1>2. Len(u) = 5 /\ u[1] = v /\ u[2] = w /\ u[3] = x /\ u[4] = y /\ u[5] = z
  BY <1>1
<1>3. \A k \in Nat : RanTo(c, u, 0) = c /\ RanTo(c, u, k + 1) = After(RanTo(c, u, k), u[k + 1])
  BY RanSteps
<1>4. RanTo(c, u, 0 + 1) = After(c, u[0 + 1])
  BY <1>3
<1>5. RanTo(c, u, 1 + 1) = After(RanTo(c, u, 1), u[1 + 1])
  BY <1>3
<1>6. RanTo(c, u, 2 + 1) = After(RanTo(c, u, 2), u[2 + 1])
  BY <1>3
<1>7. RanTo(c, u, 3 + 1) = After(RanTo(c, u, 3), u[3 + 1])
  BY <1>3
<1>8. RanTo(c, u, 4 + 1) = After(RanTo(c, u, 4), u[4 + 1])
  BY <1>3
<1>9. 0 + 1 = 1 /\ 1 + 1 = 2 /\ 2 + 1 = 3 /\ 3 + 1 = 4 /\ 4 + 1 = 5
  OBVIOUS
<1>10. RanTo(c, u, 5) = After(After(After(After(After(c, v), w), x), y), z)
  BY ONLY <1>2, <1>4, <1>5, <1>6, <1>7, <1>8, <1>9
<1>11. QED
  BY <1>1, <1>2, <1>10 DEF Ran

LEMMA FourMore ==
  ASSUME NEW s, NEW n \in Nat, NEW v, NEW w, NEW x, NEW y, IsSeq(s), Len(s) = n
  PROVE  LET r == Append(Append(Append(Append(s, v), w), x), y) IN
         /\ IsSeq(r) /\ Len(r) = n + 4 /\ \A i \in 1..n : r[i] = s[i]
         /\ r[n + 1] = v /\ r[n + 2] = w /\ r[n + 3] = x /\ r[n + 4] = y
<1>1. PICK s1, s2, s3, s4, n1, n2, n3 :
        /\ s1 = Append(s, v) /\ s2 = Append(s1, w) /\ s3 = Append(s2, x) /\ s4 = Append(s3, y)
        /\ n1 = n + 1 /\ n2 = n + 2 /\ n3 = n + 3
  OBVIOUS
<1>2. n1 \in Nat /\ n2 \in Nat /\ n3 \in Nat /\ n1 + 1 = n2 /\ n2 + 1 = n3 /\ n3 + 1 = n + 4
  BY <1>1
<1>3. IsSeq(s1) /\ Len(s1) = n1 /\ (\A i \in 1..n : s1[i] = s[i]) /\ s1[n1] = v
  <2>1. IsSeq(s1) /\ Len(s1) = n + 1 /\ (\A i \in 1..n : s1[i] = s[i]) /\ s1[n + 1] = v
    <3>1. Grows(s, v, s1, n)
      BY <1>1 DEF Grows
    <3>2. QED
      BY <3>1, Appended DEF Grown
  <2>2. QED
    BY <1>1, <2>1
<1>4. IsSeq(s2) /\ Len(s2) = n2 /\ (\A i \in 1..n1 : s2[i] = s1[i]) /\ s2[n2] = w
  <2>1. IsSeq(s2) /\ Len(s2) = n1 + 1 /\ (\A i \in 1..n1 : s2[i] = s1[i]) /\ s2[n1 + 1] = w
    <3>1. Grows(s1, w, s2, n1)
      BY <1>1, <1>2, <1>3 DEF Grows
    <3>2. QED
      BY <3>1, Appended DEF Grown
  <2>2. QED
    BY <1>2, <2>1
<1>5. IsSeq(s3) /\ Len(s3) = n3 /\ (\A i \in 1..n2 : s3[i] = s2[i]) /\ s3[n3] = x
  <2>1. IsSeq(s3) /\ Len(s3) = n2 + 1 /\ (\A i \in 1..n2 : s3[i] = s2[i]) /\ s3[n2 + 1] = x
    <3>1. Grows(s2, x, s3, n2)
      BY <1>1, <1>2, <1>4 DEF Grows
    <3>2. QED
      BY <3>1, Appended DEF Grown
  <2>2. QED
    BY <1>2, <2>1
<1>6. IsSeq(s4) /\ Len(s4) = n + 4 /\ (\A i \in 1..n3 : s4[i] = s3[i]) /\ s4[n + 4] = y
  <2>1. IsSeq(s4) /\ Len(s4) = n3 + 1 /\ (\A i \in 1..n3 : s4[i] = s3[i]) /\ s4[n3 + 1] = y
    <3>1. Grows(s3, y, s4, n3)
      BY <1>1, <1>2, <1>5 DEF Grows
    <3>2. QED
      BY <3>1, Appended DEF Grown
  <2>2. QED
    BY <1>2, <2>1
<1>7. \A i \in 1..n : i \in 1..n1 /\ i \in 1..n2 /\ i \in 1..n3
  BY <1>1
<1>8. n1 \in 1..n1 /\ n1 \in 1..n2 /\ n1 \in 1..n3 /\ n2 \in 1..n2 /\ n2 \in 1..n3 /\ n3 \in 1..n3
  BY <1>1
<1>9. (\A i \in 1..n : s4[i] = s[i]) /\ s4[n1] = v /\ s4[n2] = w /\ s4[n3] = x
  BY <1>3, <1>4, <1>5, <1>6, <1>7, <1>8
<1>10. QED
  BY <1>1, <1>6, <1>9

LEMMA IndRan ==
  ASSUME NEW c, NEW a, NEW b, NEW v, IsState(c), c.ok = "ok", a.t = "int", b.t = "int", v.t # "token"
  PROVE  Ran(c, <<a, b, Item("obj"), v, Item("endobj")>>) = Pushing(c, NonTerm(Obj("ind", <<a, b, v>>)))
<1> DEFINE s == c.syms
           n == Len(s)
           s1 == Append(s, NonTerm(a))
           s2 == Append(s1, NonTerm(b))
           s3 == Append(s2, Term("obj", FALSE))
           s4 == Append(s3, NonTerm(v))
           of(syms) == State("ok", syms, c.pos, c.outer)
<1>1. IsSeq(s) /\ n \in Nat /\ c = of(s)
  BY SeqFacts DEF IsState
<1>2. \A syms : /\ of(syms).ok = "ok" /\ of(syms).syms = syms
                /\ \A sym : Pushing(of(syms), sym) = of(Append(syms, sym))
  BY DEF State, Pushing
<1> HIDE DEF of
<1>3. After(c, a) = of(s1)
  <2>1. After(c, a) = Pushing(c, NonTerm(a))
    BY DEF After
  <2>2. QED
    BY <1>1, <1>2, <2>1
<1>4. After(of(s1), b) = of(s2)
  <2>1. After(of(s1), b) = Pushing(of(s1), NonTerm(b))
    BY <1>2 DEF After
  <2>2. QED
    BY <1>2, <2>1
<1>5. After(of(s2), Item("obj")) = of(s3)
  <2>1. Item("obj").t = "token" /\ Item("obj").of[1] = "obj"
    BY DEF Item, Obj
  <2>2. "obj" \notin Leaves
    BY IntsOnly DEF Leaves, Names, Strings, Booleans, Length
  <2>3. AfterToken(of(s2), "obj") = Pushing(of(s2), Term("obj", FALSE))
    BY <2>2 DEF AfterToken
  <2>4. After(of(s2), Item("obj")) = Pushing(of(s2), Term("obj", FALSE))
    BY <1>2, <2>1, <2>3 DEF After
  <2>5. QED
    BY <1>2, <2>4
<1>6. After(of(s3), v) = of(s4)
  <2>1. After(of(s3), v) = Pushing(of(s3), NonTerm(v))
    BY <1>2 DEF After
  <2>2. QED
    BY <1>2, <2>1
<1>7. PICK d : d = of(s4)
  OBVIOUS
<1>8. d.ok = "ok" /\ d.syms = s4 /\ d.pos = c.pos /\ d.outer = c.outer
  BY <1>7 DEF of, State
<1>12. IsSeq(s4) /\ Len(s4) = n + 4 /\ (\A i \in 1..n : s4[i] = s[i]) /\ s4[n + 1] = NonTerm(a) /\ s4[n + 2] = NonTerm(b)
       /\ s4[n + 3] = Term("obj", FALSE) /\ s4[n + 4] = NonTerm(v)
  <2>1. PICK r, l, e, f, g, h : r = s /\ l = n /\ e = NonTerm(a) /\ f = NonTerm(b) /\ g = Term("obj", FALSE) /\ h = NonTerm(v)
    OBVIOUS
  <2>2. PICK q : q = Append(Append(Append(Append(r, e), f), g), h)
    OBVIOUS
  <2>3. IsSeq(r) /\ l \in Nat /\ Len(r) = l
    BY <1>1, <2>1
  <2>4. /\ IsSeq(q) /\ Len(q) = l + 4 /\ \A i \in 1..l : q[i] = r[i]
        /\ q[l + 1] = e /\ q[l + 2] = f /\ q[l + 3] = g /\ q[l + 4] = h
    BY <2>2, <2>3, FourMore
  <2>5. q = s4
    BY <2>1, <2>2
  <2>6. QED
    BY <2>1, <2>4, <2>5
<1> HIDE DEF s1, s2, s3
<1> HIDE DEF s4, n, s
<1>13. (n + 4) - 3 = n + 1 /\ (n + 4) - 2 = n + 2 /\ (n + 4) - 1 = n + 3 /\ (n + 4) - 4 = n /\ n + 4 >= 4 /\ n \in 0..(n + 4)
  BY <1>1
<1>14. EndsObj(d) /\ IndOf(d) = Obj("ind", <<a, b, v>>)
  <2>1. /\ IsInt(s4[n + 1]) /\ IsInt(s4[n + 2]) /\ IsObj(s4[n + 4])
        /\ s4[n + 1].obj = a /\ s4[n + 2].obj = b /\ s4[n + 4].obj = v
    BY <1>12, NonTermFields
  <2>2. EndsObj(d)
    BY <1>8, <1>12, <1>13, <2>1 DEF EndsObj
  <2>3. QED
    BY <1>8, <1>12, <1>13, <2>1, <2>2 DEF IndOf
<1>15. Replacing(d, 4, IndOf(d)) = Pushing(c, NonTerm(Obj("ind", <<a, b, v>>)))
  <2>1. n \in 0..Len(s4) /\ Len(s4) - 4 = n
    BY <1>12, <1>13
  <2>2. IsSeq(SubSeq(s4, 1, n)) /\ Len(SubSeq(s4, 1, n)) = n /\ \A i \in 1..n : SubSeq(s4, 1, n)[i] = s4[i]
    BY <1>12, <2>1, CutFacts
  <2>3. Same(SubSeq(s4, 1, n), s)
    <3>1. n = Len(s)
      BY DEF n
    <3>2. QED
      BY <1>12, <2>2, <3>1 DEF Same
  <2>4. SubSeq(s4, 1, n) = s
    BY <1>1, <2>2, <2>3, SameIsEqual
  <2>5. PICK y : y = Obj("ind", <<a, b, v>>)
    OBVIOUS
  <2>6. Replacing(d, 4, IndOf(d)) = State("ok", Append(s, NonTerm(y)), c.pos, c.outer)
    BY <1>8, <1>14, <2>1, <2>4, <2>5 DEF Replacing
  <2>7. QED
    BY <2>5, <2>6 DEF Pushing, s
<1>16. After(d, Item("endobj")) = Replacing(d, 4, IndOf(d))
  <2>1. Item("endobj").t = "token" /\ Item("endobj").of[1] = "endobj"
    BY DEF Item, Obj
  <2>2. "endobj" \notin Leaves
    BY IntsOnly DEF Leaves, Names, Strings, Booleans, Length
  <2>3. AfterToken(d, "endobj") = Replacing(d, 4, IndOf(d))
    BY <1>14, <2>2 DEF AfterToken
  <2>4. QED
    BY <1>8, <2>1, <2>3 DEF After
<1>17. QED
  BY <1>3, <1>4, <1>5, <1>6, <1>7, <1>15, <1>16, Five

LEMMA UnwrappedRan ==
  ASSUME NEW c, NEW x, IsState(c), WellFormed(x)
  PROVE  Ran(c, Unwrapped(x)) = After(c, x)
<1>1. /\ IsSeq(x.of) /\ x = Obj(x.t, x.of) /\ IsSeq(Unwrapped(x)) /\ Len(Unwrapped(x)) \in Nat
      /\ x.t = "array" => Unwrapped(x) = <<Item("[")>> \o x.of \o <<Item("]")>>
      /\ x.t = "dict" => Unwrapped(x) = <<Item("<")>> \o x.of \o <<Item(">")>>
      /\ x.t = "ref" => Unwrapped(x) = x.of \o <<Item("R")>>
      /\ x.t = "ind" => Unwrapped(x) = <<x.of[1], x.of[2], Item("obj"), x.of[3], Item("endobj")>>
      /\ x.t \in LeafTypes \union {"token"} => Unwrapped(x) = <<Item(x.of[1])>>
  BY UnwrappedIs, SeqFacts
<1>2. CASE c.ok # "ok"
  <2>1. RanTo(c, Unwrapped(x), 0) = c
    BY RanSteps
  <2>2. \A k \in Nat : RanTo(c, Unwrapped(x), 0 + k) = RanTo(c, Unwrapped(x), 0)
    BY <1>2, <2>1, StaysStuck
  <2>3. RanTo(c, Unwrapped(x), 0 + Len(Unwrapped(x))) = c /\ 0 + Len(Unwrapped(x)) = Len(Unwrapped(x))
    BY <1>1, <2>1, <2>2
  <2>4. QED
    BY <1>2, <2>3 DEF Ran, After
<1>3. CASE x.t = "token"
  BY <1>3, TokenIs, RanOne
<1>4. ASSUME c.ok = "ok", x.t # "token" PROVE After(c, x) = Pushing(c, NonTerm(x))
  BY <1>4 DEF After
<1>5. CASE c.ok = "ok" /\ x.t \in LeafTypes
  <2>1. x.of[1] \in Leaves /\ x = Leaf(x.of[1]) /\ x.t # "token"
    BY <1>5 DEF WellFormed, LeafTypes
  <2>2. Ran(c, Unwrapped(x)) = After(c, Item(x.of[1]))
    BY <1>1, <1>5, RanOne
  <2>3. Item(x.of[1]).t = "token" /\ Item(x.of[1]).of[1] = x.of[1]
    BY DEF Item, Obj
  <2>4. After(c, Item(x.of[1])) = AfterToken(c, x.of[1])
    BY <1>5, <2>3 DEF After
  <2>5. AfterToken(c, x.of[1]) = Pushing(c, NonTerm(x))
    BY <2>1 DEF AfterToken
  <2>6. QED
    BY <1>4, <1>5, <2>1, <2>2, <2>4, <2>5
<1>6. CASE c.ok = "ok" /\ x.t = "array"
  <2>1. (\A i \in 1..Len(x.of) : x.of[i].t # "token") /\ Kind("[", "]") /\ TypeOf("]") = "array"
    <3>1. \A i \in 1..Len(x.of) : x.of[i].t # "token"
      BY <1>6 DEF WellFormed, LeafTypes
    <3>2. QED
      BY <3>1 DEF Kind, Opening, TypeOf
  <2>2. Ran(c, <<Item("[")>> \o x.of \o <<Item("]")>>) = Pushing(c, NonTerm(Obj(TypeOf("]"), x.of)))
    <3>1. PICK objs : objs = x.of
      OBVIOUS
    <3>2. IsSeq(objs) /\ (\A i \in 1..Len(objs) : objs[i].t # "token") /\ c.ok = "ok" /\ "[" # "<"
      BY <1>1, <1>6, <2>1, <3>1
    <3>3. Ran(c, <<Item("[")>> \o objs \o <<Item("]")>>) = Pushing(c, NonTerm(Obj(TypeOf("]"), objs)))
      BY <2>1, <3>2, BracketsRan
    <3>4. QED
      BY <3>1, <3>3
  <2>3. Ran(c, Unwrapped(x)) = Pushing(c, NonTerm(Obj("array", x.of)))
    BY <1>1, <1>6, <2>1, <2>2
  <2>4. Pushing(c, NonTerm(Obj("array", x.of))) = After(c, x)
    BY <1>1, <1>4, <1>6
  <2>5. QED
    BY <2>3, <2>4
<1>7. CASE c.ok = "ok" /\ x.t = "dict"
  <2>1. (\A i \in 1..Len(x.of) : x.of[i].t # "token") /\ InTurn(x.of) /\ Kind("<", ">") /\ TypeOf(">") = "dict"
    <3>1. Kind("<", ">") /\ TypeOf(">") = "dict"
      BY DEF Kind, Opening, TypeOf
    <3>2. /\ Len(x.of) % 2 = 0
          /\ \A i \in 1..Len(x.of) : x.of[i].t # "token" /\ (i % 2 = 1 => x.of[i].t = "name")
      BY <1>7 DEF WellFormed, LeafTypes
    <3>3. QED
      BY <3>1, <3>2 DEF InTurn
  <2>2. Ran(c, <<Item("<")>> \o x.of \o <<Item(">")>>) = Pushing(c, NonTerm(Obj(TypeOf(">"), x.of)))
    <3>1. PICK objs : objs = x.of
      OBVIOUS
    <3>2. IsSeq(objs) /\ (\A i \in 1..Len(objs) : objs[i].t # "token") /\ InTurn(objs) /\ c.ok = "ok"
      BY <1>1, <1>7, <2>1, <3>1
    <3>3. Ran(c, <<Item("<")>> \o objs \o <<Item(">")>>) = Pushing(c, NonTerm(Obj(TypeOf(">"), objs)))
      BY <2>1, <3>2, BracketsRan
    <3>4. QED
      BY <3>1, <3>3
  <2>3. QED
    BY <1>1, <1>4, <1>7, <2>1, <2>2
<1>8. CASE c.ok = "ok" /\ x.t = "ref"
  <2>1. Len(x.of) = 2 /\ x.of[1].t = "int" /\ x.of[2].t = "int"
    BY <1>8 DEF WellFormed, LeafTypes
  <2>2. Ran(c, x.of \o <<Item("R")>>) = Pushing(c, NonTerm(Obj("ref", x.of)))
    BY <1>1, <1>8, <2>1, RefRan
  <2>3. QED
    BY <1>1, <1>4, <1>8, <2>2
<1>9. CASE c.ok = "ok" /\ x.t = "ind"
  <2>1. Len(x.of) = 3 /\ x.of[1].t = "int" /\ x.of[2].t = "int" /\ x.of[3].t # "token"
    BY <1>9 DEF WellFormed, LeafTypes
  <2>2. PICK a, b, v : a = x.of[1] /\ b = x.of[2] /\ v = x.of[3]
    OBVIOUS
  <2>3. Ran(c, <<a, b, Item("obj"), v, Item("endobj")>>) = Pushing(c, NonTerm(Obj("ind", <<a, b, v>>)))
    BY <1>9, <2>1, <2>2, IndRan
  <2>4. <<a, b, v>> = x.of
    <3>1. Same(<<a, b, v>>, x.of)
      BY <2>1, <2>2 DEF Same
    <3>2. IsSeq(<<a, b, v>>)
      <4>1. PICK S : S = {a, b, v}
        OBVIOUS
      <4>2. <<a, b, v>> \in Seq(S)
        BY <4>1
      <4>3. QED
        BY <4>2 DEF IsSeq
    <3>3. QED
      BY <1>1, <3>1, <3>2, SameIsEqual
  <2>5. QED
    BY <1>1, <1>4, <1>9, <2>2, <2>3, <2>4
<1>10. x.t \in LeafTypes \union {"token", "array", "dict", "ref", "ind"}
  BY DEF WellFormed
<1>11. QED
  BY <1>2, <1>3, <1>5, <1>6, <1>7, <1>8, <1>9, <1>10

LEMMA ExpandedRan ==
  ASSUME NEW c, NEW items, IsState(c), ItemSeq(items)
  PROVE  Ran(c, Expanded(items)) = Ran(c, items)
<1> DEFINE T == {n \in Nat : \A s : ItemSeq(s) /\ Len(s) = n => Ran(c, Expanded(s)) = Ran(c, s)}
<1>1. 0 \in T
  <2>1. ASSUME NEW s, ItemSeq(s), Len(s) = 0 PROVE Ran(c, Expanded(s)) = Ran(c, s)
    <3>1. Same(s, <<>>)
      BY <2>1, NoneFacts DEF Same
    <3>2. s = <<>>
      BY <2>1, <3>1, NoneFacts, SameIsEqual DEF ItemSeq
    <3>3. QED
      BY <3>2, ExpandedNone
  <2>2. QED
    BY <2>1
<1>2. ASSUME NEW n \in T PROVE n + 1 \in T
  <2>1. ASSUME NEW s, ItemSeq(s), Len(s) = n + 1 PROVE Ran(c, Expanded(s)) = Ran(c, s)
    <3>1. n \in Nat /\ IsSeq(s)
      BY <2>1 DEF ItemSeq
    <3>2. PICK front, x : front = SubSeq(s, 1, n) /\ x = s[n + 1]
      OBVIOUS
    <3>3. s = Append(front, x) /\ IsSeq(front) /\ Len(front) = n /\ \A i \in 1..n : front[i] = s[i]
      BY <2>1, <3>1, <3>2, LastFacts
    <3>4. ItemSeq(front) /\ WellFormed(x)
      <4>1. n + 1 \in 1..Len(s) /\ \A i \in 1..n : i \in 1..Len(s)
        BY <2>1, <3>1
      <4>2. QED
        BY <2>1, <3>2, <3>3, <4>1 DEF ItemSeq
    <3>5. Ran(c, Expanded(front)) = Ran(c, front)
      BY <3>3, <3>4
    <3>6. PICK e, u, d : e = Expanded(front) /\ u = Unwrapped(x) /\ d = Ran(c, front)
      OBVIOUS
    <3>7. IsSeq(e) /\ IsSeq(u) /\ Expanded(s) = e \o u
      BY <3>3, <3>4, <3>6, ExpandedAppend, UnwrappedIs
    <3>8. IsState(d)
      <4>1. Len(front) \in 0..Len(front)
        BY <3>1, <3>3
      <4>2. QED
        BY <3>4, <3>6, <4>1, RanIsState DEF Ran
    <3>9. Ran(c, e \o u) = Ran(Ran(c, e), u)
      BY ONLY <3>7, RanJoin
    <3>10. Ran(d, u) = After(d, x)
      BY <3>4, <3>6, <3>8, UnwrappedRan
    <3>11. PICK o : o = <<x>>
      OBVIOUS
    <3>12. IsSeq(front) /\ IsSeq(o) /\ s = front \o o
      BY <3>3, <3>11, OneFacts, AppendIs
    <3>13. Ran(c, front \o o) = Ran(Ran(c, front), o)
      BY ONLY <3>12, RanJoin
    <3>14. Ran(d, o) = After(d, x)
      BY <3>11, RanOne
    <3>15. QED
      BY <3>5, <3>6, <3>7, <3>9, <3>10, <3>12, <3>13, <3>14
  <2>2. QED
    BY <2>1
<1>3. T = Nat
  <2> HIDE DEF T
  <2>1. T \in SUBSET Nat
    BY DEF T
  <2>2. QED
    BY <2>1, <1>1, <1>2, Numbers!SetInductionOnNat
<1>4. Len(items) \in Nat
  BY SeqFacts DEF ItemSeq
<1>5. QED
  BY <1>3, <1>4

LEMMA WrittenRan ==
  ASSUME NEW c, NEW items, IsState(c), Deep(items)
  PROVE  \A n \in Nat : Ran(c, Written(items, n)) = Ran(c, items)
<1> DEFINE T == {n \in Nat : Ran(c, Written(items, n)) = Ran(c, items)}
<1>1. 0 \in T
  BY WrittenSteps
<1>2. ASSUME NEW n \in T PROVE n + 1 \in T
  <2>1. n \in Nat /\ n + 1 \in Nat /\ Ran(c, Written(items, n)) = Ran(c, items)
    OBVIOUS
  <2>2. PICK w : w = Written(items, n)
    OBVIOUS
  <2>3. ItemSeq(w) /\ Written(items, n + 1) = Expanded(w)
    BY <2>1, <2>2, WrittenSteps DEF Deep
  <2>4. Ran(c, Expanded(w)) = Ran(c, w)
    BY <2>3, ExpandedRan
  <2>5. QED
    BY <2>1, <2>2, <2>3, <2>4
<1>3. T = Nat
  <2> HIDE DEF T
  <2>1. T \in SUBSET Nat
    BY DEF T
  <2>2. QED
    BY <2>1, <1>1, <1>2, Numbers!SetInductionOnNat
<1>4. QED
  BY <1>3

\* No error is reported in the text of an object, and its symbol is left.
ReadStart == State("ok", <<>>, 0, <<>>)

LEMMA DeepText ==
  ASSUME NEW obj \in Objects
  PROVE  /\ Deep(<<obj>>) /\ WellFormed(obj) /\ obj.t # "token" /\ MaxNest \in Nat
         /\ AllTokens(Written(<<obj>>, MaxNest))
         /\ IsSeq(TextOf(obj)) /\ Len(TextOf(obj)) = Len(Written(<<obj>>, MaxNest))
         /\ \A i \in 1..Len(TextOf(obj)) : TextOf(obj)[i] \in Tokens
         /\ ItemsOf(TextOf(obj)) = Written(<<obj>>, MaxNest)
<1>1. PICK one : one = <<obj>>
  OBVIOUS
<1>2. MaxNest \in Nat /\ obj.t # "token"
  BY ObjectsAssumption
<1>3. \A n \in 0..MaxNest : \A i \in DOMAIN Written(one, n) : WellFormed(Written(one, n)[i])
  BY <1>1, ObjectsAssumption
<1>4. \A i \in DOMAIN Written(one, MaxNest) : Written(one, MaxNest)[i].t = "token"
  BY <1>1, ObjectsAssumption
<1>5. Written(one, 0) = one
  BY WrittenSteps
<1>6. IsSeq(one) /\ Len(one) = 1 /\ one[1] = obj
  BY <1>1, OneFacts
<1>7. \A n \in Nat : n <= MaxNest => ItemSeq(Written(one, n))
  <2> DEFINE T == {n \in Nat : n <= MaxNest => ItemSeq(Written(one, n))}
  <2>1. ASSUME NEW n \in 0..MaxNest, IsSeq(Written(one, n)) PROVE ItemSeq(Written(one, n))
    BY <1>3, <2>1, SeqFacts DEF ItemSeq
  <2>2. 0 \in T
    <3>1. 0 \in 0..MaxNest
      BY <1>2
    <3>2. QED
      BY <1>5, <1>6, <2>1, <3>1
  <2>3. ASSUME NEW n \in T PROVE n + 1 \in T
    <3>1. ASSUME n + 1 <= MaxNest PROVE ItemSeq(Written(one, n + 1))
      <4>1. n \in Nat /\ n <= MaxNest /\ n + 1 \in 0..MaxNest
        BY <1>2, <3>1
      <4>2. PICK w : w = Written(one, n)
        OBVIOUS
      <4>3. ItemSeq(w) /\ Written(one, n + 1) = Expanded(w)
        BY <4>1, <4>2, WrittenSteps
      <4>4. IsSeq(Expanded(w))
        BY <4>3, ExpandedJoin
      <4>5. QED
        BY <2>1, <4>1, <4>3, <4>4
    <3>2. QED
      BY <3>1
  <2>4. T = Nat
    <3> HIDE DEF T
    <3>1. T \in SUBSET Nat
      BY DEF T
    <3>2. QED
      BY <3>1, <2>2, <2>3, Numbers!SetInductionOnNat
  <2>5. QED
    BY <2>4
<1>8. PICK w : w = Written(one, MaxNest)
  OBVIOUS
<1>9. AllTokens(w)
  <2>1. ItemSeq(w)
    BY <1>2, <1>7, <1>8
  <2>2. \A i \in 1..Len(w) : i \in DOMAIN w
    BY <2>1, SeqFacts DEF ItemSeq
  <2>3. QED
    BY <1>4, <1>8, <2>1, <2>2 DEF AllTokens, ItemSeq
<1>10. \A k \in Nat : Written(one, MaxNest + k) = w
  <2> DEFINE T == {k \in Nat : Written(one, MaxNest + k) = w}
  <2>1. 0 \in T
    BY <1>2, <1>8
  <2>2. ASSUME NEW k \in T PROVE k + 1 \in T
    <3>1. k \in Nat /\ Written(one, MaxNest + k) = w
      OBVIOUS
    <3>2. PICK m : m = MaxNest + k
      OBVIOUS
    <3>3. m \in Nat /\ MaxNest + (k + 1) = m + 1
      BY <1>2, <3>1, <3>2
    <3>4. Written(one, m + 1) = Expanded(Written(one, m))
      BY <3>3, WrittenSteps
    <3>5. Expanded(w) = w
      BY <1>9, TokensStay
    <3>6. QED
      BY <3>1, <3>2, <3>3, <3>4, <3>5
  <2>3. T = Nat
    <3> HIDE DEF T
    <3>1. T \in SUBSET Nat
      BY DEF T
    <3>2. QED
      BY <3>1, <2>1, <2>2, Numbers!SetInductionOnNat
  <2>4. QED
    BY <2>3
<1>11. Deep(one)
  <2>1. ASSUME NEW n \in Nat PROVE ItemSeq(Written(one, n))
    <3>1. CASE n <= MaxNest
      BY <1>7, <3>1
    <3>2. CASE ~(n <= MaxNest)
      <4>1. n - MaxNest \in Nat /\ n = MaxNest + (n - MaxNest)
        BY <1>2, <3>2
      <4>2. Written(one, n) = w
        BY <1>10, <4>1
      <4>3. QED
        BY <1>9, <4>2 DEF AllTokens, ItemSeq
    <3>3. QED
      BY <3>1, <3>2
  <2>2. QED
    BY <2>1 DEF Deep
<1>12. WellFormed(obj)
  <2>1. ItemSeq(one)
    BY <1>5, <1>11 DEF Deep
  <2>2. QED
    BY <1>6, <2>1 DEF ItemSeq
<1>13. PICK toks : toks = TextOf(obj)
  OBVIOUS
<1>14. IsSeq(w) /\ Len(w) \in Nat
  BY <1>9, SeqFacts DEF AllTokens
<1>15. toks = [i \in 1..Len(w) |-> w[i].of[1]]
  BY <1>1, <1>8, <1>13 DEF TextOf
<1>16. IsSeq(toks) /\ Len(toks) = Len(w)
  <2>1. toks = [i \in 1..Len(w) |-> toks[i]]
    BY <1>15
  <2>2. PICK n : n = Len(w)
    OBVIOUS
  <2>3. n \in Nat /\ toks = [i \in 1..n |-> toks[i]]
    BY <1>14, <2>1, <2>2
  <2>4. IsSeq(toks) /\ Len(toks) = n
    BY <2>3, FnIsSeq
  <2>5. QED
    BY <2>2, <2>4
<1>17. \A i \in 1..Len(w) : toks[i] = w[i].of[1] /\ w[i] = Item(toks[i]) /\ toks[i] \in Tokens
  BY <1>9, <1>15, TokenIs DEF AllTokens
<1>18. ItemsOf(toks) = w
  <2>1. IsSeq(ItemsOf(toks)) /\ Len(ItemsOf(toks)) = Len(w) /\ \A i \in 1..Len(w) : ItemsOf(toks)[i] = Item(toks[i])
    BY <1>16, ItemsOfIs
  <2>2. Same(ItemsOf(toks), w)
    BY <1>17, <2>1 DEF Same
  <2>3. QED
    BY <1>14, <2>1, <2>2, SameIsEqual
<1>19. QED
  BY <1>1, <1>2, <1>8, <1>9, <1>11, <1>12, <1>13, <1>16, <1>17, <1>18

LEMMA TextRan ==
  ASSUME NEW obj \in Objects
  PROVE  /\ IsState(ReadStart)
         /\ Ran(ReadStart, ItemsOf(TextOf(obj))) = State("ok", <<NonTerm(obj)>>, 0, <<>>)
         /\ \A n \in 0..Len(TextOf(obj)) : RanTo(ReadStart, ItemsOf(TextOf(obj)), n).ok = "ok"
<1>1. /\ Deep(<<obj>>) /\ WellFormed(obj) /\ obj.t # "token" /\ MaxNest \in Nat
      /\ IsSeq(TextOf(obj)) /\ ItemsOf(TextOf(obj)) = Written(<<obj>>, MaxNest)
  BY DeepText
<1>2. IsState(ReadStart) /\ ReadStart.ok = "ok" /\ ReadStart.syms = <<>> /\ ReadStart.pos = 0 /\ ReadStart.outer = <<>>
  <2>1. IsSeq(<<>>) /\ 0 \in Nat /\ <<>> \in Seq(Nat)
    BY NoneFacts
  <2>2. QED
    BY <2>1 DEF ReadStart, State, IsState
<1>3. PICK s, one, items : s = ReadStart /\ one = <<obj>> /\ items = ItemsOf(TextOf(obj))
  OBVIOUS
<1>4. IsState(s) /\ Deep(one)
  BY <1>1, <1>2, <1>3
<1>5. \A n \in Nat : Ran(s, Written(one, n)) = Ran(s, one)
  BY ONLY <1>4, WrittenRan
<1>6. Ran(s, items) = After(s, obj)
  <2>1. items = Written(one, MaxNest)
    BY <1>1, <1>3
  <2>2. Ran(s, items) = Ran(s, one)
    BY <1>1, <1>5, <2>1
  <2>3. Ran(s, one) = After(s, obj)
    BY <1>3, RanOne
  <2>4. QED
    BY <2>2, <2>3
<1>7. After(s, obj) = State("ok", <<NonTerm(obj)>>, 0, <<>>)
  <2>1. After(s, obj) = Pushing(s, NonTerm(obj))
    BY <1>1, <1>2, <1>3 DEF After
  <2>2. Append(<<>>, NonTerm(obj)) = <<NonTerm(obj)>>
    BY NoneFacts, AppendIs, JoinNone, OneFacts
  <2>3. QED
    BY <1>2, <1>3, <2>1, <2>2 DEF Pushing
<1>8. ASSUME NEW n \in 0..Len(TextOf(obj)) PROVE RanTo(s, items, n).ok = "ok"
  <2>1. PICK l, k : l = Len(TextOf(obj)) /\ k = l - n
    OBVIOUS
  <2>2. l \in Nat /\ n \in Nat /\ k \in Nat /\ n + k = l /\ Len(items) = l
    BY <1>1, <1>3, <2>1, SeqFacts, ItemsOfIs
  <2>3. SUFFICES ASSUME RanTo(s, items, n).ok # "ok" PROVE FALSE
    OBVIOUS
  <2>4. RanTo(s, items, n + k) = RanTo(s, items, n)
    BY <2>2, <2>3, StaysStuck
  <2>5. RanTo(s, items, l).ok = "ok"
    BY <1>6, <1>7, <2>2 DEF Ran, State
  <2>6. QED
    BY <2>2, <2>3, <2>4, <2>5
<1>9. QED
  BY <1>2, <1>3, <1>6, <1>7, <1>8

-----------------------------------------------------------------------------
(* The steps of the parser follow the function.                             *)

Config == State("ok", stack, reduce_pos, saved)

LEMMA ConfigFields ==
  Config.ok = "ok" /\ Config.syms = stack /\ Config.pos = reduce_pos /\ Config.outer = saved
BY DEF Config, State

\* The step that AfterToken says, for a token that it is not stuck at.
LEMMA StepIs ==
  ASSUME IInv, status = "ok", NEW tok \in Tokens, AddToken(tok), AfterToken(Config, tok).ok = "ok"
  PROVE  status' = "ok" /\ Config' = AfterToken(Config, tok)
<1>1. /\ Config.ok = "ok" /\ Config.syms = stack /\ Config.pos = reduce_pos /\ Config.outer = saved
  BY ConfigFields
<1>2. Config' = State("ok", stack', reduce_pos', saved')
  BY DEF Config
<1>3. reduce_pos \in Nat /\ IsSeq(stack) /\ Top = Len(stack) /\ Top \in Nat
  <2>1. IsSeq(stack)
    BY DEF IInv, IsStack, IsSeq
  <2>2. QED
    BY <2>1, SeqFacts DEF IInv, TypeOK, Top
<1>4. Stuck(Config).ok = "stuck"
  BY DEF Stuck, State
<1>5. CASE tok \in Leaves
  <2>1. AfterToken(Config, tok) = State("ok", Append(stack, NonTerm(Leaf(tok))), reduce_pos, saved)
    BY <1>1, <1>5 DEF AfterToken, Pushing
  <2>2. Push(NonTerm(Leaf(tok))) /\ UNCHANGED <<reduce_pos, saved>>
    BY <1>5, IntsOnly DEF AddToken, Leaves, Names, Length, Strings, Booleans, Kept, Refused
  <2>3. QED
    BY <1>2, <2>1, <2>2 DEF Push
<1>6. CASE tok = "obj"
  <2>1. tok \notin Leaves
    BY <1>6, IntsOnly DEF Leaves, Names, Length, Strings, Booleans
  <2>2. AfterToken(Config, tok) = State("ok", Append(stack, Term(tok, FALSE)), reduce_pos, saved)
    BY <1>1, <1>6, <2>1 DEF AfterToken, Pushing
  <2>3. Push(Term(tok, FALSE)) /\ UNCHANGED <<reduce_pos, saved>>
    BY <1>6, <2>1 DEF AddToken, Refused
  <2>4. QED
    BY <1>2, <2>2, <2>3 DEF Push
<1>7. CASE tok \in {"[", "<"}
  <2>1. tok \notin Leaves /\ tok # "obj"
    BY <1>7, IntsOnly DEF Leaves, Names, Length, Strings, Booleans
  <2>2. AfterToken(Config, tok)
          = State("ok", Append(stack, Term(tok, TRUE)), Top, Append(saved, reduce_pos))
    BY <1>1, <1>7, <2>1 DEF AfterToken, Opened, Top
  <2>3. Open(tok)
    BY <1>7, <2>1 DEF AddToken, Kept, Refused
  <2>4. QED
    BY <1>2, <2>2, <2>3 DEF Open, Push, OpenPos
<1>8. CASE tok \in {"]", ">"}
  <2>1. tok \notin Leaves /\ tok # "obj" /\ tok \notin {"[", "<"} /\ tok # "R" /\ tok # "endobj"
    BY <1>8, IntsOnly DEF Leaves, Names, Length, Strings, Booleans
  <2>2. Closable(Config, tok)
    BY <1>4, <1>8, <2>1 DEF AfterToken
  <2>3. AfterToken(Config, tok) = Closed(Config, tok)
    BY <1>8, <2>1, <2>2 DEF AfterToken
  <2>4. Close(tok)
    BY <1>8, <2>1 DEF AddToken, Kept, Refused
  <2>5. /\ Len(saved) >= 1 /\ reduce_pos < Top /\ stack[reduce_pos + 1] = Term(Opening(tok), TRUE)
        /\ BodyOf(Config) = Body
    BY <1>1, <2>2 DEF Closable, BodyOf, Body, Top
  <2>6. IsBody(tok)
    BY <2>2, <2>5 DEF Closable, IsBody
  <2>7. Opener(tok) = Term(Opening(tok), TRUE)
    <3>1. PICK s, x : s = stack /\ x = Term(tok, TRUE)
      OBVIOUS
    <3>2. IsSeq(s)
      BY <1>3, <3>1
    <3>3. \A i \in 1..Len(s) : Append(s, x)[i] = s[i]
      BY ONLY <3>2, AppendIs
    <3>4. reduce_pos + 1 \in 1..Len(s)
      BY <1>3, <2>5, <3>1
    <3>5. QED
      BY <2>5, <3>1, <3>3, <3>4 DEF Opener
  <2>8. ~NoOpener(tok) /\ IsOpener(tok)
    <3>1. ~IsObj(Opener(tok)) /\ Opener(tok).live /\ Opener(tok).tok = Opening(tok)
      BY <2>7 DEF Term, IsObj
    <3>2. ~(reduce_pos > Top)
      BY <1>3, <2>5
    <3>3. QED
      BY <3>1, <3>2 DEF NoOpener, IsOpener
  <2>9. /\ Replace(Top - reduce_pos, Obj(TypeOf(tok), [i \in 1..Len(Body) |-> Body[i].obj]))
        /\ Restore
    BY <2>4, <2>6, <2>8 DEF Close
  <2>10. Top - (Top - reduce_pos) = reduce_pos
    BY <1>3
  <2>11. /\ status' = "ok" /\ reduce_pos' = Last(saved) /\ saved' = Front(saved)
         /\ stack' = Append(SubSeq(stack, 1, reduce_pos), NonTerm(Obj(TypeOf(tok), [i \in 1..Len(Body) |-> Body[i].obj])))
    BY <2>9, <2>10 DEF Replace, Restore
  <2>12. Closed(Config, tok) = State("ok", stack', reduce_pos', saved')
    BY <1>1, <2>5, <2>11 DEF Closed
  <2>13. QED
    BY <1>2, <2>3, <2>11, <2>12
<1>9. CASE tok = "R"
  <2>1. tok \notin Leaves
    BY <1>9, IntsOnly DEF Leaves, Names, Length, Strings, Booleans
  <2>2. Refers(Config)
    BY <1>4, <1>9, <2>1 DEF AfterToken
  <2>3. AfterToken(Config, tok) = Replacing(Config, 2, RefOf(Config))
    BY <1>9, <2>1, <2>2 DEF AfterToken
  <2>4. Ref /\ UNCHANGED <<reduce_pos, saved>>
    BY <1>9, <2>1 DEF AddToken, Kept, Refused
  <2>5. Replace(2, Obj("ref", RefParts))
    BY <1>1, <2>2, <2>4 DEF Ref, Refers, Top
  <2>6. RefOf(Config) = Obj("ref", RefParts)
    BY <1>1 DEF RefOf, RefParts, Top
  <2>7. QED
    BY <1>1, <1>2, <2>3, <2>4, <2>5, <2>6 DEF Replacing, Replace, Top
<1>10. CASE tok = "endobj"
  <2>1. tok \notin Leaves
    BY <1>10, IntsOnly DEF Leaves, Names, Length, Strings, Booleans
  <2>2. EndsObj(Config)
    BY <1>4, <1>10, <2>1 DEF AfterToken
  <2>3. AfterToken(Config, tok) = Replacing(Config, 4, IndOf(Config))
    BY <1>10, <2>1, <2>2 DEF AfterToken
  <2>4. EndObj /\ UNCHANGED <<reduce_pos, saved>>
    BY <1>10, <2>1 DEF AddToken, Kept, Refused
  <2>5. Top >= 4 /\ IsInt(stack[Top - 3]) /\ IsInt(stack[Top - 2]) /\ IsObj(stack[Top])
    BY <1>1, <2>2 DEF EndsObj, Top
  <2>6. Replace(4, Obj("ind", <<stack[Top - 3].obj, stack[Top - 2].obj, stack[Top].obj>>))
    BY <1>3, <2>4, <2>5 DEF EndObj
  <2>7. IndOf(Config) = Obj("ind", <<stack[Top - 3].obj, stack[Top - 2].obj, stack[Top].obj>>)
    BY <1>1 DEF IndOf, Top
  <2>8. QED
    BY <1>1, <1>2, <2>3, <2>4, <2>6, <2>7 DEF Replacing, Replace, Top
<1>11. CASE tok \notin Leaves \union {"obj", "[", "<", "]", ">", "R", "endobj"}
  BY <1>4, <1>11 DEF AfterToken
<1>12. QED
  BY <1>5, <1>6, <1>7, <1>8, <1>9, <1>10, <1>11

-----------------------------------------------------------------------------
(* The symbols stand for the tokens that were read.                         *)

ContentOf(syms) == [i \in 1..Len(syms) |-> SymbolItem(syms[i])]

LEMMA ContentIs ==
  ASSUME NEW syms, IsSeq(syms)
  PROVE  /\ IsSeq(ContentOf(syms)) /\ Len(ContentOf(syms)) = Len(syms)
         /\ \A i \in 1..Len(syms) : ContentOf(syms)[i] = SymbolItem(syms[i])
<1>1. Len(syms) \in Nat
  BY SeqFacts
<1>2. PICK n, f : n = Len(syms) /\ f = ContentOf(syms)
  OBVIOUS
<1>3. n \in Nat /\ f = [i \in 1..n |-> f[i]] /\ \A i \in 1..n : f[i] = SymbolItem(syms[i])
  BY <1>1, <1>2 DEF ContentOf
<1>4. IsSeq(f) /\ Len(f) = n
  BY <1>3, FnIsSeq
<1>5. QED
  BY <1>2, <1>3, <1>4

\* The items of the symbols behind place m.
Behind(syms, m) == ContentOf(SubSeq(syms, m + 1, Len(syms)))

Cut(syms, m, n, sym) ==
  /\ IsSeq(ContentOf(SubSeq(syms, 1, m))) /\ IsSeq(Behind(syms, m)) /\ Len(Behind(syms, m)) = n
  /\ \A i \in 1..n : Behind(syms, m)[i] = SymbolItem(syms[m + i])
  /\ ContentOf(syms) = ContentOf(SubSeq(syms, 1, m)) \o Behind(syms, m)
  /\ ContentOf(Append(SubSeq(syms, 1, m), sym)) = Append(ContentOf(SubSeq(syms, 1, m)), SymbolItem(sym))

LEMMA ContentCut ==
  ASSUME NEW syms, NEW m \in Nat, NEW n \in Nat, NEW sym, IsSeq(syms), Len(syms) = m + n
  PROVE  Cut(syms, m, n, sym)
<1>1. PICK front, back : front = SubSeq(syms, 1, m) /\ back = SubSeq(syms, m + 1, Len(syms))
  OBVIOUS
<1>2. m \in 0..Len(syms)
  OBVIOUS
<1>3. IsSeq(front) /\ Len(front) = m /\ \A i \in 1..m : front[i] = syms[i]
  BY <1>1, <1>2, CutFacts
<1>4. IsSeq(back) /\ Len(back) = n /\ \A i \in 1..n : back[i] = syms[m + i]
  BY <1>1, BehindFacts
<1>5. PICK f, b, all : f = ContentOf(front) /\ b = ContentOf(back) /\ all = ContentOf(syms)
  OBVIOUS
<1>6. IsSeq(f) /\ Len(f) = m /\ \A i \in 1..m : f[i] = SymbolItem(syms[i])
  BY <1>3, <1>5, ContentIs
<1>7. IsSeq(b) /\ Len(b) = n /\ \A i \in 1..n : b[i] = SymbolItem(syms[m + i])
  BY <1>4, <1>5, ContentIs
<1>8. IsSeq(all) /\ Len(all) = m + n /\ \A i \in 1..(m + n) : all[i] = SymbolItem(syms[i])
  BY <1>5, ContentIs
<1>9. all = f \o b
  <2>1. PICK j : j = f \o b
    OBVIOUS
  <2>2. IsSeq(j) /\ Len(j) = m + n /\ (\A i \in 1..m : j[i] = f[i]) /\ \A i \in 1..n : j[m + i] = b[i]
    <3>1. IsSeq(f) /\ IsSeq(b)
      BY <1>6, <1>7
    <3>2. LET r == f \o b IN /\ IsSeq(r) /\ Len(r) = Len(f) + Len(b)
            /\ (\A i \in 1..Len(f) : r[i] = f[i]) /\ \A i \in 1..Len(b) : r[Len(f) + i] = b[i]
      BY ONLY <3>1, JoinFacts
    <3>3. QED
      BY <1>6, <1>7, <2>1, <3>2
  <2>3. ASSUME NEW i \in 1..(m + n) PROVE j[i] = all[i]
    <3>1. CASE i \in 1..m
      BY <1>6, <1>8, <2>2, <3>1
    <3>2. CASE i \notin 1..m
      <4>1. PICK k : k = i - m
        OBVIOUS
      <4>2. k \in 1..n /\ i = m + k
        BY <3>2, <4>1
      <4>3. QED
        BY <1>7, <1>8, <2>2, <4>2
    <3>3. QED
      BY <3>1, <3>2
  <2>4. Same(all, j)
    BY <1>8, <2>2, <2>3 DEF Same
  <2>5. QED
    BY <1>8, <2>1, <2>2, <2>4, SameIsEqual
<1>10. ContentOf(Append(front, sym)) = Append(f, SymbolItem(sym))
  <2>1. PICK a, x, c, d : a = Append(front, sym) /\ x = SymbolItem(sym) /\ c = ContentOf(a) /\ d = Append(f, x)
    OBVIOUS
  <2>2. Grown(front, sym, a, m)
    <3>1. Grows(front, sym, a, m)
      BY <1>3, <2>1 DEF Grows
    <3>2. QED
      BY <3>1, Appended
  <2>3. Grown(f, x, d, m)
    <3>1. Grows(f, x, d, m)
      BY <1>6, <2>1 DEF Grows
    <3>2. QED
      BY <3>1, Appended
  <2>4. IsSeq(c) /\ Len(c) = m + 1 /\ \A i \in 1..(m + 1) : c[i] = SymbolItem(a[i])
    BY <2>1, <2>2, ContentIs DEF Grown
  <2>5. ASSUME NEW i \in 1..(m + 1) PROVE c[i] = d[i]
    <3>1. CASE i \in 1..m
      BY <1>3, <1>6, <2>2, <2>3, <2>4, <3>1 DEF Grown
    <3>2. CASE i = m + 1
      BY <2>1, <2>2, <2>3, <2>4, <3>2 DEF Grown
    <3>3. QED
      BY <3>1, <3>2
  <2>6. Same(c, d) /\ IsSeq(d)
    BY <2>3, <2>4, <2>5 DEF Same, Grown
  <2>7. QED
    BY <2>1, <2>4, <2>6, SameIsEqual
<1>11. QED
  BY <1>1, <1>5, <1>6, <1>7, <1>9, <1>10 DEF Behind, Cut

\* What the symbols stand for, and a text.
Means(syms, n, toks) ==
  /\ Deep(ContentOf(syms)) /\ AllTokens(Written(ContentOf(syms), n))
  /\ Written(ContentOf(syms), n) = toks

\* Replacing the symbols behind place m by one that is written as they are, and then a
\* token, reads this token.
LEMMA OneMeans ==
  ASSUME NEW syms, NEW m \in Nat, NEW l \in Nat, NEW n \in Nat, NEW sym, NEW tok \in Tokens, NEW toks,
         IsSeq(syms), Len(syms) = m + l, Means(syms, n, toks), WellFormed(SymbolItem(sym)),
         Unwrapped(SymbolItem(sym)) = Behind(syms, m) \o <<Item(tok)>>
  PROVE  Means(Append(SubSeq(syms, 1, m), sym), n + 1, Append(toks, Item(tok)))
<1>1. PICK front, mid, x : front = ContentOf(SubSeq(syms, 1, m)) /\ mid = Behind(syms, m) /\ x = SymbolItem(sym)
  OBVIOUS
<1>2. /\ IsSeq(front) /\ IsSeq(mid) /\ ContentOf(syms) = front \o mid
      /\ ContentOf(Append(SubSeq(syms, 1, m), sym)) = Append(front, x)
  <2>1. Cut(syms, m, l, sym)
    BY ContentCut
  <2>2. QED
    BY <1>1, <2>1 DEF Cut
<1>3. Deep(front \o mid) /\ AllTokens(Written(front \o mid, n)) /\ toks = Written(front \o mid, n)
  BY <1>2 DEF Means
<1>4. WellFormed(x) /\ Unwrapped(x) = mid \o <<Item(tok)>>
  BY <1>1
<1>5. /\ Deep(Append(front, x))
      /\ Written(Append(front, x), n + 1) = Append(Written(front \o mid, n), Item(tok))
      /\ AllTokens(Written(Append(front, x), n + 1))
  BY <1>2, <1>3, <1>4, OneMore
<1>6. QED
  BY <1>2, <1>3, <1>5 DEF Means

LEMMA FullCut ==
  ASSUME NEW syms, IsSeq(syms)
  PROVE  SubSeq(syms, 1, Len(syms)) = syms
<1>1. PICK n, s : n = Len(syms) /\ s = SubSeq(syms, 1, n)
  OBVIOUS
<1>2. n \in 0..Len(syms)
  BY <1>1, SeqFacts
<1>3. IsSeq(s) /\ Len(s) = n /\ \A i \in 1..n : s[i] = syms[i]
  BY <1>1, <1>2, CutFacts
<1>4. Same(s, syms)
  BY <1>1, <1>3 DEF Same
<1>5. QED
  BY <1>1, <1>3, <1>4, SameIsEqual

\* A token that is pushed, as an object or as it is.
LEMMA PushMeans ==
  ASSUME NEW syms, NEW n \in Nat, NEW sym, NEW tok \in Tokens, NEW toks,
         IsSeq(syms), Means(syms, n, toks), WellFormed(SymbolItem(sym)),
         Unwrapped(SymbolItem(sym)) = <<Item(tok)>>
  PROVE  Means(Append(syms, sym), n + 1, Append(toks, Item(tok)))
<1>1. PICK m, b, o : m = Len(syms) /\ b = Behind(syms, m) /\ o = <<Item(tok)>>
  OBVIOUS
<1>2. m \in Nat /\ 0 \in Nat /\ Len(syms) = m + 0 /\ IsSeq(o)
  BY <1>1, SeqFacts, OneFacts
<1>3. IsSeq(b) /\ Len(b) = 0
  <2>1. Cut(syms, m, 0, sym)
    BY <1>2, ContentCut
  <2>2. QED
    BY <1>1, <2>1 DEF Cut
<1>4. b = <<>>
  <2>1. Same(b, <<>>)
    BY <1>3, NoneFacts DEF Same
  <2>2. QED
    BY <1>3, <2>1, NoneFacts, SameIsEqual
<1>5. b \o o = o
  BY <1>2, <1>4, JoinNone
<1>6. Unwrapped(SymbolItem(sym)) = Behind(syms, m) \o <<Item(tok)>>
  BY <1>1, <1>5
<1>7. Means(Append(SubSeq(syms, 1, m), sym), n + 1, Append(toks, Item(tok)))
  BY <1>2, <1>6, OneMeans
<1>8. QED
  BY <1>1, <1>7, FullCut

\* Objects on the stack are no tokens.
NoTokens(syms) == \A i \in 1..Len(syms) : IsObj(syms[i]) => syms[i].obj.t # "token"

LEMMA ItemOfSym ==
  ASSUME NEW obj, NEW tok, NEW live
  PROVE  /\ SymbolItem(NonTerm(obj)) = obj /\ SymbolItem(Term(tok, live)) = Item(tok)
         /\ \A sym : IsObj(sym) => SymbolItem(sym) = sym.obj
BY DEF SymbolItem, NonTerm, Term, IsObj

LEMMA ItemIs ==
  ASSUME NEW tok \in Tokens
  PROVE  WellFormed(Item(tok)) /\ Unwrapped(Item(tok)) = <<Item(tok)>>
<1>1. PICK parts : parts = <<tok>>
  OBVIOUS
<1>2. Len(parts) = 1 /\ parts[1] = tok /\ parts = [i \in 1..1 |-> parts[i]]
  BY <1>1
<1>3. PICK x : x = Item(tok)
  OBVIOUS
<1>4. x = Obj(x.t, x.of) /\ x.t = "token" /\ x.of = parts
  BY <1>1, <1>3 DEF Item, Obj
<1>5. WellFormed(x)
  <2>1. Len(x.of) = 1 /\ x.of = [i \in 1..1 |-> x.of[i]] /\ x.of[1] \in Tokens
    BY <1>2, <1>4
  <2>2. QED
    BY <1>4, <2>1 DEF WellFormed
<1>6. QED
  BY <1>3, <1>4, <1>5, TokenIs

LEMMA LeafIs ==
  ASSUME NEW tok \in Leaves
  PROVE  WellFormed(Leaf(tok)) /\ Unwrapped(Leaf(tok)) = <<Item(tok)>>
<1>1. PICK parts : parts = <<tok>>
  OBVIOUS
<1>2. Len(parts) = 1 /\ parts[1] = tok /\ parts = [i \in 1..1 |-> parts[i]]
  BY <1>1
<1>3. LeafType(tok) \in LeafTypes
  BY DEF LeafType, LeafTypes
<1>4. PICK x : x = Leaf(tok)
  OBVIOUS
<1>5. x = Obj(x.t, x.of) /\ x.t = LeafType(tok) /\ x.of = parts
  BY <1>1, <1>4 DEF Leaf, Obj
<1>6. WellFormed(x)
  <2>1. Len(x.of) = 1 /\ x.of = [i \in 1..1 |-> x.of[i]] /\ x.of[1] = tok /\ x.t \in LeafTypes
    BY <1>2, <1>3, <1>5
  <2>2. x.of[1] \in Leaves /\ x = Leaf(x.of[1])
    BY <1>4, <2>1
  <2>3. QED
    BY <1>5, <2>1, <2>2 DEF WellFormed
<1>7. QED
  BY <1>2, <1>3, <1>4, <1>5, <1>6, UnwrappedIs

LEMMA CloseMeans ==
  ASSUME NEW c, NEW tok \in {"]", ">"}, NEW n \in Nat, NEW toks,
         IsState(c), NoTokens(c.syms), Means(c.syms, n, toks), Closable(c, tok)
  PROVE  Means(Closed(c, tok).syms, n + 1, Append(toks, Item(tok)))
<1>1. PICK s, m, all, l : s = c.syms /\ m = c.pos /\ all = Len(s) /\ l = all - m
  OBVIOUS
<1>2. IsSeq(s) /\ m \in Nat /\ all \in Nat /\ m < all /\ l \in Nat /\ l >= 1 /\ all = m + l
  BY <1>1, SeqFacts DEF IsState, Closable
<1>0. PICK k, q : k = l - 1 /\ q = m + 1
  OBVIOUS
<1>3. PICK body : body = BodyOf(c) /\ q = m + 1
  BY <1>0
<1>4. k \in Nat /\ q \in Nat /\ l = k + 1 /\ Len(s) = q + k /\ q + 1 = m + 2 /\ \A i \in 1..k : q + i = m + (i + 1)
  <2>1. k \in Nat /\ q \in Nat /\ l = k + 1 /\ all = q + k /\ q + 1 = m + 2
    BY ONLY <1>2, <1>0
  <2>2. \A i \in 1..k : q + i = m + (i + 1)
    BY ONLY <1>2, <1>0
  <2>3. QED
    BY <1>1, <2>1, <2>2
<1>5. IsSeq(body) /\ Len(body) = k /\ \A i \in 1..k : body[i] = s[q + i]
  <2>1. body = SubSeq(s, q + 1, Len(s))
    BY <1>1, <1>3, <1>4 DEF BodyOf
  <2>2. IsSeq(s) /\ k \in Nat /\ q \in Nat /\ Len(s) = q + k
    BY <1>2, <1>4
  <2>3. LET rest == SubSeq(s, q + 1, Len(s)) IN
         /\ IsSeq(rest) /\ Len(rest) = k /\ \A i \in 1..k : rest[i] = s[q + i]
    BY ONLY <2>2, BehindFacts
  <2>4. QED
    BY <2>1, <2>3
<1>6. /\ s[q] = Term(Opening(tok), TRUE)
      /\ \A i \in 1..k : IsObj(body[i])
      /\ tok = ">" => k % 2 = 0 /\ \A i \in 1..k : i % 2 = 1 => IsName(body[i])
  BY <1>1, <1>3, <1>5 DEF Closable
<1>7. PICK objs : objs = [i \in 1..k |-> body[i].obj]
  OBVIOUS
<1>8. IsSeq(objs) /\ Len(objs) = k /\ (\A i \in 1..k : objs[i] = body[i].obj) /\ objs = [i \in 1..k |-> objs[i]]
  <2>1. objs = [i \in 1..k |-> objs[i]]
    BY <1>7
  <2>2. IsSeq(objs) /\ Len(objs) = k
    BY <1>4, <2>1, FnIsSeq
  <2>3. QED
    BY <1>7, <2>1, <2>2
<1>9. \A i \in 1..k : objs[i].t # "token" /\ (tok = ">" /\ i % 2 = 1 => objs[i].t = "name")
  <2>1. ASSUME NEW i \in 1..k PROVE objs[i].t # "token"
    <3>1. q + i \in 1..Len(s)
      BY <1>4
    <3>2. IsObj(s[q + i])
      BY <1>5, <1>6
    <3>3. QED
      BY <1>1, <1>5, <1>8, <3>1, <3>2 DEF NoTokens
  <2>2. QED
    BY <1>6, <1>8, <2>1 DEF IsName
<1>10. PICK x : x = Obj(TypeOf(tok), objs)
  OBVIOUS
<1>11. x.t = TypeOf(tok) /\ x.of = objs /\ x = Obj(x.t, x.of)
  BY <1>10 DEF Obj
<1>12. WellFormed(x)
  <2>1. CASE tok = "]"
    <3>1. x.t = "array"
      BY <1>11, <2>1 DEF TypeOf
    <3>2. QED
      BY <1>4, <1>8, <1>9, <1>11, <3>1 DEF WellFormed
  <2>2. CASE tok = ">"
    <3>1. x.t = "dict"
      BY <1>11, <2>2 DEF TypeOf
    <3>2. k % 2 = 0 /\ \A i \in 1..k : objs[i].t # "token" /\ (i % 2 = 1 => objs[i].t = "name")
      BY <1>6, <1>9, <2>2
    <3>3. QED
      BY <1>4, <1>8, <1>11, <3>1, <3>2 DEF WellFormed
  <2>3. QED
    BY <2>1, <2>2
<1>13. Unwrapped(x) = <<Item(Opening(tok))>> \o objs \o <<Item(tok)>>
  <2>1. CASE tok = "]"
    <3>1. x.t = "array" /\ Opening(tok) = "["
      BY <1>11, <2>1 DEF TypeOf, Opening
    <3>2. QED
      BY <1>11, <1>12, <2>1, <3>1, UnwrappedIs
  <2>2. CASE tok = ">"
    <3>1. x.t = "dict" /\ Opening(tok) = "<"
      BY <1>11, <2>2 DEF TypeOf, Opening
    <3>2. QED
      BY <1>11, <1>12, <2>2, <3>1, UnwrappedIs
  <2>3. QED
    BY <2>1, <2>2
<1>14. PICK sym, b, o : sym = NonTerm(x) /\ b = Behind(s, m) /\ o = <<Item(Opening(tok))>>
  OBVIOUS
<1>15. IsSeq(b) /\ Len(b) = l /\ \A i \in 1..l : b[i] = SymbolItem(s[m + i])
  <2>1. Len(s) = m + l
    BY <1>1, <1>2
  <2>2. Cut(s, m, l, sym)
    BY <1>2, <2>1, ContentCut
  <2>3. QED
    BY <1>14, <2>2 DEF Cut
<1>16. b = o \o objs
  <2>1. PICK j : j = o \o objs
    OBVIOUS
  <2>2. IsSeq(o) /\ Len(o) = 1 /\ o[1] = Item(Opening(tok))
    BY <1>14, OneFacts
  <2>3. IsSeq(j) /\ Len(j) = l /\ j[1] = Item(Opening(tok)) /\ \A i \in 1..k : j[i + 1] = objs[i]
    <3>1. IsSeq(o) /\ IsSeq(objs)
      BY <1>8, <2>2
    <3>2. LET r == o \o objs IN /\ IsSeq(r) /\ Len(r) = Len(o) + Len(objs)
            /\ (\A i \in 1..Len(o) : r[i] = o[i]) /\ \A i \in 1..Len(objs) : r[Len(o) + i] = objs[i]
      BY ONLY <3>1, JoinFacts
    <3>3. 1 \in 1..1 /\ 1 + k = l /\ \A i \in 1..k : 1 + i = i + 1
      BY <1>4
    <3>4. QED
      BY <1>8, <2>1, <2>2, <3>2, <3>3
  <2>4. ASSUME NEW i \in 1..l PROVE b[i] = j[i]
    <3>1. CASE i = 1
      <4>1. b[1] = SymbolItem(s[q])
        BY <1>3, <1>15, <3>1
      <4>2. s[q].type = "term" /\ s[q].tok = Opening(tok)
        BY <1>6 DEF Term
      <4>3. SymbolItem(s[q]) = Item(Opening(tok))
        BY <4>2 DEF SymbolItem, IsObj
      <4>4. QED
        BY <2>3, <3>1, <4>1, <4>3
    <3>2. CASE i # 1
      <4>1. PICK h : h = i - 1
        OBVIOUS
      <4>2. h \in 1..k /\ i = h + 1 /\ q + h = m + i
        BY <1>3, <1>4, <3>2, <4>1
      <4>3. b[i] = SymbolItem(body[h])
        BY <1>5, <1>15, <4>2
      <4>4. QED
        BY <1>6, <1>8, <2>3, <4>2, <4>3, ItemOfSym
    <3>3. QED
      BY <3>1, <3>2
  <2>5. Same(b, j)
    BY <1>15, <2>3, <2>4 DEF Same
  <2>6. QED
    BY <1>15, <2>1, <2>3, <2>5, SameIsEqual
<1>17. WellFormed(SymbolItem(sym)) /\ Unwrapped(SymbolItem(sym)) = Behind(s, m) \o <<Item(tok)>>
  BY <1>12, <1>13, <1>14, <1>16, ItemOfSym
<1>18. tok \in Tokens
  BY DEF Tokens, Brackets
<1>19. Means(Append(SubSeq(s, 1, m), sym), n + 1, Append(toks, Item(tok)))
  <2>1. Len(s) = m + l /\ Means(s, n, toks)
    BY <1>1, <1>2
  <2>2. QED
    BY <1>2, <1>17, <1>18, <2>1, OneMeans
<1>20. Closed(c, tok).syms = Append(SubSeq(s, 1, m), sym)
  <2>1. [i \in 1..Len(BodyOf(c)) |-> BodyOf(c)[i].obj] = objs
    BY <1>3, <1>5, <1>7
  <2>2. QED
    BY <1>1, <1>10, <1>14, <2>1 DEF Closed, State
<1>21. QED
  BY <1>19, <1>20

LEMMA PairIs ==
  ASSUME NEW x, NEW y
  PROVE  LET p == <<x, y>> IN
         IsSeq(p) /\ Len(p) = 2 /\ p[1] = x /\ p[2] = y /\ p = [i \in 1..2 |-> p[i]]
<1>1. PICK S, p : S = {x, y} /\ p = <<x, y>>
  OBVIOUS
<1>2. p \in Seq(S) /\ Len(p) = 2 /\ p[1] = x /\ p[2] = y
  BY <1>1
<1>3. IsSeq(p)
  BY <1>2 DEF IsSeq
<1>4. p = [i \in 1..Len(p) |-> p[i]]
  BY <1>3, SeqFacts
<1>5. QED
  BY <1>1, <1>2, <1>3, <1>4

LEMMA TripleIs ==
  ASSUME NEW x, NEW y, NEW z
  PROVE  LET p == <<x, y, z>> IN
         IsSeq(p) /\ Len(p) = 3 /\ p[1] = x /\ p[2] = y /\ p[3] = z /\ p = [i \in 1..3 |-> p[i]]
<1>1. PICK S, p : S = {x, y, z} /\ p = <<x, y, z>>
  OBVIOUS
<1>2. p \in Seq(S) /\ Len(p) = 3 /\ p[1] = x /\ p[2] = y /\ p[3] = z
  BY <1>1
<1>3. IsSeq(p)
  BY <1>2 DEF IsSeq
<1>4. p = [i \in 1..Len(p) |-> p[i]]
  BY <1>3, SeqFacts
<1>5. QED
  BY <1>1, <1>2, <1>3, <1>4

LEMMA RefMeans ==
  ASSUME NEW c, NEW n \in Nat, NEW toks,
         IsState(c), Means(c.syms, n, toks), Refers(c)
  PROVE  Means(Replacing(c, 2, RefOf(c)).syms, n + 1, Append(toks, Item("R")))
<1>1. PICK s, all, m : s = c.syms /\ all = Len(s) /\ m = all - 2
  OBVIOUS
<1>2. IsSeq(s) /\ all \in Nat /\ all >= 2 /\ IsInt(s[all - 1]) /\ IsInt(s[all])
  BY <1>1, SeqFacts DEF IsState, Refers
<1>3. m \in Nat /\ 2 \in Nat /\ Len(s) = m + 2 /\ all - 1 = m + 1 /\ all = m + 2
  <2>1. m \in Nat /\ all = m + 2 /\ all - 1 = m + 1
    BY <1>1, <1>2
  <2>2. QED
    BY <1>1, <2>1
<1>4. PICK x, y, objs, o : x = s[m + 1].obj /\ y = s[m + 2].obj /\ objs = <<x, y>> /\ o = Obj("ref", objs)
  OBVIOUS
<1>5. IsSeq(objs) /\ Len(objs) = 2 /\ objs[1] = x /\ objs[2] = y /\ objs = [i \in 1..2 |-> objs[i]]
  BY <1>4, PairIs
<1>6. x.t = "int" /\ y.t = "int" /\ SymbolItem(s[m + 1]) = x /\ SymbolItem(s[m + 2]) = y
  BY <1>2, <1>3, <1>4, ItemOfSym DEF IsInt
<1>7. o.t = "ref" /\ o.of = objs /\ o = Obj(o.t, o.of)
  BY <1>4 DEF Obj
<1>8. WellFormed(o)
  BY <1>5, <1>6, <1>7 DEF WellFormed
<1>9. Unwrapped(o) = objs \o <<Item("R")>>
  BY <1>7, <1>8, UnwrappedIs
<1>10. PICK sym, b : sym = NonTerm(o) /\ b = Behind(s, m)
  OBVIOUS
<1>11. IsSeq(b) /\ Len(b) = 2 /\ \A i \in 1..2 : b[i] = SymbolItem(s[m + i])
  <2>1. Cut(s, m, 2, sym)
    BY <1>2, <1>3, ContentCut
  <2>2. QED
    BY <1>10, <2>1 DEF Cut
<1>12. b = objs
  <2>1. ASSUME NEW i \in 1..2 PROVE b[i] = objs[i]
    <3>1. i = 1 \/ i = 2
      OBVIOUS
    <3>2. QED
      BY <1>5, <1>6, <1>11, <3>1
  <2>2. Same(b, objs)
    BY <1>5, <1>11, <2>1 DEF Same
  <2>3. QED
    BY <1>5, <1>11, <2>2, SameIsEqual
<1>13. WellFormed(SymbolItem(sym)) /\ Unwrapped(SymbolItem(sym)) = Behind(s, m) \o <<Item("R")>>
  BY <1>8, <1>9, <1>10, <1>12, ItemOfSym
<1>14. Means(Append(SubSeq(s, 1, m), sym), n + 1, Append(toks, Item("R")))
  <2>1. "R" \in Tokens /\ Means(s, n, toks)
    BY <1>1 DEF Tokens
  <2>2. QED
    BY <1>2, <1>3, <1>13, <2>1, OneMeans
<1>15. Replacing(c, 2, RefOf(c)).syms = Append(SubSeq(s, 1, m), sym)
  <2>1. RefOf(c) = o
    BY <1>1, <1>3, <1>4 DEF RefOf
  <2>2. QED
    BY <1>1, <1>10, <2>1 DEF Replacing, State
<1>16. QED
  BY <1>14, <1>15

LEMMA IndMeans ==
  ASSUME NEW c, NEW n \in Nat, NEW toks,
         IsState(c), NoTokens(c.syms), Means(c.syms, n, toks), EndsObj(c)
  PROVE  Means(Replacing(c, 4, IndOf(c)).syms, n + 1, Append(toks, Item("endobj")))
<1>1. PICK s, all, m : s = c.syms /\ all = Len(s) /\ m = all - 4
  OBVIOUS
<1>2. /\ IsSeq(s) /\ all \in Nat /\ all >= 4 /\ IsInt(s[all - 3]) /\ IsInt(s[all - 2]) /\ IsObj(s[all])
      /\ s[all - 1].type = "term" /\ s[all - 1].tok = "obj"
  <2>1. s[all - 1] = Term("obj", FALSE)
    BY <1>1 DEF EndsObj
  <2>2. s[all - 1].type = "term" /\ s[all - 1].tok = "obj"
    BY <2>1 DEF Term
  <2>3. QED
    BY <1>1, <2>2, SeqFacts DEF IsState, EndsObj
<1>3. m \in Nat /\ 4 \in Nat /\ Len(s) = m + 4 /\ all - 3 = m + 1 /\ all - 2 = m + 2 /\ all - 1 = m + 3 /\ all = m + 4
  <2>1. m \in Nat /\ all = m + 4 /\ all - 3 = m + 1 /\ all - 2 = m + 2 /\ all - 1 = m + 3
    BY <1>1, <1>2
  <2>2. QED
    BY <1>1, <2>1
<1>4. PICK x, y, z, objs, o : /\ x = s[m + 1].obj /\ y = s[m + 2].obj /\ z = s[m + 4].obj
                              /\ objs = <<x, y, z>> /\ o = Obj("ind", objs)
  OBVIOUS
<1>5. /\ IsSeq(objs) /\ Len(objs) = 3 /\ objs[1] = x /\ objs[2] = y /\ objs[3] = z
      /\ objs = [i \in 1..3 |-> objs[i]]
  BY <1>4, TripleIs
<1>6. /\ x.t = "int" /\ y.t = "int" /\ z.t # "token"
      /\ SymbolItem(s[m + 1]) = x /\ SymbolItem(s[m + 2]) = y /\ SymbolItem(s[m + 4]) = z
      /\ SymbolItem(s[m + 3]) = Item("obj")
  <2>1. m + 4 \in 1..Len(s)
    BY <1>3
  <2>2. z.t # "token"
    BY <1>1, <1>2, <1>3, <1>4, <2>1 DEF NoTokens
  <2>3. SymbolItem(s[m + 3]) = Item("obj")
    BY <1>2, <1>3 DEF SymbolItem, IsObj
  <2>4. QED
    BY <1>2, <1>3, <1>4, <2>2, <2>3, ItemOfSym DEF IsInt
<1>7. o.t = "ind" /\ o.of = objs /\ o = Obj(o.t, o.of)
  BY <1>4 DEF Obj
<1>8. WellFormed(o)
  BY <1>5, <1>6, <1>7 DEF WellFormed
<1>9. Unwrapped(o) = <<x, y, Item("obj"), z, Item("endobj")>>
  BY <1>5, <1>7, <1>8, UnwrappedIs
<1>10. PICK sym, b, last : sym = NonTerm(o) /\ b = Behind(s, m) /\ last = Item("endobj")
  OBVIOUS
<1>11. IsSeq(b) /\ Len(b) = 4 /\ \A i \in 1..4 : b[i] = SymbolItem(s[m + i])
  <2>1. Cut(s, m, 4, sym)
    BY <1>2, <1>3, ContentCut
  <2>2. QED
    BY <1>10, <2>1 DEF Cut
<1>12. Unwrapped(o) = b \o <<last>>
  <2>1. PICK r, w, mid : r = Append(b, last) /\ mid = Item("obj") /\ w = <<x, y, mid, z, last>>
    OBVIOUS
  <2>2. Grown(b, last, r, 4)
    <3>1. Grows(b, last, r, 4)
      BY <1>11, <2>1 DEF Grows
    <3>2. QED
      BY <3>1, Appended
  <2>3. r = b \o <<last>>
    BY <1>11, <2>1, AppendIs
  <2>4. IsSeq(w) /\ Len(w) = 5 /\ w[1] = x /\ w[2] = y /\ w[3] = mid /\ w[4] = z /\ w[5] = last
    <3>1. PICK S : S = {x, y, mid, z, last}
      OBVIOUS
    <3>2. w \in Seq(S)
      BY <2>1, <3>1
    <3>3. QED
      BY <2>1, <3>2 DEF IsSeq
  <2>5. /\ IsSeq(r) /\ Len(r) = 5 /\ r[1] = x /\ r[2] = y /\ r[3] = mid /\ r[4] = z /\ r[5] = last
    <3>1. 1 \in 1..4 /\ 2 \in 1..4 /\ 3 \in 1..4 /\ 4 \in 1..4
      OBVIOUS
    <3>2. IsSeq(r) /\ Len(r) = 5 /\ r[5] = last /\ r[1] = b[1] /\ r[2] = b[2] /\ r[3] = b[3] /\ r[4] = b[4]
      BY <2>2, <3>1 DEF Grown
    <3>3. b[1] = x /\ b[2] = y /\ b[3] = mid /\ b[4] = z
      BY <1>6, <1>11, <2>1, <3>1
    <3>4. QED
      BY <3>2, <3>3
  <2>6. Same(w, r)
    <3>1. \A i \in 1..5 : i = 1 \/ i = 2 \/ i = 3 \/ i = 4 \/ i = 5
      OBVIOUS
    <3>2. QED
      BY <2>4, <2>5, <3>1 DEF Same
  <2>7. w = r
    BY <2>4, <2>5, <2>6, SameIsEqual
  <2>8. QED
    BY <1>9, <1>10, <2>1, <2>3, <2>7
<1>13. WellFormed(SymbolItem(sym)) /\ Unwrapped(SymbolItem(sym)) = Behind(s, m) \o <<Item("endobj")>>
  BY <1>8, <1>10, <1>12, ItemOfSym
<1>14. Means(Append(SubSeq(s, 1, m), sym), n + 1, Append(toks, Item("endobj")))
  <2>1. "endobj" \in Tokens /\ Means(s, n, toks)
    BY <1>1 DEF Tokens
  <2>2. QED
    BY <1>2, <1>3, <1>13, <2>1, OneMeans
<1>15. Replacing(c, 4, IndOf(c)).syms = Append(SubSeq(s, 1, m), sym)
  <2>1. IndOf(c) = o
    BY <1>1, <1>3, <1>4 DEF IndOf
  <2>2. QED
    BY <1>1, <1>10, <2>1 DEF Replacing, State
<1>16. QED
  BY <1>14, <1>15

LEMMA TokenMeans ==
  ASSUME NEW c, NEW tok \in Tokens, NEW n \in Nat, NEW toks,
         IsState(c), NoTokens(c.syms), Means(c.syms, n, toks), AfterToken(c, tok).ok = "ok"
  PROVE  Means(AfterToken(c, tok).syms, n + 1, Append(toks, Item(tok)))
<1>1. IsSeq(c.syms)
  BY DEF IsState
<1>2. Stuck(c).ok = "stuck"
  BY DEF Stuck, State
<1>3. CASE tok \in Leaves
  <2>1. AfterToken(c, tok).syms = Append(c.syms, NonTerm(Leaf(tok)))
    BY <1>3 DEF AfterToken, Pushing, State
  <2>2. PICK sym : sym = NonTerm(Leaf(tok))
    OBVIOUS
  <2>3. WellFormed(SymbolItem(sym)) /\ Unwrapped(SymbolItem(sym)) = <<Item(tok)>>
    BY <1>3, <2>2, ItemOfSym, LeafIs
  <2>4. Means(Append(c.syms, sym), n + 1, Append(toks, Item(tok)))
    BY <1>1, <2>3, PushMeans
  <2>5. QED
    BY <2>1, <2>2, <2>4
<1>4. ASSUME NEW live, NEW sym, sym = Term(tok, live)
      PROVE  Means(Append(c.syms, sym), n + 1, Append(toks, Item(tok)))
  <2>1. sym.type = "term" /\ sym.tok = tok
    BY <1>4 DEF Term
  <2>2. SymbolItem(sym) = Item(tok)
    BY <2>1 DEF SymbolItem, IsObj
  <2>3. WellFormed(SymbolItem(sym)) /\ Unwrapped(SymbolItem(sym)) = <<Item(tok)>>
    BY <2>2, ItemIs
  <2>4. QED
    BY <1>1, <2>3, PushMeans
<1>5. CASE tok = "obj"
  <2>1. tok \notin Leaves
    BY <1>5, IntsOnly DEF Leaves, Names, Length, Strings, Booleans
  <2>2. PICK sym : sym = Term(tok, FALSE)
    OBVIOUS
  <2>3. AfterToken(c, tok).syms = Append(c.syms, sym)
    BY <1>5, <2>1, <2>2 DEF AfterToken, Pushing, State
  <2>4. QED
    BY <1>4, <2>2, <2>3
<1>6. CASE tok \in {"[", "<"}
  <2>1. tok \notin Leaves /\ tok # "obj"
    BY <1>6, IntsOnly DEF Leaves, Names, Length, Strings, Booleans
  <2>2. PICK sym : sym = Term(tok, TRUE)
    OBVIOUS
  <2>3. AfterToken(c, tok).syms = Append(c.syms, sym)
    BY <1>6, <2>1, <2>2 DEF AfterToken, Opened, State
  <2>4. QED
    BY <1>4, <2>2, <2>3
<1>7. CASE tok \in {"]", ">"}
  <2>1. tok \notin Leaves /\ tok # "obj" /\ tok \notin {"[", "<"} /\ tok # "R" /\ tok # "endobj"
    BY <1>7, IntsOnly DEF Leaves, Names, Length, Strings, Booleans
  <2>2. Closable(c, tok)
    BY <1>2, <1>7, <2>1 DEF AfterToken
  <2>3. AfterToken(c, tok) = Closed(c, tok)
    BY <1>7, <2>1, <2>2 DEF AfterToken
  <2>4. QED
    BY <1>7, <2>2, <2>3, CloseMeans
<1>8. CASE tok = "R"
  <2>1. tok \notin Leaves
    BY <1>8, IntsOnly DEF Leaves, Names, Length, Strings, Booleans
  <2>2. Refers(c)
    BY <1>2, <1>8, <2>1 DEF AfterToken
  <2>3. AfterToken(c, tok) = Replacing(c, 2, RefOf(c))
    BY <1>8, <2>1, <2>2 DEF AfterToken
  <2>4. QED
    BY <1>8, <2>2, <2>3, RefMeans
<1>9. CASE tok = "endobj"
  <2>1. tok \notin Leaves
    BY <1>9, IntsOnly DEF Leaves, Names, Length, Strings, Booleans
  <2>2. EndsObj(c)
    BY <1>2, <1>9, <2>1 DEF AfterToken
  <2>3. AfterToken(c, tok) = Replacing(c, 4, IndOf(c))
    BY <1>9, <2>1, <2>2 DEF AfterToken
  <2>4. QED
    BY <1>9, <2>2, <2>3, IndMeans
<1>10. CASE tok \notin Leaves \union {"obj", "[", "<", "]", ">", "R", "endobj"}
  BY <1>2, <1>10 DEF AfterToken
<1>11. QED
  BY <1>3, <1>5, <1>6, <1>7, <1>8, <1>9, <1>10

-----------------------------------------------------------------------------
(* Reading the text of an object                                            *)

\* The parser follows the function on the text of an object, and its symbols stand for
\* what was read.
FollowsObj(obj) ==
  /\ Config = RanTo(ReadStart, ItemsOf(TextOf(obj)), read)
  /\ Means(stack, read, ItemsOf(SubSeq(TextOf(obj), 1, read)))

LEMMA ItemsCut ==
  ASSUME NEW toks, NEW n \in Nat, IsSeq(toks), n + 1 <= Len(toks)
  PROVE  ItemsOf(SubSeq(toks, 1, n + 1)) = Append(ItemsOf(SubSeq(toks, 1, n)), Item(toks[n + 1]))
<1>1. PICK m, a, b, f, g, x, r :
        /\ m = n + 1 /\ a = SubSeq(toks, 1, n) /\ b = SubSeq(toks, 1, m) /\ f = ItemsOf(a) /\ g = ItemsOf(b)
        /\ x = Item(toks[m]) /\ r = Append(f, x)
  OBVIOUS
<1>2. n \in 0..Len(toks) /\ m \in 0..Len(toks) /\ m \in 1..m /\ \A i \in 1..n : i \in 1..m
  <2>1. Len(toks) \in Nat
    BY SeqFacts
  <2>2. QED
    BY ONLY n \in Nat, n + 1 <= Len(toks), <1>1, <2>1
<1>3. IsSeq(a) /\ Len(a) = n /\ \A i \in 1..n : a[i] = toks[i]
  BY <1>1, <1>2, CutFacts
<1>4. IsSeq(b) /\ Len(b) = m /\ \A i \in 1..m : b[i] = toks[i]
  BY <1>1, <1>2, CutFacts
<1>5. IsSeq(f) /\ Len(f) = n /\ \A i \in 1..n : f[i] = Item(toks[i])
  BY <1>1, <1>3, ItemsOfIs
<1>6. IsSeq(g) /\ Len(g) = m /\ \A i \in 1..m : g[i] = Item(toks[i])
  BY <1>1, <1>4, ItemsOfIs
<1>7. Grown(f, x, r, n)
  <2>1. Grows(f, x, r, n)
    BY <1>1, <1>5 DEF Grows
  <2>2. QED
    BY <2>1, Appended
<1>8. IsSeq(r) /\ Len(r) = m /\ (\A i \in 1..n : r[i] = f[i]) /\ r[m] = x
  BY <1>1, <1>7 DEF Grown
<1>9. ASSUME NEW i \in 1..m PROVE g[i] = r[i]
  <2>1. i \in 1..n \/ i = m
    BY <1>1
  <2>2. QED
    BY <1>1, <1>5, <1>6, <1>8, <2>1
<1>10. Same(g, r)
  BY <1>6, <1>8, <1>9 DEF Same
<1>11. QED
  BY <1>1, <1>6, <1>8, <1>10, SameIsEqual

LEMMA ConfigIs ==
  ASSUME IInv
  PROVE  IsState(Config) /\ NoTokens(stack) /\ IsSeq(stack)
<1>1. IsSeq(stack) /\ reduce_pos \in Nat /\ saved \in Seq(Nat)
  BY DEF IInv, IsStack, IsSeq, TypeOK
<1>2. IsState(Config)
  BY <1>1, StateIs DEF Config
<1>3. ASSUME NEW i \in 1..Len(stack), IsObj(stack[i]) PROVE stack[i].obj.t # "token"
  <2>1. IsSymbol(stack[i])
    BY DEF IInv, TypeOK, Top
  <2>2. stack[i].obj.t \in Types
    <3>1. \A tok, live : Term(tok, live).type = "term"
      BY DEF Term
    <3>2. stack[i].type = "nonterm"
      BY <1>3 DEF IsObj
    <3>3. \A tok, live : stack[i] # Term(tok, live)
      BY <3>1, <3>2
    <3>4. QED
      BY <2>1, <3>3 DEF IsSymbol
  <2>3. QED
    BY <2>2 DEF Types, LeafTypes
<1>4. QED
  BY <1>1, <1>2, <1>3 DEF NoTokens

LEMMA StartFollows ==
  ASSUME NEW obj \in Objects, read = 0, stack = <<>>, reduce_pos = 0, saved = <<>>
  PROVE  FollowsObj(obj)
<1>1. PICK toks : toks = TextOf(obj)
  OBVIOUS
<1>2. IsSeq(toks)
  BY <1>1, DeepText
<1>3. Config = ReadStart
  BY DEF Config, ReadStart
<1>4. Config = RanTo(ReadStart, ItemsOf(toks), read)
  BY <1>3, RanSteps
<1>5. ItemsOf(SubSeq(toks, 1, read)) = <<>>
  <2>1. PICK a, f : a = SubSeq(toks, 1, 0) /\ f = ItemsOf(a)
    OBVIOUS
  <2>2. 0 \in 0..Len(toks)
    BY <1>2, SeqFacts
  <2>3. IsSeq(a) /\ Len(a) = 0
    BY <1>2, <2>1, <2>2, CutFacts
  <2>4. IsSeq(f) /\ Len(f) = 0
    BY <2>1, <2>3, ItemsOfIs
  <2>5. Same(f, <<>>)
    BY <2>4, NoneFacts DEF Same
  <2>6. QED
    BY <2>1, <2>4, <2>5, NoneFacts, SameIsEqual
<1>6. ContentOf(stack) = <<>>
  <2>1. PICK f : f = ContentOf(stack)
    OBVIOUS
  <2>2. IsSeq(f) /\ Len(f) = 0
    BY <2>1, NoneFacts, ContentIs
  <2>3. Same(f, <<>>)
    BY <2>2, NoneFacts DEF Same
  <2>4. QED
    BY <2>1, <2>2, <2>3, NoneFacts, SameIsEqual
<1>7. AllTokens(<<>>)
  BY NoneFacts DEF AllTokens
<1>8. Deep(<<>>) /\ Written(<<>>, 0) = <<>>
  BY <1>7, TokensStay
<1>9. Means(stack, read, ItemsOf(SubSeq(toks, 1, read)))
  BY <1>5, <1>6, <1>7, <1>8 DEF Means
<1>10. QED
  BY <1>1, <1>4, <1>9 DEF FollowsObj

LEMMA TokenFollows ==
  ASSUME IInv, status = "ok", NEW obj \in Objects, FollowsObj(obj), read < Len(TextOf(obj)),
         AddToken(TextOf(obj)[read + 1]), read' = read + 1
  PROVE  status' = "ok" /\ FollowsObj(obj)'
<1>1. PICK toks, items, n, tok, c :
        toks = TextOf(obj) /\ items = ItemsOf(toks) /\ n = read /\ tok = toks[read + 1] /\ c = Config
  OBVIOUS
<1>2. IsSeq(toks) /\ Len(toks) \in Nat /\ \A i \in 1..Len(toks) : toks[i] \in Tokens
  BY <1>1, DeepText, SeqFacts
<1>3. n \in Nat /\ n + 1 \in 1..Len(toks) /\ n + 1 \in 0..Len(toks) /\ n + 1 <= Len(toks)
  <2>1. read \in Nat
    BY DEF IInv, TypeOK
  <2>2. QED
    BY <1>1, <1>2, <2>1
<1>4. tok \in Tokens /\ items[n + 1] = Item(tok)
  BY <1>1, <1>2, <1>3, ItemsOfIs
<1>5. c = RanTo(ReadStart, items, n) /\ Means(stack, n, ItemsOf(SubSeq(toks, 1, n)))
  BY <1>1 DEF FollowsObj
<1>6. RanTo(ReadStart, items, n + 1) = AfterToken(c, tok)
  <2>1. RanTo(ReadStart, items, n + 1) = After(RanTo(ReadStart, items, n), items[n + 1])
    BY <1>3, RanSteps
  <2>2. Item(tok).t = "token" /\ Item(tok).of[1] = tok
    BY DEF Item, Obj
  <2>3. c.ok = "ok"
    BY <1>1, ConfigFields
  <2>4. QED
    BY <1>4, <1>5, <2>1, <2>2, <2>3 DEF After
<1>7. AfterToken(c, tok).ok = "ok"
  <2>1. RanTo(ReadStart, items, n + 1).ok = "ok"
    BY <1>1, <1>3, TextRan
  <2>2. QED
    BY <1>6, <2>1
<1>8. status' = "ok" /\ Config' = AfterToken(c, tok)
  BY <1>1, <1>4, <1>7, StepIs
<1>9. Means(AfterToken(c, tok).syms, n + 1, Append(ItemsOf(SubSeq(toks, 1, n)), Item(tok)))
  <2>1. IsState(c) /\ NoTokens(c.syms) /\ c.syms = stack
    BY <1>1, ConfigIs, ConfigFields
  <2>2. PICK before : before = ItemsOf(SubSeq(toks, 1, n))
    OBVIOUS
  <2>3. Means(c.syms, n, before)
    BY <1>5, <2>1, <2>2
  <2>4. Means(AfterToken(c, tok).syms, n + 1, Append(before, Item(tok)))
    BY <1>3, <1>4, <1>7, <2>1, <2>3, TokenMeans
  <2>5. QED
    BY <2>2, <2>4
<1>10. AfterToken(c, tok).syms = stack'
  <2>1. Config'.syms = stack'
    BY DEF Config, State
  <2>2. QED
    BY <1>8, <2>1
<1>11. ItemsOf(SubSeq(toks, 1, n + 1)) = Append(ItemsOf(SubSeq(toks, 1, n)), Item(tok))
  BY <1>1, <1>2, <1>3, ItemsCut
<1>12. Means(stack', read', ItemsOf(SubSeq(toks, 1, read')))
  BY <1>1, <1>9, <1>10, <1>11
<1>13. Config' = RanTo(ReadStart, ItemsOf(toks), read')
  BY <1>1, <1>6, <1>8
<1>14. QED
  BY <1>1, <1>8, <1>12, <1>13 DEF FollowsObj

\* Where the parser is at the end of the text.
LEMMA AtTheEnd ==
  ASSUME NEW obj \in Objects, FollowsObj(obj), read = Len(TextOf(obj))
  PROVE  stack = <<NonTerm(obj)>>
<1>1. IsSeq(TextOf(obj)) /\ Len(ItemsOf(TextOf(obj))) = Len(TextOf(obj))
  BY DeepText, ItemsOfIs
<1>2. Config = Ran(ReadStart, ItemsOf(TextOf(obj)))
  BY <1>1 DEF FollowsObj, Ran
<1>3. Config = State("ok", <<NonTerm(obj)>>, 0, <<>>)
  BY <1>2, TextRan
<1>4. Config.syms = <<NonTerm(obj)>>
  BY <1>3 DEF State
<1>5. QED
  BY <1>4, ConfigFields

-----------------------------------------------------------------------------
(* The parser on the text of an object                                      *)

Follows ==
  \A obj \in Objects : text = TextOf(obj) => status \in {"ok", "freed twice"} /\ FollowsObj(obj)

LEMMA CleanFollows == ASSUME Clean PROVE Follows
<1> SUFFICES ASSUME NEW obj \in Objects, text = TextOf(obj)
             PROVE  status \in {"ok", "freed twice"} /\ FollowsObj(obj)
  BY DEF Follows
<1>1. read = 0 /\ stack = <<>> /\ reduce_pos = 0 /\ saved = <<>> /\ status \in {"ok", "freed twice"}
  BY DEF Clean
<1>2. QED
  BY <1>1, StartFollows

LEMMA ReadFollows == ASSUME IInv, Follows, ReadToken PROVE Follows'
<1>1. status = "ok" /\ read < Len(text) /\ AddToken(text[read + 1]) /\ read' = read + 1 /\ text' = text
  BY DEF ReadToken
<1>2. ASSUME NEW obj \in Objects, text' = TextOf(obj)
      PROVE  status' \in {"ok", "freed twice"} /\ FollowsObj(obj)'
  <2>1. text = TextOf(obj) /\ FollowsObj(obj)
    BY <1>1, <1>2 DEF Follows
  <2>2. QED
    BY <1>1, <2>1, TokenFollows
<1>3. QED
  BY <1>2 DEF Follows

LEMMA FollowsOK == ASSUME IInv, Follows, [Next]_vars PROVE Follows'
<1>1. CASE ReadToken
  BY <1>1, ReadFollows
<1>2. CASE Clear
  <2>1. Clean'
    BY <1>2 DEF IInv, Clear, Clean
  <2>2. (Clean => Follows)'
    BY CleanFollows, PTL
  <2>3. QED
    BY <2>1, <2>2
<1>3. CASE UNCHANGED vars
  <2>1. UNCHANGED <<text, read, stack, reduce_pos, saved, status>>
    BY <1>3 DEF vars, parser
  <2>2. Config' = Config
    BY <2>1 DEF Config
  <2>3. ASSUME NEW obj \in Objects PROVE FollowsObj(obj)' <=> FollowsObj(obj)
    BY <2>1, <2>2 DEF FollowsObj
  <2>4. QED
    BY <2>1, <2>3 DEF Follows
<1>4. QED
  BY <1>1, <1>2, <1>3 DEF Next

LEMMA ReadInvariant == Spec => [](IInv /\ Follows)
<1>1. Init => IInv /\ Follows
  BY InitText, CleanOK, CleanFollows DEF Init, Start, Clean
<1>2. IInv /\ Follows /\ [Next]_vars => (IInv /\ Follows)'
  BY ReadTokenOK, ClearOK, StutterOK, FollowsOK DEF Next
<1>3. QED
  BY <1>1, <1>2, PTL DEF Spec

\* Reading what is written for an object, of any depth, gives this object and reports no
\* error, and after each token the symbols on the stack stand for what was read.
THEOREM AlwaysReadsBack == Spec => []ReadsBack
<1>1. IInv /\ Follows => ReadsBack
  <2> SUFFICES ASSUME IInv, Follows, text \in Legal PROVE ReadsBack
    BY DEF ReadsBack
  <2>1. PICK obj \in Objects : text = TextOf(obj)
    BY DEF Legal
  <2>2. FollowsObj(obj) /\ status \notin {"error", "undefined"}
    BY <2>1 DEF Follows
  <2>3. Content = ContentOf(stack)
    BY DEF Content, ContentOf, Top
  <2>4. Written(Content, read) = ItemsOf(SubSeq(text, 1, read))
    BY <2>1, <2>2, <2>3 DEF FollowsObj, Means
  <2>5. read = Len(text) => stack = <<NonTerm(obj)>>
    BY <2>1, <2>2, AtTheEnd
  <2>6. QED
    BY <2>1, <2>2, <2>4, <2>5 DEF ReadsBack
<1>2. QED
  BY <1>1, ReadInvariant, PTL

\* A parser that has read a whole object is cleared without a second release.
THEOREM AlwaysCleanAfterObject == Spec => CleanAfterObject
<1>1. IInv /\ Follows /\ [Next]_vars => [read = Len(text) /\ text \in Legal => status' = "ok"]_vars
  <2> SUFFICES ASSUME IInv, Follows, Next, read = Len(text), text \in Legal PROVE status' = "ok"
    OBVIOUS
  <2>1. PICK obj \in Objects : text = TextOf(obj)
    BY DEF Legal
  <2>2. stack = <<NonTerm(obj)>>
    BY <2>1, AtTheEnd DEF Follows
  <2>3. ~ReadToken
    <3>1. Len(text) \in Nat
      BY <2>1, DeepText, SeqFacts
    <3>2. QED
      BY <3>1 DEF ReadToken
  <2>4. Clear
    BY <2>3 DEF Next
  <2>5. Top = 1 /\ stack[1] = NonTerm(obj)
    BY <2>2, OneFacts DEF Top
  <2>6. \A i \in 1..Top : i = 1
    BY <2>5
  <2>7. \A i \in 1..Top : ~Destroys(stack[i])
    BY <2>5, <2>6, NonTermFields DEF Destroys
  <2>8. QED
    BY <2>4, <2>7 DEF Clear
<1>2. QED
  BY <1>1, ReadInvariant, PTL DEF Spec, CleanAfterObject

-----------------------------------------------------------------------------
(* No object of the type is on the stack alone before the end.              *)

\* What may become of the lowest symbol.
Lowest(syms, o) ==
  /\ Len(syms) >= 1
  /\ \/ syms[1] = NonTerm(o)
     \/ /\ o.t = "int"
        /\ \E p : syms[1] = NonTerm(p) /\ p.t \in {"ref", "ind"}

\* The lowest symbol is an object.
LEMMA LowestIsObj ==
  ASSUME NEW syms, NEW o, Lowest(syms, o)
  PROVE  IsObj(syms[1]) /\ syms[1].type = "nonterm" /\ (IsInt(syms[1]) => o.t = "int")
<1>1. \A p : NonTerm(p).type = "nonterm" /\ NonTerm(p).obj = p
  BY DEF NonTerm
<1>2. PICK p : syms[1] = NonTerm(p) /\ (p = o \/ o.t = "int")
  BY DEF Lowest
<1>3. syms[1].type = "nonterm" /\ syms[1].obj = p
  BY <1>1, <1>2
<1>4. QED
  BY <1>2, <1>3 DEF IsObj, IsInt

\* It stays when symbols above it are replaced.
LEMMA LowestKept ==
  ASSUME NEW s, NEW o, NEW m \in Nat, NEW x, NEW r,
         IsSeq(s), Lowest(s, o), m >= 1, m <= Len(s), r = Append(SubSeq(s, 1, m), x)
  PROVE  Lowest(r, o)
<1>1. PICK f : f = SubSeq(s, 1, m)
  OBVIOUS
<1>2. m \in 0..Len(s)
  BY SeqFacts
<1>3. IsSeq(f) /\ Len(f) = m /\ \A i \in 1..m : f[i] = s[i]
  BY <1>1, <1>2, CutFacts
<1>4. Grown(f, x, r, m)
  <2>1. Grows(f, x, r, m)
    BY <1>1, <1>3 DEF Grows
  <2>2. QED
    BY <2>1, Appended
<1>5. Len(r) = m + 1 /\ r[1] = s[1]
  <2>1. 1 \in 1..m
    OBVIOUS
  <2>2. QED
    BY <1>3, <1>4, <2>1 DEF Grown
<1>6. Len(r) >= 1
  BY <1>5
<1>7. QED
  BY <1>5, <1>6 DEF Lowest

LEMMA OnlyOne ==
  ASSUME NEW s, NEW x, IsSeq(s)
  PROVE  Len(Append(SubSeq(s, 1, 0), x)) = 1 /\ Append(SubSeq(s, 1, 0), x)[1] = x
<1>1. PICK f, r : f = SubSeq(s, 1, 0) /\ r = Append(f, x)
  OBVIOUS
<1>2. 0 \in 0..Len(s)
  BY SeqFacts
<1>3. IsSeq(f) /\ Len(f) = 0
  BY <1>1, <1>2, CutFacts
<1>4. Grown(f, x, r, 0)
  <2>1. Grows(f, x, r, 0)
    BY <1>1, <1>3 DEF Grows
  <2>2. QED
    BY <2>1, Appended
<1>5. QED
  BY <1>1, <1>4 DEF Grown

LEMMA LowestStays ==
  ASSUME NEW c, NEW o, NEW tok \in Tokens, IsState(c), Lowest(c.syms, o), AfterToken(c, tok).ok = "ok"
  PROVE  Lowest(AfterToken(c, tok).syms, o)
<1>1. PICK n, s, r : n = Len(c.syms) /\ s = c.syms /\ r = AfterToken(c, tok).syms
  OBVIOUS
<1>2. IsSeq(s) /\ Len(s) = n /\ n \in Nat /\ n >= 1 /\ c.pos \in Nat /\ Lowest(s, o)
  BY <1>1, SeqFacts DEF IsState, Lowest
<1>3. Stuck(c).ok = "stuck"
  BY DEF Stuck, State
<1>4. ASSUME NEW sym, r = Append(s, sym) PROVE Lowest(AfterToken(c, tok).syms, o)
  <2>1. SubSeq(s, 1, n) = s
    BY <1>2, FullCut
  <2>2. PICK m : m = n
    OBVIOUS
  <2>3. IsSeq(s) /\ Lowest(s, o) /\ m \in Nat /\ m >= 1 /\ m <= Len(s) /\ r = Append(SubSeq(s, 1, m), sym)
    BY <1>2, <1>4, <2>1, <2>2
  <2>4. Lowest(r, o)
    BY ONLY <2>3, LowestKept
  <2>5. QED
    BY <1>1, <2>4
<1>5. CASE tok \in Leaves
  <2>1. AfterToken(c, tok).syms = Append(c.syms, NonTerm(Leaf(tok)))
    BY <1>5 DEF AfterToken, Pushing, State
  <2>2. QED
    BY <1>1, <1>4, <2>1
<1>6. CASE tok = "obj"
  <2>1. tok \notin Leaves
    BY <1>6, IntsOnly DEF Leaves, Names, Length, Strings, Booleans
  <2>2. AfterToken(c, tok).syms = Append(c.syms, Term(tok, FALSE))
    BY <1>6, <2>1 DEF AfterToken, Pushing, State
  <2>3. QED
    BY <1>1, <1>4, <2>2
<1>7. CASE tok \in {"[", "<"}
  <2>1. tok \notin Leaves /\ tok # "obj"
    BY <1>7, IntsOnly DEF Leaves, Names, Length, Strings, Booleans
  <2>2. AfterToken(c, tok).syms = Append(c.syms, Term(tok, TRUE))
    BY <1>7, <2>1 DEF AfterToken, Opened, State
  <2>3. QED
    BY <1>1, <1>4, <2>2
<1>8. CASE tok \in {"]", ">"}
  <2>1. tok \notin Leaves /\ tok # "obj" /\ tok \notin {"[", "<"} /\ tok # "R" /\ tok # "endobj"
    BY <1>8, IntsOnly DEF Leaves, Names, Length, Strings, Booleans
  <2>2. Closable(c, tok)
    BY <1>3, <1>8, <2>1 DEF AfterToken
  <2>3. AfterToken(c, tok) = Closed(c, tok)
    BY <1>8, <2>1, <2>2 DEF AfterToken
  <2>4. PICK x, m : m = c.pos /\ r = Append(SubSeq(s, 1, m), x)
    <3>1. Closed(c, tok).syms
            = Append(SubSeq(c.syms, 1, c.pos),
                     NonTerm(Obj(TypeOf(tok), [i \in 1..Len(BodyOf(c)) |-> BodyOf(c)[i].obj])))
      BY DEF Closed, State
    <3>2. PICK x : x = NonTerm(Obj(TypeOf(tok), [i \in 1..Len(BodyOf(c)) |-> BodyOf(c)[i].obj]))
      OBVIOUS
    <3>3. QED
      BY <1>1, <2>3, <3>1, <3>2
  <2>5. m < n /\ s[m + 1] = Term(Opening(tok), TRUE)
    BY <1>1, <2>2, <2>4 DEF Closable
  <2>6. m # 0
    <3>1. s[m + 1].type = "term"
      BY <2>5 DEF Term
    <3>2. s[1].type = "nonterm"
      BY <1>2, LowestIsObj
    <3>3. QED
      BY <3>1, <3>2
  <2>7. m \in Nat /\ m >= 1 /\ m <= Len(s)
    BY <1>2, <2>4, <2>5, <2>6
  <2>8. Lowest(r, o)
    BY <1>2, <2>4, <2>7, LowestKept
  <2>9. QED
    BY <1>1, <2>8
<1>9. CASE tok = "R"
  <2>1. tok \notin Leaves
    BY <1>9, IntsOnly DEF Leaves, Names, Length, Strings, Booleans
  <2>2. Refers(c)
    BY <1>3, <1>9, <2>1 DEF AfterToken
  <2>3. AfterToken(c, tok).syms = Append(SubSeq(c.syms, 1, n - 2), NonTerm(RefOf(c)))
    BY <1>1, <1>9, <2>1, <2>2 DEF AfterToken, Replacing, State
  <2>4. n >= 2 /\ IsInt(c.syms[n - 1])
    BY <1>1, <2>2 DEF Refers
  <2>5. CASE n >= 3
    <3>1. PICK m, x : m = n - 2 /\ x = NonTerm(RefOf(c))
      OBVIOUS
    <3>2. m \in Nat /\ m >= 1 /\ m <= Len(s) /\ r = Append(SubSeq(s, 1, m), x)
      BY <1>1, <1>2, <2>3, <2>5, <3>1
    <3>3. Lowest(r, o)
      BY <1>2, <3>2, LowestKept
    <3>4. QED
      BY <1>1, <3>3
  <2>6. CASE n = 2
    <3>1. o.t = "int"
      <4>1. IsInt(s[1])
        BY <1>1, <2>4, <2>6
      <4>2. QED
        BY <1>2, <4>1, LowestIsObj
    <3>2. PICK x : x = NonTerm(RefOf(c))
      OBVIOUS
    <3>3. r = Append(SubSeq(s, 1, 0), x)
      BY <1>1, <2>3, <2>6, <3>2
    <3>5. r[1] = x /\ Len(r) = 1
      BY <1>2, <3>3, OnlyOne
    <3>6. RefOf(c).t = "ref"
      BY DEF RefOf, Obj
    <3>7. QED
      BY <1>1, <3>1, <3>2, <3>5, <3>6 DEF Lowest
  <2>7. QED
    BY <1>2, <2>4, <2>5, <2>6
<1>10. CASE tok = "endobj"
  <2>1. tok \notin Leaves
    BY <1>10, IntsOnly DEF Leaves, Names, Length, Strings, Booleans
  <2>2. EndsObj(c)
    BY <1>3, <1>10, <2>1 DEF AfterToken
  <2>3. AfterToken(c, tok).syms = Append(SubSeq(c.syms, 1, n - 4), NonTerm(IndOf(c)))
    BY <1>1, <1>10, <2>1, <2>2 DEF AfterToken, Replacing, State
  <2>4. n >= 4 /\ IsInt(c.syms[n - 3])
    BY <1>1, <2>2 DEF EndsObj
  <2>5. CASE n >= 5
    <3>1. PICK m, x : m = n - 4 /\ x = NonTerm(IndOf(c))
      OBVIOUS
    <3>2. m \in Nat /\ m >= 1 /\ m <= Len(s) /\ r = Append(SubSeq(s, 1, m), x)
      BY <1>1, <1>2, <2>3, <2>5, <3>1
    <3>3. Lowest(r, o)
      BY <1>2, <3>2, LowestKept
    <3>4. QED
      BY <1>1, <3>3
  <2>6. CASE n = 4
    <3>1. o.t = "int"
      <4>1. IsInt(s[1])
        BY <1>1, <2>4, <2>6
      <4>2. QED
        BY <1>2, <4>1, LowestIsObj
    <3>2. PICK x : x = NonTerm(IndOf(c))
      OBVIOUS
    <3>3. r = Append(SubSeq(s, 1, 0), x)
      BY <1>1, <2>3, <2>6, <3>2
    <3>5. r[1] = x /\ Len(r) = 1
      BY <1>2, <3>3, OnlyOne
    <3>6. IndOf(c).t = "ind"
      BY DEF IndOf, Obj
    <3>7. QED
      BY <1>1, <3>1, <3>2, <3>5, <3>6 DEF Lowest
  <2>7. QED
    BY <1>2, <2>4, <2>5, <2>6
<1>11. CASE tok \notin Leaves \union {"obj", "[", "<", "]", ">", "R", "endobj"}
  BY <1>3, <1>11 DEF AfterToken
<1>12. QED
  BY <1>5, <1>6, <1>7, <1>8, <1>9, <1>10, <1>11

LEMMA ReadIsNat == ASSUME IInv PROVE read \in Nat
<1>1. read \in 0..Len(text)
  BY DEF IInv, TypeOK
<1>2. QED
  BY <1>1

\* From one object on, the lowest symbol is the object or what begins with its number.
LEMMA LowestRan ==
  ASSUME NEW c, NEW items, NEW o, NEW n \in Nat,
         IsState(c), AllTokens(items), n <= Len(items),
         \A k \in 0..Len(items) : RanTo(c, items, k).ok = "ok",
         Lowest(RanTo(c, items, n).syms, o)
  PROVE  Lowest(RanTo(c, items, Len(items)).syms, o)
<1> DEFINE T == {k \in Nat : n + k <= Len(items) => Lowest(RanTo(c, items, n + k).syms, o)}
<1>1. 0 \in T
  OBVIOUS
<1>2. ASSUME NEW k \in Nat, k \in T PROVE k + 1 \in T
  <2> SUFFICES ASSUME n + k + 1 <= Len(items) PROVE Lowest(RanTo(c, items, n + (k + 1)).syms, o)
    OBVIOUS
  <2>1. PICK l, d, e : l = n + k /\ d = RanTo(c, items, l) /\ e = RanTo(c, items, l + 1)
    OBVIOUS
  <2>2. Len(items) \in Nat /\ l \in Nat /\ l \in 0..Len(items) /\ l + 1 \in 1..Len(items) /\ l + 1 \in 0..Len(items)
    <3>1. Len(items) \in Nat
      BY SeqFacts DEF AllTokens
    <3>2. QED
      BY <2>1, <3>1
  <2>3. Lowest(d.syms, o)
    BY <1>2, <2>1, <2>2
  <2>4. d.ok = "ok" /\ e.ok = "ok"
    BY <2>1, <2>2
  <2>5. IsState(d)
    <3>1. ItemSeq(items)
      BY DEF AllTokens, ItemSeq
    <3>2. QED
      BY <2>1, <2>2, <3>1, RanIsState
  <2>6. PICK tok : tok = items[l + 1].of[1]
    OBVIOUS
  <2>7. tok \in Tokens /\ items[l + 1].t = "token"
    BY <2>2, <2>6, TokenIs DEF AllTokens
  <2>8. e = AfterToken(d, tok)
    <3>1. e = After(d, items[l + 1])
      BY <2>1, <2>2, RanSteps
    <3>2. QED
      BY <2>4, <2>6, <2>7, <3>1 DEF After
  <2>9. Lowest(e.syms, o)
    BY <2>3, <2>4, <2>5, <2>7, <2>8, LowestStays
  <2>10. n + (k + 1) = l + 1
    BY <2>1
  <2>11. QED
    BY <2>1, <2>9, <2>10
<1>3. T = Nat
  <2> HIDE DEF T
  <2>1. T \in SUBSET Nat
    BY DEF T
  <2>2. QED
    BY <1>1, <1>2, <2>1, Numbers!SetInductionOnNat
<1>4. Len(items) - n \in T
  <2>1. Len(items) \in Nat
    BY SeqFacts DEF AllTokens
  <2>2. Len(items) - n \in Nat
    BY <2>1
  <2> HIDE DEF T
  <2>3. QED
    BY <1>3, <2>2
<1>5. n + (Len(items) - n) = Len(items)
  BY SeqFacts DEF AllTokens
<1>6. QED
  BY <1>4, <1>5

\* Once all is written nothing changes.
LEMMA WrittenOnce ==
  ASSUME NEW items, NEW n \in Nat, NEW m \in Nat,
         AllTokens(Written(items, n)), AllTokens(Written(items, m))
  PROVE  Written(items, n) = Written(items, m)
<1>1. ASSUME NEW a \in Nat, AllTokens(Written(items, a))
      PROVE  \A k \in Nat : Written(items, a + k) = Written(items, a)
  <2> DEFINE T == {k \in Nat : Written(items, a + k) = Written(items, a)}
  <2>1. 0 \in T
    OBVIOUS
  <2>2. ASSUME NEW k \in Nat, k \in T PROVE k + 1 \in T
    <3>1. a + k \in Nat /\ a + (k + 1) = (a + k) + 1
      OBVIOUS
    <3>2. Written(items, (a + k) + 1) = Expanded(Written(items, a + k))
      BY <3>1, WrittenSteps
    <3>3. Expanded(Written(items, a)) = Written(items, a)
      BY <1>1, TokensStay
    <3>4. QED
      BY <2>2, <3>1, <3>2, <3>3
  <2>3. T = Nat
    <3> HIDE DEF T
    <3>1. T \in SUBSET Nat
      BY DEF T
    <3>2. QED
      BY <2>1, <2>2, <3>1, Numbers!SetInductionOnNat
  <2>4. QED
    BY <2>3
<1>2. CASE n <= m
  <2>1. m - n \in Nat /\ n + (m - n) = m
    BY <1>2
  <2>2. QED
    BY <1>1, <2>1
<1>3. CASE m <= n
  <2>1. n - m \in Nat /\ m + (n - m) = n
    BY <1>3
  <2>2. QED
    BY <1>1, <2>1
<1>4. QED
  BY <1>2, <1>3

\* Before the end of the text the only object on the stack alone is the number that a
\* reference or an indirect object begins with.
LEMMA NotEarlier ==
  ASSUME IInv, NEW obj \in Objects, FollowsObj(obj), read < Len(TextOf(obj)),
         NEW o, stack = <<NonTerm(o)>>
  PROVE  o.t = "int" /\ obj.t \in {"ref", "ind"}
<1>1. PICK toks, items, l, n : toks = TextOf(obj) /\ items = ItemsOf(toks) /\ l = Len(toks) /\ n = read
  OBVIOUS
<1>2. IsSeq(toks) /\ AllTokens(items) /\ Len(items) = l /\ l \in Nat /\ n \in Nat /\ n < l
  <2>1. IsSeq(toks) /\ AllTokens(items)
    BY <1>1, DeepText
  <2>2. Len(items) = l /\ l \in Nat
    BY <1>1, <2>1, ItemsOfIs, SeqFacts
  <2>3. read \in Nat
    BY ONLY IInv, ReadIsNat
  <2>4. QED
    BY <1>1, <2>1, <2>2, <2>3
<1>3. /\ IsState(ReadStart) /\ RanTo(ReadStart, items, l).syms = <<NonTerm(obj)>>
      /\ \A k \in 0..Len(items) : RanTo(ReadStart, items, k).ok = "ok"
  BY <1>1, <1>2, TextRan DEF Ran, State
<1>4. RanTo(ReadStart, items, n).syms = <<NonTerm(o)>>
  BY <1>1, ConfigFields DEF FollowsObj
<1>5. ASSUME NEW p PROVE Len(<<NonTerm(p)>>) = 1 /\ <<NonTerm(p)>>[1] = NonTerm(p)
  BY OneFacts
<1>6. Lowest(RanTo(ReadStart, items, n).syms, o)
  BY <1>4, <1>5 DEF Lowest
<1>7. Lowest(RanTo(ReadStart, items, l).syms, o)
  <2>1. n <= Len(items)
    BY <1>2
  <2>2. QED
    BY <1>2, <1>3, <1>6, <2>1, LowestRan
<1>8. obj = o \/ (o.t = "int" /\ obj.t \in {"ref", "ind"})
  <2>1. \A p : NonTerm(p).obj = p
    BY DEF NonTerm
  <2>2. NonTerm(obj) = NonTerm(o) \/ (o.t = "int" /\ \E p : NonTerm(obj) = NonTerm(p) /\ p.t \in {"ref", "ind"})
    BY <1>3, <1>5, <1>7 DEF Lowest
  <2>3. QED
    BY <2>1, <2>2
<1>9. obj # o
  <2> SUFFICES ASSUME obj = o PROVE FALSE
    OBVIOUS
  <2>1. ContentOf(stack) = <<obj>>
    <3>1. PICK f : f = ContentOf(stack)
      OBVIOUS
    <3>2. IsSeq(stack) /\ Len(stack) = 1 /\ stack[1] = NonTerm(obj)
      BY <1>5, OneFacts
    <3>3. IsSeq(f) /\ Len(f) = 1 /\ f[1] = SymbolItem(NonTerm(obj))
      BY <3>1, <3>2, ContentIs
    <3>4. SymbolItem(NonTerm(obj)) = obj
      BY ItemOfSym
    <3>5. Same(f, <<obj>>)
      BY <3>3, <3>4, OneFacts DEF Same
    <3>6. QED
      BY <3>1, <3>3, <3>5, OneFacts, SameIsEqual
  <2>2. PICK one, front : one = <<obj>> /\ front = ItemsOf(SubSeq(toks, 1, n))
    OBVIOUS
  <2>3. AllTokens(Written(one, n)) /\ Written(one, n) = front
    BY <1>1, <2>1, <2>2 DEF FollowsObj, Means
  <2>4. MaxNest \in Nat /\ AllTokens(Written(one, MaxNest)) /\ Len(Written(one, MaxNest)) = l
    BY <1>1, <2>2, DeepText
  <2>5. Written(one, n) = Written(one, MaxNest)
    BY <1>2, <2>3, <2>4, WrittenOnce
  <2>6. Len(front) = n
    <3>1. PICK a : a = SubSeq(toks, 1, n)
      OBVIOUS
    <3>2. n \in 0..Len(toks)
      BY <1>1, <1>2
    <3>3. IsSeq(a) /\ Len(a) = n
      BY <1>2, <3>1, <3>2, CutFacts
    <3>4. QED
      BY <2>2, <3>1, <3>3, ItemsOfIs
  <2>7. QED
    BY <1>2, <2>3, <2>4, <2>5, <2>6
<1>10. QED
  BY <1>8, <1>9

-----------------------------------------------------------------------------
(* Reading one object                                                       *)

\* What the text of an object is made of.
Writable == Leaves \union {"obj", "[", "<", "]", ">", "R", "endobj"}

LEMMA TextTokens ==
  ASSUME NEW obj \in Objects, NEW n \in Nat, n < Len(TextOf(obj))
  PROVE  TextOf(obj)[n + 1] \in Writable
<1>1. PICK toks, items, tok : toks = TextOf(obj) /\ items = ItemsOf(toks) /\ tok = toks[n + 1]
  OBVIOUS
<1>2. IsSeq(toks) /\ n + 1 \in 1..Len(toks) /\ n + 1 \in 0..Len(toks) /\ n \in 0..Len(toks)
  <2>1. IsSeq(toks) /\ Len(toks) \in Nat
    BY <1>1, DeepText, SeqFacts
  <2>2. QED
    BY <1>1, <2>1
<1>3. items[n + 1] = Item(tok)
  BY <1>1, <1>2, ItemsOfIs
<1>4. PICK c : c = RanTo(ReadStart, items, n)
  OBVIOUS
<1>5. c.ok = "ok" /\ RanTo(ReadStart, items, n + 1).ok = "ok"
  BY <1>1, <1>2, <1>4, TextRan
<1>6. Item(tok).t = "token" /\ Item(tok).of[1] = tok
  BY DEF Item, Obj
<1>7. RanTo(ReadStart, items, n + 1) = AfterToken(c, tok)
  <2>1. RanTo(ReadStart, items, n + 1) = After(c, Item(tok))
    BY <1>3, <1>4, RanSteps
  <2>2. QED
    BY <1>5, <1>6, <2>1 DEF After
<1>8. AfterToken(c, tok).ok = "ok" /\ Stuck(c).ok = "stuck"
  BY <1>5, <1>7 DEF Stuck, State
<1>9. tok \in Writable
  BY <1>8 DEF AfterToken, Writable
<1>10. QED
  BY <1>1, <1>9

LEMMA WritableFacts ==
  ASSUME NEW tok \in Writable
  PROVE  tok \notin {Byte, EOL, "trailer", "stream", "endstream"}
BY IntsOnly DEF Writable, Leaves, Names, Length, Strings, Booleans, Byte, EOL

LEMMA TextNotEmpty == ASSUME NEW obj \in Objects PROVE Len(TextOf(obj)) \in Nat /\ 0 < Len(TextOf(obj))
<1>1. PICK toks, items : toks = TextOf(obj) /\ items = ItemsOf(toks)
  OBVIOUS
<1>2. IsSeq(toks) /\ Len(toks) \in Nat /\ Len(items) = Len(toks)
  BY <1>1, DeepText, SeqFacts, ItemsOfIs
<1>3. ASSUME Len(toks) = 0 PROVE FALSE
  <2>1. Ran(ReadStart, items) = ReadStart
    BY <1>2, <1>3, RanSteps DEF Ran
  <2>2. Ran(ReadStart, items).syms = <<NonTerm(obj)>>
    BY <1>1, TextRan DEF State
  <2>3. ReadStart.syms = <<>>
    BY DEF ReadStart, State
  <2>4. Len(<<NonTerm(obj)>>) = 1 /\ Len(<<>>) = 0
    BY OneFacts, NoneFacts
  <2>5. QED
    BY <2>1, <2>2, <2>3, <2>4
<1>4. QED
  BY <1>1, <1>2, <1>3

LEMMA BeginsFacts ==
  ASSUME NEW toks, IsSeq(toks), IsSeq(text), Begins(toks)
  PROVE  /\ Len(toks) \in Nat /\ Len(text) \in Nat /\ Len(toks) <= Len(text)
         /\ \A i \in 1..Len(toks) : text[i] = toks[i]
<1>1. PICK n, a, b : n = Len(toks) /\ a = SubSeq(toks, 1, n) /\ b = SubSeq(text, 1, n)
  OBVIOUS
<1>2. n \in Nat /\ Len(text) \in Nat /\ n <= Len(text) /\ a = b
  BY <1>1, SeqFacts DEF Begins, IsPrefix
<1>3. n \in 0..Len(toks) /\ n \in 0..Len(text)
  BY <1>1, <1>2
<1>4. (\A i \in 1..n : a[i] = toks[i]) /\ \A i \in 1..n : b[i] = text[i]
  BY <1>1, <1>3, CutFacts
<1>5. QED
  BY <1>1, <1>2, <1>4

\* What is on the stack at the end of the text of an object, and before.
Alone(obj) ==
  IInv /\ FollowsObj(obj) =>
    /\ read = Len(TextOf(obj)) => stack = <<NonTerm(obj)>>
    /\ read < Len(TextOf(obj)) /\ Len(stack) = 1 /\ IsObj(stack[1]) =>
         stack[1].obj.t = "int" /\ obj.t \in {"ref", "ind"}

AllAlone == \A obj \in Objects : Alone(obj)

\* A symbol that is an object.
LEMMA SymbolIs ==
  ASSUME IInv, NEW i \in 1..Len(stack), IsObj(stack[i])
  PROVE  stack[i] = NonTerm(stack[i].obj)
<1>1. IsSymbol(stack[i])
  BY DEF IInv, TypeOK, Top
<1>2. \A tok, live : stack[i] # Term(tok, live)
  <2>1. \A tok, live : Term(tok, live).type = "term"
    BY DEF Term
  <2>2. QED
    BY <2>1 DEF IsObj
<1>3. QED
  BY <1>1, <1>2 DEF IsSymbol

LEMMA AloneOK == AllAlone
<1> SUFFICES ASSUME NEW obj \in Objects, IInv, FollowsObj(obj)
             PROVE  /\ read = Len(TextOf(obj)) => stack = <<NonTerm(obj)>>
                    /\ read < Len(TextOf(obj)) /\ Len(stack) = 1 /\ IsObj(stack[1]) =>
                         stack[1].obj.t = "int" /\ obj.t \in {"ref", "ind"}
  BY DEF AllAlone, Alone
<1>1. read = Len(TextOf(obj)) => stack = <<NonTerm(obj)>>
  BY AtTheEnd
<1>2. ASSUME read < Len(TextOf(obj)), Len(stack) = 1, IsObj(stack[1])
      PROVE  stack[1].obj.t = "int" /\ obj.t \in {"ref", "ind"}
  <2>1. PICK o, sym : o = stack[1].obj /\ sym = NonTerm(o)
    OBVIOUS
  <2>2. 1 \in 1..Len(stack)
    BY <1>2
  <2>3. stack[1] = sym
    BY <1>2, <2>1, <2>2, SymbolIs
  <2>4. IsSeq(stack)
    BY ConfigIs
  <2>5. Same(stack, <<sym>>)
    BY <1>2, <2>3, OneFacts DEF Same
  <2>6. stack = <<sym>>
    BY <2>4, <2>5, OneFacts, SameIsEqual
  <2>7. QED
    BY <1>2, <2>1, <2>6, NotEarlier
<1>3. QED
  BY <1>1, <1>2

\* The reader is on its way through the text of an object.
Underway(obj) == ret = Running /\ status = "ok" /\ IInv /\ FollowsObj(obj)

\* The next token is the one of the object, and it is given to the parser.
LEMMA FeedIs ==
  ASSUME NEW obj \in Objects, Underway(obj), read < Len(TextOf(obj)), read < Len(text),
         text[read + 1] = TextOf(obj)[read + 1], Feed
  PROVE  status' = "ok" /\ IInv' /\ FollowsObj(obj)' /\ read' = read + 1
<1>1. text[read + 1] \in Writable /\ IInv /\ FollowsObj(obj) /\ status = "ok"
  BY ReadIsNat, TextTokens DEF Underway
<1>2. AddToken(text[read + 1]) /\ read' = read + 1 /\ text' = text /\ raw' = raw
  BY <1>1, WritableFacts DEF Feed, Tok, request
<1>3. ReadToken
  BY <1>1, <1>2 DEF ReadToken
<1>4. IInv'
  BY <1>1, <1>3, ReadTokenOK
<1>5. status' = "ok" /\ FollowsObj(obj)'
  BY <1>1, <1>2, TokenFollows
<1>6. QED
  BY <1>2, <1>4, <1>5

\* The first steps of the handlers that have nothing to do with a token of an object.
LEMMA OnlyTokens ==
  ASSUME NEW obj \in Objects, Underway(obj), read < Len(TextOf(obj)), read < Len(text),
         text[read + 1] = TextOf(obj)[read + 1], RNext
  PROVE  /\ source = "buffer" => BufferToken
         /\ source = "file" => FileToken
<1>1. text[read + 1] \in Writable
  BY ReadIsNat, TextTokens DEF Underway
<1>2. Tok \notin {EOL, "trailer", "stream"}
  BY <1>1, WritableFacts DEF Tok
<1>3. ~EndOfText /\ ~SkipEOL /\ ~Unexpected /\ ~StreamData
  BY <1>2 DEF EndOfText, SkipEOL, Unexpected, StreamData
<1>4. QED
  BY <1>3 DEF RNext, BufferToken, FileToken

-----------------------------------------------------------------------------
(* Reading from a buffer                                                    *)

AskedFirst(obj) == source = "buffer" /\ Asked(obj) /\ Begins(TextOf(obj))

BufferInv ==
  \A obj \in Objects : AskedFirst(obj) =>
    (Underway(obj) /\ read < Len(TextOf(obj))) \/ Gives({0, 1}, obj, TextOf(obj))

\* The next token of a text that begins with the one of an object.
LEMMA NextToken ==
  ASSUME NEW obj \in Objects, text \in Seq(Tokens \union {Byte, EOL}), Begins(TextOf(obj)), Underway(obj), read < Len(TextOf(obj))
  PROVE  read < Len(text) /\ text[read + 1] = TextOf(obj)[read + 1]
<1>1. PICK toks : toks = TextOf(obj)
  OBVIOUS
<1>2. IsSeq(toks) /\ IsSeq(text)
  <2>1. text \in Seq(Tokens \union {Byte, EOL})
    BY InputsAssumption
  <2>2. QED
    BY <1>1, <2>1, DeepText DEF IsSeq
<1>3. /\ Len(toks) \in Nat /\ Len(text) \in Nat /\ Len(toks) <= Len(text)
      /\ \A i \in 1..Len(toks) : text[i] = toks[i]
  BY <1>1, <1>2, BeginsFacts
<1>4. read \in Nat
  BY ReadIsNat DEF Underway
<1>5. QED
  BY <1>1, <1>3, <1>4

LEMMA ObjType == ASSUME NEW obj \in Objects PROVE obj.t \in Types
<1>1. WellFormed(obj) /\ obj.t # "token"
  BY DeepText
<1>2. obj.t \in LeafTypes \union {"array", "dict", "ref", "ind"}
  BY <1>1 DEF WellFormed
<1>3. QED
  BY <1>2 DEF Types

LEMMA BufferStep ==
  ASSUME text \in Seq(Tokens \union {Byte, EOL}), BufferInv, RNext PROVE BufferInv'
<1> SUFFICES ASSUME NEW obj \in Objects, AskedFirst(obj)'
             PROVE  (Underway(obj)' /\ read' < Len(TextOf(obj))) \/ Gives({0, 1}, obj, TextOf(obj))'
  BY DEF BufferInv
<1>1. request' = request
  BY DEF RNext, EndOfText, SkipEOL, Unexpected, FileToken, StreamData, BufferToken, Feed
<1>2. text' = text /\ source' = source /\ target' = target
  BY <1>1 DEF request
<1>3. source = "buffer" /\ Asked(obj) /\ Begins(TextOf(obj))
  BY <1>2 DEF AskedFirst, Asked, Begins
<1>4. CASE Gives({0, 1}, obj, TextOf(obj))
  <2>1. ret # Running
    BY <1>4 DEF Gives, Running
  <2>2. FALSE
    BY <2>1 DEF RNext, EndOfText, SkipEOL, Unexpected, FileToken, StreamData, BufferToken, More
  <2>3. QED
    BY <2>2
<1>5. CASE Underway(obj) /\ read < Len(TextOf(obj))
  <2>1. read < Len(text) /\ text[read + 1] = TextOf(obj)[read + 1]
    BY <1>3, <1>5, NextToken
  <2>2. BufferToken
    BY <1>3, <1>5, <2>1, OnlyTokens
  <2>3. status' = "ok" /\ IInv' /\ FollowsObj(obj)' /\ read' = read + 1
    BY <1>5, <2>1, <2>2, FeedIs DEF BufferToken
  <2>4. PICK types : types = IF target = AnyType THEN Types ELSE {target}
    OBVIOUS
  <2>5. IF \E type \in types : Found(type)
        THEN ret' = 0 /\ result' = stack'[1].obj
        ELSE UNCHANGED reader
    BY <2>2, <2>3, <2>4 DEF BufferToken
  <2>6. AllAlone'
    BY AloneOK, PTL
  <2>7. /\ read' = Len(TextOf(obj)) => stack' = <<NonTerm(obj)>>
        /\ read' < Len(TextOf(obj)) /\ Len(stack') = 1 /\ IsObj(stack'[1]) =>
             stack'[1].obj.t = "int" /\ obj.t \in {"ref", "ind"}
    BY <2>3, <2>6 DEF AllAlone, Alone
  <2>8. CASE read' = Len(TextOf(obj))
    <3>1. Len(stack') = 1 /\ stack'[1] = NonTerm(obj)
      BY <2>7, <2>8, OneFacts
    <3>2. Found(obj.t) /\ stack'[1].obj = obj
      BY <3>1, NonTermFields DEF Found
    <3>3. obj.t \in types
      BY <1>3, <2>4, ObjType DEF Asked
    <3>4. ret' = 0 /\ result' = obj
      BY <2>5, <3>2, <3>3
    <3>5. QED
      BY <2>8, <3>4 DEF Gives
  <2>9. CASE read' < Len(TextOf(obj))
    <3>1. \A type \in types : ~Found(type)
      <4> SUFFICES ASSUME NEW type \in types, Found(type) PROVE FALSE
        OBVIOUS
      <4>1. Len(stack') = 1 /\ IsObj(stack'[1]) /\ stack'[1].obj.t = type
        BY DEF Found
      <4>2. type = "int" /\ obj.t \in {"ref", "ind"}
        BY <2>7, <2>9, <4>1
      <4>3. target = obj.t /\ AnyType = "any"
        BY <1>3, <4>2 DEF Asked, AnyType
      <4>4. types = {target}
        BY <2>4, <4>2, <4>3
      <4>5. QED
        BY <4>2, <4>3, <4>4
    <3>2. ret' = Running
      BY <1>5, <2>5, <3>1 DEF reader, Underway
    <3>3. QED
      BY <2>3, <2>9, <3>2 DEF Underway
  <2>10. read' <= Len(TextOf(obj))
    <3>1. read \in Nat /\ Len(TextOf(obj)) \in Nat
      BY <1>5, ReadIsNat, TextNotEmpty DEF Underway
    <3>2. QED
      BY <1>5, <2>3, <3>1
  <2>11. QED
    <3>1. read' \in Nat /\ Len(TextOf(obj)) \in Nat
      BY <1>5, <2>3, ReadIsNat, TextNotEmpty DEF Underway
    <3>2. QED
      BY <2>8, <2>9, <2>10, <3>1
<1>6. QED
  BY <1>3, <1>4, <1>5 DEF BufferInv, AskedFirst

-----------------------------------------------------------------------------
(* Reading from a file: an object without streams                           *)

AskedPlain(obj) ==
  source = "file" /\ target = obj.t /\ LengthPlaces(TextOf(obj)) = {} /\ Begins(TextOf(obj))

PlainInv ==
  \A obj \in Objects : AskedPlain(obj) =>
    (Underway(obj) /\ read < Len(TextOf(obj)) /\ stream_state = 0) \/ Gives({1}, obj, TextOf(obj))

\* Nothing happens after the return.
LEMMA StopsWhenDone == ASSUME ret # Running PROVE ~RNext
BY DEF RNext, EndOfText, SkipEOL, Unexpected, FileToken, StreamData, BufferToken, More

LEMMA RequestStays == ASSUME RNext PROVE text' = text /\ source' = source /\ target' = target
BY DEF request, RNext, EndOfText, SkipEOL, Unexpected, FileToken, StreamData, BufferToken, Feed

\* A type is found at the end of the object and not before.
LEMMA FoundAtEnd ==
  ASSUME NEW obj \in Objects, target = obj.t, IInv', FollowsObj(obj)'
  PROVE  /\ read' = Len(TextOf(obj)) => Found(target) /\ stack'[1].obj = obj
         /\ read' < Len(TextOf(obj)) => ~Found(target)
<1>1. AllAlone'
  BY AloneOK, PTL
<1>2. /\ read' = Len(TextOf(obj)) => stack' = <<NonTerm(obj)>>
      /\ read' < Len(TextOf(obj)) /\ Len(stack') = 1 /\ IsObj(stack'[1]) =>
           stack'[1].obj.t = "int" /\ obj.t \in {"ref", "ind"}
  BY <1>1 DEF AllAlone, Alone
<1>3. ASSUME read' = Len(TextOf(obj)) PROVE Found(target) /\ stack'[1].obj = obj
  <2>1. Len(stack') = 1 /\ stack'[1] = NonTerm(obj)
    BY <1>2, <1>3, OneFacts
  <2>2. QED
    BY <2>1, NonTermFields DEF Found
<1>4. ASSUME read' < Len(TextOf(obj)), Found(target) PROVE FALSE
  BY <1>2, <1>4 DEF Found
<1>5. QED
  BY <1>3, <1>4

LEMMA PlainStep ==
  ASSUME text \in Seq(Tokens \union {Byte, EOL}), PlainInv, RNext PROVE PlainInv'
<1> SUFFICES ASSUME NEW obj \in Objects, AskedPlain(obj)'
             PROVE  \/ Underway(obj)' /\ read' < Len(TextOf(obj)) /\ stream_state' = 0
                    \/ Gives({1}, obj, TextOf(obj))'
  BY DEF PlainInv
<1>1. text' = text /\ source' = source /\ target' = target
  BY RequestStays
<1>2. source = "file" /\ target = obj.t /\ LengthPlaces(TextOf(obj)) = {} /\ Begins(TextOf(obj))
  BY <1>1 DEF AskedPlain, Begins
<1>3. CASE Gives({1}, obj, TextOf(obj))
  BY <1>3, StopsWhenDone DEF Gives, Running
<1>4. CASE Underway(obj) /\ read < Len(TextOf(obj)) /\ stream_state = 0
  <2>1. read < Len(text) /\ text[read + 1] = TextOf(obj)[read + 1]
    BY <1>2, <1>4, NextToken
  <2>2. FileToken
    BY <1>2, <1>4, <2>1, OnlyTokens
  <2>3. status' = "ok" /\ IInv' /\ FollowsObj(obj)' /\ read' = read + 1
    BY <1>4, <2>1, <2>2, FeedIs DEF FileToken
  <2>4. Plain
    BY <1>4, <2>2, <2>3 DEF FileToken, LengthValue, BeforeStream, StreamEnd
  <2>5. read \in Nat /\ Len(TextOf(obj)) \in Nat
    BY <1>4, ReadIsNat, TextNotEmpty DEF Underway
  <2>6. Tok # Length
    <3>1. read + 1 \in 1..Len(TextOf(obj))
      BY <1>4, <2>5
    <3>2. TextOf(obj)[read + 1] # Length
      BY <1>2, <3>1 DEF LengthPlaces
    <3>3. QED
      BY <2>1, <3>2 DEF Tok
  <2>7. /\ stream_state' = 0
        /\ IF Found(target) THEN ret' = 1 /\ result' = stack'[1].obj ELSE UNCHANGED <<ret, result>>
    BY <2>4, <2>6 DEF Plain
  <2>8. /\ read' = Len(TextOf(obj)) => Found(target) /\ stack'[1].obj = obj
        /\ read' < Len(TextOf(obj)) => ~Found(target)
    BY <1>2, <2>3, FoundAtEnd
  <2>9. CASE read' = Len(TextOf(obj))
    BY <2>7, <2>8, <2>9 DEF Gives
  <2>10. CASE read' < Len(TextOf(obj))
    BY <1>4, <2>3, <2>7, <2>8, <2>10 DEF Underway
  <2>11. QED
    BY <1>4, <2>3, <2>5, <2>9, <2>10
<1>5. QED
  BY <1>2, <1>3, <1>4 DEF PlainInv, AskedPlain

-----------------------------------------------------------------------------
(* Reading from a file: an object with a stream                             *)

\* One symbol behind others is the only one.
LEMMA LastOf ==
  ASSUME NEW f, NEW x, NEW y, IsSeq(f), Append(f, x) = <<y>>
  PROVE  x = y /\ Len(f) = 0
<1>1. PICK n, r : n = Len(f) /\ r = Append(f, x)
  OBVIOUS
<1>2. Grown(f, x, r, n) /\ n \in Nat
  <2>1. n \in Nat
    BY <1>1, SeqFacts
  <2>2. Grows(f, x, r, n)
    BY <1>1, <2>1 DEF Grows
  <2>3. QED
    BY <2>1, <2>2, Appended
<1>3. Len(r) = n + 1 /\ r[n + 1] = x /\ Len(r) = 1 /\ r[1] = y
  BY <1>1, <1>2, OneFacts DEF Grown
<1>4. n = 0
  <2>1. n \in Nat /\ n + 1 = 1
    BY <1>2, <1>3
  <2>2. QED
    BY ONLY <2>1
<1>5. QED
  BY <1>1, <1>3, <1>4

LEMMA EndOfInd ==
  ASSUME NEW obj \in Objects, obj.t = "ind", NEW m \in Nat, Len(TextOf(obj)) = m + 1,
         NEW c, c = RanTo(ReadStart, ItemsOf(TextOf(obj)), m)
  PROVE  TextOf(obj)[m + 1] = "endobj" /\ EndsObj(c) /\ Len(c.syms) = 4 /\ IndOf(c) = obj
<1>1. PICK toks, items, tok, d :
        toks = TextOf(obj) /\ items = ItemsOf(toks) /\ tok = toks[m + 1] /\ d = AfterToken(c, tok)
  OBVIOUS
<1>2. IsSeq(toks) /\ AllTokens(items) /\ Len(items) = m + 1 /\ items[m + 1] = Item(tok)
  <2>1. IsSeq(toks) /\ AllTokens(items)
    BY <1>1, DeepText
  <2>2. m + 1 \in 1..Len(toks)
    BY <1>1
  <2>3. QED
    BY <1>1, <2>1, <2>2, ItemsOfIs
<1>3. IsState(ReadStart) /\ RanTo(ReadStart, items, m + 1) = State("ok", <<NonTerm(obj)>>, 0, <<>>)
  BY <1>1, <1>2, TextRan DEF Ran
<1>4. IsState(c) /\ c.ok = "ok"
  <2>1. ItemSeq(items) /\ m \in 0..Len(items) /\ m \in 0..Len(toks)
    BY <1>1, <1>2 DEF AllTokens, ItemSeq
  <2>2. QED
    BY <1>1, <1>3, <2>1, RanIsState, TextRan
<1>5. d.ok = "ok" /\ d.syms = <<NonTerm(obj)>>
  <2>1. RanTo(ReadStart, items, m + 1) = After(c, Item(tok))
    BY <1>1, <1>2, RanSteps
  <2>2. Item(tok).t = "token" /\ Item(tok).of[1] = tok
    BY DEF Item, Obj
  <2>3. After(c, Item(tok)) = d
    BY <1>1, <1>4, <2>2 DEF After
  <2>4. QED
    BY <1>3, <2>1, <2>3 DEF State
<1>6. PICK s, n, y : s = c.syms /\ n = Len(s) /\ y = NonTerm(obj)
  OBVIOUS
<1>7. IsSeq(s) /\ n \in Nat /\ y.type = "nonterm" /\ y.obj.t = "ind" /\ c.pos \in Nat
  BY <1>4, <1>6, SeqFacts DEF IsState, NonTerm
<1>8. Stuck(c).ok = "stuck"
  BY DEF Stuck, State
<1>9. ASSUME NEW x, NEW k \in 0..n, d.syms = Append(SubSeq(s, 1, k), x) PROVE x = y /\ k = 0
  <2>1. PICK f : f = SubSeq(s, 1, k)
    OBVIOUS
  <2>2. IsSeq(f) /\ Len(f) = k
    BY <1>6, <1>7, <2>1, CutFacts
  <2>3. Append(f, x) = <<y>>
    BY <1>5, <1>6, <1>9, <2>1
  <2>4. QED
    BY <2>2, <2>3, LastOf
<1>10. ASSUME NEW x, d.syms = Append(s, x) PROVE x = y
  BY <1>5, <1>6, <1>7, <1>10, LastOf
<1>11. tok \notin Leaves
  <2> SUFFICES ASSUME tok \in Leaves PROVE FALSE
    OBVIOUS
  <2>1. PICK x : x = NonTerm(Leaf(tok))
    OBVIOUS
  <2>2. d.syms = Append(s, x)
    BY <1>1, <1>6, <2>1 DEF AfterToken, Pushing, State
  <2>3. x.obj.t = LeafType(tok)
    BY <2>1 DEF NonTerm, Leaf, Obj
  <2>4. LeafType(tok) # "ind"
    BY DEF LeafType
  <2>5. QED
    BY <1>7, <1>10, <2>2, <2>3, <2>4
<1>12. tok # "obj" /\ tok \notin {"[", "<"}
  <2> SUFFICES ASSUME tok \in {"obj", "[", "<"} PROVE FALSE
    OBVIOUS
  <2>1. d.syms = Append(s, Term(tok, FALSE)) \/ d.syms = Append(s, Term(tok, TRUE))
    BY <1>1, <1>6, <1>11 DEF AfterToken, Pushing, Opened, State
  <2>2. PICK x : d.syms = Append(s, x) /\ (x = Term(tok, FALSE) \/ x = Term(tok, TRUE))
    BY <2>1
  <2>3. x.type = "term"
    BY <2>2 DEF Term
  <2>4. QED
    BY <1>7, <1>10, <2>2, <2>3
<1>13. tok \notin {"]", ">"}
  <2> SUFFICES ASSUME tok \in {"]", ">"} PROVE FALSE
    OBVIOUS
  <2>1. Closable(c, tok) /\ d = Closed(c, tok)
    BY <1>1, <1>5, <1>8, <1>11, <1>12 DEF AfterToken
  <2>2. PICK o, parts : parts = [i \in 1..Len(BodyOf(c)) |-> BodyOf(c)[i].obj] /\ o = Obj(TypeOf(tok), parts)
    OBVIOUS
  <2>3. PICK x, k : x = NonTerm(o) /\ k = c.pos
    OBVIOUS
  <2>4. d.syms = Append(SubSeq(s, 1, k), x)
    <3>1. Closed(c, tok).syms = Append(SubSeq(c.syms, 1, c.pos), NonTerm(Obj(TypeOf(tok), [i \in 1..Len(BodyOf(c)) |-> BodyOf(c)[i].obj])))
      BY DEF Closed, State
    <3>2. QED
      BY <1>6, <2>1, <2>2, <2>3, <3>1
  <2>5. k \in 0..n
    BY <1>6, <1>7, <2>1, <2>3 DEF Closable
  <2>6. x.obj.t \in {"array", "dict"}
    BY <2>2, <2>3 DEF NonTerm, Obj, TypeOf
  <2>7. QED
    BY <1>7, <1>9, <2>4, <2>5, <2>6
<1>14. tok # "R"
  <2> SUFFICES ASSUME tok = "R" PROVE FALSE
    OBVIOUS
  <2>1. Refers(c) /\ d = Replacing(c, 2, RefOf(c))
    BY <1>1, <1>5, <1>8, <1>11 DEF AfterToken
  <2>2. PICK x, k : x = NonTerm(RefOf(c)) /\ k = n - 2
    OBVIOUS
  <2>3. d.syms = Append(SubSeq(s, 1, k), x)
    BY <1>6, <2>1, <2>2 DEF Replacing, State
  <2>4. k \in 0..n
    BY <1>6, <1>7, <2>1, <2>2 DEF Refers
  <2>5. x.obj.t = "ref"
    BY <2>2 DEF NonTerm, RefOf, Obj
  <2>6. QED
    BY <1>7, <1>9, <2>3, <2>4, <2>5
<1>15. tok = "endobj" /\ EndsObj(c) /\ d = Replacing(c, 4, IndOf(c))
  BY <1>1, <1>5, <1>8, <1>11, <1>12, <1>13, <1>14 DEF AfterToken
<1>16. PICK x, k : x = NonTerm(IndOf(c)) /\ k = n - 4
  OBVIOUS
<1>17. k \in 0..n
  BY <1>6, <1>7, <1>15, <1>16 DEF EndsObj
<1>18. d.syms = Append(SubSeq(s, 1, k), x)
  BY <1>6, <1>15, <1>16 DEF Replacing, State
<1>19. x = y /\ k = 0
  BY <1>9, <1>17, <1>18
<1>20. \A p : NonTerm(p).obj = p
  BY DEF NonTerm
<1>21. IndOf(c) = obj /\ n = 4
  <2>1. IndOf(c) = obj
    <3>1. NonTerm(IndOf(c)) = NonTerm(obj)
      BY <1>6, <1>16, <1>19
    <3>2. NonTerm(IndOf(c)).obj = IndOf(c) /\ NonTerm(obj).obj = obj
      BY ONLY <1>20
    <3>3. QED
      BY <3>1, <3>2
  <2>2. n \in Nat /\ n - 4 = 0
    BY <1>7, <1>16, <1>19
  <2>3. n = 4
    BY ONLY <2>2
  <2>4. QED
    BY <2>1, <2>3
<1>22. QED
  BY <1>1, <1>6, <1>15, <1>21

\* The symbols when only the end of an indirect object is missing.
LEMMA BeforeEndObj ==
  ASSUME NEW obj \in Objects, obj.t = "ind", IInv, FollowsObj(obj), read + 1 = Len(TextOf(obj))
  PROVE  /\ TextOf(obj)[read + 1] = "endobj"
         /\ Len(stack) = 4 /\ IsSeq(stack)
         /\ stack[1] = NonTerm(obj.of[1]) /\ stack[2] = NonTerm(obj.of[2])
         /\ stack[3] = Term("obj", FALSE) /\ stack[4] = NonTerm(obj.of[3])
         /\ obj.of[1].t = "int" /\ obj.of[2].t = "int"
<1>1. PICK m, c : m = read /\ c = RanTo(ReadStart, ItemsOf(TextOf(obj)), m)
  OBVIOUS
<1>2. m \in Nat /\ c = Config
  BY <1>1, ReadIsNat DEF FollowsObj
<1>3. TextOf(obj)[m + 1] = "endobj" /\ EndsObj(c) /\ Len(c.syms) = 4 /\ IndOf(c) = obj
  BY <1>1, <1>2, EndOfInd
<1>4. c.syms = stack /\ IsSeq(stack)
  BY <1>2, ConfigFields, ConfigIs
<1>5. Len(stack) = 4
  BY <1>3, <1>4
<1>6. IsInt(stack[1]) /\ IsInt(stack[2]) /\ IsObj(stack[4]) /\ stack[3] = Term("obj", FALSE)
  <2>1. PICK n : n = Len(c.syms)
    OBVIOUS
  <2>2. IsInt(stack[n - 3]) /\ IsInt(stack[n - 2]) /\ IsObj(stack[n]) /\ stack[n - 1] = Term("obj", FALSE)
    BY <1>3, <1>4, <2>1 DEF EndsObj
  <2>3. n = 4 /\ n - 3 = 1 /\ n - 2 = 2 /\ n - 1 = 3
    BY <1>3, <2>1
  <2>4. QED
    BY <2>2, <2>3
<1>7. obj.of = <<stack[1].obj, stack[2].obj, stack[4].obj>>
  BY <1>3, <1>4 DEF IndOf, Obj
<1>8. 1 \in 1..Len(stack) /\ 2 \in 1..Len(stack) /\ 4 \in 1..Len(stack)
  BY <1>5
<1>9. stack[1] = NonTerm(stack[1].obj) /\ stack[2] = NonTerm(stack[2].obj) /\ stack[4] = NonTerm(stack[4].obj)
  BY <1>6, <1>8, SymbolIs DEF IsInt
<1>10. obj.of[1] = stack[1].obj /\ obj.of[2] = stack[2].obj /\ obj.of[3] = stack[4].obj
  BY <1>7
<1>11. stack[1].obj.t = "int" /\ stack[2].obj.t = "int"
  BY <1>6 DEF IsInt
<1>12. QED
  BY <1>1, <1>3, <1>4, <1>5, <1>6, <1>9, <1>10, <1>11

\* The place of the key /Length in the text of a stream.
Place(obj) == CHOOSE i \in LengthPlaces(TextOf(obj)) : TRUE

LEMMA PlaceIs ==
  ASSUME NEW obj \in Objects, DescribesStream(obj),
         NEW m, NEW i, m = Len(TextOf(obj)) - 1, i = Place(obj)
  PROVE  /\ obj.t = "ind" /\ m \in Nat /\ Len(TextOf(obj)) = m + 1 /\ i \in 1..m /\ i + 1 <= m
         /\ LengthPlaces(TextOf(obj)) = {i} /\ TextOf(obj)[i] = Length /\ TextOf(obj)[i + 1] \in Ints
         /\ DataLength(TextOf(obj)) = IntValue[TextOf(obj)[i + 1]] /\ DataLength(TextOf(obj)) \in Nat
         /\ TextOf(obj)[m + 1] = "endobj"
<1>1. PICK toks : toks = TextOf(obj)
  OBVIOUS
<1>2. obj.t = "ind" /\ m \in Nat /\ Len(toks) = m + 1
  BY <1>1, TextNotEmpty DEF DescribesStream
<1>3. PICK j \in LengthPlaces(toks) : LengthPlaces(toks) = {j} /\ toks[j + 1] \in Ints
  BY <1>1 DEF DescribesStream
<1>4. i = j
  BY <1>1, <1>3 DEF Place
<1>5. i \in 1..Len(toks) /\ toks[i] = Length
  BY <1>3, <1>4 DEF LengthPlaces
<1>6. toks[m + 1] = "endobj"
  BY <1>1, <1>2, EndOfInd
<1>7. Length # "endobj" /\ "endobj" \notin Ints
  BY IntsOnly DEF Length
<1>8. i # m + 1 /\ i + 1 # m + 1
  BY <1>3, <1>4, <1>5, <1>6, <1>7
<1>9. i \in 1..m /\ i + 1 <= m
  BY <1>2, <1>5, <1>8
<1>10. DataLength(toks) = IntValue[toks[i + 1]]
  BY <1>1 DEF DataLength, Place
<1>11. IntValue[toks[i + 1]] \in Nat
  BY <1>3, <1>4, IntsAssumption
<1>12. QED
  BY <1>1, <1>2, <1>3, <1>4, <1>5, <1>6, <1>9, <1>10, <1>11

\* The tokens before the last one, and n bytes.
Streamed(toks, n) ==
  Front(toks) \o <<"stream", EOL>> \o [i \in 1..n |-> Byte] \o <<"endstream", "endobj">>

IsStreamed(toks, m, n, r) == m \in Nat /\ n \in Nat /\ IsSeq(toks) /\ Len(toks) = m + 1 /\ r = Streamed(toks, n)

LEMMA StreamTextIs ==
  ASSUME NEW toks, NEW m, NEW n, NEW r, IsStreamed(toks, m, n, r)
  PROVE  /\ IsSeq(r) /\ Len(r) = m + n + 4 /\ \A i \in 1..m : r[i] = toks[i]
         /\ r[m + 1] = "stream" /\ r[m + 2] = EOL
         /\ r[m + n + 3] = "endstream" /\ r[m + n + 4] = "endobj"
<1> USE DEF IsStreamed
<1>1. PICK f, a, b, d :
        f = SubSeq(toks, 1, m) /\ a = <<"stream", EOL>> /\ b = [i \in 1..n |-> Byte] /\ d = <<"endstream", "endobj">>
  OBVIOUS
<1>2. IsSeq(f) /\ Len(f) = m /\ \A i \in 1..m : f[i] = toks[i]
  <2>1. m \in 0..Len(toks)
    OBVIOUS
  <2>2. QED
    BY <1>1, <2>1, CutFacts
<1>3. ASSUME NEW x, NEW y PROVE IsSeq(<<x, y>>) /\ Len(<<x, y>>) = 2 /\ <<x, y>>[1] = x /\ <<x, y>>[2] = y
  <2>1. PICK S : S = {x, y}
    OBVIOUS
  <2>2. <<x, y>> \in Seq(S)
    BY <2>1
  <2>3. QED
    BY <2>2 DEF IsSeq
<1>4. IsSeq(a) /\ Len(a) = 2 /\ a[1] = "stream" /\ a[2] = EOL
  BY <1>1, <1>3
<1>5. IsSeq(d) /\ Len(d) = 2 /\ d[1] = "endstream" /\ d[2] = "endobj"
  BY <1>1, <1>3
<1>6. IsSeq(b) /\ Len(b) = n
  <2>1. b = [i \in 1..n |-> b[i]]
    BY <1>1
  <2>2. QED
    BY <2>1, FnIsSeq
<1>7. r = ((f \o a) \o b) \o d
  <2>1. Front(toks) = f
    BY <1>1 DEF Front
  <2>2. QED
    BY <1>1, <2>1 DEF Streamed
<1>8. PICK p, q : p = f \o a /\ q = p \o b
  OBVIOUS
<1>9. IsSeq(p) /\ Len(p) = m + 2 /\ (\A i \in 1..m : p[i] = f[i]) /\ p[m + 1] = "stream" /\ p[m + 2] = EOL
  <2>1. Joined(f, a, p)
    <3>1. Joins(f, a, p)
      BY <1>2, <1>4, <1>8 DEF Joins
    <3>2. QED
      BY ONLY <3>1, BothJoined
  <2>2. 1 \in 1..2 /\ 2 \in 1..2
    OBVIOUS
  <2>3. /\ IsSeq(p) /\ Len(p) = m + 2 /\ (\A i \in 1..m : p[i] = f[i]) /\ \A i \in 1..2 : p[m + i] = a[i]
    BY <1>2, <1>4, <2>1 DEF Joined
  <2>4. QED
    BY <1>4, <2>2, <2>3
<1>10. IsSeq(q) /\ Len(q) = m + 2 + n /\ \A i \in 1..(m + 2) : q[i] = p[i]
  <2>1. Joined(p, b, q)
    <3>1. Joins(p, b, q)
      BY <1>6, <1>8, <1>9 DEF Joins
    <3>2. QED
      BY ONLY <3>1, BothJoined
  <2>2. QED
    BY <1>6, <1>9, <2>1 DEF Joined
<1>11. /\ IsSeq(r) /\ Len(r) = m + 2 + n + 2 /\ (\A i \in 1..(m + 2 + n) : r[i] = q[i])
       /\ \A i \in 1..2 : r[m + 2 + n + i] = d[i]
  <2>1. Joined(q, d, r)
    <3>1. Joins(q, d, r)
      BY <1>5, <1>7, <1>8, <1>10 DEF Joins
    <3>2. QED
      BY ONLY <3>1, BothJoined
  <2>2. QED
    BY <1>5, <1>10, <2>1 DEF Joined
<1>12. \A i \in 1..(m + 2) : r[i] = p[i]
  <2>1. \A i \in 1..(m + 2) : i \in 1..(m + 2 + n)
    OBVIOUS
  <2>2. QED
    BY <1>10, <1>11, <2>1
<1>13. r[m + 1] = "stream" /\ r[m + 2] = EOL
  <2>1. m + 1 \in 1..(m + 2) /\ m + 2 \in 1..(m + 2)
    OBVIOUS
  <2>2. QED
    BY <1>9, <1>12, <2>1
<1>14. \A i \in 1..m : r[i] = toks[i]
  <2>1. \A i \in 1..m : i \in 1..(m + 2)
    OBVIOUS
  <2>2. QED
    BY <1>2, <1>9, <1>12, <2>1
<1>15. r[m + n + 3] = "endstream" /\ r[m + n + 4] = "endobj"
  <2>1. 1 \in 1..2 /\ 2 \in 1..2 /\ m + 2 + n + 1 = m + n + 3 /\ m + 2 + n + 2 = m + n + 4
    OBVIOUS
  <2>2. r[m + 2 + n + 1] = d[1] /\ r[m + 2 + n + 2] = d[2]
    BY <1>11, <2>1
  <2>3. QED
    BY <1>5, <2>1, <2>2
<1>16. Len(r) = m + n + 4
  BY <1>11
<1>17. QED
  BY <1>11, <1>13, <1>14, <1>15, <1>16

AskedStream(obj) ==
  source = "file" /\ target = obj.t /\ DescribesStream(obj) /\ Begins(StreamText(obj))

\* How many tokens stand before the last one, endobj.
Inside(obj) == Len(TextOf(obj)) - 1

\* Up to the keyword stream the reader looks for the key, for its value, and then for
\* the keyword.
Announced(obj) ==
  LET i == Place(obj)
  IN  /\ Underway(obj) /\ read <= Inside(obj)
      /\ read < i => stream_state = 0
      /\ read = i => stream_state = 1
      /\ read > i => stream_state = 2 /\ stream_len = DataLength(TextOf(obj))

\* The symbols when the data have been read.
StreamSymbols(obj) ==
  <<NonTerm(obj.of[1]), NonTerm(obj.of[2]), Term("obj", FALSE), NonTerm(Obj("stream", <<obj.of[3]>>))>>

DataRead(obj) ==
  LET m == Inside(obj)
      n == DataLength(TextOf(obj))
  IN  /\ ret = Running /\ status = "ok" /\ stack = StreamSymbols(obj)
      /\ \/ read = m + n + 2 /\ stream_state = 3
         \/ read = m + n + 3 /\ stream_state = 0

StreamInv ==
  \A obj \in Objects : AskedStream(obj) =>
    Announced(obj) \/ DataRead(obj) \/ Gives({1}, WithStream(obj), StreamText(obj))

\* What a file holds that begins with a stream.
LEMMA StreamBegins ==
  ASSUME NEW obj \in Objects, text \in Seq(Tokens \union {Byte, EOL}), DescribesStream(obj), Begins(StreamText(obj)),
         NEW m, NEW n, m = Inside(obj), n = DataLength(TextOf(obj))
  PROVE  /\ m \in Nat /\ n \in Nat /\ Len(StreamText(obj)) = m + n + 4
         /\ Len(text) \in Nat /\ m + n + 4 <= Len(text)
         /\ \A i \in 1..m : text[i] = TextOf(obj)[i]
         /\ text[m + 1] = "stream" /\ text[m + 2] = EOL
         /\ text[m + n + 3] = "endstream" /\ text[m + n + 4] = "endobj"
<1>1. PICK toks, r : toks = TextOf(obj) /\ r = StreamText(obj)
  OBVIOUS
<1>2. IsSeq(toks) /\ IsSeq(text)
  <2>1. text \in Seq(Tokens \union {Byte, EOL})
    BY InputsAssumption
  <2>2. QED
    BY <1>1, <2>1, DeepText DEF IsSeq
<1>3. m \in Nat /\ n \in Nat /\ Len(toks) = m + 1
  BY <1>1, PlaceIs DEF Inside
<1>4. r = Streamed(toks, n)
  BY <1>1 DEF StreamText, Streamed
<1>5. /\ IsSeq(r) /\ Len(r) = m + n + 4 /\ \A i \in 1..m : r[i] = toks[i]
      /\ r[m + 1] = "stream" /\ r[m + 2] = EOL
      /\ r[m + n + 3] = "endstream" /\ r[m + n + 4] = "endobj"
  <2>1. IsStreamed(toks, m, n, r)
    BY <1>2, <1>3, <1>4 DEF IsStreamed
  <2>2. QED
    BY ONLY <2>1, StreamTextIs
<1>6. /\ Len(r) \in Nat /\ Len(text) \in Nat /\ Len(r) <= Len(text)
      /\ \A i \in 1..Len(r) : text[i] = r[i]
  BY <1>1, <1>2, <1>5, BeginsFacts
<1>7. \A i \in 1..(m + n + 4) : text[i] = r[i]
  BY <1>5, <1>6
<1>8. \A i \in 1..m : text[i] = toks[i]
  <2>1. \A i \in 1..m : i \in 1..(m + n + 4)
    BY <1>3
  <2>2. QED
    BY <1>5, <1>7, <2>1
<1>9. /\ m + 1 \in 1..(m + n + 4) /\ m + 2 \in 1..(m + n + 4)
      /\ m + n + 3 \in 1..(m + n + 4) /\ m + n + 4 \in 1..(m + n + 4)
  BY <1>3
<1>10. /\ text[m + 1] = "stream" /\ text[m + 2] = EOL
       /\ text[m + n + 3] = "endstream" /\ text[m + n + 4] = "endobj"
  BY <1>5, <1>7, <1>9
<1>11. QED
  BY <1>1, <1>3, <1>5, <1>6, <1>8, <1>10

\* The tokens of the object before the stream.
LEMMA AnnouncedStep ==
  ASSUME NEW obj \in Objects, text \in Seq(Tokens \union {Byte, EOL}), AskedStream(obj), Announced(obj), read < Inside(obj), RNext
  PROVE  Announced(obj)'
<1>1. PICK m, i, toks : m = Inside(obj) /\ i = Place(obj) /\ toks = TextOf(obj)
  OBVIOUS
<1>2. /\ obj.t = "ind" /\ m \in Nat /\ Len(toks) = m + 1 /\ i \in 1..m /\ i + 1 <= m
      /\ LengthPlaces(toks) = {i} /\ toks[i] = Length /\ toks[i + 1] \in Ints
      /\ DataLength(toks) = IntValue[toks[i + 1]]
  BY <1>1, PlaceIs DEF Inside, AskedStream
<1>3. /\ Underway(obj) /\ read < m /\ source = "file" /\ target = obj.t
      /\ read < i => stream_state = 0
      /\ read = i => stream_state = 1
      /\ read > i => stream_state = 2 /\ stream_len = DataLength(toks)
  BY <1>1 DEF Announced, AskedStream
<1>4. read \in Nat
  BY <1>3, ReadIsNat DEF Underway
<1>5. read < Len(text) /\ text[read + 1] = toks[read + 1] /\ read < Len(toks) /\ read + 1 \in 1..Len(toks)
  <2>1. PICK n : n = DataLength(toks)
    OBVIOUS
  <2>2. n \in Nat /\ Len(text) \in Nat /\ m + n + 4 <= Len(text) /\ \A k \in 1..m : text[k] = toks[k]
    BY <1>1, <2>1, StreamBegins DEF AskedStream
  <2>3. read + 1 \in 1..m
    BY <1>2, <1>3, <1>4
  <2>4. QED
    BY <1>2, <1>3, <1>4, <2>2, <2>3
<1>6. FileToken
  BY <1>1, <1>3, <1>5, OnlyTokens
<1>7. status' = "ok" /\ IInv' /\ FollowsObj(obj)' /\ read' = read + 1
  BY <1>1, <1>3, <1>5, <1>6, FeedIs DEF FileToken
<1>8. Plain \/ LengthValue \/ BeforeStream \/ StreamEnd
  BY <1>6, <1>7 DEF FileToken
<1>9. Tok = toks[read + 1] /\ (Tok = Length <=> read + 1 = i)
  <2>1. Tok = toks[read + 1]
    BY <1>5 DEF Tok
  <2>2. toks[read + 1] = Length <=> read + 1 \in LengthPlaces(toks)
    BY <1>5 DEF LengthPlaces
  <2>3. QED
    BY <1>2, <2>1, <2>2
<1>10. ret = Running
  BY <1>3 DEF Underway
<1>11. /\ ret' = Running
       /\ read' < i => stream_state' = 0
       /\ read' = i => stream_state' = 1
       /\ read' > i => stream_state' = 2 /\ stream_len' = DataLength(toks)
  <2>1. CASE read < i
    <3>1. Plain
      BY <1>3, <1>8, <2>1 DEF LengthValue, BeforeStream, StreamEnd
    <3>2. ~Found(target)
      <4>1. read' < Len(TextOf(obj))
        BY <1>1, <1>2, <1>3, <1>4, <1>7
      <4>2. QED
        BY <1>3, <1>7, <4>1, FoundAtEnd
    <3>3. ret' = Running /\ stream_state' = IF read + 1 = i THEN 1 ELSE 0
      BY <1>9, <1>10, <3>1, <3>2 DEF Plain
    <3>4. read' <= i /\ read' \in Nat
      BY <1>2, <1>4, <1>7, <2>1
    <3>5. QED
      BY <1>2, <1>7, <3>3, <3>4
  <2>2. CASE read = i
    <3>1. LengthValue
      BY <1>2, <1>3, <1>8, <2>2 DEF Plain, BeforeStream, StreamEnd
    <3>2. ret' = Running /\ stream_state' = 2 /\ stream_len' = IntValue[Tok]
      BY <1>2, <1>9, <1>10, <2>2, <3>1 DEF LengthValue
    <3>3. read' > i
      BY <1>4, <1>7, <2>2
    <3>4. QED
      BY <1>2, <1>4, <1>7, <1>9, <2>2, <3>2, <3>3
  <2>3. CASE read > i
    <3>1. BeforeStream
      BY <1>2, <1>3, <1>4, <1>8, <2>3 DEF Plain, LengthValue, StreamEnd
    <3>2. ret' = Running /\ stream_state' = 2 /\ stream_len' = DataLength(toks)
      BY <1>3, <1>10, <2>3, <3>1 DEF BeforeStream, reader
    <3>3. read' > i
      BY <1>2, <1>4, <1>7, <2>3
    <3>4. QED
      BY <1>2, <1>4, <1>7, <3>2, <3>3
  <2>4. QED
    BY <1>2, <1>4, <2>1, <2>2, <2>3
<1>12. Underway(obj)' /\ read' <= m
  <2>1. read' <= m
    BY <1>2, <1>3, <1>4, <1>7
  <2>2. QED
    BY <1>7, <1>11, <2>1 DEF Underway
<1>13. QED
  BY <1>1, <1>11, <1>12 DEF Announced

LEMMA FourSymbols ==
  ASSUME NEW a, NEW b, NEW c, NEW d
  PROVE  /\ IsSeq(<<a, b, c, d>>) /\ Len(<<a, b, c, d>>) = 4
         /\ <<a, b, c, d>>[1] = a /\ <<a, b, c, d>>[2] = b
         /\ <<a, b, c, d>>[3] = c /\ <<a, b, c, d>>[4] = d
<1>1. PICK S : S = {a, b, c, d}
  OBVIOUS
<1>2. <<a, b, c, d>> \in Seq(S)
  BY <1>1
<1>3. QED
  BY <1>2 DEF IsSeq

\* The stream.
LEMMA DataStep ==
  ASSUME NEW obj \in Objects, text \in Seq(Tokens \union {Byte, EOL}), AskedStream(obj), Announced(obj), read = Inside(obj), RNext
  PROVE  DataRead(obj)'
<1>1. PICK m, n, i, toks : m = Inside(obj) /\ n = DataLength(TextOf(obj)) /\ i = Place(obj) /\ toks = TextOf(obj)
  OBVIOUS
<1>2. obj.t = "ind" /\ Len(toks) = m + 1 /\ i \in 1..m /\ i + 1 <= m
  BY <1>1, PlaceIs DEF Inside, AskedStream
<1>3. /\ m \in Nat /\ n \in Nat /\ Len(text) \in Nat /\ m + n + 4 <= Len(text)
      /\ text[m + 1] = "stream" /\ text[m + 2] = EOL
  BY <1>1, StreamBegins DEF AskedStream
<1>4. source = "file" /\ read = m /\ Underway(obj) /\ stream_state = 2 /\ stream_len = n
  <2>1. read > i
    BY <1>1, <1>2, <1>3
  <2>2. QED
    BY <1>1, <2>1 DEF Announced, AskedStream
<1>5. Tok = "stream" /\ read < Len(text) /\ read + 2 <= Len(text) /\ text[read + 2] = EOL
  BY <1>3, <1>4 DEF Tok
<1>6. ~EndOfText /\ ~SkipEOL /\ ~Unexpected /\ ~FileToken /\ ~BufferToken
  BY <1>3, <1>4, <1>5 DEF EndOfText, SkipEOL, Unexpected, FileToken, BufferToken, EOL
<1>7. StreamData
  BY <1>6 DEF RNext
<1>8. AddStream /\ read' = IF AfterData > Len(text) THEN Len(text) ELSE AfterData
  BY <1>3, <1>4, <1>5, <1>7 DEF StreamData
<1>9. read' = m + n + 2
  BY <1>3, <1>4, <1>8 DEF AfterData
<1>10. /\ Len(stack) = 4 /\ IsSeq(stack)
       /\ stack[1] = NonTerm(obj.of[1]) /\ stack[2] = NonTerm(obj.of[2])
       /\ stack[3] = Term("obj", FALSE) /\ stack[4] = NonTerm(obj.of[3])
  BY <1>1, <1>2, <1>4, BeforeEndObj DEF Underway
<1>11. Top = 4 /\ IsObj(stack[Top]) /\ stack[4].obj = obj.of[3]
  BY <1>10, NonTermFields DEF Top
<1>12. /\ stack' = Append(Front(stack), NonTerm(Obj("stream", <<Last(stack).obj>>)))
       /\ stream_state' = 3 /\ UNCHANGED <<status, stream_len, ret, result>>
  BY <1>8, <1>11 DEF AddStream
<1>13. stack' = StreamSymbols(obj)
  <2>1. PICK a, b, c, x, f, r :
          /\ a = stack[1] /\ b = stack[2] /\ c = stack[3] /\ x = NonTerm(Obj("stream", <<obj.of[3]>>))
          /\ f = SubSeq(stack, 1, 3) /\ r = Append(f, x)
    OBVIOUS
  <2>2. Front(stack) = f /\ Last(stack) = stack[4]
    BY <1>10, <2>1 DEF Front, Last
  <2>3. stack' = r
    BY <1>11, <1>12, <2>1, <2>2
  <2>4. IsSeq(f) /\ Len(f) = 3 /\ \A k \in 1..3 : f[k] = stack[k]
    <3>1. 3 \in 0..Len(stack)
      BY <1>10
    <3>2. QED
      BY <1>10, <2>1, <3>1, CutFacts
  <2>5. Grown(f, x, r, 3)
    <3>1. Grows(f, x, r, 3)
      BY <2>1, <2>4 DEF Grows
    <3>2. QED
      BY <3>1, Appended
  <2>6. IsSeq(r) /\ Len(r) = 4 /\ r[1] = a /\ r[2] = b /\ r[3] = c /\ r[4] = x
    <3>1. 1 \in 1..3 /\ 2 \in 1..3 /\ 3 \in 1..3
      OBVIOUS
    <3>2. QED
      BY <2>1, <2>4, <2>5, <3>1 DEF Grown
  <2>7. PICK q : q = <<a, b, c, x>>
    OBVIOUS
  <2>8. IsSeq(q) /\ Len(q) = 4 /\ q[1] = a /\ q[2] = b /\ q[3] = c /\ q[4] = x
    BY <2>7, FourSymbols
  <2>9. Same(r, q)
    <3>1. \A k \in 1..4 : k = 1 \/ k = 2 \/ k = 3 \/ k = 4
      OBVIOUS
    <3>2. QED
      BY <2>6, <2>8, <3>1 DEF Same
  <2>10. r = q
    BY <2>6, <2>8, <2>9, SameIsEqual
  <2>11. q = StreamSymbols(obj)
    BY <1>10, <2>1, <2>7 DEF StreamSymbols
  <2>12. QED
    BY <2>3, <2>10, <2>11
<1>14. ret' = Running /\ status' = "ok"
  BY <1>4, <1>12 DEF Underway
<1>15. QED
  BY <1>1, <1>9, <1>12, <1>13, <1>14 DEF DataRead

\* The end of the stream.
LEMMA EndStreamStep ==
  ASSUME NEW obj \in Objects, text \in Seq(Tokens \union {Byte, EOL}), AskedStream(obj), DataRead(obj), stream_state = 3, RNext
  PROVE  DataRead(obj)'
<1>1. PICK m, n : m = Inside(obj) /\ n = DataLength(TextOf(obj))
  OBVIOUS
<1>2. m \in Nat /\ n \in Nat /\ Len(text) \in Nat /\ m + n + 4 <= Len(text) /\ text[m + n + 3] = "endstream"
  BY <1>1, StreamBegins DEF AskedStream
<1>3. ret = Running /\ status = "ok" /\ stack = StreamSymbols(obj) /\ read = m + n + 2 /\ source = "file"
  BY <1>1 DEF DataRead, AskedStream
<1>4. Tok = "endstream" /\ read < Len(text)
  <2>1. read + 1 = m + n + 3
    BY <1>2, <1>3
  <2>2. QED
    BY <1>2, <1>3, <2>1 DEF Tok
<1>5. ~EndOfText /\ ~SkipEOL /\ ~Unexpected /\ ~StreamData /\ ~BufferToken
  BY <1>2, <1>3, <1>4 DEF EndOfText, SkipEOL, Unexpected, StreamData, BufferToken, EOL
<1>6. FileToken
  BY <1>5 DEF RNext
<1>7. AddToken("endstream") /\ read' = m + n + 3
  BY <1>2, <1>3, <1>4, <1>6 DEF FileToken, Feed, Byte
<1>8. UNCHANGED parser
  BY <1>7, IntsOnly DEF AddToken, Leaves, Names, Length, Strings, Booleans, Kept, Refused
<1>9. status' = "ok" /\ stack' = StreamSymbols(obj)
  BY <1>3, <1>8 DEF parser
<1>10. StreamEnd
  BY <1>6, <1>9 DEF FileToken, Plain, LengthValue, BeforeStream
<1>11. stream_state' = 0 /\ ret' = Running
  BY <1>3, <1>4, <1>10 DEF StreamEnd
<1>12. QED
  BY <1>1, <1>7, <1>9, <1>11 DEF DataRead

\* The end of the object.
LEMMA EndObjStep ==
  ASSUME NEW obj \in Objects, text \in Seq(Tokens \union {Byte, EOL}), AskedStream(obj), DataRead(obj), stream_state = 0, RNext
  PROVE  Gives({1}, WithStream(obj), StreamText(obj))'
<1>1. PICK m, n : m = Inside(obj) /\ n = DataLength(TextOf(obj))
  OBVIOUS
<1>2. /\ m \in Nat /\ n \in Nat /\ Len(text) \in Nat /\ m + n + 4 <= Len(text) /\ text[m + n + 4] = "endobj"
      /\ Len(StreamText(obj)) = m + n + 4
  BY <1>1, StreamBegins DEF AskedStream
<1>3. ret = Running /\ status = "ok" /\ stack = StreamSymbols(obj) /\ read = m + n + 3 /\ source = "file"
  BY <1>1 DEF DataRead, AskedStream
<1>4. Tok = "endobj" /\ read < Len(text)
  <2>1. read + 1 = m + n + 4
    BY <1>2, <1>3
  <2>2. QED
    BY <1>2, <1>3, <2>1 DEF Tok
<1>5. ~EndOfText /\ ~SkipEOL /\ ~Unexpected /\ ~StreamData /\ ~BufferToken
  BY <1>2, <1>3, <1>4 DEF EndOfText, SkipEOL, Unexpected, StreamData, BufferToken, EOL
<1>6. FileToken
  BY <1>5 DEF RNext
<1>7. AddToken("endobj") /\ read' = m + n + 4
  BY <1>2, <1>3, <1>4, <1>6 DEF FileToken, Feed, Byte
<1>8. EndObj
  BY <1>7, IntsOnly DEF AddToken, Leaves, Names, Length, Strings, Booleans, Kept, Refused
<1>9. obj.t = "ind" /\ target = "ind" /\ obj.of[1].t = "int" /\ obj.of[2].t = "int"
  <2>1. obj.t = "ind" /\ target = obj.t
    BY DEF AskedStream, DescribesStream
  <2>2. WellFormed(obj)
    BY DeepText
  <2>3. QED
    BY <2>1, <2>2 DEF WellFormed, LeafTypes
<1>10. PICK a, b, c, x : a = obj.of[1] /\ b = obj.of[2] /\ c = Term("obj", FALSE) /\ x = Obj("stream", <<obj.of[3]>>)
  OBVIOUS
<1>11. /\ IsSeq(stack) /\ Len(stack) = 4 /\ stack[1] = NonTerm(a) /\ stack[2] = NonTerm(b)
       /\ stack[3] = c /\ stack[4] = NonTerm(x)
  <2>1. stack = <<NonTerm(a), NonTerm(b), c, NonTerm(x)>>
    BY <1>3, <1>10 DEF StreamSymbols
  <2>2. QED
    BY <2>1, FourSymbols
<1>12. IsInt(stack[1]) /\ IsInt(stack[2]) /\ IsObj(stack[4]) /\ stack[1].obj = a /\ stack[2].obj = b /\ stack[4].obj = x
  BY <1>9, <1>10, <1>11, NonTermFields
<1>13. Replace(4, Obj("ind", <<a, b, x>>))
  <2>1. Top = 4 /\ Top - 3 = 1 /\ Top - 2 = 2
    BY <1>11 DEF Top
  <2>2. QED
    BY <1>8, <1>12, <2>1 DEF EndObj
<1>14. PICK y : y = NonTerm(WithStream(obj))
  OBVIOUS
<1>15. WithStream(obj) = Obj("ind", <<a, b, x>>)
  BY <1>10 DEF WithStream
<1>16. status' = "ok" /\ stack' = Append(SubSeq(stack, 1, 0), y)
  BY <1>3, <1>11, <1>13, <1>14, <1>15 DEF Replace, Top
<1>17. Len(stack') = 1 /\ stack'[1] = y
  BY <1>11, <1>16, OnlyOne
<1>18. y.obj = WithStream(obj) /\ IsObj(y) /\ WithStream(obj).t = "ind"
  BY <1>14, <1>15, NonTermFields DEF Obj
<1>19. Found(target) /\ stack'[1].obj = WithStream(obj)
  BY <1>9, <1>17, <1>18 DEF Found
<1>20. Plain
  BY <1>6, <1>16 DEF FileToken, LengthValue, BeforeStream, StreamEnd
<1>21. ret' = 1 /\ result' = WithStream(obj)
  BY <1>19, <1>20 DEF Plain
<1>22. QED
  BY <1>2, <1>7, <1>21 DEF Gives

LEMMA StreamStep ==
  ASSUME text \in Seq(Tokens \union {Byte, EOL}), StreamInv, RNext PROVE StreamInv'
<1> SUFFICES ASSUME NEW obj \in Objects, AskedStream(obj)'
             PROVE  Announced(obj)' \/ DataRead(obj)' \/ Gives({1}, WithStream(obj), StreamText(obj))'
  BY DEF StreamInv
<1>1. text' = text /\ source' = source /\ target' = target
  BY RequestStays
<1>2. AskedStream(obj)
  BY <1>1 DEF AskedStream, Begins
<1>3. CASE Announced(obj)
  <2>1. read < Inside(obj) \/ read = Inside(obj)
    <3>1. Inside(obj) \in Nat
      BY <1>2, PlaceIs DEF Inside, AskedStream
    <3>2. read \in Nat /\ read <= Inside(obj)
      BY <1>3, ReadIsNat DEF Announced, Underway
    <3>3. QED
      BY <3>1, <3>2
  <2>2. QED
    BY <1>2, <1>3, <2>1, AnnouncedStep, DataStep
<1>4. CASE DataRead(obj)
  BY <1>2, <1>4, EndStreamStep, EndObjStep DEF DataRead
<1>5. CASE Gives({1}, WithStream(obj), StreamText(obj))
  BY <1>5, StopsWhenDone DEF Gives, Running
<1>6. QED
  BY <1>2, <1>3, <1>4, <1>5 DEF StreamInv

-----------------------------------------------------------------------------
(* The invariant of the reader                                              *)

RInv == text \in Seq(Tokens \union {Byte, EOL}) /\ BufferInv /\ PlainInv /\ StreamInv

LEMMA BeginsOK == ASSUME RInit PROVE RInv
<1>1. Clean
  BY InitText DEF RInit, Init, Start, Clean
<1>2. text \in Seq(Tokens \union {Byte, EOL}) /\ read = 0 /\ status = "ok" /\ ret = Running /\ stream_state = 0 /\ IInv
  BY <1>1, CleanOK DEF RInit, Init, Start, Clean
<1>3. ASSUME NEW obj \in Objects PROVE Underway(obj) /\ read < Len(TextOf(obj))
  <2>1. FollowsObj(obj)
    BY <1>1, StartFollows DEF Clean
  <2>2. QED
    BY <1>2, <2>1, TextNotEmpty DEF Underway
<1>4. ASSUME NEW obj \in Objects, AskedStream(obj) PROVE Announced(obj)
  <2>1. PICK m, i : m = Inside(obj) /\ i = Place(obj)
    OBVIOUS
  <2>2. m \in Nat /\ i \in 1..m
    BY <1>4, <2>1, PlaceIs DEF Inside, AskedStream
  <2>3. read <= m /\ read < i
    BY <1>2, <2>2
  <2>4. read # i /\ ~(read > i)
    BY <1>2, <2>2
  <2>5. QED
    BY <1>2, <1>3, <2>1, <2>3, <2>4 DEF Announced
<1>5. QED
  BY <1>2, <1>3, <1>4 DEF RInv, BufferInv, PlainInv, StreamInv

LEMMA WaitsOK == ASSUME RInv, UNCHANGED rvars PROVE RInv'
<1>1. UNCHANGED <<raw, text, source, target, read, stack, reduce_pos, saved, status, stream_state, stream_len, ret, result>>
  BY DEF rvars, request, parser, reader
<1>2. Config' = Config
  BY <1>1 DEF Config
<1>3. IInv => IInv'
  BY <1>1, StutterOK DEF vars, parser
<1>4. ASSUME NEW obj \in Objects PROVE Underway(obj) => Underway(obj)'
  BY <1>1, <1>2, <1>3 DEF Underway, FollowsObj
<1>5. BufferInv'
  BY <1>1, <1>4 DEF RInv, BufferInv, AskedFirst, Asked, Begins, Gives
<1>6. PlainInv'
  BY <1>1, <1>4 DEF RInv, PlainInv, AskedPlain, Begins, Gives
<1>7. StreamInv'
  BY <1>1, <1>4 DEF RInv, StreamInv, AskedStream, Begins, Gives, Announced, DataRead
<1>8. QED
  BY <1>1, <1>5, <1>6, <1>7 DEF RInv

LEMMA ReaderInvariant == RSpec => []RInv
<1>1. RInit => RInv
  BY BeginsOK
<1>2. RInv /\ [RNext]_rvars => RInv'
  <2> SUFFICES ASSUME RInv, RNext PROVE RInv'
    BY WaitsOK
  <2>1. text \in Seq(Tokens \union {Byte, EOL}) /\ BufferInv /\ PlainInv /\ StreamInv
    BY DEF RInv
  <2>2. text' \in Seq(Tokens \union {Byte, EOL})
    BY <2>1, RequestStays
  <2>3. QED
    BY <2>1, <2>2, BufferStep, PlainStep, StreamStep DEF RInv
<1>3. QED
  BY <1>1, <1>2, PTL DEF RSpec

\* The reader of object streams returns the object that the buffer begins with, of any
\* depth and with any keys.
THEOREM AlwaysBufferReadsFirst == RSpec => []BufferReadsFirst
<1>1. RInv => BufferReadsFirst
  BY DEF RInv, BufferInv, BufferReadsFirst, AskedFirst, Underway
<1>2. QED
  BY <1>1, ReaderInvariant, PTL

\* The reader of files returns the object that stands at its place, with its stream if it
\* has one.
THEOREM AlwaysFileReadsFirst == RSpec => []FileReadsFirst
<1>1. RInv => FileReadsFirst
  <2> SUFFICES ASSUME RInv, source = "file", ret # Running, NEW obj \in Objects, target = obj.t
               PROVE  /\ LengthPlaces(TextOf(obj)) = {} /\ Begins(TextOf(obj)) => Gives({1}, obj, TextOf(obj))
                      /\ DescribesStream(obj) /\ Begins(StreamText(obj)) =>
                           Gives({1}, WithStream(obj), StreamText(obj))
    BY DEF FileReadsFirst
  <2>1. AskedPlain(obj) => Gives({1}, obj, TextOf(obj))
    BY DEF RInv, PlainInv, Underway
  <2>2. AskedStream(obj) => Gives({1}, WithStream(obj), StreamText(obj))
    BY DEF RInv, StreamInv, Announced, DataRead, Underway
  <2>3. QED
    BY <2>1, <2>2 DEF AskedPlain, AskedStream
<1>2. QED
  BY <1>1, ReaderInvariant, PTL
=============================================================================
