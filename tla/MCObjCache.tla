------------------------------ MODULE MCObjCache ------------------------------
(***************************************************************************)
(* ObjCache for TLC: three objects besides number 0, which is always free,  *)
(* in the file or in object streams, with references to each other in       *)
(* chains and circles, and with entries that lead nowhere.                  *)
(***************************************************************************)
EXTENDS ObjCache

Others(n) == 1..3 \ {n}

\* Object streams with no, one or two members; a member is no stream and no
\* reference (the reader of a buffer would return its first number).
Containers(n) ==
  LET member(m, v) == [num |-> m, obj |-> Value(v)]
  IN  {ObjStm(<<>>)} \union {ObjStm(<<member(m, "a")>>) : m \in Others(n)}
        \union {ObjStm(<<member(m, "a"), member(k, "b")>>) : m, k \in Others(n)}
        \union {ObjStm(<<[num |-> m, obj |-> Unreadable], member(k, "a")>>) : m, k \in Others(n)}

\* No object stream: references in chains and circles, to number 0, and to nothing.
NoStream(n) == {Offset(Value("a")), Offset(Unreadable)} \union {Offset(RefTo(k)) : k \in 0..3 \ {n}}

\* Number 1 is the stream, number 2 and 3 may be members of it or of each other.
Second(n) == {FreeXref, Offset(Value("c")), Offset(RefTo(5 - n))} \union {Within(k) : k \in Others(n)}

Layouts ==
  {<<e1, e2, e3>> : e1 \in NoStream(1), e2 \in NoStream(2), e3 \in NoStream(3)} \union
  {<<Offset(stm), e2, e3>> : stm \in Containers(1), e2 \in Second(2), e3 \in Second(3)}

\* Streams that are members of each other: getobj would call itself without end.
InCircle(es) == es[2] = Within(3) /\ es[3] = Within(2)

MCFiles ==
  {[n \in 0..3 |-> IF n = 0 THEN FreeXref ELSE es[n]] : es \in {l \in Layouts : ~InCircle(l)}}
=============================================================================
