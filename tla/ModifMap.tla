------------------------------ MODULE ModifMap ------------------------------
(***************************************************************************)
(* What a modification log promises its user (pdf/modif.h:26-41): a map    *)
(* from object numbers to the indirect object that replaces them, in which *)
(* the last object added under a number is the one that counts.            *)
(***************************************************************************)
CONSTANTS Nums,    \* object numbers
          Objs     \* indirect objects

VARIABLES
  pending,   \* the objects to write, by number
  held       \* the objects that the caller owns

vars == <<pending, held>>

EmptyMap == [n \in {} |-> n]

Init == pending = EmptyMap /\ held = {}

Make(o) ==
  /\ o \notin held /\ \A n \in DOMAIN pending : pending[n] # o
  /\ held' = held \union {o}
  /\ UNCHANGED pending

\* An object that the caller hands over is the one that counts from then on.
Put(n, o) ==
  /\ o \in held
  /\ held' = held \ {o}
  /\ pending' = [m \in DOMAIN pending \union {n} |-> IF m = n THEN o ELSE pending[m]]

\* Objects are never removed one by one: a log grows or is dropped whole.
Drop == pending' = EmptyMap /\ UNCHANGED held

Next == Drop \/ \E o \in Objs : Make(o) \/ \E n \in Nums : Put(n, o)

Spec == Init /\ [][Next]_vars
=============================================================================
