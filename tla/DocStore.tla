------------------------------ MODULE DocStore ------------------------------
(***************************************************************************)
(* What incremental updates promise the user of a document                 *)
(* (docs/pdf_structure.rst:126-137): a file is a store of objects, edits   *)
(* wait in memory, and saving overrides the stored objects by the edited   *)
(* ones and touches no other.                                              *)
(***************************************************************************)
CONSTANTS Nums,     \* object numbers
          Vals,     \* contents of objects
          None      \* the content of a number without an object

VARIABLES stored,   \* what a reader of the file finds under each number
          pending   \* the edits of the open document, a partial map

vars == <<stored, pending>>

NoEdits == [n \in {} |-> None]

Init == stored \in [Nums -> Vals \union {None}] /\ pending = NoEdits

Edit(n, v) ==
  /\ pending' = [m \in DOMAIN pending \union {n} |-> IF m = n THEN v ELSE pending[m]]
  /\ UNCHANGED stored

\* The edits stay in memory after they were saved.
Save ==
  /\ stored' = [n \in Nums |-> IF n \in DOMAIN pending THEN pending[n] ELSE stored[n]]
  /\ UNCHANGED pending

Close == pending' = NoEdits /\ UNCHANGED stored

Next == Save \/ Close \/ \E n \in Nums, v \in Vals : Edit(n, v)

Spec == Init /\ [][Next]_vars
=============================================================================
