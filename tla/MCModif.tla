------------------------------- MODULE MCModif -------------------------------
(* Modif for TLC: every caller with at most as many objects at a time as    *)
(* there are cells, over all orders of adding, replacing and destroying.    *)
EXTENDS Modif

MCNums == 0..4
MCSizes == {1, 3}
=============================================================================
