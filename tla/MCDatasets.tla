----------------------------- MODULE MCDatasets -----------------------------
(***************************************************************************)
(* Three contents of two creators for TLC: two videos, one of them with    *)
(* two keyframes, that may be offered for training, and an image that may  *)
(* not.                                                                    *)
(***************************************************************************)
EXTENDS Datasets

CONSTANTS a, b, c, alice, bob

MCHash == {a, b, c}
MCOwner == [h \in MCHash |-> IF h = b THEN bob ELSE alice]
MCType == [h \in MCHash |-> IF h = c THEN "image" ELSE "video"]
MCTraining == {a, b}
MCPoints == [h \in MCHash |-> IF h = a THEN 2 ELSE 1]

\* Clients and payments are interchangeable.
Symmetry == Permutations(Clients) \cup Permutations(Tx)
=============================================================================
