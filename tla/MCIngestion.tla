---------------------------- MODULE MCIngestion ----------------------------
(***************************************************************************)
(* Instances of Ingestion for TLC.  The chain starts at block 1.           *)
(***************************************************************************)
EXTENDS Ingestion

CONSTANTS w1, w2

MCWorkers == {w1, w2}

\* Block 3 has two logs, the one of block 4 does not decode.
MCEvent == {[block |-> b, index |-> 1] : b \in 2..4} \cup {[block |-> 3, index |-> 2]}
MCUndecodable == {[block |-> 4, index |-> 1]}
=============================================================================
