--------------------------- MODULE MCEVMListener ---------------------------
(***************************************************************************)
(* Instances of EVMListener for TLC.  The chain starts at block 1.         *)
(***************************************************************************)
EXTENDS EVMListener

\* One log per block, two in block 3 so that the checkpoint of a live log
\* covers a log still in the subscription.
MCEvent == {[block |-> b, index |-> 1] : b \in 2..5} \cup {[block |-> 3, index |-> 2]}

\* A log of the last block does not decode.
MCUndecodable == {[block |-> 5, index |-> 1]}
=============================================================================
