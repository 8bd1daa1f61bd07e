----------------------------- MODULE MCUploads -----------------------------
(***************************************************************************)
(* One file, its metadata and two requests for TLC.                        *)
(***************************************************************************)
EXTENDS Uploads

CONSTANTS f1, m1

MCMediaOf == [m \in {m1} |-> f1]
=============================================================================
