----------------------------- MODULE MCModelCall ----------------------------
(* Small instances of ModelCall for TLC. *)
EXTENDS ModelCall
=============================================================================
