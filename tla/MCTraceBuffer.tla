---------------------------- MODULE MCTraceBuffer ---------------------------
(* Small instances of TraceBuffer for TLC. *)
EXTENDS TraceBuffer, TLC

WriterSymmetry == Permutations(Writers)
=============================================================================
