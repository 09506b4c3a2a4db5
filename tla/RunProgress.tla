----------------------------- MODULE RunProgress ----------------------------
(***************************************************************************)
(* What a run of the pipeline promises to the caller of its progress       *)
(* callback: a node is started at most once, it ends at most once and only *)
(* after its start, and the final node is started when everything started  *)
(* before it has come to a good end.  The job service folds these events   *)
(* into the checklist of a job, see NodeStart and NodeEnd of JobService.   *)
(***************************************************************************)
CONSTANTS Nodes, FinalNode

VARIABLE told  \* told[n]: the last event about n, "none" without one

ProgressInit == told = [n \in Nodes |-> "none"]

Started(n) ==
    /\ told[n] = "none"
    /\ told[FinalNode] = "none"
    /\ n = FinalNode => \A m \in Nodes : told[m] \in {"none", "done"}
    /\ told' = [told EXCEPT ![n] = "start"]

Ended(n) ==
    /\ told[n] = "start"
    /\ \E s \in {"done", "error"} : told' = [told EXCEPT ![n] = s]

ProgressNext == \E n \in Nodes : Started(n) \/ Ended(n)

ProgressSpec == ProgressInit /\ [][ProgressNext]_told
=============================================================================
