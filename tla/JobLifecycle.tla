---------------------------- MODULE JobLifecycle ----------------------------
(***************************************************************************)
(* What the job store promises about a comparison, without its queue, its  *)
(* worker pool, its locks or its processes: a job moves queued -> running  *)
(* -> done or failed, its row in the database is a copy of the status it   *)
(* had at some moment, and a restart brings back that row, with whatever   *)
(* was not finished turned into a failure.                                 *)
(***************************************************************************)
CONSTANT Jobs

VARIABLES
    status,  \* status[j]: the status a reader of the running server sees
    saved    \* saved[j]: the status in the job's row, "absent" without a row

lifeVars == <<status, saved>>

Finished == {"done", "failed"}
LifeStatus == {"absent", "queued", "running"} \cup Finished

\* What restore() turns a saved status into: only finished jobs survive as
\* they were.
Recovered(s) == IF s \in {"queued", "running"} THEN "failed" ELSE s

LifeInit ==
    /\ status = [j \in Jobs |-> "absent"]
    /\ saved = [j \in Jobs |-> "absent"]

\* A job changes status only along the edges of its life.
Move(j, from, to) ==
    /\ status[j] = from
    /\ status' = [status EXCEPT ![j] = to]
    /\ UNCHANGED saved

\* A job without a row is a new one: an identifier is never used twice.
Accept(j) == saved[j] = "absent" /\ Move(j, "absent", "queued")
Begin(j) == Move(j, "queued", "running")
Complete(j) == \E s \in Finished : Move(j, "running", s)

\* The row is brought up to date with the present status, never with an older
\* one.
Save(j) ==
    /\ status[j] # "absent"
    /\ saved' = [saved EXCEPT ![j] = status[j]]
    /\ UNCHANGED status

\* The process is gone and only the rows are left; every job, in one step.
Interrupt ==
    /\ status' = [j \in Jobs |-> Recovered(saved[j])]
    /\ UNCHANGED saved

LifeNext ==
    \/ \E j \in Jobs : Accept(j) \/ Begin(j) \/ Complete(j) \/ Save(j)
    \/ Interrupt

LifeSpec == LifeInit /\ [][LifeNext]_lifeVars
=============================================================================
