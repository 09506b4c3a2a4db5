----------------------------- MODULE JobService -----------------------------
(***************************************************************************)
(* The job service: the upload handler, the in-memory job store, the       *)
(* bounded queue with its dispatcher, the pool of run goroutines, the      *)
(* SQLite rows behind the store, and the process that hosts them, which    *)
(* may be told to stop, may die, and is started again.                     *)
(*                                                                         *)
(* Every job is driven by one thread of control at a time: the upload      *)
(* handler until the job is in the queue, the dispatcher while the job     *)
(* waits for a slot, and then its own run goroutine.  pc[j] says where     *)
(* that thread stands.  update() is three steps, because the store's lock  *)
(* covers only the first: mutate in memory, write the row, publish.        *)
(***************************************************************************)
EXTENDS Naturals, Sequences, FiniteSets

CONSTANTS
    Jobs,         \* the identifiers newID() may hand out
    NoJob,        \* nothing in the dispatcher's hands
    Nodes,        \* the pipeline nodes on the checklist
    PaidNodes,    \* the nodes isPaidNode() names
    GatedNodes,   \* the paid nodes the pipeline routes around without AI
    FinalNode,    \* the node that hands the finished report over
    QueueCap,     \* capacity of the queue channel
    Concurrency,  \* capacity of the semaphore channel
    MaxRestarts,  \* bound: how often the process is started again
    MaxFaults     \* bound: how many row writes fail

ASSUME JobServiceAssumption ==
    /\ IsFiniteSet(Jobs)
    /\ NoJob \notin Jobs
    /\ PaidNodes \subseteq Nodes
    /\ GatedNodes \subseteq PaidNodes
    /\ FinalNode \in Nodes \ PaidNodes
    /\ QueueCap \in Nat \ {0}
    /\ Concurrency \in Nat \ {0}
    /\ MaxRestarts \in Nat
    /\ MaxFaults \in Nat

VARIABLES
    server,    \* the process: "serving", "stopping" (context cancelled), "down", "restoring"
    job,       \* Store.jobs: the in-memory jobs
    db,        \* the rows of the jobs table
    queue,     \* Worker.queue
    held,      \* the job the dispatcher has received and not yet started
    receiving, \* FALSE once the dispatcher goroutine has returned
    sem,       \* how many tokens are in Worker.sem
    pc,        \* where the thread that drives the job stands
    snapshot,  \* the copy update() took under the lock and is about to write
    announced, \* history: what this process last published to the subscribers
    stale,     \* history: jobs whose latest row write failed
    restarts,  \* counter bounded by MaxRestarts
    faults     \* counter bounded by MaxFaults

memory == <<job, queue, held, receiving, sem, snapshot>>
vars == <<server, job, db, queue, held, receiving, sem, pc, snapshot,
          announced, stale, restarts, faults>>

Terminal == {"done", "failed"}
Status == {"absent", "queued", "running"} \cup Terminal
StepStatus == {"pending", "running", "done", "skipped", "error"}

\* A job, reduced to what the service decides on.  An absent job is one the
\* store has no entry (or the table no row) for.
JobRecord ==
    [status : Status, useAI : BOOLEAN, steps : [Nodes -> StepStatus], report : BOOLEAN]

Absent ==
    [status |-> "absent", useAI |-> FALSE,
     steps |-> [n \in Nodes |-> "pending"], report |-> FALSE]

\* The places a job's thread can be at.
AtHandler == {"inserted", "created"}
InRun == {"starting", "saving", "publishing", "running", "leaving"}
Place == {"none", "queued", "held", "rejected", "repairing", "ended"} \cup AtHandler \cup InRun

Up == server \in {"serving", "stopping"}

-----------------------------------------------------------------------------
(* The checklist.                                                          *)

\* initialSteps(): with the AI tier off the paid nodes start out skipped.
InitialSteps(useAI) ==
    [n \in Nodes |-> IF ~useAI /\ n \in PaidNodes THEN "skipped" ELSE "pending"]

\* What becomes of the steps that have not finished when the job does.
Settle(steps, as) ==
    [n \in Nodes |-> IF steps[n] \in {"pending", "running"} THEN as ELSE steps[n]]

\* The three mutations of a terminal or interrupted job.
Done(r) == [r EXCEPT !.status = "done", !.report = TRUE, !.steps = Settle(r.steps, "skipped")]
Failed(r) == [r EXCEPT !.status = "failed", !.steps = Settle(r.steps, "error")]
\* Mutant: queued jobs are overlooked.
RestoredRunning(r) == IF r.status = "running" THEN Failed(r) ELSE r
\* Mutant: finished jobs are failed, too.
RestoredAll(r) == IF r.status # "absent" THEN Failed(r) ELSE r
Restored(r) == IF r.status \in {"queued", "running"} THEN Failed(r) ELSE r

-----------------------------------------------------------------------------
Init ==
    /\ server = "serving"
    /\ job = [j \in Jobs |-> Absent]
    /\ db = [j \in Jobs |-> Absent]
    /\ queue = <<>>
    /\ held = NoJob
    /\ receiving = TRUE
    /\ sem = 0
    /\ pc = [j \in Jobs |-> "none"]
    /\ snapshot = [j \in Jobs |-> Absent]
    /\ announced = [j \in Jobs |-> "absent"]
    /\ stale = {}
    /\ restarts = 0
    /\ faults = 0

Goto(j, place) == pc' = [pc EXCEPT ![j] = place]

\* persist(): one upsert of the whole row.  An error is logged and nothing
\* else happens, so the caller goes on either way.
WriteRow(j, row) ==
    \/ /\ db' = [db EXCEPT ![j] = row]
       /\ stale' = stale \ {j}
       /\ UNCHANGED faults
    \/ /\ faults < MaxFaults
       /\ faults' = faults + 1
       /\ stale' = stale \cup {j}
       /\ UNCHANGED db

-----------------------------------------------------------------------------
(* The upload handler: Create, then Enqueue.                               *)

\* Mutant: an identifier is handed out again.
InsertAgain(j) ==
    /\ Up
    /\ pc[j] \in {"none", "ended"}
    /\ job' = [job EXCEPT ![j] = [status |-> "queued", useAI |-> TRUE,
                                 steps |-> InitialSteps(TRUE), report |-> FALSE]]
    /\ Goto(j, "inserted")
    /\ UNCHANGED <<server, db, queue, held, receiving, sem, snapshot, announced, stale, restarts, faults>>

\* Create() puts the job into the map under the lock.
Insert(j) ==
    /\ Up
    /\ pc[j] = "none"
    /\ \E useAI \in BOOLEAN :
         job' = [job EXCEPT ![j] = [status |-> "queued", useAI |-> useAI,
                                    steps |-> InitialSteps(useAI), report |-> FALSE]]
    /\ Goto(j, "inserted")
    /\ UNCHANGED <<server, db, queue, held, receiving, sem, snapshot, announced, stale, restarts, faults>>

\* Create() writes the first row after it has released the lock.
PersistNew(j) ==
    /\ Up
    /\ pc[j] = "inserted"
    /\ WriteRow(j, job[j])
    /\ Goto(j, "created")
    /\ UNCHANGED <<server, memory, announced, restarts>>

\* Enqueue(): a send that never blocks.
Enqueue(j) ==
    /\ Up
    /\ pc[j] = "created"
    /\ Len(queue) < QueueCap
    /\ queue' = Append(queue, j)
    /\ Goto(j, "queued")
    /\ UNCHANGED <<server, job, db, held, receiving, sem, snapshot, announced, stale, restarts, faults>>

\* A full queue is an error the handler answers with 503, and nothing more:
\* the job stays where Create() put it.
RejectFull(j) ==
    /\ Up
    /\ pc[j] = "created"
    /\ Len(queue) >= QueueCap
    /\ Goto(j, "rejected")
    /\ UNCHANGED <<server, memory, db, announced, stale, restarts, faults>>

-----------------------------------------------------------------------------
(* The dispatcher goroutine of Start().                                    *)

\* Mutant: the job stays in the queue.
ReceiveTwice ==
    /\ Up
    /\ receiving
    /\ held = NoJob
    /\ queue # <<>>
    /\ held' = Head(queue)
    /\ Goto(Head(queue), "held")
    /\ UNCHANGED <<server, job, db, queue, receiving, sem, snapshot, announced, stale, restarts, faults>>

\* select chooses at random among its ready cases, so a cancelled dispatcher
\* may still receive, and may still acquire.
Receive ==
    /\ Up
    /\ receiving
    /\ held = NoJob
    /\ queue # <<>>
    /\ held' = Head(queue)
    /\ queue' = Tail(queue)
    /\ Goto(Head(queue), "held")
    /\ UNCHANGED <<server, job, db, receiving, sem, snapshot, announced, stale, restarts, faults>>

\* The token is taken before the run goroutine is started.
Acquire ==
    /\ Up
    /\ receiving
    /\ held # NoJob
    /\ sem < Concurrency
    /\ sem' = sem + 1
    /\ held' = NoJob
    /\ Goto(held, "starting")
    /\ UNCHANGED <<server, job, db, queue, receiving, snapshot, announced, stale, restarts, faults>>

\* Mutant: it also returns from a full pool instead of waiting for a slot.
DispatcherGivesUp ==
    /\ Up
    /\ receiving
    /\ server = "stopping" \/ (held # NoJob /\ sem >= Concurrency)
    /\ receiving' = FALSE
    /\ UNCHANGED <<server, job, db, queue, held, sem, pc, snapshot, announced, stale, restarts, faults>>

\* ctx.Done() at either select: the goroutine returns, with or without a job
\* in its hands.  Nothing closes the queue: uploads go on entering it.
DispatcherExit ==
    /\ server = "stopping"
    /\ receiving
    /\ receiving' = FALSE
    /\ UNCHANGED <<server, job, db, queue, held, sem, pc, snapshot, announced, stale, restarts, faults>>

-----------------------------------------------------------------------------
(* The run goroutine.                                                      *)

\* The first step of update(): mutate under the lock and keep a copy.
Mutate(j, r) ==
    /\ job' = [job EXCEPT ![j] = r]
    /\ snapshot' = [snapshot EXCEPT ![j] = r]
    /\ Goto(j, "saving")
    /\ UNCHANGED <<server, db, queue, held, receiving, sem, announced, stale, restarts, faults>>

\* Mutant: the status stays queued.
StartRunUnmarked(j) == Up /\ pc[j] = "starting" /\ Mutate(j, job[j])

\* run() marks the job as running before it enters the pipeline.
StartRun(j) ==
    /\ Up
    /\ pc[j] = "starting"
    /\ Mutate(j, [job[j] EXCEPT !.status = "running"])

\* The second step of update(): write the copy.
SaveSnapshot(j) ==
    /\ Up
    /\ pc[j] = "saving"
    /\ WriteRow(j, snapshot[j])
    /\ Goto(j, "publishing")
    /\ UNCHANGED <<server, memory, announced, restarts>>

\* Mutant: the row may be written after the event, or never.
PublishUnsaved(j) ==
    /\ Up
    /\ pc[j] \in {"saving", "publishing"}
    /\ announced' = [announced EXCEPT ![j] = job[j].status]
    /\ Goto(j, IF job[j].status \in Terminal THEN "leaving" ELSE "running")
    /\ UNCHANGED <<server, memory, db, stale, restarts, faults>>

\* Mutant: the run goes on after a terminal update.
PublishAndGoOn(j) ==
    /\ Up
    /\ pc[j] = "publishing"
    /\ announced' = [announced EXCEPT ![j] = job[j].status]
    /\ Goto(j, "running")
    /\ UNCHANGED <<server, memory, db, stale, restarts, faults>>

\* The third step of update(): publish() reads the job again under the read
\* lock and fans it out.  A terminal update is run()'s last.
Publish(j) ==
    /\ Up
    /\ pc[j] = "publishing"
    /\ announced' = [announced EXCEPT ![j] = job[j].status]
    /\ Goto(j, IF job[j].status \in Terminal THEN "leaving" ELSE "running")
    /\ UNCHANGED <<server, memory, db, stale, restarts, faults>>

\* The nodes the pipeline visits: with NoLLM the conditional edge leads past
\* the gated ones, but triage itself runs.
Visited(j) == IF job[j].useAI THEN Nodes ELSE Nodes \ GatedNodes

StepTo(j, n, s) == Mutate(j, [job[j] EXCEPT !.steps[n] = s])

\* applyProgress() of a "start": whatever the step said before, it is running
\* now.  The graph starts a node once, and a node that has not started still
\* carries its initial status; the final node is entered when every node
\* entered before it has completed.  Which node comes after which is the
\* pipeline's business.
NodeStart(j, n) ==
    /\ Up
    /\ pc[j] = "running"
    /\ n \in Visited(j)
    /\ job[j].steps[n] = InitialSteps(job[j].useAI)[n]
    /\ job[j].steps[FinalNode] = "pending"
    /\ n = FinalNode => \A m \in Nodes : job[j].steps[m] \notin {"running", "error"}
    /\ StepTo(j, n, "running")

\* applyProgress() of a "done" or an "error".
NodeEnd(j, n) ==
    /\ Up
    /\ pc[j] = "running"
    /\ job[j].steps[n] = "running"
    /\ \E s \in {"done", "error"} : StepTo(j, n, s)

\* The event stream closed and the sink holds a report, which the final node
\* puts there.  An ended context may have swallowed that node's last event.
FinishRun(j) ==
    /\ Up
    /\ pc[j] = "running"
    /\ job[j].steps[FinalNode] \in {"running", "done"}
    /\ Mutate(j, Done(job[j]))

\* A node error, the job's timeout, or the cancelled context of a server that
\* stops: the pipeline may return an error at any point.
FailRun(j) ==
    /\ Up
    /\ pc[j] = "running"
    /\ Mutate(j, Failed(job[j]))

\* Mutant: the token is never returned.
ReleaseNothing(j) ==
    /\ Up
    /\ pc[j] = "leaving"
    /\ Goto(j, "ended")
    /\ UNCHANGED <<server, memory, db, announced, stale, restarts, faults>>

\* The deferred receive of the goroutine's token.
Release(j) ==
    /\ Up
    /\ pc[j] = "leaving"
    /\ sem' = sem - 1
    /\ Goto(j, "ended")
    /\ UNCHANGED <<server, job, db, queue, held, receiving, snapshot, announced, stale, restarts, faults>>

-----------------------------------------------------------------------------
(* The process.                                                            *)

\* SIGTERM cancels the context that the dispatcher and the runs share.
Terminate ==
    /\ server = "serving"
    /\ server' = "stopping"
    /\ UNCHANGED <<memory, db, pc, announced, stale, restarts, faults>>

\* The process ends: a crash, or the end of main(), which waits for HTTP
\* connections but not for the runs.  Only the rows are left.
Die ==
    /\ server # "down"
    /\ server' = "down"
    /\ job' = [j \in Jobs |-> Absent]
    /\ snapshot' = [j \in Jobs |-> Absent]
    /\ queue' = <<>>
    /\ held' = NoJob
    /\ receiving' = FALSE
    /\ sem' = 0
    /\ pc' = [j \in Jobs |-> IF pc[j] = "none" THEN "none" ELSE "ended"]
    /\ announced' = [j \in Jobs |-> "absent"]
    /\ UNCHANGED <<db, stale, restarts, faults>>

\* NewStore() runs restore(): the rows become the jobs, and the interrupted
\* ones are remembered for a second pass.
Restart ==
    /\ server = "down"
    /\ restarts < MaxRestarts
    /\ restarts' = restarts + 1
    /\ server' = "restoring"
    /\ job' = [j \in Jobs |-> Restored(db[j])]
    /\ pc' = [j \in Jobs |-> IF db[j].status \in {"queued", "running"} THEN "repairing" ELSE pc[j]]
    /\ UNCHANGED <<db, queue, held, receiving, sem, snapshot, announced, stale, faults>>

\* The second pass: the failure of an interrupted job is written to its row.
Repair(j) ==
    /\ server = "restoring"
    /\ pc[j] = "repairing"
    /\ WriteRow(j, job[j])
    /\ Goto(j, "ended")
    /\ UNCHANGED <<server, memory, announced, restarts>>

\* main() starts the worker and listens once NewStore() has returned.
Serve ==
    /\ server = "restoring"
    /\ \A j \in Jobs : pc[j] # "repairing"
    /\ server' = "serving"
    /\ receiving' = TRUE
    /\ UNCHANGED <<job, db, queue, held, sem, pc, snapshot, announced, stale, restarts, faults>>

-----------------------------------------------------------------------------
Upload(j) == Insert(j) \/ PersistNew(j) \/ Enqueue(j) \/ RejectFull(j)

Progress(j) == \E n \in Nodes : NodeStart(j, n) \/ NodeEnd(j, n)

Run(j) ==
    \/ StartRun(j) \/ SaveSnapshot(j) \/ Publish(j)
    \/ Progress(j) \/ FinishRun(j) \/ FailRun(j) \/ Release(j)

Dispatch == Receive \/ Acquire

Recover == Restart \/ Serve \/ \E j \in Jobs : Repair(j)

Next ==
    \/ \E j \in Jobs : Upload(j) \/ Run(j)
    \/ Dispatch \/ DispatcherExit
    \/ Terminate \/ Die \/ Recover

Spec == Init /\ [][Next]_vars

\* The Go scheduler runs every goroutine that can move.  A pipeline returns,
\* because its context ends after jobTimeout, and a stopping process exits,
\* because Shutdown() is given 15 seconds.  Uploads, signals, crashes and
\* starts need not happen, and neither does progress within a run.
Fairness ==
    /\ \A j \in Jobs :
         /\ WF_vars(PersistNew(j) \/ Enqueue(j) \/ RejectFull(j))
         /\ WF_vars(StartRun(j) \/ SaveSnapshot(j) \/ Publish(j) \/ Release(j))
         /\ WF_vars(FinishRun(j) \/ FailRun(j))
         /\ WF_vars(Repair(j))
    /\ WF_vars(Receive) /\ WF_vars(Acquire) /\ WF_vars(Serve)
    /\ WF_vars(server = "stopping" /\ Die)

FairSpec == Spec /\ Fairness

-----------------------------------------------------------------------------
(* Properties.                                                             *)

\* Every variable has its type.
TypeOK ==
    /\ server \in {"serving", "stopping", "down", "restoring"}
    /\ job \in [Jobs -> JobRecord]
    /\ db \in [Jobs -> JobRecord]
    /\ queue \in Seq(Jobs)
    /\ held \in Jobs \cup {NoJob}
    /\ receiving \in BOOLEAN
    /\ sem \in 0..Concurrency
    /\ pc \in [Jobs -> Place]
    /\ snapshot \in [Jobs -> JobRecord]
    /\ announced \in [Jobs -> Status]
    /\ stale \subseteq Jobs
    /\ restarts \in 0..MaxRestarts
    /\ faults \in 0..MaxFaults

\* The pool never runs more comparisons than it has slots, through every
\* order of dispatching, finishing and restarting.
BoundedRuns == Cardinality({j \in Jobs : pc[j] \in InRun}) <= Concurrency

\* By the time update() tells a subscriber that a job is over, the row holds
\* the whole outcome, report and checklist included; unless that write failed.
AnnouncedIsDurable ==
    \A j \in Jobs :
        announced[j] \in Terminal => \/ db[j] = job[j] /\ job[j].status = announced[j]
                                     \/ j \in stale

\* A finished job shows no step that is still to come or under way, and a
\* done one has its report, in memory and in its row, also after restore().
SettledRecord(r) ==
    /\ r.status \in Terminal => \A n \in Nodes : r.steps[n] \notin {"pending", "running"}
    /\ r.report <=> r.status = "done"
Settled == \A j \in Jobs : SettledRecord(job[j]) /\ SettledRecord(db[j])

\* A job whose outcome is in its row is that outcome, in the process that
\* wrote it and in every later one that serves.
SurvivesRestart ==
    \A j \in Jobs : Up /\ db[j].status \in Terminal => job[j] = db[j]

\* An unfinished job has somebody who will take it further: its upload
\* handler, a dispatcher that still receives and has it in its queue or in
\* its hands, or its run.
InQueue(j) == \E i \in 1..Len(queue) : queue[i] = j
Driven(j) ==
    \/ pc[j] \in AtHandler \cup (InRun \ {"leaving"})
    \/ receiving /\ pc[j] = "queued" /\ InQueue(j)
    \/ receiving /\ pc[j] = "held" /\ held = j

\* The two ways a job loses everybody: a full queue turns it away, or the
\* dispatcher returns at ctx.Done() with the job in its hands or in the queue,
\* where uploads that are accepted later join it.
TurnedAway(j) == pc[j] = "rejected"
Abandoned(j) == server = "stopping" /\ ~receiving /\ pc[j] \in {"queued", "held"}

\* There is no third way; in particular nobody is abandoned by a process that
\* was not told to stop.  And whom the process loses it leaves to the next
\* start, which fails what it finds unfinished: the row has the queued job,
\* unless its write failed.
LeftInRow(j) == \/ db[j] = job[j] /\ db[j].status = "queued"
                \/ j \in stale
NoOrphans ==
    \A j \in Jobs :
        /\ job[j].status \in {"queued", "running"} => Driven(j) \/ TurnedAway(j) \/ Abandoned(j)
        /\ TurnedAway(j) \/ Abandoned(j) => LeftInRow(j)

-----------------------------------------------------------------------------
(* Why these hold: the inductive invariant, one conjunct per shared thing. *)

\* The queue holds each waiting job once, and the dispatcher what it received.
QueueInv ==
    /\ \A i \in 1..Len(queue) : pc[queue[i]] = "queued"
    /\ \A i, k \in 1..Len(queue) : queue[i] = queue[k] => i = k
    /\ \A j \in Jobs : pc[j] = "queued" => InQueue(j)
    /\ \A j \in Jobs : pc[j] = "held" <=> held = j

\* A token is out exactly for the jobs that run.
Running == {j \in Jobs : pc[j] \in InRun}
SemInv == sem = Cardinality(Running)

\* Where the thread stands tells the status in memory.
StatusInv ==
    \A j \in Jobs :
        /\ pc[j] = "none" => job[j].status = "absent" /\ db[j].status = "absent"
        /\ pc[j] \in AtHandler \cup {"queued", "held", "rejected", "starting"}
              => job[j].status = "queued"
        /\ pc[j] = "running" => job[j].status = "running"
        /\ pc[j] \in {"saving", "publishing"} => job[j].status \in {"running"} \cup Terminal
        /\ pc[j] = "leaving" => job[j].status \in Terminal
        /\ pc[j] \in {"repairing", "ended"} => job[j].status \in {"absent"} \cup Terminal

\* A process that does not serve has no threads but the one that restores, and
\* one that serves has its dispatcher.
ServerInv ==
    /\ server = "serving" => receiving
    /\ Up => \A j \in Jobs : pc[j] # "repairing"
    /\ ~Up => /\ queue = <<>> /\ held = NoJob /\ sem = 0
              /\ \A j \in Jobs : /\ pc[j] \in {"none", "repairing", "ended"}
                                 /\ announced[j] = "absent"
    /\ server = "down" => \A j \in Jobs : pc[j] # "repairing" /\ job[j].status = "absent"

\* What is in the row, compared with what is in memory.
RowInv ==
    \A j \in Jobs :
        /\ pc[j] = "saving" => snapshot[j] = job[j]
        /\ pc[j] \in {"created", "queued", "held", "rejected", "publishing", "leaving"}
              => db[j] = job[j] \/ j \in stale
        /\ pc[j] \in AtHandler \cup {"queued", "held", "rejected", "starting", "running"}
              => db[j].status \notin Terminal
        /\ pc[j] = "saving" => db[j].status \notin Terminal
        /\ pc[j] \in {"publishing", "leaving", "ended"} /\ Up /\ db[j].status \in Terminal
              => db[j] = job[j]
        /\ server = "restoring" => /\ db[j].status \in Terminal => db[j] = job[j]
                                   /\ pc[j] # "none" => job[j] = Restored(db[j]) \/ pc[j] = "ended"
        /\ announced[j] \in Terminal => /\ pc[j] \in {"leaving", "ended"}
                                        /\ job[j].status = announced[j]
                                        /\ db[j] = job[j] \/ j \in stale

IInv == TypeOK /\ QueueInv /\ SemInv /\ StatusInv /\ ServerInv /\ Settled /\ RowInv

-----------------------------------------------------------------------------
(* What a step may never do, and what must happen.                         *)

\* While the process lives, no step changes a job that is over: no late
\* progress event, no second outcome.
OutcomeIsFinal ==
    [][\A j \in Jobs :
         job[j].status \in Terminal /\ server' # "down" => job'[j] = job[j]]_vars

\* No step ever changes a row that holds an outcome, in particular no
\* restart and no repair.
DurableForever ==
    [][\A j \in Jobs : db[j].status \in Terminal => db'[j] = db[j]]_vars

\* The service implements the life of a job: a reader of a stopped server
\* sees what the next start will restore.
Lifecycle ==
    INSTANCE JobLifecycle WITH
        status <- [j \in Jobs |-> IF server = "down"
                                   THEN Restored(db[j]).status ELSE job[j].status],
        saved <- [j \in Jobs |-> db[j].status]
ImplementsLifecycle == Lifecycle!LifeSpec

\* A job that was admitted to the queue comes to an end, if only because the
\* process does.
AdmittedFinishes ==
    \A j \in Jobs :
        pc[j] = "queued" ~> job[j].status \in Terminal \/ server = "down"

\* Stated by sqlite.go for restarts: no job is left with a page that never
\* advances.  It fails for a job the full queue has turned away.
NothingStaysQueued ==
    \A j \in Jobs :
        job[j].status = "queued" ~> job[j].status # "queued"
=============================================================================
