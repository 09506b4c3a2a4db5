-------------------------- MODULE JobServiceProofs --------------------------
(* Proofs that the properties of JobService hold for every set of jobs and   *)
(* nodes, every capacity and every number of restarts and failed writes.     *)
EXTENDS JobService, FiniteSetTheorems, TLAPS

-----------------------------------------------------------------------------
(* The records the mutations produce.                                      *)

\* A finished record is a record, it is settled, and restore() leaves it be.
LEMMA OutcomeRecords ==
    ASSUME NEW r \in JobRecord
    PROVE  /\ Done(r) \in JobRecord /\ Done(r).status = "done" /\ SettledRecord(Done(r))
           /\ Failed(r) \in JobRecord /\ Failed(r).status = "failed"
           /\ ~r.report => SettledRecord(Failed(r))
<1>1. ASSUME NEW as \in {"skipped", "error"}
      PROVE  /\ Settle(r.steps, as) \in [Nodes -> StepStatus]
             /\ \A n \in Nodes : Settle(r.steps, as)[n] \notin {"pending", "running"}
    BY DEF Settle, JobRecord, StepStatus
<1>2. Settle(r.steps, "skipped") \in [Nodes -> StepStatus]
      /\ Settle(r.steps, "error") \in [Nodes -> StepStatus]
    BY <1>1
<1>3. Done(r) \in JobRecord /\ Done(r).status = "done" /\ Done(r).report = TRUE
      /\ Done(r).steps = Settle(r.steps, "skipped")
    BY <1>2 DEF Done, JobRecord, Status, Terminal
<1>4. Failed(r) \in JobRecord /\ Failed(r).status = "failed" /\ Failed(r).report = r.report
      /\ Failed(r).steps = Settle(r.steps, "error")
    BY <1>2 DEF Failed, JobRecord, Status, Terminal
<1> QED
    BY <1>1, <1>3, <1>4 DEF SettledRecord, JobRecord

\* restore() turns a settled row into a settled, finished or absent job.
LEMMA RestoredRecord ==
    ASSUME NEW r \in JobRecord, SettledRecord(r)
    PROVE  /\ Restored(r) \in JobRecord
           /\ SettledRecord(Restored(r))
           /\ Restored(r).status \in {"absent"} \cup Terminal
           /\ Restored(r).status = "absent" <=> r.status = "absent"
           /\ r.status \in Terminal => Restored(r) = r
           /\ Restored(r) # r => r.status \in {"queued", "running"}
<1>1. CASE r.status \in {"queued", "running"}
  <2>1. ~r.report
      BY <1>1 DEF SettledRecord, JobRecord
  <2> QED
      BY <1>1, <2>1, OutcomeRecords DEF Restored, Terminal
<1>2. CASE r.status \notin {"queued", "running"}
    BY <1>2 DEF Restored, JobRecord, Status, Terminal
<1> QED
    BY <1>1, <1>2

\* A new job and a progress event keep the record well formed.
LEMMA StepRecords ==
    /\ \A useAI \in BOOLEAN : InitialSteps(useAI) \in [Nodes -> StepStatus]
    /\ \A r \in JobRecord, n \in Nodes, s \in StepStatus :
         LET q == [r EXCEPT !.steps[n] = s]
         IN  q \in JobRecord /\ q.status = r.status /\ q.report = r.report
    /\ \A r \in JobRecord :
         LET q == [r EXCEPT !.status = "running"]
         IN  q \in JobRecord /\ q.status = "running" /\ q.report = r.report
<1>1. \A useAI \in BOOLEAN : InitialSteps(useAI) \in [Nodes -> StepStatus]
    BY DEF InitialSteps, StepStatus
<1>2. ASSUME NEW r \in JobRecord, NEW n \in Nodes, NEW s \in StepStatus
      PROVE  LET q == [r EXCEPT !.steps[n] = s]
             IN  q \in JobRecord /\ q.status = r.status /\ q.report = r.report
    BY DEF JobRecord
<1>3. ASSUME NEW r \in JobRecord
      PROVE  LET q == [r EXCEPT !.status = "running"]
             IN  q \in JobRecord /\ q.status = "running" /\ q.report = r.report
    BY DEF JobRecord, Status
<1> QED
    BY <1>1, <1>2, <1>3

-----------------------------------------------------------------------------
(* The invariant holds at the start.                                       *)

\* NewStore() with an empty table, and a worker with nothing to do, satisfy every
\* part of the invariant.
THEOREM InitIInv == Init => IInv
<1> SUFFICES ASSUME Init PROVE IInv
    OBVIOUS
<1> USE JobServiceAssumption DEF Init
<1>1. Absent \in JobRecord
    BY DEF Absent, JobRecord, Status, StepStatus
<1>2. TypeOK
    BY <1>1 DEF TypeOK, Place, Status
<1>3. Running = {}
    BY DEF Running, InRun
<1>4. SemInv
    BY <1>3, FS_EmptySet DEF SemInv
<1>5. QueueInv /\ StatusInv /\ ServerInv /\ Settled /\ RowInv
    BY DEF QueueInv, StatusInv, ServerInv, Settled, SettledRecord, RowInv, Absent,
           AtHandler, InRun, Terminal, Up, Restored
<1> QED
    BY <1>2, <1>4, <1>5 DEF IInv

-----------------------------------------------------------------------------
(* The invariant is preserved, one conjunct after the other.               *)

\* Every operation of the store, the worker and the process keeps the types.
LEMMA TypeStep == IInv /\ Next => TypeOK'
<1> SUFFICES ASSUME IInv, Next PROVE TypeOK'
    OBVIOUS
<1> USE JobServiceAssumption DEF IInv, TypeOK
<1>1. ASSUME NEW j \in Jobs, Insert(j) PROVE TypeOK'
  <2>1. PICK useAI \in BOOLEAN :
          job' = [job EXCEPT ![j] = [status |-> "queued", useAI |-> useAI,
                                     steps |-> InitialSteps(useAI), report |-> FALSE]]
      BY <1>1 DEF Insert
  <2>2. job'[j] \in JobRecord /\ job' \in [Jobs -> JobRecord]
      BY <2>1, StepRecords DEF JobRecord, Status
  <2> QED
      BY <1>1, <2>2 DEF Insert, Goto, Place, AtHandler
<1>2. ASSUME NEW j \in Jobs, PersistNew(j) \/ Repair(j) \/ SaveSnapshot(j) PROVE TypeOK'
    BY SMTT(30), <1>2 DEF PersistNew, Repair, SaveSnapshot, WriteRow, Goto, Place, AtHandler, InRun, memory
<1>3. ASSUME NEW j \in Jobs, Enqueue(j) \/ RejectFull(j) PROVE TypeOK'
  <2>1. pc' \in [Jobs -> Place]
      BY <1>3 DEF Enqueue, RejectFull, Goto, Place
  <2>2. queue' \in Seq(Jobs)
      BY <1>3 DEF Enqueue, RejectFull, memory
  <2> QED
      BY <1>3, <2>1, <2>2 DEF Enqueue, RejectFull, memory
<1>4. CASE Receive
    BY <1>4 DEF Receive, Goto, Place
<1>5. CASE Acquire
    BY <1>5 DEF Acquire, Goto, Place, InRun
<1>6. CASE DispatcherExit \/ Terminate \/ Serve
    BY <1>6 DEF DispatcherExit, Terminate, Serve, memory
<1>7. ASSUME NEW j \in Jobs, NEW r \in JobRecord, Mutate(j, r) PROVE TypeOK'
    BY <1>7 DEF Mutate, Goto, Place, InRun
<1>8. ASSUME NEW j \in Jobs, StartRun(j) PROVE TypeOK'
    BY <1>7, <1>8, StepRecords DEF StartRun
<1>9. ASSUME NEW j \in Jobs, Publish(j) PROVE TypeOK'
    BY <1>9 DEF Publish, Goto, Place, InRun, memory, JobRecord
<1>10. ASSUME NEW j \in Jobs, Progress(j) PROVE TypeOK'
    BY <1>7, <1>10, StepRecords DEF Progress, NodeStart, NodeEnd, StepTo, StepStatus
<1>11. ASSUME NEW j \in Jobs, FinishRun(j) \/ FailRun(j) PROVE TypeOK'
    BY <1>7, <1>11, OutcomeRecords DEF FinishRun, FailRun
<1>12. ASSUME NEW j \in Jobs, Release(j) PROVE TypeOK'
  <2>1. j \in Running /\ sem = Cardinality(Running)
      BY <1>12 DEF Release, Running, InRun, SemInv
  <2>2. sem # 0
      BY <2>1, FS_Subset, FS_EmptySet DEF Running
  <2> QED
      BY <1>12, <2>2 DEF Release, Goto, Place
<1>13. CASE Die
  <2>1. Absent \in JobRecord
      BY DEF Absent, JobRecord, Status, StepStatus
  <2>2. pc' \in [Jobs -> Place]
      BY <1>13 DEF Die, Place
  <2>3. announced' \in [Jobs -> Status]
      BY <1>13 DEF Die, Status
  <2>4. <<>> \in Seq(Jobs) /\ 0 \in 0..Concurrency
      OBVIOUS
  <2> QED
      BY <1>13, <2>1, <2>2, <2>3, <2>4 DEF Die
<1>14. CASE Restart
    BY <1>14, RestoredRecord DEF Restart, Place, Settled
<1> QED
    BY <1>1, <1>2, <1>3, <1>4, <1>5, <1>6, <1>8, <1>9, <1>10, <1>11, <1>12, <1>13, <1>14
    DEF Next, Upload, Run, Dispatch, Recover

\* A step of the run goroutine, short of its last, moves that goroutine within
\* the run and touches neither the queue nor the pool.
InnerRun(j) ==
    \/ StartRun(j) \/ SaveSnapshot(j) \/ Publish(j)
    \/ Progress(j) \/ FinishRun(j) \/ FailRun(j)

\* Between two places in a run a thread leaves the queue, the pool and the
\* process alone.
LEMMA InnerRunMoves ==
    ASSUME NEW j \in Jobs, InnerRun(j)
    PROVE  /\ Up
           /\ UNCHANGED <<server, queue, held, receiving, sem>>
           /\ pc[j] \in InRun \ {"leaving"}
           /\ \E place \in InRun \ {"starting"} : pc' = [pc EXCEPT ![j] = place]
BY DEF InnerRun, StartRun, SaveSnapshot, Publish, Progress, NodeStart, NodeEnd, StepTo,
       FinishRun, FailRun, Mutate, Goto, InRun, memory

\* The remaining steps of a single job that leave queue and pool alone.
OuterStep(j) == Insert(j) \/ PersistNew(j) \/ RejectFull(j) \/ Repair(j)

\* So does a thread between two places outside a run.
LEMMA OuterStepMoves ==
    ASSUME NEW j \in Jobs, OuterStep(j)
    PROVE  /\ UNCHANGED <<server, queue, held, receiving, sem>>
           /\ pc[j] \in {"none", "inserted", "created", "repairing"}
           /\ \E place \in {"inserted", "created", "rejected", "ended"} :
                pc' = [pc EXCEPT ![j] = place]
BY DEF OuterStep, Insert, PersistNew, RejectFull, Repair, Goto, memory

\* A step is one thread moving, or one of the operations on what the threads share.
LEMMA NextCases ==
    ASSUME Next
    PROVE  \/ \E j \in Jobs : InnerRun(j) \/ OuterStep(j) \/ Enqueue(j) \/ Release(j)
           \/ Receive \/ Acquire
           \/ DispatcherExit \/ Terminate \/ Serve
           \/ Die \/ Restart
BY DEF Next, Upload, Run, Dispatch, Recover, InnerRun, OuterStep

\* Enqueue(), the dispatcher and the end of the process keep the queue exact.
LEMMA QueueStep == IInv /\ Next => QueueInv'
<1> SUFFICES ASSUME IInv, Next PROVE QueueInv'
    OBVIOUS
<1> USE JobServiceAssumption DEF IInv, TypeOK, QueueInv, InQueue
<1>1. ASSUME NEW j \in Jobs, NEW place \in Place \ {"queued", "held"},
             pc[j] \notin {"queued", "held"},
             pc' = [pc EXCEPT ![j] = place], UNCHANGED <<queue, held>>
      PROVE  QueueInv'
  <2>1. \A i \in 1..Len(queue) : queue[i] \in Jobs /\ queue[i] # j
      BY <1>1
  <2>2. /\ queue' = queue /\ held' = held /\ held # j
        /\ pc'[j] \notin {"queued", "held"} /\ \A i \in Jobs \ {j} : pc'[i] = pc[i]
      BY <1>1
  <2>3. \A i \in 1..Len(queue') : pc'[queue'[i]] = "queued"
      BY <2>1, <2>2
  <2>4. \A i, k \in 1..Len(queue') : queue'[i] = queue'[k] => i = k
      BY <2>2
  <2>5. ASSUME NEW i \in Jobs, pc'[i] = "queued"
        PROVE  \E k \in 1..Len(queue') : queue'[k] = i
    <3>1. pc[i] = "queued"
        BY <2>2, <2>5
    <3> QED
        BY <2>2, <3>1
  <2>6. \A i \in Jobs : pc'[i] = "held" <=> held' = i
      BY <1>1, <2>2
  <2> QED
      BY <2>3, <2>4, <2>5, <2>6
<1>2. ASSUME NEW j \in Jobs, InnerRun(j) PROVE QueueInv'
    BY SMTT(30), <1>1, <1>2, InnerRunMoves DEF InRun, Place
<1>3. ASSUME NEW j \in Jobs, OuterStep(j) PROVE QueueInv'
    BY <1>1, <1>3, OuterStepMoves DEF Place, AtHandler
<1>4. ASSUME NEW j \in Jobs, Release(j) PROVE QueueInv'
    BY <1>1, <1>4 DEF Release, Goto, Place
<1>5. ASSUME NEW j \in Jobs, Enqueue(j) PROVE QueueInv'
  <2>1. /\ queue' = Append(queue, j) /\ pc' = [pc EXCEPT ![j] = "queued"]
        /\ pc[j] = "created" /\ held' = held
      BY <1>5 DEF Enqueue, Goto
  <2>2. /\ Len(queue') = Len(queue) + 1 /\ queue'[Len(queue) + 1] = j
        /\ \A i \in 1..Len(queue) : queue'[i] = queue[i] /\ queue[i] # j /\ queue[i] \in Jobs
      BY <2>1
  <2>3. \A i \in 1..Len(queue') : pc'[queue'[i]] = "queued"
      BY <2>1, <2>2
  <2>4. \A i, k \in 1..Len(queue') : queue'[i] = queue'[k] => i = k
      BY <2>1, <2>2
  <2>5. ASSUME NEW i \in Jobs, pc'[i] = "queued"
        PROVE  \E k \in 1..Len(queue') : queue'[k] = i
    <3>1. CASE i = j
        BY <2>2, <3>1
    <3>2. CASE i # j
      <4>1. PICK k \in 1..Len(queue) : queue[k] = i
          BY <2>1, <2>5, <3>2
      <4> QED
          BY <2>2, <4>1
    <3> QED
        BY <3>1, <3>2
  <2> QED
      BY <2>1, <2>3, <2>4, <2>5
<1>6. CASE Receive
  <2> DEFINE h == Head(queue)
  <2>1. /\ queue # <<>> /\ h = queue[1] /\ h \in Jobs
        /\ queue' = Tail(queue) /\ pc' = [pc EXCEPT ![h] = "held"]
        /\ held = NoJob /\ held' = h /\ Len(queue) >= 1
      BY <1>6 DEF Receive, Goto
  <2>2. /\ Len(queue') = Len(queue) - 1
        /\ \A i \in 1..Len(queue') : i + 1 \in 1..Len(queue) /\ queue'[i] = queue[i + 1]
      BY <2>1
  <2>3. \A i \in 1..Len(queue') : queue'[i] # h /\ queue'[i] \in Jobs
      BY <2>1, <2>2
  <2>4. \A i \in 1..Len(queue') : pc'[queue'[i]] = "queued"
      BY <2>1, <2>2, <2>3
  <2>5. \A i, k \in 1..Len(queue') : queue'[i] = queue'[k] => i = k
    <3> SUFFICES ASSUME NEW i \in 1..Len(queue'), NEW k \in 1..Len(queue'), queue'[i] = queue'[k]
                 PROVE  i = k
        OBVIOUS
    <3>1. i + 1 = k + 1
        BY <2>2
    <3> QED
        BY <3>1, <2>2
  <2>6. ASSUME NEW i \in Jobs, pc'[i] = "queued"
        PROVE  \E k \in 1..Len(queue') : queue'[k] = i
    <3>1. pc[i] = "queued" /\ i # h
        BY <2>1, <2>6
    <3>2. PICK k \in 1..Len(queue) : queue[k] = i
        BY <3>1
    <3>3. k - 1 \in 1..Len(queue') /\ (k - 1) + 1 = k
        BY <2>1, <2>2, <3>1, <3>2
    <3> QED
        BY <2>2, <3>2, <3>3
  <2>7. \A i \in Jobs : pc'[i] = "held" <=> held' = i
      BY <2>1
  <2> QED
      BY <2>4, <2>5, <2>6, <2>7
<1>7. CASE Acquire
  <2>1. /\ held \in Jobs /\ pc[held] = "held" /\ held' = NoJob /\ queue' = queue
        /\ pc' = [pc EXCEPT ![held] = "starting"]
      BY <1>7 DEF Acquire, Goto
  <2>2. \A i \in 1..Len(queue) : queue[i] # held /\ queue[i] \in Jobs
      BY <2>1
  <2>3. \A i \in Jobs : pc'[i] = "held" <=> held' = i
      BY <2>1
  <2> QED
      BY <2>1, <2>2, <2>3
<1>8. CASE DispatcherExit \/ Terminate \/ Serve
    BY <1>8 DEF DispatcherExit, Terminate, Serve, memory
<1>9. CASE Die
    BY <1>9 DEF Die
<1>10. CASE Restart
    BY <1>10 DEF Restart, ServerInv, Up
<1> QED
    BY <1>2, <1>3, <1>4, <1>5, <1>6, <1>7, <1>8, <1>9, <1>10, NextCases

\* A token is taken with a run and returned with it.
LEMMA SemStep == IInv /\ Next => SemInv'
<1> SUFFICES ASSUME IInv, Next PROVE SemInv'
    OBVIOUS
<1> USE JobServiceAssumption DEF IInv, TypeOK, SemInv
<1>0. IsFiniteSet(Running) /\ Cardinality({}) = 0
    BY FS_Subset, FS_EmptySet DEF Running
\* Steps that neither enter nor leave a run.
<1>1. ASSUME sem' = sem, \A i \in Jobs : pc'[i] \in InRun <=> pc[i] \in InRun
      PROVE  SemInv'
  <2>1. Running' = Running
      BY <1>1 DEF Running
  <2> QED
      BY <1>1, <2>1
<1>2. ASSUME NEW j \in Jobs, InnerRun(j) PROVE SemInv'
    BY <1>1, <1>2, InnerRunMoves
<1>3. ASSUME NEW j \in Jobs, OuterStep(j) PROVE SemInv'
    BY <1>1, <1>3, OuterStepMoves DEF InRun
<1>4. ASSUME NEW j \in Jobs, Enqueue(j) PROVE SemInv'
    BY <1>1, <1>4 DEF Enqueue, Goto, InRun
<1>5. CASE Receive
  <2>1. Head(queue) \in Jobs /\ pc[Head(queue)] = "queued"
      BY <1>5 DEF Receive, QueueInv
  <2> QED
      BY <1>1, <1>5, <2>1 DEF Receive, Goto, InRun
<1>6. CASE Acquire
  <2>1. /\ held \in Jobs /\ pc[held] = "held" /\ pc' = [pc EXCEPT ![held] = "starting"]
        /\ sem' = sem + 1
      BY <1>6 DEF Acquire, Goto, QueueInv
  <2>2. Running' = Running \cup {held} /\ held \notin Running
      BY <2>1 DEF Running, InRun
  <2> QED
      BY <1>0, <2>1, <2>2, FS_AddElement
<1>7. ASSUME NEW j \in Jobs, Release(j) PROVE SemInv'
  <2>1. pc[j] = "leaving" /\ pc' = [pc EXCEPT ![j] = "ended"] /\ sem' = sem - 1
      BY <1>7 DEF Release, Goto
  <2>2. Running' = Running \ {j} /\ j \in Running
      BY <2>1 DEF Running, InRun
  <2> QED
      BY <1>0, <2>1, <2>2, FS_RemoveElement
<1>8. CASE DispatcherExit \/ Terminate \/ Serve
    BY <1>1, <1>8 DEF DispatcherExit, Terminate, Serve, memory
<1>9. CASE Die
  <2>1. Running' = {} /\ sem' = 0
      BY <1>9 DEF Die, Running, InRun
  <2> QED
      BY <1>0, <2>1
<1>10. CASE Restart
  <2>1. \A i \in Jobs : pc[i] \notin InRun /\ pc'[i] \notin InRun
      BY <1>10 DEF Restart, ServerInv, Up, InRun
  <2> QED
      BY <1>1, <1>10, <2>1 DEF Restart
<1> QED
    BY <1>2, <1>3, <1>4, <1>5, <1>6, <1>7, <1>8, <1>9, <1>10, NextCases

\* Only a serving process has threads, and only a restoring one repairs.
LEMMA ServerStep == IInv /\ Next => ServerInv'
<1> SUFFICES ASSUME IInv, Next PROVE ServerInv'
    OBVIOUS
<1> USE JobServiceAssumption DEF IInv, TypeOK, ServerInv
<1>1. ASSUME NEW j \in Jobs, InnerRun(j) PROVE ServerInv'
  <2>1. Up /\ Up'
      BY <1>1, InnerRunMoves DEF Up
  <2> QED
      BY <1>1, <2>1, InnerRunMoves DEF InRun, Up
<1>2. ASSUME NEW j \in Jobs, Insert(j) \/ PersistNew(j) \/ RejectFull(j) \/ Enqueue(j) \/ Release(j)
      PROVE  ServerInv'
    BY <1>2 DEF Insert, PersistNew, RejectFull, Enqueue, Release, Goto, Up, memory
<1>3. ASSUME NEW j \in Jobs, Repair(j) PROVE ServerInv'
    BY <1>3 DEF Repair, Goto, Up, memory
<1>4. CASE Receive \/ Acquire \/ DispatcherExit \/ Terminate \/ Serve
    BY <1>4 DEF Receive, Acquire, DispatcherExit, Terminate, Serve, Goto, Up, memory
<1>5. CASE Die
    BY <1>5 DEF Die, Up, Absent
<1>6. CASE Restart
    BY <1>6 DEF Restart, Up
<1> QED
    BY <1>1, <1>2, <1>3, <1>4, <1>5, <1>6, NextCases DEF OuterStep

\* What an update does to the job it is about, and to nothing else.
Update(j) == StartRun(j) \/ Progress(j) \/ FinishRun(j) \/ FailRun(j)

\* What the function given to update() does to the record.
LEMMA UpdateEffect ==
    ASSUME IInv, NEW j \in Jobs, Update(j)
    PROVE  /\ \E r \in JobRecord :
                /\ Mutate(j, r)
                /\ r.status \in {"running"} \cup Terminal
                /\ SettledRecord(r)
           /\ pc[j] \in {"starting", "running"} /\ Up
<1> USE DEF IInv, TypeOK
<1>1. job[j] \in JobRecord /\ SettledRecord(job[j])
    BY DEF Settled
<1>2. pc[j] = "starting" => ~job[j].report
    BY <1>1 DEF SettledRecord, StatusInv, JobRecord
<1>3. pc[j] = "running" => ~job[j].report /\ job[j].status = "running"
    BY <1>1 DEF SettledRecord, StatusInv, JobRecord
<1>4. CASE StartRun(j)
  <2> DEFINE r == [job[j] EXCEPT !.status = "running"]
  <2>1. Mutate(j, r) /\ pc[j] = "starting" /\ Up
      BY <1>4 DEF StartRun
  <2>2. r \in JobRecord /\ r.status = "running" /\ r.report = job[j].report
      BY <1>1, StepRecords
  <2> HIDE DEF r
  <2>3. SettledRecord(r)
      BY <1>2, <2>1, <2>2 DEF SettledRecord, Terminal
  <2> QED
      BY <2>1, <2>2, <2>3
<1>5. CASE Progress(j)
  <2>1. PICK n \in Nodes, s \in StepStatus : Mutate(j, [job[j] EXCEPT !.steps[n] = s])
      BY <1>5 DEF Progress, NodeStart, NodeEnd, StepTo, StepStatus
  <2> DEFINE r == [job[j] EXCEPT !.steps[n] = s]
  <2>2. r \in JobRecord /\ r.status = job[j].status /\ r.report = job[j].report
      BY <1>1, StepRecords
  <2>3. pc[j] = "running" /\ Up
      BY <1>5 DEF Progress, NodeStart, NodeEnd
  <2>4. Mutate(j, r)
      BY <2>1
  <2> HIDE DEF r
  <2>5. SettledRecord(r)
      BY <1>3, <2>2, <2>3 DEF SettledRecord, Terminal
  <2> QED
      BY <1>3, <2>2, <2>3, <2>4, <2>5
<1>6. CASE FinishRun(j) \/ FailRun(j)
    BY <1>1, <1>3, <1>6, OutcomeRecords DEF FinishRun, FailRun, Terminal
<1> QED
    BY <1>4, <1>5, <1>6 DEF Update

\* No update, row write or restore leaves a finished record unsettled.
LEMMA SettledStep == IInv /\ Next => Settled'
<1> SUFFICES ASSUME IInv, Next PROVE Settled'
    OBVIOUS
<1> USE JobServiceAssumption DEF IInv, TypeOK, Settled
<1>1. SettledRecord(Absent)
    BY DEF SettledRecord, Absent, Terminal
<1>2. ASSUME NEW j \in Jobs, Insert(j) PROVE Settled'
  <2>1. PICK useAI \in BOOLEAN :
          job' = [job EXCEPT ![j] = [status |-> "queued", useAI |-> useAI,
                                     steps |-> InitialSteps(useAI), report |-> FALSE]]
      BY <1>2 DEF Insert
  <2>2. SettledRecord(job'[j])
      BY <2>1 DEF SettledRecord, Terminal
  <2> QED
      BY <1>2, <2>1, <2>2 DEF Insert
<1>3. ASSUME NEW j \in Jobs, PersistNew(j) \/ Repair(j) PROVE Settled'
    BY <1>3 DEF PersistNew, Repair, WriteRow, memory
<1>4. ASSUME NEW j \in Jobs, SaveSnapshot(j) PROVE Settled'
    BY <1>4 DEF SaveSnapshot, WriteRow, memory, RowInv
<1>5. ASSUME NEW j \in Jobs, Update(j) PROVE Settled'
    BY <1>5, UpdateEffect DEF Mutate
<1>6. ASSUME NEW j \in Jobs, Publish(j) \/ Enqueue(j) \/ RejectFull(j) \/ Release(j) PROVE Settled'
    BY <1>6 DEF Publish, Enqueue, RejectFull, Release, memory
<1>7. CASE Receive \/ Acquire \/ DispatcherExit \/ Terminate \/ Serve
    BY <1>7 DEF Receive, Acquire, DispatcherExit, Terminate, Serve, memory
<1>8. CASE Die
    BY <1>1, <1>8 DEF Die
<1>9. CASE Restart
    BY <1>9, RestoredRecord DEF Restart
<1> QED
    BY <1>2, <1>3, <1>4, <1>5, <1>6, <1>7, <1>8, <1>9, NextCases
    DEF InnerRun, OuterStep, Update

\* A thread's place keeps telling the status.
LEMMA StatusStep == IInv /\ Next => StatusInv'
<1> SUFFICES ASSUME IInv, Next PROVE StatusInv'
    OBVIOUS
<1> USE JobServiceAssumption DEF IInv, TypeOK, StatusInv
<1>1. ASSUME NEW j \in Jobs, Insert(j) PROVE StatusInv'
  <2>1. job'[j].status = "queued" /\ pc' = [pc EXCEPT ![j] = "inserted"]
        /\ \A i \in Jobs \ {j} : job'[i] = job[i]
      BY <1>1 DEF Insert, Goto
  <2> QED
      BY <1>1, <2>1 DEF Insert, AtHandler
<1>2. ASSUME NEW j \in Jobs, PersistNew(j) PROVE StatusInv'
    BY <1>2 DEF PersistNew, WriteRow, Goto, memory, AtHandler
<1>3. ASSUME NEW j \in Jobs, Repair(j) PROVE StatusInv'
    BY <1>3 DEF Repair, WriteRow, Goto, memory, AtHandler
<1>4. ASSUME NEW j \in Jobs, SaveSnapshot(j) PROVE StatusInv'
    BY <1>4 DEF SaveSnapshot, WriteRow, Goto, memory, AtHandler
<1>5. ASSUME NEW j \in Jobs, Update(j) PROVE StatusInv'
    BY <1>5, UpdateEffect DEF Mutate, Goto, AtHandler
<1>6. ASSUME NEW j \in Jobs, Publish(j) \/ Enqueue(j) \/ RejectFull(j) \/ Release(j) PROVE StatusInv'
    BY <1>6 DEF Publish, Enqueue, RejectFull, Release, Goto, memory, AtHandler
<1>7. CASE Receive
  <2>1. Head(queue) \in Jobs /\ pc[Head(queue)] = "queued"
      BY <1>7 DEF Receive, QueueInv
  <2> QED
      BY <1>7, <2>1 DEF Receive, Goto, AtHandler
<1>8. CASE Acquire
    BY <1>8 DEF Acquire, Goto, AtHandler, QueueInv
<1>9. CASE DispatcherExit \/ Terminate \/ Serve
    BY <1>9 DEF DispatcherExit, Terminate, Serve, memory
<1>10. CASE Die
    BY <1>10 DEF Die, Absent, AtHandler
<1>11. CASE Restart
  <2> SUFFICES ASSUME NEW i \in Jobs PROVE StatusInv!(i)'
      OBVIOUS
  <2>1. /\ job'[i] = Restored(db[i]) /\ db' = db
        /\ job'[i].status \in {"absent"} \cup Terminal
        /\ job'[i].status = "absent" <=> db[i].status = "absent"
      BY <1>11, RestoredRecord DEF Restart, Settled
  <2>2. pc'[i] = IF db[i].status \in {"queued", "running"} THEN "repairing" ELSE pc[i]
      BY <1>11 DEF Restart
  <2>3. pc[i] \in {"none", "ended"}
      BY <1>11 DEF Restart, ServerInv, Up
  <2> QED
      BY <2>1, <2>2, <2>3 DEF AtHandler
<1> QED
    BY <1>1, <1>2, <1>3, <1>4, <1>5, <1>6, <1>7, <1>8, <1>9, <1>10, <1>11, NextCases
    DEF InnerRun, OuterStep, Update

\* Rows stay what memory, or the failed write, makes of them.
LEMMA RowStep == IInv /\ Next => RowInv'
<1> SUFFICES ASSUME IInv, Next PROVE RowInv'
    OBVIOUS
<1> USE JobServiceAssumption DEF IInv, TypeOK, RowInv
<1>1. ASSUME NEW j \in Jobs, Insert(j) PROVE RowInv'
  <2>1. /\ pc[j] = "none" /\ pc' = [pc EXCEPT ![j] = "inserted"]
        /\ \A i \in Jobs \ {j} : job'[i] = job[i]
        /\ db[j].status = "absent" /\ announced[j] \notin Terminal
      BY <1>1 DEF Insert, Goto, StatusInv, InRun, Terminal
  <2> QED
      BY <1>1, <2>1 DEF Insert, AtHandler, Terminal, Up
<1>2. ASSUME NEW j \in Jobs, PersistNew(j) PROVE RowInv'
  <2>1. job[j].status = "queued" /\ announced[j] \notin Terminal
      BY <1>2 DEF PersistNew, StatusInv, AtHandler, Terminal
  <2> QED
      BY <1>2, <2>1 DEF PersistNew, WriteRow, Goto, memory, AtHandler, Up, Terminal
<1>3. ASSUME NEW j \in Jobs, Repair(j) PROVE RowInv'
  <2>1. announced[j] \notin Terminal
      BY <1>3 DEF Repair
  <2> QED
      BY <1>3, <2>1 DEF Repair, WriteRow, Goto, memory, AtHandler, Up
<1>4. ASSUME NEW j \in Jobs, SaveSnapshot(j) PROVE RowInv'
  <2>1. snapshot[j] = job[j] /\ announced[j] \notin Terminal
      BY <1>4 DEF SaveSnapshot
  <2> QED
      BY <1>4, <2>1 DEF SaveSnapshot, WriteRow, Goto, memory, AtHandler, Up
<1>5. ASSUME NEW j \in Jobs, Update(j) PROVE RowInv'
  <2>1. PICK r \in JobRecord : Mutate(j, r)
      BY <1>5, UpdateEffect
  <2>2. db[j].status \notin Terminal /\ announced[j] \notin Terminal /\ Up
      BY <1>5, UpdateEffect DEF InRun
  <2> QED
      BY <2>1, <2>2 DEF Mutate, Goto, AtHandler, Up
<1>6. ASSUME NEW j \in Jobs, Publish(j) PROVE RowInv'
  <2>1. job[j].status \notin Terminal => db[j].status \notin Terminal
      BY <1>6 DEF Publish
  <2> QED
      BY <1>6, <2>1 DEF Publish, Goto, memory, AtHandler, Up
<1>7. ASSUME NEW j \in Jobs, Enqueue(j) \/ RejectFull(j) \/ Release(j) PROVE RowInv'
    BY <1>7 DEF Enqueue, RejectFull, Release, Goto, memory, AtHandler, Up
<1>8. CASE Receive
  <2>1. Head(queue) \in Jobs /\ pc[Head(queue)] = "queued"
      BY <1>8 DEF Receive, QueueInv
  <2> QED
      BY <1>8, <2>1 DEF Receive, Goto, AtHandler, Up
<1>9. CASE Acquire
    BY <1>9 DEF Acquire, Goto, AtHandler, QueueInv, Up
<1>10. CASE DispatcherExit \/ Terminate \/ Serve
    BY <1>10 DEF DispatcherExit, Terminate, Serve, memory, Up, ServerInv, StatusInv, AtHandler
<1>11. CASE Die
    BY <1>11 DEF Die, AtHandler, Up, Terminal
<1>12. CASE Restart
  <2>1. ASSUME NEW i \in Jobs
        PROVE  /\ job'[i] = Restored(db[i]) /\ db' = db /\ announced'[i] = "absent"
               /\ db[i].status \in Terminal => job'[i] = db[i]
               /\ pc'[i] \in {"none", "repairing", "ended"}
      BY <1>12, RestoredRecord DEF Restart, Settled, ServerInv, Up
  <2>2. server' = "restoring"
      BY <1>12 DEF Restart
  <2> QED
      BY <2>1, <2>2 DEF AtHandler, Up, Terminal
<1> QED
    BY <1>1, <1>2, <1>3, <1>4, <1>5, <1>6, <1>7, <1>8, <1>9, <1>10, <1>11, <1>12, NextCases
    DEF InnerRun, OuterStep, Update

\* The invariant is inductive.
LEMMA IInvStep == IInv /\ [Next]_vars => IInv'
<1>1. CASE Next
    BY <1>1, TypeStep, QueueStep, SemStep, StatusStep, ServerStep, SettledStep, RowStep DEF IInv
<1>2. CASE UNCHANGED vars
    BY <1>2 DEF vars, IInv, TypeOK, QueueInv, InQueue, SemInv, Running, StatusInv, ServerInv, Up,
                Settled, RowInv
<1> QED
    BY <1>1, <1>2

\* The inductive invariant holds in every state of every behaviour.
THEOREM Invariance == Spec => []IInv
BY InitIInv, IInvStep, PTL DEF Spec

-----------------------------------------------------------------------------
(* What follows from the invariant.                                        *)

\* Every variable of the service keeps its type, whatever the handlers, the
\* worker and the restarts do.
THEOREM TypeCorrect == Spec => []TypeOK
<1>1. IInv => TypeOK
    BY DEF IInv
<1> QED
    BY <1>1, Invariance, PTL

\* The pool never runs more comparisons than it has slots: worker.go's
\* semaphore, through every interleaving of dispatch, release and restart.
THEOREM PoolIsBounded == Spec => []BoundedRuns
<1>1. IInv => BoundedRuns
    BY JobServiceAssumption DEF IInv, TypeOK, SemInv, Running, BoundedRuns
<1> QED
    BY <1>1, Invariance, PTL

\* A terminal event is published after the row holds the whole outcome:
\* update() in store.go writes before it publishes.
THEOREM AnnouncedOutcomesAreDurable == Spec => []AnnouncedIsDurable
<1>1. IInv => AnnouncedIsDurable
    BY DEF IInv, RowInv, AnnouncedIsDurable
<1> QED
    BY <1>1, Invariance, PTL

\* A finished job is settled, in memory and in its row: the loops over the
\* steps in run() and restore().
THEOREM FinishedJobsAreSettled == Spec => []Settled
<1>1. IInv => Settled
    BY DEF IInv
<1> QED
    BY <1>1, Invariance, PTL

\* An outcome in a row is the outcome in memory, in this process and after
\* any number of restarts: restore() in sqlite.go.
THEOREM OutcomesSurviveRestarts == Spec => []SurvivesRestart
<1>1. IInv => SurvivesRestart
  <2> SUFFICES ASSUME IInv, NEW j \in Jobs, Up, db[j].status \in Terminal
               PROVE  job[j] = db[j]
      BY DEF SurvivesRestart
  <2>1. pc[j] \in Place /\ pc[j] # "none" /\ pc[j] # "repairing"
      BY DEF IInv, TypeOK, StatusInv, ServerInv, Terminal
  <2> QED
      BY <2>1 DEF IInv, RowInv, Place, AtHandler, InRun
<1> QED
    BY <1>1, Invariance, PTL

\* An unfinished job has somebody to take it further, unless the full queue
\* turned it away or the dispatcher of a stopping process left it behind
\* (worker.go's two selects); such a job is in its row for the next start.
THEOREM UnfinishedJobsAreDriven == Spec => []NoOrphans
<1>1. IInv => NoOrphans
  <2> SUFFICES ASSUME IInv, NEW j \in Jobs
               PROVE  /\ job[j].status \in {"queued", "running"}
                            => Driven(j) \/ TurnedAway(j) \/ Abandoned(j)
                      /\ TurnedAway(j) \/ Abandoned(j) => LeftInRow(j)
      BY DEF NoOrphans
  <2>1. ASSUME job[j].status \in {"queued", "running"}
        PROVE  Driven(j) \/ TurnedAway(j) \/ Abandoned(j)
    <3>1. pc[j] \in Place /\ pc[j] \notin {"none", "repairing", "ended", "leaving"}
        BY <2>1 DEF IInv, TypeOK, StatusInv, Terminal
    <3>2. CASE pc[j] \in {"queued", "held"}
      <4>1. receiving \/ server = "stopping"
          BY <3>2 DEF IInv, TypeOK, ServerInv, Up
      <4>2. /\ pc[j] = "queued" => InQueue(j)
            /\ pc[j] = "held" => held = j
          BY DEF IInv, QueueInv
      <4> QED
          BY <3>2, <4>1, <4>2 DEF Driven, Abandoned, IInv, TypeOK
    <3>3. CASE pc[j] \notin {"queued", "held"}
        BY <3>1, <3>3 DEF Driven, TurnedAway, Place, InRun
    <3> QED
        BY <3>2, <3>3
  <2>2. ASSUME TurnedAway(j) \/ Abandoned(j) PROVE LeftInRow(j)
    <3>1. pc[j] \in {"queued", "held", "rejected"}
        BY <2>2 DEF TurnedAway, Abandoned
    <3>2. job[j].status = "queued" /\ (db[j] = job[j] \/ j \in stale)
        BY <3>1 DEF IInv, StatusInv, RowInv
    <3> QED
        BY <3>2 DEF LeftInRow
  <2> QED
      BY <2>1, <2>2
<1> QED
    BY <1>1, Invariance, PTL

\* No step of a live process changes a job that is over.
THEOREM OutcomesAreFinal == Spec => OutcomeIsFinal
<1>1. ASSUME IInv, [Next]_vars, NEW j \in Jobs, job[j].status \in Terminal, server' # "down"
      PROVE  job'[j] = job[j]
  <2> USE DEF IInv, TypeOK
  <2>1. pc[j] \notin {"none", "starting", "running"}
      BY <1>1 DEF StatusInv, Terminal
  <2>2. ASSUME NEW i \in Jobs, InnerRun(i) PROVE job'[j] = job[j]
    <3>1. CASE Update(i)
        BY <2>1, <3>1, UpdateEffect, <1>1 DEF Mutate
    <3>2. CASE SaveSnapshot(i) \/ Publish(i)
        BY <3>2 DEF SaveSnapshot, Publish, memory
    <3> QED
        BY <2>2, <3>1, <3>2 DEF InnerRun, Update
  <2>3. ASSUME NEW i \in Jobs, OuterStep(i) PROVE job'[j] = job[j]
      BY <1>1, <2>1, <2>3 DEF OuterStep, Insert, PersistNew, RejectFull, Repair, memory
  <2>4. ASSUME NEW i \in Jobs, Enqueue(i) \/ Release(i) PROVE job'[j] = job[j]
      BY <2>4 DEF Enqueue, Release
  <2>5. CASE Receive \/ Acquire \/ DispatcherExit \/ Terminate \/ Serve
      BY <2>5 DEF Receive, Acquire, DispatcherExit, Terminate, Serve, memory
  <2>6. CASE Die
      BY <1>1, <2>6 DEF Die
  <2>7. CASE Restart
      BY <1>1, <2>7 DEF Restart, ServerInv, Terminal
  <2>8. CASE UNCHANGED vars
      BY <2>8 DEF vars
  <2> QED
      BY <1>1, <2>2, <2>3, <2>4, <2>5, <2>6, <2>7, <2>8, NextCases
<1>2. IInv /\ [Next]_vars =>
        [\A j \in Jobs : job[j].status \in Terminal /\ server' # "down" => job'[j] = job[j]]_vars
    BY <1>1
<1> QED
    BY <1>2, Invariance, PTL DEF Spec, OutcomeIsFinal

\* No step changes a row that holds an outcome: an update is never written
\* late, and a repair writes what is there.
THEOREM DurableOutcomesStay == Spec => DurableForever
<1>1. ASSUME IInv, [Next]_vars, NEW j \in Jobs, db[j].status \in Terminal
      PROVE  db'[j] = db[j]
  <2> USE DEF IInv, TypeOK
  <2>1. ASSUME NEW i \in Jobs, PersistNew(i) \/ SaveSnapshot(i) PROVE db'[j] = db[j]
    <3>1. i # j
        BY <1>1, <2>1 DEF PersistNew, SaveSnapshot, RowInv, AtHandler
    <3> QED
        BY <1>1, <2>1, <3>1 DEF PersistNew, SaveSnapshot, WriteRow
  <2>2. ASSUME NEW i \in Jobs, Repair(i) PROVE db'[j] = db[j]
      BY <1>1, <2>2 DEF Repair, WriteRow, RowInv
  <2>3. ASSUME NEW i \in Jobs,
               Insert(i) \/ Update(i) \/ Publish(i) \/ Enqueue(i) \/ RejectFull(i) \/ Release(i)
        PROVE  db'[j] = db[j]
      BY <1>1, <2>3, UpdateEffect DEF Insert, Mutate, Publish, Enqueue, RejectFull, Release
  <2>4. CASE Receive \/ Acquire \/ DispatcherExit \/ Terminate \/ Serve \/ Die \/ Restart
      BY <2>4 DEF Receive, Acquire, DispatcherExit, Terminate, Serve, Die, Restart
  <2>5. CASE UNCHANGED vars
      BY <2>5 DEF vars
  <2> QED
      BY <1>1, <2>1, <2>2, <2>3, <2>4, <2>5, NextCases DEF InnerRun, OuterStep, Update
<1>2. IInv /\ [Next]_vars => [\A j \in Jobs : db[j].status \in Terminal => db'[j] = db[j]]_vars
    BY <1>1
<1> QED
    BY <1>2, Invariance, PTL DEF Spec, DurableForever

-----------------------------------------------------------------------------
(* The service implements the life of a job.                               *)

\* The status a reader sees, as the refinement mapping has it.
Seen == [j \in Jobs |-> IF server = "down" THEN Restored(db[j]).status ELSE job[j].status]
Rows == [j \in Jobs |-> db[j].status]

\* A write of the present record to the row is a Save, or nothing if it fails.
LEMMA WriteSaves ==
    ASSUME IInv, NEW j \in Jobs, WriteRow(j, job[j]), job[j].status # "absent",
           server # "down", UNCHANGED <<server, job>>
    PROVE  Lifecycle!Save(j) \/ UNCHANGED <<Seen, Rows>>
<1>1. Seen' = Seen /\ Seen = [i \in Jobs |-> job[i].status]
    BY DEF Seen
<1>2. CASE db' = [db EXCEPT ![j] = job[j]]
  <2>1. Rows' = [Rows EXCEPT ![j] = Seen[j]]
      BY <1>1, <1>2 DEF Rows, IInv, TypeOK
  <2> QED
      BY <1>1, <2>1 DEF Lifecycle!Save, Seen, Rows
<1>3. CASE db' = db
    BY <1>1, <1>3 DEF Rows
<1> QED
    BY <1>2, <1>3 DEF WriteRow

\* Every step of the service is a step in the life of one job, the end of a
\* process, or of no concern to a job's life.
LEMMA StepRefines == IInv /\ [Next]_vars => [Lifecycle!LifeNext]_<<Seen, Rows>>
<1> SUFFICES ASSUME IInv, [Next]_vars PROVE Lifecycle!LifeNext \/ UNCHANGED <<Seen, Rows>>
    OBVIOUS
<1> USE DEF IInv, TypeOK
<1>1. ASSUME NEW j \in Jobs, Insert(j) PROVE Lifecycle!LifeNext
  <2>1. PICK useAI \in BOOLEAN :
          job' = [job EXCEPT ![j] = [status |-> "queued", useAI |-> useAI,
                                     steps |-> InitialSteps(useAI), report |-> FALSE]]
      BY <1>1 DEF Insert
  <2>2. server # "down" /\ server' # "down" /\ db' = db
      BY <1>1 DEF Insert, Up
  <2>3. job[j].status = "absent" /\ db[j].status = "absent"
      BY <1>1 DEF Insert, StatusInv
  <2>4. Seen[j] = "absent" /\ Rows[j] = "absent" /\ Rows' = Rows
      BY <2>2, <2>3 DEF Seen, Rows
  <2>5. Seen' = [Seen EXCEPT ![j] = "queued"]
      BY <2>1, <2>2 DEF Seen
  <2>6. Lifecycle!Accept(j)
      BY <2>4, <2>5 DEF Lifecycle!Accept, Lifecycle!Move, Seen, Rows
  <2> QED
      BY <2>6 DEF Lifecycle!LifeNext
<1>2. ASSUME NEW j \in Jobs, PersistNew(j) \/ SaveSnapshot(j) \/ Repair(j)
      PROVE  Lifecycle!LifeNext \/ UNCHANGED <<Seen, Rows>>
  <2>1. WriteRow(j, job[j]) /\ server # "down" /\ UNCHANGED <<server, job>>
      BY <1>2 DEF PersistNew, SaveSnapshot, Repair, memory, Up, RowInv
  <2>2. CASE job[j].status # "absent"
      BY <2>1, <2>2, WriteSaves DEF Lifecycle!LifeNext
  <2>3. CASE job[j].status = "absent"
    <3>1. Repair(j) /\ job[j] = Restored(db[j])
        BY <1>2, <2>3 DEF PersistNew, SaveSnapshot, Repair, StatusInv, AtHandler, RowInv, Terminal
    <3>2. db[j].status = "absent"
        BY <2>3, <3>1, RestoredRecord DEF Settled
    <3>3. Rows' = Rows /\ Seen' = Seen
        BY <2>1, <2>3, <3>2 DEF WriteRow, Rows, Seen
    <3> QED
        BY <3>3
  <2> QED
      BY <2>2, <2>3
<1>3. ASSUME NEW j \in Jobs, Update(j) PROVE Lifecycle!LifeNext \/ UNCHANGED <<Seen, Rows>>
  <2>1. PICK r \in JobRecord : Mutate(j, r) /\ r.status \in {"running"} \cup Terminal
      BY <1>3, UpdateEffect
  <2>2. server # "down" /\ server' # "down" /\ db' = db /\ pc[j] \in {"starting", "running"}
      BY <1>3, <2>1, UpdateEffect DEF Mutate, Up
  <2>3. Seen' = [Seen EXCEPT ![j] = r.status] /\ Rows' = Rows /\ Seen[j] = job[j].status
      BY <2>1, <2>2 DEF Mutate, Seen, Rows
  <2>4. CASE pc[j] = "starting"
    <3>1. r.status = "running" /\ job[j].status = "queued"
        BY <1>3, <2>1, <2>4 DEF Update, StartRun, Mutate, Progress, NodeStart, NodeEnd, FinishRun,
                                FailRun, StatusInv, JobRecord
    <3>2. Lifecycle!Begin(j)
        BY <2>3, <3>1 DEF Lifecycle!Begin, Lifecycle!Move, Seen, Rows
    <3> QED
        BY <3>2 DEF Lifecycle!LifeNext
  <2>5. CASE pc[j] = "running"
    <3>1. Seen[j] = "running"
        BY <2>3, <2>5 DEF StatusInv
    <3>2. CASE r.status = "running"
        BY ZenonT(40), <2>3, <3>1, <3>2 DEF Seen
    <3>3. CASE r.status \in Terminal
      <4>1. Lifecycle!Complete(j)
          BY <2>3, <3>1, <3>3
          DEF Lifecycle!Complete, Lifecycle!Move, Lifecycle!Finished, Terminal, Seen, Rows
      <4> QED
          BY <4>1 DEF Lifecycle!LifeNext
    <3> QED
        BY <2>1, <3>2, <3>3
  <2> QED
      BY <2>2, <2>4, <2>5
<1>4. ASSUME NEW j \in Jobs, Publish(j) \/ Enqueue(j) \/ RejectFull(j) \/ Release(j)
      PROVE  UNCHANGED <<Seen, Rows>>
    BY <1>4 DEF Publish, Enqueue, RejectFull, Release, memory, Seen, Rows
<1>5. CASE Receive \/ Acquire \/ DispatcherExit
    BY <1>5 DEF Receive, Acquire, DispatcherExit, Seen, Rows
<1>6. CASE Terminate \/ Serve
    BY <1>6 DEF Terminate, Serve, memory, Seen, Rows
<1>7. CASE Die
  <2>1. Rows' = Rows
      BY <1>7 DEF Die, Rows
  <2>2. Seen' = [j \in Jobs |-> Lifecycle!Recovered(Rows[j])]
      BY <1>7 DEF Die, Seen, Rows, Lifecycle!Recovered, Restored, Failed, JobRecord
  <2>3. Lifecycle!Interrupt
      BY <2>1, <2>2 DEF Lifecycle!Interrupt, Seen, Rows
  <2> QED
      BY <2>3 DEF Lifecycle!LifeNext
<1>8. CASE Restart
    BY <1>8 DEF Restart, Seen, Rows
<1>9. CASE UNCHANGED vars
    BY <1>9 DEF vars, Seen, Rows
<1> QED
    BY <1>1, <1>2, <1>3, <1>4, <1>5, <1>6, <1>7, <1>8, <1>9, NextCases
    DEF InnerRun, OuterStep, Update

\* The queue, the pool, the three-step update and the restarts implement the
\* life cycle a reader of the store relies on.
THEOREM ServiceRefinesLifecycle == Spec => ImplementsLifecycle
<1>1. Init => Lifecycle!LifeInit
    BY DEF Init, Lifecycle!LifeInit, Absent
<1>2. IInv /\ [Next]_vars => [Lifecycle!LifeNext]_Lifecycle!lifeVars
    BY StepRefines DEF Lifecycle!lifeVars, Seen, Rows
<1> QED
    BY <1>1, <1>2, Invariance, PTL DEF Spec, ImplementsLifecycle, Lifecycle!LifeSpec
=============================================================================
