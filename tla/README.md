# A verification project for diff-checker

diff-checker compares two versions of a contract. A web server takes two
uploads, runs a pipeline of deterministic rules and model calls over them, shows
its progress live, and keeps the resulting report in SQLite; a command line does
the same without a server. The modules in this directory model how the system
schedules, stores, announces and recovers comparisons, and what a comparison
makes of two documents. They are translated from the Go and JavaScript sources
under `src/`, checked with TLC, and proved with TLAPS.

## 1. Inventory

| Part | State | Operations | Interacts with | What makes it correct |
|---|---|---|---|---|
| Job store (`jobs/store.go`) | map of jobs, subscribers, trace buffers, one lock | `Create`, `Get`, `List`, `update`, `Recorder`, `Trace` | worker, handlers, SQLite, event stream | an outcome is final, settled, durable before it is announced |
| Worker (`jobs/worker.go`) | queue of 64, semaphore, dispatcher, run goroutines | `Enqueue`, `Start`, `run`, `applyProgress` | store, pipeline, process context | bounded runs, every admitted job ends, nobody is forgotten |
| SQLite (`jobs/sqlite.go`) | rows of jobs and of trace lines | `persist`, `restore`, `AppendTrace`, `LoadTrace` | store | restarts keep outcomes and fail what was interrupted |
| Process (`cmd/server/main.go`) | context, listener | start, SIGTERM, exit | all of the above | nothing durable is undone by the end of the process |
| Event stream (`jobs/events.go`) | buffered channel per connection | `Subscribe`, `publish`, `publishTrace`, cancel | run goroutine, nodes, SSE handler | a page ends up with the truth, and hears of the end |
| HTTP (`httpx/server.go`) | none of its own | upload, SSE, pages, export | store, worker | an upload is either driven or refused |
| Progress page (`httpx/static/sse.js`) | checklist, lines, connection | apply, close, reconnect | SSE handler | never goes back, closes once |
| Trace recorder (`trace/trace.go`) | lines, open line per node | `Note`, `Stream`, `EndStream`, `Entries`, `Load` | nodes, store | lines keep their order and their text |
| Pipeline (`agentic/graph.go`, `nodes.go`, `state.go`) | graph state, sink, event channel | nodes, routing, `drain` | worker, model client, rules, report | a report or an error, never half a report |
| Model client (`agentic/llm.go`, `toolloop.go`, `usage.go`) | attempts, budget, tool rounds, usage | `complete`, structured calls, tool loop | provider, trace | bounded spending, an answer or an error |
| Grounding (`ground/ground.go`) | none | `Actions`, `Findings` | pipeline | nothing that is not in the document is shown |
| Document model (`docmodel`) | markers, nodes, citations, findings | parse, render, settle, name, resolve, sort | structure builder, rules | a marker is read as it was written |
| Structure builder (`structure`) | stack of open nodes, learned headings | `Build`, fix-up passes | ingest, rules | a tree in document order, a name for each node |
| Numbering rules (`rules/numbering.go`, `renumber.go`) | findings, plan of new markers | validate, plan, verify | pipeline, report | a plan that is applied leaves a correct sequence |
| References, parallel text (`rules/refintegrity.go`, `parallel.go`) | findings, relocations | checks | pipeline, report | broken citations are found, and sent to the right place |
| Text diff (`textdiff`) | runs, changes | `Compare` | pipeline, report | the changes are the whole difference, each once |
| Report (`report`) | findings, view | `Build`, `BuildView`, `ExitCode` | pipeline, HTTP, CLI | each finding is shown once, where it belongs |
| Ingest (`ingest`) | token machine of the DOCX reader | `Parse` | pipeline | paragraphs in order, none lost |
| CLI (`cmd/diffctl`) | none | a sequential driver | pipeline | its exit code is a gate |

What is hard: the store's lock covers only part of an update; the dispatcher,
the runs and the handlers interleave and share a context that may be cancelled
at any time; the process may die between any two writes; events are sent to
bounded channels and dropped when those are full; pages connect, disconnect and
reconnect at every moment. Within a run two ingests work in parallel, the
executor and `drain()` share a channel and a context that may end, and three
retry loops nest in one another. In the document half, facts are computed twice
or early and used late: a list is settled after its members were attached and
named, a plan is written into the shared tree and taken out again, and the
findings of two independent passes meet in indexes that the edits have moved.
`PROJECT.json` lists these hazards at their lines.

## 2. Modules

| Module | Models |
|---|---|
| `JobLifecycle` | the abstract promise: a job's status, its row, and what a restart makes of them |
| `JobService` | upload handler, store, queue, dispatcher, pool, rows, process |
| `EventStream` | subscribers, channels, the SSE handler and the page for one job |
| `RunProgress` | the abstract promise of a run to its caller: the order of the progress events |
| `Pipeline` | the graph, its nodes and their answers, the sink, the event channel, `Run()` and `drain()` |
| `TraceBuffer` | the recorder of a job, the traces table, the events of its lines |
| `ModelCall` | one structured answer: attempts, pauses, tool rounds, a cut off reply, the tokens booked |
| `Citations` | names of nodes, citations and how they resolve |
| `Markers` | markers: tokens, their readings, how a list is settled, how a number is written |
| `StructureTree` | the builder: stack, learned headings, the passes that settle, name and close |
| `Numbering` | validator, plan, self-check and parallel runs, on the tree of `StructureTree` |
| `TextDiff` | two versions and the comparison of their texts |
| `References` | citations across two versions, relocations, the assembly and order of findings, the exit code |
| `ReportView` | how the findings meet the changes on the report's page |
| `JobServiceProofs`, `EventStreamProofs`, `PipelineProofs`, `TraceBufferProofs`, `ModelCallProofs`, `StructureTreeProofs`, `NumberingProofs`, `ReportProofs` | theorems about the modules they are named after, and `ReportProofs` about all three of `TextDiff`, `References` and `ReportView` |
| `MCJobService`, `MCEventStream`, `MCPipeline`, `MCTraceBuffer`, `MCModelCall`, `MCNumbering`, `MCReview` | small instances, with symmetry sets and alphabets |

How they fit together. `JobService` runs jobs whose pipeline is the progress
`RunProgress` allows: the guards of its `NodeStart` and `NodeEnd` are those of
`Started` and `Ended`. `Pipeline` is shown to implement `RunProgress`, and its
`ResultIsWhole` is the guard of `FinishRun`. Its nodes fail as `ModelCall` does,
after a bounded number of requests. The lines the nodes record are those of
`TraceBuffer`, and how a line reaches a page is `EventStream`.

What the deterministic node of `Pipeline` computes is the document half. It is
two stacks of modules: `Markers` and `Citations` under `StructureTree` under
`Numbering` (one document, from its lines to the actions of the report), and
`Citations` under `TextDiff` under `References` under `ReportView` (two versions,
from the edits of the author to the page of the report).

### JobService

`job` is `Store.jobs`, `db` the table, `queue` and `sem` the worker's two
channels, `held` the identifier between the two `select`s of the dispatcher,
`receiving` whether the dispatcher has not returned yet, and
`pc[j]` the place of the one thread that drives job `j`: the upload handler, then
the dispatcher, then the job's own run goroutine. `update()` is three actions,
because the lock covers only the first: the change itself (`StartRun`,
`NodeStart`, `NodeEnd`, `FinishRun`, `FailRun`), `SaveSnapshot` and `Publish`.
`WriteRow` is `persist()`, whose error is logged and otherwise ignored. `Die` is a
crash or the end of `main()` and leaves only the rows; `DispatcherExit` is the return
of the dispatcher once the context has ended, which uploads do not notice: they go
on entering the queue until the process is gone; `Restart`, `Repair` and
`Serve` are `restore()`'s two passes and the start of the worker.

A job is reduced to what the service decides on: status, AI flag, checklist, and
whether it has a report. The pipeline inside a run is any sequence of progress
events its graph can make: a node starts once, the final node only when none that
started is unfinished, and an error may come at any point. A run that returned a
report may lack the event of its final node, which an ended context can swallow.
Names, paths, times and costs are left out. `PaidNodes` are the nodes
`isPaidNode()` names, `GatedNodes` those the conditional edge can go around.

`JobLifecycle` is implemented under the mapping `status` := the status in memory,
or what a restart would make of the row when the process is down; `saved` := the
status in the row.

### EventStream

One job is its version, the number of updates made; the last one is terminal.
A reasoning line is its length, since every event carries the whole line. `chan`
holds what a connection has not read yet and `Fanout` drops what does not fit.
`Subscribe()` is three actions (`Connect` with its snapshot, `ReadBacklog`,
`Register`), as its three critical sections are. `SendSnapshot`, `SendBacklog` and
`Forward` are `handleEvents()`, applied to the page as `sse.js` does: a failed
status closes the stream at once, a finished one only with the terminal event.
`Break` is a connection that breaks; the page then connects again. A run that is
cut off by its context (`outcome = "cutoff"`) leaves a node behind that may still
record. `raced`, `lossy` and `gapped` are history: who registered late, lost an
event, or missed a line between backlog and registration.

### Pipeline

`status` is where the executor has each node, `events` its channel, `sink` what
`Sink` holds, `told` what `drain()` has passed on, and `triage`, `analysis` and
`recs` the graph state between the nodes. The executor is not part of the
repository; the header of the module says what is assumed of it. A change is a
number, an analysis or a recommendation a set of entries for such numbers and for
one that no change has, an edit is `located` or `fabricated`. Every model answers
anything of that shape, or an error. `asked` is history: what each paid node has
shown to a model. Wording, severities other than harmless or not, and confidence
are left out, and so are the verified findings, which no node after the
deterministic one touches.

`RunProgress` is implemented with `told` as it is.

### TraceBuffer

`entries` and `open` are the fields of `Buffer`, a line being its length in
chunks. Each writer is a node in a goroutine of its own. A critical section is an
action: `Note()` is two of them (`Note`, `NoteEntry`), `Stream()` is `StreamOpen`
or `StreamExtend`. Each leaves a copy in `emitting`, which `AppendTrace` stores
and `PublishTrace` sends afterwards, outside the lock. `sent` and `missed` are
history. `Load()` has no caller and is left out.

### ModelCall

`phase`, `round`, `attempt` and `room` are the positions of the nested loops of
`completeJSONWithTools()`, `completeStructured()`, `complete()` and
`completeRaw()`; `stage` is the present request. `Fail` covers errors, timeouts and
empty replies, `Lookup` a reply in a tool round, whose tools cannot fail the node,
and `Answer` a reply that is usable, malformed or cut off. `booked` counts the
reports of usage that reached `Usage`, the other counters are history.

### Markers, Citations, StructureTree and Numbering

A line arrives as the patterns of `headings.go` and `marker.go` have split it:
blank, a named heading, a heading in a word the patterns do not know, a marker
with its delimiters, a caption, or body text. A token is a number, a decimal, or
letters by their positions in the alphabet, since "c" is both the third letter
and the numeral 100; `parseAlpha`, `formatAlpha`, `parseRoman` and `formatRoman`
are the functions of these names, and `classifyToken` keeps both readings. The
two parsers are recursive functions over sequences, as their loops go over the
characters. A list is a function from its nodes to their markers, since settling it
asks only what its members read and in which order they stand. What the patterns
and `classifyToken()` take as a marker is `FitsThePattern`: numbers of up to three
digits, up to two letters, numerals of up to four.

`StructureTree` reads the lines, then builds line by line as `Build()` does, with
one action per kind of line. `nodes` is the tree in document order, `stack` the
open nodes, `owner` what `Build()` notes as the innermost node of each paragraph.
Its fix-up passes follow: `resolveSiblingMarkers` settles each list by its first
unambiguous member or by counting; `ReassignID` names one node after the other
again, up to `IDsReassigned`, as the loop of `reassignIDs()` does; `CloseBefore` and
`CloseAll` are the loop of `closeRanges()`.

`Numbering` goes on with that tree: `Validate`, `PlanRenumbering`, the three steps
of `Verify()` (write the plan into the tree, validate, put the tree back),
`AttachPlanned` of `report/assemble.go`, and `CheckParallelSequences`. A numbered
sequence is the set of its nodes. Thresholds are constants, smaller than in the
code, so that short documents cross them.

### TextDiff, References and ReportView

A document is a sequence of paragraphs: blank, a Pasal heading, an ayat, or body
text with the citations in it. `Revise` is an edit of the author (a paragraph is
inserted, deleted, replaced, repunctuated or moved). The diff library is external:
`Matchings` are the common start, the common end, and between them any ordered
matching with at most `Slack` pairs fewer than the best one. `DiffCleanupMerge()` of
the library may shift an edit over a common start that the edit repeats as a whole,
which no document of the instances does; the proofs use of a matching only that it
pairs equal paragraphs in order. `Compare()` is read
loop by loop: the three cases over the diffs, the pairing of deletions with
insertions, and the drop of blank changes. The list of diffs is not kept beside the
matching it is made of: `NextEqual` is the next matched pair, what lies before it is
the next deletion or insertion, and equal paragraphs are passed one by one, of
which the code passes several at once. `References` is
`CompareReferences()`: one action for each way the loop over the citations goes,
then `reportRemovedArticles()` and `SortFindings()`; `AddNumberingFinding` puts in
one major finding for any node, with or without an action. The rules may have
several, some of them minor (`numbering.go:167`, `219`); no property here depends on
their number, as the view files each finding by itself and the exit code asks only
for what is serious. A text is its set of words,
so that `similarity()` is what it is in the code. `ReportView` is `BuildView()` with
its indexes by paragraph, node and article.

In these modules the builder is sequential: their runs enumerate inputs, and the
interleavings are those of choices (lines, edits, alignments), not of threads.

Definitions whose comment begins with "Mutant" are deliberate faults. They belong
to no specification; each shows that a property notices the fault.

## 3. Runs

| Run | Instance | What it shows |
|---|---|---|
| `job` | 2 uploads, queue of 1, pool of 1, 1 restart, 1 failed row write, 2 nodes | the inductive invariant; an announced outcome is in its row; outcomes and durable outcomes stay; only a full queue, and the dispatcher of a process that was told to stop, leave a job behind, and they leave its row; the life of a job; an admitted job ends or its process does |
| `job_orphan` (violation) | 2 uploads, queue of 1, no faults, 1 node | a job refused by a full queue stays queued |
| `stream` | 1 page, 2 updates, channel of 2, 2 lines of 2 chunks, 2 broken connections | only the two known gaps lose the end or a line; a page that has nothing left to read shows what the store holds; no page goes back; a late page is told of the end |
| `stream_race` (violation) | channel of 8, one line, no break | a page that connects while the job ends is never told |
| `pipeline` | 3 changes, 2 of them shown, channel of 1, answers of up to 2 entries | what a report is made of; no paid node runs that was not asked for; the report matches the analysis; the contract of progress; every run ends |
| `pipeline_hallucinated` (violation) | 1 change | a substantive verdict on unknown changes goes past the analysis |
| `trace` | 2 writers, 3 lines of up to 2 chunks, 1 failed row write, with symmetry | a stream is unbroken, rows follow the record, what is sent is recorded and only grows |
| `call` | 3 attempts, 5 tool rounds: the code's numbers | requests are bounded, a call gives up late and not early, books what was billed, and returns |
| `document` | every document of up to 4 lines (5 in the bilingual style) in 4 styles | owners are innermost, names are unique and none is stale, a plan is a fix and can be read, the self-check leaves the tree as written, an orderly list counts, silence of the self-check is earned |
| `document_selfcheck` (violation) | the same | the self-check objects to a right plan |
| `review` | 3 agreements, any 2 edits, any alignment within 2 of the best | the changes partition the revision, a vanished article is a change, the exit code is earned, a repointed citation leads to its text, findings are filed once |
| `review_moved` (violation) | 1 edit, best alignments | a moved clause becomes a rewrite in place |

### Why the bounds are enough

Contention needs two parties and a resource of capacity one: `job` has two
uploads for one place in the queue and one in the pool, and a restart that meets
each of their states. A failed write and a restart are one each, because every
property but `NoOrphans` speaks of a single job, and a second fault finds that job
in a state that the first could have found it in. In `stream` a channel of two is
full after two events, and there are more than two of them; the real capacity of
8 only makes that rarer. One page is enough since pages do not interact, which
the proof confirms by treating one connection at a time. `stream_race` has room
for all events, so that it is the order and not the capacity that loses the end.
In `pipeline` three changes are one more than a model may be shown, with the
fourth identifier that belongs to none; every cut of changes into cosmetic,
offered, chosen, analysed and unknown is there. `trace` has two lines open at
once and a note that closes one of them. `call` is not scaled.

A list, a nested list, an ambiguous letter, a duplicate, a gap, a list resumed
after body text and a heading within a list all need at most four lines; two
parallel runs, one of them in a learned word, need five. `MinKeywordHits` and
`MinParallelRun` are 2 where the code has 3, which moves the threshold and not what
happens at it. Two edits make a move with a deletion, a renumbering with a change
of the text, and a replacement next to an insertion; each of the three
agreements holds a different kind of citation (of an article from another one,
of an ayat from within and from outside its article, one in English). `Slack` = 2 lets the diff
library be wrong by two pairs, since it is a heuristic with a deadline.

### Fairness

Only what the Go scheduler, a timeout or the browser brings about is assumed.
`JobService`: each thread goes on (the upload handler, the dispatcher, the
updates of a run), a run ends since `jobTimeout` ends its context, and a process
that stops exits, as `Shutdown()` has 15 seconds. `EventStream`: the run, the
publisher and the handlers go on, and an `EventSource` connects again by itself.
`Pipeline`: a node that may begin begins and one that began returns, as each model call has a
timeout; the executor and `drain()` go on, and `Run()` cancels its context when it
returns. `ModelCall`: the loop goes on, as `callTimeout` ends an attempt. It is
weak fairness throughout. Uploads, signals, crashes, restarts, updates of the
reasoning, broken connections and failed writes are never forced. `document`,
`review` and `trace` have no liveness and assume no fairness: the first two follow
sequential code with bounded loops. Deadlock is not checked in any run, since
each system here comes to a proper end.

### Disagreements between the code and its words

Five have a run and are listed as findings in `PROJECT.json`: the orphan of a full
queue (`server.go:114`), the race of `Subscribe()` (`events.go:65`), the
hallucinated verdict (`nodes.go:203`), the self-check (`renumber.go:220`) and the
moved clause (`diff.go:69`). These were met without a run of their own:

Server:
- Without AI the paid nodes are to be shown as skipped (`store.go:177`), but
  `applyProgress()` overwrites the step (`worker.go:158`), and triage is shown as done.
- A line between backlog and registration is lost to a page, though it is said to
  continue from the next entry (`events.go:69`, history variable `gapped`). A
  dropped frame is said to leave nothing permanently wrong (`events.go:23`), but a full channel drops the
  last event of a line or of the job, too (`lossy`).
- Trace buffers are added to `Store.traces` and never removed (`store.go:133`),
  although `store.go:91` describes those of running jobs.
- A page of a failed job that is opened again shows no record (`server.go:212`,
  `sse.js:85`).

Model calls:
- What a failed answer has cost is not booked, while the tool rounds book it;
  `BookedIsBilled` is an inequality for that reason. The cap on costs that `usage.go:79`
  speaks of is not there, nor is the fourth check that `ground.go:71` announces.
- The reasoning of a failed attempt stays open, and the next attempt continues
  the line (`llm.go:161`).
- A triage that was shown a part of the changes speaks for all of them
  (`nodes.go:337`).

Documents:
- A numbered list before the first Pasal makes the Pasal its child (`markerLevel`
  against `numbering.go:33`). A nested list of numerals under letters with the same
  delimiter is flattened.
- `FormatOrdinal()` is said to be the inverse of parsing (`marker.go:328`), but the
  patterns end at four letters (`marker.go:113`): the eighteenth member of a list of
  numerals is renumbered to "xviii", which is not read as a marker
  (`EighteenIsNotReadBack`). This came out of a proof: without
  `FitsThePattern` `PlanIsReadable` held in every run and could not be proved.
- Members that are alone in their list are renumbered by the plan, though the
  validator is silent on them (`renumber.go:83`). Rendering a decimal drops its
  prefix.
- Headings that were shuffled are not learned, though a broken order is not to be
  papered over (`discover.go:107`), and so the validator never sees them.

Comparison:
- `repointAction` is wrong for citations below an article and for relative ones
  (`refintegrity.go:192`). A relative citation in a renumbered article is compared
  with another article of the old version. A citation that silently resolves to
  another article is not reported (`refintegrity.go:151`).
- Findings with an action on a paragraph that was not edited end among the
  warnings, of which `view.go:47` says that they carry none.
- `trimHighlightEdges` drops white space that its comment moves
  (`words.go:134`). Blank lines that move can show as cosmetic rewrites.

## 4. Proofs

A theorem holds for every value of the constants under the `ASSUME` of its
module, all of which restrict constants only (finite sets, positive capacities,
which nodes are paid or final). Every proof is a chain `Init => IInv`,
`IInv /\ [Next]_vars => IInv'` with one step per action, and consequences.

- `JobServiceProofs`. `OutcomeIsFinal` and `AnnouncedIsDurable` are not inductive: whether
  the outcome is announced before its row depends on which thread holds the
  job and what it is about to do. `IInv` therefore ties each job's status to its
  thread (`StatusInv`), the queue and the semaphore to the set of threads
  (`QueueInv`, `SemInv`), the row to the next write (`RowInv`), and the process to
  what may run at all (`ServerInv`). From it: bounded pool, durability, settled
  checklists, survival of restarts, and the refinement of `JobLifecycle` (its
  safety), step by step. `UnfinishedJobsAreDriven` says who takes an unfinished job
  further: its handler, its run, or a dispatcher that still receives. There are two
  exceptions, an upload that a full queue turned away and the jobs that a
  dispatcher leaves in its hands and in the queue when the context has ended;
  `ServerInv` has it that a process that serves has a dispatcher, and `RowInv` that the
  row of a job with nobody is queued, so that the next start finds it.
- `EventStreamProofs`. What a page will show is what it shows now, changed by the
  events in its channel. `BInv` says that these lie in order between the page and
  the store (`JobsFollow`, `LinesFollow`), that an event still to come is in the
  channel, in the outbox or about to be published (`EndIsDue`, `LinesAreDue`), and
  what a connection in each of its stages owns. `OutboxIsCurrent` says the same of
  the line on its way. `Untouched` and `OneByOne` reduce each step to one
  connection.
- `PipelineProofs`. `GraphInv` relates how far the nodes are to what they left
  behind (`RouteFollowed`, `AnswersFollow`, `SinkFollows`), `TellingInv` what `drain()`
  has told, or has in its channel, to how far the nodes are (`ToldIsTrue`,
  `QueueIsTrue`, `QueueIsOrdered`, `NothingIsLost`), and `OutcomeFollows` the result to
  both. That no more than `MaxAdvisory` changes are shown, unless it is 0 and means no
  cap (`nodes.go:382`), is a pigeonhole argument.
  `ProgressIsImplemented` is the refinement of `RunProgress`.
- `TraceBufferProofs`. To its checked invariants are added that a copy on its way
  is not ahead of the record, that a `Note()` between its two halves has closed the
  line, and that what was sent is recorded.
- `ModelCallProofs`. `PositionInv` bounds the requests made by the position in the
  nested loops; its lemmas are about products of the two constants. `ContextInv`,
  `BookingInv` and `FailureInv` do the same for the context, the tokens, and the
  failures.

- `StructureTreeProofs`. That the owner of a paragraph is the innermost node that
  covers it relates two computations of the code, the stack of `Build()` and the
  ranges of `closeRanges()`. `TreeInv` therefore says that the stack is a path of the
  tree which ends in its last node, that nodes are in document order and levels
  grow along a path, and, while ranges are closed, that the nodes still open ascend
  and the closed ones end before the next node of their level. For the names it says
  what `ReassignID` has named so far; `NamesGrow` adds that one more name leaves the
  others as they were, so that a name is current whenever its parent was named
  before it (`ParentsAreEarlier`). The proof needs least elements and an induction
  over numbers, which are obtained from the well-foundedness of inclusion among
  finite sets (`LeastElement`, `Induction`).

  The second half is about lists (`OrderlyListsAlwaysCount`): when the members of a
  list are the letters, or the numerals, of 1, 2, 3, ..., they count 1, 2, 3, ... once
  the list is settled, however ambiguous each of them is. It needs what `formatAlpha`, `parseAlpha`, `formatRoman` and
  `parseRoman` compute for every number, and these are recursive functions. The library's
  theorems on recursive definitions take an operator, so `Recursion` shows anew that a
  function defined along a well-founded descent exists and solves its equation; the
  round trips `AlphaRoundTrip` and `RomanRoundTrip` follow by `StrongInduction`.
  `LettersOfOrdinals` bounds the letters that a pattern takes. `ScoreFacts` counts
  what `scoreSequence` counts, and `NumeralsSettle` and `LettersSettle` say that
  the first member with one reading, or failing it the score, decides for the symbols in
  which the list was written.
- `NumberingProofs`. `TreeSaysWhatIsWritten` is not inductive, since `VerifyApply`
  breaks it and only `VerifyRestore` mends it: `Written` says what the tree would be
  once `saved` is put back. `PlanMade` and `Applied` say that the plan counts every
  sequence it touches from one, and that the tree holds its readings while it is
  tried; `Silence` keeps what the second validation saw. The lemmas are that the
  sequences of a document do not share nodes (`SequencesAreApart`), and that the
  validator is silent on a sequence exactly when it counts from one
  (`CountingIsAccepted`, `AcceptedIsCounting`), so that one sequence's repair cannot
  spoil another's. `NumberingInv` was checked by TLC on the instance of `document`
  before it was proved. Nothing is assumed of the thresholds but that they are
  numbers, and nothing of the document.

  `NamesAlwaysFollowTheTree` takes the names through the self-check in the same way:
  `NamedAsWritten` speaks of the numbers that were read, which the plan changes
  while it is tried and `VerifyRestore` brings back.

  `MarkersAreAlwaysLegible` joins the lists of `StructureTreeProofs` with the plan. What
  the plan writes is read back as it was meant (`FormatOrdinalIsReadBack`), in the
  delimiters of the list; for this `Legible` is carried beside `NumberingInv`:
  a marker that is no decimal has the delimiters of its paragraph (`Delimited`), which the
  trial and the restoring of the plan could disturb. The hypothesis `FitsThePattern` is
  needed, as `EighteenIsNotReadBack` shows.
- `ReportProofs`. The properties relate the two ends of a long computation, so
  `ReportInv` carries facts through each of its stages. `Documents` and `Alignment`: the
  versions are documents that begin with an article, and `pi` and `ci` pass a matched
  pair together. `Apart` and `Passed`: runs and changes share no paragraph, and what was
  passed is matched, or taken by a run or a change, and not both (blank paragraphs may
  be dropped in the end); this is why pairing runs and dropping changes lose nothing.
  `Reasons`: every finding is a numbering finding, or has a citation or a vanished
  article as its reason, with the very relocation that `findRelocation()` returns,
  since the cache holds nothing else. `Complete`: every lost citation and vanished
  article has its finding, or is still to be checked. `Filing`: the first `n` findings
  are shown once each, and where `placeOf` says. The lemmas are about the operators:
  names are unique and lead back to their node (`NamesFacts`), sorting and arranging
  lose nothing (`ArrangedFacts`, `SortFindingsFacts`), a best relocation exists although
  similarities are compared as fractions (`BestExists`), every matching of the diff
  library is in order (`MatchingsFacts`). TLC checked `ReportInv` on the instance of
  `review` with one edit before it was proved. The assumptions are that drafts are
  sequences of paragraphs that begin with the heading of an article, that a text has
  finitely many words, and that a relative citation names an ayat.

Every safety property and every action property of the passing runs is a theorem.
Only model-checked are the liveness properties (`AdmittedFinishes`,
`LateComerIsTold`, `RunEnds`, `CallReturns`): the prover has no rule for fairness.

## 5. Not modelled

- Receiving uploads and their temporary files, rendering of pages, export and the
  debug page (`httpx`): they change nothing that is modelled.
- Prompts, schemas, the tools' lookups (`agentic/tools`), the rates and the
  registry of models: text and tables. What the tool loop does around them is in
  `ModelCall`.
- The regular expressions that tell a heading, a marker or a citation from text:
  a line arrives as they have split it. Whether a quoted text is in a paragraph (`ground.go`)
  is an input of `Pipeline` as well.
- The highlighting of words within a change (`textdiff/words.go`), and the
  rendering of reports as JSON or text: presentation.
- Ingest: the DOCX reader is a sequential machine over the tokens of an XML
  decoder, the PDF reader a call of a library. Their result, a list of paragraphs,
  is what the runs of the document half enumerate.
- The command line: a sequential driver of the pipeline, whose exit code is in
  `References`.
