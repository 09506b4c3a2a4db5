------------------------------ MODULE Pipeline ------------------------------
(***************************************************************************)
(* One run of the comparison pipeline: the graph of nodes with its two     *)
(* parallel ingests, its join and its conditional edge, the state the      *)
(* nodes hand to each other, the sink the report leaves through, the       *)
(* event channel, and Run(), which drains that channel and decides what    *)
(* the run came to.                                                        *)
(*                                                                         *)
(* The executor is a library.  What is assumed of it: it starts a node     *)
(* when the nodes its edge leaves from are done, it starts none after an   *)
(* error or once its context has ended, it sends an event when a node      *)
(* starts and one when it ends, blocking while the channel is full, unless *)
(* the context has ended, when an event may be lost, and it closes the     *)
(* channel when no node runs.  A model is its answers: any, or an error.   *)
(* The entry node does no work and is left out.                            *)
(***************************************************************************)
EXTENDS Integers, Sequences, FiniteSets

CONSTANTS
    NumChanges,   \* the text changes the deterministic node finds
    MaxAdvisory,  \* Options.MaxAdvisory: how many of them a model is shown; 0 is no cap
    EventCap,     \* capacity of the event channel
    MaxAnswers    \* bound: entries in an analysis or a recommendation

ASSUME PipelineAssumption ==
    /\ NumChanges \in Nat
    /\ MaxAdvisory \in Nat
    /\ EventCap \in Nat \ {0}
    /\ MaxAnswers \in Nat

VARIABLES
    noLLM,     \* Options.NoLLM
    cosmetic,  \* the changes the deterministic node has marked as cosmetic
    status,    \* "waiting", "running", "done" or "failed", for every node
    triage,    \* the verdict in the graph state
    analysis,  \* the classified changes in the graph state
    recs,      \* the recommendations in the graph state
    asked,     \* asked[n]: the changes a model was shown by node n
    sink,      \* the report that has left the graph
    events,    \* the event channel
    closed,    \* the channel is closed
    ctx,       \* "live" or "ended": timed out, cancelled, or given up by run()
    told,      \* what Run() has told its caller, node by node
    result     \* what Run() returned: "none" while it runs, "report" or "error"

answers == <<triage, analysis, recs, asked>>
stream == <<events, closed>>
caller == <<ctx, told, result>>
vars == <<noLLM, cosmetic, status, answers, sink, stream, caller>>

Ingests == {"ingest_prev", "ingest_curr"}
PaidNodes == {"triage", "analyze", "recommend"}
OrderedNodes == Ingests \cup {"deterministic", "assemble"} \cup PaidNodes

Changes == 1..NumChanges
Ghost == 0  \* an identifier no change has
Named == Changes \cup {Ghost}

Classified == [change : Named, kind : {"harmless", "risky", "unknown"}]
Advised == [change : Named, edit : {"none", "located", "fabricated"}]
Answers(S) == {A \in SUBSET S : Cardinality(A) <= MaxAnswers}

\* An advisory finding: a risk with its recommendation, or a classification.
Finding == [source : {"risk", "change"}, change : Named, edit : {"none", "offered", "withdrawn"}]
NoVerdict == [given |-> FALSE, substantive |-> FALSE, ids |-> {}]
NoReport == [given |-> FALSE, findings |-> {}, harmless |-> FALSE]

Init ==
    /\ noLLM \in BOOLEAN
    /\ cosmetic \in SUBSET Changes
    /\ status = [n \in OrderedNodes |-> "waiting"]
    /\ triage = NoVerdict /\ analysis = {} /\ recs = {}
    /\ asked = [n \in PaidNodes |-> {}]
    /\ sink = NoReport
    /\ events = <<>> /\ closed = FALSE
    /\ ctx = "live"
    /\ told = [n \in OrderedNodes |-> "none"]
    /\ result = "none"

-----------------------------------------------------------------------------
(* The graph.                                                              *)

\* routeAfterTriage(): past the expensive nodes, unless there is something
\* for them to look at.
RoutesPast == noLLM \/ ~triage.substantive \/ triage.ids = {}

AllDone(S) == \A n \in S : status[n] = "done"

\* Mutant: two plain edges instead of the join, so the first ingest releases it.
ReadyAfterOne(n) ==
    CASE n \in Ingests -> TRUE
      [] n = "deterministic" -> \E i \in Ingests : status[i] = "done"
      [] n = "triage" -> AllDone({"deterministic"})
      [] n = "analyze" -> AllDone({"triage"}) /\ ~RoutesPast
      [] n = "recommend" -> AllDone({"analyze"})
      [] n = "assemble" -> \/ AllDone({"triage"}) /\ RoutesPast
                           \/ AllDone({"recommend"})

\* The edges of build().
Ready(n) ==
    CASE n \in Ingests -> TRUE
      [] n = "deterministic" -> AllDone(Ingests)
      [] n = "triage" -> AllDone({"deterministic"})
      [] n = "analyze" -> AllDone({"triage"}) /\ ~RoutesPast
      [] n = "recommend" -> AllDone({"analyze"})
      [] n = "assemble" -> \/ AllDone({"triage"}) /\ RoutesPast
                           \/ AllDone({"recommend"})

Emit(n, phase) ==
    \/ /\ Len(events) < EventCap
       /\ events' = Append(events, [node |-> n, phase |-> phase])
    \/ /\ ctx = "ended"
       /\ UNCHANGED events

\* The executor starts a node.
Begin(n) ==
    /\ ~closed
    /\ ctx = "live"
    /\ status[n] = "waiting"
    /\ Ready(n)
    /\ status' = [status EXCEPT ![n] = "running"]
    /\ Emit(n, "start")
    /\ UNCHANGED <<noLLM, cosmetic, answers, sink, closed, caller>>

\* A node function returns without an error.
Complete(n) ==
    /\ status[n] = "running"
    /\ status' = [status EXCEPT ![n] = "done"]
    /\ Emit(n, "done")
    /\ UNCHANGED <<noLLM, cosmetic, closed, caller>>

-----------------------------------------------------------------------------
(* The nodes.                                                              *)

\* The two documents are parsed, the rules are run.
Ingest(n) == n \in Ingests /\ Complete(n) /\ UNCHANGED <<answers, sink>>

Deterministic == Complete("deterministic") /\ UNCHANGED <<answers, sink>>

\* Mutant: the cap is not applied.
AllSubstantive == Changes \ cosmetic

\* substantiveChanges(): the first of those that are not cosmetic, up to the
\* cap if there is one.
Offered ==
    {c \in Changes \ cosmetic :
        MaxAdvisory = 0 \/ Cardinality({d \in Changes \ cosmetic : d <= c}) <= MaxAdvisory}

\* What triageNode makes of an answer: an empty one means everything, one that
\* says yes and names nothing means everything, and only what was offered can
\* be named.
Verdict(answer) ==
    LET empty == ~answer.substantive /\ ~answer.reason /\ answer.ids = {}
        ids == IF answer.ids = {} /\ (answer.substantive \/ empty) THEN Offered ELSE answer.ids
    IN [given |-> TRUE, substantive |-> answer.substantive \/ empty, ids |-> ids \cap Offered]

\* Without AI, or without a candidate, no model is asked.
AsksTriage == ~noLLM /\ Offered # {}

Triage ==
    /\ Complete("triage")
    /\ IF AsksTriage
       THEN /\ \E answer \in [substantive : BOOLEAN, reason : BOOLEAN, ids : SUBSET Named] :
                 triage' = Verdict(answer)
            /\ asked' = [asked EXCEPT !["triage"] = Offered]
       ELSE /\ triage' = [given |-> TRUE, substantive |-> FALSE, ids |-> {}]
            /\ UNCHANGED asked
    /\ UNCHANGED <<analysis, recs, sink>>

\* Mutant: every entry the model returned is kept.
KeepAllAnalyses(answer) == answer

\* keepValidAnalyses(): real identifiers, and kinds of the taxonomy.
KeepValidAnalyses(answer) == {a \in answer : a.change \in triage.ids /\ a.kind # "unknown"}

Analyze ==
    /\ Complete("analyze")
    /\ \E answer \in Answers(Classified) : analysis' = KeepValidAnalyses(answer)
    /\ asked' = [asked EXCEPT !["analyze"] = triage.ids]
    /\ UNCHANGED <<triage, recs, sink>>

\* riskyAnalyses(): what is left for the most expensive model.
Risky == {a.change : a \in {b \in analysis : b.kind = "risky"}}

\* ground.Actions() turned every edit down.
AllRejected(answer) ==
    /\ \E r \in answer : r.edit = "fabricated"
    /\ \A r \in answer : r.edit # "located"

\* recommendNode asks once more when every edit was turned down; an error of
\* that call is ignored.
Recommend ==
    /\ Complete("recommend")
    /\ IF Risky = {}
       THEN recs' = {} /\ UNCHANGED asked
       ELSE /\ \E answer \in Answers(Advised) :
                 IF AllRejected(answer)
                 THEN recs' \in Answers(Advised) \cup {answer}
                 ELSE recs' = answer
            /\ asked' = [asked EXCEPT !["recommend"] = Risky]
    /\ UNCHANGED <<triage, analysis, sink>>

\* Mutant: the validator's word is not taken.
GroundNothing(edit) == IF edit = "none" THEN "none" ELSE "offered"

\* ground.Findings(): an edit whose text is not in the document is withdrawn,
\* and the finding stays.
Ground(edit) ==
    CASE edit = "none" -> "none"
      [] edit = "located" -> "offered"
      [] edit = "fabricated" -> "withdrawn"

\* buildAdvisory(): the recommendations, and what was classified without
\* drawing one.
BuildAdvisory ==
    {[source |-> "risk", change |-> r.change, edit |-> Ground(r.edit)] : r \in recs}
        \cup {[source |-> "change", change |-> a.change, edit |-> "none"] :
                a \in {b \in analysis : ~\E r \in recs : r.change = b.change}}

\* assembleNode: after a negative verdict the report says so, if a model may
\* have been asked; else the advisory findings join the verified ones.
Assemble ==
    /\ Complete("assemble")
    /\ sink' = IF ~triage.substantive
               THEN [given |-> TRUE, findings |-> {}, harmless |-> ~noLLM]
               ELSE [given |-> TRUE, findings |-> BuildAdvisory, harmless |-> FALSE]
    /\ UNCHANGED answers

\* A document cannot be read, or a model cannot be reached, does not answer,
\* or does not answer in the expected shape.
MayFail(n) ==
    \/ n \in Ingests
    \/ n = "triage" /\ AsksTriage
    \/ n = "analyze"
    \/ n = "recommend" /\ Risky # {}

Fail(n) ==
    /\ status[n] = "running"
    /\ MayFail(n)
    /\ status' = [status EXCEPT ![n] = "failed"]
    /\ Emit(n, "error")
    /\ UNCHANGED <<noLLM, cosmetic, answers, sink, closed, caller>>

\* The executor is through: at the finish point, after an error, or because
\* its context has ended.
Close ==
    /\ ~closed
    /\ \A n \in OrderedNodes : status[n] # "running"
    /\ \/ status["assemble"] = "done"
       \/ \E n \in OrderedNodes : status[n] = "failed"
       \/ ctx = "ended"
    /\ closed' = TRUE
    /\ UNCHANGED <<noLLM, cosmetic, status, answers, sink, events, caller>>

-----------------------------------------------------------------------------
(* Run() and its caller.                                                   *)

\* drain() passes an event on; an event that carries an error ends the run.
Drain ==
    /\ result = "none"
    /\ events # <<>>
    /\ events' = Tail(events)
    /\ LET e == Head(events) IN
         \/ told' = [told EXCEPT ![e.node] = e.phase] /\ UNCHANGED result
         \/ e.phase = "error" /\ result' = "error" /\ UNCHANGED told
    /\ UNCHANGED <<noLLM, cosmetic, status, answers, sink, closed, ctx>>

\* Mutant: the end of the events is taken for success.
DrainedAlways ==
    /\ result = "none"
    /\ closed /\ events = <<>>
    /\ result' = "report"
    /\ UNCHANGED <<noLLM, cosmetic, status, answers, sink, stream, ctx, told>>

\* The closed channel is empty: the sink tells whether there is a report.
Drained ==
    /\ result = "none"
    /\ closed /\ events = <<>>
    /\ result' = IF sink.given THEN "report" ELSE "error"
    /\ UNCHANGED <<noLLM, cosmetic, status, answers, sink, stream, ctx, told>>

\* select may find the ended context before the events that are waiting.
DrainGivesUp ==
    /\ result = "none"
    /\ ctx = "ended"
    /\ result' = "error"
    /\ UNCHANGED <<noLLM, cosmetic, status, answers, sink, stream, ctx, told>>

\* Mutant: the context ends with the timeout only.
TimeOut ==
    /\ ctx = "live" /\ result = "none"
    /\ ctx' = "ended"
    /\ UNCHANGED <<noLLM, cosmetic, status, answers, sink, stream, told, result>>

\* The job's timeout, the server's cancellation, or run()'s deferred cancel().
EndContext ==
    /\ ctx = "live"
    /\ ctx' = "ended"
    /\ UNCHANGED <<noLLM, cosmetic, status, answers, sink, stream, told, result>>

-----------------------------------------------------------------------------
Return == \/ \E n \in Ingests : Ingest(n)
          \/ Deterministic \/ Triage \/ Analyze \/ Recommend \/ Assemble
          \/ \E n \in OrderedNodes : Fail(n)

Next ==
    \/ \E n \in OrderedNodes : Begin(n)
    \/ Return \/ Close
    \/ Drain \/ Drained \/ DrainGivesUp \/ EndContext

Spec == Init /\ [][Next]_vars

\* A node returns, because every model call has a timeout and the parsers
\* terminate; the executor and drain() go on; run() cancels when it returns.
\* The timeout itself need not come.
Fairness ==
    /\ WF_vars(\E n \in OrderedNodes : Begin(n))
    /\ WF_vars(Return) /\ WF_vars(Close)
    /\ WF_vars(Drain) /\ WF_vars(Drained)
    /\ WF_vars(DrainGivesUp)
    /\ WF_vars(result # "none" /\ EndContext)

FairSpec == Spec /\ Fairness

-----------------------------------------------------------------------------
(* Properties.                                                             *)

\* Every variable has its type.
TypeOK ==
    /\ noLLM \in BOOLEAN
    /\ cosmetic \subseteq Changes
    /\ status \in [OrderedNodes -> {"waiting", "running", "done", "failed"}]
    /\ triage \in [given : BOOLEAN, substantive : BOOLEAN, ids : SUBSET Changes]
    /\ analysis \subseteq Classified
    /\ recs \subseteq Advised
    /\ asked \in [PaidNodes -> SUBSET Changes]
    /\ sink \in [given : BOOLEAN, findings : SUBSET Finding, harmless : BOOLEAN]
    /\ events \in Seq([node : OrderedNodes, phase : {"start", "done", "error"}])
    /\ Len(events) <= EventCap
    /\ closed \in BOOLEAN
    /\ ctx \in {"live", "ended"}
    /\ told \in [OrderedNodes -> {"none", "start", "done", "error"}]
    /\ result \in {"none", "report", "error"}

\* Run() returns a report only from a run in which every node of the route
\* succeeded, and its caller has been told so of all but the last, whose
\* event an ended context may swallow.
Unvisited == IF RoutesPast THEN {"analyze", "recommend"} ELSE {}
ResultIsWhole ==
    result = "report" =>
        /\ sink.given
        /\ AllDone(OrderedNodes \ Unvisited)
        /\ \A n \in Unvisited : status[n] = "waiting" /\ told[n] = "none"
        /\ \A n \in OrderedNodes \ Unvisited :
              told[n] = "done" \/ (n = "assemble" /\ ctx = "ended" /\ told[n] = "start")

\* Money is spent only on what the tier before has let through: nothing
\* without AI, no cosmetic change, never more than the cap, and each tier sees
\* a part of what the one before it saw.
SpendingIsGated ==
    /\ noLLM => \A n \in PaidNodes : asked[n] = {}
    /\ asked["triage"] \cap cosmetic = {}
    /\ MaxAdvisory # 0 => Cardinality(asked["triage"]) <= MaxAdvisory
    /\ asked["analyze"] \subseteq asked["triage"]
    /\ asked["recommend"] \subseteq asked["analyze"]

\* No finding of the report offers an edit whose text the document does not
\* have, and none classifies a change that was not under analysis.
AdvisoryIsGrounded ==
    \A f \in sink.findings :
        /\ f.edit = "offered" =>
              [change |-> f.change, edit |-> "located"] \in recs
        /\ f.source = "change" => f.change \in asked["analyze"]

\* Whatever the analysis has classified is in the report, with its risk or by
\* itself, even if the recommendations were rejected.
NothingAnalysedIsLost ==
    sink.given => \A a \in analysis : \E f \in sink.findings : f.change = a.change

\* Both: the report is the analysis, grounded and whole.
ReportMatchesAnalysis == AdvisoryIsGrounded /\ NothingAnalysedIsLost

\* The caller of Run() sees the progress the job service relies on.
Progress == INSTANCE RunProgress WITH Nodes <- OrderedNodes, FinalNode <- "assemble"
ImplementsRunProgress == Progress!ProgressSpec

\* Run() returns, and then every node comes to an end: an executor with a full
\* channel nobody reads is not left behind.
RunEnds == <>[](result # "none" /\ closed)

\* Stated by triageNode: a verdict that says substantive is never followed by
\* an analysis of nothing.  It fails if the model names only changes it was
\* not offered.
SubstantiveIsAnalysed ==
    result = "report" /\ triage.substantive => asked["analyze"] # {}
=============================================================================
