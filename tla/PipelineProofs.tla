--------------------------- MODULE PipelineProofs ---------------------------
(* Proofs that a run of the pipeline spends, reports and returns as it       *)
(* promises, for any number of changes, any cap and any channel: what the    *)
(* nodes have left behind follows from how far the graph has come, and what  *)
(* Run() has told follows from the events that are still on their way.       *)
EXTENDS Pipeline, FiniteSetTheorems, TLAPS

\* A node has begun only if the edges of build() led to it.
RouteFollowed ==
    /\ status["deterministic"] # "waiting" => AllDone(Ingests)
    /\ status["triage"] # "waiting" => status["deterministic"] = "done"
    /\ status["analyze"] # "waiting" => status["triage"] = "done" /\ ~RoutesPast
    /\ status["recommend"] # "waiting" => status["analyze"] = "done"
    /\ status["assemble"] # "waiting" =>
          status["triage"] = "done" /\ (RoutesPast \/ status["recommend"] = "done")

\* A node that is not done has left nothing, and each tier stays within the one before it.
AnswersFollow ==
    /\ asked["triage"] \subseteq Offered /\ triage.ids \subseteq asked["triage"]
    /\ noLLM => asked["triage"] = {}
    /\ asked["analyze"] \subseteq triage.ids
    /\ status["analyze"] # "done" => analysis = {} /\ asked["analyze"] = {}
    /\ \A a \in analysis : a.change \in asked["analyze"]
    /\ status["recommend"] # "done" => asked["recommend"] = {}
    /\ asked["recommend"] \subseteq asked["analyze"]

\* The report that has left the graph is the one the answers still call for.
SinkFollows ==
    /\ sink.given <=> status["assemble"] = "done"
    /\ sink.findings = IF sink.given /\ triage.substantive THEN BuildAdvisory ELSE {}

\* Run() returns a report only at the end of a closed channel with the sink filled.
OutcomeFollows ==
    /\ closed => \A n \in OrderedNodes : status[n] # "running"
    /\ result = "report" => closed /\ events = <<>> /\ sink.given

\* What the nodes have left behind.
GraphInv == TypeOK /\ RouteFollowed /\ AnswersFollow /\ SinkFollows

-----------------------------------------------------------------------------
\* The cap of substantiveChanges() is one: of changes that have at most MaxAdvisory
\* changes up to them there are at most MaxAdvisory.
LEMMA OfferedIsCapped ==
    ASSUME cosmetic \subseteq Changes
    PROVE  /\ Offered \subseteq Changes /\ IsFiniteSet(Offered)
           /\ MaxAdvisory # 0 => Cardinality(Offered) <= MaxAdvisory
<1> USE PipelineAssumption
<1> DEFINE S == Changes \ cosmetic
           UpTo(c) == {d \in S : d <= c}
           Places == 1..MaxAdvisory
           place == [c \in Offered |-> Cardinality(UpTo(c))]
<1>1. IsFiniteSet(Changes)
    BY FS_Interval DEF Changes
<1>2. IsFiniteSet(S)
    BY <1>1, FS_Subset
<1>3. Offered \subseteq S /\ IsFiniteSet(Offered)
    BY <1>2, FS_Subset DEF Offered
<1>4. ASSUME NEW c \in S PROVE IsFiniteSet(UpTo(c)) /\ Cardinality(UpTo(c)) \in Nat
    BY <1>2, FS_Subset, FS_CardinalityType
<1>0. SUFFICES ASSUME MaxAdvisory # 0 PROVE Cardinality(Offered) <= MaxAdvisory
    BY <1>3
<1>5. ASSUME NEW c \in Offered PROVE place[c] \in Places
  <2>1. c \in UpTo(c) /\ c \in S
      BY <1>3 DEF Changes
  <2>2. Cardinality(UpTo(c)) # 0
      BY <2>1, <1>4, FS_EmptySet
  <2>3. Cardinality(UpTo(c)) <= MaxAdvisory
      BY <1>0 DEF Offered
  <2> QED
      BY <2>1, <2>2, <2>3, <1>4
<1>6. place \in [Offered -> Places]
    BY <1>5
<1>7. ASSUME NEW c \in Offered, NEW d \in Offered, c < d PROVE place[c] # place[d]
  <2>1. UpTo(c) \in SUBSET UpTo(d)
      BY <1>3, <1>7 DEF Changes
  <2>2. d \in UpTo(d) /\ d \notin UpTo(c)
      BY <1>3, <1>7 DEF Changes
  <2>3. IsFiniteSet(UpTo(d))
      BY <1>3, <1>4
  <2>4. Cardinality(UpTo(d)) # Cardinality(UpTo(c))
      BY <2>1, <2>2, <2>3, FS_Subset
  <2> QED
      BY <2>4
<1>8. \A c, d \in Offered : c # d => place[c] # place[d]
  <2> TAKE c \in Offered, d \in Offered
  <2>1. c \in Int /\ d \in Int
      BY <1>3 DEF Changes
  <2>2. c # d => c < d \/ d < c
      BY <2>1
  <2> QED
      BY <2>2, <1>7
<1>9. IsFiniteSet(Places) /\ Cardinality(Places) = MaxAdvisory
    BY FS_Interval
<1>10. Cardinality(Offered) \in Nat
    BY <1>3, FS_CardinalityType
<1>11. ~(Cardinality(Places) < Cardinality(Offered))
  <2> HIDE DEF Places, place
  <2> SUFFICES ASSUME Cardinality(Places) < Cardinality(Offered) PROVE FALSE
      OBVIOUS
  <2>1. \E c, d \in Offered : c # d /\ place[c] = place[d]
      BY <1>3, <1>6, <1>9, FS_PigeonHole
  <2> QED
      BY <2>1, <1>8
<1> QED
    BY <1>9, <1>10, <1>11

-----------------------------------------------------------------------------
\* The events on their way, an element of which the executor sends.
Event == [node : OrderedNodes, phase : {"start", "done", "error"}]

\* An event that is sent fits the channel, and one that is lost leaves it alone.
LEMMA EmitType ==
    ASSUME TypeOK, NEW n \in OrderedNodes, NEW phase \in {"start", "done", "error"},
           Emit(n, phase)
    PROVE  events' \in Seq(Event) /\ Len(events') <= EventCap
<1> USE PipelineAssumption
<1>1. events \in Seq(Event) /\ Len(events) <= EventCap
    BY DEF TypeOK, Event
<1>2. [node |-> n, phase |-> phase] \in Event
    BY DEF Event
<1>3. CASE Len(events) < EventCap /\ events' = Append(events, [node |-> n, phase |-> phase])
    BY <1>1, <1>2, <1>3
<1>4. CASE UNCHANGED events
    BY <1>1, <1>4
<1> QED
    BY <1>3, <1>4 DEF Emit

\* The names of the nodes are different.
LEMMA NodeNames ==
    /\ {"deterministic", "triage", "analyze", "recommend", "assemble"} \subseteq OrderedNodes
    /\ Ingests \subseteq OrderedNodes /\ PaidNodes \subseteq OrderedNodes
    /\ {"deterministic", "triage", "analyze", "recommend", "assemble"} \cap Ingests = {}
BY DEF OrderedNodes, Ingests, PaidNodes

\* A node that returns is done, and that is all that changes in the graph's control.
LEMMA CompleteFacts ==
    ASSUME TypeOK, NEW n \in OrderedNodes, Complete(n)
    PROVE  /\ status[n] = "running" /\ status'[n] = "done"
           /\ \A m \in OrderedNodes : m # n => status'[m] = status[m]
           /\ status' \in [OrderedNodes -> {"waiting", "running", "done", "failed"}]
           /\ events' \in Seq(Event) /\ Len(events') <= EventCap
           /\ UNCHANGED <<noLLM, cosmetic, closed, ctx, told, result>>
<1>1. events' \in Seq(Event) /\ Len(events') <= EventCap
    BY EmitType DEF Complete
<1> QED
    BY <1>1 DEF Complete, TypeOK, caller

\* A node that the executor starts was led to by its edge.
LEMMA BeginGraph ==
    ASSUME GraphInv, NEW n \in OrderedNodes, Begin(n)
    PROVE  GraphInv'
<1> USE NodeNames
<1>1. /\ status' = [status EXCEPT ![n] = "running"] /\ status[n] = "waiting" /\ Ready(n)
      /\ UNCHANGED <<noLLM, cosmetic, triage, analysis, recs, asked, sink, closed, ctx, told, result>>
    BY DEF Begin, answers, caller
<1>2. TypeOK'
  <2>1. events' \in Seq(Event) /\ Len(events') <= EventCap
      BY EmitType DEF GraphInv, Begin
  <2> QED
      BY <1>1, <2>1 DEF GraphInv, TypeOK, Event
<1>3. RouteFollowed'
  <2>1. RoutesPast' = RoutesPast
      BY <1>1 DEF RoutesPast
  <2>2. \A m \in OrderedNodes : m # n => status'[m] = status[m]
      BY <1>1 DEF GraphInv, TypeOK
  <2>3. \A m \in OrderedNodes : status[m] = "done" => status'[m] = "done"
      BY <1>1, <2>2
  <2>4. \A m \in OrderedNodes : status'[m] # "waiting" => m = n \/ status[m] # "waiting"
      BY <2>2
  <2> QED
      BY <1>1, <2>1, <2>3, <2>4 DEF GraphInv, RouteFollowed, Ready, AllDone
<1>4. /\ \A m \in OrderedNodes : status'[m] = "done" <=> status[m] = "done"
      /\ Offered' = Offered /\ BuildAdvisory' = BuildAdvisory
    BY <1>1 DEF GraphInv, TypeOK, Offered, BuildAdvisory
<1>5. AnswersFollow' /\ SinkFollows'
    BY <1>1, <1>4 DEF GraphInv, AnswersFollow, SinkFollows
<1> QED
    BY <1>2, <1>3, <1>5 DEF GraphInv

\* A node that fails leaves nothing.
LEMMA FailGraph ==
    ASSUME GraphInv, NEW n \in OrderedNodes, Fail(n)
    PROVE  GraphInv'
<1> USE NodeNames
<1>1. /\ status' = [status EXCEPT ![n] = "failed"] /\ status[n] = "running"
      /\ UNCHANGED <<noLLM, cosmetic, triage, analysis, recs, asked, sink, closed, ctx, told, result>>
    BY DEF Fail, answers, caller
<1>2. TypeOK'
  <2>1. events' \in Seq(Event) /\ Len(events') <= EventCap
      BY EmitType DEF GraphInv, Fail
  <2> QED
      BY <1>1, <2>1 DEF GraphInv, TypeOK, Event
<1>3. \A m \in OrderedNodes : /\ status'[m] = "done" <=> status[m] = "done"
                              /\ status'[m] = "waiting" <=> status[m] = "waiting"
    BY <1>1 DEF GraphInv, TypeOK
<1>4. RoutesPast' = RoutesPast /\ Offered' = Offered /\ BuildAdvisory' = BuildAdvisory
    BY <1>1 DEF RoutesPast, Offered, BuildAdvisory
<1>5. RouteFollowed'
    BY <1>3, <1>4 DEF GraphInv, RouteFollowed, AllDone
<1>6. AnswersFollow' /\ SinkFollows'
    BY <1>1, <1>3, <1>4 DEF GraphInv, AnswersFollow, SinkFollows
<1> QED
    BY <1>2, <1>5, <1>6 DEF GraphInv

\* The ingests and the deterministic node hand over nothing a model has a part in.
LEMMA PlainNodeGraph ==
    ASSUME GraphInv, NEW n \in Ingests \cup {"deterministic"}, Complete(n),
           UNCHANGED <<answers, sink>>
    PROVE  GraphInv'
<1> USE NodeNames
<1>0. n \in OrderedNodes
    OBVIOUS
<1>1. /\ status[n] = "running" /\ status'[n] = "done"
      /\ \A m \in OrderedNodes : m # n => status'[m] = status[m]
      /\ status' \in [OrderedNodes -> {"waiting", "running", "done", "failed"}]
      /\ events' \in Seq(Event) /\ Len(events') <= EventCap
      /\ UNCHANGED <<noLLM, cosmetic, triage, analysis, recs, asked, sink, closed, ctx, told, result>>
    BY <1>0, CompleteFacts DEF GraphInv, answers
<1>2. TypeOK'
    BY <1>1 DEF GraphInv, TypeOK, Event
<1>3. RoutesPast' = RoutesPast /\ Offered' = Offered /\ BuildAdvisory' = BuildAdvisory
    BY <1>1 DEF RoutesPast, Offered, BuildAdvisory
<1>4. \A m \in PaidNodes \cup {"assemble"} : m # n /\ status'[m] = status[m]
    BY <1>1 DEF OrderedNodes, PaidNodes, Ingests
<1>5. RouteFollowed'
  <2>1. \A m \in OrderedNodes : status[m] = "done" => status'[m] = "done"
      BY <1>1
  <2>2. \A m \in OrderedNodes : status'[m] # "waiting" <=> status[m] # "waiting"
      BY <1>1
  <2> QED
      BY <1>3, <2>1, <2>2 DEF GraphInv, RouteFollowed, AllDone
<1>6. AnswersFollow' /\ SinkFollows'
    BY <1>1, <1>3, <1>4 DEF GraphInv, AnswersFollow, SinkFollows, PaidNodes
<1> QED
    BY <1>2, <1>5, <1>6 DEF GraphInv

\* Whatever the model answers, the verdict names only what was offered.
LEMMA VerdictType ==
    ASSUME cosmetic \subseteq Changes,
           NEW answer \in [substantive : BOOLEAN, reason : BOOLEAN, ids : SUBSET Named]
    PROVE  /\ Verdict(answer) \in [given : BOOLEAN, substantive : BOOLEAN, ids : SUBSET Changes]
           /\ Verdict(answer).ids \subseteq Offered
<1>1. Offered \subseteq Changes
    BY OfferedIsCapped
<1>2. answer.substantive \in BOOLEAN
    OBVIOUS
<1> DEFINE empty == ~answer.substantive /\ ~answer.reason /\ answer.ids = {}
           ids == IF answer.ids = {} /\ (answer.substantive \/ empty) THEN Offered ELSE answer.ids
<1>3. Verdict(answer) =
        [given |-> TRUE, substantive |-> answer.substantive \/ empty, ids |-> ids \cap Offered]
    BY DEF Verdict
<1>4. (answer.substantive \/ empty) \in BOOLEAN /\ ids \cap Offered \subseteq Changes
    BY <1>1
<1> QED
    BY <1>3, <1>4

\* While triage runs no later node has begun, so its verdict binds all of them.
LEMMA TriageGraph ==
    ASSUME GraphInv, Triage
    PROVE  GraphInv'
<1> USE NodeNames
<1>1. /\ status["triage"] = "running" /\ status'["triage"] = "done"
      /\ \A m \in OrderedNodes : m # "triage" => status'[m] = status[m]
      /\ status' \in [OrderedNodes -> {"waiting", "running", "done", "failed"}]
      /\ events' \in Seq(Event) /\ Len(events') <= EventCap
      /\ UNCHANGED <<noLLM, cosmetic, analysis, recs, sink, closed, ctx, told, result>>
    BY CompleteFacts DEF GraphInv, Triage
<1>2. /\ \A m \in {"analyze", "recommend", "assemble"} : status[m] = "waiting" /\ status'[m] = "waiting"
      /\ status["deterministic"] = "done" /\ status'["deterministic"] = "done"
      /\ \A m \in Ingests : m # "triage" /\ status'[m] = status[m]
    BY <1>1 DEF GraphInv, RouteFollowed, TypeOK
<1>3. Offered' = Offered /\ Offered \subseteq Changes
    BY <1>1, OfferedIsCapped DEF GraphInv, TypeOK, Offered
<1>4. /\ triage' \in [given : BOOLEAN, substantive : BOOLEAN, ids : SUBSET Changes]
      /\ asked' \in [PaidNodes -> SUBSET Changes]
      /\ asked'["triage"] \subseteq Offered /\ triage'.ids \subseteq asked'["triage"]
      /\ noLLM => asked'["triage"] = {}
      /\ asked'["analyze"] = asked["analyze"] /\ asked'["recommend"] = asked["recommend"]
  <2>1. asked \in [PaidNodes -> SUBSET Changes] /\ "triage" \in PaidNodes
        /\ "analyze" \in PaidNodes /\ "recommend" \in PaidNodes
      BY DEF GraphInv, TypeOK, PaidNodes
  <2>2. CASE AsksTriage
    <3>1. PICK answer \in [substantive : BOOLEAN, reason : BOOLEAN, ids : SUBSET Named] :
             triage' = Verdict(answer)
        BY <2>2 DEF Triage
    <3>2. triage' \in [given : BOOLEAN, substantive : BOOLEAN, ids : SUBSET Changes]
          /\ triage'.ids \subseteq Offered
        BY <3>1, VerdictType DEF GraphInv, TypeOK
    <3>3. asked' = [asked EXCEPT !["triage"] = Offered] /\ ~noLLM
        BY <2>2 DEF Triage, AsksTriage
    <3> QED
        BY <1>3, <2>1, <3>2, <3>3
  <2>3. CASE ~AsksTriage
    <3>1. triage' = [given |-> TRUE, substantive |-> FALSE, ids |-> {}] /\ asked' = asked
        BY <2>3 DEF Triage
    <3> QED
        BY <2>1, <3>1 DEF GraphInv, AnswersFollow
  <2> QED
      BY <2>2, <2>3
<1>5. TypeOK'
    BY <1>1, <1>4 DEF GraphInv, TypeOK, Event
<1>6. RouteFollowed'
    BY <1>1, <1>2 DEF GraphInv, RouteFollowed, AllDone
<1>7. AnswersFollow'
    BY <1>1, <1>2, <1>3, <1>4 DEF GraphInv, AnswersFollow
<1>8. SinkFollows'
    BY <1>1, <1>2 DEF GraphInv, SinkFollows
<1> QED
    BY <1>5, <1>6, <1>7, <1>8 DEF GraphInv

\* While analyze runs the verdict stands, and nothing has been reported on.
LEMMA AnalyzeGraph ==
    ASSUME GraphInv, Analyze
    PROVE  GraphInv'
<1> USE NodeNames
<1>1. /\ status["analyze"] = "running" /\ status'["analyze"] = "done"
      /\ \A m \in OrderedNodes : m # "analyze" => status'[m] = status[m]
      /\ status' \in [OrderedNodes -> {"waiting", "running", "done", "failed"}]
      /\ events' \in Seq(Event) /\ Len(events') <= EventCap
      /\ UNCHANGED <<noLLM, cosmetic, triage, recs, sink, closed, ctx, told, result>>
    BY CompleteFacts DEF GraphInv, Analyze
<1>2. ~RoutesPast /\ RoutesPast' = RoutesPast /\ ~noLLM
    BY <1>1 DEF GraphInv, RouteFollowed, RoutesPast
<1>3. \A m \in {"recommend", "assemble"} : status[m] = "waiting" /\ status'[m] = "waiting"
    BY <1>1, <1>2 DEF GraphInv, RouteFollowed, TypeOK
<1>4. /\ asked' = [asked EXCEPT !["analyze"] = triage.ids]
      /\ asked \in [PaidNodes -> SUBSET Changes] /\ triage.ids \subseteq Changes
      /\ {"triage", "analyze", "recommend"} = PaidNodes
    BY DEF Analyze, GraphInv, TypeOK, PaidNodes
<1>5. /\ asked'["analyze"] = triage.ids /\ asked'["triage"] = asked["triage"]
      /\ asked'["recommend"] = asked["recommend"] /\ asked' \in [PaidNodes -> SUBSET Changes]
    BY <1>4
<1>6. analysis' \subseteq Classified /\ \A a \in analysis' : a.change \in triage.ids
  <2>1. PICK answer \in Answers(Classified) : analysis' = KeepValidAnalyses(answer)
      BY DEF Analyze
  <2> QED
      BY <2>1 DEF Answers, KeepValidAnalyses
<1>7. TypeOK'
    BY <1>1, <1>5, <1>6 DEF GraphInv, TypeOK, Event
<1>8. RouteFollowed'
    BY <1>1, <1>2, <1>3 DEF GraphInv, RouteFollowed, AllDone, Ingests
<1>9. Offered' = Offered
    BY <1>1 DEF Offered
<1>10. AnswersFollow'
    BY <1>1, <1>2, <1>3, <1>5, <1>6, <1>9 DEF GraphInv, AnswersFollow
<1>11. SinkFollows'
    BY <1>1, <1>3 DEF GraphInv, SinkFollows
<1> QED
    BY <1>7, <1>8, <1>10, <1>11 DEF GraphInv

\* While recommend runs the analysis stands, and nothing has been reported on.
LEMMA RecommendGraph ==
    ASSUME GraphInv, Recommend
    PROVE  GraphInv'
<1> USE NodeNames
<1>1. /\ status["recommend"] = "running" /\ status'["recommend"] = "done"
      /\ \A m \in OrderedNodes : m # "recommend" => status'[m] = status[m]
      /\ status' \in [OrderedNodes -> {"waiting", "running", "done", "failed"}]
      /\ events' \in Seq(Event) /\ Len(events') <= EventCap
      /\ UNCHANGED <<noLLM, cosmetic, triage, analysis, sink, closed, ctx, told, result>>
    BY CompleteFacts DEF GraphInv, Recommend
<1>2. /\ status["analyze"] = "done" /\ status'["analyze"] = "done"
      /\ ~RoutesPast /\ RoutesPast' = RoutesPast /\ ~noLLM
    BY <1>1 DEF GraphInv, RouteFollowed, RoutesPast
<1>3. status["assemble"] = "waiting" /\ status'["assemble"] = "waiting"
    BY <1>1, <1>2 DEF GraphInv, RouteFollowed, TypeOK
<1>4. asked \in [PaidNodes -> SUBSET Changes] /\ {"triage", "analyze", "recommend"} = PaidNodes
    BY DEF GraphInv, TypeOK, PaidNodes
<1>5. Risky \subseteq asked["analyze"]
    BY DEF GraphInv, AnswersFollow, Risky
<1>6. /\ asked' \in [PaidNodes -> SUBSET Changes]
      /\ asked'["analyze"] = asked["analyze"] /\ asked'["triage"] = asked["triage"]
      /\ asked'["recommend"] \subseteq asked["analyze"]
  <2>1. asked["analyze"] \in SUBSET Changes
      BY <1>4
  <2>2. CASE asked' = asked
      BY <1>4, <2>2 DEF GraphInv, AnswersFollow
  <2>3. CASE asked' = [asked EXCEPT !["recommend"] = Risky]
      BY <1>4, <1>5, <2>1, <2>3
  <2> QED
      BY <2>2, <2>3 DEF Recommend
<1>7. recs' \subseteq Advised
    BY DEF Recommend, Answers
<1>8. TypeOK'
    BY <1>1, <1>6, <1>7 DEF GraphInv, TypeOK, Event
<1>9. RouteFollowed'
    BY <1>1, <1>2, <1>3 DEF GraphInv, RouteFollowed, AllDone, Ingests
<1>10. Offered' = Offered
    BY <1>1 DEF Offered
<1>11. AnswersFollow'
    BY <1>1, <1>2, <1>6, <1>10 DEF GraphInv, AnswersFollow
<1>12. SinkFollows'
    BY <1>1, <1>3 DEF GraphInv, SinkFollows
<1> QED
    BY <1>8, <1>9, <1>11, <1>12 DEF GraphInv

\* The report is built from answers that will not change any more.
LEMMA AssembleGraph ==
    ASSUME GraphInv, Assemble
    PROVE  GraphInv'
<1> USE NodeNames
<1>1. /\ status["assemble"] = "running" /\ status'["assemble"] = "done"
      /\ \A m \in OrderedNodes : m # "assemble" => status'[m] = status[m]
      /\ status' \in [OrderedNodes -> {"waiting", "running", "done", "failed"}]
      /\ events' \in Seq(Event) /\ Len(events') <= EventCap
      /\ UNCHANGED <<noLLM, cosmetic, triage, analysis, recs, asked, closed, ctx, told, result>>
    BY CompleteFacts DEF GraphInv, Assemble, answers
<1>2. BuildAdvisory \subseteq Finding
    BY DEF GraphInv, TypeOK, BuildAdvisory, Finding, Ground, Advised, Classified
<1>3. /\ sink' \in [given : BOOLEAN, findings : SUBSET Finding, harmless : BOOLEAN]
      /\ sink'.given /\ sink'.findings = IF triage.substantive THEN BuildAdvisory ELSE {}
    BY <1>2 DEF Assemble, GraphInv, TypeOK
<1>4. TypeOK'
    BY <1>1, <1>3 DEF GraphInv, TypeOK, Event
<1>5. RoutesPast' = RoutesPast /\ Offered' = Offered /\ BuildAdvisory' = BuildAdvisory
    BY <1>1 DEF RoutesPast, Offered, BuildAdvisory
<1>6. RouteFollowed'
    BY <1>1, <1>5 DEF GraphInv, RouteFollowed, AllDone, Ingests
<1>7. AnswersFollow'
    BY <1>1, <1>5 DEF GraphInv, AnswersFollow
<1>8. SinkFollows'
    BY <1>1, <1>3, <1>5 DEF SinkFollows
<1> QED
    BY <1>4, <1>6, <1>7, <1>8 DEF GraphInv

-----------------------------------------------------------------------------
(* What Run() has told, and the events that are still on their way.        *)

\* The event about n is still in the channel, before place k.
Before(n, phase, k) ==
    \E i \in 1..Len(events) : i < k /\ events[i].node = n /\ events[i].phase = phase

OnItsWay(n, phase) == Before(n, phase, Len(events) + 1)

\* What was told of a node is true of it.
ToldIsTrue ==
    \A n \in OrderedNodes :
        /\ told[n] # "none" => status[n] # "waiting"
        /\ told[n] = "done" => status[n] = "done"
        /\ told[n] = "error" => status[n] = "failed"

\* What is on its way is true too, and has not been told.
QueueIsTrue ==
    \A i \in 1..Len(events) :
        /\ events[i].phase = "start" => told[events[i].node] = "none"
        /\ told[events[i].node] \in {"none", "start"}
        /\ status[events[i].node] # "waiting"
        /\ events[i].phase = "done" => status[events[i].node] = "done"
        /\ events[i].phase = "error" => status[events[i].node] = "failed"

\* Of a node there is a start and then an end, and nothing comes after the final node's start.
QueueIsOrdered ==
    /\ \A i, j \in 1..Len(events) : i < j /\ events[i].node = events[j].node =>
          events[i].phase = "start" /\ events[j].phase # "start"
    /\ \A i \in 1..Len(events) :
          events[i].phase # "start" /\ told[events[i].node] = "none" =>
              Before(events[i].node, "start", i)
    /\ \A i, j \in 1..Len(events) : i < j /\ events[i].node = "assemble" => events[j].node = "assemble"
    /\ told["assemble"] # "none" => \A i \in 1..Len(events) : events[i].node = "assemble"

\* No start is lost, and no good end but after the context has ended.
NothingIsLost ==
    \A n \in OrderedNodes :
        /\ status[n] # "waiting" => told[n] # "none" \/ OnItsWay(n, "start")
        /\ status[n] = "done" /\ (ctx = "live" \/ (n # "assemble" /\ status["assemble"] # "waiting")) =>
              told[n] = "done" \/ OnItsWay(n, "done")

TellingInv == ToldIsTrue /\ QueueIsTrue /\ QueueIsOrdered /\ NothingIsLost

\* Once the final node has begun every other one has come to a good end or is not visited.
LEMMA AssembleIsLast ==
    ASSUME GraphInv, status["assemble"] # "waiting", NEW n \in OrderedNodes, n # "assemble"
    PROVE  /\ status[n] \in {"done", "waiting"}
           /\ status[n] = "waiting" => ~Ready(n) /\ RoutesPast /\ n \in {"analyze", "recommend"}
<1>1. status["triage"] = "done" /\ status["deterministic"] = "done" /\ AllDone(Ingests)
    BY DEF GraphInv, RouteFollowed
<1>2. CASE n \in Ingests \cup {"deterministic", "triage"}
    BY <1>1, <1>2 DEF AllDone
<1>3. CASE n \in {"analyze", "recommend"}
  <2>1. CASE RoutesPast
    <3>1. status["analyze"] = "waiting" /\ status["recommend"] = "waiting"
        BY <2>1 DEF GraphInv, RouteFollowed, TypeOK, OrderedNodes, PaidNodes
    <3> QED
        BY <1>3, <2>1, <3>1 DEF Ready, AllDone, Ingests
  <2>2. CASE ~RoutesPast
    <3>1. status["recommend"] = "done" /\ status["analyze"] = "done"
        BY <2>2 DEF GraphInv, RouteFollowed
    <3> QED
        BY <1>3, <3>1
  <2> QED
      BY <2>1, <2>2
<1> QED
    BY <1>2, <1>3 DEF OrderedNodes, PaidNodes

\* An event that is sent stands behind all others.
LEMMA SentFacts ==
    ASSUME TypeOK, NEW n \in OrderedNodes, NEW phase \in {"start", "done", "error"},
           events' = Append(events, [node |-> n, phase |-> phase])
    PROVE  /\ Len(events') = Len(events) + 1 /\ Len(events) \in Nat
           /\ \A i \in 1..Len(events) : events'[i] = events[i] /\ events[i].node \in OrderedNodes
                                       /\ events[i].phase \in {"start", "done", "error"}
           /\ events'[Len(events) + 1].node = n /\ events'[Len(events) + 1].phase = phase
<1>1. events \in Seq(Event)
    BY DEF TypeOK, Event
<1>2. [node |-> n, phase |-> phase] \in Event
    BY DEF Event
<1>3. events'[Len(events) + 1] = [node |-> n, phase |-> phase]
    BY <1>1, <1>2
<1>4. /\ Len(events') = Len(events) + 1 /\ Len(events) \in Nat
      /\ \A i \in 1..Len(events) : events'[i] = events[i] /\ events[i] \in Event
    BY <1>1, <1>2
<1>5. \A e \in Event : e.node \in OrderedNodes /\ e.phase \in {"start", "done", "error"}
    BY DEF Event
<1> QED
    BY <1>3, <1>4, <1>5

\* An event that is sent leaves the others on their way.
LEMMA SentIsOnItsWay ==
    ASSUME TypeOK, NEW n \in OrderedNodes, NEW phase \in {"start", "done", "error"},
           events' = Append(events, [node |-> n, phase |-> phase])
    PROVE  /\ OnItsWay(n, phase)'
           /\ \A m \in OrderedNodes, p \in {"start", "done", "error"} :
                 OnItsWay(m, p) => OnItsWay(m, p)'
           /\ \A m \in OrderedNodes : \A i \in 1..Len(events) :
                 Before(m, "start", i) => Before(m, "start", i)'
           /\ \A m \in OrderedNodes, k \in Nat :
                 OnItsWay(m, "start") /\ k = Len(events) + 1 => Before(m, "start", k)'
BY SentFacts DEF OnItsWay, Before

\* The start of a node is never lost, and told after the ends it builds on.
LEMMA BeginTelling ==
    ASSUME GraphInv, TellingInv, NEW n \in OrderedNodes, Begin(n)
    PROVE  TellingInv'
<1> USE NodeNames
<1> DEFINE last == Len(events) + 1
<1>1. /\ status' = [status EXCEPT ![n] = "running"] /\ status[n] = "waiting" /\ Ready(n)
      /\ ctx = "live" /\ UNCHANGED <<ctx, told>>
      /\ events' = Append(events, [node |-> n, phase |-> "start"])
    BY DEF Begin, caller, Emit
<1>2. /\ Len(events') = last /\ Len(events) \in Nat
      /\ \A i \in 1..Len(events) : events'[i] = events[i] /\ events[i].node \in OrderedNodes
                                  /\ events[i].phase \in {"start", "done", "error"}
      /\ events'[last].node = n /\ events'[last].phase = "start"
    BY <1>1, SentFacts DEF GraphInv
<1>3. \A m \in OrderedNodes : m # n => status'[m] = status[m]
    BY <1>1 DEF GraphInv, TypeOK
<1>4. status'[n] = "running"
    BY <1>1 DEF GraphInv, TypeOK
<1>5. told[n] = "none" /\ \A i \in 1..Len(events) : events[i].node # n
    BY <1>1 DEF TellingInv, ToldIsTrue, QueueIsTrue
<1>6. n # "assemble" => status["assemble"] = "waiting"
    BY <1>1, AssembleIsLast
<1>7. ToldIsTrue'
    BY <1>1, <1>3, <1>4, <1>5 DEF TellingInv, ToldIsTrue
<1>8. QueueIsTrue'
    BY <1>1, <1>2, <1>3, <1>4, <1>5 DEF TellingInv, QueueIsTrue
<1>9. n # "assemble" => told["assemble"] = "none" /\ \A i \in 1..Len(events) : events[i].node # "assemble"
    BY <1>6 DEF TellingInv, ToldIsTrue, QueueIsTrue
<1>10. QueueIsOrdered'
  <2>1. \A i, j \in 1..Len(events') : i < j /\ events'[i].node = events'[j].node =>
          events'[i].phase = "start" /\ events'[j].phase # "start"
      BY SMTT(30), <1>2, <1>5 DEF TellingInv, QueueIsOrdered
  <2>2. \A i \in 1..Len(events') :
          events'[i].phase # "start" /\ told'[events'[i].node] = "none" =>
              Before(events[i].node, "start", i)'
      BY <1>1, <1>2 DEF TellingInv, QueueIsOrdered, Before
  <2>3. \A i, j \in 1..Len(events') : i < j /\ events'[i].node = "assemble" => events'[j].node = "assemble"
      BY <1>2, <1>9 DEF TellingInv, QueueIsOrdered
  <2>4. told'["assemble"] # "none" => \A i \in 1..Len(events') : events'[i].node = "assemble"
      BY <1>1, <1>2, <1>5, <1>9 DEF TellingInv, QueueIsOrdered
  <2> QED
      BY <2>1, <2>2, <2>3, <2>4 DEF QueueIsOrdered
<1>11. NothingIsLost'
  <2>1. /\ OnItsWay(n, "start")'
        /\ \A m \in OrderedNodes, p \in {"start", "done", "error"} : OnItsWay(m, p) => OnItsWay(m, p)'
      BY <1>1, SentIsOnItsWay DEF GraphInv
  <2> SUFFICES ASSUME NEW m \in OrderedNodes
               PROVE /\ status'[m] # "waiting" => told'[m] # "none" \/ OnItsWay(m, "start")'
                     /\ status'[m] = "done" => told'[m] = "done" \/ OnItsWay(m, "done")'
      BY DEF NothingIsLost
  <2>2. CASE m = n
      BY <1>4, <2>1, <2>2
  <2>3. CASE m # n
      BY <1>1, <1>3, <2>1, <2>3 DEF TellingInv, NothingIsLost
  <2> QED
      BY <2>2, <2>3
<1> QED
    BY <1>7, <1>8, <1>10, <1>11 DEF TellingInv

\* The end of a node follows its start; it is lost only once the context has ended.
LEMMA EndTelling ==
    ASSUME GraphInv, TellingInv, NEW n \in OrderedNodes, status[n] = "running",
           NEW phase \in {"done", "error"}, NEW end \in {"done", "failed"},
           phase = "done" <=> end = "done",
           status' = [status EXCEPT ![n] = end], Emit(n, phase), UNCHANGED <<ctx, told>>
    PROVE  TellingInv'
<1> USE NodeNames
<1> DEFINE last == Len(events) + 1
<1>1. /\ \A m \in OrderedNodes : m # n => status'[m] = status[m]
      /\ status'[n] = end
    BY DEF GraphInv, TypeOK
<1>2. told[n] \in {"none", "start"} /\ \A i \in 1..Len(events) : events[i].node = n => events[i].phase = "start"
  <2>1. told[n] \in {"none", "start", "done", "error"}
      BY DEF GraphInv, TypeOK
  <2>2. \A i \in 1..Len(events) : events[i].phase \in {"start", "done", "error"}
    <3>1. events \in Seq(Event)
        BY DEF GraphInv, TypeOK, Event
    <3>2. \A i \in 1..Len(events) : events[i] \in Event
        BY <3>1
    <3> QED
        BY <3>2 DEF Event
  <2> QED
      BY <2>1, <2>2 DEF TellingInv, ToldIsTrue, QueueIsTrue
<1>3. n # "assemble" => status["assemble"] = "waiting" /\ status'["assemble"] = "waiting"
    BY <1>1, AssembleIsLast
<1>4. n # "assemble" => told["assemble"] = "none" /\ \A i \in 1..Len(events) : events[i].node # "assemble"
    BY <1>3 DEF TellingInv, ToldIsTrue, QueueIsTrue
<1>5. ToldIsTrue'
    BY <1>1, <1>2 DEF TellingInv, ToldIsTrue
<1>6. told[n] = "none" => OnItsWay(n, "start")
    BY DEF TellingInv, NothingIsLost
<1>7. CASE events' = Append(events, [node |-> n, phase |-> phase])
  <2>1. /\ Len(events') = last /\ Len(events) \in Nat
        /\ \A i \in 1..Len(events) : events'[i] = events[i] /\ events[i].node \in OrderedNodes
                                    /\ events[i].phase \in {"start", "done", "error"}
        /\ events'[last].node = n /\ events'[last].phase = phase
      BY <1>7, SentFacts DEF GraphInv
  <2>2. /\ OnItsWay(n, phase)'
        /\ \A m \in OrderedNodes, p \in {"start", "done", "error"} : OnItsWay(m, p) => OnItsWay(m, p)'
        /\ \A k \in Nat : OnItsWay(n, "start") /\ k = last => Before(n, "start", k)'
        /\ \A m \in OrderedNodes : \A i \in 1..Len(events) :
              Before(m, "start", i) => Before(m, "start", i)'
      BY <1>7, SentIsOnItsWay DEF GraphInv
  <2>3. QueueIsTrue'
      BY <1>1, <1>2, <2>1 DEF TellingInv, QueueIsTrue
  <2>4. QueueIsOrdered'
    <3>1. \A i, j \in 1..Len(events') : i < j /\ events'[i].node = events'[j].node =>
            events'[i].phase = "start" /\ events'[j].phase # "start"
        BY <1>2, <2>1 DEF TellingInv, QueueIsOrdered
    <3>2. ASSUME NEW i \in 1..Len(events'), events'[i].phase # "start", told'[events'[i].node] = "none"
          PROVE  Before(events[i].node, "start", i)'
      <4>1. CASE i = last
        <5>1. events'[i].node = n /\ told[n] = "none"
            BY <2>1, <3>2, <4>1
        <5>2. Before(n, "start", i)'
            BY <1>6, <2>2, <4>1, <5>1
        <5> QED
            BY <5>1, <5>2 DEF Before
      <4>2. CASE i \in 1..Len(events)
          BY <2>1, <2>2, <3>2, <4>2 DEF TellingInv, QueueIsOrdered
      <4> QED
          BY <2>1, <4>1, <4>2
    <3>3. ASSUME NEW i \in 1..Len(events'), NEW j \in 1..Len(events'), i < j, events'[i].node = "assemble"
          PROVE  events'[j].node = "assemble"
      <4>1. i \in 1..Len(events) /\ events[i].node = "assemble"
          BY <2>1, <3>3
      <4>2. n = "assemble"
          BY <1>4, <4>1
      <4>3. CASE j = last
          BY <2>1, <4>2, <4>3
      <4>4. CASE j \in 1..Len(events)
          BY <2>1, <3>3, <4>1, <4>4 DEF TellingInv, QueueIsOrdered
      <4> QED
          BY <2>1, <4>3, <4>4
    <3>4. told'["assemble"] # "none" => \A i \in 1..Len(events') : events'[i].node = "assemble"
        BY <1>4, <2>1 DEF TellingInv, QueueIsOrdered
    <3> QED
        BY <3>1, <3>2, <3>3, <3>4 DEF QueueIsOrdered
  <2>5. NothingIsLost'
    <3> SUFFICES ASSUME NEW m \in OrderedNodes
                 PROVE /\ status'[m] # "waiting" => told'[m] # "none" \/ OnItsWay(m, "start")'
                       /\ status'[m] = "done" /\ (ctx' = "live" \/ (m # "assemble" /\ status'["assemble"] # "waiting")) =>
                              told'[m] = "done" \/ OnItsWay(m, "done")'
        BY DEF NothingIsLost
    <3>1. CASE m = n
        BY <1>1, <1>6, <2>2, <3>1
    <3>2. CASE m # n
      <4>1. status'["assemble"] # "waiting" => status["assemble"] # "waiting"
          BY <1>1
      <4> QED
          BY <1>1, <2>2, <3>2, <4>1 DEF TellingInv, NothingIsLost
    <3> QED
        BY <3>1, <3>2
  <2> QED
      BY <1>5, <2>3, <2>4, <2>5 DEF TellingInv
<1>8. CASE ctx = "ended" /\ UNCHANGED events
  <2>1. QueueIsTrue'
      BY <1>1, <1>2, <1>8 DEF TellingInv, QueueIsTrue
  <2>2. QueueIsOrdered'
      BY <1>8 DEF TellingInv, QueueIsOrdered, Before
  <2>3. \A m \in OrderedNodes, p \in {"start", "done"} : OnItsWay(m, p)' <=> OnItsWay(m, p)
      BY <1>8 DEF OnItsWay, Before
  <2>4. NothingIsLost'
    <3> SUFFICES ASSUME NEW m \in OrderedNodes
                 PROVE /\ status'[m] # "waiting" => told'[m] # "none" \/ OnItsWay(m, "start")'
                       /\ status'[m] = "done" /\ (ctx' = "live" \/ (m # "assemble" /\ status'["assemble"] # "waiting")) =>
                              told'[m] = "done" \/ OnItsWay(m, "done")'
        BY DEF NothingIsLost
    <3>1. CASE m = n
        BY <1>3, <1>6, <1>8, <2>3, <3>1
    <3>2. CASE m # n
      <4>1. status'["assemble"] # "waiting" => status["assemble"] # "waiting"
          BY <1>1
      <4> QED
          BY <1>1, <2>3, <3>2, <4>1 DEF TellingInv, NothingIsLost
    <3> QED
        BY <3>1, <3>2
  <2> QED
      BY <1>5, <2>1, <2>2, <2>4 DEF TellingInv
<1> QED
    BY <1>7, <1>8 DEF Emit

\* The first event leaves the channel, and the others move up.
LEMMA TailFacts ==
    ASSUME TypeOK, events # <<>>, events' = Tail(events)
    PROVE  /\ 1 \in 1..Len(events) /\ Len(events) \in Nat /\ Len(events') = Len(events) - 1
           /\ events' \in Seq(Event) /\ Len(events') <= EventCap
           /\ \A i \in 1..Len(events') : i + 1 \in 1..Len(events) /\ events'[i] = events[i + 1]
           /\ \A i \in 1..Len(events) : i # 1 => i - 1 \in 1..Len(events')
           /\ Head(events) = events[1]
           /\ \A i \in 1..Len(events) : events[i].node \in OrderedNodes
                                       /\ events[i].phase \in {"start", "done", "error"}
<1> USE PipelineAssumption
<1>1. events \in Seq(Event) /\ Len(events) <= EventCap
    BY DEF TypeOK, Event
<1>2. Len(events) \in Nat /\ Len(events) # 0
    BY <1>1
<1>3. \A e \in Event : e.node \in OrderedNodes /\ e.phase \in {"start", "done", "error"}
    BY DEF Event
<1>4. \A i \in 1..Len(events) : events[i] \in Event
    BY <1>1
<1>5. events' \in Seq(Event) /\ Len(events') = Len(events) - 1
    BY <1>1, <1>2
<1>6. \A i \in 1..Len(events') : events'[i] = events[i + 1]
    BY <1>1, <1>2, <1>5
<1>7. Head(events) = events[1]
    BY <1>1, <1>2
<1> QED
    BY <1>1, <1>2, <1>3, <1>4, <1>5, <1>6, <1>7

\* What is on its way stays so, but for the event that leaves.
LEMMA TailIsOnItsWay ==
    ASSUME TypeOK, events # <<>>, events' = Tail(events)
    PROVE  \A m, p : \/ ~OnItsWay(m, p)
                     \/ OnItsWay(m, p)'
                     \/ events[1].node = m /\ events[1].phase = p
<1> TAKE m, p
<1> SUFFICES ASSUME OnItsWay(m, p), ~(events[1].node = m /\ events[1].phase = p)
             PROVE  OnItsWay(m, p)'
    OBVIOUS
<1>1. PICK i \in 1..Len(events) : events[i].node = m /\ events[i].phase = p
    BY DEF OnItsWay, Before
<1>2. i # 1
    BY <1>1
<1>3. i - 1 \in 1..Len(events') /\ events'[i - 1] = events[i] /\ i - 1 < Len(events') + 1
  <2>1. i - 1 \in 1..Len(events')
      BY <1>2, TailFacts
  <2>2. events'[i - 1] = events[(i - 1) + 1]
      BY <2>1, TailFacts
  <2>3. Len(events') \in Nat
      BY TailFacts
  <2> QED
      BY <2>1, <2>2, <2>3
<1> QED
    BY <1>1, <1>3 DEF OnItsWay, Before

\* The parts about the channel alone survive the loss of its first event.
LEMMA TailIsOrdered ==
    ASSUME TypeOK, QueueIsOrdered, events # <<>>, events' = Tail(events)
    PROVE  /\ \A i, j \in 1..Len(events') : i < j /\ events'[i].node = events'[j].node =>
                  events'[i].phase = "start" /\ events'[j].phase # "start"
           /\ \A i, j \in 1..Len(events') : i < j /\ events'[i].node = "assemble" => events'[j].node = "assemble"
           /\ \A i \in 1..Len(events') :
                  events'[i].phase # "start" /\ told[events'[i].node] = "none" =>
                      \/ events[1].node = events'[i].node /\ events[1].phase = "start"
                      \/ Before(events[i].node, "start", i)'
<1>1. /\ \A i \in 1..Len(events') : i + 1 \in 1..Len(events) /\ events'[i] = events[i + 1]
      /\ \A i \in 1..Len(events) : i # 1 => i - 1 \in 1..Len(events')
      /\ Len(events) \in Nat
    BY TailFacts
<1>2. \A i, j \in 1..Len(events') : i < j => i + 1 < j + 1
    OBVIOUS
<1>3. \A i, j \in 1..Len(events') : i < j /\ events'[i].node = events'[j].node =>
          events'[i].phase = "start" /\ events'[j].phase # "start"
    BY <1>1, <1>2 DEF QueueIsOrdered
<1>4. \A i, j \in 1..Len(events') : i < j /\ events'[i].node = "assemble" => events'[j].node = "assemble"
    BY <1>1, <1>2 DEF QueueIsOrdered
<1>5. ASSUME NEW i \in 1..Len(events'), events'[i].phase # "start", told[events'[i].node] = "none"
      PROVE  \/ events[1].node = events'[i].node /\ events[1].phase = "start"
             \/ Before(events[i].node, "start", i)'
  <2>1. Before(events[i + 1].node, "start", i + 1)
      BY <1>1, <1>5 DEF QueueIsOrdered
  <2>2. PICK j \in 1..Len(events) : j < i + 1 /\ events[j].node = events'[i].node /\ events[j].phase = "start"
      BY <1>1, <2>1 DEF Before
  <2>3. CASE j = 1
      BY <2>2, <2>3
  <2>4. CASE j # 1
    <3>1. j - 1 \in 1..Len(events') /\ j - 1 < i /\ (j - 1) + 1 = j
        BY <1>1, <2>2, <2>4
    <3>2. events'[j - 1] = events[j]
        BY <1>1, <3>1
    <3> QED
        BY <2>2, <3>1, <3>2 DEF Before
  <2> QED
      BY <2>3, <2>4
<1> QED
    BY <1>3, <1>4, <1>5

\* drain() tells an event: it is what a caller of Run() may be told next.
LEMMA TellFacts ==
    ASSUME GraphInv, TellingInv, events # <<>>
    PROVE  LET n == events[1].node IN
           /\ n \in OrderedNodes
           /\ events[1].phase = "start" =>
                 /\ told[n] = "none" /\ told["assemble"] = "none"
                 /\ n = "assemble" => \A m \in OrderedNodes : told[m] \in {"none", "done"}
           /\ events[1].phase # "start" => told[n] = "start"
<1> USE NodeNames
<1> DEFINE n == events[1].node
<1>1. events \in Seq(Event) /\ Len(events) \in Nat /\ Len(events) # 0
    BY DEF GraphInv, TypeOK, Event
<1>2. 1 \in 1..Len(events) /\ events[1] \in Event
    BY <1>1
<1>3. n \in OrderedNodes
    BY <1>2 DEF Event
<1>4. ASSUME events[1].phase = "start"
      PROVE  /\ told[n] = "none" /\ told["assemble"] = "none"
             /\ n = "assemble" => \A m \in OrderedNodes : told[m] \in {"none", "done"}
  <2>1. told[n] = "none"
      BY <1>2, <1>4 DEF TellingInv, QueueIsTrue
  <2>2. told["assemble"] = "none"
      BY <1>2, <2>1 DEF TellingInv, QueueIsOrdered
  <2>3. ASSUME n = "assemble", NEW m \in OrderedNodes, m # "assemble" PROVE told[m] \in {"none", "done"}
    <3>1. status["assemble"] # "waiting"
        BY <1>2, <2>3 DEF TellingInv, QueueIsTrue
    <3>2. status[m] \in {"done", "waiting"}
        BY <2>3, <3>1, AssembleIsLast
    <3>3. CASE status[m] = "waiting"
        BY <3>3 DEF TellingInv, ToldIsTrue
    <3>4. CASE status[m] = "done"
      <4>1. told[m] = "done" \/ OnItsWay(m, "done")
          BY <2>3, <3>1, <3>4 DEF TellingInv, NothingIsLost
      <4>2. ~OnItsWay(m, "done")
        <5>1. \A i \in 1..Len(events) : i # 1 => events[i].node = "assemble"
            BY <1>1, <1>2, <2>3 DEF TellingInv, QueueIsOrdered
        <5> QED
            BY <1>1, <2>3, <5>1 DEF OnItsWay, Before
      <4> QED
          BY <4>1, <4>2
    <3> QED
        BY <3>2, <3>3, <3>4
  <2> QED
      BY <2>1, <2>2, <2>3
<1>5. ASSUME events[1].phase # "start" PROVE told[n] = "start"
  <2>1. ~Before(n, "start", 1)
      BY <1>1 DEF Before
  <2>2. told[n] # "none"
      BY <1>2, <1>5, <2>1 DEF TellingInv, QueueIsOrdered
  <2>3. told[n] \in {"none", "start"}
      BY <1>2 DEF TellingInv, QueueIsTrue
  <2> QED
      BY <2>2, <2>3
<1> QED
    BY <1>3, <1>4, <1>5

\* drain() passes an event on, or takes the error it carries for the end of the run.
LEMMA DrainTelling ==
    ASSUME GraphInv, TellingInv, Drain
    PROVE  TellingInv'
<1> USE NodeNames
<1> DEFINE e == events[1]
           n == events[1].node
<1>1. /\ events # <<>> /\ events' = Tail(events) /\ UNCHANGED <<status, ctx>>
      /\ \/ told' = [told EXCEPT ![n] = e.phase]
         \/ e.phase = "error" /\ told' = told
    BY TailFacts DEF Drain, GraphInv
<1>2. /\ 1 \in 1..Len(events) /\ Len(events) \in Nat /\ Len(events') = Len(events) - 1
      /\ \A i \in 1..Len(events') : i + 1 \in 1..Len(events) /\ events'[i] = events[i + 1]
      /\ \A i \in 1..Len(events) : events[i].node \in OrderedNodes
                                  /\ events[i].phase \in {"start", "done", "error"}
    BY <1>1, TailFacts DEF GraphInv
<1>3. n \in OrderedNodes /\ e.phase \in {"start", "done", "error"}
    BY <1>2
<1>4. /\ \A m \in OrderedNodes : m # n => told'[m] = told[m]
      /\ told'[n] \in {told[n], e.phase}
      /\ told'[n] = e.phase \/ e.phase = "error"
    BY <1>1, <1>3 DEF GraphInv, TypeOK
<1>5. /\ e.phase = "start" => told[n] = "none"
      /\ e.phase # "start" => told[n] = "start"
      /\ told'[n] # "none"
  <2>1. /\ e.phase = "start" => told[n] = "none"
        /\ e.phase # "start" => told[n] = "start"
      BY <1>1, TellFacts
  <2> QED
      BY <1>3, <1>4, <2>1
<1>6. ToldIsTrue'
  <2>1. /\ status[n] # "waiting"
        /\ e.phase = "done" => status[n] = "done"
        /\ e.phase = "error" => status[n] = "failed"
      BY <1>2 DEF TellingInv, QueueIsTrue
  <2>2. ASSUME NEW m \in OrderedNodes
        PROVE  /\ told'[m] # "none" => status[m] # "waiting"
               /\ told'[m] = "done" => status[m] = "done"
               /\ told'[m] = "error" => status[m] = "failed"
    <3>1. CASE m # n
        BY <1>4, <3>1 DEF TellingInv, ToldIsTrue
    <3>2. CASE m = n
        BY <1>4, <1>5, <2>1, <3>2
    <3> QED
        BY <3>1, <3>2
  <2> QED
      BY <1>1, <2>2 DEF ToldIsTrue
<1>7. ASSUME NEW i \in 1..Len(events'), events'[i].node = n
      PROVE  e.phase = "start" /\ events'[i].phase # "start" /\ told'[n] = "start"
  <2>1. i + 1 \in 1..Len(events) /\ events'[i] = events[i + 1] /\ 1 < i + 1
      BY <1>2
  <2>2. e.phase = "start" /\ events'[i].phase # "start"
      BY <1>2, <1>7, <2>1 DEF TellingInv, QueueIsOrdered
  <2> QED
      BY <1>4, <2>2
<1>8. QueueIsTrue'
  <2> SUFFICES ASSUME NEW i \in 1..Len(events')
               PROVE  /\ events'[i].phase = "start" => told'[events'[i].node] = "none"
                      /\ told'[events'[i].node] \in {"none", "start"}
                      /\ status[events'[i].node] # "waiting"
                      /\ events'[i].phase = "done" => status[events'[i].node] = "done"
                      /\ events'[i].phase = "error" => status[events'[i].node] = "failed"
      BY <1>1 DEF QueueIsTrue
  <2>1. /\ i + 1 \in 1..Len(events) /\ events'[i] = events[i + 1]
        /\ events'[i].node \in OrderedNodes
      BY <1>2
  <2>2. /\ events'[i].phase = "start" => told[events'[i].node] = "none"
        /\ told[events'[i].node] \in {"none", "start"}
        /\ status[events'[i].node] # "waiting"
        /\ events'[i].phase = "done" => status[events'[i].node] = "done"
        /\ events'[i].phase = "error" => status[events'[i].node] = "failed"
      BY <2>1 DEF TellingInv, QueueIsTrue
  <2>3. CASE events'[i].node = n
      BY <1>7, <2>2, <2>3
  <2>4. CASE events'[i].node # n
      BY <1>4, <2>1, <2>2, <2>4
  <2> QED
      BY <2>3, <2>4
<1>9. QueueIsOrdered'
  <2>1. /\ \A i, j \in 1..Len(events') : i < j /\ events'[i].node = events'[j].node =>
              events'[i].phase = "start" /\ events'[j].phase # "start"
        /\ \A i, j \in 1..Len(events') : i < j /\ events'[i].node = "assemble" => events'[j].node = "assemble"
        /\ \A i \in 1..Len(events') :
              events'[i].phase # "start" /\ told[events'[i].node] = "none" =>
                  \/ events[1].node = events'[i].node /\ events[1].phase = "start"
                  \/ Before(events[i].node, "start", i)'
      BY <1>1, TailIsOrdered DEF GraphInv, TellingInv
  <2>2. ASSUME NEW i \in 1..Len(events'), events'[i].phase # "start", told'[events'[i].node] = "none"
        PROVE  Before(events[i].node, "start", i)'
    <3>1. events'[i].node # n /\ events'[i].node \in OrderedNodes
        BY <1>2, <1>5, <2>2
    <3>2. told[events'[i].node] = "none"
        BY <1>4, <2>2, <3>1
    <3> QED
        BY <2>1, <2>2, <3>1, <3>2
  <2>3. ASSUME told'["assemble"] # "none", NEW i \in 1..Len(events')
        PROVE  events'[i].node = "assemble"
    <3>1. i + 1 \in 1..Len(events) /\ events'[i] = events[i + 1] /\ 1 < i + 1
        BY <1>2
    <3>2. CASE n = "assemble"
        BY <1>2, <3>1, <3>2 DEF TellingInv, QueueIsOrdered
    <3>3. CASE n # "assemble"
        BY <1>4, <2>3, <3>1, <3>3 DEF TellingInv, QueueIsOrdered
    <3> QED
        BY <3>2, <3>3
  <2> QED
      BY <2>1, <2>2, <2>3 DEF QueueIsOrdered
<1>10. NothingIsLost'
  <2>1. \A m, p : \/ ~OnItsWay(m, p)
                  \/ OnItsWay(m, p)'
                  \/ n = m /\ e.phase = p
      BY <1>1, TailIsOnItsWay DEF GraphInv
  <2> SUFFICES ASSUME NEW m \in OrderedNodes
               PROVE /\ status[m] # "waiting" => told'[m] # "none" \/ OnItsWay(m, "start")'
                     /\ status[m] = "done" /\ (ctx = "live" \/ (m # "assemble" /\ status["assemble"] # "waiting")) =>
                            told'[m] = "done" \/ OnItsWay(m, "done")'
      BY <1>1 DEF NothingIsLost
  <2>2. /\ status[m] # "waiting" => told[m] # "none" \/ OnItsWay(m, "start")
        /\ status[m] = "done" /\ (ctx = "live" \/ (m # "assemble" /\ status["assemble"] # "waiting")) =>
               told[m] = "done" \/ OnItsWay(m, "done")
      BY DEF TellingInv, NothingIsLost
  <2>3. CASE m # n
      BY <1>4, <2>1, <2>2, <2>3
  <2>4. CASE m = n
    <3>1. told'[m] # "none" /\ told[m] # "done"
        BY <1>5, <2>4
    <3>2. OnItsWay(m, "done") => told'[m] = "done" \/ OnItsWay(m, "done")'
        BY <1>4, <2>1, <2>4
    <3> QED
        BY <2>2, <3>1, <3>2
  <2> QED
      BY <2>3, <2>4
<1> QED
    BY <1>6, <1>8, <1>9, <1>10 DEF TellingInv

-----------------------------------------------------------------------------
(* The invariant.                                                          *)

\* The inductive invariant: the graph, what is told of it, and the outcome.
IInv == GraphInv /\ TellingInv /\ OutcomeFollows

\* A run that has not begun satisfies every part of it.
THEOREM InitIInv == Init => IInv
<1> SUFFICES ASSUME Init PROVE IInv
    OBVIOUS
<1> USE PipelineAssumption, NodeNames DEF Init
<1>1. TypeOK
  <2>1. events \in Seq(Event) /\ Len(events) <= EventCap
      OBVIOUS
  <2>2. /\ triage \in [given : BOOLEAN, substantive : BOOLEAN, ids : SUBSET Changes]
        /\ sink \in [given : BOOLEAN, findings : SUBSET Finding, harmless : BOOLEAN]
      BY DEF NoVerdict, NoReport
  <2> QED
      BY <2>1, <2>2 DEF TypeOK, Event
<1>2. RouteFollowed /\ AnswersFollow /\ SinkFollows
    BY DEF RouteFollowed, AnswersFollow, SinkFollows, NoVerdict, NoReport, PaidNodes
<1>3. ToldIsTrue /\ QueueIsTrue /\ QueueIsOrdered /\ NothingIsLost
    BY DEF ToldIsTrue, QueueIsTrue, QueueIsOrdered, NothingIsLost
<1>4. OutcomeFollows
    BY DEF OutcomeFollows
<1> QED
    BY <1>1, <1>2, <1>3, <1>4 DEF IInv, GraphInv, TellingInv

\* What does not touch the nodes leaves their work alone.
LEMMA IdleGraph ==
    ASSUME GraphInv, TypeOK', UNCHANGED <<noLLM, cosmetic, status, answers, sink>>
    PROVE  GraphInv'
<1>1. UNCHANGED <<noLLM, cosmetic, status, triage, analysis, recs, asked, sink>>
    BY DEF answers
<1>2. RoutesPast' = RoutesPast /\ Offered' = Offered /\ BuildAdvisory' = BuildAdvisory
    BY <1>1 DEF RoutesPast, Offered, BuildAdvisory
<1> QED
    BY <1>1, <1>2 DEF GraphInv, RouteFollowed, AnswersFollow, SinkFollows, AllDone

\* What neither tells nor sends leaves the telling alone, even when the context ends.
LEMMA IdleTelling ==
    ASSUME TellingInv, UNCHANGED <<status, events, told>>, ctx' = ctx \/ ctx' = "ended"
    PROVE  TellingInv'
<1>1. ToldIsTrue' /\ QueueIsTrue'
    BY DEF TellingInv, ToldIsTrue, QueueIsTrue
<1>2. QueueIsOrdered'
    BY DEF TellingInv, QueueIsOrdered, Before
<1>3. \A m, p : OnItsWay(m, p)' <=> OnItsWay(m, p)
    BY DEF OnItsWay, Before
<1>4. NothingIsLost'
    BY <1>3 DEF TellingInv, NothingIsLost
<1> QED
    BY <1>1, <1>2, <1>4 DEF TellingInv

\* Every step preserves it.
THEOREM IInvStep == IInv /\ [Next]_vars => IInv'
<1> SUFFICES ASSUME IInv, [Next]_vars PROVE IInv'
    OBVIOUS
<1> USE NodeNames DEF IInv
<1>0. TypeOK
    BY DEF GraphInv
<1>1. ASSUME NEW n \in OrderedNodes, Begin(n) PROVE IInv'
  <2>1. GraphInv' /\ TellingInv'
      BY <1>1, BeginGraph, BeginTelling
  <2>2. OutcomeFollows'
      BY <1>1 DEF Begin, OutcomeFollows, caller
  <2> QED
      BY <2>1, <2>2
<1>2. ASSUME NEW n \in OrderedNodes, Complete(n), GraphInv' PROVE IInv'
  <2>1. TellingInv'
      BY <1>2, EndTelling DEF Complete, caller
  <2>2. OutcomeFollows'
      BY <1>2 DEF Complete, OutcomeFollows, caller
  <2> QED
      BY <1>2, <2>1, <2>2
<1>3. ASSUME NEW n \in Ingests, Ingest(n) PROVE IInv'
    BY <1>2, <1>3, PlainNodeGraph DEF Ingest
<1>4. CASE Deterministic
    BY <1>2, <1>4, PlainNodeGraph DEF Deterministic
<1>5. CASE Triage
    BY <1>2, <1>5, TriageGraph DEF Triage
<1>6. CASE Analyze
    BY <1>2, <1>6, AnalyzeGraph DEF Analyze
<1>7. CASE Recommend
    BY <1>2, <1>7, RecommendGraph DEF Recommend
<1>8. CASE Assemble
    BY <1>2, <1>8, AssembleGraph DEF Assemble
<1>9. ASSUME NEW n \in OrderedNodes, Fail(n) PROVE IInv'
  <2>1. GraphInv'
      BY <1>9, FailGraph
  <2>2. TellingInv'
      BY <1>9, EndTelling DEF Fail, caller
  <2>3. OutcomeFollows'
      BY <1>9 DEF Fail, OutcomeFollows, caller
  <2> QED
      BY <2>1, <2>2, <2>3
<1>10. CASE Close
  <2>1. TypeOK'
      BY <1>0, <1>10 DEF Close, TypeOK, answers, caller
  <2>2. GraphInv' /\ TellingInv'
      BY <1>10, <2>1, IdleGraph, IdleTelling DEF Close, caller
  <2>3. OutcomeFollows'
      BY <1>10 DEF Close, OutcomeFollows, caller
  <2> QED
      BY <2>2, <2>3
<1>11. CASE Drain
  <2>1. TypeOK'
    <3>1. events' \in Seq(Event) /\ Len(events') <= EventCap
        BY <1>0, <1>11, TailFacts DEF Drain
    <3>2. told' \in [OrderedNodes -> {"none", "start", "done", "error"}]
      <4>1. Head(events).phase \in {"start", "done", "error"}
          BY <1>0, <1>11, TailFacts DEF Drain
      <4> QED
          BY <1>0, <1>11, <4>1 DEF Drain, TypeOK
    <3>3. result' \in {"none", "report", "error"}
        BY <1>0, <1>11 DEF Drain, TypeOK
    <3> QED
        BY <1>0, <1>11, <3>1, <3>2, <3>3 DEF Drain, TypeOK, answers, Event
  <2>2. GraphInv'
      BY <1>11, <2>1, IdleGraph DEF Drain
  <2>3. TellingInv'
      BY <1>11, DrainTelling
  <2>4. OutcomeFollows'
      BY <1>11 DEF Drain, OutcomeFollows
  <2> QED
      BY <2>2, <2>3, <2>4
<1>12. CASE Drained
  <2>1. TypeOK'
      BY <1>0, <1>12 DEF Drained, TypeOK, answers, stream
  <2>2. GraphInv' /\ TellingInv'
      BY <1>12, <2>1, IdleGraph, IdleTelling DEF Drained, stream
  <2>3. OutcomeFollows'
      BY <1>12 DEF Drained, OutcomeFollows, stream
  <2> QED
      BY <2>2, <2>3
<1>13. CASE DrainGivesUp
  <2>1. TypeOK'
      BY <1>0, <1>13 DEF DrainGivesUp, TypeOK, answers, stream
  <2>2. GraphInv' /\ TellingInv'
      BY <1>13, <2>1, IdleGraph, IdleTelling DEF DrainGivesUp, stream
  <2>3. OutcomeFollows'
      BY <1>13 DEF DrainGivesUp, OutcomeFollows, stream
  <2> QED
      BY <2>2, <2>3
<1>14. CASE EndContext
  <2>1. TypeOK'
      BY <1>0, <1>14 DEF EndContext, TypeOK, answers, stream
  <2>2. GraphInv' /\ TellingInv'
      BY <1>14, <2>1, IdleGraph, IdleTelling DEF EndContext, stream
  <2>3. OutcomeFollows'
      BY <1>14 DEF EndContext, OutcomeFollows, stream
  <2> QED
      BY <2>2, <2>3
<1>15. CASE UNCHANGED vars
  <2>1. TypeOK'
      BY <1>0, <1>15 DEF vars, TypeOK, answers, stream, caller
  <2>2. GraphInv' /\ TellingInv'
      BY <1>15, <2>1, IdleGraph, IdleTelling DEF vars, stream, caller
  <2>3. OutcomeFollows'
      BY <1>15 DEF vars, OutcomeFollows, stream, caller
  <2> QED
      BY <2>2, <2>3
<1> QED
    BY <1>1, <1>3, <1>4, <1>5, <1>6, <1>7, <1>8, <1>9, <1>10, <1>11, <1>12, <1>13, <1>14, <1>15
    DEF Next, Return

\* The invariant holds of every run of the pipeline.
THEOREM Invariance == Spec => []IInv
<1>1. Init => IInv
    BY InitIInv
<1>2. IInv /\ [Next]_vars => IInv'
    BY IInvStep
<1> QED
    BY <1>1, <1>2, PTL DEF Spec

-----------------------------------------------------------------------------
(* What it gives.                                                          *)

\* Every variable keeps its type, whatever the models answer.
THEOREM TypeCorrect == Spec => []TypeOK
<1>1. IInv => TypeOK
    BY DEF IInv, GraphInv
<1> QED
    BY <1>1, Invariance, PTL

\* Whatever a model answers, money is spent only on what the tier before has let through, and
\* on no more than the cap: the gates of triageNode, analyzeNode and recommendNode.
THEOREM SpendingStaysGated == Spec => []SpendingIsGated
<1>1. IInv => SpendingIsGated
  <2> SUFFICES ASSUME IInv PROVE SpendingIsGated
      OBVIOUS
  <2>1. cosmetic \subseteq Changes /\ asked["triage"] \subseteq Offered
      BY DEF IInv, GraphInv, TypeOK, AnswersFollow
  <2>2. /\ IsFiniteSet(Offered) /\ (MaxAdvisory # 0 => Cardinality(Offered) <= MaxAdvisory)
        /\ Offered \cap cosmetic = {}
      BY <2>1, OfferedIsCapped DEF Offered
  <2>3. MaxAdvisory # 0 => Cardinality(asked["triage"]) <= MaxAdvisory
    <3>1. IsFiniteSet(asked["triage"]) /\ Cardinality(asked["triage"]) <= Cardinality(Offered)
        BY <2>1, <2>2, FS_Subset
    <3>2. Cardinality(asked["triage"]) \in Nat /\ Cardinality(Offered) \in Nat
        BY <2>2, <3>1, FS_CardinalityType
    <3> QED
        BY <2>2, <3>1, <3>2, PipelineAssumption
  <2>4. /\ asked["analyze"] \subseteq asked["triage"]
        /\ asked["recommend"] \subseteq asked["analyze"]
        /\ noLLM => asked["triage"] = {}
      BY DEF IInv, GraphInv, AnswersFollow
  <2> QED
      BY <2>1, <2>2, <2>3, <2>4 DEF SpendingIsGated, PaidNodes
<1> QED
    BY <1>1, Invariance, PTL

\* The report is the analysis, grounded and whole, whatever the models answer: buildAdvisory()
\* loses no classified change, and ground.Findings() lets no fabricated edit through.
THEOREM ReportsMatch == Spec => []ReportMatchesAnalysis
<1>1. IInv => ReportMatchesAnalysis
  <2> SUFFICES ASSUME IInv PROVE ReportMatchesAnalysis
      OBVIOUS
  <2>1. AdvisoryIsGrounded
    <3> SUFFICES ASSUME NEW f \in sink.findings
                 PROVE  /\ f.edit = "offered" => [change |-> f.change, edit |-> "located"] \in recs
                        /\ f.source = "change" => f.change \in asked["analyze"]
        BY DEF AdvisoryIsGrounded
    <3>1. f \in BuildAdvisory
        BY DEF IInv, GraphInv, SinkFollows
    <3>2. CASE \E r \in recs : f = [source |-> "risk", change |-> r.change, edit |-> Ground(r.edit)]
      <4>1. PICK r \in recs : f = [source |-> "risk", change |-> r.change, edit |-> Ground(r.edit)]
          BY <3>2
      <4>2. r \in Advised
          BY DEF IInv, GraphInv, TypeOK
      <4>3. f.edit = "offered" => r.edit = "located"
          BY <4>1, <4>2 DEF Ground, Advised
      <4>4. r = [change |-> r.change, edit |-> r.edit]
          BY <4>2 DEF Advised
      <4> QED
          BY <4>1, <4>3, <4>4
    <3>3. CASE \E a \in analysis : f = [source |-> "change", change |-> a.change, edit |-> "none"]
        BY <3>3 DEF IInv, GraphInv, AnswersFollow
    <3> QED
        BY <3>1, <3>2, <3>3 DEF BuildAdvisory
  <2>2. NothingAnalysedIsLost
    <3> SUFFICES ASSUME sink.given, NEW a \in analysis
                 PROVE  \E f \in sink.findings : f.change = a.change
        BY DEF NothingAnalysedIsLost
    <3>1. status["analyze"] = "done"
        BY DEF IInv, GraphInv, AnswersFollow
    <3>2. triage.substantive
        BY <3>1 DEF IInv, GraphInv, RouteFollowed, RoutesPast
    <3>3. sink.findings = BuildAdvisory
        BY <3>2 DEF IInv, GraphInv, SinkFollows
    <3>4. CASE \E r \in recs : r.change = a.change
      <4>1. PICK r \in recs : r.change = a.change
          BY <3>4
      <4>2. [source |-> "risk", change |-> r.change, edit |-> Ground(r.edit)] \in BuildAdvisory
          BY DEF BuildAdvisory
      <4> QED
          BY <3>3, <4>1, <4>2
    <3>5. CASE ~\E r \in recs : r.change = a.change
      <4>1. [source |-> "change", change |-> a.change, edit |-> "none"] \in BuildAdvisory
          BY <3>5 DEF BuildAdvisory
      <4> QED
          BY <3>3, <4>1
    <3> QED
        BY <3>4, <3>5
  <2> QED
      BY <2>1, <2>2 DEF ReportMatchesAnalysis
<1> QED
    BY <1>1, Invariance, PTL

\* Run() takes a run for a success only when every node of the route has succeeded and its
\* caller was told of it, even if the context ended on the way.
THEOREM ResultsAreWhole == Spec => []ResultIsWhole
<1>1. IInv => ResultIsWhole
  <2> SUFFICES ASSUME IInv, result = "report"
               PROVE  /\ sink.given
                      /\ AllDone(OrderedNodes \ Unvisited)
                      /\ \A n \in Unvisited : status[n] = "waiting" /\ told[n] = "none"
                      /\ \A n \in OrderedNodes \ Unvisited :
                            told[n] = "done" \/ (n = "assemble" /\ ctx = "ended" /\ told[n] = "start")
      BY DEF ResultIsWhole
  <2> USE NodeNames
  <2>1. sink.given /\ closed /\ events = <<>> /\ status["assemble"] = "done"
      BY DEF IInv, OutcomeFollows, GraphInv, SinkFollows
  <2>2. \A m, p : ~OnItsWay(m, p)
      BY <2>1 DEF OnItsWay, Before
  <2>3. ASSUME NEW n \in Unvisited PROVE status[n] = "waiting" /\ told[n] = "none"
    <3>1. RoutesPast /\ n \in {"analyze", "recommend"}
        BY DEF Unvisited
    <3>2. status[n] = "waiting"
        BY <3>1 DEF IInv, GraphInv, RouteFollowed
    <3> QED
        BY <3>1, <3>2 DEF IInv, TellingInv, ToldIsTrue
  <2>4. ASSUME NEW n \in OrderedNodes \ Unvisited PROVE status[n] = "done"
    <3>1. CASE n = "assemble"
        BY <2>1, <3>1
    <3>2. CASE n # "assemble"
        BY <2>1, <3>2, AssembleIsLast DEF IInv, Unvisited
    <3> QED
        BY <3>1, <3>2
  <2>5. ASSUME NEW n \in OrderedNodes \ Unvisited
        PROVE  told[n] = "done" \/ (n = "assemble" /\ ctx = "ended" /\ told[n] = "start")
    <3>1. told[n] # "none"
        BY <2>2, <2>4 DEF IInv, TellingInv, NothingIsLost
    <3>2. told[n] \in {"start", "done"} /\ ctx \in {"live", "ended"}
        BY <2>4, <3>1 DEF IInv, TellingInv, ToldIsTrue, GraphInv, TypeOK
    <3>3. ctx = "live" \/ n # "assemble" => told[n] = "done"
        BY <2>1, <2>2, <2>4 DEF IInv, TellingInv, NothingIsLost
    <3> QED
        BY <3>2, <3>3
  <2> QED
      BY <2>1, <2>3, <2>4, <2>5 DEF AllDone
<1> QED
    BY <1>1, Invariance, PTL

\* Every step of the pipeline is a step of the progress the job service relies on, or none:
\* each node is told to start once and to end once, and the final node starts last.
THEOREM ProgressIsImplemented == Spec => ImplementsRunProgress
<1>1. Init => Progress!ProgressInit
    BY DEF Init, Progress!ProgressInit
<1>2. ASSUME IInv, [Next]_vars PROVE [Progress!ProgressNext]_told
  <2>1. CASE Drain
    <3> DEFINE n == events[1].node
    <3>1. Head(events) = events[1] /\ events # <<>> /\ events[1].phase \in {"start", "done", "error"}
        BY <1>2, <2>1, TailFacts DEF Drain, IInv, GraphInv
    <3>2. CASE told' = told
        BY <3>2
    <3>3. CASE told' = [told EXCEPT ![n] = events[1].phase]
      <4>1. /\ n \in OrderedNodes
            /\ events[1].phase = "start" =>
                  /\ told[n] = "none" /\ told["assemble"] = "none"
                  /\ n = "assemble" => \A m \in OrderedNodes : told[m] \in {"none", "done"}
            /\ events[1].phase # "start" => told[n] = "start"
          BY <1>2, <3>1, TellFacts DEF IInv
      <4>2. CASE events[1].phase = "start"
          BY <3>3, <4>1, <4>2 DEF Progress!ProgressNext, Progress!Started
      <4>3. CASE events[1].phase # "start"
          BY <3>1, <3>3, <4>1, <4>3 DEF Progress!ProgressNext, Progress!Ended
      <4> QED
          BY <4>2, <4>3
    <3> QED
        BY <2>1, <3>1, <3>2, <3>3 DEF Drain
  <2>2. CASE told' = told
      BY <2>2
  <2>3. Next /\ ~Drain => told' = told
      BY DEF Next, Return, Begin, Complete, Ingest, Deterministic, Triage, Analyze, Recommend, Assemble,
             Fail, Close, Drained, DrainGivesUp, EndContext, caller
  <2>4. UNCHANGED vars => told' = told
      BY DEF vars, caller
  <2> QED
      BY <1>2, <2>1, <2>2, <2>3, <2>4
<1> QED
    BY <1>1, <1>2, Invariance, PTL DEF Spec, ImplementsRunProgress, Progress!ProgressSpec
=============================================================================
