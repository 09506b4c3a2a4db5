----------------------------- MODULE Numbering ------------------------------
(***************************************************************************)
(* The numbering rules (internal/rules): the validator of numbering.go,    *)
(* the document-wide plan of renumber.go with its self-check, the parallel *)
(* runs of parallel.go, and how internal/report/assemble.go puts their     *)
(* actions together.  They work on the tree that StructureTree builds.     *)
(*                                                                         *)
(* A numbered sequence is the set of its nodes; their order is document    *)
(* order.                                                                  *)
(***************************************************************************)
EXTENDS StructureTree

CONSTANT MinParallelRun    \* the shortest run that is compared (3 in the code)

ASSUME NumberingAssumption == MinParallelRun \in Nat \ {0}

VARIABLES findings,   \* what the validator reports: a category and a node
          plan,       \* Renumbering.ByParagraph: the new marker of a node
          saved,      \* what Verify() puts back
          remaining,  \* what Verify() still finds
          parallel,   \* what the comparison of parallel runs reports
          shown       \* the actions that the report displays

numberingVars == <<findings, plan, saved, remaining, parallel, shown>>
vars == <<treeVars, numberingVars>>

-----------------------------------------------------------------------------
Finding(category, n) == [category |-> category, node |-> n]

\* collectKind() for chapters, articleRuns() for articles: one run for each word
\* that introduces them, and checkChildGroups() / markerGroups() for the markers
\* under one parent: one list for each level name and form.
ChapterRun  == {n \in DOMAIN nodes : nodes[n].kind = "bab"}
Articles    == {n \in DOMAIN nodes : IsArticleLevel(nodes[n].kind)}
ArticleRuns == {{n \in Articles : nodes[n].word = nodes[a].word} : a \in Articles}
MarkerGroup(c) == {d \in Children(nodes[c].parent) :
                      /\ HasMarker(d)
                      /\ nodes[d].kind = nodes[c].kind
                      /\ nodes[d].marker.form = nodes[c].marker.form}
MarkerGroups == {MarkerGroup(c) : c \in {n \in DOMAIN nodes : HasMarker(n)}}
Sequences    == (ArticleRuns \cup MarkerGroups \cup {ChapterRun}) \ {{}}

\* checkSequence(): a list of two or more must count 1, 2, 3, ... in ord.
checkSequence(S, ord) ==
    LET first == Min(S)
        later == S \ {first}
        prev(n) == Max({m \in S : m < n})
        forms == {nodes[n].marker.form : n \in {m \in S : HasMarker(m)}}
        duplicate  == {n \in S : \E m \in S : m < n /\ ord[m] = ord[n]}
        badStart   == {n \in {first} : ord[n] # 1}
        outOfOrder == {n \in later : ord[n] < ord[prev(n)]}
        gap        == {n \in later : ord[n] > ord[prev(n)] + 1}
        mixedForm  == {n \in {first} : Cardinality(forms) > 1}
    IN  IF Cardinality(S) < 2 THEN {}
        ELSE {Finding("duplicate", n) : n \in duplicate} \cup {Finding("badStart", n) : n \in badStart}
             \cup {Finding("outOfOrder", n) : n \in outOfOrder} \cup {Finding("gap", n) : n \in gap}
             \cup {Finding("mixedForm", n) : n \in mixedForm}

\* checkDecimalPrefix(): a decimal clause of an article starts with its number.
checkDecimalPrefix ==
    {Finding("badPrefix", c) : c \in
        {c \in DOMAIN nodes : /\ nodes[c].kind = "clause" /\ nodes[c].parent \in Articles
                              /\ Digit(nodes[c].marker.token.value[1]) # nodes[nodes[c].parent].number}}

Ordinals == [n \in DOMAIN nodes |-> nodes[n].ordinal]
ValidateNumbering == checkDecimalPrefix \cup UNION {checkSequence(S, Ordinals) : S \in Sequences}

-----------------------------------------------------------------------------
\* currentOrdinal(), renumberAction() and targetOrdinal().
currentOrdinal(n) == IF HasMarker(n) THEN nodes[n].marker.ordinal ELSE nodes[n].ordinal

\* Mutant: the action forgets the delimiters of the list.
renumberActionDotted(n, want) ==
    IF HasMarker(n) THEN Render(nodes[n].marker.kind, "dot", want)
    ELSE [token |-> Digit(want), form |-> "bare"]

renumberAction(n, want) ==
    IF HasMarker(n) THEN Render(nodes[n].marker.kind, nodes[n].marker.form, want)
    ELSE [token |-> Digit(want), form |-> "bare"]

\* How Verify() reads an action back: as a heading number when it is bare, and
\* otherwise as a marker on its own, or not at all.
targetOrdinal(new, n) ==
    IF new.form = "bare" THEN ParseArticleNumber(new.token)
    ELSE LET m == ParseMarker(new.token, new.form)
         IN  IF m.kind # "unknown" THEN m.ordinal ELSE currentOrdinal(n)

\* Mutant: the repair of a single check, one more than the member before.
WantedLocally(n) ==
    LET before == {m \in CHOOSE S \in Sequences : n \in S : m < n}
    IN  IF before = {} THEN 1 ELSE nodes[Max(before)].ordinal + 1

\* addSequence(): the member at position i is to be i.
Wanted(n) == Position(CHOOSE S \in Sequences : n \in S, n)

ApplyTo(n, ordinal, number) ==
    [nodes[n] EXCEPT !.ordinal = ordinal, !.number = number,
                     !.marker.ordinal = IF HasMarker(n) THEN ordinal ELSE @]

-----------------------------------------------------------------------------
NumberingInit ==
    findings = {} /\ plan = <<>> /\ saved = <<>> /\ remaining = {} /\ parallel = {} /\ shown = {}

NodesKept == UNCHANGED <<style, lines, learned, stack, owner, captioned, ids, ends, open>>

Validate ==
    /\ phase = "built"
    /\ findings' = ValidateNumbering
    /\ phase' = "validated"
    /\ NodesKept /\ UNCHANGED <<nodes, plan, saved, remaining, parallel, shown>>

PlanRenumbering ==
    /\ phase = "validated"
    /\ plan' = [n \in {m \in UNION Sequences : currentOrdinal(m) # Wanted(m)} |->
                   renumberAction(n, Wanted(n))]
    /\ phase' = "planned"
    /\ NodesKept /\ UNCHANGED <<nodes, findings, saved, remaining, parallel, shown>>

\* Verify(): the plan is written into the tree ...
VerifyApply ==
    /\ phase = "planned" /\ DOMAIN plan # {}
    /\ saved' = [n \in DOMAIN plan |-> [ordinal |-> currentOrdinal(n), number |-> nodes[n].number]]
    /\ nodes' = [n \in DOMAIN nodes |->
                   IF n \in DOMAIN plan THEN ApplyTo(n, targetOrdinal(plan[n], n), plan[n].token)
                   ELSE nodes[n]]
    /\ phase' = "applied"
    /\ NodesKept /\ UNCHANGED <<findings, plan, remaining, parallel, shown>>

\* Mutant: only the articles are validated again.
VerifyCheckArticles ==
    /\ phase = "applied"
    /\ remaining' = UNION {checkSequence(S, Ordinals) : S \in ArticleRuns}
    /\ phase' = "checked"
    /\ NodesKept /\ UNCHANGED <<nodes, findings, plan, saved, parallel, shown>>

\* ... the validator runs again ...
VerifyCheck ==
    /\ phase = "applied"
    /\ remaining' = ValidateNumbering
    /\ phase' = "checked"
    /\ NodesKept /\ UNCHANGED <<nodes, findings, plan, saved, parallel, shown>>

\* Mutant: the restore forgets the number as it was written.
VerifyRestoreOrdinals ==
    /\ phase = "checked"
    /\ nodes' = [n \in DOMAIN nodes |->
                   IF n \in DOMAIN saved THEN ApplyTo(n, saved[n].ordinal, nodes[n].number)
                   ELSE nodes[n]]
    /\ phase' = "verified"
    /\ NodesKept /\ UNCHANGED <<findings, plan, saved, remaining, parallel, shown>>

\* ... and the deferred restore undoes it.
VerifyRestore ==
    /\ phase = "checked"
    /\ nodes' = [n \in DOMAIN nodes |->
                   IF n \in DOMAIN saved THEN ApplyTo(n, saved[n].ordinal, saved[n].number)
                   ELSE nodes[n]]
    /\ phase' = "verified"
    /\ NodesKept /\ UNCHANGED <<findings, plan, saved, remaining, parallel, shown>>

\* A plan without actions is not verified.
VerifyNothing ==
    /\ phase = "planned" /\ DOMAIN plan = {}
    /\ phase' = "verified"
    /\ NodesKept /\ UNCHANGED <<nodes, numberingVars>>

\* attachPlanned(): a finding shows the planned action of its paragraph, or none.
AttachPlanned ==
    /\ phase = "verified"
    /\ shown' = {[type |-> "renumber", node |-> f.node] :
                    f \in {g \in findings : g.node \in DOMAIN plan}}
    /\ phase' = "attached"
    /\ NodesKept /\ UNCHANGED <<nodes, findings, plan, saved, remaining, parallel>>

-----------------------------------------------------------------------------
\* interleaved(): the runs alternate, at 6 of 10 neighbours or more.
interleaved(runs) ==
    LET all == UNION runs
        switches == {n \in all : \E m \in all : /\ m < n /\ nodes[m].word # nodes[n].word
                                                /\ ~\E o \in all : m < o /\ o < n}
    IN  /\ Cardinality(all) >= 2 * MinParallelRun
        /\ 10 * Cardinality(switches) >= 6 * (Cardinality(all) - 1)

\* parallelRuns(): the article runs that are long enough, if they alternate.
parallelRuns ==
    LET runs == {r \in ArticleRuns : Cardinality(r) >= MinParallelRun}
    IN  IF Cardinality(runs) >= 2 /\ interleaved(runs) THEN runs ELSE {}

\* CheckParallelSequences(): headings beyond the shortest run are to be deleted, and
\* a heading whose number differs from the first run's at its position is reported.
CheckParallelSequences ==
    /\ phase = "attached"
    /\ LET runs     == parallelRuns
           shortest == Min({Cardinality(r) : r \in runs})
           extra    == {n \in UNION runs : \E r \in runs : n \in r /\ Position(r, n) > shortest}
           base     == CHOOSE r \in runs : Min(r) = Min(UNION runs)
           apart    == {n \in (UNION runs) \ extra : \E r \in runs \ {base}, m \in base :
                           n \in r /\ Position(base, m) = Position(r, n)
                           /\ nodes[m].ordinal # nodes[n].ordinal}
       IN  IF runs = {} THEN UNCHANGED <<parallel, shown>>
           ELSE /\ parallel' = {Finding("unpaired", n) : n \in extra} \cup {Finding("apart", n) : n \in apart}
                /\ shown' = shown \cup {[type |-> "delete", node |-> n] : n \in extra}
    /\ phase' = "reported"
    /\ NodesKept /\ UNCHANGED <<nodes, findings, plan, saved, remaining>>

-----------------------------------------------------------------------------
Init == TreeInit /\ NumberingInit

Next ==
    \/ TreeNext /\ UNCHANGED numberingVars
    \/ Validate \/ PlanRenumbering
    \/ VerifyApply \/ VerifyCheck \/ VerifyRestore \/ VerifyNothing
    \/ AttachPlanned \/ CheckParallelSequences

Spec == Init /\ [][Next]_vars

-----------------------------------------------------------------------------
\* The types of the rules' state.
TypeOK ==
    /\ TreeTypeOK
    /\ {f.node : f \in findings \cup remaining \cup parallel} \subseteq DOMAIN nodes
    /\ DOMAIN plan \subseteq DOMAIN nodes /\ DOMAIN saved \subseteq DOMAIN plan
    /\ {a.node : a \in shown} \subseteq DOMAIN nodes

\* A list of two or more is changed by the plan exactly when the validator has something
\* to say of its order: no finding without an action in its list, no action on a list
\* that is in order.  (Both group the nodes alike, in checkChildGroups() and markerGroups();
\* what is compared is five checks between neighbours with one count from one.)
PlanFollowsFindings ==
    phase = "planned" =>
        \A S \in {T \in Sequences : Cardinality(T) > 1} :
            (S \cap DOMAIN plan # {}) <=> (checkSequence(S, Ordinals) # {})

\* Once every planned number is in place the validator accepts every sequence: the
\* actions cannot contradict each other as the repairs of the single checks did
\* (renumber.go:11), whatever the document looked like.
PlanSettlesEverySequence ==
    phase = "planned" =>
        LET after == [n \in DOMAIN nodes |-> IF n \in DOMAIN plan THEN Wanted(n) ELSE nodes[n].ordinal]
        IN  \A S \in Sequences : checkSequence(S, after) = {}

\* Both: the plan is the fix that it is presented as.
PlanIsAFix == PlanFollowsFindings /\ PlanSettlesEverySequence

\* What the patterns of ParseMarker() and the limits of classifyToken() leave of the
\* numbers of a list: three digits, two letters, or a numeral of four letters (the
\* first one that does not fit is xviii).
FitsThePattern(kind, n) ==
    /\ kind = "digit" => n < 1000
    /\ IsAlpha(kind) => Len(formatAlpha[n]) <= 2
    /\ IsRoman(kind) => Len(formatRoman[n]) <= 4

\* A new marker is written in the list's own symbols and delimiters, and read again
\* in a list it means the number that the plan wanted (in one of its readings), as far
\* as the patterns reach; decimals lose their prefix.
PlanIsReadable ==
    phase = "planned" =>
        \A n \in {m \in DOMAIN plan : /\ HasMarker(m) /\ nodes[m].marker.kind # "decimal"
                                      /\ FitsThePattern(nodes[m].marker.kind, Wanted(m))} :
            LET m == ParseMarker(plan[n].token, plan[n].form)
            IN  /\ m.form = nodes[n].marker.form
                /\ Wanted(n) \in {m.ordinal, m.altOrdinal}
                /\ m.kind = nodes[n].marker.kind \/ m.altKind = nodes[n].marker.kind

\* Both: what a marker is read as is what its list means, and what is written is read so.
MarkersAreLegible == OrderlyListsCount /\ PlanIsReadable

\* The self-check leaves no trace: outside Verify() every node says what its paragraph
\* says, its number as it is written there and its ordinal a reading of it, and the
\* marker and the node agree.
TreeSaysWhatIsWritten ==
    phase \notin {"applied", "checked"} =>
        \A n \in DOMAIN nodes :
            LET l == lines[nodes[n].head]
            IN  /\ nodes[n].number = l.number
                /\ HasMarker(n) => nodes[n].marker.ordinal = nodes[n].ordinal
                /\ nodes[n].ordinal \in IF HasMarker(n)
                                        THEN {MarkerAt(l).ordinal, MarkerAt(l).altOrdinal}
                                        ELSE {ParseArticleNumber(l.number)}

\* Outside Verify() the names that findings and citations lead to are those of the tree
\* as it stands, in every later phase: what the self-check writes into it, a number at a
\* time and without naming anything again, is gone when a name is next looked up.
NamesFollowTheTree == phase \notin {"applied", "checked"} => NamesAreCurrent

\* Both halves of what a citation relies on: no two nodes share a name and the first to
\* bear one keeps it plain (uniqueID()), and no name speaks of a kind, a number or a
\* parent that its node had before its list was settled (reassignIDs()).
NamesAreSound == FirstKeepsItsName /\ NamesFollowTheTree

\* When the self-check stays silent the report says that every sequence is in order
\* once the plan is applied (nodes.go:122).  That is earned: every action for a list of
\* two or more, read back as it is written, was understood as the number it stands for.
SilenceIsEarned ==
    phase = "reported" /\ remaining = {} =>
        \A S \in {T \in Sequences : Cardinality(T) > 1} :
            \A n \in S \cap DOMAIN plan : targetOrdinal(plan[n], n) = Wanted(n)

\* Both: the self-check neither changes what it checks nor passes what it did not see.
SelfCheckIsHonest == TreeSaysWhatIsWritten /\ SilenceIsEarned

\* NOT TRUE of the code.  "Because the plan assigns 1..N by construction this should
\* always come back empty" (renumber.go:173): once the plan is applied the self-check
\* finds no sequence out of order.  (It may find clauses whose prefix the plan never
\* touches; these are left out here.)
VerifyComesBackEmpty == {f \in remaining : f.category # "badPrefix"} = {}
=============================================================================
