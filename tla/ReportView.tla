----------------------------- MODULE ReportView -----------------------------
(***************************************************************************)
(* The report as the reader sees it (internal/report/view.go): BuildView() *)
(* files every finding under the change it concerns, or among the warnings.*)
(***************************************************************************)
EXTENDS References

VARIABLES unfiled,   \* the findings that are still to be filed
          views,     \* views[k]: what is filed under change k
          warnings   \* what is filed under none

vars == <<docVars, diffVars, refVars, phase, unfiled, views, warnings>>

-----------------------------------------------------------------------------
\* warningOnly(), of a finding without an action.
warningOnly(f) ==
    f.category \in {"broken", "shifted", "section_removed"} /\ f.actions = {}

\* currIdx, prevIdx: the last change that covers the paragraph; nodeIdx: the first one
\* with the node; articleIdx: the changes in the article.
Covering(f) == {k \in DOMAIN changes : f.para \in IF f.side = "prev" THEN PrevIn(k) ELSE CurrIn(k)}
SameNode(f) == {k \in DOMAIN changes : f.node # <<>> /\ changes[k].node = f.node}
SameArticle(f) ==
    {k \in DOMAIN changes : articleOf(f.node) # {} /\ articleOf(changes[k].node) = articleOf(f.node)}

\* matchChange(): by paragraph, then by node.
matchChange(f) ==
    IF Covering(f) # {} THEN {Max(Covering(f))}
    ELSE IF SameNode(f) # {} THEN {Min(SameNode(f))} ELSE {}

\* Mutant: with several changes in an article the first one takes the finding.
placeOfFirst(f) ==
    IF matchChange(f) # {} THEN matchChange(f)
    ELSE IF SameArticle(f) # {} THEN {Min(SameArticle(f))} ELSE {}

\* ... and then by article, when only one change is in it.
placeOf(f) ==
    IF matchChange(f) # {} THEN matchChange(f)
    ELSE IF Cardinality(SameArticle(f)) = 1 THEN SameArticle(f) ELSE {}

-----------------------------------------------------------------------------
BuildView ==
    /\ phase = "assembled"
    /\ unfiled' = found
    /\ views' = [k \in DOMAIN changes |-> <<>>]
    /\ phase' = "filing"
    /\ UNCHANGED <<docVars, diffVars, refVars, warnings>>

AtFinding == phase = "filing" /\ unfiled # <<>>
Filed == Head(unfiled)

FileWarning ==
    /\ AtFinding /\ (warningOnly(Filed) \/ placeOf(Filed) = {})
    /\ warnings' = Append(warnings, Filed)
    /\ unfiled' = Tail(unfiled)
    /\ UNCHANGED <<docVars, diffVars, refVars, phase, views>>

FileUnderChange ==
    /\ AtFinding /\ ~warningOnly(Filed)
    /\ \E k \in placeOf(Filed) : views' = [views EXCEPT ![k] = Append(@, Filed)]
    /\ unfiled' = Tail(unfiled)
    /\ UNCHANGED <<docVars, diffVars, refVars, phase, warnings>>

Show ==
    /\ phase = "filing" /\ unfiled = <<>>
    /\ phase' = "shown"
    /\ UNCHANGED <<docVars, diffVars, refVars, unfiled, views, warnings>>

-----------------------------------------------------------------------------
Init == DiffInit /\ RefInit /\ unfiled = <<>> /\ views = <<>> /\ warnings = <<>>

Next ==
    \/ DiffNext /\ UNCHANGED <<refVars, unfiled, views, warnings>>
    \/ RefNext /\ UNCHANGED <<unfiled, views, warnings>>
    \/ BuildView \/ FileWarning \/ FileUnderChange \/ Show

Spec == Init /\ [][Next]_vars

-----------------------------------------------------------------------------
\* The types of the whole report's state.
TypeOK ==
    /\ DiffTypeOK /\ RefTypeOK
    /\ DOMAIN views \subseteq DOMAIN changes
    /\ phase \in {"draft", "read", "compared", "citations", "assembled", "filing", "shown"}

\* "Nothing is shown twice and nothing is silently lost" (view.go:72): the findings under
\* the changes and the warnings together are the findings, each as often as it was found.
Placed(k, fs, f) == {<<k, i>> : i \in {n \in DOMAIN fs : fs[n] = f}}
ShownAt(f) == Placed(0, warnings, f) \cup UNION {Placed(k, views[k], f) : k \in DOMAIN views}
EveryFindingShownOnce ==
    phase = "shown" =>
        \A f \in ToSet(found) : Cardinality(ShownAt(f)) = Cardinality({k \in DOMAIN found : found[k] = f})

\* A fix for a paragraph that was edited is shown with this edit and with no other; one
\* for a paragraph that was not is shown only with an edit of the same node, or with the
\* only edit of the same article (filing it under the wrong edit is worse than not filing
\* it, view.go:133).
FixesAreFiledWithTheirEdit ==
    \A k \in DOMAIN views : \A f \in ToSet(views[k]) :
        \/ Covering(f) = {k}
        \/ Covering(f) = {} /\ f.node # <<>> /\ (changes[k].node = f.node \/ SameArticle(f) = {k})

\* Both: every finding is shown once, and where it belongs.
FindingsAreFiledOnce == EveryFindingShownOnce /\ FixesAreFiledWithTheirEdit
=============================================================================
