------------------------------ MODULE TextDiff ------------------------------
(***************************************************************************)
(* Two versions of a document and the comparison of their texts:           *)
(* textdiff.Compare() of internal/textdiff/diff.go, after the diff library *)
(* has aligned the paragraphs.                                             *)
(*                                                                         *)
(* A document is a sequence of paragraphs: blank, the heading of a Pasal,  *)
(* an ayat with its text, or body text.  The first one is the heading of   *)
(* the first Pasal (a list before it nests differently, see StructureTree).*)
(* The new version is the old one after some edits.                        *)
(***************************************************************************)
EXTENDS Citations, SequencesExt

CONSTANTS Texts,       \* what a paragraph may say
          Drafts,      \* the old versions
          Paragraphs,  \* what an edit may write
          MaxEdits,    \* bound on the number of edits
          Slack        \* how many paragraphs the diff library may fail to match

\* A paragraph: its kind and number, its text, and how it is punctuated.
Paras == [kind : {"blank", "pasal", "ayat", "body"}, number : Nat, text : Texts, mark : {1, 2}]

ASSUME TextDiffAssumption ==
    /\ MaxEdits \in Nat /\ Slack \in Nat
    /\ Drafts \subseteq Seq(Paras) /\ \A d \in Drafts : d # <<>> /\ d[1].kind = "pasal"
    /\ Paragraphs \subseteq Paras

VARIABLES prev, curr,  \* the two versions
          edits,       \* how many edits were made
          prevIDs, currIDs,  \* the IDs of their nodes
          matching,    \* what the diff library matched: pairs of positions
          pi, ci,      \* how far Compare() has read its result, in the two versions
          runs,        \* the deletions and insertions it has read
          changes,     \* the changes built from them
          phase

docVars  == <<prev, curr, edits, prevIDs, currIDs>>
diffVars == <<matching, pi, ci, runs, changes>>

-----------------------------------------------------------------------------
Para(kind, number, text, mark) == [kind |-> kind, number |-> number, text |-> text, mark |-> mark]
Blank           == Para("blank", 0, "none", 1)
PasalHead(n)    == Para("pasal", n, "none", 1)
Ayat(n, text)   == Para("ayat", n, text, 1)
Body(text)      == Para("body", 0, text, 1)
Repunctuated(p) == {[q EXCEPT !.mark = 2] : q \in {p} \ {Blank}}

\* The tree that structure.Build() makes of such a document: a node is the position of
\* its heading, every ayat hangs under the last Pasal, and the innermost node at a
\* paragraph is the last one that began.
NodesOf(d)      == {i \in DOMAIN d : d[i].kind \in {"pasal", "ayat"}}
LastOf(S, p)    == LET T == {i \in S : i <= p} IN IF T = {} THEN 0 ELSE Max(T)
OwnerOf(d, p)   == LastOf(NodesOf(d), p)
ArticleAt(d, p) == LastOf({i \in DOMAIN d : d[i].kind = "pasal"}, p)

\* The IDs of its nodes, <<>> where no node begins: each paragraph is named after the
\* names before it.
NameOf(names, d, p) ==
    IF d[p].kind \in {"pasal", "ayat"}
    THEN uniqueID(ToSet(names) \ {<<>>},
                  NodeID(IF d[p].kind = "ayat" THEN names[ArticleAt(d, p)] ELSE <<>>, d[p].kind, d[p].number))
    ELSE <<>>
IDsOf(d) ==
    LET named[p \in 0..Len(d)] ==
          IF p = 0 THEN <<>> ELSE Append(named[p - 1], NameOf(named[p - 1], d, p))
    IN  named[Len(d)]

\* The members of a finite set in an order given as a set of pairs; those of a set of
\* numbers as they ascend.
Arranged(S, before) ==
    [k \in 1..Cardinality(S) |-> CHOOSE x \in S : Cardinality({y \in S : <<y, x>> \in before}) = k - 1]
Ascending(S) == Arranged(S, {m \in S \X S : m[1] < m[2]})

-----------------------------------------------------------------------------
DiffInit ==
    /\ prev \in Drafts /\ curr = prev /\ edits = 0 /\ prevIDs = <<>> /\ currIDs = <<>>
    /\ matching = {} /\ pi = 1 /\ ci = 1 /\ runs = <<>> /\ changes = <<>>
    /\ phase = "draft"

\* An edit of the author: a paragraph is deleted, inserted, replaced or moved.
Revise ==
    /\ phase = "draft" /\ edits < MaxEdits
    /\ \E i \in 2..(Len(curr) + 1) :
         \/ \E p \in Paragraphs : curr' = InsertAt(curr, i, p)
         \/ i <= Len(curr) /\ curr' = RemoveAt(curr, i)
         \/ i <= Len(curr) /\ \E p \in Paragraphs \cup Repunctuated(curr[i]) : curr' = ReplaceAt(curr, i, p)
         \/ i <= Len(curr) /\ \E j \in 2..Len(curr) : curr' = InsertAt(RemoveAt(curr, i), j, curr[i])
    /\ edits' = edits + 1
    /\ UNCHANGED <<prev, prevIDs, currIDs, diffVars, phase>>

\* DiffMainRunes() of the library: what is common at both ends is matched, and between
\* them as many paragraphs in order as there can be, or up to Slack fewer (its
\* shortcuts, and its time limit of a second, can miss some).  DiffCleanupMerge() may
\* shift an edit over a common start that it repeats as a whole; the instances have
\* no such edit, and the proofs use of the matching only that it pairs equal
\* paragraphs in order.
InOrder(M) == \A a, b \in M : a[1] < b[1] <=> a[2] < b[2]
CommonAtStart ==
    {<<n, n>> : n \in {k \in (DOMAIN prev) \cap (DOMAIN curr) : \A i \in 1..k : prev[i] = curr[i]}}
CommonAtEnd ==
    {m \in (DOMAIN prev) \X (DOMAIN curr) :
        /\ Len(prev) - m[1] = Len(curr) - m[2]
        /\ \A n \in 0..(Len(prev) - m[1]) : prev[m[1] + n] = curr[m[2] + n]
        /\ \A h \in CommonAtStart : h[1] < m[1] /\ h[2] < m[2]}
Matchings ==
    LET between == {m \in (DOMAIN prev) \X (DOMAIN curr) :
                      /\ prev[m[1]] = curr[m[2]]
                      /\ \A h \in CommonAtStart : h[1] < m[1] /\ h[2] < m[2]
                      /\ \A t \in CommonAtEnd : m[1] < t[1] /\ m[2] < t[2]}
        ordered == {N \in SUBSET between : InOrder(N)}
        most    == Max({Cardinality(N) : N \in ordered})
    IN  {CommonAtStart \cup CommonAtEnd \cup N : N \in {O \in ordered : Cardinality(O) >= most - Slack}}

\* Its result as Compare() reads it: up to the next pair of matched paragraphs, or to the
\* end of both versions, what is passed is deleted or inserted, deletions first.
Ends      == <<Len(prev) + 1, Len(curr) + 1>>
NextEqual == CHOOSE m \in matching \cup {Ends} :
                m[1] >= pi /\ \A k \in matching \cup {Ends} : k[1] >= pi => m[1] <= k[1]
AllRead   == <<pi, ci>> = Ends

\* Both versions are parsed, and aligned.
Align ==
    /\ phase = "draft"
    /\ prevIDs' = IDsOf(prev) /\ currIDs' = IDsOf(curr)
    /\ matching' \in Matchings
    /\ phase' = "read"
    /\ UNCHANGED <<prev, curr, edits, pi, ci, runs, changes>>

-----------------------------------------------------------------------------
Run(op, start, n) == [op |-> op, first |-> start, last |-> start + n - 1]

\* The loop over the diffs: three cases, each moving on in the versions it covers.
ReadEqual ==
    /\ phase = "read" /\ ~AllRead /\ NextEqual = <<pi, ci>>
    /\ pi' = pi + 1 /\ ci' = ci + 1
    /\ UNCHANGED <<docVars, matching, runs, changes, phase>>

\* Mutant: an insertion moves on in the old version too.
ReadInsertBoth ==
    /\ phase = "read" /\ pi = NextEqual[1] /\ ci < NextEqual[2]
    /\ runs' = Append(runs, Run("insert", ci, NextEqual[2] - ci))
    /\ pi' = pi + NextEqual[2] - ci /\ ci' = NextEqual[2]
    /\ UNCHANGED <<docVars, matching, changes, phase>>

ReadDelete ==
    /\ phase = "read" /\ pi < NextEqual[1]
    /\ runs' = Append(runs, Run("delete", pi, NextEqual[1] - pi))
    /\ pi' = NextEqual[1]
    /\ UNCHANGED <<docVars, matching, ci, changes, phase>>

ReadInsert ==
    /\ phase = "read" /\ pi = NextEqual[1] /\ ci < NextEqual[2]
    /\ runs' = Append(runs, Run("insert", ci, NextEqual[2] - ci))
    /\ ci' = NextEqual[2]
    /\ UNCHANGED <<docVars, matching, pi, changes, phase>>

\* textOf(), compared without punctuation: the words of the paragraphs.
Written(d, ps) == SelectSeq([p \in DOMAIN d |-> IF p \in ps THEN d[p] ELSE Blank], LAMBDA p : p # Blank)
stripPunct(s)  == [k \in DOMAIN s |-> [s[k] EXCEPT !.mark = 1]]
isCosmetic(prevText, currText) ==
    prevText # <<>> /\ currText # <<>> /\ stripPunct(prevText) = stripPunct(currText)

\* buildChange(): the label is the owner of the first new paragraph, or of the first
\* old one when nothing is new.
buildChange(prevIdx, currIdx) ==
    [prevIdx |-> prevIdx, currIdx |-> currIdx,
     cosmetic |-> isCosmetic(Written(prev, prevIdx), Written(curr, currIdx)),
     node |-> IF currIdx # {} THEN currIDs[OwnerOf(curr, Min(currIdx))]
              ELSE prevIDs[OwnerOf(prev, Min(prevIdx))]]

Covers(run) == run.first..run.last

\* The loop over the runs: a deletion and the insertion that follows it are one change.
PairsUp == Len(runs) > 1 /\ runs[1].op = "delete" /\ runs[2].op = "insert"

\* Mutant: a pair is read again as a single insertion.
PairRewriteAgain ==
    /\ phase = "read" /\ AllRead /\ PairsUp
    /\ changes' = Append(changes, buildChange(Covers(runs[1]), Covers(runs[2])))
    /\ runs' = Tail(runs)
    /\ UNCHANGED <<docVars, matching, pi, ci, phase>>

PairRewrite ==
    /\ phase = "read" /\ AllRead /\ PairsUp
    /\ changes' = Append(changes, buildChange(Covers(runs[1]), Covers(runs[2])))
    /\ runs' = Tail(Tail(runs))
    /\ UNCHANGED <<docVars, matching, pi, ci, phase>>

SingleRun ==
    /\ phase = "read" /\ AllRead /\ runs # <<>> /\ ~PairsUp
    /\ changes' = Append(changes, IF runs[1].op = "delete" THEN buildChange(Covers(runs[1]), {})
                                  ELSE buildChange({}, Covers(runs[1])))
    /\ runs' = Tail(runs)
    /\ UNCHANGED <<docVars, matching, pi, ci, phase>>

\* Mutant: a change is dropped when one of its sides is blank.
SaysSomethingTwice(c) == (\E p \in c.prevIdx : prev[p] # Blank) /\ (\E p \in c.currIdx : curr[p] # Blank)

\* Changes of blank paragraphs only are dropped.
SaysSomething(c) == (\E p \in c.prevIdx : prev[p] # Blank) \/ (\E p \in c.currIdx : curr[p] # Blank)

DropBlank ==
    /\ phase = "read" /\ AllRead /\ runs = <<>>
    /\ LET kept == Ascending({k \in DOMAIN changes : SaysSomething(changes[k])})
       IN  changes' = [k \in DOMAIN kept |-> changes[kept[k]]]
    /\ phase' = "compared"
    /\ UNCHANGED <<docVars, matching, pi, ci, runs>>

DiffNext ==
    \/ Revise \/ Align
    \/ ReadEqual \/ ReadDelete \/ ReadInsert
    \/ PairRewrite \/ SingleRun \/ DropBlank

-----------------------------------------------------------------------------
PrevIn(k) == changes[k].prevIdx
CurrIn(k) == changes[k].currIdx

\* The types of the comparison's state.
DiffTypeOK ==
    /\ edits <= MaxEdits /\ pi \in 1..(Len(prev) + 1) /\ ci \in 1..(Len(curr) + 1)
    /\ \A k \in DOMAIN changes : PrevIn(k) \subseteq DOMAIN prev /\ CurrIn(k) \subseteq DOMAIN curr

\* No paragraph is in two changes, on either side: the index that BuildView() makes of
\* them (view.go:92) would keep only the last one.
EachParagraphOnce ==
    \A j, k \in DOMAIN changes :
        j # k => PrevIn(j) \cap PrevIn(k) = {} /\ CurrIn(j) \cap CurrIn(k) = {}

\* The changes are the whole difference: what they leave out of the old version and what
\* they leave out of the new one is the same text in the same order, blank paragraphs
\* aside.  The pairs of the alignment show it.
ChangesExplainTheRevision ==
    phase = "compared" =>
        LET same == {m \in matching : prev[m[1]] # Blank}
        IN  /\ InOrder(same) /\ \A m \in same : prev[m[1]] = curr[m[2]]
            /\ {p \in DOMAIN prev : prev[p] # Blank /\ \A k \in DOMAIN changes : p \notin PrevIn(k)} = {m[1] : m \in same}
            /\ {p \in DOMAIN curr : curr[p] # Blank /\ \A k \in DOMAIN changes : p \notin CurrIn(k)} = {m[2] : m \in same}

\* Both: the changes are a partition of what differs.
ChangesPartitionTheRevision == EachParagraphOnce /\ ChangesExplainTheRevision

\* NOT TRUE of the code.  "A delete immediately followed by an insert is one rewrite"
\* (diff.go:66), "adjacent delete/insert runs" (diff.go:24): between the two sides of a
\* rewrite there is no paragraph that did not change.
RewritesAreAdjacent ==
    phase = "compared" =>
    \A k \in DOMAIN changes :
        PrevIn(k) # {} /\ CurrIn(k) # {} =>
            ~\E m \in matching : m[1] > Max(PrevIn(k)) /\ m[2] < Min(CurrIn(k))
=============================================================================
