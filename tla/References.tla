----------------------------- MODULE References -----------------------------
(***************************************************************************)
(* The reference rules (internal/rules/refintegrity.go): which citations   *)
(* of the new version find no target, whether this revision broke them,    *)
(* and where the text of a vanished target went; with the findings that    *)
(* the report keeps of them (report/assemble.go).                          *)
(***************************************************************************)
EXTENDS TextDiff

CONSTANTS Tokens,   \* Tokens[text]: the words of a text, as a set of numbers above 100
          Cites     \* Cites[text]: the citations in it, as they are written

\* A citation as it is written: an article and perhaps an ayat, or an ayat of the
\* article that it stands in.
Citation == [kind : {"absolute", "relative"}, pasal : Nat, ayat : Nat, lang : {"id", "en"}]

ASSUME ReferencesAssumption ==
    /\ DOMAIN Cites = Texts /\ DOMAIN Tokens = Texts
    /\ \A t \in Texts :
         /\ IsFiniteSet(Tokens[t])
         /\ Cites[t] \in Seq({r \in Citation : r.kind = "relative" => r.ayat # 0})

VARIABLES cited,        \* the citations of the new version that are still to be checked
          relocations,  \* the relocations looked up so far, by target
          found         \* the findings so far

refVars == <<cited, relocations, found>>

-----------------------------------------------------------------------------
Absolute(pasal, ayat)  == [kind |-> "absolute", pasal |-> pasal, ayat |-> ayat, lang |-> "id"]
InEnglish(r)           == [r EXCEPT !.lang = "en"]
Relative(ayat)         == [kind |-> "relative", pasal |-> 0, ayat |-> ayat, lang |-> "id"]
\* Its numbers in the order they are written (Reference.Raw).
Raw(r) == (IF r.kind = "relative" THEN <<>> ELSE <<r.pasal>>) \o (IF r.ayat = 0 THEN <<>> ELSE <<r.ayat>>)

\* extractReferences(): a relative citation gets the number of the article around it.
ReferencesOf(d) ==
    LET ref(p, r) == [para |-> p, raw |-> Raw(r),
                      cite |-> IF r.kind = "relative" THEN [r EXCEPT !.pasal = d[ArticleAt(d, p)].number] ELSE r]
        places == UNION {{<<p, k>> : k \in DOMAIN Cites[d[p].text]} : p \in DOMAIN d}
        order  == Arranged(places, {m \in places \X places : m[1][1] < m[2][1] \/ (m[1][1] = m[2][1] /\ m[1][2] < m[2][2])})
    IN  [n \in DOMAIN order |-> ref(order[n][1], Cites[d[order[n][1]].text][order[n][2]])]

\* The nodes by ID (IndexedDoc.Nodes).
Names(ids)  == ToSet(ids) \ {<<>>}
At(ids, id) == CHOOSE i \in DOMAIN ids : ids[i] = id

-----------------------------------------------------------------------------
\* nodeText(): the words of what a node covers, its heading's among them (0 stands for
\* "Pasal"), and tokenSet() of them.
Covered(d, i) ==
    LET next == {j \in NodesOf(d) : j > i /\ (d[j].kind = "pasal" \/ d[i].kind = "ayat")}
    IN  i..(IF next = {} THEN Len(d) ELSE Min(next) - 1)
WordsAt(p) == CASE p.kind = "pasal" -> {0, p.number}
                [] p.kind = "ayat" -> {p.number} \cup Tokens[p.text]
                [] OTHER -> Tokens[p.text]
tokenSet(d, i) == UNION {WordsAt(d[p]) : p \in Covered(d, i)}
WordCount(d, i) == MapThenSumSet(LAMBDA p : Cardinality(WordsAt(d[p])), Covered(d, i))

\* similarity(): shared words over all words; more than three quarters is the same text.
Shared(S, T) == Cardinality(S \cap T)
All(S, T)    == Cardinality(S \cup T)
SameText(S, T) == 4 * Shared(S, T) > 3 * All(S, T)

\* Mutant: the last node of that kind is taken, whatever it says.
findRelocationAnywhere(targetID) ==
    IF targetID \notin Names(prevIDs) THEN <<>>
    ELSE LET old  == At(prevIDs, targetID)
             same == {i \in NodesOf(curr) : curr[i].kind = prev[old].kind}
         IN  IF WordCount(prev, old) < 5 \/ same = {} THEN <<>> ELSE currIDs[Max(same)]

\* findRelocation(): the first of the nodes of that kind whose words are most similar,
\* if more than three quarters are shared; fewer than five words say nothing.
findRelocation(targetID) ==
    IF targetID \notin Names(prevIDs) THEN <<>>
    ELSE LET old  == At(prevIDs, targetID)
             words(i) == tokenSet(curr, i)
             oldWords == tokenSet(prev, old)
             near == {i \in NodesOf(curr) : /\ curr[i].kind = prev[old].kind
                                            /\ currIDs[i] # targetID
                                            /\ SameText(oldWords, words(i))}
             best == {i \in near : \A j \in near :
                        Shared(oldWords, words(i)) * All(oldWords, words(j))
                           >= Shared(oldWords, words(j)) * All(oldWords, words(i))}
         IN  IF WordCount(prev, old) < 5 \/ near = {} THEN <<>> ELSE currIDs[Min(best)]

\* repointAction(): the article number in the citation, where it occurs first, becomes
\* the number of the node; no action when the citation stays as it is.
repointAction(r, reloc) ==
    LET places  == {k \in DOMAIN r.raw : r.raw[k] = r.cite.pasal}
        updated == IF places = {} THEN r.raw
                   ELSE [r.raw EXCEPT ![Min(places)] = Last(reloc).number]
    IN  IF updated = r.raw THEN {} ELSE {[type |-> "reference_update", new |-> updated]}

-----------------------------------------------------------------------------
Finding(category, severity, side, para, node, actions) ==
    [category |-> category, severity |-> severity, side |-> side, para |-> para,
     node |-> node, actions |-> actions]

RefInit == cited = <<>> /\ relocations = <<>> /\ found = <<>>

\* The numbering rules may report any node of the new version, with or without an
\* action of the plan (Numbering says which).  One major finding stands for all of
\* them: the rules may have several, some of them minor (numbering.go:167, 219).  The
\* other findings and the view take each by itself, and a minor one leaves the exit
\* code as it is without it.
AddNumberingFinding ==
    /\ phase = "compared" /\ found = <<>>
    /\ \E i \in NodesOf(curr), actions \in {{}, {[type |-> "renumber", new |-> <<>>]}} :
         found' = << Finding("numbering", "major", "curr", i, currIDs[i], actions) >>
    /\ UNCHANGED <<docVars, diffVars, cited, relocations, phase>>

CompareReferences ==
    /\ phase = "compared"
    /\ cited' = ReferencesOf(curr)
    /\ phase' = "citations"
    /\ UNCHANGED <<docVars, diffVars, relocations, found>>

\* The loop over the citations: one that resolves says nothing.
AtCitation == phase = "citations" /\ cited # <<>>
Cite == Head(cited).cite
Resolves(ids) == Resolve(Names(ids), Cite) # <<>>

SkipResolved ==
    /\ AtCitation /\ Resolves(currIDs)
    /\ cited' = Tail(cited)
    /\ UNCHANGED <<docVars, diffVars, relocations, found, phase>>

\* One that dangled before is a minor finding,
ReportDangling ==
    /\ AtCitation /\ ~Resolves(currIDs) /\ ~Resolves(prevIDs)
    /\ found' = Append(found, Finding("broken", "minor", "curr", Head(cited).para, <<>>, {}))
    /\ cited' = Tail(cited)
    /\ UNCHANGED <<docVars, diffVars, relocations, phase>>

\* Mutant: a regression is reported as a minor finding.
ReportBrokenQuietly ==
    /\ AtCitation /\ ~Resolves(currIDs) /\ Resolves(prevIDs)
    /\ found' = Append(found, Finding("broken", "minor", "curr", Head(cited).para, <<>>, {}))
    /\ cited' = Tail(cited)
    /\ UNCHANGED <<docVars, diffVars, relocations, phase>>

\* and one that this revision broke is critical: repointed to where its target went,
\* if that is known, and left to the reader otherwise.
ReportBroken ==
    /\ AtCitation /\ ~Resolves(currIDs) /\ Resolves(prevIDs)
    /\ LET target == TargetID(Cite)
           reloc  == IF target \in DOMAIN relocations THEN relocations[target] ELSE findRelocation(target)
       IN  /\ relocations' = [t \in {target} \cup DOMAIN relocations |->
                              IF t = target THEN reloc ELSE relocations[t]]
           /\ found' = Append(found,
                IF reloc # <<>>
                THEN Finding("shifted", "critical", "curr", Head(cited).para, reloc,
                             repointAction(Head(cited), reloc))
                ELSE Finding("broken", "critical", "curr", Head(cited).para, <<>>,
                             {[type |-> "manual_review", new |-> <<>>]}))
    /\ cited' = Tail(cited)
    /\ UNCHANGED <<docVars, diffVars, phase>>

\* reportRemovedArticles(): the articles of the old version that are gone, in order; one
\* whose text went elsewhere is a minor finding.
reportRemovedArticles ==
    LET gone == Ascending({i \in DOMAIN prev : prev[i].kind = "pasal" /\ prevIDs[i] \notin Names(currIDs)})
        report(i) == Finding("section_removed", IF findRelocation(prevIDs[i]) # <<>> THEN "minor" ELSE "major",
                             "prev", i, prevIDs[i], {})
    IN  [k \in DOMAIN gone |-> report(gone[k])]

\* SortFindings(): the most serious first, then by paragraph; ties as they were found.
Rank(f) == CASE f.severity = "critical" -> 0 [] f.severity = "major" -> 1 [] f.severity = "minor" -> 2
Before(f, g) == Rank(f) < Rank(g) \/ (Rank(f) = Rank(g) /\ f.para < g.para)
SortFindings(fs) ==
    LET order == Arranged(DOMAIN fs,
                   {m \in (DOMAIN fs) \X (DOMAIN fs) :
                      Before(fs[m[1]], fs[m[2]]) \/ (~Before(fs[m[2]], fs[m[1]]) /\ m[1] < m[2])})
    IN  [k \in DOMAIN order |-> fs[order[k]]]

ReportRemoved ==
    /\ phase = "citations" /\ cited = <<>>
    /\ found' = SortFindings(found \o reportRemovedArticles)
    /\ phase' = "assembled"
    /\ UNCHANGED <<docVars, diffVars, cited, relocations>>

RefNext ==
    \/ AddNumberingFinding \/ CompareReferences
    \/ SkipResolved \/ ReportDangling \/ ReportBroken \/ ReportRemoved

-----------------------------------------------------------------------------
\* ExitCode(): the command line is a gate for continuous integration.
ExitCode == CASE \E k \in DOMAIN found : found[k].severity = "critical" -> 2
              [] (\E k \in DOMAIN found : found[k].severity = "major")
                   /\ (\A k \in DOMAIN found : found[k].severity # "critical") -> 1
              [] OTHER -> 0

\* The types of the rules' state.
RefTypeOK ==
    /\ \A k \in DOMAIN found : found[k].para \in IF found[k].side = "prev" THEN DOMAIN prev ELSE DOMAIN curr
    /\ \A t \in DOMAIN relocations : relocations[t] = <<>> \/ relocations[t] \in Names(currIDs)

\* An article that is reported as gone was edited: its heading is in a change, so the
\* reader of the changes sees it go (two passes that know nothing of each other).  When
\* several articles share a number the diff may have matched another one's heading.
VanishedArticleIsAChange ==
    phase = "assembled" =>
    \A k \in DOMAIN found :
        found[k].category = "section_removed" /\ Last(found[k].node).copy = 1 =>
            \E j \in DOMAIN changes : found[k].para \in PrevIn(j)

\* A green gate (exit code 0) is earned: every citation of the new version that resolved
\* in the old one still does, and every article that is gone has its text in another.
GreenGateIsEarned ==
    phase = "assembled" /\ ExitCode = 0 =>
        /\ \A k \in DOMAIN ReferencesOf(curr) :
             LET r == ReferencesOf(curr)[k].cite
             IN  Resolve(Names(prevIDs), r) # <<>> => Resolve(Names(currIDs), r) # <<>>
        /\ \A i \in NodesOf(prev) :
             prev[i].kind = "pasal" /\ prevIDs[i] \notin Names(currIDs) =>
               \E j \in NodesOf(curr) : curr[j].kind = "pasal" /\ SameText(tokenSet(prev, i), tokenSet(curr, j))

\* A red gate is earned too: with exit code 2 some citation of the new version has lost
\* its target to this revision.
RedGateIsEarned ==
    phase = "assembled" /\ ExitCode = 2 =>
        \E k \in DOMAIN ReferencesOf(curr) :
            LET r == ReferencesOf(curr)[k].cite
            IN  Resolve(Names(prevIDs), r) # <<>> /\ Resolve(Names(currIDs), r) = <<>>

\* Both: the exit code is what a pipeline of the team may rely on.
GateIsEarned == GreenGateIsEarned /\ RedGateIsEarned

\* Where a citation of a whole article is repointed it resolves again, to a node with the
\* text of the one it cited (unless that shares its number with another).
RepointLeadsToTheText ==
    phase = "assembled" =>
    \A k \in DOMAIN found : \A a \in found[k].actions :
        a.type = "reference_update" /\ Len(a.new) = 1 /\ Last(found[k].node).kind = "pasal"
          /\ Last(found[k].node).copy = 1
          => LET reached == Resolve(Names(currIDs), Absolute(a.new[1], 0))
             IN  /\ reached = found[k].node
                 /\ \E r \in ToSet(ReferencesOf(curr)) :
                      /\ r.para = found[k].para
                      /\ SameText(tokenSet(prev, At(prevIDs, TargetID(r.cite))), tokenSet(curr, At(currIDs, reached)))
=============================================================================
