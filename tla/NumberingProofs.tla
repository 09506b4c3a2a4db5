-------------------------- MODULE NumberingProofs ---------------------------
(***************************************************************************)
(* Theorems about Numbering, for documents of every length in every style: *)
(* the plan is a fix, the self-check leaves the tree as the document is    *)
(* written, its silence means that every planned number was read back as   *)
(* it was meant, and what the plan writes is a marker that its list reads. *)
(***************************************************************************)
EXTENDS Numbering, StructureTreeProofs

-----------------------------------------------------------------------------
(* The inductive invariant.                                                *)

NumberingTypes ==
    /\ \A f \in findings \cup remaining \cup parallel : f.node \in 1..Len(nodes)
    /\ \A a \in shown : a.node \in 1..Len(nodes)
    /\ DOMAIN plan \subseteq 1..Len(nodes)
    /\ \A n \in DOMAIN plan : plan[n].token \in Numbers /\ plan[n].form \in Forms
    /\ DOMAIN saved \subseteq DOMAIN plan
    /\ \A n \in DOMAIN saved : saved[n].ordinal \in Nat /\ saved[n].number \in Numbers

\* The rules begin with a finished tree.
NothingYet ==
    /\ phase \in Growing \cup {"built"} => findings = {}
    /\ phase \in Growing \cup {"built", "validated"} =>
         remaining = {} /\ parallel = {} /\ shown = {} /\ DOMAIN plan = {} /\ DOMAIN saved = {}

\* A node says what its paragraph says.
AsWritten(node) ==
    LET l == lines[node.head]
    IN  /\ node.number = l.number
        /\ node.marker.kind # "unknown" =>
              /\ node.marker.ordinal = node.ordinal
              /\ node.ordinal \in {MarkerAt(l).ordinal, MarkerAt(l).altOrdinal}
        /\ node.marker.kind = "unknown" => node.ordinal = ParseArticleNumber(l.number)

\* What the restore will make of a node.
Restored(n) == IF n \in DOMAIN saved THEN ApplyTo(n, saved[n].ordinal, saved[n].number) ELSE nodes[n]

\* While the plan is in the tree, what was saved is what is written.
Checking == {"applied", "checked"}
Written ==
    /\ phase \notin Building \cup Checking => \A n \in 1..Len(nodes) : AsWritten(nodes[n])
    /\ phase \in Checking => \A n \in 1..Len(nodes) : AsWritten(Restored(n))

\* What the self-check makes of an action in the place of an ordinal.
ReadBack(new, ordinal) ==
    IF new.form = "bare" THEN ParseArticleNumber(new.token)
    ELSE LET m == ParseMarker(new.token, new.form)
         IN  IF m.kind # "unknown" THEN m.ordinal ELSE ordinal

\* The plan changes what is not in its place, and is applied as it is read back.
PlanMade ==
    phase = "planned" => DOMAIN plan = {m \in UNION Sequences : currentOrdinal(m) # Wanted(m)}
Applied ==
    phase \in Checking =>
        /\ DOMAIN saved = DOMAIN plan
        /\ \A n \in DOMAIN plan : nodes[n].ordinal = ReadBack(plan[n], saved[n].ordinal)

\* An empty result says that every action is read back as the number it stands for.
Silence ==
    remaining = {} =>
        \A S \in {T \in Sequences : Cardinality(T) > 1} : \A n \in S \cap DOMAIN plan :
            /\ phase = "checked" => nodes[n].ordinal = Wanted(n)
            /\ phase \in {"verified", "attached", "reported"} => targetOrdinal(plan[n], n) = Wanted(n)

NumberingInv ==
    TreeInv /\ NumberingTypes /\ NothingYet /\ Written /\ PlanMade /\ Applied /\ Silence
-----------------------------------------------------------------------------
(* Lists that count.                                                       *)

\* A list that has one form and counts 1, 2, 3, ... is accepted, and no other.
FormsOf(S) == {nodes[n].marker.form : n \in {m \in S : HasMarker(m)}}
OneForm(S) == ~(Cardinality(FormsOf(S)) > 1)

LEMMA CountingIsAccepted ==
    ASSUME NEW S \in SUBSET Nat, IsFiniteSet(S), Cardinality(S) >= 2, OneForm(S),
           NEW ord, \A n \in S : ord[n] = Position(S, n)
    PROVE  checkSequence(S, ord) = {}
<1>1. S # {} /\ Cardinality(S) \in Nat
    BY FS_EmptySet, FS_CardinalityType
<1>2. PICK first \in S : first = Min(S) /\ Position(S, first) = 1
    BY <1>1, FirstPosition
<1>3. \A n \in S : Position(S, n) \in Nat
    BY UpToFacts
<1>4. \A n \in S, m \in S : m < n => ord[m] # ord[n]
  <2> SUFFICES ASSUME NEW n \in S, NEW m \in S, m < n PROVE ord[m] # ord[n]
      OBVIOUS
  <2> QED
      BY <1>3, LaterPosition
<1>5. \A n \in S \ {first} : LET p == Max({m \in S : m < n})
                             IN  ~(ord[n] < ord[p]) /\ ~(ord[n] > ord[p] + 1)
  <2> TAKE n \in S \ {first}
  <2>1. PICK p \in S : p = Max({m \in S : m < n}) /\ Position(S, n) = Position(S, p) + 1
      BY <1>2, NextPosition
  <2> QED
      BY <1>3, <2>1
<1>6. ord[first] = 1
    BY <1>2
<1>7. ~(Cardinality({nodes[n].marker.form : n \in {m \in S : HasMarker(m)}}) > 1)
    BY DEF OneForm, FormsOf
<1> QED
    BY <1>2, <1>4, <1>5, <1>6, <1>7 DEF checkSequence

LEMMA AcceptedIsCounting ==
    ASSUME NEW S \in SUBSET Nat, IsFiniteSet(S), Cardinality(S) >= 2,
           NEW ord, \A n \in S : ord[n] \in Nat, checkSequence(S, ord) = {}
    PROVE  \A n \in S : ord[n] = Position(S, n)
<1>1. S # {} /\ Cardinality(S) \in Nat
    BY FS_EmptySet, FS_CardinalityType
<1>2. PICK first \in S : first = Min(S) /\ Position(S, first) = 1
    BY <1>1, FirstPosition
<1>3. /\ {n \in {first} : ord[n] # 1} = {}
      /\ {n \in S : \E m \in S : m < n /\ ord[m] = ord[n]} = {}
      /\ {n \in S \ {first} : ord[n] < ord[Max({m \in S : m < n})]} = {}
      /\ {n \in S \ {first} : ord[n] > ord[Max({m \in S : m < n})] + 1} = {}
  <2> DEFINE duplicate  == {n \in S : \E m \in S : m < n /\ ord[m] = ord[n]}
             badStart   == {n \in {first} : ord[n] # 1}
             outOfOrder == {n \in S \ {first} : ord[n] < ord[Max({m \in S : m < n})]}
             gap        == {n \in S \ {first} : ord[n] > ord[Max({m \in S : m < n})] + 1}
             rest       == {Finding("mixedForm", n) : n \in {n \in {first} : Cardinality(FormsOf(S)) > 1}}
  <2>1. ~(Cardinality(S) < 2)
      BY <1>1
  <2>2. checkSequence(S, ord) =
          {Finding("duplicate", n) : n \in duplicate} \cup {Finding("badStart", n) : n \in badStart}
             \cup {Finding("outOfOrder", n) : n \in outOfOrder} \cup {Finding("gap", n) : n \in gap}
             \cup rest
      BY <1>2, <2>1 DEF checkSequence, FormsOf
  <2> HIDE DEF duplicate, badStart, outOfOrder, gap, rest
  <2>3. duplicate = {} /\ badStart = {} /\ outOfOrder = {} /\ gap = {}
      BY <2>2
  <2> QED
      BY <2>3 DEF duplicate, badStart, outOfOrder, gap
<1> DEFINE Wrong == {n \in S : ord[n] # Position(S, n)}
<1> SUFFICES ASSUME Wrong # {} PROVE FALSE
    OBVIOUS
<1>4. PICK n \in Wrong : \A k \in Wrong : n <= k
    BY LeastElement
<1>5. n \in S /\ ord[n] # Position(S, n) /\ n # first
    BY <1>2, <1>3
<1>6. PICK p \in S : p = Max({m \in S : m < n}) /\ p < n /\ Position(S, n) = Position(S, p) + 1
    BY <1>2, <1>5, NextPosition
<1>7. ord[p] = Position(S, p)
    BY <1>4, <1>5, <1>6
<1>8. ~(ord[n] < ord[p]) /\ ~(ord[n] > ord[p] + 1) /\ ord[p] # ord[n]
    BY <1>3, <1>5, <1>6
<1> QED
    BY <1>5, <1>6, <1>7, <1>8
-----------------------------------------------------------------------------
(* The sequences.                                                          *)

\* The only sequence that a node can be a member of.
SequenceOf(n) ==
    IF HasMarker(n) THEN MarkerGroup(n)
    ELSE IF nodes[n].kind = "bab" THEN ChapterRun
    ELSE {m \in Articles : nodes[m].word = nodes[n].word}

LEMMA ArticleFacts ==
    ASSUME TreeInv, NEW n \in DOMAIN nodes
    PROVE  /\ n \in Articles => ~HasMarker(n) /\ nodes[n].kind # "bab"
           /\ n \in ChapterRun => ~HasMarker(n) /\ nodes[n].kind = "bab"
<1>1. HasMarker(n) <=> nodes[n].kind \notin HeadingKinds
    BY TreeTypesFacts DEF TreeInv, HeadingsHaveNoMarker
<1> QED
    BY <1>1 DEF Articles, ChapterRun, IsArticleLevel, HeadingKinds

LEMMA SequencesAreApart ==
    ASSUME TreeInv, NEW S \in Sequences
    PROVE  /\ S # {} /\ S \subseteq DOMAIN nodes
           /\ \A n \in S : S = SequenceOf(n)
<1>1. CASE S = ChapterRun
  <2>1. S \subseteq DOMAIN nodes
      BY <1>1 DEF ChapterRun
  <2>2. \A n \in S : S = SequenceOf(n)
      BY <1>1, <2>1, ArticleFacts DEF SequenceOf
  <2> QED
      BY <2>1, <2>2 DEF Sequences
<1>2. CASE S \in ArticleRuns
  <2>1. PICK a \in Articles : S = {n \in Articles : nodes[n].word = nodes[a].word}
      BY <1>2 DEF ArticleRuns
  <2>2. S \subseteq DOMAIN nodes
      BY <2>1 DEF Articles
  <2>3. ASSUME NEW n \in S PROVE S = SequenceOf(n)
    <3>1. n \in Articles /\ nodes[n].word = nodes[a].word
        BY <2>1
    <3>2. SequenceOf(n) = {m \in Articles : nodes[m].word = nodes[n].word}
        BY <2>2, <3>1, ArticleFacts DEF SequenceOf
    <3> QED
        BY <2>1, <3>1, <3>2
  <2> QED
      BY <2>2, <2>3 DEF Sequences
<1>3. CASE S \in MarkerGroups
  <2>1. PICK c \in DOMAIN nodes : HasMarker(c) /\ S = MarkerGroup(c)
      BY <1>3 DEF MarkerGroups
  <2>2. S \subseteq DOMAIN nodes
      BY <2>1 DEF MarkerGroup, Children
  <2>3. ASSUME NEW n \in S PROVE S = SequenceOf(n)
    <3>1. /\ n \in DOMAIN nodes /\ HasMarker(n) /\ nodes[n].parent = nodes[c].parent
          /\ nodes[n].kind = nodes[c].kind /\ nodes[n].marker.form = nodes[c].marker.form
        BY <2>1 DEF MarkerGroup, Children
    <3>2. MarkerGroup(n) = MarkerGroup(c)
        BY <3>1 DEF MarkerGroup
    <3> QED
        BY <2>1, <3>1, <3>2 DEF SequenceOf
  <2> QED
      BY <2>2, <2>3 DEF Sequences
<1> QED
    BY <1>1, <1>2, <1>3 DEF Sequences

\* A sequence has one form.
LEMMA SequencesHaveOneForm ==
    ASSUME TreeInv, NEW S \in Sequences
    PROVE  OneForm(S)
<1>1. PICK n \in S : S = SequenceOf(n) /\ n \in DOMAIN nodes
    BY SequencesAreApart
<1>2. FormsOf(S) \subseteq {nodes[n].marker.form}
  <2>1. CASE HasMarker(n)
    <3>1. S = MarkerGroup(n)
        BY <1>1, <2>1 DEF SequenceOf
    <3>2. \A m \in S : nodes[m].marker.form = nodes[n].marker.form
        BY <3>1 DEF MarkerGroup
    <3> QED
        BY <3>2 DEF FormsOf
  <2>2. CASE ~HasMarker(n)
    <3>1. S \subseteq Articles \cup ChapterRun /\ S \subseteq DOMAIN nodes
        BY <1>1, <2>2, SequencesAreApart DEF SequenceOf
    <3>2. \A m \in S : ~HasMarker(m)
        BY <3>1, ArticleFacts
    <3> QED
        BY <3>2 DEF FormsOf
  <2> QED
      BY <2>1, <2>2
<1>3. Cardinality({nodes[n].marker.form}) = 1 /\ IsFiniteSet({nodes[n].marker.form})
    BY FS_Singleton
<1>4. Cardinality(FormsOf(S)) <= 1 /\ Cardinality(FormsOf(S)) \in Nat
    BY <1>2, <1>3, FS_Subset, FS_CardinalityType
<1> QED
    BY <1>4 DEF OneForm

LEMMA SequenceFacts ==
    ASSUME TreeInv, NEW S \in Sequences
    PROVE  /\ S \in SUBSET Nat /\ S # {} /\ S \subseteq 1..Len(nodes)
           /\ IsFiniteSet(S) /\ Cardinality(S) \in Nat
           /\ \A n \in S : Wanted(n) = Position(S, n) /\ Wanted(n) \in Nat
<1>1. DOMAIN nodes = 1..Len(nodes) /\ Len(nodes) \in Nat
    BY TreeTypesFacts DEF TreeInv
<1>2. S # {} /\ S \subseteq 1..Len(nodes)
    BY <1>1, SequencesAreApart
<1>3. S \in SUBSET Nat
    BY <1>1, <1>2
<1>4. IsFiniteSet(S) /\ Cardinality(S) \in Nat
  <2>1. IsFiniteSet(1..Len(nodes))
      BY <1>1, FS_Interval
  <2> QED
      BY <1>2, <2>1, FS_Subset, FS_CardinalityType
<1>5. ASSUME NEW n \in S PROVE Wanted(n) = Position(S, n) /\ Wanted(n) \in Nat
  <2>1. \A T \in Sequences : n \in T => T = S
      BY SequencesAreApart
  <2>2. (CHOOSE T \in Sequences : n \in T) = S
      BY <2>1
  <2>3. Wanted(n) = Position(S, n)
      BY <2>2 DEF Wanted
  <2>4. n \in Nat
      BY <1>3
  <2> QED
      BY <1>3, <2>3, <2>4, UpToFacts
<1> QED
    BY <1>2, <1>3, <1>4, <1>5

\* The validator accepts a list of two or more if and only if it counts.
LEMMA AcceptedIffCounting ==
    ASSUME TreeInv, NEW S \in Sequences, Cardinality(S) > 1, NEW ord, \A n \in S : ord[n] \in Nat
    PROVE  checkSequence(S, ord) = {} <=> \A n \in S : ord[n] = Wanted(n)
<1>1. S \in SUBSET Nat /\ IsFiniteSet(S) /\ Cardinality(S) >= 2 /\ OneForm(S)
    BY SequenceFacts, SequencesHaveOneForm
<1>2. \A n \in S : Wanted(n) = Position(S, n)
    BY SequenceFacts
<1> QED
    BY <1>1, <1>2, CountingIsAccepted, AcceptedIsCounting

LEMMA ReportedNodes ==
    ASSUME NEW S \in SUBSET Nat, S # {}, NEW ord
    PROVE  \A f \in checkSequence(S, ord) : f.node \in S
<1>1. PICK first \in S : first = Min(S)
    BY MinFacts
<1> SUFFICES ASSUME NEW f \in checkSequence(S, ord) PROVE f.node \in S
    OBVIOUS
<1>2. \E n \in S, category \in {"duplicate", "badStart", "outOfOrder", "gap", "mixedForm"} :
         f = Finding(category, n)
    BY <1>1 DEF checkSequence
<1> QED
    BY <1>2 DEF Finding

LEMMA ValidatedNodes ==
    ASSUME TreeInv
    PROVE  \A f \in ValidateNumbering : f.node \in 1..Len(nodes)
<1>1. ASSUME NEW S \in Sequences, NEW f \in checkSequence(S, Ordinals) PROVE f.node \in 1..Len(nodes)
    BY SequenceFacts, ReportedNodes
<1>2. ASSUME NEW f \in checkDecimalPrefix PROVE f.node \in 1..Len(nodes)
  <2>1. f.node \in DOMAIN nodes
      BY DEF checkDecimalPrefix, Finding
  <2> QED
      BY <2>1, TreeTypesFacts DEF TreeInv
<1> SUFFICES ASSUME NEW f \in ValidateNumbering PROVE f.node \in 1..Len(nodes)
    OBVIOUS
<1> DEFINE reports == {checkSequence(S, Ordinals) : S \in Sequences}
<1>3. f \in UNION reports \/ f \in checkDecimalPrefix
    BY DEF ValidateNumbering
<1>4. CASE f \in UNION reports
  <2>1. PICK F \in reports : f \in F
    <3> HIDE DEF reports
    <3> QED
        BY <1>4
  <2>2. PICK S \in Sequences : F = checkSequence(S, Ordinals)
      OBVIOUS
  <2> QED
      BY <1>1, <2>1, <2>2
<1> QED
    BY <1>2, <1>3, <1>4
-----------------------------------------------------------------------------
(* The rules number the nodes again and change nothing else of the tree.   *)

Renumbered ==
    /\ nodes' \in Seq(Node) /\ Len(nodes') = Len(nodes)
    /\ \A n \in 1..Len(nodes) :
         /\ nodes'[n].kind = nodes[n].kind /\ nodes'[n].word = nodes[n].word
         /\ nodes'[n].parent = nodes[n].parent /\ nodes'[n].level = nodes[n].level
         /\ nodes'[n].head = nodes[n].head
         /\ nodes'[n].marker.kind = nodes[n].marker.kind
         /\ nodes'[n].marker.form = nodes[n].marker.form
         /\ nodes'[n].marker.ambiguous = nodes[n].marker.ambiguous
         /\ nodes'[n].marker.altKind = nodes[n].marker.altKind

LEMMA NodesUntouched == ASSUME TreeInv, UNCHANGED nodes PROVE Renumbered
    BY DEF TreeInv, TreeTypes, Renumbered

\* A node with new numbers.
NewNumbers(node, ordinal, number, x) ==
    [node EXCEPT !.ordinal = ordinal, !.number = number, !.marker.ordinal = x]

LEMMA RecordFacts ==
    ASSUME NEW node \in Node, NEW ordinal \in Nat, NEW number \in Numbers, NEW x \in Nat,
           NEW r, r = NewNumbers(node, ordinal, number, x)
    PROVE  /\ r \in Node /\ r.ordinal = ordinal /\ r.number = number
           /\ r.kind = node.kind /\ r.word = node.word /\ r.parent = node.parent
           /\ r.level = node.level /\ r.head = node.head
           /\ r.marker.kind = node.marker.kind /\ r.marker.form = node.marker.form
           /\ r.marker.ambiguous = node.marker.ambiguous
           /\ r.marker.altKind = node.marker.altKind
           /\ r.marker.ordinal = x
<1>2. PICK m \in Marker : m = [node.marker EXCEPT !.ordinal = x]
    BY DEF Node, Marker
<1>3. r = [node EXCEPT !.ordinal = ordinal, !.number = number, !.marker = m]
    BY <1>2 DEF NewNumbers, Node
<1>4. /\ r \in Node /\ r.ordinal = ordinal /\ r.number = number /\ r.marker = m
      /\ r.kind = node.kind /\ r.word = node.word /\ r.parent = node.parent
      /\ r.level = node.level /\ r.head = node.head
    BY <1>3 DEF Node
<1>5. /\ m.kind = node.marker.kind /\ m.form = node.marker.form
      /\ m.ambiguous = node.marker.ambiguous /\ m.altKind = node.marker.altKind /\ m.ordinal = x
    BY <1>2 DEF Node, Marker
<1> QED
    BY <1>4, <1>5

\* ApplyTo() sets the two numbers of a node, and its marker's.
LEMMA ApplyFacts ==
    ASSUME NEW n \in Nat \ {0}, nodes[n] \in Node, NEW ordinal \in Nat, NEW number \in Numbers
    PROVE  LET r == ApplyTo(n, ordinal, number)
           IN  /\ r \in Node /\ r.ordinal = ordinal /\ r.number = number
               /\ r.kind = nodes[n].kind /\ r.word = nodes[n].word
               /\ r.parent = nodes[n].parent /\ r.level = nodes[n].level
               /\ r.head = nodes[n].head
               /\ r.marker.kind = nodes[n].marker.kind
               /\ r.marker.form = nodes[n].marker.form
               /\ r.marker.ambiguous = nodes[n].marker.ambiguous
               /\ r.marker.altKind = nodes[n].marker.altKind
               /\ nodes[n].marker.kind # "unknown" => r.marker.ordinal = ordinal
<1>1. PICK node \in Node : node = nodes[n]
    OBVIOUS
<1>2. PICK x \in Nat : x = IF HasMarker(n) THEN ordinal ELSE node.marker.ordinal
    BY DEF Node, Marker
<1>3. HasMarker(n) <=> node.marker.kind # "unknown"
    BY <1>1 DEF HasMarker
<1>4. ApplyTo(n, ordinal, number) = NewNumbers(node, ordinal, number, x)
    BY <1>1, <1>2 DEF ApplyTo, NewNumbers
<1>5. PICK r : r = NewNumbers(node, ordinal, number, x)
    OBVIOUS
<1>6. node \in Node /\ ordinal \in Nat /\ number \in Numbers /\ x \in Nat
    BY <1>1, <1>2
<1>7. r \in Node /\ r.ordinal = ordinal /\ r.number = number
    BY SMTT(30), <1>5, <1>6, RecordFacts
<1>8. /\ r.kind = node.kind /\ r.word = node.word /\ r.parent = node.parent
      /\ r.level = node.level /\ r.head = node.head
    BY <1>5, <1>6, RecordFacts
<1>9. /\ r.marker.kind = node.marker.kind /\ r.marker.form = node.marker.form
      /\ r.marker.ambiguous = node.marker.ambiguous /\ r.marker.altKind = node.marker.altKind
      /\ r.marker.ordinal = x
    BY SMTT(30), <1>5, <1>6, RecordFacts
<1> QED
    BY <1>1, <1>2, <1>3, <1>4, <1>5, <1>7, <1>8, <1>9

LEMMA SequencesKept ==
    ASSUME TreeInv, Renumbered
    PROVE  /\ Sequences' = Sequences
           /\ \A n \in 1..Len(nodes) : HasMarker(n)' <=> HasMarker(n)
           /\ \A n : Wanted(n)' = Wanted(n)
<1>1. PICK D : D = 1..Len(nodes) /\ D = DOMAIN nodes /\ D = DOMAIN nodes' /\ 0 \notin D
  <2>1. DOMAIN nodes = 1..Len(nodes) /\ DOMAIN nodes' = 1..Len(nodes')
      BY SeqFacts DEF Renumbered, TreeInv, TreeTypes
  <2> QED
      BY <2>1 DEF Renumbered
<1>2. \A n \in D : /\ nodes'[n].kind = nodes[n].kind /\ nodes'[n].word = nodes[n].word
                   /\ nodes'[n].parent = nodes[n].parent
                   /\ nodes'[n].marker.kind = nodes[n].marker.kind
                   /\ nodes'[n].marker.form = nodes[n].marker.form
    BY <1>1 DEF Renumbered
<1>3. \A n \in D : HasMarker(n)' <=> HasMarker(n)
    BY <1>1, <1>2 DEF HasMarker
<1>4. Articles' = Articles /\ ChapterRun' = ChapterRun /\ Articles \subseteq D
    BY <1>1, <1>2 DEF Articles, ChapterRun
<1>5. ArticleRuns' = ArticleRuns
  <2>1. ArticleRuns = {{n \in Articles : nodes[n].word = nodes[a].word} : a \in Articles}
      BY DEF ArticleRuns
  <2>2. ArticleRuns' = {{n \in Articles : nodes'[n].word = nodes'[a].word} : a \in Articles}
      BY <1>4 DEF ArticleRuns
  <2>3. \A a \in Articles : {n \in Articles : nodes'[n].word = nodes'[a].word}
                              = {n \in Articles : nodes[n].word = nodes[a].word}
      BY <1>2, <1>4
  <2> QED
      BY <2>1, <2>2, <2>3
<1>6. \A c \in D : MarkerGroup(c)' = MarkerGroup(c)
  <2> TAKE c \in D
  <2>1. Children(nodes[c].parent)' = Children(nodes[c].parent) /\ Children(nodes[c].parent) \subseteq D
      BY <1>1, <1>2 DEF Children
  <2> QED
      BY <1>2, <1>3, <2>1 DEF MarkerGroup
<1>7. MarkerGroups' = MarkerGroups
  <2>1. {n \in DOMAIN nodes : HasMarker(n)}' = {n \in DOMAIN nodes : HasMarker(n)}
      BY <1>1, <1>3
  <2> QED
      BY <1>1, <1>6, <2>1 DEF MarkerGroups
<1>8. Sequences' = Sequences
    BY <1>4, <1>5, <1>7 DEF Sequences
<1> QED
    BY <1>1, <1>3, <1>8 DEF Wanted

\* What the rules do keeps the tree.
LEMMA RulesKeepTheTree ==
    ASSUME TreeInv, Renumbered, NodesKept, phase \notin Growing, phase' \notin Growing
    PROVE  TreeInv'
<1>1. PICK N \in Nat : N = Len(nodes) /\ N = Len(nodes')
    BY TreeTypesFacts DEF TreeInv, Renumbered
<1>2. UNCHANGED <<style, lines, stack, owner, captioned, ids, ends, open>>
    BY DEF NodesKept
<1>3. SameShape
    BY DEF Renumbered, SameShape
<1>4. (StackIsAPath /\ InDocumentOrder /\ OpenAscends /\ AllClosed)'
    BY <1>2, <1>3, SameShapeStep
<1>5. (ClosedSoFar /\ MarkersAsRead)'
    BY DEF ClosedSoFar, MarkersAsRead, Growing, Building
<1>6. TreeTypes'
    BY <1>1, <1>2, <1>3 DEF TreeInv, TreeTypes, SameShape
<1>7. Progress'
    BY <1>1, <1>2 DEF TreeInv, Progress, Growing, Building
<1>8. NamesAreUnique'
    BY <1>2 DEF TreeInv, NamesAreUnique
<1>9. HeadingsHaveNoMarker'
  <2>1. \A n \in 1..N : HasMarker(n)' <=> HasMarker(n)
      BY <1>1, SequencesKept
  <2>2. \A n \in 1..N : /\ HasMarker(n) <=> nodes[n].kind \notin HeadingKinds
                        /\ nodes[n].marker.ambiguous => HasMarker(n) /\ nodes[n].marker.altKind # "unknown"
      BY <1>1 DEF TreeInv, HeadingsHaveNoMarker
  <2>3. \A n \in 1..N : /\ nodes'[n].kind = nodes[n].kind
                        /\ nodes'[n].marker.ambiguous = nodes[n].marker.ambiguous
                        /\ nodes'[n].marker.altKind = nodes[n].marker.altKind
      BY <1>1 DEF Renumbered
  <2> QED
      BY <1>1, <2>1, <2>2, <2>3 DEF HeadingsHaveNoMarker
<1> QED
    BY <1>4, <1>5, <1>6, <1>7, <1>8, <1>9 DEF TreeInv
-----------------------------------------------------------------------------
(* Every step keeps the invariant.                                         *)

LEMMA NumberingInitFacts == Init => NumberingInv
<1> SUFFICES ASSUME Init PROVE NumberingInv
    OBVIOUS
<1>1. TreeInv /\ phase = "read"
    BY TreeInitFacts DEF Init, TreeInit
<1>2. /\ findings = {} /\ remaining = {} /\ parallel = {} /\ shown = {}
      /\ DOMAIN plan = {} /\ DOMAIN saved = {}
    BY DEF Init, NumberingInit
<1> QED
    BY <1>1, <1>2 DEF NumberingInv, NumberingTypes, NothingYet, Written, PlanMade, Applied, Silence,
        Building, Checking

\* Settling the lists takes one of the readings of what is written.
LEMMA SettledAsWritten ==
    ASSUME TreeInv, resolveSiblingMarkers
    PROVE  \A n \in 1..Len(nodes') : AsWritten(nodes[n])'
<1>1. /\ lines' = lines /\ phase = "build" /\ DOMAIN nodes = 1..Len(nodes)
      /\ nodes' = [n \in 1..Len(nodes) |-> Resolved(n)]
    BY TreeTypesFacts DEF resolveSiblingMarkers, TreeInv
<1>2. Len(nodes') = Len(nodes)
    BY <1>1, LenProperties, SeqFacts, resolveSiblingMarkersStep, TreeTypesFacts
       DEF TreeInv, TreeTypes
<1> SUFFICES ASSUME NEW n \in 1..Len(nodes) PROVE AsWritten(nodes[n])'
    BY <1>2
<1>3. PICK r : r = Resolved(n) /\ nodes'[n] = r
    BY <1>1
<1>4. PICK l \in Lines : l = lines[nodes[n].head] /\ l = lines[r.head]
  <2>1. nodes[n].head \in 1..Len(lines) /\ r.head = nodes[n].head
      BY <1>1, <1>3, ResolvedFacts, TreeTypesHold DEF TreeTypeOK, Relabelled
  <2> QED
      BY <2>1, TreeTypesFacts DEF TreeInv
<1>5. /\ HasMarker(n) => nodes[n].marker = MarkerAt(l)
      /\ nodes[n].number = l.number
      /\ ~HasMarker(n) => nodes[n].ordinal = ParseArticleNumber(l.number)
    BY <1>1, <1>4 DEF TreeInv, MarkersAsRead, Building
<1>6. /\ HasMarker(n) <=> r.marker.kind # "unknown"
      /\ HasMarker(n) <=> nodes[n].marker.kind # "unknown"
    BY <1>1, <1>3, ResolvedFacts, TreeTypesFacts DEF Relabelled, HasMarker, TreeInv
<1>7. CASE ~HasMarker(n)
  <2>1. r = nodes[n]
      BY <1>3, <1>7, ResolvedFacts
  <2> QED
      BY <1>1, <1>3, <1>4, <1>5, <1>6, <1>7, <2>1 DEF AsWritten
<1>8. CASE HasMarker(n)
  <2>1. /\ r.number = MarkerAt(l).token /\ r.ordinal = r.marker.ordinal
        /\ r.ordinal \in {MarkerAt(l).ordinal, MarkerAt(l).altOrdinal}
      BY <1>3, <1>5, <1>8, ResolvedFacts
  <2>2. MarkerAt(l).token = l.number
      BY <1>5, <1>6, <1>8, LineFacts
  <2> QED
      BY <1>1, <1>3, <1>4, <1>6, <1>8, <2>1, <2>2 DEF AsWritten
<1> QED
    BY <1>7, <1>8

LEMMA BuilderStep ==
    ASSUME NumberingInv, TreeNext, UNCHANGED numberingVars
    PROVE  NumberingInv'
<1>1. phase \in Growing /\ phase' \in Growing \cup {"built"}
    BY DEF TreeNext, ReadLine, discoverHeadings, BuildBlank, BuildHeading, BuildMarker, BuildBody,
        resolveSiblingMarkers, ReassignID, IDsReassigned, CloseBefore, CloseAll, attach, AtLine, Growing
<1>2. TreeInv'
    BY TreeStep DEF NumberingInv
<1>3. /\ findings' = {} /\ remaining' = {} /\ parallel' = {} /\ shown' = {}
      /\ DOMAIN plan' = {} /\ DOMAIN saved' = {}
    BY <1>1 DEF NumberingInv, NothingYet, numberingVars
<1>4. Written'
  <2>1. CASE ReadLine \/ discoverHeadings \/ BuildBlank \/ BuildHeading \/ BuildMarker \/ BuildBody
    <3>1. phase' \in Building
        BY <2>1 DEF ReadLine, discoverHeadings, BuildBlank, BuildHeading, BuildMarker, BuildBody,
            attach, AtLine, Building
    <3> QED
        BY <3>1 DEF Written, Building, Checking
  <2>2. CASE resolveSiblingMarkers
    <3>1. phase' = "name"
        BY <2>2 DEF resolveSiblingMarkers
    <3> QED
        BY <2>2, <3>1, SettledAsWritten DEF Written, Checking, NumberingInv
  <2>3. CASE ReassignID \/ IDsReassigned \/ CloseBefore \/ CloseAll
    <3>1. /\ UNCHANGED <<nodes, lines>> /\ phase \notin Building \cup Checking
          /\ phase' \notin Building \cup Checking
        BY <2>3 DEF ReassignID, IDsReassigned, CloseBefore, CloseAll, Building, Checking
    <3>2. \A n \in 1..Len(nodes) : AsWritten(nodes[n])
        BY <3>1 DEF NumberingInv, Written
    <3> QED
        BY <3>1, <3>2 DEF Written, AsWritten
  <2> QED
      BY <2>1, <2>2, <2>3 DEF TreeNext
<1> QED
    BY <1>1, <1>2, <1>3, <1>4 DEF NumberingInv, NumberingTypes, NothingYet, PlanMade, Applied, Silence,
        Growing, Checking

\* A step of the rules that leaves the nodes alone.
LEMMA QuietStep ==
    ASSUME NumberingInv, UNCHANGED <<nodes, saved>>, NodesKept, phase \notin Growing, phase' \notin Growing,
           phase \in Checking <=> phase' \in Checking
    PROVE  /\ TreeInv' /\ Written' /\ Sequences' = Sequences /\ Len(nodes') = Len(nodes)
           /\ \A n : Wanted(n)' = Wanted(n)
<1>1. TreeInv /\ Renumbered
    BY NodesUntouched DEF NumberingInv
<1>2. lines' = lines /\ nodes' = nodes /\ saved' = saved /\ phase \notin Building /\ phase' \notin Building
    BY DEF NodesKept, Growing, Building
<1>3. Written'
  <2>1. CASE phase \in Checking
    <3>1. \A n \in 1..Len(nodes) : AsWritten(Restored(n))
        BY <2>1 DEF NumberingInv, Written
    <3> QED
        BY <1>2, <2>1, <3>1 DEF Written, AsWritten, Restored, ApplyTo, HasMarker
  <2>2. CASE phase \notin Checking
    <3>1. \A n \in 1..Len(nodes) : AsWritten(nodes[n])
        BY <1>2, <2>2 DEF NumberingInv, Written
    <3> QED
        BY <1>2, <2>2, <3>1 DEF Written, AsWritten
  <2> QED
      BY <2>1, <2>2
<1> QED
    BY <1>1, <1>2, <1>3, RulesKeepTheTree, SequencesKept

LEMMA ValidateStep == ASSUME NumberingInv, Validate PROVE NumberingInv'
<1>1. /\ phase = "built" /\ phase' = "validated" /\ NodesKept /\ findings' = ValidateNumbering
      /\ UNCHANGED <<nodes, plan, saved, remaining, parallel, shown>>
    BY DEF Validate
<1>2. TreeInv' /\ Written'
    BY <1>1, QuietStep DEF Growing, Checking
<1>3. /\ remaining = {} /\ parallel = {} /\ shown = {} /\ DOMAIN plan = {} /\ DOMAIN saved = {}
    BY <1>1 DEF NumberingInv, NothingYet
<1>4. \A f \in findings' : f.node \in 1..Len(nodes)
    BY <1>1, ValidatedNodes DEF NumberingInv
<1> QED
    BY <1>1, <1>2, <1>3, <1>4 DEF NumberingInv, NumberingTypes, NothingYet, PlanMade, Applied, Silence,
        Growing, Checking

\* An action can be written in the place of a number.
LEMMA ActionType ==
    ASSUME TreeInv, NEW n \in 1..Len(nodes), NEW want \in Nat
    PROVE  renumberAction(n, want).token \in Numbers /\ renumberAction(n, want).form \in Forms
<1>1. nodes[n].marker.kind \in MarkerKinds /\ nodes[n].marker.form \in Forms
    BY TreeTypesFacts DEF TreeInv, Node, Marker
<1>2. FormatOrdinal(nodes[n].marker.kind, want) \in Numbers
    BY <1>1 DEF Numbers
<1>3. Digit(want) \in Numbers /\ "bare" \in Forms
  <2>1. <<want>> \in Seq(Nat) \ {<<>>}
      OBVIOUS
  <2> QED
      BY <2>1 DEF Digit, Numbers, Token, Forms, MarkerForms
<1> QED
    BY <1>1, <1>2, <1>3 DEF renumberAction, Render

LEMMA PlanRenumberingStep == ASSUME NumberingInv, PlanRenumbering PROVE NumberingInv'
<1>1. /\ phase = "validated" /\ phase' = "planned" /\ NodesKept
      /\ UNCHANGED <<nodes, findings, saved, remaining, parallel, shown>>
    BY DEF PlanRenumbering
<1> DEFINE P == {m \in UNION Sequences : currentOrdinal(m) # Wanted(m)}
<1>2. plan' = [n \in P |-> renumberAction(n, Wanted(n))]
    BY DEF PlanRenumbering
<1>3. TreeInv' /\ Written' /\ Sequences' = Sequences /\ \A n : Wanted(n)' = Wanted(n)
    BY <1>1, QuietStep DEF Growing, Checking
<1>4. \A n \in P : n \in 1..Len(nodes) /\ Wanted(n) \in Nat
    BY SequenceFacts DEF NumberingInv
<1>5. remaining = {} /\ parallel = {} /\ shown = {} /\ DOMAIN saved = {}
    BY <1>1 DEF NumberingInv, NothingYet
<1>6. \A m : currentOrdinal(m)' = currentOrdinal(m)
    BY <1>1 DEF currentOrdinal, HasMarker
<1>7. P' = P
    BY <1>3, <1>6
<1> HIDE DEF P
<1>8. \A n \in P : plan'[n].token \in Numbers /\ plan'[n].form \in Forms
    BY <1>2, <1>4, ActionType DEF NumberingInv
<1>9. NumberingTypes'
    BY <1>1, <1>2, <1>4, <1>5, <1>8 DEF NumberingInv, NumberingTypes
<1>10. PlanMade'
    BY <1>2, <1>7 DEF PlanMade, P
<1> QED
    BY <1>1, <1>3, <1>9, <1>10 DEF NumberingInv, NothingYet, Applied, Silence, Growing, Checking

\* An action is read back as a number.
LEMMA ReadBackType ==
    ASSUME NEW new, new.token \in Numbers, new.form \in Forms, NEW ordinal \in Nat
    PROVE  ReadBack(new, ordinal) \in Nat
<1>1. ParseArticleNumber(new.token) \in Nat
    BY NumberFacts
<1>2. ParseMarker(new.token, new.form).ordinal \in Nat
    BY ParseMarkerType DEF Marker
<1> QED
    BY <1>1, <1>2 DEF ReadBack

LEMMA CurrentFacts ==
    ASSUME TreeInv, NEW n \in 1..Len(nodes)
    PROVE  /\ currentOrdinal(n) \in Nat
           /\ AsWritten(nodes[n]) => currentOrdinal(n) = nodes[n].ordinal
<1>1. nodes[n] \in Node /\ n # 0
    BY TreeTypesFacts DEF TreeInv
<1>2. nodes[n].ordinal \in Nat /\ nodes[n].marker.ordinal \in Nat
    BY <1>1 DEF Node, Marker
<1> QED
    BY <1>1, <1>2 DEF currentOrdinal, HasMarker, AsWritten

LEMMA VerifyApplyStep == ASSUME NumberingInv, VerifyApply PROVE NumberingInv'
<1>1. PICK N \in Nat : N = Len(nodes) /\ DOMAIN nodes = 1..N /\ \A n \in 1..N : nodes[n] \in Node
    BY TreeTypesFacts DEF NumberingInv, TreeInv
<1> DEFINE read(n) == ReadBack(plan[n], currentOrdinal(n))
<1>2. /\ phase = "planned" /\ phase' = "applied" /\ NodesKept
      /\ UNCHANGED <<findings, plan, remaining, parallel, shown>>
    BY DEF VerifyApply
<1>3. saved' = [n \in DOMAIN plan |-> [ordinal |-> currentOrdinal(n), number |-> nodes[n].number]]
    BY DEF VerifyApply
<1>4. nodes' = [n \in 1..N |-> IF n \in DOMAIN plan THEN ApplyTo(n, read(n), plan[n].token) ELSE nodes[n]]
  <2>1. \A n : targetOrdinal(plan[n], n) = read(n)
      BY DEF targetOrdinal, ReadBack
  <2> QED
      BY <1>1, <2>1 DEF VerifyApply
<1>5. \A n \in 1..N : AsWritten(nodes[n])
    BY <1>1, <1>2 DEF NumberingInv, Written, Building, Checking
<1>6. \A n \in 1..N : currentOrdinal(n) \in Nat /\ currentOrdinal(n) = nodes[n].ordinal
    BY <1>1, <1>5, CurrentFacts DEF NumberingInv
<1>7. DOMAIN plan \subseteq 1..N /\ \A n \in DOMAIN plan : plan[n].token \in Numbers /\ read(n) \in Nat
  <2>1. /\ DOMAIN plan \subseteq 1..N
        /\ \A n \in DOMAIN plan : plan[n].token \in Numbers /\ plan[n].form \in Forms
      BY <1>1 DEF NumberingInv, NumberingTypes
  <2>2. ASSUME NEW n \in DOMAIN plan PROVE read(n) \in Nat
      BY <1>6, <2>1, ReadBackType
  <2> QED
      BY <2>1, <2>2
<1>8. ASSUME NEW n \in DOMAIN plan PROVE nodes'[n] = ApplyTo(n, read(n), plan[n].token)
    BY <1>4, <1>7
<1>9. ASSUME NEW n \in 1..N, n \notin DOMAIN plan PROVE nodes'[n] = nodes[n]
    BY <1>4, <1>9
<1> HIDE DEF read
<1>10. Renumbered
  <2>1. ASSUME NEW n \in 1..N
        PROVE  /\ nodes'[n] \in Node
               /\ nodes'[n].kind = nodes[n].kind /\ nodes'[n].word = nodes[n].word
               /\ nodes'[n].parent = nodes[n].parent /\ nodes'[n].level = nodes[n].level
               /\ nodes'[n].head = nodes[n].head
               /\ nodes'[n].marker.kind = nodes[n].marker.kind
               /\ nodes'[n].marker.form = nodes[n].marker.form
               /\ nodes'[n].marker.ambiguous = nodes[n].marker.ambiguous
               /\ nodes'[n].marker.altKind = nodes[n].marker.altKind
    <3>1. CASE n \in DOMAIN plan
        BY <1>1, <1>7, <1>8, <3>1, ApplyFacts DEF NumberingInv
    <3>2. CASE n \notin DOMAIN plan
        BY <1>1, <1>9, <3>2
    <3> QED
        BY <3>1, <3>2
  <2>2. DOMAIN nodes' = 1..N
      BY <1>4
  <2>3. nodes' \in [1..N -> Node]
      BY <1>4, <2>1, <2>2
  <2>4. nodes' \in Seq(Node) /\ Len(nodes') = N
      BY <2>2, <2>3, SeqDef, LenProperties
  <2> QED
      BY <1>1, <2>1, <2>4 DEF Renumbered
<1>11. TreeInv' /\ Len(nodes') = N
    BY <1>1, <1>2, <1>10, RulesKeepTheTree DEF NumberingInv, Growing, Renumbered
<1>12. NumberingTypes'
  <2>1. \A n \in DOMAIN plan : nodes[n].number \in Numbers
      BY <1>1, <1>7 DEF Node
  <2>2. \A n \in DOMAIN saved' : saved'[n].ordinal \in Nat /\ saved'[n].number \in Numbers
      BY <1>3, <1>6, <1>7, <2>1
  <2> QED
      BY <1>1, <1>2, <1>3, <1>11, <2>2 DEF NumberingInv, NumberingTypes
<1>13. Applied'
  <2>1. ASSUME NEW n \in DOMAIN plan PROVE nodes'[n].ordinal = ReadBack(plan[n], saved'[n].ordinal)
    <3>1. nodes'[n].ordinal = read(n)
        BY <1>1, <1>7, <1>8, ApplyFacts DEF NumberingInv
    <3>2. saved'[n].ordinal = currentOrdinal(n)
        BY <1>3
    <3> QED
        BY <3>1, <3>2 DEF read
  <2> QED
      BY <1>2, <1>3, <2>1 DEF Applied, ReadBack
<1>14. Written'
  <2>1. ASSUME NEW n \in 1..N PROVE AsWritten(Restored(n))'
    <3>1. CASE n \in DOMAIN plan
      <4>1. /\ saved'[n].ordinal = nodes[n].ordinal /\ saved'[n].number = nodes[n].number
            /\ n \in DOMAIN saved' /\ nodes[n].ordinal \in Nat /\ nodes[n].number \in Numbers
          BY <1>1, <1>3, <1>6, <3>1 DEF Node
      <4>2. PICK new \in Node : /\ new = nodes'[n] /\ new.head = nodes[n].head
                               /\ new.marker.kind = nodes[n].marker.kind
          BY <1>1, <1>10, TreeTypesFacts DEF Renumbered
      <4>3. PICK x \in Nat : x = IF HasMarker(n)' THEN nodes[n].ordinal ELSE new.marker.ordinal
          BY <4>1 DEF Node, Marker
      <4>4. HasMarker(n)' <=> new.marker.kind # "unknown"
          BY <4>2 DEF HasMarker
      <4>5. PICK old : old = NewNumbers(new, nodes[n].ordinal, nodes[n].number, x)
          OBVIOUS
      <4>6. Restored(n)' = old
          BY <4>1, <4>2, <4>3, <4>5 DEF Restored, ApplyTo, NewNumbers
      <4>7. /\ old.ordinal = nodes[n].ordinal /\ old.number = nodes[n].number
            /\ old.head = nodes[n].head /\ old.marker.kind = nodes[n].marker.kind
            /\ old.marker.ordinal = x
          BY SMTT(30), <4>1, <4>2, <4>3, <4>5, RecordFacts
      <4>8. AsWritten(old)
        <5>1. AsWritten(nodes[n]) /\ (HasMarker(n)' <=> old.marker.kind # "unknown")
            BY <1>5, <4>2, <4>4, <4>7
        <5>2. old.marker.kind # "unknown" => old.marker.ordinal = nodes[n].ordinal
            BY <4>3, <4>7, <5>1
        <5> QED
            BY <4>7, <5>1, <5>2 DEF AsWritten
      <4>9. lines' = lines
          BY <1>2 DEF NodesKept
      <4> QED
          BY <4>6, <4>8, <4>9 DEF AsWritten
    <3>2. CASE n \notin DOMAIN plan
      <4>1. Restored(n)' = nodes[n]
          BY <1>3, <1>9, <3>2 DEF Restored
      <4> QED
          BY <1>2, <1>5, <4>1 DEF AsWritten, NodesKept
    <3> QED
        BY <3>1, <3>2
  <2> QED
      BY <1>2, <1>11, <2>1 DEF Written, Building, Checking
<1> QED
    BY <1>2, <1>11, <1>12, <1>13, <1>14 DEF NumberingInv, NothingYet, PlanMade, Silence, Growing

LEMMA VerifyCheckStep == ASSUME NumberingInv, VerifyCheck PROVE NumberingInv'
<1>1. /\ phase = "applied" /\ phase' = "checked" /\ NodesKept /\ remaining' = ValidateNumbering
      /\ UNCHANGED <<nodes, findings, plan, saved, parallel, shown>>
    BY DEF VerifyCheck
<1>2. TreeInv' /\ Written' /\ Sequences' = Sequences /\ \A n : Wanted(n)' = Wanted(n)
    BY <1>1, QuietStep DEF Growing, Checking
<1>3. NumberingTypes'
  <2>1. \A f \in remaining' : f.node \in 1..Len(nodes)
      BY <1>1, ValidatedNodes DEF NumberingInv
  <2> QED
      BY <1>1, <2>1 DEF NumberingInv, NumberingTypes
<1>4. Applied'
    BY <1>1 DEF NumberingInv, Applied, Checking, ReadBack
<1>5. ASSUME remaining' = {}, NEW S \in Sequences, Cardinality(S) > 1, NEW n \in S
      PROVE  nodes[n].ordinal = Wanted(n)
  <2>1. checkSequence(S, Ordinals) = {}
    <3> DEFINE reports == {checkSequence(T, Ordinals) : T \in Sequences}
    <3>1. UNION reports = {}
        BY <1>1, <1>5 DEF ValidateNumbering
    <3>2. checkSequence(S, Ordinals) \in reports
        BY <1>5
    <3> HIDE DEF reports
    <3> QED
        BY <3>1, <3>2
  <2>2. \A m \in S : Ordinals[m] = nodes[m].ordinal /\ Ordinals[m] \in Nat
      BY <1>5, SequenceFacts, TreeTypesFacts DEF NumberingInv, TreeInv, Node, Ordinals
  <2> QED
      BY <1>5, <2>1, <2>2, AcceptedIffCounting DEF NumberingInv
<1>6. Silence'
    BY <1>1, <1>2, <1>5 DEF Silence
<1> QED
    BY <1>1, <1>2, <1>3, <1>4, <1>6 DEF NumberingInv, NothingYet, PlanMade, Growing

LEMMA VerifyRestoreStep == ASSUME NumberingInv, VerifyRestore PROVE NumberingInv'
<1>1. PICK N \in Nat : N = Len(nodes) /\ DOMAIN nodes = 1..N /\ \A n \in 1..N : nodes[n] \in Node
    BY TreeTypesFacts DEF NumberingInv, TreeInv
<1>2. /\ phase = "checked" /\ phase' = "verified" /\ NodesKept
      /\ UNCHANGED <<findings, plan, saved, remaining, parallel, shown>>
    BY DEF VerifyRestore
<1>3. nodes' = [n \in 1..N |-> Restored(n)]
    BY <1>1 DEF VerifyRestore, Restored
<1>4. /\ DOMAIN saved = DOMAIN plan /\ DOMAIN plan \subseteq 1..N
      /\ \A n \in DOMAIN plan : /\ nodes[n].ordinal = ReadBack(plan[n], saved[n].ordinal)
                                /\ saved[n].ordinal \in Nat /\ saved[n].number \in Numbers
    BY <1>1, <1>2 DEF NumberingInv, Applied, Checking, NumberingTypes
<1>5. ASSUME NEW n \in DOMAIN plan
      PROVE  nodes'[n] = ApplyTo(n, saved[n].ordinal, saved[n].number)
    BY <1>3, <1>4 DEF Restored
<1>6. ASSUME NEW n \in 1..N, n \notin DOMAIN plan PROVE nodes'[n] = nodes[n]
    BY <1>3, <1>4, <1>6 DEF Restored
<1>7. Renumbered
  <2>1. ASSUME NEW n \in 1..N
        PROVE  /\ nodes'[n] \in Node
               /\ nodes'[n].kind = nodes[n].kind /\ nodes'[n].word = nodes[n].word
               /\ nodes'[n].parent = nodes[n].parent /\ nodes'[n].level = nodes[n].level
               /\ nodes'[n].head = nodes[n].head
               /\ nodes'[n].marker.kind = nodes[n].marker.kind
               /\ nodes'[n].marker.form = nodes[n].marker.form
               /\ nodes'[n].marker.ambiguous = nodes[n].marker.ambiguous
               /\ nodes'[n].marker.altKind = nodes[n].marker.altKind
    <3>1. CASE n \in DOMAIN plan
        BY <1>1, <1>4, <1>5, <3>1, ApplyFacts DEF NumberingInv
    <3>2. CASE n \notin DOMAIN plan
        BY <1>1, <1>6, <3>2
    <3> QED
        BY <3>1, <3>2
  <2>2. DOMAIN nodes' = 1..N
      BY <1>3
  <2>3. nodes' \in [1..N -> Node]
      BY <1>3, <2>1, <2>2
  <2>4. nodes' \in Seq(Node) /\ Len(nodes') = N
      BY <2>2, <2>3, SeqDef, LenProperties
  <2> QED
      BY <1>1, <2>1, <2>4 DEF Renumbered
<1>8. TreeInv' /\ Len(nodes') = N
    BY <1>1, <1>2, <1>7, RulesKeepTheTree DEF NumberingInv, Growing, Renumbered
<1>9. Sequences' = Sequences /\ \A n : Wanted(n)' = Wanted(n)
    BY <1>7, SequencesKept DEF NumberingInv
<1>10. NumberingTypes'
    BY <1>1, <1>2, <1>8 DEF NumberingInv, NumberingTypes
<1>11. Written'
  <2>1. \A n \in 1..N : AsWritten(Restored(n)) /\ nodes'[n] = Restored(n)
      BY <1>1, <1>2, <1>3 DEF NumberingInv, Written, Checking
  <2>2. \A n \in 1..N : AsWritten(nodes[n])'
      BY <1>2, <2>1 DEF AsWritten, NodesKept
  <2> QED
      BY <1>2, <1>8, <2>2 DEF Written, Building, Checking
<1>12. Silence'
  <2> SUFFICES ASSUME remaining' = {}, NEW S \in Sequences, Cardinality(S) > 1, NEW n \in S \cap DOMAIN plan
               PROVE  targetOrdinal(plan[n], n)' = Wanted(n)
      BY <1>2, <1>9 DEF Silence
  <2>1. nodes[n].ordinal = Wanted(n) /\ nodes[n].ordinal = ReadBack(plan[n], saved[n].ordinal)
      BY <1>2, <1>4 DEF NumberingInv, Silence
  <2>2. currentOrdinal(n)' = saved[n].ordinal
    <3>1. PICK r : r = ApplyTo(n, saved[n].ordinal, saved[n].number) /\ nodes'[n] = r /\ n # 0
        BY <1>4, <1>5
    <3>2. /\ r.ordinal = saved[n].ordinal /\ r.marker.kind = nodes[n].marker.kind
          /\ nodes[n].marker.kind # "unknown" => r.marker.ordinal = saved[n].ordinal
        BY <1>1, <1>4, <3>1, ApplyFacts DEF NumberingInv
    <3> QED
        BY <3>1, <3>2 DEF currentOrdinal, HasMarker
  <2>3. targetOrdinal(plan[n], n)' = ReadBack(plan[n], saved[n].ordinal)
      BY <1>2, <2>2 DEF targetOrdinal, ReadBack
  <2> QED
      BY <2>1, <2>3
<1> QED
    BY <1>2, <1>8, <1>10, <1>11, <1>12 DEF NumberingInv, NothingYet, PlanMade, Applied, Growing, Checking

LEMMA VerifyNothingStep == ASSUME NumberingInv, VerifyNothing PROVE NumberingInv'
<1>1. /\ phase = "planned" /\ phase' = "verified" /\ DOMAIN plan = {} /\ NodesKept
      /\ UNCHANGED <<nodes, findings, plan, saved, remaining, parallel, shown>>
    BY DEF VerifyNothing, numberingVars
<1>2. TreeInv' /\ Written'
    BY <1>1, QuietStep DEF Growing, Checking
<1>3. NumberingTypes'
    BY <1>1 DEF NumberingInv, NumberingTypes
<1> QED
    BY <1>1, <1>2, <1>3 DEF NumberingInv, NothingYet, PlanMade, Applied, Silence, Growing, Checking

\* After the self-check the nodes stay and what it found stays true.
LEMMA ReportStep ==
    ASSUME NumberingInv, NodesKept, UNCHANGED <<nodes, findings, plan, saved, remaining>>,
           phase \in {"verified", "attached", "reported"}, phase' \in {"verified", "attached", "reported"},
           \A a \in shown' : a.node \in 1..Len(nodes), \A f \in parallel' : f.node \in 1..Len(nodes)
    PROVE  NumberingInv'
<1>1. /\ TreeInv' /\ Written' /\ Sequences' = Sequences /\ Len(nodes') = Len(nodes)
      /\ \A n : Wanted(n)' = Wanted(n)
    BY QuietStep DEF Growing, Checking
<1>2. \A n : targetOrdinal(plan[n], n)' = targetOrdinal(plan[n], n)
    BY DEF targetOrdinal, currentOrdinal, HasMarker
<1>3. NumberingTypes'
    BY <1>1 DEF NumberingInv, NumberingTypes
<1>4. Silence'
    BY <1>1, <1>2 DEF NumberingInv, Silence
<1> QED
    BY <1>1, <1>3, <1>4 DEF NumberingInv, NothingYet, PlanMade, Applied, Growing, Checking

LEMMA AttachPlannedStep == ASSUME NumberingInv, AttachPlanned PROVE NumberingInv'
<1>1. /\ phase = "verified" /\ phase' = "attached" /\ NodesKept
      /\ UNCHANGED <<nodes, findings, plan, saved, remaining, parallel>>
      /\ shown' = {[type |-> "renumber", node |-> f.node] : f \in {g \in findings : g.node \in DOMAIN plan}}
    BY DEF AttachPlanned
<1>2. \A a \in shown' : a.node \in 1..Len(nodes)
    BY <1>1 DEF NumberingInv, NumberingTypes
<1>3. \A f \in parallel' : f.node \in 1..Len(nodes)
    BY <1>1 DEF NumberingInv, NumberingTypes
<1> QED
    BY <1>1, <1>2, <1>3, ReportStep

\* The runs that are compared are sequences.
LEMMA ParallelNodes ==
    ASSUME TreeInv, NEW r \in parallelRuns
    PROVE  r \subseteq 1..Len(nodes)
<1>1. r \in ArticleRuns
    BY DEF parallelRuns
<1>2. r \subseteq Articles
    BY <1>1 DEF ArticleRuns
<1> QED
    BY <1>2, TreeTypesFacts DEF Articles, TreeInv

LEMMA CheckParallelSequencesStep == ASSUME NumberingInv, CheckParallelSequences PROVE NumberingInv'
<1>1. /\ phase = "attached" /\ phase' = "reported" /\ NodesKept
      /\ UNCHANGED <<nodes, findings, plan, saved, remaining>>
    BY DEF CheckParallelSequences
<1>2. /\ \A a \in shown : a.node \in 1..Len(nodes)
      /\ \A f \in parallel : f.node \in 1..Len(nodes)
    BY DEF NumberingInv, NumberingTypes
<1>3. UNION parallelRuns \subseteq 1..Len(nodes)
    BY ParallelNodes DEF NumberingInv
<1>4. \/ UNCHANGED <<parallel, shown>>
      \/ \E extra, apart \in SUBSET UNION parallelRuns :
            /\ parallel' = {Finding("unpaired", n) : n \in extra} \cup {Finding("apart", n) : n \in apart}
            /\ shown' = shown \cup {[type |-> "delete", node |-> n] : n \in extra}
  <2> DEFINE runs     == parallelRuns
             shortest == Min({Cardinality(r) : r \in runs})
             extra    == {n \in UNION runs : \E r \in runs : n \in r /\ Position(r, n) > shortest}
             base     == CHOOSE r \in runs : Min(r) = Min(UNION runs)
             apart    == {n \in (UNION runs) \ extra : \E r \in runs \ {base}, m \in base :
                             n \in r /\ Position(base, m) = Position(r, n)
                             /\ nodes[m].ordinal # nodes[n].ordinal}
  <2>1. \/ UNCHANGED <<parallel, shown>>
        \/ /\ parallel' = {Finding("unpaired", n) : n \in extra} \cup {Finding("apart", n) : n \in apart}
           /\ shown' = shown \cup {[type |-> "delete", node |-> n] : n \in extra}
      BY DEF CheckParallelSequences
  <2>2. extra \in SUBSET UNION runs /\ apart \in SUBSET UNION runs
      OBVIOUS
  <2> HIDE DEF extra, apart
  <2> QED
      BY <2>1, <2>2
<1>5. CASE UNCHANGED <<parallel, shown>>
    BY <1>1, <1>2, <1>5, ReportStep
<1>6. CASE \E extra, apart \in SUBSET UNION parallelRuns :
            /\ parallel' = {Finding("unpaired", n) : n \in extra} \cup {Finding("apart", n) : n \in apart}
            /\ shown' = shown \cup {[type |-> "delete", node |-> n] : n \in extra}
  <2>1. PICK extra \in SUBSET UNION parallelRuns :
          \E apart \in SUBSET UNION parallelRuns :
            /\ parallel' = {Finding("unpaired", n) : n \in extra} \cup {Finding("apart", n) : n \in apart}
            /\ shown' = shown \cup {[type |-> "delete", node |-> n] : n \in extra}
      BY <1>6
  <2>2. PICK apart \in SUBSET UNION parallelRuns :
            /\ parallel' = {Finding("unpaired", n) : n \in extra} \cup {Finding("apart", n) : n \in apart}
            /\ shown' = shown \cup {[type |-> "delete", node |-> n] : n \in extra}
      BY <2>1
  <2>3. extra \subseteq 1..Len(nodes) /\ apart \subseteq 1..Len(nodes)
      BY <1>3
  <2>4. \A f \in parallel' : f.node \in 1..Len(nodes)
    <3> TAKE f \in parallel'
    <3>1. \E n \in extra \cup apart : f = Finding("unpaired", n) \/ f = Finding("apart", n)
        BY <2>2
    <3> QED
        BY <2>3, <3>1 DEF Finding
  <2>5. \A a \in shown' : a.node \in 1..Len(nodes)
      BY <1>2, <2>2, <2>3
  <2> QED
      BY <1>1, <2>4, <2>5, ReportStep
<1> QED
    BY <1>4, <1>5, <1>6

LEMMA NumberingStutter == ASSUME NumberingInv, UNCHANGED vars PROVE NumberingInv'
<1>1. /\ UNCHANGED treeVars /\ UNCHANGED <<nodes, lines, phase>>
      /\ UNCHANGED <<findings, plan, saved, remaining, parallel, shown>>
    BY DEF vars, treeVars, numberingVars
<1>2. TreeInv'
    BY <1>1, TreeStutter DEF NumberingInv
<1>3. Renumbered /\ Sequences' = Sequences /\ \A n : Wanted(n)' = Wanted(n)
    BY <1>1, NodesUntouched, SequencesKept DEF NumberingInv
<1>4. NumberingTypes' /\ NothingYet' /\ Applied'
    BY <1>1 DEF NumberingInv, NumberingTypes, NothingYet, Applied, ReadBack
<1>5. Written'
    BY <1>1 DEF NumberingInv, Written, AsWritten, Restored, ApplyTo, HasMarker
<1>6. PlanMade'
  <2>1. \A m : currentOrdinal(m)' = currentOrdinal(m)
      BY <1>1 DEF currentOrdinal, HasMarker
  <2> QED
      BY <1>1, <1>3, <2>1 DEF NumberingInv, PlanMade
<1>7. Silence'
  <2>1. \A n : targetOrdinal(plan[n], n)' = targetOrdinal(plan[n], n)
      BY <1>1 DEF targetOrdinal, currentOrdinal, HasMarker
  <2> QED
      BY <1>1, <1>3, <2>1 DEF NumberingInv, Silence
<1> QED
    BY <1>2, <1>4, <1>5, <1>6, <1>7 DEF NumberingInv

LEMMA NumberingStep == NumberingInv /\ [Next]_vars => NumberingInv'
    BY BuilderStep, ValidateStep, PlanRenumberingStep, VerifyApplyStep, VerifyCheckStep,
       VerifyRestoreStep, VerifyNothingStep, AttachPlannedStep, CheckParallelSequencesStep,
       NumberingStutter
    DEF Next

LEMMA NumberingAlways == Spec => []NumberingInv
    BY NumberingInitFacts, NumberingStep, PTL DEF Spec

-----------------------------------------------------------------------------
(* What is written is read.                                                *)

\* FormatOrdinal() is the inverse of parsing (marker.go:328): in the symbols of every
\* kind of list, a number that the patterns reach is read back as this number of this
\* kind, in one of the readings of its symbol.
THEOREM FormatOrdinalIsReadBack ==
    ASSUME NEW kind \in MarkerKinds \ {"unknown", "decimal"}, NEW form \in Forms \ {"bare"},
           NEW n \in Nat \ {0}, FitsThePattern(kind, n)
    PROVE  LET m == ParseMarker(FormatOrdinal(kind, n), form)
           IN  /\ m.form = form
               /\ n \in {m.ordinal, m.altOrdinal}
               /\ m.kind = kind \/ m.altKind = kind
<1> DEFINE m == ParseMarker(FormatOrdinal(kind, n), form)
           Back == m.form = form /\ n \in {m.ordinal, m.altOrdinal} /\ (m.kind = kind \/ m.altKind = kind)
<1> SUFFICES Back
    OBVIOUS
<1>1. CASE kind = "digit"
  <2>1. PICK tok : tok = Digit(n)
      OBVIOUS
  <2>2. FormatOrdinal(kind, n) = tok /\ tok.script = "digit" /\ tok.value[1] = n
      BY <1>1, <2>1 DEF FormatOrdinal, Digit
  <2>3. n < 1000 /\ n > 0
      BY <1>1 DEF FitsThePattern
  <2>4. m = classifyToken(tok, form)
      BY <2>2, <2>3 DEF ParseMarker
  <2>5. PICK base : base = [NoMarker EXCEPT !.token = tok, !.form = form]
      OBVIOUS
  <2>6. m = [base EXCEPT !.kind = "digit", !.ordinal = n]
      BY <2>2, <2>3, <2>4, <2>5 DEF classifyToken
  <2>7. base \in [token : {tok}, kind : {"unknown"}, form : {form}, ordinal : {0},
                  ambiguous : BOOLEAN, altKind : {"unknown"}, altOrdinal : {0}]
      BY <2>5, BlankMarker
  <2>8. m.form = form /\ m.ordinal = n /\ m.kind = "digit"
    <3> HIDE DEF m
    <3> QED
      BY <2>6, <2>7
  <2> QED
      BY <1>1, <2>8
<1>2. ASSUME NEW script \in {"lower", "upper"}, kind = Roman(script) PROVE Back
  <2>1. PICK v : v = formatRoman[n]
      OBVIOUS
  <2>2. FormatOrdinal(kind, n) = [script |-> script, value |-> v]
      BY <1>2, <2>1 DEF FormatOrdinal, Roman, Lower, Upper
  <2>3. Len(v) <= 4
      BY <1>2, <2>1, FamilyFacts DEF FitsThePattern
  <2>4. m.form = form /\ ReadAs(m, script, n, AlphaReading(v))
    <3>1. PICK p : p = ParseMarker([script |-> script, value |-> v], form)
        OBVIOUS
    <3>2. p.form = form /\ ReadAs(p, script, n, AlphaReading(v))
        BY <2>1, <2>3, <3>1, NumeralRead
    <3> QED
        BY <2>2, <3>1, <3>2
  <2> HIDE DEF m
  <2> QED
      BY <1>2, <2>4 DEF ReadAs
<1>3. ASSUME NEW script \in {"lower", "upper"}, kind = Alpha(script) PROVE Back
  <2>1. PICK v : v = formatAlpha[n]
      OBVIOUS
  <2>2. FormatOrdinal(kind, n) = [script |-> script, value |-> v]
      BY <1>3, <2>1 DEF FormatOrdinal, Alpha, Lower, Upper
  <2>3. Len(v) <= 2
      BY <1>3, <2>1, FamilyFacts DEF FitsThePattern
  <2>4. m.form = form /\ ReadAs(m, script, parseRoman(v), n)
    <3>1. PICK p : p = ParseMarker([script |-> script, value |-> v], form)
        OBVIOUS
    <3>2. p.form = form /\ ReadAs(p, script, parseRoman(v), n)
        BY <2>1, <2>3, <3>1, LettersReadBack
    <3> QED
        BY <2>2, <3>1, <3>2
  <2> HIDE DEF m
  <2> QED
      BY <1>3, <2>4 DEF ReadAs
<1>4. \/ kind = "digit" \/ kind = Roman("lower") \/ kind = Roman("upper")
      \/ kind = Alpha("lower") \/ kind = Alpha("upper")
    BY DEF MarkerKinds, Roman, Alpha
<1> QED
    BY <1>1, <1>2, <1>3, <1>4

\* ... and not beyond: the eighteenth member of a list of numerals is to be written
\* "xviii", which no pattern takes as a marker, whatever its delimiters.
LEMMA EighteenIsNotReadBack ==
    ASSUME NEW form
    PROVE  ParseMarker(FormatOrdinal("lowerRoman", 18), form) = NoMarker
<1>1. PICK tok : tok = FormatOrdinal("lowerRoman", 18)
    OBVIOUS
<1>2. tok = [script |-> "lower", value |-> formatRoman[18]]
    BY <1>1 DEF FormatOrdinal, Lower
<1>3. tok.script = "lower" /\ Len(tok.value) = 5
    BY <1>2, EighteenIsLong
<1>4. ~(Len(tok.value) <= 4)
    BY <1>3
<1>5. ParseMarker(tok, form) = NoMarker
    BY <1>3, <1>4 DEF ParseMarker
<1> QED
    BY <1>1, <1>5

\* A marker that is no decimal has delimiters.
IsDelimited(m) == /\ m.kind \notin {"unknown", "decimal"} => m.form # "bare"
                  /\ m.kind = "decimal" => ~m.ambiguous
Delimited == \A n \in 1..Len(nodes) : IsDelimited(nodes[n].marker)

LEMMA ReadDelimited ==
    ASSUME NEW tok \in Numbers, NEW form \in Forms
    PROVE  IsDelimited(ParseMarker(tok, form))
<1>1. PICK m \in Marker : m = classifyToken(tok, form) /\ Readable(m, tok, form)
    BY classifyTokenType
<1>2. PICK p : p = ParseMarker(tok, form)
    OBVIOUS
<1>3. p = NoMarker \/ p = m
    BY <1>1, <1>2 DEF ParseMarker
<1>4. tok.script # "decimal" => p = NoMarker \/ form # "bare"
    BY <1>1, <1>2 DEF ParseMarker
<1>5. tok.script = "decimal" => m.kind = "decimal" /\ ~m.ambiguous
  <2> SUFFICES ASSUME tok.script = "decimal" PROVE m.kind = "decimal" /\ ~m.ambiguous
      OBVIOUS
  <2>1. PICK base : base = [NoMarker EXCEPT !.token = tok, !.form = form]
      OBVIOUS
  <2>2. m = [base EXCEPT !.kind = "decimal", !.ordinal = Last(tok.value)]
      BY <1>1, <2>1 DEF classifyToken
  <2>3. /\ base \in [token : {tok}, kind : {"unknown"}, form : {form}, ordinal : {0},
                     ambiguous : BOOLEAN, altKind : {"unknown"}, altOrdinal : {0}]
        /\ ~base.ambiguous
      BY <2>1, BlankMarker
  <2> QED
      BY <2>2, <2>3
<1>6. tok.script # "decimal" => m.kind # "decimal"
  <2> SUFFICES ASSUME tok.script # "decimal" PROVE m.kind # "decimal"
      OBVIOUS
  <2>1. PICK base : base = [NoMarker EXCEPT !.token = tok, !.form = form]
      OBVIOUS
  <2>2. base \in [token : {tok}, kind : {"unknown"}, form : {form}, ordinal : {0},
                  ambiguous : BOOLEAN, altKind : {"unknown"}, altOrdinal : {0}]
      BY <2>1, BlankMarker
  <2>3. Roman(tok.script) # "decimal" /\ Alpha(tok.script) # "decimal" /\ NoMarker.kind # "decimal"
      BY NoMarkerType DEF Roman, Alpha
  <2>4. CASE tok.script = "digit"
    <3>1. tok.value[1] \in Nat
        BY <2>4, NumberFacts
    <3>2. m = [base EXCEPT !.kind = "digit", !.ordinal = tok.value[1]] \/ m = NoMarker
        BY <1>1, <2>1, <2>4, <3>1 DEF classifyToken
    <3> QED
        BY <2>2, <2>3, <3>2
  <2>5. CASE tok.script # "digit"
    <3>1. PICK roman, alpha : roman = parseRoman(tok.value)
                              /\ alpha = IF Len(tok.value) > 2 THEN 0 ELSE parseAlpha[tok.value]
        OBVIOUS
    <3>2. \/ m = [base EXCEPT !.kind = Roman(tok.script), !.ordinal = roman, !.ambiguous = TRUE,
                             !.altKind = Alpha(tok.script), !.altOrdinal = alpha]
          \/ m = [base EXCEPT !.kind = Roman(tok.script), !.ordinal = roman]
          \/ m = [base EXCEPT !.kind = Alpha(tok.script), !.ordinal = alpha]
          \/ m = NoMarker
        BY <1>1, <2>1, <2>5, <3>1 DEF classifyToken
    <3> QED
        BY <2>2, <2>3, <3>2
  <2> QED
      BY <2>4, <2>5
<1> QED
    BY <1>1, <1>2, <1>3, <1>4, <1>5, <1>6, NoMarkerType DEF IsDelimited, Readable

\* Settling takes no delimiters away.
LEMMA SettledDelimited ==
    ASSUME NEW o \in Marker, NEW decided, o.kind # "unknown", o.ambiguous => o.altKind # "unknown",
           IsDelimited(o)
    PROVE  IsDelimited(Settle(o, decided))
<1>1. PICK m : m = Settle(o, decided)
    OBVIOUS
<1>2. m \in Marker /\ m.form = o.form /\ ~m.ambiguous
    BY <1>1, SettleFacts
<1>3. CASE o.kind = "decimal"
  <2>1. m = o
      BY <1>1, <1>3 DEF Settle, IsDelimited
  <2> QED
      BY <1>1, <2>1
<1>4. CASE o.kind # "decimal"
    BY <1>1, <1>2, <1>4 DEF IsDelimited
<1> QED
    BY <1>3, <1>4

LEMMA DelimitedStep == ASSUME TreeInv, resolveSiblingMarkers PROVE Delimited'
<1>1. PICK N \in Nat : N = Len(nodes) /\ DOMAIN nodes = 1..N /\ \A n \in 1..N : nodes[n] \in Node
    BY TreeTypesFacts DEF TreeInv
<1>2. nodes' = [n \in 1..N |-> Resolved(n)] /\ phase = "build"
    BY <1>1 DEF resolveSiblingMarkers
<1>3. Len(nodes') = N
  <2>1. TreeInv'
      BY resolveSiblingMarkersStep
  <2>2. DOMAIN nodes' = 1..N /\ nodes' \in Seq(Node)
      BY <1>2, <2>1 DEF TreeInv, TreeTypes
  <2> QED
      BY <2>2, LenProperties
<1> SUFFICES ASSUME NEW n \in 1..N PROVE IsDelimited(nodes'[n].marker)
    BY <1>3 DEF Delimited
<1>4. nodes'[n] = Resolved(n)
    BY <1>2
<1>5. n # 0 /\ nodes[n].marker \in Marker
  <2>1. nodes[n] \in Node
      BY <1>1
  <2> QED
      BY <2>1 DEF Node
<1>6. CASE ~HasMarker(n)
  <2>1. nodes'[n].marker.kind = "unknown"
      BY <1>4, <1>5, <1>6 DEF Resolved, HasMarker
  <2> QED
      BY <2>1 DEF IsDelimited
<1>7. CASE HasMarker(n)
  <2>1. PICK l \in Lines : nodes[n].marker = MarkerAt(l) /\ MarkerAt(l).kind # "unknown"
    <3>1. nodes[n].marker = MarkerAt(lines[nodes[n].head])
        BY <1>1, <1>2, <1>7 DEF TreeInv, MarkersAsRead, Building
    <3>2. PICK h \in Nat \ {0} : h = nodes[n].head
        BY <1>1 DEF Node
    <3>3. h <= Len(owner) /\ Len(owner) <= Len(lines) /\ Len(owner) \in Nat /\ Len(lines) \in Nat
        BY <1>1, <3>2, TreeTypesFacts DEF TreeInv, InDocumentOrder, Progress
    <3>4. lines \in Seq(Lines) /\ h \in 1..Len(lines)
        BY <3>3 DEF TreeInv, TreeTypes
    <3>5. lines[h] \in Lines
        BY <3>4, ElementOfSeq
    <3> QED
        BY <1>7, <3>1, <3>2, <3>5 DEF HasMarker
  <2>2. IsDelimited(MarkerAt(l))
    <3>1. l.type = "marker"
        BY <2>1, LineFacts
    <3>2. l.number \in Numbers /\ l.form \in Forms
        BY DEF Lines, Numbers, Forms
    <3> QED
        BY <3>1, <3>2, ReadDelimited DEF MarkerAt
  <2>3. PICK decided : decided = DecidedKind([c \in Siblings(n) |-> nodes[c].marker])
      OBVIOUS
  <2>4. PICK m : m = Settle(nodes[n].marker, decided)
      OBVIOUS
  <2>5. PICK kind : kind = markerNodeKind(m)
      OBVIOUS
  <2>6. PICK node \in Node : node = nodes[n]
      BY <1>1
  <2>7. Resolved(n) = [node EXCEPT !.marker = m, !.kind = kind, !.ordinal = m.ordinal, !.number = m.token]
      BY <1>7, <2>3, <2>4, <2>5, <2>6 DEF Resolved
  <2>8. Resolved(n).marker = m
      BY <2>7 DEF Node
  <2>9. IsDelimited(m)
    <3>1. MarkerAt(l).ambiguous => MarkerAt(l).altKind # "unknown"
        BY LineFacts
    <3> QED
        BY <1>5, <2>1, <2>2, <2>4, <3>1, SettledDelimited
  <2> QED
      BY <1>4, <2>8, <2>9
<1> QED
    BY <1>6, <1>7

\* What is legible in each phase: lists that are written in order, delimiters, and a plan
\* in the symbols of its lists.
Delimiting == {"name", "close", "built", "validated", "planned"}
Legible ==
    /\ OrderlyListsCount
    /\ phase \in Delimiting => Delimited
    /\ phase = "planned" => \A n \in DOMAIN plan : plan[n] = renumberAction(n, Wanted(n))

LEMMA LegibleInTheTree ==
    ASSUME TreeInv, Legible, TreeNext PROVE Legible'
<1>1. OrderlyListsCount'
    BY OrderlyTreeStep DEF Legible
<1>2. CASE resolveSiblingMarkers
  <2>1. Delimited' /\ phase' = "name"
      BY <1>2, DelimitedStep DEF resolveSiblingMarkers
  <2> QED
      BY <1>1, <2>1 DEF Legible
<1>3. CASE ReadLine \/ discoverHeadings \/ BuildBlank \/ BuildHeading \/ BuildMarker \/ BuildBody
  <2>1. phase' \notin Delimiting
      BY <1>3 DEF ReadLine, discoverHeadings, BuildBlank, BuildHeading, BuildMarker, BuildBody,
                  attach, AtLine, Delimiting
  <2> QED
      BY <1>1, <2>1 DEF Legible, Delimiting
<1>4. CASE ReassignID \/ IDsReassigned \/ CloseBefore \/ CloseAll
  <2>1. UNCHANGED nodes /\ phase \in Delimiting /\ phase' # "planned"
      BY <1>4 DEF ReassignID, IDsReassigned, CloseBefore, CloseAll, Delimiting
  <2>2. Delimited'
      BY <2>1 DEF Legible, Delimited
  <2> QED
      BY <1>1, <2>1, <2>2 DEF Legible
<1> QED
    BY <1>2, <1>3, <1>4 DEF TreeNext

LEMMA LegibleStep == NumberingInv /\ Legible /\ [Next]_vars => Legible'
<1> SUFFICES ASSUME NumberingInv, Legible, [Next]_vars PROVE Legible'
    OBVIOUS
<1>1. CASE TreeNext /\ UNCHANGED numberingVars
    BY <1>1, LegibleInTheTree DEF NumberingInv
<1>2. CASE Validate
  <2>1. UNCHANGED nodes /\ phase = "built" /\ phase' = "validated"
      BY <1>2 DEF Validate
  <2>2. Delimited'
      BY <2>1 DEF Legible, Delimited, Delimiting
  <2>3. OrderlyListsCount'
      BY <2>1, OrderlyLater DEF Settled
  <2> QED
      BY <2>1, <2>2, <2>3 DEF Legible
<1>3. CASE PlanRenumbering
  <2>1. UNCHANGED nodes /\ phase = "validated" /\ phase' = "planned"
      BY <1>3 DEF PlanRenumbering
  <2>2. Delimited'
      BY <2>1 DEF Legible, Delimited, Delimiting
  <2>3. OrderlyListsCount'
      BY <2>1, OrderlyLater DEF Settled
  <2>4. \A n : renumberAction(n, Wanted(n))' = renumberAction(n, Wanted(n))
    <3>1. \A n : Wanted(n)' = Wanted(n)
        BY <1>3, QuietStep DEF PlanRenumbering, Growing, Checking
    <3> QED
        BY <2>1, <3>1 DEF renumberAction, HasMarker
  <2>5. \A n \in DOMAIN plan' : plan'[n] = renumberAction(n, Wanted(n))
      BY <1>3 DEF PlanRenumbering
  <2>6. (\A n \in DOMAIN plan : plan[n] = renumberAction(n, Wanted(n)))'
      BY <2>4, <2>5
  <2> QED
      BY <2>2, <2>3, <2>6 DEF Legible
<1>4. CASE \/ VerifyApply \/ VerifyCheck \/ VerifyRestore \/ VerifyNothing
           \/ AttachPlanned \/ CheckParallelSequences
  <2>1. phase' \notin Delimiting
      BY <1>4 DEF VerifyApply, VerifyCheck, VerifyRestore, VerifyNothing, AttachPlanned,
                  CheckParallelSequences, Delimiting
  <2>2. OrderlyListsCount'
      BY <2>1, OrderlyLater DEF Settled, Delimiting
  <2> QED
      BY <2>1, <2>2 DEF Legible, Delimiting
<1>5. CASE UNCHANGED vars
  <2>1. UNCHANGED nodes /\ UNCHANGED phase /\ UNCHANGED plan
      BY <1>5 DEF vars, treeVars, numberingVars
  <2>2. OrderlyListsCount'
      BY <2>1, OrderlyKept DEF Legible
  <2>3. phase' \in Delimiting => Delimited'
      BY <2>1 DEF Legible, Delimited
  <2>4. \A n : renumberAction(n, Wanted(n))' = renumberAction(n, Wanted(n))
      BY <2>1 DEF renumberAction, HasMarker, Wanted, Sequences, ArticleRuns, Articles, MarkerGroups,
                  MarkerGroup, ChapterRun, Children, Position
  <2>5. (phase = "planned" => \A n \in DOMAIN plan : plan[n] = renumberAction(n, Wanted(n)))'
      BY <2>1, <2>4 DEF Legible
  <2> QED
      BY <2>2, <2>3, <2>5 DEF Legible
<1> QED
    BY <1>1, <1>2, <1>3, <1>4, <1>5 DEF Next

LEMMA LegibleAlways == Spec => []Legible
<1>1. Init => Legible
    BY DEF Init, TreeInit, Legible, OrderlyListsCount, Delimiting
<1> QED
    BY <1>1, LegibleStep, NumberingAlways, PTL DEF Spec

LEMMA ReadableHolds == NumberingInv /\ Legible => PlanIsReadable
<1> SUFFICES ASSUME NumberingInv, Legible, phase = "planned",
                    NEW n \in DOMAIN plan, HasMarker(n), nodes[n].marker.kind # "decimal",
                    FitsThePattern(nodes[n].marker.kind, Wanted(n))
             PROVE  LET m == ParseMarker(plan[n].token, plan[n].form)
                    IN  /\ m.form = nodes[n].marker.form
                        /\ Wanted(n) \in {m.ordinal, m.altOrdinal}
                        /\ m.kind = nodes[n].marker.kind \/ m.altKind = nodes[n].marker.kind
    BY DEF PlanIsReadable
<1>1. n \in 1..Len(nodes) /\ n \in UNION Sequences
    BY DEF NumberingInv, NumberingTypes, PlanMade
<1>2. PICK kind, form, want : /\ kind = nodes[n].marker.kind /\ form = nodes[n].marker.form
                              /\ want = Wanted(n)
    OBVIOUS
<1>3. want \in Nat \ {0}
  <2>1. PICK S \in Sequences : n \in S
      BY <1>1
  <2>2. S \subseteq 1..Len(nodes) /\ Wanted(n) = Position(S, n)
      BY <2>1, SequenceFacts DEF NumberingInv
  <2>3. S \in SUBSET (Nat \ {0})
    <3>1. Len(nodes) \in Nat
        BY TreeTypesFacts DEF NumberingInv, TreeInv
    <3> QED
        BY <2>2, <3>1
  <2> QED
      BY <1>2, <2>1, <2>2, <2>3, MemberPosition
<1>4. kind \in MarkerKinds \ {"unknown", "decimal"} /\ form \in Forms \ {"bare"}
  <2>1. nodes[n] \in Node
      BY <1>1, TreeTypesFacts DEF NumberingInv, TreeInv
  <2>2. kind \in MarkerKinds /\ form \in Forms
      BY <1>2, <2>1 DEF Node, Marker
  <2>3. kind # "unknown" /\ kind # "decimal"
      BY <1>2 DEF HasMarker
  <2>4. IsDelimited(nodes[n].marker)
      BY <1>1 DEF Legible, Delimited, Delimiting
  <2> QED
      BY <1>2, <2>2, <2>3, <2>4 DEF IsDelimited
<1>5. plan[n] = [token |-> FormatOrdinal(kind, want), form |-> form]
    BY <1>2 DEF Legible, renumberAction, Render
<1>6. plan[n].token = FormatOrdinal(kind, want) /\ plan[n].form = form
    BY <1>5
<1>7. FitsThePattern(kind, want)
    BY <1>2
<1> HIDE DEF FitsThePattern
<1>8. PICK m : m = ParseMarker(FormatOrdinal(kind, want), form)
    OBVIOUS
<1>9. m.form = form /\ want \in {m.ordinal, m.altOrdinal} /\ (m.kind = kind \/ m.altKind = kind)
    BY <1>3, <1>4, <1>7, <1>8, FormatOrdinalIsReadBack
<1> QED
    BY <1>2, <1>6, <1>8, <1>9

-----------------------------------------------------------------------------
(* The properties.                                                         *)

LEMMA NumberingTypesHold == NumberingInv => TypeOK
<1> SUFFICES ASSUME NumberingInv PROVE TypeOK
    OBVIOUS
<1>1. DOMAIN nodes = 1..Len(nodes)
    BY TreeTypesFacts DEF NumberingInv, TreeInv
<1>2. {f.node : f \in findings \cup remaining \cup parallel} \subseteq DOMAIN nodes
    BY <1>1 DEF NumberingInv, NumberingTypes
<1>3. {a.node : a \in shown} \subseteq DOMAIN nodes
    BY <1>1 DEF NumberingInv, NumberingTypes
<1>4. DOMAIN plan \subseteq DOMAIN nodes /\ DOMAIN saved \subseteq DOMAIN plan
    BY <1>1 DEF NumberingInv, NumberingTypes
<1> QED
    BY <1>2, <1>3, <1>4, TreeTypesHold DEF NumberingInv, TypeOK

\* While the plan is new, it has the members that are not in their places.
LEMMA PlannedFacts ==
    ASSUME NumberingInv, phase = "planned", NEW S \in Sequences, NEW n \in S
    PROVE  /\ n \in DOMAIN plan <=> nodes[n].ordinal # Wanted(n)
           /\ n \in DOMAIN nodes /\ nodes[n].ordinal \in Nat /\ Wanted(n) \in Nat
<1>1. n \in 1..Len(nodes) /\ Wanted(n) \in Nat /\ n \in UNION Sequences
    BY SequenceFacts DEF NumberingInv
<1>2. AsWritten(nodes[n])
    BY <1>1 DEF NumberingInv, Written, Building, Checking
<1>3. currentOrdinal(n) = nodes[n].ordinal /\ currentOrdinal(n) \in Nat
    BY <1>1, <1>2, CurrentFacts DEF NumberingInv
<1>4. n \in DOMAIN plan <=> currentOrdinal(n) # Wanted(n)
    BY <1>1 DEF NumberingInv, PlanMade
<1> QED
    BY <1>1, <1>3, <1>4, TreeTypesFacts DEF NumberingInv, TreeInv

LEMMA PlanHolds == NumberingInv => PlanIsAFix
<1> SUFFICES ASSUME NumberingInv, phase = "planned" PROVE PlanIsAFix
    BY DEF PlanIsAFix, PlanFollowsFindings, PlanSettlesEverySequence
<1>1. ASSUME NEW S \in Sequences, Cardinality(S) > 1
      PROVE  (S \cap DOMAIN plan # {}) <=> (checkSequence(S, Ordinals) # {})
  <2>1. \A n \in S : Ordinals[n] = nodes[n].ordinal /\ Ordinals[n] \in Nat
      BY <1>1, PlannedFacts DEF Ordinals
  <2>2. checkSequence(S, Ordinals) = {} <=> \A n \in S : Ordinals[n] = Wanted(n)
      BY <1>1, <2>1, AcceptedIffCounting DEF NumberingInv
  <2>3. \A n \in S : n \in DOMAIN plan <=> Ordinals[n] # Wanted(n)
      BY <1>1, <2>1, PlannedFacts
  <2> QED
      BY <2>2, <2>3
<1> DEFINE after == [n \in DOMAIN nodes |-> IF n \in DOMAIN plan THEN Wanted(n) ELSE nodes[n].ordinal]
<1>2. ASSUME NEW S \in Sequences PROVE checkSequence(S, after) = {}
  <2>1. CASE Cardinality(S) > 1
    <3>1. \A n \in S : after[n] = Wanted(n) /\ after[n] \in Nat
        BY <1>2, PlannedFacts
    <3> HIDE DEF after
    <3> QED
        BY <1>2, <2>1, <3>1, AcceptedIffCounting DEF NumberingInv
  <2>2. CASE ~(Cardinality(S) > 1)
    <3>1. Cardinality(S) < 2
        BY <1>2, <2>2, SequenceFacts DEF NumberingInv
    <3> QED
        BY <3>1 DEF checkSequence
  <2> QED
      BY <2>1, <2>2
<1> QED
    BY <1>1, <1>2 DEF PlanIsAFix, PlanFollowsFindings, PlanSettlesEverySequence

LEMMA WrittenHolds == NumberingInv => TreeSaysWhatIsWritten
<1> SUFFICES ASSUME NumberingInv, phase \notin Checking, NEW n \in DOMAIN nodes
             PROVE  LET l == lines[nodes[n].head]
                    IN  /\ nodes[n].number = l.number
                        /\ HasMarker(n) => nodes[n].marker.ordinal = nodes[n].ordinal
                        /\ nodes[n].ordinal \in IF HasMarker(n)
                                                THEN {MarkerAt(l).ordinal, MarkerAt(l).altOrdinal}
                                                ELSE {ParseArticleNumber(l.number)}
    BY DEF TreeSaysWhatIsWritten, Checking
<1>1. n \in 1..Len(nodes) /\ n # 0
    BY TreeTypesFacts DEF NumberingInv, TreeInv
<1>2. CASE phase \in Building
  <2>1. /\ HasMarker(n) => nodes[n].marker = MarkerAt(lines[nodes[n].head])
        /\ nodes[n].number = lines[nodes[n].head].number
        /\ HasMarker(n) => nodes[n].marker.ordinal = nodes[n].ordinal
        /\ ~HasMarker(n) => nodes[n].ordinal = ParseArticleNumber(lines[nodes[n].head].number)
      BY <1>1, <1>2 DEF NumberingInv, TreeInv, MarkersAsRead
  <2> QED
      BY <2>1
<1>3. CASE phase \notin Building
  <2>1. AsWritten(nodes[n])
      BY <1>1, <1>3 DEF NumberingInv, Written
  <2> QED
      BY <1>1, <2>1 DEF AsWritten, HasMarker
<1> QED
    BY <1>2, <1>3

\* A name is made of the number as it is written, also while the plan is in the tree.
NamedAsWritten == \A n \in DOMAIN ids : NamedAfter(n, lines[nodes[n].head].number)

LEMMA WrittenNames == NumberingInv /\ phase \notin Checking => (NamesAreCurrent <=> NamedAsWritten)
<1> SUFFICES ASSUME NumberingInv, phase \notin Checking, NEW n \in DOMAIN ids
             PROVE  nodes[n].number = lines[nodes[n].head].number
    BY DEF NamesAreCurrent, NamedAsWritten
<1>1. n \in DOMAIN nodes
  <2>1. /\ DOMAIN ids = 1..Len(ids) /\ DOMAIN nodes = 1..Len(nodes) /\ Len(ids) <= Len(nodes)
        /\ Len(ids) \in Nat /\ Len(nodes) \in Nat
      BY SeqFacts DEF NumberingInv, TreeInv, TreeTypes, Progress
  <2> QED
      BY <2>1
<1> QED
    BY <1>1, WrittenHolds DEF TreeSaysWhatIsWritten, Checking

\* What is written into a node and taken back is neither its kind nor its place.
LEMMA PlaceIsKept ==
    ASSUME NEW n, nodes[n] \in Node, NEW ordinal, NEW number
    PROVE  LET r == ApplyTo(n, ordinal, number)
           IN  r.kind = nodes[n].kind /\ r.parent = nodes[n].parent /\ r.head = nodes[n].head
    BY DEF ApplyTo, Node

LEMMA NamesStayWritten ==
    ASSUME NumberingInv, NamedAsWritten, UNCHANGED <<ids, lines>>, DOMAIN nodes' = DOMAIN nodes,
           \A n \in DOMAIN nodes : /\ nodes'[n].kind = nodes[n].kind
                                   /\ nodes'[n].parent = nodes[n].parent
                                   /\ nodes'[n].head = nodes[n].head
    PROVE  NamedAsWritten'
<1> SUFFICES ASSUME NEW n \in DOMAIN ids PROVE NamedAfter(n, lines[nodes[n].head].number)'
    BY DEF NamedAsWritten
<1>1. n \in DOMAIN nodes
  <2>1. /\ DOMAIN ids = 1..Len(ids) /\ DOMAIN nodes = 1..Len(nodes) /\ Len(ids) <= Len(nodes)
        /\ Len(ids) \in Nat /\ Len(nodes) \in Nat
      BY SeqFacts DEF NumberingInv, TreeInv, TreeTypes, Progress
  <2> QED
      BY <2>1
<1>2. NamedAfter(n, lines[nodes[n].head].number)
    BY DEF NamedAsWritten
<1> QED
    BY <1>1, <1>2 DEF NamedAfter

LEMMA NamedAsWrittenStep == NumberingInv /\ NamedAsWritten /\ [Next]_vars => NamedAsWritten'
<1> SUFFICES ASSUME NumberingInv, NamedAsWritten, [Next]_vars PROVE NamedAsWritten'
    OBVIOUS
<1>0. NumberingInv'
    BY NumberingStep
<1>1. CASE TreeNext
  <2>1. phase \notin Checking /\ phase' \notin Checking
      BY <1>1 DEF TreeNext, ReadLine, discoverHeadings, BuildBlank, BuildHeading, BuildMarker, BuildBody,
        resolveSiblingMarkers, ReassignID, IDsReassigned, CloseBefore, CloseAll, attach, AtLine, Checking
  <2>2. NamesAreCurrent
      BY <2>1, WrittenNames
  <2>3. NamesAreCurrent'
      BY <1>1, <2>2, CurrentTreeStep DEF NumberingInv
  <2>4. (NumberingInv /\ phase \notin Checking => (NamesAreCurrent <=> NamedAsWritten))'
      BY WrittenNames, PTL
  <2> QED
      BY <1>0, <2>1, <2>3, <2>4
<1>2. CASE VerifyApply \/ VerifyRestore
  <2>1. UNCHANGED <<ids, lines>> /\ DOMAIN nodes' = DOMAIN nodes
      BY <1>2 DEF VerifyApply, VerifyRestore, NodesKept
  <2>2. ASSUME NEW n \in DOMAIN nodes
        PROVE  /\ nodes'[n].kind = nodes[n].kind /\ nodes'[n].parent = nodes[n].parent
               /\ nodes'[n].head = nodes[n].head
    <3>1. nodes[n] \in Node
        BY TreeTypesFacts DEF NumberingInv, TreeInv
    <3>2. nodes'[n] = nodes[n] \/ \E ordinal, number : nodes'[n] = ApplyTo(n, ordinal, number)
        BY <1>2 DEF VerifyApply, VerifyRestore
    <3> QED
        BY <3>1, <3>2, PlaceIsKept
  <2> QED
      BY <2>1, <2>2, NamesStayWritten
<1>3. CASE \/ Validate \/ PlanRenumbering \/ VerifyCheck \/ VerifyNothing
           \/ AttachPlanned \/ CheckParallelSequences \/ UNCHANGED vars
  <2>1. UNCHANGED <<nodes, ids, lines>>
      BY <1>3 DEF Validate, PlanRenumbering, VerifyCheck, VerifyNothing, AttachPlanned,
                  CheckParallelSequences, NodesKept, vars, treeVars
  <2> QED
      BY <2>1, NamesStayWritten
<1> QED
    BY <1>1, <1>2, <1>3 DEF Next

LEMMA SilenceHolds == NumberingInv => SilenceIsEarned
    BY DEF NumberingInv, Silence, SilenceIsEarned

\* The rules' state has its types.
THEOREM NumberingTypesAreKept == Spec => []TypeOK
    BY NumberingAlways, NumberingTypesHold, PTL

\* The tree that the rules work on has its properties to the end, the self-check
\* included: every paragraph has the innermost owner and every node its own name.
THEOREM OwnersStayInnermost == Spec => []OwnersAreInnermost
<1>1. NumberingInv => OwnersAreInnermost
    BY StackHolds, OwnersHold DEF NumberingInv, OwnersAreInnermost
<1> QED
    BY <1>1, NumberingAlways, PTL

THEOREM NamesStayUnique == Spec => []FirstKeepsItsName
<1>1. NumberingInv => FirstKeepsItsName
    BY NamesHold DEF NumberingInv
<1> QED
    BY <1>1, NumberingAlways, PTL

\* In every document, and outside the two steps of the self-check, no name is stale: the
\* trial of the plan changes numbers and not names, and its end brings the numbers back
\* (resolveSiblingMarkers(), reassignIDs() and Verify()).
THEOREM NamesAlwaysFollowTheTree == Spec => []NamesFollowTheTree
<1>1. Init => NamedAsWritten
    BY DEF Init, TreeInit, NamedAsWritten
<1>2. NumberingInv /\ NamedAsWritten => NamesFollowTheTree
    BY WrittenNames DEF NamesFollowTheTree, Checking
<1>3. Spec => []NamedAsWritten
    BY <1>1, NamedAsWrittenStep, NumberingAlways, PTL DEF Spec
<1> QED
    BY <1>2, <1>3, NumberingAlways, PTL

\* In every document the names that citations lead to are unique, plain where they are
\* the first, and current (uniqueID(), reassignIDs() and Verify()).
THEOREM NamesAreAlwaysSound == Spec => []NamesAreSound
    BY NamesStayUnique, NamesAlwaysFollowTheTree, PTL DEF NamesAreSound

\* In every document the plan changes a list of two or more if and only if the validator
\* reports its order, and once its numbers are in place the validator accepts every
\* sequence at once (PlanRenumbering(), markerGroups() and checkSequence()).
THEOREM PlanIsAlwaysAFix == Spec => []PlanIsAFix
    BY NumberingAlways, PlanHolds, PTL

\* The self-check writes the plan into the tree and its restore brings back, for every
\* node, the number as it is written and a reading of it (Verify(), renumber.go).
THEOREM TreeAlwaysSaysWhatIsWritten == Spec => []TreeSaysWhatIsWritten
    BY NumberingAlways, WrittenHolds, PTL

\* A report without a remaining finding means that every action for a list of two or
\* more, read back as it is written, was understood as the number it stands for.
THEOREM SilenceIsAlwaysEarned == Spec => []SilenceIsEarned
    BY NumberingAlways, SilenceHolds, PTL

\* Both together: no trace of the self-check is left in the tree, and its silence means
\* that it understood every action as the planner meant it (Verify() and nodes.go:122).
THEOREM SelfCheckIsAlwaysHonest == Spec => []SelfCheckIsHonest
<1>1. TreeSaysWhatIsWritten /\ SilenceIsEarned => SelfCheckIsHonest
    BY DEF SelfCheckIsHonest
<1> QED
    BY <1>1, TreeAlwaysSaysWhatIsWritten, SilenceIsAlwaysEarned, PTL

\* A plan is written in the symbols and the delimiters of its list, and what is written
\* is read as the number the plan wanted, as far as the patterns reach (renumberAction(),
\* Render() and ParseMarker()).
THEOREM PlanIsAlwaysReadable == Spec => []PlanIsReadable
    BY NumberingAlways, LegibleAlways, ReadableHolds, PTL

\* In documents of every length: a list that is written in order is read in order, and
\* what the plan writes into a list is read as it was meant.
THEOREM MarkersAreAlwaysLegible == Spec => []MarkersAreLegible
<1>1. Legible => OrderlyListsCount
    BY DEF Legible
<1>2. OrderlyListsCount /\ PlanIsReadable => MarkersAreLegible
    BY DEF MarkersAreLegible
<1> QED
    BY <1>1, <1>2, LegibleAlways, PlanIsAlwaysReadable, PTL
=============================================================================
