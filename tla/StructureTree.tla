--------------------------- MODULE StructureTree ----------------------------
(***************************************************************************)
(* The structure builder (internal/structure/build.go): one pass over the  *)
(* paragraphs of a document with a stack of open nodes, and the fix-up     *)
(* passes after it, which settle the ambiguous markers of each list, name  *)
(* every node and close its range.                                         *)
(*                                                                         *)
(* The document is read line by line from the lines of one drafting style; *)
(* nodes are numbered in the order they are attached, which is document    *)
(* order, and 0 is the root.                                               *)
(***************************************************************************)
EXTENDS Markers, Citations

CONSTANTS Styles,          \* drafting styles: what lines a document may have
          LinesOf,         \* LinesOf[style]: the lines of the style
          MaxLines,        \* MaxLines[style]: bound on the length of a document
          MinKeywordHits   \* how often a word must head a line to be a heading

\* A line: blank, a named heading (kind and number), a heading in a word of the
\* document's own (a keyword), a marker with its delimiters, or body text.
Line(type, kind, word, number, form) ==
    [type |-> type, kind |-> kind, word |-> word, number |-> number, form |-> form]
LineTypes == {"blank", "heading", "keyword", "marker", "body", "caption"}
HeadingKinds == {"bab", "bagian", "paragraf", "pasal", "article"}
MarkerForms  == {"bare", "dot", "paren", "bracket"}
Lines ==
    {l \in [type : LineTypes, kind : HeadingKinds \cup {"none"}, word : STRING,
             number : Token, form : MarkerForms \cup {"none"}] :
        (l.type \in {"heading", "keyword"}) <=> (l.kind # "none")}
BlankLine                == Line("blank", "none", "", Digit(0), "none")
HeadingLine(kind, n)     == Line("heading", kind, kind, n, "none")
KeywordLine(word, n)     == Line("keyword", "article", word, n, "none")
MarkerLine(number, form) == Line("marker", "none", "", number, form)
BodyLine                 == Line("body", "none", "", Digit(0), "none")
CaptionLine              == Line("caption", "none", "", Digit(0), "none")

ASSUME StructureAssumption ==
    /\ DOMAIN LinesOf = Styles /\ DOMAIN MaxLines = Styles
    /\ \A s \in Styles : MaxLines[s] \in Nat /\ LinesOf[s] \subseteq Lines
    /\ MinKeywordHits \in Nat \ {0, 1}

VARIABLES style,     \* the drafting style of this document
          lines,     \* its paragraphs
          learned,   \* heading words learned from the document
          nodes,     \* the nodes of the tree, in document order
          stack,     \* the open nodes, the innermost last
          owner,     \* the innermost open node at each paragraph built so far
          captioned, \* the nodes that have a title
          ids,       \* the name of each node
          ends,      \* the last paragraph of each node, 0 until it is closed
          open,      \* closeRanges(): the nodes that are still open
          phase

treeVars == <<style, lines, learned, nodes, stack, owner, captioned, ids, ends, open, phase>>

-----------------------------------------------------------------------------
Depth(kind) == CASE kind = "bab" -> 1 [] kind = "bagian" -> 2 [] kind = "paragraf" -> 3
                 [] kind \in {"pasal", "article"} -> 4

\* markerNodeKind(): the name of a level is the form of its symbol.
markerNodeKind(m) ==
    CASE m.kind = "decimal" -> "clause"
      [] IsAlpha(m.kind) -> "huruf"
      [] IsRoman(m.kind) -> "item"
      [] OTHER -> IF m.form = "bracket" THEN "ayat" ELSE "angka"

\* sameFamily(): same delimiters, and the same symbols in one of the readings.
sameFamily(a, b) ==
    /\ a.form = b.form
    /\ \/ a.kind = b.kind
       \/ a.ambiguous /\ a.altKind = b.kind
       \/ b.ambiguous /\ b.altKind = a.kind

-----------------------------------------------------------------------------
HasMarker(n) == n # 0 /\ nodes[n].marker.kind # "unknown"
LevelOf(n)   == IF n = 0 THEN 0 ELSE nodes[n].level
Top          == Last(stack)
Children(n)  == {c \in DOMAIN nodes : nodes[c].parent = n}
Position(S, n) == Cardinality({m \in S : m <= n})

\* The open nodes of m's family, as positions of the stack.
OpenFamily(m) == {i \in 2..Len(stack) : HasMarker(stack[i]) /\ sameFamily(nodes[stack[i]].marker, m)}

\* markerLevel(): beside the innermost open member of the family, else one deeper.
markerLevel(m) ==
    IF OpenFamily(m) # {} THEN LevelOf(stack[Max(OpenFamily(m))]) ELSE LevelOf(Top) + 1

\* plausibleMarker(): a list cannot open beyond 26 in both readings.
maxSequenceStart == 26
plausibleMarker(m) ==
    \/ m.ordinal <= maxSequenceStart
    \/ m.ambiguous /\ m.altOrdinal <= maxSequenceStart
    \/ OpenFamily(m) # {}

IDOf(names, n) == IF n = 0 THEN <<>> ELSE names[n]

-----------------------------------------------------------------------------
TreeInit ==
    /\ style \in Styles
    /\ lines = <<>> /\ learned = {}
    /\ nodes = <<>> /\ stack = <<0>> /\ owner = <<>> /\ captioned = {}
    /\ ids = <<>> /\ ends = <<>> /\ open = <<>>
    /\ phase = "read"

\* Ingest hands over one more paragraph.
ReadLine ==
    /\ phase = "read" /\ Len(lines) < MaxLines[style]
    /\ \E l \in LinesOf[style] : lines' = Append(lines, l)
    /\ UNCHANGED <<style, learned, nodes, stack, owner, captioned, ids, ends, open, phase>>

\* ascendingRatio() >= minAscendingRatio (0.7), for a sequence of ordinals.
Ascends(ords) ==
    10 * Cardinality({i \in 2..Len(ords) : ords[i] > ords[i - 1]}) >= 7 * (Len(ords) - 1)

\* discoverHeadings(): a word outside the fixed patterns becomes a heading when it
\* heads enough lines and its numbers mostly ascend.
discoverHeadings ==
    /\ phase = "read"
    /\ learned' = {w \in {l.word : l \in ToSet(lines)} :
                     LET hits == SelectSeq(lines, LAMBDA l : l.type = "keyword" /\ l.word = w)
                         ords == [i \in DOMAIN hits |-> ParseArticleNumber(hits[i].number)]
                     IN  Len(hits) >= MinKeywordHits /\ Ascends(ords)}
    /\ phase' = "build"
    /\ UNCHANGED <<style, lines, nodes, stack, owner, captioned, ids, ends, open>>

\* The paragraph that Build() is at.
Here == Len(owner) + 1
AtLine == phase = "build" /\ Here <= Len(lines)
IsHeading(l) == \/ l.type = "heading"
                \/ l.type = "keyword" /\ l.word \in learned
MarkerAt(l)  == IF l.type = "marker" THEN ParseMarker(l.number, l.form) ELSE NoMarker
OpensList(l) == MarkerAt(l).kind # "unknown" /\ plausibleMarker(MarkerAt(l))

BuildBlank ==
    /\ AtLine /\ lines[Here].type = "blank"
    /\ owner' = Append(owner, Top)
    /\ UNCHANGED <<style, lines, learned, nodes, stack, captioned, ids, ends, open, phase>>

\* attach(): open nodes are closed from the top, while they are at this level or
\* deeper, and the node hangs under what is left on top of the stack.
KeptOpen(level) ==
    SubSeq(stack, 1, Max({i \in DOMAIN stack : stack[i] = 0 \/ LevelOf(stack[i]) < level}))

\* Mutant: the paragraph after the heading is taken for the heading.
HeadIndexAfter == Here + 1
HeadIndex == Here

attach(kind, word, number, ordinal, marker, level) ==
    LET kept   == KeptOpen(level)
        parent == Last(kept)
        id     == uniqueID(ToSet(ids), NodeID(IDOf(ids, parent), kind, number))
        node   == [kind |-> kind, word |-> word, number |-> number, ordinal |-> ordinal,
                   marker |-> marker, level |-> level, parent |-> parent, head |-> HeadIndex]
    IN  /\ nodes' = Append(nodes, node)
        /\ stack' = Append(kept, Len(nodes) + 1)
        /\ owner' = Append(owner, Len(nodes) + 1)
        /\ ids'   = Append(ids, id)
        /\ ends'  = Append(ends, 0)
        /\ UNCHANGED <<style, lines, learned, captioned, open, phase>>

BuildHeading ==
    /\ AtLine /\ IsHeading(lines[Here])
    /\ LET l == lines[Here]
       IN  attach(l.kind, l.word, l.number, ParseArticleNumber(l.number), NoMarker, Depth(l.kind))

BuildMarker ==
    /\ AtLine /\ OpensList(lines[Here])
    /\ LET m == MarkerAt(lines[Here])
       IN  attach(markerNodeKind(m), "", m.token, m.ordinal, m, markerLevel(m))

\* Everything else is body text of the innermost node; a caption right under a
\* chapter, part or paragraph heading is its title.
BuildBody ==
    /\ AtLine /\ lines[Here].type # "blank" /\ ~IsHeading(lines[Here]) /\ ~OpensList(lines[Here])
    /\ owner' = Append(owner, Top)
    /\ captioned' = IF /\ Top # 0 /\ lines[Here].type = "caption"
                       /\ nodes[Top].head = Here - 1
                       /\ nodes[Top].kind \in {"bab", "bagian", "paragraf"}
                    THEN captioned \cup {Top} ELSE captioned
    /\ UNCHANGED <<style, lines, learned, nodes, stack, ids, ends, open, phase>>

-----------------------------------------------------------------------------
\* The list a marker belongs to: the markers at its level under its parent.
Siblings(n) == {c \in Children(nodes[n].parent) : HasMarker(c) /\ nodes[c].level = nodes[n].level}

\* resolveSiblingMarkers(): every list settled, and what is derived from a marker
\* derived again.  What is named after that begins with no name.
Resolved(n) ==
    LET m == Settle(nodes[n].marker, DecidedKind([c \in Siblings(n) |-> nodes[c].marker]))
    IN  IF ~HasMarker(n) THEN nodes[n]
        ELSE [nodes[n] EXCEPT !.marker = m, !.kind = markerNodeKind(m),
                              !.ordinal = m.ordinal, !.number = m.token]

\* Mutant: the names that were given while the lists were unsettled are kept.
resolveSiblingMarkersOnly ==
    /\ phase = "build" /\ Here > Len(lines)
    /\ nodes' = [n \in DOMAIN nodes |-> Resolved(n)]
    /\ phase' = "close"
    /\ UNCHANGED <<style, lines, learned, stack, owner, captioned, ids, ends, open>>

resolveSiblingMarkers ==
    /\ phase = "build" /\ Here > Len(lines)
    /\ nodes' = [n \in DOMAIN nodes |-> Resolved(n)]
    /\ ids' = <<>>
    /\ phase' = "name"
    /\ UNCHANGED <<style, lines, learned, stack, owner, captioned, ends, open>>

\* reassignIDs(): every name again, top-down, from the settled kinds and numbers.
ReassignID ==
    /\ phase = "name" /\ Len(ids) < Len(nodes)
    /\ LET n == Len(ids) + 1
       IN  ids' = Append(ids, uniqueID(ToSet(ids),
                      NodeID(IDOf(ids, nodes[n].parent), nodes[n].kind, nodes[n].number)))
    /\ UNCHANGED <<style, lines, learned, nodes, stack, owner, captioned, ends, open, phase>>

IDsReassigned ==
    /\ phase = "name" /\ Len(ids) = Len(nodes)
    /\ phase' = "close"
    /\ UNCHANGED <<style, lines, learned, nodes, stack, owner, captioned, ids, ends, open>>

\* closeRanges(), one node of the flat list: it ends every open node that is not
\* shallower.
Closed == IF open = <<>> THEN 0 ELSE Last(open)

\* Mutant: a node at the same level does not end the one before it.
StillOpenAtLevel(n) ==
    SubSeq(open, 1, Max({0} \cup {i \in DOMAIN open : LevelOf(open[i]) <= LevelOf(n)}))
StillOpen(n) ==
    SubSeq(open, 1, Max({0} \cup {i \in DOMAIN open : LevelOf(open[i]) < LevelOf(n)}))

CloseBefore ==
    /\ phase = "close" /\ Closed < Len(nodes)
    /\ LET n    == Closed + 1
           kept == StillOpen(n)
       IN  /\ ends' = [o \in DOMAIN ends |->
                         IF o \in ToSet(open) \ ToSet(kept) THEN nodes[n].head - 1 ELSE ends[o]]
           /\ open' = Append(kept, n)
    /\ UNCHANGED <<style, lines, learned, nodes, stack, owner, captioned, ids, phase>>

\* ... and its end: what is still open runs to the last paragraph.
CloseAll ==
    /\ phase = "close" /\ Closed = Len(nodes)
    /\ ends' = [o \in DOMAIN ends |-> IF o \in ToSet(open) THEN Len(lines) ELSE ends[o]]
    /\ phase' = "built"
    /\ UNCHANGED <<style, lines, learned, nodes, stack, owner, captioned, ids, open>>

TreeNext ==
    \/ ReadLine \/ discoverHeadings
    \/ BuildBlank \/ BuildHeading \/ BuildMarker \/ BuildBody
    \/ resolveSiblingMarkers \/ ReassignID \/ IDsReassigned \/ CloseBefore \/ CloseAll

TreeSpec == TreeInit /\ [][TreeNext]_treeVars

-----------------------------------------------------------------------------
\* The types of the builder's state.
TreeTypeOK ==
    /\ style \in Styles /\ Len(lines) <= MaxLines[style]
    /\ Len(owner) <= Len(lines) /\ ToSet(owner) \subseteq 0..Len(nodes)
    /\ Len(ids) <= Len(nodes) /\ (phase # "name" => Len(ids) = Len(nodes))
    /\ DOMAIN ends = DOMAIN nodes
    /\ captioned \subseteq DOMAIN nodes
    /\ \A n \in DOMAIN nodes : nodes[n].parent \in 0..(n - 1) /\ nodes[n].head \in 1..Len(lines)

\* The open nodes are a path of the tree from the root down: each hangs under the
\* one below it on the stack, and its level is deeper, whatever order headings,
\* lists and learned headings come in (attach(), build.go:45).
OpenNodesAreAPath ==
    /\ stack[1] = 0
    /\ \A i \in 2..Len(stack) : /\ stack[i] \in DOMAIN nodes
                                /\ nodes[stack[i]].parent = stack[i - 1]
                                /\ LevelOf(stack[i - 1]) < LevelOf(stack[i])

\* Two computations of one fact agree: the node that was innermost while the tree was
\* built (owner, which relative references are resolved with) is the innermost node
\* whose closed range covers the paragraph (OwnerOf(), which labels the changes).
Covering(p) == {n \in DOMAIN nodes : nodes[n].head <= p /\ p <= ends[n]}
OwnerOf(p)  == IF Covering(p) = {} THEN 0
               ELSE CHOOSE n \in Covering(p) : \A m \in Covering(p) : LevelOf(m) <= LevelOf(n)
OwnersAgree == phase = "built" => \A p \in DOMAIN lines : OwnerOf(p) = owner[p]

\* Both: what is open is a path, and its end owns the paragraph.
OwnersAreInnermost == OpenNodesAreAPath /\ OwnersAgree

\* Every heading survives under a name of its own, and of those that would share one
\* the first in the document keeps it: that is the one citations resolve to
\* (uniqueID() and reassignIDs(), after the kinds of a list may have changed).
Unnumbered(id) == [id EXCEPT ![Len(id)].copy = 1]
FirstKeepsItsName ==
    /\ \A m, n \in DOMAIN ids : ids[m] = ids[n] => m = n
    /\ \A n \in DOMAIN ids :
         (\A m \in 1..(n - 1) : Unnumbered(ids[m]) # Unnumbered(ids[n])) => Last(ids[n]).copy = 1

\* No name is stale: up to its suffix each is made of what its node is now, and of the
\* present name of the node above, although settling a list changes kinds after the
\* first naming, and with them the names of everything below (build.go:130).
NamedAfter(n, number) ==
    Unnumbered(ids[n]) = NodeID(IDOf(ids, nodes[n].parent), nodes[n].kind, number)
NamesAreCurrent == \A n \in DOMAIN ids : NamedAfter(n, nodes[n].number)

\* A list that is written in order is read in order: when the members of a list are
\* the letters or the numerals of 1, 2, 3, ... in one script, they carry these
\* ordinals once the list is settled, although "c" and "i" have two readings.
WrittenAs(list, script, format) ==
    \A c \in list : nodes[c].number = [script |-> script, value |-> format[Position(list, c)]]
OrderlyListsCount ==
    phase \in {"name", "close", "built"} =>
        \A n \in {m \in DOMAIN nodes : HasMarker(m)}, script \in {"lower", "upper"} :
            LET list == Siblings(n)
            IN  (WrittenAs(list, script, formatAlpha) \/ WrittenAs(list, script, formatRoman))
                   => \A c \in list : nodes[c].ordinal = Position(list, c)
=============================================================================
