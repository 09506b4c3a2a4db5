----------------------------- MODULE Citations ------------------------------
(***************************************************************************)
(* How the nodes of a document are named and cited (internal/docmodel):    *)
(* node IDs, the names that make them unique (structure/build.go), and how *)
(* a citation finds its node.                                              *)
(*                                                                         *)
(* An ID is the path of its segments; "pasal:3#2/ayat:1" is                *)
(*   << [kind |-> "pasal", number |-> 3, copy |-> 2],                      *)
(*      [kind |-> "ayat", number |-> 1, copy |-> 1] >>.                    *)
(***************************************************************************)
EXTENDS Integers, Sequences, FiniteSets, FiniteSetsExt

IsArticleLevel(kind) == kind \in {"pasal", "article"}

Segment(kind, number) == [kind |-> kind, number |-> number, copy |-> 1]

\* NodeID(): chapters and articles are named globally, the rest under the parent.
NodeID(parentID, kind, number) ==
    (IF IsArticleLevel(kind) \/ kind = "bab" THEN <<>> ELSE parentID) \o << Segment(kind, number) >>

\* Mutant: a second heading with a number takes over the name of the first.
uniqueIDShared(taken, base) == base

\* uniqueID(): a name that is taken gets the suffix #2, #3, ...
uniqueID(taken, base) ==
    LET Named(k) == [base EXCEPT ![Len(base)].copy = k]
    IN  Named(Min({k \in 1..(Cardinality(taken) + 1) : Named(k) \notin taken}))

-----------------------------------------------------------------------------
\* A citation has an article number and perhaps an ayat (0: none); "Section 5" is in
\* English and "Pasal 5" is not.
SubLevel(id, ayat) == IF ayat = 0 THEN id ELSE Append(id, Segment("ayat", ayat))

\* Reference.TargetID().
TargetID(r) ==
    SubLevel(<< Segment(IF r.lang = "en" THEN "article" ELSE "pasal", r.pasal) >>, r.ayat)

\* Resolve(): the node that a citation names, or by FindByCitation() the node of that
\* number at the other article level.  <<>> when there is none.
Resolve(names, r) ==
    LET article == IF << Segment("pasal", r.pasal) >> \in names
                   THEN << Segment("pasal", r.pasal) >> ELSE << Segment("article", r.pasal) >>
    IN  IF TargetID(r) \in names THEN TargetID(r)
        ELSE IF SubLevel(article, r.ayat) \in names THEN SubLevel(article, r.ayat)
        ELSE <<>>

\* articleOf() of report/view.go: the article that a node lies in, as a set of at most
\* one segment.
articleOf(id) ==
    LET articles == {i \in DOMAIN id : IsArticleLevel(id[i].kind)}
    IN  IF articles = {} THEN {} ELSE {id[Min(articles)]}
=============================================================================
