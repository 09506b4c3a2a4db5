---------------------------- MODULE ReportProofs ----------------------------
(***************************************************************************)
(* Theorems about ReportView and the modules under it, for any two         *)
(* versions of any agreement and any alignment of them: the changes are a  *)
(* partition of what differs, the exit code is earned, and every finding   *)
(* is filed once and where it belongs.                                     *)
(***************************************************************************)
EXTENDS ReportView, FiniteSetTheorems, SequenceTheorems, TLAPS

-----------------------------------------------------------------------------
(* Numbers and sets of numbers.                                            *)

\* Every set of naturals that is not empty has a least element.
LEMMA LeastElement ==
    ASSUME NEW S \in SUBSET Nat, S # {}
    PROVE  \E m \in S : \A k \in S : m <= k
<1> DEFINE Below == {0..k : k \in S}
           R == StrictSubsetOrdering(Nat)
           F == FiniteSubsetsOf(Nat)
<1>1. ASSUME NEW k \in S PROVE 0..k \in F
  <2>1. IsFiniteSet(0..k)
      BY FS_Interval
  <2> QED
      BY <2>1 DEF FiniteSubsetsOf
<1>2. Below \subseteq F /\ Below # {}
    BY <1>1
<1>3. IsWellFoundedOn(R, F)
    BY FS_StrictSubsetOrderingWellFounded
<1> HIDE DEF R, F
<1>4. \E B \in Below : \A C \in Below : ~ (<<C, B>> \in R)
  <2> HIDE DEF Below
  <2> QED
      BY <1>2, <1>3, WFMin
<1>5. PICK m \in S : \A k \in S : ~ (<<0..k, 0..m>> \in R)
    BY <1>4
<1>6. ASSUME NEW k \in S, ~(m <= k) PROVE FALSE
  <2>1. 0..k \subseteq 0..m /\ m \notin 0..k /\ m \in 0..m
      BY <1>6
  <2>2. <<0..k, 0..m>> \in R
      BY <2>1 DEF R, StrictSubsetOrdering
  <2> QED
      BY <1>5, <2>2
<1> QED
    BY <1>6

\* What holds of 0 and of the successor of each number it holds of holds of all.
LEMMA Induction ==
    ASSUME NEW S, 0 \in S, \A n \in Nat : n \in S => n + 1 \in S
    PROVE  Nat \subseteq S
<1> SUFFICES ASSUME Nat \ S # {} PROVE FALSE
    OBVIOUS
<1>1. PICK m \in Nat \ S : \A k \in Nat \ S : m <= k
    BY LeastElement
<1>2. m # 0 /\ m - 1 \in Nat /\ m - 1 \in S
    BY <1>1
<1> QED
    BY <1>1, <1>2

\* The least of a set of naturals.
LEMMA MinFacts ==
    ASSUME NEW S \in SUBSET Nat, S # {}
    PROVE  Min(S) \in S /\ \A k \in S : Min(S) <= k
<1>1. \E m \in S : \A k \in S : m <= k
    BY LeastElement
<1> QED
    BY <1>1 DEF Min

\* The greatest of a set of naturals that has a bound.
LEMMA MaxFacts ==
    ASSUME NEW S \in SUBSET Nat, S # {}, NEW b \in Nat, \A k \in S : k <= b
    PROVE  Max(S) \in S /\ \A k \in S : k <= Max(S)
<1> DEFINE T == {t \in Nat : b - t \in S}
<1>1. PICK k \in S : TRUE
    OBVIOUS
<1>2. b - k \in T
    OBVIOUS
<1>3. PICK t \in T : \A u \in T : t <= u
    BY <1>2, LeastElement
<1>4. \A j \in S : b - t >= j
  <2> TAKE j \in S
  <2>1. b - j \in T /\ t \in Nat
      OBVIOUS
  <2>2. t <= b - j
      BY <1>3, <2>1
  <2> QED
      BY <2>1, <2>2
<1>5. b - t \in S
    OBVIOUS
<1> QED
  <2> HIDE DEF T
  <2> QED
      BY <1>4, <1>5 DEF Max

-----------------------------------------------------------------------------
(* Sequences.                                                              *)

\* The positions of a sequence and what is at them.
LEMMA SeqFacts ==
    ASSUME NEW S, NEW s \in Seq(S)
    PROVE  /\ Len(s) \in Nat /\ DOMAIN s = 1..Len(s)
           /\ \A i \in 1..Len(s) : s[i] \in S
           /\ ToSet(s) = {s[i] : i \in 1..Len(s)}
    BY LenProperties, ElementOfSeq DEF ToSet

\* One element more.
LEMMA AppendFacts ==
    ASSUME NEW S, NEW s \in Seq(S), NEW x \in S
    PROVE  /\ Append(s, x) \in Seq(S) /\ Len(Append(s, x)) = Len(s) + 1
           /\ \A i \in 1..Len(s) : Append(s, x)[i] = s[i]
           /\ Append(s, x)[Len(s) + 1] = x /\ Last(Append(s, x)) = x
    BY DEF Last

-----------------------------------------------------------------------------
(* Order.                                                                  *)

\* Before x, and where x is placed.
Until(S, R, x) == {y \in S : <<y, x>> \in R}

\* The members of a finite set in a total order: each has its place, and no place has two.
LEMMA ArrangedFacts ==
    ASSUME NEW S, IsFiniteSet(S), NEW R,
           \A x \in S : <<x, x>> \notin R,
           \A x, y \in S : x # y => <<x, y>> \in R \/ <<y, x>> \in R,
           \A x, y, z \in S : <<x, y>> \in R /\ <<y, z>> \in R => <<x, z>> \in R
    PROVE  /\ Arranged(S, R) \in Seq(S) /\ Len(Arranged(S, R)) = Cardinality(S)
           /\ \A x \in S : \E k \in 1..Cardinality(S) : Arranged(S, R)[k] = x
           /\ \A j, k \in 1..Cardinality(S) : Arranged(S, R)[j] = Arranged(S, R)[k] => j = k
<1> DEFINE c == Cardinality(S)
           at(x) == Cardinality(Until(S, R, x))
           A == Arranged(S, R)
<1>1. c \in Nat /\ IsFiniteSet(1..c) /\ Cardinality(1..c) = c
    BY FS_CardinalityType, FS_Interval
<1>2. ASSUME NEW x \in S PROVE at(x) \in 0..(c - 1) /\ IsFiniteSet(Until(S, R, x))
  <2>1. Until(S, R, x) \in SUBSET (S \ {x})
      BY DEF Until
  <2>2. IsFiniteSet(S \ {x}) /\ Cardinality(S \ {x}) = c - 1
      BY FS_RemoveElement
  <2>3. IsFiniteSet(Until(S, R, x)) /\ at(x) <= c - 1
      BY <2>1, <2>2, FS_Subset
  <2> QED
      BY <1>1, <2>3, FS_CardinalityType
<1>3. ASSUME NEW x \in S, NEW y \in S, <<x, y>> \in R PROVE at(x) < at(y)
  <2>1. Until(S, R, x) \cup {x} \in SUBSET Until(S, R, y) /\ x \notin Until(S, R, x)
      BY <1>3 DEF Until
  <2>2. Cardinality(Until(S, R, x) \cup {x}) = at(x) + 1
      BY <1>2, <2>1, FS_AddElement
  <2>3. Cardinality(Until(S, R, x) \cup {x}) <= at(y)
      BY <1>2, <2>1, FS_Subset
  <2> QED
      BY <1>2, <2>2, <2>3
<1>4. ASSUME NEW x \in S, NEW y \in S, at(x) = at(y) PROVE x = y
  <2>1. x # y => at(x) < at(y) \/ at(y) < at(x)
      BY <1>3
  <2>2. at(x) \in Nat /\ at(y) \in Nat
      BY <1>1, <1>2
  <2> QED
      BY <1>4, <2>1, <2>2
<1>5. ASSUME NEW k \in 1..c PROVE \E x \in S : at(x) = k - 1
  <2> DEFINE f == [x \in S |-> at(x) + 1]
             D == 1..c
  <2>1. \A x \in S : at(x) + 1 \in D
      BY <1>1, <1>2
  <2>2. \A x \in S : at(x) \in Nat
      BY <1>1, <1>2
  <2> HIDE DEF at
  <2>3. f \in [S -> D] /\ \A x \in S : f[x] = at(x) + 1
      BY <2>1
  <2>4. \A x, y \in S : f[x] = f[y] => x = y
      BY <1>4, <2>2, <2>3
  <2>5. IsFiniteSet(D) /\ Cardinality(S) = Cardinality(D)
      BY <1>1
  <2> HIDE DEF f, D
  <2>6. f \in Injection(S, D)
      BY <2>3, <2>4 DEF Injection, IsInjective
  <2>7. f \in Surjection(S, D)
      BY <2>5, <2>6, FS_Injection
  <2>8. PICK x \in S : f[x] = k
      BY <2>7 DEF D, Surjection
  <2> QED
      BY <2>2, <2>3, <2>8
<1>6. ASSUME NEW k \in 1..c PROVE A[k] \in S /\ at(A[k]) = k - 1
  <2>1. A[k] = CHOOSE x \in S : at(x) = k - 1
      BY DEF Arranged, Until
  <2> HIDE DEF at, A
  <2> QED
      BY <1>5, <2>1
<1>7. DOMAIN A = 1..c /\ A = [k \in 1..c |-> A[k]]
  <2> DEFINE e(k) == CHOOSE x \in S : at(x) = k - 1
  <2>1. A = [k \in 1..c |-> e(k)]
      BY DEF Arranged, Until
  <2> HIDE DEF e, A
  <2> QED
      BY <2>1
<1> HIDE DEF A, at, c
<1>8. A \in [1..c -> S]
    BY <1>6, <1>7
<1>9. A \in Seq(S) /\ Len(A) = c
    BY <1>1, <1>8, SeqDef, LenProperties
<1>10. ASSUME NEW x \in S PROVE \E k \in 1..c : A[k] = x
  <2>1. at(x) + 1 \in 1..c /\ at(x) \in Nat
      BY <1>1, <1>2
  <2>2. A[at(x) + 1] \in S /\ at(A[at(x) + 1]) = at(x)
      BY <1>6, <2>1
  <2> QED
      BY <1>4, <2>1, <2>2
<1>11. ASSUME NEW j \in 1..c, NEW k \in 1..c, A[j] = A[k] PROVE j = k
    BY <1>1, <1>6, <1>11
<1> QED
    BY <1>9, <1>10, <1>11 DEF A, c

\* The members of a finite set of numbers as they ascend, each once.
LEMMA AscendingFacts ==
    ASSUME NEW S \in SUBSET Nat, IsFiniteSet(S)
    PROVE  /\ Ascending(S) \in Seq(S)
           /\ \A x \in S : \E k \in 1..Len(Ascending(S)) : Ascending(S)[k] = x
           /\ \A j, k \in 1..Len(Ascending(S)) : Ascending(S)[j] = Ascending(S)[k] => j = k
<1> DEFINE R == {m \in S \X S : m[1] < m[2]}
<1>1. \A x, y \in S : <<x, y>> \in R <=> x < y
    OBVIOUS
<1>2. \A x \in S : x \in Nat
    OBVIOUS
<1>3. Ascending(S) = Arranged(S, R)
    BY DEF Ascending
<1> HIDE DEF R
<1>4. /\ \A x \in S : <<x, x>> \notin R
      /\ \A x, y \in S : x # y => <<x, y>> \in R \/ <<y, x>> \in R
      /\ \A x, y, z \in S : <<x, y>> \in R /\ <<y, z>> \in R => <<x, z>> \in R
    BY <1>1, <1>2
<1>5. /\ Arranged(S, R) \in Seq(S) /\ Len(Arranged(S, R)) = Cardinality(S)
      /\ \A x \in S : \E k \in 1..Cardinality(S) : Arranged(S, R)[k] = x
      /\ \A j, k \in 1..Cardinality(S) : Arranged(S, R)[j] = Arranged(S, R)[k] => j = k
    BY <1>4, ArrangedFacts
<1> QED
    BY <1>3, <1>5

-----------------------------------------------------------------------------
(* Names.                                                                  *)

Segments == [kind : {"pasal", "ayat"}, number : Nat, copy : Nat]
IDs      == Seq(Segments) \ {<<>>}

\* A sequence has finitely many elements.
LEMMA RangeIsFinite ==
    ASSUME NEW S, NEW s \in Seq(S)
    PROVE  IsFiniteSet(ToSet(s)) /\ ToSet(s) \subseteq S
<1>1. s \in Surjection(1..Len(s), ToSet(s)) /\ Len(s) \in Nat
    BY SeqFacts, LenProperties DEF Surjection
<1>2. IsFiniteSet(1..Len(s))
    BY <1>1, FS_Interval
<1> QED
    BY <1>1, <1>2, FS_Surjection, SeqFacts

\* A name is not empty, and its last segment is a segment.
LEMMA LastFacts ==
    ASSUME NEW id \in IDs
    PROVE  /\ Len(id) \in Nat \ {0} /\ id \in [1..Len(id) -> Segments]
           /\ Last(id) = id[Len(id)] /\ Last(id) \in Segments
<1>1. id \in Seq(Segments) /\ Len(id) \in Nat \ {0}
    BY EmptySeq DEF IDs
<1> QED
    BY <1>1, LenProperties DEF Last

\* A name and its variants: only the copy of the last segment differs.
LEMMA NamedFacts ==
    ASSUME NEW id \in IDs, NEW k \in Nat
    PROVE  LET named == [id EXCEPT ![Len(id)].copy = k]
           IN  /\ named \in IDs /\ Len(named) = Len(id)
               /\ Last(named).kind = Last(id).kind /\ Last(named).number = Last(id).number
               /\ Last(named).copy = k
               /\ Last(id).copy = k => named = id
<1> DEFINE named == [id EXCEPT ![Len(id)].copy = k]
           last  == [id[Len(id)] EXCEPT !.copy = k]
<1>1. id \in Seq(Segments) /\ Len(id) \in Nat \ {0} /\ Len(id) \in 1..Len(id)
    BY LastFacts DEF IDs
<1>2. id \in [1..Len(id) -> Segments] /\ Last(id) = id[Len(id)]
    BY LastFacts
<1>3. /\ last \in Segments /\ last.kind = Last(id).kind /\ last.number = Last(id).number /\ last.copy = k
      /\ Last(id).copy = k => last = Last(id)
    BY <1>1, <1>2 DEF Segments
<1>4. named = [id EXCEPT ![Len(id)] = last]
    BY <1>1, <1>2
<1> HIDE DEF last
<1>5. /\ named \in Seq(Segments) /\ Len(named) = Len(id) /\ named[Len(id)] = last
      /\ \A i \in 1..Len(id) : named[i] = IF i = Len(id) THEN last ELSE id[i]
    BY <1>1, <1>2, <1>3, <1>4, ExceptSeq
<1>6. named \in IDs
    BY <1>1, <1>5, EmptySeq DEF IDs
<1>7. Last(named) = last
    BY <1>5 DEF Last
<1>8. last = Last(id) => named = id
  <2>1. last = Last(id) => \A i \in 1..Len(id) : named[i] = id[i]
      BY <1>1, <1>2, <1>5
  <2> QED
      BY <1>1, <1>5, <2>1, SeqEqual
<1> QED
    BY <1>3, <1>5, <1>6, <1>7, <1>8

\* uniqueID() finds a name that is not taken, and numbers it only when the name
\* without a number is taken.
LEMMA uniqueIDFacts ==
    ASSUME NEW taken \in SUBSET IDs, IsFiniteSet(taken), NEW base \in IDs, Last(base).copy = 1
    PROVE  LET id == uniqueID(taken, base)
           IN  /\ id \in IDs \ taken /\ Len(id) = Len(base)
               /\ Last(id).kind = Last(base).kind /\ Last(id).number = Last(base).number
               /\ id = base \/ base \in taken
<1> DEFINE Named(k) == [base EXCEPT ![Len(base)].copy = k]
           C    == Cardinality(taken)
           Free == {k \in 1..(C + 1) : Named(k) \notin taken}
<1>1. C \in Nat
    BY FS_CardinalityType
<1>2. \A k \in Nat : /\ Named(k) \in IDs /\ Last(Named(k)).copy = k /\ Len(Named(k)) = Len(base)
                     /\ Last(Named(k)).kind = Last(base).kind
                     /\ Last(Named(k)).number = Last(base).number
    BY NamedFacts
<1>3. Named(1) = base
    BY NamedFacts
<1>4. Free # {}
  <2> SUFFICES ASSUME Free = {} PROVE FALSE
      OBVIOUS
  <2> DEFINE D == 1..(C + 1)
             f == [k \in D |-> Named(k)]
  <2>1. f \in [D -> taken] /\ \A k \in D : f[k] = Named(k)
      OBVIOUS
  <2>2. IsFiniteSet(D) /\ Cardinality(taken) < Cardinality(D)
    <3>1. IsFiniteSet(1..(C + 1)) /\ Cardinality(1..(C + 1)) = C + 1
        BY <1>1, FS_Interval
    <3> QED
        BY <1>1, <3>1
  <2> HIDE DEF f, Named
  <2>3. PICK x \in D, y \in D : x # y /\ f[x] = f[y]
    <3> HIDE DEF D
    <3> QED
        BY <2>1, <2>2, FS_PigeonHole
  <2>4. f[x] = Named(x) /\ f[y] = Named(y)
      BY <2>1
  <2>5. x \in Nat /\ y \in Nat
      BY <1>1
  <2> QED
      BY <1>2, <2>3, <2>4, <2>5
<1> DEFINE k == Min(Free)
<1>5. Free \in SUBSET Nat
    BY <1>1
<1>6. k \in Free /\ \A j \in Free : k <= j
  <2> HIDE DEF Free
  <2> QED
      BY <1>4, <1>5, MinFacts
<1>7. uniqueID(taken, base) = Named(k)
    BY DEF uniqueID
<1>8. k \in Nat /\ Named(k) \notin taken
    BY <1>5, <1>6
<1>9. Named(k) = base \/ base \in taken
  <2>1. k \in 1..(C + 1) /\ 1 \in 1..(C + 1)
      BY <1>1, <1>6
  <2>2. k # 1 => 1 \notin Free
    <3> HIDE DEF Free, k
    <3> QED
        BY <1>1, <1>6, <2>1
  <2>3. k # 1 => Named(1) \in taken
      BY <2>1, <2>2
  <2> HIDE DEF Named, k
  <2> QED
      BY <1>3, <2>3
<1> HIDE DEF Named, k
<1> QED
    BY <1>2, <1>7, <1>8, <1>9

-----------------------------------------------------------------------------
(* The names of a document.                                                *)

IsDocument(d) == d \in Seq(Paras) /\ Len(d) > 0 /\ d[1].kind = "pasal"

\* The last of a set of positions up to p.
LEMMA LastOfFacts ==
    ASSUME NEW S \in SUBSET Nat, NEW p \in Nat, NEW i \in S, i <= p
    PROVE  LastOf(S, p) \in S /\ LastOf(S, p) <= p
<1> DEFINE T == {j \in S : j <= p}
<1>1. T \in SUBSET Nat /\ i \in T /\ \A j \in T : j <= p
    OBVIOUS
<1> HIDE DEF T
<1>2. Max(T) \in T
    BY <1>1, MaxFacts
<1> QED
    BY <1>1, <1>2 DEF LastOf, T

\* Every paragraph of a document lies in a node and in an article, because the first one is
\* the heading of an article.
LEMMA DocumentFacts ==
    ASSUME NEW d, IsDocument(d)
    PROVE  /\ Len(d) \in Nat \ {0} /\ DOMAIN d = 1..Len(d) /\ 1 \in 1..Len(d)
           /\ \A p \in 1..Len(d) : d[p] \in Paras
           /\ NodesOf(d) \subseteq 1..Len(d)
           /\ \A p \in 1..Len(d) : /\ OwnerOf(d, p) \in NodesOf(d)
                                   /\ ArticleAt(d, p) \in 1..p /\ d[ArticleAt(d, p)].kind = "pasal"
<1>1. /\ Len(d) \in Nat \ {0} /\ DOMAIN d = 1..Len(d) /\ 1 \in 1..Len(d)
      /\ \A p \in 1..Len(d) : d[p] \in Paras
    BY SeqFacts DEF IsDocument
<1>2. NodesOf(d) \subseteq 1..Len(d) /\ 1 \in NodesOf(d)
    BY <1>1 DEF NodesOf, IsDocument
<1> DEFINE A == {i \in DOMAIN d : d[i].kind = "pasal"}
<1>3. A \subseteq 1..Len(d) /\ 1 \in A /\ \A i \in A : d[i].kind = "pasal"
    BY <1>1 DEF IsDocument
<1> HIDE DEF A
<1>4. ASSUME NEW p \in 1..Len(d) PROVE OwnerOf(d, p) \in NodesOf(d)
  <2>1. NodesOf(d) \in SUBSET Nat /\ p \in Nat /\ 1 \in NodesOf(d) /\ 1 <= p
      BY <1>1, <1>2
  <2> QED
      BY <2>1, LastOfFacts DEF OwnerOf
<1>5. ASSUME NEW p \in 1..Len(d) PROVE ArticleAt(d, p) \in 1..p /\ d[ArticleAt(d, p)].kind = "pasal"
  <2>1. A \in SUBSET Nat /\ p \in Nat /\ 1 \in A /\ 1 <= p
      BY <1>1, <1>3
  <2>2. ArticleAt(d, p) = LastOf(A, p)
      BY DEF ArticleAt, A
  <2>3. LastOf(A, p) \in A /\ LastOf(A, p) <= p
      BY <2>1, LastOfFacts
  <2> DEFINE a == ArticleAt(d, p)
  <2>4. a \in 1..Len(d) /\ a <= p /\ d[a].kind = "pasal"
      BY <1>3, <2>2, <2>3
  <2> HIDE DEF a
  <2>5. a \in 1..p
      BY <1>1, <2>4
  <2> QED
      BY <2>4, <2>5 DEF a
<1> QED
    BY <1>1, <1>2, <1>4, <1>5

\* What is true of the names of the first paragraphs of a document: nodes have names and
\* they alone, no two have one, a name ends in the kind and number of its node, and the
\* first article of a number has the plain name.
GoodNames(d, names) ==
    /\ names \in Seq(Seq(Segments)) /\ Len(names) <= Len(d)
    /\ \A p \in 1..Len(names) : p \in NodesOf(d) <=> names[p] # <<>>
    /\ \A p \in 1..Len(names) : p \in NodesOf(d) =>
         /\ Last(names[p]).kind = d[p].kind /\ Last(names[p]).number = d[p].number
         /\ d[p].kind = "pasal" =>
              Len(names[p]) = 1 /\ \E q \in 1..Len(names) : names[q] = << Segment("pasal", d[p].number) >>
    /\ \A p, q \in 1..Len(names) : p \in NodesOf(d) /\ names[p] = names[q] => p = q

\* One more name keeps the names good: no two nodes share one.
LEMMA NameOfFacts ==
    ASSUME NEW d, IsDocument(d), NEW names, GoodNames(d, names), Len(names) < Len(d)
    PROVE  GoodNames(d, Append(names, NameOf(names, d, Len(names) + 1)))
<1> DEFINE p  == Len(names) + 1
           id == NameOf(names, d, p)
           t  == Append(names, id)
<1>1. /\ Len(names) \in Nat /\ p \in 1..Len(d) /\ d[p] \in Paras /\ d[p].number \in Nat
      /\ DOMAIN d = 1..Len(d) /\ Len(d) \in Nat
  <2>1. Len(names) \in Nat
      BY SeqFacts DEF GoodNames
  <2>2. p \in 1..Len(d)
      BY <2>1, DocumentFacts
  <2> QED
      BY <2>1, <2>2, DocumentFacts DEF Paras
<1>2. ASSUME p \notin NodesOf(d) PROVE id = <<>>
    BY <1>1, <1>2 DEF NodesOf, NameOf
<1>3. ASSUME p \in NodesOf(d)
      PROVE  /\ id \in IDs /\ \A q \in 1..Len(names) : names[q] # id
             /\ Last(id).kind = d[p].kind /\ Last(id).number = d[p].number
             /\ d[p].kind = "pasal" =>
                  /\ Len(id) = 1
                  /\ id = << Segment("pasal", d[p].number) >>
                       \/ \E q \in 1..Len(names) : names[q] = << Segment("pasal", d[p].number) >>
  <2> DEFINE parent == IF d[p].kind = "ayat" THEN names[ArticleAt(d, p)] ELSE <<>>
             base   == NodeID(parent, d[p].kind, d[p].number)
             taken  == ToSet(names) \ {<<>>}
  <2>1. d[p].kind \in {"pasal", "ayat"} /\ id = uniqueID(taken, base)
      BY <1>1, <1>3 DEF NodesOf, NameOf
  <2>2. parent \in Seq(Segments)
    <3>1. CASE d[p].kind = "ayat"
      <4>1. ArticleAt(d, p) \in 1..p /\ d[ArticleAt(d, p)].kind = "pasal"
          BY <1>1, DocumentFacts
      <4>2. ArticleAt(d, p) \in 1..Len(names)
          BY <1>1, <3>1, <4>1
      <4> QED
          BY <3>1, <4>2, ElementOfSeq DEF GoodNames
    <3>2. CASE d[p].kind # "ayat"
        BY <3>2, EmptySeq
    <3> QED
        BY <3>1, <3>2
  <2> DEFINE seg == Segment(d[p].kind, d[p].number)
  <2>3. seg \in Segments /\ seg.copy = 1 /\ seg.kind = d[p].kind /\ seg.number = d[p].number
      BY <1>1, <2>1 DEF Segment, Segments
  <2> HIDE DEF parent, seg
  <2>4. base = (IF d[p].kind = "pasal" THEN <<>> ELSE parent) \o << seg >>
      BY <2>1 DEF NodeID, IsArticleLevel, seg
  <2>5. /\ <<seg>> \in Seq(Segments) /\ Len(<<seg>>) = 1 /\ <<seg>>[1] = seg
        /\ <<>> \in Seq(Segments) /\ Len(<<>>) = 0
      BY <2>3
  <2>6. ASSUME NEW u \in Seq(Segments)
        PROVE  u \o <<seg>> \in IDs /\ Len(u \o <<seg>>) = Len(u) + 1 /\ Last(u \o <<seg>>) = seg
    <3>1. /\ u \o <<seg>> \in Seq(Segments) /\ Len(u \o <<seg>>) = Len(u) + 1 /\ Len(u) \in Nat
          /\ (u \o <<seg>>)[Len(u) + 1] = seg
        BY <2>5, ConcatProperties, LenProperties
    <3> QED
        BY <3>1, EmptySeq DEF IDs, Last
  <2>7. base \in IDs /\ Last(base) = seg /\ (d[p].kind = "pasal" => base = <<seg>>)
    <3>1. <<>> \o <<seg>> = <<seg>>
        BY <2>5, ConcatEmptySeq
    <3> QED
        BY <2>2, <2>4, <2>5, <2>6, <3>1
  <2>8. taken \in SUBSET IDs /\ IsFiniteSet(taken)
    <3>1. IsFiniteSet(ToSet(names)) /\ ToSet(names) \subseteq Seq(Segments)
        BY RangeIsFinite DEF GoodNames
    <3> QED
        BY <3>1, FS_Subset DEF IDs
  <2> HIDE DEF base, taken
  <2>9. /\ id \in IDs \ taken /\ Len(id) = Len(base)
        /\ Last(id).kind = d[p].kind /\ Last(id).number = d[p].number
        /\ id = base \/ base \in taken
      BY <2>1, <2>3, <2>7, <2>8, uniqueIDFacts
  <2>10. \A x : x \in taken <=> x # <<>> /\ \E q \in 1..Len(names) : names[q] = x
    <3>1. names \in Seq(Seq(Segments))
        BY DEF GoodNames
    <3>2. ToSet(names) = {names[q] : q \in 1..Len(names)}
        BY <3>1, SeqFacts
    <3> QED
        BY <3>2 DEF taken
  <2>11. \A q \in 1..Len(names) : names[q] # id
      BY <2>9, <2>10 DEF IDs
  <2>12. ASSUME d[p].kind = "pasal"
         PROVE  /\ Len(id) = 1
                /\ id = <<seg>> \/ \E q \in 1..Len(names) : names[q] = <<seg>>
      BY <2>5, <2>7, <2>9, <2>10, <2>12
  <2> QED
      BY <2>9, <2>11, <2>12 DEF seg
<1>4. id \in Seq(Segments)
    BY <1>2, <1>3, EmptySeq DEF IDs
<1> HIDE DEF id
<1>5. /\ t \in Seq(Seq(Segments)) /\ Len(t) = p /\ t[p] = id
      /\ \A q \in 1..Len(names) : t[q] = names[q]
    BY <1>4, AppendFacts DEF GoodNames
<1>6. /\ \A q \in 1..p : q \in 1..Len(names) \/ q = p
      /\ \A q \in 1..Len(names) : q \in 1..p /\ q # p
      /\ p \in 1..p
    BY <1>1
<1> HIDE DEF t, p
<1>7. ASSUME NEW q \in 1..p PROVE q \in NodesOf(d) <=> t[q] # <<>>
  <2>1. CASE q \in 1..Len(names)
      BY <1>5, <2>1 DEF GoodNames
  <2>2. CASE q = p
      BY <1>2, <1>3, <1>5, <2>2 DEF IDs
  <2> QED
      BY <1>6, <2>1, <2>2
<1>8. ASSUME NEW q \in 1..p, q \in NodesOf(d)
      PROVE  /\ Last(t[q]).kind = d[q].kind /\ Last(t[q]).number = d[q].number
             /\ d[q].kind = "pasal" =>
                  Len(t[q]) = 1 /\ \E r \in 1..p : t[r] = << Segment("pasal", d[q].number) >>
  <2>1. CASE q = p
    <3>1. /\ Last(t[p]).kind = d[p].kind /\ Last(t[p]).number = d[p].number
          /\ d[p].kind = "pasal" => Len(t[p]) = 1
        BY <1>3, <1>5, <1>8, <2>1
    <3>2. ASSUME d[p].kind = "pasal" PROVE \E r \in 1..p : t[r] = << Segment("pasal", d[p].number) >>
        BY <1>3, <1>5, <1>6, <1>8, <2>1, <3>2
    <3> QED
        BY <2>1, <3>1, <3>2
  <2>2. CASE q \in 1..Len(names)
    <3>1. /\ Last(names[q]).kind = d[q].kind /\ Last(names[q]).number = d[q].number
          /\ d[q].kind = "pasal" =>
               Len(names[q]) = 1 /\ \E r \in 1..Len(names) : names[r] = << Segment("pasal", d[q].number) >>
        BY <1>8, <2>2 DEF GoodNames
    <3> QED
        BY <1>5, <1>6, <2>2, <3>1
  <2> QED
      BY <1>6, <2>1, <2>2
<1>9. ASSUME NEW q \in 1..p, NEW r \in 1..p, q \in NodesOf(d), t[q] = t[r] PROVE q = r
  <2>1. CASE q \in 1..Len(names) /\ r \in 1..Len(names)
      BY <1>5, <1>9, <2>1 DEF GoodNames
  <2>2. CASE q = p /\ r \in 1..Len(names)
      BY <1>3, <1>5, <1>9, <2>2
  <2>3. CASE r = p /\ q \in 1..Len(names)
    <3>1. names[q] # <<>> /\ names[q] = id
        BY <1>5, <1>9, <2>3 DEF GoodNames
    <3>2. p \in NodesOf(d)
        BY <1>2, <3>1
    <3> QED
        BY <1>3, <2>3, <3>1, <3>2
  <2> QED
      BY <1>6, <2>1, <2>2, <2>3
<1>10. Len(t) = p /\ p <= Len(d)
    BY <1>1, <1>5
<1> QED
    BY <1>5, <1>7, <1>8, <1>9, <1>10 DEF GoodNames, t, id, p

\* The names of a document are good, and there is one for each paragraph: by induction
\* over the paragraphs, once the function that names them is known to exist.
LEMMA IDsOfFacts ==
    ASSUME NEW d, IsDocument(d)
    PROVE  GoodNames(d, IDsOf(d)) /\ Len(IDsOf(d)) = Len(d)
<1> DEFINE L == Len(d)
           Step(f, p) == IF p = 0 THEN <<>> ELSE Append(f[p - 1], NameOf(f[p - 1], d, p))
           Names0(f, n) == f = [p \in 0..n |-> Step(f, p)]
           Reached == {n \in Nat : \E f : Names0(f, n)}
<1>1. L \in Nat \ {0}
    BY DocumentFacts
<1>2. Nat \subseteq Reached
  <2>1. 0 \in Reached
    <3> DEFINE f == [p \in 0..0 |-> <<>>]
    <3>1. f = [p \in 0..0 |-> Step(f, p)]
        OBVIOUS
    <3> HIDE DEF f, Step
    <3> QED
        BY <3>1
  <2>2. ASSUME NEW n \in Nat, n \in Reached PROVE n + 1 \in Reached
    <3>1. PICK f : Names0(f, n)
        BY <2>2
    <3> DEFINE g == [p \in 0..(n + 1) |-> IF p = n + 1 THEN Append(f[n], NameOf(f[n], d, n + 1)) ELSE f[p]]
    <3>2. DOMAIN f = 0..n /\ \A p \in 0..n : f[p] = Step(f, p)
      <4> HIDE DEF Step
      <4> QED
          BY <3>1
    <3>3. ASSUME NEW p \in 0..(n + 1) PROVE g[p] = Step(g, p)
      <4> DEFINE N(x, q) == NameOf(x, d, q)
      <4>1. CASE p = 0
          BY <3>2, <4>1, <2>2
      <4>2. CASE p \in 1..n
        <5>1. p # 0 /\ p # n + 1 /\ p - 1 # n + 1 /\ p - 1 \in 0..(n + 1) /\ p \in 0..n
            BY <2>2, <4>2
        <5>2. g[p] = f[p] /\ g[p - 1] = f[p - 1]
            BY <5>1
        <5>3. f[p] = Append(f[p - 1], N(f[p - 1], p))
            BY <3>2, <5>1
        <5> HIDE DEF g, N
        <5>4. g[p] = Append(g[p - 1], N(g[p - 1], p))
            BY <5>2, <5>3
        <5> QED
            BY <5>1, <5>4 DEF N
      <4>3. CASE p = n + 1
        <5>1. p # 0 /\ p - 1 = n /\ n \in 0..(n + 1) /\ n # n + 1
            BY <2>2, <4>3
        <5>2. g[n] = f[n] /\ g[p] = Append(f[n], N(f[n], p))
            BY <5>1, <4>3
        <5> HIDE DEF g, N
        <5>3. g[p] = Append(g[p - 1], N(g[p - 1], p))
            BY <5>1, <5>2
        <5> QED
            BY <5>1, <5>3 DEF N
      <4>4. p = 0 \/ p \in 1..n \/ p = n + 1
          BY <2>2
      <4> QED
          BY <4>1, <4>2, <4>3, <4>4
    <3>4. DOMAIN g = 0..(n + 1) /\ g = [p \in 0..(n + 1) |-> g[p]]
        OBVIOUS
    <3> HIDE DEF g, Step
    <3>5. Names0(g, n + 1)
        BY <3>3, <3>4
    <3> QED
        BY <2>2, <3>5
  <2> HIDE DEF Reached
  <2> QED
      BY <2>1, <2>2, Induction
<1>3. \E f : Names0(f, L)
    BY <1>1, <1>2
<1> DEFINE named == CHOOSE f : Names0(f, L)
<1>4. IDsOf(d) = named[L]
    BY DEF IDsOf
<1>5. Names0(named, L)
  <2> HIDE DEF Names0
  <2> QED
      BY <1>3
<1> HIDE DEF named
<1>6. \A p \in 0..L : named[p] = Step(named, p)
  <2> HIDE DEF Step
  <2> QED
      BY <1>5
<1> DEFINE Good == {n \in Nat : n <= L => GoodNames(d, named[n]) /\ Len(named[n]) = n}
<1>7. 0 \in Good
  <2>1. named[0] = <<>>
      BY <1>1, <1>6
  <2>2. <<>> \in Seq(Seq(Segments)) /\ Len(<<>>) = 0
      BY EmptySeq
  <2>3. GoodNames(d, <<>>)
      BY <1>1, <2>2 DEF GoodNames
  <2> QED
      BY <2>1, <2>2, <2>3
<1>8. ASSUME NEW n \in Nat, n \in Good PROVE n + 1 \in Good
  <2> SUFFICES ASSUME n + 1 <= L PROVE GoodNames(d, named[n + 1]) /\ Len(named[n + 1]) = n + 1
      OBVIOUS
  <2> DEFINE s == named[n]
             x == NameOf(s, d, n + 1)
  <2>1. GoodNames(d, s) /\ Len(s) = n /\ n < L
      BY <1>1, <1>8
  <2>2. named[n + 1] = Append(s, x)
    <3>1. n + 1 \in 0..L /\ n + 1 # 0 /\ (n + 1) - 1 = n
        BY <1>1, <1>8
    <3>2. named[n + 1] = Append(named[(n + 1) - 1], NameOf(named[(n + 1) - 1], d, n + 1))
        BY <1>6, <3>1
    <3> QED
        BY <3>1, <3>2
  <2> HIDE DEF s
  <2>3. GoodNames(d, Append(s, x))
      BY <2>1, NameOfFacts
  <2>4. Append(s, x) \in Seq(Seq(Segments)) /\ s \in Seq(Seq(Segments))
      BY <2>1, <2>3 DEF GoodNames
  <2> HIDE DEF x
  <2>5. Len(Append(s, x)) = n + 1
      BY <2>1, <2>4
  <2> QED
      BY <2>2, <2>3, <2>5
<1> HIDE DEF Good
<1>9. L \in Good
    BY <1>1, <1>7, <1>8, Induction
<1> QED
    BY <1>1, <1>4, <1>9 DEF Good

\* The names as the rules use them: every node has one, of its own.
LEMMA NamesFacts ==
    ASSUME NEW d, IsDocument(d), NEW ids, ids = IDsOf(d)
    PROVE  /\ DOMAIN ids = 1..Len(d) /\ \A p \in 1..Len(d) : ids[p] \in Seq(Segments)
           /\ Names(ids) \subseteq IDs
           /\ \A p \in NodesOf(d) :
                /\ ids[p] \in Names(ids) /\ At(ids, ids[p]) = p
                /\ Last(ids[p]).kind = d[p].kind /\ Last(ids[p]).number = d[p].number
                /\ d[p].kind = "pasal" => Len(ids[p]) = 1 /\ << Segment("pasal", d[p].number) >> \in Names(ids)
           /\ \A id \in Names(ids) : At(ids, id) \in NodesOf(d) /\ ids[At(ids, id)] = id
<1>1. GoodNames(d, ids) /\ Len(ids) = Len(d)
    BY IDsOfFacts
<1>2. /\ ids \in Seq(Seq(Segments)) /\ DOMAIN ids = 1..Len(d) /\ \A p \in 1..Len(d) : ids[p] \in Seq(Segments)
      /\ ToSet(ids) = {ids[p] : p \in 1..Len(d)}
    BY <1>1, SeqFacts DEF GoodNames
<1>3. NodesOf(d) \subseteq 1..Len(d) /\ \A p \in 1..Len(d) : p \in NodesOf(d) <=> ids[p] # <<>>
    BY <1>1, DocumentFacts DEF GoodNames
<1>4. \A x : x \in Names(ids) <=> x # <<>> /\ \E p \in 1..Len(d) : ids[p] = x
    BY <1>2 DEF Names
<1>5. ASSUME NEW id \in Names(ids) PROVE At(ids, id) \in NodesOf(d) /\ ids[At(ids, id)] = id /\ id \in IDs
  <2>1. \E i \in DOMAIN ids : ids[i] = id
      BY <1>2, <1>4
  <2>2. At(ids, id) \in DOMAIN ids /\ ids[At(ids, id)] = id
      BY <2>1 DEF At
  <2> QED
      BY <1>2, <1>3, <1>4, <2>2 DEF IDs
<1>6. ASSUME NEW p \in NodesOf(d)
      PROVE  /\ ids[p] \in Names(ids) /\ At(ids, ids[p]) = p
             /\ Last(ids[p]).kind = d[p].kind /\ Last(ids[p]).number = d[p].number
             /\ d[p].kind = "pasal" => Len(ids[p]) = 1 /\ << Segment("pasal", d[p].number) >> \in Names(ids)
  <2>1. p \in 1..Len(d) /\ ids[p] \in Names(ids)
      BY <1>3, <1>4
  <2>2. At(ids, ids[p]) = p
    <3>1. At(ids, ids[p]) \in 1..Len(d) /\ ids[At(ids, ids[p])] = ids[p]
        BY <1>3, <1>5, <2>1
    <3> QED
        BY <1>1, <2>1, <3>1 DEF GoodNames
  <2>3. /\ Last(ids[p]).kind = d[p].kind /\ Last(ids[p]).number = d[p].number
        /\ d[p].kind = "pasal" =>
             Len(ids[p]) = 1 /\ \E q \in 1..Len(ids) : ids[q] = << Segment("pasal", d[p].number) >>
      BY <1>1, <2>1 DEF GoodNames
  <2>4. << Segment("pasal", d[p].number) >> # <<>>
      OBVIOUS
  <2> QED
      BY <1>1, <1>4, <2>1, <2>2, <2>3, <2>4
<1> QED
    BY <1>2, <1>5, <1>6

-----------------------------------------------------------------------------
(* Similarity.                                                             *)

\* The words of a node are finitely many.
LEMMA WordsAreFinite ==
    ASSUME NEW d, IsDocument(d), NEW i \in NodesOf(d)
    PROVE  IsFiniteSet(tokenSet(d, i))
<1> DEFINE next == {j \in NodesOf(d) : j > i /\ (d[j].kind = "pasal" \/ d[i].kind = "ayat")}
           last == IF next = {} THEN Len(d) ELSE Min(next) - 1
           C    == Covered(d, i)
           f    == [p \in C |-> WordsAt(d[p])]
           W    == {WordsAt(d[p]) : p \in C}
<1>1. Len(d) \in Nat /\ NodesOf(d) \subseteq 1..Len(d) /\ \A p \in 1..Len(d) : d[p] \in Paras
    BY DocumentFacts
<1>2. last \in Int /\ last <= Len(d) /\ C = i..last
  <2>1. next \subseteq 1..Len(d)
      BY <1>1
  <2>2. C = i..last
      BY DEF Covered
  <2> HIDE DEF next, C
  <2>3. next # {} => Min(next) \in next
    <3>1. next \in SUBSET Nat
        BY <1>1, <2>1
    <3> QED
        BY <3>1, MinFacts
  <2>4. last \in Int /\ last <= Len(d)
    <3>1. CASE next = {}
        BY <1>1, <3>1
    <3>2. CASE next # {}
      <4> DEFINE m == Min(next)
      <4>1. m \in 1..Len(d) /\ last = m - 1
          BY <2>1, <2>3, <3>2
      <4> HIDE DEF m, last
      <4> QED
          BY <1>1, <4>1
    <3> QED
        BY <3>1, <3>2
  <2> QED
      BY <2>2, <2>4
<1> HIDE DEF last, C
<1>3. IsFiniteSet(C) /\ \A p \in C : d[p] \in Paras
  <2>1. i \in Int /\ 1 <= i
      BY <1>1
  <2>2. \A p \in C : p \in 1..Len(d)
      BY <1>1, <1>2, <2>1
  <2>3. IsFiniteSet(i..last)
      BY <1>2, <2>1, FS_Interval
  <2> QED
      BY <1>1, <1>2, <2>2, <2>3
<1>4. ASSUME NEW p \in C PROVE IsFiniteSet(WordsAt(d[p]))
  <2> DEFINE q == d[p]
  <2>1. q.text \in Texts
      BY <1>3 DEF Paras
  <2> HIDE DEF q
  <2>2. IsFiniteSet(Tokens[q.text])
      BY <2>1, ReferencesAssumption
  <2>3. IsFiniteSet({q.number} \cup Tokens[q.text]) /\ IsFiniteSet({0, q.number})
    <3>1. IsFiniteSet({q.number}) /\ IsFiniteSet({0}) /\ {0, q.number} = {0} \cup {q.number}
        BY FS_Singleton
    <3> QED
        BY <2>2, <3>1, FS_Union
  <2>4. IsFiniteSet(WordsAt(q))
      BY <2>2, <2>3 DEF WordsAt
  <2> QED
      BY <2>4 DEF q
<1>5. f \in Surjection(C, W)
    BY DEF Surjection
<1>6. IsFiniteSet(W)
  <2> HIDE DEF f, W
  <2> QED
      BY <1>3, <1>5, FS_Surjection
<1>7. tokenSet(d, i) = UNION W
    BY DEF tokenSet, C
<1> QED
    BY <1>4, <1>6, <1>7, FS_UNION

\* A finite set has a best member, in any order that compares all and is transitive.
LEMMA BestExists ==
    ASSUME NEW S, IsFiniteSet(S), S # {}, NEW R,
           \A x, y \in S : <<x, y>> \in R \/ <<y, x>> \in R,
           \A x, y, z \in S : <<x, y>> \in R /\ <<y, z>> \in R => <<x, z>> \in R
    PROVE  \E x \in S : \A y \in S : <<x, y>> \in R
<1> DEFINE Best(T) == \E x \in T : \A y \in T : <<x, y>> \in R
           Sized == {n \in Nat : \A T \in SUBSET S : Cardinality(T) = n /\ T # {} => Best(T)}
<1>1. 0 \in Sized
  <2>1. \A T \in SUBSET S : Cardinality(T) = 0 => T = {}
      BY FS_Subset, FS_EmptySet
  <2> QED
      BY <2>1
<1>2. ASSUME NEW n \in Nat, n \in Sized PROVE n + 1 \in Sized
  <2> SUFFICES ASSUME NEW T \in SUBSET S, Cardinality(T) = n + 1, T # {} PROVE Best(T)
      OBVIOUS
  <2>1. PICK t \in T : TRUE
      OBVIOUS
  <2> DEFINE U == T \ {t}
  <2>2. IsFiniteSet(U) /\ Cardinality(U) = n /\ U \in SUBSET S
    <3>1. IsFiniteSet(T)
        BY FS_Subset
    <3>2. IsFiniteSet(T \ {t}) /\ Cardinality(T \ {t}) = Cardinality(T) - 1
        BY <2>1, <3>1, FS_RemoveElement
    <3> QED
        BY <3>2
  <2>3. CASE U = {}
      BY <2>1, <2>3
  <2>4. CASE U # {}
    <3>1. Best(U)
        BY <1>2, <2>2, <2>4
    <3>2. PICK u \in U : \A y \in U : <<u, y>> \in R
        BY <3>1
    <3>3. CASE <<u, t>> \in R
        BY <3>2, <3>3
    <3>4. CASE <<t, u>> \in R
      <4>1. \A y \in U : <<t, y>> \in R
          BY <3>2, <3>4
      <4>2. <<t, t>> \in R
          OBVIOUS
      <4> QED
          BY <2>1, <4>1, <4>2
    <3> QED
        BY <3>3, <3>4
  <2> QED
      BY <2>3, <2>4
<1>3. Cardinality(S) \in Nat
    BY FS_CardinalityType
<1>4. Cardinality(S) \in Sized
  <2> HIDE DEF Sized
  <2> QED
      BY <1>1, <1>2, <1>3, Induction
<1> QED
    BY <1>4

\* Fractions are compared by cross multiplication, and this is transitive.
LEMMA Fractions ==
    ASSUME NEW s \in Nat, NEW t \in Nat, NEW u \in Nat,
           NEW a \in Nat, NEW b \in Nat \ {0}, NEW c \in Nat,
           s * b >= t * a, t * c >= u * b
    PROVE  s * c >= u * a
<1>1. (s * b) * c >= (t * a) * c /\ (t * c) * a >= (u * b) * a
    OBVIOUS
<1>2. b * (s * c) >= b * (u * a)
    BY <1>1
<1> DEFINE x == s * c
           y == u * a
<1>3. x \in Nat /\ y \in Nat
    OBVIOUS
<1> HIDE DEF x, y
<1>4. b * x >= b * y => x >= y
    BY <1>3
<1> QED
    BY <1>2, <1>4 DEF x, y

\* Where a text went: to a node of the same kind with the same words.
LEMMA findRelocationFacts ==
    ASSUME IsDocument(prev), IsDocument(curr), prevIDs = IDsOf(prev), currIDs = IDsOf(curr), NEW t
    PROVE  \/ findRelocation(t) = <<>>
           \/ /\ t \in Names(prevIDs)
              /\ \E j \in NodesOf(curr) :
                   /\ findRelocation(t) = currIDs[j] /\ curr[j].kind = prev[At(prevIDs, t)].kind
                   /\ SameText(tokenSet(prev, At(prevIDs, t)), tokenSet(curr, j))
<1> SUFFICES ASSUME findRelocation(t) # <<>>
             PROVE  /\ t \in Names(prevIDs)
                    /\ \E j \in NodesOf(curr) :
                         /\ findRelocation(t) = currIDs[j] /\ curr[j].kind = prev[At(prevIDs, t)].kind
                         /\ SameText(tokenSet(prev, At(prevIDs, t)), tokenSet(curr, j))
    OBVIOUS
<1> DEFINE old  == At(prevIDs, t)
           W(i) == tokenSet(curr, i)
           oldWords == tokenSet(prev, old)
           near == {i \in NodesOf(curr) : /\ curr[i].kind = prev[old].kind
                                          /\ currIDs[i] # t
                                          /\ SameText(oldWords, W(i))}
           s(i) == Shared(oldWords, W(i))
           a(i) == All(oldWords, W(i))
           Closer(i, j) == s(i) * a(j) >= s(j) * a(i)
           R    == {m \in near \X near : Closer(m[1], m[2])}
           best == {i \in near : \A j \in near : Closer(i, j)}
<1>1. t \in Names(prevIDs) /\ near # {} /\ findRelocation(t) = currIDs[Min(best)]
    BY DEF findRelocation
<1>2. near \subseteq 1..Len(curr) /\ Len(curr) \in Nat /\ near \subseteq NodesOf(curr)
    BY DocumentFacts
<1>3. IsFiniteSet(near)
  <2> HIDE DEF near
  <2>1. near \in SUBSET (1..Len(curr)) /\ IsFiniteSet(1..Len(curr))
      BY <1>2, FS_Interval
  <2> QED
      BY <2>1, FS_Subset
<1>4. IsFiniteSet(oldWords)
  <2>1. old \in NodesOf(prev)
      BY <1>1, NamesFacts
  <2> QED
      BY <2>1, WordsAreFinite
<1>5. ASSUME NEW i \in near PROVE s(i) \in Nat /\ a(i) \in Nat \ {0}
  <2>1. IsFiniteSet(W(i)) /\ SameText(oldWords, W(i))
      BY WordsAreFinite
  <2> HIDE DEF oldWords, W, near
  <2>2. IsFiniteSet(oldWords \cap W(i)) /\ IsFiniteSet(oldWords \cup W(i))
      BY <1>4, <2>1, FS_Union, FS_Intersection
  <2>3. s(i) \in Nat /\ a(i) \in Nat
      BY <2>2, FS_CardinalityType DEF Shared, All
  <2>4. s(i) <= a(i)
    <3>1. (oldWords \cap W(i)) \in SUBSET (oldWords \cup W(i))
        OBVIOUS
    <3> QED
        BY <2>2, <3>1, FS_Subset DEF Shared, All
  <2>5. 4 * s(i) > 3 * a(i)
      BY <2>1 DEF SameText
  <2> QED
      BY <2>3, <2>4, <2>5
<1>6. \A i \in near : SameText(oldWords, W(i)) /\ curr[i].kind = prev[old].kind
    OBVIOUS
<1> HIDE DEF near, s, a
<1> HIDE DEF Closer
<1>7. \A i, j \in near : <<i, j>> \in R <=> Closer(i, j)
    OBVIOUS
<1>8. ASSUME NEW i \in near, NEW j \in near PROVE <<i, j>> \in R \/ <<j, i>> \in R
  <2> DEFINE x == s(i) * a(j)
             y == s(j) * a(i)
  <2>1. x \in Nat /\ y \in Nat
      BY <1>5
  <2> HIDE DEF x, y
  <2>2. x >= y \/ y >= x
      BY <2>1
  <2> QED
      BY <1>7, <2>2 DEF x, y, Closer
<1>9. ASSUME NEW i \in near, NEW j \in near, NEW k \in near, <<i, j>> \in R, <<j, k>> \in R
      PROVE  <<i, k>> \in R
  <2>1. s(i) * a(j) >= s(j) * a(i) /\ s(j) * a(k) >= s(k) * a(j)
      BY <1>7, <1>9 DEF Closer
  <2>2. s(i) * a(k) >= s(k) * a(i)
      BY <1>5, <2>1, Fractions
  <2> QED
      BY <1>7, <2>2 DEF Closer
<1> HIDE DEF R
<1>10. \E i \in near : \A j \in near : <<i, j>> \in R
    BY <1>1, <1>3, <1>8, <1>9, BestExists
<1>11. best # {} /\ best \in SUBSET Nat /\ best \subseteq near
  <2>1. PICK i \in near : \A j \in near : Closer(i, j)
      BY <1>7, <1>10
  <2>2. i \in best /\ best \subseteq near
      BY <2>1
  <2> HIDE DEF best
  <2>3. \A j \in best : j \in Nat
      BY <1>2, <2>2
  <2> QED
      BY <2>2, <2>3
<1> HIDE DEF best
<1>12. Min(best) \in near
    BY <1>11, MinFacts
<1> QED
    BY <1>1, <1>2, <1>6, <1>12

-----------------------------------------------------------------------------
(* Citations and findings.                                                 *)

Cited    == [para : Nat, raw : Seq(Nat), cite : Citation]
Change   == [prevIdx : SUBSET Nat, currIdx : SUBSET Nat, cosmetic : BOOLEAN, node : Seq(Segments)]
RunType  == [op : {"delete", "insert"}, first : Nat, last : Nat]
Action   == [type : {"renumber", "manual_review", "reference_update"}, new : Seq(Nat)]
Findings == [category : {"numbering", "broken", "shifted", "section_removed"},
             severity : {"critical", "major", "minor"}, side : {"prev", "curr"},
             para : Nat, node : Seq(Segments), actions : SUBSET Action]
Phases   == {"draft", "read", "compared", "citations", "assembled", "filing", "shown"}

\* The citations of a document stand in its paragraphs.
LEMMA ReferencesOfFacts ==
    ASSUME NEW d, IsDocument(d)
    PROVE  ReferencesOf(d) \in Seq(Cited) /\ \A r \in ToSet(ReferencesOf(d)) : r.para \in DOMAIN d
<1> DEFINE ref(p, r) == [para |-> p, raw |-> Raw(r),
                         cite |-> IF r.kind = "relative" THEN [r EXCEPT !.pasal = d[ArticleAt(d, p)].number] ELSE r]
           C(p)   == Cites[d[p].text]
           At2(p) == {<<p, k>> : k \in DOMAIN C(p)}
           places == UNION {At2(p) : p \in DOMAIN d}
           R      == {m \in places \X places : m[1][1] < m[2][1] \/ (m[1][1] = m[2][1] /\ m[1][2] < m[2][2])}
           order  == Arranged(places, R)
           f(n)   == ref(order[n][1], C(order[n][1])[order[n][2]])
<1>1. ReferencesOf(d) = [n \in DOMAIN order |-> f(n)]
    BY DEF ReferencesOf
<1>2. DOMAIN d = 1..Len(d) /\ Len(d) \in Nat
    BY DocumentFacts
<1>3. ASSUME NEW p \in DOMAIN d
      PROVE  C(p) \in Seq(Citation) /\ IsFiniteSet(At2(p))
  <2>1. d[p].text \in Texts
      BY <1>2, DocumentFacts DEF Paras
  <2>2. C(p) \in Seq({r \in Citation : r.kind = "relative" => r.ayat # 0})
      BY <2>1, ReferencesAssumption
  <2>3. C(p) \in Seq(Citation)
      BY <2>2, SeqMonotonic
  <2> HIDE DEF C
  <2>4. DOMAIN C(p) = 1..Len(C(p)) /\ Len(C(p)) \in Nat
      BY <2>3, LenProperties
  <2> DEFINE g == [k \in DOMAIN C(p) |-> <<p, k>>]
  <2>5. g \in Surjection(DOMAIN C(p), At2(p))
      BY DEF Surjection
  <2>6. IsFiniteSet(DOMAIN C(p))
      BY <2>4, FS_Interval
  <2> HIDE DEF g, At2
  <2> QED
      BY <2>3, <2>5, <2>6, FS_Surjection
<1>4. IsFiniteSet(places)
  <2> DEFINE g == [p \in DOMAIN d |-> At2(p)]
             G == {At2(p) : p \in DOMAIN d}
  <2> HIDE DEF At2
  <2>1. g \in Surjection(DOMAIN d, G)
      BY DEF Surjection
  <2>2. IsFiniteSet(DOMAIN d)
      BY <1>2, FS_Interval
  <2>3. IsFiniteSet(G)
    <3> HIDE DEF g, G
    <3> QED
        BY <2>1, <2>2, FS_Surjection
  <2> QED
      BY <1>3, <2>3, FS_UNION
<1>5. \A x \in places : x = <<x[1], x[2]>> /\ x[1] \in DOMAIN d /\ x[2] \in DOMAIN C(x[1])
    OBVIOUS
<1>6. \A x \in places : x[1] \in Nat /\ x[2] \in Nat
  <2>1. \A p \in DOMAIN d : DOMAIN C(p) \subseteq Nat
    <3> HIDE DEF C
    <3> QED
        BY <1>3, LenProperties
  <2> HIDE DEF places, C
  <2> QED
      BY <1>2, <1>5, <2>1
<1> HIDE DEF places, C, ref
<1>7. \A x, y \in places : <<x, y>> \in R <=> x[1] < y[1] \/ (x[1] = y[1] /\ x[2] < y[2])
    OBVIOUS
<1> HIDE DEF R
<1>8. \A x \in places : <<x, x>> \notin R
    BY <1>6, <1>7
<1>9. ASSUME NEW x \in places, NEW y \in places, x # y PROVE <<x, y>> \in R \/ <<y, x>> \in R
  <2>1. x[1] # y[1] \/ x[2] # y[2]
      BY <1>5, <1>9
  <2> QED
      BY <1>6, <1>7, <2>1
<1>10. \A x, y, z \in places : <<x, y>> \in R /\ <<y, z>> \in R => <<x, z>> \in R
    BY <1>6, <1>7
<1>11. order \in Seq(places)
    BY <1>4, <1>8, <1>9, <1>10, ArrangedFacts
<1> HIDE DEF order
<1>12. DOMAIN order = 1..Len(order) /\ Len(order) \in Nat /\ \A n \in 1..Len(order) : order[n] \in places
    BY <1>11, SeqFacts
<1>13. ASSUME NEW p \in DOMAIN d, NEW r \in Citation
       PROVE  ref(p, r) \in Cited /\ ref(p, r).para = p
  <2>1. Raw(r) \in Seq(Nat)
    <3>1. r.pasal \in Nat /\ r.ayat \in Nat
        BY DEF Citation
    <3>2. <<>> \in Seq(Nat) /\ <<r.pasal>> \in Seq(Nat) /\ <<r.ayat>> \in Seq(Nat)
        BY <3>1
    <3> QED
        BY <3>2, ConcatProperties DEF Raw
  <2>2. d[ArticleAt(d, p)].number \in Nat
    <3>1. ArticleAt(d, p) \in 1..p /\ p \in 1..Len(d)
        BY <1>2, DocumentFacts
    <3>2. ArticleAt(d, p) \in 1..Len(d)
        BY <1>2, <3>1
    <3> QED
        BY <3>2, DocumentFacts DEF Paras
  <2> DEFINE n == d[ArticleAt(d, p)].number
  <2>3. ref(p, r) = [para |-> p, raw |-> Raw(r),
                     cite |-> IF r.kind = "relative" THEN [r EXCEPT !.pasal = n] ELSE r]
      BY DEF ref
  <2> HIDE DEF n
  <2>4. [r EXCEPT !.pasal = n] \in Citation
      BY <2>2 DEF Citation, n
  <2> QED
      BY <1>2, <2>1, <2>3, <2>4 DEF Cited
<1>14. ASSUME NEW n \in 1..Len(order) PROVE f(n) \in Cited /\ f(n).para \in DOMAIN d
  <2> DEFINE p == order[n][1]
             k == order[n][2]
  <2>1. p \in DOMAIN d /\ k \in DOMAIN C(p)
      BY <1>5, <1>12
  <2> HIDE DEF p, k
  <2>2. C(p)[k] \in Citation
      BY <1>3, <2>1, LenProperties, ElementOfSeq
  <2>3. f(n) = ref(p, C(p)[k])
      BY DEF p, k
  <2> QED
      BY <1>13, <2>1, <2>2, <2>3
<1> HIDE DEF f
<1>15. ReferencesOf(d) \in [1..Len(order) -> Cited] /\ \A n \in 1..Len(order) : ReferencesOf(d)[n] = f(n)
    BY <1>1, <1>12, <1>14
<1>16. ReferencesOf(d) \in Seq(Cited) /\ DOMAIN ReferencesOf(d) = 1..Len(order)
    BY <1>12, <1>15, SeqDef
<1> QED
    BY <1>14, <1>15, <1>16 DEF ToSet

\* A citation that is repointed names the article of the relocation.
LEMMA repointActionFacts ==
    ASSUME NEW r \in Cited, NEW reloc \in IDs
    PROVE  /\ repointAction(r, reloc) \in SUBSET Action
           /\ \A a \in repointAction(r, reloc) :
                a.type = "reference_update" /\ (Len(a.new) = 1 => a.new = << Last(reloc).number >>)
<1> DEFINE places  == {k \in DOMAIN r.raw : r.raw[k] = r.cite.pasal}
           updated == IF places = {} THEN r.raw ELSE [r.raw EXCEPT ![Min(places)] = Last(reloc).number]
<1>1. repointAction(r, reloc) = IF updated = r.raw THEN {} ELSE {[type |-> "reference_update", new |-> updated]}
    BY DEF repointAction
<1>2. SUFFICES ASSUME updated # r.raw
               PROVE  updated \in Seq(Nat) /\ (Len(updated) = 1 => updated = << Last(reloc).number >>)
  <2> HIDE DEF updated
  <2> QED
      BY <1>1 DEF Action
<1> DEFINE raw == r.raw
           k   == Min(places)
           n   == Last(reloc).number
<1>3. raw \in Seq(Nat) /\ DOMAIN raw = 1..Len(raw) /\ n \in Nat
  <2>1. raw \in Seq(Nat)
      BY DEF Cited
  <2>2. n \in Nat
      BY LastFacts DEF Segments
  <2> HIDE DEF raw, n
  <2> QED
      BY <2>1, <2>2, LenProperties
<1>4. places # {} /\ updated = [raw EXCEPT ![k] = n] /\ places \subseteq DOMAIN raw
    BY <1>2
<1> HIDE DEF raw, n, places, updated
<1>5. k \in 1..Len(raw)
  <2>1. places \in SUBSET Nat
      BY <1>3, <1>4
  <2> QED
      BY <1>3, <1>4, <2>1, MinFacts
<1> HIDE DEF k
<1>6. /\ updated \in Seq(Nat) /\ Len(updated) = Len(raw)
      /\ \A j \in 1..Len(raw) : updated[j] = IF j = k THEN n ELSE raw[j]
    BY <1>3, <1>4, <1>5, ExceptSeq
<1>7. ASSUME Len(updated) = 1 PROVE updated = << n >>
  <2>1. k = 1 /\ updated[1] = n
      BY <1>5, <1>6, <1>7
  <2>2. << n >> \in Seq(Nat) /\ Len(<< n >>) = 1 /\ << n >>[1] = n
      BY <1>3
  <2>3. \A j \in 1..1 : updated[j] = << n >>[j]
      BY <2>1, <2>2
  <2> QED
      BY <1>6, <1>7, <2>2, <2>3, SeqEqual
<1> QED
    BY <1>6, <1>7 DEF n

\* Sorting keeps the findings.
LEMMA SortFindingsFacts ==
    ASSUME NEW fs \in Seq(Findings)
    PROVE  /\ SortFindings(fs) \in Seq(Findings)
           /\ \A k \in 1..Len(SortFindings(fs)) : \E j \in 1..Len(fs) : SortFindings(fs)[k] = fs[j]
           /\ \A j \in 1..Len(fs) : \E k \in 1..Len(SortFindings(fs)) : SortFindings(fs)[k] = fs[j]
<1> DEFINE S == DOMAIN fs
           R == {m \in S \X S : Before(fs[m[1]], fs[m[2]]) \/ (~Before(fs[m[2]], fs[m[1]]) /\ m[1] < m[2])}
           order == Arranged(S, R)
<1>1. /\ Len(fs) \in Nat /\ S = 1..Len(fs) /\ IsFiniteSet(S) /\ Cardinality(S) = Len(fs)
      /\ \A k \in S : fs[k] \in Findings
  <2>1. Len(fs) \in Nat /\ DOMAIN fs = 1..Len(fs) /\ \A k \in 1..Len(fs) : fs[k] \in Findings
      BY SeqFacts
  <2>2. IsFiniteSet(1..Len(fs)) /\ Cardinality(1..Len(fs)) = Len(fs)
    <3> DEFINE n == Len(fs)
    <3>1. n \in Nat
        BY <2>1
    <3> HIDE DEF n
    <3>2. IsFiniteSet(1..n) /\ Cardinality(1..n) = n
        BY <3>1, FS_Interval
    <3> QED
        BY <3>2 DEF n
  <2> QED
      BY <2>1, <2>2
<1>2. \A k \in S : Rank(fs[k]) \in Nat /\ fs[k].para \in Nat
    BY <1>1 DEF Rank, Findings
<1>3. SortFindings(fs) = [k \in DOMAIN order |-> fs[order[k]]]
    BY DEF SortFindings
<1> DEFINE rank(k) == Rank(fs[k])
           para(k) == fs[k].para
           First(j, k) == rank(j) < rank(k) \/ (rank(j) = rank(k) /\ para(j) < para(k))
           Lex(j, k) == First(j, k) \/ (rank(j) = rank(k) /\ para(j) = para(k) /\ j < k)
<1>4. R = {m \in S \X S : First(m[1], m[2]) \/ (~First(m[2], m[1]) /\ m[1] < m[2])}
    BY DEF Before
<1>5. \A k \in S : rank(k) \in Nat /\ para(k) \in Nat /\ k \in Nat
    BY <1>1, <1>2
<1> HIDE DEF S, R, rank, para, First, Lex
<1>6. \A j, k \in S : <<j, k>> \in R <=> First(j, k) \/ (~First(k, j) /\ j < k)
    BY <1>4
<1>7. ASSUME NEW j \in S, NEW k \in S PROVE <<j, k>> \in R <=> Lex(j, k)
  <2>1. First(j, k) \/ (~First(k, j) /\ j < k) <=> Lex(j, k)
      BY <1>5 DEF First, Lex
  <2>2. <<j, k>> \in R <=> First(j, k) \/ (~First(k, j) /\ j < k)
      BY <1>6
  <2> QED
      BY <2>1, <2>2, Zenon
<1>8. ASSUME NEW x \in S PROVE <<x, x>> \notin R
  <2>1. ~Lex(x, x)
      BY <1>5 DEF First, Lex
  <2> QED
      BY <1>7, <2>1
<1>9. ASSUME NEW x \in S, NEW y \in S, x # y PROVE <<x, y>> \in R \/ <<y, x>> \in R
  <2>1. Lex(x, y) \/ Lex(y, x)
      BY <1>5, <1>9 DEF First, Lex
  <2> QED
      BY <1>7, <2>1
<1>10. ASSUME NEW x \in S, NEW y \in S, NEW z \in S, <<x, y>> \in R, <<y, z>> \in R PROVE <<x, z>> \in R
  <2>1. Lex(x, y) /\ Lex(y, z)
      BY <1>7, <1>10
  <2>2. Lex(x, z)
      BY <1>5, <2>1 DEF First, Lex
  <2> QED
      BY <1>7, <2>2
<1>11. /\ order \in Seq(S) /\ Len(order) = Len(fs)
       /\ \A x \in S : \E k \in 1..Len(fs) : order[k] = x
  <2>1. /\ order \in Seq(S) /\ Len(order) = Cardinality(S)
        /\ \A x \in S : \E k \in 1..Cardinality(S) : order[k] = x
      BY <1>1, <1>8, <1>9, <1>10, ArrangedFacts
  <2> HIDE DEF order
  <2> QED
      BY <1>1, <2>1
<1> HIDE DEF order
<1>12. DOMAIN order = 1..Len(fs) /\ \A k \in 1..Len(fs) : order[k] \in S
    BY <1>11, SeqFacts
<1> DEFINE sorted == SortFindings(fs)
<1>13. sorted \in [1..Len(fs) -> Findings] /\ \A k \in 1..Len(fs) : sorted[k] = fs[order[k]]
    BY <1>1, <1>3, <1>12
<1> HIDE DEF sorted
<1>14. sorted \in Seq(Findings) /\ Len(sorted) = Len(fs)
    BY <1>1, <1>13, SeqDef, LenProperties
<1>15. ASSUME NEW k \in 1..Len(fs) PROVE \E j \in 1..Len(fs) : sorted[k] = fs[j]
    BY <1>1, <1>12, <1>13
<1>16. ASSUME NEW j \in 1..Len(fs) PROVE \E k \in 1..Len(fs) : sorted[k] = fs[j]
  <2>1. PICK k \in 1..Len(fs) : order[k] = j
      BY <1>1, <1>11
  <2> QED
      BY <1>13, <2>1
<1> QED
    BY <1>14, <1>15, <1>16 DEF sorted

\* What a citation has lost, and which articles are gone.
Lost(r) == Resolve(Names(prevIDs), r) # <<>> /\ Resolve(Names(currIDs), r) = <<>>
Gone(i) == prev[i].kind = "pasal" /\ prevIDs[i] \notin Names(currIDs)

\* The report of an article that is gone.
OfRemoval(f) ==
    /\ f.category = "section_removed" /\ f.side = "prev" /\ f.actions = {}
    /\ f.para \in DOMAIN prev /\ Gone(f.para) /\ f.node = prevIDs[f.para]
    /\ f.severity = IF findRelocation(f.node) # <<>> THEN "minor" ELSE "major"

\* The articles that are gone are reported, each one and nothing else.
LEMMA RemovedFacts ==
    ASSUME IsDocument(prev), prevIDs = IDsOf(prev)
    PROVE  /\ reportRemovedArticles \in Seq(Findings)
           /\ \A k \in 1..Len(reportRemovedArticles) : OfRemoval(reportRemovedArticles[k])
           /\ \A i \in DOMAIN prev : Gone(i) =>
                \E k \in 1..Len(reportRemovedArticles) : reportRemovedArticles[k].para = i
<1> DEFINE S    == {i \in DOMAIN prev : prev[i].kind = "pasal" /\ prevIDs[i] \notin Names(currIDs)}
           gone == Ascending(S)
           report(i) == Finding("section_removed", IF findRelocation(prevIDs[i]) # <<>> THEN "minor" ELSE "major",
                                "prev", i, prevIDs[i], {})
<1>1. reportRemovedArticles = [k \in DOMAIN gone |-> report(gone[k])]
    BY DEF reportRemovedArticles
<1>2. DOMAIN prev = 1..Len(prev) /\ Len(prev) \in Nat /\ \A i \in DOMAIN prev : prevIDs[i] \in Seq(Segments)
    BY DocumentFacts, NamesFacts
<1>3. S \subseteq DOMAIN prev /\ \A i \in DOMAIN prev : i \in S <=> Gone(i)
    BY DEF Gone
<1>4. ASSUME NEW i \in S PROVE report(i) \in Findings /\ OfRemoval(report(i)) /\ report(i).para = i
  <2>1. i \in DOMAIN prev /\ i \in Nat /\ Gone(i) /\ prevIDs[i] \in Seq(Segments)
      BY <1>2, <1>3
  <2> DEFINE sev == IF findRelocation(prevIDs[i]) # <<>> THEN "minor" ELSE "major"
  <2>2. sev \in {"minor", "major"}
      OBVIOUS
  <2>3. report(i) = [category |-> "section_removed", severity |-> sev, side |-> "prev", para |-> i,
                     node |-> prevIDs[i], actions |-> {}]
      BY DEF Finding
  <2>4. OfRemoval(report(i))
      BY <2>1, <2>3 DEF OfRemoval
  <2> HIDE DEF sev
  <2> QED
      BY <2>1, <2>2, <2>3, <2>4 DEF Findings
<1> HIDE DEF S, report
<1>5. S \in SUBSET Nat /\ IsFiniteSet(S)
  <2>1. S \in SUBSET (1..Len(prev)) /\ IsFiniteSet(1..Len(prev))
      BY <1>2, <1>3, FS_Interval
  <2>2. IsFiniteSet(S)
      BY <2>1, FS_Subset
  <2>3. \A i \in S : i \in Nat
      BY <1>2, <1>3
  <2> QED
      BY <2>2, <2>3
<1>6. gone \in Seq(S) /\ \A x \in S : \E k \in 1..Len(gone) : gone[k] = x
    BY <1>5, AscendingFacts
<1> HIDE DEF gone
<1>7. DOMAIN gone = 1..Len(gone) /\ Len(gone) \in Nat /\ \A k \in 1..Len(gone) : gone[k] \in S
    BY <1>6, SeqFacts
<1> DEFINE removed == reportRemovedArticles
<1>8. removed \in [1..Len(gone) -> Findings] /\ \A k \in 1..Len(gone) : removed[k] = report(gone[k])
    BY <1>1, <1>4, <1>7
<1> HIDE DEF removed
<1>9. removed \in Seq(Findings) /\ Len(removed) = Len(gone)
    BY <1>7, <1>8, SeqDef, LenProperties
<1> QED
    BY <1>3, <1>4, <1>6, <1>7, <1>8, <1>9 DEF removed

-----------------------------------------------------------------------------
(* Edits and alignments.                                                   *)

\* An edit makes a document of a document.
LEMMA EditFacts ==
    ASSUME NEW d, IsDocument(d), NEW p \in Paras, NEW i \in 2..(Len(d) + 1)
    PROVE  /\ IsDocument(InsertAt(d, i, p))
           /\ i <= Len(d) => /\ IsDocument(RemoveAt(d, i)) /\ Len(RemoveAt(d, i)) = Len(d) - 1
                             /\ IsDocument(ReplaceAt(d, i, p))
<1>1. /\ d \in Seq(Paras) /\ Len(d) \in Nat /\ 1 <= Len(d) /\ d[1].kind = "pasal"
      /\ \A k \in 1..Len(d) : d[k] \in Paras
    BY SeqFacts DEF IsDocument
<1> DEFINE n == Len(d)
           a == SubSeq(d, 1, i - 1)
           b == SubSeq(d, i, n)
           c == SubSeq(d, i + 1, n)
<1>2. /\ n \in Int /\ i \in Int /\ i - 1 \in Int /\ i + 1 \in Int /\ 2 <= i /\ i <= n + 1
    BY <1>1
<1>3. a \in Seq(Paras) /\ Len(a) = i - 1 /\ a[1] = d[1]
  <2>1. \A k \in 1..(i - 1) : d[k] \in Paras
      BY <1>1, <1>2
  <2>2. /\ a \in Seq(Paras) /\ Len(a) = IF 1 <= i - 1 THEN (i - 1) - 1 + 1 ELSE 0
        /\ \A k \in 1..((i - 1) - 1 + 1) : a[k] = d[1 + k - 1]
      BY <1>2, <2>1, SubSeqProperties
  <2>3. 1 \in 1..((i - 1) - 1 + 1) /\ 1 + 1 - 1 = 1
      BY <1>2
  <2> QED
      BY <1>2, <2>2, <2>3
<1>4. b \in Seq(Paras)
  <2>1. \A k \in i..n : d[k] \in Paras
      BY <1>1, <1>2
  <2> QED
      BY <1>2, <2>1, SubSeqProperties
<1>5. i <= n => c \in Seq(Paras) /\ Len(c) = n - i
  <2>1. \A k \in (i + 1)..n : d[k] \in Paras
      BY <1>1, <1>2
  <2>2. c \in Seq(Paras) /\ Len(c) = IF i + 1 <= n THEN n - (i + 1) + 1 ELSE 0
      BY <1>2, <2>1, SubSeqProperties
  <2> QED
      BY <1>2, <2>2
<1> HIDE DEF n, a, b, c
<1>6. ASSUME NEW t \in Seq(Paras)
      PROVE  IsDocument(a \o t) /\ Len(a \o t) = (i - 1) + Len(t)
  <2>1. /\ a \o t \in Seq(Paras) /\ Len(a \o t) = Len(a) + Len(t)
        /\ \A k \in 1..(Len(a) + Len(t)) : (a \o t)[k] = IF k <= Len(a) THEN a[k] ELSE t[k - Len(a)]
      BY <1>3, ConcatProperties
  <2>2. Len(t) \in Nat /\ Len(a) \in Nat /\ 1 <= Len(a)
      BY <1>2, <1>3, LenProperties
  <2>3. (a \o t)[1] = a[1]
      BY <2>1, <2>2
  <2> QED
      BY <1>1, <1>3, <2>1, <2>2, <2>3 DEF IsDocument
<1>7. IsDocument(InsertAt(d, i, p))
  <2>1. <<p>> \in Seq(Paras)
      OBVIOUS
  <2>2. <<p>> \o b \in Seq(Paras)
      BY <1>4, <2>1, ConcatProperties
  <2>3. (a \o <<p>>) \o b = a \o (<<p>> \o b)
      BY <1>3, <1>4, <2>1, ConcatAssociative
  <2>4. InsertAt(d, i, p) = (a \o <<p>>) \o b
      BY DEF InsertAt, a, b, n
  <2> QED
      BY <1>6, <2>2, <2>3, <2>4
<1>8. ASSUME i <= n PROVE IsDocument(RemoveAt(d, i)) /\ Len(RemoveAt(d, i)) = n - 1
  <2>1. RemoveAt(d, i) = a \o c
      BY DEF RemoveAt, a, c, n
  <2> QED
      BY <1>2, <1>5, <1>6, <1>8, <2>1
<1>9. ASSUME i <= n PROVE IsDocument(ReplaceAt(d, i, p))
  <2>1. i \in 1..Len(d) /\ 1 \in 1..Len(d) /\ 1 # i
      BY <1>1, <1>2, <1>9 DEF n
  <2>2. /\ ReplaceAt(d, i, p) \in Seq(Paras) /\ Len(ReplaceAt(d, i, p)) = Len(d)
        /\ \A j \in 1..Len(d) : ReplaceAt(d, i, p)[j] = IF j = i THEN p ELSE d[j]
      BY <1>1, <2>1, ExceptSeq DEF ReplaceAt
  <2> QED
      BY <1>1, <2>1, <2>2 DEF IsDocument
<1> QED
    BY <1>7, <1>8, <1>9 DEF n

\* An alignment matches equal paragraphs, in order.
LEMMA MatchingsFacts ==
    ASSUME IsDocument(prev), IsDocument(curr), NEW M \in Matchings
    PROVE  /\ M \subseteq (DOMAIN prev) \X (DOMAIN curr) /\ InOrder(M)
           /\ \A m \in M : prev[m[1]] = curr[m[2]]
<1> DEFINE Pairs == (DOMAIN prev) \X (DOMAIN curr)
           between == {m \in Pairs :
                         /\ prev[m[1]] = curr[m[2]]
                         /\ \A h \in CommonAtStart : h[1] < m[1] /\ h[2] < m[2]
                         /\ \A t \in CommonAtEnd : m[1] < t[1] /\ m[2] < t[2]}
<1>1. PICK N \in SUBSET between : InOrder(N) /\ M = CommonAtStart \cup CommonAtEnd \cup N
    BY DEF Matchings
<1>2. /\ DOMAIN prev = 1..Len(prev) /\ DOMAIN curr = 1..Len(curr)
      /\ Len(prev) \in Nat /\ Len(curr) \in Nat
    BY DocumentFacts
<1>3. ASSUME NEW m \in CommonAtStart
      PROVE  m \in Pairs /\ m[1] = m[2] /\ prev[m[1]] = curr[m[2]]
  <2>1. PICK n \in (DOMAIN prev) \cap (DOMAIN curr) : m = <<n, n>> /\ \A i \in 1..n : prev[i] = curr[i]
      BY DEF CommonAtStart
  <2>2. n \in 1..n
      BY <1>2
  <2> QED
      BY <2>1, <2>2
<1>4. ASSUME NEW m \in CommonAtEnd
      PROVE  /\ m \in Pairs /\ Len(prev) - m[1] = Len(curr) - m[2] /\ prev[m[1]] = curr[m[2]]
             /\ \A h \in CommonAtStart : h[1] < m[1] /\ h[2] < m[2]
  <2>1. /\ m \in Pairs /\ Len(prev) - m[1] = Len(curr) - m[2]
        /\ \A n \in 0..(Len(prev) - m[1]) : prev[m[1] + n] = curr[m[2] + n]
        /\ \A h \in CommonAtStart : h[1] < m[1] /\ h[2] < m[2]
      BY DEF CommonAtEnd
  <2>2. m[1] \in 1..Len(prev) /\ m[2] \in 1..Len(curr)
      BY <1>2, <2>1
  <2>3. 0 \in 0..(Len(prev) - m[1]) /\ m[1] + 0 = m[1] /\ m[2] + 0 = m[2]
      BY <1>2, <2>2
  <2> QED
      BY <2>1, <2>3
<1>5. ASSUME NEW m \in N
      PROVE  /\ m \in Pairs /\ prev[m[1]] = curr[m[2]]
             /\ \A h \in CommonAtStart : h[1] < m[1] /\ h[2] < m[2]
             /\ \A t \in CommonAtEnd : m[1] < t[1] /\ m[2] < t[2]
    BY <1>1
<1>6. \A m \in Pairs : m[1] \in Nat /\ m[2] \in Nat
    BY <1>2
<1>7. \A m \in M : m \in Pairs /\ prev[m[1]] = curr[m[2]]
    BY <1>1, <1>3, <1>4, <1>5
<1> HIDE DEF Pairs, between
<1>8. ASSUME NEW x \in M, NEW y \in M PROVE x[1] < y[1] <=> x[2] < y[2]
  <2>1. x[1] \in Nat /\ x[2] \in Nat /\ y[1] \in Nat /\ y[2] \in Nat
      BY <1>6, <1>7
  <2>2. CASE x \in CommonAtStart
    <3>1. CASE y \in CommonAtStart
        BY <1>3, <2>2, <3>1
    <3>2. CASE y \in CommonAtEnd
        BY <1>4, <2>2, <3>2
    <3>3. CASE y \in N
        BY <1>5, <2>2, <3>3
    <3> QED
        BY <1>1, <3>1, <3>2, <3>3
  <2>3. CASE x \in CommonAtEnd
    <3>1. CASE y \in CommonAtStart
        BY <1>4, <2>1, <2>3, <3>1
    <3>2. CASE y \in CommonAtEnd
      <4>1. Len(prev) - x[1] = Len(curr) - x[2] /\ Len(prev) - y[1] = Len(curr) - y[2]
          BY <1>4, <2>3, <3>2
      <4>2. PICK a, b, c, d, m, n : /\ a = x[1] /\ b = x[2] /\ c = y[1] /\ d = y[2]
                                    /\ m = Len(prev) /\ n = Len(curr)
          OBVIOUS
      <4>3. a \in Int /\ b \in Int /\ c \in Int /\ d \in Int /\ m \in Int /\ n \in Int
          BY <1>2, <2>1, <4>2
      <4>4. m - a = n - b /\ m - c = n - d
          BY <4>1, <4>2
      <4>5. a < c <=> b < d
          BY <4>3, <4>4
      <4> QED
          BY <4>2, <4>5
    <3>3. CASE y \in N
        BY <1>5, <2>1, <2>3, <3>3
    <3> QED
        BY <1>1, <3>1, <3>2, <3>3
  <2>4. CASE x \in N
    <3>1. CASE y \in CommonAtStart
        BY <1>5, <2>1, <2>4, <3>1
    <3>2. CASE y \in CommonAtEnd
        BY <1>5, <2>4, <3>2
    <3>3. CASE y \in N
        BY <1>1, <2>4, <3>3 DEF InOrder
    <3> QED
        BY <1>1, <3>1, <3>2, <3>3
  <2> QED
      BY <1>1, <2>2, <2>3, <2>4
<1>9. M \subseteq Pairs
    BY <1>7
<1> QED
    BY <1>7, <1>8, <1>9 DEF InOrder, Pairs

-----------------------------------------------------------------------------
(* The inductive invariant.                                                *)

\* The two versions, and their names from the moment they are parsed.
Documents ==
    /\ IsDocument(prev) /\ IsDocument(curr) /\ edits \in 0..MaxEdits /\ phase \in Phases
    /\ phase # "draft" => prevIDs = IDsOf(prev) /\ currIDs = IDsOf(curr)

\* The alignment: equal paragraphs, in order, that Compare() passes together.
Alignment ==
    /\ matching \subseteq (DOMAIN prev) \X (DOMAIN curr) /\ InOrder(matching)
    /\ \A m \in matching : prev[m[1]] = curr[m[2]]
    /\ pi \in 1..(Len(prev) + 1) /\ ci \in 1..(Len(curr) + 1)
    /\ \A m \in matching : pi <= m[1] <=> ci <= m[2]
    /\ phase = "draft" => matching = {} /\ pi = 1 /\ ci = 1 /\ runs = <<>> /\ changes = <<>>
    /\ phase \notin {"draft", "read"} => AllRead

\* What a run deletes and what it inserts.
Deleted(i)  == IF runs[i].op = "delete" THEN Covers(runs[i]) ELSE {}
Inserted(i) == IF runs[i].op = "insert" THEN Covers(runs[i]) ELSE {}

\* No paragraph is in two runs, in a run and a change, or in two changes.
Apart ==
    /\ runs \in Seq(RunType) /\ changes \in Seq(Change)
    /\ \A i \in 1..Len(runs) : runs[i].first <= runs[i].last
    /\ \A i, j \in 1..Len(runs) : i # j => Deleted(i) \cap Deleted(j) = {} /\ Inserted(i) \cap Inserted(j) = {}
    /\ \A k \in 1..Len(changes), i \in 1..Len(runs) :
         PrevIn(k) \cap Deleted(i) = {} /\ CurrIn(k) \cap Inserted(i) = {}
    /\ \A j, k \in 1..Len(changes) :
         j # k => PrevIn(j) \cap PrevIn(k) = {} /\ CurrIn(j) \cap CurrIn(k) = {}

\* The paragraphs of a version that are in a run or a change.
PrevTaken == UNION ({Deleted(i) : i \in 1..Len(runs)} \cup {PrevIn(k) : k \in 1..Len(changes)})
CurrTaken == UNION ({Inserted(i) : i \in 1..Len(runs)} \cup {CurrIn(k) : k \in 1..Len(changes)})

\* What was passed was matched or taken, and not both; blank paragraphs may be dropped
\* in the end.
Passed ==
    /\ PrevTaken \subseteq 1..(pi - 1) /\ CurrTaken \subseteq 1..(ci - 1)
    /\ \A m \in matching : m[1] \notin PrevTaken /\ m[2] \notin CurrTaken
    /\ \A p \in 1..(pi - 1) : p \in PrevTaken \/ (\E m \in matching : m[1] = p)
                                \/ (phase \notin {"draft", "read"} /\ prev[p] = Blank)
    /\ \A p \in 1..(ci - 1) : p \in CurrTaken \/ (\E m \in matching : m[2] = p)
                                \/ (phase \notin {"draft", "read"} /\ curr[p] = Blank)
    /\ phase \notin {"draft", "read"} => runs = <<>>

\* Every finding has its reason.
OfNumbering(f) ==
    /\ f.category = "numbering" /\ f.severity = "major" /\ f.side = "curr" /\ f.para \in DOMAIN curr
    /\ \A a \in f.actions : a.type = "renumber"
OfCitation(f) ==
    /\ f.category \in {"broken", "shifted"} /\ f.side = "curr"
    /\ \E r \in ToSet(ReferencesOf(curr)) :
         /\ f.para = r.para /\ (f.severity = "critical" => Lost(r.cite))
         /\ f.category = "broken" => \A a \in f.actions : a.type = "manual_review"
         /\ f.category = "shifted" =>
              /\ f.node = findRelocation(TargetID(r.cite)) /\ f.node # <<>>
              /\ f.actions = repointAction(r, f.node)
Reasons ==
    /\ found \in Seq(Findings)
    /\ \A k \in 1..Len(found) : OfNumbering(found[k]) \/ OfCitation(found[k]) \/ OfRemoval(found[k])
    /\ \A t \in DOMAIN relocations : relocations[t] = findRelocation(t)
    /\ phase \in {"draft", "read", "compared"} => DOMAIN relocations = {}
    /\ phase \in {"draft", "read"} => found = <<>>

\* Every reason has its finding, but for the citations that are still to be checked.
Done == {"assembled", "filing", "shown"}
Complete ==
    /\ cited \in Seq(ToSet(ReferencesOf(curr)))
    /\ phase \in {"draft", "read", "compared"} => cited = <<>>
    /\ phase \in Done \cup {"citations"} =>
         \A r \in ToSet(ReferencesOf(curr)) :
            Lost(r.cite) => r \in ToSet(cited) \/ \E k \in 1..Len(found) : found[k].severity = "critical"
    /\ phase \in Done =>
         /\ cited = <<>>
         /\ \A i \in DOMAIN prev : Gone(i) =>
              \E k \in 1..Len(found) : found[k].category = "section_removed" /\ found[k].para = i

\* How often a finding is among the first n.
Among(n, f) == {k \in 1..n : found[k] = f}

\* A finding is filed where it belongs, and the first n are filed once.
Filing ==
    /\ phase \notin {"filing", "shown"} => views = <<>> /\ warnings = <<>>
    /\ phase \in {"filing", "shown"} =>
         /\ DOMAIN views = DOMAIN changes /\ \A k \in DOMAIN views : views[k] \in Seq(Findings)
         /\ warnings \in Seq(Findings)
         /\ \A k \in DOMAIN views : \A f \in ToSet(views[k]) : k \in placeOf(f)
         /\ \E n \in 0..Len(found) :
              /\ unfiled = SubSeq(found, n + 1, Len(found))
              /\ \A f \in ToSet(found) :
                   IsFiniteSet(ShownAt(f)) /\ Cardinality(ShownAt(f)) = Cardinality(Among(n, f))
    /\ phase = "shown" => unfiled = <<>>

ReportInv == Documents /\ Alignment /\ Apart /\ Passed /\ Reasons /\ Complete /\ Filing

-----------------------------------------------------------------------------
(* Documents and their alignment.                                          *)

\* Only an edit and the alignment write the documents.
LEMMA OthersKeepTheDocuments ==
    ASSUME [Next]_vars, ~Revise, ~Align, phase \in Phases
    PROVE  UNCHANGED <<docVars, matching>> /\ phase' \in Phases /\ (phase' = "draft" <=> phase = "draft")
<1>1. CASE UNCHANGED vars
    BY <1>1 DEF vars, docVars, diffVars
<1>2. CASE DiffNext
    BY <1>2 DEF DiffNext, ReadEqual, ReadDelete, ReadInsert, PairRewrite, SingleRun, DropBlank, docVars, Phases
<1>3. CASE RefNext
    BY <1>3 DEF RefNext, AddNumberingFinding, CompareReferences, AtCitation, SkipResolved, ReportDangling,
        ReportBroken, ReportRemoved, docVars, diffVars, Phases
<1>4. CASE BuildView \/ FileWarning \/ FileUnderChange \/ Show
    BY <1>4 DEF BuildView, AtFinding, FileWarning, FileUnderChange, Show, docVars, diffVars, Phases
<1> QED
    BY <1>1, <1>2, <1>3, <1>4 DEF Next

\* The versions are documents after every edit, and named when they are parsed.
LEMMA DocumentsStep ==
    ASSUME Documents, [Next]_vars
    PROVE  Documents'
<1>1. CASE Revise
  <2>1. /\ phase = "draft" /\ phase' = phase /\ prev' = prev /\ edits' = edits + 1 /\ edits < MaxEdits
        /\ prevIDs' = prevIDs /\ currIDs' = currIDs
      BY <1>1 DEF Revise
  <2> SUFFICES IsDocument(curr')
      BY <2>1, TextDiffAssumption DEF Documents, IsDocument
  <2>2. PICK i \in 2..(Len(curr) + 1) :
           \/ \E p \in Paragraphs : curr' = InsertAt(curr, i, p)
           \/ i <= Len(curr) /\ curr' = RemoveAt(curr, i)
           \/ i <= Len(curr) /\ \E p \in Paragraphs \cup Repunctuated(curr[i]) : curr' = ReplaceAt(curr, i, p)
           \/ i <= Len(curr) /\ \E j \in 2..Len(curr) : curr' = InsertAt(RemoveAt(curr, i), j, curr[i])
      BY <1>1 DEF Revise
  <2>3. IsDocument(curr) /\ Len(curr) \in Nat /\ \A k \in 1..Len(curr) : curr[k] \in Paras
      BY DocumentFacts DEF Documents
  <2>4. Paragraphs \subseteq Paras
      BY TextDiffAssumption
  <2>5. CASE \E p \in Paragraphs : curr' = InsertAt(curr, i, p)
    <3>1. PICK p \in Paras : curr' = InsertAt(curr, i, p)
        BY <2>4, <2>5
    <3> QED
        BY <2>3, <3>1, EditFacts
  <2>6. ASSUME i <= Len(curr)
        PROVE  curr[i] \in Paras /\ Repunctuated(curr[i]) \subseteq Paras
    <3>1. curr[i] \in Paras
        BY <2>3, <2>6
    <3>2. \A q \in Paras : [q EXCEPT !.mark = 2] \in Paras
        BY DEF Paras
    <3> QED
        BY <3>1, <3>2 DEF Repunctuated
  <2>7. CASE i <= Len(curr) /\ curr' = RemoveAt(curr, i)
      BY <2>3, <2>6, <2>7, EditFacts
  <2>8. CASE i <= Len(curr) /\ \E p \in Paragraphs \cup Repunctuated(curr[i]) : curr' = ReplaceAt(curr, i, p)
    <3>1. PICK p \in Paras : curr' = ReplaceAt(curr, i, p)
        BY <2>4, <2>6, <2>8
    <3> QED
        BY <2>3, <2>8, <3>1, EditFacts
  <2>9. CASE i <= Len(curr) /\ \E j \in 2..Len(curr) : curr' = InsertAt(RemoveAt(curr, i), j, curr[i])
    <3> DEFINE d == RemoveAt(curr, i)
               p == curr[i]
    <3>1. PICK j \in 2..Len(curr) : curr' = InsertAt(d, j, p)
        BY <2>9
    <3>2. p \in Paras /\ IsDocument(d) /\ Len(d) = Len(curr) - 1
        BY <2>3, <2>6, <2>9, EditFacts
    <3> HIDE DEF d, p
    <3>3. j \in 2..(Len(d) + 1)
        BY <2>3, <3>2
    <3> QED
        BY <3>1, <3>2, <3>3, EditFacts
  <2> QED
      BY <2>2, <2>5, <2>7, <2>8, <2>9
<1>2. CASE Align
    BY <1>2 DEF Align, Documents, IsDocument, Phases
<1>3. CASE ~Revise /\ ~Align
    BY <1>3, OthersKeepTheDocuments DEF Documents, IsDocument, docVars
<1> QED
    BY <1>1, <1>2, <1>3

\* How far Compare() may read on.
LEMMA NextEqualFacts ==
    ASSUME Documents, Alignment
    PROVE  /\ Len(prev) \in Nat /\ Len(curr) \in Nat
           /\ \A m \in matching : m[1] \in 1..Len(prev) /\ m[2] \in 1..Len(curr)
           /\ NextEqual[1] \in pi..(Len(prev) + 1) /\ NextEqual[2] \in ci..(Len(curr) + 1)
           /\ \A m \in matching : /\ pi <= m[1] => NextEqual[1] <= m[1]
                                  /\ ci <= m[2] => NextEqual[2] <= m[2]
           /\ NextEqual \in matching \/ NextEqual = Ends
<1> DEFINE All0 == {m \in matching \cup {Ends} : m[1] >= pi}
           Firsts == {m[1] : m \in All0}
           e == NextEqual
<1>1. /\ Len(prev) \in Nat /\ Len(curr) \in Nat /\ Ends[1] = Len(prev) + 1 /\ Ends[2] = Len(curr) + 1
      /\ DOMAIN prev = 1..Len(prev) /\ DOMAIN curr = 1..Len(curr)
    BY DocumentFacts DEF Documents, Ends
<1>2. \A m \in matching : m[1] \in 1..Len(prev) /\ m[2] \in 1..Len(curr)
    BY <1>1 DEF Alignment
<1>3. pi \in 1..(Len(prev) + 1) /\ ci \in 1..(Len(curr) + 1)
    BY DEF Alignment
<1>4. \A m \in matching \cup {Ends} : m[1] \in Nat
    BY <1>1, <1>2
<1>5. Ends \in All0
    BY <1>1, <1>3
<1>6. Firsts \in SUBSET Nat /\ Firsts # {}
    BY <1>4, <1>5
<1>7. PICK first \in All0 : \A k \in All0 : first[1] <= k[1]
  <2> HIDE DEF Firsts
  <2>1. PICK x \in Firsts : \A y \in Firsts : x <= y
      BY <1>6, LeastElement
  <2> QED
      BY <2>1 DEF Firsts
<1>8. /\ e \in matching \cup {Ends} /\ e[1] >= pi
      /\ \A k \in matching \cup {Ends} : k[1] >= pi => e[1] <= k[1]
  <2>1. \E m0 \in matching \cup {Ends} :
           m0[1] >= pi /\ \A k \in matching \cup {Ends} : k[1] >= pi => m0[1] <= k[1]
      BY <1>7
  <2> QED
      BY <2>1 DEF NextEqual
<1> HIDE DEF e
<1>9. e[1] \in pi..(Len(prev) + 1)
    BY <1>1, <1>2, <1>3, <1>8
<1>10. e[2] \in ci..(Len(curr) + 1)
  <2>1. CASE e \in matching
    <3>1. ci <= e[2]
        BY <1>8, <2>1 DEF Alignment
    <3> QED
        BY <1>1, <1>2, <1>3, <2>1, <3>1
  <2>2. CASE e = Ends
      BY <1>1, <1>3, <2>2
  <2> QED
      BY <1>8, <2>1, <2>2
<1>11. ASSUME NEW m \in matching
       PROVE  (pi <= m[1] => e[1] <= m[1]) /\ (ci <= m[2] => e[2] <= m[2])
  <2>1. pi <= m[1] => e[1] <= m[1]
      BY <1>2, <1>3, <1>8
  <2>2. pi <= m[1] <=> ci <= m[2]
      BY DEF Alignment
  <2>3. CASE e \in matching
    <3>1. m[1] < e[1] <=> m[2] < e[2]
        BY <2>3 DEF Alignment, InOrder
    <3> QED
        BY <1>2, <2>1, <2>2, <2>3, <3>1
  <2>4. CASE e = Ends
      BY <1>1, <1>2, <2>1, <2>2, <2>4
  <2> QED
      BY <1>8, <2>3, <2>4
<1> QED
    BY <1>1, <1>2, <1>8, <1>9, <1>10, <1>11 DEF e

\* What the three cases of the loop do to the position.
LEMMA AlignmentStep ==
    ASSUME Documents, Alignment, [Next]_vars
    PROVE  Alignment'
<1>1. CASE Revise
  <2>1. /\ phase = "draft" /\ phase' = phase /\ matching' = matching /\ pi' = pi /\ ci' = ci
        /\ runs' = runs /\ changes' = changes /\ prev' = prev
      BY <1>1 DEF Revise, diffVars
  <2>2. matching = {} /\ pi = 1 /\ ci = 1 /\ runs = <<>> /\ changes = <<>>
      BY <2>1 DEF Alignment
  <2>3. Len(prev') \in Nat /\ Len(curr') \in Nat
      BY DocumentsStep, DocumentFacts DEF Documents, IsDocument
  <2>4. pi' \in 1..(Len(prev') + 1) /\ ci' \in 1..(Len(curr') + 1)
      BY <2>1, <2>2, <2>3
  <2> QED
      BY <2>1, <2>2, <2>4 DEF Alignment, InOrder
<1>2. CASE Align
  <2>1. /\ phase = "draft" /\ phase' = "read" /\ matching' \in Matchings /\ pi' = pi /\ ci' = ci
        /\ prev' = prev /\ curr' = curr
      BY <1>2 DEF Align
  <2>2. /\ matching' \subseteq (DOMAIN prev) \X (DOMAIN curr) /\ InOrder(matching')
        /\ \A m \in matching' : prev[m[1]] = curr[m[2]]
      BY <2>1, MatchingsFacts DEF Documents
  <2>3. pi = 1 /\ ci = 1 /\ pi \in 1..(Len(prev) + 1) /\ ci \in 1..(Len(curr) + 1)
      BY <2>1 DEF Alignment
  <2>4. DOMAIN prev = 1..Len(prev) /\ DOMAIN curr = 1..Len(curr)
      BY DocumentFacts DEF Documents
  <2>5. \A m \in matching' : 1 <= m[1] /\ 1 <= m[2]
      BY <2>2, <2>4
  <2> QED
      BY <2>1, <2>2, <2>3, <2>5 DEF Alignment, InOrder
<1>3. CASE ReadEqual
  <2>1. /\ phase = "read" /\ ~AllRead /\ NextEqual = <<pi, ci>> /\ pi' = pi + 1 /\ ci' = ci + 1
        /\ prev' = prev /\ curr' = curr /\ matching' = matching /\ phase' = phase
      BY <1>3 DEF ReadEqual, docVars
  <2>2. <<pi, ci>> \in matching
      BY <2>1, NextEqualFacts DEF AllRead
  <2>3. pi \in 1..Len(prev) /\ ci \in 1..Len(curr) /\ Len(prev) \in Nat /\ Len(curr) \in Nat
      BY <2>2, NextEqualFacts
  <2>4. ASSUME NEW m \in matching PROVE pi + 1 <= m[1] <=> ci + 1 <= m[2]
    <3>1. pi < m[1] <=> ci < m[2]
        BY <2>2 DEF Alignment, InOrder
    <3>2. m[1] \in Nat /\ m[2] \in Nat
        BY NextEqualFacts
    <3> QED
        BY <2>3, <3>1, <3>2
  <2> QED
      BY <2>1, <2>3, <2>4 DEF Alignment, InOrder
<1>4. CASE ReadDelete
  <2>1. /\ phase = "read" /\ pi' = NextEqual[1] /\ ci' = ci
        /\ prev' = prev /\ curr' = curr /\ matching' = matching /\ phase' = phase
      BY <1>4 DEF ReadDelete, docVars
  <2>2. /\ NextEqual[1] \in pi..(Len(prev) + 1) /\ pi \in 1..(Len(prev) + 1) /\ Len(prev) \in Nat
        /\ \A m \in matching : m[1] \in Nat /\ (pi <= m[1] => NextEqual[1] <= m[1])
      BY NextEqualFacts DEF Alignment
  <2> DEFINE e1 == NextEqual[1]
  <2>3. e1 \in 1..(Len(prev) + 1) /\ \A m \in matching : e1 <= m[1] <=> pi <= m[1]
    <3> HIDE DEF e1
    <3>1. /\ e1 \in pi..(Len(prev) + 1)
          /\ \A m \in matching : m[1] \in Nat /\ (pi <= m[1] => e1 <= m[1])
        BY <2>2 DEF e1
    <3> QED
        BY <2>2, <3>1
  <2> HIDE DEF e1
  <2>4. pi' = e1
      BY <2>1 DEF e1
  <2> QED
      BY <2>1, <2>3, <2>4 DEF Alignment, InOrder
<1>5. CASE ReadInsert
  <2>1. /\ phase = "read" /\ pi' = pi /\ ci' = NextEqual[2]
        /\ prev' = prev /\ curr' = curr /\ matching' = matching /\ phase' = phase
      BY <1>5 DEF ReadInsert, docVars
  <2> DEFINE e2 == NextEqual[2]
  <2>2. /\ e2 \in ci..(Len(curr) + 1) /\ ci \in 1..(Len(curr) + 1) /\ Len(curr) \in Nat
        /\ \A m \in matching : m[2] \in Nat /\ (ci <= m[2] => e2 <= m[2])
      BY NextEqualFacts DEF Alignment
  <2>3. ci' = e2
      BY <2>1
  <2> HIDE DEF e2
  <2>4. e2 \in 1..(Len(curr) + 1) /\ \A m \in matching : e2 <= m[2] <=> ci <= m[2]
      BY <2>2
  <2> QED
      BY <2>1, <2>3, <2>4 DEF Alignment, InOrder
<1>6. CASE PairRewrite \/ SingleRun \/ DropBlank
    BY <1>6 DEF PairRewrite, SingleRun, DropBlank, docVars, Alignment, InOrder, AllRead, Ends
<1>7. CASE RefNext /\ UNCHANGED <<unfiled, views, warnings>>
    BY <1>7 DEF RefNext, AddNumberingFinding, CompareReferences, AtCitation, SkipResolved, ReportDangling,
        ReportBroken, ReportRemoved, docVars, diffVars, Alignment, InOrder, AllRead, Ends
<1>8. CASE BuildView \/ FileWarning \/ FileUnderChange \/ Show
    BY <1>8 DEF BuildView, AtFinding, FileWarning, FileUnderChange, Show, docVars, diffVars,
        Alignment, InOrder, AllRead, Ends
<1>9. CASE UNCHANGED vars
    BY <1>9 DEF vars, docVars, diffVars, Alignment, InOrder, AllRead, Ends
<1> QED
    BY <1>1, <1>2, <1>3, <1>4, <1>5, <1>6, <1>7, <1>8, <1>9 DEF Next, DiffNext

-----------------------------------------------------------------------------
(* Runs and changes.                                                       *)

\* Who has taken a paragraph, before a step and after it.
LEMMA TakenFacts ==
    /\ \A p : p \in PrevTaken <=> \/ \E i \in 1..Len(runs) : p \in Deleted(i)
                                  \/ \E k \in 1..Len(changes) : p \in PrevIn(k)
    /\ \A p : p \in CurrTaken <=> \/ \E i \in 1..Len(runs) : p \in Inserted(i)
                                  \/ \E k \in 1..Len(changes) : p \in CurrIn(k)
    /\ \A p : p \in PrevTaken' <=> \/ \E i \in 1..Len(runs') : p \in Deleted(i)'
                                   \/ \E k \in 1..Len(changes') : p \in PrevIn(k)'
    /\ \A p : p \in CurrTaken' <=> \/ \E i \in 1..Len(runs') : p \in Inserted(i)'
                                   \/ \E k \in 1..Len(changes') : p \in CurrIn(k)'
    BY DEF PrevTaken, CurrTaken

\* A run that takes what was free.
LEMMA RunAppendedFacts ==
    ASSUME Apart, NEW r \in RunType, r.first <= r.last, runs' = Append(runs, r), changes' = changes,
           r.op = "delete" => Covers(r) \cap PrevTaken = {},
           r.op = "insert" => Covers(r) \cap CurrTaken = {}
    PROVE  /\ Apart'
           /\ \A p : p \in PrevTaken' <=> p \in PrevTaken \/ (r.op = "delete" /\ p \in Covers(r))
           /\ \A p : p \in CurrTaken' <=> p \in CurrTaken \/ (r.op = "insert" /\ p \in Covers(r))
<1> DEFINE D == IF r.op = "delete" THEN Covers(r) ELSE {}
           I == IF r.op = "insert" THEN Covers(r) ELSE {}
<1>0. PICK n : n = Len(runs)
    OBVIOUS
<1>1. /\ runs \in Seq(RunType) /\ changes \in Seq(Change) /\ n \in Nat
      /\ \A i \in 1..n : runs[i].first <= runs[i].last
    BY <1>0, LenProperties DEF Apart
<1>2. /\ runs' \in Seq(RunType) /\ Len(runs') = n + 1 /\ runs'[n + 1] = r
      /\ \A i \in 1..n : runs'[i] = runs[i]
    BY <1>0, <1>1, AppendFacts
<1>3. /\ \A i \in 1..n : Deleted(i)' = Deleted(i) /\ Inserted(i)' = Inserted(i)
      /\ Deleted(n + 1)' = D /\ Inserted(n + 1)' = I
      /\ \A k : PrevIn(k)' = PrevIn(k) /\ CurrIn(k)' = CurrIn(k)
    BY <1>2 DEF Deleted, Inserted, Covers, PrevIn, CurrIn
<1>4. /\ \A i \in 1..(n + 1) : i \in 1..n \/ i = n + 1
      /\ n + 1 \in 1..(n + 1) /\ \A i \in 1..n : i \in 1..(n + 1) /\ i # n + 1
    BY <1>1
<1>5. /\ \A i \in 1..n : D \cap Deleted(i) = {} /\ I \cap Inserted(i) = {}
      /\ \A k \in 1..Len(changes) : PrevIn(k) \cap D = {} /\ CurrIn(k) \cap I = {}
    BY <1>0, TakenFacts
<1> HIDE DEF D, I
<1>6. ASSUME NEW i \in 1..(n + 1), NEW j \in 1..(n + 1), i # j
      PROVE  Deleted(i)' \cap Deleted(j)' = {} /\ Inserted(i)' \cap Inserted(j)' = {}
  <2>1. CASE i \in 1..n /\ j \in 1..n
      BY <1>0, <1>3, <1>6, <2>1 DEF Apart
  <2>2. CASE i = n + 1 /\ j \in 1..n
      BY <1>3, <1>5, <2>2
  <2>3. CASE j = n + 1 /\ i \in 1..n
      BY <1>3, <1>5, <2>3
  <2> QED
      BY <1>4, <1>6, <2>1, <2>2, <2>3
<1>7. ASSUME NEW k \in 1..Len(changes), NEW i \in 1..(n + 1)
      PROVE  PrevIn(k)' \cap Deleted(i)' = {} /\ CurrIn(k)' \cap Inserted(i)' = {}
  <2>1. CASE i \in 1..n
      BY <1>0, <1>3, <2>1 DEF Apart
  <2>2. CASE i = n + 1
      BY <1>3, <1>5, <2>2
  <2> QED
      BY <1>4, <2>1, <2>2
<1>8. ASSUME NEW j \in 1..Len(changes), NEW k \in 1..Len(changes), j # k
      PROVE  PrevIn(j)' \cap PrevIn(k)' = {} /\ CurrIn(j)' \cap CurrIn(k)' = {}
    BY <1>3, <1>8 DEF Apart
<1>9. \A i \in 1..(n + 1) : runs'[i].first <= runs'[i].last
    BY <1>1, <1>2, <1>4
<1>10. Apart'
    BY <1>1, <1>2, <1>6, <1>7, <1>8, <1>9 DEF Apart
<1>11. ASSUME NEW p PROVE p \in PrevTaken' <=> p \in PrevTaken \/ p \in D
  <2>1. p \in PrevTaken' <=> \/ \E i \in 1..(n + 1) : p \in Deleted(i)'
                             \/ \E k \in 1..Len(changes) : p \in PrevIn(k)
      BY <1>2, <1>3, TakenFacts
  <2>2. (\E i \in 1..(n + 1) : p \in Deleted(i)') <=> (\E i \in 1..n : p \in Deleted(i)) \/ p \in D
      BY <1>3, <1>4
  <2> QED
      BY <1>0, <2>1, <2>2, TakenFacts
<1>12. ASSUME NEW p PROVE p \in CurrTaken' <=> p \in CurrTaken \/ p \in I
  <2>1. p \in CurrTaken' <=> \/ \E i \in 1..(n + 1) : p \in Inserted(i)'
                             \/ \E k \in 1..Len(changes) : p \in CurrIn(k)
      BY <1>2, <1>3, TakenFacts
  <2>2. (\E i \in 1..(n + 1) : p \in Inserted(i)') <=> (\E i \in 1..n : p \in Inserted(i)) \/ p \in I
      BY <1>3, <1>4
  <2> QED
      BY <1>0, <2>1, <2>2, TakenFacts
<1> QED
    BY <1>10, <1>11, <1>12 DEF D, I

\* What buildChange() makes of a deletion and an insertion.
LEMMA buildChangeFacts ==
    ASSUME Documents, phase # "draft",
           NEW D \in SUBSET (1..Len(prev)), NEW I \in SUBSET (1..Len(curr)), D # {} \/ I # {}
    PROVE  buildChange(D, I) \in Change /\ buildChange(D, I).prevIdx = D /\ buildChange(D, I).currIdx = I
<1> DEFINE node == IF I # {} THEN currIDs[OwnerOf(curr, Min(I))] ELSE prevIDs[OwnerOf(prev, Min(D))]
           cosmetic == isCosmetic(Written(prev, D), Written(curr, I))
<1>1. buildChange(D, I) = [prevIdx |-> D, currIdx |-> I, cosmetic |-> cosmetic, node |-> node]
    BY DEF buildChange
<1>2. cosmetic \in BOOLEAN
    BY DEF isCosmetic
<1>3. IsDocument(prev) /\ IsDocument(curr) /\ prevIDs = IDsOf(prev) /\ currIDs = IDsOf(curr)
    BY DEF Documents
<1>4. Len(prev) \in Nat /\ Len(curr) \in Nat
    BY <1>3, DocumentFacts
<1>5. ASSUME NEW d, IsDocument(d), NEW S \in SUBSET (1..Len(d)), S # {}
      PROVE  IDsOf(d)[OwnerOf(d, Min(S))] \in Seq(Segments)
  <2>1. Len(d) \in Nat
      BY <1>5, DocumentFacts
  <2>2. S \in SUBSET Nat
      BY <2>1
  <2>3. Min(S) \in S
      BY <1>5, <2>2, MinFacts
  <2>4. OwnerOf(d, Min(S)) \in 1..Len(d)
      BY <1>5, <2>3, DocumentFacts
  <2> QED
      BY <1>5, <2>4, NamesFacts
<1>6. node \in Seq(Segments)
    BY <1>3, <1>5
<1>7. D \in SUBSET Nat /\ I \in SUBSET Nat
    BY <1>4
<1> HIDE DEF node, cosmetic
<1> QED
    BY <1>1, <1>2, <1>6, <1>7 DEF Change

\* A step of the loop over the runs: a change takes what one or two runs had.
Consumed(s, D, I) ==
    /\ s \in Nat \ {0} /\ s <= Len(runs)
    /\ \A p : p \in D <=> \E i \in 1..s : p \in Deleted(i)
    /\ \A p : p \in I <=> \E i \in 1..s : p \in Inserted(i)
    /\ D # {} \/ I # {}
    /\ runs' \in Seq(RunType) /\ Len(runs') = Len(runs) - s
    /\ \A i \in 1..(Len(runs) - s) : runs'[i] = runs[i + s]
    /\ changes' = Append(changes, buildChange(D, I))
    /\ phase = "read" /\ UNCHANGED <<docVars, matching, pi, ci, phase>>

\* Every step of that loop is of this kind.
LEMMA ConsumedFacts ==
    ASSUME Apart, PairRewrite \/ SingleRun
    PROVE  \E s, D, I : Consumed(s, D, I)
<1>1. /\ runs \in Seq(RunType) /\ Len(runs) \in Nat
      /\ \A i \in 1..Len(runs) : runs[i] \in RunType /\ runs[i].first <= runs[i].last
    BY SeqFacts DEF Apart
<1>2. \A i \in 1..Len(runs) : Covers(runs[i]) # {}
  <2> TAKE i \in 1..Len(runs)
  <2>1. runs[i].first \in Nat /\ runs[i].last \in Nat /\ runs[i].first <= runs[i].last
      BY <1>1 DEF RunType
  <2>2. runs[i].first \in Covers(runs[i])
      BY <2>1 DEF Covers
  <2> QED
      BY <2>2
<1>3. CASE PairRewrite
  <2> DEFINE D == Covers(runs[1])
             I == Covers(runs[2])
  <2>1. /\ phase = "read" /\ Len(runs) > 1 /\ runs[1].op = "delete" /\ runs[2].op = "insert"
        /\ changes' = Append(changes, buildChange(D, I)) /\ runs' = Tail(Tail(runs))
        /\ UNCHANGED <<docVars, matching, pi, ci, phase>>
      BY <1>3 DEF PairRewrite, PairsUp
  <2>2. 1 \in 1..Len(runs) /\ 2 \in 1..Len(runs) /\ runs # <<>> /\ \A i \in 1..2 : i = 1 \/ i = 2
      BY <1>1, <2>1
  <2>3. Deleted(1) = D /\ Deleted(2) = {} /\ Inserted(1) = {} /\ Inserted(2) = I /\ D # {}
      BY <1>2, <2>1, <2>2 DEF Deleted, Inserted
  <2>4. /\ Tail(runs) \in Seq(RunType) /\ Len(Tail(runs)) = Len(runs) - 1
        /\ \A i \in 1..(Len(runs) - 1) : Tail(runs)[i] = runs[i + 1]
      BY <1>1, <2>2, HeadTailProperties
  <2>5. Tail(runs) # <<>>
      BY <1>1, <2>1, <2>4
  <2>6. /\ runs' \in Seq(RunType) /\ Len(runs') = Len(runs) - 1 - 1
        /\ \A i \in 1..(Len(runs) - 1 - 1) : runs'[i] = Tail(runs)[i + 1]
    <3> DEFINE t == Tail(runs)
    <3> HIDE DEF t
    <3>1. Tail(t) \in Seq(RunType) /\ Len(Tail(t)) = Len(t) - 1 /\ \A i \in 1..Len(Tail(t)) : Tail(t)[i] = t[i + 1]
        BY <2>4, <2>5, HeadTailProperties DEF t
    <3> QED
        BY <2>1, <2>4, <3>1 DEF t
  <2>7. \A i \in 1..(Len(runs) - 2) : runs'[i] = runs[i + 2]
    <3> TAKE i \in 1..(Len(runs) - 2)
    <3>1. i \in 1..(Len(runs) - 1 - 1) /\ i + 1 \in 1..(Len(runs) - 1) /\ (i + 1) + 1 = i + 2
        BY <1>1
    <3> QED
        BY <2>4, <2>6, <3>1
  <2> HIDE DEF D, I
  <2>8. /\ \A p : p \in D <=> \E i \in 1..2 : p \in Deleted(i)
        /\ \A p : p \in I <=> \E i \in 1..2 : p \in Inserted(i)
      BY <2>2, <2>3
  <2>9. Len(runs) - 1 - 1 = Len(runs) - 2 /\ 2 <= Len(runs)
      BY <1>1, <2>1
  <2>10. Consumed(2, D, I)
      BY <2>1, <2>3, <2>6, <2>7, <2>8, <2>9 DEF Consumed
  <2> QED
      BY <2>10
<1>4. CASE SingleRun
  <2> DEFINE D == Deleted(1)
             I == Inserted(1)
  <2>1. /\ phase = "read" /\ runs # <<>> /\ runs' = Tail(runs)
        /\ UNCHANGED <<docVars, matching, pi, ci, phase>>
      BY <1>4 DEF SingleRun
  <2>2. 1 \in 1..Len(runs) /\ 1 <= Len(runs)
      BY <1>1, <2>1, EmptySeq
  <2>3. runs[1].op \in {"delete", "insert"}
      BY <1>1, <2>2 DEF RunType
  <2>4. changes' = Append(changes, buildChange(D, I)) /\ (D # {} \/ I # {})
      BY <1>2, <1>4, <2>2, <2>3 DEF SingleRun, Deleted, Inserted
  <2>5. /\ runs' \in Seq(RunType) /\ Len(runs') = Len(runs) - 1
        /\ \A i \in 1..(Len(runs) - 1) : runs'[i] = runs[i + 1]
      BY <1>1, <2>1, HeadTailProperties
  <2> HIDE DEF D, I
  <2>6. \A i \in 1..1 : i = 1
      OBVIOUS
  <2>7. /\ \A p : p \in D <=> \E i \in 1..1 : p \in Deleted(i)
        /\ \A p : p \in I <=> \E i \in 1..1 : p \in Inserted(i)
      BY <2>6 DEF D, I
  <2>8. Consumed(1, D, I)
      BY <2>1, <2>2, <2>4, <2>5, <2>7 DEF Consumed
  <2> QED
      BY <2>8
<1> QED
    BY <1>3, <1>4

\* It keeps everything apart, and what is taken stays taken.
LEMMA ConsumedKeeps ==
    ASSUME Documents, Alignment, Apart, Passed, NEW s, NEW D, NEW I, Consumed(s, D, I)
    PROVE  /\ Apart'
           /\ \A p : p \in PrevTaken' <=> p \in PrevTaken
           /\ \A p : p \in CurrTaken' <=> p \in CurrTaken
<1>1. PICK n, m, c : n = Len(runs) /\ m = Len(changes) /\ c = buildChange(D, I)
    OBVIOUS
<1>2. /\ runs \in Seq(RunType) /\ changes \in Seq(Change) /\ n \in Nat /\ m \in Nat
      /\ \A i \in 1..n : runs[i].first <= runs[i].last
    BY <1>1, LenProperties DEF Apart
<1>3. /\ s \in Nat \ {0} /\ s <= n
      /\ \A p : p \in D <=> \E i \in 1..s : p \in Deleted(i)
      /\ \A p : p \in I <=> \E i \in 1..s : p \in Inserted(i)
      /\ D # {} \/ I # {}
      /\ runs' \in Seq(RunType) /\ Len(runs') = n - s
      /\ \A i \in 1..(n - s) : runs'[i] = runs[i + s]
      /\ changes' = Append(changes, c) /\ phase = "read"
    BY <1>1 DEF Consumed
<1>4. /\ \A i \in 1..s : i \in 1..n
      /\ \A i \in 1..(n - s) : i + s \in 1..n /\ i + s \notin 1..s
      /\ \A i \in 1..n : i \in 1..s \/ (i - s \in 1..(n - s) /\ (i - s) + s = i)
      /\ \A i, j \in 1..(n - s) : i # j => i + s # j + s
      /\ \A k \in 1..m : k \in 1..(m + 1) /\ k # m + 1
      /\ \A k \in 1..(m + 1) : k \in 1..m \/ k = m + 1
      /\ m + 1 \in 1..(m + 1)
  <2>1. n \in Nat /\ m \in Nat /\ s \in Nat /\ 1 <= s /\ s <= n
      BY <1>2, <1>3
  <2>2. /\ \A i \in 1..s : i \in 1..n
        /\ \A i \in 1..(n - s) : i + s \in 1..n /\ i + s \notin 1..s
      BY <2>1
  <2>3. /\ \A i \in 1..n : i \in 1..s \/ (i - s \in 1..(n - s) /\ (i - s) + s = i)
        /\ \A i, j \in 1..(n - s) : i # j => i + s # j + s
      BY <2>1
  <2>4. /\ \A k \in 1..m : k \in 1..(m + 1) /\ k # m + 1
        /\ \A k \in 1..(m + 1) : k \in 1..m \/ k = m + 1
        /\ m + 1 \in 1..(m + 1)
      BY <2>1
  <2> QED
      BY <2>2, <2>3, <2>4
<1>5. c \in Change /\ c.prevIdx = D /\ c.currIdx = I
  <2>1. \A p \in D : p \in PrevTaken
      BY <1>1, <1>3, <1>4, TakenFacts
  <2>2. \A p \in I : p \in CurrTaken
      BY <1>1, <1>3, <1>4, TakenFacts
  <2>3. Len(prev) \in Nat /\ Len(curr) \in Nat /\ pi \in 1..(Len(prev) + 1) /\ ci \in 1..(Len(curr) + 1)
      BY NextEqualFacts DEF Alignment
  <2>4. PrevTaken \subseteq 1..(pi - 1) /\ CurrTaken \subseteq 1..(ci - 1)
      BY DEF Passed
  <2>5. D \in SUBSET (1..Len(prev))
    <3>1. \A p \in 1..(pi - 1) : p \in 1..Len(prev)
        BY <2>3
    <3>2. \A p \in D : p \in 1..Len(prev)
        BY <2>1, <2>4, <3>1
    <3> QED
        BY <3>2
  <2>6. I \in SUBSET (1..Len(curr))
    <3>1. \A p \in 1..(ci - 1) : p \in 1..Len(curr)
        BY <2>3
    <3>2. \A p \in I : p \in 1..Len(curr)
        BY <2>2, <2>4, <3>1
    <3> QED
        BY <3>2
  <2>7. phase # "draft"
      BY <1>3
  <2> QED
      BY <1>1, <1>3, <2>5, <2>6, <2>7, buildChangeFacts
<1>6. /\ changes' \in Seq(Change) /\ Len(changes') = m + 1 /\ changes'[m + 1] = c
      /\ \A k \in 1..m : changes'[k] = changes[k]
    BY <1>1, <1>2, <1>3, <1>5, AppendFacts
<1>7. /\ \A i \in 1..(n - s) : Deleted(i)' = Deleted(i + s) /\ Inserted(i)' = Inserted(i + s)
      /\ \A k \in 1..m : PrevIn(k)' = PrevIn(k) /\ CurrIn(k)' = CurrIn(k)
      /\ PrevIn(m + 1)' = D /\ CurrIn(m + 1)' = I
    BY <1>3, <1>5, <1>6 DEF Deleted, Inserted, Covers, PrevIn, CurrIn
<1>8. /\ \A i, j \in 1..n : i # j => Deleted(i) \cap Deleted(j) = {} /\ Inserted(i) \cap Inserted(j) = {}
      /\ \A k \in 1..m, i \in 1..n : PrevIn(k) \cap Deleted(i) = {} /\ CurrIn(k) \cap Inserted(i) = {}
      /\ \A j, k \in 1..m : j # k => PrevIn(j) \cap PrevIn(k) = {} /\ CurrIn(j) \cap CurrIn(k) = {}
    BY <1>1 DEF Apart
<1>9. ASSUME NEW i \in 1..(n - s), NEW j \in 1..(n - s), i # j
      PROVE  Deleted(i)' \cap Deleted(j)' = {} /\ Inserted(i)' \cap Inserted(j)' = {}
    BY <1>4, <1>7, <1>8, <1>9
<1>10. ASSUME NEW k \in 1..(m + 1), NEW i \in 1..(n - s)
       PROVE  PrevIn(k)' \cap Deleted(i)' = {} /\ CurrIn(k)' \cap Inserted(i)' = {}
  <2>1. CASE k \in 1..m
      BY <1>4, <1>7, <1>8, <2>1
  <2>2. CASE k = m + 1
    <3>1. \A j \in 1..s : /\ Deleted(j) \cap Deleted(i + s) = {}
                          /\ Inserted(j) \cap Inserted(i + s) = {}
        BY <1>4, <1>8
    <3>2. D \cap Deleted(i + s) = {} /\ I \cap Inserted(i + s) = {}
        BY <1>3, <3>1
    <3> QED
        BY <1>7, <2>2, <3>2
  <2> QED
      BY <1>4, <2>1, <2>2
<1>11. \A k \in 1..m : PrevIn(k) \cap D = {} /\ CurrIn(k) \cap I = {}
    BY <1>3, <1>4, <1>8
<1>12. ASSUME NEW j \in 1..(m + 1), NEW k \in 1..(m + 1), j # k
       PROVE  PrevIn(j)' \cap PrevIn(k)' = {} /\ CurrIn(j)' \cap CurrIn(k)' = {}
  <2>1. CASE j \in 1..m /\ k \in 1..m
      BY <1>7, <1>8, <1>12, <2>1
  <2>2. CASE j \in 1..m /\ k = m + 1
      BY <1>7, <1>11, <2>2
  <2>3. CASE j = m + 1 /\ k \in 1..m
      BY <1>7, <1>11, <2>3
  <2> QED
      BY <1>4, <1>12, <2>1, <2>2, <2>3
<1>13. \A i \in 1..(n - s) : runs'[i].first <= runs'[i].last
    BY <1>2, <1>3, <1>4
<1>14. Apart'
    BY <1>3, <1>6, <1>9, <1>10, <1>12, <1>13 DEF Apart
<1>15. ASSUME NEW p PROVE p \in PrevTaken' <=> p \in PrevTaken
  <2>1. p \in PrevTaken' <=> (\E i \in 1..(n - s) : p \in Deleted(i)') \/ (\E k \in 1..(m + 1) : p \in PrevIn(k)')
      BY <1>3, <1>6, TakenFacts
  <2>2. (\E k \in 1..(m + 1) : p \in PrevIn(k)') <=> (\E k \in 1..m : p \in PrevIn(k)) \/ p \in D
      BY <1>4, <1>7
  <2>3. (\E i \in 1..(n - s) : p \in Deleted(i)') <=> \E i \in 1..(n - s) : p \in Deleted(i + s)
      BY <1>7
  <2>4. (\E i \in 1..n : p \in Deleted(i)) <=> (\E i \in 1..(n - s) : p \in Deleted(i + s)) \/ p \in D
    <3>1. ASSUME NEW i \in 1..n, p \in Deleted(i) PROVE (\E j \in 1..(n - s) : p \in Deleted(j + s)) \/ p \in D
        BY <1>3, <1>4, <3>1
    <3>2. ASSUME p \in D PROVE \E i \in 1..n : p \in Deleted(i)
        BY <1>3, <1>4, <3>2
    <3>3. ASSUME NEW i \in 1..(n - s), p \in Deleted(i + s) PROVE \E j \in 1..n : p \in Deleted(j)
        BY <1>4, <3>3
    <3> QED
        BY <3>1, <3>2, <3>3
  <2>5. p \in PrevTaken <=> (\E i \in 1..n : p \in Deleted(i)) \/ (\E k \in 1..m : p \in PrevIn(k))
      BY <1>1, TakenFacts
  <2> QED
      BY <2>1, <2>2, <2>3, <2>4, <2>5
<1>16. ASSUME NEW p PROVE p \in CurrTaken' <=> p \in CurrTaken
  <2>1. p \in CurrTaken' <=> (\E i \in 1..(n - s) : p \in Inserted(i)') \/ (\E k \in 1..(m + 1) : p \in CurrIn(k)')
      BY <1>3, <1>6, TakenFacts
  <2>2. (\E k \in 1..(m + 1) : p \in CurrIn(k)') <=> (\E k \in 1..m : p \in CurrIn(k)) \/ p \in I
      BY <1>4, <1>7
  <2>3. (\E i \in 1..(n - s) : p \in Inserted(i)') <=> \E i \in 1..(n - s) : p \in Inserted(i + s)
      BY <1>7
  <2>4. (\E i \in 1..n : p \in Inserted(i)) <=> (\E i \in 1..(n - s) : p \in Inserted(i + s)) \/ p \in I
    <3>1. ASSUME NEW i \in 1..n, p \in Inserted(i) PROVE (\E j \in 1..(n - s) : p \in Inserted(j + s)) \/ p \in I
        BY <1>3, <1>4, <3>1
    <3>2. ASSUME p \in I PROVE \E i \in 1..n : p \in Inserted(i)
        BY <1>3, <1>4, <3>2
    <3>3. ASSUME NEW i \in 1..(n - s), p \in Inserted(i + s) PROVE \E j \in 1..n : p \in Inserted(j)
        BY <1>4, <3>3
    <3> QED
        BY <3>1, <3>2, <3>3
  <2>5. p \in CurrTaken <=> (\E i \in 1..n : p \in Inserted(i)) \/ (\E k \in 1..m : p \in CurrIn(k))
      BY <1>1, TakenFacts
  <2> QED
      BY <2>1, <2>2, <2>3, <2>4, <2>5
<1> QED
    BY <1>14, <1>15, <1>16

\* Only blank paragraphs are lost when changes are dropped.
LEMMA DropBlankFacts ==
    ASSUME Apart, DropBlank
    PROVE  /\ Apart'
           /\ \A p : p \in PrevTaken' => p \in PrevTaken
           /\ \A p : p \in CurrTaken' => p \in CurrTaken
           /\ \A p : p \in PrevTaken => p \in PrevTaken' \/ prev[p] = Blank
           /\ \A p : p \in CurrTaken => p \in CurrTaken' \/ curr[p] = Blank
<1>1. PICK m : m = Len(changes)
    OBVIOUS
<1>2. PICK K : K = {k \in DOMAIN changes : SaysSomething(changes[k])}
    OBVIOUS
<1>3. PICK kept : kept = Ascending(K)
    OBVIOUS
<1>4. /\ changes \in Seq(Change) /\ m \in Nat /\ DOMAIN changes = 1..m
      /\ \A k \in 1..m : changes[k] \in Change
    BY <1>1, SeqFacts DEF Apart
<1>5. runs = <<>> /\ runs' = <<>> /\ changes' = [k \in DOMAIN kept |-> changes[kept[k]]]
    BY <1>2, <1>3 DEF DropBlank
<1>6. Len(runs) = 0 /\ Len(runs') = 0 /\ runs' \in Seq(RunType) /\ \A i : i \notin 1..0
    BY <1>5
<1>7. K \in SUBSET (1..m) /\ K \in SUBSET Nat /\ IsFiniteSet(K)
  <2>1. K \in SUBSET (1..m)
      BY <1>2, <1>4
  <2>2. IsFiniteSet(1..m)
      BY <1>4, FS_Interval
  <2>3. IsFiniteSet(K)
      BY <2>1, <2>2, FS_Subset
  <2>4. \A k \in K : k \in Nat
      BY <1>4, <2>1
  <2> QED
      BY <2>1, <2>3, <2>4
<1>8. /\ kept \in Seq(K)
      /\ \A x \in K : \E k \in 1..Len(kept) : kept[k] = x
      /\ \A j, k \in 1..Len(kept) : kept[j] = kept[k] => j = k
    BY <1>3, <1>7, AscendingFacts
<1>9. DOMAIN kept = 1..Len(kept) /\ Len(kept) \in Nat /\ \A k \in 1..Len(kept) : kept[k] \in K /\ kept[k] \in 1..m
    BY <1>7, <1>8, SeqFacts
<1>10. /\ changes' \in [1..Len(kept) -> Change] /\ \A k \in 1..Len(kept) : changes'[k] = changes[kept[k]]
    BY <1>4, <1>5, <1>9
<1>11. changes' \in Seq(Change) /\ Len(changes') = Len(kept)
    BY <1>9, <1>10, SeqDef, LenProperties
<1>12. \A k \in 1..Len(kept) : PrevIn(k)' = PrevIn(kept[k]) /\ CurrIn(k)' = CurrIn(kept[k])
    BY <1>10 DEF PrevIn, CurrIn
<1>13. \A j, k \in 1..m : j # k => PrevIn(j) \cap PrevIn(k) = {} /\ CurrIn(j) \cap CurrIn(k) = {}
    BY <1>1 DEF Apart
<1>14. ASSUME NEW j \in 1..Len(kept), NEW k \in 1..Len(kept), j # k
       PROVE  PrevIn(j)' \cap PrevIn(k)' = {} /\ CurrIn(j)' \cap CurrIn(k)' = {}
  <2>1. kept[j] \in 1..m /\ kept[k] \in 1..m /\ kept[j] # kept[k]
      BY <1>8, <1>9, <1>14
  <2> QED
      BY <1>12, <1>13, <2>1
<1>15. Apart'
    BY <1>6, <1>11, <1>14 DEF Apart
<1>16. /\ \A p : p \in PrevTaken <=> \E k \in 1..m : p \in PrevIn(k)
       /\ \A p : p \in CurrTaken <=> \E k \in 1..m : p \in CurrIn(k)
    BY <1>1, <1>6, TakenFacts
<1>17. /\ \A p : p \in PrevTaken' <=> \E k \in 1..Len(kept) : p \in PrevIn(kept[k])
       /\ \A p : p \in CurrTaken' <=> \E k \in 1..Len(kept) : p \in CurrIn(kept[k])
    BY <1>6, <1>11, <1>12, TakenFacts
<1>18. \A k \in (1..m) \ K : /\ \A p \in PrevIn(k) : prev[p] = Blank
                             /\ \A p \in CurrIn(k) : curr[p] = Blank
    BY <1>2, <1>4 DEF SaysSomething, PrevIn, CurrIn
<1>19. ASSUME NEW p, p \in PrevTaken PROVE p \in PrevTaken' \/ prev[p] = Blank
  <2>1. PICK k \in 1..m : p \in PrevIn(k)
      BY <1>16, <1>19
  <2> QED
      BY <1>8, <1>17, <1>18, <2>1
<1>20. ASSUME NEW p, p \in CurrTaken PROVE p \in CurrTaken' \/ curr[p] = Blank
  <2>1. PICK k \in 1..m : p \in CurrIn(k)
      BY <1>16, <1>20
  <2> QED
      BY <1>8, <1>17, <1>18, <2>1
<1>21. (\A p : p \in PrevTaken' => p \in PrevTaken) /\ (\A p : p \in CurrTaken' => p \in CurrTaken)
    BY <1>9, <1>16, <1>17
<1> QED
    BY <1>15, <1>19, <1>20, <1>21

\* What is apart and passed does not change while the runs and changes do not.
LEMMA RunsAndChangesKept ==
    ASSUME Apart, runs' = runs, changes' = changes
    PROVE  /\ Apart'
           /\ \A p : p \in PrevTaken' <=> p \in PrevTaken
           /\ \A p : p \in CurrTaken' <=> p \in CurrTaken
<1>1. \A k : /\ Deleted(k)' = Deleted(k) /\ Inserted(k)' = Inserted(k)
             /\ PrevIn(k)' = PrevIn(k) /\ CurrIn(k)' = CurrIn(k)
    BY DEF Deleted, Inserted, Covers, PrevIn, CurrIn
<1>2. Apart'
    BY <1>1 DEF Apart
<1> QED
    BY <1>1, <1>2, TakenFacts

\* A deletion and an insertion as they are read.
LEMMA RunFacts ==
    ASSUME NEW op \in {"delete", "insert"}, NEW a \in Nat, NEW b \in Nat, a < b
    PROVE  /\ Run(op, a, b - a) \in RunType /\ Run(op, a, b - a).op = op
           /\ Run(op, a, b - a).first <= Run(op, a, b - a).last
           /\ Covers(Run(op, a, b - a)) = a..(b - 1)
    BY DEF Run, RunType, Covers

\* A matched pair of paragraphs is passed and not taken.
LEMMA ReadEqualChanges ==
    ASSUME Documents, Alignment, Apart, Passed, ReadEqual
    PROVE  Apart' /\ Passed'
<1>1. /\ phase = "read" /\ ~AllRead /\ NextEqual = <<pi, ci>> /\ pi' = pi + 1 /\ ci' = ci + 1
      /\ prev' = prev /\ curr' = curr /\ matching' = matching /\ phase' = phase
      /\ runs' = runs /\ changes' = changes
    BY DEF ReadEqual, docVars
<1>2. <<pi, ci>> \in matching
    BY <1>1, NextEqualFacts DEF AllRead
<1>3. Apart' /\ (\A p : p \in PrevTaken' <=> p \in PrevTaken) /\ (\A p : p \in CurrTaken' <=> p \in CurrTaken)
    BY <1>1, RunsAndChangesKept
<1>4. pi \in Nat \ {0} /\ ci \in Nat \ {0}
    BY DocumentFacts DEF Alignment, Documents
<1>5. /\ \A p \in 1..(pi - 1) : p \in 1..(pi' - 1)
      /\ \A p \in 1..(pi' - 1) : p \in 1..(pi - 1) \/ p = pi
      /\ \A p \in 1..(ci - 1) : p \in 1..(ci' - 1)
      /\ \A p \in 1..(ci' - 1) : p \in 1..(ci - 1) \/ p = ci
    BY <1>1, <1>4
<1>6. PrevTaken' \subseteq 1..(pi' - 1) /\ CurrTaken' \subseteq 1..(ci' - 1)
    BY <1>3, <1>5 DEF Passed
<1>7. \A m \in matching' : m[1] \notin PrevTaken' /\ m[2] \notin CurrTaken'
    BY <1>1, <1>3 DEF Passed
<1>8. ASSUME NEW p \in 1..(pi' - 1) PROVE p \in PrevTaken' \/ \E m \in matching' : m[1] = p
  <2>1. CASE p = pi
      BY <1>1, <1>2, <2>1
  <2>2. CASE p \in 1..(pi - 1)
      BY <1>1, <1>3, <2>2 DEF Passed
  <2> QED
      BY <1>5, <2>1, <2>2
<1>9. ASSUME NEW p \in 1..(ci' - 1) PROVE p \in CurrTaken' \/ \E m \in matching' : m[2] = p
  <2>1. CASE p = ci
      BY <1>1, <1>2, <2>1
  <2>2. CASE p \in 1..(ci - 1)
      BY <1>1, <1>3, <2>2 DEF Passed
  <2> QED
      BY <1>5, <2>1, <2>2
<1> QED
    BY <1>1, <1>3, <1>6, <1>7, <1>8, <1>9 DEF Passed

\* A deletion takes the paragraphs of the old version up to the next match.
LEMMA ReadDeleteChanges ==
    ASSUME Documents, Alignment, Apart, Passed, ReadDelete
    PROVE  Apart' /\ Passed'
<1>1. PICK e, r : e = NextEqual[1] /\ r = Run("delete", pi, e - pi)
    OBVIOUS
<1>2. /\ phase = "read" /\ pi < e /\ pi' = e /\ ci' = ci /\ runs' = Append(runs, r)
      /\ prev' = prev /\ curr' = curr /\ matching' = matching /\ phase' = phase /\ changes' = changes
    BY <1>1 DEF ReadDelete, docVars
<1>3. /\ pi \in Nat \ {0} /\ e \in Nat
      /\ \A m \in matching : m[1] \in Nat /\ (pi <= m[1] => e <= m[1])
  <2>1. /\ Len(prev) \in Nat /\ pi \in 1..(Len(prev) + 1) /\ e \in pi..(Len(prev) + 1)
        /\ \A m \in matching : m[1] \in 1..Len(prev) /\ (pi <= m[1] => e <= m[1])
      BY <1>1, NextEqualFacts DEF Alignment
  <2> QED
      BY <2>1
<1>4. r \in RunType /\ r.op = "delete" /\ r.first <= r.last /\ Covers(r) = pi..(e - 1)
    BY <1>1, <1>2, <1>3, RunFacts
<1>5. Covers(r) \cap PrevTaken = {}
    BY <1>3, <1>4 DEF Passed
<1>6. /\ Apart'
      /\ \A p : p \in PrevTaken' <=> p \in PrevTaken \/ p \in Covers(r)
      /\ \A p : p \in CurrTaken' <=> p \in CurrTaken
    BY <1>2, <1>4, <1>5, RunAppendedFacts
<1>7. /\ \A p \in 1..(pi - 1) : p \in 1..(e - 1)
      /\ \A p \in Covers(r) : p \in 1..(e - 1)
      /\ \A p \in 1..(e - 1) : p \in 1..(pi - 1) \/ p \in Covers(r)
    BY <1>2, <1>3, <1>4
<1>8. PrevTaken' \subseteq 1..(pi' - 1) /\ CurrTaken' \subseteq 1..(ci' - 1)
    BY <1>2, <1>6, <1>7 DEF Passed
<1>9. ASSUME NEW m \in matching PROVE m[1] \notin PrevTaken' /\ m[2] \notin CurrTaken'
  <2>1. m[1] \notin Covers(r)
      BY <1>3, <1>4
  <2> QED
      BY <1>6, <2>1 DEF Passed
<1>10. ASSUME NEW p \in 1..(pi' - 1) PROVE p \in PrevTaken' \/ \E m \in matching' : m[1] = p
    BY <1>2, <1>6, <1>7 DEF Passed
<1>11. ASSUME NEW p \in 1..(ci' - 1) PROVE p \in CurrTaken' \/ \E m \in matching' : m[2] = p
    BY <1>2, <1>6 DEF Passed
<1> QED
    BY <1>2, <1>6, <1>8, <1>9, <1>10, <1>11 DEF Passed

\* An insertion takes those of the new version.
LEMMA ReadInsertChanges ==
    ASSUME Documents, Alignment, Apart, Passed, ReadInsert
    PROVE  Apart' /\ Passed'
<1>1. PICK e, r : e = NextEqual[2] /\ r = Run("insert", ci, e - ci)
    OBVIOUS
<1>2. /\ phase = "read" /\ ci < e /\ pi' = pi /\ ci' = e /\ runs' = Append(runs, r)
      /\ prev' = prev /\ curr' = curr /\ matching' = matching /\ phase' = phase /\ changes' = changes
    BY <1>1 DEF ReadInsert, docVars
<1>3. /\ ci \in Nat \ {0} /\ e \in Nat
      /\ \A m \in matching : m[2] \in Nat /\ (ci <= m[2] => e <= m[2])
  <2>1. /\ Len(curr) \in Nat /\ ci \in 1..(Len(curr) + 1) /\ e \in ci..(Len(curr) + 1)
        /\ \A m \in matching : m[2] \in 1..Len(curr) /\ (ci <= m[2] => e <= m[2])
      BY <1>1, NextEqualFacts DEF Alignment
  <2> QED
      BY <2>1
<1>4. r \in RunType /\ r.op = "insert" /\ r.first <= r.last /\ Covers(r) = ci..(e - 1)
    BY <1>1, <1>2, <1>3, RunFacts
<1>5. Covers(r) \cap CurrTaken = {}
    BY <1>3, <1>4 DEF Passed
<1>6. /\ Apart'
      /\ \A p : p \in CurrTaken' <=> p \in CurrTaken \/ p \in Covers(r)
      /\ \A p : p \in PrevTaken' <=> p \in PrevTaken
    BY <1>2, <1>4, <1>5, RunAppendedFacts
<1>7. /\ \A p \in 1..(ci - 1) : p \in 1..(e - 1)
      /\ \A p \in Covers(r) : p \in 1..(e - 1)
      /\ \A p \in 1..(e - 1) : p \in 1..(ci - 1) \/ p \in Covers(r)
    BY <1>2, <1>3, <1>4
<1>8. PrevTaken' \subseteq 1..(pi' - 1) /\ CurrTaken' \subseteq 1..(ci' - 1)
    BY <1>2, <1>6, <1>7 DEF Passed
<1>9. ASSUME NEW m \in matching PROVE m[1] \notin PrevTaken' /\ m[2] \notin CurrTaken'
  <2>1. m[2] \notin Covers(r)
      BY <1>3, <1>4
  <2> QED
      BY <1>6, <2>1 DEF Passed
<1>10. ASSUME NEW p \in 1..(pi' - 1) PROVE p \in PrevTaken' \/ \E m \in matching' : m[1] = p
    BY <1>2, <1>6 DEF Passed
<1>11. ASSUME NEW p \in 1..(ci' - 1) PROVE p \in CurrTaken' \/ \E m \in matching' : m[2] = p
    BY <1>2, <1>6, <1>7 DEF Passed
<1> QED
    BY <1>2, <1>6, <1>8, <1>9, <1>10, <1>11 DEF Passed

\* The changes stay apart, and everything that is passed is matched or taken.
LEMMA ChangesStep ==
    ASSUME Documents, Alignment, Apart, Passed, [Next]_vars
    PROVE  Apart' /\ Passed'
<1>1. CASE Revise \/ Align
  <2>1. /\ phase = "draft" /\ phase' \in {"draft", "read"} /\ runs' = runs /\ changes' = changes
        /\ pi' = pi /\ ci' = ci
      BY <1>1 DEF Revise, Align, diffVars
  <2>2. pi = 1 /\ ci = 1 /\ runs = <<>> /\ changes = <<>>
      BY <2>1 DEF Alignment
  <2>3. Apart' /\ (\A p : p \in PrevTaken' <=> p \in PrevTaken) /\ (\A p : p \in CurrTaken' <=> p \in CurrTaken)
      BY <2>1, RunsAndChangesKept
  <2>4. \A p : p \notin 1..(pi - 1) /\ p \notin 1..(ci - 1)
      BY <2>2
  <2>5. PrevTaken \subseteq 1..(pi - 1) /\ CurrTaken \subseteq 1..(ci - 1)
      BY DEF Passed
  <2>6. \A p : p \notin PrevTaken' /\ p \notin CurrTaken'
      BY <2>3, <2>4, <2>5
  <2> QED
      BY <2>1, <2>3, <2>4, <2>6 DEF Passed
<1>2. CASE ReadEqual
    BY <1>2, ReadEqualChanges
<1>3. CASE ReadDelete
    BY <1>3, ReadDeleteChanges
<1>4. CASE ReadInsert
    BY <1>4, ReadInsertChanges
<1>5. CASE PairRewrite \/ SingleRun
  <2>1. PICK s, D, I : Consumed(s, D, I)
      BY <1>5, ConsumedFacts
  <2>2. Apart' /\ (\A p : p \in PrevTaken' <=> p \in PrevTaken) /\ (\A p : p \in CurrTaken' <=> p \in CurrTaken)
      BY <2>1, ConsumedKeeps
  <2>3. /\ phase = "read" /\ phase' = phase /\ prev' = prev /\ curr' = curr /\ matching' = matching
        /\ pi' = pi /\ ci' = ci
      BY <2>1 DEF Consumed, docVars
  <2> QED
      BY <2>2, <2>3 DEF Passed
<1>6. CASE DropBlank
  <2>1. /\ Apart'
        /\ \A p : p \in PrevTaken' => p \in PrevTaken
        /\ \A p : p \in CurrTaken' => p \in CurrTaken
        /\ \A p : p \in PrevTaken => p \in PrevTaken' \/ prev[p] = Blank
        /\ \A p : p \in CurrTaken => p \in CurrTaken' \/ curr[p] = Blank
      BY <1>6, DropBlankFacts
  <2>2. /\ phase = "read" /\ phase' = "compared" /\ prev' = prev /\ curr' = curr /\ matching' = matching
        /\ pi' = pi /\ ci' = ci /\ runs' = <<>>
      BY <1>6 DEF DropBlank, docVars
  <2>3. /\ \A p \in 1..(pi - 1) : p \in PrevTaken \/ \E m \in matching : m[1] = p
        /\ \A p \in 1..(ci - 1) : p \in CurrTaken \/ \E m \in matching : m[2] = p
        /\ PrevTaken \subseteq 1..(pi - 1) /\ CurrTaken \subseteq 1..(ci - 1)
        /\ \A m \in matching : m[1] \notin PrevTaken /\ m[2] \notin CurrTaken
      BY <2>2 DEF Passed
  <2>4. /\ \A p \in 1..(pi' - 1) : p \in PrevTaken' \/ (\E m \in matching' : m[1] = p) \/ prev'[p] = Blank'
        /\ \A p \in 1..(ci' - 1) : p \in CurrTaken' \/ (\E m \in matching' : m[2] = p) \/ curr'[p] = Blank'
      BY <2>1, <2>2, <2>3 DEF Blank
  <2> QED
      BY <2>1, <2>2, <2>3, <2>4 DEF Passed
<1>7. CASE UNCHANGED <<prev, curr, matching, pi, ci, runs, changes>>
           /\ (phase' \in {"draft", "read"} <=> phase \in {"draft", "read"})
  <2>1. Apart' /\ (\A p : p \in PrevTaken' <=> p \in PrevTaken) /\ (\A p : p \in CurrTaken' <=> p \in CurrTaken)
      BY <1>7, RunsAndChangesKept
  <2>2. Blank' = Blank
      BY DEF Blank
  <2> QED
      BY <1>7, <2>1, <2>2 DEF Passed
<1>8. CASE RefNext /\ UNCHANGED <<unfiled, views, warnings>>
    BY <1>7, <1>8 DEF RefNext, AddNumberingFinding, CompareReferences, AtCitation, SkipResolved, ReportDangling,
        ReportBroken, ReportRemoved, docVars, diffVars
<1>9. CASE BuildView \/ FileWarning \/ FileUnderChange \/ Show
    BY <1>7, <1>9 DEF BuildView, AtFinding, FileWarning, FileUnderChange, Show, docVars, diffVars
<1>10. CASE UNCHANGED vars
    BY <1>7, <1>10 DEF vars, docVars, diffVars
<1> QED
    BY <1>1, <1>2, <1>3, <1>4, <1>5, <1>6, <1>8, <1>9, <1>10 DEF Next, DiffNext

-----------------------------------------------------------------------------
(* Findings and their reasons.                                             *)

\* What the rules look at does not change while the documents and their names do not.
LEMMA SameDocuments ==
    ASSUME prev' = prev, curr' = curr, prevIDs' = prevIDs, currIDs' = currIDs
    PROVE  /\ ReferencesOf(curr)' = ReferencesOf(curr)
           /\ \A t : findRelocation(t)' = findRelocation(t)
           /\ \A r : Lost(r)' <=> Lost(r)
           /\ \A i : Gone(i)' <=> Gone(i)
           /\ \A f : /\ OfNumbering(f)' <=> OfNumbering(f)
                     /\ OfCitation(f)' <=> OfCitation(f)
                     /\ OfRemoval(f)' <=> OfRemoval(f)
<1>1. ReferencesOf(curr)' = ReferencesOf(curr)
    OBVIOUS
<1>2. ASSUME NEW t PROVE findRelocation(t)' = findRelocation(t)
    BY DEF findRelocation
<1>3. ASSUME NEW r PROVE Lost(r)' <=> Lost(r)
    BY DEF Lost
<1>4. ASSUME NEW i PROVE Gone(i)' <=> Gone(i)
    BY DEF Gone
<1>5. ASSUME NEW f PROVE OfNumbering(f)' <=> OfNumbering(f)
    BY DEF OfNumbering
<1>6. ASSUME NEW f PROVE OfCitation(f)' <=> OfCitation(f)
  <2> DEFINE Why(r) ==
               /\ f.para = r.para /\ (f.severity = "critical" => Lost(r.cite))
               /\ f.category = "broken" => \A a \in f.actions : a.type = "manual_review"
               /\ f.category = "shifted" =>
                    /\ f.node = findRelocation(TargetID(r.cite)) /\ f.node # <<>>
                    /\ f.actions = repointAction(r, f.node)
             cites == ToSet(ReferencesOf(curr))
  <2>1. cites' = cites
      BY <1>1
  <2>2. ASSUME NEW r PROVE Why(r)' <=> Why(r)
      BY <1>2, <1>3
  <2>3. /\ OfCitation(f) <=> f.category \in {"broken", "shifted"} /\ f.side = "curr" /\ \E r \in cites : Why(r)
        /\ OfCitation(f)' <=> f.category \in {"broken", "shifted"} /\ f.side = "curr" /\ \E r \in cites' : Why(r)'
      BY DEF OfCitation
  <2> HIDE DEF Why, cites
  <2> QED
      BY <2>1, <2>2, <2>3
<1>7. ASSUME NEW f PROVE OfRemoval(f)' <=> OfRemoval(f)
    BY <1>2, <1>4 DEF OfRemoval
<1> QED
    BY <1>1, <1>2, <1>3, <1>4, <1>5, <1>6, <1>7

Reason(f) == OfNumbering(f) \/ OfCitation(f) \/ OfRemoval(f)

\* The next citation is one of the new version.
LEMMA CiteFacts ==
    ASSUME Documents, Complete, AtCitation
    PROVE  /\ cited \in Seq(ToSet(ReferencesOf(curr))) /\ Head(cited) \in ToSet(ReferencesOf(curr))
           /\ Tail(cited) \in Seq(ToSet(ReferencesOf(curr)))
           /\ \A r \in ToSet(cited) : r = Head(cited) \/ r \in ToSet(Tail(cited))
           /\ Head(cited) \in Cited /\ Cite \in Citation
<1> DEFINE S == ToSet(ReferencesOf(curr))
<1>1. cited \in Seq(S) /\ cited # <<>>
    BY DEF Complete, AtCitation
<1>2. S \subseteq Cited
    BY ReferencesOfFacts, RangeIsFinite DEF Documents
<1> HIDE DEF S
<1>3. /\ Head(cited) \in S /\ Tail(cited) \in Seq(S) /\ Len(Tail(cited)) = Len(cited) - 1
      /\ \A i \in 1..Len(Tail(cited)) : Tail(cited)[i] = cited[i + 1]
    BY <1>1, HeadTailProperties
<1>4. ASSUME NEW r \in ToSet(cited) PROVE r = Head(cited) \/ r \in ToSet(Tail(cited))
  <2>1. PICK i \in 1..Len(cited) : r = cited[i]
      BY <1>1, SeqFacts
  <2>2. Len(cited) \in Nat /\ Head(cited) = cited[1]
      BY <1>1, LenProperties
  <2>3. CASE i = 1
      BY <2>1, <2>2, <2>3
  <2>4. CASE i # 1
    <3>1. i - 1 \in 1..Len(Tail(cited)) /\ (i - 1) + 1 = i
        BY <1>3, <2>2, <2>4
    <3>2. Tail(cited)[i - 1] = r
        BY <1>3, <2>1, <3>1
    <3>3. ToSet(Tail(cited)) = {Tail(cited)[j] : j \in 1..Len(Tail(cited))}
        BY <1>3, SeqFacts
    <3> QED
        BY <3>1, <3>2, <3>3
  <2> QED
      BY <2>3, <2>4
<1>5. Head(cited) \in Cited /\ Cite \in Citation
    BY <1>2, <1>3 DEF Cite, Cited
<1> QED
    BY <1>1, <1>3, <1>4, <1>5 DEF S

\* One more finding.
LEMMA FoundAppended ==
    ASSUME Reasons, NEW f \in Findings, Reason(f), found' = Append(found, f),
           prev' = prev, curr' = curr, prevIDs' = prevIDs, currIDs' = currIDs
    PROVE  /\ found' \in Seq(Findings) /\ Len(found') = Len(found) + 1 /\ Len(found) \in Nat
           /\ found'[Len(found) + 1] = f /\ \A k \in 1..Len(found) : found'[k] = found[k]
           /\ \A k \in 1..Len(found') : OfNumbering(found[k])' \/ OfCitation(found[k])' \/ OfRemoval(found[k])'
<1>1. found \in Seq(Findings) /\ \A k \in 1..Len(found) : Reason(found[k])
    BY DEF Reasons, Reason
<1>2. /\ found' \in Seq(Findings) /\ Len(found') = Len(found) + 1 /\ Len(found) \in Nat
      /\ found'[Len(found) + 1] = f /\ \A k \in 1..Len(found) : found'[k] = found[k]
    BY <1>1, AppendFacts, LenProperties
<1>3. ASSUME NEW k \in 1..Len(found') PROVE Reason(found'[k])
  <2>1. k \in 1..Len(found) \/ k = Len(found) + 1
      BY <1>2
  <2> QED
      BY <1>1, <1>2, <2>1
<1>4. ASSUME NEW g, Reason(g) PROVE OfNumbering(g)' \/ OfCitation(g)' \/ OfRemoval(g)'
    BY <1>4, SameDocuments DEF Reason
<1> QED
    BY <1>2, <1>3, <1>4

\* A finding of the numbering rules.
LEMMA NumberingFound ==
    ASSUME Documents, Reasons, AddNumberingFinding
    PROVE  \E f \in Findings : /\ Reason(f) /\ found' = Append(found, f) /\ f.severity # "critical"
                               /\ UNCHANGED <<docVars, diffVars, cited, relocations, phase>> /\ phase = "compared"
<1>1. PICK i \in NodesOf(curr), actions \in {{}, {[type |-> "renumber", new |-> <<>>]}} :
         found' = << Finding("numbering", "major", "curr", i, currIDs[i], actions) >>
    BY DEF AddNumberingFinding
<1>2. /\ phase = "compared" /\ found = <<>> /\ UNCHANGED <<docVars, diffVars, cited, relocations, phase>>
    BY DEF AddNumberingFinding
<1> DEFINE f == Finding("numbering", "major", "curr", i, currIDs[i], actions)
<1>3. actions \in SUBSET Action /\ \A a \in actions : a.type = "renumber"
  <2>1. <<>> \in Seq(Nat)
      BY EmptySeq
  <2>2. [type |-> "renumber", new |-> <<>>] \in Action
      BY <2>1 DEF Action
  <2> QED
      BY <2>2
<1>4. /\ i \in DOMAIN curr /\ i \in Nat /\ currIDs[i] \in Seq(Segments)
  <2>1. IsDocument(curr) /\ currIDs = IDsOf(curr)
      BY <1>2 DEF Documents
  <2>2. i \in 1..Len(curr) /\ Len(curr) \in Nat /\ DOMAIN curr = 1..Len(curr)
      BY <2>1, DocumentFacts
  <2> QED
      BY <2>1, <2>2, NamesFacts
<1> DEFINE node == currIDs[i]
<1>5. f = [category |-> "numbering", severity |-> "major", side |-> "curr", para |-> i, node |-> node, actions |-> actions]
    BY DEF Finding
<1>6. node \in Seq(Segments)
    BY <1>4
<1> HIDE DEF f, node
<1>7. f \in Findings /\ OfNumbering(f) /\ f.severity # "critical"
    BY <1>3, <1>4, <1>5, <1>6 DEF Findings, OfNumbering
<1>8. found' = Append(found, f)
    BY <1>1, <1>2 DEF f
<1> QED
    BY <1>2, <1>7, <1>8 DEF Reason

\* A finding about a citation that does not resolve.
LEMMA CitationFound ==
    ASSUME Documents, Reasons, Complete, ReportDangling \/ ReportBroken
    PROVE  \E f \in Findings : /\ Reason(f) /\ found' = Append(found, f)
                               /\ f.severity = "critical" <=> Lost(Cite)
                               /\ AtCitation /\ cited' = Tail(cited) /\ UNCHANGED <<docVars, diffVars, phase>>
                               /\ \A t \in DOMAIN relocations' : relocations'[t] = findRelocation(t)
<1>1. AtCitation /\ cited' = Tail(cited) /\ UNCHANGED <<docVars, diffVars, phase>> /\ phase = "citations"
    BY DEF ReportDangling, ReportBroken, AtCitation
<1>2. /\ Head(cited) \in ToSet(ReferencesOf(curr)) /\ Head(cited) \in Cited /\ Cite \in Citation
      /\ Cite = Head(cited).cite
    BY <1>1, CiteFacts DEF Cite
<1>3. Head(cited).para \in Nat
    BY <1>2 DEF Cited
<1>4. IsDocument(prev) /\ IsDocument(curr) /\ prevIDs = IDsOf(prev) /\ currIDs = IDsOf(curr)
    BY <1>1 DEF Documents
<1>5. CASE ReportDangling
  <2> DEFINE f == Finding("broken", "minor", "curr", Head(cited).para, <<>>, {})
  <2>1. /\ found' = Append(found, f) /\ relocations' = relocations /\ ~Lost(Cite)
      BY <1>5 DEF ReportDangling, Resolves, Lost
  <2>2. f = [category |-> "broken", severity |-> "minor", side |-> "curr", para |-> Head(cited).para,
             node |-> <<>>, actions |-> {}]
      BY DEF Finding
  <2> HIDE DEF f
  <2>3. f \in Findings
      BY <1>3, <2>2, EmptySeq DEF Findings
  <2>4. OfCitation(f)
      BY <1>2, <2>2 DEF OfCitation
  <2>5. \A t \in DOMAIN relocations' : relocations'[t] = findRelocation(t)
      BY <2>1 DEF Reasons
  <2>6. ~(f.severity = "critical")
      BY <2>2
  <2> QED
      BY <1>1, <2>1, <2>3, <2>4, <2>5, <2>6 DEF Reason
<1>6. CASE ReportBroken
  <2> DEFINE target == TargetID(Cite)
             reloc  == IF target \in DOMAIN relocations THEN relocations[target] ELSE findRelocation(target)
             moved  == Finding("shifted", "critical", "curr", Head(cited).para, reloc, repointAction(Head(cited), reloc))
             review == Finding("broken", "critical", "curr", Head(cited).para, <<>>, {[type |-> "manual_review", new |-> <<>>]})
             f      == IF reloc # <<>> THEN moved ELSE review
  <2>1. /\ found' = Append(found, f) /\ Lost(Cite)
        /\ relocations' = [t \in {target} \cup DOMAIN relocations |-> IF t = target THEN reloc ELSE relocations[t]]
      BY <1>6 DEF ReportBroken, Resolves, Lost
  <2>2. reloc = findRelocation(target)
      BY DEF Reasons
  <2> HIDE DEF target, reloc
  <2>3. \A t \in DOMAIN relocations' : relocations'[t] = findRelocation(t)
    <3>1. \A t \in DOMAIN relocations' : t = target \/ t \in DOMAIN relocations
        BY <2>1
    <3>2. \A t \in DOMAIN relocations' : relocations'[t] = IF t = target THEN reloc ELSE relocations[t]
        BY <2>1
    <3> QED
        BY <2>2, <3>1, <3>2 DEF Reasons
  <2>4. reloc # <<>> => reloc \in IDs
    <3>1. reloc # <<>> => \E j \in NodesOf(curr) : reloc = currIDs[j]
        BY <1>4, <2>2, findRelocationFacts
    <3>2. \A j \in NodesOf(curr) : currIDs[j] \in Seq(Segments)
        BY <1>4, DocumentFacts, NamesFacts
    <3> QED
        BY <3>1, <3>2 DEF IDs
  <2>5. ASSUME reloc # <<>> PROVE moved \in Findings /\ OfCitation(moved) /\ moved.severity = "critical"
    <3> DEFINE acts == repointAction(Head(cited), reloc)
    <3>1. acts \in SUBSET Action /\ reloc \in Seq(Segments)
        BY <1>2, <2>4, <2>5, repointActionFacts DEF IDs
    <3>2. acts = repointAction(Head(cited), reloc)
        OBVIOUS
    <3> HIDE DEF acts
    <3>3. moved = [category |-> "shifted", severity |-> "critical", side |-> "curr", para |-> Head(cited).para,
                   node |-> reloc, actions |-> acts]
        BY <3>2 DEF Finding
    <3> HIDE DEF moved
    <3>4. moved \in Findings
        BY <1>3, <3>1, <3>3 DEF Findings
    <3>5. reloc = findRelocation(TargetID(Head(cited).cite))
        BY <1>2, <2>2 DEF target
    <3>6. OfCitation(moved)
        BY <1>2, <2>1, <2>5, <3>2, <3>3, <3>5 DEF OfCitation
    <3> QED
        BY <3>3, <3>4, <3>6
  <2>6. review \in Findings /\ OfCitation(review) /\ review.severity = "critical"
    <3> DEFINE acts == {[type |-> "manual_review", new |-> <<>>]}
    <3>1. acts \in SUBSET Action /\ \A a \in acts : a.type = "manual_review"
      <4>1. <<>> \in Seq(Nat)
          BY EmptySeq
      <4> QED
          BY <4>1 DEF Action
    <3>2. review = [category |-> "broken", severity |-> "critical", side |-> "curr", para |-> Head(cited).para,
                    node |-> <<>>, actions |-> acts]
        BY DEF Finding
    <3> HIDE DEF acts, review
    <3>3. review \in Findings
        BY <1>3, <3>1, <3>2, EmptySeq DEF Findings
    <3>4. OfCitation(review)
        BY <1>2, <2>1, <3>1, <3>2 DEF OfCitation
    <3> QED
        BY <3>2, <3>3, <3>4
  <2> HIDE DEF moved, review
  <2>7. f \in Findings /\ OfCitation(f) /\ f.severity = "critical"
      BY <2>5, <2>6
  <2> HIDE DEF f
  <2> QED
      BY <1>1, <2>1, <2>3, <2>7 DEF Reason
<1> QED
    BY <1>5, <1>6

\* The last findings: the articles that are gone.
LEMMA RemovedFound ==
    ASSUME Documents, Reasons, ReportRemoved
    PROVE  /\ found' \in Seq(Findings) /\ \A k \in 1..Len(found') : Reason(found'[k])
           /\ \A j \in 1..Len(found) : \E k \in 1..Len(found') : found'[k] = found[j]
           /\ \A i \in DOMAIN prev : Gone(i) =>
                \E k \in 1..Len(found') : found'[k].category = "section_removed" /\ found'[k].para = i
           /\ UNCHANGED <<docVars, diffVars, cited, relocations>>
           /\ phase = "citations" /\ cited = <<>> /\ phase' = "assembled"
<1>1. PICK rest, all : rest = reportRemovedArticles /\ all = found \o rest
    OBVIOUS
<1>2. /\ found' = SortFindings(all) /\ UNCHANGED <<docVars, diffVars, cited, relocations>>
      /\ phase = "citations" /\ cited = <<>> /\ phase' = "assembled"
    BY <1>1 DEF ReportRemoved
<1>3. /\ rest \in Seq(Findings) /\ \A k \in 1..Len(rest) : OfRemoval(rest[k])
      /\ \A i \in DOMAIN prev : Gone(i) => \E k \in 1..Len(rest) : rest[k].para = i
    BY <1>1, <1>2, RemovedFacts DEF Documents
<1>4. found \in Seq(Findings) /\ \A k \in 1..Len(found) : Reason(found[k])
    BY DEF Reasons, Reason
<1>5. /\ all \in Seq(Findings) /\ Len(all) = Len(found) + Len(rest)
      /\ \A k \in 1..(Len(found) + Len(rest)) : all[k] = IF k <= Len(found) THEN found[k] ELSE rest[k - Len(found)]
      /\ Len(found) \in Nat /\ Len(rest) \in Nat
    BY <1>1, <1>3, <1>4, ConcatProperties, LenProperties
<1>6. ASSUME NEW k \in 1..Len(all) PROVE Reason(all[k])
  <2>1. CASE k <= Len(found)
      BY <1>4, <1>5, <2>1
  <2>2. CASE ~(k <= Len(found))
    <3>1. k - Len(found) \in 1..Len(rest) /\ all[k] = rest[k - Len(found)]
        BY <1>5, <2>2
    <3> QED
        BY <1>3, <3>1 DEF Reason
  <2> QED
      BY <2>1, <2>2
<1>7. \A j \in 1..Len(found) : j \in 1..Len(all) /\ all[j] = found[j]
    BY <1>5
<1>8. ASSUME NEW j \in 1..Len(rest) PROVE j + Len(found) \in 1..Len(all) /\ all[j + Len(found)] = rest[j]
  <2>1. /\ j + Len(found) \in 1..(Len(found) + Len(rest)) /\ ~(j + Len(found) <= Len(found))
        /\ (j + Len(found)) - Len(found) = j
      BY <1>5
  <2> QED
      BY <1>5, <2>1
<1>9. /\ found' \in Seq(Findings)
      /\ \A k \in 1..Len(found') : \E j \in 1..Len(all) : found'[k] = all[j]
      /\ \A j \in 1..Len(all) : \E k \in 1..Len(found') : found'[k] = all[j]
    BY <1>2, <1>5, SortFindingsFacts
<1>10. ASSUME NEW i \in DOMAIN prev, Gone(i)
       PROVE  \E k \in 1..Len(found') : found'[k].category = "section_removed" /\ found'[k].para = i
  <2>1. PICK j \in 1..Len(rest) : rest[j].para = i
      BY <1>3, <1>10
  <2>2. rest[j].category = "section_removed"
      BY <1>3 DEF OfRemoval
  <2>3. PICK k \in 1..Len(found') : found'[k] = rest[j]
      BY <1>8, <1>9
  <2> QED
      BY <2>1, <2>2, <2>3
<1>11. \A k \in 1..Len(found') : Reason(found'[k])
    BY <1>6, <1>9
<1>12. \A j \in 1..Len(found) : \E k \in 1..Len(found') : found'[k] = found[j]
    BY <1>7, <1>9
<1> QED
    BY <1>2, <1>9, <1>10, <1>11, <1>12

\* Every finding keeps its reason.
LEMMA ReasonsStep ==
    ASSUME Documents, Reasons, Complete, [Next]_vars
    PROVE  Reasons'
<1>1. CASE /\ found' = found /\ relocations' = relocations
           /\ prev' = prev /\ curr' = curr /\ prevIDs' = prevIDs /\ currIDs' = currIDs
           /\ phase' \in {"draft", "read", "compared"} => phase \in {"draft", "read", "compared"}
           /\ phase' \in {"draft", "read"} => phase \in {"draft", "read"}
  <2>1. ASSUME NEW k \in 1..Len(found) PROVE OfNumbering(found[k])' \/ OfCitation(found[k])' \/ OfRemoval(found[k])'
    <3>1. PICK g : g = found[k]
        OBVIOUS
    <3>2. OfNumbering(g)' \/ OfCitation(g)' \/ OfRemoval(g)'
        BY <1>1, <3>1, SameDocuments DEF Reasons
    <3>3. found'[k] = g
        BY <1>1, <3>1
    <3> QED
        BY <3>2, <3>3
  <2>2. ASSUME NEW t \in DOMAIN relocations PROVE relocations'[t] = findRelocation(t)'
      BY <1>1, SameDocuments DEF Reasons
  <2> QED
      BY <1>1, <2>1, <2>2 DEF Reasons
<1>2. CASE (Revise \/ Align) /\ UNCHANGED <<refVars, unfiled, views, warnings>>
  <2>1. /\ phase = "draft" /\ phase' \in {"draft", "read"} /\ found' = found /\ relocations' = relocations
      BY <1>2 DEF Revise, Align, refVars
  <2>2. found = <<>> /\ DOMAIN relocations = {} /\ found \in Seq(Findings)
      BY <2>1 DEF Reasons
  <2>3. \A k : k \notin 1..Len(found')
      BY <2>1, <2>2
  <2> QED
      BY <2>1, <2>2, <2>3 DEF Reasons
<1>3. CASE AddNumberingFinding
  <2>1. PICK f \in Findings : /\ Reason(f) /\ found' = Append(found, f)
                              /\ UNCHANGED <<docVars, diffVars, cited, relocations, phase>> /\ phase = "compared"
      BY <1>3, NumberingFound
  <2>2. prev' = prev /\ curr' = curr /\ prevIDs' = prevIDs /\ currIDs' = currIDs
      BY <2>1 DEF docVars
  <2>3. /\ found' \in Seq(Findings)
        /\ \A k \in 1..Len(found') : OfNumbering(found[k])' \/ OfCitation(found[k])' \/ OfRemoval(found[k])'
      BY <2>1, <2>2, FoundAppended
  <2>4. DOMAIN relocations = {} /\ relocations' = relocations
      BY <2>1 DEF Reasons
  <2> QED
      BY <2>1, <2>3, <2>4 DEF Reasons
<1>4. CASE ReportDangling \/ ReportBroken
  <2>1. PICK f \in Findings : /\ Reason(f) /\ found' = Append(found, f)
                              /\ AtCitation /\ UNCHANGED <<docVars, diffVars, phase>>
                              /\ \A t \in DOMAIN relocations' : relocations'[t] = findRelocation(t)
      BY <1>4, CitationFound
  <2>2. prev' = prev /\ curr' = curr /\ prevIDs' = prevIDs /\ currIDs' = currIDs
        /\ phase = "citations" /\ phase' = phase
      BY <2>1 DEF docVars, AtCitation
  <2>3. /\ found' \in Seq(Findings)
        /\ \A k \in 1..Len(found') : OfNumbering(found[k])' \/ OfCitation(found[k])' \/ OfRemoval(found[k])'
      BY <2>1, <2>2, FoundAppended
  <2>4. \A t \in DOMAIN relocations' : relocations'[t] = findRelocation(t)'
      BY <2>1, <2>2, SameDocuments
  <2> QED
      BY <2>2, <2>3, <2>4 DEF Reasons
<1>5. CASE ReportRemoved
  <2>1. /\ found' \in Seq(Findings) /\ \A k \in 1..Len(found') : Reason(found'[k])
        /\ prev' = prev /\ curr' = curr /\ prevIDs' = prevIDs /\ currIDs' = currIDs
        /\ relocations' = relocations /\ phase' = "assembled"
      BY <1>5, RemovedFound DEF docVars
  <2>2. ASSUME NEW k \in 1..Len(found') PROVE OfNumbering(found[k])' \/ OfCitation(found[k])' \/ OfRemoval(found[k])'
    <3>1. PICK g : g = found'[k]
        OBVIOUS
    <3>2. OfNumbering(g)' \/ OfCitation(g)' \/ OfRemoval(g)'
        BY <2>1, <3>1, SameDocuments DEF Reason
    <3> QED
        BY <3>1, <3>2
  <2>3. \A t \in DOMAIN relocations' : relocations'[t] = findRelocation(t)'
      BY <2>1, SameDocuments DEF Reasons
  <2> QED
      BY <2>1, <2>2, <2>3 DEF Reasons
<1>6. CASE (ReadEqual \/ ReadDelete \/ ReadInsert \/ PairRewrite \/ SingleRun \/ DropBlank)
           /\ UNCHANGED <<refVars, unfiled, views, warnings>>
  <2>1. /\ found' = found /\ relocations' = relocations /\ phase \in {"draft", "read"}
        /\ prev' = prev /\ curr' = curr /\ prevIDs' = prevIDs /\ currIDs' = currIDs
      BY <1>6 DEF refVars, docVars, ReadEqual, ReadDelete, ReadInsert, PairRewrite, SingleRun, DropBlank
  <2> QED
      BY <1>1, <2>1
<1>7. CASE CompareReferences \/ SkipResolved
  <2>1. /\ found' = found /\ relocations' = relocations /\ phase' = "citations"
        /\ prev' = prev /\ curr' = curr /\ prevIDs' = prevIDs /\ currIDs' = currIDs
      BY <1>7 DEF CompareReferences, SkipResolved, AtCitation, docVars
  <2> QED
      BY <1>1, <2>1
<1>8. CASE BuildView \/ FileWarning \/ FileUnderChange \/ Show
  <2>1. /\ found' = found /\ relocations' = relocations /\ phase' \in {"filing", "shown"}
        /\ prev' = prev /\ curr' = curr /\ prevIDs' = prevIDs /\ currIDs' = currIDs
      BY <1>8 DEF BuildView, AtFinding, FileWarning, FileUnderChange, Show, docVars, refVars
  <2> QED
      BY <1>1, <2>1
<1>9. CASE UNCHANGED vars
  <2>1. /\ found' = found /\ relocations' = relocations /\ phase' = phase
        /\ prev' = prev /\ curr' = curr /\ prevIDs' = prevIDs /\ currIDs' = currIDs
      BY <1>9 DEF vars, docVars, refVars
  <2> QED
      BY <1>1, <2>1
<1> QED
    BY <1>2, <1>3, <1>4, <1>5, <1>6, <1>7, <1>8, <1>9 DEF Next, DiffNext, RefNext

\* A sequence is one of its own elements.
LEMMA SeqOfToSet ==
    ASSUME NEW S, NEW s \in Seq(S)
    PROVE  s \in Seq(ToSet(s))
<1>1. Len(s) \in Nat /\ s \in [1..Len(s) -> S]
    BY LenProperties
<1>2. s \in [1..Len(s) -> ToSet(s)]
    BY <1>1 DEF ToSet
<1> QED
    BY <1>1, <1>2, SeqDef

\* What is lost is reported, or still to be checked.
LEMMA CompleteStep ==
    ASSUME Documents, Reasons, Complete, [Next]_vars
    PROVE  Complete'
<1> DEFINE Early   == {"draft", "read", "compared"}
           Refs    == ToSet(ReferencesOf(curr))
           Serious == \E k \in 1..Len(found) : found[k].severity = "critical"
           Listed(i) == \E k \in 1..Len(found) : found[k].category = "section_removed" /\ found[k].para = i
<1>1. CASE phase \in Early /\ phase' \in Early /\ cited' = cited
  <2>1. cited = <<>>
      BY <1>1 DEF Complete
  <2>2. <<>> \in Seq(Refs')
      BY EmptySeq
  <2> QED
      BY <1>1, <2>1, <2>2 DEF Complete, Done
<1>2. CASE /\ found' = found /\ cited' = cited
           /\ prev' = prev /\ curr' = curr /\ prevIDs' = prevIDs /\ currIDs' = currIDs
           /\ phase' \in Early => phase \in Early
           /\ phase' \in Done => phase \in Done
           /\ phase' = "citations" => phase = "citations"
  <2>1. Refs' = Refs /\ (Serious' <=> Serious) /\ (\A i : Listed(i)' <=> Listed(i))
        /\ (\A r : Lost(r)' <=> Lost(r)) /\ (\A i : Gone(i)' <=> Gone(i))
      BY <1>2, SameDocuments
  <2>2. /\ cited \in Seq(Refs)
        /\ phase \in Early => cited = <<>>
        /\ phase \in Done \cup {"citations"} => \A r \in Refs : Lost(r.cite) => r \in ToSet(cited) \/ Serious
        /\ phase \in Done => cited = <<>> /\ \A i \in DOMAIN prev : Gone(i) => Listed(i)
      BY DEF Complete
  <2> HIDE DEF Refs, Serious, Listed
  <2>3. /\ cited' \in Seq(Refs')
        /\ phase' \in Early => cited' = <<>>
        /\ phase' \in Done \cup {"citations"} => \A r \in Refs' : Lost(r.cite)' => r \in ToSet(cited') \/ Serious'
        /\ phase' \in Done => cited' = <<>> /\ \A i \in DOMAIN prev' : Gone(i)' => Listed(i)'
      BY <1>2, <2>1, <2>2
  <2> QED
      BY <2>3 DEF Complete, Refs, Serious, Listed, Done
<1>3. CASE CompareReferences
  <2>1. /\ cited' = ReferencesOf(curr) /\ phase' = "citations" /\ curr' = curr
        /\ prev' = prev /\ prevIDs' = prevIDs /\ currIDs' = currIDs
      BY <1>3 DEF CompareReferences, docVars
  <2>2. ReferencesOf(curr)' = ReferencesOf(curr)
      BY <2>1
  <2>3. ReferencesOf(curr) \in Seq(ToSet(ReferencesOf(curr)))
      BY ReferencesOfFacts, SeqOfToSet DEF Documents
  <2> QED
      BY <2>1, <2>2, <2>3 DEF Complete, Done
<1>4. CASE SkipResolved \/ ReportDangling \/ ReportBroken
  <2>1. /\ AtCitation /\ phase' = phase /\ cited' = Tail(cited)
        /\ prev' = prev /\ curr' = curr /\ prevIDs' = prevIDs /\ currIDs' = currIDs
      BY <1>4 DEF SkipResolved, ReportDangling, ReportBroken, AtCitation, docVars
  <2>2. /\ Tail(cited) \in Seq(Refs)
        /\ \A r \in ToSet(cited) : r = Head(cited) \/ r \in ToSet(Tail(cited))
      BY <2>1, CiteFacts
  <2>3. (Lost(Cite) => Serious') /\ (Serious => Serious')
    <3>1. CASE SkipResolved
        BY <3>1 DEF SkipResolved, Resolves, Lost
    <3>2. CASE ReportDangling \/ ReportBroken
      <4>1. PICK f \in Findings : Reason(f) /\ found' = Append(found, f) /\ (f.severity = "critical" <=> Lost(Cite))
          BY <3>2, CitationFound
      <4>2. /\ Len(found') = Len(found) + 1 /\ Len(found) \in Nat
            /\ found'[Len(found) + 1] = f /\ \A k \in 1..Len(found) : found'[k] = found[k]
          BY <2>1, <4>1, FoundAppended
      <4>3. Len(found) + 1 \in 1..Len(found') /\ \A k \in 1..Len(found) : k \in 1..Len(found')
          BY <4>2
      <4> QED
          BY <4>1, <4>2, <4>3
    <3> QED
        BY <1>4, <3>1, <3>2
  <2>4. \A r \in Refs : Lost(r.cite) => r \in ToSet(cited) \/ Serious
      BY <2>1 DEF Complete, AtCitation
  <2>5. Refs' = Refs /\ (\A r : Lost(r)' <=> Lost(r))
      BY <2>1, SameDocuments
  <2>6. phase' = "citations"
      BY <2>1 DEF AtCitation
  <2> HIDE DEF Refs, Serious
  <2>7. ASSUME NEW r \in Refs, Lost(r.cite) PROVE r \in ToSet(cited') \/ Serious'
    <3>1. r \in ToSet(cited) \/ Serious
        BY <2>4, <2>7
    <3>2. r = Head(cited) => Lost(Cite)
        BY <2>7 DEF Cite
    <3> QED
        BY <2>1, <2>2, <2>3, <3>1, <3>2
  <2>8. \A r \in Refs' : Lost(r.cite)' => r \in ToSet(cited') \/ Serious'
      BY <2>5, <2>7
  <2>9. cited' \in Seq(Refs')
      BY <2>1, <2>2, <2>5
  <2> QED
      BY <2>6, <2>8, <2>9 DEF Complete, Refs, Serious, Done
<1>5. CASE ReportRemoved
  <2>1. /\ \A j \in 1..Len(found) : \E k \in 1..Len(found') : found'[k] = found[j]
        /\ \A i \in DOMAIN prev : Gone(i) =>
             \E k \in 1..Len(found') : found'[k].category = "section_removed" /\ found'[k].para = i
        /\ prev' = prev /\ curr' = curr /\ prevIDs' = prevIDs /\ currIDs' = currIDs /\ cited' = cited
        /\ phase = "citations" /\ cited = <<>> /\ phase' = "assembled"
      BY <1>5, RemovedFound DEF docVars
  <2>2. \A r : r \notin ToSet(cited)
      BY <2>1 DEF ToSet
  <2>3. Refs' = Refs /\ (\A r : Lost(r)' <=> Lost(r)) /\ (\A i : Gone(i)' <=> Gone(i))
      BY <2>1, SameDocuments
  <2>4. \A r \in Refs : Lost(r.cite) => Serious
      BY <2>1, <2>2 DEF Complete
  <2>5. Serious => Serious'
      BY <2>1
  <2>6. \A i \in DOMAIN prev' : Gone(i)' => Listed(i)'
      BY <2>1, <2>3
  <2> HIDE DEF Refs, Serious, Listed
  <2>7. \A r \in Refs' : Lost(r.cite)' => r \in ToSet(cited') \/ Serious'
      BY <2>3, <2>4, <2>5
  <2>8. cited' \in Seq(Refs') /\ cited' = <<>>
      BY <2>1, EmptySeq
  <2> QED
      BY <2>1, <2>6, <2>7, <2>8 DEF Complete, Refs, Serious, Listed, Done
<1>6. CASE DiffNext /\ UNCHANGED <<refVars, unfiled, views, warnings>>
  <2>1. phase \in Early /\ phase' \in Early /\ cited' = cited
      BY <1>6 DEF DiffNext, Revise, Align, ReadEqual, ReadDelete, ReadInsert, PairRewrite, SingleRun, DropBlank, refVars
  <2> QED
      BY <1>1, <2>1
<1>7. CASE AddNumberingFinding
  <2>1. phase \in Early /\ phase' \in Early /\ cited' = cited
      BY <1>7 DEF AddNumberingFinding
  <2> QED
      BY <1>1, <2>1
<1>8. CASE BuildView \/ FileWarning \/ FileUnderChange \/ Show
  <2>1. /\ found' = found /\ cited' = cited /\ phase' \in {"filing", "shown"} /\ phase \in Done
        /\ prev' = prev /\ curr' = curr /\ prevIDs' = prevIDs /\ currIDs' = currIDs
      BY <1>8 DEF BuildView, AtFinding, FileWarning, FileUnderChange, Show, docVars, refVars, Done
  <2> QED
      BY <1>2, <2>1
<1>9. CASE UNCHANGED vars
  <2>1. /\ found' = found /\ cited' = cited /\ phase' = phase
        /\ prev' = prev /\ curr' = curr /\ prevIDs' = prevIDs /\ currIDs' = currIDs
      BY <1>9 DEF vars, docVars, refVars
  <2> QED
      BY <1>2, <2>1
<1> QED
    BY <1>3, <1>4, <1>5, <1>6, <1>7, <1>8, <1>9 DEF Next, RefNext

-----------------------------------------------------------------------------
(* Filing.                                                                 *)

\* What is still to be filed when the first n are.
LEMMA UnfiledFacts ==
    ASSUME NEW S, NEW s \in Seq(S), NEW n \in 0..Len(s), NEW u, u = SubSeq(s, n + 1, Len(s))
    PROVE  /\ u = <<>> <=> n = Len(s)
           /\ n # Len(s) => n + 1 \in 1..Len(s) /\ Head(u) = s[n + 1] /\ Tail(u) = SubSeq(s, n + 2, Len(s))
<1>1. Len(s) \in Nat /\ \A i \in 1..Len(s) : s[i] \in S
    BY SeqFacts
<1>2. CASE n = Len(s)
    BY <1>1, <1>2, SubSeqEmpty
<1>3. CASE n # Len(s)
  <2>1. n + 1 \in 1..Len(s) /\ Len(s) \in (n + 1)..Len(s) /\ (n + 1) + 1 = n + 2
      BY <1>1, <1>3
  <2>2. Head(u) = s[n + 1] /\ Tail(u) = SubSeq(s, n + 2, Len(s))
    <3> DEFINE m == n + 1
    <3>1. m \in 1..Len(s) /\ Len(s) \in m..Len(s) /\ m + 1 = n + 2
        BY <2>1
    <3> HIDE DEF m
    <3>2. Head(SubSeq(s, m, Len(s))) = s[m] /\ Tail(SubSeq(s, m, Len(s))) = SubSeq(s, n + 2, Len(s))
        BY <3>1, HeadTailOfSubSeq
    <3> QED
        BY <3>2 DEF m
  <2>3. Len(u) = IF n + 1 <= Len(s) THEN Len(s) - (n + 1) + 1 ELSE 0
      BY <1>1, <2>1, SubSeqProperties
  <2>4. u # <<>>
    <3>1. Len(u) # 0
        BY <1>1, <2>1, <2>3
    <3>2. u = <<>> => Len(u) = 0
        BY EmptySeq
    <3> QED
        BY <3>1, <3>2
  <2> QED
      BY <1>3, <2>1, <2>2, <2>4
<1> QED
    BY <1>2, <1>3

\* One more finding in one place.
LEMMA PlacedFacts ==
    ASSUME NEW s \in Seq(Findings), NEW g \in Findings, NEW k, NEW f
    PROVE  /\ Placed(k, Append(s, g), f) = Placed(k, s, f) \cup (IF f = g THEN {<<k, Len(s) + 1>>} ELSE {})
           /\ <<k, Len(s) + 1>> \notin Placed(k, s, f)
<1> DEFINE t == Append(s, g)
           n == Len(s)
<1>1. n \in Nat /\ DOMAIN s = 1..n
    BY SeqFacts
<1>2. t \in Seq(Findings) /\ Len(t) = n + 1 /\ t[n + 1] = g /\ \A i \in 1..n : t[i] = s[i]
    BY AppendFacts
<1>3. DOMAIN t = 1..(n + 1)
    BY <1>2, SeqFacts
<1> HIDE DEF t, n
<1>4. ASSUME NEW i PROVE i \in DOMAIN t /\ t[i] = f <=> (i \in DOMAIN s /\ s[i] = f) \/ (i = n + 1 /\ f = g)
    BY <1>1, <1>2, <1>3
<1>5. ASSUME NEW x PROVE x \in Placed(k, t, f) <=> x \in Placed(k, s, f) \/ (f = g /\ x = <<k, n + 1>>)
    BY <1>4 DEF Placed
<1>6. <<k, n + 1>> \notin Placed(k, s, f)
    BY <1>1 DEF Placed
<1>7. Placed(k, t, f) = Placed(k, s, f) \cup (IF f = g THEN {<<k, n + 1>>} ELSE {})
    BY <1>5
<1> QED
    BY <1>6, <1>7 DEF t, n

\* A finding that is shown once more was found once more.
LEMMA ShownAsOftenAsFound ==
    ASSUME NEW n \in Nat, NEW f, NEW S, IsFiniteSet(S), NEW new, new \notin S,
           Cardinality(S) = Cardinality(Among(n, f)),
           NEW T, T = S \cup (IF f = found[n + 1] THEN {new} ELSE {})
    PROVE  IsFiniteSet(T) /\ Cardinality(T) = Cardinality(Among(n + 1, f))
<1> DEFINE D == Among(n, f)
           E == Among(n + 1, f)
<1>1. IsFiniteSet(D)
  <2>1. IsFiniteSet(1..n) /\ D \in SUBSET (1..n)
      BY FS_Interval DEF Among
  <2> QED
      BY <2>1, FS_Subset
<1>2. \A k : k \in 1..(n + 1) <=> k \in 1..n \/ k = n + 1
    OBVIOUS
<1>3. \A k : k \in E <=> k \in D \/ (k = n + 1 /\ found[n + 1] = f)
    BY <1>2 DEF Among
<1>4. n + 1 \notin D
    BY DEF Among
<1> HIDE DEF D, E
<1>5. CASE f = found[n + 1]
  <2>1. T = S \cup {new} /\ E = D \cup {n + 1}
      BY <1>3, <1>5
  <2>2. Cardinality(T) = Cardinality(S) + 1 /\ IsFiniteSet(T) /\ Cardinality(E) = Cardinality(D) + 1
      BY <1>1, <1>4, <2>1, FS_AddElement
  <2> QED
      BY <2>2 DEF D, E
<1>6. CASE f # found[n + 1]
  <2>1. T = S /\ E = D
      BY <1>3, <1>6
  <2> QED
      BY <2>1 DEF D, E
<1> QED
    BY <1>5, <1>6

\* What one more warning shows.
LEMMA WarningShown ==
    ASSUME warnings \in Seq(Findings), 0 \notin DOMAIN views, NEW g \in Findings,
           warnings' = Append(warnings, g), views' = views, NEW f
    PROVE  /\ <<0, Len(warnings) + 1>> \notin ShownAt(f)
           /\ ShownAt(f)' = ShownAt(f) \cup (IF f = g THEN {<<0, Len(warnings) + 1>>} ELSE {})
<1>1. PICK w : w = warnings
    OBVIOUS
<1> DEFINE new == <<0, Len(w) + 1>>
           P(k) == Placed(k, views[k], f)
           U == UNION {P(k) : k \in DOMAIN views}
<1>2. /\ Placed(0, Append(w, g), f) = Placed(0, w, f) \cup (IF f = g THEN {new} ELSE {})
      /\ new \notin Placed(0, w, f)
    BY <1>1, PlacedFacts
<1>3. ShownAt(f)' = Placed(0, Append(w, g), f) \cup U /\ ShownAt(f) = Placed(0, w, f) \cup U
    BY <1>1 DEF ShownAt, Placed
<1>4. new \notin U
  <2>1. ASSUME NEW k \in DOMAIN views, new \in P(k) PROVE k = 0
      BY <2>1 DEF Placed
  <2> QED
      BY <2>1
<1> HIDE DEF new, U
<1>5. new \notin ShownAt(f) /\ ShownAt(f)' = ShownAt(f) \cup (IF f = g THEN {new} ELSE {})
    BY <1>2, <1>3, <1>4
<1> QED
    BY <1>1, <1>5 DEF new

\* What one more finding under a change shows.
LEMMA ChangeShown ==
    ASSUME NEW k \in DOMAIN views, k # 0, views[k] \in Seq(Findings), NEW g \in Findings,
           views' = [views EXCEPT ![k] = Append(@, g)], warnings' = warnings, NEW f
    PROVE  /\ <<k, Len(views[k]) + 1>> \notin ShownAt(f)
           /\ ShownAt(f)' = ShownAt(f) \cup (IF f = g THEN {<<k, Len(views[k]) + 1>>} ELSE {})
<1>1. PICK v, w, u : v = views[k] /\ w = views /\ u = warnings
    OBVIOUS
<1> DEFINE new  == <<k, Len(v) + 1>>
           P(j) == Placed(j, w[j], f)
           Q(j) == IF j = k THEN Placed(k, Append(v, g), f) ELSE P(j)
           Rest == Placed(0, u, f) \cup UNION {P(j) : j \in DOMAIN w \ {k}}
           Add  == IF f = g THEN {new} ELSE {}
<1>2. Placed(k, Append(v, g), f) = P(k) \cup Add /\ new \notin P(k)
    BY <1>1, PlacedFacts
<1>3. ShownAt(f) = Rest \cup P(k)
  <2>1. UNION {P(j) : j \in DOMAIN w} = P(k) \cup UNION {P(j) : j \in DOMAIN w \ {k}}
      BY <1>1
  <2>2. ShownAt(f) = Placed(0, u, f) \cup UNION {P(j) : j \in DOMAIN w}
      BY <1>1 DEF ShownAt
  <2> QED
      BY <2>1, <2>2
<1>4. ShownAt(f)' = Rest \cup Placed(k, Append(v, g), f)
  <2>1. views' = [w EXCEPT ![k] = Append(v, g)] /\ warnings' = u
      BY <1>1
  <2>2. ShownAt(f)' = Placed(0, u, f) \cup UNION {Placed(j, [w EXCEPT ![k] = Append(v, g)][j], f) : j \in DOMAIN w}
      BY <2>1 DEF ShownAt, Placed
  <2>3. ASSUME NEW j \in DOMAIN w PROVE Placed(j, [w EXCEPT ![k] = Append(v, g)][j], f) = Q(j)
      BY <1>1
  <2>4. ShownAt(f)' = Placed(0, u, f) \cup UNION {Q(j) : j \in DOMAIN w}
      BY <2>2, <2>3
  <2>5. UNION {Q(j) : j \in DOMAIN w} = Q(k) \cup UNION {P(j) : j \in DOMAIN w \ {k}}
      BY <1>1
  <2> QED
      BY <2>4, <2>5
<1>5. new \notin Rest
  <2>1. new \notin Placed(0, u, f)
      BY DEF Placed
  <2>2. ASSUME NEW j \in DOMAIN w \ {k} PROVE new \notin P(j)
      BY DEF Placed
  <2> QED
      BY <2>1, <2>2
<1> HIDE DEF new, P, Rest, Add
<1>6. new \notin ShownAt(f) /\ ShownAt(f)' = ShownAt(f) \cup Add
    BY <1>2, <1>3, <1>4, <1>5
<1> QED
    BY <1>1, <1>6 DEF new, Add

\* The place of a finding.
LEMMA PlaceFacts ==
    ASSUME changes \in Seq(Change), NEW f, NEW k \in placeOf(f)
    PROVE  /\ k \in DOMAIN changes
           /\ \/ k \in Covering(f)
              \/ Covering(f) = {} /\ (k \in SameNode(f) \/ SameArticle(f) = {k})
<1> DEFINE n == Len(changes)
<1>1. n \in Nat /\ DOMAIN changes = 1..n
    BY SeqFacts
<1>2. /\ Covering(f) \subseteq DOMAIN changes /\ SameNode(f) \subseteq DOMAIN changes
      /\ SameArticle(f) \subseteq DOMAIN changes
    BY DEF Covering, SameNode, SameArticle
<1> HIDE DEF n
<1>3. CASE Covering(f) # {}
  <2>1. k = Max(Covering(f))
      BY <1>3 DEF placeOf, matchChange
  <2>2. Covering(f) \in SUBSET Nat /\ \A j \in Covering(f) : j <= n
      BY <1>1, <1>2
  <2>3. Max(Covering(f)) \in Covering(f)
      BY <1>1, <1>3, <2>2, MaxFacts
  <2> QED
      BY <1>2, <2>1, <2>3
<1>4. CASE Covering(f) = {} /\ SameNode(f) # {}
  <2>1. k = Min(SameNode(f))
      BY <1>4 DEF placeOf, matchChange
  <2>2. SameNode(f) \in SUBSET Nat
      BY <1>1, <1>2
  <2>3. Min(SameNode(f)) \in SameNode(f)
      BY <1>4, <2>2, MinFacts
  <2> QED
      BY <1>2, <1>4, <2>1, <2>3
<1>5. CASE Covering(f) = {} /\ SameNode(f) = {}
  <2>1. Cardinality(SameArticle(f)) = 1 /\ k \in SameArticle(f)
      BY <1>5 DEF placeOf, matchChange
  <2>2. IsFiniteSet(SameArticle(f))
      BY <1>1, <1>2, FS_Interval, FS_Subset
  <2>3. SameArticle(f) = {k}
      BY <2>1, <2>2, FS_Singleton
  <2> QED
      BY <1>2, <1>5, <2>1, <2>3
<1> QED
    BY <1>3, <1>4, <1>5

\* The place of a finding depends on the changes alone.
LEMMA SamePlace ==
    ASSUME changes' = changes, NEW f
    PROVE  placeOf(f)' = placeOf(f)
    BY DEF placeOf, matchChange, Covering, SameNode, SameArticle, PrevIn, CurrIn

\* The next finding is filed in one place.
LEMMA FiledOne ==
    ASSUME Reasons, Filing, AtFinding, unfiled' = Tail(unfiled), found' = found, NEW new,
           \A f \in ToSet(found) : /\ new \notin ShownAt(f)
                                   /\ ShownAt(f)' = ShownAt(f) \cup (IF f = Filed THEN {new} ELSE {})
    PROVE  \E n \in 0..Len(found') :
              /\ unfiled' = SubSeq(found', n + 1, Len(found'))
              /\ \A f \in ToSet(found') :
                   IsFiniteSet(ShownAt(f)') /\ Cardinality(ShownAt(f)') = Cardinality(Among(n, f)')
<1>1. found \in Seq(Findings) /\ Len(found) \in Nat
    BY SeqFacts DEF Reasons
<1>2. PICK n \in 0..Len(found) :
         /\ unfiled = SubSeq(found, n + 1, Len(found))
         /\ \A f \in ToSet(found) :
              IsFiniteSet(ShownAt(f)) /\ Cardinality(ShownAt(f)) = Cardinality(Among(n, f))
    BY DEF Filing, AtFinding
<1>3. /\ n + 1 \in 1..Len(found) /\ Filed = found[n + 1]
      /\ unfiled' = SubSeq(found, (n + 1) + 1, Len(found))
  <2>1. unfiled # <<>> /\ (n + 1) + 1 = n + 2
      BY <1>1 DEF AtFinding
  <2> QED
      BY <1>1, <1>2, <2>1, UnfiledFacts DEF Filed
<1>4. ASSUME NEW f \in ToSet(found)
      PROVE  IsFiniteSet(ShownAt(f)') /\ Cardinality(ShownAt(f)') = Cardinality(Among(n + 1, f))
  <2>1. PICK S, T : S = ShownAt(f) /\ T = ShownAt(f)'
      OBVIOUS
  <2>2. /\ IsFiniteSet(S) /\ Cardinality(S) = Cardinality(Among(n, f))
        /\ new \notin S /\ T = S \cup (IF f = found[n + 1] THEN {new} ELSE {})
      BY <1>2, <1>3, <2>1
  <2>3. IsFiniteSet(T) /\ Cardinality(T) = Cardinality(Among(n + 1, f))
    <3>1. n \in Nat
        BY <1>1
    <3> QED
        BY <2>2, <3>1, ShownAsOftenAsFound
  <2> QED
      BY <2>1, <2>3
<1>5. PICK m : m = n + 1
    OBVIOUS
<1>6. m \in 0..Len(found') /\ unfiled' = SubSeq(found', m + 1, Len(found'))
  <2>1. m \in 0..Len(found)
      BY <1>1, <1>3, <1>5
  <2> QED
      BY <1>3, <1>5, <2>1
<1>7. ASSUME NEW f \in ToSet(found')
      PROVE  IsFiniteSet(ShownAt(f)') /\ Cardinality(ShownAt(f)') = Cardinality(Among(m, f)')
    BY <1>4, <1>5 DEF Among
<1> QED
    BY <1>6, <1>7

\* The finding that is next is one that was found.
LEMMA FiledFacts ==
    ASSUME Reasons, Filing, AtFinding
    PROVE  Filed \in Findings /\ Filed \in ToSet(found)
<1>1. found \in Seq(Findings) /\ Len(found) \in Nat
    BY SeqFacts DEF Reasons
<1>2. PICK n \in 0..Len(found) : unfiled = SubSeq(found, n + 1, Len(found))
    BY DEF Filing, AtFinding
<1>3. n + 1 \in 1..Len(found) /\ Filed = found[n + 1]
    BY <1>1, <1>2, UnfiledFacts DEF AtFinding, Filed
<1> QED
    BY <1>1, <1>3, SeqFacts

\* The findings are filed one by one, each where it belongs.
LEMMA FilingStep ==
    ASSUME Documents, Apart, Reasons, Filing, [Next]_vars
    PROVE  Filing'
<1> DEFINE Late == {"filing", "shown"}
           FiledTo(n) ==
              /\ unfiled = SubSeq(found, n + 1, Len(found))
              /\ \A f \in ToSet(found) : IsFiniteSet(ShownAt(f)) /\ Cardinality(ShownAt(f)) = Cardinality(Among(n, f))
           Filed2 == \E n \in 0..Len(found) : FiledTo(n)
<1>1. DOMAIN changes = 1..Len(changes) /\ Len(changes) \in Nat /\ changes \in Seq(Change)
    BY SeqFacts DEF Apart
<1>2. CASE phase' \notin Late /\ phase \notin Late /\ views' = views /\ warnings' = warnings
    BY <1>2 DEF Filing
<1>3. CASE /\ changes' = changes /\ found' = found /\ unfiled' = unfiled /\ views' = views /\ warnings' = warnings
           /\ (phase' \in Late <=> phase \in Late) /\ (phase' = "shown" => phase = "shown" \/ unfiled = <<>>)
  <2>1. \A f : ShownAt(f)' = ShownAt(f) /\ placeOf(f)' = placeOf(f) /\ (\A n : Among(n, f)' = Among(n, f))
      BY <1>3, SamePlace DEF ShownAt, Placed, Among
  <2>2. \A k \in DOMAIN views : \A f \in ToSet(views[k]) : placeOf(f)' = placeOf(f)
      BY <2>1
  <2>3. Filed2 => Filed2'
      BY <1>3, <2>1
  <2> HIDE DEF Filed2
  <2>4. /\ phase \notin Late => views = <<>> /\ warnings = <<>>
        /\ phase \in Late =>
             /\ DOMAIN views = DOMAIN changes /\ \A k \in DOMAIN views : views[k] \in Seq(Findings)
             /\ warnings \in Seq(Findings)
             /\ \A k \in DOMAIN views : \A f \in ToSet(views[k]) : k \in placeOf(f)
             /\ Filed2
        /\ phase = "shown" => unfiled = <<>>
      BY DEF Filing, Filed2
  <2>5. \A k \in DOMAIN views' : \A f \in ToSet(views'[k]) : phase' \in Late => k \in placeOf(f)'
      BY <1>3, <2>1, <2>4
  <2>6. /\ phase' \notin Late => views' = <<>> /\ warnings' = <<>>
        /\ phase' \in Late =>
             /\ DOMAIN views' = DOMAIN changes' /\ \A k \in DOMAIN views' : views'[k] \in Seq(Findings)
             /\ warnings' \in Seq(Findings)
             /\ Filed2'
        /\ phase' = "shown" => unfiled' = <<>>
      BY <1>3, <2>3, <2>4
  <2> QED
      BY <2>5, <2>6 DEF Filing, Filed2
<1>4. CASE BuildView
  <2>1. /\ phase = "assembled" /\ unfiled' = found /\ views' = [k \in DOMAIN changes |-> <<>>]
        /\ phase' = "filing" /\ warnings' = <<>> /\ found' = found /\ changes' = changes
      BY <1>4 DEF BuildView, Filing, diffVars, refVars
  <2>2. found \in Seq(Findings)
      BY DEF Reasons
  <2>3. \A f : \A k \in DOMAIN views' : f \notin ToSet(views'[k])
      BY <2>1 DEF ToSet
  <2>4. ASSUME NEW f PROVE ShownAt(f)' = {}
    <3>1. PICK v, w : v = views' /\ w = warnings'
        OBVIOUS
    <3>2. ShownAt(f)' = Placed(0, w, f) \cup UNION {Placed(k, v[k], f) : k \in DOMAIN v}
        BY <3>1 DEF ShownAt, Placed
    <3>3. \A k : Placed(k, <<>>, f) = {}
        BY DEF Placed
    <3>4. w = <<>> /\ \A k \in DOMAIN v : v[k] = <<>>
        BY <2>1, <3>1
    <3> QED
        BY <3>2, <3>3, <3>4
  <2>5. \A f : Among(0, f)' = {}
      BY DEF Among
  <2>6. IsFiniteSet({}) /\ Cardinality({}) = 0
      BY FS_EmptySet
  <2>7. unfiled' = SubSeq(found', 0 + 1, Len(found')) /\ 0 \in 0..Len(found')
    <3>1. SubSeq(found, 1, Len(found)) = found /\ Len(found) \in Nat
        BY <2>2, SubSeqFull, LenProperties
    <3> QED
        BY <2>1, <3>1
  <2>8. Filed2'
      BY <2>4, <2>5, <2>6, <2>7
  <2>9. \A k \in DOMAIN views' : views'[k] \in Seq(Findings)
      BY <2>1, EmptySeq
  <2>10. warnings' \in Seq(Findings) /\ DOMAIN views' = DOMAIN changes'
      BY <2>1, EmptySeq
  <2> HIDE DEF FiledTo
  <2> QED
      BY <2>1, <2>3, <2>8, <2>9, <2>10 DEF Filing, FiledTo
<1>5. CASE FileWarning \/ FileUnderChange
  <2>1. /\ AtFinding /\ unfiled' = Tail(unfiled) /\ found' = found /\ changes' = changes /\ phase' = phase
        /\ phase = "filing"
      BY <1>5 DEF FileWarning, FileUnderChange, AtFinding, diffVars, refVars
  <2>2. /\ DOMAIN views = DOMAIN changes /\ \A k \in DOMAIN views : views[k] \in Seq(Findings)
        /\ warnings \in Seq(Findings)
        /\ \A k \in DOMAIN views : \A f \in ToSet(views[k]) : k \in placeOf(f)
      BY <2>1 DEF Filing
  <2>3. Filed \in Findings
      BY <2>1, FiledFacts
  <2>4. \A f : placeOf(f)' = placeOf(f)
      BY <2>1, SamePlace
  <2>5. CASE FileWarning
    <3>1. warnings' = Append(warnings, Filed) /\ views' = views
        BY <2>5 DEF FileWarning
    <3>2. 0 \notin DOMAIN views
        BY <1>1, <2>2
    <3>3. PICK g, new : g = Filed /\ new = <<0, Len(warnings) + 1>>
        OBVIOUS
    <3>4. \A f : /\ new \notin ShownAt(f)
                 /\ ShownAt(f)' = ShownAt(f) \cup (IF f = Filed THEN {new} ELSE {})
        BY <2>2, <2>3, <3>1, <3>2, <3>3, WarningShown
    <3>5. Filed2'
        BY <2>1, <3>4, FiledOne
    <3>6. warnings' \in Seq(Findings)
        BY <2>2, <2>3, <3>1, AppendFacts
    <3>7. \A k \in DOMAIN views' : \A f \in ToSet(views'[k]) : k \in placeOf(f)'
        BY <2>2, <2>4, <3>1
    <3> HIDE DEF FiledTo
    <3> QED
        BY <2>1, <2>2, <3>1, <3>5, <3>6, <3>7 DEF Filing, FiledTo
  <2>6. CASE FileUnderChange
    <3>1. PICK k \in placeOf(Filed) : views' = [views EXCEPT ![k] = Append(@, Filed)]
        BY <2>6 DEF FileUnderChange
    <3>2. warnings' = warnings
        BY <2>6 DEF FileUnderChange
    <3>3. PICK g, v, w : g = Filed /\ v = views[k] /\ w = Append(v, g)
        OBVIOUS
    <3>4. k \in DOMAIN views /\ k # 0
        BY <1>1, <2>2, PlaceFacts
    <3>5. PICK new : new = <<k, Len(views[k]) + 1>>
        OBVIOUS
    <3>6. \A f : /\ new \notin ShownAt(f)
                 /\ ShownAt(f)' = ShownAt(f) \cup (IF f = Filed THEN {new} ELSE {})
        BY <2>2, <2>3, <3>1, <3>2, <3>3, <3>4, <3>5, ChangeShown
    <3>7. Filed2'
        BY <2>1, <3>6, FiledOne
    <3>8. w \in Seq(Findings) /\ \A f \in ToSet(w) : f = g \/ f \in ToSet(v)
      <4>1. v \in Seq(Findings) /\ g \in Findings
          BY <2>2, <2>3, <3>3, <3>4
      <4>2. /\ w \in Seq(Findings) /\ Len(w) = Len(v) + 1 /\ Len(v) \in Nat
            /\ \A i \in 1..Len(v) : w[i] = v[i]
            /\ w[Len(v) + 1] = g
          BY <3>3, <4>1, AppendFacts, LenProperties
      <4>3. ToSet(w) = {w[i] : i \in 1..Len(w)} /\ ToSet(v) = {v[i] : i \in 1..Len(v)}
          BY <4>1, <4>2, SeqFacts
      <4>4. \A i \in 1..Len(w) : i \in 1..Len(v) \/ i = Len(v) + 1
          BY <4>2
      <4> QED
          BY <4>2, <4>3, <4>4
    <3>9. DOMAIN views' = DOMAIN views /\ \A j \in DOMAIN views : views'[j] = IF j = k THEN w ELSE views[j]
        BY <3>1, <3>3
    <3>10. \A j \in DOMAIN views' : views'[j] \in Seq(Findings)
        BY <2>2, <3>8, <3>9
    <3>11. ASSUME NEW j \in DOMAIN views', NEW f \in ToSet(views'[j]) PROVE j \in placeOf(f)'
      <4>1. CASE j = k
        <5>1. f = g \/ f \in ToSet(v)
            BY <3>8, <3>9, <4>1
        <5> QED
            BY <2>2, <2>4, <3>1, <3>3, <3>4, <4>1, <5>1
      <4>2. CASE j # k
          BY <2>2, <2>4, <3>9, <4>2
      <4> QED
          BY <4>1, <4>2
    <3> HIDE DEF FiledTo
    <3> QED
        BY <2>1, <2>2, <3>2, <3>7, <3>9, <3>10, <3>11 DEF Filing, FiledTo
  <2> QED
      BY <1>5, <2>5, <2>6
<1>6. CASE Show
  <2>1. /\ changes' = changes /\ found' = found /\ unfiled' = unfiled /\ views' = views /\ warnings' = warnings
        /\ phase = "filing" /\ phase' = "shown" /\ unfiled = <<>>
      BY <1>6 DEF Show, diffVars, refVars
  <2> QED
      BY <1>3, <2>1
<1>7. CASE UNCHANGED vars
  <2>1. /\ changes' = changes /\ found' = found /\ unfiled' = unfiled /\ views' = views /\ warnings' = warnings
        /\ phase' = phase
      BY <1>7 DEF vars, diffVars, refVars
  <2> QED
      BY <1>3, <2>1
<1>8. CASE DiffNext /\ UNCHANGED <<refVars, unfiled, views, warnings>>
  <2>1. phase' \notin Late /\ phase \notin Late /\ views' = views /\ warnings' = warnings
      BY <1>8 DEF DiffNext, Revise, Align, ReadEqual, ReadDelete, ReadInsert, PairRewrite, SingleRun, DropBlank
  <2> QED
      BY <1>2, <2>1
<1>9. CASE RefNext /\ UNCHANGED <<unfiled, views, warnings>>
  <2>1. phase' \notin Late /\ phase \notin Late /\ views' = views /\ warnings' = warnings
      BY <1>9 DEF RefNext, AddNumberingFinding, CompareReferences, AtCitation, SkipResolved, ReportDangling,
          ReportBroken, ReportRemoved
  <2> QED
      BY <1>2, <2>1
<1> QED
    BY <1>4, <1>5, <1>6, <1>7, <1>8, <1>9 DEF Next

-----------------------------------------------------------------------------
(* The theorems.                                                           *)

\* A draft that is not edited yet satisfies the invariant.
LEMMA InitInv == Init => ReportInv
<1> SUFFICES ASSUME Init PROVE ReportInv
    OBVIOUS
<1>1. /\ prev \in Drafts /\ curr = prev /\ edits = 0 /\ matching = {} /\ pi = 1 /\ ci = 1
      /\ runs = <<>> /\ changes = <<>> /\ phase = "draft" /\ cited = <<>> /\ relocations = <<>> /\ found = <<>>
      /\ views = <<>> /\ warnings = <<>>
    BY DEF Init, DiffInit, RefInit
<1>2. IsDocument(prev)
  <2>1. prev \in Seq(Paras) /\ prev # <<>> /\ prev[1].kind = "pasal"
      BY <1>1, TextDiffAssumption
  <2>2. Len(prev) \in Nat /\ Len(prev) # 0
      BY <2>1, EmptySeq, LenProperties
  <2> QED
      BY <2>1, <2>2 DEF IsDocument
<1>3. Documents
    BY <1>1, <1>2, TextDiffAssumption DEF Documents, Phases
<1>4. Len(prev) \in Nat /\ Len(curr) \in Nat
    BY <1>1, <1>2, DocumentFacts
<1>5. Alignment
    BY <1>1, <1>4 DEF Alignment, InOrder
<1>6. /\ <<>> \in Seq(RunType) /\ <<>> \in Seq(Change) /\ <<>> \in Seq(Findings)
      /\ <<>> \in Seq(ToSet(ReferencesOf(curr))) /\ Len(<<>>) = 0
    BY EmptySeq
<1>7. Apart
    BY <1>1, <1>6 DEF Apart
<1>8. PrevTaken = {} /\ CurrTaken = {}
    BY <1>1, <1>6 DEF PrevTaken, CurrTaken
<1>9. Passed
    BY <1>1, <1>8 DEF Passed
<1>10. Reasons
    BY <1>1, <1>6 DEF Reasons
<1>11. Complete
    BY <1>1, <1>6 DEF Complete, Done
<1>12. Filing
    BY <1>1 DEF Filing
<1> QED
    BY <1>3, <1>5, <1>7, <1>9, <1>10, <1>11, <1>12 DEF ReportInv

\* Every step keeps the invariant.
LEMMA StepInv == ReportInv /\ [Next]_vars => ReportInv'
<1> SUFFICES ASSUME ReportInv, [Next]_vars PROVE ReportInv'
    OBVIOUS
<1>1. Documents /\ Alignment /\ Apart /\ Passed /\ Reasons /\ Complete /\ Filing
    BY DEF ReportInv
<1>2. Documents'
    BY <1>1, DocumentsStep
<1>3. Alignment'
    BY <1>1, AlignmentStep
<1>4. Apart' /\ Passed'
    BY <1>1, ChangesStep
<1>5. Reasons'
    BY <1>1, ReasonsStep
<1>6. Complete'
    BY <1>1, CompleteStep
<1>7. Filing'
    BY <1>1, FilingStep
<1> QED
    BY <1>2, <1>3, <1>4, <1>5, <1>6, <1>7 DEF ReportInv

\* Whatever is edited and however it is aligned, what the report has read, changed, found
\* and filed fits together.
THEOREM ReportFitsTogether == Spec => []ReportInv
    BY InitInv, StepInv, PTL DEF Spec

\* The types: positions and changes lie within the two versions, findings point at
\* paragraphs of their version, and relocations at nodes of the new one.
THEOREM ReportTypesAreKept == Spec => []TypeOK
<1>1. ReportInv => TypeOK
  <2> SUFFICES ASSUME ReportInv PROVE TypeOK
      OBVIOUS
  <2>1. Documents /\ Alignment /\ Apart /\ Passed /\ Reasons /\ Complete /\ Filing
      BY DEF ReportInv
  <2>2. /\ DOMAIN prev = 1..Len(prev) /\ Len(prev) \in Nat /\ DOMAIN curr = 1..Len(curr) /\ Len(curr) \in Nat
      BY <2>1, DocumentFacts DEF Documents
  <2>3. changes \in Seq(Change) /\ DOMAIN changes = 1..Len(changes)
      BY <2>1, SeqFacts DEF Apart
  <2>4. DiffTypeOK
    <3>1. edits <= MaxEdits /\ pi \in 1..(Len(prev) + 1) /\ ci \in 1..(Len(curr) + 1)
        BY <2>1, TextDiffAssumption DEF Documents, Alignment
    <3>2. ASSUME NEW k \in DOMAIN changes PROVE PrevIn(k) \subseteq DOMAIN prev /\ CurrIn(k) \subseteq DOMAIN curr
      <4>1. PrevIn(k) \subseteq PrevTaken /\ CurrIn(k) \subseteq CurrTaken
          BY <2>3 DEF PrevTaken, CurrTaken
      <4>2. PrevTaken \subseteq 1..(pi - 1) /\ CurrTaken \subseteq 1..(ci - 1)
          BY <2>1 DEF Passed
      <4>3. 1..(pi - 1) \subseteq DOMAIN prev /\ 1..(ci - 1) \subseteq DOMAIN curr
          BY <2>2, <3>1
      <4> QED
          BY <4>1, <4>2, <4>3
    <3> QED
        BY <3>1, <3>2 DEF DiffTypeOK
  <2>5. RefTypeOK
    <3>1. found \in Seq(Findings) /\ DOMAIN found = 1..Len(found)
        BY <2>1, SeqFacts DEF Reasons
    <3>2. ASSUME NEW k \in DOMAIN found
          PROVE  found[k].para \in IF found[k].side = "prev" THEN DOMAIN prev ELSE DOMAIN curr
      <4>1. OfNumbering(found[k]) \/ OfCitation(found[k]) \/ OfRemoval(found[k])
          BY <2>1, <3>1 DEF Reasons
      <4>2. \A r \in ToSet(ReferencesOf(curr)) : r.para \in DOMAIN curr
          BY <2>1, ReferencesOfFacts DEF Documents
      <4> QED
          BY <4>1, <4>2 DEF OfNumbering, OfCitation, OfRemoval
    <3>3. ASSUME NEW t \in DOMAIN relocations PROVE relocations[t] = <<>> \/ relocations[t] \in Names(currIDs)
      <4>1. relocations[t] = findRelocation(t) /\ phase # "draft"
          BY <2>1 DEF Reasons
      <4>2. /\ IsDocument(prev) /\ IsDocument(curr) /\ prevIDs = IDsOf(prev) /\ currIDs = IDsOf(curr)
          BY <2>1, <4>1 DEF Documents
      <4>3. findRelocation(t) # <<>> => \E j \in NodesOf(curr) : findRelocation(t) = currIDs[j]
          BY <4>2, findRelocationFacts
      <4>4. \A j \in NodesOf(curr) : currIDs[j] \in Names(currIDs)
          BY <4>2, NamesFacts
      <4> QED
          BY <4>1, <4>3, <4>4
    <3> QED
        BY <3>2, <3>3 DEF RefTypeOK
  <2>6. DOMAIN views \subseteq DOMAIN changes
      BY <2>1 DEF Filing
  <2>7. phase \in {"draft", "read", "compared", "citations", "assembled", "filing", "shown"}
      BY <2>1 DEF Documents, Phases
  <2> QED
      BY <2>4, <2>5, <2>6, <2>7 DEF TypeOK
<1> QED
    BY ReportFitsTogether, <1>1, PTL

\* The changes are a partition of what differs: no paragraph is in two of them, and what
\* they leave out of both versions is the same text in the same order.
THEOREM ChangesAreAlwaysAPartition == Spec => []ChangesPartitionTheRevision
<1>1. ReportInv => ChangesPartitionTheRevision
  <2> SUFFICES ASSUME ReportInv PROVE ChangesPartitionTheRevision
      OBVIOUS
  <2>1. Documents /\ Alignment /\ Apart /\ Passed
      BY DEF ReportInv
  <2>2. DOMAIN prev = 1..Len(prev) /\ DOMAIN curr = 1..Len(curr) /\ Len(prev) \in Nat /\ Len(curr) \in Nat
      BY <2>1, DocumentFacts DEF Documents
  <2>3. DOMAIN changes = 1..Len(changes)
      BY <2>1, SeqFacts DEF Apart
  <2>4. EachParagraphOnce
      BY <2>1, <2>3 DEF Apart, EachParagraphOnce
  <2>5. ASSUME phase = "compared"
        PROVE  LET same == {m \in matching : prev[m[1]] # Blank}
               IN  /\ InOrder(same) /\ \A m \in same : prev[m[1]] = curr[m[2]]
                   /\ {p \in DOMAIN prev : prev[p] # Blank /\ \A k \in DOMAIN changes : p \notin PrevIn(k)} = {m[1] : m \in same}
                   /\ {p \in DOMAIN curr : curr[p] # Blank /\ \A k \in DOMAIN changes : p \notin CurrIn(k)} = {m[2] : m \in same}
    <3> DEFINE same  == {m \in matching : prev[m[1]] # Blank}
               Left  == {p \in DOMAIN prev : prev[p] # Blank /\ \A k \in DOMAIN changes : p \notin PrevIn(k)}
               Right == {p \in DOMAIN curr : curr[p] # Blank /\ \A k \in DOMAIN changes : p \notin CurrIn(k)}
    <3>1. /\ matching \subseteq (DOMAIN prev) \X (DOMAIN curr) /\ InOrder(matching)
          /\ \A m \in matching : prev[m[1]] = curr[m[2]]
        BY <2>1 DEF Alignment
    <3>2. InOrder(same) /\ \A m \in same : m \in matching /\ prev[m[1]] = curr[m[2]] /\ prev[m[1]] # Blank
        BY <3>1 DEF InOrder
    <3>3. pi = Len(prev) + 1 /\ ci = Len(curr) + 1 /\ runs = <<>>
      <4>1. <<pi, ci>> = <<Len(prev) + 1, Len(curr) + 1>>
          BY <2>1, <2>5 DEF Alignment, AllRead, Ends
      <4> QED
          BY <2>1, <2>5, <4>1 DEF Passed
    <3>4. 1..(pi - 1) = DOMAIN prev /\ 1..(ci - 1) = DOMAIN curr
        BY <2>2, <3>3
    <3>5. /\ \A p : p \in PrevTaken <=> \E k \in DOMAIN changes : p \in PrevIn(k)
          /\ \A p : p \in CurrTaken <=> \E k \in DOMAIN changes : p \in CurrIn(k)
      <4>1. \A i : i \notin 1..Len(runs)
          BY <3>3
      <4>2. /\ PrevTaken = UNION {PrevIn(k) : k \in 1..Len(changes)}
            /\ CurrTaken = UNION {CurrIn(k) : k \in 1..Len(changes)}
          BY <4>1 DEF PrevTaken, CurrTaken
      <4> QED
          BY <2>3, <4>2
    <3>6. /\ \A m \in matching : m[1] \notin PrevTaken /\ m[2] \notin CurrTaken
          /\ \A p \in DOMAIN prev : p \in PrevTaken \/ (\E m \in matching : m[1] = p) \/ prev[p] = Blank
          /\ \A p \in DOMAIN curr : p \in CurrTaken \/ (\E m \in matching : m[2] = p) \/ curr[p] = Blank
        BY <2>1, <3>4 DEF Passed
    <3> HIDE DEF Blank
    <3>7. \A p : p \in Left <=> p \in {m[1] : m \in same}
        BY <3>1, <3>2, <3>5, <3>6
    <3>8. \A p : p \in Right <=> p \in {m[2] : m \in same}
        BY <3>1, <3>2, <3>5, <3>6
    <3>9. Left = {m[1] : m \in same} /\ Right = {m[2] : m \in same}
        BY <3>7, <3>8
    <3> QED
        BY <3>2, <3>9
  <2> QED
      BY <2>4, <2>5 DEF ChangesPartitionTheRevision, ChangesExplainTheRevision
<1> QED
    BY ReportFitsTogether, <1>1, PTL

\* The name of one node.
LEMMA NodeName ==
    ASSUME NEW d, IsDocument(d), NEW ids, ids = IDsOf(d), NEW p \in NodesOf(d)
    PROVE  /\ ids[p] \in Names(ids) /\ ids[p] \in IDs /\ At(ids, ids[p]) = p
           /\ Last(ids[p]).kind = d[p].kind /\ Last(ids[p]).number = d[p].number
           /\ d[p].kind = "pasal" => Len(ids[p]) = 1
<1>1. ids[p] \in Names(ids)
    BY NamesFacts, Zenon
<1>2. Names(ids) \subseteq IDs /\ At(ids, ids[p]) = p
  <2>1. Names(ids) \subseteq IDs
      BY NamesFacts, Zenon
  <2>2. At(ids, ids[p]) = p
      BY NamesFacts, Zenon
  <2> QED
      BY <2>1, <2>2
<1>3. /\ Last(ids[p]).kind = d[p].kind /\ Last(ids[p]).number = d[p].number
      /\ d[p].kind = "pasal" => Len(ids[p]) = 1
  <2>1. GoodNames(d, ids) /\ Len(ids) = Len(d) /\ NodesOf(d) \subseteq 1..Len(d)
      BY IDsOfFacts, DocumentFacts
  <2> QED
      BY <2>1 DEF GoodNames
<1> QED
    BY <1>1, <1>2, <1>3

\* The path of an article is its number.
LEMMA ArticleName ==
    ASSUME NEW d, IsDocument(d), NEW ids, ids = IDsOf(d), NEW p \in NodesOf(d), d[p].kind = "pasal",
           Last(ids[p]).copy = 1
    PROVE  ids[p] = << Segment("pasal", d[p].number) >> /\ Last(ids[p]).number = d[p].number
<1>1. /\ ids[p] \in IDs /\ Len(ids[p]) = 1
      /\ Last(ids[p]).kind = "pasal" /\ Last(ids[p]).number = d[p].number
    BY NodeName
<1>2. PICK id : id = ids[p]
    OBVIOUS
<1>3. id \in [1..1 -> Segments] /\ Last(id) = id[1] /\ Last(id) \in Segments
    BY <1>1, <1>2, LastFacts
<1>4. Last(id) = Segment("pasal", d[p].number)
    BY <1>1, <1>2, <1>3 DEF Segment, Segments
<1>5. id = << Segment("pasal", d[p].number) >>
  <2>1. PICK last : last = Segment("pasal", d[p].number)
      OBVIOUS
  <2>2. id \in Seq(Segments) /\ Len(id) = 1 /\ id[1] = last /\ last \in Segments
      BY <1>1, <1>2, <1>3, <1>4, <2>1 DEF IDs
  <2>3. <<last>> \in Seq(Segments) /\ Len(<<last>>) = 1 /\ <<last>>[1] = last
      BY <2>2
  <2>4. \A i \in 1..1 : id[i] = <<last>>[i]
      BY <2>2, <2>3
  <2>5. id = <<last>>
      BY <2>2, <2>3, <2>4, SeqEqual
  <2> QED
      BY <2>1, <2>5
<1> QED
    BY <1>1, <1>2, <1>5

\* An article that is reported as gone was edited, unless it shared its number: its
\* heading is in a change.
THEOREM VanishedArticlesAreChanges == Spec => []VanishedArticleIsAChange
<1>1. ReportInv => VanishedArticleIsAChange
  <2> SUFFICES ASSUME ReportInv, phase = "assembled", NEW k \in DOMAIN found,
                      found[k].category = "section_removed", Last(found[k].node).copy = 1
               PROVE  \E j \in DOMAIN changes : found[k].para \in PrevIn(j)
      BY DEF VanishedArticleIsAChange
  <2>1. Documents /\ Alignment /\ Apart /\ Passed /\ Reasons
      BY DEF ReportInv
  <2>2. IsDocument(prev) /\ IsDocument(curr) /\ prevIDs = IDsOf(prev) /\ currIDs = IDsOf(curr)
      BY <2>1 DEF Documents
  <2>3. DOMAIN prev = 1..Len(prev) /\ DOMAIN curr = 1..Len(curr) /\ Len(prev) \in Nat /\ Len(curr) \in Nat
      BY <2>2, DocumentFacts
  <2>4. OfRemoval(found[k])
    <3>1. found \in Seq(Findings) /\ DOMAIN found = 1..Len(found)
        BY <2>1, SeqFacts DEF Reasons
    <3>2. OfNumbering(found[k]) \/ OfCitation(found[k]) \/ OfRemoval(found[k])
        BY <2>1, <3>1 DEF Reasons
    <3> QED
        BY <3>2 DEF OfNumbering, OfCitation
  <2>5. PICK i \in DOMAIN prev : /\ i = found[k].para /\ prev[i].kind = "pasal" /\ prevIDs[i] \notin Names(currIDs)
                                 /\ Last(prevIDs[i]).copy = 1
      BY <2>4 DEF OfRemoval, Gone
  <2>6. i \in NodesOf(prev) /\ prev[i] # Blank
      BY <2>5 DEF NodesOf, Blank, Para
  <2>7. prevIDs[i] = << Segment("pasal", prev[i].number) >>
      BY <2>2, <2>5, <2>6, ArticleName
  <2>8. ASSUME NEW m \in matching, m[1] = i PROVE FALSE
    <3>1. m[2] \in DOMAIN curr /\ curr[m[2]] = prev[i]
        BY <2>1, <2>8 DEF Alignment
    <3>2. m[2] \in NodesOf(curr)
        BY <2>5, <3>1 DEF NodesOf
    <3>3. << Segment("pasal", curr[m[2]].number) >> \in Names(currIDs)
        BY <2>2, <2>5, <3>1, <3>2, NamesFacts
    <3> QED
        BY <2>5, <2>7, <3>1, <3>3
  <2>9. i \in PrevTaken /\ runs = <<>>
    <3>1. <<pi, ci>> = <<Len(prev) + 1, Len(curr) + 1>>
        BY <2>1 DEF Alignment, AllRead, Ends
    <3>2. i \in 1..(pi - 1)
        BY <2>3, <3>1
    <3>3. i \in PrevTaken \/ (\E m \in matching : m[1] = i) \/ prev[i] = Blank
        BY <2>1, <3>2 DEF Passed
    <3> QED
        BY <2>1, <2>6, <2>8, <3>3 DEF Passed
  <2>10. PICK j \in 1..Len(changes) : i \in PrevIn(j)
    <3>1. \A n : n \notin 1..Len(runs)
        BY <2>9
    <3> QED
        BY <2>9, <3>1 DEF PrevTaken
  <2>11. DOMAIN changes = 1..Len(changes)
      BY <2>1, SeqFacts DEF Apart
  <2> QED
      BY <2>5, <2>10, <2>11
<1> QED
    BY ReportFitsTogether, <1>1, PTL

\* The exit code is earned: when it is green no citation and no article is lost, and when
\* it is red a citation is.
THEOREM GateIsAlwaysEarned == Spec => []GateIsEarned
<1>1. ReportInv => GateIsEarned
  <2> SUFFICES ASSUME ReportInv, phase = "assembled" PROVE GateIsEarned
      BY DEF GateIsEarned, GreenGateIsEarned, RedGateIsEarned
  <2>1. Documents /\ Reasons /\ Complete
      BY DEF ReportInv
  <2>2. IsDocument(prev) /\ IsDocument(curr) /\ prevIDs = IDsOf(prev) /\ currIDs = IDsOf(curr)
      BY <2>1 DEF Documents
  <2>3. DOMAIN prev = 1..Len(prev) /\ NodesOf(prev) \subseteq DOMAIN prev
      BY <2>2, DocumentFacts
  <2>4. /\ DOMAIN found = 1..Len(found)
        /\ \A k \in DOMAIN found : found[k] \in Findings
        /\ \A k \in DOMAIN found : OfNumbering(found[k]) \/ OfCitation(found[k]) \/ OfRemoval(found[k])
      BY <2>1, SeqFacts DEF Reasons
  <2> DEFINE critical == \E k \in DOMAIN found : found[k].severity = "critical"
             major    == \E k \in DOMAIN found : found[k].severity = "major"
             calm     == \A k \in DOMAIN found : found[k].severity # "critical"
  <2>5. /\ ExitCode = 0 => ~critical /\ ~major
        /\ ExitCode = 2 => critical
    <3>1. ExitCode = CASE critical -> 2 [] major /\ calm -> 1 [] OTHER -> 0
        BY DEF ExitCode
    <3>2. calm <=> ~critical
        OBVIOUS
    <3> HIDE DEF critical, major, calm
    <3> QED
        BY <3>1, <3>2
  <2>6. /\ cited = <<>>
        /\ \A r \in ToSet(ReferencesOf(curr)) : Lost(r.cite) => r \in ToSet(cited) \/ critical
        /\ \A i \in DOMAIN prev : Gone(i) =>
             \E k \in DOMAIN found : found[k].category = "section_removed" /\ found[k].para = i
      BY <2>1, <2>4 DEF Complete, Done
  <2>7. \A r : r \notin ToSet(cited)
      BY <2>6 DEF ToSet
  <2>8. ASSUME ExitCode = 0, NEW k \in DOMAIN ReferencesOf(curr)
        PROVE  ~Lost(ReferencesOf(curr)[k].cite)
    <3>1. ReferencesOf(curr)[k] \in ToSet(ReferencesOf(curr))
        BY DEF ToSet
    <3> HIDE DEF critical, major
    <3> QED
        BY <2>5, <2>6, <2>7, <2>8, <3>1
  <2>9. ASSUME ExitCode = 0, NEW i \in NodesOf(prev), Gone(i)
        PROVE  \E j \in NodesOf(curr) : curr[j].kind = "pasal" /\ SameText(tokenSet(prev, i), tokenSet(curr, j))
    <3>1. PICK k \in DOMAIN found : found[k].category = "section_removed" /\ found[k].para = i
        BY <2>3, <2>6, <2>9
    <3>2. OfRemoval(found[k])
        BY <2>4, <3>1 DEF OfNumbering, OfCitation
    <3>3. found[k].severity # "major"
        BY <2>5, <2>9
    <3>4. findRelocation(prevIDs[i]) # <<>>
        BY <3>1, <3>2, <3>3 DEF OfRemoval
    <3>5. PICK j \in NodesOf(curr) :
            /\ curr[j].kind = prev[At(prevIDs, prevIDs[i])].kind
            /\ SameText(tokenSet(prev, At(prevIDs, prevIDs[i])), tokenSet(curr, j))
        BY <2>2, <3>4, findRelocationFacts
    <3>6. At(prevIDs, prevIDs[i]) = i /\ prev[i].kind = "pasal"
        BY <2>2, <2>9, NodeName DEF Gone
    <3> QED
        BY <3>5, <3>6
  <2>10. ASSUME ExitCode = 2
         PROVE  \E k \in DOMAIN ReferencesOf(curr) : Lost(ReferencesOf(curr)[k].cite)
    <3>1. PICK k \in DOMAIN found : found[k].severity = "critical"
        BY <2>5, <2>10
    <3>2. OfCitation(found[k])
        BY <2>4, <3>1 DEF OfNumbering, OfRemoval
    <3>3. PICK r \in ToSet(ReferencesOf(curr)) : Lost(r.cite)
        BY <3>1, <3>2 DEF OfCitation
    <3> QED
        BY <3>3 DEF ToSet
  <2>11. GreenGateIsEarned
      BY <2>8, <2>9 DEF GreenGateIsEarned, Lost, Gone
  <2>12. RedGateIsEarned
      BY <2>10 DEF RedGateIsEarned, Lost
  <2> QED
      BY <2>11, <2>12 DEF GateIsEarned
<1> QED
    BY ReportFitsTogether, <1>1, PTL

\* A citation of a whole article that is repointed resolves again, and to a node with the
\* text of the one that it cited.
THEOREM RepointsLeadToTheText == Spec => []RepointLeadsToTheText
<1>1. ReportInv => RepointLeadsToTheText
  <2> SUFFICES ASSUME ReportInv, phase = "assembled", NEW k \in DOMAIN found, NEW a \in found[k].actions,
                      a.type = "reference_update", Len(a.new) = 1,
                      Last(found[k].node).kind = "pasal", Last(found[k].node).copy = 1
               PROVE  LET reached == Resolve(Names(currIDs), Absolute(a.new[1], 0))
                      IN  /\ reached = found[k].node
                          /\ \E r \in ToSet(ReferencesOf(curr)) :
                               /\ r.para = found[k].para
                               /\ SameText(tokenSet(prev, At(prevIDs, TargetID(r.cite))), tokenSet(curr, At(currIDs, reached)))
      BY DEF RepointLeadsToTheText
  <2>1. Documents /\ Reasons
      BY DEF ReportInv
  <2>2. IsDocument(prev) /\ IsDocument(curr) /\ prevIDs = IDsOf(prev) /\ currIDs = IDsOf(curr)
      BY <2>1 DEF Documents
  <2>3. PICK f : f = found[k]
      OBVIOUS
  <2>4. OfCitation(f) /\ f.category = "shifted"
    <3>1. found \in Seq(Findings) /\ DOMAIN found = 1..Len(found)
        BY <2>1, SeqFacts DEF Reasons
    <3>2. OfNumbering(f) \/ OfCitation(f) \/ OfRemoval(f)
        BY <2>1, <2>3, <3>1 DEF Reasons
    <3> QED
        BY <2>3, <3>2 DEF OfNumbering, OfCitation, OfRemoval
  <2>5. PICK r \in ToSet(ReferencesOf(curr)) :
          /\ f.para = r.para /\ f.node = findRelocation(TargetID(r.cite)) /\ f.node # <<>>
          /\ f.actions = repointAction(r, f.node)
      BY <2>4 DEF OfCitation
  <2>6. PICK j \in NodesOf(curr) :
          /\ f.node = currIDs[j]
          /\ SameText(tokenSet(prev, At(prevIDs, TargetID(r.cite))), tokenSet(curr, j))
      BY <2>2, <2>5, findRelocationFacts
  <2>7. f.node \in Names(currIDs) /\ f.node \in IDs /\ At(currIDs, f.node) = j
    <3>1. currIDs[j] \in Names(currIDs) /\ At(currIDs, currIDs[j]) = j /\ currIDs[j] \in IDs
        BY <2>2, NodeName
    <3> QED
        BY <2>6, <3>1
  <2>8. f.node = << Segment("pasal", Last(f.node).number) >>
    <3>1. Last(currIDs[j]).kind = curr[j].kind /\ Last(currIDs[j]).kind = "pasal" /\ Last(currIDs[j]).copy = 1
        BY <2>2, <2>3, <2>6, NodeName
    <3>2. currIDs[j] = << Segment("pasal", curr[j].number) >> /\ Last(currIDs[j]).number = curr[j].number
        BY <2>2, <3>1, ArticleName
    <3> QED
        BY <2>6, <3>2
  <2>9. a.new = << Last(f.node).number >>
    <3>1. r \in Cited
        BY <2>2, ReferencesOfFacts, RangeIsFinite
    <3> QED
        BY <2>3, <2>5, <2>7, <3>1, repointActionFacts
  <2>10. Resolve(Names(currIDs), Absolute(a.new[1], 0)) = f.node
    <3>1. a.new[1] = Last(f.node).number
        BY <2>9
    <3>2. TargetID(Absolute(a.new[1], 0)) = << Segment("pasal", a.new[1]) >>
        BY DEF TargetID, Absolute, SubLevel
    <3>3. TargetID(Absolute(a.new[1], 0)) = f.node
        BY <2>8, <3>1, <3>2
    <3> QED
        BY <2>7, <3>3 DEF Resolve
  <2> QED
      BY <2>3, <2>5, <2>6, <2>7, <2>10
<1> QED
    BY ReportFitsTogether, <1>1, PTL

\* Every finding is shown as often as it was found, and a fix of an edited paragraph with
\* the edit that it is about.
THEOREM FindingsAreAlwaysFiledOnce == Spec => []FindingsAreFiledOnce
<1>1. ReportInv => FindingsAreFiledOnce
  <2> SUFFICES ASSUME ReportInv PROVE FindingsAreFiledOnce
      OBVIOUS
  <2>1. Apart /\ Reasons /\ Filing
      BY DEF ReportInv
  <2>2. changes \in Seq(Change) /\ DOMAIN changes = 1..Len(changes)
      BY <2>1, SeqFacts DEF Apart
  <2>3. found \in Seq(Findings) /\ DOMAIN found = 1..Len(found) /\ Len(found) \in Nat
      BY <2>1, SeqFacts DEF Reasons
  <2>4. EveryFindingShownOnce
    <3> SUFFICES ASSUME phase = "shown", NEW f \in ToSet(found)
                 PROVE  Cardinality(ShownAt(f)) = Cardinality({k \in DOMAIN found : found[k] = f})
        BY DEF EveryFindingShownOnce
    <3>1. PICK n \in 0..Len(found) :
             /\ unfiled = SubSeq(found, n + 1, Len(found))
             /\ \A g \in ToSet(found) : Cardinality(ShownAt(g)) = Cardinality(Among(n, g))
        BY <2>1 DEF Filing
    <3>2. unfiled = <<>>
        BY <2>1 DEF Filing
    <3>3. n = Len(found)
        BY <2>3, <3>1, <3>2, UnfiledFacts
    <3>4. Among(n, f) = {k \in DOMAIN found : found[k] = f}
        BY <2>3, <3>3 DEF Among
    <3> QED
        BY <3>1, <3>4
  <2>5. FixesAreFiledWithTheirEdit
    <3> SUFFICES ASSUME NEW k \in DOMAIN views, NEW f \in ToSet(views[k])
                 PROVE  \/ Covering(f) = {k}
                        \/ Covering(f) = {} /\ f.node # <<>> /\ (changes[k].node = f.node \/ SameArticle(f) = {k})
        BY DEF FixesAreFiledWithTheirEdit
    <3>1. k \in placeOf(f)
        BY <2>1 DEF Filing
    <3>2. /\ k \in DOMAIN changes
          /\ \/ k \in Covering(f)
             \/ Covering(f) = {} /\ (k \in SameNode(f) \/ SameArticle(f) = {k})
        BY <2>2, <3>1, PlaceFacts
    <3>3. k \in Covering(f) => Covering(f) = {k}
        BY <2>1, <2>2 DEF Covering, Apart
    <3>4. k \in SameNode(f) => f.node # <<>> /\ changes[k].node = f.node
        BY DEF SameNode
    <3>5. SameArticle(f) = {k} => f.node # <<>>
      <4>1. articleOf(<<>>) = {}
          BY DEF articleOf
      <4>2. SameArticle(f) = {k} => articleOf(f.node) # {}
          BY DEF SameArticle
      <4> QED
          BY <4>1, <4>2
    <3> QED
        BY <3>2, <3>3, <3>4, <3>5
  <2> QED
      BY <2>4, <2>5 DEF FindingsAreFiledOnce
<1> QED
    BY ReportFitsTogether, <1>1, PTL
=============================================================================
