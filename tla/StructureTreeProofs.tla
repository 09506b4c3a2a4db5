------------------------ MODULE StructureTreeProofs -------------------------
(***************************************************************************)
(* Theorems about StructureTree, for every style of drafting and documents *)
(* of every length: the open nodes are a path, the node that was innermost *)
(* while the tree was built owns the paragraph in the finished tree, every *)
(* node has a name of its own, and a list that is written in order counts. *)
(*                                                                         *)
(* Induction over numbers is taken from the well-foundedness of inclusion  *)
(* among finite sets, which the library states without an operator; that   *)
(* recursive functions solve their equations follows from it (Recursion).  *)
(***************************************************************************)
EXTENDS StructureTree, FiniteSetTheorems, SequenceTheorems, TLAPS

-----------------------------------------------------------------------------
(* Numbers and sets of numbers.                                            *)

\* Every set of naturals that is not empty has a least element.
LEMMA LeastElement ==
    ASSUME NEW S \in SUBSET Nat, S # {}
    PROVE  \E m \in S : \A k \in S : m <= k
<1> DEFINE Below == {0..k : k \in S}
           R == StrictSubsetOrdering(Nat)
           F == FiniteSubsetsOf(Nat)
<1>1. ASSUME NEW k \in S PROVE 0..k \in F
  <2>1. IsFiniteSet(0..k)
      BY FS_Interval
  <2> QED
      BY <2>1 DEF FiniteSubsetsOf
<1>2. Below \subseteq F /\ Below # {}
    BY <1>1
<1>3. IsWellFoundedOn(R, F)
    BY FS_StrictSubsetOrderingWellFounded
<1> HIDE DEF R, F
<1>4. \E B \in Below : \A C \in Below : ~ (<<C, B>> \in R)
  <2> HIDE DEF Below
  <2> QED
      BY <1>2, <1>3, WFMin
<1>5. PICK m \in S : \A k \in S : ~ (<<0..k, 0..m>> \in R)
    BY <1>4
<1>6. ASSUME NEW k \in S, ~(m <= k) PROVE FALSE
  <2>1. 0..k \subseteq 0..m /\ m \notin 0..k /\ m \in 0..m
      BY <1>6
  <2>2. <<0..k, 0..m>> \in R
      BY <2>1 DEF R, StrictSubsetOrdering
  <2> QED
      BY <1>5, <2>2
<1> QED
    BY <1>6

\* What holds of 0 and of the successor of each number it holds of holds of all.
LEMMA Induction ==
    ASSUME NEW S, 0 \in S, \A n \in Nat : n \in S => n + 1 \in S
    PROVE  Nat \subseteq S
<1> SUFFICES ASSUME Nat \ S # {} PROVE FALSE
    OBVIOUS
<1>1. PICK m \in Nat \ S : \A k \in Nat \ S : m <= k
    BY LeastElement
<1>2. m # 0 /\ m - 1 \in Nat /\ m - 1 \in S
    BY <1>1
<1> QED
    BY <1>1, <1>2

\* What holds of a number whenever it holds of those below it holds of all.
LEMMA StrongInduction ==
    ASSUME NEW S, \A n \in Nat : (\A k \in 0..(n - 1) : k \in S) => n \in S
    PROVE  Nat \subseteq S
<1> SUFFICES ASSUME Nat \ S # {} PROVE FALSE
    OBVIOUS
<1>1. PICK m \in Nat \ S : \A k \in Nat \ S : m <= k
    BY LeastElement
<1>2. \A k \in 0..(m - 1) : k \in S
    BY <1>1
<1> QED
    BY <1>1, <1>2

\* The least and the greatest of a set of naturals.
LEMMA MinFacts ==
    ASSUME NEW S \in SUBSET Nat, S # {}
    PROVE  Min(S) \in S /\ \A k \in S : Min(S) <= k
<1>1. \E m \in S : \A k \in S : m <= k
    BY LeastElement
<1> QED
    BY <1>1 DEF Min

LEMMA MaxFacts ==
    ASSUME NEW S \in SUBSET Nat, S # {}, NEW b \in Nat, \A k \in S : k <= b
    PROVE  Max(S) \in S /\ \A k \in S : k <= Max(S)
<1> DEFINE T == {t \in Nat : b - t \in S}
<1>1. PICK k \in S : TRUE
    OBVIOUS
<1>2. b - k \in T
    OBVIOUS
<1>3. PICK t \in T : \A u \in T : t <= u
    BY <1>2, LeastElement
<1>4. \A j \in S : b - t >= j
  <2> TAKE j \in S
  <2>1. b - j \in T /\ t \in Nat
      OBVIOUS
  <2>2. t <= b - j
      BY <1>3, <2>1
  <2> QED
      BY <2>1, <2>2
<1>5. b - t \in S
    OBVIOUS
<1> QED
  <2> HIDE DEF T
  <2> QED
      BY <1>4, <1>5 DEF Max

-----------------------------------------------------------------------------
(* Sequences.                                                              *)

LEMMA SeqFacts ==
    ASSUME NEW S, NEW s \in Seq(S)
    PROVE  /\ Len(s) \in Nat /\ DOMAIN s = 1..Len(s)
           /\ \A i \in 1..Len(s) : s[i] \in S
           /\ ToSet(s) = {s[i] : i \in 1..Len(s)}
    BY LenProperties, ElementOfSeq DEF ToSet

LEMMA AppendFacts ==
    ASSUME NEW S, NEW s \in Seq(S), NEW x \in S
    PROVE  /\ Append(s, x) \in Seq(S) /\ Len(Append(s, x)) = Len(s) + 1
           /\ \A i \in 1..Len(s) : Append(s, x)[i] = s[i]
           /\ Append(s, x)[Len(s) + 1] = x /\ Last(Append(s, x)) = x
    BY DEF Last

LEMMA PrefixFacts ==
    ASSUME NEW S, NEW s \in Seq(S), NEW k \in 0..Len(s)
    PROVE  /\ SubSeq(s, 1, k) \in Seq(S) /\ Len(SubSeq(s, 1, k)) = k
           /\ \A i \in 1..k : SubSeq(s, 1, k)[i] = s[i]
           /\ k > 0 => Last(SubSeq(s, 1, k)) = s[k]
    BY SubSeqProperties, LenProperties, ElementOfSeq DEF Last

-----------------------------------------------------------------------------
(* Recursive definitions.                                                  *)

\* What is computed from the values at lower ranks only is a function.
Descends(D, T, rank, H) ==
    /\ H \in [D -> [[D -> T] -> T]]
    /\ \A x \in D, f, g \in [D -> T] :
         (\A y \in D : rank[y] < rank[x] => f[y] = g[y]) => H[x][f] = H[x][g]
Solves(f, D, T, rank, H, n) ==
    /\ f \in [D -> T]
    /\ \A x \in D : rank[x] < n => f[x] = H[x][f]

LEMMA SolutionsAgree ==
    ASSUME NEW D, NEW T, NEW rank \in [D -> Nat], NEW H, Descends(D, T, rank, H),
           NEW n \in Nat, NEW f, Solves(f, D, T, rank, H, n), NEW g, Solves(g, D, T, rank, H, n)
    PROVE  \A x \in D : rank[x] < n => f[x] = g[x]
<1> DEFINE Agree == {k \in Nat : \A x \in D : rank[x] < k /\ rank[x] < n => f[x] = g[x]}
<1>1. 0 \in Agree
    OBVIOUS
<1>2. ASSUME NEW k \in Nat, k \in Agree PROVE k + 1 \in Agree
  <2> SUFFICES ASSUME NEW x \in D, rank[x] < k + 1, rank[x] < n PROVE f[x] = g[x]
      OBVIOUS
  <2>1. \A y \in D : rank[y] < rank[x] => f[y] = g[y]
    <3> TAKE y \in D
    <3>1. rank[x] \in Nat /\ rank[y] \in Nat
        OBVIOUS
    <3> QED
        BY <1>2, <3>1
  <2>2. f \in [D -> T] /\ g \in [D -> T] /\ f[x] = H[x][f] /\ g[x] = H[x][g]
      BY DEF Solves
  <2> QED
      BY <2>1, <2>2 DEF Descends
<1>3. Nat \subseteq Agree
  <2> HIDE DEF Agree
  <2> QED
      BY <1>1, <1>2, Induction
<1> QED
    BY <1>3

LEMMA Recursion ==
    ASSUME NEW D, NEW T, NEW t0 \in T, NEW rank \in [D -> Nat], NEW H, Descends(D, T, rank, H)
    PROVE  \E f \in [D -> T] : \A x \in D : f[x] = H[x][f]
<1> DEFINE S(f, n) == Solves(f, D, T, rank, H, n)
           Solved == {n \in Nat : \E f : S(f, n)}
<1>1. 0 \in Solved
  <2> DEFINE f == [x \in D |-> t0]
  <2>1. S(f, 0)
      BY DEF Solves
  <2> QED
      BY <2>1
<1>2. ASSUME NEW n \in Nat, n \in Solved PROVE n + 1 \in Solved
  <2>1. PICK f : S(f, n)
      BY <1>2
  <2>2. f \in [D -> T] /\ \A x \in D : rank[x] < n => f[x] = H[x][f]
      BY <2>1 DEF Solves
  <2> DEFINE g == [x \in D |-> H[x][f]]
  <2>3. g \in [D -> T]
      BY <2>2 DEF Descends
  <2>4. ASSUME NEW x \in D, rank[x] < n + 1 PROVE g[x] = H[x][g]
    <3>1. \A y \in D : rank[y] < rank[x] => f[y] = g[y]
      <4> TAKE y \in D
      <4>1. rank[x] \in Nat /\ rank[y] \in Nat
          OBVIOUS
      <4> QED
          BY <2>2, <2>4, <4>1
    <3> QED
        BY <2>2, <2>3, <3>1 DEF Descends
  <2> HIDE DEF g
  <2>5. S(g, n + 1)
      BY <2>3, <2>4 DEF Solves
  <2> QED
      BY <2>5
<1>3. \A n \in Nat : \E f : S(f, n)
  <2>1. Nat \subseteq Solved
    <3> HIDE DEF Solved
    <3> QED
        BY <1>1, <1>2, Induction
  <2> QED
      BY <2>1
<1> DEFINE at(n) == CHOOSE f : S(f, n)
           F == [x \in D |-> at(rank[x] + 1)[x]]
<1>4. ASSUME NEW n \in Nat PROVE S(at(n), n)
  <2> HIDE DEF S
  <2> QED
      BY <1>3
<1>5. \A x \in D : rank[x] \in Nat /\ rank[x] + 1 \in Nat /\ rank[x] < rank[x] + 1
    OBVIOUS
<1>6. \A n \in Nat : at(n) \in [D -> T] /\ \A x \in D : rank[x] < n => at(n)[x] = H[x][at(n)]
    BY <1>4 DEF Solves
<1> HIDE DEF at, S
<1>7. F \in [D -> T]
    BY <1>5, <1>6
<1>8. ASSUME NEW x \in D PROVE F[x] = H[x][F]
  <2>1. PICK f : f = at(rank[x] + 1)
      OBVIOUS
  <2>2. f \in [D -> T] /\ F[x] = f[x] /\ f[x] = H[x][f]
      BY <1>5, <1>6, <2>1
  <2>3. ASSUME NEW y \in D, rank[y] < rank[x] PROVE f[y] = F[y]
    <3>1. PICK g : g = at(rank[y] + 1)
        OBVIOUS
    <3>2. rank[y] + 1 \in Nat /\ rank[x] + 1 \in Nat /\ rank[y] < rank[y] + 1
        BY <1>5
    <3>3. S(g, rank[y] + 1) /\ S(f, rank[x] + 1)
        BY <1>4, <2>1, <3>1, <3>2
    <3>4. S(f, rank[y] + 1)
      <4>1. \A z \in D : rank[z] < rank[y] + 1 => rank[z] < rank[x] + 1
        <5> TAKE z \in D
        <5>1. rank[z] \in Nat /\ rank[x] \in Nat /\ rank[y] \in Nat
            OBVIOUS
        <5> QED
            BY <2>3, <5>1
      <4> QED
          BY <3>3, <4>1 DEF S, Solves
    <3>5. f[y] = g[y]
      <4>1. PICK n \in Nat : n = rank[y] + 1
          BY <3>2
      <4>2. Solves(f, D, T, rank, H, n) /\ Solves(g, D, T, rank, H, n)
          BY <3>3, <3>4, <4>1 DEF S
      <4>3. \A z \in D : rank[z] < n => f[z] = g[z]
          BY <4>2, SolutionsAgree
      <4> QED
          BY <3>2, <4>1, <4>3
    <3> QED
        BY <3>1, <3>5
  <2> HIDE DEF F
  <2>4. H[x][f] = H[x][F]
      BY <1>7, <2>2, <2>3 DEF Descends
  <2> QED
      BY <2>2, <2>4
<1> HIDE DEF F
<1> QED
    BY <1>7, <1>8

-----------------------------------------------------------------------------
(* Letters: parseAlpha() and formatAlpha() are inverse.                    *)

LEMMA LettersAhead == \A n \in Nat \ {0} : /\ (n - 1) \div 26 \in Nat /\ (n - 1) \div 26 < n
                                           /\ (n - 1) % 26 \in 0..25
                                           /\ n = (26 * ((n - 1) \div 26)) + ((n - 1) % 26) + 1
    OBVIOUS

LEMMA formatAlphaFacts ==
    /\ formatAlpha[0] = <<>>
    /\ \A n \in Nat \ {0} : formatAlpha[n] = Append(formatAlpha[(n - 1) \div 26], ((n - 1) % 26) + 1)
    /\ \A n \in Nat : formatAlpha[n] \in Seq(Nat)
<1> DEFINE D == Nat
           T == Seq(Nat)
           Step(f, n) == IF n = 0 THEN <<>> ELSE Append(f[(n - 1) \div 26], ((n - 1) % 26) + 1)
           H == [n \in D |-> [f \in [D -> T] |-> Step(f, n)]]
           rank == [n \in D |-> n]
           Is(f) == f = [n \in D |-> Step(f, n)]
<1>1. \E f : Is(f)
  <2>1. ASSUME NEW n \in D, NEW f \in [D -> T] PROVE Step(f, n) \in T
      BY LettersAhead
  <2>2. H \in [D -> [[D -> T] -> T]] /\ \A n \in D, f \in [D -> T] : H[n][f] = Step(f, n)
    <3> HIDE DEF D, T, Step
    <3> QED
        BY <2>1
  <2>3. rank \in [D -> Nat] /\ \A n \in D : rank[n] = n
      OBVIOUS
  <2>4. <<>> \in T
      OBVIOUS
  <2> HIDE DEF D, T, H, rank, Step
  <2>6. Descends(D, T, rank, H)
    <3> SUFFICES ASSUME NEW n \in D, NEW f \in [D -> T], NEW g \in [D -> T],
                        \A k \in D : rank[k] < rank[n] => f[k] = g[k]
                 PROVE  H[n][f] = H[n][g]
        BY <2>2 DEF Descends
    <3>1. \A k \in Nat : k < n => f[k] = g[k]
        BY <2>3 DEF D
    <3>2. Step(f, n) = Step(g, n)
        BY <3>1, LettersAhead DEF D, Step
    <3> QED
        BY <2>2, <3>2
  <2>7. PICK f \in [D -> T] : \A n \in D : f[n] = H[n][f]
      BY <2>3, <2>4, <2>6, Recursion
  <2>8. Is(f)
      BY <2>2, <2>7
  <2> QED
      BY <2>8
<1>2. Is(formatAlpha)
  <2>1. formatAlpha = CHOOSE f : Is(f)
      BY DEF formatAlpha
  <2> HIDE DEF Is
  <2> QED
      BY <1>1, <2>1
<1>3. \A n \in D : formatAlpha[n] = Step(formatAlpha, n)
  <2> HIDE DEF Step
  <2> QED
      BY <1>2
<1>4. formatAlpha[0] = <<>>
    BY <1>3
<1>5. \A n \in Nat \ {0} : formatAlpha[n] = Append(formatAlpha[(n - 1) \div 26], ((n - 1) % 26) + 1)
    BY <1>3
<1> DEFINE Typed == {n \in Nat : formatAlpha[n] \in Seq(Nat)}
<1>6. ASSUME NEW n \in Nat, \A k \in 0..(n - 1) : k \in Typed PROVE n \in Typed
  <2>1. CASE n = 0
    <3>1. <<>> \in Seq(Nat)
        OBVIOUS
    <3> QED
        BY <1>4, <2>1, <3>1
  <2>2. CASE n # 0
    <3>1. (n - 1) \div 26 \in 0..(n - 1) /\ ((n - 1) % 26) + 1 \in Nat
        BY <2>2, LettersAhead
    <3>2. formatAlpha[(n - 1) \div 26] \in Seq(Nat)
        BY <1>6, <3>1
    <3>3. PICK t, l : t = formatAlpha[(n - 1) \div 26] /\ l = ((n - 1) % 26) + 1
        OBVIOUS
    <3>4. formatAlpha[n] = Append(t, l) /\ t \in Seq(Nat) /\ l \in Nat
        BY <1>5, <2>2, <3>1, <3>2, <3>3
    <3>5. formatAlpha[n] \in Seq(Nat)
        BY <3>4, AppendProperties
    <3> QED
        BY <3>5
  <2> QED
      BY <2>1, <2>2
<1>7. Nat \subseteq Typed
  <2> HIDE DEF Typed
  <2> QED
      BY <1>6, StrongInduction
<1> QED
    BY <1>4, <1>5, <1>7

LEMMA parseAlphaFacts ==
    /\ parseAlpha[<<>>] = 0
    /\ \A s \in Seq(Nat), l \in Nat : parseAlpha[Append(s, l)] = 26 * parseAlpha[s] + l
    /\ \A s \in Seq(Nat) : parseAlpha[s] \in Nat
<1> DEFINE D == Seq(Nat)
           Step(f, s) == IF s = <<>> THEN 0 ELSE 26 * f[Front(s)] + Last(s)
           H == [s \in D |-> [f \in [D -> Nat] |-> Step(f, s)]]
           rank == [s \in D |-> Len(s)]
           Is(f) == f = [s \in D |-> Step(f, s)]
<1>0. ASSUME NEW s \in D, s # <<>>
      PROVE  Front(s) \in D /\ Len(Front(s)) = Len(s) - 1 /\ Last(s) \in Nat /\ Len(s) \in Nat \ {0}
  <2>1. Len(s) \in Nat \ {0}
      BY <1>0, EmptySeq
  <2>2. Len(s) - 1 \in 0..Len(s) /\ Len(s) \in 1..Len(s)
      BY <2>1
  <2>3. Front(s) \in D /\ Len(Front(s)) = Len(s) - 1
      BY <2>2, PrefixFacts DEF Front
  <2>4. Last(s) \in Nat
      BY <2>2, ElementOfSeq DEF Last
  <2> QED
      BY <2>1, <2>3, <2>4
<1>1. \E f : Is(f)
  <2>1. ASSUME NEW s \in D, NEW f \in [D -> Nat] PROVE Step(f, s) \in Nat
      BY <1>0
  <2>2. H \in [D -> [[D -> Nat] -> Nat]] /\ \A s \in D, f \in [D -> Nat] : H[s][f] = Step(f, s)
    <3> HIDE DEF D, Step
    <3> QED
        BY <2>1
  <2>3. rank \in [D -> Nat] /\ \A s \in D : rank[s] = Len(s)
      OBVIOUS
  <2> HIDE DEF D, H, rank, Step
  <2>6. Descends(D, Nat, rank, H)
    <3> SUFFICES ASSUME NEW s \in D, NEW f \in [D -> Nat], NEW g \in [D -> Nat],
                        \A t \in D : rank[t] < rank[s] => f[t] = g[t]
                 PROVE  H[s][f] = H[s][g]
        BY <2>2 DEF Descends
    <3>1. \A t \in D : Len(t) < Len(s) => f[t] = g[t]
        BY <2>3
    <3>2. s # <<>> => f[Front(s)] = g[Front(s)]
        BY <1>0, <3>1
    <3>3. Step(f, s) = Step(g, s)
        BY <3>2 DEF Step
    <3> QED
        BY <2>2, <3>3
  <2>7. PICK f \in [D -> Nat] : \A s \in D : f[s] = H[s][f]
      BY <2>3, <2>6, Recursion
  <2>8. Is(f)
      BY <2>2, <2>7
  <2> QED
      BY <2>8
<1>2. Is(parseAlpha)
  <2>1. parseAlpha = CHOOSE f : Is(f)
      BY DEF parseAlpha
  <2> HIDE DEF Is
  <2> QED
      BY <1>1, <2>1
<1>3. \A s \in D : parseAlpha[s] = Step(parseAlpha, s)
  <2> HIDE DEF Step
  <2> QED
      BY <1>2
<1>4. parseAlpha[<<>>] = 0
  <2>1. <<>> \in Seq(Nat)
      OBVIOUS
  <2> QED
      BY <1>3, <2>1
<1>5. ASSUME NEW s \in D, NEW l \in Nat PROVE parseAlpha[Append(s, l)] = 26 * parseAlpha[s] + l
  <2>1. Append(s, l) \in D /\ Append(s, l) # <<>> /\ Last(Append(s, l)) = l
      BY AppendProperties DEF Last
  <2>2. Front(Append(s, l)) = s
    <3>1. /\ Front(Append(s, l)) \in Seq(Nat) /\ Len(Front(Append(s, l))) = Len(s)
          /\ \A i \in 1..Len(s) : Front(Append(s, l))[i] = s[i]
        BY AppendProperties, SubSeqProperties DEF Front
    <3> QED
        BY <3>1, SeqEqual
  <2> QED
      BY <1>3, <2>1, <2>2
<1> DEFINE Typed == {n \in Nat : \A s \in D : Len(s) = n => parseAlpha[s] \in Nat}
<1>6. 0 \in Typed
  <2>1. \A s \in D : Len(s) = 0 => s = <<>>
      BY EmptySeq
  <2> QED
      BY <1>4, <2>1
<1>7. ASSUME NEW n \in Nat, n \in Typed PROVE n + 1 \in Typed
  <2> SUFFICES ASSUME NEW s \in D, Len(s) = n + 1 PROVE parseAlpha[s] \in Nat
      OBVIOUS
  <2>1. s # <<>>
      BY EmptySeq
  <2>2. Front(s) \in D /\ Len(Front(s)) = n /\ Last(s) \in Nat
      BY <1>0, <2>1
  <2>3. parseAlpha[Front(s)] \in Nat /\ parseAlpha[s] = 26 * parseAlpha[Front(s)] + Last(s)
      BY <1>3, <1>7, <2>1, <2>2
  <2> QED
      BY <2>2, <2>3
<1>8. Nat \subseteq Typed
  <2> HIDE DEF Typed
  <2> QED
      BY <1>6, <1>7, Induction
<1>9. \A s \in D : parseAlpha[s] \in Nat
    BY <1>8
<1> QED
    BY <1>4, <1>5, <1>9

\* What formatAlpha() writes parseAlpha() reads as the same number.
LEMMA AlphaRoundTrip ==
    ASSUME NEW n \in Nat
    PROVE  parseAlpha[formatAlpha[n]] = n
<1> DEFINE S == {k \in Nat : parseAlpha[formatAlpha[k]] = k}
<1>1. ASSUME NEW k \in Nat, \A j \in 0..(k - 1) : j \in S PROVE k \in S
  <2>1. CASE k = 0
      BY <2>1, formatAlphaFacts, parseAlphaFacts
  <2>2. CASE k # 0
    <3>1. PICK j \in 0..(k - 1), l \in 1..26 :
             j = (k - 1) \div 26 /\ l = ((k - 1) % 26) + 1 /\ k = 26 * j + l
      <4>1. (k - 1) \div 26 \in 0..(k - 1) /\ ((k - 1) % 26) + 1 \in 1..26
            /\ k = 26 * ((k - 1) \div 26) + ((k - 1) % 26) + 1
          BY <2>2, LettersAhead
      <4> QED
          BY <4>1
    <3>2. formatAlpha[k] = Append(formatAlpha[j], l) /\ formatAlpha[j] \in Seq(Nat) /\ j \in Nat /\ l \in Nat
      <4>1. k \in Nat \ {0} /\ j \in Nat /\ l \in Nat
          BY <2>2
      <4>2. formatAlpha[k] = Append(formatAlpha[(k - 1) \div 26], ((k - 1) % 26) + 1)
          BY <4>1, formatAlphaFacts
      <4> QED
          BY <3>1, <4>1, <4>2, formatAlphaFacts
    <3>3. parseAlpha[formatAlpha[j]] = j
        BY <1>1
    <3>4. PICK t \in Seq(Nat) : t = formatAlpha[j]
        BY <3>2
    <3>5. parseAlpha[Append(t, l)] = 26 * parseAlpha[t] + l
        BY <3>2, parseAlphaFacts
    <3> QED
        BY <3>1, <3>2, <3>3, <3>4, <3>5
  <2> QED
      BY <2>1, <2>2
<1>2. Nat \subseteq S
  <2> HIDE DEF S
  <2> QED
      BY <1>1, StrongInduction
<1> QED
    BY <1>2

-----------------------------------------------------------------------------
(* Numerals: parseRoman() and formatRoman() are inverse.                   *)

RomanLetters == {9, 22, 24, 12, 3, 4, 13}

LEMMA romanValsFacts ==
    /\ DOMAIN romanVals = RomanLetters
    /\ romanVals[9] = 1 /\ romanVals[22] = 5 /\ romanVals[24] = 10 /\ romanVals[12] = 50
    /\ romanVals[3] = 100 /\ romanVals[4] = 500 /\ romanVals[13] = 1000
    /\ \A l \in RomanLetters : romanVals[l] \in Nat
    BY DEF romanVals, RomanLetters

\* The letters of a step: one, or a smaller one before a larger one.
IsStep(i, val, a, b) ==
    /\ romanSteps[i].val = val
    /\ romanSteps[i].sym = IF a = 0 THEN <<b>> ELSE <<a, b>>

LEMMA romanStepsFacts ==
    /\ DOMAIN romanSteps = 1..13
    /\ IsStep(1, 1000, 0, 13) /\ IsStep(2, 900, 3, 13) /\ IsStep(3, 500, 0, 4) /\ IsStep(4, 400, 3, 4)
    /\ IsStep(5, 100, 0, 3) /\ IsStep(6, 90, 24, 3) /\ IsStep(7, 50, 0, 12) /\ IsStep(8, 40, 24, 12)
    /\ IsStep(9, 10, 0, 24) /\ IsStep(10, 9, 9, 24) /\ IsStep(11, 5, 0, 22) /\ IsStep(12, 4, 9, 22)
    /\ IsStep(13, 1, 0, 9)
<1>1. DOMAIN romanSteps = 1..13
    BY DEF romanSteps
<1> QED
    BY <1>1 DEF romanSteps, IsStep

\* The largest letter of a numeral that does not subtract.
LargestLetter(n) ==
    CASE n >= 900 -> 1000 [] n \in 400..899 -> 500 [] n \in 90..399 -> 100 [] n \in 40..89 -> 50
      [] n \in 9..39 -> 10 [] n \in 4..8 -> 5 [] n \in 1..3 -> 1 [] OTHER -> 0

\* The step that formatRoman() takes first: what is left has smaller letters.
LEMMA FirstStep ==
    ASSUME NEW n \in Nat \ {0}
    PROVE  \E val \in 1..n, a \in RomanLetters \cup {0}, b \in RomanLetters :
              /\ romanSteps[Min({j \in DOMAIN romanSteps : romanSteps[j].val <= n})].val = val
              /\ romanSteps[Min({j \in DOMAIN romanSteps : romanSteps[j].val <= n})].sym
                   = IF a = 0 THEN <<b>> ELSE <<a, b>>
              /\ a = 0 => romanVals[b] = val
              /\ a # 0 => romanVals[a] < romanVals[b] /\ romanVals[b] - romanVals[a] = val
              /\ LargestLetter(n - val) <= romanVals[b] /\ LargestLetter(n) = romanVals[b]
<1> DEFINE S == {j \in DOMAIN romanSteps : romanSteps[j].val <= n}
<1>1. PICK i \in 1..13 : i = Min(S) /\ romanSteps[i].val <= n
                         /\ \A j \in 1..13 : romanSteps[j].val <= n => i <= j
  <2>1. 13 \in S /\ S \in SUBSET Nat
      BY romanStepsFacts DEF IsStep
  <2>2. Min(S) \in S /\ \A j \in S : Min(S) <= j
    <3> HIDE DEF S
    <3> QED
        BY <2>1, MinFacts
  <2> QED
      BY <2>2, romanStepsFacts
<1> DEFINE Good(val, a, b) ==
              /\ romanSteps[i].val = val /\ romanSteps[i].sym = IF a = 0 THEN <<b>> ELSE <<a, b>>
              /\ a = 0 => romanVals[b] = val
              /\ a # 0 => romanVals[a] < romanVals[b] /\ romanVals[b] - romanVals[a] = val
              /\ LargestLetter(n - val) <= romanVals[b] /\ LargestLetter(n) = romanVals[b]
<1>2. SUFFICES \E val \in 1..n, a \in RomanLetters \cup {0}, b \in RomanLetters : Good(val, a, b)
    BY <1>1
<1>3. romanSteps[i].val <= n /\ \A j \in 1..13 : j < i => ~(romanSteps[j].val <= n)
    BY <1>1
<1> HIDE DEF Good, S
<1>11. CASE i = 1
  <2>1. romanSteps[i].val = 1000 /\ romanSteps[i].sym = IF 0 = 0 THEN <<13>> ELSE <<0, 13>>
      BY <1>11, romanStepsFacts DEF IsStep
  <2>2. n >= 1000
      BY <1>3, <2>1
  <2>3. LargestLetter(n - 1000) <= romanVals[13] /\ LargestLetter(n) = romanVals[13]
      BY <2>2, romanValsFacts DEF LargestLetter
  <2>4. Good(1000, 0, 13)
      BY <2>1, <2>3, romanValsFacts DEF Good
  <2>5. 1000 \in 1..n /\ 0 \in RomanLetters \cup {0} /\ 13 \in RomanLetters
      BY <2>2 DEF RomanLetters
  <2> QED
      BY <2>4, <2>5
<1>12. CASE i = 2
  <2>1. romanSteps[i].val = 900 /\ romanSteps[i].sym = IF 3 = 0 THEN <<13>> ELSE <<3, 13>>
      BY <1>12, romanStepsFacts DEF IsStep
  <2>2. n >= 900 /\ n < 1000
    <3>1. romanSteps[1].val = 1000 /\ 1 \in 1..13 /\ 1 < i
        BY <1>12, romanStepsFacts DEF IsStep
    <3>2. ~(1000 <= n)
        BY <1>3, <3>1
    <3> QED
        BY <1>3, <2>1, <3>2
  <2>3. LargestLetter(n - 900) <= romanVals[13] /\ LargestLetter(n) = romanVals[13]
      BY <2>2, romanValsFacts DEF LargestLetter
  <2>4. Good(900, 3, 13)
      BY <2>1, <2>3, romanValsFacts DEF Good
  <2>5. 900 \in 1..n /\ 3 \in RomanLetters \cup {0} /\ 13 \in RomanLetters
      BY <2>2 DEF RomanLetters
  <2> QED
      BY <2>4, <2>5
<1>13. CASE i = 3
  <2>1. romanSteps[i].val = 500 /\ romanSteps[i].sym = IF 0 = 0 THEN <<4>> ELSE <<0, 4>>
      BY <1>13, romanStepsFacts DEF IsStep
  <2>2. n >= 500 /\ n < 900
    <3>1. romanSteps[2].val = 900 /\ 2 \in 1..13 /\ 2 < i
        BY <1>13, romanStepsFacts DEF IsStep
    <3>2. ~(900 <= n)
        BY <1>3, <3>1
    <3> QED
        BY <1>3, <2>1, <3>2
  <2>3. LargestLetter(n - 500) <= romanVals[4] /\ LargestLetter(n) = romanVals[4]
      BY <2>2, romanValsFacts DEF LargestLetter
  <2>4. Good(500, 0, 4)
      BY <2>1, <2>3, romanValsFacts DEF Good
  <2>5. 500 \in 1..n /\ 0 \in RomanLetters \cup {0} /\ 4 \in RomanLetters
      BY <2>2 DEF RomanLetters
  <2> QED
      BY <2>4, <2>5
<1>14. CASE i = 4
  <2>1. romanSteps[i].val = 400 /\ romanSteps[i].sym = IF 3 = 0 THEN <<4>> ELSE <<3, 4>>
      BY <1>14, romanStepsFacts DEF IsStep
  <2>2. n >= 400 /\ n < 500
    <3>1. romanSteps[3].val = 500 /\ 3 \in 1..13 /\ 3 < i
        BY <1>14, romanStepsFacts DEF IsStep
    <3>2. ~(500 <= n)
        BY <1>3, <3>1
    <3> QED
        BY <1>3, <2>1, <3>2
  <2>3. LargestLetter(n - 400) <= romanVals[4] /\ LargestLetter(n) = romanVals[4]
      BY <2>2, romanValsFacts DEF LargestLetter
  <2>4. Good(400, 3, 4)
      BY <2>1, <2>3, romanValsFacts DEF Good
  <2>5. 400 \in 1..n /\ 3 \in RomanLetters \cup {0} /\ 4 \in RomanLetters
      BY <2>2 DEF RomanLetters
  <2> QED
      BY <2>4, <2>5
<1>15. CASE i = 5
  <2>1. romanSteps[i].val = 100 /\ romanSteps[i].sym = IF 0 = 0 THEN <<3>> ELSE <<0, 3>>
      BY <1>15, romanStepsFacts DEF IsStep
  <2>2. n >= 100 /\ n < 400
    <3>1. romanSteps[4].val = 400 /\ 4 \in 1..13 /\ 4 < i
        BY <1>15, romanStepsFacts DEF IsStep
    <3>2. ~(400 <= n)
        BY <1>3, <3>1
    <3> QED
        BY <1>3, <2>1, <3>2
  <2>3. LargestLetter(n - 100) <= romanVals[3] /\ LargestLetter(n) = romanVals[3]
      BY <2>2, romanValsFacts DEF LargestLetter
  <2>4. Good(100, 0, 3)
      BY <2>1, <2>3, romanValsFacts DEF Good
  <2>5. 100 \in 1..n /\ 0 \in RomanLetters \cup {0} /\ 3 \in RomanLetters
      BY <2>2 DEF RomanLetters
  <2> QED
      BY <2>4, <2>5
<1>16. CASE i = 6
  <2>1. romanSteps[i].val = 90 /\ romanSteps[i].sym = IF 24 = 0 THEN <<3>> ELSE <<24, 3>>
      BY <1>16, romanStepsFacts DEF IsStep
  <2>2. n >= 90 /\ n < 100
    <3>1. romanSteps[5].val = 100 /\ 5 \in 1..13 /\ 5 < i
        BY <1>16, romanStepsFacts DEF IsStep
    <3>2. ~(100 <= n)
        BY <1>3, <3>1
    <3> QED
        BY <1>3, <2>1, <3>2
  <2>3. LargestLetter(n - 90) <= romanVals[3] /\ LargestLetter(n) = romanVals[3]
      BY <2>2, romanValsFacts DEF LargestLetter
  <2>4. Good(90, 24, 3)
      BY <2>1, <2>3, romanValsFacts DEF Good
  <2>5. 90 \in 1..n /\ 24 \in RomanLetters \cup {0} /\ 3 \in RomanLetters
      BY <2>2 DEF RomanLetters
  <2> QED
      BY <2>4, <2>5
<1>17. CASE i = 7
  <2>1. romanSteps[i].val = 50 /\ romanSteps[i].sym = IF 0 = 0 THEN <<12>> ELSE <<0, 12>>
      BY <1>17, romanStepsFacts DEF IsStep
  <2>2. n >= 50 /\ n < 90
    <3>1. romanSteps[6].val = 90 /\ 6 \in 1..13 /\ 6 < i
        BY <1>17, romanStepsFacts DEF IsStep
    <3>2. ~(90 <= n)
        BY <1>3, <3>1
    <3> QED
        BY <1>3, <2>1, <3>2
  <2>3. LargestLetter(n - 50) <= romanVals[12] /\ LargestLetter(n) = romanVals[12]
      BY <2>2, romanValsFacts DEF LargestLetter
  <2>4. Good(50, 0, 12)
      BY <2>1, <2>3, romanValsFacts DEF Good
  <2>5. 50 \in 1..n /\ 0 \in RomanLetters \cup {0} /\ 12 \in RomanLetters
      BY <2>2 DEF RomanLetters
  <2> QED
      BY <2>4, <2>5
<1>18. CASE i = 8
  <2>1. romanSteps[i].val = 40 /\ romanSteps[i].sym = IF 24 = 0 THEN <<12>> ELSE <<24, 12>>
      BY <1>18, romanStepsFacts DEF IsStep
  <2>2. n >= 40 /\ n < 50
    <3>1. romanSteps[7].val = 50 /\ 7 \in 1..13 /\ 7 < i
        BY <1>18, romanStepsFacts DEF IsStep
    <3>2. ~(50 <= n)
        BY <1>3, <3>1
    <3> QED
        BY <1>3, <2>1, <3>2
  <2>3. LargestLetter(n - 40) <= romanVals[12] /\ LargestLetter(n) = romanVals[12]
      BY <2>2, romanValsFacts DEF LargestLetter
  <2>4. Good(40, 24, 12)
      BY <2>1, <2>3, romanValsFacts DEF Good
  <2>5. 40 \in 1..n /\ 24 \in RomanLetters \cup {0} /\ 12 \in RomanLetters
      BY <2>2 DEF RomanLetters
  <2> QED
      BY <2>4, <2>5
<1>19. CASE i = 9
  <2>1. romanSteps[i].val = 10 /\ romanSteps[i].sym = IF 0 = 0 THEN <<24>> ELSE <<0, 24>>
      BY <1>19, romanStepsFacts DEF IsStep
  <2>2. n >= 10 /\ n < 40
    <3>1. romanSteps[8].val = 40 /\ 8 \in 1..13 /\ 8 < i
        BY <1>19, romanStepsFacts DEF IsStep
    <3>2. ~(40 <= n)
        BY <1>3, <3>1
    <3> QED
        BY <1>3, <2>1, <3>2
  <2>3. LargestLetter(n - 10) <= romanVals[24] /\ LargestLetter(n) = romanVals[24]
      BY <2>2, romanValsFacts DEF LargestLetter
  <2>4. Good(10, 0, 24)
      BY <2>1, <2>3, romanValsFacts DEF Good
  <2>5. 10 \in 1..n /\ 0 \in RomanLetters \cup {0} /\ 24 \in RomanLetters
      BY <2>2 DEF RomanLetters
  <2> QED
      BY <2>4, <2>5
<1>20. CASE i = 10
  <2>1. romanSteps[i].val = 9 /\ romanSteps[i].sym = IF 9 = 0 THEN <<24>> ELSE <<9, 24>>
      BY <1>20, romanStepsFacts DEF IsStep
  <2>2. n >= 9 /\ n < 10
    <3>1. romanSteps[9].val = 10 /\ 9 \in 1..13 /\ 9 < i
        BY <1>20, romanStepsFacts DEF IsStep
    <3>2. ~(10 <= n)
        BY <1>3, <3>1
    <3> QED
        BY <1>3, <2>1, <3>2
  <2>3. LargestLetter(n - 9) <= romanVals[24] /\ LargestLetter(n) = romanVals[24]
      BY <2>2, romanValsFacts DEF LargestLetter
  <2>4. Good(9, 9, 24)
      BY <2>1, <2>3, romanValsFacts DEF Good
  <2>5. 9 \in 1..n /\ 9 \in RomanLetters \cup {0} /\ 24 \in RomanLetters
      BY <2>2 DEF RomanLetters
  <2> QED
      BY <2>4, <2>5
<1>21. CASE i = 11
  <2>1. romanSteps[i].val = 5 /\ romanSteps[i].sym = IF 0 = 0 THEN <<22>> ELSE <<0, 22>>
      BY <1>21, romanStepsFacts DEF IsStep
  <2>2. n >= 5 /\ n < 9
    <3>1. romanSteps[10].val = 9 /\ 10 \in 1..13 /\ 10 < i
        BY <1>21, romanStepsFacts DEF IsStep
    <3>2. ~(9 <= n)
        BY <1>3, <3>1
    <3> QED
        BY <1>3, <2>1, <3>2
  <2>3. LargestLetter(n - 5) <= romanVals[22] /\ LargestLetter(n) = romanVals[22]
      BY <2>2, romanValsFacts DEF LargestLetter
  <2>4. Good(5, 0, 22)
      BY <2>1, <2>3, romanValsFacts DEF Good
  <2>5. 5 \in 1..n /\ 0 \in RomanLetters \cup {0} /\ 22 \in RomanLetters
      BY <2>2 DEF RomanLetters
  <2> QED
      BY <2>4, <2>5
<1>22. CASE i = 12
  <2>1. romanSteps[i].val = 4 /\ romanSteps[i].sym = IF 9 = 0 THEN <<22>> ELSE <<9, 22>>
      BY <1>22, romanStepsFacts DEF IsStep
  <2>2. n >= 4 /\ n < 5
    <3>1. romanSteps[11].val = 5 /\ 11 \in 1..13 /\ 11 < i
        BY <1>22, romanStepsFacts DEF IsStep
    <3>2. ~(5 <= n)
        BY <1>3, <3>1
    <3> QED
        BY <1>3, <2>1, <3>2
  <2>3. LargestLetter(n - 4) <= romanVals[22] /\ LargestLetter(n) = romanVals[22]
      BY <2>2, romanValsFacts DEF LargestLetter
  <2>4. Good(4, 9, 22)
      BY <2>1, <2>3, romanValsFacts DEF Good
  <2>5. 4 \in 1..n /\ 9 \in RomanLetters \cup {0} /\ 22 \in RomanLetters
      BY <2>2 DEF RomanLetters
  <2> QED
      BY <2>4, <2>5
<1>23. CASE i = 13
  <2>1. romanSteps[i].val = 1 /\ romanSteps[i].sym = IF 0 = 0 THEN <<9>> ELSE <<0, 9>>
      BY <1>23, romanStepsFacts DEF IsStep
  <2>2. n >= 1 /\ n < 4
    <3>1. romanSteps[12].val = 4 /\ 12 \in 1..13 /\ 12 < i
        BY <1>23, romanStepsFacts DEF IsStep
    <3>2. ~(4 <= n)
        BY <1>3, <3>1
    <3> QED
        BY <1>3, <2>1, <3>2
  <2>3. LargestLetter(n - 1) <= romanVals[9] /\ LargestLetter(n) = romanVals[9]
      BY <2>2, romanValsFacts DEF LargestLetter
  <2>4. Good(1, 0, 9)
      BY <2>1, <2>3, romanValsFacts DEF Good
  <2>5. 1 \in 1..n /\ 0 \in RomanLetters \cup {0} /\ 9 \in RomanLetters
      BY <2>2 DEF RomanLetters
  <2> QED
      BY <2>4, <2>5
<1>4. i = 1 \/ i = 2 \/ i = 3 \/ i = 4 \/ i = 5 \/ i = 6 \/ i = 7 \/ i = 8 \/ i = 9 \/ i = 10
      \/ i = 11 \/ i = 12 \/ i = 13
    OBVIOUS
<1> QED
    BY <1>4, <1>11, <1>12, <1>13, <1>14, <1>15, <1>16, <1>17, <1>18, <1>19, <1>20, <1>21, <1>22, <1>23

\* A step of formatRoman(): what it writes first, before what is left.
Leads(n, val, a, b) ==
    /\ formatRoman[n] = (IF a = 0 THEN <<b>> ELSE <<a, b>>) \o formatRoman[n - val]
    /\ a = 0 => romanVals[b] = val
    /\ a # 0 => romanVals[a] < romanVals[b] /\ romanVals[b] - romanVals[a] = val
    /\ LargestLetter(n - val) <= romanVals[b] /\ LargestLetter(n) = romanVals[b]

LEMMA LettersConcat ==
    ASSUME NEW a \in RomanLetters \cup {0}, NEW b \in RomanLetters, NEW t \in Seq(RomanLetters)
    PROVE  (IF a = 0 THEN <<b>> ELSE <<a, b>>) \o t \in Seq(RomanLetters)
<1>1. <<b>> \in Seq(RomanLetters)
    OBVIOUS
<1>2. CASE a = 0
    BY <1>1, <1>2, ConcatProperties
<1>3. CASE a # 0
  <2>1. <<a, b>> \in Seq(RomanLetters)
      BY <1>3
  <2> QED
      BY <1>3, <2>1, ConcatProperties
<1> QED
    BY <1>2, <1>3

LEMMA formatRomanFacts ==
    /\ formatRoman[0] = <<>>
    /\ \A n \in Nat \ {0} : \E val \in 1..n, a \in RomanLetters \cup {0}, b \in RomanLetters :
          Leads(n, val, a, b)
    /\ \A n \in Nat : formatRoman[n] \in Seq(RomanLetters)
    /\ \A n \in Nat \ {0} :
          LET i == Min({j \in DOMAIN romanSteps : romanSteps[j].val <= n})
          IN  formatRoman[n] = romanSteps[i].sym \o formatRoman[n - romanSteps[i].val]
<1> DEFINE D == Nat
           T == Seq(RomanLetters)
           step(n) == romanSteps[Min({i \in DOMAIN romanSteps : romanSteps[i].val <= n})]
           Step(f, n) == IF n = 0 THEN <<>> ELSE step(n).sym \o f[n - step(n).val]
           H == [n \in D |-> [f \in [D -> T] |-> Step(f, n)]]
           rank == [n \in D |-> n]
           Is(f) == f = [n \in D |-> Step(f, n)]
<1>1. ASSUME NEW n \in Nat \ {0}
      PROVE  \E val \in 1..n, a \in RomanLetters \cup {0}, b \in RomanLetters :
                /\ step(n).val = val /\ step(n).sym = IF a = 0 THEN <<b>> ELSE <<a, b>>
                /\ a = 0 => romanVals[b] = val
                /\ a # 0 => romanVals[a] < romanVals[b] /\ romanVals[b] - romanVals[a] = val
                /\ LargestLetter(n - val) <= romanVals[b] /\ LargestLetter(n) = romanVals[b]
    BY FirstStep
<1> HIDE DEF step
<1>2. \E f : Is(f)
  <2>1. ASSUME NEW n \in D, NEW f \in [D -> T] PROVE Step(f, n) \in T
    <3>1. CASE n = 0
      <4>1. <<>> \in T
          OBVIOUS
      <4> QED
          BY <3>1, <4>1
    <3>2. CASE n # 0
      <4>1. PICK val \in 1..n, a \in RomanLetters \cup {0}, b \in RomanLetters :
               step(n).val = val /\ step(n).sym = IF a = 0 THEN <<b>> ELSE <<a, b>>
          BY <1>1, <3>2
      <4>2. PICK t \in Seq(RomanLetters) : t = f[n - val]
          OBVIOUS
      <4>3. Step(f, n) = (IF a = 0 THEN <<b>> ELSE <<a, b>>) \o t
          BY <3>2, <4>1, <4>2
      <4> QED
          BY <4>3, LettersConcat
    <3> QED
        BY <3>1, <3>2
  <2>2. H \in [D -> [[D -> T] -> T]] /\ \A n \in D, f \in [D -> T] : H[n][f] = Step(f, n)
    <3> HIDE DEF D, T, Step
    <3> QED
        BY <2>1
  <2>3. rank \in [D -> Nat] /\ \A n \in D : rank[n] = n
      OBVIOUS
  <2>4. <<>> \in T
      OBVIOUS
  <2> HIDE DEF D, T, H, rank, Step
  <2>5. Descends(D, T, rank, H)
    <3> SUFFICES ASSUME NEW n \in D, NEW f \in [D -> T], NEW g \in [D -> T],
                        \A k \in D : rank[k] < rank[n] => f[k] = g[k]
                 PROVE  H[n][f] = H[n][g]
        BY <2>2 DEF Descends
    <3>1. \A k \in Nat : k < n => f[k] = g[k]
        BY <2>3 DEF D
    <3>2. n # 0 => f[n - step(n).val] = g[n - step(n).val]
      <4> SUFFICES ASSUME n \in Nat \ {0} PROVE f[n - step(n).val] = g[n - step(n).val]
          BY DEF D
      <4>1. PICK val \in 1..n : step(n).val = val
          BY <1>1
      <4> QED
          BY <3>1, <4>1
    <3>3. Step(f, n) = Step(g, n)
        BY <3>2 DEF Step
    <3> QED
        BY <2>2, <3>3
  <2>6. PICK f \in [D -> T] : \A n \in D : f[n] = H[n][f]
      BY <2>3, <2>4, <2>5, Recursion
  <2>7. Is(f)
      BY <2>2, <2>6
  <2> QED
      BY <2>7
<1>3. Is(formatRoman)
  <2>1. formatRoman = CHOOSE f : Is(f)
      BY DEF formatRoman, step
  <2> HIDE DEF Is
  <2> QED
      BY <1>2, <2>1
<1>4. \A n \in D : formatRoman[n] = Step(formatRoman, n)
  <2> HIDE DEF Step
  <2> QED
      BY <1>3
<1>5. formatRoman[0] = <<>>
    BY <1>4
<1>6. ASSUME NEW n \in Nat \ {0}
      PROVE  \E val \in 1..n, a \in RomanLetters \cup {0}, b \in RomanLetters : Leads(n, val, a, b)
  <2>1. PICK val \in 1..n, a \in RomanLetters \cup {0}, b \in RomanLetters :
           /\ step(n).val = val /\ step(n).sym = IF a = 0 THEN <<b>> ELSE <<a, b>>
           /\ a = 0 => romanVals[b] = val
           /\ a # 0 => romanVals[a] < romanVals[b] /\ romanVals[b] - romanVals[a] = val
           /\ LargestLetter(n - val) <= romanVals[b] /\ LargestLetter(n) = romanVals[b]
      BY <1>1
  <2>2. formatRoman[n] = step(n).sym \o formatRoman[n - step(n).val]
      BY <1>4
  <2>3. Leads(n, val, a, b)
      BY <2>1, <2>2 DEF Leads
  <2> QED
      BY <2>3
<1> DEFINE Typed == {n \in Nat : formatRoman[n] \in Seq(RomanLetters)}
<1>7. ASSUME NEW n \in Nat, \A k \in 0..(n - 1) : k \in Typed PROVE n \in Typed
  <2>1. CASE n = 0
    <3>1. <<>> \in Seq(RomanLetters)
        OBVIOUS
    <3> QED
        BY <1>5, <2>1, <3>1
  <2>2. CASE n # 0
    <3>1. PICK val \in 1..n, a \in RomanLetters \cup {0}, b \in RomanLetters : Leads(n, val, a, b)
        BY <1>6, <2>2
    <3>2. PICK t \in Seq(RomanLetters) : t = formatRoman[n - val]
        BY <1>7
    <3>3. formatRoman[n] = (IF a = 0 THEN <<b>> ELSE <<a, b>>) \o t
        BY <3>1, <3>2 DEF Leads
    <3>4. formatRoman[n] \in Seq(RomanLetters)
        BY <3>3, LettersConcat
    <3> QED
        BY <3>4
  <2> QED
      BY <2>1, <2>2
<1>8. Nat \subseteq Typed
  <2> HIDE DEF Typed
  <2> QED
      BY <1>7, StrongInduction
<1>9. \A n \in Nat \ {0} : formatRoman[n] = step(n).sym \o formatRoman[n - step(n).val]
    BY <1>4
<1> QED
    BY <1>5, <1>6, <1>8, <1>9 DEF step

\* The step that formatRoman() takes is the first one that fits.
LEMMA StepTaken ==
    ASSUME NEW n \in Nat \ {0}, NEW i \in 1..13, romanSteps[i].val <= n,
           \A j \in 1..13 : romanSteps[j].val <= n => i <= j
    PROVE  formatRoman[n] = romanSteps[i].sym \o formatRoman[n - romanSteps[i].val]
<1> DEFINE S == {j \in DOMAIN romanSteps : romanSteps[j].val <= n}
<1>1. i \in S /\ S \in SUBSET Nat /\ \A j \in S : i <= j
    BY romanStepsFacts
<1>2. Min(S) \in S /\ \A j \in S : Min(S) <= j
  <2> HIDE DEF S
  <2> QED
      BY <1>1, MinFacts
<1>3. Min(S) = i
  <2> HIDE DEF S
  <2>1. PICK m \in Nat : m = Min(S)
      BY <1>1, <1>2
  <2>2. i <= m /\ m <= i
      BY <1>1, <1>2, <2>1
  <2> QED
      BY <2>1, <2>2
<1> QED
    BY <1>3, formatRomanFacts

\* The numeral of 18, xviii, has more letters than the patterns take.
LEMMA EighteenIsLong == Len(formatRoman[18]) = 5
<1> DEFINE val(i) == romanSteps[i].val
<1>1. /\ val(1) = 1000 /\ val(2) = 900 /\ val(3) = 500 /\ val(4) = 400 /\ val(5) = 100 /\ val(6) = 90
      /\ val(7) = 50 /\ val(8) = 40 /\ val(9) = 10 /\ val(10) = 9 /\ val(11) = 5 /\ val(12) = 4
      /\ val(13) = 1
    BY romanStepsFacts DEF IsStep
<1>2. romanSteps[9].sym = <<24>> /\ romanSteps[11].sym = <<22>> /\ romanSteps[13].sym = <<9>>
    BY romanStepsFacts DEF IsStep
<1> DEFINE Takes(n, i) == val(i) <= n /\ \A j \in 1..(i - 1) : ~(val(j) <= n)
<1>3. ASSUME NEW n \in Nat \ {0}, NEW i \in 1..13, Takes(n, i), NEW rest, rest = n - val(i)
      PROVE  formatRoman[n] = romanSteps[i].sym \o formatRoman[rest]
  <2>1. \A j \in 1..13 : val(j) <= n => i <= j
      BY <1>3
  <2> QED
      BY <1>3, <2>1, StepTaken
<1> HIDE DEF val
<1>4. Takes(18, 9) /\ Takes(8, 11) /\ Takes(3, 13) /\ Takes(2, 13) /\ Takes(1, 13)
    BY <1>1
<1>5. /\ 8 = 18 - val(9) /\ 3 = 8 - val(11) /\ 2 = 3 - val(13) /\ 1 = 2 - val(13) /\ 0 = 1 - val(13)
      /\ 18 \in Nat \ {0} /\ 8 \in Nat \ {0} /\ 3 \in Nat \ {0} /\ 2 \in Nat \ {0} /\ 1 \in Nat \ {0}
      /\ 9 \in 1..13 /\ 11 \in 1..13 /\ 13 \in 1..13
    BY <1>1
<1> HIDE DEF Takes
<1>6. /\ formatRoman[18] = <<24>> \o formatRoman[8]
      /\ formatRoman[8] = <<22>> \o formatRoman[3]
      /\ formatRoman[3] = <<9>> \o formatRoman[2]
      /\ formatRoman[2] = <<9>> \o formatRoman[1]
      /\ formatRoman[1] = <<9>> \o formatRoman[0]
  <2>1. formatRoman[18] = romanSteps[9].sym \o formatRoman[8]
      BY <1>3, <1>4, <1>5, Zenon
  <2>2. formatRoman[8] = romanSteps[11].sym \o formatRoman[3]
      BY <1>3, <1>4, <1>5, Zenon
  <2>3. formatRoman[3] = romanSteps[13].sym \o formatRoman[2]
      BY <1>3, <1>4, <1>5, Zenon
  <2>4. formatRoman[2] = romanSteps[13].sym \o formatRoman[1]
      BY <1>3, <1>4, <1>5, Zenon
  <2>5. formatRoman[1] = romanSteps[13].sym \o formatRoman[0]
      BY <1>3, <1>4, <1>5, Zenon
  <2> QED
      BY <1>2, <2>1, <2>2, <2>3, <2>4, <2>5, Zenon
<1>7. ASSUME NEW l \in RomanLetters, NEW t \in Seq(RomanLetters)
      PROVE  Len(<<l>> \o t) = Len(t) + 1
  <2>1. <<l>> \in Seq(RomanLetters) /\ Len(<<l>>) = 1
      OBVIOUS
  <2>2. Len(<<l>> \o t) = Len(<<l>>) + Len(t) /\ Len(t) \in Nat
      BY <2>1, ConcatProperties, LenProperties
  <2> QED
      BY <2>1, <2>2
<1>8. /\ formatRoman[0] = <<>> /\ Len(<<>>) = 0
      /\ 9 \in RomanLetters /\ 22 \in RomanLetters /\ 24 \in RomanLetters
      /\ \A n \in {0, 1, 2, 3, 8, 18} : formatRoman[n] \in Seq(RomanLetters)
    BY formatRomanFacts DEF RomanLetters
<1>9. Len(formatRoman[3]) = 3
    BY <1>6, <1>7, <1>8
<1> QED
    BY <1>6, <1>7, <1>8, <1>9

Reading == [total : Int, prev : Nat]

\* A letter to the left of what is read.
LEMMA romanTotalFacts ==
    /\ romanTotal[<<>>] = [total |-> 0, prev |-> 0]
    /\ \A l \in RomanLetters, t \in Seq(RomanLetters) :
          romanTotal[<<l>> \o t] =
             IF romanVals[l] < romanTotal[t].prev
             THEN [romanTotal[t] EXCEPT !.total = @ - romanVals[l]]
             ELSE [total |-> romanTotal[t].total + romanVals[l], prev |-> romanVals[l]]
<1> DEFINE D == Seq(RomanLetters)
           Left(v, rest) == IF v < rest.prev THEN [rest EXCEPT !.total = @ - v]
                            ELSE [total |-> rest.total + v, prev |-> v]
           Step(f, s) == IF s = <<>> THEN [total |-> 0, prev |-> 0]
                         ELSE Left(romanVals[Head(s)], f[Tail(s)])
           H == [s \in D |-> [f \in [D -> Reading] |-> Step(f, s)]]
           rank == [s \in D |-> Len(s)]
           Is(f) == f = [s \in D |-> Step(f, s)]
<1>0. ASSUME NEW s \in D, s # <<>>
      PROVE  Head(s) \in RomanLetters /\ Tail(s) \in D /\ Len(Tail(s)) < Len(s)
  <2>1. Len(s) \in Nat
      OBVIOUS
  <2> QED
      BY <1>0, <2>1, HeadTailProperties
<1>1. ASSUME NEW v \in Nat, NEW rest \in Reading PROVE Left(v, rest) \in Reading
    BY DEF Reading
<1>2. \E f : Is(f)
  <2>0. [total |-> 0, prev |-> 0] \in Reading
      BY DEF Reading
  <2>1. ASSUME NEW s \in D, NEW f \in [D -> Reading] PROVE Step(f, s) \in Reading
    <3> HIDE DEF D, Left
    <3>1. s # <<>> => romanVals[Head(s)] \in Nat /\ f[Tail(s)] \in Reading
        BY <1>0, romanValsFacts
    <3> QED
        BY <1>1, <2>0, <3>1
  <2>2. H \in [D -> [[D -> Reading] -> Reading]] /\ \A s \in D, f \in [D -> Reading] : H[s][f] = Step(f, s)
    <3> HIDE DEF D, Step
    <3> QED
        BY <2>1
  <2>3. rank \in [D -> Nat] /\ \A s \in D : rank[s] = Len(s)
      OBVIOUS
  <2> HIDE DEF D, H, rank, Step
  <2>4. Descends(D, Reading, rank, H)
    <3> SUFFICES ASSUME NEW s \in D, NEW f \in [D -> Reading], NEW g \in [D -> Reading],
                        \A t \in D : rank[t] < rank[s] => f[t] = g[t]
                 PROVE  H[s][f] = H[s][g]
        BY <2>2 DEF Descends
    <3>1. \A t \in D : Len(t) < Len(s) => f[t] = g[t]
        BY <2>3
    <3>2. s # <<>> => f[Tail(s)] = g[Tail(s)]
        BY <1>0, <3>1
    <3>3. Step(f, s) = Step(g, s)
      <4> HIDE DEF Left
      <4> QED
          BY <3>2 DEF Step
    <3> QED
        BY <2>2, <3>3
  <2>5. PICK f \in [D -> Reading] : \A s \in D : f[s] = H[s][f]
      BY <2>0, <2>3, <2>4, Recursion
  <2>6. Is(f)
      BY <2>2, <2>5
  <2> QED
      BY <2>6
<1>3. Is(romanTotal)
  <2>1. romanTotal = CHOOSE f : Is(f)
      BY romanValsFacts DEF romanTotal
  <2> HIDE DEF Is
  <2> QED
      BY <1>2, <2>1
<1>4. \A s \in D : romanTotal[s] = Step(romanTotal, s)
  <2> HIDE DEF Step
  <2> QED
      BY <1>3
<1>5. romanTotal[<<>>] = [total |-> 0, prev |-> 0]
  <2>1. <<>> \in Seq(RomanLetters)
      OBVIOUS
  <2> QED
      BY <1>4, <2>1
<1>6. ASSUME NEW l \in RomanLetters, NEW t \in Seq(RomanLetters)
      PROVE  romanTotal[<<l>> \o t] = Left(romanVals[l], romanTotal[t])
  <2>1. PICK s \in Seq(RomanLetters) : s = <<l>> \o t
    <3>1. <<l>> \in Seq(RomanLetters)
        OBVIOUS
    <3> QED
        BY <3>1, ConcatProperties
  <2>2. Len(s) = Len(t) + 1 /\ s[1] = l /\ \A i \in 1..Len(t) : s[i + 1] = t[i]
      BY <2>1
  <2>3. s # <<>> /\ Head(s) = l
      BY <2>2
  <2>4. Tail(s) = t
    <3>1. Tail(s) \in Seq(RomanLetters) /\ Len(Tail(s)) = Len(t) /\ \A i \in 1..Len(t) : Tail(s)[i] = t[i]
        BY <2>2, <2>3, HeadTailProperties
    <3> QED
        BY <3>1, SeqEqual
  <2>5. romanTotal[s] = Left(romanVals[l], romanTotal[t])
    <3> HIDE DEF Left
    <3> QED
        BY <1>4, <2>3, <2>4
  <2> QED
      BY <2>1, <2>5
<1> QED
    BY <1>5, <1>6

LEMMA LetterSubtracts ==
    ASSUME NEW p \in Int, NEW q \in Int, NEW v \in Int
    PROVE  [[total |-> p, prev |-> q] EXCEPT !.total = @ - v] = [total |-> p - v, prev |-> q]
    OBVIOUS

LEMMA TwoLetters ==
    ASSUME NEW a \in RomanLetters, NEW b \in RomanLetters PROVE <<a>> \o <<b>> = <<a, b>>
<1> DEFINE s == <<a>>
           t == <<b>>
           u == s \o t
           w == <<a, b>>
<1>1. s \in Seq(RomanLetters) /\ t \in Seq(RomanLetters) /\ w \in Seq(RomanLetters)
    OBVIOUS
<1>2. Len(s) = 1 /\ Len(t) = 1 /\ s[1] = a /\ t[1] = b /\ Len(w) = 2 /\ w[1] = a /\ w[2] = b
    OBVIOUS
<1> HIDE DEF s, t, w
<1>3. u \in Seq(RomanLetters) /\ Len(u) = 2 /\ u[1] = a /\ u[2] = b
    BY <1>1, <1>2, ConcatProperties
<1> HIDE DEF u
<1>4. u = w
  <2>1. \A i \in 1..2 : u[i] = w[i]
      BY <1>2, <1>3
  <2> QED
      BY <1>1, <1>2, <1>3, <2>1, SeqEqual
<1> QED
    BY <1>4 DEF u, s, t, w

\* What formatRoman() writes parseRoman() reads as the same number.
LEMMA RomanRoundTrip ==
    ASSUME NEW n \in Nat
    PROVE  romanTotal[formatRoman[n]] = [total |-> n, prev |-> LargestLetter(n)]
<1> DEFINE S == {k \in Nat : romanTotal[formatRoman[k]] = [total |-> k, prev |-> LargestLetter(k)]}
<1>1. ASSUME NEW k \in Nat, \A j \in 0..(k - 1) : j \in S PROVE k \in S
  <2>1. CASE k = 0
    <3>1. LargestLetter(0) = 0
        BY DEF LargestLetter
    <3> QED
        BY <2>1, <3>1, formatRomanFacts, romanTotalFacts
  <2>2. CASE k # 0
    <3>1. PICK val \in 1..k, a \in RomanLetters \cup {0}, b \in RomanLetters : Leads(k, val, a, b)
        BY <2>2, formatRomanFacts
    <3>2. PICK t \in Seq(RomanLetters) : t = formatRoman[k - val]
        BY formatRomanFacts
    <3>3. romanTotal[t] = [total |-> k - val, prev |-> LargestLetter(k - val)]
      <4>1. k - val \in S
          BY <1>1
      <4> QED
          BY <3>2, <4>1
    <3>4. romanVals[b] \in Nat /\ (a # 0 => a \in RomanLetters /\ romanVals[a] \in Nat)
        BY romanValsFacts
    <3>5. LargestLetter(k - val) \in Nat
        BY DEF LargestLetter
    <3>6. romanTotal[<<b>> \o t] = [total |-> k - val + romanVals[b], prev |-> romanVals[b]]
      <4>1. ~(romanVals[b] < romanTotal[t].prev)
          BY <3>1, <3>3, <3>4, <3>5 DEF Leads
      <4>2. romanTotal[<<b>> \o t] =
               IF romanVals[b] < romanTotal[t].prev
               THEN [romanTotal[t] EXCEPT !.total = @ - romanVals[b]]
               ELSE [total |-> romanTotal[t].total + romanVals[b], prev |-> romanVals[b]]
          BY romanTotalFacts
      <4> QED
          BY <3>3, <4>1, <4>2
    <3>7. CASE a = 0
      <4>1. formatRoman[k] = <<b>> \o t /\ romanVals[b] = val /\ LargestLetter(k) = romanVals[b]
          BY <3>1, <3>2, <3>7 DEF Leads
      <4>2. k - val + romanVals[b] = k
          BY <4>1
      <4>3. romanTotal[formatRoman[k]] = [total |-> k, prev |-> LargestLetter(k)]
          BY <3>6, <4>1, <4>2
      <4> QED
          BY <4>3
    <3>8. CASE a # 0
      <4>1. /\ formatRoman[k] = <<a, b>> \o t /\ LargestLetter(k) = romanVals[b]
            /\ romanVals[a] < romanVals[b] /\ romanVals[b] - romanVals[a] = val
          BY <3>1, <3>2, <3>8 DEF Leads
      <4>2. PICK u \in Seq(RomanLetters) : u = <<b>> \o t
        <5>1. <<b>> \in Seq(RomanLetters)
            OBVIOUS
        <5> QED
            BY <5>1, ConcatProperties
      <4>3. formatRoman[k] = <<a>> \o u
        <5>1. a \in RomanLetters
            BY <3>4, <3>8
        <5>2. <<a>> \in Seq(RomanLetters) /\ <<b>> \in Seq(RomanLetters)
            BY <5>1
        <5>3. <<a>> \o <<b>> = <<a, b>>
            BY <5>1, TwoLetters
        <5>4. (<<a>> \o <<b>>) \o t = <<a>> \o (<<b>> \o t)
            BY <5>2, ConcatAssociative
        <5> QED
            BY <4>1, <4>2, <5>3, <5>4
      <4>4. romanTotal[<<a>> \o u] =
               IF romanVals[a] < romanTotal[u].prev
               THEN [romanTotal[u] EXCEPT !.total = @ - romanVals[a]]
               ELSE [total |-> romanTotal[u].total + romanVals[a], prev |-> romanVals[a]]
          BY <3>4, <3>8, romanTotalFacts
      <4>5. romanTotal[u] = [total |-> k - val + romanVals[b], prev |-> romanVals[b]]
          BY <3>6, <4>2
      <4>6. romanTotal[<<a>> \o u] = [total |-> k - val + romanVals[b] - romanVals[a], prev |-> romanVals[b]]
        <5>1. romanVals[a] < romanTotal[u].prev
            BY <4>1, <4>5
        <5>2. romanTotal[<<a>> \o u] = [romanTotal[u] EXCEPT !.total = @ - romanVals[a]]
            BY <4>4, <5>1, Zenon
        <5>3. [[total |-> k - val + romanVals[b], prev |-> romanVals[b]] EXCEPT !.total = @ - romanVals[a]]
                 = [total |-> k - val + romanVals[b] - romanVals[a], prev |-> romanVals[b]]
            BY <3>4, <3>8, LetterSubtracts
        <5> QED
            BY <4>5, <5>2, <5>3, Zenon
      <4>7. k - val + romanVals[b] - romanVals[a] = k
          BY <3>4, <3>8, <4>1
      <4>8. romanTotal[formatRoman[k]] = [total |-> k, prev |-> LargestLetter(k)]
          BY <4>1, <4>3, <4>6, <4>7
      <4> QED
          BY <4>8
    <3> QED
        BY <3>7, <3>8
  <2> QED
      BY <2>1, <2>2
<1>2. Nat \subseteq S
  <2> HIDE DEF S
  <2> QED
      BY <1>1, StrongInduction
<1> QED
    BY <1>2

LEMMA parseRomanFacts ==
    ASSUME NEW n \in Nat \ {0}
    PROVE  parseRoman(formatRoman[n]) = n /\ formatRoman[n] # <<>>
<1>1. formatRoman[n] \in Seq(RomanLetters) /\ formatRoman[n] # <<>>
  <2>1. romanTotal[formatRoman[n]] = [total |-> n, prev |-> LargestLetter(n)]
      BY RomanRoundTrip
  <2>2. formatRoman[n] = <<>> => romanTotal[<<>>].total = n
      BY <2>1
  <2> QED
      BY <2>2, formatRomanFacts, romanTotalFacts
<1>2. romanTotal[formatRoman[n]].total = n
  <2>1. romanTotal[formatRoman[n]] = [total |-> n, prev |-> LargestLetter(n)]
      BY RomanRoundTrip
  <2> QED
      BY <2>1
<1> QED
    BY <1>1, <1>2, romanValsFacts DEF parseRoman, Positive

-----------------------------------------------------------------------------
(* Counting.                                                               *)

UpTo(S, n) == {m \in S : m <= n}

LEMMA UpToFacts ==
    ASSUME NEW S \in SUBSET Nat, NEW n \in Nat
    PROVE  IsFiniteSet(UpTo(S, n)) /\ Position(S, n) = Cardinality(UpTo(S, n)) /\ Position(S, n) \in Nat
<1>1. \A m \in UpTo(S, n) : m \in 0..n
    BY DEF UpTo
<1>2. IsFiniteSet(UpTo(S, n))
  <2>1. UpTo(S, n) \subseteq 0..n /\ IsFiniteSet(0..n)
      BY <1>1, FS_Interval
  <2> QED
      BY <2>1, FS_Subset
<1>3. Position(S, n) = Cardinality(UpTo(S, n))
    BY DEF Position, UpTo
<1> QED
    BY <1>2, <1>3, FS_CardinalityType

\* The first is in the first position.
LEMMA FirstPosition ==
    ASSUME NEW S \in SUBSET Nat, S # {}
    PROVE  Min(S) \in S /\ Position(S, Min(S)) = 1
<1>1. PICK m \in S : m = Min(S) /\ \A k \in S : m <= k
    BY MinFacts
<1>2. UpTo(S, m) = {m}
  <2>1. m \in Nat
      OBVIOUS
  <2>2. m \in UpTo(S, m) /\ \A k \in UpTo(S, m) : k = m
      BY <1>1, <2>1 DEF UpTo
  <2> QED
      BY <2>2
<1>3. Position(S, m) = 1
    BY <1>2, UpToFacts, FS_Singleton
<1> QED
    BY <1>1, <1>3

\* The others are in the position after the one before.
LEMMA NextPosition ==
    ASSUME NEW S \in SUBSET Nat, NEW n \in S, n # Min(S)
    PROVE  \E p \in S : /\ p = Max({m \in S : m < n}) /\ p < n
                        /\ Position(S, n) = Position(S, p) + 1
<1> DEFINE B == {m \in S : m < n}
<1>1. n \in Nat /\ Min(S) \in Nat /\ Min(S) \in S /\ Min(S) <= n
    BY MinFacts
<1>2. PICK p \in B : p = Max(B) /\ \A k \in B : k <= p
  <2>1. Min(S) \in B
      BY <1>1
  <2>2. B \in SUBSET Nat
      OBVIOUS
  <2>3. \A k \in B : k <= n
      BY <1>1, <2>2
  <2> HIDE DEF B
  <2> QED
      BY <1>1, <2>1, <2>2, <2>3, MaxFacts
<1>3. p \in S /\ p < n /\ p \in Nat /\ n \notin UpTo(S, p)
    BY <1>1, <1>2 DEF UpTo
<1>4. Cardinality(UpTo(S, n)) = Cardinality(UpTo(S, p)) + 1
  <2>1. ASSUME NEW k \in S PROVE k \in UpTo(S, n) <=> k \in UpTo(S, p) \cup {n}
    <3>1. k \in Nat /\ (k < n => k <= p)
        BY <1>2
    <3> QED
        BY <1>1, <1>3, <3>1 DEF UpTo
  <2>2. UpTo(S, n) = UpTo(S, p) \cup {n}
      BY <2>1 DEF UpTo
  <2>3. IsFiniteSet(UpTo(S, p)) /\ n \notin UpTo(S, p)
      BY <1>3, UpToFacts
  <2>4. Cardinality(UpTo(S, p) \cup {n}) = Cardinality(UpTo(S, p)) + 1
      BY <2>3, FS_AddElement
  <2> QED
      BY <2>2, <2>4
<1>5. Position(S, n) = Position(S, p) + 1
    BY <1>3, <1>4, UpToFacts
<1> QED
    BY <1>2, <1>3, <1>5

\* No two are in one position.
LEMMA LaterPosition ==
    ASSUME NEW S \in SUBSET Nat, NEW m \in S, NEW n \in S, m < n
    PROVE  Position(S, m) < Position(S, n)
<1>0. m \in Nat /\ n \in Nat
    OBVIOUS
<1>1. UpTo(S, m) \cup {n} \subseteq UpTo(S, n) /\ n \notin UpTo(S, m)
  <2>1. \A k \in UpTo(S, m) : k \in UpTo(S, n)
      BY <1>0 DEF UpTo
  <2>2. n \in UpTo(S, n) /\ n \notin UpTo(S, m)
      BY <1>0 DEF UpTo
  <2> QED
      BY <2>1, <2>2
<1>2. Cardinality(UpTo(S, m) \cup {n}) = Cardinality(UpTo(S, m)) + 1
    BY <1>0, <1>1, UpToFacts, FS_AddElement
<1>3. Cardinality(UpTo(S, m) \cup {n}) <= Cardinality(UpTo(S, n))
    BY <1>0, <1>1, UpToFacts, FS_Subset
<1> QED
    BY <1>0, <1>2, <1>3, UpToFacts

-----------------------------------------------------------------------------
(* The types of the builder's state.                                       *)

Kinds       == HeadingKinds \cup {"clause", "huruf", "item", "ayat", "angka"}
MarkerKinds == {"unknown", "digit", "decimal", "lowerAlpha", "upperAlpha", "lowerRoman", "upperRoman"}
Forms       == MarkerForms \cup {"none"}

\* The numbers of a document: what is written in it, and what a plan writes.
Numbers == Token \cup {FormatOrdinal(kind, n) : kind \in MarkerKinds, n \in Nat}

Marker ==
    [token : Numbers, kind : MarkerKinds, form : Forms, ordinal : Nat,
     ambiguous : BOOLEAN, altKind : MarkerKinds, altOrdinal : Nat]
Words == STRING \cup {""}
Node ==
    [kind : Kinds, word : Words, number : Numbers, ordinal : Nat, marker : Marker,
     level : Nat \ {0}, parent : Nat, head : Nat \ {0}]
Segments == [kind : Kinds, number : Numbers, copy : Nat]
IDs      == Seq(Segments) \ {<<>>}

\* What a marker that can be read says.
Readable(m, tok, form) ==
    /\ m.kind # "unknown" => m.token = tok /\ m.form = form
    /\ m.ambiguous => m.kind # "unknown" /\ m.altKind # "unknown"

LEMMA NumberFacts ==
    ASSUME NEW tok \in Numbers
    PROVE  /\ tok.script \in {"digit", "decimal"} => tok.value[1] \in Nat /\ Last(tok.value) \in Nat
           /\ parseRoman(tok.value) \in Nat /\ ParseArticleNumber(tok) \in Nat
<1>1. parseRoman(tok.value) \in Nat
    BY DEF parseRoman, Positive
<1>2. CASE tok \in Token
  <2>1. tok.value \in Seq(Nat) /\ tok.value # <<>>
      BY <1>2 DEF Token
  <2>2. Len(tok.value) \in Nat \ {0}
      BY <2>1, EmptySeq
  <2>3. tok.value[1] \in Nat /\ Last(tok.value) \in Nat
      BY <2>1, <2>2, ElementOfSeq DEF Last
  <2> QED
      BY <1>1, <2>3 DEF ParseArticleNumber
<1>3. ASSUME NEW kind \in MarkerKinds, NEW n \in Nat, tok = FormatOrdinal(kind, n)
      PROVE  tok.script \in {"digit", "decimal"} => tok.value[1] \in Nat /\ Last(tok.value) \in Nat
  <2>1. tok \in {Lower(formatRoman[n]), Upper(formatRoman[n]), Lower(formatAlpha[n]),
                 Upper(formatAlpha[n]), Digit(n)}
      BY <1>3 DEF FormatOrdinal
  <2>2. tok.script \in {"digit", "decimal"} => tok = Digit(n)
      BY <2>1 DEF Lower, Upper
  <2>3. Digit(n).value[1] = n /\ Last(Digit(n).value) = n
      BY DEF Digit, Last
  <2> QED
      BY <2>2, <2>3
<1> QED
    BY <1>1, <1>2, <1>3 DEF Numbers, ParseArticleNumber

\* ParseMarker() gives a marker that says what is written, or none.
LEMMA NoMarkerType == NoMarker \in Marker /\ NoMarker.kind = "unknown" /\ ~NoMarker.ambiguous
<1>1. <<0>> \in Seq(Nat) /\ <<0>> # <<>>
    OBVIOUS
<1>2. Digit(0) \in Token
    BY <1>1 DEF Digit, Token
<1> QED
    BY <1>2 DEF NoMarker, Marker, MarkerKinds, Numbers, Forms

LEMMA classifyTokenType ==
    ASSUME NEW tok \in Numbers, NEW form \in Forms
    PROVE  /\ classifyToken(tok, form) \in Marker
           /\ Readable(classifyToken(tok, form), tok, form)
<1> DEFINE base  == [NoMarker EXCEPT !.token = tok, !.form = form]
           roman == parseRoman(tok.value)
           alpha == IF Len(tok.value) > 2 THEN 0 ELSE parseAlpha[tok.value]
           m     == classifyToken(tok, form)
<1> SUFFICES m \in Marker /\ Readable(m, tok, form)
    OBVIOUS
<1>1. base \in Marker /\ base.token = tok /\ base.form = form /\ ~base.ambiguous
    BY NoMarkerType DEF Marker, NoMarker
<1>2. roman \in Nat
    BY NumberFacts
<1>3. Alpha(tok.script) \in MarkerKinds \ {"unknown"} /\ Roman(tok.script) \in MarkerKinds \ {"unknown"}
    BY DEF Alpha, Roman, MarkerKinds
<1>4. CASE tok.script = "digit"
  <2>0. tok.value[1] \in Nat
      BY <1>4, NumberFacts
  <2>1. CASE tok.value[1] > 0
    <3>1. m = [base EXCEPT !.kind = "digit", !.ordinal = tok.value[1]]
        BY <1>4, <2>1 DEF classifyToken
    <3> QED
        BY <1>1, <2>0, <3>1 DEF Marker, MarkerKinds, Readable
  <2>2. CASE tok.value[1] = 0
    <3>1. m = NoMarker
        BY <1>4, <2>2 DEF classifyToken
    <3> QED
        BY <3>1, NoMarkerType DEF Readable
  <2> QED
      BY <2>0, <2>1, <2>2
<1>5. CASE tok.script = "decimal"
  <2>0. Last(tok.value) \in Nat
      BY <1>5, NumberFacts
  <2>1. m = [base EXCEPT !.kind = "decimal", !.ordinal = Last(tok.value)]
      BY <1>5 DEF classifyToken
  <2> QED
      BY <1>1, <2>0, <2>1 DEF Marker, MarkerKinds, Readable
<1>6. CASE tok.script \notin {"digit", "decimal"}
  <2>1. CASE roman # 0 /\ alpha \in Positive
    <3>1. m = [base EXCEPT !.kind = Roman(tok.script), !.ordinal = roman, !.ambiguous = TRUE,
                           !.altKind = Alpha(tok.script), !.altOrdinal = alpha]
        BY <1>6, <2>1 DEF classifyToken
    <3> HIDE DEF base, roman, alpha, m
    <3> QED
        BY <1>1, <1>2, <1>3, <2>1, <3>1 DEF Marker, Readable, Positive
  <2>2. CASE roman # 0 /\ alpha \notin Positive
    <3>1. m = [base EXCEPT !.kind = Roman(tok.script), !.ordinal = roman]
        BY <1>6, <2>2 DEF classifyToken
    <3> HIDE DEF base, roman, alpha, m
    <3> QED
        BY <1>1, <1>2, <1>3, <3>1 DEF Marker, Readable
  <2>3. CASE roman = 0 /\ alpha \in Positive
    <3>1. m = [base EXCEPT !.kind = Alpha(tok.script), !.ordinal = alpha]
        BY <1>6, <2>3 DEF classifyToken
    <3> HIDE DEF base, roman, alpha, m
    <3> QED
        BY <1>1, <1>3, <2>3, <3>1 DEF Marker, Readable, Positive
  <2>4. CASE roman = 0 /\ alpha \notin Positive
    <3>1. m = NoMarker
        BY <1>6, <2>4 DEF classifyToken
    <3> QED
        BY <3>1, NoMarkerType DEF Readable
  <2> QED
      BY <2>1, <2>2, <2>3, <2>4
<1> QED
    BY <1>4, <1>5, <1>6

LEMMA ParseMarkerType ==
    ASSUME NEW tok \in Numbers, NEW form \in Forms
    PROVE  /\ ParseMarker(tok, form) \in Marker
           /\ Readable(ParseMarker(tok, form), tok, form)
<1>1. ParseMarker(tok, form) = classifyToken(tok, form) \/ ParseMarker(tok, form) = NoMarker
    BY DEF ParseMarker
<1> QED
    BY <1>1, classifyTokenType, NoMarkerType DEF Readable

\* The lines of a document.
LEMMA LineFacts ==
    ASSUME NEW l \in Lines
    PROVE  /\ l.number \in Numbers /\ l.word \in STRING
           /\ IsHeading(l) => l.kind \in HeadingKinds /\ l.type \notin {"blank", "marker"}
           /\ MarkerAt(l) \in Marker
           /\ MarkerAt(l).kind # "unknown" => l.type = "marker" /\ MarkerAt(l).token = l.number
           /\ MarkerAt(l).ambiguous => MarkerAt(l).kind # "unknown" /\ MarkerAt(l).altKind # "unknown"
<1>1. /\ l.number \in Numbers /\ l.word \in STRING /\ l.form \in Forms
      /\ l.kind \in HeadingKinds \cup {"none"}
      /\ (l.type \in {"heading", "keyword"}) <=> (l.kind # "none")
    BY DEF Lines, Numbers, Forms
<1>2. IsHeading(l) => l.kind \in HeadingKinds /\ l.type \notin {"blank", "marker"}
    BY <1>1 DEF IsHeading
<1>3. CASE l.type = "marker"
  <2>1. MarkerAt(l) = ParseMarker(l.number, l.form)
      BY <1>3 DEF MarkerAt
  <2> QED
      BY <1>1, <1>2, <1>3, <2>1, ParseMarkerType DEF Readable
<1>4. CASE l.type # "marker"
  <2>1. MarkerAt(l) = NoMarker
      BY <1>4 DEF MarkerAt
  <2> QED
      BY <1>1, <1>2, <2>1, NoMarkerType
<1> QED
    BY <1>3, <1>4

-----------------------------------------------------------------------------
(* Written and read back.                                                  *)

\* The readings of a symbol of letters: a numeral, an ordinal of letters, or both.
ReadAs(m, script, roman, alpha) ==
    /\ m.kind # "unknown" <=> roman # 0 \/ alpha # 0
    /\ roman # 0 => m.kind = Roman(script) /\ m.ordinal = roman
    /\ roman = 0 /\ alpha # 0 => m.kind = Alpha(script) /\ m.ordinal = alpha
    /\ m.ambiguous <=> roman # 0 /\ alpha # 0
    /\ m.ambiguous => m.altKind = Alpha(script) /\ m.altOrdinal = alpha

AlphaReading(v) == IF Len(v) > 2 THEN 0 ELSE parseAlpha[v]

LEMMA FamilyFacts ==
    ASSUME NEW script \in {"lower", "upper"}
    PROVE  /\ IsAlpha(Alpha(script)) /\ ~IsRoman(Alpha(script)) /\ Alpha(script) # "unknown"
           /\ IsRoman(Roman(script)) /\ ~IsAlpha(Roman(script)) /\ Roman(script) # "unknown"
    BY DEF Alpha, Roman, IsAlpha, IsRoman

LEMMA BlankMarker ==
    ASSUME NEW t, NEW f
    PROVE  LET base == [NoMarker EXCEPT !.token = t, !.form = f]
           IN  /\ base \in [token : {t}, kind : {"unknown"}, form : {f}, ordinal : {0},
                            ambiguous : BOOLEAN, altKind : {"unknown"}, altOrdinal : {0}]
               /\ ~base.ambiguous
<1>1. PICK d : d = Digit(0)
    OBVIOUS
<1>2. NoMarker = [token |-> d, kind |-> "unknown", form |-> "none", ordinal |-> 0,
                  ambiguous |-> FALSE, altKind |-> "unknown", altOrdinal |-> 0]
    BY <1>1 DEF NoMarker
<1>3. NoMarker \in [token : {d, t}, kind : {"unknown"}, form : {"none", f}, ordinal : {0},
                    ambiguous : BOOLEAN, altKind : {"unknown"}, altOrdinal : {0}]
    BY <1>2
<1> QED
    BY <1>2, <1>3

\* classifyToken() on letters.
LEMMA LettersRead ==
    ASSUME NEW script \in {"lower", "upper"}, NEW v \in Seq(Nat), NEW form \in Forms
    PROVE  LET m == classifyToken([script |-> script, value |-> v], form)
           IN  /\ ReadAs(m, script, parseRoman(v), AlphaReading(v))
               /\ m.kind # "unknown" => m.form = form
<1> DEFINE tok   == [script |-> script, value |-> v]
           base  == [NoMarker EXCEPT !.token = tok, !.form = form]
           roman == parseRoman(v)
           alpha == AlphaReading(v)
           m     == classifyToken(tok, form)
<1>1. roman \in Nat /\ alpha \in Nat
    BY parseAlphaFacts DEF parseRoman, Positive, AlphaReading
<1>2. /\ DOMAIN base = {"token", "kind", "form", "ordinal", "ambiguous", "altKind", "altOrdinal"}
      /\ base.kind = "unknown" /\ base.form = form /\ ~base.ambiguous
    BY DEF NoMarker
<1>3. Alpha(script) # "unknown" /\ Roman(script) # "unknown"
    BY FamilyFacts
<1>4. tok.script = script /\ tok.value = v /\ script \notin {"digit", "decimal"}
    OBVIOUS
<1>5. m = CASE roman # 0 /\ alpha \in Positive ->
                 [base EXCEPT !.kind = Roman(script), !.ordinal = roman, !.ambiguous = TRUE,
                              !.altKind = Alpha(script), !.altOrdinal = alpha]
            [] roman # 0 /\ alpha \notin Positive ->
                 [base EXCEPT !.kind = Roman(script), !.ordinal = roman]
            [] roman = 0 /\ alpha \in Positive ->
                 [base EXCEPT !.kind = Alpha(script), !.ordinal = alpha]
            [] OTHER -> NoMarker
    BY <1>4 DEF classifyToken, AlphaReading
<1>6. alpha \in Positive <=> alpha # 0
    BY <1>1 DEF Positive
<1>7. NoMarker.kind = "unknown" /\ ~NoMarker.ambiguous
    BY NoMarkerType
<1>8. base \in [token : {tok}, kind : {"unknown"}, form : {form}, ordinal : {0},
                ambiguous : BOOLEAN, altKind : {"unknown"}, altOrdinal : {0}]
      /\ ~base.ambiguous
    BY BlankMarker
<1> HIDE DEF base, roman, alpha, m, tok
<1>9. ReadAs(m, script, roman, alpha) /\ (m.kind # "unknown" => m.form = form)
  <2>1. CASE roman # 0 /\ alpha # 0
    <3>1. m = [base EXCEPT !.kind = Roman(script), !.ordinal = roman, !.ambiguous = TRUE,
                           !.altKind = Alpha(script), !.altOrdinal = alpha]
        BY <1>5, <1>6, <2>1
    <3> QED
        BY <1>2, <1>3, <1>8, <2>1, <3>1 DEF ReadAs
  <2>2. CASE roman # 0 /\ alpha = 0
    <3>1. m = [base EXCEPT !.kind = Roman(script), !.ordinal = roman]
        BY <1>5, <1>6, <2>2
    <3> QED
        BY <1>2, <1>3, <1>8, <2>2, <3>1 DEF ReadAs
  <2>3. CASE roman = 0 /\ alpha # 0
    <3>1. m = [base EXCEPT !.kind = Alpha(script), !.ordinal = alpha]
        BY <1>5, <1>6, <2>3
    <3> QED
        BY <1>2, <1>3, <1>8, <2>3, <3>1 DEF ReadAs
  <2>4. CASE roman = 0 /\ alpha = 0
    <3>1. m = NoMarker
        BY <1>5, <1>6, <2>4
    <3> QED
        BY <1>7, <2>4, <3>1 DEF ReadAs
  <2> QED
      BY <2>1, <2>2, <2>3, <2>4
<1> QED
    BY <1>9 DEF roman, alpha, m, tok

\* What is read of what formatRoman() writes, and of what formatAlpha() writes.
LEMMA NumeralRead ==
    ASSUME NEW script \in {"lower", "upper"}, NEW n \in Nat \ {0}, NEW form \in Forms,
           NEW v, v = formatRoman[n],
           NEW m, m = ParseMarker([script |-> script, value |-> v], form)
    PROVE  /\ v \in Seq(Nat) \ {<<>>}
           /\ m.kind # "unknown" <=> Len(v) <= 4 /\ form # "bare"
           /\ m.kind # "unknown" => m.form = form /\ ReadAs(m, script, n, AlphaReading(v))
<1> DEFINE tok == [script |-> script, value |-> v]
<1>1. v \in Seq(RomanLetters) /\ v # <<>> /\ parseRoman(v) = n
    BY formatRomanFacts, parseRomanFacts
<1>2. v \in Seq(Nat)
  <2>1. v \in [1..Len(v) -> RomanLetters] /\ Len(v) \in Nat
      BY <1>1, LenProperties
  <2>2. v \in [1..Len(v) -> Nat]
      BY <2>1 DEF RomanLetters
  <2> QED
      BY <2>1, <2>2, SeqDef
<1>3. /\ ReadAs(classifyToken(tok, form), script, n, AlphaReading(v))
      /\ classifyToken(tok, form).kind # "unknown" => classifyToken(tok, form).form = form
    BY <1>1, <1>2, LettersRead
<1>4. m = IF Len(v) <= 4 /\ form # "bare" THEN classifyToken(tok, form) ELSE NoMarker
  <2>1. tok.script = script /\ tok.value = v /\ script \notin {"digit", "decimal"}
      OBVIOUS
  <2> QED
      BY <2>1 DEF ParseMarker
<1>5. classifyToken(tok, form).kind # "unknown"
    BY <1>3 DEF ReadAs
<1> QED
    BY <1>1, <1>2, <1>3, <1>4, <1>5, NoMarkerType

LEMMA LettersReadBack ==
    ASSUME NEW script \in {"lower", "upper"}, NEW n \in Nat \ {0}, NEW form \in Forms,
           NEW v, v = formatAlpha[n],
           NEW m, m = ParseMarker([script |-> script, value |-> v], form)
    PROVE  /\ v \in Seq(Nat) /\ parseRoman(v) \in Nat
           /\ Len(v) <= 2 /\ form # "bare" => m.kind # "unknown"
           /\ m.kind # "unknown" => m.form = form /\ ReadAs(m, script, parseRoman(v), AlphaReading(v))
           /\ Len(v) <= 2 => AlphaReading(v) = n
<1> DEFINE tok == [script |-> script, value |-> v]
<1>1. v \in Seq(Nat) /\ Len(v) \in Nat /\ parseAlpha[v] = n
    BY formatAlphaFacts, AlphaRoundTrip
<1>2. parseRoman(v) \in Nat
    BY DEF parseRoman, Positive
<1>3. /\ ReadAs(classifyToken(tok, form), script, parseRoman(v), AlphaReading(v))
      /\ classifyToken(tok, form).kind # "unknown" => classifyToken(tok, form).form = form
    BY <1>1, LettersRead
<1>4. m = IF Len(v) <= 4 /\ form # "bare" THEN classifyToken(tok, form) ELSE NoMarker
  <2>1. tok.script = script /\ tok.value = v /\ script \notin {"digit", "decimal"}
      OBVIOUS
  <2> QED
      BY <2>1 DEF ParseMarker
<1>5. Len(v) <= 2 => AlphaReading(v) = n /\ classifyToken(tok, form).kind # "unknown"
    BY <1>1, <1>3 DEF ReadAs, AlphaReading
<1> QED
    BY <1>1, <1>2, <1>3, <1>4, <1>5, NoMarkerType

\* What formatAlpha() writes last.
LEMMA LastLetter ==
    ASSUME NEW n \in Nat, NEW j \in Nat, NEW l \in 1..26, n = 26 * j + l
    PROVE  formatAlpha[n] = Append(formatAlpha[j], l)
<1>1. PICK q \in Nat, r \in 0..25 : q = (n - 1) \div 26 /\ r = (n - 1) % 26
    BY LettersAhead
<1>2. n \in Nat \ {0} /\ n = 26 * q + r + 1
    BY <1>1, LettersAhead
<1>3. j = q /\ l = r + 1
    BY <1>2
<1>4. formatAlpha[n] = Append(formatAlpha[q], r + 1)
    BY <1>1, <1>2, formatAlphaFacts
<1> QED
    BY <1>3, <1>4

LEMMA OneMore == Append(<<1>>, 1) = <<1, 1>> /\ Append(<<1, 1>>, 1) = <<1, 1, 1>>
<1> DEFINE Longer(s, t) == /\ Len(t) = Len(s) + 1 /\ t[Len(t)] = 1
                           /\ \A i \in 1..Len(s) : t[i] = s[i]
<1>1. ASSUME NEW s \in Seq(Nat), NEW t \in Seq(Nat), Longer(s, t)
      PROVE  Append(s, 1) = t
  <2>1. PICK u : u = Append(s, 1)
      OBVIOUS
  <2>2. /\ u \in Seq(Nat) /\ Len(u) = Len(s) + 1 /\ u[Len(s) + 1] = 1
        /\ \A i \in 1..Len(s) : u[i] = s[i]
      BY <2>1, AppendFacts
  <2>3. \A i \in 1..Len(u) : u[i] = t[i]
    <3> TAKE i \in 1..Len(u)
    <3>1. Len(s) \in Nat /\ (i \in 1..Len(s) \/ i = Len(s) + 1)
        BY <2>2, SeqFacts
    <3> QED
        BY <1>1, <2>2, <3>1
  <2> QED
      BY <1>1, <2>1, <2>2, <2>3, SeqEqual
<1>2. PICK one, two, three : one = <<1>> /\ two = <<1, 1>> /\ three = <<1, 1, 1>>
    OBVIOUS
<1>3. /\ one \in Seq(Nat) /\ two \in Seq(Nat) /\ three \in Seq(Nat)
      /\ Len(one) = 1 /\ Len(two) = 2 /\ Len(three) = 3
      /\ one[1] = 1 /\ two[1] = 1 /\ two[2] = 1
      /\ three[1] = 1 /\ three[2] = 1 /\ three[3] = 1
    BY <1>2
<1>4. Append(one, 1) = two
  <2>1. Longer(one, two)
      BY <1>3
  <2> HIDE DEF Longer
  <2> QED
      BY <1>1, <1>3, <2>1
<1>5. Append(two, 1) = three
  <2>1. Longer(two, three)
      BY <1>3
  <2> HIDE DEF Longer
  <2> QED
      BY <1>1, <1>3, <2>1
<1> QED
    BY <1>2, <1>4, <1>5

\* How long the letters of an ordinal are: two up to 702, and the next is aaa, which
\* is no numeral and has too many letters for an ordinal.
LEMMA LettersOfOrdinals ==
    /\ formatAlpha[1] = <<1>> /\ formatAlpha[703] = <<1, 1, 1>>
    /\ \A n \in 1..702 : Len(formatAlpha[n]) <= 2
<1>0. \A s \in Seq(Nat), l \in Nat : Append(s, l) \in Seq(Nat) /\ Len(Append(s, l)) = Len(s) + 1
    BY AppendFacts
<1>1. \A n \in 1..26 : formatAlpha[n] = Append(<<>>, n) /\ Len(formatAlpha[n]) = 1
  <2> TAKE n \in 1..26
  <2>1. n = 26 * 0 + n
      OBVIOUS
  <2>2. formatAlpha[n] = Append(formatAlpha[0], n)
    <3>1. n \in Nat /\ 0 \in Nat
        OBVIOUS
    <3> QED
        BY <2>1, <3>1, LastLetter
  <2>3. formatAlpha[n] = Append(<<>>, n)
      BY <2>2, formatAlphaFacts
  <2> QED
      BY <2>3
<1>2. formatAlpha[1] = <<1>>
    BY <1>1
<1>3. formatAlpha[27] = <<1, 1>>
  <2>1. formatAlpha[27] = Append(formatAlpha[1], 1)
      BY LastLetter
  <2>2. Append(<<1>>, 1) = <<1, 1>>
      BY OneMore
  <2> QED
      BY <1>2, <2>1, <2>2
<1>4. formatAlpha[703] = <<1, 1, 1>>
  <2>1. formatAlpha[703] = Append(formatAlpha[27], 1)
      BY LastLetter
  <2>2. Append(<<1, 1>>, 1) = <<1, 1, 1>>
      BY OneMore
  <2> QED
      BY <1>3, <2>1, <2>2
<1>5. ASSUME NEW n \in 27..702 PROVE Len(formatAlpha[n]) <= 2
  <2>1. n \in Nat \ {0}
      OBVIOUS
  <2>2. PICK q \in Nat, r \in 0..25 : n = (26 * q) + r + 1
    <3>1. (n - 1) \div 26 \in Nat /\ (n - 1) % 26 \in 0..25
          /\ n = (26 * ((n - 1) \div 26)) + ((n - 1) % 26) + 1
        BY <2>1, LettersAhead
    <3> QED
        BY <3>1
  <2>3. q \in 1..26 /\ r + 1 \in 1..26 /\ n = 26 * q + (r + 1)
      BY <2>1, <2>2
  <2>4. formatAlpha[n] = Append(formatAlpha[q], r + 1)
    <3>1. PICK l \in 1..26 : l = r + 1
        BY <2>3
    <3>2. n \in Nat /\ n = 26 * q + l
        BY <2>3, <3>1
    <3> QED
        BY <3>1, <3>2, LastLetter
  <2>5. PICK s \in Seq(Nat) : s = formatAlpha[q] /\ Len(s) = 1
      BY <1>1, <2>2, <2>3, formatAlphaFacts
  <2>6. Len(Append(s, r + 1)) = Len(s) + 1
      BY <1>0, <2>3
  <2> QED
      BY <2>4, <2>5, <2>6
<1>6. \A n \in 1..702 : n \in 1..26 \/ n \in 27..702
    OBVIOUS
<1>7. \A n \in 1..702 : Len(formatAlpha[n]) <= 2
  <2> TAKE n \in 1..702
  <2>1. CASE n \in 1..26
    <3>1. Len(formatAlpha[n]) = 1
        BY <1>1, <2>1
    <3> QED
        BY <3>1
  <2>2. CASE n \in 27..702
      BY <1>5, <2>2
  <2> QED
      BY <1>6, <2>1, <2>2
<1> QED
    BY <1>2, <1>4, <1>7

LEMMA FirstLetterIsNoNumeral ==
    parseRoman(<<1>>) = 0 /\ parseRoman(<<1, 1, 1>>) = 0
<1>1. ASSUME NEW s, s \in {<< 1 >>, <<1, 1, 1>>}, s \in Seq(DOMAIN romanVals) PROVE FALSE
  <2>1. s \in Seq(RomanLetters) /\ Len(s) > 0 /\ s[1] = 1
      BY <1>1, romanValsFacts
  <2>2. s[1] \in RomanLetters
      BY <2>1, ElementOfSeq
  <2> QED
      BY <2>1, <2>2 DEF RomanLetters
<1> QED
    BY <1>1 DEF parseRoman

-----------------------------------------------------------------------------
(* The inductive invariant.                                                *)

Building == {"read", "build"}
Growing  == {"read", "build", "name", "close"}

TreeTypes ==
    /\ style \in Styles
    /\ lines \in Seq(Lines) /\ Len(lines) <= MaxLines[style]
    /\ nodes \in Seq(Node)
    /\ stack \in Seq(Nat) /\ owner \in Seq(Nat) /\ ends \in Seq(Nat) /\ open \in Seq(Nat)
    /\ ids \in Seq(IDs) /\ captioned \subseteq 1..Len(nodes)

\* What exists in which phase.
Progress ==
    /\ phase = "read" => Len(nodes) = 0 /\ Len(owner) = 0
    /\ phase \notin Building => Len(owner) = Len(lines)
    /\ phase \in Growing \ {"close"} => Len(open) = 0
    /\ Len(owner) <= Len(lines)
    /\ Len(ids) <= Len(nodes) /\ (phase # "name" => Len(ids) = Len(nodes))
    /\ Len(ends) = Len(nodes)

\* The stack is a path of the tree, from the root to the last node.
StackIsAPath ==
    /\ Len(stack) > 0 /\ stack[1] = 0 /\ stack[Len(stack)] = Len(nodes)
    /\ \A i \in 2..Len(stack) : /\ stack[i] \in 1..Len(nodes)
                                /\ nodes[stack[i]].parent = stack[i - 1]
                                /\ LevelOf(stack[i - 1]) < nodes[stack[i]].level

\* Nodes are in document order, and the owner of a paragraph is the last node whose
\* heading is not behind it.
InDocumentOrder ==
    /\ \A n \in 1..Len(nodes) : nodes[n].parent < n /\ nodes[n].head <= Len(owner)
    /\ \A m, n \in 1..Len(nodes) : m < n => nodes[m].head < nodes[n].head
    /\ \A p \in 1..Len(owner) : /\ owner[p] <= Len(nodes)
                                /\ \A n \in 1..Len(nodes) : n <= owner[p] <=> nodes[n].head <= p

\* The node k ends the node m: it is the first after m that is not deeper.
EndsAt(m, k) ==
    /\ m < k /\ nodes[k].level <= nodes[m].level
    /\ \A j \in (m + 1)..(k - 1) : nodes[m].level < nodes[j].level
Unended(m, last) == \A k \in (m + 1)..last : nodes[m].level < nodes[k].level

\* closeRanges() so far: of the nodes seen, those are open that none has ended, and
\* the others end before the one that ended them.
OpenAscends ==
    /\ \A i \in 1..Len(open) : open[i] \in 1..Len(nodes)
    /\ \A i, j \in 1..Len(open) : i < j => /\ open[i] < open[j]
                                           /\ nodes[open[i]].level < nodes[open[j]].level
IsOpen(m) == \E i \in 1..Len(open) : open[i] = m
ClosedSoFar ==
    phase \in Growing =>
        \A m \in 1..Closed :
            /\ IsOpen(m) <=> Unended(m, Closed)
            /\ ~IsOpen(m) => \E k \in 1..Closed : EndsAt(m, k) /\ ends[m] = nodes[k].head - 1
AllClosed ==
    phase \notin Growing =>
        \A m \in 1..Len(nodes) :
            \/ Unended(m, Len(nodes)) /\ ends[m] = Len(lines)
            \/ \E k \in 1..Len(nodes) : EndsAt(m, k) /\ ends[m] = nodes[k].head - 1

\* No two nodes share a name, and a name without a number goes to the first.
UniqueNames(s) ==
    /\ \A m, n \in 1..Len(s) : s[m] = s[n] => m = n
    /\ \A n \in 1..Len(s) :
         (\A m \in 1..(n - 1) : Unnumbered(s[m]) # Unnumbered(s[n])) => Last(s[n]).copy = 1
NamesAreUnique == UniqueNames(ids)

\* Until the lists are settled a marker is what its paragraph says.
MarkersAsRead ==
    phase \in Building =>
        \A n \in 1..Len(nodes) :
            /\ HasMarker(n) => nodes[n].marker = MarkerAt(lines[nodes[n].head])
            /\ nodes[n].number = lines[nodes[n].head].number
            /\ HasMarker(n) => nodes[n].marker.ordinal = nodes[n].ordinal
            /\ ~HasMarker(n) => nodes[n].ordinal = ParseArticleNumber(lines[nodes[n].head].number)

\* A heading has no marker, and a member of a list is no heading.
HeadingsHaveNoMarker ==
    \A n \in 1..Len(nodes) : /\ HasMarker(n) <=> nodes[n].kind \notin HeadingKinds
                             /\ nodes[n].marker.ambiguous => HasMarker(n) /\ nodes[n].marker.altKind # "unknown"

TreeInv ==
    /\ TreeTypes /\ Progress /\ StackIsAPath /\ InDocumentOrder
    /\ OpenAscends /\ ClosedSoFar /\ AllClosed
    /\ NamesAreUnique /\ MarkersAsRead /\ HeadingsHaveNoMarker

-----------------------------------------------------------------------------
(* Names.                                                                  *)

LEMMA RangeIsFinite ==
    ASSUME NEW S, NEW s \in Seq(S)
    PROVE  IsFiniteSet(ToSet(s)) /\ ToSet(s) \subseteq S
<1>1. s \in Surjection(1..Len(s), ToSet(s)) /\ Len(s) \in Nat
    BY SeqFacts, LenProperties DEF Surjection
<1>2. IsFiniteSet(1..Len(s))
    BY <1>1, FS_Interval
<1> QED
    BY <1>1, <1>2, FS_Surjection, SeqFacts

LEMMA NodeIDType ==
    ASSUME NEW parentID \in Seq(Segments), NEW kind \in Kinds, NEW number \in Numbers
    PROVE  NodeID(parentID, kind, number) \in IDs
<1>1. Segment(kind, number) \in Segments
    BY DEF Segment, Segments
<1>2. << Segment(kind, number) >> \in Seq(Segments) /\ Len(<< Segment(kind, number) >>) = 1
    BY <1>1
<1>3. <<>> \in Seq(Segments)
    OBVIOUS
<1>4. \A t \in Seq(Segments) : t \o << Segment(kind, number) >> \in IDs
  <2> TAKE t \in Seq(Segments)
  <2>1. /\ t \o << Segment(kind, number) >> \in Seq(Segments)
        /\ Len(t \o << Segment(kind, number) >>) = Len(t) + 1 /\ Len(t) \in Nat
      BY <1>2, ConcatProperties, LenProperties
  <2> QED
      BY <2>1, EmptySeq DEF IDs
<1> QED
    BY <1>3, <1>4 DEF NodeID

\* A name and its variants: only the copy of the last segment differs.
LEMMA NamedFacts ==
    ASSUME NEW id \in IDs, NEW k \in Nat
    PROVE  LET named == [id EXCEPT ![Len(id)].copy = k]
           IN  /\ named \in IDs /\ Last(named).copy = k
               /\ Unnumbered(named) = Unnumbered(id)
<1> DEFINE named == [id EXCEPT ![Len(id)].copy = k]
<1>1. id \in Seq(Segments) /\ Len(id) \in Nat \ {0}
    BY EmptySeq DEF IDs
<1>2. id \in [1..Len(id) -> Segments] /\ Len(id) \in 1..Len(id)
    BY <1>1, LenProperties
<1>3. [id[Len(id)] EXCEPT !.copy = k] \in Segments /\ id[Len(id)] \in Segments
    BY <1>2 DEF Segments
<1>4. named = [id EXCEPT ![Len(id)] = [id[Len(id)] EXCEPT !.copy = k]]
    BY <1>2
<1>5. /\ named \in Seq(Segments) /\ Len(named) = Len(id)
      /\ named[Len(id)] = [id[Len(id)] EXCEPT !.copy = k]
    BY <1>1, <1>2, <1>3, <1>4, ExceptSeq
<1>6. named \in [1..Len(id) -> Segments]
    BY <1>5, LenProperties
<1>7. named \in IDs
    BY <1>1, <1>5, EmptySeq DEF IDs
<1>8. Last(named).copy = k
    BY <1>3, <1>5 DEF Last, Segments
<1>9. Unnumbered(named) = Unnumbered(id)
    BY <1>2, <1>4, <1>5, <1>6 DEF Unnumbered, Segments
<1> QED
    BY <1>7, <1>8, <1>9

\* uniqueID() finds a name that is not taken, and numbers it only when the name
\* without a number is taken.
LEMMA uniqueIDFacts ==
    ASSUME NEW taken \in SUBSET IDs, IsFiniteSet(taken), NEW base \in IDs
    PROVE  LET id == uniqueID(taken, base)
           IN  /\ id \in IDs \ taken
               /\ Last(id).copy = 1 \/ \E t \in taken : Unnumbered(t) = Unnumbered(id)
               /\ Unnumbered(id) = Unnumbered(base)
<1> DEFINE Named(k) == [base EXCEPT ![Len(base)].copy = k]
           C    == Cardinality(taken)
           Free == {k \in 1..(C + 1) : Named(k) \notin taken}
<1>1. C \in Nat
    BY FS_CardinalityType
<1>2. \A k \in Nat : /\ Named(k) \in IDs /\ Last(Named(k)).copy = k
                     /\ Unnumbered(Named(k)) = Unnumbered(base)
    BY NamedFacts
<1>3. Free # {}
  <2> SUFFICES ASSUME Free = {} PROVE FALSE
      OBVIOUS
  <2> DEFINE f == [k \in 1..(C + 1) |-> Named(k)]
  <2>1. f \in [1..(C + 1) -> taken]
      OBVIOUS
  <2>2. IsFiniteSet(1..(C + 1)) /\ Cardinality(taken) < Cardinality(1..(C + 1))
    <3>1. IsFiniteSet(1..(C + 1)) /\ Cardinality(1..(C + 1)) = C + 1
        BY <1>1, FS_Interval
    <3> QED
        BY <1>1, <3>1
  <2> DEFINE D == 1..(C + 1)
  <2>3. IsFiniteSet(D) /\ Cardinality(taken) < Cardinality(D) /\ f \in [D -> taken]
      BY <2>1, <2>2
  <2> HIDE DEF f, Named
  <2>4. \E x, y \in D : x # y /\ f[x] = f[y]
    <3> HIDE DEF D
    <3> QED
        BY <2>3, FS_PigeonHole
  <2>5. PICK x \in D, y \in D : x # y /\ f[x] = f[y]
      BY <2>4
  <2>6. f[x] = Named(x) /\ f[y] = Named(y)
      BY DEF f
  <2>7. x \in Nat /\ y \in Nat
      BY <1>1
  <2> QED
      BY <1>2, <2>5, <2>6, <2>7
<1> DEFINE k == Min(Free)
<1>4. Free \in SUBSET Nat
    BY <1>1
<1>5. k \in Free /\ \A j \in Free : k <= j
  <2> HIDE DEF Free
  <2> QED
      BY <1>3, <1>4, MinFacts
<1>6. uniqueID(taken, base) = Named(k)
    BY DEF uniqueID
<1>7. k \in Nat /\ Named(k) \notin taken
    BY <1>4, <1>5
<1>8. CASE k = 1
  <2> HIDE DEF Named, k
  <2>1. uniqueID(taken, base) \in IDs \ taken /\ Last(uniqueID(taken, base)).copy = 1
      BY <1>2, <1>6, <1>7, <1>8
  <2> QED
      BY <1>2, <1>6, <1>7, <2>1
<1>9. CASE k # 1
  <2>1. k \in 1..(C + 1) /\ 1 \in 1..(C + 1)
      BY <1>1, <1>5
  <2>2. 1 \notin Free
    <3> HIDE DEF Free, k
    <3> QED
        BY <1>1, <1>5, <1>9, <2>1
  <2>3. Named(1) \in taken
      BY <2>1, <2>2
  <2> HIDE DEF Named, k
  <2> QED
      BY <1>2, <1>6, <1>7, <2>3
<1> QED
    BY <1>8, <1>9

\* One more name leaves the names unique.
LEMMA NamesAppend ==
    ASSUME NEW s \in Seq(IDs), UniqueNames(s), NEW base \in IDs
    PROVE  LET t == Append(s, uniqueID(ToSet(s), base))
           IN  /\ t \in Seq(IDs) /\ Len(t) = Len(s) + 1 /\ UniqueNames(t)
               /\ \A i \in 1..Len(s) : t[i] = s[i]
               /\ Unnumbered(t[Len(s) + 1]) = Unnumbered(base)
<1> DEFINE id == uniqueID(ToSet(s), base)
           t  == Append(s, id)
<1>1. /\ id \in IDs \ ToSet(s)
      /\ Last(id).copy = 1 \/ \E u \in ToSet(s) : Unnumbered(u) = Unnumbered(id)
      /\ Unnumbered(id) = Unnumbered(base)
    BY RangeIsFinite, uniqueIDFacts
<1> HIDE DEF id
<1>2. /\ t \in Seq(IDs) /\ Len(t) = Len(s) + 1
      /\ \A i \in 1..Len(s) : t[i] = s[i]
      /\ t[Len(s) + 1] = id
    BY <1>1, AppendFacts
<1>3. /\ \A i \in 1..Len(s) : s[i] # id
      /\ Last(id).copy = 1 \/ \E i \in 1..Len(s) : Unnumbered(s[i]) = Unnumbered(id)
    BY <1>1, SeqFacts
<1>4. Len(s) \in Nat
    BY SeqFacts
<1> HIDE DEF t
<1>5. UniqueNames(t)
  <2>1. \A m, n \in 1..Len(t) : t[m] = t[n] => m = n
      BY <1>2, <1>3, <1>4 DEF UniqueNames
  <2>2. ASSUME NEW n \in 1..Len(t), \A m \in 1..(n - 1) : Unnumbered(t[m]) # Unnumbered(t[n])
        PROVE  Last(t[n]).copy = 1
    <3>1. CASE n \in 1..Len(s)
      <4>1. t[n] = s[n] /\ \A m \in 1..(n - 1) : t[m] = s[m]
          BY <1>2, <1>4, <3>1
      <4>2. \A m \in 1..(n - 1) : Unnumbered(s[m]) # Unnumbered(s[n])
          BY <2>2, <4>1
      <4> QED
          BY <3>1, <4>1, <4>2 DEF UniqueNames
    <3>2. CASE n = Len(s) + 1
      <4>1. t[n] = id /\ \A m \in 1..Len(s) : m \in 1..(n - 1) /\ t[m] = s[m]
          BY <1>2, <1>4, <3>2
      <4> QED
          BY <1>3, <2>2, <4>1
    <3> QED
        BY <1>2, <1>4, <3>1, <3>2
  <2> QED
      BY <2>1, <2>2 DEF UniqueNames
<1> QED
    BY <1>1, <1>2, <1>5 DEF t, id

\* A name that NodeID() makes has no number.
LEMMA NodeIDUnnumbered ==
    ASSUME NEW parentID \in Seq(Segments), NEW kind \in Kinds, NEW number \in Numbers
    PROVE  Unnumbered(NodeID(parentID, kind, number)) = NodeID(parentID, kind, number)
<1> DEFINE id == NodeID(parentID, kind, number)
           s  == Segment(kind, number)
<1>1. id \in IDs
    BY NodeIDType
<1>2. /\ id \in Seq(Segments) /\ Len(id) \in Nat \ {0}
      /\ id \in [1..Len(id) -> Segments] /\ Len(id) \in 1..Len(id)
    BY <1>1, EmptySeq, LenProperties DEF IDs
<1>3. s \in Segments /\ s.copy = 1
    BY DEF Segment, Segments
<1>4. id[Len(id)] = s
  <2>1. ASSUME NEW t \in Seq(Segments)
        PROVE  (t \o << s >>)[Len(t \o << s >>)] = s
    <3>1. << s >> \in Seq(Segments) /\ Len(<< s >>) = 1 /\ << s >>[1] = s
        BY <1>3
    <3>2. Len(t \o << s >>) = Len(t) + 1 /\ Len(t) \in Nat
        BY <3>1, ConcatProperties, LenProperties
    <3> QED
        BY <3>1, <3>2, ConcatProperties
  <2>2. <<>> \in Seq(Segments)
      OBVIOUS
  <2>3. id = parentID \o << s >> \/ id = <<>> \o << s >>
      BY DEF NodeID
  <2> QED
      BY <2>1, <2>2, <2>3
<1> HIDE DEF id, s
<1>5. [s EXCEPT !.copy = 1] = s
    BY <1>3 DEF Segments
<1>6. Unnumbered(id) = [id EXCEPT ![Len(id)] = [id[Len(id)] EXCEPT !.copy = 1]]
    BY <1>2 DEF Unnumbered
<1>7. Unnumbered(id) = id
    BY <1>2, <1>4, <1>5, <1>6
<1> QED
    BY <1>7 DEF id

\* One more name, of a node below a named one, leaves the others what they were.
LEMMA NamesGrow ==
    ASSUME ids \in Seq(IDs), UniqueNames(ids), NEW p \in 0..Len(ids), NEW kind \in Kinds, NEW number \in Numbers,
           ids' = Append(ids, uniqueID(ToSet(ids), NodeID(IDOf(ids, p), kind, number)))
    PROVE  /\ Len(ids') = Len(ids) + 1 /\ DOMAIN ids' = 1..(Len(ids) + 1) /\ DOMAIN ids = 1..Len(ids)
           /\ \A i \in 1..Len(ids) : ids'[i] = ids[i]
           /\ \A i \in 0..Len(ids) : IDOf(ids', i) = IDOf(ids, i)
           /\ Unnumbered(ids'[Len(ids) + 1]) = NodeID(IDOf(ids', p), kind, number)
<1>1. PICK parentID \in Seq(Segments) : parentID = IDOf(ids, p)
  <2>1. CASE p = 0
    <3>1. IDOf(ids, p) = <<>> /\ <<>> \in Seq(Segments)
        BY <2>1 DEF IDOf
    <3> QED
        BY <3>1
  <2>2. CASE p # 0
    <3>1. p \in 1..Len(ids)
        BY <2>2, LenProperties
    <3>2. ids[p] \in IDs /\ IDOf(ids, p) = ids[p]
        BY <2>2, <3>1, ElementOfSeq DEF IDOf
    <3> QED
        BY <3>2 DEF IDs
  <2> QED
      BY <2>1, <2>2
<1>2. PICK base \in IDs : base = NodeID(parentID, kind, number) /\ Unnumbered(base) = base
    BY NodeIDType, NodeIDUnnumbered
<1>3. ids' = Append(ids, uniqueID(ToSet(ids), base))
    BY <1>1, <1>2
<1>4. /\ ids' \in Seq(IDs) /\ Len(ids') = Len(ids) + 1
      /\ \A i \in 1..Len(ids) : ids'[i] = ids[i]
      /\ Unnumbered(ids'[Len(ids) + 1]) = base
    BY <1>2, <1>3, NamesAppend
<1>5. DOMAIN ids' = 1..Len(ids') /\ DOMAIN ids = 1..Len(ids) /\ Len(ids) \in Nat
    BY <1>4, SeqFacts
<1>6. \A i \in 0..Len(ids) : IDOf(ids', i) = IDOf(ids, i)
    BY <1>4, <1>5 DEF IDOf
<1> QED
    BY <1>1, <1>2, <1>4, <1>5, <1>6
LEMMA TreeInitFacts == TreeInit => TreeInv
<1> SUFFICES ASSUME TreeInit PROVE TreeInv
    OBVIOUS
<1>1. /\ <<>> \in Seq(Lines) /\ <<>> \in Seq(Node) /\ <<>> \in Seq(Nat) /\ <<>> \in Seq(IDs)
      /\ <<0>> \in Seq(Nat) /\ Len(<<0>>) = 1 /\ Len(<<>>) = 0 /\ <<0>>[1] = 0
    OBVIOUS
<1>2. MaxLines[style] \in Nat
    BY StructureAssumption DEF TreeInit
<1> QED
    BY <1>1, <1>2 DEF TreeInit, TreeInv, TreeTypes, Progress, StackIsAPath, InDocumentOrder,
        OpenAscends, ClosedSoFar, AllClosed, NamesAreUnique, UniqueNames, MarkersAsRead,
        HeadingsHaveNoMarker, Building, Growing, Closed

-----------------------------------------------------------------------------
(* Every step keeps the invariant.                                         *)

LEMMA TreeTypesFacts ==
    ASSUME TreeTypes
    PROVE  /\ Len(lines) \in Nat /\ Len(nodes) \in Nat /\ Len(stack) \in Nat /\ Len(owner) \in Nat
           /\ Len(ends) \in Nat /\ Len(open) \in Nat /\ Len(ids) \in Nat
           /\ DOMAIN nodes = 1..Len(nodes)
           /\ \A n \in 1..Len(nodes) : nodes[n] \in Node
           /\ \A p \in 1..Len(lines) : lines[p] \in Lines
           /\ \A i \in 1..Len(stack) : stack[i] \in Nat
           /\ \A i \in 1..Len(owner) : owner[i] \in Nat
           /\ \A i \in 1..Len(open) : open[i] \in Nat
  BY SeqFacts DEF TreeTypes

LEMMA ParentsAreEarlier ==
    ASSUME TreeInv, NEW n \in 1..Len(nodes)
    PROVE  nodes[n].parent \in 0..(n - 1) /\ nodes[n].kind \in Kinds /\ nodes[n].number \in Numbers
<1>1. nodes[n] \in Node /\ Len(nodes) \in Nat
    BY TreeTypesFacts DEF TreeInv
<1>2. nodes[n].parent \in Nat /\ nodes[n].kind \in Kinds /\ nodes[n].number \in Numbers
    BY <1>1 DEF Node
<1>3. nodes[n].parent < n
    BY DEF TreeInv, InDocumentOrder
<1> QED
    BY <1>1, <1>2, <1>3

LEMMA ReadLineStep == ASSUME TreeInv, ReadLine PROVE TreeInv'
<1>1. PICK l \in LinesOf[style] : lines' = Append(lines, l)
    BY DEF ReadLine
<1>2. l \in Lines /\ MaxLines[style] \in Nat
    BY <1>1, StructureAssumption DEF TreeInv, TreeTypes
<1>3. lines' \in Seq(Lines) /\ Len(lines') = Len(lines) + 1
    BY <1>1, <1>2, AppendFacts DEF TreeInv, TreeTypes
<1>4. Len(nodes) = 0 /\ Len(owner) = 0 /\ phase = "read" /\ Len(lines) \in Nat
    BY TreeTypesFacts DEF ReadLine, TreeInv, Progress
<1>5. TreeTypes'
    BY <1>2, <1>3, <1>4 DEF ReadLine, TreeInv, TreeTypes
<1>6. Progress'
    BY <1>3, <1>4 DEF ReadLine, TreeInv, Progress, Building
<1>7. StackIsAPath' /\ InDocumentOrder'
    BY DEF ReadLine, TreeInv, StackIsAPath, InDocumentOrder, LevelOf
<1>8. (OpenAscends /\ ClosedSoFar /\ AllClosed)'
    BY <1>4 DEF ReadLine, TreeInv, OpenAscends, ClosedSoFar, AllClosed, Growing, Closed, IsOpen, Unended, EndsAt
<1>9. (NamesAreUnique /\ MarkersAsRead /\ HeadingsHaveNoMarker)'
    BY <1>4 DEF ReadLine, TreeInv, NamesAreUnique, MarkersAsRead, HeadingsHaveNoMarker
<1> QED
    BY <1>5, <1>6, <1>7, <1>8, <1>9 DEF TreeInv

LEMMA discoverHeadingsStep == ASSUME TreeInv, discoverHeadings PROVE TreeInv'
<1>1. /\ phase = "read" /\ phase' = "build"
      /\ UNCHANGED <<style, lines, nodes, stack, owner, captioned, ids, ends, open>>
    BY DEF discoverHeadings
<1>2. TreeTypes' /\ Progress'
    BY <1>1 DEF TreeInv, TreeTypes, Progress, Building, Growing
<1>3. StackIsAPath' /\ InDocumentOrder'
    BY <1>1 DEF TreeInv, StackIsAPath, InDocumentOrder, LevelOf
<1>4. (OpenAscends /\ ClosedSoFar /\ AllClosed)'
    BY <1>1 DEF TreeInv, OpenAscends, ClosedSoFar, AllClosed, Growing, Closed, IsOpen, Unended, EndsAt
<1>5. (NamesAreUnique /\ MarkersAsRead /\ HeadingsHaveNoMarker)'
    BY <1>1 DEF TreeInv, Progress, NamesAreUnique, MarkersAsRead, HeadingsHaveNoMarker, HasMarker
<1> QED
    BY <1>2, <1>3, <1>4, <1>5 DEF TreeInv

\* The paragraph goes to the innermost open node, which is the last.
LEMMA TopFacts == TreeInv => Top = Len(nodes) /\ Top \in Nat
    BY TreeTypesFacts DEF TreeInv, StackIsAPath, Top, Last

LEMMA OwnedLineStep ==
    ASSUME TreeInv, AtLine, owner' = Append(owner, Top), captioned' \subseteq 1..Len(nodes),
           UNCHANGED <<style, lines, nodes, stack, ids, ends, open, phase>>
    PROVE  TreeInv'
<1>1. /\ owner' \in Seq(Nat) /\ Len(owner') = Len(owner) + 1
      /\ \A i \in 1..Len(owner) : owner'[i] = owner[i]
      /\ owner'[Len(owner) + 1] = Len(nodes)
    BY TopFacts, AppendFacts DEF TreeInv, TreeTypes
<1>2. phase = "build" /\ Len(owner) < Len(lines) /\ Len(owner) \in Nat /\ Len(nodes) \in Nat
    BY TreeTypesFacts DEF AtLine, Here, TreeInv
<1>3. TreeTypes' /\ Progress'
    BY <1>1, <1>2, TreeTypesFacts DEF TreeInv, TreeTypes, Progress, Building, Growing
<1>4. StackIsAPath'
    BY DEF TreeInv, StackIsAPath, LevelOf
<1>5. InDocumentOrder'
  <2>1. \A n \in 1..Len(nodes) : nodes[n].head <= Len(owner) /\ nodes[n].head \in Nat
      BY TreeTypesFacts DEF TreeInv, InDocumentOrder, Node
  <2>2. ASSUME NEW p \in 1..Len(owner')
        PROVE  /\ owner'[p] <= Len(nodes)
               /\ \A n \in 1..Len(nodes) : n <= owner'[p] <=> nodes[n].head <= p
      <3>1. CASE p \in 1..Len(owner)
          BY <1>1, <3>1 DEF TreeInv, InDocumentOrder
      <3>2. CASE p = Len(owner) + 1
          BY <1>1, <1>2, <2>1, <3>2
      <3> QED
          BY <1>1, <1>2, <3>1, <3>2
  <2>3. \A n \in 1..Len(nodes) : nodes[n].parent < n /\ nodes[n].head <= Len(owner')
      BY <1>1, <1>2, <2>1 DEF TreeInv, InDocumentOrder
  <2> QED
      BY <2>2, <2>3 DEF TreeInv, InDocumentOrder
<1>6. (OpenAscends /\ ClosedSoFar /\ AllClosed)'
    BY <1>2 DEF TreeInv, OpenAscends, ClosedSoFar, AllClosed, Growing, Closed, IsOpen, Unended, EndsAt
<1>7. (NamesAreUnique /\ MarkersAsRead /\ HeadingsHaveNoMarker)'
    BY <1>2 DEF TreeInv, NamesAreUnique, MarkersAsRead, HeadingsHaveNoMarker, HasMarker
<1> QED
    BY <1>3, <1>4, <1>5, <1>6, <1>7 DEF TreeInv

LEMMA BuildBlankStep == ASSUME TreeInv, BuildBlank PROVE TreeInv'
<1>1. captioned' \subseteq 1..Len(nodes)
    BY DEF BuildBlank, TreeInv, TreeTypes
<1> QED
    BY <1>1, OwnedLineStep DEF BuildBlank

LEMMA BuildBodyStep == ASSUME TreeInv, BuildBody PROVE TreeInv'
<1>1. captioned' = captioned \/ (Top # 0 /\ captioned' = captioned \cup {Top})
    BY DEF BuildBody
<1>2. captioned \subseteq 1..Len(nodes) /\ (Top # 0 => Top \in 1..Len(nodes))
    BY TopFacts, TreeTypesFacts DEF TreeInv, TreeTypes
<1>3. captioned' \subseteq 1..Len(nodes)
    BY <1>1, <1>2
<1> QED
    BY <1>3, OwnedLineStep DEF BuildBody

\* attach() keeps a part of the stack whose last node is less deep.
LEMMA KeptFacts ==
    ASSUME TreeInv, NEW level \in Nat \ {0}
    PROVE  \E k \in 1..Len(stack) : /\ KeptOpen(level) = SubSeq(stack, 1, k)
                                    /\ LevelOf(stack[k]) < level
<1> DEFINE S == {i \in DOMAIN stack : stack[i] = 0 \/ LevelOf(stack[i]) < level}
           k == Max(S)
<1>1. Len(stack) \in Nat \ {0} /\ DOMAIN stack = 1..Len(stack) /\ stack[1] = 0
    BY SeqFacts DEF TreeInv, TreeTypes, StackIsAPath
<1>2. S \in SUBSET Nat /\ 1 \in S /\ \A i \in S : i <= Len(stack)
    BY <1>1
<1>3. k \in S
  <2> HIDE DEF S
  <2> QED
      BY <1>1, <1>2, MaxFacts
<1>4. k \in 1..Len(stack) /\ LevelOf(stack[k]) < level
  <2>1. k \in DOMAIN stack /\ (stack[k] = 0 \/ LevelOf(stack[k]) < level)
      BY <1>3
  <2> HIDE DEF k
  <2> QED
      BY <1>1, <2>1 DEF LevelOf
<1>5. KeptOpen(level) = SubSeq(stack, 1, k)
    BY DEF KeptOpen
<1> QED
    BY <1>4, <1>5

\* What attach() is called with, in BuildHeading and in BuildMarker.
Attachable(kind, number, ordinal, marker) ==
    LET l == lines[Here]
    IN  /\ number = l.number
        /\ marker.kind # "unknown" => marker = MarkerAt(l) /\ ordinal = marker.ordinal
        /\ marker.kind = "unknown" => ordinal = ParseArticleNumber(l.number)
        /\ marker.kind # "unknown" <=> kind \notin HeadingKinds
        /\ marker.ambiguous => marker.kind # "unknown" /\ marker.altKind # "unknown"

LEMMA AttachStep ==
    ASSUME TreeInv, AtLine,
           NEW kind \in Kinds, NEW word \in Words, NEW number \in Numbers, NEW ordinal \in Nat,
           NEW marker \in Marker, NEW level \in Nat \ {0},
           Attachable(kind, number, ordinal, marker),
           attach(kind, word, number, ordinal, marker, level)
    PROVE  TreeInv' /\ (NamesAreCurrent => NamesAreCurrent')
<1>1. PICK k \in 1..Len(stack) : /\ KeptOpen(level) = SubSeq(stack, 1, k)
                                 /\ LevelOf(stack[k]) < level
    BY KeptFacts
<1>0. PICK N \in Nat, M \in Nat, parent \in Nat :
             N = Len(nodes) /\ M = Len(owner) /\ parent = stack[k]
    BY TreeTypesFacts DEF TreeInv
<1> DEFINE H == M + 1
<1> DEFINE kept   == SubSeq(stack, 1, k)
           node   == [kind |-> kind, word |-> word, number |-> number, ordinal |-> ordinal,
                      marker |-> marker, level |-> level, parent |-> parent, head |-> H]
           base   == NodeID(IDOf(ids, parent), kind, number)
<1>2. /\ N = Len(nodes) /\ parent = stack[k] /\ Len(stack) \in Nat /\ M = Len(owner) /\ Len(ends) \in Nat
      /\ H = M + 1 /\ Here = H /\ H <= Len(lines) /\ H \in Nat /\ phase = "build" /\ Len(lines) \in Nat
    BY <1>0, TreeTypesFacts DEF AtLine, Here, TreeInv
<1>3. kept \in Seq(Nat) /\ Len(kept) = k /\ Last(kept) = parent /\ \A i \in 1..k : kept[i] = stack[i]
  <2>1. k \in 0..Len(stack) /\ k > 0 /\ stack \in Seq(Nat)
      BY <1>2 DEF TreeInv, TreeTypes
  <2> QED
      BY <1>2, <2>1, PrefixFacts
<1>4. parent \in 0..N
  <2>1. CASE k = 1
      BY <1>2, <2>1 DEF TreeInv, StackIsAPath
  <2>2. CASE k \in 2..Len(stack)
      BY <1>2, <2>2 DEF TreeInv, StackIsAPath
  <2> QED
      BY <1>2, <2>1, <2>2
<1>5. /\ nodes' = Append(nodes, node) /\ stack' = Append(kept, N + 1)
      /\ owner' = Append(owner, N + 1) /\ ids' = Append(ids, uniqueID(ToSet(ids), base))
      /\ ends' = Append(ends, 0)
      /\ UNCHANGED <<style, lines, learned, captioned, open, phase>>
    BY <1>1, <1>2, <1>3 DEF attach, HeadIndex
<1>6. node \in Node /\ node.parent = parent /\ node.head = H /\ node.level = level
    BY <1>2, <1>4 DEF Node
<1> HIDE DEF node, kept, base, H
<1>7. /\ nodes' \in Seq(Node) /\ Len(nodes') = N + 1
      /\ nodes'[N + 1] = node /\ \A n \in 1..N : nodes'[n] = nodes[n]
    BY <1>2, <1>5, <1>6, AppendFacts DEF TreeInv, TreeTypes
<1>8. /\ stack' \in Seq(Nat) /\ Len(stack') = k + 1
      /\ stack'[k + 1] = N + 1 /\ \A i \in 1..k : stack'[i] = stack[i]
  <2>1. kept \in Seq(Nat) /\ N + 1 \in Nat /\ stack' = Append(kept, N + 1)
      BY <1>2, <1>3, <1>5
  <2> QED
      BY <1>3, <2>1, AppendFacts
<1>9. /\ owner' \in Seq(Nat) /\ Len(owner') = H
      /\ owner'[H] = N + 1 /\ \A p \in 1..M : owner'[p] = owner[p]
  <2>1. owner \in Seq(Nat) /\ N + 1 \in Nat /\ owner' = Append(owner, N + 1)
      BY <1>2, <1>5 DEF TreeInv, TreeTypes
  <2> QED
      BY <1>2, <2>1, AppendFacts
<1>10. ends' \in Seq(Nat) /\ Len(ends') = Len(ends) + 1
    BY <1>5, AppendFacts DEF TreeInv, TreeTypes
<1>11. ids' \in Seq(IDs) /\ Len(ids') = Len(ids) + 1 /\ NamesAreUnique'
  <2>1. ids \in Seq(IDs) /\ Len(ids) = N /\ UniqueNames(ids)
      BY <1>2 DEF TreeInv, TreeTypes, Progress, NamesAreUnique
  <2>2. IDOf(ids, parent) \in Seq(Segments)
    <3>1. CASE parent = 0
        BY <3>1 DEF IDOf
    <3>2. CASE parent # 0
      <4>1. IDOf(ids, parent) = ids[parent] /\ parent \in 1..N
          BY <1>2, <1>4, <3>2 DEF IDOf
      <4> QED
          BY <2>1, <4>1, ElementOfSeq DEF IDs
    <3> QED
        BY <3>1, <3>2
  <2>3. base \in IDs
      BY <2>2, NodeIDType DEF base
  <2> QED
      BY <1>5, <2>1, <2>3, NamesAppend DEF NamesAreUnique
<1>12. TreeTypes' /\ Progress'
  <2>1. /\ style \in Styles /\ lines \in Seq(Lines) /\ Len(lines) <= MaxLines[style]
        /\ open \in Seq(Nat) /\ captioned \subseteq 1..N /\ Len(ids) = N /\ Len(ends) = N
      BY <1>2 DEF TreeInv, TreeTypes, Progress
  <2>2. TreeTypes'
      BY <1>2, <1>5, <1>7, <1>8, <1>9, <1>10, <1>11, <2>1 DEF TreeTypes
  <2>3. Progress'
      BY <1>2, <1>5, <1>7, <1>9, <1>10, <1>11, <2>1 DEF TreeInv, Progress, Building, Growing
  <2> QED
      BY <2>2, <2>3
<1>13. \A n \in 1..(N + 1) : n \in 1..N \/ n = N + 1
    BY <1>2
<1>17. StackIsAPath'
  <2>1. /\ stack[1] = 0
        /\ \A i \in 2..Len(stack) : /\ stack[i] \in 1..N /\ nodes[stack[i]].parent = stack[i - 1]
                                    /\ LevelOf(stack[i - 1]) < nodes[stack[i]].level
      BY <1>2 DEF TreeInv, StackIsAPath
  <2>2. \A n \in 0..N : LevelOf(n) = IF n = 0 THEN 0 ELSE nodes'[n].level
      BY <1>7 DEF LevelOf
  <2>3. \A i \in 1..k : stack[i] \in 0..N
    <3> TAKE i \in 1..k
    <3>1. CASE i = 1
        BY <1>0, <2>1, <3>1
    <3>2. CASE i # 1
      <4>1. i \in 2..Len(stack)
          BY <1>2, <3>2
      <4>2. stack[i] \in 1..N
          BY <2>1, <4>1
      <4> QED
          BY <1>0, <4>2
    <3> QED
        BY <3>1, <3>2
  <2>4. ASSUME NEW i \in 2..(k + 1)
        PROVE  /\ stack'[i] \in 1..(N + 1)
               /\ nodes'[stack'[i]].parent = stack'[i - 1]
               /\ (IF stack'[i - 1] = 0 THEN 0 ELSE nodes'[stack'[i - 1]].level) < nodes'[stack'[i]].level
    <3>1. CASE i \in 2..k
      <4>1. i \in 1..k /\ i - 1 \in 1..k /\ i \in 2..Len(stack)
          BY <1>2, <3>1
      <4>2. stack'[i] = stack[i] /\ stack'[i - 1] = stack[i - 1]
          BY <1>8, <4>1
      <4>3. nodes'[stack[i]] = nodes[stack[i]] /\ stack[i] \in 1..N
          BY <1>7, <2>1, <4>1
      <4>4. /\ stack[i - 1] \in 0..N /\ nodes[stack[i]].parent = stack[i - 1]
            /\ LevelOf(stack[i - 1]) < nodes[stack[i]].level
          BY <2>1, <2>3, <4>1
      <4>5. LevelOf(stack[i - 1]) = IF stack[i - 1] = 0 THEN 0 ELSE nodes'[stack[i - 1]].level
          BY <2>2, <4>4
      <4> QED
          BY SMTT(30), <1>2, <4>2, <4>3, <4>4, <4>5
    <3>2. CASE i = k + 1
      <4>1. stack'[i] = N + 1 /\ stack'[i - 1] = parent /\ k \in 1..k
          BY <1>2, <1>8, <3>2
      <4>2. (IF parent = 0 THEN 0 ELSE nodes'[parent].level) < level
          BY <1>1, <1>2, <1>4, <2>2
      <4> QED
          BY SMTT(30), <1>2, <1>6, <1>7, <4>1, <4>2
    <3> QED
        BY SMTT(30), <1>2, <3>1, <3>2
  <2>5. Len(stack') > 0 /\ stack'[1] = 0 /\ stack'[Len(stack')] = Len(nodes')
      BY SMTT(30), <1>2, <1>7, <1>8, <2>1
  <2> QED
      BY <1>7, <1>8, <2>4, <2>5 DEF StackIsAPath, LevelOf
<1>14. InDocumentOrder'
  <2>1. /\ \A n \in 1..N : /\ nodes'[n] = nodes[n] /\ nodes[n].parent < n
                           /\ nodes[n].head <= M /\ nodes[n].head \in Nat
        /\ \A m, n \in 1..N : m < n => nodes[m].head < nodes[n].head
        /\ \A p \in 1..M : /\ owner[p] <= N /\ owner[p] \in Nat
                                    /\ \A n \in 1..N : n <= owner[p] <=> nodes[n].head <= p
      BY <1>2, <1>7, TreeTypesFacts DEF TreeInv, InDocumentOrder, Node
  <2>2. nodes'[N + 1].parent < N + 1 /\ nodes'[N + 1].head = H
      BY <1>2, <1>4, <1>6, <1>7
  <2>3. \A n \in 1..(N + 1) : nodes'[n].parent < n /\ nodes'[n].head <= H
    <3> TAKE n \in 1..(N + 1)
    <3> QED
        BY SMTT(30), <1>2, <1>13, <2>1, <2>2
  <2>4. ASSUME NEW m \in 1..(N + 1), NEW n \in 1..(N + 1), m < n
        PROVE  nodes'[m].head < nodes'[n].head
    <3>1. m \in 1..N
        BY <1>2, <2>4
    <3>2. CASE n \in 1..N
        BY <2>1, <2>4, <3>1, <3>2
    <3>3. CASE n = N + 1
        BY SMTT(30), <1>2, <2>1, <2>2, <3>1, <3>3
    <3> QED
        BY <1>13, <3>2, <3>3
  <2>5. ASSUME NEW p \in 1..H, NEW n \in 1..(N + 1)
        PROVE  /\ owner'[p] <= N + 1
               /\ n <= owner'[p] <=> nodes'[n].head <= p
    <3>1. CASE p = H
        BY <1>2, <1>9, <2>3, <3>1
    <3>2. CASE p \in 1..M
      <4>1. owner'[p] = owner[p] /\ owner[p] <= N /\ owner[p] \in Nat
          BY <1>9, <2>1, <3>2
      <4>2. CASE n \in 1..N
        <5>1. nodes'[n] = nodes[n] /\ (n <= owner[p] <=> nodes[n].head <= p)
            BY <2>1, <3>2, <4>2
        <5> QED
            BY <4>1, <5>1
      <4>3. CASE n = N + 1
        <5>1. ~(n <= owner[p]) /\ ~(H <= p)
            BY SMTT(30), <1>2, <3>2, <4>1, <4>3
        <5> QED
            BY <2>2, <4>1, <4>3, <5>1
      <4> QED
          BY <1>13, <4>1, <4>2, <4>3
    <3> QED
        BY <1>2, <3>1, <3>2
  <2> QED
      BY <1>7, <1>9, <2>3, <2>4, <2>5 DEF InDocumentOrder
<1>15. (OpenAscends /\ ClosedSoFar /\ AllClosed)'
  <2>1. Len(open) = 0 /\ open = <<>> /\ open' = open /\ phase' = phase
      BY <1>2, <1>5, EmptySeq DEF TreeInv, TreeTypes, Progress, Growing
  <2> QED
      BY <1>2, <2>1 DEF OpenAscends, ClosedSoFar, AllClosed, Growing, Closed
<1>16. MarkersAsRead' /\ HeadingsHaveNoMarker'
  <2>1. \A n \in 1..N : /\ nodes'[n] = nodes[n] /\ HasMarker(n)' = HasMarker(n)
                        /\ nodes[n].head \in Nat
      BY <1>2, <1>7, TreeTypesFacts DEF HasMarker, Node, TreeInv
  <2>2. /\ nodes'[N + 1].marker = marker /\ nodes'[N + 1].number = number
        /\ nodes'[N + 1].ordinal = ordinal /\ nodes'[N + 1].kind = kind /\ nodes'[N + 1].head = H
      BY <1>2, <1>7 DEF node
  <2>3. HasMarker(N + 1)' = (marker.kind # "unknown")
      BY <1>2, <2>2 DEF HasMarker
  <2>4. MarkersAsRead'
    <3> SUFFICES ASSUME NEW n \in 1..(N + 1)
                 PROVE  /\ HasMarker(n)' => nodes'[n].marker = MarkerAt(lines[nodes'[n].head])
                        /\ nodes'[n].number = lines[nodes'[n].head].number
                        /\ HasMarker(n)' => nodes'[n].marker.ordinal = nodes'[n].ordinal
                        /\ ~HasMarker(n)' => nodes'[n].ordinal
                                                = ParseArticleNumber(lines[nodes'[n].head].number)
        BY <1>5, <1>7 DEF MarkersAsRead
    <3>1. CASE n \in 1..N
      <4>1. MarkersAsRead /\ phase \in Building /\ n \in 1..Len(nodes)
          BY <1>2, <3>1 DEF TreeInv, Building
      <4> QED
          BY <2>1, <3>1, <4>1 DEF MarkersAsRead
    <3>2. CASE n = N + 1
        BY <1>2, <2>2, <2>3, <3>2 DEF Attachable
    <3> QED
        BY <1>13, <3>1, <3>2
  <2>5. HeadingsHaveNoMarker'
    <3> SUFFICES ASSUME NEW n \in 1..(N + 1)
                 PROVE  /\ HasMarker(n)' <=> nodes'[n].kind \notin HeadingKinds
                        /\ nodes'[n].marker.ambiguous =>
                              HasMarker(n)' /\ nodes'[n].marker.altKind # "unknown"
        BY <1>7 DEF HeadingsHaveNoMarker
    <3>1. CASE n \in 1..N
        BY <1>2, <2>1, <3>1 DEF TreeInv, HeadingsHaveNoMarker
    <3>2. CASE n = N + 1
        BY <1>2, <2>2, <2>3, <3>2 DEF Attachable
    <3> QED
        BY <1>13, <3>1, <3>2
  <2> QED
      BY <2>4, <2>5
<1>18. ASSUME NamesAreCurrent PROVE NamesAreCurrent'
  <2>1. ids \in Seq(IDs) /\ Len(ids) = N /\ UniqueNames(ids)
      BY <1>2 DEF TreeInv, TreeTypes, Progress, NamesAreUnique
  <2>2. /\ DOMAIN ids' = 1..(N + 1) /\ DOMAIN ids = 1..N
        /\ \A i \in 1..N : ids'[i] = ids[i]
        /\ \A i \in 0..N : IDOf(ids', i) = IDOf(ids, i)
        /\ Unnumbered(ids'[N + 1]) = NodeID(IDOf(ids', parent), kind, number)
      BY <1>4, <1>5, <2>1, NamesGrow DEF base
  <2>3. nodes'[N + 1].parent = parent /\ nodes'[N + 1].kind = kind /\ nodes'[N + 1].number = number
      BY <1>7 DEF node
  <2>4. ASSUME NEW n \in 1..N PROVE NamedAfter(n, nodes[n].number)'
    <3>1. nodes'[n] = nodes[n] /\ nodes[n].parent \in 0..N
      <4>1. n \in 1..Len(nodes) /\ nodes[n].parent \in 0..(n - 1)
          BY <1>2, ParentsAreEarlier
      <4> QED
          BY <1>7, <4>1
    <3>2. NamedAfter(n, nodes[n].number)
        BY <1>18, <2>2 DEF NamesAreCurrent
    <3> QED
        BY <2>2, <3>1, <3>2 DEF NamedAfter
  <2>5. NamedAfter(N + 1, nodes[N + 1].number)'
      BY <2>2, <2>3 DEF NamedAfter
  <2> QED
      BY <1>13, <2>2, <2>4, <2>5 DEF NamesAreCurrent
<1> QED
    BY <1>11, <1>12, <1>17, <1>14, <1>15, <1>16, <1>18 DEF TreeInv

LEMMA LineHere ==
    ASSUME TreeInv, AtLine
    PROVE  lines[Here] \in Lines
<1>1. Here \in 1..Len(lines)
    BY TreeTypesFacts DEF TreeInv, AtLine, Here
<1> QED
    BY <1>1, TreeTypesFacts DEF TreeInv

LEMMA BuildHeadingStep ==
    ASSUME TreeInv, BuildHeading PROVE TreeInv' /\ (NamesAreCurrent => NamesAreCurrent')
<1> DEFINE l == lines[Here]
<1>1. AtLine /\ IsHeading(l) /\ l \in Lines
    BY LineHere DEF BuildHeading
<1>2. l.kind \in HeadingKinds /\ l.number \in Numbers /\ l.word \in Words
    BY <1>1, LineFacts DEF Words
<1>3. Depth(l.kind) \in Nat \ {0} /\ l.kind \in Kinds
    BY <1>2 DEF Depth, HeadingKinds, Kinds
<1>4. ParseArticleNumber(l.number) \in Nat
    BY <1>2, NumberFacts
<1>5. Attachable(l.kind, l.number, ParseArticleNumber(l.number), NoMarker)
    BY <1>2, NoMarkerType DEF Attachable
<1>6. attach(l.kind, l.word, l.number, ParseArticleNumber(l.number), NoMarker, Depth(l.kind))
    BY DEF BuildHeading
<1> HIDE DEF l
<1> QED
    BY <1>1, <1>2, <1>3, <1>4, <1>5, <1>6, NoMarkerType, AttachStep

LEMMA markerLevelType ==
    ASSUME TreeInv, NEW m
    PROVE  markerLevel(m) \in Nat \ {0}
<1>1. /\ Len(stack) \in Nat /\ Top \in 0..Len(nodes) /\ Len(nodes) \in Nat
      /\ \A n \in 1..Len(nodes) : nodes[n].level \in Nat \ {0}
    BY TopFacts, TreeTypesFacts DEF TreeInv, Node
<1>2. LevelOf(Top) \in Nat
    BY <1>1 DEF LevelOf
<1>3. CASE OpenFamily(m) = {}
    BY <1>2, <1>3 DEF markerLevel
<1>4. CASE OpenFamily(m) # {}
  <2>1. OpenFamily(m) \in SUBSET Nat /\ \A i \in OpenFamily(m) : i <= Len(stack) /\ i \in 2..Len(stack)
      BY <1>1 DEF OpenFamily
  <2>2. Max(OpenFamily(m)) \in 2..Len(stack)
      BY <1>1, <1>4, <2>1, MaxFacts
  <2>3. stack[Max(OpenFamily(m))] \in 1..Len(nodes)
      BY <2>2 DEF TreeInv, StackIsAPath
  <2>4. LevelOf(stack[Max(OpenFamily(m))]) \in Nat \ {0}
      BY <1>1, <2>3 DEF LevelOf
  <2> QED
      BY <1>4, <2>4 DEF markerLevel
<1> QED
    BY <1>3, <1>4

LEMMA markerNodeKindFacts ==
    ASSUME NEW m
    PROVE  markerNodeKind(m) \in Kinds \ HeadingKinds
    BY DEF markerNodeKind, Kinds, HeadingKinds

LEMMA BuildMarkerStep ==
    ASSUME TreeInv, BuildMarker PROVE TreeInv' /\ (NamesAreCurrent => NamesAreCurrent')
<1> DEFINE l == lines[Here]
           m == MarkerAt(l)
<1>1. AtLine /\ OpensList(l) /\ l \in Lines /\ m.kind # "unknown"
    BY LineHere DEF BuildMarker, OpensList
<1>2. /\ l.number \in Numbers /\ m \in Marker /\ m.token = l.number
      /\ m.ambiguous => m.kind # "unknown" /\ m.altKind # "unknown"
    BY <1>1, LineFacts
<1>3. markerNodeKind(m) \in Kinds \ HeadingKinds /\ markerLevel(m) \in Nat \ {0} /\ m.ordinal \in Nat
    BY <1>2, markerNodeKindFacts, markerLevelType DEF Marker
<1>4. attach(markerNodeKind(m), "", m.token, m.ordinal, m, markerLevel(m))
    BY DEF BuildMarker
<1>5. Attachable(markerNodeKind(m), m.token, m.ordinal, m)
    BY <1>1, <1>2, <1>3 DEF Attachable
<1>6. m.token \in Numbers
    BY <1>2
<1>7. "" \in Words
    BY DEF Words
<1> HIDE DEF l, m
<1> QED
    BY <1>1, <1>2, <1>3, <1>4, <1>5, <1>6, <1>7, AttachStep

\* A step that relabels the nodes of the tree and leaves its shape alone.
SameShape ==
    /\ nodes' \in Seq(Node) /\ Len(nodes') = Len(nodes)
    /\ \A n \in 1..Len(nodes) : /\ nodes'[n].parent = nodes[n].parent
                                /\ nodes'[n].level = nodes[n].level
                                /\ nodes'[n].head = nodes[n].head

LEMMA SameShapeStep ==
    ASSUME TreeInv, SameShape, UNCHANGED <<style, lines, stack, owner, captioned, ends, open>>
    PROVE  /\ StackIsAPath' /\ InDocumentOrder' /\ OpenAscends'
           /\ phase \notin Growing => AllClosed'
           /\ Len(open) = 0 => ClosedSoFar'
<1>1. PICK N \in Nat : N = Len(nodes)
    BY TreeTypesFacts DEF TreeInv
<1>2. \A n \in 1..N : /\ nodes'[n].parent = nodes[n].parent /\ nodes'[n].level = nodes[n].level
                      /\ nodes'[n].head = nodes[n].head
    BY <1>1 DEF SameShape
<1>3. StackIsAPath'
  <2>1. /\ Len(stack) > 0 /\ stack[1] = 0 /\ stack[Len(stack)] = N
        /\ \A i \in 2..Len(stack) : /\ stack[i] \in 1..N
                                    /\ nodes[stack[i]].parent = stack[i - 1]
                                    /\ LevelOf(stack[i - 1]) < nodes[stack[i]].level
      BY <1>1 DEF TreeInv, StackIsAPath
  <2>2. \A i \in 2..Len(stack) : stack[i - 1] \in 0..N
    <3> TAKE i \in 2..Len(stack)
    <3>1. i - 1 = 1 \/ i - 1 \in 2..Len(stack)
        BY TreeTypesFacts DEF TreeInv
    <3> QED
        BY <1>1, <2>1, <3>1
  <2>3. \A n \in 0..N : LevelOf(n) = IF n = 0 THEN 0 ELSE nodes'[n].level
      BY <1>2 DEF LevelOf
  <2>4. stack' = stack /\ Len(nodes') = N
      BY <1>1 DEF SameShape
  <2>5. ASSUME NEW i \in 2..Len(stack)
        PROVE  /\ nodes'[stack[i]].parent = stack[i - 1]
               /\ (IF stack[i - 1] = 0 THEN 0 ELSE nodes'[stack[i - 1]].level) < nodes'[stack[i]].level
      BY <1>2, <2>1, <2>2, <2>3
  <2> QED
      BY <2>1, <2>4, <2>5 DEF StackIsAPath, LevelOf
<1>4. InDocumentOrder'
  <2>1. Len(nodes') = N /\ owner' = owner
      BY <1>1 DEF SameShape
  <2> QED
      BY <1>1, <1>2, <2>1 DEF TreeInv, InDocumentOrder
<1>5. OpenAscends'
    BY <1>1, <1>2 DEF TreeInv, OpenAscends, SameShape
<1>6. ASSUME phase \notin Growing PROVE AllClosed'
  <2>1. \A m \in 1..N :
            \/ Unended(m, N) /\ ends[m] = Len(lines)
            \/ \E k \in 1..N : EndsAt(m, k) /\ ends[m] = nodes[k].head - 1
      BY <1>1, <1>6 DEF TreeInv, AllClosed
  <2>2. Len(nodes') = N /\ ends' = ends /\ lines' = lines
      BY <1>1 DEF SameShape
  <2>3. ASSUME NEW m \in 1..N PROVE Unended(m, N) => Unended(m, N)'
      BY <1>2 DEF Unended
  <2>4. ASSUME NEW m \in 1..N, NEW k \in 1..N PROVE EndsAt(m, k) => EndsAt(m, k)'
      BY <1>2 DEF EndsAt
  <2> QED
      BY <1>2, <2>1, <2>2, <2>3, <2>4 DEF AllClosed
<1>7. ASSUME Len(open) = 0 PROVE ClosedSoFar'
  <2>1. open' = <<>>
      BY <1>7, EmptySeq DEF TreeInv, TreeTypes
  <2> QED
      BY <2>1 DEF ClosedSoFar, Closed
<1> QED
    BY <1>3, <1>4, <1>5, <1>6, <1>7

\* Settling a marker takes one of its readings.
LEMMA SettleFacts ==
    ASSUME NEW o \in Marker, NEW decided, o.kind # "unknown", o.ambiguous => o.altKind # "unknown"
    PROVE  /\ Settle(o, decided) \in Marker /\ Settle(o, decided).kind # "unknown"
           /\ Settle(o, decided).token = o.token /\ Settle(o, decided).form = o.form
           /\ Settle(o, decided).ordinal \in {o.ordinal, o.altOrdinal}
           /\ ~Settle(o, decided).ambiguous
<1>1. CASE ~o.ambiguous
  <2>1. Settle(o, decided) = o
      BY <1>1 DEF Settle
  <2> QED
      BY <1>1, <2>1
<1>2. CASE o.ambiguous /\ IsAlpha(decided) # IsAlpha(o.kind)
  <2>1. Settle(o, decided) = [o EXCEPT !.kind = o.altKind, !.ordinal = o.altOrdinal,
                                       !.altKind = o.kind, !.altOrdinal = o.ordinal,
                                       !.ambiguous = FALSE]
      BY <1>2 DEF Settle
  <2> QED
      BY <1>2, <2>1 DEF Marker
<1>3. CASE o.ambiguous /\ ~(IsAlpha(decided) # IsAlpha(o.kind))
  <2>1. Settle(o, decided) = [o EXCEPT !.ambiguous = FALSE]
      BY <1>3 DEF Settle
  <2> QED
      BY <2>1 DEF Marker
<1> QED
    BY <1>1, <1>2, <1>3

\* Settling a list changes what its nodes say and not where they are.
Relabelled(r, n) ==
    /\ r \in Node
    /\ r.parent = nodes[n].parent /\ r.level = nodes[n].level
    /\ r.head = nodes[n].head /\ r.word = nodes[n].word
    /\ HasMarker(n) <=> r.marker.kind # "unknown"
    /\ r.marker.kind # "unknown" <=> r.kind \notin HeadingKinds
    /\ r.marker.ambiguous => r.marker.kind # "unknown" /\ r.marker.altKind # "unknown"

LEMMA ResolvedFacts ==
    ASSUME TreeInv, NEW n \in 1..Len(nodes)
    PROVE  /\ Relabelled(Resolved(n), n)
           /\ ~HasMarker(n) => Resolved(n) = nodes[n]
           /\ HasMarker(n) =>
                 /\ Resolved(n).number = nodes[n].marker.token
                 /\ Resolved(n).marker.token = nodes[n].marker.token
                 /\ Resolved(n).ordinal = Resolved(n).marker.ordinal
                 /\ Resolved(n).ordinal \in {nodes[n].marker.ordinal, nodes[n].marker.altOrdinal}
<1>1. PICK node \in Node : node = nodes[n]
    BY TreeTypesFacts DEF TreeInv
<1>2. PICK decided : decided = DecidedKind([c \in Siblings(n) |-> nodes[c].marker])
    OBVIOUS
<1>3. PICK m : m = Settle(node.marker, decided)
    OBVIOUS
<1>4. PICK kind : kind = markerNodeKind(m)
    OBVIOUS
<1>5. /\ HasMarker(n) <=> node.marker.kind # "unknown"
      /\ HasMarker(n) <=> node.kind \notin HeadingKinds
      /\ node.marker.ambiguous => HasMarker(n) /\ node.marker.altKind # "unknown"
  <2>1. n # 0
      BY TreeTypesFacts DEF TreeInv
  <2> QED
      BY <1>1, <2>1 DEF TreeInv, HeadingsHaveNoMarker, HasMarker
<1>6. node.marker \in Marker
    BY DEF Node
<1>7. CASE ~HasMarker(n)
  <2>1. Resolved(n) = node
      BY <1>1, <1>7 DEF Resolved
  <2>2. Relabelled(node, n)
      BY <1>1, <1>5 DEF Relabelled
  <2> QED
      BY <1>1, <1>7, <2>1, <2>2
<1>8. CASE HasMarker(n)
  <2>1. Resolved(n) = [node EXCEPT !.marker = m, !.kind = kind, !.ordinal = m.ordinal, !.number = m.token]
      BY <1>1, <1>2, <1>3, <1>4, <1>8 DEF Resolved
  <2>2. /\ m \in Marker /\ m.kind # "unknown" /\ m.token = node.marker.token
        /\ m.ordinal \in {node.marker.ordinal, node.marker.altOrdinal} /\ ~m.ambiguous
    <3>1. node.marker.kind # "unknown" /\ (node.marker.ambiguous => node.marker.altKind # "unknown")
        BY <1>5, <1>8
    <3> QED
        BY <1>3, <1>6, <3>1, SettleFacts
  <2>3. kind \in Kinds \ HeadingKinds /\ m.ordinal \in Nat /\ m.token \in Numbers
      BY <1>4, <2>2, markerNodeKindFacts DEF Marker
  <2>4. PICK r : r = Resolved(n)
      OBVIOUS
  <2>5. /\ r \in Node
        /\ r.parent = node.parent /\ r.level = node.level
        /\ r.head = node.head /\ r.word = node.word
        /\ r.marker = m /\ r.kind = kind
        /\ r.ordinal = m.ordinal /\ r.number = m.token
      BY <2>1, <2>2, <2>3, <2>4 DEF Node
  <2>6. Relabelled(r, n)
      BY <1>1, <1>8, <2>2, <2>3, <2>5 DEF Relabelled
  <2> QED
      BY <1>1, <1>8, <2>2, <2>4, <2>5, <2>6
<1> QED
    BY <1>7, <1>8

LEMMA resolveSiblingMarkersStep == ASSUME TreeInv, resolveSiblingMarkers PROVE TreeInv'
<1>1. PICK N \in Nat : N = Len(nodes) /\ DOMAIN nodes = 1..N
    BY TreeTypesFacts DEF TreeInv
<1>2. /\ nodes' = [n \in 1..N |-> Resolved(n)] /\ ids' = <<>>
      /\ phase = "build" /\ phase' = "name"
      /\ UNCHANGED <<style, lines, stack, owner, captioned, ends, open>>
    BY <1>1 DEF resolveSiblingMarkers
<1>3. Len(owner) = Len(lines)
    BY TreeTypesFacts DEF resolveSiblingMarkers, Here, TreeInv, Progress
<1>4. \A n \in 1..N : Relabelled(Resolved(n), n)
    BY <1>1, ResolvedFacts
<1>5. /\ nodes' \in Seq(Node) /\ Len(nodes') = N
      /\ \A n \in 1..N : nodes'[n] = Resolved(n)
  <2>1. \A n \in 1..N : Resolved(n) \in Node
      BY <1>4 DEF Relabelled
  <2>2. nodes' \in [1..N -> Node]
      BY <1>2, <2>1
  <2>3. nodes' \in Seq(Node) /\ DOMAIN nodes' = 1..N
      BY <2>2, SeqDef
  <2>4. Len(nodes') = N
      BY <2>3, LenProperties
  <2> QED
      BY <1>2, <2>3, <2>4
<1>6. SameShape
    BY <1>1, <1>4, <1>5 DEF SameShape, Relabelled
<1>7. Len(open) = 0
    BY <1>2 DEF TreeInv, Progress, Growing
<1>8. StackIsAPath' /\ InDocumentOrder' /\ OpenAscends' /\ ClosedSoFar'
    BY <1>2, <1>6, <1>7, SameShapeStep
<1>9. AllClosed' /\ MarkersAsRead'
    BY <1>2 DEF AllClosed, MarkersAsRead, Growing, Building
<1>10. TreeTypes' /\ Progress' /\ NamesAreUnique'
  <2>1. <<>> \in Seq(IDs) /\ Len(<<>>) = 0
      OBVIOUS
  <2>2. TreeTypes'
      BY <1>1, <1>2, <1>5, <2>1 DEF TreeInv, TreeTypes
  <2>3. Progress'
      BY <1>1, <1>2, <1>3, <1>5, <1>7, <2>1 DEF TreeInv, Progress, Building, Growing
  <2>4. NamesAreUnique'
      BY <1>2, <2>1 DEF NamesAreUnique, UniqueNames
  <2> QED
      BY <2>2, <2>3, <2>4
<1>11. HeadingsHaveNoMarker'
  <2>1. \A n \in 1..N : HasMarker(n)' <=> Resolved(n).marker.kind # "unknown"
      BY <1>5 DEF HasMarker
  <2> QED
      BY <1>4, <1>5, <2>1 DEF HeadingsHaveNoMarker, Relabelled
<1> QED
    BY <1>8, <1>9, <1>10, <1>11 DEF TreeInv

LEMMA ReassignIDStep == ASSUME TreeInv, ReassignID PROVE TreeInv'
<1>1. PICK n \in Nat : n = Len(ids) + 1 /\ n \in 1..Len(nodes)
    BY TreeTypesFacts DEF ReassignID, TreeInv
<1> DEFINE parent == nodes[n].parent
           base   == NodeID(IDOf(ids, parent), nodes[n].kind, nodes[n].number)
<1>2. /\ ids' = Append(ids, uniqueID(ToSet(ids), base)) /\ phase = "name"
      /\ UNCHANGED <<style, lines, nodes, stack, owner, captioned, ends, open, phase>>
    BY <1>1 DEF ReassignID
<1>3. /\ nodes[n] \in Node /\ parent < n /\ parent \in Nat
      /\ nodes[n].kind \in Kinds /\ nodes[n].number \in Numbers
    BY <1>1, TreeTypesFacts DEF TreeInv, InDocumentOrder, Node
<1>4. IDOf(ids, parent) \in Seq(Segments)
  <2>1. CASE parent = 0
      BY <2>1 DEF IDOf
  <2>2. CASE parent # 0
    <3>1. parent \in 1..Len(ids)
        BY <1>1, <1>3, <2>2
    <3>2. ids[parent] \in IDs
        BY <3>1, ElementOfSeq DEF TreeInv, TreeTypes
    <3> QED
        BY <2>2, <3>2 DEF IDOf, IDs
  <2> QED
      BY <2>1, <2>2
<1>5. base \in IDs
    BY <1>3, <1>4, NodeIDType
<1> HIDE DEF base
<1>6. ids' \in Seq(IDs) /\ Len(ids') = Len(ids) + 1 /\ NamesAreUnique'
    BY <1>2, <1>5, NamesAppend DEF TreeInv, TreeTypes, NamesAreUnique
<1>7. TreeTypes' /\ Progress'
    BY <1>1, <1>2, <1>6, TreeTypesFacts DEF TreeInv, TreeTypes, Progress, Building, Growing
<1>8. StackIsAPath' /\ InDocumentOrder'
    BY <1>2 DEF TreeInv, StackIsAPath, InDocumentOrder, LevelOf
<1>9. (OpenAscends /\ ClosedSoFar /\ AllClosed)'
    BY <1>2 DEF TreeInv, OpenAscends, ClosedSoFar, AllClosed, Growing, Closed, IsOpen, Unended, EndsAt
<1>10. (MarkersAsRead /\ HeadingsHaveNoMarker)'
    BY <1>2 DEF TreeInv, MarkersAsRead, HeadingsHaveNoMarker, HasMarker, Building
<1> QED
    BY <1>6, <1>7, <1>8, <1>9, <1>10 DEF TreeInv

LEMMA IDsReassignedStep == ASSUME TreeInv, IDsReassigned PROVE TreeInv'
<1>1. /\ phase = "name" /\ phase' = "close" /\ Len(ids) = Len(nodes)
      /\ UNCHANGED <<style, lines, nodes, stack, owner, captioned, ids, ends, open>>
    BY DEF IDsReassigned
<1>2. TreeTypes' /\ Progress'
    BY <1>1 DEF TreeInv, TreeTypes, Progress, Building, Growing
<1>3. StackIsAPath' /\ InDocumentOrder'
    BY <1>1 DEF TreeInv, StackIsAPath, InDocumentOrder, LevelOf
<1>4. (OpenAscends /\ ClosedSoFar /\ AllClosed)'
    BY <1>1 DEF TreeInv, OpenAscends, ClosedSoFar, AllClosed, Growing, Closed, IsOpen, Unended, EndsAt
<1>5. (NamesAreUnique /\ MarkersAsRead /\ HeadingsHaveNoMarker)'
    BY <1>1 DEF TreeInv, NamesAreUnique, MarkersAsRead, HeadingsHaveNoMarker, HasMarker, Building
<1> QED
    BY <1>2, <1>3, <1>4, <1>5 DEF TreeInv

LEMMA ClosedFacts ==
    ASSUME TreeInv
    PROVE  /\ Closed \in 0..Len(nodes)
           /\ \A i \in 1..Len(open) : open[i] \in 1..Closed
           /\ \A m \in Nat : m \in ToSet(open) <=> IsOpen(m)
<1>1. /\ Len(open) \in Nat /\ Len(nodes) \in Nat /\ ToSet(open) = {open[i] : i \in 1..Len(open)}
      /\ open # <<>> <=> Len(open) > 0
    BY SeqFacts, EmptySeq DEF TreeInv, TreeTypes
<1>2. CASE open = <<>>
    BY <1>1, <1>2 DEF Closed, IsOpen
<1>3. CASE open # <<>>
  <2>1. Closed = open[Len(open)] /\ Len(open) \in 1..Len(open)
      BY <1>1, <1>3 DEF Closed, Last
  <2>2. \A i \in 1..Len(open) : open[i] \in 1..Len(nodes) /\ (i < Len(open) => open[i] < open[Len(open)])
      BY <2>1 DEF TreeInv, OpenAscends
  <2>3. \A i \in 1..Len(open) : open[i] <= open[Len(open)]
      BY <1>1, <2>1, <2>2
  <2>4. \A i \in 1..Len(open) : open[i] \in 1..Closed
      BY <1>1, <2>1, <2>2, <2>3
  <2>5. \A m \in Nat : m \in ToSet(open) <=> IsOpen(m)
      BY <1>1 DEF IsOpen
  <2> QED
      BY <1>1, <2>1, <2>2, <2>4, <2>5
<1> QED
    BY <1>2, <1>3

\* A node ends exactly those open nodes that are not shallower.
LEMMA StillOpenFacts ==
    ASSUME TreeInv, NEW n \in 1..Len(nodes)
    PROVE  \E k \in 0..Len(open) :
              /\ StillOpen(n) = SubSeq(open, 1, k)
              /\ \A i \in 1..Len(open) : i <= k <=> nodes[open[i]].level < nodes[n].level
<1> DEFINE S == {0} \cup {i \in DOMAIN open : LevelOf(open[i]) < LevelOf(n)}
           k == Max(S)
<1>1. Len(open) \in Nat /\ DOMAIN open = 1..Len(open)
    BY SeqFacts DEF TreeInv, TreeTypes
<1>2. /\ LevelOf(n) = nodes[n].level
      /\ \A i \in 1..Len(open) : LevelOf(open[i]) = nodes[open[i]].level /\ open[i] \in 1..Len(nodes)
    BY TreeTypesFacts DEF TreeInv, OpenAscends, LevelOf
<1>3. S \in SUBSET Nat /\ 0 \in S /\ \A i \in S : i <= Len(open)
    BY <1>1
<1>4. k \in S /\ \A i \in S : i <= k
  <2> HIDE DEF S
  <2> QED
      BY <1>1, <1>3, MaxFacts
<1>5. k \in 0..Len(open)
    BY <1>1, <1>3, <1>4
<1>6. k > 0 => nodes[open[k]].level < nodes[n].level
  <2>1. k > 0 => k \in DOMAIN open /\ LevelOf(open[k]) < LevelOf(n)
      BY <1>4
  <2> HIDE DEF k
  <2> QED
      BY <1>1, <1>2, <2>1
<1>7. \A i \in 1..Len(open) : nodes[open[i]].level < nodes[n].level => i <= k
  <2> HIDE DEF k
  <2> QED
      BY <1>1, <1>2, <1>4
<1>8. ASSUME NEW i \in 1..Len(open), i <= k PROVE nodes[open[i]].level < nodes[n].level
  <2> HIDE DEF k
  <2>1. i = k \/ i < k
      BY <1>1, <1>5, <1>8
  <2>2. CASE i = k
      BY <1>1, <1>6, <2>2
  <2>3. CASE i < k
    <3>1. k \in 1..Len(open) /\ nodes[open[i]].level < nodes[open[k]].level
        BY <1>1, <1>5, <2>3 DEF TreeInv, OpenAscends
    <3>2. nodes[open[k]].level < nodes[n].level
        BY <1>1, <1>6, <3>1
    <3>3. nodes[open[i]].level \in Nat /\ nodes[open[k]].level \in Nat /\ nodes[n].level \in Nat
        BY <1>2, <3>1, TreeTypesFacts DEF TreeInv, Node
    <3> QED
        BY <3>1, <3>2, <3>3
  <2> QED
      BY <2>1, <2>2, <2>3
<1>9. StillOpen(n) = SubSeq(open, 1, k)
    BY DEF StillOpen
<1> HIDE DEF k
<1> QED
    BY <1>5, <1>7, <1>8, <1>9

LEMMA CloseBeforeStep == ASSUME TreeInv, CloseBefore PROVE TreeInv'
<1>0. PICK C \in Nat, N \in Nat : C = Closed /\ N = Len(nodes) /\ C < N
  <2>1. Closed \in Nat /\ Len(nodes) \in Nat /\ Closed < Len(nodes)
      BY ClosedFacts, TreeTypesFacts DEF CloseBefore, TreeInv
  <2> QED
      BY <2>1
<1>1. PICK n \in Nat : C = Closed /\ N = Len(nodes) /\ n = C + 1 /\ n \in 1..N
    BY <1>0
<1>2. PICK k \in 0..Len(open) :
         /\ StillOpen(n) = SubSeq(open, 1, k)
         /\ \A i \in 1..Len(open) : i <= k <=> nodes[open[i]].level < nodes[n].level
    BY <1>1, StillOpenFacts
<1> DEFINE kept == SubSeq(open, 1, k)
<1>3. /\ kept \in Seq(Nat) /\ Len(kept) = k /\ Len(open) \in Nat
      /\ \A i \in 1..k : kept[i] = open[i]
      /\ ToSet(kept) = {open[i] : i \in 1..k}
  <2>1. kept \in Seq(Nat) /\ Len(kept) = k /\ \A i \in 1..k : kept[i] = open[i]
      BY PrefixFacts DEF TreeInv, TreeTypes
  <2>2. ToSet(kept) = {kept[i] : i \in 1..Len(kept)}
      BY <2>1, SeqFacts
  <2> QED
      BY <2>1, <2>2, TreeTypesFacts DEF TreeInv
<1>4. /\ ends' = [o \in DOMAIN ends |->
                     IF o \in ToSet(open) \ ToSet(kept) THEN nodes[n].head - 1 ELSE ends[o]]
      /\ open' = Append(kept, n) /\ phase = "close"
      /\ UNCHANGED <<style, lines, learned, nodes, stack, owner, captioned, ids, phase>>
    BY <1>1, <1>2 DEF CloseBefore
<1> HIDE DEF kept
<1>5. /\ open' \in Seq(Nat) /\ Len(open') = k + 1 /\ open'[k + 1] = n
      /\ \A i \in 1..k : open'[i] = open[i]
    BY <1>3, <1>4, AppendFacts
<1>6. \A i \in 1..Len(open) : open[i] \in 1..C
    BY <1>1, ClosedFacts
<1>7. Closed' = n
  <2>1. Last(open') = n /\ open' # <<>>
      BY <1>1, <1>3, <1>5, EmptySeq DEF Last
  <2> QED
      BY <2>1 DEF Closed
<1>8. nodes[n].head - 1 \in Nat
    BY <1>1, TreeTypesFacts DEF TreeInv, Node
<1>9. /\ ends' \in Seq(Nat) /\ Len(ends') = N
      /\ \A o \in 1..N : ends'[o] = IF o \in ToSet(open) \ ToSet(kept) THEN nodes[n].head - 1 ELSE ends[o]
  <2>1. DOMAIN ends = 1..N /\ \A o \in 1..N : ends[o] \in Nat
      BY <1>1, SeqFacts DEF TreeInv, TreeTypes, Progress
  <2>2. ends' \in [1..N -> Nat]
      BY <1>4, <1>8, <2>1
  <2>3. ends' \in Seq(Nat)
      BY <1>1, <2>2, SeqDef
  <2>4. Len(ends') = N
      BY <1>1, <2>2, <2>3, LenProperties
  <2> QED
      BY <1>4, <2>1, <2>3, <2>4
<1>10. ASSUME NEW m \in 1..C
       PROVE  /\ IsOpen(m)' <=> IsOpen(m) /\ nodes[m].level < nodes[n].level
              /\ m \in ToSet(open) \ ToSet(kept) <=> IsOpen(m) /\ ~(nodes[m].level < nodes[n].level)
  <2>1. m \in ToSet(kept) <=> \E i \in 1..k : open[i] = m
      BY <1>3
  <2>2. m \in ToSet(open) <=> \E i \in 1..Len(open) : open[i] = m
      BY <1>1, ClosedFacts DEF IsOpen
  <2>3. (\E i \in 1..k : open[i] = m) <=>
           (\E i \in 1..Len(open) : open[i] = m) /\ nodes[m].level < nodes[n].level
      BY <1>2, <1>3
  <2>4. IsOpen(m)' <=> \E i \in 1..k : open[i] = m
    <3>1. \A i \in 1..(k + 1) : i \in 1..k \/ i = k + 1
        BY <1>3
    <3>2. \A i \in 1..k : i \in 1..(k + 1)
        BY <1>3
    <3>3. m # n
        BY <1>1
    <3> QED
        BY <1>5, <3>1, <3>2, <3>3 DEF IsOpen
  <2> QED
      BY <2>1, <2>2, <2>3, <2>4 DEF IsOpen
<1>11. /\ \A m \in 1..n : m \in 1..C \/ m = n
       /\ \A m \in 1..C : m \in 1..n
       /\ IsOpen(n)'
  <2>1. k + 1 \in 1..(k + 1)
      BY <1>3
  <2> QED
      BY <1>1, <1>5, <2>1 DEF IsOpen
<1>12. ClosedSoFar'
  <2>1. ASSUME NEW m \in 1..C
        PROVE  /\ IsOpen(m) <=> Unended(m, C)
               /\ ~IsOpen(m) => \E j \in 1..C : EndsAt(m, j) /\ ends[m] = nodes[j].head - 1
      BY <1>1, <1>4 DEF TreeInv, ClosedSoFar, Growing
  <2>2. ASSUME NEW m \in 1..C PROVE Unended(m, n)' <=> Unended(m, C) /\ nodes[m].level < nodes[n].level
    <3>1. \A j \in (m + 1)..n : j \in (m + 1)..C \/ j = n
        BY <1>1
    <3>2. n \in (m + 1)..n /\ \A j \in (m + 1)..C : j \in (m + 1)..n
        BY <1>1
    <3> QED
        BY <1>1, <1>4, <3>1, <3>2 DEF Unended
  <2>3. ASSUME NEW m \in 1..C, ~IsOpen(m)'
        PROVE  \E j \in 1..n : EndsAt(m, j)' /\ ends'[m] = nodes'[j].head - 1
    <3>1. CASE IsOpen(m)
      <4>1. ends'[m] = nodes[n].head - 1 /\ n \in 1..n
          BY <1>1, <1>9, <1>10, <2>3, <3>1
      <4>2. nodes[n].level <= nodes[m].level /\ m < n /\ C = n - 1
        <5>1. ~(nodes[m].level < nodes[n].level)
            BY <1>10, <2>3, <3>1
        <5>2. m \in 1..N /\ nodes[m].level \in Nat /\ nodes[n].level \in Nat
            BY <1>1, TreeTypesFacts DEF TreeInv, Node
        <5> QED
            BY <1>1, <5>1, <5>2
      <4>3. EndsAt(m, n)'
          BY <1>4, <2>1, <3>1, <4>2 DEF EndsAt, Unended
      <4> QED
          BY <1>4, <4>1, <4>3
    <3>2. CASE ~IsOpen(m)
      <4>1. PICK j \in 1..C : EndsAt(m, j) /\ ends[m] = nodes[j].head - 1
          BY <2>1, <3>2
      <4>2. j \in 1..n /\ EndsAt(m, j)'
          BY <1>1, <1>4, <4>1 DEF EndsAt
      <4>3. ends'[m] = ends[m]
        <5>1. m \in 1..N
            BY <1>1
        <5>2. ~(m \in ToSet(open) \ ToSet(kept))
            BY <1>10, <3>2
        <5> QED
            BY <1>9, <5>1, <5>2
      <4> QED
          BY <1>4, <4>1, <4>2, <4>3
    <3> QED
        BY <3>1, <3>2
  <2>4. ASSUME NEW m \in 1..n
        PROVE  /\ IsOpen(m)' <=> Unended(m, n)'
               /\ ~IsOpen(m)' => \E j \in 1..n : EndsAt(m, j)' /\ ends'[m] = nodes'[j].head - 1
    <3>1. CASE m \in 1..C
        BY <1>10, <2>1, <2>2, <2>3, <3>1
    <3>2. CASE m = n
      <4>1. Unended(n, n)'
          BY <1>1 DEF Unended
      <4> QED
          BY <1>11, <3>2, <4>1
    <3> QED
        BY <1>11, <3>1, <3>2
  <2> QED
      BY <1>7, <2>4 DEF ClosedSoFar, Unended
<1>13. OpenAscends' /\ AllClosed'
  <2>1. \A i \in 1..(k + 1) : i = k + 1 \/ (i \in 1..k /\ i \in 1..Len(open))
      BY <1>3
  <2>2. \A i \in 1..k : open[i] \in 1..C /\ nodes[open[i]].level < nodes[n].level /\ i \in 1..Len(open)
      BY <1>2, <1>3, <1>6
  <2>3. \A i \in 1..(k + 1) : open'[i] \in 1..N
      BY SMTT(30), <1>1, <1>5, <2>1, <2>2
  <2>4. ASSUME NEW i \in 1..(k + 1), NEW j \in 1..(k + 1), i < j
        PROVE  open'[i] < open'[j] /\ nodes[open'[i]].level < nodes[open'[j]].level
    <3>1. i \in 1..k
        BY <1>3, <2>4
    <3>2. CASE j \in 1..k
        BY <1>5, <2>2, <2>4, <3>1, <3>2 DEF TreeInv, OpenAscends
    <3>3. CASE j = k + 1
      <4>1. open'[j] = n /\ open'[i] = open[i]
          BY <1>5, <3>1, <3>3
      <4>2. open[i] < n /\ nodes[open[i]].level < nodes[n].level
          BY <1>1, <2>2, <3>1
      <4> QED
          BY <4>1, <4>2
    <3> QED
        BY <2>1, <3>2, <3>3
  <2>5. OpenAscends'
      BY SMTT(30), <1>1, <1>4, <1>5, <2>3, <2>4 DEF OpenAscends
  <2>6. AllClosed'
      BY <1>4 DEF AllClosed, Growing
  <2> QED
      BY <2>5, <2>6
<1>14. TreeTypes' /\ Progress'
    BY <1>1, <1>4, <1>5, <1>9 DEF TreeInv, TreeTypes, Progress, Building, Growing
<1>15. StackIsAPath' /\ InDocumentOrder'
    BY <1>4 DEF TreeInv, StackIsAPath, InDocumentOrder, LevelOf
<1>16. (NamesAreUnique /\ MarkersAsRead /\ HeadingsHaveNoMarker)'
    BY <1>4 DEF TreeInv, NamesAreUnique, MarkersAsRead, HeadingsHaveNoMarker, HasMarker, Building
<1> QED
    BY <1>12, <1>13, <1>14, <1>15, <1>16 DEF TreeInv

LEMMA CloseAllStep == ASSUME TreeInv, CloseAll PROVE TreeInv'
<1>1. PICK N \in Nat : N = Len(nodes) /\ Closed = N /\ Len(lines) \in Nat
    BY ClosedFacts, TreeTypesFacts DEF CloseAll, TreeInv
<1>2. /\ ends' = [o \in DOMAIN ends |-> IF o \in ToSet(open) THEN Len(lines) ELSE ends[o]]
      /\ phase = "close" /\ phase' = "built"
      /\ UNCHANGED <<style, lines, nodes, stack, owner, captioned, ids, open>>
    BY DEF CloseAll
<1>3. /\ ends' \in Seq(Nat) /\ Len(ends') = N
      /\ \A o \in 1..N : ends'[o] = IF o \in ToSet(open) THEN Len(lines) ELSE ends[o]
  <2>1. DOMAIN ends = 1..N /\ \A o \in 1..N : ends[o] \in Nat
      BY <1>1, SeqFacts DEF TreeInv, TreeTypes, Progress
  <2>2. ends' \in [1..N -> Nat]
      BY <1>1, <1>2, <2>1
  <2>3. ends' \in Seq(Nat)
      BY <1>1, <2>2, SeqDef
  <2>4. Len(ends') = N
      BY <1>1, <2>2, <2>3, LenProperties
  <2> QED
      BY <1>2, <2>1, <2>3, <2>4
<1>4. AllClosed'
  <2>1. ASSUME NEW m \in 1..N
        PROVE  \/ Unended(m, N) /\ ends'[m] = Len(lines)
               \/ \E j \in 1..N : EndsAt(m, j) /\ ends'[m] = nodes[j].head - 1
    <3>1. /\ IsOpen(m) <=> Unended(m, N)
          /\ ~IsOpen(m) => \E j \in 1..N : EndsAt(m, j) /\ ends[m] = nodes[j].head - 1
        BY <1>1, <1>2 DEF TreeInv, ClosedSoFar, Growing
    <3>2. m \in ToSet(open) <=> IsOpen(m)
        BY <1>1, ClosedFacts
    <3> QED
        BY <1>3, <3>1, <3>2
  <2> QED
    <3>1. \A m, j : (Unended(m, j) <=> Unended(m, j)') /\ (EndsAt(m, j) <=> EndsAt(m, j)')
        BY <1>2 DEF Unended, EndsAt
    <3>2. nodes' = nodes /\ lines' = lines
        BY <1>2
    <3> QED
        BY <1>1, <2>1, <3>1, <3>2 DEF AllClosed
<1>5. ClosedSoFar' /\ OpenAscends'
    BY <1>2 DEF TreeInv, ClosedSoFar, OpenAscends, Growing
<1>6. TreeTypes' /\ Progress'
    BY <1>1, <1>2, <1>3 DEF TreeInv, TreeTypes, Progress, Building, Growing
<1>7. StackIsAPath' /\ InDocumentOrder'
    BY <1>2 DEF TreeInv, StackIsAPath, InDocumentOrder, LevelOf
<1>8. (NamesAreUnique /\ MarkersAsRead /\ HeadingsHaveNoMarker)'
    BY <1>2 DEF TreeInv, NamesAreUnique, MarkersAsRead, HeadingsHaveNoMarker, HasMarker, Building
<1> QED
    BY <1>4, <1>5, <1>6, <1>7, <1>8 DEF TreeInv

LEMMA TreeStutter == ASSUME TreeInv, UNCHANGED treeVars PROVE TreeInv'
<1> USE DEF treeVars
<1>1. TreeTypes' /\ Progress'
    BY DEF TreeInv, TreeTypes, Progress
<1>2. StackIsAPath' /\ InDocumentOrder'
    BY DEF TreeInv, StackIsAPath, InDocumentOrder, LevelOf
<1>3. (OpenAscends /\ ClosedSoFar /\ AllClosed)'
    BY DEF TreeInv, OpenAscends, ClosedSoFar, AllClosed, Closed, IsOpen, Unended, EndsAt
<1>4. (NamesAreUnique /\ MarkersAsRead /\ HeadingsHaveNoMarker)'
    BY DEF TreeInv, NamesAreUnique, MarkersAsRead, HeadingsHaveNoMarker, HasMarker
<1> QED
    BY <1>1, <1>2, <1>3, <1>4 DEF TreeInv

LEMMA TreeStep == TreeInv /\ [TreeNext]_treeVars => TreeInv'
    BY ReadLineStep, discoverHeadingsStep, BuildBlankStep, BuildHeadingStep, BuildMarkerStep,
       BuildBodyStep, resolveSiblingMarkersStep, ReassignIDStep, IDsReassignedStep,
       CloseBeforeStep, CloseAllStep, TreeStutter
    DEF TreeNext

\* Names are made of what the tree is, while it grows and once they are made again.
LEMMA CurrentTreeStep ==
    ASSUME TreeInv, NamesAreCurrent, [TreeNext]_treeVars
    PROVE  NamesAreCurrent'
<1>0. Len(nodes) \in Nat /\ Len(ids) \in Nat
    BY TreeTypesFacts DEF TreeInv
<1>1. CASE BuildHeading \/ BuildMarker
    BY <1>1, BuildHeadingStep, BuildMarkerStep
<1>2. CASE resolveSiblingMarkers
    BY <1>2 DEF resolveSiblingMarkers, NamesAreCurrent
<1>3. CASE ReassignID
  <2>1. PICK N \in Nat, p \in Nat : /\ N = Len(ids) /\ N + 1 \in 1..Len(nodes)
                                    /\ p = nodes[N + 1].parent /\ p \in 0..N
    <3>1. Len(ids) + 1 \in 1..Len(nodes)
        BY <1>0, <1>3 DEF ReassignID
    <3>2. nodes[Len(ids) + 1].parent \in 0..Len(ids)
        BY <1>0, <3>1, ParentsAreEarlier
    <3> QED
        BY <1>0, <3>1, <3>2
  <2>2. nodes[N + 1].kind \in Kinds /\ nodes[N + 1].number \in Numbers
      BY <2>1, ParentsAreEarlier
  <2>3. /\ ids' = Append(ids, uniqueID(ToSet(ids),
                      NodeID(IDOf(ids, p), nodes[N + 1].kind, nodes[N + 1].number)))
        /\ nodes' = nodes
      BY <1>3, <2>1 DEF ReassignID
  <2>4. ids \in Seq(IDs) /\ UniqueNames(ids)
      BY DEF TreeInv, TreeTypes, NamesAreUnique
  <2>5. /\ DOMAIN ids' = 1..(N + 1) /\ DOMAIN ids = 1..N
        /\ \A i \in 1..N : ids'[i] = ids[i]
        /\ \A i \in 0..N : IDOf(ids', i) = IDOf(ids, i)
        /\ Unnumbered(ids'[N + 1]) = NodeID(IDOf(ids', p), nodes[N + 1].kind, nodes[N + 1].number)
      BY <2>1, <2>2, <2>3, <2>4, NamesGrow
  <2>6. ASSUME NEW n \in 1..N PROVE NamedAfter(n, nodes[n].number)'
    <3>1. nodes[n].parent \in 0..N
      <4>1. n \in 1..Len(nodes)
          BY <1>0, <2>1
      <4>2. nodes[n].parent \in 0..(n - 1)
          BY <4>1, ParentsAreEarlier
      <4> QED
          BY <2>1, <4>2
    <3>2. NamedAfter(n, nodes[n].number)
        BY <2>5 DEF NamesAreCurrent
    <3> QED
        BY <2>3, <2>5, <3>1, <3>2 DEF NamedAfter
  <2>7. NamedAfter(N + 1, nodes[N + 1].number)'
      BY <2>1, <2>3, <2>5 DEF NamedAfter
  <2>8. \A n \in 1..(N + 1) : n \in 1..N \/ n = N + 1
      BY <2>1
  <2> QED
      BY <2>5, <2>6, <2>7, <2>8 DEF NamesAreCurrent
<1>4. CASE \/ ReadLine \/ discoverHeadings \/ BuildBlank \/ BuildBody \/ IDsReassigned
           \/ CloseBefore \/ CloseAll \/ UNCHANGED treeVars
  <2>1. UNCHANGED <<nodes, ids>>
      BY <1>4 DEF ReadLine, discoverHeadings, BuildBlank, BuildBody, IDsReassigned, CloseBefore,
                  CloseAll, treeVars
  <2> QED
      BY <2>1 DEF NamesAreCurrent, NamedAfter
<1> QED
    BY <1>1, <1>2, <1>3, <1>4 DEF TreeNext

-----------------------------------------------------------------------------
(* Lists that are written in order.                                        *)

\* What counts up to a position counts every position below.
LEMMA EarlierPositions ==
    ASSUME NEW S \in SUBSET Nat, NEW c \in S, NEW k \in 1..Position(S, c)
    PROVE  \E d \in S : Position(S, d) = k
<1>1. PICK p \in Nat : p = Position(S, c)
    BY UpToFacts
<1> DEFINE T == {j \in Nat : j < p => \E d \in S : Position(S, d) = p - j}
<1>2. 0 \in T
    BY <1>1
<1>3. ASSUME NEW j \in Nat, j \in T PROVE j + 1 \in T
  <2> SUFFICES ASSUME j + 1 < p PROVE \E d \in S : Position(S, d) = p - (j + 1)
      OBVIOUS
  <2>1. PICK d \in S : Position(S, d) = p - j
      BY <1>3
  <2>2. d # Min(S)
      BY <2>1, FirstPosition
  <2>3. PICK e \in S : Position(S, d) = Position(S, e) + 1
      BY <2>2, NextPosition
  <2>4. Position(S, e) \in Nat
      BY UpToFacts
  <2>5. Position(S, e) = p - (j + 1)
      BY <2>1, <2>3, <2>4
  <2> QED
      BY <2>5
<1>4. p - k \in T
  <2> HIDE DEF T
  <2>1. p - k \in Nat
      BY <1>1
  <2> QED
      BY <1>2, <1>3, <2>1, Induction
<1> QED
    BY <1>1, <1>4

\* How a position grows along the document.
LEMMA PositionAt ==
    ASSUME NEW S \in SUBSET (Nat \ {0})
    PROVE  /\ Position(S, 0) = 0
           /\ \A n \in Nat \ {0} : /\ n \in S => Position(S, n) = Position(S, n - 1) + 1
                                   /\ n \notin S => Position(S, n) = Position(S, n - 1)
<1>0. S \in SUBSET Nat
    OBVIOUS
<1>1. Position(S, 0) = 0
  <2>1. ASSUME NEW k \in UpTo(S, 0) PROVE FALSE
    <3>1. k \in Nat \ {0} /\ k <= 0
        BY DEF UpTo
    <3> QED
        BY <3>1
  <2> QED
      BY <1>0, <2>1, UpToFacts, FS_EmptySet
<1>2. ASSUME NEW n \in Nat \ {0}, n \in S PROVE Position(S, n) = Position(S, n - 1) + 1
  <2>1. ASSUME NEW k \in S PROVE k \in UpTo(S, n) <=> k \in UpTo(S, n - 1) \cup {n}
      BY <1>2 DEF UpTo
  <2>2. UpTo(S, n) = UpTo(S, n - 1) \cup {n} /\ n \notin UpTo(S, n - 1)
    <3>1. \A k : k \in UpTo(S, n) => k \in S
        BY DEF UpTo
    <3>2. \A k : k \in UpTo(S, n - 1) \cup {n} => k \in S
        BY <1>2 DEF UpTo
    <3>3. UpTo(S, n) = UpTo(S, n - 1) \cup {n}
        BY <2>1, <3>1, <3>2
    <3>4. n \notin UpTo(S, n - 1)
        BY DEF UpTo
    <3> QED
        BY <3>3, <3>4
  <2>3. IsFiniteSet(UpTo(S, n - 1)) /\ Position(S, n) = Cardinality(UpTo(S, n))
        /\ Position(S, n - 1) = Cardinality(UpTo(S, n - 1))
      BY <1>0, UpToFacts
  <2>4. Cardinality(UpTo(S, n - 1) \cup {n}) = Cardinality(UpTo(S, n - 1)) + 1
      BY <2>2, <2>3, FS_AddElement
  <2> QED
      BY <2>2, <2>3, <2>4
<1>3. ASSUME NEW n \in Nat \ {0}, n \notin S PROVE Position(S, n) = Position(S, n - 1)
  <2>1. ASSUME NEW k \in S PROVE k \in UpTo(S, n) <=> k \in UpTo(S, n - 1)
      BY <1>3 DEF UpTo
  <2>2. UpTo(S, n) = UpTo(S, n - 1)
      BY <2>1 DEF UpTo
  <2> QED
      BY <1>0, <2>2, UpToFacts
<1> QED
    BY <1>1, <1>2, <1>3

\* The score of a reading, as it is counted along the list.
Reads(ms, useAlt, n) == IF useAlt THEN ms[n].altOrdinal ELSE ms[n].ordinal
Counts(f, ms, useAlt, M) ==
    /\ f \in [0..M -> Nat] /\ f[0] = 0
    /\ \A n \in 1..M : f[n] = IF n \in DOMAIN ms /\ Reads(ms, useAlt, n) = f[n - 1] + 1
                              THEN f[n - 1] + 1 ELSE f[n - 1]

LEMMA ScoreFacts ==
    ASSUME NEW ms, NEW useAlt \in BOOLEAN, NEW M \in Nat, M = Max(DOMAIN ms)
    PROVE  \E f : Counts(f, ms, useAlt, M) /\ scoreSequence(ms, useAlt) = f[M]
<1> DEFINE D == 0..M
           Step(f, n) == IF n = 0 THEN 0
                         ELSE IF n \in DOMAIN ms /\ Reads(ms, useAlt, n) = f[n - 1] + 1
                              THEN f[n - 1] + 1 ELSE f[n - 1]
           H == [n \in D |-> [f \in [D -> Nat] |-> Step(f, n)]]
           rank == [n \in D |-> n]
           Is(f) == f = [n \in D |-> Step(f, n)]
           score == CHOOSE f : Is(f)
<1>1. scoreSequence(ms, useAlt) = score[M]
    BY DEF scoreSequence, Reads
<1>2. \E f : f \in [D -> Nat] /\ Is(f)
  <2>1. ASSUME NEW n \in D, NEW f \in [D -> Nat] PROVE Step(f, n) \in Nat
    <3>1. n # 0 => f[n - 1] \in Nat
        OBVIOUS
    <3> QED
        BY <3>1
  <2>2. H \in [D -> [[D -> Nat] -> Nat]] /\ \A n \in D, f \in [D -> Nat] : H[n][f] = Step(f, n)
    <3> HIDE DEF D, Step
    <3> QED
        BY <2>1
  <2>3. rank \in [D -> Nat] /\ \A n \in D : rank[n] = n
      OBVIOUS
  <2> HIDE DEF H, rank, Step
  <2>4. Descends(D, Nat, rank, H)
    <3> SUFFICES ASSUME NEW n \in D, NEW f \in [D -> Nat], NEW g \in [D -> Nat],
                        \A k \in D : rank[k] < rank[n] => f[k] = g[k]
                 PROVE  H[n][f] = H[n][g]
        BY <2>2 DEF Descends
    <3>1. n # 0 => f[n - 1] = g[n - 1]
        BY <2>3
    <3>2. Step(f, n) = Step(g, n)
        BY <3>1 DEF Step
    <3> QED
        BY <2>2, <3>2
  <2> HIDE DEF D
  <2>5. PICK f \in [D -> Nat] : \A n \in D : f[n] = H[n][f]
      BY <2>3, <2>4, Recursion
  <2>6. Is(f)
      BY <2>2, <2>5
  <2> QED
      BY <2>6
<1>3. Is(score)
  <2> HIDE DEF Is
  <2> QED
      BY <1>2
<1>4. \A n \in D : score[n] = Step(score, n)
  <2> HIDE DEF Step, score
  <2> QED
      BY <1>3
<1> DEFINE Typed == {n \in Nat : n \in D => score[n] \in Nat}
<1>5. D \subseteq Typed
  <2>1. 0 \in Typed
      BY <1>4
  <2>2. ASSUME NEW n \in Nat, n \in Typed PROVE n + 1 \in Typed
    <3> SUFFICES ASSUME n + 1 \in D PROVE score[n + 1] \in Nat
        OBVIOUS
    <3>1. score[n] \in Nat /\ n + 1 # 0 /\ (n + 1) - 1 = n
        BY <2>2
    <3>2. score[n + 1] \in {score[n] + 1, score[n]}
      <4> HIDE DEF score
      <4> QED
        BY <1>4, <3>1
    <3> QED
        BY <3>1, <3>2
  <2> HIDE DEF Typed
  <2> QED
      BY <2>1, <2>2, Induction
<1>6. Counts(score, ms, useAlt, M)
  <2> HIDE DEF score
  <2>1. score = [n \in D |-> Step(score, n)]
      BY <1>3
  <2>2. score \in [D -> Nat]
    <3> HIDE DEF Step
    <3> QED
      BY <1>4, <1>5, <2>1
  <2>3. score[0] = 0 /\ \A n \in 1..M : score[n] = Step(score, n)
      BY <1>4
  <2> QED
      BY <2>2, <2>3 DEF Counts
<1> HIDE DEF score
<1> QED
    BY <1>1, <1>6

\* No reading counts further than the list is long, and one that is 1, 2, 3, ... does.
LEMMA ScoresOfALine ==
    ASSUME NEW S \in SUBSET (Nat \ {0}), NEW ms, DOMAIN ms = S, NEW M \in Nat, M = Max(S),
           \A c \in S : ms[c].ordinal = Position(S, c)
    PROVE  ~(scoreSequence(ms, TRUE) > scoreSequence(ms, FALSE))
<1>0. \A n \in Nat : Position(S, n) \in Nat
    BY UpToFacts
<1>1. PICK f : Counts(f, ms, FALSE, M) /\ scoreSequence(ms, FALSE) = f[M]
    BY ScoreFacts
<1>2. PICK g : Counts(g, ms, TRUE, M) /\ scoreSequence(ms, TRUE) = g[M]
    BY ScoreFacts
<1> DEFINE T == {n \in Nat : n <= M => f[n] = Position(S, n) /\ g[n] <= f[n]}
<1>3. 0 \in T
    BY <1>1, <1>2, PositionAt DEF Counts
<1>4. ASSUME NEW n \in Nat, n \in T PROVE n + 1 \in T
  <2> SUFFICES ASSUME n + 1 <= M PROVE f[n + 1] = Position(S, n + 1) /\ g[n + 1] <= f[n + 1]
      OBVIOUS
  <2>1. f[n] = Position(S, n) /\ g[n] <= f[n] /\ f[n] \in Nat /\ g[n] \in Nat
      BY <1>4, <1>1, <1>2 DEF Counts
  <2>2. n + 1 \in 1..M /\ (n + 1) - 1 = n
      OBVIOUS
  <2>3. /\ f[n + 1] = IF n + 1 \in S /\ ms[n + 1].ordinal = f[n] + 1 THEN f[n] + 1 ELSE f[n]
        /\ g[n + 1] = IF n + 1 \in S /\ ms[n + 1].altOrdinal = g[n] + 1 THEN g[n] + 1 ELSE g[n]
      BY <1>1, <1>2, <2>2 DEF Counts, Reads
  <2>4. CASE n + 1 \in S
    <3>1. PICK k \in Nat \ {0} : k = n + 1 /\ k - 1 = n
        OBVIOUS
    <3>2. k \in S /\ Position(S, k) = Position(S, k - 1) + 1 /\ ms[k].ordinal = Position(S, k)
        BY <2>4, <3>1, PositionAt
    <3>3. Position(S, n + 1) = f[n] + 1 /\ ms[n + 1].ordinal = f[n] + 1
        BY <2>1, <3>1, <3>2
    <3> QED
        BY <2>1, <2>3, <2>4, <3>3
  <2>5. CASE n + 1 \notin S
    <3>1. PICK k \in Nat \ {0} : k = n + 1 /\ k - 1 = n
        OBVIOUS
    <3>2. Position(S, k) = Position(S, k - 1)
        BY <2>5, <3>1, PositionAt
    <3>3. Position(S, n + 1) = f[n]
        BY <2>1, <3>1, <3>2
    <3> QED
        BY <2>1, <2>3, <2>5, <3>3
  <2> QED
      BY <2>4, <2>5
<1>5. M \in T
  <2> HIDE DEF T
  <2> QED
      BY <1>3, <1>4, Induction
<1>6. f[M] \in Nat /\ g[M] \in Nat
    BY <1>1, <1>2 DEF Counts
<1>7. g[M] <= f[M]
    BY <1>5
<1>8. ~(g[M] > f[M])
    BY <1>6, <1>7
<1> QED
    BY <1>1, <1>2, <1>8, Zenon

LEMMA MemberPosition ==
    ASSUME NEW S \in SUBSET (Nat \ {0}), NEW c \in S
    PROVE  Position(S, c) \in Nat \ {0}
<1>1. c \in Nat \ {0} /\ c - 1 \in Nat /\ S \in SUBSET Nat
    OBVIOUS
<1>2. Position(S, c) = Position(S, c - 1) + 1
    BY <1>1, PositionAt
<1>3. Position(S, c - 1) \in Nat
    BY <1>1, UpToFacts
<1> QED
    BY <1>2, <1>3

\* A list that reads 1, 2, 3, ... as numerals is settled as one.
LEMMA NumeralsSettle ==
    ASSUME NEW S \in SUBSET (Nat \ {0}), S # {}, NEW b \in Nat, \A c \in S : c <= b,
           NEW ms \in [S -> Marker], NEW script \in {"lower", "upper"},
           \A c \in S : \E alpha \in Nat : ReadAs(ms[c], script, Position(S, c), alpha)
    PROVE  \A c \in S : Settle(ms[c], DecidedKind(ms)).ordinal = Position(S, c)
<1> DEFINE certain == {c \in S : ~ms[c].ambiguous}
<1>1. \A c \in S : ms[c].kind = Roman(script) /\ ms[c].ordinal = Position(S, c)
  <2> TAKE c \in S
  <2>1. Position(S, c) # 0
      BY MemberPosition
  <2> QED
      BY <2>1 DEF ReadAs
<1>2. S \in SUBSET Nat /\ DOMAIN ms = S
    OBVIOUS
<1>3. ~(scoreSequence(ms, TRUE) > scoreSequence(ms, FALSE))
  <2>1. Max(S) \in Nat
      BY <1>2, MaxFacts
  <2> QED
      BY <1>1, <1>2, <2>1, ScoresOfALine
<1>4. Min(S) \in S /\ (certain # {} => Min(certain) \in S)
    BY <1>2, MinFacts
<1>5. DecidedKind(ms) = IF certain # {} THEN ms[Min(certain)].kind ELSE ms[Min(S)].kind
    BY <1>2, <1>3 DEF DecidedKind
<1>6. DecidedKind(ms) = Roman(script)
  <2> HIDE DEF certain
  <2> QED
      BY <1>1, <1>4, <1>5
<1> TAKE c \in S
<1>7. ms[c] \in Marker
    OBVIOUS
<1>8. ~(IsAlpha(DecidedKind(ms)) # IsAlpha(ms[c].kind))
    BY <1>1, <1>6
<1>9. Settle(ms[c], DecidedKind(ms)) \in {ms[c], [ms[c] EXCEPT !.ambiguous = FALSE]}
    BY <1>8 DEF Settle
<1>10. Settle(ms[c], DecidedKind(ms)).ordinal = ms[c].ordinal
    BY <1>7, <1>9 DEF Marker
<1> QED
    BY <1>1, <1>10

\* ... and one that reads 1, 2, 3, ... as letters, because "a" is no numeral.
LEMMA LettersSettle ==
    ASSUME NEW S \in SUBSET (Nat \ {0}), S # {},
           NEW ms \in [S -> Marker], NEW script \in {"lower", "upper"},
           \A c \in S : \E roman \in Nat : ReadAs(ms[c], script, roman, Position(S, c)),
           ReadAs(ms[Min(S)], script, 0, 1)
    PROVE  \A c \in S : Settle(ms[c], DecidedKind(ms)).ordinal = Position(S, c)
<1> DEFINE certain == {c \in S : ~ms[c].ambiguous}
<1>1. S \in SUBSET Nat /\ DOMAIN ms = S /\ certain \in SUBSET Nat
    OBVIOUS
<1>2. Min(S) \in S /\ \A c \in S : Min(S) <= c
    BY <1>1, MinFacts
<1>3. ms[Min(S)].kind = Alpha(script) /\ ~ms[Min(S)].ambiguous
    BY DEF ReadAs
<1>4. Min(S) \in certain
    BY <1>2, <1>3
<1>5. Min(certain) = Min(S)
  <2>1. Min(certain) \in certain /\ \A c \in certain : Min(certain) <= c
      BY <1>1, <1>4, MinFacts
  <2>2. Min(certain) \in S /\ Min(certain) \in Nat /\ Min(S) \in Nat
      BY <1>1, <1>2, <2>1
  <2>3. Min(certain) <= Min(S) /\ Min(S) <= Min(certain)
      BY <1>2, <1>4, <2>1, <2>2
  <2> HIDE DEF certain
  <2> QED
      BY <2>2, <2>3
<1>6. DecidedKind(ms) = Alpha(script)
  <2>1. certain # {}
      BY <1>4
  <2>2. DecidedKind(ms) = ms[Min(certain)].kind
      BY <1>1, <2>1 DEF DecidedKind
  <2> QED
      BY <1>3, <1>5, <2>2
<1> TAKE c \in S
<1>7. ms[c] \in Marker
    OBVIOUS
<1>8. PICK roman \in Nat : ReadAs(ms[c], script, roman, Position(S, c))
    OBVIOUS
<1>9. Position(S, c) # 0
    BY MemberPosition
<1>10. CASE ~ms[c].ambiguous
  <2>1. Settle(ms[c], DecidedKind(ms)) = ms[c]
      BY <1>10 DEF Settle
  <2>2. roman = 0
      BY <1>8, <1>9, <1>10 DEF ReadAs
  <2> QED
      BY <1>8, <1>9, <2>1, <2>2 DEF ReadAs
<1>11. CASE ms[c].ambiguous
  <2>1. ms[c].kind = Roman(script) /\ ms[c].altOrdinal = Position(S, c)
      BY <1>8, <1>11 DEF ReadAs
  <2>2. IsAlpha(DecidedKind(ms)) /\ ~IsAlpha(ms[c].kind)
      BY <1>6, <2>1, FamilyFacts
  <2>3. Settle(ms[c], DecidedKind(ms)) =
           [ms[c] EXCEPT !.kind = ms[c].altKind, !.ordinal = ms[c].altOrdinal,
                         !.altKind = ms[c].kind, !.altOrdinal = ms[c].ordinal, !.ambiguous = FALSE]
      BY <1>11, <2>2 DEF Settle
  <2>4. Settle(ms[c], DecidedKind(ms)).ordinal = ms[c].altOrdinal
      BY <1>7, <2>3 DEF Marker
  <2> QED
      BY <2>1, <2>4
<1> QED
    BY <1>10, <1>11

\* The markers of a list before it is settled: each as its paragraph is read.
ListOf(n) == [c \in Siblings(n) |-> nodes[c].marker]
Spelled(S, ms, script, format) ==
    \A c \in S : \E form \in Forms :
        ms[c] = ParseMarker([script |-> script, value |-> format[Position(S, c)]], form)
AllRead(S, ms) == ms \in [S -> Marker] /\ \A c \in S : ms[c].kind # "unknown"

LEMMA NumeralListSettles ==
    ASSUME NEW S \in SUBSET (Nat \ {0}), S # {}, NEW b \in Nat, \A c \in S : c <= b,
           NEW ms, AllRead(S, ms), NEW script \in {"lower", "upper"}, Spelled(S, ms, script, formatRoman)
    PROVE  \A c \in S : Settle(ms[c], DecidedKind(ms)).ordinal = Position(S, c)
<1>1. ASSUME NEW c \in S
      PROVE  \E alpha \in Nat : ReadAs(ms[c], script, Position(S, c), alpha)
  <2>1. PICK k \in Nat \ {0} : k = Position(S, c)
      BY MemberPosition
  <2>2. PICK form \in Forms : ms[c] = ParseMarker([script |-> script, value |-> formatRoman[k]], form)
      BY <2>1 DEF Spelled
  <2>3. PICK v : v = formatRoman[k]
      OBVIOUS
  <2>4. v \in Seq(Nat) /\ ReadAs(ms[c], script, k, AlphaReading(v))
      BY <2>2, <2>3, NumeralRead DEF AllRead
  <2>5. AlphaReading(v) \in Nat
      BY <2>4, parseAlphaFacts DEF AlphaReading
  <2> QED
      BY <2>1, <2>4, <2>5
<1> QED
    BY <1>1, NumeralsSettle DEF AllRead

LEMMA LetterListSettles ==
    ASSUME NEW S \in SUBSET (Nat \ {0}), S # {},
           NEW ms, AllRead(S, ms), NEW script \in {"lower", "upper"}, Spelled(S, ms, script, formatAlpha)
    PROVE  \A c \in S : Settle(ms[c], DecidedKind(ms)).ordinal = Position(S, c)
<1>1. ASSUME NEW c \in S
      PROVE  \E v \in Seq(Nat) : /\ v = formatAlpha[Position(S, c)] /\ parseRoman(v) \in Nat
                                 /\ ReadAs(ms[c], script, parseRoman(v), AlphaReading(v))
                                 /\ Len(v) <= 2 => AlphaReading(v) = Position(S, c)
  <2>1. PICK k \in Nat \ {0} : k = Position(S, c)
      BY MemberPosition
  <2>2. PICK form \in Forms : ms[c] = ParseMarker([script |-> script, value |-> formatAlpha[k]], form)
      BY <2>1 DEF Spelled
  <2>3. PICK v : v = formatAlpha[k]
      OBVIOUS
  <2>4. /\ v \in Seq(Nat) /\ parseRoman(v) \in Nat
        /\ ReadAs(ms[c], script, parseRoman(v), AlphaReading(v))
        /\ Len(v) <= 2 => AlphaReading(v) = k
      BY <2>2, <2>3, LettersReadBack DEF AllRead
  <2> QED
      BY <2>1, <2>3, <2>4
\* The list has no more than 702 members.
<1>2. ASSUME NEW c \in S PROVE Position(S, c) \in 1..702
  <2> SUFFICES ASSUME Position(S, c) \notin 1..702 PROVE FALSE
      OBVIOUS
  <2>1. Position(S, c) \in Nat \ {0}
      BY MemberPosition
  <2>2. 703 \in 1..Position(S, c) /\ S \in SUBSET Nat
      BY <2>1
  <2>3. PICK d \in S : Position(S, d) = 703
    <3>1. PICK k \in 1..Position(S, c) : k = 703
        BY <2>2
    <3>2. \E d \in S : Position(S, d) = k
        BY <2>2, EarlierPositions
    <3> QED
        BY <3>1, <3>2
  <2>4. PICK v \in Seq(Nat) : v = formatAlpha[703] /\ ReadAs(ms[d], script, parseRoman(v), AlphaReading(v))
    <3>1. PICK v \in Seq(Nat) : /\ v = formatAlpha[Position(S, d)]
                                /\ ReadAs(ms[d], script, parseRoman(v), AlphaReading(v))
        BY <1>1
    <3>2. v = formatAlpha[703]
        BY <2>3, <3>1
    <3> QED
        BY <3>1, <3>2
  <2>5. v = <<1, 1, 1>> /\ parseRoman(v) = 0
      BY <2>4, LettersOfOrdinals, FirstLetterIsNoNumeral
  <2>6. AlphaReading(v) = 0
      BY <2>5 DEF AlphaReading
  <2>7. ms[d].kind = "unknown"
      BY <2>4, <2>5, <2>6 DEF ReadAs
  <2> QED
      BY <2>7 DEF AllRead
<1>3. \A c \in S : \E roman \in Nat : ReadAs(ms[c], script, roman, Position(S, c))
  <2> TAKE c \in S
  <2>1. PICK v \in Seq(Nat) : /\ v = formatAlpha[Position(S, c)] /\ parseRoman(v) \in Nat
                              /\ ReadAs(ms[c], script, parseRoman(v), AlphaReading(v))
                              /\ Len(v) <= 2 => AlphaReading(v) = Position(S, c)
      BY <1>1
  <2>2. Len(v) <= 2
    <3>1. PICK k \in 1..702 : k = Position(S, c)
        BY <1>2
    <3>2. Len(formatAlpha[k]) <= 2
        BY LettersOfOrdinals
    <3> QED
        BY <2>1, <3>1, <3>2
  <2> QED
      BY <2>1, <2>2
<1>4. ReadAs(ms[Min(S)], script, 0, 1)
  <2>1. S \in SUBSET Nat
      OBVIOUS
  <2>2. PICK c \in S : c = Min(S) /\ Position(S, c) = 1
      BY <2>1, FirstPosition
  <2>3. PICK v \in Seq(Nat) : /\ v = formatAlpha[1]
                              /\ ReadAs(ms[c], script, parseRoman(v), AlphaReading(v))
                              /\ Len(v) <= 2 => AlphaReading(v) = 1
      BY <1>1, <2>2
  <2>4. v = <<1>> /\ parseRoman(v) = 0
      BY <2>3, LettersOfOrdinals, FirstLetterIsNoNumeral
  <2>5. AlphaReading(v) = 1
      BY <2>3, <2>4
  <2> QED
      BY <2>2, <2>3, <2>4, <2>5
<1> QED
    BY <1>3, <1>4, LettersSettle DEF AllRead

\* Settling the lists: what is written in order is read in order.
LEMMA OrderlyStep == ASSUME TreeInv, resolveSiblingMarkers PROVE OrderlyListsCount'
<1>1. PICK N \in Nat : N = Len(nodes) /\ DOMAIN nodes = 1..N
    BY TreeTypesFacts DEF TreeInv
<1>2. nodes' = [n \in 1..N |-> Resolved(n)] /\ phase = "build"
    BY <1>1 DEF resolveSiblingMarkers
<1>3. \A n \in 1..N : Relabelled(Resolved(n), n)
    BY <1>1, ResolvedFacts
<1>4. \A n \in 1..N : /\ nodes'[n].parent = nodes[n].parent /\ nodes'[n].level = nodes[n].level
                      /\ HasMarker(n)' <=> HasMarker(n)
  <2> TAKE n \in 1..N
  <2>1. nodes'[n] = Resolved(n)
      BY <1>2
  <2> QED
      BY <1>3, <2>1 DEF Relabelled, HasMarker
<1> SUFFICES ASSUME NEW n \in 1..N, HasMarker(n), NEW script \in {"lower", "upper"},
                    (WrittenAs(Siblings(n), script, formatAlpha)
                       \/ WrittenAs(Siblings(n), script, formatRoman))'
             PROVE  \A c \in Siblings(n)' : nodes'[c].ordinal = Position(Siblings(n)', c)
  <2>1. DOMAIN nodes' = 1..N
      BY <1>2
  <2> QED
      BY <1>4, <2>1 DEF OrderlyListsCount, Position
<1>5. PICK S : S = Siblings(n)
    OBVIOUS
<1>6. S \subseteq 1..N /\ \A c \in S : HasMarker(c) /\ Siblings(c) = S
  <2>1. \A c \in S : c \in 1..N /\ HasMarker(c) /\ nodes[c].parent = nodes[n].parent
                     /\ nodes[c].level = nodes[n].level
      BY <1>1, <1>5 DEF Siblings, Children
  <2> QED
      BY <1>5, <2>1 DEF Siblings, Children
<1>7. n \in S
    BY <1>1, <1>5 DEF Siblings, Children
<1>8. Siblings(n)' = S
  <2>1. DOMAIN nodes' = 1..N
      BY <1>2
  <2>2. \A c : c \in Siblings(n)' <=> c \in S
      BY <1>1, <1>4, <1>5, <2>1 DEF Siblings, Children
  <2> QED
      BY <2>2
<1>9. PICK ms : ms = ListOf(n)
    OBVIOUS
<1>10. ms = [c \in S |-> nodes[c].marker]
    BY <1>5, <1>9 DEF ListOf
<1>11. AllRead(S, ms)
  <2>1. \A c \in S : nodes[c].marker \in Marker /\ nodes[c].marker.kind # "unknown"
    <3> TAKE c \in S
    <3>1. nodes[c] \in Node
        BY <1>1, <1>6, TreeTypesFacts DEF TreeInv
    <3>2. nodes[c].marker \in Marker
        BY <3>1 DEF Node
    <3> QED
        BY <1>6, <3>2 DEF HasMarker
  <2> QED
      BY <1>10, <2>1 DEF AllRead
<1>12. \A c \in S : nodes'[c].number = nodes[c].marker.token
                    /\ nodes'[c].ordinal = Settle(ms[c], DecidedKind(ms)).ordinal
  <2> TAKE c \in S
  <2>1. c \in 1..N /\ HasMarker(c) /\ Siblings(c) = S
      BY <1>6
  <2>2. nodes'[c] = Resolved(c) /\ Resolved(c).number = nodes[c].marker.token
        /\ Resolved(c).ordinal = Resolved(c).marker.ordinal
      BY <1>1, <1>2, <2>1, ResolvedFacts
  <2>3. PICK m : m = Settle(nodes[c].marker, DecidedKind(ms))
      OBVIOUS
  <2>4. PICK node \in Node : node = nodes[c]
      BY <1>1, <2>1, TreeTypesFacts DEF TreeInv
  <2>5. PICK kind : kind = markerNodeKind(m)
      OBVIOUS
  <2>6. Resolved(c) = [node EXCEPT !.marker = m, !.kind = kind, !.ordinal = m.ordinal, !.number = m.token]
      BY <1>10, <2>1, <2>3, <2>4, <2>5 DEF Resolved
  <2>7. Resolved(c).ordinal = m.ordinal
      BY <2>6 DEF Node
  <2>8. ms[c] = nodes[c].marker
      BY <1>10
  <2> QED
      BY <2>2, <2>3, <2>7, <2>8
<1>13. ASSUME NEW format, WrittenAs(S, script, format)' PROVE Spelled(S, ms, script, format)
  <2> SUFFICES ASSUME NEW c \in S
               PROVE  \E form \in Forms :
                         ms[c] = ParseMarker([script |-> script, value |-> format[Position(S, c)]], form)
      BY DEF Spelled
  <2>1. nodes'[c].number = [script |-> script, value |-> format[Position(S, c)]]
      BY <1>13 DEF WrittenAs, Position
  <2>2. PICK l \in Lines : l = lines[nodes[c].head] /\ nodes[c].marker = MarkerAt(l)
    <3>1. c \in 1..N /\ HasMarker(c)
        BY <1>6
    <3>2. nodes[c].marker = MarkerAt(lines[nodes[c].head])
        BY <1>1, <1>2, <3>1 DEF TreeInv, MarkersAsRead, Building
    <3>3. nodes[c].head \in 1..Len(lines) /\ lines \in Seq(Lines)
      <4>1. nodes[c] \in Node /\ nodes[c].head <= Len(owner) /\ Len(owner) <= Len(lines)
            /\ Len(owner) \in Nat /\ Len(lines) \in Nat
          BY <1>1, <3>1, TreeTypesFacts DEF TreeInv, InDocumentOrder, Progress
      <4>2. nodes[c].head \in Nat \ {0}
          BY <4>1 DEF Node
      <4>3. PICK h \in Nat \ {0} : h = nodes[c].head /\ h <= Len(owner)
          BY <4>1, <4>2
      <4>4. h \in 1..Len(lines)
          BY <4>1, <4>3
      <4>5. lines \in Seq(Lines)
          BY DEF TreeInv, TreeTypes
      <4> QED
          BY <4>3, <4>4, <4>5
    <3> QED
        BY <3>2, <3>3, ElementOfSeq
  <2>3. l.type = "marker" /\ nodes[c].marker.token = l.number
    <3>1. MarkerAt(l).kind # "unknown"
        BY <1>6, <2>2 DEF HasMarker
    <3> QED
        BY <2>2, <3>1, LineFacts
  <2>4. ms[c] = ParseMarker(l.number, l.form)
      BY <1>10, <2>2, <2>3 DEF MarkerAt
  <2>5. l.form \in Forms
      BY DEF Lines, Forms
  <2> QED
      BY <1>12, <2>1, <2>3, <2>4, <2>5
<1>14. S \in SUBSET (Nat \ {0}) /\ S # {} /\ \A c \in S : c <= N
    BY <1>6, <1>7
<1>15. \A c \in S : Settle(ms[c], DecidedKind(ms)).ordinal = Position(S, c)
  <2>1. CASE WrittenAs(S, script, formatAlpha)'
      BY <1>11, <1>13, <1>14, <2>1, LetterListSettles
  <2>2. CASE WrittenAs(S, script, formatRoman)'
      BY <1>11, <1>13, <1>14, <2>2, NumeralListSettles
  <2>3. WrittenAs(S, script, formatAlpha)' \/ WrittenAs(S, script, formatRoman)'
      BY <1>8 DEF WrittenAs, Position
  <2> QED
      BY <2>1, <2>2, <2>3
<1> QED
    BY <1>8, <1>12, <1>15

Settled == {"name", "close", "built"}

LEMMA OrderlyKept ==
    ASSUME OrderlyListsCount, UNCHANGED nodes, phase' \in Settled => phase \in Settled
    PROVE  OrderlyListsCount'
<1>1. \A n : HasMarker(n)' <=> HasMarker(n)
    BY DEF HasMarker
<1>2. \A n : Siblings(n)' = Siblings(n)
    BY DEF Siblings, Children, HasMarker
<1> SUFFICES ASSUME phase' \in Settled, NEW n \in DOMAIN nodes, HasMarker(n), NEW script \in {"lower", "upper"},
                    (WrittenAs(Siblings(n), script, formatAlpha)
                       \/ WrittenAs(Siblings(n), script, formatRoman))'
             PROVE  \A c \in Siblings(n)' : nodes'[c].ordinal = Position(Siblings(n)', c)
    BY <1>1 DEF OrderlyListsCount, Position, Settled
<1>3. WrittenAs(Siblings(n), script, formatAlpha) \/ WrittenAs(Siblings(n), script, formatRoman)
    BY <1>2 DEF WrittenAs, Position
<1>4. \A c \in Siblings(n) : nodes[c].ordinal = Position(Siblings(n), c)
    BY <1>3 DEF OrderlyListsCount, Settled
<1> QED
    BY <1>2, <1>4

LEMMA OrderlyLater == ASSUME phase' \notin Settled PROVE OrderlyListsCount'
    BY DEF Settled, OrderlyListsCount

LEMMA OrderlyTreeStep ==
    ASSUME TreeInv, OrderlyListsCount, [TreeNext]_treeVars
    PROVE  OrderlyListsCount'
<1>1. CASE ReadLine \/ discoverHeadings
  <2>1. phase' \notin Settled
      BY <1>1 DEF ReadLine, discoverHeadings, Settled
  <2> QED
      BY <2>1, OrderlyLater
<1>2. CASE BuildBlank \/ BuildHeading \/ BuildMarker \/ BuildBody
  <2>1. phase' \notin Settled
      BY <1>2 DEF BuildBlank, BuildHeading, BuildMarker, BuildBody, attach, AtLine, Settled
  <2> QED
      BY <2>1, OrderlyLater
<1>3. CASE resolveSiblingMarkers
    BY <1>3, OrderlyStep
<1>4. CASE ReassignID \/ IDsReassigned \/ CloseBefore \/ CloseAll \/ UNCHANGED treeVars
  <2>1. UNCHANGED nodes /\ (phase' \in Settled => phase \in Settled)
      BY <1>4 DEF ReassignID, IDsReassigned, CloseBefore, CloseAll, treeVars, Settled
  <2> QED
      BY <2>1, OrderlyKept
<1> QED
    BY <1>1, <1>2, <1>3, <1>4 DEF TreeNext

-----------------------------------------------------------------------------
(* The properties.                                                         *)

LEMMA TreeTypesHold == TreeInv => TreeTypeOK
<1> SUFFICES ASSUME TreeInv PROVE TreeTypeOK
    OBVIOUS
<1>1. /\ DOMAIN nodes = 1..Len(nodes) /\ Len(nodes) \in Nat /\ Len(lines) \in Nat /\ Len(owner) \in Nat
      /\ \A n \in 1..Len(nodes) : nodes[n] \in Node
    BY TreeTypesFacts DEF TreeInv
<1>2. DOMAIN ends = DOMAIN nodes
    BY <1>1, SeqFacts DEF TreeInv, TreeTypes, Progress
<1>3. ToSet(owner) \subseteq 0..Len(nodes)
  <2>1. ToSet(owner) = {owner[i] : i \in 1..Len(owner)} /\ \A i \in 1..Len(owner) : owner[i] \in Nat
      BY SeqFacts DEF TreeInv, TreeTypes
  <2>2. \A i \in 1..Len(owner) : owner[i] <= Len(nodes)
      BY DEF TreeInv, InDocumentOrder
  <2> QED
      BY <1>1, <2>1, <2>2
<1>4. \A n \in DOMAIN nodes : nodes[n].parent \in 0..(n - 1) /\ nodes[n].head \in 1..Len(lines)
  <2> TAKE n \in DOMAIN nodes
  <2>1. /\ nodes[n].parent \in Nat /\ nodes[n].head \in Nat \ {0}
        /\ nodes[n].parent < n /\ nodes[n].head <= Len(owner) /\ Len(owner) <= Len(lines)
      BY <1>1 DEF TreeInv, InDocumentOrder, Progress, Node
  <2> QED
      BY <1>1, <2>1
<1> QED
    BY <1>1, <1>2, <1>3, <1>4 DEF TreeInv, TreeTypes, Progress, TreeTypeOK

LEMMA StackHolds == TreeInv => OpenNodesAreAPath
<1> SUFFICES ASSUME TreeInv PROVE OpenNodesAreAPath
    OBVIOUS
<1>1. /\ stack[1] = 0
      /\ \A i \in 2..Len(stack) : /\ stack[i] \in 1..Len(nodes)
                                  /\ nodes[stack[i]].parent = stack[i - 1]
                                  /\ LevelOf(stack[i - 1]) < nodes[stack[i]].level
    BY DEF TreeInv, StackIsAPath
<1>2. DOMAIN nodes = 1..Len(nodes) /\ \A n \in 1..Len(nodes) : LevelOf(n) = nodes[n].level
    BY TreeTypesFacts DEF TreeInv, LevelOf
<1> QED
    BY <1>1, <1>2 DEF OpenNodesAreAPath

\* In a closed tree the owner of a paragraph covers it, and what else covers it is
\* less deep.
LEMMA OwnersHold == TreeInv => OwnersAgree
<1> SUFFICES ASSUME TreeInv, phase = "built", NEW p \in DOMAIN lines
             PROVE  OwnerOf(p) = owner[p]
    BY DEF OwnersAgree
<1>1. PICK N \in Nat, q \in Nat : N = Len(nodes) /\ q = owner[p]
  <2>1. p \in 1..Len(owner)
      BY SeqFacts DEF TreeInv, TreeTypes, Progress, Building
  <2> QED
      BY <2>1, TreeTypesFacts DEF TreeInv
<1>2. /\ DOMAIN nodes = 1..N /\ p \in Nat /\ p <= Len(lines) /\ Len(lines) \in Nat /\ q <= N
      /\ \A n \in 1..N : n <= q <=> nodes[n].head <= p
      /\ \A n \in 1..N : nodes[n].head \in Nat /\ nodes[n].level \in Nat \ {0}
  <2>1. p \in 1..Len(lines) /\ p \in 1..Len(owner)
      BY SeqFacts DEF TreeInv, TreeTypes, Progress, Building
  <2>2. q <= N /\ \A n \in 1..N : n <= q <=> nodes[n].head <= p
      BY <1>1, <2>1 DEF TreeInv, InDocumentOrder
  <2> QED
      BY <1>1, <2>1, <2>2, TreeTypesFacts DEF TreeInv, Node
<1>3. \A m \in 1..N :
          \/ Unended(m, N) /\ ends[m] = Len(lines)
          \/ \E k \in 1..N : EndsAt(m, k) /\ ends[m] = nodes[k].head - 1
    BY <1>1 DEF TreeInv, AllClosed, Growing
<1>4. \A n \in Covering(p) : n \in 1..N /\ n <= q /\ p <= ends[n]
    BY <1>2 DEF Covering
<1>5. CASE q = 0
  <2>1. Covering(p) = {}
      BY <1>4, <1>5
  <2> QED
      BY <1>1, <1>5, <2>1 DEF OwnerOf
<1>6. CASE q # 0
  <2>1. q \in 1..N /\ nodes[q].head <= p
      BY <1>2, <1>6
  <2>2. p <= ends[q]
    <3>1. CASE ends[q] = Len(lines)
        BY <1>2, <3>1
    <3>2. CASE \E k \in 1..N : EndsAt(q, k) /\ ends[q] = nodes[k].head - 1
      <4>1. PICK k \in 1..N : q < k /\ ends[q] = nodes[k].head - 1
          BY <3>2 DEF EndsAt
      <4>2. ~(nodes[k].head <= p)
          BY <1>2, <4>1
      <4> QED
          BY <1>2, <4>1, <4>2
    <3> QED
        BY <1>3, <2>1, <3>1, <3>2
  <2>3. q \in Covering(p)
      BY <1>2, <2>1, <2>2 DEF Covering
  <2>4. ASSUME NEW n \in Covering(p), n # q
        PROVE  nodes[n].level < nodes[q].level
    <3>1. n \in 1..N /\ n < q /\ p <= ends[n] /\ q \in (n + 1)..N
        BY <1>2, <1>4, <2>1, <2>4
    <3>2. CASE Unended(n, N)
        BY <3>1, <3>2 DEF Unended
    <3>3. CASE \E k \in 1..N : EndsAt(n, k) /\ ends[n] = nodes[k].head - 1
      <4>1. PICK k \in 1..N : EndsAt(n, k) /\ ends[n] = nodes[k].head - 1
          BY <3>3
      <4>2. ~(nodes[k].head <= p)
          BY <1>2, <3>1, <4>1
      <4>3. q < k
          BY <1>2, <4>2
      <4>4. q \in (n + 1)..(k - 1)
          BY <1>2, <3>1, <4>3
      <4> QED
          BY <4>1, <4>4 DEF EndsAt
    <3> QED
        BY <1>3, <3>1, <3>2, <3>3
  <2>5. \A n \in Covering(p) : LevelOf(n) = nodes[n].level /\ nodes[n].level \in Nat
      BY <1>2, <1>4 DEF LevelOf
  <2>6. \A n \in Covering(p) : LevelOf(n) <= LevelOf(q) /\ (LevelOf(q) <= LevelOf(n) => n = q)
      BY <2>3, <2>4, <2>5
  <2>7. OwnerOf(p) = CHOOSE n \in Covering(p) : \A m \in Covering(p) : LevelOf(m) <= LevelOf(n)
      BY <2>3 DEF OwnerOf
  <2> QED
      BY <1>1, <2>3, <2>6, <2>7
<1> QED
    BY <1>5, <1>6

LEMMA NamesHold == TreeInv => FirstKeepsItsName
<1> SUFFICES ASSUME TreeInv PROVE FirstKeepsItsName
    OBVIOUS
<1>1. DOMAIN ids = 1..Len(ids) /\ UniqueNames(ids)
    BY SeqFacts DEF TreeInv, TreeTypes, NamesAreUnique
<1> QED
    BY <1>1 DEF UniqueNames, FirstKeepsItsName

LEMMA TreeAlways == TreeSpec => []TreeInv
<1>1. TreeInit => TreeInv
    BY TreeInitFacts
<1> QED
    BY <1>1, TreeStep, PTL DEF TreeSpec

\* The builder's state has its types, for every style and document.
THEOREM TreeTypesAreKept == TreeSpec => []TreeTypeOK
    BY TreeAlways, TreeTypesHold, PTL

\* For documents of every length and every order of headings, lists and learned
\* headings: the open nodes are a path of the tree, and the node that was innermost
\* while the tree was built is the innermost node whose closed range covers the
\* paragraph (attach(), closeRanges() and OwnerOf()).
THEOREM OwnersAreAlwaysInnermost == TreeSpec => []OwnersAreInnermost
<1>1. TreeInv => OwnersAreInnermost
    BY StackHolds, OwnersHold DEF OwnersAreInnermost
<1> QED
    BY <1>1, TreeAlways, PTL

\* No two headings share a name and the first in the document keeps the plain one,
\* while the tree is built and after its lists are settled (uniqueID(), reassignIDs()).
THEOREM NamesAreAlwaysUnique == TreeSpec => []FirstKeepsItsName
    BY TreeAlways, NamesHold, PTL

\* No name is stale, for documents of every length and shape: what names a node is its
\* present kind and number under the present name of its parent (attach(), and
\* reassignIDs() after resolveSiblingMarkers()).
THEOREM NamesAreAlwaysCurrent == TreeSpec => []NamesAreCurrent
<1>1. TreeInit => NamesAreCurrent
    BY DEF TreeInit, NamesAreCurrent
<1>2. TreeInv /\ NamesAreCurrent /\ [TreeNext]_treeVars => NamesAreCurrent'
    BY CurrentTreeStep
<1> QED
    BY <1>1, <1>2, TreeAlways, PTL DEF TreeSpec

\* In documents of every length: a list that is written as the letters or the numerals
\* of 1, 2, 3, ... carries these ordinals once it is settled, although some of its
\* symbols have two readings (ResolveMarkerSequence() and resolveSiblingMarkers()).
THEOREM OrderlyListsAlwaysCount == TreeSpec => []OrderlyListsCount
<1>1. TreeInit => OrderlyListsCount
    BY DEF TreeInit, OrderlyListsCount
<1>2. TreeInv /\ OrderlyListsCount /\ [TreeNext]_treeVars => OrderlyListsCount'
    BY OrderlyTreeStep
<1> QED
    BY <1>1, <1>2, TreeAlways, PTL DEF TreeSpec
=============================================================================
