----------------------- MODULE GeneratedProject_proofs -----------------------
(* Of a generated project, for any pages, models and number of cases: its   *)
(* types, that a page object holds its own page, that elements are told     *)
(* apart, that a proposal is closed and that a verified one was checked.    *)
EXTENDS GeneratedProject, FiniteSetTheorems, WellFoundedInduction, TLAPS

Values == [is : STRING, traits : SUBSET Traits]
Nodes  == [called : Seq(STRING \cup Nat), named : STRING, visible : BOOLEAN,
           at : [Strategies -> Values]]
Documents == Seq(Nodes)
Locator == [strategy : Strategies, value : Values \cup {ByHand.value}, score : 1 .. 1000]

-----------------------------------------------------------------------------
(* Numbers: the least, the greatest, and induction up to a bound.           *)

Less == {p \in Nat \X Nat : p[1] < p[2]}

LEMMA LessIsWellFounded == IsWellFoundedOn(Less, Nat)
<1>1. OpToRel(<, Nat) = Less
  BY Zenon DEF OpToRel, Less
<1> QED
  BY <1>1, NatLessThanWellFounded, Zenon

LEMMA Least ==
  ASSUME NEW T \in SUBSET Nat, T # {}
  PROVE  \E x \in T : \A y \in T : x <= y
<1>1. PICK x \in T : \A y \in T : ~(<<y, x>> \in Less)
  BY LessIsWellFounded, WFMin
<1>2. ASSUME NEW y \in T
      PROVE  x <= y
  <2>1. x \in Nat /\ y \in Nat
    OBVIOUS
  <2>2. ~(y < x)
    BY <1>1, <2>1 DEF Less
  <2> QED
    BY <2>1, <2>2
<1> QED
  BY <1>2

LEMMA Greatest ==
  ASSUME NEW n \in Nat, NEW T \in SUBSET (0 .. n), T # {}
  PROVE  \E x \in T : \A y \in T : y <= x
<1> DEFINE D == {k \in 0 .. n : n - k \in T}
<1>1. D \subseteq Nat
  OBVIOUS
<1>2. D # {}
  <2>1. PICK x \in T : x \in 0 .. n
    OBVIOUS
  <2>2. PICK j \in 0 .. n : n - j = x
    BY <2>1, n - x \in 0 .. n, n - (n - x) = x
  <2>3. j \in D
    BY <2>2
  <2> QED
    BY <2>3
<1>3. PICK k \in D : \A j \in D : k <= j
  BY <1>1, <1>2, Least
<1>4. ASSUME NEW y \in T
      PROVE  y <= n - k
  <2>1. n - y \in 0 .. n /\ n - (n - y) = y
    OBVIOUS
  <2>2. k <= n - y
    BY <1>3, <2>1
  <2> QED
    BY <2>2
<1> QED
  BY <1>3, <1>4

LEMMA UpTo ==
  ASSUME NEW n \in Nat, NEW S \in SUBSET (0 .. n), 0 \in S,
         \A k \in 1 .. n : k - 1 \in S => k \in S
  PROVE  S = 0 .. n
<1> DEFINE T == (0 .. n) \ S
<1>1. SUFFICES ASSUME T # {}
               PROVE  FALSE
  OBVIOUS
<1>2. T \subseteq Nat
  OBVIOUS
<1>3. PICK x \in T : \A y \in T : x <= y
  BY <1>1, <1>2, Least
<1>4. x \in 1 .. n /\ x - 1 \in 0 .. n /\ ~(x <= x - 1)
  OBVIOUS
<1>5. x - 1 \in S
  BY <1>3, <1>4
<1> QED
  BY <1>4, <1>5

-----------------------------------------------------------------------------
(* score.ts: a locator worth anything matches one node, and one is best.    *)

LEMMA BaseValues ==
  /\ \A s \in Strategies : Base[s] \in 40 .. 100
  /\ \A s, t \in Strategies : Base[s] = Base[t] => s = t
  BY DEF Base, Strategies

IsScore(n) == n \in 0 .. 1000

LEMMA ScaledIsScore ==
  ASSUME NEW score, IsScore(score), NEW trait, NEW value
  PROVE  /\ IsScore(Scaled(score, trait, value, 40)) /\ IsScore(Scaled(score, trait, value, 50))
         /\ IsScore(Scaled(score, trait, value, 60)) /\ IsScore(Scaled(score, trait, value, 70))
<1>1. IsScore(Scaled(score, trait, value, 40))
  BY DEF Scaled, IsScore
<1>2. IsScore(Scaled(score, trait, value, 50))
  BY DEF Scaled, IsScore
<1>3. IsScore(Scaled(score, trait, value, 60))
  BY DEF Scaled, IsScore
<1>4. IsScore(Scaled(score, trait, value, 70))
  BY DEF Scaled, IsScore
<1> QED
  BY <1>1, <1>2, <1>3, <1>4

LEMMA WorthIsScore ==
  ASSUME NEW s \in Strategies, NEW v
  PROVE  IsScore(Worth(s, v))
<1> DEFINE base == Base[s] * 10
           hashed == Scaled(base, "generated", v, 50)
           fickle == IF s \in {"text", "title"} THEN Scaled(hashed, "volatile", v, 40) ELSE hashed
           sized  == Scaled(fickle, "long", v, 70)
           placed == IF s = "css" THEN Scaled(sized, "positional", v, 60) ELSE sized
<1>1. IsScore(base)
  BY BaseValues DEF IsScore
<1>2. IsScore(hashed)
  BY <1>1, ScaledIsScore
<1>3. IsScore(fickle)
  BY <1>2, ScaledIsScore
<1>4. IsScore(sized)
  BY <1>3, ScaledIsScore
<1>5. IsScore(placed)
  BY <1>4, ScaledIsScore
<1>6. Worth(s, v) = placed
  BY DEF Worth
<1> QED
  BY <1>5, <1>6

(* Candidates of one node: locators, one of each strategy.                  *)
AreCandidates(C) ==
  C \subseteq Locator /\ \A a, b \in C : a.strategy = b.strategy => a = b

LEMMA UsableAre ==
  ASSUME NEW d \in Documents, NEW node \in Nodes
  PROVE  LET C == Usable(Candidates(d, node)) IN
         /\ AreCandidates(C)
         /\ \A c \in C : /\ Has(node, c.strategy) /\ c.value = node.at[c.strategy]
                         /\ Matches(d, c.strategy, c.value) = 1
<1> DEFINE C == Usable(Candidates(d, node))
<1>1. ASSUME NEW c \in C
      PROVE  /\ c \in Locator /\ Has(node, c.strategy) /\ c.value = node.at[c.strategy]
             /\ Matches(d, c.strategy, c.value) = 1
             /\ c = [strategy |-> c.strategy, value |-> node.at[c.strategy],
                     score |-> Score(c.strategy, node.at[c.strategy],
                                     Matches(d, c.strategy, node.at[c.strategy]))]
  <2>1. c \in Candidates(d, node) /\ c.score > 0
    BY DEF Usable
  <2>2. PICK s \in Strategies :
          /\ Has(node, s)
          /\ c = [strategy |-> s, value |-> node.at[s],
                  score |-> Score(s, node.at[s], Matches(d, s, node.at[s]))]
    BY <2>1 DEF Candidates
  <2>3. Matches(d, s, node.at[s]) = 1 /\ c.score = Worth(s, node.at[s])
    BY <2>1, <2>2 DEF Score
  <2>4. c.score \in 1 .. 1000
    BY <2>1, <2>3, WorthIsScore DEF IsScore
  <2>5. node.at[s] \in Values
    BY DEF Nodes
  <2> QED
    BY <2>2, <2>3, <2>4, <2>5 DEF Locator, Values
<1>2. AreCandidates(C)
  BY <1>1 DEF AreCandidates
<1> QED
  BY <1>1, <1>2

Rank(c) == c.score * 101 + Base[c.strategy]

LEMMA RankOrders ==
  ASSUME NEW m \in Nat, NEW n \in Nat, NEW a \in Nat, NEW b \in Nat, m <= 1000, a <= 100,
         b <= 100, n * 101 + b <= m * 101 + a, a # b
  PROVE  m > n \/ (m = n /\ a > b)
  OBVIOUS

LEMMA BestIsBetter ==
  ASSUME NEW C, AreCandidates(C), C # {}
  PROVE  Best(C) \in C /\ \A d \in C \ {Best(C)} : Better(Best(C), d)
<1> DEFINE T == {Rank(c) : c \in C}
           n == 1000 * 101 + 100
<1>1. ASSUME NEW c \in C
      PROVE  /\ c.strategy \in Strategies
             /\ c.score \in Nat /\ c.score <= 1000
             /\ Base[c.strategy] \in Nat /\ Base[c.strategy] <= 100
  <2>1. c \in Locator
    BY DEF AreCandidates
  <2>2. c.strategy \in Strategies /\ c.score \in 1 .. 1000
    BY <2>1 DEF Locator
  <2>3. Base[c.strategy] \in 40 .. 100
    BY <2>2, BaseValues
  <2>4. c.score \in Nat /\ c.score <= 1000
    BY <2>2
  <2>5. Base[c.strategy] \in Nat /\ Base[c.strategy] <= 100
    BY <2>3
  <2> QED
    BY <2>2, <2>4, <2>5
<1>2. ASSUME NEW c \in C
      PROVE  Rank(c) \in Nat /\ Rank(c) <= n
  BY <1>1 DEF Rank
<1>3. n \in Nat
  OBVIOUS
<1>4. T \subseteq 0 .. n /\ T # {}
  <2> HIDE DEF n
  <2> QED
    BY <1>2, <1>3
<1>5. PICK x \in T : \A y \in T : y <= x
  <2> HIDE DEF T, n
  <2> QED
    BY <1>3, <1>4, Greatest
<1>6. PICK c \in C : x = Rank(c)
  OBVIOUS
<1>7. ASSUME NEW d \in C \ {c}
      PROVE  Better(c, d)
  <2>1. d \in C /\ d # c
    OBVIOUS
  <2>2. Rank(d) <= Rank(c)
    BY <1>5, <1>6, <2>1
  <2>3. d.strategy # c.strategy
    BY <2>1 DEF AreCandidates
  <2>4. c.strategy \in Strategies /\ d.strategy \in Strategies
    BY <1>1, <2>1
  <2>5. Base[c.strategy] # Base[d.strategy]
    BY <2>3, <2>4, BaseValues
  <2> DEFINE m == c.score
             k == d.score
             a == Base[c.strategy]
             b == Base[d.strategy]
  <2>6. /\ m \in Nat /\ k \in Nat /\ a \in Nat /\ b \in Nat
        /\ m <= 1000 /\ a <= 100 /\ b <= 100 /\ a # b
    BY <1>1, <2>1, <2>5
  <2>7. k * 101 + b <= m * 101 + a
    BY <2>2 DEF Rank
  <2>8. m > k \/ (m = k /\ a > b)
    <3> HIDE DEF m, k, a, b
    <3> QED
      BY <2>6, <2>7, RankOrders
  <2> QED
    BY <2>8 DEF Better
<1> QED
  BY <1>7 DEF Best

LEMMA ElementIs ==
  ASSUME NEW C, AreCandidates(C), C # {}, NEW name
  PROVE  LET e == Element(name, C) IN
         /\ e = [name |-> name, locator |-> e.locator, fallback |-> e.fallback]
         /\ e.locator \in C
         /\ e.fallback = {} \/ \E f \in C : e.fallback = {f} /\ f.score <= e.locator.score
<1> DEFINE best == Best(C)
           rest == C \ {best}
           e == Element(name, C)
<1>1. best \in C /\ \A d \in rest : Better(best, d)
  BY BestIsBetter
<1>2. e = [name |-> name, locator |-> best,
           fallback |-> IF rest = {} THEN {} ELSE {Best(rest)}]
  BY DEF Element
<1>3. ASSUME rest # {}
      PROVE  Best(rest) \in rest
  BY <1>3, BestIsBetter DEF AreCandidates
<1>4. ASSUME NEW f \in rest
      PROVE  f.score <= best.score
  <2>1. Better(best, f)
    BY <1>1
  <2>2. best \in Locator /\ f \in Locator
    BY <1>1 DEF AreCandidates
  <2> HIDE DEF best
  <2>3. best.score \in Int /\ f.score \in Int
    BY <2>2 DEF Locator
  <2>4. best.score > f.score \/ best.score = f.score
    BY <2>1 DEF Better
  <2> QED
    BY <2>3, <2>4
<1> HIDE DEF best, rest, e
<1>5. e.locator = best /\ e.name = name
      /\ e.fallback = IF rest = {} THEN {} ELSE {Best(rest)}
  BY <1>2
<1>6. rest \subseteq C
  BY DEF rest
<1> QED
  BY <1>1, <1>2, <1>3, <1>4, <1>5, <1>6 DEF e

-----------------------------------------------------------------------------
(* collect.ts: what one strategy and value address is one node.             *)

LEMMA OneMatch ==
  ASSUME NEW d \in Documents, NEW s, NEW v, Matches(d, s, v) = 1,
         NEW m \in DOMAIN d, NEW n \in DOMAIN d,
         IF s = "label" THEN d[m].named = v.is /\ d[n].named = v.is
                        ELSE d[m].at[s] = v /\ d[n].at[s] = v
  PROVE  m = n
<1> DEFINE M == {i \in DOMAIN d : IF s = "label" THEN d[i].named = v.is ELSE d[i].at[s] = v}
<1>1. Len(d) \in Nat /\ DOMAIN d = 1 .. Len(d)
  BY DEF Documents
<1>2. IsFiniteSet(M)
  <2>1. IsFiniteSet(1 .. Len(d))
    BY <1>1, FS_Interval
  <2>2. M \in SUBSET (1 .. Len(d))
    BY <1>1
  <2> HIDE DEF M
  <2> QED
    BY <2>1, <2>2, FS_Subset
<1>3. Cardinality(M) = 1
  BY DEF Matches
<1>4. m \in M /\ n \in M
  OBVIOUS
<1> HIDE DEF M
<1>5. PICK x : M = {x}
  BY <1>2, <1>3, FS_Singleton
<1> QED
  BY <1>4, <1>5

(* A label is counted by accessible name (collect.ts:255) and taken from    *)
(* label[for] (collect.ts:229-231): those agree where no aria-label         *)
(* overrides.                                                              *)
LabelsAreNamesIn(d) ==
  \A n \in DOMAIN d : Has(d[n], "label") => d[n].named = d[n].at["label"].is

LEMMA OneNode ==
  ASSUME NEW d \in Documents, LabelsAreNamesIn(d),
         NEW m \in DOMAIN d, NEW n \in DOMAIN d,
         NEW a \in Usable(Candidates(d, d[m])), NEW b \in Usable(Candidates(d, d[n])),
         a.strategy = b.strategy, a.value = b.value
  PROVE  m = n
<1>1. d[m] \in Nodes /\ d[n] \in Nodes
  BY DEF Documents
<1>2. /\ Has(d[m], a.strategy) /\ a.value = d[m].at[a.strategy]
      /\ Matches(d, a.strategy, a.value) = 1
  BY <1>1, UsableAre
<1>3. Has(d[n], b.strategy) /\ b.value = d[n].at[b.strategy]
  BY <1>1, UsableAre
<1>4. a.strategy = "label" => d[m].named = a.value.is /\ d[n].named = a.value.is
  BY <1>2, <1>3 DEF LabelsAreNamesIn
<1> DEFINE s == a.strategy
           v == a.value
<1>5. Matches(d, s, v) = 1 /\ d[m].at[s] = v /\ d[n].at[s] = v
  BY <1>2, <1>3
<1>6. IF s = "label" THEN d[m].named = v.is /\ d[n].named = v.is
                     ELSE d[m].at[s] = v /\ d[n].at[s] = v
  BY <1>4, <1>5
<1> HIDE DEF s, v
<1> QED
  BY <1>5, <1>6, OneMatch

-----------------------------------------------------------------------------
(* plan.ts: a unique name is unique.                                        *)

LEMMA UniqueNameIsNew ==
  ASSUME NEW T, NEW name \in Seq(T), Nat \subseteq T, NEW used, IsFiniteSet(used)
  PROVE  UniqueName(name, used) \notin used /\ UniqueName(name, used) \in Seq(T)
<1> DEFINE size == Cardinality(used)
           free == {n \in 2 .. (size + 2) : Append(name, n) \notin used}
           number == CHOOSE n \in free : \A m \in free : n <= m
<1>1. CASE name \notin used
  BY <1>1 DEF UniqueName
<1>2. CASE name \in used
  <2>1. size \in Nat
    BY FS_CardinalityType
  <2>2. free # {}
    <3>1. SUFFICES ASSUME free = {}
                   PROVE  FALSE
      OBVIOUS
    <3> DEFINE S == 2 .. (size + 2)
               f == [n \in S |-> Append(name, n)]
    <3>2. IsFiniteSet(S) /\ Cardinality(S) = size + 1
      <4> DEFINE top == size + 2
      <4>1. 2 \in Int /\ top \in Int /\ ~(2 > top) /\ top - 2 + 1 = size + 1
        BY <2>1
      <4> HIDE DEF top
      <4>2. IsFiniteSet(2 .. top) /\ Cardinality(2 .. top) = top - 2 + 1
        BY <4>1, FS_Interval
      <4> QED
        BY <4>1, <4>2 DEF top
    <3>3. f \in [S -> used]
      BY <3>1
    <3>4. PICK i \in S, j \in S : i # j /\ f[i] = f[j]
      <4> HIDE DEF S, f
      <4>1. Cardinality(used) < Cardinality(S)
        BY <2>1, <3>2
      <4> QED
        BY <3>2, <3>3, <4>1, FS_PigeonHole
    <3>5. Append(name, i) = Append(name, j) /\ i \in Nat /\ j \in Nat
      BY <2>1, <3>4
    <3>6. i \in T /\ j \in T
      BY <3>5
    <3>7. Append(name, i)[Len(name) + 1] = i /\ Append(name, j)[Len(name) + 1] = j
      BY <3>6
    <3> QED
      BY <3>4, <3>5, <3>7
  <2>3. free \subseteq Nat
    BY <2>1
  <2>4. \E n \in free : \A m \in free : n <= m
    <3> HIDE DEF free
    <3> QED
      BY <2>2, <2>3, Least
  <2>5. number \in free
    BY <2>4
  <2>6. UniqueName(name, used) = Append(name, number)
    BY <1>2 DEF UniqueName
  <2>7. number \in T /\ Append(name, number) \notin used
    BY <2>3, <2>5
  <2>8. Append(name, number) \in Seq(T)
    <3> HIDE DEF number
    <3> QED
      BY <2>7
  <2> QED
    BY <2>6, <2>7, <2>8
<1> QED
  BY <1>1, <1>2

-----------------------------------------------------------------------------
(* plan.ts: the plan of a document, node by node.                           *)

Start == [elements |-> <<>>, ambiguous |-> 0]
IsPlanTo(d, n, g) ==
  g = [k \in 0 .. n |-> IF k = 0 THEN Start ELSE Planned(d, d[k], g[k - 1])]

LEMMA PlanExists ==
  ASSUME NEW d \in Documents
  PROVE  \E g : IsPlanTo(d, Len(d), g) /\ PlanElements(d) = g[Len(d)]
<1> DEFINE S == {n \in 0 .. Len(d) : \E g : IsPlanTo(d, n, g)}
<1>1. Len(d) \in Nat
  BY DEF Documents
<1>2. 0 \in S
  <2> DEFINE g == [k \in 0 .. 0 |-> Start]
  <2>1. IsPlanTo(d, 0, g)
    BY DEF IsPlanTo
  <2> QED
    BY <1>1, <2>1
<1>3. ASSUME NEW n \in 1 .. Len(d), n - 1 \in S
      PROVE  n \in S
  <2>1. PICK g : IsPlanTo(d, n - 1, g)
    BY <1>3
  <2> DEFINE h == [k \in 0 .. n |-> IF k = n THEN Planned(d, d[n], g[n - 1]) ELSE g[k]]
  <2>2. ASSUME NEW k \in 0 .. n
        PROVE  h[k] = IF k = 0 THEN Start ELSE Planned(d, d[k], h[k - 1])
    <3>1. CASE k = n
      BY <1>1, <3>1
    <3>2. CASE k # n
      <4>1. k \in 0 .. (n - 1) /\ (k # 0 => k - 1 \in 0 .. n /\ k - 1 # n)
        BY <1>1, <3>2
      <4>2. g[k] = IF k = 0 THEN Start ELSE Planned(d, d[k], g[k - 1])
        BY <2>1, <4>1 DEF IsPlanTo
      <4> QED
        BY <3>2, <4>1, <4>2
    <3> QED
      BY <3>1, <3>2
  <2>3. h = [k \in 0 .. n |-> h[k]]
    OBVIOUS
  <2>4. IsPlanTo(d, n, h)
    <3> HIDE DEF h
    <3> QED
      BY <2>2, <2>3 DEF IsPlanTo
  <2> QED
    BY <1>1, <2>4
<1>4. S = 0 .. Len(d)
  <2>1. S \in SUBSET (0 .. Len(d))
    OBVIOUS
  <2> HIDE DEF S
  <2> QED
    BY <1>1, <1>2, <1>3, <2>1, UpTo
<1>5. \E g : IsPlanTo(d, Len(d), g)
  BY <1>1, <1>4
<1> DEFINE h == CHOOSE g : g = [k \in 0 .. Len(d) |->
                   IF k = 0 THEN [elements |-> <<>>, ambiguous |-> 0]
                   ELSE Planned(d, d[k], g[k - 1])]
<1>6. PlanElements(d) = h[Len(d)]
  BY DEF PlanElements
<1>7. IsPlanTo(d, Len(d), h)
  BY <1>5 DEF IsPlanTo, Start
<1> QED
  BY <1>6, <1>7

Words == Seq(STRING \cup Nat)
ElementRecords == [name : Words, locator : Locator, fallback : SUBSET Locator]

(* An element of the n-th node of a document.                               *)
ElementOf(d, n, e) ==
  LET C == Usable(Candidates(d, d[n])) IN
  /\ e.locator \in C
  /\ e.fallback = {} \/ \E f \in C : e.fallback = {f} /\ f.score <= e.locator.score

NamesDiffer(s) == \A i, j \in DOMAIN s : i # j => s[i].name # s[j].name
SameLocator(a, b) == a.strategy = b.strategy /\ a.value = b.value

(* What the first k nodes come to.                                          *)
PlanOK(d, k, plan) ==
  /\ plan \in [elements : Seq(ElementRecords), ambiguous : Nat]
  /\ \A i \in DOMAIN plan.elements : \E n \in 1 .. k : ElementOf(d, n, plan.elements[i])
  /\ NamesDiffer(plan.elements)
  /\ LabelsAreNamesIn(d) =>
       \A i, j \in DOMAIN plan.elements : i # j =>
         ~SameLocator(plan.elements[i].locator, plan.elements[j].locator)

LEMMA NamesAreFinite ==
  ASSUME NEW s \in Seq(ElementRecords)
  PROVE  IsFiniteSet({s[i].name : i \in DOMAIN s})
<1> DEFINE T == {s[i].name : i \in DOMAIN s}
           D == 1 .. Len(s)
           f == [i \in D |-> s[i].name]
<1>1. DOMAIN s = D /\ Len(s) \in Nat
  OBVIOUS
<1>2. IsFiniteSet(D)
  BY <1>1, FS_Interval
<1>3. f \in Surjection(D, T)
  BY <1>1 DEF Surjection
<1> HIDE DEF f, D, T
<1>4. IsFiniteSet(T)
  BY <1>2, <1>3, FS_Surjection
<1> QED
  BY <1>4 DEF T

LEMMA ElementIsOf ==
  ASSUME NEW d \in Documents, NEW n \in DOMAIN d, NEW name \in Words,
         Usable(Candidates(d, d[n])) # {}
  PROVE  LET e == Element(name, Usable(Candidates(d, d[n]))) IN
         e \in ElementRecords /\ e.name = name /\ ElementOf(d, n, e)
<1> DEFINE C == Usable(Candidates(d, d[n]))
           e == Element(name, C)
<1>1. d[n] \in Nodes
  BY DEF Documents
<1>2. AreCandidates(C)
  BY <1>1, UsableAre
<1>3. /\ e = [name |-> name, locator |-> e.locator, fallback |-> e.fallback]
      /\ e.locator \in C
      /\ e.fallback = {} \/ \E f \in C : e.fallback = {f} /\ f.score <= e.locator.score
  <2>1. C # {}
    OBVIOUS
  <2> HIDE DEF C
  <2> QED
    BY <1>2, <2>1, ElementIs
<1>4. C \subseteq Locator
  BY <1>2 DEF AreCandidates
<1> HIDE DEF e
<1>5. e.locator \in Locator /\ e.fallback \in SUBSET Locator
  BY <1>3, <1>4
<1>6. e \in ElementRecords /\ e.name = name
  BY <1>3, <1>5 DEF ElementRecords
<1> QED
  BY <1>3, <1>6 DEF ElementOf, e


LEMMA OneMoreNode ==
  ASSUME NEW d \in Documents, NEW k \in 1 .. Len(d), NEW before, PlanOK(d, k - 1, before)
  PROVE  PlanOK(d, k, Planned(d, d[k], before))
<1> DEFINE s == before.elements
           C == Usable(Candidates(d, d[k]))
           used == {s[i].name : i \in DOMAIN s}
           name == UniqueName(d[k].called, used)
           e == Element(name, C)
           after == Planned(d, d[k], before)
<1>0. Len(d) \in Nat /\ DOMAIN d = 1 .. Len(d) /\ k \in DOMAIN d
  BY DEF Documents
<1>1. /\ before \in [elements : Seq(ElementRecords), ambiguous : Nat]
      /\ s \in Seq(ElementRecords) /\ before.ambiguous \in Nat
      /\ Len(s) \in Nat /\ DOMAIN s = 1 .. Len(s)
  BY DEF PlanOK
<1>2. ASSUME NEW i \in DOMAIN s
      PROVE  \E n \in 1 .. k : n # k /\ n \in DOMAIN d /\ ElementOf(d, n, s[i])
  <2>1. PICK n \in 1 .. (k - 1) : ElementOf(d, n, s[i])
    BY DEF PlanOK
  <2>2. n \in 1 .. k /\ n # k /\ n \in 1 .. Len(d)
    BY <1>0
  <2> QED
    BY <1>0, <2>1, <2>2
<1>3. CASE after.elements = s /\ after \in [elements : Seq(ElementRecords), ambiguous : Nat]
  BY <1>2, <1>3 DEF PlanOK, NamesDiffer
<1>4. CASE C # {} /\ after = [before EXCEPT !.elements = Append(@, e)]
  <2>1. d[k] \in Nodes
    BY <1>0 DEF Documents
  <2>2. name \notin used /\ name \in Words
    <3>1. IsFiniteSet(used)
      BY <1>1, NamesAreFinite
    <3>2. d[k].called \in Words
      BY <2>1 DEF Nodes, Words
    <3> HIDE DEF used
    <3> QED
      BY <3>1, <3>2, UniqueNameIsNew DEF Words
  <2>3. e \in ElementRecords /\ e.name = name /\ ElementOf(d, k, e)
    <3> HIDE DEF name
    <3> QED
      BY <1>0, <1>4, <2>2, ElementIsOf
  <2> DEFINE t == Append(s, e)
  <2> HIDE DEF e
  <2>4. /\ t \in Seq(ElementRecords) /\ Len(t) = Len(s) + 1
        /\ DOMAIN t = 1 .. Len(s) + 1 /\ t[Len(s) + 1] = e
        /\ \A i \in DOMAIN s : t[i] = s[i]
    BY <1>1, <2>3
  <2>5. \A i \in DOMAIN t : i = Len(s) + 1 \/ i \in DOMAIN s
    BY <1>1, <2>4
  <2> HIDE DEF t
  <2>6. after.elements = t /\ after \in [elements : Seq(ElementRecords), ambiguous : Nat]
    <3>1. after = [before EXCEPT !.elements = t]
      BY <1>4 DEF t
    <3> HIDE DEF after
    <3> QED
      BY <1>1, <2>4, <3>1
  <2>7. ASSUME NEW i \in DOMAIN t
        PROVE  \E n \in 1 .. k : ElementOf(d, n, t[i])
    <3>1. CASE i = Len(s) + 1
      BY <2>3, <2>4, <3>1
    <3>2. CASE i \in DOMAIN s
      BY <1>2, <2>4, <3>2
    <3> QED
      BY <2>5, <3>1, <3>2
  <2>8. ASSUME NEW i \in DOMAIN s
        PROVE  /\ s[i].name # e.name
               /\ LabelsAreNamesIn(d) => ~SameLocator(s[i].locator, e.locator)
    <3>1. s[i].name # e.name
      BY <2>2, <2>3
    <3>2. ASSUME LabelsAreNamesIn(d), SameLocator(s[i].locator, e.locator)
          PROVE  FALSE
      <4>1. PICK n \in DOMAIN d : n # k /\ ElementOf(d, n, s[i])
        BY <1>2
      <4>2. /\ s[i].locator \in Usable(Candidates(d, d[n]))
            /\ e.locator \in Usable(Candidates(d, d[k]))
        BY <2>3, <4>1 DEF ElementOf
      <4>3. n = k
        BY <1>0, <3>2, <4>2, OneNode DEF SameLocator
      <4> QED
        BY <4>1, <4>3
    <3> QED
      BY <3>1, <3>2
  <2>9. NamesDiffer(t)
    BY <1>1, <2>4, <2>5, <2>8 DEF PlanOK, NamesDiffer
  <2>10. ASSUME LabelsAreNamesIn(d), NEW i \in DOMAIN t, NEW j \in DOMAIN t, i # j
         PROVE  ~SameLocator(t[i].locator, t[j].locator)
    <3>1. CASE i \in DOMAIN s /\ j \in DOMAIN s
      BY <2>4, <2>10, <3>1 DEF PlanOK
    <3>2. CASE i \in DOMAIN s /\ j = Len(s) + 1
      BY <2>4, <2>8, <2>10, <3>2
    <3>3. CASE i = Len(s) + 1 /\ j \in DOMAIN s
      BY <2>4, <2>8, <2>10, <3>3 DEF SameLocator
    <3> QED
      BY <2>5, <2>10, <3>1, <3>2, <3>3
  <2> HIDE DEF after
  <2>11. /\ \A i \in DOMAIN after.elements : \E n \in 1 .. k : ElementOf(d, n, after.elements[i])
         /\ NamesDiffer(after.elements)
    BY <2>6, <2>7, <2>9
  <2>12. LabelsAreNamesIn(d) =>
           \A i, j \in DOMAIN after.elements : i # j =>
             ~SameLocator(after.elements[i].locator, after.elements[j].locator)
    BY <2>6, <2>10
  <2>13. PlanOK(d, k, after)
    BY <2>6, <2>11, <2>12 DEF PlanOK
  <2> QED
    BY <2>13 DEF after
<1>5. CASE ~Reported(d[k])
  <2>1. after = before
    BY <1>5 DEF Planned
  <2> QED
    BY <1>1, <1>3, <2>1
<1>6. CASE Reported(d[k]) /\ C = {}
  <2>1. after = [before EXCEPT !.ambiguous = @ + 1]
    BY <1>6 DEF Planned
  <2>2. after.elements = s /\ after \in [elements : Seq(ElementRecords), ambiguous : Nat]
    <3> HIDE DEF after
    <3> QED
      BY <1>1, <2>1
  <2> QED
    BY <1>3, <2>2
<1>7. CASE Reported(d[k]) /\ C # {}
  <2>1. after = [before EXCEPT !.elements = Append(@, e)]
    BY <1>7 DEF Planned
  <2> QED
    BY <1>4, <1>7, <2>1
<1> QED
  BY <1>5, <1>6, <1>7

LEMMA PlanIsOK ==
  ASSUME NEW d \in Documents
  PROVE  PlanOK(d, Len(d), PlanElements(d))
<1>1. PICK g : IsPlanTo(d, Len(d), g) /\ PlanElements(d) = g[Len(d)]
  BY PlanExists
<1>2. Len(d) \in Nat
  BY DEF Documents
<1> DEFINE S == {n \in 0 .. Len(d) : PlanOK(d, n, g[n])}
<1>3. 0 \in S
  <2>1. g[0] = Start
    BY <1>1, <1>2 DEF IsPlanTo
  <2>2. <<>> \in Seq(ElementRecords) /\ DOMAIN <<>> = {}
    OBVIOUS
  <2>3. PlanOK(d, 0, Start)
    BY <2>2 DEF PlanOK, Start, NamesDiffer
  <2> QED
    BY <1>2, <2>1, <2>3
<1>4. ASSUME NEW n \in 1 .. Len(d), n - 1 \in S
      PROVE  n \in S
  <2>1. g[n] = Planned(d, d[n], g[n - 1])
    BY <1>1, <1>2 DEF IsPlanTo
  <2>2. PlanOK(d, n - 1, g[n - 1])
    BY <1>4
  <2>3. PlanOK(d, n, g[n])
    BY <2>1, <2>2, OneMoreNode
  <2> QED
    BY <1>2, <2>3
<1>5. S = 0 .. Len(d)
  <2>1. S \in SUBSET (0 .. Len(d))
    OBVIOUS
  <2> HIDE DEF S
  <2> QED
    BY <1>2, <1>3, <1>4, <2>1, UpTo
<1>6. Len(d) \in S
  BY <1>2, <1>5
<1> QED
  BY <1>1, <1>6

-----------------------------------------------------------------------------
(* The inductive invariant.                                                 *)

LabelsAreNames == \A p \in Pages : LabelsAreNamesIn(Layout[p])

(* The elements a page is left with: read on it, or corrected by hand.      *)
PageOK(p, s) ==
  /\ s \in Seq(ElementRecords)
  /\ \A i \in DOMAIN s :
       /\ s[i].fallback = {} \/ \E f \in s[i].fallback : s[i].fallback = {f}
       /\ \A f \in s[i].fallback : s[i].locator = ByHand \/ f.score <= s[i].locator.score
       /\ s[i].locator = ByHand \/
            \E n \in DOMAIN Layout[p] : Layout[p][n].at[s[i].locator.strategy] = s[i].locator.value
  /\ NamesDiffer(s)
  /\ LabelsAreNames =>
       \A i, j \in DOMAIN s : i # j =>
         ByHand \in {s[i].locator, s[j].locator} \/ ~SameLocator(s[i].locator, s[j].locator)

ObjectsOK ==
  /\ DOMAIN pageObjects = Pages
  /\ \A p \in Pages : pageObjects[p] = {} \/
       \E s \in pageObjects[p] : pageObjects[p] = {s} /\ PageOK(p, s)

InspectorsOK ==
  /\ inspector \in [Inspectors -> [pc : {"idle", "sent", "read"}, page : Pages,
                                   prelude : {"none", "replays", "fails"}, reached : Pages,
                                   elements : Seq(ElementRecords)]]
  /\ \A i \in Inspectors :
       inspector[i].pc = "read" => PageOK(inspector[i].reached, inspector[i].elements)

IsClosed(files) ==
  Dangling(files) = {} /\ \A path \in DOMAIN files : "unbound page" \notin files[path].faults
WasChecked(files) == engineTypes /\ ~TypeErrorsIn(files) /\ ~LintErrorsIn(files)

ProposalOK(r) ==
  /\ DOMAIN r = {"number", "status", "files", "unresolved", "verified"}
  /\ r.status \in {"none", "proposed", "applying", "applied"}
  /\ IsFiles(r.files)
  /\ r.unresolved = {} /\ ~UsesFlow(r.files) => IsClosed(r.files)
  /\ r.verified => WasChecked(r.files)

ProposalsOK == DOMAIN proposal = Cases /\ \A c \in Cases : ProposalOK(proposal[c])

(* What an apply has still to write it is writing; the rest is written.     *)
WritersOK ==
  /\ DOMAIN writer = Cases
  /\ \A c \in Cases :
       /\ writer[c] \subseteq DOMAIN proposal[c].files
       /\ writer[c] # {} => proposal[c].status = "applying"
       /\ proposal[c].status = "applying" =>
            DOMAIN proposal[c].files \ writer[c] \subseteq DOMAIN worktree

IInv ==
  /\ engineTypes \in BOOLEAN /\ model \in [Cases -> Models]
  /\ ObjectsOK /\ InspectorsOK /\ ProposalsOK /\ WritersOK
  /\ IsFiles(worktree) /\ IsFiles(head)


-----------------------------------------------------------------------------
(* Pages.                                                                   *)

LEMMA LayoutsAre ==
  ASSUME NEW p \in Pages
  PROVE  Layout[p] \in Documents /\ Len(Layout[p]) \in Nat /\ DOMAIN Layout[p] = 1 .. Len(Layout[p])
<1>1. Layout[p] \in Documents
  BY ProjectAssumption DEF Documents, Nodes, Values
<1> QED
  BY <1>1 DEF Documents

LEMMA ElementsAre ==
  ASSUME NEW s \in Seq(ElementRecords), NEW i \in DOMAIN s
  PROVE  /\ s[i] \in ElementRecords /\ s[i].name \in Words
         /\ s[i].locator \in Locator /\ s[i].fallback \subseteq Locator
<1>1. s[i] \in ElementRecords
  OBVIOUS
<1> QED
  BY <1>1 DEF ElementRecords

LEMMA ReadingIsOK ==
  ASSUME NEW p \in Pages, NEW shown \in 0 .. Len(Layout[p])
  PROVE  PageOK(p, PlanElements(SubSeq(Layout[p], 1, shown)).elements)
<1> DEFINE d == SubSeq(Layout[p], 1, shown)
           s == PlanElements(d).elements
<1>1. Layout[p] \in Documents /\ Len(Layout[p]) \in Nat /\ DOMAIN Layout[p] = 1 .. Len(Layout[p])
  BY LayoutsAre
<1>2. /\ d \in Documents /\ Len(d) = shown /\ DOMAIN d = 1 .. shown
      /\ \A n \in 1 .. shown : n \in DOMAIN Layout[p] /\ d[n] = Layout[p][n]
  BY <1>1 DEF Documents
<1> HIDE DEF d
<1>3. PlanOK(d, shown, PlanElements(d))
  BY <1>2, PlanIsOK
<1>4. s \in Seq(ElementRecords) /\ NamesDiffer(s)
  BY <1>3 DEF PlanOK
<1>5. ASSUME NEW i \in DOMAIN s
      PROVE  /\ s[i].fallback = {} \/ \E f \in s[i].fallback : s[i].fallback = {f}
             /\ \A f \in s[i].fallback : f.score <= s[i].locator.score
             /\ \E n \in DOMAIN Layout[p] : Layout[p][n].at[s[i].locator.strategy] = s[i].locator.value
  <2>1. PICK n \in 1 .. shown : ElementOf(d, n, s[i])
    BY <1>3 DEF PlanOK
  <2>2. d[n] \in Nodes /\ n \in DOMAIN Layout[p] /\ d[n] = Layout[p][n]
    BY <1>2 DEF Documents
  <2>3. s[i].locator.value = d[n].at[s[i].locator.strategy]
    BY <1>2, <2>1, <2>2, UsableAre DEF ElementOf
  <2>4. /\ s[i].fallback = {} \/ \E f \in s[i].fallback : s[i].fallback = {f}
        /\ \A f \in s[i].fallback : f.score <= s[i].locator.score
    BY <2>1 DEF ElementOf
  <2> QED
    BY <2>2, <2>3, <2>4
<1>6. LabelsAreNames => LabelsAreNamesIn(d)
  BY <1>1, <1>2 DEF LabelsAreNames, LabelsAreNamesIn
<1>7. LabelsAreNames => \A i, j \in DOMAIN s : i # j => ~SameLocator(s[i].locator, s[j].locator)
  BY <1>3, <1>6 DEF PlanOK
<1> HIDE DEF s
<1>8. PageOK(p, s)
  BY <1>4, <1>5, <1>7 DEF PageOK
<1> QED
  BY <1>8 DEF s, d

LEMMA CorrectedIsOK ==
  ASSUME NEW p \in Pages, NEW o, PageOK(p, o), NEW k \in DOMAIN o
  PROVE  PageOK(p, [o EXCEPT ![k].locator = ByHand])
<1> DEFINE e == [o[k] EXCEPT !.locator = ByHand]
           s == [o EXCEPT ![k] = e]
<1>1. ByHand \in Locator
  <2>1. "css" \in Strategies /\ 1000 \in 1 .. 1000
    BY DEF Strategies
  <2> QED
    BY <2>1 DEF ByHand, Locator
<1>2. o \in Seq(ElementRecords) /\ o[k] \in ElementRecords
  BY ElementsAre DEF PageOK
<1>3. e \in ElementRecords /\ e.locator = ByHand /\ e.name = o[k].name /\ e.fallback = o[k].fallback
  BY <1>1, <1>2 DEF ElementRecords
<1> HIDE DEF e
<1>4. /\ s \in Seq(ElementRecords) /\ DOMAIN s = DOMAIN o /\ s[k] = e
      /\ \A i \in DOMAIN o : i # k => s[i] = o[i]
  BY <1>2, <1>3
<1> HIDE DEF s
<1>5. \A i \in DOMAIN s : /\ s[i].name = o[i].name /\ s[i].fallback = o[i].fallback
                          /\ s[i].locator = ByHand \/ s[i].locator = o[i].locator
  BY <1>3, <1>4
<1>6. NamesDiffer(s)
  BY <1>4, <1>5 DEF PageOK, NamesDiffer
<1>7. ASSUME NEW i \in DOMAIN s
      PROVE  /\ s[i].fallback = {} \/ \E f \in s[i].fallback : s[i].fallback = {f}
             /\ \A f \in s[i].fallback : s[i].locator = ByHand \/ f.score <= s[i].locator.score
             /\ s[i].locator = ByHand \/
                  \E n \in DOMAIN Layout[p] :
                    Layout[p][n].at[s[i].locator.strategy] = s[i].locator.value
  <2>1. CASE s[i].locator = ByHand
    BY <1>4, <1>5, <2>1 DEF PageOK
  <2>2. CASE s[i].locator = o[i].locator
    BY <1>4, <1>5, <2>2 DEF PageOK
  <2> QED
    BY <1>5, <2>1, <2>2
<1>8. LabelsAreNames =>
        \A i, j \in DOMAIN s : i # j =>
          ByHand \in {s[i].locator, s[j].locator} \/ ~SameLocator(s[i].locator, s[j].locator)
  BY <1>4, <1>5 DEF PageOK
<1>9. PageOK(p, s)
  BY <1>4, <1>6, <1>7, <1>8 DEF PageOK
<1> QED
  BY <1>9 DEF s, e

-----------------------------------------------------------------------------
(* Files.                                                                   *)

LEMMA OverIsFiles ==
  ASSUME NEW new, NEW old, IsFiles(new), IsFiles(old)
  PROVE  IsFiles(Over(new, old)) /\ DOMAIN Over(new, old) = DOMAIN new \cup DOMAIN old
  BY DEF IsFiles, Over

(* generate.ts: which file is which.                                        *)
LEMMA GeneratedFiles ==
  ASSUME NEW ref, NEW m, NEW pages, NEW scaffold
  PROVE  LET g == Generate(ref, m, pages, NoFlows, scaffold) IN
         /\ SpecPath(m) \in DOMAIN g /\ g[SpecPath(m)] = RenderSpec(m, pages)
         /\ \A p \in DOMAIN pages : /\ PagePath(p) \in DOMAIN g
                                    /\ g[PagePath(p)] = RenderPageObject(p, pages[p])
         /\ m.params # {} => /\ EnvironmentPath \in DOMAIN g
                             /\ g[EnvironmentPath] = RenderEnvironmentFixture(m.params)
         /\ \A path \in DOMAIN g :
              \/ path = SpecPath(m)
              \/ \E p \in DOMAIN pages : path = PagePath(p)
              \/ path = EnvironmentPath /\ m.params # {}
              \/ g[path] = Inert
<1> DEFINE params == ParametersOf(m, NoFlows)
           paths == {SpecPath(m), ModelPath(ref)}
                      \cup {PagePath(p) : p \in DOMAIN pages}
                      \cup {FlowPath(f) : f \in DOMAIN NoFlows}
                      \cup (IF params = {} THEN {} ELSE {EnvironmentPath})
                      \cup (IF scaffold THEN Skeleton ELSE {})
           file(path) == CASE path = SpecPath(m)     -> RenderSpec(m, pages)
                           [] path[1] = "pages"      -> RenderPageObject(path[2], pages[path[2]])
                           [] path[1] = "flows"      -> RenderFlow(path[2], NoFlows[path[2]])
                           [] path = EnvironmentPath -> RenderEnvironmentFixture(params)
                           [] OTHER                  -> Inert
<1>1. DOMAIN NoFlows = {}
  BY DEF NoFlows
<1>2. params = m.params
  BY <1>1 DEF ParametersOf
<1>3. Generate(ref, m, pages, NoFlows, scaffold) = [path \in paths |-> file(path)]
  BY Zenon DEF Generate
<1>4. file(SpecPath(m)) = RenderSpec(m, pages)
  BY DEF SpecPath, EnvironmentPath
<1>5. ASSUME NEW p
      PROVE  file(PagePath(p)) = RenderPageObject(p, pages[p])
  BY DEF PagePath, SpecPath, EnvironmentPath
<1>6. file(EnvironmentPath) = RenderEnvironmentFixture(params)
  BY DEF PagePath, SpecPath, EnvironmentPath
<1>7. file(ModelPath(ref)) = Inert
  BY DEF ModelPath, SpecPath, EnvironmentPath
<1>8. ASSUME NEW path \in Skeleton
      PROVE  file(path) = Inert
  BY DEF Skeleton, SpecPath, EnvironmentPath
<1> HIDE DEF file
<1> QED
  BY <1>1, <1>2, <1>3, <1>4, <1>5, <1>6, <1>7, <1>8


IsFile(x) == DOMAIN x = {"uses", "declares", "faults"}

LEMMA RenderedFiles ==
  ASSUME NEW p, NEW names, NEW params
  PROVE  LET object == RenderPageObject(p, names)
             fixture == RenderEnvironmentFixture(params) IN
         /\ IsFile(object) /\ object.uses = {} /\ object.faults = {}
         /\ <<"class", p>> \in object.declares /\ <<"member", p, <<"goto">>>> \in object.declares
         /\ \A e \in names : <<"member", p, e>> \in object.declares
         /\ IsFile(fixture) /\ fixture.uses = {} /\ fixture.faults = {}
         /\ \A n \in params : <<"param", n>> \in fixture.declares
         /\ IsFile(Inert) /\ Inert.uses = {} /\ Inert.faults = {}
<1>1. /\ IsFile(Inert) /\ Inert.uses = {} /\ Inert.faults = {}
  BY DEF IsFile, Inert, File
<1>2. LET object == RenderPageObject(p, names) IN
      /\ IsFile(object) /\ object.uses = {} /\ object.faults = {}
      /\ object.declares = {<<"class", p>>, <<"member", p, <<"goto">>>>}
                             \cup {<<"member", p, e>> : e \in names}
  BY DEF IsFile, RenderPageObject, File
<1>3. LET fixture == RenderEnvironmentFixture(params) IN
      /\ IsFile(fixture) /\ fixture.uses = {} /\ fixture.faults = {}
      /\ fixture.declares = {<<"param", n>> : n \in params}
  BY DEF IsFile, RenderEnvironmentFixture, File
<1> QED
  BY <1>1, <1>2, <1>3

LEMMA SpecFile ==
  ASSUME NEW m, NEW pages
  PROVE  LET spec == RenderSpec(m, pages)
             bound == PagesUsedBy(m, pages) IN
         IsFile(spec) /\ spec.uses = Body(m, bound) /\ spec.faults = BodyFaults(m, bound)
  BY DEF IsFile, RenderSpec, File

LEMMA GeneratedIsFiles ==
  ASSUME NEW ref, NEW m, NEW pages, NEW scaffold
  PROVE  LET g == Generate(ref, m, pages, NoFlows, scaffold) IN
         /\ IsFiles(g)
         /\ \A path \in DOMAIN g : path # SpecPath(m) => g[path].uses = {} /\ g[path].faults = {}
<1> DEFINE g == Generate(ref, m, pages, NoFlows, scaffold)
           Plain(x) == IsFile(x) /\ x.uses = {} /\ x.faults = {}
<1>1. ASSUME NEW path \in DOMAIN g, path # SpecPath(m)
      PROVE  Plain(g[path])
  <2>1. ASSUME NEW p \in DOMAIN pages, path = PagePath(p)
        PROVE  Plain(g[path])
    <3>1. g[path] = RenderPageObject(p, pages[p])
      BY <2>1, GeneratedFiles
    <3>2. Plain(RenderPageObject(p, pages[p]))
      BY RenderedFiles
    <3> QED
      BY <3>1, <3>2
  <2>2. CASE path = EnvironmentPath /\ m.params # {}
    <3>1. g[path] = RenderEnvironmentFixture(m.params)
      BY <2>2, GeneratedFiles
    <3> QED
      BY <3>1, RenderedFiles
  <2>3. CASE g[path] = Inert
    BY <2>3, RenderedFiles
  <2>4. \/ \E p \in DOMAIN pages : path = PagePath(p)
        \/ path = EnvironmentPath /\ m.params # {}
        \/ g[path] = Inert
    BY <1>1, GeneratedFiles
  <2> QED
    BY <2>1, <2>2, <2>3, <2>4
<1>2. IsFile(g[SpecPath(m)])
  BY GeneratedFiles, SpecFile
<1>3. \A path \in DOMAIN g : IsFile(g[path])
  BY <1>1, <1>2
<1> QED
  BY <1>1, <1>3 DEF IsFiles, IsFile

(* A resolved target is on a page the generation was given, and an element  *)
(* of it.                                                                  *)
LEMMA NamedIsResolved ==
  ASSUME NEW m, NEW pages, UnresolvedIn(m, pages, NoFlows) = {},
         NEW s \in StepsOf(m), NEW t \in Named(s)
  PROVE  /\ t.page \in TargetPages(m) /\ t.page \in DOMAIN pages
         /\ t.on = "page" \/ t.element \in pages[t.page]
<1>1. t \in OnPages(s)
  BY DEF Named
<1>2. t \in Subjects(s) /\ t.on \in {"page", "element"}
  BY <1>1 DEF OnPages
<1>3. t \in {s.target, s.to}
  BY <1>2 DEF Subjects
<1>4. t.page \in TargetPages(m)
  BY <1>2, <1>3 DEF TargetPages
<1>5. t \notin Unresolved(s, pages)
  BY DEF UnresolvedIn
<1> QED
  BY <1>1, <1>2, <1>4, <1>5 DEF Unresolved

LEMMA GeneratedIsClosed ==
  ASSUME NEW ref, NEW m, NEW pages, NEW scaffold, UnresolvedIn(m, pages, NoFlows) = {},
         ~UsesFlow(Generate(ref, m, pages, NoFlows, scaffold))
  PROVE  IsClosed(Generate(ref, m, pages, NoFlows, scaffold))
<1> DEFINE g == Generate(ref, m, pages, NoFlows, scaffold)
           bound == PagesUsedBy(m, pages)
           spec == g[SpecPath(m)]
<1>1. /\ SpecPath(m) \in DOMAIN g
      /\ spec.uses = Body(m, bound) /\ spec.faults = BodyFaults(m, bound)
  BY GeneratedFiles, SpecFile
<1>2. ASSUME NEW p \in DOMAIN pages
      PROVE  /\ <<"class", p>> \in Declared(g) /\ <<"member", p, <<"goto">>>> \in Declared(g)
             /\ \A e \in pages[p] : <<"member", p, e>> \in Declared(g)
  <2>1. PagePath(p) \in DOMAIN g /\ g[PagePath(p)] = RenderPageObject(p, pages[p])
    BY GeneratedFiles
  <2> HIDE DEF g
  <2> QED
    BY <2>1, RenderedFiles DEF Declared
<1>3. ASSUME NEW n \in m.params
      PROVE  <<"param", n>> \in Declared(g)
  <2>1. EnvironmentPath \in DOMAIN g /\ g[EnvironmentPath] = RenderEnvironmentFixture(m.params)
    BY GeneratedFiles
  <2> HIDE DEF g
  <2> QED
    BY <2>1, RenderedFiles DEF Declared
<1>4. ASSUME NEW f \in FlowsUsedBy(m)
      PROVE  FALSE
  <2>1. <<"flow", f>> \in spec.uses
    BY <1>1 DEF Body
  <2> DEFINE u == <<"flow", f>>
  <2>2. u[1] = "flow"
    OBVIOUS
  <2> QED
    BY <1>1, <2>1, <2>2 DEF UsesFlow
<1>5. ASSUME NEW s \in StepsOf(m), NEW t \in Named(s)
      PROVE  Member(t) \in Declared(g)
  <2>1. t.page \in DOMAIN pages /\ (t.on = "page" \/ t.element \in pages[t.page])
    BY <1>5, NamedIsResolved
  <2> HIDE DEF g
  <2>2. CASE t.on = "page"
    BY <1>2, <2>1, <2>2 DEF Member
  <2>3. CASE t.on # "page"
    BY <1>2, <2>1, <2>3 DEF Member
  <2> QED
    BY <2>2, <2>3
<1>6. Body(m, bound) \subseteq Declared(g)
  <2>1. bound \subseteq DOMAIN pages
    BY DEF PagesUsedBy
  <2> HIDE DEF g, bound
  <2> QED
    BY <1>2, <1>3, <1>4, <1>5, <2>1 DEF Body
<1>7. "unbound page" \notin BodyFaults(m, bound)
  <2> DEFINE named == UNION {Named(s) : s \in StepsOf(m)}
  <2>1. {t.page : t \in named} \subseteq bound
    BY NamedIsResolved DEF PagesUsedBy
  <2> HIDE DEF bound
  <2> QED
    BY <2>1 DEF BodyFaults
<1>8. ASSUME NEW path \in DOMAIN g, path # SpecPath(m)
      PROVE  g[path].uses = {} /\ g[path].faults = {}
  BY <1>8, GeneratedIsFiles
<1> HIDE DEF g
<1>9. \A path \in DOMAIN g : /\ g[path].uses \subseteq Declared(g)
                             /\ "unbound page" \notin g[path].faults
  <2>1. ASSUME NEW path \in DOMAIN g
        PROVE  g[path].uses \subseteq Declared(g) /\ "unbound page" \notin g[path].faults
    <3>1. CASE path = SpecPath(m)
      BY <1>1, <1>6, <1>7, <3>1
    <3>2. CASE path # SpecPath(m)
      BY <1>8, <3>2
    <3> QED
      BY <3>1, <3>2
  <2> QED
    BY <2>1
<1>10. Dangling(g) = {}
  <2>1. UNION {g[path].uses : path \in DOMAIN g} \subseteq Declared(g)
    BY <1>9
  <2> QED
    BY <2>1 DEF Dangling
<1>11. IsClosed(g)
  BY <1>9, <1>10 DEF IsClosed
<1> QED
  BY <1>11 DEF g

(* handler.ts: `verified` is said of what was checked and not objected to.  *)
LEMMA VerdictIs ==
  ASSUME NEW files, NEW b \in BOOLEAN,
         LET v == VerifyProject(files, b) IN v.ok /\ ~v.skipped
  PROVE  b /\ ~TypeErrorsIn(files) /\ ~LintErrorsIn(files)
<1>1. CASE b = FALSE
  BY <1>1 DEF VerifyProject
<1>2. CASE b = TRUE
  BY <1>2 DEF VerifyProject
<1> QED
  BY <1>1, <1>2


-----------------------------------------------------------------------------
(* The invariant is inductive.                                              *)

LEMMA InitIsKept == ASSUME Init PROVE IInv
<1>1. SignIn \in Pages /\ <<>> \in Seq(ElementRecords)
  BY ProjectAssumption
<1>2. ObjectsOK
  BY DEF Init, ObjectsOK
<1>3. InspectorsOK
  BY <1>1 DEF Init, InspectorsOK, Idle
<1>4. IsFiles(NoFiles) /\ DOMAIN NoFiles = {}
  BY DEF IsFiles, NoFiles
<1>5. ProposalOK(NoProposal) /\ NoProposal.files = NoFiles /\ NoProposal.status = "none"
  <2>1. IsClosed(NoFiles)
    BY <1>4 DEF IsClosed, Dangling
  <2> QED
    BY <1>4, <2>1 DEF NoProposal, ProposalOK
<1>6. DOMAIN proposal = Cases /\ \A c \in Cases : proposal[c] = NoProposal
  BY DEF Init
<1>7. ProposalsOK
  BY <1>5, <1>6 DEF ProposalsOK
<1>8. WritersOK
  BY <1>5, <1>6 DEF Init, WritersOK
<1> QED
  BY <1>2, <1>3, <1>4, <1>7, <1>8 DEF Init, IInv

LEMMA InspectorsAre ==
  ASSUME InspectorsOK, NEW i \in Inspectors
  PROVE  /\ inspector[i].pc \in {"idle", "sent", "read"} /\ inspector[i].page \in Pages
         /\ inspector[i].prelude \in {"none", "replays", "fails"}
         /\ inspector[i].reached \in Pages /\ inspector[i].elements \in Seq(ElementRecords)
  BY DEF InspectorsOK

(* One inspection, replaced by a well-formed one.                           *)
InspectorRecords ==
  [pc : {"idle", "sent", "read"}, page : Pages, prelude : {"none", "replays", "fails"},
   reached : Pages, elements : Seq(ElementRecords)]

LEMMA InspectorSet ==
  ASSUME InspectorsOK, NEW i \in Inspectors, NEW r \in InspectorRecords,
         r.pc = "read" => PageOK(r.reached, r.elements),
         inspector' = [inspector EXCEPT ![i] = r]
  PROVE  InspectorsOK'
<1>1. \A k \in Inspectors : inspector'[k] = IF k = i THEN r ELSE inspector[k]
  BY DEF InspectorsOK
<1>2. inspector' \in [Inspectors -> InspectorRecords]
  BY DEF InspectorsOK, InspectorRecords
<1>3. ASSUME NEW k \in Inspectors, inspector'[k].pc = "read"
      PROVE  PageOK(inspector'[k].reached, inspector'[k].elements)
  <2>1. CASE k = i
    BY <1>1, <1>3, <2>1
  <2>2. CASE k # i
    BY <1>1, <1>3, <2>2 DEF InspectorsOK
  <2> QED
    BY <2>1, <2>2
<1> QED
  BY <1>2, <1>3 DEF InspectorsOK, InspectorRecords

LEMMA IdleIs == Idle \in InspectorRecords /\ Idle.pc = "idle"
<1>1. SignIn \in Pages /\ <<>> \in Seq(ElementRecords)
  BY ProjectAssumption
<1> QED
  BY <1>1 DEF Idle, InspectorRecords

(* What inspections leave alone.                                            *)
LEMMA InspectionKeepsTheRest ==
  ASSUME IInv, UNCHANGED <<engineTypes, model, repoVars>>, ObjectsOK', InspectorsOK'
  PROVE  IInv'
<1>1. ProposalsOK'
  BY DEF IInv, repoVars, ProposalsOK, ProposalOK, WasChecked
<1>2. WritersOK'
  BY DEF IInv, repoVars, WritersOK
<1> QED
  BY <1>1, <1>2 DEF IInv, repoVars

LEMMA InspectIsKept ==
  ASSUME IInv, NEW i \in Inspectors, NEW p \in Pages, NEW preludes, Inspect(i, p, preludes)
  PROVE  IInv'
<1> DEFINE prelude == IF preludes = {} THEN "none"
                      ELSE IF \A m \in preludes : Replays(m) THEN "replays" ELSE "fails"
           r == [Idle EXCEPT !.pc = "sent", !.page = p, !.prelude = prelude]
<1>1. inspector' = [inspector EXCEPT ![i] = r]
  BY DEF Inspect
<1>2. prelude \in {"none", "replays", "fails"}
  OBVIOUS
<1> HIDE DEF prelude
<1>3. r \in InspectorRecords /\ r.pc = "sent"
  BY <1>2, IdleIs DEF InspectorRecords
<1> HIDE DEF r
<1>4. InspectorsOK'
  BY <1>1, <1>3, InspectorSet DEF IInv
<1>5. ObjectsOK'
  BY DEF Inspect, IInv, ObjectsOK
<1> QED
  BY <1>4, <1>5, InspectionKeepsTheRest DEF Inspect

LEMMA GivesUpIsKept ==
  ASSUME IInv, NEW i \in Inspectors, GivesUp(i)
  PROVE  IInv'
<1>1. InspectorsOK'
  BY IdleIs, InspectorSet DEF IInv, GivesUp
<1>2. ObjectsOK'
  BY DEF GivesUp, IInv, ObjectsOK
<1> QED
  BY <1>1, <1>2, InspectionKeepsTheRest DEF GivesUp

LEMMA ReadPageIsKept ==
  ASSUME IInv, NEW i \in Inspectors, NEW signedIn \in BOOLEAN, NEW reached \in Pages,
         NEW shown \in 0 .. Len(Layout[reached]), ReadPage(i, signedIn, reached, shown)
  PROVE  IInv'
<1> DEFINE s == PlanElements(SubSeq(Layout[reached], 1, shown)).elements
           r == [inspector[i] EXCEPT !.pc = "read", !.reached = reached, !.elements = s]
<1>1. PageOK(reached, s)
  BY ReadingIsOK
<1>2. inspector \in [Inspectors -> InspectorRecords] /\ inspector[i] \in InspectorRecords
  BY DEF IInv, InspectorsOK, InspectorRecords
<1>3. inspector' = [inspector EXCEPT ![i].pc = "read", ![i].reached = reached, ![i].elements = s]
  BY DEF ReadPage
<1> HIDE DEF s
<1>4. s \in Seq(ElementRecords)
  BY <1>1 DEF PageOK
<1>5. inspector' = [inspector EXCEPT ![i] = r]
  BY <1>2, <1>3
<1>6. r \in InspectorRecords /\ r.reached = reached /\ r.elements = s
  BY <1>2, <1>4 DEF InspectorRecords
<1> HIDE DEF r
<1>7. InspectorsOK'
  BY <1>1, <1>5, <1>6, InspectorSet DEF IInv
<1>8. ObjectsOK'
  BY DEF ReadPage, IInv, ObjectsOK
<1> QED
  BY <1>7, <1>8, InspectionKeepsTheRest DEF ReadPage

LEMMA StorePageIsKept ==
  ASSUME IInv, NEW i \in Inspectors, StorePage(i)
  PROVE  IInv'
<1> DEFINE p == inspector[i].page
           s == inspector[i].elements
<1>1. p \in Pages /\ PageOK(p, s)
  BY InspectorsAre DEF StorePage, Redirected, IInv, InspectorsOK
<1>2. DOMAIN pageObjects' = Pages /\ \A q \in Pages : pageObjects'[q] = IF q = p THEN {s} ELSE pageObjects[q]
  BY <1>1 DEF StorePage, IInv, ObjectsOK
<1> HIDE DEF p, s
<1>3. ObjectsOK'
  <2>1. ASSUME NEW q \in Pages
        PROVE  pageObjects'[q] = {} \/
                 \E o \in pageObjects'[q] : pageObjects'[q] = {o} /\ PageOK(q, o)
    <3>1. CASE q = p
      BY <1>1, <1>2, <3>1
    <3>2. CASE q # p
      BY <1>2, <3>2 DEF IInv, ObjectsOK
    <3> QED
      BY <3>1, <3>2
  <2> QED
    BY <1>2, <2>1 DEF ObjectsOK
<1>4. InspectorsOK'
  BY IdleIs, InspectorSet DEF IInv, StorePage
<1> QED
  BY <1>3, <1>4, InspectionKeepsTheRest DEF StorePage

LEMMA CorrectElementIsKept ==
  ASSUME IInv, NEW p \in Pages, NEW k, CorrectElement(p, k)
  PROVE  IInv'
<1>1. PICK o \in pageObjects[p] :
        /\ k \in DOMAIN o
        /\ pageObjects' = [pageObjects EXCEPT ![p] = {[o EXCEPT ![k].locator = ByHand]}]
  BY DEF CorrectElement
<1> DEFINE s == [o EXCEPT ![k].locator = ByHand]
<1>2. PageOK(p, o)
  BY DEF IInv, ObjectsOK
<1>3. PageOK(p, s)
  BY <1>1, <1>2, CorrectedIsOK
<1>4. DOMAIN pageObjects' = Pages /\ \A q \in Pages : pageObjects'[q] = IF q = p THEN {s} ELSE pageObjects[q]
  BY <1>1 DEF IInv, ObjectsOK
<1> HIDE DEF s
<1>5. ObjectsOK'
  <2>1. ASSUME NEW q \in Pages
        PROVE  pageObjects'[q] = {} \/
                 \E x \in pageObjects'[q] : pageObjects'[q] = {x} /\ PageOK(q, x)
    <3>1. CASE q = p
      BY <1>3, <1>4, <3>1
    <3>2. CASE q # p
      BY <1>4, <3>2 DEF IInv, ObjectsOK
    <3> QED
      BY <3>1, <3>2
  <2> QED
    BY <1>4, <2>1 DEF ObjectsOK
<1>6. InspectorsOK'
  BY DEF CorrectElement, IInv, InspectorsOK
<1> QED
  BY <1>5, <1>6, InspectionKeepsTheRest DEF CorrectElement


LEMMA ReviseModelIsKept ==
  ASSUME IInv, NEW c \in Cases, NEW m \in Models, ReviseModel(c, m)
  PROVE  IInv'
<1>1. model' \in [Cases -> Models]
  BY DEF ReviseModel, IInv
<1>2. ObjectsOK' /\ InspectorsOK'
  BY DEF ReviseModel, pageVars, IInv, ObjectsOK, InspectorsOK
<1>3. ProposalsOK' /\ WritersOK'
  BY DEF ReviseModel, repoVars, IInv, ProposalsOK, ProposalOK, WasChecked, WritersOK
<1> QED
  BY <1>1, <1>2, <1>3 DEF ReviseModel, repoVars, IInv

(* What proposals and writes leave alone.                                   *)
LEMMA ProjectKeepsThePages ==
  ASSUME IInv, UNCHANGED <<engineTypes, model, pageVars>>, ProposalsOK', WritersOK',
         IsFiles(worktree)', IsFiles(head)'
  PROVE  IInv'
<1>1. ObjectsOK' /\ InspectorsOK'
  BY DEF pageVars, IInv, ObjectsOK, InspectorsOK
<1> QED
  BY <1>1 DEF IInv

(* One proposal, replaced by a well-formed one.                             *)
LEMMA ProposalSet ==
  ASSUME IInv, UNCHANGED engineTypes, NEW c \in Cases, NEW r, ProposalOK(r),
         proposal' = [proposal EXCEPT ![c] = r]
  PROVE  /\ ProposalsOK'
         /\ proposal'[c] = r /\ \A d \in Cases \ {c} : proposal'[d] = proposal[d]
<1>1. /\ DOMAIN proposal' = Cases /\ proposal'[c] = r
      /\ \A d \in Cases \ {c} : proposal'[d] = proposal[d]
  BY DEF IInv, ProposalsOK
<1>2. \A d \in Cases : ProposalOK(proposal'[d])
  BY <1>1 DEF IInv, ProposalsOK
<1>3. \A d \in Cases : ProposalOK(proposal[d])'
  BY <1>2 DEF ProposalOK, WasChecked
<1> QED
  BY <1>1, <1>3 DEF ProposalsOK

LEMMA GenerateProposalIsKept ==
  ASSUME IInv, NEW c \in Cases, GenerateProposal(c)
  PROVE  IInv'
<1> DEFINE m          == model[c]
           pages      == ForGeneration(m)
           files      == Generate(c, m, pages, NoFlows, NeedsScaffold)
           unresolved == UnresolvedIn(m, pages, NoFlows)
           verdict    == VerifyProject(files, engineTypes)
           skipped    == unresolved # {} \/ verdict.skipped
           r == [number |-> proposal[c].number + 1, status |-> "proposed", files |-> files,
                 unresolved |-> unresolved, verified |-> ~skipped]
<1>1. /\ unresolved = {} => verdict.ok
      /\ proposal[c].status # "applying"
      /\ proposal' = [proposal EXCEPT ![c] = r]
      /\ UNCHANGED <<engineTypes, model, pageVars, writer, worktree, head>>
  BY DEF GenerateProposal
<1>2. IsFiles(files)
  BY GeneratedIsFiles
<1>3. unresolved = {} /\ ~UsesFlow(files) => IsClosed(files)
  BY GeneratedIsClosed
<1>4. ~skipped => WasChecked(files)
  <2>1. engineTypes \in BOOLEAN
    BY DEF IInv
  <2>2. ASSUME ~skipped
        PROVE  verdict.ok /\ ~verdict.skipped
    BY <1>1, <2>2
  <2> HIDE DEF files
  <2> QED
    BY <2>1, <2>2, VerdictIs DEF WasChecked
<1> HIDE DEF files, unresolved, verdict
<1>5. /\ DOMAIN r = {"number", "status", "files", "unresolved", "verified"}
      /\ r.status = "proposed" /\ r.files = files /\ r.unresolved = unresolved
  OBVIOUS
<1>6. r.verified => ~skipped
  OBVIOUS
<1> HIDE DEF r, skipped
<1>7. ProposalOK(r)
  BY <1>2, <1>3, <1>4, <1>5, <1>6 DEF ProposalOK
<1>8. /\ ProposalsOK' /\ proposal'[c] = r
      /\ \A d \in Cases \ {c} : proposal'[d] = proposal[d]
  BY <1>1, <1>7, ProposalSet
<1>9. WritersOK'
  <2>1. writer[c] = {}
    BY <1>1 DEF IInv, WritersOK
  <2>2. ASSUME NEW d \in Cases
        PROVE  /\ writer[d] \subseteq DOMAIN proposal'[d].files
               /\ writer[d] # {} => proposal'[d].status = "applying"
               /\ proposal'[d].status = "applying" =>
                    DOMAIN proposal'[d].files \ writer[d] \subseteq DOMAIN worktree
    <3>1. CASE d = c
      BY <1>5, <1>8, <2>1, <3>1
    <3>2. CASE d # c
      BY <1>8, <3>2 DEF IInv, WritersOK
    <3> QED
      BY <3>1, <3>2
  <2> QED
    BY <1>1, <2>2 DEF IInv, WritersOK
<1> QED
  BY <1>1, <1>8, <1>9, ProjectKeepsThePages DEF IInv

(* A proposal whose status alone changes.                                   *)
LEMMA StatusSet ==
  ASSUME IInv, UNCHANGED engineTypes, NEW c \in Cases, NEW status,
         status \in {"none", "proposed", "applying", "applied"},
         proposal' = [proposal EXCEPT ![c].status = status]
  PROVE  /\ ProposalsOK'
         /\ proposal'[c].status = status /\ proposal'[c].files = proposal[c].files
         /\ \A d \in Cases \ {c} : proposal'[d] = proposal[d]
<1> DEFINE r == [proposal[c] EXCEPT !.status = status]
<1>1. ProposalOK(proposal[c])
  BY DEF IInv, ProposalsOK
<1>2. proposal' = [proposal EXCEPT ![c] = r]
  BY DEF IInv, ProposalsOK
<1>3. /\ DOMAIN r = {"number", "status", "files", "unresolved", "verified"}
      /\ r.status = status /\ r.files = proposal[c].files
      /\ r.unresolved = proposal[c].unresolved /\ r.verified = proposal[c].verified
  BY <1>1 DEF ProposalOK
<1> HIDE DEF r
<1>4. ProposalOK(r)
  BY <1>1, <1>3 DEF ProposalOK
<1> QED
  BY <1>2, <1>3, <1>4, ProposalSet

LEMMA ApplyIsKept ==
  ASSUME IInv, NEW c \in Cases, Apply(c)
  PROVE  IInv'
<1>1. /\ ProposalsOK'
      /\ proposal'[c].status = "applying" /\ proposal'[c].files = proposal[c].files
      /\ \A d \in Cases \ {c} : proposal'[d] = proposal[d]
  BY StatusSet DEF Apply
<1>2. /\ DOMAIN writer' = Cases /\ writer'[c] = DOMAIN proposal[c].files
      /\ \A d \in Cases \ {c} : writer'[d] = writer[d]
  BY DEF Apply, IInv, WritersOK
<1>3. worktree' = worktree
  BY DEF Apply
<1>4. WritersOK'
  <2>1. ASSUME NEW d \in Cases
        PROVE  /\ writer'[d] \subseteq DOMAIN proposal'[d].files
               /\ writer'[d] # {} => proposal'[d].status = "applying"
               /\ proposal'[d].status = "applying" =>
                    DOMAIN proposal'[d].files \ writer'[d] \subseteq DOMAIN worktree'
    <3>1. CASE d = c
      BY <1>1, <1>2, <3>1
    <3>2. CASE d # c
      BY <1>1, <1>2, <1>3, <3>2 DEF IInv, WritersOK
    <3> QED
      BY <3>1, <3>2
  <2> QED
    BY <1>2, <2>1 DEF WritersOK
<1> QED
  BY <1>1, <1>4, ProjectKeepsThePages DEF Apply, IInv

LEMMA WriteFileIsKept ==
  ASSUME IInv, NEW c \in Cases, WriteFile(c)
  PROVE  IInv'
<1> DEFINE path == CHOOSE p \in writer[c] : TRUE
           one == [p \in {path} |-> proposal[c].files[p]]
<1>1. /\ writer[c] # {} /\ worktree' = Over(one, worktree)
      /\ writer' = [writer EXCEPT ![c] = @ \ {path}]
      /\ UNCHANGED <<engineTypes, model, pageVars, proposal, head>>
  BY DEF WriteFile
<1>2. path \in writer[c]
  BY <1>1
<1> HIDE DEF path
<1>3. path \in DOMAIN proposal[c].files /\ IsFiles(proposal[c].files)
  BY <1>2 DEF IInv, WritersOK, ProposalsOK, ProposalOK
<1>4. IsFiles(one) /\ DOMAIN one = {path}
  BY <1>3 DEF IsFiles
<1> HIDE DEF one
<1>5. IsFiles(worktree') /\ DOMAIN worktree' = DOMAIN worktree \cup {path}
  <2>1. IsFiles(worktree)
    BY DEF IInv
  <2>2. IsFiles(Over(one, worktree)) /\ DOMAIN Over(one, worktree) = {path} \cup DOMAIN worktree
    BY <1>4, <2>1, OverIsFiles
  <2>3. {path} \cup DOMAIN worktree = DOMAIN worktree \cup {path}
    OBVIOUS
  <2> QED
    BY <1>1, <2>2, <2>3
<1>6. /\ DOMAIN writer' = Cases /\ writer'[c] = writer[c] \ {path}
      /\ \A d \in Cases \ {c} : writer'[d] = writer[d]
  BY <1>1 DEF IInv, WritersOK
<1>7. WritersOK'
  <2>1. ASSUME NEW d \in Cases
        PROVE  /\ writer'[d] \subseteq DOMAIN proposal[d].files
               /\ writer'[d] # {} => proposal[d].status = "applying"
               /\ proposal[d].status = "applying" =>
                    DOMAIN proposal[d].files \ writer'[d] \subseteq DOMAIN worktree'
    <3>1. CASE d = c
      BY <1>5, <1>6, <3>1 DEF IInv, WritersOK
    <3>2. CASE d # c
      BY <1>5, <1>6, <3>2 DEF IInv, WritersOK
    <3> QED
      BY <3>1, <3>2
  <2> QED
    BY <1>1, <1>6, <2>1 DEF WritersOK
<1>8. ProposalsOK'
  BY <1>1 DEF IInv, ProposalsOK, ProposalOK, WasChecked
<1> QED
  BY <1>1, <1>5, <1>7, <1>8, ProjectKeepsThePages DEF IInv

LEMMA CommitIsKept ==
  ASSUME IInv, NEW c \in Cases, Commit(c)
  PROVE  IInv'
<1> DEFINE committed == [path \in DOMAIN proposal[c].files |-> worktree[path]]
<1>1. DOMAIN proposal[c].files \subseteq DOMAIN worktree
  BY DEF Commit, IInv, WritersOK
<1>2. IsFiles(committed)
  BY <1>1 DEF IInv, IsFiles
<1>3. head' = Over(committed, head)
  BY DEF Commit
<1> HIDE DEF committed
<1>4. IsFiles(head')
  BY <1>2, <1>3, OverIsFiles DEF IInv
<1>5. /\ ProposalsOK'
      /\ proposal'[c].status = "applied" /\ proposal'[c].files = proposal[c].files
      /\ \A d \in Cases \ {c} : proposal'[d] = proposal[d]
  BY StatusSet DEF Commit
<1>6. WritersOK'
  <2>1. ASSUME NEW d \in Cases
        PROVE  /\ writer[d] \subseteq DOMAIN proposal'[d].files
               /\ writer[d] # {} => proposal'[d].status = "applying"
               /\ proposal'[d].status = "applying" =>
                    DOMAIN proposal'[d].files \ writer[d] \subseteq DOMAIN worktree
    <3>1. CASE d = c
      BY <1>5, <3>1 DEF Commit, IInv, WritersOK
    <3>2. CASE d # c
      BY <1>5, <3>2 DEF IInv, WritersOK
    <3> QED
      BY <3>1, <3>2
  <2> QED
    BY <2>1 DEF Commit, IInv, WritersOK
<1> QED
  BY <1>4, <1>5, <1>6, ProjectKeepsThePages DEF Commit, IInv

LEMMA NextIsKept == ASSUME IInv, [Next]_vars PROVE IInv'
<1>1. CASE InspectionNext
  <2>1. ASSUME NEW i \in Inspectors, NEW p \in Pages, NEW c \in Cases,
               Inspect(i, p, {}) \/ Inspect(i, p, {model[c]})
        PROVE  IInv'
    BY <2>1, InspectIsKept
  <2>2. ASSUME NEW i \in Inspectors, InspectionFails(i) \/ RefuseRedirect(i)
        PROVE  IInv'
    BY <2>2, GivesUpIsKept DEF InspectionFails, RefuseRedirect
  <2>3. ASSUME NEW i \in Inspectors, NEW signedIn \in BOOLEAN, NEW reached \in Pages,
               NEW shown \in 0 .. Len(Layout[reached]), ReadPage(i, signedIn, reached, shown)
        PROVE  IInv'
    BY <2>3, ReadPageIsKept
  <2>4. ASSUME NEW i \in Inspectors, StorePage(i)
        PROVE  IInv'
    BY <2>4, StorePageIsKept
  <2>5. ASSUME NEW p \in Pages, NEW k \in 1 .. Len(Layout[p]), CorrectElement(p, k)
        PROVE  IInv'
    BY <2>5, CorrectElementIsKept
  <2> QED
    BY <1>1, <2>1, <2>2, <2>3, <2>4, <2>5 DEF InspectionNext
<1>2. CASE ProjectNext
  <2>1. ASSUME NEW c \in Cases, NEW m \in Models, ReviseModel(c, m)
        PROVE  IInv'
    BY <2>1, ReviseModelIsKept
  <2>2. ASSUME NEW c \in Cases, GenerateProposal(c)
        PROVE  IInv'
    BY <2>2, GenerateProposalIsKept
  <2>3. ASSUME NEW c \in Cases, Apply(c)
        PROVE  IInv'
    BY <2>3, ApplyIsKept
  <2>4. ASSUME NEW c \in Cases, WriteFile(c)
        PROVE  IInv'
    BY <2>4, WriteFileIsKept
  <2>5. ASSUME NEW c \in Cases, Commit(c)
        PROVE  IInv'
    BY <2>5, CommitIsKept
  <2> QED
    BY <1>2, <2>1, <2>2, <2>3, <2>4, <2>5 DEF ProjectNext
<1>3. CASE UNCHANGED vars
  <2>1. ObjectsOK' /\ InspectorsOK'
    BY <1>3 DEF vars, IInv, ObjectsOK, InspectorsOK
  <2> QED
    BY <1>3, <2>1, InspectionKeepsTheRest DEF vars, repoVars
<1> QED
  BY <1>1, <1>2, <1>3 DEF Next


-----------------------------------------------------------------------------
(* What follows.                                                            *)

LEMMA TypesAreKept == ASSUME IInv PROVE TypeOK
<1>1. ASSUME NEW p \in Pages
      PROVE  Cardinality(pageObjects[p]) <= 1
  <2>1. CASE pageObjects[p] = {}
    BY <2>1, FS_EmptySet
  <2>2. CASE \E s : pageObjects[p] = {s}
    <3>1. Cardinality(pageObjects[p]) = 1
      BY <2>2, FS_Singleton
    <3> QED
      BY <3>1
  <2> QED
    BY <2>1, <2>2 DEF IInv, ObjectsOK
<1>2. ASSUME NEW p \in Pages, NEW e \in Elements(p)
      PROVE  /\ DOMAIN e = {"name", "locator", "fallback"}
             /\ e.locator.strategy \in Strategies /\ e.locator.score \in 1 .. 1000
             /\ Cardinality(e.fallback) <= 1
             /\ \A f \in e.fallback : e.locator = ByHand \/ f.score <= e.locator.score
  <2>1. PICK s \in pageObjects[p] : PageOK(p, s) /\ \E i \in DOMAIN s : e = s[i]
    BY DEF Elements, IInv, ObjectsOK
  <2>2. s \in Seq(ElementRecords)
    BY <2>1 DEF PageOK
  <2>3. e \in ElementRecords /\ e.locator \in Locator
    BY <2>1, <2>2, ElementsAre
  <2>4. Cardinality(e.fallback) <= 1
    <3>1. CASE e.fallback = {}
      BY <3>1, FS_EmptySet
    <3>2. CASE \E f : e.fallback = {f}
      <4>1. Cardinality(e.fallback) = 1
        BY <3>2, FS_Singleton
      <4> QED
        BY <4>1
    <3> QED
      BY <2>1, <3>1, <3>2 DEF PageOK
  <2>5. \A f \in e.fallback : e.locator = ByHand \/ f.score <= e.locator.score
    BY <2>1 DEF PageOK
  <2> QED
    BY <2>3, <2>4, <2>5 DEF ElementRecords, Locator
<1>3. \A i \in Inspectors :
        inspector[i].pc \in {"idle", "sent", "read"} /\ inspector[i].reached \in Pages
  BY InspectorsAre DEF IInv
<1>4. \A c \in Cases :
        /\ proposal[c].status \in {"none", "proposed", "applying", "applied"}
        /\ IsFiles(proposal[c].files)
        /\ writer[c] \subseteq DOMAIN proposal[c].files
  BY DEF IInv, ProposalsOK, ProposalOK, WritersOK
<1> QED
  BY <1>1, <1>2, <1>3, <1>4 DEF IInv, TypeOK

LEMMA PagesAreKept == ASSUME IInv PROVE StoredPageIsItsOwn
<1> SUFFICES ASSUME NEW p \in Pages, NEW e \in Elements(p)
             PROVE  e.locator = ByHand \/
                      \E n \in DOMAIN Layout[p] :
                        Layout[p][n].at[e.locator.strategy] = e.locator.value
  BY DEF StoredPageIsItsOwn
<1>1. PICK s \in pageObjects[p] : PageOK(p, s) /\ \E i \in DOMAIN s : e = s[i]
  BY DEF Elements, IInv, ObjectsOK
<1> QED
  BY <1>1 DEF PageOK

LEMMA ElementsAreKept == ASSUME IInv, LabelsAreNames PROVE ElementsAreToldApart
<1> SUFFICES ASSUME NEW p \in Pages, NEW o \in pageObjects[p],
                    NEW i \in DOMAIN o, NEW k \in DOMAIN o, i # k
             PROVE  /\ o[i].name # o[k].name
                    /\ \/ ByHand \in {o[i].locator, o[k].locator}
                       \/ <<o[i].locator.strategy, o[i].locator.value>>
                            # <<o[k].locator.strategy, o[k].locator.value>>
  BY DEF ElementsAreToldApart
<1>1. PageOK(p, o)
  BY DEF IInv, ObjectsOK
<1> QED
  BY <1>1 DEF PageOK, NamesDiffer, SameLocator

-----------------------------------------------------------------------------
(* The theorems.                                                            *)

(* The inductive invariant: what each page object, inspection and proposal  *)
(* is made of, and how far each apply has got.                             *)
THEOREM ProjectIsKept == Spec => []IInv
<1>1. Init => IInv
  BY InitIsKept
<1>2. IInv /\ [Next]_vars => IInv'
  BY NextIsKept
<1> QED
  BY <1>1, <1>2, PTL DEF Spec

(* Every page object, reading, proposal and file is what the services write *)
(* it as, whatever the pages hold.                                         *)
THEOREM TypesHold == Spec => []TypeOK
<1>1. IInv => TypeOK
  BY TypesAreKept
<1> QED
  BY <1>1, ProjectIsKept, PTL

(* A page object never holds an element of another page, wherever the       *)
(* application sends its visitors and however inspections overlap.          *)
THEOREM PagesHoldTheirOwn == Spec => []StoredPageIsItsOwn
<1>1. IInv => StoredPageIsItsOwn
  BY PagesAreKept
<1> QED
  BY <1>1, ProjectIsKept, PTL

(* No two elements of a page have one name or one locator, where every      *)
(* label is the accessible name of its field.                              *)
THEOREM ElementsStayApart ==
  ASSUME LabelsAreNames
  PROVE  Spec => []ElementsAreToldApart
<1>1. IInv => ElementsAreToldApart
  BY ElementsAreKept
<1> QED
  BY <1>1, ProjectIsKept, PTL

(* A proposal with nothing unresolved is closed under what it refers to,    *)
(* whatever the model asks for and the pages have.                         *)
THEOREM ProposalsAreClosed == Spec => []ProposalIsClosed
<1>1. IInv => ProposalIsClosed
  BY DEF IInv, ProposalsOK, ProposalOK, IsClosed, ProposalIsClosed
<1> QED
  BY <1>1, ProjectIsKept, PTL

(* What is proposed as verified was type-checked and linted as a whole.     *)
THEOREM VerifiedIsChecked == Spec => []VerifiedMeansChecked
<1>1. IInv => VerifiedMeansChecked
  BY DEF IInv, ProposalsOK, ProposalOK, WasChecked, VerifiedMeansChecked
<1> QED
  BY <1>1, ProjectIsKept, PTL

=============================================================================
