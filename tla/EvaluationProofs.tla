-------------------------- MODULE EvaluationProofs --------------------------
(***************************************************************************)
(* Proofs about Evaluation: types, the counts of the report, and that the  *)
(* sweep agrees with the searches, the retrieval statistics and the        *)
(* answers.  Whatever a recursive function computes is shown by a least    *)
(* counterexample (NatMin).  Of the anonymizer's patterns nothing is used  *)
(* but that a match is replaced by a tag.                                  *)
(***************************************************************************)
EXTENDS Evaluation, SequenceTheorems, FiniteSetTheorems, WellFoundedInduction, TLAPS

-----------------------------------------------------------------------------
(* Selections                                                              *)

LEMMA NatMin ==
  ASSUME NEW S, S \subseteq Nat, S # {}
  PROVE  \E m \in S : \A k \in S : m <= k
<1> DEFINE R == {ss \in Nat \X Nat : ss[1] < ss[2]}
<1>1. IsWellFoundedOn(R, Nat)
  BY NatLessThanWellFounded DEF OpToRel
<1> HIDE DEF R
<1>2. PICK m \in S : \A k \in S : ~(<<k, m>> \in R)
  BY <1>1, WFMin
<1>3. \A k \in S : ~(k < m)
  BY <1>2 DEF R
<1> QED BY <1>3

(* A function whose values up to m obey the recursion of Selected.          *)
Selects(u, s, S, m) ==
  u = [i \in 0 .. m |->
         IF i = 0 THEN <<>>
         ELSE IF s[i] \in S THEN Append(u[i - 1], s[i]) ELSE u[i - 1]]

LEMMA SelectsExists ==
  ASSUME NEW s, NEW S, NEW l \in Nat
  PROVE  \E u : Selects(u, s, S, l)
<1> DEFINE B == {m \in Nat : ~ \E u : Selects(u, s, S, m)}
<1> SUFFICES ASSUME B # {} PROVE FALSE
  OBVIOUS
<1>1. PICK m \in B : \A k \in B : m <= k
  BY NatMin
<1>2. m \in Nat /\ ~ \E u : Selects(u, s, S, m)
  OBVIOUS
<1>3. m # 0
  <2> DEFINE u == [i \in 0 .. 0 |-> <<>>]
  <2>1. Selects(u, s, S, 0)
    BY DEF Selects
  <2> QED BY <1>2, <2>1
<1>4. PICK v : Selects(v, s, S, m - 1)
  <2>1. m - 1 \in Nat /\ m - 1 \notin B
    BY <1>1, <1>2, <1>3
  <2> QED BY <2>1
<1> DEFINE last == IF s[m] \in S THEN Append(v[m - 1], s[m]) ELSE v[m - 1]
           w == [i \in 0 .. m |-> IF i = m THEN last ELSE v[i]]
<1>5. \A i \in 0 .. m : w[i] = IF i = 0 THEN <<>>
                               ELSE IF s[i] \in S THEN Append(w[i - 1], s[i]) ELSE w[i - 1]
  <2> TAKE i \in 0 .. m
  <2>0. \A k \in 0 .. m - 1 : v[k] = IF k = 0 THEN <<>>
                                     ELSE IF s[k] \in S THEN Append(v[k - 1], s[k]) ELSE v[k - 1]
    BY <1>4 DEF Selects
  <2>1. CASE i = m
    <3>1. i - 1 \in 0 .. m /\ i - 1 # m /\ i \in 0 .. m
      BY <1>2, <1>3, <2>1
    <3>2. w[i - 1] = v[i - 1] /\ w[i] = last
      BY <2>1, <3>1
    <3> QED BY <1>3, <2>1, <3>2
  <2>2. CASE i # m
    <3>1. i \in 0 .. m - 1 /\ w[i] = v[i]
      BY <1>2, <2>2
    <3>2. i # 0 => w[i - 1] = v[i - 1]
      <4>1. i # 0 => i - 1 \in 0 .. m /\ i - 1 # m
        BY <1>2, <3>1
      <4> QED BY <4>1
    <3> QED BY <2>0, <3>1, <3>2
  <2> QED BY <2>1, <2>2
<1>6. DOMAIN w = 0 .. m /\ w = [i \in DOMAIN w |-> w[i]]
  OBVIOUS
<1> HIDE DEF w
<1>7. Selects(w, s, S, m)
  BY <1>5, <1>6 DEF Selects
<1> QED BY <1>2, <1>7

(* What is selected are the elements of the set, all of them.               *)
LEMMA SelectedParts ==
  ASSUME NEW X, NEW s \in Seq(X), NEW S
  PROVE  /\ Selected(s, S) \in Seq(X)
         /\ \A x : x \in Range(Selected(s, S)) <=> x \in Range(s) /\ x \in S
<1> DEFINE u == CHOOSE v : Selects(v, s, S, Len(s))
           Good(i) == /\ u[i] \in Seq(X)
                      /\ \A x : x \in Range(u[i]) <=> \E k \in 1 .. i : s[k] = x /\ x \in S
           B == {i \in 0 .. Len(s) : ~ Good(i)}
<1>1. Len(s) \in Nat /\ DOMAIN s = 1 .. Len(s)
  BY LenProperties
<1>2. Selects(u, s, S, Len(s))
  BY <1>1, SelectsExists
<1>3. Selected(s, S) = u[Len(s)]
  BY DEF Selected, Selects
<1> HIDE DEF u
<1>4. \A i \in 0 .. Len(s) : u[i] = IF i = 0 THEN <<>>
                                    ELSE IF s[i] \in S THEN Append(u[i - 1], s[i]) ELSE u[i - 1]
  BY <1>2 DEF Selects
<1>5. Good(0)
  <2>1. u[0] = <<>> /\ <<>> \in Seq(X)
    BY <1>1, <1>4
  <2>2. \A x : x \notin Range(<<>>)
    BY DEF Range
  <2>3. 1 .. 0 = {}
    OBVIOUS
  <2> QED BY <2>1, <2>2, <2>3
<1>6. ASSUME NEW i \in 1 .. Len(s), Good(i - 1) PROVE Good(i)
  <2>1. s[i] \in X /\ i \in 0 .. Len(s) /\ i # 0 /\ u[i - 1] \in Seq(X)
    BY <1>1, <1>6, ElementOfSeq
  <2>2. \A x : (\E k \in 1 .. i : s[k] = x) <=> (\E k \in 1 .. i - 1 : s[k] = x) \/ s[i] = x
    <3>1. \A k : k \in 1 .. i <=> k \in 1 .. i - 1 \/ k = i
      BY <1>1, <1>6
    <3> QED BY <3>1
  <2>3. CASE s[i] \in S
    <3>1. u[i] = Append(u[i - 1], s[i])
      BY <1>4, <2>1, <2>3
    <3>2. /\ u[i] \in Seq(X) /\ Len(u[i]) = Len(u[i - 1]) + 1
          /\ \A k \in 1 .. Len(u[i - 1]) : u[i][k] = u[i - 1][k]
          /\ u[i][Len(u[i - 1]) + 1] = s[i]
      BY <2>1, <3>1, AppendProperties
    <3>3. /\ DOMAIN u[i] = 1 .. Len(u[i - 1]) + 1 /\ DOMAIN u[i - 1] = 1 .. Len(u[i - 1])
          /\ Len(u[i - 1]) \in Nat
      BY <2>1, <3>2, LenProperties
    <3>4. \A k : k \in 1 .. Len(u[i - 1]) + 1 <=> k \in 1 .. Len(u[i - 1]) \/ k = Len(u[i - 1]) + 1
      BY <3>3
    <3>5. \A x : x \in Range(u[i]) <=> x \in Range(u[i - 1]) \/ x = s[i]
      BY <3>2, <3>3, <3>4 DEF Range
    <3>6. \A x : x \in Range(u[i - 1]) <=> \E k \in 1 .. i - 1 : s[k] = x /\ x \in S
      BY <1>6
    <3>7. \A x : x \in Range(u[i]) <=> \E k \in 1 .. i : s[k] = x /\ x \in S
      BY <2>2, <2>3, <3>5, <3>6
    <3> QED BY <3>2, <3>7
  <2>4. CASE s[i] \notin S
    <3>1. u[i] = u[i - 1]
      BY <1>4, <2>1, <2>4
    <3>2. \A x : x \in Range(u[i - 1]) <=> \E k \in 1 .. i - 1 : s[k] = x /\ x \in S
      BY <1>6
    <3>3. \A x : x \in Range(u[i]) <=> \E k \in 1 .. i : s[k] = x /\ x \in S
      BY <2>2, <2>4, <3>1, <3>2
    <3> QED BY <2>1, <3>1, <3>3
  <2> QED BY <2>3, <2>4
<1>7. B = {}
  <2> SUFFICES ASSUME B # {} PROVE FALSE
    OBVIOUS
  <2>0. B \subseteq Nat
    BY <1>1
  <2>1. PICK m \in B : \A k \in B : m <= k
    BY <2>0, NatMin
  <2>2. m \in 0 .. Len(s) /\ ~Good(m)
    OBVIOUS
  <2> HIDE DEF Good
  <2>3. m # 0
    BY <1>5, <2>2
  <2>4. m \in 1 .. Len(s) /\ m - 1 \in 0 .. Len(s) /\ ~(m <= m - 1)
    BY <1>1, <2>2, <2>3
  <2>5. Good(m - 1)
    BY <2>1, <2>4
  <2> QED BY <1>6, <2>2, <2>4, <2>5
<1>8. Good(Len(s))
  <2> HIDE DEF Good
  <2> QED BY <1>1, <1>7
<1> QED BY <1>1, <1>3, <1>8 DEF Range

(* Nothing is selected from a sequence that has no element of the set.      *)
LEMMA SelectedNone ==
  ASSUME NEW X, NEW s \in Seq(X), NEW S
  PROVE  Selected(s, S) = <<>> <=> \A x \in Range(s) : x \notin S
<1> DEFINE t == Selected(s, S)
<1>1. t \in Seq(X) /\ \A x : x \in Range(t) <=> x \in Range(s) /\ x \in S
  BY SelectedParts
<1> HIDE DEF t
<1>2. t = <<>> => \A x : x \notin Range(t)
  BY DEF Range
<1>3. t # <<>> => \E x : x \in Range(t)
  <2> SUFFICES ASSUME t # <<>> PROVE \E x : x \in Range(t)
    OBVIOUS
  <2>1. 1 \in DOMAIN t
    BY <1>1, EmptySeq, LenProperties
  <2> QED BY <2>1 DEF Range
<1> QED BY <1>1, <1>2, <1>3 DEF t

(* One more index counts itself, if it is in the set.                       *)
LEMMA OneMore ==
  ASSUME NEW k \in Nat, NEW S
  PROVE  /\ Cardinality((1 .. k) \cap S) \in Nat
         /\ Cardinality((1 .. k + 1) \cap S)
              = Cardinality((1 .. k) \cap S) + (IF k + 1 \in S THEN 1 ELSE 0)
<1> DEFINE A == (1 .. k) \cap S
           B == (1 .. k + 1) \cap S
<1>1. IsFiniteSet(A) /\ Cardinality(A) \in Nat
  <2>1. IsFiniteSet(1 .. k)
    BY FS_Interval
  <2> QED BY <2>1, FS_Subset, FS_CardinalityType
<1>2. \A i : i \in 1 .. k + 1 <=> i \in 1 .. k \/ i = k + 1
  OBVIOUS
<1>3. CASE k + 1 \in S
  <2>1. B = A \cup {k + 1} /\ k + 1 \notin A
    BY <1>2, <1>3
  <2> HIDE DEF A, B
  <2>2. Cardinality(B) = Cardinality(A) + 1
    BY <1>1, <2>1, FS_AddElement
  <2> QED BY <1>1, <1>3, <2>2 DEF A, B
<1>4. CASE k + 1 \notin S
  <2>1. B = A
    BY <1>2, <1>4
  <2> HIDE DEF A, B
  <2>2. Cardinality(B) = Cardinality(A) + 0
    BY <1>1, <2>1
  <2> QED BY <1>1, <1>4, <2>2 DEF A, B
<1> QED BY <1>3, <1>4

-----------------------------------------------------------------------------
(* Searches                                                                *)

(* The largest of 0 and finitely many scores exists. *)
LEMMA MaxExists ==
  ASSUME NEW n \in Nat, NEW f, \A i \in 1 .. n : f[i] \in Nat
  PROVE  LET S == {0} \cup {f[i] : i \in 1 .. n} IN
         Max(S) \in S /\ \A y \in S : y <= Max(S)
<1> DEFINE T(k) == {0} \cup {f[i] : i \in 1 .. k}
           Top(k) == \E x \in T(k) : \A y \in T(k) : x >= y
           B == {k \in 0 .. n : ~Top(k)}
<1>1. Top(0)
  <2>1. T(0) = {0}
    OBVIOUS
  <2> QED BY <2>1
<1>2. ASSUME NEW k \in 1 .. n, Top(k - 1) PROVE Top(k)
  <2>1. \A i : i \in 1 .. k <=> i \in 1 .. k - 1 \/ i = k
    OBVIOUS
  <2>2. T(k) = T(k - 1) \cup {f[k]}
    BY <2>1
  <2>3. T(k - 1) \subseteq Nat /\ f[k] \in Nat
    <3>1. \A i \in 1 .. k - 1 : i \in 1 .. n
      OBVIOUS
    <3> QED BY <3>1
  <2>4. PICK x \in T(k - 1) : \A y \in T(k - 1) : x >= y
    BY <1>2
  <2> HIDE DEF T
  <2>5. CASE f[k] >= x
    BY <2>2, <2>3, <2>4, <2>5
  <2>6. CASE ~(f[k] >= x)
    BY <2>2, <2>3, <2>4, <2>6
  <2> QED BY <2>5, <2>6
<1>3. B = {}
  <2> SUFFICES ASSUME B # {} PROVE FALSE
    OBVIOUS
  <2>1. B \subseteq Nat
    OBVIOUS
  <2>2. PICK m \in B : \A k \in B : m <= k
    BY <2>1, NatMin
  <2>3. m \in 0 .. n /\ ~Top(m)
    OBVIOUS
  <2> HIDE DEF Top
  <2>4. m # 0
    BY <1>1, <2>3
  <2>5. m \in 1 .. n /\ m - 1 \in 0 .. n /\ ~(m <= m - 1)
    BY <2>3, <2>4
  <2>6. Top(m - 1)
    BY <2>2, <2>5
  <2> QED BY <1>2, <2>3, <2>5, <2>6
<1>4. Top(n)
  <2> HIDE DEF Top
  <2> QED BY <1>3
<1>5. T(n) \subseteq Nat
  OBVIOUS
<1>6. Max(T(n)) \in T(n) /\ \A y \in T(n) : Max(T(n)) >= y
  BY <1>4 DEF Max
<1>7. \A y \in T(n) : y <= Max(T(n))
  <2> HIDE DEF T
  <2> QED BY <1>5, <1>6
<1> QED BY <1>6, <1>7

(* The best TopK of an item, of which search returns some. *)
top(it) == SubSeq(it.ranking, 1, Min({TopK, Len(it.ranking)}))

Item(it) == /\ it.category \in Categories /\ IsSeq(it.ranking)
            /\ \A k \in DOMAIN it.ranking : it.ranking[k].score \in Nat

LEMMA TopParts ==
  ASSUME NEW it, Item(it)
  PROVE  /\ top(it) \in Seq(Range(it.ranking))
         /\ \A c \in Range(top(it)) : c.score \in Nat
<1> DEFINE r == it.ranking
           n == Min({TopK, Len(r)})
<1>1. r \in Seq(Range(r)) /\ Len(r) \in Nat /\ DOMAIN r = 1 .. Len(r)
  BY LenProperties DEF Item, IsSeq, Range
<1>2. n \in Nat /\ n <= Len(r)
  <2>1. \E x \in {TopK, Len(r)} : \A y \in {TopK, Len(r)} : x <= y
    BY <1>1, EvaluationAssumption
  <2>2. n \in {TopK, Len(r)} /\ \A y \in {TopK, Len(r)} : n <= y
    BY <2>1 DEF Min
  <2> QED BY <1>1, <2>2, EvaluationAssumption
<1> HIDE DEF n
<1>3. \A i \in 1 .. n : r[i] \in Range(r)
  <2>1. \A i \in 1 .. n : i \in DOMAIN r
    BY <1>1, <1>2
  <2> QED BY <2>1 DEF Range
<1>4. SubSeq(r, 1, n) \in Seq(Range(r))
  BY <1>2, <1>3, SubSeqProperties
<1>5. top(it) \in Seq(Range(r))
  BY <1>4 DEF top, n
<1>6. \A c \in Range(r) : c.score \in Nat
  BY DEF Item, Range
<1>7. \A c \in Range(top(it)) : c \in Range(r)
  BY <1>5, ElementOfSeq, LenProperties DEF Range
<1> QED BY <1>5, <1>6, <1>7

(* What search returns for a threshold: the best that reach it.             *)
LEMMA SearchParts ==
  ASSUME NEW it, Item(it), NEW T \in Nat
  PROVE  /\ search(it, T) \in Seq(Range(it.ranking))
         /\ Range(search(it, T)) = AtLeast(top(it), T)
         /\ search(it, T) = <<>> <=> AtLeast(top(it), T) = {}
<1>1. search(it, T) = Selected(top(it), AtLeast(top(it), T))
  BY EvaluationAssumption DEF search, top
<1>2. top(it) \in Seq(Range(it.ranking))
  BY TopParts
<1>3. \A x : x \in AtLeast(top(it), T) => x \in Range(top(it))
  BY DEF AtLeast
<1>4. /\ search(it, T) \in Seq(Range(it.ranking))
      /\ \A x : x \in Range(search(it, T)) <=> x \in Range(top(it)) /\ x \in AtLeast(top(it), T)
  BY <1>1, <1>2, SelectedParts
<1>5. search(it, T) = <<>> <=> \A x \in Range(top(it)) : x \notin AtLeast(top(it), T)
  BY <1>1, <1>2, SelectedNone
<1> QED BY <1>3, <1>4, <1>5

LEMMA SearchDefault == ASSUME NEW it PROVE search(it, None) = search(it, MinScore)
BY EvaluationAssumption DEF search

(* Filtering what a search without a threshold returned gives what a search *)
(* with the threshold returns.                                              *)
LEMMA FilterLater ==
  ASSUME NEW it, Item(it), NEW T \in Nat \ {0}
  PROVE  /\ max_score(it) < T <=> search(it, T) = <<>>
         /\ kept(it, T) = docs(search(it, T))
<1>1. /\ search(it, 0) \in Seq(Range(it.ranking)) /\ Range(search(it, 0)) = AtLeast(top(it), 0)
      /\ Range(search(it, T)) = AtLeast(top(it), T)
      /\ search(it, T) = <<>> <=> AtLeast(top(it), T) = {}
  <2>1. 0 \in Nat /\ T \in Nat
    OBVIOUS
  <2> QED BY <2>1, SearchParts, Zenon
<1>2. \A c \in Range(top(it)) : c.score \in Nat
  BY TopParts
<1>3. Range(search(it, 0)) = Range(top(it))
  <2>1. \A c \in Range(top(it)) : c.score >= 0
    BY <1>2
  <2>2. AtLeast(top(it), 0) = Range(top(it))
    BY <2>1, Zenon DEF AtLeast
  <2> QED BY <1>1, <2>2, Zenon
<1>4. AtLeast(search(it, 0), T) = AtLeast(top(it), T)
  BY <1>3 DEF AtLeast
<1>5. kept(it, T) = docs(search(it, T))
  <2>1. kept(it, T) = {c.doc : c \in Range(search(it, T))}
    BY <1>1, <1>4 DEF kept
  <2> QED BY <2>1 DEF docs, Range
<1>6. max_score(it) < T <=> AtLeast(top(it), T) = {}
  <2> DEFINE s == search(it, 0)
             n == Len(s)
             S == {0} \cup {c.score : c \in Range(s)}
  <2>1. n \in Nat /\ DOMAIN s = 1 .. n
    BY <1>1, LenProperties
  <2>2. PICK f : f = [i \in 1 .. n |-> s[i].score]
    OBVIOUS
  <2>3. \A i \in 1 .. n : f[i] \in Nat
    BY <1>2, <1>3, <2>1, <2>2 DEF Range
  <2>4. S = {0} \cup {f[i] : i \in 1 .. n}
    BY <2>1, <2>2 DEF Range
  <2>5. max_score(it) = Max(S)
    BY DEF max_score
  <2> HIDE DEF n, S
  <2>6. max_score(it) \in S /\ \A y \in S : y <= max_score(it)
    <3>1. PICK n1 \in Nat : n1 = n
      BY <2>1
    <3>2. \A i \in 1 .. n1 : f[i] \in Nat
      BY <2>3, <3>1
    <3>3. PICK U : U = {0} \cup {f[i] : i \in 1 .. n1}
      OBVIOUS
    <3>4. Max(U) \in U /\ \A y \in U : y <= Max(U)
      BY <3>2, <3>3, MaxExists
    <3> QED BY <2>4, <2>5, <3>1, <3>3, <3>4
  <2>7. S = {0} \cup {c.score : c \in Range(top(it))}
    BY <1>3 DEF S
  <2> HIDE DEF s
  <2>8. S \subseteq Nat
    BY <1>2, <2>7
  <2>9. CASE max_score(it) < T
    <3>1. \A c \in Range(top(it)) : ~(c.score >= T)
      BY <1>2, <2>6, <2>7, <2>8, <2>9
    <3> QED BY <2>9, <3>1 DEF AtLeast
  <2>10. CASE ~(max_score(it) < T)
    <3>0. max_score(it) \in Nat
      BY <2>6, <2>8
    <3>1. max_score(it) >= T /\ max_score(it) # 0
      BY <2>10, <3>0
    <3>2. PICK c \in Range(top(it)) : c.score = max_score(it)
      BY <2>6, <2>7, <3>1
    <3> QED BY <2>10, <3>1, <3>2 DEF AtLeast
  <2> QED BY <2>9, <2>10
<1> QED BY <1>1, <1>5, <1>6

-----------------------------------------------------------------------------
(* Retrieval statistics                                                    *)

LEMMA DocsFinite ==
  ASSUME NEW X, NEW s \in Seq(X)
  PROVE  IsFiniteSet(docs(s)) /\ Cardinality(docs(s)) \in Nat
<1>1. Len(s) \in Nat /\ DOMAIN s = 1 .. Len(s)
  BY LenProperties
<1> DEFINE f == [i \in 1 .. Len(s) |-> s[i].doc]
<1>2. f \in Surjection(1 .. Len(s), docs(s))
  BY <1>1 DEF Surjection, docs
<1>3. IsFiniteSet(1 .. Len(s))
  BY <1>1, FS_Interval
<1> QED BY <1>2, <1>3, FS_Surjection, FS_CardinalityType

LEMMA RankType ==
  ASSUME NEW X, NEW s \in Seq(X), NEW doc
  PROVE  rank(s, doc) \in Nat /\ (rank(s, doc) = 0 <=> doc \notin docs(s))
<1>1. CASE doc \notin docs(s)
  BY <1>1 DEF rank
<1>2. CASE doc \in docs(s)
  <2> DEFINE I == {i \in DOMAIN s : s[i].doc = doc}
             m == Min(I)
             q == SubSeq(s, 1, m - 1)
  <2>1. DOMAIN s = 1 .. Len(s) /\ Len(s) \in Nat
    BY LenProperties
  <2>2. I # {} /\ I \subseteq Nat
    BY <1>2, <2>1 DEF docs
  <2>3. m \in I
    <3>1. \E x \in I : \A y \in I : x <= y
      BY <2>2, NatMin
    <3> QED BY <3>1 DEF Min
  <2>4. m - 1 \in Nat /\ m \in 1 .. Len(s)
    BY <2>1, <2>3
  <2>5. rank(s, doc) = 1 + Cardinality(docs(q))
    BY <1>2 DEF rank
  <2> HIDE DEF m
  <2>6. \A i \in 1 .. m - 1 : s[i] \in X
    <3> TAKE i \in 1 .. m - 1
    <3>1. i \in 1 .. Len(s)
      BY <2>1, <2>4
    <3> QED BY <3>1, ElementOfSeq
  <2>7. q \in Seq(X)
    BY <2>4, <2>6, SubSeqProperties
  <2> HIDE DEF q
  <2>8. Cardinality(docs(q)) \in Nat
    BY <2>7, DocsFinite
  <2> QED BY <1>2, <2>5, <2>8
<1> QED BY <1>1, <1>2

LEMMA AddType ==
  ASSUME NEW s \in RetrievalStats, NEW r \in Nat
  PROVE  /\ add(s, r) \in RetrievalStats /\ add(s, r).n = s.n + 1
         /\ add(s, r).hits = s.hits + (IF r = 0 THEN 0 ELSE 1)
<1>1. r # 0 => Unit \div r \in Nat
  BY DEF Unit
<1>2. (IF r = 0 THEN 0 ELSE Unit \div r) \in Nat
  BY <1>1
<1>3. s.n \in Nat /\ s.hits \in Nat /\ s.p_at_1 \in Nat /\ s.mrr_sum \in Nat
  BY DEF RetrievalStats
<1> DEFINE u == IF r = 0 THEN 0 ELSE Unit \div r
<1>4. add(s, r) = [n |-> s.n + 1, hits |-> s.hits + (IF r = 0 THEN 0 ELSE 1),
                   p_at_1 |-> s.p_at_1 + (IF r = 1 THEN 1 ELSE 0), mrr_sum |-> s.mrr_sum + u]
  BY DEF add
<1> HIDE DEF u
<1>5. u \in Nat
  BY <1>2 DEF u
<1> QED BY <1>3, <1>4, <1>5 DEF RetrievalStats

(* A function whose values up to m obey the recursion of Stats.             *)
Adds(u, its, m) ==
  u = [i \in 0 .. m |->
         IF i = 0 THEN NoStats
         ELSE add(u[i - 1], rank(search(its[i], None), its[i].expected_doc))]

LEMMA AddsExists ==
  ASSUME NEW its, NEW l \in Nat
  PROVE  \E u : Adds(u, its, l)
<1> DEFINE B == {m \in Nat : ~ \E u : Adds(u, its, m)}
<1> SUFFICES ASSUME B # {} PROVE FALSE
  OBVIOUS
<1>1. PICK m \in B : \A k \in B : m <= k
  BY NatMin
<1>2. m \in Nat /\ ~ \E u : Adds(u, its, m)
  OBVIOUS
<1>3. m # 0
  <2> DEFINE u == [i \in 0 .. 0 |-> NoStats]
  <2>1. Adds(u, its, 0)
    BY DEF Adds
  <2> QED BY <1>2, <2>1
<1>4. PICK v : Adds(v, its, m - 1)
  <2>1. m - 1 \in Nat /\ m - 1 \notin B
    BY <1>1, <1>2, <1>3
  <2> QED BY <2>1
<1> DEFINE g == [i \in 1 .. m |-> rank(search(its[i], None), its[i].expected_doc)]
           w == [i \in 0 .. m |-> IF i = m THEN add(v[m - 1], g[m]) ELSE v[i]]
<1>5. \A i \in 0 .. m : w[i] = IF i = 0 THEN NoStats ELSE add(w[i - 1], g[i])
  <2> TAKE i \in 0 .. m
  <2>0. \A k \in 0 .. m - 1 : v[k] = IF k = 0 THEN NoStats ELSE add(v[k - 1], g[k])
    <3> TAKE k \in 0 .. m - 1
    <3>1. v[k] = IF k = 0 THEN NoStats
                 ELSE add(v[k - 1], rank(search(its[k], None), its[k].expected_doc))
      BY <1>4 DEF Adds
    <3>2. k # 0 => g[k] = rank(search(its[k], None), its[k].expected_doc)
      <4>1. k # 0 => k \in 1 .. m
        BY <1>2
      <4> QED BY <4>1
    <3> HIDE DEF g
    <3> QED BY <3>1, <3>2
  <2> HIDE DEF g
  <2>1. CASE i = m
    <3>1. i - 1 \in 0 .. m /\ i - 1 # m /\ i \in 0 .. m
      BY <1>2, <1>3, <2>1
    <3>2. w[i - 1] = v[i - 1] /\ w[i] = add(v[m - 1], g[m])
      BY <2>1, <3>1
    <3> QED BY <1>3, <2>1, <3>2
  <2>2. CASE i # m
    <3>1. i \in 0 .. m - 1 /\ w[i] = v[i]
      BY <1>2, <2>2
    <3>2. i # 0 => w[i - 1] = v[i - 1]
      <4>1. i # 0 => i - 1 \in 0 .. m /\ i - 1 # m
        BY <1>2, <3>1
      <4> QED BY <4>1
    <3> QED BY <2>0, <3>1, <3>2
  <2> QED BY <2>1, <2>2
<1>6. DOMAIN w = 0 .. m /\ w = [i \in DOMAIN w |-> w[i]]
  OBVIOUS
<1>7. \A i \in 1 .. m : g[i] = rank(search(its[i], None), its[i].expected_doc)
  OBVIOUS
<1>8. \A i \in 0 .. m : i # 0 => i \in 1 .. m
  BY <1>2
<1> HIDE DEF w, g
<1>9. Adds(w, its, m)
  <2>1. w = [i \in 0 .. m |-> IF i = 0 THEN NoStats ELSE add(w[i - 1], g[i])]
    BY <1>5, <1>6
  <2>2. [i \in 0 .. m |-> IF i = 0 THEN NoStats ELSE add(w[i - 1], g[i])]
        = [i \in 0 .. m |-> IF i = 0 THEN NoStats
                            ELSE add(w[i - 1], rank(search(its[i], None), its[i].expected_doc))]
    BY <1>7, <1>8
  <2> QED BY <2>1, <2>2 DEF Adds
<1> QED BY <1>2, <1>9

(* The places of the items whose expected document the search finds.        *)
Hits(its) == {i \in DOMAIN its : its[i].expected_doc \in docs(search(its[i], None))}

(* The statistics count every item once, and every item that was a hit.     *)
LEMMA StatsParts ==
  ASSUME NEW X, NEW its \in Seq(X), \A i \in DOMAIN its : Item(its[i])
  PROVE  /\ Stats(its) \in RetrievalStats /\ Stats(its).n = Len(its)
         /\ Stats(its).hits = Cardinality(Hits(its))
<1> DEFINE u == CHOOSE v : Adds(v, its, Len(its))
           r(i) == rank(search(its[i], None), its[i].expected_doc)
           H == Hits(its)
           Good(i) == /\ u[i] \in RetrievalStats /\ u[i].n = i
                      /\ u[i].hits = Cardinality((1 .. i) \cap H)
           B == {i \in 0 .. Len(its) : ~ Good(i)}
<1>1. Len(its) \in Nat /\ DOMAIN its = 1 .. Len(its)
  BY LenProperties
<1>2. Adds(u, its, Len(its))
  BY <1>1, AddsExists
<1>3. Stats(its) = u[Len(its)]
  BY DEF Stats, Adds
<1> HIDE DEF u
<1>4. \A i \in 0 .. Len(its) : u[i] = IF i = 0 THEN NoStats ELSE add(u[i - 1], r(i))
  BY <1>2 DEF Adds
<1> HIDE DEF H
<1>5. Good(0)
  <2>1. u[0] = NoStats
    BY <1>1, <1>4
  <2>2. (1 .. 0) \cap H = {}
    OBVIOUS
  <2>3. Cardinality((1 .. 0) \cap H) = 0
    BY <2>2, FS_EmptySet
  <2> QED BY <2>1, <2>3 DEF NoStats, RetrievalStats
<1>6. ASSUME NEW i \in 1 .. Len(its), Good(i - 1) PROVE Good(i)
  <2>1. Item(its[i])
    BY <1>1
  <2>2. search(its[i], None) \in Seq(Range(its[i].ranking))
    <3>1. MinScore \in Nat
      BY EvaluationAssumption
    <3>2. search(its[i], MinScore) \in Seq(Range(its[i].ranking))
      BY <2>1, <3>1, SearchParts
    <3>3. search(its[i], None) = search(its[i], MinScore)
      BY SearchDefault
    <3> QED BY <3>2, <3>3
  <2>3. r(i) \in Nat /\ (r(i) = 0 <=> i \notin H)
    BY <1>1, <2>2, RankType DEF H, Hits
  <2>4. u[i] = add(u[i - 1], r(i))
    BY <1>1, <1>4
  <2> HIDE DEF r
  <2>5. /\ u[i] \in RetrievalStats /\ u[i].n = u[i - 1].n + 1
        /\ u[i].hits = u[i - 1].hits + (IF r(i) = 0 THEN 0 ELSE 1)
    <3>1. PICK a, b : a = u[i - 1] /\ b = r(i)
      OBVIOUS
    <3>2. a \in RetrievalStats /\ b \in Nat
      BY <1>6, <2>3, <3>1
    <3>3. /\ add(a, b) \in RetrievalStats /\ add(a, b).n = a.n + 1
          /\ add(a, b).hits = a.hits + (IF b = 0 THEN 0 ELSE 1)
      BY <3>2, AddType
    <3> QED BY <2>4, <3>1, <3>3
  <2>6. Cardinality((1 .. i) \cap H)
          = Cardinality((1 .. i - 1) \cap H) + (IF i \in H THEN 1 ELSE 0)
    <3>1. i - 1 \in Nat /\ (i - 1) + 1 = i
      BY <1>1
    <3>2. PICK j \in Nat : j = i - 1 /\ j + 1 = i
      BY <3>1
    <3>3. Cardinality((1 .. j + 1) \cap H)
            = Cardinality((1 .. j) \cap H) + (IF j + 1 \in H THEN 1 ELSE 0)
      BY OneMore
    <3> QED BY <3>2, <3>3
  <2> QED BY <1>6, <2>3, <2>5, <2>6
<1>7. B = {}
  <2> SUFFICES ASSUME B # {} PROVE FALSE
    OBVIOUS
  <2>0. B \subseteq Nat
    BY <1>1
  <2>1. PICK m \in B : \A k \in B : m <= k
    BY <2>0, NatMin
  <2>2. m \in 0 .. Len(its) /\ ~Good(m)
    OBVIOUS
  <2> HIDE DEF Good
  <2>3. m # 0
    BY <1>5, <2>2
  <2>4. m \in 1 .. Len(its) /\ m - 1 \in 0 .. Len(its) /\ ~(m <= m - 1)
    BY <1>1, <2>2, <2>3
  <2>5. Good(m - 1)
    BY <2>1, <2>4
  <2> QED BY <1>6, <2>2, <2>4, <2>5
<1>8. Good(Len(its))
  <2> HIDE DEF Good
  <2> QED BY <1>1, <1>7
<1>9. (1 .. Len(its)) \cap H = Hits(its)
  BY <1>1 DEF H, Hits
<1> QED BY <1>3, <1>8, <1>9

(* A dataset is a sequence of items.                                        *)
LEMMA DatasetParts ==
  ASSUME NEW D \in Datasets
  PROVE  /\ D \in Seq(Range(D)) /\ Len(D) \in Nat /\ DOMAIN D = 1 .. Len(D)
         /\ \A i \in DOMAIN D : Item(D[i])
         /\ \A x \in Range(D) : Item(x)
<1>1. IsSeq(D) /\ \A i \in DOMAIN D : Item(D[i])
  BY EvaluationAssumption DEF Item
<1>2. D \in Seq(Range(D))
  BY <1>1 DEF IsSeq, Range
<1>3. \A x \in Range(D) : Item(x)
  BY <1>1, Zenon DEF Range
<1> QED BY <1>1, <1>2, <1>3, LenProperties

(* What eval_retrieval runs over: the items with an expected document, and  *)
(* of these the ones of a category.                                         *)
LEMMA SubsetParts ==
  ASSUME items \in Datasets
  PROVE  /\ subset \in Seq(Range(items)) /\ Len(subset) \in Nat
         /\ \A i \in DOMAIN subset : Item(subset[i])
         /\ \A x : x \in Range(subset) <=> x \in Range(items) /\ x.expected_doc # None
<1>1. items \in Seq(Range(items)) /\ \A x \in Range(items) : Item(x)
  BY DatasetParts
<1> DEFINE S == {it \in Range(items) : it.expected_doc # None}
<1>2. /\ subset \in Seq(Range(items))
      /\ \A x : x \in Range(subset) <=> x \in Range(items) /\ x \in S
  <2> HIDE DEF S
  <2>1. subset = Selected(items, S)
    BY DEF subset, S
  <2> QED BY <1>1, <2>1, SelectedParts
<1>3. \A x : x \in Range(subset) <=> x \in Range(items) /\ x.expected_doc # None
  BY <1>2
<1>4. \A i \in DOMAIN subset : Item(subset[i])
  <2> TAKE i \in DOMAIN subset
  <2>1. subset[i] \in Range(subset)
    BY DEF Range
  <2> QED BY <1>1, <1>3, <2>1
<1> QED BY <1>2, <1>3, <1>4, LenProperties

LEMMA OfCategoryParts ==
  ASSUME items \in Datasets, NEW c
  PROVE  /\ ofCategory(c) \in Seq(Range(subset)) /\ Len(ofCategory(c)) \in Nat
         /\ \A i \in DOMAIN ofCategory(c) : Item(ofCategory(c)[i])
         /\ (\E it \in Range(subset) : it.category = c) => Len(ofCategory(c)) > 0
<1> DEFINE S == {it \in Range(subset) : it.category = c}
           t == ofCategory(c)
<1>1. subset \in Seq(Range(subset)) /\ \A x \in Range(subset) : Item(x)
  <2>1. subset \in Seq(Range(items)) /\ \A i \in DOMAIN subset : Item(subset[i])
    BY SubsetParts
  <2>2. \A i \in 1 .. Len(subset) : subset[i] \in Range(subset)
    BY <2>1, LenProperties DEF Range
  <2>3. \A x \in Range(subset) : Item(x)
    BY <2>1, Zenon DEF Range
  <2>4. subset = [i \in 1 .. Len(subset) |-> subset[i]] /\ Len(subset) \in Nat
    BY <2>1, SeqDef, LenProperties
  <2>5. subset \in [1 .. Len(subset) -> Range(subset)]
    BY <2>2, <2>4
  <2>6. subset \in Seq(Range(subset))
    BY <2>4, <2>5, SeqDef
  <2> QED BY <2>3, <2>6
<1>2. /\ t \in Seq(Range(subset))
      /\ \A x : x \in Range(t) <=> x \in Range(subset) /\ x \in S
      /\ t = <<>> <=> \A x \in Range(subset) : x \notin S
  <2> HIDE DEF S
  <2>1. t = Selected(subset, S)
    BY DEF ofCategory, S
  <2> HIDE DEF t
  <2> QED BY <1>1, <2>1, SelectedParts, SelectedNone
<1>3. \A i \in DOMAIN t : Item(t[i])
  <2> TAKE i \in DOMAIN t
  <2>1. t[i] \in Range(t)
    BY DEF Range
  <2> QED BY <1>1, <1>2, <2>1
<1>4. Len(t) \in Nat
  BY <1>2, LenProperties
<1>5. (\E it \in Range(subset) : it.category = c) => Len(t) > 0
  <2> SUFFICES ASSUME \E it \in Range(subset) : it.category = c PROVE Len(t) > 0
    OBVIOUS
  <2>1. t # <<>>
    BY <1>2
  <2> HIDE DEF t
  <2>2. Len(t) # 0
    BY <1>2, <2>1, EmptySeq
  <2> QED BY <1>4, <2>2
<1> QED BY <1>2, <1>3, <1>4, <1>5

(* The number of items that satisfy a condition is a number.                *)
LEMMA CountType ==
  ASSUME NEW D \in Datasets
  PROVE  \A S \in SUBSET DOMAIN D : IsFiniteSet(S) /\ Cardinality(S) \in Nat
<1>1. Len(D) \in Nat /\ DOMAIN D = 1 .. Len(D)
  BY DatasetParts
<1>2. IsFiniteSet(DOMAIN D)
  BY <1>1, FS_Interval
<1> QED BY <1>2, FS_Subset, FS_CardinalityType

-----------------------------------------------------------------------------
(* Type correctness                                                         *)

TypeInv == items \in Datasets /\ TypeOK

LEMMA TypeInit == Init => TypeInv
<1> SUFFICES ASSUME Init PROVE TypeInv
  OBVIOUS
<1> USE DEF Init
<1>1. Len(items) \in Nat
  BY DatasetParts
<1>2. answers \in AnswerCounters /\ answers.asked <= Len(items)
  BY <1>1 DEF AnswerCounters
<1>3. overall \in RetrievalStats /\ DOMAIN per_cat = {}
  BY DEF NoStats, RetrievalStats
<1>4. routing \in [tp : Nat, fp : Nat, tn : Nat, fn : Nat] /\ masked \in MaskedCounters
  BY DEF MaskedCounters
<1> QED BY <1>2, <1>3, <1>4 DEF TypeInv, TypeOK

LEMMA TypeStep == TypeInv /\ [Next]_vars => TypeInv'
<1> SUFFICES ASSUME TypeInv, [Next]_vars PROVE TypeInv'
  OBVIOUS
<1>0. items \in Datasets /\ TypeOK
  BY DEF TypeInv
<1>1. CASE EvalRetrieval
  <2>1. items' = items /\ routing' = routing /\ anonymized' = anonymized
        /\ masked' = masked /\ answers' = answers /\ rows' = rows /\ pc' \in {"routing", "aborted"}
    BY <1>1 DEF EvalRetrieval
  <2>2. CASE overall' = overall /\ per_cat' = per_cat
    BY <1>0, <2>1, <2>2 DEF TypeInv, TypeOK
  <2>3. CASE /\ overall' = Stats(subset)
             /\ per_cat' = [c \in {it.category : it \in Range(subset)} |-> Stats(ofCategory(c))]
    <3>1. overall' \in RetrievalStats
      BY <1>0, <2>3, SubsetParts, StatsParts
    <3>2. \A c \in DOMAIN per_cat' :
             c \in Categories /\ per_cat'[c] \in RetrievalStats /\ per_cat'[c].n > 0
      <4> TAKE c \in DOMAIN per_cat'
      <4>1. PICK it \in Range(subset) : it.category = c
        BY <2>3
      <4>2. c \in Categories
        <5>1. it \in Range(items)
          BY <1>0, SubsetParts
        <5>2. Item(it)
          BY <1>0, <5>1, DatasetParts
        <5> QED BY <4>1, <5>2 DEF Item
      <4>3. per_cat'[c] = Stats(ofCategory(c))
        BY <2>3
      <4>4. /\ ofCategory(c) \in Seq(Range(subset)) /\ Len(ofCategory(c)) > 0
            /\ \A i \in DOMAIN ofCategory(c) : Item(ofCategory(c)[i])
        BY <1>0, <4>1, OfCategoryParts
      <4>5. Stats(ofCategory(c)) \in RetrievalStats /\ Stats(ofCategory(c)).n = Len(ofCategory(c))
        BY <4>4, StatsParts
      <4> QED BY <4>2, <4>3, <4>4, <4>5
    <3> QED BY <1>0, <2>1, <3>1, <3>2 DEF TypeInv, TypeOK
  <2> QED BY <1>1, <2>2, <2>3 DEF EvalRetrieval
<1>2. CASE EvalRouting
  <2>1. routing' \in [tp : Nat, fp : Nat, tn : Nat, fn : Nat]
    <3>1. \A S \in SUBSET DOMAIN items : Cardinality(S) \in Nat
      BY <1>0, CountType
    <3>2. PICK a, b, c, d \in SUBSET DOMAIN items :
             routing' = [tp |-> Cardinality(a), fn |-> Cardinality(b),
                         fp |-> Cardinality(c), tn |-> Cardinality(d)]
      BY <1>2 DEF EvalRouting, Count
    <3> QED BY <3>1, <3>2
  <2>2. UNCHANGED <<items, overall, per_cat, anonymized, masked, answers, rows>>
        /\ pc' = "anonymization"
    BY <1>2 DEF EvalRouting
  <2> QED BY <1>0, <2>1, <2>2 DEF TypeInv, TypeOK
<1>3. CASE EvalAnonymization
  <2> DEFINE hit == {i \in DOMAIN items : anonymized'[i].entities > 0}
  <2>1. /\ UNCHANGED <<items, overall, per_cat, routing, answers, rows>>
        /\ pc' \in {"answers", "sweep", "report"} /\ DOMAIN anonymized' = DOMAIN items
        /\ masked' =
             [pii_n |-> Cardinality(pii), pii_hit |-> Cardinality(pii \cap hit),
              neg_n |-> Cardinality(neg), neg_fp |-> Cardinality(neg \cap hit),
              clean_n |-> Cardinality(clean), clean_fp |-> Cardinality(clean \cap hit)]
    BY <1>3 DEF EvalAnonymization
  <2>2. pii \subseteq DOMAIN items /\ neg \subseteq DOMAIN items /\ clean \subseteq DOMAIN items
    BY DEF pii, neg, clean
  <2> HIDE DEF hit
  <2>3. \A S \in SUBSET DOMAIN items : Cardinality(S) \in Nat
    BY <1>0, CountType
  <2>4. /\ Cardinality(pii) \in Nat /\ Cardinality(pii \cap hit) \in Nat
        /\ Cardinality(neg) \in Nat /\ Cardinality(neg \cap hit) \in Nat
        /\ Cardinality(clean) \in Nat /\ Cardinality(clean \cap hit) \in Nat
    BY <2>2, <2>3
  <2>5. masked' \in MaskedCounters
    BY <2>1, <2>4 DEF MaskedCounters
  <2> QED BY <1>0, <2>1, <2>5 DEF TypeInv, TypeOK
<1>4. CASE EvalAnswer
  <2>1. /\ UNCHANGED <<items, pc, overall, per_cat, routing, anonymized, masked, rows>>
        /\ answers.asked < Len(items)
    BY <1>4 DEF EvalAnswer
  <2>2. \A b : one(b) \in Nat
    BY DEF one
  <2>3. PICK a, b, c, d, e \in Nat :
          answers' = [asked |-> answers.asked + 1, failed |-> answers.failed + a,
                      refuse_total |-> answers.refuse_total + b,
                      refuse_ok |-> answers.refuse_ok + c,
                      answer_total |-> answers.answer_total + d,
                      answer_wrong_refuse |-> answers.answer_wrong_refuse + e]
    <3> DEFINE it == items[answers.asked + 1]
               refusable == it.category \in REFUSE_CATEGORIES
    <3>1. PICK reply \in Replies(it) :
            answers' = [asked |-> answers.asked + 1,
                        failed |-> answers.failed + one(~(reply # "exception")),
                        refuse_total |->
                          answers.refuse_total + one(reply # "exception" /\ refusable),
                        refuse_ok |-> answers.refuse_ok + one(reply = "refusal" /\ refusable),
                        answer_total |->
                          answers.answer_total + one(reply # "exception" /\ answerable(it)),
                        answer_wrong_refuse |->
                          answers.answer_wrong_refuse + one(reply = "refusal" /\ answerable(it))]
      BY <1>4 DEF EvalAnswer
    <3> HIDE DEF it, refusable, one
    <3>2. PICK a, b, c, d, e :
            /\ a = one(~(reply # "exception"))
            /\ b = one(reply # "exception" /\ refusable)
            /\ c = one(reply = "refusal" /\ refusable)
            /\ d = one(reply # "exception" /\ answerable(it))
            /\ e = one(reply = "refusal" /\ answerable(it))
      OBVIOUS
    <3>3. a \in Nat /\ b \in Nat /\ c \in Nat /\ d \in Nat /\ e \in Nat
      BY <2>2, <3>2, Zenon
    <3> QED BY <3>1, <3>2, <3>3, Zenon
  <2>4. /\ answers.asked \in Nat /\ answers.failed \in Nat /\ answers.refuse_total \in Nat
        /\ answers.refuse_ok \in Nat /\ answers.answer_total \in Nat
        /\ answers.answer_wrong_refuse \in Nat
    BY <1>0 DEF TypeOK, AnswerCounters
  <2>5. answers' \in AnswerCounters
    BY <2>3, <2>4 DEF AnswerCounters
  <2>6. answers'.asked <= Len(items)
    <3>1. Len(items) \in Nat /\ answers'.asked = answers.asked + 1
      BY <1>0, <2>3, DatasetParts
    <3>2. PICK l \in Nat : l = Len(items)
      BY <3>1
    <3> QED BY <2>1, <2>4, <3>1, <3>2
  <2> QED BY <1>0, <2>1, <2>5, <2>6 DEF TypeInv, TypeOK
<1>5. CASE AnswersDone
  BY <1>0, <1>5 DEF AnswersDone, TypeInv, TypeOK
<1>6. CASE EvalMinScoreSweep
  <2>1. /\ UNCHANGED <<items, overall, per_cat, routing, anonymized, masked, answers>>
        /\ pc' \in {"report", "aborted"}
        /\ rows' = rows \/ DOMAIN rows' = Thresholds
    BY <1>6 DEF EvalMinScoreSweep
  <2> QED BY <1>0, <2>1 DEF TypeInv, TypeOK
<1>7. CASE PrintReport
  BY <1>0, <1>7 DEF PrintReport, TypeInv, TypeOK
<1>8. CASE UNCHANGED vars
  BY <1>0, <1>8 DEF vars, TypeInv, TypeOK
<1> QED BY <1>1, <1>2, <1>3, <1>4, <1>5, <1>6, <1>7, <1>8 DEF Next

(* The counters of the evaluation keep their types: the retrieval           *)
(* statistics have a category only for an item that was seen, no more items *)
(* are asked than the dataset has.                                          *)
THEOREM TypeCorrect == Spec => []TypeOK
<1>1. TypeInv => TypeOK
  BY DEF TypeInv
<1> QED BY <1>1, TypeInit, TypeStep, PTL DEF Spec

-----------------------------------------------------------------------------
(* The report                                                               *)

(* overall counts the items with an expected document as soon as it is      *)
(* written, and just a count of none ends in a division by zero.            *)
ReportInv ==
  /\ pc \notin {"retrieval", "aborted"} => overall.n = Len(subset)
  /\ pc = "divided" => overall.n = 0
  /\ pc = "reported" => overall.n # 0

LEMMA ReportInit == Init => ReportInv
BY DEF Init, ReportInv

LEMMA ReportStep == TypeInv /\ ReportInv /\ [Next]_vars => ReportInv'
<1> SUFFICES ASSUME TypeInv, ReportInv, [Next]_vars PROVE ReportInv'
  OBVIOUS
<1>0. items \in Datasets /\ TypeOK
  BY DEF TypeInv
<1>1. CASE EvalRetrieval
  <2>1. items' = items
    BY <1>1 DEF EvalRetrieval
  <2>2. subset' = subset
    BY <2>1 DEF subset
  <2>3. CASE overall' = Stats(subset) /\ pc' = "routing"
    <3>1. overall'.n = Len(subset)
      BY <1>0, <2>3, SubsetParts, StatsParts
    <3> QED BY <2>2, <2>3, <3>1 DEF ReportInv
  <2>4. CASE pc' = "aborted"
    BY <2>4 DEF ReportInv
  <2> QED BY <1>1, <2>3, <2>4 DEF EvalRetrieval
<1>2. CASE EvalRouting \/ EvalAnonymization \/ EvalAnswer \/ AnswersDone
  <2>1. /\ items' = items /\ overall' = overall
        /\ pc \notin {"retrieval", "aborted", "divided"} /\ pc' \notin {"divided", "reported"}
    BY <1>2 DEF EvalRouting, EvalAnonymization, EvalAnswer, AnswersDone
  <2>2. subset' = subset
    BY <2>1 DEF subset
  <2> QED BY <2>1, <2>2 DEF ReportInv
<1>3. CASE EvalMinScoreSweep
  <2>1. items' = items /\ overall' = overall /\ pc = "sweep" /\ pc' \in {"report", "aborted"}
    BY <1>3 DEF EvalMinScoreSweep
  <2>2. subset' = subset
    BY <2>1 DEF subset
  <2> QED BY <2>1, <2>2 DEF ReportInv
<1>4. CASE PrintReport
  <2>0. \A c \in DOMAIN per_cat : per_cat[c].n # 0
    BY <1>0 DEF TypeOK, RetrievalStats
  <2>1. /\ items' = items /\ overall' = overall /\ pc = "report"
        /\ pc' = IF overall.n = 0 THEN "divided" ELSE "reported"
    BY <1>4, <2>0 DEF PrintReport
  <2>2. subset' = subset
    BY <2>1 DEF subset
  <2> QED BY <2>1, <2>2 DEF ReportInv
<1>5. CASE UNCHANGED vars
  <2>1. items' = items /\ overall' = overall /\ pc' = pc
    BY <1>5 DEF vars
  <2>2. subset' = subset
    BY <2>1 DEF subset
  <2> QED BY <2>1, <2>2 DEF ReportInv
<1> QED BY <1>1, <1>2, <1>3, <1>4, <1>5 DEF Next

LEMMA ReportSafe == TypeInv /\ ReportInv => ReportCompletes
<1> SUFFICES ASSUME TypeInv, ReportInv, pc \in {"reported", "divided"}
             PROVE  pc = "reported" <=> \E i \in DOMAIN items : items[i].expected_doc # None
  BY DEF ReportCompletes
<1>1. items \in Datasets
  BY DEF TypeInv
<1>2. pc = "reported" <=> Len(subset) # 0
  BY DEF ReportInv
<1>3. /\ subset \in Seq(Range(items))
      /\ \A x : x \in Range(subset) <=> x \in Range(items) /\ x.expected_doc # None
  BY <1>1, SubsetParts
<1>4. Len(subset) # 0 <=> \E x : x \in Range(subset)
  <2>1. Len(subset) \in Nat /\ DOMAIN subset = 1 .. Len(subset)
    BY <1>3, LenProperties
  <2>2. PICK l \in Nat : l = Len(subset)
    BY <2>1
  <2>3. l # 0 <=> \E i : i \in 1 .. l
    OBVIOUS
  <2>4. (\E i : i \in DOMAIN subset) <=> \E x : x \in Range(subset)
    BY DEF Range
  <2> QED BY <2>1, <2>2, <2>3, <2>4
<1>5. \A x : x \in Range(items) <=> \E i \in DOMAIN items : x = items[i]
  BY DEF Range
<1> QED BY <1>2, <1>3, <1>4, <1>5

(* A run of the evaluation that gets as far ends in a report just when some *)
(* item has an expected document, and else in a division by zero: that the  *)
(* rates of a category are divided unasked as well (evaluation.py:299-300,  *)
(* 350-354) does no harm, since a category is entered with its first item.  *)
THEOREM ReportsComplete == Spec => []ReportCompletes
<1>1. Init => TypeInv /\ ReportInv
  BY TypeInit, ReportInit
<1>2. TypeInv /\ ReportInv /\ [Next]_vars => (TypeInv /\ ReportInv)'
  BY TypeStep, ReportStep
<1> QED BY <1>1, <1>2, ReportSafe, PTL DEF Spec

-----------------------------------------------------------------------------
(* The sweep                                                                *)

(* The rows of a sweep over the dataset D.                                  *)
RowsOf(D) ==
  [T \in Thresholds |->
    [oos_refused |-> Cardinality({i \in DOMAIN D : oos(D[i]) /\ max_score(D[i]) < T}),
     ans_refused |-> Cardinality({i \in DOMAIN D : answerable(D[i]) /\ max_score(D[i]) < T}),
     ans_kept |-> Cardinality({i \in DOMAIN D :
                     answerable(D[i]) /\ D[i].expected_doc \in kept(D[i], T)}),
     ft_refused |-> Cardinality({i \in DOMAIN D : ftrap(D[i]) /\ max_score(D[i]) < T})]]

SweepInv ==
  /\ pc \in {"retrieval", "routing", "anonymization", "answers", "sweep", "aborted"} => rows = None
  /\ rows # None => rows = RowsOf(items)

LEMMA SweepInit == Init => SweepInv
BY DEF Init, SweepInv

LEMMA SweepStep == SweepInv /\ [Next]_vars => SweepInv'
<1> SUFFICES ASSUME SweepInv, [Next]_vars PROVE SweepInv'
  OBVIOUS
<1>1. CASE EvalMinScoreSweep
  <2>1. /\ items' = items /\ pc = "sweep"
        /\ \/ pc' = "report" /\ rows' = RowsOf(items)
           \/ pc' = "aborted" /\ rows' = rows
    BY <1>1 DEF EvalMinScoreSweep, Count, RowsOf
  <2> QED BY <2>1 DEF SweepInv
<1>2. CASE EvalRetrieval \/ EvalRouting \/ EvalAnonymization \/ EvalAnswer \/ AnswersDone
  <2>1. /\ items' = items /\ rows' = rows
        /\ pc \in {"retrieval", "routing", "anonymization", "answers"}
    BY <1>2 DEF EvalRetrieval, EvalRouting, EvalAnonymization, EvalAnswer, AnswersDone
  <2> QED BY <2>1 DEF SweepInv
<1>3. CASE PrintReport
  <2>1. items' = items /\ rows' = rows /\ pc' \in {"reported", "divided"}
    BY <1>3 DEF PrintReport
  <2> QED BY <2>1 DEF SweepInv
<1>4. CASE UNCHANGED vars
  BY <1>4 DEF vars, SweepInv
<1> QED BY <1>1, <1>2, <1>3, <1>4 DEF Next

(* The counts of a sweep, said of the search with the threshold.            *)
LEMMA RowsForetell ==
  ASSUME NEW D \in Datasets, NEW T \in Thresholds
  PROVE  /\ RowsOf(D)[T].oos_refused
              = Cardinality({i \in DOMAIN D : oos(D[i]) /\ search(D[i], T) = <<>>})
         /\ RowsOf(D)[T].ans_refused
              = Cardinality({i \in DOMAIN D : answerable(D[i]) /\ search(D[i], T) = <<>>})
         /\ RowsOf(D)[T].ans_kept
              = Cardinality({i \in DOMAIN D :
                   answerable(D[i]) /\ D[i].expected_doc \in docs(search(D[i], T))})
<1>1. T \in Nat \ {0}
  BY EvaluationAssumption
<1>2. \A i \in DOMAIN D : /\ max_score(D[i]) < T <=> search(D[i], T) = <<>>
                          /\ kept(D[i], T) = docs(search(D[i], T))
  <2> TAKE i \in DOMAIN D
  <2>1. Item(D[i])
    BY DatasetParts
  <2> QED BY <1>1, <2>1, FilterLater, Zenon
<1>3. {i \in DOMAIN D : oos(D[i]) /\ max_score(D[i]) < T}
      = {i \in DOMAIN D : oos(D[i]) /\ search(D[i], T) = <<>>}
  BY <1>2
<1>4. {i \in DOMAIN D : answerable(D[i]) /\ max_score(D[i]) < T}
      = {i \in DOMAIN D : answerable(D[i]) /\ search(D[i], T) = <<>>}
  BY <1>2
<1>5. {i \in DOMAIN D : answerable(D[i]) /\ D[i].expected_doc \in kept(D[i], T)}
      = {i \in DOMAIN D : answerable(D[i]) /\ D[i].expected_doc \in docs(search(D[i], T))}
  BY <1>2
<1> QED BY <1>3, <1>4, <1>5 DEF RowsOf

LEMMA SweepSafe == TypeInv /\ SweepInv => SweepPredicts
<1> SUFFICES ASSUME TypeInv, SweepInv, rows # None PROVE SweepPredicts
  BY DEF SweepPredicts
<1>1. items \in Datasets /\ rows = RowsOf(items)
  BY DEF TypeInv, SweepInv
<1> QED BY <1>1, RowsForetell DEF SweepPredicts, Count

(* eval_min_score_sweep (evaluation.py) searches once without a threshold   *)
(* and filters; the rows it reports are what searching with each threshold  *)
(* would have given, for every ranking and every TopK.                      *)
THEOREM SweepsPredict == Spec => []SweepPredicts
<1>1. Init => TypeInv /\ SweepInv
  BY TypeInit, SweepInit
<1>2. TypeInv /\ SweepInv /\ [Next]_vars => (TypeInv /\ SweepInv)'
  BY TypeStep, SweepStep
<1> QED BY <1>1, <1>2, SweepSafe, PTL DEF Spec

-----------------------------------------------------------------------------
(* The sweep and the answers                                                *)

(* The agent has neither the tool nor a source to answer from.              *)
Unserved(it) == ~routed(it) /\ search(it, None) = <<>>

OosUnserved(D) == {i \in DOMAIN D : oos(D[i]) /\ Unserved(D[i])}
AnsUnserved(D) == {i \in DOMAIN D : answerable(D[i]) /\ Unserved(D[i])}

(* Every unserved item that was asked was refused, or failed; and the sweep *)
(* comes before all or after all are asked.                                 *)
AskedInv ==
  /\ pc \in {"retrieval", "routing", "anonymization"} => answers.asked = 0
  /\ pc \in {"sweep", "report", "reported", "divided"} => answers.asked \in {0, Len(items)}
  /\ Cardinality((1 .. answers.asked) \cap OosUnserved(items))
       <= answers.refuse_ok + answers.failed
  /\ Cardinality((1 .. answers.asked) \cap AnsUnserved(items))
       <= answers.answer_wrong_refuse + answers.failed

(* An answer that adds to its counters what its item adds to the unserved.  *)
LEMMA AddsUp ==
  ASSUME NEW k \in Nat, NEW S, NEW m \in Nat, NEW r \in Nat,
         Cardinality((1 .. k) \cap S) <= m,
         k + 1 \in S => r >= 1
  PROVE  Cardinality((1 .. k + 1) \cap S) <= m + r
<1>1. k \in Nat /\ m \in Nat /\ r \in Nat /\ (k + 1 \in S => r >= 1)
  OBVIOUS
<1>0. Cardinality((1 .. k) \cap S) \in Nat
  BY <1>1, OneMore
<1>2. PICK a \in Nat : a = Cardinality((1 .. k) \cap S) /\ a <= m
  BY <1>0
<1>3. Cardinality((1 .. k + 1) \cap S) = a + (IF k + 1 \in S THEN 1 ELSE 0)
  BY <1>2, OneMore
<1>4. a + (IF k + 1 \in S THEN 1 ELSE 0) <= m + r
  BY <1>1, <1>2
<1> QED BY <1>3, <1>4

LEMMA AskedInit == Init => AskedInv
<1> SUFFICES ASSUME Init PROVE AskedInv
  OBVIOUS
<1>1. /\ pc = "retrieval" /\ answers.asked = 0 /\ answers.refuse_ok = 0 /\ answers.failed = 0
      /\ answers.answer_wrong_refuse = 0
  BY DEF Init
<1>2. \A S : (1 .. 0) \cap S = {}
  OBVIOUS
<1> QED BY <1>1, <1>2, FS_EmptySet DEF AskedInv

LEMMA AskedStep == TypeInv /\ AskedInv /\ [Next]_vars => AskedInv'
<1> SUFFICES ASSUME TypeInv, AskedInv, [Next]_vars PROVE AskedInv'
  OBVIOUS
<1>1. CASE EvalRetrieval \/ EvalRouting \/ EvalAnonymization
  <2>1. /\ UNCHANGED <<items, answers>>
        /\ pc \in {"retrieval", "routing", "anonymization"}
    BY <1>1 DEF EvalRetrieval, EvalRouting, EvalAnonymization
  <2> QED BY <2>1 DEF AskedInv
<1>2. CASE EvalAnswer
  <2> DEFINE k == answers.asked
             it == items[k + 1]
             refusable == it.category \in REFUSE_CATEGORIES
  <2>1. UNCHANGED <<items, pc>> /\ pc = "answers"
    BY <1>2 DEF EvalAnswer
  <2>2. /\ k \in Nat /\ answers.failed \in Nat /\ answers.refuse_ok \in Nat
        /\ answers.answer_wrong_refuse \in Nat
    BY DEF TypeInv, TypeOK, AnswerCounters
  <2>3. PICK reply \in Replies(it) :
          /\ answers'.asked = k + 1
          /\ answers'.failed = answers.failed + one(~(reply # "exception"))
          /\ answers'.refuse_ok = answers.refuse_ok + one(reply = "refusal" /\ refusable)
          /\ answers'.answer_wrong_refuse
               = answers.answer_wrong_refuse + one(reply = "refusal" /\ answerable(it))
    BY <1>2 DEF EvalAnswer
  <2>4. PICK f, o, w \in {0, 1} :
          /\ f = one(~(reply # "exception")) /\ o = one(reply = "refusal" /\ refusable)
          /\ w = one(reply = "refusal" /\ answerable(it))
    BY DEF one
  <2>5. Unserved(it) => reply \in {"refusal", "exception"}
    BY <2>3 DEF Replies, Unserved
  <2>6. k + 1 \in OosUnserved(items) => o + f >= 1
    <3> SUFFICES ASSUME k + 1 \in OosUnserved(items) PROVE o + f >= 1
      OBVIOUS
    <3>1. oos(it) /\ Unserved(it)
      BY DEF OosUnserved
    <3>2. refusable
      BY <3>1 DEF oos, REFUSE_CATEGORIES
    <3> QED BY <2>4, <2>5, <3>1, <3>2 DEF one
  <2>7. k + 1 \in AnsUnserved(items) => w + f >= 1
    <3> SUFFICES ASSUME k + 1 \in AnsUnserved(items) PROVE w + f >= 1
      OBVIOUS
    <3>1. answerable(it) /\ Unserved(it)
      BY DEF AnsUnserved
    <3> QED BY <2>4, <2>5, <3>1 DEF one
  <2> HIDE DEF k, it, refusable
  <2>8. Cardinality((1 .. k + 1) \cap OosUnserved(items))
          <= answers.refuse_ok + answers.failed + (o + f)
    <3>1. Cardinality((1 .. k) \cap OosUnserved(items))
            <= answers.refuse_ok + answers.failed
      BY DEF AskedInv, k
    <3>2. answers.refuse_ok + answers.failed \in Nat /\ o + f \in Nat
      BY <2>2
    <3> QED BY <2>2, <2>6, <3>1, <3>2, AddsUp
  <2>9. Cardinality((1 .. k + 1) \cap AnsUnserved(items))
          <= answers.answer_wrong_refuse + answers.failed + (w + f)
    <3>1. Cardinality((1 .. k) \cap AnsUnserved(items))
            <= answers.answer_wrong_refuse + answers.failed
      BY DEF AskedInv, k
    <3>2. answers.answer_wrong_refuse + answers.failed \in Nat /\ w + f \in Nat
      BY <2>2
    <3> QED BY <2>2, <2>7, <3>1, <3>2, AddsUp
  <2>10. answers'.refuse_ok + answers'.failed = answers.refuse_ok + answers.failed + (o + f)
    BY <2>2, <2>3, <2>4
  <2>11. answers'.answer_wrong_refuse + answers'.failed
           = answers.answer_wrong_refuse + answers.failed + (w + f)
    BY <2>2, <2>3, <2>4
  <2>12. /\ pc' \notin {"retrieval", "routing", "anonymization"}
         /\ pc' \notin {"sweep", "report", "reported", "divided"}
         /\ items' = items /\ answers'.asked = k + 1
    BY <2>1, <2>3
  <2> QED BY <2>8, <2>9, <2>10, <2>11, <2>12 DEF AskedInv
<1>3. CASE AnswersDone
  <2>1. UNCHANGED <<items, answers>> /\ answers.asked = Len(items) /\ pc' \in {"sweep", "report"}
    BY <1>3 DEF AnswersDone
  <2> QED BY <2>1 DEF AskedInv
<1>4. CASE EvalMinScoreSweep \/ PrintReport
  <2>1. /\ UNCHANGED <<items, answers>> /\ pc \in {"sweep", "report"}
        /\ pc' \in {"report", "aborted", "reported", "divided"}
    BY <1>4 DEF EvalMinScoreSweep, PrintReport
  <2> QED BY <2>1 DEF AskedInv
<1>5. CASE UNCHANGED vars
  BY <1>5 DEF vars, AskedInv
<1> QED BY <1>1, <1>2, <1>3, <1>4, <1>5 DEF Next

(* What is counted in two sets at most counts in the whole.                 *)
LEMMA CountedApart ==
  ASSUME NEW D \in Datasets, NEW A \in SUBSET DOMAIN D, NEW B \in SUBSET DOMAIN D,
         NEW C \in SUBSET DOMAIN D, A \subseteq B \cup C
  PROVE  Cardinality(A) <= Cardinality(B) + Cardinality(C)
<1>1. IsFiniteSet(A) /\ IsFiniteSet(B) /\ IsFiniteSet(C) /\ B \cup C \in SUBSET DOMAIN D
  BY CountType
<1>2. /\ Cardinality(A) \in Nat /\ Cardinality(B) \in Nat /\ Cardinality(C) \in Nat
      /\ Cardinality(B \cup C) \in Nat /\ Cardinality(B \cap C) \in Nat /\ IsFiniteSet(B \cup C)
  <2>1. B \cap C \in SUBSET DOMAIN D
    OBVIOUS
  <2> QED BY <1>1, <2>1, CountType
<1>3. Cardinality(A) <= Cardinality(B \cup C)
  BY <1>2, FS_Subset
<1>4. Cardinality(B \cup C) = Cardinality(B) + Cardinality(C) - Cardinality(B \cap C)
  BY <1>1, FS_Union
<1> QED BY <1>2, <1>3, <1>4

LEMMA AskedSafe == TypeInv /\ SweepInv /\ AskedInv => RefusalsForetold
<1> SUFFICES ASSUME TypeInv, SweepInv, AskedInv, rows # None, answers.asked > 0
             PROVE  RefusalsForetold
  BY DEF RefusalsForetold
<1>1. /\ items \in Datasets /\ rows = RowsOf(items)
      /\ Len(items) \in Nat /\ DOMAIN items = 1 .. Len(items)
  BY DatasetParts DEF TypeInv, SweepInv
<1>2. answers.asked = Len(items)
  <2>1. answers.asked # 0
    OBVIOUS
  <2>2. pc \in {"report", "reported", "divided"}
    BY DEF SweepInv, TypeInv, TypeOK
  <2> QED BY <2>1, <2>2 DEF AskedInv
<1> DEFINE OosRefused == {i \in DOMAIN items : oos(items[i]) /\ search(items[i], MinScore) = <<>>}
           AnsRefused == {i \in DOMAIN items :
                            answerable(items[i]) /\ search(items[i], MinScore) = <<>>}
           OosRouted == {i \in DOMAIN items : oos(items[i]) /\ routed(items[i])}
           AnsRouted == {i \in DOMAIN items : answerable(items[i]) /\ routed(items[i])}
<1>3. /\ rows[MinScore].oos_refused = Cardinality(OosRefused)
      /\ rows[MinScore].ans_refused = Cardinality(AnsRefused)
  BY <1>1, RowsForetell, EvaluationAssumption
<1>4. \A it : search(it, MinScore) = <<>> => Unserved(it) \/ routed(it)
  BY SearchDefault DEF Unserved
<1>5. OosRefused \subseteq OosUnserved(items) \cup OosRouted
  BY <1>4 DEF OosUnserved
<1>6. AnsRefused \subseteq AnsUnserved(items) \cup AnsRouted
  BY <1>4 DEF AnsUnserved
<1>7. /\ OosRefused \in SUBSET DOMAIN items /\ AnsRefused \in SUBSET DOMAIN items
      /\ OosRouted \in SUBSET DOMAIN items /\ AnsRouted \in SUBSET DOMAIN items
      /\ OosUnserved(items) \in SUBSET DOMAIN items /\ AnsUnserved(items) \in SUBSET DOMAIN items
  BY DEF OosUnserved, AnsUnserved
<1>8. /\ Count(LAMBDA it : oos(it) /\ routed(it)) = Cardinality(OosRouted)
      /\ Count(LAMBDA it : answerable(it) /\ routed(it)) = Cardinality(AnsRouted)
  BY DEF Count
<1> HIDE DEF OosRefused, AnsRefused, OosRouted, AnsRouted
<1>9. /\ Cardinality(OosRefused) <= Cardinality(OosUnserved(items)) + Cardinality(OosRouted)
      /\ Cardinality(AnsRefused) <= Cardinality(AnsUnserved(items)) + Cardinality(AnsRouted)
  BY <1>1, <1>5, <1>6, <1>7, CountedApart
<1>10. /\ Cardinality(OosUnserved(items)) <= answers.refuse_ok + answers.failed
       /\ Cardinality(AnsUnserved(items)) <= answers.answer_wrong_refuse + answers.failed
  <2>1. \A S \in SUBSET DOMAIN items : (1 .. answers.asked) \cap S = S
    BY <1>1, <1>2
  <2> QED BY <1>7, <2>1 DEF AskedInv
<1>11. /\ Cardinality(OosRefused) \in Nat /\ Cardinality(OosUnserved(items)) \in Nat
       /\ Cardinality(AnsRefused) \in Nat /\ Cardinality(AnsUnserved(items)) \in Nat
       /\ Cardinality(OosRouted) \in Nat /\ Cardinality(AnsRouted) \in Nat
  BY <1>1, <1>7, CountType
<1>12. answers.refuse_ok \in Nat /\ answers.failed \in Nat /\ answers.answer_wrong_refuse \in Nat
  BY DEF TypeInv, TypeOK, AnswerCounters
<1>13. /\ Cardinality(OosRefused) <= answers.refuse_ok + answers.failed + Cardinality(OosRouted)
       /\ Cardinality(AnsRefused)
            <= answers.answer_wrong_refuse + answers.failed + Cardinality(AnsRouted)
  BY <1>9, <1>10, <1>11, <1>12
<1> QED BY <1>3, <1>8, <1>13 DEF RefusalsForetold

(* What the sweep counts as refused at settings.min_score the agent refused *)
(* as well, but for items that failed or that the router gave to the tool.  *)
THEOREM RefusalsAreForetold == Spec => []RefusalsForetold
<1>1. Init => TypeInv /\ SweepInv /\ AskedInv
  BY TypeInit, SweepInit, AskedInit
<1>2. TypeInv /\ SweepInv /\ AskedInv /\ [Next]_vars => (TypeInv /\ SweepInv /\ AskedInv)'
  BY TypeStep, SweepStep, AskedStep
<1> QED BY <1>1, <1>2, AskedSafe, PTL DEF Spec

-----------------------------------------------------------------------------
(* The sweep and the retrieval                                              *)

Places(s, Q) == {i \in DOMAIN s : s[i] \in Q}

LEMMA AppendPlaces ==
  ASSUME NEW X, NEW s \in Seq(X), NEW x \in X, NEW Q
  PROVE  /\ Cardinality(Places(s, Q)) \in Nat
         /\ Cardinality(Places(Append(s, x), Q))
              = Cardinality(Places(s, Q)) + (IF x \in Q THEN 1 ELSE 0)
<1>1. PICK n \in Nat : n = Len(s) /\ DOMAIN s = 1 .. n
  BY LenProperties
<1>2. PICK t : t = Append(s, x)
  OBVIOUS
<1>3. /\ t \in Seq(X) /\ DOMAIN t = 1 .. n + 1 /\ t[n + 1] = x
      /\ \A k \in 1 .. n : t[k] = s[k]
  BY <1>1, <1>2, AppendProperties, LenProperties
<1>4. PICK P : P = Places(t, Q)
  OBVIOUS
<1>5. (1 .. n) \cap P = Places(s, Q)
  <2>1. \A k \in 1 .. n : k \in 1 .. n + 1
    OBVIOUS
  <2> QED BY <1>1, <1>3, <1>4, <2>1 DEF Places
<1>6. (1 .. n + 1) \cap P = Places(t, Q)
  BY <1>3, <1>4 DEF Places
<1>7. n + 1 \in P <=> x \in Q
  BY <1>3, <1>4 DEF Places
<1>8. /\ Cardinality((1 .. n) \cap P) \in Nat
      /\ Cardinality((1 .. n + 1) \cap P)
           = Cardinality((1 .. n) \cap P) + (IF n + 1 \in P THEN 1 ELSE 0)
  BY <1>1, OneMore
<1> QED BY <1>2, <1>5, <1>6, <1>7, <1>8

(* A selection has what it selects as often as the whole has it.            *)
LEMMA SelectedPlaces ==
  ASSUME NEW X, NEW s \in Seq(X), NEW S, NEW Q
  PROVE  Cardinality(Places(Selected(s, S), Q)) = Cardinality(Places(s, S \cap Q))
<1> DEFINE u == CHOOSE v : Selects(v, s, S, Len(s))
           P == Places(s, S \cap Q)
           Good(i) == /\ u[i] \in Seq(X)
                      /\ Cardinality(Places(u[i], Q)) = Cardinality((1 .. i) \cap P)
           B == {i \in 0 .. Len(s) : ~ Good(i)}
<1>1. Len(s) \in Nat /\ DOMAIN s = 1 .. Len(s)
  BY LenProperties
<1>2. Selects(u, s, S, Len(s))
  BY <1>1, SelectsExists
<1>3. Selected(s, S) = u[Len(s)]
  BY DEF Selected, Selects
<1>0. \A i \in 1 .. Len(s) : i \in P <=> s[i] \in S /\ s[i] \in Q
  BY <1>1 DEF Places
<1> HIDE DEF u, P
<1>4. \A i \in 0 .. Len(s) : u[i] = IF i = 0 THEN <<>>
                                    ELSE IF s[i] \in S THEN Append(u[i - 1], s[i]) ELSE u[i - 1]
  BY <1>2 DEF Selects
<1>5. Good(0)
  <2>1. u[0] = <<>> /\ <<>> \in Seq(X)
    BY <1>1, <1>4
  <2>2. Places(<<>>, Q) = {} /\ (1 .. 0) \cap P = {}
    BY DEF Places
  <2> QED BY <2>1, <2>2
<1>6. ASSUME NEW i \in 1 .. Len(s), Good(i - 1) PROVE Good(i)
  <2>1. s[i] \in X /\ i \in 0 .. Len(s) /\ i # 0 /\ u[i - 1] \in Seq(X)
    BY <1>1, <1>6, ElementOfSeq
  <2>2. /\ Cardinality((1 .. i) \cap P)
             = Cardinality((1 .. i - 1) \cap P) + (IF i \in P THEN 1 ELSE 0)
        /\ Cardinality((1 .. i - 1) \cap P) \in Nat
    <3>1. PICK j \in Nat : j = i - 1 /\ j + 1 = i
      BY <1>1
    <3>2. /\ Cardinality((1 .. j) \cap P) \in Nat
          /\ Cardinality((1 .. j + 1) \cap P)
               = Cardinality((1 .. j) \cap P) + (IF j + 1 \in P THEN 1 ELSE 0)
      BY OneMore
    <3> QED BY <3>1, <3>2
  <2>3. i \in P <=> s[i] \in S /\ s[i] \in Q
    BY <1>0
  <2>4. Cardinality(Places(u[i - 1], Q)) = Cardinality((1 .. i - 1) \cap P)
    BY <1>6
  <2>5. CASE s[i] \in S
    <3>1. u[i] = Append(u[i - 1], s[i])
      BY <1>4, <2>1, <2>5
    <3>2. u[i] \in Seq(X)
      BY <2>1, <3>1, AppendProperties
    <3>3. Cardinality(Places(u[i], Q))
            = Cardinality(Places(u[i - 1], Q)) + (IF s[i] \in Q THEN 1 ELSE 0)
      <4>1. PICK t, x : t = u[i - 1] /\ x = s[i]
        OBVIOUS
      <4>2. t \in Seq(X) /\ x \in X
        BY <2>1, <4>1
      <4> HIDE DEF Good, B
      <4>3. Cardinality(Places(Append(t, x), Q))
              = Cardinality(Places(t, Q)) + (IF x \in Q THEN 1 ELSE 0)
        BY <4>2, AppendPlaces
      <4> QED BY <3>1, <4>1, <4>3, Zenon
    <3>4. Cardinality(Places(u[i], Q)) = Cardinality((1 .. i) \cap P)
      BY <2>2, <2>3, <2>4, <2>5, <3>3
    <3> QED BY <3>2, <3>4
  <2>6. CASE s[i] \notin S
    <3>1. u[i] = u[i - 1]
      BY <1>4, <2>1, <2>6
    <3>2. Cardinality(Places(u[i], Q)) = Cardinality((1 .. i) \cap P)
      BY <2>2, <2>3, <2>4, <2>6, <3>1
    <3> QED BY <2>1, <3>1, <3>2
  <2> QED BY <2>5, <2>6
<1>7. B = {}
  <2> SUFFICES ASSUME B # {} PROVE FALSE
    OBVIOUS
  <2>0. B \subseteq Nat
    BY <1>1
  <2>1. PICK m \in B : \A k \in B : m <= k
    BY <2>0, NatMin
  <2>2. m \in 0 .. Len(s) /\ ~Good(m)
    OBVIOUS
  <2> HIDE DEF Good
  <2>3. m # 0
    BY <1>5, <2>2
  <2>4. m \in 1 .. Len(s) /\ m - 1 \in 0 .. Len(s) /\ ~(m <= m - 1)
    BY <1>1, <2>2, <2>3
  <2>5. Good(m - 1)
    BY <2>1, <2>4
  <2> QED BY <1>6, <2>2, <2>4, <2>5
<1>8. Good(Len(s))
  <2> HIDE DEF Good
  <2> QED BY <1>1, <1>7
<1>9. (1 .. Len(s)) \cap P = P
  BY <1>1 DEF P, Places
<1> QED BY <1>3, <1>8, <1>9 DEF P

(* The items of a category whose expected document eval_retrieval found.    *)
Found(c) == {i \in DOMAIN items :
               /\ items[i].expected_doc # None /\ items[i].category = c
               /\ items[i].expected_doc \in docs(search(items[i], None))}

LEMMA CategoryHits ==
  ASSUME items \in Datasets, NEW c
  PROVE  Stats(ofCategory(c)).hits = Cardinality(Found(c))
<1> DEFINE Q == {it \in Range(items) : it.expected_doc \in docs(search(it, None))}
           S == {it \in Range(subset) : it.category = c}
           R == {it \in Range(items) : it.expected_doc # None}
<1>1. /\ items \in Seq(Range(items)) /\ DOMAIN items = 1 .. Len(items)
  BY DatasetParts
<1>2. /\ subset \in Seq(Range(items))
      /\ \A x : x \in Range(subset) <=> x \in Range(items) /\ x.expected_doc # None
  BY SubsetParts
<1>3. /\ ofCategory(c) \in Seq(Range(subset)) /\ DOMAIN ofCategory(c) = 1 .. Len(ofCategory(c))
      /\ \A i \in DOMAIN ofCategory(c) : Item(ofCategory(c)[i])
  BY OfCategoryParts, LenProperties
<1>4. Stats(ofCategory(c)).hits = Cardinality(Hits(ofCategory(c)))
  BY <1>3, StatsParts
<1>5. Hits(ofCategory(c)) = Places(ofCategory(c), Q)
  <2>1. \A i \in DOMAIN ofCategory(c) : ofCategory(c)[i] \in Range(items)
    <3>1. \A i \in DOMAIN ofCategory(c) : ofCategory(c)[i] \in Range(subset)
      BY <1>3, ElementOfSeq
    <3> QED BY <1>2, <3>1
  <2> QED BY <2>1 DEF Hits, Places
<1>6. ofCategory(c) = Selected(subset, S) /\ subset = Selected(items, R)
  BY DEF ofCategory, subset
<1>7. Places(items, R \cap (S \cap Q)) = Found(c)
  <2>1. \A i \in DOMAIN items : items[i] \in Range(items)
    BY DEF Range
  <2>2. \A x \in Range(items) :
          x \in R \cap (S \cap Q) <=>
            x.expected_doc # None /\ x.category = c /\ x.expected_doc \in docs(search(x, None))
    BY <1>2
  <2> HIDE DEF Q, R, S
  <2> QED BY <2>1, <2>2 DEF Places, Found
<1> HIDE DEF Q, R, S
<1>8. Cardinality(Places(ofCategory(c), Q)) = Cardinality(Places(subset, S \cap Q))
  BY <1>2, <1>6, SelectedPlaces
<1>9. Cardinality(Places(subset, S \cap Q)) = Cardinality(Places(items, R \cap (S \cap Q)))
  BY <1>1, <1>6, SelectedPlaces
<1> QED BY <1>4, <1>5, <1>7, <1>8, <1>9

(* per_cat has the statistics of every category that was seen.              *)
CategoryInv ==
  pc \notin {"retrieval", "aborted"} =>
    per_cat = [c \in {it.category : it \in Range(subset)} |-> Stats(ofCategory(c))]

LEMMA CategoryInit == Init => CategoryInv
BY DEF Init, CategoryInv

LEMMA CategoryStep == CategoryInv /\ [Next]_vars => CategoryInv'
<1> SUFFICES ASSUME CategoryInv, [Next]_vars PROVE CategoryInv'
  OBVIOUS
<1>1. items' = items
  BY DEF Next, vars, EvalRetrieval, EvalRouting, EvalAnonymization, EvalAnswer, AnswersDone,
         EvalMinScoreSweep, PrintReport
<1>2. subset' = subset /\ \A c : Selected(subset', {it \in Range(subset') : it.category = c})
                                   = Selected(subset, {it \in Range(subset) : it.category = c})
  <2>1. subset' = subset
    BY <1>1 DEF subset
  <2> QED BY <2>1
<1>3. CASE EvalRetrieval
  <2>1. \/ pc' = "aborted"
        \/ per_cat' = [c \in {it.category : it \in Range(subset)} |-> Stats(ofCategory(c))]
    BY <1>3 DEF EvalRetrieval
  <2> QED BY <1>2, <2>1 DEF CategoryInv, ofCategory
<1>4. CASE \/ EvalRouting \/ EvalAnonymization \/ EvalAnswer \/ AnswersDone
           \/ EvalMinScoreSweep \/ PrintReport
  <2>1. per_cat' = per_cat /\ pc \notin {"retrieval", "aborted"}
    BY <1>4 DEF EvalRouting, EvalAnonymization, EvalAnswer, AnswersDone,
                EvalMinScoreSweep, PrintReport
  <2> QED BY <1>2, <2>1 DEF CategoryInv, ofCategory
<1>5. CASE UNCHANGED vars
  <2>1. per_cat' = per_cat /\ pc' = pc
    BY <1>5 DEF vars
  <2> QED BY <1>2, <2>1 DEF CategoryInv, ofCategory
<1> QED BY <1>3, <1>4, <1>5 DEF Next

LEMMA CategorySafe == TypeInv /\ SweepInv /\ CategoryInv => SweepAgrees
<1> DEFINE hits(c) == IF c \in DOMAIN per_cat THEN per_cat[c].hits ELSE 0
<1> SUFFICES ASSUME TypeInv, SweepInv, CategoryInv, rows # None
             PROVE  rows[MinScore].ans_kept = hits("topic") + hits("status_lookup")
  BY DEF SweepAgrees
<1>1. items \in Datasets /\ rows = RowsOf(items)
  BY DEF TypeInv, SweepInv
<1>2. per_cat = [c \in {it.category : it \in Range(subset)} |-> Stats(ofCategory(c))]
  <2>1. pc \notin {"retrieval", "aborted"}
    BY DEF SweepInv
  <2> QED BY <2>1 DEF CategoryInv
<1>3. ASSUME NEW c PROVE hits(c) = Cardinality(Found(c))
  <2>1. CASE c \in DOMAIN per_cat
    <3>1. per_cat[c] = Stats(ofCategory(c))
      BY <1>2, <2>1
    <3> QED BY <1>1, <2>1, <3>1, CategoryHits
  <2>2. CASE c \notin DOMAIN per_cat
    <3>1. \A it \in Range(subset) : it.category # c
      BY <1>2, <2>2
    <3>2. \A i \in DOMAIN items : items[i] \in Range(items)
      BY DEF Range
    <3>3. \A x : x \in Range(subset) <=> x \in Range(items) /\ x.expected_doc # None
      BY <1>1, SubsetParts
    <3>4. Found(c) = {}
      BY <3>1, <3>2, <3>3 DEF Found
    <3> QED BY <2>2, <3>4, FS_EmptySet
  <2> QED BY <2>1, <2>2
<1> HIDE DEF hits
<1> DEFINE A == {i \in DOMAIN items :
                   /\ answerable(items[i])
                   /\ items[i].expected_doc \in docs(search(items[i], MinScore))}
<1>4. rows[MinScore].ans_kept = Cardinality(A)
  BY <1>1, RowsForetell, EvaluationAssumption
<1>5. A = Found("topic") \cup Found("status_lookup")
  <2>1. \A i \in DOMAIN items :
          items[i].category \notin REFUSE_CATEGORIES
            <=> items[i].category = "topic" \/ items[i].category = "status_lookup"
    <3> TAKE i \in DOMAIN items
    <3>1. items[i].category \in Categories
      BY <1>1, DatasetParts DEF Item
    <3> QED BY <3>1 DEF Categories, REFUSE_CATEGORIES
  <2>2. \A it : search(it, None) = search(it, MinScore)
    BY SearchDefault
  <2> QED BY <2>1, <2>2 DEF Found, answerable
<1>6. Found("topic") \cap Found("status_lookup") = {}
  BY DEF Found
<1>7. /\ IsFiniteSet(Found("topic")) /\ Cardinality(Found("topic")) \in Nat
      /\ IsFiniteSet(Found("status_lookup")) /\ Cardinality(Found("status_lookup")) \in Nat
  <2>1. Found("topic") \in SUBSET DOMAIN items /\ Found("status_lookup") \in SUBSET DOMAIN items
    BY DEF Found
  <2> QED BY <1>1, <2>1, CountType
<1> HIDE DEF A
<1>8. Cardinality(A) = Cardinality(Found("topic")) + Cardinality(Found("status_lookup"))
  <2>1. Cardinality(Found("topic") \cup Found("status_lookup"))
          = Cardinality(Found("topic")) + Cardinality(Found("status_lookup"))
              - Cardinality(Found("topic") \cap Found("status_lookup"))
    BY <1>7, FS_Union
  <2>2. Cardinality(Found("topic") \cap Found("status_lookup")) = 0
    BY <1>6, FS_EmptySet
  <2> QED BY <1>5, <1>7, <2>1, <2>2
<1> QED BY <1>3, <1>4, <1>8

(* Two counts of eval_retrieval and eval_min_score_sweep (evaluation.py),   *)
(* made on different ways, agree: at settings.min_score the sweep keeps the *)
(* expected document of as many answerable requests as retrieval had hits.  *)
THEOREM SweepsAgree == Spec => []SweepAgrees
<1>1. Init => TypeInv /\ SweepInv /\ CategoryInv
  BY TypeInit, SweepInit, CategoryInit
<1>2. TypeInv /\ SweepInv /\ CategoryInv /\ [Next]_vars => (TypeInv /\ SweepInv /\ CategoryInv)'
  BY TypeStep, SweepStep, CategoryStep
<1> QED BY <1>1, <1>2, CategorySafe, PTL DEF Spec

-----------------------------------------------------------------------------
(* Passages of a masked text                                               *)

Clean(w, o, n) == \A k \in 1 .. n : w[o + k] \notin Kinds
Copied(w, o, n, t, q) == q + n <= Len(t) /\ \A k \in 1 .. n : w[o + k] = t[q + k]

(* Every passage of w without a tag is a passage of t. *)
From(w, t) ==
  \A o, n \in Nat : o + n <= Len(w) /\ Clean(w, o, n) => \E q \in Nat : Copied(w, o, n, t, q)

(* What w ends with, from its last tag on, is what the first i symbols of t *)
(* end with.                                                                *)
Suffix(w, t, i) ==
  \A n \in Nat \ {0} :
    n <= Len(w) /\ Clean(w, Len(w) - n, n) => n <= i /\ Copied(w, Len(w) - n, n, t, i - n)

LEMMA FromSelf ==
  ASSUME NEW Y, NEW t \in Seq(Y)
  PROVE  From(t, t)
BY DEF From, Copied

LEMMA FromTrans ==
  ASSUME NEW u, NEW v, NEW w, From(u, v), From(v, w)
  PROVE  From(u, w)
<1> SUFFICES ASSUME NEW o \in Nat, NEW n \in Nat, o + n <= Len(u), Clean(u, o, n)
             PROVE  \E q \in Nat : Copied(u, o, n, w, q)
  BY DEF From
<1>1. PICK a \in Nat : Copied(u, o, n, v, a)
  BY DEF From
<1>2. a + n <= Len(v) /\ Clean(v, a, n)
  BY <1>1 DEF Copied, Clean
<1>3. PICK b \in Nat : Copied(v, a, n, w, b)
  BY <1>2 DEF From
<1>4. Copied(u, o, n, w, b)
  BY <1>1, <1>3 DEF Copied
<1> QED BY <1>4

(* One more symbol: a tag, or the next symbol of t.                         *)
LEMMA FromAppend ==
  ASSUME NEW Y, NEW w \in Seq(Y), NEW t \in Seq(Y), NEW c \in Y, From(w, t),
         NEW i \in 1 .. Len(t), c \in Kinds \/ (c = t[i] /\ Suffix(w, t, i - 1))
  PROVE  From(Append(w, c), t) /\ Suffix(Append(w, c), t, i)
<1> DEFINE x == Append(w, c)
<1>1. PICK l \in Nat, m \in Nat : l = Len(w) /\ m = Len(t)
  BY LenProperties
<1>2. Len(x) = l + 1 /\ (\A k \in 1 .. l : x[k] = w[k]) /\ x[l + 1] = c
  BY <1>1, AppendProperties
<1> HIDE DEF x
<1>3. i \in Nat /\ 1 <= i /\ i <= m
  BY <1>1
<1>4. ASSUME NEW n \in Nat \ {0}, n <= l + 1, Clean(x, l + 1 - n, n)
      PROVE  n <= i /\ Copied(x, l + 1 - n, n, t, i - n)
  <2>1. x[l + 1] \notin Kinds
    <3>1. n \in 1 .. n /\ (l + 1 - n) + n = l + 1
      OBVIOUS
    <3> QED BY <1>4, <3>1 DEF Clean
  <2>2. c = t[i] /\ Suffix(w, t, i - 1)
    BY <1>2, <2>1
  <2>3. CASE n = 1
    <3>1. (i - n) + n <= m /\ \A k \in 1 .. n : (l + 1 - n) + k = l + 1 /\ (i - n) + k = i
      BY <1>3, <2>3
    <3> QED BY <1>1, <1>2, <1>3, <2>2, <2>3, <3>1 DEF Copied
  <2>4. CASE n # 1
    <3>1. n - 1 \in Nat \ {0} /\ n - 1 <= l /\ l - (n - 1) = l + 1 - n
          /\ (i - 1) - (n - 1) = i - n
      BY <1>3, <1>4, <2>4
    <3>2. \A k \in 1 .. n - 1 : k \in 1 .. n /\ (l + 1 - n) + k \in 1 .. l
      BY <1>4
    <3>3. Clean(w, l - (n - 1), n - 1)
      <4> SUFFICES ASSUME NEW k \in 1 .. n - 1 PROVE w[(l + 1 - n) + k] \notin Kinds
        BY <3>1 DEF Clean
      <4> QED BY <1>2, <1>4, <3>2 DEF Clean
    <3>4. n - 1 <= i - 1 /\ Copied(w, l - (n - 1), n - 1, t, (i - 1) - (n - 1))
      BY <1>1, <2>2, <3>1, <3>3 DEF Suffix
    <3>5. Copied(w, l + 1 - n, n - 1, t, i - n)
      BY <3>1, <3>4
    <3>6. \A k \in 1 .. n : x[(l + 1 - n) + k] = t[(i - n) + k]
      <4> TAKE k \in 1 .. n
      <4>1. CASE k = n
        <5>1. (l + 1 - n) + k = l + 1 /\ (i - n) + k = i
          BY <1>3, <4>1
        <5> QED BY <1>2, <2>2, <5>1
      <4>2. CASE k # n
        <5>1. k \in 1 .. n - 1
          BY <4>2
        <5>2. x[(l + 1 - n) + k] = w[(l + 1 - n) + k]
          BY <1>2, <3>2, <5>1
        <5> QED BY <3>5, <5>1, <5>2 DEF Copied
      <4> QED BY <4>1, <4>2
    <3>7. n <= i /\ (i - n) + n <= Len(t)
      BY <1>1, <1>3, <3>4
    <3> QED BY <3>6, <3>7 DEF Copied
  <2> QED BY <2>3, <2>4
<1>5. Suffix(x, t, i)
  BY <1>2, <1>4 DEF Suffix
<1>6. From(x, t)
  <2> SUFFICES ASSUME NEW o \in Nat, NEW n \in Nat, o + n <= l + 1, Clean(x, o, n)
               PROVE  \E q \in Nat : Copied(x, o, n, t, q)
    BY <1>2 DEF From
  <2>1. CASE o + n <= l
    <3>1. \A k \in 1 .. n : o + k \in 1 .. l
      BY <2>1
    <3>2. \A k \in 1 .. n : x[o + k] = w[o + k]
      BY <1>2, <3>1
    <3>3. Clean(w, o, n)
      BY <3>2 DEF Clean
    <3>4. PICK q \in Nat : Copied(w, o, n, t, q)
      BY <1>1, <2>1, <3>3 DEF From
    <3> QED BY <3>2, <3>4 DEF Copied
  <2>2. CASE n = 0
    <3>1. Copied(x, o, n, t, 0)
      BY <1>1, <2>2 DEF Copied
    <3> QED BY <3>1
  <2>3. CASE n # 0 /\ ~(o + n <= l)
    <3>1. n \in Nat \ {0} /\ n <= l + 1 /\ o = l + 1 - n
      BY <2>3
    <3>2. n <= i /\ Copied(x, o, n, t, i - n)
      BY <1>4, <3>1
    <3>3. i - n \in Nat
      BY <1>3, <3>2
    <3> QED BY <3>2, <3>3
  <2> QED BY <2>1, <2>2, <2>3
<1> QED BY <1>5, <1>6 DEF x

-----------------------------------------------------------------------------
(* What one pattern leaves                                                 *)

Unread == [next |-> 1, out |-> <<>>, found |-> 0]

SubStep(p, t, s, i) ==
  IF i < s.next THEN s
  ELSE LET E == Ends(p.forms, t, i) IN
       IF E = {} THEN [s EXCEPT !.next = i + 1, !.out = Append(@, t[i])]
       ELSE [next |-> Max(E), out |-> Append(s.out, p.kind), found |-> s.found + 1]

Substitutes(u, p, t, m) ==
  u = [i \in 0 .. m |-> IF i = 0 THEN Unread ELSE SubStep(p, t, u[i - 1], i)]

LEMMA SubstitutesExists ==
  ASSUME NEW p, NEW t, NEW l \in Nat
  PROVE  \E u : Substitutes(u, p, t, l)
<1> DEFINE B == {m \in Nat : ~ \E u : Substitutes(u, p, t, m)}
<1> SUFFICES ASSUME B # {} PROVE FALSE
  OBVIOUS
<1>1. PICK m \in B : \A k \in B : m <= k
  BY NatMin
<1>2. m \in Nat /\ ~ \E u : Substitutes(u, p, t, m)
  OBVIOUS
<1>3. m # 0
  <2> DEFINE u == [i \in 0 .. 0 |-> Unread]
  <2>1. Substitutes(u, p, t, 0)
    BY DEF Substitutes
  <2> QED BY <1>2, <2>1
<1>4. PICK v : Substitutes(v, p, t, m - 1)
  <2>1. m - 1 \in Nat /\ m - 1 \notin B
    BY <1>1, <1>2, <1>3
  <2> QED BY <2>1
<1> DEFINE w == [i \in 0 .. m |-> IF i = m THEN SubStep(p, t, v[m - 1], m) ELSE v[i]]
<1>5. \A i \in 0 .. m : w[i] = IF i = 0 THEN Unread ELSE SubStep(p, t, w[i - 1], i)
  <2> TAKE i \in 0 .. m
  <2>0. \A k \in 0 .. m - 1 : v[k] = IF k = 0 THEN Unread ELSE SubStep(p, t, v[k - 1], k)
    BY <1>4 DEF Substitutes
  <2>1. CASE i = m
    <3>1. i - 1 \in 0 .. m /\ i - 1 # m /\ i \in 0 .. m
      BY <1>2, <1>3, <2>1
    <3>2. w[i - 1] = v[i - 1] /\ w[i] = SubStep(p, t, v[i - 1], i)
      BY <2>1, <3>1
    <3> QED BY <1>3, <2>1, <3>2
  <2>2. CASE i # m
    <3>1. i \in 0 .. m - 1 /\ w[i] = v[i]
      BY <1>2, <2>2
    <3>2. i # 0 => w[i - 1] = v[i - 1]
      <4>1. i # 0 => i - 1 \in 0 .. m /\ i - 1 # m
        BY <1>2, <3>1
      <4> QED BY <4>1
    <3> QED BY <2>0, <3>1, <3>2
  <2> QED BY <2>1, <2>2
<1>6. DOMAIN w = 0 .. m /\ w = [i \in DOMAIN w |-> w[i]]
  OBVIOUS
<1> HIDE DEF w
<1>7. Substitutes(w, p, t, m)
  BY <1>5, <1>6 DEF Substitutes
<1> QED BY <1>2, <1>7

LEMMA SubIs ==
  ASSUME NEW p, NEW t
  PROVE  Sub(p, t) = (CHOOSE u : Substitutes(u, p, t, Len(t)))[Len(t)]
BY DEF Sub, Substitutes, SubStep, Unread

LEMMA SubParts ==
  ASSUME NEW Y, Kinds \subseteq Y, NEW t \in Seq(Y), NEW p, p.kind \in Kinds
  PROVE  Sub(p, t).out \in Seq(Y) /\ From(Sub(p, t).out, t)
<1> DEFINE u == CHOOSE v : Substitutes(v, p, t, Len(t))
           Good(i) == /\ DOMAIN u[i] = {"next", "out", "found"}
                      /\ u[i].out \in Seq(Y) /\ From(u[i].out, t) /\ Suffix(u[i].out, t, i)
                      /\ \A n \in Nat \ {0} :
                           n <= Len(u[i].out) /\ Clean(u[i].out, Len(u[i].out) - n, n)
                             => u[i].next = i + 1
           B == {i \in 0 .. Len(t) : ~Good(i)}
<1>1. Len(t) \in Nat /\ DOMAIN t = 1 .. Len(t)
  BY LenProperties
<1>2. Substitutes(u, p, t, Len(t))
  BY <1>1, SubstitutesExists
<1>3. Sub(p, t) = u[Len(t)]
  BY SubIs
<1> HIDE DEF u
<1>4. \A i \in 0 .. Len(t) : u[i] = IF i = 0 THEN Unread ELSE SubStep(p, t, u[i - 1], i)
  BY <1>2 DEF Substitutes
<1>5. Good(0)
  <2>1. u[0] = Unread
    BY <1>1, <1>4
  <2>2. DOMAIN Unread = {"next", "out", "found"} /\ Unread.out = <<>>
    BY DEF Unread
  <2>3. <<>> \in Seq(Y) /\ Len(<<>>) = 0 /\ ~ \E n \in Nat \ {0} : n <= 0
    OBVIOUS
  <2>4. From(<<>>, t)
    <3> SUFFICES ASSUME NEW o \in Nat, NEW n \in Nat, o + n <= 0 PROVE Copied(<<>>, o, n, t, 0)
      BY <2>3 DEF From
    <3>1. n = 0
      OBVIOUS
    <3> QED BY <1>1, <3>1 DEF Copied
  <2>5. Suffix(<<>>, t, 0)
    BY <2>3 DEF Suffix
  <2> QED BY <2>1, <2>2, <2>3, <2>4, <2>5
<1>6. ASSUME NEW i \in 1 .. Len(t), Good(i - 1) PROVE Good(i)
  <2>1. /\ t[i] \in Y /\ i \in 0 .. Len(t) /\ i # 0 /\ i \in Nat /\ (i - 1) + 1 = i
        /\ u[i] = SubStep(p, t, u[i - 1], i) /\ p.kind \in Y
    BY <1>1, <1>4, ElementOfSeq
  <2> DEFINE a == u[i - 1]
             E == Ends(p.forms, t, i)
  <2>2. /\ DOMAIN a = {"next", "out", "found"}
        /\ a.out \in Seq(Y) /\ From(a.out, t) /\ Suffix(a.out, t, i - 1)
        /\ \A n \in Nat \ {0} : n <= Len(a.out) /\ Clean(a.out, Len(a.out) - n, n) => a.next = i
    BY <1>6, <2>1
  <2>3. \/ i < a.next /\ u[i] = a
        \/ u[i] = [a EXCEPT !.next = i + 1, !.out = Append(@, t[i])]
        \/ u[i] = [next |-> Max(E), out |-> Append(a.out, p.kind), found |-> a.found + 1]
    BY <2>1 DEF SubStep
  <2> HIDE DEF a, E
  <2>4. CASE i < a.next /\ u[i] = a
    <3>1. \A n \in Nat \ {0} : ~(n <= Len(a.out) /\ Clean(a.out, Len(a.out) - n, n))
      BY <2>1, <2>2, <2>4
    <3>2. Suffix(a.out, t, i)
      BY <3>1 DEF Suffix
    <3> QED BY <2>2, <2>4, <3>1, <3>2
  <2>5. CASE u[i] = [a EXCEPT !.next = i + 1, !.out = Append(@, t[i])]
    <3>1. /\ DOMAIN u[i] = {"next", "out", "found"} /\ u[i].out = Append(a.out, t[i])
          /\ u[i].next = i + 1
      BY <2>2, <2>5
    <3>2. Append(a.out, t[i]) \in Seq(Y)
      BY <2>1, <2>2, AppendProperties
    <3>3. From(Append(a.out, t[i]), t) /\ Suffix(Append(a.out, t[i]), t, i)
      BY <2>1, <2>2, FromAppend
    <3> QED BY <3>1, <3>2, <3>3
  <2>6. CASE u[i] = [next |-> Max(E), out |-> Append(a.out, p.kind), found |-> a.found + 1]
    <3>1. DOMAIN u[i] = {"next", "out", "found"} /\ u[i].out = Append(a.out, p.kind)
      BY <2>6
    <3>2. /\ Append(a.out, p.kind) \in Seq(Y) /\ Len(Append(a.out, p.kind)) = Len(a.out) + 1
          /\ Append(a.out, p.kind)[Len(a.out) + 1] = p.kind
      BY <2>1, <2>2, AppendProperties
    <3>3. From(Append(a.out, p.kind), t) /\ Suffix(Append(a.out, p.kind), t, i)
      BY <2>1, <2>2, FromAppend
    <3>4. ASSUME NEW n \in Nat \ {0}, n <= Len(u[i].out)
          PROVE  ~Clean(u[i].out, Len(u[i].out) - n, n)
      <4>1. PICK l \in Nat : l = Len(a.out)
        BY <2>2, LenProperties
      <4>2. Len(u[i].out) = l + 1 /\ u[i].out[l + 1] \in Kinds
        BY <3>1, <3>2, <4>1
      <4>3. n \in 1 .. n /\ ((l + 1) - n) + n = l + 1
        OBVIOUS
      <4> QED BY <4>2, <4>3 DEF Clean
    <3> QED BY <3>1, <3>2, <3>3, <3>4
  <2> QED BY <2>3, <2>4, <2>5, <2>6
<1>7. B = {}
  <2> SUFFICES ASSUME B # {} PROVE FALSE
    OBVIOUS
  <2>0. B \subseteq Nat
    BY <1>1
  <2>1. PICK m \in B : \A k \in B : m <= k
    BY <2>0, NatMin
  <2>2. m \in 0 .. Len(t) /\ ~Good(m)
    OBVIOUS
  <2> HIDE DEF Good
  <2>3. m # 0
    BY <1>5, <2>2
  <2>4. m \in 1 .. Len(t) /\ m - 1 \in 0 .. Len(t) /\ ~(m <= m - 1)
    BY <1>1, <2>2, <2>3
  <2>5. Good(m - 1)
    BY <2>1, <2>4
  <2> QED BY <1>6, <2>2, <2>4, <2>5
<1>8. Good(Len(t))
  <2> HIDE DEF Good
  <2> QED BY <1>1, <1>7
<1> QED BY <1>3, <1>8

-----------------------------------------------------------------------------
(* What all patterns leave                                                 *)

PassStep(s, k) ==
  [text |-> Sub(Patterns[k], s.text).out,
   entities |-> s.entities + Sub(Patterns[k], s.text).found]

Passes(u, text0, m) ==
  u = [k \in 0 .. m |-> IF k = 0 THEN [text |-> text0, entities |-> 0] ELSE PassStep(u[k - 1], k)]

LEMMA PassesExists ==
  ASSUME NEW text0, NEW l \in Nat
  PROVE  \E u : Passes(u, text0, l)
<1> DEFINE B == {m \in Nat : ~ \E u : Passes(u, text0, m)}
<1> SUFFICES ASSUME B # {} PROVE FALSE
  OBVIOUS
<1>1. PICK m \in B : \A k \in B : m <= k
  BY NatMin
<1>2. m \in Nat /\ ~ \E u : Passes(u, text0, m)
  OBVIOUS
<1>3. m # 0
  <2> DEFINE u == [i \in 0 .. 0 |-> [text |-> text0, entities |-> 0]]
  <2>1. Passes(u, text0, 0)
    BY DEF Passes
  <2> QED BY <1>2, <2>1
<1>4. PICK v : Passes(v, text0, m - 1)
  <2>1. m - 1 \in Nat /\ m - 1 \notin B
    BY <1>1, <1>2, <1>3
  <2> QED BY <2>1
<1> DEFINE w == [i \in 0 .. m |-> IF i = m THEN PassStep(v[m - 1], m) ELSE v[i]]
<1>5. \A i \in 0 .. m : w[i] = IF i = 0 THEN [text |-> text0, entities |-> 0] ELSE PassStep(w[i - 1], i)
  <2> TAKE i \in 0 .. m
  <2>0. \A k \in 0 .. m - 1 : v[k] = IF k = 0 THEN [text |-> text0, entities |-> 0] ELSE PassStep(v[k - 1], k)
    BY <1>4 DEF Passes
  <2>1. CASE i = m
    <3>1. i - 1 \in 0 .. m /\ i - 1 # m /\ i \in 0 .. m
      BY <1>2, <1>3, <2>1
    <3>2. w[i - 1] = v[i - 1] /\ w[i] = PassStep(v[i - 1], i)
      BY <2>1, <3>1
    <3> QED BY <1>3, <2>1, <3>2
  <2>2. CASE i # m
    <3>1. i \in 0 .. m - 1 /\ w[i] = v[i]
      BY <1>2, <2>2
    <3>2. i # 0 => w[i - 1] = v[i - 1]
      <4>1. i # 0 => i - 1 \in 0 .. m /\ i - 1 # m
        BY <1>2, <3>1
      <4> QED BY <4>1
    <3> QED BY <2>0, <3>1, <3>2
  <2> QED BY <2>1, <2>2
<1>6. DOMAIN w = 0 .. m /\ w = [i \in DOMAIN w |-> w[i]]
  OBVIOUS
<1> HIDE DEF w
<1>7. Passes(w, text0, m)
  BY <1>5, <1>6 DEF Passes
<1> QED BY <1>2, <1>7

LEMMA AnonymizeIs ==
  ASSUME NEW t
  PROVE  RegexAnonymize(t) = (CHOOSE u : Passes(u, t, Len(Patterns)))[Len(Patterns)]
BY DEF RegexAnonymize, Passes, PassStep

LEMMA PatternKinds == Len(Patterns) = 6 /\ \A k \in 1 .. 6 : Patterns[k].kind \in Kinds
<1>1. EMAIL.kind = "EMAIL" /\ IBAN.kind = "IBAN" /\ PASSPORT.kind = "PASSPORT" /\ IPN.kind = "IPN"
  BY DEF EMAIL, IBAN, PASSPORT, IPN
<1>2. CARD.kind = "CARD" /\ PHONE.kind = "PHONE"
  BY DEF CARD, PHONE
<1>3. /\ Len(Patterns) = 6 /\ Patterns[1] = EMAIL /\ Patterns[2] = IBAN /\ Patterns[3] = CARD
      /\ Patterns[4] = PHONE /\ Patterns[5] = PASSPORT /\ Patterns[6] = IPN
  BY DEF Patterns
<1>4. \A k \in 1 .. 6 : k = 1 \/ k = 2 \/ k = 3 \/ k = 4 \/ k = 5 \/ k = 6
  OBVIOUS
<1> QED BY <1>1, <1>2, <1>3, <1>4 DEF Kinds

(* Between its tags an anonymized text has only passages of the text.       *)
LEMMA AnonymizeParts ==
  ASSUME NEW Y, Kinds \subseteq Y, NEW t \in Seq(Y)
  PROVE  RegexAnonymize(t).text \in Seq(Y) /\ From(RegexAnonymize(t).text, t)
<1> DEFINE u == CHOOSE v : Passes(v, t, 6)
           Good(k) == u[k].text \in Seq(Y) /\ From(u[k].text, t)
           B == {k \in 0 .. 6 : ~Good(k)}
<1>2. Passes(u, t, 6)
  <2>1. 6 \in Nat
    OBVIOUS
  <2> QED BY <2>1, PassesExists
<1>3. RegexAnonymize(t) = u[6]
  BY AnonymizeIs, PatternKinds
<1> HIDE DEF u
<1>4. \A k \in 0 .. 6 : u[k] = IF k = 0 THEN [text |-> t, entities |-> 0] ELSE PassStep(u[k - 1], k)
  BY <1>2 DEF Passes
<1>5. Good(0)
  <2>1. u[0].text = t
    BY <1>4
  <2> QED BY <2>1, FromSelf
<1>6. ASSUME NEW k \in 1 .. 6, Good(k - 1) PROVE Good(k)
  <2>1. u[k].text = Sub(Patterns[k], u[k - 1].text).out
    <3>1. k \in 0 .. 6 /\ k # 0
      OBVIOUS
    <3> QED BY <1>4, <3>1 DEF PassStep
  <2>2. Patterns[k].kind \in Kinds
    BY PatternKinds
  <2>3. Sub(Patterns[k], u[k - 1].text).out \in Seq(Y) /\ From(Sub(Patterns[k], u[k - 1].text).out, u[k - 1].text)
    BY <1>6, <2>2, SubParts
  <2> QED BY <1>6, <2>1, <2>3, FromTrans
<1>7. B = {}
  <2> SUFFICES ASSUME B # {} PROVE FALSE
    OBVIOUS
  <2>1. PICK m \in B : \A k \in B : m <= k
    <3>1. B \subseteq Nat
      OBVIOUS
    <3> QED BY <3>1, NatMin
  <2>2. m \in 0 .. 6 /\ ~Good(m)
    OBVIOUS
  <2> HIDE DEF Good
  <2>3. m # 0
    BY <1>5, <2>2
  <2>4. m \in 1 .. 6 /\ m - 1 \in 0 .. 6 /\ ~(m <= m - 1)
    BY <2>2, <2>3
  <2>5. Good(m - 1)
    BY <2>1, <2>4
  <2> QED BY <1>6, <2>2, <2>4, <2>5
<1>8. Good(6)
  <2> HIDE DEF Good
  <2> QED BY <1>7
<1> QED BY <1>3, <1>8

-----------------------------------------------------------------------------
(* Application numbers                                                     *)

Reaches(u, form, t, i, m) ==
  u = [k \in 0 .. m |-> IF k = 0 THEN {i} ELSE After(t, form[k], u[k - 1])]

LEMMA ReachesExists ==
  ASSUME NEW form, NEW t, NEW i0, NEW l \in Nat
  PROVE  \E u : Reaches(u, form, t, i0, l)
<1> DEFINE B == {m \in Nat : ~ \E u : Reaches(u, form, t, i0, m)}
<1> SUFFICES ASSUME B # {} PROVE FALSE
  OBVIOUS
<1>1. PICK m \in B : \A k \in B : m <= k
  BY NatMin
<1>2. m \in Nat /\ ~ \E u : Reaches(u, form, t, i0, m)
  OBVIOUS
<1>3. m # 0
  <2> DEFINE u == [i \in 0 .. 0 |-> {i0}]
  <2>1. Reaches(u, form, t, i0, 0)
    BY DEF Reaches
  <2> QED BY <1>2, <2>1
<1>4. PICK v : Reaches(v, form, t, i0, m - 1)
  <2>1. m - 1 \in Nat /\ m - 1 \notin B
    BY <1>1, <1>2, <1>3
  <2> QED BY <2>1
<1> DEFINE w == [i \in 0 .. m |-> IF i = m THEN After(t, form[m], v[m - 1]) ELSE v[i]]
<1>5. \A i \in 0 .. m : w[i] = IF i = 0 THEN {i0} ELSE After(t, form[i], w[i - 1])
  <2> TAKE i \in 0 .. m
  <2>0. \A k \in 0 .. m - 1 : v[k] = IF k = 0 THEN {i0} ELSE After(t, form[k], v[k - 1])
    BY <1>4 DEF Reaches
  <2>1. CASE i = m
    <3>1. i - 1 \in 0 .. m /\ i - 1 # m /\ i \in 0 .. m
      BY <1>2, <1>3, <2>1
    <3>2. w[i - 1] = v[i - 1] /\ w[i] = After(t, form[i], v[i - 1])
      BY <2>1, <3>1
    <3> QED BY <1>3, <2>1, <3>2
  <2>2. CASE i # m
    <3>1. i \in 0 .. m - 1 /\ w[i] = v[i]
      BY <1>2, <2>2
    <3>2. i # 0 => w[i - 1] = v[i - 1]
      <4>1. i # 0 => i - 1 \in 0 .. m /\ i - 1 # m
        BY <1>2, <3>1
      <4> QED BY <4>1
    <3> QED BY <2>0, <3>1, <3>2
  <2> QED BY <2>1, <2>2
<1>6. DOMAIN w = 0 .. m /\ w = [i \in DOMAIN w |-> w[i]]
  OBVIOUS
<1> HIDE DEF w
<1>7. Reaches(w, form, t, i0, m)
  BY <1>5, <1>6 DEF Reaches
<1> QED BY <1>2, <1>7

LEMMA ReachIs ==
  ASSUME NEW form, NEW t, NEW i
  PROVE  Reach(form, t, i) = (CHOOSE u : Reaches(u, form, t, i, Len(form)))[Len(form)]
BY DEF Reach, Reaches

(* n symbols of S, from place i on. *)
Run(t, i, n, S) == \A j \in i .. i + n - 1 : j \in DOMAIN t /\ t[j] \in S

LEMMA AfterRun ==
  ASSUME NEW t, NEW i \in Nat, NEW n \in Nat \ {0}, NEW S
  PROVE  /\ After(t, Times(n, S), {}) = {}
         /\ After(t, Times(n, S), {i}) = IF Run(t, i, n, S) THEN {i + n} ELSE {}
<1>1. Times(n, S) # Edge /\ Times(n, S).least = n /\ Times(n, S).most = n /\ Times(n, S).of = S
  <2>1. Times(n, S).least = n /\ Edge.least = 0 /\ Times(n, S).most = n /\ Times(n, S).of = S
    BY DEF Times, Edge
  <2> QED BY <2>1
<1> DEFINE Lengths(j) == {m \in n .. n : \A k \in j .. j + m - 1 : k \in DOMAIN t /\ t[k] \in S}
<1>2. \A P : After(t, Times(n, S), P) = UNION {{j + l : l \in Lengths(j)} : j \in P}
  BY <1>1 DEF After
<1>3. Lengths(i) = IF Run(t, i, n, S) THEN {n} ELSE {}
  <2>1. \A m : m \in n .. n <=> m = n
    OBVIOUS
  <2> QED BY <2>1 DEF Run
<1> HIDE DEF Lengths
<1>4. UNION {{j + l : l \in Lengths(j)} : j \in {}} = {}
  OBVIOUS
<1>5. UNION {{j + l : l \in Lengths(j)} : j \in {i}} = {i + l : l \in Lengths(i)}
  OBVIOUS
<1>6. {i + l : l \in {n}} = {i + n} /\ {i + l : l \in {}} = {}
  OBVIOUS
<1> QED BY <1>2, <1>3, <1>4, <1>5, <1>6

LEMMA AfterOne ==
  ASSUME NEW t, NEW i \in Nat, NEW n \in Nat \ {0}, NEW S, NEW P, NEW C \in BOOLEAN,
         P = IF C THEN {i} ELSE {}
  PROVE  After(t, Times(n, S), P) = IF C /\ Run(t, i, n, S) THEN {i + n} ELSE {}
<1>1. CASE C
  BY <1>1, AfterRun
<1>2. CASE ~C
  BY <1>2, AfterRun
<1> QED BY <1>1, <1>2

(* An application number begins at place i. *)
NumberAt(t, i) ==
  /\ Run(t, i, 1, {"APP"}) /\ Run(t, i + 1, 1, {"-"}) /\ Run(t, i + 2, 4, Digit)
  /\ Run(t, i + 6, 1, {"-"}) /\ Run(t, i + 7, 4, Digit)

LEMMA NumberMatches ==
  ASSUME NEW t, NEW i \in Nat
  PROVE  Ends(CODE_RE, t, i) # {} <=> NumberAt(t, i)
<1> DEFINE f == <<Times(1, {"APP"}), Times(1, {"-"}), Times(4, Digit), Times(1, {"-"}), Times(4, Digit)>>
           u == CHOOSE v : Reaches(v, f, t, i, 5)
<1>1. CODE_RE = {f}
  BY DEF CODE_RE, One
<1>2. Ends(CODE_RE, t, i) = Reach(f, t, i)
  BY <1>1 DEF Ends
<1>3. /\ Len(f) = 5 /\ f[1] = Times(1, {"APP"}) /\ f[2] = Times(1, {"-"}) /\ f[3] = Times(4, Digit)
      /\ f[4] = Times(1, {"-"}) /\ f[5] = Times(4, Digit)
  OBVIOUS
<1> HIDE DEF f
<1>4. Reaches(u, f, t, i, 5)
  <2>1. 5 \in Nat
    OBVIOUS
  <2> QED BY <2>1, ReachesExists
<1>5. Reach(f, t, i) = u[5]
  BY <1>3, ReachIs
<1> HIDE DEF u
<1>6. \A k \in 0 .. 5 : u[k] = IF k = 0 THEN {i} ELSE After(t, f[k], u[k - 1])
  BY <1>4 DEF Reaches
<1>7. /\ u[0] = {i} /\ u[1] = After(t, f[1], u[0]) /\ u[2] = After(t, f[2], u[1])
      /\ u[3] = After(t, f[3], u[2]) /\ u[4] = After(t, f[4], u[3]) /\ u[5] = After(t, f[5], u[4])
  BY <1>6
<1>8. /\ i + 1 \in Nat /\ i + 2 \in Nat /\ i + 6 \in Nat /\ i + 7 \in Nat
      /\ (i + 1) + 1 = i + 2 /\ (i + 2) + 4 = i + 6 /\ (i + 6) + 1 = i + 7
      /\ 1 \in Nat \ {0} /\ 4 \in Nat \ {0}
  OBVIOUS
<1> DEFINE C1 == Run(t, i, 1, {"APP"})
           C2 == C1 /\ Run(t, i + 1, 1, {"-"})
           C3 == C2 /\ Run(t, i + 2, 4, Digit)
           C4 == C3 /\ Run(t, i + 6, 1, {"-"})
           C5 == C4 /\ Run(t, i + 7, 4, Digit)
<1>B. C1 \in BOOLEAN /\ C2 \in BOOLEAN /\ C3 \in BOOLEAN /\ C4 \in BOOLEAN
  BY DEF Run
<1>C. (C2 <=> C1 /\ Run(t, i + 1, 1, {"-"})) /\ (C3 <=> C2 /\ Run(t, i + 2, 4, Digit))
      /\ (C4 <=> C3 /\ Run(t, i + 6, 1, {"-"})) /\ (C5 <=> C4 /\ Run(t, i + 7, 4, Digit))
  OBVIOUS
<1>D. NumberAt(t, i) <=> C5
  BY DEF NumberAt
<1>9. u[1] = IF C1 THEN {i + 1} ELSE {}
  <2>1. After(t, Times(1, {"APP"}), {i}) = IF Run(t, i, 1, {"APP"}) THEN {i + 1} ELSE {}
    BY <1>8, AfterRun
  <2> QED BY <1>3, <1>7, <2>1
<1> HIDE DEF C1, C2, C3, C4, C5
<1>10. u[2] = IF C2 THEN {i + 2} ELSE {}
  <2>1. After(t, Times(1, {"-"}), u[1]) = IF C1 /\ Run(t, i + 1, 1, {"-"}) THEN {(i + 1) + 1} ELSE {}
    <3>1. PICK p \in Nat, n \in Nat \ {0}, c \in BOOLEAN, S \in {{"-"}}, P \in {u[1]} :
                p = i + 1 /\ n = 1 /\ c = C1 /\ S = {"-"} /\ P = u[1]
      BY <1>8, <1>B
    <3>2. P = IF c THEN {p} ELSE {}
      BY <3>1, <1>9
    <3>3. After(t, Times(n, S), P) = IF c /\ Run(t, p, n, S) THEN {p + n} ELSE {}
      BY <3>2, AfterOne
    <3> QED BY <3>1, <3>3
  <2> QED BY <1>3, <1>7, <1>8, <1>C, <2>1
<1>11. u[3] = IF C3 THEN {i + 6} ELSE {}
  <2>1. After(t, Times(4, Digit), u[2]) = IF C2 /\ Run(t, i + 2, 4, Digit) THEN {(i + 2) + 4} ELSE {}
    <3>1. PICK p \in Nat, n \in Nat \ {0}, c \in BOOLEAN, S \in {Digit}, P \in {u[2]} :
                p = i + 2 /\ n = 4 /\ c = C2 /\ S = Digit /\ P = u[2]
      BY <1>8, <1>B
    <3>2. P = IF c THEN {p} ELSE {}
      BY <3>1, <1>10
    <3>3. After(t, Times(n, S), P) = IF c /\ Run(t, p, n, S) THEN {p + n} ELSE {}
      BY <3>2, AfterOne
    <3> QED BY <3>1, <3>3
  <2> QED BY <1>3, <1>7, <1>8, <1>C, <2>1
<1>12. u[4] = IF C4 THEN {i + 7} ELSE {}
  <2>1. After(t, Times(1, {"-"}), u[3]) = IF C3 /\ Run(t, i + 6, 1, {"-"}) THEN {(i + 6) + 1} ELSE {}
    <3>1. PICK p \in Nat, n \in Nat \ {0}, c \in BOOLEAN, S \in {{"-"}}, P \in {u[3]} :
                p = i + 6 /\ n = 1 /\ c = C3 /\ S = {"-"} /\ P = u[3]
      BY <1>8, <1>B
    <3>2. P = IF c THEN {p} ELSE {}
      BY <3>1, <1>11
    <3>3. After(t, Times(n, S), P) = IF c /\ Run(t, p, n, S) THEN {p + n} ELSE {}
      BY <3>2, AfterOne
    <3> QED BY <3>1, <3>3
  <2> QED BY <1>3, <1>7, <1>8, <1>C, <2>1
<1>13. u[5] = IF C5 THEN {(i + 7) + 4} ELSE {}
  <2>1. After(t, Times(4, Digit), u[4]) = IF C4 /\ Run(t, i + 7, 4, Digit) THEN {(i + 7) + 4} ELSE {}
    <3>1. PICK p \in Nat, n \in Nat \ {0}, c \in BOOLEAN, S \in {Digit}, P \in {u[4]} :
                p = i + 7 /\ n = 4 /\ c = C4 /\ S = Digit /\ P = u[4]
      BY <1>8, <1>B
    <3>2. P = IF c THEN {p} ELSE {}
      BY <3>1, <1>12
    <3>3. After(t, Times(n, S), P) = IF c /\ Run(t, p, n, S) THEN {p + n} ELSE {}
      BY <3>2, AfterOne
    <3> QED BY <3>1, <3>3
  <2> QED BY <1>3, <1>7, <1>C, <2>1
<1>14. u[5] # {} <=> C5
  BY <1>13
<1> QED BY <1>2, <1>5, <1>D, <1>14

(* A number has eleven symbols, none of them a tag. *)
LEMMA NumberSymbols ==
  ASSUME NEW Y, NEW t \in Seq(Y), NEW i \in Nat, NumberAt(t, i)
  PROVE  /\ i \in 1 .. Len(t) /\ i + 10 <= Len(t)
         /\ \A k \in 1 .. 11 : t[(i - 1) + k] \notin Kinds
<1>1. PICK l \in Nat : l = Len(t) /\ DOMAIN t = 1 .. l
  BY LenProperties
<1>2. /\ i \in i .. i + 1 - 1 /\ i + 10 \in i + 7 .. i + 7 + 4 - 1
  OBVIOUS
<1>3. i \in 1 .. l /\ i + 10 \in 1 .. l
  BY <1>1, <1>2 DEF NumberAt, Run
<1>4. ASSUME NEW k \in 1 .. 11 PROVE t[(i - 1) + k] \notin Kinds
  <2> DEFINE j == (i - 1) + k
  <2>1. \/ j \in i .. i + 1 - 1
        \/ j \in i + 1 .. i + 1 + 1 - 1
        \/ j \in i + 2 .. i + 2 + 4 - 1
        \/ j \in i + 6 .. i + 6 + 1 - 1
        \/ j \in i + 7 .. i + 7 + 4 - 1
    OBVIOUS
  <2> HIDE DEF j
  <2>2. t[j] \in {"APP"} \/ t[j] \in {"-"} \/ t[j] \in Digit
    BY <2>1 DEF NumberAt, Run
  <2> QED BY <2>2 DEF j, Digit, Kinds
<1> QED BY <1>1, <1>3, <1>4

(* The eleven symbols of w from place i on stand in t. *)
Given(w, i, t) == \E q \in 1 .. Len(t) - 10 : \A k \in 0 .. 10 : w[i + k] = t[q + k]

(* A number in what the anonymizer leaves stands in the text it comes from.  *)
LEMMA NumberFrom ==
  ASSUME NEW Y, NEW w \in Seq(Y), NEW t \in Seq(Y), From(w, t),
         NEW i \in DOMAIN w, Ends(CODE_RE, w, i) # {}
  PROVE  Given(w, i, t)
<1>2. i \in Nat
  BY LenProperties
<1>3. NumberAt(w, i)
  BY <1>2, NumberMatches
<1>4. /\ i \in 1 .. Len(w) /\ i + 10 <= Len(w)
      /\ \A k \in 1 .. 11 : w[(i - 1) + k] \notin Kinds
  BY <1>2, <1>3, NumberSymbols
<1>5. PICK q \in Nat : Copied(w, i - 1, 11, t, q)
  <2>1. PICK l \in Nat : l = Len(w)
    BY LenProperties
  <2>2. i \in 1 .. l /\ i + 10 <= l
    BY <1>4, <2>1
  <2>3. i - 1 \in Nat /\ 11 \in Nat /\ (i - 1) + 11 <= l
    BY <2>2
  <2>4. i - 1 \in Nat /\ 11 \in Nat /\ (i - 1) + 11 <= Len(w)
    BY <2>1, <2>3
  <2>5. Clean(w, i - 1, 11)
    BY <1>4 DEF Clean
  <2> QED BY <2>4, <2>5 DEF From
<1>6. PICK m \in Nat : m = Len(t)
  BY LenProperties
<1>7. q + 11 <= m /\ \A k \in 1 .. 11 : w[(i - 1) + k] = t[q + k]
  BY <1>5, <1>6 DEF Copied
<1>8. q + 1 \in 1 .. m - 10
  <2>1. q + 11 <= m /\ q \in Nat /\ m \in Nat
    BY <1>6, <1>7
  <2> QED BY <2>1
<1>9. ASSUME NEW k \in 0 .. 10 PROVE w[i + k] = t[(q + 1) + k]
  <2>1. k + 1 \in 1 .. 11 /\ (i - 1) + (k + 1) = i + k /\ q + (k + 1) = (q + 1) + k
    BY <1>2
  <2> QED BY <1>7, <2>1
<1> QED BY <1>6, <1>8, <1>9 DEF Given

-----------------------------------------------------------------------------
(* Anonymized texts                                                        *)

JoinStep(p, item, i) == p \o (IF i = 1 THEN <<>> ELSE item.sep) \o Spelled(item.parts[i])

Joins(u, item, m) == u = [i \in 0 .. m |-> IF i = 0 THEN <<>> ELSE JoinStep(u[i - 1], item, i)]

LEMMA JoinsExists ==
  ASSUME NEW item, NEW l \in Nat
  PROVE  \E u : Joins(u, item, l)
<1> DEFINE B == {m \in Nat : ~ \E u : Joins(u, item, m)}
<1> SUFFICES ASSUME B # {} PROVE FALSE
  OBVIOUS
<1>1. PICK m \in B : \A k \in B : m <= k
  BY NatMin
<1>2. m \in Nat /\ ~ \E u : Joins(u, item, m)
  OBVIOUS
<1>3. m # 0
  <2> DEFINE u == [i \in 0 .. 0 |-> <<>>]
  <2>1. Joins(u, item, 0)
    BY DEF Joins
  <2> QED BY <1>2, <2>1
<1>4. PICK v : Joins(v, item, m - 1)
  <2>1. m - 1 \in Nat /\ m - 1 \notin B
    BY <1>1, <1>2, <1>3
  <2> QED BY <2>1
<1> DEFINE w == [i \in 0 .. m |-> IF i = m THEN JoinStep(v[m - 1], item, m) ELSE v[i]]
<1>5. \A i \in 0 .. m : w[i] = IF i = 0 THEN <<>> ELSE JoinStep(w[i - 1], item, i)
  <2> TAKE i \in 0 .. m
  <2>0. \A k \in 0 .. m - 1 : v[k] = IF k = 0 THEN <<>> ELSE JoinStep(v[k - 1], item, k)
    BY <1>4 DEF Joins
  <2>1. CASE i = m
    <3>1. i - 1 \in 0 .. m /\ i - 1 # m /\ i \in 0 .. m
      BY <1>2, <1>3, <2>1
    <3>2. w[i - 1] = v[i - 1] /\ w[i] = JoinStep(v[i - 1], item, i)
      BY <2>1, <3>1
    <3> QED BY <1>3, <2>1, <3>2
  <2>2. CASE i # m
    <3>1. i \in 0 .. m - 1 /\ w[i] = v[i]
      BY <1>2, <2>2
    <3>2. i # 0 => w[i - 1] = v[i - 1]
      <4>1. i # 0 => i - 1 \in 0 .. m /\ i - 1 # m
        BY <1>2, <3>1
      <4> QED BY <4>1
    <3> QED BY <2>0, <3>1, <3>2
  <2> QED BY <2>1, <2>2
<1>6. DOMAIN w = 0 .. m /\ w = [i \in DOMAIN w |-> w[i]]
  OBVIOUS
<1> HIDE DEF w
<1>7. Joins(w, item, m)
  BY <1>5, <1>6 DEF Joins
<1> QED BY <1>2, <1>7

LEMMA TextIs ==
  ASSUME NEW item
  PROVE  text(item) = (CHOOSE u : Joins(u, item, Len(item.parts)))[Len(item.parts)]
BY DEF text, Join, Joins, JoinStep

(* The text of an item is a sequence of the symbols of its parts.           *)
LEMMA TextParts ==
  ASSUME NEW item, IsSeq(item.sep), IsSeq(item.parts),
         \A j \in DOMAIN item.parts : IsSeq(item.parts[j].text)
  PROVE  \E Y : Kinds \subseteq Y /\ text(item) \in Seq(Y)
<1> DEFINE Symbols(z) == {z[k] : k \in DOMAIN z}
           Y == Kinds \cup Symbols(item.sep)
                  \cup UNION {Symbols(item.parts[j].text) : j \in DOMAIN item.parts}
           u == CHOOSE v : Joins(v, item, Len(item.parts))
           Good(k) == u[k] \in Seq(Y)
           B == {k \in 0 .. Len(item.parts) : ~Good(k)}
<1>1. Kinds \subseteq Y
  OBVIOUS
<1>2. \A z, T : z \in Seq(Symbols(z)) /\ Symbols(z) \subseteq T => z \in Seq(T)
  <2> TAKE z, T
  <2> HIDE DEF Symbols
  <2> QED OBVIOUS
<1>3. item.sep \in Seq(Y)
  <2>1. Symbols(item.sep) \subseteq Y
    OBVIOUS
  <2>2. item.sep \in Seq(Symbols(item.sep))
    BY DEF IsSeq
  <2> HIDE DEF Y, Symbols
  <2> QED BY <1>2, <2>1, <2>2
<1>4. ASSUME NEW j \in DOMAIN item.parts PROVE item.parts[j].text \in Seq(Y)
  <2>1. Symbols(item.parts[j].text) \subseteq Y
    OBVIOUS
  <2>2. item.parts[j].text \in Seq(Symbols(item.parts[j].text))
    BY DEF IsSeq
  <2> HIDE DEF Y, Symbols
  <2> QED BY <1>2, <2>1, <2>2
<1> HIDE DEF Y
<1>5. PICK l \in Nat : l = Len(item.parts) /\ DOMAIN item.parts = 1 .. l
  BY LenProperties DEF IsSeq
<1>6. Joins(u, item, l)
  BY <1>5, JoinsExists
<1>7. text(item) = u[l]
  BY <1>5, TextIs
<1> HIDE DEF u
<1>8. \A k \in 0 .. l : u[k] = IF k = 0 THEN <<>> ELSE JoinStep(u[k - 1], item, k)
  BY <1>6 DEF Joins
<1>9. Good(0)
  <2>1. u[0] = <<>>
    BY <1>8
  <2> QED BY <2>1
<1>10. ASSUME NEW k \in 1 .. l, Good(k - 1) PROVE Good(k)
  <2>1. u[k] = u[k - 1] \o (IF k = 1 THEN <<>> ELSE item.sep) \o item.parts[k].text
    <3>1. k \in 0 .. l /\ k # 0
      OBVIOUS
    <3> QED BY <1>8, <3>1 DEF JoinStep, Spelled
  <2>2. item.parts[k].text \in Seq(Y)
    BY <1>4, <1>5
  <2>3. (IF k = 1 THEN <<>> ELSE item.sep) \in Seq(Y)
    BY <1>3
  <2>4. u[k - 1] \o (IF k = 1 THEN <<>> ELSE item.sep) \in Seq(Y)
    BY <1>10, <2>3, ConcatProperties
  <2> QED BY <2>1, <2>2, <2>4, ConcatProperties
<1>11. B = {}
  <2> SUFFICES ASSUME B # {} PROVE FALSE
    OBVIOUS
  <2>1. PICK m \in B : \A k \in B : m <= k
    <3>1. B \subseteq Nat
      OBVIOUS
    <3> QED BY <3>1, NatMin
  <2>2. m \in 0 .. l /\ ~Good(m)
    BY <1>5
  <2> HIDE DEF Good
  <2>3. m # 0
    BY <1>9, <2>2
  <2>4. m \in 1 .. l /\ m - 1 \in 0 .. l /\ ~(m <= m - 1)
    BY <2>2, <2>3
  <2>5. Good(m - 1)
    BY <1>5, <2>1, <2>4
  <2> QED BY <1>10, <2>2, <2>4, <2>5
<1>12. Good(l)
  <2> HIDE DEF Good
  <2> QED BY <1>5, <1>11
<1> QED BY <1>1, <1>7, <1>12

(* The anonymizer's results are those of the items, in their places.        *)
AnonymizedInv ==
  /\ items \in Datasets
  /\ anonymized # None => \A i \in DOMAIN items : anonymized[i] = RegexAnonymize(text(items[i]))

LEMMA AnonymizedInit == Init => AnonymizedInv
BY DEF Init, AnonymizedInv

LEMMA AnonymizedStep == AnonymizedInv /\ [Next]_vars => AnonymizedInv'
<1> SUFFICES ASSUME AnonymizedInv, [Next]_vars PROVE AnonymizedInv'
  OBVIOUS
<1>1. CASE EvalAnonymization
  BY <1>1 DEF EvalAnonymization, AnonymizedInv
<1>2. CASE UNCHANGED <<items, anonymized>>
  BY <1>2 DEF AnonymizedInv
<1>3. CASE Next /\ ~EvalAnonymization
  <2>1. UNCHANGED <<items, anonymized>>
    BY <1>3 DEF Next, EvalRetrieval, EvalRouting, EvalAnswer, AnswersDone, EvalMinScoreSweep,
                PrintReport
  <2> QED BY <1>2, <2>1
<1>4. CASE UNCHANGED vars
  BY <1>2, <1>4 DEF vars
<1> QED BY <1>1, <1>3, <1>4

LEMMA AnonymizedSafe == AnonymizedInv => NoNumberInvented
<1> SUFFICES ASSUME AnonymizedInv, anonymized # None, NEW i \in DOMAIN items,
                    NEW j \in DOMAIN anonymized[i].text,
                    Ends(CODE_RE, anonymized[i].text, j) # {}
             PROVE  Given(anonymized[i].text, j, text(items[i]))
  BY DEF NoNumberInvented, Given
<1>1. anonymized[i] = RegexAnonymize(text(items[i]))
  BY DEF AnonymizedInv
<1>2. PICK Y : Kinds \subseteq Y /\ text(items[i]) \in Seq(Y)
  <2>1. PICK it : it = items[i]
    OBVIOUS
  <2>2. IsSeq(it.sep) /\ IsSeq(it.parts) /\ \A k \in DOMAIN it.parts : IsSeq(it.parts[k].text)
    BY <2>1, EvaluationAssumption DEF AnonymizedInv
  <2> QED BY <2>1, <2>2, TextParts
<1>3. PICK t \in Seq(Y) : t = text(items[i])
  BY <1>2
<1>4. PICK w : w = RegexAnonymize(t).text
  OBVIOUS
<1>7. w = anonymized[i].text
  BY <1>1, <1>3, <1>4
<1>8. j \in DOMAIN w /\ Ends(CODE_RE, w, j) # {}
  BY <1>7
<1>5. w \in Seq(Y) /\ From(w, t)
  BY <1>2, <1>4, AnonymizeParts
<1>6. Given(w, j, t)
  <2>1. w \in Seq(Y) /\ t \in Seq(Y) /\ From(w, t)
    BY <1>3, <1>5
  <2> QED BY <1>8, <2>1, NumberFrom
<1> QED BY <1>3, <1>6, <1>7

(* For every dataset, whatever the texts are made of: an application number *)
(* in an anonymized text is a passage of the text, and never made of pieces *)
(* on both sides of something masked.                                       *)
THEOREM NumbersAreGiven == Spec => []NoNumberInvented
<1>1. Init => AnonymizedInv
  BY AnonymizedInit
<1>2. AnonymizedInv /\ [Next]_vars => AnonymizedInv'
  BY AnonymizedStep
<1>3. AnonymizedInv => NoNumberInvented
  BY AnonymizedSafe
<1> QED BY <1>1, <1>2, <1>3, PTL DEF Spec
=============================================================================
