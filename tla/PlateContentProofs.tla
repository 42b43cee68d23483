------------------------- MODULE PlateContentProofs -------------------------
(* The message that a plate serves, for any texts, urls and images, any      *)
(* widths of their pieces, and any messages a phone may write.               *)
EXTENDS PlateContent, SequenceTheorems, FiniteSetTheorems, TLAPS

-----------------------------------------------------------------------------
(* Natural numbers                                                          *)

\* A set of natural numbers that is not empty has a least one.
LEMMA Least ==
  ASSUME NEW S \in SUBSET Nat, S # {}
  PROVE  \E n \in S : \A m \in S : n <= m
<1> DEFINE R == StrictSubsetOrdering(Nat)
           T == {0..n : n \in S}
<1>1. IsWellFoundedOn(R, FiniteSubsetsOf(Nat))
  BY FS_StrictSubsetOrderingWellFounded
<1>2. T \subseteq FiniteSubsetsOf(Nat) /\ T # {}
  <2>1. ASSUME NEW n \in S PROVE 0..n \in FiniteSubsetsOf(Nat)
    <3>1. 0 \in Int /\ n \in Int /\ 0..n \subseteq Nat
      OBVIOUS
    <3>2. IsFiniteSet(0..n)
      BY <3>1, FS_Interval, Zenon
    <3> QED BY <3>1, <3>2 DEF FiniteSubsetsOf
  <2> QED BY <2>1
<1>3. \E x \in T : \A y \in T : ~ (<<y, x>> \in R)
  <2> HIDE DEF R, T
  <2> QED BY <1>1, <1>2, WFMin
<1>4. PICK n \in S : \A m \in S : ~ (<<0..m, 0..n>> \in R)
  BY <1>3
<1>5. ASSUME NEW m \in S, m < n PROVE FALSE
  <2>1. 0..m \subseteq 0..n /\ n \in 0..n /\ n \notin 0..m
    BY <1>5
  <2>2. <<0..m, 0..n>> \in R
    BY <2>1 DEF StrictSubsetOrdering
  <2> QED BY <2>2, <1>4
<1> QED BY <1>4, <1>5

\* A set with 0 and with the successor of each of its numbers has them all.
LEMMA Induct ==
  ASSUME NEW P, 0 \in P, \A n \in Nat : n \in P => n + 1 \in P
  PROVE  Nat \subseteq P
<1> SUFFICES ASSUME NEW k \in Nat, k \notin P PROVE FALSE
  OBVIOUS
<1> DEFINE S == Nat \ P
<1>1. PICK n \in S : \A m \in S : n <= m
  <2>1. S \in SUBSET Nat /\ S # {}
    OBVIOUS
  <2> HIDE DEF S
  <2> QED BY <2>1, Least
<1>2. n \in Nat /\ n # 0
  OBVIOUS
<1>3. n - 1 \in Nat /\ n - 1 \notin S
  BY <1>1, <1>2
<1> QED BY <1>1, <1>2, <1>3

LEMMA MinIsLeast ==
  ASSUME NEW S \in SUBSET Nat, S # {}
  PROVE  Min(S) \in S /\ \A m \in S : Min(S) <= m
<1>1. \E n \in S : \A m \in S : n <= m
  BY Least
<1> QED BY <1>1 DEF Min

LEMMA MaxIsGreatest ==
  ASSUME NEW n \in Nat, NEW S \in SUBSET 0..n, S # {}
  PROVE  Max(S) \in S /\ \A m \in S : m <= Max(S)
<1> DEFINE T == {n - m : m \in S}
<1>1. PICK k \in T : \A m \in T : k <= m
  <2>1. \A m \in S : m \in Nat /\ n - m \in Nat
    OBVIOUS
  <2>2. T \in SUBSET Nat /\ T # {}
    BY <2>1
  <2> HIDE DEF T
  <2> QED BY <2>2, Least
<1>2. PICK g \in S : k = n - g
  BY <1>1
<1>3. \A m \in S : g >= m
  BY <1>1, <1>2
<1> QED BY <1>2, <1>3 DEF Max

-----------------------------------------------------------------------------
(* Folds.  A fold over a sequence of length n is a function of the sets of   *)
(* its positions, of which the last one is taken off first.  G is what it    *)
(* does with that position and the value so far.                            *)
Folds(n, base, G, f) ==
  \A s \in SUBSET (1..n) : f[s] = IF s = {} THEN base ELSE G[Max(s)][f[s \ {Max(s)}]]

LEMMA MaxOff ==
  ASSUME NEW k \in Nat, NEW s \in SUBSET (1..k), s # {}
  PROVE  Max(s) \in 1..k /\ s \ {Max(s)} \in SUBSET (1..k - 1)
<1>1. s \in SUBSET (0..k)
  OBVIOUS
<1>2. Max(s) \in s /\ \A m \in s : m <= Max(s)
  BY <1>1, MaxIsGreatest
<1>3. ASSUME NEW m \in s, m # Max(s) PROVE m \in 1..k - 1
  <2>1. m \in 1..k /\ Max(s) \in 1..k /\ m <= Max(s)
    BY <1>2
  <2> QED BY <1>3, <2>1
<1> QED BY <1>2, <1>3

\* The positions up to the k-th.
LEMMA Segment ==
  ASSUME NEW k \in Nat \ {0}
  PROVE  1..k # {} /\ Max(1..k) = k /\ (1..k) \ {k} = 1..k - 1
<1>1. 1..k # {} /\ 1..k \in SUBSET (0..k) /\ k \in 1..k
  OBVIOUS
<1>2. Max(1..k) \in 1..k /\ k <= Max(1..k)
  BY <1>1, MaxIsGreatest
<1> QED BY <1>1, <1>2

LEMMA FoldExists ==
  ASSUME NEW n \in Nat, NEW V, NEW base \in V, NEW G \in [1..n -> [V -> V]]
  PROVE  \E f \in [SUBSET (1..n) -> V] : Folds(n, base, G, f)
<1> DEFINE Value(f, s) == IF s = {} THEN base ELSE G[Max(s)][f[s \ {Max(s)}]]
           Correct(k) ==
             \E f \in [SUBSET (1..n) -> V] : \A s \in SUBSET (1..k) : f[s] = Value(f, s)
           P == {k \in Nat : k <= n => Correct(k)}
<1>1. ASSUME NEW f \in [SUBSET (1..n) -> V], NEW s \in SUBSET (1..n)
      PROVE  Value(f, s) \in V
  <2>1. CASE s # {}
    <3>1. Max(s) \in 1..n /\ s \ {Max(s)} \in SUBSET (1..n)
      BY <2>1, MaxOff
    <3>2. f[s \ {Max(s)}] \in V
      BY <3>1
    <3> QED BY <2>1, <3>1, <3>2
  <2> QED BY <2>1
<1>2. 0 \in P
  <2>1. [s \in SUBSET (1..n) |-> base] \in [SUBSET (1..n) -> V]
    OBVIOUS
  <2>2. \A s \in SUBSET (1..0) : s = {}
    OBVIOUS
  <2>3. Correct(0)
    BY <2>1, <2>2
  <2> QED BY <2>3
<1>3. ASSUME NEW k \in Nat, k \in P, k + 1 <= n PROVE k + 1 \in P
  <2>0. Correct(k)
    <3> HIDE DEF Correct
    <3> QED BY <1>3
  <2>1. PICK f \in [SUBSET (1..n) -> V] : \A s \in SUBSET (1..k) : f[s] = Value(f, s)
    BY <2>0
  <2> DEFINE g == [s \in SUBSET (1..n) |-> Value(f, s)]
  <2>2. g \in [SUBSET (1..n) -> V]
    <3> HIDE DEF Value
    <3> QED BY <1>1
  <2>3. ASSUME NEW s \in SUBSET (1..k + 1) PROVE g[s] = Value(g, s)
    <3>1. s \in SUBSET (1..n)
      <4>1. k + 1 <= n
        BY <1>3
      <4>2. 1..k + 1 \subseteq 1..n
        BY <4>1
      <4> QED BY <4>2
    <3>2. g[s] = Value(f, s)
      BY <3>1
    <3>3. CASE s # {}
      <4>1. s \ {Max(s)} \in SUBSET (1..k)
        BY <3>3, MaxOff, SMTT(30)
      <4>2. s \ {Max(s)} \in SUBSET (1..n)
        BY <3>1
      <4>3. g[s \ {Max(s)}] = f[s \ {Max(s)}]
        <5> HIDE DEF Value
        <5> QED BY <2>1, <4>1, <4>2
      <4> QED BY <3>2, <3>3, <4>3
    <3>4. CASE s = {}
      BY <3>2, <3>4
    <3> QED BY <3>3, <3>4
  <2>4. Correct(k + 1)
    <3> HIDE DEF g, Value
    <3> QED BY <2>2, <2>3
  <2> HIDE DEF Correct
  <2> QED BY <2>4
<1>4. Nat \subseteq P
  <2>1. ASSUME NEW k \in Nat, k \in P, ~(k + 1 <= n) PROVE k + 1 \in P
    <3> HIDE DEF Correct
    <3> QED BY <2>1
  <2> HIDE DEF P
  <2> QED BY <1>2, <1>3, <2>1, Induct
<1>5. Correct(n)
  <2> HIDE DEF Correct
  <2> QED BY <1>4
<1> QED BY <1>5 DEF Folds

\* The values of a fold are in V when each step stays in V.
LEMMA FoldStays ==
  ASSUME NEW n \in Nat, NEW V, NEW f, f[{}] \in V,
         \A s \in SUBSET (1..n) : s # {} /\ f[s \ {Max(s)}] \in V => f[s] \in V
  PROVE  \A s \in SUBSET (1..n) : f[s] \in V
<1> DEFINE P == {k \in Nat : k <= n => \A s \in SUBSET (1..k) : f[s] \in V}
<1>1. 0 \in P
  <2>1. \A s \in SUBSET (1..0) : s = {}
    OBVIOUS
  <2> QED BY <2>1
<1>2. ASSUME NEW k \in Nat, k \in P PROVE k + 1 \in P
  <2>1. ASSUME k + 1 <= n, NEW s \in SUBSET (1..k + 1) PROVE f[s] \in V
    <3>1. 1..k + 1 \subseteq 1..n /\ k <= n
      BY <2>1
    <3>2. s \in SUBSET (1..n)
      BY <3>1
    <3>3. CASE s # {}
      <4>1. s \ {Max(s)} \in SUBSET (1..(k + 1) - 1)
        BY <3>3, MaxOff
      <4>2. (k + 1) - 1 = k
        OBVIOUS
      <4>3. f[s \ {Max(s)}] \in V
        BY <1>2, <3>1, <4>1, <4>2
      <4> QED BY <3>2, <3>3, <4>3
    <3> QED BY <3>3
  <2> QED BY <2>1
<1>3. Nat \subseteq P
  <2> HIDE DEF P
  <2> QED BY <1>1, <1>2, Induct
<1> QED BY <1>3

-----------------------------------------------------------------------------
(* Total(), Join() and ApplyNdef() one element at a time.                    *)

IsTotal(ns, f) ==
  f = [s \in SUBSET DOMAIN ns |->
         IF s = {} THEN 0 ELSE LET x == Max(s) IN f[s \ {x}] + ns[x]]

LEMMA TotalSteps ==
  ASSUME NEW n \in Nat, NEW ns \in [1..n -> Nat]
  PROVE  \E g : /\ \A k \in 0..n : g[1..k] \in Nat
                /\ g[1..0] = 0
                /\ \A k \in 1..n : g[1..k] = g[1..k - 1] + ns[k]
                /\ Total(ns) = g[1..n]
<1> DEFINE G == [i \in 1..n |-> [v \in Nat |-> v + ns[i]]]
           f == CHOOSE h : IsTotal(ns, h)
<1>1. DOMAIN ns = 1..n /\ 0 \in Nat
  OBVIOUS
<1>2. Total(ns) = f[DOMAIN ns]
  BY Zenon DEF Total, FoldLeft, MapThenFoldSet, IsTotal
<1>3. \A i \in 1..n, v \in Nat : v + ns[i] \in Nat
  OBVIOUS
<1>4. \E h : IsTotal(ns, h)
  <2>1. G \in [1..n -> [Nat -> Nat]]
    BY <1>3
  <2>2. \A i \in 1..n, v \in Nat : G[i][v] = v + ns[i]
    OBVIOUS
  <2> HIDE DEF G
  <2>3. PICK h \in [SUBSET (1..n) -> Nat] : Folds(n, 0, G, h)
    BY <1>1, <2>1, FoldExists, Zenon
  <2>4. \A s \in SUBSET (1..n) :
           h[s] = IF s = {} THEN 0 ELSE G[Max(s)][h[s \ {Max(s)}]]
    BY <2>3, Zenon DEF Folds
  <2>5. ASSUME NEW s \in SUBSET (1..n)
        PROVE  h[s] = IF s = {} THEN 0 ELSE h[s \ {Max(s)}] + ns[Max(s)]
    <3>1. CASE s # {}
      <4>1. Max(s) \in 1..n
        BY <3>1, MaxOff
      <4>2. h[s \ {Max(s)}] \in Nat
        OBVIOUS
      <4> QED BY <2>2, <2>4, <3>1, <4>1, <4>2
    <3>2. CASE s = {}
      BY <2>4, <3>2
    <3> QED BY <3>1, <3>2
  <2>6. IsTotal(ns, h)
    BY <1>1, <2>5 DEF IsTotal
  <2> QED BY <2>6
<1>5. IsTotal(ns, f)
  BY <1>4, Zenon
<1> HIDE DEF f, G
<1>6. \A s \in SUBSET (1..n) :
         f[s] = IF s = {} THEN 0 ELSE f[s \ {Max(s)}] + ns[Max(s)]
  BY <1>1, <1>5 DEF IsTotal
<1>7. \A s \in SUBSET (1..n) : f[s] \in Nat
  <2>1. f[{}] \in Nat
    <3>1. \A s \in SUBSET (1..n) : s = {} => f[s] = 0
      BY <1>6
    <3> QED BY <1>1, <3>1
  <2>2. ASSUME NEW s \in SUBSET (1..n), s # {}, f[s \ {Max(s)}] \in Nat
        PROVE  f[s] \in Nat
    <3>1. Max(s) \in 1..n
      BY <2>2, MaxOff
    <3>2. f[s] = f[s \ {Max(s)}] + ns[Max(s)]
      BY <1>6, <2>2
    <3> QED BY <1>3, <2>2, <3>1, <3>2
  <2> QED BY <2>1, <2>2, FoldStays
<1>8. f[1..0] = 0
  <2>1. 1..0 = {} /\ 1..0 \in SUBSET (1..n)
    OBVIOUS
  <2> QED BY <1>6, <2>1
<1>9. ASSUME NEW k \in 0..n PROVE 1..k \in SUBSET (1..n)
  OBVIOUS
<1>10. ASSUME NEW k \in 1..n PROVE f[1..k] = f[1..k - 1] + ns[k]
  <2>1. k \in Nat \ {0} /\ k \in 0..n
    OBVIOUS
  <2>2. 1..k # {} /\ Max(1..k) = k /\ (1..k) \ {k} = 1..k - 1
    BY <2>1, Segment
  <2>3. 1..k \in SUBSET (1..n)
    BY <1>9, <2>1
  <2> QED BY <1>6, <2>2, <2>3
<1>11. \A k \in 0..n : f[1..k] \in Nat
  BY <1>7, <1>9
<1> QED BY <1>1, <1>2, <1>8, <1>10, <1>11

\* Join() and ApplyNdef() from where they start.
Joined(p, ps) == FoldLeft(LAMBDA s, part : s \o <<"nl">> \o part, p, ps)

Applied(c, msg) == FoldLeft(ApplyRecord, c, msg)

LEMMA NlText == <<"nl">> \in Text
<1>1. "nl" \in Piece
  BY ContentAssumption
<1> QED BY <1>1 DEF Text

IsJoin(p, ps, f) ==
  f = [s \in SUBSET DOMAIN ps |->
         IF s = {} THEN p ELSE LET x == Max(s) IN f[s \ {x}] \o <<"nl">> \o ps[x]]

LEMMA JoinSteps ==
  ASSUME NEW n \in Nat, NEW p \in Text, NEW ps \in [1..n -> Text]
  PROVE  \E g : /\ \A k \in 0..n : g[1..k] \in Text
                /\ g[1..0] = p
                /\ \A k \in 1..n : g[1..k] = g[1..k - 1] \o <<"nl">> \o ps[k]
                /\ Joined(p, ps) = g[1..n]
<1> DEFINE G == [i \in 1..n |-> [v \in Text |-> v \o <<"nl">> \o ps[i]]]
           f == CHOOSE h : IsJoin(p, ps, h)
<1>1. DOMAIN ps = 1..n /\ p \in Text
  OBVIOUS
<1>2. Joined(p, ps) = f[DOMAIN ps]
  BY Zenon DEF Joined, FoldLeft, MapThenFoldSet, IsJoin
<1>3. \A i \in 1..n, v \in Text : v \o <<"nl">> \o ps[i] \in Text
  BY NlText, ConcatProperties DEF Text
<1>4. \E h : IsJoin(p, ps, h)
  <2>1. G \in [1..n -> [Text -> Text]]
    BY <1>3
  <2>2. \A i \in 1..n, v \in Text : G[i][v] = v \o <<"nl">> \o ps[i]
    OBVIOUS
  <2> HIDE DEF G
  <2>3. PICK h \in [SUBSET (1..n) -> Text] : Folds(n, p, G, h)
    BY <1>1, <2>1, FoldExists, Zenon
  <2>4. \A s \in SUBSET (1..n) :
           h[s] = IF s = {} THEN p ELSE G[Max(s)][h[s \ {Max(s)}]]
    BY <2>3, Zenon DEF Folds
  <2>5. ASSUME NEW s \in SUBSET (1..n)
        PROVE  h[s] = IF s = {} THEN p ELSE h[s \ {Max(s)}] \o <<"nl">> \o ps[Max(s)]
    <3>1. CASE s # {}
      <4>1. Max(s) \in 1..n
        BY <3>1, MaxOff
      <4>2. h[s \ {Max(s)}] \in Text
        OBVIOUS
      <4> QED BY <2>2, <2>4, <3>1, <4>1, <4>2
    <3>2. CASE s = {}
      BY <2>4, <3>2
    <3> QED BY <3>1, <3>2
  <2>6. IsJoin(p, ps, h)
    BY <1>1, <2>5 DEF IsJoin
  <2> QED BY <2>6
<1>5. IsJoin(p, ps, f)
  BY <1>4, Zenon
<1> HIDE DEF f, G
<1>6. \A s \in SUBSET (1..n) :
         f[s] = IF s = {} THEN p ELSE f[s \ {Max(s)}] \o <<"nl">> \o ps[Max(s)]
  BY <1>1, <1>5 DEF IsJoin
<1>7. \A s \in SUBSET (1..n) : f[s] \in Text
  <2>1. f[{}] \in Text
    <3>1. \A s \in SUBSET (1..n) : s = {} => f[s] = p
      BY <1>6
    <3> QED BY <1>1, <3>1
  <2>2. ASSUME NEW s \in SUBSET (1..n), s # {}, f[s \ {Max(s)}] \in Text
        PROVE  f[s] \in Text
    <3>1. Max(s) \in 1..n
      BY <2>2, MaxOff
    <3>2. f[s] = f[s \ {Max(s)}] \o <<"nl">> \o ps[Max(s)]
      BY <1>6, <2>2
    <3> QED BY <1>3, <2>2, <3>1, <3>2
  <2> QED BY <2>1, <2>2, FoldStays
<1>8. f[1..0] = p
  <2>1. 1..0 = {} /\ 1..0 \in SUBSET (1..n)
    OBVIOUS
  <2> QED BY <1>6, <2>1
<1>9. ASSUME NEW k \in 0..n PROVE 1..k \in SUBSET (1..n)
  OBVIOUS
<1>10. ASSUME NEW k \in 1..n PROVE f[1..k] = f[1..k - 1] \o <<"nl">> \o ps[k]
  <2>1. k \in Nat \ {0} /\ k \in 0..n
    OBVIOUS
  <2>2. 1..k # {} /\ Max(1..k) = k /\ (1..k) \ {k} = 1..k - 1
    BY <2>1, Segment
  <2>3. 1..k \in SUBSET (1..n)
    BY <1>9, <2>1
  <2> QED BY <1>6, <2>2, <2>3
<1>11. \A k \in 0..n : f[1..k] \in Text
  BY <1>7, <1>9
<1> QED BY <1>1, <1>2, <1>8, <1>10, <1>11

-----------------------------------------------------------------------------
(* Strings stay strings.                                                     *)
LEMMA TextFacts ==
  ASSUME NEW s \in Text
  PROVE  /\ Len(s) \in Nat /\ DOMAIN s = 1..Len(s)
         /\ \A i \in 1..Len(s) : s[i] \in Piece
BY LenProperties, ElementOfSeq DEF Text

LEMMA PartText ==
  ASSUME NEW s \in Text, NEW m \in 1..Len(s) + 1, NEW n \in 0..Len(s)
  PROVE  SubSeq(s, m, n) \in Text
<1>1. Len(s) \in Nat
  BY TextFacts
<1>2. m \in Int /\ n \in Int /\ \A i \in m..n : s[i] \in Piece
  BY <1>1, TextFacts
<1> QED BY <1>2, SubSeqProperties DEF Text

LEMMA ConcatText ==
  ASSUME NEW s \in Text, NEW t \in Text
  PROVE  s \o t \in Text
BY ConcatProperties DEF Text

LEMMA EmptyText == <<>> \in Text
BY EmptySeq DEF Text

LEMMA ReverseText ==
  ASSUME NEW s \in Text
  PROVE  Reverse(s) \in Text
<1>1. Len(s) \in Nat /\ \A i \in 1..Len(s) : s[(Len(s) - i) + 1] \in Piece
  BY TextFacts
<1>2. [i \in 1..Len(s) |-> s[(Len(s) - i) + 1]] \in [1..Len(s) -> Piece]
  BY <1>1
<1> QED BY <1>1, <1>2, SeqDef DEF Reverse, Text

LEMMA TrimStartText ==
  ASSUME NEW s \in Text, NEW pieces
  PROVE  TrimStart(s, pieces) \in Text
<1> DEFINE keep == {i \in DOMAIN s : s[i] \notin pieces}
<1>1. DOMAIN s = 1..Len(s) /\ Len(s) \in Nat
  BY TextFacts
<1>2. CASE keep # {}
  <2>1. keep \in SUBSET Nat /\ keep \subseteq 1..Len(s)
    BY <1>1
  <2>2. Min(keep) \in keep
    <3> HIDE DEF keep
    <3> QED BY <1>2, <2>1, MinIsLeast
  <2>3. Min(keep) \in 1..Len(s) + 1 /\ Len(s) \in 0..Len(s)
    <3> DEFINE m == Min(keep)
    <3>1. m \in 1..Len(s)
      <4> HIDE DEF keep
      <4> QED BY <2>1, <2>2
    <3> HIDE DEF m
    <3>2. m \in 1..Len(s) + 1 /\ Len(s) \in 0..Len(s)
      BY <1>1, <3>1
    <3> QED BY <3>2 DEF m
  <2>4. SubSeq(s, Min(keep), Len(s)) \in Text
    <3> HIDE DEF keep
    <3> QED BY <2>3, PartText
  <2> QED BY <1>2, <2>4, Zenon DEF TrimStart
<1>3. CASE keep = {}
  BY <1>3, EmptyText, Zenon DEF TrimStart
<1> QED BY <1>2, <1>3

LEMMA TrimText ==
  ASSUME NEW s \in Text
  PROVE  Trim(s) \in Text
BY TrimStartText, ReverseText DEF Trim

LEMMA SchemeText ==
  ASSUME NEW s \in Text
  PROVE  Scheme(s) \in Text
BY TrimStartText DEF Scheme

LEMMA HandleText ==
  ASSUME NEW s \in Text, NEW f
  PROVE  Handle(f, s) \in Text
BY TrimStartText DEF Handle

LEMMA LineText ==
  ASSUME NEW s \in Text, NEW separators, NEW n
  PROVE  Line(s, separators, n) \in Text
<1> DEFINE Before(i) == Cardinality({j \in 1..i : s[j] \in separators})
           part == {i \in DOMAIN s : s[i] \notin separators /\ Before(i) = n - 1}
<1>1. DOMAIN s = 1..Len(s) /\ Len(s) \in Nat
  BY TextFacts
<1>2. Line(s, separators, n) = IF part = {} THEN <<>> ELSE SubSeq(s, Min(part), Max(part))
  BY Zenon DEF Line
<1>3. part \in SUBSET (1..Len(s))
  <2> HIDE DEF Before
  <2> QED BY <1>1
<1> HIDE DEF part
<1>4. CASE part # {}
  <2>1. part \in SUBSET Nat /\ part \in SUBSET (0..Len(s))
    BY <1>1, <1>3
  <2>2. Min(part) \in part /\ Max(part) \in part
    BY <1>1, <1>4, <2>1, MinIsLeast, MaxIsGreatest
  <2>3. Min(part) \in 1..Len(s) + 1 /\ Max(part) \in 0..Len(s)
    <3>1. Min(part) \in 1..Len(s) /\ Max(part) \in 1..Len(s)
      BY <1>3, <2>2
    <3>2. \A m \in 1..Len(s) : m \in 1..Len(s) + 1 /\ m \in 0..Len(s)
      BY <1>1
    <3> QED BY <3>1, <3>2, Zenon
  <2> QED BY <1>2, <1>4, <2>3, PartText
<1>5. CASE part = {}
  BY <1>2, <1>5, EmptyText
<1> QED BY <1>4, <1>5

LEMMA BytesNat ==
  ASSUME NEW s \in Text
  PROVE  Bytes(s) \in Nat
<1> DEFINE ns == [i \in DOMAIN s |-> Width(s[i])]
<1>1. Len(s) \in Nat /\ ns \in [1..Len(s) -> Nat]
  BY TextFacts, ContentAssumption
<1>2. Total(ns) \in Nat
  <2> HIDE DEF ns
  <2>1. Len(s) \in 0..Len(s)
    BY <1>1
  <2> QED BY <1>1, <2>1, TotalSteps
<1> QED BY <1>2 DEF Bytes

LEMMA BytesEmpty == Bytes(<<>>) = 0
<1> DEFINE ns == [i \in DOMAIN <<>> |-> Width(<<>>[i])]
<1>1. ns \in [1..0 -> Nat]
  <2>1. DOMAIN <<>> = 1..0 /\ 1..0 = {}
    OBVIOUS
  <2> QED BY <2>1
<1>2. Total(ns) = 0
  <2> HIDE DEF ns
  <2> QED BY <1>1, TotalSteps
<1> QED BY <1>2 DEF Bytes

\* Join() of several strings.
LEMMA JoinText ==
  ASSUME NEW n \in Nat, NEW ps \in [1..n + 1 -> Text]
  PROVE  Join(ps) \in Text
<1>1. ps \in Seq(Text) /\ ps # <<>> /\ Len(ps) = n + 1
  <2>1. n + 1 \in Nat /\ 1 \in 1..n + 1
    OBVIOUS
  <2>2. ps \in Seq(Text)
    BY <2>1, SeqDef
  <2>3. DOMAIN ps = 1..n + 1
    OBVIOUS
  <2> QED BY <2>1, <2>2, <2>3, LenProperties
<1>2. Head(ps) \in Text /\ Tail(ps) \in Seq(Text) /\ Len(Tail(ps)) = n
  BY <1>1, HeadTailProperties
<1>3. Tail(ps) \in [1..n -> Text] /\ n \in 0..n
  <2> DEFINE q == Tail(ps)
  <2>1. q \in Seq(Text) /\ Len(q) = n
    BY <1>2
  <2> HIDE DEF q
  <2>2. q \in [1..n -> Text]
    BY <2>1, LenProperties
  <2> QED BY <2>2 DEF q
<1>4. Joined(Head(ps), Tail(ps)) \in Text
  <2> DEFINE p == Head(ps)
             q == Tail(ps)
  <2>1. p \in Text /\ q \in [1..n -> Text] /\ n \in 0..n
    BY <1>2, <1>3
  <2> HIDE DEF p, q
  <2>2. PICK g : /\ \A k \in 0..n : g[1..k] \in Text
                 /\ g[1..0] = p
                 /\ \A k \in 1..n : g[1..k] = g[1..k - 1] \o <<"nl">> \o q[k]
                 /\ Joined(p, q) = g[1..n]
    BY <2>1, JoinSteps, ZenonT(60)
  <2>3. Joined(p, q) \in Text
    BY <2>1, <2>2, Zenon
  <2> QED BY <2>3 DEF p, q
<1> QED BY <1>4, Zenon DEF Join, Joined

LEMMA FieldsText ==
  ASSUME NEW c \in Content
  PROVE  /\ \A f \in Field : c[f] \in Text
         /\ c.url \in Text /\ c["url"] = c.url /\ c.image \in Image \cup {None}
         /\ DOMAIN c = Field \cup {"url", "image"}
BY DEF Content, Field

LEMMA OrderOk ==
  /\ \A n \in 1..5 : FieldOrder[n] \in Field
  /\ DOMAIN FieldOrder = 1..5
BY DEF FieldOrder, Field

LEMMA TextPayloadText ==
  ASSUME NEW c \in Content
  PROVE  TextPayload(c) \in Text
<1> DEFINE ps == [n \in 1..5 |-> c[FieldOrder[n]]]
<1>1. ps \in [1..4 + 1 -> Text]
  BY FieldsText, OrderOk
<1>2. Join(ps) \in Text
  <2> HIDE DEF ps
  <2> QED BY <1>1, JoinText
<1> QED BY <1>2 DEF TextPayload

LEMMA ToPlainText ==
  ASSUME NEW c \in Content
  PROVE  ToPlain(c) \in Text
<1> DEFINE ps == [n \in 1..6 |-> IF n = 6 THEN c.url ELSE c[FieldOrder[n]]]
<1>1. ps \in [1..5 + 1 -> Text]
  <2>1. \A n \in 1..6 : n = 6 \/ n \in 1..5
    OBVIOUS
  <2> QED BY <2>1, FieldsText, OrderOk
<1>2. Join(ps) \in Text
  <2> HIDE DEF ps
  <2> QED BY <1>1, JoinText
<1> QED BY <1>2 DEF ToPlain

LEMMA WithinText ==
  ASSUME NEW s \in Text, NEW n \in Nat
  PROVE  Within(s, n) \in Text
<1> DEFINE K == {k \in 0..Len(s) : Bytes(SubSeq(s, 1, k)) =< n}
<1>1. Len(s) \in Nat
  BY TextFacts
<1>2. K \in SUBSET (0..Len(s)) /\ K # {}
  <2>1. SubSeq(s, 1, 0) = <<>>
    BY SubSeqEmpty
  <2>2. Bytes(SubSeq(s, 1, 0)) = 0
    BY <2>1, BytesEmpty, Zenon
  <2>3. 0 \in 0..Len(s) /\ 0 =< n
    BY <1>1
  <2> QED BY <2>2, <2>3
<1>3. Max(K) \in 0..Len(s)
  <2> HIDE DEF K
  <2> QED BY <1>1, <1>2, MaxIsGreatest
<1>4. SubSeq(s, 1, Max(K)) \in Text
  <2> HIDE DEF K
  <2> QED BY <1>1, <1>3, PartText
<1> QED BY <1>4, Zenon DEF Within

LEMMA ReadTextText ==
  ASSUME NEW r \in Record, r.type = "T", ReadText(r) # None
  PROVE  ReadText(r) \in Text
<1>1. r.len \in Nat /\ r.lang \in Nat /\ r.text \in Text
  BY DEF Record
<1>2. ~(r.len < 1 + r.lang) /\ ReadText(r) = Within(r.text, r.len - 1 - r.lang)
  BY DEF ReadText
<1>3. r.len - 1 - r.lang \in Nat
  BY <1>1, <1>2
<1> QED BY <1>1, <1>2, <1>3, WithinText

LEMMA PrefixText ==
  ASSUME NEW code
  PROVE  UriPrefix(code) \in Text
<1>1. {"http://", "https://", "mailto:"} \subseteq Piece
  BY ContentAssumption
<1>2. <<"http://">> \in Text /\ <<"https://">> \in Text /\ <<"mailto:">> \in Text /\ <<>> \in Text
  BY <1>1, EmptyText DEF Text
<1> QED BY <1>2 DEF UriPrefix

LEMMA ReadUrlText ==
  ASSUME NEW r \in Record, r.type = "U", r.len > 0
  PROVE  ReadUrl(r) \in Text
<1>1. r.len - 1 \in Nat /\ r.rest \in Text
  BY DEF Record
<1>2. UriPrefix(r.code) \o Within(r.rest, r.len - 1) \in Text
  BY <1>1, PrefixText, WithinText, ConcatText
<1> QED BY <1>2, SchemeText DEF ReadUrl

LEMMA ImageOfType ==
  ASSUME NEW r \in Record, r.type = "image", ImageOf(r.payload) # None
  PROVE  ImageOf(r.payload) \in Image
<1> DEFINE p == r.payload
<1>1. p \in Payload
  BY DEF Record
<1>2. p.width \in Nat /\ p.height \in Nat
  BY <1>1 DEF Payload
<1> HIDE DEF p
<1>3. ImageOf(p) = DecodedImage(p) /\ DecodedImage(p) # None
  BY DEF ImageOf, p
<1>4. (p.width + 7) \div 8 \in Nat
  BY <1>2
<1>5. RowBytes(p.width) * p.height \in Nat
  <2>1. \A a, b \in Nat : a * b \in Nat
    OBVIOUS
  <2> QED BY <1>2, <1>4, <2>1 DEF RowBytes
<1>6. ImageOf(p) = [width |-> p.width, height |-> p.height, bits |-> RowBytes(p.width) * p.height]
  BY <1>3 DEF DecodedImage
<1> QED BY <1>2, <1>5, <1>6 DEF Image, p


-----------------------------------------------------------------------------
(* Lines of joined strings.                                                  *)

\* Where the separators in q are.
Seps(s, q) == {j \in 1..Len(s) : s[j] \in q}

\* (Named, so that provers do not take \o apart.)
Glued(s, a, b) == s = a \o b

\* The string p is in s behind n - 1 separators, the last of them just before
\* it, and before the end or another separator.
Between(s, p, n, q) ==
  \E a, b, t \in Text :
    /\ Glued(t, a, p) /\ Glued(s, t, b)
    /\ Cardinality(Seps(a, q)) = n - 1
    /\ a = <<>> \/ a[Len(a)] \in q
    /\ b = <<>> \/ b[1] \in q

LEMMA FiniteUpTo ==
  ASSUME NEW k \in Nat, NEW S \in SUBSET (1..k)
  PROVE  IsFiniteSet(S) /\ Cardinality(S) \in Nat
<1>1. IsFiniteSet(1..k)
  BY FS_Interval
<1> QED BY <1>1, FS_Subset, FS_CardinalityType

LEMMA FewerIn ==
  ASSUME NEW k \in Nat, NEW S \in SUBSET (1..k), NEW T \in SUBSET S, T # S
  PROVE  Cardinality(T) < Cardinality(S)
<1>1. IsFiniteSet(S) /\ Cardinality(S) \in Nat /\ Cardinality(T) \in Nat
  BY FiniteUpTo
<1>2. Cardinality(T) <= Cardinality(S) /\ (Cardinality(S) = Cardinality(T) => S = T)
  BY <1>1, FS_Subset
<1> QED BY <1>1, <1>2

LEMMA TwoParts ==
  ASSUME NEW a \in Text, NEW b \in Text, NEW s, Glued(s, a, b)
  PROVE  /\ s \in Text /\ Len(s) = Len(a) + Len(b)
         /\ \A i \in 1..Len(a) : s[i] = a[i]
         /\ \A i \in 1..Len(b) : s[Len(a) + i] = b[i]
<1>1. Len(a) \in Nat /\ Len(b) \in Nat
  BY TextFacts
<1>2. /\ s \in Text /\ Len(s) = Len(a) + Len(b)
      /\ \A i \in 1..Len(a) + Len(b) : s[i] = IF i <= Len(a) THEN a[i] ELSE b[i - Len(a)]
  BY ConcatProperties DEF Text, Glued
<1>3. ASSUME NEW i \in 1..Len(a) PROVE s[i] = a[i]
  BY <1>1, <1>2
<1>4. ASSUME NEW i \in 1..Len(b) PROVE s[Len(a) + i] = b[i]
  BY <1>1, <1>2
<1> QED BY <1>2, <1>3, <1>4

LEMMA ThreeParts ==
  ASSUME NEW a \in Text, NEW p \in Text, NEW b \in Text, NEW s, NEW t,
         Glued(t, a, p), Glued(s, t, b)
  PROVE  /\ s \in Text /\ Len(s) = Len(a) + Len(p) + Len(b)
         /\ \A i \in 1..Len(a) : s[i] = a[i]
         /\ \A i \in 1..Len(p) : s[Len(a) + i] = p[i]
         /\ \A i \in 1..Len(b) : s[Len(a) + Len(p) + i] = b[i]
<1>1. Len(a) \in Nat /\ Len(p) \in Nat /\ Len(b) \in Nat
  BY TextFacts
<1>3. /\ t \in Text /\ Len(t) = Len(a) + Len(p)
      /\ \A i \in 1..Len(a) : t[i] = a[i]
      /\ \A i \in 1..Len(p) : t[Len(a) + i] = p[i]
  BY TwoParts
<1>4. /\ s \in Text /\ Len(s) = Len(t) + Len(b)
      /\ \A i \in 1..Len(t) : s[i] = t[i]
      /\ \A i \in 1..Len(b) : s[Len(t) + i] = b[i]
  BY <1>3, TwoParts
<1>5. ASSUME NEW i \in 1..Len(a) PROVE s[i] = a[i]
  <2>1. i \in 1..Len(t)
    BY <1>1, <1>3
  <2> QED BY <1>3, <1>4, <2>1
<1>6. ASSUME NEW i \in 1..Len(p) PROVE s[Len(a) + i] = p[i]
  <2>1. Len(a) + i \in 1..Len(t)
    BY <1>1, <1>3
  <2> QED BY <1>3, <1>4, <2>1
<1> QED BY <1>1, <1>3, <1>4, <1>5, <1>6

LEMMA LineBetween ==
  ASSUME NEW s \in Text, NEW p \in Text, NEW n \in Nat \ {0}, NEW q,
         Seps(p, q) = {}, Between(s, p, n, q)
  PROVE  Line(s, q, n) = p
<1> DEFINE Upto(i) == {j \in 1..i : s[j] \in q}
           part == {i \in DOMAIN s : s[i] \notin q /\ Cardinality(Upto(i)) = n - 1}
<1>1. PICK a \in Text, b \in Text, t \in Text :
         /\ Glued(t, a, p) /\ Glued(s, t, b)
         /\ Cardinality(Seps(a, q)) = n - 1
         /\ a = <<>> \/ a[Len(a)] \in q
         /\ b = <<>> \/ b[1] \in q
  BY DEF Between
<1> DEFINE la == Len(a)
           lp == Len(p)
           lb == Len(b)
<1>2. /\ la \in Nat /\ lp \in Nat /\ lb \in Nat
      /\ Len(s) = la + lp + lb /\ DOMAIN s = 1..Len(s)
      /\ \A i \in 1..la : s[i] = a[i]
      /\ \A i \in 1..lp : s[la + i] = p[i]
      /\ \A i \in 1..lb : s[la + lp + i] = b[i]
  BY <1>1, ThreeParts, TextFacts
<1>3. (la # 0 => a[la] \in q) /\ (lb # 0 => b[1] \in q)
  BY <1>1, EmptySeq DEF Text
<1>4. Line(s, q, n) = IF part = {} THEN <<>> ELSE SubSeq(s, Min(part), Max(part))
  BY Zenon DEF Line
<1>5. Seps(a, q) = Upto(la) /\ Cardinality(Upto(la)) = n - 1
  <2>1. Seps(a, q) = Upto(la)
    BY <1>2 DEF Seps
  <2> QED BY <1>1, <2>1
<1>6. \A i \in la + 1..la + lp : s[i] \notin q
  <2> SUFFICES ASSUME NEW i \in la + 1..la + lp PROVE s[i] \notin q
    OBVIOUS
  <2>1. i - la \in 1..lp /\ la + (i - la) = i
    BY <1>2
  <2>2. s[i] = p[i - la]
    BY <1>2, <2>1
  <2> QED BY <2>1, <2>2 DEF Seps
<1> HIDE DEF la, lp, lb
<1>7. ASSUME NEW i \in 1..la, s[i] \notin q PROVE Cardinality(Upto(i)) # n - 1
  <2>1. la # 0 /\ i # la /\ la \in Upto(la) /\ la \notin Upto(i)
    BY <1>2, <1>3, <1>7 DEF la
  <2>2. Upto(i) \in SUBSET Upto(la) /\ Upto(la) \in SUBSET (1..la) /\ Upto(i) # Upto(la)
    BY <1>2, <2>1
  <2>3. Cardinality(Upto(i)) < Cardinality(Upto(la))
    <3> HIDE DEF Upto
    <3> QED BY <1>2, <2>2, FewerIn
  <2>4. Cardinality(Upto(i)) \in Nat
    <3> HIDE DEF Upto
    <3> QED BY <1>2, <2>2, FiniteUpTo
  <2> QED BY <1>5, <2>3, <2>4
<1>8. ASSUME NEW i \in la + 1..la + lp PROVE Cardinality(Upto(i)) = n - 1
  <2>1. Upto(i) = Upto(la)
    BY <1>2, <1>6
  <2> QED BY <1>5, <2>1
<1>9. ASSUME NEW i \in la + lp + 1..la + lp + lb PROVE Cardinality(Upto(i)) # n - 1
  <2>1. lb # 0 /\ 1 \in 1..lb
    BY <1>2
  <2>2. s[la + lp + 1] \in q
    BY <1>2, <1>3, <2>1
  <2>3. la + lp + 1 \in Upto(i) /\ la + lp + 1 \notin Upto(la) /\ i \in Nat
    BY <1>2, <2>2
  <2>4. Upto(la) \in SUBSET Upto(i) /\ Upto(i) \in SUBSET (1..i) /\ Upto(i) # Upto(la)
    BY <1>2, <2>3
  <2>5. Cardinality(Upto(la)) < Cardinality(Upto(i))
    <3> HIDE DEF Upto
    <3> QED BY <2>3, <2>4, FewerIn
  <2> QED BY <1>5, <2>5
<1>10. part = la + 1..la + lp
  <2>1. part \subseteq la + 1..la + lp
    <3> SUFFICES ASSUME NEW i \in 1..Len(s), s[i] \notin q, Cardinality(Upto(i)) = n - 1
                 PROVE  i \in la + 1..la + lp
      BY <1>2
    <3> HIDE DEF Upto
    <3>1. i \in 1..la \/ i \in la + 1..la + lp \/ i \in la + lp + 1..la + lp + lb
      BY <1>2
    <3> QED BY <1>7, <1>9, <3>1
  <2>2. la + 1..la + lp \subseteq part
    <3> SUFFICES ASSUME NEW i \in la + 1..la + lp
                 PROVE  i \in DOMAIN s /\ s[i] \notin q /\ Cardinality(Upto(i)) = n - 1
      OBVIOUS
    <3> HIDE DEF Upto
    <3> QED BY <1>2, <1>6, <1>8
  <2> QED BY <2>1, <2>2
<1> HIDE DEF part
<1>11. CASE lp = 0
  <2>1. part = {}
    BY <1>2, <1>10, <1>11
  <2>2. p = <<>>
    BY <1>11, EmptySeq DEF lp, Text
  <2> QED BY <1>4, <2>1, <2>2
<1>12. CASE lp # 0
  <2>1. part \in SUBSET Nat /\ part \in SUBSET (0..la + lp) /\ la + lp \in Nat
        /\ la + 1 \in part /\ la + lp \in part
    BY <1>2, <1>10, <1>12
  <2>2. /\ Min(part) \in part /\ Min(part) <= la + 1
        /\ Max(part) \in part /\ la + lp <= Max(part)
    BY <2>1, MinIsLeast, MaxIsGreatest
  <2>3. Min(part) = la + 1 /\ Max(part) = la + lp
    BY <1>2, <1>10, <2>2
  <2>4. SubSeq(s, la + 1, la + lp) = p
    <3> DEFINE w == SubSeq(s, la + 1, la + lp)
    <3>1. la + 1 \in 1..Len(s) + 1 /\ la + lp \in 0..Len(s)
      BY <1>2
    <3>2. la + 1 \in Int /\ la + lp \in Int /\ \A i \in la + 1..la + lp : s[i] \in Piece
      BY <1>2, TextFacts
    <3>3. /\ w \in Seq(Piece) /\ Len(w) = IF la + 1 <= la + lp THEN (la + lp) - (la + 1) + 1 ELSE 0
          /\ \A i \in 1..(la + lp) - (la + 1) + 1 : w[i] = s[(la + 1) + i - 1]
      BY <3>2, SubSeqProperties
    <3> HIDE DEF w
    <3>4. Len(w) = lp /\ (la + lp) - (la + 1) + 1 = lp
      BY <1>2, <1>12, <3>3
    <3>5. ASSUME NEW i \in 1..lp PROVE w[i] = p[i]
      <4>1. (la + 1) + i - 1 = la + i
        BY <1>2
      <4> QED BY <1>2, <3>3, <3>4, <4>1
    <3>6. w = p
      BY <3>3, <3>4, <3>5, SeqEqual DEF Text, lp
    <3> QED BY <3>6 DEF w
  <2>5. part # {}
    BY <2>1
  <2> QED BY <1>4, <2>3, <2>4, <2>5
<1> QED BY <1>11, <1>12

\* The line feed of a join.
Nl == <<"nl">>

LEMMA NlFacts == Nl \in Text /\ Len(Nl) = 1 /\ Nl[1] = "nl"
BY NlText DEF Nl

\* A line feed more is a separator more, at the end.
LEMMA SepsMore ==
  ASSUME NEW a \in Text, NEW t, NEW q, "nl" \in q, Glued(t, a, Nl)
  PROVE  /\ t \in Text /\ t # <<>> /\ t[Len(t)] \in q
         /\ Cardinality(Seps(t, q)) = Cardinality(Seps(a, q)) + 1
<1>1. /\ t \in Text /\ Len(t) = Len(a) + Len(Nl) /\ Len(a) \in Nat
      /\ \A i \in 1..Len(a) : t[i] = a[i]
      /\ \A i \in 1..Len(Nl) : t[Len(a) + i] = Nl[i]
  <2>1. Nl \in Text /\ Len(a) \in Nat
    BY NlFacts, TextFacts
  <2> QED BY <2>1, TwoParts
<1>2. Len(Nl) = 1 /\ Nl[1] = "nl"
  BY NlFacts
<1>3. Len(t) = Len(a) + 1 /\ t[Len(a) + 1] = "nl"
  BY <1>1, <1>2
<1>4. Seps(t, q) = Seps(a, q) \cup {Len(a) + 1} /\ Len(a) + 1 \notin Seps(a, q)
  BY <1>1, <1>3 DEF Seps
<1>5. IsFiniteSet(Seps(a, q))
  <2>1. Seps(a, q) \in SUBSET (1..Len(a))
    BY DEF Seps
  <2> QED BY <1>1, <2>1, FiniteUpTo
<1>6. Cardinality(Seps(t, q)) = Cardinality(Seps(a, q)) + 1
  BY <1>4, <1>5, FS_AddElement
<1>7. t # <<>>
  BY <1>1, <1>3, EmptySeq DEF Text
<1> QED BY <1>1, <1>3, <1>6, <1>7

\* A string without separators adds none.
LEMMA SepsSame ==
  ASSUME NEW a \in Text, NEW b \in Text, NEW s, NEW q, Glued(s, a, b), Seps(b, q) = {}
  PROVE  Seps(s, q) = Seps(a, q)
<1>1. /\ Len(s) = Len(a) + Len(b) /\ Len(a) \in Nat /\ Len(b) \in Nat
      /\ \A i \in 1..Len(a) : s[i] = a[i]
      /\ \A i \in 1..Len(b) : s[Len(a) + i] = b[i]
  BY TwoParts, TextFacts
<1>2. ASSUME NEW j \in 1..Len(s), s[j] \in q PROVE j \in 1..Len(a)
  <2>1. CASE ~(j <= Len(a))
    <3>1. j - Len(a) \in 1..Len(b) /\ Len(a) + (j - Len(a)) = j
      BY <1>1, <2>1
    <3>2. j - Len(a) \in Seps(b, q)
      BY <1>1, <1>2, <3>1 DEF Seps
    <3> QED BY <3>2
  <2> QED BY <1>1, <2>1
<1> QED BY <1>1, <1>2 DEF Seps

LEMMA SepsEmpty == \A q : Seps(<<>>, q) = {} /\ Cardinality(Seps(<<>>, q)) = 0
<1>1. \A q : Seps(<<>>, q) = {}
  <2>1. Len(<<>>) = 0 /\ 1..0 = {}
    OBVIOUS
  <2> QED BY <2>1 DEF Seps
<1> QED BY <1>1, FS_EmptySet

\* What follows a line feed does not matter to the lines before it.
LEMMA BetweenMore ==
  ASSUME NEW s \in Text, NEW p \in Text, NEW n, NEW q, "nl" \in q, Between(s, p, n, q),
         NEW x \in Text, NEW s1, Glued(s1, s \o Nl, x)
  PROVE  Between(s1, p, n, q)
<1>1. PICK a \in Text, b \in Text, t \in Text :
         /\ Glued(t, a, p) /\ Glued(s, t, b)
         /\ Cardinality(Seps(a, q)) = n - 1
         /\ a = <<>> \/ a[Len(a)] \in q
         /\ b = <<>> \/ b[1] \in q
  BY DEF Between
<1>2. PICK c : Glued(c, b, Nl)
  BY DEF Glued
<1>3. PICK d : Glued(d, c, x)
  BY DEF Glued
<1>4. c \in Text /\ d \in Text
  BY <1>2, <1>3, NlFacts, TwoParts
<1>5. Glued(s1, t, d)
  <2>1. s \o Nl = t \o c
    <3>1. (t \o b) \o Nl = t \o (b \o Nl)
      <4>1. t \in Seq(Piece) /\ b \in Seq(Piece) /\ Nl \in Seq(Piece)
        BY NlFacts DEF Text
      <4> QED BY <4>1, ConcatAssociative, SMTT(30)
    <3> QED BY <1>1, <1>2, <3>1, Zenon DEF Glued
  <2>2. (t \o c) \o x = t \o (c \o x)
    <3>1. t \in Seq(Piece) /\ c \in Seq(Piece) /\ x \in Seq(Piece)
      BY <1>4 DEF Text
    <3> QED BY <3>1, ConcatAssociative
  <2> QED BY <1>3, <2>1, <2>2, Zenon DEF Glued
<1>6. d # <<>> /\ d[1] \in q
  <2>1. /\ Len(c) = Len(b) + Len(Nl) /\ Len(b) \in Nat
        /\ \A i \in 1..Len(b) : c[i] = b[i]
        /\ \A i \in 1..Len(Nl) : c[Len(b) + i] = Nl[i]
    <3>1. Nl \in Text /\ Len(b) \in Nat
      BY NlFacts, TextFacts
    <3> QED BY <1>2, <3>1, TwoParts
  <2>2. Len(Nl) = 1 /\ Nl[1] = "nl"
    BY NlFacts
  <2>3. /\ Len(d) = Len(c) + Len(x) /\ Len(x) \in Nat
        /\ \A i \in 1..Len(c) : d[i] = c[i]
    BY <1>3, <1>4, TwoParts, TextFacts
  <2>4. Len(c) = Len(b) + 1 /\ c[Len(b) + 1] = "nl" /\ 1 \in 1..Len(c)
    BY <2>1, <2>2
  <2>5. c[1] \in q
    <3>1. CASE Len(b) = 0
      BY <2>4, <3>1
    <3>2. CASE Len(b) # 0
      <4>1. b # <<>> /\ 1 \in 1..Len(b)
        BY <2>1, <3>2
      <4> QED BY <1>1, <2>1, <4>1
    <3> QED BY <3>1, <3>2
  <2>6. Len(d) # 0 /\ d[1] = c[1]
    BY <2>3, <2>4, <2>1
  <2> QED BY <2>5, <2>6
<1> QED BY <1>1, <1>4, <1>5, <1>6 DEF Between

\* The k-th part of a join.
Part(p, ps, k) == IF k = 1 THEN p ELSE ps[k - 1]

LEMMA JoinedLine ==
  ASSUME NEW n \in Nat, NEW p \in Text, NEW ps \in [1..n -> Text], NEW q, "nl" \in q,
         NEW k \in 1..n + 1, \A j \in 1..k : Seps(Part(p, ps, j), q) = {}
  PROVE  Joined(p, ps) \in Text /\ Line(Joined(p, ps), q, k) = Part(p, ps, k)
<1>1. PICK g : /\ \A m \in 0..n : g[1..m] \in Text
               /\ g[1..0] = p
               /\ \A m \in 1..n : g[1..m] = g[1..m - 1] \o Nl \o ps[m]
               /\ Joined(p, ps) = g[1..n]
  BY JoinSteps, ZenonT(60) DEF Nl
<1> DEFINE J == [m \in 0..n |-> g[1..m]]
<1>2. /\ J \in [0..n -> Text] /\ J[0] = p
      /\ \A m \in 1..n : Glued(J[m], J[m - 1] \o Nl, ps[m])
      /\ Joined(p, ps) = J[n]
  <2>1. J \in [0..n -> Text]
    BY <1>1
  <2>2. 0 \in 0..n /\ n \in 0..n /\ \A m \in 1..n : m \in 0..n /\ m - 1 \in 0..n
    OBVIOUS
  <2>3. \A m \in 1..n : J[m] = g[1..m] /\ J[m - 1] = g[1..m - 1]
    BY <2>2
  <2>4. \A m \in 1..n : Glued(J[m], J[m - 1] \o Nl, ps[m])
    <3> HIDE DEF J
    <3> QED BY <1>1, <2>3, Zenon DEF Glued
  <2>5. J[0] = p /\ Joined(p, ps) = J[n]
    BY <1>1, <2>2
  <2> QED BY <2>1, <2>4, <2>5
<1> HIDE DEF J
<1>3. ASSUME NEW m \in Nat
      PROVE  m < k => Cardinality(Seps(J[m], q)) = m
  <2> DEFINE P == {i \in Nat : i < k => Cardinality(Seps(J[i], q)) = i}
  <2>1. 0 \in P
    <3>1. 1 \in 1..k /\ Part(p, ps, 1) = p
      BY DEF Part
    <3>2. Seps(J[0], q) = {}
      BY <1>2, <3>1
    <3>3. Cardinality(Seps(J[0], q)) = 0
      BY <3>2, FS_EmptySet
    <3> QED BY <3>3
  <2>2. ASSUME NEW i \in Nat, i \in P, i + 1 < k PROVE Cardinality(Seps(J[i + 1], q)) = i + 1
    <3>1. i + 1 \in 1..n /\ i \in 0..n /\ (i + 1) - 1 = i /\ i + 2 \in 1..k
      BY <2>2
    <3>2. J[i] \in Text /\ ps[i + 1] \in Text /\ Glued(J[i + 1], J[i] \o Nl, ps[i + 1])
      BY <1>2, <3>1
    <3>3. PICK a : Glued(a, J[i], Nl)
      BY DEF Glued
    <3>4. a \in Text /\ Cardinality(Seps(a, q)) = Cardinality(Seps(J[i], q)) + 1
      BY <3>2, <3>3, SepsMore
    <3>5. Glued(J[i + 1], a, ps[i + 1])
      BY <3>2, <3>3, Zenon DEF Glued
    <3>6. Part(p, ps, i + 2) = ps[i + 1]
      BY DEF Part
    <3>7. Seps(J[i + 1], q) = Seps(a, q)
      BY <3>1, <3>2, <3>4, <3>5, <3>6, SepsSame
    <3> QED BY <2>2, <3>4, <3>7
  <2>3. \A i \in Nat : i \in P => i + 1 \in P
    BY <2>2
  <2>4. Nat \subseteq P
    <3> HIDE DEF P
    <3> QED BY <2>1, <2>3, Induct
  <2> QED BY <2>4
<1>4. Between(J[k - 1], Part(p, ps, k), k, q)
  <2>1. CASE k = 1
    <3>1. Glued(p, <<>>, p) /\ Glued(p, p, <<>>)
      BY ConcatEmptySeq DEF Glued, Text
    <3>2. Between(p, p, 1, q)
      BY <3>1, EmptyText, SepsEmpty DEF Between
    <3> QED BY <1>2, <2>1, <3>2 DEF Part
  <2>2. CASE k # 1
    <3>1. k - 1 \in 1..n /\ k - 2 \in Nat /\ k - 2 \in 0..n /\ (k - 1) - 1 = k - 2 /\ k - 2 < k
      BY <2>2
    <3>2. /\ J[k - 2] \in Text /\ J[k - 1] \in Text /\ ps[k - 1] \in Text
          /\ Glued(J[k - 1], J[k - 2] \o Nl, ps[k - 1])
      BY <1>2, <3>1
    <3>3. PICK a : Glued(a, J[k - 2], Nl)
      BY DEF Glued
    <3>4. /\ a \in Text /\ a[Len(a)] \in q
          /\ Cardinality(Seps(a, q)) = Cardinality(Seps(J[k - 2], q)) + 1
      BY <3>2, <3>3, SepsMore
    <3>5. Cardinality(Seps(a, q)) = k - 1
      <4>1. Cardinality(Seps(J[k - 2], q)) = k - 2
        BY <1>3, <3>1
      <4> QED BY <3>1, <3>4, <4>1
    <3>6. Glued(J[k - 1], a, ps[k - 1])
      BY <3>2, <3>3, Zenon DEF Glued
    <3>7. Glued(J[k - 1], J[k - 1], <<>>)
      BY <3>2, ConcatEmptySeq DEF Glued, Text
    <3>8. Between(J[k - 1], ps[k - 1], k, q)
      BY <3>2, <3>4, <3>5, <3>6, <3>7, EmptyText DEF Between
    <3> QED BY <2>2, <3>8 DEF Part
  <2> QED BY <2>1, <2>2
<1>5. Part(p, ps, k) \in Text
  <2>1. k # 1 => k - 1 \in 1..n
    OBVIOUS
  <2> QED BY <2>1 DEF Part
<1>6. Between(J[n], Part(p, ps, k), k, q)
  <2> DEFINE P == {d \in Nat : k - 1 + d <= n => Between(J[k - 1 + d], Part(p, ps, k), k, q)}
  <2>1. 0 \in P
    <3>1. k - 1 + 0 = k - 1
      OBVIOUS
    <3> QED BY <1>4, <3>1
  <2>2. ASSUME NEW d \in Nat, d \in P PROVE d + 1 \in P
    <3>1. CASE k - 1 + (d + 1) <= n
      <4> DEFINE m == k - 1 + d
      <4>1. m + 1 = k - 1 + (d + 1) /\ m + 1 \in 1..n /\ m \in 0..n /\ (m + 1) - 1 = m /\ m <= n
        BY <3>1
      <4>2. Between(J[m], Part(p, ps, k), k, q)
        BY <2>2, <4>1
      <4> HIDE DEF m
      <4>3. J[m] \in Text /\ ps[m + 1] \in Text /\ Glued(J[m + 1], J[m] \o Nl, ps[m + 1])
        BY <1>2, <4>1
      <4>4. Between(J[m + 1], Part(p, ps, k), k, q)
        BY <1>5, <4>2, <4>3, BetweenMore
      <4>5. Between(J[k - 1 + (d + 1)], Part(p, ps, k), k, q)
        BY <4>1, <4>4
      <4> QED BY <4>5
    <3> QED BY <3>1
  <2>3. Nat \subseteq P
    <3> HIDE DEF P
    <3> QED BY <2>1, <2>2, Induct
  <2>4. n - k + 1 \in Nat /\ k - 1 + (n - k + 1) = n
    OBVIOUS
  <2>5. n - k + 1 \in P
    BY <2>3, <2>4
  <2> QED BY <2>4, <2>5
<1>7. J[n] \in Text /\ k \in Nat \ {0} /\ k \in 1..k
  BY <1>2
<1> QED BY <1>2, <1>5, <1>6, <1>7, LineBetween

-----------------------------------------------------------------------------
(* The fields hold no line feeds, and no "@" where apply_ndef() and          *)
(* apply_plain() take one off.                                               *)
FieldsOk(c) ==
  \A f \in Field : Seps(c[f], {"nl"}) = {} /\ Handle(f, c[f]) = c[f]

Tidy == {c \in Content : FieldsOk(c)}

LEMMA CleanPart ==
  ASSUME NEW s \in Text, NEW m \in 1..Len(s) + 1, NEW n \in 0..Len(s), NEW q,
         \A i \in m..n : s[i] \notin q
  PROVE  Seps(SubSeq(s, m, n), q) = {}
<1>1. Len(s) \in Nat /\ m \in Int /\ n \in Int /\ \A i \in m..n : s[i] \in Piece
  BY TextFacts
<1>2. /\ Len(SubSeq(s, m, n)) = IF m <= n THEN n - m + 1 ELSE 0
      /\ \A i \in 1..n - m + 1 : SubSeq(s, m, n)[i] = s[m + i - 1]
  BY <1>1, SubSeqProperties
<1> DEFINE w == SubSeq(s, m, n)
<1>3. /\ Len(w) = IF m <= n THEN n - m + 1 ELSE 0
      /\ \A i \in 1..n - m + 1 : w[i] = s[m + i - 1]
  BY <1>2
<1> HIDE DEF w
<1>4. ASSUME NEW i \in 1..Len(w) PROVE w[i] \notin q
  <2>1. i \in 1..n - m + 1 /\ m + i - 1 \in m..n
    BY <1>1, <1>3
  <2> QED BY <1>3, <2>1
<1>5. Seps(w, q) = {}
  BY <1>4 DEF Seps
<1> QED BY <1>5 DEF w

LEMMA CleanAt ==
  ASSUME NEW s \in Text, NEW q, Seps(s, q) = {}, NEW i \in 1..Len(s)
  PROVE  s[i] \notin q
BY DEF Seps

\* TrimStart() is empty, or starts with a piece that stays.
LEMMA TrimStartIs ==
  ASSUME NEW s \in Text, NEW pieces
  PROVE  \/ /\ TrimStart(s, pieces) = <<>>
            /\ \A i \in 1..Len(s) : s[i] \in pieces
         \/ \E m \in 1..Len(s) :
              /\ TrimStart(s, pieces) = SubSeq(s, m, Len(s))
              /\ s[m] \notin pieces /\ \A i \in 1..m - 1 : s[i] \in pieces
<1> DEFINE keep == {i \in DOMAIN s : s[i] \notin pieces}
<1>1. DOMAIN s = 1..Len(s) /\ Len(s) \in Nat
  BY TextFacts
<1>2. TrimStart(s, pieces) = IF keep = {} THEN <<>> ELSE SubSeq(s, Min(keep), Len(s))
  BY Zenon DEF TrimStart
<1>3. /\ keep \in SUBSET (1..Len(s)) /\ keep \in SUBSET Nat
      /\ \A i \in 1..Len(s) : i \in keep <=> s[i] \notin pieces
  BY <1>1
<1> HIDE DEF keep
<1>4. CASE keep # {}
  <2>1. PICK m \in keep : m = Min(keep) /\ \A i \in keep : m <= i
    BY <1>3, <1>4, MinIsLeast
  <2>2. m \in 1..Len(s) /\ s[m] \notin pieces
    BY <1>3
  <2>3. ASSUME NEW i \in 1..m - 1 PROVE s[i] \in pieces
    <3>1. i \in 1..Len(s) /\ ~(m <= i)
      BY <1>1, <2>2
    <3> QED BY <1>3, <2>1, <3>1
  <2>4. TrimStart(s, pieces) = SubSeq(s, m, Len(s))
    BY <1>2, <1>4, <2>1, Zenon
  <2> QED BY <2>2, <2>3, <2>4
<1>5. CASE keep = {}
  BY <1>2, <1>3, <1>5
<1> QED BY <1>4, <1>5

LEMMA CleanTrimStart ==
  ASSUME NEW s \in Text, NEW pieces, NEW q, Seps(s, q) = {}
  PROVE  Seps(TrimStart(s, pieces), q) = {}
<1>1. CASE TrimStart(s, pieces) = <<>>
  BY <1>1, SepsEmpty, Zenon
<1>2. ASSUME NEW m \in 1..Len(s), TrimStart(s, pieces) = SubSeq(s, m, Len(s))
      PROVE  Seps(TrimStart(s, pieces), q) = {}
  <2>1. m \in 1..Len(s) + 1 /\ Len(s) \in 0..Len(s) /\ \A i \in m..Len(s) : i \in 1..Len(s)
    BY TextFacts
  <2>2. Seps(SubSeq(s, m, Len(s)), q) = {}
    BY <2>1, CleanAt, CleanPart
  <2> QED BY <1>2, <2>2, Zenon
<1> QED BY <1>1, <1>2, TrimStartIs

LEMMA CleanReverse ==
  ASSUME NEW s \in Text, NEW q, Seps(s, q) = {}
  PROVE  Seps(Reverse(s), q) = {}
<1>1. Len(s) \in Nat
  BY TextFacts
<1> DEFINE w == Reverse(s)
<1>2. w \in Text /\ DOMAIN w = 1..Len(s) /\ \A i \in 1..Len(s) : w[i] = s[(Len(s) - i) + 1]
  BY <1>1, ReverseText DEF Reverse
<1> HIDE DEF w
<1>3. Len(w) \in Nat /\ DOMAIN w = 1..Len(w)
  BY <1>2, TextFacts
<1>4. Len(w) = Len(s)
  BY <1>1, <1>2, <1>3
<1>5. ASSUME NEW i \in 1..Len(w) PROVE w[i] \notin q
  <2>1. (Len(s) - i) + 1 \in 1..Len(s) /\ i \in 1..Len(s)
    BY <1>1, <1>4
  <2> QED BY <1>2, <2>1, CleanAt
<1>6. Seps(w, q) = {}
  BY <1>5 DEF Seps
<1> QED BY <1>6 DEF w

LEMMA CleanTrim ==
  ASSUME NEW s \in Text, NEW q, Seps(s, q) = {}
  PROVE  Seps(Trim(s), q) = {}
<1>1. TrimStart(s, {" "}) \in Text /\ Seps(TrimStart(s, {" "}), q) = {}
  BY TrimStartText, CleanTrimStart
<1>2. Reverse(TrimStart(s, {" "})) \in Text /\ Seps(Reverse(TrimStart(s, {" "})), q) = {}
  BY <1>1, ReverseText, CleanReverse
<1>3. /\ TrimStart(Reverse(TrimStart(s, {" "})), {" "}) \in Text
      /\ Seps(TrimStart(Reverse(TrimStart(s, {" "})), {" "}), q) = {}
  BY <1>2, TrimStartText, CleanTrimStart
<1> QED BY <1>3, CleanReverse, Zenon DEF Trim

LEMMA CleanHandle ==
  ASSUME NEW s \in Text, NEW f, NEW q, Seps(s, q) = {}
  PROVE  Seps(Handle(f, s), q) = {}
BY CleanTrimStart DEF Handle

\* A line holds no separator.
LEMMA CleanLine ==
  ASSUME NEW s \in Text, NEW q, NEW n
  PROVE  Seps(Line(s, q, n), q) = {}
<1> DEFINE Upto(i) == {j \in 1..i : s[j] \in q}
           part == {i \in DOMAIN s : s[i] \notin q /\ Cardinality(Upto(i)) = n - 1}
<1>1. DOMAIN s = 1..Len(s) /\ Len(s) \in Nat
  BY TextFacts
<1>2. Line(s, q, n) = IF part = {} THEN <<>> ELSE SubSeq(s, Min(part), Max(part))
  BY Zenon DEF Line
<1>3. /\ part \in SUBSET (1..Len(s)) /\ part \in SUBSET Nat /\ part \in SUBSET (0..Len(s))
      /\ \A i \in part : s[i] \notin q /\ Cardinality(Upto(i)) = n - 1
  <2>1. \A i \in part : i \in 1..Len(s) /\ s[i] \notin q /\ Cardinality(Upto(i)) = n - 1
    <3> HIDE DEF Upto
    <3> QED BY <1>1
  <2> HIDE DEF part
  <2>2. \A i \in 1..Len(s) : i \in Nat /\ i \in 0..Len(s)
    BY <1>1
  <2> QED BY <2>1, <2>2
<1> HIDE DEF part
<1>4. CASE part # {}
  <2>1. PICK m \in part, k \in part : m = Min(part) /\ k = Max(part) /\ m <= k
    BY <1>1, <1>3, <1>4, MinIsLeast, MaxIsGreatest
  <2>2. m \in 1..Len(s) /\ k \in 1..Len(s)
    BY <1>3
  <2>3. ASSUME NEW i \in m..k, s[i] \in q PROVE FALSE
    <3>1. m < i /\ i \in 1..k /\ i \in Upto(k) /\ i \notin Upto(m)
      <4>1. i # m
        BY <1>3, <2>3
      <4> QED BY <2>2, <2>3, <4>1
    <3>2. Upto(m) \in SUBSET Upto(k) /\ Upto(k) \in SUBSET (1..k) /\ Upto(m) # Upto(k) /\ k \in Nat
      BY <2>1, <2>2, <3>1
    <3>3. Cardinality(Upto(m)) < Cardinality(Upto(k))
      <4> HIDE DEF Upto
      <4> QED BY <3>2, FewerIn
    <3>4. Cardinality(Upto(m)) \in Nat /\ Cardinality(Upto(m)) = Cardinality(Upto(k))
      <4>1. Upto(m) \in SUBSET (1..k)
        BY <3>2
      <4> HIDE DEF Upto
      <4> QED BY <1>3, <3>2, <4>1, FiniteUpTo
    <3> QED BY <3>3, <3>4
  <2>4. m \in 1..Len(s) + 1 /\ k \in 0..Len(s)
    BY <1>1, <2>2
  <2>5. Seps(SubSeq(s, m, k), q) = {}
    BY <2>3, <2>4, CleanPart
  <2> QED BY <1>2, <1>4, <2>1, <2>5, Zenon
<1>5. CASE part = {}
  BY <1>2, <1>5, SepsEmpty, Zenon
<1> QED BY <1>4, <1>5

\* What is taken off once is off.
LEMMA TrimStartTwice ==
  ASSUME NEW s \in Text, NEW pieces
  PROVE  TrimStart(TrimStart(s, pieces), pieces) = TrimStart(s, pieces)
<1> DEFINE w == TrimStart(s, pieces)
<1>1. w \in Text
  BY TrimStartText
<1>2. w = <<>> \/ (Len(w) # 0 /\ w[1] \notin pieces)
  <2>1. ASSUME NEW m \in 1..Len(s), w = SubSeq(s, m, Len(s)), s[m] \notin pieces
        PROVE  Len(w) # 0 /\ w[1] \notin pieces
    <3>1. Len(s) \in Nat /\ m \in Int /\ Len(s) \in Int /\ \A i \in m..Len(s) : s[i] \in Piece
      BY TextFacts
    <3>2. /\ Len(SubSeq(s, m, Len(s))) = IF m <= Len(s) THEN Len(s) - m + 1 ELSE 0
          /\ \A i \in 1..Len(s) - m + 1 : SubSeq(s, m, Len(s))[i] = s[m + i - 1]
      BY <3>1, SubSeqProperties
    <3> HIDE DEF w
    <3>3. /\ Len(w) = IF m <= Len(s) THEN Len(s) - m + 1 ELSE 0
          /\ \A i \in 1..Len(s) - m + 1 : w[i] = s[m + i - 1]
      BY <2>1, <3>2
    <3>4. 1 \in 1..Len(s) - m + 1 /\ m + 1 - 1 = m /\ Len(w) # 0
      BY <3>1, <3>3
    <3> QED BY <2>1, <3>3, <3>4
  <2> HIDE DEF w
  <2>2. w = TrimStart(s, pieces)
    BY DEF w
  <2> QED BY <2>1, <2>2, TrimStartIs
<1> HIDE DEF w
<1>3. Len(w) \in Nat
  BY <1>1, TextFacts
<1>4. TrimStart(w, pieces) = w
  <2>1. CASE w = <<>>
    <3>1. Len(w) = 0
      BY <2>1
    <3>2. TrimStart(w, pieces) = <<>>
      <4>1. ~ \E m \in 1..Len(w) : TRUE
        BY <3>1
      <4> QED BY <1>1, <4>1, TrimStartIs
    <3> QED BY <2>1, <3>2
  <2>2. CASE Len(w) # 0 /\ w[1] \notin pieces
    <3>1. 1 \in 1..Len(w)
      BY <1>3, <2>2
    <3>2. PICK m \in 1..Len(w) : /\ TrimStart(w, pieces) = SubSeq(w, m, Len(w))
                                 /\ \A i \in 1..m - 1 : w[i] \in pieces
      BY <1>1, <2>2, <3>1, TrimStartIs
    <3>3. m = 1
      <4>1. CASE m # 1
        <5>1. 1 \in 1..m - 1
          BY <1>3, <4>1
        <5> QED BY <2>2, <3>2, <5>1
      <4> QED BY <4>1
    <3>4. SubSeq(w, 1, Len(w)) = w
      BY <1>1, SubSeqFull DEF Text
    <3> QED BY <3>2, <3>3, <3>4
  <2> QED BY <1>2, <2>1, <2>2
<1> QED BY <1>4 DEF w

LEMMA HandleTwice ==
  ASSUME NEW s \in Text, NEW f
  PROVE  Handle(f, Handle(f, s)) = Handle(f, s)
BY TrimStartTwice DEF Handle

\* A line holds no line feed.
LEMMA LineNoFeed ==
  ASSUME NEW s \in Text, NEW q, "nl" \in q, NEW n
  PROVE  /\ Line(s, q, n) \in Text /\ Seps(Line(s, q, n), {"nl"}) = {}
         /\ Trim(Line(s, q, n)) \in Text /\ Seps(Trim(Line(s, q, n)), {"nl"}) = {}
<1>1. Line(s, q, n) \in Text /\ Seps(Line(s, q, n), {"nl"}) = {}
  <2>1. Seps(Line(s, q, n), q) = {}
    BY CleanLine
  <2> QED BY <2>1, LineText DEF Seps
<1> QED BY <1>1, TrimText, CleanTrim

\* A field made of it is in order.
LEMMA FieldInOrder ==
  ASSUME NEW s \in Text, Seps(s, {"nl"}) = {}, NEW f
  PROVE  /\ Handle(f, s) \in Text
         /\ Seps(Handle(f, s), {"nl"}) = {}
         /\ Handle(f, Handle(f, s)) = Handle(f, s)
BY HandleText, CleanHandle, HandleTwice

\* A function of the fields' names with texts for values is a content.
LEMMA NewContent ==
  ASSUME NEW d, DOMAIN d = Field \cup {"url", "image"}, d = [f \in DOMAIN d |-> d[f]],
         \A f \in Field : d[f] \in Text, d["url"] \in Text, d["image"] \in Image \cup {None}
  PROVE  d \in Content
BY DEF Field, Content

LEMMA ApplyRecordType ==
  ASSUME NEW c \in Content, NEW r \in Record
  PROVE  ApplyRecord(c, r) \in Content
<1> DEFINE New == [f \in DOMAIN c |->
                     IF f \in Field THEN Handle(f, Line(ReadText(r), {"nl", ";"}, FieldNo(f))) ELSE c[f]]
<1>1. CASE r.type = "T" /\ ReadText(r) # None
  <2>1. ApplyRecord(c, r) = New
    BY <1>1 DEF ApplyRecord
  <2>2. \A f \in Field : New[f] \in Text
    <3>1. ReadText(r) \in Text
      BY <1>1, ReadTextText
    <3>2. \A f \in Field : Handle(f, Line(ReadText(r), {"nl", ";"}, FieldNo(f))) \in Text
      BY <3>1, LineText, HandleText
    <3>3. \A f \in Field : New[f] = Handle(f, Line(ReadText(r), {"nl", ";"}, FieldNo(f)))
      BY FieldsText
    <3> QED BY <3>2, <3>3
  <2>3. DOMAIN New = Field \cup {"url", "image"} /\ New["url"] = c["url"] /\ New["image"] = c["image"]
    <3>1. "url" \notin Field /\ "image" \notin Field
      BY DEF Field
    <3> QED BY <3>1, FieldsText
  <2>4. New = [f \in Field \cup {"url", "image"} |-> New[f]]
    BY <2>3
  <2> HIDE DEF New
  <2>5. New \in Content
    BY <2>2, <2>3, <2>4, FieldsText, NewContent
  <2> QED BY <2>1, <2>5
<1>2. CASE r.type = "U" /\ r.len > 0
  <2>1. ApplyRecord(c, r) = [c EXCEPT !.url = ReadUrl(r)]
    BY <1>2 DEF ApplyRecord
  <2> QED BY <1>2, <2>1, ReadUrlText DEF Content
<1>3. CASE r.type = "image" /\ ImageOf(r.payload) # None
  <2>1. ApplyRecord(c, r) = [c EXCEPT !.image = ImageOf(r.payload)]
    BY <1>3 DEF ApplyRecord
  <2> QED BY <1>3, <2>1, ImageOfType DEF Content
<1>4. CASE ~(r.type = "T" /\ ReadText(r) # None) /\ ~(r.type = "U" /\ r.len > 0)
           /\ ~(r.type = "image" /\ ImageOf(r.payload) # None)
  BY <1>4 DEF ApplyRecord
<1> QED BY <1>1, <1>2, <1>3, <1>4

LEMMA ApplyRecordTidy ==
  ASSUME NEW c \in Tidy, NEW r \in Record
  PROVE  ApplyRecord(c, r) \in Tidy
<1> DEFINE d == ApplyRecord(c, r)
<1>1. c \in Content /\ FieldsOk(c)
  BY DEF Tidy
<1>2. d \in Content
  BY <1>1, ApplyRecordType
<1>3. \/ \A f \in Field : d[f] = Handle(f, Line(ReadText(r), {"nl", ";"}, FieldNo(f)))
         /\ r.type = "T" /\ ReadText(r) # None
      \/ \A f \in Field : d[f] = c[f]
  <2>1. CASE r.type = "T" /\ ReadText(r) # None
    BY <1>1, <2>1, FieldsText DEF ApplyRecord
  <2>2. CASE ~(r.type = "T" /\ ReadText(r) # None)
    <3>1. \A v : \A f \in Field : [c EXCEPT !.url = v][f] = c[f] /\ [c EXCEPT !.image = v][f] = c[f]
      BY <1>1 DEF Content, Field
    <3>2. d = c \/ \E v : d = [c EXCEPT !.url = v] \/ d = [c EXCEPT !.image = v]
      BY <2>2, Zenon DEF ApplyRecord
    <3> HIDE DEF d
    <3> QED BY <3>1, <3>2, Zenon
  <2> QED BY <2>1, <2>2
<1> HIDE DEF d
<1>4. FieldsOk(d)
  <2>1. CASE \A f \in Field : d[f] = c[f]
    BY <1>1, <2>1 DEF FieldsOk
  <2>2. CASE \A f \in Field : d[f] = Handle(f, Line(ReadText(r), {"nl", ";"}, FieldNo(f)))
             /\ r.type = "T" /\ ReadText(r) # None
    <3>1. ReadText(r) \in Text
      BY <2>2, ReadTextText DEF Field
    <3>2. ASSUME NEW f \in Field
          PROVE  Seps(d[f], {"nl"}) = {} /\ Handle(f, d[f]) = d[f]
      <4> DEFINE l == Line(ReadText(r), {"nl", ";"}, FieldNo(f))
      <4>1. d[f] = Handle(f, l)
        BY <2>2
      <4>2. l \in Text /\ Seps(l, {"nl"}) = {}
        BY <3>1, LineNoFeed
      <4> HIDE DEF l
      <4> QED BY <4>1, <4>2, FieldInOrder
    <3> QED BY <3>2 DEF FieldsOk
  <2> QED BY <1>3, <2>1, <2>2
<1> QED BY <1>2, <1>4 DEF Tidy, d

IsApply(c, msg, f) ==
  f = [s \in SUBSET DOMAIN msg |->
         IF s = {} THEN c ELSE LET x == Max(s) IN ApplyRecord(f[s \ {x}], msg[x])]

LEMMA ApplySteps ==
  ASSUME NEW n \in Nat, NEW c \in Tidy, NEW msg \in [1..n -> Record]
  PROVE  \E g : /\ \A k \in 0..n : g[1..k] \in Tidy
                /\ g[1..0] = c
                /\ \A k \in 1..n : g[1..k] = ApplyRecord(g[1..k - 1], msg[k])
                /\ Applied(c, msg) = g[1..n]
<1> DEFINE G == [i \in 1..n |-> [v \in Tidy |-> ApplyRecord(v, msg[i])]]
           f == CHOOSE h : IsApply(c, msg, h)
<1>1. DOMAIN msg = 1..n /\ c \in Tidy
  OBVIOUS
<1>2. Applied(c, msg) = f[DOMAIN msg]
  BY Zenon DEF Applied, FoldLeft, MapThenFoldSet, IsApply
<1>3. \A i \in 1..n, v \in Tidy : ApplyRecord(v, msg[i]) \in Tidy
  BY ApplyRecordTidy
<1>4. \E h : IsApply(c, msg, h)
  <2>1. G \in [1..n -> [Tidy -> Tidy]]
    BY <1>3
  <2>2. \A i \in 1..n, v \in Tidy : G[i][v] = ApplyRecord(v, msg[i])
    OBVIOUS
  <2> HIDE DEF G
  <2>3. PICK h \in [SUBSET (1..n) -> Tidy] : Folds(n, c, G, h)
    BY <1>1, <2>1, FoldExists, Zenon
  <2>4. \A s \in SUBSET (1..n) :
           h[s] = IF s = {} THEN c ELSE G[Max(s)][h[s \ {Max(s)}]]
    BY <2>3, Zenon DEF Folds
  <2>5. ASSUME NEW s \in SUBSET (1..n)
        PROVE  h[s] = IF s = {} THEN c ELSE ApplyRecord(h[s \ {Max(s)}], msg[Max(s)])
    <3>1. CASE s # {}
      <4>1. Max(s) \in 1..n
        BY <3>1, MaxOff
      <4>2. h[s \ {Max(s)}] \in Tidy
        OBVIOUS
      <4> QED BY <2>2, <2>4, <3>1, <4>1, <4>2
    <3>2. CASE s = {}
      BY <2>4, <3>2
    <3> QED BY <3>1, <3>2
  <2>6. IsApply(c, msg, h)
    BY <1>1, <2>5 DEF IsApply
  <2> QED BY <2>6
<1>5. IsApply(c, msg, f)
  BY <1>4, Zenon
<1> HIDE DEF f, G
<1>6. \A s \in SUBSET (1..n) :
         f[s] = IF s = {} THEN c ELSE ApplyRecord(f[s \ {Max(s)}], msg[Max(s)])
  BY <1>1, <1>5 DEF IsApply
<1>7. \A s \in SUBSET (1..n) : f[s] \in Tidy
  <2>1. f[{}] \in Tidy
    <3>1. \A s \in SUBSET (1..n) : s = {} => f[s] = c
      BY <1>6
    <3> QED BY <1>1, <3>1
  <2>2. ASSUME NEW s \in SUBSET (1..n), s # {}, f[s \ {Max(s)}] \in Tidy
        PROVE  f[s] \in Tidy
    <3>1. Max(s) \in 1..n
      BY <2>2, MaxOff
    <3>2. f[s] = ApplyRecord(f[s \ {Max(s)}], msg[Max(s)])
      BY <1>6, <2>2
    <3> QED BY <1>3, <2>2, <3>1, <3>2
  <2> QED BY <2>1, <2>2, FoldStays
<1>8. f[1..0] = c
  <2>1. 1..0 = {} /\ 1..0 \in SUBSET (1..n)
    OBVIOUS
  <2> QED BY <1>6, <2>1
<1>9. ASSUME NEW k \in 0..n PROVE 1..k \in SUBSET (1..n)
  OBVIOUS
<1>10. ASSUME NEW k \in 1..n PROVE f[1..k] = ApplyRecord(f[1..k - 1], msg[k])
  <2>1. k \in Nat \ {0} /\ k \in 0..n
    OBVIOUS
  <2>2. 1..k # {} /\ Max(1..k) = k /\ (1..k) \ {k} = 1..k - 1
    BY <2>1, Segment
  <2>3. 1..k \in SUBSET (1..n)
    BY <1>9, <2>1
  <2> QED BY <1>6, <2>2, <2>3
<1>11. \A k \in 0..n : f[1..k] \in Tidy
  BY <1>7, <1>9
<1> QED BY <1>1, <1>2, <1>8, <1>10, <1>11

-----------------------------------------------------------------------------
(* Contents stay tidy, and messages are sequences of records.                *)
LEMMA ApplyNdefTidy ==
  ASSUME NEW c \in Tidy, NEW msg \in Seq(Record)
  PROVE  ApplyNdef(c, msg) \in Tidy
<1> DEFINE n == Reached(msg)
           part == SubSeq(msg, 1, n)
<1>1. Len(msg) \in Nat /\ DOMAIN msg = 1..Len(msg) /\ \A i \in 1..Len(msg) : msg[i] \in Record
  BY LenProperties, ElementOfSeq
<1>2. n \in 0..Len(msg)
  <2>1. Short(msg) \in SUBSET (1..Len(msg))
    BY <1>1 DEF Short
  <2>2. CASE Short(msg) # {}
    <3>1. Min(Short(msg)) \in Short(msg)
      BY <1>1, <2>1, <2>2, MinIsLeast
    <3> QED BY <1>1, <2>1, <2>2, <3>1 DEF Reached
  <2> QED BY <1>1, <2>2 DEF Reached
<1> HIDE DEF n
<1>3. part \in Seq(Record) /\ Len(part) = n
  <2>1. 1 \in Int /\ n \in Int /\ \A i \in 1..n : msg[i] \in Record
    BY <1>1, <1>2
  <2>2. n \in Nat /\ (IF 1 <= n THEN n - 1 + 1 ELSE 0) = n
    BY <1>1, <1>2
  <2> QED BY <2>1, <2>2, SubSeqProperties
<1> HIDE DEF part
<1>4. part \in [1..n -> Record] /\ n \in Nat /\ n \in 0..n
  BY <1>1, <1>2, <1>3, LenProperties
<1>5. PICK g : /\ \A k \in 0..n : g[1..k] \in Tidy
               /\ g[1..0] = c
               /\ \A k \in 1..n : g[1..k] = ApplyRecord(g[1..k - 1], part[k])
               /\ Applied(c, part) = g[1..n]
  BY <1>4, ApplySteps
<1>6. Applied(c, part) \in Tidy
  BY <1>4, <1>5, Zenon
<1> QED BY <1>6, Zenon DEF ApplyNdef, Applied, part, n

LEMMA PlainAppliedTidy ==
  ASSUME NEW c \in Content, NEW text \in Text
  PROVE  /\ PlainApplied(c, text) \in Tidy
         /\ \A f \in Field :
              PlainApplied(c, text)[f] = Handle(f, Trim(Line(text, {"nl"}, FieldNo(f))))
<1> DEFINE d == PlainApplied(c, text)
<1>1. d = [f \in DOMAIN c |->
             CASE f \in Field -> Handle(f, Trim(Line(text, {"nl"}, FieldNo(f))))
               [] f = "url" -> Scheme(Trim(Line(text, {"nl"}, 6)))
               [] f = "image" -> c.image]
  BY DEF PlainApplied, FromLines
<1>2. "url" \notin Field /\ "image" \notin Field
  BY DEF Field
<1> HIDE DEF d
<1>3. DOMAIN d = Field \cup {"url", "image"} /\ d = [f \in DOMAIN d |-> d[f]]
  BY <1>1, FieldsText
<1>8. ASSUME NEW f \in Field PROVE d[f] = Handle(f, Trim(Line(text, {"nl"}, FieldNo(f))))
  BY <1>1, <1>2, FieldsText
<1>4. ASSUME NEW f \in Field
      PROVE  d[f] \in Text /\ Seps(d[f], {"nl"}) = {} /\ Handle(f, d[f]) = d[f]
  <2> DEFINE l == Trim(Line(text, {"nl"}, FieldNo(f)))
  <2>1. l \in Text /\ Seps(l, {"nl"}) = {}
    BY LineNoFeed
  <2>2. d[f] = Handle(f, l)
    BY <1>8
  <2> HIDE DEF l
  <2> QED BY <2>1, <2>2, FieldInOrder
<1>5. d["url"] \in Text
  <2>1. d["url"] = Scheme(Trim(Line(text, {"nl"}, 6)))
    BY <1>1, <1>2, FieldsText
  <2> QED BY <2>1, LineText, TrimText, SchemeText
<1>6. d["image"] \in Image \cup {None}
  <2>1. d["image"] = c.image
    BY <1>1, <1>2, FieldsText
  <2> QED BY <2>1, FieldsText
<1>7. d \in Content
  BY <1>3, <1>4, <1>5, <1>6, NewContent
<1>9. d \in Tidy
  BY <1>4, <1>7 DEF Tidy, FieldsOk
<1> QED BY <1>8, <1>9 DEF d

\* The length byte of a record is its length modulo 256.
LEMMA LengthByte ==
  ASSUME NEW n \in Nat
  PROVE  n % BYTE \in Nat /\ n % BYTE < BYTE /\ (n < BYTE => n % BYTE = n)
BY DEF BYTE

LEMMA UriRecordOk ==
  ASSUME NEW url \in Text, NEW last \in BOOLEAN
  PROVE  /\ UriRecord(url, last) \in Record
         /\ UriRecord(url, last).len < BYTE
         /\ UriRecord(url, last).mb = TRUE /\ UriRecord(url, last).me = last
         /\ UriRecord(url, last).sr = TRUE
         /\ Bytes(url) + 1 < BYTE =>
              UriRecord(url, last).len = PayloadBytes(UriRecord(url, last))
<1> DEFINE r == UriRecord(url, last)
<1>1. Bytes(url) \in Nat /\ Bytes(url) + 1 \in Nat
  BY BytesNat
<1>2. /\ r.type = "U" /\ r.mb = TRUE /\ r.me = last /\ r.sr = TRUE
      /\ r.len = (Bytes(url) + 1) % BYTE /\ r.code = 4 /\ r.rest = url
  BY DEF UriRecord
<1>3. r.len \in Nat /\ r.len < BYTE /\ (Bytes(url) + 1 < BYTE => r.len = Bytes(url) + 1)
  BY <1>1, <1>2, LengthByte
<1>4. r \in Record
  <2>1. (Bytes(url) + 1) % BYTE \in Nat
    BY <1>1, LengthByte
  <2> QED BY <2>1 DEF Record, UriRecord
<1>5. PayloadBytes(r) = 1 + Bytes(url)
  <2> HIDE DEF r
  <2> QED BY <1>2 DEF PayloadBytes
<1> QED BY <1>1, <1>2, <1>3, <1>4, <1>5

LEMMA TextRecordOk ==
  ASSUME NEW text \in Text, NEW first \in BOOLEAN, NEW last \in BOOLEAN
  PROVE  /\ TextRecord(text, first, last) \in Record
         /\ TextRecord(text, first, last).len < BYTE
         /\ TextRecord(text, first, last).mb = first /\ TextRecord(text, first, last).me = last
         /\ TextRecord(text, first, last).sr = TRUE
         /\ Bytes(text) + 3 < BYTE =>
              TextRecord(text, first, last).len = PayloadBytes(TextRecord(text, first, last))
<1> DEFINE r == TextRecord(text, first, last)
<1>1. Bytes(text) \in Nat /\ Bytes(text) + 3 \in Nat
  BY BytesNat
<1>2. /\ r.type = "T" /\ r.mb = first /\ r.me = last /\ r.sr = TRUE
      /\ r.len = (Bytes(text) + 3) % BYTE /\ r.lang = 2 /\ r.text = text
  BY DEF TextRecord
<1>3. r.len \in Nat /\ r.len < BYTE /\ (Bytes(text) + 3 < BYTE => r.len = Bytes(text) + 3)
  BY <1>1, <1>2, LengthByte
<1>4. r \in Record
  <2>1. (Bytes(text) + 3) % BYTE \in Nat
    BY <1>1, LengthByte
  <2> QED BY <2>1 DEF Record, TextRecord
<1>5. PayloadBytes(r) = 1 + 2 + Bytes(text)
  <2> HIDE DEF r
  <2> QED BY <1>2 DEF PayloadBytes
<1> QED BY <1>1, <1>2, <1>3, <1>4, <1>5

LEMMA ImageRecordOk ==
  ASSUME NEW img \in Image
  PROVE  /\ ImageRecord(img) \in Record
         /\ ImageRecord(img).sr => ImageRecord(img).len < BYTE
         /\ ImageRecord(img).mb = FALSE /\ ImageRecord(img).me = TRUE
         /\ ImageRecord(img).len = PayloadBytes(ImageRecord(img))
<1> DEFINE r == ImageRecord(img)
<1>1. img.width \in Nat /\ img.height \in Nat /\ img.bits \in Nat
  BY DEF Image
<1>2. /\ r.type = "image" /\ r.mb = FALSE /\ r.me = TRUE /\ r.sr = (4 + img.bits < BYTE)
      /\ r.len = 4 + img.bits /\ r.payload = EncodedImage(img)
  BY DEF ImageRecord
<1>3. EncodedImage(img) \in Payload /\ EncodedImage(img).have = img.bits
  BY <1>1 DEF EncodedImage, Payload
<1>4. r \in Record
  <2>1. 4 + img.bits \in Nat /\ (4 + img.bits < BYTE) \in BOOLEAN
    BY <1>1
  <2> QED BY <1>3, <2>1 DEF Record, ImageRecord
<1>5. PayloadBytes(r) = 4 + img.bits
  <2> HIDE DEF r
  <2> QED BY <1>2, <1>3 DEF PayloadBytes
<1> QED BY <1>1, <1>2, <1>4, <1>5

-----------------------------------------------------------------------------
(* to_ndef()                                                                 *)

\* A message whose short records name lengths of one byte.
LengthsOk(msg) == \A i \in DOMAIN msg : msg[i].sr => msg[i].len < BYTE

LEMMA OneRecord ==
  ASSUME NEW a \in Record, a.sr => a.len < BYTE
  PROVE  /\ <<a>> \in Seq(Record) /\ LengthsOk(<<a>>)
         /\ a.len = PayloadBytes(a) /\ a.mb = TRUE /\ a.me = TRUE => Readable(<<a>>)
<1>1. <<a>> \in Seq(Record) /\ DOMAIN <<a>> = {1} /\ Len(<<a>>) = 1 /\ <<a>>[1] = a
  OBVIOUS
<1> QED BY <1>1 DEF LengthsOk, Readable

LEMMA TwoRecords ==
  ASSUME NEW a \in Record, a.sr => a.len < BYTE,
         NEW b \in Record, b.sr => b.len < BYTE
  PROVE  /\ <<a, b>> \in Seq(Record) /\ LengthsOk(<<a, b>>)
         /\ /\ a.len = PayloadBytes(a) /\ a.mb = TRUE /\ a.me = FALSE
            /\ b.len = PayloadBytes(b) /\ b.mb = FALSE /\ b.me = TRUE
            => Readable(<<a, b>>)
<1>1. /\ <<a, b>> \in Seq(Record) /\ DOMAIN <<a, b>> = {1, 2} /\ Len(<<a, b>>) = 2
      /\ <<a, b>>[1] = a /\ <<a, b>>[2] = b
  OBVIOUS
<1> QED BY <1>1 DEF LengthsOk, Readable

LEMMA ThreeRecords ==
  ASSUME NEW a \in Record, a.sr => a.len < BYTE,
         NEW b \in Record, b.sr => b.len < BYTE,
         NEW d \in Record, d.sr => d.len < BYTE
  PROVE  /\ <<a, b, d>> \in Seq(Record) /\ LengthsOk(<<a, b, d>>)
         /\ /\ a.len = PayloadBytes(a) /\ a.mb = TRUE /\ a.me = FALSE
            /\ b.len = PayloadBytes(b) /\ b.mb = FALSE /\ b.me = FALSE
            /\ d.len = PayloadBytes(d) /\ d.mb = FALSE /\ d.me = TRUE
            => Readable(<<a, b, d>>)
<1>1. /\ <<a, b, d>> \in Seq(Record) /\ DOMAIN <<a, b, d>> = {1, 2, 3} /\ Len(<<a, b, d>>) = 3
      /\ <<a, b, d>>[1] = a /\ <<a, b, d>>[2] = b /\ <<a, b, d>>[3] = d
  OBVIOUS
<1> QED BY <1>1 DEF LengthsOk, Readable

\* fix_me_flag() changes nothing but the flag of the last record.
LEMMA FlagSet ==
  ASSUME NEW r \in Record, r.type = "T"
  PROVE  LET s == [r EXCEPT !.me = TRUE]
         IN  /\ s \in Record /\ s.me = TRUE
             /\ s.mb = r.mb /\ s.sr = r.sr /\ s.len = r.len
             /\ PayloadBytes(s) = PayloadBytes(r)
<1> DEFINE s == [r EXCEPT !.me = TRUE]
<1>1. s \in Record
  BY DEF Record
<1>2. /\ s.me = TRUE /\ s.mb = r.mb /\ s.sr = r.sr /\ s.len = r.len
      /\ s.type = "T" /\ s.lang = r.lang /\ s.text = r.text
  BY DEF Record
<1> HIDE DEF s
<1>3. PayloadBytes(s) = PayloadBytes(r)
  BY <1>2 DEF PayloadBytes
<1> QED BY <1>1, <1>2, <1>3 DEF s

LEMMA LastFlag ==
  ASSUME NEW a \in Record, NEW b \in Record, b.type = "T"
  PROVE  /\ [<<a, b>> EXCEPT ![Len(<<a, b>>)].me = TRUE] = <<a, [b EXCEPT !.me = TRUE]>>
         /\ [<<b>> EXCEPT ![Len(<<b>>)].me = TRUE] = <<[b EXCEPT !.me = TRUE]>>
<1> DEFINE b1 == [b EXCEPT !.me = TRUE]
<1>1. Len(<<a, b>>) = 2 /\ Len(<<b>>) = 1 /\ <<a, b>>[2] = b /\ <<b>>[1] = b
  OBVIOUS
<1>2. [<<a, b>> EXCEPT ![2] = b1] = <<a, b1>>
  <2> HIDE DEF b1
  <2> QED OBVIOUS
<1>3. [<<b>> EXCEPT ![1] = b1] = <<b1>>
  <2> HIDE DEF b1
  <2> QED OBVIOUS
<1>4. [<<a, b>> EXCEPT ![Len(<<a, b>>)].me = TRUE] = [<<a, b>> EXCEPT ![2] = b1]
  BY <1>1
<1>5. [<<b>> EXCEPT ![Len(<<b>>)].me = TRUE] = [<<b>> EXCEPT ![1] = b1]
  BY <1>1
<1> QED BY <1>2, <1>3, <1>4, <1>5

LEMMA AppendOne ==
  ASSUME NEW b \in Record, NEW d \in Record
  PROVE  Append(<<b>>, d) = <<b, d>>
<1>1. <<b>> \in Seq(Record) /\ Len(<<b>>) = 1 /\ <<b>>[1] = b
      /\ <<b, d>> \in Seq(Record) /\ Len(<<b, d>>) = 2
  OBVIOUS
<1>2. /\ Append(<<b>>, d) \in Seq(Record) /\ Len(Append(<<b>>, d)) = 2
      /\ Append(<<b>>, d)[1] = b /\ Append(<<b>>, d)[2] = d
  BY <1>1, AppendProperties
<1>3. ASSUME NEW i \in 1..2 PROVE Append(<<b>>, d)[i] = <<b, d>>[i]
  <2>1. i = 1 \/ i = 2
    OBVIOUS
  <2> QED BY <1>2, <2>1
<1> QED BY <1>1, <1>2, <1>3, SeqEqual

LEMMA AppendTwo ==
  ASSUME NEW a \in Record, NEW b \in Record, NEW d \in Record
  PROVE  Append(<<a, b>>, d) = <<a, b, d>>
<1>1. <<a, b>> \in Seq(Record) /\ Len(<<a, b>>) = 2 /\ <<a, b>>[1] = a /\ <<a, b>>[2] = b
      /\ <<a, b, d>> \in Seq(Record) /\ Len(<<a, b, d>>) = 3
  OBVIOUS
<1>2. /\ Append(<<a, b>>, d) \in Seq(Record) /\ Len(Append(<<a, b>>, d)) = 3
      /\ Append(<<a, b>>, d)[1] = a /\ Append(<<a, b>>, d)[2] = b /\ Append(<<a, b>>, d)[3] = d
  BY <1>1, AppendProperties
<1>3. ASSUME NEW i \in 1..3 PROVE Append(<<a, b>>, d)[i] = <<a, b, d>>[i]
  <2>1. i = 1 \/ i = 2 \/ i = 3
    OBVIOUS
  <2> QED BY <1>2, <2>1
<1> QED BY <1>1, <1>2, <1>3, SeqEqual

LEMMA ToNdefOk ==
  ASSUME NEW c \in Content
  PROVE  /\ ToNdef(c) \in Seq(Record) /\ LengthsOk(ToNdef(c))
         /\ FitsShortRecords(c) => Readable(ToNdef(c))
<1> DEFINE hasUrl == c.url # <<>>
           u == UriRecord(c.url, FALSE)
           t == TextRecord(TextPayload(c), ~hasUrl, c.image = None)
           t1 == [t EXCEPT !.me = TRUE]
           m == ImageRecord(c.image)
           msg == IF hasUrl THEN <<u, t>> ELSE <<t>>
<1>1. /\ u \in Record /\ u.len < BYTE /\ u.mb = TRUE /\ u.me = FALSE /\ u.sr = TRUE
      /\ FitsShortRecords(c) => u.len = PayloadBytes(u)
  BY FieldsText, UriRecordOk DEF FitsShortRecords
<1>2. /\ t \in Record /\ t.len < BYTE /\ t.mb = ~hasUrl /\ t.me = (c.image = None) /\ t.sr = TRUE
      /\ FitsShortRecords(c) => t.len = PayloadBytes(t)
  BY TextPayloadText, TextRecordOk DEF FitsShortRecords
<1>3. /\ t1 \in Record /\ t1.len < BYTE /\ t1.mb = ~hasUrl /\ t1.me = TRUE /\ t1.sr = TRUE
      /\ FitsShortRecords(c) => t1.len = PayloadBytes(t1)
  <2>1. t.type = "T"
    BY DEF TextRecord
  <2> HIDE DEF t
  <2> QED BY <1>2, <2>1, FlagSet
<1>4. c.image # None =>
        /\ m \in Record /\ (m.sr => m.len < BYTE) /\ m.mb = FALSE /\ m.me = TRUE
        /\ m.len = PayloadBytes(m)
  BY FieldsText, ImageRecordOk
<1>5. ToNdef(c) = CASE c.image = None -> msg
                    [] c.image # None /\ 4 + c.image.bits > MAX_TAG_IMAGE -> FixMeFlag(msg)
                    [] OTHER -> Append(msg, m)
  BY DEF ToNdef
<1> HIDE DEF u, t, t1, m
<1>6. CASE c.image = None
  <2>1. ToNdef(c) = msg
    BY <1>5, <1>6
  <2>2. CASE hasUrl
    BY <1>1, <1>2, <1>6, <2>1, <2>2, TwoRecords
  <2>3. CASE ~hasUrl
    BY <1>2, <1>6, <2>1, <2>3, OneRecord
  <2> QED BY <2>2, <2>3
<1>7. CASE c.image # None /\ 4 + c.image.bits > MAX_TAG_IMAGE
  <2>1. ToNdef(c) = IF Short(msg) = {} THEN [msg EXCEPT ![Len(msg)].me = TRUE] ELSE msg
    BY <1>5, <1>7 DEF FixMeFlag
  <2>0. t.type = "T"
    BY DEF TextRecord, t
  <2>2. FitsShortRecords(c) => Short(msg) = {}
    <3>1. \A i \in DOMAIN msg : msg[i] = t \/ (msg[i] = u)
      OBVIOUS
    <3> HIDE DEF msg
    <3> QED BY <1>1, <1>2, <3>1 DEF Short
  <2>3. CASE hasUrl
    <3>1. msg = <<u, t>>
      BY <2>3
    <3>2. [msg EXCEPT ![Len(msg)].me = TRUE] = <<u, t1>>
      BY <1>1, <1>2, <2>0, <3>1, LastFlag, Zenon DEF t1
    <3> HIDE DEF msg
    <3>3. CASE Short(msg) = {}
      BY <1>1, <1>3, <2>1, <2>3, <3>2, <3>3, TwoRecords, ZenonT(60)
    <3>4. CASE Short(msg) # {}
      BY <1>1, <1>2, <2>1, <2>2, <3>1, <3>4, TwoRecords
    <3> QED BY <3>3, <3>4
  <2>4. CASE ~hasUrl
    <3>1. msg = <<t>>
      BY <2>4
    <3>2. [msg EXCEPT ![Len(msg)].me = TRUE] = <<t1>>
      BY <1>1, <1>2, <2>0, <3>1, LastFlag, Zenon DEF t1
    <3> HIDE DEF msg
    <3>3. CASE Short(msg) = {}
      BY <1>3, <2>1, <2>4, <3>2, <3>3, OneRecord
    <3>4. CASE Short(msg) # {}
      BY <1>2, <2>1, <2>2, <3>1, <3>4, OneRecord
    <3> QED BY <3>3, <3>4
  <2> QED BY <2>3, <2>4
<1>8. CASE c.image # None /\ ~(4 + c.image.bits > MAX_TAG_IMAGE)
  <2>1. ToNdef(c) = Append(msg, m)
    BY <1>5, <1>8
  <2>2. CASE hasUrl
    <3>1. ToNdef(c) = <<u, t, m>>
      BY <1>1, <1>2, <1>4, <1>8, <2>1, <2>2, AppendTwo, Zenon
    <3> QED BY <1>1, <1>2, <1>4, <1>8, <2>2, <3>1, ThreeRecords
  <2>3. CASE ~hasUrl
    <3>1. ToNdef(c) = <<t, m>>
      BY <1>2, <1>4, <1>8, <2>1, <2>3, AppendOne, Zenon
    <3> QED BY <1>2, <1>4, <1>8, <2>3, <3>1, TwoRecords
  <2> QED BY <2>2, <2>3
<1> QED BY <1>6, <1>7, <1>8

-----------------------------------------------------------------------------
(* What is served and saved is a message made of a tidy content.             *)
ContentInv ==
  /\ content \in Tidy
  /\ served = ToNdef(content)
  /\ saved \in {ToNdef(c) : c \in Tidy}

LEMMA DemoTidy == Demo \in Tidy
<1>1. ASSUME NEW f \in Field PROVE Seps(Demo[f], {"nl"}) = {}
  <2>1. DOMAIN Demo[f] = 1..Len(Demo[f])
    BY ContentAssumption, FieldsText, TextFacts
  <2> QED BY <2>1, ContentAssumption DEF Seps
<1> QED BY <1>1, ContentAssumption DEF Tidy, FieldsOk

\* The image is no field.
LEMMA OtherImage ==
  ASSUME NEW c \in Tidy, NEW v \in Image \cup {None}
  PROVE  [c EXCEPT !.image = v] \in Tidy
<1>1. c \in Content /\ FieldsOk(c)
  BY DEF Tidy
<1> DEFINE d == [c EXCEPT !.image = v]
<1>2. d \in Content /\ \A f \in Field : d[f] = c[f]
  BY <1>1 DEF Content, Field
<1> HIDE DEF d
<1>3. d \in Tidy
  BY <1>1, <1>2 DEF Tidy, FieldsOk
<1> QED BY <1>3 DEF d

LEMMA InitContent == Init => ContentInv
BY DemoTidy DEF Init, ContentInv

LEMMA CommitContent ==
  ASSUME NEW c \in Tidy, Commit(c)
  PROVE  ContentInv'
BY DEF Commit, ContentInv

LEMMA NextContent == ContentInv /\ [Next]_vars => ContentInv'
<1> SUFFICES ASSUME ContentInv, [Next]_vars PROVE ContentInv'
  OBVIOUS
<1>1. content \in Tidy /\ content \in Content
  BY DEF ContentInv, Tidy
<1>2. ASSUME NEW text \in Text, OnBleContent(text) PROVE ContentInv'
  BY <1>1, <1>2, PlainAppliedTidy, CommitContent DEF OnBleContent
<1>3. CASE \E text \in PlainTexts : OnBleContent(text)
  BY <1>2, <1>3, ContentAssumption
<1>4. CASE Echo
  BY <1>1, <1>2, <1>4, ToPlainText DEF Echo
<1>5. CASE OnTagWritten
  BY <1>1, <1>5, ContentAssumption, ApplyNdefTidy, CommitContent DEF OnTagWritten
<1>6. CASE OnBleImage
  <2>1. PICK img \in Image : Commit([content EXCEPT !.image = img])
    BY <1>6, ContentAssumption DEF OnBleImage
  <2> QED BY <1>1, <2>1, OtherImage, CommitContent
<1>7. CASE OnClearImage
  BY <1>1, <1>7, OtherImage, CommitContent DEF OnClearImage
<1>8. CASE Boot
  <2>1. saved \in Seq(Record)
    BY ToNdefOk DEF ContentInv, Tidy
  <2>2. ApplyNdef(Demo, saved) \in Tidy
    BY <2>1, DemoTidy, ApplyNdefTidy
  <2>3. content.image \in Image \cup {None}
    BY <1>1, FieldsText
  <2>4. [ApplyNdef(Demo, saved) EXCEPT !.image = content.image] \in Tidy
    BY <2>2, <2>3, OtherImage
  <2> QED BY <1>8, <2>4 DEF Boot, ContentInv
<1>9. CASE UNCHANGED vars
  BY <1>9 DEF vars, ContentInv
<1> QED BY <1>3, <1>4, <1>5, <1>6, <1>7, <1>8, <1>9 DEF Next

LEMMA ContentInductive == Spec => []ContentInv
BY InitContent, NextContent, PTL DEF Spec

\* The fields are texts, and a short record's length is what a byte holds
\* (plate.rs:208-253).
ContentTypeOK ==
  /\ content \in Content
  /\ served \in Seq(Record) /\ saved \in Seq(Record)
  /\ \A i \in DOMAIN served : served[i].sr => served[i].len < BYTE

\* Fields stay texts through every conversion, and a short record's length is
\* what a byte holds.
THEOREM ContentTypes == Spec => []ContentTypeOK
<1>1. ContentInv => ContentTypeOK
  <2> SUFFICES ASSUME ContentInv PROVE ContentTypeOK
    OBVIOUS
  <2>1. served \in Seq(Record) /\ LengthsOk(served) /\ saved \in Seq(Record)
    BY ToNdefOk DEF ContentInv, Tidy
  <2> QED BY <2>1 DEF ContentInv, ContentTypeOK, LengthsOk, Tidy
<1> QED BY <1>1, ContentInductive, PTL

\* Whatever phones, centrals and boots make of the content, the message that
\* the tag serves can be read to its end when the fields fit short records.
THEOREM ServedReadable == Spec => []ServedIsReadable
<1>1. ContentInv => ServedIsReadable
  BY ToNdefOk DEF ContentInv, ServedIsReadable, Tidy
<1> QED BY <1>1, ContentInductive, PTL

-----------------------------------------------------------------------------
(* The fields in the lines of the texts made of them.                        *)
LEMMA FieldNoOk ==
  ASSUME NEW f \in Field
  PROVE  FieldNo(f) \in 1..5 /\ FieldOrder[FieldNo(f)] = f
<1>1. DOMAIN FieldOrder = 1..5
  BY OrderOk
<1>2. \E n \in 1..5 : FieldOrder[n] = f
  BY DEF Field, FieldOrder
<1> QED BY <1>1, <1>2, Zenon DEF FieldNo

LEMMA JoinLine ==
  ASSUME NEW n \in Nat, NEW ps \in [1..n + 1 -> Text], NEW q, "nl" \in q,
         NEW k \in 1..n + 1, \A j \in 1..k : Seps(ps[j], q) = {}
  PROVE  Line(Join(ps), q, k) = ps[k]
<1> DEFINE h == Head(ps)
           t == Tail(ps)
<1>1. ps \in Seq(Text) /\ ps # <<>> /\ Len(ps) = n + 1
  <2>1. n + 1 \in Nat /\ 1 \in 1..n + 1
    OBVIOUS
  <2>2. ps \in Seq(Text)
    BY <2>1, SeqDef
  <2>3. DOMAIN ps = 1..n + 1
    OBVIOUS
  <2> QED BY <2>1, <2>2, <2>3, LenProperties, EmptySeq
<1>2. h = ps[1] /\ h \in Text
  BY <1>1, HeadTailProperties
<1>3. t \in [1..n -> Text] /\ \A i \in 1..n : t[i] = ps[i + 1]
  <2>1. t \in Seq(Text) /\ Len(t) = n /\ \A i \in 1..n : t[i] = ps[i + 1]
    BY <1>1, HeadTailProperties
  <2> HIDE DEF t
  <2> QED BY <2>1, LenProperties
<1>4. Join(ps) = Joined(h, t)
  BY Zenon DEF Join, Joined
<1> HIDE DEF h, t
<1>5. ASSUME NEW j \in 1..n + 1 PROVE Part(h, t, j) = ps[j]
  <2>1. CASE j = 1
    BY <1>2, <2>1 DEF Part
  <2>2. CASE j # 1
    <3>1. j - 1 \in 1..n /\ (j - 1) + 1 = j
      BY <2>2
    <3> QED BY <1>3, <2>2, <3>1 DEF Part
  <2> QED BY <2>1, <2>2
<1>6. \A j \in 1..k : j \in 1..n + 1
  OBVIOUS
<1>7. Line(Joined(h, t), q, k) = Part(h, t, k)
  <2>1. \A j \in 1..k : Seps(Part(h, t, j), q) = {}
    BY <1>5, <1>6
  <2> QED BY <1>2, <1>3, <2>1, JoinedLine
<1> QED BY <1>4, <1>5, <1>7

LEMMA PlainLine ==
  ASSUME NEW c \in Tidy, NEW f \in Field
  PROVE  Line(ToPlain(c), {"nl"}, FieldNo(f)) = c[f]
<1> DEFINE ps == [n \in 1..6 |-> IF n = 6 THEN c.url ELSE c[FieldOrder[n]]]
           k == FieldNo(f)
<1>1. c \in Content /\ FieldsOk(c)
  BY DEF Tidy
<1>2. ps \in [1..5 + 1 -> Text]
  <2>1. \A n \in 1..6 : n = 6 \/ n \in 1..5
    OBVIOUS
  <2> QED BY <1>1, <2>1, FieldsText, OrderOk
<1>3. k \in 1..5 /\ FieldOrder[k] = f
  BY FieldNoOk
<1>4. \A j \in 1..5 : ps[j] = c[FieldOrder[j]] /\ Seps(ps[j], {"nl"}) = {}
  BY <1>1, OrderOk DEF FieldsOk
<1>5. ToPlain(c) = Join(ps)
  BY Zenon DEF ToPlain
<1> HIDE DEF ps, k
<1>6. k \in 1..5 + 1 /\ \A j \in 1..k : j \in 1..5
  BY <1>3
<1>7. Line(Join(ps), {"nl"}, k) = ps[k]
  <2>1. \A j \in 1..k : Seps(ps[j], {"nl"}) = {}
    BY <1>4, <1>6
  <2>2. "nl" \in {"nl"} /\ 5 \in Nat
    OBVIOUS
  <2> QED BY <1>2, <1>6, <2>1, <2>2, JoinLine, Zenon
<1>8. ps[k] = c[f]
  BY <1>3, <1>4
<1> QED BY <1>5, <1>7, <1>8 DEF k

LEMMA PayloadLine ==
  ASSUME NEW c \in Tidy, NoSemicolon(c), NEW f \in Field
  PROVE  Line(TextPayload(c), {"nl", ";"}, FieldNo(f)) = c[f]
<1> DEFINE ps == [n \in 1..5 |-> c[FieldOrder[n]]]
           k == FieldNo(f)
<1>1. c \in Content /\ FieldsOk(c)
  BY DEF Tidy
<1>2. ps \in [1..4 + 1 -> Text]
  BY <1>1, FieldsText, OrderOk
<1>3. k \in 1..5 /\ FieldOrder[k] = f
  BY FieldNoOk
<1>4. ASSUME NEW e \in Field PROVE Seps(c[e], {"nl", ";"}) = {}
  <2>1. DOMAIN c[e] = 1..Len(c[e])
    BY <1>1, FieldsText, TextFacts
  <2>2. \A i \in 1..Len(c[e]) : c[e][i] # "nl" /\ c[e][i] # ";"
    BY <1>1, <2>1 DEF FieldsOk, NoSemicolon, Seps
  <2> QED BY <2>2 DEF Seps
<1>5. \A j \in 1..5 : ps[j] = c[FieldOrder[j]] /\ Seps(ps[j], {"nl", ";"}) = {}
  BY <1>4, OrderOk
<1>6. TextPayload(c) = Join(ps)
  BY Zenon DEF TextPayload
<1> HIDE DEF ps, k
<1>7. k \in 1..4 + 1 /\ \A j \in 1..k : j \in 1..5
  BY <1>3
<1>8. Line(Join(ps), {"nl", ";"}, k) = ps[k]
  <2>1. \A j \in 1..k : Seps(ps[j], {"nl", ";"}) = {}
    BY <1>5, <1>7
  <2>2. "nl" \in {"nl", ";"} /\ 4 \in Nat
    OBVIOUS
  <2> QED BY <1>2, <1>7, <2>1, <2>2, JoinLine, Zenon
<1>9. ps[k] = c[f]
  BY <1>3, <1>5
<1> QED BY <1>6, <1>8, <1>9 DEF k

\* A central that writes back what it read changes no field, except for the
\* spaces around it.
THEOREM EchoKeeps == Spec => EchoKeepsFields
<1>1. ContentInv => (Echo => \A f \in Field : content'[f] = Handle(f, Trim(content[f])))
  <2> SUFFICES ASSUME ContentInv, Echo, NEW f \in Field
               PROVE  content'[f] = Handle(f, Trim(content[f]))
    OBVIOUS
  <2>1. content \in Tidy /\ content \in Content
    BY DEF ContentInv, Tidy
  <2>2. content' = PlainApplied(content, ToPlain(content))
    BY DEF Echo, OnBleContent, Commit
  <2>3. content'[f] = Handle(f, Trim(Line(ToPlain(content), {"nl"}, FieldNo(f))))
    BY <2>1, <2>2, ToPlainText, PlainAppliedTidy
  <2> QED BY <2>1, <2>3, PlainLine
<1> QED BY <1>1, ContentInductive, PTL DEF Spec, EchoKeepsFields

-----------------------------------------------------------------------------
(* What apply_ndef() finds in a message of to_ndef().                        *)
LEMMA WithinAll ==
  ASSUME NEW s \in Text
  PROVE  Within(s, Bytes(s)) = s
<1> DEFINE K == {k \in 0..Len(s) : Bytes(SubSeq(s, 1, k)) =< Bytes(s)}
<1>1. Len(s) \in Nat /\ Bytes(s) \in Nat /\ SubSeq(s, 1, Len(s)) = s
  BY TextFacts, BytesNat, SubSeqFull DEF Text
<1>2. Len(s) \in K /\ K \in SUBSET (0..Len(s))
  <2>1. Bytes(SubSeq(s, 1, Len(s))) = Bytes(s)
    BY <1>1, Zenon
  <2>2. Bytes(SubSeq(s, 1, Len(s))) <= Bytes(s) /\ Len(s) \in 0..Len(s)
    BY <1>1, <2>1
  <2> QED BY <2>2
<1>3. Within(s, Bytes(s)) = SubSeq(s, 1, Max(K))
  BY Zenon DEF Within
<1> HIDE DEF K
<1>4. Max(K) \in K /\ Len(s) <= Max(K)
  BY <1>1, <1>2, MaxIsGreatest
<1>5. Max(K) = Len(s)
  <2>1. Max(K) \in 0..Len(s)
    BY <1>2, <1>4
  <2> QED BY <1>1, <1>4, <2>1
<1> QED BY <1>1, <1>3, <1>5

\* One piece more to take off.
LEMMA TrimStartMore ==
  ASSUME NEW s \in Text, NEW pieces, NEW x \in pieces \cap Piece
  PROVE  TrimStart(<<x>> \o s, pieces) = TrimStart(s, pieces)
<1> DEFINE o == <<x>>
<1>1. o \in Text /\ Len(o) = 1 /\ o[1] = x
  BY DEF Text
<1> HIDE DEF o
<1>2. PICK w : Glued(w, o, s)
  BY DEF Glued
<1>3. /\ w \in Text /\ Len(w) = 1 + Len(s) /\ Len(s) \in Nat /\ w[1] = x
      /\ \A i \in 1..Len(s) : w[1 + i] = s[i]
  <2>1. /\ w \in Text /\ Len(w) = Len(o) + Len(s)
        /\ \A i \in 1..Len(o) : w[i] = o[i]
        /\ \A i \in 1..Len(s) : w[Len(o) + i] = s[i]
    BY <1>1, <1>2, TwoParts, ZenonT(60)
  <2>2. Len(s) \in Nat /\ 1 \in 1..Len(o)
    BY <1>1, TextFacts
  <2> QED BY <1>1, <2>1, <2>2
<1>4. CASE \A i \in 1..Len(s) : s[i] \in pieces
  <2>1. TrimStart(s, pieces) = <<>>
    BY <1>4, TrimStartIs
  <2>2. ASSUME NEW i \in 1..Len(w) PROVE w[i] \in pieces
    <3>1. CASE i = 1
      BY <1>3, <3>1
    <3>2. CASE i # 1
      <4>1. i - 1 \in 1..Len(s) /\ 1 + (i - 1) = i
        BY <1>3, <3>2
      <4> QED BY <1>3, <1>4, <4>1
    <3> QED BY <3>1, <3>2
  <2>3. TrimStart(w, pieces) = <<>>
    BY <1>3, <2>2, TrimStartIs
  <2> QED BY <1>2, <2>1, <2>3, Zenon DEF Glued, o
<1>5. CASE ~ \A i \in 1..Len(s) : s[i] \in pieces
  <2>1. PICK m \in 1..Len(s) :
           /\ TrimStart(s, pieces) = SubSeq(s, m, Len(s))
           /\ s[m] \notin pieces /\ \A i \in 1..m - 1 : s[i] \in pieces
    BY <1>5, TrimStartIs
  <2>2. m + 1 \in 1..Len(w) /\ w[m + 1] \notin pieces
    <3>1. m + 1 = 1 + m
      BY <1>3
    <3> QED BY <1>3, <2>1, <3>1
  <2>3. PICK k \in 1..Len(w) :
           /\ TrimStart(w, pieces) = SubSeq(w, k, Len(w))
           /\ w[k] \notin pieces /\ \A i \in 1..k - 1 : w[i] \in pieces
    BY <1>3, <2>2, TrimStartIs
  <2>4. k = m + 1
    <3>1. ~(m + 1 < k)
      <4> SUFFICES ASSUME m + 1 < k PROVE FALSE
        OBVIOUS
      <4>1. m + 1 \in 1..k - 1
        BY <1>3
      <4> QED BY <2>2, <2>3, <4>1
    <3>2. ~(k < m + 1)
      <4> SUFFICES ASSUME k < m + 1 PROVE FALSE
        OBVIOUS
      <4>1. k # 1
        BY <1>3, <2>3
      <4>2. k - 1 \in 1..m - 1 /\ k - 1 \in 1..Len(s) /\ 1 + (k - 1) = k
        BY <1>3, <4>1
      <4>3. w[k] = s[k - 1]
        BY <1>3, <4>2
      <4> QED BY <2>1, <2>3, <4>2, <4>3
    <3> QED BY <1>3, <3>1, <3>2
  <2>5. SubSeq(w, m + 1, Len(w)) = SubSeq(s, m, Len(s))
    <3> DEFINE a == SubSeq(w, m + 1, Len(w))
               b == SubSeq(s, m, Len(s))
               n == Len(s) - m + 1
    <3>0. n \in Nat /\ Len(w) - (m + 1) + 1 = n /\ m <= Len(s) /\ m + 1 <= Len(w)
      BY <1>3
    <3>1. m \in Int /\ Len(s) \in Int /\ \A i \in m..Len(s) : s[i] \in Piece
      BY TextFacts
    <3>2. m + 1 \in Int /\ Len(w) \in Int /\ \A i \in m + 1..Len(w) : w[i] \in Piece
      BY <1>3, TextFacts, SMTT(30)
    <3>3. /\ a \in Seq(Piece) /\ Len(a) = n
          /\ \A i \in 1..n : a[i] = w[(m + 1) + i - 1]
      BY <3>0, <3>2, SubSeqProperties
    <3>4. /\ b \in Seq(Piece) /\ Len(b) = n
          /\ \A i \in 1..n : b[i] = s[m + i - 1]
      BY <3>0, <3>1, SubSeqProperties
    <3> HIDE DEF a, b
    <3>5. ASSUME NEW i \in 1..n PROVE a[i] = b[i]
      <4>1. m + i - 1 \in 1..Len(s) /\ (m + 1) + i - 1 = 1 + (m + i - 1)
        BY <1>3
      <4> QED BY <1>3, <3>3, <3>4, <4>1
    <3>6. a = b
      <4> HIDE DEF n
      <4> QED BY <3>3, <3>4, <3>5, SeqEqual
    <3> QED BY <3>6 DEF a, b
  <2>6. TrimStart(w, pieces) = TrimStart(s, pieces)
    BY <2>1, <2>3, <2>4, <2>5, Zenon
  <2> QED BY <1>2, <2>6, Zenon DEF Glued, o
<1> QED BY <1>4, <1>5

\* The records made of the fields and of the url of c.
TellsFields(c, r) ==
  /\ r \in Record
  /\ r.type = "T" /\ r.lang = 2 /\ r.text = TextPayload(c) /\ r.len = Bytes(r.text) + 3

TellsUrl(c, r) ==
  /\ r \in Record
  /\ r.type = "U" /\ r.code = 4 /\ r.rest = c.url /\ r.len = Bytes(r.rest) + 1

Tells(c, msg) ==
  /\ \E i \in DOMAIN msg : TellsFields(c, msg[i])
  /\ c.url # <<>> => \E i \in DOMAIN msg : TellsUrl(c, msg[i])
  /\ \A i \in DOMAIN msg :
        TellsFields(c, msg[i]) \/ TellsUrl(c, msg[i]) \/ msg[i].type = "image"

LEMMA FieldsRead ==
  ASSUME NEW c \in Tidy, NoSemicolon(c), NEW a \in Content, NEW r, TellsFields(c, r)
  PROVE  /\ \A f \in Field : ApplyRecord(a, r)[f] = c[f]
         /\ ApplyRecord(a, r).url = a.url
<1>1. c \in Content /\ FieldsOk(c)
  BY DEF Tidy
<1> DEFINE s == TextPayload(c)
<1>2. s \in Text /\ Bytes(s) \in Nat
  BY <1>1, TextPayloadText, BytesNat
<1>3. r.type = "T" /\ r.lang = 2 /\ r.text = s /\ r.len = Bytes(s) + 3
  BY DEF TellsFields
<1> HIDE DEF s
<1>4. ReadText(r) = s /\ ReadText(r) # None
  <2>1. ~(r.len < 1 + r.lang) /\ r.len - 1 - r.lang = Bytes(s)
    BY <1>2, <1>3
  <2>2. ReadText(r) = Within(s, Bytes(s))
    BY <1>3, <2>1 DEF ReadText
  <2>3. ReadText(r) = s
    BY <1>2, <2>2, WithinAll
  <2> QED BY <1>2, <2>3, ContentAssumption
<1>5. ApplyRecord(a, r) =
         [f \in DOMAIN a |->
            IF f \in Field THEN Handle(f, Line(s, {"nl", ";"}, FieldNo(f))) ELSE a[f]]
  BY <1>3, <1>4 DEF ApplyRecord
<1>6. ASSUME NEW f \in Field PROVE Handle(f, Line(s, {"nl", ";"}, FieldNo(f))) = c[f]
  BY <1>1, PayloadLine DEF FieldsOk, s
<1>7. "url" \notin Field
  BY DEF Field
<1>8. \A f \in Field : f \in DOMAIN a
  BY FieldsText
<1>9. "url" \in DOMAIN a /\ a["url"] = a.url
  BY FieldsText
<1> DEFINE d == ApplyRecord(a, r)
<1>10. \A f \in Field : d[f] = c[f]
  BY <1>5, <1>6, <1>8
<1>11. d["url"] = a["url"]
  BY <1>5, <1>7, <1>9
<1> QED BY <1>9, <1>10, <1>11

LEMMA UrlRead ==
  ASSUME NEW c \in Content, NEW a \in Content, NEW r, TellsUrl(c, r)
  PROVE  /\ \A f \in Field : ApplyRecord(a, r)[f] = a[f]
         /\ ApplyRecord(a, r).url = Scheme(c.url)
<1> DEFINE s == c.url
<1>1. s \in Text /\ Bytes(s) \in Nat
  BY FieldsText, BytesNat
<1>2. r.type = "U" /\ r.code = 4 /\ r.rest = s /\ r.len = Bytes(s) + 1
  BY DEF TellsUrl
<1> HIDE DEF s
<1>3. ReadUrl(r) = Scheme(<<"https://">> \o s)
  <2>1. r.len - 1 = Bytes(s) /\ UriPrefix(r.code) = <<"https://">>
    BY <1>1, <1>2 DEF UriPrefix
  <2>2. Within(r.rest, r.len - 1) = s
    BY <1>1, <1>2, <2>1, WithinAll
  <2> QED BY <2>1, <2>2, Zenon DEF ReadUrl
<1>4. ReadUrl(r) = Scheme(s)
  <2>1. "https://" \in {"https://"} \cap Piece
    BY ContentAssumption
  <2>2. TrimStart(<<"https://">> \o s, {"https://"}) = TrimStart(s, {"https://"})
    BY <1>1, <2>1, TrimStartMore
  <2> QED BY <1>3, <2>2, Zenon DEF Scheme
<1>5. ApplyRecord(a, r) = [a EXCEPT !.url = ReadUrl(r)]
  <2>1. r.type # "T" /\ r.len > 0
    BY <1>1, <1>2
  <2> QED BY <1>2, <2>1 DEF ApplyRecord
<1>6. \A v : /\ \A f \in Field : [a EXCEPT !.url = v][f] = a[f]
             /\ [a EXCEPT !.url = v].url = v
  BY DEF Content, Field
<1>7. ApplyRecord(a, r) = [a EXCEPT !.url = Scheme(s)]
  BY <1>4, <1>5, Zenon
<1> DEFINE v == Scheme(s)
           d == ApplyRecord(a, r)
<1> HIDE DEF v, d
<1>8. d = [a EXCEPT !.url = v]
  BY <1>7 DEF d, v
<1>9. (\A f \in Field : d[f] = a[f]) /\ d.url = v
  BY <1>6, <1>8
<1> QED BY <1>9 DEF s, d, v

LEMMA ImageRead ==
  ASSUME NEW a \in Content, NEW r, r.type = "image"
  PROVE  /\ \A f \in Field : ApplyRecord(a, r)[f] = a[f]
         /\ ApplyRecord(a, r).url = a.url
<1>1. \A v : /\ \A f \in Field : [a EXCEPT !.image = v][f] = a[f]
             /\ [a EXCEPT !.image = v].url = a.url
  BY DEF Content, Field
<1>2. r.type # "T" /\ r.type # "U"
  OBVIOUS
<1>3. ApplyRecord(a, r) = a \/ \E v : ApplyRecord(a, r) = [a EXCEPT !.image = v]
  BY <1>2, Zenon DEF ApplyRecord
<1> QED BY <1>1, <1>3, Zenon

LEMMA TellsForms ==
  ASSUME NEW c, NEW a \in Record, NEW b \in Record, NEW d \in Record
  PROVE  /\ TellsFields(c, a) /\ c.url = <<>> => Tells(c, <<a>>)
         /\ TellsUrl(c, a) /\ TellsFields(c, b) => Tells(c, <<a, b>>)
         /\ TellsFields(c, a) /\ c.url = <<>> /\ b.type = "image" => Tells(c, <<a, b>>)
         /\ TellsUrl(c, a) /\ TellsFields(c, b) /\ d.type = "image" => Tells(c, <<a, b, d>>)
<1>1. DOMAIN <<a>> = {1} /\ <<a>>[1] = a
  OBVIOUS
<1>2. DOMAIN <<a, b>> = {1, 2} /\ <<a, b>>[1] = a /\ <<a, b>>[2] = b
  OBVIOUS
<1>3. /\ DOMAIN <<a, b, d>> = {1, 2, 3}
      /\ <<a, b, d>>[1] = a /\ <<a, b, d>>[2] = b /\ <<a, b, d>>[3] = d
  OBVIOUS
<1>4. TellsFields(c, a) /\ c.url = <<>> => Tells(c, <<a>>)
  BY <1>1 DEF Tells
<1>5. TellsUrl(c, a) /\ TellsFields(c, b) => Tells(c, <<a, b>>)
  BY <1>2 DEF Tells
<1>6. TellsFields(c, a) /\ c.url = <<>> /\ b.type = "image" => Tells(c, <<a, b>>)
  BY <1>2 DEF Tells
<1>7. TellsUrl(c, a) /\ TellsFields(c, b) /\ d.type = "image" => Tells(c, <<a, b, d>>)
  BY <1>3 DEF Tells
<1> QED BY <1>4, <1>5, <1>6, <1>7

LEMMA ToNdefTells ==
  ASSUME NEW c \in Content, FitsShortRecords(c)
  PROVE  Tells(c, ToNdef(c)) /\ Short(ToNdef(c)) = {} /\ ToNdef(c) \in Seq(Record)
<1> DEFINE hasUrl == c.url # <<>>
           u == UriRecord(c.url, FALSE)
           t == TextRecord(TextPayload(c), ~hasUrl, c.image = None)
           t1 == [t EXCEPT !.me = TRUE]
           m == ImageRecord(c.image)
           msg == IF hasUrl THEN <<u, t>> ELSE <<t>>
<1>1. TellsUrl(c, u) /\ u \in Record /\ u.len = PayloadBytes(u)
  <2>1. u \in Record /\ u.len = PayloadBytes(u)
    BY FieldsText, UriRecordOk DEF FitsShortRecords
  <2>2. u.type = "U" /\ u.code = 4 /\ u.rest = c.url /\ u.len = (Bytes(c.url) + 1) % BYTE
    BY DEF UriRecord
  <2>3. Bytes(c.url) + 1 \in Nat /\ Bytes(c.url) + 1 < BYTE
    BY FieldsText, BytesNat DEF FitsShortRecords
  <2> HIDE DEF u
  <2>4. u.len = Bytes(c.url) + 1
    BY <2>2, <2>3, LengthByte
  <2> QED BY <2>1, <2>2, <2>4 DEF TellsUrl
<1>2. TellsFields(c, t) /\ t \in Record /\ t.len = PayloadBytes(t)
  <2> DEFINE s == TextPayload(c)
  <2>0. s \in Text
    BY TextPayloadText
  <2>1. t \in Record /\ t.len = PayloadBytes(t)
    BY <2>0, TextRecordOk DEF FitsShortRecords
  <2>2. t.type = "T" /\ t.lang = 2 /\ t.text = s /\ t.len = (Bytes(s) + 3) % BYTE
    BY DEF TextRecord
  <2>3. Bytes(s) + 3 \in Nat /\ Bytes(s) + 3 < BYTE
    BY <2>0, BytesNat DEF FitsShortRecords
  <2> HIDE DEF t, s
  <2>4. t.len = Bytes(s) + 3
    BY <2>2, <2>3, LengthByte
  <2> QED BY <2>1, <2>2, <2>4 DEF TellsFields, s
<1>3. c.image # None => m \in Record /\ m.type = "image" /\ m.len = PayloadBytes(m)
  <2>1. m.type = "image"
    BY DEF ImageRecord
  <2> QED BY <2>1, FieldsText, ImageRecordOk
<1>4. ToNdef(c) = CASE c.image = None -> msg
                    [] c.image # None /\ 4 + c.image.bits > MAX_TAG_IMAGE -> FixMeFlag(msg)
                    [] OTHER -> Append(msg, m)
  BY DEF ToNdef
<1> HIDE DEF u, t, m
<1>5. TellsFields(c, t1) /\ t1 \in Record /\ t1.len = PayloadBytes(t1)
  <2>1. t.type = "T"
    BY <1>2 DEF TellsFields
  <2>2. t1 \in Record /\ t1.len = t.len /\ PayloadBytes(t1) = PayloadBytes(t)
    BY <1>2, <2>1, FlagSet
  <2>3. t1.type = t.type /\ t1.lang = t.lang /\ t1.text = t.text
    BY <1>2, <2>1 DEF Record
  <2> HIDE DEF t1
  <2> QED BY <1>2, <2>2, <2>3 DEF TellsFields
<1>6. Short(msg) = {}
  <2>1. \A i \in DOMAIN msg : msg[i] = t \/ msg[i] = u
    OBVIOUS
  <2> HIDE DEF msg
  <2> QED BY <1>1, <1>2, <2>1 DEF Short
<1>7. FixMeFlag(msg) = IF hasUrl THEN <<u, t1>> ELSE <<t1>>
  <2>1. FixMeFlag(msg) = [msg EXCEPT ![Len(msg)].me = TRUE]
    BY <1>6 DEF FixMeFlag
  <2>2. t.type = "T"
    BY <1>2 DEF TellsFields
  <2>3. CASE hasUrl
    <3>1. msg = <<u, t>>
      BY <2>3
    <3> QED BY <1>1, <1>2, <2>1, <2>2, <2>3, <3>1, LastFlag, Zenon
  <2>4. CASE ~hasUrl
    <3>1. msg = <<t>>
      BY <2>4
    <3> QED BY <1>1, <1>2, <2>1, <2>2, <2>4, <3>1, LastFlag, Zenon
  <2> QED BY <2>3, <2>4
<1> HIDE DEF t1
<1>8. \/ hasUrl /\ \E b \in {t, t1} : ToNdef(c) = <<u, b>>
      \/ ~hasUrl /\ \E b \in {t, t1} : ToNdef(c) = <<b>>
      \/ hasUrl /\ c.image # None /\ ToNdef(c) = <<u, t, m>>
      \/ ~hasUrl /\ c.image # None /\ ToNdef(c) = <<t, m>>
  <2>1. CASE c.image = None
    BY <1>4, <2>1
  <2>2. CASE c.image # None /\ 4 + c.image.bits > MAX_TAG_IMAGE
    <3>1. ToNdef(c) = FixMeFlag(msg)
      BY <1>4, <2>2
    <3> QED BY <1>7, <3>1
  <2>3. CASE c.image # None /\ ~(4 + c.image.bits > MAX_TAG_IMAGE)
    <3>1. ToNdef(c) = Append(msg, m)
      BY <1>4, <2>3
    <3>2. CASE hasUrl
      BY <1>1, <1>2, <1>3, <2>3, <3>1, <3>2, AppendTwo, Zenon
    <3>3. CASE ~hasUrl
      BY <1>2, <1>3, <2>3, <3>1, <3>3, AppendOne, Zenon
    <3> QED BY <3>2, <3>3
  <2> QED BY <2>1, <2>2, <2>3
<1> DEFINE n == ToNdef(c)
<1> HIDE DEF n, msg
<1>9. Tells(c, n)
  <2>1. CASE hasUrl /\ \E b \in {t, t1} : n = <<u, b>>
    BY <1>1, <1>2, <1>5, <2>1, TellsForms
  <2>2. CASE ~hasUrl /\ \E b \in {t, t1} : n = <<b>>
    BY <1>2, <1>5, <2>2, TellsForms
  <2>3. CASE hasUrl /\ c.image # None /\ n = <<u, t, m>>
    BY <1>1, <1>2, <1>3, <2>3, TellsForms
  <2>4. CASE ~hasUrl /\ c.image # None /\ n = <<t, m>>
    BY <1>2, <1>3, <2>4, TellsForms
  <2> QED BY <1>8, <2>1, <2>2, <2>3, <2>4 DEF n
<1>10. n \in Seq(Record)
  BY ToNdefOk DEF n
<1>11. Readable(n)
  BY ToNdefOk DEF n
<1>12. Short(n) = {}
  BY <1>11 DEF Readable, Short
<1> QED BY <1>9, <1>10, <1>12 DEF n

\* apply_ndef() of a message without a short record, record by record.
LEMMA ApplyWalk ==
  ASSUME NEW c \in Tidy, NEW msg \in Seq(Record), Short(msg) = {}
  PROVE  \E J \in [0..Len(msg) -> Tidy] :
           /\ J[0] = c
           /\ \A k \in 1..Len(msg) : J[k] = ApplyRecord(J[k - 1], msg[k])
           /\ ApplyNdef(c, msg) = J[Len(msg)]
<1> DEFINE n == Len(msg)
<1>1. n \in Nat /\ msg \in [1..n -> Record]
  BY LenProperties
<1>2. ApplyNdef(c, msg) = Applied(c, msg)
  <2>1. Reached(msg) = n /\ SubSeq(msg, 1, n) = msg
    BY SubSeqFull DEF Reached
  <2> QED BY <2>1, Zenon DEF ApplyNdef, Applied
<1> HIDE DEF n
<1>3. PICK g : /\ \A k \in 0..n : g[1..k] \in Tidy
               /\ g[1..0] = c
               /\ \A k \in 1..n : g[1..k] = ApplyRecord(g[1..k - 1], msg[k])
               /\ Applied(c, msg) = g[1..n]
  BY <1>1, ApplySteps, SMTT(30)
<1> DEFINE J == [k \in 0..n |-> g[1..k]]
<1>4. J \in [0..n -> Tidy]
  BY <1>3
<1>5. 0 \in 0..n /\ n \in 0..n /\ \A k \in 1..n : k \in 0..n /\ k - 1 \in 0..n
  BY <1>1
<1>6. J[0] = c /\ J[n] = ApplyNdef(c, msg)
  BY <1>2, <1>3, <1>5
<1>7. \A k \in 1..n : J[k] = g[1..k] /\ J[k - 1] = g[1..k - 1]
  BY <1>5
<1> HIDE DEF J
<1>8. \A k \in 1..n : J[k] = ApplyRecord(J[k - 1], msg[k])
  BY <1>3, <1>7, Zenon
<1> QED BY <1>4, <1>6, <1>8 DEF n

\* What to_ndef() wrote is what apply_ndef() reads, over any content.
LEMMA RoundTrip ==
  ASSUME NEW c \in Tidy, FitsShortRecords(c), NoSemicolon(c), NEW b \in Tidy
  PROVE  /\ \A f \in Field : ApplyNdef(b, ToNdef(c))[f] = c[f]
         /\ c.url # <<>> => ApplyNdef(b, ToNdef(c)).url = Scheme(c.url)
<1> DEFINE msg == ToNdef(c)
           n == Len(msg)
<1>1. c \in Content
  BY DEF Tidy
<1>2. Tells(c, msg) /\ Short(msg) = {} /\ msg \in Seq(Record)
  BY <1>1, ToNdefTells
<1> HIDE DEF msg
<1>3. n \in Nat /\ DOMAIN msg = 1..n
  BY <1>2, LenProperties
<1>4. PICK J \in [0..n -> Tidy] :
         /\ J[0] = b
         /\ \A k \in 1..n : J[k] = ApplyRecord(J[k - 1], msg[k])
         /\ ApplyNdef(b, msg) = J[n]
  BY <1>2, ApplyWalk
<1> HIDE DEF n
<1> DEFINE Read(k) ==
             /\ (\E i \in 1..k : TellsFields(c, msg[i])) => \A f \in Field : J[k][f] = c[f]
             /\ (\E i \in 1..k : TellsUrl(c, msg[i])) => J[k].url = Scheme(c.url)
           P == {k \in Nat : k <= n => Read(k)}
<1>5. 0 \in P
  OBVIOUS
<1>6. ASSUME NEW k \in Nat, k \in P, k + 1 <= n PROVE Read(k + 1)
  <2>1. Read(k) /\ k + 1 \in 1..n /\ k \in 0..n /\ (k + 1) - 1 = k
    BY <1>3, <1>6
  <2> DEFINE r == msg[k + 1]
             d == J[k + 1]
             a == J[k]
  <2>2. d = ApplyRecord(a, r) /\ a \in Content
    BY <1>4, <2>1 DEF Tidy
  <2>3. \A i \in 1..k + 1 : i \in 1..k \/ msg[i] = r
    OBVIOUS
  <2>4. TellsFields(c, r) \/ TellsUrl(c, r) \/ r.type = "image"
    BY <1>2, <1>3, <2>1 DEF Tells
  <2>5. /\ (\E i \in 1..k : TellsFields(c, msg[i])) => \A f \in Field : a[f] = c[f]
        /\ (\E i \in 1..k : TellsUrl(c, msg[i])) => a.url = Scheme(c.url)
    BY <2>1
  <2> HIDE DEF d, a, r
  <2>6. CASE TellsFields(c, r)
    <3>1. (\A f \in Field : d[f] = c[f]) /\ d.url = a.url
      BY <2>2, <2>6, FieldsRead
    <3>2. ~TellsUrl(c, r)
      BY <2>6 DEF TellsFields, TellsUrl
    <3>3. (\E i \in 1..k + 1 : TellsUrl(c, msg[i])) => d.url = Scheme(c.url)
      BY <2>3, <2>5, <3>1, <3>2
    <3> QED BY <3>1, <3>3 DEF d
  <2>7. CASE TellsUrl(c, r)
    <3>1. (\A f \in Field : d[f] = a[f]) /\ d.url = Scheme(c.url)
      BY <1>1, <2>2, <2>7, UrlRead
    <3>2. ~TellsFields(c, r)
      BY <2>7 DEF TellsFields, TellsUrl
    <3>3. (\E i \in 1..k + 1 : TellsFields(c, msg[i])) => \A f \in Field : d[f] = c[f]
      BY <2>3, <2>5, <3>1, <3>2
    <3> QED BY <3>1, <3>3 DEF d
  <2>8. CASE r.type = "image"
    <3>1. (\A f \in Field : d[f] = a[f]) /\ d.url = a.url
      BY <2>2, <2>8, ImageRead
    <3>2. ~TellsFields(c, r) /\ ~TellsUrl(c, r)
      BY <2>8 DEF TellsFields, TellsUrl
    <3>3. (\E i \in 1..k + 1 : TellsFields(c, msg[i])) => \A f \in Field : d[f] = c[f]
      BY <2>3, <2>5, <3>1, <3>2
    <3>4. (\E i \in 1..k + 1 : TellsUrl(c, msg[i])) => d.url = Scheme(c.url)
      BY <2>3, <2>5, <3>1, <3>2
    <3> QED BY <3>3, <3>4 DEF d
  <2> QED BY <2>4, <2>6, <2>7, <2>8
<1>7. Nat \subseteq P
  <2>1. \A k \in Nat : k \in P => k + 1 \in P
    <3> SUFFICES ASSUME NEW k \in Nat, k \in P PROVE k + 1 \in P
      OBVIOUS
    <3>1. k + 1 <= n => Read(k + 1)
      BY <1>6
    <3> HIDE DEF Read
    <3> QED BY <3>1
  <2> HIDE DEF P
  <2> QED BY <1>5, <2>1, Induct
<1>8. Read(n)
  <2> HIDE DEF Read
  <2> QED BY <1>3, <1>7
<1>9. J[n] = ApplyNdef(b, msg)
  BY <1>4
<1>10. (\E i \in 1..n : TellsFields(c, msg[i])) /\ (c.url # <<>> => \E i \in 1..n : TellsUrl(c, msg[i]))
  BY <1>2, <1>3 DEF Tells
<1>11. (\A f \in Field : J[n][f] = c[f]) /\ (c.url # <<>> => J[n].url = Scheme(c.url))
  BY <1>8, <1>10
<1> QED BY <1>9, <1>11 DEF msg

-----------------------------------------------------------------------------
(* The message in flash is the one of the content shown, or the content was  *)
(* read from it.                                                             *)
SavedIsShown ==
  /\ ContentInv
  /\ \/ saved = ToNdef(content)
     \/ content = [ApplyNdef(Demo, saved) EXCEPT !.image = content.image]

LEMMA SavedInductive == Spec => []SavedIsShown
<1>1. Init => SavedIsShown
  BY InitContent DEF Init, SavedIsShown
<1>2. SavedIsShown /\ [Next]_vars => SavedIsShown'
  <2> SUFFICES ASSUME SavedIsShown, [Next]_vars PROVE SavedIsShown'
    OBVIOUS
  <2>1. ContentInv'
    BY NextContent DEF SavedIsShown
  <2>2. ASSUME NEW c, Commit(c) PROVE saved' = ToNdef(content)'
    BY <2>2 DEF Commit
  <2>3. CASE Boot
    <3> DEFINE d == ApplyNdef(Demo, saved)
    <3>1. content' = [d EXCEPT !.image = content.image] /\ saved' = saved
      BY <2>3 DEF Boot
    <3>2. "image" \in DOMAIN d
      <4>1. saved \in Seq(Record)
        BY ToNdefOk DEF SavedIsShown, ContentInv, Tidy
      <4>2. d \in Content
        BY <4>1, DemoTidy, ApplyNdefTidy DEF Tidy
      <4> HIDE DEF d
      <4> QED BY <4>2, FieldsText
    <3>3. ApplyNdef(Demo, saved)' = d
      BY <3>1
    <3> HIDE DEF d
    <3>4. content'.image = content.image
      BY <3>1, <3>2
    <3>5. content' = [d EXCEPT !.image = content'.image]
      BY <3>1, <3>4
    <3> QED BY <2>1, <3>3, <3>5 DEF SavedIsShown
  <2>4. CASE UNCHANGED vars
    BY <2>4 DEF SavedIsShown, ContentInv, vars
  <2>5. CASE Next /\ ~Boot
    <3>1. \E c : Commit(c)
      BY <2>5, Zenon DEF Next, OnBleContent, Echo, OnTagWritten, OnBleImage, OnClearImage
    <3> QED BY <2>1, <2>2, <3>1 DEF SavedIsShown
  <2> QED BY <2>3, <2>4, <2>5
<1> QED BY <1>1, <1>2, PTL DEF Spec

\* A boot brings every field back, and the url without its scheme, when they
\* fit short records and no ';' came over BLE.
THEOREM BootKeeps == Spec => BootKeepsFields
<1> DEFINE Kept == Boot /\ FitsShortRecords(content) /\ NoSemicolon(content) =>
                     /\ \A f \in Field : content'[f] = content[f]
                     /\ content.url # <<>> => content'.url = Scheme(content.url)
<1>1. SavedIsShown => [Kept]_vars
  <2> SUFFICES ASSUME SavedIsShown, Boot, FitsShortRecords(content), NoSemicolon(content)
               PROVE  Kept \/ UNCHANGED vars
    OBVIOUS
  <2>1. /\ content \in Tidy /\ content \in Content /\ served = ToNdef(content)
        /\ saved \in Seq(Record)
    BY ToNdefOk DEF SavedIsShown, ContentInv, Tidy
  <2> DEFINE d == ApplyNdef(Demo, saved)
             v == content.image
  <2>2. d \in Content
    BY <2>1, DemoTidy, ApplyNdefTidy DEF Tidy
  <2>3. content' = [d EXCEPT !.image = v] /\ served' = ToNdef(content)' /\ saved' = saved
    BY DEF Boot
  <2>4. saved = ToNdef(content) \/ content = [d EXCEPT !.image = v]
    BY DEF SavedIsShown
  <2>5. CASE saved = ToNdef(content)
    <3>1. /\ \A f \in Field : d[f] = content[f]
          /\ content.url # <<>> => d.url = Scheme(content.url)
      BY <2>1, <2>5, DemoTidy, RoundTrip
    <3> HIDE DEF d, v
    <3>2. (\A f \in Field : content'[f] = d[f]) /\ content'.url = d.url
      BY <2>2, <2>3 DEF Content, Field
    <3> QED BY <3>1, <3>2
  <2>6. CASE content = [d EXCEPT !.image = v]
    <3>1. content' = content
      BY <2>3, <2>6
    <3> QED BY <2>1, <2>3, <3>1 DEF vars
  <2> QED BY <2>4, <2>5, <2>6
<1> QED BY <1>1, SavedInductive, PTL DEF Spec, BootKeepsFields
=============================================================================
