------------------------- MODULE TranscriptsProofs -------------------------
(***************************************************************************)
(* Proofs about Transcripts, for any number of tasks and uploads, entries, *)
(* repetitions and instants.                                               *)
(***************************************************************************)
EXTENDS Transcripts, FiniteSetTheorems, WellFoundedInduction, TLAPS

----------------------------------------------------------------------------
(* Folds.  FoldLeft is a function defined by recursion on sets of          *)
(* positions, the last one first.                                          *)

\* Induction over the naturals, for a predicate given as a set.
LEMMA InductionOnNat ==
  ASSUME NEW Good, 0 \in Good, \A n \in Nat : n \in Good => n + 1 \in Good
  PROVE  Nat \subseteq Good
<1> DEFINE Bad == Nat \ Good
           Less == OpToRel(<, Nat)
<1> SUFFICES ASSUME Bad # {} PROVE FALSE
  OBVIOUS
<1>1. IsWellFoundedOn(Less, Nat)
  BY NatLessThanWellFounded
<1>2. PICK n \in Bad : \A m \in Bad : ~ (<<m, n>> \in Less)
  <2> HIDE DEF Less
  <2>1. QED
    BY <1>1, WFMin
<1>3. n # 0 /\ n - 1 \in Nat /\ n - 1 \notin Good
  OBVIOUS
<1>4. <<n - 1, n>> \in Less
  BY <1>3 DEF OpToRel
<1>5. QED
  BY <1>2, <1>3, <1>4

\* The same up to a bound.
LEMMA InductionUpTo ==
  ASSUME NEW n \in Nat, NEW Good, 0 \in Good, \A i \in 1..n : i - 1 \in Good => i \in Good
  PROVE  0..n \subseteq Good
<1> DEFINE All == {i \in Nat : i \in 0..n => i \in Good}
<1>1. \A i \in Nat : i \in All => i + 1 \in All
  OBVIOUS
<1>2. 0 \in All
  OBVIOUS
<1> HIDE DEF All
<1>3. Nat \subseteq All
  BY <1>1, <1>2, InductionOnNat
<1>4. QED
  BY <1>3 DEF All

\* A set of positions has a last one.
LEMMA MaxIsLast ==
  ASSUME NEW n \in Nat, NEW s \in SUBSET (1..n), s # {}
  PROVE  Max(s) \in s /\ \A i \in s : i <= Max(s)
<1> DEFINE Good == {m \in Nat : \A u \in SUBSET (1..m) : u # {} => \E x \in u : \A y \in u : x >= y}
<1>1. 0 \in Good
  <2>1. 1..0 = {}
    OBVIOUS
  <2>2. QED
    BY <2>1
<1>2. ASSUME NEW m \in Nat, m \in Good
      PROVE  m + 1 \in Good
  <2> SUFFICES ASSUME NEW u \in SUBSET (1..(m + 1)), u # {}
               PROVE  \E x \in u : \A y \in u : x >= y
    OBVIOUS
  <2>1. CASE m + 1 \in u
    BY <2>1
  <2>2. CASE m + 1 \notin u
    <3>1. u \in SUBSET (1..m)
      BY <2>2
    <3>2. QED
      BY <1>2, <3>1
  <2>3. QED
    BY <2>1, <2>2
<1> HIDE DEF Good
<1>3. n \in Good
  BY <1>1, <1>2, InductionOnNat
<1>4. \E x \in s : \A y \in s : x >= y
  BY <1>3 DEF Good
<1>5. QED
  BY <1>4 DEF Max

\* f is the recursion that takes the last of m positions off, where "step"
\* is the operation that is folded, as a function.
Solves(f, m, X, base, step) ==
  /\ f \in [SUBSET (1..m) -> X]
  /\ \A s \in SUBSET (1..m) :
       f[s] = IF s = {} THEN base ELSE step[<<f[s \ {Max(s)}], Max(s)>>]

LEMMA SolutionForOneMore ==
  ASSUME NEW n \in Nat, NEW X, NEW base \in X, NEW step \in [X \X (1..n) -> X],
         NEW i \in 1..n, NEW f, Solves(f, i - 1, X, base, step)
  PROVE  \E g : Solves(g, i, X, base, step)
<1>1. ASSUME NEW s \in SUBSET (1..i), s # {}
      PROVE  s \ {Max(s)} \in SUBSET (1..(i - 1)) /\ Max(s) \in 1..n
  <2>1. i \in Nat
    OBVIOUS
  <2>2. Max(s) \in s /\ \A j \in s : j <= Max(s)
    BY <1>1, <2>1, MaxIsLast
  <2> DEFINE last == Max(s)
  <2> HIDE DEF last
  <2>3. last \in 1..i /\ last \in 1..n
    <3>1. last \in s
      BY <2>2 DEF last
    <3>2. last \in 1..i
      BY <3>1
    <3>3. QED
      BY <2>1, <3>2
  <2>4. ASSUME NEW j \in s, j # last
        PROVE  j \in 1..(i - 1)
    <3>1. j \in 1..i /\ j <= last
      BY <2>2 DEF last
    <3>2. QED
      BY <2>1, <2>3, <2>4, <3>1
  <2>5. QED
    BY <2>3, <2>4 DEF last
<1> DEFINE g == [s \in SUBSET (1..i) |->
                   IF s = {} THEN base ELSE step[<<f[s \ {Max(s)}], Max(s)>>]]
<1>2. \A s \in SUBSET (1..(i - 1)) : s \in SUBSET (1..i)
  OBVIOUS
<1>3. \A s \in SUBSET (1..(i - 1)) : g[s] = f[s]
  BY <1>2 DEF Solves
<1>4. ASSUME NEW s \in SUBSET (1..i)
      PROVE  g[s] \in X
  <2>1. s # {} => f[s \ {Max(s)}] \in X /\ Max(s) \in 1..n
    BY <1>1 DEF Solves
  <2>2. s # {} => step[<<f[s \ {Max(s)}], Max(s)>>] \in X
    BY <2>1
  <2>3. QED
    BY <2>2
<1>5. \A s \in SUBSET (1..i) :
        g[s] = IF s = {} THEN base ELSE step[<<g[s \ {Max(s)}], Max(s)>>]
  BY <1>1, <1>3
<1>6. g \in [SUBSET (1..i) -> X]
  BY <1>4
<1> HIDE DEF g
<1>7. Solves(g, i, X, base, step)
  BY <1>5, <1>6 DEF Solves
<1>8. QED
  BY <1>7

LEMMA SolutionExists ==
  ASSUME NEW n \in Nat, NEW X, NEW base \in X, NEW step \in [X \X (1..n) -> X]
  PROVE  \E f : Solves(f, n, X, base, step)
<1> DEFINE Good == {m \in 0..n : \E f : Solves(f, m, X, base, step)}
<1>1. 0 \in Good
  <2> DEFINE f == [s \in SUBSET (1..0) |-> base]
  <2>1. \A s \in SUBSET (1..0) : s = {} /\ f[s] = base
    OBVIOUS
  <2>2. f \in [SUBSET (1..0) -> X]
    OBVIOUS
  <2> HIDE DEF f
  <2>3. Solves(f, 0, X, base, step)
    BY <2>1, <2>2 DEF Solves
  <2>4. QED
    BY <2>3
<1>2. \A i \in 1..n : i - 1 \in Good => i \in Good
  BY SolutionForOneMore
<1> HIDE DEF Good
<1>3. n \in Good
  BY <1>1, <1>2, InductionUpTo
<1>4. QED
  BY <1>3 DEF Good

\* Such a solution goes through the positions in their order.
LEMMA PrefixesOfPositions ==
  ASSUME NEW n \in Nat, NEW i \in 1..n
  PROVE  /\ 1..i \in SUBSET (1..n) /\ 1..i # {} /\ Max(1..i) = i
         /\ (1..i) \ {Max(1..i)} = 1..(i - 1)
<1>1. 1..i \in SUBSET (1..n) /\ 1..i # {}
  OBVIOUS
<1>2. Max(1..i) \in 1..i /\ \A j \in 1..i : j <= Max(1..i)
  BY <1>1, MaxIsLast
<1>3. Max(1..i) = i
  BY <1>2
<1>4. (1..i) \ {i} = 1..(i - 1)
  OBVIOUS
<1>5. QED
  BY <1>1, <1>3, <1>4

----------------------------------------------------------------------------
(* The loop over the events.                                               *)

SumType == [score: Int, lastWasReasoning: BOOLEAN]
Read(sum, s) == FoldLeft(Assess, sum, s)

\* F is what the loop makes of every prefix of n events, "of" the last.
ReadsPrefixes(F, n, sum, s) ==
  /\ F \in [0..n -> SumType]
  /\ F[0] = sum
  /\ \A i \in 1..n : F[i] = Assess(F[i - 1], s[i])

LEMMA PointsType == \A e, explained : Points(e, explained) \in -15..10
  BY DEF Points

LEMMA AssessType ==
  ASSUME NEW sum \in SumType, NEW e
  PROVE  Assess(sum, e) \in SumType
  BY PointsType DEF Assess, SumType

LEMMA ReadIsAPrefix ==
  ASSUME NEW sum \in SumType, NEW n \in Nat, NEW s, DOMAIN s = 1..n
  PROVE  \E F : ReadsPrefixes(F, n, sum, s) /\ Read(sum, s) = F[n]
<1> DEFINE Recursive(f) == f = [t \in SUBSET (1..n) |->
                             IF t = {} THEN sum ELSE Assess(f[t \ {Max(t)}], s[Max(t)])]
           h == CHOOSE f : Recursive(f)
<1>1. \E f : Recursive(f)
  <2> DEFINE step == [p \in SumType \X (1..n) |-> Assess(p[1], s[p[2]])]
  <2>1. step \in [SumType \X (1..n) -> SumType]
    BY AssessType
  <2>2. PICK f : Solves(f, n, SumType, sum, step)
    <3> HIDE DEF step
    <3>1. QED
      BY <2>1, SolutionExists
  <2>3. ASSUME NEW t \in SUBSET (1..n), t # {}
        PROVE  step[<<f[t \ {Max(t)}], Max(t)>>] = Assess(f[t \ {Max(t)}], s[Max(t)])
    <3>1. f[t \ {Max(t)}] \in SumType
      BY <2>2 DEF Solves
    <3>2. Max(t) \in 1..n
      BY <2>3, MaxIsLast
    <3>3. QED
      BY <3>1, <3>2
  <2> HIDE DEF step
  <2>4. \A t \in SUBSET (1..n) :
          f[t] = IF t = {} THEN sum ELSE Assess(f[t \ {Max(t)}], s[Max(t)])
    BY <2>2, <2>3 DEF Solves
  <2>5. f = [t \in SUBSET (1..n) |-> f[t]]
    BY <2>2 DEF Solves
  <2>6. QED
    BY <2>4, <2>5
<1>2. Recursive(h)
  BY <1>1
<1>3. Read(sum, s) = h[1..n]
  BY DEF Read, FoldLeft, MapThenFoldSet
<1> HIDE DEF h
<1> DEFINE F == [i \in 0..n |-> h[1..i]]
<1>4. \A t \in SUBSET (1..n) : h[t] = IF t = {} THEN sum ELSE Assess(h[t \ {Max(t)}], s[Max(t)])
  BY <1>2
<1>5. F[0] = sum
  <2>1. 1..0 = {} /\ 0 \in 0..n
    OBVIOUS
  <2>2. h[1..0] = sum
    BY <1>4, <2>1
  <2>3. QED
    BY <2>1, <2>2
<1>6. ASSUME NEW i \in 1..n
      PROVE  F[i] = Assess(F[i - 1], s[i])
  <2>1. h[1..i] = Assess(h[1..(i - 1)], s[i])
    BY <1>4, PrefixesOfPositions
  <2>2. i \in 0..n /\ i - 1 \in 0..n
    OBVIOUS
  <2>3. QED
    BY <2>1, <2>2
<1>7. \A i \in 0..n : F[i] \in SumType
  <2> DEFINE Good == {i \in 0..n : F[i] \in SumType}
  <2> HIDE DEF F
  <2>1. 0 \in Good
    BY <1>5
  <2>2. \A i \in 1..n : i - 1 \in Good => i \in Good
    BY <1>6, AssessType
  <2> HIDE DEF Good
  <2>3. 0..n \subseteq Good
    BY <2>1, <2>2, InductionUpTo
  <2>4. QED
    BY <2>3 DEF Good
<1>8. ReadsPrefixes(F, n, sum, s)
  BY <1>5, <1>6, <1>7 DEF ReadsPrefixes
<1>9. Read(sum, s) = F[n]
  BY <1>3
<1>10. QED
  BY <1>8, <1>9

LEMMA ReadNothing == ASSUME NEW sum \in SumType PROVE Read(sum, << >>) = sum
<1>1. DOMAIN << >> = 1..0
  OBVIOUS
<1>2. QED
  BY <1>1, ReadIsAPrefix DEF ReadsPrefixes

LEMMA ReadType ==
  ASSUME NEW sum \in SumType, NEW S, NEW s \in Seq(S)
  PROVE  Read(sum, s) \in SumType
<1>1. Len(s) \in Nat /\ DOMAIN s = 1..Len(s)
  OBVIOUS
<1>2. QED
  BY <1>1, ReadIsAPrefix DEF ReadsPrefixes

LEMMA ReadOneMore ==
  ASSUME NEW sum \in SumType, NEW S, NEW s \in Seq(S), NEW e \in S
  PROVE  Read(sum, Append(s, e)) = Assess(Read(sum, s), e)
<1> DEFINE n == Len(s)
           longer == Append(s, e)
<1>1. /\ n \in Nat /\ DOMAIN s = 1..n /\ DOMAIN longer = 1..(n + 1)
      /\ \A i \in 1..n : longer[i] = s[i]
      /\ longer[n + 1] = e
  OBVIOUS
<1> HIDE DEF n, longer
<1>2. PICK F : ReadsPrefixes(F, n, sum, s) /\ Read(sum, s) = F[n]
  BY <1>1, ReadIsAPrefix
<1>3. PICK G : ReadsPrefixes(G, n + 1, sum, longer) /\ Read(sum, longer) = G[n + 1]
  BY <1>1, ReadIsAPrefix
<1> DEFINE Good == {i \in 0..n : F[i] = G[i]}
<1>4. 0 \in Good
  BY <1>1, <1>2, <1>3 DEF ReadsPrefixes
<1>5. ASSUME NEW i \in 1..n, i - 1 \in Good
      PROVE  i \in Good
  <2>1. i \in 1..(n + 1) /\ i \in 0..n
    BY <1>1
  <2>2. F[i] = Assess(F[i - 1], s[i]) /\ G[i] = Assess(G[i - 1], longer[i])
    BY <1>2, <1>3, <2>1 DEF ReadsPrefixes
  <2>3. QED
    BY <1>1, <1>5, <2>1, <2>2
<1> HIDE DEF Good
<1>6. n \in Good
  BY <1>1, <1>4, <1>5, InductionUpTo
<1>7. G[n + 1] = Assess(G[n], longer[n + 1])
  <2>1. n + 1 \in 1..(n + 1) /\ (n + 1) - 1 = n
    BY <1>1
  <2>2. QED
    BY <1>3, <2>1 DEF ReadsPrefixes
<1>8. QED
  BY <1>1, <1>2, <1>3, <1>6, <1>7 DEF Good, longer

----------------------------------------------------------------------------
(* The orders of a set of rows.                                            *)

LEMMA OrdersOfNothing == SetToSeqs({}) = {<< >>}
<1>1. Cardinality({}) = 0 /\ 1..0 = {}
  BY FS_EmptySet
<1>2. SetToSeqs({}) = {f \in [1..0 -> {}] : \A i, j \in 1..0 : i # j => f[i] # f[j]}
  BY <1>1 DEF SetToSeqs
<1>3. << >> \in [1..0 -> {}] /\ \A f \in [1..0 -> {}] : f = << >>
  OBVIOUS
<1>4. \A f \in [1..0 -> {}] : \A i, j \in 1..0 : i # j => f[i] # f[j]
  BY <1>1
<1>5. QED
  BY <1>2, <1>3, <1>4

LEMMA OrdersAreSequences ==
  ASSUME NEW S, IsFiniteSet(S), NEW s \in SetToSeqs(S)
  PROVE  /\ Cardinality(S) \in Nat
         /\ s \in [1..Cardinality(S) -> S]
         /\ s \in Seq(S)
         /\ Len(s) = Cardinality(S)
         /\ \A i, j \in 1..Cardinality(S) : i # j => s[i] # s[j]
<1>1. Cardinality(S) \in Nat
  BY FS_CardinalityType
<1>2. s \in [1..Cardinality(S) -> S] /\ \A i, j \in 1..Cardinality(S) : i # j => s[i] # s[j]
  BY DEF SetToSeqs
<1>3. QED
  BY <1>1, <1>2

LEMMA LastOfAnOrder ==
  ASSUME NEW S, IsFiniteSet(S), S # {}, NEW s \in SetToSeqs(S)
  PROVE  \E e \in S : \E shorter \in SetToSeqs(S \ {e}) : s = Append(shorter, e)
<1> DEFINE n == Cardinality(S)
           e == s[n]
           shorter == [i \in 1..(n - 1) |-> s[i]]
<1>1. n \in Nat /\ n # 0
  BY FS_CardinalityType, FS_EmptySet
<1>2. /\ s \in [1..n -> S] /\ s \in Seq(S) /\ Len(s) = n
      /\ \A i, j \in 1..n : i # j => s[i] # s[j]
  BY OrdersAreSequences
<1> HIDE DEF n
<1>3. e \in S
  BY <1>1, <1>2
<1>4. Cardinality(S \ {e}) = n - 1
  BY <1>3, FS_RemoveElement DEF n
<1>5. /\ shorter \in [1..(n - 1) -> S \ {e}]
      /\ \A i, j \in 1..(n - 1) : i # j => shorter[i] # shorter[j]
  BY <1>1, <1>2
<1>6. shorter \in SetToSeqs(S \ {e})
  BY <1>4, <1>5 DEF SetToSeqs
<1>7. s = Append(shorter, e)
  <2>1. shorter \in Seq(S) /\ Len(shorter) = n - 1
    BY <1>1, <1>5
  <2> DEFINE longer == Append(shorter, e)
  <2>2. longer \in Seq(S) /\ Len(longer) = n
    BY <2>1, <1>1, <1>3
  <2>3. \A i \in 1..n : longer[i] = s[i]
    BY <2>1, <1>1, <1>3
  <2> HIDE DEF longer, e, shorter
  <2>4. longer \in [1..n -> S]
    BY <2>2
  <2>5. longer = s
    BY <1>2, <2>3, <2>4
  <2>6. QED
    BY <2>5 DEF longer
<1>8. QED
  BY <1>3, <1>6, <1>7

LEMMA OrdersGrow ==
  ASSUME NEW S, IsFiniteSet(S), NEW e \in S, NEW s \in SetToSeqs(S \ {e})
  PROVE  s \in Seq(S) /\ Append(s, e) \in SetToSeqs(S)
<1> DEFINE n == Cardinality(S)
           longer == Append(s, e)
<1>1. n \in Nat /\ n # 0
  BY FS_CardinalityType, FS_EmptySet
<1>2. IsFiniteSet(S \ {e}) /\ Cardinality(S \ {e}) = n - 1
  BY FS_RemoveElement
<1>3. /\ s \in [1..(n - 1) -> S \ {e}] /\ s \in Seq(S \ {e}) /\ Len(s) = n - 1
      /\ \A i, j \in 1..(n - 1) : i # j => s[i] # s[j]
  BY <1>2, OrdersAreSequences
<1> HIDE DEF n
<1>4. s \in Seq(S)
  BY <1>3
<1>5. longer \in [1..n -> S]
  <2>1. longer \in Seq(S) /\ Len(longer) = n
    BY <1>1, <1>3, <1>4
  <2> HIDE DEF longer
  <2>2. QED
    BY <2>1
<1>6. \A i \in 1..n : longer[i] = IF i = n THEN e ELSE s[i]
  BY <1>1, <1>3, <1>4
<1>7. \A i, j \in 1..n : i # j => longer[i] # longer[j]
  <2> HIDE DEF longer
  <2> SUFFICES ASSUME NEW i \in 1..n, NEW j \in 1..n, i # j
               PROVE  longer[i] # longer[j]
    OBVIOUS
  <2>1. \A m \in 1..n : m # n => m \in 1..(n - 1)
    BY <1>1
  <2>2. \A m \in 1..n : m # n => s[m] # e
    BY <1>3, <2>1
  <2>3. QED
    BY <1>3, <1>6, <2>1, <2>2
<1>8. QED
  BY <1>4, <1>5, <1>7 DEF SetToSeqs, n

\* The sums that reading the rows S can end with, in any order, from any
\* of some sums.
After(S, sums) == UNION {{Read(sum, s) : s \in SetToSeqs(S)} : sum \in sums}

LEMMA AfterType ==
  ASSUME NEW S, IsFiniteSet(S), NEW sums \in SUBSET SumType
  PROVE  After(S, sums) \in SUBSET SumType
<1> SUFFICES ASSUME NEW sum \in sums, NEW s \in SetToSeqs(S)
             PROVE  Read(sum, s) \in SumType
  BY DEF After
<1>1. s \in Seq(S)
  BY OrdersAreSequences
<1>2. QED
  BY <1>1, ReadType

LEMMA AfterNothing ==
  ASSUME NEW sums \in SUBSET SumType
  PROVE  After({}, sums) = sums
<1>1. \A sum \in sums : {Read(sum, s) : s \in SetToSeqs({})} = {sum}
  BY OrdersOfNothing, ReadNothing
<1>2. QED
  BY <1>1 DEF After

LEMMA AfterOneMore ==
  ASSUME NEW S, IsFiniteSet(S), S # {}, NEW sums \in SUBSET SumType
  PROVE  After(S, sums) = UNION {{Assess(x, e) : x \in After(S \ {e}, sums)} : e \in S}
<1> DEFINE ByLast == UNION {{Assess(x, e) : x \in After(S \ {e}, sums)} : e \in S}
<1>1. ASSUME NEW y \in After(S, sums)
      PROVE  y \in ByLast
  <2>1. PICK sum \in sums, s \in SetToSeqs(S) : y = Read(sum, s)
    BY <1>1 DEF After
  <2>2. PICK e \in S : \E shorter \in SetToSeqs(S \ {e}) : s = Append(shorter, e)
    BY LastOfAnOrder
  <2> PICK shorter \in SetToSeqs(S \ {e}) : s = Append(shorter, e)
    BY <2>2
  <2>3. shorter \in Seq(S)
    BY OrdersGrow
  <2>4. y = Assess(Read(sum, shorter), e)
    BY <2>1, <2>2, <2>3, ReadOneMore
  <2>5. Read(sum, shorter) \in After(S \ {e}, sums)
    BY DEF After
  <2>6. y \in {Assess(x, e) : x \in After(S \ {e}, sums)}
    BY <2>4, <2>5
  <2>7. QED
    BY <2>6
<1>2. ASSUME NEW y \in ByLast
      PROVE  y \in After(S, sums)
  <2>0. PICK e \in S : y \in {Assess(x, e) : x \in After(S \ {e}, sums)}
    BY <1>2
  <2>1. PICK x \in After(S \ {e}, sums) : y = Assess(x, e)
    BY <2>0
  <2>2. PICK sum \in sums, s \in SetToSeqs(S \ {e}) : x = Read(sum, s)
    BY <2>1 DEF After
  <2>3. s \in Seq(S) /\ Append(s, e) \in SetToSeqs(S)
    BY OrdersGrow
  <2>4. y = Read(sum, Append(s, e))
    BY <2>1, <2>2, <2>3, ReadOneMore
  <2>5. QED
    BY <2>3, <2>4 DEF After
<1>3. QED
  BY <1>1, <1>2

----------------------------------------------------------------------------
(* The rows of a task, instant by instant.                                 *)

Start == [score |-> Base, lastWasReasoning |-> FALSE]
AtInstant(rows, t) == {e \in rows : e.time = t}

IsTranscript(rows) == IsFiniteSet(rows) /\ \A e \in rows : e.time \in 1..Horizon

\* A is what the rows up to every instant can be summed to.
Accumulates(A, rows) ==
  /\ A \in [0..Horizon -> SUBSET SumType]
  /\ A[0] = {Start}
  /\ \A t \in 1..Horizon : A[t] = After(AtInstant(rows, t), A[t - 1])

LEMMA StartType == Start \in SumType
  BY DEF Start, SumType, Base

LEMMA InstantsAreFinite ==
  ASSUME NEW rows, IsTranscript(rows), NEW t
  PROVE  IsFiniteSet(AtInstant(rows, t))
<1>1. AtInstant(rows, t) \in SUBSET rows
  BY DEF AtInstant
<1>2. QED
  BY <1>1, FS_Subset DEF IsTranscript

LEMMA SumsAccumulate ==
  ASSUME NEW rows, IsTranscript(rows)
  PROVE  \E A : Accumulates(A, rows) /\ Sums(rows) = A[Horizon]
<1> DEFINE n == Horizon
           X == SUBSET SumType
           times == [t \in 1..n |-> t]
           Next1(sums, t) == After(AtInstant(rows, t), sums)
           Recursive(f) == f = [s \in SUBSET (1..n) |->
                             IF s = {} THEN {Start} ELSE Next1(f[s \ {Max(s)}], times[Max(s)])]
           h == CHOOSE f : Recursive(f)
<1>0. n \in Nat
  BY TranscriptAssumption
<1>1. \E f : Recursive(f)
  <2> DEFINE step == [p \in X \X (1..n) |-> Next1(p[1], p[2])]
  <2>1. step \in [X \X (1..n) -> X]
    BY AfterType, InstantsAreFinite
  <2>2. PICK f : Solves(f, n, X, {Start}, step)
    <3>1. {Start} \in X
      BY StartType
    <3> HIDE DEF step, X, n
    <3>2. QED
      BY <1>0, <2>1, <3>1, SolutionExists
  <2>3. ASSUME NEW s \in SUBSET (1..n), s # {}
        PROVE  step[<<f[s \ {Max(s)}], Max(s)>>] = Next1(f[s \ {Max(s)}], times[Max(s)])
    <3>1. f[s \ {Max(s)}] \in X
      BY <2>2 DEF Solves
    <3>2. Max(s) \in 1..n
      BY <1>0, <2>3, MaxIsLast
    <3> HIDE DEF X, Next1
    <3>3. QED
      BY <3>1, <3>2
  <2> HIDE DEF step, X, Next1, times
  <2>4. \A s \in SUBSET (1..n) :
          f[s] = IF s = {} THEN {Start} ELSE Next1(f[s \ {Max(s)}], times[Max(s)])
    BY <2>2, <2>3 DEF Solves
  <2>5. f = [s \in SUBSET (1..n) |-> f[s]]
    BY <2>2 DEF Solves
  <2>6. QED
    BY <2>4, <2>5
<1>2. Recursive(h)
  BY <1>1
<1>3. Sums(rows) = h[1..n]
  <2>1. DOMAIN times = 1..n
    OBVIOUS
  <2>2. QED
    BY <2>1 DEF Sums, FoldLeft, MapThenFoldSet, After, Read, AtInstant, Start
<1> HIDE DEF h
<1> DEFINE A == [t \in 0..n |-> h[1..t]]
<1>4. \A s \in SUBSET (1..n) :
        h[s] = IF s = {} THEN {Start} ELSE Next1(h[s \ {Max(s)}], times[Max(s)])
  BY <1>2
<1> HIDE DEF Next1, n
<1>5. A[0] = {Start}
  <2>1. 1..0 = {} /\ 0 \in 0..n
    BY <1>0
  <2>2. h[1..0] = {Start}
    BY <1>4, <2>1
  <2>3. QED
    BY <2>1, <2>2
<1>6. ASSUME NEW t \in 1..n
      PROVE  A[t] = Next1(A[t - 1], t)
  <2>1. h[1..t] = Next1(h[1..(t - 1)], t)
    BY <1>0, <1>4, PrefixesOfPositions
  <2>2. t \in 0..n /\ t - 1 \in 0..n
    BY <1>0
  <2>3. QED
    BY <2>1, <2>2
<1>7. \A t \in 0..n : A[t] \in SUBSET SumType
  <2> DEFINE Good == {t \in 0..n : A[t] \in SUBSET SumType}
  <2> HIDE DEF A
  <2>1. 0 \in Good
    BY <1>0, <1>5, StartType
  <2>2. \A t \in 1..n : t - 1 \in Good => t \in Good
    BY <1>0, <1>6, AfterType, InstantsAreFinite DEF Next1
  <2> HIDE DEF Good
  <2>3. 0..n \subseteq Good
    BY <1>0, <2>1, <2>2, InductionUpTo
  <2>4. QED
    BY <2>3 DEF Good
<1>8. Accumulates(A, rows)
  BY <1>5, <1>6, <1>7 DEF Accumulates, Next1, n
<1>9. Sums(rows) = A[n]
  BY <1>0, <1>3
<1>10. QED
  BY <1>8, <1>9 DEF n

LEMMA AccumulationsAgree ==
  ASSUME NEW A, NEW rows, Accumulates(A, rows), NEW B, NEW others, Accumulates(B, others),
         NEW t \in 0..Horizon, \A i \in 1..t : AtInstant(rows, i) = AtInstant(others, i)
  PROVE  A[t] = B[t]
<1> DEFINE Good == {i \in 0..Horizon : i <= t => A[i] = B[i]}
<1>0. Horizon \in Nat /\ t \in Nat
  BY TranscriptAssumption
<1>1. 0 \in Good
  <2>1. A[0] = B[0]
    BY DEF Accumulates
  <2>2. QED
    BY <1>0, <2>1
<1>2. ASSUME NEW i \in 1..Horizon, i - 1 \in Good
      PROVE  i \in Good
  <2>1. i <= t => i \in 1..t /\ A[i - 1] = B[i - 1]
    BY <1>0, <1>2
  <2>2. i <= t => A[i] = B[i]
    BY <2>1 DEF Accumulates
  <2>3. QED
    BY <1>0, <2>2
<1> HIDE DEF Good
<1>3. t \in Good
  BY <1>0, <1>1, <1>2, InductionUpTo
<1>4. QED
  BY <1>0, <1>3 DEF Good

LEMMA AccumulationStops ==
  ASSUME NEW A, NEW rows, Accumulates(A, rows),
         NEW t \in 0..Horizon, \A e \in rows : e.time \in 0..t
  PROVE  A[Horizon] = A[t]
<1> DEFINE Good == {i \in 0..Horizon : i >= t => A[i] = A[t]}
<1>0. Horizon \in Nat /\ t \in Nat
  BY TranscriptAssumption
<1>1. 0 \in Good
  BY <1>0
<1>2. ASSUME NEW i \in 1..Horizon, i - 1 \in Good
      PROVE  i \in Good
  <2>1. CASE i <= t
    BY <1>0, <2>1
  <2>2. CASE i > t
    <3>1. i - 1 \in 0..Horizon /\ i - 1 >= t /\ i \in 0..Horizon
      BY <1>0, <2>2
    <3>2. A[i - 1] = A[t]
      BY <1>2, <3>1
    <3>3. AtInstant(rows, i) = {}
      BY <1>0, <2>2 DEF AtInstant
    <3>4. A[i] = After({}, A[i - 1])
      BY <3>3 DEF Accumulates
    <3>5. A[i - 1] \in SUBSET SumType
      BY <3>1 DEF Accumulates
    <3>6. QED
      BY <3>1, <3>2, <3>4, <3>5, AfterNothing
  <2>3. QED
    BY <1>0, <2>1, <2>2
<1> HIDE DEF Good
<1>3. Horizon \in Good
  BY <1>0, <1>1, <1>2, InductionUpTo
<1>4. QED
  BY <1>0, <1>3 DEF Good

\* A row can be the last one that is read if none has a later timestamp.
IsLast(e, rows) == e \in rows /\ \A d \in rows : d.time <= e.time
Lasts(rows) == {e \in rows : IsLast(e, rows)}

LEMMA SumsOfNothing == Sums({}) = {Start}
<1>1. IsTranscript({})
  BY FS_EmptySet DEF IsTranscript
<1>2. PICK A : Accumulates(A, {}) /\ Sums({}) = A[Horizon]
  BY <1>1, SumsAccumulate
<1>3. A[Horizon] = A[0]
  <2>1. 0 \in 0..Horizon
    BY TranscriptAssumption
  <2>2. QED
    BY <1>2, <2>1, AccumulationStops
<1>4. QED
  BY <1>2, <1>3 DEF Accumulates

LEMMA SumsUpToAnInstant ==
  ASSUME NEW rows, IsTranscript(rows), NEW t \in 1..Horizon, \A e \in rows : e.time <= t
  PROVE  \E A : /\ Accumulates(A, rows)
                /\ Sums(rows) = After(AtInstant(rows, t), A[t - 1])
<1>0. Horizon \in Nat /\ t \in 0..Horizon
  BY TranscriptAssumption
<1>1. PICK A : Accumulates(A, rows) /\ Sums(rows) = A[Horizon]
  BY SumsAccumulate
<1>2. \A e \in rows : e.time \in 0..t
  BY <1>0 DEF IsTranscript
<1>3. A[Horizon] = A[t]
  BY <1>0, <1>1, <1>2, AccumulationStops
<1>4. A[t] = After(AtInstant(rows, t), A[t - 1])
  BY <1>1 DEF Accumulates
<1>5. QED
  BY <1>1, <1>3, <1>4

LEMMA FewerRows ==
  ASSUME NEW rows, IsTranscript(rows), NEW e
  PROVE  IsTranscript(rows \ {e})
<1>1. IsFiniteSet(rows \ {e})
  BY FS_RemoveElement DEF IsTranscript
<1>2. QED
  BY <1>1 DEF IsTranscript

LEMMA SomeRowIsLast ==
  ASSUME NEW rows, IsTranscript(rows), rows # {}
  PROVE  Lasts(rows) # {}
<1>0. Horizon \in Nat
  BY TranscriptAssumption
<1> DEFINE times == {t \in 1..Horizon : \E e \in rows : e.time = t}
<1>1. times \in SUBSET (1..Horizon) /\ times # {}
  BY DEF IsTranscript
<1>2. Max(times) \in times /\ \A t \in times : t <= Max(times)
  <2> HIDE DEF times
  <2>1. QED
    BY <1>0, <1>1, MaxIsLast
<1>3. PICK e \in rows : e.time = Max(times)
  BY <1>2
<1>4. \A d \in rows : d.time \in times
  BY DEF IsTranscript
<1>5. QED
  BY <1>2, <1>3, <1>4 DEF Lasts, IsLast

\* The score of a transcript from those that have one row less: what every
\* other proof about the score rests on.
LEMMA SumsOneMore ==
  ASSUME NEW rows, IsTranscript(rows), rows # {}
  PROVE  \A y : y \in Sums(rows) <=>
                \E e \in Lasts(rows) : \E x \in Sums(rows \ {e}) : y = Assess(x, e)
<1>0. Horizon \in Nat
  BY TranscriptAssumption
<1>1. PICK last \in rows : \A d \in rows : d.time <= last.time
  BY SomeRowIsLast DEF Lasts, IsLast
<1> DEFINE t == last.time
           at == AtInstant(rows, t)
<1>2. t \in 1..Horizon
  BY DEF IsTranscript
<1>3. at = Lasts(rows) /\ last \in at
  BY <1>0, <1>1, <1>2 DEF AtInstant, Lasts, IsLast, IsTranscript
<1>4. PICK A : Accumulates(A, rows) /\ Sums(rows) = After(at, A[t - 1])
  BY <1>1, <1>2, SumsUpToAnInstant
<1> DEFINE sums == A[t - 1]
<1>5. sums \in SUBSET SumType
  <2>1. t - 1 \in 0..Horizon
    BY <1>0, <1>2
  <2>2. QED
    BY <1>4, <2>1 DEF Accumulates
<1>6. ASSUME NEW e \in at
      PROVE  Sums(rows \ {e}) = After(at \ {e}, sums)
  <2> DEFINE fewer == rows \ {e}
  <2>1. IsTranscript(fewer) /\ \A d \in fewer : d.time <= t
    BY <1>1, FewerRows
  <2>2. PICK B : Accumulates(B, fewer) /\ Sums(fewer) = After(AtInstant(fewer, t), B[t - 1])
    <3> HIDE DEF fewer, t
    <3>1. QED
      BY <1>2, <2>1, SumsUpToAnInstant
  <2>3. AtInstant(fewer, t) = at \ {e}
    BY DEF AtInstant
  <2>4. \A i \in 1..(t - 1) : AtInstant(rows, i) = AtInstant(fewer, i)
    BY <1>2, <1>6 DEF AtInstant
  <2>5. t - 1 \in 0..Horizon
    BY <1>0, <1>2
  <2>6. A[t - 1] = B[t - 1]
    <3> HIDE DEF fewer, t
    <3>1. QED
      BY <1>4, <2>2, <2>4, <2>5, AccumulationsAgree
  <2>7. QED
    BY <2>2, <2>3, <2>6
<1>7. IsFiniteSet(at) /\ at # {}
  BY <1>3, InstantsAreFinite
<1> HIDE DEF sums, at
<1>8. Sums(rows) = UNION {{Assess(x, e) : x \in After(at \ {e}, sums)} : e \in at}
  BY <1>4, <1>5, <1>7, AfterOneMore DEF sums
<1>9. \A y : y \in Sums(rows) <=>
               \E e \in at : \E x \in After(at \ {e}, sums) : y = Assess(x, e)
  BY <1>8
<1>10. QED
  BY <1>3, <1>6, <1>9

\* What holds of every transcript with one row less than a transcript,
\* whichever it is, and of the empty one, holds of all.
LEMMA InductionOnRows ==
  ASSUME NEW rows, IsTranscript(rows), NEW Good, {} \in Good,
         \A some \in SUBSET rows :
           some # {} /\ (\A e \in some : some \ {e} \in Good) => some \in Good
  PROVE  rows \in Good
<1> DEFINE Sizes == {n \in Nat : \A some \in SUBSET rows : Cardinality(some) = n => some \in Good}
<1>1. \A some \in SUBSET rows : IsFiniteSet(some) /\ Cardinality(some) \in Nat
  BY FS_Subset, FS_CardinalityType DEF IsTranscript
<1>2. 0 \in Sizes
  BY <1>1, FS_EmptySet
<1>3. ASSUME NEW n \in Nat, n \in Sizes
      PROVE  n + 1 \in Sizes
  <2> SUFFICES ASSUME NEW some \in SUBSET rows, Cardinality(some) = n + 1
               PROVE  some \in Good
    OBVIOUS
  <2>1. some # {}
    BY FS_EmptySet
  <2>2. ASSUME NEW e \in some
        PROVE  some \ {e} \in Good
    <3>1. Cardinality(some \ {e}) = n
      BY <1>1, FS_RemoveElement
    <3>2. QED
      BY <1>3, <3>1
  <2>3. QED
    BY <2>1, <2>2
<1> HIDE DEF Sizes
<1>4. Nat \subseteq Sizes
  BY <1>2, <1>3, InductionOnNat
<1>5. QED
  BY <1>1, <1>4 DEF Sizes

LEMMA SomeRows ==
  ASSUME NEW rows, IsTranscript(rows), NEW some \in SUBSET rows
  PROVE  IsTranscript(some)
  BY FS_Subset DEF IsTranscript

LEMMA SumsType ==
  ASSUME NEW rows, IsTranscript(rows)
  PROVE  Sums(rows) \subseteq SumType
<1> DEFINE Good == {some \in SUBSET rows : Sums(some) \subseteq SumType}
<1>1. {} \in Good
  BY SumsOfNothing, StartType
<1>2. ASSUME NEW some \in SUBSET rows, some # {}, \A e \in some : some \ {e} \in Good
      PROVE  some \in Good
  <2> SUFFICES ASSUME NEW y \in Sums(some)
               PROVE  y \in SumType
    OBVIOUS
  <2>1. PICK e \in Lasts(some) : \E x \in Sums(some \ {e}) : y = Assess(x, e)
    BY <1>2, SomeRows, SumsOneMore
  <2>2. PICK x \in Sums(some \ {e}) : y = Assess(x, e)
    BY <2>1
  <2>3. x \in SumType
    BY <1>2 DEF Lasts
  <2>4. QED
    BY <2>2, <2>3, AssessType
<1> HIDE DEF Good
<1>3. rows \in Good
  BY <1>1, <1>2, InductionOnRows
<1>4. QED
  BY <1>3 DEF Good

----------------------------------------------------------------------------
(* Two transcripts, one with some rows more.  R[k] relates a sum over the  *)
(* longer one to a sum over the shorter one when it has k rows more.       *)

SumPairs == SumType \X SumType

Keeps(R, new, old) ==
  /\ R \in [Nat -> SUBSET SumPairs]
  /\ <<Start, Start>> \in R[0]
  /\ \A k \in Nat : \A n, o \in SumType : <<n, o>> \in R[k] =>
       /\ \A e \in old : <<Assess(n, e), Assess(o, e)>> \in R[k]
       /\ \A e \in new \ old : <<Assess(n, e), o>> \in R[k + 1]

\* Whatever order the rows are read in, there is one for the other that is
\* related.
Matched(R, new, old) ==
  /\ \A n \in Sums(new) : \E o \in Sums(old) : <<n, o>> \in R[Cardinality(new \ old)]
  /\ \A o \in Sums(old) : \E n \in Sums(new) : <<n, o>> \in R[Cardinality(new \ old)]

\* The last row read is an old one: it is read last in both.
LEMMA OldRowIsLast ==
  ASSUME NEW R, NEW all, NEW before, Keeps(R, all, before),
         NEW new \in SUBSET all, NEW old, old = new \intersect before, IsTranscript(new),
         NEW e \in Lasts(new), e \in old, Matched(R, new \ {e}, old \ {e})
  PROVE  /\ \A x \in Sums(new \ {e}) : \E o \in Sums(old) :
               <<Assess(x, e), o>> \in R[Cardinality(new \ old)]
         /\ \A x \in Sums(old \ {e}) : \E n \in Sums(new) :
               <<n, Assess(x, e)>> \in R[Cardinality(new \ old)]
<1>1. (new \ {e}) \ (old \ {e}) = new \ old
  OBVIOUS
<1>2. IsTranscript(old) /\ e \in Lasts(old) /\ e \in before
  BY SomeRows DEF Lasts, IsLast
<1>3. \A x \in Sums(new \ {e}) : x \in SumType /\ Assess(x, e) \in Sums(new)
  BY SumsOneMore, SumsType, FewerRows
<1>4. \A x \in Sums(old \ {e}) : x \in SumType /\ Assess(x, e) \in Sums(old)
  BY <1>2, SumsOneMore, SumsType, FewerRows
<1>5. Cardinality(new \ old) \in Nat
  BY FS_Subset, FS_CardinalityType DEF IsTranscript
<1>6. QED
  BY <1>1, <1>2, <1>3, <1>4, <1>5 DEF Matched, Keeps

\* It is one of those that were added.
LEMMA AddedRowIsLast ==
  ASSUME NEW R, NEW all, NEW before, Keeps(R, all, before),
         NEW new \in SUBSET all, NEW old, old = new \intersect before, IsTranscript(new),
         NEW e \in Lasts(new), e \notin old, Matched(R, new \ {e}, old)
  PROVE  /\ \A x \in Sums(new \ {e}) : \E o \in Sums(old) :
               <<Assess(x, e), o>> \in R[Cardinality(new \ old)]
         /\ \A o \in Sums(old) : \E n \in Sums(new) :
               <<n, o>> \in R[Cardinality(new \ old)]
<1>1. (new \ {e}) \ old = (new \ old) \ {e} /\ e \in new \ old /\ e \in all \ before
  BY DEF Lasts, IsLast
<1> DEFINE k == Cardinality((new \ {e}) \ old)
<1>2. k \in Nat /\ Cardinality(new \ old) = k + 1
  <2> DEFINE added == new \ old
  <2>1. IsFiniteSet(added)
    BY FS_Subset DEF IsTranscript
  <2>2. k = Cardinality(added \ {e}) /\ e \in added
    BY <1>1
  <2> HIDE DEF k, added
  <2>3. Cardinality(added) \in Nat /\ k = Cardinality(added) - 1 /\ k \in Nat
    BY <2>1, <2>2, FS_RemoveElement, FS_CardinalityType
  <2>4. QED
    BY <2>3 DEF added
<1> HIDE DEF k
<1>3. \A x \in Sums(new \ {e}) : x \in SumType /\ Assess(x, e) \in Sums(new)
  <2>1. new # {}
    BY DEF Lasts
  <2>2. QED
    BY <2>1, SumsOneMore, SumsType, FewerRows
<1>4. IsTranscript(old)
  BY SomeRows
<1>5. \A o \in Sums(old) : o \in SumType
  BY <1>4, SumsType
<1>6. ASSUME NEW x \in Sums(new \ {e}), NEW o \in Sums(old), <<x, o>> \in R[k]
      PROVE  <<Assess(x, e), o>> \in R[k + 1]
  <2>1. x \in SumType /\ o \in SumType
    BY <1>3, <1>5
  <2>2. QED
    BY <1>1, <1>2, <1>6, <2>1 DEF Keeps
<1>7. /\ \A x \in Sums(new \ {e}) : \E o \in Sums(old) : <<x, o>> \in R[k]
      /\ \A o \in Sums(old) : \E x \in Sums(new \ {e}) : <<x, o>> \in R[k]
  BY DEF Matched, k
<1>8. QED
  BY <1>2, <1>3, <1>6, <1>7

LEMMA LastsAreShared ==
  ASSUME NEW new, IsTranscript(new), new # {}, NEW old \in SUBSET new, Lasts(new) \subseteq old
  PROVE  old # {} /\ Lasts(old) \subseteq Lasts(new)
<1>0. Horizon \in Nat
  BY TranscriptAssumption
<1>1. PICK e \in Lasts(new) : TRUE
  BY SomeRowIsLast
<1>2. e \in old /\ \A d \in new : d.time <= e.time
  BY DEF Lasts, IsLast
<1>3. \A d \in new : d.time \in Int
  BY <1>0 DEF IsTranscript
<1>4. \A f \in Lasts(old) : f \in new /\ e.time <= f.time
  BY <1>2 DEF Lasts, IsLast
<1>5. QED
  BY <1>2, <1>3, <1>4 DEF Lasts, IsLast

LEMMA SumsMatch ==
  ASSUME NEW R, NEW new, IsTranscript(new), NEW old \in SUBSET new, Keeps(R, new, old)
  PROVE  Matched(R, new, old)
<1> DEFINE Good == {some \in SUBSET new : Matched(R, some, some \intersect old)}
<1>1. {} \in Good
  <2>1. {} \ {} = {} /\ {} \intersect old = {} /\ Cardinality({}) = 0
    BY FS_EmptySet
  <2>2. QED
    BY <2>1, SumsOfNothing DEF Matched, Keeps
<1>2. ASSUME NEW some \in SUBSET new, some # {}, \A e \in some : some \ {e} \in Good
      PROVE  some \in Good
  <2> DEFINE kept == some \intersect old
             k == Cardinality(some \ kept)
  <2>1. IsTranscript(some) /\ IsTranscript(kept)
    BY SomeRows
  <2>2. ASSUME NEW e \in Lasts(some)
        PROVE  Matched(R, some \ {e}, (some \ {e}) \intersect old)
    BY <1>2 DEF Lasts
  <2>3. ASSUME NEW e \in Lasts(some), e \in old
        PROVE  /\ e \in kept
               /\ Matched(R, some \ {e}, kept \ {e})
    <3>1. (some \ {e}) \intersect old = kept \ {e} /\ e \in kept
      BY <2>3 DEF Lasts
    <3>2. QED
      BY <2>2, <3>1
  <2>4. ASSUME NEW e \in Lasts(some), e \notin old
        PROVE  /\ e \notin kept
               /\ Matched(R, some \ {e}, kept)
    <3>1. (some \ {e}) \intersect old = kept /\ e \notin kept
      BY <2>4
    <3>2. QED
      BY <2>2, <3>1
  <2> HIDE DEF kept
  <2>5. kept = some \intersect old
    BY DEF kept
  <2>6. ASSUME NEW y \in Sums(some)
        PROVE  \E o \in Sums(kept) : <<y, o>> \in R[k]
    <3>1. PICK e \in Lasts(some) : \E x \in Sums(some \ {e}) : y = Assess(x, e)
      BY <1>2, <2>1, SumsOneMore
    <3>2. PICK x \in Sums(some \ {e}) : y = Assess(x, e)
      BY <3>1
    <3>3. CASE e \in old
      BY <2>1, <2>3, <2>5, <3>2, <3>3, OldRowIsLast
    <3>4. CASE e \notin old
      BY <2>1, <2>4, <2>5, <3>2, <3>4, AddedRowIsLast
    <3>5. QED
      BY <3>3, <3>4
  <2>7. ASSUME NEW o \in Sums(kept)
        PROVE  \E n \in Sums(some) : <<n, o>> \in R[k]
    <3>1. CASE \E e \in Lasts(some) : e \notin old
      BY <2>1, <2>4, <2>5, <3>1, AddedRowIsLast
    <3>2. CASE Lasts(some) \subseteq old
      <4>1. kept # {} /\ Lasts(kept) \subseteq Lasts(some)
        <5>1. Lasts(some) \subseteq kept
          BY <3>2, <2>5 DEF Lasts
        <5>2. QED
          BY <1>2, <2>1, <2>5, <5>1, LastsAreShared
      <4>2. PICK e \in Lasts(kept) : \E x \in Sums(kept \ {e}) : o = Assess(x, e)
        BY <2>1, <4>1, SumsOneMore
      <4>3. PICK x \in Sums(kept \ {e}) : o = Assess(x, e)
        BY <4>2
      <4>4. e \in Lasts(some) /\ e \in old
        BY <3>2, <4>1
      <4>5. QED
        BY <2>1, <2>3, <2>5, <4>3, <4>4, OldRowIsLast
    <3>3. QED
      BY <3>1, <3>2
  <2>8. Matched(R, some, kept)
    BY <2>6, <2>7 DEF Matched
  <2>9. QED
    BY <2>8 DEF kept
<1> HIDE DEF Good
<1>3. new \in Good
  BY <1>1, <1>2, InductionOnRows
<1>4. new \intersect old = old
  OBVIOUS
<1>5. QED
  BY <1>3, <1>4 DEF Good

----------------------------------------------------------------------------
(* The rows that are stored.                                               *)

LEMMA RowType ==
  ASSUME NEW u \in Uploads, NEW n \in Nat, NEW e \in RowsOf(u, n)
  PROVE  /\ e \in EventRow
         /\ e.upload = u /\ e.copy = n /\ e.line \in DOMAIN EntriesOf[u]
         /\ e = Row(u, e.line, n)
<1>1. PICK i \in DOMAIN EntriesOf[u] : e = Row(u, i, n)
  BY DEF RowsOf
<1>2. EntriesOf[u] \in Seq(Entry) /\ i \in Nat
  BY TranscriptAssumption
<1> DEFINE entry == EntriesOf[u][i]
<1>3. entry \in Entry
  BY <1>2
<1> HIDE DEF entry
<1>4. entry.time \in 1..Horizon /\ entry.role \in {"user", "assistant", "tool", "system"}
  BY <1>3 DEF Entry
<1>5. classifyEventType(entry) \in
        {"tool_error", "tool_invocation", "reasoning", "response", "system", "user_input"}
  BY <1>4 DEF classifyEventType
<1>6. classifySeverity(entry) \in {"ERROR", "INFO"}
  BY DEF classifySeverity
<1>7. e = [upload |-> u, line |-> i, copy |-> n, time |-> entry.time, role |-> entry.role,
           eventType |-> classifyEventType(entry), severity |-> classifySeverity(entry)]
  BY <1>1 DEF Row, entry
<1>8. e \in EventRow
  BY <1>2, <1>4, <1>5, <1>6, <1>7 DEF EventRow
<1>9. e.upload = u /\ e.copy = n /\ e.line = i
  BY <1>7
<1>10. QED
  BY <1>1, <1>8, <1>9

LEMMA UploadsAreFinite ==
  ASSUME NEW u \in Uploads, NEW n \in Nat
  PROVE  /\ IsFiniteSet(RowsOf(u, n)) /\ Len(EntriesOf[u]) \in Nat
         /\ Cardinality(RowsOf(u, n)) <= Len(EntriesOf[u])
<1> DEFINE k == Len(EntriesOf[u])
           f == [i \in 1..k |-> Row(u, i, n)]
<1>1. EntriesOf[u] \in Seq(Entry)
  BY TranscriptAssumption
<1>2. k \in Nat /\ DOMAIN EntriesOf[u] = 1..k
  BY <1>1
<1> HIDE DEF k
<1>3. RowsOf(u, n) = {Row(u, i, n) : i \in 1..k}
  BY <1>2 DEF RowsOf
<1>4. f \in Surjection(1..k, RowsOf(u, n))
  BY <1>3 DEF Surjection
<1>5. ExistsSurjection(1..k, RowsOf(u, n))
  BY <1>4 DEF ExistsSurjection
<1>6. QED
  BY <1>2, <1>5, FS_NatSurjection, FS_SurjCardinalityBound DEF k

\* Types of the stored events and of how often each upload was received and
\* stored, whatever uploads arrive, fail and are sent again.
THEOREM TranscriptTypeCorrect == Spec => []TypeOK
<1>1. Init => TypeOK
  <2> SUFFICES ASSUME Init PROVE TypeOK
    OBVIOUS
  <2>1. \A u \in Uploads : MaxReceived[u] \in Nat
    BY TranscriptAssumption
  <2>2. QED
    BY <2>1 DEF Init, TypeOK
<1>2. TypeOK /\ [Next]_vars => TypeOK'
  <2> SUFFICES ASSUME TypeOK, [Next]_vars PROVE TypeOK'
    OBVIOUS
  <2>0. \A u \in Uploads : MaxReceived[u] \in Nat
    BY TranscriptAssumption
  <2>1. ASSUME NEW u \in Uploads, ingestTranscript(u) PROVE TypeOK'
    <3>1. stored[u] + 1 \in Nat
      BY DEF TypeOK
    <3>2. RowsOf(u, stored[u] + 1) \subseteq EventRow
      BY <3>1, RowType
    <3>3. QED
      BY <2>0, <2>1, <3>2 DEF TypeOK, ingestTranscript
  <2>2. ASSUME NEW u \in Uploads, FailIngest(u) PROVE TypeOK'
    BY <2>0, <2>2 DEF TypeOK, FailIngest
  <2>3. CASE UNCHANGED vars
    BY <2>3 DEF TypeOK, vars
  <2>4. QED
    BY <2>1, <2>2, <2>3 DEF Next
<1>3. QED
  BY <1>1, <1>2, PTL DEF Spec

\* What is stored are whole uploads, each as often as it was stored.
EventsAreUploads == \A e : e \in events <=>
  \E u \in Uploads : \E n \in 1..stored[u] : e \in RowsOf(u, n)

EventsInv == IsFiniteSet(events) /\ EventsAreUploads

LEMMA InitEventsInv == Init => EventsInv
<1> SUFFICES ASSUME Init PROVE EventsInv
  OBVIOUS
<1>1. IsFiniteSet(events)
  BY FS_EmptySet DEF Init
<1>2. \A u \in Uploads : 1..stored[u] = {}
  BY DEF Init
<1>3. EventsAreUploads
  BY <1>2 DEF Init, EventsAreUploads
<1>4. QED
  BY <1>1, <1>3 DEF EventsInv

LEMMA NextEventsInv ==
  ASSUME TypeOK, EventsInv, [Next]_vars
  PROVE  EventsInv'
<1>1. ASSUME NEW u \in Uploads, ingestTranscript(u) PROVE EventsInv'
  <2> DEFINE k == stored[u] + 1
             added == RowsOf(u, k)
  <2>1. k \in Nat /\ \A v \in Uploads : stored[v] \in Nat
    BY DEF TypeOK
  <2>2. events' = events \union added /\ stored' = [stored EXCEPT ![u] = k]
    BY <1>1 DEF ingestTranscript
  <2>3. IsFiniteSet(events')
    <3>1. IsFiniteSet(added) /\ IsFiniteSet(events)
      BY <2>1, UploadsAreFinite DEF EventsInv
    <3> HIDE DEF added
    <3>2. QED
      BY <2>2, <3>1, FS_Union
  <2>4. \A v \in Uploads : 1..stored'[v] = IF v = u THEN (1..stored[v]) \union {k} ELSE 1..stored[v]
    <3> HIDE DEF added
    <3>1. \A v \in Uploads : stored'[v] = IF v = u THEN stored[v] + 1 ELSE stored[v]
      BY <2>2 DEF TypeOK
    <3>2. \A m \in Nat : 1..(m + 1) = (1..m) \union {m + 1}
      OBVIOUS
    <3>3. QED
      BY <2>1, <3>1, <3>2
  <2> HIDE DEF k
  <2>5. EventsAreUploads'
    <3> SUFFICES ASSUME NEW e
                 PROVE  e \in events' <=>
                          \E v \in Uploads : \E n \in 1..stored'[v] : e \in RowsOf(v, n)
      BY DEF EventsAreUploads
    <3>1. e \in events <=> \E v \in Uploads : \E n \in 1..stored[v] : e \in RowsOf(v, n)
      BY DEF EventsInv, EventsAreUploads
    <3>2. e \in events' <=> e \in events \/ e \in RowsOf(u, k)
      BY <2>2
    <3>3. QED
      BY <2>4, <3>1, <3>2
  <2>6. QED
    BY <2>3, <2>5 DEF EventsInv
<1>2. CASE UNCHANGED <<events, stored>>
  BY <1>2 DEF EventsInv, EventsAreUploads
<1>3. QED
  BY <1>1, <1>2 DEF Next, FailIngest, vars

LEMMA EventsAlways == Spec => []EventsInv
  BY InitEventsInv, NextEventsInv, TranscriptTypeCorrect, PTL DEF Spec

\* The rows of a task are a transcript; reasoning is the assistant's, and
\* a row of the tool is either an error or an invocation.
RowsInv ==
  /\ \A t : IsTranscript(Rows(t))
  /\ \A e \in events : /\ IsReasoning(e) => e.role = "assistant"
                       /\ e.eventType = "tool_error" => e.severity = "ERROR"
                       /\ e.eventType = "tool_invocation" => e.severity # "ERROR"

LEMMA RowsAlways == Spec => []RowsInv
<1>1. TypeOK /\ EventsInv => RowsInv
  <2> SUFFICES ASSUME TypeOK, EventsInv PROVE RowsInv
    OBVIOUS
  <2>1. ASSUME NEW t
        PROVE  IsTranscript(Rows(t))
    <3>1. Rows(t) \in SUBSET events
      BY DEF Rows
    <3>2. \A e \in events : e.time \in 1..Horizon
      BY DEF TypeOK, EventRow
    <3>3. QED
      BY <3>1, <3>2, FS_Subset DEF EventsInv, IsTranscript
  <2>2. ASSUME NEW e \in events
        PROVE  /\ IsReasoning(e) => e.role = "assistant"
               /\ e.eventType = "tool_error" => e.severity = "ERROR"
               /\ e.eventType = "tool_invocation" => e.severity # "ERROR"
    <3>1. PICK u \in Uploads : \E n \in 1..stored[u] : e \in RowsOf(u, n)
      BY DEF EventsInv, EventsAreUploads
    <3>2. PICK n \in 1..stored[u] : e \in RowsOf(u, n)
      BY <3>1
    <3>3. PICK i \in DOMAIN EntriesOf[u] : e = Row(u, i, n)
      BY <3>2 DEF RowsOf
    <3>4. QED
      BY <3>3 DEF Row, IsReasoning, classifyEventType, classifySeverity
  <2>3. QED
    BY <2>1, <2>2 DEF RowsInv
<1>2. QED
  BY <1>1, TranscriptTypeCorrect, EventsAlways, PTL

LEMMA RowsOnlyGrow ==
  ASSUME [Next]_vars, NEW t
  PROVE  Rows(t) \subseteq Rows(t)'
<1>1. events \subseteq events'
  BY DEF Next, ingestTranscript, FailIngest, vars
<1>2. QED
  BY <1>1 DEF Rows

----------------------------------------------------------------------------
(* Reasoning never hurts.                                                  *)

NotBelow == [k \in Nat |->
  {p \in SumPairs : /\ p[1].score >= p[2].score
                    /\ p[2].lastWasReasoning => p[1].lastWasReasoning}]

LEMMA ReasoningKeepsAbove ==
  ASSUME NEW new, NEW old, \A e \in new \ old : IsReasoning(e),
         \A e \in new : e.eventType = "reasoning" => e.role = "assistant"
  PROVE  Keeps(NotBelow, new, old)
<1>1. NotBelow \in [Nat -> SUBSET SumPairs]
  BY DEF NotBelow
<1>2. <<Start, Start>> \in NotBelow[0]
  BY StartType DEF NotBelow, SumPairs, SumType
<1>3. ASSUME NEW k \in Nat, NEW n \in SumType, NEW o \in SumType, <<n, o>> \in NotBelow[k]
      PROVE  /\ \A e \in old : <<Assess(n, e), Assess(o, e)>> \in NotBelow[k]
             /\ \A e \in new \ old : <<Assess(n, e), o>> \in NotBelow[k + 1]
  <2>1. /\ n.score \in Int /\ o.score \in Int
        /\ n.lastWasReasoning \in BOOLEAN /\ o.lastWasReasoning \in BOOLEAN
        /\ n.score >= o.score
        /\ o.lastWasReasoning => n.lastWasReasoning
    BY <1>3 DEF NotBelow, SumType
  <2>2. ASSUME NEW e
        PROVE  /\ Points(e, n.lastWasReasoning) >= Points(e, o.lastWasReasoning)
               /\ Points(e, n.lastWasReasoning) \in Int /\ Points(e, o.lastWasReasoning) \in Int
    BY <2>1 DEF Points
  <2>3. ASSUME NEW e \in old
        PROVE  <<Assess(n, e), Assess(o, e)>> \in NotBelow[k]
    <3>1. <<Assess(n, e), Assess(o, e)>> \in SumPairs
      BY AssessType DEF SumPairs
    <3>2. QED
      BY <2>1, <2>2, <3>1 DEF NotBelow, Assess
  <2>4. ASSUME NEW e \in new \ old
        PROVE  <<Assess(n, e), o>> \in NotBelow[k + 1]
    <3>1. <<Assess(n, e), o>> \in SumPairs
      BY AssessType DEF SumPairs
    <3>2. e.role = "assistant" /\ e.eventType = "reasoning"
      BY DEF IsReasoning
    <3>3. Assess(n, e) = [score |-> n.score + 10, lastWasReasoning |-> TRUE]
      BY <3>2 DEF Assess, Points
    <3>4. QED
      BY <2>1, <3>1, <3>3 DEF NotBelow
  <2>5. QED
    BY <2>3, <2>4
<1>4. QED
  BY <1>1, <1>2, <1>3 DEF Keeps

LEMMA ClampMonotone ==
  ASSUME NEW m \in Int, NEW n \in Int, m >= n
  PROVE  Clamp(m) >= Clamp(n)
  BY DEF Clamp

LEMMA AboveStaysAbove ==
  ASSUME NEW new, IsTranscript(new), NEW old \in SUBSET new, Keeps(NotBelow, new, old)
  PROVE  NoneBelow(computeTransparencyScore(new), computeTransparencyScore(old))
<1>1. Matched(NotBelow, new, old)
  BY SumsMatch
<1>2. Cardinality(new \ old) \in Nat
  BY FS_Subset, FS_CardinalityType DEF IsTranscript
<1>3. \A n \in Sums(new), o \in Sums(old) :
        <<n, o>> \in NotBelow[Cardinality(new \ old)] => Clamp(n.score) >= Clamp(o.score)
  <2> TAKE n \in Sums(new), o \in Sums(old)
  <2>1. n \in SumType /\ o \in SumType
    BY SumsType, SomeRows
  <2>2. QED
    BY <1>2, <2>1, ClampMonotone DEF NotBelow, SumType
<1>4. QED
  BY <1>1, <1>3 DEF Matched, NoneBelow, computeTransparencyScore

\* Storing reasoning entries never lowers a score that can be computed, for
\* any transcripts, whose rows may share instants, and any order of the
\* uploads.
THEOREM ReasoningIsNeverCounted == Spec => ReasoningNeverHurts
<1> DEFINE Step == \A t \in Tasks :
             (\A e \in Rows(t)' \ Rows(t) : IsReasoning(e)) =>
               NoneBelow(computeTransparencyScore(Rows(t)'), computeTransparencyScore(Rows(t)))
<1>1. TypeOK /\ RowsInv /\ RowsInv' /\ [Next]_vars => Step
  <2> SUFFICES ASSUME TypeOK, RowsInv, RowsInv', [Next]_vars, NEW t \in Tasks,
                      \A e \in Rows(t)' \ Rows(t) : IsReasoning(e)
               PROVE  NoneBelow(computeTransparencyScore(Rows(t)'),
                                computeTransparencyScore(Rows(t)))
    OBVIOUS
  <2>1. IsTranscript(Rows(t)') /\ Rows(t) \in SUBSET (Rows(t)')
    BY RowsOnlyGrow DEF RowsInv
  <2>2. \A e \in Rows(t)' : e.eventType = "reasoning" => e.role = "assistant"
    BY DEF RowsInv, Rows, IsReasoning
  <2>3. Keeps(NotBelow, Rows(t)', Rows(t))
    BY <2>2, ReasoningKeepsAbove
  <2>4. QED
    BY <2>1, <2>3, AboveStaysAbove
<1> HIDE DEF Step
<1>2. Spec => [][Step]_events
  BY <1>1, TranscriptTypeCorrect, RowsAlways, PTL DEF Spec
<1>3. QED
  BY <1>2 DEF Step, ReasoningNeverHurts

----------------------------------------------------------------------------
(* An upload moves the score by no more than its lines can.                *)

\* What k rows make of a sum: a difference of scores, which has still to
\* leave room for what the one that has just read a reasoning step earns
\* by the next invocation.
Near == [k \in Nat |->
  {p \in SumPairs :
     /\ p[1].score - p[2].score \in -(30 * k)..(30 * k)
     /\ p[1].lastWasReasoning /\ ~p[2].lastWasReasoning =>
          p[1].score - p[2].score <= 30 * k - 20
     /\ ~p[1].lastWasReasoning /\ p[2].lastWasReasoning =>
          p[1].score - p[2].score >= 20 - 30 * k}]

LEMMA CommonRowKeepsNear ==
  ASSUME NEW k \in Nat, NEW n \in SumType, NEW o \in SumType, <<n, o>> \in Near[k], NEW e
  PROVE  <<Assess(n, e), Assess(o, e)>> \in Near[k]
<1> DEFINE b == 30 * k
<1>1. b \in Int
  OBVIOUS
<1>2. /\ n.score \in Int /\ o.score \in Int
      /\ n.lastWasReasoning \in BOOLEAN /\ o.lastWasReasoning \in BOOLEAN
      /\ n.score - o.score \in -b..b
      /\ n.lastWasReasoning /\ ~o.lastWasReasoning => n.score - o.score <= b - 20
      /\ ~n.lastWasReasoning /\ o.lastWasReasoning => n.score - o.score >= 20 - b
  BY DEF Near, SumType
<1> HIDE DEF b
<1> DEFINE pn == Points(e, n.lastWasReasoning)
           po == Points(e, o.lastWasReasoning)
           after == e.role = "assistant" /\ e.eventType = "reasoning"
<1>3. /\ pn \in Int /\ po \in Int
      /\ pn = po \/ (n.lastWasReasoning /\ ~o.lastWasReasoning /\ pn = po + 20)
                 \/ (~n.lastWasReasoning /\ o.lastWasReasoning /\ pn = po - 20)
  BY <1>2 DEF Points
<1> HIDE DEF pn, po
<1>4. (n.score + pn) - (o.score + po) \in -b..b
  BY <1>1, <1>2, <1>3
<1>5. /\ Assess(n, e) = [score |-> n.score + pn, lastWasReasoning |-> after]
      /\ Assess(o, e) = [score |-> o.score + po, lastWasReasoning |-> after]
  BY DEF Assess, pn, po
<1>6. <<Assess(n, e), Assess(o, e)>> \in SumPairs
  BY AssessType DEF SumPairs
<1> HIDE DEF after
<1>7. QED
  BY <1>4, <1>5, <1>6 DEF Near, b

LEMMA AddedRowKeepsNear ==
  ASSUME NEW k \in Nat, NEW n \in SumType, NEW o \in SumType, <<n, o>> \in Near[k], NEW e
  PROVE  <<Assess(n, e), o>> \in Near[k + 1]
<1> DEFINE b == 30 * k
<1>1. b \in Int /\ 30 * (k + 1) = b + 30
  OBVIOUS
<1>2. /\ n.score \in Int /\ o.score \in Int
      /\ n.lastWasReasoning \in BOOLEAN /\ o.lastWasReasoning \in BOOLEAN
      /\ n.score - o.score \in -b..b
      /\ n.lastWasReasoning /\ ~o.lastWasReasoning => n.score - o.score <= b - 20
      /\ ~n.lastWasReasoning /\ o.lastWasReasoning => n.score - o.score >= 20 - b
  BY DEF Near, SumType
<1> HIDE DEF b
<1> DEFINE pn == Points(e, n.lastWasReasoning)
           after == e.role = "assistant" /\ e.eventType = "reasoning"
<1>3. /\ pn \in Int
      /\ after => pn = 10
      /\ ~after => pn \in {5, 0, -10} \/ (~n.lastWasReasoning /\ pn = -15)
  BY <1>2 DEF Points
<1>4. after \in BOOLEAN
  OBVIOUS
<1>5. Assess(n, e) = [score |-> n.score + pn, lastWasReasoning |-> after]
  BY DEF Assess
<1>6. <<Assess(n, e), o>> \in SumPairs
  BY AssessType DEF SumPairs
<1> HIDE DEF after, pn
<1> DEFINE d == n.score + pn - o.score
<1>7. /\ d \in -(b + 30)..(b + 30)
      /\ after /\ ~o.lastWasReasoning => d <= b + 30 - 20
      /\ ~after /\ o.lastWasReasoning => d >= 20 - (b + 30)
  BY <1>1, <1>2, <1>3, <1>4
<1>8. /\ Assess(n, e).score - o.score = d
      /\ Assess(n, e).lastWasReasoning = after
  BY <1>2, <1>3, <1>5
<1> HIDE DEF d
<1>9. k + 1 \in Nat
  OBVIOUS
<1>10. QED
  BY <1>1, <1>6, <1>7, <1>8, <1>9 DEF Near

LEMMA RowsKeepNear == ASSUME NEW new, NEW old PROVE Keeps(Near, new, old)
<1>1. Near \in [Nat -> SUBSET SumPairs]
  BY DEF Near
<1>2. <<Start, Start>> \in Near[0]
  BY StartType DEF Near, SumPairs, SumType
<1>3. QED
  BY <1>1, <1>2, CommonRowKeepsNear, AddedRowKeepsNear DEF Keeps

\* Cutting off at both ends brings scores together.
LEMMA ClampIsShort ==
  ASSUME NEW m \in Int, NEW n \in Int, NEW b \in Nat, m - n \in -b..b
  PROVE  Clamp(m) - Clamp(n) \in -b..b
  BY DEF Clamp

LEMMA NearStaysNear ==
  ASSUME NEW new, IsTranscript(new), NEW old \in SUBSET new, NEW k \in Nat,
         Cardinality(new \ old) <= k
  PROVE  \A n \in computeTransparencyScore(new) : \E o \in computeTransparencyScore(old) :
           n - o \in -(30 * k)..(30 * k)
<1> DEFINE j == Cardinality(new \ old)
<1>1. j \in Nat
  BY FS_Subset, FS_CardinalityType DEF IsTranscript
<1>2. Matched(Near, new, old)
  BY SumsMatch, RowsKeepNear
<1>3. ASSUME NEW n \in Sums(new), NEW o \in Sums(old), <<n, o>> \in Near[j]
      PROVE  Clamp(n.score) - Clamp(o.score) \in -(30 * k)..(30 * k)
  <2>1. n \in SumType /\ o \in SumType
    BY SumsType, SomeRows
  <2>2. n.score - o.score \in -(30 * j)..(30 * j)
    BY <1>1, <1>3 DEF Near
  <2> HIDE DEF j
  <2>3. n.score \in Int /\ o.score \in Int
    BY <2>1 DEF SumType
  <2>4. n.score - o.score \in -(30 * k)..(30 * k) /\ 30 * k \in Nat
    BY <1>1, <2>2, <2>3 DEF j
  <2>5. QED
    BY <2>3, <2>4, ClampIsShort
<1> HIDE DEF j
<1>4. \A n \in Sums(new) : \E o \in Sums(old) : <<n, o>> \in Near[j]
  BY <1>2 DEF Matched, j
<1>5. QED
  BY <1>3, <1>4 DEF computeTransparencyScore

LEMMA IngestAddsAnUpload ==
  ASSUME TypeOK, [Next]_vars, NEW u \in Uploads, stored'[u] # stored[u]
  PROVE  /\ IsFiniteSet(Rows(TaskOf[u])' \ Rows(TaskOf[u]))
         /\ Cardinality(Rows(TaskOf[u])' \ Rows(TaskOf[u])) <= Len(EntriesOf[u])
<1>1. ingestTranscript(u)
  BY DEF Next, vars, ingestTranscript, FailIngest, TypeOK
<1> DEFINE added == RowsOf(u, stored[u] + 1)
           new == Rows(TaskOf[u])' \ Rows(TaskOf[u])
<1>2. stored[u] + 1 \in Nat
  BY DEF TypeOK
<1>3. IsFiniteSet(added) /\ Cardinality(added) <= Len(EntriesOf[u]) /\ Len(EntriesOf[u]) \in Nat
  BY <1>2, UploadsAreFinite
<1>4. new \in SUBSET added
  BY <1>1 DEF Rows, ingestTranscript
<1> HIDE DEF new, added
<1>5. IsFiniteSet(new) /\ Cardinality(new) <= Cardinality(added)
  BY <1>3, <1>4, FS_Subset
<1>6. Cardinality(new) \in Nat /\ Cardinality(added) \in Nat
  BY <1>3, <1>5, FS_CardinalityType
<1>7. QED
  BY <1>3, <1>5, <1>6 DEF new

\* Storing an upload moves the score by no more than its own entries can,
\* however their lines fall between those of others and whatever ties in
\* time the database resolves.
THEOREM UploadsHaveTheirLeverage == Spec => UploadsMoveTheScoreLittle
<1> DEFINE Step == \A u \in Uploads : stored'[u] # stored[u] =>
             \A n \in computeTransparencyScore(Rows(TaskOf[u])') :
               \E o \in computeTransparencyScore(Rows(TaskOf[u])) :
                 n - o \in -(Leverage * Len(EntriesOf[u]))..Leverage * Len(EntriesOf[u])
<1>1. TypeOK /\ RowsInv /\ RowsInv' /\ [Next]_vars => Step
  <2> SUFFICES ASSUME TypeOK, RowsInv, RowsInv', [Next]_vars,
                      NEW u \in Uploads, stored'[u] # stored[u]
               PROVE  \A n \in computeTransparencyScore(Rows(TaskOf[u])') :
                        \E o \in computeTransparencyScore(Rows(TaskOf[u])) :
                          n - o \in -(30 * Len(EntriesOf[u]))..30 * Len(EntriesOf[u])
    BY DEF Leverage
  <2>1. IsTranscript(Rows(TaskOf[u])') /\ Rows(TaskOf[u]) \in SUBSET (Rows(TaskOf[u])')
    BY RowsOnlyGrow DEF RowsInv
  <2>2. Cardinality(Rows(TaskOf[u])' \ Rows(TaskOf[u])) <= Len(EntriesOf[u])
    BY IngestAddsAnUpload
  <2>3. Len(EntriesOf[u]) \in Nat
    BY TranscriptAssumption
  <2>4. QED
    BY <2>1, <2>2, <2>3, NearStaysNear
<1> HIDE DEF Step
<1>2. Spec => [][Step]_vars
  BY <1>1, TranscriptTypeCorrect, RowsAlways, PTL DEF Spec
<1>3. QED
  BY <1>2 DEF Step, UploadsMoveTheScoreLittle

----------------------------------------------------------------------------
(* Transcripts whose rows have instants of their own: the loop counts.     *)

Reasoning(rows) == {e \in rows : IsReasoning(e)}
Prompted(rows) == {e \in Invocations(rows) : IsExplained(e, rows)}
Unprompted(rows) == Invocations(rows) \ Prompted(rows)
Slips(rows) == {e \in rows : e.severity = "ERROR"} \ Reasoning(rows)

Counted(rows) ==
  Base + 10 * Cardinality(Reasoning(rows)) + 5 * Cardinality(Prompted(rows))
    - 15 * Cardinality(Unprompted(rows)) - 10 * Cardinality(Slips(rows))

LEMMA ScoreIsCounted == \A rows : CountedScore(rows) = Clamp(Counted(rows))
  BY DEF CountedScore, Counted, Reasoning, Prompted, Unprompted, Invocations, Slips

WellClassified(rows) == \A e \in rows :
  /\ IsReasoning(e) => e.role = "assistant"
  /\ e.eventType = "tool_invocation" => e.severity # "ERROR"

EndsInReasoning(rows) == \E e \in Lasts(rows) : IsReasoning(e)

\* The row read last is later than the others.
LEMMA LastIsLater ==
  ASSUME NEW rows, IsTranscript(rows), DistinctTimes(rows), NEW e \in Lasts(rows)
  PROVE  /\ e \in rows /\ Lasts(rows) = {e}
         /\ e.time \in Int
         /\ \A d \in rows \ {e} : d.time \in Int /\ d.time < e.time
<1>0. Horizon \in Nat
  BY TranscriptAssumption
<1>1. e \in rows /\ \A d \in rows : d.time <= e.time /\ d.time \in Int
  BY <1>0 DEF Lasts, IsLast, IsTranscript
<1>2. \A d \in rows : d.time = e.time => d = e
  BY <1>1 DEF DistinctTimes
<1>3. \A d \in rows \ {e} : d.time < e.time
  BY <1>1, <1>2
<1>4. \A d \in Lasts(rows) : d = e
  BY <1>1, <1>3 DEF Lasts, IsLast
<1>5. QED
  BY <1>1, <1>3, <1>4

LEMMA ExplanationsOneMore ==
  ASSUME NEW rows, IsTranscript(rows), DistinctTimes(rows), NEW e \in Lasts(rows)
  PROVE  /\ \A c \in rows \ {e} : IsExplained(c, rows) <=> IsExplained(c, rows \ {e})
         /\ IsExplained(e, rows) <=> EndsInReasoning(rows \ {e})
<1> DEFINE fewer == rows \ {e}
<1>1. /\ e \in rows /\ e.time \in Int
      /\ \A d \in fewer : d.time \in Int /\ d.time < e.time
  BY LastIsLater
<1>2. \A c \in fewer : IsExplained(c, rows) <=> IsExplained(c, fewer)
  <2> SUFFICES ASSUME NEW c \in fewer
               PROVE  IsExplained(c, rows) <=> IsExplained(c, fewer)
    OBVIOUS
  <2>1. \A d \in rows : d.time < c.time => d \in fewer
    BY <1>1
  <2>2. QED
    BY <2>1 DEF IsExplained
<1>3. IsExplained(e, rows) <=> EndsInReasoning(fewer)
  <2>1. ~(e.time < e.time)
    BY <1>1
  <2>2. ASSUME NEW d \in fewer
        PROVE  (~\E f \in rows : d.time < f.time /\ f.time < e.time) <=> d \in Lasts(fewer)
    <3>1. (~\E f \in rows : d.time < f.time /\ f.time < e.time) <=>
            \A f \in fewer : ~(d.time < f.time)
      BY <1>1, <2>1
    <3>2. \A f \in fewer : ~(d.time < f.time) <=> f.time <= d.time
      BY <1>1
    <3>3. QED
      BY <3>1, <3>2 DEF Lasts, IsLast
  <2>3. \A d \in rows : d.time < e.time <=> d \in fewer
    BY <1>1, <2>1
  <2>4. \A d \in Lasts(fewer) : d \in fewer
    BY DEF Lasts
  <2> HIDE DEF fewer
  <2>5. IsExplained(e, rows) <=>
          \E d \in fewer : IsReasoning(d) /\ ~\E f \in rows : d.time < f.time /\ f.time < e.time
    BY <2>3, <1>1 DEF IsExplained, fewer
  <2>6. QED
    BY <2>2, <2>4, <2>5 DEF EndsInReasoning
<1>4. QED
  BY <1>2, <1>3

LEMMA OneMore ==
  ASSUME NEW S, IsFiniteSet(S), NEW e, e \notin S
  PROVE  Cardinality(S) \in Nat /\ Cardinality(S \union {e}) = Cardinality(S) + 1
  BY FS_AddElement, FS_CardinalityType

LEMMA CountedOneMore ==
  ASSUME NEW rows, IsTranscript(rows), DistinctTimes(rows), WellClassified(rows),
         NEW e \in Lasts(rows)
  PROVE  /\ Counted(rows \ {e}) \in Int
         /\ Counted(rows) = Counted(rows \ {e}) + Points(e, EndsInReasoning(rows \ {e}))
<1> DEFINE fewer == rows \ {e}
<1>1. e \in rows /\ e \notin fewer /\ rows = fewer \union {e}
  BY DEF Lasts
<1>2. /\ \A c \in fewer : IsExplained(c, rows) <=> IsExplained(c, fewer)
      /\ IsExplained(e, rows) <=> EndsInReasoning(fewer)
  BY ExplanationsOneMore
<1>3. /\ IsReasoning(e) => e.role = "assistant"
      /\ e.eventType = "tool_invocation" => e.severity # "ERROR"
  BY <1>1 DEF WellClassified
<1>4. IsFiniteSet(fewer)
  BY FewerRows DEF IsTranscript
<1> HIDE DEF fewer
<1>5. /\ IsFiniteSet(Reasoning(fewer)) /\ e \notin Reasoning(fewer)
      /\ IsFiniteSet(Prompted(fewer)) /\ e \notin Prompted(fewer)
      /\ IsFiniteSet(Unprompted(fewer)) /\ e \notin Unprompted(fewer)
      /\ IsFiniteSet(Slips(fewer)) /\ e \notin Slips(fewer)
  <2>1. /\ Reasoning(fewer) \in SUBSET fewer /\ Prompted(fewer) \in SUBSET fewer
        /\ Unprompted(fewer) \in SUBSET fewer /\ Slips(fewer) \in SUBSET fewer
    BY DEF Reasoning, Prompted, Unprompted, Invocations, Slips
  <2>2. QED
    BY <1>1, <1>4, <2>1, FS_Subset
<1>6. Reasoning(rows) = IF IsReasoning(e) THEN Reasoning(fewer) \union {e} ELSE Reasoning(fewer)
  BY <1>1 DEF Reasoning
<1>7. Prompted(rows) = IF e.eventType = "tool_invocation" /\ EndsInReasoning(fewer)
                        THEN Prompted(fewer) \union {e} ELSE Prompted(fewer)
  BY <1>1, <1>2 DEF Prompted, Invocations
<1>8. Unprompted(rows) = IF e.eventType = "tool_invocation" /\ ~EndsInReasoning(fewer)
                          THEN Unprompted(fewer) \union {e} ELSE Unprompted(fewer)
  BY <1>1, <1>2 DEF Unprompted, Prompted, Invocations
<1>9. Slips(rows) = IF e.severity = "ERROR" /\ ~IsReasoning(e)
                     THEN Slips(fewer) \union {e} ELSE Slips(fewer)
  BY <1>1 DEF Slips, Reasoning
<1> DEFINE r == Cardinality(Reasoning(fewer))
           x == Cardinality(Prompted(fewer))
           n == Cardinality(Unprompted(fewer))
           w == Cardinality(Slips(fewer))
<1>10. r \in Nat /\ x \in Nat /\ n \in Nat /\ w \in Nat
  BY <1>5, FS_CardinalityType
<1>11. /\ Cardinality(Reasoning(rows)) = IF IsReasoning(e) THEN r + 1 ELSE r
       /\ Cardinality(Prompted(rows)) =
            IF e.eventType = "tool_invocation" /\ EndsInReasoning(fewer) THEN x + 1 ELSE x
       /\ Cardinality(Unprompted(rows)) =
            IF e.eventType = "tool_invocation" /\ ~EndsInReasoning(fewer) THEN n + 1 ELSE n
       /\ Cardinality(Slips(rows)) = IF e.severity = "ERROR" /\ ~IsReasoning(e) THEN w + 1 ELSE w
  BY <1>5, <1>6, <1>7, <1>8, <1>9, OneMore
<1>12. Counted(fewer) = Base + 10 * r + 5 * x - 15 * n - 10 * w
  BY DEF Counted
<1> HIDE DEF r, x, n, w
<1>13. Counted(rows) = Counted(fewer) + Points(e, EndsInReasoning(fewer))
  BY <1>3, <1>10, <1>11, <1>12 DEF Counted, Points, IsReasoning, Base
<1>14. Counted(fewer) \in Int
  BY <1>10, <1>12 DEF Base
<1>15. QED
  BY <1>13, <1>14 DEF fewer

LEMMA NothingCounted == Counted({}) = Base /\ ~EndsInReasoning({})
<1>1. Reasoning({}) = {} /\ Prompted({}) = {} /\ Unprompted({}) = {} /\ Slips({}) = {}
  BY DEF Reasoning, Prompted, Unprompted, Invocations, Slips
<1>2. Cardinality({}) = 0
  BY FS_EmptySet
<1>3. /\ Cardinality(Reasoning({})) = 0 /\ Cardinality(Prompted({})) = 0
      /\ Cardinality(Unprompted({})) = 0 /\ Cardinality(Slips({})) = 0
  BY <1>1, <1>2
<1>4. Counted({}) = Base
  BY <1>3 DEF Counted, Base
<1>5. ~EndsInReasoning({})
  BY DEF EndsInReasoning, Lasts
<1>6. QED
  BY <1>4, <1>5

LEMMA SumsAreCounted ==
  ASSUME NEW rows, IsTranscript(rows), DistinctTimes(rows), WellClassified(rows)
  PROVE  Sums(rows) = {[score |-> Counted(rows), lastWasReasoning |-> EndsInReasoning(rows)]}
<1> DEFINE Sum(some) == [score |-> Counted(some), lastWasReasoning |-> EndsInReasoning(some)]
           Good == {some \in SUBSET rows : Sums(some) = {Sum(some)}}
<1>1. {} \in Good
  <2>1. EndsInReasoning({}) = FALSE
    BY NothingCounted DEF EndsInReasoning
  <2>2. QED
    BY <2>1, NothingCounted, SumsOfNothing DEF Start
<1>2. ASSUME NEW some \in SUBSET rows, some # {}, \A e \in some : some \ {e} \in Good
      PROVE  some \in Good
  <2>1. IsTranscript(some) /\ DistinctTimes(some) /\ WellClassified(some)
    BY SomeRows DEF DistinctTimes, WellClassified
  <2>2. PICK e \in Lasts(some) : TRUE
    BY <1>2, <2>1, SomeRowIsLast
  <2>3. e \in some /\ Lasts(some) = {e}
    BY <2>1, LastIsLater
  <2>4. Sums(some \ {e}) = {Sum(some \ {e})}
    BY <1>2, <2>3
  <2>5. \A y : y \in Sums(some) <=> y = Assess(Sum(some \ {e}), e)
    <3> HIDE DEF Sum
    <3>1. QED
      BY <1>2, <2>1, <2>3, <2>4, SumsOneMore
  <2>6. Counted(some) = Counted(some \ {e}) + Points(e, EndsInReasoning(some \ {e}))
    BY <2>1, CountedOneMore
  <2>7. EndsInReasoning(some) = (e.role = "assistant" /\ e.eventType = "reasoning")
    <3>1. IsReasoning(e) => e.role = "assistant"
      BY <2>1, <2>3 DEF WellClassified
    <3>2. QED
      BY <2>3, <3>1 DEF EndsInReasoning, IsReasoning
  <2>8. Assess(Sum(some \ {e}), e) = Sum(some)
    BY <2>6, <2>7 DEF Assess
  <2>9. QED
    BY <2>5, <2>8
<1> HIDE DEF Good
<1>3. rows \in Good
  BY <1>1, <1>2, InductionOnRows
<1>4. QED
  BY <1>3 DEF Good

\* When no two rows of a task share an instant, the score is the one of the
\* transcript in its own order, for any transcripts and in whatever order
\* the uploads arrived.
THEOREM ScoresFollowTranscripts == Spec => []ScoreFollowsTheTranscript
<1>1. RowsInv => ScoreFollowsTheTranscript
  <2> SUFFICES ASSUME RowsInv, NEW t \in Tasks, DistinctTimes(Rows(t))
               PROVE  computeTransparencyScore(Rows(t)) = {CountedScore(Rows(t))}
    BY DEF ScoreFollowsTheTranscript
  <2>1. IsTranscript(Rows(t)) /\ WellClassified(Rows(t))
    BY DEF RowsInv, WellClassified, Rows
  <2>2. Sums(Rows(t)) =
          {[score |-> Counted(Rows(t)), lastWasReasoning |-> EndsInReasoning(Rows(t))]}
    BY <2>1, SumsAreCounted
  <2>3. QED
    BY <2>2, ScoreIsCounted DEF computeTransparencyScore
<1>2. QED
  BY <1>1, RowsAlways, PTL

----------------------------------------------------------------------------
(* What an upload explains.  The score is followed row by row from below:  *)
(* every reasoning step raises it, every invocation costs the most it may, *)
(* except once for each line that is not disturbed, when it is read first. *)

LineOf(e) == <<e.upload, e.line>>
LinesOf(S) == {LineOf(e) : e \in S}

Calm(rows) == {e \in Invocations(rows) : Undisturbed(e, rows)}
Earned(some, rows) == LinesOf(Calm(rows)) \intersect LinesOf(some)

Floor(some, rows) ==
  Base + 10 * Cardinality(Reasoning(some)) - 15 * Cardinality(Invocations(some))
    - 10 * Cardinality(Errors(some)) + 20 * Cardinality(Earned(some, rows))

\* What has been read when "some" have.
Closed(some, rows) == \A d \in some, f \in rows : f.time < d.time => f \in some

\* The rows are those of whole uploads, some of them more than once.
Whole(rows) ==
  /\ IsTranscript(rows) /\ WellClassified(rows)
  /\ \A e \in rows :
       /\ e \in Own(e) /\ Own(e) \subseteq rows
       /\ \A d \in Own(e) : d.upload = e.upload /\ d.copy = e.copy
       /\ \A f \in rows : f.upload = e.upload =>
            \E d \in Own(e) : d.line = f.line /\ d.time = f.time /\ d.eventType = f.eventType
  /\ \A d, e \in rows :
       /\ LineOf(d) = LineOf(e) => d.time = e.time /\ d.eventType = e.eventType
       /\ LineOf(d) = LineOf(e) /\ d.copy = e.copy => d = e
  /\ \A e \in rows : e.copy \in Nat \ {0}

LEMMA ImageIsFinite ==
  ASSUME NEW S, IsFiniteSet(S)
  PROVE  IsFiniteSet(LinesOf(S))
<1> DEFINE f == [e \in S |-> LineOf(e)]
<1>1. f \in Surjection(S, LinesOf(S))
  BY DEF Surjection, LinesOf
<1>2. QED
  BY <1>1, FS_Surjection

LEMMA PartsAreFinite ==
  ASSUME NEW rows, IsTranscript(rows), NEW some \in SUBSET rows
  PROVE  /\ IsFiniteSet(Reasoning(some)) /\ IsFiniteSet(Invocations(some))
         /\ IsFiniteSet(Errors(some)) /\ IsFiniteSet(Earned(some, rows))
         /\ Cardinality(Reasoning(some)) \in Nat /\ Cardinality(Invocations(some)) \in Nat
         /\ Cardinality(Errors(some)) \in Nat /\ Cardinality(Earned(some, rows)) \in Nat
<1>1. IsFiniteSet(some)
  BY FS_Subset DEF IsTranscript
<1>2. Reasoning(some) \in SUBSET some /\ Invocations(some) \in SUBSET some /\ Errors(some) \in SUBSET some
  BY DEF Reasoning, Invocations, Errors
<1>3. IsFiniteSet(LinesOf(some)) /\ Earned(some, rows) \in SUBSET LinesOf(some)
  BY <1>1, ImageIsFinite DEF Earned
<1>4. /\ IsFiniteSet(Reasoning(some)) /\ IsFiniteSet(Invocations(some))
      /\ IsFiniteSet(Errors(some)) /\ IsFiniteSet(Earned(some, rows))
  BY <1>1, <1>2, <1>3, FS_Subset
<1>5. QED
  BY <1>4, FS_CardinalityType

\* The flag after the last row was read, if those it can be are reasoning.
LEMMA FlagAfterReasoning ==
  ASSUME NEW some, IsTranscript(some), WellClassified(some), some # {},
         \A e \in Lasts(some) : IsReasoning(e), NEW x \in Sums(some)
  PROVE  x.lastWasReasoning
<1>1. PICK e \in Lasts(some) : \E w \in Sums(some \ {e}) : x = Assess(w, e)
  BY SumsOneMore
<1>2. PICK w \in Sums(some \ {e}) : x = Assess(w, e)
  BY <1>1
<1>3. IsReasoning(e) /\ e.role = "assistant"
  BY DEF WellClassified, Lasts
<1>4. QED
  BY <1>2, <1>3 DEF Assess, IsReasoning

LEMMA WholeTimes ==
  ASSUME NEW rows, Whole(rows)
  PROVE  \A d \in rows : d.time \in Int
<1>1. Horizon \in Nat
  BY TranscriptAssumption
<1>2. \A d \in rows : d.time \in 1..Horizon
  BY DEF Whole, IsTranscript
<1>3. QED
  BY <1>1, <1>2

\* When a line that is not disturbed is read first, its reasoning was last.
LEMMA FirstIsPrompted ==
  ASSUME NEW rows, Whole(rows), NEW some \in SUBSET rows, Closed(some, rows), NEW e \in Lasts(some),
         LineOf(e) \in LinesOf(Calm(rows)), LineOf(e) \notin LinesOf(some \ {e}),
         NEW x \in Sums(some \ {e})
  PROVE  x.lastWasReasoning
<1> DEFINE fewer == some \ {e}
<1>1. /\ e \in some /\ e \in rows /\ \A d \in some : d.time <= e.time
      /\ \A d \in rows : d.time \in Int
  BY WholeTimes DEF Lasts, IsLast
<1>2. PICK c \in Calm(rows) : LineOf(c) = LineOf(e)
  BY DEF LinesOf
<1>3. c \in rows /\ c.upload = e.upload /\ c.line = e.line /\ c.time = e.time
  BY <1>1, <1>2 DEF Calm, Invocations, Whole, LineOf
<1>4. PICK d \in Own(c) : Answers(d, c, Own(c) \union Others(c, rows))
  BY <1>2 DEF Calm, Undisturbed
<1>5. d \in rows /\ d.time < e.time
  BY <1>3, <1>4 DEF Answers, Whole
<1>6. d \in fewer
  BY <1>1, <1>5 DEF Closed
<1>7. ASSUME NEW l \in Lasts(fewer) PROVE IsReasoning(l)
  <2>1. l \in fewer /\ l \in rows /\ d.time <= l.time /\ l.time <= c.time
    BY <1>1, <1>3, <1>6 DEF Lasts, IsLast
  <2>2. CASE l.upload # e.upload
    <3>1. l \in Others(c, rows) /\ l # c
      BY <1>3, <2>1, <2>2 DEF Others
    <3>2. QED
      BY <1>4, <2>1, <3>1 DEF Answers
  <2>3. CASE l.upload = e.upload
    <3>1. PICK g \in Own(c) : g.line = l.line /\ g.time = l.time /\ g.eventType = l.eventType
      BY <1>3, <2>1, <2>3 DEF Whole
    <3>2. g # c
      BY <1>3, <2>1, <2>3, <3>1 DEF LinesOf, LineOf
    <3>3. IsReasoning(g)
      BY <1>4, <2>1, <3>1, <3>2 DEF Answers
    <3>4. QED
      BY <3>1, <3>3 DEF IsReasoning
  <2>4. QED
    BY <2>2, <2>3
<1>8. IsTranscript(fewer) /\ WellClassified(fewer)
  BY SomeRows DEF Whole, WellClassified
<1>9. QED
  BY <1>6, <1>7, <1>8, FlagAfterReasoning

LEMMA OneRowMore ==
  ASSUME NEW rows, Whole(rows), NEW some \in SUBSET rows, NEW e \in some
  PROVE  /\ Cardinality(Reasoning(some)) =
              Cardinality(Reasoning(some \ {e})) + (IF IsReasoning(e) THEN 1 ELSE 0)
         /\ Cardinality(Invocations(some)) =
              Cardinality(Invocations(some \ {e})) + (IF e.eventType = "tool_invocation" THEN 1 ELSE 0)
         /\ Cardinality(Errors(some)) =
              Cardinality(Errors(some \ {e})) + (IF e.severity = "ERROR" THEN 1 ELSE 0)
         /\ Cardinality(Earned(some, rows)) =
              Cardinality(Earned(some \ {e}, rows))
                + (IF LineOf(e) \in LinesOf(Calm(rows)) \ LinesOf(some \ {e}) THEN 1 ELSE 0)
<1> DEFINE fewer == some \ {e}
<1>1. fewer \in SUBSET rows /\ IsTranscript(rows) /\ e \notin fewer /\ some = fewer \union {e}
  BY DEF Whole
<1> HIDE DEF fewer
<1>2. /\ IsFiniteSet(Reasoning(fewer)) /\ IsFiniteSet(Invocations(fewer))
      /\ IsFiniteSet(Errors(fewer)) /\ IsFiniteSet(Earned(fewer, rows))
      /\ Cardinality(Reasoning(fewer)) \in Nat /\ Cardinality(Invocations(fewer)) \in Nat
      /\ Cardinality(Errors(fewer)) \in Nat /\ Cardinality(Earned(fewer, rows)) \in Nat
  BY <1>1, PartsAreFinite
<1>3. /\ e \notin Reasoning(fewer) /\ e \notin Invocations(fewer) /\ e \notin Errors(fewer)
      /\ Reasoning(some) = IF IsReasoning(e) THEN Reasoning(fewer) \union {e} ELSE Reasoning(fewer)
      /\ Invocations(some) = IF e.eventType = "tool_invocation" THEN Invocations(fewer) \union {e}
                             ELSE Invocations(fewer)
      /\ Errors(some) = IF e.severity = "ERROR" THEN Errors(fewer) \union {e} ELSE Errors(fewer)
  BY <1>1 DEF Reasoning, Invocations, Errors
<1>4. LinesOf(some) = LinesOf(fewer) \union {LineOf(e)}
  BY <1>1 DEF LinesOf
<1>5. Earned(some, rows) = IF LineOf(e) \in LinesOf(Calm(rows)) \ LinesOf(fewer)
                           THEN Earned(fewer, rows) \union {LineOf(e)} ELSE Earned(fewer, rows)
  BY <1>4 DEF Earned
<1>6. LineOf(e) \notin LinesOf(fewer) => LineOf(e) \notin Earned(fewer, rows)
  BY DEF Earned
<1>7. Cardinality(Reasoning(some)) =
        Cardinality(Reasoning(fewer)) + (IF IsReasoning(e) THEN 1 ELSE 0)
  BY <1>2, <1>3, OneMore
<1>8. Cardinality(Invocations(some)) =
        Cardinality(Invocations(fewer)) + (IF e.eventType = "tool_invocation" THEN 1 ELSE 0)
  BY <1>2, <1>3, OneMore
<1>9. Cardinality(Errors(some)) =
        Cardinality(Errors(fewer)) + (IF e.severity = "ERROR" THEN 1 ELSE 0)
  BY <1>2, <1>3, OneMore
<1>10. Cardinality(Earned(some, rows)) =
         Cardinality(Earned(fewer, rows))
           + (IF LineOf(e) \in LinesOf(Calm(rows)) \ LinesOf(fewer) THEN 1 ELSE 0)
  BY <1>2, <1>5, <1>6, OneMore
<1>11. QED
  BY <1>7, <1>8, <1>9, <1>10 DEF fewer

\* Only arithmetic: what a row is worth and what it adds to the floor.
LEMMA FloorOneMore ==
  ASSUME NEW e, NEW x \in SumType, NEW first \in BOOLEAN,
         IsReasoning(e) => e.role = "assistant",
         e.eventType = "tool_invocation" => e.severity # "ERROR",
         first => e.eventType = "tool_invocation" /\ x.lastWasReasoning
  PROVE  Points(e, x.lastWasReasoning) >=
           10 * (IF IsReasoning(e) THEN 1 ELSE 0) - 15 * (IF e.eventType = "tool_invocation" THEN 1 ELSE 0)
             - 10 * (IF e.severity = "ERROR" THEN 1 ELSE 0) + 20 * (IF first THEN 1 ELSE 0)
<1>1. CASE IsReasoning(e)
  <2>1. Points(e, x.lastWasReasoning) = 10 /\ ~first /\ e.eventType # "tool_invocation"
    BY <1>1 DEF Points, IsReasoning
  <2>2. QED
    BY <1>1, <2>1
<1>2. CASE e.eventType = "tool_invocation"
  <2>1. /\ Points(e, x.lastWasReasoning) = (IF x.lastWasReasoning THEN 5 ELSE -15)
        /\ ~IsReasoning(e) /\ e.severity # "ERROR"
    BY <1>2 DEF Points, IsReasoning
  <2>2. QED
    BY <1>2, <2>1
<1>3. CASE ~IsReasoning(e) /\ e.eventType # "tool_invocation"
  <2>1. Points(e, x.lastWasReasoning) = (IF e.severity = "ERROR" THEN -10 ELSE 0) /\ ~first
    BY <1>3 DEF Points, IsReasoning
  <2>2. QED
    BY <1>3, <2>1
<1>4. QED
  BY <1>1, <1>2, <1>3

LEMMA SumsStayAboveTheFloor ==
  ASSUME NEW rows, Whole(rows)
  PROVE  \A sum \in Sums(rows) : sum.score >= Floor(rows, rows)
<1> DEFINE Good == {some \in SUBSET rows :
             Closed(some, rows) => \A sum \in Sums(some) : sum.score >= Floor(some, rows)}
<1>0. IsTranscript(rows) /\ \A d \in rows : d.time \in Int
  BY WholeTimes DEF Whole
<1>1. {} \in Good
  <2>1. Start.score = Base
    BY DEF Start
  <2>2. Reasoning({}) = {} /\ Invocations({}) = {} /\ Errors({}) = {} /\ Earned({}, rows) = {}
    BY DEF Reasoning, Invocations, Errors, Earned, LinesOf
  <2>3. Floor({}, rows) = Base
    BY <2>2, FS_EmptySet DEF Floor, Base
  <2>4. QED
    BY <2>1, <2>3, SumsOfNothing DEF Base
<1>2. ASSUME NEW some \in SUBSET rows, some # {}, \A e \in some : some \ {e} \in Good
      PROVE  some \in Good
  <2> SUFFICES ASSUME Closed(some, rows), NEW y \in Sums(some)
               PROVE  y.score >= Floor(some, rows)
    OBVIOUS
  <2>1. IsTranscript(some)
    BY <1>0, SomeRows
  <2>2. PICK e \in Lasts(some) : \E x \in Sums(some \ {e}) : y = Assess(x, e)
    BY <1>2, <2>1, SumsOneMore
  <2>3. PICK x \in Sums(some \ {e}) : y = Assess(x, e)
    BY <2>2
  <2>4. e \in some /\ e \in rows /\ \A d \in some : d.time <= e.time
    BY DEF Lasts, IsLast
  <2>5. Closed(some \ {e}, rows)
    BY <1>0, <2>4 DEF Closed
  <2>6. x.score >= Floor(some \ {e}, rows)
    BY <1>2, <2>4, <2>5
  <2>7. x \in SumType
    BY <2>1, FewerRows, SumsType
  <2> HIDE DEF Good
  <2> DEFINE first == LineOf(e) \in LinesOf(Calm(rows)) \ LinesOf(some \ {e})
  <2>8. first => e.eventType = "tool_invocation" /\ x.lastWasReasoning
    <3>1. first => x.lastWasReasoning
      BY FirstIsPrompted
    <3>2. \A c \in Calm(rows) : c \in rows /\ c.eventType = "tool_invocation"
      BY DEF Calm, Invocations
    <3>3. first => e.eventType = "tool_invocation"
      <4> SUFFICES ASSUME first PROVE e.eventType = "tool_invocation"
        OBVIOUS
      <4>1. PICK c \in Calm(rows) : LineOf(c) = LineOf(e)
        BY DEF LinesOf
      <4>2. c.upload = e.upload /\ c.line = e.line
        BY <4>1 DEF LineOf
      <4>3. c.eventType = e.eventType
        BY <2>4, <3>2, <4>1, <4>2 DEF Whole
      <4>4. QED
        BY <3>2, <4>1, <4>3
    <3>4. QED
      BY <3>1, <3>3
  <2>9. /\ IsReasoning(e) => e.role = "assistant"
        /\ e.eventType = "tool_invocation" => e.severity # "ERROR"
    BY <2>4 DEF Whole, WellClassified
  <2> DEFINE r == Cardinality(Reasoning(some \ {e}))
             n == Cardinality(Invocations(some \ {e}))
             w == Cardinality(Errors(some \ {e}))
             g == Cardinality(Earned(some \ {e}, rows))
             dr == IF IsReasoning(e) THEN 1 ELSE 0
             dn == IF e.eventType = "tool_invocation" THEN 1 ELSE 0
             dw == IF e.severity = "ERROR" THEN 1 ELSE 0
             dg == IF first THEN 1 ELSE 0
             p == Points(e, x.lastWasReasoning)
  <2>10. /\ Cardinality(Reasoning(some)) = r + dr /\ Cardinality(Invocations(some)) = n + dn
         /\ Cardinality(Errors(some)) = w + dw /\ Cardinality(Earned(some, rows)) = g + dg
    BY <2>4, OneRowMore
  <2>11. p >= 10 * dr - 15 * dn - 10 * dw + 20 * dg
    <3>1. first \in BOOLEAN
      OBVIOUS
    <3> HIDE DEF first
    <3>2. QED
      BY <2>7, <2>8, <2>9, <3>1, FloorOneMore
  <2>12. y.score = x.score + p /\ x.score \in Int /\ p \in Int
    BY <2>3, <2>7, PointsType DEF Assess, SumType
  <2>13. r \in Nat /\ n \in Nat /\ w \in Nat /\ g \in Nat
    BY <1>0, PartsAreFinite
  <2>14. dr \in Nat /\ dn \in Nat /\ dw \in Nat /\ dg \in Nat
    OBVIOUS
  <2>15. Floor(some \ {e}, rows) = Base + 10 * r - 15 * n - 10 * w + 20 * g
    BY DEF Floor
  <2> HIDE DEF r, n, w, g, dr, dn, dw, dg, p
  <2>16. Floor(some, rows) = Base + 10 * (r + dr) - 15 * (n + dn) - 10 * (w + dw) + 20 * (g + dg)
    BY <2>10 DEF Floor
  <2>17. QED
    BY <2>6, <2>11, <2>12, <2>13, <2>14, <2>15, <2>16 DEF Base
<1> HIDE DEF Good
<1>3. rows \in Good
  BY <1>0, <1>1, <1>2, InductionOnRows
<1>4. Closed(rows, rows)
  BY DEF Closed
<1>5. QED
  BY <1>3, <1>4 DEF Good

\* Every invocation that its upload explains has a reasoning step of its own.
LEMMA ReasoningPerInvocation ==
  ASSUME NEW rows, Whole(rows)
  PROVE  Cardinality(Invocations(rows) \ Unexplained(rows)) <= Cardinality(Reasoning(rows))
<1> DEFINE A == Invocations(rows) \ Unexplained(rows)
           f == [e \in A |-> CHOOSE d \in Own(e) : Answers(d, e, Own(e))]
<1>1. \A e \in A : f[e] \in Own(e) /\ Answers(f[e], e, Own(e))
  BY DEF Unexplained, Explained
<1>2. \A e \in A : e \in rows /\ e.eventType = "tool_invocation" /\ ~IsReasoning(e)
  BY DEF Invocations, IsReasoning
<1> HIDE DEF f
<1>3. \A d \in rows : d.time \in Int
  BY WholeTimes
<1>4. \A e \in A : f[e] \in Reasoning(rows)
  BY <1>1, <1>2 DEF Answers, Reasoning, Whole
<1>5. ASSUME NEW a \in A, NEW b \in A, f[a] = f[b], a.time <= b.time
      PROVE  a = b
  <2>1. a.upload = b.upload /\ a.copy = b.copy
    <3>1. \A d \in Own(a) : d.upload = a.upload /\ d.copy = a.copy
      BY <1>2 DEF Whole
    <3>2. \A d \in Own(b) : d.upload = b.upload /\ d.copy = b.copy
      BY <1>2 DEF Whole
    <3>3. f[a] \in Own(a) /\ f[a] \in Own(b)
      BY <1>1, <1>5
    <3>4. QED
      BY <3>1, <3>2, <3>3
  <2>2. Own(a) = Own(b) /\ a \in Own(b)
    BY <1>2, <2>1 DEF Own, Whole
  <2>3. f[b].time < a.time /\ f[b] \in rows
    BY <1>1, <1>2, <1>5 DEF Answers, Whole
  <2>4. f[b].time <= a.time
    BY <1>2, <1>3, <2>3
  <2>5. a # b => IsReasoning(a)
    BY <1>1, <1>5, <2>2, <2>4 DEF Answers
  <2>6. QED
    BY <1>2, <2>5
<1>6. ASSUME NEW a \in A, NEW b \in A, f[a] = f[b]
      PROVE  a = b
  <2>1. a.time <= b.time \/ b.time <= a.time
    BY <1>2, <1>3
  <2>2. QED
    BY <1>5, <1>6, <2>1
<1>7. f \in Injection(A, Reasoning(rows))
  <2>1. f \in [A -> Reasoning(rows)]
    BY <1>4 DEF f
  <2> HIDE DEF A
  <2>2. QED
    BY <1>6, <2>1 DEF Injection, IsInjective
<1>8. IsFiniteSet(Reasoning(rows))
  BY PartsAreFinite DEF Whole
<1> HIDE DEF A
<1>9. QED
  BY <1>7, <1>8, FS_Injection DEF A

\* Those that are not strained are up to four copies of an earning line.
LEMMA FourCopiesAreEarned ==
  ASSUME NEW rows, Whole(rows)
  PROVE  Cardinality((Invocations(rows) \ Unexplained(rows)) \ Strained(rows))
           <= 4 * Cardinality(Earned(rows, rows))
<1> DEFINE A == (Invocations(rows) \ Unexplained(rows)) \ Strained(rows)
           B == Earned(rows, rows) \X (1..4)
           f == [e \in A |-> <<LineOf(e), e.copy>>]
<1>1. ASSUME NEW e \in A
      PROVE  e \in rows /\ LineOf(e) \in Earned(rows, rows) /\ e.copy \in 1..4
  <2>1. /\ e \in Invocations(rows) /\ e \in rows
        /\ ~(e.copy > 4) /\ Undisturbed(e, rows)
    BY DEF Unexplained, Strained, Invocations
  <2>2. e.copy \in Nat \ {0}
    BY <2>1 DEF Whole
  <2>3. e.copy \in 1..4
    BY <2>1, <2>2
  <2>4. LineOf(e) \in Earned(rows, rows)
    BY <2>1 DEF Earned, LinesOf, Calm
  <2>5. QED
    BY <2>1, <2>3, <2>4
<1>2. f \in [A -> B]
  BY <1>1
<1>3. \A d, e \in A : f[d] = f[e] => d = e
  BY <1>1 DEF Whole
<1>4. f \in Injection(A, B)
  <2> HIDE DEF A, B, f
  <2>1. QED
    BY <1>2, <1>3 DEF Injection, IsInjective
<1>5. IsFiniteSet(Earned(rows, rows)) /\ Cardinality(Earned(rows, rows)) \in Nat
  BY PartsAreFinite DEF Whole
<1>6. IsFiniteSet(1..4) /\ Cardinality(1..4) = 4
  <2> DEFINE one == 1
             four == 4
  <2>0. one \in Int /\ four \in Int
    OBVIOUS
  <2> HIDE DEF one, four
  <2>1. IsFiniteSet(one..four) /\ Cardinality(one..four) = IF one > four THEN 0 ELSE four - one + 1
    BY <2>0, FS_Interval
  <2>2. QED
    BY <2>1 DEF one, four
<1>7. IsFiniteSet(B) /\ Cardinality(B) = Cardinality(Earned(rows, rows)) * 4
  BY <1>5, <1>6, FS_Product
<1> HIDE DEF A, B, f
<1>8. Cardinality(A) <= Cardinality(B)
  BY <1>4, <1>7, FS_Injection
<1>9. QED
  BY <1>5, <1>7, <1>8 DEF A

\* The invocations fall into the three kinds.
LEMMA KindsOfInvocations ==
  ASSUME NEW rows, IsTranscript(rows)
  PROVE  LET explained == Invocations(rows) \ Unexplained(rows) IN
         /\ Cardinality(Unexplained(rows)) \in Nat /\ Cardinality(Strained(rows)) \in Nat
         /\ Cardinality(explained) \in Nat /\ Cardinality(explained \ Strained(rows)) \in Nat
         /\ Cardinality(Invocations(rows)) = Cardinality(Unexplained(rows)) + Cardinality(explained)
         /\ Cardinality(explained) = Cardinality(Strained(rows)) + Cardinality(explained \ Strained(rows))
<1> DEFINE N == Invocations(rows)
           U == Unexplained(rows)
           X == N \ U
           S == Strained(rows)
<1>1. U \in SUBSET N /\ S \in SUBSET X /\ X \in SUBSET N
  BY DEF Unexplained, Strained
<1>2. IsFiniteSet(N)
  BY PartsAreFinite
<1> HIDE DEF N, U, S
<1>3. IsFiniteSet(U) /\ IsFiniteSet(X) /\ IsFiniteSet(S)
  BY <1>1, <1>2, FS_Subset
<1>4. N \intersect U = U /\ X \intersect S = S
  BY <1>1
<1>5. /\ IsFiniteSet(X \ S) /\ Cardinality(X) = Cardinality(N) - Cardinality(U)
      /\ Cardinality(X \ S) = Cardinality(X) - Cardinality(S)
  <2>1. Cardinality(X) = Cardinality(N) - Cardinality(U)
    BY <1>2, <1>4, FS_Difference
  <2>2. IsFiniteSet(X \ S) /\ Cardinality(X \ S) = Cardinality(X) - Cardinality(S)
    <3> HIDE DEF X
    <3>1. QED
      BY <1>3, <1>4, FS_Difference
  <2>3. QED
    BY <2>1, <2>2
<1>6. /\ Cardinality(N) \in Nat /\ Cardinality(U) \in Nat /\ Cardinality(X) \in Nat
      /\ Cardinality(S) \in Nat /\ Cardinality(X \ S) \in Nat
  BY <1>2, <1>3, <1>5, FS_CardinalityType
<1>7. Cardinality(N) = Cardinality(U) + Cardinality(X) /\ Cardinality(X) = Cardinality(S) + Cardinality(X \ S)
  BY <1>5, <1>6
<1>8. QED
  BY <1>6, <1>7 DEF N, U, S

LEMMA StoredRow ==
  ASSUME TypeOK, EventsInv, NEW t, NEW e \in Rows(t)
  PROVE  /\ e.upload \in Uploads /\ TaskOf[e.upload] = t
         /\ e.line \in DOMAIN EntriesOf[e.upload]
         /\ e.copy \in 1..stored[e.upload] /\ stored[e.upload] \in Nat
         /\ e = Row(e.upload, e.line, e.copy)
<1>1. e \in events /\ TaskOf[e.upload] = t
  BY DEF Rows
<1>2. PICK u \in Uploads : \E n \in 1..stored[u] : e \in RowsOf(u, n)
  BY <1>1 DEF EventsInv, EventsAreUploads
<1>3. PICK n \in 1..stored[u] : e \in RowsOf(u, n)
  BY <1>2
<1>4. n \in Nat /\ stored[u] \in Nat
  BY DEF TypeOK
<1>5. /\ e.upload = u /\ e.copy = n /\ e.line \in DOMAIN EntriesOf[u]
      /\ e = Row(u, e.line, n)
  BY <1>3, <1>4, RowType
<1>6. QED
  BY <1>1, <1>4, <1>5

LEMMA CopyIsStored ==
  ASSUME TypeOK, EventsInv, NEW t, NEW u \in Uploads, TaskOf[u] = t,
         NEW i \in DOMAIN EntriesOf[u], NEW n \in 1..stored[u]
  PROVE  /\ Row(u, i, n) \in Rows(t)
         /\ Row(u, i, n).upload = u /\ Row(u, i, n).line = i /\ Row(u, i, n).copy = n
<1>1. Row(u, i, n) \in RowsOf(u, n)
  BY DEF RowsOf
<1>2. Row(u, i, n) \in events
  BY <1>1 DEF EventsInv, EventsAreUploads
<1>3. Row(u, i, n).upload = u /\ Row(u, i, n).line = i /\ Row(u, i, n).copy = n
  BY DEF Row
<1>4. QED
  BY <1>2, <1>3 DEF Rows

\* The rows of a task are those of whole uploads.
LEMMA RowsAreWhole ==
  ASSUME TypeOK, EventsInv, RowsInv, NEW t
  PROVE  Whole(Rows(t))
<1> DEFINE rows == Rows(t)
<1>1. IsTranscript(rows) /\ WellClassified(rows)
  BY DEF RowsInv, WellClassified, Rows
<1>2. ASSUME NEW e \in rows
      PROVE  /\ e.upload \in Uploads /\ TaskOf[e.upload] = t
             /\ e.line \in DOMAIN EntriesOf[e.upload]
             /\ e.copy \in 1..stored[e.upload] /\ stored[e.upload] \in Nat
             /\ e = Row(e.upload, e.line, e.copy)
  BY StoredRow
<1>3. ASSUME NEW e \in rows
      PROVE  /\ e \in Own(e) /\ Own(e) \subseteq rows /\ e.copy \in Nat \ {0}
             /\ \A d \in Own(e) : d.upload = e.upload /\ d.copy = e.copy
  <2>1. e \in Own(e)
    BY <1>2 DEF Own, RowsOf
  <2>2. \A d \in Own(e) : \E i \in DOMAIN EntriesOf[e.upload] : d = Row(e.upload, i, e.copy)
    BY DEF Own, RowsOf
  <2>3. \A d \in Own(e) : d.upload = e.upload /\ d.copy = e.copy
    BY <2>2 DEF Row
  <2>4. Own(e) \subseteq rows
    BY <1>2, <2>2, CopyIsStored
  <2>5. e.copy \in Nat \ {0}
    BY <1>2
  <2>6. QED
    BY <2>1, <2>3, <2>4, <2>5
<1>4. ASSUME NEW e \in rows, NEW f \in rows, f.upload = e.upload
      PROVE  \E d \in Own(e) : d.line = f.line /\ d.time = f.time /\ d.eventType = f.eventType
  <2>1. f = Row(e.upload, f.line, f.copy) /\ f.line \in DOMAIN EntriesOf[e.upload]
    BY <1>2, <1>4
  <2> DEFINE d == Row(e.upload, f.line, e.copy)
  <2>2. d \in Own(e)
    BY <2>1 DEF Own, RowsOf
  <2>3. /\ d.time = Row(e.upload, f.line, f.copy).time /\ d.line = f.line
        /\ d.eventType = Row(e.upload, f.line, f.copy).eventType
    BY DEF Row
  <2> HIDE DEF d
  <2>4. QED
    BY <2>1, <2>2, <2>3
<1>5. ASSUME NEW d \in rows, NEW e \in rows, LineOf(d) = LineOf(e)
      PROVE  /\ d.time = e.time /\ d.eventType = e.eventType
             /\ d.copy = e.copy => d = e
  <2>1. d = Row(e.upload, e.line, d.copy) /\ e = Row(e.upload, e.line, e.copy)
    BY <1>2, <1>5 DEF LineOf
  <2>2. /\ Row(e.upload, e.line, d.copy).time = Row(e.upload, e.line, e.copy).time
        /\ Row(e.upload, e.line, d.copy).eventType = Row(e.upload, e.line, e.copy).eventType
    BY DEF Row
  <2>3. QED
    BY <2>1, <2>2
<1> HIDE DEF rows
<1>6. QED
  BY <1>1, <1>3, <1>4, <1>5 DEF Whole, rows

\* What a score can have lost, for any uploads of any number of sessions,
\* stored any number of times: 15 for an invocation that its upload leaves
\* unexplained, 10 for an error, and 5 for an explained invocation that is
\* stored a fifth time or more or that another upload separates from its
\* reasoning.
THEOREM ExplanationsAreCredited == Spec => []ExplainedCallsAreSpared
<1>1. TypeOK /\ EventsInv /\ RowsInv => ExplainedCallsAreSpared
  <2> SUFFICES ASSUME TypeOK, EventsInv, RowsInv, NEW t \in Tasks,
                      NEW s \in computeTransparencyScore(Rows(t))
               PROVE  s >= Base - 15 * Cardinality(Unexplained(Rows(t)))
                             - 10 * Cardinality(Errors(Rows(t))) - 5 * Cardinality(Strained(Rows(t)))
    BY DEF ExplainedCallsAreSpared
  <2> DEFINE rows == Rows(t)
             r == Cardinality(Reasoning(rows))
             n == Cardinality(Invocations(rows))
             w == Cardinality(Errors(rows))
             g == Cardinality(Earned(rows, rows))
             u == Cardinality(Unexplained(rows))
             x == Cardinality(Invocations(rows) \ Unexplained(rows))
             k == Cardinality(Strained(rows))
             c == Cardinality((Invocations(rows) \ Unexplained(rows)) \ Strained(rows))
  <2>1. Whole(rows) /\ IsTranscript(rows)
    BY RowsAreWhole DEF Whole
  <2>2. PICK sum \in Sums(rows) : s = Clamp(sum.score)
    BY DEF computeTransparencyScore
  <2> HIDE DEF rows
  <2>3. sum.score \in Int /\ sum.score >= Base + 10 * r - 15 * n - 10 * w + 20 * g
    BY <2>1, SumsType, SumsStayAboveTheFloor DEF Floor, SumType
  <2>4. r \in Nat /\ n \in Nat /\ w \in Nat /\ g \in Nat
    BY <2>1, PartsAreFinite
  <2>5. u \in Nat /\ x \in Nat /\ k \in Nat /\ c \in Nat /\ n = u + x /\ x = k + c
    BY <2>1, KindsOfInvocations
  <2>6. x <= r /\ c <= 4 * g
    BY <2>1, ReasoningPerInvocation, FourCopiesAreEarned
  <2> HIDE DEF r, n, w, g, u, x, k, c
  <2>7. sum.score >= Base - 15 * u - 10 * w - 5 * k
    BY <2>3, <2>4, <2>5, <2>6 DEF Base
  <2>8. s >= Base - 15 * u - 10 * w - 5 * k
    BY <2>2, <2>3, <2>4, <2>5, <2>7 DEF Clamp, Base
  <2>9. QED
    BY <2>8 DEF u, w, k, rows
<1>2. QED
  BY <1>1, TranscriptTypeCorrect, EventsAlways, RowsAlways, PTL

============================================================================
