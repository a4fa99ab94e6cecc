----------------------------- MODULE LogsProofs -----------------------------
(***************************************************************************)
(* tail_lines, for every file, number of lines, byte limit and chunk size. *)
(***************************************************************************)
EXTENDS ScheduleProofs, FiniteSetTheorems, SequenceTheorems

-----------------------------------------------------------------------------
(* Sets of numbers.                                                        *)

\* A nonempty bounded set of numbers has a greatest element, which Max names.
LEMMA Greatest ==
    ASSUME NEW n \in Nat, NEW T, \A y \in T : y \in 0..n, T # {}
    PROVE  Max(T) \in T /\ \A y \in T : y <= Max(T)
<1> DEFINE U == {x \in 0..n : n - x \in T}
<1>1. U \in SUBSET Nat /\ U # {}
  <2>1. PICK t \in T : TRUE
    OBVIOUS
  <2>2. n - t \in 0..n /\ n - (n - t) = t
    BY <2>1
  <2> QED
    BY <2>1, <2>2
<1>2. PICK x \in U : \A y \in U : x <= y
  BY <1>1, Least
<1>3. n - x \in T
  BY <1>2
<1>4. ASSUME NEW y \in T PROVE n - x >= y
  <2>1. n - y \in 0..n /\ n - (n - y) = y
    BY <1>4
  <2>2. x <= n - y
    BY <1>2, <2>1
  <2> QED
    BY <1>2, <2>2
<1>5. \E z \in T : \A y \in T : z >= y
  BY <1>3, <1>4
<1>6. Max(T) \in T /\ \A y \in T : Max(T) >= y
  BY <1>5 DEF Max
<1> QED
  BY <1>6

\* Max is the only one.
LEMMA MaxIs ==
    ASSUME NEW n \in Nat, NEW T, \A y \in T : y \in 0..n, NEW x \in T, \A y \in T : y <= x
    PROVE  Max(T) = x
<1>1. Max(T) \in T /\ x <= Max(T)
  BY Greatest
<1> QED
  BY <1>1

-----------------------------------------------------------------------------
(* Ranks: how many members of a set are at most a number.                  *)

\* A bounded set of numbers is finite.
LEMMA BoundedFinite ==
    ASSUME NEW n \in Nat, NEW S, \A d \in S : d \in 1..n
    PROVE  IsFiniteSet(S) /\ Cardinality(S) \in Nat
<1>1. IsFiniteSet(1..n)
  BY FS_Interval
<1>2. S \in SUBSET (1..n)
  OBVIOUS
<1>3. IsFiniteSet(S)
  BY <1>1, <1>2, FS_Subset
<1> QED
  BY <1>3, FS_CardinalityType

\* Ranks are numbers and grow by one at each member.
LEMMA RankSteps ==
    ASSUME NEW n \in Nat, NEW S, \A d \in S : d \in 1..n, NEW i \in Nat
    PROVE  /\ Rank(S, i) \in Nat
           /\ Rank(S, i + 1) = Rank(S, i) + (IF i + 1 \in S THEN 1 ELSE 0)
<1>1. IsFiniteSet(S)
  BY BoundedFinite
<1> DEFINE A == {d \in S : d <= i}
           B == {d \in S : d <= i + 1}
<1>2. IsFiniteSet(A) /\ Rank(S, i) = Cardinality(A) /\ Rank(S, i + 1) = Cardinality(B)
  BY <1>1, FS_Subset DEF Rank
<1>3. Cardinality(A) \in Nat
  BY <1>2, FS_CardinalityType
<1>4. CASE i + 1 \in S
  <2>1. B = A \cup {i + 1} /\ i + 1 \notin A
    BY <1>4
  <2>2. Cardinality(B) = Cardinality(A) + 1
    BY <1>2, <2>1, FS_AddElement
  <2> QED
    BY <1>2, <1>3, <1>4, <2>2
<1>5. CASE i + 1 \notin S
  <2>1. B = A
    BY <1>5
  <2> HIDE DEF A, B
  <2> QED
    BY <1>2, <1>3, <1>5, <2>1
<1> QED
  BY <1>4, <1>5

\* The rank of 0 is 0 and that of the upper bound the number of members.
LEMMA RankEnds ==
    ASSUME NEW n \in Nat, NEW S, \A d \in S : d \in 1..n
    PROVE  Rank(S, 0) = 0 /\ Rank(S, n) = Cardinality(S)
<1>1. {d \in S : d <= 0} = {} /\ {d \in S : d <= n} = S
  OBVIOUS
<1> QED
  BY <1>1, FS_EmptySet DEF Rank

\* Two members do not have the same rank.
LEMMA RankInjective ==
    ASSUME NEW n \in Nat, NEW S, \A d \in S : d \in 1..n, NEW d \in S, NEW e \in S, d < e
    PROVE  Rank(S, d) < Rank(S, e)
<1> DEFINE A == {x \in S : x <= d}
           B == {x \in S : x <= e}
<1>0. IsFiniteSet(S)
  BY BoundedFinite
<1>1. IsFiniteSet(A) /\ IsFiniteSet(B)
  BY <1>0, FS_Subset
<1>2. A \in SUBSET B /\ e \in B /\ e \notin A
  BY <1>0
<1>3. Cardinality(A) <= Cardinality(B) /\ Cardinality(A) # Cardinality(B)
  BY <1>1, <1>2, FS_Subset
<1> QED
  BY <1>1, <1>3, FS_CardinalityType DEF Rank

\* Every number up to the number of members is the rank of one of them.
LEMMA RankOnto ==
    ASSUME NEW n \in Nat, NEW S, \A d \in S : d \in 1..n, NEW k \in 1..Cardinality(S)
    PROVE  \E e \in S : Rank(S, e) = k
<1> DEFINE T == {i \in Nat : Rank(S, i) >= k}
<1>1. n \in T /\ 0 \notin T
  BY RankEnds, BoundedFinite
<1>2. PICK i \in T : \A j \in T : i <= j
  BY <1>1, Least
<1>3. i \in Nat /\ i # 0 /\ i - 1 \in Nat /\ (i - 1) + 1 = i /\ i - 1 \notin T
  BY <1>1, <1>2
<1>4. Rank(S, i - 1) \in Nat /\ Rank(S, i - 1) < k /\ Rank(S, i) \in Nat /\ Rank(S, i) >= k
  BY <1>2, <1>3, RankSteps
<1>5. Rank(S, i) = Rank(S, i - 1) + (IF i \in S THEN 1 ELSE 0)
  BY <1>3, RankSteps
<1> QED
  BY <1>4, <1>5

\* The member that SplitLines chooses for a rank.
LEMMA Chosen ==
    ASSUME NEW n \in Nat, NEW S, \A d \in S : d \in 1..n, NEW x \in S
    PROVE  (CHOOSE e \in S : Rank(S, e) = Rank(S, x)) = x
<1> DEFINE y == CHOOSE e \in S : Rank(S, e) = Rank(S, x)
<1>1. y \in S /\ Rank(S, y) = Rank(S, x)
  OBVIOUS
<1>2. Rank(S, x) \in Nat
  BY BoundedFinite, RankSteps
<1> HIDE DEF y
<1>3. ~ (x < y) /\ ~ (y < x)
  BY <1>1, <1>2, RankInjective
<1>4. x \in Nat /\ y \in Nat
  BY <1>1, BoundedFinite
<1>5. y = x
  BY <1>3, <1>4
<1> QED
  BY <1>5 DEF y

-----------------------------------------------------------------------------
(* Lines of a text and lines of its end.                                   *)

\* Ends are positions, at most one after the last byte.
LEMMA EndsBound ==
    ASSUME NEW B, NEW g \in Seq(B) PROVE \A e \in Ends(g) : e \in 1..(Len(g) + 1)
<1>1. Len(g) \in Nat
  BY LenProperties
<1> QED
  BY <1>1 DEF Ends

\* How many lines there are, and which is the one at a rank.
LEMMA Lines ==
    ASSUME NEW B, NEW g \in Seq(B)
    PROVE  /\ Cardinality(Ends(g)) \in Nat
           /\ DOMAIN SplitLines(g) = 1..Cardinality(Ends(g))
           /\ SplitLines(g) \in Seq({LineAt(g, e) : e \in Ends(g)})
           /\ Len(SplitLines(g)) = Cardinality(Ends(g))
           /\ \A e \in Ends(g) : /\ Rank(Ends(g), e) \in 1..Cardinality(Ends(g))
                               /\ SplitLines(g)[Rank(Ends(g), e)] = LineAt(g, e)
<1> DEFINE n == Len(g) + 1
           S == Ends(g)
           L == {LineAt(g, e) : e \in S}
           Nth(k) == CHOOSE e \in S : Rank(S, e) = k
<1>1. n \in Nat /\ \A d \in S : d \in 1..n
  BY EndsBound, LenProperties
<1>2. Cardinality(S) \in Nat
  BY <1>1, BoundedFinite
<1>3. SplitLines(g) = [k \in 1..Cardinality(S) |-> LineAt(g, Nth(k))]
  BY DEF SplitLines
<1>4. ASSUME NEW k \in 1..Cardinality(S) PROVE LineAt(g, Nth(k)) \in L
  <2>1. \E e \in S : Rank(S, e) = k
    BY <1>1, RankOnto
  <2>2. Nth(k) \in S
    BY <2>1
  <2> QED
    BY <2>2
<1>5. ASSUME NEW e \in S
      PROVE  Rank(S, e) \in 1..Cardinality(S) /\ SplitLines(g)[Rank(S, e)] = LineAt(g, e)
  <2> HIDE DEF S
  <2>1. e \in Nat /\ e - 1 \in Nat /\ (e - 1) + 1 = e
    BY <1>1
  <2>0. Rank(S, e - 1) \in Nat /\ Rank(S, e) \in Nat
    BY <1>1, <2>1, RankSteps
  <2>2. Rank(S, (e - 1) + 1) = Rank(S, e - 1) + (IF (e - 1) + 1 \in S THEN 1 ELSE 0)
    BY <1>1, <2>1, RankSteps
  <2>3. Rank(S, e) <= Cardinality(S)
    <3>1. IsFiniteSet(S)
      BY <1>1, BoundedFinite
    <3> QED
      BY <3>1, FS_Subset DEF Rank
  <2>4. Nth(Rank(S, e)) = e
    BY <1>1, Chosen
  <2> HIDE DEF Nth
  <2> QED
    BY <1>2, <1>3, <2>0, <2>1, <2>2, <2>3, <2>4
<1> HIDE DEF S, L, Nth
<1>6. SplitLines(g) \in [1..Cardinality(S) -> L]
  BY <1>3, <1>4
<1>7. SplitLines(g) \in Seq(L)
  BY <1>2, <1>6, SeqDef
<1>8. DOMAIN SplitLines(g) = 1..Cardinality(S) /\ Len(SplitLines(g)) = Cardinality(S)
  BY <1>2, <1>6, <1>7, LenProperties
<1> QED
  BY <1>2, <1>5, <1>7, <1>8 DEF S, L

\* h is what follows the first off bytes of g.
Suffix(h, g, off) ==
    off \in Nat /\ Len(g) = Len(h) + off /\ \A i \in 1..Len(h) : h[i] = g[i + off]

\* A line ends in h where it ends in g.
LEMMA SuffixEnds ==
    ASSUME NEW B, NEW g \in Seq(B), NEW h \in Seq(B), NEW off, Suffix(h, g, off), Len(h) > 0
    PROVE  \A j \in 1..(Len(h) + 1) : j \in Ends(h) <=> j + off \in Ends(g)
<1> DEFINE n == Len(h)
<1>1. n \in Nat /\ n > 0 /\ off \in Nat /\ Len(g) = n + off /\ \A i \in 1..n : h[i] = g[i + off]
  BY LenProperties DEF Suffix
<1>2. ASSUME NEW j \in 1..n PROVE EndsAt(h, j) <=> EndsAt(g, j + off)
  <2>1. CASE j = n
    BY <1>1, <2>1 DEF EndsAt
  <2>2. CASE j # n
    <3>1. j + 1 \in 1..n /\ (j + 1) + off = (j + off) + 1 /\ j + off # Len(g)
      BY <1>1, <2>2
    <3>2. h[j] = g[j + off] /\ h[j + 1] = g[(j + off) + 1]
      BY <1>1, <3>1
    <3> QED
      BY <2>2, <3>1, <3>2 DEF EndsAt
  <2> QED
    BY <2>1, <2>2
<1>3. ASSUME NEW j \in 1..n PROVE j \in Ends(h) <=> j + off \in Ends(g)
  <2>1. j + off \in 1..Len(g) /\ j + off # Len(g) + 1 /\ j # n + 1
    BY <1>1
  <2> QED
    BY <1>2, <2>1 DEF Ends
<1>4. n + 1 \in Ends(h) <=> (n + 1) + off \in Ends(g)
  <2>1. (n + 1) + off = Len(g) + 1 /\ (n + 1) + off \notin 1..Len(g) /\ n + 1 \notin 1..n
    BY <1>1
  <2>2. n \in 1..n /\ n + off = Len(g) /\ Len(g) > 0
    BY <1>1
  <2>3. EndsAt(h, n) <=> EndsAt(g, Len(g))
    BY <1>2, <2>2
  <2> QED
    BY <1>1, <2>1, <2>2, <2>3 DEF Ends
<1> QED
  BY <1>1, <1>3, <1>4

\* Ranks in g are those in h and the number of lines that end before h.
LEMMA SuffixRanks ==
    ASSUME NEW B, NEW g \in Seq(B), NEW h \in Seq(B), NEW off, Suffix(h, g, off), Len(h) > 0
    PROVE  /\ Rank(Ends(g), off) \in Nat
           /\ \A j \in Ends(h) : Rank(Ends(g), j + off) = Rank(Ends(g), off) + Rank(Ends(h), j)
           /\ Cardinality(Ends(g)) = Rank(Ends(g), off) + Cardinality(Ends(h))
<1> DEFINE n == Len(h) + 1
           m == Len(g) + 1
           E == Ends(g)
           F == Ends(h)
           p == Rank(E, off)
<1>1. n \in Nat /\ m \in Nat /\ off \in Nat /\ m = n + off
  BY LenProperties DEF Suffix
<1>2. (\A d \in E : d \in 1..m) /\ (\A d \in F : d \in 1..n)
  BY EndsBound
<1>3. \A j \in 1..n : j \in F <=> j + off \in E
  BY SuffixEnds
<1> HIDE DEF E, F, n, m
<1>4. p \in Nat /\ \A j \in Nat : Rank(E, j + off) \in Nat /\ Rank(F, j) \in Nat
  BY <1>1, <1>2, RankSteps
<1> HIDE DEF p
<1> DEFINE T == {j \in Nat : j <= n => Rank(E, j + off) = p + Rank(F, j)}
<1>5. 0 \in T
  <2>1. Rank(F, 0) = 0
    BY <1>1, <1>2, RankEnds
  <2>2. 0 + off = off
    BY <1>1
  <2> QED
    BY <1>4, <2>1, <2>2 DEF p
<1>6. ASSUME NEW j \in T PROVE j + 1 \in T
  <2> SUFFICES ASSUME j + 1 <= n PROVE Rank(E, (j + 1) + off) = p + Rank(F, j + 1)
    BY <1>6
  <2>1. j \in Nat /\ j <= n /\ j + 1 \in 1..n /\ Rank(E, j + off) = p + Rank(F, j)
    BY <1>1
  <2>2. (j + 1) + off = (j + off) + 1 /\ j + off \in Nat
    BY <1>1, <2>1
  <2>3. Rank(E, (j + off) + 1) = Rank(E, j + off) + (IF (j + off) + 1 \in E THEN 1 ELSE 0)
    BY <1>1, <1>2, <2>2, RankSteps
  <2>4. Rank(F, j + 1) = Rank(F, j) + (IF j + 1 \in F THEN 1 ELSE 0)
    BY <1>1, <1>2, <2>1, RankSteps
  <2>5. (j + off) + 1 \in E <=> j + 1 \in F
    BY <1>3, <2>1, <2>2
  <2>6. Rank(E, (j + 1) + off) = Rank(E, (j + off) + 1) /\ Rank(F, j) \in Nat
    BY <1>4, <2>1, <2>2
  <2>7. CASE j + 1 \in F
    <3>1. Rank(E, (j + off) + 1) = Rank(E, j + off) + 1 /\ Rank(F, j + 1) = Rank(F, j) + 1
      BY <2>3, <2>4, <2>5, <2>7
    <3> QED
      BY <1>4, <2>1, <2>6, <3>1
  <2>8. CASE j + 1 \notin F
    <3>1. Rank(E, (j + off) + 1) = Rank(E, j + off) + 0 /\ Rank(F, j + 1) = Rank(F, j) + 0
      BY <2>3, <2>4, <2>5, <2>8
    <3> QED
      BY <1>4, <2>1, <2>6, <3>1
  <2> QED
    BY <2>7, <2>8
<1>7. \A j \in Nat : j \in T
  <2> HIDE DEF T
  <2>1. T \in SUBSET Nat
    BY DEF T
  <2> QED
    BY <1>5, <1>6, <2>1, Induction
<1>8. \A j \in 0..n : Rank(E, j + off) = p + Rank(F, j)
  BY <1>1, <1>7
<1>9. Rank(E, m) = Cardinality(E) /\ Rank(F, n) = Cardinality(F)
  BY <1>1, <1>2, RankEnds
<1>10. Cardinality(E) = p + Cardinality(F)
  BY <1>1, <1>8, <1>9
<1>11. \A j \in F : j \in 0..n
  BY <1>1, <1>2
<1> QED
  BY <1>4, <1>8, <1>10, <1>11 DEF E, F, p

\* Behind the first line end of h the lines of g are those of h.
LEMMA SuffixLine ==
    ASSUME NEW B, NEW g \in Seq(B), NEW h \in Seq(B), NEW off, Suffix(h, g, off), Len(h) > 0,
           NEW d \in Ends(h), NEW j \in Ends(h), d < j
    PROVE  LineAt(g, j + off) = LineAt(h, j)
<1> DEFINE n == Len(h) + 1
           m == Len(g) + 1
           P == {0} \cup {x \in Ends(h) : x < j}
           Q == {0} \cup {x \in Ends(g) : x < j + off}
           b == Max(P)
           crlf == j <= Len(h) /\ h[j] = LF /\ j > 1 /\ h[j - 1] = CR
           s == IF crlf THEN j - 2 ELSE j - 1
<1>1. n \in Nat /\ m \in Nat /\ off \in Nat /\ m = n + off /\ Len(h) \in Nat /\ Len(h) + 1 = n
      /\ Len(g) = Len(h) + off /\ \A i \in 1..Len(h) : h[i] = g[i + off]
  BY LenProperties DEF Suffix
<1>2. (\A x \in Ends(g) : x \in 1..m) /\ (\A x \in Ends(h) : x \in 1..n)
  BY EndsBound
<1>3. \A x \in 1..n : x \in Ends(h) <=> x + off \in Ends(g)
  BY SuffixEnds
<1>4. d \in 1..n /\ j \in 1..n
  BY <1>2
<1>5. b \in Ends(h) /\ b \in 1..n /\ d <= b /\ b < j /\ \A y \in P : y <= b
  <2>1. \A y \in P : y \in 0..n
    BY <1>1, <1>2
  <2>2. d \in P
    OBVIOUS
  <2>3. b \in P /\ \A y \in P : y <= b
    <3> HIDE DEF P
    <3> QED
      BY <1>1, <2>1, <2>2, Greatest
  <2>4. d <= b
    BY <2>2, <2>3
  <2> HIDE DEF b
  <2> QED
    BY <1>1, <1>2, <1>4, <2>1, <2>3, <2>4
<1> HIDE DEF b
<1>6. Max(Q) = b + off
  <2>1. \A y \in Q : y \in 0..m
    BY <1>1, <1>2
  <2>2. b + off \in Q
    BY <1>1, <1>3, <1>4, <1>5
  <2>3. ASSUME NEW y \in Q PROVE y <= b + off
    <3>1. y \in 0..m
      BY <2>1
    <3>2. CASE y <= off
      BY <1>1, <1>5, <3>1, <3>2
    <3>3. CASE ~ (y <= off)
      <4>1. y \in Ends(g) /\ y < j + off /\ y - off \in 1..n /\ (y - off) + off = y
        BY <1>1, <3>1, <3>3
      <4>2. y - off \in P
        BY <1>1, <1>3, <1>4, <4>1
      <4>3. y - off <= b
        BY <1>5, <4>2
      <4> QED
        BY <1>1, <1>5, <3>1, <4>3
    <3> QED
      BY <3>2, <3>3
  <2> HIDE DEF Q
  <2> QED
    BY <1>1, <2>1, <2>2, <2>3, MaxIs
<1>7. j \in Int /\ j > 1 /\ j - 1 \in 1..Len(h) /\ (j - 1) + off = (j + off) - 1
  BY <1>1, <1>4
<1>8. crlf <=> (j + off <= Len(g) /\ g[j + off] = LF /\ j + off > 1 /\ g[(j + off) - 1] = CR)
  <2>1. h[j - 1] = g[(j + off) - 1]
    BY <1>1, <1>7
  <2>2. j <= Len(h) <=> j + off <= Len(g)
    BY <1>1, <1>7
  <2>3. j <= Len(h) => h[j] = g[j + off]
    BY <1>1, <1>4
  <2>4. j + off > 1
    BY <1>1, <1>7
  <2> QED
    BY <1>7, <2>1, <2>2, <2>3, <2>4
<1>9. LineAt(h, j) = SubSeq(h, b + 1, s)
  BY DEF LineAt, b
<1>10. LineAt(g, j + off) = SubSeq(g, (b + off) + 1, s + off)
  <2>1. s + off = IF crlf THEN (j + off) - 2 ELSE (j + off) - 1
    BY <1>1, <1>7
  <2> HIDE DEF crlf, s
  <2> QED
    BY <1>6, <1>8, <2>1 DEF LineAt
<1>11. s \in Int /\ s <= Len(h) /\ b \in Nat /\ b >= 1
  BY <1>1, <1>5, <1>7
<1> HIDE DEF crlf, s, P, Q, n, m
<1>12. SubSeq(h, b + 1, s) = SubSeq(g, (b + off) + 1, s + off)
  <2> DEFINE u == SubSeq(h, b + 1, s)
             v == SubSeq(g, (b + off) + 1, s + off)
  <2>1. \A i \in (b + 1)..s : h[i] \in B
    <3> TAKE i \in (b + 1)..s
    <3>1. i \in 1..Len(h)
      BY <1>1, <1>11
    <3> QED
      BY <3>1, ElementOfSeq
  <2>2. \A i \in ((b + off) + 1)..(s + off) : g[i] \in B
    <3> TAKE i \in ((b + off) + 1)..(s + off)
    <3>1. i \in 1..Len(g)
      BY <1>1, <1>11
    <3> QED
      BY <3>1, ElementOfSeq
  <2>3. /\ u \in Seq(B) /\ Len(u) = (IF b + 1 <= s THEN s - (b + 1) + 1 ELSE 0)
        /\ \A i \in 1..(s - (b + 1) + 1) : u[i] = h[(b + 1) + i - 1]
    BY <1>11, <2>1, SubSeqProperties
  <2>4. /\ v \in Seq(B)
        /\ Len(v) = (IF (b + off) + 1 <= s + off THEN (s + off) - ((b + off) + 1) + 1 ELSE 0)
        /\ \A i \in 1..((s + off) - ((b + off) + 1) + 1) : v[i] = g[((b + off) + 1) + i - 1]
    <3>1. (b + off) + 1 \in Int /\ s + off \in Int
      BY <1>1, <1>11
    <3> QED
      BY <2>2, <3>1, SubSeqProperties
  <2> HIDE DEF u, v
  <2>5. Len(u) = Len(v)
    BY <1>1, <1>11, <2>3, <2>4
  <2>6. ASSUME NEW i \in 1..Len(u) PROVE u[i] = v[i]
    <3>1. i \in 1..(s - (b + 1) + 1) /\ i \in 1..((s + off) - ((b + off) + 1) + 1)
      BY <1>1, <1>11, <2>3
    <3>2. (b + 1) + i - 1 \in 1..Len(h) /\ ((b + 1) + i - 1) + off = ((b + off) + 1) + i - 1
      BY <1>1, <1>11, <3>1
    <3>3. u[i] = h[(b + 1) + i - 1] /\ v[i] = g[((b + off) + 1) + i - 1]
      BY <2>3, <2>4, <3>1
    <3> QED
      BY <1>1, <3>2, <3>3
  <2>7. u = v
    BY <2>3, <2>4, <2>5, <2>6, SeqEqual
  <2> QED
    BY <2>7 DEF u, v
<1> QED
  BY <1>9, <1>10, <1>12

\* Every counted newline ends a line.
LEMMA NewlinesEnd ==
    ASSUME NEW B, NEW h \in Seq(B)
    PROVE  Newlines(h) \in Nat /\ Newlines(h) <= Cardinality(Ends(h))
<1>1. Len(h) \in Nat /\ DOMAIN h = 1..Len(h)
  BY LenProperties
<1>2. IsFiniteSet(Ends(h))
  <2>1. Len(h) + 1 \in Nat
    BY <1>1
  <2> QED
    BY <2>1, EndsBound, BoundedFinite
<1> DEFINE N == {i \in DOMAIN h : h[i] = LF}
<1>3. N \in SUBSET Ends(h)
  BY <1>1 DEF Ends, EndsAt
<1>4. IsFiniteSet(N) /\ Cardinality(N) <= Cardinality(Ends(h))
  BY <1>2, <1>3, FS_Subset
<1>5. Cardinality(N) \in Nat
  BY <1>4, FS_CardinalityType
<1> QED
  BY <1>4, <1>5 DEF Newlines

\* The last elements of a sequence are its end.
LEMMA LastElements ==
    ASSUME NEW B, NEW s \in Seq(B), NEW n \in Nat, n <= Len(s)
    PROVE  LastOf(s, n) \in Seq(B) /\ Len(LastOf(s, n)) = n /\ Suffix(LastOf(s, n), s, Len(s) - n)
<1>1. Len(s) \in Nat /\ \A i \in 1..Len(s) : s[i] \in B
  BY LenProperties, ElementOfSeq
<1>2. CASE n = Len(s)
  <2>1. LastOf(s, n) = s /\ Len(s) - n = 0 /\ \A i \in 1..n : i + 0 = i
    BY <1>1, <1>2 DEF LastOf
  <2> QED
    BY <1>1, <1>2, <2>1 DEF Suffix
<1>3. CASE n # Len(s)
  <2> DEFINE a == Len(s) - n + 1
             b == Len(s)
             t == SubSeq(s, a, b)
  <2>1. LastOf(s, n) = t /\ a \in Int /\ b \in Int
    BY <1>1, <1>3 DEF LastOf
  <2>2. \A i \in a..b : s[i] \in B
    BY <1>1, <1>3
  <2>3. (IF a <= b THEN b - a + 1 ELSE 0) = n /\ b - a + 1 = n
        /\ Len(s) - n \in Nat /\ Len(s) = n + (Len(s) - n)
        /\ \A i \in 1..n : a + i - 1 = i + (Len(s) - n)
    BY <1>1, <1>3
  <2> HIDE DEF a, b
  <2>4. /\ t \in Seq(B) /\ Len(t) = (IF a <= b THEN b - a + 1 ELSE 0)
        /\ \A i \in 1..(b - a + 1) : t[i] = s[a + i - 1]
    BY <2>1, <2>2, SubSeqProperties
  <2> HIDE DEF t
  <2> QED
    BY <2>1, <2>3, <2>4 DEF Suffix
<1> QED
  BY <1>2, <1>3

\* With more newlines in hand than lines asked for, the last lines of h are
\* those of g: only the first line of h may lack its beginning.
LEMMA SuffixLines ==
    ASSUME NEW B, NEW g \in Seq(B), NEW h \in Seq(B), NEW off, Suffix(h, g, off),
           NEW lines \in Nat, Newlines(h) > lines
    PROVE  LastOf(SplitLines(g), lines) = LastOf(SplitLines(h), lines)
<1> DEFINE E == Ends(g)
           F == Ends(h)
           p == Rank(E, off)
           c == Cardinality(F)
           X == {LineAt(g, e) : e \in E} \cup {LineAt(h, e) : e \in F}
           G == SplitLines(g)
           H == SplitLines(h)
<1>1. c \in Nat /\ c > lines /\ Len(h) \in Nat
  <2>1. Newlines(h) \in Nat /\ Newlines(h) <= c
    BY NewlinesEnd
  <2>2. c \in Nat
    BY Lines
  <2>3. Len(h) \in Nat
    BY LenProperties
  <2> HIDE DEF c
  <2> QED
    BY <2>1, <2>2, <2>3
<1>2. Len(h) > 0
  <2> SUFFICES ASSUME Len(h) = 0 PROVE FALSE
    BY <1>1
  <2>1. {i \in DOMAIN h : h[i] = LF} = {}
    BY LenProperties
  <2> QED
    BY <2>1, FS_EmptySet DEF Newlines
<1>3. p \in Nat /\ Cardinality(E) = p + c /\ \A j \in F : Rank(E, j + off) = p + Rank(F, j)
  BY <1>2, SuffixRanks
<1>4. G \in Seq(X) /\ H \in Seq(X) /\ Len(G) = p + c /\ Len(H) = c
  <2>1. G \in Seq({LineAt(g, e) : e \in E}) /\ H \in Seq({LineAt(h, e) : e \in F})
    BY Lines
  <2>2. {LineAt(g, e) : e \in E} \subseteq X /\ {LineAt(h, e) : e \in F} \subseteq X
    OBVIOUS
  <2>3. G \in Seq(X) /\ H \in Seq(X)
    <3> HIDE DEF X
    <3> QED
      BY <2>1, <2>2, SeqMonotonic
  <2> QED
    BY <1>3, <2>3, Lines
<1>5. ASSUME NEW k \in 2..c PROVE G[p + k] = H[k]
  <2>1. Len(h) + 1 \in Nat /\ \A e \in F : e \in 1..(Len(h) + 1)
    BY <1>1, EndsBound
  <2>2. k \in 1..c /\ k - 1 \in 1..c
    BY <1>1
  <2>3. PICK j \in F : Rank(F, j) = k
    BY <2>1, <2>2, RankOnto
  <2>4. PICK d \in F : Rank(F, d) = k - 1
    BY <2>1, <2>2, RankOnto
  <2>5. d < j
    <3>1. d \in Nat /\ j \in Nat
      BY <2>1
    <3>2. ~ (j < d) /\ j # d
      BY <2>1, <2>2, <2>3, <2>4, RankInjective
    <3> QED
      BY <3>1, <3>2
  <2>6. j + off \in E
    <3>1. j \in 1..(Len(h) + 1)
      BY <2>1
    <3> QED
      BY <1>2, <3>1, SuffixEnds
  <2>7. G[p + k] = LineAt(g, j + off)
    BY <1>3, <2>3, <2>6, Lines
  <2>8. H[k] = LineAt(h, j)
    BY <2>3, Lines
  <2> QED
    BY <1>2, <2>5, <2>7, <2>8, SuffixLine
<1> DEFINE u == LastOf(G, lines)
           v == LastOf(H, lines)
<1> HIDE DEF G, H, X, c, p, E, F
<1>6. u \in Seq(X) /\ Len(u) = lines /\ Suffix(u, G, Len(G) - lines)
  <2>1. lines <= Len(G)
    BY <1>1, <1>3, <1>4
  <2> QED
    BY <1>4, <2>1, LastElements
<1>7. v \in Seq(X) /\ Len(v) = lines /\ Suffix(v, H, Len(H) - lines)
  <2>1. lines <= Len(H)
    BY <1>1, <1>4
  <2> QED
    BY <1>4, <2>1, LastElements
<1>8. ASSUME NEW i \in 1..lines PROVE u[i] = v[i]
  <2>1. i + (c - lines) \in 2..c /\ i + ((p + c) - lines) = p + (i + (c - lines))
    BY <1>1, <1>3
  <2> HIDE DEF u, v
  <2>2. u[i] = G[i + (Len(G) - lines)]
    BY <1>6 DEF Suffix
  <2>3. v[i] = H[i + (Len(H) - lines)]
    BY <1>7 DEF Suffix
  <2>4. u[i] = G[p + (i + (c - lines))] /\ v[i] = H[i + (c - lines)]
    BY <1>4, <2>1, <2>2, <2>3
  <2> QED
    BY <1>5, <2>1, <2>4
<1> HIDE DEF u, v
<1>9. u = v
  BY <1>6, <1>7, <1>8, SeqEqual
<1> QED
  BY <1>9 DEF u, v, G, H

-----------------------------------------------------------------------------
(* The loop.                                                               *)

\* Where the loop is after the chunk that it reads at c.
Step(file, limit, c) == c + Min({ChunkSize, Len(file) - c, limit - c})

\* A chunk has at least one byte and ends within the file and the limit.
LEMMA StepForward ==
    ASSUME NEW B, NEW file \in Seq(B), NEW limit \in Nat, NEW lines \in Nat,
           NEW c \in 0..Len(file), ~ Done(file, lines, limit, c)
    PROVE  /\ c < limit /\ Step(file, limit, c) \in (c + 1)..Len(file)
           /\ Step(file, limit, c) <= limit
<1> DEFINE M == {ChunkSize, Len(file) - c, limit - c}
<1>1. Len(file) \in Nat /\ ChunkSize \in Nat /\ ChunkSize > 0
  BY LenProperties, LogsAssumption
<1>2. c < Len(file) /\ c < limit
  BY <1>1 DEF Done
<1>3. Len(file) - c \in Nat /\ Len(file) - c > 0 /\ limit - c \in Nat /\ limit - c > 0
  BY <1>1, <1>2
<1>4. \E x \in M : \A y \in M : x <= y
  <2>1. CASE ChunkSize <= Len(file) - c /\ ChunkSize <= limit - c
    BY <1>1, <1>3, <2>1
  <2>2. CASE Len(file) - c <= ChunkSize /\ Len(file) - c <= limit - c
    BY <1>1, <1>3, <2>2
  <2>3. CASE limit - c <= ChunkSize /\ limit - c <= Len(file) - c
    BY <1>1, <1>3, <2>3
  <2> QED
    BY <1>1, <1>3, <2>1, <2>2, <2>3
<1>5. Min(M) \in M /\ \A y \in M : Min(M) <= y
  BY <1>4 DEF Min
<1>6. PICK x \in Nat : x = Min(M) /\ x > 0 /\ x <= Len(file) - c /\ x <= limit - c
  BY <1>1, <1>3, <1>5
<1> HIDE DEF M
<1>7. Step(file, limit, c) = c + x
  BY <1>6 DEF Step, M
<1> QED
  BY <1>1, <1>2, <1>6, <1>7

\* What f must be to give the end of the loop from a and every later position.
Loop(f, file, lines, limit, a) ==
    f = [c \in a..Len(file) |->
            IF Done(file, lines, limit, c) THEN c ELSE f[Step(file, limit, c)]]

\* There is such a function: it is built from the end of the file.
LEMMA LoopExists ==
    ASSUME NEW B, NEW file \in Seq(B), NEW limit \in Nat, NEW lines \in Nat
    PROVE  \E f : Loop(f, file, lines, limit, 0)
<1> DEFINE n == Len(file)
           D(c) == Done(file, lines, limit, c)
           S(c) == Step(file, limit, c)
           T == {k \in Nat : k <= n => \E f : Loop(f, file, lines, limit, n - k)}
<1>1. n \in Nat
  BY LenProperties
<1>2. 0 \in T
  <2> DEFINE f == [c \in n..n |-> c]
  <2>1. \A c \in n..n : c = n /\ D(c)
    BY <1>1 DEF Done
  <2>2. f = [c \in n..n |-> IF D(c) THEN c ELSE f[S(c)]]
    BY <2>1
  <2>3. n - 0 = n
    BY <1>1
  <2>4. Loop(f, file, lines, limit, n - 0)
    BY <2>2, <2>3 DEF Loop
  <2> QED
    BY <2>4
<1>3. ASSUME NEW k \in T PROVE k + 1 \in T
  <2>0. k \in Nat
    OBVIOUS
  <2> SUFFICES ASSUME k + 1 <= n PROVE \E f : Loop(f, file, lines, limit, n - (k + 1))
    BY <2>0
  <2> DEFINE a == n - k
             b == n - (k + 1)
  <2>1. a \in 1..n /\ b \in 0..n /\ a = b + 1 /\ k <= n
    BY <1>1, <2>0
  <2>2. PICK f : Loop(f, file, lines, limit, a)
    BY <2>1
  <2> HIDE DEF a, b
  <2> DEFINE g == [c \in b..n |-> IF D(c) THEN c ELSE f[S(c)]]
  <2>3. \A c \in a..n : g[c] = f[c]
    <3> TAKE c \in a..n
    <3>1. c \in b..n
      BY <1>1, <2>1
    <3>2. f[c] = IF D(c) THEN c ELSE f[S(c)]
      BY <2>2 DEF Loop
    <3> QED
      BY <3>1, <3>2
  <2>4. ASSUME NEW c \in b..n, ~ D(c) PROVE S(c) \in a..n
    <3>1. c \in 0..n
      BY <1>1, <2>1
    <3>2. S(c) \in (c + 1)..n
      BY <2>4, <3>1, StepForward
    <3> HIDE DEF S
    <3> QED
      BY <1>1, <2>1, <3>2
  <2>5. ASSUME NEW c \in b..n PROVE g[c] = IF D(c) THEN c ELSE g[S(c)]
    <3> HIDE DEF D, S
    <3>1. g[c] = IF D(c) THEN c ELSE f[S(c)]
      OBVIOUS
    <3> HIDE DEF g
    <3> QED
      BY <2>3, <2>4, <3>1
  <2>6. g = [c \in b..n |-> g[c]]
    OBVIOUS
  <2> HIDE DEF g
  <2>7. g = [c \in b..n |-> IF D(c) THEN c ELSE g[S(c)]]
    <3> HIDE DEF D, S
    <3> QED
      BY <2>5, <2>6
  <2>8. Loop(g, file, lines, limit, b)
    BY <2>7 DEF Loop
  <2> QED
    BY <2>8 DEF b
<1> HIDE DEF T
<1>4. n \in T
  <2>1. T \in SUBSET Nat
    BY DEF T
  <2> QED
    BY <1>1, <1>2, <1>3, <2>1, Induction
<1>5. n - n = 0 /\ n <= n
  BY <1>1
<1> QED
  BY <1>4, <1>5 DEF T

\* The loop ends within the file and the limit, where it has enough.
LEMMA ConsumedFacts ==
    ASSUME NEW B, NEW file \in Seq(B), NEW limit \in Nat, NEW lines \in Nat
    PROVE  /\ Consumed(file, lines, limit) \in 0..Len(file)
           /\ Consumed(file, lines, limit) <= limit
           /\ Done(file, lines, limit, Consumed(file, lines, limit))
<1> DEFINE n == Len(file)
           D(c) == Done(file, lines, limit, c)
           S(c) == Step(file, limit, c)
           after == CHOOSE f : Loop(f, file, lines, limit, 0)
<1>1. n \in Nat
  BY LenProperties
<1>2. Consumed(file, lines, limit) = after[0]
  BY DEF Consumed, Loop, Step
<1>3. Loop(after, file, lines, limit, 0)
  BY LoopExists
<1> HIDE DEF after
<1>4. \A c \in 0..n : after[c] = IF D(c) THEN c ELSE after[S(c)]
  BY <1>3 DEF Loop
<1> DEFINE Good(c) == after[c] \in 0..n /\ after[c] <= limit /\ D(after[c])
           T == {k \in Nat : \A c \in 0..n : n - c <= k /\ c <= limit => Good(c)}
<1>5. 0 \in T
  <2> SUFFICES ASSUME NEW c \in 0..n, n - c <= 0, c <= limit PROVE Good(c)
    OBVIOUS
  <2>1. c = n /\ D(c)
    BY <1>1 DEF Done
  <2>2. after[c] = c
    BY <1>4, <2>1
  <2> HIDE DEF D
  <2> QED
    BY <2>1, <2>2
<1>6. ASSUME NEW k \in T PROVE k + 1 \in T
  <2>0. k \in Nat /\ \A c \in 0..n : n - c <= k /\ c <= limit => Good(c)
    OBVIOUS
  <2> SUFFICES ASSUME NEW c \in 0..n, n - c <= k + 1, c <= limit PROVE Good(c)
    BY <2>0
  <2>1. CASE D(c)
    <3>1. after[c] = c
      BY <1>4, <2>1
    <3> HIDE DEF D
    <3> QED
      BY <2>1, <3>1
  <2>2. CASE ~ D(c)
    <3>1. S(c) \in (c + 1)..n /\ S(c) <= limit
      BY <2>2, StepForward
    <3>2. after[c] = after[S(c)]
      BY <1>4, <2>2
    <3> HIDE DEF S, D
    <3>3. S(c) \in 0..n /\ n - S(c) <= k
      BY <1>1, <2>0, <3>1
    <3>4. Good(S(c))
      BY <2>0, <3>1, <3>3
    <3> QED
      BY <3>2, <3>4
  <2> QED
    BY <2>1, <2>2
<1> HIDE DEF T
<1>7. n \in T
  <2>1. T \in SUBSET Nat
    BY DEF T
  <2> QED
    BY <1>1, <1>5, <1>6, <2>1, Induction
<1>8. Good(0)
  <2>1. 0 \in 0..n /\ n - 0 <= n /\ 0 <= limit
    BY <1>1
  <2> QED
    BY <1>7, <2>1 DEF T
<1> QED
  BY <1>2, <1>8

-----------------------------------------------------------------------------
(* The result.                                                             *)

\* tail_lines shows the last lines of the part of the file it may read, for
\* every file, number of lines, limit and chunk size.
THEOREM TailAgrees ==
    ASSUME NEW B, NEW file \in Seq(B), NEW limit \in Nat, NEW lines \in Nat
    PROVE  TailLines(file, lines, limit) = LastOf(SplitLines(LastOf(file, limit)), lines)
<1> DEFINE n == Len(file)
           c == Consumed(file, lines, limit)
           l == IF limit >= n THEN n ELSE limit
           g == LastOf(file, limit)
           h == LastOf(file, c)
<1>1. n \in Nat /\ c \in Nat /\ c <= n /\ c <= limit /\ Done(file, lines, limit, c)
  <2>1. n \in Nat
    BY LenProperties
  <2>2. c \in 0..n /\ c <= limit /\ Done(file, lines, limit, c)
    BY ConsumedFacts
  <2> HIDE DEF c
  <2> QED
    BY <2>1, <2>2
<1>2. l \in Nat /\ l <= n /\ c <= l
  BY <1>1
<1>3. g = LastOf(file, l)
  <2>1. CASE limit >= n
    <3>1. l = n /\ n >= n
      BY <1>1, <2>1
    <3> QED
      BY <2>1, <3>1 DEF LastOf
  <2>2. CASE ~ (limit >= n)
    BY <2>2
  <2> QED
    BY <2>1, <2>2
<1> HIDE DEF l, c
<1>4. g \in Seq(B) /\ Len(g) = l /\ Suffix(g, file, n - l)
  BY <1>2, <1>3, LastElements
<1>5. h \in Seq(B) /\ Len(h) = c /\ Suffix(h, file, n - c)
  BY <1>1, LastElements
<1>6. LastOf(SplitLines(h), lines) = LastOf(SplitLines(g), lines)
  <2>1. CASE c = l
    BY <1>3, <2>1
  <2>2. CASE c # l
    <3>1. Newlines(h) > lines
      BY <1>1, <1>2, <2>2 DEF Done, Enough, l
    <3>2. Suffix(h, g, l - c)
      <4> HIDE DEF g, h
      <4>1. l - c \in Nat /\ l = c + (l - c)
        BY <1>1, <1>2
      <4>2. ASSUME NEW i \in 1..c PROVE h[i] = g[i + (l - c)]
        <5>1. i + (l - c) \in 1..l /\ (i + (l - c)) + (n - l) = i + (n - c)
          BY <1>1, <1>2
        <5>2. h[i] = file[i + (n - c)] /\ g[i + (l - c)] = file[(i + (l - c)) + (n - l)]
          BY <1>4, <1>5, <5>1 DEF Suffix
        <5> QED
          BY <5>1, <5>2
      <4> QED
        BY <1>4, <1>5, <4>1, <4>2 DEF Suffix
    <3> QED
      BY <1>4, <1>5, <3>1, <3>2, SuffixLines
  <2> QED
    BY <2>1, <2>2
<1>7. CASE lines > 0
  BY <1>6, <1>7 DEF TailLines, c
<1>8. CASE lines = 0
  <2>1. Len(SplitLines(g)) \in Nat /\ Len(SplitLines(g)) = Cardinality(Ends(g))
    BY <1>4, Lines
  <2>2. SplitLines(g) \in Seq({LineAt(g, e) : e \in Ends(g)})
    BY <1>4, Lines
  <2>3. /\ LastOf(SplitLines(g), 0) \in Seq({LineAt(g, e) : e \in Ends(g)})
        /\ Len(LastOf(SplitLines(g), 0)) = 0
    BY <2>1, <2>2, LastElements
  <2>4. LastOf(SplitLines(g), 0) = <<>>
    BY <2>3, EmptySeq
  <2> QED
    BY <1>8, <2>4 DEF TailLines
<1> QED
  BY <1>7, <1>8

\* The files, line counts and limits of the run are among those.
THEOREM TailAlways == Spec => []TailIsTail
<1>1. ASSUME NEW i \in TailInputs PROVE TailOfWhole(i)
  <2>1. i.file \in Seq({"a", "b", LF, CR})
    <3>1. PICK n \in 0..MaxFile : i.file \in [1..n -> {"a", "b", LF, CR}]
      BY DEF TailInputs, Files
    <3>2. n \in Nat
      BY <3>1, LogsAssumption
    <3> QED
      BY <3>1, <3>2, SeqDef
  <2>2. i.lines \in Nat /\ i.limit \in Nat
    BY LogsAssumption DEF TailInputs
  <2> QED
    BY <2>1, <2>2, TailAgrees DEF TailOfWhole
<1>2. Init => TailIsTail
  BY <1>1 DEF Init, TailIsTail
<1>3. TailIsTail /\ [Next]_vars => TailIsTail'
  BY DEF TailIsTail, Next, vars
<1> QED
  BY <1>2, <1>3, PTL DEF Spec
=============================================================================
