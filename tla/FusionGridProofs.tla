--------------------------- MODULE FusionGridProofs ---------------------------
(***************************************************************************)
(* What FusionScoringMC checks of its computations on small inputs, of all *)
(* of them. The fusion score: the grid lies within the statuses that       *)
(* FusionScoringProofs is about, and the seeded tiers are in order. The    *)
(* coverage of a frame, of any boxes; the codes of the weather providers;  *)
(* the summary of a day, of any readings; the reports, of any log and any  *)
(* readings. The loops and lists they are computed with come first.        *)
(***************************************************************************)
EXTENDS FusionScoringMC, FusionScoringProofs, FiniteSetTheorems, SequenceTheorems,
        WellFoundedInduction

GridInv == in \in Grid /\ th = Seed

LEMMA GridWithin == Grid \subseteq Inputs
<1>1. Visuals \subseteq VisualStatus \cup {Absent}
  BY DEF Visuals, VisualStatus, Tiers
<1>2. Waters \subseteq WaterStatus \cup {Absent}
  BY DEF Waters, WaterStatus
<1>3. Weathers \subseteq WeatherStatus \cup {Absent}
  BY DEF Weathers, WeatherStatus
<1> QED BY <1>1, <1>2, <1>3 DEF Grid, Inputs

LEMMA SeedInOrder ==
  /\ Seed \in ThresholdSettings /\ Contiguous(Seed) /\ Seed.tier_3_min >= 76
BY DEF Seed, ThresholdSettings, Contiguous

LEMMA GridInvariance == Spec => []GridInv
<1>1. Init => GridInv
  BY DEF Init, GridInv
<1>2. GridInv /\ [Next]_<<in, th, boxes, day, code, log>> => GridInv'
  <2> SUFFICES ASSUME GridInv, [Next]_<<in, th, boxes, day, code, log>> PROVE GridInv'
    OBVIOUS
  <2>1. CASE Deliver
    <3>1. \/ \E v \in Visuals : in' = [in EXCEPT !.visual = v]
          \/ \E v \in Waters : in' = [in EXCEPT !.water = v]
          \/ \E v \in Weathers : in' = [in EXCEPT !.weather = v]
      BY <2>1 DEF Deliver
    <3>2. in' \in Grid
      BY <3>1 DEF GridInv, Grid
    <3> QED BY <2>1, <3>2 DEF Deliver, GridInv
  <2>2. CASE UNCHANGED <<in, th>>
    BY <2>2 DEF GridInv
  <2> QED BY <2>1, <2>2 DEF Next, Detect, Happen, Report, Notify, Anew
<1> QED BY <1>1, <1>2, PTL DEF Spec

\* With the seeded tiers a Critical level is one of the camera and the water
\* together, and of neither when it is suspect (calculate_fusion_data).
THEOREM GridCorroborated == Spec => []CriticalIsCorroborated
<1>1. GridInv => CriticalIsCorroborated
  BY GridWithin, SeedInOrder, CriticalCorroborated DEF GridInv, CriticalIsCorroborated
<1> QED BY GridInvariance, <1>1, PTL

\* A reading that makes a source worse never lowers the level, unless it makes
\* a source suspect (calc_*_score, alert_thresholds).
THEOREM GridNeverCalms == Spec => WorseNeverCalms
<1> DEFINE Rank(i) == AlertRank(CalculateFusionData(i, th).alert_name)
           NoCalm == Worse(in, in') /\ Anomalies(in') \cap SuspectSources = {}
                       => Rank(in') >= Rank(in)
<1>1. GridInv /\ GridInv' => NoCalm
  BY GridWithin, SeedInOrder, NeverCalms DEF GridInv
<1>2. NoCalm => [NoCalm]_<<in, th>>
  OBVIOUS
<1> QED BY GridInvariance, <1>1, <1>2, PTL DEF Spec, WorseNeverCalms

-----------------------------------------------------------------------------
(***************************************************************************)
(* Loops and lists: induction, of a set in place of a predicate.           *)
(***************************************************************************)
\* Natural induction, of a set in place of a predicate.
LEMMA Below ==
  ASSUME NEW S, 0 \in S, \A n \in Nat : n \in S => n + 1 \in S
  PROVE  Nat \subseteq S
<1> DEFINE less == {p \in Nat \X Nat : p[1] < p[2]}
           T == Nat \ S
<1>1. less = OpToRel(<, Nat)
  BY DEF OpToRel
<1>2. IsWellFoundedOn(less, Nat)
  BY <1>1, NatLessThanWellFounded
<1>3. \A k, m \in Nat : k < m => <<k, m>> \in less
  OBVIOUS
<1> HIDE DEF less
<1>4. SUFFICES ASSUME T # {} PROVE FALSE
  OBVIOUS
<1>5. PICK m \in T : \A k \in T : ~(<<k, m>> \in less)
  <2>1. T \in SUBSET Nat
    OBVIOUS
  <2> HIDE DEF T
  <2> QED BY <1>2, <1>4, <2>1, WFMin
<1>6. m # 0 /\ m \in Nat
  OBVIOUS
<1>7. m - 1 \in Nat /\ m - 1 < m
  BY <1>6
<1>8. m - 1 \in S
  BY <1>3, <1>5, <1>6, <1>7
<1> QED BY <1>5, <1>6, <1>7, <1>8

\* The same up to a number, for a loop.
LEMMA UpTo ==
  ASSUME NEW N \in Nat, NEW S, 0 \in S, \A n \in 0 .. N - 1 : n \in S => n + 1 \in S
  PROVE  0 .. N \subseteq S
<1> DEFINE T == {n \in Nat : n <= N => n \in S}
<1>1. 0 \in T
  OBVIOUS
<1>2. ASSUME NEW n \in Nat, n \in T PROVE n + 1 \in T
  <2> SUFFICES ASSUME n + 1 <= N PROVE n + 1 \in S
    OBVIOUS
  <2> QED BY <1>2
<1> HIDE DEF T
<1>3. Nat \subseteq T
  BY <1>1, <1>2, Below
<1> QED BY <1>3 DEF T

\* A loop over 1 .. N whose step takes values of a type to values of that type
\* has a value after each step.
Steps(step, N, State) == \A n \in 1 .. N, s \in State : step[<<n, s>>] \in State

Follows(row, step, base, N, State) ==
  /\ row \in [0 .. N -> State]
  /\ row[0] = base
  /\ \A n \in 1 .. N : row[n] = step[<<n, row[n - 1]>>]

LEMMA LoopRuns ==
  ASSUME NEW N \in Nat, NEW State, NEW base \in State, NEW step, Steps(step, N, State)
  PROVE  \E row : Follows(row, step, base, N, State)
<1> USE DEF Steps
<1> DEFINE Runs(row, n) == /\ row \in [0 .. n -> State]
                           /\ row[0] = base
                           /\ \A k \in 1 .. n : row[k] = step[<<k, row[k - 1]>>]
           S == {n \in 0 .. N : \E row : Runs(row, n)}
<1>1. 0 \in S
  <2> DEFINE first == [n \in 0 .. 0 |-> base]
  <2>1. first \in [0 .. 0 -> State] /\ first[0] = base
    OBVIOUS
  <2> HIDE DEF first
  <2>2. Runs(first, 0)
    BY <2>1
  <2>3. 0 \in 0 .. N
    OBVIOUS
  <2> HIDE DEF Runs
  <2> QED BY <2>2, <2>3
<1>2. ASSUME NEW n \in 0 .. N - 1, n \in S PROVE n + 1 \in S
  <2>1. PICK row : Runs(row, n)
    BY <1>2
  <2> DEFINE more == [k \in 0 .. n + 1 |-> IF k = n + 1 THEN step[<<k, row[n]>>] ELSE row[k]]
  <2>2. step[<<n + 1, row[n]>>] \in State
    <3>1. row[n] \in State /\ n + 1 \in 1 .. N
      BY <2>1
    <3> QED BY <3>1
  <2>3. /\ more \in [0 .. n + 1 -> State]
        /\ \A k \in 0 .. n : more[k] = row[k]
        /\ more[n + 1] = step[<<n + 1, row[n]>>]
    BY <2>1, <2>2
  <2> HIDE DEF more
  <2>4. \A k \in 1 .. n + 1 : more[k] = step[<<k, more[k - 1]>>]
    <3> SUFFICES ASSUME NEW k \in 1 .. n + 1 PROVE more[k] = step[<<k, more[k - 1]>>]
      OBVIOUS
    <3>1. more[k - 1] = row[k - 1]
      BY <2>3
    <3>2. CASE k = n + 1
      BY <2>3, <3>1, <3>2
    <3>3. CASE k # n + 1
      <4>1. more[k] = row[k] /\ k \in 1 .. n
        BY <2>3, <3>3
      <4> QED BY <2>1, <3>1, <4>1
    <3> QED BY <3>2, <3>3
  <2>6. Runs(more, n + 1)
    BY <2>1, <2>3, <2>4
  <2>7. n + 1 \in 0 .. N
    OBVIOUS
  <2> HIDE DEF Runs
  <2> QED BY <2>6, <2>7
<1> HIDE DEF S
<1>3. N \in S
  <2>1. 0 .. N \subseteq S
    BY <1>1, <1>2, UpTo
  <2> QED BY <2>1
<1>4. PICK row : Runs(row, N)
  BY <1>3 DEF S
<1> QED BY <1>4 DEF Follows

-----------------------------------------------------------------------------
(***************************************************************************)
(* What can be put in order, and what is in order.                         *)
(***************************************************************************)
\* Induction over a finite set, of a set of sets in place of a predicate.
LEMMA Grow ==
  ASSUME NEW S, IsFiniteSet(S), NEW C, {} \in C,
         \A T \in SUBSET S, x \in S : T \in C /\ x \notin T => T \cup {x} \in C
  PROVE  S \in C
<1> DEFINE N == {n \in Nat : \A T \in SUBSET S : Cardinality(T) = n => T \in C}
<1>1. \A T \in SUBSET S : IsFiniteSet(T) /\ Cardinality(T) \in Nat
  BY FS_Subset, FS_CardinalityType
<1>2. 0 \in N
  BY <1>1, FS_EmptySet
<1>3. ASSUME NEW n \in Nat, n \in N PROVE n + 1 \in N
  <2> SUFFICES ASSUME NEW T \in SUBSET S, Cardinality(T) = n + 1 PROVE T \in C
    OBVIOUS
  <2>1. PICK x \in T : TRUE
    <3>1. Cardinality(T) # 0
      OBVIOUS
    <3> QED BY <3>1, FS_EmptySet
  <2>2. T \ {x} \in SUBSET S /\ Cardinality(T \ {x}) = n
    <3>1. IsFiniteSet(T)
      BY <1>1
    <3>2. Cardinality(T \ {x}) = Cardinality(T) - 1
      BY <2>1, <3>1, FS_RemoveElement
    <3> QED BY <3>2
  <2>3. T \ {x} \in C
    BY <1>3, <2>2
  <2>4. (T \ {x}) \cup {x} \in C
    BY <2>1, <2>2, <2>3
  <2>5. (T \ {x}) \cup {x} = T
    BY <2>1
  <2> QED BY <2>4, <2>5
<1> HIDE DEF N
<1>4. Cardinality(S) \in N
  BY <1>1, <1>2, <1>3, Below
<1> QED BY <1>4 DEF N

\* R is a strict total order of S.
Orders(R, S) ==
  /\ \A a, b \in S : a = b \/ <<a, b>> \in R \/ <<b, a>> \in R
  /\ \A a, b, c \in S : <<a, b>> \in R /\ <<b, c>> \in R => <<a, c>> \in R
  /\ \A a \in S : <<a, a>> \notin R

LEMMA Greatest ==
  ASSUME NEW S, IsFiniteSet(S), S # {}, NEW R, Orders(R, S)
  PROVE  \E m \in S : \A x \in S : x = m \/ <<x, m>> \in R
<1> DEFINE Has(T) == \E m \in T : \A x \in T : x = m \/ <<x, m>> \in R
           C == {T \in SUBSET S : T = {} \/ Has(T)}
<1>1. {} \in C
  OBVIOUS
<1>2. ASSUME NEW T \in SUBSET S, NEW y \in S, T \in C, y \notin T PROVE T \cup {y} \in C
  <2>1. CASE T = {}
    BY <2>1
  <2>2. CASE T # {}
    <3>1. PICK m \in T : \A x \in T : x = m \/ <<x, m>> \in R
      BY <1>2, <2>2
    <3>2. CASE <<y, m>> \in R
      BY <3>1, <3>2
    <3>3. CASE <<m, y>> \in R
      <4>1. \A x \in T \cup {y} : x = y \/ <<x, y>> \in R
        BY <3>1, <3>3 DEF Orders
      <4> QED BY <4>1
    <3> QED BY <1>2, <3>1, <3>2, <3>3 DEF Orders
  <2> QED BY <2>1, <2>2
<1> HIDE DEF C
<1>3. S \in C
  BY <1>1, <1>2, Grow
<1> QED BY <1>3 DEF C

LEMMA ImageFinite ==
  ASSUME NEW S, IsFiniteSet(S), NEW f, DOMAIN f = S
  PROVE  IsFiniteSet({f[x] : x \in S}) /\ Cardinality({f[x] : x \in S}) <= Cardinality(S)
<1> DEFINE T == {f[x] : x \in S}  g == [x \in S |-> f[x]]
<1>1. g \in [S -> T] /\ \A y \in T : \E x \in S : g[x] = y
  OBVIOUS
<1>2. g \in Surjection(S, T)
  BY <1>1 DEF Surjection
<1> HIDE DEF g, T
<1>3. IsFiniteSet(T) /\ Cardinality(T) <= Cardinality(S)
  BY <1>2, FS_Surjection
<1> QED BY <1>3 DEF T

LEMMA MaxIs ==
  ASSUME NEW S \in SUBSET Int, IsFiniteSet(S), S # {}
  PROVE  Max(S) \in S /\ \A x \in S : x <= Max(S)
<1> DEFINE R == {p \in Int \X Int : p[1] < p[2]}
<1>1. \A a, b \in Int : <<a, b>> \in R <=> a < b
  OBVIOUS
<1> HIDE DEF R
<1>2. Orders(R, S)
  BY <1>1 DEF Orders
<1>3. PICK m \in S : \A x \in S : x = m \/ <<x, m>> \in R
  BY <1>2, Greatest
<1>4. m \in S /\ \A x \in S : m >= x
  <2> SUFFICES ASSUME NEW x \in S PROVE m >= x
    OBVIOUS
  <2>1. m \in Int /\ x \in Int
    OBVIOUS
  <2>2. x = m \/ x < m
    BY <1>1, <1>3, <2>1
  <2> QED BY <2>1, <2>2
<1>5. Max(S) \in S /\ \A x \in S : Max(S) >= x
  BY <1>4 DEF Max
<1> QED BY <1>5

LEMMA Extremes ==
  ASSUME NEW S \in SUBSET Int, IsFiniteSet(S), S # {}
  PROVE  \E low, high \in S : \A x \in S : low <= x /\ x <= high
<1> DEFINE R == {p \in Int \X Int : p[1] > p[2]}
<1>1. \A a, b \in Int : <<a, b>> \in R <=> a > b
  OBVIOUS
<1> HIDE DEF R
<1>2. Orders(R, S)
  BY <1>1 DEF Orders
<1>3. PICK low \in S : \A x \in S : x = low \/ <<x, low>> \in R
  BY <1>2, Greatest
<1>4. \A x \in S : low <= x
  <2> SUFFICES ASSUME NEW x \in S PROVE low <= x
    OBVIOUS
  <2>1. low \in Int /\ x \in Int
    OBVIOUS
  <2>2. x = low \/ x > low
    BY <1>1, <1>3, <2>1
  <2> QED BY <2>1, <2>2
<1>5. Max(S) \in S /\ \A x \in S : x <= Max(S)
  BY MaxIs
<1> QED BY <1>4, <1>5

InOrder(list, S, R) ==
  /\ list \in [1 .. Cardinality(S) -> S]
  /\ \A i, j \in 1 .. Cardinality(S) : i < j => <<list[i], list[j]>> \in R

\* What can be compared can be listed in order.
LEMMA ListExists ==
  ASSUME NEW S, IsFiniteSet(S), NEW R, Orders(R, S)
  PROVE  \E list : InOrder(list, S, R)
<1> DEFINE N == {n \in Nat : \A T \in SUBSET S :
                               Cardinality(T) = n => \E list : InOrder(list, T, R)}
<1>1. \A T \in SUBSET S : IsFiniteSet(T) /\ Cardinality(T) \in Nat
  BY FS_Subset, FS_CardinalityType
<1>2. 0 \in N
  <2> SUFFICES ASSUME NEW T \in SUBSET S, Cardinality(T) = 0 PROVE \E list : InOrder(list, T, R)
    OBVIOUS
  <2> DEFINE empty == [i \in 1 .. 0 |-> i]
  <2>1. 1 .. 0 = {} /\ empty \in [1 .. 0 -> T]
    OBVIOUS
  <2> HIDE DEF empty
  <2>2. InOrder(empty, T, R)
    BY <2>1 DEF InOrder
  <2> QED BY <2>2
<1>3. ASSUME NEW n \in Nat, n \in N PROVE n + 1 \in N
  <2> SUFFICES ASSUME NEW T \in SUBSET S, Cardinality(T) = n + 1 PROVE \E list : InOrder(list, T, R)
    OBVIOUS
  <2>1. Orders(R, T) /\ T # {}
    BY FS_EmptySet DEF Orders
  <2>2. PICK m \in T : \A x \in T : x = m \/ <<x, m>> \in R
    BY <1>1, <2>1, Greatest
  <2> DEFINE U == T \ {m}
  <2>3. U \in SUBSET S /\ Cardinality(U) = n
    <3>1. IsFiniteSet(T)
      BY <1>1
    <3>2. Cardinality(U) = Cardinality(T) - 1
      BY <3>1, FS_RemoveElement
    <3> QED BY <3>2
  <2>4. PICK list : InOrder(list, U, R)
    BY <1>3, <2>3
  <2>5. list \in [1 .. n -> U] /\ \A i, j \in 1 .. n : i < j => <<list[i], list[j]>> \in R
    BY <2>3, <2>4 DEF InOrder
  <2> DEFINE more == [i \in 1 .. n + 1 |-> IF i = n + 1 THEN m ELSE list[i]]
  <2>6. more \in [1 .. n + 1 -> T]
    BY <2>5
  <2>7. \A i, j \in 1 .. n + 1 : i < j => <<more[i], more[j]>> \in R
    <3> SUFFICES ASSUME NEW i \in 1 .. n + 1, NEW j \in 1 .. n + 1, i < j
                 PROVE  <<more[i], more[j]>> \in R
      OBVIOUS
    <3>1. i \in 1 .. n /\ more[i] = list[i] /\ list[i] \in U
      BY <2>5
    <3>2. CASE j = n + 1
      BY <2>2, <3>1, <3>2
    <3>3. CASE j # n + 1
      <4>1. j \in 1 .. n /\ more[j] = list[j]
        BY <3>3
      <4> QED BY <2>5, <3>1, <4>1
    <3> QED BY <3>2, <3>3
  <2> HIDE DEF more
  <2>8. InOrder(more, T, R)
    BY <2>6, <2>7 DEF InOrder
  <2> QED BY <2>8
<1> HIDE DEF N
<1>4. Cardinality(S) \in N
  BY <1>1, <1>2, <1>3, Below
<1> QED BY <1>4 DEF N

\* A list in order has everything.
LEMMA ListsAll ==
  ASSUME NEW S, IsFiniteSet(S), NEW R, Orders(R, S), NEW list, InOrder(list, S, R)
  PROVE  \A x \in S : \E i \in 1 .. Cardinality(S) : list[i] = x
<1> DEFINE n == Cardinality(S)
<1>1. n \in Nat /\ IsFiniteSet(1 .. n) /\ Cardinality(1 .. n) = n
  BY FS_CardinalityType, FS_Interval
<1>2. \A i, j \in 1 .. n : i # j => list[i] # list[j]
  <2> SUFFICES ASSUME NEW i \in 1 .. n, NEW j \in 1 .. n, i # j PROVE list[i] # list[j]
    OBVIOUS
  <2>1. list[i] \in S /\ list[j] \in S
    BY DEF InOrder
  <2>2. i < j \/ j < i
    BY <1>1
  <2> QED BY <2>1, <2>2 DEF InOrder, Orders
<1>3. list \in Injection(1 .. n, S)
  BY <1>2 DEF Injection, IsInjective, InOrder
<1> HIDE DEF n
<1>4. list \in Surjection(1 .. n, S)
  BY <1>1, <1>3, FS_Injection DEF n
<1> QED BY <1>4 DEF Surjection, n

\* A list of all of S, each once.
ListOf(list, S) ==
  /\ list \in Seq(S) /\ Len(list) = Cardinality(S)
  /\ \A x \in S : \E i \in 1 .. Len(list) : list[i] = x
  /\ \A i, j \in 1 .. Len(list) : i # j => list[i] # list[j]

\* A list of so many, all different, of a set of as many, has all of them.
LEMMA DifferentAll ==
  ASSUME NEW S, IsFiniteSet(S), NEW list \in [1 .. Cardinality(S) -> S],
         \A i, j \in 1 .. Cardinality(S) : i # j => list[i] # list[j]
  PROVE  ListOf(list, S)
<1> DEFINE n == Cardinality(S)
<1>1. n \in Nat /\ IsFiniteSet(1 .. n) /\ Cardinality(1 .. n) = n
  BY FS_CardinalityType, FS_Interval
<1> DEFINE T == {list[i] : i \in 1 .. n}  P == 1 .. n
<1>2. list \in Injection(P, T) /\ T \in SUBSET S
  BY DEF Injection, IsInjective
<1>3. IsFiniteSet(T) /\ IsFiniteSet(P) /\ Cardinality(P) = n
  BY <1>1, <1>2, FS_Subset
<1> HIDE DEF T, P
<1>4. Cardinality(P) <= Cardinality(T)
  BY <1>2, <1>3, FS_Injection
<1>5. T = S
  BY <1>1, <1>2, <1>3, <1>4, FS_Subset, FS_CardinalityType
<1>6. \A x \in S : \E i \in 1 .. n : list[i] = x
  BY <1>5 DEF T
<1> HIDE DEF n
<1>7. list \in Seq(S) /\ Len(list) = n
  BY <1>1 DEF n
<1> QED BY <1>6, <1>7 DEF ListOf, n

\* A list in order has no two alike.
LEMMA InOrderLists ==
  ASSUME NEW S, IsFiniteSet(S), NEW R, Orders(R, S), NEW list, InOrder(list, S, R)
  PROVE  ListOf(list, S)
<1> DEFINE n == Cardinality(S)
<1>1. n \in Nat
  BY FS_CardinalityType
<1>2. list \in [1 .. n -> S]
  BY DEF InOrder
<1>3. \A i, j \in 1 .. n : i # j => list[i] # list[j]
  <2> SUFFICES ASSUME NEW i \in 1 .. n, NEW j \in 1 .. n, i # j PROVE list[i] # list[j]
    OBVIOUS
  <2>1. list[i] \in S /\ list[j] \in S
    BY <1>2
  <2>2. i < j \/ j < i
    BY <1>1
  <2> QED BY <2>1, <2>2 DEF InOrder, Orders
<1> QED BY <1>2, <1>3, DifferentAll

JoinLoop(lists, row) ==
  row = [n \in 0 .. Len(lists) |-> IF n = 0 THEN <<>> ELSE row[n - 1] \o lists[n]]

LEMMA JoinRuns ==
  ASSUME NEW S, NEW lists, Len(lists) \in Nat, \A n \in 1 .. Len(lists) : lists[n] \in Seq(S)
  PROVE  \E row : /\ row[0] = <<>>
                  /\ \A n \in 1 .. Len(lists) : row[n] = row[n - 1] \o lists[n]
                  /\ Joined(lists) = row[Len(lists)]
<1> DEFINE N == Len(lists)  State == Seq(S)  none == <<>>
           step == [p \in (1 .. N) \X State |-> p[2] \o lists[p[1]]]
<1>1. N \in Nat /\ none \in State
  OBVIOUS
<1>2. \A n \in 1 .. N, s \in State : step[<<n, s>>] = s \o lists[n]
  OBVIOUS
<1>3. \A n \in 1 .. N, s \in State : s \o lists[n] \in State
  BY ConcatProperties
<1> HIDE DEF step
<1>4. PICK row : Follows(row, step, none, N, State)
  <2>1. Steps(step, N, State)
    BY <1>2, <1>3 DEF Steps
  <2> HIDE DEF N, State, none
  <2> QED BY <1>1, <2>1, LoopRuns
<1> HIDE DEF State
<1> HIDE DEF N
<1>5. \A n \in 0 .. N : row[n] = IF n = 0 THEN <<>> ELSE row[n - 1] \o lists[n]
  <2>1. row[0] = none
    BY <1>1, <1>4 DEF Follows
  <2>2. ASSUME NEW n \in 1 .. N PROVE row[n] = row[n - 1] \o lists[n]
    <3>1. row[n - 1] \in State
      BY <1>1, <1>4 DEF Follows
    <3> QED BY <1>2, <1>4, <3>1 DEF Follows
  <2>3. \A n \in 0 .. N : n = 0 \/ (n # 0 /\ n \in 1 .. N)
    BY <1>1
  <2> QED BY <2>1, <2>2, <2>3, Zenon
<1>6. row = [n \in 0 .. N |-> row[n]]
  BY <1>4 DEF Follows
<1>7. JoinLoop(lists, row)
  BY <1>5, <1>6, Zenon DEF JoinLoop, N
<1> DEFINE joined == CHOOSE r : JoinLoop(lists, r)
<1>8. JoinLoop(lists, joined) /\ Joined(lists) = joined[N]
  BY <1>7 DEF Joined, JoinLoop, N
<1> HIDE DEF joined
<1>9. joined[0] = <<>> /\ \A n \in 1 .. N : joined[n] = joined[n - 1] \o lists[n]
  <2>1. \A n \in 0 .. N : joined[n] = IF n = 0 THEN <<>> ELSE joined[n - 1] \o lists[n]
    BY <1>8 DEF JoinLoop, N
  <2>2. 0 \in 0 .. N /\ \A n \in 1 .. N : n \in 0 .. N /\ n # 0
    BY <1>1
  <2> QED BY <2>1, <2>2, Zenon
<1> QED BY <1>8, <1>9 DEF N

LEMMA ReverseIs ==
  ASSUME NEW S, NEW list \in Seq(S)
  PROVE  /\ Reverse(list) \in Seq(S) /\ Len(Reverse(list)) = Len(list)
         /\ \A i \in 1 .. Len(list) : Reverse(list)[i] = list[(Len(list) - i) + 1]
<1> DEFINE n == Len(list)  back == Reverse(list)
<1>1. n \in Nat /\ \A i \in 1 .. n : list[i] \in S
  BY LenProperties, ElementOfSeq
<1>2. back = [i \in 1 .. n |-> list[(n - i) + 1]]
  BY DEF Reverse
<1> HIDE DEF n, back
<1>3. \A i \in 1 .. n : (n - i) + 1 \in 1 .. n
  BY <1>1
<1>4. back \in Seq(S) /\ Len(back) = n
  BY <1>1, <1>2, <1>3
<1> QED BY <1>2, <1>4 DEF n, back

-----------------------------------------------------------------------------
(***************************************************************************)
(* Sums, and parts that make a whole.                                      *)
(***************************************************************************)
SumLoop(numbers, sum) ==
  sum = [n \in 0 .. Len(numbers) |-> IF n = 0 THEN 0 ELSE sum[n - 1] + numbers[n]]

LEMMA SumRuns ==
  ASSUME NEW numbers \in Seq(Int)
  PROVE  \E sum \in [0 .. Len(numbers) -> Int] :
           /\ sum[0] = 0
           /\ \A n \in 1 .. Len(numbers) : sum[n] = sum[n - 1] + numbers[n]
           /\ Total(numbers) = sum[Len(numbers)]
<1> DEFINE N == Len(numbers)  State == Int  zero == 0
           step == [p \in (1 .. N) \X Int |-> p[2] + numbers[p[1]]]
<1>1. N \in Nat /\ \A n \in 1 .. N : numbers[n] \in Int
  OBVIOUS
<1>2. \A n \in 1 .. N, s \in Int : step[<<n, s>>] = s + numbers[n]
  OBVIOUS
<1>3. \A n \in 1 .. N, s \in Int : step[<<n, s>>] \in Int
  <2> SUFFICES ASSUME NEW n \in 1 .. N, NEW s \in Int PROVE step[<<n, s>>] \in Int
    OBVIOUS
  <2>1. s + numbers[n] \in Int
    BY <1>1
  <2> QED BY <1>2, <2>1
<1> HIDE DEF step
<1>a. PICK row : Follows(row, step, zero, N, State)
  <2>1. N \in Nat /\ zero \in State
    BY <1>1
  <2>2. Steps(step, N, State)
    BY <1>3 DEF Steps
  <2> HIDE DEF N, State, zero
  <2> QED BY <2>1, <2>2, LoopRuns
<1>4. SumLoop(numbers, row)
  <2>1. row \in [0 .. N -> Int] /\ row[0] = 0
    BY <1>a DEF Follows
  <2>2. \A n \in 1 .. N : row[n] = step[<<n, row[n - 1]>>]
    BY <1>a DEF Follows
  <2>3. \A n \in 0 .. N : row[n] = IF n = 0 THEN 0 ELSE row[n - 1] + numbers[n]
    <3> SUFFICES ASSUME NEW n \in 1 .. N PROVE row[n] = row[n - 1] + numbers[n]
      BY <1>1, <2>1
    <3>1. row[n - 1] \in Int
      BY <1>1, <2>1
    <3> QED BY <1>2, <2>2, <3>1
  <2>4. row = [n \in 0 .. N |-> row[n]]
    BY <2>1
  <2> QED BY <2>3, <2>4, Zenon DEF SumLoop
<1> DEFINE sum == CHOOSE s : SumLoop(numbers, s)
<1>5. SumLoop(numbers, sum) /\ Total(numbers) = sum[N]
  BY <1>4 DEF Total, SumLoop
<1> HIDE DEF sum
<1>6. sum[0] = 0 /\ \A n \in 1 .. N : sum[n] = sum[n - 1] + numbers[n]
  <2>1. \A n \in 0 .. N : sum[n] = IF n = 0 THEN 0 ELSE sum[n - 1] + numbers[n]
    BY <1>5 DEF SumLoop
  <2> QED BY <1>1, <2>1
<1>7. \A n \in 0 .. N : sum[n] \in Int
  <2> DEFINE S == {n \in 0 .. N : sum[n] \in Int}
  <2>1. 0 \in S
    BY <1>1, <1>6
  <2>2. ASSUME NEW n \in 0 .. N - 1, n \in S PROVE n + 1 \in S
    <3>1. n + 1 \in 1 .. N /\ (n + 1) - 1 = n
      BY <1>1
    <3>2. sum[n + 1] = sum[n] + numbers[n + 1]
      BY <1>6, <3>1
    <3> QED BY <1>1, <2>2, <3>1, <3>2
  <2> HIDE DEF S
  <2>3. 0 .. N \subseteq S
    BY <1>1, <2>1, <2>2, UpTo
  <2> QED BY <2>3 DEF S
<1>8. sum = [n \in 0 .. N |-> sum[n]]
  <2> DEFINE Value(n) == IF n = 0 THEN 0 ELSE sum[n - 1] + numbers[n]
  <2>1. sum = [n \in 0 .. N |-> Value(n)]
    BY <1>5 DEF SumLoop
  <2> HIDE DEF Value
  <2> QED BY <2>1
<1>9. sum \in [0 .. N -> Int]
  BY <1>7, <1>8
<1> QED BY <1>5, <1>6, <1>9

LEMMA TotalAppend ==
  ASSUME NEW numbers \in Seq(Int), NEW x \in Int
  PROVE  /\ Total(numbers) \in Int
         /\ Total(Append(numbers, x)) = Total(numbers) + x
<1> DEFINE N == Len(numbers)  more == Append(numbers, x)
<1>1. /\ N \in Nat
      /\ more \in Seq(Int) /\ Len(more) = N + 1 /\ more[N + 1] = x
      /\ \A n \in 1 .. N : more[n] = numbers[n] /\ numbers[n] \in Int
  BY AppendProperties
<1> HIDE DEF more
<1>2. PICK s \in [0 .. N -> Int] :
        /\ s[0] = 0
        /\ \A n \in 1 .. N : s[n] = s[n - 1] + numbers[n]
        /\ Total(numbers) = s[N]
  BY SumRuns
<1>3. PICK t \in [0 .. N + 1 -> Int] :
        /\ t[0] = 0
        /\ \A n \in 1 .. N + 1 : t[n] = t[n - 1] + more[n]
        /\ Total(more) = t[N + 1]
  BY <1>1, SumRuns
<1> HIDE DEF N
<1> DEFINE S == {n \in 0 .. N : s[n] = t[n]}
<1>4. 0 \in S
  BY <1>1, <1>2, <1>3
<1>5. ASSUME NEW n \in 0 .. N - 1, n \in S PROVE n + 1 \in S
  <2>1. n + 1 \in 1 .. N /\ n + 1 \in 1 .. N + 1 /\ (n + 1) - 1 = n /\ n + 1 \in 0 .. N
    BY <1>1
  <2>2. s[n + 1] = s[n] + numbers[n + 1] /\ t[n + 1] = t[n] + more[n + 1]
    BY <1>2, <1>3, <2>1
  <2> QED BY <1>1, <1>5, <2>1, <2>2
<1> HIDE DEF S
<1>6. N \in S
  <2>1. 0 .. N \subseteq S
    BY <1>1, <1>4, <1>5, UpTo
  <2> QED BY <1>1, <2>1
<1>7. s[N] = t[N] /\ s[N] \in Int /\ t[N + 1] = t[(N + 1) - 1] + x /\ (N + 1) - 1 = N
  BY <1>1, <1>2, <1>3, <1>6 DEF S
<1> QED BY <1>2, <1>3, <1>7 DEF more

LEMMA TotalEmpty == Total(<<>>) = 0
<1>1. <<>> \in Seq(Int) /\ Len(<<>>) = 0
  OBVIOUS
<1> QED BY <1>1, SumRuns

LEMMA DisjointUnion ==
  ASSUME NEW S, NEW T, IsFiniteSet(S), IsFiniteSet(T), S \cap T = {}
  PROVE  /\ IsFiniteSet(S \cup T)
         /\ Cardinality(S \cup T) = Cardinality(S) + Cardinality(T)
         /\ Cardinality(S) \in Nat /\ Cardinality(T) \in Nat
<1>1. Cardinality(S) \in Nat /\ Cardinality(T) \in Nat /\ Cardinality(S \cap T) = 0
  BY FS_CardinalityType, FS_EmptySet
<1>2. IsFiniteSet(S \cup T) /\ Cardinality(S \cup T)
        = Cardinality(S) + Cardinality(T) - Cardinality(S \cap T)
  BY FS_Union
<1> QED BY <1>1, <1>2

\* Two parts that are apart count the rows they are parts of.
LEMMA TwoParts ==
  ASSUME NEW rows, IsFiniteSet(rows), NEW one \in SUBSET rows, NEW other \in SUBSET rows,
         one \cap other = {}, \A i \in rows : i \in one \/ i \in other
  PROVE  Cardinality(rows) = Cardinality(one) + Cardinality(other)
<1>1. IsFiniteSet(one) /\ IsFiniteSet(other) /\ rows = one \cup other
  BY FS_Subset
<1> QED BY <1>1, DisjointUnion

\* The values of a function are added up in an order that has each of them once.
LEMMA SumOfLists ==
  ASSUME NEW f, IsFiniteSet(DOMAIN f)
  PROVE  \E list : /\ ListOf(list, DOMAIN f)
                   /\ SumOf(f) = Total([k \in 1 .. Cardinality(DOMAIN f) |-> f[list[k]]])
<1> DEFINE D == DOMAIN f  n == Cardinality(D)
           Fits(list) == \A i, j \in 1 .. n : i # j => list[i] # list[j]
           list == CHOOSE list \in [1 .. n -> D] : Fits(list)
<1>1. n \in Nat /\ ExistsBijection(1 .. n, D)
  BY FS_CardinalityType
<1>2. \E b \in [1 .. n -> D] : Fits(b)
  BY <1>1 DEF ExistsBijection, Bijection, Injection, IsInjective
<1>3. SumOf(f) = Total([k \in 1 .. n |-> f[list[k]]])
  BY DEF SumOf
<1> HIDE DEF Fits
<1>4. list \in [1 .. n -> D] /\ Fits(list)
  BY <1>2
<1> HIDE DEF list
<1>5. ListOf(list, D)
  BY <1>4, DifferentAll DEF Fits
<1> QED BY <1>3, <1>5

\* Parts that are apart and leave nothing out count the whole.
LEMMA PartsCount ==
  ASSUME NEW X, IsFiniteSet(X), NEW K, IsFiniteSet(K), NEW part,
         \A k \in K : part[k] \subseteq X,
         \A x \in X : \E k \in K : x \in part[k],
         \A k, m \in K : k # m => part[k] \cap part[m] = {}
  PROVE  SumOf([k \in K |-> Cardinality(part[k])]) = Cardinality(X)
<1> DEFINE f == [k \in K |-> Cardinality(part[k])]  n == Cardinality(K)
<1>1. n \in Nat
  BY FS_CardinalityType
<1>2. PICK list : ListOf(list, K) /\ SumOf(f) = Total([k \in 1 .. n |-> f[list[k]]])
  <2>1. DOMAIN f = K
    OBVIOUS
  <2> HIDE DEF f
  <2> QED BY <2>1, SumOfLists
<1>3. \A i \in 1 .. n : list[i] \in K
  BY <1>2, ElementOfSeq DEF ListOf
<1> DEFINE numbers == [k \in 1 .. n |-> f[list[k]]]
<1>4. \A k \in K : IsFiniteSet(part[k]) /\ Cardinality(part[k]) \in Nat
  BY FS_Subset, FS_CardinalityType
<1>5. \A i \in 1 .. n : numbers[i] = Cardinality(part[list[i]]) /\ numbers[i] \in Int
  BY <1>3, <1>4
<1>6. numbers \in Seq(Int) /\ Len(numbers) = n
  <2> HIDE DEF f, n
  <2>1. \A i \in 1 .. n : f[list[i]] \in Int
    BY <1>5
  <2> QED BY <1>1, <2>1
<1>7. SumOf(f) = Total(numbers)
  BY <1>2
<1> HIDE DEF numbers, f
<1>8. PICK sum \in [0 .. n -> Int] : /\ sum[0] = 0
                                     /\ \A i \in 1 .. n : sum[i] = sum[i - 1] + numbers[i]
                                     /\ Total(numbers) = sum[n]
  BY <1>6, SumRuns
<1> DEFINE First(m) == {x \in X : \E i \in 1 .. m : x \in part[list[i]]}
           Q == {m \in 0 .. n : sum[m] = Cardinality(First(m))}
<1> HIDE DEF n
<1>9. 0 \in Q
  <2>1. First(0) = {}
    OBVIOUS
  <2>2. 0 \in 0 .. n
    BY <1>1
  <2> HIDE DEF First
  <2> QED BY <1>8, <2>1, <2>2, FS_EmptySet
<1>10. ASSUME NEW m \in 0 .. n - 1, m \in Q PROVE m + 1 \in Q
  <2> DEFINE q == m + 1  next == part[list[q]]
  <2>1. q \in 1 .. n /\ q - 1 = m /\ q \in 0 .. n /\ \A i \in 1 .. q : i \in 1 .. m \/ i = q
    BY <1>1
  <2>2. 1 .. m \subseteq 1 .. n /\ 1 .. m \subseteq 1 .. q /\ q \in 1 .. q /\ q \notin 1 .. m
    BY <1>1
  <2> HIDE DEF q
  <2>3. next \subseteq X /\ IsFiniteSet(next) /\ numbers[q] = Cardinality(next)
    BY <1>3, <1>4, <1>5, <2>1
  <2>4. IsFiniteSet(First(m))
    BY FS_Subset
  <2>5. First(q) = First(m) \cup next
    BY <2>1, <2>2, <2>3
  <2>6. First(m) \cap next = {}
    <3> SUFFICES ASSUME NEW x, x \in First(m), x \in next PROVE FALSE
      OBVIOUS
    <3>1. PICK i \in 1 .. m : x \in part[list[i]]
      OBVIOUS
    <3>2. i \in 1 .. n /\ i # q
      BY <2>2
    <3>3. list[i] # list[q]
      BY <1>2, <2>1, <3>2 DEF ListOf, n
    <3> QED BY <1>3, <2>1, <3>1, <3>2, <3>3
  <2>7. sum[q] = sum[m] + numbers[q] /\ sum[m] = Cardinality(First(m))
    BY <1>8, <1>10, <2>1
  <2> HIDE DEF First, next
  <2>8. Cardinality(First(q)) = Cardinality(First(m)) + Cardinality(next)
    BY <2>3, <2>4, <2>5, <2>6, DisjointUnion
  <2> QED BY <2>1, <2>3, <2>7, <2>8 DEF q
<1>11. n \in Q
  <2> HIDE DEF Q
  <2>1. 0 .. n \subseteq Q
    BY <1>1, <1>9, <1>10, UpTo
  <2> QED BY <1>1, <2>1
<1>12. First(n) = X
  <2> SUFFICES ASSUME NEW x \in X PROVE \E i \in 1 .. n : x \in part[list[i]]
    OBVIOUS
  <2>1. PICK k \in K : x \in part[k]
    OBVIOUS
  <2>2. PICK i \in 1 .. n : list[i] = k
    BY <1>2 DEF ListOf, n
  <2> QED BY <2>1, <2>2
<1> HIDE DEF First
<1> QED BY <1>7, <1>8, <1>11, <1>12 DEF f

-----------------------------------------------------------------------------
(***************************************************************************)
(* Divisions and averages.                                                 *)
(***************************************************************************)
\* What a division leaves.
LEMMA Divided ==
  ASSUME NEW t \in Int, NEW b \in Nat \ {0}
  PROVE  /\ t \div b \in Int /\ t % b \in Int /\ 0 <= t % b /\ t % b < b
         /\ t = b * (t \div b) + (t % b) /\ b * (t \div b) \in Int
<1>1. t \div b \in Int /\ t % b \in Int /\ 0 <= t % b /\ t % b < b
  OBVIOUS
<1>2. t = b * (t \div b) + (t % b)
  OBVIOUS
<1>3. b * (t \div b) \in Int
  BY <1>1
<1> QED BY <1>1, <1>2, <1>3

\* The multiples of a number are as far apart as it.
LEMMA Multiples ==
  ASSUME NEW b \in Nat \ {0}, NEW p \in Int, NEW q \in Int
  PROVE  /\ b * p \in Int /\ b * q \in Int
         /\ p < q => b * p + b <= b * q
         /\ p <= q => b * p <= b * q
<1>1. b * p \in Int /\ b * q \in Int
  OBVIOUS
<1>2. b * q = b * p + b * (q - p)
  OBVIOUS
<1>3. p < q => b * (q - p) >= b /\ b * (q - p) \in Int
  OBVIOUS
<1>4. p = q => b * p = b * q
  OBVIOUS
<1>5. p <= q => p < q \/ p = q
  OBVIOUS
<1> QED BY <1>1, <1>2, <1>3, <1>4, <1>5

\* An average lies between the least and the most of what it is taken over.
LEMMA AverageBetween ==
  ASSUME NEW numbers \in Seq(Int), Len(numbers) # 0, NEW low \in Int, NEW high \in Int,
         \A i \in 1 .. Len(numbers) : low <= numbers[i] /\ numbers[i] <= high
  PROVE  LET avg == Total(numbers) \div Len(numbers)
         IN avg \in Int /\ low <= avg /\ avg <= high
<1> DEFINE n == Len(numbers)
<1>1. n \in Nat \ {0} /\ \A i \in 1 .. n : numbers[i] \in Int
  BY LenProperties, ElementOfSeq
<1>2. PICK sum \in [0 .. n -> Int] : /\ sum[0] = 0
                                     /\ \A i \in 1 .. n : sum[i] = sum[i - 1] + numbers[i]
                                     /\ Total(numbers) = sum[n]
  BY SumRuns
<1>3. \A i \in 1 .. n : low <= numbers[i] /\ numbers[i] <= high
  OBVIOUS
<1> HIDE DEF n
<1> DEFINE Q == {m \in 0 .. n : m * low <= sum[m] /\ sum[m] <= m * high}
<1>4. 0 \in Q
  <2>1. 0 * low = 0 /\ 0 * high = 0 /\ 0 \in 0 .. n
    BY <1>1
  <2> QED BY <1>2, <2>1
<1>5. ASSUME NEW m \in 0 .. n - 1, m \in Q PROVE m + 1 \in Q
  <2>1. m + 1 \in 1 .. n /\ (m + 1) - 1 = m /\ m + 1 \in 0 .. n /\ m \in 0 .. n /\ m \in Int
    BY <1>1
  <2>2. sum[m + 1] = sum[m] + numbers[m + 1]
    BY <1>2, <2>1
  <2>3. (m + 1) * low = m * low + low /\ (m + 1) * high = m * high + high
        /\ m * low \in Int /\ m * high \in Int
    BY <2>1
  <2>4. sum[m] \in Int /\ numbers[m + 1] \in Int
    BY <1>1, <1>2, <2>1
  <2>5. m * low <= sum[m] /\ sum[m] <= m * high
    BY <1>5
  <2>6. (m + 1) * low <= sum[m + 1] /\ sum[m + 1] <= (m + 1) * high
    BY <1>3, <2>1, <2>2, <2>3, <2>4, <2>5
  <2> QED BY <2>1, <2>6
<1> HIDE DEF Q
<1>6. n \in Q
  <2>1. 0 .. n \subseteq Q
    BY <1>1, <1>4, <1>5, UpTo
  <2> QED BY <1>1, <2>1
<1> DEFINE total == sum[n]  avg == total \div n  r == total % n
<1>7. total \in Int /\ n * low <= total /\ total <= n * high
  BY <1>1, <1>2, <1>6 DEF Q
<1> HIDE DEF total
<1>8. avg \in Int /\ r \in Int /\ 0 <= r /\ r < n /\ total = n * avg + r
  BY <1>1, <1>7, Divided
<1> HIDE DEF avg, r
<1> DEFINE a == n * avg  l == n * low  h == n * high
<1>9. /\ a \in Int /\ l \in Int /\ h \in Int
      /\ (avg < low => a + n <= l) /\ (high < avg => h + n <= a)
  BY <1>1, <1>8, Multiples
<1>10. total = a + r /\ l <= total /\ total <= h
  BY <1>7, <1>8
<1> HIDE DEF a, l, h
<1>11. low <= avg /\ avg <= high
  <2>1. ~(avg < low)
    BY <1>1, <1>7, <1>8, <1>9, <1>10
  <2>2. ~(high < avg)
    BY <1>1, <1>7, <1>8, <1>9, <1>10
  <2> QED BY <1>8, <2>1, <2>2
<1> QED BY <1>2, <1>8, <1>11 DEF avg, total, n

\* Averages are compared across: what is at most as much, of so many.
LEMMA Across ==
  ASSUME NEW s \in Int, NEW t \in Int, NEW u \in Int,
         NEW a \in Nat \ {0}, NEW b \in Nat \ {0}, NEW c \in Nat \ {0},
         s * b <= t * a, t * c <= u * b
  PROVE  s * c <= u * a
<1>1. (s * b) * c <= (t * a) * c
  <2>1. s * b \in Int /\ t * a \in Int /\ c \in Nat
    OBVIOUS
  <2> QED BY <2>1
<1>2. (t * c) * a <= (u * b) * a
  <2>1. t * c \in Int /\ u * b \in Int /\ a \in Nat
    OBVIOUS
  <2> QED BY <2>1
<1>3. (s * b) * c = (s * c) * b /\ (t * a) * c = (t * c) * a /\ (u * b) * a = (u * a) * b
  OBVIOUS
<1> DEFINE x == s * c  y == u * a
<1>4. x \in Int /\ y \in Int /\ x * b <= y * b
  <2>1. (s * b) * c \in Int /\ (t * a) * c \in Int /\ (u * b) * a \in Int
    OBVIOUS
  <2> QED BY <1>1, <1>2, <1>3, <2>1
<1> HIDE DEF x, y
<1>5. ASSUME x > y PROVE FALSE
  <2>1. x - y \in Nat \ {0} /\ x * b = y * b + (x - y) * b
    BY <1>4, <1>5
  <2>2. (x - y) * b >= 1
    BY <2>1
  <2>3. x * b \in Int /\ y * b \in Int /\ (x - y) * b \in Int
    BY <1>4
  <2> QED BY <1>4, <2>1, <2>2, <2>3
<1> QED BY <1>4, <1>5 DEF x, y

-----------------------------------------------------------------------------
(***************************************************************************)
(* Detection: the coverage of a frame.                                     *)
(***************************************************************************)
\* The boxes kept after each one looked at.
KeptLoop(bs, row) ==
  row = [n \in 0 .. Len(bs) |-> IF n = 0 THEN <<>> ELSE Suppressed(row[n - 1], bs[n])]

LEMMA KeptRuns ==
  ASSUME NEW B, NEW bs \in Seq(B)
  PROVE  KeptLoop(bs, KeptOf(bs))
<1> DEFINE State == Seq(B)
           step == [p \in (1 .. Len(bs)) \X State |-> Suppressed(p[2], bs[p[1]])]
<1>1. \A n \in 1 .. Len(bs), s \in State : step[<<n, s>>] = Suppressed(s, bs[n])
  OBVIOUS
<1>2. \A n \in 1 .. Len(bs), s \in State : Suppressed(s, bs[n]) \in State
  <2> SUFFICES ASSUME NEW n \in 1 .. Len(bs), NEW s \in State
               PROVE  Suppressed(s, bs[n]) \in State
    OBVIOUS
  <2>1. bs[n] \in B
    BY ElementOfSeq
  <2> QED BY <2>1, AppendProperties DEF Suppressed
<1>3. Len(bs) \in Nat /\ <<>> \in State
  OBVIOUS
<1> HIDE DEF step, State
<1>4. PICK row : Follows(row, step, <<>>, Len(bs), State)
  <2>1. Steps(step, Len(bs), State)
    BY <1>1, <1>2 DEF Steps
  <2> QED BY <1>3, <2>1, LoopRuns
<1>5. \A n \in 0 .. Len(bs) :
        row[n] = IF n = 0 THEN <<>> ELSE Suppressed(row[n - 1], bs[n])
  <2> SUFFICES ASSUME NEW n \in 1 .. Len(bs) PROVE row[n] = Suppressed(row[n - 1], bs[n])
    BY <1>3, <1>4 DEF Follows
  <2>1. row[n - 1] \in State
    BY <1>3, <1>4 DEF Follows
  <2> QED BY <1>1, <1>4, <2>1 DEF Follows
<1>6. row = [n \in 0 .. Len(bs) |-> row[n]]
  BY <1>4 DEF Follows
<1>7. KeptLoop(bs, row)
  BY <1>5, <1>6, Zenon DEF KeptLoop
<1>8. KeptOf(bs) = CHOOSE r : KeptLoop(bs, r)
  BY DEF KeptOf, KeptLoop
<1> QED BY <1>7, <1>8

LEMMA OverlapSymmetric ==
  ASSUME NEW a \in Box, NEW b \in Box
  PROVE  Overlap(a, b) <=> Overlap(b, a)
<1>1. \A a1, a2, b1, b2 \in Int : Shared(a1, a2, b1, b2) = Shared(b1, b2, a1, a2)
  BY DEF Shared
<1>2. /\ a.x1 \in Int /\ a.x2 \in Int /\ a.y1 \in Int /\ a.y2 \in Int
      /\ b.x1 \in Int /\ b.x2 \in Int /\ b.y1 \in Int /\ b.y2 \in Int
  BY DEF Box
<1>3. Intersection(a, b) = Intersection(b, a)
  BY <1>1, <1>2 DEF Intersection
<1>4. Area(a) \in Int /\ Area(b) \in Int
  BY <1>2 DEF Area
<1> QED BY <1>3, <1>4 DEF Overlap

\* What has been kept of the first n boxes.
KeptWell(bs, n, kept) ==
  /\ kept \in Seq(Box)
  /\ \A i, j \in 1 .. Len(kept) : i # j => ~Overlap(kept[i], kept[j])
  /\ \A k \in 1 .. Len(kept) : \E j \in 1 .. n : kept[k] = bs[j]
  /\ \A i \in 1 .. n :
       \/ \E k \in 1 .. Len(kept) : kept[k] = bs[i]
       \/ \E j \in 1 .. i - 1 :
            Overlap(bs[j], bs[i]) /\ \E k \in 1 .. Len(kept) : kept[k] = bs[j]

LEMMA SuppressedWell ==
  ASSUME NEW bs \in Seq(Box), NEW n \in 1 .. Len(bs), NEW kept,
         KeptWell(bs, n - 1, kept)
  PROVE  KeptWell(bs, n, Suppressed(kept, bs[n]))
<1> DEFINE b == bs[n]  more == Suppressed(kept, b)
<1>1. b \in Box /\ kept \in Seq(Box) /\ DOMAIN kept = 1 .. Len(kept) /\ Len(kept) \in Nat
  BY DEF KeptWell
<1>2. CASE \E i \in DOMAIN kept : Overlap(kept[i], b)
  <2>1. more = kept
    BY <1>2 DEF Suppressed
  <2>2. PICK k \in 1 .. Len(kept) : Overlap(kept[k], b)
    BY <1>1, <1>2
  <2>3. PICK j \in 1 .. n - 1 : kept[k] = bs[j]
    BY DEF KeptWell
  <2>4. Overlap(bs[j], bs[n]) /\ \E l \in 1 .. Len(kept) : kept[l] = bs[j]
    BY <2>2, <2>3
  <2>5. \A i \in 1 .. n : i = n \/ i \in 1 .. n - 1
    OBVIOUS
  <2>6. \A l \in 1 .. Len(kept) : \E m \in 1 .. n : kept[l] = bs[m]
    <3> SUFFICES ASSUME NEW l \in 1 .. Len(kept) PROVE \E m \in 1 .. n : kept[l] = bs[m]
      OBVIOUS
    <3>1. PICK m \in 1 .. n - 1 : kept[l] = bs[m]
      BY DEF KeptWell
    <3> QED BY <3>1
  <2>7. KeptWell(bs, n, kept)
    <3>1. j \in 1 .. n - 1
      OBVIOUS
    <3> QED BY <2>4, <2>5, <2>6, <3>1 DEF KeptWell
  <2> QED BY <2>1, <2>7
<1>3. CASE ~ \E i \in DOMAIN kept : Overlap(kept[i], b)
  <2>1. more = Append(kept, b)
    BY <1>3 DEF Suppressed
  <2>2. /\ more \in Seq(Box) /\ Len(more) = Len(kept) + 1 /\ more[Len(kept) + 1] = b
        /\ \A i \in 1 .. Len(kept) : more[i] = kept[i]
    BY <1>1, <2>1, AppendProperties
  <2> HIDE DEF more
  <2>3. \A i \in 1 .. Len(more) : i = Len(kept) + 1 \/ i \in 1 .. Len(kept)
    BY <1>1, <2>2
  <2>4. \A i \in 1 .. Len(kept) : ~Overlap(kept[i], b) /\ ~Overlap(b, kept[i])
    <3> SUFFICES ASSUME NEW i \in 1 .. Len(kept) PROVE ~Overlap(kept[i], b) /\ ~Overlap(b, kept[i])
      OBVIOUS
    <3>1. kept[i] \in Box
      BY <1>1
    <3> QED BY <1>1, <1>3, <3>1, OverlapSymmetric
  <2>5. \A i, j \in 1 .. Len(more) : i # j => ~Overlap(more[i], more[j])
    <3> SUFFICES ASSUME NEW i \in 1 .. Len(more), NEW j \in 1 .. Len(more), i # j
                 PROVE  ~Overlap(more[i], more[j])
      OBVIOUS
    <3> HIDE DEF b
    <3>1. CASE i \in 1 .. Len(kept) /\ j \in 1 .. Len(kept)
      BY <2>2, <3>1 DEF KeptWell
    <3>2. CASE i = Len(kept) + 1
      <4>1. j \in 1 .. Len(kept)
        BY <2>3, <3>2
      <4> QED BY <2>2, <2>4, <3>2, <4>1
    <3>3. CASE j = Len(kept) + 1
      <4>1. i \in 1 .. Len(kept)
        BY <2>3, <3>3
      <4> QED BY <2>2, <2>4, <3>3, <4>1
    <3> QED BY <2>3, <3>1, <3>2, <3>3
  <2>6. \A k \in 1 .. Len(more) : \E j \in 1 .. n : more[k] = bs[j]
    <3> SUFFICES ASSUME NEW k \in 1 .. Len(more) PROVE \E j \in 1 .. n : more[k] = bs[j]
      OBVIOUS
    <3>1. CASE k = Len(kept) + 1
      BY <2>2, <3>1
    <3>2. CASE k \in 1 .. Len(kept)
      <4>1. PICK m \in 1 .. n - 1 : kept[k] = bs[m]
        BY <3>2 DEF KeptWell
      <4>2. m \in 1 .. n
        OBVIOUS
      <4> QED BY <2>2, <3>2, <4>1, <4>2
    <3> QED BY <2>3, <3>1, <3>2
  <2>7. \A c : (\E k \in 1 .. Len(kept) : kept[k] = c) => \E k \in 1 .. Len(more) : more[k] = c
    <3> SUFFICES ASSUME NEW k \in 1 .. Len(kept) PROVE \E l \in 1 .. Len(more) : more[l] = kept[k]
      OBVIOUS
    <3>1. k \in 1 .. Len(more)
      BY <1>1, <2>2
    <3> QED BY <2>2, <3>1
  <2>8. \A i \in 1 .. n :
          \/ \E k \in 1 .. Len(more) : more[k] = bs[i]
          \/ \E j \in 1 .. i - 1 :
               Overlap(bs[j], bs[i]) /\ \E k \in 1 .. Len(more) : more[k] = bs[j]
    <3> SUFFICES ASSUME NEW i \in 1 .. n
                 PROVE \/ \E k \in 1 .. Len(more) : more[k] = bs[i]
                       \/ \E j \in 1 .. i - 1 : /\ Overlap(bs[j], bs[i])
                                                /\ \E k \in 1 .. Len(more) : more[k] = bs[j]
      OBVIOUS
    <3>1. CASE i = n
      <4>1. Len(kept) + 1 \in 1 .. Len(more)
        BY <1>1, <2>2
      <4> QED BY <2>2, <3>1, <4>1
    <3>2. CASE i \in 1 .. n - 1
      BY <2>7, <3>2 DEF KeptWell
    <3> QED BY <3>1, <3>2
  <2> HIDE DEF b
  <2> QED BY <2>1, <2>2, <2>5, <2>6, <2>8 DEF KeptWell, b, more
<1> QED BY <1>2, <1>3

LEMMA KeptIsWell ==
  ASSUME NEW bs \in Seq(Box)
  PROVE  KeptWell(bs, Len(bs), Kept(bs))
<1> DEFINE row == KeptOf(bs)
           S == {n \in 0 .. Len(bs) : KeptWell(bs, n, row[n])}
<1>1. \A n \in 0 .. Len(bs) :
        row[n] = IF n = 0 THEN <<>> ELSE Suppressed(row[n - 1], bs[n])
  BY KeptRuns DEF KeptLoop
<1>2. Len(bs) \in Nat
  OBVIOUS
<1>3. 0 \in S
  <2>1. row[0] = <<>> /\ 0 \in 0 .. Len(bs)
    BY <1>1, <1>2
  <2>2. KeptWell(bs, 0, <<>>)
    BY DEF KeptWell
  <2> QED BY <2>1, <2>2
<1>4. ASSUME NEW n \in 0 .. Len(bs) - 1, n \in S PROVE n + 1 \in S
  <2>1. n + 1 \in 1 .. Len(bs) /\ (n + 1) - 1 = n /\ n + 1 \in 0 .. Len(bs) /\ n + 1 # 0
    BY <1>2
  <2>2. row[n + 1] = Suppressed(row[n], bs[n + 1])
    BY <1>1, <2>1
  <2>3. KeptWell(bs, n, row[n])
    BY <1>4
  <2> HIDE DEF row
  <2>4. KeptWell(bs, n + 1, Suppressed(row[n], bs[n + 1]))
    BY <2>1, <2>3, SuppressedWell
  <2> QED BY <2>1, <2>2, <2>4
<1> HIDE DEF S, row
<1>5. Len(bs) \in S
  <2>1. 0 .. Len(bs) \subseteq S
    BY <1>2, <1>3, <1>4, UpTo
  <2> QED BY <1>2, <2>1
<1> QED BY <1>5 DEF S, row, Kept

Span == Nat \X Nat

\* Spans in the order of their starts, none of them empty.
SpansInOrder(spans) ==
  /\ spans \in Seq(Span)
  /\ \A i \in 1 .. Len(spans) : spans[i][1] < spans[i][2]
  /\ \A i, j \in 1 .. Len(spans) : i < j => spans[i][1] <= spans[j][1]

\* The columns of the first n spans.
Filled(spans, n) ==
  {c \in Nat : \E i \in 1 .. n : spans[i][1] <= c /\ c < spans[i][2]}

\* What has been merged of the first n spans is as wide as they are, and its last
\* span is filled and has nothing beyond it.
MergedWell(spans, n, merged) ==
  /\ merged \in Seq(Span)
  /\ merged = <<>> <=> n = 0
  /\ IsFiniteSet(Filled(spans, n))
  /\ Total(Widths(merged)) = Cardinality(Filled(spans, n))
  /\ n # 0 =>
       /\ Last(merged)[1] <= spans[n][1] /\ Last(merged)[1] < Last(merged)[2]
       /\ Last(merged)[1] .. Last(merged)[2] - 1 \subseteq Filled(spans, n)
       /\ \A c \in Filled(spans, n) : c < Last(merged)[2]

LEMMA WidthsAppend ==
  ASSUME NEW spans \in Seq(Span), NEW s \in Span
  PROVE  /\ Total(Widths(spans)) \in Int
         /\ Total(Widths(Append(spans, s))) = Total(Widths(spans)) + (s[2] - s[1])
<1> DEFINE N == Len(spans)  more == Append(spans, s)
<1>1. /\ N \in Nat /\ DOMAIN spans = 1 .. N
      /\ more \in Seq(Span) /\ Len(more) = N + 1 /\ more[N + 1] = s
      /\ \A n \in 1 .. N : more[n] = spans[n] /\ spans[n] \in Span
  BY AppendProperties
<1>2. DOMAIN more = 1 .. N + 1
  BY <1>1
<1> HIDE DEF more
<1>3. \A n \in 1 .. N : spans[n][1] \in Int /\ spans[n][2] \in Int
  <2> SUFFICES ASSUME NEW n \in 1 .. N PROVE spans[n][1] \in Int /\ spans[n][2] \in Int
    OBVIOUS
  <2>1. spans[n] \in Span
    BY <1>1
  <2> QED BY <2>1 DEF Span
<1>4. s[1] \in Int /\ s[2] \in Int /\ s[2] - s[1] \in Int
  BY DEF Span
<1>5. Widths(spans) \in Seq(Int) /\ Len(Widths(spans)) = N
  BY <1>1, <1>3 DEF Widths
<1>6. Widths(more) = Append(Widths(spans), s[2] - s[1])
  <2> DEFINE w == Widths(more)  v == Append(Widths(spans), s[2] - s[1])
  <2>1. v \in Seq(Int) /\ Len(v) = N + 1 /\ v[N + 1] = s[2] - s[1]
        /\ \A n \in 1 .. N : v[n] = Widths(spans)[n]
    BY <1>1, <1>4, <1>5, AppendProperties
  <2>2. \A n \in 1 .. N : Widths(spans)[n] = spans[n][2] - spans[n][1]
    BY <1>1 DEF Widths
  <2>3. \A n \in 1 .. N + 1 : more[n][2] - more[n][1] \in Int
    <3> SUFFICES ASSUME NEW n \in 1 .. N + 1 PROVE more[n][2] - more[n][1] \in Int
      OBVIOUS
    <3> HIDE DEF N
    <3>1. n = N + 1 \/ n \in 1 .. N
      BY <1>1
    <3> QED BY <1>1, <1>3, <1>4, <3>1
  <2>4. w = [n \in 1 .. N + 1 |-> more[n][2] - more[n][1]]
    BY <1>2 DEF Widths
  <2>5. w \in Seq(Int) /\ Len(w) = N + 1
    BY <1>1, <2>3, <2>4
  <2>6. \A n \in 1 .. N + 1 : w[n] = v[n]
    <3> SUFFICES ASSUME NEW n \in 1 .. N + 1 PROVE w[n] = v[n]
      OBVIOUS
    <3>1. CASE n = N + 1
      BY <1>1, <2>1, <2>4, <3>1
    <3>2. CASE n \in 1 .. N
      BY <1>1, <2>1, <2>2, <2>4, <3>2
    <3> HIDE DEF N, w, v
    <3>3. n = N + 1 \/ n \in 1 .. N
      BY <1>1
    <3> QED BY <3>1, <3>2, <3>3
  <2> HIDE DEF w, v
  <2> QED BY <2>1, <2>5, <2>6, SeqEqual DEF w, v
<1> QED BY <1>4, <1>5, <1>6, TotalAppend DEF more

\* Replacing the last span by a wider one adds what is wider.
LEMMA WidthsStretched ==
  ASSUME NEW spans \in Seq(Span), spans # <<>>, NEW e \in Nat
  PROVE  LET wider == Append(Front(spans), <<Last(spans)[1], e>>) IN
           /\ wider \in Seq(Span) /\ wider # <<>> /\ Last(wider) = <<Last(spans)[1], e>>
           /\ Total(Widths(wider)) = Total(Widths(spans)) + (e - Last(spans)[2])
<1> DEFINE N == Len(spans)  front == Front(spans)  l == Last(spans)
           wider == Append(front, <<l[1], e>>)
<1>1. N \in Nat /\ N > 0
  BY EmptySeq
<1>2. l \in Span /\ l = spans[N]
  BY <1>1 DEF Last
<1>3. l[1] \in Nat /\ l[2] \in Nat /\ <<l[1], l[2]>> = l /\ <<l[1], e>> \in Span
  BY <1>2 DEF Span
<1>4. front = SubSeq(spans, 1, N - 1)
  BY DEF Front
<1>5. /\ front \in Seq(Span) /\ Len(front) = N - 1
      /\ \A i \in 1 .. N - 1 : front[i] = spans[i]
  <2> DEFINE m == N - 1  f == SubSeq(spans, 1, m)
  <2>1. m \in Int /\ 1 \in Int /\ \A i \in 1 .. m : spans[i] \in Span
    BY <1>1
  <2> HIDE DEF m
  <2>2. /\ f \in Seq(Span) /\ Len(f) = IF 1 <= m THEN m - 1 + 1 ELSE 0
        /\ \A i \in 1 .. m - 1 + 1 : f[i] = spans[1 + i - 1]
    BY <2>1, SubSeqProperties
  <2> HIDE DEF f
  <2>3. Len(f) = m /\ \A i \in 1 .. m : f[i] = spans[i]
    <3>1. m \in Nat
      BY <1>1 DEF m
    <3>2. m - 1 + 1 = m /\ (~(1 <= m) => m = 0) /\ \A i \in 1 .. m : 1 + i - 1 = i
      BY <3>1
    <3> QED BY <2>2, <3>2
  <2> QED BY <1>4, <2>2, <2>3 DEF m, f
<1>6. Append(front, l) = spans
  <2> DEFINE t == Append(front, l)
  <2>1. /\ t \in Seq(Span) /\ Len(t) = N
        /\ t[N] = l /\ \A i \in 1 .. N - 1 : t[i] = spans[i]
    <3>1. /\ t \in Seq(Span) /\ Len(t) = Len(front) + 1 /\ t[Len(front) + 1] = l
          /\ \A i \in 1 .. Len(front) : t[i] = front[i]
      BY <1>2, <1>5, AppendProperties
    <3> HIDE DEF t
    <3> QED BY <1>1, <1>5, <3>1
  <2> HIDE DEF t
  <2>2. \A i \in 1 .. N : t[i] = spans[i]
    BY <1>1, <1>2, <2>1
  <2> QED BY <2>1, <2>2, SeqEqual DEF t
<1> HIDE DEF front, l
<1>7. Total(Widths(spans)) = Total(Widths(front)) + (l[2] - l[1]) /\ Total(Widths(front)) \in Int
  BY <1>2, <1>5, <1>6, WidthsAppend
<1>8. Total(Widths(wider)) = Total(Widths(front)) + (e - l[1])
  <2>1. <<l[1], e>>[1] = l[1] /\ <<l[1], e>>[2] = e
    OBVIOUS
  <2> DEFINE s == <<l[1], e>>
  <2>2. s \in Span
    BY <1>3
  <2> HIDE DEF s
  <2>3. Total(Widths(Append(front, s))) = Total(Widths(front)) + (s[2] - s[1])
    BY <1>5, <2>2, WidthsAppend
  <2> QED BY <2>1, <2>3 DEF s
<1>9. /\ wider \in Seq(Span) /\ Len(wider) = N /\ wider[N] = <<l[1], e>>
  <2>1. /\ wider \in Seq(Span) /\ Len(wider) = Len(front) + 1
        /\ wider[Len(front) + 1] = <<l[1], e>>
    BY <1>3, <1>5, AppendProperties
  <2> HIDE DEF wider
  <2> QED BY <1>1, <1>5, <2>1
<1> HIDE DEF wider
<1>10. wider # <<>> /\ Last(wider) = <<l[1], e>>
  BY <1>1, <1>9 DEF Last
<1>11. Total(Widths(wider)) = Total(Widths(spans)) + (e - l[2])
  BY <1>3, <1>7, <1>8
<1> QED BY <1>9, <1>10, <1>11 DEF wider, front, l

\* A step of the merge: either a span of its own, or more of the last one.
LEMMA MergeStep ==
  ASSUME NEW spans, SpansInOrder(spans), NEW n \in 1 .. Len(spans), NEW merged,
         MergedWell(spans, n - 1, merged)
  PROVE  MergedWell(spans, n, Merged(merged, spans[n]))
<1> DEFINE s == spans[n]  old == Filled(spans, n - 1)  new == Filled(spans, n)
           l == Last(merged)
<1>1. /\ s \in Span /\ s[1] \in Nat /\ s[2] \in Nat /\ s[1] < s[2] /\ n \in Nat /\ n # 0
  BY DEF SpansInOrder, Span
<1>2. new = old \cup (s[1] .. s[2] - 1)
  <2>1. \A c : c \in s[1] .. s[2] - 1 <=> c \in Nat /\ s[1] <= c /\ c < s[2]
    BY <1>1
  <2>2. \A i : i \in 1 .. n <=> i \in 1 .. n - 1 \/ i = n
    BY <1>1
  <2> HIDE DEF s
  <2>3. \A c : c \in new <=> c \in old \/ (c \in Nat /\ s[1] <= c /\ c < s[2])
    BY <2>2 DEF Filled, s
  <2> QED BY <2>1, <2>3
<1>3. \A c \in old : c \in Nat
  BY DEF Filled
<1>4. /\ merged \in Seq(Span) /\ (merged = <<>> <=> n = 1) /\ IsFiniteSet(old)
      /\ Total(Widths(merged)) = Cardinality(old)
  BY <1>1 DEF MergedWell
<1>5. n # 1 => /\ l[1] <= s[1] /\ l[1] < l[2] /\ l \in Span /\ l[1] \in Nat /\ l[2] \in Nat
               /\ l[1] .. l[2] - 1 \subseteq old /\ \A c \in old : c < l[2]
  <2> SUFFICES ASSUME n # 1
               PROVE  /\ l[1] <= s[1] /\ l[1] < l[2] /\ l \in Span /\ l[1] \in Nat /\ l[2] \in Nat
                      /\ l[1] .. l[2] - 1 \subseteq old /\ \A c \in old : c < l[2]
    OBVIOUS
  <2>1. merged # <<>> /\ Len(merged) \in Nat /\ Len(merged) > 0
    BY <1>4, EmptySeq
  <2>2. l \in Span /\ l[1] \in Nat /\ l[2] \in Nat
    BY <1>4, <2>1 DEF Last, Span
  <2>3. n - 1 \in 1 .. Len(spans) /\ n - 1 < n /\ spans[n - 1][1] <= s[1] /\ spans[n - 1] \in Span
    BY <1>1 DEF SpansInOrder
  <2>4. spans[n - 1][1] \in Nat
    BY <2>3 DEF Span
  <2>5. l[1] <= spans[n - 1][1] /\ l[1] < l[2]
        /\ l[1] .. l[2] - 1 \subseteq old /\ \A c \in old : c < l[2]
    BY <1>1, <2>3 DEF MergedWell
  <2> QED BY <1>1, <2>2, <2>3, <2>4, <2>5
<1> HIDE DEF s, old, new, l
<1>6. CASE merged = <<>> \/ s[1] > l[2]
  <2> DEFINE more == Append(merged, s)  own == s[1] .. s[2] - 1
  <2>1. Merged(merged, s) = more
    BY <1>6 DEF Merged, l
  <2>2. IsFiniteSet(own) /\ Cardinality(own) = s[2] - s[1]
    <3>1. /\ s[1] \in Int /\ s[2] - 1 \in Int /\ ~(s[1] > s[2] - 1)
          /\ (s[2] - 1) - s[1] + 1 = s[2] - s[1]
      BY <1>1
    <3> QED BY <3>1, FS_Interval
  <2>3. old \cap own = {}
    <3>1. CASE n = 1
      <4>1. old = {}
        BY <3>1 DEF old, Filled
      <4> QED BY <4>1
    <3>2. CASE n # 1
      <4>1. l[2] < s[1] /\ \A c \in old : c < l[2]
        BY <1>1, <1>4, <1>5, <1>6, <3>2
      <4>2. \A c \in own : s[1] <= c /\ c \in Int
        BY <1>1
      <4> QED BY <1>1, <1>3, <1>5, <3>2, <4>1, <4>2
    <3> QED BY <3>1, <3>2
  <2>4. IsFiniteSet(new) /\ Cardinality(new) = Cardinality(old) + (s[2] - s[1])
    <3> HIDE DEF own
    <3>1. IsFiniteSet(old \cup own)
          /\ Cardinality(old \cup own) = Cardinality(old) + Cardinality(own)
      BY <1>4, <2>2, <2>3, DisjointUnion
    <3> QED BY <1>2, <2>2, <3>1 DEF own
  <2>5. Total(Widths(more)) = Cardinality(new)
    BY <1>1, <1>4, <2>4, WidthsAppend
  <2>6. more \in Seq(Span) /\ more # <<>> /\ Last(more) = s
    BY <1>1, <1>4, AppendProperties DEF Last
  <2> HIDE DEF more
  <2>7. /\ Last(more)[1] <= s[1] /\ Last(more)[1] < Last(more)[2]
        /\ Last(more)[1] .. Last(more)[2] - 1 \subseteq new
        /\ \A c \in new : c < Last(more)[2]
    <3>1. \A c \in own : c < s[2]
      BY <1>1
    <3>2. \A c \in old : c < s[2]
      <4> SUFFICES ASSUME NEW c \in old PROVE c < s[2]
        OBVIOUS
      <4>1. n # 1
        BY DEF old, Filled
      <4>2. l[2] < s[1] /\ c < l[2] /\ c \in Nat
        BY <1>1, <1>3, <1>4, <1>5, <1>6, <4>1
      <4> QED BY <1>1, <1>5, <4>1, <4>2
    <3> QED BY <1>1, <1>2, <2>6, <3>1, <3>2
  <2>8. MergedWell(spans, n, more)
    BY <1>1, <2>4, <2>5, <2>6, <2>7 DEF MergedWell, new, s
  <2> QED BY <2>1, <2>8 DEF s
<1>7. CASE ~(merged = <<>> \/ s[1] > l[2])
  <2> DEFINE e == IF s[2] > l[2] THEN s[2] ELSE l[2]
             more == Append(Front(merged), <<l[1], e>>)  own == l[2] .. e - 1
  <2>1. Merged(merged, s) = more
    BY <1>7 DEF Merged, l
  <2>2. n # 1 /\ s[1] <= l[2] /\ e \in Nat /\ l[2] <= e /\ s[2] <= e
    BY <1>1, <1>4, <1>5, <1>7
  <2>3. IsFiniteSet(own) /\ Cardinality(own) = e - l[2]
    <3>1. /\ l[2] \in Int /\ e - 1 \in Int
          /\ (IF l[2] > e - 1 THEN 0 ELSE (e - 1) - l[2] + 1) = e - l[2]
      BY <1>5, <2>2
    <3> HIDE DEF e
    <3> QED BY <3>1, FS_Interval
  <2>4. old \cap own = {}
    <3>1. \A c \in own : l[2] <= c /\ c \in Int
      BY <1>5, <2>2
    <3> QED BY <1>3, <1>5, <2>2, <3>1
  <2>5. new = old \cup own
    <3>1. own \subseteq s[1] .. s[2] - 1
      BY <1>1, <1>5, <2>2
    <3>2. \A c \in s[1] .. s[2] - 1 : c \in l[1] .. l[2] - 1 \/ c \in own
      BY <1>1, <1>5, <2>2
    <3> QED BY <1>2, <1>5, <2>2, <3>1, <3>2
  <2>6. IsFiniteSet(new) /\ Cardinality(new) = Cardinality(old) + (e - l[2])
    <3> HIDE DEF own, e
    <3>1. IsFiniteSet(old \cup own)
          /\ Cardinality(old \cup own) = Cardinality(old) + Cardinality(own)
      BY <1>4, <2>3, <2>4, DisjointUnion
    <3> QED BY <2>3, <2>5, <3>1
  <2> HIDE DEF e
  <2>7. /\ more \in Seq(Span) /\ more # <<>> /\ Last(more) = <<l[1], e>>
        /\ Total(Widths(more)) = Total(Widths(merged)) + (e - l[2])
    BY <1>4, <1>7, <2>2, WidthsStretched DEF l
  <2> HIDE DEF more, own
  <2>8. /\ Last(more)[1] <= s[1] /\ Last(more)[1] < Last(more)[2]
        /\ Last(more)[1] .. Last(more)[2] - 1 \subseteq new
        /\ \A c \in new : c < Last(more)[2]
    <3>1. Last(more)[1] = l[1] /\ Last(more)[2] = e
      BY <2>7
    <3>2. l[1] <= s[1] /\ l[1] < e
      BY <1>5, <2>2
    <3>3. l[1] .. e - 1 \subseteq new
      <4>1. \A c \in l[1] .. e - 1 : c \in l[1] .. l[2] - 1 \/ c \in own
        BY <1>5, <2>2 DEF own
      <4> QED BY <1>5, <2>2, <2>5, <4>1
    <3>4. \A c \in new : c < e
      <4>1. \A c \in own : c < e
        BY <1>5, <2>2 DEF own
      <4>2. \A c \in old : c < e
        BY <1>3, <1>5, <2>2
      <4> QED BY <2>5, <4>1, <4>2
    <3> QED BY <3>1, <3>2, <3>3, <3>4
  <2>9. MergedWell(spans, n, more)
    BY <1>1, <1>4, <2>6, <2>7, <2>8 DEF MergedWell, new, s
  <2> QED BY <2>1, <2>9 DEF s
<1> QED BY <1>6, <1>7

MergeLoop(spans, row) ==
  row = [n \in 0 .. Len(spans) |-> IF n = 0 THEN <<>> ELSE Merged(row[n - 1], spans[n])]

LEMMA MergeRuns ==
  ASSUME NEW spans \in Seq(Span)
  PROVE  MergeLoop(spans, MergedOf(spans))
<1> DEFINE State == Seq(Span)
           step == [p \in (1 .. Len(spans)) \X State |-> Merged(p[2], spans[p[1]])]
<1>1. \A n \in 1 .. Len(spans), m \in State : step[<<n, m>>] = Merged(m, spans[n])
  OBVIOUS
<1>2. \A n \in 1 .. Len(spans), m \in State : Merged(m, spans[n]) \in State
  <2> SUFFICES ASSUME NEW n \in 1 .. Len(spans), NEW m \in State
               PROVE  Merged(m, spans[n]) \in State
    OBVIOUS
  <2>1. spans[n] \in Span
    BY ElementOfSeq
  <2>2. CASE m = <<>> \/ spans[n][1] > Last(m)[2]
    BY <2>1, <2>2, AppendProperties DEF Merged
  <2>3. CASE ~(m = <<>> \/ spans[n][1] > Last(m)[2])
    <3> DEFINE e == IF spans[n][2] > Last(m)[2] THEN spans[n][2] ELSE Last(m)[2]
    <3>1. Len(m) \in Nat /\ Len(m) > 0
      BY <2>3, EmptySeq
    <3>2. Last(m) \in Span
      BY <3>1 DEF Last
    <3>3. e \in Nat
      BY <2>1, <3>2 DEF Span
    <3> HIDE DEF e
    <3>4. Append(Front(m), <<Last(m)[1], e>>) \in Seq(Span)
      BY <2>3, <3>3, WidthsStretched
    <3> QED BY <2>3, <3>4 DEF Merged, e
  <2> QED BY <2>2, <2>3
<1>3. Len(spans) \in Nat /\ <<>> \in State
  OBVIOUS
<1> HIDE DEF step, State
<1>4. PICK row : Follows(row, step, <<>>, Len(spans), State)
  <2>1. Steps(step, Len(spans), State)
    BY <1>1, <1>2 DEF Steps
  <2> QED BY <1>3, <2>1, LoopRuns
<1>5. \A n \in 0 .. Len(spans) :
        row[n] = IF n = 0 THEN <<>> ELSE Merged(row[n - 1], spans[n])
  <2> SUFFICES ASSUME NEW n \in 1 .. Len(spans) PROVE row[n] = Merged(row[n - 1], spans[n])
    BY <1>3, <1>4 DEF Follows
  <2>1. row[n - 1] \in State
    BY <1>3, <1>4 DEF Follows
  <2> QED BY <1>1, <1>4, <2>1 DEF Follows
<1>6. row = [n \in 0 .. Len(spans) |-> row[n]]
  BY <1>4 DEF Follows
<1>7. MergeLoop(spans, row)
  BY <1>5, <1>6, Zenon DEF MergeLoop
<1>8. MergedOf(spans) = CHOOSE r : MergeLoop(spans, r)
  BY DEF MergedOf, MergeLoop
<1> QED BY <1>7, <1>8

\* The merge of spans in order is as wide as the columns they fill.
LEMMA MergeIsWell ==
  ASSUME NEW spans, SpansInOrder(spans)
  PROVE  MergedWell(spans, Len(spans), MergedOf(spans)[Len(spans)])
<1> DEFINE row == MergedOf(spans)
           S == {n \in 0 .. Len(spans) : MergedWell(spans, n, row[n])}
<1>1. \A n \in 0 .. Len(spans) :
        row[n] = IF n = 0 THEN <<>> ELSE Merged(row[n - 1], spans[n])
  BY MergeRuns DEF MergeLoop, SpansInOrder
<1>2. Len(spans) \in Nat
  BY DEF SpansInOrder
<1>3. 0 \in S
  <2>1. row[0] = <<>> /\ 0 \in 0 .. Len(spans)
    BY <1>1, <1>2
  <2>2. Filled(spans, 0) = {}
    BY DEF Filled
  <2>3. Widths(<<>>) = <<>>
    BY DEF Widths
  <2>4. MergedWell(spans, 0, <<>>)
    BY <2>2, <2>3, TotalEmpty, FS_EmptySet DEF MergedWell
  <2> QED BY <2>1, <2>4
<1>4. ASSUME NEW n \in 0 .. Len(spans) - 1, n \in S PROVE n + 1 \in S
  <2>1. /\ n + 1 \in 1 .. Len(spans) /\ (n + 1) - 1 = n
        /\ n + 1 \in 0 .. Len(spans) /\ n + 1 # 0
    BY <1>2
  <2>2. row[n + 1] = Merged(row[n], spans[n + 1])
    BY <1>1, <2>1
  <2>3. MergedWell(spans, n, row[n])
    BY <1>4
  <2> HIDE DEF row
  <2>4. MergedWell(spans, n + 1, Merged(row[n], spans[n + 1]))
    BY <2>1, <2>3, MergeStep
  <2> QED BY <2>1, <2>2, <2>4
<1> HIDE DEF S, row
<1>5. Len(spans) \in S
  <2>1. 0 .. Len(spans) \subseteq S
    BY <1>2, <1>3, <1>4, UpTo
  <2> QED BY <1>2, <2>1
<1> QED BY <1>5 DEF S, row

\* Boxes within a frame that is w pixels wide.
Framed(bs, w) ==
  /\ bs \in Seq(Box)
  /\ \A i \in 1 .. Len(bs) : bs[i].x1 \in 0 .. 2 * w /\ bs[i].x2 \in 0 .. 2 * w

Wide(bs) == {i \in DOMAIN bs : /\ Pixel(bs[i].x2) > Pixel(bs[i].x1)
                                     /\ bs[i].y2 > bs[i].y1}
SpanOf(b) == <<Pixel(b.x1), Pixel(b.x2)>>
SpanSet(bs) == {SpanOf(bs[i]) : i \in Wide(bs)}

LEMMA PixelRange ==
  ASSUME NEW w \in Nat, NEW x \in 0 .. 2 * w
  PROVE  Pixel(x) \in 0 .. w
<1> DEFINE q == x \div 2
<1>1. q \in Int /\ 2 * q <= x /\ x < 2 * q + 2
  OBVIOUS
<1> HIDE DEF q
<1>2. q \in 0 .. w
  BY <1>1
<1> QED BY <1>2 DEF q, Pixel

LEMMA SpansFinite ==
  ASSUME NEW w \in Nat, NEW bs, Framed(bs, w)
  PROVE  IsFiniteSet(SpanSet(bs)) /\ SpanSet(bs) \subseteq Span
<1> DEFINE f == [i \in Wide(bs) |-> SpanOf(bs[i])]
<1>1. Wide(bs) \subseteq 1 .. Len(bs) /\ Len(bs) \in Nat
  BY DEF Wide, Framed
<1>2. IsFiniteSet(Wide(bs))
  <2>1. IsFiniteSet(1 .. Len(bs))
    BY <1>1, FS_Interval
  <2> QED BY <1>1, <2>1, FS_Subset
<1>3. f \in Surjection(Wide(bs), SpanSet(bs))
  BY DEF Surjection, SpanSet
<1>4. IsFiniteSet(SpanSet(bs))
  BY <1>2, <1>3, FS_Surjection
<1>5. SpanSet(bs) \subseteq Span
  <2> SUFFICES ASSUME NEW i \in Wide(bs) PROVE SpanOf(bs[i]) \in Span
    BY DEF SpanSet
  <2>1. bs[i].x1 \in 0 .. 2 * w /\ bs[i].x2 \in 0 .. 2 * w
    BY <1>1 DEF Framed
  <2>2. Pixel(bs[i].x1) \in 0 .. w /\ Pixel(bs[i].x2) \in 0 .. w
    BY <2>1, PixelRange
  <2> QED BY <2>2 DEF SpanOf, Span
<1> QED BY <1>4, <1>5

\* The spans are those of the boxes that have one, in order.
LEMMA SpansAreSorted ==
  ASSUME NEW w \in Nat, NEW bs, Framed(bs, w)
  PROVE  /\ SpansInOrder(Spans(bs))
         /\ \A s : (\E i \in 1 .. Len(Spans(bs)) : Spans(bs)[i] = s) <=> s \in SpanSet(bs)
<1> DEFINE S == SpanSet(bs)  list == Spans(bs)
           R == {p \in Span \X Span : Earlier(p[1], p[2])}
<1>1. IsFiniteSet(S) /\ S \subseteq Span
  BY SpansFinite
<1>2. \A s, t \in Span : <<s, t>> \in R <=> Earlier(s, t)
  OBVIOUS
<1>3. Orders(R, S)
  <2> HIDE DEF R, S
  <2>1. ASSUME NEW a \in Span, NEW b \in Span PROVE a = b \/ Earlier(a, b) \/ Earlier(b, a)
    <3>1. a = <<a[1], a[2]>> /\ b = <<b[1], b[2]>> /\ a[1] \in Nat /\ a[2] \in Nat
          /\ b[1] \in Nat /\ b[2] \in Nat
      BY DEF Span
    <3>2. a[1] = b[1] /\ a[2] = b[2] => a = b
      BY <3>1
    <3> QED BY <3>1, <3>2 DEF Earlier
  <2>2. ASSUME NEW a \in Span, NEW b \in Span, NEW c \in Span, Earlier(a, b), Earlier(b, c)
        PROVE  Earlier(a, c)
    BY <2>2 DEF Span, Earlier
  <2>3. ASSUME NEW a \in Span PROVE ~Earlier(a, a)
    BY DEF Span, Earlier
  <2> QED BY <1>1, <1>2, <2>1, <2>2, <2>3 DEF Orders
<1>4. InOrder(list, S, R)
  <2> DEFINE n == Cardinality(S)
             Fits(l) == \A i, j \in 1 .. n : i < j => Earlier(l[i], l[j])
  <2>1. list = CHOOSE l \in [1 .. n -> S] : Fits(l)
    BY DEF Spans, Sorted, SpanSet, Wide, SpanOf
  <2>2. \A l \in [1 .. n -> S] : Fits(l) <=> InOrder(l, S, R)
    <3> SUFFICES ASSUME NEW l \in [1 .. n -> S] PROVE Fits(l) <=> InOrder(l, S, R)
      OBVIOUS
    <3>1. \A i \in 1 .. n : l[i] \in Span
      BY <1>1
    <3> HIDE DEF R, S
    <3> QED BY <1>2, <3>1 DEF InOrder
  <2>3. PICK l : InOrder(l, S, R)
    BY <1>1, <1>3, ListExists
  <2> HIDE DEF Fits, S, R, list
  <2>4. l \in [1 .. n -> S] /\ Fits(l)
    BY <2>2, <2>3 DEF InOrder
  <2>5. list \in [1 .. n -> S] /\ Fits(list)
    BY <2>1, <2>4
  <2> QED BY <2>2, <2>5
<1>5. \A s \in S : \E i \in 1 .. Cardinality(S) : list[i] = s
  BY <1>1, <1>3, <1>4, ListsAll
<1>6. Cardinality(S) \in Nat
  BY <1>1, FS_CardinalityType
<1>7. \A s \in S : s[1] < s[2]
  BY DEF SpanSet, Wide, SpanOf
<1> HIDE DEF S, list
<1>8. list \in [1 .. Cardinality(S) -> S]
  BY <1>4 DEF InOrder
<1>9. list \in Seq(Span) /\ Len(list) = Cardinality(S)
  <2>1. list \in [1 .. Cardinality(S) -> Span]
    BY <1>1, <1>8
  <2> QED BY <1>6, <2>1
<1>10. \A i, j \in 1 .. Len(list) : i < j => list[i][1] <= list[j][1]
  <2> SUFFICES ASSUME NEW i \in 1 .. Len(list), NEW j \in 1 .. Len(list), i < j
               PROVE  list[i][1] <= list[j][1]
    OBVIOUS
  <2>1. list[i] \in Span /\ list[j] \in Span
    BY <1>9
  <2>2. <<list[i], list[j]>> \in R
    BY <1>4, <1>9 DEF InOrder
  <2>3. Earlier(list[i], list[j])
    BY <1>2, <2>1, <2>2
  <2> QED BY <2>1, <2>3 DEF Earlier, Span
<1>11. \A i \in 1 .. Len(list) : list[i] \in S
  BY <1>8, <1>9
<1>12. SpansInOrder(list)
  BY <1>7, <1>9, <1>10, <1>11 DEF SpansInOrder
<1> QED BY <1>5, <1>9, <1>11, <1>12 DEF S, list

\* The width found is the number of columns covered.
LEMMA WidthIsColumns ==
  ASSUME NEW w \in Nat, NEW bs, Framed(bs, w)
  PROVE  BlockedWidth(bs) = Cardinality(Columns(bs, w))
<1> DEFINE spans == Spans(bs)
<1>1. BlockedWidth(bs) = Cardinality(Filled(spans, Len(spans)))
  BY SpansAreSorted, MergeIsWell DEF MergedWell, BlockedWidth
<1>2. \A i \in 1 .. Len(bs) :
        /\ Pixel(bs[i].x1) \in 0 .. w /\ Pixel(bs[i].x2) \in 0 .. w
        /\ bs[i].y1 \in Int /\ bs[i].y2 \in Int
  <2> SUFFICES ASSUME NEW i \in 1 .. Len(bs)
               PROVE  /\ Pixel(bs[i].x1) \in 0 .. w /\ Pixel(bs[i].x2) \in 0 .. w
                      /\ bs[i].y1 \in Int /\ bs[i].y2 \in Int
    OBVIOUS
  <2>1. bs[i].x1 \in 0 .. 2 * w /\ bs[i].x2 \in 0 .. 2 * w /\ bs[i] \in Box
    BY DEF Framed
  <2> QED BY <2>1, PixelRange DEF Box
<1>3. DOMAIN bs = 1 .. Len(bs)
  BY DEF Framed
<1>4. \A c : c \in Filled(spans, Len(spans)) <=>
               c \in Nat /\ \E s \in SpanSet(bs) : s[1] <= c /\ c < s[2]
  BY SpansAreSorted DEF Filled
<1> HIDE DEF spans
<1>5. \A c \in Nat : (\E s \in SpanSet(bs) : s[1] <= c /\ c < s[2]) <=>
                       \E i \in Wide(bs) : /\ Pixel(bs[i].x1) <= c
                                              /\ c < Pixel(bs[i].x2)
  <2>1. \A i : /\ SpanOf(bs[i])[1] = Pixel(bs[i].x1)
               /\ SpanOf(bs[i])[2] = Pixel(bs[i].x2)
    BY DEF SpanOf
  <2>2. \A s : s \in SpanSet(bs) <=> \E i \in Wide(bs) : s = SpanOf(bs[i])
    BY DEF SpanSet
  <2> QED BY <2>1, <2>2
<1>6. \A c : c \in Columns(bs, w) <=>
               c \in Nat /\ \E i \in Wide(bs) : /\ Pixel(bs[i].x1) <= c
                                                   /\ c < Pixel(bs[i].x2)
  <2>1. ASSUME NEW c, c \in Columns(bs, w)
        PROVE  c \in Nat /\ \E i \in Wide(bs) : /\ Pixel(bs[i].x1) <= c
                                                   /\ c < Pixel(bs[i].x2)
    <3>1. PICK i \in 1 .. Len(bs) : /\ bs[i].y1 < bs[i].y2
                                       /\ Pixel(bs[i].x1) <= c /\ c < Pixel(bs[i].x2)
      BY <1>3, <2>1 DEF Columns
    <3>2. c \in Nat
      BY <2>1 DEF Columns
    <3>3. i \in Wide(bs)
      BY <1>2, <1>3, <3>1, <3>2 DEF Wide
    <3> QED BY <3>1, <3>2, <3>3
  <2>2. ASSUME NEW c \in Nat, NEW i \in Wide(bs),
               Pixel(bs[i].x1) <= c, c < Pixel(bs[i].x2)
        PROVE  c \in Columns(bs, w)
    <3>1. i \in 1 .. Len(bs) /\ bs[i].y2 > bs[i].y1
      BY <1>3 DEF Wide
    <3>2. c \in 0 .. w - 1
      BY <1>2, <2>2, <3>1
    <3> QED BY <1>2, <1>3, <2>2, <3>1, <3>2 DEF Columns
  <2> QED BY <2>1, <2>2
<1>7. Filled(spans, Len(spans)) = Columns(bs, w)
  BY <1>4, <1>5, <1>6
<1> QED BY <1>1, <1>7 DEF spans

LEMMA ClippedWithin ==
  ASSUME NEW b \in Box, NEW w \in Nat, NEW h \in Nat
  PROVE  /\ Clipped(b, w, h) \in Box
         /\ Clipped(b, w, h).x1 \in 0 .. 2 * w /\ Clipped(b, w, h).x2 \in 0 .. 2 * w
<1>1. \A x \in Int, n \in Nat : Clip(x, n) \in 0 .. n
  BY DEF Clip
<1>2. 2 * w \in Nat /\ 2 * h \in Nat
  OBVIOUS
<1>3. b.x1 \in Int /\ b.x2 \in Int /\ b.y1 \in Int /\ b.y2 \in Int
  BY DEF Box
<1> DEFINE c == Clipped(b, w, h)
<1>4. /\ Clip(b.x1, 2 * w) \in 0 .. 2 * w /\ Clip(b.x2, 2 * w) \in 0 .. 2 * w
      /\ Clip(b.y1, 2 * h) \in 0 .. 2 * h /\ Clip(b.y2, 2 * h) \in 0 .. 2 * h
  BY <1>1, <1>2, <1>3
<1>5. c = [x1 |-> Clip(b.x1, 2 * w), x2 |-> Clip(b.x2, 2 * w),
           y1 |-> Clip(b.y1, 2 * h), y2 |-> Clip(b.y2, 2 * h)]
  BY DEF Clipped
<1>6. \A n \in Nat : \A x \in 0 .. n : x \in Int
  OBVIOUS
<1>7. /\ Clip(b.x1, 2 * w) \in Int /\ Clip(b.x2, 2 * w) \in Int
      /\ Clip(b.y1, 2 * h) \in Int /\ Clip(b.y2, 2 * h) \in Int
  BY <1>2, <1>4, <1>6
<1>8. c \in Box
  BY <1>5, <1>7 DEF Box
<1> HIDE DEF c
<1> QED BY <1>4, <1>5, <1>8 DEF c

\* "Union of detection-box widths over the full frame width": for any boxes and
\* any frame the merge of the spans counts every column once, and suppression
\* drops a box only for a better one that it overlaps (_compute_coverage_pct, _nms).
THEOREM UnionOfBoxes ==
  ASSUME NEW w \in Nat, NEW h \in Nat, NEW bs \in Seq(Box)
  PROVE  IsUnion(bs, w, h)
<1> DEFINE clipped == [i \in DOMAIN bs |-> Clipped(bs[i], w, h)]
           kept == Kept(clipped)
<1>1. DOMAIN bs = 1 .. Len(bs) /\ Len(bs) \in Nat
  OBVIOUS
<1>2. \A i \in 1 .. Len(bs) :
        /\ clipped[i] \in Box
        /\ clipped[i].x1 \in 0 .. 2 * w /\ clipped[i].x2 \in 0 .. 2 * w
  <2> SUFFICES ASSUME NEW i \in 1 .. Len(bs)
               PROVE  /\ clipped[i] \in Box
                      /\ clipped[i].x1 \in 0 .. 2 * w /\ clipped[i].x2 \in 0 .. 2 * w
    OBVIOUS
  <2>1. bs[i] \in Box
    OBVIOUS
  <2>2. clipped[i] = Clipped(bs[i], w, h)
    BY <1>1
  <2> QED BY <2>1, <2>2, ClippedWithin
<1>3. clipped \in Seq(Box) /\ Len(clipped) = Len(bs) /\ DOMAIN clipped = 1 .. Len(bs)
  <2>1. clipped \in [1 .. Len(bs) -> Box]
    BY <1>1, <1>2
  <2> HIDE DEF clipped
  <2> QED BY <1>1, <2>1
<1> HIDE DEF clipped
<1>4. KeptWell(clipped, Len(bs), kept)
  BY <1>3, KeptIsWell
<1> HIDE DEF kept
<1>5. Framed(kept, w)
  BY <1>2, <1>4 DEF Framed, KeptWell
<1>6. DOMAIN kept = 1 .. Len(kept)
  BY <1>4 DEF KeptWell
<1>7. Percentage(BlockedWidth(kept), w) = Percentage(Cardinality(Columns(kept, w)), w)
  BY <1>5, WidthIsColumns
<1>8. \A i, j \in DOMAIN kept : i # j => ~Overlap(kept[i], kept[j])
  BY <1>4, <1>6 DEF KeptWell
<1>9. \A i \in DOMAIN clipped :
        \/ \E k \in DOMAIN kept : kept[k] = clipped[i]
        \/ \E j \in DOMAIN clipped :
             /\ j < i /\ Overlap(clipped[j], clipped[i])
             /\ \E k \in DOMAIN kept : kept[k] = clipped[j]
  <2> SUFFICES ASSUME NEW i \in 1 .. Len(bs), ~ \E k \in DOMAIN kept : kept[k] = clipped[i]
               PROVE  \E j \in DOMAIN clipped :
                        /\ j < i /\ Overlap(clipped[j], clipped[i])
                        /\ \E k \in DOMAIN kept : kept[k] = clipped[j]
    BY <1>3
  <2>1. PICK j \in 1 .. i - 1 : /\ Overlap(clipped[j], clipped[i])
                                /\ \E k \in 1 .. Len(kept) : kept[k] = clipped[j]
    BY <1>4, <1>6 DEF KeptWell
  <2>2. j \in DOMAIN clipped /\ j < i
    BY <1>1, <1>3
  <2> QED BY <1>6, <2>1, <2>2
<1>10. /\ Inference(bs, w, h).kept = kept
       /\ Inference(bs, w, h).pct = Percentage(BlockedWidth(kept), w)
  BY DEF Inference, Coverage, clipped, kept
<1> DEFINE found == Inference(bs, w, h)
           All(c, k) == /\ found.pct = Percentage(Cardinality(Columns(k, w)), w)
                        /\ \A i, j \in DOMAIN k : i # j => ~Overlap(k[i], k[j])
                        /\ \A i \in DOMAIN c :
                             \/ \E l \in DOMAIN k : k[l] = c[i]
                             \/ \E j \in DOMAIN c :
                                  /\ j < i /\ Overlap(c[j], c[i])
                                  /\ \E l \in DOMAIN k : k[l] = c[j]
<1>11. All(clipped, found.kept)
  <2>1. All(clipped, kept)
    BY <1>7, <1>8, <1>9, <1>10
  <2> HIDE DEF found, All
  <2> QED BY <1>10, <2>1 DEF found
<1> HIDE DEF found
<1> QED BY <1>11 DEF IsUnion, clipped, found

FrameInv == boxes \in Seq(FrameBoxes)

LEMMA FrameInvariance == Spec => []FrameInv
<1>1. Init => FrameInv
  BY DEF Init, FrameInv
<1>2. FrameInv /\ [Next]_<<in, th, boxes, day, code, log>> => FrameInv'
  <2> SUFFICES ASSUME FrameInv, [Next]_<<in, th, boxes, day, code, log>> PROVE FrameInv'
    OBVIOUS
  <2>1. CASE Detect
    <3>1. PICK b \in FrameBoxes : boxes' = Append(boxes, b)
      BY <2>1 DEF Detect
    <3> QED BY <3>1 DEF FrameInv
  <2>2. CASE boxes' = <<>>
    BY <2>2 DEF FrameInv
  <2>3. CASE UNCHANGED boxes
    BY <2>3 DEF FrameInv
  <2> QED BY <2>1, <2>2, <2>3 DEF Next, Deliver, Happen, Report, Notify, Anew
<1> QED BY <1>1, <1>2, PTL DEF Spec

\* The boxes of the run's frames are boxes, so their coverage is the union of
\* their widths (_compute_coverage_pct).
THEOREM GridCoverage == Spec => []CoverageIsUnion
<1>1. FrameInv => CoverageIsUnion
  <2> SUFFICES ASSUME FrameInv PROVE CoverageIsUnion
    OBVIOUS
  <2>1. FrameBoxes \subseteq Box
    BY DEF FrameBoxes, Box
  <2>2. boxes \in Seq(Box)
    BY <2>1 DEF FrameInv
  <2>3. Width \in Nat /\ Width > 0 /\ Height \in Nat
    BY DEF Width, Height
  <2> QED BY <2>2, <2>3, UnionOfBoxes DEF CoverageIsUnion
<1> QED BY FrameInvariance, <1>1, PTL

-----------------------------------------------------------------------------
(***************************************************************************)
(* WeatherCodes: the codes of the providers.                               *)
(***************************************************************************)
\* What a provider may report: any number, of OpenWeatherMap one of its groups,
\* which begin at 200.
ProviderCodes == {c \in [provider : {"owm", "weatherapi"}, id : Nat] :
                    c.provider = "owm" => c.id >= 200}

CodeInv == code \in ProviderCodes

LEMMA OwmIsRanked ==
  ASSUME NEW id \in Nat
  PROVE  /\ OwmIdToWmo(id) \in {0, 1, 3, 45, 53, 63, 73, 81, 95}
         /\ id >= 200 /\ id < 600 /\ id \notin 400 .. 499
              => OwmIdToWmo(id) \in {53, 63, 81, 95}
BY DEF OwmIdToWmo

LEMMA WeatherApiIsRanked ==
  ASSUME NEW c \in Nat
  PROVE  WeatherApiCodeToWmo(c) \in {0, 2, 3, 45, 48, 51, 53, 61, 63, 65, 71, 73, 75, 80, 81, 82,
                                     95, 96}
BY DEF WeatherApiCodeToWmo

LEMMA RankedIsKnown ==
  ASSUME NEW c \in RankedCodes
  PROVE  /\ WeatherCondition(c) # "Unknown"
         /\ WeatherCondition(c) \in Wet
              <=> c \in {51, 53, 55, 56, 57, 61, 63, 65, 66, 67, 80, 81, 82, 95, 96, 99}
         /\ WeatherCondition(c) = "Thunderstorm" <=> c \in {95, 96, 99}
<1> DEFINE shown == WeatherCondition(c)
<1>1. /\ c \in {0} => shown = "Sunny"
      /\ c \in {1} => shown = "Mainly Clear"
      /\ c \in {2, 3} => shown = "Cloudy"
      /\ c \in {45, 48} => shown = "Foggy"
  BY DEF WeatherCondition
<1>2. /\ c \in {51, 53, 55, 56, 57} => shown = "Drizzle"
      /\ c \in {61, 63, 65, 66, 67} => shown = "Rain"
      /\ c \in {71, 73, 75, 77} => shown = "Snow"
  BY DEF WeatherCondition
<1>3. /\ c \in {80, 81, 82} => shown = "Showers"
      /\ c \in {85, 86} => shown = "Snow Showers"
      /\ c \in {95, 96, 99} => shown = "Thunderstorm"
  <2>1. c \in {80, 81, 82} => shown = "Showers"
    BY SMTT(30) DEF WeatherCondition
  <2>2. c \in {85, 86} => shown = "Snow Showers"
    BY SMTT(30) DEF WeatherCondition
  <2>3. c \in {95, 96, 99} => shown = "Thunderstorm"
    BY SMTT(30) DEF WeatherCondition
  <2> QED BY <2>1, <2>2, <2>3
<1> HIDE DEF shown
<1>4. \/ c \in {0, 1, 2, 3, 45, 48}
      \/ c \in {51, 53, 55, 56, 57, 61, 63, 65, 66, 67, 71, 73, 75, 77}
      \/ c \in {80, 81, 82, 85, 86, 95, 96, 99}
  BY DEF RankedCodes
<1>5. CASE c \in {0, 1, 2, 3, 45, 48}
  <2>1. shown \in {"Sunny", "Mainly Clear", "Cloudy", "Foggy"}
    BY <1>1, <1>5
  <2>2. c \notin {51, 53, 55, 56, 57, 61, 63, 65, 66, 67, 80, 81, 82, 95, 96, 99}
    BY <1>5
  <2> QED BY <2>1, <2>2 DEF shown, Wet
<1>6. CASE c \in {51, 53, 55, 56, 57, 61, 63, 65, 66, 67}
  <2>1. shown \in {"Drizzle", "Rain"}
    BY <1>2, <1>6
  <2>2. c \notin {95, 96, 99}
    BY <1>6
  <2> QED BY <1>6, <2>1, <2>2 DEF shown, Wet
<1>7. CASE c \in {71, 73, 75, 77}
  <2>1. shown = "Snow"
    BY <1>2, <1>7
  <2>2. c \notin {51, 53, 55, 56, 57, 61, 63, 65, 66, 67, 80, 81, 82, 95, 96, 99}
    BY <1>7
  <2> QED BY <2>1, <2>2 DEF shown, Wet
<1>8. CASE c \in {80, 81, 82}
  <2>1. c \notin {95, 96, 99}
    BY <1>8
  <2> QED BY <1>3, <1>8, <2>1 DEF shown, Wet
<1>9. CASE c \in {85, 86}
  <2>1. c \notin {51, 53, 55, 56, 57, 61, 63, 65, 66, 67, 80, 81, 82, 95, 96, 99}
    BY <1>9
  <2> QED BY <1>3, <1>9, <2>1 DEF shown, Wet
<1>10. CASE c \in {95, 96, 99}
  BY <1>3, <1>10 DEF shown, Wet
<1> QED BY <1>4, <1>5, <1>6, <1>7, <1>8, <1>9, <1>10

LEMMA WetIsWorse ==
  ASSUME NEW c \in {51, 53, 55, 56, 57, 61, 63, 65, 66, 67, 80, 81, 82, 95, 96, 99},
         NEW dry \in 0 .. 48
  PROVE  WmoSeverity(dry) < WmoSeverity(c)
<1>1. WmoSeverity(dry) <= 1
  BY DEF WmoSeverity, SeverityRank, RankedCodes
<1>2. WmoSeverity(c) >= 2
  BY DEF WmoSeverity, SeverityRank, RankedCodes
<1>3. WmoSeverity(dry) \in Int /\ WmoSeverity(c) \in Int
  BY DEF WmoSeverity, SeverityRank, RankedCodes
<1> QED BY <1>1, <1>2, <1>3

LEMMA RanksAreThere == DOMAIN SeverityRank = RankedCodes
BY DEF SeverityRank

\* Whatever a provider reports has a condition and a severity, and what is wet
\* is put over what is dry (owm_id_to_wmo, weatherapi_code_to_wmo, wmo_severity).
LEMMA AllCodesKnown == CodeInv => CodesAreKnown
<1> SUFFICES ASSUME code \in ProviderCodes PROVE CodesAreKnown
  BY DEF CodeInv
<1> DEFINE wmo == WmoOf(code)
           wet == WeatherCondition(wmo) \in Wet
<1>1. code.id \in Nat /\ code.provider \in {"owm", "weatherapi"}
  BY DEF ProviderCodes
<1>2. wmo \in RankedCodes
  <2>1. OwmIdToWmo(code.id) \in RankedCodes
    BY <1>1, OwmIsRanked DEF RankedCodes
  <2>2. WeatherApiCodeToWmo(code.id) \in RankedCodes
    BY <1>1, WeatherApiIsRanked DEF RankedCodes
  <2> QED BY <2>1, <2>2 DEF WmoOf
<1>3. code.provider = "owm" /\ code.id < 600 /\ code.id \notin 400 .. 499 => wet
  <2> SUFFICES ASSUME code.provider = "owm", code.id < 600, code.id \notin 400 .. 499 PROVE wet
    OBVIOUS
  <2>1. code.id >= 200
    BY DEF ProviderCodes
  <2>2. wmo \in {53, 63, 81, 95}
    BY <1>1, <2>1, OwmIsRanked DEF WmoOf
  <2> HIDE DEF wmo
  <2> QED BY <1>2, <2>2, RankedIsKnown
<1> HIDE DEF wmo
<1>4. wmo \in DOMAIN SeverityRank /\ WeatherCondition(wmo) # "Unknown"
  BY <1>2, RanksAreThere, RankedIsKnown
<1>5. wet => \A dry \in 0 .. 48 : WmoSeverity(dry) < WmoSeverity(wmo)
  BY <1>2, RankedIsKnown, WetIsWorse
<1>6. \A heavy, windy \in BOOLEAN :
        StormRiskLevel(wmo, heavy, windy) = "Likely" <=> WeatherCondition(wmo) = "Thunderstorm"
  <2>1. WeatherCondition(wmo) = "Thunderstorm" <=> Thunderstorm(wmo)
    <3>1. Thunderstorm(wmo) <=> wmo \in {95, 96, 99}
      BY <1>2 DEF Thunderstorm, RankedCodes
    <3> QED BY <1>2, <3>1, RankedIsKnown
  <2>2. \A heavy, windy \in BOOLEAN :
          StormRiskLevel(wmo, heavy, windy) = "Likely" <=> Thunderstorm(wmo)
    BY DEF StormRiskLevel
  <2> QED BY <2>1, <2>2
<1> QED BY <1>3, <1>4, <1>5, <1>6 DEF CodesAreKnown, wmo

LEMMA CodeInvariance == Spec => []CodeInv
<1>1. Codes \subseteq ProviderCodes /\ NoCode \in ProviderCodes
  BY DEF Codes, NoCode, ProviderCodes
<1>2. Init => CodeInv
  BY <1>1 DEF Init, CodeInv
<1>3. CodeInv /\ [Next]_<<in, th, boxes, day, code, log>> => CodeInv'
  BY <1>1 DEF CodeInv, Next, Deliver, Detect, Happen, Report, Notify, Anew
<1> QED BY <1>2, <1>3, PTL DEF Spec

\* Whatever code a provider reports, the condition, the severity and the storm
\* risk that are shown for it agree (owm_id_to_wmo, wmo_severity).
THEOREM GridCodes == Spec => []CodesAreKnown
BY CodeInvariance, AllCodesKnown, PTL

-----------------------------------------------------------------------------
(***************************************************************************)
(* DailySummary: the summary of a day.                                     *)
(***************************************************************************)
LEMMA OneIsGreatest ==
  ASSUME NEW n \in Nat, n > 0, NEW R, Orders(R, 1 .. n)
  PROVE  \E m \in 1 .. n : \A j \in 1 .. n : j = m \/ <<j, m>> \in R
<1>1. IsFiniteSet(1 .. n)
  BY FS_Interval
<1>2. 1 .. n # {}
  OBVIOUS
<1> QED BY <1>1, <1>2, Greatest

\* Of some keys there is a first least one, and a first greatest one.
LEMMA LeastIs ==
  ASSUME NEW n \in Nat, n > 0, NEW keys \in [1 .. n -> Int]
  PROVE  /\ Least(keys) \in 1 .. n
         /\ \A j \in 1 .. n : keys[Least(keys)] <= keys[j]
<1> DEFINE Before(i, j) == keys[i] < keys[j] \/ (keys[i] = keys[j] /\ i < j)
           R == {p \in (1 .. n) \X (1 .. n) : Before(p[2], p[1])}
<1>1. \A i \in 1 .. n : keys[i] \in Int
  OBVIOUS
<1>2. \A i, j \in 1 .. n : <<i, j>> \in R <=> Before(j, i)
  OBVIOUS
<1> HIDE DEF R
<1>3. Orders(R, 1 .. n)
  <2>1. \A i, j \in 1 .. n : i = j \/ Before(i, j) \/ Before(j, i)
    BY <1>1
  <2>2. \A i, j, k \in 1 .. n : Before(j, i) /\ Before(k, j) => Before(k, i)
    BY <1>1
  <2>3. \A i \in 1 .. n : ~Before(i, i)
    BY <1>1
  <2> HIDE DEF Before
  <2> QED BY <1>2, <2>1, <2>2, <2>3 DEF Orders
<1>4. PICK m \in 1 .. n : \A j \in 1 .. n : j = m \/ <<j, m>> \in R
  BY <1>3, OneIsGreatest
<1>5. DOMAIN keys = 1 .. n
  OBVIOUS
<1>6. \A j \in 1 .. n : keys[m] < keys[j] \/ (keys[m] = keys[j] /\ m <= j)
  <2> SUFFICES ASSUME NEW j \in 1 .. n, j # m PROVE Before(m, j)
    BY <1>1
  <2>1. <<j, m>> \in R
    BY <1>4
  <2> QED BY <1>2, <2>1
<1>7. /\ Least(keys) \in 1 .. n
      /\ \A j \in 1 .. n : \/ keys[Least(keys)] < keys[j]
                           \/ keys[Least(keys)] = keys[j] /\ Least(keys) <= j
  BY <1>5, <1>6, Zenon DEF Least
<1> QED BY <1>1, <1>7

LEMMA MostIs ==
  ASSUME NEW n \in Nat, n > 0, NEW keys \in [1 .. n -> Int]
  PROVE  /\ Most(keys) \in 1 .. n
         /\ \A j \in 1 .. n : keys[Most(keys)] >= keys[j]
<1> DEFINE Before(i, j) == keys[i] > keys[j] \/ (keys[i] = keys[j] /\ i < j)
           R == {p \in (1 .. n) \X (1 .. n) : Before(p[2], p[1])}
<1>1. \A i \in 1 .. n : keys[i] \in Int
  OBVIOUS
<1>2. \A i, j \in 1 .. n : <<i, j>> \in R <=> Before(j, i)
  OBVIOUS
<1> HIDE DEF R
<1>3. Orders(R, 1 .. n)
  <2>1. \A i, j \in 1 .. n : i = j \/ Before(i, j) \/ Before(j, i)
    BY <1>1
  <2>2. \A i, j, k \in 1 .. n : Before(j, i) /\ Before(k, j) => Before(k, i)
    BY <1>1
  <2>3. \A i \in 1 .. n : ~Before(i, i)
    BY <1>1
  <2> HIDE DEF Before
  <2> QED BY <1>2, <2>1, <2>2, <2>3 DEF Orders
<1>4. PICK m \in 1 .. n : \A j \in 1 .. n : j = m \/ <<j, m>> \in R
  BY <1>3, OneIsGreatest
<1>5. DOMAIN keys = 1 .. n
  OBVIOUS
<1>6. \A j \in 1 .. n : keys[m] > keys[j] \/ (keys[m] = keys[j] /\ m <= j)
  <2> SUFFICES ASSUME NEW j \in 1 .. n, j # m PROVE Before(m, j)
    BY <1>1
  <2>1. <<j, m>> \in R
    BY <1>4
  <2> QED BY <1>2, <2>1
<1>7. /\ Most(keys) \in 1 .. n
      /\ \A j \in 1 .. n : \/ keys[Most(keys)] > keys[j]
                           \/ keys[Most(keys)] = keys[j] /\ Most(keys) <= j
  BY <1>5, <1>6, Zenon DEF Most
<1> QED BY <1>1, <1>7

\* Readings in the order of their times.
Timed(readings) == \A i, j \in 1 .. Len(readings) : i < j => readings[i].time <= readings[j].time

Readings(R) == {s \in Seq(R) : Timed(s)}

\* The loop of _find_closest after n of the readings.
NearestWell(readings, time, n, best) ==
  \/ /\ best = [diff |-> MaxGap, found |-> <<>>]
     /\ \A j \in 1 .. n : Distance(readings[j].time, time) >= MaxGap
  \/ \E i \in 1 .. n :
       /\ best = [diff |-> Distance(readings[i].time, time), found |-> <<readings[i]>>]
       /\ Distance(readings[i].time, time) < MaxGap
       /\ \A j \in 1 .. n :
            \/ Distance(readings[i].time, time) < Distance(readings[j].time, time)
            \/ /\ Distance(readings[i].time, time) = Distance(readings[j].time, time)
               /\ readings[i].time <= readings[j].time

LEMMA NearerWell ==
  ASSUME NEW R, \A r \in R : r.time \in Int, NEW readings \in Readings(R), NEW time \in Int,
         NEW n \in 1 .. Len(readings), NEW best, NearestWell(readings, time, n - 1, best)
  PROVE  NearestWell(readings, time, n, Nearer(best, readings[n], time))
<1> DEFINE D(i) == Distance(readings[i].time, time)
<1>1. Len(readings) \in Nat /\ \A i \in 1 .. Len(readings) : readings[i].time \in Int
  <2>1. readings \in Seq(R)
    BY DEF Readings
  <2>2. \A i \in 1 .. Len(readings) : readings[i] \in R
    BY <2>1, ElementOfSeq
  <2> QED BY <2>1, <2>2
<1>2. \A i \in 1 .. Len(readings) : D(i) \in Int
  BY <1>1 DEF Distance
<1>3. \A i \in 1 .. n : i \in 1 .. Len(readings) /\ (i = n \/ i \in 1 .. n - 1)
  BY <1>1
<1>4. \A i \in 1 .. n - 1 : readings[i].time <= readings[n].time
  BY <1>1 DEF Readings, Timed
<1> DEFINE next == Nearer(best, readings[n], time)
<1>5. best.diff = MaxGap \/ \E i \in 1 .. n - 1 : best.diff = D(i)
  BY DEF NearestWell
<1>6. next = IF D(n) < best.diff THEN [diff |-> D(n), found |-> <<readings[n]>>] ELSE best
  BY DEF Nearer
<1> HIDE DEF next
<1>7. CASE best = [diff |-> MaxGap, found |-> <<>>]
           /\ \A j \in 1 .. n - 1 : D(j) >= MaxGap
  <2>1. CASE D(n) < MaxGap
    <3>1. next = [diff |-> D(n), found |-> <<readings[n]>>]
      BY <1>6, <1>7, <2>1
    <3>2. \A j \in 1 .. n : D(n) < D(j) \/ (D(n) = D(j) /\ readings[n].time <= readings[j].time)
      <4> SUFFICES ASSUME NEW j \in 1 .. n
                   PROVE  D(n) < D(j) \/ (D(n) = D(j) /\ readings[n].time <= readings[j].time)
        OBVIOUS
      <4>1. CASE j = n
        BY <1>1, <1>2, <4>1
      <4>2. CASE j # n
        <5>1. D(j) >= MaxGap
          BY <1>3, <1>7, <4>2
        <5>2. D(n) \in Int /\ D(j) \in Int /\ MaxGap \in Int
          BY <1>2, <1>3 DEF MaxGap
        <5> HIDE DEF D
        <5> QED BY <2>1, <5>1, <5>2
      <4> QED BY <4>1, <4>2
    <3> QED BY <2>1, <3>1, <3>2 DEF NearestWell, next
  <2>2. CASE ~(D(n) < MaxGap)
    <3>1. next = best
      BY <1>6, <1>7, <2>2
    <3>2. \A j \in 1 .. n : D(j) >= MaxGap
      BY <1>2, <1>3, <1>7, <2>2 DEF MaxGap
    <3> QED BY <1>7, <3>1, <3>2 DEF NearestWell, next
  <2> QED BY <2>1, <2>2
<1>8. ASSUME NEW i \in 1 .. n - 1,
             best = [diff |-> D(i), found |-> <<readings[i]>>], D(i) < MaxGap,
             \A j \in 1 .. n - 1 :
               D(i) < D(j) \/ (D(i) = D(j) /\ readings[i].time <= readings[j].time)
      PROVE  NearestWell(readings, time, n, next)
  <2>0. i \in 1 .. n /\ i \in 1 .. Len(readings)
    BY <1>1
  <2>1. CASE D(n) < D(i)
    <3>1. next = [diff |-> D(n), found |-> <<readings[n]>>]
      BY <1>6, <1>8, <2>1
    <3>2. \A j \in 1 .. n : D(n) < D(j) \/ (D(n) = D(j) /\ readings[n].time <= readings[j].time)
      <4> SUFFICES ASSUME NEW j \in 1 .. n
                   PROVE  D(n) < D(j) \/ (D(n) = D(j) /\ readings[n].time <= readings[j].time)
        OBVIOUS
      <4>1. CASE j = n
        BY <1>1, <1>2, <4>1
      <4>2. CASE j # n
        <5>1. D(i) < D(j) \/ D(i) = D(j)
          BY <1>3, <1>8, <4>2
        <5>2. D(n) \in Int /\ D(j) \in Int /\ D(i) \in Int
          BY <1>2, <1>3, <2>0
        <5> HIDE DEF D
        <5> QED BY <2>1, <5>1, <5>2
      <4> QED BY <4>1, <4>2
    <3>3. D(n) < MaxGap
      <4>1. D(n) \in Int /\ D(i) \in Int /\ MaxGap \in Int
        BY <1>2, <1>3, <2>0 DEF MaxGap
      <4> HIDE DEF D
      <4> QED BY <1>8, <2>1, <4>1
    <3> QED BY <3>1, <3>2, <3>3 DEF NearestWell
  <2>2. CASE ~(D(n) < D(i))
    <3>1. next = best
      BY <1>6, <1>8, <2>2
    <3>2. \A j \in 1 .. n : D(i) < D(j) \/ (D(i) = D(j) /\ readings[i].time <= readings[j].time)
      <4>1. D(i) < D(n) \/ (D(i) = D(n) /\ readings[i].time <= readings[n].time)
        <5>1. D(n) \in Int /\ D(i) \in Int
          BY <1>2, <1>3, <2>0
        <5> HIDE DEF D
        <5> QED BY <1>4, <2>2, <5>1
      <4> QED BY <1>3, <1>8, <4>1
    <3>3. next = [diff |-> D(i), found |-> <<readings[i]>>] /\ D(i) < MaxGap
      BY <1>8, <3>1
    <3> QED BY <2>0, <3>2, <3>3 DEF NearestWell
  <2> QED BY <2>1, <2>2
<1> QED BY <1>7, <1>8 DEF NearestWell, next

NearestLoop(readings, time, row) ==
  row = [n \in 0 .. Len(readings) |->
           IF n = 0 THEN [diff |-> MaxGap, found |-> <<>>]
                    ELSE Nearer(row[n - 1], readings[n], time)]

LEMMA NearestRuns ==
  ASSUME NEW R, \A r \in R : r.time \in Int, NEW readings \in Seq(R), NEW time \in Int
  PROVE  NearestLoop(readings, time, Nearest(readings, time))
<1> DEFINE N == Len(readings)
           none == [diff |-> MaxGap, found |-> <<>>]
           State == [diff : Int, found : Seq(R)]
           step == [p \in (1 .. N) \X State |-> Nearer(p[2], readings[p[1]], time)]
<1>1. \A n \in 1 .. N, s \in State : step[<<n, s>>] = Nearer(s, readings[n], time)
  OBVIOUS
<1>2. \A n \in 1 .. N, s \in State : Nearer(s, readings[n], time) \in State
  <2> SUFFICES ASSUME NEW n \in 1 .. N, NEW s \in State
               PROVE  Nearer(s, readings[n], time) \in State
    OBVIOUS
  <2>1. readings[n] \in R
    BY ElementOfSeq
  <2>2. <<readings[n]>> \in Seq(R) /\ Distance(readings[n].time, time) \in Int
    BY <2>1 DEF Distance
  <2> QED BY <2>2 DEF Nearer
<1>3. N \in Nat /\ none \in State
  BY DEF MaxGap
<1>4. PICK row : Follows(row, step, none, N, State)
  <2>1. Steps(step, N, State)
    BY <1>1, <1>2 DEF Steps
  <2> HIDE DEF step, State, none, N
  <2> QED BY <1>3, <2>1, LoopRuns
<1> HIDE DEF step, State
<1>5. \A n \in 0 .. N : row[n] = IF n = 0 THEN none ELSE Nearer(row[n - 1], readings[n], time)
  <2> SUFFICES ASSUME NEW n \in 1 .. N PROVE row[n] = Nearer(row[n - 1], readings[n], time)
    BY <1>3, <1>4 DEF Follows
  <2>1. row[n - 1] \in State
    BY <1>3, <1>4 DEF Follows
  <2> QED BY <1>1, <1>4, <2>1 DEF Follows
<1>6. row = [n \in 0 .. N |-> row[n]]
  BY <1>4 DEF Follows
<1>7. NearestLoop(readings, time, row)
  BY <1>5, <1>6, Zenon DEF NearestLoop
<1>8. Nearest(readings, time) = CHOOSE r : NearestLoop(readings, time, r)
  BY DEF Nearest, NearestLoop
<1> QED BY <1>7, <1>8

\* _find_closest finds the closest reading, of two the earlier one.
LEMMA ClosestIsFound ==
  ASSUME NEW R, \A r \in R : r.time \in Int, NEW readings \in Readings(R), NEW time \in Int
  PROVE  /\ Matched(readings, time)
         /\ \/ FindClosest(readings, time) = <<>>
            \/ \E i \in 1 .. Len(readings) : FindClosest(readings, time) = <<readings[i]>>
<1> DEFINE N == Len(readings)
           row == Nearest(readings, time)
           D(i) == Distance(readings[i].time, time)
           S == {n \in 0 .. N : NearestWell(readings, time, n, row[n])}
<1>1. readings \in Seq(R) /\ N \in Nat /\ DOMAIN readings = 1 .. N
  BY DEF Readings
<1>2. \A i \in 1 .. N : D(i) \in Int
  <2>1. \A i \in 1 .. N : readings[i] \in R
    BY <1>1, ElementOfSeq
  <2> QED BY <2>1 DEF Distance
<1>3. NearestLoop(readings, time, row)
  BY <1>1, NearestRuns
<1> HIDE DEF row
<1>4. row[0] = [diff |-> MaxGap, found |-> <<>>]
  BY <1>1, <1>3 DEF NearestLoop
<1>5. \A n \in 1 .. N : row[n] = Nearer(row[n - 1], readings[n], time)
  BY <1>1, <1>3 DEF NearestLoop
<1>6. 0 \in S
  BY <1>1, <1>4 DEF NearestWell
<1>7. ASSUME NEW n \in 0 .. N - 1, n \in S PROVE n + 1 \in S
  <2>1. n + 1 \in 1 .. N /\ (n + 1) - 1 = n
    BY <1>1
  <2>2. NearestWell(readings, time, (n + 1) - 1, row[n])
    BY <1>7, <2>1
  <2>3. NearestWell(readings, time, n + 1, Nearer(row[n], readings[n + 1], time))
    BY <2>1, <2>2, NearerWell
  <2>4. row[n + 1] = Nearer(row[n], readings[n + 1], time)
    BY <1>5, <2>1
  <2> QED BY <2>1, <2>3, <2>4
<1> HIDE DEF S
<1>8. 0 .. N \subseteq S
  BY <1>1, <1>6, <1>7, UpTo
<1>9. NearestWell(readings, time, N, row[N])
  BY <1>1, <1>8 DEF S
<1>10. FindClosest(readings, time) = row[N].found
  BY DEF FindClosest, row
<1>11. CASE /\ row[N] = [diff |-> MaxGap, found |-> <<>>]
            /\ \A j \in 1 .. N : D(j) >= MaxGap
  <2>1. FindClosest(readings, time) = <<>>
    BY <1>10, <1>11
  <2>2. ~\E i \in 1 .. N : D(i) < MaxGap
    BY <1>2, <1>11 DEF MaxGap
  <2> QED BY <1>1, <2>1, <2>2 DEF Matched
<1>12. ASSUME NEW i \in 1 .. N,
              row[N] = [diff |-> D(i), found |-> <<readings[i]>>], D(i) < MaxGap,
              \A j \in 1 .. N :
                D(i) < D(j) \/ (D(i) = D(j) /\ readings[i].time <= readings[j].time)
       PROVE  Matched(readings, time) /\ FindClosest(readings, time) = <<readings[i]>>
  <2>1. FindClosest(readings, time) = <<readings[i]>>
    BY <1>10, <1>12
  <2>2. IsClosest(readings, time, readings[i])
    BY <1>1, <1>12 DEF IsClosest
  <2> QED BY <1>1, <1>12, <2>1, <2>2 DEF Matched
<1> QED BY <1>9, <1>11, <1>12 DEF NearestWell

SensorReadings == Readings([time : Int, pct : Nat])
ModelReadings == Readings([time : Int, status : Statuses])
WeatherReadings == Readings([time : Int, code : Int, precip : Nat])

DaysOfReadings ==
  [sensors : SensorReadings, models : ModelReadings, weathers : WeatherReadings]

LEMMA ReadingsAre ==
  ASSUME NEW R, NEW readings \in Readings(R)
  PROVE  /\ readings \in Seq(R) /\ Len(readings) \in Nat /\ DOMAIN readings = 1 .. Len(readings)
         /\ \A i \in 1 .. Len(readings) : readings[i] \in R
         /\ readings # <<>> <=> Len(readings) > 0
<1>1. readings \in Seq(R)
  BY DEF Readings
<1>2. \A i \in 1 .. Len(readings) : readings[i] \in R
  BY <1>1, ElementOfSeq
<1>3. readings # <<>> <=> Len(readings) > 0
  BY <1>1, EmptySeq
<1> QED BY <1>1, <1>2, <1>3

\* The tiers of the scores are in order (summary_utils.py).
LEMMA ScoresInOrder ==
  /\ \A p, q \in Nat : p <= q => WaterScore(p) <= WaterScore(q)
  /\ \A p, q \in Nat : p <= q => WeatherScore(p) <= WeatherScore(q)
  /\ \A s, t \in Statuses : BlockageSeverity(s) <= BlockageSeverity(t)
                            => BlockageScore(s) <= BlockageScore(t)
  /\ \A p \in Nat : WaterScore(p) \in Nat /\ WeatherScore(p) \in Nat
  /\ \A s \in Statuses : BlockageScore(s) \in Nat /\ BlockageSeverity(s) \in Nat
<1>1. \A p, q \in Nat : p <= q => WaterScore(p) <= WaterScore(q)
  BY DEF WaterScore
<1>2. \A p, q \in Nat : p <= q => WeatherScore(p) <= WeatherScore(q)
  BY DEF WeatherScore
<1>3. \A s, t \in Statuses : BlockageSeverity(s) <= BlockageSeverity(t)
                            => BlockageScore(s) <= BlockageScore(t)
  BY DEF Statuses, BlockageSeverity, BlockageScore
<1>4. \A p \in Nat : WaterScore(p) \in Nat /\ WeatherScore(p) \in Nat
  BY DEF WaterScore, WeatherScore
<1>5. \A s \in Statuses : BlockageScore(s) \in Nat /\ BlockageSeverity(s) \in Nat
  BY DEF Statuses, BlockageSeverity, BlockageScore
<1> QED BY <1>1, <1>2, <1>3, <1>4, <1>5

\* What extract_water_level_summary, extract_model_readings_summary and
\* extract_weather_summary return.
LEMMA WaterExtremes ==
  ASSUME NEW sensors \in SensorReadings, sensors # <<>>
  PROVE  LET s == WaterLevelSummary(sensors) IN
           /\ \E i \in 1 .. Len(sensors) : s.max_level = sensors[i].pct
           /\ s.min_level \in Nat /\ s.max_level \in Nat
           /\ \A i \in 1 .. Len(sensors) :
                s.min_level <= sensors[i].pct /\ sensors[i].pct <= s.max_level
<1> DEFINE n == Len(sensors)
           levels == [i \in DOMAIN sensors |-> sensors[i].pct]
<1>1. n \in Nat /\ n > 0 /\ DOMAIN sensors = 1 .. n
  BY ReadingsAre DEF SensorReadings
<1>2. \A i \in 1 .. n : sensors[i].pct \in Nat
  <2>1. \A i \in 1 .. n : sensors[i] \in [time : Int, pct : Nat]
    BY ReadingsAre DEF SensorReadings
  <2> QED BY <2>1
<1>3. levels \in [1 .. n -> Int] /\ \A i \in 1 .. n : levels[i] = sensors[i].pct
  BY <1>1, <1>2
<1>4. /\ WaterLevelSummary(sensors).min_level = sensors[Least(levels)].pct
      /\ WaterLevelSummary(sensors).max_level = sensors[Most(levels)].pct
  BY DEF WaterLevelSummary
<1> HIDE DEF levels, n
<1>5. /\ Least(levels) \in 1 .. n /\ \A j \in 1 .. n : levels[Least(levels)] <= levels[j]
      /\ Most(levels) \in 1 .. n /\ \A j \in 1 .. n : levels[Most(levels)] >= levels[j]
  BY <1>1, <1>3, LeastIs, MostIs
<1> QED BY <1>2, <1>3, <1>4, <1>5 DEF n

LEMMA BlockageExtremes ==
  ASSUME NEW models \in ModelReadings, models # <<>>
  PROVE  LET worst == ModelReadingsSummary(models).most_severe IN
           /\ \E i \in 1 .. Len(models) : worst = models[i].status
           /\ \A i \in 1 .. Len(models) :
                BlockageScore(models[i].status) <= BlockageScore(worst)
<1> DEFINE n == Len(models)
           severities == [i \in DOMAIN models |-> BlockageSeverity(models[i].status)]
<1>1. n \in Nat /\ n > 0 /\ DOMAIN models = 1 .. n
  BY ReadingsAre DEF ModelReadings
<1>2. \A i \in 1 .. n : models[i].status \in Statuses
  <2>1. \A i \in 1 .. n : models[i] \in [time : Int, status : Statuses]
    BY ReadingsAre DEF ModelReadings
  <2> QED BY <2>1
<1>3. /\ severities \in [1 .. n -> Int]
      /\ \A i \in 1 .. n : severities[i] = BlockageSeverity(models[i].status)
  <2>1. \A i \in 1 .. n : BlockageSeverity(models[i].status) \in Nat
    BY <1>2, ScoresInOrder
  <2> QED BY <1>1, <2>1
<1>4. ModelReadingsSummary(models).most_severe = models[Most(severities)].status
  BY DEF ModelReadingsSummary
<1> HIDE DEF severities, n
<1>5. Most(severities) \in 1 .. n /\ \A j \in 1 .. n : severities[Most(severities)] >= severities[j]
  BY <1>1, <1>3, MostIs
<1>6. \A i \in 1 .. n :
        BlockageSeverity(models[i].status) <= BlockageSeverity(models[Most(severities)].status)
  BY <1>2, <1>3, <1>5, ScoresInOrder
<1> QED BY <1>2, <1>4, <1>5, <1>6, ScoresInOrder DEF n

LEMMA WeatherExtremes ==
  ASSUME NEW weathers \in WeatherReadings, weathers # <<>>
  PROVE  LET most == WeatherSummary(weathers).max_precip IN
           /\ most \in Nat
           /\ \A i \in 1 .. Len(weathers) :
                WeatherScore(weathers[i].precip) <= WeatherScore(most)
<1> DEFINE n == Len(weathers)
           rain == [i \in DOMAIN weathers |-> weathers[i].precip]
<1>1. n \in Nat /\ n > 0 /\ DOMAIN weathers = 1 .. n
  BY ReadingsAre DEF WeatherReadings
<1>2. \A i \in 1 .. n : weathers[i].precip \in Nat
  <2>1. \A i \in 1 .. n : weathers[i] \in [time : Int, code : Int, precip : Nat]
    BY ReadingsAre DEF WeatherReadings
  <2> QED BY <2>1
<1>3. rain \in [1 .. n -> Int] /\ \A i \in 1 .. n : rain[i] = weathers[i].precip
  BY <1>1, <1>2
<1>4. WeatherSummary(weathers).max_precip = weathers[Most(rain)].precip
  BY DEF WeatherSummary
<1> HIDE DEF rain, n
<1>5. Most(rain) \in 1 .. n /\ \A j \in 1 .. n : rain[Most(rain)] >= rain[j]
  BY <1>1, <1>3, MostIs
<1>6. \A i \in 1 .. n : weathers[i].precip <= weathers[Most(rain)].precip
  BY <1>2, <1>3, <1>5
<1> QED BY <1>2, <1>4, <1>5, <1>6, ScoresInOrder DEF n

\* What the closest reading adds to a score: at most what the worst one would.
LEMMA ClosestBlockageIs ==
  ASSUME NEW models \in ModelReadings, NEW time \in Int
  PROVE  /\ ClosestBlockage(models, time) \in Nat
         /\ models = <<>> => ClosestBlockage(models, time) = 0
         /\ models # <<>> => ClosestBlockage(models, time)
                               <= BlockageScore(ModelReadingsSummary(models).most_severe)
<1> DEFINE worst == ModelReadingsSummary(models).most_severe
           closest == FindClosest(models, time)
<1>1. Len(models) \in Nat /\ (models = <<>> <=> Len(models) = 0)
  BY ReadingsAre DEF ModelReadings
<1>2. \A i \in 1 .. Len(models) : models[i] \in [time : Int, status : Statuses]
  BY ReadingsAre DEF ModelReadings
<1>3. closest = <<>> \/ \E i \in 1 .. Len(models) : closest = <<models[i]>>
  BY ClosestIsFound DEF ModelReadings
<1>4. models # <<>> => BlockageScore(worst) \in Nat
  BY <1>2, BlockageExtremes, ScoresInOrder
<1>5. ClosestBlockage(models, time) = IF closest = <<>> THEN 0 ELSE BlockageScore(closest[1].status)
  BY DEF ClosestBlockage
<1> HIDE DEF closest, worst
<1>6. CASE closest = <<>>
  BY <1>4, <1>5, <1>6 DEF worst
<1>7. ASSUME NEW i \in 1 .. Len(models), closest = <<models[i]>>
      PROVE  /\ ClosestBlockage(models, time) \in Nat
             /\ models # <<>>
             /\ ClosestBlockage(models, time) <= BlockageScore(worst)
  <2>1. models # <<>> /\ closest # <<>> /\ closest[1] = models[i]
    BY <1>1, <1>7
  <2>2. ClosestBlockage(models, time) = BlockageScore(models[i].status)
    BY <1>5, <2>1
  <2>3. models[i].status \in Statuses
    BY <1>2
  <2> QED BY <2>1, <2>2, <2>3, BlockageExtremes, ScoresInOrder DEF worst
<1> QED BY <1>3, <1>6, <1>7 DEF worst

LEMMA ClosestWeatherIs ==
  ASSUME NEW weathers \in WeatherReadings, NEW time \in Int
  PROVE  /\ ClosestWeather(weathers, time) \in Nat
         /\ weathers = <<>> => ClosestWeather(weathers, time) = 0
         /\ weathers # <<>> => ClosestWeather(weathers, time)
                                 <= WeatherScore(WeatherSummary(weathers).max_precip)
<1> DEFINE most == WeatherSummary(weathers).max_precip
           closest == FindClosest(weathers, time)
<1>1. Len(weathers) \in Nat /\ (weathers = <<>> <=> Len(weathers) = 0)
  BY ReadingsAre DEF WeatherReadings
<1>2. \A i \in 1 .. Len(weathers) : weathers[i] \in [time : Int, code : Int, precip : Nat]
  BY ReadingsAre DEF WeatherReadings
<1>3. closest = <<>> \/ \E i \in 1 .. Len(weathers) : closest = <<weathers[i]>>
  BY ClosestIsFound DEF WeatherReadings
<1>4. weathers # <<>> => WeatherScore(most) \in Nat
  BY WeatherExtremes, ScoresInOrder
<1>5. ClosestWeather(weathers, time) = IF closest = <<>> THEN 0 ELSE WeatherScore(closest[1].precip)
  BY DEF ClosestWeather
<1> HIDE DEF closest, most
<1>6. CASE closest = <<>>
  BY <1>4, <1>5, <1>6 DEF most
<1>7. ASSUME NEW i \in 1 .. Len(weathers), closest = <<weathers[i]>>
      PROVE  /\ ClosestWeather(weathers, time) \in Nat
             /\ weathers # <<>>
             /\ ClosestWeather(weathers, time) <= WeatherScore(most)
  <2>1. weathers # <<>> /\ closest # <<>> /\ closest[1] = weathers[i]
    BY <1>1, <1>7
  <2>2. ClosestWeather(weathers, time) = WeatherScore(weathers[i].precip)
    BY <1>5, <2>1
  <2>3. weathers[i].precip \in Nat
    BY <1>2
  <2> QED BY <2>1, <2>2, <2>3, WeatherExtremes, ScoresInOrder DEF most
<1> QED BY <1>3, <1>6, <1>7 DEF most

\* What a list of scores comes to in calculate_risk_scores.
LEMMA RisksAre ==
  ASSUME NEW d, NEW n \in Nat, n > 0, DOMAIN Scores(d) = 1 .. n,
         \A i \in 1 .. n : Scores(d)[i].score \in Int
  PROVE  LET r == RiskScores(d) IN
           /\ \E i \in 1 .. n : r.min_risk = Scores(d)[i].score
           /\ \E i \in 1 .. n : r.max_risk = Scores(d)[i].score
           /\ \A i \in 1 .. n : r.max_risk >= Scores(d)[i].score
<1> DEFINE risks == [i \in DOMAIN Scores(d) |-> Scores(d)[i].score]
<1>1. risks \in [1 .. n -> Int] /\ \A i \in 1 .. n : risks[i] = Scores(d)[i].score
  OBVIOUS
<1>2. /\ RiskScores(d).min_risk = Scores(d)[Least(risks)].score
      /\ RiskScores(d).max_risk = Scores(d)[Most(risks)].score
  BY DEF RiskScores
<1> HIDE DEF risks
<1>3. /\ Least(risks) \in 1 .. n
      /\ Most(risks) \in 1 .. n /\ \A j \in 1 .. n : risks[Most(risks)] >= risks[j]
  BY <1>1, LeastIs, MostIs
<1> QED BY <1>1, <1>2, <1>3

\* What is missing is not what is there.
LEMMA NotMissing ==
  ASSUME NEW d
  PROVE  /\ WaterLevelSummary(d.sensors) # NoValue
         /\ ModelReadingsSummary(d.models) # NoValue
         /\ WeatherSummary(d.weathers) # NoValue
         /\ RiskScores(d) # NoValue
<1>1. DOMAIN NoValue = {"missing"}
  BY DEF NoValue
<1>2. "min_level" \in DOMAIN WaterLevelSummary(d.sensors)
  BY DEF WaterLevelSummary
<1>3. "least_severe" \in DOMAIN ModelReadingsSummary(d.models)
  BY DEF ModelReadingsSummary
<1>4. "min_precip" \in DOMAIN WeatherSummary(d.weathers)
  BY DEF WeatherSummary
<1>5. "min_risk" \in DOMAIN RiskScores(d)
  BY DEF RiskScores
<1> QED BY <1>1, <1>2, <1>3, <1>4, <1>5

LEMMA RisksFit ==
  ASSUME NEW d \in DaysOfReadings
  PROVE  RisksFitExtremes(Summarised(d))
<1> DEFINE s == Summarised(d)
           water == WaterLevelSummary(d.sensors)
           worst == WorstBlockage(s)
           wettest == WorstWeather(s)
<1>1. d.sensors \in SensorReadings /\ d.models \in ModelReadings /\ d.weathers \in WeatherReadings
  BY DEF DaysOfReadings
<1>2. /\ s.water = IF d.sensors = <<>> THEN NoValue ELSE WaterLevelSummary(d.sensors)
      /\ s.blockage = IF d.models = <<>> THEN NoValue ELSE ModelReadingsSummary(d.models)
      /\ s.weather = IF d.weathers = <<>> THEN NoValue ELSE WeatherSummary(d.weathers)
      /\ s.risk = IF d.sensors = <<>> /\ d.models = <<>> /\ d.weathers = <<>>
                    THEN NoValue ELSE RiskScores(d)
  BY DEF Summarised, Part
<1> HIDE DEF s
<1>3. /\ s.water = NoValue <=> d.sensors = <<>>
      /\ s.blockage = NoValue <=> d.models = <<>>
      /\ s.weather = NoValue <=> d.weathers = <<>>
      /\ s.risk = NoValue <=> d.sensors = <<>> /\ d.models = <<>> /\ d.weathers = <<>>
  BY <1>2, NotMissing
<1>4. /\ worst = IF d.models = <<>> THEN 0
                  ELSE BlockageScore(ModelReadingsSummary(d.models).most_severe)
      /\ wettest = IF d.weathers = <<>> THEN 0
                    ELSE WeatherScore(WeatherSummary(d.weathers).max_precip)
  BY <1>2, <1>3 DEF WorstBlockage, WorstWeather
<1> HIDE DEF worst, wettest
<1>5. worst \in Nat
  <2>1. CASE d.models = <<>>
    BY <1>4, <2>1
  <2>2. CASE d.models # <<>>
    <3>1. \A i \in 1 .. Len(d.models) : d.models[i].status \in Statuses
      <4>1. \A i \in 1 .. Len(d.models) : d.models[i] \in [time : Int, status : Statuses]
        BY <1>1, ReadingsAre DEF ModelReadings
      <4> QED BY <4>1
    <3> QED BY <1>1, <1>4, <2>2, <3>1, BlockageExtremes, ScoresInOrder
  <2> QED BY <2>1, <2>2
<1>6. wettest \in Nat
  BY <1>1, <1>4, WeatherExtremes, ScoresInOrder
<1>7. \A t \in Int : /\ ClosestBlockage(d.models, t) \in 0 .. worst
                    /\ ClosestWeather(d.weathers, t) \in 0 .. wettest
  <2> SUFFICES ASSUME NEW t \in Int
               PROVE  /\ ClosestBlockage(d.models, t) \in 0 .. worst
                      /\ ClosestWeather(d.weathers, t) \in 0 .. wettest
    OBVIOUS
  <2>1. ClosestBlockage(d.models, t) \in Nat /\ ClosestBlockage(d.models, t) <= worst
    BY <1>1, <1>4, ClosestBlockageIs
  <2>2. ClosestWeather(d.weathers, t) \in Nat /\ ClosestWeather(d.weathers, t) <= wettest
    BY <1>1, <1>4, ClosestWeatherIs
  <2> QED BY <1>5, <1>6, <2>1, <2>2
<1>8. s.water # NoValue =>
        /\ s.risk.min_risk >= WaterScore(s.water.min_level)
        /\ s.risk.max_risk >= WaterScore(s.water.max_level)
        /\ s.risk.max_risk <= WaterScore(s.water.max_level) + worst + wettest
  <2> SUFFICES ASSUME d.sensors # <<>>
               PROVE  /\ RiskScores(d).min_risk >= WaterScore(water.min_level)
                      /\ RiskScores(d).max_risk >= WaterScore(water.max_level)
                      /\ RiskScores(d).max_risk <= WaterScore(water.max_level) + worst + wettest
    BY <1>2, <1>3
  <2> DEFINE n == Len(d.sensors)
             level(i) == d.sensors[i].pct
             score(i) == Scores(d)[i].score
             blockage(i) == ClosestBlockage(d.models, d.sensors[i].time)
             weather(i) == ClosestWeather(d.weathers, d.sensors[i].time)
  <2>1. n \in Nat /\ n > 0 /\ DOMAIN d.sensors = 1 .. n
    BY <1>1, ReadingsAre DEF SensorReadings
  <2>2. \A i \in 1 .. n : d.sensors[i].time \in Int /\ level(i) \in Nat
    <3>1. \A i \in 1 .. n : d.sensors[i] \in [time : Int, pct : Nat]
      BY <1>1, ReadingsAre DEF SensorReadings
    <3> QED BY <3>1
  <2>3. DOMAIN Scores(d) = 1 .. n
    BY <2>1 DEF Scores
  <2>4. \A i \in 1 .. n : score(i) = WaterScore(level(i)) + blockage(i) + weather(i)
    BY <2>1 DEF Scores
  <2> HIDE DEF score
  <2>5. \A i \in 1 .. n : /\ WaterScore(level(i)) \in Nat
                         /\ blockage(i) \in 0 .. worst /\ weather(i) \in 0 .. wettest
    BY <1>7, <2>2, ScoresInOrder
  <2> HIDE DEF blockage, weather
  <2>6. \A i \in 1 .. n : /\ score(i) \in Int
                         /\ score(i) >= WaterScore(level(i))
                         /\ score(i) <= WaterScore(level(i)) + worst + wettest
    BY <1>5, <1>6, <2>4, <2>5
  <2>7. /\ water.min_level \in Nat /\ water.max_level \in Nat
        /\ \E i \in 1 .. n : water.max_level = level(i)
        /\ \A i \in 1 .. n : water.min_level <= level(i) /\ level(i) <= water.max_level
    BY <1>1, WaterExtremes
  <2> HIDE DEF water, level
  <2>8. /\ WaterScore(water.min_level) \in Nat /\ WaterScore(water.max_level) \in Nat
        /\ \A i \in 1 .. n : /\ WaterScore(water.min_level) <= WaterScore(level(i))
                             /\ WaterScore(level(i)) <= WaterScore(water.max_level)
    BY <2>2, <2>7, ScoresInOrder DEF level
  <2>9. /\ \E i \in 1 .. n : RiskScores(d).min_risk = score(i)
        /\ \E i \in 1 .. n : RiskScores(d).max_risk = score(i)
        /\ \A i \in 1 .. n : RiskScores(d).max_risk >= score(i)
    <3>1. \A i \in 1 .. n : Scores(d)[i].score \in Int
      BY <2>6 DEF score
    <3> HIDE DEF n
    <3> QED BY <2>1, <2>3, <3>1, RisksAre DEF score
  <2> HIDE DEF n
  <2>10. RiskScores(d).min_risk >= WaterScore(water.min_level)
    BY <2>5, <2>6, <2>8, <2>9
  <2>11. RiskScores(d).max_risk >= WaterScore(water.max_level)
    <3>1. PICK i \in 1 .. n : water.max_level = level(i)
      BY <2>7
    <3> QED BY <2>5, <2>6, <2>9, <3>1
  <2>12. RiskScores(d).max_risk <= WaterScore(water.max_level) + worst + wettest
    <3>1. PICK i \in 1 .. n : RiskScores(d).max_risk = score(i)
      BY <2>9
    <3>2. score(i) <= WaterScore(level(i)) + worst + wettest /\ score(i) \in Int
      BY <2>6
    <3>3. WaterScore(level(i)) <= WaterScore(water.max_level) /\ WaterScore(level(i)) \in Nat
      BY <2>5, <2>8
    <3> QED BY <1>5, <1>6, <2>8, <3>1, <3>2, <3>3
  <2> QED BY <2>10, <2>11, <2>12
<1>9. s.water = NoValue /\ s.blockage # NoValue =>
        s.risk.max_risk >= worst /\ s.risk.max_risk <= worst + wettest
  <2> SUFFICES ASSUME d.sensors = <<>>, d.models # <<>>
               PROVE  RiskScores(d).max_risk >= worst /\ RiskScores(d).max_risk <= worst + wettest
    BY <1>2, <1>3
  <2> DEFINE n == Len(d.models)
             blockage(i) == BlockageScore(d.models[i].status)
             score(i) == Scores(d)[i].score
             weather(i) == ClosestWeather(d.weathers, d.models[i].time)
  <2>1. n \in Nat /\ n > 0 /\ DOMAIN d.models = 1 .. n
    BY <1>1, ReadingsAre DEF ModelReadings
  <2>2. \A i \in 1 .. n : d.models[i].time \in Int /\ d.models[i].status \in Statuses
    <3>1. \A i \in 1 .. n : d.models[i] \in [time : Int, status : Statuses]
      BY <1>1, ReadingsAre DEF ModelReadings
    <3> QED BY <3>1
  <2>3. DOMAIN Scores(d) = 1 .. n
    BY <2>1 DEF Scores
  <2>4. \A i \in 1 .. n : score(i) = blockage(i) + weather(i)
    BY <2>1 DEF Scores
  <2> HIDE DEF score
  <2>5. \A i \in 1 .. n : blockage(i) \in Nat /\ weather(i) \in 0 .. wettest
    BY <1>7, <2>2, ScoresInOrder
  <2>6. /\ \E i \in 1 .. n : worst = blockage(i)
        /\ \A i \in 1 .. n : blockage(i) <= worst
    BY <1>1, <1>4, BlockageExtremes
  <2> HIDE DEF blockage, weather
  <2>7. \A i \in 1 .. n : /\ score(i) \in Int /\ score(i) >= blockage(i)
                         /\ score(i) <= worst + wettest
    BY <1>5, <1>6, <2>4, <2>5, <2>6
  <2>8. /\ \E i \in 1 .. n : RiskScores(d).max_risk = score(i)
        /\ \A i \in 1 .. n : RiskScores(d).max_risk >= score(i)
    <3>1. \A i \in 1 .. n : Scores(d)[i].score \in Int
      BY <2>7 DEF score
    <3> HIDE DEF n
    <3> QED BY <2>1, <2>3, <3>1, RisksAre DEF score
  <2> HIDE DEF n
  <2>9. RiskScores(d).max_risk >= worst
    <3>1. PICK i \in 1 .. n : worst = blockage(i)
      BY <2>6
    <3> QED BY <1>5, <2>7, <2>8, <3>1
  <2> QED BY <2>7, <2>8, <2>9
<1> QED BY <1>3, <1>8, <1>9 DEF RisksFitExtremes, s, worst, wettest

\* In a summary of any day of readings each reading has been matched with the
\* closest of the other sources, and the risks fit the extremes
\* (_find_closest, calculate_risk_scores).
THEOREM SummaryFits ==
  ASSUME NEW d \in DaysOfReadings
  PROVE  IsExplained(d)
<1>1. /\ d.sensors \in SensorReadings /\ d.models \in ModelReadings
      /\ d.weathers \in WeatherReadings
  BY DEF DaysOfReadings
<1>2. \A i \in DOMAIN d.sensors : d.sensors[i].time \in Int
  <2>1. \A i \in DOMAIN d.sensors : d.sensors[i] \in [time : Int, pct : Nat]
    BY <1>1, ReadingsAre DEF SensorReadings
  <2> QED BY <2>1
<1>3. \A t \in Int : Matched(d.models, t) /\ Matched(d.weathers, t)
  <2> SUFFICES ASSUME NEW t \in Int PROVE Matched(d.models, t) /\ Matched(d.weathers, t)
    OBVIOUS
  <2>1. Matched(d.models, t)
    BY <1>1, ClosestIsFound DEF ModelReadings
  <2>2. Matched(d.weathers, t)
    BY <1>1, ClosestIsFound DEF WeatherReadings
  <2> QED BY <2>1, <2>2
<1> QED BY <1>2, <1>3, RisksFit DEF IsExplained

DayInv == day \in DaysOfReadings

LEMMA LaterReading ==
  ASSUME NEW R, \A r \in R : r.time \in Int, NEW readings \in Readings(R), NEW r \in R,
         Later(readings, r)
  PROVE  Append(readings, r) \in Readings(R)
<1> DEFINE n == Len(readings)
           more == Append(readings, r)
<1>1. readings \in Seq(R) /\ n \in Nat /\ DOMAIN readings = 1 .. n
  BY ReadingsAre
<1>2. /\ more \in Seq(R) /\ Len(more) = n + 1 /\ more[n + 1] = r
      /\ \A i \in 1 .. n : more[i] = readings[i]
  BY <1>1, AppendProperties
<1> HIDE DEF more, n
<1>3. \A i, j \in 1 .. n : i < j => more[i].time <= more[j].time
  BY <1>2 DEF Readings, Timed, n
<1>4. \A i \in 1 .. n : more[i].time <= more[n + 1].time
  <2> SUFFICES ASSUME NEW i \in 1 .. n PROVE readings[i].time <= r.time
    BY <1>2
  <2>1. readings[i].time < r.time
    BY <1>1 DEF Later
  <2>2. readings[i].time \in Int /\ r.time \in Int
    BY ReadingsAre DEF n
  <2> QED BY <2>1, <2>2
<1>5. Timed(more)
  BY <1>1, <1>2, <1>3, <1>4 DEF Timed
<1> QED BY <1>2, <1>5 DEF Readings, more

LEMMA DayInvariance == Spec => []DayInv
<1>0. NoDay \in DaysOfReadings
  BY DEF NoDay, DaysOfReadings, SensorReadings, ModelReadings, WeatherReadings, Readings, Timed
<1>1. Init => DayInv
  BY <1>0 DEF Init, DayInv
<1>2. DayInv /\ [Next]_<<in, th, boxes, day, code, log>> => DayInv'
  <2> SUFFICES ASSUME DayInv, [Next]_<<in, th, boxes, day, code, log>> PROVE DayInv'
    OBVIOUS
  <2>1. CASE Happen
    <3>1. /\ day \in [sensors : SensorReadings, models : ModelReadings, weathers : WeatherReadings]
          /\ \A t \in DayTimes : t \in Int
      BY DEF DayInv, DaysOfReadings, DayTimes
    <3>2. ASSUME NEW r \in [time : DayTimes, pct : {400, 900}], Later(day.sensors, r),
                 day' = [day EXCEPT !.sensors = Append(@, r)]
          PROVE  DayInv'
      <4>1. r \in [time : Int, pct : Nat]
        BY <3>1
      <4>2. Append(day.sensors, r) \in SensorReadings
        <5> DEFINE R == [time : Int, pct : Nat]
        <5>1. r \in R /\ day.sensors \in Readings(R) /\ \A q \in R : q.time \in Int
          BY <3>1, <4>1 DEF SensorReadings
        <5> HIDE DEF R
        <5>2. Append(day.sensors, r) \in Readings(R)
          BY <3>2, <5>1, LaterReading
        <5> QED BY <5>2 DEF R, SensorReadings
      <4> QED BY <3>1, <3>2, <4>2 DEF DayInv, DaysOfReadings
    <3>3. ASSUME NEW r \in [time : DayTimes, status : {"partial", "blocked"}],
                 Later(day.models, r), day' = [day EXCEPT !.models = Append(@, r)]
          PROVE  DayInv'
      <4>1. r \in [time : Int, status : Statuses]
        BY <3>1 DEF Statuses
      <4>2. Append(day.models, r) \in ModelReadings
        <5> DEFINE R == [time : Int, status : Statuses]
        <5>1. r \in R /\ day.models \in Readings(R) /\ \A q \in R : q.time \in Int
          BY <3>1, <4>1 DEF ModelReadings
        <5> HIDE DEF R
        <5>2. Append(day.models, r) \in Readings(R)
          BY <3>3, <5>1, LaterReading
        <5> QED BY <5>2 DEF R, ModelReadings
      <4> QED BY <3>1, <3>3, <4>2 DEF DayInv, DaysOfReadings
    <3>4. ASSUME NEW r, r \in [time : Int, code : Int, precip : Nat],
                 Later(day.weathers, r), day' = [day EXCEPT !.weathers = Append(@, r)]
          PROVE  DayInv'
      <4>1. r \in [time : Int, code : Int, precip : Nat]
        BY <3>4
      <4>2. Append(day.weathers, r) \in WeatherReadings
        <5> DEFINE R == [time : Int, code : Int, precip : Nat]
        <5>1. r \in R /\ day.weathers \in Readings(R) /\ \A q \in R : q.time \in Int
          BY <3>1, <4>1 DEF WeatherReadings
        <5> HIDE DEF R
        <5>2. Append(day.weathers, r) \in Readings(R)
          BY <3>4, <5>1, LaterReading
        <5> QED BY <5>2 DEF R, WeatherReadings
      <4> QED BY <3>1, <3>4, <4>2 DEF DayInv, DaysOfReadings
    <3>5. {[time |-> t, code |-> w[1], precip |-> w[2]] :
             t \in DayTimes, w \in {<<3, 0>>, <<65, 750>>}}
            \subseteq [time : Int, code : Int, precip : Nat]
      BY <3>1
    <3> QED BY <2>1, <3>2, <3>3, <3>4, <3>5 DEF Happen
  <2>2. CASE day' = NoDay
    BY <1>0, <2>2 DEF DayInv
  <2>3. CASE UNCHANGED day
    BY <2>3 DEF DayInv
  <2> QED BY <2>1, <2>2, <2>3 DEF Next, Deliver, Detect, Report, Notify, Anew
<1> QED BY <1>1, <1>2, PTL DEF Spec

\* The days of the run are days of readings in the order of their times, so
\* their summaries are explained (_find_closest, calculate_risk_scores).
THEOREM GridSummary == Spec => []SummaryIsExplained
<1>1. DayInv => SummaryIsExplained
  BY SummaryFits DEF DayInv, SummaryIsExplained
<1> QED BY DayInvariance, <1>1, PTL

-----------------------------------------------------------------------------
(***************************************************************************)
(* Reports: pages.                                                         *)
(***************************************************************************)
\* ORDER BY ... DESC of places.
LEMMA NewestAreListed ==
  ASSUME NEW S \in SUBSET Int, IsFiniteSet(S)
  PROVE  /\ ListOf(NewestFirst(S), S)
         /\ \A i, j \in 1 .. Len(NewestFirst(S)) : i < j => NewestFirst(S)[i] > NewestFirst(S)[j]
<1> DEFINE list == NewestFirst(S)  n == Cardinality(S)
           R == {p \in Int \X Int : p[1] > p[2]}
           Fits(l) == \A i, j \in 1 .. n : i < j => l[i] > l[j]
<1>1. \A s, t \in Int : <<s, t>> \in R <=> s > t
  OBVIOUS
<1> HIDE DEF R
<1>2. Orders(R, S)
  BY <1>1 DEF Orders
<1>3. list = CHOOSE l \in [1 .. n -> S] : Fits(l)
  BY DEF NewestFirst, Sorted
<1>4. \A l \in [1 .. n -> S] : Fits(l) <=> InOrder(l, S, R)
  <2> SUFFICES ASSUME NEW l \in [1 .. n -> S] PROVE Fits(l) <=> InOrder(l, S, R)
    OBVIOUS
  <2>1. \A i \in 1 .. n : l[i] \in Int
    OBVIOUS
  <2> QED BY <1>1, <2>1 DEF InOrder
<1>5. PICK l : InOrder(l, S, R)
  BY <1>2, ListExists
<1> HIDE DEF Fits, list
<1>6. l \in [1 .. n -> S] /\ Fits(l)
  BY <1>4, <1>5 DEF InOrder
<1>7. list \in [1 .. n -> S] /\ Fits(list)
  BY <1>3, <1>6
<1>8. InOrder(list, S, R)
  BY <1>4, <1>7
<1>9. ListOf(list, S)
  BY <1>2, <1>8, InOrderLists
<1> QED BY <1>7, <1>9 DEF ListOf, Fits, list

\* What a number of pages holds.
LEMMA PagesHold ==
  ASSUME NEW all, Len(all) \in Nat, NEW size \in Nat \ {0}, all = <<>> <=> Len(all) = 0
  PROVE  LET N == LastPage(all, size) IN
           /\ N \in Nat /\ N >= 1 /\ Len(all) <= N * size
           /\ \A p \in 1 .. N : /\ (p - 1) * size \in Nat /\ (p - 1) * size <= Len(all)
                                /\ p * size < Len(all) <=> p < N
<1> DEFINE N == LastPage(all, size)  L == Len(all)
<1>1. CASE all = <<>>
  <2>1. N = 1 /\ L = 0
    BY <1>1 DEF LastPage
  <2> QED BY <2>1
<1>2. CASE all # <<>>
  <2>1. N = (L + size - 1) \div size
    BY <1>2 DEF LastPage, TotalPages
  <2>2. L \in Nat /\ L >= 1 /\ size >= 1
    BY <1>2
  <2> HIDE DEF L, N
  <2>3. N \in Int /\ N * size <= L + size - 1 /\ L + size - 1 < (N + 1) * size
    BY <2>1, <2>2
  <2>4. N >= 1
    BY <2>2, <2>3
  <2>5. L <= N * size /\ (N - 1) * size < L
    BY <2>2, <2>3
  <2>6. ASSUME NEW p \in 1 .. N
        PROVE  /\ (p - 1) * size \in Nat /\ (p - 1) * size <= L
               /\ p * size < L <=> p < N
    <3>1. (p - 1) * size \in Nat /\ (p - 1) * size <= (N - 1) * size
      BY <2>2, <2>3
    <3>2. p < N => p * size <= (N - 1) * size
      BY <2>2, <2>3
    <3>3. (N - 1) * size \in Int /\ p * size \in Int /\ N * size \in Int
      BY <2>3
    <3>4. p = N => p * size = N * size
      OBVIOUS
    <3> QED BY <2>2, <2>3, <2>5, <3>1, <3>2, <3>3, <3>4
  <2> QED BY <2>3, <2>4, <2>5, <2>6 DEF L, N
<1> QED BY <1>1, <1>2

\* What an OFFSET and a LIMIT leave of a list.
LEMMA RowsCut ==
  ASSUME NEW S, NEW all \in Seq(S), NEW offset \in 0 .. Len(all), NEW limit \in Nat
  PROVE  LET last == IF offset + limit < Len(all) THEN offset + limit ELSE Len(all) IN
           /\ Rows(all, offset, limit) = SubSeq(all, offset + 1, last)
           /\ Rows(all, offset, limit) \in Seq(S)
           /\ Len(Rows(all, offset, limit)) = last - offset
           /\ \A k \in 1 .. last - offset : Rows(all, offset, limit)[k] = all[offset + k]
<1> DEFINE last == IF offset + limit < Len(all) THEN offset + limit ELSE Len(all)
           rows == Rows(all, offset, limit)
<1>1. /\ Len(all) \in Nat /\ offset \in Int /\ last \in Int /\ offset <= last /\ last <= Len(all)
      /\ 0 <= offset
  BY LenProperties
<1>2. rows = SubSeq(all, offset + 1, last)
  BY DEF Rows
<1> HIDE DEF last, rows
<1>3. \A i \in offset + 1 .. last : all[i] \in S
  BY <1>1, ElementOfSeq
<1>4. /\ rows \in Seq(S)
      /\ Len(rows) = IF offset + 1 <= last THEN last - (offset + 1) + 1 ELSE 0
      /\ \A k \in 1 .. last - (offset + 1) + 1 : rows[k] = all[(offset + 1) + k - 1]
  BY <1>1, <1>2, <1>3, SubSeqProperties
<1>5. Len(rows) = last - offset
  BY <1>1, <1>4
<1>6. \A k \in 1 .. last - offset : rows[k] = all[offset + k]
  <2> SUFFICES ASSUME NEW k \in 1 .. last - offset PROVE rows[k] = all[offset + k]
    OBVIOUS
  <2>1. k \in 1 .. last - (offset + 1) + 1 /\ (offset + 1) + k - 1 = offset + k
    BY <1>1
  <2> QED BY <1>4, <2>1
<1> QED BY <1>2, <1>4, <1>5, <1>6 DEF last, rows

\* Pages of so many rows, one after another, are the list.
LEMMA PagesJoin ==
  ASSUME NEW S, NEW all \in Seq(S), NEW size \in Nat \ {0}, NEW pages,
         DOMAIN pages = 1 .. LastPage(all, size), Len(pages) = LastPage(all, size),
         \A p \in 1 .. LastPage(all, size) :
           /\ pages[p].items = Rows(all, (p - 1) * size, size)
           /\ pages[p].has_more <=> p < LastPage(all, size)
  PROVE  PagesShow(all, pages)
<1> DEFINE N == LastPage(all, size)  L == Len(all)
           lists == [p \in 1 .. N |-> pages[p].items]
           UpTop(p) == IF p * size < L THEN p * size ELSE L
<1>1. L \in Nat /\ (all = <<>> <=> L = 0)
  BY LenProperties, EmptySeq
<1>2. /\ N \in Nat /\ N >= 1 /\ L <= N * size
      /\ \A p \in 1 .. N : /\ (p - 1) * size \in Nat /\ (p - 1) * size <= L
                           /\ p * size < L <=> p < N
  BY <1>1, PagesHold
<1>3. \A p \in 1 .. N : lists[p] = Rows(all, (p - 1) * size, size)
  OBVIOUS
<1> HIDE DEF N, L
<1>4. Len(lists) = N
  BY <1>2
<1> HIDE DEF lists
<1>5. \A p \in 1 .. N :
         LET last == IF (p - 1) * size + size < L THEN (p - 1) * size + size ELSE L IN
         /\ lists[p] = SubSeq(all, (p - 1) * size + 1, last)
         /\ lists[p] \in Seq(S)
  <2> SUFFICES ASSUME NEW p \in 1 .. N
               PROVE  LET last == IF (p - 1) * size + size < L THEN (p - 1) * size + size ELSE L IN
                        /\ lists[p] = SubSeq(all, (p - 1) * size + 1, last)
                        /\ lists[p] \in Seq(S)
    OBVIOUS
  <2> DEFINE from == (p - 1) * size
  <2>1. from \in 0 .. L
    BY <1>1, <1>2
  <2>2. lists[p] = Rows(all, from, size)
    BY <1>3
  <2> HIDE DEF from
  <2>3. LET last == IF from + size < L THEN from + size ELSE L IN
          Rows(all, from, size) = SubSeq(all, from + 1, last) /\ Rows(all, from, size) \in Seq(S)
    BY <2>1, RowsCut DEF L
  <2> QED BY <2>2, <2>3 DEF from
<1>6. PICK row : /\ row[0] = <<>>
                 /\ \A n \in 1 .. N : row[n] = row[n - 1] \o lists[n]
                 /\ Joined(lists) = row[N]
  <2>1. Len(lists) \in Nat /\ \A n \in 1 .. Len(lists) : lists[n] \in Seq(S)
    BY <1>2, <1>4, <1>5
  <2> QED BY <1>4, <2>1, JoinRuns
<1> DEFINE Q == {p \in 0 .. N : row[p] = SubSeq(all, 1, UpTop(p))}
<1>7. 0 \in Q
  <2>1. UpTop(0) = 0 /\ 0 \in 0 .. N
    BY <1>1, <1>2
  <2>2. SubSeq(all, 1, 0) = <<>>
    BY SubSeqEmpty
  <2> QED BY <1>6, <2>1, <2>2
<1>8. ASSUME NEW p \in 0 .. N - 1, p \in Q PROVE p + 1 \in Q
  <2> DEFINE k == p * size  last == IF k + size < L THEN k + size ELSE L
  <2>1. p + 1 \in 1 .. N /\ (p + 1) - 1 = p /\ p + 1 \in 0 .. N
    BY <1>2
  <2>2. k \in Nat /\ k <= L /\ (p + 1) * size = k + size /\ k + size \in Nat
    <3>1. p \in Int /\ size \in Int
      BY <1>2
    <3>2. (p + 1) * size = p * size + size /\ p * size \in Int
      BY <3>1
    <3>3. ((p + 1) - 1) * size \in Nat /\ ((p + 1) - 1) * size <= L
      BY <1>2, <2>1
    <3>4. p * size \in Nat /\ p * size <= L
      BY <2>1, <3>3
    <3> QED BY <3>1, <3>2, <3>4
  <2>3. UpTop(p) = k /\ UpTop(p + 1) = last
    BY <1>1, <2>2
  <2>4. lists[p + 1] = SubSeq(all, k + 1, last)
    BY <1>5, <2>1
  <2>5. row[p + 1] = row[p] \o lists[p + 1]
    BY <1>6, <2>1
  <2>6. row[p] = SubSeq(all, 1, k)
    BY <1>8, <2>3
  <2> HIDE DEF k, UpTop
  <2>7. k \in 0 .. L /\ last \in k .. L
    BY <1>1, <2>2
  <2> HIDE DEF last
  <2>8. SubSeq(all, 1, k) \o SubSeq(all, k + 1, last) = SubSeq(all, 1, last)
    <3>1. 1 \in 1 .. L + 1 /\ k \in 1 - 1 .. L
      BY <1>1, <2>7
    <3> QED BY <2>7, <3>1, ConcatAdjacentSubSeq DEF L
  <2> QED BY <2>1, <2>3, <2>4, <2>5, <2>6, <2>8
<1> HIDE DEF Q
<1>9. N \in Q
  <2>1. 0 .. N \subseteq Q
    BY <1>2, <1>7, <1>8, UpTo
  <2> QED BY <1>2, <2>1
<1>10. row[N] = all
  <2>1. ~(N * size < L)
    BY <1>1, <1>2
  <2>2. row[N] = SubSeq(all, 1, L)
    BY <1>9, <2>1 DEF Q
  <2> QED BY <2>2, SubSeqFull DEF L
<1>11. Joined([p \in DOMAIN pages |-> pages[p].items]) = all
  BY <1>6, <1>10 DEF lists, N
<1> QED BY <1>11 DEF PagesShow

\* Counting all rows tells the last page.
LEMMA CountedShow ==
  ASSUME NEW S, NEW all \in Seq(S), NEW size \in Nat \ {0}
  PROVE  PagesShow(all, [p \in 1 .. LastPage(all, size) |-> Counted(all, p, size)])
<1> DEFINE N == LastPage(all, size)  pages == [p \in 1 .. N |-> Counted(all, p, size)]
<1>1. Len(all) \in Nat /\ (all = <<>> <=> Len(all) = 0)
  BY LenProperties, EmptySeq
<1>2. N \in Nat /\ N >= 1
  BY <1>1, PagesHold
<1>3. \A p \in 1 .. N : p < TotalPages(Len(all), size) <=> p < N
  <2>1. CASE all = <<>>
    <3>1. N = 1 /\ TotalPages(Len(all), size) = (size - 1) \div size
      BY <1>1, <2>1 DEF LastPage, TotalPages
    <3>2. (size - 1) \div size = 0
      OBVIOUS
    <3> QED BY <3>1, <3>2
  <2>2. CASE all # <<>>
    BY <2>2 DEF LastPage
  <2> QED BY <2>1, <2>2
<1>4. \A p \in 1 .. N : /\ pages[p].items = Rows(all, (p - 1) * size, size)
                        /\ pages[p].has_more <=> p < N
  BY <1>3 DEF Counted
<1> HIDE DEF N
<1>5. DOMAIN pages = 1 .. N /\ Len(pages) = N
  BY <1>2
<1> HIDE DEF pages
<1>6. PagesShow(all, pages)
  BY <1>4, <1>5, PagesJoin DEF N
<1> QED BY <1>6 DEF pages, N

\* One row more than a page shows tells whether there is another page.
LEMMA PeekedOnce ==
  ASSUME NEW S, NEW all \in Seq(S), NEW size \in Nat \ {0}, NEW p \in 1 .. LastPage(all, size)
  PROVE  /\ Peeked(all, p, size).items = Rows(all, (p - 1) * size, size)
         /\ Peeked(all, p, size).has_more <=> p < LastPage(all, size)
<1> DEFINE N == LastPage(all, size)  L == Len(all)  from == (p - 1) * size
           rows == Rows(all, from, size + 1)
<1>1. L \in Nat /\ (all = <<>> <=> L = 0)
  BY LenProperties, EmptySeq
<1>2. /\ N \in Nat /\ from \in Nat /\ from <= L /\ from + size = p * size
      /\ from + size < L <=> p < N
  BY <1>1, PagesHold
<1>3. Peeked(all, p, size) = [items |-> Rows(rows, 0, size), has_more |-> Len(rows) > size]
  BY DEF Peeked
<1> DEFINE most == IF from + (size + 1) < L THEN from + (size + 1) ELSE L
           last == IF from + size < L THEN from + size ELSE L
<1> HIDE DEF from
<1>4. /\ rows \in Seq(S) /\ Len(rows) = most - from
      /\ \A k \in 1 .. most - from : rows[k] = all[from + k]
  <2>1. from \in 0 .. Len(all) /\ size + 1 \in Nat
    BY <1>1, <1>2
  <2> QED BY <2>1, RowsCut
<1>5. /\ Rows(all, from, size) \in Seq(S) /\ Len(Rows(all, from, size)) = last - from
      /\ \A k \in 1 .. last - from : Rows(all, from, size)[k] = all[from + k]
  <2>1. from \in 0 .. Len(all) /\ size \in Nat
    BY <1>1, <1>2
  <2> QED BY <2>1, RowsCut
<1> HIDE DEF rows, L, N
<1> DEFINE cut == IF 0 + size < Len(rows) THEN 0 + size ELSE Len(rows)
<1>6. /\ Rows(rows, 0, size) \in Seq(S) /\ Len(Rows(rows, 0, size)) = cut - 0
      /\ \A k \in 1 .. cut - 0 : Rows(rows, 0, size)[k] = rows[0 + k]
  <2>1. 0 \in 0 .. Len(rows) /\ size \in Nat
    BY <1>1, <1>2, <1>4
  <2> QED BY <1>4, <2>1, RowsCut
<1>7. /\ cut - 0 = last - from /\ last - from <= most - from
      /\ last - from \in Int /\ most - from \in Int
  BY <1>1, <1>2, <1>4
<1>8. (Len(rows) > size) <=> p < N
  BY <1>1, <1>2, <1>4
<1> HIDE DEF cut, last, most
<1>9. Rows(rows, 0, size) = Rows(all, from, size)
  <2>1. \A k \in 1 .. last - from : Rows(rows, 0, size)[k] = Rows(all, from, size)[k]
    <3> SUFFICES ASSUME NEW k \in 1 .. last - from
                 PROVE  Rows(rows, 0, size)[k] = Rows(all, from, size)[k]
      OBVIOUS
    <3>1. k \in 1 .. most - from /\ k \in 1 .. cut - 0 /\ 0 + k = k
      BY <1>7
    <3> QED BY <1>4, <1>5, <1>6, <3>1
  <2> QED BY <1>5, <1>6, <1>7, <2>1, SeqEqual
<1>10. Peeked(all, p, size).items = Rows(rows, 0, size)
  BY <1>3
<1>11. Peeked(all, p, size).has_more = (Len(rows) > size)
  BY <1>3
<1> QED BY <1>8, <1>9, <1>10, <1>11, Zenon DEF from, N

LEMMA PeekedShow ==
  ASSUME NEW S, NEW all \in Seq(S), NEW size \in Nat \ {0}
  PROVE  PagesShow(all, [p \in 1 .. LastPage(all, size) |-> Peeked(all, p, size)])
<1> DEFINE N == LastPage(all, size)  pages == [p \in 1 .. N |-> Peeked(all, p, size)]
<1>1. Len(all) \in Nat /\ (all = <<>> <=> Len(all) = 0)
  BY LenProperties, EmptySeq
<1>2. N \in Nat
  BY <1>1, PagesHold
<1>3. \A p \in 1 .. N : /\ pages[p].items = Rows(all, (p - 1) * size, size)
                        /\ pages[p].has_more <=> p < N
  BY PeekedOnce
<1> HIDE DEF N
<1>4. DOMAIN pages = 1 .. N /\ Len(pages) = N
  BY <1>2
<1> HIDE DEF pages
<1>5. PagesShow(all, pages)
  BY <1>3, <1>4, PagesJoin DEF N
<1> QED BY <1>5 DEF pages, N

\* Places in their order.
LEMMA OldestAreListed ==
  ASSUME NEW S \in SUBSET Int, IsFiniteSet(S)
  PROVE  /\ ListOf(OldestFirst(S), S)
         /\ \A i, j \in 1 .. Len(OldestFirst(S)) : i < j => OldestFirst(S)[i] < OldestFirst(S)[j]
<1> DEFINE list == OldestFirst(S)
           n == Cardinality(S)
           R == {p \in Int \X Int : p[1] < p[2]}
           Fits(l) == \A i, j \in 1 .. n : i < j => l[i] < l[j]
<1>1. \A s, t \in Int : <<s, t>> \in R <=> s < t
  OBVIOUS
<1> HIDE DEF R
<1>2. Orders(R, S)
  <2>1. \A s \in S : s \in Int
    OBVIOUS
  <2>2. \A s, t \in S : s = t \/ <<s, t>> \in R \/ <<t, s>> \in R
    <3> SUFFICES ASSUME NEW s \in S, NEW t \in S PROVE s = t \/ <<s, t>> \in R \/ <<t, s>> \in R
      OBVIOUS
    <3>1. s \in Int /\ t \in Int
      BY <2>1
    <3>2. s = t \/ s < t \/ t < s
      BY <3>1
    <3> QED BY <1>1, <3>1, <3>2
  <2>3. \A s, t, u \in S : <<s, t>> \in R /\ <<t, u>> \in R => <<s, u>> \in R
    <3> SUFFICES ASSUME NEW s \in S, NEW t \in S, NEW u \in S, <<s, t>> \in R, <<t, u>> \in R
                 PROVE  <<s, u>> \in R
      OBVIOUS
    <3>1. s \in Int /\ t \in Int /\ u \in Int
      BY <2>1
    <3>2. s < t /\ t < u
      BY <1>1, <3>1
    <3> QED BY <1>1, <3>1, <3>2
  <2>4. \A s \in S : <<s, s>> \notin R
    BY <1>1, <2>1
  <2> QED BY <2>2, <2>3, <2>4 DEF Orders
<1>3. list = CHOOSE l \in [1 .. n -> S] : Fits(l)
  BY DEF OldestFirst, Sorted
<1>4. \A l \in [1 .. n -> S] : Fits(l) <=> InOrder(l, S, R)
  <2> SUFFICES ASSUME NEW l \in [1 .. n -> S] PROVE Fits(l) <=> InOrder(l, S, R)
    OBVIOUS
  <2>1. \A i \in 1 .. n : l[i] \in Int
    OBVIOUS
  <2> QED BY <1>1, <2>1 DEF InOrder
<1>5. PICK l : InOrder(l, S, R)
  BY <1>2, ListExists
<1> HIDE DEF Fits, list
<1>6. l \in [1 .. n -> S] /\ Fits(l)
  BY <1>4, <1>5 DEF InOrder
<1>7. list \in [1 .. n -> S] /\ Fits(list)
  BY <1>3, <1>6
<1>8. InOrder(list, S, R)
  BY <1>4, <1>7
<1>9. ListOf(list, S)
  BY <1>2, <1>8, InOrderLists
<1> QED BY <1>7, <1>9 DEF ListOf, Fits, list

-----------------------------------------------------------------------------
(***************************************************************************)
(* Reports: the tables and the alerts.                                     *)
(***************************************************************************)
Delivery == [to : Int, type : {"warning", "critical"}, status : {"sent", "failed", "pending"},
             response : Int]

\* Places of deliveries.
LEMMA Places ==
  ASSUME NEW deliveries \in Seq(Delivery)
  PROVE  /\ Len(deliveries) \in Nat /\ DOMAIN deliveries = 1 .. Len(deliveries)
         /\ IsFiniteSet(DOMAIN deliveries) /\ DOMAIN deliveries \subseteq Int
         /\ \A i \in DOMAIN deliveries : deliveries[i] \in Delivery
         /\ \A r : To(deliveries, r) \subseteq DOMAIN deliveries
         /\ \A rows, ty : OfType(deliveries, rows, ty) \subseteq rows
         /\ \A rows, st : OfStatus(deliveries, rows, st) \subseteq rows
         /\ \A rows : Acknowledged(deliveries, rows) \subseteq rows
<1>1. Len(deliveries) \in Nat /\ DOMAIN deliveries = 1 .. Len(deliveries)
  BY LenProperties
<1>2. IsFiniteSet(1 .. Len(deliveries)) /\ 1 .. Len(deliveries) \subseteq Int
  BY <1>1, FS_Interval
<1>3. \A i \in 1 .. Len(deliveries) : deliveries[i] \in Delivery
  BY ElementOfSeq
<1> QED BY <1>1, <1>2, <1>3 DEF To, OfType, OfStatus, Acknowledged

\* Rows of deliveries are listed by their place.
LEMMA RowsAreListed ==
  ASSUME NEW deliveries \in Seq(Delivery), NEW rows \in SUBSET DOMAIN deliveries
  PROVE  ListOf(NewestFirst(rows), rows) /\ IsFiniteSet(rows) /\ rows \in SUBSET Int
<1>1. rows \in SUBSET Int /\ IsFiniteSet(rows)
  BY Places, FS_Subset
<1> QED BY <1>1, NewestAreListed

\* The log has a row of each responder.
LEMMA RespondersAreListed ==
  ASSUME NEW deliveries \in Seq(Delivery), NEW responders \in SUBSET Int, IsFiniteSet(responders)
  PROVE  LET all == RespondersInOrder(deliveries, responders) IN
           /\ \E S : all \in Seq(S)
           /\ {all[k].responder : k \in DOMAIN all} = responders
<1> DEFINE row == [r \in responders |-> SummaryOf(deliveries, r)]
           S == {SummaryOf(deliveries, r) : r \in responders}
           n == Cardinality(S)
           Before(a, b) == \/ a.last_notified_at > b.last_notified_at
                           \/ /\ a.last_notified_at = b.last_notified_at
                              /\ a.responder < b.responder
           R == {p \in S \X S : Before(p[1], p[2])}
           all == RespondersInOrder(deliveries, responders)
<1>1. IsFiniteSet(S)
  <2>1. DOMAIN row = responders /\ S = {row[r] : r \in responders}
    OBVIOUS
  <2> HIDE DEF row, S
  <2> QED BY <2>1, ImageFinite
<1>2. ASSUME NEW a \in S
      PROVE  a.responder \in responders /\ a.last_notified_at \in Int
             /\ a = SummaryOf(deliveries, a.responder)
  <2>1. PICK r \in responders : a = SummaryOf(deliveries, r)
    OBVIOUS
  <2>2. a.responder = r /\ a.last_notified_at = Max({0} \cup To(deliveries, r))
    BY <2>1 DEF SummaryOf
  <2>3. /\ {0} \cup To(deliveries, r) \in SUBSET Int /\ {0} \cup To(deliveries, r) # {}
        /\ IsFiniteSet({0} \cup To(deliveries, r))
    <3>1. IsFiniteSet(To(deliveries, r)) /\ To(deliveries, r) \subseteq Int
      BY Places, FS_Subset
    <3>2. IsFiniteSet({0})
      BY FS_Singleton
    <3> DEFINE mine == To(deliveries, r)  zero == {0}
    <3> HIDE DEF mine, zero
    <3>3. IsFiniteSet(zero \cup mine)
      BY <3>1, <3>2, FS_Union DEF mine, zero
    <3>4. zero \cup mine \in SUBSET Int /\ zero \cup mine # {}
      BY <3>1 DEF mine, zero
    <3> QED BY <3>3, <3>4 DEF mine, zero
  <2>4. a.last_notified_at \in Int
    BY <2>2, <2>3, MaxIs
  <2> QED BY <2>1, <2>2, <2>4
<1>3. \A r \in responders : SummaryOf(deliveries, r) \in S
                              /\ SummaryOf(deliveries, r).responder = r
  BY DEF SummaryOf
<1>4. \A a, b \in S : <<a, b>> \in R <=> Before(a, b)
  OBVIOUS
<1>5. all = CHOOSE l \in [1 .. n -> S] : \A i, j \in 1 .. n : i < j => Before(l[i], l[j])
  BY DEF RespondersInOrder, Sorted
<1> HIDE DEF R, S, n, all
<1>6. Orders(R, S)
  <2>1. \A a, b \in S : a = b \/ Before(a, b) \/ Before(b, a)
    <3> SUFFICES ASSUME NEW a \in S, NEW b \in S, a # b PROVE Before(a, b) \/ Before(b, a)
      OBVIOUS
    <3>1. a.responder # b.responder
      BY <1>2
    <3>2. a.responder \in Int /\ b.responder \in Int
          /\ a.last_notified_at \in Int /\ b.last_notified_at \in Int
      BY <1>2
    <3> QED BY <3>1, <3>2
  <2>2. \A a, b, c \in S : Before(a, b) /\ Before(b, c) => Before(a, c)
    <3> SUFFICES ASSUME NEW a \in S, NEW b \in S, NEW c \in S, Before(a, b), Before(b, c)
                 PROVE  Before(a, c)
      OBVIOUS
    <3>1. a.responder \in Int /\ b.responder \in Int /\ c.responder \in Int
          /\ a.last_notified_at \in Int /\ b.last_notified_at \in Int /\ c.last_notified_at \in Int
      BY <1>2
    <3> QED BY <3>1
  <2>3. \A a \in S : ~Before(a, a)
    <3> SUFFICES ASSUME NEW a \in S PROVE ~Before(a, a)
      OBVIOUS
    <3>1. a.responder \in Int /\ a.last_notified_at \in Int
      BY <1>2
    <3> QED BY <3>1
  <2> HIDE DEF Before
  <2> QED BY <1>4, <2>1, <2>2, <2>3 DEF Orders
<1> HIDE DEF Before
<1>7. \A l \in [1 .. n -> S] :
         (\A i, j \in 1 .. n : i < j => Before(l[i], l[j])) <=> InOrder(l, S, R)
  BY <1>4 DEF InOrder, n
<1>8. PICK l : InOrder(l, S, R)
  BY <1>1, <1>6, ListExists
<1> DEFINE Fits(q) == \A i, j \in 1 .. n : i < j => Before(q[i], q[j])
<1>9. l \in [1 .. n -> S] /\ Fits(l)
  BY <1>7, <1>8 DEF InOrder, n
<1>10. all = CHOOSE q \in [1 .. n -> S] : Fits(q)
  BY <1>5
<1> HIDE DEF Fits
<1>11. all \in [1 .. n -> S] /\ Fits(all)
  BY <1>9, <1>10
<1>12. InOrder(all, S, R)
  BY <1>7, <1>11 DEF Fits
<1>13. ListOf(all, S)
  BY <1>1, <1>6, <1>12, InOrderLists
<1>14. all \in Seq(S) /\ DOMAIN all = 1 .. Len(all) /\ \A k \in 1 .. Len(all) : all[k] \in S
  BY <1>13, LenProperties, ElementOfSeq DEF ListOf
<1>15. {all[k].responder : k \in DOMAIN all} = responders
  <2>1. \A k \in DOMAIN all : all[k].responder \in responders
    BY <1>2, <1>14
  <2>2. ASSUME NEW r \in responders PROVE \E k \in DOMAIN all : all[k].responder = r
    <3>1. PICK k \in 1 .. Len(all) : all[k] = SummaryOf(deliveries, r)
      BY <1>3, <1>13 DEF ListOf
    <3> QED BY <1>3, <1>14, <3>1
  <2> QED BY <2>1, <2>2
<1> QED BY <1>14, <1>15 DEF all

\* The log of a responder, paged, of any type.
LEMMA ResponderTable ==
  ASSUME NEW deliveries \in Seq(Delivery), NEW responders \in SUBSET Int, IsFiniteSet(responders),
         NEW size \in Nat \ {0}
  PROVE  LET all == RespondersInOrder(deliveries, responders) IN
           PagesShow(all, [p \in 1 .. LastPage(all, size) |->
                             RespondersPage(deliveries, responders, p, size)])
<1> DEFINE all == RespondersInOrder(deliveries, responders)
<1>1. PICK S : all \in Seq(S)
  BY RespondersAreListed
<1>2. \A p : RespondersPage(deliveries, responders, p, size) = Counted(all, p, size)
  BY DEF RespondersPage
<1> HIDE DEF all
<1>3. PagesShow(all, [p \in 1 .. LastPage(all, size) |-> Counted(all, p, size)])
  BY <1>1, CountedShow
<1> QED BY <1>2, <1>3, Zenon DEF all

LEMMA DeliveryTable ==
  ASSUME NEW deliveries \in Seq(Delivery), NEW r, NEW ty, NEW size \in Nat \ {0}
  PROVE  LET all == NewestFirst(OfType(deliveries, To(deliveries, r), ty)) IN
           PagesShow(all, [p \in 1 .. LastPage(all, size) |->
                             DeliveriesPage(deliveries, r, ty, p, size)])
<1> DEFINE rows == OfType(deliveries, To(deliveries, r), ty)  all == NewestFirst(rows)
<1>1. rows \in SUBSET DOMAIN deliveries
  BY Places
<1>2. all \in Seq(rows)
  <2> HIDE DEF rows
  <2> QED BY <1>1, RowsAreListed DEF ListOf
<1>3. \A p : DeliveriesPage(deliveries, r, ty, p, size) = Peeked(all, p, size)
  BY DEF DeliveriesPage
<1> HIDE DEF rows, all
<1>4. PagesShow(all, [p \in 1 .. LastPage(all, size) |-> Peeked(all, p, size)])
  BY <1>2, PeekedShow
<1> QED BY <1>3, <1>4, Zenon DEF all, rows

Sensor == [time : Int, pct : Nat]
Row == [time : Int, level : Int, change : Int]

LEMMA LaggedAre ==
  ASSUME NEW readings \in Seq(Sensor)
  PROVE  /\ Lagged(readings) \in Seq(Row) /\ Len(Lagged(readings)) = Len(readings)
         /\ Len(readings) \in Nat
         /\ \A i \in 1 .. Len(readings) :
              Lagged(readings)[i] =
                [time |-> readings[i].time, level |-> readings[i].pct,
                 change |-> IF i = 1 THEN 0 ELSE readings[i].pct - readings[i - 1].pct]
<1> DEFINE n == Len(readings)  rows == Lagged(readings)
           RowOf(i) == [time |-> readings[i].time, level |-> readings[i].pct,
                        change |-> IF i = 1 THEN 0 ELSE readings[i].pct - readings[i - 1].pct]
<1>1. n \in Nat /\ DOMAIN readings = 1 .. n /\ \A i \in 1 .. n : readings[i] \in Sensor
  BY LenProperties, ElementOfSeq
<1>2. rows = [i \in 1 .. n |-> RowOf(i)]
  BY <1>1 DEF Lagged
<1>3. ASSUME NEW i \in 1 .. n PROVE RowOf(i) \in Row
  <2>1. readings[i].time \in Int /\ readings[i].pct \in Int
    BY <1>1 DEF Sensor
  <2>2. i = 1 \/ i - 1 \in 1 .. n
    BY <1>1
  <2>3. i # 1 => readings[i - 1].pct \in Int
    BY <1>1, <2>2 DEF Sensor
  <2>4. (IF i = 1 THEN 0 ELSE readings[i].pct - readings[i - 1].pct) \in Int
    BY <2>1, <2>3
  <2> QED BY <2>1, <2>4 DEF Row
<1>4. \A i \in 1 .. n : rows[i] = RowOf(i)
  BY <1>2
<1> HIDE DEF n, RowOf
<1>5. rows \in Seq(Row) /\ Len(rows) = n
  BY <1>1, <1>2, <1>3
<1> QED BY <1>1, <1>4, <1>5 DEF n, RowOf

LEMMA ReadingTable ==
  ASSUME NEW readings \in Seq(Sensor), NEW size \in Nat \ {0}
  PROVE  LET all == Reverse(Lagged(readings)) IN
           PagesShow(all, [p \in 1 .. LastPage(all, size) |-> ReadingsPage(readings, p, size)])
<1> DEFINE all == Reverse(Lagged(readings))
<1>1. all \in Seq(Row)
  BY LaggedAre, ReverseIs
<1>2. \A p : ReadingsPage(readings, p, size) = Peeked(all, p, size)
  BY DEF ReadingsPage
<1> HIDE DEF all
<1>3. PagesShow(all, [p \in 1 .. LastPage(all, size) |-> Peeked(all, p, size)])
  BY <1>1, PeekedShow
<1> QED BY <1>2, <1>3, Zenon DEF all

\* What lies between two times has no gaps, so that the change of an exported
\* row is that of the table, but for the first reading.
LEMMA ExportedRows ==
  ASSUME NEW readings \in Seq(Sensor), Timed(readings), NEW from \in Int, NEW to \in Int
  PROVE  LET rows == ReadingsExport(readings, from, to)
         IN \A k \in 1 .. Len(rows) - 1 : \E i \in DOMAIN readings : rows[k] = Lagged(readings)[i]
<1> DEFINE n == Len(readings)
           S == {i \in DOMAIN readings : from <= readings[i].time /\ readings[i].time <= to}
           within == OldestFirst(S)
           cut == [k \in DOMAIN within |-> readings[within[k]]]
           rows == ReadingsExport(readings, from, to)
           m == Len(within)
<1>1. /\ n \in Nat /\ DOMAIN readings = 1 .. n
      /\ \A i \in 1 .. n : readings[i] \in Sensor /\ readings[i].time \in Int
  <2>1. n \in Nat /\ DOMAIN readings = 1 .. n /\ \A i \in 1 .. n : readings[i] \in Sensor
    BY LenProperties, ElementOfSeq
  <2>2. \A r \in Sensor : r.time \in Int
    BY DEF Sensor
  <2> QED BY <2>1, <2>2
<1>2. rows = Reverse(Lagged(cut))
  BY DEF ReadingsExport
<1>3. \A i : i \in S <=> i \in 1 .. n /\ from <= readings[i].time /\ readings[i].time <= to
  BY <1>1
<1> HIDE DEF rows, S
<1>4. IsFiniteSet(S) /\ S \in SUBSET Int
  <2> DEFINE P == 1 .. n
  <2>1. IsFiniteSet(P) /\ S \in SUBSET P /\ P \in SUBSET Int
    BY <1>1, <1>3, FS_Interval
  <2> HIDE DEF P
  <2> QED BY <2>1, FS_Subset
<1>5. ListOf(within, S) /\ \A i, j \in 1 .. m : i < j => within[i] < within[j]
  BY <1>4, OldestAreListed
<1> HIDE DEF within
<1>6. /\ m \in Nat /\ DOMAIN within = 1 .. m /\ \A k \in 1 .. m : within[k] \in S
      /\ \A i \in S : \E k \in 1 .. m : within[k] = i
  BY <1>5, LenProperties, ElementOfSeq DEF ListOf
<1> HIDE DEF m, n
<1>7. cut \in Seq(Sensor) /\ Len(cut) = m /\ \A k \in 1 .. m : cut[k] = readings[within[k]]
  <2>1. \A k \in 1 .. m : readings[within[k]] \in Sensor
    BY <1>1, <1>3, <1>6
  <2> QED BY <1>6, <2>1
<1> HIDE DEF cut
<1>8. Len(rows) = m /\ \A k \in 1 .. m : rows[k] = Lagged(cut)[(m - k) + 1]
  <2> DEFINE lag == Lagged(cut)
  <2>1. lag \in Seq(Row) /\ Len(lag) = m
    BY <1>7, LaggedAre
  <2>2. rows = Reverse(lag)
    BY <1>2
  <2> HIDE DEF lag
  <2>3. Len(rows) = m /\ \A k \in 1 .. m : rows[k] = lag[(m - k) + 1]
    BY <2>1, <2>2, ReverseIs
  <2> QED BY <2>3 DEF lag
<1>9. ASSUME NEW k \in 1 .. m - 1 PROVE \E i \in DOMAIN readings : rows[k] = Lagged(readings)[i]
  <2> DEFINE j == (m - k) + 1  i == within[j]  h == within[j - 1]
  <2>1. j \in 2 .. m /\ j \in 1 .. m /\ j - 1 \in 1 .. m /\ j - 1 < j /\ j # 1 /\ k \in 1 .. m
    BY <1>6
  <2>2. rows[k] = Lagged(cut)[j]
    BY <1>8, <2>1
  <2> HIDE DEF j
  <2>3. i \in S /\ h \in S /\ h < i
    BY <1>5, <1>6, <2>1
  <2>4. i \in 1 .. n /\ h \in 1 .. n
    BY <1>3, <2>3
  <2>5. cut[j] = readings[i] /\ cut[j - 1] = readings[h]
    BY <1>7, <2>1
  <2>6. ASSUME h # i - 1 PROVE FALSE
    <3>1. i - 1 \in 1 .. n /\ h < i - 1 /\ i - 1 < i
      BY <1>1, <2>3, <2>4, <2>6
    <3>2. readings[h].time <= readings[i - 1].time /\ readings[i - 1].time <= readings[i].time
      BY <2>4, <3>1 DEF Timed, n
    <3>3. from <= readings[i - 1].time /\ readings[i - 1].time <= to
      <4>1. from <= readings[h].time /\ readings[i].time <= to
        BY <1>3, <2>3
      <4>2. /\ readings[h].time \in Int /\ readings[i].time \in Int
            /\ readings[i - 1].time \in Int
        BY <1>1, <2>4, <3>1
      <4> QED BY <3>2, <4>1, <4>2
    <3>4. PICK q \in 1 .. m : within[q] = i - 1
      BY <1>3, <1>6, <3>1, <3>3
    <3>5. q < j \/ q = j \/ j < q
      BY <1>6, <2>1
    <3>6. q < j - 1 \/ q = j - 1 \/ j - 1 < q
      BY <1>6, <2>1
    <3>7. q < j
      <4>1. q = j => FALSE
        BY <2>4, <3>1, <3>4
      <4>2. j < q => i < i - 1
        BY <1>5, <2>1, <3>4
      <4> QED BY <2>4, <3>1, <3>5, <4>1, <4>2
    <3>8. j - 1 < q
      <4>1. q = j - 1 => FALSE
        BY <2>4, <3>1, <3>4
      <4>2. q < j - 1 => i - 1 < h
        BY <1>5, <2>1, <3>4
      <4> QED BY <2>4, <3>1, <3>6, <4>1, <4>2
    <3> QED BY <2>1, <3>7, <3>8
  <2>7. i # 1
    BY <2>3, <2>4
  <2> HIDE DEF i, h
  <2>8. Lagged(cut)[j] = [time |-> readings[i].time, level |-> readings[i].pct,
                          change |-> readings[i].pct - readings[i - 1].pct]
    <3>1. Lagged(cut)[j] = [time |-> cut[j].time, level |-> cut[j].pct,
                            change |-> cut[j].pct - cut[j - 1].pct]
      BY <1>7, <2>1, LaggedAre
    <3> QED BY <2>5, <2>6, <3>1
  <2>9. Lagged(readings)[i] = [time |-> readings[i].time, level |-> readings[i].pct,
                               change |-> readings[i].pct - readings[i - 1].pct]
    BY <2>4, <2>7, LaggedAre DEF n
  <2> QED BY <1>1, <2>2, <2>4, <2>8, <2>9
<1> QED BY <1>8, <1>9 DEF rows

\* Each table.
LEMMA TablesComplete ==
  ASSUME NEW deliveries \in Seq(Delivery), NEW responders \in SUBSET Int, IsFiniteSet(responders),
         NEW readings \in Seq(Sensor), Timed(readings), NEW size \in Nat \ {0}
  PROVE  TablesAreComplete(deliveries, responders, readings, size)
<1>1. LET all == RespondersInOrder(deliveries, responders) IN
        /\ {all[k].responder : k \in DOMAIN all} = responders
        /\ PagesShow(all, [p \in 1 .. LastPage(all, size) |->
                             RespondersPage(deliveries, responders, p, size)])
  BY RespondersAreListed, ResponderTable
<1>2. \A r \in responders, ty \in {"any", "warning", "critical"} :
        LET all == NewestFirst(OfType(deliveries, To(deliveries, r), ty))
        IN PagesShow(all, [p \in 1 .. LastPage(all, size) |->
                             DeliveriesPage(deliveries, r, ty, p, size)])
  BY DeliveryTable, Zenon
<1>3. LET all == Reverse(Lagged(readings))
      IN PagesShow(all, [p \in 1 .. LastPage(all, size) |-> ReadingsPage(readings, p, size)])
  BY ReadingTable, Zenon
<1>4. \A from \in {readings[i].time : i \in DOMAIN readings} :
        LET rows == ReadingsExport(readings, from, from + 20)
        IN \A k \in 1 .. Len(rows) - 1 : \E i \in DOMAIN readings : rows[k] = Lagged(readings)[i]
  <2> SUFFICES ASSUME NEW from \in {readings[i].time : i \in DOMAIN readings}
               PROVE  LET rows == ReadingsExport(readings, from, from + 20)
                      IN \A k \in 1 .. Len(rows) - 1 :
                           \E i \in DOMAIN readings : rows[k] = Lagged(readings)[i]
    OBVIOUS
  <2>1. from \in Int /\ from + 20 \in Int
    <3>1. /\ DOMAIN readings = 1 .. Len(readings)
          /\ \A i \in 1 .. Len(readings) : readings[i] \in Sensor
      BY LenProperties, ElementOfSeq
    <3> QED BY <3>1 DEF Sensor
  <2> DEFINE to == from + 20
  <2>2. to \in Int
    BY <2>1
  <2> HIDE DEF to
  <2>3. LET rows == ReadingsExport(readings, from, to)
        IN \A k \in 1 .. Len(rows) - 1 : \E i \in DOMAIN readings : rows[k] = Lagged(readings)[i]
    BY <2>1, <2>2, ExportedRows, Zenon
  <2> QED BY <2>3 DEF to
<1> QED BY <1>1, <1>2, <1>3, <1>4, Zenon DEF TablesAreComplete

\* An order of the alerts has what was not sent before what was.
LEMMA AlertsOrdered ==
  ASSUME NEW deliveries \in Seq(Delivery), NEW r, NEW order \in AlertOrders(deliveries, r)
  PROVE  /\ ListOf(order, To(deliveries, r))
         /\ \A i, j \in 1 .. Len(order) :
              i < j /\ deliveries[order[i]].status = "sent" => deliveries[order[j]].status = "sent"
<1> DEFINE T == To(deliveries, r)  n == Cardinality(T)
           After(i, j) == /\ deliveries[i].status = "sent"
                          /\ ~(deliveries[j].status = "sent") \/ i < j
<1>1. IsFiniteSet(T) /\ n \in Nat
  BY Places, RowsAreListed, FS_CardinalityType
<1>2. order \in [1 .. n -> T] /\ \A i, j \in 1 .. n :
                                   i < j => order[i] # order[j] /\ ~After(order[i], order[j])
  BY DEF AlertOrders, Orderings
<1>3. \A i, j \in 1 .. n : i # j => order[i] # order[j]
  <2> SUFFICES ASSUME NEW i \in 1 .. n, NEW j \in 1 .. n, i # j PROVE order[i] # order[j]
    OBVIOUS
  <2>1. i < j \/ j < i
    BY <1>1
  <2> QED BY <1>2, <2>1
<1> HIDE DEF T
<1>4. ListOf(order, T)
  BY <1>1, <1>2, <1>3, DifferentAll
<1> QED BY <1>2, <1>4 DEF ListOf, T

LEMMA AlertsComplete ==
  ASSUME NEW deliveries \in Seq(Delivery), NEW r, NEW size \in Nat \ {0}
  PROVE  AlertsAreComplete(deliveries, r, size)
<1> DEFINE T == To(deliveries, r)
           Right(order) == IF OfStatus(deliveries, T, "sent") = T
                             THEN PagesShow(order, [p \in 1 .. LastPage(order, size) |->
                                                      AlertsPage(deliveries, order, p, size)])
                             ELSE AlertsPage(deliveries, order, 1, size) = PageError
<1> SUFFICES ASSUME NEW order \in AlertOrders(deliveries, r) PROVE Right(order)
  BY DEF AlertsAreComplete
<1>1. ListOf(order, T)
  BY AlertsOrdered
<1>2. order \in Seq(T)
  BY <1>1 DEF ListOf
<1>3. \A i, j \in 1 .. Len(order) :
        i < j /\ deliveries[order[i]].status = "sent" => deliveries[order[j]].status = "sent"
  BY AlertsOrdered
<1> DEFINE N == LastPage(order, size)
<1>4. Len(order) \in Nat /\ (order = <<>> <=> Len(order) = 0)
  BY <1>2, LenProperties, EmptySeq
<1> HIDE DEF T
<1>5. ASSUME NEW p \in 1 .. N
      PROVE  (p - 1) * size \in 0 .. Len(order) /\ Peeked(order, p, size).items \in Seq(T)
  <2> DEFINE from == (p - 1) * size
  <2>1. from \in 0 .. Len(order)
    BY <1>4, PagesHold
  <2>2. Peeked(order, p, size).items = Rows(order, from, size)
    BY <1>2, PeekedOnce
  <2> HIDE DEF from
  <2>3. Rows(order, from, size) \in Seq(T)
    BY <1>2, <2>1, RowsCut
  <2> QED BY <2>1, <2>2, <2>3 DEF from
<1>6. CASE OfStatus(deliveries, T, "sent") = T
  <2>1. \A i \in T : deliveries[i].status = "sent"
    BY <1>6 DEF OfStatus
  <2>2. \A p \in 1 .. N : AlertsPage(deliveries, order, p, size) = Peeked(order, p, size)
    <3> SUFFICES ASSUME NEW p \in 1 .. N
                 PROVE  AlertsPage(deliveries, order, p, size) = Peeked(order, p, size)
      OBVIOUS
    <3> DEFINE items == Peeked(order, p, size).items
    <3>1. items \in Seq(T)
      BY <1>5
    <3> HIDE DEF items
    <3>2. \A k \in DOMAIN items : items[k] \in T
      BY <3>1
    <3>3. ~\E k \in DOMAIN items : deliveries[items[k]].status # "sent"
      BY <2>1, <3>2
    <3> QED BY <3>3 DEF AlertsPage, items
  <2>3. PagesShow(order, [p \in 1 .. N |-> Peeked(order, p, size)])
    BY <1>2, PeekedShow
  <2> HIDE DEF N
  <2>4. [p \in 1 .. N |-> Peeked(order, p, size)]
          = [p \in 1 .. N |-> AlertsPage(deliveries, order, p, size)]
    BY <2>2
  <2> QED BY <1>6, <2>3, <2>4 DEF N
<1>7. CASE OfStatus(deliveries, T, "sent") # T
  <2>1. PICK x \in T : deliveries[x].status # "sent"
    BY <1>7 DEF OfStatus
  <2>2. PICK q \in 1 .. Len(order) : order[q] = x
    BY <1>1 DEF ListOf
  <2>3. deliveries[order[1]].status # "sent"
    <3>1. q = 1 \/ 1 < q
      BY <1>4
    <3>2. 1 \in 1 .. Len(order)
      BY <1>4
    <3> QED BY <1>3, <2>1, <2>2, <3>1, <3>2
  <2>4. 1 \in 1 .. N
    BY <1>4, PagesHold
  <2> DEFINE items == Peeked(order, 1, size).items
  <2>5. items = Rows(order, 0, size)
    <3>1. (1 - 1) * size = 0
      OBVIOUS
    <3>2. items = Rows(order, (1 - 1) * size, size)
      BY <1>2, <2>4, PeekedOnce
    <3> QED BY <3>1, <3>2
  <2> HIDE DEF items
  <2>6. 1 \in DOMAIN items /\ items[1] = order[1]
    <3> DEFINE last == IF 0 + size < Len(order) THEN 0 + size ELSE Len(order)
    <3>1. /\ items \in Seq(T) /\ Len(items) = last - 0
          /\ \A k \in 1 .. last - 0 : items[k] = order[0 + k]
      <4>1. 0 \in 0 .. Len(order) /\ size \in Nat
        BY <1>4
      <4> QED BY <1>2, <2>5, <4>1, RowsCut
    <3>2. last - 0 >= 1 /\ last - 0 \in Nat
      BY <1>4, <2>2
    <3> HIDE DEF last
    <3>3. 1 \in 1 .. last - 0 /\ 0 + 1 = 1
      BY <3>2
    <3>4. DOMAIN items = 1 .. Len(items)
      BY <3>1, LenProperties
    <3> QED BY <3>1, <3>3, <3>4
  <2>7. AlertsPage(deliveries, order, 1, size) = PageError
    BY <2>3, <2>6 DEF AlertsPage, items
  <2> QED BY <1>7, <2>7
<1> QED BY <1>6, <1>7

-----------------------------------------------------------------------------
(***************************************************************************)
(* Reports: the counts.                                                    *)
(***************************************************************************)
\* The types in a breakdown.
Types(deliveries, rows) == {deliveries[i].type : i \in rows}

\* Rows are counted by their types, and by their responders.
LEMMA CountedByType ==
  ASSUME NEW deliveries \in Seq(Delivery), NEW rows \in SUBSET DOMAIN deliveries,
         NEW some \in SUBSET rows
  PROVE  SumOf([ty \in Types(deliveries, rows) |-> Cardinality(OfType(deliveries, some, ty))])
           = Cardinality(some)
<1> DEFINE K == Types(deliveries, rows)
           part == [ty \in K |-> OfType(deliveries, some, ty)]
<1>1. \A i \in DOMAIN deliveries : deliveries[i].type \in {"warning", "critical"}
  <2>1. \A i \in DOMAIN deliveries : deliveries[i] \in Delivery
    BY Places
  <2> QED BY <2>1 DEF Delivery
<1>2. \A ty \in K : part[ty] = {i \in some : deliveries[i].type = ty}
  BY <1>1 DEF OfType, Types
<1>3. \A i \in some : deliveries[i].type \in K
  BY DEF Types
<1>4. IsFiniteSet(some) /\ IsFiniteSet(K)
  <2>1. IsFiniteSet({"warning", "critical"})
    <3> DEFINE one == {"warning"}
    <3>1. IsFiniteSet(one) /\ {"warning", "critical"} = one \cup {"critical"}
      BY FS_Singleton
    <3> HIDE DEF one
    <3>2. IsFiniteSet(one \cup {"critical"})
      BY <3>1, FS_AddElement
    <3> QED BY <3>1, <3>2, Zenon
  <2>2. K \in SUBSET {"warning", "critical"}
    BY <1>1 DEF Types
  <2>3. IsFiniteSet(rows)
    BY RowsAreListed
  <2> HIDE DEF K
  <2> QED BY <2>1, <2>2, <2>3, FS_Subset
<1>5. [ty \in K |-> Cardinality(part[ty])]
        = [ty \in K |-> Cardinality(OfType(deliveries, some, ty))]
  OBVIOUS
<1> HIDE DEF K, part
<1>6. SumOf([ty \in K |-> Cardinality(part[ty])]) = Cardinality(some)
  <2>1. \A k \in K : part[k] \subseteq some
    BY <1>2
  <2>2. \A i \in some : \E k \in K : i \in part[k]
    BY <1>2, <1>3
  <2>3. \A k, m \in K : k # m => part[k] \cap part[m] = {}
    BY <1>2
  <2> QED BY <1>4, <2>1, <2>2, <2>3, PartsCount
<1> QED BY <1>5, <1>6 DEF K

LEMMA CountedByResponder ==
  ASSUME NEW deliveries \in Seq(Delivery), NEW responders, IsFiniteSet(responders),
         \A i \in DOMAIN deliveries : deliveries[i].to \in responders,
         NEW rows \in SUBSET DOMAIN deliveries
  PROVE  SumOf([r \in responders |-> Cardinality(rows \cap To(deliveries, r))])
           = Cardinality(rows)
<1> DEFINE part == [r \in responders |-> rows \cap To(deliveries, r)]
<1>1. \A r \in responders : part[r] = {i \in rows : deliveries[i].to = r}
  BY DEF To
<1>2. [r \in responders |-> Cardinality(part[r])]
        = [r \in responders |-> Cardinality(rows \cap To(deliveries, r))]
  OBVIOUS
<1> HIDE DEF part
<1>3. IsFiniteSet(rows)
  BY RowsAreListed
<1>4. SumOf([r \in responders |-> Cardinality(part[r])]) = Cardinality(rows)
  <2>1. \A r \in responders : part[r] \subseteq rows
    BY <1>1
  <2>2. \A i \in rows : \E r \in responders : i \in part[r]
    BY <1>1
  <2>3. \A r, q \in responders : r # q => part[r] \cap part[q] = {}
    BY <1>1
  <2> QED BY <1>3, <2>1, <2>2, <2>3, PartsCount
<1> QED BY <1>2, <1>4

LEMMA TakenIs ==
  ASSUME NEW deliveries \in Seq(Delivery), NEW rows \in SUBSET DOMAIN deliveries
  PROVE  Taken(deliveries, rows) \in Int
<1> DEFINE order == NewestFirst(rows)
           numbers == [k \in DOMAIN order |-> deliveries[order[k]].response]
<1>1. order \in Seq(rows) /\ DOMAIN order = 1 .. Len(order) /\ Len(order) \in Nat
  BY RowsAreListed, LenProperties DEF ListOf
<1>2. Taken(deliveries, rows) = Total(numbers)
  BY DEF Taken
<1> HIDE DEF order
<1>3. \A k \in 1 .. Len(order) : deliveries[order[k]].response \in Int
  <2>1. \A i \in rows : deliveries[i].response \in Int
    BY Places DEF Delivery
  <2> QED BY <1>1, <2>1, ElementOfSeq
<1>4. numbers \in Seq(Int)
  BY <1>1, <1>3
<1> HIDE DEF numbers
<1> QED BY <1>2, <1>4, 0 \in Int, TotalAppend

\* The ranking has every responder who answered, while ten are enough for them.
LEMMA TopHasAll ==
  ASSUME NEW deliveries \in Seq(Delivery), NEW responders \in SUBSET Int, IsFiniteSet(responders),
         Cardinality(responders) <= MaxTop,
         \A i \in DOMAIN deliveries : deliveries[i].to \in responders,
         NEW from \in Int, NEW to \in Int
  PROVE  LET top == TopResponders(deliveries, from, to)
             answered == Acknowledged(deliveries, SentWithin(deliveries, from, to))
         IN {top[k] : k \in DOMAIN top} = {deliveries[i].to : i \in answered}
<1> DEFINE answered == Acknowledged(deliveries, SentWithin(deliveries, from, to))
           Of(r) == answered \cap To(deliveries, r)
           S == {deliveries[i].to : i \in answered}
           n == Cardinality(S)
           T(r) == Taken(deliveries, Of(r))
           C(r) == Cardinality(Of(r))
           Le(a, b) == T(a) * C(b) <= T(b) * C(a)
           Before(a, b) == \/ T(b) * C(a) > T(a) * C(b)
                           \/ ~(T(a) * C(b) > T(b) * C(a)) /\ a < b
           R == {p \in S \X S : Before(p[1], p[2])}
           Fits(l) == \A i, j \in 1 .. n : i < j => Before(l[i], l[j])
           ranked == CHOOSE l \in [1 .. n -> S] : Fits(l)
           top == TopResponders(deliveries, from, to)
<1>1. top = Rows(ranked, 0, MaxTop)
  BY DEF TopResponders, Sorted
<1> HIDE DEF top
<1>2. answered \in SUBSET DOMAIN deliveries
  BY Places DEF SentWithin
<1> HIDE DEF answered
<1>3. S \in SUBSET responders /\ S \in SUBSET Int
  BY <1>2
<1>4. ASSUME NEW r \in S PROVE T(r) \in Int /\ C(r) \in Nat \ {0}
  <2>1. Of(r) \in SUBSET DOMAIN deliveries
    BY <1>2
  <2>2. Of(r) # {}
    BY <1>2 DEF To
  <2> HIDE DEF Of
  <2>3. IsFiniteSet(Of(r)) /\ T(r) \in Int
    BY <2>1, RowsAreListed, TakenIs
  <2> QED BY <2>2, <2>3, FS_CardinalityType, FS_EmptySet
<1>5. IsFiniteSet(S) /\ n <= MaxTop /\ n \in Nat
  <2>1. IsFiniteSet(S) /\ n <= Cardinality(responders)
    <3> HIDE DEF S
    <3> QED BY <1>3, FS_Subset
  <2>2. n \in Nat /\ Cardinality(responders) \in Nat
    BY <2>1, FS_CardinalityType
  <2> QED BY <2>1, <2>2 DEF MaxTop
<1>6. \A a, b \in S : <<a, b>> \in R <=> Before(a, b)
  OBVIOUS
<1> HIDE DEF S, R, n, T, C
<1>7. \A a, b \in S : Le(a, b) \/ Le(b, a)
  <2> SUFFICES ASSUME NEW a \in S, NEW b \in S PROVE Le(a, b) \/ Le(b, a)
    OBVIOUS
  <2>1. T(a) \in Int /\ T(b) \in Int /\ C(a) \in Int /\ C(b) \in Int
    BY <1>4
  <2>2. T(a) * C(b) \in Int /\ T(b) * C(a) \in Int
    BY <2>1
  <2> QED BY <2>2
<1>8. \A a, b, c \in S : Le(a, b) /\ Le(b, c) => Le(a, c)
  <2> SUFFICES ASSUME NEW a \in S, NEW b \in S, NEW c \in S, Le(a, b), Le(b, c) PROVE Le(a, c)
    OBVIOUS
  <2>1. /\ T(a) \in Int /\ T(b) \in Int /\ T(c) \in Int
        /\ C(a) \in Nat \ {0} /\ C(b) \in Nat \ {0} /\ C(c) \in Nat \ {0}
    BY <1>4
  <2> QED BY <2>1, Across
<1>9. \A a, b \in S : Before(a, b) <=> ~Le(b, a) \/ (Le(a, b) /\ a < b)
  <2> SUFFICES ASSUME NEW a \in S, NEW b \in S
               PROVE  Before(a, b) <=> ~Le(b, a) \/ (Le(a, b) /\ a < b)
    OBVIOUS
  <2>1. T(a) \in Int /\ T(b) \in Int /\ C(a) \in Int /\ C(b) \in Int
    BY <1>4
  <2>2. T(a) * C(b) \in Int /\ T(b) * C(a) \in Int
    BY <2>1
  <2> QED BY <2>2
<1> HIDE DEF Le, Before
<1>10. Orders(R, S)
  <2>1. \A a, b \in S : a = b \/ Before(a, b) \/ Before(b, a)
    <3> SUFFICES ASSUME NEW a \in S, NEW b \in S, a # b PROVE Before(a, b) \/ Before(b, a)
      OBVIOUS
    <3>1. a < b \/ b < a
      BY <1>3
    <3> QED BY <1>7, <1>9, <3>1
  <2>2. \A a, b, c \in S : Before(a, b) /\ Before(b, c) => Before(a, c)
    <3> SUFFICES ASSUME NEW a \in S, NEW b \in S, NEW c \in S, Before(a, b), Before(b, c)
                 PROVE  Before(a, c)
      OBVIOUS
    <3>1. a < b /\ b < c => a < c
      BY <1>3
    <3>2. Le(a, b) /\ Le(b, c)
      BY <1>7, <1>9
    <3>3. Le(c, a) => Le(c, b) /\ Le(b, a)
      BY <1>8, <3>2
    <3> QED BY <1>8, <1>9, <3>1, <3>2, <3>3
  <2>3. \A a \in S : ~Before(a, a)
    <3> SUFFICES ASSUME NEW a \in S PROVE ~Before(a, a)
      OBVIOUS
    <3>1. ~(a < a)
      BY <1>3
    <3> QED BY <1>7, <1>9, <3>1
  <2> QED BY <1>6, <2>1, <2>2, <2>3 DEF Orders
<1>11. \A l \in [1 .. n -> S] : Fits(l) <=> InOrder(l, S, R)
  BY <1>6 DEF InOrder, n
<1>12. PICK l : InOrder(l, S, R)
  BY <1>5, <1>10, ListExists
<1> HIDE DEF Fits
<1>13. l \in [1 .. n -> S] /\ Fits(l)
  BY <1>11, <1>12 DEF InOrder, n
<1>14. ranked \in [1 .. n -> S] /\ Fits(ranked)
  BY <1>13
<1> HIDE DEF ranked
<1>15. InOrder(ranked, S, R)
  BY <1>11, <1>14
<1>16. ListOf(ranked, S)
  BY <1>5, <1>10, <1>15, InOrderLists
<1>17. top = ranked
  <2>1. ranked \in Seq(S) /\ Len(ranked) = n
    BY <1>16 DEF ListOf, n
  <2>2. top = SubSeq(ranked, 0 + 1, IF 0 + MaxTop < Len(ranked) THEN 0 + MaxTop ELSE Len(ranked))
    BY <1>1 DEF Rows
  <2>3. (IF 0 + MaxTop < Len(ranked) THEN 0 + MaxTop ELSE Len(ranked)) = Len(ranked) /\ 0 + 1 = 1
    BY <1>5, <2>1 DEF MaxTop
  <2> QED BY <2>1, <2>2, <2>3, SubSeqFull
<1>18. {top[k] : k \in DOMAIN top} = S
  <2>1. DOMAIN top = 1 .. Len(top) /\ \A k \in 1 .. Len(top) : top[k] \in S
    BY <1>16, <1>17, LenProperties, ElementOfSeq DEF ListOf
  <2>2. \A x \in S : \E k \in 1 .. Len(top) : top[k] = x
    BY <1>16, <1>17 DEF ListOf
  <2> QED BY <2>1, <2>2
<1> QED BY <1>18 DEF top, S, answered

LEMMA CountsAgreeing ==
  ASSUME NEW deliveries \in Seq(Delivery), NEW responders \in SUBSET Int, IsFiniteSet(responders),
         Cardinality(responders) <= MaxTop,
         \A i \in DOMAIN deliveries : deliveries[i].to \in responders
  PROVE  CountsAgree(deliveries, responders)
<1> DEFINE n == Len(deliveries)
           whole == Analytics(deliveries, 1, n)
           Summary(r) == SummaryOf(deliveries, r)
           sent == SentWithin(deliveries, 1, n)
           answered == Acknowledged(deliveries, sent)
           Sent(r) == OfStatus(deliveries, To(deliveries, r), "sent")
<1>1. n \in Nat /\ DOMAIN deliveries = 1 .. n /\ IsFiniteSet(DOMAIN deliveries)
  BY Places
<1>2. /\ sent = {i \in DOMAIN deliveries : deliveries[i].status = "sent"}
      /\ answered = {i \in sent : deliveries[i].response # NoResponse}
      /\ sent \in SUBSET DOMAIN deliveries /\ answered \in SUBSET sent
      /\ answered \in SUBSET DOMAIN deliveries
  BY <1>1 DEF SentWithin, OfStatus, Acknowledged
<1>3. IsFiniteSet(sent) /\ IsFiniteSet(answered)
  <2> HIDE DEF sent, answered
  <2> QED BY <1>1, <1>2, FS_Subset
<1>4. /\ whole.overall.sent = Cardinality(sent)
      /\ whole.overall.acknowledged = Cardinality(answered)
  BY DEF Analytics, Numbers
<1>5. /\ DOMAIN whole.per_type = Types(deliveries, sent)
      /\ \A ty \in Types(deliveries, sent) :
           /\ whole.per_type[ty].sent = Cardinality(OfType(deliveries, sent, ty))
           /\ whole.per_type[ty].acknowledged = Cardinality(OfType(deliveries, answered, ty))
  <2>1. \A ty : Acknowledged(deliveries, OfType(deliveries, sent, ty))
                  = OfType(deliveries, answered, ty)
    BY DEF Acknowledged, OfType
  <2>2. whole.per_type = [ty \in Types(deliveries, sent) |->
                            Numbers(deliveries, OfType(deliveries, sent, ty))]
    BY DEF Analytics, Types
  <2> HIDE DEF sent, answered, whole
  <2>3. \A rows : /\ Numbers(deliveries, rows).sent = Cardinality(rows)
                  /\ Numbers(deliveries, rows).acknowledged
                       = Cardinality(Acknowledged(deliveries, rows))
    BY DEF Numbers
  <2> QED BY <2>1, <2>2, <2>3
<1>6. \A r : /\ Sent(r) = sent \cap To(deliveries, r)
             /\ Acknowledged(deliveries, Sent(r)) = answered \cap To(deliveries, r)
             /\ Sent(r) \ Acknowledged(deliveries, Sent(r))
                  = (sent \ answered) \cap To(deliveries, r)
  BY <1>1, <1>2 DEF OfStatus, To, Acknowledged
<1>7. \A r : UnreadCount(deliveries, r) = Cardinality((sent \ answered) \cap To(deliveries, r))
  BY <1>6 DEF UnreadCount
<1>8. \A r : /\ Summary(r).sent = Cardinality(sent \cap To(deliveries, r))
             /\ Summary(r).acknowledged
                  = Cardinality(Acknowledged(deliveries, To(deliveries, r)))
             /\ Summary(r).total = Cardinality(To(deliveries, r))
             /\ Summary(r).failed = Cardinality(OfStatus(deliveries, To(deliveries, r), "failed"))
             /\ Summary(r).pending
                  = Cardinality(OfStatus(deliveries, To(deliveries, r), "pending"))
  <2>1. \A r : Summary(r).sent = Cardinality(Sent(r))
    BY DEF SummaryOf
  <2>2. \A r : Summary(r).sent = Cardinality(sent \cap To(deliveries, r))
    <3> HIDE DEF Summary, sent
    <3> QED BY <1>6, <2>1
  <2> QED BY <2>2 DEF SummaryOf
<1> HIDE DEF whole, Summary, sent, answered, n
<1>11. whole.overall.sent = SumOf([ty \in DOMAIN whole.per_type |-> whole.per_type[ty].sent])
  <2>1. [ty \in DOMAIN whole.per_type |-> whole.per_type[ty].sent]
          = [ty \in Types(deliveries, sent) |-> Cardinality(OfType(deliveries, sent, ty))]
    BY <1>5
  <2> QED BY <1>2, <1>4, <2>1, CountedByType
<1>12. whole.overall.acknowledged
         = SumOf([ty \in DOMAIN whole.per_type |-> whole.per_type[ty].acknowledged])
  <2>1. [ty \in DOMAIN whole.per_type |-> whole.per_type[ty].acknowledged]
          = [ty \in Types(deliveries, sent) |-> Cardinality(OfType(deliveries, answered, ty))]
    BY <1>5
  <2> QED BY <1>2, <1>4, <2>1, CountedByType
<1>13. whole.overall.sent = SumOf([r \in responders |-> Summary(r).sent])
  <2>1. [r \in responders |-> Summary(r).sent]
          = [r \in responders |-> Cardinality(sent \cap To(deliveries, r))]
    BY <1>8
  <2>2. SumOf([r \in responders |-> Cardinality(sent \cap To(deliveries, r))])
          = Cardinality(sent)
    BY <1>2, CountedByResponder
  <2> QED BY <1>4, <2>1, <2>2, Zenon
<1>14. whole.overall.sent = whole.overall.acknowledged
                              + SumOf([r \in responders |-> UnreadCount(deliveries, r)])
  <2> DEFINE unread == sent \ answered
  <2>1. unread \in SUBSET sent /\ unread \in SUBSET DOMAIN deliveries /\ answered \cap unread = {}
        /\ \A i \in sent : i \in answered \/ i \in unread
    BY <1>2
  <2>2. [r \in responders |-> UnreadCount(deliveries, r)]
          = [r \in responders |-> Cardinality(unread \cap To(deliveries, r))]
    BY <1>7
  <2> HIDE DEF unread
  <2>3. SumOf([r \in responders |-> UnreadCount(deliveries, r)]) = Cardinality(unread)
    BY <2>1, <2>2, CountedByResponder
  <2>4. Cardinality(sent) = Cardinality(answered) + Cardinality(unread)
    BY <1>2, <1>3, <2>1, TwoParts
  <2> QED BY <1>4, <2>3, <2>4
<1>15. whole.overall.acknowledged <= SumOf([r \in responders |-> Summary(r).acknowledged])
  <2> DEFINE any == Acknowledged(deliveries, DOMAIN deliveries)
  <2>1. /\ any \in SUBSET DOMAIN deliveries /\ answered \in SUBSET any
        /\ \A r : Acknowledged(deliveries, To(deliveries, r)) = any \cap To(deliveries, r)
    BY <1>2 DEF Acknowledged, To
  <2> HIDE DEF any
  <2>2. [r \in responders |-> Summary(r).acknowledged]
          = [r \in responders |-> Cardinality(any \cap To(deliveries, r))]
    BY <1>8, <2>1
  <2>3. SumOf([r \in responders |-> Summary(r).acknowledged]) = Cardinality(any)
    <3>1. SumOf([r \in responders |-> Cardinality(any \cap To(deliveries, r))])
            = Cardinality(any)
      BY <2>1, CountedByResponder
    <3> QED BY <2>2, <3>1, Zenon
  <2>4. Cardinality(answered) <= Cardinality(any)
    BY <1>1, <2>1, FS_Subset
  <2> QED BY <1>4, <2>3, <2>4
<1>16. \A k \in 0 .. n :
         whole.overall.sent = Analytics(deliveries, 1, k).overall.sent
                               + Analytics(deliveries, k + 1, n).overall.sent
  <2> SUFFICES ASSUME NEW k \in 0 .. n
               PROVE  whole.overall.sent = Analytics(deliveries, 1, k).overall.sent
                                            + Analytics(deliveries, k + 1, n).overall.sent
    OBVIOUS
  <2> DEFINE before == SentWithin(deliveries, 1, k)  since == SentWithin(deliveries, k + 1, n)
  <2>1. /\ Analytics(deliveries, 1, k).overall.sent = Cardinality(before)
        /\ Analytics(deliveries, k + 1, n).overall.sent = Cardinality(since)
    BY DEF Analytics, Numbers
  <2>2. /\ before = {i \in sent : i <= k} /\ since = {i \in sent : k + 1 <= i}
        /\ \A i \in sent : i \in Int
    BY <1>1, <1>2 DEF SentWithin, OfStatus
  <2> HIDE DEF before, since
  <2>3. /\ before \in SUBSET sent /\ since \in SUBSET sent /\ before \cap since = {}
        /\ \A i \in sent : i \in before \/ i \in since
    BY <1>1, <2>2
  <2>4. Cardinality(sent) = Cardinality(before) + Cardinality(since)
    BY <1>3, <2>3, TwoParts
  <2> QED BY <1>4, <2>1, <2>4
<1>17. LET top == TopResponders(deliveries, 1, n)
       IN {top[k] : k \in DOMAIN top}
            = {r \in responders : UnreadCount(deliveries, r) < Summary(r).sent}
  <2> DEFINE top == TopResponders(deliveries, 1, n)
  <2>1. {top[k] : k \in DOMAIN top} = {deliveries[i].to : i \in answered}
    <3>1. 1 \in Int /\ n \in Int
      BY <1>1
    <3>2. LET tops == TopResponders(deliveries, 1, n)
              read == Acknowledged(deliveries, SentWithin(deliveries, 1, n))
          IN {tops[k] : k \in DOMAIN tops} = {deliveries[i].to : i \in read}
      BY <3>1, TopHasAll
    <3> QED BY <3>2 DEF answered, sent
  <2>2. ASSUME NEW r \in responders
        PROVE  (\E i \in answered : deliveries[i].to = r)
                 <=> UnreadCount(deliveries, r) < Summary(r).sent
    <3> DEFINE mine == sent \cap To(deliveries, r)  read == answered \cap To(deliveries, r)
               unread == (sent \ answered) \cap To(deliveries, r)
    <3>1. /\ read \in SUBSET mine /\ unread \in SUBSET mine /\ read \cap unread = {}
          /\ \A i \in mine : i \in read \/ i \in unread
      BY <1>2
    <3>2. (\E i \in answered : deliveries[i].to = r) <=> read # {}
      BY <1>2 DEF To
    <3>3. UnreadCount(deliveries, r) = Cardinality(unread) /\ Summary(r).sent = Cardinality(mine)
      BY <1>7, <1>8
    <3>4. IsFiniteSet(mine)
      BY <1>3, FS_Intersection
    <3> HIDE DEF mine, read, unread
    <3>5. Cardinality(mine) = Cardinality(read) + Cardinality(unread)
      BY <3>1, <3>4, TwoParts
    <3>6. IsFiniteSet(read) /\ IsFiniteSet(unread)
      BY <3>1, <3>4, FS_Subset
    <3>7. Cardinality(read) \in Nat /\ Cardinality(unread) \in Nat
          /\ (Cardinality(read) = 0 <=> read = {})
      BY <3>6, FS_CardinalityType, FS_EmptySet
    <3> QED BY <3>2, <3>3, <3>5, <3>7
  <2>3. \A i \in answered : deliveries[i].to \in responders
    BY <1>2
  <2> QED BY <2>1, <2>2, <2>3
<1>18. Len(Export(deliveries, 1, n, n)) = whole.overall.sent
  <2> DEFINE all == NewestFirst(sent)
  <2>1. all \in Seq(sent) /\ Len(all) = Cardinality(sent)
    BY <1>2, RowsAreListed DEF ListOf
  <2>2. Export(deliveries, 1, n, n) = Rows(all, 0, n)
    BY DEF Export, sent
  <2> HIDE DEF all
  <2>3. Cardinality(sent) <= n /\ Cardinality(sent) \in Nat
    <3>1. Cardinality(DOMAIN deliveries) = n
      <4>1. Cardinality(1 .. n) = n
        BY <1>1, FS_Interval
      <4> QED BY <1>1, <4>1
    <3>2. Cardinality(sent) <= Cardinality(DOMAIN deliveries)
      BY <1>1, <1>2, FS_Subset
    <3> QED BY <1>3, <3>1, <3>2, FS_CardinalityType
  <2>4. Len(Rows(all, 0, n)) = (IF 0 + n < Len(all) THEN 0 + n ELSE Len(all)) - 0
    <3>1. 0 \in 0 .. Len(all)
      BY <2>1, <2>3
    <3> QED BY <1>1, <2>1, <3>1, RowsCut
  <2> QED BY <1>1, <1>4, <2>1, <2>2, <2>3, <2>4
<1>19. \A r \in responders :
         Summary(r).total = Summary(r).sent + Summary(r).failed + Summary(r).pending
  <2> SUFFICES ASSUME NEW r \in responders
               PROVE  Summary(r).total = Summary(r).sent + Summary(r).failed + Summary(r).pending
    OBVIOUS
  <2> DEFINE mine == To(deliveries, r)  gone == sent \cap mine
             failed == OfStatus(deliveries, mine, "failed")
             pending == OfStatus(deliveries, mine, "pending")
             rest == failed \cup pending
  <2>1. /\ gone \in SUBSET mine /\ rest \in SUBSET mine /\ gone \cap rest = {}
        /\ \A i \in mine : i \in gone \/ i \in rest
        /\ failed \in SUBSET rest /\ pending \in SUBSET rest /\ failed \cap pending = {}
        /\ \A i \in rest : i \in failed \/ i \in pending
    <3>1. \A i \in DOMAIN deliveries : deliveries[i].status \in {"sent", "failed", "pending"}
      <4>1. \A i \in DOMAIN deliveries : deliveries[i] \in Delivery
        BY Places
      <4> QED BY <4>1 DEF Delivery
    <3> QED BY <1>2, <3>1 DEF To, OfStatus
  <2>2. Summary(r).total = Cardinality(mine) /\ Summary(r).sent = Cardinality(gone)
        /\ Summary(r).failed = Cardinality(failed) /\ Summary(r).pending = Cardinality(pending)
    BY <1>8
  <2>3. IsFiniteSet(mine)
    BY Places, RowsAreListed
  <2> HIDE DEF mine, gone, failed, pending, rest
  <2>4. IsFiniteSet(rest)
    BY <2>1, <2>3, FS_Subset
  <2>5. Cardinality(mine) = Cardinality(gone) + Cardinality(rest)
    BY <2>1, <2>3, TwoParts
  <2>6. Cardinality(rest) = Cardinality(failed) + Cardinality(pending)
    BY <2>1, <2>4, TwoParts
  <2>7. /\ Cardinality(gone) \in Int /\ Cardinality(failed) \in Int
        /\ Cardinality(pending) \in Int
    BY <2>1, <2>3, <2>4, FS_Subset, FS_CardinalityType
  <2> QED BY <2>2, <2>5, <2>6, <2>7
<1> QED BY <1>11, <1>12, <1>13, <1>14, <1>15, <1>16, <1>17, <1>18, <1>19, Zenon
        DEF CountsAgree, whole, Summary, n

-----------------------------------------------------------------------------
(***************************************************************************)
(* Reports: the trend.                                                     *)
(***************************************************************************)
\* A later time is in no earlier bucket, and a bucket starts at a multiple.
LEMMA Buckets ==
  ASSUME NEW s \in Int, NEW t \in Int, s <= t, NEW b \in Nat \ {0}
  PROVE  /\ Bucket(s, b) \in Int /\ Bucket(t, b) \in Int
         /\ Bucket(s, b) <= Bucket(t, b) /\ Bucket(t, b) <= t
         /\ Bucket(t, b) % b = 0
<1> DEFINE p == s \div b  q == t \div b  u == s % b  v == t % b
<1>1. /\ p \in Int /\ u \in Int /\ 0 <= u /\ u < b /\ s = b * p + u
      /\ q \in Int /\ v \in Int /\ 0 <= v /\ v < b /\ t = b * q + v
  BY Divided
<1>2. Bucket(s, b) = s - u /\ Bucket(t, b) = t - v
  BY DEF Bucket
<1> HIDE DEF p, q, u, v
<1>3. b * p \in Int /\ b * q \in Int /\ (q < p => b * q + b <= b * p)
      /\ (p <= q => b * p <= b * q)
  BY <1>1, Multiples
<1>4. Bucket(s, b) = b * p /\ Bucket(t, b) = b * q
  BY <1>1, <1>2, <1>3
<1>5. b * p <= b * q
  <2>1. q < p => FALSE
    BY <1>1, <1>3
  <2> QED BY <1>1, <1>3, <2>1
<1>6. (b * q) % b = 0
  <2> DEFINE x == b * q  w == x \div b  r == x % b
  <2>1. w \in Int /\ r \in Int /\ 0 <= r /\ r < b /\ x = b * w + r
    BY <1>3, Divided
  <2> HIDE DEF w, r
  <2>2. /\ b * w \in Int /\ b * q \in Int
        /\ (w < q => b * w + b <= b * q) /\ (q < w => b * q + b <= b * w)
    BY <1>1, <2>1, Multiples
  <2>3. w = q
    <3>1. w < q => FALSE
      BY <2>1, <2>2
    <3>2. q < w => FALSE
      BY <2>1, <2>2
    <3> QED BY <1>1, <2>1, <3>1, <3>2
  <2>4. r = 0
    BY <2>1, <2>2, <2>3
  <2> QED BY <2>4 DEF r
<1> QED BY <1>1, <1>3, <1>4, <1>5, <1>6

\* A bucket's level lies between those of its readings.
LEMMA AverageOfRows ==
  ASSUME NEW readings \in Seq(Sensor), NEW rows \in SUBSET DOMAIN readings, rows # {}
  PROVE  \E low, high \in rows : /\ readings[low].pct <= Average(readings, rows)
                                 /\ Average(readings, rows) <= readings[high].pct
<1> DEFINE f == [i \in rows |-> readings[i].pct]
           S == {f[i] : i \in rows}
           order == NewestFirst(rows)
           numbers == [k \in DOMAIN order |-> readings[order[k]].pct]
<1>1. DOMAIN readings = 1 .. Len(readings) /\ Len(readings) \in Nat
      /\ \A i \in DOMAIN readings : readings[i] \in Sensor
  BY LenProperties, ElementOfSeq
<1>2. \A i \in rows : f[i] = readings[i].pct /\ f[i] \in Int
  BY <1>1 DEF Sensor
<1>3. IsFiniteSet(rows) /\ rows \in SUBSET Int
  <2> DEFINE P == 1 .. Len(readings)
  <2>1. IsFiniteSet(P) /\ rows \in SUBSET P /\ P \in SUBSET Int
    BY <1>1, FS_Interval
  <2> HIDE DEF P
  <2> QED BY <2>1, FS_Subset
<1>4. DOMAIN f = rows
  OBVIOUS
<1> HIDE DEF f
<1>5. S \in SUBSET Int /\ S # {}
  BY <1>2
<1>6. IsFiniteSet(S)
  BY <1>3, <1>4, ImageFinite
<1>7. PICK least, most \in S : \A x \in S : least <= x /\ x <= most
  <2> HIDE DEF S
  <2> QED BY <1>5, <1>6, Extremes
<1>8. ListOf(order, rows)
  BY <1>3, NewestAreListed
<1>9. DOMAIN order = 1 .. Len(order) /\ Len(order) = Cardinality(rows) /\ Len(order) \in Nat
      /\ \A k \in 1 .. Len(order) : order[k] \in rows
  BY <1>8, LenProperties, ElementOfSeq DEF ListOf
<1>10. Len(order) # 0
  BY <1>3, <1>9, FS_EmptySet
<1> HIDE DEF order
<1>11. \A k \in 1 .. Len(order) : readings[order[k]].pct \in S /\ readings[order[k]].pct \in Int
  BY <1>2, <1>9
<1>12. /\ numbers \in Seq(Int) /\ Len(numbers) = Len(order)
       /\ \A k \in 1 .. Len(order) : numbers[k] \in S
  <2> DEFINE m == Len(order)
  <2>1. m \in Nat /\ numbers = [k \in 1 .. m |-> readings[order[k]].pct]
    BY <1>9
  <2>2. \A k \in 1 .. m : numbers[k] \in S /\ readings[order[k]].pct \in Int
    BY <1>11, <2>1
  <2> HIDE DEF m, numbers, S
  <2>3. numbers \in Seq(Int) /\ Len(numbers) = m
    BY <2>1, <2>2
  <2> QED BY <2>2, <2>3 DEF m
<1>13. Average(readings, rows) = Total(numbers) \div Len(numbers)
  BY <1>9, <1>12 DEF Average, order
<1> HIDE DEF numbers
<1>14. least <= Average(readings, rows) /\ Average(readings, rows) <= most
  <2>1. least \in Int /\ most \in Int
    BY <1>5
  <2>2. \A k \in 1 .. Len(numbers) : least <= numbers[k] /\ numbers[k] <= most
    BY <1>7, <1>12
  <2> HIDE DEF S
  <2>3. LET avg == Total(numbers) \div Len(numbers)
        IN avg \in Int /\ least <= avg /\ avg <= most
    BY <1>10, <1>12, <2>1, <2>2, AverageBetween
  <2> QED BY <1>13, <2>3
<1>15. PICK low, high \in rows : least = readings[low].pct /\ most = readings[high].pct
  BY <1>2
<1> QED BY <1>14, <1>15

LEMMA TrendShown ==
  ASSUME NEW readings \in Seq(Sensor), NEW start \in Int, NEW now \in Int,
         NEW interval \in Nat \ {0}, \A i \in DOMAIN readings : readings[i].time <= now
  PROVE  TrendShows(readings, start, now, interval)
<1> DEFINE trend == Trend(readings, start, now, interval)
           asked == {i \in DOMAIN readings : readings[i].time \in start .. now}
           In(i) == Bucket(readings[i].time, interval)
<1> SUFFICES ASSUME NEW i \in asked
             PROVE  /\ In(i) \in DOMAIN trend
                    /\ \E low, high \in asked :
                         /\ In(low) = In(i) /\ In(high) = In(i)
                         /\ readings[low].pct <= trend[In(i)] /\ trend[In(i)] <= readings[high].pct
  BY DEF TrendShows
<1>1. \A k \in DOMAIN readings : readings[k].time \in Int
  <2>1. DOMAIN readings = 1 .. Len(readings)
        /\ \A k \in 1 .. Len(readings) : readings[k] \in Sensor
    BY LenProperties, ElementOfSeq
  <2> QED BY <2>1 DEF Sensor
<1> DEFINE time == readings[i].time
<1>2. time \in Int /\ start <= time /\ time <= now
  BY <1>1
<1>3. /\ Bucket(start, interval) \in Int /\ Bucket(time, interval) \in Int
      /\ Bucket(start, interval) <= Bucket(time, interval) /\ Bucket(time, interval) <= time
      /\ Bucket(time, interval) % interval = 0
  <2> HIDE DEF time
  <2> QED BY <1>2, Buckets
<1> DEFINE K == {t \in Bucket(start, interval) .. now : t % interval = 0}
           bucket == Bucket(time, interval)
           rows == InBucket(readings, start, interval, bucket)
<1>4. bucket \in K
  BY <1>2, <1>3
<1>5. /\ DOMAIN trend = K
      /\ trend[bucket] = IF rows = {} THEN 0 ELSE Average(readings, rows)
  BY <1>4 DEF Trend
<1>6. \A k : k \in rows <=> k \in asked /\ In(k) = bucket
  BY <1>1 DEF InBucket
<1>7. i \in rows /\ rows \in SUBSET DOMAIN readings
  BY <1>6
<1> HIDE DEF rows
<1>8. trend[bucket] = Average(readings, rows)
  BY <1>5, <1>7
<1>9. PICK low, high \in rows : /\ readings[low].pct <= Average(readings, rows)
                                /\ Average(readings, rows) <= readings[high].pct
  BY <1>7, AverageOfRows
<1> HIDE DEF K, trend
<1> QED BY <1>4, <1>5, <1>6, <1>8, <1>9

-----------------------------------------------------------------------------
(***************************************************************************)
(* Reports: all of them.                                                   *)
(***************************************************************************)
\* "Fetch one extra to determine has_more", and the queries that count the same
\* deliveries (notification_log.py), the alerts of a responder and the readings:
\* of any log, any readings of the past and any page size, while the ranking of
\* ten has room for every responder.
THEOREM ReportsHold ==
  ASSUME NEW deliveries \in Seq(Delivery), NEW responders \in SUBSET Int, IsFiniteSet(responders),
         Cardinality(responders) <= MaxTop,
         \A i \in DOMAIN deliveries : deliveries[i].to \in responders,
         NEW readings \in Seq(Sensor), Timed(readings), NEW now \in Int,
         \A i \in DOMAIN readings : readings[i].time <= now
  PROVE  /\ \A size \in Nat \ {0} :
              /\ TablesAreComplete(deliveries, responders, readings, size)
              /\ \A r \in responders : AlertsAreComplete(deliveries, r, size)
         /\ CountsAgree(deliveries, responders)
         /\ \A start \in Int, interval \in Nat \ {0} : TrendShows(readings, start, now, interval)
<1>1. \A size \in Nat \ {0} : TablesAreComplete(deliveries, responders, readings, size)
  BY TablesComplete
<1>2. \A size \in Nat \ {0}, r \in responders : AlertsAreComplete(deliveries, r, size)
  BY AlertsComplete
<1>3. CountsAgree(deliveries, responders)
  BY CountsAgreeing
<1>4. \A start \in Int, interval \in Nat \ {0} : TrendShows(readings, start, now, interval)
  BY TrendShown
<1> QED BY <1>1, <1>2, <1>3, <1>4

\* A log of deliveries to responders, and readings of the past.
LogInv == log \in Seq([to : Notified, type : {"warning", "critical"}, status : {"sent", "failed"},
                       response : {NoResponse, 0, 30}])
PastInv == \A i \in DOMAIN day.sensors : day.sensors[i].time <= 25

LEMMA LogInvariance == Spec => []LogInv
<1> DEFINE D == [to : Notified, type : {"warning", "critical"}, status : {"sent", "failed"},
                 response : {NoResponse, 0, 30}]
<1>1. Init => LogInv
  <2> HIDE DEF D
  <2>1. <<>> \in Seq(D)
    OBVIOUS
  <2> QED BY <2>1 DEF Init, LogInv, D
<1>2. LogInv /\ [Next]_<<in, th, boxes, day, code, log>> => LogInv'
  <2> SUFFICES ASSUME LogInv, [Next]_<<in, th, boxes, day, code, log>> PROVE LogInv'
    OBVIOUS
  <2> HIDE DEF D
  <2>1. log \in Seq(D)
    BY DEF LogInv, D
  <2>2. CASE Notify
    <3>1. PICK d \in D : log' = Append(log, d)
      BY <2>2 DEF Notify, D
    <3>2. log' \in Seq(D)
      BY <2>1, <3>1, AppendProperties
    <3> QED BY <3>2 DEF LogInv, D
  <2>3. CASE log' = <<>>
    <3>1. log' \in Seq(D)
      BY <2>3
    <3> QED BY <3>1 DEF LogInv, D
  <2>4. CASE UNCHANGED log
    BY <2>4 DEF LogInv
  <2> QED BY <2>2, <2>3, <2>4 DEF Next, Deliver, Detect, Happen, Report, Anew
<1> QED BY <1>1, <1>2, PTL DEF Spec

LEMMA PastInvariance == Spec => []PastInv
<1>1. Init => PastInv
  BY DEF Init, PastInv, NoDay
<1>2. DayInv /\ DayInv' /\ PastInv /\ [Next]_<<in, th, boxes, day, code, log>> => PastInv'
  <2> SUFFICES ASSUME DayInv, PastInv, [Next]_<<in, th, boxes, day, code, log>> PROVE PastInv'
    OBVIOUS
  <2>1. CASE Happen
    <3> DEFINE old == day.sensors
    <3>1. old \in Readings(Sensor)
      BY DEF DayInv, DaysOfReadings, SensorReadings, Sensor
    <3>2. old \in Seq(Sensor) /\ DOMAIN old = 1 .. Len(old) /\ Len(old) \in Nat
      BY <3>1, ReadingsAre
    <3>3. day \in [sensors : SensorReadings, models : ModelReadings, weathers : WeatherReadings]
      BY DEF DayInv, DaysOfReadings
    <3>4. CASE day'.sensors = old
      BY <3>4 DEF PastInv
    <3>5. ASSUME NEW r \in [time : DayTimes, pct : {400, 900}], day'.sensors = Append(old, r)
          PROVE  PastInv'
      <4>1. r \in Sensor /\ r.time <= 25
        BY DEF Sensor, DayTimes
      <4> DEFINE more == Append(old, r)
      <4>2. \A i \in DOMAIN old : old[i].time <= 25
        BY DEF PastInv
      <4> HIDE DEF old
      <4>3. /\ more \in Seq(Sensor) /\ Len(more) = Len(old) + 1 /\ more[Len(old) + 1] = r
            /\ \A i \in 1 .. Len(old) : more[i] = old[i]
        BY <3>2, <4>1, AppendProperties
      <4> HIDE DEF more
      <4>4. DOMAIN more = 1 .. Len(more)
        BY <4>3, LenProperties
      <4>5. \A i \in DOMAIN more : i \in 1 .. Len(old) \/ i = Len(old) + 1
        BY <3>2, <4>3, <4>4
      <4>6. \A i \in DOMAIN more : more[i].time <= 25
        BY <3>2, <4>1, <4>2, <4>3, <4>5
      <4> QED BY <3>5, <4>6 DEF PastInv, more
    <3> QED BY <2>1, <3>3, <3>4, <3>5 DEF Happen
  <2>2. CASE day' = NoDay
    BY <2>2 DEF PastInv, NoDay
  <2>3. CASE UNCHANGED day
    BY <2>3 DEF PastInv
  <2> QED BY <2>1, <2>2, <2>3 DEF Next, Deliver, Detect, Report, Notify, Anew
<1> QED BY <1>1, <1>2, DayInvariance, PTL DEF Spec

\* The pages of the tables join to all of their rows, the numbers of the log agree
\* with those of its analytics and its export, and the trend shows every reading
\* (notification_log.py, sensor_reading.py, responder_app_service.py).
THEOREM GridReports == Spec => []ReportsAddUp
<1>1. LogInv /\ PastInv /\ DayInv => ReportsAddUp
  <2> SUFFICES ASSUME LogInv, PastInv, DayInv PROVE ReportsAddUp
    OBVIOUS
  <2> DEFINE D == [to : Notified, type : {"warning", "critical"}, status : {"sent", "failed"},
                   response : {NoResponse, 0, 30}]
  <2>1. D \subseteq Delivery
    BY DEF Notified, Delivery, NoResponse
  <2> HIDE DEF D
  <2>2. log \in Seq(D)
    BY DEF LogInv, D
  <2>3. log \in Seq(Delivery)
    BY <2>1, <2>2, SeqMonotonic
  <2>4. \A i \in DOMAIN log : log[i].to \in Staff
    <3>1. \A i \in DOMAIN log : log[i] \in D
      BY <2>2, LenProperties, ElementOfSeq
    <3>2. \A d \in D : d.to \in Staff
      BY DEF D, Notified, Staff
    <3> QED BY <3>1, <3>2
  <2>5. Staff \in SUBSET Int /\ IsFiniteSet(Staff) /\ Cardinality(Staff) <= MaxTop
    <3>1. Staff = 1 .. 3
      BY DEF Staff
    <3>2. IsFiniteSet(1 .. 3) /\ Cardinality(1 .. 3) = 3
      <4> DEFINE n == 3
      <4>1. n \in Int /\ 1 \in Int /\ ~(1 > n) /\ n - 1 + 1 = 3 /\ n = 3
        OBVIOUS
      <4> HIDE DEF n
      <4>2. IsFiniteSet(1 .. n) /\ Cardinality(1 .. n) = n
        BY <4>1, FS_Interval
      <4> QED BY <4>2 DEF n
    <3> QED BY <3>1, <3>2 DEF MaxTop
  <2>6. day.sensors \in Seq(Sensor) /\ Timed(day.sensors)
    BY DEF DayInv, DaysOfReadings, SensorReadings, Readings, Sensor
  <2>7. \A i \in DOMAIN day.sensors : day.sensors[i].time <= 25
    BY DEF PastInv
  <2> DEFINE readings == day.sensors
  <2> HIDE DEF readings
  <2>8. /\ \A size \in Nat \ {0} :
             /\ TablesAreComplete(log, Staff, readings, size)
             /\ \A r \in Staff : AlertsAreComplete(log, r, size)
        /\ CountsAgree(log, Staff)
        /\ \A start \in Int, interval \in Nat \ {0} : TrendShows(readings, start, 25, interval)
    <3>1. readings \in Seq(Sensor) /\ Timed(readings) /\ 25 \in Int
          /\ \A i \in DOMAIN readings : readings[i].time <= 25
      BY <2>6, <2>7 DEF readings
    <3> QED BY <2>3, <2>4, <2>5, <3>1, ReportsHold
  <2> QED BY <2>8 DEF ReportsAddUp, readings
<1> QED BY <1>1, LogInvariance, PastInvariance, DayInvariance, PTL
=============================================================================
