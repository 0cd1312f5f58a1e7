------------------------ MODULE RoutingEngineProofs -------------------------
(***************************************************************************)
(* Proofs about RoutingEngine: what every decision of route says, for any  *)
(* requests, registry and size of candidates.                              *)
(***************************************************************************)
EXTENDS RoutingEngine, FiniteSetTheorems, TLAPS

-----------------------------------------------------------------------------
(* The profiles.                                                            *)

Costs == {0, 3, 5, 10, 20, 150}

\* The profiles composition.py and implementations.py give the providers: all
\* weigh the same but the local model, the only one that costs nothing.
LEMMA Profiles ==
  /\ ProviderNames =
       {"claude", "gemini", "local", "openai", "opencode", "openrouter"}
  /\ \A p \in ProviderNames :
       /\ Cost(p) \in Costs
       /\ Cost(p) = 0 <=> p = "local"
       /\ Weight(p) = IF p = "local" THEN 1 ELSE 10
       /\ NameIndex[p] \in 1..6
  /\ \A p, q \in ProviderNames : NameIndex[p] = NameIndex[q] => p = q
<1>1. ProviderNames =
        {"claude", "gemini", "local", "openai", "opencode", "openrouter"}
  BY DEF ProviderNames, Profile
<1>2. /\ Cost("claude") = 150 /\ Cost("gemini") = 5 /\ Cost("local") = 0
      /\ Cost("openai") = 10 /\ Cost("opencode") = 20
      /\ Cost("openrouter") = 3
  BY DEF Cost, Profile, ClaudeProfile, GeminiProfile, LocalProfile,
         OpenAIProfile, OpenCodeProfile, OpenRouterProfile
<1>3. \A p \in ProviderNames : Weight(p) = IF p = "local" THEN 1 ELSE 10
  BY <1>1 DEF Weight, Profile, ClaudeProfile, GeminiProfile, LocalProfile,
              OpenAIProfile, OpenCodeProfile, OpenRouterProfile
<1>4. \A p \in ProviderNames :
        /\ NameIndex[p] \in 1..6
        /\ \A q \in ProviderNames : NameIndex[p] = NameIndex[q] => p = q
  BY <1>1 DEF NameIndex
<1> QED
  BY <1>1, <1>2, <1>3, <1>4 DEF Costs

\* The least and the greatest cost of some candidates.
LEMMA CostBounds ==
  ASSUME NEW S \in SUBSET Costs, S # {}
  PROVE  /\ Max(S) \in S /\ \A x \in S : x <= Max(S)
         /\ Min(S) \in S /\ \A x \in S : Min(S) <= x
<1>1. \E x \in S : \A y \in S : x >= y
  <2>1. \A y \in S : y \in Costs
    OBVIOUS
  <2>2. CASE 150 \in S
    BY <2>1, <2>2 DEF Costs
  <2>3. CASE 150 \notin S /\ 20 \in S
    BY <2>1, <2>3 DEF Costs
  <2>4. CASE 150 \notin S /\ 20 \notin S /\ 10 \in S
    BY <2>1, <2>4 DEF Costs
  <2>5. CASE 150 \notin S /\ 20 \notin S /\ 10 \notin S /\ 5 \in S
    BY <2>1, <2>5 DEF Costs
  <2>6. CASE S \cap {5, 10, 20, 150} = {}
    <3>1. \A y \in S : y = 0 \/ y = 3
      BY <2>1, <2>6 DEF Costs
    <3> QED
      BY <3>1
  <2> QED
    BY <2>2, <2>3, <2>4, <2>5, <2>6
<1>2. \E x \in S : \A y \in S : x =< y
  <2>1. \A y \in S : y \in Costs
    OBVIOUS
  <2>2. CASE 0 \in S
    BY <2>1, <2>2 DEF Costs
  <2>3. CASE 0 \notin S /\ 3 \in S
    BY <2>1, <2>3 DEF Costs
  <2>4. CASE 0 \notin S /\ 3 \notin S /\ 5 \in S
    BY <2>1, <2>4 DEF Costs
  <2>5. CASE 0 \notin S /\ 3 \notin S /\ 5 \notin S /\ 10 \in S
    BY <2>1, <2>5 DEF Costs
  <2>6. CASE S \cap {0, 3, 5, 10} = {}
    <3>1. \A y \in S : y = 20 \/ y = 150
      BY <2>1, <2>6 DEF Costs
    <3> QED
      BY <3>1
  <2> QED
    BY <2>2, <2>3, <2>4, <2>5, <2>6
<1>3. Max(S) \in S /\ \A x \in S : Max(S) >= x
  BY <1>1 DEF Max
<1>4. Min(S) \in S /\ \A x \in S : Min(S) =< x
  BY <1>2 DEF Min
<1>5. S \subseteq Int
  BY DEF Costs
<1> QED
  BY <1>3, <1>4, <1>5

\* Clamp is what its name says.
LEMMA ClampValue ==
  ASSUME NEW v \in Nat
  PROVE  Clamp(v, 0, 100) = IF v <= 100 THEN v ELSE 100
<1>1. Min({100, v}) = IF v <= 100 THEN v ELSE 100
  BY DEF Min
<1>2. \A n \in Nat : Max({0, n}) = n
  BY DEF Max
<1> QED
  BY <1>1, <1>2 DEF Clamp

\* Every task type has a complexity of 10 or more: priority and retries only
\* add to it.
LEMMA ComplexityRange ==
  ASSUME NEW r \in RoutingRequests
  PROVE  Complexity(r) \in 10..100
<1>1. /\ r.head \in STRING /\ r.priority \in Nat /\ r.retries \in Nat
      /\ r.hint \in DOMAIN ComplexityScore \cup {NoHint}
  BY RoutingAssumption
<1>2. \A b \in DOMAIN ComplexityScore : ComplexityScore[b] \in 10..100
  BY DEF ComplexityScore
<1>3. BaseComplexity(r.head) \in DOMAIN ComplexityScore
  BY DEF BaseComplexity, TaskTypeComplexity, ComplexityScore
<1>4. PICK base \in DOMAIN ComplexityScore :
        base = IF r.hint # NoHint THEN r.hint ELSE BaseComplexity(r.head)
  BY <1>1, <1>3
<1>5. PICK v \in Nat :
        /\ v = ComplexityScore[base] + 3 * r.priority + 15 * r.retries
        /\ v >= 10
  BY <1>1, <1>2
<1>6. Complexity(r) = Clamp(v, 0, 100)
  BY <1>4, <1>5 DEF Complexity
<1> QED
  BY <1>5, <1>6, ClampValue

\* round(x, 6): numbers that are one apart are not rounded to the same.
LEMMA RoundSteps ==
  ASSUME NEW n \in Int, NEW m \in Int, NEW d \in 1..150, m >= n + d
  PROVE  Round(n, d) \in Int /\ Round(m, d) \in Int /\ Round(m, d) > Round(n, d)
  BY DEF Round

LEMMA RoundExact ==
  ASSUME NEW n \in Int, NEW d \in 1..150
  PROVE  Round(n * d, d) = n
  BY DEF Round

-----------------------------------------------------------------------------
(* Places in a strict total order.                                          *)

StrictOrder(R, C) ==
  /\ \A p \in C : <<p, p>> \notin R
  /\ \A p, q \in C : p # q => <<p, q>> \in R \/ <<q, p>> \in R
  /\ \A p, q, s \in C : <<p, q>> \in R /\ <<q, s>> \in R => <<p, s>> \in R

Rank(R, C) == [p \in C |-> 1 + Cardinality({q \in C : <<q, p>> \in R})]

\* To count who comes first is to number the candidates 1, 2, ... in order.
LEMMA RankIsPlace ==
  ASSUME NEW C, IsFiniteSet(C), NEW R, StrictOrder(R, C)
  PROVE  /\ \A p, q \in C :
              /\ Rank(R, C)[p] \in Nat
              /\ <<p, q>> \in R <=> Rank(R, C)[p] < Rank(R, C)[q]
         /\ {Rank(R, C)[p] : p \in C} = 1..Cardinality(C)
<1> DEFINE ahead(p) == {q \in C : <<q, p>> \in R}
           rank == Rank(R, C)
           n == Cardinality(C)
<1>1. n \in Nat
  BY FS_CardinalityType
<1>2. ASSUME NEW p \in C
      PROVE  /\ IsFiniteSet(ahead(p)) /\ Cardinality(ahead(p)) \in Nat
             /\ rank[p] = 1 + Cardinality(ahead(p))
             /\ rank[p] \in 1..n /\ rank[p] \in Nat
  <2>1. ahead(p) \in SUBSET C /\ p \notin ahead(p)
    BY DEF StrictOrder
  <2>2. /\ IsFiniteSet(ahead(p)) /\ Cardinality(ahead(p)) \in Nat
        /\ Cardinality(ahead(p)) <= n
        /\ n = Cardinality(ahead(p)) => C = ahead(p)
    BY <2>1, FS_Subset, FS_CardinalityType
  <2>3. rank[p] = 1 + Cardinality(ahead(p))
    BY DEF Rank
  <2>4. Cardinality(ahead(p)) < n
    BY <1>1, <2>1, <2>2
  <2> HIDE DEF ahead, rank, n
  <2> QED
    BY <1>1, <2>2, <2>3, <2>4
<1>3. ASSUME NEW p \in C, NEW q \in C, <<p, q>> \in R
      PROVE  rank[p] < rank[q]
  <2>1. ahead(p) \in SUBSET ahead(q) /\ p \in ahead(q) /\ p \notin ahead(p)
    BY <1>3 DEF StrictOrder
  <2>2. /\ Cardinality(ahead(p)) <= Cardinality(ahead(q))
        /\ Cardinality(ahead(q)) = Cardinality(ahead(p)) => ahead(p) = ahead(q)
    BY <1>2, <2>1, FS_Subset
  <2>3. Cardinality(ahead(p)) # Cardinality(ahead(q))
    BY <2>1, <2>2
  <2>4. /\ rank[p] = 1 + Cardinality(ahead(p))
        /\ rank[q] = 1 + Cardinality(ahead(q))
        /\ Cardinality(ahead(p)) \in Nat /\ Cardinality(ahead(q)) \in Nat
    BY <1>2
  <2> HIDE DEF ahead, rank
  <2> QED
    BY <2>2, <2>3, <2>4
<1>4. ASSUME NEW p \in C, NEW q \in C, rank[p] < rank[q]
      PROVE  <<p, q>> \in R
  <2>1. rank[p] \in Nat /\ rank[q] \in Nat
    BY <1>2
  <2> HIDE DEF rank
  <2>2. p # q /\ ~(rank[q] < rank[p])
    BY <1>4, <2>1
  <2> QED
    BY <1>3, <2>2 DEF StrictOrder
<1>5. rank \in Injection(C, 1..n)
  <2>1. rank \in [C -> 1..n]
    <3>1. rank = [p \in C |-> rank[p]]
      BY DEF Rank
    <3> QED
      BY <1>2, <3>1
  <2>2. ASSUME NEW p \in C, NEW q \in C, rank[p] = rank[q] PROVE p = q
    <3>1. rank[p] \in Nat /\ rank[q] \in Nat
      BY <1>2
    <3> HIDE DEF rank
    <3>2. ~(rank[p] < rank[q]) /\ ~(rank[q] < rank[p])
      BY <2>2, <3>1
    <3> QED
      BY <1>3, <3>2 DEF StrictOrder
  <2> HIDE DEF rank, n
  <2> QED
    BY <2>1, <2>2 DEF Injection, IsInjective
<1>6. IsFiniteSet(1..n) /\ Cardinality(1..n) = n
  BY <1>1, FS_Interval
<1>7. rank \in Surjection(C, 1..n)
  <2> HIDE DEF rank
  <2> QED
    BY <1>5, <1>6, FS_Injection
<1>8. {rank[p] : p \in C} = 1..n
  <2> HIDE DEF rank, n
  <2> QED
    BY <1>7 DEF Surjection
<1> QED
  BY <1>2, <1>3, <1>4, <1>8

-----------------------------------------------------------------------------
(* Scores.                                                                  *)

Affinity(k, c, lo, hi) == k * (c - lo) + (100 - k) * (hi - c)

ScoreFrom(w, k, c, lo, hi) ==
  IF hi - lo = 0 THEN 50000 * w
                 ELSE Round(1000 * w * Affinity(k, c, lo, hi), hi - lo)

\* What _rank computes, with the least and the greatest cost named.
LEMMA ScoreValue ==
  ASSUME NEW C \in SUBSET ProviderNames, C # {}
  PROVE  \E lo, hi \in Costs :
           /\ lo <= hi
           /\ \A p \in C : lo <= Cost(p) /\ Cost(p) <= hi
           /\ "local" \in C => lo = 0
           /\ \A p \in C, k \in 0..100 :
                Score(p, C, k) = ScoreFrom(Weight(p), k, Cost(p), lo, hi)
<1> DEFINE S == {Cost(q) : q \in C}
<1>1. S \in SUBSET Costs /\ S # {}
  <2>1. \A q \in C : Cost(q) \in Costs
    BY Profiles
  <2>2. PICK q : q \in C
    OBVIOUS
  <2>3. Cost(q) \in S
    BY <2>2
  <2> QED
    BY <2>1, <2>3
<1>2. /\ Max(S) \in S /\ \A x \in S : x <= Max(S)
      /\ Min(S) \in S /\ \A x \in S : Min(S) <= x
  BY <1>1, CostBounds
<1>3. PICK lo, hi \in Costs : lo = Min(S) /\ hi = Max(S)
  BY <1>1, <1>2
<1>4. \A p \in C : lo <= Cost(p) /\ Cost(p) <= hi
  BY <1>2, <1>3
<1>5. "local" \in C => lo = 0
  <2> SUFFICES ASSUME "local" \in C PROVE lo = 0
    OBVIOUS
  <2>1. Cost("local") = 0 /\ lo <= Cost("local")
    BY <1>4, Profiles
  <2> QED
    BY <2>1 DEF Costs
<1>6. lo <= hi
  BY <1>1, <1>2, <1>3
<1>7. \A p \in C, k \in 0..100 :
        Score(p, C, k) = ScoreFrom(Weight(p), k, Cost(p), lo, hi)
  BY <1>3 DEF Score, ScoreFrom, Affinity
<1> QED
  BY <1>4, <1>5, <1>6, <1>7

\* Among candidates of one weight the score falls with the cost below a
\* complexity of 50, rises with it above, and is the same at 50.
LEMMA ScoreByCost ==
  ASSUME NEW C \in SUBSET ProviderNames, NEW k \in 0..100,
         NEW p \in C, NEW q \in C, Weight(p) = Weight(q), Cost(p) < Cost(q)
  PROVE  /\ k < 50 => Score(p, C, k) > Score(q, C, k)
         /\ k > 50 => Score(q, C, k) > Score(p, C, k)
         /\ k = 50 => Score(p, C, k) = Score(q, C, k)
<1>1. PICK lo, hi \in Costs :
        /\ lo <= Cost(p) /\ Cost(q) <= hi
        /\ \A x \in C : Score(x, C, k) = ScoreFrom(Weight(x), k, Cost(x), lo, hi)
  BY ScoreValue
<1>2. PICK v \in {1, 10} : v = Weight(p) /\ v = Weight(q)
  BY Profiles
<1>3. PICK c, d, e \in Int : c = Cost(p) /\ d = Cost(q) /\ e = d - c
  BY Profiles DEF Costs
<1>4. lo \in Int /\ hi \in Int /\ hi - lo \in 1..150 /\ d = c + e /\ e >= 1
  BY <1>1, <1>3 DEF Costs
<1>5. PICK span \in 1..150 : span = hi - lo /\ span # 0
  BY <1>4
<1>6. PICK A, B \in Int : /\ A = k * (c - lo) + (100 - k) * (hi - c)
                          /\ B = k * (d - lo) + (100 - k) * (hi - d)
  BY <1>3, <1>4
<1>7. A = B + (100 - 2 * k) * e
  <2>1. k * (c + e - lo) = k * (c - lo) + k * e
    BY <1>3, <1>4
  <2>2. (100 - k) * (hi - c) = (100 - k) * (hi - (c + e)) + (100 - k) * e
    BY <1>3, <1>4
  <2>3. (100 - 2 * k) * e = (100 - k) * e - k * e
    BY <1>3
  <2>4. k * (c - lo) \in Int /\ (100 - k) * (hi - c) \in Int
        /\ k * e \in Int /\ (100 - k) * e \in Int
        /\ (100 - k) * (hi - (c + e)) \in Int
    BY <1>3, <1>4
  <2> QED
    BY <1>4, <1>6, <2>1, <2>2, <2>3, <2>4
<1>8. /\ k < 50 => A >= B + 2
      /\ k > 50 => B >= A + 2
      /\ k = 50 => A = B
  BY <1>3, <1>4, <1>6, <1>7
<1>9. PICK n, m \in Int : n = 1000 * v * A /\ m = 1000 * v * B
  BY <1>6
<1>10. Score(p, C, k) = Round(n, span) /\ Score(q, C, k) = Round(m, span)
  <2>1. /\ Score(p, C, k) = ScoreFrom(v, k, c, lo, hi)
        /\ Score(q, C, k) = ScoreFrom(v, k, d, lo, hi)
    BY <1>1, <1>2, <1>3
  <2>2. Affinity(k, c, lo, hi) = A /\ Affinity(k, d, lo, hi) = B
    BY <1>6 DEF Affinity
  <2> QED
    BY <1>5, <1>9, <2>1, <2>2 DEF ScoreFrom
<1>11. /\ k < 50 => n >= m + span
       /\ k > 50 => m >= n + span
       /\ k = 50 => n = m
  <2>1. CASE v = 1
    BY <1>5, <1>6, <1>8, <1>9, <2>1
  <2>2. CASE v = 10
    BY <1>5, <1>6, <1>8, <1>9, <2>2
  <2> QED
    BY <1>2, <2>1, <2>2
<1>12. ASSUME n >= m + span PROVE Round(n, span) > Round(m, span)
  <2>1. n \in Int /\ m \in Int /\ span \in 1..150 /\ n >= m + span
    BY <1>5, <1>9, <1>12
  <2> QED
    BY <2>1, RoundSteps
<1>13. ASSUME m >= n + span PROVE Round(m, span) > Round(n, span)
  <2>1. n \in Int /\ m \in Int /\ span \in 1..150 /\ m >= n + span
    BY <1>5, <1>9, <1>13
  <2> QED
    BY <2>1, RoundSteps
<1> QED
  BY <1>10, <1>11, <1>12, <1>13

\* Scores are numbers.
LEMMA ScoreType ==
  ASSUME NEW C \in SUBSET ProviderNames, NEW k \in 0..100, NEW p \in C
  PROVE  Score(p, C, k) \in Int
<1>1. PICK lo, hi \in Costs :
        /\ lo <= hi
        /\ Score(p, C, k) = ScoreFrom(Weight(p), k, Cost(p), lo, hi)
  BY ScoreValue
<1>2. PICK w \in {1, 10}, c \in Int : w = Weight(p) /\ c = Cost(p)
  BY Profiles DEF Costs
<1>3. hi - lo = 0 \/ hi - lo \in 1..150
  BY <1>1 DEF Costs
<1>4. CASE hi - lo = 0
  BY <1>1, <1>2, <1>4 DEF ScoreFrom
<1>5. CASE hi - lo \in 1..150
  <2>1. PICK n \in Int : n = 1000 * w * Affinity(k, c, lo, hi)
    BY <1>1, <1>2 DEF Affinity, Costs
  <2>2. PICK span \in 1..150 : span = hi - lo /\ span # 0
    BY <1>5
  <2>3. Score(p, C, k) = Round(n, span)
    BY <1>1, <1>2, <2>1, <2>2 DEF ScoreFrom
  <2> QED
    BY <2>3 DEF Round
<1> QED
  BY <1>3, <1>4, <1>5

\* The tenth of the weight is enough: no candidate scores as little as local.
LEMMA LocalScoresLess ==
  ASSUME NEW C \in SUBSET ProviderNames, NEW k \in 10..100,
         "local" \in C, NEW p \in C, p # "local"
  PROVE  Score(p, C, k) > Score("local", C, k)
<1>0. k \in 0..100
  OBVIOUS
<1>1. PICK lo, hi \in Costs :
        /\ lo = 0 /\ Cost(p) <= hi
        /\ \A x \in C : Score(x, C, k) = ScoreFrom(Weight(x), k, Cost(x), lo, hi)
  BY <1>0, ScoreValue
<1>2. Weight("local") = 1 /\ Cost("local") = 0 /\ Weight(p) = 10
  BY Profiles
<1>3. PICK c \in Costs \ {0} : c = Cost(p)
  BY Profiles
<1>4. hi \in 1..150 /\ c <= hi /\ hi - lo = hi
  BY <1>1, <1>3 DEF Costs
<1>5. PICK m \in Int : m = 1000 * (100 - k)
  OBVIOUS
<1>6. Score("local", C, k) = Round(m * hi, hi)
  <2>1. Affinity(k, 0, lo, hi) = (100 - k) * hi
    BY <1>1, <1>4 DEF Affinity
  <2>2. 1000 * 1 * ((100 - k) * hi) = m * hi
    BY <1>4, <1>5
  <2> QED
    BY <1>1, <1>2, <1>4, <2>1, <2>2 DEF ScoreFrom
<1>7. PICK n \in Int : n = 10000 * Affinity(k, c, 0, hi)
  BY <1>3, <1>4 DEF Affinity, Costs
<1>8. Score(p, C, k) = Round(n, hi)
  BY <1>1, <1>2, <1>3, <1>4, <1>7 DEF ScoreFrom
<1>9. n >= m * hi + hi
  <2>1. n = 10000 * (k * c + (100 - k) * (hi - c))
    BY <1>3, <1>4, <1>7 DEF Affinity, Costs
  <2>2. CASE hi = 3
    BY <1>3, <1>4, <1>5, <2>1, <2>2 DEF Costs
  <2>3. CASE hi = 5
    BY <1>3, <1>4, <1>5, <2>1, <2>3 DEF Costs
  <2>4. CASE hi = 10
    BY <1>3, <1>4, <1>5, <2>1, <2>4 DEF Costs
  <2>5. CASE hi = 20
    BY <1>3, <1>4, <1>5, <2>1, <2>5 DEF Costs
  <2>6. CASE hi = 150
    BY <1>3, <1>4, <1>5, <2>1, <2>6 DEF Costs
  <2> QED
    BY <1>4, <2>2, <2>3, <2>4, <2>5, <2>6 DEF Costs
<1>10. PICK l \in Int : l = m * hi
  BY <1>4, <1>5
<1>11. n \in Int /\ l \in Int /\ hi \in 1..150 /\ n >= l + hi
  BY <1>4, <1>7, <1>9, <1>10
<1>12. Round(n, hi) > Round(l, hi)
  BY <1>11, RoundSteps
<1> QED
  BY <1>6, <1>8, <1>10, <1>12

-----------------------------------------------------------------------------
(* The order of the candidates.                                             *)

Order(C, k) == {x \in C \X C : Ahead(x[1], x[2], C, k)}

\* Scores, and names among equal scores, put the candidates in a strict order.
LEMMA AheadIsAnOrder ==
  ASSUME NEW C \in SUBSET ProviderNames, NEW k \in 0..100
  PROVE  /\ StrictOrder(Order(C, k), C)
         /\ \A p, q \in C : <<p, q>> \in Order(C, k) <=> Ahead(p, q, C, k)
<1>1. \A p \in C : Score(p, C, k) \in Int
  BY ScoreType
<1>2. \A p, q \in C : /\ NameIndex[p] \in Int
                      /\ NameIndex[p] = NameIndex[q] => p = q
  <2>1. \A p \in C : p \in ProviderNames
    OBVIOUS
  <2>2. \A p \in C : NameIndex[p] \in Int
    BY <2>1, Profiles
  <2>3. \A p, q \in ProviderNames : NameIndex[p] = NameIndex[q] => p = q
    BY Profiles
  <2> QED
    BY <2>1, <2>2, <2>3
<1>3. \A p, q \in C :
        Ahead(p, q, C, k) <=>
          \/ Score(p, C, k) > Score(q, C, k)
          \/ Score(p, C, k) = Score(q, C, k) /\ NameIndex[p] < NameIndex[q]
  BY DEF Ahead
<1>4. \A p, q \in C : <<p, q>> \in Order(C, k) <=> Ahead(p, q, C, k)
  BY DEF Order
<1>5. \A p \in C : <<p, p>> \notin Order(C, k)
  BY <1>1, <1>2, <1>3, <1>4
<1>6. ASSUME NEW p \in C, NEW q \in C, p # q
      PROVE  <<p, q>> \in Order(C, k) \/ <<q, p>> \in Order(C, k)
  <2>1. NameIndex[p] # NameIndex[q]
    BY <1>2, <1>6
  <2> QED
    BY <1>1, <1>2, <1>3, <1>4, <2>1
<1>7. ASSUME NEW p \in C, NEW q \in C, NEW s \in C,
             <<p, q>> \in Order(C, k), <<q, s>> \in Order(C, k)
      PROVE  <<p, s>> \in Order(C, k)
  <2>1. Ahead(p, q, C, k) /\ Ahead(q, s, C, k)
    BY <1>4, <1>7
  <2> QED
    BY <1>1, <1>2, <1>3, <1>4, <2>1
<1> QED
  BY <1>4, <1>5, <1>6, <1>7 DEF StrictOrder

-----------------------------------------------------------------------------
(* What a decision says, of every registry and request.                     *)

\* The candidates have the capability and are registered; there are none only
\* if nobody registered has the capability.
LEMMA CandidatesServe ==
  ASSUME NEW reg \in SUBSET ProviderNames, NEW r \in RoutingRequests
  PROVE  /\ Candidates(reg, r) \in SUBSET reg
         /\ Candidates(reg, r) = {} => Supporting(reg, r.capability) = {}
  BY DEF Candidates, Supporting

LEMMA ProvidersAreFinite == IsFiniteSet(ProviderNames)
<1>1. IsFiniteSet({"claude"} \cup {"gemini"} \cup {"local"} \cup {"openai"}
                    \cup {"opencode"} \cup {"openrouter"})
  BY FS_Singleton, FS_Union
<1>2. ProviderNames
        = {"claude"} \cup {"gemini"} \cup {"local"} \cup {"openai"}
            \cup {"opencode"} \cup {"openrouter"}
  BY Profiles
<1> QED
  BY <1>1, <1>2

\* A decision numbers the candidates in the order of the sort.
LEMMA DecisionPlaces ==
  ASSUME NEW reg \in SUBSET ProviderNames, NEW r \in RoutingRequests,
         NEW C, C = Candidates(reg, r), NEW k, k = Complexity(r),
         NEW dec, dec = Decide(reg, r)
  PROVE  /\ DOMAIN dec = C
         /\ {dec[p] : p \in C} = 1..Cardinality(C)
         /\ \A p, q \in C : Ahead(p, q, C, k) <=> dec[p] < dec[q]
<1>1. C \in SUBSET ProviderNames /\ k \in 0..100
  <2>1. C \in SUBSET reg
    BY CandidatesServe
  <2>2. k \in 10..100
    BY ComplexityRange
  <2> QED
    BY <2>1, <2>2
<1>2. IsFiniteSet(C)
  BY <1>1, ProvidersAreFinite, FS_Subset
<1>3. /\ StrictOrder(Order(C, k), C)
      /\ \A p, q \in C : <<p, q>> \in Order(C, k) <=> Ahead(p, q, C, k)
  BY <1>1, AheadIsAnOrder
<1>4. dec = Rank(Order(C, k), C)
  <2>1. \A p \in C : {q \in C : Ahead(q, p, C, k)}
                       = {q \in C : <<q, p>> \in Order(C, k)}
    BY <1>3
  <2>2. dec = [p \in C |-> 1 + Cardinality({q \in C : Ahead(q, p, C, k)})]
    BY DEF Decide
  <2> QED
    BY <2>1, <2>2 DEF Rank
<1>5. DOMAIN dec = C
  BY <1>4 DEF Rank
<1>6. /\ {Rank(Order(C, k), C)[p] : p \in C} = 1..Cardinality(C)
      /\ \A p, q \in C :
           <<p, q>> \in Order(C, k) <=>
             Rank(Order(C, k), C)[p] < Rank(Order(C, k), C)[q]
  BY <1>2, <1>3, RankIsPlace
<1> QED
  BY <1>3, <1>4, <1>5, <1>6

\* The candidates are in the documented order.
LEMMA DecisionOrder ==
  ASSUME NEW reg \in SUBSET ProviderNames, NEW r \in RoutingRequests,
         NEW C, C = Candidates(reg, r), NEW dec, dec = Decide(reg, r)
  PROVE  /\ \A p, q \in C :
              Weight(p) = Weight(q) /\ Cost(p) < Cost(q) =>
                /\ Complexity(r) < 50 => dec[p] < dec[q]
                /\ Complexity(r) > 50 => dec[q] < dec[p]
                /\ Complexity(r) = 50 =>
                     (dec[p] < dec[q] <=> NameIndex[p] < NameIndex[q])
         /\ "local" \in C => \A p \in C \ {"local"} : dec[p] < dec["local"]
<1>1. PICK k \in 10..100 : k = Complexity(r)
  BY ComplexityRange
<1>2. C \in SUBSET ProviderNames /\ k \in 0..100
  BY CandidatesServe
<1>3. \A p, q \in C : Ahead(p, q, C, k) <=> dec[p] < dec[q]
  BY <1>1, DecisionPlaces
<1>4. \A p, q \in C :
        Ahead(p, q, C, k) <=>
          \/ Score(p, C, k) > Score(q, C, k)
          \/ Score(p, C, k) = Score(q, C, k) /\ NameIndex[p] < NameIndex[q]
  BY DEF Ahead
<1>5. ASSUME NEW p \in C, NEW q \in C,
             Weight(p) = Weight(q), Cost(p) < Cost(q)
      PROVE  /\ k < 50 => dec[p] < dec[q]
             /\ k > 50 => dec[q] < dec[p]
             /\ k = 50 => (dec[p] < dec[q] <=> NameIndex[p] < NameIndex[q])
  <2>1. /\ k < 50 => Score(p, C, k) > Score(q, C, k)
        /\ k > 50 => Score(q, C, k) > Score(p, C, k)
        /\ k = 50 => Score(p, C, k) = Score(q, C, k)
    BY <1>2, <1>5, ScoreByCost
  <2>2. Score(p, C, k) \in Int /\ Score(q, C, k) \in Int
    BY <1>2, ScoreType
  <2> QED
    BY <1>3, <1>4, <2>1, <2>2
<1>6. ASSUME "local" \in C, NEW p \in C, p # "local"
      PROVE  dec[p] < dec["local"]
  <2>1. Score(p, C, k) > Score("local", C, k)
    BY <1>2, <1>6, LocalScoresLess
  <2> QED
    BY <1>3, <1>4, <1>6, <2>1
<1> QED
  BY <1>1, <1>5, <1>6

-----------------------------------------------------------------------------
(* The inductive invariant: the registry is what build_registry made, or    *)
(* more, and a decision is the one route made of it.                        *)

Fallback == {"openrouter", "openai", "local"}

Decided ==
  \/ request = {} /\ decision = NoDecision
  \/ \E r \in RoutingRequests : /\ request = {r}
                                /\ decision = Decide(registered, r)

RInv ==
  /\ registered \in SUBSET ProviderNames
  /\ registered \cap Fallback # {}
  /\ Decided

LEMMA InitDecided == Init => RInv
<1> SUFFICES ASSUME Init PROVE RInv
  OBVIOUS
<1>1. PICK config \in [openrouter : BOOLEAN, openai : BOOLEAN,
                       fallback : BOOLEAN] :
        registered = BuildRegistry(config)
  BY DEF Init
<1>2. registered \in SUBSET ProviderNames
  BY <1>1, Profiles DEF BuildRegistry
<1>3. registered \cap Fallback # {}
  BY <1>1 DEF BuildRegistry, Fallback
<1> QED
  BY <1>2, <1>3 DEF Init, RInv, Decided

LEMMA NextDecided == RInv /\ [Next]_rvars => RInv'
<1> SUFFICES ASSUME RInv, [Next]_rvars PROVE RInv'
  OBVIOUS
<1> USE DEF RInv
<1>1. ASSUME NEW p \in ProviderNames, Register(p) PROVE RInv'
  BY <1>1 DEF Register, Decided
<1>2. ASSUME NEW r \in RoutingRequests, Route(r) PROVE RInv'
  BY <1>2 DEF Route, Decided
<1>3. CASE Use
  BY <1>3 DEF Use, Decided, NoDecision
<1>4. CASE UNCHANGED rvars
  BY <1>4 DEF rvars, Decided, NoDecision
<1> QED
  BY <1>1, <1>2, <1>3, <1>4 DEF Next

LEMMA AlwaysDecided == Spec => []RInv
  BY InitDecided, NextDecided, PTL DEF Spec

-----------------------------------------------------------------------------

\* A decision numbers its candidates 1, 2, ... without gaps or ties, and they
\* are registered: the sort of _rank never leaves two providers unordered.
THEOREM PlacesAreDistinct == Spec => []TypeOK
<1>1. RInv => TypeOK
  <2> SUFFICES ASSUME RInv PROVE TypeOK
    OBVIOUS
  <2>1. CASE request = {} /\ decision = NoDecision
    <3>1. {decision[p] : p \in DOMAIN decision} = {} /\ DOMAIN decision = {}
      BY <2>1 DEF NoDecision
    <3>2. Cardinality({}) = 0 /\ 1..0 = {}
      BY FS_EmptySet
    <3> QED
      BY <2>1, <3>1, <3>2 DEF RInv, TypeOK
  <2>2. ASSUME NEW r \in RoutingRequests, request = {r},
               decision = Decide(registered, r)
        PROVE  TypeOK
    <3>1. PICK C : C = Candidates(registered, r)
      OBVIOUS
    <3>2. C \in SUBSET registered
      BY <3>1, CandidatesServe DEF RInv
    <3>3. DOMAIN decision = C /\ {decision[p] : p \in C} = 1..Cardinality(C)
      BY <2>2, <3>1, DecisionPlaces DEF RInv
    <3> QED
      BY <2>2, <3>2, <3>3 DEF RInv, TypeOK
  <2> QED
    BY <2>1, <2>2 DEF RInv, Decided
<1> QED
  BY <1>1, AlwaysDecided, PTL

\* Whatever is registered and asked, the order is by cost below the threshold
\* and by quality above it, with the local model last of all; at exactly the
\* threshold it is by name, and not by quality as the comment of
\* _QUALITY_THRESHOLD says.
THEOREM RoutesByCost == Spec => [](RankedByCost /\ ThresholdByName)
<1>1. RInv => RankedByCost /\ ThresholdByName
  <2> SUFFICES ASSUME RInv PROVE RankedByCost /\ ThresholdByName
    OBVIOUS
  <2>1. CASE request = {} /\ decision = NoDecision
    BY <2>1 DEF RankedByCost, ThresholdByName, CostOrder, LocalLast, NoDecision
  <2>2. ASSUME NEW r \in RoutingRequests, request = {r},
               decision = Decide(registered, r)
        PROVE  RankedByCost /\ ThresholdByName
    <3>1. PICK C : C = Candidates(registered, r)
      OBVIOUS
    <3>2. DOMAIN decision = C
      BY <2>2, <3>1, DecisionPlaces DEF RInv
    <3>3. /\ \A p, q \in C :
               Weight(p) = Weight(q) /\ Cost(p) < Cost(q) =>
                 /\ Complexity(r) < 50 => decision[p] < decision[q]
                 /\ Complexity(r) > 50 => decision[q] < decision[p]
                 /\ Complexity(r) = 50 =>
                      (decision[p] < decision[q]
                         <=> NameIndex[p] < NameIndex[q])
          /\ "local" \in C =>
               \A p \in C \ {"local"} : decision[p] < decision["local"]
      BY <2>2, <3>1, DecisionOrder DEF RInv
    <3>4. CostOrder
      BY <2>2, <3>2, <3>3 DEF CostOrder, Before
    <3>5. LocalLast
      BY <3>2, <3>3 DEF LocalLast, Before
    <3>6. ThresholdByName
      BY <2>2, <3>2, <3>3 DEF ThresholdByName, Before
    <3> QED
      BY <3>4, <3>5, <3>6 DEF RankedByCost
  <2> QED
    BY <2>1, <2>2 DEF RInv, Decided
<1> QED
  BY <1>1, AlwaysDecided, PTL

\* build_registry leaves nobody without a provider: every client gets code
\* generation and extraction routed, whatever it adds to the registry.
THEOREM SomebodyServes == Spec => []FallbackServes
<1>1. \A p \in Fallback : {"code_generation", "extraction"}
                            \subseteq Profile[p].capabilities
  BY DEF Fallback, Profile, LocalProfile, OpenAIProfile, OpenRouterProfile
<1>2. RInv => FallbackServes
  <2> SUFFICES ASSUME RInv, NEW r \in request, decision = NoDecision
               PROVE  r.capability \notin {"code_generation", "extraction"}
    BY DEF FallbackServes
  <2>1. r \in RoutingRequests /\ decision = Decide(registered, r)
    BY DEF RInv, Decided
  <2>2. PICK C : C = Candidates(registered, r)
    OBVIOUS
  <2>3. C = {}
    <3>1. DOMAIN decision = C
      BY <2>1, <2>2, DecisionPlaces DEF RInv
    <3> QED
      BY <3>1 DEF NoDecision
  <2>4. Supporting(registered, r.capability) = {}
    BY <2>1, <2>2, <2>3, CandidatesServe DEF RInv
  <2>5. PICK p \in registered : p \in Fallback
    BY DEF RInv
  <2> QED
    BY <1>1, <2>4, <2>5 DEF Supporting
<1> QED
  BY <1>2, AlwaysDecided, PTL
=============================================================================
