------------------------------ MODULE Routing -------------------------------
(***************************************************************************)
(* The decisions of ComplexityRoutingEngine (providers/routing.py) over    *)
(* the profiles of the providers the repository knows, and the default     *)
(* order of the registry. A decision is the rank of each candidate.        *)
(*                                                                         *)
(* Floats are integers of their last digit: complexities in hundredths,    *)
(* costs and weights in tenths, scores in millionths, to which round(., 6) *)
(* rounds them.                                                            *)
(***************************************************************************)
EXTENDS Integers, FiniteSets, FiniteSetsExt

Capability == {"architecture", "code_generation", "review", "analysis",
               "extraction", "embedding"}

\* ProviderProfile of each provider: default_profile of the classes of
\* implementations.py, and the profile composition.py gives to openrouter.
ClaudeProfile ==
  [capabilities |-> {"architecture", "review", "analysis", "code_generation"},
   cost |-> 150, window |-> 200000, weight |-> 10]
OpenCodeProfile ==
  [capabilities |-> {"code_generation", "review"},
   cost |-> 20, window |-> 128000, weight |-> 10]
OpenAIProfile ==
  [capabilities |-> {"code_generation", "review", "analysis", "extraction"},
   cost |-> 10, window |-> 128000, weight |-> 10]
GeminiProfile ==
  [capabilities |-> {"extraction", "code_generation", "analysis", "embedding"},
   cost |-> 5, window |-> 1000000, weight |-> 10]
OpenRouterProfile ==
  [capabilities |-> {"code_generation", "review", "analysis", "extraction"},
   cost |-> 3, window |-> 128000, weight |-> 10]

LocalProfile ==
  [capabilities |-> {"extraction", "code_generation"},
   cost |-> 0, window |-> 32000, weight |-> 1]

Profile == [claude |-> ClaudeProfile, gemini |-> GeminiProfile,
            local |-> LocalProfile, openai |-> OpenAIProfile,
            opencode |-> OpenCodeProfile, openrouter |-> OpenRouterProfile]

ProviderNames == DOMAIN Profile

\* The names in alphabetical order.
NameIndex == [claude |-> 1, gemini |-> 2, local |-> 3, openai |-> 4,
              opencode |-> 5, openrouter |-> 6]

Cost(p) == Profile[p].cost
Weight(p) == Profile[p].weight

\* registry.for_capability, without the order.
Supporting(registered, capability) ==
  {p \in registered : capability \in Profile[p].capabilities}

\* ProviderRegistry._ordered: p comes before q.
DefaultAhead(p, q) ==
  \/ Weight(p) > Weight(q)
  \/ Weight(p) = Weight(q) /\ Cost(p) < Cost(q)
  \/ Weight(p) = Weight(q) /\ Cost(p) = Cost(q) /\ NameIndex[p] < NameIndex[q]

\* TaskComplexity.score
ComplexityScore == [trivial |-> 10, simple |-> 30, moderate |-> 50,
                    complex |-> 80, critical |-> 100]

\* RoutingPolicy.default and base_complexity, by the part of the task type
\* before the first dot.
TaskTypeComplexity ==
  [architecture |-> "critical", review |-> "complex", analysis |-> "complex",
   refactor |-> "complex", spec |-> "complex", codegen |-> "moderate",
   testing |-> "simple", extraction |-> "trivial", ingest |-> "trivial"]

BaseComplexity(head) ==
  IF head \in DOMAIN TaskTypeComplexity THEN TaskTypeComplexity[head]
                                        ELSE "moderate"

NoHint == "none"

Clamp(value, low, high) == Max({low, Min({high, value})})

\* complexity_score
Complexity(request) ==
  LET base == IF request.hint # NoHint THEN request.hint
                                       ELSE BaseComplexity(request.head)
  IN Clamp(ComplexityScore[base] + 3 * request.priority + 15 * request.retries,
           0, 100)

Round(n, d) == (2 * n + d) \div (2 * d)

\* Mutant of Score: low complexity does not reward low cost.
ScoreQualityOnly(p, candidates, complexity) ==
  LET costs == {Cost(q) : q \in candidates}
      span  == Max(costs) - Min(costs)
  IN IF span = 0 THEN 50000 * Weight(p)
     ELSE Round(1000 * Weight(p) * complexity * (Cost(p) - Min(costs)), span)

\* What _rank computes for one candidate: the affinity of its cost to the
\* complexity, times its weight.
Score(p, candidates, complexity) ==
  LET costs == {Cost(q) : q \in candidates}
      span  == Max(costs) - Min(costs)
  IN IF span = 0 THEN 50000 * Weight(p)
     ELSE Round(1000 * Weight(p)
                * (complexity * (Cost(p) - Min(costs))
                   + (100 - complexity) * (Max(costs) - Cost(p))), span)

\* Mutant of Ahead: no tie-break by name.
AheadByScore(p, q, candidates, complexity) ==
  Score(p, candidates, complexity) > Score(q, candidates, complexity)

\* The sort of _rank: p comes before q.
Ahead(p, q, candidates, complexity) ==
  LET sp == Score(p, candidates, complexity)
      sq == Score(q, candidates, complexity)
  IN sp > sq \/ (sp = sq /\ NameIndex[p] < NameIndex[q])

\* Providers whose context window is too small are dropped, unless all are.
Candidates(registered, request) ==
  LET supporting == Supporting(registered, request.capability)
      fitting == {p \in supporting : Profile[p].window >= request.tokens}
  IN IF fitting # {} THEN fitting ELSE supporting

\* decide: the candidates with their places, none if nobody has the capability.
Decide(registered, request) ==
  LET candidates == Candidates(registered, request)
      complexity == Complexity(request)
  IN [p \in candidates |->
        1 + Cardinality({q \in candidates : Ahead(q, p, candidates, complexity)})]

\* Mutant of BuildRegistry: the fallback depends on the switch alone.
BuildRegistryBySwitch(config) ==
  (IF config.openrouter THEN {"openrouter"} ELSE {})
    \cup (IF config.openai THEN {"openai"} ELSE {})
    \cup (IF config.fallback THEN {"local"} ELSE {})

\* build_provider_registry: which keys are set, is the fallback switched on?
BuildRegistry(config) ==
  LET keyed == (IF config.openrouter THEN {"openrouter"} ELSE {})
                 \cup (IF config.openai THEN {"openai"} ELSE {})
  IN keyed \cup (IF config.fallback \/ keyed = {} THEN {"local"} ELSE {})
=============================================================================
