--------------------------- MODULE RoutingEngine ----------------------------
(***************************************************************************)
(* Calls of ComplexityRoutingEngine.route on a registry that the           *)
(* composition root has built and that clients extend.                     *)
(***************************************************************************)
EXTENDS Routing

CONSTANT RoutingRequests  \* the requests clients make

ASSUME RoutingAssumption ==
  RoutingRequests \subseteq
    [capability : Capability, head : STRING, tokens : Nat, priority : Nat,
     retries : Nat, hint : DOMAIN ComplexityScore \cup {NoHint}]

VARIABLES
  registered,  \* names in the registry
  request,     \* the request being routed, as a set of at most one
  decision     \* rank of each candidate

rvars == <<registered, request, decision>>

NoDecision == [p \in {} |-> 0]

Init ==
  /\ \E config \in [openrouter : BOOLEAN, openai : BOOLEAN, fallback : BOOLEAN] :
       registered = BuildRegistry(config)
  /\ request = {}
  /\ decision = NoDecision

\* register raises if the name is taken.
Register(p) ==
  /\ request = {} /\ p \notin registered
  /\ registered' = registered \cup {p}
  /\ UNCHANGED <<request, decision>>

Route(r) ==
  /\ request = {}
  /\ request' = {r}
  /\ decision' = Decide(registered, r)
  /\ UNCHANGED registered

\* The caller has used the decision.
Use ==
  /\ request # {}
  /\ request' = {}
  /\ decision' = NoDecision
  /\ UNCHANGED registered

Next ==
  \/ \E p \in ProviderNames : Register(p)
  \/ \E r \in RoutingRequests : Route(r)
  \/ Use

Spec == Init /\ [][Next]_rvars

-----------------------------------------------------------------------------

\* The types, and that a decision gives its candidates the places 1, 2, ...
TypeOK ==
  /\ registered \subseteq ProviderNames
  /\ request \subseteq RoutingRequests
  /\ DOMAIN decision \subseteq registered
  /\ {decision[p] : p \in DOMAIN decision} = 1..Cardinality(DOMAIN decision)

Before(p, q) == decision[p] < decision[q]

\* "a last-resort local model sorted last": whatever the complexity and the
\* other candidates, the tenth of the weight keeps it behind all of them.
LocalLast ==
  "local" \in DOMAIN decision =>
    \A p \in DOMAIN decision \ {"local"} : Before(p, "local")

\* Among providers of the same weight: cheaper first below the quality
\* threshold, pricier first above it. Rounding never merges two of them.
CostOrder ==
  \A r \in request : \A p, q \in DOMAIN decision :
    Weight(p) = Weight(q) /\ Cost(p) < Cost(q) =>
      /\ Complexity(r) < 50 => Before(p, q)
      /\ Complexity(r) > 50 => Before(q, p)

\* On both sides of the threshold the order is by cost among providers of the
\* same weight, towards the cheap below it and towards the pricier above it,
\* and the local model is last everywhere. Nothing is said of a complexity of
\* exactly 0.5, where _rank and its comment disagree.
RankedByCost == CostOrder /\ LocalLast

\* At exactly the threshold the two terms of the score cancel and the order is
\* by name. routing.py:56 says "At/above this complexity, ordering favors
\* quality", and 0.5 is what codegen has without a hint.
ThresholdByName ==
  \A r \in request : \A p, q \in DOMAIN decision :
    Weight(p) = Weight(q) /\ Cost(p) < Cost(q) /\ Complexity(r) = 50 =>
      (Before(p, q) <=> NameIndex[p] < NameIndex[q])

\* Whatever keys are configured, code generation and extraction are routed to
\* somebody: the fallback is there, or a provider with a key is. For the
\* other capabilities nobody may be left, and the manager raises.
FallbackServes ==
  \A r \in request :
    decision = NoDecision =>
      r.capability \notin {"code_generation", "extraction"}
=============================================================================
