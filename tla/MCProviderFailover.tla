------------------------- MODULE MCProviderFailover -------------------------
(* Instances of ProviderFailover for TLC. *)
EXTENDS ProviderFailover, TLC

\* A runtime with one key: openrouter with a budget, then the local stub.
OneKey == {"openrouter", "local"}
OneKeyRequests ==
  {[eligible |-> OneKey, rank |-> "openrouter" :> 1 @@ "local" :> 2]}
SmallBudget == "openrouter" :> 2

\* A runtime with both keys: openai, openrouter, then the local stub.
BothKeys == {"openai", "openrouter", "local"}
BothKeysRequests ==
  {[eligible |-> BothKeys,
    rank     |-> "openai" :> 1 @@ "openrouter" :> 2 @@ "local" :> 3]}
NoBudget == [p \in {} |-> 0]

\* These are the providers the routing engine registers, and its order of them
\* for a request for complex code generation.
R == INSTANCE Routing

ASSUME RoutedAssumption ==
  LET keys(openai) ==
        [openrouter |-> TRUE, openai |-> openai, fallback |-> TRUE]
      task == [capability |-> "code_generation", head |-> "codegen",
               tokens |-> 0, priority |-> 0, retries |-> 0, hint |-> "complex"]
      Routed(registry) ==
        LET decision == R!Decide(registry, task)
        IN {[eligible |-> DOMAIN decision, rank |-> decision]}
  IN /\ OneKey = R!BuildRegistry(keys(FALSE))
     /\ OneKeyRequests = Routed(OneKey)
     /\ BothKeys = R!BuildRegistry(keys(TRUE))
     /\ BothKeysRequests = Routed(BothKeys)
=============================================================================
