--------------------------- MODULE MCTaskPipeline ---------------------------
(* Instances of TaskPipeline for TLC. *)
EXTENDS TaskPipelineInvariant, TLC

\* Tasks that succeed, fail every time, raise, and one nobody consumes.
AllSubmissions ==
  {[outcome |-> "ok", provider |-> "", max |-> 3],
   [outcome |-> "error", provider |-> "opencode", max |-> 1],
   [outcome |-> "error", provider |-> "opencode", max |-> 3],
   [outcome |-> "raise", provider |-> "opencode", max |-> 3],
   [outcome |-> "ok", provider |-> "claude", max |-> 3]}

\* The task of test_failure_with_retry.
FailingSubmission ==
  {[outcome |-> "error", provider |-> "opencode", max |-> 3]}

\* The two schemas of the repository and the one the code expects, each with
\* and without a jsonb codec.
AllDeployments == Deployment

\* infra/postgres/init.sql as docker-compose.yml mounts it, asyncpg as is.
Shipped == {[errorColumn |-> FALSE, foreignKey |-> TRUE, jsonCodec |-> FALSE]}

\* The database the tests take for granted.
Expected == {[errorColumn |-> TRUE, foreignKey |-> FALSE, jsonCodec |-> TRUE]}

Symmetry == Permutations(Tasks) \cup Permutations(Workers)
=============================================================================
