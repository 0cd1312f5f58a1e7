----------------------------- MODULE TaskGraph ------------------------------
(***************************************************************************)
(* TaskDependencyGraph of orchestration/graph.py: which tasks are in the   *)
(* graph, what each requires first, and which are done.                    *)
(***************************************************************************)
EXTENDS Naturals, FiniteSets

CONSTANT Tasks  \* task ids

VARIABLES
  nodes,  \* the keys of _deps
  deps,   \* deps[t]: prerequisites of t, {} outside nodes
  done    \* _done

graphVars == <<nodes, deps, done>>

\* _reaches: the search from start ends with the smallest set of tasks that
\* contains it and the prerequisites of its members.
Closed(S) == \A t \in S : deps[t] \subseteq S

Reaches(start, target) ==
  \A S \in SUBSET Tasks : start \in S /\ Closed(S) => target \in S

\* Mutant of Refused: the search goes the wrong way.
RefusedBackwards(t, u) == t = u \/ Reaches(t, u)

Refused(t, u) == t = u \/ Reaches(u, t)

\* add_dependency: both tasks are added even if the edge is refused with
\* CycleError.
AddDependency(t, u) ==
  /\ nodes' = nodes \cup {t, u}
  /\ deps' = IF Refused(t, u) THEN deps ELSE [deps EXCEPT ![t] = @ \cup {u}]

Ready == {t \in nodes \ done : deps[t] \subseteq done}

-----------------------------------------------------------------------------

GraphTypeOK ==
  /\ nodes \subseteq Tasks
  /\ deps \in [Tasks -> SUBSET Tasks]
  /\ \A t \in Tasks : deps[t] \subseteq nodes /\ (t \notin nodes => deps[t] = {})
  /\ done \subseteq nodes

\* No tasks wait for each other: in every set of tasks there is one with no
\* prerequisite in the set.
Acyclic ==
  \A S \in SUBSET Tasks : S # {} => \E t \in S : deps[t] \cap S = {}
=============================================================================
