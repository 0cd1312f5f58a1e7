------------------------- MODULE TaskChainingProofs -------------------------
(***************************************************************************)
(* For any tasks, policies, handlers and numbers of reports: the graph     *)
(* stays acyclic, chains stay bounded, and a generated task is not ready   *)
(* before its parent is done, not held before it is recorded, and lost     *)
(* only by a call that raised.                                             *)
(***************************************************************************)
EXTENDS TaskChaining, FiniteSetTheorems, TLAPS

-----------------------------------------------------------------------------
(* The graph.                                                               *)

\* add_dependency keeps the graph well formed.
LEMMA AddDependencyType ==
  ASSUME GraphTypeOK, NEW t \in Tasks, NEW u \in Tasks, AddDependency(t, u),
         done' \subseteq nodes'
  PROVE  GraphTypeOK'
<1>1. nodes' = nodes \cup {t, u}
  BY DEF AddDependency
<1>2. CASE deps' = deps
  BY <1>1, <1>2 DEF GraphTypeOK
<1>3. CASE deps' = [deps EXCEPT ![t] = @ \cup {u}]
  BY <1>1, <1>3 DEF GraphTypeOK
<1> QED
  BY <1>2, <1>3 DEF AddDependency

\* The edge add_dependency accepts closes no cycle. If S were a set of tasks
\* that wait for each other afterwards, so would be a part of it before: the
\* part u reaches, which does not contain t, or all of S if u is not in it.
LEMMA AddDependencyAcyclic ==
  ASSUME GraphTypeOK, Acyclic,
         NEW t \in Tasks, NEW u \in Tasks, AddDependency(t, u)
  PROVE  Acyclic'
<1>1. CASE Refused(t, u)
  BY <1>1 DEF AddDependency, Acyclic
<1>2. CASE ~Refused(t, u)
  <2>1. deps' = [deps EXCEPT ![t] = @ \cup {u}]
    BY <1>2 DEF AddDependency
  <2>2. PICK C \in SUBSET Tasks : u \in C /\ Closed(C) /\ t \notin C
    BY <1>2 DEF Refused, Reaches
  <2>3. SUFFICES ASSUME NEW S \in SUBSET Tasks, S # {}
                 PROVE  \E x \in S : deps'[x] \cap S = {}
    BY DEF Acyclic
  <2>4. \A x \in Tasks : x # t => deps'[x] = deps[x]
    BY <2>1 DEF GraphTypeOK
  <2>5. deps'[t] = deps[t] \cup {u}
    BY <2>1 DEF GraphTypeOK
  <2>6. CASE S \cap C # {}
    <3>1. PICK x \in S \cap C : deps[x] \cap (S \cap C) = {}
      BY <2>6 DEF Acyclic
    <3>2. x # t /\ deps[x] \subseteq C
      BY <2>2 DEF Closed
    <3>3. deps'[x] = deps[x]
      BY <2>4, <3>2
    <3> QED
      BY <3>1, <3>2, <3>3
  <2>7. CASE S \cap C = {}
    <3>1. PICK x \in S : deps[x] \cap S = {}
      BY <2>3 DEF Acyclic
    <3>2. u \notin S
      BY <2>2, <2>7
    <3>3. x \in Tasks
      BY <3>1
    <3>4. deps'[x] \subseteq deps[x] \cup {u}
      BY <2>4, <2>5, <3>3
    <3> QED
      BY <3>1, <3>2, <3>4
  <2> QED
    BY <2>6, <2>7
<1> QED
  BY <1>1, <1>2

\* A task that is not in the graph is reached from nowhere else: its first
\* dependency is never refused.
LEMMA FreshNotRefused ==
  ASSUME GraphTypeOK, NEW t \in Tasks, NEW child \in Tasks,
         child # t, child \notin nodes
  PROVE  ~Refused(child, t)
<1> DEFINE S == nodes \cup {t}
<1>1. S \in SUBSET Tasks /\ t \in S /\ child \notin S
  BY DEF GraphTypeOK
<1>2. Closed(S)
  BY DEF Closed, GraphTypeOK
<1> QED
  BY <1>1, <1>2 DEF Refused, Reaches

-----------------------------------------------------------------------------
(* The inductive invariant.                                                 *)

\* A generated task is linked to its parent and one deeper in its chain.
Linked ==
  \A t \in Generated :
    LET p == meta[t].parent IN
    /\ t \in nodes
    /\ p \in deps[t]
    /\ p \in Made /\ meta[t].root = meta[p].root
    /\ meta[t].depth = meta[p].depth + 1 /\ meta[t].depth <= MaxDepth

\* What a handler or a client has is generated and recorded in this order.
Audited ==
  /\ \A h \in Handlers : hpc[h] = "emitting" => hchild[h] \in recorded
  /\ \A h \in Handlers : hpc[h] # "idle" => hchild[h] \in Generated
  /\ held \cap Generated \subseteq recorded

ChildrenCounted == \A p \in Tasks : Cardinality(Children(p)) <= reports[p]

OrphansCounted == OrphansBoundedByRaises

IInv == TypeOK /\ Acyclic /\ Linked /\ Audited /\ ChildrenCounted /\ OrphansCounted

-----------------------------------------------------------------------------

LEMMA MadeMeta ==
  ASSUME TypeOK, NEW t \in Made
  PROVE  t \in Tasks /\ meta[t] \in Meta
  BY DEF TypeOK, Made

\* Metadata of a task, as it is written by Submit or by Generate.
LEMMA NewMeta ==
  ASSUME TypeOK, NEW x \in Tasks \ Made, NEW m \in Meta,
         meta' = [meta EXCEPT ![x] = m]
  PROVE  /\ meta' \in [Tasks -> Meta \cup {NoMeta}]
         /\ Made' = Made \cup {x}
         /\ meta'[x] = m
         /\ \A t \in Made : meta'[t] = meta[t]
<1>1. m # NoMeta
  <2>1. m.root \in Tasks
    BY DEF Meta
  <2>2. NoMeta.root = NoTask
    BY DEF NoMeta
  <2> QED
    BY <2>1, <2>2, TasksAssumption
<1>2. meta' \in [Tasks -> Meta \cup {NoMeta}]
  BY DEF TypeOK
<1>3. \A t \in Tasks : meta'[t] = IF t = x THEN m ELSE meta[t]
  BY DEF TypeOK
<1>4. Made' = Made \cup {x}
  BY <1>1, <1>3 DEF Made
<1> QED
  BY <1>2, <1>3, <1>4 DEF Made

\* Sets of tasks are finite.
LEMMA TaskSetsFinite ==
  ASSUME NEW S \in SUBSET Tasks
  PROVE  IsFiniteSet(S) /\ Cardinality(S) \in Nat
  BY TasksAssumption, FS_Subset, FS_CardinalityType

LEMMA SubmitInv ==
  ASSUME IInv, NEW x \in Tasks, NEW head \in Heads, Submit(x, head)
  PROVE  IInv'
<1> DEFINE m == [head |-> head, root |-> x, parent |-> NoTask, depth |-> 0]
<1>1. m \in Meta /\ m.parent = NoTask
  BY DEF Meta
<1>2. x \in Tasks \ Made /\ meta' = [meta EXCEPT ![x] = m]
  BY DEF Submit
<1>3. /\ meta' \in [Tasks -> Meta \cup {NoMeta}]
      /\ Made' = Made \cup {x}
      /\ meta'[x] = m
      /\ \A t \in Made : meta'[t] = meta[t]
  BY <1>1, <1>2, NewMeta DEF IInv
<1> HIDE DEF m
<1>4. Generated' = Generated
  BY <1>1, <1>2, <1>3 DEF Generated
<1>5. TypeOK'
  BY <1>3 DEF IInv, TypeOK, Submit, GraphTypeOK, graphVars
<1>6. Acyclic'
  BY DEF IInv, Acyclic, Submit, graphVars
<1>7. Linked'
  <2>1. \A t \in Generated : t \in Made /\ meta[t].parent \in Made
    BY DEF IInv, Linked, Generated
  <2> QED
    BY <1>3, <1>4, <2>1 DEF IInv, Linked, Submit, graphVars
<1>8. Audited'
  <2>1. x \notin Generated
    BY <1>2 DEF Generated
  <2> QED
    BY <1>4, <2>1 DEF IInv, Audited, Submit
<1>9. ChildrenCounted'
  <2>1. \A p \in Tasks : Children(p)' = Children(p)
    BY <1>3, <1>4 DEF Children, Generated
  <2> QED
    BY <2>1 DEF IInv, ChildrenCounted, Submit
<1>10. OrphansCounted'
  <2>1. Orphans' = Orphans
    <3>1. x \notin Generated
      BY <1>2 DEF Generated
    <3> QED
      BY <1>4, <3>1 DEF Orphans, Submit
  <2> QED
    BY <2>1 DEF IInv, OrphansCounted, OrphansBoundedByRaises, Submit
<1> QED
  BY <1>5, <1>6, <1>7, <1>8, <1>9, <1>10 DEF IInv

\* Steps that make no task keep what is said of metadata.
LEMMA SameMeta ==
  ASSUME UNCHANGED meta
  PROVE  /\ Made' = Made /\ Generated' = Generated
         /\ \A p : Children(p)' = Children(p)
  BY DEF Made, Generated, Children

LEMMA RequireInv ==
  ASSUME IInv, NEW t \in held, NEW u \in held, Require(t, u)
  PROVE  IInv'
<1>1. t \in Tasks /\ u \in Tasks /\ t \in Made /\ u \in Made
  BY DEF IInv, TypeOK, Made
<1>2. /\ AddDependency(t, u)
      /\ UNCHANGED <<done, meta, reports, recorded, held, hpc, hchild, raises>>
  BY DEF Require
<1>3. GraphTypeOK'
  BY <1>1, <1>2, AddDependencyType DEF IInv, TypeOK, GraphTypeOK, AddDependency
<1>4. Made' = Made /\ Generated' = Generated
  BY <1>2, SameMeta
<1>5. edges' \in Nat
  BY DEF Require, IInv, TypeOK
<1>6. nodes' \subseteq Made'
  BY <1>1, <1>2, <1>4 DEF AddDependency, IInv, TypeOK
<1>7. TypeOK'
  BY <1>2, <1>3, <1>4, <1>5, <1>6 DEF IInv, TypeOK
<1>8. Acyclic'
  BY <1>1, <1>2, AddDependencyAcyclic DEF IInv, TypeOK
<1>9. Linked'
  <2>1. nodes \subseteq nodes' /\ \A x \in Tasks : deps[x] \subseteq deps'[x]
    BY <1>2 DEF AddDependency, IInv, TypeOK, GraphTypeOK
  <2>2. Generated \subseteq Tasks
    BY DEF Generated, Made
  <2> QED
    BY <1>2, <1>4, <2>1, <2>2 DEF IInv, Linked
<1>10. Audited'
  BY <1>2, <1>4 DEF IInv, Audited
<1>11. ChildrenCounted'
  BY <1>2, SameMeta DEF IInv, ChildrenCounted
<1>12. OrphansCounted'
  BY <1>2, <1>4 DEF IInv, OrphansCounted, OrphansBoundedByRaises, Orphans
<1> QED
  BY <1>7, <1>8, <1>9, <1>10, <1>11, <1>12 DEF IInv

\* A report that generates nothing.
LEMMA NothingInv ==
  ASSUME IInv, NEW h \in Handlers, NEW t \in Tasks, Report(h, t),
         GenerateNothing(t), done' \subseteq done \cup {t}
  PROVE  IInv'
<1>1. t \in Made
  BY DEF Report, IInv, TypeOK
<1>2. Made' = Made /\ Generated' = Generated
  BY SameMeta DEF GenerateNothing
<1>3. /\ nodes' = nodes \cup {t}
      /\ UNCHANGED <<deps, meta, hpc, hchild, recorded, held, edges, raises>>
      /\ reports' = [reports EXCEPT ![t] = @ + 1]
  BY DEF GenerateNothing, Report
<1>4. GraphTypeOK'
  BY <1>3 DEF IInv, TypeOK, GraphTypeOK
<1>5. reports' \in [Tasks -> Nat] /\ \A p \in Tasks : reports[p] <= reports'[p]
  BY <1>3 DEF IInv, TypeOK
<1>6. nodes' \subseteq Made'
  BY <1>1, <1>2, <1>3 DEF IInv, TypeOK
<1>7. TypeOK'
  BY <1>2, <1>3, <1>4, <1>5, <1>6 DEF IInv, TypeOK
<1>8. Acyclic'
  BY <1>3 DEF IInv, Acyclic
<1>9. Linked'
  BY <1>2, <1>3 DEF IInv, Linked
<1>10. Audited'
  BY <1>2, <1>3 DEF IInv, Audited
<1>11. ChildrenCounted'
  <2>1. ASSUME NEW p \in Tasks
        PROVE  Cardinality(Children(p)') <= reports'[p]
    <3>1. Children(p)' = Children(p) /\ Children(p) \in SUBSET Tasks
      BY <1>3, SameMeta DEF Children, Generated, Made
    <3>2. Cardinality(Children(p)) \in Nat
      BY <3>1, TaskSetsFinite
    <3>3. Cardinality(Children(p)) <= reports[p]
      BY DEF IInv, ChildrenCounted
    <3>4. reports[p] \in Nat /\ reports'[p] \in Nat /\ reports[p] <= reports'[p]
      BY <1>5 DEF IInv, TypeOK
    <3> QED
      BY <3>1, <3>2, <3>3, <3>4
  <2> QED
    BY <2>1 DEF ChildrenCounted
<1>12. OrphansCounted'
  BY <1>2, <1>3 DEF IInv, OrphansCounted, OrphansBoundedByRaises, Orphans
<1> QED
  BY <1>7, <1>8, <1>9, <1>10, <1>11, <1>12 DEF IInv

\* A report that generates a task: its dependency is accepted, its parent has
\* one child more and one report more, and the handler has the child.
LEMMA GenerateInv ==
  ASSUME IInv, NEW h \in Handlers, NEW t \in Tasks, NEW head \in Heads,
         Report(h, t), ~TooDeep(t), Generate(h, t, head),
         done' \subseteq done \cup {t}
  PROVE  IInv'
<1> DEFINE m == ChildMeta(t, head)
<1>1. PICK child \in Tasks \ Made :
        /\ meta' = [meta EXCEPT ![child] = m]
        /\ AddDependency(child, t)
        /\ hpc' = [hpc EXCEPT ![h] = "recording"]
        /\ hchild' = [hchild EXCEPT ![h] = child]
  BY DEF Generate
<1>2. t \in Made /\ child # t /\ meta[t] \in Meta
  <2>1. t \in Made
    BY DEF Report, IInv, TypeOK
  <2> QED
    BY <1>1, <2>1, MadeMeta DEF IInv
<1>3. /\ m \in Meta
      /\ m.parent = t /\ m.root = meta[t].root
      /\ m.depth = meta[t].depth + 1 /\ m.depth <= MaxDepth
  <2>1. meta[t].root \in Tasks /\ meta[t].depth \in Nat
    BY <1>2 DEF Meta
  <2>2. meta[t].depth + 1 <= MaxDepth
    BY <2>1, PolicyAssumption DEF TooDeep
  <2> QED
    BY <2>1, <2>2 DEF ChildMeta, Meta
<1> HIDE DEF m
<1>4. /\ meta' \in [Tasks -> Meta \cup {NoMeta}]
      /\ Made' = Made \cup {child}
      /\ meta'[child] = m
      /\ \A x \in Made : meta'[x] = meta[x]
  BY <1>1, <1>3, NewMeta DEF IInv
<1>5. Generated' = Generated \cup {child} /\ child \notin Generated
  BY <1>1, <1>3, <1>4, TasksAssumption DEF Generated
<1>6. /\ reports' = [reports EXCEPT ![t] = @ + 1]
      /\ UNCHANGED <<recorded, held, edges, raises>>
      /\ hpc[h] = "idle"
  BY DEF Report
<1>7. child \notin nodes
  BY <1>1 DEF IInv, TypeOK
<1>8. /\ nodes' = nodes \cup {child, t}
      /\ deps' = [deps EXCEPT ![child] = @ \cup {t}]
  BY <1>1, <1>2, <1>7, FreshNotRefused DEF IInv, TypeOK, AddDependency
<1>9. GraphTypeOK'
  <2>1. done' \subseteq nodes'
    BY <1>8 DEF IInv, TypeOK, GraphTypeOK
  <2> QED
    BY <1>1, <2>1, AddDependencyType DEF IInv, TypeOK
<1>10. reports' \in [Tasks -> Nat]
  BY <1>6 DEF IInv, TypeOK
<1>11. TypeOK'
  <2>1. nodes' \subseteq Made'
    BY <1>2, <1>4, <1>8 DEF IInv, TypeOK
  <2>2. /\ hpc' \in [Handlers -> {"idle", "recording", "emitting"}]
        /\ hchild' \in [Handlers -> Tasks \cup {NoTask}]
    BY <1>1 DEF IInv, TypeOK
  <2>3. \A g \in Handlers : IF hpc'[g] = "idle" THEN hchild'[g] = NoTask
                                               ELSE hchild'[g] \in Made'
    BY <1>1, <1>4 DEF IInv, TypeOK
  <2> QED
    BY <1>4, <1>6, <1>9, <1>10, <2>1, <2>2, <2>3 DEF IInv, TypeOK
<1>12. Acyclic'
  BY <1>1, AddDependencyAcyclic DEF IInv, TypeOK
<1>13. Linked'
  <2>1. ASSUME NEW x \in Generated
        PROVE  /\ x \in nodes' /\ meta'[x].parent \in deps'[x]
               /\ meta'[x].parent \in Made'
               /\ meta'[x].root = meta'[meta'[x].parent].root
               /\ meta'[x].depth = meta'[meta'[x].parent].depth + 1
               /\ meta'[x].depth <= MaxDepth
    <3>1. x \in Made /\ x # child /\ x \in Tasks
      BY <1>5 DEF Generated, Made
    <3>2. meta'[x] = meta[x]
      BY <1>4, <3>1
    <3>3. meta[x].parent \in Made
      BY DEF IInv, Linked
    <3>4. meta'[meta[x].parent] = meta[meta[x].parent]
      BY <1>4, <3>3
    <3>5. deps'[x] = deps[x]
      BY <1>8, <3>1 DEF IInv, TypeOK, GraphTypeOK
    <3> QED
      BY <1>4, <1>8, <3>2, <3>3, <3>4, <3>5 DEF IInv, Linked
  <2>2. /\ child \in nodes' /\ t \in deps'[child]
        /\ t \in Made' /\ meta'[t] = meta[t]
    BY <1>1, <1>2, <1>4, <1>8 DEF IInv, TypeOK, GraphTypeOK
  <2> QED
    BY <1>3, <1>4, <1>5, <2>1, <2>2 DEF Linked
<1>14. Audited'
  <2>1. held' \cap Generated' \subseteq recorded'
    <3>1. child \notin held
      BY <1>1 DEF IInv, TypeOK
    <3> QED
      BY <1>5, <1>6, <3>1 DEF IInv, Audited
  <2>2. ASSUME NEW g \in Handlers
        PROVE  /\ hpc'[g] = "emitting" => hchild'[g] \in recorded'
               /\ hpc'[g] # "idle" => hchild'[g] \in Generated'
    <3>1. CASE g = h
      BY <1>1, <1>5, <3>1 DEF IInv, TypeOK
    <3>2. CASE g # h
      BY <1>1, <1>5, <1>6, <3>2 DEF IInv, TypeOK, Audited
    <3> QED
      BY <3>1, <3>2
  <2> QED
    BY <2>1, <2>2 DEF Audited
<1>15. ChildrenCounted'
  <2>1. ASSUME NEW p \in Tasks
        PROVE  Cardinality(Children(p)') <= reports'[p]
    <3>1. \A x \in Generated : x \in Made /\ meta'[x] = meta[x]
      BY <1>4 DEF Generated
    <3>2. Children(p) \in SUBSET Tasks
      BY DEF Children, Generated, Made
    <3>3. /\ IsFiniteSet(Children(p)) /\ Cardinality(Children(p)) \in Nat
          /\ Cardinality(Children(p)) <= reports[p] /\ reports[p] \in Nat
      BY <3>2, TaskSetsFinite DEF IInv, TypeOK, ChildrenCounted
    <3>4. CASE p = t
      <4>1. Children(p)' = Children(p) \cup {child}
        BY <1>3, <1>4, <1>5, <3>1, <3>4 DEF Children
      <4>2. child \notin Children(p)
        BY <1>5 DEF Children
      <4>3. Cardinality(Children(p)') = Cardinality(Children(p)) + 1
        BY <3>3, <4>1, <4>2, FS_AddElement
      <4>4. reports'[p] = reports[p] + 1
        BY <1>6, <3>4 DEF IInv, TypeOK
      <4> QED
        BY <3>3, <4>3, <4>4
    <3>5. CASE p # t
      <4>1. Children(p)' = Children(p)
        BY <1>3, <1>4, <1>5, <3>1, <3>5 DEF Children
      <4>2. reports'[p] = reports[p]
        BY <1>6, <3>5 DEF IInv, TypeOK
      <4> QED
        BY <3>3, <4>1, <4>2
    <3> QED
      BY <3>4, <3>5
  <2> QED
    BY <2>1 DEF ChildrenCounted
<1>16. OrphansCounted'
  <2>1. Orphans' = Orphans
    <3>1. hchild[h] = NoTask /\ NoTask \notin Generated
      BY <1>6, TasksAssumption DEF IInv, TypeOK, Generated, Made
    <3>2. hchild'[h] = child /\ \A g \in Handlers : g # h => hchild'[g] = hchild[g]
      BY <1>1 DEF IInv, TypeOK
    <3>3. \A g \in Handlers : hchild[g] # child
      BY <1>1, TasksAssumption DEF IInv, TypeOK
    <3> QED
      BY <1>5, <1>6, <3>1, <3>2, <3>3 DEF Orphans
  <2> QED
    BY <1>6, <2>1 DEF IInv, OrphansCounted, OrphansBoundedByRaises
<1> QED
  BY <1>11, <1>12, <1>13, <1>14, <1>15, <1>16 DEF IInv

LEMMA OnCompletedInv ==
  ASSUME IInv, NEW h \in Handlers, NEW t \in Tasks, OnCompleted(h, t)
  PROVE  IInv'
<1>1. Report(h, t) /\ done' = done \cup {t}
  BY DEF OnCompleted
<1>2. CASE HasNext(t) /\ ~TooDeep(t)
  <2>1. Generate(h, t, NextHead(t))
    BY <1>2 DEF OnCompleted
  <2>2. NextHead(t) \in Heads
    BY <1>2, PolicyAssumption DEF HasNext, NextHead
  <2> QED
    BY <1>1, <1>2, <2>1, <2>2, GenerateInv
<1>3. CASE ~(HasNext(t) /\ ~TooDeep(t))
  BY <1>1, <1>3, NothingInv DEF OnCompleted
<1> QED
  BY <1>2, <1>3

LEMMA OnFailedInv ==
  ASSUME IInv, NEW h \in Handlers, NEW t \in Tasks, NEW attempts,
         OnFailed(h, t, attempts)
  PROVE  IInv'
<1>1. Report(h, t) /\ done' = done
  BY DEF OnFailed
<1>2. CASE attempts < MaxAttempts /\ ~TooDeep(t)
  BY <1>1, <1>2, GenerateInv, PolicyAssumption DEF OnFailed
<1>3. CASE ~(attempts < MaxAttempts /\ ~TooDeep(t))
  BY <1>1, <1>3, NothingInv DEF OnFailed
<1> QED
  BY <1>2, <1>3

LEMMA RecordInv ==
  ASSUME IInv, NEW h \in Handlers, Record(h)
  PROVE  IInv'
<1>1. /\ hpc[h] = "recording"
      /\ recorded' = recorded \cup {hchild[h]}
      /\ hpc' = [hpc EXCEPT ![h] = "emitting"]
      /\ UNCHANGED <<nodes, deps, done, meta, reports, held, hchild, edges, raises>>
  BY DEF Record, graphVars
<1>2. Made' = Made /\ Generated' = Generated
  BY <1>1, SameMeta
<1>3. TypeOK'
  BY <1>1, <1>2 DEF IInv, TypeOK, GraphTypeOK
<1>4. Acyclic'
  BY <1>1 DEF IInv, Acyclic
<1>5. Linked'
  BY <1>1, <1>2 DEF IInv, Linked
<1>6. Audited'
  BY <1>1, <1>2 DEF IInv, TypeOK, Audited
<1>7. ChildrenCounted'
  BY <1>1, SameMeta DEF IInv, ChildrenCounted
<1>8. OrphansCounted'
  BY <1>1, <1>2 DEF IInv, OrphansCounted, OrphansBoundedByRaises, Orphans
<1> QED
  BY <1>3, <1>4, <1>5, <1>6, <1>7, <1>8 DEF IInv

\* The child passes from the handler to its caller.
LEMMA ReturnInv ==
  ASSUME IInv, NEW h \in Handlers, Return(h)
  PROVE  IInv'
<1>1. /\ hpc[h] = "emitting"
      /\ held' = held \cup {hchild[h]}
      /\ hpc' = [hpc EXCEPT ![h] = "idle"]
      /\ hchild' = [hchild EXCEPT ![h] = NoTask]
      /\ UNCHANGED <<nodes, deps, done, meta, reports, recorded, edges, raises>>
  BY DEF Return, graphVars
<1>2. Made' = Made /\ Generated' = Generated
  BY <1>1, SameMeta
<1>3. TypeOK'
  BY <1>1, <1>2 DEF IInv, TypeOK, GraphTypeOK
<1>4. Acyclic'
  BY <1>1 DEF IInv, Acyclic
<1>5. Linked'
  BY <1>1, <1>2 DEF IInv, Linked
<1>6. Audited'
  BY <1>1, <1>2 DEF IInv, TypeOK, Audited
<1>7. ChildrenCounted'
  BY <1>1, SameMeta DEF IInv, ChildrenCounted
<1>8. OrphansCounted'
  <2>1. hchild'[h] = NoTask /\ \A g \in Handlers : g # h => hchild'[g] = hchild[g]
    BY <1>1 DEF IInv, TypeOK
  <2>2. NoTask \notin Generated
    BY TasksAssumption DEF Generated, Made
  <2>3. Orphans' = Orphans
    BY <1>1, <1>2, <2>1, <2>2 DEF Orphans
  <2> QED
    BY <1>1, <2>3 DEF IInv, OrphansCounted, OrphansBoundedByRaises
<1> QED
  BY <1>3, <1>4, <1>5, <1>6, <1>7, <1>8 DEF IInv

\* A call that raises leaves at most its own child to nobody.
LEMMA RaiseInv ==
  ASSUME IInv, NEW h \in Handlers, Raise(h)
  PROVE  IInv'
<1>1. /\ hpc[h] # "idle"
      /\ raises' = raises + 1
      /\ hpc' = [hpc EXCEPT ![h] = "idle"]
      /\ hchild' = [hchild EXCEPT ![h] = NoTask]
      /\ UNCHANGED <<nodes, deps, done, meta, reports, recorded, held, edges>>
  BY DEF Raise, graphVars
<1>2. Made' = Made /\ Generated' = Generated
  BY <1>1, SameMeta
<1>3. TypeOK'
  BY <1>1, <1>2 DEF IInv, TypeOK, GraphTypeOK
<1>4. Acyclic'
  BY <1>1 DEF IInv, Acyclic
<1>5. Linked'
  BY <1>1, <1>2 DEF IInv, Linked
<1>6. Audited'
  BY <1>1, <1>2 DEF IInv, TypeOK, Audited
<1>7. ChildrenCounted'
  BY <1>1, SameMeta DEF IInv, ChildrenCounted
<1>8. OrphansCounted'
  <2>1. hchild'[h] = NoTask /\ \A g \in Handlers : g # h => hchild'[g] = hchild[g]
    BY <1>1 DEF IInv, TypeOK
  <2>2. Orphans' \subseteq Orphans \cup {hchild[h]}
    BY <1>1, <1>2, <2>1 DEF Orphans
  <2>3. IsFiniteSet(Orphans) /\ Cardinality(Orphans) \in Nat
    BY TaskSetsFinite DEF Orphans, Generated, Made
  <2>4. /\ IsFiniteSet(Orphans \cup {hchild[h]})
        /\ Cardinality(Orphans \cup {hchild[h]}) \in Nat
        /\ Cardinality(Orphans \cup {hchild[h]}) <= Cardinality(Orphans) + 1
    <3>1. CASE hchild[h] \in Orphans
      <4>1. Orphans \cup {hchild[h]} = Orphans
        BY <3>1
      <4> QED
        BY <2>3, <4>1
    <3>2. CASE hchild[h] \notin Orphans
      <4>1. /\ IsFiniteSet(Orphans \cup {hchild[h]})
            /\ Cardinality(Orphans \cup {hchild[h]}) = Cardinality(Orphans) + 1
        BY <2>3, <3>2, FS_AddElement
      <4> QED
        BY <2>3, <4>1
    <3> QED
      BY <3>1, <3>2
  <2>5. /\ Cardinality(Orphans') \in Nat
        /\ Cardinality(Orphans') <= Cardinality(Orphans \cup {hchild[h]})
    BY <2>2, <2>4, FS_Subset, FS_CardinalityType
  <2>6. Cardinality(Orphans) <= raises /\ raises \in Nat
    BY DEF IInv, TypeOK, OrphansCounted, OrphansBoundedByRaises
  <2>7. Cardinality(Orphans') <= raises'
    BY <1>1, <2>3, <2>4, <2>5, <2>6
  <2> QED
    BY <2>7 DEF OrphansCounted, OrphansBoundedByRaises
<1> QED
  BY <1>3, <1>4, <1>5, <1>6, <1>7, <1>8 DEF IInv

LEMMA InitInv == Init => IInv
<1> SUFFICES ASSUME Init PROVE IInv
  OBVIOUS
<1>1. Made = {} /\ Generated = {} /\ Orphans = {} /\ \A p \in Tasks : Children(p) = {}
  BY DEF Init, Made, Generated, Orphans, Children
<1>2. Cardinality({}) = 0
  BY FS_EmptySet
<1>3. TypeOK
  BY <1>1 DEF Init, TypeOK, GraphTypeOK
<1>4. Acyclic
  BY DEF Init, Acyclic
<1>5. Linked /\ Audited
  BY <1>1 DEF Init, Linked, Audited
<1>6. ChildrenCounted /\ OrphansCounted
  BY <1>1, <1>2 DEF Init, ChildrenCounted, OrphansCounted, OrphansBoundedByRaises
<1> QED
  BY <1>3, <1>4, <1>5, <1>6 DEF IInv

LEMMA NextInv == IInv /\ [Next]_vars => IInv'
<1> SUFFICES ASSUME IInv, [Next]_vars PROVE IInv'
  OBVIOUS
<1>1. ASSUME NEW t \in Tasks, NEW head \in Heads, Submit(t, head) PROVE IInv'
  BY <1>1, SubmitInv
<1>2. ASSUME NEW t \in held, NEW u \in held, Require(t, u) PROVE IInv'
  BY <1>2, RequireInv
<1>3. ASSUME NEW h \in Handlers, NEW t \in Tasks, OnCompleted(h, t) PROVE IInv'
  BY <1>3, OnCompletedInv
<1>4. ASSUME NEW h \in Handlers, NEW t \in Tasks, NEW attempts \in 0..MaxAttempts,
             OnFailed(h, t, attempts)
      PROVE  IInv'
  BY <1>4, OnFailedInv
<1>5. ASSUME NEW h \in Handlers, Record(h) \/ Return(h) \/ Raise(h) PROVE IInv'
  BY <1>5, RecordInv, ReturnInv, RaiseInv
<1>6. CASE UNCHANGED vars
  <2>1. UNCHANGED <<nodes, deps, done, meta, reports, recorded, held, hpc,
                    hchild, edges, raises>>
    BY <1>6 DEF vars, graphVars, chainVars
  <2> QED
    BY <2>1, SameMeta DEF IInv, TypeOK, GraphTypeOK, Made, Acyclic, Linked, Audited,
       ChildrenCounted, OrphansCounted, OrphansBoundedByRaises, Orphans
<1> QED
  BY <1>1, <1>2, <1>3, <1>4, <1>5, <1>6 DEF Next

\* IInv holds in every reachable state of the chainer.
THEOREM ChainingInvariant == Spec => []IInv
  BY InitInv, NextInv, PTL DEF Spec

-----------------------------------------------------------------------------

\* add_dependency of graph.py: whatever clients and overlapping on_completed
\* and on_failed calls add, no tasks ever wait for each other.
THEOREM GraphStaysAcyclic == Spec => [](TypeOK /\ Acyclic)
<1>1. IInv => TypeOK /\ Acyclic
  BY DEF IInv
<1> QED
  BY <1>1, ChainingInvariant, PTL

\* on_completed and on_failed of chaining.py: chains stay within max_depth and
\* a task has at most one child per report, however reports are repeated.
THEOREM ChainsAreBounded == Spec => []ChainBounded
<1>1. IInv => ChainBounded
  <2> SUFFICES ASSUME IInv, NEW t \in Generated
               PROVE  LET p == meta[t].parent IN
                      /\ p \in Made /\ meta[t].root = meta[p].root
                      /\ meta[t].depth = meta[p].depth + 1
                      /\ meta[t].depth <= MaxDepth
                      /\ Cardinality(Children(p)) <= reports[p]
    BY DEF ChainBounded
  <2>1. meta[t].parent \in Tasks
    BY DEF IInv, Linked, Made
  <2> QED
    BY <2>1 DEF IInv, Linked, ChildrenCounted
<1> QED
  BY <1>1, ChainingInvariant, PTL

\* _link_and_record of chaining.py: what a caller gets is in the graph and in
\* the audit trail.
THEOREM HeldTasksAreRecorded == Spec => []HeldAreRecorded
<1>1. IInv => HeldAreRecorded
  BY DEF IInv, Audited, Linked, HeldAreRecorded
<1> QED
  BY <1>1, ChainingInvariant, PTL

\* _link_and_record of chaining.py: a generated task that no caller has or will
\* get is left behind by a call that raised, one by each at most.
THEOREM OrphansAreBounded == Spec => []OrphansBoundedByRaises
<1>1. IInv => OrphansBoundedByRaises
  BY DEF IInv, OrphansCounted
<1> QED
  BY <1>1, ChainingInvariant, PTL

\* ready of graph.py: a continuation or repair is not ready before the task it
\* was generated from is done.
THEOREM ReadyTasksFollowParents == Spec => []ReadyAfterParent
<1>1. IInv => ReadyAfterParent
  BY DEF IInv, Linked, ReadyAfterParent, Ready
<1> QED
  BY <1>1, ChainingInvariant, PTL
=============================================================================
