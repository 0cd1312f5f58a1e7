---------------------------- MODULE TaskChaining ----------------------------
(***************************************************************************)
(* TaskChainer of orchestration/chaining.py: on_completed and on_failed,   *)
(* called concurrently and possibly more than once for a task, extend the  *)
(* graph at once, then await the store and the event bus, and only then    *)
(* hand the new task to their caller. Clients add dependencies of their    *)
(* own through TaskChainer.graph.                                          *)
(***************************************************************************)
EXTENDS TaskGraph

CONSTANTS
  Heads,         \* first parts of task types
  Continuation,  \* ChainPolicy.continuation
  MaxDepth,      \* ChainPolicy.max_depth
  MaxAttempts,   \* Task.max_attempts, the same for a whole chain
  Handlers,      \* calls that may overlap
  MaxReports,    \* bound on the outcomes reported of one task
  MaxEdges,      \* bound on the clients' own dependencies
  MaxRaises,     \* bound on store or bus calls that raise
  NoTask

ASSUME TasksAssumption == IsFiniteSet(Tasks) /\ NoTask \notin Tasks
ASSUME PolicyAssumption ==
  /\ "repair" \in Heads
  /\ DOMAIN Continuation \subseteq Heads
  /\ \A head \in DOMAIN Continuation : Continuation[head] \in Heads
  /\ MaxDepth \in Nat
  /\ MaxAttempts \in Nat
ASSUME BoundsAssumption ==
  MaxReports \in Nat /\ MaxEdges \in Nat /\ MaxRaises \in Nat

VARIABLES
  meta,      \* meta[t]: type and chain metadata of a task, NoMeta before it is made
  reports,   \* outcomes reported of each task
  recorded,  \* the tasks in the ChainStore
  held,      \* the tasks clients have: submitted, or returned by a handler
  hpc,       \* the call a handler awaits, "idle" outside
  hchild,    \* its child
  edges,     \* dependencies added by clients
  raises     \* calls that raised

chainVars == <<meta, reports, recorded, held, hpc, hchild, edges, raises>>
vars == <<graphVars, chainVars>>

NoMeta == [head |-> "", root |-> NoTask, parent |-> NoTask, depth |-> 0]

Meta == [head : Heads, root : Tasks, parent : Tasks \cup {NoTask}, depth : Nat]

Made == {t \in Tasks : meta[t] # NoMeta}

Init ==
  /\ nodes = {}
  /\ deps = [t \in Tasks |-> {}]
  /\ done = {}
  /\ meta = [t \in Tasks |-> NoMeta]
  /\ reports = [t \in Tasks |-> 0]
  /\ recorded = {}
  /\ held = {}
  /\ hpc = [h \in Handlers |-> "idle"]
  /\ hchild = [h \in Handlers |-> NoTask]
  /\ edges = 0
  /\ raises = 0

\* A client makes a task that belongs to no chain: chain_meta takes it as the
\* root of one.
Submit(t, head) ==
  /\ t \notin Made
  /\ meta' = [meta EXCEPT ![t] = [head |-> head, root |-> t,
                                  parent |-> NoTask, depth |-> 0]]
  /\ held' = held \cup {t}
  /\ UNCHANGED <<graphVars, reports, recorded, hpc, hchild, edges, raises>>

\* A client calls TaskChainer.graph.add_dependency.
Require(t, u) ==
  /\ edges < MaxEdges
  /\ edges' = edges + 1
  /\ AddDependency(t, u)
  /\ UNCHANGED <<done, meta, reports, recorded, held, hpc, hchild, raises>>

\* _make_child
ChildMeta(t, head) ==
  [head |-> head, root |-> meta[t].root, parent |-> t,
   depth |-> meta[t].depth + 1]

\* Mutants of Generate: the dependency is added the wrong way round; the event
\* is sent without a record.
GenerateReversed(h, t, head) ==
  \E child \in Tasks \ Made :
    /\ meta' = [meta EXCEPT ![child] = ChildMeta(t, head)]
    /\ AddDependency(t, child)
    /\ hpc' = [hpc EXCEPT ![h] = "recording"]
    /\ hchild' = [hchild EXCEPT ![h] = child]

GenerateUnrecorded(h, t, head) ==
  \E child \in Tasks \ Made :
    /\ meta' = [meta EXCEPT ![child] = ChildMeta(t, head)]
    /\ AddDependency(child, t)
    /\ hpc' = [hpc EXCEPT ![h] = "emitting"]
    /\ hchild' = [hchild EXCEPT ![h] = child]

\* The child is made and linked; the handler awaits the store.
Generate(h, t, head) ==
  \E child \in Tasks \ Made :
    /\ meta' = [meta EXCEPT ![child] = ChildMeta(t, head)]
    /\ AddDependency(child, t)
    /\ hpc' = [hpc EXCEPT ![h] = "recording"]
    /\ hchild' = [hchild EXCEPT ![h] = child]

\* Nothing is generated: the stage is terminal, the depth reached or the
\* attempts exhausted. The event that says so changes nothing here.
GenerateNothing(t) ==
  /\ nodes' = nodes \cup {t}
  /\ UNCHANGED <<deps, meta, hpc, hchild>>

Report(h, t) ==
  /\ hpc[h] = "idle"
  /\ t \in held
  /\ reports[t] < MaxReports
  /\ reports' = [reports EXCEPT ![t] = @ + 1]
  /\ UNCHANGED <<recorded, held, edges, raises>>

\* Mutant of TooDeep: the child's depth is not what is compared.
TooDeepOffByOne(t) == meta[t].depth > MaxDepth

TooDeep(t) == meta[t].depth + 1 > MaxDepth

\* ChainPolicy.next_head, which is None for a terminal stage
HasNext(t) == meta[t].head \in DOMAIN Continuation

NextHead(t) == Continuation[meta[t].head]

OnCompleted(h, t) ==
  /\ Report(h, t)
  /\ done' = done \cup {t}
  /\ IF HasNext(t) /\ ~TooDeep(t)
     THEN Generate(h, t, NextHead(t))
     ELSE GenerateNothing(t)

OnFailed(h, t, attempts) ==
  /\ Report(h, t)
  /\ UNCHANGED done
  /\ IF attempts < MaxAttempts /\ ~TooDeep(t)
     THEN Generate(h, t, "repair")
     ELSE GenerateNothing(t)

\* The store has the child; the event is sent next.
Record(h) ==
  /\ hpc[h] = "recording"
  /\ recorded' = recorded \cup {hchild[h]}
  /\ hpc' = [hpc EXCEPT ![h] = "emitting"]
  /\ UNCHANGED <<graphVars, meta, reports, held, hchild, edges, raises>>

\* Mutant of Return: the handler returns no task.
ReturnNothing(h) ==
  /\ hpc[h] = "emitting"
  /\ hpc' = [hpc EXCEPT ![h] = "idle"]
  /\ hchild' = [hchild EXCEPT ![h] = NoTask]
  /\ UNCHANGED <<graphVars, meta, reports, recorded, held, edges, raises>>

Return(h) ==
  /\ hpc[h] = "emitting"
  /\ held' = held \cup {hchild[h]}
  /\ hpc' = [hpc EXCEPT ![h] = "idle"]
  /\ hchild' = [hchild EXCEPT ![h] = NoTask]
  /\ UNCHANGED <<graphVars, meta, reports, recorded, edges, raises>>

\* The store or the bus raises: the caller gets the exception and no task.
Raise(h) ==
  /\ hpc[h] # "idle"
  /\ raises < MaxRaises
  /\ raises' = raises + 1
  /\ hpc' = [hpc EXCEPT ![h] = "idle"]
  /\ hchild' = [hchild EXCEPT ![h] = NoTask]
  /\ UNCHANGED <<graphVars, meta, reports, recorded, held, edges>>

Next ==
  \/ \E t \in Tasks, head \in Heads : Submit(t, head)
  \/ \E t, u \in held : Require(t, u)
  \/ \E h \in Handlers :
       \/ \E t \in Tasks : OnCompleted(h, t)
       \/ \E t \in Tasks, attempts \in 0..MaxAttempts : OnFailed(h, t, attempts)
       \/ Record(h) \/ Return(h) \/ Raise(h)

Spec == Init /\ [][Next]_vars

-----------------------------------------------------------------------------

TypeOK ==
  /\ GraphTypeOK
  /\ meta \in [Tasks -> Meta \cup {NoMeta}]
  /\ reports \in [Tasks -> Nat]
  /\ recorded \subseteq Made
  /\ held \subseteq Made
  /\ nodes \subseteq Made
  /\ hpc \in [Handlers -> {"idle", "recording", "emitting"}]
  /\ hchild \in [Handlers -> Tasks \cup {NoTask}]
  /\ \A h \in Handlers : IF hpc[h] = "idle" THEN hchild[h] = NoTask
                                           ELSE hchild[h] \in Made
  /\ edges \in Nat
  /\ raises \in Nat

Generated == {t \in Made : meta[t].parent # NoTask}

Children(p) == {u \in Generated : meta[u].parent = p}

\* A generated task belongs to the chain of its parent, one deeper and never
\* deeper than max_depth, and a parent has at most one child per reported
\* outcome: chains cannot run for ever, and repeated reports widen them only
\* by what is reported.
ChainBounded ==
  \A t \in Generated :
    LET p == meta[t].parent IN
    /\ p \in Made /\ meta[t].root = meta[p].root
    /\ meta[t].depth = meta[p].depth + 1 /\ meta[t].depth <= MaxDepth
    /\ Cardinality(Children(p)) <= reports[p]

\* No client has a generated task that is missing in the audit trail or in the
\* graph, even if calls overlap or raise.
HeldAreRecorded ==
  \A t \in held \cap Generated : t \in recorded /\ t \in nodes

\* Tasks that are in the graph and that nobody has or will get: one per call
\* that raised at most.
Orphans == Generated \ (held \cup {hchild[h] : h \in Handlers})

OrphansBoundedByRaises == Cardinality(Orphans) <= raises

\* A generated task is ready only once the task it continues, or repairs, is
\* done: the repair of a task that never completes is never ready.
ReadyAfterParent == \A t \in Ready \cap Generated : meta[t].parent \in done
=============================================================================
