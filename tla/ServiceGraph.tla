------------------------------ MODULE ServiceGraph -------------------------------
(* The dependency graph of the service units and the GraphEvaluator: the index it  *)
(* reads unit by unit while units are registered and edges declared, Kahn's sort   *)
(* in one list and in parallel batches, and Tarjan's cycle search with an explicit *)
(* stack.  Unit ids are numbers in the order of their strings.  Kinds of edges and *)
(* manifests play no part in the algorithms and are left out.  ServicesSpec joins  *)
(* the evaluator and the unit state machine into the service graph runtime.        *)
EXTENDS ServiceUnits, Sequences, FiniteSetsExt, SequencesExt

CONSTANTS
    UnitIds,
    MaxEdges         \* bound on the edges declared

VARIABLES
    registered,      \* keys of units
    unstored,        \* unstored[u]: edges of u's manifest that register_unit has yet to store
    edges,           \* edges[u][v]: how often u is declared to depend on v
    index            \* load_dependency_index: [at, units, todo, edges]

graphVars == <<registered, unstored, edges, index>>

NoEdges == [u \in UnitIds |-> [v \in UnitIds |-> 0]]

IndexIdle == [at |-> "idle", units |-> {}, todo |-> {}, edges |-> NoEdges]

GraphInit ==
    /\ registered = {}
    /\ unstored = [u \in UnitIds |-> {}]
    /\ edges = NoEdges
    /\ index = IndexIdle

TotalOf(f) == FoldSet(LAMBDA v, n : n + f[v], 0, DOMAIN f)

EdgeTotal == FoldSet(LAMBDA u, n : n + TotalOf(edges[u]) + Cardinality(unstored[u]), 0, UnitIds)

\* register_unit: every target is registered, or the unit itself.
RegisterUnit(u, targets) ==
    /\ u \notin registered
    /\ targets \subseteq registered \cup {u}
    /\ EdgeTotal + Cardinality(targets) <= MaxEdges
    /\ registered' = registered \cup {u}
    /\ unstored' = [unstored EXCEPT ![u] = targets]
    /\ UNCHANGED <<edges, index>>

\* register_unit: the edges are stored after the lock on the units was dropped.
StoreManifestEdges(u) ==
    /\ unstored[u] # {}
    /\ edges' = [edges EXCEPT ![u] = [v \in UnitIds |-> IF v \in unstored[u] THEN @[v] + 1 ELSE @[v]]]
    /\ unstored' = [unstored EXCEPT ![u] = {}]
    /\ UNCHANGED <<registered, index>>

\* declare_dependency; nothing is ever unregistered, so check and push are one step.
DeclareDependency(u, v) ==
    /\ {u, v} \subseteq registered
    /\ EdgeTotal < MaxEdges
    /\ edges' = [edges EXCEPT ![u][v] = @ + 1]
    /\ UNCHANGED <<registered, unstored, index>>

\* load_dependency_index: list_units.
ListUnits ==
    /\ index.at = "idle"
    /\ index' = [index EXCEPT !.at = "edges", !.units = registered, !.todo = registered]
    /\ UNCHANGED <<registered, unstored, edges>>

\* load_dependency_index: list_dependencies of the next unit; an edge to a unit that
\* was registered since is an error.
ListDependencies ==
    LET u == Min(index.todo)
    IN  /\ index.at = "edges"
        /\ index.todo # {}
        /\ index' = IF \A v \in UnitIds : edges[u][v] > 0 => v \in index.units
                    THEN [index EXCEPT !.todo = @ \ {u}, !.edges[u] = edges[u]]
                    ELSE [IndexIdle EXCEPT !.at = "refused"]
        /\ UNCHANGED <<registered, unstored, edges>>

\* The evaluator answers from the index and drops it.
Answer ==
    /\ index.at = "refused" \/ (index.at = "edges" /\ index.todo = {})
    /\ index' = IndexIdle
    /\ UNCHANGED <<registered, unstored, edges>>

GraphNext ==
    \/ \E u \in UnitIds : \E targets \in SUBSET UnitIds : RegisterUnit(u, targets)
    \/ \E u \in UnitIds : StoreManifestEdges(u)
    \/ \E u, v \in UnitIds : DeclareDependency(u, v)
    \/ ListUnits
    \/ ListDependencies
    \/ Answer

--------------------------------------------------------------------------------
\* The evaluator's orders read no unit state and the state machine reads no edges, so
\* a behaviour of the runtime exercises one of the two, chosen at the start.
VARIABLE part

ServicesInit ==
    /\ UnitsInit /\ GraphInit
    /\ part \in {"units", "graph"}
    /\ part # "units" => \A u \in Units : desired[u] = "Running"

ServicesNext ==
    /\ \/ part = "units" /\ UnitsNext /\ UNCHANGED graphVars
       \/ part = "graph" /\ GraphNext /\ UNCHANGED unitVars
    /\ UNCHANGED part

ServicesSpec ==
    ServicesInit /\ [][ServicesNext]_<<unitVars, graphVars, part>> /\ UnitsFairness

--------------------------------------------------------------------------------
\* The algorithms, over the units and the edges of an index.

Sorted(S) == SetToSortSeq(S, <)

PrerequisiteCounts(E) == [u \in UnitIds |-> TotalOf(E[u])]

\* decrement_prerequisite_count once per dependent, however many edges it has.
DecrementOnce(counts, u, E) == [v \in UnitIds |-> IF E[v][u] > 0 THEN counts[v] - 1 ELSE counts[v]]

\* The decrements for the dependents of u: one per edge.
Decrement(counts, u, E) == [v \in UnitIds |-> counts[v] - E[v][u]]

\* The dependents of u that have no prerequisite left.
Freed(counts, u, E) == {v \in UnitIds : E[v][u] > 0 /\ counts[v] = 0}

\* topological_sort: the smallest ready unit first.
RECURSIVE SortFrom(_, _, _, _)
SortFrom(ready, counts, ordered, E) ==
    IF ready = {} THEN ordered
    ELSE LET u == Min(ready)
             left == Decrement(counts, u, E)
         IN  SortFrom((ready \ {u}) \cup Freed(left, u, E), left, Append(ordered, u), E)

ZeroPrerequisiteUnits(V, E) == {u \in V : PrerequisiteCounts(E)[u] = 0}

TopologicalSort(V, E) == SortFrom(ZeroPrerequisiteUnits(V, E), PrerequisiteCounts(E), <<>>, E)

\* identify_parallel_batches: the units that are ready together.
RECURSIVE BatchesFrom(_, _, _, _)
BatchesFrom(ready, counts, batches, E) ==
    IF ready = {} THEN batches
    ELSE LET left == FoldSet(LAMBDA u, c : Decrement(c, u, E), counts, ready)
             next == {v \in UnitIds : left[v] = 0 /\ \E u \in ready : E[v][u] > 0}
         IN  BatchesFrom(next, left, Append(batches, ready), E)

ParallelBatches(V, E) == BatchesFrom(ZeroPrerequisiteUnits(V, E), PrerequisiteCounts(E), <<>>, E)

\* push_tarjan_node.
PushNode(st, u) ==
    [st EXCEPT !.next = @ + 1, !.indexes[u] = st.next, !.low[u] = st.next,
               !.stack = Append(@, u), !.frames = Append(@, [node |-> u, left |-> st.adjacent[u]])]

\* lower_lowlink with the index of a neighbour that is on the stack.
LowerBack(st, u, v) ==
    IF \E i \in DOMAIN st.stack : st.stack[i] = v
    THEN [st EXCEPT !.low[u] = IF st.indexes[v] < @ THEN st.indexes[v] ELSE @]
    ELSE st

\* pop_component: down to the root.
PopComponent(st, root) ==
    LET at == CHOOSE i \in DOMAIN st.stack : st.stack[i] = root
    IN  [st EXCEPT !.stack = SubSeq(@, 1, at - 1),
                   !.components = @ \cup {{st.stack[i] : i \in at .. Len(st.stack)}}]

\* A frame whose neighbours are done.
LeaveFrame(st, u) ==
    LET popped == IF st.low[u] = st.indexes[u] THEN PopComponent(st, u) ELSE st
        rest == Front(st.frames)
    IN  IF rest = <<>> THEN [popped EXCEPT !.frames = rest]
        ELSE LET parent == Last(rest).node
             IN  [popped EXCEPT !.frames = rest,
                                !.low[parent] = IF st.low[u] < @ THEN st.low[u] ELSE @]

\* detect_cycles_in_index: the loop over the frames.
RECURSIVE Frames(_)
Frames(st) ==
    IF st.frames = <<>> THEN st
    ELSE LET top == Last(st.frames)
         IN  IF top.left = <<>> THEN Frames(LeaveFrame(st, top.node))
             ELSE LET v == Head(top.left)
                      taken == [st EXCEPT !.frames[Len(st.frames)].left = Tail(top.left)]
                  IN  IF st.indexes[v] = 0 THEN Frames(PushNode(taken, v))
                      ELSE Frames(LowerBack(taken, top.node, v))

\* detect_cycles_in_index: the components of two units or more, and the self loops.
\* Repeated edges to a neighbour change nothing and are taken once.
DetectCycles(V, E) ==
    LET start == [next |-> 1, indexes |-> [u \in UnitIds |-> 0], low |-> [u \in UnitIds |-> 0],
                  stack |-> <<>>, frames |-> <<>>, components |-> {},
                  adjacent |-> [u \in UnitIds |-> Sorted({v \in UnitIds : E[u][v] > 0})]]
        final == FoldLeft(LAMBDA st, u : IF st.indexes[u] = 0 THEN Frames(PushNode(st, u)) ELSE st,
                          start, Sorted(V))
    IN  {c \in final.components : Cardinality(c) >= 2 \/ \E u \in c : E[u][u] > 0}

--------------------------------------------------------------------------------
\* References: reachability over at least one edge, and what it says of an order.

RECURSIVE ReachedIn(_, _, _)
ReachedIn(u, n, E) ==
    IF n = 0 THEN {}
    ELSE LET direct == {v \in UnitIds : E[u][v] > 0}
         IN  direct \cup UNION {ReachedIn(v, n - 1, E) : v \in direct}

Reaches(u, v, E) == v \in ReachedIn(u, Cardinality(UnitIds), E)

Acyclic(E) == \A u \in UnitIds : ~Reaches(u, u, E)

Complete == index.at = "edges" /\ index.todo = {}

\* topological_sort lists every unit after the units it depends on exactly when the
\* dependencies it read have no cycle, and otherwise comes short; edges declared twice
\* and edges declared while the index was read make no difference.
SortIsTopological ==
    Complete =>
        LET order == TopologicalSort(index.units, index.edges)
            place(u) == CHOOSE i \in DOMAIN order : order[i] = u
        IN  /\ IsInjective(order)
            /\ Len(order) = Cardinality(index.units) <=> Acyclic(index.edges)
            /\ Acyclic(index.edges) =>
                 \A u, v \in index.units : index.edges[u][v] > 0 => place(v) < place(u)

\* identify_parallel_batches puts every unit in the earliest batch that its
\* dependencies allow: after all of them, and just after one unless it has none.
BatchesAreEarliest ==
    Complete /\ Acyclic(index.edges) =>
        LET batches == ParallelBatches(index.units, index.edges)
            place(u) == CHOOSE i \in DOMAIN batches : u \in batches[i]
        IN  /\ UNION {batches[i] : i \in DOMAIN batches} = index.units
            /\ \A u \in index.units :
                 place(u) = 1 + Max({0} \cup {place(v) : v \in {w \in UnitIds : index.edges[u][w] > 0}})

\* detect_cycles reports exactly the classes of units that reach themselves through
\* each other.
CyclesAreExact ==
    Complete =>
        DetectCycles(index.units, index.edges)
            = {{v \in UnitIds : Reaches(u, v, index.edges) /\ Reaches(v, u, index.edges)} :
                 u \in {w \in index.units : Reaches(w, w, index.edges)}}

\* The evaluator's three answers about one index are right: start order, parallel
\* batches and cycles (topological_sort, identify_parallel_batches, detect_cycles).
PlansSound == SortIsTopological /\ BatchesAreEarliest /\ CyclesAreExact
================================================================================
