--------------------------- MODULE Classification ---------------------------
(***************************************************************************)
(* Classification of the atomic concepts of a nondeterministic ontology:   *)
(* QuasiOrderClassification (quasi_order.rs) with its streaming pipelines. *)
(* The leaf-node strategy builds a model per concept, upwards from the     *)
(* leaves of the told hierarchy, and reads known and possible subsumers    *)
(* off it; the resolution phase tests the possible subsumers that are left *)
(* in workers that see a snapshot of the graphs; the known graph becomes   *)
(* the hierarchy (hierarchy.rs).                                           *)
(*                                                                         *)
(* The tableau is external here (modules Calculus and TestTableau): an     *)
(* ontology is the set of labels that a node of a model may carry, and a   *)
(* test may return any read-off that the ontology allows.  How tasks get   *)
(* to the workers and back is module WorkerPool: here a result arrives at  *)
(* any time after its dispatch, and worklists are sets, since the code     *)
(* fills them from hash sets.  A resolution worker shares nothing with the *)
(* coordinator until its delta is harvested, so its steps are taken then.  *)
(***************************************************************************)
EXTENDS Naturals, FiniteSets

CONSTANTS
    Named,          \* the concepts to be classified, besides
    Top, Bottom,    \* owl:Thing and owl:Nothing
    Inputs,         \* [types, told] records
    Workers,        \* number of workers
    MaxInterrupts   \* bound on the tests that are interrupted

Elements == Named \cup {Top, Bottom}

Input == [types : SUBSET SUBSET (Elements \ {Bottom}),
          told : SUBSET (Elements \X Elements)]

\* The concepts that hold wherever c does.
TrueSubsumers(in, c) ==
    {d \in Elements : d \in {c, Top} \/ \A t \in in.types : c \in t \cup {Top} => d \in t}

\* owl:Thing is on every node or, when no clause asks for it, on none; and then a
\* node may carry no concept at all.
ASSUME InputsAssumption ==
    /\ Top # Bottom /\ {Top, Bottom} \cap Named = {} /\ IsFiniteSet(Named)
    /\ Inputs \subseteq Input
    /\ \A in \in Inputs :
          /\ in.types # {}
          /\ \/ \A t \in in.types : Top \in t
             \/ {} \in in.types /\ \A t \in in.types : Top \notin t
          /\ \A p \in in.told : p[2] \in TrueSubsumers(in, p[1])
    /\ Workers \in Nat \ {0} /\ MaxInterrupts \in Nat

VARIABLES
    input,
    known,            \* known_subsumptions
    possible,         \* possible_subsumptions
    told,             \* the hierarchy of the told subsumers,
    representative,   \* ... its nodes' representatives,
    toProcess,        \* ... its nodes waiting for their model,
    inFlight,         \* ... nodes whose model is being built
    unsatNodes,       \* ... and nodes found unsatisfiable
    unclassified,     \* elements the resolution has still to look at
    tasks,            \* resolution tasks in flight, snapshot included
    resolver,         \* {} or {the state of the worker whose task is being resolved}
    phase,            \* leaf, resolve, done
    hierarchy,        \* {} or {the result}
    interrupts

graphs   == <<known, possible>>
leafVars == <<told, representative, toProcess, inFlight, unsatNodes>>
resolveVars == <<unclassified, tasks, resolver>>
classVars == <<input, graphs, leafVars, resolveVars, phase, hierarchy, interrupts>>

-----------------------------------------------------------------------------
(* Graphs and hierarchies.                                                 *)

\* get_reachable_successors, which includes the start.
Reachable(graph, c) ==
    LET Step(S) == S \cup UNION {graph[x] : x \in S}
        within[n \in Nat] == IF n = 0 THEN {c} ELSE Step(within[n - 1])
    IN  within[Cardinality(DOMAIN graph)]

AllKnownSubsumers(c) == Reachable(known, c)

\* The subsumer graph a hierarchy is built from.
Extended(graph, elements) ==
    [e \in elements |-> IF e = Bottom THEN elements ELSE graph[e] \cup {Top, e}]

\* The strongly connected components, with the transitive reduction of the order
\* between them.
BuildHierarchy(subsumers) ==
    LET above == [e \in DOMAIN subsumers |-> Reachable(subsumers, e)]
        node == [e \in DOMAIN subsumers |-> {d \in above[e] : e \in above[d]}]
        Above(n) == {node[d] : d \in UNION {above[e] : e \in n} \ n}
        nodes == {node[e] : e \in DOMAIN subsumers}
    IN  [nodes |-> nodes,
         parents |-> [n \in nodes |-> {m \in Above(n) : ~\E o \in Above(n) : m \in Above(o)}]]

Children(h, n) == {m \in h.nodes : n \in h.parents[m]}

NodeOf(h, e) == CHOOSE n \in h.nodes : e \in n

Descendants(h, n) == Reachable([m \in h.nodes |-> Children(h, m)], n) \ {n}

\* The known graph at the start: the told subsumers, and bottom.
ToldGraph(in) ==
    [c \in Elements |-> {d \in Elements : <<c, d>> \in in.told \cup {<<Bottom, Bottom>>}}]

IsUnsatisfiable(c) == Bottom \in known[c]

HasBeenProcessed(c) == possible[c] # {} \/ IsUnsatisfiable(c)

-----------------------------------------------------------------------------
(* The tableau tests.                                                      *)

\* The labels the root of a model for c may carry.
RootLabels(c) == {t \cup {c} : t \in {t \in input.types : c \in t \cup {Top}}}

\* Mutant: what the root carries by choice counts as known.
ReadOffsMutant(c, root) ==
    [known : SUBSET root,
     labels : {{root} \cup others : others \in SUBSET (input.types \ {{}})}]

\* A model with the given root label: what is read off the root with an empty
\* dependency set, and the nonempty labels of all its nodes.
ReadOffs(c, root) ==
    [known : SUBSET (TrueSubsumers(input, c) \cap root),
     labels : {{root} \cup others : others \in SUBSET (input.types \ {{}})}]

BuildModel(c) == UNION {ReadOffs(c, root) : root \in RootLabels(c)}

\* The read-offs that show picked is not subsumed by e.
Witnesses(picked, e) ==
    UNION {ReadOffs(picked, root) : root \in {r \in RootLabels(picked) : e \notin r \cup {Top}}}

SubsumedByUnion(picked, candidates) ==
    \A root \in RootLabels(picked) : (root \cup {Top}) \cap candidates # {}

-----------------------------------------------------------------------------
(* The leaf-node strategy.                                                 *)

ClassInit ==
    /\ input \in Inputs
    /\ known = ToldGraph(input)
    /\ possible = [c \in Elements |-> {}]
    /\ told = BuildHierarchy(Extended(known, Elements))
    /\ representative \in
           {r \in [told.nodes -> Elements] :
               \A n \in told.nodes :
                   r[n] \in n /\ \A e \in {Top, Bottom} : e \in n => r[n] = e}
    /\ toProcess = told.parents[NodeOf(told, Bottom)]
    /\ inFlight = {} /\ unsatNodes = {}
    /\ unclassified = {} /\ tasks = {} /\ resolver = {}
    /\ phase = "leaf" /\ hierarchy = {} /\ interrupts = 0

Dispatch(n) ==
    /\ phase = "leaf" /\ Cardinality(inFlight) < Workers
    /\ n \in toProcess
    /\ toProcess' = toProcess \ {n}
    /\ inFlight' = IF HasBeenProcessed(representative[n]) THEN inFlight ELSE inFlight \cup {n}
    /\ UNCHANGED <<input, graphs, told, representative, unsatNodes, resolveVars, phase, hierarchy,
                   interrupts>>

\* A concept processed while its own model was being built: the model is dropped.
DropStale(n) ==
    /\ n \in inFlight
    /\ HasBeenProcessed(representative[n])
    /\ inFlight' = inFlight \ {n}
    /\ UNCHANGED <<input, graphs, told, representative, toProcess, unsatNodes, resolveVars, phase,
                   hierarchy, interrupts>>

\* No model: the concept and all below it are unsatisfiable, and the parents that
\* this leaves without a model are to be processed.
MakeUnsatisfiable(n) ==
    LET below == Descendants(told, n) \ unsatNodes
        now == {representative[m] : m \in below \cup {n}}
    IN  /\ unsatNodes' = unsatNodes \cup below \cup {n}
        /\ known' = [c \in Elements |-> IF c \in now THEN known[c] \cup {Bottom} ELSE known[c]]
        /\ possible' = [c \in Elements |-> IF c \in now THEN {} ELSE possible[c]]
        /\ toProcess' =
               (toProcess \cup told.parents[n] \cup
                  {p \in UNION {told.parents[m] : m \in below} :
                      possible'[representative[p]] = {} /\ Bottom \notin known'[representative[p]]})
               \ below

\* A build returns no model when the concept has none, or when it was interrupted.
HarvestUnsatisfiable(n) ==
    /\ n \in inFlight
    /\ ~HasBeenProcessed(representative[n])
    /\ \/ RootLabels(representative[n]) = {} /\ UNCHANGED interrupts
       \/ interrupts < MaxInterrupts /\ interrupts' = interrupts + 1
    /\ MakeUnsatisfiable(n)
    /\ inFlight' = inFlight \ {n}
    /\ UNCHANGED <<input, told, representative, resolveVars, phase, hierarchy>>

\* update_possible_subsumers: a concept met for the first time takes the label.
UpdatePossibleSubsumers(labels) ==
    possible' = [c \in Elements |->
        LET with == {l \in labels : c \in l}
        IN  IF with = {} THEN possible[c]
            ELSE {d \in Elements :
                    /\ \A l \in with : d \in l
                    /\ possible[c] = {} \/ d \in possible[c]}]

HarvestModel(n) ==
    /\ n \in inFlight
    /\ ~HasBeenProcessed(representative[n])
    /\ \E model \in BuildModel(representative[n]) :
          /\ known' = [known EXCEPT ![representative[n]] = @ \cup model.known \cup {Top}]
          /\ UpdatePossibleSubsumers(model.labels)
    /\ inFlight' = inFlight \ {n}
    /\ UNCHANGED <<input, told, representative, toProcess, unsatNodes, resolveVars, phase, hierarchy,
                   interrupts>>

\* The possible subsumers that are not known are left to the resolution.
LeafDone ==
    /\ phase = "leaf" /\ toProcess = {} /\ inFlight = {}
    /\ possible' = [c \in Elements |->
           IF IsUnsatisfiable(c) THEN possible[c] ELSE possible[c] \ AllKnownSubsumers(c)]
    /\ unclassified' = {c \in Elements : ~IsUnsatisfiable(c) /\ possible'[c] # {}}
    /\ phase' = "resolve"
    /\ UNCHANGED <<input, known, leafVars, tasks, resolver, hierarchy, interrupts>>

-----------------------------------------------------------------------------
(* The resolution of the possible subsumptions.                            *)

\* The next element: what has become known is no longer asked, and the rest is
\* handed out with a snapshot of the known graph.
DispatchTask(c) ==
    /\ phase = "resolve" /\ Cardinality(tasks) < Workers /\ resolver = {}
    /\ c \in unclassified
    /\ unclassified' = unclassified \ {c}
    /\ possible' = [possible EXCEPT ![c] = @ \ AllKnownSubsumers(c)]
    /\ tasks' = IF possible'[c] = {} THEN tasks
                ELSE tasks \cup {[picked |-> c, unknown |-> possible'[c],
                                  knownMap |-> [e \in possible'[c] \cup {c} |->
                                                   AllKnownSubsumers(e)]]}
    /\ UNCHANGED <<input, known, leafVars, resolver, phase, hierarchy, interrupts>>

\* add_known for all of new, closed under the snapshot.  The code leaves out an
\* edge that the closure of one added before makes redundant.
AddKnown(r, new) ==
    [r EXCEPT !.known = @ \cup new
                          \cup UNION {r.knownMap[e] : e \in new \cap DOMAIN r.knownMap},
              !.newKnowns = @ \cup (new \ r.known)]

\* build_small_hierarchy
SmallHierarchy(unknown, knownMap) ==
    LET elements == unknown \cup {Top, Bottom}
    IN  BuildHierarchy(Extended(
            [e \in elements |-> IF e \in unknown THEN knownMap[e] \cap unknown ELSE {}],
            elements))

BeginTraversal(r) ==
    IF r.possible = {}
    THEN [r EXCEPT !.status = "delta"]
    ELSE LET small == SmallHierarchy(r.possible, r.knownMap)
         IN  [r EXCEPT !.status = "traverse", !.small = {small},
                       !.reached = {NodeOf(small, Top)}, !.visited = {NodeOf(small, Top)}]

\* A worker resolves a task while the coordinator, its pipeline full, waits.
Resolve(task) ==
    /\ resolver = {}
    /\ Cardinality(tasks) = Workers \/ unclassified = {}
    /\ task \in tasks
    /\ resolver' = {[picked |-> task.picked, knownMap |-> task.knownMap,
                     known |-> task.knownMap[task.picked], possible |-> task.unknown,
                     newKnowns |-> {}, labels |-> {}, status |-> "union",
                     small |-> {}, reached |-> {}, visited |-> {}]}
    /\ tasks' = tasks \ {task}
    /\ UNCHANGED <<input, graphs, leafVars, unclassified, phase, hierarchy, interrupts>>

\* is_subsumed_by_union, for three to six candidates.  An interrupted test counts
\* as subsumed.
UnionTest ==
    /\ \E r \in resolver :
          /\ r.status = "union"
          /\ IF Cardinality(r.possible) \in 3 .. 6
             THEN \/ /\ ~SubsumedByUnion(r.picked, r.possible)
                     /\ resolver' = {[r EXCEPT !.status = "delta"]}
                     /\ UNCHANGED interrupts
                  \/ /\ \/ SubsumedByUnion(r.picked, r.possible) /\ UNCHANGED interrupts
                        \/ interrupts < MaxInterrupts /\ interrupts' = interrupts + 1
                     /\ \E new \in SUBSET TrueSubsumers(input, r.picked) :
                           LET s == AddKnown(r, new)
                           IN  resolver' = {BeginTraversal([s EXCEPT !.possible = @ \ s.known])}
             ELSE resolver' = {BeginTraversal(r)} /\ UNCHANGED interrupts
    /\ UNCHANGED <<input, graphs, leafVars, unclassified, tasks, phase, hierarchy>>

\* The nodes the traversal may visit next.
Frontier(r) ==
    UNION {{m \in small.nodes : m \notin r.visited /\ small.parents[m] \cap r.reached # {}} :
              small \in r.small}

Visited(r, n) == [r EXCEPT !.visited = @ \cup {n}]

Subsumes(r, n) == [Visited(AddKnown(r, n), n) EXCEPT !.reached = @ \cup {n}]

\* Mutant: labels of nodes without picked prune too.
WithReadOffMutant(r, w) ==
    LET s == AddKnown(r, w.known)
    IN  [s EXCEPT !.possible = {d \in @ : \A l \in w.labels : d \in l} \ s.known,
                  !.labels = @ \cup w.labels]

\* A witness against e: its root's known subsumers, and its labels.
WithReadOff(r, w) ==
    LET s == AddKnown(r, w.known)
    IN  [s EXCEPT !.possible = {d \in @ : \A l \in w.labels : r.picked \in l => d \in l} \ s.known,
                  !.labels = @ \cup w.labels]

\* does_subsume_with_read_off on e, the representative of n.  An interrupted test
\* counts as subsumed.
TestNode(r, n, e) ==
    \/ /\ e \in r.known
       /\ resolver' = {Subsumes(r, n)} /\ UNCHANGED interrupts
    \/ /\ e \notin r.known /\ e \notin r.possible
       /\ resolver' = {Visited(r, n)} /\ UNCHANGED interrupts
    \/ /\ e \notin r.known /\ e \in r.possible
       /\ \/ /\ \/ e \in TrueSubsumers(input, r.picked) /\ UNCHANGED interrupts
                \/ interrupts < MaxInterrupts /\ interrupts' = interrupts + 1
             /\ resolver' = {Subsumes(r, n)}
          \/ /\ \E w \in Witnesses(r.picked, e) : resolver' = {Visited(WithReadOff(r, w), n)}
             /\ UNCHANGED interrupts

Traverse ==
    /\ \E r \in resolver :
          /\ r.status = "traverse"
          /\ \/ \E n \in Frontier(r) : \E e \in n :
                   /\ Bottom \in n => e = Bottom
                   /\ TestNode(r, n, e)
             \/ /\ Frontier(r) = {}
                /\ resolver' = {[r EXCEPT !.status = "delta"]}
                /\ UNCHANGED interrupts
    /\ UNCHANGED <<input, graphs, leafVars, unclassified, tasks, phase, hierarchy>>

\* harvest_resolve_delta: what was found about picked, then the labels' prunes of
\* every element's possible subsumers; picked is done.
HarvestDelta ==
    \E r \in resolver :
        /\ r.status = "delta"
        /\ known' = [known EXCEPT ![r.picked] = @ \cup r.newKnowns]
        /\ possible' = [c \in Elements |->
               IF c = r.picked THEN {}
               ELSE {d \in possible[c] : \A l \in r.labels : c \in l => d \in l}]
        /\ resolver' = {}
        /\ UNCHANGED <<input, leafVars, unclassified, tasks, phase, hierarchy, interrupts>>

\* Mutant: tasks in flight are not waited for.
ResolvedMutant ==
    /\ phase = "resolve" /\ unclassified = {}
    /\ hierarchy' = {BuildHierarchy(Extended(known, Elements))}
    /\ phase' = "done"
    /\ UNCHANGED <<input, graphs, leafVars, resolveVars, interrupts>>

Resolved ==
    /\ phase = "resolve" /\ unclassified = {} /\ tasks = {} /\ resolver = {}
    /\ hierarchy' = {BuildHierarchy(Extended(known, Elements))}
    /\ phase' = "done"
    /\ UNCHANGED <<input, graphs, leafVars, resolveVars, interrupts>>

ClassStep ==
    \/ \E n \in told.nodes :
          Dispatch(n) \/ DropStale(n) \/ HarvestUnsatisfiable(n) \/ HarvestModel(n)
    \/ LeafDone
    \/ \E c \in Elements : DispatchTask(c)
    \/ \E task \in tasks : Resolve(task)
    \/ UnionTest \/ Traverse \/ HarvestDelta \/ Resolved

Classified == phase = "done" /\ UNCHANGED classVars

ClassNext == ClassStep \/ Classified

\* The coordinator goes on as long as results arrive, and every build ends.
ClassSpec == ClassInit /\ [][ClassNext]_classVars /\ WF_classVars(ClassStep)

-----------------------------------------------------------------------------
(* Properties.                                                             *)

\* A known subsumption holds, as long as no test was interrupted: none is read off a
\* model whose root only happens to carry the concept, and none is taken from another
\* element's snapshot.
KnownSound == interrupts = 0 => \A c \in Elements : known[c] \subseteq TrueSubsumers(input, c)

\* The subsumers the hierarchy would give c if it were built now.
SubsumersNow(c) == Reachable(Extended(known, Elements), c)

Retained ==
    \A c \in Elements : TrueSubsumers(input, c) \subseteq SubsumersNow(c) \cup possible[c]

\* From the end of the leaf-node strategy on every subsumption is known or still
\* possible: no concept was left without a model, whatever builds were dropped as
\* stale, and no pruning by another concept's labels and no snapshot loses one.  A
\* build that was interrupted counts as one that found no model, so the strategy
\* errs towards too many subsumers: it loses nothing by interrupts either.
NothingLost ==
    /\ phase # "leaf" /\ interrupts = 0 => Retained
    /\ phase = "leaf" /\ toProcess = {} /\ inFlight = {} => Retained

Ancestors(h, n) == Reachable(h.parents, n)

\* The hierarchy is the subsumption order, whatever the order in which results
\* arrived, if no test was interrupted: what is above a concept's node is what
\* subsumes it.
HierarchyCorrect ==
    interrupts = 0 => \A h \in hierarchy : \A c, d \in Elements :
        NodeOf(h, d) \in Ancestors(h, NodeOf(h, c)) <=> d \in TrueSubsumers(input, c)

\* A concept is sent to bottom only if it has no model.
UnsatisfiableOnlyIfSo ==
    \A c \in Elements : IsUnsatisfiable(c) => Bottom \in TrueSubsumers(input, c)

=============================================================================
