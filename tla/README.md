# hermit-rs in TLA+

A TLA+ development of hermit-rs, the Rust port of the HermiT OWL 2 reasoner. It
covers the path of an ontology through the reasoner: normalization, role automata
and clausification; the tableau with its calculus, nodes, dependency sets, blocking
and datatype check; the tests that reuse it, their cancelling and the worker pools;
classification, realization, queries, explanations, the datalog engine and the
incremental reasoner. Small instances are checked with TLC. For the calculus, the
tests on the reused tableau, dependency sets, interruption, the matching of the
datatype check, the worker pools and the search for explanations the central results
are proved with TLAPS for every instance.

Paths are relative to `src/src/`. `PROJECT.json` maps each definition to the lines
it stands for, and lists the hazards of the code line by line.

## 1. The system and its modules

The front end loads an ontology. The structural phase turns its axioms into DL
clauses and facts. A tableau decides whether they have a model: it derives facts,
creates, merges and blocks nodes, branches on disjunctions, and on a clash jumps
back to the newest choice that the clash depends on. The reasoner reuses one tableau
for test after test. Classification puts such tests to worker threads and merges
what they read off; realization places individuals in the hierarchy; queries,
entailment checks and explanations rest on both. A handle held by another thread,
or a timeout, cancels a running task.

| part | code | modules |
|---|---|---|
| calculus | `reasoner.rs` (`run_calculus`, `do_iteration`), `tableau/branching.rs`, `tableau/extension_table.rs`, `tableau/extension_manager.rs`, `tableau/dl_clause_evaluator.rs` | `Calculus`, `CalculusProofs`, `CalculusModel` |
| per-test tableau | `reasoner.rs` (`checkout_test_tableau`, `run_test`, the subsumption tests) | `TestTableau`, implementing `SubsumptionTests`; `CheckpointProofs`, `TestTableauProofs` |
| interruption | `tableau/interrupt_flag.rs`, `tableau/tableau.rs`, the polls | `Interruption`, `ThreadProofs` |
| worker pools | `reasoner.rs` (`ConceptStreamingPool`, `ConceptResolutionPool`), `quasi_order.rs` | `WorkerPool`, `ThreadProofs` |
| classification | `quasi_order.rs` | `Classification` |
| hierarchies | `hierarchy.rs`, `graph.rs` | `Hierarchies` |
| nodes, merging, pruning, individual reuse, nominal introduction | `tableau/tableau.rs`, `tableau/merging_manager.rs`, `tableau/branching.rs`, `tableau/existential_expansion.rs` | `Nodes` |
| dependency sets | `tableau/dependency_set.rs` and the holders of sets | `DependencySets`, `DependencySetsProofs` |
| blocking and expansion | `tableau/blocking_strategy.rs`, `tableau/blocking_validator.rs`, `tableau/existential_expansion.rs` | `Blocking`, `BlockingValidator` |
| description graphs | `tableau/description_graph_manager.rs` | `DescriptionGraphs` |
| datatype check | `tableau/datatype_manager.rs` | `DataAssignments`, `Matching`, `MatchingProofs` |
| instances | `instance_manager.rs`, `reasoner.rs` | `Instances`, `SameAs`, `RoleInstances`, `ObjectPropertyIndex` |
| property hierarchies | `reasoner.rs` | `PropertyHierarchy` |
| entailment, explanations, queries | `reasoner.rs` | `Entailment`, `Explanations`, `ExplanationsProofs`, `Queries`, over `Semantics` |
| datalog engine | `datalog.rs` | `Datalog` |
| incremental reasoner | `reasoner.rs` (`IncrementalReasoner`) | `Incremental` |
| normalization | `structural/expression_manager.rs`, `structural/owl_normalization.rs` | `Expressions`, `Normalization` |
| role automata | `structural/automaton.rs`, `structural/object_property_inclusion_manager.rs` | `RoleAutomata` |
| clausification | `structural/owl_clausification.rs`, `structural/built_in_property_manager.rs`, `structural/expressivity.rs` | `AxiomClausifier`, `Clausification` |

`Semantics` is the direct semantics of OWL over a finite domain. It models no code:
it is the reference against which normalization, clausification, entailment and
queries are measured.

### How state and actions correspond to the code

**Calculus.** `rows`, `extensionOld` and `extensionThis` are the tuple table with
its delta windows; `disjunctions` and `firstUnprocessed` the linked list of ground
disjunctions; `branchingPoints` and `nonbacktrackable` the stack; `clash` the
dependency set of the clash; `pc` the place in `run_calculus`. `AssertPending` and
`Asserted` are `load_abox` and the loop of `start_next_choice`; `PropagateDeltaNew`
is `propagate_delta_new`; `DeriveClash`, `DeriveFact`, `DeriveDisjunction` and
`PassFinished` the clause evaluators; `ProcessFirstGroundDisjunction` the branching
of `do_iteration`; `BacktrackOnClash` is `backtrack_on_clash` with `backtrack_to` and
`start_next_choice`. Levels count from 1 (the code's level `n` is `n + 1`, its `-1`
is 0). The order of matches in a pass and of disjuncts is arbitrary: the code fixes
the first by compilation and the second by counters, and no answer may depend on
either.

**TestTableau** extends `Calculus` with the driver: `Checkout` restores the ABox
checkpoint or loads and saturates; `AssertNegatives` pushes the dummy branching point
above which a test reads off what follows from its positive concept; `TestFinished`
and `Redo` are the exits of `run_test`. An interrupt may come wherever the code
surfaces one. `SubsumptionTests` is what callers rely on: a question, then the
answer that all models give, or an interrupt.

**Interruption.** Every poll is an action: at the head of an iteration, per
disjunction and existential, within an evaluation (only if a latch or a timeout was
there when it began) and after the loop.

**WorkerPool.** The coordinator's loop (`Dispatch`, `Filled`, `Receive`,
`ReceiveNone`), the drop of the pool (`Close`, `Join`, `Return`) and the worker's
loop (`Lock`, `Take`, `Send`, `Exit`), with a `Panic` while it builds. The two pools
have one protocol and share the model.

**Classification.** `Dispatch`, `HarvestModel`, `HarvestUnsatisfiable` and
`DropStale` are the leaf-node strategy, `DispatchTask`, `Resolve`, `UnionTest`,
`Traverse` and `HarvestDelta` the resolution, `BuildHierarchy` the result. The
tableau is external: a test may return any read-off the ontology allows.

**Nodes, DependencySets, Blocking, DescriptionGraphs.** One record or a few
variables for the manager's fields; one action per entry point, with everything it
calls. `backtrack_to` undoes each of them from what the branching point recorded, as
the code does, never from a saved copy; the copies that the properties compare with
are kept beside the modelled state.

**DataAssignments and Matching.** The stages of `check_datatype_constraints` (nodes
alone, components, cliques by counting, elimination, listing, matching or search).
`Matching` is `has_distinct_assignment`: `BeginPhase`, `LayerNode` and `EndLayers` are
the breadth-first layering, `NextRoot`, `Descend`, `Skip`, `DeadEnd` and `Flip` the
depth-first search for disjoint augmenting paths, on an explicit stack.

**Instances, SameAs, RoleInstances, ObjectPropertyIndex.** The read-off of the
saturated model, its normalization, realization by tests, and the queries, in any
order. What is entailed, and which models fit it, are inputs.

**Datalog, Incremental.** Loading, saturation step by step, the cache and its
interrupts; the buffer of changes, both flush paths and every cache with the queries
that read it.

**Normalization, RoleAutomata, Clausification.** The visitor, then each pop of the
work lists; the regularity checks, the trimming loop, the automata and the rewriting;
the built-in properties, the flags, and one step per axiom clausified. A set stands
for a vector whose order carries nothing.

**Entailment, Queries, Explanations, PropertyHierarchy, Hierarchies.** One action per
public function; the hitting-set search, Tarjan's search and `find_position` step by
step, where an order of iteration matters.

### Compositions

`TestTableau` runs on `Calculus` and implements `SubsumptionTests`, which is what
`Classification` takes for granted of a test. `WorkerPool` shows that a dispatched
task comes back once, which is what `Classification` assumes of its pool. `Blocking`
runs on `BlockingValidator`. The MC modules `MCThreads`, `MCTableau`,
`MCRealization`, `MCServices` and `MCStructural` are suites: a behaviour chooses one
component in its initial state and the variables of the others stay put, so one run
checks several components that do not share state. A property of a suite is the conjunction of
the named properties of its components, each under the component's name.

## 2. What is checked

`tlc -config X.cfg M` for the `cfg` and `module` of each run of `PROJECT.json`.

| run | instance | what it shows |
|---|---|---|
| `calculus` | every ontology of up to five clauses from a pool of ten with three ABoxes, and one in which an abandoned disjunct is derived again | right answers both ways, every stored dependency set entails its tuple, a disjunct given up is refuted, backtracking restores what was recorded, and a run ends |
| `test_tableau` | two tests in a row, with and without nominals, one interrupt | the reused tableau implements `SubsumptionTests`: each answer is the truth about the ontology and the test; the read-off follows from the tested concept alone; every test starts alike and is answered |
| `threads` | three tasks with interrupts and timeouts at any step; two workers with four tasks and up to two panics | a task fails exactly for its own cause, and an interrupt stops it; each task in flight is in one place, sends have room and a receiver, no thread outlives the drop, without a panic the pipeline drains |
| `classification` | six ontologies over three concepts, two workers, one interrupt | recorded subsumptions hold, no subsumption is lost, the hierarchy is the subsumption order |
| `tableau` | four configurations of nodes, five of blocking, every saturated tableau of one shape for validation, two description graphs, the dependency set factory; three nodes with every choice of eleven lists for the matching; three and four data nodes with ranges, constants and inequalities | no dangling node, backtracking restores, sets in use stay interned, blocks and caches are current, accepted blocks unravel to a model, occurrence lists are exact; the matching and the whole datatype check answer exactly, a clash is justified by the assertions it names, matched nodes stay matched |
| `realization` | subsumer graphs over three names; two and three classes; three individuals; two roles; two questions for the index of a complex role | hierarchies, instances, same-as classes, role fillers and the object property index, with the exceptions that section 3 lists |
| `services` | four axioms with up to three justifications; all interpretations over two elements for each kind of axiom and query; programs of up to three rules; three universes of changes | explanations, entailment, queries, datalog answers, the clauses, facts and caches of the incremental reasoner |
| `structural` | the questions of `MCStructural`, each measured on every interpretation over two individuals | normalization, role boxes and clausification keep the meaning |
| `classification_timeout` | expects a violation | a build that times out is harvested as unsatisfiable |
| `instances_merged` | expects a violation | an individual merged by a branch choice gets known classes that are not entailed |
| `expression_instances` | expects a violation | the instances of an expression equivalent to `owl:Thing` miss an individual that is in no named class |
| `same_as_detour` | expects a violation | two individuals merged into a third are never tested against each other once the third is refuted |

Every property has a mutant in `PROJECT.json`: a plausible mistake in one
definition, under which TLC finds the property violated.

### Bounds

A bound is a constant of a module, named in its comment, and a conjunct of a guard.

- *Calculus.* Five clauses give up to three branching points with a clash that
  skips one; `Rederived` needs six. The table and the queue are not bounded: they
  are finite because the atoms are.
- *Tests.* Two tests are the shortest sequence in which one can disturb the next;
  one interrupt leaves a half-saturated tableau to the second.
- *Interruption.* A late interrupt concerns the task after it, so three tasks give
  each role to a task with a neighbour on both sides.
- *Pools.* Four tasks are more than two workers hold and the channel buffers
  between them; two panics can take all workers.
- *Nodes, blocking, graphs.* Enough nodes for a merge into a parent, an ancestor and
  a sibling, one level more than one backtracking undoes, and for blocking a chain
  long enough to repeat a label, be blocked and be unblocked again.
- *Realization, services, structure.* The domains have two elements, which tells
  apart every kind of axiom used; three names give a hierarchy with a diamond.

`CHECK_DEADLOCK FALSE` stands where a behaviour ends: a question is answered, or the
coordinator waits for a worker that panicked (see below).

### Fairness

- `Calculus`: weak fairness of the steps: the thread that runs `run_calculus` is not
  stopped. That a run ends is then a property of the calculus.
- `TestTableau`: weak fairness of the steps of a test, none of asking.
- `Interruption`: weak fairness of each step of the loop and strong fairness of
  `EndIteration`. An iteration is over finitely many nodes, so it ends however often
  it polls; the calculus as a whole is not assumed to end.
- `WorkerPool`: weak fairness of the coordinator, of each worker that has the receiver
  or a task, and of some worker taking the lock: the mutex need not be fair between
  waiting threads. `PipelineDrains` speaks of behaviours without a panic.

The other properties are safety properties and need no fairness.

## 3. Where code and comments disagree

Four disagreements are runs: `classification_timeout` (`reasoner.rs:8078` against
`reasoner.rs:3228`, `quasi_order.rs:393`), `instances_merged` (`reasoner.rs:4145`
against `reasoner.rs:4037`, `:4790`), `expression_instances` (`reasoner.rs:5458`
against `reasoner.rs:5319`, `:5321`) and `same_as_detour` (`instance_manager.rs:440`
against `instance_manager.rs:297`).

Some properties of passing runs hold only with an exception, because the code does
something else in a case that its documentation does not except. The comment of each
of them names the exception; what they claim is the rest.

| property | what is excepted |
|---|---|
| `BlockingFaithful` | under pairwise anywhere blocking the label of the parent (`tableau/blocking_strategy.rs:164` keeps a block when only that changed, against `:6` and `:76`); a clause that reaches, from a blocked node, its parent and a second neighbour (`tableau/blocking_validator.rs:430` reads the successors of the blocker by their own labels, also where they are blocked) |
| `InstancesExact` | individuals merged by a choice; expressions equivalent to `owl:Thing`; of direct queries for an expression, individuals with a type beside it (the runs above) |
| `SameAsExact` | candidates that met by way of a third individual or an internal node (the run above) |
| `RoleAnswersExact` | a query that refutes a pair at a lower node and pushes it to one it has read misses the pair (`instance_manager.rs:1079`); it stays possible for the next query. After `realize_object_roles` only that answers are entailed is claimed. With a blocked named node the markers of a complex role do not reach every candidate |
| `QueriesExact` | the disjoint classes of a class outside the ontology or equivalent to `owl:Thing` (`reasoner.rs:740` against `:701`); values of a property the ontology does not mention, the top property included (`:5684` against `:5665`; also `:6915` against `:6901`); data values asserted for an equivalent property (`:5718`) |
| `DatalogCertain` | after an interrupt, that no answer is missing (`datalog.rs:1166`, `:1179`: an interrupted materialization is cached as a finished one, and an interrupt before the saturation is lost) |
| `IncrementalCurrent` | facts that another axiom or an annotated copy states too, which a removal takes along (`reasoner.rs:9536`, `:9343`); assertions of complex roles, which the patch does not rewrite (`structural/reduced_abox_clausification.rs:230`) |
| `NormalizationFaithful` | a data at-most over a range that needs a definition (`structural/owl_normalization.rs:1771`, wrong polarity); definitions shared between a rule and another axiom, or replaced in the table so that a number is given twice (`:321`, `:325`); a raw disjunct of a `DisjointUnion` or a rule head that reaches the panic of `:1566` (`:455`, `:919`, `:1207`) |
| `RoleBoxFaithful` | half of the claim for a role box found irregular while automata are built, which is accepted (`structural/object_property_inclusion_manager.rs:586`) |
| `ClausificationFaithful` | rule variables in `sameAs` and `differentFrom` only (`structural/owl_clausification.rs:669`); built-in properties in rules and keys only (`structural/built_in_property_manager.rs:151` against `:3`); a facet on `rdfs:Literal` is a panic (`structural/owl_clausification.rs:355`) |
| `PoolDrains` | behaviours with a panic: the task stays in flight, so `recv` waits for ever while another worker lives, although the comment at `reasoner.rs:3356` says that the pipeline drains; when no worker lives it returns `None` with builds in flight (`quasi_order.rs:395`) |

The rest was met while modelling; the properties do not speak of these cases.

| where | what the code does |
|---|---|
| `tableau/extension_manager.rs:143` | adding a non-core concept forgets a pending core change |
| `tableau/branching.rs:117` | a satisfied ground disjunction keeps a usage of its dependency set |
| `tableau/description_graph_manager.rs:264`, `:319`, `:576` | tuples are unlinked in another order than the assertion says; one merge of a pass may miss a tuple that another rewrote; merges of the constraint check do not rewrite other tuples |
| `reasoner.rs:7717` | an interrupted saturation counts as an inconsistent ontology in `get_types` and `instances` |
| `instance_manager.rs:517` | instances are not stripped above nodes without an element |
| `reasoner.rs:9324`, `:9080` | two settings are not passed on to the incremental reasoner |
| `reasoner.rs:1061`, `:1505`, `:1521`, `:1578`, `:1661` | entailment: property arms refuse an inconsistent ontology; the roll-up of anonymous individuals loses labels, directions, loops and neighbours |
| `structural/owl_normalization.rs:855`, `:1087` | counters reset per rule; chains of `sameAs` in a rule |
| `structural/object_property_inclusion_manager.rs:761` | trimming may alternate between two graphs |
| `tableau/datatype_manager.rs:1618` | a finite range whose values cannot be listed ends the check without a clash; every range of the instances can be listed |

Three more are choices rather than disagreements: a rule with an empty head is
dropped, `differentFrom` of an individual with itself asserts nothing, and
`owl:topDataProperty` in subject position, outside OWL 2 DL, gets no axiom.
`structural` leaves them out.

## 4. What is proved

`tlapm M.tla` for each module below. The proofs are about the definitions that the
runs check, with nothing assumed but the named assumptions on the constants, which
TLC evaluates on the instances.

**Calculus** (`CalculusProofs`, `CalculusModel`), for every set of atoms and
ontologies whose clauses have a body. None of the properties is inductive by itself.
The invariant stands at the end of `Calculus`, parameterised so that the tests can
use it too: by the models looked for (`Ms`), the literals supposed on branching points
without choices (`N`), the level below which nothing is undone (`nb`) and the literals
a model must satisfy (`Rs`). For a run on its own (`Inv`) these are the models of the
ontology, no literal, level 0 and the ABox. `Sound` says of the stack that its counts are within the table
and grow with the level (`Branching`), that every live dependency set names levels
that are there and whose last disjunct has not been reached (`AllGrounded`), and that
every stored set justifies what it stands for: a model in which the disjuncts chosen
at its levels hold satisfies the tuple, and a disjunct given up is refuted by the
levels below. From it follow `BacktrackingRestores`, `DependenciesSound`,
`AbandonedSound`, `NextChoiceExists` (there always is a next disjunct where the code
indexes one) and `Soundness`: a clash at the end means that there is no model. The
interesting step is backtracking, which replaces the choice of a level by the next
one and must keep every set that names this level justified.

The converse is `ModelFound`. `Complete` says of the present, while there is no clash,
that the facts are loaded, that every clause matched in the windows evaluated so far
is handled (its head is in the table, queued, or a match that has still to fire) and
that every processed disjunction has a disjunct in the table or about to be asserted.
For backtracking it has to say the same of what every branching point recorded,
with the disjunction branched on excepted; the jump back then restores a complete
state whatever the levels between had derived. At the end no match and no disjunction
is left over, and the table is a model.

**Tests on the reused tableau** (`CheckpointProofs`, `TestTableauProofs`), for all
ontologies and tests and any number of tests and interrupts. Beside the assumptions of
the calculus, the facts of a test are about a node that is in no ABox, and a clause
says nothing of a node that its body does not match (`FreshAtoms`, `TestsAssumption`).
The invariant `TestInv` has two halves. `Running`: `Sound` and `Complete` hold for what
the present test is about, which changes with its phase. While the ABox is loaded and
saturated that is the ABox; then the positive concept is given as well; above the
dummy branching point the negated concepts are only supposed, and what rests on them
names the level of the dummy. `Standing` is what survives from test to test: the table
below the checkpoint is the saturated ABox, consistent, with every match and every
disjunction taken care of and nothing said of the fresh node, and the facts that a test
asserts rest on nothing below the checkpoint. That is what makes going back to the
checkpoint the same as loading the ABox anew (`StartAlike`), and what allows a test to
be refuted without redoing the ABox when its clash rests on no choice made there. From
it follow `KnownSubsumersFollow` (what is read off above the dummy follows from the positive
concept alone) and `TestsAnswerAsSpecified`, step by step: each step of the driver and
of the calculus beneath it is a step of `SubsumptionTests` or leaves its variables
alone, so that an answer is the truth about the ontology and the test.

**Dependency sets** (`DependencySetsProofs`), for any bounds on levels, holders and
usages. `DepInv` counts: an interned set has at least as many usages as holders, and
the empty set one more, its own, so that backtracking, which gives back one usage per
holder it destroys, cannot take a set from a holder it keeps (`SetsInUseStay`). It
also dates: the marks of the branching points grow with the level, and a holder is
younger than every branching point that it names. Going back to a level removes
everything younger than its mark, so no set that is left names a level that is gone
(`DependenciesPresent`); the clash is cleared, and the dependency set of the next
choice names lower levels only.

**Interruption** (`ThreadProofs`), for any number of tasks. `ErrorsInvariant`: while a
task runs the latch and the clock agree with the causes, and after the last poll a
cause has been latched. It gives `ErrorsAreExact`.

**Worker pools** (`ThreadProofs`), for any sets of workers and tasks and any
number of panics. `PoolInvariant` says where each task is; it gives
`NoTaskLostOrDoubled` and `DropComplete`, and with a counting argument over finite
sets `DispatchSucceeds`: were the channel full, two entries would be the same task.

**Matching** (`MatchingProofs`), for any number of nodes and values and any lists. `PathInvariant`: the two arrays are inverse to each other, the stack is
a path through the layers whose edges were tried last. It gives `MatchedStayHolds`
and `YesRightHolds`. For the answer no, `LayersClosed` says that the layered nodes are
closed under the values they could take; when no free value was found those values
are fewer than the nodes, and a distinct assignment would contradict the pigeonhole
principle (`AnswerExactHolds`).

**Explanations** (`ExplanationsProofs`), for any finite set of axioms and any family
of justifications none of which contains another; a set entails the conclusion when
it contains one of them. `SearchInvariant` says that what is being shrunk entails the
conclusion and that no axiom before the index can be dropped, so that every recorded
set is a justification, and that a justification that is missing keeps the tree open:
below every explored set of removed axioms that leaves the justification intact there
is another one, explored or on the work list, except below the one in hand. When the
work list is empty, a largest explored set of this kind contradicts it
(`NoneMissing`, by the well-foundedness of the subset order on finite sets), so
`ExplanationsExact`: all justifications are found, and nothing else.

## 5. What is only model-checked

- Liveness (`Termination`, `EveryTestAnswered`, `InterruptStopsTask`,
  `PipelineDrains`): fairness and `ENABLED` are outside what the prover handles.
- The structural phase, blocking and its validation, description graphs, role
  instances, queries and entailment: they are defined with recursive operators, over
  which the prover cannot do induction.
- Classification and the hierarchies: what is known there is closed under
  reachability in a graph, a recursive function whose value for every graph needs
  induction over data.
- Nodes, same-as classes, datalog and the incremental reasoner: their properties are
  checked on the instances above and have not been proved.

## 6. What is not modelled

Parsing, printing, the command line, the debugger and the monitors; interning; the
compiled register programs and tries of the clause evaluator, whose result is the set
of matches of `Calculus`; the value spaces of datatypes (a range is a set of values);
the counters that order disjuncts (`Calculus` allows every order); the serial and
batched variants of classification that run without a pool; the roll-up of anonymous
individuals; the lazy unfolding of acyclic definitions. `PROJECT.json` says for each
component what it leaves out.
