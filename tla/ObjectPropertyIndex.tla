------------------------- MODULE ObjectPropertyIndex -------------------------
(***************************************************************************)
(* ObjectPropertyInstanceIndex: the pairs of every object property, read   *)
(* off one consistency model for simple roles and off models with marker   *)
(* concepts for complex ones.  A complex role r gets, for each individual  *)
(* that may start one of its paths, a marker that the automaton of r       *)
(* carries along the model's edges.  The possible pairs are then decided   *)
(* by entailment tests, in queries that may fail and be repeated.          *)
(***************************************************************************)
EXTENDS Integers, Sequences, FiniteSets, SequencesExt, FiniteSetsExt

CONSTANTS
    Individuals,    \* named individuals
    Anonymous,      \* other nodes of the models
    Roles,          \* atomic object roles
    Complex,        \* the complex ones
    EdgePool,       \* edges <<role, node, node>> a model may have
    Ontologies,     \* [clauses, graphs, automata]: role clauses with [body, head]
                    \* sets of roles and a guard, whether there are description
                    \* graphs, and automata [initial, terminal, delta] of complex
                    \* roles, which a role may be without
    AxiomLimit,     \* additional axioms per batch
    MaxQueries      \* bound on the number of queries

VARIABLES
    input,   \* the ontology, entailed pairs and the models
    phase,
    sources, \* marker sources: the complex roles of each individual
    batches, \* sources of the batches still to be read off
    known, possible, \* ObjectPropertyPairs of each role
    query,   \* the running query, or {}
    answer,  \* last answer
    queries

vars == <<input, phase, sources, batches, known, possible, query, answer, queries>>

Nodes == Individuals \cup Anonymous
Pairs == Individuals \X Individuals
Labels == Roles \X {"forward", "inverse"}

-----------------------------------------------------------------------------
(* Labels and paths.                                                       *)

\* possible_object_role_labels: roles some clause or fact can generate, with
\* every guard taken as satisfied
PossibleRoles(clauses) ==
    LET Step(s) == s \cup UNION {c.head : c \in {d \in clauses : d.body \subseteq s}}
        P[n \in 0 .. Cardinality(Roles)] == IF n = 0 THEN {} ELSE Step(P[n - 1])
    IN  P[Cardinality(Roles)]

\* the edges of a model, read in both directions
Arcs(edges) ==
    {<<e[2], <<e[1], "forward">>, e[3]>> : e \in edges}
    \cup {<<e[3], <<e[1], "inverse">>, e[2]>> : e \in edges}

-----------------------------------------------------------------------------
(* Automata: transitions <<state, label, state>>, the empty label Epsilon. *)

Epsilon == <<>>

RECURSIVE Closure(_, _)
Closure(seen, step) ==
    LET next == {e[2] : e \in {x \in step : x[1] \in seen}} \ seen
    IN  IF next = {} THEN seen ELSE Closure(seen \cup next, step)

LiveEdges(a, live) == {t \in a.delta : t[2] = Epsilon \/ t[2] \in live}
Forward(delta) == {<<t[1], t[3]>> : t \in delta}
Backward(delta) == {<<t[3], t[1]>> : t \in delta}

\* first labels of the words over live labels that are accepted, and whether
\* the empty word is
LiveFirstLabels(a, live) ==
    LET productive == Closure(a.terminal, Backward(LiveEdges(a, live)))
        useful == {t \in LiveEdges(a, live) : t[1] \in productive /\ t[3] \in productive}
        visited == Closure(a.initial \cap productive,
                           Forward({t \in useful : t[2] = Epsilon}))
    IN  [nullable |-> visited \cap a.terminal # {},
         labels |-> {t[2] : t \in {u \in useful : u[1] \in visited /\ u[2] # Epsilon}}]

RestrictedToLabels(a, live) ==
    LET edges == LiveEdges(a, live)
        fromStart == Closure(a.initial, Forward(edges))
        toEnd == Closure(a.terminal, Backward(edges))
    IN  [a EXCEPT !.delta = {t \in edges : t[1] \in fromStart /\ t[3] \in toEnd}]

\* restrict_for_property_read_off, called when there are no description graphs,
\* whose edges come from outside the clauses
Restricted(r) ==
    IF input.graphs THEN input.automata[r]
    ELSE RestrictedToLabels(input.automata[r],
                            PossibleRoles(input.clauses) \X {"forward", "inverse"})

\* where the state concepts of a rewritten universal restriction carry its
\* filler from a node along a model's edges
Reach(a, edges, x) ==
    LET stay == {<<<<t[1], y>>, <<t[3], y>>>> : <<t, y>> \in
                   {ty \in a.delta \X Nodes : ty[1][2] = Epsilon}}
        move == {<<<<t[1], arc[1]>>, <<t[3], arc[3]>>>> : <<t, arc>> \in
                   {ta \in a.delta \X Arcs(edges) : ta[1][2] = ta[2][2]}}
    IN  {p[2] : p \in {q \in Closure(a.initial \X {x}, stay \cup move) : q[1] \in a.terminal}}

LabelsAt(edges, x) == {arc[2] : arc \in {t \in Arcs(edges) : t[1] = x}}

-----------------------------------------------------------------------------
(* Models.  A model has the node of each individual, whether the merge      *)
(* chain to it is deterministic, its edges and the deterministic ones.      *)

\* names_for_canonical_nodes: every name of a canonical node stands for it.
\* pairs a set of node pairs stands for, and the known ones among them
NamedPairs(m, s) == {p \in Pairs : <<m.node[p[1]], m.node[p[2]]>> \in s}

EdgesOf(edges, r) == {<<e[2], e[3]>> : e \in {f \in edges : f[1] = r}}
PathsOf(automata, edges, r) ==
    IF r \in DOMAIN automata
    THEN UNION {{x} \X Reach(automata[r], edges, x) : x \in Nodes}
    ELSE EdgesOf(edges, r)

\* an alias is fixed at the first individual, or depends on a choice
ModelNodes ==
    LET first == CHOOSE i \in Individuals : TRUE
    IN  {f \in [Individuals -> Individuals] : f[first] = first /\ \A i \in Individuals : f[i] \in {i, first}}

GeneratedRoles(clauses) ==
    LET Step(s) == s \cup UNION {c.head : c \in {d \in clauses : d.guard /\ d.body \subseteq s}}
        P[n \in 0 .. Cardinality(Roles)] == IF n = 0 THEN {} ELSE Step(P[n - 1])
    IN  P[Cardinality(Roles)]

\* the edges clauses, facts and description graphs may give a model
Edges(o) == {e \in EdgePool : o.graphs \/ e[1] \in GeneratedRoles(o.clauses)}

\* models of one ontology: they share what is deterministic; a blocked node of
\* an individual may be without edges it has in the unfolded model
Models(pool, sure) ==
    {m \in [node : ModelNodes, definite : SUBSET Individuals, blocked : BOOLEAN,
            edges : {s \in SUBSET pool : sure \subseteq s}, sure : {sure}] :
            /\ \A i \in Individuals : m.node[i] = i => i \in m.definite
            /\ \A e \in m.edges, k \in {2, 3} :
                  e[k] \in Individuals => m.node[e[k]] = e[k]}

SameDefinite(b, m) ==
    \A i \in Individuals :
        /\ i \in b.definite /\ b.node[i] # i => i \in m.definite /\ m.node[i] = b.node[i]
        /\ i \in m.definite /\ m.node[i] # i => i \in b.definite /\ b.node[i] = m.node[i]

\* what is entailed: at least the deterministic pairs, at most those that
\* both models have
AtLeast(automata, m, r) ==
    {p \in NamedPairs(m, PathsOf(automata, m.sure, r)) : {p[1], p[2]} \subseteq m.definite}
AtMost(automata, m, r) == IF m.blocked THEN Pairs ELSE NamedPairs(m, PathsOf(automata, m.edges, r))

Truths(automata, b, m) ==
    LET low(r) == AtLeast(automata, b, r) \cup AtLeast(automata, m, r)
        extra(r) == (AtMost(automata, b, r) \cap AtMost(automata, m, r)) \ low(r)
    IN  {[r \in Roles |-> low(r) \cup {p \in extra(r) : <<r, p>> \in x}] :
            x \in SUBSET UNION {{r} \X extra(r) : r \in Roles}}

-----------------------------------------------------------------------------
(* with_configuration_and_batch_limit.                                     *)

\* a model that is read for pairs has no blocked named node
Init ==
    /\ \E o \in Ontologies : \E sure \in SUBSET Edges(o) :
        \E base, marked \in Models(Edges(o), sure) :
          /\ SameDefinite(base, marked)
          /\ ~marked.blocked
          /\ \E truth \in Truths(o.automata, base, marked) :
               input = [clauses |-> o.clauses, graphs |-> o.graphs, automata |-> o.automata,
                        base |-> base, marked |-> marked, truth |-> truth]
    /\ phase = "sources"
    /\ sources = [i \in Individuals |-> {}]
    /\ batches = <<>>
    /\ known = [r \in Roles |-> {}] /\ possible = [r \in Roles |-> {}]
    /\ query = {} /\ answer = [of |-> {}, pairs |-> {}] /\ queries = 0

\* complex_role_marker_sources, on the base model: every individual, when the
\* empty word is accepted, there is no automaton or a named node is blocked,
\* else those with a live first label
MarkerSources ==
    LET live == {arc[2] : arc \in Arcs(input.base.edges)}
        first(r) == IF r \in DOMAIN input.automata THEN LiveFirstLabels(Restricted(r), live)
                    ELSE [nullable |-> TRUE, labels |-> {}]
    IN  [i \in Individuals |->
            {r \in Complex :
                \/ first(r).nullable \/ input.base.blocked
                \/ first(r).labels \cap LabelsAt(input.base.edges, input.base.node[i]) # {}}]

\* the sources in order, cut where the axioms of a batch reach the limit
Batches(ss) ==
    LET Add(acc, i) ==
          LET open == acc[Len(acc)]
              count == 2 * FoldSet(LAMBDA j, n : n + Cardinality(ss[j]), 0, open)
          IN  IF open = {} \/ count < AxiomLimit
              THEN [acc EXCEPT ![Len(acc)] = @ \cup {i}]
              ELSE Append(acc, {i})
    IN  FoldLeft(Add, <<{}>>, SetToSeq({i \in Individuals : ss[i] # {}}))

FindSources ==
    /\ phase = "sources"
    /\ sources' = MarkerSources
    /\ batches' = Batches(MarkerSources)
    /\ phase' = "edges"
    /\ UNCHANGED <<input, known, possible, query, answer, queries>>

\* without complex sources the base model is read, else the first marked one
ReadModel == IF \A i \in Individuals : sources[i] = {} THEN input.base ELSE input.marked

Sure(m, p) == {p[1], p[2]} \subseteq m.definite

\* the edges of the first batch's model, between named nodes only
ReadEdges ==
    /\ phase = "edges"
    /\ LET m == ReadModel
           all == [r \in Roles |-> NamedPairs(m, EdgesOf(m.edges, r))]
           sure == [r \in Roles |->
                      {p \in NamedPairs(m, EdgesOf(m.sure, r)) : Sure(m, p)}]
       IN  /\ known' = sure
           /\ possible' = [r \in Roles |-> all[r] \ sure[r]]
    /\ phase' = "markers"
    /\ UNCHANGED <<input, sources, batches, query, answer, queries>>

\* the markers of a batch: their sources carry their own merge dependencies
ReadMarkers ==
    /\ phase = "markers" /\ batches # <<>>
    /\ LET m == input.marked
           targets(edges, r, x) ==
             IF r \in DOMAIN input.automata THEN Reach(Restricted(r), edges, x)
             ELSE {e[2] : e \in {f \in EdgesOf(edges, r) : f[1] = x}}
           marks(edges, r) ==
             {p \in Pairs : /\ p[1] \in Head(batches) /\ r \in sources[p[1]]
                            /\ m.node[p[2]] \in targets(edges, r, m.node[p[1]])}
           sure == [r \in Roles |-> {p \in marks(m.sure, r) : Sure(m, p)}]
       IN  /\ known' = [r \in Roles |-> known[r] \cup sure[r]]
           /\ possible' = [r \in Roles |->
                 (possible[r] \cup marks(m.edges, r)) \ (known[r] \cup sure[r])]
    /\ batches' = Tail(batches)
    /\ UNCHANGED <<input, phase, sources, query, answer, queries>>

ReadOffDone ==
    /\ phase = "markers" /\ batches = <<>>
    /\ phase' = "ready"
    /\ UNCHANGED <<input, sources, batches, known, possible, query, answer, queries>>

-----------------------------------------------------------------------------
(* object_property_instances: resolve_object_property_pairs.               *)

Ask(r, inverse) ==
    /\ phase = "ready" /\ query = {} /\ queries < MaxQueries
    /\ query' = {[role |-> r, inverse |-> inverse, todo |-> possible[r]]}
    /\ queries' = queries + 1
    /\ UNCHANGED <<input, phase, sources, batches, known, possible, answer>>

Decide(q, p) ==
    /\ possible' = [possible EXCEPT ![q.role] = @ \ {p}]
    /\ known' = IF p \in input.truth[q.role]
                THEN [known EXCEPT ![q.role] = @ \cup {p}] ELSE known
    /\ query' = {[q EXCEPT !.todo = @ \ {p}]}

Test ==
    /\ \E q \in query : \E p \in q.todo : Decide(q, p)
    /\ UNCHANGED <<input, phase, sources, batches, answer, queries>>

Fail(q, p) == UNCHANGED possible

TestFails ==
    /\ \E q \in query : \E p \in q.todo : Fail(q, p)
    /\ query' = {}
    /\ answer' = [of |-> {}, pairs |-> {}]
    /\ UNCHANGED <<input, phase, sources, batches, known, queries>>

EndQuery ==
    /\ \E q \in query :
        /\ q.todo = {}
        /\ answer' = [of |-> {<<q.role, q.inverse>>},
                      pairs |-> {IF q.inverse THEN <<p[2], p[1]>> ELSE p : p \in known[q.role]}]
    /\ query' = {}
    /\ UNCHANGED <<input, phase, sources, batches, known, possible, queries>>

Next ==
    \/ FindSources \/ ReadEdges \/ ReadMarkers \/ ReadOffDone
    \/ \E r \in Roles, inverse \in BOOLEAN : Ask(r, inverse)
    \/ Test \/ TestFails \/ EndQuery

Spec == Init /\ [][Next]_vars

-----------------------------------------------------------------------------
(* Properties.                                                             *)

\* Every pair recorded as known is entailed at every moment: branch-dependent
\* aliases of a node do not own its deterministic tuples.
KnownPairsEntailed == \A r \in Roles : known[r] \subseteq input.truth[r]

\* The read-off misses no entailed pair although markers are put only on
\* individuals with a live first label in another model, and only for labels
\* some clause can generate; failed tests and retries lose none either.
CandidatesCoverTruth ==
    phase = "ready" => \A r \in Roles : input.truth[r] \subseteq known[r] \cup possible[r]

\* A query returns exactly the entailed pairs, reversed for an inverse.
AnswersExact ==
    \A k \in answer.of :
        answer.pairs = {IF k[2] THEN <<p[2], p[1]>> ELSE p : p \in input.truth[k[1]]}
=============================================================================
