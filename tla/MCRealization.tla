--------------------------- MODULE MCRealization ---------------------------
(***************************************************************************)
(* Hierarchies and what is realized over them.  A behaviour runs one of    *)
(* five components, chosen in the initial state: the hierarchy builder,    *)
(* the class instance manager, the same-as classes, the role instance      *)
(* manager and the object property index.  Variables of the other          *)
(* components stay at Unused.                                              *)
(***************************************************************************)
EXTENDS Integers, Sequences, FiniteSets

VARIABLES component,
          subsumers, b, h,                                    \* Hierarchies
          input, phase, mgr, queue, queued, visited, query,   \* Instances
          same, merged, definite, classes, pairs, run, answer, \* SameAs
          unread, queries, last,                              \* RoleInstances
          sources, batches, known, possible                   \* ObjectPropertyIndex
vars == <<component, subsumers, b, h, input, phase, mgr, queue, queued, visited, query, same, merged,
          definite, classes, pairs, run, answer, unread, queries, last, sources, batches, known, possible>>

Unused == 0

-----------------------------------------------------------------------------
(* Subsumer graphs: every element has itself and top among its subsumers,  *)
(* an unsatisfiable one has everything; elements may be equivalent to top. *)
(* Names differ in name only, so A has the fewest direct subsumers.        *)

Names == {"A", "B", "C"}
WithBounds(up) == [e \in Names \cup {"top", "bottom"} |->
    IF e = "bottom" \/ "bottom" \in up[e] THEN Names \cup {"top", "bottom"} ELSE up[e] \cup {e, "top"}]
Graphs == {WithBounds(up) : up \in
    {u \in [Names \cup {"top", "bottom"} -> SUBSET (Names \cup {"bottom"})] :
        /\ u["top"] \in {{}, {"C"}} /\ u["bottom"] = {}
        /\ \A e \in Names : e \notin u[e] /\ ("bottom" \in u[e] => u[e] = {"bottom"})
        /\ u["top"] # {} => u["C"] = {} /\ u["A"] # {"bottom"} /\ u["B"] # {"bottom"}
        /\ Cardinality(u["A"]) <= Cardinality(u["B"])
        /\ u["top"] = {} => Cardinality(u["B"]) <= Cardinality(u["C"])}}
Hierarchy == INSTANCE Hierarchies WITH SubsumerGraphs <- Graphs

\* Two individuals and two classes, one of three classes, with tests that fail.
OfTwo == INSTANCE Instances WITH Individuals <- {"i", "j"}, Mids <- 2, BranchMerges <- FALSE,
                                 OracleFails <- FALSE, SaturationTimesOut <- FALSE
OfOne == INSTANCE Instances WITH Individuals <- {"i"}, Mids <- 3, BranchMerges <- FALSE,
                                 OracleFails <- FALSE, SaturationTimesOut <- FALSE
Failing == INSTANCE Instances WITH Individuals <- {"i"}, Mids <- 2, BranchMerges <- FALSE,
                                   OracleFails <- TRUE, SaturationTimesOut <- TRUE

Same == INSTANCE SameAs WITH Individuals <- {"i", "j", "k"}, Internal <- {"u"}

\* One pair of individuals; two, one of them with an individual not asked for.
OnePair == INSTANCE RoleInstances WITH Individuals <- {"a", "b"}, Relevant <- {"a", "b"},
    Pairs <- {<<"a", "b">>}, Mids <- 2, MaxQueries <- 2
TwoPairs == INSTANCE RoleInstances WITH Individuals <- {"a", "b"}, Relevant <- {"b"},
    Pairs <- {<<"a", "b">>, <<"b", "b">>}, Mids <- 2, MaxQueries <- 1

\* Two individuals, an anonymous node, a simple role s and a complex role r:
\* one that s inverse followed by s, and r followed by r, imply; one that the
\* empty path implies as well; and one without an automaton.
EdgePool == {<<"s", "x", "a">>, <<"s", "x", "b">>, <<"r", "a", "b">>}
ClausePool ==
    {[body |-> {}, head |-> {"s"}, guard |-> TRUE],
     [body |-> {"s"}, head |-> {"r"}, guard |-> TRUE],
     [body |-> {}, head |-> {"r"}, guard |-> FALSE]}
Transitive == {<<0, <<"s", "inverse">>, 1>>, <<1, <<"s", "forward">>, 2>>,
               <<0, <<"r", "forward">>, 2>>, <<2, <<>>, 0>>}
Plain == [q \in {"r"} |-> [initial |-> {0}, terminal |-> {2}, delta |-> Transitive]]
Nullable == [Plain EXCEPT !["r"].delta = @ \cup {<<0, <<>>, 2>>}]
NoAutomata == [q \in {} |-> 0]
Ontologies ==
    {[clauses |-> c, graphs |-> FALSE, automata |-> Plain] : c \in SUBSET ClausePool}
    \cup {[clauses |-> ClausePool, graphs |-> FALSE, automata |-> a] : a \in {Nullable, NoAutomata}}
    \cup {[clauses |-> {}, graphs |-> TRUE, automata |-> Plain]}
Index == INSTANCE ObjectPropertyIndex WITH Individuals <- {"a", "b"}, Anonymous <- {"x"},
    Roles <- {"r", "s"}, Complex <- {"r"}, AxiomLimit <- 2, MaxQueries <- 2

-----------------------------------------------------------------------------
(* One component at a time.                                                *)

NoHierarchy == subsumers = Unused /\ b = Unused /\ h = Unused
NoWalk == queue = Unused /\ queued = Unused /\ visited = Unused
NoSameAs == /\ same = Unused /\ merged = Unused /\ definite = Unused
            /\ classes = Unused /\ pairs = Unused /\ run = Unused
NoRoles == unread = Unused /\ last = Unused
NoIndex == sources = Unused /\ batches = Unused /\ known = Unused /\ possible = Unused

InitHierarchy == component = "hierarchy" /\ Hierarchy!Init /\ NoWalk /\ NoSameAs /\ NoRoles /\ NoIndex
                 /\ input = Unused /\ mgr = Unused /\ query = Unused /\ answer = Unused /\ queries = Unused
InitInstances == /\ \/ component = "two individuals" /\ OfTwo!Init
                    \/ component = "one individual" /\ OfOne!Init
                    \/ component = "failing tests" /\ Failing!Init
                 /\ NoHierarchy /\ NoSameAs /\ NoRoles /\ NoIndex /\ answer = Unused /\ queries = Unused
InitSameAs == component = "same as" /\ Same!Init /\ NoHierarchy /\ NoWalk /\ NoRoles /\ NoIndex
              /\ input = Unused /\ phase = Unused /\ mgr = Unused /\ query = Unused /\ queries = Unused
InitRoles == /\ \/ component = "one pair" /\ OnePair!Init
                \/ component = "two pairs" /\ TwoPairs!Init
             /\ NoHierarchy /\ NoWalk /\ NoSameAs /\ NoIndex /\ query = Unused /\ answer = Unused
InitIndex == component = "index" /\ Index!Init /\ NoHierarchy /\ NoWalk /\ NoSameAs /\ NoRoles /\ mgr = Unused

Init == InitHierarchy \/ InitInstances \/ InitSameAs \/ InitRoles \/ InitIndex

NextHierarchy == component = "hierarchy" /\ Hierarchy!Next
                 /\ UNCHANGED <<input, mgr, queue, queued, visited, query, same, merged, definite, classes, pairs,
                                run, answer, unread, queries, last, sources, batches, known, possible>>
NextInstances == /\ \/ component = "two individuals" /\ OfTwo!Next
                    \/ component = "one individual" /\ OfOne!Next
                    \/ component = "failing tests" /\ Failing!Next
                 /\ UNCHANGED <<subsumers, b, h, same, merged, definite, classes, pairs, run, answer, unread,
                                queries, last, sources, batches, known, possible>>
NextSameAs == component = "same as" /\ Same!Next
              /\ UNCHANGED <<subsumers, b, h, input, phase, mgr, queue, queued, visited, query, unread, queries,
                             last, sources, batches, known, possible>>
NextRoles == /\ \/ component = "one pair" /\ OnePair!Next
                \/ component = "two pairs" /\ TwoPairs!Next
             /\ UNCHANGED <<subsumers, b, h, queue, queued, visited, query, same, merged, definite, classes, pairs,
                            run, answer, sources, batches, known, possible>>
NextIndex == component = "index" /\ Index!Next
             /\ UNCHANGED <<subsumers, b, h, mgr, queue, queued, visited, same, merged, definite, classes, pairs,
                            run, unread, last>>

Next == /\ NextHierarchy \/ NextInstances \/ NextSameAs \/ NextRoles \/ NextIndex
        /\ UNCHANGED component
Spec == Init /\ [][Next]_vars

-----------------------------------------------------------------------------

\* build_hierarchy, whatever the order in which the search meets its elements,
\* returns the subsumption order, transitively reduced, with equivalent elements
\* on one node; nodes_bottom_up lists it children first, find_position places a
\* new element exactly, the printed axioms say the same as the nodes, and a graph
\* closed in place answers like one that is searched.
HierarchyExact ==
    component = "hierarchy" =>
        /\ Hierarchy!HierarchyIsOrder /\ Hierarchy!HierarchyReduced /\ Hierarchy!BottomUpOrder
        /\ Hierarchy!PositionExact /\ Hierarchy!PrintedIsOrder /\ Hierarchy!ClosureExact

\* Provided the model merges individuals without a choice only, the instance
\* manager, seeded from it and resolved by tests, answers every query for a
\* named class or an individual after realization with the entailed instances
\* and types, and a query for a class expression that is not equivalent to
\* owl:Thing with its instances; a direct one for an expression returns those in
\* no named class below it, and perhaps others that are also in a class beside
\* it.  While a test fails it still records nothing that is not entailed.
InstancesExact ==
    /\ component = "two individuals" =>
        OfTwo!KnownEntailed /\ OfTwo!RealizationExact /\ OfTwo!QueriesExact
    /\ component = "one individual" =>
        /\ OfOne!RealizationExact /\ OfOne!QueriesExact /\ OfOne!GetTypesExact
        /\ OfOne!ExpressionInstancesExact
    /\ component = "failing tests" => Failing!KnownEntailed

\* The same-as classes, seeded from merged nodes and refined by tests that may
\* fail, contain only individuals that are the same; and a query that ends has
\* found all of them when the model merged them into one another, not by way of
\* an unequal individual or an internal node.
SameAsExact == component = "same as" => Same!SameAsSound /\ Same!SameAsComplete

\* Role queries between read-off, realization and earlier queries return only
\* entailed pairs.  Without realization no pair is lost for later queries, and an
\* answer may miss just the pairs that the same query refuted at a lower node and
\* pushed to one already read.  The object property index records entailed pairs
\* only, its candidates cover every entailed pair of a complex role when no named
\* node of the model with markers is blocked, and its answers are exact.
RoleAnswersExact ==
    /\ component = "one pair" => /\ OnePair!RoleAnswersSound /\ OnePair!KnownMostSpecific /\ OnePair!NoPairLost
                                 /\ OnePair!MissedStaysPossible
    /\ component = "two pairs" => /\ TwoPairs!RoleAnswersSound /\ TwoPairs!NoPairLost
                                  /\ TwoPairs!MissedStaysPossible
    /\ component = "index" => Index!KnownPairsEntailed /\ Index!CandidatesCoverTruth /\ Index!AnswersExact
=============================================================================
