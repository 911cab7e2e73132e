------------------------------ MODULE Instances ------------------------------
(***************************************************************************)
(* The class side of the instance manager: which named individuals are     *)
(* instances of which nodes of the classified concept hierarchy.           *)
(*                                                                         *)
(* The saturated model of the initial consistency check gives every        *)
(* individual's node a set of labels; a label with an empty dependency set *)
(* is a KNOWN membership and any other one a POSSIBLE one.  realize()      *)
(* resolves the possible ones with an entailment test, visiting every node *)
(* of the hierarchy after its children, and the queries read the known     *)
(* ones.  What is entailed (truth), the model's labels and the merges of   *)
(* individuals' nodes are inputs.                                          *)
(***************************************************************************)
EXTENDS Integers, Sequences, FiniteSets, SequencesExt

CONSTANTS
    Individuals,       \* the named individuals of the vocabulary
    Mids,              \* number of hierarchy nodes between top and bottom
    BranchMerges,      \* merges that depend on a choice occur in the model
    OracleFails,       \* is_instance may end in an error, read as false
    SaturationTimesOut \* the saturation of the model may time out

Bottom == 0
Top == Mids + 1
Nodes == Bottom .. Top

VARIABLES
    input,   \* hierarchy, entailments and the saturated model
    mgr,     \* SeededClassInstanceManager
    phase,   \* how far build_class_instance_manager has come
    queue,   \* to_process of normalize_concept_instances
    queued,
    visited, \* nodes realize has visited
    query    \* a class expression asked about, and the answer

vars == <<input, mgr, phase, queue, queued, visited, query>>

-----------------------------------------------------------------------------
(* The hierarchy: a strict partial order of the nodes between bottom and   *)
(* top, its transitive reduction as child and parent nodes.                *)

Less(x, y) == x # y /\ (x = Bottom \/ y = Top \/ <<x, y>> \in input.below)
Children(n) ==
    {c \in Nodes : Less(c, n) /\ ~\E m \in Nodes : Less(c, m) /\ Less(m, n)}
Parents(n) == {p \in Nodes : n \in Children(p)}
Ancestors(n) == {a \in Nodes : a = n \/ Less(n, a)}
Descendants(n) == {d \in Nodes : d = n \/ Less(d, n)}

MinimalNodes(types) == {n \in types : Children(n) \cap types = {}}

Orders ==
    {r \in SUBSET {p \in (1 .. Mids) \X (1 .. Mids) : p[1] < p[2]} :
        \A p, q \in r : p[2] = q[1] => <<p[1], q[2]>> \in r}

UpSets(r) ==
    {s \in SUBSET (1 .. Mids) : \A p \in r : p[1] \in s => p[2] \in s}

-----------------------------------------------------------------------------
(* The manager.                                                            *)

EmptyManager ==
    [elements |-> {},
     known    |-> [n \in Nodes |-> {}],
     possible |-> [n \in Nodes |-> {}],
     found    |-> FALSE]

\* AtomicConceptElement: also what is known may be added as possible
AddPossible(m, n, s) == m.possible[n] \cup s

\* read_off_node_concepts on the canonical node of an individual
ReadOffNodeConcepts(i) ==
    [n \in input.labels[input.canonical[i]] |->
        n \in input.deterministic[input.canonical[i]]]

ReadOffTypes(m, i, labels) ==
    LET K == {n \in DOMAIN labels : labels[n]}
        P == DOMAIN labels \ K
    IN  [elements |-> m.elements \cup DOMAIN labels,
         known    |-> [n \in Nodes |-> m.known[n] \cup {j \in {i} : n \in K}],
         possible |-> [n \in Nodes |->
                         AddPossible(m, n, {j \in {i} : n \in P})],
         found    |-> m.found \/ P # {}]

SeedTopKnown(m, i) ==
    [m EXCEPT !.elements = @ \cup {Top}, !.known[Top] = @ \cup {i}]

\* one node of normalize_concept_instances that has an element
StripAncestors(m, n) ==
    LET above == Ancestors(n) \ {n}
    IN  [m EXCEPT
          !.known = [a \in Nodes |->
              IF a \in above THEN @[a] \ m.known[n] ELSE @[a]],
          !.possible = [a \in Nodes |->
              IF a \in above THEN @[a] \ (m.known[n] \cup m.possible[n]) ELSE @[a]]]

\* refuted instances move to the parents: as possible ones, except that the
\* top node, once it has an element, takes them as known
PushToParents(m, n, refuted) ==
    LET up(p) == p \in Parents(n)
        asKnown(p) == p = Top /\ p \in m.elements
    IN  [m EXCEPT
          !.elements = @ \cup Parents(n),
          !.known = [p \in Nodes |->
              IF up(p) /\ asKnown(p) THEN @[p] \cup refuted ELSE @[p]],
          !.possible = [p \in Nodes |->
              IF up(p) /\ ~asKnown(p) THEN AddPossible(m, p, refuted) ELSE @[p]]]

\* one node of realize, given the possible instances its test confirms
RealizeNode(m, n, confirmed) ==
    LET refuted == m.possible[n] \ confirmed
        tested == [m EXCEPT !.known[n] = @ \cup confirmed, !.possible[n] = {}]
    IN  IF m.possible[n] = {} THEN m ELSE PushToParents(tested, n, refuted)

-----------------------------------------------------------------------------
(* Queries on the realised manager.                                        *)

IsKnownOfDescendant(n, i) ==
    \E d \in Descendants(n) \ {Bottom} : i \in mgr.known[d]

\* mutant: only the known instances of the node itself
CollectInstancesHere(n, direct) == mgr.known[n]

CollectInstances(n, direct) ==
    IF direct
    THEN {i \in mgr.known[n] : ~\E c \in Children(n) : IsKnownOfDescendant(c, i)}
    ELSE UNION {mgr.known[d] : d \in Descendants(n) \ {Bottom}}

GetInstances(n, direct) ==
    IF n = Bottom THEN {}
    ELSE IF ~direct /\ n = Top THEN Individuals
    ELSE CollectInstances(n, direct)

GetTypesOf(i, direct) ==
    LET types == UNION {Ancestors(n) : n \in {k \in Nodes : i \in mgr.known[k]}}
    IN  IF direct THEN MinimalNodes(types) ELSE types

\* InstanceManager::get_types: the unseeded manager, which tests while it
\* walks the hierarchy bottom up, from possible instances at `seeds`.
\* State of the walk: the nodes where the individual is possible and known.
GetTypes(i, seeds, direct) ==
    LET Visit(s, n) ==
          IF Children(n) \cap s.types # {}
          THEN [s EXCEPT !.types = @ \cup {n}]
          ELSE IF n \notin s.possible THEN s
          ELSE IF n \in input.truth[i] THEN [s EXCEPT !.types = @ \cup {n}]
          ELSE [s EXCEPT !.possible = @ \cup Parents(n)]
        end == FoldLeft(Visit, [types |-> {}, possible |-> seeds],
                        [k \in 1 .. Mids + 2 |-> k - 1])
    IN  IF direct THEN MinimalNodes(end.types) ELSE end.types

\* the services instances and get_types: without a manager the ontology is
\* taken for inconsistent, and everything is an instance of everything
InstancesService(n, direct) ==
    IF phase = "none" THEN Individuals
    ELSE IF direct THEN {i \in Individuals : n \in GetTypesOf(i, TRUE)}
    ELSE GetInstances(n, FALSE)

TypesService(i, direct) ==
    IF phase = "none" THEN Nodes
    ELSE IF direct THEN GetTypesOf(i, TRUE) ELSE GetTypesOf(i, FALSE) \cup {Top}

-----------------------------------------------------------------------------
(* Class expressions: the query concept q is placed in the hierarchy with  *)
(* the nodes it subsumes (down) and those that subsume it (up).            *)

Maximal(s) == {n \in s : ~\E m \in s : Less(n, m)}
Minimal(s) == {n \in s : ~\E m \in s : Less(m, n)}

\* find_position: the node q is equivalent to, or the nodes it is between
QueryChildren(q) ==
    LET same == q.up \cap q.down
    IN  IF same # {} THEN UNION {Children(n) : n \in same} ELSE Maximal(q.down)
QueryParents(q) ==
    LET same == q.up \cap q.down
    IN  IF same # {} THEN UNION {Parents(n) : n \in same} ELSE Minimal(q.up)

\* the nodes the sibling walk visits: down from q's parents, not through
\* q's children
Walk(q) ==
    LET start == QueryParents(q) \ QueryChildren(q)
        Step(s) == s \cup (UNION {Children(n) : n \in s} \ QueryChildren(q))
        W[k \in 0 .. Mids + 2] == IF k = 0 THEN start ELSE Step(W[k - 1])
    IN  W[Mids + 2]

InstancesOfExpression(q) ==
    (IF q.direct THEN {}
     ELSE UNION {GetInstances(c, FALSE) : c \in QueryChildren(q)})
    \cup (UNION {GetInstances(n, TRUE) : n \in Walk(q)} \cap q.members)

-----------------------------------------------------------------------------
(* Building the manager.                                                   *)

\* what the saturated model may look like, given what is entailed: it
\* satisfies every entailed label, labels without choices are entailed, and
\* individuals merged without a choice are the same
ModelOf(truth, canonical, labels, deterministic) ==
    \A i \in Individuals :
        /\ canonical[canonical[i]] = canonical[i]
        /\ truth[i] \subseteq labels[canonical[i]]
        /\ deterministic[i] \subseteq truth[i]
        /\ canonical[i] # i => /\ labels[i] = {} /\ deterministic[i] = {}
                               /\ BranchMerges \/ truth[i] = truth[canonical[i]]

NoQuery == [up |-> {}, down |-> {}, members |-> {}, direct |-> FALSE, asked |-> FALSE]

Init ==
    /\ \E below \in Orders, canonical \in [Individuals -> Individuals],
          consistent \in BOOLEAN :
        \E truth, labels \in [Individuals -> UpSets(below)] :
        \E deterministic \in {f \in [Individuals -> SUBSET (1 .. Mids)] :
                                \A i \in Individuals : f[i] \subseteq truth[i]} :
          /\ ModelOf(truth, canonical, labels, deterministic)
          /\ consistent \/ \A i \in Individuals : truth[i] = 1 .. Mids
          /\ input = [below |-> below, truth |-> [i \in Individuals |->
                                   IF consistent THEN truth[i] \cup {Top} ELSE Nodes],
                      canonical |-> canonical, labels |-> labels,
                      deterministic |-> deterministic, consistent |-> consistent]
    /\ mgr = EmptyManager
    /\ phase = "saturate"
    /\ queue = <<>> /\ queued = {} /\ visited = {}
    /\ query = NoQuery

\* saturate_for_instances: no model when the ontology is inconsistent, and
\* none either when the saturation is interrupted
Saturate ==
    /\ phase = "saturate"
    /\ phase' \in {p \in {"read", "none"} :
                     /\ p = "read" => input.consistent
                     /\ p = "none" => ~input.consistent \/ SaturationTimesOut}
    /\ UNCHANGED <<input, mgr, queue, queued, visited, query>>

ReadOff ==
    /\ phase = "read"
    /\ mgr' = FoldLeft(LAMBDA m, i : SeedTopKnown(
                            ReadOffTypes(m, i, ReadOffNodeConcepts(i)), i),
                       mgr, SetToSeq(Individuals))
    /\ queue' \in SetToSeqs(Parents(Bottom))
    /\ queued' = Parents(Bottom)
    /\ phase' = "normalize"
    /\ UNCHANGED <<input, visited, query>>

\* a node without an element ends the way up through it
NormalizeVisit ==
    /\ phase = "normalize" /\ queue # <<>>
    /\ LET n == Head(queue)
           new == Parents(n) \ queued
       IN  IF n \in mgr.elements
           THEN /\ mgr' = StripAncestors(mgr, n)
                /\ \E s \in SetToSeqs(new) : queue' = Tail(queue) \o s
                /\ queued' = queued \cup new
           ELSE queue' = Tail(queue) /\ UNCHANGED <<mgr, queued>>
    /\ UNCHANGED <<input, phase, visited, query>>

NormalizeDone ==
    /\ phase = "normalize" /\ queue = <<>>
    /\ phase' = IF mgr.found THEN "realize" ELSE "realized"
    /\ visited' = {Bottom}
    /\ UNCHANGED <<input, mgr, queue, queued, query>>

\* a node is visited once all its children have been
Ready == {n \in Nodes \ visited : Children(n) \subseteq visited}

RealizeVisit ==
    /\ phase = "realize"
    /\ \E n \in Ready :
        /\ \E failed \in IF OracleFails THEN SUBSET mgr.possible[n] ELSE {{}} :
             mgr' = RealizeNode(mgr, n,
                      {i \in mgr.possible[n] \ failed : n \in input.truth[i]})
        /\ visited' = visited \cup {n}
    /\ UNCHANGED <<input, phase, queue, queued, query>>

RealizeDone ==
    /\ phase = "realize" /\ visited = Nodes
    /\ phase' = "realized"
    /\ mgr' = [mgr EXCEPT !.found = FALSE]
    /\ UNCHANGED <<input, queue, queued, visited, query>>

\* instances_of_expression on the finished manager, for an expression whose
\* place and members are consistent with what is entailed; it may be
\* equivalent to any node, top and bottom included
Ask ==
    /\ phase = "realized" /\ ~query.asked
    /\ \E d \in SUBSET (1 .. Top), u \in SUBSET (Bottom .. Mids),
          members \in SUBSET Individuals, direct \in BOOLEAN :
        LET down == d \cup {Bottom}
            up == u \cup {Top}
        IN  /\ \A n \in down : Descendants(n) \subseteq down
            /\ \A n \in up : Ancestors(n) \subseteq up
            /\ \A x \in down, y \in up : x = y \/ Less(x, y)
            /\ \A i \in Individuals :
                /\ i \in members => up \subseteq input.truth[i]
                /\ down \cap input.truth[i] # {} => i \in members
            /\ query' = [up |-> up, down |-> down, members |-> members,
                         direct |-> direct, asked |-> TRUE]
    /\ UNCHANGED <<input, mgr, phase, queue, queued, visited>>

Build ==
    Saturate \/ ReadOff \/ NormalizeVisit \/ NormalizeDone \/ RealizeVisit \/ RealizeDone

Next == Build \/ Ask

Spec == Init /\ [][Next]_vars /\ WF_vars(Build)

-----------------------------------------------------------------------------
(* Properties.                                                             *)

\* What the manager records as KNOWN is entailed, at every moment of the
\* read-off and of realize().
KnownEntailed ==
    \A n \in Nodes : \A i \in mgr.known[n] : n \in input.truth[i]

\* realize() leaves no possible instance, and an individual is an instance of
\* a node exactly when it is known at the node or at a descendant, whatever
\* normalisation stripped and in whatever order the nodes were visited.
RealizationExact ==
    phase = "realized" =>
        \A n \in Nodes \ {Bottom} :
            /\ mgr.possible[n] = {}
            /\ {i \in Individuals : IsKnownOfDescendant(n, i)}
               = {i \in Individuals : n \in input.truth[i]}

\* The services answer what is entailed, their direct forms only the most
\* specific nodes, and the two ways to direct instances agree: by the direct
\* types of each individual and by get_instances.
QueriesExact ==
    phase \in {"realized", "none"} =>
        LET types(i, direct) ==
              IF direct /\ input.consistent THEN MinimalNodes(input.truth[i]) ELSE input.truth[i]
        IN  \A direct \in BOOLEAN, n \in Nodes, i \in Individuals :
              /\ (i \in InstancesService(n, direct)) = (n \in types(i, direct))
              /\ TypesService(i, direct) = types(i, direct)
              /\ phase = "realized" => (i \in GetInstances(n, direct)) = (n \in types(i, direct))

\* InstanceManager::get_types finds the types of an individual from any seeding
\* that marks it possible at the most specific labels of its node, although it
\* tests only nodes marked possible.
GetTypesExact ==
    phase = "saturate" /\ input.consistent =>
        \A i \in Individuals :
            LET labels == input.labels[input.canonical[i]] \cup {Top}
            IN  \A extra \in SUBSET labels :
                LET seeds == MinimalNodes(labels) \cup extra
                IN  /\ GetTypes(i, seeds, FALSE) = input.truth[i]
                    /\ GetTypes(i, seeds, TRUE) = MinimalNodes(input.truth[i])

\* the members of the expression that are instances of a named class strictly
\* below it
InSubclass(q) == {i \in q.members : (q.down \ q.up) \cap input.truth[i] # {}}

\* For an expression that is not equivalent to owl:Thing, the walk of
\* instances_of_expression misses no instance and adds none, although it tests
\* only direct instances of nodes beside the expression.  A direct query finds
\* every instance that is in no named class strictly below the expression; of
\* the others it returns only some that have, besides, a type that is neither
\* above nor below the expression.
ExpressionInstancesExact ==
    query.asked /\ Top \notin query.down =>
        LET found == InstancesOfExpression(query)
            beside == {i \in Individuals : input.truth[i] \ (query.up \cup query.down) # {}}
        IN  IF query.direct
            THEN /\ query.members \ InSubclass(query) \subseteq found
                 /\ found \subseteq query.members \ (InSubclass(query) \ beside)
            ELSE found = query.members

\* What instances_of_expression is documented to return: "the members for
\* direct=false are exactly the named individuals entailed to be instances",
\* and "for direct=true we additionally drop any individual that is also an
\* instance of a NAMED class strictly subsumed".
ExpressionInstancesAsDocumented ==
    query.asked =>
        InstancesOfExpression(query) =
            IF query.direct THEN query.members \ InSubclass(query) ELSE query.members

=============================================================================
