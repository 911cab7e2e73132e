---------------------------- MODULE RoleInstances ----------------------------
(***************************************************************************)
(* SeededRoleInstanceManager: known and possible pairs of individuals per  *)
(* node of the object role hierarchy, read off the model, optionally       *)
(* realised, and resolved by the queries themselves.  An operation changes *)
(* the manager as it answers, so the order of the queries matters.         *)
(***************************************************************************)
EXTENDS Integers, Sequences, FiniteSets, SequencesExt

CONSTANTS
    Individuals,  \* individuals that occur in pairs
    Relevant,     \* all_individuals: those the queries are about
    Pairs,        \* the pairs the model has labels for
    Mids,         \* role hierarchy nodes between top and bottom
    MaxQueries    \* bound on the number of queries

Bottom == 0
Top == Mids + 1
Nodes == Bottom .. Top
AllPairs == Individuals \X Individuals

VARIABLES
    input,   \* hierarchy, entailed pairs and the labels of the model
    unread,  \* labels not yet read off
    mgr,     \* node_to_element, reading_off_found_possible and inconsistent
    phase,   \* read, then query or, after realize_object_roles, realized
    queries, \* number of queries so far
    last     \* the last query and its answer

vars == <<input, unread, mgr, phase, queries, last>>

-----------------------------------------------------------------------------
Less(x, y) == x # y /\ (x = Bottom \/ y = Top \/ <<x, y>> \in input.below)
Children(n) ==
    {c \in Nodes : Less(c, n) /\ ~\E m \in Nodes : Less(c, m) /\ Less(m, n)}
Parents(n) == {p \in Nodes : n \in Children(p)}
Above(n) == {a \in Nodes : Less(n, a)}
Below(n) == {d \in Nodes : Less(d, n)}

Orders ==
    {r \in SUBSET {p \in (1 .. Mids) \X (1 .. Mids) : p[1] < p[2]} :
        \A p, q \in r : p[2] = q[1] => <<p[1], q[2]>> \in r}
UpSets(r) ==
    {s \in SUBSET (1 .. Mids) : \A p \in r : p[1] \in s => p[2] \in s}

\* the is_role_instance oracle: entailment
IsRoleInstance(n, p) ==
    n = Top \/ ~input.consistent \/ (p \in Pairs /\ n \in input.truth[p])

-----------------------------------------------------------------------------
(* Changes of the manager.                                                 *)

AddKnownRoleInstance(m, n, p) ==
    IF n = Top \/ \E d \in Below(n) : p \in m.known[d] THEN m
    ELSE [m EXCEPT !.known = [k \in Nodes |->
             IF k = n THEN @[k] \cup {p}
             ELSE IF k \in Above(n) THEN @[k] \ {p} ELSE @[k]]]

AddPossibleRoleInstance(m, n, p) ==
    IF n = Top \/ \E d \in Below(n) : p \in m.possible[d] THEN m
    ELSE [m EXCEPT
            !.found = TRUE,
            !.possible = [k \in Nodes |->
             IF k = n THEN @[k] \cup {p}
             ELSE IF k \in Above(n) THEN @[k] \ {p} ELSE @[k]]]

SetToKnown(m, n, p) ==
    [m EXCEPT !.possible[n] = @ \ {p}, !.known[n] = @ \cup {p}]

\* mutant: the refuted pair is not pushed to the parents
PushNothing(m, n, ps) == [m EXCEPT !.possible[n] = @ \ ps]

PushToParents(m, n, ps) ==
    [m EXCEPT !.possible =
        [k \in Nodes |-> IF k \in Parents(n) THEN @[k] \cup ps ELSE @[k]]]

\* possible pairs `ps` of node n are tested, and the refuted ones pushed
Resolve(m, n, ps) ==
    LET yes == {p \in ps : IsRoleInstance(n, p)}
        sure == [m EXCEPT !.possible[n] = @ \ yes, !.known[n] = @ \cup yes]
    IN  PushToParents(sure, n, ps \ yes)

\* realize_object_roles: one node.  A refuted pair <<s, t>> reaches the parents
\* as <<s, s>>.
RealizeNode(m, n) ==
    LET yes == {p \in m.possible[n] : IsRoleInstance(n, p)}
        no  == {<<p[1], p[1]>> : p \in m.possible[n] \ yes}
    IN  [m EXCEPT
           !.known[n] = @ \cup yes,
           !.possible = [k \in Nodes |->
               IF k = n THEN {}
               ELSE IF k \in Parents(n) \ {Top} THEN @[k] \cup no ELSE @[k]]]

\* breadth first upward from the bottom node
RECURSIVE RealizeFrom(_, _, _)
RealizeFrom(m, toProcess, visited) ==
    IF toProcess = <<>> THEN [m EXCEPT !.found = FALSE]
    ELSE LET n == Head(toProcess)
             new == Parents(n) \ (visited \cup {toProcess[k] : k \in DOMAIN toProcess})
         IN  IF n \in visited THEN RealizeFrom(m, Tail(toProcess), visited)
             ELSE RealizeFrom(RealizeNode(m, n),
                              Tail(toProcess) \o SetToSortSeq(new, <), visited \cup {n})

RealizeObjectRoles(m) ==
    IF m.found THEN RealizeFrom(m, <<Bottom>>, {}) ELSE m

-----------------------------------------------------------------------------
(* The queries: they walk down from a node, children in some order, and    *)
(* return the changed manager with the pairs found.                        *)

ChildOrder(n, asc) ==
    IF asc THEN SetToSortSeq(Children(n), <) ELSE SetToSortSeq(Children(n), >)

\* getObjectPropertyInstances: every possible pair is tested and pushed, also
\* one about individuals that are not relevant
RECURSIVE CollectInstances(_, _, _)
CollectInstances(m, n, asc) ==
    IF n = Top \/ m.inconsistent THEN [mgr |-> m, found |-> Relevant \X Relevant]
    ELSE LET here == Resolve(m, n, m.possible[n])
             Down(r, c) ==
               LET d == CollectInstances(r.mgr, c, asc)
               IN  [mgr |-> d.mgr, found |-> r.found \cup d.found]
         IN  FoldLeft(Down, [mgr |-> here, found |-> here.known[n] \cap (Relevant \X Relevant)],
                      ChildOrder(n, asc))

\* getObjectPropertyValues: only the possible pairs of the subject
RECURSIVE CollectValues(_, _, _, _)
CollectValues(m, n, subject, asc) ==
    IF n = Top \/ m.inconsistent THEN [mgr |-> m, found |-> {subject} \X Relevant]
    ELSE LET here == Resolve(m, n, {p \in m.possible[n] : p[1] = subject})
             Down(r, c) ==
               LET d == CollectValues(r.mgr, c, subject, asc)
               IN  [mgr |-> d.mgr, found |-> r.found \cup d.found]
         IN  FoldLeft(Down, [mgr |-> here, found |-> here.known[n] \cap ({subject} \X Relevant)],
                      ChildOrder(n, asc))

\* getObjectPropertySubjects: every possible subject that is not confirmed is
\* pushed to the parents with the object asked about
RECURSIVE CollectSubjects(_, _, _, _)
CollectSubjects(m, n, object, asc) ==
    IF n = Top \/ m.inconsistent THEN [mgr |-> m, found |-> Relevant \X {object}]
    ELSE LET known == {p \in m.known[n] : p[1] \in Relevant /\ p[2] = object}
             keys == {p[1] : p \in m.possible[n]}
             yes == {p \in m.possible[n] :
                       p[1] \in Relevant /\ p[2] = object /\ IsRoleInstance(n, p)}
             no == {<<s, object>> : s \in keys \ {p[1] : p \in yes}}
             sure == [m EXCEPT !.possible[n] = @ \ yes, !.known[n] = @ \cup yes]
             Down(r, c) ==
               LET d == CollectSubjects(r.mgr, c, object, asc)
               IN  [mgr |-> d.mgr, found |-> r.found \cup d.found]
         IN  FoldLeft(Down, [mgr |-> PushToParents(sure, n, no), found |-> known \cup yes],
                      ChildOrder(n, asc))

\* hasObjectRoleRelationship: an individual outside Relevant is always tested
RECURSIVE HasRelationship(_, _, _, _)
HasRelationship(m, n, p, asc) ==
    LET unknown == ~{p[1], p[2]} \subseteq Relevant
        Down(r, c) == IF r.found # {} THEN r ELSE HasRelationship(r.mgr, c, p, asc)
    IN  IF n = Top \/ p \in m.known[n] THEN [mgr |-> m, found |-> {p}]
        ELSE IF p \in m.possible[n] \/ unknown
        THEN IF IsRoleInstance(n, p)
             THEN [mgr |-> IF unknown THEN m ELSE SetToKnown(m, n, p), found |-> {p}]
             ELSE [mgr |-> PushToParents(m, n, {p}), found |-> {}]
        ELSE FoldLeft(Down, [mgr |-> m, found |-> {}], ChildOrder(n, asc))

-----------------------------------------------------------------------------
NoQuery == [kind |-> "none", node |-> Top, asked |-> {}, found |-> {}]

\* an inconsistent ontology has no model to read off, and set_inconsistent is
\* called instead
Init ==
    /\ \E below \in Orders, consistent \in BOOLEAN :
        \E truth, labels \in [Pairs -> UpSets(below)],
           known \in [Pairs -> SUBSET (1 .. Mids)] :
          /\ \A p \in Pairs : known[p] \subseteq truth[p] /\ truth[p] \subseteq labels[p]
          /\ consistent \/ \A p \in Pairs : labels[p] = {}
          /\ input = [below |-> below, truth |-> truth, labels |-> labels, known |-> known,
                      consistent |-> consistent]
    /\ unread = {<<p, n>> \in Pairs \X (1 .. Mids) : n \in input.labels[p]}
    /\ mgr = [known |-> [n \in Nodes |-> {}], possible |-> [n \in Nodes |-> {}], found |-> FALSE,
              inconsistent |-> ~input.consistent]
    /\ phase = "read"
    /\ queries = 0
    /\ last = NoQuery

\* labels are read off in any order
ReadOff ==
    /\ phase = "read"
    /\ \E l \in unread :
        /\ unread' = unread \ {l}
        /\ mgr' = IF l[2] \in input.known[l[1]]
                  THEN AddKnownRoleInstance(mgr, l[2], l[1])
                  ELSE AddPossibleRoleInstance(mgr, l[2], l[1])
    /\ UNCHANGED <<input, phase, queries, last>>

ReadOffDone ==
    /\ phase = "read" /\ unread = {}
    /\ phase' \in {"query", "realized"}
    /\ mgr' = IF phase' = "realized" THEN RealizeObjectRoles(mgr) ELSE mgr
    /\ UNCHANGED <<input, unread, queries, last>>

Answer(kind, n, asked, r) ==
    /\ phase # "read" /\ queries < MaxQueries
    /\ mgr' = r.mgr
    /\ last' = [kind |-> kind, node |-> n, asked |-> asked, found |-> r.found]
    /\ queries' = queries + 1
    /\ UNCHANGED <<input, unread, phase>>

GetInstances(n, asc) ==
    Answer("instances", n, Relevant \X Relevant, CollectInstances(mgr, n, asc))

GetValues(n, s, asc) ==
    Answer("values", n, {s} \X Relevant, CollectValues(mgr, n, s, asc))

GetSubjects(n, o, asc) ==
    Answer("subjects", n, Relevant \X {o}, CollectSubjects(mgr, n, o, asc))

Has(n, p, asc) ==
    Answer("has", n, {p}, HasRelationship(mgr, n, p, asc))

Next ==
    \/ ReadOff
    \/ ReadOffDone
    \/ \E n \in Nodes, asc \in BOOLEAN :
        \/ GetInstances(n, asc)
        \/ \E i \in Relevant : GetValues(n, i, asc) \/ GetSubjects(n, i, asc)
        \/ \E p \in AllPairs : Has(n, p, asc)

Spec == Init /\ [][Next]_vars

-----------------------------------------------------------------------------
(* Properties.                                                             *)

\* Every answer and every pair recorded as known is entailed, whatever the
\* order of the queries and whatever realize_object_roles pushed.
RoleAnswersSound ==
    /\ \A n \in Nodes : \A p \in mgr.known[n] : IsRoleInstance(n, p)
    /\ \A p \in last.found : IsRoleInstance(last.node, p)

\* add_known_role_instance keeps a pair at its most specific known nodes only,
\* in whatever order the labels of the model are read off.
KnownMostSpecific ==
    phase = "read" => \A n \in Nodes : \A a \in Above(n) : mgr.known[n] \cap mgr.known[a] = {}

\* Without realize_object_roles no entailed pair is lost: it stays known or
\* possible at the node or below it, so that a later query can still find it.
NoPairLost ==
    unread = {} /\ phase # "realized" /\ input.consistent =>
        \A p \in Pairs : \A n \in input.truth[p] :
            \E d \in Below(n) \cup {n} : p \in mgr.known[d] \cup mgr.possible[d]

\* Without realize_object_roles an answer misses an entailed pair only when the
\* walk refuted the pair at a lower node and pushed it to one it had already
\* read: the pair is now possible at the node asked about or between the two.
\* (On an inconsistent ontology has_object_role_relationship, which does not
\* look at the inconsistent flag, may miss pairs otherwise.)
MissedStaysPossible ==
    phase = "query" /\ last.kind # "none" /\ (input.consistent \/ last.kind # "has") =>
        \A p \in last.asked \ last.found :
            IsRoleInstance(last.node, p) =>
                \E d \in Below(last.node) \cup {last.node} :
                    /\ p \in mgr.possible[d]
                    /\ \E c \in Below(d) \ {Bottom} : ~IsRoleInstance(c, p)

=============================================================================
