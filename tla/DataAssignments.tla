-------------------------- MODULE DataAssignments --------------------------
(***************************************************************************)
(* The datatype check of a tableau (tableau/datatype_manager.rs): whether  *)
(* the data nodes can take values from their data ranges that differ where *)
(* an inequality or a negative data property assertion demands it.  Nodes  *)
(* are checked alone, then every component of the inequality graph: a      *)
(* clique over one value space by counting, any other by eliminating nodes *)
(* with more values than neighbours, listing the values of the others, and *)
(* matching or searching.  A clash carries the assertions it rests on.     *)
(*                                                                         *)
(* A value space is a set of values, infinite if it is all of Values,      *)
(* which has more elements than there are nodes.                           *)
(***************************************************************************)
EXTENDS Integers, Sequences, FiniteSets, FiniteSetsExt, SequencesExt

CONSTANTS
  Values, NodeCount,
  Ranges, Contents,      \* data ranges and what they contain
  Unsupported,           \* ranges with a facet their datatype does not support
  Datatype, Space,       \* range -> its datatype, "none" for an enumeration; datatype -> its values
  Listable,              \* datatypes whose value spaces can be listed on demand
  MaxEnumeratedValues,
  Problems               \* the assertions asked about

Nodes == 1..NodeCount

VARIABLES
  p,          \* the problem: fixed values, ranges in assertion order, inequalities, dp and negated dp assertions
  phase, clash, \* clash: the assertions a clash rests on, none or one set of them
  edges,      \* the inequalities that are left to the components, with their assertions
  assigned,   \* the variables whose component was decided
  component, adjacency,
  alive,      \* the nodes of the component not yet eliminated
  left,       \* the survivors whose own component is yet to be decided
  order, chosen, next   \* the search: its nodes, the values chosen so far, the least value to try

vars == <<p, phase, clash, edges, assigned, component, adjacency, alive, left, order, chosen, next>>
component_vars == <<component, adjacency, alive, left, order, chosen, next>>

(***************************************************************************)
(* Nodes and their value spaces.  IllValue is the value of a literal that  *)
(* is not in the lexical space of its datatype.                               *)
(***************************************************************************)
NoValue == 0
IllValue == -1
IsConstant(n) == p.fixed[n] # NoValue
RangeDeps(n) == {<<"range", n, r>> : r \in ToSet(p.ranges[n])}
Conjunction(n) == {v \in Values : \A r \in ToSet(p.ranges[n]) : v \in Contents[r]}
ValueSpace(n) == IF IsConstant(n) THEN {p.fixed[n]} ELSE Conjunction(n)
Infinite(n) == ~IsConstant(n) /\ ValueSpace(n) = Values
Restrictions(n) == SelectSeq(p.ranges[n], LAMBDA r : Datatype[r] # "none")
DatatypesDisjoint(d, e) == Space[d] \cap Space[e] = {}

\* The values are at hand: a constant, an enumeration, or a space that is not large.
Listed(n) == \/ IsConstant(n) \/ Len(Restrictions(n)) < Len(p.ranges[n])
             \/ Cardinality(ValueSpace(n)) =< MaxEnumeratedValues
Materialized(n) == Listed(n) \/ \A r \in ToSet(Restrictions(n)) : Datatype[r] \in Listable

MostSpecificRange(n) ==
  LET Refine(ms, r) == IF ms = <<>> THEN <<r>>
                       ELSE IF ~DatatypesDisjoint(Datatype[ms[1]], Datatype[r])
                               /\ Space[Datatype[r]] \subseteq Space[Datatype[ms[1]]] THEN <<r>>
                       ELSE ms
  IN FoldLeft(Refine, <<>>, Restrictions(n))

\* The first restriction disjoint from the most specific one before it, with that one.
DisjointPair(n) ==
  LET Step(s, r) ==
        CASE s.pair # {} -> s
          [] s.ms = <<>> -> [s EXCEPT !.ms = <<r>>]
          [] DatatypesDisjoint(Datatype[s.ms[1]], Datatype[r]) -> [s EXCEPT !.pair = {s.ms[1], r}]
          [] Space[Datatype[r]] \subseteq Space[Datatype[s.ms[1]]] -> [s EXCEPT !.ms = <<r>>]
          [] OTHER -> s
  IN FoldLeft(Step, [ms |-> <<>>, pair |-> {}], Restrictions(n)).pair

Init ==
  /\ p \in Problems /\ phase = "nodes" /\ clash = {} /\ edges = {} /\ assigned = {}
  /\ component = {} /\ adjacency = {} /\ alive = {} /\ left = {} /\ order = <<>> /\ chosen = <<>> /\ next = 1

SetClash(deps) == clash' = {deps} /\ phase' = "done"

(***************************************************************************)
(* check_datatype_constraints_impl: each node alone.  The conjunction      *)
(* check need not notice every empty conjunction; seen are the nodes where *)
(* it does.                                                                *)
(***************************************************************************)
IllTyped(n) == p.fixed[n] = IllValue
HasUnsupported(n) == ToSet(p.ranges[n]) \cap Unsupported # {}
Unsatisfiable(n) == IF IsConstant(n) THEN p.fixed[n] \notin Conjunction(n) ELSE Conjunction(n) = {}
NodeClash(n) ==
  IF IllTyped(n) THEN {{}}
  ELSE IF HasUnsupported(n) THEN {{<<"range", n, r>>} : r \in ToSet(p.ranges[n]) \cap Unsupported}
  ELSE IF DisjointPair(n) # {} THEN {{<<"range", n, r>> : r \in DisjointPair(n)}}
  ELSE {RangeDeps(n)}
CheckNodes ==
  /\ phase = "nodes"
  /\ \E seen \in SUBSET {n \in Nodes : ~IsConstant(n) /\ Unsatisfiable(n)} :
       LET bad == {n \in Nodes : IllTyped(n) \/ HasUnsupported(n) \/ n \in seen \/ (IsConstant(n) /\ Unsatisfiable(n))}
       IN IF bad = {} THEN phase' = "edges" /\ UNCHANGED clash
          ELSE \E deps \in NodeClash(Min(bad)) : SetClash(deps)
  /\ UNCHANGED <<p, edges, assigned, component_vars>>

(***************************************************************************)
(* check_data_value_assignments: the inequalities between data nodes, and  *)
(* those a negated data property assertion demands; the ones of a node     *)
(* with itself and of two fixed values are decided at once.                *)
(***************************************************************************)
AllEdges == {[pair |-> e, deps |-> {<<"neq", e>>}] : e \in p.inequalities}
            \cup {[pair |-> <<y, c>>, deps |-> {<<"ndp", c>>, <<"dp", y>>}] : y \in p.dp, c \in p.ndp}
BothConstant(e) == IsConstant(e.pair[1]) /\ IsConstant(e.pair[2])
ReadEdges ==
  /\ phase = "edges"
  /\ LET bad == {e \in AllEdges : \/ e.pair[1] = e.pair[2]
                                  \/ BothConstant(e) /\ p.fixed[e.pair[1]] = p.fixed[e.pair[2]]}
     IN IF bad # {} THEN (\E e \in bad : SetClash(e.deps)) /\ UNCHANGED edges
        ELSE edges' = {e \in AllEdges : ~BothConstant(e)} /\ phase' = "spaces" /\ UNCHANGED clash
  /\ UNCHANGED <<p, assigned, component_vars>>

\* An empty value space that the check of the node alone did not notice.
CheckSpaces ==
  /\ phase = "spaces"
  /\ LET empty == {n \in Nodes : ValueSpace(n) = {}}
     IN IF empty # {} THEN SetClash(RangeDeps(Min(empty)))
        ELSE phase' = (IF edges = {} THEN "done" ELSE "components") /\ UNCHANGED clash
  /\ UNCHANGED <<p, edges, assigned, component_vars>>

(***************************************************************************)
(* The components: constants belong to every component next to them and    *)
(* do not connect what is on their two sides.                              *)
(***************************************************************************)
Adjacent(E, n) == {m \in Nodes : \E e \in E : e.pair \in {<<n, m>>, <<m, n>>}}
Closure(step, n) == LET f[k \in 0..NodeCount] == IF k = 0 THEN {n} ELSE f[k - 1] \cup UNION {step[m] : m \in f[k - 1]}
                    IN f[NodeCount]
Through(m) == IF IsConstant(m) THEN {} ELSE Adjacent(edges, m)
Variables == {n \in Nodes \ assigned : ~IsConstant(n) /\ Adjacent(edges, n) # {}}
SameSpace(m, n) == \/ Infinite(m) /\ Infinite(n)
                   \/ ~Infinite(m) /\ ~Infinite(n) /\ Listed(m) /\ Listed(n) /\ ValueSpace(m) = ValueSpace(n)
SameRestrictions(C) == \A m, n \in C : ~IsConstant(m) /\ ToSet(p.ranges[m]) = ToSet(p.ranges[n])
Disjoint(m, n) == LET ms == MostSpecificRange(m) ns == MostSpecificRange(n)
                  IN ms # <<>> /\ ns # <<>> /\ DatatypesDisjoint(Datatype[ms[1]], Datatype[ns[1]])

\* The assertions behind a component: of several edges of a pair, those of one.
EdgesWithin(C) == {e \in edges : e.pair[1] \in C /\ e.pair[2] \in C}

ComponentDeps(C) ==
  LET pairs == {{e.pair[1], e.pair[2]} : e \in EdgesWithin(C)}
      Of(q) == {e.deps : e \in {d \in EdgesWithin(C) : {d.pair[1], d.pair[2]} = q}}
  IN {UNION {RangeDeps(n) : n \in C} \cup UNION {f[q] : q \in pairs} :
        f \in {g \in [pairs -> UNION {Of(q) : q \in pairs}] : \A q \in pairs : g[q] \in Of(q)}}
ComponentClash == \E deps \in ComponentDeps(component) : SetClash(deps)

\* The lowest variable's component: a clique over one value space is decided by counting.
NextComponent ==
  /\ phase = "components"
  /\ IF Variables = {}
     THEN phase' = "done" /\ UNCHANGED <<clash, assigned, component_vars>>
     ELSE LET C == Closure([m \in Nodes |-> Through(m)], Min(Variables))
              E == EdgesWithin(C)
              clique == \A n \in C : Adjacent(E, n) = C \ {n}
              counted == clique /\ (SameRestrictions(C) \/ \A n \in C : SameSpace(Min(C), n))
              short == ~Infinite(Min(C)) /\ Cardinality(ValueSpace(Min(C))) < Cardinality(C)
          IN /\ component' = C /\ assigned' = assigned \cup {n \in C : ~IsConstant(n)}
             /\ adjacency' = [n \in C |-> {m \in Adjacent(E, n) : ~Disjoint(n, m)}]
             /\ alive' = C /\ UNCHANGED <<left, order, chosen, next>>
             /\ IF counted /\ short THEN \E deps \in ComponentDeps(C) : SetClash(deps)
                ELSE phase' = (IF counted THEN "components" ELSE "eliminate") /\ UNCHANGED clash
  /\ UNCHANGED <<p, edges>>

\* As many values as neighbours taken for enough.
EnoughForNeighbours(n) == Infinite(n) \/ Cardinality(ValueSpace(n)) >= Cardinality(adjacency[n] \cap alive)

\* A node with more values than neighbours left can always be given one.
Enough(n) == Infinite(n) \/ Cardinality(ValueSpace(n)) > Cardinality(adjacency[n] \cap alive)

Eliminate ==
  /\ phase = "eliminate"
  /\ \E n \in alive : Enough(n) /\ alive' = alive \ {n}
  /\ UNCHANGED <<p, phase, clash, edges, assigned, component, adjacency, left, order, chosen, next>>

\* What is left is listed; a space that cannot be listed ends the component without a clash.
Enumerate ==
  /\ phase = "eliminate" /\ \A n \in alive : ~Enough(n)
  /\ IF \A n \in alive : Materialized(n) THEN phase' = "survivors" /\ left' = alive
     ELSE phase' = "components" /\ UNCHANGED left
  /\ UNCHANGED <<p, clash, edges, assigned, component, adjacency, alive, order, chosen, next>>

(***************************************************************************)
(* The survivors: each component of theirs is matched if its nodes are     *)
(* pairwise adjacent (has_distinct_assignment, module Matching), searched  *)
(* otherwise, smallest value sets first.                                   *)
(***************************************************************************)
Surviving(n) == adjacency[n] \cap alive
HasDistinctAssignment(M) ==
  \E f \in [M -> Values] : /\ \A n \in M : f[n] \in ValueSpace(n)
                          /\ \A m, n \in M : m # n => f[m] # f[n]
SmallestFirst(q) == \A i, j \in DOMAIN q : i < j => Cardinality(ValueSpace(q[i])) =< Cardinality(ValueSpace(q[j]))
DecideSurvivors ==
  /\ phase = "survivors"
  /\ IF left = {} THEN phase' = "components" /\ UNCHANGED <<clash, left, order, chosen, next>>
     ELSE LET M == Closure([n \in alive |-> Surviving(n)], Min(left))
              clique == \A n \in M : Surviving(n) = M \ {n}
          IN /\ left' = left \ M
             /\ IF clique
                THEN /\ IF HasDistinctAssignment(M) THEN UNCHANGED <<phase, clash>> ELSE ComponentClash
                     /\ UNCHANGED <<order, chosen, next>>
                ELSE /\ order' \in {q \in [1..Cardinality(M) -> M] : IsInjective(q) /\ SmallestFirst(q)}
                     /\ chosen' = <<>> /\ next' = 1 /\ phase' = "search" /\ UNCHANGED clash
  /\ UNCHANGED <<p, edges, assigned, component, adjacency, alive>>

\* search: the next value that no neighbour holds; without one, back to the node before.
Position == Len(chosen) + 1
Taken == {chosen[i] : i \in {j \in DOMAIN chosen : order[j] \in adjacency[order[Position]]}}
Free == {v \in ValueSpace(order[Position]) : v >= next /\ v \notin Taken}

SearchStep ==
  /\ phase = "search" /\ Position =< Len(order) /\ Free # {}
  /\ chosen' = Append(chosen, Min(Free)) /\ next' = 1
  /\ UNCHANGED <<p, phase, clash, edges, assigned, component, adjacency, alive, left, order>>

SearchBack ==
  /\ phase = "search" /\ Position =< Len(order) /\ Free = {}
  /\ IF chosen = <<>> THEN ComponentClash /\ UNCHANGED <<chosen, next>>
     ELSE chosen' = Front(chosen) /\ next' = Last(chosen) + 1 /\ UNCHANGED <<phase, clash>>
  /\ UNCHANGED <<p, edges, assigned, component, adjacency, alive, left, order>>

SearchFound ==
  /\ phase = "search" /\ Position > Len(order) /\ phase' = "survivors"
  /\ UNCHANGED <<p, clash, edges, assigned, component, adjacency, alive, left, order, chosen, next>>

Done == phase = "done" /\ UNCHANGED vars

Next == \/ CheckNodes \/ ReadEdges \/ CheckSpaces \/ NextComponent \/ Eliminate \/ Enumerate
        \/ DecideSurvivors \/ SearchStep \/ SearchBack \/ SearchFound \/ Done

Spec == Init /\ [][Next]_vars

(***************************************************************************)
(* Whether values for all nodes satisfy a set of assertions.               *)
(***************************************************************************)
Assertions == UNION {RangeDeps(n) : n \in Nodes} \cup {<<"neq", e>> : e \in p.inequalities}
              \cup {<<"dp", y>> : y \in p.dp} \cup {<<"ndp", c>> : c \in p.ndp}
HasAssignment(A) ==
  \E f \in [Nodes -> Values] :
    /\ \A n \in Nodes : IsConstant(n) => f[n] = p.fixed[n]
    /\ \A n \in Nodes, r \in Ranges : <<"range", n, r>> \in A => f[n] \in Contents[r]
    /\ \A e \in p.inequalities : <<"neq", e>> \in A => f[e[1]] # f[e[2]]
    /\ \A y \in p.dp, c \in p.ndp : <<"dp", y>> \in A /\ <<"ndp", c>> \in A => f[y] # f[c]

(***************************************************************************)
(* Every component is decided: the check ends without a clash only if the  *)
(* data nodes have an assignment.                                          *)
(***************************************************************************)
NoClashMissed == phase = "done" /\ clash = {} => HasAssignment(Assertions)

(***************************************************************************)
(* A clash rests on what it names: the assertions of its dependency set    *)
(* have no assignment by themselves, so backtracking may jump over every   *)
(* choice that none of them depends on.                                    *)
(***************************************************************************)
ClashJustified == \A deps \in clash : deps \subseteq Assertions /\ ~HasAssignment(deps)
=============================================================================
