------------------------- MODULE DescriptionGraphs -------------------------
(***************************************************************************)
(* Description graphs in the tableau (tableau/                             *)
(* description_graph_manager.rs): per graph a table of tuples, one node    *)
(* per vertex, with the delta views and the backtracking of the other      *)
(* tables; per node a linked list of the places it occurs in a tuple,      *)
(* threaded through records that a free list recycles; the check that      *)
(* keeps graphs rigid, and the rewriting of tuples when nodes merge.       *)
(*                                                                         *)
(* Only clusters of root nodes are modelled: a graph node anchored by a    *)
(* named individual has no parent, so that a merge prunes nothing.  What   *)
(* clauses do is a merge of two active nodes, at most MaxMerges times; how *)
(* many atomic concepts a node has, which decides the direction of a       *)
(* merge, and which branching point a clash goes back to, are left open.   *)
(* Existentials are asked for at any active node, at is the one expanded.  *)
(***************************************************************************)
EXTENDS Naturals, Sequences, FiniteSets, SequencesExt

CONSTANTS
  Vertices,    \* graph (1..n) -> its number of vertices
  Roots,       \* the named nodes, 1..k
  Nodes,       \* all node slots, 1..n
  Weights,     \* which sets of nodes may have more atomic concepts than the others
  MaxMerges, MaxLevels, MaxClears

VARIABLES t, levels, stage, merges, clears

vars == <<t, levels, stage, merges, clears>>

Graphs == DOMAIN Vertices
Null == 0

(***************************************************************************)
(* OccurrenceManager: records from 1, free the first free one; a record    *)
(* with link Null at the end of the free list is the last of the store.    *)
(***************************************************************************)
Blank == [graph |-> Null, tuple |-> Null, position |-> Null, next |-> Null]
NewOccurrences == [records |-> <<Blank>>, free |-> 1, head |-> [n \in Nodes |-> Null]]

NewListNode(o) ==
  LET next == o.records[o.free].next
      last == o.free + 1
  IN IF next # Null THEN [o EXCEPT !.free = next]
     ELSE IF last > Len(o.records) THEN [o EXCEPT !.free = last, !.records = Append(@, Blank)]
     ELSE [o EXCEPT !.free = last, !.records[last].next = Null]

DeleteListNode(o, r) == [o EXCEPT !.records[r].next = o.free, !.free = r]

ClearOccurrences(o) == [o EXCEPT !.free = 1, !.records[1].next = Null, !.head = [n \in Nodes |-> Null]]

RECURSIVE Walk(_, _)
Walk(o, r) == IF r = Null THEN <<>> ELSE <<r>> \o Walk(o, o.records[r].next)
Occurrences(o, n) == Walk(o, o.head[n])

(***************************************************************************)
(* description_graph_tuple_added and _removed.  popped tells whether every *)
(* record taken off a list so far was the one of the tuple and position    *)
(* being removed.                                                          *)
(***************************************************************************)
Positions(tuple) == Reverse([i \in DOMAIN tuple |-> i])

\* A record that forgets the rest of the list it is put in front of.
LinkAlone(o, g, i, tuple, p) ==
  [NewListNode(o) EXCEPT !.records[o.free] = [graph |-> g, tuple |-> i, position |-> p, next |-> Null],
                         !.head[tuple[p]] = o.free]

LinkPosition(o, g, i, tuple, p) ==
  [NewListNode(o) EXCEPT !.records[o.free] = [graph |-> g, tuple |-> i, position |-> p, next |-> o.head[tuple[p]]],
                         !.head[tuple[p]] = o.free]
TupleAdded(o, g, i, tuple) == FoldLeft(LAMBDA x, p : LinkPosition(x, g, i, tuple, p), o, Positions(tuple))

UnlinkPosition(o, tuple, p) ==
  LET r == o.head[tuple[p]]
  IN DeleteListNode([o EXCEPT !.head[tuple[p]] = o.records[r].next], r)

TupleRemoved(x, g, i, tuple) ==
  FoldLeft(LAMBDA y, p : LET r == y.occ.records[y.occ.head[tuple[p]]]
                         IN [y EXCEPT !.occ = UnlinkPosition(@, tuple, p),
                                      !.popped = @ /\ r.graph = g /\ r.tuple = i /\ r.position = p],
           x, Positions(tuple))

(***************************************************************************)
(* The tables: old and delta end the extension and the delta-old views.    *)
(***************************************************************************)
NewTable == [tuples |-> <<>>, old |-> 0, delta |-> 0]

AddTuple(x, g, tuple) ==
  IF tuple \in ToSet(x.tables[g].tuples) THEN x
  ELSE [x EXCEPT !.tables[g].tuples = Append(@, tuple),
                 !.occ = TupleAdded(@, g, Len(x.tables[g].tuples) + 1, tuple)]

PropagateDeltaNew(x) ==
  [x EXCEPT !.tables = [g \in Graphs |-> [x.tables[g] EXCEPT !.old = x.tables[g].delta, !.delta = Len(x.tables[g].tuples)]]]
HasDelta(x) == \E g \in Graphs : x.tables[g].old < x.tables[g].delta

RECURSIVE TruncateTable(_, _, _)
TruncateTable(x, g, length) ==
  LET q == x.tables[g].tuples
  IN IF Len(q) =< length THEN x
     ELSE TruncateTable(TupleRemoved([x EXCEPT !.tables[g].tuples = Front(q)], g, Len(q), q[Len(q)]), g, length)

BacktrackTable(x, g, saved) ==
  LET cut == TruncateTable(x, g, saved[g].length)
  IN [cut EXCEPT !.tables[g].old = saved[g].old, !.tables[g].delta = saved[g].delta]
BacktrackTables(x, saved) == FoldLeft(LAMBDA y, g : BacktrackTable(y, g, saved), x, [g \in Graphs |-> g])

(***************************************************************************)
(* Nodes: allocation, merging (from the tableau and the merging manager).  *)
(***************************************************************************)
Free(x) == {n \in Nodes : x.status[n] = "free"}
Active(x, n) == x.status[n] = "active"
TupleIsActive(x, g, i) == \A n \in ToSet(x.tables[g].tuples[i]) : Active(x, n)

CreateNode(x, n) == [x EXCEPT !.status[n] = "active", !.order = Append(@, n), !.occ.head[n] = Null]

\* destroy_node returns what is left on the list of the node.
DestroyNode(x, n) ==
  [x EXCEPT !.status[n] = "free",
            !.occ = [FoldLeft(DeleteListNode, @, Occurrences(@, n)) EXCEPT !.head[n] = Null]]

\* From a pair to the node that goes and the node that stays: roots stay,
\* and the node with more atomic concepts, one of heavy.
Direction(n, m, heavy) ==
  CASE n \in Roots /\ m \notin Roots -> <<m, n>>
    [] m \in Roots /\ n \notin Roots -> <<n, m>>
    [] OTHER -> IF n \in heavy /\ m \notin heavy THEN <<m, n>> ELSE <<n, m>>

MergeGraphs(x, from, into) ==
  LET active(r) == TupleIsActive(x, x.occ.records[r].graph, x.occ.records[r].tuple)
      rewritten == [i \in DOMAIN SelectSeq(Occurrences(x.occ, from), active) |->
                      LET r == x.occ.records[SelectSeq(Occurrences(x.occ, from), active)[i]]
                      IN <<r.graph, [x.tables[r.graph].tuples[r.tuple] EXCEPT ![r.position] = into]>>]
  IN FoldLeft(LAMBDA y, w : AddTuple(y, w[1], w[2]), x, rewritten)

\* merge_nodes; registered is FALSE while the check has the manager taken
\* out of the tableau, which leaves one without graphs in its place.
MergeNodes(x, n, m, heavy, registered) ==
  LET d == Direction(n, m, heavy)
      graphs == IF registered THEN MergeGraphs(x, d[1], d[2]) ELSE x
  IN IF n = m \/ ~Active(x, n) \/ ~Active(x, m) THEN x
     ELSE [graphs EXCEPT !.status[d[1]] = "merged", !.into[d[1]] = d[2], !.undo = Append(@, d[1])]

(***************************************************************************)
(* check_graph_constraints: each tuple of the delta-old view against every *)
(* other occurrence of its nodes in the same graph.                        *)
(***************************************************************************)
MergeTuples(x, g, i, j, heavy) ==
  FoldLeft(LAMBDA y, p : MergeNodes(y, x.tables[g].tuples[i][p], x.tables[g].tuples[j][p], heavy, FALSE),
           x, Positions(x.tables[g].tuples[i]))

CheckOccurrence(x, g, i, p, r, heavy) ==
  CASE ~(r.graph = g /\ (r.tuple # i \/ r.position # p) /\ TupleIsActive(x, g, r.tuple)) -> x
    [] r.position = p -> MergeTuples(x, g, i, r.tuple, heavy)
    [] OTHER -> [x EXCEPT !.clash = TRUE]

CheckTuple(x, g, i, heavy) ==
  LET tuple == x.tables[g].tuples[i]
      position(y, p) == FoldLeft(LAMBDA z, r : CheckOccurrence(z, g, i, p, z.occ.records[r], heavy),
                                 y, Occurrences(y.occ, tuple[p]))
  IN IF x.clash THEN x ELSE FoldLeft(position, x, [p \in DOMAIN tuple |-> p])

CheckGraphConstraints(x, heavy) ==
  LET view(g) == SubSeq([i \in 1..x.tables[g].delta |-> i], x.tables[g].old + 1, x.tables[g].delta)
      graph(y, g) == FoldLeft(LAMBDA z, i : CheckTuple(z, g, i, heavy), y, view(g))
  IN FoldLeft(graph, x, [g \in Graphs |-> g])

(***************************************************************************)
(* Expansion of an existential for vertex v of graph g at a node.          *)
(***************************************************************************)
IsSatisfied(x, g, v, n) ==
  \E r \in ToSet(Occurrences(x.occ, n)) : x.occ.records[r].graph = g /\ x.occ.records[r].position = v

RECURSIVE CreateGraphNodes(_, _)
CreateGraphNodes(x, k) ==
  IF k = 0 THEN [x |-> x, nodes |-> <<>>]
  ELSE LET n == CHOOSE m \in Free(x) : \A o \in Free(x) : m =< o
           rest == CreateGraphNodes(CreateNode(x, n), k - 1)
       IN [rest EXCEPT !.nodes = <<n>> \o @]

ExpandDescriptionGraph(x, g, v, n) ==
  LET made == CreateGraphNodes(x, Vertices[g] - 1)
      tuple == [i \in 1..Vertices[g] |-> IF i < v THEN made.nodes[i] ELSE IF i = v THEN n ELSE made.nodes[i - 1]]
  IN AddTuple(made.x, g, tuple)

(***************************************************************************)
(* The iteration around it.                                                *)
(***************************************************************************)
Fresh(occ) ==
  [status |-> [n \in Nodes |-> IF n \in Roots THEN "active" ELSE "free"], into |-> [n \in Nodes |-> n],
   order |-> [i \in 1..Cardinality(Roots) |-> i], undo |-> <<>>,
   tables |-> [g \in Graphs |-> NewTable], occ |-> occ, clash |-> FALSE, popped |-> TRUE, at |-> Null]

Init == /\ t = Fresh(NewOccurrences)
        /\ levels = <<>> /\ stage = "idle" /\ merges = 0 /\ clears = 0

\* One round of propagation; other tables may have a delta when these have not.
Propagate ==
  /\ stage = "propagate" /\ ~t.clash
  /\ \E heavy \in Weights, other \in BOOLEAN :
       LET p == PropagateDeltaNew(t)
           any == HasDelta(p) \/ other
       IN /\ t' = IF any THEN CheckGraphConstraints(p, heavy) ELSE p
          /\ stage' = IF any THEN "clauses" ELSE "idle"
  /\ UNCHANGED <<levels, merges, clears>>

ClauseMerge ==
  /\ stage = "clauses" /\ ~t.clash /\ merges < MaxMerges
  /\ \E n, m \in Nodes, heavy \in Weights :
       /\ n < m /\ Active(t, n) /\ Active(t, m)
       /\ t' = MergeNodes(t, n, m, heavy, TRUE)
  /\ merges' = merges + 1
  /\ UNCHANGED <<levels, stage, clears>>

ClauseClash ==
  /\ stage = "clauses" /\ ~t.clash /\ levels # <<>>
  /\ t' = [t EXCEPT !.clash = TRUE]
  /\ UNCHANGED <<levels, stage, merges, clears>>

ClausesApplied ==
  /\ stage = "clauses" /\ ~t.clash
  /\ stage' = "propagate"
  /\ UNCHANGED <<t, levels, merges, clears>>

\* expand_existentials stays with one node, for all it asks of it.
Expand ==
  /\ stage \in {"idle", "expanding"} /\ ~t.clash
  /\ \E g \in Graphs, n \in Nodes : \E v \in 1..Vertices[g] :
       /\ t.at \in {Null, n} /\ Active(t, n) /\ ~IsSatisfied(t, g, v, n)
       /\ Cardinality(Free(t)) >= Vertices[g] - 1
       /\ t' = [ExpandDescriptionGraph(t, g, v, n) EXCEPT !.at = n]
  /\ stage' = "expanding"
  /\ UNCHANGED <<levels, merges, clears>>

Expanded ==
  /\ stage = "expanding" /\ stage' = "propagate"
  /\ t' = [t EXCEPT !.at = Null]
  /\ UNCHANGED <<levels, merges, clears>>

\* A branching point: every table remembers where it stands.
Branch ==
  /\ stage = "idle" /\ ~t.clash /\ Len(levels) < MaxLevels
  /\ levels' = Append(levels, [tables |-> [g \in Graphs |-> [old |-> t.tables[g].old, delta |-> t.tables[g].delta,
                                                           length |-> Len(t.tables[g].tuples)]],
                               order |-> Len(t.order), undo |-> Len(t.undo)])
  /\ stage' = "propagate"
  /\ UNCHANGED <<t, merges, clears>>

\* Tables first, then merges undone and nodes destroyed, last ones first.
BacktrackTo(x, point) ==
  LET tables == BacktrackTables(x, point.tables)
      unmerged == {x.undo[i] : i \in (point.undo + 1)..Len(x.undo)}
      alive == [tables EXCEPT !.status = [n \in Nodes |-> IF n \in unmerged THEN "active" ELSE @[n]],
                              !.into = [n \in Nodes |-> IF n \in unmerged THEN n ELSE @[n]],
                              !.undo = SubSeq(@, 1, point.undo), !.order = SubSeq(@, 1, point.order)]
  IN FoldLeft(DestroyNode, [alive EXCEPT !.clash = FALSE], Reverse(SubSeq(x.order, point.order + 1, Len(x.order))))

Backtrack ==
  /\ t.clash
  /\ \E l \in DOMAIN levels : /\ t' = BacktrackTo(t, levels[l])
                              /\ levels' = SubSeq(levels, 1, l)
  /\ stage' = "propagate"
  /\ UNCHANGED <<merges, clears>>

\* The tableau is cleared for the next test; the store of records stays.
Clear ==
  /\ clears < MaxClears /\ (stage = "idle" \/ t.clash)
  /\ t' = Fresh(ClearOccurrences(t.occ))
  /\ levels' = <<>> /\ stage' = "idle" /\ merges' = 0 /\ clears' = clears + 1

Done == /\ clears = MaxClears /\ (stage = "idle" \/ t.clash)
        /\ UNCHANGED vars

Next == \/ Propagate \/ ClauseMerge \/ ClauseClash \/ ClausesApplied \/ Expand \/ Expanded \/ Branch \/ Backtrack \/ Clear \/ Done

Spec == Init /\ [][Next]_vars

(***************************************************************************)
(* The occurrence lists tell exactly where each node stands in the tuples  *)
(* of the tables, and every other record is on the free list, once.        *)
(***************************************************************************)
OccurrencesExact ==
  LET o == t.occ
      lists == UNION {ToSet(Occurrences(o, n)) : n \in Nodes}
      free == Walk(o, o.free)
  IN /\ \A n \in Nodes :
          LET q == Occurrences(o, n)
              places == {<<o.records[q[i]].graph, o.records[q[i]].tuple, o.records[q[i]].position>> : i \in DOMAIN q}
          IN /\ places = {z \in UNION {{g} \X (DOMAIN t.tables[g].tuples) \X (1..Vertices[g]) : g \in Graphs} :
                            t.tables[z[1]].tuples[z[2]][z[3]] = n}
             /\ Cardinality(places) = Len(q)
     /\ ToSet(free) \cap lists = {} /\ Len(free) = Cardinality(ToSet(free))

(***************************************************************************)
(* Graphs are rigid once an iteration has come to rest: no node stands in  *)
(* two places of one graph, where nodes that were merged count as one and  *)
(* places that agree as a whole tuple count once.                          *)
(***************************************************************************)
RECURSIVE Canonical(_)
Canonical(n) == IF t.into[n] = n THEN n ELSE Canonical(t.into[n])
Images(g) == {[p \in 1..Vertices[g] |-> Canonical(q[p])] : q \in ToSet(t.tables[g].tuples)}
Rigid ==
  stage = "idle" /\ ~t.clash =>
    \A g \in Graphs : \A q, w \in Images(g) : \A p, s \in 1..Vertices[g] :
      q[p] = w[s] => q = w /\ p = s

=============================================================================
