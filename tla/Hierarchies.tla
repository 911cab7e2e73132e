----------------------------- MODULE Hierarchies ----------------------------
(***************************************************************************)
(* Class and role hierarchies: the strongly connected components and the   *)
(* transitive reduction HierarchyBuilder computes from a subsumer graph,   *)
(* the queries and searches on the result, and the axioms printed for it.  *)
(* The depth-first search is a state machine, since the order in which it  *)
(* takes successors and roots is that of a hash map.                       *)
(*                                                                         *)
(* b.frames is the call stack of visit; a frame holds the successors still *)
(* to be looked at.  h.nodes is the arena: 1 is the top node, 2 the bottom *)
(* node of a hierarchy that was built.                                     *)
(***************************************************************************)
EXTENDS Integers, SequencesExt, FiniteSetsExt, Functions

CONSTANTS Names,            \* the elements other than top and bottom
          SubsumerGraphs    \* the graphs to classify

Top == "top"
Bottom == "bottom"
Elements == Names \cup {Top, Bottom}

VARIABLES subsumers, b, h, phase
hvars == <<subsumers, b, h, phase>>

(* ------------------------------- graphs ------------------------------- *)

\* The directed graph of graph.rs: the elements and a successor set for every
\* element that ever had an edge.  Ids, which intern the elements, are the
\* elements themselves.
SuccessorsIn(g, x) == IF x \in DOMAIN g.succ THEN g.succ[x] ELSE {}

\* The nodes a search from start reaches, start included.
SearchFrom(g, start) ==
    LET bound == Cardinality(g.elements \cup start)
        grow[n \in 0 .. bound] == IF n = 0 THEN start ELSE grow[n - 1] \cup UNION {SuccessorsIn(g, x) : x \in grow[n - 1]}
    IN  grow[bound]
GetReachableSuccessors(g, x) == SearchFrom(g, {x})
IsReachableSuccessor(g, x, y) == x = y \/ \E z \in SearchFrom(g, {x}) : y \in SuccessorsIn(g, z)

\* transitively_close replaces the successor sets in place, key by key: a
\* later key walks over the sets already closed.
CloseKey(g, key) == [g EXCEPT !.succ[key] = SearchFrom(g, @)]
TransitivelyClose(g, keys) == FoldLeft(CloseKey, g, keys)

(* ----------------------------- hierarchies ---------------------------- *)

HNode(rep, equiv) == [representative |-> rep, equivalent |-> equiv, parents |-> {}, children |-> {}]

(* ---------------------------- the builder ----------------------------- *)

\* HierarchyBuilder::new.
NewBuilder ==
    [dfs |-> [e \in Elements |-> -1], head |-> [e \in Elements |-> e], topo |-> [e \in Elements |-> -1],
     next |-> 0, stack |-> << >>, frames |-> << >>, order |-> << >>, reduced |-> 0, reach |-> << >>]
NewHierarchy == [nodes |-> <<HNode(Top, {Top}), HNode(Bottom, {Bottom})>>,
                 top |-> 1, bottom |-> 2, at |-> (Top :> 1 @@ Bottom :> 2)]

\* visit up to its loop.
Enter(s, e) ==
    [s EXCEPT !.dfs[e] = s.next, !.next = @ + 1, !.head[e] = e, !.stack = Append(@, e),
              !.frames = Append(@, [node |-> e, todo |-> subsumers[e]])]
\* The head of a successor that is still on the stack.
TakeHeadAlways(s, e, succ) == IF s.dfs[s.head[succ]] < s.dfs[s.head[e]] THEN [s EXCEPT !.head[e] = s.head[succ]] ELSE s
TakeHead(s, e, succ) ==
    IF s.topo[succ] = -1 /\ s.dfs[s.head[succ]] < s.dfs[s.head[e]] THEN [s EXCEPT !.head[e] = s.head[succ]] ELSE s

\* The component popped off the stack when visit ends at its head, and the
\* hierarchy node it goes to.
Component(s, e) == {s.stack[i] : i \in {j \in DOMAIN s.stack : s.dfs[s.stack[j]] >= s.dfs[e]}}
NodeOfComponent(comp) == IF Top \in comp THEN h.top ELSE IF Bottom \in comp THEN h.bottom ELSE Len(h.nodes) + 1
AddComponent(s, e) ==
    LET comp == Component(s, e)
        k    == NodeOfComponent(comp)
        grown == IF k > Len(h.nodes) THEN Append(h.nodes, HNode(e, {e})) ELSE h.nodes
    IN  [h EXCEPT !.nodes = [grown EXCEPT ![k].equivalent = @ \cup comp],
                  !.at = [x \in comp |-> k] @@ @]
CloseComponent(s, e) ==
    LET comp == Component(s, e)
    IN  [s EXCEPT !.topo = [x \in Elements |-> IF x \in comp THEN Len(s.order) ELSE @[x]],
                  !.stack = SelectSeq(@, LAMBDA x : x \notin comp),
                  !.order = Append(@, NodeOfComponent(comp))]

Frame == b.frames[Len(b.frames)]
Pop(s) == [s EXCEPT !.frames = SubSeq(@, 1, Len(@) - 1)]

\* run: the bottom element first, then any element not yet visited.
VisitRoot == \E e \in Elements :
    /\ phase = "visit" /\ b.frames = << >> /\ b.dfs[e] = -1
    /\ e = Bottom \/ b.dfs[Bottom] /= -1
    /\ b' = Enter(b, e)
    /\ UNCHANGED <<subsumers, h, phase>>
VisitSuccessor == \E succ \in (IF phase = "visit" /\ b.frames /= << >> THEN Frame.todo ELSE {}) :
    /\ LET s == [b EXCEPT !.frames[Len(b.frames)].todo = @ \ {succ}]
       IN  b' = IF b.dfs[succ] = -1 THEN Enter(s, succ) ELSE TakeHead(s, Frame.node, succ)
    /\ UNCHANGED <<subsumers, h, phase>>
\* The end of a visit, and the rest of its caller's loop body.
LeaveVisit ==
    /\ phase = "visit" /\ b.frames /= << >> /\ Frame.todo = {}
    /\ LET e == Frame.node
           s == Pop(IF b.head[e] = e THEN CloseComponent(b, e) ELSE b)
       IN  /\ b' = IF s.frames = << >> THEN s ELSE TakeHead(s, s.frames[Len(s.frames)].node, e)
           /\ h' = IF b.head[e] = e THEN AddComponent(b, e) ELSE h
    /\ UNCHANGED <<subsumers, phase>>

\* The transitive reduction, one node in topological order: its successors
\* from the nearest on, skipping those already reached.
SuccessorsOf(k) == UNION {subsumers[e] : e \in h.nodes[k].equivalent \cap DOMAIN subsumers}
Attach(hh, k) ==
    LET near == SortSeq(SetToSeq(SuccessorsOf(k)), LAMBDA x, y : b.topo[x] > b.topo[y])
        Step(acc, e) ==
            LET p == hh.at[e]
            IN  IF p \in acc.reach THEN acc
                ELSE [nodes |-> [acc.nodes EXCEPT ![k].parents = @ \cup {p}, ![p].children = @ \cup {k}],
                      reach |-> acc.reach \cup {p} \cup (IF p \in DOMAIN b.reach THEN b.reach[p] ELSE {})]
    IN  FoldLeft(Step, [nodes |-> hh.nodes, reach |-> {k}], near)
Reduce ==
    /\ phase = "visit" /\ b.frames = << >> /\ \A e \in Elements : b.dfs[e] /= -1
    /\ b.reduced < Len(b.order)
    /\ LET k == b.order[b.reduced + 1]
           r == Attach(h, k)
       IN  /\ h' = [h EXCEPT !.nodes = r.nodes]
           /\ b' = [b EXCEPT !.reach = (k :> r.reach) @@ @, !.reduced = @ + 1]
    /\ phase' = IF b.reduced + 1 = Len(b.order) THEN "built" ELSE phase
    /\ UNCHANGED subsumers

(* ----------------------------- the queries ---------------------------- *)

\* reachable: the reflexive closure under parents or children.
ReachableBy(hh, start, edges) ==
    LET grow[n \in 0 .. Len(hh.nodes)] ==
            IF n = 0 THEN start ELSE grow[n - 1] \cup UNION {edges[k] : k \in grow[n - 1]}
    IN  grow[Len(hh.nodes)]
ParentsIn(hh) == [k \in DOMAIN hh.nodes |-> hh.nodes[k].parents]
ChildrenIn(hh) == [k \in DOMAIN hh.nodes |-> hh.nodes[k].children]
AncestorNodes(hh, k) == ReachableBy(hh, {k}, ParentsIn(hh))
DescendantNodes(hh, k) == ReachableBy(hh, {k}, ChildrenIn(hh))
Members(hh, ks) == UNION {hh.nodes[k].equivalent : k \in ks}

\* An element outside the hierarchy is fresh: below top and above bottom only.
EquivalentElementsOf(hh, e) == IF e \in DOMAIN hh.at THEN hh.nodes[hh.at[e]].equivalent ELSE {e}

\* nodes_bottom_up: a queue of the nodes whose children are all listed.
NodesBottomUp(hh) ==
    LET nodes == DOMAIN hh.nodes
        run[n \in 0 .. Len(hh.nodes)] ==
            IF n = 0 THEN SetToSeq({k \in nodes : hh.nodes[k].children = {}})
            ELSE IF Len(run[n - 1]) < n THEN run[n - 1]
            ELSE run[n - 1] \o SetToSeq({p \in hh.nodes[run[n - 1][n]].parents :
                     hh.nodes[p].children \subseteq {run[n - 1][i] : i \in 1 .. n}
                     /\ \E c \in hh.nodes[p].children : c = run[n - 1][n]})
    IN  run[Len(hh.nodes)]

(* ----------------------------- the searches --------------------------- *)

\* SearchCache.trueOf: possible, with every predecessor true; raw is the set
\* of the nodes the relation's own test answers true for.
TrueOf(hh, possible, preds, raw, k) ==
    LET true[n \in 0 .. Len(hh.nodes), j \in DOMAIN hh.nodes] ==
            j \in possible \cap raw /\ (n = 0 \/ \A p \in preds[j] : true[n - 1, p])
    IN  true[Len(hh.nodes), k]
\* HierarchySearch.search: the visited nodes with no true successor.
Search(hh, start, possible, succs, preds, raw) ==
    LET go      == [k \in DOMAIN hh.nodes |-> {j \in succs[k] : TrueOf(hh, possible, preds, raw, j)}]
        visited == ReachableBy(hh, start, go)
    IN  {k \in visited : go[k] = {}}

FindParents(hh, above) == Search(hh, {hh.top}, DOMAIN hh.nodes, ChildrenIn(hh), ParentsIn(hh), above)

\* The nodes below all parents, found parent by parent: walk down from the
\* next parent to the first marked nodes, then mark everything below those.
CommonCone(hh, parents) ==
    LET Narrow(marked, p) ==
            LET outside == ReachableBy(hh, {p}, [k \in DOMAIN hh.nodes |-> hh.nodes[k].children \ marked])
                first   == UNION {hh.nodes[k].children : k \in outside} \cap marked
            IN  ReachableBy(hh, first, ChildrenIn(hh))
        seq == SetToSeq(parents)
    IN  FoldLeft(Narrow, DescendantNodes(hh, seq[1]), Tail(seq))
FindChildren(hh, parents, below) ==
    LET only   == CHOOSE p \in parents : TRUE
        marked == CommonCone(hh, parents)
        start  == {k \in marked : hh.bottom \in hh.nodes[k].children /\ k \in below}
    IN  IF Cardinality(parents) = 1 /\ only \in below THEN parents
        ELSE IF start = {} THEN {hh.bottom}
        ELSE Search(hh, start, marked, ParentsIn(hh), ChildrenIn(hh), below)
\* findPosition: equal sets stand for an existing node.
FindPosition(hh, above, below) ==
    LET parents  == FindParents(hh, above)
        children == FindChildren(hh, parents, below)
    IN  [existing |-> parents = children, parents |-> parents, children |-> children]

(* ---------------------------- printed axioms --------------------------- *)

\* The first member of a node in the printers' order: bottom, top, the rest.
Rank(e) == IF e = Bottom THEN 0 ELSE IF e = Top THEN 1 ELSE 2
NameOrder == SetToSeq(Names)
FirstMember(hh, k) ==
    LET least == {e \in hh.nodes[k].equivalent : \A f \in hh.nodes[k].equivalent : Rank(e) <= Rank(f)}
    IN  IF least \cap Names = {} THEN CHOOSE e \in least : TRUE
        ELSE SelectSeq(NameOrder, LAMBDA e : e \in least)[1]
SubAxiom(hh, k, p) == [sub |-> {FirstMember(hh, k)}, super |-> {FirstMember(hh, p)}]
EquivalentAxiom(hh, k) == [sub |-> hh.nodes[k].equivalent, super |-> hh.nodes[k].equivalent]
AllNodes(hh) == {hh.at[e] : e \in DOMAIN hh.at}
LargeNodes(hh) == {k \in AllNodes(hh) : Cardinality(hh.nodes[k].equivalent) > 1}

\* print_functional_syntax_with: edges of every node but the bottom node.
PrintedAxioms(hh) ==
    {SubAxiom(hh, k, p) : <<k, p>> \in {d \in (AllNodes(hh) \ {hh.bottom}) \X AllNodes(hh) : d[2] \in hh.nodes[d[1]].parents}}
    \cup {EquivalentAxiom(hh, k) : k \in LargeNodes(hh)}
Declared(hh) == Members(hh, AllNodes(hh)) \ {Top, Bottom}
\* dump_functional_syntax: edges from a child, but none at top or bottom.
DumpedAxioms(hh) ==
    {SubAxiom(hh, c, k) : <<k, c>> \in {d \in (AllNodes(hh) \ {hh.top}) \X (AllNodes(hh) \ {hh.bottom}) :
                                           d[2] \in hh.nodes[d[1]].children}}
    \cup {EquivalentAxiom(hh, k) : k \in LargeNodes(hh)}

(* ------------------------------ behaviour ----------------------------- *)

Init == /\ subsumers \in SubsumerGraphs
        /\ b = NewBuilder /\ h = NewHierarchy /\ phase = "visit"
Next == VisitRoot \/ VisitSuccessor \/ LeaveVisit \/ Reduce
Spec == Init /\ [][Next]_hvars /\ WF_hvars(Next)

(* ------------------------------ properties ---------------------------- *)

\* x is below y in the subsumer graph, by the definition of reachability:
\* every set that holds x and is closed under the edges holds y.
Below(x, y) == \A S \in SUBSET Elements : (x \in S /\ \A e \in S : subsumers[e] \subseteq S) => y \in S
Order == {d \in Elements \X Elements : Below(d[1], d[2])}
Built == phase = "built"

\* Whatever the order of the depth-first search, the hierarchy's ancestors are
\* the subsumers of the graph, its nodes the classes of mutual subsumption.
HierarchyIsOrder ==
    Built => LET order == Order IN \A x, y \in Elements :
        /\ <<x, y>> \in order <=> h.at[y] \in AncestorNodes(h, h.at[x])
        /\ (<<x, y>> \in order /\ <<y, x>> \in order) <=> y \in EquivalentElementsOf(h, x)

\* The hierarchy is reduced (no edge follows from the others), its edges are
\* known at both ends, and top and bottom are its only ends.
HierarchyReduced ==
    Built => \A k \in AllNodes(h) :
        /\ \A p \in h.nodes[k].parents : k \in h.nodes[p].children /\ ~\E q \in h.nodes[k].parents \ {p} : p \in AncestorNodes(h, q)
        /\ \A c \in h.nodes[k].children : k \in h.nodes[c].parents
        /\ h.nodes[k].parents = {} <=> k = h.top
        /\ h.nodes[k].children = {} <=> k = h.bottom

\* nodes_bottom_up lists every node once, after all of its children.
BottomUpOrder ==
    Built => LET order == NodesBottomUp(h)
             IN  /\ ToSet(order) = AllNodes(h) /\ Len(order) = Cardinality(AllNodes(h))
                 /\ \A i, j \in DOMAIN order : order[i] \in h.nodes[order[j]].children => i < j

\* Where an element belongs whose subsumers are the nodes Up and whose
\* subsumees are the nodes Down.
Places == {d \in (SUBSET AllNodes(h)) \X (SUBSET AllNodes(h)) :
              /\ h.top \in d[1] /\ h.bottom \in d[2]
              /\ \A k \in d[1] : h.nodes[k].parents \subseteq d[1]
              /\ \A k \in d[2] : h.nodes[k].children \subseteq d[2]
              /\ \A k \in d[2] : d[1] \subseteq AncestorNodes(h, k)}
Minimal(ks) == {k \in ks : h.nodes[k].children \cap ks = {}}
Maximal(ks) == {k \in ks : h.nodes[k].parents \cap ks = {}}

\* find_position puts an element between its least subsumers and its greatest
\* subsumees, or on the node it is equivalent to, for every place in the order
\* an element can have.
PositionExact ==
    Built => \A d \in Places :
        LET pos == FindPosition(h, d[1], d[2])
        IN  /\ pos.existing <=> d[1] \cap d[2] /= {}
            /\ pos.parents = Minimal(d[1])
            /\ ~pos.existing => pos.children = Maximal(d[2])
            /\ pos.existing => Cardinality(pos.parents) = 1

\* The printed and the dumped axioms, with the built-in ones about top and
\* bottom, are the order that was classified: printing loses nothing.
Entailed(axioms) ==
    LET edges == UNION {ax.sub \X ax.super : ax \in axioms} \cup (Elements \X {Top}) \cup ({Bottom} \X Elements)
        g     == [elements |-> Elements, succ |-> [e \in Elements |-> {d[2] : d \in {c \in edges : c[1] = e}}]]
    IN  {d \in Elements \X Elements : IsReachableSuccessor(g, d[1], d[2])}
PrintedIsOrder == Built => Entailed(PrintedAxioms(h)) = Order /\ Entailed(DumpedAxioms(h)) = Order

\* Closing the graph in place gives the same answers as searching it, in
\* whatever order the keys come.
AsGraph == [elements |-> Elements, succ |-> subsumers]
ClosureExact ==
    (b.next = 0) => \A keys \in SetToSeqs(Elements) :
        LET g == TransitivelyClose(AsGraph, keys)
        IN  \A x \in Elements : {x} \cup g.succ[x] = GetReachableSuccessors(AsGraph, x)

=============================================================================
