------------------------------- MODULE Nodes -------------------------------
(***************************************************************************)
(* The nodes of the tableau: arena slots with a free list, the list of     *)
(* nodes in creation order, merging and pruning, the nominal introduction  *)
(* (NI) rule, individual reuse, and the undoing of all of it on a clash.   *)
(*                                                                         *)
(* The whole tableau is one record t, and every method of the engine that  *)
(* changes it is an operator from records to records, so that an action is *)
(* the composition of the calls its handler makes.                         *)
(*                                                                         *)
(* The clauses are those of a fixed ontology, small enough to check and    *)
(* rich enough to make every kind of merge happen: named individuals in    *)
(* EB (at least one r to B), B in EO or EB, EO = at least one r to the     *)
(* nominal O, O(x) -> x = a, at most Card r-predecessors, and, with Leaf,  *)
(* B in EG (at least one r to G).  Any tuple may take part in a clash.     *)
(***************************************************************************)
EXTENDS Integers, Sequences, FiniteSets, SequencesExt, FiniteSetsExt

CONSTANTS Named,      \* how many named individuals the ABox has
          Card,       \* the cardinality of the at-most restriction
          Reuse,      \* "none" | "deterministic" | "nondeterministic"
          Leaf,       \* whether every B has a G-successor
          MaxDepth,   \* bound: existentials of deeper tree nodes wait (blocked)
          MaxLevel    \* bound: how many branching points may be open

VARIABLE t

None == 0
Filler == [EB |-> "B", EO |-> "O", EG |-> "G"]
Existentials == DOMAIN Filler

-----------------------------------------------------------------------------
(* Nodes.                                                                  *)

Active(s, n) == s.node[n].state = "active"
IsRoot(s, n) == s.node[n].parent = None

(* The slot a new node takes: the head of the free list, else a new one. *)
AllocateNode(s) == IF s.free = <<>> THEN Len(s.node) + 1 ELSE Head(s.free)

FreshNode(type, parent, depth) ==
    [state |-> "active", type |-> type, parent |-> parent, depth |-> depth,
     into |-> None, deps |-> {}, todo |-> <<>>]

(* A tuple of the extension tables; unary ones have b = None. *)
Tuple(p, a, b, deps) == [p |-> p, a |-> a, b |-> b, deps |-> deps]
Holds(s, p, a, b) == \E i \in DOMAIN s.tuples :
                        s.tuples[i].p = p /\ s.tuples[i].a = a /\ s.tuples[i].b = b

(* Additions to the binary and the ternary extension table: ignored on an   *)
(* inactive node and for a tuple already present, whose dependency set      *)
(* stays the first one.  An existential joins its node's unprocessed list.  *)
AddBinary(s, p, a, deps) ==
    IF ~Active(s, a) \/ Holds(s, p, a, None) THEN s
    ELSE [s EXCEPT !.tuples = Append(@, Tuple(p, a, None, deps)),
                   !.node[a].todo = IF p \in Existentials THEN Append(@, p) ELSE @]
AddTernary(s, p, a, b, deps) ==
    IF ~Active(s, a) \/ ~Active(s, b) \/ Holds(s, p, a, b) THEN s
    ELSE [s EXCEPT !.tuples = Append(@, Tuple(p, a, b, deps))]

CreateNewNode(s, type, parent, deps) ==
    LET n == AllocateNode(s)
        fresh == FreshNode(type, parent, IF parent = None THEN 0 ELSE s.node[parent].depth + 1)
        s1 == [s EXCEPT !.node = IF n \in DOMAIN @ THEN [@ EXCEPT ![n] = fresh]
                                 ELSE Append(@, fresh),
                        !.free = IF @ = <<>> THEN @ ELSE Tail(@),
                        !.order = Append(@, n)]
    IN  AddBinary(s1, "A", n, deps)

(* Merge pointers followed to the end, and the dependency sets on the way. *)
GetCanonicalNode(s, n) ==
    LET c[m \in DOMAIN s.node] == IF s.node[m].into = None THEN m ELSE c[s.node[m].into]
    IN  c[n]
AddCanonicalNodeDependencySet(s, n, deps) ==
    LET c[m \in DOMAIN s.node] ==
            IF s.node[m].into = None THEN {} ELSE s.node[m].deps \cup c[s.node[m].into]
    IN  deps \cup c[n]

PruneNode(s, n) == [s EXCEPT !.node[n].state = "pruned", !.inactive = Append(@, n)]
MergeNode(s, n, into, deps) ==
    [s EXCEPT !.node[n].state = "merged", !.node[n].into = into,
              !.node[n].deps = deps, !.inactive = Append(@, n)]

-----------------------------------------------------------------------------
(* MergingManager.                                                         *)

Precedence(s, n) == CASE s.node[n].type = "named" -> 0
                      [] s.node[n].type = "ni"    -> 1
                      [] s.node[n].type = "tree"  -> 2
ClusterAnchor(s, n) == IF s.node[n].type = "tree" THEN n ELSE s.node[n].parent
IsDescendantOfAtMostThreeLevels(s, n, ancestor) ==
    LET p1 == s.node[n].parent
        p2 == IF p1 = None THEN None ELSE s.node[p1].parent
        p3 == IF p2 = None THEN None ELSE s.node[p2].parent
    IN  \/ p1 = ancestor
        \/ p1 # None /\ p2 = ancestor
        \/ p1 # None /\ p2 # None /\ p3 = ancestor

NumberOfPositiveAtomicConcepts(s, n) ==
    Cardinality({i \in DOMAIN s.tuples :
        s.tuples[i].a = n /\ s.tuples[i].p \in {"A", "O", "B", "G"}})

(* The node that is merged away and the one that survives; the empty set   *)
(* stands for the "unsupported merge type" panic.                          *)
ChooseMergeDirection(s, n0, n1) ==
    LET p0 == Precedence(s, n0)
        p1 == Precedence(s, n1)
        same == s.node[n0].parent = s.node[n1].parent
        can01 == same \/ IsDescendantOfAtMostThreeLevels(s, n0, ClusterAnchor(s, n1))
        can10 == same \/ IsDescendantOfAtMostThreeLevels(s, n1, ClusterAnchor(s, n0))
        bigger0 == NumberOfPositiveAtomicConcepts(s, n0) > NumberOfPositiveAtomicConcepts(s, n1)
    IN  CASE p0 < p1 -> {<<n1, n0>>}
          [] p0 > p1 -> {<<n0, n1>>}
          [] p0 = p1 /\ can10 /\ (~can01 \/ bigger0) -> {<<n1, n0>>}
          [] p0 = p1 /\ can01 /\ ~(can10 /\ bigger0) -> {<<n0, n1>>}
          [] OTHER -> {}

(* Mutant: the successors of the merged node stay. *)
PruneNothing(s, from) == s
(* The nodes after mergeFrom in creation order lose their tree: a child of *)
(* mergeFrom, or of a node that is no longer active, is pruned.            *)
PruneSuccessors(s, from) ==
    LET later == SubSeq(s.order, SelectInSeq(s.order, LAMBDA n : n = from), Len(s.order))
        trees == SelectSeq(later, LAMBDA n : Active(s, n) /\ s.node[n].parent # None)
    IN  FoldLeft(LAMBDA acc, n : IF s.node[n].parent = from \/ ~Active(acc, s.node[n].parent)
                                 THEN PruneNode(acc, n) ELSE acc,
                 s, trees)

(* The assertions of mergeFrom are added to mergeInto, a self-loop as a    *)
(* self-loop; retrievals skip tuples with an inactive node.                *)
CopyAssertions(s, from, into, deps) ==
    LET image(n) == IF n = from THEN into ELSE n
        live(x) == Active(s, x.a) /\ (x.b # None => Active(s, x.b))
    IN  FoldLeft(LAMBDA acc, x :
                    IF x.b = None THEN AddBinary(acc, x.p, into, x.deps \cup deps)
                    ELSE AddTernary(acc, x.p, image(x.a), image(x.b), x.deps \cup deps),
                 s, SelectSeq(s.tuples, LAMBDA x : live(x) /\ from \in {x.a, x.b}))

(* A panic is recorded in t.panic: the merge that was asked for.           *)
MergeInto(s, from, into, deps) ==
    MergeNode(CopyAssertions(PruneSuccessors(s, from), from, into, deps), from, into, deps)
MergeAlong(s, directions, deps) ==
    IF directions = {} THEN [s EXCEPT !.panic = TRUE]
    ELSE LET d == CHOOSE d \in directions : TRUE IN MergeInto(s, d[1], d[2], deps)
MergeNodes(s, n0, n1, deps) ==
    IF ~Active(s, n0) \/ ~Active(s, n1) \/ n0 = n1 THEN s
    ELSE MergeAlong(s, ChooseMergeDirection(s, n0, n1), deps)

-----------------------------------------------------------------------------
(* Branching points.  Each records how long every log was, and (for the    *)
(* properties only) what the tableau looked like when it was pushed.       *)

View(s) == [node |-> [i \in 1..Len(s.order) |-> s.node[s.order[i]]], order |-> s.order,
            inactive |-> s.inactive, tuples |-> s.tuples, expanded |-> s.expanded,
            equalities |-> s.equalities, read |-> s.read, roots |-> s.roots,
            reused |-> s.reused]

(* choice: what the point chooses between, and which alternative is tried. *)
PushBranchingPoint(s, choice) ==
    [s EXCEPT !.points = Append(@,
        [choice |-> choice, last |-> Len(s.order), inactive |-> Len(s.inactive),
         tuples |-> Len(s.tuples), expanded |-> Len(s.expanded),
         equalities |-> Len(s.equalities), read |-> s.read, roots |-> Len(s.roots),
         reused |-> Len(s.reused), before |-> View(s)])]

RemoveOne(seq, e) == IF \E i \in DOMAIN seq : seq[i] = e
                     THEN RemoveAt(seq, SelectInSeq(seq, LAMBDA x : x = e)) ELSE seq

(* An existential leaves the unprocessed list and enters the log. *)
RecordExistentialProcessed(s, n, e) ==
    [s EXCEPT !.expanded = Append(@, <<e, n>>), !.node[n].todo = RemoveOne(@, e)]

BacktrackReuse(s, p) == [s EXCEPT !.reused = SubSeq(@, 1, p.reused)]
BacktrackExistentials(s, p) ==
    [FoldLeft(LAMBDA acc, x : [acc EXCEPT !.node[x[2]].todo = Append(@, x[1])],
              s, Reverse(SubSeq(s.expanded, p.expanded + 1, Len(s.expanded))))
       EXCEPT !.expanded = SubSeq(s.expanded, 1, p.expanded)]
BacktrackNIRoots(s, p) == [s EXCEPT !.roots = SubSeq(@, 1, p.roots)]
BacktrackAnnotatedEqualities(s, p) ==
    [s EXCEPT !.equalities = SubSeq(@, 1, p.equalities), !.read = p.read]
(* Mutant: a removed existential stays on the unprocessed list. *)
BacktrackTablesOnly(s, p) == [s EXCEPT !.tuples = SubSeq(@, 1, p.tuples)]
BacktrackExtensionTables(s, p) ==
    [FoldLeft(LAMBDA acc, x : IF x.p \in Existentials
                              THEN [acc EXCEPT !.node[x.a].todo = RemoveOne(@, x.p)] ELSE acc,
              s, Reverse(SubSeq(s.tuples, p.tuples + 1, Len(s.tuples))))
       EXCEPT !.tuples = SubSeq(s.tuples, 1, p.tuples)]
BacktrackMergedOrPruned(s, p) ==
    [FoldLeft(LAMBDA acc, n : [acc EXCEPT !.node[n].state = "active",
                                          !.node[n].into = None, !.node[n].deps = {}],
              s, Reverse(SubSeq(s.inactive, p.inactive + 1, Len(s.inactive))))
       EXCEPT !.inactive = SubSeq(s.inactive, 1, p.inactive)]
DestroyNodes(s, p) ==
    [FoldLeft(LAMBDA acc, n : [acc EXCEPT !.free = <<n>> \o @,
                                          !.node[n] = [FreshNode("tree", None, 0)
                                                       EXCEPT !.state = "free"]],
              s, Reverse(SubSeq(s.order, p.last + 1, Len(s.order))))
       EXCEPT !.order = SubSeq(s.order, 1, p.last)]

BacktrackTo(s, level) ==
    LET p == s.points[level]
        s1 == BacktrackExistentials(BacktrackReuse([s EXCEPT !.points = SubSeq(@, 1, level)], p), p)
        s2 == BacktrackAnnotatedEqualities(BacktrackNIRoots(s1, p), p)
    IN  DestroyNodes(BacktrackMergedOrPruned(BacktrackExtensionTables(s2, p), p), p)

-----------------------------------------------------------------------------
(* The nominal introduction rule.                                          *)

CanForgetAnnotation(s, n0, n1, n2) ==
    \/ IsRoot(s, n0) \/ IsRoot(s, n1) \/ ~IsRoot(s, n2)
    \/ s.node[n0].parent = n2 /\ s.node[n1].parent = n2

(* One NI root per (root, number): <<state, node>>; a root made earlier is *)
(* returned even when it has been merged away since.                       *)
NIRootFor(s, root, number, deps) ==
    LET known == {i \in DOMAIN s.roots : s.roots[i].root = root /\ s.roots[i].number = number}
    IN  IF known # {} THEN <<s, s.roots[CHOOSE i \in known : TRUE].node>>
        ELSE LET n == AllocateNode(s)
                 s1 == CreateNewNode(s, "ni", None, deps)
             IN  <<[s1 EXCEPT !.roots = Append(@, [root |-> root, number |-> number, node |-> n])], n>>

(* The target, then the other node, are merged into NI root number k.      *)
MergeOther(s, other, ni, deps) ==
    IF s.node[other].state = "pruned" THEN s
    ELSE MergeNodes(s, GetCanonicalNode(s, other), ni, AddCanonicalNodeDependencySet(s, other, deps))
MergeBoth(s, ni, target, other, deps) == MergeOther(MergeNodes(s, target, ni, deps), other, ni, deps)
MergeIntoMade(s, made, target, other, deps) ==
    MergeBoth(s, GetCanonicalNode(s, made), target, other,
              IF Active(s, made) THEN deps ELSE AddCanonicalNodeDependencySet(s, made, deps))
MergeIntoNIRoot(s, root, target, other, k, deps) ==
    LET made == NIRootFor(s, root, k, deps) IN MergeIntoMade(made[1], made[2], target, other, deps)

ApplyAnnotatedEquality(s, raw0, raw1, raw2, deps) ==
    IF \E n \in {raw0, raw1, raw2} : s.node[n].state = "pruned" THEN s
    ELSE LET n0 == GetCanonicalNode(s, raw0)
             n1 == GetCanonicalNode(s, raw1)
             n2 == GetCanonicalNode(s, raw2)
             d == UNION {AddCanonicalNodeDependencySet(s, n, deps) : n \in {raw0, raw1, raw2}}
             first == ~IsRoot(s, n0) /\ s.node[n0].parent # n2
             target == IF first THEN n0 ELSE n1
             other == IF first THEN n1 ELSE n0
         IN  IF CanForgetAnnotation(s, n0, n1, n2) THEN MergeNodes(s, n0, n1, d)
             ELSE IF Card = 1 THEN MergeIntoNIRoot(s, n2, target, other, 1, d)
             ELSE LET s1 == PushBranchingPoint(s, [kind |-> "ni", root |-> n2, target |-> target,
                                                   other |-> other, index |-> 1])
                  IN  MergeIntoNIRoot(s1, n2, target, other, 1, d \cup {Len(s1.points)})

AddAnnotatedEquality(s, raw0, raw1, raw2, body, deps) ==
    IF \E n \in {raw0, raw1, raw2} : ~Active(s, n) THEN s
    ELSE IF CanForgetAnnotation(s, raw0, raw1, raw2) THEN MergeNodes(s, raw0, raw1, deps)
    ELSE IF Card = 1 THEN ApplyAnnotatedEquality(s, raw0, raw1, raw2, deps)
    ELSE [s EXCEPT !.equalities = Append(@, <<raw0, raw1, raw2, deps, body>>)]

NIStartNextChoice(s, level, deps) ==
    LET c == s.points[level].choice
        k == c.index + 1
    IN  MergeIntoNIRoot([s EXCEPT !.points[level].choice.index = k], c.root, c.target, c.other, k,
                        IF k = Card THEN deps \ {level} ELSE deps)

-----------------------------------------------------------------------------
(* Existential expansion: creation order, or with individual reuse.        *)

(* A fresh successor with the role edge and the filler. *)
DoNormalAtLeastExpansion(s, n, e, deps) ==
    LET m == AllocateNode(s)
        s1 == CreateNewNode(s, "tree", n, deps)
    IN  AddBinary(AddTernary(s1, "r", n, m, deps), Filler[e], m, deps)

(* The atomic filler B is reusable until a clash refuted its reuse; the    *)
(* nominal's filler is not an atomic concept of the ontology (internal).   *)
ShouldReuse(s, e) == e = "EB" /\ ~s.dontReuse
ReusePoint(n, e, parent) == [kind |-> "reuse", node |-> n, e |-> e, parent |-> parent, index |-> 1]

TryParentReuse(s, n, e, deps) ==
    LET p == s.node[n].parent
        s1 == PushBranchingPoint(s, ReusePoint(n, e, TRUE))
    IN  IF Reuse = "nondeterministic" THEN AddTernary(s1, "r", n, p, deps \cup {Len(s1.points)})
        ELSE AddTernary(s, "r", n, p, deps)

ExpandWithModelReuse(s, n, e, deps) ==
    IF s.reused = <<>>
    THEN LET s1 == IF Reuse = "deterministic" THEN s
                   ELSE PushBranchingPoint(s, ReusePoint(n, e, FALSE))
             d == IF Reuse = "deterministic" THEN deps ELSE deps \cup {Len(s1.points)}
             m == AllocateNode(s1)
             s2 == CreateNewNode(s1, "ni", None, d)
             s3 == [s2 EXCEPT !.reused = <<[node |-> m, level |-> Len(s1.points)]>>]
         IN  AddTernary(AddBinary(s3, Filler[e], m, d), "r", n, m, d)
    ELSE LET m == s.reused[1].node
             d == AddCanonicalNodeDependencySet(s, m, deps)
                    \cup (IF Reuse = "deterministic" THEN {} ELSE {s.reused[1].level})
         IN  AddTernary(s, "r", n, GetCanonicalNode(s, m), d)

ExpandAtLeastConcept(s, n, e, deps) ==
    LET p == s.node[n].parent
    IN  IF Reuse # "none" /\ p # None /\ Holds(s, Filler[e], p, None) /\ Active(s, p)
        THEN TryParentReuse(s, n, e, deps)
        ELSE IF Reuse # "none" /\ ShouldReuse(s, e) THEN ExpandWithModelReuse(s, n, e, deps)
        ELSE DoNormalAtLeastExpansion(s, n, e, deps)

ReuseStartNextChoice(s, level, deps) ==
    LET c == s.points[level].choice
        s1 == [s EXCEPT !.dontReuse = @ \/ ~c.parent, !.points[level].choice.index = 2]
    IN  DoNormalAtLeastExpansion(s1, c.node, c.e, deps \ {level})

(* "no": must be expanded; "permanent": a witness no NI merge can take      *)
(* away; "current": only another witness, so the existential is kept.       *)
IsPermanentSatisfier(s, n, m) ==
    n = m \/ s.node[n].parent = m \/ s.node[m].parent = n \/ IsRoot(s, m)
SatType(s, n, e) ==
    LET found == SelectSeq(s.tuples, LAMBDA x : x.p = "r" /\ x.a = n /\ Active(s, x.b)
                                                /\ Holds(s, Filler[e], x.b, None))
    IN  CASE found = <<>> -> "no"
          [] found # <<>> /\ IsPermanentSatisfier(s, n, found[1].b) -> "permanent"
          [] OTHER -> "current"

(* What one node's unprocessed existentials, last first, do to s; the walk *)
(* over the nodes stops after the first node that was really expanded.     *)
ProcessExistential(acc, n, e) ==
    LET s == acc.s
        done == RecordExistentialProcessed(s, n, e)
        deps == s.tuples[SelectInSeq(s.tuples, LAMBDA x : x.p = e /\ x.a = n)].deps
    IN  CASE SatType(s, n, e) = "no" -> [s |-> ExpandAtLeastConcept(done, n, e, deps), changed |-> TRUE]
          [] SatType(s, n, e) = "permanent" -> [acc EXCEPT !.s = done]
          [] SatType(s, n, e) = "current" -> acc
ExpandExistentials(s) ==
    FoldLeft(LAMBDA acc, n :
                IF acc.changed THEN acc
                ELSE FoldLeft(LAMBDA b, e : ProcessExistential(b, n, e), acc,
                              Reverse(acc.s.node[n].todo)),
             [s |-> s, changed |-> FALSE],
             SelectSeq(s.order, LAMBDA n : Active(s, n) /\ s.node[n].todo # <<>>
                                           /\ s.node[n].depth < MaxDepth)).s

-----------------------------------------------------------------------------
(* The steps.  do_iteration's order: clauses first, then the buffered      *)
(* equalities, then one node's existentials, then one disjunction.         *)

DepsOf(s, p, a, b) == s.tuples[SelectInSeq(s.tuples, LAMBDA x : x.p = p /\ x.a = a /\ x.b = b)].deps
Nodes(s) == {s.order[i] : i \in DOMAIN s.order}
ActiveNodes(s) == {n \in Nodes(s) : Active(s, n)}
Predecessors(s, n) == {m \in ActiveNodes(s) : Holds(s, "r", m, n)}

Init ==
    t = LET empty == [node |-> <<>>, free |-> <<>>, order |-> <<>>, inactive |-> <<>>,
                      tuples |-> <<>>, expanded |-> <<>>, equalities |-> <<>>, read |-> 0,
                      roots |-> <<>>, reused |-> <<>>, dontReuse |-> FALSE, points |-> <<>>,
                      clash |-> {}, phase |-> "run", panic |-> FALSE]
            named == FoldLeft(LAMBDA s, i : AddBinary(CreateNewNode(s, "named", None, {}), "EB", i, {}),
                              empty, [i \in 1..Named |-> i])
        IN  AddBinary(named, "O", 1, {})

Running == t.phase = "run" /\ t.clash = {} /\ ~t.panic

(* O(x), O(y) -> x = y; the nominal's own individual is node 1. *)
NominalApplies(n, m) == n # m /\ Active(t, n) /\ Active(t, m)
                        /\ Holds(t, "O", n, None) /\ Holds(t, "O", m, None)
DeriveEquality ==
    /\ Running
    /\ \E n, m \in Nodes(t) :
          /\ NominalApplies(n, m)
          /\ t' = MergeNodes(t, n, m, DepsOf(t, "O", n, None) \cup DepsOf(t, "O", m, None))

(* Card + 1 predecessors of x: two of them are equal, annotated with x.    *)
(* Which disjunct of the derived disjunction is asserted is left open; a   *)
(* body that is already buffered is not derived again.                     *)
AtMostBodies(n) == {body \in kSubset(Card + 1, Predecessors(t, n)) :
                        \A i \in DOMAIN t.equalities : t.equalities[i][5] # body}
AtMostApplies(n) == Active(t, n) /\ AtMostBodies(n) # {}
DeriveAnnotatedEquality ==
    /\ Running
    /\ \A n, m \in Nodes(t) : ~NominalApplies(n, m)
    /\ \E n \in Nodes(t) :
          /\ AtMostApplies(n)
          /\ \E body \in AtMostBodies(n) : \E m0, m1 \in body :
                /\ m0 # m1
                /\ t' = AddAnnotatedEquality(t, m0, m1, n, body,
                            UNION {DepsOf(t, "r", m, n) : m \in body})

(* B(x) -> EG(x). *)
LeafApplies(n) == Leaf /\ Active(t, n) /\ Holds(t, "B", n, None) /\ ~Holds(t, "EG", n, None)
DeriveLeaf ==
    /\ Running
    /\ \E n \in Nodes(t) : LeafApplies(n) /\ t' = AddBinary(t, "EG", n, DepsOf(t, "B", n, None))

Propagated == /\ Running
              /\ \A n, m \in Nodes(t) : ~NominalApplies(n, m)
              /\ \A n \in Nodes(t) : ~AtMostApplies(n) /\ ~LeafApplies(n)

ProcessAnnotatedEquality ==
    /\ Propagated
    /\ t.read < Len(t.equalities)
    /\ Len(t.points) < MaxLevel
    /\ LET e == t.equalities[t.read + 1]
       IN  t' = ApplyAnnotatedEquality([t EXCEPT !.read = @ + 1], e[1], e[2], e[3], e[4])

ExpandExistentialsStep ==
    /\ Propagated /\ t.read = Len(t.equalities) /\ Len(t.points) < MaxLevel
    /\ t' = ExpandExistentials(t)
    /\ t' # t

(* B(x) -> EO(x) or EB(x): either disjunct may be tried first. *)
Undecided(n) == Active(t, n) /\ Holds(t, "B", n, None)
                /\ ~Holds(t, "EO", n, None) /\ ~Holds(t, "EB", n, None)
ProcessGroundDisjunction ==
    /\ Propagated /\ t.read = Len(t.equalities) /\ Len(t.points) < MaxLevel
    /\ ExpandExistentials(t) = t
    /\ \E n \in Nodes(t), first \in {"EO", "EB"} :
          /\ Undecided(n)
          /\ LET s1 == PushBranchingPoint(t, [kind |-> "disjunction", node |-> n, first |-> first,
                                              index |-> 1])
             IN  t' = AddBinary(s1, first, n, DepsOf(t, "B", n, None) \cup {Len(s1.points)})

DisjunctionStartNextChoice(s, level, deps) ==
    LET c == s.points[level].choice
        s1 == [s EXCEPT !.points[level].choice.index = 2]
        d == AddCanonicalNodeDependencySet(s1, c.node, deps \ {level})
    IN  AddBinary(s1, IF c.first = "EO" THEN "EB" ELSE "EO", GetCanonicalNode(s1, c.node), d)

(* A clause with an empty head fires on some tuple. *)
Clash ==
    /\ Running
    /\ \E i \in DOMAIN t.tuples :
          /\ Active(t, t.tuples[i].a) /\ (t.tuples[i].b # None => Active(t, t.tuples[i].b))
          /\ t' = [t EXCEPT !.clash = {t.tuples[i].deps}]

(* backtrack_on_clash, in two steps: undo, then try the next alternative. *)
Backtrack ==
    /\ t.phase = "run" /\ t.clash # {} /\ ~t.panic
    /\ LET deps == CHOOSE d \in t.clash : TRUE
       IN  t' = IF deps = {} THEN [t EXCEPT !.phase = "unsatisfiable"]
                ELSE [BacktrackTo(t, Max(deps)) EXCEPT !.phase = "choose"]
StartNextChoice ==
    /\ t.phase = "choose"
    /\ LET deps == CHOOSE d \in t.clash : TRUE
           level == Len(t.points)
           kind == t.points[level].choice.kind
           s == [t EXCEPT !.phase = "run", !.clash = {}]
       IN  t' = CASE kind = "ni"          -> NIStartNextChoice(s, level, deps)
                  [] kind = "reuse"       -> ReuseStartNextChoice(s, level, deps)
                  [] kind = "disjunction" -> DisjunctionStartNextChoice(s, level, deps)

Next == \/ DeriveEquality \/ DeriveAnnotatedEquality \/ DeriveLeaf
        \/ ProcessAnnotatedEquality \/ ExpandExistentialsStep \/ ProcessGroundDisjunction
        \/ Clash \/ Backtrack \/ StartNextChoice

Spec == Init /\ [][Next]_t

-----------------------------------------------------------------------------
(* Properties.                                                             *)

(* No log, index, queue or branching point holds the id of a destroyed     *)
(* node: backtrack_to empties every table that names nodes before          *)
(* destroy_last_tableau_node puts the slot on the free list for reuse.     *)
NodesNamedBy(c) == CASE c.kind = "ni" -> {c.root, c.target, c.other}
                     [] OTHER -> {c.node}
NoDanglingNode ==
    /\ \A i \in DOMAIN t.tuples : {t.tuples[i].a, t.tuples[i].b} \subseteq Nodes(t) \cup {None}
    /\ \A i \in DOMAIN t.expanded : t.expanded[i][2] \in Nodes(t)
    /\ \A i \in DOMAIN t.equalities : {t.equalities[i][j] : j \in 1..3} \subseteq Nodes(t)
    /\ \A i \in DOMAIN t.roots : {t.roots[i].root, t.roots[i].node} \subseteq Nodes(t)
    /\ \A i \in DOMAIN t.reused : t.reused[i].node \in Nodes(t)
    /\ \A i \in DOMAIN t.points : NodesNamedBy(t.points[i].choice) \subseteq Nodes(t)
    /\ \A n \in Nodes(t) : {t.node[n].parent, t.node[n].into} \subseteq Nodes(t) \cup {None}

(* backtrack_to gives back exactly the tableau the branching point was     *)
(* pushed on: nodes, merges, prunes, tuples, unprocessed existentials, NI  *)
(* roots, buffered equalities and their cursor, reuse representatives.     *)
BacktrackRestores ==
    t.phase = "choose" =>
        LET now == View(t)
            then == Last(t.points).before
            bag(seq) == [e \in Existentials |-> Cardinality({i \in DOMAIN seq : seq[i] = e})]
        IN  /\ [now EXCEPT !.node = <<>>] = [then EXCEPT !.node = <<>>]
            /\ \A i \in DOMAIN now.node :
                  /\ [now.node[i] EXCEPT !.todo = <<>>] = [then.node[i] EXCEPT !.todo = <<>>]
                  /\ bag(now.node[i].todo) = bag(then.node[i].todo)

(* merge_nodes never meets two nodes it does not know how to merge (the    *)
(* panic of choose_merge_direction): the NI rule moves the tree nodes the  *)
(* at-most clause equates to root nodes first.                             *)
MergeSupported == ~t.panic

(* A branching point that is backtracked to still has an alternative: the  *)
(* last alternative's facts no longer carry its level.                     *)
ChoiceRemains ==
    t.phase = "choose" =>
        LET c == Last(t.points).choice IN c.index < (IF c.kind = "ni" THEN Card ELSE 2)

(* Pruning reaches the whole subtree: an active node's parent is active.   *)
ActiveParents == \A n \in ActiveNodes(t) : t.node[n].parent # None => Active(t, t.node[n].parent)

(* Nothing said of a merged node is lost: as long as the nodes it was      *)
(* merged into live, they carry every assertion it had.                    *)
MergeKeepsAssertions ==
    \A i \in DOMAIN t.tuples :
        LET x == t.tuples[i]
            a == GetCanonicalNode(t, x.a)
            b == IF x.b = None THEN None ELSE GetCanonicalNode(t, x.b)
        IN  Active(t, a) /\ (b # None => Active(t, b)) => Holds(t, x.p, a, b)

(* No dependency set names a branching point that is gone. *)
DependenciesLive ==
    LET levels == 1..Len(t.points)
    IN  /\ \A i \in DOMAIN t.tuples : t.tuples[i].deps \subseteq levels
        /\ \A n \in Nodes(t) : t.node[n].deps \subseteq levels
        /\ \A i \in DOMAIN t.equalities : t.equalities[i][4] \subseteq levels
        /\ \A d \in t.clash : d \subseteq levels
        /\ \A i \in DOMAIN t.reused : t.reused[i].level \in 0..Len(t.points)

=============================================================================
