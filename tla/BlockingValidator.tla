------------------------- MODULE BlockingValidator -------------------------
(***************************************************************************)
(* The validity check of core blocking: `DLClauseInfo` (the decomposition  *)
(* of a general concept inclusion into a centre X, successors Yi and       *)
(* concept-only Zj) and `BlockingValidator`, which decides whether a       *)
(* pre-blocked node may stay blocked.                                      *)
(*                                                                         *)
(* A tableau is a record: n nodes in creation order, parent (0 for none),  *)
(* active, concepts and atleast (per node), roles (the ternary table, in   *)
(* insertion order), blocker (0 for none), violates                        *)
(* (block_violates_parent_constraints) and checked                         *)
(* (has_already_been_checked).  A variable is <<"X", 0>>, <<"Y", i>> or    *)
(* <<"Z", i>>; an atom is [kind, name, args]; a clause is [body, head].    *)
(***************************************************************************)
EXTENDS Integers, Sequences, FiniteSets, TLC, SequencesExt

X == <<"X", 0>>
IsY(v) == v[1] = "Y"
IsZ(v) == v[1] = "Z"
ConceptAtom(c, v) == [kind |-> "concept", name |-> c, args |-> <<v>>]
RoleAtom(r, u, v) == [kind |-> "role", name |-> r, args |-> <<u, v>>]
EqualityAtom(u, v) == [kind |-> "equality", name |-> "", args |-> <<u, v>>]
AtLeast(k, r, inv, c) == [number |-> k, role |-> r, inverse |-> inv, concept |-> c]

(* --------------------------- DLClauseInfo ----------------------------- *)

\* ensure_y / push_unique: first-encounter order, no repetition.
PushUnique(seq, v) == IF Contains(seq, v) THEN seq ELSE Append(seq, v)
VariablesOf(atoms, letter) ==
    FoldLeft(LAMBDA acc, a : FoldLeft(PushUnique, acc, SelectSeq(a.args, LAMBDA v : v[1] = letter)), << >>, atoms)

ConceptsOn(atoms, v) == {atoms[i].name : i \in {j \in DOMAIN atoms :
                            atoms[j].kind = "concept" /\ atoms[j].args = <<v>>}}
RolesOn(atoms, u, v) == {atoms[i].name : i \in {j \in DOMAIN atoms :
                            atoms[j].kind = "role" /\ atoms[j].args = <<u, v>>}}

YConstraint(atoms, y) == [var |-> y, concepts |-> ConceptsOn(atoms, y),
                          x2y |-> RolesOn(atoms, X, y), y2x |-> RolesOn(atoms, y, X)]

\* parse_head: a head atom as the validator checks it when X is blocked, and
\* when it is not: a role between X and some Yi is read on the blocked node
\* itself when Yi is its parent, a concept on Yi on the blocker of Yi.
CentreIfNotY(a) == IF a.kind = "concept" /\ ~IsY(a.args[1]) THEN [a EXCEPT !.args = <<X>>] ELSE a
ConsequenceForBlocked(a) ==
    LET ys == SelectSeq(a.args, IsY)
    IN  IF a.kind = "role" /\ X \in ToSet(a.args) /\ ys /= << >>
        THEN [type |-> "x2y", atom |-> a, y |-> ys[1]]
        ELSE [type |-> "simple", atom |-> CentreIfNotY(a), y |-> X]
ConsequenceForNonblocked(a) ==
    IF a.kind = "concept" /\ IsY(a.args[1])
    THEN [type |-> "mirrored", atom |-> a, y |-> a.args[1]]
    ELSE [type |-> "simple", atom |-> CentreIfNotY(a), y |-> X]

DLClauseInfo(clause) ==
    LET ys == VariablesOf(clause.body, "Y")
        zs == VariablesOf(clause.body, "Z")
    IN  [x_concepts    |-> ConceptsOn(clause.body, X),
         x2x_roles     |-> RolesOn(clause.body, X, X),
         y_constraints |-> [i \in DOMAIN ys |-> YConstraint(clause.body, ys[i])],
         z_variables   |-> zs,
         z_concepts    |-> [i \in DOMAIN zs |-> ConceptsOn(clause.body, zs[i])],
         blocked       |-> {ConsequenceForBlocked(clause.head[i]) : i \in DOMAIN clause.head},
         nonblocked    |-> {ConsequenceForNonblocked(clause.head[i]) : i \in DOMAIN clause.head}]

\* The inclusions the validator keeps: those that mention some Yi or Zj.
ValidatorClauses(clauses) ==
    SelectSeq([i \in DOMAIN clauses |-> DLClauseInfo(clauses[i])],
              LAMBDA info : info.y_constraints /= << >> \/ info.z_variables /= << >>)

(* ------------------------- leaf predicates ---------------------------- *)

IsBlocked(t, x) == t.blocker[x] /= 0
HasRole(t, r, x, y) == <<r, x, y>> \in ToSet(t.roles)
ContainsRole(t, a, x, y) == IF a.inverse THEN HasRole(t, a.role, y, x) ELSE HasRole(t, a.role, x, y)

\* at_least_role_successors: in the order of the ternary table.
Successors(t, r, inverse, x) ==
    LET from == IF inverse THEN 3 ELSE 2
        to   == IF inverse THEN 2 ELSE 3
        hits == SelectSeq(t.roles, LAMBDA e : e[1] = r /\ e[from] = x)
    IN  [i \in DOMAIN hits |-> hits[i][to]]

\* y_constraint_successors: along one X->Y role, else backwards along a Y->X role.
YSuccessors(t, yc, x) ==
    IF yc.x2y /= {} THEN Successors(t, CHOOSE r \in yc.x2y : TRUE, FALSE, x)
    ELSE IF yc.y2x /= {} THEN Successors(t, CHOOSE r \in yc.y2x : TRUE, TRUE, x)
    ELSE << >>

YRolesSatisfied(t, yc, x, y) == /\ \A r \in yc.x2y : HasRole(t, r, x, y)
                                /\ \A r \in yc.y2x : HasRole(t, r, y, x)
YSatisfiedExplicitly(t, yc, x, y) == YRolesSatisfied(t, yc, x, y) /\ yc.concepts \subseteq t.concepts[y]

\* A validly blocked node is read through its blocker.
ValidlyBlocked(t, y) == IsBlocked(t, y) /\ ~t.violates[y]
Mirror(t, y) == IF ValidlyBlocked(t, y) THEN t.blocker[y] ELSE y
YSatisfiedViaMirroring(t, yc, x, y) ==
    YRolesSatisfied(t, yc, x, y) /\ yc.concepts \subseteq t.concepts[Mirror(t, y)]

\* ConsequenceAtom.isSatisfied under the binding b; bx is the node validated.
AtomHolds(t, a, b) ==
    CASE a.kind = "concept"  -> a.name \in t.concepts[b[a.args[1]]]
      [] a.kind = "atleast"  -> a.name \in t.atleast[b[a.args[1]]]
      [] a.kind = "role"     -> HasRole(t, a.name, b[a.args[1]], b[a.args[2]])
      [] a.kind = "equality" -> b[a.args[1]] = b[a.args[2]]
ConsequenceSatisfied(t, cons, b, bx) ==
    CASE cons.type = "simple"   -> AtomHolds(t, cons.atom, b)
      [] cons.type = "x2y"      ->
            AtomHolds(t, cons.atom, IF b[cons.y] = t.parent[bx] THEN [b EXCEPT ![X] = bx] ELSE b)
      [] cons.type = "mirrored" ->
            cons.atom.name \in t.concepts[IF IsBlocked(t, b[cons.y]) THEN t.blocker[b[cons.y]] ELSE b[cons.y]]

(* ------------- the blocked node against its blocker ------------------- *)

Nodes(t) == 1 .. t.n
\* Every assignment of the Z variables (match_blocked_z).
ZBindings(t, info) ==
    {b \in [ToSet(info.z_variables) -> Nodes(t)] :
        \A i \in DOMAIN info.z_variables : info.z_concepts[i] \subseteq t.concepts[b[info.z_variables[i]]]}

\* Every assignment of the other Y variables to successors of the blocker
\* other than its parent (match_blocked_y).
YBindings(t, info, skip, blocker) ==
    LET ycs == info.y_constraints
        dom == {ycs[i].var : i \in DOMAIN ycs \ {skip}}
    IN  {b \in [dom -> Nodes(t)] : \A i \in DOMAIN ycs \ {skip} :
            /\ b[ycs[i].var] \in ToSet(YSuccessors(t, ycs[i], blocker)) \ {t.parent[blocker]}
            /\ YSatisfiedExplicitly(t, ycs[i], blocker, b[ycs[i].var])}

\* satisfies_dl_clause_for_blocked_x with the Yi of index m at the parent.
SatisfiedWithParentAt(t, info, bx, m) ==
    LET blocker == t.blocker[bx]
        p       == t.parent[bx]
    IN  \A zb \in ZBindings(t, info) : \A yb \in YBindings(t, info, m, blocker) :
            LET b == (X :> blocker) @@ (info.y_constraints[m].var :> p) @@ yb @@ zb
            IN  \E cons \in info.blocked : ConsequenceSatisfied(t, cons, b, bx)

PremiseHolds(t, info, x) ==
    /\ info.x_concepts \subseteq t.concepts[x]
    /\ \A r \in info.x2x_roles : HasRole(t, r, x, x)

\* The indices of the Y constraints that the blocked node's parent meets.
ParentMatches(t, info, bx) ==
    {i \in DOMAIN info.y_constraints :
        YSatisfiedExplicitly(t, info.y_constraints[i], bx, t.parent[bx])}

\* satisfies_dl_clause_for_blocked_x: only the first constraint that the
\* parent meets is tried.
SatisfiesClauseForBlockedX(t, info, bx) ==
    \/ ~PremiseHolds(t, info, t.blocker[bx])
    \/ ParentMatches(t, info, bx) = {}
    \/ SatisfiedWithParentAt(t, info, bx,
          CHOOSE i \in ParentMatches(t, info, bx) : \A j \in ParentMatches(t, info, bx) : i <= j)

IsSatisfiedAtLeastForBlocked(t, a, bx) ==
    LET p       == t.parent[bx]
        blocker == t.blocker[bx]
    IN  \/ ContainsRole(t, a, bx, p) /\ a.concept \in t.concepts[p]
        \/ Len(SelectSeq(Successors(t, a.role, a.inverse, blocker),
               LAMBDA y : y /= t.parent[blocker] /\ a.concept \in t.concepts[y])) >= a.number

\* satisfies_constraints_for_blocked_x; infos without an X concept are checked
\* for every blocker, the others when the blocker has one of their concepts.
SatisfiesConstraintsForBlockedX(t, infos, bx) ==
    LET blocker == t.blocker[bx]
        bp      == t.parent[blocker]
    IN  /\ \A i \in DOMAIN infos :
              (infos[i].x_concepts = {} \/ infos[i].x_concepts \cap t.concepts[blocker] /= {})
                  => SatisfiesClauseForBlockedX(t, infos[i], bx)
        /\ \A a \in t.atleast[blocker] :
              (bp /= 0 /\ ContainsRole(t, a, blocker, bp) /\ a.concept \in t.concepts[bp])
                  => IsSatisfiedAtLeastForBlocked(t, a, bx)

(* -------- the constraints of a non-blocked node on its successors ------ *)

\* check_at_least_for_nonblocked: count the suitable successors, a validly
\* blocked one through its blocker; then break just enough blocks.
CheckAtLeastForNonblocked(t, a, x) ==
    LET succ     == Successors(t, a.role, a.inverse, x)
        Count(acc, y) ==
            IF acc.suitable >= a.number THEN acc
            ELSE IF a.concept \in t.concepts[Mirror(t, y)]
                 THEN [acc EXCEPT !.suitable = @ + 1]
                 ELSE IF ValidlyBlocked(t, y) THEN [acc EXCEPT !.invalid = Append(@, y)] ELSE acc
        counted  == FoldLeft(Count, [suitable |-> 0, invalid |-> << >>], succ)
        Break(acc, y) ==
            IF acc.suitable >= a.number \/ a.concept \notin t.concepts[y] THEN acc
            ELSE [t |-> [acc.t EXCEPT !.violates[y] = TRUE], suitable |-> acc.suitable + 1]
    IN  FoldLeft(Break, [t |-> t, suitable |-> counted.suitable], counted.invalid).t

\* check_nonblocked_matched: when a validly blocked Yi takes part and no
\* consequence holds, break one block: the last Yi that has a body concept
\* only through its blocker, else a Yi that has a head concept itself.
BreakableByBody(t, info, b) ==
    {i \in DOMAIN info.y_constraints :
        LET y == b[info.y_constraints[i].var]
        IN  /\ ValidlyBlocked(t, y)
            /\ \E c \in info.y_constraints[i].concepts : c \notin t.concepts[y] /\ c \in t.concepts[t.blocker[y]]}
BreakableByHead(t, info, b) ==
    {cons \in info.nonblocked : cons.type = "mirrored" /\ cons.atom.name \in t.concepts[b[cons.y]]}
CheckNonblockedMatched(t, info, x, b) ==
    LET ys     == {b[info.y_constraints[i].var] : i \in DOMAIN info.y_constraints}
        byBody == BreakableByBody(t, info, b)
        byHead == BreakableByHead(t, info, b)
    IN  IF \/ \A y \in ys : ~ValidlyBlocked(t, y)
           \/ \E cons \in info.nonblocked : ConsequenceSatisfied(t, cons, b, x)
        THEN t
        ELSE IF byBody /= {}
             THEN [t EXCEPT !.violates[b[info.y_constraints[CHOOSE i \in byBody : \A j \in byBody : j <= i].var]] = TRUE]
             ELSE IF byHead /= {}
                  THEN [t EXCEPT !.violates[b[(CHOOSE cons \in byHead : TRUE).y]] = TRUE]
                  ELSE [t EXCEPT !.unbreakable = TRUE]

\* check_nonblocked_y: every assignment of the Y variables to successors that
\* match through their blockers; a block broken on the way is seen by the
\* assignments tried after it.
RECURSIVE CheckNonblockedY(_, _, _, _, _)
CheckNonblockedY(t, info, x, k, b) ==
    IF k > Len(info.y_constraints) THEN CheckNonblockedMatched(t, info, x, b)
    ELSE LET yc == info.y_constraints[k]
             Try(acc, y) == IF YSatisfiedViaMirroring(acc, yc, x, y)
                            THEN CheckNonblockedY(acc, info, x, k + 1, b @@ (yc.var :> y))
                            ELSE acc
         IN  FoldLeft(Try, t, YSuccessors(t, yc, x))

\* check_nonblocked_z: the first assignment of the Z variables is enough.
FirstZBinding(t, info) ==
    [v \in ToSet(info.z_variables) |->
        LET i    == CHOOSE j \in DOMAIN info.z_variables : info.z_variables[j] = v
            cand == {x \in Nodes(t) : info.z_concepts[i] \subseteq t.concepts[x]}
        IN  CHOOSE x \in cand : \A y \in cand : x <= y]
CheckClauseForNonblockedX(t, info, x) ==
    IF PremiseHolds(t, info, x) /\ ZBindings(t, info) /= {}
    THEN CheckNonblockedY(t, info, x, 1, (X :> x) @@ FirstZBinding(t, info))
    ELSE t

CheckConstraintsForNonblockedX(t, infos, x) ==
    LET afterAtLeasts == FoldLeft(LAMBDA acc, a : CheckAtLeastForNonblocked(acc, a, x),
                                  t, SetToSeq(t.atleast[x]))
    IN  FoldLeft(LAMBDA acc, info : CheckClauseForNonblockedX(acc, info, x), afterAtLeasts, infos)

\* reset_child_flags: the parent's neighbours that are not its ancestors.
IsAncestorOf(t, x, y) ==
    LET up[k \in 0 .. t.n] == IF k = 0 THEN y ELSE IF up[k - 1] = 0 THEN 0 ELSE t.parent[up[k - 1]]
    IN  \E k \in 1 .. t.n : up[k] = x
Neighbours(t, x) == {e[3] : e \in {f \in ToSet(t.roles) : f[2] = x}}
                    \cup {e[2] : e \in {f \in ToSet(t.roles) : f[3] = x}}
ResetChildFlags(t, p) ==
    [t EXCEPT !.violates = [x \in DOMAIN @ |->
        IF x \in Neighbours(t, p) /\ ~IsAncestorOf(t, x, p) THEN FALSE ELSE @[x]]]

\* is_block_valid: the tableau after the call, and the verdict.
IsBlockValid(t, infos, bx) ==
    LET p  == t.parent[bx]
        t1 == IF t.checked[p] THEN t
              ELSE [CheckConstraintsForNonblockedX(ResetChildFlags(t, p), infos, p) EXCEPT !.checked[p] = TRUE]
    IN  IF p = 0 THEN [t |-> t, valid |-> TRUE]
        ELSE [t |-> t1, valid |-> ~t1.violates[bx] /\ SatisfiesConstraintsForBlockedX(t1, infos, bx)]

(* ------------------- what a valid block must ensure -------------------- *)

\* The node whose label a node has once the blocks are unravelled.
Unravelled(t, x) == IF IsBlocked(t, x) THEN t.blocker[x] ELSE x

\* The neighbourhood of x in the unravelled model: a blocked node keeps the
\* edge to its own parent ("up") and has copies of the other neighbours of its
\* blocker ("down").
Around(t, x) ==
    IF IsBlocked(t, x)
    THEN {<<"at", x>>, <<"up", t.parent[x]>>} \cup {<<"down", y>> : y \in Nodes(t) \ {t.parent[t.blocker[x]]}}
    ELSE {<<"at", x>>} \cup {<<"down", y>> : y \in Nodes(t)}
UnravelledRole(t, r, u, v) ==
    LET c == IF u[1] = "at" THEN u[2] ELSE v[2]
        o == IF u[1] = "at" THEN v ELSE u
        k == IF o[1] = "down" THEN Unravelled(t, c) ELSE c
    IN  IF u[1] = "at" THEN HasRole(t, r, k, o[2]) ELSE HasRole(t, r, o[2], k)

UnravelledHolds(t, a, b) ==
    CASE a.kind = "concept"  -> a.name \in t.concepts[Unravelled(t, b[a.args[1]][2])]
      [] a.kind = "atleast"  -> a.name \in t.atleast[Unravelled(t, b[a.args[1]][2])]
      [] a.kind = "role"     -> UnravelledRole(t, a.name, b[a.args[1]], b[a.args[2]])
      [] a.kind = "equality" -> b[a.args[1]][2] = b[a.args[2]][2]

\* A clause holds around x: no assignment of its variables makes the body
\* true and the head false in the unravelled model.
ClauseHoldsAround(t, clause, x) ==
    LET others == UNION {ToSet(clause.body[i].args) : i \in DOMAIN clause.body} \ {X}
    IN  \A f \in [others -> Around(t, x) \ {<<"at", x>>}] :
           LET b == f @@ (X :> <<"at", x>>)
           IN  (\A i \in DOMAIN clause.body : UnravelledHolds(t, clause.body[i], b))
                   => \E i \in DOMAIN clause.head : UnravelledHolds(t, clause.head[i], b)

AtLeastHoldsAround(t, a, x) ==
    Cardinality({y \in Around(t, x) \ {<<"at", x>>} :
        /\ IF a.inverse THEN UnravelledRole(t, a.role, y, <<"at", x>>)
                        ELSE UnravelledRole(t, a.role, <<"at", x>>, y)
        /\ a.concept \in t.concepts[Unravelled(t, y[2])]}) >= a.number
=============================================================================
