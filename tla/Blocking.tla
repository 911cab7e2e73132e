------------------------------ MODULE Blocking ------------------------------
(***************************************************************************)
(* Blocking and the order of existential expansion: the incremental        *)
(* recomputation of blocks (anywhere, ancestor, core pre-blocking and its  *)
(* validation), the caches it keeps from one pass to the next, and the     *)
(* expansion cursor.  Node slots are numbered by creation order, which is  *)
(* the order of the tableau list; a slot above t.n is free.                *)
(*                                                                         *)
(* t.bin, t.exs and t.roles are the extension tables in insertion order    *)
(* (atomic concepts with their core flag, at-least concepts, roles).  A    *)
(* cache slot is a set of at most one label: {} means not fetched.         *)
(***************************************************************************)
EXTENDS BlockingValidator

CONSTANTS Kind,          \* "anywhere", "ancestor" or "validated"
          Direct,        \* "single" or "pairwise" (DirectBlockingKind)
          Inverses,      \* blocking_has_inverses
          Start,         \* the concept asserted of the root
          Derived,       \* atomic concepts that clauses may derive on any node
          Existentials,  \* at-least concepts
          BackRoles,     \* roles that may be derived from a child to its parent
          Clauses,       \* clauses saturated by the hyperresolution rule
          Merging,       \* whether equalities may merge tree nodes
          MaxNodes, MaxLevel, MaxTests,
          MaxConcepts    \* bounds the concept assertions

VARIABLES t, phase, tests
bvars == <<t, phase, tests>>

Slots == 1 .. MaxNodes + Cardinality(Existentials)
All(v) == [x \in Slots |-> v]
Validated == Kind = "validated"
Infos == ValidatorClauses(Clauses)

\* One root node; everything else empty.
EmptyTableau(cached) ==
    [n |-> 1, parent |-> All(0), active |-> [x \in Slots |-> x = 1],
     bin |-> << >>, exs |-> << >>, roles |-> << >>,
     un |-> All({}), processed |-> << >>, gone |-> << >>, bps |-> << >>,
     blocker |-> All(0), direct |-> All(FALSE), violates |-> All(FALSE), checked |-> All(FALSE),
     label |-> All({}), core |-> All({}), from |-> All({}), to |-> All({}),
     changed |-> All(FALSE), since |-> All(FALSE), first |-> 0, frontier |-> 0,
     bySignature |-> {}, bySignatureOf |-> {}, vcache |-> << >>,
     cursor |-> 0, signatures |-> cached, unbreakable |-> FALSE]

(* ------------------------------ labels -------------------------------- *)

ScanLabel(s, x) == {b[1] : b \in {d \in ToSet(s.bin) : d[2] = x}}
ScanCore(s, x) == {b[1] : b \in {d \in ToSet(s.bin) : d[2] = x /\ d[3]}}
ScanEdge(s, x, y) == {e[1] : e \in {d \in ToSet(s.roles) : d[2] = x /\ d[3] = y}}
AtLeastsOf(s, x) == {e[1] : e \in {d \in ToSet(s.exs) : d[2] = x}}

IsTree(x) == x > 1
NodeId(s, x) == IF x <= s.n THEN x ELSE -1
BlockedNode(s, x) == s.blocker[x] /= 0 \/ s.direct[x]
SetBlocked(s, x, b, d) == [s EXCEPT !.blocker[x] = b, !.direct[x] = d]

\* The validator's view of the tableau; inactive nodes are in no retrieval.
View(s) == [n |-> s.n, parent |-> s.parent, roles |-> SelectSeq(s.roles, LAMBDA e : s.active[e[2]] /\ s.active[e[3]]),
            concepts |-> [x \in Slots |-> IF s.active[x] THEN ScanLabel(s, x) ELSE {}],
            atleast |-> [x \in Slots |-> IF s.active[x] THEN AtLeastsOf(s, x) ELSE {}],
            blocker |-> s.blocker, violates |-> s.violates, checked |-> s.checked, unbreakable |-> s.unbreakable]

Fetch(cache, scanned) == IF cache = {} THEN {scanned} ELSE cache
Get(cache) == CHOOSE v \in cache : TRUE

\* direct_signature: the labels are read through the per-node caches, which
\* it fills.
FillDirect(s, x) ==
    IF Direct = "single" THEN [s EXCEPT !.label[x] = Fetch(@, ScanLabel(s, x))]
    ELSE LET p == s.parent[x] IN
         [s EXCEPT !.label[x] = Fetch(@, ScanLabel(s, x)), !.label[p] = Fetch(@, ScanLabel(s, p)),
                   !.from[x] = Fetch(@, ScanEdge(s, p, x)), !.to[x] = Fetch(@, ScanEdge(s, x, p))]
DirectSignature(s, x) ==
    IF Direct = "single" THEN <<Get(s.label[x])>>
    ELSE <<Get(s.label[x]), Get(s.label[s.parent[x]]), Get(s.from[x]), Get(s.to[x])>>

\* validated_block_signature: core labels only.
FillCore(s, x) ==
    IF Direct = "single" THEN [s EXCEPT !.core[x] = Fetch(@, ScanCore(s, x))]
    ELSE LET p == s.parent[x] IN
         [s EXCEPT !.core[x] = Fetch(@, ScanCore(s, x)), !.core[p] = Fetch(@, ScanCore(s, p))]
CoreSignature(s, x) ==
    IF Direct = "single" THEN <<Get(s.core[x])>> ELSE <<Get(s.core[x]), Get(s.core[s.parent[x]])>>

\* can_participate_in_blocking.
CanParticipate(s, x) ==
    /\ s.active[x] /\ IsTree(x)
    /\ IF Validated THEN ~Inverses \/ IsTree(s.parent[x])
       ELSE Direct = "single" \/ IsTree(s.parent[x])

(* ------------------------ change notifications ------------------------ *)

Lower(first, x) == IF first = 0 \/ x < first THEN x ELSE first
UpdateNodeChange(s, x) == [s EXCEPT !.first = Lower(@, x)]

\* invalidate_blocking_cache.
InvalidateCache(s, x) ==
    [s EXCEPT !.label[x] = {}, !.core[x] = {}, !.from[x] = {}, !.to[x] = {},
              !.changed[x] = TRUE, !.since[x] = TRUE]
RewindFrontier(s, x) ==
    IF s.frontier /= 0 /\ NodeId(s, x) < NodeId(s, s.frontier) THEN [s EXCEPT !.frontier = x] ELSE s
NoteNodeChanged(s, x) == RewindFrontier(InvalidateCache(UpdateNodeChange(s, x), x), x)

ValidationInfoChanged(s, x) ==
    LET s1 == IF s.frontier = 0 THEN s ELSE UpdateNodeChange(RewindFrontier(s, x), x)
    IN  [s1 EXCEPT !.since[x] = TRUE]
ValidationChangedSelf(s, x) == IF Validated THEN ValidationInfoChanged(s, x) ELSE s
ValidationChangedParent(s, x) ==
    IF Validated /\ s.parent[x] /= 0 THEN ValidationInfoChanged(s, s.parent[x]) ELSE s

\* nodeStatusChanged: a node was created, merged, pruned or reactivated.
StatusChanged(s, x) == ValidationChangedParent(ValidationChangedSelf(NoteNodeChanged(s, x), x), x)

\* note_unprocessed_existential; 0 is "no cursor".
NoteUnprocessed(s, x) ==
    IF s.cursor /= 0 /\ x >= s.cursor THEN s ELSE [s EXCEPT !.cursor = x]

(* ------------------------ assertions and nodes ------------------------ *)

\* A non-core atomic concept under core blocking (add_binary_core,
\* post_remove): the labels are dropped and the change flag is cleared.
NonCoreChanged(s, x) ==
    ValidationChangedParent(ValidationInfoChanged([InvalidateCache(s, x) EXCEPT !.changed[x] = FALSE], x), x)
AtomicChanged(s, x, isCore) ==
    IF Validated /\ ~isCore THEN NonCoreChanged(s, x)
    ELSE ValidationChangedParent(NoteNodeChanged(s, x), x)

\* add_binary_core for an atomic concept: a tuple already present may only be
\* upgraded to core.
AddConcept(s, c, x, isCore) ==
    LET here == {i \in DOMAIN s.bin : s.bin[i][1] = c /\ s.bin[i][2] = x}
        i    == CHOOSE j \in here : TRUE
    IN  IF here = {} THEN AtomicChanged([s EXCEPT !.bin = Append(@, <<c, x, isCore>>)], x, isCore)
        ELSE IF isCore /\ ~s.bin[i][3]
             THEN LET s1 == [s EXCEPT !.bin[i][3] = TRUE]
                  IN  IF Validated THEN ValidationChangedParent(NoteNodeChanged(s1, x), x) ELSE s1
             ELSE s

\* add_binary_core for an at-least concept (post_add_binary queues it).
AddExistential(s, e, x) ==
    IF e \in AtLeastsOf(s, x) THEN s
    ELSE NoteUnprocessed([s EXCEPT !.exs = Append(@, <<e, x>>), !.un[x] = @ \cup {e}], x)

\* The child of a parent-child edge, if the edge is one.
RoleChanged(s, x, y) ==
    IF Direct = "single" THEN s
    ELSE IF s.parent[y] = x THEN NoteNodeChanged(s, y)
    ELSE IF s.parent[x] = y THEN NoteNodeChanged(s, x) ELSE s
AddRole(s, r, x, y, isCore) ==
    LET s1 == [s EXCEPT !.roles = Append(@, <<r, x, y>>)]
        s2 == IF isCore THEN UpdateNodeChange(UpdateNodeChange(s1, x), y) ELSE s1
    IN  IF <<r, x, y>> \in ToSet(s.roles) THEN s
        ELSE IF Validated THEN ValidationInfoChanged(ValidationInfoChanged(s2, x), y)
        ELSE RoleChanged(s1, x, y)

\* create_new_node_raw: a reused slot keeps the validation flags it had.
CreateNode(s, p) ==
    LET x == s.n + 1
    IN  StatusChanged([s EXCEPT !.n = x, !.parent[x] = p, !.active[x] = TRUE, !.un[x] = {},
                                !.blocker[x] = 0, !.direct[x] = FALSE], x)

\* prune_node / merge_node: the status change only.
Deactivate(s, x) == StatusChanged([s EXCEPT !.active[x] = FALSE, !.gone = Append(@, x)], x)

Descendants(s, x) == SelectSeq([i \in 1 .. s.n |-> i], LAMBDA y : IsAncestorOf([n |-> s.n, parent |-> s.parent], x, y))

(* ----------------------------- backtracking --------------------------- *)

PushBranchingPoint(s) ==
    [s EXCEPT !.bps = Append(@, [bin |-> Len(s.bin), exs |-> Len(s.exs), roles |-> Len(s.roles),
                                 gone |-> Len(s.gone), processed |-> Len(s.processed), n |-> s.n])]

\* backtrack_existentials: newest first, back into their nodes' queues.
RestoreExistentials(s, k) ==
    LET Restore(acc, pe) == NoteUnprocessed([acc EXCEPT !.un[pe[1]] = @ \cup {pe[2]}], pe[1])
    IN  [FoldLeft(Restore, s, Reverse(SubSeq(s.processed, k + 1, Len(s.processed))))
            EXCEPT !.processed = SubSeq(@, 1, k)]

\* backtrack_extension_tables with post_remove for every tuple removed.
RemoveRoleTuple(s, e) ==
    IF Validated THEN ValidationInfoChanged(ValidationInfoChanged(s, e[2]), e[3])
    ELSE RoleChanged(s, e[2], e[3])
RemoveTuples(s, bp) ==
    LET Rest(seq, k) == SubSeq(seq, k + 1, Len(seq))
        s1 == [s EXCEPT !.bin = SubSeq(@, 1, bp.bin), !.exs = SubSeq(@, 1, bp.exs), !.roles = SubSeq(@, 1, bp.roles)]
        s2 == FoldLeft(LAMBDA acc, b : AtomicChanged(acc, b[2], b[3]), s1, Reverse(Rest(s.bin, bp.bin)))
        s3 == FoldLeft(LAMBDA acc, e : [acc EXCEPT !.un[e[2]] = @ \ {e[1]}], s2, Rest(s.exs, bp.exs))
    IN  FoldLeft(RemoveRoleTuple, s3, Reverse(Rest(s.roles, bp.roles)))

\* backtrack_last_merged_or_pruned_node.
Reactivate(s, x) ==
    LET s1 == [s EXCEPT !.active[x] = TRUE]
    IN  StatusChanged(IF s.un[x] /= {} THEN NoteUnprocessed(s1, x) ELSE s1, x)
RestoreNodes(s, k) ==
    [FoldLeft(Reactivate, s, Reverse(SubSeq(s.gone, k + 1, Len(s.gone)))) EXCEPT !.gone = SubSeq(@, 1, k)]

\* blockers_cache_remove / validated_cache_remove: under the signature with
\* which the node was entered.
BlockersRemove(s, x) ==
    LET sigs == {e[2] : e \in {d \in s.bySignatureOf : d[1] = x}}
    IN  [s EXCEPT !.bySignatureOf = {d \in @ : d[1] /= x}, !.bySignature = {d \in @ : d[1] \notin sigs}]
ValidatedRemove(s, x) == [s EXCEPT !.vcache = SelectSeq(@, LAMBDA d : d[2] /= x)]

\* note_blocking_node_destroyed.
NodeDestroyed(s, x) ==
    LET s1 == BlockersRemove(s, x)
        s2 == IF Validated THEN ValidatedRemove(s1, x) ELSE s1
        s3 == [InvalidateCache(s2, x) EXCEPT !.changed[x] = FALSE]
        s4 == IF s3.first >= x THEN [s3 EXCEPT !.first = 0] ELSE s3
    IN  RewindFrontier(s4, x)

\* destroy_last_tableau_node: the cursor retreats to the predecessor.
DestroyLast(s) ==
    LET x  == s.n
        s1 == NodeDestroyed(IF s.cursor = x THEN [s EXCEPT !.cursor = x - 1] ELSE s, x)
    IN  [s1 EXCEPT !.n = x - 1, !.active[x] = FALSE, !.parent[x] = 0, !.un[x] = {}, !.blocker[x] = 0]

BacktrackTo(s) ==
    LET bp == s.bps[Len(s.bps)]
        s1 == RestoreNodes(RemoveTuples(RestoreExistentials(s, bp.processed), bp), bp.gone)
        down[k \in bp.n .. s.n] == IF k = s.n THEN s1 ELSE DestroyLast(down[k + 1])
    IN  [down[bp.n] EXCEPT !.bps = SubSeq(@, 1, Len(@) - 1)]

(* ------------------------- the blocking passes ------------------------ *)

From(s, x) == [i \in 1 .. s.n - x + 1 |-> x + i - 1]

IgnoreChange(s, x, start) == ~s.direct[x] \/ s.blocker[x] >= start
\* The recompute guard shared by the incremental passes: a directly blocked
\* node keeps its block when its own info is unchanged and its blocker lies
\* below the changed range.
MustRecompute(s, x, start) ==
    \/ s.changed[x]
    \/ ~s.direct[x]
    \/ s.blocker[x] >= start

\* An unblocked node with existentials left pulls the cursor back.
Requeue(s, x) == IF s.un[x] /= {} THEN NoteUnprocessed(s, x) ELSE s

AnywhereBlockers(s, sig) == {e[2] : e \in {d \in s.bySignature : d[1] = sig}}
BlockersAdd(s, x, sig) ==
    [s EXCEPT !.bySignature = {d \in @ : d[1] /= sig} \cup {<<sig, x>>},
              !.bySignatureOf = {d \in @ : d[1] /= x} \cup {<<x, sig>>}]

\* One node of compute_blocking_anywhere.
AnywhereDecide(s, x) ==
    LET p   == s.parent[x]
        s1  == FillDirect(s, x)
        sig == DirectSignature(s1, x)
    IN  IF BlockedNode(s, p) THEN SetBlocked(s, x, p, FALSE)
        ELSE IF sig \in s.signatures THEN SetBlocked(s1, x, 0, TRUE)
        ELSE IF AnywhereBlockers(s, sig) /= {} THEN SetBlocked(s1, x, Get(AnywhereBlockers(s, sig)), TRUE)
        ELSE Requeue(BlockersAdd(SetBlocked(s1, x, 0, FALSE), x, sig), x)
AnywhereStep(s, x, start) ==
    IF ~CanParticipate(s, x) THEN s
    ELSE [(IF MustRecompute(s, x, start) THEN AnywhereDecide(s, x) ELSE s) EXCEPT !.changed[x] = FALSE]
ComputeAnywhere(s) ==
    IF s.first = 0 THEN s
    ELSE LET range == From(s, s.first)
             s1    == FoldLeft(BlockersRemove, s, range)
         IN  [FoldLeft(LAMBDA acc, x : AnywhereStep(acc, x, s.first), s1, range) EXCEPT !.first = 0]

\* compute_blocking_ancestor: every active node, its tree ancestors only.
Ancestors(s, x) == {y \in 1 .. s.n : IsAncestorOf([n |-> s.n, parent |-> s.parent], y, x)}
AncestorBlockers(s, x, sig) ==
    {y \in Ancestors(s, x) : IsTree(x) /\ IsTree(y) /\ ~BlockedNode(s, y) /\ DirectSignature(FillDirect(s, y), y) = sig}
NearestOf(nodes) == IF nodes = {} THEN 0 ELSE CHOOSE y \in nodes : \A z \in nodes : z <= y
\* The ancestors compared on the way to the blocker get their signatures.
AncestorBlock(s, x, near) ==
    SetBlocked(FoldLeft(FillDirect, s, SelectSeq(From(s, 1), LAMBDA y : /\ y \in Ancestors(s, x) /\ y >= near
                                                                       /\ IsTree(x) /\ IsTree(y) /\ ~BlockedNode(s, y))),
               x, near, near /= 0)
AncestorSearch(s, x, sig) ==
    IF sig \in s.signatures THEN SetBlocked(s, x, 0, TRUE)
    ELSE AncestorBlock(s, x, NearestOf(AncestorBlockers(s, x, sig)))
AncestorFilled(s, x) == AncestorSearch(s, x, DirectSignature(s, x))
AncestorDecide(s, x) ==
    LET p == s.parent[x]
    IN  IF p = 0 THEN SetBlocked(s, x, 0, FALSE)
        ELSE IF BlockedNode(s, p) THEN SetBlocked(s, x, p, FALSE)
        ELSE AncestorFilled(FillDirect(s, x), x)
RequeueUnblocked(s, x) == IF BlockedNode(s, x) THEN s ELSE Requeue(s, x)
AncestorStep(s, x) == IF ~s.active[x] THEN s ELSE RequeueUnblocked(AncestorDecide(s, x), x)
ComputeAncestor(s) == FoldLeft(AncestorStep, s, From(s, 1))

\* The validated blockers cache: every unblocked candidate of a signature.
PossibleBlockers(s, sig) ==
    LET hits == SelectSeq(s.vcache, LAMBDA d : d[1] = sig) IN [i \in DOMAIN hits |-> hits[i][2]]
ValidatedAdd(s, x) ==
    LET s1 == FillCore(s, x)
    IN  [ValidatedRemove(s1, x) EXCEPT !.vcache = Append(@, <<CoreSignature(s1, x), x>>)]

\* compute_pre_blocking: after a validation a node is blocked again only by a
\* blocker that changed since, or that it had before, or when it changed itself.
PreBlocker(s, x, sig) ==
    LET cand == PossibleBlockers(s, sig)
        ok   == IF s.frontier = 0 THEN cand
                ELSE SelectSeq(cand, LAMBDA y : s.since[x] \/ s.since[y] \/ s.blocker[x] = y)
    IN  IF s.frontier = 0 /\ s.blocker[x] \in ToSet(cand) THEN s.blocker[x]
        ELSE IF ok = << >> THEN 0 ELSE ok[1]
PreBlockFilled(s, x) ==
    LET b == PreBlocker(s, x, CoreSignature(s, x)) IN SetBlocked(s, x, b, b /= 0)
PreBlockDecide(s, x) ==
    LET p == s.parent[x]
    IN  IF BlockedNode(s, p) THEN SetBlocked(s, x, p, FALSE) ELSE PreBlockFilled(FillCore(s, x), x)
EnterCandidate(s, x) == IF BlockedNode(s, x) THEN s ELSE Requeue(ValidatedAdd(s, x), x)
PreBlockStep(s, x, start) ==
    [(IF ~CanParticipate(s, x) THEN s
      ELSE EnterCandidate(IF MustRecompute(s, x, start) THEN PreBlockDecide(s, x) ELSE s, x)) EXCEPT !.changed[x] = FALSE]
ComputePreBlocking(s) ==
    IF s.first = 0 THEN s
    ELSE LET range == From(s, s.first)
             s1    == FoldLeft(ValidatedRemove, s, range)
         IN  [FoldLeft(LAMBDA acc, x : PreBlockStep(acc, x, s.first), s1, range) EXCEPT !.first = 0]

\* is_block_valid, with the validator's flags written back.
WithFlags(s, r) ==
    [s |-> [s EXCEPT !.violates = r.t.violates, !.checked = r.t.checked, !.unbreakable = r.t.unbreakable],
     valid |-> r.valid]
CheckBlock(s, x) == WithFlags(s, IsBlockValid(View(s), Infos, x))

\* validate_blocks, one blocked node: its blocker, then the other candidates.
Tried(acc, r, y) == [acc EXCEPT !.s = r.s, !.found = IF r.valid THEN y ELSE 0]
TryBlocker(acc, x, y) ==
    IF acc.found /= 0 \/ y = acc.had THEN acc
    ELSE Tried(acc, CheckBlock([SetBlocked(acc.s, x, y, TRUE) EXCEPT !.checked[acc.s.parent[x]] = FALSE], x), y)
TryOthers(s, x, had) ==
    FoldLeft(LAMBDA acc, y : TryBlocker(acc, x, y), [s |-> s, found |-> 0, had |-> had],
             PossibleBlockers(s, CoreSignature(s, x)))
AfterKept(keep, x, had) ==
    IF keep.valid THEN [s |-> keep.s, found |-> had, had |-> had] ELSE TryOthers(FillCore(keep.s, x), x, had)
Settle(try, x, bad) ==
    SetBlocked([(IF bad THEN NoteUnprocessed(try.s, x) ELSE try.s) EXCEPT !.first = IF bad /\ @ = 0 THEN x ELSE @],
               x, try.found, try.found /= 0)
SettleBlock(try, x) == Settle(try, x, try.found = 0 /\ try.s.un[x] /= {})
Revalidate(s, x) ==
    SettleBlock(AfterKept(IF s.direct[x] /\ s.blocker[x] /= 0 THEN CheckBlock(s, x) ELSE [s |-> s, valid |-> FALSE],
                          x, s.blocker[x]), x)
NeedsValidation(s, x) ==
    LET p == s.parent[x]
    IN  \/ s.direct[x] /\ (s.since[x] \/ (p /= 0 /\ s.since[p]) \/ (s.blocker[x] /= 0 /\ s.since[s.blocker[x]]))
        \/ p = 0 \/ ~BlockedNode(s, p)
EnterUnblocked(s, x) == IF ~BlockedNode(s, x) /\ CanParticipate(s, x) THEN ValidatedAdd(s, x) ELSE s
ValidateStep(s, x) ==
    IF ~s.active[x] THEN s
    ELSE EnterUnblocked([(IF BlockedNode(s, x) /\ NeedsValidation(s, x) THEN Revalidate(s, x) ELSE s)
                            EXCEPT !.frontier = x], x)
\* The flags are reset on the validated nodes, and the record of the parent
\* check on their parents too.
ResetFlags(s, range) ==
    LET live    == {x \in ToSet(range) : s.active[x]}
        parents == {s.parent[x] : x \in live}
    IN  [s EXCEPT !.since = [x \in Slots |-> @[x] /\ x \notin live],
                  !.violates = [x \in Slots |-> @[x] /\ x \notin live],
                  !.checked = [x \in Slots |-> @[x] /\ x \notin live \cup parents]]
\* validate_blocks: resumes at the frontier; a frontier left on a freed slot
\* has no successor in the tableau list.
ValidateBlocks(s) ==
    LET start == IF s.frontier = 0 THEN 1 ELSE s.frontier
        range == IF start > s.n THEN <<start>> ELSE From(s, start)
        s1    == FoldLeft(ValidatedRemove, [s EXCEPT !.first = 0], range)
    IN  ResetFlags(FoldLeft(ValidateStep, s1, range), range)

ComputeBlocking(s, finalChance) ==
    CASE Kind = "anywhere"  -> ComputeAnywhere(s)
      [] Kind = "ancestor"  -> ComputeAncestor(s)
      [] Kind = "validated" -> IF finalChance THEN ValidateBlocks(s) ELSE ComputePreBlocking(s)

(* ------------------------- existential expansion ---------------------- *)

\* at_least_concept_sat_type for cardinality one.
Satisfiers(s, e, x) ==
    {y \in ToSet(Successors(View(s), e.role, e.inverse, x)) :
        (~BlockedNode(s, y) \/ s.parent[y] = x) /\ e.concept \in ScanLabel(s, y)}
PermanentSatisfier(s, x, y) == y = x \/ s.parent[x] = y \/ s.parent[y] = x \/ s.parent[y] = 0
RecordProcessed(s, x, e) == [s EXCEPT !.un[x] = @ \ {e}, !.processed = Append(@, <<x, e>>)]
ExpandAtLeast(s, e, x) ==
    LET s1 == CreateNode(s, x)
        y  == s1.n
        s2 == IF e.inverse THEN AddRole(s1, e.role, y, x, TRUE) ELSE AddRole(s1, e.role, x, y, TRUE)
    IN  AddConcept(s2, e.concept, y, TRUE)
ProcessExistential(acc, e, x) ==
    LET sat == Satisfiers(acc.s, e, x)
    IN  IF sat = {} THEN [s |-> ExpandAtLeast(RecordProcessed(acc.s, x, e), e, x), changed |-> TRUE]
        ELSE IF \E y \in sat : PermanentSatisfier(acc.s, x, y)
             THEN [acc EXCEPT !.s = RecordProcessed(@, x, e)] ELSE acc

Expandable(s, x) == s.un[x] /= {} /\ s.active[x] /\ ~BlockedNode(s, x)
\* The walk from the cursor: it moves over nodes that are not expandable and
\* stops at the first node whose existentials change the tableau.
AdvanceCursor(s) ==
    LET ahead == {x \in 1 .. s.n : s.cursor /= 0 /\ x >= s.cursor /\ Expandable(s, x)}
    IN  [s EXCEPT !.cursor = IF ahead = {} THEN 0 ELSE CHOOSE x \in ahead : \A y \in ahead : x <= y]
ExpandNode(acc, x) ==
    IF acc.changed \/ ~Expandable(acc.s, x) THEN acc
    ELSE FoldLeft(LAMBDA a, e : ProcessExistential(a, e, x), acc, SetToSeq(acc.s.un[x]))
ExpandFromCursor(s) ==
    IF s.cursor = 0 THEN [s |-> s, changed |-> FALSE]
    ELSE FoldLeft(ExpandNode, [s |-> s, changed |-> FALSE], From(s, s.cursor))
ExpandExistentials(s, finalChance) == ExpandFromCursor(AdvanceCursor(ComputeBlocking(s, finalChance)))

(* ------------------------------- actions ------------------------------ *)

Explicit(s) == [View(s) EXCEPT !.blocker = All(0)]
Saturated(s) == \A i \in DOMAIN Clauses : \A x \in 1 .. s.n :
                    s.active[x] => ClauseHoldsAround(Explicit(s), Clauses[i], x)

Init == t = AddConcept(StatusChanged(EmptyTableau({}), 1), Start, 1, TRUE)
        /\ phase = "run" /\ tests = 1

\* A clause or a disjunct derives a concept, an existential or a role edge.
DeriveConcept == \E x \in 1 .. t.n, c \in Derived, isCore \in (IF Validated THEN BOOLEAN ELSE {FALSE}) :
    /\ phase = "run" /\ t.active[x] /\ Len(t.bin) + Len(t.exs) < MaxConcepts
    /\ t' = AddConcept(t, c, x, isCore)
    /\ UNCHANGED <<phase, tests>>
DeriveExistential == \E x \in 1 .. t.n, e \in Existentials :
    /\ phase = "run" /\ t.active[x] /\ Len(t.bin) + Len(t.exs) < MaxConcepts
    /\ t' = AddExistential(t, e, x)
    /\ UNCHANGED <<phase, tests>>
DeriveRole == \E x \in 2 .. t.n, r \in BackRoles :
    /\ phase = "run" /\ t.active[x] /\ t.active[t.parent[x]]
    /\ t' = AddRole(t, r, x, t.parent[x], FALSE)
    /\ UNCHANGED <<phase, tests>>

\* A tree node is merged away: its subtree is pruned, its label goes to the
\* node it is merged into.
Merge == \E x \in 2 .. t.n, y \in 1 .. t.n :
    /\ Merging /\ phase = "run" /\ t.active[x] /\ t.active[y] /\ x /= y
    /\ y \notin ToSet(Descendants(t, x))
    /\ LET live   == SelectSeq(Descendants(t, x), LAMBDA z : t.active[z])
           pruned == FoldLeft(Deactivate, t, live)
           copied == FoldLeft(LAMBDA acc, b : AddConcept(acc, b[1], y, b[3]), pruned,
                              SelectSeq(t.bin, LAMBDA b : b[2] = x))
           moved  == FoldLeft(LAMBDA acc, e : AddExistential(acc, e[1], y), copied,
                              SelectSeq(t.exs, LAMBDA e : e[2] = x))
           edges  == SelectSeq(t.roles, LAMBDA e : (e[2] = x \/ e[3] = x) /\ pruned.active[e[2]] /\ pruned.active[e[3]])
           To(z)  == IF z = x THEN y ELSE z
           linked == FoldLeft(LAMBDA acc, e : AddRole(acc, e[1], To(e[2]), To(e[3]), e[1] \notin BackRoles), moved, edges)
       IN  t' = Deactivate(linked, x)
    /\ UNCHANGED <<phase, tests>>

\* process_first_ground_disjunction, once nothing is left to expand: the
\* first disjunct is added, under a new branching point unless it is the only
\* one left.
Disjunct == \E x \in 1 .. t.n, c \in Derived, isCore \in (IF Validated THEN BOOLEAN ELSE {FALSE}),
               choice \in (IF Len(t.bps) < MaxLevel THEN BOOLEAN ELSE {FALSE}) :
    /\ phase = "settled" /\ t.active[x] /\ Len(t.bin) + Len(t.exs) < MaxConcepts
    /\ c \notin ScanLabel(t, x)
    /\ t' = AddConcept(IF choice THEN PushBranchingPoint(t) ELSE t, c, x, isCore)
    /\ phase' = "run" /\ UNCHANGED tests
\* No disjunction is left: the final chance of an inexact strategy, or a model.
NoDisjunction == /\ phase = "settled"
                 /\ phase' = IF Validated THEN "final" ELSE "model"
                 /\ UNCHANGED <<t, tests>>
Backtrack == /\ phase = "run" /\ t.bps /= << >>
             /\ t' = BacktrackTo(t)
             /\ UNCHANGED <<phase, tests>>

Expand == /\ phase \in {"run", "final"} /\ Saturated(t)
          /\ \E r \in {ExpandExistentials(t, phase = "final")} :
                 /\ r.s.n <= MaxNodes
                 /\ t' = r.s
                 /\ phase' = IF r.changed THEN "run" ELSE IF phase = "run" THEN "settled" ELSE "model"
          /\ UNCHANGED tests

\* A model is found: cache_model_signatures, then the tableau is cleared for
\* the next test.
ModelSignatures(s) == {DirectSignature(FillDirect(s, x), x) : x \in
                          {y \in 1 .. s.n : s.active[y] /\ ~BlockedNode(s, y) /\ CanParticipate(s, y)}}
NextTest == /\ phase = "model" /\ tests < MaxTests
            /\ t' = AddConcept(StatusChanged(EmptyTableau(IF Validated THEN {}
                        ELSE t.signatures \cup ModelSignatures(t)), 1), Start, 1, TRUE)
            /\ phase' = "run" /\ tests' = tests + 1

Next == \/ DeriveConcept \/ DeriveExistential \/ DeriveRole \/ Merge \/ Disjunct \/ NoDisjunction
        \/ Backtrack \/ Expand \/ NextTest
Spec == Init /\ [][Next]_bvars

(* ------------------------------ properties ---------------------------- *)

\* Every assertion added, removed or copied invalidates the cached labels it
\* changes: a cached label is the one the extension tables hold.
CachesFresh ==
    \A x \in 1 .. t.n : t.active[x] =>
        IF Validated THEN t.core[x] \subseteq {ScanCore(t, x)}
        ELSE /\ t.label[x] \subseteq {ScanLabel(t, x)}
             /\ Direct = "pairwise" => /\ t.from[x] \subseteq {ScanEdge(t, t.parent[x], x)}
                                       /\ t.to[x] \subseteq {ScanEdge(t, x, t.parent[x])}

\* The blockers caches hold live nodes only, one node per signature, and the
\* signature under which a node would be removed is the one it was entered
\* with: no freed (and later reused) slot is ever offered as a blocker.
NoGhostBlocker ==
    /\ t.bySignatureOf = {<<d[2], d[1]>> : d \in t.bySignature}
    /\ \A d \in t.bySignature : d[2] <= t.n
    /\ \A i \in DOMAIN t.vcache : t.vcache[i][2] <= t.n
    /\ \A x \in 1 .. t.n : t.blocker[x] <= t.n

\* The expansion cursor is a lower bound: no node that could be expanded lies
\* before it, whatever was added, unblocked, reactivated or destroyed since.
NoWorkBeforeCursor ==
    \A x \in 1 .. t.n : Expandable(t, x) => t.cursor /= 0 /\ t.cursor <= x

\* What a model promises: every existential of an unblocked node, still queued
\* or recorded as processed, has a witness among the active nodes.
ModelExpanded ==
    phase = "model" => \A x \in 1 .. t.n : (t.active[x] /\ ~BlockedNode(t, x)) =>
        \A e \in AtLeastsOf(t, x) :
            \E y \in ToSet(Successors(View(t), e.role, e.inverse, x)) : e.concept \in ScanLabel(t, y)

\* The signature of a node as the extension tables give it now.
TrueSignature(s, x) ==
    IF Direct = "single" THEN <<ScanLabel(s, x)>>
    ELSE <<ScanLabel(s, x), ScanLabel(s, s.parent[x]), ScanEdge(s, s.parent[x], x), ScanEdge(s, x, s.parent[x])>>
BlocksMatchBy(Sig(_)) ==
    \A x \in 2 .. t.n : (CanParticipate(t, x) /\ t.direct[x]) =>
        \/ Sig(TrueSignature(t, x)) \in {Sig(g) : g \in t.signatures}
        \/ /\ t.blocker[x] /= 0 /\ ~BlockedNode(t, t.blocker[x])
           /\ t.active[t.blocker[x]]
           /\ Sig(TrueSignature(t, x)) = Sig(TrueSignature(t, t.blocker[x]))

\* In a model every directly blocked node has the signature of its blocker,
\* which is itself active and unblocked, or a signature of an earlier model:
\* the condition under which the incremental passes keep a block.
BlocksMatch == phase = "model" => BlocksMatchBy(LAMBDA g : g)

\* The same for the parts of the signature that belong to the node itself:
\* its label and the edge to its parent.
OwnPart(g) == IF Direct = "single" THEN g ELSE <<g[1], g[3], g[4]>>
OwnSignatureMatches == phase = "model" => BlocksMatchBy(OwnPart)

\* No two unblocked nodes that may block have the same signature once a pass
\* of anywhere blocking is over: expansion stops when labels repeat.
BlockersDistinct ==
    phase = "model" => \A x, y \in 2 .. t.n :
        (/\ CanParticipate(t, x) /\ CanParticipate(t, y) /\ x /= y
         /\ ~BlockedNode(t, x) /\ ~BlockedNode(t, y)) => TrueSignature(t, x) /= TrueSignature(t, y)

\* In a model found with core blocking, every block passes the validator with
\* its flags reset: no block of the model is left unvalidated.
Fresh(s) == [s EXCEPT !.checked = All(FALSE), !.violates = All(FALSE)]
ModelBlocksValid ==
    phase = "model" => \A x \in 1 .. t.n : (t.active[x] /\ t.direct[x]) => CheckBlock(Fresh(t), x).valid

=============================================================================
