--------------------------- MODULE DependencySets ---------------------------
(***************************************************************************)
(* The dependency set factory (tableau/dependency_set.rs) and the parts of *)
(* the tableau that hold permanent dependency sets: stored tuples, merged  *)
(* nodes, ground disjunctions, buffered annotated equalities and the       *)
(* clash.  Every holder adds a usage when it takes a set and removes it    *)
(* when it is destroyed; remove_unused_sets drops the interned sets        *)
(* without usages.  All holders but the clash are stacks cut back to a     *)
(* watermark by backtrack_to, so one trail stands for them.                *)
(***************************************************************************)
EXTENDS Integers, FiniteSets, FiniteSetsExt, Sequences, Functions

CONSTANTS
    MaxLevel,               \* bound: branching points 0..MaxLevel
    MaxTrail,               \* bound: length of the trail
    MaxUsage                \* bound: usages of a set a satisfied disjunction takes

ASSUME BoundsAssumption == MaxLevel \in Nat /\ MaxTrail \in Nat /\ MaxUsage \in Nat

VARIABLES
    canonical,   \* the interned sets with their usage counts
    trail,       \* the holders in order: records [kind, set]
    clash,       \* clash_dependency_set: at most one set
    points,      \* branching_points: records [mark, choices], level = index - 1
    nonback,     \* nonbacktrackable_branching_point
    checkpoint   \* abox_checkpoint: at most one level

depVars == <<canonical, trail, clash, points, nonback, checkpoint>>

Kinds == {"tuple", "merge", "equality", "disjunction"}
Levels == 0..MaxLevel
CurrentLevel == Len(points) - 1
NoSets == [s \in {{}} |-> 1]

-----------------------------------------------------------------------------
(* The factory.  Each operation returns the interner it leaves.            *)

Intern(c, s) ==
    [t \in DOMAIN c \cup {s} |-> IF t \in DOMAIN c THEN c[t] ELSE 0]

AddUsage(c, s) == IF s \in DOMAIN c THEN [c EXCEPT ![s] = @ + 1] ELSE c

RemoveUsage(c, s) ==
    IF s \in DOMAIN c THEN [c EXCEPT ![s] = Max({0, @ - 1})] ELSE c

\* A mutant: a set used once is pruned.
RemoveOnceUsedSets(c) == Restrict(c, {s \in DOMAIN c : s = {} \/ c[s] > 1})

RemoveUnusedSets(c) == Restrict(c, {s \in DOMAIN c : s = {} \/ c[s] > 0})

\* One present constituent is returned as it is; the union of several, or of
\* none, is interned.
PermanentUnionOf(c, constituents) ==
    IF Len(constituents) = 1 THEN <<c, constituents[1]>>
    ELSE LET s == UNION Range(constituents) IN <<Intern(c, s), s>>

AddBranchingPoint(c, s, level) ==
    IF level \in s THEN <<c, s>> ELSE <<Intern(c, s \cup {level}), s \cup {level}>>

RemoveBranchingPoint(c, s, level) ==
    IF level \notin s THEN <<c, s>> ELSE <<Intern(c, s \ {level}), s \ {level}>>

MaximumBranchingPoint(s) == IF s = {} THEN -1 ELSE Max(s)
MinimumBranchingPoint(s) == IF s = {} THEN -1 ELSE Min(s)

-----------------------------------------------------------------------------
(* The holders.                                                            *)

\* The dependency sets of the premises of a rule: those of none, one or two
\* stored tuples.
Tuples == {i \in DOMAIN trail : trail[i].kind = "tuple"}
Premises ==
    {<<>>} \cup {<<trail[i].set>> : i \in Tuples}
           \cup {<<trail[i].set, trail[j].set>> : i, j \in Tuples}

Holder(kind, s) == [kind |-> kind, set |-> s]

\* A backtrack destroys holders one after the other, newest first: each takes a
\* usage of its set away if there is one left.
UsagesBy(holders, s) == Cardinality({i \in DOMAIN holders : holders[i].set = s})

Release(c, holders) ==
    [s \in DOMAIN c |-> Max({0, c[s] - UsagesBy(holders, s)})]

ClearClash(c) == IF clash = {} THEN c ELSE RemoveUsage(c, CHOOSE s \in clash : TRUE)

\* A rule fires: its conclusion is a new tuple, a merge or a buffered
\* annotated equality, or a tuple that is already there.
Derive(kind, premises, present) ==
    LET u == PermanentUnionOf(canonical, premises)
    IN  /\ clash = {} /\ Len(trail) < MaxTrail
        /\ present => kind = "tuple"
        /\ canonical' = IF present THEN u[1] ELSE AddUsage(u[1], u[2])
        /\ trail' = IF present THEN trail ELSE Append(trail, Holder(kind, u[2]))
        /\ UNCHANGED <<clash, points, nonback, checkpoint>>

\* derive_disjunction takes its usage before it looks whether the disjunction
\* is satisfied, and then drops the disjunction without giving it back.
DeriveDisjunction(premises, satisfied) ==
    LET u == PermanentUnionOf(canonical, premises)
    IN  /\ clash = {} /\ Len(trail) < MaxTrail
        /\ canonical' = AddUsage(u[1], u[2])
        /\ satisfied => canonical'[u[2]] <= MaxUsage
        /\ trail' = IF satisfied THEN trail
                    ELSE Append(trail, Holder("disjunction", u[2]))
        /\ UNCHANGED <<clash, points, nonback, checkpoint>>

SetClash(premises) ==
    LET u == PermanentUnionOf(ClearClash(canonical), premises)
    IN  /\ canonical' = AddUsage(u[1], u[2])
        /\ clash' = {u[2]}
        /\ UNCHANGED <<trail, points, nonback, checkpoint>>

\* An unprocessed disjunction of two or three disjuncts, a buffered annotated
\* equality or a reused individual: a branching point, and the first choice.
ProcessChoice(i, choices) ==
    LET level == Len(points)
        a == AddBranchingPoint(canonical, trail[i].set, level)
    IN  /\ clash = {} /\ level \in Levels /\ Len(trail) < MaxTrail
        /\ trail[i].kind \in {"disjunction", "equality", "tuple"}
        /\ points' = Append(points, [mark |-> Len(trail), choices |-> choices])
        /\ canonical' = AddUsage(a[1], a[2])
        /\ trail' = Append(trail, Holder("tuple", a[2]))
        /\ UNCHANGED <<clash, nonback, checkpoint>>

\* push_abox_checkpoint: a base branching point nothing depends on.
PushCheckpoint ==
    /\ clash = {} /\ checkpoint = {} /\ nonback = -1 /\ Len(points) \in Levels
    /\ points' = Append(points, [mark |-> Len(trail), choices |-> 0])
    /\ nonback' = Len(points)
    /\ checkpoint' = {Len(points)}
    /\ UNCHANGED <<canonical, trail, clash>>

\* push_dummy_dependency_branching_point and the negations of a test, which
\* carry it.
PushDummy ==
    LET level == Len(points)
        a == AddBranchingPoint(canonical, {}, level)
    IN  /\ clash = {} /\ level \in Levels /\ Len(trail) < MaxTrail
        /\ nonback = (IF checkpoint = {} THEN -1 ELSE Max(checkpoint))
        /\ points' = Append(points, [mark |-> Len(trail), choices |-> 0])
        /\ nonback' = level
        /\ canonical' = AddUsage(a[1], a[2])
        /\ trail' = Append(trail, Holder("tuple", a[2]))
        /\ UNCHANGED <<clash, checkpoint>>

\* The state backtrack_to(level) leaves in the factory.
BacktrackTo(level) ==
    ClearClash(Release(canonical, SubSeq(trail, points[level + 1].mark + 1, Len(trail))))

\* A mutant: the oldest choice of the clash is undone.
OldestChoice(s) == MinimumBranchingPoint(s)

ChoiceToUndo(s) == MaximumBranchingPoint(s)

\* backtrack_on_clash: undo the newest choice the clash depends on, start its
\* next choice with the clash's set (without that branching point when it is
\* the last one), then prune.  The conclusion may be a tuple already there.
BacktrackOnClash(present) ==
    \E s \in clash :
      LET level == ChoiceToUndo(s)
          choices == points[level + 1].choices
          r == IF choices = 1 THEN RemoveBranchingPoint(BacktrackTo(level), s, level)
               ELSE <<BacktrackTo(level), s>>
          kept == SubSeq(trail, 1, points[level + 1].mark)
      IN  /\ level > nonback
          /\ choices > 0
          /\ clash' = {}
          /\ points' = [SubSeq(points, 1, level + 1) EXCEPT ![level + 1].choices = @ - 1]
          /\ canonical' =
               RemoveUnusedSets(IF present THEN r[1] ELSE AddUsage(r[1], r[2]))
          /\ trail' = IF present THEN kept ELSE Append(kept, Holder("tuple", r[2]))
          /\ UNCHANGED <<nonback, checkpoint>>

\* A clash at or below the non-backtrackable level ends the test.
TestOver == \E s \in clash : ChoiceToUndo(s) <= nonback

\* restore_abox_checkpoint, before the next test on the same tableau.
RestoreCheckpoint ==
    \E level \in checkpoint :
      /\ CurrentLevel >= level
      /\ ~\E s \in clash : /\ TestOver
                           /\ MinimumBranchingPoint(s) \in 0..level
      /\ canonical' = RemoveUnusedSets(BacktrackTo(level))
      /\ trail' = SubSeq(trail, 1, points[level + 1].mark)
      /\ points' = SubSeq(points, 1, level + 1)
      /\ nonback' = level
      /\ clash' = {}
      /\ UNCHANGED checkpoint

\* Tableau::clear, with DependencySetFactory::clear.
ClearTableau ==
    /\ canonical' = NoSets
    /\ trail' = <<>> /\ clash' = {} /\ points' = <<>>
    /\ nonback' = -1 /\ checkpoint' = {}

DepInit ==
    /\ canonical = NoSets
    /\ trail = <<>> /\ clash = {} /\ points = <<>>
    /\ nonback = -1 /\ checkpoint = {}

DepNext ==
    \/ \E kind \in {"tuple", "merge", "equality"}, p \in Premises, present \in BOOLEAN :
          Derive(kind, p, present)
    \/ \E p \in Premises, satisfied \in BOOLEAN : DeriveDisjunction(p, satisfied)
    \/ \E p \in Premises : SetClash(p)
    \/ \E i \in DOMAIN trail, choices \in 1..2 : ProcessChoice(i, choices)
    \/ PushCheckpoint
    \/ PushDummy
    \/ \E present \in BOOLEAN : BacktrackOnClash(present)
    \/ RestoreCheckpoint
    \/ ClearTableau

DepSpec == DepInit /\ [][DepNext]_depVars

-----------------------------------------------------------------------------
(* Properties.                                                             *)

DepTypeOK ==
    /\ DOMAIN canonical \subseteq SUBSET Levels /\ {} \in DOMAIN canonical
    /\ \A s \in DOMAIN canonical : canonical[s] \in Nat
    /\ \A i \in DOMAIN trail : trail[i].kind \in Kinds /\ trail[i].set \subseteq Levels
    /\ Cardinality(clash) <= 1 /\ Len(points) <= MaxLevel + 1

HoldersOf(s) ==
    UsagesBy(trail, s)
      + (IF s \in clash THEN 1 ELSE 0)
      + (IF s = {} THEN 1 ELSE 0)
Held == {trail[i].set : i \in DOMAIN trail} \cup clash

\* A set somebody holds is still interned, and counts at least its holders:
\* no pruning (branching.rs backtrack_on_clash, restore_abox_checkpoint) takes
\* away a set in use, so equal sets stay one allocation as ptr_eq assumes.
HeldSetsInterned ==
    \A s \in Held : s \in DOMAIN canonical /\ canonical[s] >= HoldersOf(s)

\* What depends on a choice is gone when the choice is undone: every
\* branching point in a held set is one of the present branching points, and a
\* holder older than a branching point does not depend on it.
NoStaleBranchingPoint ==
    /\ \A s \in Held : s \subseteq 0..CurrentLevel
    /\ \A i \in DOMAIN trail : \A l \in trail[i].set : i > points[l + 1].mark

=============================================================================
