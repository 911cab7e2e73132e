--------------------------- MODULE CheckpointProofs -------------------------
(***************************************************************************)
(* The invariant of the tests on the reused tableau, and that it is kept   *)
(* where a test begins: what a test finds in the tableau is sound and      *)
(* complete for what it is about to assert, whether it was left by a       *)
(* checkpoint, by a freshly loaded ABox or by nothing.                     *)
(*                                                                         *)
(* The calculus keeps its own invariant (Sound and Complete) while a test  *)
(* runs; what it is about - the models looked for, the literals assumed on *)
(* a dummy branching point, the literals the table must hold - changes     *)
(* with the phase.  Between two tests what survives is the part of the     *)
(* table below the checkpoint: it is sound and complete for the ABox and   *)
(* says nothing of the fresh node.                                         *)
(***************************************************************************)
EXTENDS TestTableau, TLAPS

\* Every leaf that names no prover is given to these, in this order.
USE SMTT(90), ZenonT(60)

NegativesOf(t) == {Neg(t.negatives[i]) : i \in DOMAIN t.negatives}

Loads == {"abox", "reload", "redo"}

ABox == {ontology.facts[i] : i \in DOMAIN ontology.facts}

\* The literals asserted with the empty dependency set: the interpretations the run
\* looks for a model among are the models of the ontology and of these.
Given(t) ==
    IF phase \in Loads THEN {}
    ELSE IF phase = "positive" \/ t.dummy THEN {Pos(t.positive)}
    ELSE TestFacts(t)

Sought(t) == ModelsOf(ontology, Given(t))

Supposed(t) == IF phase = "running" THEN NegativesOf(t) ELSE {}

\* The literals a model must satisfy beside the clauses.
Required(t) ==
    (IF HasNominals THEN ABox ELSE {})
        \cup (IF phase \in Loads THEN {}
              ELSE IF phase = "positive" THEN {Pos(t.positive)} ELSE TestFacts(t))

Running ==
    \A t \in test :
        Sound(Sought(t), Supposed(t), nonbacktrackable) /\ Complete(Required(t), nonbacktrackable)

\* Where the driver and the calculus can stand together.
Driver ==
    /\ phase \in {"idle", "abox", "reload", "redo", "positive", "running"}
    /\ pc \in Control \cup {"test"}
    /\ phase = "idle" <=> test = {}
    /\ test # {} => \E t \in Tests : test = {t}
    /\ aboxChoiceClash \in BOOLEAN /\ redone \in BOOLEAN
    /\ phase \in Loads => HasNominals /\ checkpoint = 0 /\ nonbacktrackable = 0
    /\ phase = "abox" => pc # "test" /\ ~redone
    /\ phase \in {"reload", "redo"} => pc = "load"
    /\ phase = "positive" => pc = "test" /\ Len(pending) <= 1
    /\ phase = "running" => pc # "load"
    /\ phase = "idle" => todo = {} /\ pc = "done"
    /\ redone => checkpoint = 0
    /\ aboxChoiceClash => checkpoint # 0
    /\ checkpoint # 0 => HasNominals

\* No branching point above the checkpoint is backtracked to but those of the test.
Levels ==
    /\ checkpoint \in 0 .. nonbacktrackable
    /\ nonbacktrackable \in 0 .. Level
    /\ \A k \in checkpoint + 1 .. nonbacktrackable : branchingPoints[k].choices = <<>>
    /\ pc = "test" => Level = nonbacktrackable
    /\ phase = "positive" => nonbacktrackable = checkpoint

\* The saturated ABox below the checkpoint b: what it holds follows from the
\* ontology, it is complete, and it says nothing of the fresh node.
Saturated(o, stack, tuples, queue, b) ==
    /\ b.choices = <<>> /\ b.this = b.new /\ b.unprocessed = b.disjunctions + 1
    /\ \A i \in 1 .. b.disjunctions : Len(queue[i].disjuncts) > 1
    /\ \A M \in ModelsOf(o, {}) :
          /\ \A i \in 1 .. b.new :
                AllStand({}, stack, M, tuples[i].deps) => Holds(M, tuples[i].lit)
          /\ \A i \in 1 .. b.disjunctions :
                AllStand({}, stack, M, queue[i].deps) => SomeHolds(M, queue[i].disjuncts)
    /\ {o.facts[i] : i \in DOMAIN o.facts} \subseteq Prefix(tuples, b.new)
    /\ Consistent(Prefix(tuples, b.new))
    /\ \A c \in o.clauses : Matched(Prefix(tuples, b.new), c)
          => Handled(Prefix(tuples, b.new), queue, b.disjunctions, c)
    /\ \A g \in 1 .. b.disjunctions : Chosen(Prefix(tuples, b.new), queue[g].disjuncts)
    /\ \A i \in 1 .. b.new : tuples[i].lit.atom \notin FreshAtoms

Kept ==
    checkpoint # 0 =>
        LET b == branchingPoints[checkpoint]
        IN  /\ Saturated(ontology, branchingPoints, rows, disjunctions, b)
            /\ saturated = <<SubSeq(rows, 1, b.new), b.old, b.this,
                             SubSeq(disjunctions, 1, b.disjunctions), b.unprocessed>>

RowsNotFresh(r) == \A i \in DOMAIN r : r[i].lit.atom \notin FreshAtoms

LiteralsNotFresh(p) == \A i \in DOMAIN p : p[i].atom \notin FreshAtoms

AtomsNotFresh(atoms) == \A i \in DOMAIN atoms : atoms[i] \notin FreshAtoms

QueueNotFresh(q) == \A g \in DOMAIN q : AtomsNotFresh(q[g].disjuncts)

StackNotFresh(st) == \A k \in DOMAIN st : AtomsNotFresh(st[k].choices)

\* While the ABox is saturated nothing is said of the fresh node.
NotFresh ==
    phase = "abox" =>
        /\ RowsNotFresh(rows) /\ LiteralsNotFresh(pending)
        /\ QueueNotFresh(disjunctions) /\ StackNotFresh(branchingPoints)

Above(deps) == \A j \in deps : j > checkpoint

\* The facts of a test, and so a clash between them, do not rest on the ABox.
TestFactsAbove ==
    /\ pc = "test" =>
          /\ \A i \in DOMAIN rows : rows[i].lit.atom \in FreshAtoms => Above(rows[i].deps)
          /\ \A i \in DOMAIN pending : pending[i].atom \in FreshAtoms
          /\ pending # <<>> => Above(pendingDeps)
          /\ \A d \in clash : Above(d)
    /\ phase = "running" /\ pc = "done" /\ ~aboxChoiceClash => \A d \in clash : Above(d)

\* What holds whether or not a test is running.
Standing ==
    /\ Formed({}, nonbacktrackable) /\ StackRecordsPrefix
    /\ Driver /\ Levels /\ Kept /\ NotFresh /\ TestFactsAbove /\ TestsStartAlike

TestInv == Standing /\ Running

-----------------------------------------------------------------------------
(* The start of a test: nothing has been branched on above the level the   *)
(* test can backtrack to.                                                  *)

LEMMA StartSound ==
    ASSUME NEW Ms, NEW N, NEW nb \in Nat,
           Formed(Ms, nb)', StackRecordsPrefix', Level' = nb,
           todo' = {}, pc' \in {"load", "test"}, pc' = "load" => branchingPoints' = <<>>,
           \A i \in DOMAIN disjunctions' : Len(disjunctions'[i].disjuncts) > 1,
           \A deps \in LiveDeps' : deps \subseteq 1 .. nb,
           Justified(Ms, N)', PendingJustified(Ms, N)'
    PROVE  Sound(Ms, N, nb)'
<1>1. Branching(nb)'
  BY DEF Branching
<1>2. AllGrounded(Ms, N, nb)'
  BY DEF AllGrounded, Grounded, Level
<1>3. TodoMatched' /\ Phases(nb)'
  BY DEF TodoMatched, Phases
<1> QED
  BY <1>1, <1>2, <1>3 DEF Sound

LEMMA StartComplete ==
    ASSUME NEW Rs, NEW nb \in Nat, Level' = nb, pc' \in {"load", "test"}, Present(Rs)'
    PROVE  Complete(Rs, nb)'
<1>1. AllRecorded(Rs, nb)'
  BY DEF AllRecorded
<1>2. Stages'
  BY DEF Stages
<1> QED
  BY <1>1, <1>2 DEF Complete

\* The more literals, the fewer models; and every model obeys the clauses.
LEMMA FewerModels ==
    ASSUME NEW o, NEW K, NEW L, L \subseteq K
    PROVE  ModelsOf(o, K) \subseteq ModelsOf(o, L) /\ Obey(ModelsOf(o, K), o)
  BY DEF ModelsOf, Obey

\* A test's literals, and the facts of an ABox.
LEMMA TestLiterals ==
    ASSUME NEW t \in Tests
    PROVE  /\ Pos(t.positive) \in Literal /\ t.positive \in FreshAtoms
           /\ TestFacts(t) = {Pos(t.positive)} \cup NegativesOf(t)
           /\ t.negatives \in Seq(Atoms) /\ t.dummy \in BOOLEAN
           /\ [i \in DOMAIN t.negatives |-> Neg(t.negatives[i])] \in Seq(Literal)
           /\ \A i \in DOMAIN t.negatives : t.negatives[i] \in FreshAtoms
<1>1. t \in Test
  BY TestsAssumption
<1>2. t.positive \in Atoms /\ t.negatives \in Seq(Atoms) /\ t.dummy \in BOOLEAN
  BY <1>1 DEF Test
<1>3. t.positive \in FreshAtoms /\ \A i \in DOMAIN t.negatives : t.negatives[i] \in FreshAtoms
  BY TestsAssumption
<1>4. [i \in DOMAIN t.negatives |-> Neg(t.negatives[i])] \in Seq(Literal)
  <2>1. PICK n \in Nat : DOMAIN t.negatives = 1 .. n
    BY <1>2
  <2>2. \A i \in 1 .. n : Neg(t.negatives[i]) \in Literal
    BY <1>2, <2>1 DEF Neg, Literal
  <2> QED
    BY <2>1, <2>2
<1> QED
  BY <1>2, <1>3, <1>4 DEF Pos, Literal, TestFacts, NegativesOf

\* A test on an empty table: what was asserted last is all there is.
LEMMA ClearStarts ==
    ASSUME NEW Ms, NEW Rs, ontology \in Ontologies, ontology' = ontology, Clear,
           pending' \in Seq(Literal), pendingDeps' = {}, pc' \in {"load", "test"},
           Obey(Ms, ontology), \A M \in Ms : \A i \in DOMAIN pending' : Holds(M, pending'[i]),
           \A l \in Rs : \E i \in DOMAIN pending' : pending'[i] = l
    PROVE  /\ Formed({}, 0)' /\ StackRecordsPrefix'
           /\ Sound(Ms, {}, 0)' /\ Complete(Rs, 0)'
<1>1. Formed(Ms, 0)' /\ Formed({}, 0)'
  BY DEF Formed, Clear, Obey
<1>2. Level' = 0 /\ DOMAIN rows' = {} /\ DOMAIN disjunctions' = {} /\ Facts' = {}
  BY DEF Level, Clear, Facts
<1>3. StackRecordsPrefix'
  BY <1>2 DEF StackRecordsPrefix
<1>4. \A deps \in LiveDeps' : deps = {}
  BY <1>2 DEF LiveDeps, Clear
<1>5. Justified(Ms, {})' /\ PendingJustified(Ms, {})'
  BY <1>2 DEF Justified, PendingJustified, Clear
<1>6. Sound(Ms, {}, 0)'
  BY <1>1, <1>2, <1>3, <1>4, <1>5, StartSound DEF Clear
<1>7. Consistent(Facts)' /\ FactsKept(Rs)'
  BY <1>2 DEF Consistent, FactsKept
<1>8. DisjunctionsKept'
  BY DEF DisjunctionsKept, Clear
<1>9. MatchesKept'
  <2>1. \A c \in ontology.clauses : c.body # {}
    BY OntologiesAssumption
  <2>2. extensionThis' = 0
    BY DEF Clear
  <2>3. Prefix(rows', 0) = {}
    BY DEF Prefix
  <2> QED
    BY <2>1, <2>2, <2>3 DEF MatchesKept, Matched
<1>10. Present(Rs)'
  BY <1>7, <1>8, <1>9 DEF Present
<1> QED
  BY <1>1, <1>2, <1>3, <1>6, <1>10, StartComplete

-----------------------------------------------------------------------------
(* The checkpoint.                                                         *)

\* What the c-th branching point recorded is still there after a step.
UnchangedBelow(c) ==
    /\ c <= Level'
    /\ \A k \in 1 .. c : branchingPoints'[k] = branchingPoints[k]
    /\ branchingPoints[c].new <= Len(rows')
    /\ \A i \in 1 .. branchingPoints[c].new : rows'[i] = rows[i]
    /\ branchingPoints[c].disjunctions <= Len(disjunctions')
    /\ \A i \in 1 .. branchingPoints[c].disjunctions : disjunctions'[i] = disjunctions[i]

LEMMA PrefixesAgree ==
    ASSUME NEW S, NEW s, NEW t \in Seq(S), NEW n \in Nat, n <= Len(t), \A i \in 1 .. n : s[i] = t[i]
    PROVE  SubSeq(s, 1, n) = SubSeq(t, 1, n) /\ Prefix(s, n) = Prefix(t, n)
  BY DEF Prefix

\* The branching points and the numbers in them.
LEMMA PointTypes ==
    ASSUME Formed({}, nonbacktrackable), StackRecordsPrefix, NEW c \in 1 .. Level
    PROVE  /\ Level \in Nat /\ c \in Nat
           /\ branchingPoints[c] \in BranchingPoint
           /\ branchingPoints[c].new \in Nat /\ branchingPoints[c].new <= Len(rows)
           /\ branchingPoints[c].disjunctions \in Nat
           /\ branchingPoints[c].disjunctions <= Len(disjunctions)
           /\ branchingPoints[c].unprocessed \in 1 .. branchingPoints[c].disjunctions + 1
           /\ branchingPoints[c].this \in 0 .. branchingPoints[c].new
           /\ branchingPoints[c].old \in 0 .. branchingPoints[c].this
           /\ \A i \in 1 .. branchingPoints[c].new : rows[i].deps \subseteq 1 .. c - 1
           /\ \A i \in 1 .. branchingPoints[c].disjunctions : disjunctions[i].deps \subseteq 1 .. c - 1
<1>1. branchingPoints[c] \in BranchingPoint /\ Level \in Nat
  BY DEF Formed, Level
<1>2. RecordsPrefix(c)
  BY DEF StackRecordsPrefix
<1> QED
  BY <1>1, <1>2 DEF RecordsPrefix, BranchingPoint

\* What a checkpoint recorded is saturated as long as it is there.
LEMMA SaturatedAgree ==
    ASSUME NEW o, NEW st, NEW r, NEW q, NEW st2, NEW r2, NEW q2, NEW b, NEW c,
           Saturated(o, st, r, q, b),
           \A i \in 1 .. b.new : r2[i] = r[i] /\ r[i].deps \subseteq 1 .. c - 1,
           \A i \in 1 .. b.disjunctions : q2[i] = q[i] /\ q[i].deps \subseteq 1 .. c - 1,
           \A k \in 1 .. c - 1 : st2[k] = st[k]
    PROVE  Saturated(o, st2, r2, q2, b)
<1>1. PICK F : F = Prefix(r, b.new)
  BY Zenon
<1>2. Prefix(r2, b.new) = F
  BY <1>1, Zenon DEF Prefix
<1>3. \A M : \A deps : deps \subseteq 1 .. c - 1
          => (AllStand({}, st2, M, deps) <=> AllStand({}, st, M, deps))
  BY ZenonT(40) DEF AllStand, Stands, ChoiceHolds
<1>4. ASSUME NEW M \in ModelsOf(o, {})
      PROVE  /\ \A i \in 1 .. b.new : AllStand({}, st2, M, r2[i].deps) => Holds(M, r2[i].lit)
             /\ \A i \in 1 .. b.disjunctions :
                   AllStand({}, st2, M, q2[i].deps) => SomeHolds(M, q2[i].disjuncts)
  BY <1>3, Zenon DEF Saturated
<1>5. \A cl \in o.clauses : Matched(F, cl) => Handled(F, q2, b.disjunctions, cl)
  BY <1>1, Zenon DEF Saturated, Handled
<1>6. /\ \A i \in 1 .. b.disjunctions : Len(q2[i].disjuncts) > 1 /\ Chosen(F, q2[i].disjuncts)
      /\ \A i \in 1 .. b.new : r2[i].lit.atom \notin FreshAtoms
  BY <1>1, Zenon DEF Saturated
<1> QED
  BY <1>1, <1>2, <1>4, <1>5, <1>6, Zenon DEF Saturated

\* The checkpoint is kept by every step that leaves what it recorded.
LEMMA KeptAgree ==
    ASSUME Formed({}, nonbacktrackable), StackRecordsPrefix, Formed({}, nonbacktrackable)',
           checkpoint # 0, checkpoint \in 1 .. Level, Kept,
           UnchangedBelow(checkpoint), UNCHANGED <<ontology, checkpoint, saturated>>
    PROVE  Kept'
<1>1. PICK o, c, b, n, m, r, q, st, r2, q2, st2 :
         /\ o = ontology /\ c = checkpoint /\ st = branchingPoints /\ r = rows /\ q = disjunctions
         /\ st2 = branchingPoints' /\ r2 = rows' /\ q2 = disjunctions'
         /\ b = st[c] /\ n = b.new /\ m = b.disjunctions
  BY Zenon
<1>2. /\ r \in Seq(Row) /\ q \in Seq(Disjunction) /\ r2 \in Seq(Row) /\ q2 \in Seq(Disjunction)
  BY <1>1, Zenon DEF Formed
<1>3. /\ c \in Nat /\ c # 0 /\ n \in Nat /\ n <= Len(r) /\ m \in Nat /\ m <= Len(q)
      /\ \A i \in 1 .. n : r[i].deps \subseteq 1 .. c - 1
      /\ \A i \in 1 .. m : q[i].deps \subseteq 1 .. c - 1
  BY Zenon, <1>1, PointTypes
<1>4. /\ \A i \in 1 .. n : r2[i] = r[i]
      /\ \A i \in 1 .. m : q2[i] = q[i]
      /\ \A k \in 1 .. c : st2[k] = st[k]
  BY <1>1, <1>3 DEF UnchangedBelow
<1>5. st2[c] = b /\ \A k \in 1 .. c - 1 : st2[k] = st[k]
  BY <1>1, <1>3, <1>4
<1>6. Saturated(o, st, r, q, b) /\ saturated = <<SubSeq(r, 1, n), b.old, b.this, SubSeq(q, 1, m), b.unprocessed>>
  BY <1>1, Zenon DEF Kept
<1>7. Saturated(o, st2, r2, q2, b)
  <2>1. /\ \A i \in 1 .. b.new : r2[i] = r[i] /\ r[i].deps \subseteq 1 .. c - 1
        /\ \A i \in 1 .. b.disjunctions : q2[i] = q[i] /\ q[i].deps \subseteq 1 .. c - 1
    <3>1. b.new = n /\ b.disjunctions = m
      BY <1>1, Zenon
    <3> QED
      BY <1>3, <1>4, <3>1, Zenon
  <2> QED
    BY <1>5, <1>6, <2>1, SaturatedAgree
<1>8. SubSeq(r2, 1, n) = SubSeq(r, 1, n) /\ SubSeq(q2, 1, m) = SubSeq(q, 1, m)
  BY <1>2, <1>3, <1>4, PrefixesAgree
<1>9. branchingPoints'[checkpoint'] = b /\ saturated' = saturated /\ ontology' = o
  BY <1>1, <1>5, Zenon
<1>10. saturated = <<SubSeq(r2, 1, n), b.old, b.this, SubSeq(q2, 1, m), b.unprocessed>>
  BY <1>6, <1>8, Zenon
<1> QED
  BY <1>1, <1>7, <1>9, <1>10 DEF Kept

\* A test that starts as its phase says is running.
LEMMA PositiveRuns ==
    ASSUME NEW t, NEW Ms, NEW Rs, NEW nb, test' = {t}, phase' = "positive", ontology' = ontology,
           nonbacktrackable' = nb, Ms = ModelsOf(ontology, {Pos(t.positive)}),
           Rs = (IF HasNominals THEN ABox ELSE {}) \cup {Pos(t.positive)},
           Sound(Ms, {}, nb)', Complete(Rs, nb)'
    PROVE  Running'
<1> SUFFICES ASSUME NEW u \in test'
             PROVE  /\ Sound(Sought(u), Supposed(u), nonbacktrackable)'
                    /\ Complete(Required(u), nonbacktrackable)'
  BY DEF Running
<1>1. Sought(u)' = Ms
  BY DEF Sought, Given, Loads
<1>2. Supposed(u)' = {} /\ Required(u)' = Rs
  BY DEF Supposed, Required, Loads, HasNominals, ABox
<1> QED
  BY <1>1, <1>2

LEMMA LoadRuns ==
    ASSUME NEW Ms, NEW Rs, phase' \in Loads, ontology' = ontology, HasNominals,
           nonbacktrackable' = 0, Ms = ModelsOf(ontology, {}), Rs = ABox,
           Sound(Ms, {}, 0)', Complete(Rs, 0)'
    PROVE  Running'
<1> SUFFICES ASSUME NEW u \in test'
             PROVE  /\ Sound(Sought(u), Supposed(u), nonbacktrackable)'
                    /\ Complete(Required(u), nonbacktrackable)'
  BY DEF Running
<1>1. Sought(u)' = Ms
  BY DEF Sought, Given
<1>2. Supposed(u)' = {} /\ Required(u)' = Rs
  BY DEF Supposed, Required, Loads, HasNominals, ABox
<1> QED
  BY <1>1, <1>2

\* The facts of an ABox that takes part in the tests hold in every model.
LEMMA ABoxLiterals ==
    ASSUME ontology \in Ontologies
    PROVE  /\ ontology.facts \in Seq(Literal) /\ ABox \subseteq Literal
           /\ \A i \in DOMAIN ontology.facts : ontology.facts[i].atom \notin FreshAtoms
           /\ \A K : HasNominals => \A M \in ModelsOf(ontology, K) : \A l \in ABox : Holds(M, l)
<1>1. ontology \in Ontology
  BY OntologiesAssumption
<1>2. ontology.facts \in Seq(Literal)
  BY <1>1 DEF Ontology
<1>3. \A i \in DOMAIN ontology.facts : ontology.facts[i].atom \notin FreshAtoms
  BY TestsAssumption
<1>4. \A K : HasNominals => \A M \in ModelsOf(ontology, K) : \A l \in ABox : Holds(M, l)
  BY DEF ModelsOf, HasNominals, ABox
<1> QED
  BY <1>2, <1>3, <1>4 DEF ABox

-----------------------------------------------------------------------------
(* Checking the tableau out.                                               *)

\* The beginning of a sequence.
LEMMA Cut ==
    ASSUME NEW S, NEW s \in Seq(S), NEW n \in 0 .. Len(s)
    PROVE  /\ SubSeq(s, 1, n) \in Seq(S) /\ Len(SubSeq(s, 1, n)) = n
           /\ DOMAIN SubSeq(s, 1, n) = 1 .. n /\ 1 .. n \subseteq DOMAIN s
           /\ \A i \in 1 .. n : SubSeq(s, 1, n)[i] = s[i]
  OBVIOUS

LEMMA Shorter ==
    ASSUME NEW m \in Nat, NEW n \in Nat, m <= n
    PROVE  \A i \in 1 .. m : i \in 1 .. n
  OBVIOUS

\* What restore_abox_checkpoint leaves: the stack, the table and the queue cut
\* off where the checkpoint recorded them.
LEMMA Restored ==
    ASSUME Formed({}, nonbacktrackable), StackRecordsPrefix, checkpoint \in 1 .. Level,
           RestoreABoxCheckpoint, ontology' = ontology, todo = {},
           pending' \in Seq(Literal), pendingDeps' \in SUBSET Nat
    PROVE  /\ Level' = checkpoint /\ UnchangedBelow(checkpoint)
           /\ Len(rows') = branchingPoints[checkpoint].new
           /\ Len(disjunctions') = branchingPoints[checkpoint].disjunctions
           /\ Formed({}, nonbacktrackable)' /\ StackRecordsPrefix'
<1>1. PICK c, r, q, st, b, n, m :
         /\ c = checkpoint /\ r = rows /\ q = disjunctions /\ st = branchingPoints
         /\ b = st[c] /\ n = b.new /\ m = b.disjunctions
  BY Zenon
<1>2. r \in Seq(Row) /\ q \in Seq(Disjunction) /\ st \in Seq(BranchingPoint) /\ Level = Len(st)
  BY Zenon, <1>1 DEF Formed, Level
<1>3. /\ c \in 1 .. Len(st) /\ c \in Nat /\ n \in 0 .. Len(r) /\ m \in 0 .. Len(q)
      /\ n \in Nat /\ m \in Nat
      /\ b.unprocessed \in 1 .. m + 1 /\ b.this \in 0 .. n /\ b.old \in 0 .. b.this
  BY <1>1, <1>2, PointTypes
<1>4. /\ rows' = SubSeq(r, 1, n) /\ disjunctions' = SubSeq(q, 1, m)
      /\ branchingPoints' = SubSeq(st, 1, c)
      /\ extensionThis' = b.this /\ extensionOld' = b.old /\ firstUnprocessed' = b.unprocessed
      /\ nonbacktrackable' = c /\ clash' = {} /\ checkpoint' = c /\ todo' = {}
  BY <1>1 DEF RestoreABoxCheckpoint, BacktrackTo
<1>5. /\ rows' \in Seq(Row) /\ Len(rows') = n /\ \A i \in 1 .. n : rows'[i] = r[i]
      /\ disjunctions' \in Seq(Disjunction) /\ Len(disjunctions') = m
      /\ \A i \in 1 .. m : disjunctions'[i] = q[i]
      /\ branchingPoints' \in Seq(BranchingPoint) /\ Len(branchingPoints') = c
      /\ \A k \in 1 .. c : branchingPoints'[k] = st[k]
  <2>1. c \in 0 .. Len(st)
    BY <1>2, <1>3
  <2> QED
    BY <1>2, <1>3, <1>4, <2>1, Cut, ZenonT(40)
<1>6. Level' = c
  BY <1>5, Zenon DEF Level
<1>7. UnchangedBelow(c)
  <2>1. c <= c /\ n <= n /\ m <= m
    BY <1>3
  <2> QED
    BY <1>1, <1>5, <1>6, <2>1, Zenon DEF UnchangedBelow
<1>8. Formed({}, nonbacktrackable)'
  <2>1. /\ extensionThis' \in 0 .. Len(rows') /\ extensionOld' \in 0 .. extensionThis'
        /\ firstUnprocessed' \in 1 .. Len(disjunctions') + 1
        /\ nonbacktrackable' \in 0 .. Len(branchingPoints')
    <3>1. c \in 0 .. c
      BY <1>3
    <3> QED
      BY <1>3, <1>4, <1>5, <3>1, Zenon
  <2>2. ontology' \in Ontologies /\ clash' \in SUBSET SUBSET Nat /\ todo' = {}
    BY <1>4 DEF Formed
  <2> QED
    BY <1>5, <2>1, <2>2, Zenon DEF Formed, Obey
<1>9. ASSUME NEW k \in 1 .. c
      PROVE  RecordsPrefix(k)'
  <2>0. k \in 1 .. Len(st) /\ k \in Nat
    BY <1>2, <1>3
  <2>1. RecordsPrefix(k) /\ k \in 1 .. Len(st) /\ k \in Nat
    BY <1>2, <2>0, Zenon DEF StackRecordsPrefix
  <2>2. PICK x : x = st[k]
    BY Zenon
  <2>3. /\ x.this \in 0 .. x.new /\ x.old \in 0 .. x.this
        /\ x.unprocessed \in 1 .. x.disjunctions + 1
        /\ x.new \in Nat /\ x.disjunctions \in Nat
    BY <1>1, <1>2, <2>1, <2>2, PointTypes
  <2>4. /\ \A j \in k .. Len(st) : x.new <= st[j].new /\ x.disjunctions <= st[j].disjunctions
        /\ \A i \in 1 .. x.new : r[i].deps \subseteq 1 .. k - 1
        /\ \A i \in 1 .. x.disjunctions : q[i].deps \subseteq 1 .. k - 1
    BY <1>1, <1>2, <2>1, <2>2, Zenon DEF RecordsPrefix
  <2>5. x.new <= n /\ x.disjunctions <= m
    BY <1>1, <1>3, <2>1, <2>4
  <2>6. /\ \A j \in k .. c : j \in k .. Len(st) /\ j \in 1 .. c
        /\ \A i \in 1 .. x.new : i \in 1 .. n
        /\ \A i \in 1 .. x.disjunctions : i \in 1 .. m
    <3>1. \A j \in k .. c : j \in k .. Len(st) /\ j \in 1 .. c
      BY <1>3, <2>0
    <3> QED
      BY <1>3, <2>3, <2>5, <3>1, Shorter, Zenon
  <2>7. /\ \A j \in k .. c : x.new <= branchingPoints'[j].new /\ x.disjunctions <= branchingPoints'[j].disjunctions
        /\ \A i \in 1 .. x.new : rows'[i].deps \subseteq 1 .. k - 1
        /\ \A i \in 1 .. x.disjunctions : disjunctions'[i].deps \subseteq 1 .. k - 1
    BY <1>5, <2>4, <2>6, Zenon
  <2>8. branchingPoints'[k] = x
    BY <1>5, <2>2
  <2> QED
    BY <1>5, <1>6, <2>3, <2>5, <2>7, <2>8, Zenon DEF RecordsPrefix
<1>10. StackRecordsPrefix'
  BY <1>6, <1>9 DEF StackRecordsPrefix
<1> QED
  BY <1>1, <1>5, <1>6, <1>7, <1>8, <1>10

\* A test begun on a tableau that ends at the checkpoint finds the saturated ABox
\* and nothing else.
LEMMA CheckpointStarts ==
    ASSUME NEW t \in Tests, HasNominals, ontology' = ontology,
           Formed({}, nonbacktrackable)', StackRecordsPrefix', Kept',
           checkpoint' # 0, checkpoint' \in Nat, Level' = checkpoint', nonbacktrackable' = checkpoint',
           todo' = {}, clash' = {},
           Len(rows') = branchingPoints'[checkpoint'].new,
           Len(disjunctions') = branchingPoints'[checkpoint'].disjunctions,
           extensionOld' = branchingPoints'[checkpoint'].old,
           extensionThis' = branchingPoints'[checkpoint'].this,
           firstUnprocessed' = branchingPoints'[checkpoint'].unprocessed,
           AssertPositive(t), test' = {t}, phase' = "positive"
    PROVE  Running' /\ TestsStartAlike' /\ TestFactsAbove' /\ Levels'
<1>1. PICK c, r, q, st, o, b, n, m, F, Ms, Rs :
         /\ c = checkpoint' /\ r = rows' /\ q = disjunctions' /\ st = branchingPoints' /\ o = ontology'
         /\ b = st[c] /\ n = b.new /\ m = b.disjunctions /\ F = Prefix(r, n)
         /\ Ms = ModelsOf(ontology, {Pos(t.positive)}) /\ Rs = ABox \cup {Pos(t.positive)}
  BY Zenon
<1>2. /\ c \in Nat /\ c # 0 /\ c \in 1 .. Level' /\ Level' = c /\ nonbacktrackable' = c
  BY <1>1
<1>3. r \in Seq(Row) /\ q \in Seq(Disjunction) /\ o \in Ontologies /\ st \in Seq(BranchingPoint)
  BY <1>1, Zenon DEF Formed
<1>4. /\ Len(r) = n /\ Len(q) = m /\ extensionOld' = b.old /\ extensionThis' = b.this
      /\ firstUnprocessed' = b.unprocessed
  BY <1>1, Zenon
<1>5. DOMAIN r = 1 .. n /\ DOMAIN q = 1 .. m /\ n \in Nat /\ m \in Nat
  BY <1>3, <1>4
<1>6. Saturated(o, st, r, q, b)
  BY <1>1, Zenon DEF Kept
<1>7. Facts' = F
  BY <1>1, <1>5, Zenon DEF Facts, Prefix
<1>8. /\ pending' = <<Pos(t.positive)>> /\ pendingDeps' = {} /\ pc' = "test"
      /\ DOMAIN pending' = {1} /\ pending'[1] = Pos(t.positive)
  BY DEF AssertPositive
<1>9. /\ \A i \in 1 .. n : r[i].deps \subseteq 1 .. c
      /\ \A i \in 1 .. m : q[i].deps \subseteq 1 .. c
  <2>1. RecordsPrefix(c)'
    BY <1>2, Zenon DEF StackRecordsPrefix
  <2>2. /\ \A i \in 1 .. n : r[i].deps \subseteq 1 .. c - 1
        /\ \A i \in 1 .. m : q[i].deps \subseteq 1 .. c - 1
    BY <1>1, <2>1, Zenon DEF RecordsPrefix
  <2>3. 1 .. c - 1 \subseteq 1 .. c
    BY <1>2
  <2> QED
    BY <2>2, <2>3, Zenon
<1>10. \A deps \in LiveDeps' : deps \subseteq 1 .. c
  BY <1>1, <1>5, <1>8, <1>9 DEF LiveDeps
<1>11. Ms \subseteq ModelsOf(o, {}) /\ Obey(Ms, o)
  BY <1>1, FewerModels, Zenon
<1>12. /\ b.choices = <<>> /\ b.this = n /\ b.unprocessed = m + 1
       /\ \A i \in 1 .. m : Len(q[i].disjuncts) > 1
       /\ \A M \in ModelsOf(o, {}) :
             /\ \A i \in 1 .. n : AllStand({}, st, M, r[i].deps) => Holds(M, r[i].lit)
             /\ \A i \in 1 .. m : AllStand({}, st, M, q[i].deps) => SomeHolds(M, q[i].disjuncts)
       /\ {o.facts[i] : i \in DOMAIN o.facts} \subseteq F /\ Consistent(F)
       /\ \A cl \in o.clauses : Matched(F, cl) => Handled(F, q, m, cl)
       /\ \A g \in 1 .. m : Chosen(F, q[g].disjuncts)
       /\ \A i \in 1 .. n : r[i].lit.atom \notin FreshAtoms
  <2>1. n = b.new /\ m = b.disjunctions /\ F = Prefix(r, b.new)
    BY <1>1, Zenon
  <2> QED
    BY Zenon, <1>6, <2>1 DEF Saturated
<1>13. Formed(Ms, c)'
  BY <1>1, <1>2, <1>11, Zenon DEF Formed
<1>14. Justified(Ms, {})'
  BY <1>1, <1>5, <1>11, <1>12, Zenon DEF Justified
<1>15. PendingJustified(Ms, {})'
  BY <1>1, <1>8, Zenon DEF PendingJustified, ModelsOf
<1>16. Sound(Ms, {}, c)'
  <2>1. \A i \in DOMAIN disjunctions' : Len(disjunctions'[i].disjuncts) > 1
    BY <1>1, <1>5, <1>12, Zenon
  <2> QED
    BY <1>2, <1>8, <1>10, <1>13, <1>14, <1>15, <2>1, StartSound
<1>17. Consistent(Facts)' /\ FactsKept(Rs)'
  BY Zenon, <1>1, <1>7, <1>8, <1>12 DEF Consistent, FactsKept, ABox
<1>18. MatchesKept'
  BY <1>1, <1>4, <1>7, <1>12, Zenon DEF MatchesKept
<1>19. DisjunctionsKept'
  <2>1. 1 .. firstUnprocessed' - 1 = 1 .. m
    BY <1>4, <1>5, <1>12
  <2> QED
    BY <1>1, <1>7, <1>12, <2>1, ZenonT(40) DEF DisjunctionsKept
<1>20. Complete(Rs, c)'
  <2>1. Present(Rs)'
    BY <1>17, <1>18, <1>19, Zenon DEF Present
  <2> QED
    BY <1>2, <1>8, <2>1, StartComplete
<1>21. Running'
  BY <1>1, <1>16, <1>20, PositiveRuns
<1>22. TestsStartAlike'
  <2>1. SubSeq(r, 1, n) = r /\ SubSeq(q, 1, m) = q
    BY <1>3, <1>4
  <2>2. saturated' = <<SubSeq(r, 1, n), b.old, b.this, SubSeq(q, 1, m), b.unprocessed>>
    BY <1>1, Zenon DEF Kept
  <2> QED
    BY <1>1, <1>4, <2>1, <2>2, Zenon DEF TestsStartAlike, tableau
<1>23. TestFactsAbove'
  <2>1. \A i \in DOMAIN rows' : rows'[i].lit.atom \notin FreshAtoms
    BY <1>1, <1>5, <1>12, Zenon
  <2>2. Pos(t.positive).atom \in FreshAtoms
    BY TestLiterals, Zenon DEF Pos
  <2> QED
    BY <1>8, <2>1, <2>2 DEF TestFactsAbove, Above
<1>24. Levels'
  <2>1. checkpoint' = c /\ nonbacktrackable' = c /\ Level' = c
    BY <1>1, <1>2, Zenon
  <2>2. c \in 0 .. c /\ \A k \in c + 1 .. c : FALSE
    BY <1>2
  <2> QED
    BY <2>1, <2>2, Zenon DEF Levels
<1> QED
  BY <1>21, <1>22, <1>23, <1>24, Zenon

\* A test about to assert its concept, and an ABox about to be loaded.
LEMMA PositiveDriver ==
    ASSUME NEW t \in Tests, test' = {t}, phase' = "positive", pc' = "test", Len(pending') <= 1,
           aboxChoiceClash' = FALSE, redone' \in BOOLEAN, redone' => checkpoint' = 0,
           checkpoint' # 0 => HasNominals'
    PROVE  Driver'
  BY Zenon DEF Driver, Loads

LEMMA LoadDriver ==
    ASSUME NEW t \in Tests, test' = {t}, phase' \in Loads, pc' = "load", HasNominals',
           checkpoint' = 0, nonbacktrackable' = 0, aboxChoiceClash' = FALSE, redone' \in BOOLEAN,
           phase' = "abox" => ~redone'
    PROVE  Driver'
  BY Zenon DEF Driver, Loads, Control

\* A test begun by going back to the checkpoint.
LEMMA RestoreKeeps ==
    ASSUME NEW t \in Tests, TestInv, phase = "idle", HasNominals, RestoreABoxCheckpoint,
           AssertPositive(t), test' = {t}, redone' = FALSE, phase' = "positive", ontology' = ontology
    PROVE  TestInv'
<1>1. /\ Formed({}, nonbacktrackable) /\ StackRecordsPrefix /\ Driver /\ Levels /\ Kept
  BY DEF TestInv, Standing
<1>2. /\ checkpoint # 0 /\ checkpoint \in 1 .. Level /\ checkpoint \in Nat /\ todo = {}
      /\ aboxChoiceClash = FALSE
  <2>1. Level \in Nat
    BY <1>1 DEF Formed, Level
  <2> QED
    BY <1>1, <2>1 DEF Levels, Driver, RestoreABoxCheckpoint, CanRestore
<1>3. pending' = <<Pos(t.positive)>> /\ pendingDeps' = {} /\ pc' = "test" /\ Pos(t.positive) \in Literal
  BY TestLiterals, Zenon DEF AssertPositive
<1>4. /\ Level' = checkpoint /\ UnchangedBelow(checkpoint)
      /\ Len(rows') = branchingPoints[checkpoint].new
      /\ Len(disjunctions') = branchingPoints[checkpoint].disjunctions
      /\ Formed({}, nonbacktrackable)' /\ StackRecordsPrefix'
  BY <1>1, <1>2, <1>3, Restored
<1>5. /\ checkpoint' = checkpoint /\ saturated' = saturated /\ todo' = todo /\ nonbacktrackable' = checkpoint
      /\ aboxChoiceClash' = aboxChoiceClash /\ clash' = {}
      /\ extensionOld' = branchingPoints[checkpoint].old
      /\ extensionThis' = branchingPoints[checkpoint].this
      /\ firstUnprocessed' = branchingPoints[checkpoint].unprocessed
  BY DEF RestoreABoxCheckpoint, BacktrackTo
<1>6. Kept'
  BY Zenon, <1>1, <1>2, <1>4, <1>5, KeptAgree
<1>7. branchingPoints'[checkpoint'] = branchingPoints[checkpoint]
  BY <1>2, <1>4, <1>5 DEF UnchangedBelow
<1>8. Running' /\ TestsStartAlike' /\ TestFactsAbove' /\ Levels'
  <2>1. /\ Level' = checkpoint' /\ nonbacktrackable' = checkpoint' /\ checkpoint' # 0 /\ checkpoint' \in Nat
        /\ todo' = {} /\ clash' = {}
    BY Zenon, <1>2, <1>4, <1>5
  <2>2. /\ Len(rows') = branchingPoints'[checkpoint'].new
        /\ Len(disjunctions') = branchingPoints'[checkpoint'].disjunctions
        /\ extensionOld' = branchingPoints'[checkpoint'].old
        /\ extensionThis' = branchingPoints'[checkpoint'].this
        /\ firstUnprocessed' = branchingPoints'[checkpoint'].unprocessed
    BY <1>4, <1>5, <1>7
  <2> QED
    BY Zenon, <1>4, <1>6, <2>1, <2>2, CheckpointStarts
<1>9. Driver'
  <2>1. Len(pending') <= 1
    BY <1>3
  <2> QED
    BY <1>2, <1>3, <1>5, <2>1, PositiveDriver, Zenon DEF HasNominals
<1>10. NotFresh'
  BY DEF NotFresh
<1> QED
  BY <1>4, <1>6, <1>8, <1>9, <1>10 DEF TestInv, Standing

LEMMA ClearLevels ==
    ASSUME branchingPoints' = <<>>, nonbacktrackable' = 0, checkpoint' = 0
    PROVE  Levels'
  BY DEF Levels, Level

\* An ABox about to be loaded into an empty tableau.
LEMMA LoadKeeps ==
    ASSUME TestInv, HasNominals, Clear, LoadABox, phase' \in Loads, ontology' = ontology,
           test' # {}, \E t \in Tests : test' = {t}, redone' \in BOOLEAN, phase' = "abox" => ~redone'
    PROVE  TestInv'
<1>1. ontology \in Ontologies
  BY DEF TestInv, Standing, Formed
<1>2. /\ pending' = ontology.facts /\ pendingDeps' = {} /\ pc' = "load" /\ pending' \in Seq(Literal)
      /\ \A i \in DOMAIN pending' : pending'[i].atom \notin FreshAtoms
  BY <1>1, ABoxLiterals DEF LoadABox
<1>3. /\ rows' = <<>> /\ disjunctions' = <<>> /\ branchingPoints' = <<>> /\ nonbacktrackable' = 0
      /\ clash' = {} /\ todo' = {} /\ checkpoint' = 0 /\ aboxChoiceClash' = FALSE
  BY DEF Clear
<1>4. PICK Ms, Rs : Ms = ModelsOf(ontology, {}) /\ Rs = ABox
  BY Zenon
<1>5. /\ Obey(Ms, ontology) /\ \A M \in Ms : \A i \in DOMAIN pending' : Holds(M, pending'[i])
      /\ \A l \in Rs : \E i \in DOMAIN pending' : pending'[i] = l
  BY <1>1, <1>2, <1>4, FewerModels, ABoxLiterals DEF ABox
<1>6. Formed({}, 0)' /\ StackRecordsPrefix' /\ Sound(Ms, {}, 0)' /\ Complete(Rs, 0)'
  BY Zenon, <1>1, <1>2, <1>5, ClearStarts
<1>7. Running'
  BY <1>3, <1>4, <1>6, LoadRuns
<1>8. Driver'
  BY <1>2, <1>3, LoadDriver, Zenon DEF HasNominals
<1>9. Levels'
  BY <1>2, <1>3, ClearLevels DEF Loads
<1>10. Kept' /\ TestFactsAbove' /\ TestsStartAlike'
  BY <1>2, <1>3, Zenon DEF Kept, TestFactsAbove, TestsStartAlike, Loads
<1>11. NotFresh'
  <2>1. DOMAIN rows' = {} /\ DOMAIN disjunctions' = {} /\ DOMAIN branchingPoints' = {}
    BY <1>3
  <2> QED
    BY <1>2, <2>1, Zenon DEF NotFresh, RowsNotFresh, LiteralsNotFresh, QueueNotFresh, StackNotFresh
<1> QED
  BY <1>3, <1>6, <1>7, <1>8, <1>9, <1>10, <1>11, Zenon DEF TestInv, Standing

\* A test that the ABox takes no part in.
LEMMA ClearKeeps ==
    ASSUME NEW t \in Tests, TestInv, ~HasNominals, Clear, AssertPositive(t), phase' = "positive",
           ontology' = ontology, test' = {t}, redone' = FALSE
    PROVE  TestInv'
<1>1. ontology \in Ontologies
  BY DEF TestInv, Standing, Formed
<1>2. /\ pending' = <<Pos(t.positive)>> /\ pendingDeps' = {} /\ pc' = "test" /\ pending' \in Seq(Literal)
      /\ DOMAIN pending' = {1} /\ pending'[1] = Pos(t.positive) /\ Len(pending') = 1
      /\ pending'[1].atom \in FreshAtoms
  <2>0. Pos(t.positive) \in Literal /\ Pos(t.positive).atom \in FreshAtoms
    BY TestLiterals, Zenon DEF Pos
  <2>1. PICK l : l = Pos(t.positive) /\ l \in Literal /\ l.atom \in FreshAtoms
    BY <2>0, Zenon
  <2>2. pending' = <<l>> /\ pendingDeps' = {} /\ pc' = "test"
    BY <2>1, Zenon DEF AssertPositive
  <2> QED
    BY <2>1, <2>2
<1>3. /\ rows' = <<>> /\ disjunctions' = <<>> /\ branchingPoints' = <<>> /\ nonbacktrackable' = 0
      /\ clash' = {} /\ todo' = {} /\ checkpoint' = 0 /\ aboxChoiceClash' = FALSE
  BY DEF Clear
<1>4. PICK Ms, Rs : Ms = ModelsOf(ontology, {Pos(t.positive)}) /\ Rs = {Pos(t.positive)}
  OBVIOUS
<1>5. /\ Obey(Ms, ontology) /\ \A M \in Ms : \A i \in DOMAIN pending' : Holds(M, pending'[i])
      /\ \A l \in Rs : \E i \in DOMAIN pending' : pending'[i] = l
  <2>1. Obey(Ms, ontology)
    BY <1>4, FewerModels, Zenon
  <2>2. \A M \in Ms : Holds(M, Pos(t.positive))
    BY <1>4, Zenon DEF ModelsOf
  <2> QED
    BY <1>2, <1>4, <2>1, <2>2, Zenon
<1>6. Formed({}, 0)' /\ StackRecordsPrefix' /\ Sound(Ms, {}, 0)' /\ Complete(Rs, 0)'
  BY Zenon, <1>1, <1>2, <1>5, ClearStarts
<1>7. Running'
  <2>1. Rs = (IF HasNominals THEN ABox ELSE {}) \cup {Pos(t.positive)}
    BY <1>4
  <2> QED
    BY <1>3, <1>4, <1>6, <2>1, PositiveRuns
<1>8. Driver'
  <2>1. Len(pending') <= 1
    BY <1>2
  <2> QED
    BY <1>2, <1>3, <2>1, PositiveDriver, Zenon
<1>9. Levels'
  BY <1>3, ClearLevels, Zenon
<1>10. Kept' /\ TestsStartAlike'
  BY <1>3, Zenon DEF Kept, TestsStartAlike
<1>11. TestFactsAbove'
  <2>1. DOMAIN rows' = {}
    BY <1>3
  <2> QED
    BY <1>2, <1>3, <2>1, Zenon DEF TestFactsAbove, Above
<1>12. NotFresh'
  BY Zenon DEF NotFresh
<1> QED
  BY <1>3, <1>6, <1>7, <1>8, <1>9, <1>10, <1>11, <1>12, Zenon DEF TestInv, Standing


-----------------------------------------------------------------------------
(* What a step of the calculus leaves of the tableau below a level that it  *)
(* cannot backtrack to.                                                    *)

\* A sequence is lengthened.
Extended(s, t) == Len(s) <= Len(t) /\ \A i \in 1 .. Len(s) : t[i] = s[i]

\* A step that takes nothing back.
Grows ==
    /\ Extended(rows, rows') /\ Extended(disjunctions, disjunctions')
    /\ Extended(branchingPoints, branchingPoints')

LEMMA SameExtended ==
    ASSUME NEW S, NEW s \in Seq(S)
    PROVE  Extended(s, s)
  BY DEF Extended

LEMMA AppendExtended ==
    ASSUME NEW S, NEW s \in Seq(S), NEW x
    PROVE  /\ Extended(s, Append(s, x))
           /\ DOMAIN Append(s, x) = DOMAIN s \cup {Len(s) + 1} /\ Append(s, x)[Len(s) + 1] = x
           /\ \A i \in DOMAIN s : Append(s, x)[i] = s[i]
<1>1. PICK T : T = S \cup {x}
  BY Zenon
<1>2. s \in Seq(T) /\ x \in T
  BY <1>1
<1> QED
  BY <1>2 DEF Extended

LEMMA GrowsKeeps ==
    ASSUME Formed({}, nonbacktrackable), StackRecordsPrefix, Grows, NEW c \in 1 .. Level
    PROVE  UnchangedBelow(c)
<1>1. PICK b, n, m : b = branchingPoints[c] /\ n = b.new /\ m = b.disjunctions
  BY Zenon
<1>2. /\ n \in Nat /\ n <= Len(rows) /\ m \in Nat /\ m <= Len(disjunctions)
  BY <1>1, PointTypes, Zenon
<1>3. /\ c <= Level' /\ \A k \in 1 .. c : branchingPoints'[k] = branchingPoints[k]
  <2>1. branchingPoints \in Seq(BranchingPoint)
    BY Zenon DEF Formed
  <2>2. Len(branchingPoints) \in Nat /\ c \in 1 .. Len(branchingPoints)
    BY <2>1 DEF Level
  <2>3. /\ Len(branchingPoints) <= Len(branchingPoints')
        /\ \A k \in 1 .. Len(branchingPoints) : branchingPoints'[k] = branchingPoints[k]
    BY Zenon DEF Grows, Extended
  <2> QED
    BY <2>2, <2>3 DEF Level
<1>4. /\ n <= Len(rows') /\ \A i \in 1 .. n : rows'[i] = rows[i]
  <2>1. rows \in Seq(Row)
    BY Zenon DEF Formed
  <2>2. Len(rows) \in Nat
    BY <2>1
  <2>3. Len(rows) <= Len(rows') /\ \A i \in 1 .. Len(rows) : rows'[i] = rows[i]
    BY Zenon DEF Grows, Extended
  <2>4. n <= Len(rows')
    BY <1>2, <2>2, <2>3
  <2> QED
    BY <1>2, <2>2, <2>3, <2>4, Shorter, Zenon
<1>5. /\ m <= Len(disjunctions') /\ \A i \in 1 .. m : disjunctions'[i] = disjunctions[i]
  <2>1. disjunctions \in Seq(Disjunction)
    BY Zenon DEF Formed
  <2>2. Len(disjunctions) \in Nat
    BY <2>1
  <2>3. /\ Len(disjunctions) <= Len(disjunctions')
        /\ \A i \in 1 .. Len(disjunctions) : disjunctions'[i] = disjunctions[i]
    BY Zenon DEF Grows, Extended
  <2>4. m <= Len(disjunctions')
    BY <1>2, <2>2, <2>3
  <2> QED
    BY <1>2, <2>2, <2>3, <2>4, Shorter, Zenon
<1> QED
  BY <1>1, <1>3, <1>4, <1>5, Zenon DEF UnchangedBelow

LEMMA GrowsBelow ==
    ASSUME Formed({}, nonbacktrackable), StackRecordsPrefix, Grows
    PROVE  \A c \in 1 .. nonbacktrackable : UnchangedBelow(c)
<1>1. nonbacktrackable \in 0 .. Level /\ Level \in Nat
  BY DEF Formed, Level
<1>2. \A c \in 1 .. nonbacktrackable : c \in 1 .. Level
  BY <1>1
<1> QED
  BY <1>2, GrowsKeeps, Zenon

LEMMA AddFactGrows ==
    ASSUME rows \in Seq(Row), NEW l, NEW d, AddFact(l, d)
    PROVE  Extended(rows, rows')
<1>1. rows' = rows \/ \E x : rows' = Append(rows, x)
  BY Zenon DEF AddFact
<1>2. PICK r \in Seq(Row) : r = rows
  BY Zenon
<1>3. Extended(r, r) /\ \A x : Extended(r, Append(r, x))
  BY SameExtended, AppendExtended
<1> QED
  BY <1>1, <1>2, <1>3, Zenon

\* No step of the calculus but backtracking takes anything back.
LEMMA CalculatingGrows ==
    ASSUME Formed({}, nonbacktrackable), Loading \/ Calculating
    PROVE  Grows /\ nonbacktrackable' = nonbacktrackable /\ ontology' = ontology
<1>1. /\ rows \in Seq(Row) /\ disjunctions \in Seq(Disjunction)
      /\ branchingPoints \in Seq(BranchingPoint)
  BY Zenon DEF Formed
<1>2. /\ Extended(rows, rows) /\ Extended(disjunctions, disjunctions)
      /\ Extended(branchingPoints, branchingPoints)
  BY <1>1, SameExtended
<1>3. CASE AssertPending
  <2>1. /\ Extended(rows, rows') \/ rows' = rows
        /\ UNCHANGED <<disjunctions, branchingPoints, nonbacktrackable, ontology>>
    BY <1>1, <1>3, AddFactGrows, Zenon DEF AssertPending
  <2> QED
    BY <1>2, <2>1, Zenon DEF Grows
<1>4. CASE Asserted \/ PropagateDeltaNew \/ PassFinished
  <2>1. UNCHANGED <<rows, disjunctions, branchingPoints, nonbacktrackable, ontology>>
    BY <1>4, Zenon DEF Asserted, PropagateDeltaNew, PassFinished, table
  <2> QED
    BY <1>2, <2>1, Zenon DEF Grows
<1>5. CASE DeriveClash \/ DeriveFact
  <2>1. /\ rows' = rows \/ \E l, d : AddFact(l, d)
        /\ UNCHANGED <<disjunctions, branchingPoints, nonbacktrackable, ontology>>
    BY <1>5, Zenon DEF DeriveClash, DeriveFact, Fire
  <2>2. Extended(rows, rows') \/ rows' = rows
    BY <1>1, <2>1, AddFactGrows
  <2> QED
    BY <1>2, <2>1, <2>2, Zenon DEF Grows
<1>6. CASE DeriveDisjunction
  <2>1. /\ disjunctions' = disjunctions \/ \E x : disjunctions' = Append(disjunctions, x)
        /\ UNCHANGED <<rows, branchingPoints, nonbacktrackable, ontology>>
    BY <1>6, Zenon DEF DeriveDisjunction, Fire
  <2>2. Extended(disjunctions, disjunctions')
    <3>1. PICK q \in Seq(Disjunction) : q = disjunctions
      BY <1>1, Zenon
    <3>2. \A x : Extended(q, Append(q, x))
      BY AppendExtended
    <3> QED
      BY <1>2, <2>1, <3>1, <3>2, Zenon
  <2> QED
    BY <1>2, <2>1, <2>2, Zenon DEF Grows
<1>7. CASE ProcessFirstGroundDisjunction
  <2>1. /\ rows' = rows \/ \E l, d : AddFact(l, d)
        /\ branchingPoints' = branchingPoints \/ \E x : branchingPoints' = Append(branchingPoints, x)
        /\ UNCHANGED <<disjunctions, nonbacktrackable, ontology>>
    BY <1>7, Zenon DEF ProcessFirstGroundDisjunction, ProcessGroundDisjunction
  <2>2. Extended(rows, rows') \/ rows' = rows
    BY <1>1, <2>1, AddFactGrows
  <2>3. Extended(branchingPoints, branchingPoints')
    <3>1. PICK st \in Seq(BranchingPoint) : st = branchingPoints
      BY <1>1, Zenon
    <3>2. \A x : Extended(st, Append(st, x))
      BY AppendExtended
    <3> QED
      BY <1>2, <2>1, <3>1, <3>2, Zenon
  <2> QED
    BY <1>2, <2>1, <2>2, <2>3, Zenon DEF Grows
<1> QED
  BY <1>3, <1>4, <1>5, <1>6, <1>7, Zenon DEF Loading, Calculating


LEMMA BacktrackBelow ==
    ASSUME Formed({}, nonbacktrackable), StackRecordsPrefix, BacktrackOnClash
    PROVE  /\ nonbacktrackable' = nonbacktrackable /\ ontology' = ontology
           /\ \A c \in 1 .. nonbacktrackable : UnchangedBelow(c)
<1>1. PICK d \in clash, k \in 0 .. Level :
         IF k <= nonbacktrackable
         THEN UNCHANGED <<table, disjunctions, firstUnprocessed, branchingPoints, clash, pending, pendingDeps>>
         ELSE BacktrackTo(k) /\ StartNextChoice(k, d)
  BY Zenon DEF BacktrackOnClash
<1>2. PICK nb, r, q, st : nb = nonbacktrackable /\ r = rows /\ q = disjunctions /\ st = branchingPoints
  BY Zenon
<1>3. /\ r \in Seq(Row) /\ q \in Seq(Disjunction) /\ st \in Seq(BranchingPoint)
      /\ nb \in 0 .. Len(st) /\ Level = Len(st)
  BY <1>2, Zenon DEF Formed, Level
<1>4. SUFFICES ASSUME NEW c \in 1 .. nb
               PROVE  UnchangedBelow(c)
  BY <1>2, Zenon DEF BacktrackOnClash
<1>5. c \in 1 .. Len(st) /\ c \in Nat /\ c <= nb /\ nb \in Nat /\ k \in Nat
  BY <1>3, <1>4
<1>6. CASE k <= nb
  <2>1. UNCHANGED <<rows, disjunctions, branchingPoints>>
    BY <1>1, <1>2, <1>6, Zenon DEF table
  <2>2. Grows
    BY <1>2, <1>3, <2>1, SameExtended, Zenon DEF Grows
  <2> QED
    BY <1>3, <1>5, <2>2, GrowsKeeps
<1>7. CASE ~(k <= nb)
  <2>1. k \in c + 1 .. Len(st) /\ k \in 1 .. Len(st) /\ k \in c .. Len(st) /\ k - 1 \in 0 .. Len(st) /\ c \in 1 .. k - 1
    BY <1>3, <1>5, <1>7
  <2>2. PICK a, b : a = st[c] /\ b = st[k]
    BY Zenon
  <2>3. /\ a.new \in Nat /\ a.disjunctions \in Nat
        /\ b.new \in 0 .. Len(r) /\ b.disjunctions \in 0 .. Len(q) /\ b.new \in Nat /\ b.disjunctions \in Nat
    <3>1. /\ a.new \in Nat /\ a.disjunctions \in Nat /\ b.new \in Nat /\ b.disjunctions \in Nat
          /\ b.new <= Len(r) /\ b.disjunctions <= Len(q)
      BY <1>2, <1>3, <1>5, <2>1, <2>2, PointTypes, Zenon
    <3> QED
      BY <1>3, <3>1
  <2>4. a.new <= b.new /\ a.disjunctions <= b.disjunctions
    BY <1>2, <1>3, <1>5, <2>1, <2>2, Zenon DEF StackRecordsPrefix, RecordsPrefix
  <2>5. /\ rows' = SubSeq(r, 1, b.new) /\ disjunctions' = SubSeq(q, 1, b.disjunctions)
        /\ \E x : branchingPoints' = Append(SubSeq(st, 1, k - 1), x)
    BY <1>1, <1>2, <1>7, <2>2, Zenon DEF BacktrackTo, StartNextChoice
  <2>6. /\ Len(rows') = b.new /\ \A i \in 1 .. b.new : rows'[i] = r[i]
        /\ Len(disjunctions') = b.disjunctions /\ \A i \in 1 .. b.disjunctions : disjunctions'[i] = q[i]
    <3>1. Len(rows') = b.new /\ \A i \in 1 .. b.new : rows'[i] = r[i]
      BY <1>3, <2>3, <2>5, Cut, ZenonT(40)
    <3>2. Len(disjunctions') = b.disjunctions /\ \A i \in 1 .. b.disjunctions : disjunctions'[i] = q[i]
      BY <1>3, <2>3, <2>5, Cut, ZenonT(40)
    <3> QED
      BY <3>1, <3>2, Zenon
  <2>7. /\ c <= Level' /\ \A j \in 1 .. c : branchingPoints'[j] = st[j]
    <3>1. PICK u, x : u = SubSeq(st, 1, k - 1) /\ branchingPoints' = Append(u, x)
      BY <2>5, Zenon
    <3>2. u \in Seq(BranchingPoint) /\ Len(u) = k - 1 /\ \A j \in 1 .. k - 1 : u[j] = st[j]
      BY <1>3, <2>1, <3>1, Cut, Zenon
    <3>3. Extended(u, Append(u, x))
      BY <3>2, AppendExtended
    <3>4. /\ k - 1 <= Len(branchingPoints')
          /\ \A j \in 1 .. k - 1 : branchingPoints'[j] = st[j]
      BY <3>1, <3>2, <3>3, Zenon DEF Extended
    <3>5. c <= k - 1 /\ \A j \in 1 .. c : j \in 1 .. k - 1
      BY <1>5, <2>1
    <3>6. \A j \in 1 .. c : branchingPoints'[j] = st[j]
      BY <3>4, <3>5, Zenon
    <3>7. c <= Len(branchingPoints')
      BY <1>5, <3>4, <3>5
    <3> QED
      BY <3>6, <3>7, Zenon DEF Level
  <2>8. /\ a.new <= Len(rows') /\ \A i \in 1 .. a.new : rows'[i] = r[i]
        /\ a.disjunctions <= Len(disjunctions') /\ \A i \in 1 .. a.disjunctions : disjunctions'[i] = q[i]
    BY <2>3, <2>4, <2>6, Shorter, Zenon
  <2> QED
    BY <1>2, <2>2, <2>7, <2>8, Zenon DEF UnchangedBelow
<1> QED
  BY <1>6, <1>7, Zenon

\* The levels and the checkpoint stand while the calculus runs above them.
LEMMA StepKeeps ==
    ASSUME Standing, Formed({}, nonbacktrackable)', nonbacktrackable' = nonbacktrackable,
           \A c \in 1 .. nonbacktrackable : UnchangedBelow(c),
           pc' = "test" => Level' = Level /\ pc = "test",
           UNCHANGED <<ontology, phase, checkpoint, saturated>>
    PROVE  Levels' /\ Kept'
<1>1. PICK nb, c, st, st2 : nb = nonbacktrackable /\ c = checkpoint /\ st = branchingPoints /\ st2 = branchingPoints'
  BY Zenon
<1>2. /\ st \in Seq(BranchingPoint) /\ nb \in 0 .. Len(st) /\ Level = Len(st)
      /\ st2 \in Seq(BranchingPoint) /\ nb \in 0 .. Len(st2) /\ Level' = Len(st2)
  BY <1>1, Zenon DEF Standing, Formed, Level
<1>3. /\ c \in 0 .. nb /\ \A k \in c + 1 .. nb : st[k].choices = <<>>
      /\ pc = "test" => Level = nb
      /\ phase = "positive" => nb = c
  BY <1>1, Zenon DEF Standing, Levels
<1>4. c \in Nat /\ nb \in Nat /\ \A k \in c + 1 .. nb : k \in 1 .. nb
  BY <1>2, <1>3
<1>5. ASSUME NEW k \in 1 .. nb
      PROVE  st2[k] = st[k]
  <2>1. UnchangedBelow(k) /\ k \in 1 .. k
    BY <1>1, <1>4, <1>5
  <2> QED
    BY <1>1, <2>1, Zenon DEF UnchangedBelow
<1>6. Levels'
  <2>1. /\ c \in 0 .. nb /\ nb \in 0 .. Level'
        /\ \A k \in c + 1 .. nb : st2[k].choices = <<>>
        /\ pc' = "test" => Level' = nb
        /\ phase' = "positive" => nb = c
    BY <1>2, <1>3, <1>4, <1>5, Zenon
  <2>2. nonbacktrackable' = nb /\ checkpoint' = c /\ branchingPoints' = st2
    BY <1>1, Zenon
  <2> QED
    BY <2>1, <2>2, Zenon DEF Levels
<1>7. Kept'
  <2>1. CASE c = 0
    BY <1>1, <2>1, Zenon DEF Kept
  <2>2. CASE c # 0
    <3>1. c \in 1 .. nb /\ c \in 1 .. Level
      BY <1>2, <1>3, <1>4, <2>2
    <3> QED
      BY <1>1, <2>2, <3>1, KeptAgree, Zenon DEF Standing
  <2> QED
    BY <2>1, <2>2, Zenon
<1> QED
  BY <1>6, <1>7, Zenon


-----------------------------------------------------------------------------
(* The fresh node.                                                         *)

\* A match of atoms that are not about the fresh node derives none that are.
LEMMA HeadNotFresh ==
    ASSUME Formed({}, nonbacktrackable), TodoMatched, RowsNotFresh(rows), NEW m \in todo
    PROVE  m[1].head \in Seq(Atoms) /\ AtomsNotFresh(m[1].head)
<1>1. PICK o, c : o = ontology /\ c = m[1]
  BY Zenon
<1>2. o \in Ontologies /\ c \in o.clauses
  BY <1>1 DEF Formed
<1>3. c.head \in Seq(Atoms)
  BY <1>2, OntologiesAssumption DEF Ontology, Clause
<1>4. ASSUME NEW a \in c.body
      PROVE  a \notin FreshAtoms
  <2>1. PICK i \in DOMAIN rows : rows[i].lit = Pos(a)
    BY <1>1, Zenon DEF TodoMatched, Facts
  <2>2. Pos(a).atom = a
    BY Zenon DEF Pos
  <2> QED
    BY <2>1, <2>2, Zenon DEF RowsNotFresh
<1>5. c.body \cap FreshAtoms = {}
  BY <1>4, Zenon
<1> QED
  BY <1>1, <1>2, <1>3, <1>5, TestsAssumption, Zenon DEF AtomsNotFresh

LEMMA AppendNotFresh ==
    ASSUME NEW S, NEW s \in Seq(S), NEW x
    PROVE  /\ RowsNotFresh(s) /\ x.lit.atom \notin FreshAtoms => RowsNotFresh(Append(s, x))
           /\ QueueNotFresh(s) /\ AtomsNotFresh(x.disjuncts) => QueueNotFresh(Append(s, x))
           /\ StackNotFresh(s) /\ AtomsNotFresh(x.choices) => StackNotFresh(Append(s, x))
<1>1. PICK u, n : u = Append(s, x) /\ n = Len(s) + 1
  BY Zenon
<1>2. DOMAIN u = DOMAIN s \cup {n} /\ u[n] = x /\ \A i \in DOMAIN s : u[i] = s[i]
  BY <1>1, AppendExtended
<1> QED
  BY <1>1, <1>2, Zenon DEF RowsNotFresh, QueueNotFresh, StackNotFresh

LEMMA CutNotFresh ==
    ASSUME NEW S, NEW s \in Seq(S), NEW n \in 0 .. Len(s)
    PROVE  /\ RowsNotFresh(s) => RowsNotFresh(SubSeq(s, 1, n))
           /\ QueueNotFresh(s) => QueueNotFresh(SubSeq(s, 1, n))
           /\ StackNotFresh(s) => StackNotFresh(SubSeq(s, 1, n))
<1>1. PICK u : u = SubSeq(s, 1, n)
  BY Zenon
<1>2. DOMAIN u = 1 .. n /\ 1 .. n \subseteq DOMAIN s /\ \A i \in 1 .. n : u[i] = s[i]
  BY <1>1, Cut
<1> QED
  BY <1>1, <1>2, Zenon DEF RowsNotFresh, QueueNotFresh, StackNotFresh

LEMMA AddFactNotFresh ==
    ASSUME rows \in Seq(Row), RowsNotFresh(rows), NEW l, NEW d, AddFact(l, d), l.atom \notin FreshAtoms
    PROVE  RowsNotFresh(rows')
<1>1. PICK x : x = [lit |-> l, deps |-> d]
  BY Zenon
<1>2. x.lit.atom \notin FreshAtoms
  BY <1>1, Zenon
<1>3. rows' = rows \/ rows' = Append(rows, x)
  BY <1>1, Zenon DEF AddFact
<1>4. PICK r \in Seq(Row) : r = rows
  BY Zenon
<1>5. RowsNotFresh(Append(r, x))
  BY <1>2, <1>4, AppendNotFresh, Zenon
<1> QED
  BY <1>3, <1>4, <1>5, Zenon


LEMMA AssertPendingNotFresh ==
    ASSUME Formed({}, nonbacktrackable), AssertPending, RowsNotFresh(rows), LiteralsNotFresh(pending)
    PROVE  RowsNotFresh(rows') /\ LiteralsNotFresh(pending')
<1>1. PICK p, l : p = pending /\ l = Head(p)
  BY Zenon
<1>2. p \in Seq(Literal) /\ p # <<>> /\ rows \in Seq(Row)
  BY <1>1, Zenon DEF Formed, AssertPending
<1>3. /\ 1 \in DOMAIN p /\ l = p[1]
      /\ \A i \in DOMAIN Tail(p) : i + 1 \in DOMAIN p /\ Tail(p)[i] = p[i + 1]
      /\ DOMAIN <<>> = {}
  BY <1>1, <1>2
<1>4. rows' = rows \/ AddFact(l, pendingDeps)
  BY <1>1, Zenon DEF AssertPending
<1>5. l.atom \notin FreshAtoms
  BY <1>1, <1>3, Zenon DEF LiteralsNotFresh
<1>6. RowsNotFresh(rows')
  <2>1. CASE rows' = rows
    BY <2>1, Zenon
  <2>2. CASE AddFact(l, pendingDeps)
    <3>1. PICK d : d = pendingDeps
      BY Zenon
    <3> QED
      BY <1>2, <1>5, <2>2, <3>1, AddFactNotFresh, Zenon
  <2> QED
    BY <1>4, <2>1, <2>2, Zenon
<1>7. LiteralsNotFresh(pending')
  <2>1. pending' = Tail(p) \/ pending' = <<>>
    BY <1>1, Zenon DEF AssertPending
  <2>2. LiteralsNotFresh(Tail(p)) /\ LiteralsNotFresh(<<>>)
    BY <1>1, <1>3, Zenon DEF LiteralsNotFresh
  <2> QED
    BY <2>1, <2>2, Zenon
<1> QED
  BY <1>6, <1>7, Zenon

LEMMA DeriveNotFresh ==
    ASSUME Formed({}, nonbacktrackable), TodoMatched, RowsNotFresh(rows), QueueNotFresh(disjunctions),
           DeriveClash \/ DeriveFact \/ DeriveDisjunction
    PROVE  RowsNotFresh(rows') /\ QueueNotFresh(disjunctions') /\ UNCHANGED <<pending, branchingPoints>>
<1>1. rows \in Seq(Row) /\ disjunctions \in Seq(Disjunction)
  BY Zenon DEF Formed
<1>2. CASE DeriveClash
  BY <1>2, Zenon DEF DeriveClash, Fire
<1>3. CASE DeriveFact
  <2>1. PICK m \in todo : /\ Len(m[1].head) = 1 /\ AddFact(Pos(m[1].head[1]), BodyDeps(m[1]))
                          /\ UNCHANGED <<pending, branchingPoints, disjunctions>>
    BY <1>3, Zenon DEF DeriveFact, Fire
  <2>2. PICK h, l, d : h = m[1].head /\ l = Pos(h[1]) /\ d = BodyDeps(m[1])
    BY Zenon
  <2>3. h \in Seq(Atoms) /\ AtomsNotFresh(h)
    BY <2>2, HeadNotFresh, Zenon
  <2>4. 1 \in DOMAIN h
    BY <2>1, <2>2, <2>3
  <2>5. l.atom \notin FreshAtoms
    BY <2>2, <2>3, <2>4, Zenon DEF Pos, AtomsNotFresh
  <2>6. RowsNotFresh(rows')
    BY <1>1, <2>1, <2>2, <2>5, AddFactNotFresh, Zenon
  <2> QED
    BY <2>1, <2>6, Zenon
<1>4. CASE DeriveDisjunction
  <2>1. PICK m \in todo : /\ \/ disjunctions' = disjunctions
                             \/ disjunctions' = Append(disjunctions,
                                                  [disjuncts |-> m[1].head, deps |-> BodyDeps(m[1])])
                          /\ UNCHANGED <<pending, branchingPoints, rows>>
    BY <1>4, Zenon DEF DeriveDisjunction, Fire
  <2>2. PICK x : x = [disjuncts |-> m[1].head, deps |-> BodyDeps(m[1])]
    BY Zenon
  <2>3. AtomsNotFresh(x.disjuncts)
    BY <2>2, HeadNotFresh, Zenon
  <2>4. PICK q \in Seq(Disjunction) : q = disjunctions
    BY <1>1, Zenon
  <2>5. QueueNotFresh(Append(q, x))
    BY <2>3, <2>4, AppendNotFresh, Zenon
  <2> QED
    BY <2>1, <2>2, <2>4, <2>5, Zenon
<1> QED
  BY <1>2, <1>3, <1>4, Zenon

LEMMA ProcessNotFresh ==
    ASSUME Formed({}, nonbacktrackable), NEW nb, Branching(nb), RowsNotFresh(rows), QueueNotFresh(disjunctions),
           StackNotFresh(branchingPoints), ProcessFirstGroundDisjunction
    PROVE  RowsNotFresh(rows') /\ StackNotFresh(branchingPoints') /\ UNCHANGED <<pending, disjunctions>>
<1>1. /\ rows \in Seq(Row) /\ disjunctions \in Seq(Disjunction)
      /\ branchingPoints \in Seq(BranchingPoint) /\ firstUnprocessed \in Nat
  BY DEF Formed
<1>2. UNCHANGED <<pending, disjunctions>>
  BY Zenon DEF ProcessFirstGroundDisjunction, work
<1>3. CASE UNCHANGED <<rows, branchingPoints>>
  BY <1>2, <1>3, Zenon
<1>4. CASE \E g \in firstUnprocessed .. Len(disjunctions) : ProcessGroundDisjunction(g)
  <2>1. PICK g \in firstUnprocessed .. Len(disjunctions) : ProcessGroundDisjunction(g)
    BY <1>4, Zenon
  <2>2. PICK e, ds : e = disjunctions[g].deps /\ ds = disjunctions[g].disjuncts
    BY Zenon
  <2>3. PICK f \in Orders(Len(ds)) :
           /\ branchingPoints' = Append(branchingPoints, NewBranchingPoint(Ordered(ds, f), 1, g + 1))
           /\ AddFact(Pos(Ordered(ds, f)[1]), e \cup {Level + 1})
    BY <2>1, <2>2, Zenon DEF ProcessGroundDisjunction
  <2>4. g \in DOMAIN disjunctions
    <3>1. firstUnprocessed \in 1 .. Len(disjunctions) + 1
      BY Zenon DEF Formed
    <3> QED
      BY <1>1, <2>1, <3>1
  <2>5. AtomsNotFresh(ds) /\ ds \in Seq(Atoms) /\ Len(ds) > 1
    <3>1. disjunctions[g] \in Disjunction
      BY <1>1, <2>4
    <3> QED
      BY <2>2, <2>4, <3>1, Zenon DEF QueueNotFresh, Branching, Disjunction
  <2>6. PICK cs : cs = Ordered(ds, f)
    BY Zenon
  <2>7. AtomsNotFresh(cs) /\ 1 \in DOMAIN cs
    <3>1. DOMAIN cs = 1 .. Len(ds) /\ \A i \in 1 .. Len(ds) : cs[i] = ds[f[i]] /\ f[i] \in 1 .. Len(ds)
      BY <2>6, Zenon DEF Ordered, Orders
    <3>2. DOMAIN ds = 1 .. Len(ds) /\ 1 \in 1 .. Len(ds)
      BY <2>5
    <3> QED
      BY <2>5, <3>1, <3>2, Zenon DEF AtomsNotFresh
  <2>8. PICK x, l, d : x = NewBranchingPoint(cs, 1, g + 1) /\ l = Pos(cs[1]) /\ d = e \cup {Level + 1}
    BY Zenon
  <2>9. x.choices = cs /\ l.atom \notin FreshAtoms
    BY <2>7, <2>8, Zenon DEF NewBranchingPoint, Pos, AtomsNotFresh
  <2>10. RowsNotFresh(rows')
    BY <1>1, <2>3, <2>6, <2>8, <2>9, AddFactNotFresh, Zenon
  <2>11. PICK st \in Seq(BranchingPoint) : st = branchingPoints
    BY <1>1, Zenon
  <2>12. StackNotFresh(Append(st, x))
    BY <2>7, <2>9, <2>11, AppendNotFresh, Zenon
  <2> QED
    BY <1>2, <2>3, <2>6, <2>8, <2>10, <2>11, <2>12, Zenon
<1> QED
  BY <1>3, <1>4, Zenon DEF ProcessFirstGroundDisjunction


LEMMA BacktrackNotFresh ==
    ASSUME Formed({}, nonbacktrackable), StackRecordsPrefix, NEW Ms, NEW N, AllGrounded(Ms, N, nonbacktrackable),
           RowsNotFresh(rows), QueueNotFresh(disjunctions), StackNotFresh(branchingPoints),
           LiteralsNotFresh(pending), BacktrackOnClash
    PROVE  /\ RowsNotFresh(rows') /\ QueueNotFresh(disjunctions') /\ StackNotFresh(branchingPoints')
           /\ LiteralsNotFresh(pending')
<1>1. PICK d \in clash, k \in 0 .. Level :
         /\ IsMaximum(k, d)
         /\ IF k <= nonbacktrackable
            THEN UNCHANGED <<table, disjunctions, firstUnprocessed, branchingPoints, clash, pending, pendingDeps>>
            ELSE BacktrackTo(k) /\ StartNextChoice(k, d)
  BY Zenon DEF BacktrackOnClash
<1>2. CASE k <= nonbacktrackable
  BY <1>1, <1>2, Zenon DEF table
<1>3. CASE ~(k <= nonbacktrackable)
  <2>1. PICK nb, r, q, st, b, n, v : /\ nb = nonbacktrackable /\ r = rows /\ q = disjunctions
                                     /\ st = branchingPoints /\ b = st[k]
                                     /\ n = b.current + 1 /\ v = [b EXCEPT !.current = n]
    BY Zenon
  <2>2. /\ r \in Seq(Row) /\ q \in Seq(Disjunction) /\ st \in Seq(BranchingPoint)
        /\ nb \in 0 .. Len(st) /\ Level = Len(st)
    BY <2>1, Zenon DEF Formed, Level
  <2>3. /\ k \in 1 .. Len(st) /\ k > nb /\ k # 0 /\ k - 1 \in 0 .. Len(st)
    BY <1>3, <2>1, <2>2
  <2>4. /\ b.new \in 0 .. Len(r) /\ b.disjunctions \in 0 .. Len(q) /\ b \in BranchingPoint
    <3>1. /\ b.new \in Nat /\ b.disjunctions \in Nat /\ b \in BranchingPoint
          /\ b.new <= Len(r) /\ b.disjunctions <= Len(q)
      BY <2>1, <2>2, <2>3, PointTypes, Zenon
    <3> QED
      BY <2>2, <3>1
  <2>5. b.current < Len(b.choices) /\ b.choices \in Seq(Atoms) /\ b.current \in Nat
    <3>1. k \in d
      BY <1>1, <2>3, Zenon DEF IsMaximum
    <3>2. Grounded(Ms, N, nb, st, d)
      BY <2>1, Zenon DEF AllGrounded, LiveDeps
    <3>3. b.current < Len(b.choices)
      BY <2>1, <2>3, <3>1, <3>2, Zenon DEF Grounded
    <3>4. b.choices \in Seq(Atoms) /\ b.current \in Nat
      BY <2>4 DEF BranchingPoint
    <3> QED
      BY <3>3, <3>4, Zenon
  <2>6. AtomsNotFresh(b.choices) /\ 1 .. n \subseteq DOMAIN b.choices
    <3>1. k \in DOMAIN st
      BY <2>2, <2>3
    <3>2. 1 .. n \subseteq DOMAIN b.choices
      BY <2>1, <2>5
    <3> QED
      BY <2>1, <3>1, <3>2, Zenon DEF StackNotFresh
  <2>7. /\ rows' = SubSeq(r, 1, b.new) /\ disjunctions' = SubSeq(q, 1, b.disjunctions)
        /\ branchingPoints' = Append(SubSeq(st, 1, k - 1), v)
        /\ pending' = [i \in 1 .. n |-> IF i < n THEN Neg(b.choices[i]) ELSE Pos(b.choices[i])]
    BY <1>1, <1>3, <2>1, Zenon DEF BacktrackTo, StartNextChoice
  <2>8. RowsNotFresh(rows') /\ QueueNotFresh(disjunctions')
    BY <2>1, <2>2, <2>4, <2>7, CutNotFresh, Zenon
  <2>9. StackNotFresh(branchingPoints')
    <3>1. PICK u : u = SubSeq(st, 1, k - 1)
      BY Zenon
    <3>2. u \in Seq(BranchingPoint) /\ StackNotFresh(u)
      BY <2>1, <2>2, <2>3, <3>1, Cut, CutNotFresh, Zenon
    <3>3. v.choices = b.choices
      BY <2>1, <2>4 DEF BranchingPoint
    <3> QED
      BY <2>6, <2>7, <3>1, <3>2, <3>3, AppendNotFresh, Zenon
  <2>10. LiteralsNotFresh(pending')
    <3>1. \A a : Neg(a).atom = a /\ Pos(a).atom = a
      BY Zenon DEF Neg, Pos
    <3>2. DOMAIN pending' = 1 .. n /\ \A i \in 1 .. n : pending'[i].atom = b.choices[i]
      BY <2>7, <3>1
    <3> QED
      BY <2>6, <3>2, Zenon DEF LiteralsNotFresh, AtomsNotFresh
  <2> QED
    BY <2>8, <2>9, <2>10, Zenon
<1> QED
  BY <1>2, <1>3, Zenon

\* Saturating the ABox says nothing of the fresh node.
LEMMA CalculusNotFresh ==
    ASSUME Standing, NEW Ms, NEW N, Sound(Ms, N, nonbacktrackable), Calculating \/ CalculusClash, phase' = phase
    PROVE  NotFresh'
<1> SUFFICES ASSUME phase = "abox"
             PROVE  /\ RowsNotFresh(rows') /\ LiteralsNotFresh(pending')
                    /\ QueueNotFresh(disjunctions') /\ StackNotFresh(branchingPoints')
  BY Zenon DEF NotFresh
<1>1. /\ Formed({}, nonbacktrackable) /\ StackRecordsPrefix
      /\ RowsNotFresh(rows) /\ LiteralsNotFresh(pending)
      /\ QueueNotFresh(disjunctions) /\ StackNotFresh(branchingPoints)
  BY Zenon DEF Standing, NotFresh
<1>2. TodoMatched /\ Branching(nonbacktrackable) /\ AllGrounded(Ms, N, nonbacktrackable)
  BY Zenon DEF Sound
<1>3. CASE AssertPending
  <2>1. UNCHANGED <<disjunctions, branchingPoints>>
    BY <1>3, Zenon DEF AssertPending
  <2> QED
    BY <1>1, <1>3, <2>1, AssertPendingNotFresh, Zenon
<1>4. CASE Asserted \/ PropagateDeltaNew \/ PassFinished
  <2>1. UNCHANGED <<rows, disjunctions, branchingPoints, pending>>
    BY <1>4, Zenon DEF Asserted, PropagateDeltaNew, PassFinished, table, work
  <2> QED
    BY <1>1, <2>1, Zenon
<1>5. CASE DeriveClash \/ DeriveFact \/ DeriveDisjunction
  <2>1. RowsNotFresh(rows') /\ QueueNotFresh(disjunctions') /\ UNCHANGED <<pending, branchingPoints>>
    BY <1>1, <1>2, <1>5, DeriveNotFresh, Zenon
  <2> QED
    BY <1>1, <2>1, Zenon
<1>6. CASE ProcessFirstGroundDisjunction
  <2>1. PICK nb : nb = nonbacktrackable
    BY Zenon
  <2>2. RowsNotFresh(rows') /\ StackNotFresh(branchingPoints') /\ UNCHANGED <<pending, disjunctions>>
    BY <1>1, <1>2, <1>6, <2>1, ProcessNotFresh, Zenon
  <2> QED
    BY <1>1, <2>2, Zenon
<1>7. CASE BacktrackOnClash
  BY <1>1, <1>2, <1>7, BacktrackNotFresh, Zenon
<1> QED
  BY <1>3, <1>4, <1>5, <1>6, <1>7, Zenon DEF Calculating, CalculusClash


-----------------------------------------------------------------------------
(* A branching point without choices is pushed: the checkpoint of the      *)
(* saturated ABox, or the dummy the negations depend on.                   *)

\* Dependency sets name branching points of the stack.
LEMMA LiveBelow ==
    ASSUME NEW Ms, NEW N, NEW nb, AllGrounded(Ms, N, nb)
    PROVE  /\ \A i \in DOMAIN rows : rows[i].deps \subseteq 1 .. Level
           /\ \A i \in DOMAIN disjunctions : disjunctions[i].deps \subseteq 1 .. Level
           /\ \A d \in clash : d \subseteq 1 .. Level
           /\ pending # <<>> => pendingDeps \subseteq 1 .. Level
<1>1. \A d \in LiveDeps : d \subseteq 1 .. Level
  BY Zenon DEF AllGrounded, Grounded, Level
<1>2. /\ \A i \in DOMAIN rows : rows[i].deps \in LiveDeps
      /\ \A i \in DOMAIN disjunctions : disjunctions[i].deps \in LiveDeps
      /\ \A d \in clash : d \in LiveDeps
      /\ pending # <<>> => pendingDeps \in LiveDeps
  BY Zenon DEF LiveDeps
<1> QED
  BY <1>1, <1>2, Zenon

LEMMA PushedPoint ==
    ASSUME Formed({}, nonbacktrackable), NEW x, x = NewBranchingPoint(<<>>, 0, firstUnprocessed)
    PROVE  /\ x \in BranchingPoint /\ x.choices = <<>> /\ x.old = extensionOld /\ x.this = extensionThis
           /\ x.new = Len(rows) /\ x.disjunctions = Len(disjunctions) /\ x.unprocessed = firstUnprocessed
<1>1. /\ rows \in Seq(Row) /\ disjunctions \in Seq(Disjunction)
      /\ extensionThis \in 0 .. Len(rows) /\ extensionOld \in 0 .. extensionThis
      /\ firstUnprocessed \in 1 .. Len(disjunctions) + 1
  BY Zenon DEF Formed
<1>2. /\ extensionThis \in Nat /\ extensionOld \in Nat /\ firstUnprocessed \in Nat
      /\ Len(rows) \in Nat /\ Len(disjunctions) \in Nat /\ 0 \in Nat
  BY <1>1
<1>3. <<>> \in Seq(Atoms)
  OBVIOUS
<1> QED
  BY <1>2, <1>3 DEF NewBranchingPoint, BranchingPoint

LEMMA Pushed ==
    ASSUME Formed({}, nonbacktrackable), StackRecordsPrefix,
           \A i \in DOMAIN rows : rows[i].deps \subseteq 1 .. Level,
           \A i \in DOMAIN disjunctions : disjunctions[i].deps \subseteq 1 .. Level,
           NEW x, x = NewBranchingPoint(<<>>, 0, firstUnprocessed),
           branchingPoints' = Append(branchingPoints, x), nonbacktrackable' = Level + 1,
           pending' \in Seq(Literal), pendingDeps' \in SUBSET Nat,
           UNCHANGED <<ontology, table, disjunctions, firstUnprocessed, clash, todo>>
    PROVE  /\ Level \in Nat /\ Level' = Level + 1 /\ branchingPoints'[Level + 1] = x
           /\ \A k \in 1 .. Level : branchingPoints'[k] = branchingPoints[k]
           /\ Formed({}, nonbacktrackable)' /\ StackRecordsPrefix'
<1>1. PICK c, r, q, st, st2 : /\ c = Level /\ r = rows /\ q = disjunctions /\ st = branchingPoints
                              /\ st2 = branchingPoints'
  BY Zenon
<1>2. /\ r \in Seq(Row) /\ q \in Seq(Disjunction) /\ st \in Seq(BranchingPoint) /\ c = Len(st)
  BY <1>1, Zenon DEF Formed, Level
<1>3. /\ x \in BranchingPoint /\ x.choices = <<>> /\ x.old = extensionOld /\ x.this = extensionThis
      /\ x.new = Len(r) /\ x.disjunctions = Len(q) /\ x.unprocessed = firstUnprocessed
  BY <1>1, PushedPoint, Zenon
<1>4. st2 = Append(st, x)
  BY <1>1, ZenonT(40)
<1>5. /\ c \in Nat /\ st2 \in Seq(BranchingPoint) /\ Len(st2) = c + 1 /\ st2[c + 1] = x
      /\ \A k \in 1 .. c : st2[k] = st[k]
  BY <1>2, <1>3, <1>4
<1>6. Level' = c + 1
  BY <1>1, <1>5, Zenon DEF Level
<1>7. /\ rows' = r /\ disjunctions' = q /\ ontology' = ontology /\ clash' = clash /\ todo' = todo
      /\ extensionOld' = extensionOld /\ extensionThis' = extensionThis
      /\ firstUnprocessed' = firstUnprocessed
  BY <1>1, Zenon DEF table
<1>8. Formed({}, nonbacktrackable)'
  <2>1. nonbacktrackable' \in 0 .. Len(branchingPoints')
    BY <1>1, <1>5
  <2>2. branchingPoints' \in Seq(BranchingPoint)
    BY <1>1, <1>5, Zenon
  <2> QED
    BY <1>1, <1>7, <2>1, <2>2, Zenon DEF Formed, Obey
<1>9. ASSUME NEW k \in 1 .. c
      PROVE  RecordsPrefix(k)'
  <2>1. PICK b : b = st[k]
    BY Zenon
  <2>2. /\ b.this \in 0 .. b.new /\ b.old \in 0 .. b.this
        /\ b.new <= Len(r) /\ b.disjunctions <= Len(q) /\ b.unprocessed \in 1 .. b.disjunctions + 1
        /\ \A j \in k .. c : b.new <= st[j].new /\ b.disjunctions <= st[j].disjunctions
        /\ \A i \in 1 .. b.new : r[i].deps \subseteq 1 .. k - 1
        /\ \A i \in 1 .. b.disjunctions : q[i].deps \subseteq 1 .. k - 1
    <3>1. RecordsPrefix(k)
      BY <1>1, Zenon DEF StackRecordsPrefix
    <3> QED
      BY <1>1, <2>1, <3>1, Zenon DEF RecordsPrefix
  <2>3. ASSUME NEW j \in k .. c + 1
        PROVE  b.new <= st2[j].new /\ b.disjunctions <= st2[j].disjunctions
    <3>1. CASE j = c + 1
      BY <1>3, <1>5, <2>2, <3>1, Zenon
    <3>2. CASE j # c + 1
      <4>1. j \in k .. c /\ j \in 1 .. c
        BY <1>5, <3>2
      <4> QED
        BY <1>5, <2>2, <4>1, Zenon
    <3> QED
      BY <3>1, <3>2, Zenon
  <2>4. branchingPoints'[k] = b
    BY <1>1, <1>5, <2>1, Zenon
  <2> QED
    BY <1>1, <1>6, <1>7, <2>2, <2>3, <2>4, Zenon DEF RecordsPrefix
<1>10. RecordsPrefix(c + 1)'
  <2>1. /\ x.this \in 0 .. x.new /\ x.old \in 0 .. x.this /\ x.new <= Len(r) /\ x.disjunctions <= Len(q)
        /\ x.unprocessed \in 1 .. x.disjunctions + 1
    <3>1. /\ extensionThis \in 0 .. Len(r) /\ extensionOld \in 0 .. extensionThis
          /\ firstUnprocessed \in 1 .. Len(q) + 1
      BY <1>1, Zenon DEF Formed
    <3>2. Len(r) <= Len(r) /\ Len(q) <= Len(q)
      BY <1>2
    <3> QED
      BY <1>3, <3>1, <3>2, Zenon
  <2>2. \A j \in c + 1 .. c + 1 : x.new <= st2[j].new /\ x.disjunctions <= st2[j].disjunctions
    <3>1. \A j \in c + 1 .. c + 1 : j = c + 1
      BY <1>5
    <3> QED
      BY <1>3, <1>5, <2>1, <3>1, Zenon
  <2>3. /\ \A i \in 1 .. x.new : r[i].deps \subseteq 1 .. (c + 1) - 1
        /\ \A i \in 1 .. x.disjunctions : q[i].deps \subseteq 1 .. (c + 1) - 1
    <3>1. DOMAIN r = 1 .. x.new /\ DOMAIN q = 1 .. x.disjunctions /\ (c + 1) - 1 = c
      BY <1>2, <1>3, <1>5
    <3> QED
      BY <1>1, <3>1, Zenon
  <2>4. branchingPoints'[c + 1] = x
    BY <1>1, <1>5, Zenon
  <2> QED
    BY <1>1, <1>6, <1>7, <2>1, <2>2, <2>3, <2>4, ZenonT(40) DEF RecordsPrefix
<1>11. StackRecordsPrefix'
  <2>1. \A k \in 1 .. c + 1 : k \in 1 .. c \/ k = c + 1
    BY <1>5
  <2> QED
    BY <1>6, <1>9, <1>10, <2>1, Zenon DEF StackRecordsPrefix
<1> QED
  BY <1>1, <1>5, <1>6, <1>8, <1>11, Zenon


-----------------------------------------------------------------------------
(* The ABox has been saturated.                                            *)

\* What a run of the calculus without a clash leaves is complete, and what it
\* leaves of an ABox says nothing of the fresh node.
LEMMA SaturatedTable ==
    ASSUME NEW o, o = ontology, NEW Ms, Ms = ModelsOf(o, {}), NEW nb, Sound(Ms, {}, nb), Complete(ABox, nb),
           Formed({}, nonbacktrackable), RowsNotFresh(rows), pc = "done", ~ContainsClash,
           NEW x, x = NewBranchingPoint(<<>>, 0, firstUnprocessed)
    PROVE  Saturated(o, branchingPoints, rows, disjunctions, x)
<1>1. PICK r, q, st, n, m, F : /\ r = rows /\ q = disjunctions /\ st = branchingPoints
                               /\ n = Len(r) /\ m = Len(q) /\ F = Prefix(r, n)
  BY Zenon
<1>2. r \in Seq(Row) /\ q \in Seq(Disjunction)
  BY <1>1, Zenon DEF Formed
<1>3. n \in Nat /\ m \in Nat /\ DOMAIN r = 1 .. n /\ DOMAIN q = 1 .. m
  BY <1>1, <1>2
<1>4. Facts = F
  BY <1>1, <1>3, Zenon DEF Facts, Prefix
<1>5. pending = <<>> /\ extensionThis = n /\ firstUnprocessed = m + 1
  <2>1. pc \notin {"load", "choice", "test"}
    OBVIOUS
  <2> QED
    BY <1>1, <2>1, Zenon DEF Complete, Stages
<1>6. x.choices = <<>> /\ x.new = n /\ x.this = n /\ x.disjunctions = m /\ x.unprocessed = m + 1
  BY <1>1, <1>5, PushedPoint, Zenon
<1>7. todo = {}
  BY Zenon DEF Sound, TodoMatched
<1>8. Consistent(F) /\ FactsKept(ABox) /\ MatchesKept /\ DisjunctionsKept
  BY <1>4, Zenon DEF Complete, Present
<1>9. {o.facts[i] : i \in DOMAIN o.facts} \subseteq F
  <2>1. pc \notin {"load", "test"}
    OBVIOUS
  <2>2. \A l \in ABox : l \in F
    BY <1>4, <1>8, <2>1, Zenon DEF FactsKept
  <2> QED
    BY <2>2, Zenon DEF ABox
<1>10. \A cl \in o.clauses : Matched(F, cl) => Handled(F, q, m, cl)
  <2>1. ~ \E e \in todo : TRUE
    BY <1>7, Zenon
  <2> QED
    BY <1>1, <1>4, <1>5, <1>8, <2>1, Zenon DEF MatchesKept
<1>11. \A g \in 1 .. m : Chosen(F, q[g].disjuncts)
  <2>1. DOMAIN pending = {} /\ 1 .. firstUnprocessed - 1 = 1 .. m
    BY <1>3, <1>5
  <2> QED
    BY <1>1, <1>4, <1>8, <2>1, Zenon DEF DisjunctionsKept
<1>12. \A i \in 1 .. m : Len(q[i].disjuncts) > 1
  BY <1>1, <1>3, Zenon DEF Sound, Branching
<1>13. \A i \in 1 .. n : r[i].lit.atom \notin FreshAtoms
  BY <1>1, <1>3, Zenon DEF RowsNotFresh
<1>14. \A M \in ModelsOf(o, {}) :
          /\ \A i \in 1 .. n : AllStand({}, st, M, r[i].deps) => Holds(M, r[i].lit)
          /\ \A i \in 1 .. m : AllStand({}, st, M, q[i].deps) => SomeHolds(M, q[i].disjuncts)
  BY <1>1, <1>3, Zenon DEF Sound, Justified
<1> QED
  BY <1>1, <1>6, <1>8, <1>9, <1>10, <1>11, <1>12, <1>13, <1>14, Zenon DEF Saturated

LEMMA ABoxSaturatedKeeps ==
    ASSUME TestInv, ABoxSaturated
    PROVE  TestInv'
<1>1. /\ phase = "abox" /\ pc = "done" /\ ~ContainsClash /\ phase' = "positive"
      /\ UNCHANGED <<ontology, table, disjunctions, firstUnprocessed, clash, todo, test, redone>>
  BY Zenon DEF ABoxSaturated
<1>2. /\ branchingPoints' = Append(branchingPoints, NewBranchingPoint(<<>>, 0, firstUnprocessed))
      /\ nonbacktrackable' = Level + 1 /\ checkpoint' = Level + 1 /\ aboxChoiceClash' = FALSE
      /\ saturated' = tableau
  BY Zenon DEF ABoxSaturated, PushABoxCheckpoint
<1>3. /\ Formed({}, nonbacktrackable) /\ StackRecordsPrefix /\ Driver /\ NotFresh /\ Running
  BY Zenon DEF TestInv, Standing
<1>4. PICK t \in test : AssertPositive(t)
  BY Zenon DEF ABoxSaturated
<1>5. HasNominals /\ nonbacktrackable = 0 /\ redone \in BOOLEAN /\ t \in Tests /\ test = {t}
      /\ ~redone
  BY <1>1, <1>3, <1>4, Zenon DEF Driver, Loads
<1>6. Sound(ModelsOf(ontology, {}), {}, 0) /\ Complete(ABox, 0)
  <2>1. Given(t) = {} /\ Supposed(t) = {}
    BY <1>1, Zenon DEF Given, Loads, Supposed
  <2>2. Required(t) = ABox
    BY <1>1, <1>5 DEF Required, Loads
  <2> QED
    BY <1>3, <1>5, <2>1, <2>2, Zenon DEF Running, Sought
<1>7. RowsNotFresh(rows)
  BY <1>1, <1>3, Zenon DEF NotFresh
<1>8. PICK o, x, r, q, st, st2, c : /\ o = ontology /\ x = NewBranchingPoint(<<>>, 0, firstUnprocessed)
                                    /\ r = rows /\ q = disjunctions /\ st = branchingPoints
                                    /\ st2 = branchingPoints' /\ c = Level + 1
  BY Zenon
<1>9. /\ x.choices = <<>> /\ x.old = extensionOld /\ x.this = extensionThis
      /\ x.new = Len(r) /\ x.disjunctions = Len(q) /\ x.unprocessed = firstUnprocessed
  BY <1>3, <1>8, PushedPoint, Zenon
<1>10. clash = {} /\ todo = {}
  BY <1>1, <1>6, Zenon DEF ContainsClash, Sound, TodoMatched
<1>11. /\ \A i \in DOMAIN r : r[i].deps \subseteq 1 .. Level
       /\ \A i \in DOMAIN q : q[i].deps \subseteq 1 .. Level
  BY <1>6, <1>8, LiveBelow, Zenon DEF Sound
<1>12. /\ Level \in Nat /\ Level' = c /\ st2[c] = x
       /\ \A k \in 1 .. Level : st2[k] = st[k]
       /\ Formed({}, nonbacktrackable)' /\ StackRecordsPrefix'
  <2>1. Pos(t.positive) \in Literal
    BY <1>5, TestLiterals, Zenon
  <2>2. pending' \in Seq(Literal) /\ pendingDeps' \in SUBSET Nat
    BY <1>4, <2>1 DEF AssertPositive
  <2> QED
    BY <1>1, <1>2, <1>3, <1>8, <1>11, <2>2, Pushed, Zenon
<1>13. c # 0 /\ c \in Nat /\ c - 1 = Level
  BY <1>8, <1>12
<1>14. Saturated(o, st, r, q, x)
  BY ZenonT(40), <1>1, <1>3, <1>6, <1>7, <1>8, SaturatedTable
<1>15. Saturated(o, st2, r, q, x)
  <2>1. r \in Seq(Row) /\ q \in Seq(Disjunction)
    BY <1>3, <1>8, Zenon DEF Formed
  <2>2. DOMAIN r = 1 .. x.new /\ DOMAIN q = 1 .. x.disjunctions
    BY <1>9, <2>1
  <2>3. /\ \A i \in 1 .. x.new : r[i] = r[i] /\ r[i].deps \subseteq 1 .. c - 1
        /\ \A i \in 1 .. x.disjunctions : q[i] = q[i] /\ q[i].deps \subseteq 1 .. c - 1
        /\ \A k \in 1 .. c - 1 : st2[k] = st[k]
    BY <1>11, <1>12, <1>13, <2>2, Zenon
  <2> QED
    BY <1>14, <2>3, SaturatedAgree
<1>16. /\ rows' = r /\ disjunctions' = q /\ ontology' = o /\ branchingPoints' = st2 /\ checkpoint' = c
       /\ extensionOld' = x.old /\ extensionThis' = x.this /\ firstUnprocessed' = x.unprocessed
       /\ todo' = {} /\ clash' = {} /\ nonbacktrackable' = c
  BY <1>1, <1>2, <1>8, <1>9, <1>10, Zenon DEF table
<1>17. Kept'
  <2>1. r \in Seq(Row) /\ q \in Seq(Disjunction)
    BY <1>3, <1>8, Zenon DEF Formed
  <2>2. SubSeq(r, 1, Len(r)) = r /\ SubSeq(q, 1, Len(q)) = q
    BY <2>1
  <2>3. saturated' = <<r, x.old, x.this, q, x.unprocessed>>
    BY <1>2, <1>8, <1>9, Zenon DEF tableau
  <2>4. saturated' = <<SubSeq(r, 1, x.new), x.old, x.this, SubSeq(q, 1, x.disjunctions), x.unprocessed>>
    BY <1>9, <2>2, <2>3, Zenon
  <2> QED
    BY <1>12, <1>15, <1>16, <2>4, Zenon DEF Kept
<1>18. Running' /\ TestsStartAlike' /\ TestFactsAbove' /\ Levels'
  <2>1. /\ checkpoint' # 0 /\ checkpoint' \in Nat /\ Level' = checkpoint' /\ nonbacktrackable' = checkpoint'
        /\ Len(rows') = branchingPoints'[checkpoint'].new
        /\ Len(disjunctions') = branchingPoints'[checkpoint'].disjunctions
        /\ extensionOld' = branchingPoints'[checkpoint'].old
        /\ extensionThis' = branchingPoints'[checkpoint'].this
        /\ firstUnprocessed' = branchingPoints'[checkpoint'].unprocessed
    BY <1>9, <1>12, <1>13, <1>16, Zenon
  <2>2. test' = {t} /\ ontology' = ontology
    BY <1>1, <1>5, Zenon
  <2> QED
    BY Zenon, <1>1, <1>4, <1>5, <1>12, <1>16, <1>17, <2>1, <2>2, CheckpointStarts
<1>19. Driver'
  <2>0. pc' = "test" /\ pending' = <<Pos(t.positive)>>
    BY <1>4, Zenon DEF AssertPositive
  <2>1. Len(pending') <= 1
    BY <2>0
  <2> QED
    BY <1>1, <1>2, <1>5, <2>0, <2>1, PositiveDriver, Zenon DEF HasNominals
<1>20. NotFresh'
  BY <1>1, Zenon DEF NotFresh
<1> QED
  BY <1>12, <1>17, <1>18, <1>19, <1>20, Zenon DEF TestInv, Standing


-----------------------------------------------------------------------------
(* A test has been answered: the tableau goes back to the cache as it is.  *)

LEMMA SameTable ==
    ASSUME StackRecordsPrefix, Levels, Kept,
           UNCHANGED <<ontology, rows, disjunctions, branchingPoints, nonbacktrackable, checkpoint, saturated>>,
           pc' # "test" \/ pc' = pc, phase' # "positive" \/ phase' = phase
    PROVE  StackRecordsPrefix' /\ Levels' /\ Kept'
<1>1. Level' = Level
  BY Zenon DEF Level
<1>2. StackRecordsPrefix'
  BY <1>1, Zenon DEF StackRecordsPrefix, RecordsPrefix
<1>3. Levels'
  BY <1>1, Zenon DEF Levels
<1>4. Kept'
  BY Zenon DEF Kept
<1> QED
  BY <1>2, <1>3, <1>4, Zenon

LEMMA AnsweredKeeps ==
    ASSUME TestInv, ABoxInconsistent \/ TestFinished \/ TestInterrupted \/ TestInterruptedInPass
    PROVE  TestInv'
<1>1. /\ phase # "idle" /\ phase' = "idle" /\ pc' = "done" /\ test' = {}
      /\ UNCHANGED <<ontology, rows, disjunctions, firstUnprocessed, branchingPoints, nonbacktrackable,
                     clash, pending, pendingDeps, checkpoint, aboxChoiceClash, redone, saturated>>
      /\ \/ UNCHANGED <<extensionOld, extensionThis, todo>> /\ pc # "apply"
         \/ extensionOld' = Len(rows) /\ extensionThis' = Len(rows) /\ todo' = {}
  <2>1. CASE ABoxInconsistent
    BY <2>1, Zenon DEF ABoxInconsistent, Answer, table, work
  <2>2. CASE TestFinished
    BY <2>2, Zenon DEF TestFinished, Answer, table, work
  <2>3. CASE TestInterrupted
    BY <2>3, Zenon DEF TestInterrupted, Answer, table, work
  <2>4. CASE TestInterruptedInPass
    BY <2>4, Zenon DEF TestInterruptedInPass, Answer
  <2> QED
    BY <2>1, <2>2, <2>3, <2>4, Zenon
<1>2. /\ Formed({}, nonbacktrackable) /\ StackRecordsPrefix /\ Driver /\ Levels /\ Kept /\ Running
  BY Zenon DEF TestInv, Standing
<1>3. PICK t : t \in test
  BY <1>1, <1>2, Zenon DEF Driver
<1>4. pc # "apply" => todo = {}
  BY <1>2, <1>3, Zenon DEF Running, Sound, TodoMatched
<1>5. todo' = {}
  BY <1>1, <1>4, Zenon
<1>6. Formed({}, nonbacktrackable)'
  <2>1. rows \in Seq(Row) /\ extensionThis \in 0 .. Len(rows) /\ extensionOld \in 0 .. extensionThis
    BY <1>2, Zenon DEF Formed
  <2>2. extensionThis' \in 0 .. Len(rows) /\ extensionOld' \in 0 .. extensionThis'
    BY <1>1, <2>1
  <2>3. todo' \in SUBSET (ontology.clauses \X (1 .. Len(rows)))
    BY <1>5, Zenon
  <2> QED
    BY <1>1, <1>2, <2>2, <2>3, Zenon DEF Formed, Obey
<1>7. StackRecordsPrefix' /\ Levels' /\ Kept'
  BY <1>1, <1>2, SameTable, Zenon
<1>8. Driver'
  BY <1>1, <1>2, <1>5, Zenon DEF Driver, Loads, Control, HasNominals
<1>9. NotFresh' /\ TestFactsAbove' /\ TestsStartAlike' /\ Running'
  BY <1>1, Zenon DEF NotFresh, TestFactsAbove, TestsStartAlike, Running
<1> QED
  BY <1>6, <1>7, <1>8, <1>9, Zenon DEF TestInv, Standing

\* The ABox is loaded again, for the test to saturate.
LEMMA ReloadKeeps ==
    ASSUME TestInv, ABoxInterrupted \/ Redo
    PROVE  TestInv'
<1>1. /\ phase # "idle" /\ Clear /\ LoadABox /\ phase' \in {"reload", "redo"} /\ ontology' = ontology
      /\ test' = test /\ (redone' = redone \/ redone' = TRUE)
      /\ phase = "abox" \/ aboxChoiceClash
  BY Zenon DEF ABoxInterrupted, Redo
<1>2. Driver
  BY Zenon DEF TestInv, Standing
<1>3. HasNominals /\ test' # {} /\ redone' \in BOOLEAN /\ \E t \in Tests : test' = {t}
  BY <1>1, <1>2, Zenon DEF Driver, Loads
<1>4. phase' \in Loads /\ phase' # "abox"
  BY <1>1 DEF Loads
<1> QED
  BY <1>1, <1>3, <1>4, LoadKeeps


-----------------------------------------------------------------------------
(* The facts asserted so far are in, and the test asserts its next ones.   *)

\* To the interpretations Ms the stack below nb0 stands for no less than it did.
StandsBelow(Ms, N0, N, nb0) ==
    \A M \in Ms : \A k \in 1 .. nb0 :
        Stands(N, branchingPoints', M, k) => Stands(N0, branchingPoints, M, k)

\* What the table must hold of Rs beside R0 is about to be asserted.
Asserts(R0, Rs) == \A l \in Rs : l \in R0 \/ \E p \in DOMAIN pending' : pending'[p] = l

LEMMA Resumes ==
    ASSUME NEW M0, NEW N0, NEW R0, NEW nb0 \in Nat, Sound(M0, N0, nb0), Complete(R0, nb0),
           NEW Ms, NEW N, NEW Rs, NEW nb \in Nat, nb0 <= nb, Level = nb0, Level' = nb,
           pc \in {"load", "test"}, pc' = "test", pending = <<>>,
           UNCHANGED <<ontology, table, disjunctions, firstUnprocessed, clash, todo>>,
           Formed({}, nb)', StackRecordsPrefix', Ms \subseteq M0, Obey(Ms, ontology),
           StandsBelow(Ms, N0, N, nb0), PendingJustified(Ms, N)', pendingDeps' \subseteq 1 .. nb, Asserts(R0, Rs)
    PROVE  Sound(Ms, N, nb)' /\ Complete(Rs, nb)'
<1>1. PICK r, q, st, st2 : r = rows /\ q = disjunctions /\ st = branchingPoints /\ st2 = branchingPoints'
  BY Zenon
<1>2. /\ rows' = r /\ disjunctions' = q /\ clash' = clash /\ ontology' = ontology /\ todo' = todo
      /\ extensionThis' = extensionThis /\ firstUnprocessed' = firstUnprocessed
  BY <1>1, Zenon DEF table
<1>3. /\ Branching(nb0) /\ AllGrounded(M0, N0, nb0) /\ Justified(M0, N0) /\ TodoMatched
  BY Zenon DEF Sound
<1>4. todo' = {}
  <2>1. pc # "apply"
    OBVIOUS
  <2> QED
    BY <1>2, <1>3, <2>1, Zenon DEF TodoMatched
<1>5. Formed(Ms, nb)'
  BY <1>2, Zenon DEF Formed
<1>6. \A i \in DOMAIN disjunctions' : Len(disjunctions'[i].disjuncts) > 1
  BY <1>1, <1>2, <1>3, Zenon DEF Branching
<1>7. /\ \A i \in DOMAIN r : r[i].deps \subseteq 1 .. nb0
      /\ \A i \in DOMAIN q : q[i].deps \subseteq 1 .. nb0
      /\ \A d \in clash : d \subseteq 1 .. nb0
  BY <1>1, <1>3, LiveBelow, Zenon
<1>8. \A deps \in LiveDeps' : deps \subseteq 1 .. nb
  <2>1. \A d : d \subseteq 1 .. nb0 => d \subseteq 1 .. nb
    BY Shorter, ZenonT(40)
  <2>2. \A deps \in LiveDeps' : \/ \E i \in DOMAIN r : deps = r[i].deps
                                \/ \E i \in DOMAIN q : deps = q[i].deps
                                \/ deps \in clash \/ deps = pendingDeps'
    BY <1>2 DEF LiveDeps
  <2>3. /\ \A i \in DOMAIN r : r[i].deps \subseteq 1 .. nb
        /\ \A i \in DOMAIN q : q[i].deps \subseteq 1 .. nb
        /\ \A d \in clash : d \subseteq 1 .. nb
    BY <1>7, <2>1, Zenon
  <2> SUFFICES ASSUME NEW deps \in LiveDeps'
               PROVE  deps \subseteq 1 .. nb
    BY Zenon
  <2>4. CASE \E i \in DOMAIN r : deps = r[i].deps
    BY <2>3, <2>4, Zenon
  <2>5. CASE \E i \in DOMAIN q : deps = q[i].deps
    BY <2>3, <2>5, Zenon
  <2>6. CASE deps \in clash \/ deps = pendingDeps'
    BY <2>3, <2>6, Zenon
  <2> QED
    BY <2>2, <2>4, <2>5, <2>6, Zenon
<1>9. \A M \in Ms : \A deps : deps \subseteq 1 .. nb0 => (AllStand(N, st2, M, deps) => AllStand(N0, st, M, deps))
  BY <1>1, Zenon DEF AllStand, StandsBelow
<1>10. Justified(Ms, N)'
  BY <1>1, <1>2, <1>3, <1>7, <1>9, Zenon DEF Justified
<1>12. Sound(Ms, N, nb)'
  <2>1. pc' \in {"load", "test"} /\ (pc' = "load" => branchingPoints' = <<>>)
    OBVIOUS
  <2> QED
    BY Zenon, <1>4, <1>5, <1>6, <1>8, <1>10, <2>1, StartSound
<1>13. DOMAIN pending = {}
  OBVIOUS
<1>14. Facts' = Facts
  BY <1>1, <1>2, Zenon DEF Facts
<1>15. ASSUME ~ContainsClash
       PROVE  /\ Consistent(Facts) /\ FactsKept(R0) /\ MatchesKept /\ DisjunctionsKept
  BY <1>15, Zenon DEF Complete, Present
<1>16. Present(Rs)'
  <2> SUFFICES ASSUME ~ContainsClash
               PROVE  Consistent(Facts)' /\ FactsKept(Rs)' /\ MatchesKept' /\ DisjunctionsKept'
    BY <1>2, Zenon DEF Present, ContainsClash
  <2>1. Consistent(Facts)'
    BY <1>14, <1>15, Zenon DEF Consistent
  <2>2. FactsKept(Rs)'
    <3>1. pc' \in {"load", "test"}
      OBVIOUS
    <3>2. \A l \in R0 : l \in Facts
      BY <1>13, <1>15, Zenon DEF FactsKept
    <3> QED
      BY <1>14, <3>1, <3>2, Zenon DEF FactsKept, Asserts
  <2>3. MatchesKept'
    BY <1>1, <1>2, <1>14, <1>15, Zenon DEF MatchesKept
  <2>4. DisjunctionsKept'
    BY <1>1, <1>2, <1>13, <1>14, <1>15, Zenon DEF DisjunctionsKept
  <2> QED
    BY <2>1, <2>2, <2>3, <2>4, Zenon
<1>17. Complete(Rs, nb)'
  <2>1. pc' \in {"load", "test"}
    OBVIOUS
  <2> QED
    BY Zenon, <1>16, <2>1, StartComplete
<1> QED
  BY <1>12, <1>17, Zenon

\* The test begins on an ABox that it has still to saturate.
LEMMA ReloadedKeeps ==
    ASSUME TestInv, Reloaded
    PROVE  TestInv'
<1>1. /\ phase \in {"reload", "redo"} /\ pc = "load" /\ pending = <<>> /\ phase' = "positive"
      /\ UNCHANGED <<ontology, table, disjunctions, firstUnprocessed, branchingPoints,
                     nonbacktrackable, clash, todo>>
      /\ UNCHANGED <<checkpoint, aboxChoiceClash, test, redone, saturated>>
  BY Zenon DEF Reloaded, driver
<1>2. PICK t \in test : AssertPositive(t)
  BY Zenon DEF Reloaded
<1>3. /\ Formed({}, nonbacktrackable) /\ StackRecordsPrefix /\ Driver /\ Levels /\ Kept /\ Running
  BY Zenon DEF TestInv, Standing
<1>4. phase \in Loads /\ phase # "running"
  BY <1>1 DEF Loads
<1>5. /\ HasNominals /\ nonbacktrackable = 0 /\ checkpoint = 0 /\ redone \in BOOLEAN /\ t \in Tests
      /\ test = {t} /\ aboxChoiceClash = FALSE
  BY <1>2, <1>3, <1>4, Zenon DEF Driver
<1>6. Sound(ModelsOf(ontology, {}), {}, 0) /\ Complete(ABox, 0)
  <2>1. Given(t) = {} /\ Supposed(t) = {}
    BY <1>4, Zenon DEF Given, Supposed
  <2>2. Required(t) = ABox
    BY <1>4, <1>5 DEF Required
  <2> QED
    BY <1>3, <1>5, <2>1, <2>2, Zenon DEF Running, Sought
<1>7. branchingPoints = <<>>
  BY <1>1, <1>6, Zenon DEF Sound, Phases
<1>8. Level = 0 /\ Level' = 0
  BY <1>1, <1>7 DEF Level
<1>9. PICK Ms, Rs, l : /\ Ms = ModelsOf(ontology, {Pos(t.positive)}) /\ Rs = ABox \cup {Pos(t.positive)}
                       /\ l = Pos(t.positive)
  BY Zenon
<1>20. PICK M0, R0 : M0 = ModelsOf(ontology, {}) /\ R0 = ABox
  BY Zenon
<1>10. l \in Literal /\ l.atom \in FreshAtoms
  BY <1>5, <1>9, TestLiterals, Zenon DEF Pos
<1>11. pc' = "test" /\ pending' = <<l>> /\ pendingDeps' = {}
  BY <1>2, <1>9, Zenon DEF AssertPositive
<1>12. DOMAIN pending' = {1} /\ pending'[1] = l /\ Len(pending') <= 1 /\ pending' \in Seq(Literal)
  BY <1>10, <1>11
<1>13. StackRecordsPrefix' /\ Kept' /\ Levels'
  <2>1. StackRecordsPrefix' /\ Kept'
    BY <1>1, <1>3, <1>5, <1>8 DEF StackRecordsPrefix, Kept
  <2> QED
    BY <1>1, <1>5, <1>7, <2>1, ClearLevels, Zenon
<1>14. Formed({}, 0)'
  <2>1. pendingDeps' \in SUBSET Nat
    BY Zenon, <1>11
  <2> QED
    BY <1>1, <1>3, <1>5, <1>12, <2>1, Zenon DEF Formed, table, Obey
<1>15. Sound(Ms, {}, 0)' /\ Complete(Rs, 0)'
  <2>1. Ms \subseteq M0 /\ Obey(Ms, ontology) /\ Sound(M0, {}, 0) /\ Complete(R0, 0)
    BY <1>6, <1>9, <1>20, FewerModels, Zenon
  <2>2. StandsBelow(Ms, {}, {}, 0)
    BY <1>1, Zenon DEF StandsBelow
  <2>3. PendingJustified(Ms, {})'
    BY <1>9, <1>12, Zenon DEF ModelsOf, PendingJustified
  <2>4. pendingDeps' \subseteq 1 .. 0 /\ pc \in {"load", "test"} /\ 0 <= 0 /\ 0 \in Nat
    BY <1>1, <1>11
  <2>5. Asserts(R0, Rs)
    BY <1>9, <1>12, <1>20, Zenon DEF Asserts
  <2>6. UNCHANGED <<ontology, table, disjunctions, firstUnprocessed, clash, todo>>
    BY <1>1, Zenon
  <2> QED
    BY Zenon, <1>1, <1>8, <1>11, <1>13, <1>14, <2>1, <2>2, <2>3, <2>4, <2>5, <2>6, Resumes
<1>16. Running'
  <2>1. Rs = (IF HasNominals THEN ABox ELSE {}) \cup {Pos(t.positive)}
    BY <1>5, <1>9
  <2>2. test' = {t} /\ nonbacktrackable' = 0 /\ ontology' = ontology /\ phase' = "positive"
    BY <1>1, <1>5, Zenon
  <2> QED
    BY Zenon, <1>9, <1>15, <2>1, <2>2, PositiveRuns
<1>17. Driver'
  <2>1. redone' \in BOOLEAN /\ checkpoint' = 0 /\ aboxChoiceClash' = FALSE /\ test' = {t}
    BY <1>1, <1>5, Zenon
  <2> QED
    BY <1>1, <1>5, <1>11, <1>12, <2>1, PositiveDriver, Zenon
<1>18. NotFresh' /\ TestsStartAlike'
  BY <1>1, <1>5, Zenon DEF NotFresh, TestsStartAlike
<1>19. TestFactsAbove'
  <2>1. /\ \A i \in DOMAIN rows : rows[i].deps \subseteq 1 .. 0
        /\ \A d \in clash : d \subseteq 1 .. 0
    BY <1>6, <1>8, Zenon DEF Sound, AllGrounded, Grounded, LiveDeps, Level
  <2>2. \A d : d \subseteq 1 .. 0 => Above(d)'
    BY DEF Above
  <2>3. \A i \in DOMAIN rows' : Above(rows[i].deps)'
    BY <1>1, <2>1, <2>2, Zenon DEF table
  <2>4. /\ \A d \in clash' : Above(d)'
        /\ \A i \in DOMAIN pending' : pending'[i].atom \in FreshAtoms
        /\ Above(pendingDeps)'
    BY <1>1, <1>10, <1>11, <1>12, <2>1, <2>2, <2>3, Zenon DEF Above
  <2> QED
    BY <1>1, <2>3, <2>4, Zenon DEF TestFactsAbove
<1> QED
  BY <1>5, <1>1, <1>13, <1>14, <1>16, <1>17, <1>18, <1>19, Zenon DEF TestInv, Standing


\* The stack on which a test asserts its negations: as it was, or with the dummy
\* they depend on.
LEMMA NegativesStack ==
    ASSUME NEW t \in Tests, Formed({}, nonbacktrackable), StackRecordsPrefix,
           \A i \in DOMAIN rows : rows[i].deps \subseteq 1 .. Level,
           \A i \in DOMAIN disjunctions : disjunctions[i].deps \subseteq 1 .. Level,
           NEW c, c = Level, nonbacktrackable = c, pending' = [i \in DOMAIN t.negatives |-> Neg(t.negatives[i])],
           IF t.dummy THEN PushDummy
           ELSE pendingDeps' = {} /\ UNCHANGED <<branchingPoints, nonbacktrackable>>,
           UNCHANGED <<ontology, table, disjunctions, firstUnprocessed, clash, todo>>
    PROVE  /\ c \in Nat /\ Formed({}, nonbacktrackable)' /\ StackRecordsPrefix'
           /\ nonbacktrackable' \in Nat /\ c <= nonbacktrackable' /\ Level' = nonbacktrackable'
           /\ \A k \in 1 .. c : branchingPoints'[k] = branchingPoints[k]
           /\ \A k \in c + 1 .. nonbacktrackable' : branchingPoints'[k].choices = <<>>
           /\ pendingDeps' \subseteq c + 1 .. nonbacktrackable'
           /\ t.dummy => \E k \in pendingDeps' : TRUE
<1>1. /\ pending' \in Seq(Literal) /\ t.dummy \in BOOLEAN
  BY TestLiterals, ZenonT(40)
<1>2. c \in Nat
  BY DEF Formed
<1>3. CASE t.dummy
  <2>1. PICK x : x = NewBranchingPoint(<<>>, 0, firstUnprocessed)
    BY Zenon
  <2>2. /\ branchingPoints' = Append(branchingPoints, x) /\ nonbacktrackable' = c + 1 /\ pendingDeps' = {c + 1}
    BY <1>3, <2>1, Zenon DEF PushDummy
  <2>3. pendingDeps' \in SUBSET Nat
    BY <1>2, <2>2
  <2>4. /\ Level' = c + 1 /\ branchingPoints'[c + 1] = x
        /\ \A k \in 1 .. c : branchingPoints'[k] = branchingPoints[k]
        /\ Formed({}, nonbacktrackable)' /\ StackRecordsPrefix'
    BY <1>1, <2>1, <2>2, <2>3, Pushed, Zenon
  <2>5. x.choices = <<>>
    BY <2>1, PushedPoint, Zenon
  <2>6. /\ c + 1 \in Nat /\ c <= c + 1 /\ {c + 1} \subseteq c + 1 .. c + 1
        /\ \A k \in c + 1 .. c + 1 : k = c + 1
    BY <1>2
  <2> QED
    BY <1>2, <2>2, <2>4, <2>5, <2>6, Zenon
<1>4. CASE ~t.dummy
  <2>1. pendingDeps' = {} /\ branchingPoints' = branchingPoints /\ nonbacktrackable' = c
    BY <1>4, Zenon
  <2>2. Level' = c
    BY <2>1, Zenon DEF Level
  <2>3. StackRecordsPrefix'
    BY <2>1, <2>2, ZenonT(40) DEF StackRecordsPrefix, RecordsPrefix, table
  <2>4. {} \in SUBSET Nat
    BY Zenon
  <2>5. Formed({}, nonbacktrackable)'
    BY <1>1, <2>1, <2>4, Zenon DEF Formed, Obey, table
  <2>6. c <= c /\ \A k \in c + 1 .. c : FALSE
    BY <1>2
  <2> QED
    BY <1>2, <1>4, <2>1, <2>2, <2>3, <2>5, <2>6, Zenon
<1> QED
  BY <1>3, <1>4, Zenon

\* The negations are about to be asserted.
LEMMA AssertNegativesKeeps ==
    ASSUME TestInv, AssertNegatives
    PROVE  TestInv'
<1>1. /\ phase = "positive" /\ pending = <<>> /\ phase' = "running"
      /\ UNCHANGED <<ontology, table, disjunctions, firstUnprocessed, clash, todo>>
      /\ UNCHANGED <<checkpoint, aboxChoiceClash, test, redone, saturated, pc>>
  BY Zenon DEF AssertNegatives, driver
<1>2. PICK t \in test :
         /\ pending' = [i \in DOMAIN t.negatives |-> Neg(t.negatives[i])]
         /\ IF t.dummy THEN PushDummy
            ELSE pendingDeps' = {} /\ UNCHANGED <<branchingPoints, nonbacktrackable>>
  BY Zenon DEF AssertNegatives
<1>3. /\ Formed({}, nonbacktrackable) /\ StackRecordsPrefix /\ Driver /\ Levels /\ Kept /\ TestFactsAbove /\ Running
  BY Zenon DEF TestInv, Standing
<1>4. pc = "test" /\ pc' = "test" /\ t \in Tests /\ test = {t}
  <2>1. t \in test
    BY <1>2, Zenon
  <2>2. pc = "test" /\ \E u \in Tests : test = {u}
    BY <1>1, <1>3, <2>1, Zenon DEF Driver
  <2> QED
    BY <1>1, <2>1, <2>2, Zenon
<1>5. PICK c, st, st2, nb : c = Level /\ st = branchingPoints /\ st2 = branchingPoints' /\ nb = nonbacktrackable'
  BY Zenon
<1>6. nonbacktrackable = c /\ checkpoint = c /\ checkpoint' = c
  BY <1>1, <1>3, <1>4, <1>5, Zenon DEF Levels
<1>7. PICK M0, R0, Ms, N, Rs : /\ M0 = ModelsOf(ontology, {Pos(t.positive)})
                               /\ R0 = (IF HasNominals THEN ABox ELSE {}) \cup {Pos(t.positive)}
                               /\ Ms = ModelsOf(ontology, IF t.dummy THEN {Pos(t.positive)} ELSE TestFacts(t))
                               /\ N = NegativesOf(t)
                               /\ Rs = (IF HasNominals THEN ABox ELSE {}) \cup TestFacts(t)
  BY Zenon
<1>8. Sound(M0, {}, c) /\ Complete(R0, c)
  <2>1. Given(t) = {Pos(t.positive)} /\ Supposed(t) = {} /\ Required(t) = R0
    BY <1>1, <1>7 DEF Given, Supposed, Required, Loads
  <2> QED
    BY <1>3, <1>4, <1>6, <1>7, <2>1, ZenonT(40) DEF Running, Sought
<1>9. /\ \A i \in DOMAIN rows : rows[i].deps \subseteq 1 .. Level
      /\ \A i \in DOMAIN disjunctions : disjunctions[i].deps \subseteq 1 .. Level
  BY <1>8, LiveBelow, Zenon DEF Sound
<1>10. /\ c \in Nat /\ Formed({}, nonbacktrackable)' /\ StackRecordsPrefix'
       /\ nb \in Nat /\ c <= nb /\ Level' = nb
       /\ \A k \in 1 .. c : st2[k] = st[k]
       /\ \A k \in c + 1 .. nb : st2[k].choices = <<>>
       /\ pendingDeps' \subseteq c + 1 .. nb
       /\ t.dummy => \E k \in pendingDeps' : TRUE
  BY ZenonT(40), <1>1, <1>2, <1>3, <1>4, <1>5, <1>6, <1>9, NegativesStack
<1>11. /\ DOMAIN pending' = DOMAIN t.negatives
       /\ \A i \in DOMAIN pending' : pending'[i] = Neg(t.negatives[i])
  BY <1>2
<1>12. /\ TestFacts(t) = {Pos(t.positive)} \cup N /\ t.dummy \in BOOLEAN
       /\ \A i \in DOMAIN t.negatives : t.negatives[i] \in FreshAtoms
  BY <1>4, <1>7, TestLiterals, ZenonT(40)
<1>13. \A i \in DOMAIN pending' : pending'[i] \in N /\ pending'[i].atom \in FreshAtoms
  <2>1. \A a : Neg(a).atom = a
    BY Zenon DEF Neg
  <2>2. \A i \in DOMAIN t.negatives : Neg(t.negatives[i]) \in N
    BY <1>7, Zenon DEF NegativesOf
  <2> QED
    BY <1>11, <1>12, <2>1, <2>2
<1>14. Ms \subseteq M0 /\ Obey(Ms, ontology)
  <2>1. {Pos(t.positive)} \subseteq (IF t.dummy THEN {Pos(t.positive)} ELSE TestFacts(t))
    BY <1>12
  <2> QED
    BY <1>7, <2>1, FewerModels, Zenon
<1>15. StandsBelow(Ms, {}, N, c)
  BY <1>5, <1>10, Zenon DEF StandsBelow, Stands, ChoiceHolds
<1>16. PendingJustified(Ms, N)'
  <2> SUFFICES ASSUME NEW M \in Ms, NEW i \in DOMAIN pending', AllStand(N, st2, M, pendingDeps')
               PROVE  Holds(M, pending'[i])
    BY <1>5, Zenon DEF PendingJustified
  <2>1. CASE t.dummy
    BY <1>10, <1>13, <2>1, Zenon DEF AllStand, Stands
  <2>2. CASE ~t.dummy
    <3>1. \A l \in TestFacts(t) : Holds(M, l)
      BY Zenon, <1>7, <2>2 DEF ModelsOf
    <3> QED
      BY <1>12, <1>13, <3>1, ZenonT(40)
  <2> QED
    BY <2>1, <2>2, Zenon
<1>17. Asserts(R0, Rs)
  <2>1. \A l \in N : \E p \in DOMAIN pending' : pending'[p] = l
    BY <1>7, <1>11, Zenon DEF NegativesOf
  <2>2. \A l \in Rs : l \in R0 \/ l \in N
    BY Zenon, <1>7, <1>12
  <2> QED
    BY <2>1, <2>2, Zenon DEF Asserts
<1>18. Sound(Ms, N, nb)' /\ Complete(Rs, nb)'
  <2>1. Level = c /\ Level' = nb /\ pc \in {"load", "test"}
    BY <1>4, <1>5, <1>10
  <2>2. pendingDeps' \subseteq 1 .. nb /\ Formed({}, nb)'
    <3>1. c + 1 .. nb \subseteq 1 .. nb
      BY <1>10
    <3> QED
      BY <1>5, <1>10, <3>1, Zenon
  <2> QED
    BY ZenonT(40), <1>1, <1>4, <1>8, <1>10, <1>14, <1>15, <1>16, <1>17, <2>1, <2>2, Resumes
<1>19. Running'
  <2> SUFFICES ASSUME NEW u \in test'
               PROVE  /\ Sound(Sought(u), Supposed(u), nonbacktrackable)'
                      /\ Complete(Required(u), nonbacktrackable)'
    BY Zenon DEF Running
  <2>1. u = t /\ ontology' = ontology /\ phase' = "running" /\ nonbacktrackable' = nb
    BY Zenon, <1>1, <1>4, <1>5
  <2>2. Sought(u)' = Ms
    BY Zenon, <1>7, <2>1 DEF Sought, Given, Loads
  <2>3. Supposed(u)' = N /\ Required(u)' = Rs
    BY Zenon, <1>7, <2>1 DEF Supposed, Required, Loads, HasNominals, ABox
  <2> QED
    BY Zenon, <1>18, <2>1, <2>2, <2>3
<1>20. Driver'
  BY <1>1, <1>3, <1>4, Zenon DEF Driver, Loads, HasNominals
<1>21. Levels'
  <2>1. c \in 0 .. nb /\ nb \in 0 .. nb
    BY <1>10
  <2>2. checkpoint' = c /\ nonbacktrackable' = nb /\ Level' = nb /\ branchingPoints' = st2
    BY <1>5, <1>6, <1>10, Zenon
  <2> QED
    BY <1>1, <1>10, <2>1, <2>2, Zenon DEF Levels
<1>22. Kept'
  <2>1. CASE c = 0
    BY <1>6, <2>1, Zenon DEF Kept
  <2>2. CASE c # 0
    <3>1. Extended(rows, rows) /\ Extended(disjunctions, disjunctions)
      BY <1>3, SameExtended DEF Formed
    <3>2. Grows
      BY <1>1, <1>5, <1>10, <3>1, ZenonT(40) DEF Grows, Extended, table, Level
    <3>3. checkpoint # 0 /\ checkpoint \in 1 .. Level
      BY <1>5, <1>6, <1>10, <2>2
    <3>4. UnchangedBelow(checkpoint)
      BY <1>3, <3>2, <3>3, GrowsKeeps, Zenon
    <3>5. UNCHANGED <<ontology, checkpoint, saturated>>
      BY <1>1, Zenon
    <3> QED
      BY ZenonT(40), <1>3, <1>10, <3>3, <3>4, <3>5, KeptAgree
  <2> QED
    BY <2>1, <2>2, Zenon
<1>23. NotFresh' /\ TestsStartAlike'
  BY <1>1, Zenon DEF NotFresh, TestsStartAlike
<1>24. TestFactsAbove'
  <2>1. /\ \A i \in DOMAIN rows' : rows'[i].lit.atom \in FreshAtoms => Above(rows[i].deps)'
        /\ \A d \in clash' : Above(d)'
    BY <1>1, <1>3, <1>4, Zenon DEF TestFactsAbove, Above, table
  <2>2. Above(pendingDeps)'
    <3>1. \A j \in c + 1 .. nb : j > c
      BY <1>10
    <3> QED
      BY <1>6, <1>10, <3>1, Zenon DEF Above
  <2> QED
    BY <1>4, <1>13, <2>1, <2>2, Zenon DEF TestFactsAbove
<1> QED
  BY <1>10, <1>19, <1>20, <1>21, <1>22, <1>23, <1>24, Zenon DEF TestInv, Standing


-----------------------------------------------------------------------------
(* The steps that assert facts and run the calculus: what they leave of    *)
(* the invariant that holds between tests.  That the calculus keeps its    *)
(* own part is shown in module TestTableauProofs.                          *)

\* run_calculus is called on the facts asserted.
LEMMA RunCalculusKeeps ==
    ASSUME TestInv, RunCalculus
    PROVE  TestInv'
<1>1. /\ pc \in {"load", "test"} /\ pc' = "iterate" /\ pending = <<>> /\ phase \in {"abox", "running"}
      /\ UNCHANGED <<ontology, rows, extensionOld, extensionThis, disjunctions, firstUnprocessed,
                     branchingPoints, nonbacktrackable, clash, todo, pending, pendingDeps>>
      /\ UNCHANGED <<phase, checkpoint, aboxChoiceClash, test, redone, saturated>>
  BY Zenon DEF RunCalculus, table, work, driver
<1>2. /\ Formed({}, nonbacktrackable) /\ StackRecordsPrefix /\ Driver /\ Levels /\ Kept /\ NotFresh /\ Running
  BY Zenon DEF TestInv, Standing
<1>3. StackRecordsPrefix' /\ Levels' /\ Kept'
  BY <1>1, <1>2, SameTable, Zenon
<1>4. \A Ms, nb : Formed(Ms, nb) => Formed(Ms, nb)'
  BY <1>1, Zenon DEF Formed, Obey
<1>5. Driver'
  BY <1>1, <1>2, Zenon DEF Driver, Loads, Control, HasNominals
<1>6. NotFresh' /\ TestFactsAbove' /\ TestsStartAlike'
  BY <1>1, <1>2, Zenon DEF NotFresh, TestFactsAbove, TestsStartAlike
<1>7. \A Ms, N, nb : Sound(Ms, N, nb) => Sound(Ms, N, nb)'
  <2> SUFFICES ASSUME NEW Ms, NEW N, NEW nb, Sound(Ms, N, nb)
               PROVE  Sound(Ms, N, nb)'
    BY Zenon
  <2>1. Branching(nb)' /\ Justified(Ms, N)' /\ PendingJustified(Ms, N)'
    BY <1>1, Zenon DEF Sound, Branching, Justified, PendingJustified, Level
  <2>2. AllGrounded(Ms, N, nb)'
    BY <1>1, Zenon DEF Sound, AllGrounded, LiveDeps
  <2>3. pc # "apply"
    BY <1>1
  <2>4. TodoMatched' /\ Phases(nb)'
    BY <1>1, <2>3, Zenon DEF Sound, TodoMatched, Phases
  <2> QED
    BY <1>3, <1>4, <2>1, <2>2, <2>4, Zenon DEF Sound
<1>8. \A Rs, nb : Complete(Rs, nb) => Complete(Rs, nb)'
  <2> SUFFICES ASSUME NEW Rs, NEW nb, Complete(Rs, nb)
               PROVE  Complete(Rs, nb)'
    BY Zenon
  <2>0. Facts' = Facts /\ Level' = Level /\ ContainsClash' = ContainsClash
    BY <1>1, Zenon DEF Facts, Level, ContainsClash
  <2>1. AllRecorded(Rs, nb)'
    BY <1>1, <2>0, Zenon DEF Complete, AllRecorded
  <2>6. MatchesKept => MatchesKept'
    BY <1>1, <2>0, Zenon DEF MatchesKept
  <2>7. DisjunctionsKept => DisjunctionsKept'
    BY <1>1, <2>0, ZenonT(40) DEF DisjunctionsKept
  <2>2. DOMAIN pending = {}
    BY <1>1
  <2>3. FactsKept(Rs) => FactsKept(Rs)'
    BY <2>0, <2>2, Zenon DEF FactsKept
  <2>4. Present(Rs)'
    BY <2>0, <2>3, <2>6, <2>7, Zenon DEF Complete, Present, Consistent
  <2>5. Stages'
    BY <1>1 DEF Stages
  <2> QED
    BY <2>1, <2>4, <2>5, Zenon DEF Complete
<1>9. Running'
  <2> SUFFICES ASSUME NEW t \in test
               PROVE  /\ Sound(Sought(t), Supposed(t), nonbacktrackable)'
                      /\ Complete(Required(t), nonbacktrackable)'
    BY <1>1, Zenon DEF Running
  <2>1. PICK Ms, N, Rs, nb : Ms = Sought(t) /\ N = Supposed(t) /\ Rs = Required(t) /\ nb = nonbacktrackable
    BY Zenon
  <2>2. Sought(t)' = Ms /\ Supposed(t)' = N /\ Required(t)' = Rs /\ nonbacktrackable' = nb
    BY <1>1, <2>1, Zenon DEF Sought, Given, Supposed, Required, HasNominals, ABox
  <2>3. Sound(Ms, N, nb)' /\ Complete(Rs, nb)'
    BY <1>2, <1>7, <1>8, <2>1, Zenon DEF Running
  <2> QED
    BY <2>2, <2>3, Zenon
<1> QED
  BY <1>1, <1>2, <1>3, <1>4, <1>5, <1>6, <1>9, Zenon DEF TestInv, Standing


\* An ABox being loaded for a test to saturate.
LEMMA LoadingStanding ==
    ASSUME TestInv, Loading, Formed({}, nonbacktrackable)', StackRecordsPrefix'
    PROVE  Standing'
<1>1. /\ phase \in {"reload", "redo"} /\ pc' = pc /\ todo' = todo
      /\ UNCHANGED <<phase, checkpoint, aboxChoiceClash, test, redone, saturated>>
  BY Zenon DEF Loading, AssertPending, driver
<1>2. Standing /\ Driver /\ Formed({}, nonbacktrackable) /\ StackRecordsPrefix
  BY Zenon DEF TestInv, Standing
<1>3. pc' = "load" /\ pc' # "test" /\ phase # "running" /\ phase # "positive" /\ phase # "abox"
  BY <1>1, <1>2, Zenon DEF Driver
<1>4. Grows /\ nonbacktrackable' = nonbacktrackable /\ ontology' = ontology
  BY <1>2, CalculatingGrows, Zenon
<1>5. \A c \in 1 .. nonbacktrackable : UnchangedBelow(c)
  BY <1>2, <1>4, GrowsBelow, Zenon
<1>6. Levels' /\ Kept'
  BY <1>1, <1>2, <1>3, <1>4, <1>5, StepKeeps, Zenon
<1>7. Driver'
  BY <1>1, <1>2, <1>3, <1>4, Zenon DEF Driver, Loads, HasNominals
<1>8. NotFresh' /\ TestFactsAbove' /\ TestsStartAlike'
  BY <1>1, <1>3, Zenon DEF NotFresh, TestFactsAbove, TestsStartAlike
<1> QED
  BY <1>6, <1>7, <1>8, Zenon DEF Standing

\* A run of the calculus ends without a clash, or by backtracking.
LEMMA CalculatingControl ==
    ASSUME NEW nb, Phases(nb), Calculating
    PROVE  /\ pc' \in Control /\ pc' # "test" /\ (pc' = "load" => pc = "load")
           /\ pc' = "done" => clash' = {}
<1>1. CASE AssertPending
  BY <1>1 DEF AssertPending, Control
<1>2. CASE pc = "choice" /\ Asserted
  BY ZenonT(40), <1>2 DEF Asserted, Control
<1>3. CASE PropagateDeltaNew
  BY <1>3 DEF PropagateDeltaNew, Control
<1>4. CASE DeriveClash \/ DeriveFact \/ DeriveDisjunction
  <2>1. pc = "apply" /\ pc' = pc
    BY <1>4, Zenon DEF DeriveClash, DeriveFact, DeriveDisjunction, Fire
  <2> QED
    BY <2>1 DEF Control
<1>5. CASE PassFinished
  BY <1>5 DEF PassFinished, Control
<1>6. CASE ProcessFirstGroundDisjunction
  <2>1. pc = "choose" /\ (pc' = "iterate" \/ (pc' = "done" /\ clash' = clash))
    BY <1>6, Zenon DEF ProcessFirstGroundDisjunction, ProcessGroundDisjunction
  <2>2. clash = {}
    BY <2>1, Zenon DEF Phases, ContainsClash
  <2> QED
    BY <2>1, <2>2 DEF Control
<1> QED
  BY <1>1, <1>2, <1>3, <1>4, <1>5, <1>6, ZenonT(40) DEF Calculating

LEMMA CalculatingStanding ==
    ASSUME TestInv, Calculating, Formed({}, nonbacktrackable)', StackRecordsPrefix'
    PROVE  Standing'
<1>1. /\ phase \in {"abox", "running"}
      /\ UNCHANGED <<phase, checkpoint, aboxChoiceClash, test, redone, saturated>>
  BY Zenon DEF Calculating, driver
<1>2. Standing /\ Driver /\ Formed({}, nonbacktrackable) /\ StackRecordsPrefix /\ Running
  BY Zenon DEF TestInv, Standing
<1>3. phase # "idle" /\ phase # "positive" /\ phase # "reload" /\ phase # "redo"
  BY <1>1
<1>4. PICK t \in test : TRUE
  BY <1>2, <1>3, Zenon DEF Driver
<1>5. PICK Ms, N, nb : Ms = Sought(t) /\ N = Supposed(t) /\ nb = nonbacktrackable
  BY Zenon
<1>6. Sound(Ms, N, nonbacktrackable) /\ Phases(nonbacktrackable)
  BY <1>2, <1>4, <1>5, Zenon DEF Running, Sound
<1>7. /\ pc' \in Control /\ pc' # "test" /\ (pc' = "load" => pc = "load")
      /\ pc' = "done" => clash' = {}
  BY <1>5, <1>6, CalculatingControl, Zenon
<1>8. Grows /\ nonbacktrackable' = nonbacktrackable /\ ontology' = ontology
  BY <1>2, CalculatingGrows, Zenon
<1>9. \A c \in 1 .. nonbacktrackable : UnchangedBelow(c)
  BY <1>2, <1>8, GrowsBelow, Zenon
<1>10. Levels' /\ Kept'
  BY <1>1, <1>2, <1>7, <1>8, <1>9, StepKeeps, Zenon
<1>11. NotFresh'
  BY <1>1, <1>2, <1>6, CalculusNotFresh, Zenon
<1>12. Driver'
  BY <1>1, <1>2, <1>3, <1>7, <1>8, Zenon DEF Driver, Loads, HasNominals
<1>13. TestFactsAbove' /\ TestsStartAlike'
  BY <1>1, <1>3, <1>7, Zenon DEF TestFactsAbove, TestsStartAlike
<1> QED
  BY <1>10, <1>11, <1>12, <1>13, Zenon DEF Standing

\* A clash that backtracking gives up on and that rests on no choice of the ABox is
\* above the checkpoint.
LEMMA CalculusClashStanding ==
    ASSUME TestInv, CalculusClash, Formed({}, nonbacktrackable)', StackRecordsPrefix'
    PROVE  Standing'
<1>1. /\ phase \in {"abox", "running"} /\ BacktrackOnClash
      /\ UNCHANGED <<phase, checkpoint, test, redone, saturated>>
      /\ aboxChoiceClash' =
             \/ aboxChoiceClash
             \/ pc' = "done" /\ \E d \in clash : RestsOnABoxChoice(d)
  BY Zenon DEF CalculusClash
<1>2. Standing /\ Driver /\ Levels /\ Formed({}, nonbacktrackable) /\ StackRecordsPrefix /\ Running
  BY Zenon DEF TestInv, Standing
<1>3. phase # "idle" /\ phase # "positive" /\ phase # "reload" /\ phase # "redo"
  BY <1>1
<1>4. PICK t \in test : TRUE
  BY <1>2, <1>3, Zenon DEF Driver
<1>5. PICK Ms, N, nb, c, cl : /\ Ms = Sought(t) /\ N = Supposed(t) /\ nb = nonbacktrackable
                              /\ c = checkpoint /\ cl = clash
  BY Zenon
<1>6. Sound(Ms, N, nonbacktrackable) /\ AllGrounded(Ms, N, nb)
  <2>1. Sound(Ms, N, nonbacktrackable)
    BY <1>2, <1>4, <1>5, ZenonT(40) DEF Running
  <2> QED
    BY <1>5, <2>1, Zenon DEF Sound
<1>7. /\ pc' \in {"done", "choice"} /\ (pc' = "done" => clash' = cl)
      /\ UNCHANGED <<ontology, nonbacktrackable, todo>>
  BY <1>1, <1>5 DEF BacktrackOnClash
<1>8. pc' \in Control /\ pc' # "test" /\ pc' # "load"
  BY <1>7 DEF Control
<1>9. \A k \in 1 .. nonbacktrackable : UnchangedBelow(k)
  BY <1>1, <1>2, BacktrackBelow, Zenon
<1>10. Levels' /\ Kept'
  BY <1>1, <1>2, <1>7, <1>8, <1>9, StepKeeps, Zenon
<1>11. NotFresh'
  BY <1>1, <1>2, <1>6, CalculusNotFresh, Zenon
<1>12. c \in Nat /\ \A d \in cl : \A j \in d : j \in Nat /\ j > 0
  <2>1. c \in 0 .. nb /\ nb \in 0 .. Level
    BY <1>2, <1>5, Zenon DEF Levels
  <2>2. \A d \in cl : d \subseteq 1 .. Level
    BY <1>5, <1>6, LiveBelow, Zenon
  <2>3. c \in Nat /\ \A j \in 1 .. Level : j \in Nat /\ j > 0
    BY <2>1
  <2> QED
    BY <2>2, <2>3, Zenon
<1>13. \A d \in cl : /\ RestsOnABoxChoice(d) => c # 0
                     /\ ~RestsOnABoxChoice(d) => \A j \in d : j > c
  BY <1>5, <1>12 DEF RestsOnABoxChoice
<1>14. aboxChoiceClash' \in BOOLEAN /\ (aboxChoiceClash' => checkpoint # 0)
  BY <1>1, <1>2, <1>5, <1>13, Zenon DEF Driver
<1>15. Driver'
  BY <1>1, <1>2, <1>3, <1>7, <1>8, <1>14, Zenon DEF Driver, Loads, HasNominals
<1>16. TestFactsAbove'
  <2>1. pc' = "done" /\ ~aboxChoiceClash' => \A d \in clash' : \A j \in d : j > c
    BY <1>1, <1>5, <1>7, <1>13, Zenon
  <2>2. checkpoint' = c
    BY <1>1, <1>5, Zenon
  <2> QED
    BY <1>8, <2>1, <2>2, Zenon DEF TestFactsAbove, Above
<1>17. TestsStartAlike'
  BY <1>1, <1>3, Zenon DEF TestsStartAlike
<1> QED
  BY <1>10, <1>11, <1>15, <1>16, <1>17, Zenon DEF Standing


\* A fact about the fresh node clashes with facts about the fresh node.
LEMMA AddFactAbove ==
    ASSUME rows \in Seq(Row), checkpoint' = checkpoint,
           \A i \in DOMAIN rows : rows[i].lit.atom \in FreshAtoms => Above(rows[i].deps),
           \A e \in clash : Above(e),
           NEW l, NEW d, AddFact(l, d), l.atom \in FreshAtoms, Above(d)
    PROVE  /\ \A i \in DOMAIN rows' : rows'[i].lit.atom \in FreshAtoms => Above(rows[i].deps)'
           /\ \A e \in clash' : Above(e)'
<1>1. \A e : Above(e)' <=> Above(e)
  BY Zenon DEF Above
<1>2. PICK r, x : r = rows /\ x = [lit |-> l, deps |-> d]
  BY Zenon
<1>3. x.deps = d
  BY <1>2, Zenon
<1>4. rows' = r \/ rows' = Append(r, x)
  BY <1>2, ZenonT(40) DEF AddFact
<1>5. /\ DOMAIN Append(r, x) = DOMAIN r \cup {Len(r) + 1} /\ Append(r, x)[Len(r) + 1] = x
      /\ \A i \in DOMAIN r : Append(r, x)[i] = r[i]
  <2>1. r \in Seq(Row)
    BY <1>2, Zenon
  <2> QED
    BY <2>1, AppendExtended
<1>6. \A i \in DOMAIN r : r[i].lit.atom \in FreshAtoms => Above(r[i].deps)
  BY <1>2, Zenon
<1>7. \A i \in DOMAIN rows' : rows'[i].lit.atom \in FreshAtoms => Above(rows[i].deps)'
  <2>1. CASE rows' = r
    BY <1>1, <1>6, <2>1, Zenon
  <2>2. CASE rows' = Append(r, x)
    <3> SUFFICES ASSUME NEW i \in DOMAIN rows', rows'[i].lit.atom \in FreshAtoms
                 PROVE  Above(rows'[i].deps)
      BY <1>1, Zenon
    <3>1. i \in DOMAIN r \/ i = Len(r) + 1
      BY <1>5, <2>2, Zenon
    <3> QED
      BY <1>3, <1>5, <1>6, <2>2, <3>1, Zenon
  <2> QED
    BY <1>4, <2>1, <2>2, Zenon
<1>8. Complement(l).atom = l.atom
  <2>1. \A a : Neg(a).atom = a /\ Pos(a).atom = a
    BY Zenon DEF Neg, Pos
  <2> QED
    BY <2>1, Zenon DEF Complement
<1>9. Above(DepsOf(Complement(l)))
  <2>1. PICK k : k = Complement(l)
    BY Zenon
  <2>2. \A j \in DepsOf(k) : \E i \in DOMAIN rows : rows[i].lit = k /\ j \in rows[i].deps
    BY DEF DepsOf
  <2> QED
    BY <1>8, <2>1, <2>2, Zenon DEF Above
<1>10. \A e \in clash' : Above(e)
  <2>1. clash' = clash \/ clash' = {d \cup DepsOf(Complement(l))}
    BY Zenon DEF AddFact
  <2>2. Above(d \cup DepsOf(Complement(l)))
    BY <1>9, Zenon DEF Above
  <2> QED
    BY <2>1, <2>2, Zenon
<1> QED
  BY <1>1, <1>7, <1>10, Zenon

\* The facts of a test go in one by one.
LEMMA AssertTestFactStanding ==
    ASSUME TestInv, AssertTestFact, Formed({}, nonbacktrackable)', StackRecordsPrefix'
    PROVE  Standing'
<1>1. /\ pc = "test" /\ pending # <<>> /\ AddFact(Head(pending), pendingDeps) /\ pending' = Tail(pending)
      /\ UNCHANGED <<ontology, disjunctions, branchingPoints, nonbacktrackable, todo, pendingDeps, pc>>
      /\ UNCHANGED <<phase, checkpoint, aboxChoiceClash, test, redone, saturated>>
  BY Zenon DEF AssertTestFact, driver
<1>2. Standing /\ Driver /\ Formed({}, nonbacktrackable) /\ StackRecordsPrefix /\ TestFactsAbove
  BY Zenon DEF TestInv, Standing
<1>3. /\ phase # "idle" /\ phase # "abox" /\ phase # "reload" /\ phase # "redo"
      /\ phase = "positive" => Len(pending) <= 1
  BY <1>1, <1>2, Zenon DEF Driver
<1>4. PICK p, l, d : p = pending /\ l = Head(p) /\ d = pendingDeps
  BY Zenon
<1>5. p \in Seq(Literal) /\ p # <<>> /\ rows \in Seq(Row)
  BY <1>1, <1>2, <1>4, Zenon DEF Formed
<1>6. /\ 1 \in DOMAIN p /\ l = p[1]
      /\ \A i \in DOMAIN Tail(p) : i + 1 \in DOMAIN p /\ Tail(p)[i] = p[i + 1]
      /\ Len(p) <= 1 => Len(Tail(p)) <= 1 /\ Tail(p) = <<>>
  BY <1>4, <1>5
<1>7. Grows
  <2>1. /\ Extended(disjunctions, disjunctions) /\ Extended(branchingPoints, branchingPoints)
    BY <1>2, SameExtended DEF Formed
  <2>2. Extended(rows, rows')
    BY <1>1, <1>4, <1>5, AddFactGrows, Zenon
  <2> QED
    BY <1>1, <2>1, <2>2, ZenonT(40) DEF Grows
<1>8. Level' = Level
  BY <1>1, Zenon DEF Level
<1>9. Levels' /\ Kept'
  <2>1. \A c \in 1 .. nonbacktrackable : UnchangedBelow(c)
    BY <1>2, <1>7, GrowsBelow, Zenon
  <2> QED
    BY <1>1, <1>2, <1>8, <2>1, StepKeeps, Zenon
<1>10. Driver'
  <2>1. phase = "positive" => Len(pending') <= 1
    BY <1>1, <1>3, <1>4, <1>6, Zenon
  <2> QED
    BY <1>1, <1>2, <1>3, <2>1, Zenon DEF Driver, Loads, HasNominals
<1>11. TestFactsAbove'
  <2>1. /\ \A i \in DOMAIN rows : rows[i].lit.atom \in FreshAtoms => Above(rows[i].deps)
        /\ \A i \in DOMAIN p : p[i].atom \in FreshAtoms
        /\ Above(d) /\ \A e \in clash : Above(e)
    BY <1>1, <1>2, <1>4, Zenon DEF TestFactsAbove
  <2>2. AddFact(l, d) /\ l.atom \in FreshAtoms
    BY <1>1, <1>4, <1>6, <2>1, Zenon
  <2>3. /\ \A i \in DOMAIN rows' : rows'[i].lit.atom \in FreshAtoms => Above(rows[i].deps)'
        /\ \A e \in clash' : Above(e)'
    BY <1>1, <1>5, <2>1, <2>2, AddFactAbove, Zenon
  <2>4. \A i \in DOMAIN pending' : pending'[i].atom \in FreshAtoms
    BY <1>1, <1>4, <1>6, <2>1, Zenon
  <2>5. Above(pendingDeps)'
    BY <1>1, <1>4, <2>1, Zenon DEF Above
  <2>6. pc' # "done"
    BY <1>1
  <2> QED
    BY <2>3, <2>4, <2>5, <2>6, Zenon DEF TestFactsAbove
<1>12. NotFresh'
  BY <1>1, <1>3, Zenon DEF NotFresh
<1>13. TestsStartAlike'
  BY <1>1, <1>3, <1>4, <1>6, Zenon DEF TestsStartAlike
<1> QED
  BY <1>9, <1>10, <1>11, <1>12, <1>13, Zenon DEF Standing


\* Before the first test, and when nothing happens.
LEMMA TestInitKeeps ==
    ASSUME TestInit
    PROVE  TestInv
<1>1. /\ rows = <<>> /\ disjunctions = <<>> /\ branchingPoints = <<>> /\ nonbacktrackable = 0 /\ clash = {}
      /\ todo = {} /\ pending = <<>> /\ pendingDeps = {} /\ pc = "done" /\ phase = "idle" /\ checkpoint = 0
      /\ aboxChoiceClash = FALSE /\ test = {} /\ redone = FALSE /\ ontology \in Ontologies
      /\ extensionOld = 0 /\ extensionThis = 0 /\ firstUnprocessed = 1
  BY Zenon DEF TestInit
<1>2. Level = 0
  BY ZenonT(40), <1>1 DEF Level
<1>3. Formed({}, nonbacktrackable)
  BY <1>1 DEF Formed, Obey
<1>4. StackRecordsPrefix
  BY <1>2 DEF StackRecordsPrefix
<1>5. Driver
  BY <1>1, Zenon DEF Driver, Loads, Control
<1>6. Levels
  BY <1>1, <1>2 DEF Levels
<1>7. Kept /\ NotFresh /\ TestFactsAbove /\ TestsStartAlike /\ Running
  BY <1>1, Zenon DEF Kept, NotFresh, TestFactsAbove, TestsStartAlike, Running
<1> QED
  BY <1>3, <1>4, <1>5, <1>6, <1>7, Zenon DEF TestInv, Standing

LEMMA StutterStanding ==
    ASSUME TestInv, UNCHANGED testVars, Formed({}, nonbacktrackable)'
    PROVE  Standing'
<1>1. /\ UNCHANGED <<ontology, rows, extensionOld, extensionThis, disjunctions, firstUnprocessed,
                     branchingPoints, nonbacktrackable, clash, todo, pending, pendingDeps, pc>>
      /\ UNCHANGED <<phase, checkpoint, aboxChoiceClash, test, redone, saturated>>
  BY Zenon DEF testVars, vars, table, work, driver
<1>2. /\ StackRecordsPrefix /\ Driver /\ Levels /\ Kept /\ NotFresh /\ TestFactsAbove /\ TestsStartAlike
  BY Zenon DEF TestInv, Standing
<1>3. StackRecordsPrefix' /\ Levels' /\ Kept'
  BY <1>1, <1>2, SameTable, Zenon
<1>4. Driver'
  BY <1>1, <1>2, Zenon DEF Driver, HasNominals
<1>5. NotFresh' /\ TestFactsAbove' /\ TestsStartAlike'
  BY <1>1, <1>2, Zenon DEF NotFresh, TestFactsAbove, Above, TestsStartAlike, tableau
<1> QED
  BY <1>3, <1>4, <1>5, Zenon DEF Standing

-----------------------------------------------------------------------------
(* What the invariant says of the answers.                                 *)

\* A test that ends in a clash has no model: the clash rests on nothing but the
\* dummy that stands for the test's own negations.
LEMMA ClashAnswers ==
    ASSUME TestInv, NEW t \in test, TestFinished, ContainsClash
    PROVE  NoModel(ontology, t)
<1>1. /\ phase = "running" /\ pc \in {"done", "test"} /\ (redone \/ ~aboxChoiceClash) /\ clash # {}
  BY DEF TestFinished, ContainsClash
<1>2. /\ Driver /\ Levels /\ TestFactsAbove /\ Running
  BY Zenon DEF TestInv, Standing
<1>3. ~aboxChoiceClash
  BY <1>1, <1>2, Zenon DEF Driver
<1>4. PICK c, nb, st, o, Ms, N : /\ c = checkpoint /\ nb = nonbacktrackable /\ st = branchingPoints
                                 /\ o = ontology /\ Ms = Sought(t) /\ N = Supposed(t)
  BY Zenon
<1>5. Sound(Ms, N, nb)
  BY <1>2, <1>4, Zenon DEF Running
<1>6. Justified(Ms, N) /\ AllGrounded(Ms, N, nb) /\ Phases(nb)
  BY <1>5, Zenon DEF Sound
<1>7. PICK d \in clash : (\A j \in d : j > c) /\ \A j \in d : j \in Nat /\ j <= nb
  <2>1. \A d \in clash : Above(d)
    BY <1>1, <1>2, <1>3 DEF TestFactsAbove
  <2>2. \A d \in clash : d \subseteq 1 .. Level
    BY <1>6, LiveBelow, Zenon
  <2>3. CASE pc = "done"
    <3>1. PICK d \in clash : \A j \in d : j <= nb
      BY <1>1, <1>6, <2>3, Zenon DEF Phases, ContainsClash
    <3>2. d \subseteq 1 .. Level /\ Above(d)
      BY <2>1, <2>2, <3>1, Zenon
    <3>3. \A j \in d : j \in Nat
      BY <3>2
    <3> QED
      BY <1>4, <3>1, <3>2, <3>3, Zenon DEF Above
  <2>4. CASE pc = "test"
    <3>1. Level = nb
      BY <1>2, <1>4, <2>4, Zenon DEF Levels
    <3>2. PICK d : d \in clash
      BY <1>1, Zenon
    <3>3. d \subseteq 1 .. Level /\ Above(d)
      BY <2>1, <2>2, <3>2, ZenonT(40)
    <3>4. nb \in Nat
      BY <1>2, <1>4, <3>1 DEF Levels, TestInv, Standing, Formed
    <3>5. \A j \in d : j \in Nat /\ j <= nb
      BY <3>1, <3>3, <3>4
    <3> QED
      BY <1>4, <3>2, <3>3, <3>5, Zenon DEF Above
  <2> QED
    BY Zenon, <1>1, <2>3, <2>4
<1>8. \A k \in d : st[k].choices = <<>>
  <2>1. c \in Nat /\ nb \in Nat
    BY <1>2, <1>4 DEF Levels, TestInv, Standing, Formed
  <2>2. \A k \in d : k \in c + 1 .. nb
    BY <1>7, <2>1
  <2> QED
    BY <1>2, <1>4, <2>2, ZenonT(40) DEF Levels
<1>9. ASSUME NEW M \in ModelsOf(o, TestFacts(t))
      PROVE  FALSE
  <2>1. t \in Tests
    BY <1>2, Zenon DEF Driver
  <2>2. TestFacts(t) = {Pos(t.positive)} \cup NegativesOf(t) /\ t.dummy \in BOOLEAN
    BY <2>1, TestLiterals, Zenon
  <2>3. N = NegativesOf(t) /\ Ms = ModelsOf(o, Given(t)) /\ Given(t) \subseteq TestFacts(t)
    BY Zenon, <1>1, <1>4, <2>2 DEF Supposed, Sought, Given, Loads
  <2>4. M \in Ms
    BY <2>3, FewerModels, Zenon
  <2>5. \A l \in N : Holds(M, l)
    <3>1. \A l \in TestFacts(t) : Holds(M, l)
      BY Zenon DEF ModelsOf
    <3> QED
      BY <2>2, <2>3, <3>1, Zenon
  <2>6. AllStand(N, st, M, d)
    BY <1>8, <2>5, Zenon DEF AllStand, Stands
  <2> QED
    BY <1>4, <1>6, <1>7, <2>4, <2>6, Zenon DEF Justified
<1> QED
  BY <1>4, <1>9, Zenon DEF NoModel

\* An ABox that clashes has no model.
LEMMA ABoxClashAnswers ==
    ASSUME TestInv, NEW t \in test, ABoxInconsistent
    PROVE  NoModel(ontology, t)
<1>1. phase \in {"abox", "redo"} /\ pc \in {"load", "done"} /\ clash # {}
  BY DEF ABoxInconsistent, ContainsClash
<1>2. Driver /\ Running
  BY Zenon DEF TestInv, Standing
<1>3. phase \in Loads /\ phase # "running"
  BY <1>1 DEF Loads
<1>4. PICK o, Ms, N, st : o = ontology /\ Ms = Sought(t) /\ N = Supposed(t) /\ st = branchingPoints
  BY Zenon
<1>5. Ms = ModelsOf(o, {}) /\ N = {} /\ nonbacktrackable = 0
  BY <1>2, <1>3, <1>4, Zenon DEF Sought, Given, Supposed, Driver
<1>6. Sound(Ms, N, 0)
  BY <1>2, <1>4, <1>5, Zenon DEF Running
<1>7. Justified(Ms, N) /\ AllGrounded(Ms, N, 0) /\ Phases(0)
  BY <1>6, Zenon DEF Sound
<1>8. \A d \in clash : d \subseteq 1 .. Level
  BY <1>7, LiveBelow, Zenon
<1>9. PICK d \in clash : d = {}
  <2>1. CASE pc = "done"
    <3>1. PICK d \in clash : \A j \in d : j <= 0
      BY <1>1, <1>7, <2>1, Zenon DEF Phases, ContainsClash
    <3>2. d = {}
      BY <1>8, <3>1
    <3> QED
      BY <3>1, <3>2, Zenon
  <2>2. CASE pc = "load"
    <3>1. Level = 0
      BY <1>7, <2>2 DEF Phases, Level
    <3>2. PICK d : d \in clash
      BY <1>1, Zenon
    <3>3. d \subseteq 1 .. 0
      BY <1>8, <3>1, <3>2, Zenon
    <3>4. d = {}
      BY <3>3
    <3> QED
      BY <3>2, <3>4, Zenon
  <2> QED
    BY <1>1, <2>1, <2>2
<1>10. \A M : AllStand(N, st, M, {})
  BY Zenon DEF AllStand
<1>11. \A M \in Ms : FALSE
  BY <1>4, <1>7, <1>9, <1>10, Zenon DEF Justified
<1>12. ModelsOf(o, TestFacts(t)) \subseteq Ms
  <2>1. {} \subseteq TestFacts(t)
    BY Zenon
  <2> QED
    BY <1>5, <2>1, FewerModels, Zenon
<1> QED
  BY <1>4, <1>11, <1>12, Zenon DEF NoModel

\* A fact with an empty dependency set follows from the concept tested.
LEMMA ReadOffFollows ==
    ASSUME TestInv
    PROVE  KnownFollows
<1> SUFFICES ASSUME NEW t \in test, phase = "running",
                    NEW M \in ModelsOf(ontology, {Pos(t.positive)}), NEW a \in ReadOff(t)
             PROVE  a \in M
  BY Zenon DEF KnownFollows
<1>1. Driver /\ Running
  BY Zenon DEF TestInv, Standing
<1>2. t \in Tests
  BY <1>1, Zenon DEF Driver
<1>3. /\ TestFacts(t) = {Pos(t.positive)} \cup NegativesOf(t) /\ t.dummy \in BOOLEAN
  BY <1>2, TestLiterals, Zenon
<1>4. t.dummy \/ t.negatives = <<>>
  BY ZenonT(40) DEF ReadOff
<1>5. PICK i \in DOMAIN rows : rows[i] = [lit |-> Pos(a), deps |-> {}]
  BY DEF ReadOff
<1>6. PICK Ms, N : Ms = Sought(t) /\ N = Supposed(t)
  BY Zenon
<1>7. Justified(Ms, N)
  BY <1>1, <1>6, Zenon DEF Running, Sound
<1>8. Given(t) = {Pos(t.positive)}
  <2>1. t.negatives = <<>> => NegativesOf(t) = {}
    BY DEF NegativesOf
  <2>2. phase \notin Loads /\ phase # "positive"
    BY Zenon DEF Loads
  <2>3. CASE t.dummy
    BY <2>2, <2>3, Zenon DEF Given
  <2>4. CASE ~t.dummy
    BY <1>3, <1>4, <2>1, <2>2, <2>4, Zenon DEF Given
  <2> QED
    BY <2>3, <2>4, Zenon
<1>9. M \in Ms
  BY <1>6, <1>8, ZenonT(40) DEF Sought
<1>10. rows[i].deps = {} /\ rows[i].lit = Pos(a)
  BY <1>5
<1>11. Holds(M, Pos(a))
  <2>1. AllStand(N, branchingPoints, M, {})
    BY Zenon DEF AllStand
  <2> QED
    BY <1>5, <1>7, <1>9, <1>10, <2>1, Zenon DEF Justified
<1> QED
  BY <1>11 DEF Holds, Pos
=============================================================================
