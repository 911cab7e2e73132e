----------------------------- MODULE TestTableau ----------------------------
(***************************************************************************)
(* The reused per-test tableau of reasoner.rs: `checkout_test_tableau`     *)
(* saturates the ABox once and checkpoints it, `run_test` asserts a test's *)
(* facts above the checkpoint and saturates, and a clash that rests on one *)
(* of the ABox's own choices has the test redone on a freshly loaded ABox. *)
(* The calculus is that of module Calculus.                                *)
(*                                                                         *)
(* A test asserts a concept and negated concepts on a fresh node, so its   *)
(* atoms are in no ABox.  The negations may carry the dependency set of a  *)
(* dummy branching point, so that what is read off with an empty set       *)
(* follows from the concept alone.                                         *)
(***************************************************************************)
EXTENDS Calculus

CONSTANTS
    Nominals,       \* the ontologies with nominals: their ABox takes part in tests
    FreshAtoms,     \* the atoms about a node a test creates
    Tests,          \* [positive, negatives, dummy] records
    MaxTests,       \* bound on the tests of a run
    MaxInterrupts   \* bound on the interrupts of a run

Test == [positive : Atoms, negatives : Seq(Atoms), dummy : BOOLEAN]

\* A test's facts are about its fresh node, which is in no ABox, and a clause says
\* nothing of a node that its body does not match.
ASSUME TestsAssumption ==
    /\ Nominals \subseteq Ontologies
    /\ Tests \subseteq Test
    /\ \A t \in Tests : {t.positive} \cup {t.negatives[j] : j \in DOMAIN t.negatives} \subseteq FreshAtoms
    /\ \A o \in Ontologies : \A i \in DOMAIN o.facts : o.facts[i].atom \notin FreshAtoms
    /\ \A o \in Ontologies : \A c \in o.clauses :
          c.body \cap FreshAtoms = {} => \A i \in DOMAIN c.head : c.head[i] \notin FreshAtoms
    /\ MaxTests \in Nat /\ MaxInterrupts \in Nat

VARIABLES
    phase,            \* idle, abox, reload, redo, positive, running
    checkpoint,       \* level of the ABox checkpoint, 0 when there is none
    aboxChoiceClash,  \* abox_choice_clash
    test,             \* {} or {the test being run}
    redone,           \* the test is being run a second time
    answer,           \* {} or {the answer to the last test}
    testsRun, interrupts,
    saturated         \* history: the table as the checkpoint recorded it

driver   == <<checkpoint, aboxChoiceClash, test, redone, answer, testsRun, interrupts,
              saturated>>
testVars == <<vars, phase, driver>>

tableau == <<rows, extensionOld, extensionThis, disjunctions, firstUnprocessed>>

HasNominals == ontology \in Nominals

TestInit ==
    /\ ontology \in Ontologies
    /\ rows = <<>> /\ extensionOld = 0 /\ extensionThis = 0
    /\ disjunctions = <<>> /\ firstUnprocessed = 1
    /\ branchingPoints = <<>> /\ nonbacktrackable = 0 /\ clash = {}
    /\ todo = {} /\ pending = <<>> /\ pendingDeps = {} /\ pc = "done"
    /\ phase = "idle" /\ checkpoint = 0 /\ aboxChoiceClash = FALSE
    /\ test = {} /\ redone = FALSE /\ answer = {}
    /\ testsRun = 0 /\ interrupts = 0 /\ saturated = <<>>

-----------------------------------------------------------------------------
(* Checking the tableau out.                                               *)

Clear ==
    /\ rows' = <<>> /\ extensionOld' = 0 /\ extensionThis' = 0
    /\ disjunctions' = <<>> /\ firstUnprocessed' = 1
    /\ branchingPoints' = <<>> /\ nonbacktrackable' = 0 /\ clash' = {}
    /\ todo' = {}
    /\ checkpoint' = 0 /\ aboxChoiceClash' = FALSE /\ saturated' = <<>>

LoadABox ==
    /\ pending' = ontology.facts
    /\ pendingDeps' = {}
    /\ pc' = "load"

AssertPositive(t) ==
    /\ pending' = <<Pos(t.positive)>>
    /\ pendingDeps' = {}
    /\ pc' = "test"

CanRestore ==
    /\ checkpoint # 0
    /\ ~aboxChoiceClash
    /\ Level >= checkpoint

\* Mutant: a test that did not branch is not undone.
RestoreOnlyBranched ==
    /\ CanRestore
    /\ IF Level = checkpoint
       THEN UNCHANGED <<tableau, clash>>
       ELSE BacktrackTo(checkpoint)
    /\ branchingPoints' = SubSeq(branchingPoints, 1, checkpoint)
    /\ nonbacktrackable' = checkpoint
    /\ UNCHANGED <<todo, checkpoint, aboxChoiceClash, saturated>>

\* restore_abox_checkpoint: the checkpoint stays on the stack.
RestoreABoxCheckpoint ==
    /\ CanRestore
    /\ BacktrackTo(checkpoint)
    /\ branchingPoints' = SubSeq(branchingPoints, 1, checkpoint)
    /\ nonbacktrackable' = checkpoint
    /\ UNCHANGED <<todo, checkpoint, aboxChoiceClash, saturated>>

\* A tableau that a hard test has grown too large is dropped and built anew, so
\* any cached tableau may have to start from nothing.
Checkout(t) ==
    /\ phase = "idle" /\ testsRun < MaxTests
    /\ test' = {t} /\ answer' = {} /\ redone' = FALSE
    /\ \/ /\ HasNominals
          /\ RestoreABoxCheckpoint
          /\ AssertPositive(t)
          /\ phase' = "positive"
       \/ /\ HasNominals
          /\ Clear
          /\ LoadABox
          /\ phase' = "abox"
       \/ /\ ~HasNominals
          /\ Clear
          /\ AssertPositive(t)
          /\ phase' = "positive"
    /\ UNCHANGED <<ontology, testsRun, interrupts>>

PushABoxCheckpoint ==
    /\ branchingPoints' =
           Append(branchingPoints, NewBranchingPoint(<<>>, 0, firstUnprocessed))
    /\ nonbacktrackable' = Level + 1
    /\ checkpoint' = Level + 1
    /\ aboxChoiceClash' = FALSE
    /\ saturated' = tableau

\* The ABox has a model: it is checkpointed and the test begins.
ABoxSaturated ==
    /\ phase = "abox" /\ pc = "done" /\ ~ContainsClash
    /\ PushABoxCheckpoint
    /\ \E t \in test : AssertPositive(t)
    /\ phase' = "positive"
    /\ UNCHANGED <<ontology, table, disjunctions, firstUnprocessed, clash, todo,
                   test, redone, answer, testsRun, interrupts>>

Answer(subsumed, interrupted) ==
    /\ answer' = {[subsumed |-> subsumed, interrupted |-> interrupted]}
    /\ test' = {}
    /\ testsRun' = testsRun + 1
    /\ phase' = "idle"
    /\ pc' = "done"

\* The ABox has no model, found on loading or on saturating it: every subsumption
\* holds.
ABoxInconsistent ==
    /\ phase \in {"abox", "redo"} /\ pc \in {"load", "done"} /\ pending = <<>>
    /\ ContainsClash
    /\ Answer(TRUE, FALSE)
    /\ UNCHANGED <<ontology, table, disjunctions, firstUnprocessed, branchingPoints,
                   nonbacktrackable, clash, work, checkpoint,
                   aboxChoiceClash, redone, interrupts, saturated>>

\* run_calculus reports an interrupt at the head of an iteration or after the
\* last one, and the clause evaluations of a pass stop at it.  The facts are loaded
\* again and left to the test to saturate.
ABoxInterrupted ==
    /\ phase = "abox" /\ pc \in {"iterate", "apply", "done"}
    /\ interrupts < MaxInterrupts
    /\ interrupts' = interrupts + 1
    /\ Clear
    /\ LoadABox
    /\ phase' = "reload"
    /\ UNCHANGED <<ontology, test, redone, answer, testsRun>>

\* The ABox is in the table once more, and the test begins on top of it.
Reloaded ==
    /\ phase \in {"reload", "redo"} /\ pc = "load" /\ pending = <<>>
    /\ phase = "redo" => ~ContainsClash
    /\ \E t \in test : AssertPositive(t)
    /\ phase' = "positive"
    /\ UNCHANGED <<ontology, table, disjunctions, firstUnprocessed, branchingPoints,
                   nonbacktrackable, clash, todo, driver>>

-----------------------------------------------------------------------------
(* Running a test.                                                         *)

\* Mutant: the negations are asserted with the empty set.
PushDummyUnused ==
    /\ branchingPoints' =
           Append(branchingPoints, NewBranchingPoint(<<>>, 0, firstUnprocessed))
    /\ nonbacktrackable' = Level + 1
    /\ pendingDeps' = {}

\* push_dummy_dependency_branching_point: no choice, never backtracked to.
PushDummy ==
    /\ branchingPoints' =
           Append(branchingPoints, NewBranchingPoint(<<>>, 0, firstUnprocessed))
    /\ nonbacktrackable' = Level + 1
    /\ pendingDeps' = {Level + 1}

\* The negations; tests that read nothing off assert them with the empty set.
AssertNegatives ==
    /\ phase = "positive" /\ pending = <<>>
    /\ \E t \in test :
          /\ pending' = [i \in DOMAIN t.negatives |-> Neg(t.negatives[i])]
          /\ IF t.dummy
             THEN PushDummy
             ELSE /\ pendingDeps' = {}
                  /\ UNCHANGED <<branchingPoints, nonbacktrackable>>
    /\ phase' = "running"
    /\ UNCHANGED <<ontology, table, disjunctions, firstUnprocessed, clash, todo, pc,
                   driver>>

\* The ABox being loaded for a test to saturate.
Loading ==
    /\ phase \in {"reload", "redo"}
    /\ AssertPending
    /\ UNCHANGED <<phase, driver>>

\* A test asserts all its facts and looks for a clash when they are in.
AssertTestFact ==
    /\ pc = "test" /\ pending # <<>>
    /\ AddFact(Head(pending), pendingDeps)
    /\ pending' = Tail(pending)
    /\ UNCHANGED <<ontology, extensionOld, extensionThis, disjunctions,
                   firstUnprocessed, branchingPoints, nonbacktrackable, todo,
                   pendingDeps, pc, phase, driver>>

\* run_calculus is called on clash-free facts.
RunCalculus ==
    /\ \/ phase = "abox" /\ pc = "load"
       \/ phase = "running" /\ pc = "test"
    /\ pending = <<>> /\ ~ContainsClash
    /\ pc' = "iterate"
    /\ UNCHANGED <<ontology, table, disjunctions, firstUnprocessed, branchingPoints,
                   nonbacktrackable, clash, work, phase, driver>>

Calculating ==
    /\ phase \in {"abox", "running"}
    /\ \/ AssertPending
       \/ pc = "choice" /\ Asserted
       \/ PropagateDeltaNew
       \/ DeriveClash \/ DeriveFact \/ DeriveDisjunction
       \/ PassFinished \/ ProcessFirstGroundDisjunction
    /\ UNCHANGED <<phase, driver>>

\* Mutant: only a clash whose newest choice is the ABox's counts.
NewestIsABoxChoice(d) == d # {} /\ \A j \in d : j <= checkpoint

\* A clash that cannot be backtracked from, and that rests on a choice made while
\* the ABox was saturated, is no answer.
RestsOnABoxChoice(d) == \E j \in d : j <= checkpoint

CalculusClash ==
    /\ phase \in {"abox", "running"}
    /\ BacktrackOnClash
    /\ aboxChoiceClash' =
           \/ aboxChoiceClash
           \/ pc' = "done" /\ \E d \in clash : RestsOnABoxChoice(d)
    /\ UNCHANGED <<phase, checkpoint, test, redone, answer, testsRun, interrupts, saturated>>

\* The concepts a test that reads its model off finds with an empty dependency
\* set.
ReadOff(t) ==
    IF t.dummy \/ t.negatives = <<>>
    THEN {a \in Atoms : \E i \in DOMAIN rows : rows[i] = [lit |-> Pos(a), deps |-> {}]}
    ELSE {}

\* The test closure returns, at once when its facts clash with each other; its
\* answer stands unless an ABox choice clashed.  The second run always stands.
TestFinished ==
    /\ phase = "running" /\ pending = <<>>
    /\ pc = "done" \/ (pc = "test" /\ ContainsClash)
    /\ redone \/ ~aboxChoiceClash
    /\ Answer(ContainsClash, FALSE)
    /\ UNCHANGED <<ontology, table, disjunctions, firstUnprocessed, branchingPoints,
                   nonbacktrackable, clash, work, checkpoint, aboxChoiceClash,
                   redone, interrupts, saturated>>

\* Mutant: the test is run again above the same checkpoint.
RedoOnCheckpoint ==
    /\ phase = "running" /\ pc = "done"
    /\ aboxChoiceClash /\ ~redone
    /\ BacktrackTo(checkpoint)
    /\ branchingPoints' = SubSeq(branchingPoints, 1, checkpoint)
    /\ nonbacktrackable' = checkpoint
    /\ \E t \in test : AssertPositive(t)
    /\ phase' = "positive"
    /\ UNCHANGED <<ontology, todo, driver>>

\* run_test: the test is run again on a freshly loaded ABox.
Redo ==
    /\ phase = "running" /\ pc = "done"
    /\ aboxChoiceClash /\ ~redone
    /\ Clear
    /\ LoadABox
    /\ redone' = TRUE
    /\ phase' = "redo"
    /\ UNCHANGED <<ontology, test, answer, testsRun, interrupts>>

\* An interrupted test is answered as if it had no model, and the tableau goes
\* back to the cache as it is.
TestInterrupted ==
    /\ phase = "running" /\ interrupts < MaxInterrupts
    /\ \/ pc = "iterate"
       \/ pc = "done" /\ (redone \/ ~aboxChoiceClash)
    /\ interrupts' = interrupts + 1
    /\ Answer(TRUE, TRUE)
    /\ UNCHANGED <<ontology, table, disjunctions, firstUnprocessed, branchingPoints,
                   nonbacktrackable, clash, work, checkpoint,
                   aboxChoiceClash, redone, saturated>>

\* Interrupted during a pass: no further match fires, the windows pass over the
\* tuples whose matches were skipped, and the head of the loop reports it.
TestInterruptedInPass ==
    /\ phase = "running" /\ pc = "apply" /\ interrupts < MaxInterrupts
    /\ interrupts' = interrupts + 1
    /\ todo' = {} /\ extensionOld' = Len(rows) /\ extensionThis' = Len(rows)
    /\ Answer(TRUE, TRUE)
    /\ UNCHANGED <<ontology, rows, disjunctions, firstUnprocessed, branchingPoints,
                   nonbacktrackable, clash, pending, pendingDeps, checkpoint,
                   aboxChoiceClash, redone, saturated>>

TestStep ==
    \/ ABoxSaturated \/ ABoxInconsistent \/ ABoxInterrupted \/ Reloaded
    \/ AssertNegatives \/ Loading \/ AssertTestFact \/ RunCalculus
    \/ Calculating \/ CalculusClash
    \/ TestFinished \/ Redo \/ TestInterrupted \/ TestInterruptedInPass

AllTested == phase = "idle" /\ testsRun = MaxTests /\ UNCHANGED testVars

TestNext == (\E t \in Tests : Checkout(t)) \/ TestStep \/ AllTested

\* The caller need not ask again, but a test once begun runs to its end.
TestSpec == TestInit /\ [][TestNext]_testVars /\ WF_testVars(TestStep)

-----------------------------------------------------------------------------
(* Properties.                                                             *)

ModelsOf(o, literals) ==
    {M \in SUBSET Atoms :
        /\ \A c \in o.clauses : c.body \subseteq M => SomeHolds(M, c.head)
        /\ o \in Nominals => \A i \in DOMAIN o.facts : Holds(M, o.facts[i])
        /\ \A l \in literals : Holds(M, l)}

TestFacts(t) == {Pos(t.positive)} \cup {Neg(t.negatives[i]) : i \in DOMAIN t.negatives}

NoModel(o, t) == ModelsOf(o, TestFacts(t)) = {}

\* A test's answer does not depend on the tests before it, on the checkpoint or
\* on a rebuild: it is the truth about the ontology and the test's facts.
Oracle == INSTANCE SubsumptionTests WITH
    Inputs <- Ontologies, Subsumed <- NoModel, input <- ontology, asked <- test

AnswersAsSpecified == Oracle!AbstractSpec

\* What is read off with an empty dependency set follows from the ontology and
\* the tested concept alone, never from the negated candidates and never from a
\* choice made while the ABox was saturated.
KnownFollows ==
    \A t \in test :
        phase = "running" =>
            \A M \in ModelsOf(ontology, {Pos(t.positive)}) : ReadOff(t) \subseteq M

\* Every test above a checkpoint starts from the ABox exactly as it was
\* saturated: nothing the tests before it added is left, nothing of the ABox is lost.
TestsStartAlike ==
    phase = "positive" /\ checkpoint # 0 /\ pending # <<>> => tableau = saturated

\* Every test is answered: it is redone at most once.
EveryTestAnswered == test # {} ~> answer # {}
=============================================================================
