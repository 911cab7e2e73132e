------------------------- MODULE TestTableauProofs --------------------------
(***************************************************************************)
(* The tests on the reused tableau answer as specified.  The invariant of  *)
(* CheckpointProofs is kept by every step: by the steps of the driver as   *)
(* shown there, and by the steps of the calculus because its own invariant *)
(* (CalculusProofs, CalculusModel) holds for whatever the test is about.   *)
(* What a test answers is then read off: a clash at the end rules every    *)
(* model out, and a table without one is a model.                          *)
(***************************************************************************)
EXTENDS CheckpointProofs, CalculusModel

\* Every leaf that names no prover is given to these, in this order.
USE SMTT(90), ZenonT(60)

\* A test asserts a fact the way the calculus does.
LEMMA TestFactStored ==
    ASSUME AssertTestFact
    PROVE  StoresPending
<1>1. /\ pc = "test" /\ pending # <<>> /\ AddFact(Head(pending), pendingDeps) /\ pending' = Tail(pending)
      /\ UNCHANGED <<ontology, extensionOld, extensionThis, disjunctions, firstUnprocessed,
                     branchingPoints, nonbacktrackable, todo, pendingDeps, pc>>
  BY Zenon DEF AssertTestFact
<1>2. pc \in {"load", "choice", "test"}
  BY <1>1, Zenon
<1> QED
  BY <1>1, <1>2, Zenon DEF StoresPending

\* While a test runs the calculus keeps what is sound and complete for it.
LEMMA WorkRuns ==
    ASSUME TestInv, test # {}, [Next]_vars \/ StoresPending, UNCHANGED <<ontology, test, phase>>
    PROVE  Running' /\ Formed({}, nonbacktrackable)' /\ StackRecordsPrefix'
<1>1. PICK t : t \in test
  BY Zenon
<1>2. PICK nb : nb = nonbacktrackable
  BY Zenon
<1>3. nb \in Nat
  BY <1>2 DEF TestInv, Standing, Levels
<1>4. ASSUME NEW s \in test
      PROVE  /\ Sound(Sought(s), Supposed(s), nonbacktrackable)' /\ Complete(Required(s), nonbacktrackable)'
             /\ Formed({}, nonbacktrackable)' /\ StackRecordsPrefix'
  <2>1. PICK Ms, N, Rs : Ms = Sought(s) /\ N = Supposed(s) /\ Rs = Required(s)
    BY Zenon
  <2>2. Sound(Ms, N, nb) /\ Complete(Rs, nb)
    BY <1>2, <2>1, Zenon DEF TestInv, Running
  <2>3. Sound(Ms, N, nb)'
    BY <1>3, <2>2, NextSound, StoresPendingInv, Zenon
  <2>4. Complete(Rs, nb)'
    BY <1>3, <2>2, <2>3, NextComplete, StoresPendingComplete, Zenon
  <2>5. Sought(s)' = Ms /\ Supposed(s)' = N /\ Required(s)' = Rs
    <3>1. HasNominals' = HasNominals /\ ABox' = ABox
      BY Zenon DEF HasNominals, ABox
    <3>2. Given(s)' = Given(s)
      BY Zenon DEF Given
    <3> QED
      BY <2>1, <3>1, <3>2, Zenon DEF Sought, Supposed, Required
  <2>6. Formed(Ms, nb)' /\ StackRecordsPrefix'
    BY <2>3, Zenon DEF Sound
  <2>7. nonbacktrackable' = nb
    BY <2>6, Zenon DEF Formed
  <2>8. Formed({}, nb)'
    <3>1. Obey({}, ontology)'
      BY Zenon DEF Obey
    <3> QED
      BY <2>6, <3>1, Zenon DEF Formed
  <2> QED
    BY <2>3, <2>4, <2>5, <2>6, <2>7, <2>8, Zenon
<1> QED
  BY <1>1, <1>4, Zenon DEF Running

\* Every step of the specification keeps the invariant.
LEMMA WorkKeeps ==
    ASSUME TestInv, Loading \/ Calculating \/ CalculusClash \/ AssertTestFact
    PROVE  TestInv'
<1>1. Driver
  BY Zenon DEF TestInv, Standing
<1>2. test # {}
  <2>1. CASE Loading \/ Calculating \/ CalculusClash
    <3>1. phase \in {"reload", "redo", "abox", "running"}
      BY Zenon, <2>1 DEF Loading, Calculating, CalculusClash
    <3> QED
      BY Zenon, <1>1, <3>1 DEF Driver
  <2>2. CASE AssertTestFact
    <3>1. pc = "test"
      BY <2>2, Zenon DEF AssertTestFact
    <3> QED
      BY <1>1, <3>1 DEF Driver
  <2> QED
    BY <2>1, <2>2, Zenon
<1>3. UNCHANGED <<test, phase>>
  BY Zenon DEF Loading, Calculating, CalculusClash, AssertTestFact, driver
<1>4. ontology' = ontology
  <2>1. CASE Loading \/ Calculating
    BY <2>1, CalculatingGrows, Zenon DEF TestInv, Standing
  <2>2. CASE CalculusClash
    BY <2>2, BacktrackBelow, Zenon DEF CalculusClash, TestInv, Standing
  <2>3. CASE AssertTestFact
    BY <2>3, Zenon DEF AssertTestFact
  <2> QED
    BY <2>1, <2>2, <2>3, Zenon
<1>5. [Next]_vars \/ StoresPending
  BY TestFactStored, Zenon DEF Loading, Calculating, CalculusClash, Next, Step
<1>6. Running' /\ Formed({}, nonbacktrackable)' /\ StackRecordsPrefix'
  BY <1>2, <1>3, <1>4, <1>5, WorkRuns, Zenon
<1>7. Standing'
  BY <1>6, LoadingStanding, CalculatingStanding, CalculusClashStanding, AssertTestFactStanding, Zenon
<1> QED
  BY <1>6, <1>7, Zenon DEF TestInv

LEMMA StutterKeeps ==
    ASSUME TestInv, UNCHANGED testVars
    PROVE  TestInv'
<1>1. UNCHANGED vars /\ UNCHANGED <<ontology, test, phase>>
  BY Zenon DEF testVars, driver, vars
<1>2. CASE test = {}
  <2>1. UNCHANGED <<ontology, rows, extensionOld, extensionThis, disjunctions, firstUnprocessed,
                    branchingPoints, nonbacktrackable, clash, todo, pending, pendingDeps>>
    BY <1>1, Zenon DEF vars, table, work
  <2>2. Formed({}, nonbacktrackable)'
    BY <2>1, Zenon DEF TestInv, Standing, Formed, Obey
  <2>3. Running'
    BY <1>1, <1>2, Zenon DEF Running
  <2> QED
    BY <2>2, <2>3, StutterStanding, Zenon DEF TestInv
<1>3. CASE test # {}
  BY <1>1, <1>3, WorkRuns, StutterStanding, Zenon DEF TestInv
<1> QED
  BY <1>2, <1>3, Zenon

LEMMA CheckoutKeeps ==
    ASSUME TestInv, NEW t \in Tests, Checkout(t)
    PROVE  TestInv'
<1>1. phase = "idle" /\ test' = {t} /\ redone' = FALSE /\ ontology' = ontology
  BY Zenon DEF Checkout
<1>2. CASE HasNominals /\ RestoreABoxCheckpoint /\ AssertPositive(t) /\ phase' = "positive"
  BY <1>1, <1>2, RestoreKeeps, Zenon
<1>3. CASE HasNominals /\ Clear /\ LoadABox /\ phase' = "abox"
  <2>1. phase' \in Loads /\ redone' \in BOOLEAN /\ ~redone'
    BY <1>1, <1>3, Zenon DEF Loads
  <2>2. test' # {} /\ \E s \in Tests : test' = {s}
    BY <1>1, Zenon
  <2> QED
    BY <1>1, <1>3, <2>1, <2>2, LoadKeeps, Zenon
<1>4. CASE ~HasNominals /\ Clear /\ AssertPositive(t) /\ phase' = "positive"
  BY <1>1, <1>4, ClearKeeps, Zenon
<1> QED
  BY <1>2, <1>3, <1>4, Zenon DEF Checkout

LEMMA TestNextKeeps ==
    ASSUME TestInv, [TestNext]_testVars
    PROVE  TestInv'
  BY CheckoutKeeps, StutterKeeps, WorkKeeps, ABoxSaturatedKeeps, AnsweredKeeps, ReloadKeeps,
     ReloadedKeeps, AssertNegativesKeeps, RunCalculusKeeps, Zenon DEF TestNext, TestStep, AllTested

-----------------------------------------------------------------------------
(* The answers.                                                            *)

\* A test that ends without a clash has a model in its table.
LEMMA ModelAnswers ==
    ASSUME TestInv, NEW t \in test, TestFinished, ~ContainsClash
    PROVE  ~NoModel(ontology, t)
<1>1. phase = "running" /\ pc = "done"
  BY Zenon DEF TestFinished
<1>2. PICK nb, Ms, N, Rs : nb = nonbacktrackable /\ Ms = Sought(t) /\ N = Supposed(t) /\ Rs = Required(t)
  BY Zenon
<1>3. nb \in Nat
  BY <1>2 DEF TestInv, Standing, Levels
<1>4. Sound(Ms, N, nb) /\ Complete(Rs, nb)
  BY <1>2, Zenon DEF TestInv, Running
<1>5. PICK M : M = {a \in Atoms : Pos(a) \in Facts}
  BY Zenon
<1>6. /\ \A c \in ontology.clauses : c.body \subseteq M => SomeHolds(M, c.head)
      /\ \A l \in Rs : Holds(M, l)
  BY <1>1, <1>3, <1>4, <1>5, TableIsModel, Zenon
<1>7. M \in SUBSET Atoms
  BY <1>5, Zenon
<1>8. phase \notin Loads /\ phase # "positive"
  BY <1>1 DEF Loads
<1>9. /\ \A l \in TestFacts(t) : Holds(M, l)
      /\ HasNominals => \A l \in ABox : Holds(M, l)
  BY <1>2, <1>6, <1>8, Zenon DEF Required
<1>10. ontology \in Nominals => \A i \in DOMAIN ontology.facts : Holds(M, ontology.facts[i])
  BY <1>9, Zenon DEF HasNominals, ABox
<1>11. M \in ModelsOf(ontology, TestFacts(t))
  BY <1>6, <1>7, <1>9, <1>10, Zenon DEF ModelsOf
<1> QED
  BY <1>11, Zenon DEF NoModel

\* Every step of the tests is a step of the oracle or leaves what it sees alone.
LEMMA AnswerStep ==
    ASSUME TestInv, [TestNext]_testVars
    PROVE  [Oracle!AbstractNext]_<<ontology, test, answer>>
<1>1. Driver
  BY Zenon DEF TestInv, Standing
<1>2. ASSUME NEW t \in Tests, Checkout(t)
      PROVE  Oracle!AbstractNext
  <2>1. test = {} /\ test' = {t} /\ answer' = {} /\ ontology' = ontology
    BY <1>1, <1>2, Zenon DEF Checkout, Driver
  <2> QED
    BY <2>1, Zenon DEF Oracle!AbstractNext, Oracle!Ask
<1>3. CASE TestFinished \/ ABoxInconsistent
  <2>1. PICK s : /\ test' = {} /\ answer' = {[subsumed |-> s, interrupted |-> FALSE]}
                 /\ \/ TestFinished /\ s = ContainsClash
                    \/ ABoxInconsistent /\ s = TRUE
    BY <1>3, Zenon DEF TestFinished, ABoxInconsistent, Answer
  <2>2. phase # "idle" /\ ontology' = ontology
    BY Zenon, <1>3 DEF TestFinished, ABoxInconsistent
  <2>3. PICK t : t \in test
    BY <1>1, <2>2, Zenon DEF Driver
  <2>4. s = NoModel(ontology, t)
    <3>1. CASE TestFinished /\ s = ContainsClash
      <4>1. ContainsClash <=> NoModel(ontology, t)
        BY <2>3, <3>1, ClashAnswers, ModelAnswers, Zenon
      <4> QED
        BY <3>1, <4>1 DEF ContainsClash, NoModel
    <3>2. CASE ABoxInconsistent /\ s = TRUE
      <4>1. NoModel(ontology, t)
        BY <2>3, <3>2, ABoxClashAnswers, Zenon
      <4> QED
        BY Zenon, <3>2, <4>1 DEF NoModel
    <3> QED
      BY <2>1, <3>1, <3>2, Zenon
  <2> QED
    BY <2>1, <2>2, <2>3, <2>4, Zenon DEF Oracle!AbstractNext, Oracle!Reply
<1>4. CASE TestInterrupted \/ TestInterruptedInPass
  <2>1. test' = {} /\ answer' = {[subsumed |-> TRUE, interrupted |-> TRUE]} /\ ontology' = ontology
    BY <1>4, Zenon DEF TestInterrupted, TestInterruptedInPass, Answer
  <2>2. phase # "idle"
    BY Zenon, <1>4 DEF TestInterrupted, TestInterruptedInPass
  <2>3. test # {}
    BY <1>1, <2>2, Zenon DEF Driver
  <2> QED
    BY <2>1, <2>3, Zenon DEF Oracle!AbstractNext, Oracle!ReplyInterrupted
<1>5. CASE ABoxSaturated \/ ABoxInterrupted \/ Reloaded \/ AssertNegatives \/ RunCalculus \/ Redo
  BY <1>5, Zenon DEF ABoxSaturated, ABoxInterrupted, Reloaded, AssertNegatives, RunCalculus, Redo, driver
<1>6. CASE Loading \/ Calculating \/ CalculusClash \/ AssertTestFact
  <2>1. UNCHANGED <<test, answer>>
    BY <1>6, Zenon DEF Loading, Calculating, CalculusClash, AssertTestFact, driver
  <2>2. ontology' = ontology
    <3>1. CASE Loading \/ Calculating
      BY <3>1, CalculatingGrows, Zenon DEF TestInv, Standing
    <3>2. CASE CalculusClash
      BY <3>2, BacktrackBelow, Zenon DEF CalculusClash, TestInv, Standing
    <3>3. CASE AssertTestFact
      BY <3>3, Zenon DEF AssertTestFact
    <3> QED
      BY <1>6, <3>1, <3>2, <3>3, Zenon
  <2> QED
    BY <2>1, <2>2, Zenon
<1>7. CASE UNCHANGED testVars
  BY <1>7, Zenon DEF testVars, driver, vars
<1> QED
  BY <1>2, <1>3, <1>4, <1>5, <1>6, <1>7, Zenon DEF TestNext, TestStep, AllTested

-----------------------------------------------------------------------------
(* The results.                                                            *)

\* The invariant of the driver and of the calculus together, for every set of
\* ontologies and tests and any number of tests and interrupts.
THEOREM TestInvariant == TestSpec => []TestInv
<1>1. TestInit => TestInv
  BY TestInitKeeps
<1>2. TestInv /\ [TestNext]_testVars => TestInv'
  BY TestNextKeeps
<1> QED
  BY <1>1, <1>2, PTL DEF TestSpec

\* restore_abox_checkpoint gives every test the ABox exactly as it was saturated.
THEOREM StartAlike == TestSpec => []TestsStartAlike
<1>1. TestInv => TestsStartAlike
  BY Zenon DEF TestInv, Standing
<1> QED
  BY <1>1, TestInvariant, PTL

\* A concept read off with an empty dependency set holds of the tested concept in
\* every model, whatever was negated and whatever the ABox had chosen.
THEOREM KnownSubsumersFollow == TestSpec => []KnownFollows
<1>1. TestInv => KnownFollows
  BY ReadOffFollows
<1> QED
  BY <1>1, TestInvariant, PTL

\* A test that is not interrupted is answered `subsumed' exactly when its facts have
\* no model together with the ontology: run_test answers as if every test were run on
\* its own.
THEOREM TestsAnswerAsSpecified == TestSpec => AnswersAsSpecified
<1>1. TestInit => Oracle!AbstractInit
  BY Zenon DEF TestInit, Oracle!AbstractInit
<1>2. TestInv /\ [TestNext]_testVars => [Oracle!AbstractNext]_<<ontology, test, answer>>
  BY AnswerStep
<1> QED
  BY <1>1, <1>2, TestInvariant, PTL DEF TestSpec, AnswersAsSpecified, Oracle!AbstractSpec
=============================================================================
