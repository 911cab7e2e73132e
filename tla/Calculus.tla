------------------------------ MODULE Calculus ------------------------------
(***************************************************************************)
(* The hypertableau calculus as the reasoner runs it: `run_calculus` and   *)
(* `do_iteration` (reasoner.rs) over the extension table                   *)
(* (tableau/extension_table.rs), the clause evaluator                      *)
(* (tableau/dl_clause_evaluator.rs), the ground disjunctions and           *)
(* dependency-directed backtracking (tableau/branching.rs).                *)
(*                                                                         *)
(* The model is ground: an atom stands for a predicate applied to nodes,   *)
(* and the two extension tables are one table.  Node creation, merging,    *)
(* blocking and datatypes are left to other modules.  The order in which   *)
(* the clauses of one pass fire, and the order in which the disjuncts of a *)
(* disjunction are tried, are left open: the code fixes both from the      *)
(* compiled clauses and from the learnt backtracking counts, and no        *)
(* answer may depend on either.                                            *)
(*                                                                         *)
(* Branching points are numbered from 1, so the code's level n is n + 1    *)
(* here and its -1 ("none") is 0.                                          *)
(***************************************************************************)
EXTENDS Naturals, Sequences

CONSTANTS
    Atoms,       \* ground atoms
    Negatable,   \* those whose negation the tableau can assert
    Ontologies   \* the clause sets with their ABoxes that a run may be given

Literal == [sign : {"+", "-"}, atom : Atoms]

Pos(a) == [sign |-> "+", atom |-> a]
Neg(a) == [sign |-> "-", atom |-> a]

Complement(l) == IF l.sign = "+" THEN Neg(l.atom) ELSE Pos(l.atom)

Clause == [body : SUBSET Atoms, head : Seq(Atoms)]

Ontology == [clauses : SUBSET Clause, facts : Seq(Literal)]

ASSUME NegatableAssumption == Negatable \subseteq Atoms

\* A clause has a body atom: top-level inclusions carry owl:Thing(X).
ASSUME OntologiesAssumption ==
    /\ Ontologies \subseteq Ontology
    /\ \A o \in Ontologies : \A c \in o.clauses : c.body # {}

VARIABLES
    ontology,            \* the clauses and the ABox of this run
    rows,                \* the extension table, oldest tuple first
    extensionOld,        \* after_extension_old
    extensionThis,       \* after_extension_this (after_delta_new is Len(rows))
    disjunctions,        \* the ground disjunctions, oldest first
    firstUnprocessed,    \* index of first_unprocessed_ground_disjunction
    branchingPoints,     \* the stack of branching points
    nonbacktrackable,    \* nonbacktrackable_branching_point
    clash,               \* {} or {the clash's dependency set}
    todo,                \* clause matches this pass has still to fire
    pending,             \* literals being asserted, in order,
    pendingDeps,         \* ... and the dependency set they are asserted with
    pc

table == <<rows, extensionOld, extensionThis>>
work  == <<todo, pending, pendingDeps>>
vars  == <<ontology, table, disjunctions, firstUnprocessed, branchingPoints,
           nonbacktrackable, clash, work, pc>>

Row == [lit : Literal, deps : SUBSET Nat]

Disjunction == [disjuncts : Seq(Atoms), deps : SUBSET Nat]

BranchingPoint ==
    [choices : Seq(Atoms), current : Nat,
     old : Nat, this : Nat, new : Nat,
     disjunctions : Nat, unprocessed : Nat]

Control == {"load", "iterate", "apply", "loop", "choose", "choice", "done"}

Level == Len(branchingPoints)

ContainsClash == clash # {}

-----------------------------------------------------------------------------
(* The extension table.                                                    *)

Facts == {rows[i].lit : i \in DOMAIN rows}

DepsOf(l) == UNION {rows[i].deps : i \in {j \in DOMAIN rows : rows[j].lit = l}}

\* Mutant: a clash depends on the new tuple only.
AddFactForgetsOther(l, d) ==
    IF l \in Facts
    THEN UNCHANGED <<rows, clash>>
    ELSE /\ rows' = Append(rows, [lit |-> l, deps |-> d])
         /\ clash' = IF Complement(l) \in Facts THEN {d} ELSE clash

\* A tuple that is present keeps its first dependency set; a new one is
\* checked against its negation.
AddFact(l, d) ==
    IF l \in Facts
    THEN UNCHANGED <<rows, clash>>
    ELSE /\ rows' = Append(rows, [lit |-> l, deps |-> d])
         /\ clash' = IF Complement(l) \in Facts
                     THEN {d \cup DepsOf(Complement(l))}
                     ELSE clash

-----------------------------------------------------------------------------
(* Clause evaluation: one body atom is matched in the delta, the others in *)
(* the whole extension of this pass.                                       *)

Matches(old, this) ==
    {m \in ontology.clauses \X (old + 1 .. this) :
        /\ \E a \in m[1].body : rows[m[2]].lit = Pos(a)
        /\ \A a \in m[1].body : \E j \in 1 .. this : rows[j].lit = Pos(a)}

\* Mutant: the dependency set of one body atom stands for all.
BodyDepsOfOne(c) == DepsOf(Pos(CHOOSE a \in c.body : TRUE))

BodyDeps(c) == UNION {DepsOf(Pos(a)) : a \in c.body}

Satisfied(disjuncts) == \E i \in DOMAIN disjuncts : Pos(disjuncts[i]) \in Facts

Init ==
    /\ ontology \in Ontologies
    /\ rows = <<>>
    /\ extensionOld = 0
    /\ extensionThis = 0
    /\ disjunctions = <<>>
    /\ firstUnprocessed = 1
    /\ branchingPoints = <<>>
    /\ nonbacktrackable = 0
    /\ clash = {}
    /\ todo = {}
    /\ pending = ontology.facts
    /\ pendingDeps = {}
    /\ pc = "load"

\* load_abox stops at the first clash; start_next_choice asserts all its facts,
\* but skips the negations the tableau has no literal for.
AssertPending ==
    /\ pc \in {"load", "choice"}
    /\ pending # <<>>
    /\ LET l == Head(pending)
       IN  IF pc = "choice" /\ l.sign = "-" /\ l.atom \notin Negatable
           THEN UNCHANGED <<rows, clash>>
           ELSE AddFact(l, pendingDeps)
    /\ pending' = IF pc = "load" /\ clash' # {} THEN <<>> ELSE Tail(pending)
    /\ UNCHANGED <<ontology, extensionOld, extensionThis, disjunctions,
                   firstUnprocessed, branchingPoints, nonbacktrackable, todo,
                   pendingDeps, pc>>

\* A clash among the loaded facts answers at once; one met while starting the
\* next choice is left to the next iteration.
Asserted ==
    /\ pc \in {"load", "choice"}
    /\ pending = <<>>
    /\ pc' = IF pc = "load" /\ ContainsClash THEN "done" ELSE "iterate"
    /\ UNCHANGED <<ontology, table, disjunctions, firstUnprocessed,
                   branchingPoints, nonbacktrackable, clash, work>>

\* The condition of the saturation loop.  After a pass the windows advance even
\* when the pass ended in a clash.
PropagateDeltaNew ==
    /\ \/ pc = "iterate" /\ ~ContainsClash
       \/ pc = "loop"
    /\ extensionOld' = extensionThis
    /\ extensionThis' = Len(rows)
    /\ IF extensionThis # Len(rows) /\ ~ContainsClash
       THEN /\ todo' = Matches(extensionThis, Len(rows))
            /\ pc' = "apply"
       ELSE /\ todo' = {}
            /\ pc' = IF pc = "loop" THEN "iterate" ELSE "choose"
    /\ UNCHANGED <<ontology, rows, disjunctions, firstUnprocessed,
                   branchingPoints, nonbacktrackable, clash, pending,
                   pendingDeps>>

\* A match fires; the pass stops at the first clash.
Fire(m) ==
    /\ pc = "apply"
    /\ m \in todo
    /\ todo' = IF clash' # {} THEN {} ELSE todo \ {m}
    /\ UNCHANGED <<ontology, extensionOld, extensionThis, firstUnprocessed,
                   branchingPoints, nonbacktrackable, pending, pendingDeps, pc>>

DeriveClash ==
    \E m \in todo :
        /\ Len(m[1].head) = 0
        /\ clash' = {BodyDeps(m[1])}
        /\ Fire(m)
        /\ UNCHANGED <<rows, disjunctions>>

DeriveFact ==
    \E m \in todo :
        /\ Len(m[1].head) = 1
        /\ AddFact(Pos(m[1].head[1]), BodyDeps(m[1]))
        /\ Fire(m)
        /\ UNCHANGED disjunctions

\* A disjunction already satisfied is dropped, any other is queued; the queue
\* does not look for duplicates.
DeriveDisjunction ==
    \E m \in todo :
        /\ Len(m[1].head) > 1
        /\ disjunctions' =
               IF Satisfied(m[1].head)
               THEN disjunctions
               ELSE Append(disjunctions,
                           [disjuncts |-> m[1].head, deps |-> BodyDeps(m[1])])
        /\ UNCHANGED <<rows, clash>>
        /\ Fire(m)

PassFinished ==
    /\ pc = "apply"
    /\ todo = {}
    /\ pc' = "loop"
    /\ UNCHANGED <<ontology, table, disjunctions, firstUnprocessed,
                   branchingPoints, nonbacktrackable, clash, work>>

-----------------------------------------------------------------------------
(* Branching and dependency-directed backtracking.                         *)

\* The orders in which n disjuncts may be tried.
Orders(n) == {f \in [1 .. n -> 1 .. n] : \A i \in 1 .. n : \E j \in 1 .. n : f[j] = i}

Ordered(disjuncts, f) == [i \in 1 .. Len(disjuncts) |-> disjuncts[f[i]]]

\* Mutant: the table's length is recorded after the disjunct is added.
NewBranchingPointLate(choices, current, unprocessed) ==
    [choices |-> choices, current |-> current,
     old |-> extensionOld, this |-> extensionThis, new |-> Len(rows) + 1,
     disjunctions |-> Len(disjunctions), unprocessed |-> unprocessed]

NewBranchingPoint(choices, current, unprocessed) ==
    [choices |-> choices, current |-> current,
     old |-> extensionOld, this |-> extensionThis, new |-> Len(rows),
     disjunctions |-> Len(disjunctions), unprocessed |-> unprocessed]

\* The first unprocessed disjunction that is not satisfied is branched on.
ProcessGroundDisjunction(g) ==
    LET d == disjunctions[g]
    IN  /\ ~Satisfied(d.disjuncts)
        /\ \A h \in firstUnprocessed .. g - 1 : Satisfied(disjunctions[h].disjuncts)
        /\ firstUnprocessed' = g + 1
        /\ \E f \in Orders(Len(d.disjuncts)) :
              LET choices == Ordered(d.disjuncts, f)
              IN  /\ branchingPoints' =
                        Append(branchingPoints, NewBranchingPoint(choices, 1, g + 1))
                  /\ AddFact(Pos(choices[1]), d.deps \cup {Level + 1})
        /\ pc' = "iterate"

ProcessFirstGroundDisjunction ==
    /\ pc = "choose"
    /\ \/ \E g \in firstUnprocessed .. Len(disjunctions) : ProcessGroundDisjunction(g)
       \/ /\ \A g \in firstUnprocessed .. Len(disjunctions) :
                Satisfied(disjunctions[g].disjuncts)
          /\ firstUnprocessed' = Len(disjunctions) + 1
          /\ pc' = "done"
          /\ UNCHANGED <<rows, branchingPoints, clash>>
    /\ UNCHANGED <<ontology, extensionOld, extensionThis, disjunctions,
                   nonbacktrackable, work>>

\* Mutant: disjunctions that a branch had satisfied stay processed.
BacktrackToKeepsProcessed(k) ==
    LET b == branchingPoints[k]
    IN  /\ rows' = SubSeq(rows, 1, b.new)
        /\ extensionOld' = b.old
        /\ extensionThis' = b.this
        /\ disjunctions' = SubSeq(disjunctions, 1, b.disjunctions)
        /\ firstUnprocessed' = b.disjunctions + 1
        /\ clash' = {}

\* backtrack_to: the state recorded when the branching point was pushed.
BacktrackTo(k) ==
    LET b == branchingPoints[k]
    IN  /\ rows' = SubSeq(rows, 1, b.new)
        /\ extensionOld' = b.old
        /\ extensionThis' = b.this
        /\ disjunctions' = SubSeq(disjunctions, 1, b.disjunctions)
        /\ firstUnprocessed' = b.unprocessed
        /\ clash' = {}

\* Mutant: the next disjunct depends on nothing but its own level.
StartNextChoiceForgetsClash(k, d) ==
    LET b == branchingPoints[k]
        n == b.current + 1
    IN  /\ branchingPoints' =
               Append(SubSeq(branchingPoints, 1, k - 1), [b EXCEPT !.current = n])
        /\ pending' = [i \in 1 .. n |-> IF i < n THEN Neg(b.choices[i]) ELSE Pos(b.choices[i])]
        /\ pendingDeps' = IF n = Len(b.choices) THEN {} ELSE {k}

\* Mutant: the branching point is not advanced.
StartNextChoiceRepeats(k, d) ==
    LET b == branchingPoints[k]
        n == b.current
    IN  /\ branchingPoints' = SubSeq(branchingPoints, 1, k)
        /\ pending' = [i \in 1 .. n |-> IF i < n THEN Neg(b.choices[i]) ELSE Pos(b.choices[i])]
        /\ pendingDeps' = d

\* backtrack_to leaves the branching point itself on the stack; start_next_choice
\* advances it, negates the disjuncts tried so far and asserts the next one.
\* The last disjunct no longer depends on the branching point.
StartNextChoice(k, d) ==
    LET b == branchingPoints[k]
        n == b.current + 1
    IN  /\ branchingPoints' =
               Append(SubSeq(branchingPoints, 1, k - 1), [b EXCEPT !.current = n])
        /\ pending' = [i \in 1 .. n |-> IF i < n THEN Neg(b.choices[i]) ELSE Pos(b.choices[i])]
        /\ pendingDeps' = IF n = Len(b.choices) THEN d \ {k} ELSE d

IsMaximum(k, d) == (\A j \in d : j <= k) /\ (k \in d \/ (k = 0 /\ d = {}))

BacktrackOnClash ==
    /\ pc = "iterate"
    /\ \E d \in clash, k \in 0 .. Level :
          /\ IsMaximum(k, d)
          /\ IF k <= nonbacktrackable
             THEN /\ pc' = "done"
                  /\ UNCHANGED <<table, disjunctions, firstUnprocessed,
                                 branchingPoints, clash, pending, pendingDeps>>
             ELSE /\ BacktrackTo(k)
                  /\ StartNextChoice(k, d)
                  /\ pc' = "choice"
    /\ UNCHANGED <<ontology, nonbacktrackable, todo>>

Step ==
    \/ AssertPending
    \/ Asserted
    \/ PropagateDeltaNew
    \/ DeriveClash
    \/ DeriveFact
    \/ DeriveDisjunction
    \/ PassFinished
    \/ ProcessFirstGroundDisjunction
    \/ BacktrackOnClash

Finished == pc = "done" /\ UNCHANGED vars

Next == Step \/ Finished

\* One thread runs the loop and nothing in it waits.
Spec == Init /\ [][Next]_vars /\ WF_vars(Step)
-----------------------------------------------------------------------------
(* Properties.                                                             *)

Holds(M, l) == IF l.sign = "+" THEN l.atom \in M ELSE l.atom \notin M

SomeHolds(M, disjuncts) == \E i \in DOMAIN disjuncts : disjuncts[i] \in M

Models ==
    {M \in SUBSET Atoms :
        /\ \A c \in ontology.clauses : c.body \subseteq M => SomeHolds(M, c.head)
        /\ \A i \in DOMAIN ontology.facts : Holds(M, ontology.facts[i])}

\* The dependency sets in use: of tuples, of disjunctions, of the clash and of
\* the facts about to be asserted.
LiveDeps ==
    {rows[i].deps : i \in DOMAIN rows}
    \cup {disjunctions[i].deps : i \in DOMAIN disjunctions}
    \cup clash
    \cup (IF pending = <<>> THEN {} ELSE {pendingDeps})

\* The windows of the extension table, the queue of disjunctions and the stack
\* of branching points are well formed.
TypeOK ==
    /\ ontology \in Ontologies
    /\ rows \in Seq(Row)
    /\ extensionThis \in 0 .. Len(rows)
    /\ extensionOld \in 0 .. extensionThis
    /\ disjunctions \in Seq(Disjunction)
    /\ firstUnprocessed \in 1 .. Len(disjunctions) + 1
    /\ branchingPoints \in Seq(BranchingPoint)
    /\ nonbacktrackable = 0
    /\ clash \in SUBSET SUBSET Nat
    /\ todo \in SUBSET (ontology.clauses \X (1 .. Len(rows)))
    /\ pending \in Seq(Literal)
    /\ pendingDeps \in SUBSET Nat
    /\ pc \in Control

RecordsPrefix(k) ==
    LET b == branchingPoints[k]
    IN  /\ b.this \in 0 .. b.new /\ b.old \in 0 .. b.this
        /\ b.new <= Len(rows)
        /\ b.disjunctions <= Len(disjunctions)
        /\ b.unprocessed \in 1 .. b.disjunctions + 1
        /\ \A j \in k .. Level : /\ b.new <= branchingPoints[j].new
                                 /\ b.disjunctions <= branchingPoints[j].disjunctions
        /\ \A i \in 1 .. b.new : rows[i].deps \subseteq 1 .. k - 1
        /\ \A i \in 1 .. b.disjunctions : disjunctions[i].deps \subseteq 1 .. k - 1

\* What a branching point recorded is still there to go back to, and depends
\* on the choices below it only: undoing its choice cannot leave behind a
\* tuple or a disjunction derived from that choice.
StackRecordsPrefix == \A k \in 1 .. Level : RecordsPrefix(k)

\* A run that ends in a clash was given facts and clauses that have no model:
\* no branch that backtrack_on_clash skipped could have led to one.
UnsatisfiableAnswer == pc = "done" /\ ContainsClash => Models = {}

\* A run that ends without a clash leaves a model in the extension table: no
\* clause match and no disjunction was lost on the way, in particular none whose
\* work was undone by backtracking.
ModelAnswer ==
    pc = "done" /\ ~ContainsClash => {a \in Atoms : Pos(a) \in Facts} \in Models

\* The choice the k-th branching point of stack stands at holds in M: its
\* current disjunct does and those tried before it do not.
ChoiceHolds(stack, M, k) ==
    /\ stack[k].choices[stack[k].current] \in M
    /\ \A i \in 1 .. stack[k].current - 1 : stack[k].choices[i] \notin M

ChoicesHold(stack, M, deps) == \A k \in deps : ChoiceHolds(stack, M, k)

\* A dependency set names every choice its fact rests on: a model that agrees
\* with those choices makes the fact true, satisfies the queued disjunction, and
\* does not exist when the fact is the clash.
DependenciesJustify ==
    \A M \in Models :
        /\ \A i \in DOMAIN rows :
              ChoicesHold(branchingPoints, M, rows[i].deps) => Holds(M, rows[i].lit)
        /\ \A i \in DOMAIN disjunctions :
              ChoicesHold(branchingPoints, M, disjunctions[i].deps)
                  => SomeHolds(M, disjunctions[i].disjuncts)
        /\ \A deps \in clash : ~ChoicesHold(branchingPoints, M, deps)

\* The k-th branching point is of use to M, and M refutes what it has given up.
Refuted(stack, M, k) ==
    /\ SomeHolds(M, stack[k].choices)
    /\ \A i \in 1 .. stack[k].current - 1 : stack[k].choices[i] \notin M

\* The disjuncts a branching point has given up are refuted by the choices below
\* it that the facts depending on it also depend on: this is what lets
\* start_next_choice drop the level from the last disjunct's dependency set.
AbandonedChoicesRefuted ==
    \A M \in Models : \A deps \in LiveDeps : \A k \in deps :
        ChoicesHold(branchingPoints, M, {j \in deps : j < k})
            => Refuted(branchingPoints, M, k)

\* A clash never sends the calculus back to a branching point whose last
\* disjunct is already chosen: sorted[current_index] stays in range.
ExhaustedChoiceNotNamed ==
    \A deps \in LiveDeps : \A k \in deps :
        /\ k \in 1 .. Level
        /\ branchingPoints[k].current < Len(branchingPoints[k].choices)

\* Every run ends: saturate or clash, the loop does not run forever.
Termination == <>(pc = "done")

-----------------------------------------------------------------------------
(* The inductive invariant: what is true of every state of a run that     *)
(* looks for a model among Ms, assumes the literals N on the branching     *)
(* points without choices, and backtracks no further than nb.              *)

\* What the k-th branching point of stack stands for in M: a checkpoint or a dummy,
\* which has no choices, for the literals N that were assumed on it.
Stands(N, stack, M, k) ==
    IF stack[k].choices = <<>> THEN \A l \in N : Holds(M, l) ELSE ChoiceHolds(stack, M, k)

AllStand(N, stack, M, deps) == \A k \in deps : Stands(N, stack, M, k)

\* Of the branching points that can be gone back to, those above nb, a dependency
\* set names none that is exhausted, and what they have given up is refuted.
Grounded(Ms, N, nb, stack, deps) ==
    /\ deps \subseteq 1 .. Len(stack)
    /\ \A k \in deps : k > nb => stack[k].current < Len(stack[k].choices)
    /\ \A M \in Ms : \A k \in deps :
          k > nb /\ AllStand(N, stack, M, {j \in deps : j < k}) => Refuted(stack, M, k)

AllGrounded(Ms, N, nb) ==
    \A deps \in LiveDeps : Grounded(Ms, N, nb, branchingPoints, deps)

Justified(Ms, N) ==
    \A M \in Ms :
        /\ \A i \in DOMAIN rows :
              AllStand(N, branchingPoints, M, rows[i].deps) => Holds(M, rows[i].lit)
        /\ \A i \in DOMAIN disjunctions :
              AllStand(N, branchingPoints, M, disjunctions[i].deps)
                  => SomeHolds(M, disjunctions[i].disjuncts)
        /\ \A deps \in clash : ~AllStand(N, branchingPoints, M, deps)

PendingJustified(Ms, N) ==
    \A M \in Ms : \A i \in DOMAIN pending :
        AllStand(N, branchingPoints, M, pendingDeps) => Holds(M, pending[i])

\* The disjunctions queued, and so the branching points, have two disjuncts or
\* more, and a branching point stands at one of its own.
Branching(nb) ==
    /\ \A i \in DOMAIN disjunctions : Len(disjunctions[i].disjuncts) > 1
    /\ \A k \in 1 .. Level :
          k > nb => branchingPoints[k].current \in 1 .. Len(branchingPoints[k].choices)

\* A match is pending only during its pass, and its body is in the table.
TodoMatched ==
    /\ pc # "apply" => todo = {}
    /\ \A m \in todo : \A a \in m[1].body : Pos(a) \in Facts

\* Facts are loaded before anything is branched on, a disjunction is chosen only
\* without a clash, and a final clash depends on no choice that can be undone.
Phases(nb) ==
    /\ pc = "load" => branchingPoints = <<>>
    /\ pc = "choose" => ~ContainsClash
    /\ pc = "done" /\ ContainsClash => \E deps \in clash : \A j \in deps : j <= nb

Obey(Ms, o) ==
    \A M \in Ms : \A c \in o.clauses : c.body \subseteq M => SomeHolds(M, c.head)

\* The table, the queue and the stack are well formed, and the interpretations Ms
\* are models of the clauses.
Formed(Ms, nb) ==
    /\ ontology \in Ontologies
    /\ rows \in Seq(Row)
    /\ extensionThis \in 0 .. Len(rows)
    /\ extensionOld \in 0 .. extensionThis
    /\ disjunctions \in Seq(Disjunction)
    /\ firstUnprocessed \in 1 .. Len(disjunctions) + 1
    /\ branchingPoints \in Seq(BranchingPoint)
    /\ nonbacktrackable = nb /\ nb \in 0 .. Len(branchingPoints)
    /\ clash \in SUBSET SUBSET Nat
    /\ todo \in SUBSET (ontology.clauses \X (1 .. Len(rows)))
    /\ pending \in Seq(Literal)
    /\ pendingDeps \in SUBSET Nat
    /\ Obey(Ms, ontology)

\* The invariant of a run that looks for a model among Ms and backtracks no
\* further than nb.
Sound(Ms, N, nb) ==
    /\ Formed(Ms, nb)
    /\ StackRecordsPrefix
    /\ Branching(nb)
    /\ AllGrounded(Ms, N, nb)
    /\ Justified(Ms, N)
    /\ PendingJustified(Ms, N)
    /\ TodoMatched
    /\ Phases(nb)

-----------------------------------------------------------------------------
(* What makes a run complete: Rs are the literals that a model must        *)
(* satisfy beside the clauses.                                             *)

\* The literals of the first n tuples of a table.
Prefix(tuples, n) == {tuples[i].lit : i \in 1 .. n}

\* A disjunct is among some literals.
Chosen(lits, disjuncts) == \E i \in DOMAIN disjuncts : Pos(disjuncts[i]) \in lits

Consistent(lits) == \A l \in lits : Complement(l) \notin lits

Matched(lits, c) == \A a \in c.body : Pos(a) \in lits

\* The head of a clause is in the table or among the first n queued disjunctions.
Handled(lits, queue, n, c) ==
    Chosen(lits, c.head) \/ \E g \in 1 .. n : queue[g].disjuncts = c.head

\* What a branching point recorded: the last disjunction it counts as processed
\* is the one it branches on.
Recorded(o, Rs, tuples, queue, b) ==
    /\ Rs \subseteq Prefix(tuples, b.new) /\ Consistent(Prefix(tuples, b.new))
    /\ \A c \in o.clauses : Matched(Prefix(tuples, b.this), c)
          => Handled(Prefix(tuples, b.new), queue, b.disjunctions, c)
    /\ \A g \in 1 .. b.unprocessed - 1 :
          \/ Chosen(Prefix(tuples, b.new), queue[g].disjuncts)
          \/ \A x \in DOMAIN b.choices : \E i \in DOMAIN queue[g].disjuncts :
                queue[g].disjuncts[i] = b.choices[x]

\* The literals Rs the run is about are in the table, or still to be asserted.
FactsKept(Rs) ==
    \A l \in Rs : \/ l \in Facts
                  \/ pc \in {"load", "test"} /\ \E p \in DOMAIN pending : pending[p] = l

\* A clause matched in the windows evaluated so far is handled, or is a match
\* of the pass that has still to fire.
MatchesKept ==
    \A c \in ontology.clauses : Matched(Prefix(rows, extensionThis), c) =>
        Handled(Facts, disjunctions, Len(disjunctions), c) \/ \E m \in todo : m[1] = c

\* A disjunction that was processed has a disjunct in the table or about to be
\* asserted.
DisjunctionsKept ==
    \A g \in 1 .. firstUnprocessed - 1 :
        \/ Chosen(Facts, disjunctions[g].disjuncts)
        \/ \E p \in DOMAIN pending, i \in DOMAIN disjunctions[g].disjuncts :
              pending[p] = Pos(disjunctions[g].disjuncts[i])

Present(Rs) ==
    ~ContainsClash => Consistent(Facts) /\ FactsKept(Rs) /\ MatchesKept /\ DisjunctionsKept

AllRecorded(Rs, nb) ==
    \A k \in 1 .. Level :
        k > nb => Recorded(ontology, Rs, rows, disjunctions, branchingPoints[k])

Stages ==
    /\ pc \notin {"load", "choice", "test"} => pending = <<>>
    /\ pc = "choose" => extensionThis = Len(rows)
    /\ pc = "done" /\ ~ContainsClash =>
          extensionThis = Len(rows) /\ firstUnprocessed = Len(disjunctions) + 1

Complete(Rs, nb) == Present(Rs) /\ AllRecorded(Rs, nb) /\ Stages

=============================================================================
