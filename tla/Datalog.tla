------------------------------ MODULE Datalog ------------------------------
(***************************************************************************)
(* The datalog engine (datalog.rs): an ABox of Horn DL-clauses is loaded   *)
(* and saturated once into a tableau without existential expansion, the    *)
(* result is cached, and conjunctive queries are joined over it.  Another  *)
(* thread may interrupt the engine at any moment.                          *)
(*                                                                         *)
(* Assertions are tuples <<predicate, argument, ...>>, over individuals in *)
(* an ontology and over nodes in the tableau; "eq" and "neq" are Equality  *)
(* and Inequality, "T" is owl:Thing, InverseOf gives the inverse roles of    *)
(* queries.  Datatypes, description graphs and the annotated equalities of *)
(* an iteration are left out.                                              *)
(***************************************************************************)
EXTENDS Integers, FiniteSets, Sequences, SequencesExt, Functions

CONSTANTS
    Ontologies,     \* the clausified ontologies: positive, negative, clauses
    Anonymous,      \* the individuals that are anonymous
    InverseOf,      \* inverse role -> role
    Negation,       \* predicate -> the label of its negation
    MayInterrupt    \* whether another thread interrupts

VARIABLES
    ont,            \* the ontology of the engine
    cache,          \* {} or {the materialization}
    interrupted,    \* the latch of the engine's interrupt handle
    tab,            \* the tableau under construction
    pc,
    outcome         \* what the last materialize() returned

datalogVars == <<ont, cache, interrupted, tab, pc, outcome>>

Unary(f) == Len(f) = 2

-----------------------------------------------------------------------------
(* The tableau: nodes in creation order, assertions, merges.               *)

NewTableau == [type |-> <<>>, into |-> <<>>, old |-> {}, delta |-> {}, new |-> {},
               nodeOf |-> <<>>, clash |-> FALSE, todo |-> {}, pending |-> FALSE,
               changed |-> FALSE]

Facts(t) == t.old \cup t.delta \cup t.new
ActiveNode(t, n) == t.into[n] = n
CanonicalNode(t, n) ==
    LET canonical[m \in DOMAIN t.into] == IF t.into[m] = m THEN m ELSE canonical[t.into[m]]
    IN  canonical[n]
Live(t, f) == \A i \in 2..Len(f) : ActiveNode(t, f[i])

CreateNode(t, type) ==
    [t EXCEPT !.type = Append(@, type), !.into = Append(@, Len(@) + 1)]

Complement(f) == {<<Negation[p]>> \o Tail(f) : p \in {f[1]} \cap DOMAIN Negation}
                 \cup {<<p>> \o Tail(f) : p \in {q \in DOMAIN Negation : Negation[q] = f[1]}}

\* A stored assertion that contradicts another, or the inequality of a node
\* and itself, is a clash.
AddFact(t, f) ==
    IF f \in Facts(t) THEN t
    ELSE [t EXCEPT !.new = @ \cup {f},
                   !.clash = \/ @
                             \/ Complement(f) \cap Facts(t) # {}
                             \/ f[1] = "neq" /\ f[2] = f[3]]

PositiveConcepts(t, n) ==
    Cardinality({f \in Facts(t) : Unary(f) /\ f[2] = n /\ f[1] \notin Range(Negation)})

\* Mutant: anonymous individuals may absorb named ones.
LaterSurvives(t, n0, n1) == <<n0, n1>>
\* <<merged away, survivor>>.  All nodes are roots: named ones before others,
\* then the one with more concepts, then the second.
MergeDirection(t, n0, n1) ==
    CASE t.type[n0] = "named" /\ t.type[n1] # "named" -> <<n1, n0>>
      [] t.type[n0] # "named" /\ t.type[n1] = "named" -> <<n0, n1>>
      [] OTHER -> IF PositiveConcepts(t, n0) > PositiveConcepts(t, n1)
                  THEN <<n1, n0>> ELSE <<n0, n1>>

MergeNodes(t, n0, n1) ==
    IF ~ActiveNode(t, n0) \/ ~ActiveNode(t, n1) \/ n0 = n1 THEN t
    ELSE LET dir == MergeDirection(t, n0, n1)
             image(f) == [i \in DOMAIN f |-> IF i > 1 /\ f[i] = dir[1] THEN dir[2] ELSE f[i]]
             copied == {image(f) : f \in {g \in Facts(t) :
                           Live(t, g) /\ \E i \in 2..Len(g) : g[i] = dir[1]}}
         IN  [FoldLeft(AddFact, t, SetToSeq(copied)) EXCEPT !.into[dir[1]] = dir[2]]

Derive(t, f) == IF f[1] = "bot" THEN [t EXCEPT !.clash = TRUE]
                ELSE IF f[1] = "eq" THEN MergeNodes(t, f[2], f[3]) ELSE AddFact(t, f)

-----------------------------------------------------------------------------
(* Loading the ABox.                                                       *)

NodeForTerm(t, i) ==
    IF i \in DOMAIN t.nodeOf THEN t
    ELSE LET c == CreateNode(t, IF i \in Anonymous THEN "ni" ELSE "named")
         IN  [c EXCEPT !.nodeOf = (i :> Len(c.type)) @@ @]

\* A negative (in)equality is loaded as its opposite, another negative fact
\* under its negated predicate.
Asserted(f, negative) ==
    IF ~negative THEN f
    ELSE CASE f[1] = "eq"  -> <<"neq">> \o Tail(f)
           [] f[1] = "neq" -> <<"eq">> \o Tail(f)
           [] OTHER        -> <<Negation[f[1]]>> \o Tail(f)

AssertFact(t, f, negative) ==
    IF t.clash THEN t
    ELSE LET loaded == FoldLeft(NodeForTerm, t, Tail(f))
             node(i) == CanonicalNode(loaded, loaded.nodeOf[i])
             image == [k \in DOMAIN f |-> IF k = 1 THEN f[1] ELSE node(f[k])]
         IN  Derive(loaded, Asserted(image, negative))

LoadABox(o) ==
    LET positive == FoldLeft(LAMBDA t, f : AssertFact(t, f, FALSE), NewTableau, o.positive)
        loaded == FoldLeft(LAMBDA t, f : AssertFact(t, f, TRUE), positive, o.negative)
    IN  IF loaded.type = <<>> THEN CreateNode(loaded, "ni") ELSE loaded

-----------------------------------------------------------------------------
(* Matching an atom with variables against assertions: the bindings that   *)
(* extend b.                                                               *)

Variables(atoms) == UNION {Range(Tail(atoms[i])) : i \in DOMAIN atoms}

Extending(b, atom, f) ==
    LET places == 2..Len(atom)
        fits == /\ \A i \in places : atom[i] \in DOMAIN b => b[atom[i]] = f[i]
                /\ \A i, j \in places : atom[i] = atom[j] => f[i] = f[j]
        value(v) == f[CHOOSE i \in places : atom[i] = v]
    IN  IF fits THEN {b @@ [v \in Range(Tail(atom)) |-> value(v)]} ELSE {}

\* What an evaluator derives from a delta tuple: the heads of the matches in
\* which some body atom is the tuple and the others are in the extension.
Heads(t, clause, x) ==
    LET extension == {f \in t.old \cup t.delta : Live(t, f)}
        matches(k) == FoldLeft(LAMBDA bs, i : UNION {
                          UNION {Extending(b, clause.body[i], f) :
                                 f \in {g \in (IF i = k THEN {x} ELSE extension) :
                                           g[1] = clause.body[i][1]}} : b \in bs},
                          {<<>>}, [i \in DOMAIN clause.body |-> i])
        instance(b) == [i \in DOMAIN clause.head |-> IF i = 1 THEN clause.head[1]
                                                     ELSE b[clause.head[i]]]
    IN  {instance(b) : b \in UNION {matches(k) : k \in DOMAIN clause.body}}

\* A head is derived on the nodes its own match had bound: a merge earlier in
\* the pass may have left them inactive, and the assertion is then dropped.
DeriveHead(t, f) ==
    IF t.clash \/ ~Live(t, f) THEN t ELSE Derive(t, f)

-----------------------------------------------------------------------------
(* materialize() and saturate().                                           *)

\* The part of the tableau that a materialization keeps.
Materialization(t) == [type |-> t.type, into |-> t.into, facts |-> Facts(t), nodeOf |-> t.nodeOf]

Finish(t) ==
    /\ outcome' = IF t.clash THEN "unsatisfiable" ELSE "ok"
    /\ cache' = IF t.clash THEN {} ELSE {Materialization(t)}
    /\ tab' = NewTableau
    /\ pc' = "idle"

\* The first use of the engine, or one after an unsatisfiable outcome.
Materialize ==
    /\ pc = "idle" /\ cache = {}
    /\ LET loaded == LoadABox(ont)
       IN  IF loaded.clash THEN Finish(loaded)
           ELSE tab' = loaded /\ pc' = "start" /\ UNCHANGED <<cache, outcome>>
    /\ UNCHANGED <<ont, interrupted>>

StartTask ==
    /\ pc = "start"
    /\ interrupted' = FALSE
    /\ tab' = [tab EXCEPT !.pending = FALSE]
    /\ pc' = "head"
    /\ UNCHANGED <<ont, cache, outcome>>

\* The head of an iteration polls the latch; so does the end of the task.
IterationHead ==
    /\ pc = "head"
    /\ pc' = IF interrupted \/ tab.clash THEN "end" ELSE "propagate"
    /\ tab' = [tab EXCEPT !.changed = FALSE]
    /\ UNCHANGED <<ont, cache, interrupted, outcome>>

PropagateDeltaNew(t) ==
    [t EXCEPT !.old = @ \cup t.delta, !.delta = t.new, !.new = {}]

\* The evaluators for the predicate of a delta tuple, by pairs.
Work(t) == {w \in t.delta \X ont.clauses :
               Live(t, w[1]) /\ \E i \in DOMAIN w[2].body : w[2].body[i][1] = w[1][1]}

Propagate ==
    /\ pc = "propagate"
    /\ LET t == PropagateDeltaNew(tab)
       IN  IF t.delta # {} /\ ~t.clash
           THEN tab' = [t EXCEPT !.todo = Work(t), !.changed = TRUE] /\ pc' = "evaluate"
           ELSE tab' = t /\ pc' = IF t.changed THEN "head" ELSE "end"
    /\ UNCHANGED <<ont, cache, interrupted, outcome>>

\* One clause over one delta tuple, concept assertions before roles.  The
\* evaluator polls before it does anything: once an interrupt is noted, no
\* clause is evaluated any more.
Evaluate ==
    /\ pc = "evaluate" /\ tab.todo # {}
    /\ \E w \in tab.todo :
         /\ Unary(w[1]) \/ \A v \in tab.todo : ~Unary(v[1])
         /\ LET noted == tab.pending \/ interrupted
                heads == IF noted \/ tab.clash \/ ~Live(tab, w[1]) THEN {}
                         ELSE Heads(tab, w[2], w[1])
            IN  tab' = [FoldLeft(DeriveHead, tab, SetToSeq(heads)) EXCEPT
                           !.todo = @ \ {w}, !.pending = noted]
    /\ UNCHANGED <<ont, cache, interrupted, pc, outcome>>

PassDone ==
    /\ pc = "evaluate" /\ tab.todo = {}
    /\ pc' = "propagate"
    /\ UNCHANGED <<ont, cache, interrupted, tab, outcome>>

EndTask ==
    /\ pc = "end"
    /\ interrupted' = FALSE
    /\ Finish(tab)
    /\ UNCHANGED ont

Interrupt ==
    /\ MayInterrupt /\ ~interrupted
    /\ interrupted' = TRUE
    /\ UNCHANGED <<ont, cache, tab, pc, outcome>>

Init ==
    /\ ont \in Ontologies
    /\ cache = {} /\ interrupted = FALSE /\ tab = NewTableau
    /\ pc = "idle" /\ outcome = "none"

Engine == \/ Materialize \/ StartTask \/ IterationHead \/ Propagate
          \/ Evaluate \/ PassDone \/ EndTask

Next == Engine \/ Interrupt

\* The thread that materializes keeps running until it is done; nothing obliges
\* the other.  (Engine is enabled whenever pc is not "idle".)
Spec == /\ Init /\ [][Next]_datalogVars
        /\ []<>(pc = "idle") \/ []<><<Engine>>_datalogVars

-----------------------------------------------------------------------------
(* Conjunctive queries over a materialization m.                           *)

NodeForIri(m, i) == CanonicalNode(m, m.nodeOf[i])
Loaded(m) == DOMAIN m.nodeOf
NodeToTerm(m, n) == {i \in Loaded(m) : m.nodeOf[i] = n}

RepresentativeOf(m, i) ==
    IF i \in Loaded(m) THEN NodeToTerm(m, NodeForIri(m, i)) ELSE {}
EquivalenceClassOf(m, i) ==
    IF i \in Loaded(m) THEN {j \in Loaded(m) : NodeForIri(m, j) = NodeForIri(m, i)} ELSE {}

ConceptExtension(m, c) ==
    IF c = "T" THEN {<<"T", n>> : n \in {k \in DOMAIN m.into : ActiveNode(m, k)}}
    ELSE {f \in m.facts : f[1] = c /\ Live(m, f)}

\* Equality is never stored, so its extension is empty.
RoleExtension(m, r) ==
    IF r \in DOMAIN InverseOf
    THEN {<<r, f[3], f[2]>> : f \in {g \in m.facts : g[1] = InverseOf[r] /\ Live(m, g)}}
    ELSE {f \in m.facts : f[1] = r /\ Live(m, f)}

AtomGoodness(atom, bound, individuals) ==
    LET vars == [i \in 2..Len(atom) |-> atom[i] \notin individuals]
        count(in) == Cardinality({i \in DOMAIN vars : vars[i] /\ (atom[i] \in bound) = in})
    IN  count(TRUE) * 100 - count(FALSE) * 10

\* Body atom 0 first, then always the best remaining one, the last of equals.
SwapBodyAtoms(atoms, individuals) ==
    LET order[k \in 1..Len(atoms)] ==
            IF k = 1 THEN <<1>>
            ELSE LET used == Range(order[k - 1])
                     bound == UNION {Range(Tail(atoms[i])) : i \in used} \ individuals
                     rest == DOMAIN atoms \ used
                     good(i) == AtomGoodness(atoms[i], bound, individuals)
                 IN  Append(order[k - 1],
                            CHOOSE i \in rest : \A j \in rest :
                                good(j) < good(i) \/ (good(j) = good(i) /\ j <= i))
    IN  IF atoms = <<>> THEN <<>>
        ELSE [k \in DOMAIN atoms |-> atoms[order[Len(atoms)][k]]]

\* The join: after each atom, the bindings of variables to nodes.
Retrieve(m, atom, b) ==
    UNION {Extending(b, atom, f) : f \in IF Unary(atom) THEN ConceptExtension(m, atom[1])
                                         ELSE RoleExtension(m, atom[1])}
Join(m, atoms) ==
    FoldLeft(LAMBDA bs, atom : UNION {Retrieve(m, atom, b) : b \in bs},
             {[i \in Loaded(m) |-> NodeForIri(m, i)]}, atoms)

\* An answer column: the constant itself, or the term of the node if it has one.
AnswerColumn(m, q, b, term) ==
    IF term \in q.individuals THEN {term}
    ELSE IF term \in DOMAIN b THEN NodeToTerm(m, b[term]) ELSE {}

UnknownTerms(m, q) == (Variables(q.atoms) \cap q.individuals) \ Loaded(m)

\* The error for unknown terms, or one row per binding.
EvaluateQuery(m, q) ==
    IF UnknownTerms(m, q) # {} THEN [error |-> TRUE, rows |-> {}, bindings |-> {}]
    ELSE LET bs == Join(m, SwapBodyAtoms(q.atoms, q.individuals))
             row(b) == [k \in DOMAIN q.answers |-> AnswerColumn(m, q, b, q.answers[k])]
         IN  [error |-> FALSE, rows |-> {row(b) : b \in bs},
              bindings |-> {<<b, row(b)>> : b \in bs}]

-----------------------------------------------------------------------------
(* The reference: the least model of the ontology over its individuals,    *)
(* with equality as a congruence, computed without nodes, merges or        *)
(* deltas.                                                                 *)

CONSTANTS
    Queries,        \* the conjunctive queries asked
    MaxSteps        \* bound on the steps to the least model

Terms(o) == UNION {Range(Tail(f)) : f \in Range(o.positive) \cup Range(o.negative)}
TermDomain(o) == IF Terms(o) = {} THEN {"_"} ELSE Terms(o)

InitialFacts(o) ==
    Range(o.positive) \cup {Asserted(f, TRUE) : f \in Range(o.negative)}
    \cup {<<"eq", i, i>> : i \in TermDomain(o)}

Rewritten(F) ==
    LET pairs == {f \in F : f[1] = "eq"}
    IN  F \cup {<<"eq", f[3], f[2]>> : f \in pairs}
          \cup UNION {{<<f[1], i>> : i \in {p[3] : p \in {e \in pairs : e[2] = f[2]}}} :
                     f \in {g \in F : Unary(g)}}
          \cup UNION {{<<f[1], p[3], e[3]>> : p \in {x \in pairs : x[2] = f[2]},
                                            e \in {x \in pairs : x[2] = f[3]}} :
                     f \in {g \in F : Len(g) = 3}}

Instances(o, F, clause) ==
    LET at(s, atom) == [i \in DOMAIN atom |-> IF i = 1 THEN atom[1] ELSE s[atom[i]]]
    IN  {at(s, clause.head) : s \in {z \in [Variables(clause.body) -> TermDomain(o)] :
                                      \A i \in DOMAIN clause.body : at(z, clause.body[i]) \in F}}

Step(o, F) == Rewritten(F) \cup UNION {Instances(o, F, c) : c \in o.clauses}
LeastModel(o) ==
    LET model[k \in 0..MaxSteps] == IF k = 0 THEN InitialFacts(o) ELSE Step(o, model[k - 1])
    IN  model[MaxSteps]

Inconsistent(F) ==
    \/ <<"bot">> \in F
    \/ \E f \in F : f[1] = "neq" /\ <<"eq", f[2], f[3]>> \in F
    \/ \E f \in F : f[1] \in DOMAIN Negation /\ <<Negation[f[1]]>> \o Tail(f) \in F

ClassOf(F, i) == {j \in {f[2] : f \in {g \in F : Len(g) > 1}} : <<"eq", i, j>> \in F}

\* What a query atom says of individuals; Equality atoms have no answers
\* (test equality_atom_off_materialization).
Entailed(o, F, atom, at) ==
    CASE atom[1] = "T"  -> at[2] \in TermDomain(o)
      [] atom[1] = "eq" -> FALSE
      [] atom[1] \in DOMAIN InverseOf -> <<InverseOf[atom[1]], at[3], at[2]>> \in F
      [] OTHER -> <<atom[1]>> \o Tail(at) \in F

\* The certain rows, each column a class of equal individuals or empty, with
\* the bindings of variables to classes that give them.
CertainBindings(o, F, q) ==
    LET classes == {ClassOf(F, i) : i \in TermDomain(o)}
        vars == Variables(q.atoms) \ q.individuals
        element(s, x) == IF x \in q.individuals THEN x ELSE CHOOSE i \in s[x] : TRUE
        at(s, atom) == [k \in DOMAIN atom |-> IF k = 1 THEN atom[1] ELSE element(s, atom[k])]
        column(s, x) == IF x \in q.individuals THEN ClassOf(F, x) \cup {x}
                        ELSE IF x \in vars /\ s[x] # {"_"} THEN s[x] ELSE {}
    IN  {<<s, [k \in DOMAIN q.answers |-> column(s, q.answers[k])]>> :
         s \in {z \in [vars -> classes] :
               \A i \in DOMAIN q.atoms : Entailed(o, F, q.atoms[i], at(z, q.atoms[i]))}}

RowOfClasses(F, row) == [k \in DOMAIN row |->
    UNION {ClassOf(F, i) \cup {i} : i \in row[k]}]

-----------------------------------------------------------------------------
(* Properties.                                                             *)

\* materialize() and evaluate(): an engine that has a materialization answers
\* every query with the certain answers of the ontology, one row for every
\* binding to distinct elements, and reports an inconsistent ontology instead.
AnswersCertain ==
    pc = "idle" =>
    LET F == LeastModel(ont)
    IN  /\ outcome = "unsatisfiable" => Inconsistent(F)
        /\ \A m \in cache :
             /\ ~Inconsistent(F)
             /\ \A q \in Queries :
                  LET a == EvaluateQuery(m, q)
                      c == CertainBindings(ont, F, q)
                      code(row) == {b \in a.bindings : RowOfClasses(F, b[2]) = row}
                      certain(row) == {s \in c : s[2] = row}
                  IN  IF a.error THEN UnknownTerms(m, q) \subseteq q.individuals \ Terms(ont)
                      ELSE \A row \in {s[2] : s \in c} \cup {RowOfClasses(F, r) : r \in a.rows} :
                               Cardinality(code(row)) = Cardinality(certain(row))

\* evaluate() is sound whatever was interrupted: an answer row stands for a
\* certain one, and the unsatisfiable outcome is never wrong.
AnswersSound ==
    pc = "idle" =>
    LET F == LeastModel(ont)
    IN  /\ outcome = "unsatisfiable" => Inconsistent(F)
        /\ \A m \in cache : ~Inconsistent(F) =>
             \A q \in Queries : \A row \in EvaluateQuery(m, q).rows :
                 RowOfClasses(F, row) \in {s[2] : s \in CertainBindings(ont, F, q)}

\* get_representative and get_equivalence_class agree: the members of a class
\* have one representative, it is a member, and it is a named individual if
\* the class has one; queries answer with it and no other member.
RepresentativesAgree ==
    \A m \in cache : \A i \in Loaded(m) :
        LET class == EquivalenceClassOf(m, i)
        IN  /\ i \in class
            /\ \E rep \in class : \A j \in class : RepresentativeOf(m, j) = {rep}
            /\ class \subseteq Anonymous \/ RepresentativeOf(m, i) \cap Anonymous = {}
            /\ \A q \in Queries : \A b \in EvaluateQuery(m, q).bindings :
                 \A k \in DOMAIN q.answers :
                     q.answers[k] \notin q.individuals /\ b[2][k] \cap class # {}
                     => b[2][k] = RepresentativeOf(m, i)

=============================================================================
