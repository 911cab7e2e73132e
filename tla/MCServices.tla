----------------------------- MODULE MCServices -----------------------------
(***************************************************************************)
(* The services over a reasoner.  A behaviour runs one of six components,  *)
(* chosen in the initial state: explanations, entailment of axioms,        *)
(* queries, property hierarchies, the datalog engine and the incremental   *)
(* reasoner.  The variables of the others stay at Unused, the search for   *)
(* explanations in an initial state.                                       *)
(***************************************************************************)
EXTENDS Explanations, Semantics

VARIABLES component,
          ont, axiom, core, public,                                     \* Entailment
          question, answer, asked,                                      \* Queries
          kase, subsumers, hierarchy, named, stage,                     \* PropertyHierarchy
          cache, interrupted, tab, pc, outcome,                         \* Datalog
          ontology, pending, consistent, dl, original, incremental,
          precomputed, instanceIndex                                    \* Incremental
suiteVars == <<component, justifications, worklist, explored, removed, support, index, found, phase, ont, axiom,
               core, public, question, answer, asked, kase, subsumers, hierarchy, named, stage, cache, interrupted,
               tab, pc, outcome, ontology, pending, consistent, dl, original, incremental, precomputed, instanceIndex>>

Unused == 0

\* Four axioms with up to three justifications.
MCFamilies == UNION {kSubset(k, SUBSET Axioms) : k \in 0 .. 3}

-----------------------------------------------------------------------------
(* Entailment: every interpretation of the names an axiom mentions, alone  *)
(* or with a second one as the models of the ontology, and the             *)
(* inconsistent ontology.                                                  *)

Empty == [x \in {} |-> {}]
Model(class, op, dp, dt, ind, lit) ==
  [class |-> class, op |-> op, dp |-> dp, dt |-> dt, ind |-> ind, lit |-> lit]
Theory(models) == [models |-> models, individuals |-> TRUE, datatypes |-> TRUE]

Theories(models) ==
  {Theory({})} \cup {Theory({m}) : m \in models}
  \cup {Theory({m, CHOOSE n \in models : TRUE}) : m \in models}
AskAll(models, axioms) == {[ont |-> o, axiom |-> a] : o \in Theories(models), a \in axioms}

A == Class("A")
B == Class("B")
C == Class("C")
R == Role("R")
S == Role("S")

Relations == {{}, {<<1, 2>>}, {<<2, 1>>}, {<<1, 1>>, <<1, 2>>}, {<<1, 2>>, <<2, 1>>}, Domain \X Domain}

ClassModels == {Model(c, Empty, Empty, Empty, Empty, Empty) : c \in [{"A", "B", "C"} -> SUBSET Domain]}
ClassAxioms ==
  {<<"SubClassOf", A, B>>, <<"SubClassOf", And({A, C}), Nothing>>, <<"EquivalentClasses", <<A, B, C>>>>,
   <<"DisjointClasses", <<A, B, C>>>>, <<"DisjointUnion", "A", <<B, C>>>>,
   <<"EquivalentClasses", <<A, Or({B, Not(C)})>>>>, <<"Declaration">>}

RoleModels ==
  {Model([x \in {"A"} |-> a], [R |-> r, S |-> s], Empty, Empty, Empty, Empty) :
     a \in {{}, {1}}, r \in SUBSET (Domain \X Domain), s \in Relations}
RoleAxioms ==
  {<<"SubObjectPropertyOf", R, Inv(S)>>, <<"SubPropertyChainOf", <<R, S>>, R>>,
   <<"SubPropertyChainOf", <<R, Inv(S), R>>, S>>,
   <<"EquivalentObjectProperties", <<R, S, Inv(R)>>>>, <<"InverseObjectProperties", R, S>>,
   <<"DisjointObjectProperties", <<R, Inv(S), BottomRole>>>>, <<"ObjectPropertyDomain", R, A>>,
   <<"ObjectPropertyRange", R, A>>}

CharacteristicModels ==
  {Model(Empty, [x \in {"R"} |-> r], Empty, Empty, Empty, Empty) : r \in SUBSET (Domain \X Domain)}
CharacteristicAxioms ==
  {<<k, r>> : k \in {"Symmetric", "Asymmetric", "Reflexive", "Irreflexive", "Transitive", "Functional",
                     "InverseFunctional"}, r \in {R, Inv(R)}}
  \cup {<<"SubObjectPropertyOf", r, s>> : r \in {TopRole, BottomRole, R}, s \in {TopRole, BottomRole, R}}

DataModels ==
  {Model([x \in {"A"} |-> {1}], Empty, d, [x \in {"T"} |-> {"v"}], [x \in {"a"} |-> 1], [x \in {"l"} |-> "v"]) :
     d \in {f \in [{"U", "V"} -> SUBSET (Domain \X Values)] : Cardinality(f["V"]) \in {0, 1, 4}}}
T == <<"datatype", "T">>
DataAxioms ==
  {<<"SubDataPropertyOf", "U", "V">>, <<"SubDataPropertyOf", "U", "bottomData">>,
   <<"EquivalentDataProperties", <<"U", "V">>>>, <<"DisjointDataProperties", <<"U", "V", "bottomData">>>>,
   <<"DisjointDataProperties", <<"U", "topData">>>>, <<"DataPropertyDomain", "U", A>>,
   <<"DataPropertyRange", "U", T>>, <<"FunctionalDataProperty", "U">>, <<"FunctionalDataProperty", "topData">>,
   <<"DatatypeDefinition", "T", <<"done", {"l"}>>>>, <<"DatatypeDefinition", "T", <<"dnot", <<"done", {"l"}>>>>>>,
   <<"DataPropertyAssertion", "U", "a", "l">>, <<"NegativeDataPropertyAssertion", "U", "a", "l">>,
   <<"HasKey", A, <<>>, <<"U", "V">>>>, <<"HasKey", Thing, <<>>, <<"U">>>>}

IndividualModels ==
  {Model([x \in {"A"} |-> a], [x \in {"R"} |-> r], Empty, Empty, i, Empty) :
     a \in SUBSET Domain, r \in SUBSET (Domain \X Domain), i \in {f \in [{"a", "b", "c"} -> Domain] : f["a"] = 1}}
IndividualAxioms ==
  {<<"ClassAssertion", A, "a">>, <<"ObjectPropertyAssertion", Inv(R), "a", "b">>,
   <<"NegativeObjectPropertyAssertion", R, "a", "b">>, <<"SameIndividual", <<"a", "b", "c">>>>,
   <<"DifferentIndividuals", <<"a", "b">>>>, <<"DifferentIndividuals", <<"a", "b", "c">>>>,
   <<"HasKey", A, <<R>>, <<>>>>}

\* An ontology without individuals constrains no individual.
Nameless ==
  {[ont |-> [models |-> {Model(Empty, Empty, Empty, Empty, i, Empty) : i \in [{"a", "b"} -> Domain]},
             individuals |-> FALSE, datatypes |-> FALSE],
    axiom |-> <<"SameIndividual", <<"a", "b">>>>]}

AxiomQuestions == AskAll(RoleModels, RoleAxioms) \cup AskAll(CharacteristicModels, CharacteristicAxioms)
                  \cup AskAll(ClassModels, ClassAxioms) \cup AskAll(IndividualModels, IndividualAxioms)
                  \cup AskAll(DataModels, DataAxioms) \cup Nameless
Axiom == INSTANCE Entailment WITH Questions <- AxiomQuestions

-----------------------------------------------------------------------------
(* Queries: two classes, a property and two individuals; every ontology    *)
(* with one model and a family of those with two.                          *)

Interpretation(a, b, r, i, j) ==
  [class |-> [A |-> a, B |-> b], op |-> [R |-> r], dp |-> Empty, dt |-> Empty,
   ind |-> [a |-> i, b |-> j], lit |-> Empty]
Interpretations ==
  {Interpretation(a, b, r, 1, j) :
     a \in SUBSET Domain, b \in SUBSET Domain, r \in {{<<1, 2>>}, {<<1, 1>>, <<1, 2>>}}, j \in Domain}
Partner == Interpretation({1}, {1, 2}, {<<1, 2>>}, 1, 1)

Ontology(ms) ==
  [models |-> ms, classes |-> {"A", "B"}, roles |-> {"R"}, inds |-> {"a", "b"}, dps |-> {}, asserted |-> {},
   bySameAs |-> FALSE, throw |-> TRUE, disallow |-> FALSE]
Ontologies ==
  {Ontology(ms) : ms \in {{}} \cup {{m} : m \in Interpretations}
                         \cup {{m, Partner} : m \in {n \in Interpretations : n.ind["b"] = 2}}}

Ask(op, ce, direct) == [op |-> op, ce |-> ce, direct |-> direct]
NamedClasses == {A, B, Class("Z"), Thing, Nothing}
Complex == {Not(A), And({A, B}), Or({A, B}), Some(R, B), All(R, A), And({B, Class("Z")})}

ClassQuestions ==
  {[ont |-> o] @@ Ask(op, ce, d) :
     o \in Ontologies, op \in {"super", "sub", "equivalent"}, ce \in NamedClasses \cup Complex, d \in BOOLEAN}
  \cup {[ont |-> o] @@ Ask("domain", ce, d) :
          o \in Ontologies, ce \in {Some(R, Thing), Some(Inv(R), Thing)}, d \in BOOLEAN}
  \cup {[ont |-> o] @@ Ask("disjoint", ce, FALSE) : o \in Ontologies, ce \in NamedClasses \cup Complex}

Placed(j, k) == [Partner EXCEPT !.ind = [a |-> 1, b |-> j, c |-> k]]
PlacedOntologies ==
  {[Ontology(ms) EXCEPT !.inds = {"a", "b", "c"}, !.bySameAs = s] :
     ms \in {{Placed(p[1], p[2]), Placed(q[1], q[2])} : p \in Domain \X Domain, q \in Domain \X Domain},
     s \in BOOLEAN}
IndividualQuestions ==
  {[ont |-> o, ind |-> i] @@ Ask(op, c, d) :
     o \in Ontologies, i \in {"a", "b", "z"}, op \in {"type"}, c \in NamedClasses \ {Class("Z")}, d \in BOOLEAN}
  \cup {[ont |-> o, ind |-> i] @@ Ask(op, Thing, FALSE) :
          o \in PlacedOntologies, i \in {"a", "b", "c", "z"}, op \in {"same", "different"}}
  \cup {[ont |-> o, ind |-> i, role |-> r] @@ Ask("objectValues", Thing, FALSE) :
          o \in Ontologies \cup {[p EXCEPT !.roles = {"R", "top", "bottom"}] : p \in Ontologies},
          i \in {"a", "b"}, r \in {R, Inv(R), TopRole, Inv(TopRole), BottomRole}}

\* An expression of every kind, with the names it mentions.
Mention(ce, names) == [ce |-> ce, names |-> names]
ClassMentions(c) ==
  {Mention(Class(c), {c}), Mention(And({A, Not(Class(c))}), {"A", c}), Mention(Or({Class(c), Nothing}), {c})}
  \cup {Mention(<<k, R, Class(c)>>, {"R", c}) : k \in {"some", "all"}}
  \cup {Mention(<<k, 1, R, Class(c)>>, {"R", c}) : k \in {"min", "max", "exact"}}
RoleMentions(p) ==
  {Mention(<<"self", Role(p)>>, {p}), Mention(<<"has", Inv(Role(p)), "a">>, {p, "a"})}
  \cup {Mention(<<k, Role(p), Thing>>, {p}) : k \in {"some", "all"}}
  \cup {Mention(<<k, 1, Inv(Role(p)), Thing>>, {p}) : k \in {"min", "max", "exact"}}
IndividualMentions(i) == {Mention(Some(R, <<"oneof", {"a", i}>>), {"R", "a", i}), Mention(<<"has", R, i>>, {"R", i})}
DataMentions(u) ==
  {Mention(<<"dhas", u, "l">>, {u})} \cup {Mention(<<k, u, <<"literal">>>>, {u}) : k \in {"dsome", "dall"}}
  \cup {Mention(<<k, 1, u, <<"literal">>>>, {u}) : k \in {"dmin", "dmax", "dexact"}}
Mentions == {Mention(Thing, {}), Mention(Nothing, {})}
            \cup UNION {ClassMentions(c) : c \in {"B", "Z"}} \cup UNION {RoleMentions(p) : p \in {"R", "Q", "top"}}
            \cup UNION {IndividualMentions(i) : i \in {"b", "z"}}
            \cup UNION {DataMentions(u) : u \in {"U", "Y", "topData", "bottomData"}}
WithData == [Partner EXCEPT !.dp = [U |-> {<<1, "v">>}], !.lit = [l |-> "v"]]
PolicyQuestions ==
  {[ont |-> [Ontology(ms) EXCEPT !.disallow = d, !.throw = t, !.dps = {"U"}], names |-> m.names]
     @@ Ask("satisfiable", m.ce, FALSE) :
     ms \in {{}, {WithData}}, d \in BOOLEAN, t \in BOOLEAN, m \in Mentions}

\* Two data properties with assertions on individuals that may be equal.
DataInterpretation(u, w, j) ==
  [class |-> [A |-> {}, B |-> {}], op |-> [R |-> {}], dp |-> [U |-> u, W |-> w], dt |-> Empty,
   ind |-> [a |-> 1, b |-> j], lit |-> Empty]
DataFacts(m) == {x \in {"U", "W"} \X {"a", "b"} \X {"v"} : <<m.ind[x[2]], x[3]>> \in m.dp[x[1]]}
DataOntologies ==
  UNION {{[Ontology({m}) EXCEPT !.dps = {"U", "W"}, !.asserted = facts] : facts \in SUBSET DataFacts(m)} :
           m \in {DataInterpretation(u, w, j) :
                    u \in SUBSET (Domain \X {"v"}), w \in SUBSET (Domain \X {"v"}), j \in Domain}}
DataQuestions ==
  {[ont |-> o, ind |-> i, dp |-> u] @@ Ask("dataValues", Thing, FALSE) :
     o \in DataOntologies \cup {Ontology({Partner})}, i \in {"a", "b"}, u \in {"U", "W", "topData", "bottomData"}}

MCQuestions == ClassQuestions \cup IndividualQuestions \cup PolicyQuestions \cup DataQuestions
Query == INSTANCE Queries WITH Questions <- MCQuestions, Values <- {"v"}

-----------------------------------------------------------------------------
(* Property hierarchies: two properties, ontologies of one or two models.  *)

Properties(op, dp) == Model(Empty, op, dp, Empty, Empty, Empty)
ObjectModels == {Properties(f, Empty) : f \in [{"R", "S"} -> Relations]}
ValueModels == {Properties(Empty, f) : f \in [{"U", "V"} -> {{}, {<<1, "v">>}, {<<1, "v">>, <<2, "v">>}, {<<1, "w">>}}]}
ClausesOf(models) ==
  {c \in {"R", "S"} \X {"R", "S"} \X BOOLEAN :
     \A m \in models : RoleExt(m, <<c[1], c[3]>>) \subseteq RoleExt(m, <<c[2], FALSE>>)}

\* Without an inverse role in the ontology no clause exchanges the variables.
MCCases ==
  {[kind |-> "object", models |-> ms, names |-> {"R", "S"}, inverses |-> i, throw |-> FALSE,
    clauses |-> {c \in ClausesOf(ms) : i \/ ~c[3]}] :
     ms \in {{}} \cup {{m} : m \in ObjectModels}
            \cup {{m, Properties([x \in {"R", "S"} |-> {<<1, 2>>}], Empty)} : m \in ObjectModels},
     i \in BOOLEAN}
  \cup {[kind |-> "object", models |-> {Properties(Empty, Empty)}, names |-> {}, inverses |-> TRUE,
         clauses |-> {}, throw |-> FALSE]}
  \cup {[kind |-> "data", models |-> ms, names |-> {"U", "V"}, inverses |-> FALSE, throw |-> TRUE, clauses |-> {}] :
          ms \in {{}} \cup {{m, n} : m \in ValueModels, n \in ValueModels}}
Property == INSTANCE PropertyHierarchy WITH Cases <- MCCases, phase <- stage

-----------------------------------------------------------------------------
(* Datalog: ontologies that chain rules, merge named and anonymous         *)
(* individuals in both directions, contradict themselves at loading or     *)
(* later, or have no facts at all, and queries with every kind of atom.    *)

Subclass == [body |-> <<<<"A", "x">>>>, head |-> <<"B", "x">>]
Propagating == [body |-> <<<<"A", "x">>, <<"r", "x", "y">>>>, head |-> <<"A", "y">>]
Functional == [body |-> <<<<"r", "x", "y">>, <<"r", "x", "z">>>>, head |-> <<"eq", "y", "z">>]
Disjoint == [body |-> <<<<"B", "x">>, <<"C", "x">>>>, head |-> <<"bot">>]
Loop == [body |-> <<<<"r", "x", "x">>>>, head |-> <<"C", "x">>]
Symmetric == [body |-> <<<<"r", "x", "y">>>>, head |-> <<"r", "y", "x">>]
Rules == {Subclass, Propagating, Functional, Disjoint, Loop, Symmetric}

ABox(positive, negative) == [positive |-> positive, negative |-> negative]
ABoxes == {
    ABox(<<<<"A", "a">>, <<"r", "a", "b">>, <<"r", "b", "n">>>>, <<>>),
    ABox(<<<<"r", "a", "n">>, <<"r", "a", "b">>, <<"A", "n">>>>, <<>>),
    ABox(<<<<"r", "a", "b">>, <<"r", "a", "c">>, <<"A", "c">>, <<"C", "b">>>>, <<>>),
    ABox(<<<<"r", "a", "b">>, <<"eq", "a", "b">>, <<"A", "b">>>>, <<>>),
    ABox(<<<<"r", "a", "b">>, <<"r", "a", "c">>>>, <<<<"eq", "b", "c">>>>),
    ABox(<<<<"r", "a", "b">>, <<"neq", "b", "n">>>>, <<<<"neq", "a", "b">>, <<"A", "n">>>>),
    ABox(<<<<"A", "a">>>>, <<<<"A", "a">>>>),
    ABox(<<<<"A", "a">>, <<"r", "a", "b">>>>, <<<<"A", "b">>>>),
    ABox(<<>>, <<>>)}
Programs(n) == {[positive |-> abox.positive, negative |-> abox.negative, clauses |-> cs] :
                  abox \in ABoxes, cs \in {c \in SUBSET Rules : Cardinality(c) <= n}}

Conjunctive(atoms, answers) == [atoms |-> atoms, answers |-> answers, individuals |-> {"a", "b", "c", "n"}]
MCQueries == {
    Conjunctive(<<<<"A", "x">>>>, <<"x">>),
    Conjunctive(<<<<"T", "x">>>>, <<"x", "w">>),
    Conjunctive(<<<<"B", "y">>, <<"r", "x", "y">>>>, <<"x", "y">>),
    Conjunctive(<<<<"r-", "x", "y">>, <<"A", "x">>, <<"T", "y">>>>, <<"x", "b">>),
    Conjunctive(<<<<"r", "x", "x">>>>, <<"x">>),
    Conjunctive(<<<<"r", "a", "x">>, <<"r", "x", "y">>>>, <<"y">>),
    Conjunctive(<<<<"neq", "x", "y">>>>, <<"x", "y">>),
    Conjunctive(<<<<"eq", "x", "y">>>>, <<"x">>)}
MCNegation == [p \in {"A", "B", "C", "r"} |->
    CASE p = "A" -> "notA" [] p = "B" -> "notB" [] p = "C" -> "notC" [] p = "r" -> "notr"]

Engine == INSTANCE Datalog WITH Ontologies <- Programs(3), Anonymous <- {"n"}, InverseOf <- [i \in {"r-"} |-> "r"],
    Negation <- MCNegation, Queries <- MCQueries, MaxSteps <- 8, MayInterrupt <- FALSE
Interrupted == INSTANCE Datalog WITH Ontologies <- Programs(2), Anonymous <- {"n"}, InverseOf <- [i \in {"r-"} |-> "r"],
    Negation <- MCNegation, Queries <- MCQueries, MaxSteps <- 8, MayInterrupt <- TRUE

\* The reference of the datalog engine is the least model: eight steps are enough.
ASSUME LeastModelReached ==
    \A o \in Programs(3) : LET F == Engine!LeastModel(o) IN Engine!Step(o, F) = F

-----------------------------------------------------------------------------
(* The incremental reasoner: a mixed universe with a TBox axiom, nominals  *)
(* and class assertions, buffered; and, unbuffered, declarations,          *)
(* annotations, a complex assertion and one over a fresh class.            *)

AxiomKind(axioms) ==
    [x \in axioms |->
       CASE x \in {"Disjoint", "OneOf"} -> "tbox"
         [] x \in {"C(a)", "D(a)", "E(a)"} -> "classAssertion"
         [] x = "Some(a)" -> "complexAssertion"
         [] x = "Decl(E)" -> "declaration"
         [] x = "Label(a)" -> "annotation"]
NamesOf(axioms) ==
    [x \in axioms |->
       CASE x = "Disjoint" -> {"C", "D", "E"}
         [] x = "C(a)" -> {"C", "a"} [] x = "D(a)" -> {"D", "a"} [] x = "E(a)" -> {"E", "a"}
         [] x = "OneOf" -> {"C", "a", "b"}
         [] x = "Some(a)" -> {"C", "a", "r"}
         [] x = "Decl(E)" -> {"E"}
         [] OTHER -> {}]
Facts(axioms) ==
    [x \in axioms |-> IF AxiomKind(axioms)[x] \in {"tbox", "declaration", "annotation"} THEN {} ELSE {x}]
FullFacts(x, tbox) == IF x \in {"C(a)", "D(a)", "E(a)", "Some(a)"} THEN {x} ELSE {}
MCRefutations == {{"Disjoint", "C(a)", "D(a)"}, {"Disjoint", "D(a)", "Some(a)"}}
MCClashes == {[clauses |-> {"Disjoint"}, facts |-> {"C(a)", "D(a)"}],
              [clauses |-> {"Disjoint"}, facts |-> {"D(a)", "Some(a)"}]}

Mixed == {"Disjoint", "OneOf", "C(a)", "D(a)"}
MixedOntologies == {{<<"Disjoint", FALSE>>}, {<<"Disjoint", FALSE>>, <<"C(a)", FALSE>>},
                    {<<"C(a)", FALSE>>}, {<<"OneOf", FALSE>>, <<"Disjoint", FALSE>>}, {}}
Declared == {"Some(a)", "C(a)", "D(a)", "E(a)", "Decl(E)", "Label(a)"}
DeclaredOntologies == {{<<"C(a)", FALSE>>}, {<<"C(a)", FALSE>>, <<"Decl(E)", FALSE>>}}
FewRequests == {{"ClassHierarchy"}, {"ClassAssertions", "ObjectPropertyAssertions"}}
ManyRequests == {{"ClassHierarchy", "DataPropertyHierarchy"}, {"ObjectPropertyHierarchy"}, {"ClassAssertions"},
                 {"SameIndividual"}} \cup FewRequests

Buffered == INSTANCE Incremental WITH Axioms <- Mixed, Kind <- AxiomKind(Mixed), Names <- NamesOf(Mixed),
    Individuals <- {"a", "b"}, ReducedFacts <- Facts(Mixed), Nominals <- {"OneOf"}, Unsupported <- {}, Refutations <- MCRefutations,
    Clashes <- MCClashes, Ontologies <- MixedOntologies, BufferChanges <- TRUE, ThrowInconsistent <- TRUE,
    IgnoreUnsupported <- FALSE, PrepareInferences <- {}, Requests <- FewRequests, SameAsPolicy <- TRUE,
    MaxPending <- 2, index <- instanceIndex
Unbuffered == INSTANCE Incremental WITH Axioms <- Declared, Kind <- AxiomKind(Declared), Names <- NamesOf(Declared),
    Individuals <- {"a"}, ReducedFacts <- Facts(Declared), Nominals <- {"OneOf"}, Unsupported <- {}, Refutations <- MCRefutations,
    Clashes <- MCClashes, Ontologies <- DeclaredOntologies, BufferChanges <- FALSE, ThrowInconsistent <- FALSE,
    IgnoreUnsupported <- FALSE, PrepareInferences <- {{"ClassAssertions", "SameIndividual"}},
    Requests <- ManyRequests, SameAsPolicy <- FALSE, MaxPending <- 1, index <- instanceIndex

\* Two assertions with one fact, a negative one that the full clausification
\* rewrites when t is transitive, and annotated axioms; the individuals may be fresh.
Repeated == {"Trans", "t(a,b)", "t-(b,a)", "-t(a,c)"}
RepeatedFacts(x) == CASE x = "Trans" -> {} [] x \in {"t(a,b)", "t-(b,a)"} -> {"t(a,b)"} [] OTHER -> {x}
RewrittenFacts(x, tbox) == IF x = "-t(a,c)" /\ "Trans" \in tbox THEN {"All(a)", "-Q(c)"} ELSE RepeatedFacts(x)
RepeatedOntologies == {{<<"Trans", FALSE>>}, {<<"Trans", FALSE>>, <<"t(a,b)", TRUE>>},
                       {<<"t(a,b)", FALSE>>, <<"t-(b,a)", TRUE>>}, {<<"t(a,b)", FALSE>>, <<"t-(b,a)", FALSE>>}}
Repeating == INSTANCE Incremental WITH Axioms <- Repeated,
    Kind <- [x \in Repeated |-> IF x = "Trans" THEN "tbox" ELSE "assertion"],
    Names <- [x \in Repeated |-> CASE x = "Trans" -> {"t"} [] x = "-t(a,c)" -> {"t", "a", "c"} [] OTHER -> {"t", "a", "b"}],
    Individuals <- {"a", "b", "c"}, ReducedFacts <- [x \in Repeated |-> RepeatedFacts(x)], FullFacts <- RewrittenFacts,
    Nominals <- {}, Unsupported <- {}, Refutations <- {}, Clashes <- {}, Ontologies <- RepeatedOntologies,
    BufferChanges <- TRUE, ThrowInconsistent <- TRUE, IgnoreUnsupported <- FALSE, PrepareInferences <- {},
    Requests <- {}, SameAsPolicy <- TRUE, MaxPending <- 2, index <- instanceIndex

-----------------------------------------------------------------------------
(* One component at a time.                                                *)

NoEntailment == axiom = Unused /\ core = Unused /\ public = Unused
NoQueries == question = Unused /\ asked = Unused
NoHierarchy == /\ kase = Unused /\ subsumers = Unused /\ hierarchy = Unused /\ named = Unused
               /\ stage = Unused
NoEngine == cache = Unused /\ interrupted = Unused /\ tab = Unused /\ pc = Unused /\ outcome = Unused
NoIncremental == /\ ontology = Unused /\ pending = Unused /\ consistent = Unused /\ dl = Unused
                 /\ original = Unused /\ incremental = Unused /\ precomputed = Unused
                 /\ instanceIndex = Unused

\* Entailment and the datalog engine share ont, queries and the incremental reasoner answer.
InitExplanations == component = "explanations" /\ Init /\ ont = Unused /\ answer = Unused
                    /\ NoEntailment /\ NoQueries /\ NoHierarchy /\ NoEngine /\ NoIncremental
InitEntailment == component = "entailment" /\ Axiom!Init /\ answer = Unused
                  /\ NoQueries /\ NoHierarchy /\ NoEngine /\ NoIncremental
InitQueries == component = "queries" /\ Query!Init /\ ont = Unused
               /\ NoEntailment /\ NoHierarchy /\ NoEngine /\ NoIncremental
InitHierarchy == component = "property hierarchy" /\ Property!Init /\ ont = Unused /\ answer = Unused
                 /\ NoEntailment /\ NoQueries /\ NoEngine /\ NoIncremental
InitEngine == /\ \/ component = "datalog" /\ Engine!Init
                 \/ component = "datalog interrupted" /\ Interrupted!Init
              /\ answer = Unused /\ NoEntailment /\ NoQueries /\ NoHierarchy /\ NoIncremental
InitIncremental == /\ \/ component = "buffered" /\ Buffered!IncrementalInit
                      \/ component = "unbuffered" /\ Unbuffered!IncrementalInit
                      \/ component = "repeating" /\ Repeating!IncrementalInit
                   /\ ont = Unused /\ NoEntailment /\ NoQueries /\ NoHierarchy /\ NoEngine

SuiteInit == \/ InitExplanations
             \/ /\ justifications = {} /\ worklist = <<{}>> /\ explored = {} /\ removed = {}
                /\ support = <<>> /\ index = 1 /\ found = {} /\ phase = "pop"
                /\ InitEntailment \/ InitQueries \/ InitHierarchy \/ InitEngine \/ InitIncremental

NextExplanations == /\ component = "explanations" /\ Next
                    /\ UNCHANGED <<ont, answer, axiom, core, public, question, asked, kase, subsumers, hierarchy, named,
                                   stage, cache, interrupted, tab, pc, outcome, ontology, pending, consistent, dl,
                                   original, incremental, precomputed, instanceIndex>>
NextEntailment == /\ component = "entailment" /\ Axiom!Next
                  /\ UNCHANGED <<vars, answer, question, asked, kase, subsumers, hierarchy, named, stage, cache,
                                 interrupted, tab, pc, outcome, ontology, pending, consistent, dl, original, incremental,
                                 precomputed, instanceIndex>>
NextQueries == /\ component = "queries" /\ Query!Next
               /\ UNCHANGED <<vars, ont, axiom, core, public, kase, subsumers, hierarchy, named, stage, cache,
                              interrupted, tab, pc, outcome, ontology, pending, consistent, dl, original, incremental,
                              precomputed, instanceIndex>>
NextHierarchy == /\ component = "property hierarchy" /\ Property!Next
                 /\ UNCHANGED <<vars, ont, answer, axiom, core, public, question, asked, cache, interrupted, tab, pc,
                                outcome, ontology, pending, consistent, dl, original, incremental, precomputed,
                                instanceIndex>>
NextEngine == /\ \/ component = "datalog" /\ Engine!Next
                 \/ component = "datalog interrupted" /\ Interrupted!Next
              /\ UNCHANGED <<vars, answer, axiom, core, public, question, asked, kase, subsumers, hierarchy, named,
                             stage, ontology, pending, consistent, dl, original, incremental, precomputed,
                             instanceIndex>>
NextIncremental == /\ \/ component = "buffered" /\ Buffered!IncrementalNext
                      \/ component = "unbuffered" /\ Unbuffered!IncrementalNext
                      \/ component = "repeating" /\ Repeating!IncrementalNext
                   /\ UNCHANGED <<vars, ont, axiom, core, public, question, asked, kase, subsumers, hierarchy, named,
                                  stage, cache, interrupted, tab, pc, outcome>>

SuiteNext == /\ \/ NextExplanations \/ NextEntailment \/ NextQueries \/ NextHierarchy \/ NextEngine
                \/ NextIncremental
             /\ UNCHANGED component
SuiteSpec == SuiteInit /\ [][SuiteNext]_suiteVars

-----------------------------------------------------------------------------

\* is_entailed, by a reduction of each kind of axiom about named individuals to
\* satisfiability, says of a consistent ontology that an axiom is entailed exactly
\* when every model satisfies it; the public function refuses an inconsistent one.
EntailmentExact ==
    component = "entailment" => Axiom!EntailedIsTrue /\ Axiom!TrueIsEntailed /\ Axiom!InconsistencyRefused

\* Given right answers of the tests they make, the query functions return what
\* the models say: relatives of class expressions, domains, types, equal and
\* different individuals.  Three answers are smaller than that: the disjoint
\* classes of a class that is outside the ontology or equivalent to owl:Thing are
\* owl:Nothing alone; an object property the ontology does not mention has no
\* values, owl:topObjectProperty included; the values of a data property are
\* those asserted for it or a property strictly below it.  Under Disallow a query
\* with a name outside the ontology is refused.  The property hierarchies, with
\* the inverse roles mirrored, are the inclusions that hold in every model.
QueriesExact ==
    /\ component = "queries" =>
        /\ Query!RelativesExact /\ Query!DomainsExact /\ Query!DisjointExact /\ Query!TypesExact
        /\ Query!NodesPartition /\ Query!ObjectValuesExact /\ Query!SameExact /\ Query!DataValuesTold /\ Query!FreshNamesRefused
    /\ component = "property hierarchy" => Property!ExpressionsExact /\ Property!NamedExact /\ Property!ToldSound

\* A materialization that ends answers conjunctive queries with the certain
\* answers, one that was interrupted with none that is not certain (it may miss
\* some), and equal individuals have one representative.
DatalogCertain ==
    /\ component = "datalog" => Engine!AnswersCertain /\ Engine!RepresentativesAgree
    /\ component = "datalog interrupted" => Interrupted!AnswersSound /\ Interrupted!RepresentativesAgree

\* After a flush the reasoner works on the clauses of the changed ontology,
\* whether it patched or rebuilt them, and on its facts, except that a patch may
\* lose a fact which another or an annotated axiom states too, and adds the
\* facts of an assertion without the rewriting of a complex role.  No cached
\* answer is of an older ontology; a flush applies the newest change of every
\* axiom, and nothing else does.
IncrementalCurrent ==
    /\ []/\ component = "buffered" => Buffered!FlushExact /\ Buffered!ConsistencyCurrent /\ Buffered!CachesCurrent
         /\ component = "unbuffered" => Unbuffered!FlushExact /\ Unbuffered!CachesCurrent
         /\ component = "repeating" => Repeating!FlushExact /\ Repeating!CachesCurrent
    /\ [][/\ component = "buffered" => Buffered!NewestChangeWins
          /\ component = "unbuffered" => Unbuffered!NewestChangeWins
          /\ component = "repeating" => Repeating!NewestChangeWins]_suiteVars
=============================================================================
