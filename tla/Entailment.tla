----------------------------- MODULE Entailment -----------------------------
(***************************************************************************)
(* The entailment checker of reasoner.rs: is_entailed_core reduces each    *)
(* kind of axiom to consistency tests of the ontology extended with        *)
(* assertions over fresh names.  The consistency test itself (the tableau) *)
(* is the semantic one of Semantics; what is checked is each reduction:    *)
(* the right fresh names, the right direction, every pair visited, the     *)
(* special cases of the built-in properties and of inconsistent premises.  *)
(*                                                                         *)
(* An ontology is a record: its models, whether it has individuals and     *)
(* whether it has datatypes.  An answer is a set: {} is an error.          *)
(***************************************************************************)
EXTENDS Semantics, SequencesExt

CONSTANT Questions      \* the ontologies and axioms asked: records [ont, axiom]

VARIABLES ont, axiom, core, public

vars == <<ont, axiom, core, public>>

IsConsistent(o) == o.models # {}

Fresh(classes, inds, dps, lits) == [class |-> classes, ind |-> inds, dp |-> dps, lit |-> lits]

TestConsistent(o, axioms, fresh) == ConsistentWith(o.models, axioms, fresh)

(***************************************************************************)
(* throw_inconsistent_ontology_exception_if_necessary under the default    *)
(* configuration.                                                          *)
(***************************************************************************)
CheckPreConditions(o) == IsConsistent(o)

(* A class expression of a query may mention the fresh classes and data properties given. *)
IsConceptSatisfiableCore(o, c, classes, dps) ==
  TestConsistent(o, {<<"ClassAssertion", c, "x">>}, Fresh(classes, {"x"}, dps, {}))

IsSubsumedByCore(o, sub, sup) == ~IsConceptSatisfiableCore(o, And({sub, Not(sup)}), {}, {})

IsInstanceOfCore(o, i, c) == ~TestConsistent(o, {<<"ClassAssertion", Not(c), i>>}, NoFresh)

(***************************************************************************)
(* The pseudo-nominal constructions: a fresh class N marks the last node   *)
(* of a chain of assertions and forall sup.not N is put on the first.      *)
(***************************************************************************)
PseudoNominal == Class("N")
Node(i) == <<"x0", "x1", "x2", "x3">>[i]

(* Mutant: the marker and the restriction exchanged. *)
ChainTestOnFirst(chain, sup) ==
  {<<"ObjectPropertyAssertion", chain[i], Node(i), Node(i + 1)>> : i \in DOMAIN chain}
  \cup {<<"ClassAssertion", PseudoNominal, Node(1)>>,
        <<"ClassAssertion", All(sup, Not(PseudoNominal)), Node(Len(chain) + 1)>>}

ChainTest(chain, sup) ==
  {<<"ObjectPropertyAssertion", chain[i], Node(i), Node(i + 1)>> : i \in DOMAIN chain}
  \cup {<<"ClassAssertion", PseudoNominal, Node(Len(chain) + 1)>>,
        <<"ClassAssertion", All(sup, Not(PseudoNominal)), Node(1)>>}

ChainFresh(chain) == Fresh({"N"}, {Node(i) : i \in 1..(Len(chain) + 1)}, {}, {})

IsObjectPropertySubsumedByCore(o, sub, sup) ==
  \/ ~IsConsistent(o)
  \/ sub[1] = "bottom"
  \/ sup[1] = "top"
  \/ ~TestConsistent(o, ChainTest(<<sub>>, sup), ChainFresh(<<sub>>))

(***************************************************************************)
(* is_object_property_subsumed_by is the public function: it checks the    *)
(* pre-conditions, and the arms of is_entailed_core call it.               *)
(***************************************************************************)
IsObjectPropertySubsumedBy(o, sub, sup) ==
  IF CheckPreConditions(o) THEN {IsObjectPropertySubsumedByCore(o, sub, sup)} ELSE {}

IsObjectPropertyChainSubsumedBy(o, chain, sup) ==
  \/ ~IsConsistent(o)
  \/ sup[1] = "top"
  \/ ~TestConsistent(o, ChainTest(chain, sup), ChainFresh(chain))

IsSubDataPropertyOfCore(o, sub, sup) ==
  \/ ~IsConsistent(o)
  \/ sub = "bottomData"
  \/ sup = "topData"
  \/ ~TestConsistent(o, {<<"DataPropertyAssertion", sub, "x", "k">>,
                         <<"DataPropertyAssertion", "W", "x", "k">>,
                         <<"DisjointDataProperties", <<sup, "W">>>>},
                     Fresh({}, {"x"}, {"W"}, {"k"}))

IsSubDataPropertyOf(o, sub, sup) ==
  IF CheckPreConditions(o) THEN {IsSubDataPropertyOfCore(o, sub, sup)} ELSE {}

(***************************************************************************)
(* Two answers in sequence: the second test is made only when the first    *)
(* answered true, and an error of the first is the error of both.          *)
(***************************************************************************)
AndThen(first, second) == IF first = {TRUE} THEN second ELSE first

FirstAgainstRest(s, answer) ==
  FoldLeft(LAMBDA acc, next : AndThen(acc, AndThen(answer[s[1], next], answer[next, s[1]])),
           {TRUE}, Tail(s))

IsFunctionalRoleCore(o, r) ==
  ~IsConceptSatisfiableCore(o, And({Some(r, Class("N")), Some(r, Not(Class("N")))}), {"N"}, {})

(***************************************************************************)
(* EquivalentClasses and DisjointClasses: a query concept per operand, one *)
(* tableau, test atoms on one fresh witness.                               *)
(***************************************************************************)
EquivalentClassesEntailed(o, cs) ==
  \A i \in 2..Len(cs) :
    \A t \in {<<cs[1], cs[i]>>, <<cs[i], cs[1]>>} :
      ~TestConsistent(o, {<<"ClassAssertion", t[1], "x">>, <<"ClassAssertion", Not(t[2]), "x">>},
                      Fresh({}, {"x"}, {}, {}))

DisjointClassesEntailed(o, cs) ==
  \A p \in Pairs(cs) :
    ~TestConsistent(o, {<<"ClassAssertion", p[1], "x">>, <<"ClassAssertion", p[2], "x">>},
                    Fresh({}, {"x"}, {}, {}))

DisjointUnionDescription(c, cs) ==
  And({Or({cs[i] : i \in DOMAIN cs} \cup {Not(Class(c))}),
       Or({Not(Or({cs[i] : i \in DOMAIN cs})), Class(c)})}
      \cup {Or({Not(p[1]), Not(p[2])}) : p \in Pairs(cs)})

SameIndividualEntailed(o, is) ==
  \/ ~IsConsistent(o)
  \/ /\ o.individuals
     /\ \A i \in 2..Len(is) : ~TestConsistent(o, {<<"DifferentIndividuals", <<is[1], is[i]>>>>}, NoFresh)

DifferentIndividualsEntailed(o, is) ==
  \A p \in Pairs(is) : ~TestConsistent(o, {<<"SameIndividual", p>>}, NoFresh)

(***************************************************************************)
(* A pair with the empty role is skipped: its atom clashes only where the  *)
(* ontology mentions the empty role.  The atom of an inverse role has its  *)
(* arguments exchanged, which is the same assertion of the inverse.        *)
(***************************************************************************)
DisjointObjectPropertiesEntailed(o, rs) ==
  \A p \in Pairs(rs) :
    \/ "bottom" \in {p[1][1], p[2][1]}
    \/ ~TestConsistent(o, {<<"ObjectPropertyAssertion", p[1], "x", "y">>,
                           <<"ObjectPropertyAssertion", p[2], "x", "y">>},
                       Fresh({}, {"x", "y"}, {}, {}))

DisjointDataPropertiesEntailed(o, us) ==
  \A p \in Pairs(us) :
    \/ "bottomData" \in {p[1], p[2]}
    \/ ~TestConsistent(o, {<<"DataPropertyAssertion", u, "x", "k">> : u \in {p[1], p[2]} \ {"topData"}},
                       Fresh({}, {"x"}, {}, {"k"}))

IrreflexiveEntailed(o, r) ==
  ~IsConsistent(o) \/ ~TestConsistent(o, {<<"ObjectPropertyAssertion", r, "x", "x">>}, Fresh({}, {"x"}, {}, {}))

AsymmetricEntailed(o, r) ==
  \/ ~IsConsistent(o)
  \/ ~TestConsistent(o, {<<"ObjectPropertyAssertion", r, "x", "y">>,
                         <<"ObjectPropertyAssertion", Inv(r), "x", "y">>}, Fresh({}, {"x", "y"}, {}, {}))

ReflexiveEntailed(o, r) ==
  ~IsConsistent(o) \/ ~IsConceptSatisfiableCore(o, And({PseudoNominal, All(r, Not(PseudoNominal))}), {"N"}, {})

TransitiveEntailed(o, r) ==
  ~IsConsistent(o) \/ ~TestConsistent(o, ChainTest(<<r, r>>, r), ChainFresh(<<r, r>>))

(***************************************************************************)
(* Two fresh members of the class share a fresh value of every key         *)
(* property and are asserted different.                                    *)
(***************************************************************************)
HasKeyEntailed(o, c, rs, us) ==
  LET value(i) == <<"s1", "s2">>[i]
      const(i) == <<"k1", "k2">>[i]
      tests == {<<"ClassAssertion", c, "x">>, <<"ClassAssertion", c, "y">>,
                <<"DifferentIndividuals", <<"x", "y">>>>}
               \cup UNION {{<<"ObjectPropertyAssertion", rs[i], w, value(i)>> : w \in {"x", "y"}} :
                             i \in DOMAIN rs}
               \cup UNION {{<<"DataPropertyAssertion", us[i], w, const(i)>> : w \in {"x", "y"}} :
                             i \in DOMAIN us}
  IN ~IsConsistent(o)
     \/ ~TestConsistent(o, tests, Fresh({}, {"x", "y"} \cup {value(i) : i \in DOMAIN rs}, {},
                                        {const(i) : i \in DOMAIN us}))

DatatypeDefinitionEntailed(o, dt, dr) ==
  LET named == <<"datatype", dt>>
      difference == <<"dor", {<<"dand", {<<"dnot", dr>>, named}>>, <<"dand", {<<"dnot", named>>, dr}>>}>>
  IN \/ ~IsConsistent(o)
     \/ o.datatypes /\ ~IsConceptSatisfiableCore(o, <<"dsome", "W", difference>>, {}, {"W"})

(***************************************************************************)
(* The arms of the data property axioms, the characteristics and the keys. *)
(***************************************************************************)
DataOrCharacteristicEntailed(o, ax) ==
  LET subdata(u, v) == IsSubDataPropertyOf(o, u, v)
  IN CASE ax[1] = "SubDataPropertyOf" -> subdata(ax[2], ax[3])
       [] ax[1] = "EquivalentDataProperties" ->
            FirstAgainstRest(ax[2], [u, v \in ToSet(ax[2]) |-> subdata(u, v)])
       [] ax[1] = "DatatypeDefinition" -> {DatatypeDefinitionEntailed(o, ax[2], ax[3])}
       [] ax[1] = "Transitive" -> {TransitiveEntailed(o, ax[2])}
       [] ax[1] = "Reflexive" -> {ReflexiveEntailed(o, ax[2])}
       [] ax[1] = "Irreflexive" -> {IrreflexiveEntailed(o, ax[2])}
       [] ax[1] = "Asymmetric" -> {AsymmetricEntailed(o, ax[2])}
       [] ax[1] = "DataPropertyAssertion" -> {IsInstanceOfCore(o, ax[3], <<"dhas", ax[2], ax[4]>>)}
       [] ax[1] = "NegativeDataPropertyAssertion" ->
            {IsInstanceOfCore(o, ax[3], Not(<<"dhas", ax[2], ax[4]>>))}
       [] ax[1] = "FunctionalDataProperty" ->
            {IF ax[2] = "topData" THEN ~IsConsistent(o)
             ELSE IsSubsumedByCore(o, Thing, <<"dmax", 1, ax[2], <<"literal">>>>)}
       [] ax[1] = "HasKey" -> {HasKeyEntailed(o, ax[2], ax[3], ax[4])}
       [] ax[1] = "Declaration" -> {TRUE}
       [] OTHER -> {}

(***************************************************************************)
(* is_entailed_core on axioms about named individuals.                     *)
(***************************************************************************)
IsEntailedCore(o, ax) ==
  LET subrole(r, s) == IsObjectPropertySubsumedBy(o, r, s)
  IN CASE ax[1] = "SubClassOf" -> {IsSubsumedByCore(o, ax[2], ax[3])}
       [] ax[1] = "EquivalentClasses" -> {EquivalentClassesEntailed(o, ax[2])}
       [] ax[1] = "DisjointClasses" -> {DisjointClassesEntailed(o, ax[2])}
       [] ax[1] = "DisjointUnion" -> {IsSubsumedByCore(o, Thing, DisjointUnionDescription(ax[2], ax[3]))}
       [] ax[1] = "ClassAssertion" -> {IsInstanceOfCore(o, ax[3], ax[2])}
       [] ax[1] = "SubObjectPropertyOf" -> subrole(ax[2], ax[3])
       [] ax[1] = "SubPropertyChainOf" -> {IsObjectPropertyChainSubsumedBy(o, ax[2], ax[3])}
       [] ax[1] = "EquivalentObjectProperties" ->
            FirstAgainstRest(ax[2], [r, s \in ToSet(ax[2]) |-> subrole(r, s)])
       [] ax[1] = "ObjectPropertyAssertion" ->
            {~TestConsistent(o, {<<"NegativeObjectPropertyAssertion", ax[2], ax[3], ax[4]>>}, NoFresh)}
       [] ax[1] = "NegativeObjectPropertyAssertion" ->
            {~TestConsistent(o, {<<"ObjectPropertyAssertion", ax[2], ax[3], ax[4]>>}, NoFresh)}
       [] ax[1] = "SameIndividual" -> {SameIndividualEntailed(o, ax[2])}
       [] ax[1] = "DifferentIndividuals" -> {DifferentIndividualsEntailed(o, ax[2])}
       [] ax[1] = "ObjectPropertyDomain" -> {IsSubsumedByCore(o, Some(ax[2], Thing), ax[3])}
       [] ax[1] = "ObjectPropertyRange" -> {IsSubsumedByCore(o, Thing, All(ax[2], ax[3]))}
       [] ax[1] = "DataPropertyDomain" -> {IsSubsumedByCore(o, <<"dsome", ax[2], <<"literal">>>>, ax[3])}
       [] ax[1] = "InverseObjectProperties" ->
            AndThen(subrole(Inv(ax[2]), ax[3]), subrole(ax[3], Inv(ax[2])))
       [] ax[1] = "Symmetric" -> subrole(Inv(ax[2]), ax[2])
       [] ax[1] = "Functional" -> {IsFunctionalRoleCore(o, ax[2])}
       [] ax[1] = "InverseFunctional" -> {IsFunctionalRoleCore(o, Inv(ax[2]))}
       [] ax[1] = "DisjointObjectProperties" -> {DisjointObjectPropertiesEntailed(o, ax[2])}
       [] ax[1] = "DataPropertyRange" -> {IsSubsumedByCore(o, Thing, <<"dall", ax[2], ax[3]>>)}
       [] ax[1] = "DisjointDataProperties" -> {DisjointDataPropertiesEntailed(o, ax[2])}
       [] OTHER -> DataOrCharacteristicEntailed(o, ax)

IsEntailed(o, ax) == IF CheckPreConditions(o) THEN IsEntailedCore(o, ax) ELSE {}

-----------------------------------------------------------------------------
Init ==
  /\ \E q \in Questions : ont = q.ont /\ axiom = q.axiom
  /\ core = <<>>
  /\ public = <<>>

(* The explanation service asks the core, a client the public function. *)
AskCore == core = <<>> /\ core' = <<IsEntailedCore(ont, axiom)>> /\ UNCHANGED <<ont, axiom, public>>
AskPublic == public = <<>> /\ public' = <<IsEntailed(ont, axiom)>> /\ UNCHANGED <<ont, axiom, core>>

Next == AskCore \/ AskPublic

Spec == Init /\ [][Next]_vars

-----------------------------------------------------------------------------
Holds(o, ax) == ax[1] = "Declaration" \/ Entails(o.models, ax)

(* Soundness of the reductions: whenever is_entailed or is_entailed_core   *)
(* answers true, every model of the ontology satisfies the axiom.          *)
EntailedIsTrue == TRUE \in UNION {core[i] : i \in DOMAIN core} \cup UNION {public[i] : i \in DOMAIN public}
                  => Holds(ont, axiom)

(* Completeness of the reductions: an axiom that holds in every model of a *)
(* consistent ontology is answered true, by both entry points.             *)
TrueIsEntailed ==
  IsConsistent(ont) /\ Holds(ont, axiom) =>
    /\ \A i \in DOMAIN core : core[i] = {TRUE}
    /\ \A i \in DOMAIN public : public[i] = {TRUE}

(* The public function refuses an inconsistent ontology instead of calling *)
(* everything entailed (checkPreConditions under the default flag).        *)
InconsistencyRefused == ~IsConsistent(ont) => \A i \in DOMAIN public : public[i] = {}

=============================================================================
