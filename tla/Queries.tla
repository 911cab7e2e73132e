------------------------------- MODULE Queries -------------------------------
(***************************************************************************)
(* The query functions of reasoner.rs that read the classified hierarchy:  *)
(* super-, sub-, equivalent and disjoint classes of a class or expression, *)
(* domains and ranges, types, equal and different individuals, property    *)
(* values, the grouping into nodes (node_set.rs) and the pre-conditions.   *)
(* The tests behind them (a subsumption, an entailed pair, an equality)    *)
(* are taken to be right: other modules are about them.  A client asks one *)
(* question of one ontology; an answer is a sequence of one value, an      *)
(* error the empty sequence.                                               *)
(***************************************************************************)
EXTENDS Semantics
LOCAL INSTANCE SequencesExt

CONSTANT Questions   \* records [ont, op, ce, direct] and the fields an op needs

VARIABLES question, answer, asked
vars == <<question, answer, asked>>

Named(o) == {Thing, Nothing} \cup {Class(a) : a \in o.classes}

(* A query may mention the class Z and the individual z, which the ontology does not. *)
FreshNames == [NoFresh EXCEPT !.class = {"Z"}, !.ind = {"z"}]
Models(o) == UNION {Extensions(m, FreshNames) : m \in o.models}

SubClass(o, c, d) == \A m \in Models(o) : Ext(m, c) \subseteq Ext(m, d)

-----------------------------------------------------------------------------
(***************************************************************************)
(* The classified hierarchy: nodes are sets of equivalent named classes.   *)
(***************************************************************************)
NodeFor(o, c) == {d \in Named(o) : SubClass(o, c, d) /\ SubClass(o, d, c)}
HierarchyNodes(o) == {NodeFor(o, c) : c \in Named(o)}
NodeBelow(o, n, p) == \E c \in n, d \in p : SubClass(o, c, d)
Closest(o, ns) == {n \in ns : \A p \in ns : NodeBelow(o, p, n) => p = n}
Furthest(o, ns) == {n \in ns : \A p \in ns : NodeBelow(o, n, p) => p = n}
Ancestors(o, n) == {p \in HierarchyNodes(o) : NodeBelow(o, n, p)}
Descendants(o, n) == {p \in HierarchyNodes(o) : NodeBelow(o, p, n)}
Parents(o, n) == Closest(o, Ancestors(o, n) \ {n})
Children(o, n) == Furthest(o, Descendants(o, n) \ {n})

TopClassNode(o) == NodeFor(o, Thing)
BottomClassNode(o) == NodeFor(o, Nothing)

(* A named class: its node, or a fresh node between top and bottom. *)
RelativesOfNode(o, n, direct, descend) ==
  CASE direct /\ descend -> Children(o, n)
    [] direct /\ ~descend -> Parents(o, n)
    [] ~direct /\ descend -> Descendants(o, n) \ {n}
    [] OTHER -> Ancestors(o, n) \ {n}
RelativesOfClass(o, c, direct, descend) ==
  IF c \notin Named(o) THEN IF descend THEN BottomClassNode(o) ELSE TopClassNode(o)
  ELSE UNION RelativesOfNode(o, NodeFor(o, c), direct, descend)

(* position_query_concept: an existing node, or parents and children around a gap. *)
ExistingNode(n) == IF n = {} THEN {} ELSE {n}
PositionQueryConcept(o, ce) ==
  [existing |-> ExistingNode(NodeFor(o, ce)),
   parents  |-> Closest(o, {p \in HierarchyNodes(o) : \E d \in p : SubClass(o, ce, d)}),
   children |-> Furthest(o, {p \in HierarchyNodes(o) : \E d \in p : SubClass(o, d, ce)})]

RelativesAt(o, at, direct, descend) ==
  UNION UNION (IF at.existing # {} THEN {RelativesOfNode(o, n, direct, descend) : n \in at.existing}
               ELSE {CASE direct -> {p}
                       [] ~direct /\ descend -> Descendants(o, p)
                       [] OTHER -> Ancestors(o, p) : p \in IF descend THEN at.children ELSE at.parents})
RelativesOfExpression(o, ce, direct, descend) ==
  IF ce[1] \in {"thing", "nothing", "class"} THEN RelativesOfClass(o, ce, direct, descend)
  ELSE RelativesAt(o, PositionQueryConcept(o, ce), direct, descend)
SuperClassesOfExpression(o, ce, direct) == RelativesOfExpression(o, ce, direct, FALSE)
SubClassesOfExpression(o, ce, direct) == RelativesOfExpression(o, ce, direct, TRUE)

EquivalentClassesOfExpression(o, ce) ==
  IF ce[1] = "class" /\ ce \notin Named(o) THEN {ce} ELSE UNION PositionQueryConcept(o, ce).existing

(* Domains and ranges: the description's own node counts. *)
AncestorsOfAll(o, nodes, direct) == UNION (IF direct THEN nodes ELSE UNION {Ancestors(o, n) : n \in nodes})
NodeOrParents(at) == IF at.existing # {} THEN at.existing ELSE at.parents
SuperClassesOfDescription(o, ce, direct) == AncestorsOfAll(o, NodeOrParents(PositionQueryConcept(o, ce)), direct)

-----------------------------------------------------------------------------

(* disjoint_classes and disjoint_classes_of_expression *)
DisjointClassesOfExpression(o, ce) ==
  CASE ce = Thing -> BottomClassNode(o)
    [] ce[1] = "class" /\ ce \notin Named(o) -> {Nothing}
    [] ce[1] = "class" /\ ce \in TopClassNode(o) -> {Nothing}
    [] ce[1] \in {"class", "nothing"} /\ ce \in BottomClassNode(o) -> Named(o)
    [] ce[1] = "class" -> {Nothing} \cup {d \in Named(o) : SubClass(o, d, Not(ce))}
    [] OTHER -> EquivalentClassesOfExpression(o, Not(ce)) \cup SubClassesOfExpression(o, Not(ce), FALSE)

-----------------------------------------------------------------------------
(* Individuals: the ontology's and the fresh z. *)
IsDefinedIndividual(o, i) == i \in o.inds
InstanceOf(o, i, c) == \A m \in Models(o) : m.ind[i] \in Ext(m, c)
Types(o, i) == {c \in Named(o) : InstanceOf(o, i, c)}
DirectTypes(o, i) == UNION Closest(o, {NodeFor(o, c) : c \in Types(o, i)})

HasType(o, i, c, direct) ==
  CASE ~IsDefinedIndividual(o, i) -> Thing \in EquivalentClassesOfExpression(o, c)
    [] IsDefinedIndividual(o, i) /\ direct -> c \in DirectTypes(o, i)
    [] OTHER -> InstanceOf(o, i, c)

GetSameIndividuals(o, i) ==
  {i} \cup (IF IsDefinedIndividual(o, i)
            THEN {j \in o.inds : \A m \in Models(o) : m.ind[i] = m.ind[j]} ELSE {})

GetDifferentIndividuals(o, i) ==
  {j \in o.inds \ {i} : ~\E m \in Models(o) : m.ind[i] = m.ind[j]}

(* Mutant: every element stays alone. *)
GroupAlone(elements, equivalents) == {{elements[k]} : k \in DOMAIN elements}

(* group_by_equivalence: in the order of the elements, each that no node has yet makes one of its class. *)
GroupByEquivalence(elements, equivalents) ==
  FoldLeft(LAMBDA nodes, e :
             IF e \in UNION nodes THEN nodes
             ELSE nodes \cup {(equivalents[e] \cap ToSet(elements)) \cup {e}},
           {}, elements)

(* group_individuals_by_policy: the nodes for each order the hash set may have. *)
GroupIndividualsByPolicy(o, is) ==
  IF o.bySameAs
  THEN {GroupByEquivalence(order, [i \in is |-> GetSameIndividuals(o, i)]) : order \in SetToSeqs(is)}
  ELSE {{{i} : i \in is}}

-----------------------------------------------------------------------------

(* resolve_object_property_pairs: the pairs are kept for the property, an inverse turns them round. *)
ObjectPropertyInstances(o, r) ==
  CASE r[1] = "top" -> o.inds \X o.inds
    [] r[1] = "bottom" -> {}
    [] OTHER ->
         LET known == {p \in o.inds \X o.inds :
                         ~\E m \in Models(o) : <<m.ind[p[1]], m.ind[p[2]]>> \notin m.op[r[1]]}
         IN IF r[2] THEN {<<p[2], p[1]>> : p \in known} ELSE known

(* get_object_property_values: none for a property the ontology does not mention, a built-in one too. *)
GetObjectPropertyValues(o, i, r) ==
  IF r[1] \notin o.roles THEN {}
  ELSE {p[2] : p \in {q \in ObjectPropertyInstances(o, r) : q[1] = i}}

SubData(o, u, v) == \A m \in o.models : DataExt(m, u) \subseteq DataExt(m, v)

(* get_sub_data_properties, not direct: the members of the nodes below, not those of the own node. *)
GetSubDataProperties(o, v) ==
  {u \in o.dps \cup {"topData", "bottomData"} : SubData(o, u, v) /\ ~SubData(o, v, u)}

(* get_data_property_values: asserted for the property or one below it, for the individual or an equal one. *)
GetDataPropertyValues(o, i, u) ==
  IF o.dps = {} THEN {}
  ELSE LET relevant == ({u} \cup GetSubDataProperties(o, u)) \ {"bottomData"}
       IN {a[3] : a \in {b \in o.asserted : b[1] \in relevant /\ b[2] \in GetSameIndividuals(o, i)}}

-----------------------------------------------------------------------------
RECURSIVE CollectCeEntities(_)
CollectCeEntities(c) ==
  CASE c[1] = "class" -> {c[2]}
    [] c[1] \in {"and", "or"} -> UNION {CollectCeEntities(e) : e \in c[2]}
    [] c[1] = "not" -> CollectCeEntities(c[2])
    [] c[1] = "oneof" -> c[2]
    [] c[1] \in {"some", "all"} -> {c[2][1]} \cup CollectCeEntities(c[3])
    [] c[1] \in {"min", "max", "exact"} -> {c[3][1]} \cup CollectCeEntities(c[4])
    [] c[1] = "has" -> {c[2][1], c[3]}
    [] c[1] = "self" -> {c[2][1]}
    [] c[1] \in {"dsome", "dall", "dhas"} -> {c[2]}
    [] c[1] \in {"dmin", "dmax", "dexact"} -> {c[3]}
    [] c \in {Thing, Nothing} -> {}

(* The built-in classes and data properties are always defined, the built-in object properties are not. *)
IsDefined(o, name) == name \in o.classes \cup o.roles \cup o.inds \cup o.dps \cup {"topData", "bottomData"}

CheckPreConditionsWith(o, ce) ==
  CASE o.disallow /\ \E n \in CollectCeEntities(ce) : ~IsDefined(o, n) -> "fresh"
    [] o.throw /\ o.models = {} -> "inconsistent"
    [] OTHER -> "ok"

(* A query that is not refused may mention the object property Q and the data property Y, which the ontology does not. *)
IsConceptSatisfiable(o, ce) ==
  \E m \in Models(o), q \in SUBSET (Domain \X Domain), y \in SUBSET (Domain \X Values) :
    Ext([m EXCEPT !.op = ("Q" :> q) @@ @, !.dp = ("Y" :> y) @@ @], ce) # {}

-----------------------------------------------------------------------------
Init == question \in Questions /\ answer = <<>> /\ asked = FALSE

Asks(op) == ~asked /\ question.op = op /\ asked' = TRUE /\ UNCHANGED question

(* The functions without a configuration use the default one, which refuses an inconsistent ontology. *)
Replies(value) == answer' = IF question.ont.models = {} THEN <<>> ELSE <<value>>

AskSuper ==
  /\ Asks("super")
  /\ Replies(SuperClassesOfExpression(question.ont, question.ce, question.direct))
AskSub ==
  /\ Asks("sub")
  /\ Replies(SubClassesOfExpression(question.ont, question.ce, question.direct))
AskEquivalent == Asks("equivalent") /\ Replies(EquivalentClassesOfExpression(question.ont, question.ce))
AskDisjoint == Asks("disjoint") /\ Replies(DisjointClassesOfExpression(question.ont, question.ce))
AskDomain ==
  /\ Asks("domain")
  /\ Replies(SuperClassesOfDescription(question.ont, question.ce, question.direct))
AskType ==
  /\ Asks("type")
  /\ Replies(HasType(question.ont, question.ind, question.ce, question.direct))
AskSame == Asks("same") /\ Replies(GetSameIndividuals(question.ont, question.ind))
AskDifferent ==
  /\ Asks("different")
  /\ \E nodes \in GroupIndividualsByPolicy(question.ont, GetDifferentIndividuals(question.ont, question.ind)) :
       Replies(nodes)
AskObjectValues ==
  /\ Asks("objectValues")
  /\ Replies(GetObjectPropertyValues(question.ont, question.ind, question.role))
AskDataValues ==
  /\ Asks("dataValues")
  /\ Replies(GetDataPropertyValues(question.ont, question.ind, question.dp))
AskSatisfiable ==
  /\ Asks("satisfiable")
  /\ LET checked == CheckPreConditionsWith(question.ont, question.ce)
     IN answer' = IF checked # "ok" THEN <<checked>> ELSE <<"answer", IsConceptSatisfiable(question.ont, question.ce)>>

Next ==
  \/ AskSuper \/ AskSub \/ AskEquivalent \/ AskDisjoint \/ AskDomain \/ AskType \/ AskSame
  \/ AskDifferent \/ AskObjectValues \/ AskDataValues \/ AskSatisfiable

Spec == Init /\ [][Next]_vars

-----------------------------------------------------------------------------
Answered(op) == question.op = op /\ answer # <<>>

Strictly(c, d) == SubClass(question.ont, c, d) /\ ~SubClass(question.ont, d, c)
Minimal(cs) == {c \in cs : \A d \in cs : ~Strictly(d, c)}
Maximal(cs) == {c \in cs : \A d \in cs : ~Strictly(c, d)}

(* The super- and sub-classes of a class or expression are exactly the     *)
(* named classes strictly above and below it, and the direct ones the      *)
(* nearest of them, also when the query falls into a gap of the hierarchy. *)
RelativesExact ==
  LET o == question.ont
      ce == question.ce
      above == {d \in Named(o) : Strictly(ce, d)}
      below == {d \in Named(o) : Strictly(d, ce)}
  IN /\ Answered("super") => answer[1] = IF question.direct THEN Minimal(above) ELSE above
     /\ Answered("sub") => answer[1] = IF question.direct THEN Maximal(below) ELSE below
     /\ Answered("equivalent") =>
          answer[1] = {d \in Named(o) \cup (IF ce[1] = "class" THEN {ce} ELSE {}) :
                         SubClass(o, ce, d) /\ SubClass(o, d, ce)}

(* The domain or range of a property is every named class its description  *)
(* is below, owl:Nothing included for an empty property, and the direct    *)
(* ones are the most specific.                                             *)
DomainsExact ==
  LET all == {d \in Named(question.ont) : SubClass(question.ont, question.ce, d)}
  IN Answered("domain") => answer[1] = IF question.direct THEN Minimal(all) ELSE all

(* The classes named disjoint from a class or expression share no instance *)
(* with it in any model, and they are all there are, except for a class    *)
(* outside the ontology and one equivalent to owl:Thing: of those          *)
(* owl:Nothing alone is named, whatever other classes are unsatisfiable    *)
(* (the doc of disjoint_classes promises every class, at reasoner.rs:701). *)
DisjointExact ==
  LET o == question.ont
      ce == question.ce
      disjoint == {d \in Named(o) : \A m \in Models(o) : Ext(m, d) \cap Ext(m, ce) = {}}
      cut == ce[1] = "class" /\ (ce \notin Named(o) \/ SubClass(o, Thing, ce))
  IN Answered("disjoint") => answer[1] = IF cut THEN disjoint \cap {Nothing} ELSE disjoint

(* has_type answers what holds in every model, for an individual the       *)
(* ontology does not mention too, and a direct type is a most specific one. *)
TypesExact ==
  LET o == question.ont
      all == {c \in Named(o) : InstanceOf(o, question.ind, c)}
  IN Answered("type") => answer[1] = (question.ce \in IF question.direct THEN Minimal(all) ELSE all)

(* The nodes of different individuals partition exactly the individuals    *)
(* that differ, and under BySameAs two of them share a node just when they *)
(* are equal in every model.                                               *)
NodesPartition ==
  LET o == question.ont
      different == {j \in o.inds : \A m \in Models(o) : m.ind[j] # m.ind[question.ind]}
  IN Answered("different") =>
       /\ UNION answer[1] = different
       /\ \A i, j \in different :
            (\E n \in answer[1] : {i, j} \subseteq n) <=>
              i = j \/ (o.bySameAs /\ \A m \in Models(o) : m.ind[i] = m.ind[j])

(* An individual equals itself and what all models place with it, and one  *)
(* the ontology does not mention equals no other.                          *)
SameExact ==
  LET i == question.ind
  IN Answered("same") =>
       answer[1] = {j \in question.ont.inds \cup {i} : \A m \in Models(question.ont) : m.ind[j] = m.ind[i]}

(* Every value returned for a data property is one it has in all models,   *)
(* and every value asserted of an equal individual for a property below it *)
(* is returned.  A value asserted for an equivalent property is not.       *)
DataValuesTold ==
  LET o == question.ont
      u == question.dp
  IN Answered("dataValues") =>
       /\ \A v \in answer[1], m \in Models(o) : <<m.ind[question.ind], v>> \in DataExt(m, u)
       /\ \A a \in o.asserted :
            (/\ \A m \in Models(o) : m.ind[a[2]] = m.ind[question.ind] /\ DataExt(m, a[1]) \subseteq DataExt(m, u)
             /\ a[1] = u \/ \E m \in Models(o) : DataExt(m, a[1]) # DataExt(m, u))
            => a[3] \in answer[1]

(* The values of an object property or its inverse are the individuals it  *)
(* relates the subject to in every model.  A property the ontology does    *)
(* not mention has none, and that includes owl:topObjectProperty, which    *)
(* relates all individuals.                                                *)
ObjectValuesExact ==
  LET related(j) == \A m \in Models(question.ont) :
                      <<m.ind[question.ind], m.ind[j]>> \in RoleExt(m, question.role)
  IN Answered("objectValues") =>
       answer[1] = {j \in question.ont.inds : related(j) /\ question.role[1] \in question.ont.roles}

(* Under the Disallow policy a query is refused for a name just when some  *)
(* name in it is neither the ontology's nor that of a built-in class or    *)
(* data property, before the consistency of the ontology is looked at.     *)
FreshNamesRefused ==
  Answered("satisfiable") =>
    (answer[1] = "fresh" <=> question.ont.disallow /\ question.names \cap {"Z", "z", "Q", "Y", "top"} # {})

=============================================================================
