----------------------------- MODULE Semantics -----------------------------
(***************************************************************************)
(* The OWL 2 direct semantics on a fixed finite domain: the yardstick that *)
(* the reductions of the reasoner services and the rewritings of the       *)
(* structural transformation are measured with.  Nothing here is code of   *)
(* the repository: the definitions say what the classes of the horned_owl  *)
(* library, which the code manipulates as syntax, mean.                    *)
(*                                                                         *)
(* Class expressions, data ranges and axioms are tuples headed by their    *)
(* kind.  A role is <<name, inverted>>.  An interpretation is a record of  *)
(* functions from names: class (subsets of Domain), op (object property,   *)
(* subsets of Domain \X Domain), dp (data property, subsets of             *)
(* Domain \X Values), dt (datatypes, subsets of Values), ind (elements of  *)
(* Domain) and lit (elements of Values).                                   *)
(***************************************************************************)
EXTENDS Naturals, Sequences, FiniteSets, TLC

CONSTANTS Domain, Values

Thing == <<"thing">>
Nothing == <<"nothing">>
Class(a) == <<"class", a>>
Not(c) == <<"not", c>>
And(cs) == <<"and", cs>>
Or(cs) == <<"or", cs>>
Some(r, c) == <<"some", r, c>>
All(r, c) == <<"all", r, c>>
Role(p) == <<p, FALSE>>
Inv(r) == <<r[1], ~r[2]>>
TopRole == Role("top")
BottomRole == Role("bottom")

Directed(inverse, pairs) == IF inverse THEN {<<p[2], p[1]>> : p \in pairs} ELSE pairs
RoleExt(m, r) == Directed(r[2], CASE r[1] = "top" -> Domain \X Domain
                                  [] r[1] = "bottom" -> {}
                                  [] OTHER -> m.op[r[1]])

DataExt(m, u) == CASE u = "topData" -> Domain \X Values
                   [] u = "bottomData" -> {}
                   [] OTHER -> m.dp[u]

RECURSIVE RangeExt(_, _)
RangeExt(m, r) ==
  CASE r[1] = "literal" -> Values
    [] r[1] = "datatype" -> m.dt[r[2]]
    [] r[1] = "dnot" -> Values \ RangeExt(m, r[2])
    [] r[1] = "dand" -> {v \in Values : \A s \in r[2] : v \in RangeExt(m, s)}
    [] r[1] = "dor" -> UNION {RangeExt(m, s) : s \in r[2]}
    [] r[1] = "done" -> {m.lit[l] : l \in r[2]}

Successors(rel, d) == {p[2] : p \in {q \in rel : q[1] = d}}

Quantified(kind, successors, filler) ==
  IF kind \in {"some", "dsome"} THEN successors \cap filler # {} ELSE successors \subseteq filler
Counted(kind, count, n) ==
  CASE kind \in {"min", "dmin"} -> count >= n
    [] kind \in {"max", "dmax"} -> count =< n
    [] kind \in {"exact", "dexact"} -> count = n

RECURSIVE Ext(_, _)
Ext(m, c) ==
  CASE c[1] = "thing" -> Domain
    [] c[1] = "nothing" -> {}
    [] c[1] = "class" -> m.class[c[2]]
    [] c[1] = "not" -> Domain \ Ext(m, c[2])
    [] c[1] = "and" -> {d \in Domain : \A e \in c[2] : d \in Ext(m, e)}
    [] c[1] = "or" -> UNION {Ext(m, e) : e \in c[2]}
    [] c[1] = "oneof" -> {m.ind[i] : i \in c[2]}
    [] c[1] = "self" -> {d \in Domain : <<d, d>> \in RoleExt(m, c[2])}
    [] c[1] = "has" -> {d \in Domain : <<d, m.ind[c[3]]>> \in RoleExt(m, c[2])}
    [] c[1] \in {"some", "all"} ->
         {d \in Domain : Quantified(c[1], Successors(RoleExt(m, c[2]), d), Ext(m, c[3]))}
    [] c[1] \in {"min", "max", "exact"} ->
         {d \in Domain : Counted(c[1], Cardinality(Successors(RoleExt(m, c[3]), d) \cap Ext(m, c[4])), c[2])}
    [] c[1] \in {"dsome", "dall"} ->
         {d \in Domain : Quantified(c[1], Successors(DataExt(m, c[2]), d), RangeExt(m, c[3]))}
    [] c[1] \in {"dmin", "dmax", "dexact"} ->
         {d \in Domain : Counted(c[1], Cardinality(Successors(DataExt(m, c[3]), d) \cap RangeExt(m, c[4])), c[2])}
    [] c[1] = "dhas" -> {d \in Domain : <<d, m.lit[c[3]]>> \in DataExt(m, c[2])}

Compose(r, s) == {<<p[1], q[2]>> : <<p, q>> \in {z \in r \X s : z[1][2] = z[2][1]}}
RECURSIVE ChainExt(_, _)
ChainExt(m, chain) == IF Len(chain) = 1 THEN RoleExt(m, chain[1])
                      ELSE Compose(RoleExt(m, chain[1]), ChainExt(m, Tail(chain)))

Pairs(s) == {<<s[i], s[j]>> : <<i, j>> \in {z \in (1..Len(s)) \X (1..Len(s)) : z[1] < z[2]}}

(***************************************************************************)
(* When an interpretation satisfies an axiom.                              *)
(***************************************************************************)
Satisfies(m, ax) ==
  CASE ax[1] = "SubClassOf" -> Ext(m, ax[2]) \subseteq Ext(m, ax[3])
    [] ax[1] = "EquivalentClasses" -> \A p \in Pairs(ax[2]) : Ext(m, p[1]) = Ext(m, p[2])
    [] ax[1] = "DisjointClasses" -> \A p \in Pairs(ax[2]) : Ext(m, p[1]) \cap Ext(m, p[2]) = {}
    [] ax[1] = "DisjointUnion" ->
         /\ m.class[ax[2]] = UNION {Ext(m, ax[3][i]) : i \in DOMAIN ax[3]}
         /\ \A p \in Pairs(ax[3]) : Ext(m, p[1]) \cap Ext(m, p[2]) = {}
    [] ax[1] = "SubObjectPropertyOf" -> RoleExt(m, ax[2]) \subseteq RoleExt(m, ax[3])
    [] ax[1] = "SubPropertyChainOf" -> ChainExt(m, ax[2]) \subseteq RoleExt(m, ax[3])
    [] ax[1] = "EquivalentObjectProperties" -> \A p \in Pairs(ax[2]) : RoleExt(m, p[1]) = RoleExt(m, p[2])
    [] ax[1] = "DisjointObjectProperties" ->
         \A p \in Pairs(ax[2]) : RoleExt(m, p[1]) \cap RoleExt(m, p[2]) = {}
    [] ax[1] = "InverseObjectProperties" -> RoleExt(m, ax[2]) = RoleExt(m, Inv(ax[3]))
    [] ax[1] = "ObjectPropertyDomain" -> \A p \in RoleExt(m, ax[2]) : p[1] \in Ext(m, ax[3])
    [] ax[1] = "ObjectPropertyRange" -> \A p \in RoleExt(m, ax[2]) : p[2] \in Ext(m, ax[3])
    [] ax[1] = "Functional" -> \A p, q \in RoleExt(m, ax[2]) : p[1] = q[1] => p = q
    [] ax[1] = "InverseFunctional" -> \A p, q \in RoleExt(m, ax[2]) : p[2] = q[2] => p = q
    [] ax[1] = "Symmetric" -> \A p \in RoleExt(m, ax[2]) : <<p[2], p[1]>> \in RoleExt(m, ax[2])
    [] ax[1] = "Asymmetric" -> \A p \in RoleExt(m, ax[2]) : <<p[2], p[1]>> \notin RoleExt(m, ax[2])
    [] ax[1] = "Reflexive" -> \A d \in Domain : <<d, d>> \in RoleExt(m, ax[2])
    [] ax[1] = "Irreflexive" -> \A d \in Domain : <<d, d>> \notin RoleExt(m, ax[2])
    [] ax[1] = "Transitive" -> Compose(RoleExt(m, ax[2]), RoleExt(m, ax[2])) \subseteq RoleExt(m, ax[2])
    [] ax[1] = "ClassAssertion" -> m.ind[ax[3]] \in Ext(m, ax[2])
    [] ax[1] = "ObjectPropertyAssertion" -> <<m.ind[ax[3]], m.ind[ax[4]]>> \in RoleExt(m, ax[2])
    [] ax[1] = "NegativeObjectPropertyAssertion" -> <<m.ind[ax[3]], m.ind[ax[4]]>> \notin RoleExt(m, ax[2])
    [] ax[1] = "DataPropertyAssertion" -> <<m.ind[ax[3]], m.lit[ax[4]]>> \in DataExt(m, ax[2])
    [] ax[1] = "NegativeDataPropertyAssertion" -> <<m.ind[ax[3]], m.lit[ax[4]]>> \notin DataExt(m, ax[2])
    [] ax[1] = "SameIndividual" -> \A p \in Pairs(ax[2]) : m.ind[p[1]] = m.ind[p[2]]
    [] ax[1] = "DifferentIndividuals" -> \A p \in Pairs(ax[2]) : m.ind[p[1]] # m.ind[p[2]]
    [] ax[1] = "SubDataPropertyOf" -> DataExt(m, ax[2]) \subseteq DataExt(m, ax[3])
    [] ax[1] = "EquivalentDataProperties" -> \A p \in Pairs(ax[2]) : DataExt(m, p[1]) = DataExt(m, p[2])
    [] ax[1] = "DisjointDataProperties" -> \A p \in Pairs(ax[2]) : DataExt(m, p[1]) \cap DataExt(m, p[2]) = {}
    [] ax[1] = "DataPropertyDomain" -> \A p \in DataExt(m, ax[2]) : p[1] \in Ext(m, ax[3])
    [] ax[1] = "DataPropertyRange" -> \A p \in DataExt(m, ax[2]) : p[2] \in RangeExt(m, ax[3])
    [] ax[1] = "FunctionalDataProperty" -> \A p, q \in DataExt(m, ax[2]) : p[1] = q[1] => p = q
    [] ax[1] = "DatatypeDefinition" -> m.dt[ax[2]] = RangeExt(m, ax[3])
    [] ax[1] = "HasKey" ->
         \A d, e \in Ext(m, ax[2]) :
           (/\ \A i \in DOMAIN ax[3] :
                 Successors(RoleExt(m, ax[3][i]), d) \cap Successors(RoleExt(m, ax[3][i]), e) # {}
            /\ \A i \in DOMAIN ax[4] :
                 Successors(DataExt(m, ax[4][i]), d) \cap Successors(DataExt(m, ax[4][i]), e) # {})
           => d = e

(***************************************************************************)
(* The interpretations that agree with m on its names and interpret the    *)
(* fresh names (a record of sets, one per kind) in every possible way.     *)
(***************************************************************************)
NoFresh == [class |-> {}, ind |-> {}, dp |-> {}, lit |-> {}]

Extensions(m, fresh) ==
  {[m EXCEPT !.class = e[1] @@ @, !.ind = e[2] @@ @, !.dp = e[3] @@ @, !.lit = e[4] @@ @] :
     e \in [fresh.class -> SUBSET Domain] \X [fresh.ind -> Domain]
           \X [fresh.dp -> SUBSET (Domain \X Values)] \X [fresh.lit -> Values]}

(***************************************************************************)
(* An ontology is the set of its models; with axioms over fresh names      *)
(* added it is consistent when some model extends to one of the axioms.    *)
(***************************************************************************)
ConsistentWith(models, axioms, fresh) ==
  \E m \in models : \E e \in Extensions(m, fresh) : \A ax \in axioms : Satisfies(e, ax)

Entails(models, ax) == \A m \in models : Satisfies(m, ax)
=============================================================================
