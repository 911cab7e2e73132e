--------------------------- MODULE Normalization ---------------------------
(***************************************************************************)
(* The structural transformation of an ontology into normalized            *)
(* inclusions, facts and rules (structural/owl_normalization.rs).          *)
(*                                                                         *)
(* OWLNormalization::process_axioms visits the axioms in the order the     *)
(* ontology's hash set yields them (Visit), normalizes the rules it        *)
(* collected (Normalize, one step per rule and head atom), then pops the   *)
(* work lists of class and of data inclusions until they are empty         *)
(* (PopInclusion, PopDataInclusion).  The whole normalizer is the record   *)
(* norm; its vectors of output axioms are sets (their order carries        *)
(* nothing), its work lists are stacks.  An inclusion is the set of its    *)
(* disjuncts.  Where the code walks sorted operands, any fixed order is    *)
(* taken: it only numbers the fresh names.                                 *)
(***************************************************************************)
EXTENDS Expressions, SequencesExt

CONSTANTS Questions,   \* records: axioms (the ontology), theme (of its names), wellFormed
          Interps,     \* the interpretations of the names of a theme
          Anonymous    \* the anonymous individuals

VARIABLES question, todo, norm, phase

vars == <<question, todo, norm, phase>>

(***************************************************************************)
(* Fresh names: definitions of class expressions, of negated nominals, of  *)
(* data ranges, and the names rule_to_fact invents.  Each list is longer   *)
(* than any question needs.                                                *)
(***************************************************************************)
DefNames == <<"def0", "def1", "def2", "def3", "def4", "def5", "def6">>
NnqNames == <<"nnq0", "nnq1">>
DefDataNames == <<"defdata0", "defdata1", "defdata2", "defdata3", "defdata4", "defdata5">>
FreshIndividuals == <<"swrlfact0", "swrlfact1">>
FreshDataProperties == <<"freshDP1", "freshDP2">>
FreshVariables == <<"swrl0", "swrl1", "swrl2">>

OneOf(inds) == <<"oneof", inds>>
IsClass(c) == c[1] \in {"class", "thing", "nothing"}
IsSimple(c) == IsClass(c) \/ (c[1] = "not" /\ IsClass(c[2]))
IsLiteral(r) == r[1] \in AtomicRanges \/ (r[1] = "dnot" /\ r[2][1] \in AtomicRanges)
IsNominal(c) == c[1] = "oneof"
IsNegatedOneNominal(c) == c[1] = "not" /\ c[2][1] = "oneof" /\ Cardinality(c[2][2]) = 1

EmptyNormalization ==
  [incl |-> <<>>, dincl |-> <<>>, rules |-> <<>>,
   concept |-> {}, range |-> {}, simple |-> {}, complex |-> {}, disjoint |-> {}, reflexive |-> {},
   irreflexive |-> {}, asymmetric |-> {}, dataIncl |-> {}, disjointData |-> {}, facts |-> {},
   keys |-> {}, drules |-> {}, noted |-> {}, named |-> {},
   defs |-> <<>>, minted |-> 0, nnq |-> <<>>, ddefs |-> <<>>, odd |-> FALSE, outcome |-> "ok"]

Fail(s) == [s EXCEPT !.outcome = "error"]
Panic(s) == [s EXCEPT !.outcome = "panic"]
Push(s, inclusion) == [s EXCEPT !.incl = Append(@, inclusion)]
PushAll(s, inclusions) == [s EXCEPT !.incl = @ \o SetToSeq(inclusions)]
PushData(s, inclusion) == [s EXCEPT !.dincl = Append(@, inclusion)]
AddFact(s, fact) == [s EXCEPT !.facts = @ \cup {fact}]
NoteAll(s, roles) == [s EXCEPT !.noted = @ \cup {r[1] : r \in roles}]

(***************************************************************************)
(* The polarity a definition is given: negative when the expression only   *)
(* puts negated classes on a node.                                         *)
(***************************************************************************)
RECURSIVE PlVisit(_)
PlVisit(c) ==
  CASE c[1] = "class" -> TRUE
    [] c[1] \in {"thing", "nothing", "not"} -> FALSE
    [] c[1] \in {"and", "or"} -> \E d \in c[2] : PlVisit(d)
    [] c[1] = "all" -> PlVisit(c[3])
    [] c[1] = "min" -> c[2] > 0
    [] c[1] \in {"max", "exact"} -> c[2] > 0 \/ PlVisit(GetComplementNnf(c[4]))
    [] OTHER -> TRUE

(***************************************************************************)
(* get_definition_for: the literal standing for c, and whether it existed. *)
(* minted counts the class names made so far; the code itself numbers a    *)
(* name by the size of the map.                                            *)
(***************************************************************************)
GetDefinitionFor(s, c, forcePositive) ==
  IF c \in DOMAIN s.defs /\ ~(forcePositive /\ ~IsClass(s.defs[c]))
  THEN [s |-> s, def |-> s.defs[c], exists |-> TRUE]
  ELSE LET atom == Class(DefNames[Cardinality(DOMAIN s.defs) + 1])
           def == IF ~forcePositive /\ ~PlVisit(c) THEN Not(atom) ELSE atom
       IN [s |-> [s EXCEPT !.defs = (c :> def) @@ @, !.minted = @ + 1], def |-> def, exists |-> FALSE]

GetDataDefinitionFor(s, r) ==
  IF r \in DOMAIN s.ddefs
  THEN [s |-> s, def |-> s.ddefs[r], exists |-> TRUE]
  ELSE LET def == <<"datatype", DefDataNames[Cardinality(DOMAIN s.ddefs) + 1]>>
       IN [s |-> [s EXCEPT !.ddefs = (r :> def) @@ @], def |-> def, exists |-> FALSE]

\* The definition d, a new one implying each of the disjunctions of implied.
ImplyingAll(d, implied) ==
  [s |-> IF d.exists THEN d.s ELSE PushAll(d.s, {{Negative(d.def)} \cup e : e \in implied}), def |-> d.def]
ImplyingData(d, implied) ==
  [s |-> IF d.exists THEN d.s ELSE PushData(d.s, {NegativeDr(d.def), implied}), def |-> d.def]

\* c replaced by its definition; a new definition implies c.
Replace(s, c) == ImplyingAll(GetDefinitionFor(s, c, FALSE), {{c}})
NamedFor(s, c) == IF IsSimple(c) THEN [s |-> s, def |-> c] ELSE Replace(s, c)

\* Data range r replaced by the definition of key; a new definition implies implied.
ReplaceData(s, key, implied) == ImplyingData(GetDataDefinitionFor(s, key), implied)

(***************************************************************************)
(* visit_axiom, by the kind of the axiom.  Operand lists are taken as sets *)
(* (the code sorts and drops duplicates).                                  *)
(***************************************************************************)
Operands(list) == SetToSeq(ToSet(list))
Cycle(q) == {<<q[i], q[(i % Len(q)) + 1]>> : i \in DOMAIN q}

PairwiseDisjoint(list) == {{GetComplementNnf(p[1]), GetComplementNnf(p[2])} : p \in Pairs(Operands(list))}

VisitClassAxiom(s, ax) ==
  CASE ax[1] = "SubClassOf" -> Push(s, {Negative(ax[2]), Positive(ax[3])})
    [] ax[1] = "EquivalentClasses" ->
         IF Cardinality(ToSet(ax[2])) < 2 THEN s
         ELSE PushAll(s, {{Negative(p[1]), Positive(p[2])} : p \in Cycle(Operands(ax[2]))})
    [] ax[1] = "DisjointClasses" ->
         IF Cardinality(ToSet(ax[2])) < 2 THEN Fail(s) ELSE PushAll(s, PairwiseDisjoint(ax[2]))
    [] ax[1] = "DisjointUnion" ->
         LET covered == Push(s, ToSet(ax[3]) \cup {GetComplementNnf(Class(ax[2]))})
             below == PushAll(covered, {{Negative(d), Class(ax[2])} : d \in ToSet(ax[3])})
         IN PushAll(below, PairwiseDisjoint(ax[3]))

AddObjectInclusions(s, pairs) == [s EXCEPT !.simple = @ \cup pairs]
MakeTransitive(s, r) == [s EXCEPT !.complex = @ \cup {<<<<r, r>>, r>>}]

VisitChain(s, chain, sup) ==
  IF BottomRole \in ToSet(chain) \/ sup = TopRole THEN s
  ELSE CASE chain = <<>> -> Fail(s)
         [] Len(chain) = 1 -> AddObjectInclusions(s, {<<chain[1], sup>>})
         [] chain = <<sup, sup>> -> MakeTransitive(s, sup)
         [] OTHER -> [s EXCEPT !.complex = @ \cup {<<chain, sup>>}]

\* The axioms that become inclusions of object properties.
VisitPropertyInclusion(s, ax) ==
  CASE ax[1] = "SubObjectPropertyOf" ->
         NoteAll(IF ax[2] = BottomRole \/ ax[3] = TopRole THEN s ELSE AddObjectInclusions(s, {<<ax[2], ax[3]>>}),
                 {ax[2], ax[3]})
    [] ax[1] = "SubPropertyChainOf" -> NoteAll(VisitChain(s, ax[2], ax[3]), ToSet(ax[2]) \cup {ax[3]})
    [] ax[1] = "EquivalentObjectProperties" ->
         NoteAll(AddObjectInclusions(s, IF Cardinality(ToSet(ax[2])) < 2 THEN {} ELSE Cycle(Operands(ax[2]))),
                 ToSet(ax[2]))
    [] ax[1] = "InverseObjectProperties" ->
         NoteAll(AddObjectInclusions(s, {<<ax[2], Inv(ax[3])>>, <<ax[3], Inv(ax[2])>>}), {ax[2], ax[3]})
    [] ax[1] = "Symmetric" -> NoteAll(AddObjectInclusions(s, {<<ax[2], Inv(ax[2])>>}), {ax[2]})
    [] ax[1] = "Transitive" -> NoteAll(MakeTransitive(s, ax[2]), {ax[2]})

\* The axioms that restrict an object property.
VisitPropertyRestriction(s, ax) ==
  CASE ax[1] = "DisjointObjectProperties" ->
         NoteAll([s EXCEPT !.disjoint = @ \cup {ToSet(ax[2])}], ToSet(ax[2]))
    [] ax[1] = "ObjectPropertyDomain" -> NoteAll(Push(s, {Positive(ax[3]), All(ax[2], Nothing)}), {ax[2]})
    [] ax[1] = "ObjectPropertyRange" -> Push(s, {All(ax[2], Positive(ax[3]))})
    [] ax[1] = "Functional" -> NoteAll(Push(s, {<<"max", 1, ax[2], Thing>>}), {ax[2]})
    [] ax[1] = "InverseFunctional" -> NoteAll(Push(s, {<<"max", 1, Inv(ax[2]), Thing>>}), {ax[2]})
    [] ax[1] = "Reflexive" -> NoteAll([s EXCEPT !.reflexive = @ \cup {ax[2]}], {ax[2]})
    [] ax[1] = "Irreflexive" -> NoteAll([s EXCEPT !.irreflexive = @ \cup {ax[2]}], {ax[2]})
    [] ax[1] = "Asymmetric" -> NoteAll([s EXCEPT !.asymmetric = @ \cup {ax[2]}], {ax[2]})

\* The data property axioms; owl:topDataProperty is only a super-property.
VisitDataPropertyAxiom(s, ax) ==
  CASE ax[1] = "SubDataPropertyOf" ->
         CASE ax[2] = "topData" -> Fail(s)
           [] ax[2] # "topData" /\ (ax[2] = "bottomData" \/ ax[3] = "topData") -> s
           [] OTHER -> [s EXCEPT !.dataIncl = @ \cup {<<ax[2], ax[3]>>}]
    [] ax[1] = "EquivalentDataProperties" ->
         IF "topData" \in ToSet(ax[2]) THEN Fail(s)
         ELSE [s EXCEPT !.dataIncl = @ \cup
                 (IF Cardinality(ToSet(ax[2])) < 2 THEN {} ELSE Cycle(Operands(ax[2])))]
    [] ax[1] = "DisjointDataProperties" ->
         IF "topData" \in ToSet(ax[2]) THEN Fail(s)
         ELSE [s EXCEPT !.disjointData = @ \cup {ToSet(ax[2])}]
    [] ax[1] = "DataPropertyDomain" ->
         IF ax[2] = "topData" THEN Fail(s)
         ELSE Push(s, {Positive(ax[3]), <<"dall", ax[2], BottomDataRange>>})
    [] ax[1] = "DataPropertyRange" ->
         IF ax[2] = "topData" THEN Fail(s) ELSE Push(s, {<<"dall", ax[2], PositiveDr(ax[3])>>})
    [] ax[1] = "FunctionalDataProperty" ->
         IF ax[2] = "topData" THEN Fail(s) ELSE Push(s, {<<"dmax", 1, ax[2], Literal>>})

AssertClass(d, ind) == AddFact(d.s, <<"ClassAssertion", d.def, ind>>)

\* The assertions.  A class assertion of one data value is a data property
\* assertion; another complex class is replaced by its definition.
VisitAssertion(s, ax) ==
  CASE ax[1] \in {"SameIndividual", "DifferentIndividuals"} ->
         IF ToSet(ax[2]) \cap Anonymous # {} THEN Fail(s) ELSE AddFact(s, ax)
    [] ax[1] = "ClassAssertion" /\ ax[2][1] = "dhas" ->
         AddFact(s, <<"DataPropertyAssertion", ax[2][2], ax[3], ax[2][3]>>)
    [] ax[1] = "ClassAssertion" /\ ax[2][1] = "dsome" /\ ax[2][3][1] = "done" /\ Cardinality(ax[2][3][2]) = 1 ->
         AddFact(s, <<"DataPropertyAssertion", ax[2][2], ax[3], CHOOSE l \in ax[2][3][2] : TRUE>>)
    [] ax[1] = "ClassAssertion" /\ ax[2][1] # "dhas"
         /\ ~(ax[2][1] = "dsome" /\ ax[2][3][1] = "done" /\ Cardinality(ax[2][3][2]) = 1) ->
         AssertClass(NamedFor(s, Positive(ax[2])), ax[3])
    [] ax[1] = "ObjectPropertyAssertion" -> NoteAll(AddFact(s, ax), {ax[2]})
    [] ax[1] = "NegativeObjectPropertyAssertion" ->
         IF {ax[3], ax[4]} \cap Anonymous # {} THEN Fail(s) ELSE NoteAll(AddFact(s, ax), {ax[2]})
    [] ax[1] = "DataPropertyAssertion" -> IF ax[2] = "topData" THEN Fail(s) ELSE AddFact(s, ax)
    [] ax[1] = "NegativeDataPropertyAssertion" ->
         IF ax[2] = "topData" \/ ax[3] \in Anonymous THEN Fail(s) ELSE AddFact(s, ax)

VisitDatatypeDefinition(s, ax) ==
  LET datatype == <<"datatype", ax[2]>>
  IN PushData(PushData(s, {NegativeDr(datatype), PositiveDr(ax[3])}),
              {NegativeDr(ax[3]), PositiveDr(datatype)})

\* The class a key is stated for: the complement of a definition of its complement.
Complemented(d) == [s |-> d.s, def |-> Negative(d.def)]
KeyClass(s, c) ==
  IF IsSimple(Positive(c)) THEN [s |-> s, def |-> Positive(c)] ELSE Complemented(Replace(s, Negative(c)))

AddKey(k, ax) == NoteAll([k.s EXCEPT !.keys = @ \cup {<<"HasKey", k.def, ax[3], ax[4]>>}], ToSet(ax[3]))
VisitHasKey(s, ax) == IF "topData" \in ToSet(ax[4]) THEN Fail(s) ELSE AddKey(KeyClass(s, ax[2]), ax)

(***************************************************************************)
(* Rules without a body (Rule2FactConverter): each head atom is a fact.    *)
(* counts numbers the fresh names; the visit of a rule starts it at 0.     *)
(***************************************************************************)
Arguments(atom) == CASE atom[1] \in {"C", "D"} -> {atom[3]}
                     [] atom[1] \in {"P", "U"} -> {atom[3], atom[4]}
                     [] atom[1] \in {"same", "diff"} -> {atom[2], atom[3]}
                     [] OTHER -> {}
Ground(arg) == arg[1] = "lit" \/ (arg[1] = "ind" /\ arg[2] \notin Anonymous)

GroundFact(s, atom, count) ==
  CASE atom[1] = "C" ->
         AssertClass(NamedFor(s, atom[2]), atom[3][2])
    [] atom[1] = "P" ->
         LET r == atom[2] IN
         AddFact(s, IF r[2] THEN <<"ObjectPropertyAssertion", Inv(r), atom[4][2], atom[3][2]>>
                    ELSE <<"ObjectPropertyAssertion", r, atom[3][2], atom[4][2]>>)
    [] atom[1] = "U" ->
         AddFact(s, <<"DataPropertyAssertion", atom[2], atom[3][2], atom[4][2]>>)
    [] atom[1] \in {"same", "diff"} ->
         AddFact(s, <<IF atom[1] = "same" THEN "SameIndividual" ELSE "DifferentIndividuals",
                      Operands(<<atom[2][2], atom[3][2]>>)>>)
    [] atom[1] = "D" ->
         LET dp == FreshDataProperties[count + 1]
             ind == FreshIndividuals[count + 1]
         IN Push([AssertClass(Replace(s, <<"dsome", dp, <<"done", {atom[3][2]}>>>>), ind)
                    EXCEPT !.named = @ \cup {ind}], {<<"dall", dp, atom[2]>>})

RuleToFact(s, atom, count) ==
  IF atom[1] = "builtin" \/ \E arg \in Arguments(atom) : ~Ground(arg) THEN Fail(s)
  ELSE GroundFact(s, atom, count)

RECURSIVE RuleToFacts(_, _, _)
RuleToFacts(s, head, count) ==
  IF head = <<>> \/ s.outcome # "ok" THEN s
  ELSE RuleToFacts(RuleToFact(s, head[1], count), Tail(head),
                   IF head[1][1] = "D" THEN count + 1 ELSE count)

VisitRule(s, ax) ==
  CASE \E atom \in ToSet(ax[2] \o ax[3]) : atom[1] = "U" /\ atom[2] = "topData" -> Fail(s)
    [] ax[2] = <<>> -> RuleToFacts(s, ax[3], 0)
    [] OTHER -> [s EXCEPT !.rules = Append(@, <<ax[2], ax[3]>>)]

(***************************************************************************)
(* Rules with a body (RuleNormalizer), one head atom at a time: z is the   *)
(* normalizer with the state of this rule.                                 *)
(***************************************************************************)
Arg(v) == <<"var", v>>
Representative(z, v) == IF v \in DOMAIN z.rep THEN z.rep[v] ELSE v
FailRule(z) == [z EXCEPT !.s = Fail(@)]
AddBody(z, atom) == [z EXCEPT !.body = @ \cup {atom}]
AddHead(z, atom) == [z EXCEPT !.head = @ \cup {atom}]
AddAtom(z, positive, atom) == IF positive THEN AddHead(z, atom) ELSE AddBody(z, atom)

\* rn_variable_for: an individual is a variable bound by a nominal in the body.
VariableFor(z, arg) ==
  CASE arg[1] = "var" -> [z |-> z, v |-> Representative(z, arg[2])]
    [] arg[1] = "ind" /\ arg[2] \in Anonymous -> [z |-> FailRule(z), v |-> arg[2]]
    [] arg[1] = "ind" /\ arg[2] \in DOMAIN z.indv -> [z |-> z, v |-> Representative(z, z.indv[arg[2]])]
    [] OTHER ->
         LET v == FreshVariables[z.next + 1]
         IN [z |-> [z EXCEPT !.next = @ + 1, !.indv = (arg[2] :> v) @@ @,
                             !.bodyWork = Append(@, <<"C", OneOf({arg[2]}), Arg(v)>>)],
             v |-> Representative(z, v)]

\* Two arguments, the first one first.
VariablesFor(z, first, second) ==
  LET x == VariableFor(z, first)
      y == VariableFor(x.z, second)
  IN [z |-> y.z, v |-> x.v, w |-> y.v]

RuleComplexAtom(x, d, atom, positive) ==
  LET implied == IF positive THEN {Negative(d.def), atom[2]} ELSE {Negative(atom[2]), d.def}
  IN AddAtom([x.z EXCEPT !.s = IF d.exists THEN d.s ELSE Push(d.s, implied)], positive, <<"C", d.def, Arg(x.v)>>)
RuleClassAtomOf(x, simplified, atom, positive) ==
  IF IsClass(simplified) THEN AddAtom(x.z, positive, <<"C", simplified, Arg(x.v)>>)
  ELSE RuleComplexAtom(x, GetDefinitionFor(x.z.s, atom[2], TRUE), atom, positive)
RuleClassAtom(z, atom, positive) ==
  RuleClassAtomOf(VariableFor(z, atom[3]), GetSimplified(GetNnf(atom[2])), atom, positive)

\* A data range atom of the body is its complement in the head.
RuleDataRangeAtom(z, atom, positive) ==
  LET r == PositiveDr(IF positive THEN atom[2] ELSE DNot(atom[2]))
      d == IF r[1] \in BooleanRanges THEN ReplaceData(z.s, r, r) ELSE [s |-> z.s, def |-> r]
  IN IF atom[3][1] # "var" THEN FailRule(z)
     ELSE [AddHead(z, <<"D", d.def, atom[3]>>) EXCEPT !.s = d.s, !.headData = @ \cup {atom[3][2]}]

RuleObjectPropertyAtom(z, atom, positive) ==
  LET inverted == atom[2][2]
      xy == IF inverted THEN VariablesFor(z, atom[4], atom[3]) ELSE VariablesFor(z, atom[3], atom[4])
  IN AddAtom(xy.z, positive, <<"P", Role(atom[2][1]), Arg(xy.v), Arg(xy.w)>>)

\* A repeated data variable of the body is a fresh one, or they differ.
RuleDataVariable(z, dp, x, y, positive) ==
  LET fresh == FreshVariables[z.next + 1]
  IN IF positive THEN [AddHead(z, <<"U", dp, Arg(x), Arg(y)>>) EXCEPT !.headData = @ \cup {y}]
     ELSE IF y \notin z.bodyData THEN [AddBody(z, <<"U", dp, Arg(x), Arg(y)>>) EXCEPT !.bodyData = @ \cup {y}]
     ELSE AddHead(AddBody([z EXCEPT !.next = @ + 1], <<"U", dp, Arg(x), Arg(fresh)>>), <<"diff", Arg(y), Arg(fresh)>>)

RuleDataPropertyAtom(z, atom, positive) ==
  LET x == VariableFor(z, atom[3])
      has == <<"C", <<"dhas", atom[2], atom[4][2]>>, Arg(x.v)>>
  IN IF atom[4][1] = "var"
     THEN RuleDataVariable(x.z, atom[2], x.v, Representative(x.z, atom[4][2]), positive)
     ELSE IF positive THEN [x.z EXCEPT !.headWork = Append(@, has)]
     ELSE [x.z EXCEPT !.bodyWork = Append(@, has)]

\* An inequality of the body is an equality in the head.
RuleEqualityAtom(z, atom, positive) ==
  LET xy == VariablesFor(z, atom[2], atom[3])
  IN CASE atom[1] = "same" /\ ~positive -> FailRule(z)
       [] atom[1] = "diff" /\ ~positive -> AddHead(xy.z, <<"same", Arg(xy.v), Arg(xy.w)>>)
       [] OTHER -> AddHead(xy.z, <<atom[1], Arg(xy.v), Arg(xy.w)>>)

RnVisitAtom(z, atom, positive) ==
  CASE atom[1] = "C" -> RuleClassAtom(z, atom, positive)
    [] atom[1] = "D" -> RuleDataRangeAtom(z, atom, positive)
    [] atom[1] = "P" -> RuleObjectPropertyAtom(z, atom, positive)
    [] atom[1] = "U" -> RuleDataPropertyAtom(z, atom, positive)
    [] atom[1] \in {"same", "diff"} -> RuleEqualityAtom(z, atom, positive)
    [] atom[1] = "builtin" -> FailRule(z)

\* The equalities of the body unify variables and bind individuals.
RECURSIVE Unify(_, _)
Unify(z, equalities) ==
  IF equalities = <<>> \/ z.s.outcome # "ok" THEN z
  ELSE LET first == equalities[1][2]
           second == equalities[1][3]
           x == VariableFor(z, first)
           next == CASE second[1] = "var" -> [x.z EXCEPT !.rep = (second[2] :> x.v) @@ @]
                     [] second[2] \in Anonymous -> FailRule(x.z)
                     [] OTHER -> [x.z EXCEPT !.indv = (second[2] :> x.v) @@ @,
                                             !.bodyWork = Append(@, <<"C", OneOf({second[2]}), Arg(x.v)>>)]
       IN Unify(next, Tail(equalities))

RECURSIVE ProcessHead(_, _), ProcessBody(_, _)
ProcessHead(z, i) ==
  IF i > Len(z.headWork) \/ z.s.outcome # "ok" THEN z
  ELSE ProcessHead(RnVisitAtom(z, z.headWork[i], TRUE), i + 1)
ProcessBody(z, j) ==
  IF j > Len(z.bodyWork) \/ z.s.outcome # "ok" THEN z
  ELSE ProcessBody(RnVisitAtom(z, z.bodyWork[j], FALSE), j + 1)

AddRule(z) ==
  CASE z.s.outcome # "ok" -> z.s
    [] z.s.outcome = "ok" /\ ~(z.headData \subseteq z.bodyData) -> Fail(z.s)
    [] OTHER -> [z.s EXCEPT !.drules = @ \cup {<<z.body, z.head>>}]
NormalizeHeadAtom(s, body, atom) ==
  LET isSame(a) == a[1] = "same"
      isOther(a) == a[1] # "same"
      start == [s |-> s, body |-> {}, head |-> {}, rep |-> <<>>, indv |-> <<>>, bodyData |-> {},
                headData |-> {}, next |-> 0, bodyWork |-> SelectSeq(body, isOther), headWork |-> <<atom>>]
  IN AddRule(ProcessBody(ProcessHead(Unify(start, SelectSeq(body, isSame)), 1), 1))

(***************************************************************************)
(* Normalization of one disjunct: the disjunct with its complex fillers    *)
(* replaced by definitions.                                                *)
(***************************************************************************)
Kept(s, c) == [s |-> s, def |-> c]
Noted(s, r) == NoteAll(s, {r})
WithFiller(d, restriction) == [s |-> d.s, def |-> Append(restriction, d.def)]

\* The disjunct of a definition whose conjuncts are one disjunction.
DefineConjunctionWeakly(s, c) == ImplyingAll(GetDefinitionFor(s, c, FALSE), {c[2]})

\* A conjunction: its definition implies every conjunct.
DefineConjunction(s, c) == ImplyingAll(GetDefinitionFor(s, c, FALSE), {{e} : e \in c[2]})

\* A negated nominal: its individuals are asserted to be in its definition.
DefineNegativeNominal(s, c) ==
  LET exists == c[2] \in DOMAIN s.nnq
      atom == IF exists THEN s.nnq[c[2]] ELSE Class(NnqNames[Cardinality(DOMAIN s.nnq) + 1])
  IN [s |-> IF exists THEN s
            ELSE [s EXCEPT !.nnq = (c[2] :> atom) @@ @,
                           !.facts = @ \cup {<<"ClassAssertion", atom, i>> : i \in c[2][2]}],
      def |-> Not(atom)]

\* At most n of a complex filler: the complement of a definition of its complement.
AtMost(d, c) == [s |-> d.s, def |-> <<"max", c[2], c[3], GetComplementNnf(d.def)>>]
DefineAtMost(s, c) == AtMost(Replace(Noted(s, c[3]), GetComplementNnf(c[4])), c)

NormalizeObject(s, c) ==
  CASE IsClass(c) -> Kept(s, c)
    [] c[1] = "and" -> DefineConjunction(s, c)
    [] c[1] = "not" -> IF IsNominal(c[2]) THEN DefineNegativeNominal(s, c) ELSE Kept(s, c)
    [] c[1] = "oneof" -> IF c[2] \cap Anonymous # {} THEN Kept(Fail(s), c) ELSE Kept(s, c)
    [] c[1] = "self" -> Kept(Noted(s, c[2]), c)
    [] c[1] = "some" ->
         IF IsSimple(c[3]) \/ IsNominal(c[3]) THEN Kept(Noted(s, c[2]), c)
         ELSE WithFiller(Replace(Noted(s, c[2]), c[3]), <<"some", c[2]>>)
    [] c[1] = "all" ->
         IF IsSimple(c[3]) \/ IsNominal(c[3]) \/ IsNegatedOneNominal(c[3]) THEN Kept(Noted(s, c[2]), c)
         ELSE WithFiller(Replace(Noted(s, c[2]), c[3]), <<"all", c[2]>>)
    [] c[1] = "min" ->
         IF IsSimple(c[4]) THEN Kept(Noted(s, c[3]), c)
         ELSE WithFiller(Replace(Noted(s, c[3]), c[4]), <<"min", c[2], c[3]>>)
    [] c[1] = "max" -> IF IsSimple(c[4]) THEN Kept(Noted(s, c[3]), c) ELSE DefineAtMost(s, c)
    [] c[1] \in {"or", "has", "exact", "dhas", "dexact"} -> Kept(Panic(s), c)

\* The data restrictions; for at most n the definition is that of the
\* complement of the range, and implies the range.
NormalizeData(s, c) ==
  LET restriction == Front(c)
      r == Last(c)
      property == Last(restriction)
      atMost == ReplaceData(s, GetComplementNnfData(r), r)
  IN CASE property = "topData" -> Kept(Fail(s), c)
       [] property # "topData" /\ IsLiteral(r) -> Kept(s, c)
       [] property # "topData" /\ ~IsLiteral(r) /\ c[1] = "dmax" ->
            [s |-> atMost.s, def |-> Append(restriction, GetComplementNnfData(atMost.def))]
       [] OTHER -> WithFiller(ReplaceData(s, r, r), restriction)

NormalizeClassExpression(s, c) ==
  IF c[1] \in {"dsome", "dall", "dmin", "dmax"} THEN NormalizeData(s, c) ELSE NormalizeObject(s, c)

NormalizeDataRange(s, r) ==
  CASE r[1] = "dand" ->
         LET d == GetDataDefinitionFor(s, r)
         IN [s |-> IF d.exists THEN d.s
                   ELSE [d.s EXCEPT !.dincl = @ \o SetToSeq({{NegativeDr(d.def), e} : e \in r[2]})],
             def |-> d.def]
    [] r[1] = "dor" -> Kept(Panic(s), r)
    [] OTHER -> Kept(s, r)

\* Disjunct by disjunct; an error ends it.
Collect(done, d) == [s |-> d.s, def |-> done \cup {d.def}]
NormalizeEach(s, disjuncts) ==
  FoldLeft(LAMBDA acc, c : IF acc.s.outcome # "ok" THEN acc ELSE Collect(acc.def, NormalizeClassExpression(acc.s, c)),
           Kept(s, {}), disjuncts)
NormalizeEachRange(s, disjuncts) ==
  FoldLeft(LAMBDA acc, r : IF acc.s.outcome # "ok" THEN acc ELSE Collect(acc.def, NormalizeDataRange(acc.s, r)),
           Kept(s, {}), disjuncts)

(***************************************************************************)
(* One disjunction: distributed over its only conjunction when the rest is *)
(* simple; turned into assertions when it says that a nominal is in a      *)
(* simple class; else normalized disjunct by disjunct.                     *)
(***************************************************************************)
Distributed(disjuncts, conjunction) == {(disjuncts \ {conjunction}) \cup {e} : e \in conjunction[2]}
OnlyConjunction(disjuncts, kind) == {c \in disjuncts : c[1] = kind /\ \A d \in disjuncts \ {c} : d[1] # kind}
NominalInSimple(disjuncts) ==
  {n \in disjuncts : /\ Cardinality(disjuncts) = 2
                     /\ n[1] = "not" /\ IsNominal(n[2])
                     /\ \A d \in disjuncts \ {n} : IsSimple(d)}

AddConcept(each) == [each.s EXCEPT !.concept = @ \cup {each.def}]
NormalizeDisjunction(s, disjuncts) ==
  LET conjunctions == {c \in OnlyConjunction(disjuncts, "and") : \A d \in disjuncts \ {c} : IsSimple(d)}
      nominals == NominalInSimple(disjuncts)
  IN CASE conjunctions # {} -> PushAll(s, UNION {Distributed(disjuncts, c) : c \in conjunctions})
       [] conjunctions = {} /\ nominals # {} ->
            [s EXCEPT !.facts = @ \cup UNION {{<<"ClassAssertion", d, i>> : d \in disjuncts \ {n}, i \in n[2][2]} :
                                                n \in nominals}]
       [] OTHER -> AddConcept(NormalizeEach(s, SetToSeq(disjuncts)))

NormalizeRangeDisjunction(s, disjuncts) ==
  LET conjunctions == {c \in OnlyConjunction(disjuncts, "dand") : \A d \in disjuncts \ {c} : IsLiteral(d)}
      each == NormalizeEachRange(s, SetToSeq(disjuncts))
  IN IF conjunctions # {}
     THEN [s EXCEPT !.dincl = @ \o SetToSeq(UNION {Distributed(disjuncts, c) : c \in conjunctions})]
     ELSE [each.s EXCEPT !.range = @ \cup {each.def}]

NormalizeAs(c, rest) ==
  CASE c = Thing -> rest
    [] c[1] = "or" -> NormalizeDisjunction(rest, c[2])
    [] c[1] = "and" -> PushAll(rest, {{d} : d \in c[2]})
    [] OTHER -> AddConcept(Collect({}, NormalizeClassExpression(rest, c)))
NormalizeInclusion(s) == NormalizeAs(Positive(Or(Last(s.incl))), [s EXCEPT !.incl = Front(@)])

NormalizeDataInclusion(s) ==
  LET rest == [s EXCEPT !.dincl = Front(@)]
      r == PositiveDr(DOr(Last(s.dincl)))
      other == NormalizeDataRange(rest, r)
  IN CASE r = Literal -> rest
       [] r[1] = "dor" -> NormalizeRangeDisjunction(rest, r[2])
       [] r[1] = "dand" -> [rest EXCEPT !.dincl = @ \o SetToSeq({{e} : e \in r[2]})]
       [] OTHER -> PushData(other.s, {other.def})

(***************************************************************************)
(* The steps of process_axioms.                                            *)
(***************************************************************************)
ClassAxioms == {"SubClassOf", "EquivalentClasses", "DisjointClasses", "DisjointUnion"}
PropertyInclusions == {"SubObjectPropertyOf", "SubPropertyChainOf", "EquivalentObjectProperties",
                       "InverseObjectProperties", "Symmetric", "Transitive"}
PropertyRestrictions == {"DisjointObjectProperties", "ObjectPropertyDomain", "ObjectPropertyRange", "Functional",
                         "InverseFunctional", "Reflexive", "Irreflexive", "Asymmetric"}
DataPropertyAxioms == {"SubDataPropertyOf", "EquivalentDataProperties", "DisjointDataProperties",
                       "DataPropertyDomain", "DataPropertyRange", "FunctionalDataProperty"}

VisitAxiom(s, ax) ==
  CASE ax[1] \in ClassAxioms -> VisitClassAxiom(s, ax)
    [] ax[1] \in PropertyInclusions -> VisitPropertyInclusion(s, ax)
    [] ax[1] \in PropertyRestrictions -> VisitPropertyRestriction(s, ax)
    [] ax[1] \in DataPropertyAxioms -> VisitDataPropertyAxiom(s, ax)
    [] ax[1] = "DatatypeDefinition" -> VisitDatatypeDefinition(s, ax)
    [] ax[1] = "HasKey" -> VisitHasKey(s, ax)
    [] ax[1] = "Rule" -> VisitRule(s, ax)
    [] OTHER -> VisitAssertion(s, ax)

Proceed(s, next) == /\ norm' = s
                    /\ phase' = IF s.outcome = "ok" THEN next ELSE "done"
                    /\ UNCHANGED question

Init == /\ question \in Questions
        /\ todo = question.axioms
        /\ norm = EmptyNormalization
        /\ phase = "visit"

Visit ==
  /\ phase = "visit"
  /\ \E ax \in todo : Proceed(VisitAxiom(norm, ax), "visit") /\ todo' = todo \ {ax}

VisitedAll == phase = "visit" /\ todo = {} /\ Proceed(norm, "rules") /\ UNCHANGED todo

\* The next head atom of the next rule.
Normalize ==
  /\ phase = "rules" /\ norm.rules # <<>>
  /\ LET body == norm.rules[1][1]
         head == norm.rules[1][2]
     IN Proceed(IF head = <<>> THEN [norm EXCEPT !.rules = Tail(@)]
                ELSE NormalizeHeadAtom([norm EXCEPT !.rules[1] = <<body, Tail(head)>>], body, head[1]), "rules")
  /\ UNCHANGED todo

NormalizedAll == phase = "rules" /\ norm.rules = <<>> /\ Proceed(norm, "inclusions") /\ UNCHANGED todo

\* The parity of the pops, so that popping and pushing back is a step.
Popped(s) == [s EXCEPT !.odd = ~@]

PopInclusion ==
  /\ phase = "inclusions" /\ norm.incl # <<>>
  /\ Proceed(Popped(NormalizeInclusion(norm)), "inclusions")
  /\ UNCHANGED todo

PopDataInclusion ==
  /\ phase = "inclusions" /\ norm.incl = <<>> /\ norm.dincl # <<>>
  /\ Proceed(Popped(NormalizeDataInclusion(norm)), "inclusions")
  /\ UNCHANGED todo

PoppedAll ==
  /\ phase = "inclusions" /\ norm.incl = <<>> /\ norm.dincl = <<>>
  /\ Proceed(norm, "done")
  /\ UNCHANGED todo

Done == phase = "done" /\ UNCHANGED vars

Next == Visit \/ VisitedAll \/ Normalize \/ NormalizedAll \/ PopInclusion \/ PopDataInclusion \/ PoppedAll \/ Done
\* process_axioms runs to its end: a step is always enabled before it.
Spec == Init /\ [][Next]_vars /\ ([]<>(phase = "done") \/ []<><<Next>>_vars)

(***************************************************************************)
(* The meaning of rules and of the normalized axioms.                      *)
(***************************************************************************)
DataVariables(atoms) == {a[3][2] : a \in {b \in atoms : b[1] = "D" /\ b[3][1] = "var"}}
                        \cup {a[4][2] : a \in {b \in atoms : b[1] = "U" /\ b[4][1] = "var"}}
Variables(atoms) == {a[2] : a \in {b \in UNION {Arguments(atom) : atom \in atoms} : b[1] = "var"}}
Value(m, at, arg) == CASE arg[1] = "var" -> at[arg[2]] [] arg[1] = "ind" -> m.ind[arg[2]] [] OTHER -> m.lit[arg[2]]

AtomHolds(m, at, atom) ==
  CASE atom[1] = "C" -> Value(m, at, atom[3]) \in Ext(m, atom[2])
    [] atom[1] = "D" -> Value(m, at, atom[3]) \in RangeExt(m, atom[2])
    [] atom[1] = "P" -> <<Value(m, at, atom[3]), Value(m, at, atom[4])>> \in RoleExt(m, atom[2])
    [] atom[1] = "U" -> <<Value(m, at, atom[3]), Value(m, at, atom[4])>> \in DataExt(m, atom[2])
    [] atom[1] = "same" -> Value(m, at, atom[2]) = Value(m, at, atom[3])
    [] atom[1] = "diff" -> Value(m, at, atom[2]) # Value(m, at, atom[3])

Assignments(atoms) ==
  {at \in [Variables(atoms) -> Domain \cup Values] :
     \A v \in Variables(atoms) : at[v] \in IF v \in DataVariables(atoms) THEN Values ELSE Domain}

RuleHolds(m, body, head) ==
  \A at \in Assignments(ToSet(body) \cup ToSet(head)) :
    (\A a \in ToSet(body) : AtomHolds(m, at, a)) => \A a \in ToSet(head) : AtomHolds(m, at, a)

DisjunctiveRuleHolds(m, rule) ==
  \A at \in Assignments(rule[1] \cup rule[2]) :
    (\A a \in rule[1] : AtomHolds(m, at, a)) => \E a \in rule[2] : AtomHolds(m, at, a)

\* The list of an axiom is a set.
Listed == {"EquivalentClasses", "DisjointClasses", "EquivalentObjectProperties", "DisjointObjectProperties",
           "EquivalentDataProperties", "DisjointDataProperties", "SameIndividual", "DifferentIndividuals"}
Meant(m, ax) ==
  CASE ax[1] = "Rule" -> RuleHolds(m, ax[2], ax[3])
    [] ax[1] = "DisjointUnion" -> Satisfies(m, <<ax[1], ax[2], Operands(ax[3])>>)
    [] ax[1] \in Listed -> Satisfies(m, <<ax[1], Operands(ax[2])>>)
    [] OTHER -> Satisfies(m, ax)

Characteristics(s) == {<<"Reflexive", r>> : r \in s.reflexive} \cup {<<"Irreflexive", r>> : r \in s.irreflexive}
                      \cup {<<"Asymmetric", r>> : r \in s.asymmetric}
NormalizedHolds(m, s) ==
  /\ \A disjuncts \in s.concept : Ext(m, Or(disjuncts)) = Domain
  /\ \A disjuncts \in s.range : RangeExt(m, DOr(disjuncts)) = Values
  /\ \A p \in s.simple : RoleExt(m, p[1]) \subseteq RoleExt(m, p[2])
  /\ \A p \in s.complex : ChainExt(m, p[1]) \subseteq RoleExt(m, p[2])
  /\ \A roles \in s.disjoint : \A r, t \in roles : r # t => RoleExt(m, r) \cap RoleExt(m, t) = {}
  /\ \A p \in s.dataIncl : DataExt(m, p[1]) \subseteq DataExt(m, p[2])
  /\ \A us \in s.disjointData : \A u, w \in us : u # w => DataExt(m, u) \cap DataExt(m, w) = {}
  /\ \A ax \in s.facts \cup s.keys \cup Characteristics(s) : Meant(m, ax)
  /\ \A rule \in s.drules : DisjunctiveRuleHolds(m, rule)

\* The fresh names can be interpreted so that the normalized axioms hold.
NormalizedSatisfiable(m, s) ==
  LET classes == {DefNames[i] : i \in 1..s.minted} \cup {s.nnq[c][2] : c \in DOMAIN s.nnq}
      datatypes == {s.ddefs[r][2] : r \in DOMAIN s.ddefs}
      properties == {FreshDataProperties[i] : i \in {j \in 1..2 : FreshIndividuals[j] \in s.named}}
  IN \E class \in [classes -> SUBSET Domain], dt \in [datatypes -> SUBSET Values], ind \in [s.named -> Domain],
        dp \in [properties -> SUBSET (Domain \X Values)] :
       NormalizedHolds([m EXCEPT !.class = class @@ @, !.dt = dt @@ @, !.ind = ind @@ @, !.dp = dp @@ @], s)

(***************************************************************************)
(* Where the normalizer is known to change the models.                     *)
(***************************************************************************)
\* A data at-most whose range had to be defined: the definition implies the range,
\* not its complement, and the complement of the definition is what is counted.
DefinesAtMost ==
  \E disjuncts \in norm.concept : \E c \in disjuncts :
    c[1] = "dmax" /\ c[4][1] = "dnot" /\ c[4][2] \in {norm.ddefs[r] : r \in DOMAIN norm.ddefs}

\* The expressions that may be given definitions on the way of c.
RECURSIVE Within(_)
Within(c) ==
  {c} \cup CASE c[1] \in {"and", "or"} -> UNION {Within(d) : d \in c[2]}
             [] c[1] \in {"some", "all"} -> Within(c[3])
             [] c[1] = "min" -> Within(c[4])
             [] c[1] = "max" -> Within(c[4]) \cup Within(GetComplementNnf(c[4]))
             [] OTHER -> {}
ClassesOf(atoms) == {atoms[i][2] : i \in {j \in DOMAIN atoms : atoms[j][1] = "C"}}
Rules == {ax \in question.axioms : ax[1] = "Rule"}
HeadClasses == UNION {ClassesOf(ax[3]) : ax \in Rules}
BodyClasses == UNION {ClassesOf(ax[2]) : ax \in Rules}
ClassOperands(ax) ==
  CASE ax[1] = "SubClassOf" -> {ax[2], ax[3]}
    [] ax[1] \in {"EquivalentClasses", "DisjointClasses"} -> ToSet(ax[2])
    [] ax[1] = "DisjointUnion" -> ToSet(ax[3])
    [] ax[1] \in {"ClassAssertion", "HasKey"} -> {ax[2]}
    [] ax[1] \in {"ObjectPropertyDomain", "ObjectPropertyRange", "DataPropertyDomain"} -> {ax[3]}
    [] OTHER -> {}
UsedOutsideBodies == HeadClasses \cup UNION {Within(Positive(c)) \cup Within(Negative(c)) :
                                              c \in HeadClasses \cup UNION {ClassOperands(ax) : ax \in question.axioms}}

\* One definition serves a rule's body, where the class implies it, and another
\* place, where it implies the class: only the inclusion of its first use is there.
DefinitionShared == {c \in BodyClasses : ~IsClass(c)} \cap UsedOutsideBodies # {}

\* A rule asks for a positive definition where there is a negative one: the new name
\* takes the number of the next definition.
DefinitionReplaced == norm.minted # Cardinality(DOMAIN norm.defs)

(***************************************************************************)
(* The models of the ontology are those of the normalized axioms, in       *)
(* whatever order the axioms were visited: an interpretation is a model    *)
(* exactly when the definitions, the names of negated nominals and the     *)
(* fresh names of rules can be interpreted so that every normalized axiom  *)
(* holds.  This is not claimed where a data at-most has a range that needs *)
(* a definition, nor where a complex class of a rule is also used in       *)
(* another place, in the two ways above.                                   *)
(***************************************************************************)
ModelsPreserved ==
  (phase = "done" /\ norm.outcome = "ok" /\ ~DefinesAtMost /\ ~DefinitionShared /\ ~DefinitionReplaced) =>
    \A m \in Interps[question.theme] :
      (\A ax \in question.axioms : Meant(m, ax)) <=> NormalizedSatisfiable(m, norm)

(***************************************************************************)
(* The normal form the clausifier matches on (owl_clausification.rs, whose *)
(* other arms panic): disjuncts are literals, nominals, self restrictions  *)
(* and restrictions whose filler is a literal or, where it can be handled, *)
(* a nominal.                                                              *)
(***************************************************************************)
NormalDisjunct(c) ==
  CASE c[1] = "not" -> IsClass(c[2]) \/ c[2][1] = "self"
    [] c[1] = "some" -> IsSimple(c[3]) \/ IsNominal(c[3])
    [] c[1] = "all" -> IsSimple(c[3]) \/ IsNominal(c[3]) \/ IsNegatedOneNominal(c[3])
    [] c[1] \in {"min", "max"} -> IsSimple(c[4])
    [] c[1] \in {"dsome", "dall"} -> IsLiteral(c[3])
    [] c[1] \in {"dmin", "dmax"} -> IsLiteral(c[4])
    [] OTHER -> IsClass(c) \/ c[1] \in {"oneof", "self"}

NormalForm ==
  norm.outcome # "panic" =>
  /\ \A disjuncts \in norm.concept : \A c \in disjuncts : NormalDisjunct(c)
  /\ \A disjuncts \in norm.range : \A r \in disjuncts : IsLiteral(r)
  /\ \A fact \in norm.facts : fact[1] = "ClassAssertion" => IsSimple(fact[2])
  /\ \A key \in norm.keys : IsSimple(key[2])
  /\ \A rule \in norm.drules : \A a \in rule[1] \cup rule[2] : a[1] = "C" => IsClass(a[2])

(***************************************************************************)
(* The panic arms of normalize_class_expression and normalize_data_range   *)
(* ("OR should be broken down at the outermost level", "... should have    *)
(* been simplified") are not reached, except through a disjunct of a       *)
(* DisjointUnion or a class of a rule's head: these are put on the work    *)
(* list as they are written, and there they are simplified before they are *)
(* put in negation normal form, which may bring up a nested disjunction.   *)
(***************************************************************************)
WrittenDisjuncts == HeadClasses \cup UNION {ToSet(ax[3]) : ax \in {x \in question.axioms : x[1] = "DisjointUnion"}}
NoPanic == norm.outcome = "panic" => \E c \in WrittenDisjuncts : Positive(c)[1] = "or" /\ GetSimplified(c)[1] # "or"

(***************************************************************************)
(* An ontology is rejected exactly when it is not OWL 2 DL (the question   *)
(* says so), whichever axiom is visited first.                             *)
(***************************************************************************)
RejectsExactly == phase = "done" => (norm.outcome = "error" <=> ~question.wellFormed)

=============================================================================
