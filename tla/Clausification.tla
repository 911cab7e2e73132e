--------------------------- MODULE Clausification --------------------------
(***************************************************************************)
(* The last stages of the front end: BuiltInPropertyManager gives the      *)
(* built-in properties their meaning (structural/                          *)
(* built_in_property_manager.rs), OWLAxiomsExpressivity computes the flags *)
(* that choose the blocking of the tableau (structural/expressivity.rs),   *)
(* and OWLClausification turns normalized axioms into DL clauses and facts *)
(* (structural/owl_clausification.rs).                                     *)
(*                                                                         *)
(* axioms is the OWLAxioms record: its vectors are sets, except that an    *)
(* inclusion is the sequence of its disjuncts and that rules keep their    *)
(* order.  The complex inclusions are the business of RoleAutomata, which  *)
(* runs between the first two stages and leaves them in place here.        *)
(***************************************************************************)
EXTENDS AxiomClausifier

CONSTANTS Questions,   \* records: axioms, ignore, graphs, theme
          Interps      \* the interpretations of the names of a theme

VARIABLES question, axioms, flags, todo, out, phase

vars == <<question, axioms, flags, todo, out, phase>>

NoAxioms ==
  [concept |-> {}, range |-> {}, simple |-> {}, complex |-> {}, disjoint |-> {}, reflexive |-> {},
   irreflexive |-> {}, asymmetric |-> {}, dataIncl |-> {}, disjointData |-> {}, facts |-> {}, keys |-> {},
   rules |-> <<>>, named |-> {}, dataProperties |-> {}, owlProperties |-> {}, defined |-> {}]

(***************************************************************************)
(* The properties a class expression, a fact, and the axioms mention, as   *)
(* Checker and OWLAxiomsExpressivity walk them.  Neither walks rules or    *)
(* keys.                                                                   *)
(***************************************************************************)
RECURSIVE Subexpressions(_)
Subexpressions(c) ==
  {c} \cup CASE c[1] = "not" -> Subexpressions(c[2])
             [] c[1] \in {"some", "all"} -> Subexpressions(c[3])
             [] c[1] \in {"min", "max"} -> Subexpressions(c[4])
             [] OTHER -> {}

FactClasses(x) == {f[2] : f \in {g \in x.facts : g[1] = "ClassAssertion"}}
AllSubexpressions(x) ==
  UNION {Subexpressions(c) : c \in UNION {ToSet(i) : i \in x.concept} \cup FactClasses(x)}

RolesOfClass(c) == CASE c[1] \in {"some", "all", "self"} -> {c[2]}
                     [] c[1] \in {"min", "max"} -> {c[3]}
                     [] OTHER -> {}
DataOfClass(c) == CASE c[1] \in {"dsome", "dall"} -> {c[2]}
                    [] c[1] \in {"dmin", "dmax"} -> {c[3]}
                    [] OTHER -> {}
RoleFacts == {"ObjectPropertyAssertion", "NegativeObjectPropertyAssertion"}
DataFacts == {"DataPropertyAssertion", "NegativeDataPropertyAssertion"}

VisitedRoles(x) ==
  UNION {RolesOfClass(c) : c \in AllSubexpressions(x)}
  \cup UNION {{i[1], i[2]} : i \in x.simple} \cup UNION {ToSet(i[1]) \cup {i[2]} : i \in x.complex}
  \cup UNION {ToSet(d) : d \in x.disjoint} \cup x.reflexive \cup x.irreflexive \cup x.asymmetric
  \cup {f[2] : f \in {g \in x.facts : g[1] \in RoleFacts}}

VisitedData(x) ==
  UNION {DataOfClass(c) : c \in AllSubexpressions(x)} \cup UNION {{i[1], i[2]} : i \in x.dataIncl}
  \cup UNION {ToSet(d) : d \in x.disjointData} \cup {f[2] : f \in {g \in x.facts : g[1] \in DataFacts}}

(***************************************************************************)
(* BuiltInPropertyManager.                                                 *)
(***************************************************************************)
AxiomatizeTopObjectProperty(x) ==
  [x EXCEPT !.complex = @ \cup {<<<<TopRole, TopRole>>, TopRole>>}, !.simple = @ \cup {<<TopRole, Inv(TopRole)>>},
            !.concept = @ \cup {<<Some(TopRole, <<"oneof", {"topIndividual"}>>)>>}]
AxiomatizeBottomObjectProperty(x) == [x EXCEPT !.concept = @ \cup {<<All(BottomRole, Nothing)>>}]
AxiomatizeTopDataProperty(x) ==
  [x EXCEPT !.concept = @ \cup {<<<<"dsome", "topData", <<"done", {"internalConstant"}>>>>>>}]
AxiomatizeBottomDataProperty(x) ==
  [x EXCEPT !.concept = @ \cup {<<<<"dall", "bottomData", <<"dnot", LiteralRange>>>>>>}]

AxiomatizeBuiltInProperties(x) ==
  LET uses(p) == \E r \in VisitedRoles(x) : r[1] = p
      usesData(u) == u \in VisitedData(x)
      top == IF uses("top") THEN AxiomatizeTopObjectProperty(x) ELSE x
      bottom == IF uses("bottom") THEN AxiomatizeBottomObjectProperty(top) ELSE top
      topData == IF usesData("topData") THEN AxiomatizeTopDataProperty(bottom) ELSE bottom
  IN IF usesData("bottomData") THEN AxiomatizeBottomDataProperty(topData) ELSE topData

(***************************************************************************)
(* OWLAxiomsExpressivity.                                                  *)
(***************************************************************************)
OWLAxiomsExpressivity(x) ==
  LET classes == AllSubexpressions(x)
  IN [inverse |-> \E r \in VisitedRoles(x) : r[2],
      atMost |-> \E c \in classes : c[1] = "max",
      nominals |-> \E c \in classes : c[1] = "oneof",
      datatypes |-> \/ \E c \in classes : DataOfClass(c) # {}
                    \/ x.dataProperties # {} \/ x.disjointData # {} \/ x.dataIncl # {} \/ x.range # {}
                    \/ x.defined # {} \/ \E f \in x.facts : f[1] = "DataPropertyAssertion"]

(***************************************************************************)
(* The axioms on properties.                                               *)
(***************************************************************************)
Y == YVar(0)
DisjointRoles(q) ==
  {Clause({}, {GetRoleAtomObject(p[1], X, Y), GetRoleAtomObject(p[2], X, Y)}) : p \in Pairs(q)}
DisjointData(q) ==
  {Clause({Inequality(Y, ZVar(0))}, {GetRoleAtomData(p[1], X, Y), GetRoleAtomData(p[2], X, ZVar(0))}) : p \in Pairs(q)}

PropertyClauses(x) ==
  {Clause({GetRoleAtomObject(i[2], X, Y)}, {GetRoleAtomObject(i[1], X, Y)}) : i \in x.simple}
  \cup {Clause({GetRoleAtomData(i[2], X, Y)}, {GetRoleAtomData(i[1], X, Y)}) : i \in x.dataIncl}
  \cup {Clause({}, {GetRoleAtomObject(r, X, Y), GetRoleAtomObject(r, Y, X)}) : r \in x.asymmetric}
  \cup {Clause({GetRoleAtomObject(r, X, X)}, {ConceptAtom(Thing, X)}) : r \in x.reflexive}
  \cup {Clause({}, {GetRoleAtomObject(r, X, X)}) : r \in x.irreflexive}
  \cup UNION {DisjointRoles(q) : q \in x.disjoint}
  \cup {Clause({}, {GetRoleAtomData(u, X, Y)}) : u \in x.dataProperties \cap {"bottomData"}}
  \cup UNION {DisjointData(q) : q \in x.disjointData}

(***************************************************************************)
(* Keys: a literal class, object properties and data properties.           *)
(***************************************************************************)
X1 == <<"X1">>
X2 == <<"X2">>

ClausifyKey(key) ==
  LET roles == key[2]
      data == key[3]
      y(i) == YVar(i)
      v(i) == YVar(Len(roles) + 2 * i - 1)
      w(i) == YVar(Len(roles) + 2 * i)
      scope == IF key[1] = Thing THEN {} ELSE {ConceptAtom(IF key[1][1] = "not" THEN key[1][2] ELSE key[1], x) : x \in {X1, X2}}
  IN Clause({Equality(X1, X2)} \cup {Inequality(v(i), w(i)) : i \in DOMAIN data}
              \cup (IF key[1][1] = "not" THEN scope ELSE {}),
            {NamedAtom(X1), NamedAtom(X2)} \cup (IF key[1][1] = "not" THEN {} ELSE scope)
              \cup UNION {{GetRoleAtomObject(roles[i], X1, y(i)), GetRoleAtomObject(roles[i], X2, y(i)), NamedAtom(y(i))}
                          : i \in DOMAIN roles}
              \cup UNION {{GetRoleAtomData(data[i], X1, v(i)), GetRoleAtomData(data[i], X2, w(i))} : i \in DOMAIN data})

(***************************************************************************)
(* Facts.  A data fact is refused on the spot with its literal.            *)
(***************************************************************************)
Ind(i) == <<"ind", i>>
IsPositive(f) == /\ f[1] \notin {"NegativeObjectPropertyAssertion", "NegativeDataPropertyAssertion"}
                 /\ ~(f[1] = "ClassAssertion" /\ f[2][1] = "not")
Chained(q) == {<<q[i], q[i + 1]>> : i \in 1..(Len(q) - 1)}
FactAtoms(f) ==
  CASE f[1] = "SameIndividual" -> {Equality(Ind(p[1]), Ind(p[2])) : p \in Chained(f[2])}
    [] f[1] = "DifferentIndividuals" -> {Inequality(Ind(p[1]), Ind(p[2])) : p \in Pairs(f[2])}
    [] f[1] = "ClassAssertion" ->
         LET c == IF f[2][1] = "not" THEN f[2][2] ELSE f[2]
         IN {IF c[1] = "self" THEN GetRoleAtomObject(c[2], Ind(f[3]), Ind(f[3])) ELSE ConceptAtom(c, Ind(f[3]))}
    [] f[1] \in RoleFacts -> {GetRoleAtomObject(f[2], Ind(f[3]), Ind(f[4]))}
    [] f[1] \in DataFacts -> {GetRoleAtomData(f[2], Ind(f[3]), <<"lit", f[4]>>)}

(***************************************************************************)
(* Rules: which are restricted to named individuals, and their clauses.    *)
(***************************************************************************)
RuleProperties(rule) == {a[2][1] : a \in {b \in rule.head \cup rule.body : b[1] = "P"}}

StartDLClauses(g) ==
  {Clause({<<<<"exists", g.name, v>>, <<X>>>> : v \in {w \in DOMAIN g.vertices : g.vertices[w] = a}}, {ConceptAtom(a, X)})
     : a \in g.start}

\* One rule of a pass: placed, rejected, or left for the next pass.
PlaceRule(s, rule) ==
  LET ps == RuleProperties(rule)
      g == ps \cap s.graph # {}
      n == ps \cap s.nonGraph # {}
  IN CASE g /\ n -> [s EXCEPT !.mixed = TRUE]
       [] g -> [s EXCEPT !.graph = @ \cup ps, !.placed = Append(@, <<rule, FALSE>>), !.changed = TRUE]
       [] n -> [s EXCEPT !.nonGraph = @ \cup ps, !.placed = Append(@, <<rule, TRUE>>), !.changed = TRUE]
       [] ps = {} -> [s EXCEPT !.placed = Append(@, <<rule, TRUE>>), !.changed = TRUE]
       [] OTHER -> [s EXCEPT !.left = Append(@, rule)]

RECURSIVE PlaceRules(_, _)
PlaceRules(s, rules) ==
  LET pass == FoldLeft(PlaceRule, [s EXCEPT !.left = <<>>, !.changed = FALSE], rules)
  IN IF pass.mixed THEN pass
     ELSE IF pass.left # <<>> /\ pass.changed THEN PlaceRules(pass, pass.left)
     ELSE [pass EXCEPT !.placed = @ \o [i \in DOMAIN pass.left |-> <<pass.left[i], TRUE>>]]

\* Equal rules are clausified once.
UniqueRules(rules) == FoldLeft(LAMBDA q, rule : IF rule \in ToSet(q) THEN q ELSE Append(q, rule), <<>>, rules)

GraphProperties(graphs) == UNION {{e[1] : e \in g.edges} : g \in graphs}
OrderRules(rules, owlProperties, graphs) ==
  PlaceRules([graph |-> GraphProperties(graphs), nonGraph |-> owlProperties, placed |-> <<>>, left |-> <<>>,
              changed |-> FALSE, mixed |-> GraphProperties(graphs) \cap owlProperties # {}], rules)

AbstractVariables(atoms) ==
  {a[3] : a \in {b \in atoms : b[1] \in {"C", "P", "U"}}} \cup {a[4] : a \in {b \in atoms : b[1] = "P"}}

ConvertRuleAtom(conv, a) ==
  CASE a[1] = "C" -> ConceptAtom(a[2], a[3])
    [] a[1] = "P" -> GetRoleAtomObject(a[2], a[3], a[4])
    [] a[1] = "U" -> GetRoleAtomData(a[2], a[3], a[4])
    [] a[1] = "D" -> RangeAtom(ConvertDataRange(conv, a[2]).range, a[3])
    [] a[1] = "same" -> Equality(a[2], a[3])
    [] a[1] = "diff" -> Inequality(a[2], a[3])

ClausifyRule(rule, restrictToNamed, conv) ==
  Clause({ConvertRuleAtom(conv, a) : a \in rule.head},
         {ConvertRuleAtom(conv, a) : a \in rule.body}
         \cup (IF restrictToNamed THEN {NamedAtom(v) : v \in AbstractVariables(rule.head \cup rule.body)} ELSE {}))

ConvertedRanges(conv, rule) ==
  FoldSet(LAMBDA a, v : IF a[1] = "D" THEN ConvertDataRange(v, a[2]).v ELSE v, conv, rule.head \cup rule.body)

(***************************************************************************)
(* The stages, in the order of the pipeline.                               *)
(***************************************************************************)
Init ==
  /\ question \in Questions
  /\ axioms = question.axioms
  /\ flags = [inverse |-> FALSE, atMost |-> FALSE, nominals |-> FALSE, datatypes |-> FALSE]
  /\ todo = [concept |-> {}, range |-> {}, facts |-> question.axioms.facts, rules |-> <<>>]
  /\ out = [clauses |-> {}, pos |-> {}, neg |-> {}, placed |-> <<>>, result |-> "none",
            conv |-> NewConverter(question.ignore, question.axioms.defined)]
  /\ phase = "builtIn"

Axiomatize ==
  /\ phase = "builtIn"
  /\ axioms' = AxiomatizeBuiltInProperties(axioms)
  /\ phase' = "express"
  /\ UNCHANGED <<question, flags, todo, out>>

Express ==
  /\ phase = "express"
  /\ flags' = OWLAxiomsExpressivity(axioms)
  /\ phase' = "properties"
  /\ UNCHANGED <<question, axioms, todo, out>>

Properties ==
  /\ phase = "properties"
  /\ out' = [out EXCEPT !.clauses = PropertyClauses(axioms)]
  /\ todo' = [todo EXCEPT !.concept = axioms.concept, !.range = axioms.range]
  /\ phase' = "inclusions"
  /\ UNCHANGED <<question, axioms, flags>>

\* A panic of the conversion ends the pipeline.
Converted(o, conv) == [o EXCEPT !.conv = conv, !.result = IF conv.panic THEN "panic" ELSE @]
UnlessPanic(conv) == IF conv.panic THEN "done" ELSE phase

Inclusion ==
  /\ phase = "inclusions"
  /\ \E i \in todo.concept :
       /\ \E c \in {ClausifyInclusion(out.conv, i)} :
            /\ out' = Converted([out EXCEPT !.clauses = @ \cup {GetSafeVersion(Clause(c.head, c.body), Thing)},
                                            !.pos = @ \cup c.facts], c.conv)
            /\ phase' = UnlessPanic(c.conv)
       /\ todo' = [todo EXCEPT !.concept = @ \ {i}]
  /\ UNCHANGED <<question, axioms, flags>>

RangeInclusion ==
  /\ phase = "inclusions" /\ todo.concept = {}
  /\ \E i \in todo.range :
       /\ \E c \in {ClausifyRangeInclusion(out.conv, i)} :
            /\ out' = Converted([out EXCEPT !.clauses = @ \cup {GetSafeVersion(Clause(c.head, c.body), <<"range", LiteralRange>>)}],
                                c.conv)
            /\ phase' = UnlessPanic(c.conv)
       /\ todo' = [todo EXCEPT !.range = @ \ {i}]
  /\ UNCHANGED <<question, axioms, flags>>

\* The keys, and the refusal of what the axioms so far have met.
Keys ==
  /\ phase = "inclusions" /\ todo.concept = {} /\ todo.range = {}
  /\ out' = [out EXCEPT !.clauses = @ \cup {ClausifyKey(k) : k \in axioms.keys},
                        !.result = IF Refused(out.conv) THEN "refused" ELSE @]
  /\ phase' = IF Refused(out.conv) THEN "done" ELSE "facts"
  /\ UNCHANGED <<question, axioms, flags, todo>>

Fact ==
  /\ phase = "facts"
  /\ \E f \in todo.facts :
       /\ todo' = [todo EXCEPT !.facts = @ \ {f}]
       /\ IF f[1] \in DataFacts /\ LiteralRefused(out.conv, f[4])
          THEN /\ out' = [out EXCEPT !.result = "refused"]
               /\ phase' = "done"
          ELSE /\ out' = IF IsPositive(f) THEN [out EXCEPT !.pos = @ \cup FactAtoms(f)]
                         ELSE [out EXCEPT !.neg = @ \cup FactAtoms(f)]
               /\ UNCHANGED phase
  /\ UNCHANGED <<question, axioms, flags>>

Graphs ==
  /\ phase = "facts" /\ todo.facts = {}
  /\ LET order == OrderRules(UniqueRules(axioms.rules), axioms.owlProperties, question.graphs)
     IN /\ out' = [out EXCEPT !.clauses = @ \cup UNION {StartDLClauses(g) : g \in question.graphs},
                              !.placed = IF order.mixed THEN <<>> ELSE order.placed,
                              !.result = IF order.mixed THEN "mixed" ELSE @]
        /\ todo' = [todo EXCEPT !.rules = order.placed]
        /\ phase' = IF order.mixed THEN "done" ELSE "rules"
  /\ UNCHANGED <<question, axioms, flags>>

Rule ==
  /\ phase = "rules" /\ todo.rules # <<>>
  /\ LET rule == todo.rules[1][1]
         conv == ConvertedRanges(out.conv, rule)
     IN /\ out' = Converted([out EXCEPT !.clauses = @ \cup {ClausifyRule(rule, todo.rules[1][2], out.conv)}], conv)
        /\ phase' = UnlessPanic(conv)
  /\ todo' = [todo EXCEPT !.rules = Tail(@)]
  /\ UNCHANGED <<question, axioms, flags>>

\* The vocabulary, with the tagging of named individuals, and the refusal of
\* what the rules have met.
Finish ==
  /\ phase = "rules" /\ todo.rules = <<>>
  /\ out' = [out EXCEPT !.result = IF Refused(out.conv) THEN "refused" ELSE "ok",
                        !.pos = IF axioms.keys # {} \/ axioms.rules # <<>>
                                THEN @ \cup {NamedAtom(Ind(i)) : i \in axioms.named} ELSE @]
  /\ phase' = "done"
  /\ UNCHANGED <<question, axioms, flags, todo>>

Done == phase = "done" /\ UNCHANGED vars

Next == \/ Axiomatize \/ Express \/ Properties \/ Inclusion \/ RangeInclusion \/ Keys
        \/ Fact \/ Graphs \/ Rule \/ Finish \/ Done

Spec == Init /\ [][Next]_vars

(***************************************************************************)
(* What the input means.  Keys and rules bind named individuals only,      *)
(* unless a rule speaks of properties of description graphs.               *)
(***************************************************************************)
NamedElements(m, x) == {m.ind[i] : i \in x.named}

KeyHolds(m, x, key) ==
  \A d, e \in NamedElements(m, x) \cap Ext(m, key[1]) :
    (/\ \A i \in DOMAIN key[2] :
          Successors(RoleExt(m, key[2][i]), d) \cap Successors(RoleExt(m, key[2][i]), e) \cap NamedElements(m, x) # {}
     /\ \A i \in DOMAIN key[3] :
          Successors(DataExt(m, key[3][i]), d) \cap Successors(DataExt(m, key[3][i]), e) # {})
    => d = e

RuleAtomHolds(m, s, a) ==
  CASE a[1] = "C" -> s[a[3]] \in Ext(m, a[2])
    [] a[1] = "P" -> <<s[a[3]], s[a[4]]>> \in RoleExt(m, a[2])
    [] a[1] = "U" -> <<s[a[3]], s[a[4]]>> \in DataExt(m, a[2])
    [] a[1] = "D" -> s[a[3]] \in RangeExt(m, a[2])
    [] a[1] = "same" -> s[a[2]] = s[a[3]]
    [] a[1] = "diff" -> s[a[2]] # s[a[3]]

EquatedVariables(atoms) == UNION {{a[2], a[3]} : a \in {b \in atoms : b[1] \in {"same", "diff"}}}
RuleHolds(m, x, rule) ==
  LET atoms == rule.head \cup rule.body
      data == {a[4] : a \in {b \in atoms : b[1] = "U"}} \cup {a[3] : a \in {b \in atoms : b[1] = "D"}}
  IN \A o \in [(AbstractVariables(atoms) \cup EquatedVariables(atoms)) \ data -> NamedElements(m, x)], d \in [data -> Values] :
       (\A a \in rule.body : RuleAtomHolds(m, o @@ d, a)) => \E a \in rule.head : RuleAtomHolds(m, o @@ d, a)

PropertyAxioms(x) ==
  {<<"SubObjectPropertyOf", i[1], i[2]>> : i \in x.simple} \cup {<<"SubPropertyChainOf", i[1], i[2]>> : i \in x.complex}
  \cup {<<"DisjointObjectProperties", q>> : q \in x.disjoint} \cup {<<"Reflexive", r>> : r \in x.reflexive}
  \cup {<<"Irreflexive", r>> : r \in x.irreflexive} \cup {<<"Asymmetric", r>> : r \in x.asymmetric}
  \cup {<<"SubDataPropertyOf", i[1], i[2]>> : i \in x.dataIncl} \cup {<<"DisjointDataProperties", q>> : q \in x.disjointData}
AxiomsHold(m, x) ==
  /\ \A i \in x.concept : Domain = UNION {Ext(m, c) : c \in ToSet(i)}
  /\ \A i \in x.range : Values = UNION {RangeExt(m, r) : r \in ToSet(i)}
  /\ \A ax \in PropertyAxioms(x) \cup x.facts : Satisfies(m, ax)
  /\ \A k \in x.keys : KeyHolds(m, x, k)
  /\ \A i \in DOMAIN x.rules : RuleHolds(m, x, x.rules[i])

(***************************************************************************)
(* What the output means: some reading of the internal names, and of the   *)
(* built-in properties as ordinary ones, satisfies clauses and facts, and  *)
(* the complex inclusions handed to the role automata.                     *)
(***************************************************************************)
Predicates == {a[1] : a \in UNION {c.head \cup c.body : c \in out.clauses} \cup out.pos \cup out.neg}
Nominals == {p[2] : p \in {q \in Predicates : q[1] = "nominal"}}
UsesRole(p) == \/ <<"role", p>> \in Predicates
               \/ \E q \in Predicates : q[1] = "atLeast" /\ q[3][1] = p
UsesData(u) == \/ <<"data", u>> \in Predicates
               \/ \E q \in Predicates : q[1] = "atLeastData" /\ q[3] = u
Readings(used, relations) == IF used THEN SUBSET relations ELSE {{}}

ChainHolds(e, i) == Compose(RoleOf(e, i[1][1]), RoleOf(e, i[1][2])) \subseteq RoleOf(e, i[2])

OutputHolds(m) ==
  \E top \in Readings(UsesRole("top"), Domain \X Domain), bottom \in Readings(UsesRole("bottom"), Domain \X Domain),
     topData \in Readings(UsesData("topData"), Domain \X Values),
     bottomData \in Readings(UsesData("bottomData"), Domain \X Values),
     nominal \in [Nominals -> SUBSET Domain], named \in Readings(<<"named">> \in Predicates, Domain),
     topIndividual \in IF "topIndividual" \in Nominals THEN Domain ELSE {CHOOSE d \in Domain : TRUE} :
    LET e == [class |-> m.class, dt |-> m.dt, nominal |-> nominal, named |-> named,
              op |-> "top" :> top @@ "bottom" :> bottom @@ m.op,
              dp |-> "topData" :> topData @@ "bottomData" :> bottomData @@ m.dp,
              ind |-> "topIndividual" :> topIndividual @@ m.ind, lit |-> m.lit]
    IN /\ \A f \in out.pos : Holds(e, <<>>, f)
       /\ \A f \in out.neg : ~Holds(e, <<>>, f)
       /\ \A c \in out.clauses : ClauseHolds(e, c)
       /\ \A i \in axioms.complex : ChainHolds(e, i)

(***************************************************************************)
(* Where the clauses are known to differ from the axioms.  convert_rule_   *)
(* atom does not collect the variables of sameAs and differentFrom, so one *)
(* that occurs nowhere else is neither bound nor restricted to named       *)
(* individuals; and Checker walks neither rules nor keys, so a built-in    *)
(* property of these alone is left an ordinary one (but for                *)
(* owl:bottomDataProperty, which the signature brings in).                 *)
(***************************************************************************)
RuleAtoms(x) == UNION {x.rules[i].head \cup x.rules[i].body : i \in DOMAIN x.rules}
RulesBind(x) == \A i \in DOMAIN x.rules : LET atoms == x.rules[i].head \cup x.rules[i].body
                                          IN EquatedVariables(atoms) \subseteq AbstractVariables(atoms)
OutsideProperties(x) ==
  UNION {RuleProperties(x.rules[i]) : i \in DOMAIN x.rules} \cup {a[2] : a \in {b \in RuleAtoms(x) : b[1] = "U"}}
  \cup UNION {{k[2][i][1] : i \in DOMAIN k[2]} \cup ToSet(k[3]) : k \in x.keys}
BuiltInsVisited(x) ==
  OutsideProperties(x) \cap {"top", "bottom", "topData"} \subseteq {r[1] : r \in VisitedRoles(x)} \cup VisitedData(x)

(***************************************************************************)
(* Clausification keeps the models: an interpretation satisfies the        *)
(* normalized axioms, under their meaning in OWL, exactly when the clauses *)
(* and facts are satisfied by it under some reading of the internal names. *)
(* This is claimed of axioms whose rules have every variable in a class or *)
(* property atom, and whose rules and keys have no built-in property that  *)
(* the other axioms do not have.                                           *)
(***************************************************************************)
ModelsPreserved ==
  phase = "done" /\ out.result = "ok" /\ RulesBind(question.axioms) /\ BuiltInsVisited(question.axioms) =>
    \A m \in Interps[question.theme] : AxiomsHold(m, question.axioms) <=> OutputHolds(m)

(***************************************************************************)
(* Every clause can be evaluated: its body is not empty (the compiler      *)
(* starts from its first atom) and binds every variable of its head, given *)
(* that the variables of sameAs and differentFrom have other atoms.        *)
(***************************************************************************)
ClausesSafe ==
  RulesBind(question.axioms) =>
  \A c \in out.clauses : c.body # {} /\ Variables(c.head) \subseteq Variables(c.body)

(***************************************************************************)
(* The expressivity flags, from which the reasoner picks its blocking and  *)
(* decides whether to check datatypes, cover what the clauses can do:      *)
(* derive against the direction of an edge, merge by an at-most, speak of  *)
(* a nominal or of a data value.  Clauses that bind named individuals      *)
(* only, those of rules and keys, follow no edge of the unnamed ones.      *)
(***************************************************************************)
AgainstEdge(c) ==
  /\ c.head # {} /\ \A a \in c.body : a[1] # <<"named">>
  /\ \E a \in c.head \cup c.body : \/ (a[1][1] = "role" /\ a[2][2] = X /\ a[2][1] # X)
                                  \/ (a[1][1] = "atLeast" /\ a[1][3][2])
FlagsCover ==
  phase = "done" =>
    /\ (\E c \in out.clauses : AgainstEdge(c)) => flags.inverse
    /\ (\E p \in Predicates : p[1] = "annotated") => flags.atMost
    /\ Nominals # {} => flags.nominals
    /\ (\E p \in Predicates : p[1] \in {"data", "range", "atLeastData"}) => flags.datatypes

(***************************************************************************)
(* An ontology is refused exactly when it uses, somewhere the conversion   *)
(* looks, a datatype, a facet, a facet value or a literal the reasoner     *)
(* does not take; the datatypes it takes as unknown are recorded.  A facet *)
(* on rdfs:Literal is not refused but a panic.                             *)
(***************************************************************************)
RECURSIVE Leaf(_)
Leaf(r) == IF r[1] = "dnot" THEN Leaf(r[2]) ELSE r
ClassRanges(c) ==
  CASE c[1] = "dsome" -> IF c[2] = "bottomData" THEN {} ELSE {c[3]}
    [] c[1] = "dall" -> {c[3]}
    [] c[1] = "dmin" -> IF c[3] = "bottomData" /\ c[2] > 0 THEN {} ELSE {c[4]}
    [] c[1] = "dmax" -> {c[4]}
    [] OTHER -> {}
Leaves(x) ==
  {Leaf(r) : r \in UNION {ClassRanges(c) : c \in UNION {ToSet(i) : i \in x.concept}}
                   \cup UNION {ToSet(i) : i \in x.range}
                   \cup {a[2] : a \in {b \in RuleAtoms(x) : b[1] = "D"}}}
BadLiteral(l) == LiteralKind[l] = "malformed" \/ (LiteralKind[l] = "unsupported" /\ ~question.ignore)
Foreign(r) == r[1] = "datatype" /\ r[2] \notin question.axioms.defined /\ DatatypeKind[r[2]] \in {"unsupported", "unknown"}
BadLeaf(r) ==
  \/ (r[1] = "done" /\ \E l \in r[2] : BadLiteral(l))
  \/ Foreign(r) /\ DatatypeKind[r[2]] = "unsupported" /\ ~question.ignore
  \/ /\ r[1] = "restriction"
     /\ \/ DatatypeKind[r[2]] \in {"unsupported", "defdata"}
        \/ \E f \in ToSet(r[3]) : BadLiteral(f[2]) \/ (DatatypeKind[r[2]] = "supported" /\ f[1] # "fine")
RefusedExactly ==
  phase = "done" =>
    LET bad == \/ \E r \in Leaves(question.axioms) : BadLeaf(r)
               \/ \E f \in question.axioms.facts : f[1] \in DataFacts /\ BadLiteral(f[4])
        faceted == \E r \in Leaves(question.axioms) :
                     r[1] = "restriction" /\ DatatypeKind[r[2]] = "literal" /\ r[3] # <<>>
    IN /\ out.result \in {"refused", "panic"} <=> bad \/ faceted
       /\ out.result = "refused" => bad
       /\ out.result = "panic" => faceted
       /\ out.result = "ok" => out.conv.unknown = {r[2] : r \in {s \in Leaves(question.axioms) : Foreign(s)}}

(***************************************************************************)
(* A rule reaches unnamed elements exactly when its properties are those   *)
(* of a description graph, or linked to them through other rules; a link   *)
(* from a graph property to one of the axioms refuses the ontology.        *)
(***************************************************************************)
RECURSIVE Linked(_, _)
Linked(ps, sets) == LET more == ps \cup UNION {s \in sets : s \cap ps # {}}
                    IN IF more = ps THEN ps ELSE Linked(more, sets)
RulesByConnection ==
  phase = "done" /\ out.result # "refused" =>
    LET rules == question.axioms.rules
        graph == Linked(GraphProperties(question.graphs), {RuleProperties(rules[i]) : i \in DOMAIN rules})
    IN /\ out.result = "mixed" <=> graph \cap question.axioms.owlProperties # {}
       /\ out.result = "ok" =>
            ToSet(out.placed) = {<<rules[i], RuleProperties(rules[i]) \cap graph = {}>> : i \in DOMAIN rules}
=============================================================================
