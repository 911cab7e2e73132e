---------------------------- MODULE MCStructural ----------------------------
(***************************************************************************)
(* The structural phase on small ontologies: the normalization, the        *)
(* automata of the role box with the rewriting over them, and the          *)
(* clausification, each on the questions put to it.  A behaviour takes one *)
(* question through one of them.                                           *)
(***************************************************************************)
EXTENDS Expressions, Sequences, SequencesExt, FiniteSets, TLC

VARIABLES part, question, todo, norm, phase, graph, automata, axioms, pending, flags, out
suiteVars == <<part, question, todo, norm, phase, graph, automata, axioms, pending, flags, out>>

A == Class("A")
B == Class("B")
D == <<"datatype", "d">>
E == <<"datatype", "e">>
r == Role("r")
ri == Inv(r)
s == Role("s")
t == Role("t")
Square == {1, 2} \X {1, 2}

N0 == INSTANCE Normalization WITH Questions <- {}, Interps <- <<>>, Anonymous <- {"anon"}
C0 == INSTANCE Clausification WITH Questions <- {}, Interps <- <<>>, DatatypeKind <- <<>>, LiteralKind <- <<>>

(***************************************************************************)
(* Normalization: ontologies about classes and properties.                 *)
(***************************************************************************)
Ask(axs, theme, ok) == [axioms |-> axs, theme |-> theme, wellFormed |-> ok]
AskOne(ax) == Ask({ax}, "class", TRUE)
AskData(ax) == Ask({ax}, "data", TRUE)

ClassInterps ==
  {[class |-> "A" :> ea @@ "B" :> eb, op |-> "r" :> er, dp |-> <<>>, dt |-> <<>>, ind |-> "a" :> 1 @@ "b" :> 2,
    lit |-> <<>>] :
     ea \in SUBSET {1, 2}, eb \in SUBSET {1, 2}, er \in SUBSET {<<1, 1>>, <<1, 2>>, <<2, 1>>}}
FewInterps == {m \in ClassInterps : /\ m.class["A"] \in {{1}, {2}}
                                    /\ m.op["r"] \in {{}, {<<1, 2>>}, {<<1, 1>>, <<1, 2>>}}}

Complex ==
  {And({A, B}), And({Not(A), B}), Or({A, B}), Or({And({A, B}), Not(B)}), Or({A, And({B, Some(r, A)})}),
   Some(r, And({A, B})), Some(ri, Or({Not(A), B})), Some(r, N0!OneOf({"a"})), All(r, A), All(r, Not(A)),
   All(ri, And({Not(A), Not(B)})), All(r, N0!OneOf({"a", "b"})), All(r, Not(N0!OneOf({"a"}))),
   All(r, Not(N0!OneOf({"a", "b"}))), Not(N0!OneOf({"a"})), N0!OneOf({"a", "b"}), <<"self", r>>, Not(<<"self", ri>>),
   <<"has", r, "a">>, <<"min", 2, r, Or({A, B})>>, <<"min", 1, r, A>>, <<"max", 1, r, And({A, B})>>,
   <<"max", 1, r, Not(A)>>, <<"max", 0, ri, Or({A, Not(B)})>>, <<"exact", 1, r, A>>, <<"exact", 0, r, Some(r, B)>>,
   Not(Some(r, And({A, Not(B)}))), And({Some(r, A), All(r, Some(ri, And({A, B})))}), Thing, Nothing}

\* Negations that a first simplification leaves a disjunction or an exact cardinality of.
Nested == {Not(And({A, B})), Not(<<"exact", 1, r, A>>), Not(Not(Or({A, Not(B)}))), Not(Not(Some(r, A)))}

ClassQuestions ==
  {AskOne(<<"SubClassOf", A, c>>) : c \in Nested} \cup {AskOne(<<"SubClassOf", c, A>>) : c \in Nested}
  \cup {AskOne(<<"DisjointUnion", "A", <<B, c>>>>) : c \in Nested}
  \cup {AskOne(<<"SubClassOf", A, c>>) : c \in Complex} \cup {AskOne(<<"SubClassOf", c, A>>) : c \in Complex}
  \cup {AskOne(<<"SubClassOf", c, N0!OneOf({"b"})>>) : c \in {And({A, B}), Some(r, A)}}
  \cup {AskOne(<<"SubClassOf", N0!OneOf({"a", "b"}), c>>) : c \in {A, Not(B), Some(r, A), Or({A, B})}}
  \cup {AskOne(<<"EquivalentClasses", <<A, c, A>>>>) : c \in Complex}
  \cup {AskOne(<<"DisjointClasses", <<A, c, A>>>>) : c \in Complex}
  \cup {AskOne(<<"DisjointUnion", "A", <<B, c, B>>>>) : c \in {All(r, Not(A)), <<"has", r, "a">>, Some(r, And({A, B})), N0!OneOf({"b"})}}
  \cup {AskOne(<<"ClassAssertion", c, "a">>) : c \in Complex}
  \cup {AskOne(<<k, r, c>>) : k \in {"ObjectPropertyDomain", "ObjectPropertyRange"}, c \in Complex}
  \cup {Ask({<<"DisjointClasses", <<A, A>>>>}, "class", FALSE), AskOne(<<"EquivalentClasses", <<B>>>>)}

\* Two inclusions, visited in either order.
Introduced == {c \in Complex : c[1] \in {"and", "some", "min", "max"}}
PairQuestions ==
  {Ask({<<"SubClassOf", A, c>>, <<"SubClassOf", d, B>>}, "few", TRUE) : c \in Complex, d \in Introduced}

\* Several axioms that share definitions, visited in any order.
SharedQuestions ==
  {Ask({<<"ClassAssertion", c, "a">>, <<"SubClassOf", A, Some(r, c)>>, <<"SubClassOf", B, All(ri, c)>>},
     "class", TRUE) : c \in {And({A, B}), All(r, Not(A)), Some(r, B), Or({A, B})}}
  \cup {Ask({<<"ClassAssertion", Not(N0!OneOf({"a"})), "b">>, <<"SubClassOf", A, Not(N0!OneOf({"a"}))>>,
           <<"HasKey", Not(N0!OneOf({"a"})), <<r>>, <<>>>>}, "class", TRUE)}
  \cup {Ask({<<"HasKey", c, <<r>>, <<>>>>, <<"ClassAssertion", c, "a">>}, "class", TRUE) :
          c \in {A, Not(B), And({A, B}), Some(r, A), All(r, Not(A))}}

PropertyInterps ==
  {[class |-> "A" :> {1}, op |-> "r" :> er @@ "s" :> es, dp |-> <<>>, dt |-> <<>>, ind |-> "a" :> 1 @@ "b" :> 2,
    lit |-> <<>>] : er \in SUBSET Square,
                    es \in {{}, {<<1, 2>>}, {<<2, 1>>, <<1, 1>>}, {<<1, 1>>, <<2, 2>>}, Square}}

PropertyAxioms ==
  {<<"SubObjectPropertyOf", p, q>> : p, q \in {r, ri, s, TopRole, BottomRole}}
  \cup {<<"SubPropertyChainOf", chain, r>> : chain \in {<<r, r>>, <<s>>, <<r, s>>, <<s, r, Inv(s)>>, <<BottomRole, s>>}}
  \cup {<<"SubPropertyChainOf", <<r, s>>, TopRole>>}
  \cup {<<k, list>> : k \in {"EquivalentObjectProperties", "DisjointObjectProperties"},
                      list \in {<<r, s>>, <<r, r, Inv(s)>>, <<r, r>>, <<r, ri, s>>}}
  \cup {<<"InverseObjectProperties", p, q>> : p \in {r, ri}, q \in {s, r}}
  \cup {<<k, p>> : k \in {"Functional", "InverseFunctional", "Reflexive", "Irreflexive", "Symmetric", "Asymmetric",
                          "Transitive"}, p \in {r, ri}}
  \cup {<<k, p, "a", "b">> : k \in {"ObjectPropertyAssertion", "NegativeObjectPropertyAssertion"}, p \in {r, ri}}
  \cup {<<k, list>> : k \in {"SameIndividual", "DifferentIndividuals"}, list \in {<<"a", "b">>, <<"a", "b", "b">>}}
PropertyQuestions ==
  {Ask({ax}, "role", TRUE) : ax \in PropertyAxioms}
  \cup {Ask({ax, <<"Transitive", r>>}, "role", FALSE) :
          ax \in {<<"SameIndividual", <<"a", "anon">>>>, <<"DifferentIndividuals", <<"anon", "b">>>>,
                  <<"NegativeObjectPropertyAssertion", r, "a", "anon">>, <<"SubPropertyChainOf", <<>>, r>>,
                  <<"SubClassOf", A, N0!OneOf({"anon", "a"})>>}}

ClassTheme == ClassQuestions \cup PairQuestions \cup SharedQuestions \cup PropertyQuestions

(***************************************************************************)
(* Normalization: data ranges and data properties.                         *)
(***************************************************************************)
OneValue == <<"done", {"l"}>>

RangeInterps ==
  {[class |-> "A" :> ea, op |-> <<>>, dp |-> "u" :> eu @@ "w" :> ew, dt |-> "d" :> ed @@ "e" :> ee,
    ind |-> "a" :> 1 @@ "b" :> 2, lit |-> "l" :> 1 @@ "k" :> 2] :
     ea \in {{1}, {2}}, eu \in {{}, {<<1, 1>>}, {<<1, 2>>}, {<<1, 1>>, <<1, 2>>, <<2, 2>>}},
     ew \in {{<<1, 1>>, <<2, 2>>}}, ed \in SUBSET {1, 2}, ee \in {{2}, {1, 2}}}

Ranges == {Literal, D, DNot(D), OneValue, DNot(<<"done", {"l", "k"}>>), DAnd({D, E}), DOr({D, DNot(E)}),
           DNot(DAnd({D, OneValue})), DAnd({D, DOr({E, OneValue})}), DNot(Literal), DOr({DAnd({D, E}), DAnd({DNot(D), OneValue})})}
Restrictions ==
  {<<k, "u", x>> : k \in {"dsome", "dall"}, x \in Ranges} \cup {<<"dmin", n, "u", x>> : n \in 0..2, x \in Ranges}
  \cup {<<k, n, "u", x>> : k \in {"dmax", "dexact"}, n \in 0..1, x \in Ranges} \cup {<<"dhas", "u", "k">>}

RangeQuestions ==
  {AskData(<<"SubClassOf", A, c>>) : c \in Restrictions}
  \cup {AskData(<<"SubClassOf", c, A>>) : c \in Restrictions}
  \cup {AskData(<<"ClassAssertion", c, "a">>) : c \in Restrictions}
  \cup {AskData(<<"DataPropertyRange", "u", x>>) : x \in Ranges}
  \cup {AskData(<<"DataPropertyDomain", "u", c>>) : c \in {A, Not(A), <<"dsome", "w", DAnd({D, E})>>}}
  \cup {AskData(<<"DatatypeDefinition", "d", x>>) : x \in {E, DNot(E), DAnd({E, OneValue}), DOr({E, OneValue}), Literal,
           DNot(DOr({DAnd({E, OneValue}), DNot(E)})), DOr({DAnd({E, OneValue}), DAnd({DNot(E), <<"done", {"k"}>>})})}}
  \cup {AskData(<<k, list>>) : k \in {"EquivalentDataProperties", "DisjointDataProperties"}, list \in {<<"u", "w">>, <<"u", "u">>, <<"w", "u", "w">>}}
  \cup {AskData(<<"SubDataPropertyOf", p, q>>) : p \in {"u", "w", "bottomData"}, q \in {"u", "w", "topData", "bottomData"}}
  \cup {AskData(<<"FunctionalDataProperty", "u">>)}
  \cup {AskData(<<k, "u", "a", "l">>) : k \in {"DataPropertyAssertion", "NegativeDataPropertyAssertion"}}
  \cup {AskData(<<"HasKey", c, <<>>, <<"u", "w">>>>) : c \in {A, Or({A, <<"dsome", "w", D>>})}}
  \cup {Ask({<<"DatatypeDefinition", "d", DAnd({E, OneValue})>>, <<"SubClassOf", A, <<"dsome", "u", DAnd({E, OneValue})>>>>,
           <<"DataPropertyRange", "w", DOr({D, DNot(E)})>>}, "data", TRUE)}

BadDataQuestions ==
  {Ask({ax, <<"FunctionalDataProperty", "u">>}, "data", FALSE) :
     ax \in {<<"SubDataPropertyOf", "topData", "u">>, <<"EquivalentDataProperties", <<"u", "topData">>>>,
             <<"DisjointDataProperties", <<"topData", "u">>>>, <<"DataPropertyDomain", "topData", A>>,
             <<"DataPropertyRange", "topData", D>>, <<"FunctionalDataProperty", "topData">>,
             <<"DataPropertyAssertion", "topData", "a", "l">>, <<"NegativeDataPropertyAssertion", "topData", "a", "l">>,
             <<"NegativeDataPropertyAssertion", "u", "anon", "l">>, <<"HasKey", A, <<>>, <<"topData">>>>,
             <<"SubClassOf", A, <<"dsome", "topData", D>>>>, <<"SubClassOf", A, <<"dmax", 1, "topData", D>>>>}}

DataTheme == RangeQuestions \cup BadDataQuestions

(***************************************************************************)
(* Normalization: rules.                                                   *)
(***************************************************************************)
vx == <<"var", "x">>
vy == <<"var", "y">>
vz == <<"var", "z">>
vd == <<"var", "v">>
indA == <<"ind", "a">>
indB == <<"ind", "b">>
indAnon == <<"ind", "anon">>
litL == <<"lit", "l">>
litK == <<"lit", "k">>

SwrlInterps ==
  {[class |-> "A" :> ea @@ "B" :> eb, op |-> "r" :> er, dp |-> "u" :> eu, dt |-> "d" :> ed @@ "e" :> {2},
    ind |-> "a" :> 1 @@ "b" :> 2, lit |-> "l" :> 1 @@ "k" :> 2] :
     ea \in {{1}, {1, 2}}, eb \in {{}, {2}}, er \in {{<<1, 2>>}, {<<1, 1>>, <<2, 1>>}, Square},
     eu \in {{<<1, 1>>, <<2, 2>>}, Square}, ed \in {{1}, {2}}}

Swrl(body, head) == <<"Rule", body, head>>

IndividualAtoms == {<<"C", A, vx>>, <<"C", Some(r, B), vx>>, <<"C", All(r, Not(A)), vy>>, <<"C", B, indA>>, <<"C", Not(N0!OneOf({"a"})), vy>>,
                    <<"P", r, vx, vy>>, <<"P", Inv(r), vy, indA>>, <<"P", r, indB, vx>>, <<"diff", vx, vy>>, <<"diff", indA, vx>>}
DataAtoms == {<<"U", "u", vx, vd>>, <<"U", "u", vy, vd>>, <<"U", "u", vx, litL>>, <<"U", "u", indA, vd>>, <<"D", D, vd>>, <<"D", DNot(E), vd>>,
              <<"D", DAnd({D, E}), vd>>, <<"D", DOr({D, E}), vd>>}
Bodies == {<<p, q>> : p \in {<<"P", r, vx, vy>>}, q \in IndividualAtoms}
          \cup {<<<<"U", "u", vx, vd>>, q>> : q \in DataAtoms \cup {<<"C", A, vy>>}}
          \cup {<<<<"same", vx, vy>>, <<"P", r, vz, vy>>, <<"C", A, vx>>>>, <<<<"same", indA, vx>>, <<"P", r, vx, indA>>>>,
                <<<<"same", vx, indA>>, <<"P", r, vx, indB>>, <<"C", A, indA>>>>, <<<<"same", vx, vy>>, <<"same", vy, vz>>, <<"P", r, vz, vx>>>>}
Heads == {<<<<"C", B, vx>>>>, <<<<"same", vx, indA>>, <<"P", Inv(r), vx, vx>>>>, <<<<"diff", vx, indB>>>>, <<<<"U", "u", vx, litK>>>>,
          <<<<"C", Or({A, B}), vx>>>>, <<<<"C", And({A, Not(B)}), indA>>>>}
DataHeads == {<<<<"D", E, vd>>>>, <<<<"D", DAnd({D, E}), vd>>>>, <<<<"U", "u", vx, vd>>>>}
HasData(body) == \E i \in DOMAIN body : body[i][1] = "U" /\ body[i][4] = vd

RuleFacts == {<<<<"C", A, indA>>>>, <<<<"C", Some(r, A), indB>>, <<"C", Some(r, A), indA>>>>, <<<<"P", Inv(r), indA, indB>>, <<"P", r, indB, indB>>>>,
          <<<<"U", "u", indA, litK>>>>, <<<<"same", indA, indB>>>>, <<<<"same", indA, indA>>, <<"diff", indA, indB>>>>,
          <<<<"D", D, litL>>>>, <<<<"D", D, litL>>, <<"D", DNot(E), litL>>>>}
BadRules == {Swrl(<<>>, <<<<"C", A, vx>>>>), Swrl(<<>>, <<<<"C", B, indAnon>>>>), Swrl(<<>>, <<<<"P", r, indA, indAnon>>>>),
        Swrl(<<>>, <<<<"D", D, vd>>>>), Swrl(<<>>, <<<<"builtin">>>>), Swrl(<<<<"builtin">>>>, <<<<"C", A, vx>>>>),
        Swrl(<<<<"C", A, indAnon>>>>, <<<<"C", B, vx>>>>), Swrl(<<<<"same", vx, indAnon>>>>, <<<<"C", B, vx>>>>),
        Swrl(<<<<"C", A, vx>>>>, <<<<"D", D, vd>>>>), Swrl(<<<<"C", A, vx>>>>, <<<<"U", "u", vx, vd>>>>),
        Swrl(<<<<"C", A, vx>>>>, <<<<"C", B, vx>>, <<"builtin">>>>), Swrl(<<<<"U", "topData", vx, vd>>>>, <<<<"C", A, vx>>>>)}
\* A complex class in the body of a rule and in another place.
SharedClasses == {Some(r, B), All(r, Not(B)), And({A, B})}
Uses(c) == {<<"ClassAssertion", c, "a">>, <<"SubClassOf", B, Some(r, c)>>, Swrl(<<<<"C", B, vx>>>>, <<<<"C", c, vx>>>>),
            Swrl(<<<<"C", c, vx>>>>, <<<<"P", r, vx, vx>>>>)}

SwrlQuestions ==
  {Ask({Swrl(body, head)}, "rule", TRUE) : body \in Bodies, head \in Heads}
  \cup {Ask({Swrl(body, head)}, "rule", TRUE) : body \in {c \in Bodies : HasData(c)}, head \in DataHeads}
  \cup {Ask({Swrl(<<<<"U", "u", vx, vd>>, <<"U", "u", vy, vd>>>>, <<<<"P", r, vx, vy>>>>)}, "rule", TRUE)}
  \cup {Ask({Swrl(<<>>, head)}, "rule", TRUE) : head \in RuleFacts}
  \cup {Ask({Swrl(<<<<"P", r, vx, vy>>>>, <<<<"C", B, vy>>>>), Swrl(<<>>, head)}, "rule", TRUE) : head \in RuleFacts}
  \cup {Ask({Swrl(<<<<"C", B, vx>>>>, <<<<"C", A, vx>>>>), <<"ClassAssertion", c, "a">>}, "rule", TRUE) : c \in {And({A, B}), Some(r, A)}}
  \cup {Ask({Swrl(<<>>, <<<<"C", c, indA>>>>)}, "rule", TRUE) : c \in Nested}
  \cup {Ask({Swrl(<<<<"C", B, vx>>>>, <<<<"C", c, vx>>>>)}, "rule", TRUE) : c \in Nested}
  \cup {Ask({Swrl(<<<<"C", c, vx>>>>, <<<<"C", A, vx>>>>)}, "rule", TRUE) : c \in Nested}
  \cup {Ask({Swrl(<<<<"C", c, vx>>>>, <<<<"C", A, vx>>>>), use}, "rule", TRUE) :
          c \in SharedClasses, use \in UNION {Uses(d) : d \in SharedClasses}}
  \cup {Ask({Swrl(<<<<"C", B, vx>>>>, <<<<"C", c, vx>>>>), <<"ClassAssertion", c, "a">>}, "rule", TRUE) : c \in SharedClasses}
  \cup {Ask({ax, <<"SubClassOf", A, B>>}, "rule", FALSE) : ax \in BadRules}


(***************************************************************************)
(* The role box.                                                           *)
(***************************************************************************)
TheLabels == <<r, s, t, TopRole, Inv(r), Inv(s), Inv(t), Inv(TopRole)>>
TwoLabels == <<r, s, TopRole, Inv(r), Inv(s), Inv(TopRole)>>

Told(simple, chains, inclusions, facts) ==
  [simple |-> simple, chains |-> chains, inclusions |-> inclusions, facts |-> facts,
   asymmetric |-> {}, irreflexive |-> {}, disjoint |-> {}]

\* Role boxes of at most three inclusions over three properties.
Pool == {<<"s", r, s>>, <<"s", s, t>>, <<"s", r, Inv(s)>>, <<"s", s, r>>, <<"s", Inv(t), t>>,
         <<"c", <<r, r>>, r>>, <<"c", <<t, t>>, t>>, <<"c", <<r, s>>, r>>, <<"c", <<s, r, t>>, s>>,
         <<"c", <<Inv(s), t>>, r>>, <<"c", <<r, t>>, s>>, <<"c", <<r, Inv(t), r>>, t>>}
RoleBoxesOf(size) == {{p[i] : i \in 1..size} : p \in [1..size -> Pool]}
LanguageQuestions ==
  {Told({<<p[2], p[3]>> : p \in {x \in box : x[1] = "s"}}, {<<p[2], p[3]>> : p \in {x \in box : x[1] = "c"}}, {}, {}) :
     box \in RoleBoxesOf(3)}

\* Restrictions over two properties, in an ontology of one or two inclusions.
TwoPool == {<<"s", s, r>>, <<"s", r, Inv(s)>>, <<"s", Inv(r), r>>, <<"c", <<r, r>>, r>>, <<"c", <<r, s>>, r>>, <<"c", <<Inv(s), r>>, r>>,
            <<"c", <<s, s>>, r>>, <<"c", <<s, r, s>>, r>>}
Contents ==
  {<<{{A, All(r, B)}}, {}>>, <<{{Not(A), All(r, Not(B))}}, {}>>, <<{{All(Inv(r), A)}}, {}>>, <<{{All(r, Nothing), B}}, {}>>,
   <<{{All(r, A)}, {Not(B), All(s, B)}}, {}>>, <<{{Not(A), All(TopRole, B)}}, {}>>, <<{{All(r, Thing), B}}, {}>>,
   <<{}, {<<"NegativeObjectPropertyAssertion", r, "a", "b">>}>>, <<{}, {<<"NegativeObjectPropertyAssertion", Inv(r), "a", "b">>}>>,
   <<{}, {<<"NegativeObjectPropertyAssertion", s, "a", "a">>}>>,
   <<{{A, All(r, Not(A))}, {Not(A), All(r, Not(A))}}, {<<"ClassAssertion", B, "a">>}>>}
RewriteQuestions ==
  {Told({<<p[2], p[3]>> : p \in {x \in box : x[1] = "s"}}, {<<p[2], p[3]>> : p \in {x \in box : x[1] = "c"}}, c[1], c[2]) :
     box \in {{p, q} : p, q \in TwoPool}, c \in Contents}
\* Uses that need a simple property.
UseQuestions ==
  {[Told({}, {<<<<r, r>>, r>>}, {{use}}, {}) EXCEPT !.asymmetric = asym] :
     use \in {A, <<"self", r>>, <<"max", 1, Inv(r), A>>, <<"min", 2, s, A>>}, asym \in {{}, {r}, {s}}}
TheRewritings == RewriteQuestions \cup UseQuestions
RewriteInterps ==
  {[class |-> "A" :> ea @@ "B" :> eb, op |-> "r" :> er @@ "s" :> es, dp |-> <<>>, dt |-> <<>>, ind |-> "a" :> 1 @@ "b" :> 2,
    lit |-> <<>>] :
     ea \in {{1}, {1, 2}}, eb \in {{}, {2}},
     er \in {{}, {<<1, 2>>}, {<<1, 2>>, <<2, 1>>}}, es \in {{}, {<<2, 1>>}, {<<1, 2>>, <<2, 2>>}}}

(***************************************************************************)
(* Clausification of normalized axioms.                                    *)
(***************************************************************************)
Nominal(i) == <<"oneof", {i}>>
Both == <<"oneof", {"a", "b"}>>
IntRange == <<"datatype", "int">>
DefRange == <<"datatype", "def">>
Lit(l) == <<"done", {l}>>

TheDatatypes == "int" :> "supported" @@ "def" :> "supported" @@ "odd" :> "unsupported" @@ "mine" :> "unknown"
                @@ "dd" :> "defdata" @@ "top" :> "literal"
TheLiterals == "v" :> "valid" @@ "w" :> "valid" @@ "internalConstant" :> "valid" @@ "bad" :> "malformed"
               @@ "foreign" :> "unsupported"

\* The data properties of the signature, rules and keys included.
Signed(x) == [x EXCEPT !.dataProperties =
                C0!VisitedData(x) \cup UNION {ToSet(k[3]) : k \in x.keys}
                \cup {a[2] : a \in {b \in UNION {x.rules[i].head \cup x.rules[i].body : i \in DOMAIN x.rules} : b[1] = "U"}}]
Normalized(x, theme) == [axioms |-> Signed([x EXCEPT !.named = {"a", "b"}]), ignore |-> FALSE, graphs |-> {}, theme |-> theme]
Classes(concepts, theme) == Normalized([C0!NoAxioms EXCEPT !.concept = concepts], theme)

Interp(ea, eb, er, es, eu) ==
  [class |-> "A" :> ea @@ "B" :> eb, op |-> "r" :> er @@ "s" :> es, dp |-> "u" :> eu @@ "w" :> {<<1, 1>>, <<2, 2>>},
   dt |-> "int" :> {1} @@ "def" :> {2}, ind |-> "a" :> 1 @@ "b" :> 2,
   lit |-> "v" :> 1 @@ "w" :> 2 @@ "internalConstant" :> 1]

FewRoles == {{}, {<<1, 2>>}, {<<1, 1>>, <<1, 2>>}, {<<1, 2>>, <<2, 1>>, <<2, 2>>}, {<<2, 1>>}}
ObjectInterps == {Interp(ea, eb, er, {<<1, 2>>}, {}) : ea, eb \in {{}, {1}, {2}, {1, 2}}, er \in SUBSET ({1, 2} \X {1, 2})}
DataInterps == {Interp(ea, {1}, {<<1, 2>>}, {}, eu) : ea \in {{}, {1}, {2}}, eu \in SUBSET ({1, 2} \X Values)}
RoleInterps == {Interp({1}, {2}, er, es, {}) : er \in SUBSET ({1, 2} \X {1, 2}), es \in FewRoles}
RuleInterps == {Interp(ea, {2}, er, es, {<<1, 1>>, <<2, 1>>}) : ea \in {{1}, {1, 2}}, er \in FewRoles, es \in FewRoles}
CountInterps == {Interp(ea, eb, {<<1, d>> : d \in to} \cup {<<2, 3>>}, {}, {<<1, 1>>}) :
                   ea \in {{1, 3}, {1, 2, 3}, {2}}, eb \in {{}, {1, 2}, {3}}, to \in SUBSET {1, 2, 3}}

(***************************************************************************)
(* Inclusions of one, two and three disjuncts.                             *)
(***************************************************************************)
Disjuncts == {A, Not(B), Both, Not(Nominal("a")), Not(<<"self", r>>), <<"self", ri>>, Some(r, A), Some(ri, Not(B)), Some(r, Both),
              Some(r, Nothing), All(r, A), All(r, B), All(ri, Not(B)), All(r, Both), All(r, Not(Nominal("a"))), All(r, Nothing),
              <<"min", 2, r, A>>, <<"max", 0, r, A>>, <<"max", 1, ri, Not(A)>>, <<"max", 1, r, Thing>>}
ObjectQuestions ==
  {Classes({<<d>>}, "object") : d \in Disjuncts} \cup {Classes({<<d, e>>}, "object") : d, e \in Disjuncts}
  \cup {Classes({<<All(r, Nominal("a")), All(r, A), Nominal("b")>>}, "object"), Classes({<<Some(TopRole, A)>>, <<Not(A), All(TopRole, B)>>}, "object"),
        Classes({<<All(Inv(TopRole), A), B>>}, "object"), Classes({<<Some(BottomRole, A), B>>}, "object"),
        Classes({<<All(BottomRole, A)>>, <<Not(B), <<"self", TopRole>>>>}, "object")}

DataDisjuncts == {<<"dsome", "u", IntRange>>, <<"dsome", "u", <<"dnot", DefRange>>>>, <<"dsome", "u", <<"done", {}>>>>, <<"dall", "u", IntRange>>,
                  <<"dall", "u", <<"dnot", IntRange>>>>, <<"dall", "u", <<"dnot", DefRange>>>>, <<"dall", "u", Lit("v")>>,
                  <<"dall", "u", <<"dnot", C0!LiteralRange>>>>, <<"dmin", 2, "u", C0!LiteralRange>>, <<"dmax", 1, "u", C0!LiteralRange>>,
                  <<"dmax", 1, "u", DefRange>>, <<"dmax", 0, "u", <<"dnot", DefRange>>>>, <<"dmax", 0, "u", IntRange>>,
                  <<"dsome", "topData", IntRange>>, <<"dsome", "bottomData", IntRange>>, <<"dall", "bottomData", IntRange>>}
Defined(x) == [x EXCEPT !.defined = {"def"}]
DataQuestions ==
  {Normalized(Defined([C0!NoAxioms EXCEPT !.concept = {<<d>>}]), "data") : d \in DataDisjuncts}
  \cup {Normalized(Defined([C0!NoAxioms EXCEPT !.concept = {<<Not(A), d, e>>}]), "data") : d, e \in DataDisjuncts}
  \cup {Normalized(Defined([C0!NoAxioms EXCEPT !.range = {<<d, e>>}]), "data") :
          d, e \in {IntRange, DefRange, <<"dnot", DefRange>>, <<"dnot", IntRange>>, Lit("v"), <<"dnot", Lit("w")>>}}
  \cup {Normalized(Defined([C0!NoAxioms EXCEPT !.dataIncl = {i}]), "data") : i \in {<<"u", "w">>, <<"w", "u">>, <<"u", "bottomData">>, <<"u", "topData">>}}
  \cup {Normalized(Defined([C0!NoAxioms EXCEPT !.disjointData = {<<"u", "w">>}, !.facts = {f}]), "data") :
          f \in {<<"DataPropertyAssertion", "u", "a", "v">>, <<"NegativeDataPropertyAssertion", "u", "b", "w">>}}

(***************************************************************************)
(* Axioms on properties, and facts.                                        *)
(***************************************************************************)
ClauseRoles == {r, ri, Role("s"), TopRole, BottomRole}
RoleQuestions ==
  {Normalized([C0!NoAxioms EXCEPT !.simple = {<<p, q>>}], "role") : p, q \in ClauseRoles}
  \cup {Normalized([C0!NoAxioms EXCEPT !.asymmetric = {p}], "role") : p \in ClauseRoles}
  \cup {Normalized([C0!NoAxioms EXCEPT !.reflexive = {p}], "role") : p \in ClauseRoles}
  \cup {Normalized([C0!NoAxioms EXCEPT !.irreflexive = {p}, !.disjoint = {<<r, Role("s"), ri>>}], "role") : p \in {r, ri}}
  \cup {Normalized([C0!NoAxioms EXCEPT !.complex = {<<<<r, r>>, r>>}, !.simple = {<<r, Role("s")>>}], "role")}
  \cup {Normalized([C0!NoAxioms EXCEPT !.facts = {f, g}], "role") :
          f \in {<<"SameIndividual", <<"a", "b">>>>, <<"DifferentIndividuals", <<"a", "b">>>>,
                 <<"NegativeObjectPropertyAssertion", ri, "a", "b">>, <<"ClassAssertion", Not(A), "b">>,
                 <<"NegativeObjectPropertyAssertion", TopRole, "a", "b">>, <<"ObjectPropertyAssertion", BottomRole, "a", "b">>},
          g \in {<<"ObjectPropertyAssertion", ri, "a", "b">>, <<"ClassAssertion", <<"self", ri>>, "a">>,
                 <<"ClassAssertion", Not(<<"self", r>>), "b">>}}

(***************************************************************************)
(* Keys and rules.                                                         *)
(***************************************************************************)
Var(n) == <<"var", n>>
TheRules ==
  {[body |-> {<<"C", A, Var("x")>>, <<"P", r, Var("x"), Var("y")>>}, head |-> {<<"P", Role("s"), Var("x"), Var("y")>>}],
   [body |-> {<<"P", ri, Var("x"), Var("y")>>}, head |-> {<<"same", Var("x"), Var("y")>>, <<"C", A, Var("y")>>}],
   [body |-> {<<"C", A, Var("x")>>}, head |-> {<<"P", r, Var("x"), Var("y")>>}],
   [body |-> {<<"C", A, Var("x")>>, <<"C", B, Var("y")>>}, head |-> {<<"diff", Var("x"), Var("y")>>, <<"P", r, Var("y"), Var("x")>>}],
   [body |-> {<<"U", "u", Var("x"), Var("d")>>, <<"D", IntRange, Var("d")>>}, head |-> {<<"C", A, Var("x")>>}]}
\* A variable of sameAs or differentFrom alone, and built-in properties.
LooseRules ==
  {[body |-> {<<"C", A, Var("x")>>}, head |-> {<<k, Var("x"), Var("y")>>}] : k \in {"same", "diff"}}
  \cup {[body |-> {<<"P", p, Var("x"), Var("y")>>}, head |-> {<<"C", A, Var("y")>>}] : p \in {TopRole, BottomRole}}
  \cup {[body |-> {<<"C", A, Var("x")>>}, head |-> {<<"P", p, Var("x"), Var("x")>>}] : p \in {TopRole, BottomRole}}
  \cup {[body |-> {<<"C", A, Var("x")>>, <<"U", "u", Var("x"), Var("d")>>}, head |-> {<<"U", p, Var("x"), Var("d")>>}] :
          p \in {"topData", "bottomData"}}
\* One named element, so that what is said of unnamed elements shows.
OneNamed(x) == [ignore |-> FALSE, graphs |-> {}, theme |-> "rule",
                axioms |-> Signed([x EXCEPT !.named = {"a"}])]
RuleQuestions ==
  {OneNamed([C0!NoAxioms EXCEPT !.rules = <<rule>>]) : rule \in TheRules}
  \cup {Normalized([C0!NoAxioms EXCEPT !.rules = <<rule, rule2>>], "rule") : rule, rule2 \in TheRules}
  \cup {Normalized([C0!NoAxioms EXCEPT !.keys = {<<c, roles, data>>}], "rule") :
          c \in {Thing, A, Not(B)}, roles \in {<<>>, <<r>>, <<ri, Role("s")>>}, data \in {<<>>, <<"u">>, <<"u", "w">>}}
  \cup {OneNamed([C0!NoAxioms EXCEPT !.keys = {<<A, <<r>>, <<>>>>}])}
  \cup {OneNamed([C0!NoAxioms EXCEPT !.rules = <<rule>>, !.simple = i]) : rule \in LooseRules, i \in {{}, {<<r, TopRole>>}, {<<BottomRole, r>>}}}
  \cup {Normalized([C0!NoAxioms EXCEPT !.keys = {<<A, <<p>>, <<>>>>}, !.simple = i], "rule") :
          p \in {TopRole, BottomRole}, i \in {{}, {<<r, TopRole>>}, {<<r, BottomRole>>}}}
\* Both elements share an unnamed value.
ThreeNamed == {[ignore |-> FALSE, graphs |-> {}, theme |-> "three",
                axioms |-> [C0!NoAxioms EXCEPT !.keys = {<<Thing, <<r>>, <<>>>>}, !.named = {"a", "b"}]]}

CountDisjuncts == {<<"max", 2, r, A>>, <<"max", 2, r, Not(B)>>, <<"max", 2, r, Thing>>, <<"max", 1, ri, A>>, <<"min", 3, r, A>>,
                   All(r, B), Not(A)}
CountedQuestions == {Classes({<<d>>}, "count") : d \in CountDisjuncts} \cup {Classes({<<d, e>>}, "count") : d, e \in CountDisjuncts}
                  \cup {[q EXCEPT !.theme = "count"] : q \in ThreeNamed}

ClauseQuestions == ObjectQuestions \cup DataQuestions \cup RoleQuestions \cup RuleQuestions

(***************************************************************************)
(* Datatypes, facets and literals the reasoner does not take, in every     *)
(* place that is converted.                                                *)
(***************************************************************************)
Restriction(d, facets) == <<"restriction", d, facets>>
SomeRanges == {<<"datatype", d>> : d \in DOMAIN TheDatatypes \ {"top"}} \cup {C0!LiteralRange} \cup {Lit(l) : l \in {"v", "bad", "foreign"}}
              \cup {Restriction(d, fs) : d \in {"int", "odd", "mine", "dd", "top"},
                      fs \in {<<>>, <<<<"fine", "v">>>>, <<<<"badValue", "v">>>>, <<<<"unsupported", "w">>, <<"fine", "bad">>>>,
                             <<<<"huge", "v">>>>, <<<<"fine", "foreign">>>>}}
RefusalAxioms ==
  {[C0!NoAxioms EXCEPT !.concept = {<<Not(A), c>>}] :
     c \in UNION {{<<"dsome", "u", d>>, <<"dall", "u", <<"dnot", d>>>>, <<"dmax", 1, "u", d>>, <<"dmin", 2, "bottomData", d>>} : d \in SomeRanges}}
  \cup {[C0!NoAxioms EXCEPT !.range = {<<d, <<"dnot", e>>>>}] : d \in SomeRanges, e \in {IntRange, Lit("v"), Lit("bad")}}
  \cup {[C0!NoAxioms EXCEPT !.rules = <<[body |-> {<<"U", "u", Var("x"), Var("d")>>, <<"D", d, Var("d")>>}, head |-> {<<"C", A, Var("x")>>}]>>,
                        !.facts = f] :
          d \in SomeRanges, f \in {{<<k, "u", "a", l>>} : k \in C0!DataFacts, l \in {"v", "bad", "foreign"}}}
RefusalQuestions ==
  {[axioms |-> Signed([x EXCEPT !.defined = defined, !.named = {"a"}]), ignore |-> ignore, graphs |-> {}, theme |-> "data"] :
     x \in RefusalAxioms, ignore \in BOOLEAN, defined \in {{}, {"def", "odd"}}}

(***************************************************************************)
(* Rules beside a description graph over the properties g and h, in every  *)
(* order.                                                                  *)
(***************************************************************************)
PropertyRule(ps) == [body |-> {<<"P", Role(p), Var("x"), Var("y")>> : p \in ps} \cup {<<"C", A, Var("x")>>}, head |-> {<<"C", B, Var("x")>>}]
TheGraph == [name |-> "G", vertices |-> <<A, B, A>>, edges |-> {<<"g", 1, 2>>, <<"h", 2, 3>>}, start |-> {A}]
RuleSets == {{"g", "s"}, {"s", "t"}, {"t", "q"}, {"r", "p"}, {"p"}, {}}
GraphQuestions ==
  {[axioms |-> [C0!NoAxioms EXCEPT !.rules = [i \in DOMAIN rules |-> PropertyRule(rules[i])], !.owlProperties = owl, !.named = {"a"}],
    ignore |-> FALSE, graphs |-> graphs, theme |-> "role"] :
     rules \in UNION {[1..n -> RuleSets] : n \in 1..3}, owl \in {{"r"}, {"r", "q"}, {"r", "h"}}, graphs \in {{}, {TheGraph}}}

(***************************************************************************)
(* The three parts.                                                        *)
(***************************************************************************)
NormInterps == "class" :> ClassInterps @@ "few" :> FewInterps @@ "role" :> PropertyInterps @@ "data" :> RangeInterps
               @@ "rule" :> SwrlInterps
ClauseInterps == "object" :> ObjectInterps @@ "data" :> DataInterps @@ "role" :> RoleInterps @@ "rule" :> RuleInterps

Normalizer == INSTANCE Normalization WITH
                Questions <- ClassTheme \cup DataTheme \cup SwrlQuestions, Interps <- NormInterps, Anonymous <- {"anon"}
Language == INSTANCE RoleAutomata WITH
              Questions <- LanguageQuestions, Interps <- {}, LabelOrder <- TheLabels, MaxDeterministicStates <- 4096, MaxWord <- 4
Rewriting == INSTANCE RoleAutomata WITH
               Questions <- TheRewritings, Interps <- RewriteInterps, LabelOrder <- TwoLabels, MaxDeterministicStates <- 4096,
               MaxWord <- 3
Clauses == INSTANCE Clausification WITH
             Questions <- ClauseQuestions, Interps <- ClauseInterps, DatatypeKind <- TheDatatypes, LiteralKind <- TheLiterals
Counting == INSTANCE Clausification WITH
              Domain <- {1, 2, 3}, Questions <- CountedQuestions, Interps <- "count" :> CountInterps,
              DatatypeKind <- TheDatatypes, LiteralKind <- TheLiterals
Refusing == INSTANCE Clausification WITH
              Questions <- RefusalQuestions, Interps <- ClauseInterps, DatatypeKind <- TheDatatypes, LiteralKind <- TheLiterals
Graphing == INSTANCE Clausification WITH
              Questions <- GraphQuestions, Interps <- ClauseInterps, DatatypeKind <- TheDatatypes, LiteralKind <- TheLiterals

Unused == 0
OnlyNormalization == graph = Unused /\ automata = Unused /\ axioms = Unused /\ pending = Unused /\ flags = Unused /\ out = Unused
OnlyAutomata == todo = Unused /\ norm = Unused /\ flags = Unused /\ out = Unused
OnlyClauses == norm = Unused /\ graph = Unused /\ automata = Unused /\ pending = Unused

Init == \/ part = "normalize" /\ Normalizer!Init /\ OnlyNormalization
        \/ part = "language" /\ Language!Init /\ OnlyAutomata
        \/ part = "rewrite" /\ Rewriting!Init /\ OnlyAutomata
        \/ part = "clausify" /\ Clauses!Init /\ OnlyClauses
        \/ part = "count" /\ Counting!Init /\ OnlyClauses
        \/ part = "refuse" /\ Refusing!Init /\ OnlyClauses
        \/ part = "graphs" /\ Graphing!Init /\ OnlyClauses

NextNormalize == part = "normalize" /\ Normalizer!Next /\ UNCHANGED <<part, graph, automata, axioms, pending, flags, out>>
NextLanguage == part = "language" /\ Language!Next /\ UNCHANGED <<part, todo, norm, flags, out>>
NextRewrite == part = "rewrite" /\ Rewriting!Next /\ UNCHANGED <<part, todo, norm, flags, out>>
NextClausify == part = "clausify" /\ Clauses!Next /\ UNCHANGED <<part, norm, graph, automata, pending>>
NextCount == part = "count" /\ Counting!Next /\ UNCHANGED <<part, norm, graph, automata, pending>>
NextRefuse == part = "refuse" /\ Refusing!Next /\ UNCHANGED <<part, norm, graph, automata, pending>>
NextGraphs == part = "graphs" /\ Graphing!Next /\ UNCHANGED <<part, norm, graph, automata, pending>>
Next == NextNormalize \/ NextLanguage \/ NextRewrite \/ NextClausify \/ NextCount \/ NextRefuse \/ NextGraphs
Spec == Init /\ [][Next]_suiteVars

(***************************************************************************)
(* Normalization keeps the models (a model of the axioms is a model of the *)
(* normalized ones for some reading of the fresh names, and the other way  *)
(* round), ends in the normal form without running into one of its panics, *)
(* and rejects exactly what is not OWL 2 DL, whatever the order in which   *)
(* the axioms are visited.  Three cases are left out.  A data at-most over *)
(* a range that needs a definition is given one of the wrong polarity.  A  *)
(* complex class of a rule's body that is used elsewhere too, or of any    *)
(* rule where a negative definition is in the way, shares a definition     *)
(* with only one of the inclusions it needs, or its name.  A disjunct of a *)
(* DisjointUnion or a class of a rule's head that is a negated conjunction *)
(* or exact cardinality reaches a panic.                                   *)
(***************************************************************************)
NormalizationFaithful ==
  part = "normalize" => /\ Normalizer!ModelsPreserved
                        /\ Normalizer!NormalForm
                        /\ Normalizer!NoPanic
                        /\ Normalizer!RejectsExactly

(***************************************************************************)
(* The automaton of a non-simple property accepts the words the told role  *)
(* box derives for it, and replacing the universal restrictions and the    *)
(* negative assertions over non-simple properties by their automata keeps  *)
(* the models.  Of a role box that turns out to be irregular while its     *)
(* automata are built, which is accepted, only one half is claimed: no     *)
(* other words are accepted and no model is lost.                          *)
(***************************************************************************)
RoleBoxFaithful == /\ part = "language" => Language!AutomataSound /\ Language!AutomataComplete
                   /\ part = "rewrite" => Rewriting!RewritingFaithful

(***************************************************************************)
(* The clauses and facts of normalized axioms have their models, can be    *)
(* evaluated, and do nothing the expressivity flags do not announce.  The  *)
(* first two are not claimed of a rule with a variable in sameAs and       *)
(* differentFrom only, which stays unbound and ranges over unnamed         *)
(* elements too; nor the first of a built-in property that occurs in rules *)
(* and keys only, which is not axiomatized.                                *)
(* Datatypes, facets and literals are refused exactly when one of those    *)
(* read is not taken (a facet on rdfs:Literal is a panic), and rules are   *)
(* treated as graph rules exactly when a chain of shared properties        *)
(* connects them with a description graph.                                 *)
(***************************************************************************)
ClausificationFaithful ==
  /\ part = "clausify" => Clauses!ModelsPreserved /\ Clauses!ClausesSafe /\ Clauses!FlagsCover
  /\ part = "count" => Counting!ModelsPreserved
  /\ part = "refuse" => Refusing!RefusedExactly
  /\ part = "graphs" => Graphing!RulesByConnection
=============================================================================
