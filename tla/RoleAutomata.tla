---------------------------- MODULE RoleAutomata ----------------------------
(***************************************************************************)
(* structural/object_property_inclusion_manager.rs: the role box as a      *)
(* grammar, HermiT's structural regularity checks, the automata of the     *)
(* non-simple properties, and the rewriting of universal restrictions over *)
(* them.  Inclusions of two properties are pairs, chains are pairs of a    *)
(* sequence and a property.                                                *)
(***************************************************************************)
EXTENDS Expressions, Sequences, SequencesExt

CONSTANTS LabelOrder,              \* every label, in the order of label_order_key
          MaxDeterministicStates,  \* MAX_DETERMINISTIC_STATES
          Questions, Interps, MaxWord

(***************************************************************************)
(* structural/automaton.rs: finite automata over object properties.  An    *)
(* automaton has states 1..n, sets of initial and terminal states and a    *)
(* set of transitions <<start, label, end>>; the label Epsilon is the      *)
(* empty one.  A label is a role <<name, inverted>>.                       *)
(***************************************************************************)
Epsilon == <<>>
NewAutomaton == [n |-> 0, initial |-> {}, terminal |-> {}, delta |-> {}]

AddState(a, initial, terminal) ==
  [a EXCEPT !.n = @ + 1,
            !.initial = IF initial THEN @ \cup {a.n + 1} ELSE @,
            !.terminal = IF terminal THEN @ \cup {a.n + 1} ELSE @]
AddTransition(a, start, label, end) == [a EXCEPT !.delta = @ \cup {<<start, label, end>>}]
States(a) == 1..a.n
First(states) == CHOOSE s \in states : \A t \in states : s =< t

Labels(a) == SelectSeq(LabelOrder, LAMBDA l : \E t \in a.delta : t[2] = l)

RECURSIVE Reach(_, _)
Reach(seen, edges) ==
  LET next == {e[2] : e \in {x \in edges : x[1] \in seen}} \ seen
  IN IF next = {} THEN seen ELSE Reach(seen \cup next, edges)

EpsilonClosure(a, seed) == Reach(seed, {<<t[1], t[3]>> : t \in {u \in a.delta : u[2] = Epsilon}})

(***************************************************************************)
(* minimized: Brzozowski's construction, determinizing the reversal twice. *)
(***************************************************************************)
Reversed(a) ==
  [n |-> a.n, initial |-> a.terminal, terminal |-> a.initial,
   delta |-> {<<t[3], t[2], t[1]>> : t \in a.delta}]

\* The subset construction, from subset number from and label number i on.
\* The answer is the set of the deterministic automaton, empty when it would
\* have too many states.
RECURSIVE Explore(_, _, _, _, _, _)
Explore(a, labels, subsets, delta, from, i) ==
  IF from > Len(subsets)
  THEN {[n |-> Len(subsets), initial |-> {1},
         terminal |-> {s \in DOMAIN subsets : subsets[s] \cap a.terminal # {}}, delta |-> delta]}
  ELSE IF i > Len(labels) THEN Explore(a, labels, subsets, delta, from + 1, 1)
  ELSE LET seed == {t[3] : t \in {u \in a.delta : u[1] \in subsets[from] /\ u[2] = labels[i]}}
           target == EpsilonClosure(a, seed)
           known == {s \in DOMAIN subsets : subsets[s] = target}
           to == IF known = {} THEN Len(subsets) + 1 ELSE First(known)
       IN CASE seed = {} -> Explore(a, labels, subsets, delta, from, i + 1)
            [] seed # {} /\ known = {} /\ Len(subsets) >= MaxDeterministicStates -> {}
            [] OTHER -> Explore(a, labels, IF known = {} THEN Append(subsets, target) ELSE subsets,
                                delta \cup {<<from, labels[i], to>>}, from, i + 1)

Determinized(a, labels) == Explore(a, labels, <<EpsilonClosure(a, a.initial)>>, {}, 1, 1)

\* One terminal state: its own, or a fresh one reached from each.
Normalized(a) ==
  IF Cardinality(a.terminal) = 1 THEN a
  ELSE [a EXCEPT !.n = @ + 1, !.terminal = {a.n + 1},
                 !.delta = @ \cup {<<s, Epsilon, a.n + 1>> : s \in a.terminal}]

Minimized(a) ==
  LET labels == Labels(a)
      minimal == UNION {Determinized(Reversed(d), labels) : d \in Determinized(Reversed(a), labels)}
  IN IF minimal = {} THEN a ELSE CHOOSE m \in {Normalized(d) : d \in minimal} : TRUE

\* The reversed automaton with every label inverted.
MirroredCopy(a) ==
  [Reversed(a) EXCEPT !.delta = {IF t[2] = Epsilon THEN t ELSE <<t[1], <<t[2][1], ~t[2][2]>>, t[3]>> : t \in @}]

\* smaller in place of a transition from start to end of bigger.
AutomataConnector(bigger, smaller, start, end) ==
  LET new(s) == bigger.n + s
  IN [bigger EXCEPT !.n = @ + smaller.n,
                    !.delta = @ \cup {<<new(t[1]), t[2], new(t[3])>> : t \in smaller.delta}
                                \cup {<<start, Epsilon, new(First(smaller.initial))>>,
                                      <<new(First(smaller.terminal)), Epsilon, end>>}]

(***************************************************************************)
(* What an automaton accepts, run on sets of states; words with a set of   *)
(* labels at every position.                                               *)
(***************************************************************************)
RECURSIVE RunFrom(_, _, _)
RunFrom(a, states, word) ==
  IF word = <<>> THEN states \cap a.terminal # {}
  ELSE RunFrom(a, EpsilonClosure(a, {t[3] : t \in {u \in a.delta : u[1] \in states /\ u[2] \in word[1]}}), Tail(word))

AcceptsAny(a, word) == RunFrom(a, EpsilonClosure(a, a.initial), word)
Accepts(a, word) == AcceptsAny(a, [i \in DOMAIN word |-> {word[i]}])

(***************************************************************************)
(* find_equivalent_properties and build_property_ordering: the graph of    *)
(* which property is defined by which, for the regularity check.           *)
(***************************************************************************)
Related(p) == p[1] # p[2] /\ p[1] # Inv(p[2])
Nodes(edges) == UNION {{e[1], e[2]} : e \in edges}
SuccessorsIn(edges, x) == {e[2] : e \in {f \in edges : f[1] = x}}
Closed(edges) == UNION {{<<x, y>> : y \in Reach(SuccessorsIn(edges, x), edges)} : x \in Nodes(edges)}

FindEquivalentProperties(simple) ==
  LET closed == Closed({p \in simple : Related(p)})
      mutual(x, y) == SuccessorsIn(closed, y) \cap {x, Inv(x)} # {}
  IN {<<x, y>> \in closed : x # y /\ mutual(x, x) /\ mutual(x, y)}

\* What makes a chain irregular by itself.
IrregularChain(chain, equivalent) ==
  LET subs == chain[1]
      sup == chain[2]
      n == Len(subs)
  IN \/ n # 2 /\ sup = subs[1] /\ sup = subs[n]
     \/ \E i \in 2..(n - 1) : n # 2 /\ (subs[i] = sup \/ <<sup, subs[i]>> \in equivalent)
     \/ \E i \in 1..n : Inv(subs[i]) = sup

PropertyOrdering(simple, chains, equivalent) ==
  {p \in simple : Related(p) /\ p \notin equivalent}
  \cup {e \in UNION {{<<s, c[2]>> : s \in ToSet(c[1])} : c \in chains} : e[1] # e[2]}

\* A pass of the trimming loop of check_for_regularity: each edge between
\* equivalent properties, in the order of the node's sequence, is replaced by
\* edges to the successors of its end.
TrimEdge(graph, temp, e) == (graph \cup {<<e[1], y>> : y \in SuccessorsIn(temp, e[2]) \ {e[1]}}) \ {e}
TrimPass(graph, order) == FoldLeft(LAMBDA g, e : TrimEdge(g, graph, e), graph, order)

Cyclic(graph) == \E e \in Closed(graph) : e[2] \in {e[1], Inv(e[1])}

(***************************************************************************)
(* RoleBox: the inclusions and chains closed under inverse, the simple     *)
(* hierarchy, and the properties with a chain below them.                  *)
(***************************************************************************)
MirroredChain(chain) == <<[i \in DOMAIN chain[1] |-> Inv(Reverse(chain[1])[i])], Inv(chain[2])>>

RoleBox(simple, chains) ==
  LET inclusions == {p \in simple \cup {<<Inv(q[1]), Inv(q[2])>> : q \in simple} : p[1] # p[2]}
      closed == chains \cup {MirroredChain(c) : c \in chains}
  IN [inclusions |-> inclusions, chains |-> closed,
      nonSimple |-> UNION {Reach({c[2]}, inclusions) : c \in closed}]

IsSubProperty(box, sub, sup) == sup \in Reach({sub}, box.inclusions)
Equivalent(box, a, b) == IsSubProperty(box, a, b) /\ IsSubProperty(box, b, a)

(***************************************************************************)
(* complete_automaton.  The skeleton has states 1 (initial) and 2 (final)  *)
(* and one path per inclusion into the class of the property; the state    *)
(* threaded through the recursion holds the automata finished, the         *)
(* properties being built, and the flag that completeness is lost.         *)
(***************************************************************************)
NoAutomata == [complete |-> <<>>, building |-> {}, irregular |-> FALSE]
Skeleton0 == AddState(AddState(NewAutomaton, TRUE, FALSE), FALSE, TRUE)
SingleTransitionAutomaton(p) == AddTransition(Skeleton0, 1, p, 2)

\* The path of a chain: an occurrence of the class itself at its start (end)
\* becomes the final (initial) state.  An occurrence at both is one epsilon.
AddChain(box, p, a, chain) ==
  LET subs == chain[1]
      starts == Equivalent(box, subs[1], p)
      ends == Equivalent(box, subs[Len(subs)], p)
      middle == SubSeq(subs, IF starts THEN 2 ELSE 1, IF ends THEN Len(subs) - 1 ELSE Len(subs))
      n == Len(middle)
      from == IF starts THEN 2 ELSE 1
      to == IF ends THEN 1 ELSE 2
      at == [i \in 0..n |-> IF i = 0 THEN from ELSE IF i = n THEN to ELSE a.aut.n + i]
  IN IF n = 0 THEN [a EXCEPT !.transitions = Append(@, <<from, Epsilon, to>>)]
     ELSE [aut |-> [a.aut EXCEPT !.n = @ + n - 1],
           transitions |-> a.transitions \o [i \in 1..n |-> <<at[i - 1], middle[i], at[i]>>]]

SkeletonOfChains(box, p) ==
  FoldLeft(LAMBDA a, chain : AddChain(box, p, a, chain), [aut |-> Skeleton0, transitions |-> <<<<1, p, 2>>>>],
           SetToSeq({c \in box.chains : Equivalent(box, c[2], p)}))

Skeleton(box, p) ==
  LET subs == {q[1] : q \in {x \in box.inclusions : /\ Equivalent(box, x[2], p) /\ ~Equivalent(box, x[1], p)
                                                    /\ x[1] \in box.nonSimple}}
      direct == <<<<1, p, 2>>>> \o SetToSeq({<<1, s, 2>> : s \in subs})
      chains == {c \in box.chains : Equivalent(box, c[2], p)}
  IN FoldLeft(LAMBDA a, chain : AddChain(box, p, a, chain), [aut |-> Skeleton0, transitions |-> direct], SetToSeq(chains))

Remember(st, p, aut) == [st EXCEPT !.complete = (p :> aut) @@ @]
Irregular(st, p) == [st |-> [st EXCEPT !.irregular = TRUE], aut |-> SingleTransitionAutomaton(p)]

Completed(st, p, aut) == [st |-> [Remember(st, p, aut) EXCEPT !.building = @ \ {p}], aut |-> aut]

RECURSIVE CompleteAutomaton(_, _, _), Splice(_, _, _, _, _)
SpliceSkeleton(box, st, p, skeleton) ==
  Splice(box, p, [st EXCEPT !.building = @ \cup {p}], skeleton.aut, skeleton.transitions)
CompletedFrom(named, p) == Completed(named.st, p, Minimized(MirroredCopy(named.aut)))
CompletedWith(spliced, p) == Completed(spliced.st, p, Minimized(spliced.aut))
CompleteAutomaton(box, st, p) ==
  CASE p \in DOMAIN st.complete -> [st |-> st, aut |-> st.complete[p]]
    [] p \notin DOMAIN st.complete /\ Role(p[1]) \in st.building -> Irregular(st, p)
    [] p \notin DOMAIN st.complete /\ Role(p[1]) \notin st.building /\ p[2] ->
         CompletedFrom(CompleteAutomaton(box, st, Inv(p)), p)
    [] OTHER -> CompletedWith(SpliceSkeleton(box, st, p, Skeleton(box, p)), p)

\* The transitions of the skeleton of p, each non-simple property of another
\* class replaced by its own automaton.
Splice(box, p, st, aut, transitions) ==
  IF transitions = <<>> THEN [st |-> st, aut |-> aut]
  ELSE LET t == Head(transitions)
           plain == AddTransition(aut, t[1], t[2], t[3])
           inClass == Equivalent(box, t[2], p)
           smaller == CompleteAutomaton(box, st, t[2])
       IN CASE t[2] # Epsilon /\ inClass /\ ~(t[1] = 1 /\ t[3] = 2) ->
                 Splice(box, p, [st EXCEPT !.irregular = TRUE], plain, Tail(transitions))
            [] t[2] # Epsilon /\ ~inClass /\ t[2] \in box.nonSimple ->
                 Splice(box, p, smaller.st, AutomataConnector(aut, smaller.aut, t[1], t[3]), Tail(transitions))
            [] OTHER -> Splice(box, p, st, plain, Tail(transitions))

TopAutomaton == AddTransition(AddTransition(Skeleton0, 1, TopRole, 2), 2, Epsilon, 1)

(***************************************************************************)
(* ObjectPropertyInclusionManager: new (create_automata), then             *)
(* rewrite_negative_object_property_assertions and rewrite_axioms, as the  *)
(* clausification pipeline calls them, on the normalized axioms of a       *)
(* question.  The order in which the trimming loop meets the edges of the  *)
(* dependency graph is that of a hash map: any.                            *)
(***************************************************************************)
VARIABLES question, phase, graph, automata, axioms, pending
vars == <<question, phase, graph, automata, axioms, pending>>

AllNames == <<"all0", "all1", "all2", "all3", "all4", "all5", "all6", "all7", "all8", "all9", "all10", "all11">>
DefNames == <<"def0", "def1">>
NomName(i) == IF i = "a" THEN "nom#a" ELSE "nom#b"

Box == RoleBox(question.simple, question.chains)
EquivalentEdges == graph \cap FindEquivalentProperties(question.simple)

Init ==
  /\ question \in Questions
  /\ phase = "check" /\ graph = {} /\ automata = NoAutomata /\ pending = <<>>
  /\ axioms = [inclusions |-> question.inclusions, facts |-> question.facts, complex |-> {}, fresh |-> 0]

CheckOrdering ==
  /\ phase = "check"
  /\ LET equivalent == FindEquivalentProperties(question.simple)
     IN IF \E c \in question.chains : IrregularChain(c, equivalent)
        THEN phase' = "rejected" /\ UNCHANGED graph
        ELSE phase' = "trim" /\ graph' = PropertyOrdering(question.simple, question.chains, equivalent)
  /\ UNCHANGED <<question, automata, axioms, pending>>

Trim ==
  /\ phase = "trim" /\ EquivalentEdges # {}
  /\ \E order \in SetToSeqs(EquivalentEdges) : graph' = TrimPass(graph, order)
  /\ UNCHANGED <<question, phase, automata, axioms, pending>>

Trimmed ==
  /\ phase = "trim" /\ EquivalentEdges = {}
  /\ phase' = IF Cyclic(graph) THEN "rejected" ELSE "build"
  /\ UNCHANGED <<question, graph, automata, axioms, pending>>

\* The non-simple properties in their order, each with its automaton.
Unbuilt == SelectSeq(LabelOrder, LAMBDA p : p \in Box.nonSimple \ axioms.complex)

Build ==
  /\ phase = "build" /\ Unbuilt # <<>>
  /\ automata' = CompleteAutomaton(Box, automata, Unbuilt[1]).st
  /\ axioms' = [axioms EXCEPT !.complex = @ \cup {Unbuilt[1]}]
  /\ UNCHANGED <<question, phase, graph, pending>>

BuildTop ==
  /\ phase = "build" /\ Unbuilt = <<>>
  /\ automata' = IF TopRole \in DOMAIN automata.complete THEN automata
                 ELSE Remember(Remember(automata, Inv(TopRole), MirroredCopy(TopAutomaton)), TopRole, TopAutomaton)
  /\ phase' = "negative"
  /\ UNCHANGED <<question, graph, axioms, pending>>

\* A negative assertion of a complex property: its subject has no successor
\* that is its object.
RewriteNegative ==
  /\ phase = "negative" /\ phase' = "replace"
  /\ LET rewritten == {f \in axioms.facts : f[1] = "NegativeObjectPropertyAssertion" /\ f[2] \in axioms.complex}
         order == SetToSeq(rewritten)
         def(i) == Class(DefNames[i])
         nom(i) == Class(NomName(order[i][4]))
     IN axioms' = [axioms EXCEPT
          !.inclusions = @ \cup {{Not(def(i)), All(order[i][2], Not(nom(i)))} : i \in DOMAIN order},
          !.facts = (@ \ rewritten) \cup UNION {{<<"ClassAssertion", def(i), order[i][3]>>,
                                                 <<"ClassAssertion", nom(i), order[i][4]>>} : i \in DOMAIN order}]
  /\ UNCHANGED <<question, graph, automata, pending>>

(***************************************************************************)
(* rewrite_axioms: a non-simple property must not occur where OWL 2 DL     *)
(* wants a simple one; every universal restriction over a property with an *)
(* automaton is replaced by a fresh concept, negative if the filler is.    *)
(***************************************************************************)
Cardinalities0 == {"min", "max", "exact"}
NonSimpleUse ==
  LET disjuncts == UNION axioms.inclusions
  IN \/ (question.asymmetric \cup question.irreflexive \cup UNION question.disjoint) \cap axioms.complex # {}
     \/ \E c \in disjuncts : \/ c[1] \in Cardinalities0 /\ c[3] \in axioms.complex
                             \/ c[1] = "self" /\ c[2] \in axioms.complex

Replaceable(c) == c[1] = "all" /\ c[3] # Thing /\ c[2] \in DOMAIN automata.complete
IsNegative(filler) == filler[1] \in {"not", "nothing"}
StateConcept(i, filler) == IF IsNegative(filler) THEN Not(Class(AllNames[i])) ELSE Class(AllNames[i])

Replace ==
  /\ phase = "replace"
  /\ LET found == SetToSeq({c \in UNION axioms.inclusions : Replaceable(c)})
         replacement == [c \in ToSet(found) |-> StateConcept(CHOOSE i \in DOMAIN found : found[i] = c, c[3])]
         replaced(c) == IF Replaceable(c) THEN replacement[c] ELSE c
     IN IF NonSimpleUse THEN phase' = "rejected" /\ UNCHANGED <<axioms, pending>>
        ELSE /\ phase' = "generate"
             /\ pending' = [i \in DOMAIN found |-> <<found[i], replacement[found[i]]>>]
             /\ axioms' = [axioms EXCEPT !.inclusions = {{replaced(c) : c \in i} : i \in @},
                                         !.fresh = Len(found)]
  /\ UNCHANGED <<question, graph, automata>>

\* The inclusions of one restriction: the states of the automaton are
\* concepts, and each transition pushes its target along its label.
TransitionInclusion(concept, t) ==
  IF t[2] = Epsilon THEN {GetComplementNnf(concept[t[1]]), concept[t[3]]}
  ELSE {GetComplementNnf(concept[t[1]]), All(t[2], concept[t[3]])}
FinalInclusion(concept, s, filler) ==
  IF filler = Nothing THEN {GetComplementNnf(concept[s])} ELSE {GetComplementNnf(concept[s]), filler}

RestrictionInclusions(a, concept, filler) ==
  {TransitionInclusion(concept, t) : t \in a.delta} \cup {FinalInclusion(concept, s, filler) : s \in a.terminal}

Generate ==
  /\ phase = "generate" /\ pending # <<>>
  /\ LET all == Head(pending)[1]
         a == automata.complete[all[2]]
         others == States(a) \ a.initial
         number(s) == axioms.fresh + Cardinality({t \in others : t =< s})
         concept == [s \in States(a) |-> IF s \in a.initial THEN Head(pending)[2] ELSE StateConcept(number(s), all[3])]
     IN axioms' = [axioms EXCEPT !.inclusions = @ \cup RestrictionInclusions(a, concept, all[3]),
                                 !.fresh = @ + Cardinality(others)]
  /\ pending' = Tail(pending)
  /\ UNCHANGED <<question, phase, graph, automata>>

(***************************************************************************)
(* eliminate_universal_states: a fresh concept that holds of everything is *)
(* dropped from the inclusions.                                            *)
(***************************************************************************)
FreshConcepts == {Class(AllNames[i]) : i \in 1..axioms.fresh}

RECURSIVE UniversalFrom(_)
UniversalFrom(universal) ==
  LET implied == {c \in FreshConcepts \ universal :
                    \E i \in axioms.inclusions : c \in i /\ \A d \in i \ {c} : d[1] = "not" /\ d[2] \in universal}
  IN IF implied = {} THEN universal ELSE UniversalFrom(universal \cup implied)

Tautology(inclusion, universal) ==
  \E c \in inclusion : c \in universal \/ (c[1] = "all" /\ c[3] \in universal)
NegatesUniversal(c, universal) == c[1] = "not" /\ c[2] \in universal
WithoutUniversal(inclusion, universal) ==
  LET kept == {IF c[1] = "all" /\ NegatesUniversal(c[3], universal) THEN All(c[2], Nothing) ELSE c :
                 c \in {d \in inclusion : ~NegatesUniversal(d, universal)}}
  IN IF kept = {} THEN {Nothing} ELSE kept

Eliminated(inclusions, universal) ==
  {WithoutUniversal(i, universal) : i \in {j \in inclusions : ~Tautology(j, universal)}}

Eliminate ==
  /\ phase = "generate" /\ pending = <<>> /\ phase' = "done"
  /\ axioms' = [axioms EXCEPT !.inclusions = Eliminated(@, UniversalFrom({}))]
  /\ UNCHANGED <<question, graph, automata, pending>>

Stop == phase \in {"done", "rejected"} /\ UNCHANGED vars

Next == CheckOrdering \/ Trim \/ Trimmed \/ Build \/ BuildTop \/ RewriteNegative \/ Replace \/ Generate
        \/ Eliminate \/ Stop
\* The pipeline runs each of its steps to the end.
Spec == Init /\ [][Next]_vars /\ ([]<>(phase \in {"done", "rejected"}) \/ []<><<Next>>_vars)

(***************************************************************************)
(* The reference: the words a property derives in the grammar of the told  *)
(* inclusions, closed under inverse, up to MaxWord letters.                *)
(***************************************************************************)
Letters == {l \in ToSet(LabelOrder) : l[1] # "top"}
Words == UNION {[1..k -> Letters] : k \in 1..MaxWord}
MirroredWord(w) == [i \in DOMAIN w |-> Inv(Reverse(w)[i])]

RECURSIVE Concatenations(_, _)
Concatenations(derived, chain) ==
  IF chain = <<>> THEN {<<>>}
  ELSE {w \in {u \o v : u \in derived[chain[1]], v \in Concatenations(derived, Tail(chain))} : Len(w) =< MaxWord}

RECURSIVE Derive(_)
Derive(derived) ==
  LET next == [p \in Letters |->
                 derived[p] \cup {MirroredWord(w) : w \in derived[Inv(p)]}
                 \cup UNION {derived[q[1]] : q \in {x \in question.simple : x[2] = p}}
                 \cup UNION {Concatenations(derived, c[1]) : c \in {x \in question.chains : x[2] = p}}]
  IN IF next = derived THEN derived ELSE Derive(next)
Derived == Derive([p \in Letters |-> {<<p>>}])

\* A letter with the properties the simple hierarchy puts above it.
Widened(w) == [i \in DOMAIN w |-> Reach({w[i]}, Box.inclusions)]

(***************************************************************************)
(* The automata built (create_automata) accept only words their property   *)
(* derives, whatever was cut.                                              *)
(***************************************************************************)
AutomataSound ==
  phase = "negative" =>
    LET derived == Derived
    IN \A p \in DOMAIN automata.complete \cap Letters : \A w \in Words : Accepts(automata.complete[p], w) => w \in derived[p]

(***************************************************************************)
(* Unless the role box was found irregular, every derived word is accepted *)
(* once its letters are widened by the simple hierarchy (which the role    *)
(* inclusion clauses supply), and a property without an automaton derives  *)
(* single letters only.                                                    *)
(***************************************************************************)
AutomataComplete ==
  (phase = "negative" /\ ~automata.irregular) =>
    LET derived == Derived
    IN \A p \in Letters : \A w \in derived[p] :
         IF p \in DOMAIN automata.complete THEN AcceptsAny(automata.complete[p], Widened(w)) ELSE Len(w) = 1

(***************************************************************************)
(* rewrite_axioms and rewrite_negative_object_property_assertions drop the *)
(* chains: an interpretation that satisfies the simple inclusions          *)
(* satisfies the rewritten axioms, for some choice of the fresh concepts,  *)
(* exactly when closing its properties under the role box satisfies the    *)
(* axioms as they were (at least, for an irregular role box, if it does).  *)
(***************************************************************************)
RECURSIVE ClosedUnder(_)
ClosedUnder(m) ==
  LET derived(r) == UNION {RoleExt(m, q[1]) : q \in {x \in question.simple : x[2] = r}}
                    \cup UNION {ChainExt(m, c[1]) : c \in {x \in question.chains : x[2] = r}}
      inverse(pairs) == {<<p[2], p[1]>> : p \in pairs}
      next == [m EXCEPT !.op = [p \in DOMAIN @ |-> @[p] \cup derived(Role(p)) \cup inverse(derived(Inv(Role(p))))]]
  IN IF next = m THEN m ELSE ClosedUnder(next)

AxiomsHold(m, inclusions, facts) ==
  /\ \A i \in inclusions : Ext(m, Or(i)) = Domain
  /\ \A f \in facts : Satisfies(m, f)

FreshNames == {AllNames[i] : i \in 1..axioms.fresh}
              \cup {f[2][2] : f \in {g \in axioms.facts \ question.facts : g[1] = "ClassAssertion"}}

RewritingFaithful ==
  phase = "done" =>
    \A m \in {n \in Interps : \A p \in question.simple : RoleExt(n, p[1]) \subseteq RoleExt(n, p[2])} :
      LET before == AxiomsHold(ClosedUnder(m), question.inclusions, question.facts)
          after == \E class \in [FreshNames -> SUBSET Domain] :
                     AxiomsHold([m EXCEPT !.class = class @@ @], axioms.inclusions, axioms.facts)
      IN (before => after) /\ (~automata.irregular => (after => before))
=============================================================================
