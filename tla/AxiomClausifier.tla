-------------------------- MODULE AxiomClausifier --------------------------
(***************************************************************************)
(* The clausifiers of structural/owl_clausification.rs: what a normalized  *)
(* class inclusion, data range inclusion, key, fact or rule becomes, and   *)
(* the conversion of data ranges with the refusals it records.             *)
(*                                                                         *)
(* A clausifier state c collects the head and the body of one clause, with *)
(* the counters that number its variables Y and Z; facts and conv outlive  *)
(* the clause.  A literal, a datatype and a facet are told apart by their  *)
(* kind only.                                                              *)
(***************************************************************************)
EXTENDS Semantics, SequencesExt, FiniteSetsExt

CONSTANTS DatatypeKind,   \* datatype -> "literal" (rdfs:Literal), "supported", "unsupported", "unknown", "defdata"
          LiteralKind     \* literal -> "valid", "malformed", "unsupported"

(***************************************************************************)
(* DL clauses (model/clause.rs, model/concept.rs, model/datarange.rs): a   *)
(* clause is a set of body atoms and a set of head atoms, an atom a        *)
(* predicate with a tuple of terms.  What a clause means is told by        *)
(* Holds, for an interpretation e that reads every property name, the      *)
(* built-in ones included, as an ordinary relation, and that also          *)
(* interprets the internal predicates: nominal (by individual) and named.  *)
(* Node identifiers are the elements of the domain themselves.             *)
(***************************************************************************)
X == <<"X">>
YVar(i) == <<"Y", i>>
ZVar(i) == <<"Z", i>>
IsVariable(t) == t[1] \notin {"ind", "lit"}
Variables(atoms) == UNION {{t \in ToSet(a[2]) : IsVariable(t)} : a \in atoms}
Clause(head, body) == [head |-> head, body |-> body]

Equality(s, t) == <<<<"eq">>, <<s, t>>>>
Inequality(s, t) == <<<<"neq">>, <<s, t>>>>
ConceptAtom(c, t) == <<c, <<t>>>>
NominalAtom(i, t) == <<<<"nominal", i>>, <<t>>>>
NamedAtom(t) == <<<<"named">>, <<t>>>>
RangeAtom(r, t) == <<<<"range", r>>, <<t>>>>
\* The arguments are swapped for an inverse property, never the role inverted:
\* the inverse of a built-in property is that property itself.
GetRoleAtomObject(r, s, t) == <<<<"role", r[1]>>, IF r[2] THEN <<t, s>> ELSE <<s, t>>>>
GetRoleAtomData(u, s, t) == <<<<"data", u>>, <<s, t>>>>

(***************************************************************************)
(* Literal concepts and literal data ranges.  A data range is literal (the *)
(* top range), internal (a defined datatype), a restriction of a datatype, *)
(* an enumeration, or the negation of one of these.                        *)
(***************************************************************************)
GetLiteralConcept(c) ==
  CASE c = Not(Thing) -> Nothing
    [] c = Not(Nothing) -> Thing
    [] OTHER -> c
LiteralRange == <<"literal">>
GetNegation(r) == IF r[1] = "dnot" THEN r[2] ELSE <<"dnot", r>>
IsAlwaysFalse(r) == r = <<"done", {}>> \/ r = <<"dnot", LiteralRange>>
IsNegatedInternalDatatype(r) == r[1] = "dnot" /\ r[2][1] \in {"literal", "internal"}

GetSafeVersion(clause, safeMaking) ==
  LET unsafe == (Variables(clause.head) \ Variables(clause.body))
                \cup (IF clause.head = {} /\ clause.body = {} THEN {X} ELSE {})
  IN [clause EXCEPT !.body = @ \cup {<<safeMaking, <<v>>>> : v \in unsafe}]

(***************************************************************************)
(* What clauses mean.                                                      *)
(***************************************************************************)
RECURSIVE RangeOf(_, _)
RangeOf(e, r) ==
  CASE r[1] = "literal" -> Values
    [] r[1] \in {"internal", "restriction"} -> e.dt[r[2]]
    [] r[1] = "done" -> {e.lit[l] : l \in r[2]}
    [] r[1] = "dnot" -> Values \ RangeOf(e, r[2])

RoleOf(e, r) == IF r[2] THEN {<<p[2], p[1]>> : p \in e.op[r[1]]} ELSE e.op[r[1]]
Value(e, s, t) == CASE t[1] = "ind" -> e.ind[t[2]]
                    [] t[1] = "lit" -> e.lit[t[2]]
                    [] OTHER -> s[t]

\* NodeIDsAscendingOrEqual, as the clause evaluator tests it.
AscendingOrEqual(q) == \/ \A i \in 1..(Len(q) - 1) : q[i] < q[i + 1]
                       \/ \A i \in 1..(Len(q) - 1) : q[i] = q[i + 1]

Holds(e, s, atom) ==
  LET p == atom[1]
      v == [i \in DOMAIN atom[2] |-> Value(e, s, atom[2][i])]
  IN CASE p[1] \in {"thing", "nothing", "class"} -> v[1] \in Ext(e, p)
       [] p[1] = "nominal" -> v[1] \in e.nominal[p[2]]
       [] p[1] = "named" -> v[1] \in e.named
       [] p[1] = "role" -> v \in e.op[p[2]]
       [] p[1] = "data" -> v \in e.dp[p[2]]
       [] p[1] = "range" -> v[1] \in RangeOf(e, p[2])
       [] p[1] \in {"eq", "annotated"} -> v[1] = v[2]
       [] p[1] = "neq" -> v[1] # v[2]
       [] p[1] = "lessEqual" -> v[1] =< v[2]
       [] p[1] = "ascending" -> AscendingOrEqual(v)
       [] p[1] = "atLeast" -> Cardinality(Successors(RoleOf(e, p[3]), v[1]) \cap Ext(e, p[4])) >= p[2]
       [] p[1] = "atLeastData" -> Cardinality(Successors(e.dp[p[3]], v[1]) \cap RangeOf(e, p[4])) >= p[2]

DataVariables(atoms) ==
  {a[2][2] : a \in {b \in atoms : b[1][1] = "data"}} \cup {a[2][1] : a \in {b \in atoms : b[1][1] = "range"}}

ClauseHolds(e, clause) ==
  LET atoms == clause.head \cup clause.body
      data == DataVariables(atoms) \cap Variables(atoms)
  IN \A o \in [Variables(atoms) \ data -> Domain], d \in [data -> Values] :
       (\A a \in clause.body : Holds(e, o @@ d, a)) => \E a \in clause.head : Holds(e, o @@ d, a)

(***************************************************************************)
(* DataRangeConverter: it converts on, and remembers the first refusal of  *)
(* each sort.  ignore is ignore_unsupported_datatypes, defined the         *)
(* datatypes some DatatypeDefinition defines.                              *)
(***************************************************************************)
NewConverter(ignore, defined) ==
  [ignore |-> ignore, defined |-> defined, datatype |-> {}, facet |-> {}, literal |-> {}, resource |-> {},
   unknown |-> {}, panic |-> FALSE]
Record(first, x) == IF first = {} THEN {x} ELSE first
Refused(v) == v.datatype # {} \/ v.facet # {} \/ v.literal # {} \/ v.resource # {}

\* build_validated_constant: whether a literal is refused, and its constant.
LiteralRefused(v, l) == \/ LiteralKind[l] = "malformed"
                        \/ LiteralKind[l] = "unsupported" /\ ~v.ignore
ConvertLiteralRecording(v, l) == IF LiteralRefused(v, l) THEN [v EXCEPT !.literal = Record(@, l)] ELSE v

\* validate_datatype, of a datatype without facets.
ValidateDatatype(v, d) ==
  CASE DatatypeKind[d] = "unknown" -> [v EXCEPT !.unknown = @ \cup {d}]
    [] DatatypeKind[d] = "unsupported" ->
         IF v.ignore THEN [v EXCEPT !.unknown = @ \cup {d}] ELSE [v EXCEPT !.datatype = Record(@, d)]
    [] OTHER -> v

\* One facet of a restriction of d: its name is unsupported for d, its value
\* bad, its pattern too large, or it is fine.
CheckFacet(v, d, facet) ==
  LET supported == DatatypeKind[d] = "supported"
      named == IF supported /\ facet[1] = "unsupported" THEN [v EXCEPT !.facet = Record(@, facet)] ELSE v
      judged == CASE named.facet # {} \/ ~supported -> named
                  [] facet[1] = "badValue" -> [named EXCEPT !.facet = {facet}]
                  [] facet[1] = "huge" -> [named EXCEPT !.resource = Record(@, facet)]
                  [] OTHER -> named
  IN ConvertLiteralRecording(judged, facet[2])

\* A restriction of rdfs:Literal is that range without facets, a panic with one;
\* of a datatype outside the map it is refused whatever ignore says.
ConvertRestriction(v, r) ==
  LET checked == FoldLeft(LAMBDA w, f : CheckFacet(w, r[2], f), v, r[3])
  IN CASE DatatypeKind[r[2]] = "literal" ->
            [v |-> [v EXCEPT !.panic = @ \/ r[3] # <<>>], range |-> LiteralRange]
       [] DatatypeKind[r[2]] \in {"unsupported", "defdata"} ->
            [v |-> [checked EXCEPT !.datatype = Record(@, r[2])], range |-> r]
       [] OTHER -> [v |-> checked, range |-> r]

RECURSIVE ConvertDataRange(_, _)
ConvertDataRange(v, r) ==
  CASE r[1] = "literal" -> [v |-> v, range |-> r]
    [] r[1] = "datatype" ->
         IF DatatypeKind[r[2]] = "defdata" \/ r[2] \in v.defined THEN [v |-> v, range |-> <<"internal", r[2]>>]
         ELSE [v |-> ValidateDatatype(v, r[2]), range |-> <<"restriction", r[2], <<>>>>]
    [] r[1] = "dnot" -> LET inner == ConvertDataRange(v, r[2])
                        IN [v |-> inner.v, range |-> GetNegation(inner.range)]
    [] r[1] = "done" -> [v |-> FoldSet(LAMBDA l, w : ConvertLiteralRecording(w, l), v, r[2]), range |-> r]
    [] r[1] = "restriction" -> ConvertRestriction(v, r)

(***************************************************************************)
(* AxiomClausifier::clausify, one disjunct of an inclusion at a time.      *)
(***************************************************************************)
NewClausifier(conv) == [head |-> {}, body |-> {}, y |-> 0, z |-> 0, facts |-> {}, conv |-> conv]
AddHead(c, atoms) == [c EXCEPT !.head = @ \cup atoms]
AddBody(c, atoms) == [c EXCEPT !.body = @ \cup atoms]

\* get_concept_for_nominal asserts the individual into its nominal concept.
NoteNominals(c, inds) == [c EXCEPT !.facts = @ \cup {NominalAtom(i, <<"ind", i>>) : i \in inds}]

\* A variable Z per individual, bound by its nominal concept.
NominalVariables(c, inds) == {ZVar(c.z + i - 1) : i \in 1..Cardinality(inds)}
WithNominals(c, inds) ==
  LET q == SetToSeq(inds)
  IN NoteNominals(AddBody([c EXCEPT !.z = @ + Len(q)], {NominalAtom(q[i], ZVar(c.z + i - 1)) : i \in DOMAIN q}), inds)
\* The head says that v is one of the individuals.
IsOneOf(c, inds, v) == AddHead(WithNominals(c, inds), {Equality(v, z) : z \in NominalVariables(c, inds)})

ClausifyComplement(c, d) ==
  CASE d[1] = "self" -> AddBody(c, {GetRoleAtomObject(d[2], X, X)})
    [] d[1] = "oneof" -> NoteNominals(AddBody(c, {NominalAtom(i, X) : i \in d[2]}), d[2])
    [] OTHER -> AddBody(c, {ConceptAtom(d, X)})

AtLeastConcept(c, n, r, filler) ==
  IF GetLiteralConcept(filler) = Nothing THEN c
  ELSE AddHead(c, {<<<<"atLeast", n, r, GetLiteralConcept(filler)>>, <<X>>>>})

\* Every universal restriction of an inclusion quantified by the same variable.
AllValuesSharingY(c, r, filler) ==
  LET s == AddBody(c, {GetRoleAtomObject(r, X, YVar(0))})
  IN CASE filler = Nothing \/ filler = Not(Thing) -> s
       [] filler[1] = "oneof" -> IsOneOf(s, filler[2], YVar(0))
       [] filler[1] = "not" /\ filler[2][1] = "oneof" ->
            NoteNominals(AddBody(s, {NominalAtom(i, YVar(0)) : i \in filler[2][2]}), filler[2][2])
       [] filler[1] = "not" -> AddBody(s, {ConceptAtom(filler[2], YVar(0))})
       [] OTHER -> AddHead(s, {ConceptAtom(filler, YVar(0))})

AllValues(c, r, filler) ==
  LET y == YVar(c.y)
      s == AddBody([c EXCEPT !.y = @ + 1], {GetRoleAtomObject(r, X, y)})
  IN CASE filler = Nothing \/ filler = Not(Thing) -> s
       [] filler[1] = "oneof" -> IsOneOf(s, filler[2], y)
       [] filler[1] = "not" /\ filler[2][1] = "oneof" ->
            NoteNominals(AddBody(s, {NominalAtom(i, y) : i \in filler[2][2]}), filler[2][2])
       [] filler[1] = "not" -> AddBody(s, {ConceptAtom(filler[2], y)})
       [] OTHER -> AddHead(s, {ConceptAtom(filler, y)})

\* The variables of an at-most restriction, numbered from 1 at least.
FirstY(c) == IF c.y = 0 THEN 1 ELSE c.y
YVars(c, n) == [i \in 1..(n + 1) |-> YVar(FirstY(c) + i - 1)]

MaxCardinality(c, n, r, filler) ==
  LET ys == YVars(c, n)
      each == ToSet(ys)
      linked == AddBody([c EXCEPT !.y = FirstY(c) + n + 1], {GetRoleAtomObject(r, X, y) : y \in each})
      filled == CASE filler = Thing \/ filler = Not(Nothing) -> linked
                  [] filler[1] = "not" -> AddHead(linked, {ConceptAtom(filler[2], y) : y \in each})
                  [] OTHER -> AddBody(linked, {ConceptAtom(filler, y) : y \in each})
      ordered == IF n < 2 THEN filled
                 ELSE AddBody(filled, {<<<<"lessEqual">>, <<ys[i], ys[i + 1]>>>> : i \in 1..n}
                                      \cup {<<<<"ascending">>, ys>>})
  IN AddHead(ordered, {<<<<"annotated", n, r, GetLiteralConcept(filler)>>, <<p[1], p[2], X>>>> : p \in Pairs(ys)})

AtLeastDataRange(c, n, u, r) ==
  IF u = "bottomData" /\ n > 0 THEN c
  ELSE LET k == ConvertDataRange(c.conv, r)
           s == [c EXCEPT !.conv = k.v]
       IN IF IsAlwaysFalse(k.range) THEN s ELSE AddHead(s, {<<<<"atLeastData", n, u, k.range>>, <<X>>>>})

\* The values ys lie in range, said in the head, or in the body for the
\* complement of an internal datatype.
InRange(c, range, ys) ==
  CASE IsNegatedInternalDatatype(range) ->
         IF range[2] = LiteralRange THEN c ELSE AddBody(c, {RangeAtom(range[2], y) : y \in ys})
    [] IsAlwaysFalse(range) -> c
    [] OTHER -> AddHead(c, {RangeAtom(range, y) : y \in ys})

DataAllValues(c, u, r) ==
  LET k == ConvertDataRange(c.conv, r)
      s == [c EXCEPT !.conv = k.v]
      y == YVar(c.y)
  IN IF u = "topData" /\ IsAlwaysFalse(k.range) THEN s
     ELSE InRange(AddBody([s EXCEPT !.y = @ + 1], {GetRoleAtomData(u, X, y)}), k.range, {y})

DataMaxCardinality(c, n, u, r) ==
  LET k == ConvertDataRange(c.conv, r)
      ys == YVars(c, n)
      linked == AddBody([c EXCEPT !.conv = k.v, !.y = FirstY(c) + n + 1],
                        {GetRoleAtomData(u, X, y) : y \in ToSet(ys)})
  IN AddHead(InRange(linked, GetNegation(k.range), ToSet(ys)), {Equality(p[1], p[2]) : p \in Pairs(ys)})

ClausifyDisjunct(c, d) ==
  CASE d[1] \in {"thing", "nothing", "class"} -> AddHead(c, {ConceptAtom(d, X)})
    [] d[1] = "not" -> ClausifyComplement(c, d[2])
    [] d[1] = "oneof" -> IsOneOf(c, d[2], X)
    [] d[1] = "some" ->
         IF d[3][1] = "oneof"
         THEN AddHead(WithNominals(c, d[3][2]),
                      {GetRoleAtomObject(d[2], X, z) : z \in NominalVariables(c, d[3][2])})
         ELSE AtLeastConcept(c, 1, d[2], d[3])
    [] d[1] = "all" -> AllValues(c, d[2], d[3])
    [] d[1] = "self" -> AddHead(c, {GetRoleAtomObject(d[2], X, X)})
    [] d[1] = "min" -> AtLeastConcept(c, d[2], d[3], d[4])
    [] d[1] = "max" -> MaxCardinality(c, d[2], d[3], d[4])
    [] d[1] = "dsome" -> AtLeastDataRange(c, 1, d[2], d[3])
    [] d[1] = "dall" -> DataAllValues(c, d[2], d[3])
    [] d[1] = "dmin" -> AtLeastDataRange(c, d[2], d[3], d[4])
    [] d[1] = "dmax" -> DataMaxCardinality(c, d[2], d[3], d[4])

\* The clausifier after a whole inclusion, a sequence of disjuncts.
ClausifyInclusion(conv, inclusion) == FoldLeft(ClausifyDisjunct, NewClausifier(conv), inclusion)

(***************************************************************************)
(* DataRangeClausifier::clausify.                                          *)
(***************************************************************************)
ClausifyRangeDisjunct(c, r) ==
  LET k == ConvertDataRange(c.conv, r)
      s == [c EXCEPT !.conv = k.v]
  IN CASE r[1] # "dnot" -> AddHead(s, {RangeAtom(k.range, X)})
       [] r[2][1] = "datatype" /\ (DatatypeKind[r[2][2]] \in {"unknown", "defdata"} \/ r[2][2] \in c.conv.defined) ->
            AddBody(c, {RangeAtom(<<"internal", r[2][2]>>, X)})
       [] OTHER -> InRange(s, k.range, {X})

ClausifyRangeInclusion(conv, inclusion) == FoldLeft(ClausifyRangeDisjunct, NewClausifier(conv), inclusion)
=============================================================================
