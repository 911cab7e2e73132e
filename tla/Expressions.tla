---------------------------- MODULE Expressions ----------------------------
(***************************************************************************)
(* The expression manager (structural/expression_manager.rs): negation     *)
(* normal form, the negation normal form of a complement, and structural   *)
(* simplification of class expressions and data ranges.                    *)
(*                                                                         *)
(* An n-ary expression holds the set of its operands: the code sorts the   *)
(* operand list and drops duplicates (canonical).  Each of the six         *)
(* rewritings is one recursive operator.                                   *)
(***************************************************************************)
EXTENDS Semantics

Literal == <<"literal">>
DNot(r) == <<"dnot", r>>
DOr(rs) == <<"dor", rs>>
DAnd(rs) == <<"dand", rs>>

AtomicRanges == {"literal", "datatype", "done"}
BooleanRanges == {"dand", "dor"}
Quantifiers == {"some", "all"}
Cardinalities == {"min", "max", "exact"}
DataQuantifiers == {"dsome", "dall"}
DataCardinalities == {"dmin", "dmax", "dexact"}

(***************************************************************************)
(* Negation normal form.                                                   *)
(***************************************************************************)
RECURSIVE GetNnfData(_), GetComplementNnfData(_)
GetNnfData(r) ==
  CASE r[1] \in AtomicRanges -> r
    [] r[1] = "dnot" -> GetComplementNnfData(r[2])
    [] r[1] \in BooleanRanges -> <<r[1], {GetNnfData(s) : s \in r[2]}>>

GetComplementNnfData(r) ==
  CASE r[1] \in AtomicRanges -> DNot(r)
    [] r[1] = "dnot" -> GetNnfData(r[2])
    [] r[1] = "dand" -> DOr({GetComplementNnfData(s) : s \in r[2]})
    [] r[1] = "dor" -> DAnd({GetComplementNnfData(s) : s \in r[2]})

RECURSIVE GetNnf(_), GetComplementNnf(_)
GetNnf(c) ==
  CASE c[1] \in {"thing", "nothing", "class", "oneof", "has", "self", "dhas"} -> c
    [] c[1] \in {"and", "or"} -> <<c[1], {GetNnf(d) : d \in c[2]}>>
    [] c[1] = "not" -> GetComplementNnf(c[2])
    [] c[1] \in Quantifiers -> <<c[1], c[2], GetNnf(c[3])>>
    [] c[1] \in Cardinalities -> <<c[1], c[2], c[3], GetNnf(c[4])>>
    [] c[1] \in DataQuantifiers -> <<c[1], c[2], GetNnfData(c[3])>>
    [] c[1] \in DataCardinalities -> <<c[1], c[2], c[3], GetNnfData(c[4])>>

(***************************************************************************)
(* The complement of a cardinality restriction whose filler is rewritten   *)
(* already; atMost and atLeast build the restrictions of its sort.         *)
(***************************************************************************)
ComplementMin(n, atMost) == IF n = 0 THEN Nothing ELSE atMost[n - 1]
ComplementExact(n, atMost, atLeast) ==
  IF n = 0 THEN atLeast[1] ELSE Or({atMost[n - 1], atLeast[n + 1]})

ComplementCardinality(kind, n, property, filler, min, max) ==
  LET atMost == [k \in 0..n |-> <<max, k, property, filler>>]
      atLeast == [k \in 1..(n + 1) |-> <<min, k, property, filler>>]
  IN CASE kind = min -> ComplementMin(n, atMost)
       [] kind = max -> atLeast[n + 1]
       [] OTHER -> ComplementExact(n, atMost, atLeast)

GetComplementNnf(c) ==
  CASE c[1] = "thing" -> Nothing
    [] c[1] = "nothing" -> Thing
    [] c[1] \in {"class", "oneof", "has", "self", "dhas"} -> Not(c)
    [] c[1] = "and" -> Or({GetComplementNnf(d) : d \in c[2]})
    [] c[1] = "or" -> And({GetComplementNnf(d) : d \in c[2]})
    [] c[1] = "not" -> GetNnf(c[2])
    [] c[1] = "some" -> All(c[2], GetComplementNnf(c[3]))
    [] c[1] = "all" -> Some(c[2], GetComplementNnf(c[3]))
    [] c[1] \in Cardinalities ->
         ComplementCardinality(c[1], c[2], c[3], GetNnf(c[4]), "min", "max")
    [] c[1] = "dsome" -> <<"dall", c[2], GetComplementNnfData(c[3])>>
    [] c[1] = "dall" -> <<"dsome", c[2], GetComplementNnfData(c[3])>>
    [] c[1] \in DataCardinalities ->
         ComplementCardinality(c[1], c[2], c[3], GetNnfData(c[4]), "dmin", "dmax")

(***************************************************************************)
(* Simplification.  A conjunction keeps the conjuncts other than           *)
(* owl:Thing, takes in the operands of a conjunct that is a conjunction,   *)
(* and is owl:Nothing when a conjunct is; a disjunction dually.            *)
(***************************************************************************)
Flattened(kind, operands) == UNION {IF d[1] = kind THEN d[2] ELSE {d} : d \in operands}
Nary(kind, operands, unit, zero) ==
  IF zero \in operands THEN zero ELSE <<kind, Flattened(kind, operands \ {unit})>>

SimplifiedDataComplement(r) == IF r[1] = "dnot" THEN r[2] ELSE DNot(r)
SimplifiedDataUnion(operands) == IF Literal \in operands THEN Literal ELSE DOr(Flattened("dor", operands))

RECURSIVE GetSimplifiedData(_)
GetSimplifiedData(r) ==
  CASE r[1] \in AtomicRanges -> r
    [] r[1] = "dnot" -> SimplifiedDataComplement(GetSimplifiedData(r[2]))
    [] r[1] = "dand" -> DAnd(Flattened("dand", {GetSimplifiedData(s) : s \in r[2]} \ {Literal}))
    [] r[1] = "dor" -> SimplifiedDataUnion({GetSimplifiedData(s) : s \in r[2]})

BottomDataRange == DNot(Literal)

SimplifiedComplement(d) ==
  CASE d = Thing -> Nothing [] d = Nothing -> Thing [] d[1] = "not" -> d[2] [] OTHER -> Not(d)

(***************************************************************************)
(* The simplified cardinality restriction on a simplified filler; bottom   *)
(* is the empty filler of its sort, object or data, and names gives the    *)
(* constructors.                                                           *)
(***************************************************************************)
ObjectSort == [min |-> "min", max |-> "max", some |-> "some", all |-> "all", not |-> "not"]
DataSort == [min |-> "dmin", max |-> "dmax", some |-> "dsome", all |-> "dall", not |-> "dnot"]

SimplifiedCardinality(kind, n, property, filler, bottom, names) ==
  LET none == <<names.all, property, <<names.not, filler>>>>
      empty == filler = bottom
  IN CASE kind = names.min /\ n = 0 -> Thing
       [] kind = names.min /\ n > 0 /\ empty -> Nothing
       [] kind = names.min /\ n = 1 /\ ~empty -> <<names.some, property, filler>>
       [] kind = names.min /\ n > 1 /\ ~empty -> <<names.min, n, property, filler>>
       [] kind = names.max /\ empty -> Thing
       [] kind = names.max /\ ~empty /\ n = 0 -> none
       [] kind = names.max /\ ~empty /\ n > 0 -> <<names.max, n, property, filler>>
       [] kind \notin {names.min, names.max} /\ n = 0 -> none
       [] kind \notin {names.min, names.max} /\ n > 0 /\ empty -> Nothing
       [] OTHER -> And({<<names.min, n, property, filler>>, <<names.max, n, property, filler>>})

RECURSIVE GetSimplified(_)

\* The quantified and the value restrictions; a trivial filler decides.
Restricted(kind, property, filler, trivial, decided) ==
  IF filler = trivial THEN decided ELSE <<kind, property, filler>>
SimplifiedQuantifier(c) ==
  CASE c[1] = "some" -> Restricted("some", c[2], GetSimplified(c[3]), Nothing, Nothing)
    [] c[1] = "all" -> Restricted("all", c[2], GetSimplified(c[3]), Thing, Thing)
    [] c[1] = "has" -> Some(c[2], <<"oneof", {c[3]}>>)
    [] c[1] = "dsome" -> Restricted("dsome", c[2], GetSimplifiedData(c[3]), BottomDataRange, Nothing)
    [] c[1] = "dall" -> Restricted("dall", c[2], GetSimplifiedData(c[3]), Literal, Thing)
    [] c[1] = "dhas" -> <<"dsome", c[2], <<"done", {c[3]}>>>>

GetSimplified(c) ==
  CASE c[1] \in {"thing", "nothing", "class", "oneof", "self"} -> c
    [] c[1] = "and" -> Nary("and", {GetSimplified(d) : d \in c[2]}, Thing, Nothing)
    [] c[1] = "or" -> Nary("or", {GetSimplified(d) : d \in c[2]}, Nothing, Thing)
    [] c[1] = "not" -> SimplifiedComplement(GetSimplified(c[2]))
    [] c[1] \in Quantifiers \cup DataQuantifiers \cup {"has", "dhas"} -> SimplifiedQuantifier(c)
    [] c[1] \in Cardinalities ->
         SimplifiedCardinality(c[1], c[2], c[3], GetSimplified(c[4]), Nothing, ObjectSort)
    [] c[1] \in DataCardinalities ->
         SimplifiedCardinality(c[1], c[2], c[3], GetSimplifiedData(c[4]), BottomDataRange, DataSort)

(***************************************************************************)
(* The forms every axiom is put in (OWLNormalization::positive, negative,  *)
(* positive_dr, negative_dr).                                              *)
(***************************************************************************)
Positive(c) == GetNnf(GetSimplified(c))
Negative(c) == GetComplementNnf(GetSimplified(c))
PositiveDr(r) == GetNnfData(GetSimplifiedData(r))
NegativeDr(r) == GetComplementNnfData(GetSimplifiedData(r))
=============================================================================
