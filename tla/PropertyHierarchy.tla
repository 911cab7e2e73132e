-------------------------- MODULE PropertyHierarchy --------------------------
(***************************************************************************)
(* The classification of object and data properties (reasoner.rs): role    *)
(* subsumption is reduced to the subsumption of proxy concepts             *)
(* C_R = some R.M, with a fresh inhabited M (object properties) or         *)
(* C_P = some P.U with a fresh datatype U (data properties), which the     *)
(* deterministic branch of classify_atomic_concepts classifies one element *)
(* after another in a hash order, mirroring the subsumers of a role onto   *)
(* its inverse when the role was classified before.  The hierarchy is      *)
(* transformed back to properties and projected onto the named ones.       *)
(* (The other branch is the quasi-order of module Classification.)         *)
(***************************************************************************)
EXTENDS Semantics

CONSTANT Cases    \* records [kind, models, names, inverses, clauses, throw]

VARIABLES
  kase,           \* the ontology classified and the configuration
  subsumers,      \* classify_atomic_concepts: element -> its subsumers, so far
  hierarchy,      \* the relation of the expression hierarchy once built
  named,          \* the relation projected onto the named object properties
  phase           \* "classify", "built", "done" or "error"

vars == <<kase, subsumers, hierarchy, named, phase>>

Top == <<"top", FALSE>>
Bottom == <<"bottom", FALSE>>

(***************************************************************************)
(* The elements: the properties, their inverses when the ontology has      *)
(* inverse roles, and owl:Thing and owl:Nothing standing for top and       *)
(* bottom.  A proxy is written as the property it stands for.              *)
(***************************************************************************)
Elements(k) ==
  {<<p, FALSE>> : p \in k.names}
  \cup (IF k.kind = "object" /\ k.inverses THEN {<<p, TRUE>> : p \in k.names} ELSE {})
  \cup {Top, Bottom}

InverseProxy(e) == IF e[1] \in {"top", "bottom"} THEN e ELSE Inv(e)

(* The fresh M has an instance, the fresh datatype U need not have one. *)
Markers(k) == IF k.kind = "object" THEN (SUBSET Domain) \ {{}} ELSE SUBSET Values

ProxyExt(k, m, marker, e) ==
  CASE e = Top -> Domain
    [] e = Bottom -> {}
    [] OTHER -> {d \in Domain :
                   Successors(IF k.kind = "object" THEN RoleExt(m, e) ELSE DataExt(m, e[1]), d) \cap marker # {}}

(* concept_subsumers: what the single model of a deterministic ontology forces. *)
Unsatisfiable(k, e) == \A m \in k.models, x \in Markers(k) : ProxyExt(k, m, x, e) = {}
Forced(k, e) ==
  {f \in Elements(k) : \A m \in k.models, x \in Markers(k) : ProxyExt(k, m, x, e) \subseteq ProxyExt(k, m, x, f)}

ConceptSubsumers(k, e) == IF Unsatisfiable(k, e) THEN Elements(k) ELSE {Top, e} \cup Forced(k, e)

(***************************************************************************)
(* Told subsumers for the quasi-order: a clause head(x,y) :- body(x,y)     *)
(* with one atom each, <<body, head, swapped>>.                            *)
(***************************************************************************)
Told(k) ==
  {p \in {<<<<c[1], c[3]>>, <<c[2], FALSE>>>> : c \in k.clauses} : p[1] \in Elements(k) /\ p[2] \in Elements(k)}

-----------------------------------------------------------------------------
Init ==
  /\ kase \in Cases
  /\ subsumers = [e \in {} |-> {}]
  /\ hierarchy = {} /\ named = {}
  /\ phase = "classify"

(* An inconsistent ontology is an error, or the fully collapsed hierarchy when the flag is off. *)
Inconsistent ==
  /\ phase = "classify"
  /\ kase.models = {}
  /\ IF kase.throw
     THEN phase' = "error" /\ UNCHANGED hierarchy
     ELSE phase' = "built" /\ hierarchy' = Elements(kase) \X Elements(kase)
  /\ UNCHANGED <<kase, subsumers, named>>

(* Without properties to classify only top and bottom remain. *)
Trivial ==
  /\ phase = "classify"
  /\ kase.models # {} /\ kase.names = {}
  /\ hierarchy' = {<<Top, Top>>, <<Bottom, Bottom>>, <<Bottom, Top>>}
  /\ phase' = "built"
  /\ UNCHANGED <<kase, subsumers, named>>

(* An inverse role whose role was classified gets the inverses of its subsumers. *)
Mirrored(k, done, e) ==
  IF k.kind = "object" /\ k.inverses /\ InverseProxy(e) \in DOMAIN done
  THEN {{InverseProxy(s) : s \in done[InverseProxy(e)]}} ELSE {}

ClassifyElement(e) ==
  /\ phase = "classify"
  /\ kase.models # {} /\ kase.names # {}
  /\ e \in Elements(kase) \ DOMAIN subsumers
  /\ LET mirrored == Mirrored(kase, subsumers, e)
     IN subsumers' = (e :> (IF mirrored # {} THEN CHOOSE s \in mirrored : TRUE ELSE ConceptSubsumers(kase, e)))
                     @@ subsumers
  /\ UNCHANGED <<kase, hierarchy, named, phase>>

(* build_hierarchy and Hierarchy::transform: the relation the subsumers give. *)
BuildHierarchy ==
  /\ phase = "classify"
  /\ kase.models # {} /\ kase.names # {}
  /\ DOMAIN subsumers = Elements(kase)
  /\ hierarchy' = {<<e, f>> \in Elements(kase) \X Elements(kase) : f \in subsumers[e]}
  /\ phase' = "built"
  /\ UNCHANGED <<kase, subsumers, named>>

Named(k) == {e \in Elements(k) : ~e[2]}
SameNode(e, f) == {<<e, f>>, <<f, e>>} \subseteq hierarchy

(* classify_object_properties: the named properties among the ancestors' equivalents. *)
NamedSubsumers(k, e) ==
  {Top, e}
  \cup (IF e # Bottom THEN {f \in Named(k) : <<e, f>> \in hierarchy} ELSE {})
  \cup (IF SameNode(e, Bottom) THEN Named(k) ELSE {})

Project ==
  /\ phase = "built"
  /\ kase.kind = "object"
  /\ named' = {<<e, f>> \in Named(kase) \X Named(kase) : f \in NamedSubsumers(kase, e)}
  /\ phase' = "done"
  /\ UNCHANGED <<kase, subsumers, hierarchy>>

Next == Inconsistent \/ Trivial \/ BuildHierarchy \/ Project \/ \E e \in Elements(kase) : ClassifyElement(e)

Spec == Init /\ [][Next]_vars

-----------------------------------------------------------------------------
PropertyExt(m, e) ==
  IF kase.kind = "object" THEN RoleExt(m, e)
  ELSE CASE e = Top -> Domain \X Values [] e = Bottom -> {} [] OTHER -> DataExt(m, e[1])

Below(e, f) == \A m \in kase.models : PropertyExt(m, e) \subseteq PropertyExt(m, f)

(* The hierarchy of property expressions is exact: one property is below   *)
(* another exactly when it is contained in it in every model, whatever the *)
(* hash order and whichever of the subsumer sets were mirrored.            *)
ExpressionsExact ==
  phase \in {"built", "done"} =>
    \A e, f \in Elements(kase) : <<e, f>> \in hierarchy <=> Below(e, f)

(* The projection onto the named properties keeps exactly the inclusions   *)
(* between them: a property that is equivalent to top or bottom lands in   *)
(* their node.                                                             *)
NamedExact ==
  phase = "done" => \A e, f \in Named(kase) : <<e, f>> \in named <=> Below(e, f)

(* A subsumption the quasi-order is told from a clause holds.              *)
ToldSound == \A p \in Told(kase) : Below(p[1], p[2])
=============================================================================
