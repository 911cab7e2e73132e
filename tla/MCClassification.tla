-------------------------- MODULE MCClassification --------------------------
(* Ontologies over a few named concepts.                                     *)
EXTENDS Classification, TLC

CONSTANTS A, B, C

\* All ontologies with at most two labels over A and B (C, if it is named, is
\* unsatisfiable) and told subsumptions among those that hold, at most two; and
\* the one with all of Named equivalent.
Small ==
    LET labels == {t \cup {Top} : t \in SUBSET {A, B}}
        typeSets == {S \in SUBSET labels : Cardinality(S) \in 1 .. 2}
                       \cup {S \in SUBSET SUBSET {A, B} : {} \in S /\ Cardinality(S) <= 2}
        Pairs(types) ==
            {p \in (Elements \ {Bottom}) \X Named :
                p[1] # p[2] /\ p[2] \in TrueSubsumers([types |-> types, told |-> {}], p[1])}
    IN  {[types |-> {Named \cup {Top}}, told |-> {}]}
          \cup UNION {[types : {types}, told : {T \in SUBSET Pairs(types) : Cardinality(T) <= 2}]
                         : types \in typeSets}

\* Ontologies that between them take every path: equivalent concepts told and
\* found, a subsumption that fails in one model of several, an unsatisfiable leaf
\* with two parents, one below another unsatisfiable concept, and a concept that
\* is subsumed by a union and by none of its members.
Chosen ==
    {[types |-> {{A, B, C, Top}, {A, Top}}, told |-> {<<C, B>>}],
     [types |-> {{A, B, C, Top}, {A, C, Top}, {Top}}, told |-> {<<B, C>>}],
     [types |-> {{A, B, Top}, {B, Top}}, told |-> {<<C, A>>, <<C, B>>}],
     [types |-> {{A, Top}}, told |-> {<<C, B>>, <<B, A>>}],
     [types |-> {{}, {A, B}, {A, C}}, told |-> {}],
     [types |-> {{A, B, C, Top}}, told |-> {}]}
=============================================================================
