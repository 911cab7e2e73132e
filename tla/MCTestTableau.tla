--------------------------- MODULE MCTestTableau ----------------------------
(* Tests of a fresh node x against ABoxes with disjunctive facts.           *)
EXTENDS TestTableau, FiniteSets, TLC

CONSTANTS A, B, C, D, X, Y, Z, ClausesPerOntology

MCAtoms == {A, B, C, D, X, Y, Z}
MCFreshAtoms == {X, Y, Z}
MCNegatable == {A, B, X, Y, Z}

Cl(body, head) == [body |-> body, head |-> head]

\* A .. D are about named individuals, X .. Z about the fresh node; the clauses
\* with both are what nominals give rise to.
Pool == {Cl({A}, <<B, C>>), Cl({X, B}, <<>>), Cl({X, B}, <<Y>>), Cl({X}, <<Y, Z>>),
         Cl({Z, C}, <<>>), Cl({X}, <<Z>>), Cl({Y}, <<C, D>>), Cl({D}, <<>>)}

MCOntologies ==
    [clauses : {s \in SUBSET Pool : Cardinality(s) \in 2 .. ClausesPerOntology},
     facts : {<<Pos(A)>>, <<Pos(A), Neg(B)>>, <<Pos(A), Neg(A)>>}]

MCNominals == {o \in MCOntologies : Cl({A}, <<B, C>>) \in o.clauses}

MCTests == [positive : {X}, negatives : {<<>>, <<Y>>, <<Z, X>>}, dummy : BOOLEAN]
=============================================================================
