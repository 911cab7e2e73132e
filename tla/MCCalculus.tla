---------------------------- MODULE MCCalculus ------------------------------
(* Small instances of Calculus: every choice of a few clauses from a pool,  *)
(* and one larger ontology.                                                 *)
EXTENDS Calculus, FiniteSets, TLC

CONSTANTS A, B, C, D, E, F, G, ClausesPerOntology

MCAtoms == {A, B, C, D, E, F, G}
MCNegatable == {A, B, C, D, E}

Cl(body, head) == [body |-> body, head |-> head]

\* A is given; the disjunctions branch on B .. F; {B} after {D} makes a clash
\* skip a level; the last clause has a disjunction with two equal disjuncts.
Pool == {Cl({A}, <<B, C>>), Cl({A}, <<D, E>>), Cl({B}, <<E, F>>),
         Cl({A}, <<C, D, B>>), Cl({C}, <<E>>), Cl({F}, <<>>), Cl({B, E}, <<>>),
         Cl({C, D}, <<>>), Cl({A, E}, <<>>), Cl({A}, <<F, F>>)}

ABoxes == {<<Pos(A)>>, <<Pos(A), Neg(D)>>, <<Pos(E), Neg(E), Neg(D)>>}

\* With B chosen, D is given up, and F, chosen later, derives D again: the clash
\* of D with its negation rests on both choices.
Rederived == {Cl({A}, <<B, C>>), Cl({A}, <<D, E>>), Cl({B, D}, <<>>),
              Cl({A}, <<F, G>>), Cl({F}, <<D>>), Cl({G}, <<>>)}

MCOntologies ==
    [clauses : {s \in SUBSET Pool : Cardinality(s) <= ClausesPerOntology}, facts : ABoxes]
        \cup {[clauses |-> Rederived, facts |-> <<Pos(A)>>]}
=============================================================================
