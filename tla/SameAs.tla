------------------------------- MODULE SameAs -------------------------------
(***************************************************************************)
(* Same-as equivalence classes of named individuals: seeded from the node  *)
(* merges of the saturated model, a definite merge at once and any other   *)
(* as a possible pair, and resolved by queries with an entailment test.    *)
(***************************************************************************)
EXTENDS Integers, FiniteSets, FiniteSetsExt

CONSTANTS
    Individuals, \* named individuals
    Internal     \* individuals with an internal name, and other nodes

VARIABLES
    same,     \* entailed equality, as the class of each individual
    merged,   \* get_merged_into of a node, itself when active
    definite, \* individuals merged with an empty dependency set
    classes,  \* individual_to_equivalence_class
    pairs,    \* possible_equivalence_pairs
    run,      \* the running query: the individual and its class so far
    answer    \* what each individual's last query returned, {} before one

vars == <<same, merged, definite, classes, pairs, run, answer>>

-----------------------------------------------------------------------------
(* The entailed classes and the merges of a model that satisfies them.     *)

Owners == Individuals \cup Internal

\* the end of a merge chain
Canonical(m, i) == m[m[m[i]]]

Classes ==
    {[i \in Individuals |-> {j \in Individuals : f[j] = f[i]}] :
        f \in [Individuals -> Individuals]}

Forests ==
    {m \in [Owners -> Owners] :
        \A i \in Owners : m[Canonical(m, i)] = Canonical(m, i)}

\* the model satisfies the entailed equalities
ModelMerges(eq) ==
    {m \in Forests :
        \A i \in Individuals, j \in Individuals :
            j \in eq[i] => Canonical(m, i) = Canonical(m, j)}

\* the merge pairs, one for an individual whose node was merged into the node
\* of another named one, none for a merge into any other node;
\* nodes_for_individuals is a hash map, so their order and that of
\* possible_equivalence_pairs is any
SameAsPairs ==
    {<<i, merged[i]>> : i \in {x \in Individuals : merged[x] \in Individuals \ {x}}}

UnionSameAs(c, p) ==
    LET u == c[p[1]] \cup c[p[2]] IN [i \in DOMAIN c |-> IF i \in u THEN u ELSE c[i]]

\* seed_same_as: definite pairs first, so that possible ones are recorded
\* against the final definite classes
SeededClasses ==
    FoldSet(LAMBDA p, c : UnionSameAs(c, p), [i \in Individuals |-> {i}],
            {p \in SameAsPairs : p[1] \in definite})
SeededPairs(c) == {p \in SameAsPairs : p[1] \notin definite /\ p[2] \notin c[p[1]]}

Idle == [of |-> {}, class |-> {}]

Init ==
    /\ same \in Classes
    /\ merged \in ModelMerges(same)
    /\ definite \in SUBSET {i \in Individuals : merged[i] \in same[i] \ {i}}
    /\ classes = SeededClasses
    /\ pairs = SeededPairs(classes)
    /\ run = Idle
    /\ answer = [i \in Individuals |-> {}]

-----------------------------------------------------------------------------
(* get_same_as_individuals.                                                *)

StartQuery(i) ==
    /\ run = Idle
    /\ run' = [of |-> {i}, class |-> classes[i] \cup {i}]
    /\ UNCHANGED <<same, merged, definite, classes, pairs, answer>>

\* the possible pairs with exactly one end in the class, and their other ends
Touching(class) == {p \in pairs : Cardinality({p[1], p[2]} \cap class) = 1}
Candidates(class) == UNION {{p[1], p[2]} \ class : p \in Touching(class)}

\* a confirmed candidate joins with its whole recorded class
Confirm(class, c) == class \cup classes[c] \cup {c}

\* mutant: every possible pair of the candidate is dropped
DropAllOf(class, c) == {p \in pairs : c \notin {p[1], p[2]}}

DropRefuted(class, c) ==
    {p \in pairs : ~(c \in {p[1], p[2]} /\ {p[1], p[2]} \cap class # {})}

\* the test asks about any member of the class
TestCandidate ==
    /\ run # Idle /\ Touching(run.class) # {}
    /\ \E c \in Candidates(run.class), anchor \in run.class :
          IF c \in same[anchor]
          THEN run' = [run EXCEPT !.class = Confirm(@, c)] /\ UNCHANGED pairs
          ELSE pairs' = DropRefuted(run.class, c) /\ UNCHANGED run
    /\ UNCHANGED <<same, merged, definite, classes, answer>>

\* an error of the test ends the query: what it confirmed is lost, what it
\* refuted is not
QueryFails ==
    /\ run # Idle /\ Touching(run.class) # {}
    /\ run' = Idle
    /\ UNCHANGED <<same, merged, definite, classes, pairs, answer>>

RecordClass(class) == [i \in Individuals |-> IF i \in class THEN class ELSE classes[i]]

EndQuery ==
    /\ run # Idle /\ Touching(run.class) = {}
    /\ classes' = RecordClass(run.class)
    /\ answer' = [i \in Individuals |-> IF i \in run.of THEN run.class ELSE answer[i]]
    /\ run' = Idle
    /\ UNCHANGED <<same, merged, definite, pairs>>

Next ==
    \/ \E i \in Individuals : StartQuery(i)
    \/ TestCandidate
    \/ QueryFails
    \/ EndQuery

Spec == Init /\ [][Next]_vars /\ WF_vars(TestCandidate \/ EndQuery)

-----------------------------------------------------------------------------
(* Properties.                                                             *)

\* A recorded class, a class under construction and an answer hold only
\* individuals that are entailed to be the same, whichever member the test asked about.
SameAsSound ==
    /\ \A i \in Individuals : classes[i] \subseteq same[i]
    /\ \A i \in run.of : run.class \subseteq same[i]

\* the individuals equal to i are linked by merges among themselves
Linked(i) ==
    \A s \in SUBSET same[i] \ {{}, same[i]} :
        \E x \in s, y \in same[i] \ s : merged[x] = y \/ merged[y] = x

\* A query returns every individual entailed to be the same, provided the model
\* merged them into one another: only pairs read off the model are tested, and
\* refuted ones are dropped for good, so individuals merged by way of an unequal
\* one or of an internal node may be missed.
SameAsComplete ==
    \A i \in Individuals : answer[i] # {} /\ Linked(i) => answer[i] = same[i]

\* What possible_equivalence_pairs is documented to be enough for: "Individuals
\* never merged in the model are definitely distinct, so only these candidate
\* pairs are ever tested."  A finished query would then have found every
\* individual that is the same.
CandidatesSuffice ==
    \A i \in Individuals : answer[i] # {} => answer[i] = same[i]

=============================================================================
