---------------------------- MODULE Explanations ----------------------------
(***************************************************************************)
(* The black-box explanation service of reasoner.rs: justify_indices and   *)
(* explain shrink a set of axioms that entails the conclusion to a minimal *)
(* one, and all_explanations enumerates the minimal ones with Reiter's     *)
(* hitting set tree.  The entailment oracle (is_entailed_core) answers     *)
(* true on the sets that contain one of the Justifications, which are the  *)
(* input of the model; entailment is monotone.  The orders of hash sets    *)
(* are nondeterministic.                                                   *)
(***************************************************************************)
EXTENDS Naturals, Sequences, FiniteSets, SequencesExt

CONSTANTS
  Axioms,            \* the axioms of the ontology
  Families           \* the sets of justifications that are tried

ASSUME AxiomsAssumption == IsFiniteSet(Axioms)
ASSUME FamiliesAssumption == Families \subseteq SUBSET SUBSET Axioms

VARIABLES
  justifications,    \* the minimal sets of axioms that entail the conclusion
  worklist,          \* all_explanations: the stack of removed sets
  explored,          \* ... the removed sets taken from the stack before
  removed,           \* ... the removed set in hand
  support,           \* justify_indices: the axioms kept so far, a sequence
  index,             \* ... the position of the axiom tried next
  found,             \* all_explanations: the justifications found
  phase              \* "pop", "shrink" or "done"

vars == <<justifications, worklist, explored, removed, support, index, found, phase>>

IsEntailed(axioms) == \E j \in justifications : j \subseteq axioms

Antichain(family) == \A j, k \in family : j \subseteq k => j = k

Init ==
  /\ justifications \in {f \in Families : Antichain(f)}
  /\ worklist = <<{}>>
  /\ explored = {} /\ removed = {}
  /\ support = <<>> /\ index = 1
  /\ found = {}
  /\ phase = "pop"

(***************************************************************************)
(* The head of the worklist loop: a removed set seen before, and one that  *)
(* leaves nothing to entail the conclusion, is skipped; otherwise          *)
(* justify_indices starts on the available axioms.                         *)
(***************************************************************************)
Pop ==
  /\ phase = "pop"
  /\ worklist # <<>>
  /\ worklist' = Front(worklist)
  /\ removed' = Last(worklist)
  /\ explored' = explored \cup {Last(worklist)}
  /\ LET available == Axioms \ Last(worklist)
     IN IF Last(worklist) \in explored \/ ~IsEntailed(available)
        THEN UNCHANGED <<support, index, phase>>
        ELSE /\ support' \in SetToSeqs(available)
             /\ index' = 1
             /\ phase' = "shrink"
  /\ UNCHANGED <<justifications, found>>

(* One turn of the shrink loop: the axiom at index is dropped when the     *)
(* others still entail the conclusion, else index moves on.                *)
Shrink ==
  /\ phase = "shrink"
  /\ index =< Len(support)
  /\ LET reduced == RemoveAt(support, index)
     IN IF IsEntailed(ToSet(reduced))
        THEN support' = reduced /\ UNCHANGED index
        ELSE index' = index + 1 /\ UNCHANGED support
  /\ UNCHANGED <<justifications, worklist, explored, removed, found, phase>>

(* Mutant: only the first axiom of the justification is hit. *)
HitFirst(path, order) == IF order = <<>> THEN <<>> ELSE <<path \cup {order[1]}>>

(* The branches of the hitting set tree, pushed in the order of the justification. *)
Hit(path, order) == [i \in DOMAIN order |-> path \cup {order[i]}]

(* The justification is recorded once and hit by removing each axiom of it. *)
Record ==
  /\ phase = "shrink"
  /\ index > Len(support)
  /\ found' = found \cup {ToSet(support)}
  /\ worklist' = worklist \o Hit(removed, support)
  /\ phase' = "pop"
  /\ UNCHANGED <<justifications, explored, removed, support, index>>

Finish ==
  /\ phase = "pop"
  /\ worklist = <<>>
  /\ phase' = "done"
  /\ UNCHANGED <<justifications, worklist, explored, removed, support, index, found>>

Next == Pop \/ Shrink \/ Record \/ Finish

(* The search is one thread that runs until it returns. *)
Spec == Init /\ [][Next]_vars /\ WF_vars(Next)

-----------------------------------------------------------------------------
(* The loop invariant of the shrink method: what is kept entails the       *)
(* conclusion, and no axiom before index can be dropped from it.           *)
ShrinkInvariant ==
  phase = "shrink" =>
    /\ IsEntailed(ToSet(support))
    /\ \A i \in DOMAIN support : i < index => ~IsEntailed(ToSet(support) \ {support[i]})

(* all_explanations returns minimal justifications only, and when the      *)
(* hitting set tree is exhausted all of them, whatever justification the   *)
(* oracle happened to return on each path.                                 *)
JustificationsExact ==
  /\ found \subseteq justifications
  /\ phase = "done" => found = justifications
=============================================================================
