----------------------------- MODULE Incremental -----------------------------
(***************************************************************************)
(* IncrementalReasoner (reasoner.rs): an ontology with a buffer of pending *)
(* changes, the clausified ontology that is_consistent reasons from, and   *)
(* the caches filled since the last flush.  A flush of assertions only     *)
(* adds and removes facts in the clausified ontology                       *)
(* (structural/reduced_abox_clausification.rs); any other flush clausifies *)
(* the ontology again.                                                     *)
(*                                                                         *)
(* Axioms are abstract.  What the two clausifiers make of an axiom, which  *)
(* names it uses and which sets of axioms and of facts are contradictory   *)
(* are given by the instance.                                              *)
(***************************************************************************)
EXTENDS Naturals, FiniteSets, Sequences, SequencesExt

CONSTANTS
    Axioms,             \* the axioms a client may add and remove
    Kind,               \* per axiom: tbox, classAssertion, complexAssertion,
                        \*   assertion, declaration or annotation
    Names,              \* per axiom: the classes, properties and individuals in it
    Individuals,        \* the names that are individuals'
    ReducedFacts,       \* per axiom: the facts of ReducedABoxClausification
    FullFacts(_, _),    \* the facts of an axiom clausified with a TBox
    Nominals,           \* the TBox axioms that use nominals
    Unsupported,        \* the axioms with an unsupported datatype
    Refutations,        \* the minimal inconsistent sets of axioms
    Clashes,            \* the minimal contradictions: [clauses, facts]
    Ontologies,         \* the ontologies a reasoner may be built over
    BufferChanges, ThrowInconsistent, IgnoreUnsupported, \* the configuration
    PrepareInferences,  \* prepare_reasoner_inferences: {} or {the set of flags}
    Requests,           \* the sets of inferences clients precompute
    SameAsPolicy,       \* individual_node_set_policy = BySameAs
    MaxPending          \* bound: pending changes

VARIABLES
    ontology,     \* SetOntology: pairs of an axiom and whether it is annotated
    pending,      \* pending_changes
    consistent,   \* cached_consistent: at most one Boolean
    dl,           \* dl_ontology: at most one clausified ontology
    original,     \* original_dl_ontology
    incremental,  \* last_flush_was_incremental
    precomputed,  \* precomputed_inferences, with the ontology each was computed for
    index,        \* object_property_index: at most one [snapshot, consistent]
    answer        \* what the last query returned

incrementalVars ==
    <<ontology, pending, consistent, dl, original, incremental, precomputed, index, answer>>

NoAnswer == [query |-> "none", value |-> {}]
\* The empty value is an error.
Answer(query, value) == [query |-> query, value |-> value]

-----------------------------------------------------------------------------
(* Clausification.                                                         *)

AxiomsOf(o) == {c[1] : c \in o}
TBox(axioms) == {a \in axioms : Kind[a] = "tbox"}
NamesOf(axioms) == UNION {Names[a] : a \in axioms}

\* clausify_ontology with the given flag: nothing when it fails.
Clausify(o, ignoring) ==
    LET axioms == AxiomsOf(o)
    IN  IF axioms \cap Unsupported # {} /\ ~ignoring THEN {}
        ELSE {[clauses |-> TBox(axioms),
               facts |-> UNION {FullFacts(a, TBox(axioms)) : a \in axioms},
               names |-> NamesOf(axioms)]}

Consistent(d) ==
    ~\E c \in Clashes : c.clauses \subseteq d.clauses /\ c.facts \subseteq d.facts

\* is_ontology_consistent_with_configuration: "error" when it does not clausify.
OntologyConsistent(o, ignoring) ==
    IF Clausify(o, ignoring) = {} THEN {}
    ELSE {Consistent(d) : d \in Clausify(o, ignoring)}

\* is_defined_class and its siblings clausify under the default configuration.
Defined(name) == \E d \in Clausify(ontology, FALSE) : name \in d.names

\* can_process_pending_changes_incrementally_impl.
Incremental(change) ==
    CASE Kind[change.axiom] = "classAssertion" ->
           \A n \in Names[change.axiom] : Defined(n)
      [] Kind[change.axiom] = "declaration" ->
           \A n \in Names[change.axiom] : Defined(n)
      [] Kind[change.axiom] \in {"assertion", "annotation"} -> TRUE
      [] OTHER -> FALSE

CanProcessIncrementally(d) ==
    /\ \A x \in d : x.clauses \cap Nominals = {}
    /\ \A i \in DOMAIN pending : Incremental(pending[i])

\* ReducedABoxClausification::clausify of one axiom: nothing when it is rejected.
\* The vocabulary has classes and properties only: an individual may be fresh.
ReducedClausify(axiom, names) ==
    IF \/ Kind[axiom] = "complexAssertion"
       \/ ~(Names[axiom] \ Individuals \subseteq names) /\ Kind[axiom] \in {"classAssertion", "assertion"}
       \/ axiom \in Unsupported /\ ~IgnoreUnsupported
    THEN {}
    ELSE {ReducedFacts[axiom]}

\* A mutant: a removal is dropped.
MergeAdditions(facts, change) == facts \cup ReducedFacts[change.axiom]

MergeFacts(facts, change) ==
    IF change.op = "add" THEN facts \cup ReducedFacts[change.axiom]
    ELSE facts \ ReducedFacts[change.axiom]

\* try_incremental_flush with combined_dl_ontology.
TryIncrementalFlush(d) ==
    IF \E i \in DOMAIN pending : ReducedClausify(pending[i].axiom, d.names) = {} THEN {}
    ELSE {[d EXCEPT !.facts = FoldLeft(MergeFacts, @, pending)]}

-----------------------------------------------------------------------------
(* Changes.                                                                *)

\* apply_pending_to_ontology: axioms go in and out without annotations.
ApplyPending(o, changes) ==
    FoldLeft(LAMBDA acc, c : IF c.op = "add" THEN acc \cup {<<c.axiom, FALSE>>}
                             ELSE acc \ {<<c.axiom, FALSE>>}, o, changes)

IndexAfterFlush(fast) == {}

ConsistentAfterFlush(fast) == {}

\* flush: what it leaves, applied to the changes given.
FlushWith(changes) ==
    LET loaded == IF original = {} THEN Clausify(ontology, FALSE) ELSE original
        d == IF original = {} THEN loaded ELSE dl
        combined == IF d = {} \/ ~CanProcessIncrementally(d) THEN {}
                    ELSE UNION {TryIncrementalFlush(x) : x \in d}
        next == ApplyPending(ontology, changes)
        fast == combined # {}
    IN  /\ ontology' = next
        /\ pending' = <<>>
        /\ dl' = IF fast THEN combined ELSE Clausify(next, FALSE)
        /\ original' = IF fast THEN loaded ELSE Clausify(next, FALSE)
        /\ incremental' = {fast}
        /\ consistent' = ConsistentAfterFlush(fast)
        /\ precomputed' = {}
        /\ index' = IndexAfterFlush(fast)

\* apply_changes with one change: it waits in the buffer, or is flushed.
SubmitChange(op, axiom) ==
    /\ Len(pending) < MaxPending
    /\ pending' = Append(pending, [op |-> op, axiom |-> axiom])
    /\ answer' = NoAnswer
    /\ UNCHANGED <<ontology, consistent, dl, original, incremental, precomputed, index>>

\* flush_changes_if_required is the first step of every call: without
\* buffering no other action is possible while changes are pending.
MustFlush == ~BufferChanges /\ pending # <<>>

Flush ==
    /\ pending # <<>>
    /\ FlushWith(pending)
    /\ answer' = NoAnswer

-----------------------------------------------------------------------------
(* Queries.                                                                *)

\* The clausified ontology of a query that needs one.
Loaded == IF dl = {} THEN Clausify(ontology, FALSE) ELSE dl
EnsureLoaded ==
    IF dl = {} THEN /\ dl' = Loaded
                    /\ original' = IF Loaded = {} THEN original ELSE Loaded
    ELSE UNCHANGED <<dl, original>>

\* The value is_consistent finds: nothing when it returns an error.
ConsistencyValue ==
    IF consistent # {} THEN consistent
    ELSE IF Loaded = {} THEN OntologyConsistent(ontology, FALSE)
    ELSE {Consistent(d) : d \in Loaded}

IsConsistent ==
    /\ ~MustFlush
    /\ answer' = Answer("is_consistent", ConsistencyValue)
    /\ consistent' = ConsistencyValue
    /\ IF consistent # {} THEN UNCHANGED <<dl, original>> ELSE EnsureLoaded
    /\ UNCHANGED <<ontology, pending, incremental, precomputed, index>>

DlOntology ==
    /\ ~MustFlush
    /\ EnsureLoaded
    /\ answer' = NoAnswer
    /\ UNCHANGED <<ontology, pending, consistent, incremental, precomputed, index>>

\* ensure_object_property_index: the index it leaves, the consistency cache,
\* and whether it succeeded.
EnsuredIndex ==
    LET c == OntologyConsistent(ontology, IgnoreUnsupported)
        refused == consistent = {FALSE} /\ ThrowInconsistent
    IN  CASE refused -> [index |-> index, consistent |-> consistent, ok |-> FALSE]
          [] ~refused /\ index # {} ->
               [index |-> index, consistent |-> consistent, ok |-> TRUE]
          [] ~refused /\ index = {} /\ c = {} ->
               [index |-> index, consistent |-> consistent, ok |-> FALSE]
          [] ~refused /\ index = {} /\ c = {FALSE} /\ ThrowInconsistent ->
               [index |-> {}, consistent |-> c, ok |-> FALSE]
          [] OTHER ->
               [index |-> {[snapshot |-> ontology, consistent |-> v] : v \in c},
                consistent |-> c, ok |-> TRUE]

ObjectPropertyInstances ==
    /\ ~MustFlush
    /\ index' = EnsuredIndex.index
    /\ consistent' = EnsuredIndex.consistent
    /\ answer' = Answer("property_instances",
                        IF EnsuredIndex.ok THEN {i.snapshot : i \in EnsuredIndex.index}
                        ELSE {})
    /\ UNCHANGED <<ontology, pending, dl, original, incremental, precomputed>>

\* The other queries reason from the ontology itself: what they decide it to
\* be, under the precondition of the configuration.
Query ==
    LET c == OntologyConsistent(ontology, IgnoreUnsupported)
    IN  /\ ~MustFlush
        /\ answer' = Answer("query",
                            IF c = {} \/ (ThrowInconsistent /\ c = {FALSE})
                            THEN {} ELSE {ontology})
        /\ UNCHANGED <<ontology, pending, consistent, dl, original, incremental,
                       precomputed, index>>

Allowed(flag) == PrepareInferences = {} \/ \E flags \in PrepareInferences : flag \in flags

\* The tasks of precompute run under the default configuration: one of them
\* fails on an inconsistent ontology and on an unsupported datatype.
TasksFail(tasks) ==
    /\ tasks \ {"ObjectPropertyAssertions"} # {}
    /\ OntologyConsistent(ontology, FALSE) # {TRUE}

Recorded(tasks) ==
    tasks \cup (IF "ClassAssertions" \in tasks
                   /\ (SameAsPolicy \/ \E flags \in PrepareInferences : "SameIndividual" \in flags)
                THEN {"SameIndividual"} ELSE {})

\* precompute: the property index first, then the precondition, then the
\* tasks in order, each recorded when it is done.
Precompute(requested) ==
    LET tasks == {t \in requested : Allowed(t)}
        properties == "ObjectPropertyAssertions" \in tasks
        e == IF properties THEN EnsuredIndex
             ELSE [index |-> index, consistent |-> consistent, ok |-> TRUE]
        c == IF e.consistent # {} THEN e.consistent
             ELSE IF Loaded = {} THEN {} ELSE {Consistent(d) : d \in Loaded}
        refused == c = {} \/ (c = {FALSE} /\ ThrowInconsistent)
        done == IF TasksFail(tasks) THEN {} ELSE Recorded(tasks)
    IN  /\ ~MustFlush
        /\ index' = e.index
        /\ consistent' = IF e.ok THEN c ELSE e.consistent
        /\ IF e.ok /\ e.consistent = {} THEN EnsureLoaded ELSE UNCHANGED <<dl, original>>
        /\ precomputed' = IF ~e.ok \/ refused THEN precomputed
                          ELSE precomputed \cup {<<t, ontology>> : t \in done}
        /\ answer' = Answer("precompute",
                            IF ~e.ok \/ refused \/ TasksFail(tasks) THEN {} ELSE {tasks})
        /\ UNCHANGED <<ontology, pending, incremental>>

IncrementalInit ==
    /\ ontology \in Ontologies
    /\ pending = <<>> /\ consistent = {} /\ dl = {} /\ original = {}
    /\ incremental = {} /\ precomputed = {} /\ index = {} /\ answer = NoAnswer

IncrementalNext ==
    \/ \E op \in {"add", "remove"}, a \in Axioms : ~MustFlush /\ SubmitChange(op, a)
    \/ Flush
    \/ IsConsistent
    \/ DlOntology
    \/ ObjectPropertyInstances
    \/ Query
    \/ \E requested \in Requests : Precompute(requested)

IncrementalSpec == IncrementalInit /\ [][IncrementalNext]_incrementalVars

-----------------------------------------------------------------------------
(* Properties.                                                             *)

Inconsistent(o) == \E r \in Refutations : r \subseteq AxiomsOf(o)

\* More than one axiom states the fact, or an annotated one does, which a removal does not take away.
StatedAgain(f) ==
    \/ Cardinality({a \in Axioms : f \in ReducedFacts[a]}) > 1
    \/ \E c \in ontology : c[2] /\ f \in ReducedFacts[c[1]]

\* The fact of an axiom that the full clausification rewrites, as it does negative assertions on complex roles.
Rewritten(f) ==
    \E a \in Axioms :
        LET full == FullFacts(a, TBox(AxiomsOf(ontology)))
        IN  ReducedFacts[a] # full /\ f \in ReducedFacts[a] \cup full

Plain == \A a \in Axioms : \A f \in ReducedFacts[a] : ~StatedAgain(f) /\ ~Rewritten(f)

\* After any mixture of incremental and full flushes the clausified ontology
\* that is_consistent reasons from has the clauses that clausifying the loaded
\* ontology would give, and the same facts, with two exceptions: a fact that
\* another axiom or an annotated one states too is lost when one of them is
\* removed (the flush takes facts out by themselves, not by their axioms), and
\* an axiom the full clausification rewrites comes without the rewriting.
FlushExact ==
    \A d \in dl : \A f \in Clausify(ontology, FALSE) :
        /\ d.clauses = f.clauses
        /\ \A x \in f.facts \ d.facts : StatedAgain(x) \/ Rewritten(x)
        /\ \A x \in d.facts \ f.facts : Rewritten(x)

\* is_consistent answers for the loaded ontology, whatever was buffered,
\* flushed or cached before, when no fact is stated twice or rewritten.
ConsistencyCurrent ==
    answer.query = "is_consistent" =>
        \A v \in answer.value : Plain => v = ~Inconsistent(ontology)

\* What is cached was computed from the ontology as it is: no property index
\* or precomputed inference outlives a flush that changed the ontology, nor
\* does a consistency answer, which is right under the same condition.
CachesCurrent ==
    /\ consistent # {} /\ Plain => consistent = {~Inconsistent(ontology)}
    /\ \A i \in index : i.snapshot = ontology
    /\ \A p \in precomputed : p[2] = ontology

\* A flush leaves each changed axiom as the newest pending change of it says,
\* and touches no other axiom.  Buffered changes are invisible until then, and
\* without buffering every query sees every submitted change.
NewestChangeWins ==
    /\ ontology' # ontology => pending' = <<>>
    /\ ~BufferChanges /\ answer' # NoAnswer => pending = <<>>
    /\ \A a \in Axioms :
         LET mine == {i \in DOMAIN pending : pending[i].axiom = a}
             newest == CHOOSE i \in mine : \A j \in mine : j <= i
         IN  pending # <<>> /\ pending' = <<>> =>
               IF mine = {} THEN (<<a, FALSE>> \in ontology') = (<<a, FALSE>> \in ontology)
               ELSE (<<a, FALSE>> \in ontology') = (pending[newest].op = "add")

=============================================================================
