---------------------------- MODULE CalculusModel ---------------------------
(***************************************************************************)
(* A run that ends without a clash leaves a model in the extension table,  *)
(* for every set of clauses: with CalculusProofs, the answer of            *)
(* run_calculus is right both ways.                                        *)
(*                                                                         *)
(* The invariant says of the present state, while there is no clash, that  *)
(* the clauses matched up to extensionThis and the disjunctions processed  *)
(* are taken care of, and of what every branching point recorded that it   *)
(* was such a state: backtracking goes back to nothing else.               *)
(***************************************************************************)
EXTENDS CalculusProofs

\* Every leaf that names no prover is given to these, in this order.
USE SMTT(90), ZenonT(60)

-----------------------------------------------------------------------------
(* Tables.                                                                 *)

LEMMA DomainOf == ASSUME NEW S, NEW s \in Seq(S) PROVE DOMAIN s = 1 .. Len(s) /\ Len(s) \in Nat
  OBVIOUS

LEMMA Nested == \A m, n \in Nat : m <= n => 1 .. m \subseteq 1 .. n
  OBVIOUS

\* Tables that agree on n tuples have the same literals there.
LEMMA PrefixAgree ==
    ASSUME NEW r, NEW t, NEW n \in Nat, \A i \in 1 .. n : r[i] = t[i]
    PROVE  \A m \in 0 .. n : Prefix(r, m) = Prefix(t, m)
  BY DEF Prefix

\* More literals choose and handle more.
LEMMA HandledGrows ==
    ASSUME NEW lits, NEW more, lits \subseteq more, NEW queue, NEW longer,
           NEW m \in Nat, NEW n \in Nat, m <= n, \A g \in 1 .. m : queue[g] = longer[g]
    PROVE  /\ \A ds : Chosen(lits, ds) => Chosen(more, ds)
           /\ \A c : Handled(lits, queue, m, c) => Handled(more, longer, n, c)
<1>1. \A ds : Chosen(lits, ds) => Chosen(more, ds)
  BY DEF Chosen
<1>2. ASSUME NEW c, Handled(lits, queue, m, c) PROVE Handled(more, longer, n, c)
  <2>1. CASE Chosen(lits, c.head)
    BY <1>1, <2>1 DEF Handled
  <2>2. CASE \E g \in 1 .. m : queue[g].disjuncts = c.head
    BY <2>2 DEF Handled
  <2> QED
    BY <1>2, <2>1, <2>2 DEF Handled
<1> QED
  BY <1>1, <1>2

\* The literals in the table are those of its whole length.
LEMMA FactsArePrefix ==
    ASSUME rows \in Seq(Row)
    PROVE  Facts = Prefix(rows, Len(rows)) /\ Facts \subseteq Literal
<1>1. DOMAIN rows = 1 .. Len(rows) /\ \A i \in DOMAIN rows : rows[i] \in Row
  OBVIOUS
<1> QED
  BY <1>1 DEF Facts, Prefix, Row

\* What a branching point recorded stays complete while it and the tuples and
\* disjunctions it counts stay as they are.
LEMMA RecordedAgree ==
    ASSUME NEW o, NEW Rs, NEW r, NEW t, NEW q, NEW u, NEW b, NEW d,
           b.new \in Nat, b.this \in 0 .. b.new, b.disjunctions \in Nat,
           b.unprocessed \in 1 .. b.disjunctions + 1,
           d.new = b.new, d.this = b.this, d.disjunctions = b.disjunctions,
           d.unprocessed = b.unprocessed, d.choices = b.choices,
           \A i \in 1 .. b.new : r[i] = t[i],
           \A i \in 1 .. b.disjunctions : q[i] = u[i],
           Recorded(o, Rs, r, q, b)
    PROVE  Recorded(o, Rs, t, u, d)
<1>1. Prefix(r, b.new) = Prefix(t, b.new) /\ Prefix(r, b.this) = Prefix(t, b.this)
  <2>1. \A m \in 0 .. b.new : Prefix(r, m) = Prefix(t, m)
    BY Zenon, PrefixAgree
  <2> QED
    BY <2>1
<1>2. \A c : Handled(Prefix(r, b.new), q, b.disjunctions, c)
                => Handled(Prefix(r, b.new), u, b.disjunctions, c)
  BY HandledGrows
<1>3. \A g \in 1 .. b.unprocessed - 1 : q[g] = u[g]
  OBVIOUS
<1> QED
  BY <1>1, <1>2, <1>3 DEF Recorded

\* The numbers a branching point records.
LEMMA PointNumbers ==
    ASSUME NEW Ms, NEW N, NEW nb \in Nat, Sound(Ms, N, nb),
           NEW k \in 1 .. Level
    PROVE  LET b == branchingPoints[k]
           IN  /\ b \in BranchingPoint /\ b.choices \in Seq(Atoms)
               /\ b.new \in Nat /\ b.this \in 0 .. b.new /\ b.disjunctions \in Nat
               /\ b.unprocessed \in 1 .. b.disjunctions + 1
               /\ b.new <= Len(rows) /\ b.disjunctions <= Len(disjunctions)
               /\ \A j \in k .. Level : /\ b.new <= branchingPoints[j].new
                                        /\ b.disjunctions <= branchingPoints[j].disjunctions
<1>1. branchingPoints \in Seq(BranchingPoint) /\ RecordsPrefix(k)
  BY DEF Sound, Formed, StackRecordsPrefix
<1>2. branchingPoints[k] \in BranchingPoint
  BY <1>1 DEF Level
<1>3. /\ branchingPoints[k].choices \in Seq(Atoms) /\ branchingPoints[k].new \in Nat
      /\ branchingPoints[k].disjunctions \in Nat
  BY Zenon, <1>2 DEF BranchingPoint
<1> QED
  BY <1>1, <1>2, <1>3 DEF RecordsPrefix

\* A step that leaves the stack and only adds tuples and disjunctions keeps it.
LEMMA AllRecordedKept ==
    ASSUME NEW Ms, NEW N, NEW nb \in Nat, NEW Rs,
           Sound(Ms, N, nb), AllRecorded(Rs, nb), ontology' = ontology, branchingPoints' = branchingPoints,
           \A i \in 1 .. Len(rows) : rows'[i] = rows[i],
           \A i \in 1 .. Len(disjunctions) : disjunctions'[i] = disjunctions[i]
    PROVE  AllRecorded(Rs, nb)'
<1> SUFFICES ASSUME NEW k \in 1 .. Level, k > nb
             PROVE  Recorded(ontology, Rs, rows', disjunctions', branchingPoints[k])
  BY DEF AllRecorded, Level
<1>1. PICK b : b = branchingPoints[k]
  OBVIOUS
<1>2. /\ b.new \in Nat /\ b.this \in 0 .. b.new /\ b.disjunctions \in Nat
      /\ b.unprocessed \in 1 .. b.disjunctions + 1
      /\ b.new <= Len(rows) /\ b.disjunctions <= Len(disjunctions)
  BY Zenon, <1>1, PointNumbers
<1>3. Len(rows) \in Nat /\ Len(disjunctions) \in Nat
  BY DEF Sound, Formed
<1>4. /\ \A i \in 1 .. b.new : rows[i] = rows'[i]
      /\ \A i \in 1 .. b.disjunctions : disjunctions[i] = disjunctions'[i]
  BY <1>2, <1>3
<1>5. Recorded(ontology, Rs, rows, disjunctions, b)
  BY <1>1 DEF AllRecorded
<1> QED
  BY Zenon, <1>1, <1>2, <1>4, <1>5, RecordedAgree

\* add_tuple adds the literal, contradicting nothing unless it sets the clash.
LEMMA AddFactComplete ==
    ASSUME rows \in Seq(Row), NEW l \in Literal, NEW d \in SUBSET Nat, AddFact(l, d)
    PROVE  /\ rows' \in Seq(Row) /\ Len(rows) <= Len(rows')
           /\ \A i \in 1 .. Len(rows) : rows'[i] = rows[i]
           /\ Facts' = Facts \cup {l}
           /\ clash' = {} => clash = {} /\ (Consistent(Facts) => Consistent(Facts'))
<1>1. CASE l \in Facts
  <2>1. rows' = rows /\ clash' = clash
    BY <1>1 DEF AddFact
  <2>2. Facts' = Facts
    BY <2>1 DEF Facts
  <2> QED
    BY <1>1, <2>1, <2>2
<1>2. CASE l \notin Facts
  <2> DEFINE r == [lit |-> l, deps |-> d]
  <2>1. rows' = Append(rows, r) /\ r \in Row
    BY <1>2 DEF AddFact, Row
  <2>2. r.lit = l
    OBVIOUS
  <2> HIDE DEF r
  <2>3. /\ rows' \in Seq(Row) /\ Len(rows') = Len(rows) + 1 /\ rows'[Len(rows) + 1] = r
        /\ \A i \in 1 .. Len(rows) : rows'[i] = rows[i]
    BY <2>1, AppendFacts
  <2>4. DOMAIN rows = 1 .. Len(rows) /\ DOMAIN rows' = 1 .. (Len(rows) + 1) /\ Len(rows) \in Nat
    BY <2>3
  <2>5. Facts' = Facts \cup {l}
    <3>1. ASSUME NEW i \in 1 .. (Len(rows) + 1) PROVE i \in 1 .. Len(rows) \/ i = Len(rows) + 1
      BY <2>4
    <3>2. 1 .. Len(rows) \subseteq 1 .. (Len(rows) + 1) /\ Len(rows) + 1 \in 1 .. (Len(rows) + 1)
      BY <2>4
    <3>3. Facts = {rows[i].lit : i \in 1 .. Len(rows)}
      BY <2>4 DEF Facts
    <3>4. Facts' = {rows'[i].lit : i \in 1 .. (Len(rows) + 1)}
      BY <2>4 DEF Facts
    <3> QED
      BY <2>2, <2>3, <3>1, <3>2, <3>3, <3>4
  <2>6. ASSUME clash' = {}
        PROVE  clash = {} /\ (Consistent(Facts) => Consistent(Facts'))
    <3>1. clash = {} /\ Complement(l) \notin Facts
      BY Zenon, <1>2, <2>6 DEF AddFact
    <3>2. \A x \in Literal : Complement(x) # x /\ (Complement(x) = l => x = Complement(l))
      BY DEF Complement, Literal, Pos, Neg
    <3>3. Facts \subseteq Literal
      BY FactsArePrefix
    <3> QED
      BY <2>5, <3>1, <3>2, <3>3 DEF Consistent
  <2> QED
    BY <2>3, <2>4, <2>5, <2>6
<1> QED
  BY <1>1, <1>2

\* Growing the table and the queue loses neither a match that was handled nor a
\* choice that was made.
LEMMA KeptWhileGrowing ==
    ASSUME NEW Ms, NEW N, NEW nb \in Nat, Sound(Ms, N, nb),
           ontology' = ontology, extensionThis' = extensionThis,
           rows' \in Seq(Row), Len(rows) <= Len(rows'),
           \A i \in 1 .. Len(rows) : rows'[i] = rows[i],
           disjunctions' \in Seq(Disjunction), Len(disjunctions) <= Len(disjunctions'),
           \A i \in 1 .. Len(disjunctions) : disjunctions'[i] = disjunctions[i]
    PROVE  /\ Facts \subseteq Facts'
           /\ Prefix(rows', extensionThis) = Prefix(rows, extensionThis)
           /\ \A c : Handled(Facts, disjunctions, Len(disjunctions), c)
                        => Handled(Facts', disjunctions', Len(disjunctions'), c)
           /\ \A ds : Chosen(Facts, ds) => Chosen(Facts', ds)
<1>1. /\ rows \in Seq(Row) /\ Len(rows) \in Nat /\ extensionThis \in 0 .. Len(rows)
      /\ disjunctions \in Seq(Disjunction)
      /\ Len(disjunctions) \in Nat /\ Len(disjunctions') \in Nat
  BY DEF Sound, Formed
<1>2. Facts \subseteq Facts'
  BY <1>1, FactsGrow
<1>3. Prefix(rows', extensionThis) = Prefix(rows, extensionThis)
  <2>1. \A i \in 1 .. extensionThis : rows'[i] = rows[i]
    BY <1>1
  <2> QED
    BY Zenon, <2>1 DEF Prefix
<1> QED
  BY Zenon, <1>1, <1>2, <1>3, HandledGrows

-----------------------------------------------------------------------------
(* The initial state and the steps.                                        *)

\* Before the ABox is loaded nothing is matched: a clause has a body atom.
LEMMA InitComplete ==
    ASSUME NEW Rs, Init, Rs = {ontology.facts[i] : i \in DOMAIN ontology.facts}
    PROVE  Complete(Rs, 0)
<1>1. Facts = {} /\ Prefix(rows, extensionThis) = {} /\ Level = 0 /\ firstUnprocessed = 1
  BY DEF Init, Facts, Prefix, Level
<1>2. \A c \in ontology.clauses : c.body # {}
  BY OntologiesAssumption DEF Init
<1>3. MatchesKept
  BY <1>1, <1>2 DEF MatchesKept, Matched
<1>4. FactsKept(Rs)
  BY DEF Init, FactsKept
<1>5. Consistent(Facts) /\ DisjunctionsKept /\ AllRecorded(Rs, 0)
  BY <1>1 DEF Consistent, DisjunctionsKept, AllRecorded
<1> QED
  BY <1>3, <1>4, <1>5 DEF Complete, Present, Stages, Init

\* A fact of the ABox, of a test or of the next choice goes from pending to the table.
LEMMA StoresPendingComplete ==
    ASSUME NEW Ms, NEW N, NEW nb \in Nat, NEW Rs, Sound(Ms, N, nb), Complete(Rs, nb),
           StoresPending
    PROVE  Complete(Rs, nb)'
<1> DEFINE l == Head(pending)
<1>1. /\ rows \in Seq(Row) /\ pending \in Seq(Literal) /\ pending # <<>>
      /\ pendingDeps \in SUBSET Nat
      /\ disjunctions \in Seq(Disjunction) /\ Len(disjunctions) \in Nat
      /\ Present(Rs) /\ AllRecorded(Rs, nb) /\ Stages /\ pc \in {"load", "choice", "test"}
  BY DEF Sound, Formed, Complete, StoresPending
<1>2. UNCHANGED <<ontology, extensionOld, extensionThis, disjunctions,
                  firstUnprocessed, branchingPoints, nonbacktrackable, todo,
                  pendingDeps, pc>>
  BY DEF StoresPending
<1>3. /\ l \in Literal /\ l = pending[1]
      /\ \A p \in DOMAIN pending :
            p = 1 \/ (p - 1 \in DOMAIN Tail(pending) /\ Tail(pending)[p - 1] = pending[p])
  <2>1. /\ Len(pending) \in Nat \ {0} /\ DOMAIN pending = 1 .. Len(pending)
        /\ DOMAIN Tail(pending) = 1 .. (Len(pending) - 1)
        /\ \A i \in 1 .. (Len(pending) - 1) : Tail(pending)[i] = pending[i + 1]
    BY <1>1
  <2>2. l \in Literal /\ l = pending[1]
    BY <1>1
  <2>3. \A n \in Nat : \A p \in 1 .. n : p = 1 \/ (p - 1 \in 1 .. (n - 1) /\ (p - 1) + 1 = p)
    OBVIOUS
  <2> QED
    BY <2>1, <2>2, <2>3
<1> HIDE DEF l
<1>4. \/ AddFact(l, pendingDeps)
      \/ UNCHANGED <<rows, clash>> /\ pc = "choice" /\ l.sign = "-"
  BY DEF StoresPending, l
<1>5. /\ rows' \in Seq(Row) /\ Len(rows) <= Len(rows')
      /\ \A i \in 1 .. Len(rows) : rows'[i] = rows[i]
      /\ clash' = {} => clash = {} /\ (Consistent(Facts) => Consistent(Facts'))
      /\ l \in Facts' \/ (pc = "choice" /\ l.sign = "-")
  <2>1. CASE AddFact(l, pendingDeps)
    BY <1>1, <1>3, <2>1, AddFactComplete
  <2>2. CASE UNCHANGED <<rows, clash>> /\ pc = "choice" /\ l.sign = "-"
    BY <1>1, <2>2 DEF Facts
  <2> QED
    BY <1>4, <2>1, <2>2
<1>6. /\ Facts \subseteq Facts'
      /\ Prefix(rows', extensionThis) = Prefix(rows, extensionThis)
      /\ \A c : Handled(Facts, disjunctions, Len(disjunctions), c)
                   => Handled(Facts', disjunctions', Len(disjunctions'), c)
      /\ \A ds : Chosen(Facts, ds) => Chosen(Facts', ds)
  BY <1>1, <1>2, <1>5, KeptWhileGrowing
<1>7. Present(Rs)'
  <2> SUFFICES ASSUME clash' = {}
               PROVE  Consistent(Facts') /\ FactsKept(Rs)' /\ MatchesKept' /\ DisjunctionsKept'
    BY DEF Present, ContainsClash
  <2>1. /\ Consistent(Facts) /\ FactsKept(Rs) /\ MatchesKept /\ DisjunctionsKept
        /\ pending' = Tail(pending)
    BY <1>1, <1>5 DEF Present, ContainsClash, StoresPending
  <2>2. \A p \in DOMAIN pending : pending[p] = l \/ \E q \in DOMAIN pending' : pending'[q] = pending[p]
    BY Zenon, <1>3, <2>1
  <2>3. FactsKept(Rs)'
    BY <1>2, <1>5, <1>6, <2>1, <2>2 DEF FactsKept
  <2>4. MatchesKept'
    BY <1>2, <1>6, <2>1 DEF MatchesKept
  <2>5. DisjunctionsKept'
    <3> SUFFICES ASSUME NEW g \in 1 .. firstUnprocessed - 1
                 PROVE  \/ Chosen(Facts', disjunctions[g].disjuncts)
                        \/ \E p \in DOMAIN pending', i \in DOMAIN disjunctions[g].disjuncts :
                              pending'[p] = Pos(disjunctions[g].disjuncts[i])
      BY <1>2 DEF DisjunctionsKept
    <3>1. CASE Chosen(Facts, disjunctions[g].disjuncts)
      BY <1>6, <3>1
    <3>2. CASE \E p \in DOMAIN pending, i \in DOMAIN disjunctions[g].disjuncts :
                  pending[p] = Pos(disjunctions[g].disjuncts[i])
      <4>1. PICK p \in DOMAIN pending, i \in DOMAIN disjunctions[g].disjuncts :
               pending[p] = Pos(disjunctions[g].disjuncts[i])
        BY <3>2
      <4>2. CASE pending[p] = l
        <5>1. l.sign = "+"
          BY <4>1, <4>2 DEF Pos
        <5>2. l \in Facts'
          BY <1>5, <5>1
        <5> QED
          BY Zenon, <4>1, <4>2, <5>2 DEF Chosen
      <4>3. CASE \E q \in DOMAIN pending' : pending'[q] = pending[p]
        BY <4>1, <4>3
      <4> QED
        BY <2>2, <4>2, <4>3
    <3> QED
      BY <2>1, <3>1, <3>2 DEF DisjunctionsKept
  <2> QED
    BY <1>5, <2>1, <2>3, <2>4, <2>5
<1>8. AllRecorded(Rs, nb)'
  BY <1>1, <1>2, <1>5, AllRecordedKept
<1>9. Stages'
  BY <1>1, <1>2 DEF Stages
<1> QED
  BY <1>7, <1>8, <1>9 DEF Complete

\* When all of them are in the table nothing of the ABox is left to load.
LEMMA AssertedComplete ==
    ASSUME NEW Ms, NEW N, NEW nb \in Nat, NEW Rs, Sound(Ms, N, nb), Complete(Rs, nb),
           Asserted
    PROVE  Complete(Rs, nb)'
<1>1. /\ UNCHANGED <<ontology, rows, extensionOld, extensionThis, disjunctions,
                     firstUnprocessed, branchingPoints, clash, todo, pending>>
      /\ pending = <<>> /\ pc' \in {"done", "iterate"}
      /\ pc' = "done" => ContainsClash
  BY DEF Asserted, table, work
<1>2. Facts' = Facts /\ AllRecorded(Rs, nb)'
  BY <1>1, AllRecordedKept DEF Facts, Complete
<1>3. Present(Rs)'
  <2> SUFFICES ASSUME ~ContainsClash
               PROVE  Consistent(Facts') /\ FactsKept(Rs)' /\ MatchesKept' /\ DisjunctionsKept'
    BY <1>1 DEF Present, ContainsClash
  <2>1. Consistent(Facts) /\ FactsKept(Rs) /\ MatchesKept /\ DisjunctionsKept
    BY DEF Complete, Present
  <2> QED
    BY <1>1, <1>2, <2>1 DEF FactsKept, MatchesKept, DisjunctionsKept
<1>4. Stages'
  BY <1>1 DEF Stages, ContainsClash
<1> QED
  BY <1>2, <1>3, <1>4 DEF Complete

\* The next pass is given every match that is not in the windows before it.
LEMMA PropagateDeltaNewComplete ==
    ASSUME NEW Ms, NEW N, NEW nb \in Nat, NEW Rs, Sound(Ms, N, nb), Complete(Rs, nb),
           PropagateDeltaNew
    PROVE  Complete(Rs, nb)'
<1>1. /\ UNCHANGED <<ontology, rows, disjunctions, firstUnprocessed, branchingPoints,
                     clash, pending>>
      /\ extensionThis' = Len(rows) /\ pc \in {"iterate", "loop"}
      /\ pc' \in {"apply", "iterate", "choose"}
  BY DEF PropagateDeltaNew
<1>2. /\ rows \in Seq(Row) /\ Len(rows) \in Nat /\ extensionThis \in 0 .. Len(rows)
      /\ todo = {} /\ pending = <<>>
  BY <1>1 DEF Sound, Formed, TodoMatched, Complete, Stages
<1>3. Facts' = Facts /\ AllRecorded(Rs, nb)' /\ Facts = Prefix(rows, Len(rows))
  BY <1>1, <1>2, AllRecordedKept, FactsArePrefix DEF Facts, Complete
<1>4. Present(Rs)'
  <2> SUFFICES ASSUME ~ContainsClash
               PROVE  Consistent(Facts') /\ FactsKept(Rs)' /\ MatchesKept' /\ DisjunctionsKept'
    BY <1>1 DEF Present, ContainsClash
  <2>1. Consistent(Facts) /\ FactsKept(Rs) /\ MatchesKept /\ DisjunctionsKept
    BY Zenon DEF Complete, Present
  <2>2. MatchesKept'
    <3> SUFFICES ASSUME NEW c \in ontology.clauses, Matched(Facts, c),
                        ~Handled(Facts, disjunctions, Len(disjunctions), c)
                 PROVE  \E m \in todo' : m[1] = c
      BY Zenon, <1>1, <1>3 DEF MatchesKept
    <3>1. ~Matched(Prefix(rows, extensionThis), c)
      BY Zenon, <1>2, <2>1 DEF MatchesKept
    <3>2. PICK a \in c.body : Pos(a) \notin Prefix(rows, extensionThis)
      BY Zenon, <3>1 DEF Matched
    <3>3. PICK j \in 1 .. Len(rows) : rows[j].lit = Pos(a)
      BY Zenon, <1>3 DEF Matched, Prefix
    <3>4. j \in extensionThis + 1 .. Len(rows)
      BY <1>2, <3>2, <3>3 DEF Prefix
    <3>5. \A x \in c.body : \E i \in 1 .. Len(rows) : rows[i].lit = Pos(x)
      BY Zenon, <1>3 DEF Matched, Prefix
    <3>6. <<c, j>> \in Matches(extensionThis, Len(rows))
      BY Zenon, <3>3, <3>4, <3>5 DEF Matches
    <3>7. todo' = Matches(extensionThis, Len(rows))
      <4>1. extensionThis # Len(rows)
        BY <1>2, <3>4
      <4> QED
        BY <4>1 DEF PropagateDeltaNew
    <3> QED
      BY Zenon, <3>6, <3>7
  <2> QED
    BY Zenon, <1>1, <1>2, <1>3, <2>1, <2>2 DEF FactsKept, DisjunctionsKept
<1>5. Stages'
  BY Zenon, <1>1, <1>2 DEF Stages
<1> QED
  BY <1>3, <1>4, <1>5 DEF Complete

\* At the end of a pass no match is left.
LEMMA PassFinishedComplete ==
    ASSUME NEW Ms, NEW N, NEW nb \in Nat, NEW Rs, Sound(Ms, N, nb), Complete(Rs, nb),
           PassFinished
    PROVE  Complete(Rs, nb)'
<1>1. /\ UNCHANGED <<ontology, rows, extensionThis, disjunctions, firstUnprocessed,
                     branchingPoints, clash, todo, pending>>
      /\ pc = "apply" /\ pc' = "loop"
  BY DEF PassFinished, table, work
<1>2. Facts' = Facts /\ AllRecorded(Rs, nb)'
  BY Zenon, <1>1, AllRecordedKept DEF Facts, Complete
<1>3. Present(Rs)'
  BY <1>1, <1>2 DEF Complete, Present, ContainsClash, FactsKept, MatchesKept, DisjunctionsKept
<1> QED
  BY Zenon, <1>1, <1>2, <1>3 DEF Complete, Stages

\* A match that fires without a clash has its head in the table or in the queue.
LEMMA FireComplete ==
    ASSUME NEW Ms, NEW N, NEW nb \in Nat, NEW Rs,
           Sound(Ms, N, nb), Complete(Rs, nb), NEW m \in todo, Fire(m),
           rows' \in Seq(Row), Len(rows) <= Len(rows'),
           \A i \in 1 .. Len(rows) : rows'[i] = rows[i],
           disjunctions' \in Seq(Disjunction), Len(disjunctions) <= Len(disjunctions'),
           \A i \in 1 .. Len(disjunctions) : disjunctions'[i] = disjunctions[i],
           clash' = {} => /\ clash = {} /\ (Consistent(Facts) => Consistent(Facts'))
                          /\ Handled(Facts', disjunctions', Len(disjunctions'), m[1])
    PROVE  Complete(Rs, nb)'
<1>1. /\ UNCHANGED <<ontology, extensionThis, firstUnprocessed, branchingPoints,
                     pending, pc>>
      /\ pc = "apply"
      /\ clash' = {} => todo' = todo \ {m}
  BY Zenon DEF Fire
<1>2. /\ Facts \subseteq Facts'
      /\ Prefix(rows', extensionThis) = Prefix(rows, extensionThis)
      /\ \A c : Handled(Facts, disjunctions, Len(disjunctions), c)
                   => Handled(Facts', disjunctions', Len(disjunctions'), c)
      /\ \A ds : Chosen(Facts, ds) => Chosen(Facts', ds)
  BY Zenon, <1>1, KeptWhileGrowing
<1>3. Present(Rs)'
  <2> SUFFICES ASSUME clash' = {}
               PROVE  Consistent(Facts') /\ FactsKept(Rs)' /\ MatchesKept' /\ DisjunctionsKept'
    BY DEF Present, ContainsClash
  <2>1. Consistent(Facts) /\ FactsKept(Rs) /\ MatchesKept /\ DisjunctionsKept
    BY Zenon DEF Complete, Present, ContainsClash
  <2>2. MatchesKept'
    BY Zenon, <1>1, <1>2, <2>1 DEF MatchesKept
  <2>3. \A g \in 1 .. firstUnprocessed - 1 : disjunctions'[g] = disjunctions[g]
    <3>1. Len(disjunctions) \in Nat /\ firstUnprocessed \in 1 .. Len(disjunctions) + 1
      BY DEF Sound, Formed
    <3> QED
      BY <3>1
  <2>4. FactsKept(Rs)' /\ DisjunctionsKept'
    BY <1>1, <1>2, <2>1, <2>3 DEF FactsKept, DisjunctionsKept
  <2> QED
    BY Zenon, <2>1, <2>2, <2>4
<1>4. AllRecorded(Rs, nb)'
  BY Zenon, <1>1, AllRecordedKept DEF Complete
<1> QED
  BY Zenon, <1>1, <1>3, <1>4 DEF Complete, Stages

\* So it is with a clash, a fact and a disjunction.
LEMMA DeriveComplete ==
    ASSUME NEW Ms, NEW N, NEW nb \in Nat, NEW Rs, Sound(Ms, N, nb), Complete(Rs, nb),
           DeriveClash \/ DeriveFact \/ DeriveDisjunction
    PROVE  Complete(Rs, nb)'
<1>1. rows \in Seq(Row) /\ disjunctions \in Seq(Disjunction)
  BY DEF Sound, Formed
<1>2. CASE DeriveClash
  <2>1. PICK m \in todo : clash' # {} /\ Fire(m) /\ UNCHANGED <<rows, disjunctions>>
    BY Zenon, <1>2 DEF DeriveClash
  <2> QED
    BY <1>1, <2>1, FireComplete
<1>3. CASE DeriveFact
  <2>1. PICK m \in todo :
           /\ Len(m[1].head) = 1 /\ AddFact(Pos(m[1].head[1]), BodyDeps(m[1]))
           /\ Fire(m) /\ UNCHANGED disjunctions
    BY <1>3 DEF DeriveFact
  <2>2. m[1] \in Clause /\ BodyDeps(m[1]) \in SUBSET Nat
    BY Zenon, MatchDeps
  <2>3. m[1].head[1] \in Atoms /\ 1 \in DOMAIN m[1].head
    BY <2>1, <2>2 DEF Clause
  <2>4. Pos(m[1].head[1]) \in Literal
    BY Zenon, <2>3 DEF Pos, Literal
  <2>5. /\ rows' \in Seq(Row) /\ Len(rows) <= Len(rows')
        /\ \A i \in 1 .. Len(rows) : rows'[i] = rows[i]
        /\ Pos(m[1].head[1]) \in Facts'
        /\ clash' = {} => clash = {} /\ (Consistent(Facts) => Consistent(Facts'))
    BY Zenon, <1>1, <2>1, <2>2, <2>4, AddFactComplete
  <2>6. Handled(Facts', disjunctions', Len(disjunctions'), m[1])
    BY <2>3, <2>5 DEF Handled, Chosen
  <2> QED
    BY <1>1, <2>1, <2>5, <2>6, FireComplete
<1>4. CASE DeriveDisjunction
  <2>1. PICK m \in todo :
           /\ disjunctions' = IF Satisfied(m[1].head) THEN disjunctions
                              ELSE Append(disjunctions,
                                          [disjuncts |-> m[1].head, deps |-> BodyDeps(m[1])])
           /\ UNCHANGED <<rows, clash>> /\ Fire(m)
    BY Zenon, <1>4 DEF DeriveDisjunction
  <2> DEFINE q == [disjuncts |-> m[1].head, deps |-> BodyDeps(m[1])]
  <2>2. q \in Disjunction /\ q.disjuncts = m[1].head
    BY Zenon, MatchDeps DEF Disjunction, Clause
  <2>3. Facts' = Facts
    BY Zenon, <2>1 DEF Facts
  <2>4. CASE Satisfied(m[1].head)
    <3>1. Handled(Facts', disjunctions', Len(disjunctions'), m[1])
      BY Zenon, <2>3, <2>4 DEF Handled, Chosen, Satisfied
    <3> QED
      BY <1>1, <2>1, <2>3, <2>4, <3>1, FireComplete
  <2>5. CASE ~Satisfied(m[1].head)
    <3>1. disjunctions' = Append(disjunctions, q)
      BY <2>1, <2>5
    <3> HIDE DEF q
    <3>2. /\ disjunctions' \in Seq(Disjunction)
          /\ Len(disjunctions') = Len(disjunctions) + 1
          /\ disjunctions'[Len(disjunctions) + 1] = q
          /\ \A i \in 1 .. Len(disjunctions) : disjunctions'[i] = disjunctions[i]
      BY <1>1, <2>2, <3>1, AppendFacts
    <3>3. /\ Len(disjunctions) \in Nat /\ Len(disjunctions) <= Len(disjunctions')
          /\ Len(disjunctions) + 1 \in 1 .. Len(disjunctions')
      BY <1>1, <3>2
    <3>4. Handled(Facts', disjunctions', Len(disjunctions'), m[1])
      BY Zenon, <2>2, <3>2, <3>3 DEF Handled
    <3> QED
      BY <1>1, <2>1, <2>3, <3>2, <3>3, <3>4, FireComplete
  <2> QED
    BY Zenon, <2>4, <2>5
<1> QED
  BY Zenon, <1>2, <1>3, <1>4

\* A disjunction is branched on: the state recorded is complete, and the first
\* disjunct is in the table.
LEMMA ProcessGroundDisjunctionComplete ==
    ASSUME NEW Ms, NEW N, NEW nb \in Nat, NEW Rs,
           Sound(Ms, N, nb), Complete(Rs, nb), pc = "choose", NEW g \in firstUnprocessed .. Len(disjunctions),
           ProcessGroundDisjunction(g),
           UNCHANGED <<ontology, extensionOld, extensionThis, disjunctions,
                       nonbacktrackable, work>>
    PROVE  Complete(Rs, nb)'
<1> DEFINE ds == disjunctions[g].disjuncts
<1>1. /\ rows \in Seq(Row) /\ Len(rows) \in Nat /\ disjunctions \in Seq(Disjunction)
      /\ branchingPoints \in Seq(BranchingPoint) /\ Level \in Nat
      /\ Len(disjunctions) \in Nat /\ firstUnprocessed \in 1 .. Len(disjunctions) + 1
      /\ extensionThis \in 0 .. Len(rows) /\ extensionOld \in Nat
      /\ todo = {} /\ pending = <<>> /\ ~ContainsClash
  BY DEF Sound, Formed, TodoMatched, Phases, Complete, Stages, Level
<1>2. Consistent(Facts) /\ FactsKept(Rs) /\ MatchesKept /\ DisjunctionsKept /\ AllRecorded(Rs, nb)
  BY Zenon, <1>1 DEF Complete, Present
<1>3. disjunctions[g] \in Disjunction /\ Len(ds) > 1 /\ g \in DOMAIN disjunctions
  BY <1>1 DEF Sound, Branching
<1>4. ds \in Seq(Atoms) /\ disjunctions[g].deps \in SUBSET Nat
  BY Zenon, <1>3 DEF Disjunction
<1>5. PICK f \in Orders(Len(ds)) :
         /\ branchingPoints' =
               Append(branchingPoints, NewBranchingPoint(Ordered(ds, f), 1, g + 1))
         /\ AddFact(Pos(Ordered(ds, f)[1]), disjunctions[g].deps \cup {Level + 1})
  BY Zenon DEF ProcessGroundDisjunction
<1> DEFINE cs == Ordered(ds, f)
           b == NewBranchingPoint(cs, 1, g + 1)
           l == Pos(cs[1])
<1>6. /\ cs \in Seq(Atoms) /\ Len(cs) = Len(ds) /\ DOMAIN cs = DOMAIN ds /\ 1 \in DOMAIN cs
      /\ \A x \in DOMAIN cs : \E i \in DOMAIN ds : ds[i] = cs[x]
  <2> HIDE DEF ds
  <2>1. cs \in Seq(Atoms) /\ Len(cs) = Len(ds)
    BY Zenon, <1>4, OrderedChoices
  <2>2. DOMAIN cs = 1 .. Len(ds) /\ DOMAIN ds = 1 .. Len(ds) /\ Len(ds) \in Nat
    BY <1>4, <2>1
  <2>3. \A x \in 1 .. Len(ds) : cs[x] = ds[f[x]] /\ f[x] \in 1 .. Len(ds)
    BY Zenon DEF Ordered, Orders
  <2>4. 1 \in 1 .. Len(ds)
    BY <1>3, <2>2 DEF ds
  <2> QED
    BY Zenon, <2>1, <2>2, <2>3, <2>4
<1>7. /\ b \in BranchingPoint /\ b.choices = cs /\ b.new = Len(rows) /\ b.this = extensionThis
      /\ b.disjunctions = Len(disjunctions) /\ b.unprocessed = g + 1
  <2>1. g + 1 \in Nat
    BY <1>1
  <2> HIDE DEF cs
  <2> QED
    BY <1>1, <1>6, <2>1 DEF NewBranchingPoint, BranchingPoint
<1>8. /\ firstUnprocessed' = g + 1 /\ pc' = "iterate" /\ todo' = todo /\ pending' = pending
      /\ \A h \in firstUnprocessed .. g - 1 : Satisfied(disjunctions[h].disjuncts)
      /\ branchingPoints' = Append(branchingPoints, b)
      /\ AddFact(l, disjunctions[g].deps \cup {Level + 1})
      /\ ontology' = ontology /\ disjunctions' = disjunctions /\ extensionThis' = extensionThis
  BY Zenon, <1>5 DEF ProcessGroundDisjunction, work
<1>9. l \in Literal /\ disjunctions[g].deps \cup {Level + 1} \in SUBSET Nat
  <2> HIDE DEF cs
  <2>1. cs[1] \in Atoms
    BY <1>6
  <2> QED
    BY <1>1, <1>4, <2>1 DEF Pos, Literal
<1> HIDE DEF b, cs, l
<1>10. /\ rows' \in Seq(Row) /\ Len(rows) <= Len(rows')
       /\ \A i \in 1 .. Len(rows) : rows'[i] = rows[i]
       /\ l \in Facts'
       /\ clash' = {} => Consistent(Facts')
  BY Zenon, <1>1, <1>2, <1>8, <1>9, AddFactComplete
<1>11. /\ Facts \subseteq Facts'
       /\ Prefix(rows', extensionThis) = Prefix(rows, extensionThis)
       /\ \A c : Handled(Facts, disjunctions, Len(disjunctions), c)
                    => Handled(Facts', disjunctions', Len(disjunctions'), c)
       /\ \A e : Chosen(Facts, e) => Chosen(Facts', e)
  BY <1>1, <1>8, <1>10, KeptWhileGrowing
\* Every disjunction before this one has a disjunct in the table.
<1>12. \A h \in 1 .. g - 1 : Chosen(Facts, disjunctions[h].disjuncts)
  <2>1. \A h \in 1 .. g - 1 : h \in 1 .. firstUnprocessed - 1 \/ h \in firstUnprocessed .. g - 1
    BY <1>1
  <2>2. \A h \in 1 .. firstUnprocessed - 1 : Chosen(Facts, disjunctions[h].disjuncts)
    BY <1>1, <1>2 DEF DisjunctionsKept
  <2>3. \A h \in firstUnprocessed .. g - 1 : Chosen(Facts, disjunctions[h].disjuncts)
    BY Zenon, <1>8 DEF Satisfied, Chosen
  <2> QED
    BY <2>1, <2>2, <2>3
<1>13. g \in Nat /\ \A h \in 1 .. (g + 1) - 1 : h \in 1 .. g - 1 \/ h = g
  BY <1>1
<1>14. Recorded(ontology, Rs, rows, disjunctions, b)
  <2>1. Facts = Prefix(rows, Len(rows))
    BY Zenon, <1>1, FactsArePrefix
  <2>2. Rs \subseteq Facts
    BY Zenon, <1>2 DEF FactsKept
  <2>3. \A c \in ontology.clauses : Matched(Prefix(rows, extensionThis), c)
           => Handled(Facts, disjunctions, Len(disjunctions), c)
    BY Zenon, <1>1, <1>2 DEF MatchesKept
  <2>4. \A h \in 1 .. (g + 1) - 1 :
           \/ Chosen(Facts, disjunctions[h].disjuncts)
           \/ \A x \in DOMAIN cs : \E i \in DOMAIN disjunctions[h].disjuncts :
                 disjunctions[h].disjuncts[i] = cs[x]
    BY Zenon, <1>6, <1>12, <1>13
  <2> QED
    BY Zenon, <1>2, <1>7, <2>1, <2>2, <2>3, <2>4 DEF Recorded
<1>15. AllRecorded(Rs, nb)'
  <2>1. /\ Len(branchingPoints') = Level + 1 /\ branchingPoints'[Level + 1] = b
        /\ \A k \in 1 .. Level : branchingPoints'[k] = branchingPoints[k]
    BY <1>1, <1>7, <1>8, AppendFacts DEF Level
  <2>2. \A k \in 1 .. Level + 1 : k \in 1 .. Level \/ k = Level + 1
    BY <1>1
  <2>3. ASSUME NEW k \in 1 .. Level + 1, k > nb
        PROVE  Recorded(ontology, Rs, rows', disjunctions, branchingPoints'[k])
    <3>1. PICK e : e = branchingPoints'[k]
      OBVIOUS
    <3>2. /\ e.new \in Nat /\ e.this \in 0 .. e.new /\ e.disjunctions \in Nat
          /\ e.unprocessed \in 1 .. e.disjunctions + 1 /\ e.new <= Len(rows)
          /\ Recorded(ontology, Rs, rows, disjunctions, e)
      <4>1. CASE k \in 1 .. Level
        BY Zenon, <1>2, <2>1, <2>3, <3>1, <4>1, PointNumbers DEF AllRecorded
      <4>2. CASE k = Level + 1
        <5>1. g + 1 \in 1 .. Len(disjunctions) + 1
          BY <1>1
        <5>2. e = b
          BY <2>1, <3>1, <4>2
        <5> QED
          BY <1>1, <1>7, <1>14, <5>1, <5>2
      <4> QED
        BY <2>2, <4>1, <4>2
    <3>3. \A i \in 1 .. e.new : rows[i] = rows'[i]
      BY <1>1, <1>10, <3>2
    <3> QED
      BY Zenon, <3>1, <3>2, <3>3, RecordedAgree
  <2> QED
    BY <1>8, <2>1, <2>3 DEF AllRecorded, Level
<1>16. Present(Rs)'
  <2> SUFFICES ASSUME clash' = {}
               PROVE  Consistent(Facts') /\ FactsKept(Rs)' /\ MatchesKept' /\ DisjunctionsKept'
    BY Zenon DEF Present, ContainsClash
  <2>1. FactsKept(Rs)' /\ MatchesKept'
    BY Zenon, <1>2, <1>8, <1>11 DEF FactsKept, MatchesKept
  <2>2. Chosen(Facts', ds)
    BY Zenon, <1>6, <1>10 DEF Chosen, l
  <2>3. DisjunctionsKept'
    BY Zenon, <1>8, <1>11, <1>12, <1>13, <2>2 DEF DisjunctionsKept
  <2> QED
    BY Zenon, <1>10, <2>1, <2>3
<1>17. Stages'
  BY Zenon, <1>1, <1>8 DEF Stages
<1> QED
  BY Zenon, <1>15, <1>16, <1>17 DEF Complete

\* Without a disjunction to branch on, every disjunction has a disjunct in the table.
LEMMA ProcessFirstGroundDisjunctionComplete ==
    ASSUME NEW Ms, NEW N, NEW nb \in Nat, NEW Rs,
           Sound(Ms, N, nb), Complete(Rs, nb), ProcessFirstGroundDisjunction
    PROVE  Complete(Rs, nb)'
<1>1. /\ pc = "choose"
      /\ UNCHANGED <<ontology, extensionOld, extensionThis, disjunctions,
                     nonbacktrackable, work>>
  BY Zenon DEF ProcessFirstGroundDisjunction
<1>2. CASE \E g \in firstUnprocessed .. Len(disjunctions) : ProcessGroundDisjunction(g)
  BY Zenon, <1>1, <1>2, ProcessGroundDisjunctionComplete
<1>3. CASE /\ \A g \in firstUnprocessed .. Len(disjunctions) :
                 Satisfied(disjunctions[g].disjuncts)
           /\ firstUnprocessed' = Len(disjunctions) + 1
           /\ pc' = "done"
           /\ UNCHANGED <<rows, branchingPoints, clash>>
  <2>1. /\ firstUnprocessed \in 1 .. Len(disjunctions) + 1 /\ Len(disjunctions) \in Nat
        /\ ~ContainsClash /\ extensionThis = Len(rows) /\ pending = <<>> /\ todo' = todo
        /\ pending' = pending
    BY <1>1 DEF Sound, Formed, Phases, Complete, Stages, work
  <2>2. Consistent(Facts) /\ FactsKept(Rs) /\ MatchesKept /\ DisjunctionsKept
    BY Zenon, <2>1 DEF Complete, Present
  <2>3. Facts' = Facts /\ AllRecorded(Rs, nb)'
    BY Zenon, <1>1, <1>3, AllRecordedKept DEF Facts, Complete
  <2>4. DisjunctionsKept'
    <3> SUFFICES ASSUME NEW g \in 1 .. (Len(disjunctions) + 1) - 1
                 PROVE  Chosen(Facts, disjunctions[g].disjuncts)
      BY Zenon, <1>1, <1>3, <2>3 DEF DisjunctionsKept
    <3>1. g \in 1 .. firstUnprocessed - 1 \/ g \in firstUnprocessed .. Len(disjunctions)
      BY <2>1
    <3>2. CASE g \in 1 .. firstUnprocessed - 1
      BY <2>1, <2>2, <3>2 DEF DisjunctionsKept
    <3>3. CASE g \in firstUnprocessed .. Len(disjunctions)
      BY Zenon, <1>3, <3>3 DEF Satisfied, Chosen
    <3> QED
      BY Zenon, <3>1, <3>2, <3>3
  <2>5. Present(Rs)'
    BY Zenon, <1>1, <1>3, <2>1, <2>2, <2>3, <2>4 DEF Present, FactsKept, MatchesKept
  <2>6. Stages'
    BY Zenon, <1>1, <1>3, <2>1 DEF Stages
  <2> QED
    BY Zenon, <2>3, <2>5, <2>6 DEF Complete
<1> QED
  BY Zenon, <1>2, <1>3 DEF ProcessFirstGroundDisjunction

\* Backtracking goes back to a complete state, with the next disjunct pending.
LEMMA NextChoiceComplete ==
    ASSUME NEW Ms, NEW N, NEW nb \in Nat, NEW Rs,
           Sound(Ms, N, nb), Sound(Ms, N, nb)', Complete(Rs, nb), pc = "iterate", NEW d \in clash, NEW k \in 1 .. Level, k > nb,
           IsMaximum(k, d), BacktrackTo(k), StartNextChoice(k, d),
           pc' = "choice", UNCHANGED <<ontology, nonbacktrackable, todo>>
    PROVE  Complete(Rs, nb)'
<1>1. PICK b : b = branchingPoints[k]
  BY Zenon
<1>2. /\ b \in BranchingPoint /\ b.choices \in Seq(Atoms)
      /\ b.new \in Nat /\ b.this \in 0 .. b.new /\ b.disjunctions \in Nat
      /\ b.unprocessed \in 1 .. b.disjunctions + 1
      /\ b.new <= Len(rows) /\ b.disjunctions <= Len(disjunctions)
  BY Zenon, <1>1, PointNumbers
<1>3. /\ rows \in Seq(Row) /\ disjunctions \in Seq(Disjunction)
      /\ branchingPoints \in Seq(BranchingPoint) /\ Level \in Nat /\ todo = {}
  BY DEF Sound, Formed, TodoMatched, Level
<1>4. /\ rows' = SubSeq(rows, 1, b.new) /\ extensionThis' = b.this
      /\ disjunctions' = SubSeq(disjunctions, 1, b.disjunctions)
      /\ firstUnprocessed' = b.unprocessed
  BY <1>1 DEF BacktrackTo
<1>5. /\ rows' \in Seq(Row) /\ Len(rows') = b.new
      /\ \A i \in 1 .. b.new : rows'[i] = rows[i]
      /\ disjunctions' \in Seq(Disjunction) /\ Len(disjunctions') = b.disjunctions
      /\ \A i \in 1 .. b.disjunctions : disjunctions'[i] = disjunctions[i]
  <2>1. /\ SubSeq(rows, 1, b.new) \in Seq(Row) /\ Len(SubSeq(rows, 1, b.new)) = b.new
        /\ \A i \in 1 .. b.new : SubSeq(rows, 1, b.new)[i] = rows[i]
    BY <1>2, <1>3, PrefixOf
  <2>2. /\ SubSeq(disjunctions, 1, b.disjunctions) \in Seq(Disjunction)
        /\ Len(SubSeq(disjunctions, 1, b.disjunctions)) = b.disjunctions
        /\ \A i \in 1 .. b.disjunctions :
              SubSeq(disjunctions, 1, b.disjunctions)[i] = disjunctions[i]
    BY <1>2, <1>3, PrefixOf
  <2> QED
    BY Zenon, <1>4, <2>1, <2>2
\* The disjunct asserted next is one of those recorded.
<1>6. PICK n \in DOMAIN b.choices :
         /\ n = b.current + 1 /\ n \in DOMAIN pending' /\ pending'[n] = Pos(b.choices[n])
         /\ branchingPoints' = Append(SubSeq(branchingPoints, 1, k - 1), [b EXCEPT !.current = n])
  <2>1. k \in d
    BY <1>3 DEF IsMaximum
  <2>2. Grounded(Ms, N, nb, branchingPoints, d)
    BY DEF Sound, AllGrounded, LiveDeps
  <2>3. b.current \in 1 .. Len(b.choices) /\ b.current < Len(b.choices)
    BY <1>1, <2>1, <2>2 DEF Sound, Branching, Grounded
  <2>4. b.current + 1 \in 1 .. Len(b.choices) /\ b.current + 1 \in 1 .. (b.current + 1)
    BY <1>2, <2>3
  <2>5. DOMAIN b.choices = 1 .. Len(b.choices)
    BY <1>2
  <2>6. /\ pending' = [i \in 1 .. (b.current + 1) |->
                          IF i < b.current + 1 THEN Neg(b.choices[i]) ELSE Pos(b.choices[i])]
        /\ branchingPoints' =
              Append(SubSeq(branchingPoints, 1, k - 1), [b EXCEPT !.current = b.current + 1])
    BY Zenon, <1>1 DEF StartNextChoice
  <2>7. b.current + 1 \in DOMAIN pending' /\ pending'[b.current + 1] = Pos(b.choices[b.current + 1])
    BY <2>3, <2>4, <2>6
  <2> QED
    BY Zenon, <2>4, <2>5, <2>6, <2>7
<1>7. Recorded(ontology, Rs, rows', disjunctions', b)
  <2>1. Recorded(ontology, Rs, rows, disjunctions, b)
    BY <1>1 DEF Complete, AllRecorded
  <2>2. /\ \A i \in 1 .. b.new : rows[i] = rows'[i]
        /\ \A i \in 1 .. b.disjunctions : disjunctions[i] = disjunctions'[i]
    BY Zenon, <1>5
  <2> QED
    BY Zenon, <1>2, <2>1, <2>2, RecordedAgree
<1>8. Facts' = Prefix(rows', b.new)
  <2>1. DOMAIN rows' = 1 .. Len(rows')
    BY Zenon, <1>5, DomainOf
  <2> QED
    BY Zenon, <1>5, <2>1 DEF Facts, Prefix
<1>9. Present(Rs)'
  <2>1. Consistent(Facts') /\ FactsKept(Rs)'
    BY Zenon, <1>7, <1>8 DEF Recorded, FactsKept
  <2>2. MatchesKept'
    BY Zenon, <1>4, <1>5, <1>7, <1>8 DEF Recorded, MatchesKept
  <2>3. DisjunctionsKept'
    <3> SUFFICES ASSUME NEW g \in 1 .. b.unprocessed - 1,
                        ~Chosen(Facts', disjunctions'[g].disjuncts)
                 PROVE  \E p \in DOMAIN pending', i \in DOMAIN disjunctions'[g].disjuncts :
                           pending'[p] = Pos(disjunctions'[g].disjuncts[i])
      BY Zenon, <1>4 DEF DisjunctionsKept
    <3>1. PICK i \in DOMAIN disjunctions'[g].disjuncts :
             disjunctions'[g].disjuncts[i] = b.choices[n]
      BY Zenon, <1>7, <1>8 DEF Recorded
    <3> QED
      BY Zenon, <1>6, <3>1
  <2> QED
    BY <2>1, <2>2, <2>3 DEF Present
<1>10. AllRecorded(Rs, nb)'
  <2> DEFINE u == SubSeq(branchingPoints, 1, k - 1)
             c == [b EXCEPT !.current = n]
  <2>1. k - 1 \in Nat /\ k - 1 <= Len(branchingPoints) /\ (k - 1) + 1 = k
    BY <1>3 DEF Level
  <2>2. /\ c \in BranchingPoint /\ c.new = b.new /\ c.this = b.this
        /\ c.disjunctions = b.disjunctions /\ c.unprocessed = b.unprocessed
        /\ c.choices = b.choices
    <3>1. n \in Nat
      BY <1>2
    <3> QED
      BY Zenon, <1>2, <3>1 DEF BranchingPoint
  <2>3. /\ u \in Seq(BranchingPoint) /\ Len(u) = k - 1
        /\ \A j \in 1 .. k - 1 : u[j] = branchingPoints[j]
    BY <1>3, <2>1, PrefixOf
  <2>4. branchingPoints' = Append(u, c)
    BY <1>6
  <2> HIDE DEF u, c
  <2>5. /\ Len(branchingPoints') = k /\ branchingPoints'[k] = c
        /\ \A j \in 1 .. k - 1 : branchingPoints'[j] = branchingPoints[j]
    <3>1. /\ Len(Append(u, c)) = Len(u) + 1 /\ Append(u, c)[Len(u) + 1] = c
          /\ \A j \in 1 .. Len(u) : Append(u, c)[j] = u[j]
      BY <2>2, <2>3, AppendFacts
    <3> QED
      BY <2>1, <2>3, <2>4, <3>1
  <2>6. ASSUME NEW j \in 1 .. k, j > nb
        PROVE  Recorded(ontology, Rs, rows', disjunctions', branchingPoints'[j])
    <3>1. CASE j = k
      <4>1. /\ \A i \in 1 .. b.new : rows'[i] = rows'[i]
            /\ \A i \in 1 .. b.disjunctions : disjunctions'[i] = disjunctions'[i]
        OBVIOUS
      <4> QED
        BY Zenon, <1>2, <1>7, <2>2, <2>5, <3>1, <4>1, RecordedAgree
    <3>2. CASE j # k
      <4>1. j \in 1 .. k - 1 /\ j \in 1 .. Level /\ k \in j .. Level
        BY <1>3, <3>2
      <4>2. PICK e : e = branchingPoints[j]
        OBVIOUS
      <4>3. /\ e.new \in Nat /\ e.this \in 0 .. e.new /\ e.disjunctions \in Nat
            /\ e.unprocessed \in 1 .. e.disjunctions + 1
            /\ e.new <= b.new /\ e.disjunctions <= b.disjunctions
        BY Zenon, <1>1, <4>1, <4>2, PointNumbers
      <4>4. Recorded(ontology, Rs, rows, disjunctions, e)
        BY <2>6, <4>1, <4>2 DEF Complete, AllRecorded
      <4>5. /\ \A i \in 1 .. e.new : rows[i] = rows'[i]
            /\ \A i \in 1 .. e.disjunctions : disjunctions[i] = disjunctions'[i]
        <5>1. 1 .. e.new \subseteq 1 .. b.new /\ 1 .. e.disjunctions \subseteq 1 .. b.disjunctions
          BY Zenon, <1>2, <4>3, Nested
        <5> QED
          BY Zenon, <1>5, <5>1
      <4>6. Recorded(ontology, Rs, rows', disjunctions', e)
        BY Zenon, <4>3, <4>4, <4>5, RecordedAgree
      <4> QED
        BY <2>5, <4>1, <4>2, <4>6
    <3> QED
      BY <3>1, <3>2
  <2> QED
    BY <2>5, <2>6 DEF AllRecorded, Level
<1>11. Stages'
  BY DEF Stages
<1> QED
  BY Zenon, <1>9, <1>10, <1>11 DEF Complete

\* A clash sends the calculus back, or ends it.
LEMMA BacktrackOnClashComplete ==
    ASSUME NEW Ms, NEW N, NEW nb \in Nat, NEW Rs, Sound(Ms, N, nb), Sound(Ms, N, nb)',
           Complete(Rs, nb), BacktrackOnClash
    PROVE  Complete(Rs, nb)'
<1>1. PICK d \in clash, k \in 0 .. Level :
         /\ IsMaximum(k, d)
         /\ IF k <= nonbacktrackable
            THEN /\ pc' = "done"
                 /\ UNCHANGED <<table, disjunctions, firstUnprocessed,
                                branchingPoints, clash, pending, pendingDeps>>
            ELSE BacktrackTo(k) /\ StartNextChoice(k, d) /\ pc' = "choice"
  BY Zenon DEF BacktrackOnClash
<1>2. pc = "iterate" /\ UNCHANGED <<ontology, nonbacktrackable, todo>>
  BY DEF BacktrackOnClash
<1>3. nonbacktrackable = nb /\ Level \in Nat
  <2>1. nonbacktrackable = nb /\ branchingPoints \in Seq(BranchingPoint)
    BY DEF Sound, Formed
  <2> QED
    BY <2>1 DEF Level
<1>4. CASE k <= nb
  <2>1. pc' = "done" /\ UNCHANGED <<rows, disjunctions, branchingPoints, clash, pending>>
    BY Zenon, <1>1, <1>3, <1>4 DEF table
  <2>2. Present(Rs)'
    BY Zenon, <2>1 DEF Present, ContainsClash
  <2>3. AllRecorded(Rs, nb)'
    BY Zenon, <1>2, <2>1 DEF Complete, AllRecorded, Level
  <2>4. Stages'
    BY Zenon, <1>2, <2>1 DEF Complete, Stages, ContainsClash
  <2> QED
    BY Zenon, <2>2, <2>3, <2>4 DEF Complete
<1>5. CASE ~(k <= nb)
  <2>1. k \in 1 .. Level /\ k > nb
    BY <1>3, <1>5
  <2> QED
    BY Zenon, <1>1, <1>2, <1>3, <1>5, <2>1, NextChoiceComplete
<1> QED
  BY Zenon, <1>4, <1>5

LEMMA NextComplete ==
    ASSUME NEW Ms, NEW N, NEW nb \in Nat, NEW Rs, Sound(Ms, N, nb), Sound(Ms, N, nb)',
           Complete(Rs, nb), [Next]_vars
    PROVE  Complete(Rs, nb)'
<1>1. CASE UNCHANGED vars
  <2>1. UNCHANGED <<ontology, rows, extensionThis, disjunctions, firstUnprocessed,
                    branchingPoints, clash, todo, pending, pc>>
    BY Zenon, <1>1 DEF vars, table, work
  <2>2. Facts' = Facts
    BY <2>1 DEF Facts
  <2>3. FactsKept(Rs)' = FactsKept(Rs)
    BY <2>1, <2>2, Zenon DEF FactsKept
  <2>4. MatchesKept' = MatchesKept
    BY <2>1, <2>2, Zenon DEF MatchesKept
  <2>5. DisjunctionsKept' = DisjunctionsKept
    BY <2>1, <2>2, Zenon DEF DisjunctionsKept
  <2>6. Present(Rs)' = Present(Rs)
    BY <2>1, <2>2, <2>3, <2>4, <2>5, Zenon DEF Present, ContainsClash
  <2>7. AllRecorded(Rs, nb)' = AllRecorded(Rs, nb)
    BY <2>1, Zenon DEF AllRecorded, Level
  <2>8. Stages' = Stages
    BY <2>1, Zenon DEF Stages, ContainsClash
  <2> QED
    BY <2>6, <2>7, <2>8, Zenon DEF Complete
<1> QED
  BY Zenon, <1>1, AssertPendingStores, StoresPendingComplete, AssertedComplete, PropagateDeltaNewComplete,
     DeriveComplete, PassFinishedComplete, ProcessFirstGroundDisjunctionComplete,
     BacktrackOnClashComplete DEF Next, Step, Finished

-----------------------------------------------------------------------------
(* The result.                                                             *)

\* At the end of a run without a clash the atoms in the table make the clauses and
\* the literals the run is about true.
LEMMA TableIsModel ==
    ASSUME NEW Ms, NEW N, NEW nb \in Nat, NEW Rs,
           Sound(Ms, N, nb), Complete(Rs, nb), pc = "done", ~ContainsClash
    PROVE  LET M == {a \in Atoms : Pos(a) \in Facts}
           IN  /\ \A c \in ontology.clauses : c.body \subseteq M => SomeHolds(M, c.head)
               /\ \A l \in Rs : Holds(M, l)
<1> DEFINE M == {a \in Atoms : Pos(a) \in Facts}
<1>1. /\ Consistent(Facts) /\ FactsKept(Rs) /\ MatchesKept /\ DisjunctionsKept
      /\ pending = <<>> /\ todo = {} /\ extensionThis = Len(rows)
      /\ firstUnprocessed = Len(disjunctions) + 1
  BY Zenon DEF Sound, TodoMatched, Complete, Present, Stages
<1>2. /\ rows \in Seq(Row) /\ Len(disjunctions) \in Nat /\ ontology \in Ontology
  <2>1. rows \in Seq(Row) /\ disjunctions \in Seq(Disjunction) /\ ontology \in Ontologies
    BY Zenon DEF Sound, Formed
  <2> QED
    BY <2>1, DomainOf, OntologiesAssumption
<1>3. Facts = Prefix(rows, extensionThis) /\ Facts \subseteq Literal
  BY Zenon, <1>1, <1>2, FactsArePrefix
<1>4. \A ds \in Seq(Atoms) : Chosen(Facts, ds) => SomeHolds(M, ds)
  BY DEF Chosen, SomeHolds
<1>5. ASSUME NEW c \in ontology.clauses, c.body \subseteq M
      PROVE  SomeHolds(M, c.head)
  <2>1. c.head \in Seq(Atoms)
    BY Zenon, <1>2 DEF Ontology, Clause
  <2>2. Matched(Prefix(rows, extensionThis), c)
    BY Zenon, <1>3, <1>5 DEF Matched
  <2>3. Handled(Facts, disjunctions, Len(disjunctions), c)
    BY Zenon, <1>1, <2>2 DEF MatchesKept
  <2>4. Chosen(Facts, c.head)
    <3> SUFFICES ASSUME NEW g \in 1 .. Len(disjunctions), disjunctions[g].disjuncts = c.head
                 PROVE  Chosen(Facts, disjunctions[g].disjuncts)
      BY Zenon, <2>3 DEF Handled
    <3>1. g \in 1 .. firstUnprocessed - 1
      BY <1>1, <1>2
    <3> QED
      BY <1>1, <3>1 DEF DisjunctionsKept
  <2> QED
    BY <1>4, <2>1, <2>4
<1>6. ASSUME NEW x \in Rs
      PROVE  Holds(M, x)
  <2>1. PICK l \in Facts : l = x
    BY <1>1 DEF FactsKept
  <2>2. l \in Literal /\ Complement(l) \notin Facts
    BY Zenon, <1>1, <1>3 DEF Consistent
  <2>3. CASE l.sign = "+"
    <3>1. l = Pos(l.atom) /\ l.atom \in Atoms
      BY Zenon, <2>2, <2>3 DEF Literal, Pos
    <3> QED
      BY Zenon, <2>1, <2>3, <3>1 DEF Holds
  <2>4. CASE l.sign # "+"
    BY <2>1, <2>2, <2>4 DEF Holds, Complement
  <2> QED
    BY Zenon, <2>3, <2>4
<1> QED
  BY <1>5, <1>6

\* A run on its own is about the facts of its ABox.
ABoxFacts == {ontology.facts[i] : i \in DOMAIN ontology.facts}

CompleteInv == Inv /\ Complete(ABoxFacts, 0)

\* In every state what the branching points recorded is complete, and so is the
\* present unless it has a clash.
THEOREM Completeness == Spec => []CompleteInv
<1>1. Init => CompleteInv
  <2> SUFFICES ASSUME Init PROVE CompleteInv
    OBVIOUS
  <2>1. PICK Rs : Rs = ABoxFacts
    OBVIOUS
  <2>2. Complete(Rs, 0)
    BY <2>1, InitComplete DEF ABoxFacts
  <2> QED
    BY <2>1, <2>2, InitInv DEF CompleteInv
<1>2. CompleteInv /\ [Next]_vars => CompleteInv'
  <2> SUFFICES ASSUME CompleteInv, [Next]_vars PROVE CompleteInv'
    OBVIOUS
  <2>1. PICK Ms, Rs : Ms = Models /\ Rs = ABoxFacts
    BY Zenon
  <2>2. Sound(Ms, {}, 0) /\ Sound(Ms, {}, 0)' /\ Complete(Rs, 0)
    BY Zenon, <2>1, NextSound DEF CompleteInv, Inv
  <2>3. Complete(Rs, 0)'
    BY <2>2, NextComplete
  <2>4. ABoxFacts' = ABoxFacts
    <3>1. ontology' = ontology
      BY Zenon DEF Next, Step, Finished, AssertPending, Asserted, PropagateDeltaNew, DeriveClash,
             DeriveFact, DeriveDisjunction, Fire, PassFinished,
             ProcessFirstGroundDisjunction, BacktrackOnClash, vars
    <3> QED
      BY Zenon, <3>1 DEF ABoxFacts
  <2> QED
    BY <2>1, <2>3, <2>4, NextInv DEF CompleteInv
<1> QED
  BY <1>1, <1>2, PTL DEF Spec

\* A run that ends without a clash has a model of the clauses and the ABox in its
\* table: no match and no disjunction was lost, by backtracking or otherwise.
THEOREM ModelFound == Spec => []ModelAnswer
<1>1. CompleteInv => ModelAnswer
  <2> SUFFICES ASSUME CompleteInv, pc = "done", ~ContainsClash
               PROVE  {a \in Atoms : Pos(a) \in Facts} \in Models
    BY DEF ModelAnswer
  <2>1. PICK Ms, Rs : Ms = Models /\ Rs = ABoxFacts
    OBVIOUS
  <2>2. Sound(Ms, {}, 0) /\ Complete(Rs, 0)
    BY Zenon, <2>1 DEF CompleteInv, Inv
  <2> DEFINE M == {a \in Atoms : Pos(a) \in Facts}
  <2>3. /\ \A c \in ontology.clauses : c.body \subseteq M => SomeHolds(M, c.head)
        /\ \A l \in Rs : Holds(M, l)
    BY <2>2, TableIsModel
  <2> QED
    BY <2>1, <2>3 DEF Models, ABoxFacts
<1> QED
  BY <1>1, Completeness, PTL
=============================================================================
