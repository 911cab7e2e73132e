--------------------------- MODULE CalculusProofs ---------------------------
(***************************************************************************)
(* Dependency-directed backtracking is sound for every set of clauses: the *)
(* answer "no model" is never given to facts and clauses that have one.    *)
(*                                                                         *)
(* The inductive invariant says of every dependency set in use that it     *)
(* names live, unexhausted branching points only, and that the choices     *)
(* below each of them that it also names refute the disjuncts given up     *)
(* there (Grounded).  With the meaning of the dependency sets              *)
(* (DependenciesJustify, PendingJustified) this carries over a clash: the  *)
(* clash refutes the current disjunct as well, and at the last disjunct    *)
(* the disjunction itself forces it.                                       *)
(***************************************************************************)
EXTENDS Calculus, TLAPS

\* Every leaf that names no prover is given to these, in this order.
USE SMTT(90), ZenonT(60)

-----------------------------------------------------------------------------
(* Dependency sets.                                                        *)

\* What Append returns.
LEMMA AppendFacts ==
    ASSUME NEW S, NEW u \in Seq(S), NEW c \in S
    PROVE  /\ Append(u, c) \in Seq(S) /\ Len(Append(u, c)) = Len(u) + 1
           /\ Append(u, c)[Len(u) + 1] = c
           /\ \A j \in 1 .. Len(u) : Append(u, c)[j] = u[j]
  OBVIOUS

\* What a dependency set says depends only on the branching points it names.
LEMMA ChoicesAgree ==
    ASSUME NEW s, NEW t, NEW n \in Nat, \A k \in 1 .. n : s[k] = t[k],
           NEW N, NEW M, NEW deps, deps \subseteq 1 .. n
    PROVE  AllStand(N, s, M, deps) <=> AllStand(N, t, M, deps)
  BY DEF AllStand, Stands, ChoiceHolds

\* A dependency set stays grounded while the branching points it names stay
\* as they are.
LEMMA GroundedAgree ==
    ASSUME NEW s, NEW t, NEW n \in Nat, \A k \in 1 .. n : s[k] = t[k],
           Len(t) \in Nat, n <= Len(t),
           NEW Ms, NEW N, NEW nb \in Nat, NEW deps, deps \subseteq 1 .. n, Grounded(Ms, N, nb, s, deps)
    PROVE  Grounded(Ms, N, nb, t, deps)
<1>1. deps \subseteq 1 .. Len(t)
  OBVIOUS
<1>2. \A k \in deps : k > nb => t[k].current < Len(t[k].choices)
  BY Zenon DEF Grounded
<1>3. ASSUME NEW M \in Ms, NEW k \in deps, k > nb,
             AllStand(N, t, M, {j \in deps : j < k})
      PROVE  Refuted(t, M, k)
  <2>1. AllStand(N, s, M, {j \in deps : j < k})
    BY Zenon, <1>3, ChoicesAgree
  <2>2. Refuted(s, M, k)
    BY Zenon, <1>3, <2>1 DEF Grounded
  <2>3. s[k] = t[k]
    OBVIOUS
  <2> QED
    BY <2>2, <2>3 DEF Refuted
<1> QED
  BY <1>1, <1>2, <1>3 DEF Grounded

\* The union of grounded dependency sets is grounded.
LEMMA GroundedUnion ==
    ASSUME NEW Ms, NEW N, NEW nb \in Nat, NEW stack, NEW D, \A deps \in D : Grounded(Ms, N, nb, stack, deps)
    PROVE  Grounded(Ms, N, nb, stack, UNION D)
<1>1. ASSUME NEW M \in Ms, NEW k \in UNION D, k > nb,
             AllStand(N, stack, M, {j \in UNION D : j < k})
      PROVE  Refuted(stack, M, k)
  <2>1. PICK deps \in D : k \in deps
    OBVIOUS
  <2>2. AllStand(N, stack, M, {j \in deps : j < k})
    BY <1>1 DEF AllStand
  <2> QED
    BY <1>1, <2>1, <2>2 DEF Grounded
<1>2. UNION D \subseteq 1 .. Len(stack)
  BY DEF Grounded
<1>3. \A k \in UNION D : k > nb => stack[k].current < Len(stack[k].choices)
  BY DEF Grounded
<1> QED
  BY <1>1, <1>2, <1>3 DEF Grounded

\* So is the union of two.
LEMMA GroundedCup ==
    ASSUME NEW Ms, NEW N, NEW nb \in Nat, NEW stack, NEW d, NEW e,
           Grounded(Ms, N, nb, stack, d), Grounded(Ms, N, nb, stack, e)
    PROVE  Grounded(Ms, N, nb, stack, d \cup e)
<1>1. d \cup e = UNION {d, e}
  OBVIOUS
<1>2. \A x \in {d, e} : Grounded(Ms, N, nb, stack, x)
  OBVIOUS
<1>3. Grounded(Ms, N, nb, stack, UNION {d, e})
  BY Zenon, <1>2, GroundedUnion
<1> QED
  BY <1>1, <1>3

\* The empty dependency set, of the facts that were loaded, is grounded.
LEMMA GroundedEmpty ==
    ASSUME NEW Ms, NEW N, NEW nb \in Nat, NEW stack
    PROVE  Grounded(Ms, N, nb, stack, {})
  BY DEF Grounded

\* The dependency set of a fact in the table is grounded and justifies it.
LEMMA DepsOfFact ==
    ASSUME NEW Ms, NEW N, NEW nb \in Nat, Sound(Ms, N, nb),
           NEW l
    PROVE  /\ DepsOf(l) \in SUBSET Nat
           /\ Grounded(Ms, N, nb, branchingPoints, DepsOf(l))
           /\ l \in Facts => \A M \in Ms :
                 AllStand(N, branchingPoints, M, DepsOf(l)) => Holds(M, l)
<1>1. \A i \in DOMAIN rows : rows[i].deps \in SUBSET Nat
  <2>1. rows \in Seq(Row)
    BY DEF Sound, Formed
  <2>2. \A i \in DOMAIN rows : rows[i] \in Row
    BY <2>1
  <2> QED
    BY <2>2 DEF Row
<1>2. \A i \in DOMAIN rows : Grounded(Ms, N, nb, branchingPoints, rows[i].deps)
  BY DEF Sound, AllGrounded, LiveDeps
<1>4. Grounded(Ms, N, nb, branchingPoints, DepsOf(l))
  BY Zenon, <1>2, GroundedUnion DEF DepsOf
<1>3. ASSUME l \in Facts, NEW M \in Ms,
             AllStand(N, branchingPoints, M, DepsOf(l))
      PROVE  Holds(M, l)
  <2>1. PICK i \in DOMAIN rows : rows[i].lit = l
    BY <1>3 DEF Facts
  <2>2. AllStand(N, branchingPoints, M, rows[i].deps)
    BY <1>3, <2>1 DEF AllStand, DepsOf
  <2> QED
    BY <2>1, <2>2 DEF Sound, Justified
<1> QED
  BY <1>1, <1>3, <1>4 DEF DepsOf

\* So are those of a clause body in the table; a model that agrees with them
\* makes the whole body true.
LEMMA DepsOfBody ==
    ASSUME NEW Ms, NEW N, NEW nb \in Nat, Sound(Ms, N, nb),
           NEW c, \A a \in c.body : Pos(a) \in Facts
    PROVE  /\ BodyDeps(c) \in SUBSET Nat
           /\ Grounded(Ms, N, nb, branchingPoints, BodyDeps(c))
           /\ \A M \in Ms :
                 AllStand(N, branchingPoints, M, BodyDeps(c)) => c.body \subseteq M
<1>1. BodyDeps(c) \in SUBSET Nat /\ Grounded(Ms, N, nb, branchingPoints, BodyDeps(c))
  <2>1. \A deps \in {DepsOf(Pos(a)) : a \in c.body} :
           deps \in SUBSET Nat /\ Grounded(Ms, N, nb, branchingPoints, deps)
    BY DepsOfFact
  <2>2. Grounded(Ms, N, nb, branchingPoints, UNION {DepsOf(Pos(a)) : a \in c.body})
    BY Zenon, <2>1, GroundedUnion
  <2> QED
    BY <2>1, <2>2 DEF BodyDeps
<1>2. ASSUME NEW M \in Ms, AllStand(N, branchingPoints, M, BodyDeps(c)),
             NEW a \in c.body
      PROVE  a \in M
  <2>1. AllStand(N, branchingPoints, M, DepsOf(Pos(a)))
    BY <1>2 DEF AllStand, BodyDeps
  <2>2. Holds(M, Pos(a))
    BY <2>1, DepsOfFact
  <2> QED
    BY <2>2 DEF Holds, Pos
<1> QED
  BY <1>1, <1>2
-----------------------------------------------------------------------------
(* Storing a tuple, on the stack as it is or on one with a level more.     *)

\* add_tuple keeps the tables well formed and every dependency set justified: a new
\* fact brings its own, and a clash is given the sets of both its facts.
LEMMA AddFactKeeps ==
    ASSUME NEW Ms, NEW N, NEW nb \in Nat, Sound(Ms, N, nb),
           NEW l \in Literal, NEW d \in SUBSET Nat, AddFact(l, d),
           ontology' = ontology, disjunctions' = disjunctions,
           branchingPoints' \in Seq(BranchingPoint),
           Len(branchingPoints) <= Len(branchingPoints'),
           \A k \in 1 .. Level : branchingPoints[k] = branchingPoints'[k],
           Grounded(Ms, N, nb, branchingPoints', d),
           \A M \in Ms : AllStand(N, branchingPoints', M, d) => Holds(M, l)
    PROVE  /\ rows' \in Seq(Row)
           /\ Len(rows) <= Len(rows')
           /\ \A i \in 1 .. Len(rows) : rows'[i] = rows[i]
           /\ clash' \in SUBSET SUBSET Nat
           /\ \A i \in DOMAIN rows' : Grounded(Ms, N, nb, branchingPoints', rows'[i].deps)
           /\ \A i \in DOMAIN disjunctions' :
                 Grounded(Ms, N, nb, branchingPoints', disjunctions'[i].deps)
           /\ \A deps \in clash' : Grounded(Ms, N, nb, branchingPoints', deps)
           /\ Justified(Ms, N)'
<1> DEFINE s == branchingPoints
           t == branchingPoints'
           r == [lit |-> l, deps |-> d]
<1>0. /\ rows \in Seq(Row) /\ disjunctions \in Seq(Disjunction)
      /\ s \in Seq(BranchingPoint) /\ clash \in SUBSET SUBSET Nat
  BY DEF Sound, Formed
<1>2. r \in Row
  BY DEF Row
<1>3. /\ Len(s) \in Nat /\ Len(t) \in Nat /\ Len(s) <= Len(t)
      /\ \A k \in 1 .. Len(s) : s[k] = t[k]
  BY <1>0 DEF Level
<1>4. ASSUME NEW deps, Grounded(Ms, N, nb, s, deps)
      PROVE  /\ Grounded(Ms, N, nb, t, deps)
             /\ \A M : AllStand(N, s, M, deps) <=> AllStand(N, t, M, deps)
  <2>1. deps \subseteq 1 .. Len(s)
    BY <1>4 DEF Grounded
  <2> HIDE DEF s, t
  <2>2. Grounded(Ms, N, nb, t, deps)
    BY Zenon, <1>3, <1>4, <2>1, GroundedAgree
  <2>3. \A M : AllStand(N, s, M, deps) <=> AllStand(N, t, M, deps)
    BY Zenon, <1>3, <2>1, ChoicesAgree
  <2> QED
    BY <2>2, <2>3
<1>5. /\ \A i \in DOMAIN rows : Grounded(Ms, N, nb, s, rows[i].deps)
      /\ \A i \in DOMAIN disjunctions : Grounded(Ms, N, nb, s, disjunctions[i].deps)
      /\ \A deps \in clash : Grounded(Ms, N, nb, s, deps)
  BY DEF Sound, AllGrounded, LiveDeps
<1>6. /\ \A i \in DOMAIN rows : Grounded(Ms, N, nb, t, rows[i].deps)
      /\ \A i \in DOMAIN disjunctions : Grounded(Ms, N, nb, t, disjunctions[i].deps)
      /\ \A deps \in clash : Grounded(Ms, N, nb, t, deps)
  BY <1>4, <1>5
<1>7. \A M \in Ms :
         /\ \A i \in DOMAIN rows : AllStand(N, t, M, rows[i].deps) => Holds(M, rows[i].lit)
         /\ \A i \in DOMAIN disjunctions :
               AllStand(N, t, M, disjunctions[i].deps) => SomeHolds(M, disjunctions[i].disjuncts)
         /\ \A deps \in clash : ~AllStand(N, t, M, deps)
  BY <1>4, <1>5 DEF Sound, Justified
<1> HIDE DEF s, t
<1>8. CASE l \in Facts
  <2>1. rows' = rows /\ clash' = clash
    BY <1>8 DEF AddFact
  <2>2. Justified(Ms, N)'
    BY <1>7, <2>1 DEF Justified, s, t
  <2> QED
    BY <1>0, <1>6, <2>1, <2>2 DEF s, t
<1>9. CASE l \notin Facts
  <2> DEFINE e == DepsOf(Complement(l))
  <2>1. rows' = Append(rows, r)
    BY <1>9 DEF AddFact
  <2>2. /\ rows' \in Seq(Row) /\ Len(rows') = Len(rows) + 1
        /\ \A i \in 1 .. Len(rows) : rows'[i] = rows[i]
        /\ rows'[Len(rows) + 1] = r
        /\ DOMAIN rows' = 1 .. Len(rows) + 1
        /\ DOMAIN rows = 1 .. Len(rows)
    BY <1>0, <1>2, <2>1
  <2>3. \A i \in DOMAIN rows' :
           \/ i \in DOMAIN rows /\ rows'[i] = rows[i]
           \/ rows'[i] = r
    BY <2>2, <1>0
  <2>4. \A i \in DOMAIN rows' : Grounded(Ms, N, nb, t, rows'[i].deps)
    BY <1>6, <2>3 DEF s, t
  <2>5. \A M \in Ms : \A i \in DOMAIN rows' :
           AllStand(N, t, M, rows'[i].deps) => Holds(M, rows'[i].lit)
    BY <1>7, <2>3 DEF s, t
  <2>6. /\ clash' \in SUBSET SUBSET Nat
        /\ \A deps \in clash' : Grounded(Ms, N, nb, t, deps)
        /\ \A M \in Ms : \A deps \in clash' : ~AllStand(N, t, M, deps)
    <3>1. CASE Complement(l) \in Facts
      <4>1. clash' = {d \cup e}
        BY <1>9, <3>1 DEF AddFact
      <4>2. /\ e \in SUBSET Nat /\ Grounded(Ms, N, nb, s, e)
            /\ \A M \in Ms : AllStand(N, s, M, e) => Holds(M, Complement(l))
        BY <3>1, DepsOfFact DEF s
      <4>3. /\ Grounded(Ms, N, nb, t, e)
            /\ \A M \in Ms : AllStand(N, t, M, e) => Holds(M, Complement(l))
        BY <1>4, <4>2
      <4>4. Grounded(Ms, N, nb, t, d \cup e)
        <5> HIDE DEF e
        <5> QED
          BY <4>3, GroundedCup DEF t
      <4>5. ASSUME NEW M \in Ms
            PROVE  ~AllStand(N, t, M, d \cup e)
        <5>1. Holds(M, l) => ~Holds(M, Complement(l))
          BY DEF Holds, Complement, Pos, Neg, Literal
        <5>2. AllStand(N, t, M, d \cup e) => AllStand(N, t, M, d) /\ AllStand(N, t, M, e)
          BY Zenon DEF AllStand
        <5> QED
          BY <4>3, <5>1, <5>2 DEF t
      <4> QED
        BY Zenon, <4>1, <4>2, <4>4, <4>5
    <3>2. CASE Complement(l) \notin Facts
      <4>1. clash' = clash
        BY <1>9, <3>2 DEF AddFact
      <4> QED
        BY <1>0, <1>6, <1>7, <4>1
    <3> QED
      BY <3>1, <3>2
  <2>7. Justified(Ms, N)'
    BY <1>7, <2>5, <2>6 DEF Justified, t
  <2> QED
    BY SMTT(30), <1>0, <1>6, <2>2, <2>4, <2>6, <2>7 DEF t
<1> QED
  BY <1>8, <1>9

\* Longer sequences have longer ranges of positions.
LEMMA Ranges ==
    ASSUME NEW n \in Nat, NEW m \in Nat, n <= m
    PROVE  0 .. n \subseteq 0 .. m /\ 1 .. n \subseteq 1 .. m /\ 1 .. n + 1 \subseteq 1 .. m + 1
  OBVIOUS

LEMMA LengthOf ==
    ASSUME NEW S, NEW s \in Seq(S)
    PROVE  Len(s) \in Nat /\ Len(s) <= Len(s) /\ DOMAIN s = 1 .. Len(s)
  OBVIOUS

\* Growing the table and the queue leaves what the branching points recorded.
LEMMA PrefixKept ==
    ASSUME NEW Ms, NEW N, NEW nb \in Nat, Sound(Ms, N, nb),
           branchingPoints' = branchingPoints,
           Len(rows) \in Nat, Len(rows') \in Nat, Len(rows) <= Len(rows'),
           \A i \in 1 .. Len(rows) : rows'[i] = rows[i],
           Len(disjunctions) \in Nat, Len(disjunctions') \in Nat,
           Len(disjunctions) <= Len(disjunctions'),
           \A i \in 1 .. Len(disjunctions) : disjunctions'[i] = disjunctions[i]
    PROVE  StackRecordsPrefix'
<1>1. branchingPoints \in Seq(BranchingPoint)
  BY DEF Sound, Formed
<1>2. \A k \in 1 .. Level : branchingPoints[k] \in BranchingPoint
  BY <1>1 DEF Level
<1>3. \A k \in 1 .. Level : branchingPoints[k].new \in Nat /\ branchingPoints[k].disjunctions \in Nat
  BY Zenon, <1>2 DEF BranchingPoint
<1>4. StackRecordsPrefix /\ Level' = Level
  BY DEF Sound, Level
<1>5. ASSUME NEW k \in 1 .. Level
      PROVE  RecordsPrefix(k)'
  <2>1. RecordsPrefix(k)
    BY <1>4 DEF StackRecordsPrefix
  <2>2. PICK n \in Nat, m \in Nat : n = branchingPoints[k].new /\ m = branchingPoints[k].disjunctions
    BY Zenon, <1>3
  <2>3. /\ n <= Len(rows) /\ \A i \in 1 .. n : rows[i].deps \subseteq 1 .. k - 1
        /\ m <= Len(disjunctions)
        /\ \A i \in 1 .. m : disjunctions[i].deps \subseteq 1 .. k - 1
    BY Zenon, <2>1, <2>2 DEF RecordsPrefix
  <2>4. n <= Len(rows') /\ \A i \in 1 .. n : rows'[i].deps \subseteq 1 .. k - 1
    <3>1. 1 .. n \subseteq 1 .. Len(rows)
      BY <2>3
    <3>2. \A i \in 1 .. n : rows'[i] = rows[i]
      BY <3>1
    <3> QED
      BY <2>3, <3>2
  <2>5. m <= Len(disjunctions') /\ \A i \in 1 .. m : disjunctions'[i].deps \subseteq 1 .. k - 1
    <3>1. 1 .. m \subseteq 1 .. Len(disjunctions)
      BY <2>3
    <3>2. \A i \in 1 .. m : disjunctions'[i] = disjunctions[i]
      BY <3>1
    <3> QED
      BY <2>3, <3>2
  <2> QED
    BY Zenon, <1>4, <2>1, <2>2, <2>4, <2>5 DEF RecordsPrefix
<1> QED
  BY <1>4, <1>5 DEF StackRecordsPrefix

\* A fact once stored stays stored while the table only grows.
LEMMA FactsGrow ==
    ASSUME rows \in Seq(Row), rows' \in Seq(Row), Len(rows) <= Len(rows'),
           \A i \in 1 .. Len(rows) : rows'[i] = rows[i]
    PROVE  Facts \subseteq Facts'
<1> SUFFICES ASSUME NEW l \in Facts PROVE l \in Facts'
  OBVIOUS
<1>1. PICK i \in DOMAIN rows : rows[i].lit = l
  BY DEF Facts
<1>2. i \in DOMAIN rows' /\ rows'[i].lit = l
  BY <1>1
<1> QED
  BY <1>2 DEF Facts

\* An action that moves only cursors and control keeps what is said of the rest.
LEMMA FrameKeeps ==
    ASSUME NEW Ms, NEW N, NEW nb \in Nat, Sound(Ms, N, nb),
           UNCHANGED <<ontology, rows, disjunctions, branchingPoints, clash,
                            pending, pendingDeps>>
    PROVE  /\ StackRecordsPrefix' /\ Branching(nb)' /\ AllGrounded(Ms, N, nb)'
           /\ Justified(Ms, N)' /\ PendingJustified(Ms, N)' /\ Facts' = Facts
<1>1. LiveDeps' = LiveDeps /\ Level' = Level /\ Facts' = Facts
  BY DEF LiveDeps, Level, Facts
<1>2. StackRecordsPrefix'
  BY Zenon, <1>1 DEF Sound, StackRecordsPrefix, RecordsPrefix
<1>3. Branching(nb)'
  BY <1>1 DEF Sound, Branching
<1>4. AllGrounded(Ms, N, nb)'
  BY <1>1 DEF Sound, AllGrounded
<1>5. Justified(Ms, N)'
  BY <1>1 DEF Sound, Justified
<1>6. PendingJustified(Ms, N)'
  BY <1>1 DEF Sound, PendingJustified
<1> QED
  BY <1>1, <1>2, <1>3, <1>4, <1>5, <1>6

-----------------------------------------------------------------------------
(* The initial state and the steps.                                        *)

\* The invariant holds before the ABox is loaded.
LEMMA InitSound ==
    ASSUME NEW Ms, NEW N, Init, Ms = Models
    PROVE  Sound(Ms, N, 0)
<1>1. ontology \in Ontology
  BY OntologiesAssumption DEF Init
<1>2. ontology.facts \in Seq(Literal)
  BY <1>1 DEF Ontology
<1>3. Formed(Ms, 0)
  BY <1>2 DEF Init, Formed, Models, Obey
<1>4. Level = 0 /\ DOMAIN rows = {} /\ DOMAIN disjunctions = {}
  BY DEF Init, Level
<1>5. StackRecordsPrefix /\ Branching(0)
  BY <1>4 DEF StackRecordsPrefix, Branching
<1>6. LiveDeps \subseteq {{}}
  BY <1>4 DEF Init, LiveDeps
<1>7. AllGrounded(Ms, N, 0)
  BY <1>6, GroundedEmpty DEF AllGrounded
<1>8. Justified(Ms, N)
  BY <1>4 DEF Init, Justified
<1>9. PendingJustified(Ms, N)
  BY DEF Init, PendingJustified, Models
<1>10. TodoMatched /\ Phases(0)
  BY DEF Init, TodoMatched, Phases
<1> QED
  BY <1>3, <1>5, <1>7, <1>8, <1>9, <1>10 DEF Sound

\* A fact goes from pending to the table, or is left out as a negation nobody
\* looks at; loading stops at a clash.
StoresPending ==
    /\ pc \in {"load", "choice", "test"} /\ pending # <<>>
    /\ \/ AddFact(Head(pending), pendingDeps)
       \/ UNCHANGED <<rows, clash>> /\ pc = "choice" /\ Head(pending).sign = "-"
    /\ pending' = Tail(pending) \/ (pending' = <<>> /\ clash' # {})
    /\ UNCHANGED <<ontology, extensionOld, extensionThis, disjunctions, firstUnprocessed,
                   branchingPoints, nonbacktrackable, todo, pendingDeps, pc>>

LEMMA AssertPendingStores ==
    ASSUME AssertPending
    PROVE  StoresPending
  BY Zenon DEF AssertPending, StoresPending

\* It is kept by storing a fact of the ABox, of a test or of the next choice.
LEMMA StoresPendingInv ==
    ASSUME NEW Ms, NEW N, NEW nb \in Nat, Sound(Ms, N, nb), StoresPending
    PROVE  Sound(Ms, N, nb)'
<1> DEFINE l == Head(pending)
<1>0. /\ Formed(Ms, nb) /\ TodoMatched /\ Phases(nb) /\ PendingJustified(Ms, N) /\ Branching(nb)
      /\ rows \in Seq(Row) /\ disjunctions \in Seq(Disjunction)
      /\ pending \in Seq(Literal) /\ pending # <<>> /\ pendingDeps \in SUBSET Nat
      /\ branchingPoints \in Seq(BranchingPoint)
  BY Zenon DEF Sound, Formed, StoresPending
<1>1. UNCHANGED <<ontology, extensionOld, extensionThis, disjunctions,
                  firstUnprocessed, branchingPoints, nonbacktrackable, todo,
                  pendingDeps, pc>>
  BY DEF StoresPending
<1>2. /\ l \in Literal /\ l = pending[1]
      /\ pending' \in Seq(Literal)
      /\ \A i \in DOMAIN pending' : i + 1 \in DOMAIN pending /\ pending'[i] = pending[i + 1]
      /\ 1 \in DOMAIN pending
  <2>1. l \in Literal /\ l = pending[1] /\ 1 \in DOMAIN pending
    BY <1>0
  <2>2. CASE pending' = Tail(pending)
    BY <1>0, <2>1, <2>2
  <2>3. CASE pending' = <<>>
    BY <1>0, <2>1, <2>3
  <2> QED
    BY <2>2, <2>3 DEF StoresPending
<1>3. Level' = Level
  BY Zenon, <1>1 DEF Level
<1>4. Grounded(Ms, N, nb, branchingPoints, pendingDeps)
  BY <1>0 DEF Sound, AllGrounded, LiveDeps
<1>5. \A M \in Ms : AllStand(N, branchingPoints, M, pendingDeps) => Holds(M, l)
  BY Zenon, <1>0, <1>2 DEF PendingJustified
<1>6. /\ rows' \in Seq(Row)
      /\ Len(rows) <= Len(rows')
      /\ \A i \in 1 .. Len(rows) : rows'[i] = rows[i]
      /\ clash' \in SUBSET SUBSET Nat
      /\ \A i \in DOMAIN rows' : Grounded(Ms, N, nb, branchingPoints', rows'[i].deps)
      /\ \A i \in DOMAIN disjunctions' :
            Grounded(Ms, N, nb, branchingPoints', disjunctions'[i].deps)
      /\ \A deps \in clash' : Grounded(Ms, N, nb, branchingPoints', deps)
      /\ Justified(Ms, N)'
  <2>1. CASE AddFact(l, pendingDeps)
    <3> HIDE DEF l
    <3>1. /\ branchingPoints' \in Seq(BranchingPoint)
          /\ Len(branchingPoints) <= Len(branchingPoints')
          /\ \A k \in 1 .. Level : branchingPoints[k] = branchingPoints'[k]
          /\ Grounded(Ms, N, nb, branchingPoints', pendingDeps)
          /\ \A M \in Ms : AllStand(N, branchingPoints', M, pendingDeps) => Holds(M, l)
      BY <1>0, <1>1, <1>4, <1>5
    <3> QED
      BY Zenon, <1>0, <1>1, <1>2, <2>1, <3>1, AddFactKeeps
  <2>2. CASE rows' = rows /\ clash' = clash
    <3>1. Justified(Ms, N)'
      BY Zenon, <1>1, <1>3, <2>2 DEF Sound, Justified
    <3>2. /\ \A i \in DOMAIN rows : Grounded(Ms, N, nb, branchingPoints, rows[i].deps)
          /\ \A i \in DOMAIN disjunctions : Grounded(Ms, N, nb, branchingPoints, disjunctions[i].deps)
          /\ \A deps \in clash : Grounded(Ms, N, nb, branchingPoints, deps)
      BY Zenon DEF Sound, AllGrounded, LiveDeps
    <3>3. rows' \in Seq(Row) /\ clash' \in SUBSET SUBSET Nat
      BY Zenon, <1>0, <2>2 DEF Formed
    <3>4. Len(rows) <= Len(rows')
      BY Zenon, <1>0, <2>2, LengthOf
    <3> QED
      BY Zenon, <1>1, <2>2, <3>1, <3>2, <3>3, <3>4
  <2> QED
    BY Zenon, <2>1, <2>2 DEF StoresPending
<1>7. /\ Len(rows) \in Nat /\ Len(rows') \in Nat
      /\ Len(disjunctions) \in Nat /\ Len(disjunctions) <= Len(disjunctions)
  BY Zenon, <1>0, <1>6, LengthOf
<1>8. StackRecordsPrefix'
  BY Zenon, <1>1, <1>6, <1>7, PrefixKept
<1>9. Formed(Ms, nb)'
  <2>0. 0 .. Len(rows) \subseteq 0 .. Len(rows') /\ 1 .. Len(rows) \subseteq 1 .. Len(rows')
    BY Zenon, <1>6, <1>7, Ranges
  <2>1. extensionThis' \in 0 .. Len(rows') /\ extensionOld' \in 0 .. extensionThis'
    BY Zenon, <1>0, <1>1, <2>0 DEF Formed
  <2>2. todo' \in SUBSET (ontology'.clauses \X (1 .. Len(rows')))
    BY Zenon, <1>0, <1>1, <2>0 DEF Formed
  <2> QED
    BY Zenon, <1>0, <1>1, <1>2, <1>6, <2>1, <2>2 DEF Formed
<1>10. AllGrounded(Ms, N, nb)'
  BY Zenon, <1>0, <1>1, <1>3, <1>4, <1>6 DEF AllGrounded, LiveDeps
<1>11. PendingJustified(Ms, N)'
  BY Zenon, <1>0, <1>1, <1>2, <1>3 DEF PendingJustified
<1>12. TodoMatched'
  <2>1. Facts \subseteq Facts'
    BY Zenon, <1>0, <1>6, FactsGrow
  <2> QED
    BY Zenon, <1>0, <1>1, <2>1 DEF TodoMatched
<1>13. Phases(nb)' /\ Branching(nb)'
  BY Zenon, <1>0, <1>1, <1>3 DEF Phases, Branching, StoresPending
<1> QED
  BY Zenon, <1>6, <1>8, <1>9, <1>10, <1>11, <1>12, <1>13 DEF Sound

\* It is kept when the last of those facts is in.
LEMMA AssertedInv ==
    ASSUME NEW Ms, NEW N, NEW nb \in Nat, Sound(Ms, N, nb), Asserted
    PROVE  Sound(Ms, N, nb)'
<1>1. UNCHANGED <<ontology, rows, extensionOld, extensionThis, disjunctions,
                  firstUnprocessed, branchingPoints, nonbacktrackable, clash,
                  todo, pending, pendingDeps>>
  BY DEF Asserted, table, work
<1>2. StackRecordsPrefix' /\ Branching(nb)' /\ AllGrounded(Ms, N, nb)' /\ Justified(Ms, N)'
      /\ PendingJustified(Ms, N)' /\ Facts' = Facts
  BY Zenon, <1>1, FrameKeeps
<1>3. Formed(Ms, nb)'
  BY Zenon, <1>1 DEF Sound, Formed, Asserted
<1>4. TodoMatched'
  BY Zenon, <1>1, <1>2 DEF Sound, TodoMatched, Asserted
<1>5. Phases(nb)'
  <2>1. ASSUME pc = "load", ContainsClash PROVE {} \in clash
    <3>1. PICK d \in clash : TRUE
      BY Zenon, <2>1 DEF ContainsClash
    <3>2. Grounded(Ms, N, nb, branchingPoints, d)
      BY DEF Sound, AllGrounded, LiveDeps
    <3>3. branchingPoints = <<>>
      BY <2>1 DEF Sound, Phases
    <3>4. d = {}
      BY <3>2, <3>3 DEF Grounded
    <3> QED
      BY <3>4
  <2>2. pc' \in {"iterate", "done"} /\ (pc' = "done" => pc = "load")
    BY DEF Asserted
  <2>3. pc' # "load" /\ pc' # "choose"
    BY <2>2
  <2>4. \A j \in {} : j <= nb
    BY Zenon
  <2> QED
    BY Zenon, <1>1, <2>1, <2>2, <2>3, <2>4 DEF Phases, ContainsClash
<1> QED
  BY Zenon, <1>2, <1>3, <1>4, <1>5 DEF Sound

\* It is kept by propagate_delta_new, which moves the windows.
LEMMA PropagateDeltaNewInv ==
    ASSUME NEW Ms, NEW N, NEW nb \in Nat, Sound(Ms, N, nb), PropagateDeltaNew
    PROVE  Sound(Ms, N, nb)'
<1>0. /\ Formed(Ms, nb) /\ TodoMatched /\ Phases(nb)
      /\ rows \in Seq(Row) /\ Len(rows) \in Nat
      /\ extensionThis \in 0 .. Len(rows)
  BY DEF Sound, Formed
<1>1. /\ UNCHANGED <<ontology, rows, disjunctions, firstUnprocessed, branchingPoints,
                     nonbacktrackable, clash, pending, pendingDeps>>
      /\ extensionOld' = extensionThis /\ extensionThis' = Len(rows)
      /\ \/ pc' = "apply" /\ todo' = Matches(extensionThis, Len(rows))
         \/ pc' \in {"iterate", "choose"} /\ todo' = {}
      /\ pc' = "choose" => ~ContainsClash
  BY DEF PropagateDeltaNew
<1>2. StackRecordsPrefix' /\ Branching(nb)' /\ AllGrounded(Ms, N, nb)' /\ Justified(Ms, N)'
      /\ PendingJustified(Ms, N)' /\ Facts' = Facts
  BY <1>1, FrameKeeps
<1>3. /\ Matches(extensionThis, Len(rows)) \subseteq ontology.clauses \X (1 .. Len(rows))
      /\ \A m \in Matches(extensionThis, Len(rows)) : \A a \in m[1].body : Pos(a) \in Facts
  <2>1. \A m \in Matches(extensionThis, Len(rows)) :
           /\ m \in ontology.clauses \X (extensionThis + 1 .. Len(rows))
           /\ \A a \in m[1].body : \E j \in 1 .. Len(rows) : rows[j].lit = Pos(a)
    BY DEF Matches
  <2>2. \A j \in 1 .. Len(rows) : rows[j].lit \in Facts
    BY <1>0 DEF Facts
  <2>3. extensionThis + 1 .. Len(rows) \subseteq 1 .. Len(rows)
    BY <1>0
  <2>4. Matches(extensionThis, Len(rows)) \subseteq ontology.clauses \X (1 .. Len(rows))
    BY Zenon, <2>1, <2>3
  <2>5. \A m \in Matches(extensionThis, Len(rows)) : \A a \in m[1].body : Pos(a) \in Facts
    BY Zenon, <2>1, <2>2
  <2> QED
    BY Zenon, <2>4, <2>5
<1>4. Formed(Ms, nb)'
  <2>1. extensionThis' \in 0 .. Len(rows) /\ extensionOld' \in 0 .. extensionThis'
    <3>1. PICK n : n = Len(rows)
      BY Zenon
    <3>2. n \in 0 .. n
      BY <1>0, <3>1
    <3> QED
      BY Zenon, <1>0, <1>1, <3>1, <3>2
  <2>2. todo' \subseteq ontology.clauses \X (1 .. Len(rows))
    BY Zenon, <1>1, <1>3
  <2> QED
    BY Zenon, <1>0, <1>1, <2>1, <2>2 DEF Formed
<1>5. TodoMatched'
  BY Zenon, <1>1, <1>2, <1>3 DEF TodoMatched
<1>6. Phases(nb)'
  <2>1. pc' # "load" /\ pc' # "done"
    BY <1>1
  <2> QED
    BY Zenon, <1>1, <2>1 DEF Phases, ContainsClash
<1> QED
  BY Zenon, <1>2, <1>4, <1>5, <1>6 DEF Sound

\* It is kept at the end of a pass over the clauses.
LEMMA PassFinishedInv ==
    ASSUME NEW Ms, NEW N, NEW nb \in Nat, Sound(Ms, N, nb), PassFinished
    PROVE  Sound(Ms, N, nb)'
<1>1. /\ UNCHANGED <<ontology, rows, extensionOld, extensionThis, disjunctions,
                     firstUnprocessed, branchingPoints, nonbacktrackable, clash,
                     todo, pending, pendingDeps>>
      /\ todo = {} /\ pc' = "loop"
  BY DEF PassFinished, table, work
<1>2. StackRecordsPrefix' /\ Branching(nb)' /\ AllGrounded(Ms, N, nb)' /\ Justified(Ms, N)'
      /\ PendingJustified(Ms, N)' /\ Facts' = Facts
  BY Zenon, <1>1, FrameKeeps
<1>3. Formed(Ms, nb)'
  BY Zenon, <1>1 DEF Sound, Formed
<1>4. TodoMatched' /\ Phases(nb)'
  BY Zenon, <1>1 DEF TodoMatched, Phases
<1> QED
  BY <1>2, <1>3, <1>4 DEF Sound

\* A match of this pass: its clause, its body's dependencies, and what a model
\* that agrees with them makes of its head.
LEMMA MatchDeps ==
    ASSUME NEW Ms, NEW N, NEW nb \in Nat, Sound(Ms, N, nb),
           NEW m \in todo
    PROVE  LET c == m[1]
           IN  /\ c \in Clause
               /\ BodyDeps(c) \in SUBSET Nat
               /\ Grounded(Ms, N, nb, branchingPoints, BodyDeps(c))
               /\ \A M \in Ms :
                     AllStand(N, branchingPoints, M, BodyDeps(c)) => SomeHolds(M, c.head)
<1> DEFINE c == m[1]
<1>1. ontology \in Ontologies /\ m \in ontology.clauses \X (1 .. Len(rows))
  BY Zenon DEF Sound, Formed
<1>2. ontology \in Ontology
  BY <1>1, OntologiesAssumption
<1>3. c \in ontology.clauses /\ c \in Clause
  BY Zenon, <1>1, <1>2 DEF Ontology
<1>4. \A a \in c.body : Pos(a) \in Facts
  BY Zenon DEF Sound, TodoMatched
<1> HIDE DEF c
<1>5. /\ BodyDeps(c) \in SUBSET Nat
      /\ Grounded(Ms, N, nb, branchingPoints, BodyDeps(c))
      /\ \A M \in Ms : AllStand(N, branchingPoints, M, BodyDeps(c)) => c.body \subseteq M
  BY Zenon, <1>4, DepsOfBody
<1>6. \A M \in Ms : c.body \subseteq M => SomeHolds(M, c.head)
  BY Zenon, <1>3 DEF Sound, Formed, Obey
<1> QED
  BY Zenon, <1>3, <1>5, <1>6 DEF c

\* What firing a match leaves alone.
LEMMA FireFrame ==
    ASSUME NEW Ms, NEW N, NEW nb \in Nat, Sound(Ms, N, nb),
           NEW m \in todo, Fire(m)
    PROVE  /\ pc = "apply" /\ todo' \subseteq todo
           /\ UNCHANGED <<ontology, extensionOld, extensionThis, firstUnprocessed,
                          branchingPoints, nonbacktrackable, pending, pendingDeps, pc>>
  BY DEF Fire

\* It is kept by a clause with an empty head.
LEMMA DeriveClashInv ==
    ASSUME NEW Ms, NEW N, NEW nb \in Nat, Sound(Ms, N, nb), DeriveClash
    PROVE  Sound(Ms, N, nb)'
<1>1. PICK m \in todo : /\ Len(m[1].head) = 0 /\ clash' = {BodyDeps(m[1])}
                        /\ Fire(m) /\ UNCHANGED <<rows, disjunctions>>
  BY Zenon DEF DeriveClash
<1> DEFINE c == m[1]
           d == BodyDeps(m[1])
<1>2. /\ pc = "apply" /\ todo' \subseteq todo
      /\ UNCHANGED <<ontology, extensionOld, extensionThis, firstUnprocessed,
                     branchingPoints, nonbacktrackable, pending, pendingDeps, pc>>
  BY Zenon, <1>1, FireFrame
<1>3. /\ c \in Clause /\ d \in SUBSET Nat /\ Grounded(Ms, N, nb, branchingPoints, d)
      /\ \A M \in Ms : AllStand(N, branchingPoints, M, d) => SomeHolds(M, c.head)
  BY Zenon, MatchDeps
<1>4. \A M : ~SomeHolds(M, c.head)
  BY <1>1, <1>3 DEF SomeHolds, Clause
<1> HIDE DEF c, d
<1>5. /\ Level' = Level /\ Facts' = Facts
      /\ clash' = {d}
  BY <1>1, <1>2 DEF Level, Facts, d
<1>6. Formed(Ms, nb)'
  BY Zenon, <1>1, <1>2, <1>3, <1>5 DEF Sound, Formed
<1>7. StackRecordsPrefix'
  BY Zenon, <1>1, <1>2, <1>5 DEF Sound, StackRecordsPrefix, RecordsPrefix
<1>8. Branching(nb)'
  BY Zenon, <1>1, <1>2, <1>5 DEF Sound, Branching
<1>9. AllGrounded(Ms, N, nb)'
  <2>1. LiveDeps' \subseteq LiveDeps \cup {d}
    BY <1>1, <1>2, <1>5 DEF LiveDeps
  <2> QED
    BY Zenon, <1>2, <1>3, <1>5, <2>1 DEF Sound, AllGrounded
<1>10. Justified(Ms, N)'
  BY Zenon, <1>1, <1>2, <1>3, <1>4, <1>5 DEF Sound, Justified
<1>11. PendingJustified(Ms, N)'
  BY Zenon, <1>2, <1>5 DEF Sound, PendingJustified
<1>12. TodoMatched' /\ Phases(nb)'
  BY Zenon, <1>2, <1>5 DEF Sound, TodoMatched, Phases
<1> QED
  BY Zenon, <1>6, <1>7, <1>8, <1>9, <1>10, <1>11, <1>12 DEF Sound

\* It is kept by a clause with one head atom.
LEMMA DeriveFactInv ==
    ASSUME NEW Ms, NEW N, NEW nb \in Nat, Sound(Ms, N, nb), DeriveFact
    PROVE  Sound(Ms, N, nb)'
<1>1. PICK m \in todo : /\ Len(m[1].head) = 1 /\ AddFact(Pos(m[1].head[1]), BodyDeps(m[1]))
                        /\ Fire(m) /\ UNCHANGED disjunctions
  BY DEF DeriveFact
<1> DEFINE c == m[1]
           d == BodyDeps(m[1])
           l == Pos(c.head[1])
<1>2. /\ pc = "apply" /\ todo' \subseteq todo
      /\ UNCHANGED <<ontology, extensionOld, extensionThis, firstUnprocessed,
                     branchingPoints, nonbacktrackable, pending, pendingDeps, pc>>
  BY <1>1, FireFrame
<1>3. /\ c \in Clause /\ d \in SUBSET Nat /\ Grounded(Ms, N, nb, branchingPoints, d)
      /\ \A M \in Ms : AllStand(N, branchingPoints, M, d) => SomeHolds(M, c.head)
  BY Zenon, MatchDeps
<1>4. /\ l \in Literal
      /\ \A M \in Ms : AllStand(N, branchingPoints, M, d) => Holds(M, l)
  <2>1. c.head \in Seq(Atoms) /\ DOMAIN c.head = {1}
    BY SMTT(30), <1>1, <1>3 DEF Clause
  <2>2. c.head[1] \in Atoms
    BY <2>1
  <2>3. l \in Literal /\ \A M : Holds(M, l) <=> c.head[1] \in M
    BY <2>2 DEF Holds, Pos, Literal
  <2>4. \A M : SomeHolds(M, c.head) => c.head[1] \in M
    BY Zenon, <2>1 DEF SomeHolds
  <2> QED
    BY Zenon, <1>3, <2>3, <2>4
<1>5. AddFact(l, d)
  BY Zenon, <1>1
<1> HIDE DEF c, d, l
<1>6. /\ Level' = Level
      /\ rows \in Seq(Row) /\ disjunctions \in Seq(Disjunction)
      /\ branchingPoints \in Seq(BranchingPoint)
  BY Zenon, <1>1, <1>2 DEF Level, Sound, Formed
<1>7. /\ rows' \in Seq(Row)
      /\ Len(rows) <= Len(rows')
      /\ \A i \in 1 .. Len(rows) : rows'[i] = rows[i]
      /\ clash' \in SUBSET SUBSET Nat
      /\ \A i \in DOMAIN rows' : Grounded(Ms, N, nb, branchingPoints', rows'[i].deps)
      /\ \A i \in DOMAIN disjunctions' :
            Grounded(Ms, N, nb, branchingPoints', disjunctions'[i].deps)
      /\ \A deps \in clash' : Grounded(Ms, N, nb, branchingPoints', deps)
      /\ Justified(Ms, N)'
  <2>1. /\ branchingPoints' \in Seq(BranchingPoint)
        /\ Len(branchingPoints) <= Len(branchingPoints')
        /\ \A k \in 1 .. Level : branchingPoints[k] = branchingPoints'[k]
        /\ Grounded(Ms, N, nb, branchingPoints', d)
        /\ \A M \in Ms : AllStand(N, branchingPoints', M, d) => Holds(M, l)
    BY <1>2, <1>3, <1>4, <1>6
  <2> QED
    BY Zenon, <1>1, <1>2, <1>3, <1>4, <1>5, <2>1, AddFactKeeps
<1>8. /\ Len(rows) \in Nat /\ Len(rows') \in Nat
      /\ Len(disjunctions) \in Nat /\ Len(disjunctions) <= Len(disjunctions)
  BY Zenon, <1>6, <1>7, LengthOf
<1>9. StackRecordsPrefix'
  BY Zenon, <1>1, <1>2, <1>7, <1>8, PrefixKept
<1>10. Formed(Ms, nb)'
  <2>0. 0 .. Len(rows) \subseteq 0 .. Len(rows') /\ 1 .. Len(rows) \subseteq 1 .. Len(rows')
    BY Zenon, <1>7, <1>8, Ranges
  <2>1. extensionThis' \in 0 .. Len(rows') /\ extensionOld' \in 0 .. extensionThis'
    BY Zenon, <1>2, <2>0 DEF Sound, Formed
  <2>2. todo' \in SUBSET (ontology'.clauses \X (1 .. Len(rows')))
    <3>1. todo \in SUBSET (ontology.clauses \X (1 .. Len(rows))) /\ ontology' = ontology
      BY Zenon, <1>2 DEF Sound, Formed
    <3> QED
      BY Zenon, <1>2, <2>0, <3>1
  <2> QED
    BY Zenon, <1>1, <1>2, <1>7, <2>1, <2>2 DEF Sound, Formed
<1>11. AllGrounded(Ms, N, nb)'
  <2>1. pending # <<>> => Grounded(Ms, N, nb, branchingPoints, pendingDeps)
    BY Zenon DEF Sound, AllGrounded, LiveDeps
  <2> QED
    BY Zenon, <1>2, <1>6, <1>7, <2>1 DEF AllGrounded, LiveDeps
<1>12. PendingJustified(Ms, N)' /\ Branching(nb)'
  BY Zenon, <1>1, <1>2, <1>6 DEF Sound, PendingJustified, Branching
<1>13. TodoMatched' /\ Phases(nb)'
  <2>1. Facts \subseteq Facts'
    BY Zenon, <1>6, <1>7, FactsGrow
  <2>2. pc' # "choose" /\ pc' # "done" /\ pc' # "load"
    BY <1>2
  <2> QED
    BY Zenon, <1>2, <2>1, <2>2 DEF Sound, TodoMatched, Phases
<1> QED
  BY Zenon, <1>7, <1>9, <1>10, <1>11, <1>12, <1>13 DEF Sound

\* It is kept by a clause whose head is a disjunction.
LEMMA DeriveDisjunctionInv ==
    ASSUME NEW Ms, NEW N, NEW nb \in Nat, Sound(Ms, N, nb), DeriveDisjunction
    PROVE  Sound(Ms, N, nb)'
<1>1. PICK m \in todo :
         /\ Len(m[1].head) > 1
         /\ \/ disjunctions' = disjunctions
            \/ disjunctions' = Append(disjunctions,
                                      [disjuncts |-> m[1].head, deps |-> BodyDeps(m[1])])
         /\ Fire(m) /\ UNCHANGED <<rows, clash>>
  BY Zenon DEF DeriveDisjunction
<1> DEFINE c == m[1]
           d == BodyDeps(m[1])
           g == [disjuncts |-> c.head, deps |-> d]
<1>2. /\ pc = "apply" /\ todo' \subseteq todo
      /\ UNCHANGED <<ontology, extensionOld, extensionThis, firstUnprocessed,
                     branchingPoints, nonbacktrackable, pending, pendingDeps, pc>>
  BY Zenon, <1>1, FireFrame
<1>3. /\ c \in Clause /\ d \in SUBSET Nat /\ Grounded(Ms, N, nb, branchingPoints, d)
      /\ \A M \in Ms : AllStand(N, branchingPoints, M, d) => SomeHolds(M, c.head)
  BY MatchDeps
<1>4. /\ Len(c.head) > 1
      /\ disjunctions' = disjunctions \/ disjunctions' = Append(disjunctions, g)
  BY Zenon, <1>1
<1> HIDE DEF c, d
<1>5. g \in Disjunction /\ g.deps = d /\ g.disjuncts = c.head
  BY Zenon, <1>3 DEF Disjunction, Clause
<1> HIDE DEF g
<1>6. /\ Level' = Level /\ Facts' = Facts
      /\ rows \in Seq(Row) /\ disjunctions \in Seq(Disjunction)
      /\ branchingPoints \in Seq(BranchingPoint)
  BY Zenon, <1>1, <1>2 DEF Level, Facts, Sound, Formed
<1>7. /\ disjunctions' \in Seq(Disjunction)
      /\ Len(disjunctions) \in Nat /\ Len(disjunctions') \in Nat
      /\ Len(disjunctions) <= Len(disjunctions')
      /\ \A i \in 1 .. Len(disjunctions) : disjunctions'[i] = disjunctions[i]
      /\ \A i \in DOMAIN disjunctions' :
            \/ i \in DOMAIN disjunctions /\ disjunctions'[i] = disjunctions[i]
            \/ disjunctions'[i] = g
  <2>1. CASE disjunctions' = disjunctions
    BY <1>6, <2>1
  <2>2. CASE disjunctions' = Append(disjunctions, g)
    BY <1>5, <1>6, <2>2
  <2> QED
    BY Zenon, <1>4, <2>1, <2>2
<1>8. StackRecordsPrefix'
  <2>1. /\ Len(rows) \in Nat /\ Len(rows') \in Nat /\ Len(rows) <= Len(rows')
        /\ branchingPoints' = branchingPoints /\ \A i \in 1 .. Len(rows) : rows'[i] = rows[i]
    BY Zenon, <1>1, <1>2, <1>6, LengthOf
  <2> QED
    BY Zenon, <1>7, <2>1, PrefixKept
<1>9. Formed(Ms, nb)'
  <2>0. 1 .. Len(disjunctions) + 1 \subseteq 1 .. Len(disjunctions') + 1
    BY Zenon, <1>7, Ranges
  <2>1. firstUnprocessed' \in 1 .. Len(disjunctions') + 1
    BY Zenon, <1>2, <2>0 DEF Sound, Formed
  <2> QED
    BY Zenon, <1>1, <1>2, <1>7, <2>1 DEF Sound, Formed
<1>10. AllGrounded(Ms, N, nb)'
  <2>1. LiveDeps' \subseteq LiveDeps \cup {d}
    <3>1. \A i \in DOMAIN disjunctions' :
             (\E k \in DOMAIN disjunctions : disjunctions'[i].deps = disjunctions[k].deps)
                 \/ disjunctions'[i].deps = d
      BY Zenon, <1>5, <1>7
    <3> QED
      BY Zenon, <1>1, <1>2, <3>1 DEF LiveDeps
  <2> QED
    BY Zenon, <1>2, <1>3, <1>6, <2>1 DEF Sound, AllGrounded
<1>11. Justified(Ms, N)'
  <2>1. \A M \in Ms : AllStand(N, branchingPoints, M, g.deps) => SomeHolds(M, g.disjuncts)
    BY Zenon, <1>3, <1>5
  <2>2. \A M \in Ms : \A i \in DOMAIN disjunctions' :
           AllStand(N, branchingPoints, M, disjunctions'[i].deps)
               => SomeHolds(M, disjunctions'[i].disjuncts)
    BY Zenon, <1>7, <2>1 DEF Sound, Justified
  <2> QED
    BY Zenon, <1>1, <1>2, <1>6, <2>2 DEF Sound, Justified
<1>12. PendingJustified(Ms, N)'
  BY Zenon, <1>2, <1>6 DEF Sound, PendingJustified
<1>13. Branching(nb)'
  <2>1. \A i \in DOMAIN disjunctions' : Len(disjunctions'[i].disjuncts) > 1
    BY Zenon, <1>4, <1>5, <1>7 DEF Sound, Branching
  <2> QED
    BY Zenon, <1>2, <1>6, <2>1 DEF Sound, Branching
<1>14. TodoMatched' /\ Phases(nb)'
  BY Zenon, <1>2, <1>6 DEF Sound, TodoMatched, Phases
<1> QED
  BY Zenon, <1>8, <1>9, <1>10, <1>11, <1>12, <1>13, <1>14 DEF Sound

-----------------------------------------------------------------------------
(* Branching.                                                              *)

\* Reordering the disjuncts keeps the disjunction.
LEMMA OrderedChoices ==
    ASSUME NEW ds \in Seq(Atoms), NEW f \in Orders(Len(ds))
    PROVE  /\ Ordered(ds, f) \in Seq(Atoms) /\ Len(Ordered(ds, f)) = Len(ds)
           /\ \A M : SomeHolds(M, ds) => SomeHolds(M, Ordered(ds, f))
<1> DEFINE cs == Ordered(ds, f)
<1>1. /\ Len(ds) \in Nat /\ DOMAIN ds = 1 .. Len(ds)
      /\ f \in [1 .. Len(ds) -> 1 .. Len(ds)]
      /\ \A i \in 1 .. Len(ds) : \E j \in 1 .. Len(ds) : f[j] = i
  BY DEF Orders
<1>2. \A i \in 1 .. Len(ds) : ds[f[i]] \in Atoms
  BY <1>1
<1>3. cs \in Seq(Atoms) /\ Len(cs) = Len(ds) /\ DOMAIN cs = 1 .. Len(ds)
  BY <1>1, <1>2 DEF Ordered
<1>4. ASSUME NEW M, SomeHolds(M, ds)
      PROVE  SomeHolds(M, cs)
  <2>1. PICK i \in 1 .. Len(ds) : ds[i] \in M
    BY <1>1, <1>4 DEF SomeHolds
  <2>2. PICK j \in 1 .. Len(ds) : f[j] = i
    BY <1>1
  <2>3. cs[j] = ds[i]
    BY <2>2 DEF Ordered
  <2> QED
    BY <1>3, <2>1, <2>3 DEF SomeHolds
<1> QED
  BY <1>3, <1>4

\* It is kept by branching on a disjunction: the new level justifies its disjunct.
LEMMA ProcessGroundDisjunctionInv ==
    ASSUME NEW Ms, NEW N, NEW nb \in Nat, Sound(Ms, N, nb),
           pc = "choose", NEW g \in firstUnprocessed .. Len(disjunctions),
           ProcessGroundDisjunction(g),
           UNCHANGED <<ontology, extensionOld, extensionThis, disjunctions,
                       nonbacktrackable, todo, pending, pendingDeps>>
    PROVE  Sound(Ms, N, nb)'
<1> DEFINE d == disjunctions[g]
           n == Level + 1
<1>0. /\ Formed(Ms, nb) /\ rows \in Seq(Row) /\ disjunctions \in Seq(Disjunction)
      /\ branchingPoints \in Seq(BranchingPoint)
      /\ Len(rows) \in Nat /\ Len(disjunctions) \in Nat /\ Level \in Nat
      /\ extensionThis \in 0 .. Len(rows) /\ extensionOld \in 0 .. extensionThis
      /\ firstUnprocessed \in 1 .. Len(disjunctions) + 1
      /\ g \in DOMAIN disjunctions /\ nb \in 0 .. Level /\ nonbacktrackable = nb
  BY DEF Sound, Formed, Level
<1>1. d \in Disjunction /\ Len(d.disjuncts) > 1
  BY <1>0 DEF Sound, Branching
<1>f. PICK f \in Orders(Len(d.disjuncts)) :
         /\ branchingPoints' = Append(branchingPoints,
                                 NewBranchingPoint(Ordered(d.disjuncts, f), 1, g + 1))
         /\ AddFact(Pos(Ordered(d.disjuncts, f)[1]), d.deps \cup {n})
  BY DEF ProcessGroundDisjunction
<1>2. PICK cs :
         /\ f \in Orders(Len(d.disjuncts))
         /\ cs = Ordered(d.disjuncts, f)
         /\ branchingPoints' = Append(branchingPoints, NewBranchingPoint(cs, 1, g + 1))
         /\ AddFact(Pos(cs[1]), d.deps \cup {n})
  <2> HIDE DEF d, n
  <2> QED
    BY <1>f
<1>3. firstUnprocessed' = g + 1 /\ pc' = "iterate"
  BY DEF ProcessGroundDisjunction
<1>4. d.disjuncts \in Seq(Atoms) /\ d.deps \in SUBSET Nat
  BY <1>1 DEF Disjunction
<1>5. /\ cs \in Seq(Atoms) /\ Len(cs) = Len(d.disjuncts)
      /\ \A M : SomeHolds(M, d.disjuncts) => SomeHolds(M, cs)
  <2> HIDE DEF d, n
  <2> QED
    BY Zenon, <1>2, <1>4, OrderedChoices
<1> DEFINE b == NewBranchingPoint(cs, 1, g + 1)
           t == branchingPoints'
           e == d.deps \cup {n}
<1>6. /\ b \in BranchingPoint
      /\ b.choices = cs /\ b.current = 1 /\ b.old = extensionOld /\ b.this = extensionThis
      /\ b.new = Len(rows) /\ b.disjunctions = Len(disjunctions) /\ b.unprocessed = g + 1
  BY SMTT(30), <1>0, <1>5 DEF NewBranchingPoint, BranchingPoint
<1>7. /\ t \in Seq(BranchingPoint) /\ Len(t) = n
      /\ \A k \in 1 .. Level : branchingPoints[k] = t[k]
      /\ t[n] = b
  <2> HIDE DEF b
  <2> QED
    BY SMTT(30), <1>0, <1>2, <1>6 DEF Level, b
<1>8. /\ Grounded(Ms, N, nb, branchingPoints, d.deps)
      /\ \A M \in Ms :
            AllStand(N, branchingPoints, M, d.deps) => SomeHolds(M, d.disjuncts)
      /\ d.deps \subseteq 1 .. Level
  BY Zenon, <1>0 DEF Sound, AllGrounded, LiveDeps, Justified, Grounded, Level
<1> HIDE DEF b, t
<1>a. Len(t) \in Nat /\ Level <= Len(t)
  <2>1. Len(t) = n
    BY <1>7
  <2>2. n \in Nat /\ Level <= n
    <3>1. Level \in Nat
      BY <1>0
    <3> QED
      BY <3>1
  <2> HIDE DEF n
  <2> QED
    BY <2>1, <2>2
<1>9. /\ Grounded(Ms, N, nb, t, d.deps)
      /\ \A M : AllStand(N, branchingPoints, M, d.deps) <=> AllStand(N, t, M, d.deps)
  <2> HIDE DEF d, n
  <2> QED
    BY Zenon, <1>0, <1>7, <1>8, <1>a, GroundedAgree, ChoicesAgree
<1>10. Grounded(Ms, N, nb, t, e)
  <2>1. e \subseteq 1 .. Len(t)
    BY SMTT(30), <1>0, <1>7, <1>8
  <2>2. \A k \in e : k > nb => t[k].current < Len(t[k].choices)
    BY Zenon, <1>1, <1>5, <1>6, <1>7, <1>9 DEF Grounded
  <2>3. ASSUME NEW M \in Ms, NEW k \in e, k > nb, AllStand(N, t, M, {j \in e : j < k})
        PROVE  Refuted(t, M, k)
    <3>1. CASE k \in d.deps
      <4>1. {j \in d.deps : j < k} \subseteq {j \in e : j < k}
        OBVIOUS
      <4>2. AllStand(N, t, M, {j \in d.deps : j < k})
        BY Zenon, <2>3, <4>1 DEF AllStand
      <4> QED
        BY <1>9, <2>3, <3>1, <4>2 DEF Grounded
    <3>2. CASE k = n
      <4>1. \A j \in d.deps : j \in e /\ j < k
        BY SMTT(30), <1>0, <1>8, <3>2
      <4>2. AllStand(N, t, M, d.deps)
        BY <2>3, <4>1 DEF AllStand
      <4>3. SomeHolds(M, cs)
        BY <1>5, <1>8, <1>9, <4>2
      <4> QED
        BY SMTT(30), <1>6, <1>7, <3>2, <4>3 DEF Refuted
    <3> QED
      BY <3>1, <3>2
  <2> QED
    BY Zenon, <2>1, <2>2, <2>3 DEF Grounded
<1>11. /\ Pos(cs[1]) \in Literal
       /\ \A M \in Ms : AllStand(N, t, M, e) => Holds(M, Pos(cs[1]))
  <2>1. cs[1] \in Atoms
    BY SMTT(30), <1>1, <1>4, <1>5
  <2>2. ASSUME NEW M \in Ms, AllStand(N, t, M, e)
        PROVE  cs[1] \in M
    <3>1. Stands(N, t, M, n)
      BY <2>2 DEF AllStand
    <3>2. t[n].choices # <<>>
      BY <1>1, <1>5, <1>6, <1>7
    <3>3. ChoiceHolds(t, M, n)
      BY <3>1, <3>2 DEF Stands
    <3> QED
      BY <1>6, <1>7, <3>3 DEF ChoiceHolds
  <2> QED
    BY Zenon, <2>1, <2>2 DEF Holds, Pos, Literal
<1>12. /\ rows' \in Seq(Row)
       /\ Len(rows) <= Len(rows')
       /\ \A i \in 1 .. Len(rows) : rows'[i] = rows[i]
       /\ clash' \in SUBSET SUBSET Nat
       /\ \A i \in DOMAIN rows' : Grounded(Ms, N, nb, branchingPoints', rows'[i].deps)
       /\ \A i \in DOMAIN disjunctions' :
             Grounded(Ms, N, nb, branchingPoints', disjunctions'[i].deps)
       /\ \A deps \in clash' : Grounded(Ms, N, nb, branchingPoints', deps)
       /\ Justified(Ms, N)'
  <2>1. e \in SUBSET Nat
    BY <1>0, <1>4
  <2>2. Len(branchingPoints) <= Len(branchingPoints')
    BY <1>a DEF t, Level
  <2>3. AddFact(Pos(cs[1]), e)
    BY <1>2
  <2> HIDE DEF d, e, n
  <2> QED
    BY Zenon, <1>7, <1>10, <1>11, <2>1, <2>2, <2>3, AddFactKeeps DEF t
<1>13. Len(rows') \in Nat /\ Level' = n
  <2>2. Len(rows') \in Nat
    BY <1>12
  <2> QED
    BY <1>7, <2>2 DEF Level, t
<1>14. Formed(Ms, nb)'
  <2>1. extensionThis' \in 0 .. Len(rows') /\ firstUnprocessed' \in 1 .. Len(disjunctions') + 1
    BY SMTT(30), <1>0, <1>3, <1>12, <1>13
  <2>2. todo' \in SUBSET (ontology'.clauses \X (1 .. Len(rows')))
    BY SMTT(30), <1>0, <1>12, <1>13 DEF Formed
  <2>3. branchingPoints' \in Seq(BranchingPoint)
    BY <1>7 DEF t
  <2>4. nb \in 0 .. Len(branchingPoints')
    BY <1>0, <1>7 DEF t
  <2> QED
    BY Zenon, <1>0, <1>3, <1>12, <2>1, <2>2, <2>3, <2>4 DEF Formed
<1>15. AllGrounded(Ms, N, nb)'
  <2>1. pending # <<>> => Grounded(Ms, N, nb, t, pendingDeps)
    <3>1. pending # <<>> => Grounded(Ms, N, nb, branchingPoints, pendingDeps)
      BY DEF Sound, AllGrounded, LiveDeps
    <3>2. pending # <<>> => pendingDeps \subseteq 1 .. Level
      BY <3>1 DEF Grounded, Level
    <3> QED
      BY Zenon, <1>0, <1>7, <3>1, <3>2, <1>a, GroundedAgree
  <2> QED
    BY Zenon, <1>12, <1>13, <2>1 DEF AllGrounded, LiveDeps, t
<1>16. PendingJustified(Ms, N)'
  <2>1. CASE pending = <<>>
    BY <2>1 DEF PendingJustified
  <2>2. CASE pending # <<>>
    <3>1. pendingDeps \subseteq 1 .. Level
      BY Zenon, <2>2 DEF Sound, AllGrounded, LiveDeps, Grounded, Level
    <3>2. \A M : AllStand(N, branchingPoints, M, pendingDeps) <=> AllStand(N, t, M, pendingDeps)
      BY Zenon, <1>0, <1>7, <3>1, ChoicesAgree
    <3> QED
      BY Zenon, <1>13, <3>2 DEF Sound, PendingJustified, t
  <2> QED
    BY <2>1, <2>2
<1>17. Branching(nb)'
  <2>1. ASSUME NEW k \in 1 .. n, k > nb
        PROVE  t[k].current \in 1 .. Len(t[k].choices)
    <3>1. CASE k = n
      BY SMTT(30), <1>1, <1>4, <1>5, <1>6, <1>7, <3>1
    <3>2. CASE k \in 1 .. Level
      BY Zenon, <1>7, <2>1, <3>2 DEF Sound, Branching
    <3> QED
      BY <1>0, <3>1, <3>2
  <2> QED
    BY Zenon, <1>13, <2>1 DEF Sound, Branching, t
<1>18. StackRecordsPrefix'
  <2>1. ASSUME NEW k \in 1 .. n
        PROVE  RecordsPrefix(k)'
    <3>1. CASE k = n
      <4>1. \A i \in 1 .. Len(rows) : rows'[i].deps \subseteq 1 .. n - 1
        <5>0. \A i \in DOMAIN rows : Grounded(Ms, N, nb, branchingPoints, rows[i].deps)
          BY Zenon DEF Sound, AllGrounded, LiveDeps
        <5>1. \A i \in 1 .. Len(rows) : rows[i].deps \subseteq 1 .. Level
          BY <1>0, <5>0 DEF Grounded, Level
        <5> QED
          BY SMTT(30), <1>0, <1>12, <5>1
      <4>2. \A i \in 1 .. Len(disjunctions) : disjunctions[i].deps \subseteq 1 .. n - 1
        <5>0. \A i \in DOMAIN disjunctions : Grounded(Ms, N, nb, branchingPoints, disjunctions[i].deps)
          BY DEF Sound, AllGrounded, LiveDeps
        <5>1. \A i \in 1 .. Len(disjunctions) : disjunctions[i].deps \subseteq 1 .. Level
          BY SMTT(30), <1>0, <5>0 DEF Grounded, Level
        <5>2. n - 1 = Level
          BY <1>0
        <5> QED
          BY <5>1, <5>2
      <4>3. /\ t[n].this \in 0 .. t[n].new /\ t[n].old \in 0 .. t[n].this
            /\ t[n].new <= Len(rows') /\ t[n].disjunctions <= Len(disjunctions')
            /\ t[n].unprocessed \in 1 .. t[n].disjunctions + 1
            /\ t[n].new \in Nat /\ t[n].disjunctions \in Nat
        <5>1. Len(rows) <= Len(rows') /\ disjunctions' = disjunctions
          BY <1>12
        <5>2. /\ extensionThis \in 0 .. Len(rows) /\ extensionOld \in 0 .. extensionThis
              /\ Len(rows) \in Nat /\ Len(disjunctions) \in Nat
              /\ g + 1 \in 1 .. Len(disjunctions) + 1
          BY <1>0
        <5>3. /\ t[n].this = extensionThis /\ t[n].old = extensionOld /\ t[n].new = Len(rows)
              /\ t[n].disjunctions = Len(disjunctions) /\ t[n].unprocessed = g + 1
          BY <1>6, <1>7
        <5> QED
          BY SMTT(30), <5>1, <5>2, <5>3
      <4>4. /\ \A i \in 1 .. t[n].new : rows'[i].deps \subseteq 1 .. n - 1
            /\ \A i \in 1 .. t[n].disjunctions : disjunctions'[i].deps \subseteq 1 .. n - 1
        BY Zenon, <1>6, <1>7, <4>1, <4>2
      <4>5. \A j \in n .. n : j = n
        BY <1>0
      <4> QED
        BY SMTT(30), <1>13, <3>1, <4>3, <4>4, <4>5 DEF RecordsPrefix, t
    <3>2. CASE k \in 1 .. Level
      <4>1. RecordsPrefix(k) /\ branchingPoints'[k] = branchingPoints[k]
        BY <1>7, <3>2 DEF Sound, StackRecordsPrefix, t
      <4>2. branchingPoints[k] \in BranchingPoint
        BY <1>0, <3>2 DEF Level
      <4>3. PICK w \in Nat, v \in Nat : w = branchingPoints[k].new /\ v = branchingPoints[k].disjunctions
        BY Zenon, <4>2 DEF BranchingPoint
      <4>4. /\ w <= Len(rows) /\ v <= Len(disjunctions)
            /\ \A i \in 1 .. w : rows[i].deps \subseteq 1 .. k - 1
        BY Zenon, <4>1, <4>3 DEF RecordsPrefix
      <4>5. w <= Len(rows') /\ \A i \in 1 .. w : rows'[i].deps \subseteq 1 .. k - 1
        <5>0. \A i \in 1 .. w : i \in 1 .. Len(rows)
          BY <1>0, <4>4
        <5>1. \A i \in 1 .. w : rows'[i] = rows[i]
          BY Zenon, <1>12, <5>0
        <5> QED
          BY SMTT(30), <1>0, <1>12, <1>13, <4>4, <5>1
      <4>6. \A j \in k .. n : w <= t[j].new /\ v <= t[j].disjunctions
        <5>0. \A j \in k .. Level : j \in 1 .. Level
          BY <1>0, <3>2
        <5>1. \A j \in k .. Level : w <= t[j].new /\ v <= t[j].disjunctions
          BY Zenon, <1>7, <4>1, <4>3, <5>0 DEF RecordsPrefix
        <5>2. w <= t[n].new /\ v <= t[n].disjunctions
          BY Zenon, <1>6, <1>7, <4>4
        <5>3. \A j \in k .. n : j \in k .. Level \/ j = n
          BY <1>0, <3>2
        <5> QED
          BY Zenon, <5>1, <5>2, <5>3
      <4> QED
        BY Zenon, <1>13, <4>1, <4>3, <4>5, <4>6 DEF RecordsPrefix, t
    <3> QED
      BY <1>0, <3>1, <3>2
  <2> QED
    BY <1>13, <2>1 DEF StackRecordsPrefix
<1>19. TodoMatched' /\ Phases(nb)'
  BY <1>3 DEF Sound, TodoMatched, Phases
<1> QED
  BY <1>12, <1>14, <1>15, <1>16, <1>17, <1>18, <1>19 DEF Sound

\* So it is whether or not an unsatisfied disjunction is left.
LEMMA ProcessFirstGroundDisjunctionInv ==
    ASSUME NEW Ms, NEW N, NEW nb \in Nat, Sound(Ms, N, nb), ProcessFirstGroundDisjunction
    PROVE  Sound(Ms, N, nb)'
<1>1. /\ pc = "choose"
      /\ UNCHANGED <<ontology, extensionOld, extensionThis, disjunctions,
                     nonbacktrackable, todo, pending, pendingDeps>>
  BY DEF ProcessFirstGroundDisjunction, work
<1>2. CASE \E g \in firstUnprocessed .. Len(disjunctions) : ProcessGroundDisjunction(g)
  BY <1>1, <1>2, ProcessGroundDisjunctionInv
<1>3. CASE /\ firstUnprocessed' = Len(disjunctions) + 1
           /\ pc' = "done"
           /\ UNCHANGED <<rows, branchingPoints, clash>>
  <2>1. StackRecordsPrefix' /\ Branching(nb)' /\ AllGrounded(Ms, N, nb)' /\ Justified(Ms, N)'
        /\ PendingJustified(Ms, N)' /\ Facts' = Facts
    BY <1>1, <1>3, FrameKeeps
  <2>2. Len(disjunctions) \in Nat
    BY DEF Sound, Formed
  <2>3. Formed(Ms, nb)'
    BY SMTT(30), <1>1, <1>3, <2>2 DEF Sound, Formed
  <2>4. TodoMatched' /\ Phases(nb)'
    BY <1>1, <1>3, <2>1 DEF Sound, TodoMatched, Phases, ContainsClash
  <2> QED
    BY <2>1, <2>3, <2>4 DEF Sound
<1> QED
  BY <1>2, <1>3 DEF ProcessFirstGroundDisjunction

-----------------------------------------------------------------------------
(* Backtracking.                                                           *)

\* A prefix of a sequence.
LEMMA PrefixOf ==
    ASSUME NEW S, NEW s \in Seq(S), NEW n \in Nat, n <= Len(s)
    PROVE  /\ SubSeq(s, 1, n) \in Seq(S) /\ Len(SubSeq(s, 1, n)) = n
           /\ DOMAIN SubSeq(s, 1, n) = 1 .. n
           /\ \A i \in 1 .. n : SubSeq(s, 1, n)[i] = s[i] /\ i \in DOMAIN s
<1>1. SubSeq(s, 1, n) \in Seq(S) /\ Len(SubSeq(s, 1, n)) = n
  OBVIOUS
<1>2. \A i \in 1 .. n : SubSeq(s, 1, n)[i] = s[i] /\ i \in DOMAIN s
  OBVIOUS
<1> QED
  BY <1>1, <1>2

\* What a clash proves about the branching point it sends the calculus back to:
\* the choices below it that the clash names refute the disjunct it stands at,
\* as well as those it has given up before.
LEMMA ClashRefutes ==
    ASSUME NEW Ms, NEW N, NEW nb \in Nat, Sound(Ms, N, nb),
           NEW d \in clash, NEW k \in d, k > nb, \A j \in d : j <= k,
           NEW M \in Ms, AllStand(N, branchingPoints, M, {j \in d : j < k})
    PROVE  /\ SomeHolds(M, branchingPoints[k].choices)
           /\ \A i \in 1 .. branchingPoints[k].current :
                 branchingPoints[k].choices[i] \notin M
<1> DEFINE s == branchingPoints
<1>1. Grounded(Ms, N, nb, s, d)
  BY Zenon DEF Sound, AllGrounded, LiveDeps
<1>2. k \in 1 .. Level /\ d \subseteq 1 .. Level
  BY Zenon, <1>1 DEF Grounded, Level
<1>3. Refuted(s, M, k)
  BY Zenon, <1>1 DEF Grounded
<1>4. ~AllStand(N, s, M, d)
  BY Zenon DEF Sound, Justified
<1>5. \A j \in d : j = k \/ j \in {i \in d : i < k}
  BY <1>2 DEF Sound, Formed, Level
<1>7. s[k].current \in 1 .. Len(s[k].choices) /\ s[k].choices \in Seq(Atoms)
  <2>1. s[k] \in BranchingPoint
    BY <1>2 DEF Sound, Formed, Level
  <2> QED
    BY <1>2, <2>1 DEF Sound, Branching, BranchingPoint
<1>6. ~ChoiceHolds(s, M, k)
  <2>1. ~Stands(N, s, M, k)
    BY Zenon, <1>4, <1>5 DEF AllStand
  <2>2. s[k].choices # <<>>
    BY <1>7
  <2> QED
    BY <2>1, <2>2 DEF Stands
<1>8. s[k].choices[s[k].current] \notin M
  BY <1>3, <1>6 DEF Refuted, ChoiceHolds
<1>9. \A i \in 1 .. s[k].current : i = s[k].current \/ i \in 1 .. s[k].current - 1
  BY SMTT(30), <1>7
<1> QED
  BY Zenon, <1>3, <1>8, <1>9 DEF Refuted

\* Going back to the branching point k and advancing it.
LEMMA NextChoiceInv ==
    ASSUME NEW Ms, NEW N, NEW nb \in Nat, Sound(Ms, N, nb),
           pc = "iterate", NEW d \in clash, NEW k \in 1 .. Level, k > nb,
           IsMaximum(k, d), BacktrackTo(k), StartNextChoice(k, d),
           pc' = "choice", UNCHANGED <<ontology, nonbacktrackable, todo>>
    PROVE  Sound(Ms, N, nb)'
<1> DEFINE s == branchingPoints
           t == branchingPoints'
           b == s[k]
           n == b.current + 1
           e == pendingDeps'
<1>0. /\ Formed(Ms, nb) /\ rows \in Seq(Row) /\ disjunctions \in Seq(Disjunction)
      /\ s \in Seq(BranchingPoint) /\ Level \in Nat /\ Level = Len(s)
      /\ Len(rows) \in Nat /\ Len(disjunctions) \in Nat /\ todo = {}
      /\ nonbacktrackable = nb /\ nb \in Nat
  BY SMTT(30) DEF Sound, Formed, Level, TodoMatched
<1>1. k \in d /\ \A j \in d : j <= k
  BY <1>0 DEF IsMaximum
<1>2. Grounded(Ms, N, nb, s, d)
  BY DEF Sound, AllGrounded, LiveDeps
<1>3. /\ b \in BranchingPoint /\ b.choices \in Seq(Atoms) /\ Len(b.choices) \in Nat
      /\ b.current \in 1 .. Len(b.choices) /\ b.current < Len(b.choices)
      /\ b.new \in Nat /\ b.this \in Nat /\ b.old \in Nat
      /\ b.disjunctions \in Nat /\ b.unprocessed \in Nat
  <2>1. b \in BranchingPoint
    BY <1>0
  <2>2. b.choices \in Seq(Atoms)
    BY <2>1 DEF BranchingPoint
  <2>3. b.current \in 1 .. Len(b.choices) /\ b.current < Len(b.choices)
    BY Zenon, <1>0, <1>1, <1>2 DEF Sound, Branching, Grounded
  <2> QED
    BY SMTT(30), <2>1, <2>2, <2>3 DEF BranchingPoint
<1>4. d \subseteq 1 .. k
  BY SMTT(30), <1>0, <1>1, <1>2 DEF Grounded
<1>a. k - 1 \in Nat /\ \A j \in d : j < k => j \in 1 .. k - 1
  <2>1. k \in Nat /\ k > 0
    BY <1>0
  <2> QED
    BY <1>4, <2>1
<1>5. RecordsPrefix(k)
  BY Zenon DEF Sound, StackRecordsPrefix
<1>6. /\ t = Append(SubSeq(s, 1, k - 1), [b EXCEPT !.current = n])
      /\ pending' = [i \in 1 .. n |-> IF i < n THEN Neg(b.choices[i]) ELSE Pos(b.choices[i])]
      /\ e = IF n = Len(b.choices) THEN d \ {k} ELSE d
  BY DEF StartNextChoice
<1>7. /\ t \in Seq(BranchingPoint) /\ Len(t) = k
      /\ \A j \in 1 .. k - 1 : s[j] = t[j]
      /\ t[k] = [b EXCEPT !.current = n]
  <2> DEFINE c == [b EXCEPT !.current = n]
             u == SubSeq(s, 1, k - 1)
  <2>1. c \in BranchingPoint
    BY SMTT(30), <1>3 DEF BranchingPoint
  <2>2. /\ u \in Seq(BranchingPoint) /\ Len(u) = k - 1
        /\ \A j \in 1 .. k - 1 : u[j] = s[j]
    <3>1. k - 1 <= Len(s)
      BY <1>0
    <3> HIDE DEF s
    <3> QED
      BY <1>0, <1>a, <3>1, PrefixOf
  <2>3. t = Append(u, c)
    BY Zenon, <1>6
  <2> HIDE DEF c, u, t
  <2>4. t \in Seq(BranchingPoint) /\ Len(t) = k /\ t[k] = c
    <3>1. Len(u) + 1 = k
      BY <1>0, <2>2
    <3>2. t \in Seq(BranchingPoint) /\ Len(t) = Len(u) + 1 /\ t[Len(u) + 1] = c
      BY <2>1, <2>2, <2>3, AppendFacts
    <3> QED
      BY <3>1, <3>2
  <2>5. \A j \in 1 .. k - 1 : t[j] = u[j]
    <3>1. \A j \in 1 .. Len(u) : t[j] = u[j]
      BY <2>1, <2>2, <2>3, AppendFacts
    <3> QED
      BY <2>2, <3>1
  <2> QED
    BY <2>2, <2>4, <2>5 DEF c
<1>8. /\ t[k].choices = b.choices /\ t[k].current = n
      /\ t[k].old = b.old /\ t[k].this = b.this /\ t[k].new = b.new
      /\ t[k].disjunctions = b.disjunctions /\ t[k].unprocessed = b.unprocessed
  BY Zenon, <1>3, <1>7 DEF BranchingPoint
<1>9. /\ b.new <= Len(rows) /\ b.this \in 0 .. b.new /\ b.old \in 0 .. b.this
      /\ b.disjunctions <= Len(disjunctions) /\ b.unprocessed \in 1 .. b.disjunctions + 1
      /\ \A i \in 1 .. b.new : rows[i].deps \subseteq 1 .. k - 1
      /\ \A i \in 1 .. b.disjunctions : disjunctions[i].deps \subseteq 1 .. k - 1
  BY Zenon, <1>5 DEF RecordsPrefix
<1>10. /\ rows' \in Seq(Row) /\ Len(rows') = b.new /\ DOMAIN rows' = 1 .. b.new
       /\ \A i \in 1 .. b.new : rows'[i] = rows[i] /\ i \in DOMAIN rows
  <2>1. rows' = SubSeq(rows, 1, b.new)
    BY DEF BacktrackTo
  <2>2. rows \in Seq(Row) /\ b.new \in Nat /\ b.new <= Len(rows)
    BY Zenon, <1>0, <1>3, <1>9
  <2> HIDE DEF b
  <2>3. PICK m \in Nat : m = b.new
    BY <2>2
  <2>4. /\ SubSeq(rows, 1, m) \in Seq(Row) /\ Len(SubSeq(rows, 1, m)) = m
        /\ DOMAIN SubSeq(rows, 1, m) = 1 .. m
        /\ \A i \in 1 .. m : SubSeq(rows, 1, m)[i] = rows[i] /\ i \in DOMAIN rows
    BY Zenon, <2>2, <2>3, PrefixOf
  <2> QED
    BY Zenon, <2>1, <2>3, <2>4
<1>11. /\ disjunctions' \in Seq(Disjunction) /\ Len(disjunctions') = b.disjunctions
       /\ DOMAIN disjunctions' = 1 .. b.disjunctions
       /\ \A i \in 1 .. b.disjunctions :
             disjunctions'[i] = disjunctions[i] /\ i \in DOMAIN disjunctions
  <2>1. disjunctions' = SubSeq(disjunctions, 1, b.disjunctions)
    BY DEF BacktrackTo
  <2>2. disjunctions \in Seq(Disjunction) /\ b.disjunctions \in Nat /\ b.disjunctions <= Len(disjunctions)
    BY <1>0, <1>3, <1>9
  <2> HIDE DEF b
  <2>3. PICK m \in Nat : m = b.disjunctions
    BY <2>2
  <2>4. /\ SubSeq(disjunctions, 1, m) \in Seq(Disjunction)
        /\ Len(SubSeq(disjunctions, 1, m)) = m
        /\ DOMAIN SubSeq(disjunctions, 1, m) = 1 .. m
        /\ \A i \in 1 .. m :
              SubSeq(disjunctions, 1, m)[i] = disjunctions[i] /\ i \in DOMAIN disjunctions
    BY <2>2, <2>3, PrefixOf
  <2> QED
    BY Zenon, <2>1, <2>3, <2>4
<1>12. /\ extensionOld' = b.old /\ extensionThis' = b.this
       /\ firstUnprocessed' = b.unprocessed /\ clash' = {}
  BY DEF BacktrackTo
<1>13. Level' = k
  BY <1>7 DEF Level
\* The disjuncts up to the one just refuted are false wherever the choices the
\* clash names below k hold.
<1>14. ASSUME NEW M \in Ms, AllStand(N, t, M, {j \in d : j < k})
       PROVE  SomeHolds(M, b.choices) /\ \A i \in 1 .. n - 1 : b.choices[i] \notin M
  <2>1. {j \in d : j < k} \subseteq 1 .. k - 1 /\ k - 1 \in Nat
    BY <1>a
  <2> HIDE DEF t, s
  <2>2. AllStand(N, s, M, {j \in d : j < k})
    BY Zenon, <1>7, <1>14, <2>1, ChoicesAgree
  <2>3. /\ SomeHolds(M, s[k].choices)
        /\ \A i \in 1 .. s[k].current : s[k].choices[i] \notin M
    BY Zenon, <1>1, <2>2, ClashRefutes DEF s
  <2>4. \A i \in 1 .. n - 1 : i \in 1 .. b.current
    BY SMTT(30), <1>3
  <2> QED
    BY <2>3, <2>4
<1>15. Formed(Ms, nb)'
  <2>1. pending' \in Seq(Literal)
    <3>1. n \in Nat /\ \A i \in 1 .. n : b.choices[i] \in Atoms
      <4>1. n \in Nat /\ \A i \in 1 .. n : i \in 1 .. Len(b.choices)
        BY SMTT(30), <1>3
      <4> HIDE DEF b, n
      <4> QED
        BY SMTT(30), <1>3, <4>1
    <3>2. \A i \in 1 .. n : Neg(b.choices[i]) \in Literal /\ Pos(b.choices[i]) \in Literal
      BY <3>1 DEF Literal, Neg, Pos
    <3> HIDE DEF n, b
    <3> QED
      BY SMTT(30), <1>6, <3>1, <3>2
  <2>2. e \in SUBSET Nat
    <3>1. e \subseteq d
      BY <1>6, Zenon
    <3>2. \A j \in d : j \in Nat
      BY <1>4
    <3> QED
      BY <3>1, <3>2, Zenon
  <2>3. /\ extensionThis' \in 0 .. Len(rows') /\ extensionOld' \in 0 .. extensionThis'
        /\ firstUnprocessed' \in 1 .. Len(disjunctions') + 1
    BY <1>9, <1>10, <1>11, <1>12
  <2>4. todo' = {} /\ clash' = {} /\ pc' = "choice"
    BY <1>0, <1>12
  <2>5. nb \in 0 .. Len(t)
    BY <1>0, <1>7
  <2> HIDE DEF b, n
  <2> QED
    BY <1>0, <1>7, <1>10, <1>11, <2>1, <2>2, <2>3, <2>4, <2>5 DEF Formed
<1>16. k - 1 \in Nat /\ k - 1 <= Len(t) /\ Len(t) \in Nat
  BY <1>0, <1>7
\* What is kept depends on the choices below k, which stay as they are.
<1>17. ASSUME NEW deps, deps \subseteq 1 .. k - 1, Grounded(Ms, N, nb, s, deps)
       PROVE  Grounded(Ms, N, nb, t, deps)
  <2> HIDE DEF s, t
  <2> QED
    BY Zenon, <1>7, <1>16, <1>17, GroundedAgree
<1>18. Grounded(Ms, N, nb, t, e)
  <2>1. CASE n = Len(b.choices)
    <3>1. e = d \ {k} /\ e \subseteq 1 .. k - 1
      <4>1. e = d \ {k}
        BY <1>6, <2>1
      <4>2. \A j \in 1 .. k : j # k => j \in 1 .. k - 1
        BY <1>0
      <4> HIDE DEF e
      <4> QED
        BY <1>4, <4>1, <4>2, Zenon
    <3>2. Grounded(Ms, N, nb, s, e)
      <4>1. \A j \in e : {i \in e : i < j} = {i \in d : i < j}
        BY <1>0, <3>1
      <4> HIDE DEF e, s
      <4> QED
        BY <1>2, <3>1, <4>1 DEF Grounded
    <3> QED
      BY Zenon, <1>17, <3>1, <3>2
  <2>2. CASE n # Len(b.choices)
    <3>1. e = d
      BY <1>6, <2>2
    <3>2. d \subseteq 1 .. Len(t)
      BY <1>4, <1>7
    <3>3. ASSUME NEW j \in d, j > nb
          PROVE  t[j].current < Len(t[j].choices)
      <4>1. CASE j = k
        BY SMTT(30), <1>3, <1>8, <2>2, <4>1
      <4>2. CASE j # k
        <5>1. j \in 1 .. k - 1
          BY <1>0, <1>4, <4>2
        <5> QED
          BY Zenon, <1>2, <1>7, <3>3, <5>1 DEF Grounded
      <4> QED
        BY Zenon, <4>1, <4>2
    <3>4. ASSUME NEW M \in Ms, NEW j \in d, j > nb, AllStand(N, t, M, {i \in d : i < j})
          PROVE  Refuted(t, M, j)
      <4>1. CASE j = k
        <5>1. SomeHolds(M, b.choices) /\ \A i \in 1 .. n - 1 : b.choices[i] \notin M
          BY <1>14, <3>4, <4>1
        <5> HIDE DEF b, n
        <5> QED
          BY Zenon, <1>8, <4>1, <5>1 DEF Refuted
      <4>2. CASE j # k
        <5>1. j \in 1 .. k - 1 /\ {i \in d : i < j} \subseteq 1 .. k - 1
          <6>1. k \in Nat /\ j \in 1 .. k /\ j # k
            BY <1>0, <1>4, <4>2
          <6>2. \A i \in d : i \in 1 .. k
            BY <1>4
          <6>3. j \in Nat /\ j \in 1 .. k - 1
            BY SMTT(30), <6>1
          <6>4. ASSUME NEW i \in d, i < j
                PROVE  i \in 1 .. k - 1
            <7>1. i \in 1 .. k
              BY <6>2
            <7> QED
              BY <6>1, <6>3, <6>4, <7>1
          <6> QED
            BY Zenon, <6>3, <6>4
        <5>2. AllStand(N, s, M, {i \in d : i < j})
          <6> HIDE DEF s, t
          <6> QED
            BY Zenon, <1>7, <1>16, <3>4, <5>1, ChoicesAgree
        <5>3. Refuted(s, M, j)
          BY Zenon, <1>2, <3>4, <5>2 DEF Grounded
        <5> QED
          BY <1>7, <5>1, <5>3 DEF Refuted
      <4> QED
        BY <4>1, <4>2
    <3> HIDE DEF t, e
    <3> QED
      BY Zenon, <3>1, <3>2, <3>3, <3>4 DEF Grounded
  <2> QED
    BY <2>1, <2>2
<1>19. /\ \A i \in DOMAIN rows' : Grounded(Ms, N, nb, t, rows'[i].deps)
       /\ \A i \in DOMAIN disjunctions' : Grounded(Ms, N, nb, t, disjunctions'[i].deps)
  <2>1. /\ \A i \in DOMAIN rows : Grounded(Ms, N, nb, s, rows[i].deps)
        /\ \A i \in DOMAIN disjunctions : Grounded(Ms, N, nb, s, disjunctions[i].deps)
    BY Zenon DEF Sound, AllGrounded, LiveDeps
  <2> HIDE DEF s, t
  <2> QED
    BY Zenon, <1>9, <1>10, <1>11, <1>17, <2>1 DEF b
<1>20. AllGrounded(Ms, N, nb)'
  BY Zenon, <1>12, <1>13, <1>18, <1>19 DEF AllGrounded, LiveDeps
<1>21. Justified(Ms, N)'
  <2>1. ASSUME NEW M, NEW deps, deps \subseteq 1 .. k - 1, AllStand(N, t, M, deps)
        PROVE  AllStand(N, s, M, deps)
    <3> HIDE DEF s, t
    <3> QED
      BY <1>7, <1>16, <2>1, ChoicesAgree
  <2>2. \A M \in Ms :
          /\ \A i \in DOMAIN rows :
                AllStand(N, s, M, rows[i].deps) => Holds(M, rows[i].lit)
          /\ \A i \in DOMAIN disjunctions :
                AllStand(N, s, M, disjunctions[i].deps) => SomeHolds(M, disjunctions[i].disjuncts)
    BY Zenon DEF Sound, Justified
  <2>3. ASSUME NEW M \in Ms, NEW i \in DOMAIN rows', AllStand(N, t, M, rows'[i].deps)
        PROVE  Holds(M, rows'[i].lit)
    <3>1. i \in DOMAIN rows /\ rows'[i] = rows[i] /\ rows[i].deps \subseteq 1 .. k - 1
      BY Zenon, <1>9, <1>10
    <3> HIDE DEF s, t
    <3> QED
      BY Zenon, <2>1, <2>2, <2>3, <3>1
  <2>4. ASSUME NEW M \in Ms, NEW i \in DOMAIN disjunctions',
               AllStand(N, t, M, disjunctions'[i].deps)
        PROVE  SomeHolds(M, disjunctions'[i].disjuncts)
    <3>1. /\ i \in DOMAIN disjunctions /\ disjunctions'[i] = disjunctions[i]
          /\ disjunctions[i].deps \subseteq 1 .. k - 1
      BY Zenon, <1>9, <1>11
    <3> HIDE DEF s, t
    <3> QED
      BY Zenon, <2>1, <2>2, <2>4, <3>1
  <2> QED
    BY <1>12, <1>13, <2>3, <2>4 DEF Justified
<1>22. PendingJustified(Ms, N)'
  <2>1. ASSUME NEW M \in Ms, AllStand(N, t, M, e)
        PROVE  b.choices[n] \in M /\ \A i \in 1 .. n - 1 : b.choices[i] \notin M
    <3>1. CASE n = Len(b.choices)
      <4>1. \A j \in {j \in d : j < k} : j \in e
        BY SMTT(30), <1>0, <1>4, <1>6, <3>1
      <4>2. AllStand(N, t, M, {j \in d : j < k})
        BY Zenon, <2>1, <4>1 DEF AllStand
      <4>3. SomeHolds(M, b.choices) /\ \A i \in 1 .. n - 1 : b.choices[i] \notin M
        BY Zenon, <1>14, <4>2
      <4>4. PICK i \in DOMAIN b.choices : b.choices[i] \in M
        BY Zenon, <4>3 DEF SomeHolds
      <4>5. i \in 1 .. n - 1 \/ i = n
        BY SMTT(30), <1>3, <3>1, <4>4
      <4> QED
        BY Zenon, <4>3, <4>4, <4>5
    <3>2. CASE n # Len(b.choices)
      <4>1. Stands(N, t, M, k)
        BY Zenon, <1>1, <1>6, <2>1, <3>2 DEF AllStand
      <4>2. t[k].choices # <<>>
        BY <1>3, <1>8
      <4>3. ChoiceHolds(t, M, k)
        BY <4>1, <4>2 DEF Stands
      <4> HIDE DEF b, n
      <4> QED
        BY <1>8, <4>3 DEF ChoiceHolds
    <3> QED
      BY Zenon, <3>1, <3>2
  <2>2. ASSUME NEW M \in Ms, AllStand(N, t, M, e), NEW i \in DOMAIN pending'
        PROVE  Holds(M, pending'[i])
    <3>1. i \in 1 .. n /\ n \in Nat
      BY SMTT(30), <1>3, <1>6, <2>2
    <3>4. pending'[i] = IF i < n THEN Neg(b.choices[i]) ELSE Pos(b.choices[i])
      BY <1>6, <3>1
    <3>5. b.choices[n] \in M /\ \A j \in 1 .. n - 1 : b.choices[j] \notin M
      BY <2>1, <2>2
    <3> HIDE DEF b, n, s, t, e
    <3>2. CASE i < n
      <4>1. b.choices[i] \notin M
        BY <3>1, <3>2, <3>5
      <4> QED
        BY SMTT(30), <3>2, <3>4, <4>1 DEF Holds, Neg
    <3>3. CASE i = n
      BY SMTT(30), <3>1, <3>3, <3>4, <3>5 DEF Holds, Pos
    <3> QED
      BY <3>1, <3>2, <3>3
  <2> QED
    BY <1>13, <2>2 DEF PendingJustified
<1>23. Branching(nb)'
  <2>1. \A i \in DOMAIN disjunctions' : Len(disjunctions'[i].disjuncts) > 1
    BY Zenon, <1>11 DEF Sound, Branching
  <2>2. ASSUME NEW j \in 1 .. k, j > nb
        PROVE  t[j].current \in 1 .. Len(t[j].choices)
    <3>1. CASE j = k
      BY SMTT(30), <1>3, <1>8, <3>1
    <3>2. CASE j # k
      <4>1. j \in 1 .. k - 1 /\ j \in 1 .. Level
        BY <1>0, <3>2
      <4> QED
        BY <1>7, <2>2, <4>1 DEF Sound, Branching
    <3> QED
      BY Zenon, <3>1, <3>2
  <2> QED
    BY Zenon, <1>13, <2>1, <2>2 DEF Branching
<1>24. StackRecordsPrefix'
  <2>1. ASSUME NEW j \in 1 .. k
        PROVE  /\ t[j].old = s[j].old /\ t[j].this = s[j].this /\ t[j].new = s[j].new
               /\ t[j].disjunctions = s[j].disjunctions /\ t[j].unprocessed = s[j].unprocessed
    <3>1. CASE j = k
      BY <1>8, <3>1
    <3>2. CASE j # k
      <4>1. j \in 1 .. k - 1
        BY <1>0, <3>2
      <4> QED
        BY <1>7, <4>1
    <3> QED
      BY <3>1, <3>2
  <2>2. ASSUME NEW j \in 1 .. k
        PROVE  RecordsPrefix(j)'
    <3>1. RecordsPrefix(j) /\ s[j] \in BranchingPoint
      BY <1>0 DEF Sound, StackRecordsPrefix
    <3>2. PICK w \in Nat, v \in Nat : w = s[j].new /\ v = s[j].disjunctions
      BY Zenon, <3>1 DEF BranchingPoint
    <3>3. k \in j .. Level /\ \A i \in j .. k : i \in j .. Level /\ i \in 1 .. k
      BY <1>0
    <3>4. /\ w <= Len(rows') /\ v <= Len(disjunctions')
          /\ \A i \in j .. k : w <= t[i].new /\ v <= t[i].disjunctions
      BY Zenon, <1>10, <1>11, <2>1, <3>1, <3>2, <3>3 DEF RecordsPrefix
    <3>5. \A i \in 1 .. w : rows'[i].deps \subseteq 1 .. j - 1
      <4>1. \A i \in 1 .. w : rows[i].deps \subseteq 1 .. j - 1
        BY Zenon, <3>1, <3>2 DEF RecordsPrefix
      <4>2. w <= b.new /\ b.new \in Nat
        BY Zenon, <1>3, <1>10, <3>4
      <4> HIDE DEF b
      <4>3. \A i \in 1 .. w : i \in 1 .. b.new
        BY <4>2
      <4> QED
        BY Zenon, <1>10, <4>1, <4>3
    <3>6. \A i \in 1 .. v : disjunctions'[i].deps \subseteq 1 .. j - 1
      <4>1. \A i \in 1 .. v : disjunctions[i].deps \subseteq 1 .. j - 1
        BY Zenon, <3>1, <3>2 DEF RecordsPrefix
      <4>2. v <= b.disjunctions /\ b.disjunctions \in Nat
        BY Zenon, <1>3, <1>11, <3>4
      <4> HIDE DEF b
      <4>3. \A i \in 1 .. v : i \in 1 .. b.disjunctions
        BY <4>2
      <4> QED
        BY <1>11, <4>1, <4>3
    <3>7. /\ t[j].this \in 0 .. t[j].new /\ t[j].old \in 0 .. t[j].this
          /\ t[j].unprocessed \in 1 .. t[j].disjunctions + 1
      BY Zenon, <2>1, <3>1 DEF RecordsPrefix
    <3> QED
      BY Zenon, <1>13, <2>1, <3>2, <3>4, <3>5, <3>6, <3>7 DEF RecordsPrefix
  <2> QED
    BY <1>13, <2>2 DEF StackRecordsPrefix
<1>25. TodoMatched' /\ Phases(nb)'
  BY <1>0 DEF TodoMatched, Phases
<1> QED
  BY Zenon, <1>15, <1>20, <1>21, <1>22, <1>23, <1>24, <1>25 DEF Sound

\* It is kept by backtrack_on_clash, which ends the run or takes the next choice.
LEMMA BacktrackOnClashInv ==
    ASSUME NEW Ms, NEW N, NEW nb \in Nat, Sound(Ms, N, nb), BacktrackOnClash
    PROVE  Sound(Ms, N, nb)'
<1>1. PICK d \in clash, k \in 0 .. Level :
         /\ IsMaximum(k, d)
         /\ IF k <= nonbacktrackable
            THEN /\ pc' = "done"
                 /\ UNCHANGED <<rows, extensionOld, extensionThis, disjunctions,
                                firstUnprocessed, branchingPoints, clash, pending,
                                pendingDeps>>
            ELSE /\ BacktrackTo(k) /\ StartNextChoice(k, d) /\ pc' = "choice"
  BY DEF BacktrackOnClash, table
<1>2. pc = "iterate" /\ UNCHANGED <<ontology, nonbacktrackable, todo>>
  BY DEF BacktrackOnClash
<1>3. nonbacktrackable = nb /\ Level \in Nat /\ Formed(Ms, nb)
  <2>1. nonbacktrackable = nb /\ branchingPoints \in Seq(BranchingPoint) /\ Formed(Ms, nb)
    BY Zenon DEF Sound, Formed
  <2> QED
    BY <2>1 DEF Level
<1>4. CASE k <= nb
  <2>1. d \subseteq 1 .. Level
    BY DEF Sound, AllGrounded, LiveDeps, Grounded, Level
  <2>2. \A j \in d : j <= nb
    <3>1. \A j \in d : j \in Nat /\ j <= k
      BY <1>1, <2>1 DEF IsMaximum
    <3> QED
      BY <1>3, <1>4, <3>1
  <2>3. /\ pc' = "done"
        /\ UNCHANGED <<rows, extensionOld, extensionThis, disjunctions, firstUnprocessed,
                       branchingPoints, clash, pending, pendingDeps>>
    BY Zenon, <1>1, <1>3, <1>4
  <2>4. StackRecordsPrefix' /\ Branching(nb)' /\ AllGrounded(Ms, N, nb)'
        /\ Justified(Ms, N)' /\ PendingJustified(Ms, N)' /\ Facts' = Facts
    BY Zenon, <1>2, <2>3, FrameKeeps
  <2>5. Formed(Ms, nb)'
    BY Zenon, <1>2, <1>3, <2>3 DEF Formed
  <2>6. TodoMatched'
    BY Zenon, <1>2, <2>3, <2>4 DEF Sound, TodoMatched
  <2>7. Phases(nb)'
    BY Zenon, <2>2, <2>3 DEF Phases
  <2> QED
    BY <2>4, <2>5, <2>6, <2>7 DEF Sound
<1>5. CASE ~(k <= nb)
  <2>1. k \in 1 .. Level /\ k > nb
    BY <1>3, <1>5
  <2> QED
    BY <1>1, <1>2, <1>3, <1>5, <2>1, NextChoiceInv
<1> QED
  BY <1>4, <1>5

-----------------------------------------------------------------------------
(* The theorems.                                                           *)

\* Every step keeps the invariant.
LEMMA NextSound ==
    ASSUME NEW Ms, NEW N, NEW nb \in Nat, Sound(Ms, N, nb), [Next]_vars
    PROVE  Sound(Ms, N, nb)'
<1>1. CASE Step
  BY Zenon, <1>1, AssertPendingStores, StoresPendingInv, AssertedInv, PropagateDeltaNewInv, DeriveClashInv,
     DeriveFactInv, DeriveDisjunctionInv, PassFinishedInv,
     ProcessFirstGroundDisjunctionInv, BacktrackOnClashInv DEF Step
<1>2. CASE UNCHANGED vars
  <2>1. UNCHANGED <<ontology, rows, extensionOld, extensionThis, disjunctions,
                    firstUnprocessed, branchingPoints, nonbacktrackable, clash, todo,
                    pending, pendingDeps, pc>>
    BY Zenon, <1>2 DEF vars, table, work
  <2>2. StackRecordsPrefix' /\ Branching(nb)' /\ AllGrounded(Ms, N, nb)'
        /\ Justified(Ms, N)' /\ PendingJustified(Ms, N)' /\ Facts' = Facts
    BY Zenon, <2>1, FrameKeeps
  <2>3. Formed(Ms, nb)' /\ TodoMatched' /\ Phases(nb)'
    BY Zenon, <2>1, <2>2 DEF Sound, Formed, TodoMatched, Phases, ContainsClash
  <2> QED
    BY Zenon, <2>2, <2>3 DEF Sound
<1> QED
  BY Zenon, <1>1, <1>2 DEF Next, Finished

\* A run on its own looks among the models of its clauses and its ABox, and can
\* take back every choice.
Inv == Sound(Models, {}, 0) /\ pc \in Control

\* The invariant holds initially and is kept.
LEMMA InitInv == Init => Inv
<1> SUFFICES ASSUME Init PROVE Inv
  OBVIOUS
<1>1. PICK Ms : Ms = Models
  OBVIOUS
<1>2. Sound(Ms, {}, 0)
  BY <1>1, InitSound
<1> QED
  BY <1>1, <1>2 DEF Inv, Init, Control

LEMMA NextInv == Inv /\ [Next]_vars => Inv'
<1> SUFFICES ASSUME Inv, [Next]_vars PROVE Inv'
  OBVIOUS
<1>1. PICK Ms : Ms = Models
  OBVIOUS
<1>2. Sound(Ms, {}, 0)'
  BY Zenon, <1>1, NextSound DEF Inv
<1>3. Models' = Models
  <2>1. ontology' = ontology
    BY Zenon DEF Next, Step, Finished, AssertPending, Asserted, PropagateDeltaNew, DeriveClash,
           DeriveFact, DeriveDisjunction, Fire, PassFinished,
           ProcessFirstGroundDisjunction, BacktrackOnClash, vars
  <2> QED
    BY Zenon, <2>1 DEF Models
<1>4. Sound(Models, {}, 0)'
  BY Zenon, <1>1, <1>2, <1>3
<1>5. (pc \in Control)'
  BY Zenon DEF Inv, Control, Next, Step, Finished, AssertPending, Asserted, PropagateDeltaNew,
         DeriveClash, DeriveFact, DeriveDisjunction, Fire, PassFinished,
         ProcessFirstGroundDisjunction, ProcessGroundDisjunction, BacktrackOnClash, vars
<1> QED
  BY <1>4, <1>5 DEF Inv

\* Everything above holds in every reachable state.
THEOREM Invariance == Spec => []Inv
  BY InitInv, NextInv, PTL DEF Spec

\* A run on its own has no branching point without choices.
LEMMA StandsIsChoice ==
    ASSUME Inv, NEW M, NEW deps, deps \subseteq 1 .. Level
    PROVE  AllStand({}, branchingPoints, M, deps) <=> ChoicesHold(branchingPoints, M, deps)
<1>1. ASSUME NEW k \in deps
      PROVE  Stands({}, branchingPoints, M, k) <=> ChoiceHolds(branchingPoints, M, k)
  <2>1. k \in 1 .. Level /\ branchingPoints \in Seq(BranchingPoint)
    BY Zenon DEF Inv, Sound, Formed
  <2>2. branchingPoints[k].current \in 1 .. Len(branchingPoints[k].choices)
    BY <2>1 DEF Inv, Sound, Branching
  <2>3. branchingPoints[k].choices # <<>>
    BY <2>2
  <2> QED
    BY Zenon, <2>3 DEF Stands
<1> QED
  BY Zenon, <1>1 DEF AllStand, ChoicesHold

\* A dependency set in use names branching points on the stack.
LEMMA LiveDepsOnStack ==
    ASSUME Inv
    PROVE  /\ \A deps \in LiveDeps : deps \subseteq 1 .. Level
           /\ \A i \in DOMAIN rows : rows[i].deps \subseteq 1 .. Level
           /\ \A i \in DOMAIN disjunctions : disjunctions[i].deps \subseteq 1 .. Level
           /\ \A deps \in clash : deps \subseteq 1 .. Level
<1>1. \A deps \in LiveDeps : deps \subseteq 1 .. Level
  BY DEF Inv, Sound, AllGrounded, Grounded, Level
<1> QED
  BY Zenon, <1>1 DEF LiveDeps

\* The windows of the table, the queue and the stack stay well formed.
THEOREM TypeCorrect == Spec => []TypeOK
<1>1. Inv => TypeOK
  BY DEF Inv, Sound, Formed, TypeOK
<1> QED
  BY <1>1, Invariance, PTL

\* A branching point can always be gone back to: what backtrack_to restores is
\* what was there, and nothing of it rests on the choice being undone.
THEOREM BacktrackingRestores == Spec => []StackRecordsPrefix
<1>1. Inv => StackRecordsPrefix
  BY DEF Inv, Sound
<1> QED
  BY <1>1, Invariance, PTL

\* The dependency sets that extension_manager.rs and dl_clause_evaluator.rs
\* build name every choice their facts rest on.
THEOREM DependenciesSound == Spec => []DependenciesJustify
<1>1. Inv => DependenciesJustify
  <2> SUFFICES ASSUME Inv, NEW M \in Models
               PROVE  /\ \A i \in DOMAIN rows :
                            ChoicesHold(branchingPoints, M, rows[i].deps) => Holds(M, rows[i].lit)
                      /\ \A i \in DOMAIN disjunctions :
                            ChoicesHold(branchingPoints, M, disjunctions[i].deps)
                                => SomeHolds(M, disjunctions[i].disjuncts)
                      /\ \A deps \in clash : ~ChoicesHold(branchingPoints, M, deps)
    BY DEF DependenciesJustify
  <2> QED
    BY Zenon, LiveDepsOnStack, StandsIsChoice DEF Inv, Sound, Justified
<1> QED
  BY <1>1, Invariance, PTL

\* start_next_choice may drop the level of the last disjunct.
THEOREM AbandonedSound == Spec => []AbandonedChoicesRefuted
<1>1. Inv => AbandonedChoicesRefuted
  <2> SUFFICES ASSUME Inv, NEW M \in Models, NEW deps \in LiveDeps, NEW k \in deps,
                      ChoicesHold(branchingPoints, M, {j \in deps : j < k})
               PROVE  Refuted(branchingPoints, M, k)
    BY DEF AbandonedChoicesRefuted
  <2>1. deps \subseteq 1 .. Level /\ {j \in deps : j < k} \subseteq 1 .. Level
    BY LiveDepsOnStack
  <2>2. AllStand({}, branchingPoints, M, {j \in deps : j < k})
    BY <2>1, StandsIsChoice
  <2>3. k > 0
    BY <2>1
  <2> QED
    BY <2>2, <2>3 DEF Inv, Sound, AllGrounded, Grounded
<1> QED
  BY <1>1, Invariance, PTL

\* backtrack_on_clash never goes back to an exhausted branching point, so
\* start_next_choice always finds a next disjunct.
THEOREM NextChoiceExists == Spec => []ExhaustedChoiceNotNamed
<1>1. Inv => ExhaustedChoiceNotNamed
  <2> SUFFICES ASSUME Inv, NEW deps \in LiveDeps, NEW k \in deps
               PROVE  k \in 1 .. Level /\ branchingPoints[k].current < Len(branchingPoints[k].choices)
    BY DEF ExhaustedChoiceNotNamed
  <2>1. k \in 1 .. Level /\ k > 0
    BY LiveDepsOnStack
  <2> QED
    BY <2>1 DEF Inv, Sound, AllGrounded, Grounded
<1> QED
  BY <1>1, Invariance, PTL

\* run_calculus answers "no model" only for facts and clauses that have none,
\* whatever branches backtrack_on_clash skips.
THEOREM Soundness == Spec => []UnsatisfiableAnswer
<1>1. Inv => UnsatisfiableAnswer
  <2> SUFFICES ASSUME Inv, pc = "done", ContainsClash PROVE Models = {}
    BY DEF UnsatisfiableAnswer
  <2>1. PICK deps \in clash : \A j \in deps : j <= 0
    BY DEF Inv, Sound, Phases
  <2>2. deps = {}
    BY <2>1, LiveDepsOnStack
  <2>3. \A M \in Models : ~AllStand({}, branchingPoints, M, {})
    BY <2>1, <2>2 DEF Inv, Sound, Justified
  <2> QED
    BY <2>3 DEF AllStand
<1> QED
  BY <1>1, Invariance, PTL
=============================================================================
