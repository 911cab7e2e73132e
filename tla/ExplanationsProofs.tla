------------------------- MODULE ExplanationsProofs -------------------------
(***************************************************************************)
(* Proofs about Explanations, for every ontology and every family of       *)
(* justifications: what all_explanations returns are justifications, and   *)
(* when it returns it has found every one.                                 *)
(***************************************************************************)
EXTENDS Explanations, FiniteSetTheorems, SequenceTheorems, WellFoundedInduction, TLAPS

\* Every leaf that names no prover is given to these, in this order.
USE SMTT(90), ZenonT(60)

(***************************************************************************)
(* The inductive invariant.                                                *)
(***************************************************************************)
SearchTypeOK ==
  /\ justifications \in SUBSET SUBSET Axioms /\ Antichain(justifications)
  /\ worklist \in Seq(SUBSET Axioms)
  /\ explored \in SUBSET SUBSET Axioms /\ removed \in SUBSET Axioms
  /\ support \in Seq(Axioms) /\ index \in Nat \ {0}
  /\ phase \in {"pop", "shrink", "done"}

\* What justify_indices shrinks are distinct axioms outside the removed set.
SupportAvailable ==
  phase = "shrink" =>
    /\ ToSet(support) \cap removed = {}
    /\ \A i, k \in DOMAIN support : support[i] = support[k] => i = k

\* A justification that is still missing keeps the tree open: the empty set is a
\* node of it, and below every node that leaves the justification intact there is
\* another, except below the one in hand.
Nodes == explored \cup ToSet(worklist)
TreeOpen ==
  /\ {} \in Nodes
  /\ \A j \in justifications \ found : \A e \in explored :
       e \cap j = {} => \/ phase = "shrink" /\ e = removed
                        \/ \E x \in Axioms \ (j \cup e) : e \cup {x} \in Nodes

SearchInvariant ==
  /\ SearchTypeOK /\ ShrinkInvariant /\ SupportAvailable /\ TreeOpen
  /\ found \subseteq justifications
  /\ phase = "done" => worklist = <<>>

(***************************************************************************)
(* The oracle and the sequences.                                           *)
(***************************************************************************)
\* is_entailed_core is monotone.
LEMMA EntailmentMonotone ==
  ASSUME NEW s, NEW t, s \subseteq t, IsEntailed(s) PROVE IsEntailed(t)
BY DEF IsEntailed

\* The axioms in some order are all of them, each once.
LEMMA ListedOnce ==
  ASSUME NEW S, IsFiniteSet(S), NEW f \in SetToSeqs(S)
  PROVE  f \in Seq(S) /\ ToSet(f) = S /\ \A i, k \in DOMAIN f : f[i] = f[k] => i = k
<1> DEFINE n == Cardinality(S)
<1>1. n \in Nat
  BY FS_CardinalityType
<1>2. f \in [1..n -> S] /\ \A i, k \in 1..n : i # k => f[i] # f[k]
  BY DEF SetToSeqs
<1>3. DOMAIN f = 1..n /\ f \in Seq(S)
  BY <1>1, <1>2
<1>4. IsFiniteSet(1..n) /\ Cardinality(1..n) = n
  <2>1. \A m \in Nat : IsFiniteSet(1..m) /\ Cardinality(1..m) = IF 1 > m THEN 0 ELSE m - 1 + 1
    BY FS_Interval
  <2>2. \A m \in Nat : (IF 1 > m THEN 0 ELSE m - 1 + 1) = m
    OBVIOUS
  <2> HIDE DEF n
  <2> QED BY <1>1, <2>1, <2>2
<1>5. \A x \in S : x \in ToSet(f)
  <2> SUFFICES ASSUME NEW x \in S, x \notin ToSet(f) PROVE FALSE
    OBVIOUS
  <2>1. IsFiniteSet(S \ {x}) /\ Cardinality(S \ {x}) = n - 1
    BY FS_RemoveElement
  <2>2. f \in [1..n -> S \ {x}]
    BY <1>2, <1>3 DEF ToSet
  <2>3. n - 1 < n
    BY <1>1
  <2>4. \E i, k \in 1..n : i # k /\ f[i] = f[k]
    <3> HIDE DEF n
    <3>1. Cardinality(S \ {x}) < Cardinality(1..n)
      BY <1>4, <2>1, <2>3
    <3> QED BY Zenon, <1>4, <2>1, <2>2, <3>1, FS_PigeonHole
  <2> QED BY <1>2, <2>4
<1>6. ToSet(f) \subseteq S
  BY <1>2, <1>3 DEF ToSet
<1> QED BY <1>2, <1>3, <1>5, <1>6

\* Taking the last element of a non-empty sequence.
LEMMA FrontAndLast ==
  ASSUME NEW S, NEW s \in Seq(S), s # <<>>
  PROVE  Front(s) \in Seq(S) /\ Last(s) \in S /\ ToSet(s) = ToSet(Front(s)) \cup {Last(s)}
<1>1. Len(s) \in Nat \ {0} /\ DOMAIN s = 1..Len(s)
  OBVIOUS
<1>2. Last(s) = s[Len(s)] /\ Last(s) \in S
  BY <1>1 DEF Last
<1>3. /\ Front(s) \in Seq(S) /\ DOMAIN Front(s) = 1..(Len(s) - 1)
      /\ \A i \in 1..(Len(s) - 1) : Front(s)[i] = s[i]
  BY <1>1 DEF Front
<1>4. \A i \in 1..Len(s) : i = Len(s) \/ i \in 1..(Len(s) - 1)
  <2>1. \A n \in Nat : \A i \in 1..n : i = n \/ i \in 1..(n - 1)
    OBVIOUS
  <2> QED BY Zenon, <1>1, <2>1
<1>5. ToSet(s) \subseteq ToSet(Front(s)) \cup {Last(s)}
  BY Zenon, <1>1, <1>2, <1>3, <1>4 DEF ToSet
<1>6. ToSet(Front(s)) \cup {Last(s)} \subseteq ToSet(s)
  BY <1>1, <1>2, <1>3 DEF ToSet
<1> QED BY <1>2, <1>3, <1>5, <1>6

\* Pushing a sequence on another.
LEMMA PushContents ==
  ASSUME NEW S, NEW s \in Seq(S), NEW t \in Seq(S)
  PROVE  s \o t \in Seq(S) /\ ToSet(s \o t) = ToSet(s) \cup ToSet(t)
<1>1. /\ s \o t \in Seq(S) /\ Len(s) \in Nat /\ Len(t) \in Nat
      /\ DOMAIN s = 1..Len(s) /\ DOMAIN t = 1..Len(t) /\ DOMAIN (s \o t) = 1..(Len(s) + Len(t))
  OBVIOUS
<1>2. \A i \in 1..(Len(s) + Len(t)) :
        (s \o t)[i] = IF i <= Len(s) THEN s[i] ELSE t[i - Len(s)]
  OBVIOUS
<1>3. ToSet(s \o t) \subseteq ToSet(s) \cup ToSet(t)
  <2> SUFFICES ASSUME NEW i \in 1..(Len(s) + Len(t))
               PROVE  (s \o t)[i] \in ToSet(s) \cup ToSet(t)
    BY <1>1 DEF ToSet
  <2>1. CASE i <= Len(s)
    BY <1>1, <1>2, <2>1 DEF ToSet
  <2>2. CASE ~(i <= Len(s))
    <3>1. i - Len(s) \in 1..Len(t)
      BY <1>1, <2>2
    <3> QED BY <1>1, <1>2, <2>2, <3>1 DEF ToSet
  <2> QED BY <2>1, <2>2
<1>4. \A i \in 1..Len(s) : i \in 1..(Len(s) + Len(t)) /\ (s \o t)[i] = s[i]
  BY <1>1
<1>5. \A i \in 1..Len(t) : Len(s) + i \in 1..(Len(s) + Len(t)) /\ (s \o t)[Len(s) + i] = t[i]
  BY <1>1
<1>6. ToSet(s) \cup ToSet(t) \subseteq ToSet(s \o t)
  BY <1>1, <1>4, <1>5 DEF ToSet
<1> QED BY <1>1, <1>3, <1>6

\* Dropping the element at a position of a sequence of distinct elements.
LEMMA RemoveOne ==
  ASSUME NEW S, NEW s \in Seq(S), NEW n \in 1..Len(s),
         \A i, k \in DOMAIN s : s[i] = s[k] => i = k
  PROVE  LET r == RemoveAt(s, n)
         IN  /\ r \in Seq(S) /\ Len(r) = Len(s) - 1
             /\ ToSet(r) = ToSet(s) \ {s[n]}
             /\ \A i \in DOMAIN r : i < n => r[i] = s[i] /\ i \in DOMAIN s
             /\ \A i, k \in DOMAIN r : r[i] = r[k] => i = k
<1> DEFINE m == Len(s)
           a == SubSeq(s, 1, n - 1)
           b == SubSeq(s, n + 1, m)
           r == RemoveAt(s, n)
           at(i) == IF i < n THEN i ELSE i + 1
<1>1. m \in Nat /\ n \in 1..m /\ DOMAIN s = 1..m
  OBVIOUS
<1>2. a \in Seq(S) /\ Len(a) = n - 1 /\ \A i \in 1..(n - 1) : a[i] = s[i]
  BY <1>1
<1>3. b \in Seq(S) /\ Len(b) = m - n /\ \A i \in 1..(m - n) : b[i] = s[i + n]
  <2> DEFINE k == n + 1
  <2> HIDE DEF m, k
  <2>1. k \in Int /\ m \in Int /\ \A i \in k..m : s[i] \in S
    BY <1>1 DEF k, m
  <2>2. /\ SubSeq(s, k, m) \in Seq(S)
        /\ Len(SubSeq(s, k, m)) = IF k <= m THEN m - k + 1 ELSE 0
        /\ \A i \in 1..(m - k + 1) : SubSeq(s, k, m)[i] = s[k + i - 1]
    BY <2>1, SubSeqProperties
  <2>3. (IF k <= m THEN m - k + 1 ELSE 0) = m - n /\ m - k + 1 = m - n
    BY <1>1 DEF k
  <2>4. \A i \in 1..(m - n) : k + i - 1 = i + n
    BY <1>1 DEF k
  <2>5. b = SubSeq(s, k, m)
    BY DEF k
  <2> HIDE DEF b
  <2> QED BY <2>2, <2>3, <2>4, <2>5
<1>4. r = a \o b
  BY DEF RemoveAt
<1> HIDE DEF m, a, b, r
<1>5. n - 1 \in Nat /\ m - n \in Nat /\ (n - 1) + (m - n) = m - 1
  BY <1>1
<1>6. r \in Seq(S) /\ Len(r) = m - 1 /\ DOMAIN r = 1..(m - 1)
  <2>1. a \o b \in Seq(S) /\ Len(a \o b) = Len(a) + Len(b) /\ DOMAIN (a \o b) = 1..Len(a \o b)
    <3>1. a \in Seq(S) /\ b \in Seq(S)
      BY <1>2, <1>3, Zenon
    <3>2. a \o b \in Seq(S) /\ Len(a \o b) = Len(a) + Len(b)
      BY <3>1, ConcatProperties, Zenon
    <3> QED BY <3>2, SMTT(30)
  <2> QED BY <1>2, <1>3, <1>4, <1>5, <2>1
<1>7. \A i \in 1..(m - 1) : r[i] = s[at(i)]
  <2> SUFFICES ASSUME NEW i \in 1..(m - 1) PROVE r[i] = s[at(i)]
    OBVIOUS
  <2>1. r[i] = IF i <= Len(a) THEN a[i] ELSE b[i - Len(a)]
    <3>1. \A k \in 1..(Len(a) + Len(b)) :
            (a \o b)[k] = IF k <= Len(a) THEN a[k] ELSE b[k - Len(a)]
      BY <1>2, <1>3, ConcatProperties
    <3>2. Len(a) + Len(b) = m - 1
      BY <1>2, <1>3, <1>5
    <3> QED BY <1>4, <3>1, <3>2
  <2>2. CASE i < n
    <3>1. i \in 1..(n - 1) /\ i <= n - 1
      BY <1>1, <2>2
    <3> QED BY <1>2, <2>1, <2>2, <3>1
  <2>3. CASE ~(i < n)
    <3>1. i - (n - 1) \in 1..(m - n) /\ ~(i <= n - 1) /\ (i - (n - 1)) + n = i + 1
      BY <1>1, <2>3
    <3>2. b[i - (n - 1)] = s[(i - (n - 1)) + n]
      BY <1>3, <3>1
    <3> QED BY <1>2, <2>1, <2>3, <3>1, <3>2
  <2> QED BY <2>2, <2>3
<1>8. \A i \in 1..(m - 1) : at(i) \in 1..m /\ at(i) # n
  BY <1>1
<1>9. \A i, k \in 1..(m - 1) : at(i) = at(k) => i = k
  BY <1>1
<1>10. \A i \in 1..m : i # n => \E k \in 1..(m - 1) : at(k) = i
  <2> SUFFICES ASSUME NEW i \in 1..m, i # n
               PROVE  \E k \in 1..(m - 1) : at(k) = i
    OBVIOUS
  <2>1. CASE i < n
    <3>1. i \in 1..(m - 1) /\ at(i) = i
      BY <1>1, <2>1
    <3> QED BY <3>1
  <2>2. CASE i > n
    <3>1. i - 1 \in 1..(m - 1) /\ at(i - 1) = i
      BY <1>1, <2>2
    <3> QED BY <3>1
  <2> QED BY <1>1, <2>1, <2>2
<1>11. \A i \in 1..(m - 1) : i < n => at(i) = i
  OBVIOUS
<1> HIDE DEF at
<1>12. ToSet(r) \subseteq ToSet(s) \ {s[n]}
  <2> SUFFICES ASSUME NEW i \in 1..(m - 1) PROVE r[i] \in ToSet(s) /\ r[i] # s[n]
    BY <1>6 DEF ToSet
  <2>1. r[i] = s[at(i)] /\ at(i) \in DOMAIN s /\ n \in DOMAIN s /\ at(i) # n
    BY <1>1, <1>7, <1>8
  <2> QED BY <2>1 DEF ToSet
<1>13. ToSet(s) \ {s[n]} \subseteq ToSet(r)
  <2> SUFFICES ASSUME NEW i \in 1..m, s[i] # s[n] PROVE s[i] \in ToSet(r)
    BY <1>1 DEF ToSet
  <2>1. PICK k \in 1..(m - 1) : at(k) = i
    BY <1>10
  <2>2. r[k] = s[i] /\ k \in DOMAIN r
    BY <1>6, <1>7, <2>1
  <2> QED BY <2>2 DEF ToSet
<1>14. \A i, k \in DOMAIN r : r[i] = r[k] => i = k
  <2> SUFFICES ASSUME NEW i \in 1..(m - 1), NEW k \in 1..(m - 1), r[i] = r[k] PROVE i = k
    BY <1>6
  <2>1. s[at(i)] = s[at(k)] /\ at(i) \in DOMAIN s /\ at(k) \in DOMAIN s
    BY <1>1, <1>7, <1>8
  <2> QED BY <1>9, <2>1
<1>15. \A i \in DOMAIN r : i < n => r[i] = s[i] /\ i \in DOMAIN s
  BY <1>1, <1>6, <1>7, <1>8, <1>11
<1> QED BY <1>6, <1>12, <1>13, <1>14, <1>15 DEF r, m

(***************************************************************************)
(* The steps of the search.                                                *)
(***************************************************************************)
LEMMA SearchInitially == Init => SearchInvariant
<1> SUFFICES ASSUME Init PROVE SearchInvariant
  OBVIOUS
<1>1. justifications \in SUBSET SUBSET Axioms /\ Antichain(justifications)
  BY FamiliesAssumption DEF Init
<1>2. ToSet(worklist) = {{}} /\ worklist \in Seq(SUBSET Axioms)
  <2>1. worklist = <<{}>> /\ Len(worklist) = 1 /\ DOMAIN worklist = {1} /\ worklist[1] = {}
    BY DEF Init
  <2>2. worklist \in Seq(SUBSET Axioms)
    BY <2>1
  <2> QED BY <2>1, <2>2, Zenon DEF ToSet
<1>3. SearchTypeOK
  BY <1>1, <1>2 DEF SearchTypeOK, Init
<1>4. TreeOpen
  BY <1>2 DEF TreeOpen, Nodes, Init
<1> QED BY <1>3, <1>4 DEF SearchInvariant, ShrinkInvariant, SupportAvailable, Init

\* A node of the tree is taken from the stack.
LEMMA PopPreserves == SearchInvariant /\ Pop => SearchInvariant'
<1> SUFFICES ASSUME SearchInvariant, Pop PROVE SearchInvariant'
  OBVIOUS
<1> DEFINE e == Last(worklist)
<1>1. SearchTypeOK /\ TreeOpen /\ found \subseteq justifications
  BY DEF SearchInvariant
<1>2. /\ worklist' \in Seq(SUBSET Axioms) /\ e \in SUBSET Axioms
      /\ ToSet(worklist) = ToSet(worklist') \cup {e}
  BY <1>1, FrontAndLast DEF Pop, SearchTypeOK
<1>3. /\ phase = "pop" /\ removed' = e /\ explored' = explored \cup {e}
      /\ justifications' = justifications /\ found' = found
  BY DEF Pop
<1>4. Nodes' = Nodes
  BY <1>2, <1>3 DEF Nodes
<1> HIDE DEF e
<1>5. CASE phase' = "shrink"
  <2>1. support' \in SetToSeqs(Axioms \ e) /\ index' = 1 /\ IsEntailed(Axioms \ e)
    BY <1>3, <1>5 DEF Pop, e
  <2>2. IsFiniteSet(Axioms \ e)
    BY Zenon, AxiomsAssumption, FS_Difference
  <2>3. /\ support' \in Seq(Axioms \ e) /\ ToSet(support') = Axioms \ e
        /\ \A i, k \in DOMAIN support' : support'[i] = support'[k] => i = k
    BY <2>1, <2>2, ListedOnce
  <2>4. support' \in Seq(Axioms)
    BY <2>3
  <2>5. SearchTypeOK'
    BY <1>1, <1>2, <1>3, <1>5, <2>1, <2>4 DEF SearchTypeOK, Antichain
  <2>6. \E j \in justifications' : j \subseteq ToSet(support')
    BY <1>3, <2>1, <2>3 DEF IsEntailed
  <2>7. ShrinkInvariant'
    <3>1. \A i \in DOMAIN support' : ~(i < 1)
      BY <2>4
    <3> QED BY <2>1, <2>6, <3>1 DEF ShrinkInvariant, IsEntailed
  <2>8. SupportAvailable'
    BY <1>3, <2>3 DEF SupportAvailable
  <2>9. TreeOpen'
    BY <1>1, <1>3, <1>4, <1>5 DEF TreeOpen
  <2> QED BY <1>1, <1>3, <1>5, <2>5, <2>7, <2>8, <2>9 DEF SearchInvariant
<1>6. CASE phase' # "shrink"
  <2>1. /\ e \in explored \/ ~IsEntailed(Axioms \ e)
        /\ phase' = phase /\ support' = support /\ index' = index
    BY <1>6 DEF Pop, e
  <2>2. SearchTypeOK'
    BY <1>1, <1>2, <1>3, <2>1, SMTT(30) DEF SearchTypeOK, Antichain
  <2>3. TreeOpen'
    <3> SUFFICES ASSUME NEW j \in justifications \ found, NEW f \in explored', f \cap j = {}
                 PROVE  \E x \in Axioms \ (j \cup f) : f \cup {x} \in Nodes
      BY <1>1, <1>3, <1>4 DEF TreeOpen
    <3>1. f \in explored
      <4> SUFFICES ASSUME f = e, e \notin explored PROVE FALSE
        BY <1>3
      <4>1. j \subseteq Axioms \ e
        BY <1>1 DEF SearchTypeOK
      <4> QED BY <2>1, <4>1 DEF IsEntailed
    <3> QED BY <1>1, <1>3, <3>1 DEF TreeOpen
  <2> QED BY <1>1, <1>3, <1>6, <2>1, <2>2, <2>3
          DEF SearchInvariant, ShrinkInvariant, SupportAvailable
<1> QED BY <1>5, <1>6

\* An axiom is tried: it is dropped, or shown to be needed.
LEMMA ShrinkPreserves == SearchInvariant /\ Shrink => SearchInvariant'
<1> SUFFICES ASSUME SearchInvariant, Shrink PROVE SearchInvariant'
  OBVIOUS
<1> DEFINE r == RemoveAt(support, index)
<1>1. SearchTypeOK /\ ShrinkInvariant /\ SupportAvailable /\ TreeOpen /\ found \subseteq justifications
  BY DEF SearchInvariant
<1>2. /\ phase = "shrink" /\ phase' = phase
      /\ justifications' = justifications /\ found' = found
      /\ worklist' = worklist /\ explored' = explored /\ removed' = removed
  BY DEF Shrink
<1>3. index \in 1..Len(support) /\ index \in Nat \ {0} /\ support \in Seq(Axioms)
  BY <1>1 DEF Shrink, SearchTypeOK
<1>4. /\ IsEntailed(ToSet(support)) /\ ToSet(support) \cap removed = {}
      /\ \A i \in DOMAIN support : i < index => ~IsEntailed(ToSet(support) \ {support[i]})
      /\ \A i, k \in DOMAIN support : support[i] = support[k] => i = k
  BY <1>1, <1>2 DEF ShrinkInvariant, SupportAvailable
<1>5. /\ r \in Seq(Axioms) /\ Len(r) = Len(support) - 1
      /\ ToSet(r) = ToSet(support) \ {support[index]}
      /\ \A i \in DOMAIN r : i < index => r[i] = support[i] /\ i \in DOMAIN support
      /\ \A i, k \in DOMAIN r : r[i] = r[k] => i = k
  BY <1>3, <1>4, RemoveOne
<1>6. TreeOpen'
  BY <1>1, <1>2 DEF TreeOpen, Nodes
<1>7. \A s : IsEntailed(s)' <=> IsEntailed(s)
  BY <1>2 DEF IsEntailed
<1> HIDE DEF r
<1>8. CASE IsEntailed(ToSet(r))
  <2>1. support' = r /\ index' = index
    BY <1>8 DEF Shrink, r
  <2>2. SearchTypeOK'
    BY <1>1, <1>2, <1>5, <2>1 DEF SearchTypeOK, Antichain
  <2>3. ShrinkInvariant'
    <3> SUFFICES ASSUME NEW i \in DOMAIN r, i < index
                 PROVE  ~IsEntailed(ToSet(r) \ {r[i]})
      BY <1>2, <1>8, <2>1 DEF ShrinkInvariant, IsEntailed
    <3>1. ~IsEntailed(ToSet(support) \ {r[i]})
      BY <1>4, <1>5
    <3>2. ToSet(r) \ {r[i]} \subseteq ToSet(support) \ {r[i]}
      BY <1>5
    <3> QED BY <3>1, <3>2, EntailmentMonotone
  <2>4. SupportAvailable'
    BY <1>2, <1>4, <1>5, <2>1 DEF SupportAvailable
  <2> QED BY <1>1, <1>2, <1>6, <2>2, <2>3, <2>4 DEF SearchInvariant
<1>9. CASE ~IsEntailed(ToSet(r))
  <2>1. support' = support /\ index' = index + 1
    BY <1>9 DEF Shrink, r
  <2>2. SearchTypeOK'
    BY <1>1, <1>2, <1>3, <2>1 DEF SearchTypeOK, Antichain
  <2>3. ShrinkInvariant'
    <3> SUFFICES ASSUME NEW i \in DOMAIN support, i < index + 1
                 PROVE  ~IsEntailed(ToSet(support) \ {support[i]})
      BY <1>2, <1>4, <2>1 DEF ShrinkInvariant, IsEntailed
    <3>1. i < index \/ i = index
      BY <1>3
    <3> QED BY Zenon, <1>4, <1>5, <1>9, <3>1
  <2>4. SupportAvailable'
    BY <1>2, <1>4, <2>1 DEF SupportAvailable
  <2> QED BY <1>1, <1>2, <1>6, <2>2, <2>3, <2>4 DEF SearchInvariant
<1> QED BY <1>8, <1>9

\* A justification is recorded: what the shrink loop keeps is minimal, and every
\* other one survives the removal of some axiom of it.
LEMMA RecordPreserves == SearchInvariant /\ Record => SearchInvariant'
<1> SUFFICES ASSUME SearchInvariant, Record PROVE SearchInvariant'
  OBVIOUS
<1> DEFINE S == ToSet(support)
           h == Hit(removed, support)
<1>1. SearchTypeOK /\ ShrinkInvariant /\ SupportAvailable /\ TreeOpen /\ found \subseteq justifications
  BY DEF SearchInvariant
<1>2. /\ phase = "shrink" /\ phase' = "pop"
      /\ justifications' = justifications /\ explored' = explored
      /\ removed' = removed /\ support' = support /\ index' = index
      /\ found' = found \cup {S} /\ worklist' = worklist \o h
  BY DEF Record
<1>3. support \in Seq(Axioms) /\ DOMAIN support = 1..Len(support) /\ S \subseteq Axioms
  BY <1>1 DEF SearchTypeOK, ToSet
<1>4. h \in Seq(SUBSET Axioms) /\ ToSet(h) = {removed \cup {x} : x \in S}
  <2>1. h = [i \in 1..Len(support) |-> removed \cup {support[i]}] /\ Len(support) \in Nat
    BY <1>3 DEF Hit
  <2>2. \A i \in 1..Len(support) : removed \cup {support[i]} \in SUBSET Axioms
    BY <1>1, <1>3 DEF SearchTypeOK
  <2>3. h \in Seq(SUBSET Axioms) /\ DOMAIN h = 1..Len(support)
    BY <2>1, <2>2
  <2>4. \A i \in 1..Len(support) : h[i] = removed \cup {support[i]}
    BY <2>1
  <2>5. ToSet(h) = {removed \cup {support[i]} : i \in 1..Len(support)}
    BY Zenon, <2>3, <2>4 DEF ToSet
  <2>6. S = {support[i] : i \in 1..Len(support)}
    BY <1>3 DEF ToSet
  <2> HIDE DEF S, h
  <2> QED BY Zenon, <2>3, <2>5, <2>6
<1>5. /\ worklist' \in Seq(SUBSET Axioms)
      /\ ToSet(worklist') = ToSet(worklist) \cup {removed \cup {x} : x \in S}
  <2> HIDE DEF h, S
  <2> QED BY <1>1, <1>2, <1>4, PushContents DEF SearchTypeOK
<1>6. S \in justifications
  <2>1. PICK j \in justifications : j \subseteq S
    BY <1>1, <1>2 DEF ShrinkInvariant, IsEntailed
  <2>2. j = S
    <3> SUFFICES ASSUME NEW x \in S, x \notin j PROVE FALSE
      BY <2>1
    <3>1. PICK i \in DOMAIN support : x = support[i]
      BY DEF ToSet
    <3>2. i < index
      BY <1>1, <1>3 DEF Record, SearchTypeOK
    <3>3. ~IsEntailed(S \ {x})
      BY <1>1, <1>2, <3>1, <3>2 DEF ShrinkInvariant
    <3> QED BY <2>1, <3>3 DEF IsEntailed
  <2> QED BY <2>1, <2>2
<1> HIDE DEF S, h
<1>7. SearchTypeOK'
  BY <1>1, <1>2, <1>5 DEF SearchTypeOK, Antichain
<1>8. Nodes \subseteq Nodes' /\ \A x \in S : removed \cup {x} \in Nodes'
  BY <1>2, <1>5 DEF Nodes
<1>9. TreeOpen'
  <2> SUFFICES ASSUME NEW j \in justifications \ found, j # S,
                      NEW e \in explored, e \cap j = {}
               PROVE  \E x \in Axioms \ (j \cup e) : e \cup {x} \in Nodes'
    BY <1>1, <1>2, <1>8 DEF TreeOpen
  <2>1. CASE e = removed
    <3>1. PICK x \in S : x \notin j
      BY <1>1, <1>6 DEF SearchTypeOK, Antichain
    <3>2. x \in Axioms /\ x \notin e
      BY <1>1, <1>2, <1>3, <2>1 DEF SupportAvailable, S
    <3> QED BY <1>8, <2>1, <3>1, <3>2
  <2>2. CASE e # removed
    BY <1>1, <1>8, <2>2 DEF TreeOpen
  <2> QED BY <2>1, <2>2
<1> QED BY <1>1, <1>2, <1>6, <1>7, <1>9 DEF SearchInvariant, ShrinkInvariant, SupportAvailable

LEMMA SearchStep == SearchInvariant /\ [Next]_vars => SearchInvariant'
<1> SUFFICES ASSUME SearchInvariant, [Next]_vars PROVE SearchInvariant'
  OBVIOUS
<1>1. CASE Finish
  BY <1>1 DEF Finish, SearchInvariant, SearchTypeOK, ShrinkInvariant, SupportAvailable,
              TreeOpen, Nodes, Antichain
<1>2. CASE UNCHANGED vars
  BY <1>2 DEF vars, SearchInvariant, SearchTypeOK, ShrinkInvariant, SupportAvailable,
              TreeOpen, Nodes, Antichain, IsEntailed
<1> QED BY <1>1, <1>2, PopPreserves, ShrinkPreserves, RecordPreserves DEF Next

(***************************************************************************)
(* The results.                                                            *)
(***************************************************************************)
(* The shrink loop of justify_indices and the hitting set tree of          *)
(* all_explanations keep their invariants.                                 *)
THEOREM SearchInvariance == Spec => []SearchInvariant
<1> QED BY SearchInitially, SearchStep, PTL DEF Spec

\* An exhausted tree misses no justification: a largest explored node that leaves
\* a missing one intact would have a larger one below it.
LEMMA NoneMissing == SearchInvariant /\ phase = "done" => justifications \subseteq found
<1> SUFFICES ASSUME SearchInvariant, phase = "done",
                    NEW j \in justifications, j \notin found
             PROVE  FALSE
  OBVIOUS
<1> DEFINE Left == {Axioms \ e : e \in {f \in explored : f \cap j = {}}}
           R == StrictSubsetOrdering(Axioms)
<1>1. SearchTypeOK /\ TreeOpen /\ Nodes = explored
  BY DEF SearchInvariant, Nodes, ToSet
<1>2. IsWellFoundedOn(R, SUBSET Axioms)
  BY Zenon, AxiomsAssumption, FS_StrictSubsetOrderingWellFounded, FS_FiniteSubsetsOfFinite
<1>3. Left \subseteq SUBSET Axioms
  OBVIOUS
<1>4. Axioms \ {} \in Left
  BY <1>1 DEF TreeOpen
<1>5. PICK a \in Left : \A b \in Left : <<b, a>> \notin R
  <2> HIDE DEF Left, R
  <2> QED BY <1>2, <1>3, <1>4, WFMin
<1>6. PICK e \in explored : e \cap j = {} /\ a = Axioms \ e
  OBVIOUS
<1>7. PICK x \in Axioms \ (j \cup e) : e \cup {x} \in explored
  BY <1>1, <1>6 DEF TreeOpen
<1>8. Axioms \ (e \cup {x}) \in Left
  BY <1>6, <1>7
<1>9. <<Axioms \ (e \cup {x}), a>> \in R
  BY <1>6, <1>7 DEF StrictSubsetOrdering
<1> QED BY <1>5, <1>8, <1>9

(* all_explanations returns justifications only, and all of them, for      *)
(* every ontology, every family of justifications and every order in which *)
(* the oracle's hash sets list the axioms.                                 *)
THEOREM ExplanationsExact == Spec => []JustificationsExact
<1>1. SearchInvariant => JustificationsExact
  BY NoneMissing DEF SearchInvariant, JustificationsExact
<1> QED BY <1>1, SearchInvariance, PTL
=============================================================================
