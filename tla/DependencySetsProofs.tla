------------------------ MODULE DependencySetsProofs ------------------------
(***************************************************************************)
(* No dependency set in use is pruned, and none names a branching point    *)
(* that is gone, for any bounds on the branching points, the holders and   *)
(* the usages.                                                             *)
(*                                                                         *)
(* The invariant counts: the usages of a set are at least its holders, and *)
(* the empty set has one usage more, its own.  Backtracking gives back one *)
(* usage for each holder it destroys, so what is left covers the holders   *)
(* below the mark.  That these depend on nothing that was undone follows   *)
(* from their age: the marks grow with the level, and a holder is younger  *)
(* than every branching point it depends on.                               *)
(***************************************************************************)
EXTENDS DependencySets, FiniteSetTheorems, WellFoundedInduction, TLAPS

\* Every leaf that names no prover is given to these, in this order.
USE SMTT(90), ZenonT(60)

Holders == [kind : Kinds, set : SUBSET Levels]
Points == [mark : Nat, choices : Nat]

\* Usages that the trail t, the clash k and the factory itself account for.
Hold(t, k, s) ==
    UsagesBy(t, s) + (IF s \in k THEN 1 ELSE 0) + (IF s = {} THEN 1 ELSE 0)

Counter(c) == c \in [DOMAIN c -> Nat] /\ DOMAIN c \subseteq SUBSET Levels

Covers(c, t, k) ==
    \A s \in SUBSET Levels :
      Hold(t, k, s) > 0 => s \in DOMAIN c /\ c[s] >= Hold(t, k, s)

\* The marks grow with the level and lie within the trail.
Marks(t, p) ==
    /\ \A i \in DOMAIN p : p[i].mark <= Len(t)
    /\ \A i, j \in DOMAIN p : i <= j => p[i].mark <= p[j].mark

\* A holder depends on branching points that are there and older than it.
Rooted(t, p) ==
    \A i \in DOMAIN t : \A l \in t[i].set : l < Len(p) /\ i > p[l + 1].mark

State(c, t, k, p, n, ck) ==
    /\ Counter(c) /\ Covers(c, t, k)
    /\ t \in Seq(Holders)
    /\ p \in Seq(Points) /\ Len(p) <= MaxLevel + 1
    /\ k \in SUBSET SUBSET Levels /\ \A r, s \in k : r = s
    /\ \A s \in k : \A l \in s : l < Len(p)
    /\ n \in Int /\ n >= -1 /\ ck \in SUBSET Nat
    /\ Marks(t, p) /\ Rooted(t, p)

DepInv == State(canonical, trail, clash, points, nonback, checkpoint)

-----------------------------------------------------------------------------
(* Counting holders.                                                       *)

LEMMA Larger == ASSUME NEW a \in Int, NEW b \in Int PROVE Max({a, b}) = IF a >= b THEN a ELSE b
  BY DEF Max

LEMMA HolderAt ==
    ASSUME NEW t \in Seq(Holders), NEW i \in DOMAIN t
    PROVE  t[i] \in Holders /\ t[i].set \in SUBSET Levels
  <1>1. PICK h : h = t[i]
    BY Zenon
  <1>2. h \in Holders
    BY <1>1
  <1>3. h.set \in SUBSET Levels
    BY <1>2 DEF Holders
  <1> QED BY <1>1, <1>2, <1>3, Zenon

LEMMA LevelsNat == Levels \subseteq Nat /\ \A l \in Levels : l <= MaxLevel
  BY BoundsAssumption DEF Levels

LEMMA UsagesFinite ==
    ASSUME NEW t \in Seq(Holders), NEW s
    PROVE  /\ IsFiniteSet({i \in DOMAIN t : t[i].set = s})
           /\ UsagesBy(t, s) \in Nat
  <1>1. IsFiniteSet(DOMAIN t)
    <2>1. DOMAIN t = 1 .. Len(t) /\ Len(t) \in Nat
      OBVIOUS
    <2> QED BY <2>1, FS_Interval
  <1>2. {i \in DOMAIN t : t[i].set = s} \in SUBSET DOMAIN t
    OBVIOUS
  <1>3. IsFiniteSet({i \in DOMAIN t : t[i].set = s})
    BY <1>1, <1>2, FS_Subset, Zenon
  <1> QED BY <1>3, FS_CardinalityType, Zenon DEF UsagesBy

\* A new holder takes one usage of its own set.
LEMMA UsagesAppended ==
    ASSUME NEW t \in Seq(Holders), NEW h \in Holders, NEW s
    PROVE  UsagesBy(Append(t, h), s) = UsagesBy(t, s) + (IF h.set = s THEN 1 ELSE 0)
  <1> DEFINE S == {i \in DOMAIN t : t[i].set = s}
             A == {i \in DOMAIN Append(t, h) : Append(t, h)[i].set = s}
             n == Len(t) + 1
  <1>1. IsFiniteSet(S)
    BY UsagesFinite, Zenon
  <1>2. n \notin S
    OBVIOUS
  <1>3. A = IF h.set = s THEN S \cup {n} ELSE S
    <2>1. DOMAIN Append(t, h) = DOMAIN t \cup {n}
      OBVIOUS
    <2>2. \A i \in DOMAIN t : Append(t, h)[i] = t[i]
      OBVIOUS
    <2>3. Append(t, h)[n] = h
      OBVIOUS
    <2> HIDE DEF n
    <2> QED BY <2>1, <2>2, <2>3, Zenon
  <1>4. Cardinality(S \cup {n}) = Cardinality(S) + 1
    BY <1>1, <1>2, FS_AddElement, Zenon
  <1>5. UsagesBy(t, s) = Cardinality(S) /\ UsagesBy(Append(t, h), s) = Cardinality(A)
    BY DEF UsagesBy
  <1>6. Cardinality(S) \in Nat
    BY <1>1, FS_CardinalityType
  <1> HIDE DEF S, A, n
  <1> QED BY <1>3, <1>4, <1>5, <1>6

\* The parts of a trail cut at a mark.
LEMMA Cut ==
    ASSUME NEW t \in Seq(Holders), NEW m \in Nat, m <= Len(t)
    PROVE  /\ SubSeq(t, 1, m) \in Seq(Holders) /\ Len(SubSeq(t, 1, m)) = m
           /\ SubSeq(t, m + 1, Len(t)) \in Seq(Holders)
           /\ DOMAIN SubSeq(t, 1, m) = 1 .. m
           /\ DOMAIN SubSeq(t, m + 1, Len(t)) = 1 .. Len(t) - m
           /\ \A i \in 1 .. m : SubSeq(t, 1, m)[i] = t[i]
           /\ \A i \in 1 .. Len(t) - m : SubSeq(t, m + 1, Len(t))[i] = t[i + m]
  <1>1. PICK n \in Nat : n = Len(t) /\ \A i \in 1 .. n : t[i] \in Holders
    OBVIOUS
  <1>2. PICK b : b = SubSeq(t, 1, m)
    BY Zenon
  <1>3. PICK a : a = SubSeq(t, m + 1, Len(t))
    BY Zenon
  <1>4. b = [i \in 1 .. m |-> t[i]]
    BY <1>1, <1>2
  <1>5. a = [i \in 1 .. n - m |-> t[i + m]]
    BY <1>1, <1>3
  <1>6. n - m \in Nat
    BY <1>1
  <1>7. \A i \in 1 .. n - m : t[i + m] \in Holders
    BY <1>1
  <1>8. \A i \in 1 .. m : t[i] \in Holders
    BY <1>1
  <1>9. a \in Seq(Holders)
    BY <1>5, <1>6, <1>7
  <1>10. b \in Seq(Holders)
    BY <1>4, <1>8
  <1>11. DOMAIN b = 1 .. m /\ \A i \in 1 .. m : b[i] = t[i]
    BY <1>4, Zenon
  <1>12. DOMAIN a = 1 .. n - m /\ \A i \in 1 .. n - m : a[i] = t[i + m]
    BY <1>5, Zenon
  <1>13. Len(b) = m
    BY <1>10, <1>11
  <1> QED BY <1>1, <1>2, <1>3, <1>9, <1>10, <1>11, <1>12, <1>13, Zenon

\* The holders on both sides of a mark are all the holders.
LEMMA UsagesCut ==
    ASSUME NEW t \in Seq(Holders), NEW m \in Nat, m <= Len(t), NEW s
    PROVE  UsagesBy(t, s)
             = UsagesBy(SubSeq(t, 1, m), s) + UsagesBy(SubSeq(t, m + 1, Len(t)), s)
  <1> DEFINE below == SubSeq(t, 1, m)
             above == SubSeq(t, m + 1, Len(t))
             B == {i \in DOMAIN below : below[i].set = s}
             A == {i \in DOMAIN above : above[i].set = s}
             T == {i \in DOMAIN t : t[i].set = s}
             U == T \ B
             shift == [i \in A |-> i + m]
  <1>0. Len(t) \in Nat /\ DOMAIN t = 1 .. Len(t)
    OBVIOUS
  <1>1. /\ below \in Seq(Holders) /\ above \in Seq(Holders)
        /\ DOMAIN below = 1 .. m /\ DOMAIN above = 1 .. Len(t) - m
        /\ \A i \in 1 .. m : below[i] = t[i]
        /\ \A i \in 1 .. Len(t) - m : above[i] = t[i + m]
    BY Cut, Zenon
  <1>2. IsFiniteSet(B) /\ IsFiniteSet(A) /\ IsFiniteSet(T)
    BY <1>1, UsagesFinite, Zenon
  <1>3. UsagesBy(t, s) = Cardinality(T)
    BY Zenon DEF UsagesBy
  <1>4. UsagesBy(below, s) = Cardinality(B) /\ UsagesBy(above, s) = Cardinality(A)
    BY Zenon DEF UsagesBy
  <1> HIDE DEF below, above
  <1>5. B = {i \in 1 .. m : t[i].set = s}
    BY <1>1, Zenon
  <1>6. A = {i \in 1 .. Len(t) - m : t[i + m].set = s}
    BY <1>1, Zenon
  <1>7. T = {i \in 1 .. Len(t) : t[i].set = s}
    BY <1>0, Zenon
  <1> HIDE DEF A, B, T
  <1>8. B \subseteq T /\ U = {i \in m + 1 .. Len(t) : t[i].set = s}
    BY <1>0, <1>5, <1>7
  <1>9. B \cup U = T /\ B \cap U = {}
    BY <1>8, Zenon
  <1> HIDE DEF U
  <1>10. Cardinality(U) = Cardinality(A)
    <2>1. shift \in [A -> U]
      <3>1. \A i \in A : i + m \in U
        BY <1>0, <1>6, <1>8
      <3> QED BY <3>1, Zenon
    <2>2. \A i, j \in A : shift[i] = shift[j] => i = j
      BY <1>0, <1>6
    <2>3. \A j \in U : \E i \in A : shift[i] = j
      <3> TAKE j \in U
      <3>1. j - m \in A /\ (j - m) + m = j
        BY <1>0, <1>6, <1>8
      <3> QED BY <3>1, Zenon
    <2> HIDE DEF shift
    <2>4. shift \in Bijection(A, U)
      BY <2>1, <2>2, <2>3, Zenon DEF Bijection, Injection, Surjection, IsInjective
    <2> QED BY <1>2, <2>4, FS_Bijection, Zenon DEF ExistsBijection
  <1>11. IsFiniteSet(U)
    BY <1>2, <1>9, FS_Subset, Zenon
  <1>12. Cardinality(T) = Cardinality(B) + Cardinality(U) - 0
    <2>1. Cardinality(B \cup U) = Cardinality(B) + Cardinality(U) - Cardinality(B \cap U)
      BY <1>2, <1>11, FS_Union, Zenon
    <2> QED BY <1>9, <2>1, FS_EmptySet, Zenon
  <1>13. Cardinality(B) \in Nat /\ Cardinality(U) \in Nat
    BY <1>2, <1>11, FS_CardinalityType, Zenon
  <1> QED BY <1>3, <1>4, <1>10, <1>12, <1>13 DEF below, above


-----------------------------------------------------------------------------
(* The factory.                                                            *)

LEMMA HoldNat ==
    ASSUME NEW t \in Seq(Holders), NEW k, NEW s PROVE Hold(t, k, s) \in Nat
  <1>1. PICK u \in Nat : u = UsagesBy(t, s)
    BY UsagesFinite, Zenon
  <1> QED BY <1>1 DEF Hold

\* Interning a set changes no usage.
LEMMA InternCovers ==
    ASSUME NEW c, NEW t \in Seq(Holders), NEW k, NEW s \in SUBSET Levels,
           Counter(c), Covers(c, t, k)
    PROVE  /\ Counter(Intern(c, s)) /\ Covers(Intern(c, s), t, k)
           /\ s \in DOMAIN Intern(c, s)
  <1>1. PICK d : d = Intern(c, s)
    BY Zenon
  <1>2. DOMAIN d = DOMAIN c \cup {s}
    BY <1>1, Zenon DEF Intern
  <1>3. \A r \in DOMAIN c : d[r] = c[r]
    BY <1>1, Zenon DEF Intern
  <1>4. d = [r \in DOMAIN d |-> IF r \in DOMAIN c THEN c[r] ELSE 0]
    BY <1>1, <1>2, Zenon DEF Intern
  <1>5. Counter(d)
    BY <1>2, <1>4 DEF Counter
  <1>6. Covers(d, t, k)
    BY <1>2, <1>3, Zenon DEF Covers
  <1> QED BY <1>1, <1>2, <1>5, <1>6, Zenon

\* What add_usage does to an interned set.
LEMMA UsageAdded ==
    ASSUME NEW c, NEW s \in DOMAIN c, Counter(c)
    PROVE  /\ Counter(AddUsage(c, s)) /\ DOMAIN AddUsage(c, s) = DOMAIN c
           /\ \A r \in DOMAIN c : AddUsage(c, s)[r] = c[r] + (IF r = s THEN 1 ELSE 0)
           /\ \A r \in DOMAIN c : c[r] \in Nat
  <1>1. AddUsage(c, s) = [c EXCEPT ![s] = @ + 1]
    BY Zenon DEF AddUsage
  <1>2. c = [r \in DOMAIN c |-> c[r]] /\ \A r \in DOMAIN c : c[r] \in Nat
    BY DEF Counter
  <1> QED BY <1>1, <1>2 DEF Counter

\* What remove_usage does to an interned set.
LEMMA UsageRemoved ==
    ASSUME NEW c, NEW s \in DOMAIN c, Counter(c)
    PROVE  /\ Counter(RemoveUsage(c, s)) /\ DOMAIN RemoveUsage(c, s) = DOMAIN c
           /\ \A r \in DOMAIN c : RemoveUsage(c, s)[r] >= c[r] - (IF r = s THEN 1 ELSE 0)
           /\ \A r \in DOMAIN c : c[r] \in Nat /\ RemoveUsage(c, s)[r] \in Nat
  <1>1. RemoveUsage(c, s) = [c EXCEPT ![s] = Max({0, @ - 1})]
    BY Zenon DEF RemoveUsage
  <1>2. c = [r \in DOMAIN c |-> c[r]] /\ \A r \in DOMAIN c : c[r] \in Nat
    BY DEF Counter
  <1>3. PICK m : m = Max({0, c[s] - 1})
    BY Zenon
  <1>4. m \in Nat /\ m >= c[s] - 1
    BY <1>2, <1>3, Larger
  <1>5. RemoveUsage(c, s) = [c EXCEPT ![s] = m]
    BY <1>1, <1>3, Zenon
  <1> QED BY <1>2, <1>4, <1>5 DEF Counter

\* A usage that nobody holds does no harm.
LEMMA SpareUsage ==
    ASSUME NEW c, NEW t \in Seq(Holders), NEW k, NEW s \in DOMAIN c,
           Counter(c), Covers(c, t, k)
    PROVE  Counter(AddUsage(c, s)) /\ Covers(AddUsage(c, s), t, k)
  <1>1. PICK d : d = AddUsage(c, s)
    BY Zenon
  <1>2. /\ Counter(d) /\ DOMAIN d = DOMAIN c
        /\ \A r \in DOMAIN c : d[r] = c[r] + (IF r = s THEN 1 ELSE 0)
        /\ \A r \in DOMAIN c : c[r] \in Nat
    BY <1>1, UsageAdded, Zenon
  <1>3. ASSUME NEW r \in SUBSET Levels, Hold(t, k, r) > 0
        PROVE  r \in DOMAIN d /\ d[r] >= Hold(t, k, r)
    <2>1. PICK h \in Nat : h = Hold(t, k, r)
      BY HoldNat, Zenon
    <2>2. r \in DOMAIN c /\ c[r] >= h
      BY <1>3, <2>1, Zenon DEF Covers
    <2>3. d[r] >= h
      BY <1>2, <2>2
    <2> QED BY <1>2, <2>1, <2>2, <2>3, Zenon
  <1> QED BY <1>1, <1>2, <1>3, Zenon DEF Covers

\* A new holder with its usage.
LEMMA HolderAdded ==
    ASSUME NEW c, NEW t \in Seq(Holders), NEW k, NEW s \in DOMAIN c, NEW kind \in Kinds,
           Counter(c), Covers(c, t, k)
    PROVE  /\ Counter(AddUsage(c, s))
           /\ Append(t, Holder(kind, s)) \in Seq(Holders)
           /\ Covers(AddUsage(c, s), Append(t, Holder(kind, s)), k)
  <1>1. PICK d : d = AddUsage(c, s)
    BY Zenon
  <1>2. /\ Counter(d) /\ DOMAIN d = DOMAIN c
        /\ \A r \in DOMAIN c : d[r] = c[r] + (IF r = s THEN 1 ELSE 0)
        /\ \A r \in DOMAIN c : c[r] \in Nat
    BY <1>1, UsageAdded, Zenon
  <1>3. PICK h : h = Holder(kind, s)
    BY Zenon
  <1>4. h \in Holders /\ h.set = s
    BY <1>3 DEF Holder, Holders, Counter
  <1>5. PICK e : e = Append(t, h)
    BY Zenon
  <1>6. e \in Seq(Holders)
    BY <1>4, <1>5
  <1>7. ASSUME NEW r \in SUBSET Levels, Hold(e, k, r) > 0
        PROVE  r \in DOMAIN d /\ d[r] >= Hold(e, k, r)
    <2>1. PICK n \in Nat : n = Hold(t, k, r)
      BY HoldNat, Zenon
    <2>2. PICK u \in Nat : u = UsagesBy(t, r)
      BY UsagesFinite, Zenon
    <2>3. UsagesBy(e, r) = u + (IF s = r THEN 1 ELSE 0)
      BY <1>4, <1>5, <2>2, UsagesAppended, Zenon
    <2>4. Hold(e, k, r) = n + (IF s = r THEN 1 ELSE 0)
      BY <2>1, <2>2, <2>3 DEF Hold
    <2>5. n > 0 => r \in DOMAIN c /\ c[r] >= n
      BY <2>1, Zenon DEF Covers
    <2>6. r \in DOMAIN c
      BY <1>7, <2>1, <2>4, <2>5
    <2>7. d[r] >= Hold(e, k, r)
      BY <1>2, <2>1, <2>4, <2>5, <2>6
    <2> QED BY <1>2, <2>6, <2>7, Zenon
  <1> QED BY <1>1, <1>2, <1>3, <1>5, <1>6, <1>7, Zenon DEF Covers


\* A clash with its usage.
LEMMA ClashAdded ==
    ASSUME NEW c, NEW t \in Seq(Holders), NEW s \in DOMAIN c, Counter(c), Covers(c, t, {})
    PROVE  Counter(AddUsage(c, s)) /\ Covers(AddUsage(c, s), t, {s})
  <1>1. PICK d : d = AddUsage(c, s)
    BY Zenon
  <1>2. /\ Counter(d) /\ DOMAIN d = DOMAIN c
        /\ \A r \in DOMAIN c : d[r] = c[r] + (IF r = s THEN 1 ELSE 0)
        /\ \A r \in DOMAIN c : c[r] \in Nat
    BY <1>1, UsageAdded, Zenon
  <1>3. ASSUME NEW r \in SUBSET Levels, Hold(t, {s}, r) > 0
        PROVE  r \in DOMAIN d /\ d[r] >= Hold(t, {s}, r)
    <2>1. PICK n \in Nat : n = Hold(t, {}, r)
      BY HoldNat, Zenon
    <2>2. PICK u \in Nat : u = UsagesBy(t, r)
      BY UsagesFinite, Zenon
    <2>3. Hold(t, {s}, r) = n + (IF r = s THEN 1 ELSE 0)
      BY <2>1, <2>2 DEF Hold
    <2>4. n > 0 => r \in DOMAIN c /\ c[r] >= n
      BY <2>1, Zenon DEF Covers
    <2>5. r \in DOMAIN c
      BY <1>3, <2>1, <2>3, <2>4
    <2>6. d[r] >= Hold(t, {s}, r)
      BY <1>2, <2>1, <2>3, <2>4, <2>5
    <2> QED BY <1>2, <2>5, <2>6, Zenon
  <1> QED BY <1>1, <1>2, <1>3, Zenon DEF Covers

\* clear_clash gives back the usage of the clash.
LEMMA ClashCleared ==
    ASSUME NEW c, NEW t \in Seq(Holders), NEW s \in SUBSET Levels,
           Counter(c), Covers(c, t, {s})
    PROVE  /\ s \in DOMAIN c /\ DOMAIN RemoveUsage(c, s) = DOMAIN c
           /\ Counter(RemoveUsage(c, s)) /\ Covers(RemoveUsage(c, s), t, {})
  <1>0. s \in DOMAIN c
    <2>1. PICK u \in Nat : u = UsagesBy(t, s)
      BY UsagesFinite, Zenon
    <2>2. Hold(t, {s}, s) > 0
      BY <2>1 DEF Hold
    <2> QED BY <2>2, Zenon DEF Covers
  <1>1. PICK d : d = RemoveUsage(c, s)
    BY Zenon
  <1>2. /\ Counter(d) /\ DOMAIN d = DOMAIN c
        /\ \A r \in DOMAIN c : d[r] >= c[r] - (IF r = s THEN 1 ELSE 0)
        /\ \A r \in DOMAIN c : c[r] \in Nat /\ d[r] \in Nat
    BY <1>0, <1>1, UsageRemoved, Zenon
  <1>3. ASSUME NEW r \in SUBSET Levels, Hold(t, {}, r) > 0
        PROVE  r \in DOMAIN d /\ d[r] >= Hold(t, {}, r)
    <2>1. PICK n \in Nat : n = Hold(t, {}, r)
      BY HoldNat, Zenon
    <2>2. PICK u \in Nat : u = UsagesBy(t, r)
      BY UsagesFinite, Zenon
    <2>3. PICK h \in Nat : h = Hold(t, {s}, r)
      BY HoldNat, Zenon
    <2>4. h = n + (IF r = s THEN 1 ELSE 0)
      BY <2>1, <2>2, <2>3 DEF Hold
    <2>5. h > 0
      BY <1>3, <2>1, <2>4
    <2>6. r \in DOMAIN c /\ c[r] >= h
      BY <2>3, <2>5, Zenon DEF Covers
    <2>7. d[r] >= n
      BY <1>2, <2>4, <2>6
    <2> QED BY <1>2, <2>1, <2>6, <2>7, Zenon
  <1> QED BY <1>0, <1>1, <1>2, <1>3, Zenon DEF Covers

\* Backtracking to a mark gives back the usages of the holders above it, and no
\* more: those below are still covered.
LEMMA Released ==
    ASSUME NEW c, NEW t \in Seq(Holders), NEW k, NEW m \in Nat, m <= Len(t),
           Counter(c), Covers(c, t, k)
    PROVE  LET d == Release(c, SubSeq(t, m + 1, Len(t)))
           IN  Counter(d) /\ DOMAIN d = DOMAIN c /\ Covers(d, SubSeq(t, 1, m), k)
  <1>1. PICK d : d = Release(c, SubSeq(t, m + 1, Len(t)))
    BY Zenon
  <1>2. PICK b : b = SubSeq(t, 1, m)
    BY Zenon
  <1>3. PICK a : a = SubSeq(t, m + 1, Len(t))
    BY Zenon
  <1>4. a \in Seq(Holders) /\ b \in Seq(Holders)
    BY <1>2, <1>3, Cut, Zenon
  <1>5. d = [s \in DOMAIN c |-> Max({0, c[s] - UsagesBy(a, s)})]
    BY <1>1, <1>3, Zenon DEF Release
  <1>6. DOMAIN d = DOMAIN c /\ \A s \in DOMAIN c : d[s] = Max({0, c[s] - UsagesBy(a, s)})
    BY <1>5, Zenon
  <1>7. ASSUME NEW s \in DOMAIN c PROVE d[s] \in Nat /\ d[s] >= c[s] - UsagesBy(a, s)
    <2>1. PICK u \in Nat : u = UsagesBy(a, s)
      BY <1>4, UsagesFinite, Zenon
    <2>2. PICK n \in Nat : n = c[s]
      BY Zenon DEF Counter
    <2>3. d[s] = Max({0, n - u})
      BY <1>6, <2>1, <2>2, Zenon
    <2> QED BY <2>1, <2>2, <2>3, Larger
  <1>8. Counter(d)
    <2>1. d = [s \in DOMAIN d |-> d[s]]
      BY <1>5, <1>6, Zenon
    <2> QED BY <1>6, <1>7, <2>1, Zenon DEF Counter
  <1>9. ASSUME NEW s \in SUBSET Levels, Hold(b, k, s) > 0
        PROVE  s \in DOMAIN d /\ d[s] >= Hold(b, k, s)
    <2>1. PICK ua \in Nat : ua = UsagesBy(a, s)
      BY <1>4, UsagesFinite, Zenon
    <2>2. PICK ub \in Nat : ub = UsagesBy(b, s)
      BY <1>4, UsagesFinite, Zenon
    <2>3. UsagesBy(t, s) = ub + ua
      BY <1>2, <1>3, <2>1, <2>2, UsagesCut, Zenon
    <2>4. PICK hb \in Nat : hb = Hold(b, k, s)
      BY <1>4, HoldNat, Zenon
    <2>5. PICK ht \in Nat : ht = Hold(t, k, s)
      BY HoldNat, Zenon
    <2>6. ht = hb + ua
      BY <2>1, <2>2, <2>3, <2>4, <2>5 DEF Hold
    <2>7. ht > 0
      BY <1>9, <2>4, <2>6
    <2>8. s \in DOMAIN c /\ c[s] >= ht
      BY <2>5, <2>7, Zenon DEF Covers
    <2>9. c[s] \in Nat
      BY <2>8, Zenon DEF Counter
    <2>10. d[s] \in Nat /\ d[s] >= c[s] - ua
      BY <1>7, <2>1, <2>8, Zenon
    <2>11. d[s] >= hb
      BY <2>6, <2>8, <2>9, <2>10
    <2> QED BY <1>6, <2>4, <2>8, <2>11, Zenon
  <1> QED BY <1>1, <1>2, <1>6, <1>8, <1>9, Zenon DEF Covers

\* remove_unused_sets takes no set away that somebody holds.
LEMMA Pruned ==
    ASSUME NEW c, NEW t \in Seq(Holders), NEW k, Counter(c), Covers(c, t, k)
    PROVE  Counter(RemoveUnusedSets(c)) /\ Covers(RemoveUnusedSets(c), t, k)
  <1>1. PICK d : d = RemoveUnusedSets(c)
    BY Zenon
  <1>2. d = [s \in {s \in DOMAIN c : s = {} \/ c[s] > 0} |-> c[s]]
    BY <1>1, Zenon DEF RemoveUnusedSets, Restrict
  <1>3. /\ DOMAIN d = {s \in DOMAIN c : s = {} \/ c[s] > 0}
        /\ \A s \in DOMAIN d : d[s] = c[s]
    BY <1>2, Zenon
  <1>4. Counter(d)
    <2>1. d = [s \in DOMAIN d |-> d[s]]
      BY <1>2, <1>3, Zenon
    <2> QED BY <1>3, <2>1, Zenon DEF Counter
  <1>5. ASSUME NEW s \in SUBSET Levels, Hold(t, k, s) > 0
        PROVE  s \in DOMAIN d /\ d[s] >= Hold(t, k, s)
    <2>1. PICK h \in Nat : h = Hold(t, k, s)
      BY HoldNat, Zenon
    <2>2. s \in DOMAIN c /\ c[s] >= h
      BY <1>5, <2>1, Zenon DEF Covers
    <2>3. c[s] \in Nat
      BY <2>2, Zenon DEF Counter
    <2>4. c[s] > 0
      BY <1>5, <2>1, <2>2, <2>3
    <2> QED BY <1>3, <2>1, <2>2, <2>4, Zenon
  <1> QED BY <1>1, <1>4, <1>5, Zenon DEF Covers


\* Sets in use are interned, the empty set among them.
LEMMA UsedInterned ==
    ASSUME NEW c, NEW t \in Seq(Holders), NEW k \in SUBSET SUBSET Levels, Covers(c, t, k)
    PROVE  /\ {} \in DOMAIN c
           /\ k \subseteq DOMAIN c
           /\ {t[i].set : i \in DOMAIN t} \subseteq DOMAIN c
  <1>1. {} \in DOMAIN c
    <2>1. PICK u \in Nat : u = UsagesBy(t, {})
      BY UsagesFinite, Zenon
    <2>2. Hold(t, k, {}) > 0
      BY <2>1 DEF Hold
    <2> QED BY <2>2, Zenon DEF Covers
  <1>2. ASSUME NEW s \in k PROVE s \in DOMAIN c
    <2>1. PICK u \in Nat : u = UsagesBy(t, s)
      BY UsagesFinite, Zenon
    <2>2. Hold(t, k, s) > 0
      BY <2>1 DEF Hold
    <2> QED BY <2>2, Zenon DEF Covers
  <1>3. ASSUME NEW i \in DOMAIN t PROVE t[i].set \in DOMAIN c
    <2>1. PICK s : s = t[i].set
      BY Zenon
    <2>2. s \in SUBSET Levels
      BY <2>1, HolderAt, Zenon
    <2>3. PICK u \in Nat : u = UsagesBy(t, s)
      BY UsagesFinite, Zenon
    <2>4. u # 0
      <3>1. {j \in DOMAIN t : t[j].set = s} # {}
        BY <2>1, Zenon
      <3>2. IsFiniteSet({j \in DOMAIN t : t[j].set = s})
        BY UsagesFinite, Zenon
      <3> QED BY <2>3, <3>1, <3>2, FS_EmptySet, Zenon DEF UsagesBy
    <2>5. Hold(t, k, s) > 0
      BY <2>3, <2>4 DEF Hold
    <2> QED BY <2>1, <2>2, <2>5, Zenon DEF Covers
  <1> QED BY <1>1, <1>2, <1>3, Zenon

Sources(t) == {t[i].set : i \in DOMAIN t}

\* The set of a rule's premises is interned and names what the premises name.
LEMMA UnionCovers ==
    ASSUME NEW c, NEW t \in Seq(Holders), NEW k, NEW D \in SUBSET DOMAIN c, NEW w,
           Counter(c), Covers(c, t, k),
           \/ w = << >>
           \/ \E x \in D : w = <<x>>
           \/ \E x, y \in D : w = <<x, y>>
    PROVE  LET u == PermanentUnionOf(c, w)
           IN  /\ Counter(u[1]) /\ Covers(u[1], t, k)
               /\ u[2] \in DOMAIN u[1] /\ u[2] \subseteq UNION D
  <1>1. PICK s : s = UNION Range(w)
    BY Zenon
  <1>2. CASE \E x \in D : w = <<x>>
    <2>1. PICK x \in D : w = <<x>>
      BY <1>2, Zenon
    <2>2. Len(w) = 1 /\ w[1] = x
      BY <2>1
    <2>3. PermanentUnionOf(c, w) = <<c, x>>
      BY <2>2, Zenon DEF PermanentUnionOf
    <2>4. PermanentUnionOf(c, w)[1] = c /\ PermanentUnionOf(c, w)[2] = x
      BY <2>3
    <2> QED BY <2>1, <2>4, Zenon
  <1>3. ASSUME Len(w) # 1, s \subseteq UNION D
        PROVE  LET u == PermanentUnionOf(c, w)
               IN  /\ Counter(u[1]) /\ Covers(u[1], t, k)
                   /\ u[2] \in DOMAIN u[1] /\ u[2] \subseteq UNION D
    <2>1. PermanentUnionOf(c, w) = <<Intern(c, s), s>>
      BY <1>1, <1>3, Zenon DEF PermanentUnionOf
    <2>2. PermanentUnionOf(c, w)[1] = Intern(c, s) /\ PermanentUnionOf(c, w)[2] = s
      BY <2>1
    <2>3. s \in SUBSET Levels
      BY <1>3, Zenon DEF Counter
    <2> QED BY <1>3, <2>2, <2>3, InternCovers, Zenon
  <1>4. CASE w = << >>
    <2>1. Len(w) # 1 /\ DOMAIN w = {}
      BY <1>4
    <2>2. s = {}
      BY <1>1, <2>1, Zenon DEF Range
    <2> QED BY <1>3, <2>1, <2>2, Zenon
  <1>5. CASE \E x, y \in D : w = <<x, y>>
    <2>1. PICK x \in D, y \in D : w = <<x, y>>
      BY <1>5, Zenon
    <2>2. Len(w) # 1 /\ DOMAIN w = {1, 2} /\ w[1] = x /\ w[2] = y
      BY <2>1
    <2>3. s \subseteq UNION D
      BY <1>1, <2>1, <2>2, Zenon DEF Range
    <2> QED BY <1>3, <2>2, <2>3, Zenon
  <1> QED BY <1>2, <1>4, <1>5, Zenon

-----------------------------------------------------------------------------
(* Levels and marks.                                                       *)

\* The newest choice of a set.
LEMMA MaximumIn ==
    ASSUME NEW s \in SUBSET Levels, s # {}
    PROVE  Max(s) \in s /\ \A l \in s : l <= Max(s)
  <1> DEFINE T == {MaxLevel - l : l \in s}
             R == OpToRel(<, Nat)
  <1>1. T \subseteq Nat /\ T # {}
    <2>1. \A l \in s : MaxLevel - l \in Nat
      BY BoundsAssumption, LevelsNat
    <2> QED BY <2>1, Zenon
  <1>2. IsWellFoundedOn(R, Nat)
    BY NatLessThanWellFounded, Zenon
  <1> HIDE DEF R
  <1>3. PICK x \in T : \A y \in T : ~(<<y, x>> \in R)
    BY <1>1, <1>2, WFMin, Zenon
  <1>4. \A y \in T : ~(y < x)
    <2> SUFFICES ASSUME NEW y \in T, y < x PROVE FALSE
      BY Zenon
    <2>1. <<y, x>> \in R
      BY <1>1, <1>3 DEF R, OpToRel
    <2> QED BY <1>3, <2>1, Zenon
  <1>5. PICK m \in s : x = MaxLevel - m
    BY <1>3, Zenon
  <1>6. \A l \in s : m >= l
    BY <1>4, <1>5, BoundsAssumption, LevelsNat
  <1>7. \E z \in s : \A l \in s : z >= l
    BY <1>6, Zenon
  <1>8. Max(s) \in s /\ \A l \in s : Max(s) >= l
    BY <1>7, Zenon DEF Max
  <1>9. \A l \in s : l \in Int
    BY LevelsNat
  <1> QED BY <1>8, <1>9


\* A new holder that depends on present branching points is rooted.
LEMMA HolderRooted ==
    ASSUME NEW t \in Seq(Holders), NEW p \in Seq(Points), NEW h \in Holders,
           Marks(t, p), Rooted(t, p), \A l \in h.set : l \in Nat /\ l < Len(p)
    PROVE  Marks(Append(t, h), p) /\ Rooted(Append(t, h), p)
  <1>1. PICK e : e = Append(t, h)
    BY Zenon
  <1>2. PICK n \in Nat : n = Len(t)
    OBVIOUS
  <1>3. /\ Len(e) = n + 1 /\ e[n + 1] = h /\ DOMAIN e = DOMAIN t \cup {n + 1}
        /\ \A i \in DOMAIN t : e[i] = t[i]
    BY <1>1, <1>2
  <1>4. \A i \in DOMAIN p : p[i].mark \in Nat
    <2>1. \A i \in DOMAIN p : p[i] \in Points
      OBVIOUS
    <2>2. \A q \in Points : q.mark \in Nat
      BY DEF Points
    <2> QED BY <2>1, <2>2, Zenon
  <1>5. \A i \in DOMAIN p : p[i].mark <= n + 1 /\ n + 1 > p[i].mark
    <2> TAKE i \in DOMAIN p
    <2>1. PICK m \in Nat : m = p[i].mark
      BY <1>4, Zenon
    <2>2. m <= n
      BY <1>2, <2>1, Zenon DEF Marks
    <2>3. m <= n + 1 /\ n + 1 > m
      BY <2>1, <2>2
    <2> QED BY <2>1, <2>3, Zenon
  <1>6. Marks(e, p)
    BY <1>3, <1>5, Zenon DEF Marks
  <1>7. \A l \in h.set : l + 1 \in DOMAIN p
    OBVIOUS
  <1>8. Rooted(e, p)
    BY <1>3, <1>5, <1>7, Zenon DEF Rooted
  <1> QED BY <1>1, <1>6, <1>8, Zenon

\* A new branching point is marked at the end of the trail.
LEMMA PointPushed ==
    ASSUME NEW t \in Seq(Holders), NEW p \in Seq(Points), NEW q \in Points,
           q.mark = Len(t), Marks(t, p), Rooted(t, p)
    PROVE  /\ Append(p, q) \in Seq(Points) /\ Len(Append(p, q)) = Len(p) + 1
           /\ Marks(t, Append(p, q)) /\ Rooted(t, Append(p, q))
  <1>1. PICK r : r = Append(p, q)
    BY Zenon
  <1>2. PICK n \in Nat : n = Len(p)
    OBVIOUS
  <1>3. /\ r \in Seq(Points) /\ Len(r) = n + 1 /\ r[n + 1] = q
        /\ DOMAIN r = DOMAIN p \cup {n + 1} /\ DOMAIN p = 1 .. n
        /\ \A i \in DOMAIN p : r[i] = p[i]
    BY <1>1, <1>2
  <1>4. Len(t) <= Len(t)
    OBVIOUS
  <1>5. \A i \in DOMAIN p : ~(n + 1 <= i)
    BY <1>3
  <1>6. Marks(t, r)
    BY <1>3, <1>4, <1>5, Zenon DEF Marks
  <1>7. ASSUME NEW i \in DOMAIN t, NEW l \in t[i].set
        PROVE  l < Len(r) /\ i > r[l + 1].mark
    <2>1. l < n /\ i > p[l + 1].mark
      BY <1>2, Zenon DEF Rooted
    <2>2. l \in Nat
      BY HolderAt, LevelsNat, Zenon
    <2>3. l + 1 \in DOMAIN p /\ l < n + 1
      BY <1>3, <2>1, <2>2
    <2> QED BY <1>3, <2>1, <2>3, Zenon
  <1>8. Rooted(t, r)
    BY <1>7, Zenon DEF Rooted
  <1> QED BY <1>1, <1>2, <1>3, <1>6, <1>8, Zenon

\* What is left below the mark of a level depends on lower levels only.
LEMMA CutRooted ==
    ASSUME NEW t \in Seq(Holders), NEW p \in Seq(Points), NEW l \in Nat, l < Len(p),
           Marks(t, p), Rooted(t, p),
           NEW q \in Seq(Points), Len(q) = l + 1,
           \A i \in 1 .. l + 1 : q[i].mark = p[i].mark
    PROVE  LET m == p[l + 1].mark
           IN  /\ m \in Nat /\ m <= Len(t)
               /\ Marks(SubSeq(t, 1, m), q) /\ Rooted(SubSeq(t, 1, m), q)
  <1>1. PICK m : m = p[l + 1].mark
    BY Zenon
  <1>2. PICK n \in Nat : n = Len(p)
    OBVIOUS
  <1>3. DOMAIN p = 1 .. n /\ DOMAIN q = 1 .. l + 1 /\ 1 .. l + 1 \subseteq 1 .. n /\ l + 1 \in 1 .. l + 1
    BY <1>2
  <1>4. m \in Nat /\ m <= Len(t)
    <2>1. p[l + 1] \in Points
      BY <1>3
    <2>2. \A r \in Points : r.mark \in Nat
      BY DEF Points
    <2> QED BY <1>1, <1>3, <2>1, <2>2, Zenon DEF Marks
  <1>5. PICK b : b = SubSeq(t, 1, m)
    BY Zenon
  <1>6. Len(b) = m /\ DOMAIN b = 1 .. m /\ \A i \in 1 .. m : b[i] = t[i]
    BY <1>4, <1>5, Cut, Zenon
  <1>7. 1 .. m \subseteq DOMAIN t
    BY <1>4
  <1>8. \A i \in 1 .. l + 1 : i <= l + 1
    OBVIOUS
  <1>9. Marks(b, q)
    BY <1>1, <1>3, <1>6, <1>8, Zenon DEF Marks
  <1>10. ASSUME NEW i \in 1 .. m, NEW k \in b[i].set
         PROVE  k < Len(q) /\ i > q[k + 1].mark
    <2>1. i \in DOMAIN t /\ k \in t[i].set
      BY <1>6, <1>7, Zenon
    <2>2. k < n /\ i > p[k + 1].mark
      BY <1>2, <2>1, Zenon DEF Rooted
    <2>3. k \in Nat
      BY <2>1, HolderAt, LevelsNat, Zenon
    <2>4. k + 1 \in 1 .. n
      BY <2>2, <2>3
    <2>5. ~(l + 1 <= k + 1)
      <3> SUFFICES ASSUME l + 1 <= k + 1 PROVE FALSE
        BY Zenon
      <3>1. PICK h \in Nat : h = p[k + 1].mark
        <4>1. p[k + 1] \in Points
          BY <1>3, <2>4
        <4>2. \A r \in Points : r.mark \in Nat
          BY DEF Points
        <4> QED BY <4>1, <4>2, Zenon
      <3>2. m <= h
        BY <1>1, <1>3, <2>4, <3>1, Zenon DEF Marks
      <3>3. i > h
        BY <2>2, <3>1, Zenon
      <3> QED BY <1>4, <3>1, <3>2, <3>3
    <2>6. k < l + 1 /\ k + 1 \in 1 .. l + 1
      BY <2>3, <2>5
    <2> QED BY <2>2, <2>6, Zenon
  <1>11. Rooted(b, q)
    BY <1>6, <1>10, Zenon DEF Rooted
  <1> QED BY <1>1, <1>4, <1>5, <1>9, <1>11, Zenon


-----------------------------------------------------------------------------
(* The steps.                                                              *)

LEMMA FactoryChanged ==
    ASSUME NEW c, NEW t, NEW k, NEW p, NEW n, NEW ck, State(c, t, k, p, n, ck),
           NEW d, Counter(d), Covers(d, t, k)
    PROVE  State(d, t, k, p, n, ck)
  BY Zenon DEF State

LEMMA HolderKept ==
    ASSUME NEW c, NEW t, NEW k, NEW p, NEW n, NEW ck, State(c, t, k, p, n, ck),
           NEW kind \in Kinds, NEW s \in DOMAIN c, \A l \in s : l < Len(p)
    PROVE  State(AddUsage(c, s), Append(t, Holder(kind, s)), k, p, n, ck)
  <1>1. /\ Counter(c) /\ Covers(c, t, k) /\ t \in Seq(Holders) /\ p \in Seq(Points)
        /\ Marks(t, p) /\ Rooted(t, p)
    BY Zenon DEF State
  <1>2. /\ Counter(AddUsage(c, s)) /\ Append(t, Holder(kind, s)) \in Seq(Holders)
        /\ Covers(AddUsage(c, s), Append(t, Holder(kind, s)), k)
    BY <1>1, HolderAdded, Zenon
  <1>3. s \in SUBSET Levels
    BY <1>1, Zenon DEF Counter
  <1>4. PICK h : h = Holder(kind, s)
    BY Zenon
  <1>5. h \in Holders /\ h.set = s
    BY <1>3, <1>4 DEF Holder, Holders
  <1>6. \A l \in h.set : l \in Nat /\ l < Len(p)
    BY <1>3, <1>5, LevelsNat, Zenon
  <1>7. Marks(Append(t, h), p) /\ Rooted(Append(t, h), p)
    BY <1>1, <1>5, <1>6, HolderRooted, Zenon
  <1> QED BY <1>2, <1>4, <1>7, Zenon DEF State

LEMMA PointKept ==
    ASSUME NEW c, NEW t, NEW k, NEW p, NEW n, NEW ck, State(c, t, k, p, n, ck),
           Len(p) \in Levels, NEW a \in Nat
    PROVE  /\ State(c, t, k, Append(p, [mark |-> Len(t), choices |-> a]), n, ck)
           /\ Len(Append(p, [mark |-> Len(t), choices |-> a])) = Len(p) + 1
  <1>1. /\ t \in Seq(Holders) /\ p \in Seq(Points) /\ Marks(t, p) /\ Rooted(t, p)
    BY Zenon DEF State
  <1>2. Len(t) \in Nat /\ Len(p) \in Nat
    BY <1>1
  <1>3. PICK q : q = [mark |-> Len(t), choices |-> a]
    BY Zenon
  <1>4. q \in Points /\ q.mark = Len(t)
    BY <1>2, <1>3 DEF Points
  <1>5. PICK r : r = Append(p, q)
    BY Zenon
  <1>6. r \in Seq(Points) /\ Len(r) = Len(p) + 1 /\ Marks(t, r) /\ Rooted(t, r)
    BY <1>1, <1>4, <1>5, PointPushed, Zenon
  <1>7. Len(r) <= MaxLevel + 1
    <2>1. PICK x \in Nat : x = Len(p)
      BY <1>2, Zenon
    <2>2. x <= MaxLevel
      BY <2>1, LevelsNat, Zenon
    <2>3. x + 1 <= MaxLevel + 1
      BY <2>1, <2>2, BoundsAssumption
    <2> QED BY <1>6, <2>1, <2>3, Zenon
  <1>8. \A s \in k : \A l \in s : l < Len(r)
    <2>1. k \in SUBSET SUBSET Levels /\ \A s \in k : \A l \in s : l < Len(p)
      BY Zenon DEF State
    <2>2. \A l \in Nat : l < Len(p) => l < Len(p) + 1
      BY <1>2
    <2> QED BY <1>6, <2>1, <2>2, LevelsNat, Zenon
  <1> QED BY <1>3, <1>5, <1>6, <1>7, <1>8, Zenon DEF State

\* Premises are sets of stored tuples.
LEMMA PremiseSet ==
    ASSUME DepInv, NEW w \in Premises, NEW d, NEW k,
           Counter(d), Covers(d, trail, k), DOMAIN d = DOMAIN canonical
    PROVE  LET u == PermanentUnionOf(d, w)
           IN  /\ Counter(u[1]) /\ Covers(u[1], trail, k) /\ u[2] \in DOMAIN u[1]
               /\ \A l \in u[2] : l < Len(points)
  <1>1. PICK t, p : t = trail /\ p = points
    BY Zenon
  <1>2. t \in Seq(Holders) /\ Rooted(t, p) /\ Covers(canonical, t, clash) /\ clash \in SUBSET SUBSET Levels
    BY <1>1, Zenon DEF DepInv, State
  <1>3. PICK D : D = Sources(t)
    BY Zenon
  <1>4. D \subseteq DOMAIN d
    BY <1>2, <1>3, UsedInterned, Zenon DEF Sources
  <1>5. \/ w = << >>
        \/ \E x \in D : w = <<x>>
        \/ \E x, y \in D : w = <<x, y>>
    <2>1. \A i \in Tuples : trail[i].set \in D
      BY <1>1, <1>3, Zenon DEF Tuples, Sources
    <2> QED BY <2>1 DEF Premises
  <1>6. /\ Counter(PermanentUnionOf(d, w)[1]) /\ Covers(PermanentUnionOf(d, w)[1], t, k)
        /\ PermanentUnionOf(d, w)[2] \in DOMAIN PermanentUnionOf(d, w)[1]
        /\ PermanentUnionOf(d, w)[2] \subseteq UNION D
    BY <1>1, <1>2, <1>4, <1>5, UnionCovers, Zenon
  <1>7. \A l \in UNION D : l < Len(p)
    BY <1>2, <1>3, Zenon DEF Sources, Rooted
  <1> QED BY <1>1, <1>6, <1>7, Zenon

LEMMA DeriveKeeps ==
    ASSUME DepInv, NEW kind \in {"tuple", "merge", "equality"}, NEW w \in Premises,
           NEW present \in BOOLEAN, Derive(kind, w, present)
    PROVE  DepInv'
  <1>1. PICK d, s : d = PermanentUnionOf(canonical, w)[1] /\ s = PermanentUnionOf(canonical, w)[2]
    BY Zenon
  <1>2. Counter(canonical) /\ Covers(canonical, trail, clash)
    BY Zenon DEF DepInv, State
  <1>3. Counter(d) /\ Covers(d, trail, clash) /\ s \in DOMAIN d /\ \A l \in s : l < Len(points)
    BY <1>1, <1>2, PremiseSet, Zenon
  <1>4. State(d, trail, clash, points, nonback, checkpoint)
    BY <1>3, FactoryChanged, Zenon DEF DepInv
  <1>5. kind \in Kinds
    BY Zenon DEF Kinds
  <1>6. State(AddUsage(d, s), Append(trail, Holder(kind, s)), clash, points, nonback, checkpoint)
    BY <1>3, <1>4, <1>5, HolderKept, Zenon
  <1>7. /\ canonical' = (IF present THEN d ELSE AddUsage(d, s))
        /\ trail' = (IF present THEN trail ELSE Append(trail, Holder(kind, s)))
        /\ UNCHANGED <<clash, points, nonback, checkpoint>>
    BY <1>1, Zenon DEF Derive
  <1>8. CASE present
    BY <1>4, <1>7, <1>8, Zenon DEF DepInv
  <1>9. CASE ~present
    BY <1>6, <1>7, <1>9, Zenon DEF DepInv
  <1> QED BY <1>8, <1>9, Zenon

LEMMA DeriveDisjunctionKeeps ==
    ASSUME DepInv, NEW w \in Premises, NEW satisfied \in BOOLEAN, DeriveDisjunction(w, satisfied)
    PROVE  DepInv'
  <1>1. PICK d, s : d = PermanentUnionOf(canonical, w)[1] /\ s = PermanentUnionOf(canonical, w)[2]
    BY Zenon
  <1>2. Counter(canonical) /\ Covers(canonical, trail, clash) /\ trail \in Seq(Holders)
    BY Zenon DEF DepInv, State
  <1>3. Counter(d) /\ Covers(d, trail, clash) /\ s \in DOMAIN d /\ \A l \in s : l < Len(points)
    BY <1>1, <1>2, PremiseSet, Zenon
  <1>4. State(d, trail, clash, points, nonback, checkpoint)
    BY <1>3, FactoryChanged, Zenon DEF DepInv
  <1>5. State(AddUsage(d, s), trail, clash, points, nonback, checkpoint)
    BY <1>2, <1>3, <1>4, FactoryChanged, SpareUsage, Zenon
  <1>6. State(AddUsage(d, s), Append(trail, Holder("disjunction", s)), clash, points, nonback, checkpoint)
    BY <1>3, <1>4, HolderKept, Zenon DEF Kinds
  <1>7. /\ canonical' = AddUsage(d, s)
        /\ trail' = (IF satisfied THEN trail ELSE Append(trail, Holder("disjunction", s)))
        /\ UNCHANGED <<clash, points, nonback, checkpoint>>
    BY <1>1, Zenon DEF DeriveDisjunction
  <1>8. CASE satisfied
    BY <1>5, <1>7, <1>8, Zenon DEF DepInv
  <1>9. CASE ~satisfied
    BY <1>6, <1>7, <1>9, Zenon DEF DepInv
  <1> QED BY <1>8, <1>9, Zenon

\* The usage of the clash, if there is one, is given back.
LEMMA ClashGone ==
    ASSUME NEW c, NEW t \in Seq(Holders), Counter(c), Covers(c, t, clash),
           clash \in SUBSET SUBSET Levels, \A r, s \in clash : r = s
    PROVE  /\ Counter(ClearClash(c)) /\ Covers(ClearClash(c), t, {})
           /\ DOMAIN ClearClash(c) = DOMAIN c
  <1>1. CASE clash = {}
    BY <1>1, Zenon DEF ClearClash
  <1>2. CASE clash # {}
    <2>1. PICK s : s = CHOOSE r \in clash : TRUE
      BY Zenon
    <2>2. s \in clash
      BY <1>2, <2>1, Zenon
    <2>3. clash = {s} /\ s \in SUBSET Levels
      BY <2>2, Zenon
    <2>4. ClearClash(c) = RemoveUsage(c, s)
      BY <1>2, <2>1, Zenon DEF ClearClash
    <2>5. Covers(c, t, {s})
      BY <2>3, Zenon
    <2>6. /\ DOMAIN RemoveUsage(c, s) = DOMAIN c
          /\ Counter(RemoveUsage(c, s)) /\ Covers(RemoveUsage(c, s), t, {})
      BY <2>3, <2>5, ClashCleared, Zenon
    <2> QED BY <2>4, <2>6, Zenon
  <1> QED BY <1>1, <1>2, Zenon


LEMMA SetClashKeeps ==
    ASSUME DepInv, NEW w \in Premises, SetClash(w)
    PROVE  DepInv'
  <1>1. PICK e : e = ClearClash(canonical)
    BY Zenon
  <1>2. /\ Counter(canonical) /\ Covers(canonical, trail, clash) /\ trail \in Seq(Holders)
        /\ clash \in SUBSET SUBSET Levels /\ \A r, s \in clash : r = s
    BY Zenon DEF DepInv, State
  <1>3. Counter(e) /\ Covers(e, trail, {}) /\ DOMAIN e = DOMAIN canonical
    BY <1>1, <1>2, ClashGone, Zenon
  <1>4. PICK d, s : d = PermanentUnionOf(e, w)[1] /\ s = PermanentUnionOf(e, w)[2]
    BY Zenon
  <1>5. Counter(d) /\ Covers(d, trail, {}) /\ s \in DOMAIN d /\ \A l \in s : l < Len(points)
    BY <1>3, <1>4, PremiseSet, Zenon
  <1>6. Counter(AddUsage(d, s)) /\ Covers(AddUsage(d, s), trail, {s})
    BY <1>2, <1>5, ClashAdded, Zenon
  <1>7. s \in SUBSET Levels
    BY <1>5, Zenon DEF Counter
  <1>8. canonical' = AddUsage(d, s) /\ clash' = {s} /\ UNCHANGED <<trail, points, nonback, checkpoint>>
    BY <1>1, <1>4, Zenon DEF SetClash
  <1>9. {s} \in SUBSET SUBSET Levels /\ (\A r, q \in {s} : r = q)
    BY <1>7, Zenon
  <1>10. \A r \in {s} : \A l \in r : l < Len(points)
    BY <1>5, Zenon
  <1>11. State(AddUsage(d, s), trail, {s}, points, nonback, checkpoint)
    BY <1>6, <1>9, <1>10, Zenon DEF DepInv, State
  <1> QED BY <1>8, <1>11, Zenon DEF DepInv

\* A set and a branching point that is added to it.
LEMMA LevelAdded ==
    ASSUME NEW c, NEW t \in Seq(Holders), NEW k, NEW s \in DOMAIN c, NEW l \in Levels,
           Counter(c), Covers(c, t, k)
    PROVE  LET a == AddBranchingPoint(c, s, l)
           IN  /\ Counter(a[1]) /\ Covers(a[1], t, k)
               /\ a[2] \in DOMAIN a[1] /\ a[2] = s \cup {l}
  <1>1. s \in SUBSET Levels
    BY Zenon DEF Counter
  <1>2. CASE l \in s
    <2>1. AddBranchingPoint(c, s, l) = <<c, s>>
      BY <1>2, Zenon DEF AddBranchingPoint
    <2>2. AddBranchingPoint(c, s, l)[1] = c /\ AddBranchingPoint(c, s, l)[2] = s
      BY <2>1
    <2>3. s = s \cup {l}
      BY <1>2, Zenon
    <2> QED BY <2>2, <2>3, Zenon
  <1>3. CASE l \notin s
    <2>1. PICK q : q = s \cup {l}
      BY Zenon
    <2>2. q \in SUBSET Levels
      BY <1>1, <2>1, Zenon
    <2>3. AddBranchingPoint(c, s, l) = <<Intern(c, q), q>>
      BY <1>3, <2>1, Zenon DEF AddBranchingPoint
    <2>4. AddBranchingPoint(c, s, l)[1] = Intern(c, q) /\ AddBranchingPoint(c, s, l)[2] = q
      BY <2>3
    <2>5. Counter(Intern(c, q)) /\ Covers(Intern(c, q), t, k) /\ q \in DOMAIN Intern(c, q)
      BY <2>2, InternCovers, Zenon
    <2> QED BY <2>1, <2>4, <2>5, Zenon
  <1> QED BY <1>2, <1>3, Zenon

\* A branching point is pushed, and a tuple that depends on it.
LEMMA LevelPushed ==
    ASSUME DepInv, NEW s \in DOMAIN canonical, \A l \in s : l < Len(points),
           Len(points) \in Levels, NEW a \in Nat
    PROVE  LET b == AddBranchingPoint(canonical, s, Len(points))
           IN  State(AddUsage(b[1], b[2]), Append(trail, Holder("tuple", b[2])), clash,
                     Append(points, [mark |-> Len(trail), choices |-> a]), nonback, checkpoint)
  <1>1. PICK d, q, p : /\ d = AddBranchingPoint(canonical, s, Len(points))[1]
                       /\ q = AddBranchingPoint(canonical, s, Len(points))[2]
                       /\ p = Append(points, [mark |-> Len(trail), choices |-> a])
    BY Zenon
  <1>2. /\ Counter(canonical) /\ Covers(canonical, trail, clash) /\ trail \in Seq(Holders)
        /\ points \in Seq(Points)
    BY Zenon DEF DepInv, State
  <1>3. Counter(d) /\ Covers(d, trail, clash) /\ q \in DOMAIN d /\ q = s \cup {Len(points)}
    <2>1. PICK n \in Levels : n = Len(points)
      BY Zenon
    <2>2. PICK c, t, k : c = canonical /\ t = trail /\ k = clash
      BY Zenon
    <2>3. /\ Counter(AddBranchingPoint(c, s, n)[1])
          /\ Covers(AddBranchingPoint(c, s, n)[1], t, k)
          /\ AddBranchingPoint(c, s, n)[2] \in DOMAIN AddBranchingPoint(c, s, n)[1]
          /\ AddBranchingPoint(c, s, n)[2] = s \cup {n}
      BY <1>2, <2>2, LevelAdded
    <2> QED BY <1>1, <2>1, <2>2, <2>3, Zenon
  <1>4. State(canonical, trail, clash, p, nonback, checkpoint) /\ Len(p) = Len(points) + 1
    <2>1. State(canonical, trail, clash, points, nonback, checkpoint)
      BY Zenon DEF DepInv
    <2>2. /\ State(canonical, trail, clash, Append(points, [mark |-> Len(trail), choices |-> a]),
                   nonback, checkpoint)
          /\ Len(Append(points, [mark |-> Len(trail), choices |-> a])) = Len(points) + 1
      BY <2>1, PointKept
    <2> QED BY <1>1, <2>2, Zenon
  <1>5. State(d, trail, clash, p, nonback, checkpoint)
    BY <1>3, <1>4, FactoryChanged, Zenon
  <1>6. \A l \in q : l < Len(p)
    <2>1. s \in SUBSET Levels
      BY <1>2, Zenon DEF Counter
    <2>2. PICK n \in Nat : n = Len(points)
      BY <1>2
    <2>3. \A l \in Nat : l < n => l < n + 1
      OBVIOUS
    <2>4. n < n + 1
      OBVIOUS
    <2> QED BY <1>3, <1>4, <2>1, <2>2, <2>3, <2>4, LevelsNat, Zenon
  <1>7. State(AddUsage(d, q), Append(trail, Holder("tuple", q)), clash, p, nonback, checkpoint)
    BY <1>3, <1>5, <1>6, HolderKept, Zenon DEF Kinds
  <1> QED BY <1>1, <1>7, Zenon

LEMMA ProcessChoiceKeeps ==
    ASSUME DepInv, NEW i \in DOMAIN trail, NEW choices \in 1 .. 2, ProcessChoice(i, choices)
    PROVE  DepInv'
  <1>1. /\ Covers(canonical, trail, clash) /\ trail \in Seq(Holders) /\ Rooted(trail, points)
        /\ clash \in SUBSET SUBSET Levels
    BY Zenon DEF DepInv, State
  <1>2. PICK s : s = trail[i].set
    BY Zenon
  <1>3. s \in DOMAIN canonical /\ \A l \in s : l < Len(points)
    <2>1. {trail[j].set : j \in DOMAIN trail} \subseteq DOMAIN canonical
      BY <1>1, UsedInterned, Zenon
    <2> QED BY <1>1, <1>2, <2>1, Zenon DEF Rooted
  <1>4. Len(points) \in Levels /\ choices \in Nat
    <2>1. Len(points) \in Levels
      BY Zenon DEF ProcessChoice
    <2>2. choices \in Nat
      OBVIOUS
    <2> QED BY <2>1, <2>2, Zenon
  <1>5. PICK b : b = AddBranchingPoint(canonical, s, Len(points))
    BY Zenon
  <1>6. /\ canonical' = AddUsage(b[1], b[2]) /\ trail' = Append(trail, Holder("tuple", b[2]))
        /\ points' = Append(points, [mark |-> Len(trail), choices |-> choices])
        /\ UNCHANGED <<clash, nonback, checkpoint>>
    BY <1>2, <1>5, Zenon DEF ProcessChoice
  <1>7. State(AddUsage(b[1], b[2]), Append(trail, Holder("tuple", b[2])), clash,
              Append(points, [mark |-> Len(trail), choices |-> choices]), nonback, checkpoint)
    BY <1>3, <1>4, <1>5, LevelPushed, Zenon
  <1> QED BY <1>6, <1>7, Zenon DEF DepInv

LEMMA PushDummyKeeps ==
    ASSUME DepInv, PushDummy
    PROVE  DepInv'
  <1>1. /\ Covers(canonical, trail, clash) /\ trail \in Seq(Holders) /\ points \in Seq(Points)
        /\ clash \in SUBSET SUBSET Levels
    BY Zenon DEF DepInv, State
  <1>2. {} \in DOMAIN canonical /\ \A l \in {} : l < Len(points)
    BY <1>1, UsedInterned, Zenon
  <1>3. PICK b : b = AddBranchingPoint(canonical, {}, Len(points))
    BY Zenon
  <1>4. /\ canonical' = AddUsage(b[1], b[2]) /\ trail' = Append(trail, Holder("tuple", b[2]))
        /\ points' = Append(points, [mark |-> Len(trail), choices |-> 0])
        /\ nonback' = Len(points) /\ clash' = clash /\ checkpoint' = checkpoint
        /\ Len(points) \in Levels
    BY <1>3, Zenon DEF PushDummy
  <1>5. 0 \in Nat
    OBVIOUS
  <1>6. State(AddUsage(b[1], b[2]), Append(trail, Holder("tuple", b[2])), clash,
              Append(points, [mark |-> Len(trail), choices |-> 0]), nonback, checkpoint)
    BY <1>2, <1>3, <1>4, <1>5, LevelPushed, Zenon
  <1>7. Len(points) \in Int /\ Len(points) >= -1
    BY <1>1
  <1> QED BY <1>4, <1>6, <1>7, Zenon DEF DepInv, State

LEMMA PushCheckpointKeeps ==
    ASSUME DepInv, PushCheckpoint
    PROVE  DepInv'
  <1>1. points \in Seq(Points)
    BY Zenon DEF DepInv, State
  <1>2. /\ points' = Append(points, [mark |-> Len(trail), choices |-> 0])
        /\ nonback' = Len(points) /\ checkpoint' = {Len(points)} /\ Len(points) \in Levels
        /\ UNCHANGED <<canonical, trail, clash>>
    BY Zenon DEF PushCheckpoint
  <1>3. 0 \in Nat
    OBVIOUS
  <1>4. State(canonical, trail, clash, Append(points, [mark |-> Len(trail), choices |-> 0]),
              nonback, checkpoint)
    BY <1>2, <1>3, PointKept, Zenon DEF DepInv
  <1>5. Len(points) \in Int /\ Len(points) >= -1 /\ {Len(points)} \in SUBSET Nat
    BY <1>1
  <1> QED BY <1>2, <1>4, <1>5, Zenon DEF DepInv, State


\* The stack cut back to a level, with its choices counted down or not.
LEMMA StackCut ==
    ASSUME NEW p \in Seq(Points), NEW l \in Nat, l < Len(p)
    PROVE  LET q == SubSeq(p, 1, l + 1)
               r == [q EXCEPT ![l + 1].choices = @ - 1]
           IN  /\ q \in Seq(Points) /\ Len(q) = l + 1
               /\ \A i \in 1 .. l + 1 : q[i] = p[i]
               /\ p[l + 1].choices > 0 =>
                    /\ r \in Seq(Points) /\ Len(r) = l + 1
                    /\ \A i \in 1 .. l + 1 : r[i].mark = p[i].mark
  <1>1. PICK q : q = SubSeq(p, 1, l + 1)
    BY Zenon
  <1>2. /\ q \in Seq(Points) /\ Len(q) = l + 1 /\ \A i \in 1 .. l + 1 : q[i] = p[i]
    BY <1>1
  <1>3. ASSUME p[l + 1].choices > 0
        PROVE  LET r == [q EXCEPT ![l + 1].choices = @ - 1]
               IN  /\ r \in Seq(Points) /\ Len(r) = l + 1
                   /\ \A i \in 1 .. l + 1 : r[i].mark = p[i].mark
    <2>1. l + 1 \in 1 .. l + 1 /\ DOMAIN q = 1 .. l + 1
      BY <1>2
    <2>2. PICK x \in Points : x = q[l + 1] /\ x.choices > 0
      BY <1>2, <1>3, <2>1
    <2>3. PICK y : y = [x EXCEPT !.choices = @ - 1]
      BY Zenon
    <2>4. y \in Points /\ y.mark = x.mark
      BY <2>2, <2>3 DEF Points
    <2>5. PICK r : r = [q EXCEPT ![l + 1] = y]
      BY Zenon
    <2>6. r = [q EXCEPT ![l + 1].choices = @ - 1]
      BY <2>2, <2>3, <2>5, Zenon
    <2>7. r \in Seq(Points) /\ Len(r) = l + 1
      BY <1>2, <2>1, <2>4, <2>5
    <2>8. r[l + 1] = y /\ \A i \in 1 .. l + 1 : i # l + 1 => r[i] = q[i]
      BY <2>1, <2>5, Zenon
    <2>9. \A i \in 1 .. l + 1 : r[i].mark = p[i].mark
      BY <1>2, <2>1, <2>2, <2>4, <2>8, Zenon
    <2> QED BY <2>6, <2>7, <2>9, Zenon
  <1> QED BY <1>1, <1>2, <1>3, Zenon

\* backtrack_to(l): the usages of the holders above the mark and of the clash go
\* back, the rest is as it was when the branching point was pushed.
LEMMA Backtracked ==
    ASSUME DepInv, NEW l \in Nat, l < Len(points),
           NEW q \in Seq(Points), Len(q) = l + 1,
           \A i \in 1 .. l + 1 : q[i].mark = points[i].mark
    PROVE  /\ State(BacktrackTo(l), SubSeq(trail, 1, points[l + 1].mark), {}, q, nonback, checkpoint)
           /\ DOMAIN BacktrackTo(l) = DOMAIN canonical
  <1>1. PICK m, t, b, d : /\ m = points[l + 1].mark /\ t = trail /\ b = SubSeq(t, 1, m)
                          /\ d = Release(canonical, SubSeq(t, m + 1, Len(t)))
    BY Zenon
  <1>2. /\ Counter(canonical) /\ Covers(canonical, t, clash) /\ t \in Seq(Holders)
        /\ clash \in SUBSET SUBSET Levels /\ (\A r, s \in clash : r = s)
        /\ points \in Seq(Points) /\ Marks(t, points) /\ Rooted(t, points)
        /\ Len(points) <= MaxLevel + 1 /\ nonback \in Int /\ nonback >= -1 /\ checkpoint \in SUBSET Nat
    BY <1>1, Zenon DEF DepInv, State
  <1>3. m \in Nat /\ m <= Len(t) /\ Marks(b, q) /\ Rooted(b, q)
    BY <1>1, <1>2, CutRooted, Zenon
  <1>4. Counter(d) /\ DOMAIN d = DOMAIN canonical /\ Covers(d, b, clash)
    <2>1. PICK c, k : c = canonical /\ k = clash
      BY Zenon
    <2>2. Counter(d) /\ DOMAIN d = DOMAIN c /\ Covers(d, b, k)
      <3>1. /\ Counter(Release(c, SubSeq(t, m + 1, Len(t))))
            /\ DOMAIN Release(c, SubSeq(t, m + 1, Len(t))) = DOMAIN c
            /\ Covers(Release(c, SubSeq(t, m + 1, Len(t))), SubSeq(t, 1, m), k)
        BY <1>2, <1>3, <2>1, Released
      <3> QED BY <1>1, <2>1, <3>1, Zenon
    <2> QED BY <2>1, <2>2, Zenon
  <1>5. b \in Seq(Holders)
    BY <1>1, <1>2, <1>3, Cut, Zenon
  <1>6. BacktrackTo(l) = ClearClash(d)
    BY <1>1, Zenon DEF BacktrackTo
  <1>7. Counter(ClearClash(d)) /\ Covers(ClearClash(d), b, {}) /\ DOMAIN ClearClash(d) = DOMAIN d
    BY <1>2, <1>4, <1>5, ClashGone, Zenon
  <1>8. Len(q) <= MaxLevel + 1
    <2>1. Len(points) \in Nat
      BY <1>2
    <2> QED BY <1>2, <2>1, BoundsAssumption
  <1>9. {} \in SUBSET SUBSET Levels /\ (\A r, s \in {} : r = s) /\ \A s \in {} : \A j \in s : j < Len(q)
    BY Zenon
  <1>10. State(ClearClash(d), b, {}, q, nonback, checkpoint)
    BY <1>2, <1>3, <1>5, <1>7, <1>8, <1>9, Zenon DEF State
  <1> QED BY <1>1, <1>4, <1>6, <1>7, <1>10, Zenon

LEMMA RestoreCheckpointKeeps ==
    ASSUME DepInv, RestoreCheckpoint
    PROVE  DepInv'
  <1>1. PICK l \in checkpoint :
           /\ CurrentLevel >= l
           /\ canonical' = RemoveUnusedSets(BacktrackTo(l))
           /\ trail' = SubSeq(trail, 1, points[l + 1].mark)
           /\ points' = SubSeq(points, 1, l + 1)
           /\ nonback' = l /\ clash' = {} /\ checkpoint' = checkpoint
    BY Zenon DEF RestoreCheckpoint
  <1>2. checkpoint \in SUBSET Nat /\ points \in Seq(Points)
    BY Zenon DEF DepInv, State
  <1>3. l \in Nat
    BY <1>1, <1>2, Zenon
  <1>4. l < Len(points) /\ l \in Int /\ l >= -1
    BY <1>1, <1>2, <1>3 DEF CurrentLevel
  <1>5. PICK q : q = SubSeq(points, 1, l + 1)
    BY Zenon
  <1>6. q \in Seq(Points) /\ Len(q) = l + 1 /\ \A i \in 1 .. l + 1 : q[i] = points[i]
    BY <1>2, <1>3, <1>4, <1>5, StackCut, Zenon
  <1>7. \A i \in 1 .. l + 1 : q[i].mark = points[i].mark
    BY <1>6, Zenon
  <1>8. PICK d, b : d = BacktrackTo(l) /\ b = SubSeq(trail, 1, points[l + 1].mark)
    BY Zenon
  <1>9. State(d, b, {}, q, nonback, checkpoint)
    BY <1>3, <1>4, <1>6, <1>7, <1>8, Backtracked, Zenon
  <1>10. Counter(RemoveUnusedSets(d)) /\ Covers(RemoveUnusedSets(d), b, {})
    BY <1>9, Pruned, Zenon DEF State
  <1>11. State(RemoveUnusedSets(d), b, {}, q, l, checkpoint)
    BY <1>4, <1>9, <1>10, Zenon DEF State
  <1> QED BY <1>1, <1>5, <1>8, <1>11, Zenon DEF DepInv

LEMMA BacktrackOnClashKeeps ==
    ASSUME DepInv, NEW present \in BOOLEAN, BacktrackOnClash(present)
    PROVE  DepInv'
  <1>1. PICK s, l, a, r :
           /\ s \in clash /\ l = ChoiceToUndo(s) /\ a = points[l + 1].choices
           /\ r = IF a = 1 THEN RemoveBranchingPoint(BacktrackTo(l), s, l)
                  ELSE <<BacktrackTo(l), s>>
           /\ l > nonback /\ a > 0 /\ clash' = {}
           /\ points' = [SubSeq(points, 1, l + 1) EXCEPT ![l + 1].choices = @ - 1]
           /\ canonical' = RemoveUnusedSets(IF present THEN r[1] ELSE AddUsage(r[1], r[2]))
           /\ trail' = IF present THEN SubSeq(trail, 1, points[l + 1].mark)
                       ELSE Append(SubSeq(trail, 1, points[l + 1].mark), Holder("tuple", r[2]))
           /\ nonback' = nonback /\ checkpoint' = checkpoint
    BY Zenon DEF BacktrackOnClash
  <1>2. /\ clash \in SUBSET SUBSET Levels /\ (\A x \in clash : \A j \in x : j < Len(points))
        /\ nonback \in Int /\ nonback >= -1 /\ points \in Seq(Points)
        /\ Covers(canonical, trail, clash) /\ trail \in Seq(Holders)
    BY Zenon DEF DepInv, State
  <1>3. s \in SUBSET Levels /\ \A j \in s : j \in Nat /\ j < Len(points)
    BY <1>1, <1>2, LevelsNat, Zenon
  <1>4. s # {}
    <2> SUFFICES ASSUME s = {} PROVE FALSE
      BY Zenon
    <2>1. l = -1
      BY <1>1, Zenon DEF ChoiceToUndo, MaximumBranchingPoint
    <2> QED BY <1>1, <1>2, <2>1
  <1>5. l \in s /\ \A j \in s : j <= l
    BY <1>1, <1>3, <1>4, MaximumIn, Zenon DEF ChoiceToUndo, MaximumBranchingPoint
  <1>6. l \in Nat /\ l < Len(points)
    BY <1>3, <1>5, Zenon
  <1>7. PICK q : q = [SubSeq(points, 1, l + 1) EXCEPT ![l + 1].choices = @ - 1]
    BY Zenon
  <1>8. q \in Seq(Points) /\ Len(q) = l + 1 /\ \A i \in 1 .. l + 1 : q[i].mark = points[i].mark
    <2>1. PICK p : p = points
      BY Zenon
    <2>2. p \in Seq(Points) /\ l < Len(p) /\ p[l + 1].choices > 0
      BY <1>1, <1>2, <1>6, <2>1, Zenon
    <2>3. LET y == [SubSeq(p, 1, l + 1) EXCEPT ![l + 1].choices = @ - 1]
          IN  /\ y \in Seq(Points) /\ Len(y) = l + 1
              /\ \A i \in 1 .. l + 1 : y[i].mark = p[i].mark
      BY <1>6, <2>2, StackCut
    <2> QED BY <1>7, <2>1, <2>3, Zenon
  <1>9. PICK d, b : d = BacktrackTo(l) /\ b = SubSeq(trail, 1, points[l + 1].mark)
    BY Zenon
  <1>10. State(d, b, {}, q, nonback, checkpoint) /\ DOMAIN d = DOMAIN canonical
    BY <1>6, <1>8, <1>9, Backtracked, Zenon
  <1>11. Counter(d) /\ Covers(d, b, {}) /\ b \in Seq(Holders)
    BY <1>10, Zenon DEF State
  <1>12. s \in DOMAIN d
    BY <1>1, <1>2, <1>10, UsedInterned, Zenon
  <1>13. Counter(r[1]) /\ Covers(r[1], b, {}) /\ r[2] \in DOMAIN r[1] /\ r[2] \subseteq s
    <2>1. CASE a = 1
      <3>1. PICK z : z = s \ {l}
        BY Zenon
      <3>2. r = <<Intern(d, z), z>>
        BY <1>1, <1>5, <1>9, <2>1, <3>1, Zenon DEF RemoveBranchingPoint
      <3>3. r[1] = Intern(d, z) /\ r[2] = z
        BY <3>2
      <3>4. z \in SUBSET Levels /\ z \subseteq s
        BY <1>3, <3>1, Zenon
      <3>5. Counter(Intern(d, z)) /\ Covers(Intern(d, z), b, {}) /\ z \in DOMAIN Intern(d, z)
        BY <1>11, <3>4, InternCovers, Zenon
      <3> QED BY <3>3, <3>4, <3>5, Zenon
    <2>2. CASE a # 1
      <3>1. r = <<d, s>>
        BY <1>1, <1>9, <2>2, Zenon
      <3>2. r[1] = d /\ r[2] = s
        BY <3>1
      <3> QED BY <1>11, <1>12, <3>2, Zenon
    <2> QED BY <2>1, <2>2, Zenon
  <1>14. PICK e, z : e = r[1] /\ z = r[2]
    BY Zenon
  <1>15. State(e, b, {}, q, nonback, checkpoint)
    BY <1>10, <1>13, <1>14, FactoryChanged, Zenon
  <1>16. \A j \in z : j < Len(q)
    <2>1. \A j \in Nat : j <= l => j < l + 1
      BY <1>6
    <2> QED BY <1>3, <1>5, <1>8, <1>13, <1>14, <2>1, Zenon
  <1>17. State(AddUsage(e, z), Append(b, Holder("tuple", z)), {}, q, nonback, checkpoint)
    <2>1. "tuple" \in Kinds /\ z \in DOMAIN e
      BY <1>13, <1>14, Zenon DEF Kinds
    <2> QED BY <1>15, <1>16, <2>1, HolderKept, Zenon
  <1>18. CASE present
    <2>1. State(RemoveUnusedSets(e), b, {}, q, nonback, checkpoint)
      BY <1>15, FactoryChanged, Pruned, Zenon DEF State
    <2> QED BY <1>1, <1>7, <1>9, <1>14, <1>18, <2>1, Zenon DEF DepInv
  <1>19. CASE ~present
    <2>1. PICK f, g : f = AddUsage(e, z) /\ g = Append(b, Holder("tuple", z))
      BY Zenon
    <2>2. State(f, g, {}, q, nonback, checkpoint)
      BY <1>17, <2>1, Zenon
    <2>3. State(RemoveUnusedSets(f), g, {}, q, nonback, checkpoint)
      BY <2>2, FactoryChanged, Pruned, Zenon DEF State
    <2> QED BY <1>1, <1>7, <1>9, <1>14, <1>19, <2>1, <2>3, Zenon DEF DepInv
  <1> QED BY <1>18, <1>19, Zenon


-----------------------------------------------------------------------------
(* The theorems.                                                           *)

LEMMA EmptyFactory == State(NoSets, << >>, {}, << >>, -1, {})
  <1>1. /\ << >> \in Seq(Holders) /\ << >> \in Seq(Points) /\ Len(<< >>) = 0 /\ DOMAIN << >> = {}
        /\ -1 \in Int /\ -1 >= -1
    OBVIOUS
  <1>2. PICK c : c = NoSets
    BY Zenon
  <1>3. DOMAIN c = {{}} /\ c[{}] = 1 /\ c \in [DOMAIN c -> Nat]
    BY <1>2 DEF NoSets
  <1>4. Counter(c)
    BY <1>3, Zenon DEF Counter
  <1>5. \A s : UsagesBy(<< >>, s) = 0
    <2> TAKE s
    <2>1. {i \in DOMAIN << >> : << >>[i].set = s} = {}
      BY <1>1, Zenon
    <2> QED BY <2>1, FS_EmptySet, Zenon DEF UsagesBy
  <1>6. \A s : Hold(<< >>, {}, s) = IF s = {} THEN 1 ELSE 0
    BY <1>5 DEF Hold
  <1>7. ASSUME NEW s, Hold(<< >>, {}, s) > 0 PROVE s \in DOMAIN c /\ c[s] >= Hold(<< >>, {}, s)
    <2>1. s = {}
      BY <1>6, <1>7
    <2>2. Hold(<< >>, {}, {}) = 1 /\ 1 >= 1
      BY <1>6
    <2> QED BY <1>3, <2>1, <2>2, Zenon
  <1>8. Covers(c, << >>, {})
    BY <1>7, Zenon DEF Covers
  <1>9. Marks(<< >>, << >>) /\ Rooted(<< >>, << >>)
    BY <1>1, Zenon DEF Marks, Rooted
  <1>10. Len(<< >>) <= MaxLevel + 1
    BY <1>1, BoundsAssumption
  <1> QED BY <1>1, <1>2, <1>4, <1>8, <1>9, <1>10, Zenon DEF State

LEMMA DepNextKeeps == ASSUME DepInv, [DepNext]_depVars PROVE DepInv'
  <1>1. CASE UNCHANGED depVars
    BY <1>1, Zenon DEF depVars, DepInv
  <1>2. CASE \E kind \in {"tuple", "merge", "equality"}, w \in Premises, present \in BOOLEAN :
                Derive(kind, w, present)
    BY <1>2, DeriveKeeps, Zenon
  <1>3. CASE \E w \in Premises, satisfied \in BOOLEAN : DeriveDisjunction(w, satisfied)
    BY <1>3, DeriveDisjunctionKeeps, Zenon
  <1>4. CASE \E w \in Premises : SetClash(w)
    BY <1>4, SetClashKeeps, Zenon
  <1>5. CASE \E i \in DOMAIN trail, choices \in 1 .. 2 : ProcessChoice(i, choices)
    BY <1>5, ProcessChoiceKeeps, Zenon
  <1>6. CASE PushCheckpoint
    BY <1>6, PushCheckpointKeeps, Zenon
  <1>7. CASE PushDummy
    BY <1>7, PushDummyKeeps, Zenon
  <1>8. CASE \E present \in BOOLEAN : BacktrackOnClash(present)
    BY <1>8, BacktrackOnClashKeeps, Zenon
  <1>9. CASE RestoreCheckpoint
    BY <1>9, RestoreCheckpointKeeps, Zenon
  <1>10. CASE ClearTableau
    BY <1>10, EmptyFactory, Zenon DEF ClearTableau, DepInv
  <1> QED
    BY <1>1, <1>2, <1>3, <1>4, <1>5, <1>6, <1>7, <1>8, <1>9, <1>10, Zenon DEF DepNext

\* The usages of every set cover its holders, and every holder is younger than the
\* branching points it depends on (dependency_set.rs, branching.rs backtrack_to).
THEOREM UsageInvariant == DepSpec => []DepInv
  <1>1. DepInit => DepInv
    BY EmptyFactory, Zenon DEF DepInit, DepInv
  <1> QED BY <1>1, DepNextKeeps, PTL DEF DepSpec

\* No pruning takes away a set in use (branching.rs backtrack_on_clash and
\* restore_abox_checkpoint, dependency_set.rs remove_unused_sets), for any bounds.
THEOREM SetsInUseStay == DepSpec => []HeldSetsInterned
  <1>1. DepInv => HeldSetsInterned
    <2> SUFFICES ASSUME DepInv, NEW s \in Held
                 PROVE  s \in DOMAIN canonical /\ canonical[s] >= HoldersOf(s)
      BY Zenon DEF HeldSetsInterned
    <2>1. /\ Counter(canonical) /\ Covers(canonical, trail, clash) /\ trail \in Seq(Holders)
          /\ clash \in SUBSET SUBSET Levels
      BY Zenon DEF DepInv, State
    <2>2. s \in DOMAIN canonical
      BY <2>1, UsedInterned, Zenon DEF Held
    <2>3. s \in SUBSET Levels
      BY <2>1, <2>2, Zenon DEF Counter
    <2>4. PICK h \in Nat : h = Hold(trail, clash, s)
      BY <2>1, HoldNat, Zenon
    <2>5. HoldersOf(s) = h
      BY <2>4, Zenon DEF HoldersOf, Hold
    <2>6. canonical[s] \in Nat
      BY <2>1, <2>2, Zenon DEF Counter
    <2>7. CASE h > 0
      BY <2>1, <2>2, <2>3, <2>4, <2>5, <2>7, Zenon DEF Covers
    <2>8. CASE ~(h > 0)
      <3>1. canonical[s] >= h
        BY <2>4, <2>6, <2>8
      <3> QED BY <2>2, <2>5, <3>1, Zenon
    <2> QED BY <2>7, <2>8, Zenon
  <1> QED BY <1>1, UsageInvariant, PTL

\* What depends on a choice is gone when the choice is undone: no stored tuple, no
\* merge, no queued disjunction or equality and no clash names a branching point
\* that backtrack_to has dropped, for any bounds.
THEOREM DependenciesPresent == DepSpec => []NoStaleBranchingPoint
  <1>1. DepInv => NoStaleBranchingPoint
    <2> SUFFICES ASSUME DepInv PROVE NoStaleBranchingPoint
      BY Zenon
    <2>1. /\ trail \in Seq(Holders) /\ clash \in SUBSET SUBSET Levels /\ Rooted(trail, points)
          /\ (\A s \in clash : \A l \in s : l < Len(points)) /\ points \in Seq(Points)
      BY Zenon DEF DepInv, State
    <2>2. \A s \in Held : \A l \in s : l \in Nat /\ l < Len(points)
      <3>1. \A i \in DOMAIN trail : \A l \in trail[i].set : l \in Nat /\ l < Len(points)
        BY <2>1, HolderAt, LevelsNat, Zenon DEF Rooted
      <3>2. \A s \in clash : \A l \in s : l \in Nat /\ l < Len(points)
        BY <2>1, LevelsNat, Zenon
      <3> QED BY <3>1, <3>2, Zenon DEF Held
    <2>3. \A l \in Nat : l < Len(points) => l \in 0 .. CurrentLevel
      <3>1. PICK n \in Nat : n = Len(points)
        BY <2>1
      <3>2. \A l \in Nat : l < n => l \in 0 .. n - 1
        BY <3>1
      <3> QED BY <3>1, <3>2, Zenon DEF CurrentLevel
    <2> QED BY <2>1, <2>2, <2>3, Zenon DEF NoStaleBranchingPoint, Rooted
  <1> QED BY <1>1, UsageInvariant, PTL
=============================================================================
