--------------------------- MODULE MatchingProofs ---------------------------
(***************************************************************************)
(* Proofs about Matching, for every number of nodes and values and all     *)
(* candidate lists: the two halves of the matching agree, a matched node   *)
(* stays matched, and the answers of has_distinct_assignment are right.    *)
(* "No" rests on counting: the layered nodes could only take values that   *)
(* the layered nodes with a value hold, and these are fewer.               *)
(***************************************************************************)
EXTENDS Matching, SequenceTheorems, FiniteSetTheorems, TLAPS

\* Every leaf that names no prover is given to these, in this order.
USE SMTT(90), ZenonT(60)

\* The stack holds no node twice: the layers of its nodes ascend.
LEMMA StackDistinct ==
  ASSUME PathInvariant, NEW k \in 1..Len(stack), NEW l \in 1..Len(stack), stack[k] = stack[l]
  PROVE  k = l
<1>1. stack[1] \in Nodes /\ stack[k] \in Nodes /\ stack[l] \in Nodes
  BY DEF PathInvariant, TypeOK
<1>2. layer[stack[1]] \in Int
  BY <1>1 DEF PathInvariant, TypeOK
<1>3. layer[stack[k]] = layer[stack[1]] + k - 1 /\ layer[stack[l]] = layer[stack[1]] + l - 1
  BY DEF PathInvariant, StackIsPath
<1> QED BY <1>2, <1>3

\* The top of a stack that is not empty is a node, and its candidate a value.
LEMMA TopIsNode ==
  ASSUME PathInvariant, stack # <<>>
  PROVE  /\ Len(stack) \in Nat \ {0} /\ Top \in Nodes /\ Top = stack[Len(stack)]
         /\ next_candidate[Top] =< Len(lists[Top]) => Candidate \in Values /\ Candidate \in Candidates(Top)
<1>1. Len(stack) \in Nat \ {0} /\ Top \in Nodes
  BY DEF PathInvariant, TypeOK, Top
<1>2. lists[Top] \in Seq(Values) /\ next_candidate[Top] \in Nat \ {0}
  BY <1>1 DEF PathInvariant, TypeOK
<1>3. ASSUME next_candidate[Top] =< Len(lists[Top]) PROVE Candidate \in Values /\ Candidate \in Candidates(Top)
  <2>1. next_candidate[Top] \in DOMAIN lists[Top]
    BY <1>2, <1>3
  <2> QED BY <1>2, <2>1 DEF Candidate, Candidates
<1> QED BY <1>1, <1>3 DEF Top

\* What a node below the top tried is a value, held by the node above it.
LEMMA TriedIsHeld ==
  ASSUME PathInvariant, NEW k \in 1..(Len(stack) - 1)
  PROVE  /\ stack[k] \in Nodes /\ stack[k + 1] \in Nodes
         /\ Tried(stack[k]) \in Values /\ Tried(stack[k]) \in Candidates(stack[k])
         /\ node_of_value[Tried(stack[k])] = stack[k + 1]
         /\ value_of_node[stack[k + 1]] = Tried(stack[k])
<1>1. stack[k] \in Nodes /\ stack[k + 1] \in Nodes
  BY DEF PathInvariant, TypeOK
<1>2. next_candidate[stack[k]] - 1 \in 1..Len(lists[stack[k]]) /\ node_of_value[Tried(stack[k])] = stack[k + 1]
  BY DEF PathInvariant, StackIsPath
<1>3. lists[stack[k]] \in Seq(Values)
  BY <1>1 DEF PathInvariant, TypeOK
<1>4. Tried(stack[k]) \in Values /\ Tried(stack[k]) \in Candidates(stack[k])
  BY <1>2, <1>3 DEF Tried, Candidates
<1>5. stack[k + 1] # FREE
  BY <1>1 DEF Nodes, FREE
<1>6. value_of_node[stack[k + 1]] = Tried(stack[k])
  BY <1>2, <1>4, <1>5 DEF PathInvariant, MatchingConsistent
<1> QED BY <1>1, <1>2, <1>4, <1>6

\* The initial state: nothing matched, no path.
LEMMA InitPath == Init => PathInvariant
<1> SUFFICES ASSUME Init PROVE PathInvariant
  OBVIOUS
<1>1. lists \in [Nodes -> Seq(Values)]
  BY ListsAssumption DEF Init
<1>2. TypeOK
  <2>1. /\ value_of_node \in [Nodes -> Values \cup {FREE}] /\ node_of_value \in [Values -> Nodes \cup {FREE}]
        /\ queue \in SUBSET Nodes /\ found \in BOOLEAN
        /\ phase \in {"start", "phase", "layers", "augment", "yes", "no"}
    BY Zenon DEF Init
  <2>2. Unlayered \in Int
    BY DEF Unlayered
  <2>3. layer \in [Nodes -> Int] /\ next_candidate \in [Nodes -> Nat \ {0}] /\ root \in Nat \ {0}
    BY <2>2 DEF Init
  <2>4. stack \in Seq(Nodes)
    BY DEF Init
  <2> QED BY <1>1, <2>1, <2>3, <2>4 DEF TypeOK
<1>3. MatchingConsistent
  BY DEF Init, MatchingConsistent, FREE
<1>4. StackIsPath
  BY DEF Init, StackIsPath
<1> QED BY <1>2, <1>3, <1>4 DEF PathInvariant, Init

\* Where no path is built, what the other variables do leaves the invariant.
LEMMA NoPath ==
  ASSUME PathInvariant, TypeOK', UNCHANGED <<lists, value_of_node, node_of_value>>, stack' = <<>>,
         phase' = "yes" => Unmatched = {}
  PROVE  PathInvariant'
<1>1. MatchingConsistent'
  BY DEF PathInvariant, MatchingConsistent, Candidates
<1>2. StackIsPath'
  BY DEF StackIsPath
<1>3. phase' = "yes" => Unmatched' = {}
  BY DEF Unmatched
<1> QED BY <1>1, <1>2, <1>3 DEF PathInvariant

\* The steps outside the augmentation.
LEMMA LayeringSteps ==
  ASSUME PathInvariant, Start \/ BeginPhase \/ LayerNode \/ EndLayers
  PROVE  PathInvariant'
<1>1. stack = <<>>
  BY DEF PathInvariant, StackIsPath, Start, BeginPhase, LayerNode, EndLayers
<1>2. stack' = <<>> /\ UNCHANGED <<lists, value_of_node, node_of_value>>
  BY <1>1 DEF Start, BeginPhase, LayerNode, EndLayers
<1>3. phase' = "yes" => Unmatched = {}
  BY DEF PathInvariant, Start, BeginPhase, LayerNode, EndLayers
<1>4. TypeOK'
  <2>1. CASE Start
    BY <2>1 DEF PathInvariant, TypeOK, Start
  <2>2. CASE BeginPhase
    <3>1. Unlayered \in Int /\ Unmatched \in SUBSET Nodes
      BY DEF Unlayered, Unmatched
    <3>2. layer' \in [Nodes -> Int]
      BY <2>2, <3>1 DEF BeginPhase
    <3> QED BY Zenon, <2>2, <3>1, <3>2 DEF PathInvariant, TypeOK, BeginPhase
  <2>3. CASE LayerNode
    <3>1. PICK i \in queue :
            LET holders == {node_of_value[lists[i][c]] : c \in DOMAIN lists[i]}
                reached == {j \in holders \ {FREE} : layer[j] = Unlayered}
            IN /\ found' = (found \/ FREE \in holders)
               /\ layer' = [j \in Nodes |-> IF j \in reached THEN layer[i] + 1 ELSE layer[j]]
               /\ queue' = (queue \ {i}) \cup reached
      BY <2>3 DEF LayerNode
    <3> DEFINE holders == {node_of_value[lists[i][c]] : c \in DOMAIN lists[i]}
               reached == {j \in holders \ {FREE} : layer[j] = Unlayered}
    <3>2. i \in Nodes /\ lists[i] \in Seq(Values) /\ layer[i] \in Int
      BY DEF PathInvariant, TypeOK
    <3>3. holders \subseteq Nodes \cup {FREE}
      BY <3>2 DEF PathInvariant, TypeOK
    <3>4. reached \subseteq Nodes
      BY <3>3
    <3>5. queue' \in SUBSET Nodes
      BY <3>1, <3>4 DEF PathInvariant, TypeOK
    <3>6. layer' \in [Nodes -> Int]
      <4> HIDE DEF reached
      <4> QED BY <3>1, <3>2 DEF PathInvariant, TypeOK, reached
    <3>7. found' \in BOOLEAN
      BY <3>1 DEF PathInvariant, TypeOK
    <3> QED BY <2>3, <3>5, <3>6, <3>7 DEF PathInvariant, TypeOK, LayerNode
  <2>4. CASE EndLayers
    BY <2>4 DEF PathInvariant, TypeOK, EndLayers
  <2> QED BY <2>1, <2>2, <2>3, <2>4
<1> QED BY <1>2, <1>3, <1>4, NoPath

\* A new root starts a path of one node without a value.
LEMMA NextRootStep ==
  ASSUME PathInvariant, NextRoot
  PROVE  PathInvariant'
<1>1. root \in Nat \ {0} /\ NodeCount \in Nat
  BY CountAssumption DEF PathInvariant, TypeOK
<1>2. CASE stack' = <<>>
  <2>1. TypeOK'
    BY <1>1, <1>2 DEF PathInvariant, TypeOK, NextRoot
  <2>2. phase' # "yes"
    BY DEF NextRoot
  <2> QED BY <1>2, <2>1, <2>2, NoPath DEF NextRoot
<1>3. CASE stack' # <<>>
  <2>1. /\ root =< NodeCount /\ stack' = <<root>> /\ value_of_node[root] = FREE /\ root' = root + 1 /\ phase' = phase
    BY <1>1, <1>3 DEF NextRoot
  <2>2. root \in Nodes
    BY <1>1, <2>1 DEF Nodes
  <2>3. TypeOK'
    BY <1>1, <2>1, <2>2 DEF PathInvariant, TypeOK, NextRoot
  <2>4. MatchingConsistent'
    BY DEF PathInvariant, MatchingConsistent, Candidates, NextRoot
  <2>5. Len(stack') = 1 /\ stack'[1] = root
    BY <2>1
  <2>6. layer[root] \in Int
    BY <2>2 DEF PathInvariant, TypeOK
  <2>7. StackIsPath'
    BY <2>1, <2>5, <2>6 DEF StackIsPath, NextRoot
  <2> QED BY <2>1, <2>3, <2>4, <2>7 DEF PathInvariant, NextRoot
<1> QED BY <1>2, <1>3

\* Popping a dead end: the rest of the stack is still a path.
LEMMA DeadEndStep ==
  ASSUME PathInvariant, DeadEnd
  PROVE  PathInvariant'
<1>1. Len(stack) \in Nat \ {0} /\ Top \in Nodes /\ Top = stack[Len(stack)] /\ stack \in Seq(Nodes)
  BY TopIsNode DEF DeadEnd, PathInvariant, TypeOK
<1>2. /\ stack' \in Seq(Nodes) /\ Len(stack') = Len(stack) - 1
      /\ \A k \in 1..(Len(stack) - 1) : stack'[k] = stack[k]
  <2> DEFINE n == Len(stack) - 1
  <2>1. n \in Nat /\ \A i \in 1..n : stack[i] \in Nodes
    BY <1>1
  <2>2. /\ SubSeq(stack, 1, n) \in Seq(Nodes) /\ Len(SubSeq(stack, 1, n)) = IF 1 =< n THEN n - 1 + 1 ELSE 0
        /\ \A i \in 1..(n - 1 + 1) : SubSeq(stack, 1, n)[i] = stack[1 + i - 1]
    <3> HIDE DEF n
    <3> QED BY <2>1, SubSeqProperties, 1 \in Int, n \in Int
  <2>3. stack' = SubSeq(stack, 1, n)
    BY DEF DeadEnd
  <2>4. \A i \in 1..n : stack'[i] = stack[i]
    <3> SUFFICES ASSUME NEW i \in 1..n PROVE stack'[i] = stack[i]
      OBVIOUS
    <3>1. i \in 1..(n - 1 + 1) /\ 1 + i - 1 = i
      BY <2>1
    <3> QED BY <2>2, <2>3, <3>1
  <2>5. Len(stack') = n
    <3> HIDE DEF n
    <3> QED BY <2>1, <2>2, <2>3
  <2>6. stack' \in Seq(Nodes)
    BY <2>2, <2>3
  <2> QED BY <2>4, <2>5, <2>6
<1>3. Unlayered \in Int
  BY DEF Unlayered
<1>4. TypeOK'
  BY Zenon, <1>2, <1>3 DEF PathInvariant, TypeOK, DeadEnd
<1>5. MatchingConsistent'
  BY DEF PathInvariant, MatchingConsistent, Candidates, DeadEnd
<1>6. \A k \in 1..(Len(stack) - 1) : stack[k] \in Nodes /\ stack[k] # Top
  BY <1>1, StackDistinct
<1>7. \A k \in 1..(Len(stack) - 1) : layer'[stack[k]] = layer[stack[k]]
  BY <1>6 DEF DeadEnd, PathInvariant, TypeOK
<1>8. StackIsPath'
  <2>1. \A k \in 1..(Len(stack) - 1) : layer[stack[k]] = layer[stack[1]] + k - 1
    BY <1>1 DEF PathInvariant, StackIsPath
  <2>2. \A k \in 1..Len(stack') : layer'[stack'[k]] = layer'[stack'[1]] + k - 1
    BY <1>1, <1>2, <1>7, <2>1
  <2>3. \A k \in 1..(Len(stack) - 1) : /\ next_candidate[stack[k]] - 1 \in 1..Len(lists[stack[k]])
                                      /\ node_of_value[Tried(stack[k])] = stack[k + 1]
    BY DEF PathInvariant, StackIsPath
  <2>4. ASSUME NEW k \in 1..(Len(stack') - 1)
        PROVE  /\ next_candidate'[stack'[k]] - 1 \in 1..Len(lists'[stack'[k]])
               /\ node_of_value'[lists'[stack'[k]][next_candidate'[stack'[k]] - 1]] = stack'[k + 1]
    <3>1. k \in 1..(Len(stack) - 1) /\ k + 1 \in 1..(Len(stack) - 1)
      BY <1>1, <1>2
    <3>2. stack'[k] = stack[k] /\ stack'[k + 1] = stack[k + 1]
      BY <1>2, <3>1
    <3> QED BY <2>3, <3>1, <3>2 DEF DeadEnd, Tried
  <2>6. stack' # <<>> => phase' = "augment" /\ value_of_node'[stack'[1]] = FREE
    <3> SUFFICES ASSUME stack' # <<>> PROVE phase' = "augment" /\ value_of_node'[stack'[1]] = FREE
      OBVIOUS
    <3>1. Len(stack) - 1 \in Nat \ {0}
      BY <1>1, <1>2
    <3> QED BY <1>2, <3>1 DEF PathInvariant, StackIsPath, DeadEnd
  <2> QED BY <2>2, <2>4, <2>6 DEF StackIsPath, Tried
<1> QED BY <1>4, <1>5, <1>8 DEF PathInvariant, DeadEnd

\* What the steps that try a candidate have in common.
LEMMA TriedOne ==
  ASSUME PathInvariant, HasCandidate, Advance
  PROVE  /\ stack \in Seq(Nodes) /\ Len(stack) \in Nat \ {0} /\ Top \in Nodes /\ Top = stack[Len(stack)]
         /\ Candidate \in Values /\ Candidate \in Candidates(Top)
         /\ next_candidate[Top] \in 1..Len(lists[Top])
         /\ next_candidate' \in [Nodes -> Nat \ {0}] /\ next_candidate'[Top] = next_candidate[Top] + 1
         /\ \A k \in 1..(Len(stack) - 1) : /\ stack[k] \in Nodes /\ stack[k] # Top
                                          /\ next_candidate'[stack[k]] = next_candidate[stack[k]]
<1>1. /\ stack \in Seq(Nodes) /\ Len(stack) \in Nat \ {0} /\ Top \in Nodes /\ Top = stack[Len(stack)]
      /\ Candidate \in Values /\ Candidate \in Candidates(Top)
  BY TopIsNode DEF PathInvariant, TypeOK, HasCandidate
<1>2. next_candidate \in [Nodes -> Nat \ {0}] /\ lists[Top] \in Seq(Values)
  BY <1>1 DEF PathInvariant, TypeOK
<1>3. next_candidate[Top] \in 1..Len(lists[Top])
  BY <1>1, <1>2 DEF HasCandidate
<1>4. next_candidate' \in [Nodes -> Nat \ {0}] /\ next_candidate'[Top] = next_candidate[Top] + 1
  BY <1>1, <1>2 DEF Advance
<1>5. \A k \in 1..(Len(stack) - 1) : stack[k] \in Nodes /\ stack[k] # Top
  BY <1>1, StackDistinct
<1>6. \A k \in 1..(Len(stack) - 1) : next_candidate'[stack[k]] = next_candidate[stack[k]]
  BY <1>1, <1>2, <1>5 DEF Advance
<1> QED BY <1>1, <1>3, <1>4, <1>5, <1>6

\* A candidate that leads nowhere: only the place in the list moves.
LEMMA SkipStep ==
  ASSUME PathInvariant, Skip
  PROVE  PathInvariant'
<1>1. HasCandidate /\ Advance
  BY DEF Skip
<1>2. TypeOK'
  BY <1>1, TriedOne DEF PathInvariant, TypeOK, Skip
<1>3. MatchingConsistent'
  BY DEF PathInvariant, MatchingConsistent, Candidates, Skip
<1>4. \A k \in 1..(Len(stack) - 1) : next_candidate'[stack[k]] = next_candidate[stack[k]]
  BY <1>1, TriedOne
<1>5. StackIsPath'
  BY <1>4 DEF PathInvariant, StackIsPath, Skip, Tried
<1> QED BY <1>2, <1>3, <1>5 DEF PathInvariant, Skip, Unmatched

\* A candidate whose holder is in the next layer: the path grows by the holder.
LEMMA DescendStep ==
  ASSUME PathInvariant, Descend
  PROVE  PathInvariant'
<1> DEFINE j == node_of_value[Candidate]
           n == Len(stack)
<1>1. HasCandidate /\ Advance
  BY DEF Descend
<1>2. /\ stack \in Seq(Nodes) /\ n \in Nat \ {0} /\ Top \in Nodes /\ Top = stack[n]
      /\ Candidate \in Values
      /\ next_candidate[Top] \in 1..Len(lists[Top])
      /\ next_candidate' \in [Nodes -> Nat \ {0}] /\ next_candidate'[Top] = next_candidate[Top] + 1
      /\ \A k \in 1..(n - 1) : stack[k] \in Nodes /\ next_candidate'[stack[k]] = next_candidate[stack[k]]
  BY <1>1, TriedOne
<1>3. j \in Nodes
  BY <1>2 DEF PathInvariant, TypeOK, Descend
<1>4. /\ stack' \in Seq(Nodes) /\ Len(stack') = n + 1
      /\ \A k \in 1..n : stack'[k] = stack[k]
      /\ stack'[n + 1] = j
  <2>1. stack' = Append(stack, j)
    BY DEF Descend
  <2> QED BY <1>2, <1>3, <2>1, AppendProperties
<1>5. TypeOK'
  BY <1>2, <1>4 DEF PathInvariant, TypeOK, Descend
<1>6. MatchingConsistent'
  BY DEF PathInvariant, MatchingConsistent, Candidates, Descend
<1>7. \A k \in 1..Len(stack') : layer[stack'[k]] = layer[stack'[1]] + k - 1
  <2>1. \A k \in 1..n : layer[stack[k]] = layer[stack[1]] + k - 1
    BY DEF PathInvariant, StackIsPath
  <2>2. layer[stack[1]] \in Int
    BY <1>2 DEF PathInvariant, TypeOK
  <2>3. layer[j] = layer[Top] + 1
    BY DEF Descend, Follows
  <2>4. layer[Top] = layer[stack[1]] + n - 1
    BY <1>2, <2>1
  <2> HIDE DEF n, j
  <2>5. layer[j] = layer[stack[1]] + (n + 1) - 1
    BY <1>2, <2>2, <2>3, <2>4, SMTT(30)
  <2>8. Len(stack') = n + 1 /\ stack'[1] = stack[1]
    BY <1>2, <1>4
  <2> SUFFICES ASSUME NEW k \in 1..(n + 1) PROVE layer[stack'[k]] = layer[stack[1]] + k - 1
    BY <2>8
  <2>6. CASE k = n + 1
    BY <1>4, <2>5, <2>6
  <2>7. CASE k # n + 1
    <3>1. k \in 1..n
      BY <1>2, <2>7
    <3> QED BY <1>4, <2>1, <3>1
  <2> QED BY <2>6, <2>7
<1>8. ASSUME NEW k \in 1..(Len(stack') - 1)
      PROVE  /\ next_candidate'[stack'[k]] - 1 \in 1..Len(lists[stack'[k]])
             /\ node_of_value[lists[stack'[k]][next_candidate'[stack'[k]] - 1]] = stack'[k + 1]
  <2>1. k \in 1..n /\ stack'[k] = stack[k]
    BY <1>2, <1>4
  <2>2. CASE k = n
    BY <1>2, <1>4, <2>1, <2>2, SMTT(30) DEF Candidate
  <2>3. CASE k # n
    <3>1. k \in 1..(n - 1) /\ k + 1 \in 1..n
      BY <1>2, <2>1, <2>3, SMTT(30)
    <3>2. /\ next_candidate[stack[k]] - 1 \in 1..Len(lists[stack[k]])
          /\ node_of_value[Tried(stack[k])] = stack[k + 1]
      BY <3>1 DEF PathInvariant, StackIsPath
    <3>3. stack'[k + 1] = stack[k + 1] /\ next_candidate'[stack'[k]] = next_candidate[stack[k]]
      BY <1>2, <1>4, <2>1, <3>1
    <3> QED BY <2>1, <3>2, <3>3 DEF Tried
  <2> QED BY <2>2, <2>3
<1>9. value_of_node[stack'[1]] = FREE /\ phase = "augment"
  BY <1>2, <1>4 DEF PathInvariant, StackIsPath, Descend, HasCandidate
<1>10. StackIsPath'
  BY <1>7, <1>8, <1>9 DEF StackIsPath, Tried, Descend
<1> QED BY <1>5, <1>6, <1>9, <1>10 DEF PathInvariant, Descend

\* Augmenting: each node of the path takes what it tried; nothing else moves.
LEMMA FlipValues ==
  ASSUME PathInvariant, Flip
  PROVE  /\ TypeOK'
         /\ value_of_node'[Top] = Candidate /\ node_of_value'[Candidate] = Top
         /\ \A k \in 1..(Len(stack) - 1) : /\ value_of_node'[stack[k]] = Tried(stack[k])
                                          /\ node_of_value'[Tried(stack[k])] = stack[k]
         /\ \A i \in Nodes : ~OnStack(i) => value_of_node'[i] = value_of_node[i]
         /\ \A v \in Values : (v # Candidate /\ \A k \in 1..(Len(stack) - 1) : Tried(stack[k]) # v)
                             => node_of_value'[v] = node_of_value[v]
<1> DEFINE n == Len(stack)
<1>1. HasCandidate /\ Advance /\ node_of_value[Candidate] = FREE
  BY DEF Flip
<1>2. /\ stack \in Seq(Nodes) /\ n \in Nat \ {0} /\ Top \in Nodes /\ Top = stack[n]
      /\ Candidate \in Values
      /\ next_candidate' \in [Nodes -> Nat \ {0}]
      /\ \A k \in 1..(n - 1) : stack[k] \in Nodes /\ stack[k] # Top
  BY <1>1, TriedOne
<1>3. \A k \in 1..(n - 1) : /\ Tried(stack[k]) \in Values /\ node_of_value[Tried(stack[k])] = stack[k + 1]
                            /\ stack[k + 1] \in Nodes
  BY TriedIsHeld
<1>4. \A k \in 1..(n - 1) : Tried(stack[k]) # Candidate
  BY <1>1, <1>3 DEF Nodes, FREE
<1>5. \A k, l \in 1..(n - 1) : Tried(stack[k]) = Tried(stack[l]) => k = l
  <2> SUFFICES ASSUME NEW k \in 1..(n - 1), NEW l \in 1..(n - 1), Tried(stack[k]) = Tried(stack[l]) PROVE k = l
    OBVIOUS
  <2>1. stack[k + 1] = stack[l + 1]
    BY <1>3
  <2>2. k + 1 \in 1..n /\ l + 1 \in 1..n
    BY <1>2
  <2>3. k + 1 = l + 1
    BY <2>1, <2>2, StackDistinct
  <2> QED BY <1>2, <2>3
<1>6. value_of_node' = [i \in Nodes |-> IF i = Top THEN Candidate ELSE IF OnStack(i) THEN Tried(i) ELSE value_of_node[i]]
  BY DEF Flip
<1>7. node_of_value' = [v \in Values |-> IF v = Candidate THEN Top
                                         ELSE IF \E k \in 1..(n - 1) : Tried(stack[k]) = v
                                         THEN stack[CHOOSE k \in 1..(n - 1) : Tried(stack[k]) = v]
                                         ELSE node_of_value[v]]
  BY DEF Flip
<1>8. \A k \in 1..n : OnStack(stack[k])
  BY <1>2 DEF OnStack
<1>9. ASSUME NEW i \in Nodes, OnStack(i), i # Top PROVE Tried(i) \in Values
  <2>1. PICK k \in 1..n : stack[k] = i
    BY <1>2, <1>9 DEF OnStack
  <2>2. k \in 1..(n - 1)
    BY <1>2, <1>9, <2>1
  <2> QED BY <1>3, <2>1, <2>2
<1>10. value_of_node' \in [Nodes -> Values \cup {FREE}]
  BY <1>2, <1>6, <1>9 DEF PathInvariant, TypeOK
<1>11. node_of_value' \in [Values -> Nodes \cup {FREE}]
  <2>1. ASSUME NEW v \in Values, \E k \in 1..(n - 1) : Tried(stack[k]) = v
        PROVE  stack[CHOOSE k \in 1..(n - 1) : Tried(stack[k]) = v] \in Nodes
    BY Zenon, <1>2, <2>1
  <2> QED BY Zenon, <1>2, <1>7, <2>1 DEF PathInvariant, TypeOK
<1>12. layer' \in [Nodes -> Int] /\ stack' \in Seq(Nodes)
  <2>1. Unlayered \in Int
    BY DEF Unlayered
  <2> QED BY <2>1 DEF PathInvariant, TypeOK, Flip
<1>13. TypeOK'
  BY <1>2, <1>10, <1>11, <1>12 DEF PathInvariant, TypeOK, Flip
<1>14. value_of_node'[Top] = Candidate /\ node_of_value'[Candidate] = Top
  BY <1>2, <1>6, <1>7
<1>15. ASSUME NEW k \in 1..(n - 1)
       PROVE  value_of_node'[stack[k]] = Tried(stack[k]) /\ node_of_value'[Tried(stack[k])] = stack[k]
  <2>1. k \in 1..n
    BY <1>2
  <2>2. value_of_node'[stack[k]] = Tried(stack[k])
    BY <1>2, <1>6, <1>8, <2>1
  <2>3. (CHOOSE l \in 1..(n - 1) : Tried(stack[l]) = Tried(stack[k])) = k
    BY <1>5
  <2>4. node_of_value'[Tried(stack[k])] = stack[k]
    BY Zenon, <1>3, <1>4, <1>7, <2>3
  <2> QED BY <2>2, <2>4
<1>16. \A i \in Nodes : ~OnStack(i) => value_of_node'[i] = value_of_node[i]
  <2>1. OnStack(Top)
    BY <1>2, <1>8
  <2> QED BY <1>6, <2>1
<1>17. \A v \in Values : (v # Candidate /\ \A k \in 1..(n - 1) : Tried(stack[k]) # v)
                         => node_of_value'[v] = node_of_value[v]
  BY <1>7
<1> QED BY <1>13, <1>14, <1>15, <1>16, <1>17

LEMMA FlipStep ==
  ASSUME PathInvariant, Flip
  PROVE  PathInvariant'
<1> DEFINE n == Len(stack)
<1>1. HasCandidate /\ Advance /\ node_of_value[Candidate] = FREE
  BY DEF Flip
<1>2. /\ stack \in Seq(Nodes) /\ n \in Nat \ {0} /\ Top \in Nodes /\ Top = stack[n]
      /\ Candidate \in Values /\ Candidate \in Candidates(Top)
  BY <1>1, TriedOne
<1>3. \A k \in 1..(n - 1) : /\ Tried(stack[k]) \in Values /\ Tried(stack[k]) \in Candidates(stack[k])
                            /\ stack[k + 1] \in Nodes /\ node_of_value[Tried(stack[k])] = stack[k + 1]
                            /\ value_of_node[stack[k + 1]] = Tried(stack[k])
  BY TriedIsHeld
<1>4. value_of_node[stack[1]] = FREE
  BY <1>1 DEF PathInvariant, StackIsPath, HasCandidate
<1>5. ASSUME NEW i \in Nodes, OnStack(i), i # Top
      PROVE  \E k \in 1..(n - 1) : stack[k] = i
  BY <1>2, <1>5 DEF OnStack
<1>6. ASSUME NEW i \in Nodes PROVE Candidates(i)' = Candidates(i)
  BY DEF Candidates, Flip
<1>7. ASSUME NEW i \in Nodes, ~OnStack(i), value_of_node[i] # FREE
      PROVE  node_of_value'[value_of_node[i]] = i
  <2> DEFINE v == value_of_node[i]
  <2>1. v \in Values /\ node_of_value[v] = i
    BY <1>7 DEF PathInvariant, TypeOK, MatchingConsistent
  <2>2. v # Candidate
    BY <1>1, <2>1 DEF Nodes, FREE
  <2>3. ASSUME NEW k \in 1..(n - 1), Tried(stack[k]) = v PROVE FALSE
    <3>1. stack[k + 1] = i
      BY <1>3, <2>1, <2>3
    <3>2. k + 1 \in 1..n
      BY <1>2
    <3> QED BY <1>2, <1>7, <3>1, <3>2 DEF OnStack
  <2> HIDE DEF v
  <2>4. node_of_value'[v] = node_of_value[v]
    BY <2>1, <2>2, <2>3, FlipValues
  <2> QED BY <2>1, <2>4 DEF v
<1>8. ASSUME NEW i \in Nodes, value_of_node'[i] # FREE
      PROVE  value_of_node'[i] \in Candidates(i)' /\ node_of_value'[value_of_node'[i]] = i
  <2>1. CASE i = Top
    BY <1>2, <1>6, <2>1, FlipValues
  <2>2. CASE i # Top /\ OnStack(i)
    <3>1. PICK k \in 1..(n - 1) : stack[k] = i
      BY <1>5, <2>2
    <3> QED BY <1>3, <1>6, <3>1, FlipValues
  <2>3. CASE ~OnStack(i)
    <3>1. value_of_node'[i] = value_of_node[i]
      BY <2>3, FlipValues
    <3>2. value_of_node[i] \in Candidates(i)
      BY <1>8, <3>1 DEF PathInvariant, MatchingConsistent
    <3>3. node_of_value'[value_of_node[i]] = i
      BY <1>7, <1>8, <2>3, <3>1
    <3> QED BY <1>6, <3>1, <3>2, <3>3
  <2> QED BY <2>1, <2>2, <2>3
<1>9. ASSUME NEW v \in Values, node_of_value'[v] # FREE
      PROVE  value_of_node'[node_of_value'[v]] = v
  <2>1. CASE v = Candidate
    BY <2>1, FlipValues
  <2>2. CASE \E k \in 1..(n - 1) : Tried(stack[k]) = v
    <3>1. PICK k \in 1..(n - 1) : Tried(stack[k]) = v
      BY <2>2
    <3> QED BY <3>1, FlipValues
  <2>3. CASE v # Candidate /\ \A k \in 1..(n - 1) : Tried(stack[k]) # v
    <3> DEFINE m == node_of_value[v]
    <3>1. node_of_value'[v] = m
      BY <2>3, FlipValues
    <3>2. m \in Nodes /\ value_of_node[m] = v
      BY <1>9, <3>1 DEF PathInvariant, TypeOK, MatchingConsistent
    <3>3. ~OnStack(m)
      <4>1. SUFFICES ASSUME NEW l \in 1..n, stack[l] = m PROVE FALSE
        BY <1>2 DEF OnStack
      <4>2. CASE l = 1
        BY <1>4, <3>2, <4>1, <4>2 DEF FREE, Values
      <4>3. CASE l # 1
        <5> DEFINE k == l - 1
        <5>1. k \in 1..(n - 1) /\ k + 1 = l
          BY <1>2, <4>3
        <5> HIDE DEF k
        <5>2. Tried(stack[k]) = v
          BY <1>3, <3>2, <4>1, <5>1
        <5> QED BY <2>3, <5>1, <5>2
      <4> QED BY <4>2, <4>3
    <3> QED BY <3>1, <3>2, <3>3, FlipValues
  <2> QED BY <2>1, <2>2, <2>3
<1>10. MatchingConsistent'
  BY <1>8, <1>9 DEF MatchingConsistent
<1>11. StackIsPath' /\ phase' # "yes"
  BY <1>1 DEF Flip, StackIsPath, HasCandidate
<1> QED BY <1>10, <1>11, FlipValues DEF PathInvariant

LEMMA NextPath == PathInvariant /\ [Next]_vars => PathInvariant'
<1> SUFFICES ASSUME PathInvariant, [Next]_vars PROVE PathInvariant'
  OBVIOUS
<1>1. CASE UNCHANGED vars
  BY <1>1, SMTT(30) DEF vars, PathInvariant, TypeOK, MatchingConsistent, StackIsPath, Candidates, Tried, Unmatched
<1>2. CASE Start \/ BeginPhase \/ LayerNode \/ EndLayers
  BY <1>2, LayeringSteps
<1>3. CASE NextRoot
  BY <1>3, NextRootStep
<1>4. CASE DeadEnd
  BY <1>4, DeadEndStep
<1>5. CASE Flip
  BY <1>5, FlipStep
<1>6. CASE Descend
  BY <1>6, DescendStep
<1>7. CASE Skip
  BY <1>7, SkipStep
<1>8. CASE Done
  BY <1>1, <1>8 DEF Done
<1> QED BY <1>1, <1>2, <1>3, <1>4, <1>5, <1>6, <1>7, <1>8 DEF Next

(***************************************************************************)
(* The path the augmentation follows is an alternating one and the two     *)
(* halves of the matching agree, whatever the candidate lists.             *)
(***************************************************************************)
THEOREM PathInvariantHolds == Spec => []PathInvariant
BY InitPath, NextPath, PTL DEF Spec

(***************************************************************************)
(* The two halves of the matching agree, and nodes hold their candidates.  *)
(***************************************************************************)
THEOREM MatchingConsistentHolds == Spec => []MatchingConsistent
<1>1. PathInvariant => MatchingConsistent
  BY DEF PathInvariant
<1> QED BY <1>1, PathInvariantHolds, PTL

(***************************************************************************)
(* Augmenting never leaves a node without a value that had one.            *)
(***************************************************************************)
THEOREM MatchedStayHolds == Spec => MatchedStay
<1>1. PathInvariant /\ [Next]_vars
        => [\A i \in Nodes : value_of_node[i] # FREE => value_of_node'[i] # FREE]_vars
  <2> SUFFICES ASSUME PathInvariant, Next, NEW i \in Nodes, value_of_node[i] # FREE PROVE value_of_node'[i] # FREE
    OBVIOUS
  <2>1. CASE Flip
    <3>1. Len(stack) \in Nat \ {0} /\ Top = stack[Len(stack)] /\ stack \in Seq(Nodes) /\ Candidate \in Values
      BY <2>1, TriedOne DEF Flip
    <3>2. CASE i = Top
      BY <2>1, <3>1, <3>2, FlipValues, SMTT(30) DEF Values, FREE
    <3>3. CASE i # Top /\ OnStack(i)
      <4>1. PICK k \in 1..(Len(stack) - 1) : stack[k] = i
        BY <3>1, <3>3 DEF OnStack
      <4> QED BY <2>1, <4>1, TriedIsHeld, FlipValues DEF Values, FREE
    <3>4. CASE ~OnStack(i)
      BY <2>1, <3>4, FlipValues
    <3> QED BY <3>2, <3>3, <3>4
  <2>2. CASE ~Flip
    BY <2>2 DEF Next, Start, BeginPhase, LayerNode, EndLayers, NextRoot, DeadEnd, Descend, Skip, Done, vars
  <2> QED BY <2>1, <2>2
<1> QED BY <1>1, PathInvariantHolds, PTL DEF Spec, MatchedStay

LEMMA PathYes == PathInvariant => YesRight
<1> SUFFICES ASSUME PathInvariant, phase = "yes", NEW i \in Nodes, NEW j \in Nodes
             PROVE  value_of_node[i] \in Candidates(i) /\ (i # j => value_of_node[i] # value_of_node[j])
  BY DEF YesRight
<1>1. value_of_node[i] # FREE /\ value_of_node[j] # FREE
  BY DEF PathInvariant, Unmatched
<1> QED BY <1>1 DEF PathInvariant, MatchingConsistent

(***************************************************************************)
(* When the answer is yes, the values found are a distinct assignment.     *)
(***************************************************************************)
THEOREM YesRightHolds == Spec => []YesRight
BY PathYes, PathInvariantHolds, PTL
-----------------------------------------------------------------------------
(* The answer.                                                             *)

LEMMA FiniteNodes == /\ IsFiniteSet(Nodes) /\ Cardinality(Nodes) = NodeCount
                     /\ IsFiniteSet(Values) /\ Cardinality(Values) = ValueCount
<1>1. 1 \in Int /\ NodeCount \in Int /\ ValueCount \in Int /\ NodeCount \in Nat /\ ValueCount \in Nat
  BY CountAssumption
<1>2. /\ IsFiniteSet(1..NodeCount) /\ Cardinality(1..NodeCount) = IF 1 > NodeCount THEN 0 ELSE NodeCount - 1 + 1
      /\ IsFiniteSet(1..ValueCount) /\ Cardinality(1..ValueCount) = IF 1 > ValueCount THEN 0 ELSE ValueCount - 1 + 1
  BY <1>1, FS_Interval
<1> QED BY <1>1, <1>2 DEF Nodes, Values

\* More nodes than values.
LEMMA TooManyNodes ==
  ASSUME NodeCount > ValueCount, NEW f \in [Nodes -> Values]
  PROVE  \E i, j \in Nodes : i # j /\ f[i] = f[j]
<1>1. Cardinality(Values) < Cardinality(Nodes)
  BY FiniteNodes, CountAssumption
<1> QED BY <1>1, FiniteNodes, FS_PigeonHole

\* The layers are complete, none of them reaches a free value, and a node has no value.
LEMMA NoFreeValue ==
  ASSUME PathInvariant, LayersClosed, phase = "layers", queue = {}, ~found, Unmatched # {},
         NEW f \in [Nodes -> Values], \A i \in Nodes : f[i] \in Candidates(i)
  PROVE  \E i, j \in Nodes : i # j /\ f[i] = f[j]
<1> DEFINE S == Layered
           T == Layered \ Unmatched
           g == [i \in S |-> node_of_value[f[i]]]
<1>1. S \subseteq Nodes /\ T \subseteq S /\ Unmatched \subseteq S
  BY DEF Layered, LayersClosed
<1>2. IsFiniteSet(S) /\ IsFiniteSet(T) /\ Cardinality(T) =< Cardinality(S) /\ (Cardinality(S) = Cardinality(T) => S = T)
  <2>1. IsFiniteSet(S)
    BY <1>1, FiniteNodes, FS_Subset
  <2> HIDE DEF S, T
  <2> QED BY <1>1, <2>1, FS_Subset
<1>3. Cardinality(S) \in Nat /\ Cardinality(T) \in Nat
  BY <1>2, FS_CardinalityType
<1>4. S # T
  BY <1>1
<1>5. Cardinality(T) < Cardinality(S)
  <2> HIDE DEF S, T
  <2> QED BY <1>2, <1>3, <1>4
<1>6. ASSUME NEW i \in S
      PROVE  /\ i \in Nodes /\ f[i] \in Values /\ node_of_value[f[i]] \in T
             /\ value_of_node[node_of_value[f[i]]] = f[i]
  <2>1. i \in Nodes /\ f[i] \in Values /\ f[i] \in Candidates(i)
    BY <1>1
  <2>2. node_of_value[f[i]] # FREE /\ node_of_value[f[i]] \in S
    BY <2>1 DEF LayersClosed
  <2>3. value_of_node[node_of_value[f[i]]] = f[i]
    BY <2>1, <2>2 DEF PathInvariant, MatchingConsistent
  <2>4. f[i] # FREE
    BY <2>1 DEF Values, FREE
  <2> QED BY <2>1, <2>2, <2>3, <2>4 DEF Unmatched
<1>7. g \in [S -> T]
  BY <1>6
<1>8. PICK i, j \in S : i # j /\ g[i] = g[j]
  <2> HIDE DEF S, T, g
  <2> QED BY <1>2, <1>5, <1>7, FS_PigeonHole
<1>9. node_of_value[f[i]] = node_of_value[f[j]]
  BY <1>8
<1>10. f[i] = f[j] /\ i \in Nodes /\ j \in Nodes
  BY <1>6, <1>9
<1> QED BY <1>8, <1>10

LEMMA AnswerStep ==
  ASSUME AnswerInvariant, Next
  PROVE  NoRight'
<1>1. UNCHANGED lists
  BY DEF Next, Start, BeginPhase, LayerNode, EndLayers, NextRoot, DeadEnd, Flip, Descend, Skip, Done, vars
<1>2. SUFFICES ASSUME phase' = "no", NEW f \in [Nodes -> Values], \A i \in Nodes : f[i] \in Candidates(i)
               PROVE  \E i, j \in Nodes : i # j /\ f[i] = f[j]
  BY Zenon, <1>1 DEF NoRight, Candidates
<1>3. CASE phase = "no"
  BY <1>2, <1>3 DEF AnswerInvariant, AnswerExact, NoRight
<1>4. CASE Start
  <2>1. NodeCount > ValueCount
    BY <1>2, <1>4 DEF Start
  <2> QED BY <2>1, TooManyNodes
<1>5. CASE EndLayers
  <2>1. phase = "layers" /\ queue = {} /\ ~found /\ Unmatched # {}
    BY <1>2, <1>5 DEF EndLayers
  <2> QED BY <1>2, <2>1, NoFreeValue DEF AnswerInvariant
<1>6. CASE phase # "no" /\ ~Start /\ ~EndLayers
  BY <1>2, <1>6 DEF Next, BeginPhase, LayerNode, NextRoot, DeadEnd, Flip, Descend, Skip, Done, vars, HasCandidate
<1> QED BY <1>3, <1>4, <1>5, <1>6

LEMMA ClosedStep ==
  ASSUME PathInvariant, LayersClosed, Next
  PROVE  LayersClosed'
<1>1. Unlayered = -1 /\ layer \in [Nodes -> Int] /\ \A i \in Nodes : layer[i] >= -1
  BY DEF Unlayered, PathInvariant, TypeOK, LayersClosed
<1>2. CASE BeginPhase
  <2>1. layer' = [i \in Nodes |-> IF i \in Unmatched THEN 0 ELSE -1] /\ queue' = Unmatched
    BY <1>1, <1>2 DEF BeginPhase
  <2>2. Unmatched' = Unmatched /\ Unmatched \subseteq Nodes
    BY <1>2 DEF BeginPhase, Unmatched
  <2>3. \A i \in Nodes : layer'[i] >= Unlayered /\ (layer'[i] # Unlayered <=> i \in Unmatched)
    BY <1>1, <2>1
  <2>4. Layered' = Unmatched
    BY <2>2, <2>3 DEF Layered
  <2> QED BY <2>1, <2>2, <2>3, <2>4 DEF LayersClosed
<1>3. CASE LayerNode
  <2>1. PICK i \in queue :
             LET holders == {node_of_value[lists[i][c]] : c \in DOMAIN lists[i]}
                 reached == {j \in holders \ {FREE} : layer[j] = Unlayered}
             IN /\ found' = (found \/ FREE \in holders)
                /\ layer' = [j \in Nodes |-> IF j \in reached THEN layer[i] + 1 ELSE layer[j]]
                /\ queue' = (queue \ {i}) \cup reached
    BY <1>3 DEF LayerNode
  <2> DEFINE holders == {node_of_value[lists[i][c]] : c \in DOMAIN lists[i]}
             reached == {j \in holders \ {FREE} : layer[j] = Unlayered}
  <2>2. /\ found' = (found \/ FREE \in holders)
        /\ layer' = [j \in Nodes |-> IF j \in reached THEN layer[i] + 1 ELSE layer[j]]
        /\ queue' = (queue \ {i}) \cup reached
    BY <2>1
  <2>3. /\ phase = "layers" /\ UNCHANGED <<lists, value_of_node, node_of_value, phase>>
        /\ queue \subseteq Layered /\ Unmatched \subseteq Layered /\ i \in Nodes /\ layer[i] # Unlayered
    BY <1>3 DEF LayerNode, LayersClosed, Layered
  <2>4. lists[i] \in Seq(Values) /\ \A c \in DOMAIN lists[i] : lists[i][c] \in Values
    BY <2>3 DEF PathInvariant, TypeOK
  <2>5. reached \subseteq Nodes
    BY <2>4 DEF PathInvariant, TypeOK
  <2>6. \A v \in Candidates(i) : node_of_value[v] \in holders
    BY DEF Candidates
  <2>7. layer[i] + 1 # -1 /\ layer[i] + 1 >= -1
    BY <1>1, <2>3
  <2> HIDE DEF holders, reached
  <2>8. \A j \in Nodes : layer'[j] >= Unlayered /\ (layer'[j] # Unlayered <=> j \in reached \/ layer[j] # Unlayered)
    BY <1>1, <2>2, <2>7
  <2>9. Layered' = Layered \cup reached
    BY <2>5, <2>8 DEF Layered
  <2>10. \A j \in holders \ {FREE} : j \in Nodes => j \in Layered'
    BY <2>9 DEF Layered, reached
  <2>11. Unmatched' = Unmatched /\ \A j \in Nodes : Candidates(j)' = Candidates(j)
    BY <2>3 DEF Unmatched, Candidates
  <2>12. ASSUME NEW j \in Layered' \ queue', NEW v \in Values, v \in Candidates(j)
         PROVE  IF node_of_value[v] = FREE THEN found' ELSE node_of_value[v] \in Layered'
    <3>1. j \in Layered /\ (j = i \/ j \notin queue)
      BY <2>2, <2>9, <2>12
    <3>2. node_of_value[v] \in Nodes \cup {FREE}
      BY DEF PathInvariant, TypeOK
    <3>3. CASE j = i
      BY Zenon, <2>2, <2>6, <2>10, <2>12, <3>2, <3>3
    <3>4. CASE j # i
      <4>1. IF node_of_value[v] = FREE THEN found ELSE node_of_value[v] \in Layered
        BY <2>3, <2>12, <3>1, <3>4 DEF LayersClosed
      <4> QED BY Zenon, <2>2, <2>9, <4>1
    <3> QED BY <3>3, <3>4
  <2>13. Layered' \subseteq Nodes
    BY DEF Layered
  <2> QED BY <2>2, <2>3, <2>8, <2>9, <2>11, <2>12, <2>13 DEF LayersClosed
<1>4. CASE ~BeginPhase /\ ~LayerNode
  <2>1. CASE Done
    BY <2>1 DEF Done, vars, LayersClosed, Layered, Unmatched, Candidates
  <2>2. CASE DeadEnd
    BY <1>1, <2>2 DEF DeadEnd, LayersClosed
  <2>3. CASE Flip
    BY <1>1, <2>3 DEF Flip, LayersClosed, HasCandidate
  <2>4. CASE Start \/ EndLayers \/ NextRoot \/ Descend \/ Skip
    BY <1>1, <2>4 DEF Start, EndLayers, NextRoot, Descend, Skip, LayersClosed, HasCandidate
  <2> QED BY <1>4, <2>1, <2>2, <2>3, <2>4 DEF Next
<1> QED BY <1>2, <1>3, <1>4

(***************************************************************************)
(* has_distinct_assignment answers yes exactly when pairwise different     *)
(* candidates exist.  The inductive invariant adds the path and the        *)
(* closure of the layers: the answer alone is not inductive.               *)
(***************************************************************************)
THEOREM AnswerExactHolds == Spec => []AnswerExact
<1>1. Init => AnswerInvariant
  <2> SUFFICES ASSUME Init PROVE AnswerInvariant
    OBVIOUS
  <2>1. LayersClosed /\ NoRight
    BY DEF Init, LayersClosed, NoRight, Unlayered
  <2> QED BY <2>1, InitPath, PathYes DEF AnswerInvariant, AnswerExact
<1>2. PathInvariant' => YesRight'
  BY PathYes, PTL
<1>3. AnswerInvariant /\ [Next]_vars => AnswerInvariant'
  <2> SUFFICES ASSUME AnswerInvariant, [Next]_vars PROVE AnswerInvariant'
    OBVIOUS
  <2>1. PathInvariant'
    BY NextPath DEF AnswerInvariant
  <2>2. YesRight'
    BY <1>2, <2>1
  <2>3. CASE Next
    BY <2>1, <2>2, <2>3, ClosedStep, AnswerStep DEF AnswerInvariant, AnswerExact
  <2>4. CASE UNCHANGED vars
    <3>1. LayersClosed'
      BY <2>4 DEF AnswerInvariant, LayersClosed, Layered, Unmatched, Candidates, vars
    <3>2. NoRight'
      <4>1. phase' = phase /\ \A i \in Nodes : Candidates(i)' = Candidates(i)
        BY <2>4 DEF vars, Candidates
      <4>2. NoRight
        BY DEF AnswerInvariant, AnswerExact
      <4> QED BY <4>1, <4>2, Zenon DEF NoRight
    <3> QED BY <2>1, <2>2, <3>1, <3>2 DEF AnswerInvariant, AnswerExact
  <2> QED BY <2>3, <2>4
<1>4. AnswerInvariant => AnswerExact
  BY DEF AnswerInvariant
<1> QED BY <1>1, <1>3, <1>4, PTL DEF Spec
=============================================================================
