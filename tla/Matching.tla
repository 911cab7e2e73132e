------------------------------ MODULE Matching ------------------------------
(***************************************************************************)
(* has_distinct_assignment (tableau/datatype_manager.rs): whether data     *)
(* nodes that must all differ can each take one of their candidate values, *)
(* decided by Hopcroft and Karp's matching.  A phase layers the nodes      *)
(* breadth first along alternating paths from the unmatched ones, then     *)
(* augments along disjoint paths, depth first with an explicit stack.      *)
(* Nodes and values are numbered from 1, 0 is FREE.                        *)
(***************************************************************************)
EXTENDS Integers, Sequences

CONSTANTS NodeCount, ValueCount,
          Lists     \* the candidate lists asked about

Nodes == 1..NodeCount
Values == 1..ValueCount
FREE == 0
Unlayered == -1

ASSUME CountAssumption == NodeCount \in Nat /\ ValueCount \in Nat
ASSUME ListsAssumption == Lists \subseteq [Nodes -> Seq(Values)]

VARIABLES
  lists,          \* node -> its candidates
  value_of_node, node_of_value,
  layer,          \* node -> its layer, or Unlayered
  queue,          \* the nodes whose candidates the layering has yet to look at
  found,          \* a free value was reached
  next_candidate, \* node -> the next place of its list to try
  root, stack,    \* the node the augmentation is at, its path
  phase

vars == <<lists, value_of_node, node_of_value, layer, queue, found, next_candidate, root, stack, phase>>

Unmatched == {i \in Nodes : value_of_node[i] = FREE}

Init ==
  /\ lists \in Lists
  /\ value_of_node = [i \in Nodes |-> FREE] /\ node_of_value = [v \in Values |-> FREE]
  /\ layer = [i \in Nodes |-> Unlayered] /\ queue = {} /\ found = FALSE
  /\ next_candidate = [i \in Nodes |-> 1] /\ root = 1 /\ stack = <<>>
  /\ phase = "start"

\* As many nodes as values refused as well.
StartStrict ==
  /\ phase = "start"
  /\ phase' = IF NodeCount >= ValueCount THEN "no" ELSE "phase"
  /\ UNCHANGED <<lists, value_of_node, node_of_value, layer, queue, found, next_candidate, root, stack>>

\* More nodes than values fail at once.
Start ==
  /\ phase = "start"
  /\ phase' = IF NodeCount > ValueCount THEN "no" ELSE "phase"
  /\ UNCHANGED <<lists, value_of_node, node_of_value, layer, queue, found, next_candidate, root, stack>>

BeginPhase ==
  /\ phase = "phase" /\ phase' = "layers"
  /\ layer' = [i \in Nodes |-> IF i \in Unmatched THEN 0 ELSE Unlayered]
  /\ queue' = Unmatched /\ found' = FALSE
  /\ UNCHANGED <<lists, value_of_node, node_of_value, next_candidate, root, stack>>

\* The queue is first in, first out: the lowest layer first, any order in it.
LayerNode ==
  /\ phase = "layers"
  /\ \E i \in queue :
       /\ \A j \in queue : layer[i] =< layer[j]
       /\ LET holders == {node_of_value[lists[i][c]] : c \in DOMAIN lists[i]}
              reached == {j \in holders \ {FREE} : layer[j] = Unlayered}
          IN /\ found' = (found \/ FREE \in holders)
             /\ layer' = [j \in Nodes |-> IF j \in reached THEN layer[i] + 1 ELSE layer[j]]
             /\ queue' = (queue \ {i}) \cup reached
  /\ UNCHANGED <<lists, value_of_node, node_of_value, next_candidate, root, stack, phase>>

EndLayers ==
  /\ phase = "layers" /\ queue = {}
  /\ phase' = IF found THEN "augment" ELSE IF Unmatched = {} THEN "yes" ELSE "no"
  /\ next_candidate' = [i \in Nodes |-> 1] /\ root' = 1
  /\ UNCHANGED <<lists, value_of_node, node_of_value, layer, queue, found, stack>>

\* The next root; past the last, the next phase.
NextRoot ==
  /\ phase = "augment" /\ stack = <<>>
  /\ IF root > NodeCount THEN phase' = "phase" /\ UNCHANGED <<root, stack>>
     ELSE /\ root' = root + 1
          /\ stack' = IF value_of_node[root] = FREE THEN <<root>> ELSE <<>>
          /\ UNCHANGED phase
  /\ UNCHANGED <<lists, value_of_node, node_of_value, layer, queue, found, next_candidate>>

Top == stack[Len(stack)]
Tried(i) == lists[i][next_candidate[i] - 1]
OnStack(i) == \E k \in DOMAIN stack : stack[k] = i

DeadEnd ==
  /\ phase = "augment" /\ stack # <<>> /\ next_candidate[Top] > Len(lists[Top])
  /\ layer' = [layer EXCEPT ![Top] = Unlayered]
  /\ stack' = SubSeq(stack, 1, Len(stack) - 1)
  /\ UNCHANGED <<lists, value_of_node, node_of_value, queue, found, next_candidate, root, phase>>

Candidate == lists[Top][next_candidate[Top]]
HasCandidate == phase = "augment" /\ stack # <<>> /\ next_candidate[Top] =< Len(lists[Top])
Advance == next_candidate' = [next_candidate EXCEPT ![Top] = @ + 1]

\* The other nodes of the path give their values up.
FlipDropping ==
  /\ HasCandidate /\ node_of_value[Candidate] = FREE /\ Advance
  /\ value_of_node' = [i \in Nodes |-> IF i = Top THEN Candidate ELSE IF OnStack(i) THEN FREE ELSE value_of_node[i]]
  /\ node_of_value' = [v \in Values |-> IF v = Candidate THEN Top
                                        ELSE IF node_of_value[v] # FREE /\ OnStack(node_of_value[v]) THEN FREE
                                        ELSE node_of_value[v]]
  /\ layer' = [i \in Nodes |-> IF OnStack(i) THEN Unlayered ELSE layer[i]]
  /\ stack' = <<>>
  /\ UNCHANGED <<lists, queue, found, root, phase>>

\* A free value: every node of the path takes the value it tried last.
Flip ==
  /\ HasCandidate /\ node_of_value[Candidate] = FREE /\ Advance
  /\ value_of_node' = [i \in Nodes |-> IF i = Top THEN Candidate ELSE IF OnStack(i) THEN Tried(i) ELSE value_of_node[i]]
  /\ node_of_value' = [v \in Values |-> IF v = Candidate THEN Top
                                        ELSE IF \E k \in 1..(Len(stack) - 1) : Tried(stack[k]) = v
                                        THEN stack[CHOOSE k \in 1..(Len(stack) - 1) : Tried(stack[k]) = v]
                                        ELSE node_of_value[v]]
  /\ layer' = [i \in Nodes |-> IF OnStack(i) THEN Unlayered ELSE layer[i]]
  /\ stack' = <<>>
  /\ UNCHANGED <<lists, queue, found, root, phase>>

Follows(j) == layer[j] # Unlayered /\ layer[j] = layer[Top] + 1

Descend ==
  /\ HasCandidate /\ node_of_value[Candidate] # FREE /\ Advance
  /\ Follows(node_of_value[Candidate])
  /\ stack' = Append(stack, node_of_value[Candidate])
  /\ UNCHANGED <<lists, value_of_node, node_of_value, layer, queue, found, root, phase>>

Skip ==
  /\ HasCandidate /\ node_of_value[Candidate] # FREE /\ Advance
  /\ ~Follows(node_of_value[Candidate])
  /\ UNCHANGED <<lists, value_of_node, node_of_value, layer, queue, found, root, stack, phase>>

Done == phase \in {"yes", "no"} /\ UNCHANGED vars

Next == \/ Start \/ BeginPhase \/ LayerNode \/ EndLayers \/ NextRoot
        \/ DeadEnd \/ Flip \/ Descend \/ Skip \/ Done

Spec == Init /\ [][Next]_vars

(***************************************************************************)
(* The answer is right: yes exactly when the nodes have pairwise different *)
(* values from their lists, and then value_of_node holds such values.      *)
(***************************************************************************)
Candidates(i) == {lists[i][c] : c \in DOMAIN lists[i]}
YesRight == phase = "yes" => \A i, j \in Nodes : /\ value_of_node[i] \in Candidates(i)
                                                 /\ i # j => value_of_node[i] # value_of_node[j]
NoRight == phase = "no" => ~\E f \in [Nodes -> Values] : /\ \A i \in Nodes : f[i] \in Candidates(i)
                                                         /\ \A i, j \in Nodes : i # j => f[i] # f[j]
AnswerExact == YesRight /\ NoRight

(***************************************************************************)
(* Whenever the matching is looked at, its two halves agree, and a node    *)
(* only holds one of its candidates.                                       *)
(***************************************************************************)
MatchingConsistent ==
  /\ \A i \in Nodes : value_of_node[i] # FREE =>
       value_of_node[i] \in Candidates(i) /\ node_of_value[value_of_node[i]] = i
  /\ \A v \in Values : node_of_value[v] # FREE => value_of_node[node_of_value[v]] = v

(***************************************************************************)
(* The stack is an alternating path: it starts at a node without a value,  *)
(* no node is on it twice, because their layers ascend, and the value a    *)
(* node tried is the one the node above it holds.                          *)
(***************************************************************************)
TypeOK ==
  /\ lists \in [Nodes -> Seq(Values)]
  /\ value_of_node \in [Nodes -> Values \cup {FREE}] /\ node_of_value \in [Values -> Nodes \cup {FREE}]
  /\ layer \in [Nodes -> Int] /\ queue \in SUBSET Nodes /\ found \in BOOLEAN
  /\ next_candidate \in [Nodes -> Nat \ {0}] /\ root \in Nat \ {0} /\ stack \in Seq(Nodes)
  /\ phase \in {"start", "phase", "layers", "augment", "yes", "no"}

StackIsPath ==
  /\ stack # <<>> => phase = "augment" /\ value_of_node[stack[1]] = FREE
  /\ \A k \in 1..Len(stack) : layer[stack[k]] = layer[stack[1]] + k - 1
  /\ \A k \in 1..(Len(stack) - 1) :
       /\ next_candidate[stack[k]] - 1 \in 1..Len(lists[stack[k]])
       /\ node_of_value[Tried(stack[k])] = stack[k + 1]

PathInvariant == /\ TypeOK /\ MatchingConsistent /\ StackIsPath
                 /\ phase = "yes" => Unmatched = {}

(***************************************************************************)
(* The layering misses nothing: every node without a value is layered, and *)
(* what a layered node could take from another node leads to a layer, once *)
(* the node has left the queue.  With it the answers are right.            *)
(***************************************************************************)
Layered == {i \in Nodes : layer[i] # Unlayered}
LayersClosed ==
  /\ \A i \in Nodes : layer[i] >= Unlayered
  /\ phase = "layers" =>
       /\ Unmatched \subseteq Layered /\ queue \subseteq Layered
       /\ \A i \in Layered \ queue, v \in Values :
            v \in Candidates(i) => IF node_of_value[v] = FREE THEN found ELSE node_of_value[v] \in Layered

AnswerInvariant == PathInvariant /\ LayersClosed /\ AnswerExact

(***************************************************************************)
(* A node that has a value keeps one: augmenting moves it to another value *)
(* and never leaves it without.                                            *)
(***************************************************************************)
MatchedStay == [][\A i \in Nodes : value_of_node[i] # FREE => value_of_node'[i] # FREE]_vars

=============================================================================
