----------------------------- MODULE MCTableau -----------------------------
(***************************************************************************)
(* The data structures and checks of one tableau.  A behaviour runs one of *)
(* seven components, chosen in the initial state: the dependency set       *)
(* factory, the nodes, the blocking strategies, the validation of blocks   *)
(* on a given tableau, the description graphs, the datatype check, and the *)
(* matching it decides cliques with.  The variables of the other           *)
(* components stay at Unused, the factory and the matching in an initial   *)
(* state.                                                                  *)
(***************************************************************************)
EXTENDS DependencySets, Matching, SequencesExt, TLC

VARIABLES component,
          t,                                \* the nodes, blocked nodes or graph tuples
          step, tests,                      \* Blocking
          clause, valid,                    \* validation
          levels, stage, merges, clears,    \* DescriptionGraphs; stage is the phase of DataAssignments too
          p, conflict, edges, assigned, members, adjacency, alive, left, order, chosen, next  \* DataAssignments
tableauVars == <<t, step, tests, clause, valid, levels, stage, merges, clears>>
dataVars == <<p, conflict, edges, assigned, members, adjacency, alive, left, order, chosen, next>>

Unused == 0

-----------------------------------------------------------------------------
(* Nodes: merging under an at-most restriction, nominal introduction, and  *)
(* the two ways of reusing individuals.                                    *)

Merged == INSTANCE Nodes WITH Named <- 2, Card <- 1, Reuse <- "none", Leaf <- TRUE, MaxDepth <- 2, MaxLevel <- 4
Nominals == INSTANCE Nodes WITH Named <- 2, Card <- 2, Reuse <- "none", Leaf <- FALSE, MaxDepth <- 2, MaxLevel <- 4
Reused == INSTANCE Nodes WITH Named <- 2, Card <- 1, Reuse <- "nondeterministic", Leaf <- FALSE,
                              MaxDepth <- 3, MaxLevel <- 5
ReusedEL == INSTANCE Nodes WITH Named <- 2, Card <- 2, Reuse <- "deterministic", Leaf <- TRUE,
                                MaxDepth <- 3, MaxLevel <- 5

-----------------------------------------------------------------------------
(* Blocking: one existential that repeats its own filler.                  *)

V == INSTANCE BlockingValidator
ExistsA == V!AtLeast(1, "r", FALSE, "A")
Y1 == <<"Y", 1>>
Y2 == <<"Y", 2>>
\* The successors of a B are Cs.
Downwards == [body |-> <<V!ConceptAtom("B", Y1), V!RoleAtom("r", Y1, V!X)>>, head |-> <<V!ConceptAtom("C", V!X)>>]

Single == INSTANCE Blocking WITH phase <- step, Kind <- "anywhere", Direct <- "single", Inverses <- FALSE, Start <- "A",
    Derived <- {"B"}, Existentials <- {ExistsA}, BackRoles <- {}, Clauses <- << >>, Merging <- TRUE,
    MaxNodes <- 4, MaxLevel <- 1, MaxTests <- 1, MaxConcepts <- 9
Signatures == INSTANCE Blocking WITH phase <- step, Kind <- "anywhere", Direct <- "single", Inverses <- FALSE, Start <- "A",
    Derived <- {"B"}, Existentials <- {ExistsA}, BackRoles <- {}, Clauses <- << >>, Merging <- TRUE,
    MaxNodes <- 3, MaxLevel <- 0, MaxTests <- 2, MaxConcepts <- 8
Pairwise == INSTANCE Blocking WITH phase <- step, Kind <- "anywhere", Direct <- "pairwise", Inverses <- TRUE, Start <- "A",
    Derived <- {"B"}, Existentials <- {ExistsA}, BackRoles <- {"s"}, Clauses <- << >>, Merging <- FALSE,
    MaxNodes <- 4, MaxLevel <- 1, MaxTests <- 1, MaxConcepts <- 8
Ancestor == INSTANCE Blocking WITH phase <- step, Kind <- "ancestor", Direct <- "pairwise", Inverses <- TRUE, Start <- "A",
    Derived <- {"B"}, Existentials <- {ExistsA}, BackRoles <- {}, Clauses <- << >>, Merging <- TRUE,
    MaxNodes <- 4, MaxLevel <- 1, MaxTests <- 1, MaxConcepts <- 8
Core == INSTANCE Blocking WITH phase <- step, Kind <- "validated", Direct <- "single", Inverses <- FALSE, Start <- "A",
    Derived <- {"B", "C"}, Existentials <- {ExistsA}, BackRoles <- {}, Clauses <- <<Downwards>>, Merging <- FALSE,
    MaxNodes <- 4, MaxLevel <- 1, MaxTests <- 1, MaxConcepts <- 6

-----------------------------------------------------------------------------
(* Validation, on every saturated tableau of a bounded shape: a tree node  *)
(* 1 (its own parent is left out), its child 2 (the blocker), 3 a child of *)
(* 2, 4 a child of 1.                                                      *)

Parent == <<0, 1, 2, 1>>
Blocks == {<<0, 0, 0, 2>>, <<0, 0, 2, 0>>, <<0, 0, 2, 2>>}
Edges == {{"r"}, {"r", "s"}}
Restrictions == {{}, {V!AtLeast(1, "r", TRUE, "A")}, {V!AtLeast(1, "r", FALSE, "B")}}

AllValues == [body |-> <<V!ConceptAtom("A", V!X), V!RoleAtom("r", V!X, Y1)>>, head |-> <<V!ConceptAtom("B", Y1)>>]
AllInverse == [body |-> <<V!ConceptAtom("A", V!X), V!RoleAtom("r", Y1, V!X)>>, head |-> <<V!ConceptAtom("B", Y1)>>]
AtMostOne == [body |-> <<V!RoleAtom("r", V!X, Y1), V!ConceptAtom("A", Y1), V!RoleAtom("r", V!X, Y2), V!ConceptAtom("A", Y2)>>,
              head |-> <<V!EqualityAtom(Y1, Y2)>>]
SubRole == [body |-> <<V!ConceptAtom("A", V!X), V!RoleAtom("r", Y1, V!X), V!ConceptAtom("B", Y1)>>,
            head |-> <<V!RoleAtom("s", Y1, V!X)>>]
\* Two neighbours of the centre: its parent, and a successor whose label depends on the parent's.
Through == [body |-> <<V!RoleAtom("r", Y1, V!X), V!ConceptAtom("B", Y1), V!RoleAtom("r", V!X, Y2)>>,
            head |-> <<V!ConceptAtom("A", Y2)>>]

EdgeSeq(e12, e23, e14) == SetToSeq({<<r, 1, 2>> : r \in e12}) \o SetToSeq({<<r, 2, 3>> : r \in e23})
                          \o SetToSeq({<<r, 1, 4>> : r \in e14})
Tableau(c, ex, roles, bl) ==
    [n |-> 4, parent |-> Parent, concepts |-> c, atleast |-> [x \in 1 .. 4 |-> IF x = 2 THEN ex ELSE {}],
     roles |-> roles, blocker |-> bl, violates |-> [x \in 1 .. 4 |-> FALSE],
     checked |-> [x \in 1 .. 4 |-> FALSE], unbreakable |-> FALSE]
Unblocked(s) == [s EXCEPT !.blocker = [x \in 1 .. 4 |-> 0]]

\* The Hyp-rule is saturated and the existentials of unblocked nodes are
\* expanded before blocks are validated.
Saturated(s, cl) == /\ \A x \in 1 .. 4 : V!ClauseHoldsAround(Unblocked(s), cl, x)
                    /\ \A a \in s.atleast[2] : V!AtLeastHoldsAround(Unblocked(s), a, 2)

InitValidation ==
    /\ clause \in {AllValues, AllInverse, SubRole, AtMostOne, Through}
    /\ \E c \in [1 .. 4 -> SUBSET {"A", "B"}], e12 \in Edges, e14 \in Edges, ex \in Restrictions, bl \in Blocks :
          /\ clause \in {SubRole, Through} => ex = {}
          /\ clause # SubRole => e14 = {"r"}
          /\ t = Tableau(c, ex, EdgeSeq(e12, {"r"}, e14), bl)
    /\ Saturated(t, clause)
    /\ valid = << >>

\* validate_blocks on the blocked nodes in creation order.
Blocked == SelectSeq(<<1, 2, 3, 4>>, LAMBDA x : V!IsBlocked(t, x))
Validate == /\ Len(valid) < Len(Blocked)
            /\ LET r == V!IsBlockValid(t, V!ValidatorClauses(<<clause>>), Blocked[Len(valid) + 1])
               IN  t' = r.t /\ valid' = Append(valid, r.valid)
            /\ UNCHANGED clause

-----------------------------------------------------------------------------
(* Description graphs: one graph, cleared once, and a triangle; older      *)
(* nodes have more concepts, up to some node.                              *)

Pair == INSTANCE DescriptionGraphs WITH Vertices <- <<2>>, Roots <- {1, 2}, Nodes <- 1 .. 4,
    Weights <- {{}, 1 .. 2, 1 .. 4}, MaxMerges <- 1, MaxLevels <- 1, MaxClears <- 1
Triangle == INSTANCE DescriptionGraphs WITH Vertices <- <<3>>, Roots <- {1, 2}, Nodes <- 1 .. 6,
    Weights <- {{}} \cup {1 .. k : k \in 1 .. 6}, MaxMerges <- 1, MaxLevels <- 0, MaxClears <- 0

-----------------------------------------------------------------------------
(* The datatype check on problems of three and four data nodes, and the    *)
(* matching on candidate lists of three nodes.  Values 1 and 2 are of type *)
(* bool, 3 and 4 of type byte, which is part of int, 3 to 5; 6 is in none  *)
(* of them.                                                                *)

\* Lists without repetition, ascending and descending.
Short == {<<>>, <<1>>, <<2>>, <<3>>, <<1, 2>>, <<2, 1>>, <<1, 3>>, <<3, 2>>, <<2, 3>>, <<1, 2, 3>>, <<3, 2, 1>>}
ThreeLists == [Nodes -> Short]

RangeNames == {"bool", "true", "byte", "int", "one", "some", "bad"}
RangeContents == [r \in RangeNames |->
  CASE r = "bool" -> {1, 2} [] r = "true" -> {1} [] r = "byte" -> {3, 4} [] r = "int" -> 3..5
    [] r = "one" -> {2, 3} [] r = "some" -> {1, 2, 3} [] r = "bad" -> {}]
RangeDatatype == [r \in RangeNames |->
  CASE r \in {"bool", "true"} -> "bool" [] r = "byte" -> "byte" [] r \in {"int", "bad"} -> "int" [] OTHER -> "none"]
DatatypeSpace == [bool |-> {1, 2}, byte |-> {3, 4}, int |-> 3..5]

NoValue == 0
IllValue == -1
Ascending(n) == {e \in (1..n) \X (1..n) : e[1] < e[2]}
Problem(fixed, ranges, inequalities, dp, ndp) ==
  [fixed |-> fixed, ranges |-> ranges, inequalities |-> inequalities, dp |-> dp, ndp |-> ndp]

\* Four nodes, one of them perhaps a constant: pairwise unequal, all but two
\* of them, in a ring, or three of them with one more next to the last.
FourProblems ==
  {Problem([n \in 1..4 |-> IF n = 4 THEN last[1] ELSE NoValue], [n \in 1..4 |-> IF n = 4 THEN last[2] ELSE r[n]], e, {}, {}) :
     r \in [1..3 -> {<<"bool">>, <<"true">>, <<"some">>}],
     last \in {<<NoValue, <<>>>>, <<NoValue, <<"bool">>>>, <<2, <<"bool">>>>},
     e \in {x \in SUBSET Ascending(4) : Cardinality(x) >= 5}
           \cup {{<<1, 2>>, <<2, 3>>, <<3, 4>>, <<1, 4>>}, {<<1, 2>>, <<1, 3>>, <<2, 3>>, <<3, 4>>}}}

\* Three nodes with several ranges, constants, and a data property asserted and negated.
NodeOptions ==
  {<<NoValue, q>> : q \in {<<>>, <<"bool">>, <<"true", "some">>, <<"int", "byte", "one">>,
                          <<"int", "bool">>, <<"bad">>, <<"true", "one", "int">>}}
  \cup {<<3, <<"some", "int">>>>, <<1, <<"int">>>>, <<IllValue, <<"bool">>>>}
ThreeProblems ==
  {Problem([n \in 1..3 |-> o[n][1]], [n \in 1..3 |-> o[n][2]], a[1], a[2], a[3]) :
     o \in [1..3 -> NodeOptions],
     a \in {<<Ascending(3), {}, {}>>, <<{<<1, 2>>}, {1, 2}, {3}>>, <<{<<1, 2>>, <<2, 3>>}, {1, 2}, {2}>>}}

Four == INSTANCE DataAssignments WITH
          phase <- stage, clash <- conflict, component <- members, Values <- 1..6,
          NodeCount <- 4, Ranges <- RangeNames, Contents <- RangeContents,
          Unsupported <- {"bad"}, Datatype <- RangeDatatype, Space <- DatatypeSpace,
          Listable <- {"bool", "byte", "int"}, MaxEnumeratedValues <- 1, Problems <- FourProblems
Three == INSTANCE DataAssignments WITH
           phase <- stage, clash <- conflict, component <- members, Values <- 1..6,
           NodeCount <- 3, Ranges <- RangeNames, Contents <- RangeContents,
           Unsupported <- {"bad"}, Datatype <- RangeDatatype, Space <- DatatypeSpace,
           Listable <- {"bool", "byte", "int"}, MaxEnumeratedValues <- 1, Problems <- ThreeProblems

-----------------------------------------------------------------------------
(* One component at a time.                                                *)

NoTableau == t = Unused
NoBlocking == step = Unused /\ tests = Unused
NoValidation == clause = Unused /\ valid = Unused
NoGraphs == levels = Unused /\ merges = Unused /\ clears = Unused
NoStage == stage = Unused
NoData == /\ p = Unused /\ conflict = Unused /\ edges = Unused /\ assigned = Unused /\ members = Unused
          /\ adjacency = Unused /\ alive = Unused /\ left = Unused /\ order = Unused /\ chosen = Unused /\ next = Unused
MatchingIdle == Init /\ lists = [i \in Nodes |-> <<>>]

InitFactory == component = "factory" /\ NoTableau /\ NoBlocking /\ NoValidation /\ NoGraphs /\ NoStage /\ NoData
InitNodes == /\ \/ component = "merged" /\ Merged!Init
                \/ component = "nominals" /\ Nominals!Init
                \/ component = "reused" /\ Reused!Init
                \/ component = "reused EL" /\ ReusedEL!Init
             /\ NoBlocking /\ NoValidation /\ NoGraphs /\ NoStage /\ NoData
InitBlocking == /\ \/ component = "single" /\ Single!Init
                   \/ component = "signatures" /\ Signatures!Init
                   \/ component = "pairwise" /\ Pairwise!Init
                   \/ component = "ancestor" /\ Ancestor!Init
                   \/ component = "core" /\ Core!Init
                /\ NoValidation /\ NoGraphs /\ NoStage /\ NoData
InitBlocks == component = "validation" /\ InitValidation /\ NoBlocking /\ NoGraphs /\ NoStage /\ NoData
InitGraphs == /\ \/ component = "pair" /\ Pair!Init
                 \/ component = "triangle" /\ Triangle!Init
              /\ NoBlocking /\ NoValidation /\ NoData
InitData == /\ \/ component = "three" /\ Three!Init
               \/ component = "four" /\ Four!Init
            /\ NoTableau /\ NoBlocking /\ NoValidation /\ NoGraphs

SuiteInit ==
    \/ DepInit /\ MatchingIdle /\ (InitFactory \/ InitNodes \/ InitBlocking \/ InitBlocks \/ InitGraphs \/ InitData)
    \/ /\ component = "matching" /\ Init /\ DepInit
       /\ NoTableau /\ NoBlocking /\ NoValidation /\ NoGraphs /\ NoStage /\ NoData

NextFactory == component = "factory" /\ DepNext /\ UNCHANGED <<tableauVars, dataVars, vars>>
NextNodes == /\ \/ component = "merged" /\ Merged!Next
                \/ component = "nominals" /\ Nominals!Next
                \/ component = "reused" /\ Reused!Next
                \/ component = "reused EL" /\ ReusedEL!Next
             /\ UNCHANGED <<depVars, step, tests, clause, valid, levels, stage, merges, clears, dataVars, vars>>
NextBlocking == /\ \/ component = "single" /\ Single!Next
                   \/ component = "signatures" /\ Signatures!Next
                   \/ component = "pairwise" /\ Pairwise!Next
                   \/ component = "ancestor" /\ Ancestor!Next
                   \/ component = "core" /\ Core!Next
                /\ UNCHANGED <<depVars, clause, valid, levels, stage, merges, clears, dataVars, vars>>
NextValidation == component = "validation" /\ Validate
                  /\ UNCHANGED <<depVars, step, tests, levels, stage, merges, clears, dataVars, vars>>
NextGraphs == /\ \/ component = "pair" /\ Pair!Next
                 \/ component = "triangle" /\ Triangle!Next
              /\ UNCHANGED <<depVars, step, tests, clause, valid, dataVars, vars>>
NextData == /\ \/ component = "three" /\ Three!Next
               \/ component = "four" /\ Four!Next
            /\ UNCHANGED <<depVars, t, step, tests, clause, valid, levels, merges, clears, vars>>
NextMatching == component = "matching" /\ Next /\ UNCHANGED <<depVars, tableauVars, dataVars>>

SuiteNext == /\ \/ NextFactory \/ NextNodes \/ NextBlocking \/ NextValidation
                \/ NextGraphs \/ NextData \/ NextMatching
             /\ UNCHANGED component
SuiteSpec == SuiteInit /\ [][SuiteNext]_<<component, depVars, tableauVars, dataVars, vars>>

-----------------------------------------------------------------------------

\* Whatever is created, merged, pruned, reused and undone: no tuple, list or
\* table names a freed node, merging moves every assertion to the node it merges
\* into, and no merge is asked for that choose_merge_direction panics on.
NodesSafe ==
    /\ component = "merged" => /\ Merged!NoDanglingNode /\ Merged!MergeSupported
                               /\ Merged!ActiveParents /\ Merged!MergeKeepsAssertions
    /\ component = "nominals" => Nominals!ChoiceRemains /\ Nominals!DependenciesLive /\ Nominals!MergeSupported
    /\ component = "reused" => Reused!NoDanglingNode
    /\ component = "reused EL" => ReusedEL!NoDanglingNode /\ ReusedEL!MergeKeepsAssertions

\* backtrack_to leaves the nodes, lists and tables as they were when the
\* branching point was pushed.
BacktrackRestores ==
    /\ component = "merged" => Merged!BacktrackRestores
    /\ component = "reused" => Reused!BacktrackRestores

Accepted == Len(valid) = Len(Blocked) /\ \A n \in DOMAIN valid : valid[n]

\* match_blocked_y takes a second neighbour among the successors of the blocker
\* and reads its own label, also where it is blocked itself.
SecondNeighbour(x) == LET info == V!DLClauseInfo(clause)
                      IN  V!IsBlocked(t, x) /\ V!ParentMatches(t, info, x) # {} /\ Len(info.y_constraints) > 1
LabelsAsUnravelled(x) == \A y \in V!Neighbours(t, V!Unravelled(t, x)) : t.concepts[y] = t.concepts[V!Unravelled(t, y)]

\* Under single blocking, and under ancestor blocking, every block of a model is
\* one the strategy would make now, from signatures that are fresh, and no
\* blocker is a node that is gone or blocked itself.  Under pairwise anywhere
\* blocking this is claimed of the node's own label and edges only: a block is
\* kept when the label of a parent has changed since, although the strategy asks
\* for equal labels of the parents.  When expansion ends, every existential of an
\* unblocked node is satisfied, none is left behind the cursor, and the blocks of
\* core blocking are valid.  When the validator accepts every block, each clause
\* and each at-least restriction holds around each node of the model obtained by
\* unravelling the blocks, except that a clause which reaches, from a blocked
\* node, its parent and a second neighbour is claimed only where the neighbours
\* of the blocker that are blocked themselves have the labels of their blockers;
\* and a block the validator rejects can always be broken (the debug_assert at
\* the end of check_nonblocked_matched is not reached).
BlockingFaithful ==
    /\ component = "single" => /\ Single!BlocksMatch /\ Single!CachesFresh /\ Single!NoGhostBlocker
                               /\ Single!BlockersDistinct
    /\ component = "signatures" => Signatures!BlocksMatch
    /\ component = "pairwise" => Pairwise!CachesFresh /\ Pairwise!OwnSignatureMatches
    /\ component = "ancestor" => Ancestor!BlocksMatch
    /\ component = "single" => Single!NoWorkBeforeCursor /\ Single!ModelExpanded
    /\ component = "ancestor" => Ancestor!NoWorkBeforeCursor
    /\ component = "core" => Core!NoWorkBeforeCursor /\ Core!ModelBlocksValid /\ Core!ModelExpanded
    /\ component = "validation" =>
        /\ Accepted => /\ \A x \in 1 .. 4 : (SecondNeighbour(x) => LabelsAsUnravelled(x))
                                             => V!ClauseHoldsAround(t, clause, x)
                       /\ \A x \in 1 .. 4 : \A a \in t.atleast[V!Unravelled(t, x)] : V!AtLeastHoldsAround(t, a, x)
        /\ ~t.unbreakable

\* The occurrence lists of the description graphs say exactly where each node
\* stands in the graph tuples, through merges, backtracking and clearing.
OccurrencesExact ==
    /\ component = "pair" => Pair!OccurrencesExact
    /\ component = "triangle" => Triangle!OccurrencesExact /\ Triangle!Rigid

(***************************************************************************)
(* A check that ends without a clash has values for all data nodes that    *)
(* satisfy every assertion, whichever of its decision procedures decided;  *)
(* and the assertions a clash names have no solution by themselves, so     *)
(* that backtracking may jump over every choice none of them depends on.   *)
(***************************************************************************)
DatatypeCheckExact == /\ component = "three" => Three!NoClashMissed /\ Three!ClashJustified
                      /\ component = "four" => Four!NoClashMissed /\ Four!ClashJustified
=============================================================================
