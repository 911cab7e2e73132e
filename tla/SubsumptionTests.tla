-------------------------- MODULE SubsumptionTests --------------------------
(***************************************************************************)
(* What the per-test tableau promises its callers: a test is answered      *)
(* `subsumed' exactly when its facts have no model together with the       *)
(* ontology, whatever was tested before; a test that was interrupted is    *)
(* answered `subsumed' whatever the truth (reasoner.rs: "an interrupt is   *)
(* treated as no model").                                                  *)
(***************************************************************************)
CONSTANTS
    Inputs,            \* ontologies
    Tests,             \* tests a caller may ask for
    Subsumed(_, _)     \* no model of the ontology satisfies the test's facts

VARIABLES
    input,             \* the ontology
    asked,             \* {} or {the test being run}
    answer             \* {} or {the answer to the last test}

AbstractInit == input \in Inputs /\ asked = {} /\ answer = {}

Ask(t) ==
    /\ asked = {}
    /\ asked' = {t}
    /\ answer' = {}
    /\ UNCHANGED input

Reply ==
    \E t \in asked :
        /\ asked' = {}
        /\ answer' = {[subsumed |-> Subsumed(input, t), interrupted |-> FALSE]}
        /\ UNCHANGED input

ReplyInterrupted ==
    /\ asked # {}
    /\ asked' = {}
    /\ answer' = {[subsumed |-> TRUE, interrupted |-> TRUE]}
    /\ UNCHANGED input

AbstractNext == (\E t \in Tests : Ask(t)) \/ Reply \/ ReplyInterrupted

AbstractSpec == AbstractInit /\ [][AbstractNext]_<<input, asked, answer>>
=============================================================================
