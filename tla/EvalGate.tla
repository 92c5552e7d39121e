------------------------------ MODULE EvalGate ------------------------------
(***************************************************************************)
(* The release gate of src/harness/eval_gate.py: deterministic checks come *)
(* first, and then a judge scores the candidate by the dimensions of a     *)
(* rubric: one model that is asked for all of them in one JSON object, or  *)
(* an evaluator of AgentCore for each (src/harness/agentcore.py).          *)
(***************************************************************************)
EXTENDS Integers, FiniteSets, Folds, Functions

CONSTANTS
    Dimensions,    \* of the rubric; or the evaluators
    Values,        \* the numbers a judge may give, also those it may not
    Threshold,     \* threshold
    MinDimension   \* min_dimension

ASSUME EvalAssumption ==
    /\ IsFiniteSet(Dimensions)
    /\ Values \subseteq Int
    /\ Threshold \in 0 .. 100 /\ MinDimension \in 1 .. 100

(* What the judge says of one dimension: a number, or nothing of use, for  *)
(* it is missing, no number, or the evaluator failed.                      *)
Raw == [usable : BOOLEAN, value : Values]

Full == [d \in Dimensions |-> [usable |-> TRUE, value |-> 100]]

(* A reply that quotes the candidate, or holds no or several objects, is   *)
(* worth nothing; the call itself may raise.                               *)
JudgeReplies ==
    [kind : {"scores"}, raw : [Dimensions -> Raw]]
        \cup [kind : {"echo", "unparseable", "raises"}, raw : {Full}]

(* Mutant: the dimensions that could not be scored are left out.           *)
ScoresOfTheUsable(reply) ==
    LET dims == IF reply.kind = "scores"
                THEN {d \in Dimensions : reply.raw[d].usable} ELSE {}
    IN  [d \in dims |-> IF reply.raw[d].value > 100 THEN 100
                        ELSE IF reply.raw[d].value < 0 THEN 0
                        ELSE reply.raw[d].value]

(* Fail closed: every dimension is there, and 0 where nothing is known.    *)
Scores(reply) ==
    [d \in Dimensions |->
        IF reply.kind # "scores" \/ ~reply.raw[d].usable THEN 0
        ELSE IF reply.raw[d].value > 100 THEN 100
        ELSE IF reply.raw[d].value < 0 THEN 0 ELSE reply.raw[d].value]

Total(scores) == FoldFunction(LAMBDA a, b : a + b, 0, scores)

(* The mean suffices, and no dimension is below the floor.                 *)
Releases(scores) ==
    LET dims == DOMAIN scores
    IN  /\ dims # {}
        /\ Total(scores) >= Threshold * Cardinality(dims)
        /\ \A d \in dims : scores[d] >= MinDimension

(* evaluate: failures are the messages of the hard checks.                 *)
Evaluate(failures, reply) ==
    IF failures # {} THEN "blocked"
    ELSE IF reply.kind = "raises" THEN "raises"
    ELSE IF Releases(Scores(reply)) THEN "passed" ELSE "blocked"

(* The judge gave a number for each dimension, all at the floor or above,  *)
(* and not all below the threshold.                                        *)
ScoredWell(reply) ==
    /\ reply.kind = "scores"
    /\ \A d \in Dimensions : reply.raw[d].usable /\ reply.raw[d].value >= MinDimension
    /\ \E d \in Dimensions : reply.raw[d].value >= Threshold

(* Hard checks first, and one errored dimension blocks.                    *)
GateFailsClosed ==
    \A failures \in SUBSET {"check"}, reply \in JudgeReplies :
        Evaluate(failures, reply) = "passed" => failures = {} /\ ScoredWell(reply)
=============================================================================
