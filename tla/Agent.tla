------------------------------- MODULE Agent -------------------------------
(***************************************************************************)
(* The tool-use loop of src/harness/agent.py: Agent.run asks the model,    *)
(* takes every tool call of its answer through the permission gate, runs   *)
(* what is allowed, and hands all results back, for at most max_turns      *)
(* turns.  A thread of the gate that runs an agent is in one call of       *)
(* before_tool at a time, without a tenant.                                *)
(*                                                                         *)
(* What a tool prints or raises is text for the model: an exception of a   *)
(* tool becomes its result.  The texts are left out.                       *)
(***************************************************************************)
EXTENDS PermissionGate, Sequences, SequencesExt

CONSTANTS
    MaxTurns,   \* max_turns
    MaxUses,    \* bound: tool calls in one answer of the model
    AgentSets   \* which threads may be the ones that run an agent

ASSUME AgentAssumption ==
    MaxTurns \in Nat /\ MaxUses \in Nat /\ AgentSets \subseteq SUBSET Threads

VARIABLE agent   \* agent[t]: the run of thread t, or NoAgent

(* uses: the toolUse blocks of the last answer; nth: how many of them have *)
(* been taken care of; results: the toolResult blocks for them, with ran   *)
(* saying whether the tool was executed.                                   *)
AgentStates ==
    [pc : {"none", "model", "tools", "returned", "raised"},
     turn : 0 .. MaxTurns,
     uses : BoundedSeq(Requests, MaxUses),
     nth : 0 .. MaxUses,
     results : BoundedSeq([q : Requests, ran : BOOLEAN], MaxUses)]

Fresh(pc, turn, uses) ==
    [pc |-> pc, turn |-> turn, uses |-> uses, nth |-> 0, results |-> << >>]

NoAgent == Fresh("none", 0, << >>)

Prompted == Fresh("model", 0, << >>)

AgentInit ==
    \E set \in AgentSets :
        agent = [t \in Threads |-> IF t \in set THEN Prompted ELSE NoAgent]

Runs(t, r) == agent' = [agent EXCEPT ![t] = r]

(* converse raises: so does run, and the events of earlier turns are lost. *)
ConverseRaises(t) ==
    /\ agent[t].pc = "model" /\ agent[t].turn < MaxTurns
    /\ Runs(t, [agent[t] EXCEPT !.pc = "raised"])
    /\ UNCHANGED gateVars

(* The model stops for another reason than a tool call.                    *)
ModelEnds(t) ==
    /\ agent[t].pc = "model" /\ agent[t].turn < MaxTurns
    /\ Runs(t, [agent[t] EXCEPT !.pc = "returned"])
    /\ UNCHANGED gateVars

(* Mutant: turns are not counted.                                          *)
ModelUsesUncounted(t, uses) ==
    /\ agent[t].pc = "model" /\ agent[t].turn < MaxTurns
    /\ Runs(t, Fresh("tools", 0, uses))
    /\ UNCHANGED gateVars

ModelUses(t, uses) ==
    /\ agent[t].pc = "model" /\ agent[t].turn < MaxTurns
    /\ Runs(t, Fresh("tools", agent[t].turn + 1, uses))
    /\ UNCHANGED gateVars

TurnsOver(t) ==
    /\ agent[t].pc = "model" /\ agent[t].turn = MaxTurns
    /\ Runs(t, [agent[t] EXCEPT !.pc = "returned"])
    /\ UNCHANGED gateVars

(* _run_tool: the gate first.                                              *)
AskGate(t) ==
    /\ agent[t].pc = "tools"
    /\ agent[t].nth < Len(agent[t].uses)
    /\ Enter(t, NoTenant, agent[t].uses[agent[t].nth + 1])
    /\ UNCHANGED agent

(* Mutant: a refused call gets no result.                                  *)
TakeAllowed(t) ==
    /\ agent[t].pc = "tools" /\ call[t].pc = "done"
    /\ Runs(t, [agent[t] EXCEPT !.nth = @ + 1, !.results =
           IF call[t].result = "allow"
           THEN Append(@, [q |-> call[t].q, ran |-> TRUE]) ELSE @])
    /\ Return(t)

(* Then the tool, on ALLOW alone; either way the call has its result.      *)
TakeResult(t) ==
    /\ agent[t].pc = "tools" /\ call[t].pc = "done"
    /\ Runs(t, [agent[t] EXCEPT !.nth = @ + 1, !.results =
           Append(@, [q |-> call[t].q, ran |-> call[t].result = "allow"])])
    /\ Return(t)

(* The results go back to the model.                                       *)
Feed(t) ==
    /\ agent[t].pc = "tools"
    /\ agent[t].nth = Len(agent[t].uses)
    /\ Runs(t, [agent[t] EXCEPT !.pc = "model"])
    /\ UNCHANGED gateVars

(* Another prompt in the same session.                                     *)
RunAgain(t) ==
    /\ agent[t].pc \in {"returned", "raised"}
    /\ Runs(t, Prompted)
    /\ UNCHANGED gateVars

AgentStep(t) ==
    \/ ConverseRaises(t) \/ ModelEnds(t) \/ TurnsOver(t)
    \/ \E uses \in BoundedSeq(Requests, MaxUses) : ModelUses(t, uses)
    \/ AskGate(t) \/ TakeResult(t) \/ Feed(t)
=============================================================================
