------------------------------ MODULE Session ------------------------------
(***************************************************************************)
(* A session: threads that share one permission gate.  Each runs an agent  *)
(* (Agent), whose calls carry no tenant, or serves tenants through the     *)
(* tenant scope (TenantGate); humans review what the gate asks them.       *)
(***************************************************************************)
EXTENDS Agent, TenantGate

vars == <<policy, cache, call, yes, surface, owner, seen, agent>>

Init == GateInit /\ TenantInit /\ AgentInit

Serves(t) == agent[t].pc = "none"

Serve(t) ==
    /\ Serves(t)
    /\ \/ \E s \in Scopes, q \in Requests : BeforeTool(t, s, q)
       \/ Return(t) /\ Forget(t)
    /\ UNCHANGED agent

RunAgent(t) == AgentStep(t) /\ UNCHANGED tenantVars

Prompt(t) == RunAgain(t) /\ UNCHANGED tenantVars

RunGate(t) == GateStep(t) /\ UNCHANGED <<tenantVars, agent>>

Review(t) == ReviewerStep(t) /\ UNCHANGED <<tenantVars, agent>>

World == (\E q \in Requests, o \in Owners : Reassign(q, o)) /\ UNCHANGED agent

Next ==
    \/ \E t \in Threads : 
          Serve(t) \/ RunAgent(t) \/ Prompt(t) \/ RunGate(t) \/ Review(t)
    \/ World

Spec == Init /\ [][Next]_vars

(* The threads of the session are scheduled, the model answers or raises,  *)
(* and tools end; a human may never answer.                                *)
FairSpec == Spec /\ \A t \in Threads : WF_vars(RunGate(t)) /\ WF_vars(RunAgent(t))

-----------------------------------------------------------------------------
TypeOK ==
    /\ GateTypeOK /\ TenantTypeOK
    /\ agent \in [Threads -> AgentStates]

(* No pattern of the blocklist matches the call, and the policy allows it  *)
(* outright or a human said yes, in time, to it for exactly this scope.    *)
Cleared(s, q) ==
    /\ ~policy[q].blocked
    /\ Resolution(q) = "allow" \/ <<s, q>> \in yes

(* No tool call gets through that policy and people have not cleared, and  *)
(* no agent runs one; through the tenant scope only if the tool is on the  *)
(* surface and the target was the caller's when the call began, whatever   *)
(* had been approved while it was somebody else's.                         *)
AllowIsCleared ==
    \A t \in Threads :
        /\ \A n \in DOMAIN agent[t].results :
              agent[t].results[n].ran => Cleared(NoTenant, agent[t].results[n].q)
        /\ call[t].result = "allow" =>
              LET s == call[t].scope
                  q == call[t].q
              IN  /\ Cleared(s, q)
                  /\ Serves(t) => /\ s # NoTenant /\ q \in surface
                                  /\ seen[t] \in {s, Untargeted}

(* A late answer is not honoured: what the cache will let through was      *)
(* approved while the gate was waiting, never after it had said DENY.      *)
LateAnswerIgnored == cache \subseteq yes

(* "A DENY does not crash the loop -- the gate's reason is returned to the *)
(* model as the tool result": when the model is asked again it finds one   *)
(* result for every call it made, in the order it made them.               *)
EveryUseAnswered ==
    \A t \in Threads :
        agent[t].pc = "model" =>
            agent[t].uses = [n \in DOMAIN agent[t].results |-> agent[t].results[n].q]

(* "if the reviewer hangs, we resolve the decision immediately and never   *)
(* block the agent": every call gets its decision whatever humans do, and  *)
(* an agent's run ends, with an answer, at max_turns or by an exception,   *)
(* whatever the model asks for and whether or not anybody reviews it.      *)
NobodyHangs ==
    \A t \in Threads :
        /\ call[t].pc # "idle" ~> call[t].pc \in {"done", "idle"}
        /\ agent[t].pc \in {"model", "tools"} ~> agent[t].pc \in {"returned", "raised"}
=============================================================================
