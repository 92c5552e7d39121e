--------------------------- MODULE PermissionGate ---------------------------
(***************************************************************************)
(* The permission gate of src/harness/permission_gate.py: one object of    *)
(* PermissionGate, called by several threads of a session, with its cache  *)
(* of approvals and a reviewer thread per question to a human.             *)
(*                                                                         *)
(* What the four stages say of a tool call depends on its tool and its     *)
(* arguments alone and is fixed when the gate is built: policy.  What the  *)
(* gate shares between threads is the cache.                               *)
(***************************************************************************)
EXTENDS Naturals

CONSTANTS
    Threads,    \* callers of before_tool
    Scopes,     \* the scope argument: a tenant id, or ""
    NoTenant,   \* the scope "", which is also the default: nobody's
    Requests,   \* (tool_name, args) pairs
    Policies    \* what the stages may say of a request

VARIABLES
    policy,     \* policy[q]: what each stage says of request q
    cache,      \* _allow_cache: the keys approved in this session
    call,       \* call[t]: the local state of thread t
    yes         \* history: keys a human said yes to while the gate waited

gateVars == <<policy, cache, call, yes>>

Decisions == {"allow", "ask", "deny"}

PolicyRecords ==
    [blocked : BOOLEAN,
     glob    : Decisions \cup {"none"},
     config  : Decisions \cup {"none"},
     posture : Decisions]

ASSUME PolicyAssumption == Policies \subseteq PolicyRecords /\ NoTenant \in Scopes

(* A key stands for one (scope, tool, args) call.                          *)
Keys == Scopes \X Requests

(* Mutant: one approval covers the same call made for someone else.        *)
CacheKeyWithoutScope(scope, q) == <<CHOOSE s \in Scopes : TRUE, q>>

CacheKey(scope, q) == <<scope, q>>

(* The review thread: not started, in human_review, back from it (with the *)
(* answer in result_box) and ended.                                        *)
Call ==
    [pc     : {"idle", "lookup", "resolve", "ask", "join", "look", "record",
               "done"},
     scope  : Scopes, q : Requests,
     worker : {"none", "asking", "answered", "ended"},
     answer : {"none", "approved", "refused"},
     result : {"none", "allow", "deny"}]

NoCall(s, q) ==
    [pc |-> "idle", scope |-> s, q |-> q, worker |-> "none",
     answer |-> "none", result |-> "none"]

GateTypeOK ==
    /\ policy \in [Requests -> Policies]
    /\ cache \subseteq Keys
    /\ call \in [Threads -> Call]
    /\ yes \subseteq Keys

GateInit ==
    /\ policy \in [Requests -> Policies]
    /\ cache = {}
    /\ \E q \in Requests : call = [t \in Threads |-> NoCall(NoTenant, q)]
    /\ yes = {}

Key(t) == CacheKey(call[t].scope, call[t].q)

Becomes(t, c) == call' = [call EXCEPT ![t] = c]

Go(t, pc) == Becomes(t, [call[t] EXCEPT !.pc = pc])

Decide(t, result) == Becomes(t, [call[t] EXCEPT !.pc = "done", !.result = result])

-----------------------------------------------------------------------------
(* before_tool.                                                            *)

(* Stage 1: the blocklist wins over every allow.                           *)
Enter(t, s, q) ==
    /\ call[t].pc = "idle"
    /\ Becomes(t, IF policy[q].blocked
                  THEN [NoCall(s, q) EXCEPT !.pc = "done", !.result = "deny"]
                  ELSE [NoCall(s, q) EXCEPT !.pc = "lookup"])
    /\ UNCHANGED <<policy, cache, yes>>

Lookup(t) ==
    /\ call[t].pc = "lookup"
    /\ IF Key(t) \in cache THEN Decide(t, "allow") ELSE Go(t, "resolve")
    /\ UNCHANGED <<policy, cache, yes>>

(* Stages 2 to 4.                                                          *)
Resolution(q) ==
    LET p == policy[q]
    IN  IF p.glob # "none" THEN p.glob
        ELSE IF p.config # "none" THEN p.config ELSE p.posture

(* Mutant: what the stages say is taken for the decision.                  *)
FinalizeAsIs(t) ==
    /\ call[t].pc = "resolve"
    /\ Decide(t, Resolution(call[t].q))
    /\ UNCHANGED <<policy, cache, yes>>

Finalize(t) ==
    /\ call[t].pc = "resolve"
    /\ LET r == Resolution(call[t].q)
       IN  IF r = "ask" THEN Go(t, "ask") ELSE Decide(t, r)
    /\ UNCHANGED <<policy, cache, yes>>

-----------------------------------------------------------------------------
(* _ask_human.                                                             *)
StartReview(t) ==
    /\ call[t].pc = "ask"
    /\ Becomes(t, [call[t] EXCEPT !.pc = "join", !.worker = "asking"])
    /\ UNCHANGED <<policy, cache, yes>>

(* Mutant: the review thread records the approval itself.                  *)
AnswerRecords(t) ==
    /\ call[t].worker = "asking"
    /\ Becomes(t, [call[t] EXCEPT !.worker = "answered", !.answer = "approved"])
    /\ yes' = IF call[t].pc \in {"join", "look"} THEN yes \cup {Key(t)} ELSE yes
    /\ cache' = cache \cup {Key(t)}
    /\ UNCHANGED policy

(* human_review comes back, at any time or never: with a yes, or with a no *)
(* or an exception, which are a DENY for different reasons.                *)
Answer(t) ==
    /\ call[t].worker = "asking"
    /\ \E a \in {"approved", "refused"} :
          /\ Becomes(t, [call[t] EXCEPT !.worker = "answered", !.answer = a])
          /\ yes' = IF a = "approved" /\ call[t].pc \in {"join", "look"}
                    THEN yes \cup {Key(t)} ELSE yes
    /\ UNCHANGED <<policy, cache>>

WorkerEnds(t) ==
    /\ call[t].worker = "answered"
    /\ Becomes(t, [call[t] EXCEPT !.worker = "ended"])
    /\ UNCHANGED <<policy, cache, yes>>

(* t.join returns because the worker ended or the timeout passed.          *)
(* Mutant: it waits for the worker.                                        *)
JoinWaits(t) ==
    /\ call[t].pc = "join" /\ call[t].worker = "ended"
    /\ Go(t, "look")
    /\ UNCHANGED <<policy, cache, yes>>

JoinReturns(t) ==
    /\ call[t].pc = "join"
    /\ Go(t, "look")
    /\ UNCHANGED <<policy, cache, yes>>

(* is_alive, and what result_box holds then.                               *)
Look(t) ==
    /\ call[t].pc = "look"
    /\ IF call[t].worker = "ended" /\ call[t].answer = "approved"
       THEN Go(t, "record") ELSE Decide(t, "deny")
    /\ UNCHANGED <<policy, cache, yes>>

Remember(t) ==
    /\ call[t].pc = "record"
    /\ cache' = cache \cup {Key(t)}
    /\ Decide(t, "allow")
    /\ UNCHANGED <<policy, yes>>

(* The caller has the decision and may call again, while the reviewer      *)
(* thread of the call before may still be asking: it writes to a           *)
(* result_box nobody reads any more.                                       *)
Return(t) ==
    /\ call[t].pc = "done"
    /\ Becomes(t, NoCall(call[t].scope, call[t].q))
    /\ UNCHANGED <<policy, cache, yes>>

GateStep(t) ==
    \/ Lookup(t) \/ Finalize(t) \/ StartReview(t) \/ JoinReturns(t)
    \/ Look(t) \/ Remember(t)

ReviewerStep(t) == Answer(t) \/ WorkerEnds(t)
=============================================================================
