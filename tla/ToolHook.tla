------------------------------ MODULE ToolHook ------------------------------
(***************************************************************************)
(* The two Lambda functions of src/harness/agentcore_lambdas.py and the    *)
(* Cedar policies of src/harness/agentcore.py: the before_tool_call hook   *)
(* with the tenant scope and the permission gate inside, the policy engine *)
(* of the gateway behind it, and the tools behind both.                    *)
(*                                                                         *)
(* All are functions of one tool call.  Its arguments are abstracted to    *)
(* what the layers tell apart.                                             *)
(***************************************************************************)

Tools == {"get_review", "add_finding", "delete_review"}
ToolNames == Tools \cup {"unknown"}

ReviewOwner == [REVIEW_A1 |-> "tenant-a", REVIEW_B1 |-> "tenant-b"]
Reviews == DOMAIN ReviewOwner

(* REVIEW_X: a well-formed id of no review.                                *)
Arguments ==
    [review_id : Reviews \cup {"REVIEW_X", "malformed", "missing"},
     status    : {"complied", "not_complied", "unknown"},
     dangerous : BOOLEAN]

NoArguments == [review_id |-> "missing", status |-> "unknown", dangerous |-> FALSE]

(* toolInput, as an object or as text.  hidden: what a parser that takes   *)
(* the first of two equal keys would read.                                 *)
Inputs ==
    [form : {"object", "text"}, args : Arguments, hidden : {NoArguments}]
        \cup [form : {"duplicates"}, args : Arguments, hidden : Arguments]
        \cup [form : {"none", "empty", "broken", "list"},
              args : {NoArguments}, hidden : {NoArguments}]

(* tenant: what the registry of sessions says, if the lookup succeeds.     *)
ToolEvents ==
    [expected : BOOLEAN,
     target   : {"reviews", "bare", "admin"},
     tool     : ToolNames,
     input    : Inputs,
     tenant   : {"tenant-a", "tenant-b", "", "raises"}]

-----------------------------------------------------------------------------
(* The hook.                                                               *)
HookTools == {"get_review", "add_finding"}

Calls == [tool : ToolNames, args : Arguments]

HookPolicy(q) ==
    [blocked |-> q.args.dangerous, glob |-> "none",
     config |-> IF q.tool \in HookTools THEN "allow" ELSE "none",
     posture |-> "ask"]

OwnerOf(q) ==
    IF q.tool \notin HookTools THEN "untargeted"
    ELSE IF q.args.review_id \in Reviews THEN ReviewOwner[q.args.review_id]
    ELSE "unresolved"

(* HOOK_GATE, of which a call remembers nothing: what its policy does not  *)
(* allow nobody is there to approve.                                       *)
HookGate ==
    INSTANCE TenantGate WITH
        Threads <- {"hook"}, Scopes <- {"tenant-a", "tenant-b", ""},
        NoTenant <- "", Requests <- Calls,
        Policies <- {HookPolicy(q) : q \in Calls},
        Unresolved <- "unresolved", Untargeted <- "untargeted",
        policy <- [q \in Calls |-> HookPolicy(q)],
        surface <- {q \in Calls : q.tool \in HookTools},
        owner <- [q \in Calls |-> OwnerOf(q)],
        cache <- {}, yes <- {}, call <- << >>, seen <- << >>

(* Mutant: json.loads as it is, which takes the last of two equal keys.    *)
ParsesLeniently(input) == input.form \in {"object", "text", "none", "empty", "duplicates"}

Parses(input) == input.form \in {"object", "text", "none", "empty"}

(* decide, and hook_handler around it: "allow", or the rule of the deny.   *)
Decide(e) ==
    LET q == [tool |-> e.tool, args |-> e.input.args]
    IN  IF ~e.expected \/ e.target = "admin" \/ ~Parses(e.input) THEN "hook"
        ELSE IF e.tenant = "raises" THEN "hook-error"
        ELSE IF e.tenant = "" THEN "require-tenant-id"
        ELSE IF q.tool \notin HookTools THEN "tool-allowlist"
        ELSE IF ~HookGate!Permitted(e.tenant, q) THEN "cross-tenant"
        ELSE IF HookPolicy(q).blocked \/ HookGate!Resolution(q) # "allow" THEN "permission-gate"
        ELSE IF q.tool = "add_finding" /\ q.args.status = "complied" THEN "sign-off"
        ELSE "allow"

-----------------------------------------------------------------------------
(* cedar_policies.  A permit asks for an id that begins like a review's.    *)
Permits ==
    [tool : {"get_review", "add_finding"},
     args : {a \in Arguments : a.review_id \in Reviews \cup {"REVIEW_X"}}]

Forbids == [tool : {"add_finding"}, args : {a \in Arguments : a.status = "complied"}]

(* The policy engine: a forbid beats every permit; no permit is a deny.    *)
CedarDecision(tool, args) ==
    LET q == [tool |-> tool, args |-> args]
    IN  IF q \in Forbids THEN "forbid"
        ELSE IF q \in Permits THEN "allow" ELSE "default"

(* tools_handler, which knows no tenant: what a call that reaches it does. *)
Effect(tool, args) ==
    IF tool = "unknown" THEN "error"
    ELSE IF tool = "delete_review"
         THEN IF args.review_id \in Reviews THEN "deleted" ELSE "nothing"
    ELSE IF args.review_id \notin Reviews THEN "error"
    ELSE IF tool = "get_review" THEN "read"
    ELSE CASE args.status = "unknown"      -> "error"
           [] args.status = "complied"     -> "signed off"
           [] args.status = "not_complied" -> "recorded"

-----------------------------------------------------------------------------
(* "Fail closed", "both stay denied even if the Cedar engine drifts": what *)
(* the hook lets through acts, however the tool reads its input, on no     *)
(* review but one of the session's tenant, and deletes and signs off       *)
(* nothing; and the policy engine alone refuses those two to everybody.    *)
HookFailsClosed ==
    /\ \A e \in ToolEvents :
          Decide(e) = "allow" =>
             \A args \in {e.input.args, e.input.hidden} :
                LET effect == Effect(e.tool, args)
                IN  /\ effect \in {"read", "recorded"} => ReviewOwner[args.review_id] = e.tenant
                    /\ effect \notin {"deleted", "signed off"}
    /\ \A q \in Calls :
          CedarDecision(q.tool, q.args) = "allow" =>
             Effect(q.tool, q.args) \notin {"deleted", "signed off"}
=============================================================================
