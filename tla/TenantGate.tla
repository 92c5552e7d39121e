----------------------------- MODULE TenantGate -----------------------------
(***************************************************************************)
(* The tenant scope of src/harness/tenant_gate.py: TenantScopedGate asks   *)
(* who the caller is, whether the tool is on the surface and who owns the  *)
(* target, and then the permission gate, with the tenant as its scope.     *)
(*                                                                         *)
(* The owner of a resource is looked up at every call, by a callback of    *)
(* the harness's user, and may change between two lookups.                 *)
(***************************************************************************)
EXTENDS PermissionGate

CONSTANTS
    Unresolved,   \* the owner of a resource that cannot be resolved
    Untargeted    \* the "owner" of a call that targets no resource

Tenants == Scopes \ {NoTenant}
Owners == Tenants \cup {Unresolved, Untargeted}

VARIABLES
    surface,      \* the requests whose tool is in allowed_tools
    owner,        \* owner[q]: what _owner says of the target of q
    seen          \* history: the owner thread t found at the start of its call

tenantVars == <<surface, owner, seen>>

TenantTypeOK ==
    /\ surface \subseteq Requests
    /\ owner \in [Requests -> Owners]
    /\ seen \in [Threads -> Owners]

TenantInit ==
    /\ surface \in SUBSET Requests
    /\ owner \in [Requests -> Owners]
    /\ seen = [t \in Threads |-> Unresolved]

(* Mutant: a call whose owner cannot be told is let through.               *)
PermittedUnresolved(s, q) ==
    /\ s # NoTenant
    /\ q \in surface
    /\ owner[q] \in {s, Untargeted, Unresolved}

(* Stages 0 to 2.                                                          *)
Permitted(s, q) ==
    /\ s # NoTenant
    /\ q \in surface
    /\ owner[q] \in {s, Untargeted}

Refuse(t, s, q) ==
    /\ call[t].pc = "idle"
    /\ ~Permitted(s, q)
    /\ Becomes(t, [NoCall(s, q) EXCEPT !.pc = "done", !.result = "deny"])
    /\ UNCHANGED <<policy, cache, yes>>

BeforeTool(t, s, q) ==
    /\ \/ Refuse(t, s, q)
       \/ Permitted(s, q) /\ Enter(t, s, q)
    /\ seen' = [seen EXCEPT ![t] = owner[q]]
    /\ UNCHANGED <<surface, owner>>

Forget(t) ==
    /\ seen' = [seen EXCEPT ![t] = Unresolved]
    /\ UNCHANGED <<surface, owner>>

(* The resource changes hands, or is deleted, at any time.                 *)
Reassign(q, o) ==
    /\ owner[q] # Untargeted /\ o # Untargeted
    /\ owner' = [owner EXCEPT ![q] = o]
    /\ UNCHANGED <<surface, seen, gateVars>>
=============================================================================
