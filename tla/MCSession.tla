---------------------------- MODULE MCSession -------------------------------
(* Instances of Session for TLC.                                        *)
EXTENDS Session, TLC

(* Every stage decides somewhere, against a different stage below it.      *)
Stages(b, g, c, p) == [blocked |-> b, glob |-> g, config |-> c, posture |-> p]

SamplePolicies ==
    { Stages(TRUE,  "allow", "allow", "allow"),
      Stages(FALSE, "allow", "deny",  "ask"),
      Stages(FALSE, "none",  "deny",  "allow"),
      Stages(FALSE, "none",  "none",  "ask") }

Interchangeable ==
    Permutations(Threads) \cup Permutations(Requests) \cup Permutations(Tenants)
=============================================================================
