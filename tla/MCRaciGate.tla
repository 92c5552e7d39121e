----------------------------- MODULE MCRaciGate -----------------------------
(* Instances of RaciGate for TLC: three bearers, of whom one is found by   *)
(* name, one by scope and one only by the judge.                           *)
EXTENDS RaciGate, TLC

CONSTANTS cfo, cro, clerk

Bearer(id, name, scope) == [id |-> id, name |-> name, scope |-> scope]

MCBearers == << Bearer(cfo, "finance", {"ledger"}), Bearer(cro, "risk", {}),
                Bearer(clerk, "desk", {"ledger"}) >>

Row(areas, r, a, priority) ==
    [areas |-> areas, r |-> r, a |-> a, ci |-> {"ledger", "nobody"},
     priority |-> priority]

(* Rows that overlap, of one priority and of two; a role that resolves by  *)
(* name, by scope, or not at all; areas no row matches.                    *)
MCMatrices ==
    { << >>,
      << Row({"capital"}, "ledger", "nobody", 50) >>,
      << Row({"capital"}, "nobody", "finance", 10),
         Row({"capital"}, "finance", "risk", 90) >>,
      << Row({"capital"}, "nobody", "risk", 50),
         Row({"capital"}, "finance", "nobody", 50) >> }

Said(r, a, why) ==
    [bearer |-> [k \in Roles |-> IF k = "r" THEN r ELSE a],
     reason |-> [k \in Roles |-> why]]

MCReplies ==
    { Said(clerk, clerk, TRUE), Said(cfo, cro, FALSE), Said("NONE", Stranger, TRUE) }

Interchangeable == Permutations(Callers) \cup Permutations(Actions)
=============================================================================
