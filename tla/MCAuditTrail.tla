---------------------------- MODULE MCAuditTrail ----------------------------
(* Instances of AuditTrail for TLC.                                        *)
EXTENDS AuditTrail, TLC

Interchangeable == Permutations(Trails)

(* A body with keys 9 and 10 is read back with the keys "10" and "9"; all  *)
(* others come back as they were.                                          *)
SampleReread == [b \in Bodies |-> IF b = "9 then 10" THEN "10 then 9" ELSE b]
=============================================================================
