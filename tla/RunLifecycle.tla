---------------------------- MODULE RunLifecycle ----------------------------
(***************************************************************************)
(* What the pipeline promises of a run, whoever works on it and however    *)
(* they interleave: the run has one holder at a time; its phases finish in *)
(* order, once each; it ends in a verdict; a verdict stands until an       *)
(* attempt of the same owner takes the run up again; and no finished phase *)
(* is ever lost.  Pipeline.tla is shown to implement it.                   *)
(***************************************************************************)
EXTENDS Integers

CONSTANTS Runs, Attempts, Owners, NumPhases, None

VARIABLE life    \* life[r]: status, holder, owner and finished phases of r

Phases == 1..NumPhases

Life == [status : {"absent", "in_progress", "completed", "failed"},
         holder : Attempts \cup {None},
         owner  : Owners \cup {None},
         done   : SUBSET Phases]

Unborn == [status |-> "absent", holder |-> None, owner |-> None, done |-> {}]

Init == life = [r \in Runs |-> Unborn]

Working(r) == life[r].status = "in_progress"

(* The phase that comes next, if any.                                      *)
NextPhase(r) == {p \in Phases : p \notin life[r].done
                                /\ \A q \in 1..(p - 1) : q \in life[r].done}

Start(r, a, o) ==
    /\ life[r] = Unborn
    /\ life' = [life EXCEPT ![r] = [Unborn EXCEPT !.status = "in_progress",
                                                  !.holder = a, !.owner = o]]

(* A retry, by an attempt that does not hold the run yet.  The run may be  *)
(* working (a takeover) or have a verdict.                                 *)
Retake(r, a) ==
    /\ life[r].status # "absent"
    /\ a # life[r].holder
    /\ life' = [life EXCEPT ![r].status = "in_progress", ![r].holder = a]

Advance(r) ==
    /\ Working(r)
    /\ \E p \in NextPhase(r) :
          life' = [life EXCEPT ![r].done = @ \cup {p}]

Complete(r) ==
    /\ Working(r)
    /\ life[r].done = Phases
    /\ life' = [life EXCEPT ![r].status = "completed"]

(* A failure is saved together with the phase that had just finished when  *)
(* the save of that phase itself failed.                                   *)
Fail(r) ==
    /\ Working(r)
    /\ \E extra \in {{}} \cup {{p} : p \in NextPhase(r)} :
          life' = [life EXCEPT ![r].status = "failed",
                               ![r].done = @ \cup extra]

Next ==
    \E r \in Runs :
       \/ \E a \in Attempts : Retake(r, a) \/ \E o \in Owners : Start(r, a, o)
       \/ Advance(r) \/ Complete(r) \/ Fail(r)

Spec == Init /\ [][Next]_life
=============================================================================
