--------------------------- MODULE CheckpointMap ---------------------------
(***************************************************************************)
(* What a checkpoint store promises (src/harness/pipeline.py               *)
(* CheckpointStore, src/harness/checkpoint.py): one checkpoint per run,    *)
(* and calls that take effect in one indivisible moment between their      *)
(* start and their return, or not at all when they raise or their process  *)
(* dies.  The promise holds as long as the writers stay apart.             *)
(***************************************************************************)
CONSTANTS Threads, Runs, Checkpoints, None

VARIABLES
    content,   \* content[r]: the checkpoint of run r, or None
    op,        \* op[t]: the call of thread t
    apart      \* have all writers been the threads of one object at a time?

vars == <<content, op, apart>>

Calls ==
    [kind : {"save"}, run : Runs, ckpt : Checkpoints]
        \cup [kind : {"load"}, run : Runs] \cup [kind : {"list_runs"}]

NoOp == [state |-> "idle", call |-> None, got |-> None]

Init ==
    /\ content \in [Runs -> Checkpoints \cup {None}]
    /\ op = [t \in Threads |-> NoOp]
    /\ apart = TRUE

Call(t) ==
    /\ op[t].state = "idle"
    /\ \E c \in Calls :
          op' = [op EXCEPT ![t] = [state |-> "called", call |-> c, got |-> None]]
    /\ UNCHANGED content

(* The moment a call takes effect.                                         *)
Effect(t) ==
    /\ op[t].state = "called"
    /\ LET c == op[t].call
       IN  \/ /\ c.kind = "save"
              /\ content' = [content EXCEPT ![c.run] = c.ckpt]
              /\ op' = [op EXCEPT ![t].state = "done"]
           \/ /\ c.kind # "save"
              /\ op' = [op EXCEPT ![t].state = "done",
                     ![t].got = IF c.kind = "load" THEN content[c.run] ELSE content]
              /\ UNCHANGED content

Return(t) ==
    /\ op[t].state = "done"
    /\ op' = [op EXCEPT ![t] = NoOp]
    /\ UNCHANGED content

(* A call raises, or threads die with their process: what had not taken    *)
(* effect never will.                                                      *)
Abandon ==
    /\ \E gone \in SUBSET Threads :
          op' = [t \in Threads |-> IF t \in gone THEN NoOp ELSE op[t]]
    /\ UNCHANGED content

Next ==
    \/ ~apart'
    \/ /\ apart /\ apart'
       /\ (\E t \in Threads : Call(t) \/ Effect(t) \/ Return(t)) \/ Abandon

Spec == Init /\ [][Next]_vars
=============================================================================
