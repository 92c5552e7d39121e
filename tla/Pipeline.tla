------------------------------ MODULE Pipeline ------------------------------
(***************************************************************************)
(* The durable pipeline of src/harness/pipeline.py: concurrent attempts    *)
(* (calls of Pipeline.run) at the same runs, the sweeper that reaps runs    *)
(* whose worker went silent, and the checkpoint store they share.          *)
(*                                                                         *)
(* An attempt is a call of Pipeline.run with its own PipelineContext; its  *)
(* identity is the uuid the code writes in ckpt["attempt"].  A step is one *)
(* access to something shared (the store, the audit trail) or one phase.   *)
(*                                                                         *)
(* Preemptive says how the actors interleave.  TRUE: threads or processes  *)
(* on JsonCheckpointStore, where a load and the save that follows it are   *)
(* two critical sections and anything may happen between them.  FALSE: a   *)
(* load and the save it guards are not separated by another actor, as in a *)
(* single thread (a phase may still call run or sweep_stuck), or with a    *)
(* store whose writes are conditional.  The docs ask for that in _save and *)
(* in the sweeper, on DynamoDB; the save that claims a run needs it too.   *)
(*                                                                         *)
(* A phase is skipped when the checkpoint says that it was completed, the  *)
(* default of should_skip.  A phase with a skip_predicate of its own, which*)
(* may skip what never ran, or run again what did, is not modelled.        *)
(*                                                                         *)
(* Time is the age of each record (now - started_at) and its silence       *)
(* (now - heartbeat_at), both saturated at Horizon.  Timely restricts      *)
(* behaviours to workers whose phases last at most MaxDuration and whose   *)
(* bookkeeping takes no time, the environment the docstring asks for.      *)
(***************************************************************************)
EXTENDS Integers

CONSTANTS
    Runs,         \* run ids
    Attempts,     \* calls of Pipeline.run
    Sweepers,     \* processes that call sweep_stuck
    Owners,       \* (tenant_id, analysis_id) pairs
    NumPhases,    \* len(Pipeline.phases)
    MaxDuration,  \* max_duration_seconds
    Grace,        \* grace_seconds
    Horizon,      \* bound: ages beyond it are not told apart
    Preemptive,   \* may other actors act between a load and its save?
    Timely,       \* do workers keep phases shorter than the budget?
    None          \* no attempt, no owner, no run

ASSUME PipelineAssumption ==
    /\ NumPhases \in Nat /\ MaxDuration \in Nat /\ Grace \in Nat
    /\ Horizon \in Nat
    /\ Horizon > MaxDuration + Grace /\ Horizon > 2 * MaxDuration
    /\ Preemptive \in BOOLEAN /\ Timely \in BOOLEAN
    /\ None \notin Runs \cup Attempts \cup Owners
    /\ Attempts \cap Sweepers = {}

VARIABLES
    store,    \* store[r]: the checkpoint saved for run r
    job,      \* job[a]: the local state of attempt a
    todo,     \* todo[s]: the stale records sweeper s is about to save
    pending,  \* pending[s]: the audit entry s owes for its last save
    audit     \* audit entries: <<event, attempt>>

vars == <<store, job, todo, pending, audit>>

Phases == 1..NumPhases
Terminal == {"completed", "failed"}
Ages == 0..Horizon

(* A checkpoint dict, or "absent" when store.load returns None.  data tags *)
(* each contribution to ckpt["state"] with its author and its phase.       *)
Checkpoint ==
    [status  : {"absent", "in_progress"} \cup Terminal,
     attempt : Attempts \cup {None},
     owner   : Owners \cup {None},
     age     : Ages,
     quiet   : Ages,
     done    : SUBSET Phases,
     data    : SUBSET (Owners \X Phases)]

Absent ==
    [status |-> "absent", attempt |-> None, owner |-> None,
     age |-> 0, quiet |-> 0, done |-> {}, data |-> {}]

NewCheckpoint(a, o) ==
    [Absent EXCEPT !.status = "in_progress", !.attempt = a, !.owner = o]

(* Mutants: a retry keeps the clocks of the attempt before it, or starts   *)
(* from nothing.                                                           *)
RehydratedStale(c, a) == [c EXCEPT !.status = "in_progress", !.attempt = a]
RehydratedAfresh(c, a) == NewCheckpoint(a, c.owner)

Rehydrated(c, a) ==
    [c EXCEPT !.status = "in_progress", !.attempt = a, !.age = 0, !.quiet = 0]

Heartbeat(c) == [c EXCEPT !.quiet = 0]

(* Phase p has produced its output; ctx is the shared state after it.      *)
WithPhase(c, p, ctx) == [c EXCEPT !.done = @ \cup {p}, !.data = ctx]

(* The times of a terminal record are never read again: they become 0.     *)
Ended(c, verdict) ==
    [c EXCEPT !.status = verdict, !.age = 0, !.quiet = 0]

(* Program counters of run: "claim" is the first save, "announce" its      *)
(* audit entry, "check" and "write" the load and the save of _save, "log"  *)
(* the audit entry after it.  goal is what that save is for.               *)
Inside == {"brakes", "phase", "check", "write", "log"}  \* in the try block
Active == {"claim", "announce"} \cup Inside
Goals == {"none", "phase", "completed", "failed"}

Job ==
    [pc      : {"idle", "returned", "dead"} \cup Active,
     run     : Runs \cup {None},
     who     : Owners \cup {None},
     resume  : BOOLEAN,
     ckpt    : Checkpoint,
     ctx     : SUBSET (Owners \X Phases),
     idx     : 0..(NumPhases + 1),
     goal    : Goals,
     handler : BOOLEAN]

Idle ==
    [pc |-> "idle", run |-> None, who |-> None, resume |-> FALSE,
     ckpt |-> Absent, ctx |-> {}, idx |-> 0, goal |-> "none",
     handler |-> FALSE]

Events == {"pipeline_started", "pipeline_resumed", "phase_transition",
           "pipeline_completed", "pipeline_failed", "run_reaped"}

TypeOK ==
    /\ store \in [Runs -> Checkpoint]
    /\ job \in [Attempts -> Job]
    /\ todo \in [Sweepers -> SUBSET (Runs \X Checkpoint)]
    /\ pending \in [Sweepers -> SUBSET (Attempts \cup {None})]
    /\ audit \subseteq Events \X (Attempts \cup {None})

Init ==
    /\ store = [r \in Runs |-> Absent]
    /\ job = [a \in Attempts |-> Idle]
    /\ todo = [s \in Sweepers |-> {}]
    /\ pending = [s \in Sweepers |-> {}]
    /\ audit = {}

-----------------------------------------------------------------------------
Move(a, j) == job' = [job EXCEPT ![a] = j]

(* Who may load from the store with a view to saving to it.                *)
Amid(a) == job[a].pc \in {"claim", "write"}

MayLoad(x) ==
    \/ Preemptive
    \/ /\ \A a \in Attempts \ {x} : ~Amid(a)
       /\ \A s \in Sweepers \ {x} : todo[s] = {}

-----------------------------------------------------------------------------
(* Pipeline.run, up to its try block.                                      *)
(* Mutant: a fresh run does not look whether the run id is in use.         *)
BeginRegardless(a, r, o, again) ==
    /\ job[a].pc = "idle" /\ MayLoad(a)
    /\ again => store[r].status = "absent"
    /\ Move(a, [Idle EXCEPT !.pc = "claim", !.run = r, !.who = o,
                            !.resume = again, !.ckpt = NewCheckpoint(a, o)])
    /\ UNCHANGED <<store, todo, pending, audit>>

Begin(a, r, o, again) ==
    /\ job[a].pc = "idle"
    /\ MayLoad(a)
    /\ store[r].status = "absent"
    /\ Move(a, [Idle EXCEPT !.pc = "claim", !.run = r, !.who = o,
                            !.resume = again, !.ckpt = NewCheckpoint(a, o)])
    /\ UNCHANGED <<store, todo, pending, audit>>

Resume(a, r, o) ==
    /\ job[a].pc = "idle"
    /\ MayLoad(a)
    /\ store[r].status # "absent"
    /\ store[r].owner = o
    /\ Move(a, [Idle EXCEPT !.pc = "claim", !.run = r, !.who = o,
                            !.resume = TRUE, !.ctx = store[r].data,
                            !.ckpt = Rehydrated(store[r], a)])
    /\ UNCHANGED <<store, todo, pending, audit>>

(* run returned or raised: nothing of its local state matters any more.    *)
Leave(a, how) ==
    Move(a, [Idle EXCEPT !.pc = how, !.run = job[a].run])

Refuse(a, r, o, again) ==
    /\ job[a].pc = "idle"
    /\ store[r].status # "absent"
    /\ ~again \/ store[r].owner # o
    /\ Leave(a, "dead")
    /\ UNCHANGED <<store, todo, pending, audit>>

Claim(a) ==
    /\ job[a].pc = "claim"
    /\ store' = [store EXCEPT ![job[a].run] = job[a].ckpt]
    /\ Move(a, [job[a] EXCEPT !.pc = "announce"])
    /\ UNCHANGED <<todo, pending, audit>>

Announce(a) ==
    /\ job[a].pc = "announce"
    /\ audit' = audit \cup
          {<<IF job[a].resume THEN "pipeline_resumed" ELSE "pipeline_started", a>>}
    /\ Move(a, [job[a] EXCEPT !.pc = "brakes", !.idx = 1])
    /\ UNCHANGED <<store, todo, pending>>

-----------------------------------------------------------------------------
(* The loop over the phases.                                               *)
(* Mutant: the loop goes one phase too far.                                *)
AtPhaseTooFar(a) == job[a].pc = "brakes" /\ job[a].idx \in 1..(NumPhases + 1)

AtPhase(a) == job[a].pc = "brakes" /\ job[a].idx \in Phases

(* Mutant: a failed run also saves what its last phase left half done.     *)
FailingWithState(a, inHandler, ctx) ==
    Move(a, [job[a] EXCEPT !.pc = "check", !.goal = "failed",
                           !.handler = inHandler, !.ctx = ctx,
                           !.ckpt = [Ended(job[a].ckpt, "failed")
                                        EXCEPT !.data = ctx]])

(* _fail, up to its _save; inHandler when the except clause calls it.      *)
Failing(a, inHandler, ctx) ==
    Move(a, [job[a] EXCEPT !.pc = "check", !.goal = "failed",
                           !.handler = inHandler, !.ctx = ctx,
                           !.ckpt = Ended(job[a].ckpt, "failed")])

OverBudget(a) ==
    /\ AtPhase(a)
    /\ job[a].ckpt.age > MaxDuration
    /\ Failing(a, FALSE, job[a].ctx)
    /\ UNCHANGED <<store, todo, pending, audit>>

(* Mutant: the budget is measured from the last heartbeat.                 *)
WithinSilence(a) == job[a].ckpt.quiet <= MaxDuration

WithinBudget(a) == job[a].ckpt.age <= MaxDuration

(* kill_switch() returned True.  Anyone may pull it, at any time.          *)
BrakePulled(a) ==
    /\ AtPhase(a) /\ WithinBudget(a)
    /\ Failing(a, FALSE, job[a].ctx)
    /\ UNCHANGED <<store, todo, pending, audit>>

(* _record_phase, up to its _save.                                         *)
Record(a, c, ctx) ==
    Move(a, [job[a] EXCEPT !.pc = "check", !.goal = "phase", !.ctx = ctx,
                           !.ckpt = Heartbeat(c)])

SkipPhase(a) ==
    /\ AtPhase(a) /\ WithinBudget(a)
    /\ job[a].idx \in job[a].ckpt.done
    /\ Record(a, job[a].ckpt, job[a].ctx)
    /\ UNCHANGED <<store, todo, pending, audit>>

StartPhase(a) ==
    /\ AtPhase(a) /\ WithinBudget(a)
    /\ job[a].idx \notin job[a].ckpt.done
    /\ Move(a, [job[a] EXCEPT !.pc = "phase"])
    /\ UNCHANGED <<store, todo, pending, audit>>

(* What the phase in hand leaves in ctx.state, whether it ends or raises.  *)
Produced(a) == job[a].ctx \cup {<<job[a].who, job[a].idx>>}

PhaseDone(a) ==
    /\ job[a].pc = "phase"
    /\ Record(a, WithPhase(job[a].ckpt, job[a].idx, Produced(a)), Produced(a))
    /\ UNCHANGED <<store, todo, pending, audit>>

(* Mutant: the completion is audited before it is saved.                   *)
CompletedEarly(a) ==
    /\ job[a].pc = "brakes" /\ job[a].idx = NumPhases + 1
    /\ Move(a, [job[a] EXCEPT !.pc = "check", !.goal = "completed",
                              !.ckpt = Ended(job[a].ckpt, "completed")])
    /\ audit' = audit \cup {<<"pipeline_completed", a>>}
    /\ UNCHANGED <<store, todo, pending>>

AllPhasesDone(a) ==
    /\ job[a].pc = "brakes"
    /\ job[a].idx = NumPhases + 1
    /\ Move(a, [job[a] EXCEPT !.pc = "check", !.goal = "completed",
                              !.ckpt = Ended(job[a].ckpt, "completed")])
    /\ UNCHANGED <<store, todo, pending, audit>>

-----------------------------------------------------------------------------
(* _save: a load that checks who owns the run, then the save.              *)
(* Mutants: _save checks only the status, or only the attempt.             *)
OwnsIfNotEnded(a) == store[job[a].run].status \notin Terminal
OwnsIfSameAttempt(a) == store[job[a].run].attempt = job[a].ckpt.attempt

Owns(a) ==
    LET stored == store[job[a].run]
    IN  \/ stored.status = "absent"
        \/ stored.attempt = job[a].ckpt.attempt /\ stored.status \notin Terminal

Verify(a) ==
    /\ job[a].pc = "check"
    /\ MayLoad(a)
    /\ Owns(a)
    /\ Move(a, [job[a] EXCEPT !.pc = "write"])
    /\ UNCHANGED <<store, todo, pending, audit>>

(* RunReaped: run returns what the store holds.                            *)
Superseded(a) ==
    /\ job[a].pc = "check"
    /\ ~Owns(a)
    /\ Leave(a, "returned")
    /\ UNCHANGED <<store, todo, pending, audit>>

Write(a) ==
    /\ job[a].pc = "write"
    /\ store' = [store EXCEPT ![job[a].run] = job[a].ckpt]
    /\ Move(a, [job[a] EXCEPT !.pc = "log"])
    /\ UNCHANGED <<todo, pending, audit>>

Entry(a) ==
    << CASE job[a].goal = "phase"     -> "phase_transition"
         [] job[a].goal = "completed" -> "pipeline_completed"
         [] OTHER                     -> "pipeline_failed", a >>

LogPhase(a) ==
    /\ job[a].pc = "log"
    /\ job[a].goal = "phase"
    /\ audit' = audit \cup {Entry(a)}
    /\ Move(a, [job[a] EXCEPT !.pc = "brakes", !.idx = @ + 1,
                              !.goal = "none"])
    /\ UNCHANGED <<store, todo, pending>>

LogVerdict(a) ==
    /\ job[a].pc = "log"
    /\ job[a].goal # "phase"
    /\ audit' = audit \cup {Entry(a)}
    /\ Leave(a, "returned")
    /\ UNCHANGED <<store, todo, pending>>

(* kill_switch, should_skip, the phase, the store or the trail raised: the *)
(* except clause fails the run.  The trail may raise after it kept the     *)
(* entry in memory; a phase may raise half way.                            *)
Raise(a) ==
    /\ job[a].pc \in Inside
    /\ ~job[a].handler
    /\ job[a].pc = "brakes" => job[a].idx \in Phases
    /\ \/ audit' = audit
       \/ job[a].pc = "log" /\ audit' = audit \cup {Entry(a)}
    /\ Failing(a, TRUE, IF job[a].pc = "phase" THEN Produced(a) ELSE job[a].ctx)
    /\ UNCHANGED <<store, todo, pending>>

(* The process died, or an exception escaped run (from its first save or   *)
(* audit entry, which no handler covers, or from _fail in the handler).    *)
Die(a) ==
    /\ job[a].pc \in Active
    /\ Leave(a, "dead")
    /\ UNCHANGED <<store, todo, pending, audit>>

-----------------------------------------------------------------------------
(* sweep_stuck.                                                            *)
(* Mutants: no heartbeat guard; the comparison with the cutoff swapped.    *)
StuckByAge(c) == c.status = "in_progress" /\ c.age > MaxDuration + Grace
StuckSwapped(c) == c.status = "in_progress" /\ c.age < MaxDuration + Grace

Stuck(c) ==
    /\ c.status = "in_progress"
    /\ c.age > MaxDuration + Grace
    /\ c.quiet > MaxDuration

SweepList(s) ==
    /\ todo[s] = {} /\ pending[s] = {}
    /\ MayLoad(s)
    /\ \E r \in Runs : Stuck(store[r])
    /\ todo' = [todo EXCEPT ![s] =
                   {<<r, Ended(store[r], "failed")>> :
                       r \in {q \in Runs : Stuck(store[q])}}]
    /\ UNCHANGED <<store, job, pending, audit>>

(* The save of a record list_runs returned, whatever the store holds now.  *)
Reap(s) ==
    /\ pending[s] = {}
    /\ \E item \in todo[s] :
          /\ store' = [store EXCEPT ![item[1]] = item[2]]
          /\ todo' = [todo EXCEPT ![s] = @ \ {item}]
          /\ pending' = [pending EXCEPT ![s] = {item[2].attempt}]
    /\ UNCHANGED <<job, audit>>

ReapLog(s) ==
    /\ pending[s] # {}
    /\ audit' = audit \cup ({"run_reaped"} \X pending[s])
    /\ pending' = [pending EXCEPT ![s] = {}]
    /\ UNCHANGED <<store, job, todo>>

(* The sweeper died, or the store or the trail raised out of sweep_stuck.  *)
SweepDies(s) ==
    /\ todo[s] # {} \/ pending[s] # {}
    /\ todo' = [todo EXCEPT ![s] = {}]
    /\ pending' = [pending EXCEPT ![s] = {}]
    /\ UNCHANGED <<store, job, audit>>

-----------------------------------------------------------------------------
(* Time.                                                                   *)
Later(t) == IF t < Horizon THEN t + 1 ELSE t

Older(c) ==
    IF c.status = "in_progress"
    THEN [c EXCEPT !.age = Later(@), !.quiet = Later(@)]
    ELSE c

OnTime ==
    /\ \A a \in Attempts : job[a].pc \in Active =>
          job[a].pc = "phase" /\ job[a].ckpt.quiet < MaxDuration
    /\ \A s \in Sweepers : todo[s] = {} /\ pending[s] = {}

Tick ==
    /\ Timely => OnTime
    /\ store' = [r \in Runs |-> Older(store[r])]
    /\ job' = [a \in Attempts |-> [job[a] EXCEPT !.ckpt = Older(@)]]
    /\ UNCHANGED <<todo, pending, audit>>

-----------------------------------------------------------------------------
RunStep(a) ==
    \/ \E r \in Runs, o \in Owners :
          \/ Resume(a, r, o)
          \/ \E again \in BOOLEAN : Begin(a, r, o, again) \/ Refuse(a, r, o, again)
    \/ Claim(a) \/ Announce(a)
    \/ OverBudget(a) \/ BrakePulled(a) \/ SkipPhase(a) \/ StartPhase(a)
    \/ PhaseDone(a) \/ AllPhasesDone(a)
    \/ Verify(a) \/ Superseded(a) \/ Write(a)
    \/ LogPhase(a) \/ LogVerdict(a)
    \/ Raise(a) \/ Die(a)

SweepStep(s) ==
    SweepList(s) \/ Reap(s) \/ ReapLog(s) \/ SweepDies(s)

Next ==
    \/ \E a \in Attempts : RunStep(a)
    \/ \E s \in Sweepers : SweepStep(s)
    \/ Tick

Spec == Init /\ [][Next]_vars

(* Time passes and sweep_stuck is called again and again; a call that dies *)
(* is retried, so it cannot be cut short before its first save for ever.   *)
(* No worker is assumed to make progress: any of them may crash or hang.   *)
FairSpec ==
    /\ Spec
    /\ WF_vars(Tick)
    /\ \A s \in Sweepers :
          WF_vars(SweepList(s)) /\ SF_vars(Reap(s)) /\ WF_vars(ReapLog(s))

-----------------------------------------------------------------------------
(* Properties.                                                             *)

(* "A phase that has already produced its output is SKIPPED on resume":    *)
(* whatever is in the store, a retry can start from it.  The finished      *)
(* phases are the first ones, the shared state holds exactly what they     *)
(* produced, all of it on behalf of the run's own tenant and analysis, and *)
(* a run is marked completed only when no phase is missing.                *)
Resumable(c) ==
    /\ \E n \in 0..NumPhases : c.done = 1..n
    /\ c.data = {c.owner} \X c.done
    /\ c.status = "completed" => c.done = Phases

ResumableCheckpoint == \A r \in Runs : Resumable(store[r])

(* "A worker whose run was reaped, or taken over by a newer attempt, stops *)
(* at its next checkpoint instead of writing over it": a terminal record   *)
(* changes only when a retry claims the run, and a working record passes   *)
(* to another attempt only when that attempt claims it.                    *)
Claimed(r) ==
    \E a \in Attempts :
        /\ job[a].pc = "claim" /\ job'[a].pc = "announce"
        /\ job[a].run = r /\ store'[r].attempt = a

ReapedWorkerStops ==
    [][\A r \in Runs :
          \/ store[r].status \in Terminal /\ store'[r] # store[r]
          \/ store[r].attempt # store'[r].attempt
          => Claimed(r)]_vars

(* "a fresh run must never overwrite a run that already exists"            *)
FreshNeverOverwrites ==
    [][\A a \in Attempts :
          job[a].pc = "claim" /\ job'[a].pc = "announce" /\ ~job[a].resume
          => store[job[a].run].status = "absent"]_vars

(* "a retry costs only the work that was lost": the save that takes a run  *)
(* over keeps every phase the store had recorded.                          *)
RetryKeepsProgress ==
    [][\A a \in Attempts :
          job[a].pc = "claim" /\ job'[a].pc = "announce"
          => store[job[a].run].done \subseteq store'[job[a].run].done]_vars

(* "A run whose worker is still alive (recent heartbeat) is left alone":   *)
(* no step of the sweeper ends a run whose record, at that moment, shows a *)
(* heartbeat within max_duration_seconds.                                  *)
Reaps(s, r) ==
    /\ todo'[s] # todo[s]
    /\ store[r].status = "in_progress" /\ store'[r].status = "failed"

SweeperSparesAlive ==
    [][\A s \in Sweepers, r \in Runs :
          Reaps(s, r) => store[r].quiet > MaxDuration]_vars

(* When phases are shorter than the budget, the run of a worker that is    *)
(* still at work is never reaped, however long the run has lasted.         *)
WorkingNotReaped ==
    [][\A s \in Sweepers, r \in Runs :
          Reaps(s, r) => job[store[r].attempt].pc \notin Active]_vars

(* The budget, checked only before a phase, still bounds the attempt: when *)
(* phases are shorter than the budget, an attempt that holds its run ends  *)
(* before twice the budget has passed.                                     *)
BudgetHolds ==
    \A a \in Attempts, r \in Runs :
        (job[a].pc \in Inside /\ store[r].attempt = a
           /\ store[r].status = "in_progress")
        => store[r].age <= 2 * MaxDuration

(* The audit trail and the store never contradict each other: while an     *)
(* attempt is the last to have held its run, a verdict the trail gives it  *)
(* (its own, or the sweeper's) is the verdict in the store.                *)
TrailMatchesStore ==
    \A r \in Runs :
        LET c == store[r]
        IN  /\ <<"pipeline_completed", c.attempt>> \in audit
                  => c.status = "completed"
            /\ \/ <<"pipeline_failed", c.attempt>> \in audit
               \/ <<"run_reaped", c.attempt>> \in audit
               => c.status = "failed"

(* "no run hangs in `in_progress` forever"                                 *)
NoRunHangs ==
    \A r \in Runs :
        store[r].status = "in_progress" ~> store[r].status # "in_progress"

(* The store, read as the abstract life of its runs.                       *)
Lifecycle == INSTANCE RunLifecycle WITH
    life <- [r \in Runs |-> [status |-> store[r].status,
                             holder |-> store[r].attempt,
                             owner  |-> store[r].owner,
                             done   |-> store[r].done]]

ImplementsLifecycle == Lifecycle!Spec

-----------------------------------------------------------------------------
(* Inductive invariants.                                                   *)

(* A local state that stands where the loop can be.                        *)
Saving(j) == j.pc \in {"check", "write", "log"}

Placed(j) ==
    /\ j.pc \in Active => j.run \in Runs /\ j.who \in Owners
    /\ j.pc = "phase" \/ (Saving(j) /\ j.goal = "phase") => j.idx \in Phases

WellPlaced == \A a \in Attempts : Placed(job[a])

(* The local copy can be resumed from as well, and the shared state in     *)
(* memory is what its finished phases produced, except after a failure.    *)
InStep(j) ==
    j.pc \in Active =>
        /\ Resumable(j.ckpt) /\ j.ckpt.owner = j.who
        /\ ~Saving(j) \/ j.goal = "phase" => j.ctx = j.ckpt.data
        /\ j.pc = "brakes" => j.idx \in 1..(NumPhases + 1)
                              /\ 1..(j.idx - 1) \subseteq j.ckpt.done
        /\ j.pc = "phase" => j.ckpt.done = 1..(j.idx - 1)
        /\ Saving(j) /\ j.goal = "phase" => j.idx \in j.ckpt.done

Consistent ==
    /\ ResumableCheckpoint
    /\ \A s \in Sweepers : \A item \in todo[s] : Resumable(item[2])
    /\ \A a \in Attempts : InStep(job[a])

(* What separating no load from its save gives: whoever is about to save   *)
(* is alone, and what it loaded is still so.                               *)
Alone ==
    /\ \A a, b \in Attempts : Amid(a) /\ Amid(b) => a = b
    /\ \A a \in Attempts, s \in Sweepers : Amid(a) => todo[s] = {}
    /\ \A s, t \in Sweepers : todo[s] # {} /\ todo[t] # {} => s = t

(* What attempt a, in local state j, knows of the record c of its run.     *)
Knows(a, j, c) ==
    /\ j.pc \in Active => j.ckpt.attempt = a /\ j.ckpt.status # "absent"
    /\ j.pc \in Active \ {"claim"} => c.status # "absent"
    /\ j.pc = "claim" => /\ j.resume = FALSE => c.status = "absent"
                         /\ c.done \subseteq j.ckpt.done
    /\ j.pc = "write" => c.status = "in_progress" /\ c.attempt = a

Fresh ==
    /\ \A r \in Runs : store[r].status = "absent" => store[r].done = {}
    /\ \A a \in Attempts : Knows(a, job[a], store[job[a].run])
    /\ \A s \in Sweepers : \A item \in todo[s] :
          /\ store[item[1]].status = "in_progress"
          /\ store[item[1]].quiet > MaxDuration
          /\ store[item[1]].attempt = item[2].attempt
          /\ item[2].status = "failed"
          /\ \A other \in todo[s] : other[1] = item[1] => other = item

=============================================================================
