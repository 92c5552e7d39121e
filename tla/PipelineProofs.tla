--------------------------- MODULE PipelineProofs ---------------------------
(* What Pipeline guarantees for every number of runs, attempts, sweepers,  *)
(* owners and phases, and for every budget.                                *)
EXTENDS Pipeline, TLAPS

(* Every way the code makes a checkpoint gives a checkpoint.               *)
LEMMA CheckpointTypes ==
    /\ Absent \in Checkpoint
    /\ \A a \in Attempts, o \in Owners : NewCheckpoint(a, o) \in Checkpoint
    /\ \A c \in Checkpoint, a \in Attempts : Rehydrated(c, a) \in Checkpoint
    /\ \A c \in Checkpoint : Heartbeat(c) \in Checkpoint
    /\ \A c \in Checkpoint, v \in Terminal : Ended(c, v) \in Checkpoint
    /\ \A c \in Checkpoint : Older(c) \in Checkpoint
    /\ \A c \in Checkpoint, p \in Phases, d \in SUBSET (Owners \X Phases) :
          WithPhase(c, p, d) \in Checkpoint
<1>0. 0 \in Ages
  BY PipelineAssumption DEF Ages
<1> USE <1>0 DEF Checkpoint
<1>1. Absent \in Checkpoint
  BY DEF Absent
<1>2. ASSUME NEW a \in Attempts, NEW o \in Owners
      PROVE  NewCheckpoint(a, o) \in Checkpoint
  BY <1>1 DEF NewCheckpoint
<1>3. ASSUME NEW c \in Checkpoint, NEW a \in Attempts
      PROVE  Rehydrated(c, a) \in Checkpoint
  BY DEF Rehydrated
<1>4. ASSUME NEW c \in Checkpoint PROVE Heartbeat(c) \in Checkpoint
  BY DEF Heartbeat
<1>5. ASSUME NEW c \in Checkpoint, NEW v \in Terminal
      PROVE  Ended(c, v) \in Checkpoint
  BY DEF Ended
<1>6. ASSUME NEW c \in Checkpoint PROVE Older(c) \in Checkpoint
  <2>1. ASSUME NEW t \in Ages PROVE Later(t) \in Ages
    BY PipelineAssumption DEF Later, Ages
  <2>2. [c EXCEPT !.age = Later(@), !.quiet = Later(@)] \in Checkpoint
    BY <2>1
  <2> QED
    BY <2>2 DEF Older
<1>7. ASSUME NEW c \in Checkpoint, NEW p \in Phases,
             NEW d \in SUBSET (Owners \X Phases)
      PROVE  WithPhase(c, p, d) \in Checkpoint
  BY DEF WithPhase
<1> QED
  BY <1>1, <1>2, <1>3, <1>4, <1>5, <1>6, <1>7

LEMMA IdleType == Idle \in Job
BY CheckpointTypes, PipelineAssumption DEF Idle, Job, Goals

(* A step of one attempt keeps the types when its new local state has one. *)
LEMMA MoveTypes ==
    ASSUME job \in [Attempts -> Job], NEW a \in Attempts, NEW j \in Job,
           Move(a, j)
    PROVE  job' \in [Attempts -> Job]
BY DEF Move

LEMMA LeaveTypes ==
    ASSUME job \in [Attempts -> Job], NEW a \in Attempts,
           NEW how \in {"returned", "dead"}, Leave(a, how)
    PROVE  job' \in [Attempts -> Job]
<1>1. [Idle EXCEPT !.pc = how, !.run = job[a].run] \in Job
  BY IdleType DEF Job
<1> QED
  BY <1>1, MoveTypes DEF Leave

LEMMA FailingTypes ==
    ASSUME job \in [Attempts -> Job], NEW a \in Attempts,
           NEW h \in BOOLEAN, NEW ctx \in SUBSET (Owners \X Phases),
           Failing(a, h, ctx)
    PROVE  job' \in [Attempts -> Job]
<1>1. Ended(job[a].ckpt, "failed") \in Checkpoint
  BY CheckpointTypes DEF Job, Terminal
<1>2. [job[a] EXCEPT !.pc = "check", !.goal = "failed", !.handler = h,
                     !.ctx = ctx, !.ckpt = Ended(job[a].ckpt, "failed")] \in Job
  <2>1. "check" \in Active /\ "failed" \in Goals
    BY DEF Active, Inside, Goals
  <2>2. ASSUME NEW j \in Job, NEW c \in Checkpoint
        PROVE  [j EXCEPT !.pc = "check", !.goal = "failed", !.handler = h,
                         !.ctx = ctx, !.ckpt = c] \in Job
    BY <2>1 DEF Job
  <2>3. job[a] \in Job
    OBVIOUS
  <2> QED
    BY <1>1, <2>2, <2>3
<1> QED
  BY <1>2, MoveTypes DEF Failing

LEMMA RecordTypes ==
    ASSUME job \in [Attempts -> Job], NEW a \in Attempts,
           NEW c \in Checkpoint, NEW ctx \in SUBSET (Owners \X Phases),
           Record(a, c, ctx)
    PROVE  job' \in [Attempts -> Job]
<1>1. [job[a] EXCEPT !.pc = "check", !.goal = "phase", !.ctx = ctx,
                     !.ckpt = Heartbeat(c)] \in Job
  BY CheckpointTypes DEF Job, Active, Inside, Goals
<1> QED
  BY <1>1, MoveTypes DEF Record

(* A step keeps the types, given where the loop stands before it.          *)
LEMMA TypingStep == TypeOK /\ WellPlaced /\ [Next]_vars => TypeOK'
<1> SUFFICES ASSUME TypeOK, WellPlaced, [Next]_vars PROVE TypeOK'
  OBVIOUS
<1> USE DEF TypeOK
<1>1. ASSUME NEW a \in Attempts, RunStep(a) PROVE TypeOK'
  <2>0. /\ job[a] \in Job
        /\ job[a].ckpt \in Checkpoint
        /\ job[a].ctx \in SUBSET (Owners \X Phases)
    BY DEF Job
  <2>1. ASSUME NEW r \in Runs, NEW o \in Owners, Resume(a, r, o) PROVE TypeOK'
    <3>1. /\ Rehydrated(store[r], a) \in Checkpoint
          /\ store[r].data \in SUBSET (Owners \X Phases)
      BY CheckpointTypes DEF Checkpoint
    <3>2. [Idle EXCEPT !.pc = "claim", !.run = r, !.who = o,
                       !.resume = TRUE, !.ctx = store[r].data,
                       !.ckpt = Rehydrated(store[r], a)] \in Job
      BY <3>1, IdleType, Zenon DEF Job, Active
    <3> QED
      BY <2>1, <3>2, MoveTypes DEF Resume
  <2>2. ASSUME NEW r \in Runs, NEW o \in Owners, NEW again \in BOOLEAN,
               Begin(a, r, o, again)
        PROVE  TypeOK'
    <3>1. [Idle EXCEPT !.pc = "claim", !.run = r, !.who = o, !.resume = again,
                       !.ckpt = NewCheckpoint(a, o)] \in Job
      BY CheckpointTypes, IdleType, Zenon DEF Job, Active
    <3> QED
      BY <2>2, <3>1, MoveTypes DEF Begin
  <2>3. ASSUME NEW r \in Runs, NEW o \in Owners, NEW again \in BOOLEAN,
               Refuse(a, r, o, again)
        PROVE  TypeOK'
    BY <2>3, LeaveTypes DEF Refuse
  <2>4. CASE Claim(a)
    <3>1. [job[a] EXCEPT !.pc = "announce"] \in Job
      BY <2>0 DEF Job, Active
    <3> QED
      BY <2>0, <2>4, <3>1, MoveTypes DEF Claim
  <2>5. CASE Announce(a)
    <3>1. [job[a] EXCEPT !.pc = "brakes", !.idx = 1] \in Job
      <4>1. 1 \in 0..(NumPhases + 1)
        BY PipelineAssumption
      <4> QED
        BY <2>0, <4>1, Zenon DEF Job, Active, Inside
    <3> QED
      BY <2>5, <3>1, MoveTypes DEF Announce, Events
  <2>6. CASE OverBudget(a)
    BY <2>0, <2>6, FailingTypes DEF OverBudget
  <2>7. CASE BrakePulled(a)
    BY <2>0, <2>7, FailingTypes DEF BrakePulled
  <2>8. CASE SkipPhase(a)
    BY <2>0, <2>8, RecordTypes DEF SkipPhase
  <2>9. CASE StartPhase(a)
    <3>1. [job[a] EXCEPT !.pc = "phase"] \in Job
      BY <2>0 DEF Job, Active, Inside
    <3> QED
      BY <2>9, <3>1, MoveTypes DEF StartPhase
  <2>10. CASE PhaseDone(a)
    <3>1. job[a].idx \in Phases /\ job[a].who \in Owners
      BY <2>10 DEF PhaseDone, WellPlaced, Placed, Active, Inside
    <3>2. Produced(a) \in SUBSET (Owners \X Phases)
      BY <2>0, <3>1 DEF Produced
    <3>3. WithPhase(job[a].ckpt, job[a].idx, Produced(a)) \in Checkpoint
      BY <2>0, <3>1, <3>2, CheckpointTypes
    <3> QED
      BY <2>10, <3>2, <3>3, RecordTypes DEF PhaseDone
  <2>11. CASE AllPhasesDone(a)
    <3>1. Ended(job[a].ckpt, "completed") \in Checkpoint
      BY <2>0, CheckpointTypes DEF Terminal
    <3>2. [job[a] EXCEPT !.pc = "check", !.goal = "completed",
                         !.ckpt = Ended(job[a].ckpt, "completed")] \in Job
      BY <2>0, <3>1, Zenon DEF Job, Active, Inside, Goals
    <3> QED
      BY <2>11, <3>2, MoveTypes DEF AllPhasesDone
  <2>12. CASE Verify(a)
    <3>1. [job[a] EXCEPT !.pc = "write"] \in Job
      BY <2>0 DEF Job, Active, Inside
    <3> QED
      BY <2>12, <3>1, MoveTypes DEF Verify
  <2>13. CASE Superseded(a)
    BY <2>13, LeaveTypes DEF Superseded
  <2>14. CASE Write(a)
    <3>1. [job[a] EXCEPT !.pc = "log"] \in Job
      BY <2>0 DEF Job, Active, Inside
    <3> QED
      BY <2>0, <2>14, <3>1, MoveTypes DEF Write
  <2>15. CASE LogPhase(a)
    <3>1. job[a].idx + 1 \in 0..(NumPhases + 1)
      BY <2>15, PipelineAssumption DEF LogPhase, WellPlaced, Placed, Saving, Phases
    <3>2. [job[a] EXCEPT !.pc = "brakes", !.idx = @ + 1, !.goal = "none"] \in Job
      BY <2>0, <3>1, Zenon DEF Job, Active, Inside, Goals
    <3>3. Entry(a) \in Events \X (Attempts \cup {None})
      BY DEF Entry, Events
    <3> QED
      BY <2>15, <3>2, <3>3, MoveTypes DEF LogPhase
  <2>16. CASE LogVerdict(a)
    BY <2>16, LeaveTypes DEF LogVerdict, Entry, Events
  <2>17. CASE Raise(a)
    <3>1. CASE job[a].pc = "phase"
      <4>1. job[a].idx \in Phases /\ job[a].who \in Owners
        BY <3>1 DEF WellPlaced, Placed, Active, Inside
      <4>2. Produced(a) \in SUBSET (Owners \X Phases)
        BY <2>0, <4>1 DEF Produced
      <4> QED
        BY <2>17, <3>1, <4>2, FailingTypes DEF Raise
    <3>2. CASE job[a].pc # "phase"
      <4>1. job' \in [Attempts -> Job]
        BY <2>0, <2>17, <3>2, FailingTypes DEF Raise
      <4>2. Entry(a) \in Events \X (Attempts \cup {None})
        BY DEF Entry, Events
      <4> QED
        BY <2>17, <4>1, <4>2 DEF Raise
    <3> QED
      BY <3>1, <3>2
  <2>18. CASE Die(a)
    BY <2>18, LeaveTypes DEF Die
  <2> HIDE DEF TypeOK
  <2> QED
    BY <1>1, <2>1, <2>2, <2>3, <2>4, <2>5, <2>6, <2>7, <2>8, <2>9, <2>10,
       <2>11, <2>12, <2>13, <2>14, <2>15, <2>16, <2>17, <2>18, Zenon
    DEF RunStep
<1>2. ASSUME NEW s \in Sweepers, SweepStep(s) PROVE TypeOK'
  <2>1. CASE SweepList(s)
    BY <2>1, CheckpointTypes DEF SweepList, Terminal
  <2>2. CASE Reap(s)
    BY <2>2 DEF Reap, Checkpoint
  <2>3. CASE ReapLog(s)
    BY <2>3 DEF ReapLog, Events
  <2>4. CASE SweepDies(s)
    BY <2>4 DEF SweepDies
  <2> QED
    BY <1>2, <2>1, <2>2, <2>3, <2>4 DEF SweepStep
<1>3. CASE Tick
  <2>1. ASSUME NEW a \in Attempts
        PROVE  [job[a] EXCEPT !.ckpt = Older(@)] \in Job
    <3>1. job[a] \in Job /\ Older(job[a].ckpt) \in Checkpoint
      BY CheckpointTypes DEF Job
    <3> QED
      BY <3>1, Zenon DEF Job
  <2>2. job' \in [Attempts -> Job]
    BY <1>3, <2>1, Zenon DEF Tick
  <2>3. store' \in [Runs -> Checkpoint]
    BY <1>3, CheckpointTypes DEF Tick
  <2> QED
    BY <1>3, <2>2, <2>3 DEF Tick
<1>4. CASE UNCHANGED vars
  BY <1>4 DEF vars
<1> QED
  BY <1>1, <1>2, <1>3, <1>4 DEF Next

LEMMA MovePlaced ==
    ASSUME job \in [Attempts -> Job], WellPlaced,
           NEW a \in Attempts, NEW j, Placed(j), Move(a, j)
    PROVE  WellPlaced'
BY DEF Move, WellPlaced

(* A step keeps the loop where its records say it is.                      *)
LEMMA PlacedStep == TypeOK /\ WellPlaced /\ [Next]_vars => WellPlaced'
<1> SUFFICES ASSUME TypeOK, WellPlaced, [Next]_vars PROVE WellPlaced'
  OBVIOUS
<1>1. ASSUME NEW a \in Attempts, RunStep(a) PROVE WellPlaced'
  <2>0. job \in [Attempts -> Job] /\ job[a] \in Job /\ Placed(job[a])
    BY DEF TypeOK, WellPlaced
  <2>l. ASSUME NEW how \in {"returned", "dead"}, Leave(a, how)
        PROVE  WellPlaced'
    <3>1. Placed([Idle EXCEPT !.pc = how, !.run = job[a].run])
      BY DEF Placed, Saving, Idle, Active, Inside
    <3> QED
      BY <2>0, <2>l, <3>1, MovePlaced DEF Leave
  <2>f. ASSUME NEW h \in BOOLEAN, NEW ctx, Failing(a, h, ctx), job[a].pc \in Active
        PROVE  WellPlaced'
    <3>1. Placed([job[a] EXCEPT !.pc = "check", !.goal = "failed", !.handler = h,
                     !.ctx = ctx, !.ckpt = Ended(job[a].ckpt, "failed")])
      BY <2>0, <2>f DEF Placed, Saving, Job
    <3> QED
      BY <2>0, <2>f, <3>1, MovePlaced DEF Failing
  <2>r. ASSUME NEW c, NEW ctx, Record(a, c, ctx),
               job[a].pc \in Active, job[a].idx \in Phases
        PROVE  WellPlaced'
    <3>1. Placed([job[a] EXCEPT !.pc = "check", !.goal = "phase", !.ctx = ctx,
                                !.ckpt = Heartbeat(c)])
      BY <2>0, <2>r DEF Placed, Saving, Job
    <3> QED
      BY <2>0, <2>r, <3>1, MovePlaced DEF Record
  <2>1. ASSUME NEW r \in Runs, NEW o \in Owners, Resume(a, r, o)
        PROVE  WellPlaced'
    <3>1. Placed([Idle EXCEPT !.pc = "claim", !.run = r, !.who = o,
                              !.resume = TRUE, !.ctx = store[r].data,
                              !.ckpt = Rehydrated(store[r], a)])
      BY DEF Placed, Saving, Idle
    <3> QED
      BY <2>0, <2>1, <3>1, MovePlaced DEF Resume
  <2>2. ASSUME NEW r \in Runs, NEW o \in Owners, NEW again \in BOOLEAN,
               Begin(a, r, o, again)
        PROVE  WellPlaced'
    <3>1. Placed([Idle EXCEPT !.pc = "claim", !.run = r, !.who = o,
                              !.resume = again, !.ckpt = NewCheckpoint(a, o)])
      BY DEF Placed, Saving, Idle
    <3> QED
      BY <2>0, <2>2, <3>1, MovePlaced DEF Begin
  <2>3. ASSUME NEW r \in Runs, NEW o \in Owners, NEW again \in BOOLEAN,
               Refuse(a, r, o, again)
        PROVE  WellPlaced'
    BY <2>3, <2>l DEF Refuse
  <2>4. CASE Claim(a)
    <3>1. Placed([job[a] EXCEPT !.pc = "announce"])
      BY <2>0, <2>4 DEF Claim, Placed, Saving, Active, Job
    <3> QED
      BY <2>0, <2>4, <3>1, MovePlaced DEF Claim
  <2>5. CASE Announce(a)
    <3>1. Placed([job[a] EXCEPT !.pc = "brakes", !.idx = 1])
      BY <2>0, <2>5 DEF Announce, Placed, Saving, Active, Job
    <3> QED
      BY <2>0, <2>5, <3>1, MovePlaced DEF Announce
  <2>6. CASE OverBudget(a)
    BY <2>6, <2>f DEF OverBudget, AtPhase, Active, Inside
  <2>7. CASE BrakePulled(a)
    BY <2>7, <2>f DEF BrakePulled, AtPhase, Active, Inside
  <2>8. CASE SkipPhase(a)
    BY <2>8, <2>r DEF SkipPhase, AtPhase, Active, Inside
  <2>9. CASE StartPhase(a)
    <3>1. Placed([job[a] EXCEPT !.pc = "phase"])
      BY <2>0, <2>9 DEF StartPhase, AtPhase, Placed, Saving, Active, Inside, Job
    <3> QED
      BY <2>0, <2>9, <3>1, MovePlaced DEF StartPhase
  <2>10. CASE PhaseDone(a)
    BY <2>0, <2>10, <2>r DEF PhaseDone, Placed, Active, Inside
  <2>11. CASE AllPhasesDone(a)
    <3>1. Placed([job[a] EXCEPT !.pc = "check", !.goal = "completed",
                                !.ckpt = Ended(job[a].ckpt, "completed")])
      BY <2>0, <2>11 DEF AllPhasesDone, Placed, Saving, Active, Inside, Job
    <3> QED
      BY <2>0, <2>11, <3>1, MovePlaced DEF AllPhasesDone
  <2>12. CASE Verify(a)
    <3>1. Placed([job[a] EXCEPT !.pc = "write"])
      BY <2>0, <2>12 DEF Verify, Placed, Saving, Active, Inside, Job
    <3> QED
      BY <2>0, <2>12, <3>1, MovePlaced DEF Verify
  <2>13. CASE Superseded(a)
    BY <2>13, <2>l DEF Superseded
  <2>14. CASE Write(a)
    <3>1. Placed([job[a] EXCEPT !.pc = "log"])
      BY <2>0, <2>14 DEF Write, Placed, Saving, Active, Inside, Job
    <3> QED
      BY <2>0, <2>14, <3>1, MovePlaced DEF Write
  <2>15. CASE LogPhase(a)
    <3>1. Placed([job[a] EXCEPT !.pc = "brakes", !.idx = @ + 1, !.goal = "none"])
      BY <2>0, <2>15 DEF LogPhase, Placed, Saving, Active, Inside, Job
    <3> QED
      BY <2>0, <2>15, <3>1, MovePlaced DEF LogPhase
  <2>16. CASE LogVerdict(a)
    BY <2>16, <2>l DEF LogVerdict
  <2>17. CASE Raise(a)
    BY <2>17, <2>f DEF Raise, Active
  <2>18. CASE Die(a)
    BY <2>18, <2>l DEF Die
  <2> QED
    BY <1>1, <2>1, <2>2, <2>3, <2>4, <2>5, <2>6, <2>7, <2>8, <2>9, <2>10,
       <2>11, <2>12, <2>13, <2>14, <2>15, <2>16, <2>17, <2>18, Zenon
    DEF RunStep
<1>2. ASSUME NEW s \in Sweepers, SweepStep(s) PROVE WellPlaced'
  <2>1. UNCHANGED job
    BY <1>2 DEF SweepStep, SweepList, Reap, ReapLog, SweepDies
  <2> QED
    BY <2>1 DEF WellPlaced
<1>3. CASE Tick
  <2>1. ASSUME NEW a \in Attempts PROVE Placed([job[a] EXCEPT !.ckpt = Older(@)])
    BY DEF TypeOK, WellPlaced, Placed, Saving, Job
  <2> QED
    BY <1>3, <2>1 DEF Tick, WellPlaced
<1>4. CASE UNCHANGED vars
  BY <1>4 DEF vars, WellPlaced
<1> QED
  BY <1>1, <1>2, <1>3, <1>4 DEF Next

(* Type correctness: the checkpoints, the local state of every attempt and *)
(* of every sweeper, and the audit trail keep their shape.                 *)
THEOREM Typing == Spec => [](TypeOK /\ WellPlaced)
<1>1. Init => TypeOK /\ WellPlaced
  BY CheckpointTypes, IdleType
  DEF Init, TypeOK, WellPlaced, Placed, Saving, Idle, Active, Inside
<1> QED
  BY <1>1, TypingStep, PlacedStep, PTL DEF Spec

-----------------------------------------------------------------------------
(* Consistency of what is saved.                                           *)

LEMMA FirstIsResumable ==
    /\ Resumable(Absent)
    /\ \A a \in Attempts, o \in Owners : Resumable(NewCheckpoint(a, o))
<1>1. 0 \in 0..NumPhases /\ 1..0 = {}
  BY PipelineAssumption
<1>2. ASSUME NEW o PROVE {o} \X {} = {}
  OBVIOUS
<1>3. Absent.done = {} /\ Absent.data = {} /\ Absent.status = "absent"
  BY DEF Absent
<1>4. ASSUME NEW a \in Attempts, NEW o \in Owners
      PROVE  /\ NewCheckpoint(a, o).done = {}
             /\ NewCheckpoint(a, o).data = {}
             /\ NewCheckpoint(a, o).status = "in_progress"
  BY DEF NewCheckpoint, Absent
<1> QED
  BY <1>1, <1>2, <1>3, <1>4 DEF Resumable

(* Everything but the end of a phase keeps a checkpoint resumable.         *)
LEMMA ResumableKept ==
    ASSUME NEW c \in Checkpoint, Resumable(c)
    PROVE  /\ \A a \in Attempts : Resumable(Rehydrated(c, a))
           /\ Resumable(Heartbeat(c)) /\ Resumable(Older(c))
           /\ Resumable(Ended(c, "failed"))
           /\ Phases \subseteq c.done => Resumable(Ended(c, "completed"))
<1>1. ASSUME NEW d \in Checkpoint, d.done = c.done, d.data = c.data,
             d.owner = c.owner, d.status # "completed"
      PROVE  Resumable(d)
  BY <1>1 DEF Resumable
<1>2. ASSUME NEW a \in Attempts PROVE Resumable(Rehydrated(c, a))
  <2> DEFINE d == Rehydrated(c, a)
  <2>1. /\ d.done = c.done /\ d.data = c.data /\ d.owner = c.owner
        /\ d.status = "in_progress"
    BY DEF Rehydrated, Checkpoint
  <2>2. d \in Checkpoint
    BY CheckpointTypes
  <2> HIDE DEF d
  <2>3. Resumable(d)
    BY <1>1, <2>1, <2>2
  <2> QED
    BY <2>3 DEF d
<1>3. Resumable(Heartbeat(c))
  BY DEF Heartbeat, Resumable, Checkpoint
<1>4. Resumable(Older(c))
  BY DEF Older, Resumable, Checkpoint
<1>5. Resumable(Ended(c, "failed"))
  <2> DEFINE d == Ended(c, "failed")
  <2>1. /\ d.done = c.done /\ d.data = c.data /\ d.owner = c.owner
        /\ d.status = "failed"
    BY DEF Ended, Checkpoint
  <2>2. d \in Checkpoint
    BY CheckpointTypes DEF Terminal
  <2> HIDE DEF d
  <2>3. Resumable(d)
    BY <1>1, <2>1, <2>2
  <2> QED
    BY <2>3 DEF d
<1>6. ASSUME Phases \subseteq c.done PROVE Resumable(Ended(c, "completed"))
  <2>1. Ended(c, "completed").done = Phases
    BY <1>6 DEF Ended, Checkpoint
  <2>2. Ended(c, "completed").data = {Ended(c, "completed").owner} \X c.done
    BY DEF Ended, Resumable, Checkpoint
  <2>3. c.done = Phases /\ NumPhases \in 0..NumPhases
    BY <1>6, PipelineAssumption DEF Checkpoint
  <2> QED
    BY <2>1, <2>2, <2>3 DEF Resumable, Phases
<1> QED
  BY <1>2, <1>3, <1>4, <1>5, <1>6

(* The end of the next phase keeps it resumable too.                       *)
LEMMA ResumableExtended ==
    ASSUME NEW c \in Checkpoint, Resumable(c), NEW p \in Phases,
           c.done = 1..(p - 1)
    PROVE  Resumable(Heartbeat(WithPhase(c, p, c.data \cup {<<c.owner, p>>})))
<1> DEFINE d == Heartbeat(WithPhase(c, p, c.data \cup {<<c.owner, p>>}))
<1>1. /\ d.done = c.done \cup {p}
      /\ d.data = c.data \cup {<<c.owner, p>>}
      /\ d.owner = c.owner /\ d.status = c.status
  BY DEF Heartbeat, WithPhase, Checkpoint
<1>2. c.done \cup {p} = 1..p /\ p \in 0..NumPhases
  BY PipelineAssumption DEF Phases
<1> HIDE DEF d
<1>3. d.data = {d.owner} \X d.done
  <2>1. c.data = {c.owner} \X c.done
    BY DEF Resumable
  <2>2. ({c.owner} \X c.done) \cup {<<c.owner, p>>}
           = {c.owner} \X (c.done \cup {p})
    OBVIOUS
  <2> QED
    BY <1>1, <2>1, <2>2
<1>4. d.status = "completed" => d.done = Phases
  BY <1>1 DEF Resumable
<1>5. Resumable(d)
  BY <1>1, <1>2, <1>3, <1>4 DEF Resumable
<1> QED
  BY <1>5 DEF d

(* What a step saves, and what a sweeper is about to save, is resumable.   *)
LEMMA SavedStep ==
    ASSUME TypeOK, WellPlaced, Consistent, [Next]_vars
    PROVE  /\ ResumableCheckpoint'
           /\ \A s \in Sweepers : \A item \in todo'[s] : Resumable(item[2])
<1> USE DEF ResumableCheckpoint
<1>0. /\ \A r \in Runs : store[r] \in Checkpoint /\ Resumable(store[r])
      /\ \A s \in Sweepers : \A item \in todo[s] : Resumable(item[2])
  BY DEF TypeOK, Consistent
<1>1. ASSUME NEW a \in Attempts, RunStep(a)
      PROVE  /\ UNCHANGED todo
             /\ \/ UNCHANGED store
                \/ store' = [store EXCEPT ![job[a].run] = job[a].ckpt]
                   /\ job[a].pc \in Active
  BY <1>1 DEF RunStep, Resume, Begin, Refuse, Claim, Announce, OverBudget,
     BrakePulled, SkipPhase, StartPhase, PhaseDone, AllPhasesDone, Verify,
     Superseded, Write, LogPhase, LogVerdict, Raise, Die, Active, Inside
<1>2. ASSUME NEW a \in Attempts, RunStep(a) PROVE ResumableCheckpoint'
  <2>1. job[a].pc \in Active => Resumable(job[a].ckpt)
    BY DEF Consistent, InStep
  <2> QED
    BY <1>0, <1>1, <1>2, <2>1 DEF TypeOK
<1>3. ASSUME NEW s \in Sweepers, SweepStep(s)
      PROVE  /\ ResumableCheckpoint'
             /\ \A t \in Sweepers : \A item \in todo'[t] : Resumable(item[2])
  <2>1. CASE SweepList(s)
    <3>1. \A r \in Runs : Resumable(Ended(store[r], "failed"))
      BY <1>0, ResumableKept
    <3> QED
      BY <1>0, <2>1, <3>1 DEF SweepList, TypeOK
  <2>2. CASE Reap(s)
    <3>1. PICK item \in todo[s] :
             /\ store' = [store EXCEPT ![item[1]] = item[2]]
             /\ todo' = [todo EXCEPT ![s] = @ \ {item}]
      BY <2>2 DEF Reap
    <3> QED
      BY <1>0, <3>1 DEF TypeOK
  <2>3. CASE ReapLog(s)
    BY <1>0, <2>3 DEF ReapLog
  <2>4. CASE SweepDies(s)
    BY <1>0, <2>4 DEF SweepDies, TypeOK
  <2> HIDE DEF ResumableCheckpoint
  <2> QED
    BY <1>3, <2>1, <2>2, <2>3, <2>4 DEF SweepStep
<1>4. CASE Tick
  <2>1. \A r \in Runs : Resumable(Older(store[r]))
    BY <1>0, ResumableKept
  <2> QED
    BY <1>0, <1>4, <2>1 DEF Tick
<1>5. CASE UNCHANGED vars
  BY <1>0, <1>5 DEF vars
<1> HIDE DEF ResumableCheckpoint
<1> QED
  BY <1>0, <1>1, <1>2, <1>3, <1>4, <1>5 DEF Next, Tick

LEMMA MoveInStep ==
    ASSUME job \in [Attempts -> Job], \A b \in Attempts : InStep(job[b]),
           NEW a \in Attempts, NEW j, InStep(j), Move(a, j)
    PROVE  \A b \in Attempts : InStep(job'[b])
BY DEF Move

(* A step keeps the local copies in step with the loop.                    *)
LEMMA InStepStep ==
    ASSUME TypeOK, WellPlaced, Consistent, [Next]_vars
    PROVE  \A b \in Attempts : InStep(job'[b])
<1> DEFINE Goal == \A b \in Attempts : InStep(job'[b])
<1>1. ASSUME NEW a \in Attempts, RunStep(a) PROVE Goal
  <2>0. /\ job \in [Attempts -> Job] /\ job[a] \in Job /\ Placed(job[a])
        /\ \A b \in Attempts : InStep(job[b])
        /\ job[a].ckpt \in Checkpoint
        /\ job[a].pc \in Active => /\ Resumable(job[a].ckpt)
                                  /\ job[a].ckpt.owner = job[a].who
    BY DEF TypeOK, WellPlaced, Consistent, InStep, Job
  <2>l. ASSUME NEW how \in {"returned", "dead"}, Leave(a, how) PROVE Goal
    <3>1. InStep([Idle EXCEPT !.pc = how, !.run = job[a].run])
      BY DEF InStep, Idle, Active, Inside
    <3> QED
      BY <2>0, <2>l, <3>1, MoveInStep DEF Leave
  <2>f. ASSUME NEW h \in BOOLEAN, NEW ctx, Failing(a, h, ctx), job[a].pc \in Active
        PROVE  Goal
    <3> DEFINE c == Ended(job[a].ckpt, "failed")
               j == [job[a] EXCEPT !.pc = "check", !.goal = "failed",
                        !.handler = h, !.ctx = ctx, !.ckpt = c]
    <3>1. Resumable(c) /\ c.owner = job[a].ckpt.owner
      BY <2>0, <2>f, ResumableKept DEF Ended, Checkpoint
    <3> HIDE DEF c
    <3>2. /\ j.pc = "check" /\ j.goal = "failed" /\ j.ckpt = c
          /\ j.who = job[a].who
      BY <2>0 DEF Job
    <3>3. j.ckpt.owner = j.who
      BY <2>0, <2>f, <3>1, <3>2
    <3> HIDE DEF j
    <3>4. InStep(j)
      BY <3>1, <3>2, <3>3 DEF InStep, Saving
    <3> QED
      BY <2>0, <2>f, <3>4, MoveInStep DEF Failing, j, c
  <2>1. ASSUME NEW r \in Runs, NEW o \in Owners, Resume(a, r, o) PROVE Goal
    <3> DEFINE c == Rehydrated(store[r], a)
               j == [Idle EXCEPT !.pc = "claim", !.run = r, !.who = o,
                        !.resume = TRUE, !.ctx = store[r].data, !.ckpt = c]
    <3>0. store[r] \in Checkpoint /\ Resumable(store[r]) /\ store[r].owner = o
      BY <2>1 DEF Resume, TypeOK, Consistent, ResumableCheckpoint
    <3>1. Resumable(c) /\ c.owner = o /\ c.data = store[r].data
      BY <3>0, ResumableKept DEF Rehydrated, Checkpoint
    <3> HIDE DEF c
    <3>2. /\ j.pc = "claim" /\ j.who = o /\ j.ctx = store[r].data /\ j.ckpt = c
          /\ j.goal = "none"
      BY DEF Idle
    <3> HIDE DEF j
    <3>3. InStep(j)
      BY <3>1, <3>2 DEF InStep, Saving
    <3> QED
      BY <2>0, <2>1, <3>3, MoveInStep DEF Resume, j, c
  <2>2. ASSUME NEW r \in Runs, NEW o \in Owners, NEW again \in BOOLEAN,
               Begin(a, r, o, again)
        PROVE  Goal
    <3> DEFINE c == NewCheckpoint(a, o)
               j == [Idle EXCEPT !.pc = "claim", !.run = r, !.who = o,
                                 !.resume = again, !.ckpt = c]
    <3>1. Resumable(c) /\ c.owner = o /\ c.data = {}
      BY FirstIsResumable DEF NewCheckpoint, Absent
    <3> HIDE DEF c
    <3>2. /\ j.pc = "claim" /\ j.who = o /\ j.ctx = {} /\ j.ckpt = c
          /\ j.goal = "none"
      BY DEF Idle
    <3> HIDE DEF j
    <3>3. InStep(j)
      BY <3>1, <3>2 DEF InStep, Saving
    <3> QED
      BY <2>0, <2>2, <3>3, MoveInStep DEF Begin, j, c
  <2>3. ASSUME NEW r \in Runs, NEW o \in Owners, NEW again \in BOOLEAN,
               Refuse(a, r, o, again)
        PROVE  Goal
    BY <2>3, <2>l DEF Refuse
  <2>4. CASE Claim(a)
    <3>1. InStep([job[a] EXCEPT !.pc = "announce"])
      BY <2>0, <2>4 DEF Claim, InStep, Saving, Active, Job
    <3> QED
      BY <2>0, <2>4, <3>1, MoveInStep DEF Claim
  <2>5. CASE Announce(a)
    <3>1. /\ 1 \in 1..(NumPhases + 1)
          /\ 1..(1 - 1) = {}
      BY PipelineAssumption
    <3> DEFINE j == [job[a] EXCEPT !.pc = "brakes", !.idx = 1]
    <3>2. /\ j.pc = "brakes" /\ j.idx = 1 /\ j.who = job[a].who
          /\ j.ckpt = job[a].ckpt /\ j.ctx = job[a].ctx
      BY <2>0 DEF Job
    <3>3. job[a].pc = "announce"
      BY <2>5 DEF Announce
    <3>4. job[a].ctx = job[a].ckpt.data
      BY <2>0, <3>3 DEF InStep, Saving, Active
    <3> HIDE DEF j
    <3>5. InStep(j)
      BY <2>0, <3>1, <3>2, <3>3, <3>4 DEF InStep, Saving, Active
    <3> QED
      BY <2>0, <2>5, <3>5, MoveInStep DEF Announce, j
  <2>6. CASE OverBudget(a)
    BY <2>6, <2>f DEF OverBudget, AtPhase, Active, Inside
  <2>7. CASE BrakePulled(a)
    BY <2>7, <2>f DEF BrakePulled, AtPhase, Active, Inside
  <2>8. CASE SkipPhase(a)
    <3> DEFINE c == Heartbeat(job[a].ckpt)
               j == [job[a] EXCEPT !.pc = "check", !.goal = "phase",
                                   !.ctx = job[a].ctx, !.ckpt = c]
    <3>0. /\ job[a].pc = "brakes" /\ job[a].idx \in job[a].ckpt.done
          /\ job[a].ctx = job[a].ckpt.data
      BY <2>0, <2>8 DEF SkipPhase, AtPhase, InStep, Saving, Active, Inside
    <3>1. Resumable(c) /\ c.owner = job[a].who
      BY <2>0, <3>0, ResumableKept DEF Heartbeat, Checkpoint, Active, Inside
    <3>2. c.done = job[a].ckpt.done /\ c.data = job[a].ckpt.data
      BY <2>0 DEF Heartbeat, Checkpoint
    <3> HIDE DEF c
    <3>3. /\ j.pc = "check" /\ j.idx = job[a].idx /\ j.who = job[a].who
          /\ j.ckpt = c /\ j.ctx = job[a].ctx
      BY <2>0 DEF Job
    <3> HIDE DEF j
    <3>4. InStep(j)
      BY <3>0, <3>1, <3>2, <3>3 DEF InStep, Saving
    <3> QED
      BY <2>0, <2>8, <3>4, MoveInStep DEF SkipPhase, Record, j, c
  <2>9. CASE StartPhase(a)
    <3> DEFINE j == [job[a] EXCEPT !.pc = "phase"]
    <3>1. /\ job[a].pc = "brakes" /\ job[a].idx \in Phases
          /\ job[a].idx \notin job[a].ckpt.done
          /\ 1..(job[a].idx - 1) \subseteq job[a].ckpt.done
          /\ job[a].ctx = job[a].ckpt.data
      BY <2>0, <2>9 DEF StartPhase, AtPhase, InStep, Saving, Active, Inside
    <3>2. PICK n \in 0..NumPhases : job[a].ckpt.done = 1..n
      BY <2>0, <3>1 DEF Resumable, Active, Inside
    <3>3. job[a].ckpt.done = 1..(job[a].idx - 1)
      <4>1. job[a].idx > n
        BY <3>1, <3>2, PipelineAssumption DEF Phases
      <4>2. job[a].idx - 1 <= n
        <5>1. CASE job[a].idx = 1
          BY <5>1
        <5>2. CASE job[a].idx # 1
          <6>1. job[a].idx - 1 \in 1..(job[a].idx - 1)
            BY <3>1, <5>2, PipelineAssumption DEF Phases
          <6> QED
            BY <3>1, <3>2, <6>1
        <5> QED
          BY <5>1, <5>2
      <4>3. n = job[a].idx - 1
        BY <3>1, <4>1, <4>2, PipelineAssumption DEF Phases
      <4> QED
        BY <3>2, <4>3
    <3>4. /\ j.pc = "phase" /\ j.idx = job[a].idx /\ j.who = job[a].who
          /\ j.ckpt = job[a].ckpt /\ j.ctx = job[a].ctx
      BY <2>0 DEF Job
    <3> HIDE DEF j
    <3>5. InStep(j)
      BY <2>0, <3>1, <3>3, <3>4 DEF InStep, Saving, Active, Inside
    <3> QED
      BY <2>0, <2>9, <3>5, MoveInStep DEF StartPhase, j
  <2>10. CASE PhaseDone(a)
    <3> DEFINE d == Produced(a)
               c == Heartbeat(WithPhase(job[a].ckpt, job[a].idx, d))
               j == [job[a] EXCEPT !.pc = "check", !.goal = "phase",
                                   !.ctx = d, !.ckpt = c]
    <3>1. /\ job[a].pc = "phase" /\ job[a].idx \in Phases
          /\ job[a].ckpt.done = 1..(job[a].idx - 1)
          /\ job[a].ctx = job[a].ckpt.data
          /\ Resumable(job[a].ckpt) /\ job[a].ckpt.owner = job[a].who
      BY <2>0, <2>10 DEF PhaseDone, Placed, InStep, Saving, Active, Inside
    <3>2. d = job[a].ckpt.data \cup {<<job[a].ckpt.owner, job[a].idx>>}
      BY <3>1 DEF Produced
    <3>3. Resumable(c)
      BY <2>0, <3>1, <3>2, ResumableExtended
    <3>4. /\ c.owner = job[a].who /\ c.data = d /\ job[a].idx \in c.done
      BY <2>0, <3>1 DEF Heartbeat, WithPhase, Checkpoint
    <3> HIDE DEF c, d
    <3>5. /\ j.pc = "check" /\ j.idx = job[a].idx /\ j.who = job[a].who
          /\ j.ckpt = c /\ j.ctx = d
      BY <2>0 DEF Job
    <3> HIDE DEF j
    <3>6. InStep(j)
      BY <3>3, <3>4, <3>5 DEF InStep, Saving
    <3> QED
      BY <2>0, <2>10, <3>6, MoveInStep DEF PhaseDone, Record, j, c, d
  <2>11. CASE AllPhasesDone(a)
    <3> DEFINE c == Ended(job[a].ckpt, "completed")
               j == [job[a] EXCEPT !.pc = "check", !.goal = "completed",
                                   !.ckpt = c]
    <3>1. job[a].pc = "brakes" /\ Phases \subseteq job[a].ckpt.done
      BY <2>0, <2>11, PipelineAssumption
      DEF AllPhasesDone, InStep, Active, Inside, Phases
    <3>2. Resumable(c) /\ c.owner = job[a].who
      BY <2>0, <3>1, ResumableKept DEF Ended, Checkpoint, Active, Inside
    <3> HIDE DEF c
    <3>3. /\ j.pc = "check" /\ j.goal = "completed" /\ j.who = job[a].who
          /\ j.ckpt = c
      BY <2>0 DEF Job
    <3> HIDE DEF j
    <3>4. InStep(j)
      BY <3>2, <3>3 DEF InStep, Saving
    <3> QED
      BY <2>0, <2>11, <3>4, MoveInStep DEF AllPhasesDone, j, c
  <2>12. CASE Verify(a)
    <3>1. InStep([job[a] EXCEPT !.pc = "write"])
      BY <2>0, <2>12 DEF Verify, InStep, Saving, Active, Inside, Job
    <3> QED
      BY <2>0, <2>12, <3>1, MoveInStep DEF Verify
  <2>13. CASE Superseded(a)
    BY <2>13, <2>l DEF Superseded
  <2>14. CASE Write(a)
    <3>1. InStep([job[a] EXCEPT !.pc = "log"])
      BY <2>0, <2>14 DEF Write, InStep, Saving, Active, Inside, Job
    <3> QED
      BY <2>0, <2>14, <3>1, MoveInStep DEF Write
  <2>15. CASE LogPhase(a)
    <3> DEFINE j == [job[a] EXCEPT !.pc = "brakes", !.idx = @ + 1,
                                   !.goal = "none"]
    <3>1. /\ job[a].pc = "log" /\ job[a].idx \in Phases
          /\ job[a].idx \in job[a].ckpt.done
          /\ job[a].ctx = job[a].ckpt.data
      BY <2>0, <2>15 DEF LogPhase, Placed, InStep, Saving, Active, Inside
    <3>2. PICK n \in 0..NumPhases : job[a].ckpt.done = 1..n
      BY <2>0, <3>1 DEF Resumable, Active, Inside
    <3>3. /\ 1..((job[a].idx + 1) - 1) \subseteq job[a].ckpt.done
          /\ job[a].idx + 1 \in 1..(NumPhases + 1)
      BY <3>1, <3>2, PipelineAssumption DEF Phases
    <3>4. /\ j.pc = "brakes" /\ j.idx = job[a].idx + 1 /\ j.who = job[a].who
          /\ j.ckpt = job[a].ckpt /\ j.ctx = job[a].ctx
      BY <2>0 DEF Job
    <3> HIDE DEF j
    <3>5. InStep(j)
      BY <2>0, <3>1, <3>3, <3>4 DEF InStep, Saving, Active, Inside
    <3> QED
      BY <2>0, <2>15, <3>5, MoveInStep DEF LogPhase, j
  <2>16. CASE LogVerdict(a)
    BY <2>16, <2>l DEF LogVerdict
  <2>17. CASE Raise(a)
    BY <2>17, <2>f DEF Raise, Active
  <2>18. CASE Die(a)
    BY <2>18, <2>l DEF Die
  <2> HIDE DEF Goal
  <2> QED
    BY <1>1, <2>1, <2>2, <2>3, <2>4, <2>5, <2>6, <2>7, <2>8, <2>9, <2>10,
       <2>11, <2>12, <2>13, <2>14, <2>15, <2>16, <2>17, <2>18, Zenon
    DEF RunStep
<1>2. ASSUME UNCHANGED job PROVE Goal
  BY <1>2 DEF Consistent
<1>3. ASSUME Tick PROVE Goal
  <2> SUFFICES ASSUME NEW b \in Attempts PROVE InStep(job'[b])
    OBVIOUS
  <2> DEFINE c == Older(job[b].ckpt)
             j == [job[b] EXCEPT !.ckpt = c]
  <2>1. InStep(job[b]) /\ job[b] \in Job /\ job[b].ckpt \in Checkpoint
    BY DEF TypeOK, Consistent, Job
  <2>2. /\ c.owner = job[b].ckpt.owner /\ c.done = job[b].ckpt.done
        /\ c.data = job[b].ckpt.data
        /\ Resumable(job[b].ckpt) => Resumable(c)
    BY <2>1, ResumableKept DEF Older, Checkpoint
  <2> HIDE DEF c
  <2>3. /\ j.pc = job[b].pc /\ j.idx = job[b].idx /\ j.who = job[b].who
        /\ j.ckpt = c /\ j.ctx = job[b].ctx /\ j.goal = job[b].goal
    BY <2>1 DEF Job
  <2> HIDE DEF j
  <2>4. InStep(j)
    BY <2>1, <2>2, <2>3 DEF InStep, Saving
  <2> QED
    BY <1>3, <2>4 DEF Tick, j, c
<1>4. ASSUME NEW s \in Sweepers, SweepStep(s) PROVE Goal
  <2>1. UNCHANGED job
    BY <1>4 DEF SweepStep, SweepList, Reap, ReapLog, SweepDies
  <2> QED
    BY <1>2, <2>1
<1>5. ASSUME UNCHANGED vars PROVE Goal
  <2>1. UNCHANGED job
    BY <1>5 DEF vars
  <2> QED
    BY <1>2, <2>1
<1> HIDE DEF Goal
<1>6. Goal
  BY <1>1, <1>3, <1>4, <1>5 DEF Next
<1> QED
  BY <1>6 DEF Goal

(* Everything a retry may start from, in the store, in a sweeper's list or *)
(* in the memory of an attempt, is consistent.                             *)
THEOREM Consistency == Spec => []Consistent
<1>1. Init => Consistent
  <2>1. InStep(Idle)
    BY DEF InStep, Idle, Active, Inside
  <2> QED
    BY <2>1, FirstIsResumable DEF Init, Consistent, ResumableCheckpoint
<1>2. TypeOK /\ WellPlaced /\ Consistent /\ [Next]_vars => Consistent'
  <2> SUFFICES ASSUME TypeOK, WellPlaced, Consistent, [Next]_vars
               PROVE  Consistent'
    OBVIOUS
  <2> QED
    BY SavedStep, InStepStep DEF Consistent
<1> QED
  BY <1>1, <1>2, Typing, PTL DEF Spec

(* "A phase that has already produced its output is SKIPPED on resume":    *)
(* whatever the interleaving, and whoever crashes, every checkpoint in the *)
(* store can be resumed from, and holds only its own tenant's state.       *)
THEOREM Resumability == Spec => []ResumableCheckpoint
<1>1. Consistent => ResumableCheckpoint
  BY DEF Consistent
<1> QED
  BY <1>1, Consistency, PTL

-----------------------------------------------------------------------------
(* Fencing: what holds when no load is separated from its save.            *)

(* What a step of attempt a may touch.                                     *)
LEMMA RunFootprint ==
    ASSUME TypeOK, NEW a \in Attempts, RunStep(a)
    PROVE  /\ UNCHANGED <<todo, pending>>
           /\ \A b \in Attempts \ {a} : job'[b] = job[b]
           /\ \/ UNCHANGED store
              \/ /\ job[a].pc = "claim" /\ job'[a].pc = "announce"
                 /\ store' = [store EXCEPT ![job[a].run] = job[a].ckpt]
                 /\ job' = [job EXCEPT ![a] = [job[a] EXCEPT !.pc = "announce"]]
              \/ /\ job[a].pc = "write" /\ job'[a].pc = "log"
                 /\ store' = [store EXCEPT ![job[a].run] = job[a].ckpt]
                 /\ job' = [job EXCEPT ![a] = [job[a] EXCEPT !.pc = "log"]]
<1>1. job \in [Attempts -> Job] /\ job[a] \in Job
  BY DEF TypeOK
<1>2. UNCHANGED <<todo, pending>> /\ \E j : Move(a, j)
  BY DEF RunStep, Resume, Begin, Refuse, Claim, Announce, OverBudget,
     BrakePulled, SkipPhase, StartPhase, PhaseDone, AllPhasesDone, Verify,
     Superseded, Write, LogPhase, LogVerdict, Raise, Die,
     Leave, Record, Failing
<1>3. \A b \in Attempts \ {a} : job'[b] = job[b]
  BY <1>1, <1>2 DEF Move
<1>4. CASE Claim(a)
  BY <1>1, <1>2, <1>3, <1>4 DEF Claim, Move, Job
<1>5. CASE Write(a)
  BY <1>1, <1>2, <1>3, <1>5 DEF Write, Move, Job
<1>6. CASE ~Claim(a) /\ ~Write(a)
  <2>1. UNCHANGED store
    BY <1>6 DEF RunStep, Resume, Begin, Refuse, Announce, OverBudget,
       BrakePulled, SkipPhase, StartPhase, PhaseDone, AllPhasesDone, Verify,
       Superseded, LogPhase, LogVerdict, Raise, Die
  <2> QED
    BY <1>2, <1>3, <2>1
<1> QED
  BY <1>4, <1>5, <1>6

(* Only a load brings an attempt between a load and its save.              *)
LEMMA LoadsAlone ==
    ASSUME TypeOK, NEW a \in Attempts, RunStep(a), Amid(a)'
    PROVE  MayLoad(a)
<1>1. job \in [Attempts -> Job] /\ job[a] \in Job
  BY DEF TypeOK
<1>2. ASSUME NEW j, Move(a, j) PROVE job'[a] = j
  BY <1>1, <1>2 DEF Move
<1>l. ASSUME NEW how \in {"returned", "dead"}, Leave(a, how) PROVE FALSE
  <2>1. job'[a] = [Idle EXCEPT !.pc = how, !.run = job[a].run]
    BY <1>l, <1>2 DEF Leave
  <2>2. job'[a].pc = how
    BY <2>1 DEF Idle
  <2> QED
    BY <2>2 DEF Amid
<1>n. ASSUME NEW j, Move(a, j), j.pc \notin {"claim", "write"} PROVE FALSE
  BY <1>2, <1>n DEF Amid
<1>f. ASSUME NEW h, NEW ctx, Failing(a, h, ctx) PROVE FALSE
  <2>1. [job[a] EXCEPT !.pc = "check", !.goal = "failed", !.handler = h,
           !.ctx = ctx, !.ckpt = Ended(job[a].ckpt, "failed")].pc = "check"
    BY <1>1 DEF Job
  <2> QED
    BY <1>f, <1>n, <2>1 DEF Failing
<1>r. ASSUME NEW c, NEW ctx, Record(a, c, ctx) PROVE FALSE
  <2>1. [job[a] EXCEPT !.pc = "check", !.goal = "phase", !.ctx = ctx,
                       !.ckpt = Heartbeat(c)].pc = "check"
    BY <1>1 DEF Job
  <2> QED
    BY <1>r, <1>n, <2>1 DEF Record
<1>3. ~Claim(a) /\ ~Announce(a) /\ ~StartPhase(a) /\ ~Write(a) /\ ~LogPhase(a)
      /\ ~AllPhasesDone(a)
  BY <1>1, <1>n DEF Claim, Announce, StartPhase, Write, LogPhase,
     AllPhasesDone, Job
<1>4. \/ \E r \in Runs, o \in Owners :
            Resume(a, r, o) \/ \E again \in BOOLEAN : Begin(a, r, o, again)
      \/ Verify(a)
  BY <1>3, <1>l, <1>f, <1>r DEF RunStep, Refuse, OverBudget, BrakePulled,
     SkipPhase, PhaseDone, Superseded, LogVerdict, Raise, Die
<1> QED
  BY <1>4 DEF Resume, Begin, Verify

LEMMA AloneStep ==
    ASSUME ~Preemptive, TypeOK, Alone, [Next]_vars
    PROVE  Alone'
<1>1. ASSUME NEW a \in Attempts, RunStep(a) PROVE Alone'
  <2>1. UNCHANGED todo /\ \A b \in Attempts \ {a} : job'[b] = job[b]
    BY <1>1, RunFootprint
  <2>2. \A b \in Attempts \ {a} : Amid(b)' <=> Amid(b)
    BY <2>1 DEF Amid
  <2>3. CASE Amid(a)'
    <3>1. MayLoad(a)
      BY <1>1, <2>3, LoadsAlone
    <3>2. /\ \A b \in Attempts \ {a} : ~Amid(b)
          /\ \A s \in Sweepers : todo[s] = {}
      BY <3>1, PipelineAssumption DEF MayLoad
    <3> QED
      BY <2>1, <2>2, <3>2 DEF Alone
  <2>4. CASE ~Amid(a)'
    BY <2>1, <2>2, <2>4 DEF Alone
  <2> QED
    BY <2>3, <2>4
<1>2. ASSUME NEW s \in Sweepers, SweepStep(s) PROVE Alone'
  <2>1. /\ UNCHANGED job
        /\ \A t \in Sweepers \ {s} : todo'[t] = todo[t]
        /\ todo'[s] # {} => todo[s] # {} \/ MayLoad(s)
    BY <1>2 DEF SweepStep, SweepList, Reap, ReapLog, SweepDies, TypeOK
  <2>2. \A a \in Attempts : Amid(a)' <=> Amid(a)
    BY <2>1 DEF Amid
  <2>3. CASE MayLoad(s)
    <3>1. /\ \A a \in Attempts : ~Amid(a)
          /\ \A t \in Sweepers \ {s} : todo[t] = {}
      BY <2>3, PipelineAssumption DEF MayLoad
    <3> QED
      BY <2>1, <2>2, <3>1 DEF Alone
  <2>4. CASE ~MayLoad(s)
    BY <2>1, <2>2, <2>4 DEF Alone
  <2> QED
    BY <2>3, <2>4
<1>3. CASE Tick
  <2>1. UNCHANGED todo /\ \A a \in Attempts : job'[a].pc = job[a].pc
    BY <1>3 DEF Tick, TypeOK, Job
  <2> QED
    BY <2>1 DEF Alone, Amid
<1>4. CASE UNCHANGED vars
  BY <1>4 DEF vars, Alone, Amid
<1> QED
  BY <1>1, <1>2, <1>3, <1>4 DEF Next

(* What a sweeper knows of a record it is about to save.                   *)
LEMMA ItemFacts ==
    ASSUME TypeOK, NEW s \in Sweepers, NEW item \in todo[s]
    PROVE  item[1] \in Runs /\ item[2] \in Checkpoint
           /\ item = <<item[1], item[2]>>
BY DEF TypeOK

(* A step of attempt a: what the others know does not change, because a    *)
(* saves only when nobody else is between a load and a save.               *)
LEMMA OthersKnow ==
    ASSUME TypeOK, WellPlaced, Alone, Fresh,
           NEW a \in Attempts, RunStep(a)
    PROVE  /\ \A r \in Runs : store'[r].status = "absent" => store'[r].done = {}
           /\ \A b \in Attempts \ {a} : Knows(b, job'[b], store'[job'[b].run])
           /\ store' = store \/ \A s \in Sweepers : todo'[s] = {}
<1>0. /\ Knows(a, job[a], store[job[a].run])
      /\ \A r \in Runs : store[r].status = "absent" => store[r].done = {}
      /\ \A b \in Attempts : Knows(b, job[b], store[job[b].run])
  BY DEF Fresh
<1>1. UNCHANGED todo /\ \A b \in Attempts \ {a} : job'[b] = job[b]
  BY RunFootprint
<1>2. CASE UNCHANGED store
  BY <1>0, <1>1, <1>2
<1>3. CASE /\ job[a].pc \in {"claim", "write"}
           /\ store' = [store EXCEPT ![job[a].run] = job[a].ckpt]
  <2>1. Amid(a) /\ job[a].pc \in Active
    BY <1>3 DEF Amid, Active, Inside
  <2>2. /\ \A b \in Attempts \ {a} : ~Amid(b)
        /\ \A s \in Sweepers : todo'[s] = {}
    BY <1>1, <2>1 DEF Alone
  <2>3. job[a].run \in Runs /\ job[a].ckpt.status # "absent"
    BY <1>0, <2>1 DEF WellPlaced, Placed, Knows
  <2>4. \A r \in Runs : store'[r] = store[r] \/ store'[r].status # "absent"
    BY <1>3, <2>3 DEF TypeOK
  <2>5. ASSUME NEW b \in Attempts \ {a}
        PROVE  Knows(b, job'[b], store'[job'[b].run])
    <3>1. job'[b] = job[b] /\ job[b].pc \notin {"claim", "write"}
      BY <1>1, <2>2 DEF Amid
    <3>2. store'[job[b].run] = store[job[b].run]
             \/ store'[job[b].run].status # "absent"
      BY <1>3, <2>3 DEF TypeOK
    <3> QED
      BY <1>0, <3>1, <3>2 DEF Knows
  <2> QED
    BY <1>0, <2>2, <2>4, <2>5
<1> QED
  BY <1>2, <1>3, RunFootprint

(* A step of attempt a: what a itself knows.                               *)
LEMMA MoverKnows ==
    ASSUME TypeOK, WellPlaced, Alone, Fresh,
           NEW a \in Attempts, RunStep(a)
    PROVE  Knows(a, job'[a], store'[job'[a].run])
<1> DEFINE Goal == Knows(a, job'[a], store'[job'[a].run])
<1>0. /\ job \in [Attempts -> Job] /\ job[a] \in Job /\ Placed(job[a])
      /\ Knows(a, job[a], store[job[a].run])
      /\ \A r \in Runs : store[r] \in Checkpoint
      /\ \A r \in Runs : store[r].status = "absent" => store[r].done = {}
  BY DEF TypeOK, WellPlaced, Fresh
<1>m. ASSUME NEW j, Move(a, j) PROVE job'[a] = j
  BY <1>0, <1>m DEF Move
<1>q. ASSUME NEW j, Move(a, j), UNCHANGED store, j.pc \notin {"claim", "write"},
             j.run = job[a].run, job[a].pc \in Active \ {"claim"},
             j.ckpt.attempt = job[a].ckpt.attempt, j.ckpt.status # "absent"
      PROVE  Goal
  BY <1>0, <1>m, <1>q DEF Knows
<1>l. ASSUME NEW how \in {"returned", "dead"}, Leave(a, how) PROVE Goal
  <2>1. job'[a].pc = how
    BY <1>l, <1>m DEF Leave, Idle
  <2> QED
    BY <2>1 DEF Knows, Active, Inside
<1>f. ASSUME NEW h, NEW ctx, Failing(a, h, ctx), UNCHANGED store,
             job[a].pc \in Active \ {"claim"}
      PROVE  Goal
  <2> DEFINE j == [job[a] EXCEPT !.pc = "check", !.goal = "failed",
                     !.handler = h, !.ctx = ctx,
                     !.ckpt = Ended(job[a].ckpt, "failed")]
  <2>1. /\ j.pc = "check" /\ j.run = job[a].run
        /\ j.ckpt = Ended(job[a].ckpt, "failed")
    BY <1>0 DEF Job
  <2>2. /\ j.ckpt.attempt = job[a].ckpt.attempt
        /\ j.ckpt.status # "absent"
    BY <1>0, <2>1 DEF Ended, Job, Checkpoint
  <2> QED
    BY <1>f, <1>q, <2>1, <2>2 DEF Failing
<1>1. ASSUME NEW r \in Runs, NEW o \in Owners, Resume(a, r, o) PROVE Goal
  <2> DEFINE c == Rehydrated(store[r], a)
  <2>1. /\ job'[a].pc = "claim" /\ job'[a].run = r /\ job'[a].resume = TRUE
        /\ job'[a].ckpt = c
    BY <1>1, <1>m DEF Resume, Idle
  <2>2. c.attempt = a /\ c.status = "in_progress" /\ c.done = store[r].done
    BY <1>0 DEF Rehydrated, Checkpoint
  <2>3. UNCHANGED store
    BY <1>1 DEF Resume
  <2> QED
    BY <2>1, <2>2, <2>3 DEF Knows
<1>2. ASSUME NEW r \in Runs, NEW o \in Owners, NEW again \in BOOLEAN,
             Begin(a, r, o, again)
      PROVE  Goal
  <2> DEFINE c == NewCheckpoint(a, o)
  <2>1. /\ job'[a].pc = "claim" /\ job'[a].run = r /\ job'[a].ckpt = c
    BY <1>2, <1>m DEF Begin, Idle
  <2>2. c.attempt = a /\ c.status = "in_progress"
    BY DEF NewCheckpoint, Absent
  <2>3. UNCHANGED store /\ store[r].status = "absent"
    BY <1>2 DEF Begin
  <2> QED
    BY <1>0, <2>1, <2>2, <2>3 DEF Knows
<1>3. ASSUME NEW r \in Runs, NEW o \in Owners, NEW again \in BOOLEAN,
             Refuse(a, r, o, again)
      PROVE  Goal
  BY <1>3, <1>l DEF Refuse
<1>4. ASSUME Claim(a) \/ Write(a) PROVE Goal
  <2> DEFINE after == IF job[a].pc = "claim" THEN "announce" ELSE "log"
  <2>1. /\ job'[a] = [job[a] EXCEPT !.pc = after]
        /\ job[a].pc \in Active
        /\ store' = [store EXCEPT ![job[a].run] = job[a].ckpt]
    BY <1>4, <1>m DEF Claim, Write, Active, Inside
  <2>2. /\ job'[a].pc = after /\ job'[a].run = job[a].run
        /\ job'[a].ckpt = job[a].ckpt
    BY <1>0, <2>1 DEF Job
  <2>3. store'[job[a].run] = job[a].ckpt
    BY <1>0, <2>1 DEF TypeOK, Placed
  <2>4. job[a].ckpt.attempt = a /\ job[a].ckpt.status # "absent"
    BY <1>0, <2>1 DEF Knows
  <2> QED
    BY <2>2, <2>3, <2>4 DEF Knows
<1>5. ASSUME Announce(a) PROVE Goal
  <2> DEFINE j == [job[a] EXCEPT !.pc = "brakes", !.idx = 1]
  <2>1. j.pc = "brakes" /\ j.run = job[a].run /\ j.ckpt = job[a].ckpt
    BY <1>0 DEF Job
  <2> QED
    BY <1>0, <1>5, <1>q, <2>1 DEF Announce, Knows, Active
<1>6. ASSUME OverBudget(a) \/ BrakePulled(a) PROVE Goal
  BY <1>6, <1>f DEF OverBudget, BrakePulled, AtPhase, Active, Inside
<1>7. ASSUME SkipPhase(a) \/ PhaseDone(a) PROVE Goal
  <2>0. /\ job[a].pc \in Active \ {"claim"} /\ UNCHANGED store
        /\ job[a].ckpt \in Checkpoint
        /\ job[a].ckpt.attempt = a /\ job[a].ckpt.status # "absent"
    BY <1>0, <1>7 DEF SkipPhase, PhaseDone, AtPhase, Active, Inside, Knows, Job
  <2>1. ASSUME NEW c, NEW ctx, Record(a, c, ctx), Heartbeat(c).attempt = a,
               Heartbeat(c).status # "absent"
        PROVE  Goal
    <3> DEFINE j == [job[a] EXCEPT !.pc = "check", !.goal = "phase",
                                   !.ctx = ctx, !.ckpt = Heartbeat(c)]
    <3>1. j.pc = "check" /\ j.run = job[a].run /\ j.ckpt = Heartbeat(c)
      BY <1>0 DEF Job
    <3> QED
      BY <1>q, <2>0, <2>1, <3>1 DEF Record
  <2>2. CASE SkipPhase(a)
    <3>1. /\ Heartbeat(job[a].ckpt).attempt = a
          /\ Heartbeat(job[a].ckpt).status # "absent"
      BY <2>0 DEF Heartbeat, Checkpoint
    <3> QED
      BY <2>1, <2>2, <3>1 DEF SkipPhase
  <2>3. CASE PhaseDone(a)
    <3> DEFINE c == WithPhase(job[a].ckpt, job[a].idx, Produced(a))
    <3>1. Heartbeat(c).attempt = a /\ Heartbeat(c).status # "absent"
      BY <2>0 DEF Heartbeat, WithPhase, Checkpoint
    <3> QED
      BY <2>1, <2>3, <3>1 DEF PhaseDone
  <2> HIDE DEF Goal
  <2> QED
    BY <1>7, <2>2, <2>3
<1>8. ASSUME StartPhase(a) PROVE Goal
  <2> DEFINE j == [job[a] EXCEPT !.pc = "phase"]
  <2>1. j.pc = "phase" /\ j.run = job[a].run /\ j.ckpt = job[a].ckpt
    BY <1>0 DEF Job
  <2> QED
    BY <1>0, <1>8, <1>q, <2>1 DEF StartPhase, AtPhase, Knows, Active, Inside
<1>9. ASSUME AllPhasesDone(a) PROVE Goal
  <2> DEFINE j == [job[a] EXCEPT !.pc = "check", !.goal = "completed",
                     !.ckpt = Ended(job[a].ckpt, "completed")]
  <2>1. /\ j.pc = "check" /\ j.run = job[a].run
        /\ j.ckpt = Ended(job[a].ckpt, "completed")
    BY <1>0 DEF Job
  <2>2. /\ j.ckpt.attempt = job[a].ckpt.attempt
        /\ j.ckpt.status # "absent"
    BY <1>0, <2>1 DEF Ended, Job, Checkpoint
  <2> QED
    BY <1>9, <1>q, <2>1, <2>2 DEF AllPhasesDone, Active, Inside
<1>10. ASSUME Verify(a) PROVE Goal
  <2>1. /\ job'[a].pc = "write" /\ job'[a].run = job[a].run
        /\ job'[a].ckpt = job[a].ckpt
    BY <1>0, <1>10, <1>m DEF Verify, Job
  <2>2. job[a].pc \in Active \ {"claim"} /\ UNCHANGED store /\ Owns(a)
    BY <1>10 DEF Verify, Active, Inside
  <2>3. /\ store[job[a].run].attempt = a
        /\ store[job[a].run].status \notin Terminal \cup {"absent"}
    BY <1>0, <2>2 DEF Owns, Knows
  <2>4. store[job[a].run].status = "in_progress"
    BY <1>0, <2>2, <2>3 DEF Placed, Checkpoint
  <2> QED
    BY <1>0, <2>1, <2>2, <2>3, <2>4 DEF Knows
<1>11. ASSUME LogPhase(a) PROVE Goal
  <2> DEFINE j == [job[a] EXCEPT !.pc = "brakes", !.idx = @ + 1, !.goal = "none"]
  <2>1. j.pc = "brakes" /\ j.run = job[a].run /\ j.ckpt = job[a].ckpt
    BY <1>0 DEF Job
  <2> QED
    BY <1>0, <1>11, <1>q, <2>1 DEF LogPhase, Knows, Active, Inside
<1>12. ASSUME Raise(a) PROVE Goal
  BY <1>12, <1>f DEF Raise, Active, Inside
<1>13. ASSUME Superseded(a) \/ LogVerdict(a) \/ Die(a) PROVE Goal
  BY <1>13, <1>l DEF Superseded, LogVerdict, Die
<1> HIDE DEF Goal
<1>14. Goal
  BY <1>1, <1>2, <1>3, <1>4, <1>5, <1>6, <1>7, <1>8, <1>9, <1>10, <1>11,
     <1>12, <1>13, Zenon DEF RunStep
<1> QED
  BY <1>14 DEF Goal

LEMMA FreshStep ==
    ASSUME TypeOK, WellPlaced, Alone, Fresh, ~Preemptive, [Next]_vars
    PROVE  Fresh'
<1> DEFINE Known(s, item) ==
             /\ store[item[1]].status = "in_progress"
             /\ store[item[1]].quiet > MaxDuration
             /\ store[item[1]].attempt = item[2].attempt
             /\ item[2].status = "failed"
             /\ \A other \in todo[s] : other[1] = item[1] => other = item
<1>0. /\ \A a \in Attempts : Knows(a, job[a], store[job[a].run])
      /\ \A r \in Runs : store[r] \in Checkpoint
      /\ \A r \in Runs : store[r].status = "absent" => store[r].done = {}
      /\ \A s \in Sweepers : \A item \in todo[s] : Known(s, item)
  BY DEF Fresh, TypeOK
<1>1. ASSUME NEW a \in Attempts, RunStep(a) PROVE Fresh'
  <2>1. /\ \A r \in Runs : store'[r].status = "absent" => store'[r].done = {}
        /\ \A b \in Attempts : Knows(b, job'[b], store'[job'[b].run])
    BY <1>1, OthersKnow, MoverKnows
  <2>2. \A s \in Sweepers : \A item \in todo'[s] : Known(s, item)'
    <3>1. UNCHANGED todo
      BY <1>1, RunFootprint
    <3>2. store' = store \/ \A s \in Sweepers : todo'[s] = {}
      BY <1>1, OthersKnow
    <3> QED
      BY <1>0, <3>1, <3>2
  <2> QED
    BY <2>1, <2>2 DEF Fresh
<1>2. ASSUME NEW s \in Sweepers, SweepStep(s) PROVE Fresh'
  <2>0. UNCHANGED job
    BY <1>2 DEF SweepStep, SweepList, Reap, ReapLog, SweepDies
  <2>1. CASE SweepList(s)
    <3>1. /\ UNCHANGED store /\ \A t \in Sweepers \ {s} : todo'[t] = todo[t]
          /\ todo'[s] = {<<r, Ended(store[r], "failed")>> :
                             r \in {q \in Runs : Stuck(store[q])}}
      BY <2>1 DEF SweepList, TypeOK
    <3>2. ASSUME NEW item \in todo'[s] PROVE Known(s, item)'
      <4>1. PICK r \in Runs : /\ item = <<r, Ended(store[r], "failed")>>
                              /\ Stuck(store[r])
        BY <3>1
      <4>2. /\ Ended(store[r], "failed").attempt = store[r].attempt
            /\ Ended(store[r], "failed").status = "failed"
        BY <1>0 DEF Ended, Checkpoint
      <4>3. \A other \in todo'[s] : other[1] = item[1] => other = item
        BY <3>1, <4>1
      <4> QED
        BY <3>1, <4>1, <4>2, <4>3 DEF Stuck
    <3>3. \A t \in Sweepers : \A item \in todo'[t] : Known(t, item)'
      BY <1>0, <3>1, <3>2
    <3> QED
      BY <1>0, <2>0, <3>1, <3>3 DEF Fresh
  <2>2. CASE Reap(s)
    <3>1. PICK item \in todo[s] :
             /\ store' = [store EXCEPT ![item[1]] = item[2]]
             /\ todo' = [todo EXCEPT ![s] = @ \ {item}]
      BY <2>2 DEF Reap
    <3>2. item[1] \in Runs /\ item[2].status = "failed"
      BY <1>0, ItemFacts
    <3>3. /\ store'[item[1]] = item[2]
          /\ \A r \in Runs \ {item[1]} : store'[r] = store[r]
      BY <3>1, <3>2 DEF TypeOK
    <3>4. \A a \in Attempts : ~Amid(a)
      BY <3>1 DEF Alone
    <3>5. ASSUME NEW a \in Attempts PROVE Knows(a, job'[a], store'[job'[a].run])
      <4>1. job[a].pc \notin {"claim", "write"}
        BY <3>4 DEF Amid
      <4>2. CASE job[a].run = item[1]
        BY <1>0, <2>0, <3>2, <3>3, <4>1, <4>2 DEF Knows
      <4>3. CASE job[a].run # item[1]
        <5>1. store'[job[a].run] = store[job[a].run]
          BY <3>1, <4>3 DEF TypeOK
        <5> QED
          BY <1>0, <2>0, <5>1
      <4> QED
        BY <4>2, <4>3
    <3>6. ASSUME NEW t \in Sweepers, NEW one \in todo'[t] PROVE Known(t, one)'
      <4>1. t = s /\ one \in todo[s] /\ one # item
        BY <3>1 DEF Alone, TypeOK
      <4>2. one[1] # item[1] /\ one[1] \in Runs
        BY <1>0, <4>1, ItemFacts
      <4>3. store'[one[1]] = store[one[1]]
        BY <3>3, <4>2
      <4>4. todo'[s] \subseteq todo[s]
        BY <3>1 DEF TypeOK
      <4> QED
        BY <1>0, <4>1, <4>3, <4>4
    <3>7. \A r \in Runs : store'[r].status = "absent" => store'[r].done = {}
      BY <1>0, <3>2, <3>3
    <3> QED
      BY <3>5, <3>6, <3>7 DEF Fresh
  <2>3. CASE ReapLog(s)
    BY <1>0, <2>0, <2>3 DEF ReapLog, Fresh
  <2>4. CASE SweepDies(s)
    <3>1. UNCHANGED store /\ \A t \in Sweepers : todo'[t] \subseteq todo[t]
      BY <2>4 DEF SweepDies, TypeOK
    <3>2. \A t \in Sweepers : \A item \in todo'[t] : Known(t, item)'
      BY <1>0, <3>1
    <3> QED
      BY <1>0, <2>0, <3>1, <3>2 DEF Fresh
  <2> QED
    BY <1>2, <2>1, <2>2, <2>3, <2>4 DEF SweepStep
<1>3. CASE Tick
  <2>1. ASSUME NEW c \in Checkpoint
        PROVE  /\ Older(c).status = c.status /\ Older(c).attempt = c.attempt
               /\ Older(c).done = c.done
               /\ c.quiet > MaxDuration => Older(c).quiet > MaxDuration
    BY PipelineAssumption DEF Older, Later, Checkpoint, Ages
  <2>2. /\ UNCHANGED todo
        /\ \A r \in Runs : store'[r] = Older(store[r])
        /\ \A a \in Attempts : job'[a] = [job[a] EXCEPT !.ckpt = Older(@)]
    BY <1>3 DEF Tick
  <2>3. ASSUME NEW a \in Attempts PROVE Knows(a, job'[a], store'[job'[a].run])
    <3>0. job[a] \in Job /\ job'[a] = [job[a] EXCEPT !.ckpt = Older(job[a].ckpt)]
      BY <2>2 DEF TypeOK
    <3>1. /\ job'[a].pc = job[a].pc /\ job'[a].run = job[a].run
          /\ job'[a].resume = job[a].resume /\ job'[a].ckpt = Older(job[a].ckpt)
          /\ job[a].ckpt \in Checkpoint
      BY <3>0 DEF Job
    <3>2. CASE job[a].pc \in Active
      <4>1. job[a].run \in Runs
        BY <3>2 DEF WellPlaced, Placed
      <4>2. store'[job[a].run] = Older(store[job[a].run])
        BY <2>2, <4>1
      <4> QED
        BY <1>0, <2>1, <3>1, <4>1, <4>2 DEF Knows
    <3>3. CASE job[a].pc \notin Active
      BY <3>1, <3>3 DEF Knows, Active, Inside
    <3> QED
      BY <3>2, <3>3
  <2>4. ASSUME NEW s \in Sweepers, NEW item \in todo'[s] PROVE Known(s, item)'
    <3>1. item \in todo[s] /\ item[1] \in Runs
      BY <2>2, ItemFacts
    <3>2. store'[item[1]] = Older(store[item[1]]) /\ store[item[1]] \in Checkpoint
      BY <1>0, <2>2, <3>1
    <3>3. Known(s, item)
      BY <1>0, <3>1
    <3> QED
      BY <2>1, <2>2, <3>1, <3>2, <3>3
  <2> QED
    BY <1>0, <2>1, <2>2, <2>3, <2>4 DEF Fresh
<1>4. CASE UNCHANGED vars
  BY <1>4 DEF vars, Fresh
<1> QED
  BY <1>1, <1>2, <1>3, <1>4 DEF Next

(* When no load is separated from its save, whoever is about to save is    *)
(* alone and what it loaded is still so.                                   *)
THEOREM Fencing == ~Preemptive => (Spec => [](Alone /\ Fresh))
<1> SUFFICES ASSUME ~Preemptive PROVE Spec => [](Alone /\ Fresh)
  OBVIOUS
<1>1. Init => Alone /\ Fresh
  BY DEF Init, Alone, Fresh, Amid, Knows, Idle, Absent, Active, Inside
<1>2. TypeOK /\ WellPlaced /\ Alone /\ Fresh /\ [Next]_vars => (Alone /\ Fresh)'
  BY AloneStep, FreshStep
<1> QED
  BY <1>1, <1>2, Typing, PTL DEF Spec

(* "A worker whose run was reaped, or taken over by a newer attempt, stops *)
(* at its next checkpoint instead of writing over it": a verdict, and the  *)
(* attempt that holds a run, change only when a retry claims the run.      *)
THEOREM VerdictsStand == ~Preemptive => (Spec => ReapedWorkerStops)
<1> SUFFICES ASSUME ~Preemptive PROVE Spec => ReapedWorkerStops
  OBVIOUS
<1> DEFINE Stands(r) ==
             \/ store[r].status \in Terminal /\ store'[r] # store[r]
             \/ store[r].attempt # store'[r].attempt
             => Claimed(r)
<1>1. ASSUME TypeOK, WellPlaced, Fresh, [Next]_vars, NEW r \in Runs
      PROVE  Stands(r)
  <2>1. ASSUME NEW a \in Attempts, RunStep(a) PROVE Stands(r)
    <3>0. /\ Knows(a, job[a], store[job[a].run]) /\ Placed(job[a])
          /\ job[a] \in Job
      BY <1>1 DEF Fresh, WellPlaced, TypeOK
    <3>1. CASE UNCHANGED store
      BY <3>1
    <3>2. CASE /\ job[a].pc = "claim" /\ job'[a].pc = "announce"
               /\ store' = [store EXCEPT ![job[a].run] = job[a].ckpt]
      <4>1. job[a].ckpt.attempt = a /\ job[a].run \in Runs
        BY <3>0, <3>2 DEF Knows, Placed, Active
      <4> QED
        BY <1>1, <3>2, <4>1 DEF Claimed, TypeOK
    <3>3. CASE /\ job[a].pc = "write"
               /\ store' = [store EXCEPT ![job[a].run] = job[a].ckpt]
      <4>1. /\ store[job[a].run].status = "in_progress"
            /\ store[job[a].run].attempt = a /\ job[a].ckpt.attempt = a
            /\ job[a].run \in Runs
        BY <3>0, <3>3 DEF Knows, Placed, Active, Inside
      <4> QED
        BY <1>1, <3>3, <4>1 DEF TypeOK, Terminal
    <3> HIDE DEF Stands
    <3> QED
      BY <1>1, <2>1, <3>1, <3>2, <3>3, RunFootprint
  <2>2. ASSUME NEW s \in Sweepers, SweepStep(s) PROVE Stands(r)
    <3>1. CASE Reap(s)
      <4>1. PICK item \in todo[s] : store' = [store EXCEPT ![item[1]] = item[2]]
        BY <3>1 DEF Reap
      <4>2. /\ store[item[1]].status = "in_progress"
            /\ store[item[1]].attempt = item[2].attempt
        BY <1>1 DEF Fresh
      <4>3. item[1] \in Runs
        BY <1>1, ItemFacts
      <4> QED
        BY <1>1, <4>1, <4>2, <4>3 DEF TypeOK, Terminal
    <3>2. CASE ~Reap(s)
      BY <2>2, <3>2 DEF SweepStep, SweepList, ReapLog, SweepDies
    <3> QED
      BY <3>1, <3>2
  <2>3. CASE Tick
    <3>1. store'[r] = Older(store[r]) /\ store[r] \in Checkpoint
      BY <1>1, <2>3 DEF Tick, TypeOK
    <3>2. /\ Older(store[r]).attempt = store[r].attempt
          /\ store[r].status \in Terminal => Older(store[r]) = store[r]
      BY <3>1 DEF Older, Checkpoint, Terminal
    <3> QED
      BY <3>1, <3>2
  <2>4. CASE UNCHANGED vars
    BY <2>4 DEF vars
  <2> HIDE DEF Stands
  <2> QED
    BY <1>1, <2>1, <2>2, <2>3, <2>4 DEF Next
<1>2. TypeOK /\ WellPlaced /\ Fresh /\ [Next]_vars => [\A r \in Runs : Stands(r)]_vars
  BY <1>1
<1> QED
  BY <1>2, Typing, Fencing, PTL DEF Spec, ReapedWorkerStops

(* What a sweeper ends is a record it found silent, and that still is.     *)
LEMMA ReapsSilent ==
    ASSUME TypeOK, Fresh, [Next]_vars, NEW s \in Sweepers, NEW r \in Runs,
           Reaps(s, r)
    PROVE  store[r].quiet > MaxDuration
<1>1. CASE Reap(s)
  <2>1. PICK item \in todo[s] : store' = [store EXCEPT ![item[1]] = item[2]]
    BY <1>1 DEF Reap
  <2>2. item[1] = r
    BY <2>1 DEF Reaps, TypeOK
  <2> QED
    BY <2>2 DEF Fresh
<1>2. CASE ~Reap(s)
  <2>1. todo'[s] = todo[s] \/ UNCHANGED store
    <3>1. ASSUME NEW a \in Attempts, RunStep(a) PROVE UNCHANGED todo
      BY <3>1, RunFootprint
    <3>2. ASSUME NEW t \in Sweepers, SweepStep(t), t # s
          PROVE  todo'[s] = todo[s]
      BY <3>2 DEF SweepStep, SweepList, Reap, ReapLog, SweepDies, TypeOK
    <3>3. SweepStep(s) => UNCHANGED store
      BY <1>2 DEF SweepStep, SweepList, ReapLog, SweepDies
    <3>4. Tick => UNCHANGED todo
      BY DEF Tick
    <3>5. UNCHANGED vars => UNCHANGED todo
      BY DEF vars
    <3> QED
      BY <3>1, <3>2, <3>3, <3>4, <3>5 DEF Next
  <2> QED
    BY <2>1 DEF Reaps
<1> QED
  BY <1>1, <1>2

(* "A run whose worker is still alive (recent heartbeat) is left alone":   *)
(* no sweep ends a run whose record shows a heartbeat within the budget.   *)
THEOREM SweeperSpares == ~Preemptive => (Spec => SweeperSparesAlive)
<1> SUFFICES ASSUME ~Preemptive PROVE Spec => SweeperSparesAlive
  OBVIOUS
<1>1. TypeOK /\ Fresh /\ [Next]_vars
      => [\A s \in Sweepers, r \in Runs :
             Reaps(s, r) => store[r].quiet > MaxDuration]_vars
  BY ReapsSilent
<1> QED
  BY <1>1, Typing, Fencing, PTL DEF Spec, SweeperSparesAlive

(* What the first save of run replaces is what run has loaded.             *)
LEMMA ClaimSaves ==
    ASSUME TypeOK, WellPlaced, Fresh, [Next]_vars, NEW a \in Attempts,
           job[a].pc = "claim", job'[a].pc = "announce"
    PROVE  /\ ~job[a].resume => store[job[a].run].status = "absent"
           /\ store[job[a].run].done \subseteq store'[job[a].run].done
<1>1. /\ Knows(a, job[a], store[job[a].run]) /\ job[a] \in Job
      /\ job[a].run \in Runs
  BY DEF Fresh, TypeOK, WellPlaced, Placed, Active
<1>2. store' = [store EXCEPT ![job[a].run] = job[a].ckpt]
  <2>1. ASSUME NEW b \in Attempts, RunStep(b)
        PROVE  store' = [store EXCEPT ![job[a].run] = job[a].ckpt]
    <3>1. b = a
      BY <2>1, RunFootprint
    <3>2. store' = [store EXCEPT ![job[a].run] = job[a].ckpt]
             \/ job'[a].pc # "announce"
      <4>1. CASE Claim(a)
        BY <4>1 DEF Claim
      <4>2. CASE Die(a)
        BY <4>2 DEF Die, Leave, Move, TypeOK, Idle
      <4>3. QED
        BY <2>1, <3>1, <4>1, <4>2 DEF RunStep, Resume, Begin, Refuse,
           Announce, OverBudget, BrakePulled, SkipPhase, StartPhase, PhaseDone,
           AllPhasesDone, AtPhase, Verify, Superseded, Write, LogPhase, LogVerdict,
           Raise, Inside
    <3> QED
      BY <3>2
  <2>2. ASSUME NEW s \in Sweepers, SweepStep(s) PROVE UNCHANGED job
    BY <2>2 DEF SweepStep, SweepList, Reap, ReapLog, SweepDies
  <2>3. Tick => job'[a].pc = job[a].pc
    BY <1>1 DEF Tick, Job
  <2> QED
    BY <2>1, <2>2, <2>3 DEF Next, vars
<1>3. store'[job[a].run] = job[a].ckpt
  BY <1>1, <1>2 DEF TypeOK
<1> QED
  BY <1>1, <1>3 DEF Knows, Job

(* "a fresh run must never overwrite a run that already exists".           *)
THEOREM FreshIsFresh == ~Preemptive => (Spec => FreshNeverOverwrites)
<1> SUFFICES ASSUME ~Preemptive PROVE Spec => FreshNeverOverwrites
  OBVIOUS
<1>1. TypeOK /\ WellPlaced /\ Fresh /\ [Next]_vars =>
         [\A a \in Attempts :
             job[a].pc = "claim" /\ job'[a].pc = "announce" /\ ~job[a].resume
             => store[job[a].run].status = "absent"]_vars
  BY ClaimSaves
<1> QED
  BY <1>1, Typing, Fencing, PTL DEF Spec, FreshNeverOverwrites

(* "a retry costs only the work that was lost": the save that takes a run  *)
(* over keeps every phase the store had recorded.                          *)
THEOREM RetryKeeps == ~Preemptive => (Spec => RetryKeepsProgress)
<1> SUFFICES ASSUME ~Preemptive PROVE Spec => RetryKeepsProgress
  OBVIOUS
<1>1. TypeOK /\ WellPlaced /\ Fresh /\ [Next]_vars =>
         [\A a \in Attempts :
             job[a].pc = "claim" /\ job'[a].pc = "announce"
             => store[job[a].run].done \subseteq store'[job[a].run].done]_vars
  BY ClaimSaves
<1> QED
  BY <1>1, Typing, Fencing, PTL DEF Spec, RetryKeepsProgress

-----------------------------------------------------------------------------
(* The steps of run, by what they do to the attempt (from j to k), to the  *)
(* store and to the trail.                                                 *)

Loads(a, j, k) ==
    /\ j.pc = "idle" /\ k.pc = "claim" /\ MayLoad(a)
    /\ k.run \in Runs /\ k.who \in Owners
    /\ \/ /\ store[k.run].status = "absent"
          /\ k.ckpt = NewCheckpoint(a, k.who)
       \/ /\ store[k.run].status # "absent" /\ store[k.run].owner = k.who
          /\ k.ckpt = Rehydrated(store[k.run], a)
    /\ UNCHANGED <<store, audit>>

(* A verdict may be logged as run returns, or an entry be kept by a trail  *)
(* that raised.                                                            *)
MayLog(a, j) == j.pc = "log" /\ audit' = audit \cup {Entry(a)}

Leaves(a, j, k) ==
    /\ k.pc \in {"returned", "dead"} /\ k.run = j.run
    /\ UNCHANGED store /\ (UNCHANGED audit \/ MayLog(a, j))

Stays(j, k) == k.run = j.run /\ k.who = j.who

Claims(a, j, k) ==
    /\ j.pc = "claim" /\ k.pc = "announce" /\ k.ckpt = j.ckpt
    /\ store' = [store EXCEPT ![j.run] = j.ckpt] /\ UNCHANGED audit

Announces(a, j, k) ==
    /\ j.pc = "announce" /\ k.pc = "brakes" /\ k.ckpt = j.ckpt
    /\ \E e \in {"pipeline_resumed", "pipeline_started"} : audit' = audit \cup {<<e, a>>}
    /\ UNCHANGED store

Fails(a, j, k) ==
    /\ j.pc \in Inside /\ k.pc = "check" /\ k.goal = "failed"
    /\ k.ckpt = Ended(j.ckpt, "failed")
    /\ UNCHANGED store /\ (UNCHANGED audit \/ MayLog(a, j))

Records(a, j, k) ==
    /\ j.pc \in {"brakes", "phase"} /\ k.pc = "check" /\ k.goal = "phase"
    /\ k.ckpt = IF j.pc = "brakes" THEN Heartbeat(j.ckpt)
                ELSE Heartbeat(WithPhase(j.ckpt, j.idx, Produced(a)))
    /\ UNCHANGED <<store, audit>>

Starts(a, j, k) ==
    /\ j.pc = "brakes" /\ k.pc = "phase" /\ k.ckpt = j.ckpt
    /\ j.ckpt.age <= MaxDuration
    /\ UNCHANGED <<store, audit>>

Completes(a, j, k) ==
    /\ j.pc = "brakes" /\ j.idx = NumPhases + 1
    /\ k.pc = "check" /\ k.goal = "completed"
    /\ k.ckpt = Ended(j.ckpt, "completed")
    /\ UNCHANGED <<store, audit>>

Verifies(a, j, k) ==
    /\ j.pc = "check" /\ k.pc = "write" /\ k.ckpt = j.ckpt /\ k.goal = j.goal
    /\ MayLoad(a) /\ Owns(a) /\ UNCHANGED <<store, audit>>

Writes(a, j, k) ==
    /\ j.pc = "write" /\ k.pc = "log" /\ k.ckpt = j.ckpt /\ k.goal = j.goal
    /\ store' = [store EXCEPT ![j.run] = j.ckpt] /\ UNCHANGED audit

LogsPhase(a, j, k) ==
    /\ j.pc = "log" /\ j.goal = "phase" /\ k.pc = "brakes" /\ k.ckpt = j.ckpt
    /\ UNCHANGED store /\ audit' = audit \cup {Entry(a)}

Works(a, j, k) ==
    \/ Claims(a, j, k) \/ Announces(a, j, k) \/ Fails(a, j, k) \/ Records(a, j, k)
    \/ Starts(a, j, k) \/ Completes(a, j, k) \/ Verifies(a, j, k) \/ Writes(a, j, k)
    \/ LogsPhase(a, j, k)

LEMMA RunShape ==
    ASSUME TypeOK, NEW a \in Attempts, RunStep(a)
    PROVE  \/ Loads(a, job[a], job'[a])
           \/ Leaves(a, job[a], job'[a])
           \/ Stays(job[a], job'[a]) /\ Works(a, job[a], job'[a])
<1> DEFINE Goal == \/ Loads(a, job[a], job'[a])
                   \/ Leaves(a, job[a], job'[a])
                   \/ Stays(job[a], job'[a]) /\ Works(a, job[a], job'[a])
<1>0. job \in [Attempts -> Job] /\ job[a] \in Job
  BY DEF TypeOK
<1>m. ASSUME NEW j, Move(a, j) PROVE job'[a] = j
  BY <1>0, <1>m DEF Move
<1>l. ASSUME NEW how \in {"returned", "dead"}, Leave(a, how), UNCHANGED store,
             UNCHANGED audit \/ MayLog(a, job[a])
      PROVE  Goal
  <2>1. job'[a].pc = how /\ job'[a].run = job[a].run
    BY <1>l, <1>m DEF Leave, Idle
  <2> QED
    BY <1>l, <2>1 DEF Leaves
<1>f. ASSUME NEW h, NEW ctx, Failing(a, h, ctx), UNCHANGED store,
             UNCHANGED audit \/ MayLog(a, job[a]), job[a].pc \in Inside
      PROVE  Goal
  <2>1. job'[a] = [job[a] EXCEPT !.pc = "check", !.goal = "failed", !.handler = h,
                     !.ctx = ctx, !.ckpt = Ended(job[a].ckpt, "failed")]
    BY <1>f, <1>m DEF Failing
  <2>2. /\ job'[a].pc = "check" /\ job'[a].goal = "failed"
        /\ job'[a].ckpt = Ended(job[a].ckpt, "failed")
        /\ job'[a].run = job[a].run /\ job'[a].who = job[a].who
    BY <1>0, <2>1 DEF Job
  <2> QED
    BY <1>f, <2>2 DEF Works, Fails, Stays
<1>1. ASSUME NEW r \in Runs, NEW o \in Owners, Resume(a, r, o) PROVE Goal
  <2>1. /\ job'[a].pc = "claim" /\ job'[a].run = r /\ job'[a].who = o
        /\ job'[a].ckpt = Rehydrated(store[r], a)
    BY <1>1, <1>m DEF Resume, Idle
  <2> QED
    BY <1>1, <2>1 DEF Resume, Loads
<1>2. ASSUME NEW r \in Runs, NEW o \in Owners, NEW again \in BOOLEAN,
             Begin(a, r, o, again)
      PROVE  Goal
  <2>1. /\ job'[a].pc = "claim" /\ job'[a].run = r /\ job'[a].who = o
        /\ job'[a].ckpt = NewCheckpoint(a, o)
    BY <1>2, <1>m DEF Begin, Idle
  <2> QED
    BY <1>2, <2>1 DEF Begin, Loads
<1>3. ASSUME NEW r \in Runs, NEW o \in Owners, NEW again \in BOOLEAN,
             Refuse(a, r, o, again)
      PROVE  Goal
  BY <1>3, <1>l DEF Refuse
<1>4. ASSUME Claim(a) PROVE Goal
  <2>1. job'[a] = [job[a] EXCEPT !.pc = "announce"]
    BY <1>4, <1>m DEF Claim
  <2> QED
    BY <1>0, <1>4, <2>1 DEF Claim, Works, Claims, Stays, Job
<1>5. ASSUME Announce(a) PROVE Goal
  <2>1. job'[a] = [job[a] EXCEPT !.pc = "brakes", !.idx = 1]
    BY <1>5, <1>m DEF Announce
  <2>2. \E e \in {"pipeline_resumed", "pipeline_started"} : audit' = audit \cup {<<e, a>>}
    BY <1>5 DEF Announce
  <2> QED
    BY <1>0, <1>5, <2>1, <2>2 DEF Announce, Works, Announces, Stays, Job
<1>6. ASSUME OverBudget(a) \/ BrakePulled(a) PROVE Goal
  BY <1>6, <1>f DEF OverBudget, BrakePulled, AtPhase, Inside
<1>7. ASSUME SkipPhase(a) \/ PhaseDone(a) PROVE Goal
  <2>1. ASSUME NEW c, NEW ctx, Record(a, c, ctx)
        PROVE  /\ job'[a].pc = "check" /\ job'[a].goal = "phase"
               /\ job'[a].ckpt = Heartbeat(c) /\ Stays(job[a], job'[a])
    <3>1. job'[a] = [job[a] EXCEPT !.pc = "check", !.goal = "phase", !.ctx = ctx,
                                   !.ckpt = Heartbeat(c)]
      BY <1>m, <2>1 DEF Record
    <3> QED
      BY <1>0, <3>1 DEF Job, Stays
  <2>2. CASE SkipPhase(a)
    <3>1. /\ job[a].pc = "brakes" /\ Record(a, job[a].ckpt, job[a].ctx)
          /\ UNCHANGED <<store, audit>>
      BY <2>2 DEF SkipPhase, AtPhase
    <3> QED
      BY <2>1, <3>1 DEF Works, Records
  <2>3. CASE PhaseDone(a)
    <3>1. /\ job[a].pc = "phase" /\ UNCHANGED <<store, audit>>
          /\ Record(a, WithPhase(job[a].ckpt, job[a].idx, Produced(a)), Produced(a))
      BY <2>3 DEF PhaseDone
    <3> QED
      BY <2>1, <3>1 DEF Works, Records
  <2> QED
    BY <1>7, <2>2, <2>3
<1>8. ASSUME StartPhase(a) PROVE Goal
  <2>1. job'[a] = [job[a] EXCEPT !.pc = "phase"]
    BY <1>8, <1>m DEF StartPhase
  <2> QED
    BY <1>0, <1>8, <2>1 DEF StartPhase, AtPhase, WithinBudget, Works, Starts, Stays, Job
<1>9. ASSUME AllPhasesDone(a) PROVE Goal
  <2>1. job'[a] = [job[a] EXCEPT !.pc = "check", !.goal = "completed",
                                 !.ckpt = Ended(job[a].ckpt, "completed")]
    BY <1>9, <1>m DEF AllPhasesDone
  <2> QED
    BY <1>0, <1>9, <2>1 DEF AllPhasesDone, Works, Completes, Stays, Job
<1>10. ASSUME Verify(a) PROVE Goal
  <2>1. job'[a] = [job[a] EXCEPT !.pc = "write"]
    BY <1>10, <1>m DEF Verify
  <2> QED
    BY <1>0, <1>10, <2>1 DEF Verify, Works, Verifies, Stays, Job
<1>11. ASSUME Write(a) PROVE Goal
  <2>1. job'[a] = [job[a] EXCEPT !.pc = "log"]
    BY <1>11, <1>m DEF Write
  <2> QED
    BY <1>0, <1>11, <2>1 DEF Write, Works, Writes, Stays, Job
<1>12. ASSUME LogPhase(a) PROVE Goal
  <2>1. job'[a] = [job[a] EXCEPT !.pc = "brakes", !.idx = @ + 1, !.goal = "none"]
    BY <1>12, <1>m DEF LogPhase
  <2> QED
    BY <1>0, <1>12, <2>1 DEF LogPhase, Works, LogsPhase, Stays, Job
<1>13. ASSUME Raise(a) PROVE Goal
  BY <1>13, <1>f DEF Raise, MayLog
<1>14. ASSUME Superseded(a) \/ LogVerdict(a) \/ Die(a) PROVE Goal
  BY <1>14, <1>l DEF Superseded, LogVerdict, Die, MayLog
<1> HIDE DEF Goal
<1>15. Goal
  BY <1>1, <1>2, <1>3, <1>4, <1>5, <1>6, <1>7, <1>8, <1>9, <1>10, <1>11, <1>12,
     <1>13, <1>14, Zenon DEF RunStep
<1> QED
  BY <1>15 DEF Goal
-----------------------------------------------------------------------------
(* The life of a run: what its record and its holder say of each other.    *)

(* What a save is for shows in the checkpoint that is saved.               *)
Honest(j) ==
    /\ j.pc \in {"claim", "announce", "brakes", "phase"} => j.ckpt.status = "in_progress"
    /\ Saving(j) => \/ j.goal = "phase" /\ j.ckpt.status = "in_progress"
                    \/ j.goal \in {"completed", "failed"} /\ j.ckpt.status = j.goal

(* An attempt about to claim a run leaves as it is what it does not own.   *)
Takes(a, j, c) ==
    j.pc = "claim" =>
        /\ c.status = "absent" => j.ckpt.owner \in Owners /\ j.ckpt.done = {}
        /\ c.status # "absent" => /\ c.attempt # a
                                  /\ j.ckpt.owner = c.owner /\ j.ckpt.done = c.done

(* The holder of a run is at most one phase ahead of its record.           *)
Ahead(j, done) ==
    /\ j.pc \in {"check", "write"} /\ j.goal # "completed"
    /\ \E p \in Phases : /\ p \notin done /\ 1..(p - 1) \subseteq done
                         /\ j.ckpt.done = done \cup {p}

Holds(j, r, c) ==
    /\ j.pc \notin {"idle", "claim"} /\ j.run = r
    /\ j.pc \in Active /\ c.status = "in_progress" =>
          j.ckpt.owner = c.owner /\ (j.ckpt.done = c.done \/ Ahead(j, c.done))

(* A record is all absent, or has a holder.                                *)
Whole(c) ==
    /\ c.status = "absent" => c.attempt = None /\ c.owner = None /\ c.done = {}
    /\ c.status # "absent" => c.attempt \in Attempts

Tracks ==
    /\ \A r \in Runs : Whole(store[r])
    /\ \A a \in Attempts : Honest(job[a]) /\ Takes(a, job[a], store[job[a].run])
    /\ \A a \in Attempts, r \in Runs :
          store[r].attempt = a => Holds(job[a], r, store[r])
    /\ \A s \in Sweepers : \A item \in todo[s] :
          /\ item[2].owner = store[item[1]].owner
          /\ item[2].done = store[item[1]].done

(* What each way of making a checkpoint keeps and sets.                    *)
LEMMA CopyFacts ==
    ASSUME NEW c \in Checkpoint
    PROVE  /\ \A v : LET d == Ended(c, v)
                     IN  /\ d.status = v /\ d.attempt = c.attempt /\ d.owner = c.owner
                         /\ d.done = c.done /\ d.age = 0 /\ d.quiet = 0
           /\ LET d == Heartbeat(c)
              IN  /\ d.status = c.status /\ d.attempt = c.attempt /\ d.owner = c.owner
                  /\ d.done = c.done /\ d.age = c.age /\ d.quiet = 0
           /\ \A p, ctx : LET d == Heartbeat(WithPhase(c, p, ctx))
                          IN  /\ d.status = c.status /\ d.attempt = c.attempt
                              /\ d.owner = c.owner /\ d.done = c.done \cup {p}
                              /\ d.age = c.age /\ d.quiet = 0
           /\ \A a : LET d == Rehydrated(c, a)
                     IN  /\ d.status = "in_progress" /\ d.attempt = a
                         /\ d.owner = c.owner /\ d.done = c.done
                         /\ d.age = 0 /\ d.quiet = 0
           /\ LET d == Older(c)
              IN  /\ d.status = c.status /\ d.attempt = c.attempt /\ d.owner = c.owner
                  /\ d.done = c.done
  BY DEF Checkpoint, Ended, Heartbeat, WithPhase, Rehydrated, Older

LEMMA NewFacts ==
    ASSUME NEW a, NEW o
    PROVE  LET d == NewCheckpoint(a, o)
           IN  /\ d.status = "in_progress" /\ d.attempt = a /\ d.owner = o
               /\ d.done = {} /\ d.age = 0 /\ d.quiet = 0
  BY DEF NewCheckpoint, Absent

(* What an attempt works on, and what it may save.                         *)
LEMMA JobFacts ==
    ASSUME TypeOK, WellPlaced, Consistent, Fresh, NEW a \in Attempts
    PROVE  /\ job[a] \in Job /\ job[a].ckpt \in Checkpoint
           /\ job[a].pc \in Active => /\ job[a].run \in Runs
                                      /\ job[a].ckpt.attempt = a
                                      /\ job[a].ckpt.status # "absent"
                                      /\ Resumable(job[a].ckpt)
           /\ job[a].pc = "phase" => /\ job[a].idx \in Phases
                                     /\ job[a].ckpt.done = 1..(job[a].idx - 1)
           /\ job[a].pc = "write" => /\ store[job[a].run].status = "in_progress"
                                     /\ store[job[a].run].attempt = a
<1>1. job[a] \in Job
  BY DEF TypeOK
<1>2. job[a].ckpt \in Checkpoint
  BY <1>1 DEF Job
<1>3. Placed(job[a]) /\ Knows(a, job[a], store[job[a].run]) /\ InStep(job[a])
  BY DEF WellPlaced, Fresh, Consistent
<1> QED
  BY <1>1, <1>2, <1>3 DEF Placed, Knows, InStep, Active, Inside

LEMMA HonestStep ==
    ASSUME TypeOK, WellPlaced, Consistent, Fresh, Tracks, NEW a \in Attempts, RunStep(a)
    PROVE  Honest(job'[a])
<1>0. job[a].ckpt \in Checkpoint /\ Honest(job[a])
  BY JobFacts DEF Tracks
<1> DEFINE j == job[a]
           k == job'[a]
<1>1. CASE Loads(a, j, k)
  <2>1. k.pc = "claim" /\ k.ckpt.status = "in_progress"
    BY <1>1, CopyFacts, NewFacts DEF Loads, TypeOK
  <2> QED
    BY <2>1 DEF Honest, Saving
<1>2. CASE Leaves(a, j, k)
  BY <1>2 DEF Leaves, Honest, Saving
<1>3. CASE Works(a, j, k)
  <2>1. CASE Claims(a, j, k) \/ Announces(a, j, k) \/ Starts(a, j, k)
    BY <1>0, <2>1 DEF Claims, Announces, Starts, Honest, Saving
  <2>2. CASE Fails(a, j, k) \/ Completes(a, j, k)
    BY <1>0, <2>2, CopyFacts DEF Fails, Completes, Honest, Saving
  <2>3. CASE Records(a, j, k)
    <3>1. k.ckpt.status = j.ckpt.status
      BY <1>0, <2>3, CopyFacts DEF Records
    <3> QED
      BY <1>0, <2>3, <3>1 DEF Records, Honest, Saving
  <2>4. CASE Verifies(a, j, k) \/ Writes(a, j, k) \/ LogsPhase(a, j, k)
    BY <1>0, <2>4 DEF Verifies, Writes, LogsPhase, Honest, Saving
  <2> QED
    BY <1>3, <2>1, <2>2, <2>3, <2>4 DEF Works
<1> QED
  BY <1>1, <1>2, <1>3, RunShape

(* What a step that saves nothing does to the attempt, seen from a record c *)
(* it is level with or one phase ahead of.                                 *)
Level(j, c) ==
    j.ckpt.owner = c.owner /\ (j.ckpt.done = c.done \/ Ahead(j, c.done))

LEMMA StaysLevel ==
    ASSUME TypeOK, WellPlaced, Consistent, Fresh, NEW a \in Attempts, NEW c,
           Level(job[a], c), Works(a, job[a], job'[a]),
           ~Claims(a, job[a], job'[a]), ~Writes(a, job[a], job'[a])
    PROVE  Level(job'[a], c)
<1>0. job[a].ckpt \in Checkpoint
  BY JobFacts
<1> DEFINE j == job[a]
           k == job'[a]
<1>1. CASE Announces(a, j, k) \/ Starts(a, j, k) \/ LogsPhase(a, j, k)
  BY <1>1 DEF Announces, Starts, LogsPhase, Level, Ahead
<1>2. CASE Verifies(a, j, k)
  BY <1>2 DEF Verifies, Level, Ahead
<1>3. CASE Fails(a, j, k) \/ Completes(a, j, k)
  <2>1. k.ckpt.owner = j.ckpt.owner /\ k.ckpt.done = j.ckpt.done
    BY <1>0, <1>3, CopyFacts DEF Fails, Completes
  <2> QED
    BY <1>3, <2>1 DEF Fails, Completes, Level, Ahead
<1>4. CASE Records(a, j, k) /\ j.pc = "brakes"
  <2>1. k.ckpt.owner = j.ckpt.owner /\ k.ckpt.done = j.ckpt.done
    BY <1>0, <1>4, CopyFacts DEF Records
  <2> QED
    BY <1>4, <2>1 DEF Level, Ahead
<1>5. CASE Records(a, j, k) /\ j.pc = "phase"
  <2>1. k.ckpt.owner = j.ckpt.owner /\ k.ckpt.done = j.ckpt.done \cup {j.idx}
    BY <1>0, <1>5, CopyFacts DEF Records
  <2>2. j.idx \in Phases /\ j.ckpt.done = 1..(j.idx - 1)
    BY <1>5, JobFacts
  <2>3. j.idx \notin j.ckpt.done
    BY <2>2, PipelineAssumption DEF Phases
  <2>4. k.pc = "check" /\ k.goal = "phase" /\ j.ckpt.done = c.done
    BY <1>5 DEF Records, Level, Ahead
  <2>5. j.ckpt.owner = c.owner
    BY DEF Level
  <2>6. Ahead(k, c.done)
    BY <2>1, <2>2, <2>3, <2>4 DEF Ahead
  <2> QED
    BY <2>1, <2>5, <2>6 DEF Level
<1> QED
  BY <1>1, <1>2, <1>3, <1>4, <1>5 DEF Works, Records

(* A step of attempt a: what a itself takes or holds.                      *)
LEMMA MoverTracks ==
    ASSUME TypeOK, WellPlaced, Consistent, Alone, Fresh, Tracks,
           NEW a \in Attempts, RunStep(a)
    PROVE  /\ Takes(a, job'[a], store'[job'[a].run])
           /\ \A r \in Runs : store'[r].attempt = a => Holds(job'[a], r, store'[r])
<1> DEFINE j == job[a]
           k == job'[a]
<1>0. /\ j.ckpt \in Checkpoint /\ Honest(j) /\ store \in [Runs -> Checkpoint]
      /\ \A r \in Runs : store[r].attempt = a => Holds(j, r, store[r])
      /\ j.pc \in Active => j.run \in Runs /\ j.ckpt.attempt = a /\ Resumable(j.ckpt)
  BY JobFacts DEF Tracks, TypeOK
<1>1. CASE Loads(a, j, k)
  <2>1. \A r \in Runs : store[r].attempt # a
    BY <1>0, <1>1 DEF Loads, Holds
  <2>2. k.run \in Runs /\ UNCHANGED store /\ k.pc = "claim"
    BY <1>1 DEF Loads
  <2>3. /\ store[k.run].status = "absent" => k.ckpt.owner \in Owners /\ k.ckpt.done = {}
        /\ store[k.run].status # "absent" =>
              k.ckpt.owner = store[k.run].owner /\ k.ckpt.done = store[k.run].done
    BY <1>0, <1>1, <2>2, CopyFacts, NewFacts DEF Loads
  <2> QED
    BY <2>1, <2>2, <2>3 DEF Takes
<1>2. CASE Leaves(a, j, k)
  BY <1>0, <1>2 DEF Leaves, Takes, Holds, Active, Inside
<1>3. CASE Stays(j, k) /\ Works(a, j, k)
  <2>0. j.pc \in Active /\ k.run = j.run /\ k.pc # "claim" /\ k.pc # "idle"
    BY <1>3 DEF Stays, Works, Claims, Announces, Fails, Records, Starts, Completes,
       Verifies, Writes, LogsPhase, Active, Inside
  <2>1. CASE Claims(a, j, k) \/ Writes(a, j, k)
    <3>1. /\ store' = [store EXCEPT ![j.run] = j.ckpt] /\ k.ckpt = j.ckpt
      BY <2>1 DEF Claims, Writes
    <3>2. \A r \in Runs : store'[r] = IF r = j.run THEN j.ckpt ELSE store[r]
      BY <1>0, <2>0, <3>1
    <3>3. \A r \in Runs \ {j.run} : store[r].attempt # a
      BY <1>0, <2>0 DEF Holds
    <3> QED
      BY <2>0, <3>1, <3>2, <3>3 DEF Takes, Holds
  <2>2. CASE ~Claims(a, j, k) /\ ~Writes(a, j, k)
    <3>1. UNCHANGED store /\ j.pc # "claim" /\ j.pc # "idle"
      BY <1>3, <2>2 DEF Works, Announces, Fails, Records, Starts, Completes,
         Verifies, LogsPhase, Inside
    <3>2. ASSUME NEW r \in Runs, store[r].attempt = a PROVE Holds(k, r, store[r])
      <4>1. Holds(j, r, store[r])
        BY <1>0, <3>2
      <4>2. Level(j, store[r]) => Level(k, store[r])
        BY <1>3, <2>2, StaysLevel
      <4> QED
        BY <2>0, <4>1, <4>2 DEF Holds, Level
    <3> QED
      BY <2>0, <3>1, <3>2 DEF Takes
  <2> QED
    BY <2>1, <2>2
<1> QED
  BY <1>1, <1>2, <1>3, RunShape

(* A step of attempt a: the others hold no more than they did, and what    *)
(* they are about to claim is as they loaded it.                           *)
LEMMA OthersTrack ==
    ASSUME TypeOK, WellPlaced, Consistent, Alone, Fresh, Tracks,
           NEW a \in Attempts, RunStep(a)
    PROVE  /\ \A r \in Runs : Whole(store'[r])
           /\ \A b \in Attempts \ {a} :
                 /\ job'[b] = job[b]
                 /\ Takes(b, job[b], store'[job[b].run])
                 /\ \A r \in Runs : store'[r].attempt = b => Holds(job[b], r, store'[r])
           /\ \A s \in Sweepers : \A item \in todo'[s] :
                 item \in todo[s] /\ store'[item[1]] = store[item[1]]
<1>0. /\ \A r \in Runs : Whole(store[r])
      /\ \A b \in Attempts \ {a} : Takes(b, job[b], store[job[b].run])
      /\ \A b \in Attempts \ {a} : \A r \in Runs :
            store[r].attempt = b => Holds(job[b], r, store[r])
  BY DEF Tracks
<1>1. UNCHANGED todo /\ \A b \in Attempts \ {a} : job'[b] = job[b]
  BY RunFootprint
<1>2. CASE UNCHANGED store
  BY <1>0, <1>1, <1>2
<1>3. CASE /\ job[a].pc \in {"claim", "write"}
           /\ store' = [store EXCEPT ![job[a].run] = job[a].ckpt]
  <2>1. Amid(a) /\ job[a].pc \in Active
    BY <1>3 DEF Amid, Active, Inside
  <2>2. /\ \A b \in Attempts \ {a} : job[b].pc # "claim"
        /\ \A s \in Sweepers : todo'[s] = {}
    BY <1>1, <2>1 DEF Alone, Amid
  <2>3. /\ job[a].run \in Runs /\ job[a].ckpt.attempt = a
        /\ job[a].ckpt.status # "absent"
    BY <2>1, JobFacts
  <2>4. \A r \in Runs : store'[r] = IF r = job[a].run THEN job[a].ckpt ELSE store[r]
    BY <1>3, <2>3 DEF TypeOK
  <2>5. \A r \in Runs : Whole(store'[r])
    BY <1>0, <2>3, <2>4 DEF Whole
  <2>6. ASSUME NEW b \in Attempts \ {a}
        PROVE  /\ Takes(b, job[b], store'[job[b].run])
               /\ \A r \in Runs : store'[r].attempt = b => Holds(job[b], r, store'[r])
    <3>1. Takes(b, job[b], store'[job[b].run])
      BY <2>2 DEF Takes
    <3>2. ASSUME NEW r \in Runs, store'[r].attempt = b PROVE Holds(job[b], r, store'[r])
      <4>1. store'[r] = store[r]
        BY <2>3, <2>4, <3>2
      <4> QED
        BY <1>0, <3>2, <4>1
    <3> QED
      BY <3>1, <3>2
  <2> QED
    BY <1>1, <2>2, <2>5, <2>6
<1> QED
  BY <1>2, <1>3, RunFootprint

(* A step of a sweeper: it saves what it loaded, ended, while nobody else  *)
(* is about to save.                                                       *)
LEMMA SweepTracks ==
    ASSUME TypeOK, WellPlaced, Consistent, Alone, Fresh, Tracks,
           NEW s \in Sweepers, SweepStep(s)
    PROVE  Tracks'
<1>0. /\ \A r \in Runs : Whole(store[r]) /\ store[r] \in Checkpoint
      /\ \A a \in Attempts : Honest(job[a]) /\ Takes(a, job[a], store[job[a].run])
      /\ \A a \in Attempts, r \in Runs :
            store[r].attempt = a => Holds(job[a], r, store[r])
      /\ \A t \in Sweepers : \A item \in todo[t] :
            item[2].owner = store[item[1]].owner /\ item[2].done = store[item[1]].done
  BY DEF Tracks, TypeOK
<1>1. UNCHANGED job
  BY DEF SweepStep, SweepList, Reap, ReapLog, SweepDies
<1>2. CASE SweepList(s)
  <2>1. /\ UNCHANGED store /\ \A t \in Sweepers \ {s} : todo'[t] = todo[t]
        /\ todo'[s] = {<<r, Ended(store[r], "failed")>> :
                           r \in {q \in Runs : Stuck(store[q])}}
    BY <1>2 DEF SweepList, TypeOK
  <2>2. ASSUME NEW item \in todo'[s]
        PROVE  /\ item[2].owner = store[item[1]].owner
               /\ item[2].done = store[item[1]].done
    <3>1. PICK r \in Runs : item = <<r, Ended(store[r], "failed")>>
      BY <2>1
    <3> QED
      BY <1>0, <3>1, CopyFacts
  <2>3. ASSUME NEW t \in Sweepers, NEW item \in todo'[t]
        PROVE  /\ item[2].owner = store'[item[1]].owner
               /\ item[2].done = store'[item[1]].done
    BY <1>0, <2>1, <2>2
  <2> QED
    BY <1>0, <1>1, <2>1, <2>3 DEF Tracks
<1>3. CASE Reap(s)
  <2>1. PICK item \in todo[s] :
           /\ store' = [store EXCEPT ![item[1]] = item[2]]
           /\ todo' = [todo EXCEPT ![s] = @ \ {item}]
    BY <1>3 DEF Reap
  <2>2. /\ item[1] \in Runs /\ item[2].status = "failed"
        /\ store[item[1]].attempt = item[2].attempt
        /\ store[item[1]].status = "in_progress"
    BY ItemFacts DEF Fresh
  <2>3. \A r \in Runs : store'[r] = IF r = item[1] THEN item[2] ELSE store[r]
    BY <2>1, <2>2 DEF TypeOK
  <2>4. \A a \in Attempts : job[a].pc # "claim"
    BY <2>1 DEF Alone, Amid
  <2>5. \A r \in Runs : Whole(store'[r])
    BY <1>0, <2>2, <2>3 DEF Whole
  <2>6. \A a \in Attempts : Takes(a, job[a], store'[job[a].run])
    BY <2>4 DEF Takes
  <2>7. ASSUME NEW a \in Attempts, NEW r \in Runs, store'[r].attempt = a
        PROVE  Holds(job[a], r, store'[r])
    <3>1. Holds(job[a], r, store[r])
      BY <1>0, <2>2, <2>3, <2>7
    <3> QED
      BY <2>2, <2>3, <3>1 DEF Holds
  <2>8. ASSUME NEW t \in Sweepers, NEW one \in todo'[t]
        PROVE  /\ one[2].owner = store'[one[1]].owner
               /\ one[2].done = store'[one[1]].done
    <3>1. t = s /\ one \in todo[s] /\ one # item
      BY <2>1 DEF Alone, TypeOK
    <3>2. one[1] # item[1] /\ one[1] \in Runs
      BY <3>1, ItemFacts DEF Fresh
    <3> QED
      BY <1>0, <2>3, <3>1, <3>2
  <2> QED
    BY <1>0, <1>1, <2>5, <2>6, <2>7, <2>8 DEF Tracks
<1>4. CASE ReapLog(s)
  BY <1>0, <1>1, <1>4 DEF ReapLog, Tracks
<1>5. CASE SweepDies(s)
  <2>1. UNCHANGED store /\ \A t \in Sweepers : todo'[t] \subseteq todo[t]
    BY <1>5 DEF SweepDies, TypeOK
  <2>2. ASSUME NEW t \in Sweepers, NEW item \in todo'[t]
        PROVE  /\ item[2].owner = store'[item[1]].owner
               /\ item[2].done = store'[item[1]].done
    BY <1>0, <2>1
  <2> QED
    BY <1>0, <1>1, <2>1, <2>2 DEF Tracks
<1> QED
  BY <1>2, <1>3, <1>4, <1>5 DEF SweepStep

(* Time changes clocks, and clocks alone.                                  *)
LEMMA TickTracks ==
    ASSUME TypeOK, WellPlaced, Tracks, Tick
    PROVE  Tracks'
<1>0. /\ \A r \in Runs : Whole(store[r]) /\ store[r] \in Checkpoint
      /\ \A a \in Attempts : Honest(job[a]) /\ Takes(a, job[a], store[job[a].run])
      /\ \A a \in Attempts, r \in Runs :
            store[r].attempt = a => Holds(job[a], r, store[r])
      /\ \A t \in Sweepers : \A item \in todo[t] : item[1] \in Runs /\
            item[2].owner = store[item[1]].owner /\ item[2].done = store[item[1]].done
  BY ItemFacts DEF Tracks, TypeOK
<1>1. \A r \in Runs : store'[r].status = store[r].status
         /\ store'[r].attempt = store[r].attempt /\ store'[r].owner = store[r].owner
         /\ store'[r].done = store[r].done
  BY <1>0, CopyFacts DEF Tick
<1>2. ASSUME NEW a \in Attempts
      PROVE  /\ job'[a].pc = job[a].pc /\ job'[a].run = job[a].run
             /\ job'[a].goal = job[a].goal
             /\ job'[a].ckpt.status = job[a].ckpt.status
             /\ job'[a].ckpt.owner = job[a].ckpt.owner
             /\ job'[a].ckpt.done = job[a].ckpt.done
  <2>1. job[a] \in Job /\ job'[a] = [job[a] EXCEPT !.ckpt = Older(job[a].ckpt)]
    BY DEF Tick, TypeOK
  <2>2. /\ job'[a].pc = job[a].pc /\ job'[a].run = job[a].run
        /\ job'[a].goal = job[a].goal
        /\ job'[a].ckpt = Older(job[a].ckpt) /\ job[a].ckpt \in Checkpoint
    BY <2>1 DEF Job
  <2> QED
    BY <2>2, CopyFacts
<1>3. \A r \in Runs : Whole(store'[r])
  BY <1>0, <1>1 DEF Whole
<1>4. ASSUME NEW a \in Attempts
      PROVE  Honest(job'[a]) /\ Takes(a, job'[a], store'[job'[a].run])
  <2>1. Honest(job'[a])
    BY <1>0, <1>2 DEF Honest, Saving
  <2>2. job[a].pc = "claim" => job[a].run \in Runs
    BY DEF WellPlaced, Placed, Active
  <2>3. Takes(a, job'[a], store'[job'[a].run])
    BY <1>0, <1>1, <1>2, <2>2 DEF Takes
  <2> QED
    BY <2>1, <2>3
<1>5. ASSUME NEW a \in Attempts, NEW r \in Runs, store'[r].attempt = a
      PROVE  Holds(job'[a], r, store'[r])
  <2>1. Holds(job[a], r, store[r])
    BY <1>0, <1>1, <1>5
  <2>2. Ahead(job[a], store[r].done) => Ahead(job'[a], store'[r].done)
    BY <1>1, <1>2 DEF Ahead
  <2> QED
    BY <1>1, <1>2, <2>1, <2>2 DEF Holds
<1>6. UNCHANGED todo
  BY DEF Tick
<1>7. ASSUME NEW t \in Sweepers, NEW item \in todo'[t]
      PROVE  item[2].owner = store'[item[1]].owner /\ item[2].done = store'[item[1]].done
  BY <1>0, <1>1, <1>6
<1> QED
  BY <1>3, <1>4, <1>5, <1>7 DEF Tracks

LEMMA TracksStep ==
    ASSUME TypeOK, WellPlaced, Consistent, Alone, Fresh, Tracks, [Next]_vars
    PROVE  Tracks'
<1>1. ASSUME NEW a \in Attempts, RunStep(a) PROVE Tracks'
  <2>1. /\ \A r \in Runs : Whole(store'[r])
        /\ \A s \in Sweepers : \A item \in todo'[s] :
              /\ item[2].owner = store'[item[1]].owner
              /\ item[2].done = store'[item[1]].done
    BY <1>1, OthersTrack DEF Tracks
  <2>2. ASSUME NEW b \in Attempts
        PROVE  /\ Honest(job'[b]) /\ Takes(b, job'[b], store'[job'[b].run])
               /\ \A r \in Runs : store'[r].attempt = b => Holds(job'[b], r, store'[r])
    <3>1. CASE b = a
      BY <1>1, <3>1, HonestStep, MoverTracks
    <3>2. CASE b # a
      BY <1>1, <3>2, OthersTrack DEF Tracks
    <3> QED
      BY <3>1, <3>2
  <2> QED
    BY <2>1, <2>2 DEF Tracks
<1>2. ASSUME NEW s \in Sweepers, SweepStep(s) PROVE Tracks'
  BY <1>2, SweepTracks
<1>3. CASE UNCHANGED vars
  BY <1>3 DEF vars, Tracks
<1> QED
  BY <1>1, <1>2, <1>3, TickTracks DEF Next

(* The life of a run and what its attempts know of it, for every behaviour *)
(* in which no load is separated from its save.                            *)
THEOREM Tracking == ~Preemptive => (Spec => []Tracks)
<1> SUFFICES ASSUME ~Preemptive PROVE Spec => []Tracks
  OBVIOUS
<1>1. Init => Tracks
  BY PipelineAssumption DEF Init, Tracks, Whole, Honest, Takes, Holds, Saving, Idle, Absent
<1>2. TypeOK /\ WellPlaced /\ Consistent /\ Alone /\ Fresh /\ Tracks /\ [Next]_vars
      => Tracks'
  BY TracksStep
<1> QED
  BY <1>1, <1>2, Typing, Consistency, Fencing, PTL DEF Spec

-----------------------------------------------------------------------------
(* The pipeline implements the life of its runs.                           *)

LifeOf(c) ==
    [status |-> c.status, holder |-> c.attempt, owner |-> c.owner, done |-> c.done]

Lives == [r \in Runs |-> LifeOf(store[r])]

(* What a save does to the life of its run, one lemma per abstract action. *)
LEMMA LivesSaved ==
    ASSUME TypeOK, NEW r \in Runs, NEW c, store' = [store EXCEPT ![r] = c]
    PROVE  /\ Lives' = [Lives EXCEPT ![r] = LifeOf(c)]
           /\ Lives = [q \in Runs |-> Lives[q]] /\ Lives[r] = LifeOf(store[r])
  BY DEF Lives, TypeOK

LEMMA SaveStarts ==
    ASSUME TypeOK, NEW r \in Runs, NEW c, store' = [store EXCEPT ![r] = c],
           store[r].status = "absent", Whole(store[r]),
           c.status = "in_progress", c.done = {},
           c.attempt \in Attempts, c.owner \in Owners
    PROVE  Lifecycle!Next
<1>1. Lives' = [Lives EXCEPT ![r] = LifeOf(c)]
  BY LivesSaved
<1>2. Lives[r] = [status |-> "absent", holder |-> None, owner |-> None, done |-> {}]
  BY DEF Lives, LifeOf, Whole
<1>3. LifeOf(c) = [status |-> "in_progress", holder |-> c.attempt, owner |-> c.owner,
                   done |-> {}]
  BY DEF LifeOf
<1>4. PICK u : u = [status |-> "absent", holder |-> None, owner |-> None, done |-> {}]
  OBVIOUS
<1>5. PICK v : v = [u EXCEPT !.status = "in_progress"]
  OBVIOUS
<1>6. PICK w : w = [v EXCEPT !.holder = c.attempt]
  OBVIOUS
<1>7. PICK a \in Attempts, o \in Owners : a = c.attempt /\ o = c.owner
  OBVIOUS
<1>8. [u EXCEPT !.status = "in_progress", !.holder = a, !.owner = o] = LifeOf(c)
  <2>1. v = [status |-> "in_progress", holder |-> None, owner |-> None, done |-> {}]
    BY <1>4, <1>5
  <2>2. w = [status |-> "in_progress", holder |-> a, owner |-> None, done |-> {}]
    BY <1>6, <1>7, <2>1
  <2>3. [w EXCEPT !.owner = o] = LifeOf(c)
    BY <1>3, <1>7, <2>2
  <2>4. [u EXCEPT !.status = "in_progress", !.holder = a] = w
    BY <1>5, <1>6, <1>7
  <2>5. [u EXCEPT !.status = "in_progress", !.holder = a, !.owner = o]
        = [w EXCEPT !.owner = o]
    BY <2>4
  <2> QED
    BY <2>3, <2>5
<1>9. Lives[r] = u /\ u = Lifecycle!Unborn
  BY <1>2, <1>4 DEF Lifecycle!Unborn
<1>10. Lifecycle!Start(r, a, o)
  BY <1>1, <1>8, <1>9 DEF Lifecycle!Start, Lives, LifeOf
<1> QED
  BY <1>7, <1>10 DEF Lifecycle!Next

LEMMA SaveRetakes ==
    ASSUME TypeOK, NEW r \in Runs, NEW c, store' = [store EXCEPT ![r] = c],
           store[r].status # "absent", c.attempt # store[r].attempt,
           c.status = "in_progress", c.owner = store[r].owner, c.done = store[r].done,
           c.attempt \in Attempts
    PROVE  Lifecycle!Next
<1>1. PICK a \in Attempts : a = c.attempt
  OBVIOUS
<1>2. Lives' = [Lives EXCEPT ![r].status = "in_progress", ![r].holder = a]
  <2>1. [LifeOf(store[r]) EXCEPT !.status = "in_progress", !.holder = a] = LifeOf(c)
    <3>1. PICK m : m = [LifeOf(store[r]) EXCEPT !.status = "in_progress"]
      OBVIOUS
    <3>2. m = [status |-> "in_progress", holder |-> store[r].attempt,
               owner |-> store[r].owner, done |-> store[r].done]
      BY <3>1 DEF LifeOf
    <3>3. [m EXCEPT !.holder = a] = LifeOf(c)
      BY <1>1, <3>2 DEF LifeOf
    <3> QED
      BY <3>1, <3>3
  <2>2. [Lives EXCEPT ![r].status = "in_progress", ![r].holder = a]
        = [Lives EXCEPT ![r] = LifeOf(c)]
    BY <2>1, LivesSaved
  <2> QED
    BY <2>2, LivesSaved
<1>3. Lifecycle!Retake(r, a)
  BY <1>1, <1>2, LivesSaved DEF Lifecycle!Retake, Lives, LifeOf
<1> QED
  BY <1>3 DEF Lifecycle!Next

LEMMA SaveAdvances ==
    ASSUME TypeOK, NEW r \in Runs, NEW c, store' = [store EXCEPT ![r] = c],
           store[r].status = "in_progress", c.status = "in_progress",
           c.attempt = store[r].attempt, c.owner = store[r].owner,
           NEW p \in Phases, p \notin store[r].done, 1..(p - 1) \subseteq store[r].done,
           c.done = store[r].done \cup {p}
    PROVE  Lifecycle!Next
<1>1. [LifeOf(store[r]) EXCEPT !.done = @ \cup {p}] = LifeOf(c)
  BY DEF LifeOf
<1>2. Lives' = [Lives EXCEPT ![r].done = @ \cup {p}]
  <2>1. [Lives EXCEPT ![r].done = @ \cup {p}] = [Lives EXCEPT ![r] = LifeOf(c)]
    BY <1>1, LivesSaved
  <2> QED
    BY <2>1, LivesSaved
<1>3. Lifecycle!Working(r) /\ p \in Lifecycle!NextPhase(r)
  BY DEF Lifecycle!Working, Lifecycle!NextPhase, Lifecycle!Phases, Phases, Lives, LifeOf
<1>4. Lifecycle!Advance(r)
  BY <1>2, <1>3 DEF Lifecycle!Advance, Lives, LifeOf
<1> QED
  BY <1>4 DEF Lifecycle!Next

LEMMA SaveCompletes ==
    ASSUME TypeOK, NEW r \in Runs, NEW c, store' = [store EXCEPT ![r] = c],
           store[r].status = "in_progress", c.status = "completed",
           c.attempt = store[r].attempt, c.owner = store[r].owner,
           c.done = store[r].done, c.done = Phases
    PROVE  Lifecycle!Next
<1>1. [LifeOf(store[r]) EXCEPT !.status = "completed"] = LifeOf(c)
  BY DEF LifeOf
<1>2. Lives' = [Lives EXCEPT ![r].status = "completed"]
  <2>1. [Lives EXCEPT ![r].status = "completed"] = [Lives EXCEPT ![r] = LifeOf(c)]
    BY <1>1, LivesSaved
  <2> QED
    BY <2>1, LivesSaved
<1>3. Lifecycle!Working(r) /\ Lives[r].done = Lifecycle!Phases
  BY DEF Lifecycle!Working, Lifecycle!Phases, Phases, Lives, LifeOf
<1>4. Lifecycle!Complete(r)
  BY <1>2, <1>3 DEF Lifecycle!Complete, Lives, LifeOf
<1> QED
  BY <1>4 DEF Lifecycle!Next

LEMMA SaveFails ==
    ASSUME TypeOK, NEW r \in Runs, NEW c, store' = [store EXCEPT ![r] = c],
           store[r].status = "in_progress", c.status = "failed",
           c.attempt = store[r].attempt, c.owner = store[r].owner,
           \/ c.done = store[r].done
           \/ \E p \in Phases : /\ p \notin store[r].done
                                /\ 1..(p - 1) \subseteq store[r].done
                                /\ c.done = store[r].done \cup {p}
    PROVE  Lifecycle!Next
<1>1. PICK extra \in {{}} \cup {{p} : p \in Lifecycle!NextPhase(r)} :
         c.done = store[r].done \cup extra
  <2>1. CASE c.done = store[r].done
    <3>1. c.done = store[r].done \cup {}
      BY <2>1
    <3> QED
      BY <3>1
  <2>2. ASSUME NEW p \in Phases, p \notin store[r].done,
               1..(p - 1) \subseteq store[r].done, c.done = store[r].done \cup {p}
        PROVE  \E extra \in {{}} \cup {{q} : q \in Lifecycle!NextPhase(r)} :
                  c.done = store[r].done \cup extra
    <3>1. p \in Lifecycle!NextPhase(r)
      BY <2>2 DEF Lifecycle!NextPhase, Lifecycle!Phases, Phases, Lives, LifeOf
    <3> QED
      BY <2>2, <3>1
  <2> QED
    BY <2>1, <2>2
<1>2. Lives' = [Lives EXCEPT ![r].status = "failed", ![r].done = @ \cup extra]
  <2>1. [LifeOf(store[r]) EXCEPT !.status = "failed", !.done = @ \cup extra] = LifeOf(c)
    <3>1. PICK m : m = [LifeOf(store[r]) EXCEPT !.status = "failed"]
      OBVIOUS
    <3>2. m = [status |-> "failed", holder |-> store[r].attempt,
               owner |-> store[r].owner, done |-> store[r].done]
      BY <3>1 DEF LifeOf
    <3>3. m.done \cup extra = c.done
      BY <1>1, <3>2
    <3>4. [m EXCEPT !.done = c.done] = LifeOf(c)
      BY <3>2 DEF LifeOf
    <3> QED
      BY <3>1, <3>3, <3>4
  <2>2. [Lives EXCEPT ![r].status = "failed", ![r].done = @ \cup extra]
        = [Lives EXCEPT ![r] = LifeOf(c)]
    BY <2>1, LivesSaved
  <2> QED
    BY <2>2, LivesSaved
<1>3. Lifecycle!Working(r)
  BY DEF Lifecycle!Working, Lives, LifeOf
<1>4. Lifecycle!Fail(r)
  BY <1>1, <1>2, <1>3 DEF Lifecycle!Fail, Lives, LifeOf
<1> QED
  BY <1>4 DEF Lifecycle!Next

(* Every save of an attempt is a step of the life of its run, or changes   *)
(* nothing that matters to it.                                             *)
LEMMA ClaimLives ==
    ASSUME TypeOK, WellPlaced, Consistent, Fresh, Tracks,
           NEW a \in Attempts, job[a].pc = "claim",
           store' = [store EXCEPT ![job[a].run] = job[a].ckpt]
    PROVE  Lifecycle!Next
<1>1. PICK run \in Runs, c \in Checkpoint : run = job[a].run /\ c = job[a].ckpt
  BY JobFacts DEF Active
<1>2. /\ Whole(store[run]) /\ Takes(a, job[a], store[run])
      /\ c.status = "in_progress" /\ c.attempt = a
      /\ store' = [store EXCEPT ![run] = c]
  BY <1>1, JobFacts DEF Tracks, Honest, Active
<1>3. CASE store[run].status = "absent"
  BY <1>1, <1>2, <1>3, SaveStarts DEF Takes
<1>4. CASE store[run].status # "absent"
  <2>1. c.attempt # store[run].attempt /\ c.owner = store[run].owner
        /\ c.done = store[run].done
    BY <1>1, <1>2, <1>4 DEF Takes
  <2> QED
    BY <1>2, <1>4, <2>1, SaveRetakes
<1> QED
  BY <1>3, <1>4

LEMMA WriteLives ==
    ASSUME TypeOK, WellPlaced, Consistent, Fresh, Tracks,
           NEW a \in Attempts, job[a].pc = "write",
           store' = [store EXCEPT ![job[a].run] = job[a].ckpt]
    PROVE  Lifecycle!Next \/ Lives' = Lives
<1>1. PICK run \in Runs, c \in Checkpoint : run = job[a].run /\ c = job[a].ckpt
  BY JobFacts DEF Active, Inside
<1>2. /\ c.attempt = a /\ Resumable(c)
      /\ store[run].status = "in_progress" /\ store[run].attempt = a
      /\ store' = [store EXCEPT ![run] = c]
  BY <1>1, JobFacts DEF Active, Inside
<1>3. /\ c.owner = store[run].owner
      /\ c.done = store[run].done \/ Ahead(job[a], store[run].done)
      /\ \/ job[a].goal = "phase" /\ c.status = "in_progress"
         \/ job[a].goal \in {"completed", "failed"} /\ c.status = job[a].goal
  BY <1>1, <1>2 DEF Tracks, Holds, Honest, Saving, Active, Inside
<1>4. c.done = store[run].done
      \/ /\ job[a].goal # "completed"
         /\ \E p \in Phases : /\ p \notin store[run].done
                              /\ 1..(p - 1) \subseteq store[run].done
                              /\ c.done = store[run].done \cup {p}
  BY <1>1, <1>3 DEF Ahead
<1>5. CASE c.status = "in_progress" /\ c.done = store[run].done
  <2>1. LifeOf(c) = LifeOf(store[run])
    BY <1>2, <1>3, <1>5 DEF LifeOf
  <2> QED
    BY <1>2, <2>1, LivesSaved DEF Lives
<1>6. CASE c.status = "in_progress" /\ c.done # store[run].done
  <2>1. PICK p \in Phases : /\ p \notin store[run].done
                            /\ 1..(p - 1) \subseteq store[run].done
                            /\ c.done = store[run].done \cup {p}
    BY <1>4, <1>6
  <2>2. c.owner = store[run].owner /\ c.attempt = store[run].attempt
    BY <1>2, <1>3
  <2> QED
    BY <1>2, <1>6, <2>1, <2>2, SaveAdvances
<1>7. CASE c.status = "completed"
  <2>1. c.done = store[run].done /\ c.done = Phases
    BY <1>2, <1>3, <1>4, <1>7 DEF Resumable
  <2> QED
    BY <1>2, <1>3, <1>7, <2>1, SaveCompletes
<1>8. CASE c.status = "failed"
  <2>1. c.owner = store[run].owner /\ c.attempt = store[run].attempt
    BY <1>2, <1>3
  <2>2. \/ c.done = store[run].done
        \/ \E p \in Phases : /\ p \notin store[run].done
                             /\ 1..(p - 1) \subseteq store[run].done
                             /\ c.done = store[run].done \cup {p}
    BY <1>4
  <2> QED
    BY <1>2, <1>8, <2>1, <2>2, SaveFails
<1> QED
  BY <1>3, <1>5, <1>6, <1>7, <1>8

LEMMA ReapLives ==
    ASSUME TypeOK, Fresh, Tracks, NEW s \in Sweepers, Reap(s)
    PROVE  Lifecycle!Next
<1>1. PICK item \in todo[s] : store' = [store EXCEPT ![item[1]] = item[2]]
  BY DEF Reap
<1>2. /\ item[1] \in Runs /\ item[2].status = "failed"
      /\ store[item[1]].status = "in_progress"
      /\ item[2].attempt = store[item[1]].attempt
      /\ item[2].owner = store[item[1]].owner /\ item[2].done = store[item[1]].done
  BY ItemFacts DEF Fresh, Tracks
<1> QED
  BY <1>1, <1>2, SaveFails

LEMMA LivesStep ==
    ASSUME TypeOK, WellPlaced, Consistent, Fresh, Tracks, [Next]_vars
    PROVE  Lifecycle!Next \/ Lives' = Lives
<1>0. UNCHANGED store => Lives' = Lives
  BY DEF Lives
<1>1. ASSUME NEW a \in Attempts, RunStep(a) PROVE Lifecycle!Next \/ Lives' = Lives
  BY <1>0, <1>1, RunFootprint, ClaimLives, WriteLives
<1>2. ASSUME NEW s \in Sweepers, SweepStep(s) PROVE Lifecycle!Next \/ Lives' = Lives
  <2>1. UNCHANGED store \/ Reap(s)
    BY <1>2 DEF SweepStep, SweepList, ReapLog, SweepDies
  <2> QED
    BY <1>0, <2>1, ReapLives
<1>3. CASE Tick
  <2>1. \A r \in Runs : LifeOf(store'[r]) = LifeOf(store[r])
    BY <1>3, CopyFacts DEF Tick, LifeOf, TypeOK
  <2> QED
    BY <2>1 DEF Lives
<1>4. UNCHANGED vars => UNCHANGED store
  BY DEF vars
<1> QED
  BY <1>0, <1>1, <1>2, <1>3, <1>4 DEF Next

(* However attempts, crashes, retries and sweeps interleave, a run has one *)
(* holder at a time, finishes its phases in order and once each, and keeps *)
(* its verdict until an attempt of its own owner takes it up again.        *)
THEOREM PipelineKeepsLives == ~Preemptive => (Spec => ImplementsLifecycle)
<1> SUFFICES ASSUME ~Preemptive PROVE Spec => ImplementsLifecycle
  OBVIOUS
<1>1. Init => Lifecycle!Init
  BY DEF Init, Lifecycle!Init, Lifecycle!Unborn, Absent
<1>2. TypeOK /\ WellPlaced /\ Consistent /\ Fresh /\ Tracks /\ [Next]_vars
      => Lifecycle!Next \/ Lives' = Lives
  BY LivesStep
<1>3. TypeOK /\ WellPlaced /\ Consistent /\ Fresh /\ Tracks /\ [Next]_vars
      => [Lifecycle!Next]_([r \in Runs |-> [status |-> store[r].status,
                                            holder |-> store[r].attempt,
                                            owner  |-> store[r].owner,
                                            done   |-> store[r].done]])
  BY <1>2 DEF Lives, LifeOf
<1> QED
  BY <1>1, <1>3, Typing, Consistency, Fencing, Tracking, PTL
     DEF Spec, ImplementsLifecycle, Lifecycle!Spec

-----------------------------------------------------------------------------
(* The trail and the store.                                                *)

(* The verdict the trail gives attempt a, or a sweeper owes it.            *)
Says(a, v) ==
    \/ v = "completed" /\ <<"pipeline_completed", a>> \in audit
    \/ v = "failed" /\ \/ <<"pipeline_failed", a>> \in audit
                       \/ <<"run_reaped", a>> \in audit
                       \/ \E s \in Sweepers : a \in pending[s]

(* The runs attempt a was the last to hold have that status.               *)
Stands(a, v) ==
    \A r \in Runs : store[r].attempt = a => store[r].status = v

Trails ==
    /\ audit \subseteq Events \X Attempts
    /\ \A s \in Sweepers : pending[s] \subseteq Attempts
    /\ \A a \in Attempts, v \in Terminal :
          Says(a, v) => job[a].pc \notin {"idle", "claim"} /\ Stands(a, v)
    /\ \A a \in Attempts :
          job[a].pc = "log" /\ job[a].goal \in Terminal => Stands(a, job[a].goal)

(* The one verdict a step of attempt a can add to the trail is its own.    *)
LEMMA SaysMore ==
    ASSUME TypeOK, Tracks, Trails, NEW a \in Attempts, RunStep(a)
    PROVE  /\ audit' \subseteq Events \X Attempts
           /\ \A b \in Attempts, v \in Terminal :
                 Says(b, v)' => \/ Says(b, v)
                                \/ b = a /\ job[a].pc = "log" /\ job[a].goal = v
<1>0. /\ UNCHANGED pending /\ audit \subseteq Events \X Attempts
      /\ job[a].pc = "log" => job[a].goal \in {"phase", "completed", "failed"}
  BY RunFootprint DEF Trails, Tracks, Honest, Saving
<1>1. CASE UNCHANGED audit
  BY <1>0, <1>1 DEF Says
<1>2. CASE \E e \in {"pipeline_resumed", "pipeline_started"} : audit' = audit \cup {<<e, a>>}
  BY <1>0, <1>2 DEF Says, Events
<1>3. CASE MayLog(a, job[a])
  <2>1. PICK e : /\ Entry(a) = <<e, a>>
                 /\ \/ job[a].goal = "phase" /\ e = "phase_transition"
                    \/ job[a].goal = "completed" /\ e = "pipeline_completed"
                    \/ job[a].goal = "failed" /\ e = "pipeline_failed"
    BY <1>0, <1>3 DEF Entry, MayLog
  <2> QED
    BY <1>0, <1>3, <2>1 DEF MayLog, Says, Events
<1>4. \/ UNCHANGED audit
      \/ \E e \in {"pipeline_resumed", "pipeline_started"} : audit' = audit \cup {<<e, a>>}
      \/ MayLog(a, job[a])
  BY RunShape DEF Loads, Leaves, Works, Claims, Announces, Fails, Records, Starts,
     Completes, Verifies, Writes, LogsPhase, MayLog
<1> QED
  BY <1>1, <1>2, <1>3, <1>4

LEMMA TrailsRun ==
    ASSUME TypeOK, WellPlaced, Consistent, Fresh, Tracks, Trails,
           NEW a \in Attempts, RunStep(a)
    PROVE  Trails'
<1> DEFINE j == job[a]
           k == job'[a]
<1>0. /\ \A b \in Attempts, v \in Terminal :
            Says(b, v) => job[b].pc \notin {"idle", "claim"} /\ Stands(b, v)
      /\ \A b \in Attempts :
            job[b].pc = "log" /\ job[b].goal \in Terminal => Stands(b, job[b].goal)
      /\ \A s \in Sweepers : pending[s] \subseteq Attempts
      /\ Honest(j)
      /\ \A r \in Runs : store[r].attempt = a => j.run = r
  BY DEF Trails, Tracks, Holds
<1>1. /\ UNCHANGED pending /\ \A b \in Attempts \ {a} : job'[b] = job[b]
      /\ audit' \subseteq Events \X Attempts
      /\ \A b \in Attempts, v \in Terminal :
            Says(b, v)' => Says(b, v) \/ (b = a /\ j.pc = "log" /\ j.goal = v)
  BY RunFootprint, SaysMore
<1>2. k.pc \in {"idle", "claim"} => j.pc = "idle"
  BY RunShape DEF Loads, Leaves, Works, Claims, Announces, Fails, Records, Starts,
     Completes, Verifies, Writes, LogsPhase
<1>3. k.pc = "log" => Writes(a, j, k)
  BY RunShape DEF Loads, Leaves, Works, Claims, Announces, Fails, Records, Starts,
     Completes, Verifies, LogsPhase
<1>4. ASSUME NEW b \in Attempts, NEW v \in Terminal, Says(b, v)'
      PROVE  job'[b].pc \notin {"idle", "claim"} /\ Stands(b, v)'
  <2>1. job[b].pc \notin {"idle", "claim"} /\ Stands(b, v)
    BY <1>0, <1>1, <1>4
  <2>2. job'[b].pc \notin {"idle", "claim"}
    BY <1>1, <1>2, <2>1
  <2>3. CASE UNCHANGED store
    BY <2>1, <2>2, <2>3 DEF Stands
  <2>4. CASE /\ j.pc \in {"claim", "write"}
             /\ store' = [store EXCEPT ![j.run] = j.ckpt]
    <3>1. /\ j.run \in Runs /\ j.ckpt.attempt = a
          /\ j.pc = "write" => /\ store[j.run].status = "in_progress"
                               /\ store[j.run].attempt = a
      BY <2>4, JobFacts DEF Active, Inside
    <3>2. b # a
      BY <2>1, <2>4, <3>1 DEF Stands, Terminal
    <3>3. \A r \in Runs : store'[r] = IF r = j.run THEN j.ckpt ELSE store[r]
      BY <2>4, <3>1 DEF TypeOK
    <3> QED
      BY <2>1, <2>2, <3>1, <3>2, <3>3 DEF Stands
  <2> QED
    BY <2>3, <2>4, RunFootprint
<1>5. ASSUME NEW b \in Attempts, job'[b].pc = "log", job'[b].goal \in Terminal
      PROVE  Stands(b, job[b].goal)' /\ job'[b].goal = job[b].goal
  <2>1. CASE b = a
    <3>1. Writes(a, j, k)
      BY <1>3, <1>5, <2>1
    <3>2. /\ j.run \in Runs /\ j.ckpt.status = j.goal /\ k.goal = j.goal
          /\ store' = [store EXCEPT ![j.run] = j.ckpt]
      BY <1>0, <1>5, <2>1, <3>1, JobFacts DEF Writes, Honest, Saving, Terminal,
         Active, Inside
    <3>3. \A r \in Runs : store'[r] = IF r = j.run THEN j.ckpt ELSE store[r]
      BY <3>2 DEF TypeOK
    <3> QED
      BY <1>0, <2>1, <3>2, <3>3 DEF Stands
  <2>2. CASE b # a
    <3>1. Stands(b, job[b].goal) /\ job'[b] = job[b]
      BY <1>0, <1>1, <1>5, <2>2
    <3>2. CASE UNCHANGED store
      BY <3>1, <3>2 DEF Stands
    <3>3. CASE /\ j.pc \in {"claim", "write"}
               /\ store' = [store EXCEPT ![j.run] = j.ckpt]
      <4>1. j.run \in Runs /\ j.ckpt.attempt = a
        BY <3>3, JobFacts DEF Active, Inside
      <4>2. \A r \in Runs : store'[r] = IF r = j.run THEN j.ckpt ELSE store[r]
        BY <3>3, <4>1 DEF TypeOK
      <4> QED
        BY <2>2, <3>1, <4>1, <4>2 DEF Stands
    <3> QED
      BY <3>2, <3>3, RunFootprint
  <2> QED
    BY <2>1, <2>2
<1> QED
  BY <1>0, <1>1, <1>4, <1>5 DEF Trails

LEMMA TrailsSweep ==
    ASSUME TypeOK, Fresh, Tracks, Trails, NEW s \in Sweepers, SweepStep(s)
    PROVE  Trails'
<1>0. /\ audit \subseteq Events \X Attempts
      /\ \A t \in Sweepers : pending[t] \subseteq Attempts
      /\ \A b \in Attempts, v \in Terminal :
            Says(b, v) => job[b].pc \notin {"idle", "claim"} /\ Stands(b, v)
      /\ \A b \in Attempts :
            job[b].pc = "log" /\ job[b].goal \in Terminal => Stands(b, job[b].goal)
  BY DEF Trails
<1>1. UNCHANGED job
  BY DEF SweepStep, SweepList, Reap, ReapLog, SweepDies
<1>2. CASE UNCHANGED store /\ ~Reap(s)
  <2>1. /\ audit' \subseteq Events \X Attempts
        /\ \A t \in Sweepers : pending'[t] \subseteq Attempts
        /\ \A b \in Attempts, v \in Terminal : Says(b, v)' => Says(b, v)
    <3>1. CASE SweepList(s)
      BY <1>0, <3>1 DEF SweepList, Says
    <3>2. CASE ReapLog(s)
      <4>1. /\ audit' = audit \cup ({"run_reaped"} \X pending[s])
            /\ \A t \in Sweepers : pending'[t] \subseteq pending[t]
        BY <3>2 DEF ReapLog, TypeOK
      <4> QED
        BY <1>0, <4>1 DEF Says, Events
    <3>3. CASE SweepDies(s)
      <4>1. UNCHANGED audit /\ \A t \in Sweepers : pending'[t] \subseteq pending[t]
        BY <3>3 DEF SweepDies, TypeOK
      <4> QED
        BY <1>0, <4>1 DEF Says
    <3> QED
      BY <1>2, <3>1, <3>2, <3>3 DEF SweepStep
  <2>2. \A b, v : Stands(b, v)' <=> Stands(b, v)
    BY <1>2 DEF Stands
  <2> QED
    BY <1>0, <1>1, <2>1, <2>2 DEF Trails
<1>3. CASE Reap(s)
  <2>1. PICK item \in todo[s] :
           /\ store' = [store EXCEPT ![item[1]] = item[2]]
           /\ pending' = [pending EXCEPT ![s] = {item[2].attempt}]
    BY <1>3 DEF Reap
  <2>2. PICK r \in Runs, a \in Attempts : r = item[1] /\ a = item[2].attempt
    BY ItemFacts DEF Fresh, Tracks, Whole
  <2>3. /\ item[2].status = "failed"
        /\ store[r].attempt = a /\ store[r].status = "in_progress"
    BY <2>2 DEF Fresh
  <2>4. job[a].pc \notin {"idle", "claim"} /\ job[a].run = r
    BY <2>2, <2>3 DEF Tracks, Holds
  <2>5. /\ \A q \in Runs : store'[q] = IF q = r THEN item[2] ELSE store[q]
        /\ \A t \in Sweepers : pending'[t] = IF t = s THEN {a} ELSE pending[t]
        /\ UNCHANGED audit
    BY <1>3, <2>1, <2>2 DEF Reap, TypeOK
  <2>6. \A b \in Attempts, v \in Terminal : Stands(b, v) => b # a /\ Stands(b, v)'
    BY <2>2, <2>3, <2>5 DEF Stands, Terminal
  <2>7. \A q \in Runs \ {r} : store[q].attempt # a
    BY <2>2, <2>4 DEF Tracks, Holds
  <2>8. Stands(a, "failed")'
    BY <2>2, <2>3, <2>5, <2>7 DEF Stands
  <2>9. \A b \in Attempts, v \in Terminal :
           Says(b, v)' => Says(b, v) \/ (b = a /\ v = "failed")
    BY <2>5 DEF Says
  <2>10. \A b \in Attempts, v \in Terminal :
            Says(b, v)' => job'[b].pc \notin {"idle", "claim"} /\ Stands(b, v)'
    BY <1>0, <1>1, <2>4, <2>6, <2>8, <2>9
  <2>11. \A b \in Attempts :
            job'[b].pc = "log" /\ job'[b].goal \in Terminal => Stands(b, job[b].goal)'
    BY <1>0, <1>1, <2>6
  <2>12. /\ audit' \subseteq Events \X Attempts
         /\ \A t \in Sweepers : pending'[t] \subseteq Attempts
    BY <1>0, <2>5
  <2> QED
    BY <1>1, <2>10, <2>11, <2>12 DEF Trails
<1> QED
  BY <1>2, <1>3 DEF SweepStep, SweepList, ReapLog, SweepDies

LEMMA TrailsStep ==
    ASSUME TypeOK, WellPlaced, Consistent, Fresh, Tracks, Trails, [Next]_vars
    PROVE  Trails'
<1>1. CASE Tick
  <2>1. /\ \A r \in Runs : store'[r].status = store[r].status
                           /\ store'[r].attempt = store[r].attempt
        /\ \A a \in Attempts : job'[a].pc = job[a].pc /\ job'[a].goal = job[a].goal
        /\ UNCHANGED <<audit, pending>>
    BY <1>1, CopyFacts DEF Tick, TypeOK, Job
  <2>2. \A a, v : (Says(a, v)' <=> Says(a, v)) /\ (Stands(a, v)' <=> Stands(a, v))
    BY <2>1 DEF Says, Stands
  <2> QED
    BY <2>1, <2>2 DEF Trails
<1>2. CASE UNCHANGED vars
  BY <1>2 DEF vars, Trails, Says, Stands
<1> QED
  BY <1>1, <1>2, TrailsRun, TrailsSweep DEF Next

(* While an attempt is the last to have held its run, a verdict the trail  *)
(* gives it, its own or the sweeper's, is the verdict in the store.        *)
THEOREM TrailAgrees == ~Preemptive => (Spec => []TrailMatchesStore)
<1> SUFFICES ASSUME ~Preemptive PROVE Spec => []TrailMatchesStore
  OBVIOUS
<1>1. Init => Trails
  BY DEF Init, Trails, Says, Idle
<1>2. TypeOK /\ WellPlaced /\ Consistent /\ Fresh /\ Tracks /\ Trails /\ [Next]_vars
      => Trails'
  BY TrailsStep
<1>3. Trails => TrailMatchesStore
  BY DEF Trails, Says, Stands, TrailMatchesStore, Terminal
<1> QED
  BY <1>1, <1>2, <1>3, Typing, Consistency, Fencing, Tracking, PTL DEF Spec

-----------------------------------------------------------------------------
(* Workers whose phases are shorter than the budget.                       *)

(* How late the copy of an attempt may be: silent only during a phase, and *)
(* not past the budget when the phase began.                               *)
Clocks(j) ==
    j.pc \in Active =>
       /\ j.pc = "phase" => /\ j.ckpt.quiet <= MaxDuration
                            /\ j.ckpt.age <= MaxDuration + j.ckpt.quiet
       /\ j.pc # "phase" => j.ckpt.quiet = 0 /\ j.ckpt.age <= 2 * MaxDuration

(* The clocks of a record its holder works on are those of the holder, up  *)
(* to what the holder is about to save.                                    *)
InTime(j, c) ==
    j.pc \in Active /\ c.status = "in_progress" =>
       /\ c.age <= 2 * MaxDuration /\ c.quiet <= MaxDuration
       /\ ~Saving(j) \/ j.goal = "phase" => c.age = j.ckpt.age
       /\ ~Saving(j) \/ (j.pc = "log" /\ j.goal = "phase") => c.quiet = j.ckpt.quiet

Timed ==
    /\ \A a \in Attempts : Clocks(job[a])
    /\ \A a \in Attempts, r \in Runs :
          store[r].attempt = a => InTime(job[a], store[r])

LEMMA ClocksStep ==
    ASSUME TypeOK, WellPlaced, Consistent, Fresh, Timed, NEW a \in Attempts, RunStep(a)
    PROVE  Clocks(job'[a])
<1>0. /\ job[a].ckpt \in Checkpoint /\ Clocks(job[a]) /\ MaxDuration \in Nat
      /\ \A r \in Runs : store[r] \in Checkpoint
      /\ job[a].ckpt.age \in Nat /\ job[a].ckpt.quiet \in Nat
  BY JobFacts, PipelineAssumption DEF Timed, TypeOK, Checkpoint, Ages
<1> DEFINE j == job[a]
           k == job'[a]
<1>1. CASE Loads(a, j, k)
  <2>1. k.pc = "claim" /\ k.ckpt.age = 0 /\ k.ckpt.quiet = 0
    BY <1>0, <1>1, CopyFacts, NewFacts DEF Loads
  <2> QED
    BY <1>0, <2>1 DEF Clocks
<1>2. CASE Leaves(a, j, k)
  BY <1>2 DEF Leaves, Clocks, Active, Inside
<1>3. CASE Fails(a, j, k) \/ Completes(a, j, k)
  <2>1. k.pc = "check" /\ k.ckpt.age = 0 /\ k.ckpt.quiet = 0
    BY <1>0, <1>3, CopyFacts DEF Fails, Completes
  <2> QED
    BY <1>0, <2>1 DEF Clocks
<1>4. CASE Records(a, j, k)
  <2>1. k.pc = "check" /\ k.ckpt.age = j.ckpt.age /\ k.ckpt.quiet = 0
    BY <1>0, <1>4, CopyFacts DEF Records
  <2>2. j.ckpt.age <= 2 * MaxDuration
    BY <1>0, <1>4 DEF Records, Clocks, Active, Inside
  <2> QED
    BY <2>1, <2>2 DEF Clocks
<1>5. CASE Starts(a, j, k)
  <2>1. /\ k.pc = "phase" /\ k.ckpt = j.ckpt /\ j.ckpt.quiet = 0
        /\ j.ckpt.age <= MaxDuration
    BY <1>0, <1>5 DEF Starts, Clocks, Active, Inside
  <2> QED
    BY <1>0, <2>1 DEF Clocks
<1>6. CASE \/ Claims(a, j, k) \/ Announces(a, j, k) \/ Verifies(a, j, k)
           \/ Writes(a, j, k) \/ LogsPhase(a, j, k)
  <2>1. /\ j.pc \in Active /\ j.pc # "phase" /\ k.pc # "phase" /\ k.ckpt = j.ckpt
    BY <1>6 DEF Claims, Announces, Verifies, Writes, LogsPhase, Active, Inside
  <2> QED
    BY <1>0, <2>1 DEF Clocks
<1> QED
  BY <1>1, <1>2, <1>3, <1>4, <1>5, <1>6, RunShape DEF Works

(* What a step that saves nothing keeps of the clocks of a record.         *)
LEMMA InTimeKept ==
    ASSUME TypeOK, WellPlaced, Consistent, Fresh, Timed,
           NEW a \in Attempts, NEW c, InTime(job[a], c), job[a].pc # "claim",
           Works(a, job[a], job'[a]), ~Writes(a, job[a], job'[a])
    PROVE  InTime(job'[a], c)
<1>0. /\ job[a].ckpt \in Checkpoint /\ Clocks(job[a])
  BY JobFacts DEF Timed
<1> DEFINE j == job[a]
           k == job'[a]
<1>1. CASE Announces(a, j, k) \/ Starts(a, j, k) \/ LogsPhase(a, j, k)
  BY <1>1 DEF Announces, Starts, LogsPhase, InTime, Saving, Active, Inside
<1>2. CASE Verifies(a, j, k)
  BY <1>2 DEF Verifies, InTime, Saving, Active, Inside
<1>3. CASE Fails(a, j, k) \/ Completes(a, j, k)
  BY <1>3 DEF Fails, Completes, InTime, Saving, Active, Inside
<1>4. CASE Records(a, j, k)
  <2>1. k.ckpt.age = j.ckpt.age
    BY <1>0, <1>4, CopyFacts DEF Records
  <2> QED
    BY <1>4, <2>1 DEF Records, InTime, Saving, Active, Inside
<1>5. ~Claims(a, j, k)
  BY DEF Claims
<1> QED
  BY <1>1, <1>2, <1>3, <1>4, <1>5 DEF Works

LEMMA TimedRun ==
    ASSUME TypeOK, WellPlaced, Consistent, Fresh, Tracks, Timed,
           NEW a \in Attempts, RunStep(a)
    PROVE  Timed'
<1> DEFINE j == job[a]
           k == job'[a]
<1>0. /\ \A b \in Attempts : Clocks(job[b])
      /\ \A b \in Attempts, r \in Runs :
            store[r].attempt = b =>
               /\ InTime(job[b], store[r])
               /\ job[b].run = r /\ job[b].pc # "claim" /\ job[b].pc # "idle"
      /\ \A b \in Attempts \ {a} : job'[b] = job[b]
      /\ j.ckpt \in Checkpoint
  BY RunFootprint, JobFacts DEF Timed, Tracks, Holds
<1>1. \A b \in Attempts : Clocks(job'[b])
  BY <1>0, ClocksStep
<1>2. CASE Stays(j, k) /\ (Claims(a, j, k) \/ Writes(a, j, k))
  <2>1. /\ j.run \in Runs /\ j.ckpt.attempt = a
        /\ store' = [store EXCEPT ![j.run] = j.ckpt]
        /\ k.ckpt = j.ckpt /\ j.ckpt.quiet = 0 /\ j.ckpt.age <= 2 * MaxDuration
    BY <1>0, <1>2, JobFacts DEF Claims, Writes, Clocks, Active, Inside
  <2>2. \A r \in Runs : store'[r] = IF r = j.run THEN j.ckpt ELSE store[r]
    BY <2>1 DEF TypeOK
  <2>3. InTime(k, j.ckpt)
    BY <2>1, PipelineAssumption DEF InTime
  <2>4. ASSUME NEW b \in Attempts, NEW r \in Runs, store'[r].attempt = b
        PROVE  InTime(job'[b], store'[r])
    <3>1. CASE r = j.run
      BY <2>1, <2>2, <2>3, <2>4, <3>1
    <3>2. CASE r # j.run
      <4>1. store'[r] = store[r] /\ store[r].attempt = b /\ job[b].run = r
        BY <1>0, <2>2, <2>4, <3>2
      <4>2. b # a
        BY <3>2, <4>1
      <4> QED
        BY <1>0, <4>1, <4>2
    <3> QED
      BY <3>1, <3>2
  <2> QED
    BY <1>1, <2>4 DEF Timed
<1>3. CASE ~Claims(a, j, k) /\ ~Writes(a, j, k)
  <2>1. UNCHANGED store
    BY <1>3, RunShape DEF Loads, Leaves, Works, Announces, Fails, Records, Starts,
       Completes, Verifies, LogsPhase
  <2>2. ASSUME NEW r \in Runs, store[r].attempt = a PROVE InTime(k, store[r])
    <3>1. InTime(j, store[r]) /\ j.pc # "claim" /\ j.pc # "idle"
      BY <1>0, <2>2
    <3>2. CASE Leaves(a, j, k)
      BY <3>2 DEF Leaves, InTime, Active, Inside
    <3>3. CASE Works(a, j, k)
      BY <1>3, <3>1, <3>3, InTimeKept
    <3> QED
      BY <3>1, <3>2, <3>3, RunShape DEF Loads
  <2>3. ASSUME NEW b \in Attempts, NEW r \in Runs, store'[r].attempt = b
        PROVE  InTime(job'[b], store'[r])
    BY <1>0, <2>1, <2>2, <2>3
  <2> QED
    BY <1>1, <2>3 DEF Timed
<1> QED
  BY <1>2, <1>3, RunShape DEF Works, Loads, Leaves, Claims, Writes

LEMMA TimedSweep ==
    ASSUME TypeOK, Fresh, Timed, NEW s \in Sweepers, SweepStep(s)
    PROVE  Timed'
<1>0. /\ \A b \in Attempts : Clocks(job[b])
      /\ \A b \in Attempts, r \in Runs :
            store[r].attempt = b => InTime(job[b], store[r])
  BY DEF Timed
<1>1. UNCHANGED job
  BY DEF SweepStep, SweepList, Reap, ReapLog, SweepDies
<1>2. \A r \in Runs : store'[r] = store[r] \/ store'[r].status = "failed"
  <2>1. CASE Reap(s)
    <3>1. PICK item \in todo[s] : store' = [store EXCEPT ![item[1]] = item[2]]
      BY <2>1 DEF Reap
    <3>2. item[2].status = "failed"
      BY DEF Fresh
    <3> QED
      BY <3>1, <3>2 DEF TypeOK
  <2> QED
    BY <2>1 DEF SweepStep, SweepList, ReapLog, SweepDies
<1>3. ASSUME NEW b \in Attempts, NEW r \in Runs, store'[r].attempt = b
      PROVE  InTime(job'[b], store'[r])
  <2>1. CASE store'[r] = store[r]
    BY <1>0, <1>1, <1>3, <2>1
  <2>2. CASE store'[r].status = "failed"
    BY <2>2 DEF InTime
  <2> QED
    BY <1>2, <2>1, <2>2
<1> QED
  BY <1>0, <1>1, <1>3 DEF Timed

(* Time passes only while whoever works is inside a phase shorter than the *)
(* budget, so that no clock is near the horizon.                           *)
LEMMA TimedTick ==
    ASSUME TypeOK, Timely, Tracks, Timed, Tick
    PROVE  Timed'
<1>0. /\ MaxDuration \in Nat /\ Horizon \in Nat
      /\ Horizon > MaxDuration + Grace /\ Horizon > 2 * MaxDuration /\ Grace \in Nat
  BY PipelineAssumption
<1>1. ASSUME NEW c \in Checkpoint
      PROVE  /\ Older(c).status = c.status /\ Older(c).attempt = c.attempt
             /\ c.status = "in_progress" =>
                   Older(c).age = Later(c.age) /\ Older(c).quiet = Later(c.quiet)
             /\ c.status # "in_progress" => Older(c) = c
  BY DEF Older, Checkpoint
<1>2. ASSUME NEW a \in Attempts
      PROVE  /\ job[a] \in Job /\ job[a].ckpt \in Checkpoint
             /\ job'[a].pc = job[a].pc /\ job'[a].run = job[a].run
             /\ job'[a].goal = job[a].goal /\ job'[a].ckpt = Older(job[a].ckpt)
             /\ Clocks(job[a])
             /\ job[a].pc \in Active =>
                   job[a].pc = "phase" /\ job[a].ckpt.quiet < MaxDuration
  BY DEF Tick, OnTime, TypeOK, Job, Timed
<1>3. ASSUME NEW a \in Attempts PROVE Clocks(job'[a])
  <2>1. CASE job[a].pc \notin Active
    BY <1>2, <2>1 DEF Clocks
  <2>2. CASE job[a].pc \in Active
    <3>1. PICK age \in Nat, quiet \in Nat :
             age = job[a].ckpt.age /\ quiet = job[a].ckpt.quiet
      BY <1>2 DEF Checkpoint, Ages
    <3>2. /\ job[a].pc = "phase" /\ quiet < MaxDuration /\ age <= MaxDuration + quiet
      BY <1>2, <2>2, <3>1 DEF Clocks
    <3>3. Later(quiet) = quiet + 1 /\ Later(age) = age + 1
      BY <1>0, <3>1, <3>2 DEF Later
    <3>4. \/ job'[a].ckpt.age = age /\ job'[a].ckpt.quiet = quiet
          \/ job'[a].ckpt.age = age + 1 /\ job'[a].ckpt.quiet = quiet + 1
      BY <1>1, <1>2, <3>1, <3>3
    <3>5. /\ job'[a].ckpt.quiet <= MaxDuration
          /\ job'[a].ckpt.age <= MaxDuration + job'[a].ckpt.quiet
      BY <1>0, <3>1, <3>2, <3>4
    <3> QED
      BY <1>2, <3>2, <3>5 DEF Clocks
  <2> QED
    BY <2>1, <2>2
<1>4. ASSUME NEW a \in Attempts, NEW r \in Runs, store'[r].attempt = a
      PROVE  InTime(job'[a], store'[r])
  <2>1. store[r] \in Checkpoint /\ store'[r] = Older(store[r])
    BY DEF Tick, TypeOK
  <2>2. store[r].attempt = a /\ InTime(job[a], store[r])
    BY <1>1, <1>4, <2>1 DEF Timed
  <2>3. CASE job[a].pc \in Active /\ store[r].status = "in_progress"
    <3>1. PICK age \in Nat, quiet \in Nat :
             age = job[a].ckpt.age /\ quiet = job[a].ckpt.quiet
      BY <1>2 DEF Checkpoint, Ages
    <3>2. /\ job[a].pc = "phase" /\ quiet < MaxDuration /\ age <= MaxDuration + quiet
          /\ store[r].age = age /\ store[r].quiet = quiet
      BY <1>2, <2>2, <2>3, <3>1 DEF Clocks, InTime, Saving
    <3>3. Later(quiet) = quiet + 1 /\ Later(age) = age + 1
      BY <1>0, <3>1, <3>2 DEF Later
    <3>4. job[a].ckpt.status = "in_progress"
      BY <3>2 DEF Tracks, Honest
    <3>5. /\ job'[a].ckpt.age = age + 1 /\ job'[a].ckpt.quiet = quiet + 1
          /\ store'[r].age = age + 1 /\ store'[r].quiet = quiet + 1
      BY <1>1, <1>2, <2>1, <2>3, <3>1, <3>2, <3>3, <3>4
    <3>6. age + 1 <= 2 * MaxDuration /\ quiet + 1 <= MaxDuration
      BY <1>0, <3>2
    <3> QED
      BY <3>5, <3>6 DEF InTime
  <2>4. CASE job[a].pc \notin Active \/ store[r].status # "in_progress"
    BY <1>1, <1>2, <2>1, <2>4 DEF InTime
  <2> QED
    BY <2>3, <2>4
<1> QED
  BY <1>3, <1>4 DEF Timed

LEMMA TimedStep ==
    ASSUME TypeOK, WellPlaced, Consistent, Fresh, Tracks, Timely, Timed, [Next]_vars
    PROVE  Timed'
<1>1. CASE UNCHANGED vars
  BY <1>1 DEF vars, Timed
<1> QED
  BY <1>1, TimedRun, TimedSweep, TimedTick DEF Next

(* The clocks, when phases are shorter than the budget.                    *)
THEOREM Timekeeping == ~Preemptive /\ Timely => (Spec => []Timed)
<1> SUFFICES ASSUME ~Preemptive, Timely PROVE Spec => []Timed
  OBVIOUS
<1>1. Init => Timed
  BY PipelineAssumption DEF Init, Timed, Clocks, InTime, Idle, Active, Inside
<1>2. TypeOK /\ WellPlaced /\ Consistent /\ Fresh /\ Tracks /\ Timed /\ [Next]_vars
      => Timed'
  BY TimedStep
<1> QED
  BY <1>1, <1>2, Typing, Consistency, Fencing, Tracking, PTL DEF Spec

(* The budget, checked only before a phase, still bounds the attempt: when *)
(* phases are shorter than the budget, an attempt that holds its run ends  *)
(* before twice the budget has passed.                                     *)
THEOREM BudgetBounds == ~Preemptive /\ Timely => (Spec => []BudgetHolds)
<1> SUFFICES ASSUME ~Preemptive, Timely PROVE Spec => []BudgetHolds
  OBVIOUS
<1>1. Timed => BudgetHolds
  BY DEF Timed, InTime, BudgetHolds, Active
<1> QED
  BY <1>1, Timekeeping, PTL

(* When phases are shorter than the budget, the run of a worker that is    *)
(* still at work is never reaped, however long the run has lasted.         *)
THEOREM WorkersAreSpared == ~Preemptive /\ Timely => (Spec => WorkingNotReaped)
<1> SUFFICES ASSUME ~Preemptive, Timely PROVE Spec => WorkingNotReaped
  OBVIOUS
<1>1. ASSUME TypeOK, Fresh, Tracks, Timed, [Next]_vars,
             NEW s \in Sweepers, NEW r \in Runs, Reaps(s, r)
      PROVE  job[store[r].attempt].pc \notin Active
  <2>1. store[r].quiet > MaxDuration /\ store[r].status = "in_progress"
    BY <1>1, ReapsSilent DEF Reaps
  <2>2. PICK a \in Attempts : a = store[r].attempt
    BY <1>1, <2>1 DEF Tracks, Whole
  <2>3. InTime(job[a], store[r])
    BY <1>1, <2>2 DEF Timed
  <2>4. store[r].quiet \in Nat /\ MaxDuration \in Nat
    BY <1>1, PipelineAssumption DEF TypeOK, Checkpoint, Ages
  <2> QED
    BY <2>1, <2>2, <2>3, <2>4 DEF InTime
<1>2. TypeOK /\ Fresh /\ Tracks /\ Timed /\ [Next]_vars
      => [\A s \in Sweepers, r \in Runs :
             Reaps(s, r) => job[store[r].attempt].pc \notin Active]_vars
  BY <1>1
<1> QED
  BY <1>2, Typing, Fencing, Tracking, Timekeeping, PTL DEF Spec, WorkingNotReaped
=============================================================================
