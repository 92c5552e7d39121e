# A verification project for the agent harness

TLA+ modules for the rails in `src/harness`, TLC runs that check them on small instances, and
TLAPS proofs of what holds for every value of the constants. Start with the inventory, then read
`Pipeline.tla` and `Session.tla`, the two parts with the most concurrency; the others stand alone.

To check: `tlc -config <run>.cfg <module>.tla` for each run of `PROJECT.json`, and `tlapm` on
`InductionLemmas.tla` and on each `*Proofs.tla` (`Pipeline`, `Session`, `JsonStore`, `AuditTrail`,
`RaciGate`, `Sandbox`, `AgentCoreStack`). Every safety and action property that a run checks is also
a theorem; liveness is what only the runs show. Three more runs each find a disagreement between the
code and its own words.

## 1. The system

An agent calls tools; "rails" decide before, record during and clean up after. Each is a class of
its own, called in process; two of them drive AWS.

| component | state it keeps | operations | how it interacts |
|---|---|---|---|
| durable pipeline, `pipeline.py` (rail 7) | per attempt: a context, a copy of its checkpoint, its attempt id | `run` (fresh, retry), `_save`, `_record_phase`, `_fail`, `sweep_stuck` | reads and writes the checkpoint store, appends to the audit trail; attempts and sweepers of one run share both, from threads or processes |
| checkpoint store, `checkpoint.py` | one JSON file, a lock per object | `load`, `save`, `list_runs` | called by `run` and the sweeper, a load and the save after it are two critical sections |
| audit trail, `audit.py` (rail 4) | entries, head hash, lock, a JSONL file | `append`, load on construction, `head`, `entries`, `verify` | every other rail appends to it; several objects may open one file |
| permission gate, `permission_gate.py` (rail 1) | rules, the cache of approvals of a session | `before_tool`, `_ask_human` with a reviewer thread and a timeout | called by the agent loop, the sandbox's precheck and the tenant scope; asks a human |
| tenant scope, `tenant_gate.py` (rail 2) | none of its own | `before_tool` | three checks, then the permission gate with the tenant as its scope |
| named-human approval, `raci_gate.py` (rail 3) | matrix, bearers; assignments are objects of the caller | `assign` (with an LLM fallback), `approve` | appends to the trail |
| eval gate, `eval_gate.py` (rail 5) | none | `evaluate` | an LLM judge, or AgentCore Evaluations |
| sandbox, `sandbox.py` (rail 6) | what it has created so far | `run` = `precheck`, `provision`, `execute`, `teardown`; `cleanup_check`, `main` | S3, IAM, MicroVM images and microVMs, log groups |
| AgentCore stack, `agentcore.py` | what it has created so far, answers | `run` = `provision`, the scenarios, `teardown`; `cleanup_check`, `main` with a SIGTERM handler | IAM, DynamoDB, Lambda, Policy, Gateway, harness, log groups; the trail |
| AgentCore Lambdas, `agentcore_lambdas.py` | a client | `hook_handler` (`decide`), `tools_handler` | called by the harness; the session registry the stack writes; the tenant scope |
| agent loop, `agent.py` | messages of a run | `run`, `_run_tool` | the model, the permission gate, the tools |
| observability, guardrails | none | wrappers around one call | |

What is hard here, and what makes each part correct:

- **Pipeline.** Attempts, retries and sweepers interleave between a load and the save it guards; a
  worker dies at any point, or comes back after it was reaped; phases, the store and the trail
  raise; time runs out only between phases. Correct: what the store holds can always be resumed
  from; a verdict stands until a retry claims the run; no run id is used twice; a retry loses no
  finished phase; live workers are spared; no run hangs; the trail never contradicts the store.
- **Audit trail.** Writes fail after memory has changed; objects on one file do not know of each
  other; restarts; bodies that do not survive a JSON round trip; changes after the fact. Correct: changes show, an anchor vouches for everything
  before it, and nothing raises a false alarm.
- **Store.** A process may die at any instruction between the open of the temporary file and the
  replace; threads share an object, processes a path. Correct: the file is a whole map whenever it
  is read, and the calls of one object take effect one at a time, each at once or not at all.
- **Gates and agent.** Two threads share the cache; a human answers late or never; owners change
  during a review; the answer of one tenant must not serve another; the model asks for anything.
  Correct: what is allowed was cleared for that very call and caller, late answers count for
  nothing, nobody waits for a human for ever, and the model gets one result per call.
- **Sign-off.** An assignment is a mutable object that comes back later, perhaps with another action
  or person; the judge names anybody; the trail may raise after the assignment was changed. Correct:
  every approval is that of the person an earlier, written entry makes Accountable for that action;
  what no policy named stays provisional until that person answers.
- **Hook, policy engine, scores, scenarios.** Several layers refuse; each must fail closed by itself,
  and a scenario may only report a rail as proved when that rail, and no error, refused.
- **Sandbox and stack.** Every call to the cloud may fail or lose its answer, a deletion takes effect
  when the program no longer waits for it, things come back after they were deleted (log groups),
  signals come at any time. Correct: what is called clean is gone for good; a leftover is always
  explained by a failed call about it; no result claims a run that was not; the run ends; the agent
  exists only within its rails, unless a call about the agent itself failed.

`PROJECT.json` lists the hazards line by line, with the properties that would catch each.

## 2. Modules and the code

**`Pipeline.tla`** (`pipeline.py`). An attempt is one call of `run`. A step is one access to something
shared or one phase: `Begin`, `Resume` and `Refuse` are the three ways from `store.load` into `run`;
`Claim` and `Announce` the first save and its audit entry; `OverBudget`, `BrakePulled`, `SkipPhase`,
`StartPhase`, `PhaseDone` and `AllPhasesDone` the loop; `Verify`, `Superseded` and `Write` are
`_save`, the check and the save apart; `LogPhase`, `LogVerdict` the audit entries; `Raise` any
exception inside the try block and `Die` a crash, or an exception no handler covers. `SweepList`,
`Reap`, `ReapLog`, `SweepDies` are `sweep_stuck`. `Preemptive` says whether other actors may come
between a load and the save it guards: TRUE for threads and processes on `JsonCheckpointStore`,
FALSE for a single thread, or a store all of whose guarded writes are conditional. On DynamoDB the docs
ask for that in `_save` (`pipeline.py:30`) and in the sweeper (`checkpoint.py:74`); the save that claims
a run (`pipeline.py:215`) would need it too, which no doc says. `SkipPhase` and `StartPhase` follow the
default `should_skip`, the phase is among the completed ones; a `skip_predicate` of a phase's own
(`:103`) may skip what never ran or run again what did, and is not modelled. A checkpoint's `state` is the set of contributions, each tagged with its owner and phase; timestamps
are ages, saturated at `Horizon`. A step of a store is atomic here, which is what `JsonStore` is
checked, and proved, to give.

**`RunLifecycle.tla`** is the abstract specification of a run's life, without attempts, saves or
time. `Pipeline` implements it (`ImplementsLifecycle`) under the mapping that reads the store.

**`JsonStore.tla`** (`checkpoint.py`). The store at the level of files: `Construct` is `__init__`,
`Lock` and `Read` begin a call, `OpenTmp`, `Dump`, `DumpFails`, `Close`, `Replace` are `_write`, and
`Crash` ends a process anywhere. A name refers to an inode; an open file keeps its inode when its
name moves on, so two writers of one temporary file do to each other what they would on a disk.
**`CheckpointMap.tla`** is what a store promises: a map whose calls take effect at one moment.
`JsonStore` implements it (`AtomicCalls`) as long as the writers are threads of one object at a time
(`overlap` is FALSE); the model shows that it does not otherwise.

**`AuditTrail.tla`** (`audit.py`). `append` holds its lock throughout and is one step, or two
outcomes: `AppendReturns`, and `AppendRaises` when the write fails after `_entries` and `_last_hash`
have moved. `Open` reads the file back. A hash is the history it commits to, an injective function
of seq, body and prev_hash. A body is its canonical JSON text; `Reread` is the text that the object
`json.loads` makes of it has in turn, another one where keys are not strings (9 and 10 sort as numbers
once, as strings from then on). `file` holds the lines as they are read back (`Line`). `ChangeFile` is one change after the fact of each kind that the
docstring lists; `TakeAnchor` is `head`.

**`PermissionGate.tla`**, **`TenantGate.tla`**, **`Agent.tla`** (`permission_gate.py`, `tenant_gate.py`,
`agent.py`). What the four stages say of a call is an input; the cache, the reviewer thread
(`StartReview`, `Answer`, `WorkerEnds`), the join with its timeout (`JoinReturns`, `Look`) and
`Remember` are steps of their own. `TenantGate` extends the gate with stages 0 to 2; `Reassign`
changes an owner at any time. `Agent` is the loop of `Agent.run`: the model answers with any few
tool calls, ends or raises; each call goes through the gate (`AskGate`), then `TakeResult` runs the
tool on ALLOW and makes the result block, and `Feed` hands all of them back.
**`Session.tla`** composes the three: threads that share one gate, each running an agent or serving
tenants.

**`RaciGate.tla`** (`raci_gate.py`). `Assign` is the matrix lookup, `JudgeReplies` and `JudgeFails`
the judge, `LogAssignment` the audit entry with which the caller gets its assignment; `Approve`
changes the assignment and `RecordApproval` writes the entry, in that order, with other callers
between them. The helpers (`FindMatrixRule`, `ResolveRoleName`, `Constrained`, `Entry`) follow the
code's; a pattern is the set of control areas it matches.

**`ToolHook.tla`** (`agentcore_lambdas.py`, the Cedar policies of `agentcore.py`). `Decide` is the hook
over all it may be sent, with the tenant scope of `TenantGate` inside (`INSTANCE`); `CedarDecision`
the engine; `Effect` what the tool does when a call reaches it, also when it reads two equal keys
the other way. **`EvalGate.tla`** (`eval_gate.py`): `Scores` and `Evaluate`. **`EventStream.tla`**:
`Fold` is the loop body of `read_stream`, `EndOf` the loop, `Sorted` the sort of the calls by their
key; `Faithful` says by position what the calls have to be. These three are pure, and
`AgentCoreStack` extends them.

**`AgentCoreStack.tla`** (`agentcore.py`). `Plan` and `TeardownOrder` are the two orders of the code;
`Create` and `Delete` give each resource its outcomes; a deletion the service accepted is under way
(`going`) until the cloud carries it out (`Vanish`), while the program polls for it (`Await`) and also
after a poll raised, the polls ran out or a signal came; `DeleteLogs` and `Wake` are the settle loop of
`_delete_log_groups`; `Sigterm` is the handler of `main`, which may come between a creation and the
assignment that remembers it, or between the two notes of a new harness. `Use` runs the scenarios one after the other: `GatewayCalls`,
`HookScenarios` and `Evaluations` give what each may see (an answer, a refusal, an empty or a
broken reply, an exception, another tool call than the one asked for), and `Record` and `Raise` what is recorded. The
three policies are one resource, made in one step or in part, and the agent runtime and the workload
identity belong to the harness. Ctrl-C ends as SIGTERM does and is not modelled apart from it.

**`Sandbox.tla`** (`sandbox.py`). One `run`, call by call, and `main` after it. `Creating` gives every
create call its three outcomes: done, refused, done with the answer lost. `known` is what the object
remembers (`bucket_created`, `roles_created`, `image_arn`, `microvm_id`). `Service` is the cloud: it
builds and deletes images, starts and stops microVMs, and writes the log group of the build.
`List` reads one kind per step, so the cloud works between two of them.

**`MC*.tla`** add symmetry sets and samples for TLC. **`PipelineProofs.tla`**, **`SessionProofs.tla`**,
**`JsonStoreProofs.tla`**, **`AuditTrailProofs.tla`**, **`RaciGateProofs.tla`**, **`SandboxProofs.tla`** and
**`AgentCoreStackProofs.tla`** hold the theorems about the module each is named after (the last one
also those about the pure modules), **`InductionLemmas.tla`** what several of them need of natural
numbers, finite sets and least elements.

## 3. Runs

Passing runs, with their bounds:

| run | instance | shows |
|---|---|---|
| `Pipeline_fencing` | 1 run, 2 attempts, 1 sweeper, 2 owners, 2 phases; not preemptive; 46 thousand states | `ReapedWorkerStops`, `FreshNeverOverwrites`, `RetryKeepsProgress`, `TrailMatchesStore`, and the refinement of `RunLifecycle` |
| `Pipeline_threads` | 1 owner, 1 phase, preemptive, with fairness; 496 thousand | `ResumableCheckpoint` even when saves race; `NoRunHangs` |
| `Pipeline_timed` | phases of at most MaxDuration = 2, Grace 1, 3 phases; 33 thousand | `BudgetHolds`, `WorkingNotReaped`, `SweeperSparesAlive` |
| `JsonStore_files` | 2 objects, one with two threads, 2 runs, 4 inodes; 247 thousand | `CrashKeepsStoreWhole`, and the refinement of `CheckpointMap` (`AtomicCalls`) |
| `AuditTrail_chain` | 2 objects, 3 bodies of which one is read back as another, 2 entries, failed writes, one change, one anchor; 735 thousand | `ChangesShow`, `AnchorVouches`, `NoFalseAlarm` |
| `Session_gates` | 2 threads (an agent and a service, or two services), 2 tenants and nobody, 1 request, 4 policies, 2 turns of up to 2 calls; 458 thousand | `AllowIsCleared`, `LateAnswerIgnored`, `EveryUseAnswered`, `NobodyHangs` |
| `RaciGate_signoff` | 2 callers, 2 actions, 3 bearers, sampled matrices and replies, 2 assignments, 3 entries; 1.4 million | `ApprovedByAccountable`, `ProvisionalUntilSigned`, `AnswersAreRecorded`, `JudgeIsMarked` |
| `Sandbox_run` | 2 polls per loop, 2 posts; 744 thousand | `CleanMeansGone`, `AllowedMeansRan`, `LeftoverExplained`, `RunEnds` |
| `AgentCoreStack_run` | 2 settle rounds, 2 exports, 2 errors in teardown, 1 SIGTERM, 3 dimensions, streams of up to 6 events, decisions in the order of the calls; 814 thousand | `CleanMeansGone`, `LeftoverExplained`, `NeverUnguarded`, `OkMeansProved`, `LayersFailClosed`, `StreamIsFaithful` |

Every specification has a `TypeOK`, checked in one of its runs. `LayersFailClosed` and
`StreamIsFaithful` quantify over all inputs of the pure modules in the states where the code uses
them.

Why the bounds are enough. In the untimed pipeline runs MaxDuration is 0 and Horizon 1: a record is
either within the budget or beyond it, and Tick may move it at any moment, so expiry is a free
choice and no more time is told apart. Two attempts give every race between two workers; one is the
newer, so a third adds only more of the same takeovers; two owners are needed to mix up data. Runs
share nothing but the store's keys and the sweeper's list, so one is enough for what relates one run
to its workers. In the store, two runs show a save that loses another's, two threads of an object
wait for its lock, and the inodes are as many as names and writers can hold. Two entries of a
chain have a link between them, and one can be changed while the other is appended to it; the
theorems are about chains of any length. One request suffices at the gate: requests share only
the cache, keyed by request, and owner and surface range over everything they may be; each sampled
policy has a stage that decides against a different stage below it; the theorems hold for all of
them. Two assignments can be of the same action or of different ones, and three entries are two
assignments and an approval, or one and two approvals. A loop that polls twice has a first, a
further and no poll left. Two errors in teardown are one more than any leftover needs to be
explained. Six events hold two messages with a tool call and a piece of its input each.

Fairness. `Pipeline` assumes that time passes and that `sweep_stuck` is called again and again; a
call that dies is called again, hence strong fairness of `Reap`, which `SweepDies` keeps disabling.
No worker has any fairness: it may stop for ever at any point. `Session` schedules the gate's
threads and the agents, whose model calls return or raise and whose tools end; the reviewers have
none, a human may never answer. `Sandbox` assumes that each call returns or raises (boto3 and urllib
calls have timeouts); the cloud owes nothing.

Deadlock is checked except where the system stops: the trail reaches the bound of its entries or its
file can no longer be read, the sign-off reaches the bounds of its trail and assignments, and the
runs of the sandbox and the stack end.

Runs that find a violation, each a disagreement between the code and its own words:

- `Pipeline_race_verdict`: `_save` checks and saves in two critical sections, so a worker writes over
  the attempt that took its run in between (`pipeline.py:186`, docstring `:27`).
- `AuditTrail_gap`: a write that raises leaves memory ahead of the file; the next entry chains over
  the gap and the trail read back never verifies again (`audit.py:130`, docstring `:84`).
- `AgentCoreStack_signal`: a first SIGTERM that comes during `teardown` ends it half way
  (`agentcore.py:1142`, comments `:1141` and `:1142`).

More observations the models make without a run of their own:

- The save that claims a run (`pipeline.py:215`) checks nothing, and `sweep_stuck` saves back what it
  listed (`:346`). On a store without conditional writes two fresh runs with one id overwrite each
  other (comment `:196`), a retry takes back what the old worker saved since the retry loaded
  (docstring `:19`), and the sweeper ends a run whose heartbeat came meanwhile (docstring `:324`).
  `FreshNeverOverwrites`, `RetryKeepsProgress` and `SweeperSparesAlive`, put into
  `Pipeline_race_verdict.cfg` one at a time, are each violated there.
- An entry with keys that are not strings hashes differently once it was read back, and the untouched
  trail does not verify (`audit.py:46`, docstring `:45`). `NoFalseAlarm` makes an exception for it.
- A post whose answer is lost is sent again, and the code runs twice (`sandbox.py:622`, docstring `:462`).
- The first line of the sandbox's `teardown` makes a client outside every handler; when that raises,
  nothing is deleted and `run` raises (`sandbox.py:645`, docstring `:643`).
- `approve` confirms the assignment before it writes the answer, and a trail that raises leaves it
  confirmed by an answer that is in no file (`raci_gate.py:293`, docstring `:276`).
- A reply of the gateway with neither error nor result counts as the tool result that the scenario of
  the recorded gap waits for (`agentcore.py:379`, docstring `:370`): this is why `OkMeansProved`
  leaves that scenario out.
- When the audit trail raises after a completion was saved, `run` returns the completed checkpoint
  without an error and the trail has no `pipeline_completed` entry (`pipeline.py:255`).
- The kill switch is read only between phases: once the last one has begun nobody can stop the run.
- Two calls of the gate that overlap both miss the cache, and the human is asked twice.
- When `converse` raises in a later turn, the events of the earlier turns are lost with it
  (`agent.py:195`).
- `_why` prefers the judge's reasoning for a role the matrix resolved, which then stands beside the
  source "matrix" (`raci_gate.py:226`, docstring `:39`). Two assignments of one action may name
  different people, each of whom can then approve it. `last_error` is shared by all callers of a gate.
- Two store objects that write at once on one path lose saves of each other (`checkpoint.py:60`); an
  empty file reads as an empty store; nothing is flushed to the disk before the replace, so the
  guarantee is about crashes of a process, not of the machine.
- `read_stream` keeps the text of an error event in its message counter (`agentcore.py:346`): harmless
  only while nothing of a message follows.
- A harness whose deletion was accepted may outlive the polls of `_gone`, or one that is throttled
  (`agentcore.py:759`, `:761`); teardown goes on, and the harness goes later and brings its log group
  after a check that called everything clean. `CleanMeansGone` therefore allows late log groups, and
  those only, after a failed step about the harness or the logs.
- When a call about the harness failed, teardown goes on to the policies, the gateway, the hook and the
  table while the harness may still exist (`agentcore.py:735`, `:744`; a test has it so,
  `test_agentcore.py:563`). The docstring announces it (each step logs its own error and the next
  step runs), so `NeverUnguarded` has that exception rather than a finding.
- Hook decisions are paired with tool calls by position, decisions as they arrive and calls sorted by
  message and block, never by `toolUseId` (`agentcore.py:957`, `:965`). `OkMeansProved` holds when the
  hook is asked in that order (`InOrder`) and fails at once when it is not.
- The off-task answer of the evaluation scenario also counts as blocked when the evaluators merely
  failed. An `EvalGate` built with `min_dimension = 0` would let a dimension through that could not
  be scored; the model assumes at least 1. `reads_review_a1` parses duplicate keys that the hook
  denies: such a scenario is recorded as failed where it was not put to the test.

Assumptions about the world outside: a cloud call that has raised has taken effect by then or never,
but for deletions of images, microVMs and the resources of the stack, which the service carries out
in its own time; the hook is asked about the calls of a model in the order in which the stream lists
them (`InOrder`, for `OkMeansProved` alone); a body that was read back once is read back the same ever
after (`AuditAssumption`); SHA-256 does not collide; `os.replace` is atomic; a late export of logs comes within one settle period, and
there are no more of them than settle rounds (`AgentCoreStackAssumption`); a service may refuse to
delete what is in use, and a gateway and an engine take along what is inside them.

## 4. Proofs

Each theorem holds for every value of the constants that the named assumptions of its module allow;
these give bounds their type, tell model values apart from data, and state what the section above
lists about the world outside. An invariant that a run checks is seldom inductive; below is what had
to be added, and why.

**`PipelineProofs.tla`**, for every set of runs, attempts, sweepers and owners, any number of phases
and any budget (`PipelineAssumption`).

- `Typing`: `TypeOK` and `WellPlaced`. `TypeOK` alone is not inductive: a saving worker must stand at
  a phase that exists, or recording the phase would leave the type.
- `Resumability` (`ResumableCheckpoint`), whatever the interleaving. The invariant is `Consistent`: the
  copies a worker holds, and those the sweeper is about to save, can be resumed from too, and the
  shared state in memory is what the finished phases produced, except after a failure. Since every
  save writes such a copy, races between saves cannot do harm to it.
- `Fencing`: when `Preemptive` is FALSE, `Alone` (whoever is between a load and its save is the only
  one) and `Fresh` (what it loaded still holds) are invariant. `VerdictsStand`
  (`ReapedWorkerStops`), `SweeperSpares` (`SweeperSparesAlive`), `FreshIsFresh`
  (`FreshNeverOverwrites`) and `RetryKeeps` (`RetryKeepsProgress`) follow from it. Section 3 says that they
  fail without the hypothesis.
- `PipelineKeepsLives`: `Pipeline` implements `RunLifecycle` (`ImplementsLifecycle`) when it is not
  preemptive. `RunShape` groups the steps of an attempt by what they do to a run, and each kind
  maps to an abstract step or a stutter. That needs `Tracks` (theorem `Tracking`): a run's record
  names its holder, the holder is at most one phase ahead of the record, and an attempt about to
  claim a run has copied the owner and the phases that the record holds.
- `TrailAgrees` (`TrailMatchesStore`), through `Trails`: a verdict in the trail, or owed to it by a
  sweeper, is that of every run the attempt was the last to hold, and the attempt is not one that
  could still claim a run.
- `BudgetBounds` (`BudgetHolds`) and `WorkersAreSpared` (`WorkingNotReaped`), when phases are shorter
  than the budget (`Timely`). `Timed` (theorem `Timekeeping`) says that a worker is silent only during
  a phase, that no phase began past the budget, and that the record it holds has the same clocks, up
  to what it is about to save. A record read alone says nothing about its worker; the copy in the
  worker's hands alone says nothing about the store.

**`JsonStoreProofs.tla`**, for every number of objects, threads, runs and checkpoints
(`StoreAssumption`, `NoneAssumption`). `StoreTypeOK` and `StoreStaysWhole` (`CrashKeepsStoreWhole`)
come from `StoreInvariant`: `Control` (the lock of an object is held from `Lock` to `Return`, a file
is open exactly while it is written, an object that is being built has one thread) holds always;
`Files` as long as no two objects have written at once: all writers are of one object, the store's
name and the temporary one never share an inode, and what is about to be renamed is the whole map
with this call's checkpoint in it. `StoreIsAtomic` (`AtomicCalls`) is the refinement of
`CheckpointMap` from the same invariant: `Read` is the moment of a load or a listing, `Replace` that
of a save, and each other step, a crash included, leaves the abstract state alone or ends a call.

**`AuditTrailProofs.tla`**, for any trails, bodies and lengths (`AuditAssumption`): `TrailTypes`,
`TamperingShows` (`ChangesShow`), `AnchorHolds` (`AnchorVouches`), `NoAlarm` (`NoFalseAlarm`). Two chains
that verify and end in the same hash are equal: that is what an anchor rests on, and it needs that
each object's head is the hash of its last entry (`HeadsMatch`). `NoAlarm` needs `Calm`: until
something happens to the file, whatever an object remembers of it, and the anchor, is its beginning;
an entry whose body is read back as another one is such a thing (`garbled`), a line that is not
(`LineFacts`) is the entry itself. A change must also show after later appends, so `ChangesShow` is itself part of the invariant.

**`SessionProofs.tla`**, for every set of threads, scopes, requests and policies, and every number of
turns and calls (`PolicyAssumption`, `AgentAssumption`): `SessionTypes`, `LateAnswersIgnored`,
`AllowsAreCleared` and `UsesAreAnswered`, the four safety properties of `Session_gates`. All follow
from one inductive invariant, `SessionInvariant`, with three parts beside the types:

- `GateInv`: what is known of a call at each point. That an approval found after the join counts
  needs that a call which waits and holds a yes is in `yes`, hence that a call which has not asked
  yet has no reviewer; that the cache may answer needs that it holds nothing else.
- `ScopeInv`: a call of the tenant scope that is under way, or allowed, was permitted when it began.
  It survives changes of owners because `seen` keeps the owner found then.
- `AgentInv`: an agent's results are those of its first `nth` calls, in order, and the call of the
  gate it is in is the next one, with no tenant. Without it the result of a call could be filed
  under another, and `TypeOK` could not bound the results.

`NextMovesGate` reduces every step of the session to one step of the gate or none, so the gate's part
is proved once for agents and services; `InsideCall`, `CallBegins`, `CallEnds` and `AgentFrame` say
what a step leaves alone.

**`RaciGateProofs.tla`**, for any callers, bearers and matrices, and whatever the judge replies
(`RaciAssumption`): `GateTypes`, `ApprovalIsAccountable` (`ApprovedByAccountable`), `JudgeNeverApproves`
(`ProvisionalUntilSigned`), `NoAnswerIsLost` (`AnswersAreRecorded`), `JudgeIsLabelled`
(`JudgeIsMarked`). The invariant follows an assignment through the hands it passes: it is `Honest`
about the judge when it is made, an entry of the trail backs it before the caller gets it, and an
answer on its way to the trail is about an assignment that is backed. The sort of the matrix by
priority is proved to list every row once, with an earlier row first among equals.

**`SandboxProofs.tla`**, for any numbers of polls and posts (`SandboxAssumption`): `SandboxTypes`,
`SandboxFailsClosed` (`AllowedMeansRan`), `CleanIsClean` (`CleanMeansGone`), `LeftoversExplained`
(`LeftoverExplained`). The invariant counts the posts still to come against the runs (`RunsCounted`);
says that what exists is remembered or in doubt, and in doubt once the teardown has it behind it
(`Owned`); that a role or a bucket is there as long as something is in it (`Nested`); and that a kind
which was listed and not found is gone for good, in the order of the listing (`Listed`): a microVM
and an image come before the log group that they could still bring back.

**`AgentCoreStackProofs.tla`**, for any numbers of tries, rounds, exports and faults, every rubric and
threshold, and streams of any length (`AgentCoreStackAssumption`, `EvalAssumption`, `StreamAssumption`).
`StackTypes`, `CleanIsClean`, `LeftoversExplained`, `AgentIsGuarded` (`NeverUnguarded`) and
`OkIsProved` (`OkMeansProved`, when `InOrder`) come from `StackInvariant`. `Owned` allows a leftover whose
own deletion worked on nothing, as a resource that uses it is in doubt; `LogsCome` counts the exports
that may still come against the rounds that are left, which is why a quiet round ends the loop, and
says nothing of a harness that the program did not see go, which is why `CleanMeansGone` makes an
exception for it; `Guarded` ties the harness to the step of teardown that deletes it, the wait for
its end included, and says that until then nothing else is being deleted; `Sound` follows the
scenarios one by one, the recorded gap excepted. `GateIsClosed` and `HookIsClosed` are about the
pure layers (`LayersAreClosed` joins them). `StreamIsRead` (`StreamIsFaithful`) is an induction over the
events: `HasRead` says by position what the calls are after the first n of them. Its key facts are
that keys grow with the calls, so a piece finds one call only, and that after an error, which spoils
the message counter, nothing of a message comes.

Induction. The library's induction theorems take an operator, which the provers here cannot
instantiate. `InductionLemmas` therefore states induction for sets: a set of numbers that contains 0
and the successor of each of its members is all of Nat, and likewise for finite sets; each use defines
the set of the n for which the claim holds. Recursive functions (`EndOf`, the rebuilding of a chain)
are shown to exist in the same way before anything is said of their values.

Changes that the proofs asked of the modules, none of which adds or removes a behaviour the code has:
the layers of `ToolHook` and `EvalGate` decide by IF where they had CASEs whose guards overlapped,
`EventStream` sorts by rank and folds with a recursive function, and `RaciGate`, `EventStream` and
`JsonStore` name what they assume of their constants.

Only model-checked: the liveness properties `NoRunHangs`, `NobodyHangs` and `RunEnds`, since the
prover has neither ENABLED nor fairness.

## 5. What is not modelled

- What the blocklist, the globs and the rm rule say of a text, and which control areas a pattern of
  the matrix matches: inputs, since they are functions of text and change no state.
- IAM and Cedar documents, request signing, redaction, log wording, the zip: text and layout.
- `observability.py` and `guardrails.py`: wrappers around one call, without state between calls.
- `demo.py`: a script that prints what the rails do.
- Power loss under the checkpoint store (see the observation above).

## 6. Plan

Done: `RunLifecycle`, `Pipeline`, `AuditTrail`, `PermissionGate`, `TenantGate`, `Sandbox`,
`AgentCoreStack`, `RaciGate`, `ToolHook`, `EvalGate`, `EventStream`, `JsonStore`, `Agent`, `Session`, and
proofs of every safety and action property of the passing runs and of both refinements.

Worth doing next: the rm rule of the blocklist, as an operator on segments of words, with the theorem
that no prefix of harmless words hides it; and the parts of `Preemptive` behaviour that do hold for
`JsonCheckpointStore` as it is (which verdicts can be lost, and that a retry can always mend it) as
properties of their own.
