--------------------------- MODULE AgentCoreStack ---------------------------
(***************************************************************************)
(* AgentCoreStack.run of src/harness/agentcore.py and the main around it:  *)
(* provision creates a chain of resources, the scenarios put every layer   *)
(* to the proof (ToolHook, EvalGate, EventStream), and teardown deletes in *)
(* another order what the object knows of.  SIGTERM may come at any point. *)
(*                                                                         *)
(* A call is carried out and answered, refused, or carried out with its    *)
(* answer lost.  A deletion that the service accepted takes its time, also *)
(* when the program no longer waits for it.  The runtime of the harness    *)
(* exports its logs late, when the harness itself is gone.                 *)
(***************************************************************************)
EXTENDS ToolHook, EvalGate, EventStream

CONSTANTS
    Attempts,   \* attempts: how often a hook scenario is tried
    Rounds,     \* log_settle_rounds
    Exports,    \* bound: exports after the harness is gone
    Faults,     \* bound: calls of teardown that raise
    InOrder     \* the hook is asked about the calls in the order they are read

(* The runtime has nothing left to export after Rounds settle periods.     *)
ASSUME AgentCoreStackAssumption ==
    /\ Attempts \in Nat \ {0} /\ Rounds \in Nat \ {0}
    /\ Exports \in Nat /\ Exports <= Rounds
    /\ Faults \in Nat /\ InOrder \in BOOLEAN

VARIABLES
    pc,        \* where run, and main after it, stands
    at,        \* index of the next resource, scenario, or round
    attempt,   \* of the scenario, if it needs the model
    shown,     \* all results so far are as expected
    proved,    \* history: those that are because their own layer decided so
    things,    \* what exists
    going,     \* of these, what the service has accepted to delete
    known,     \* what the object remembers to have created
    late,      \* exports that will still come
    heard,     \* did an export come since the last sleep began?
    created,   \* harness_created
    error,     \* run was left by an exception or a signal
    found,     \* did cleanup_check find anything so far?
    verdict,   \* clean, as teardown returned it; then ok of main
    armed,     \* the SIGTERM handler still raises
    blamed,    \* history: resources a failed call left in doubt
    faults     \* calls of teardown that have raised

cloud == <<things, going, late, heard>>
score == <<attempt, shown, proved>>
vars == <<pc, at, score, cloud, known, created, error, found, verdict, armed, blamed,
          faults>>

(* Mutant: the harness is ready before the rules at its gateway are.       *)
PlanPoliciesLast ==
    <<"toolsRole", "hookRole", "table", "toolsFn", "hookFn", "engine",
      "gatewayRole", "gateway", "target", "harnessRole", "harness", "policies">>

(* provision, in its order.                                                *)
Plan ==
    <<"toolsRole", "hookRole", "table", "toolsFn", "hookFn", "engine",
      "gatewayRole", "gateway", "target", "policies", "harnessRole", "harness">>

(* Mutant: resources are deleted in the order of their creation.           *)
TeardownInPlanOrder ==
    <<"harness", "engine", "gateway", "target", "policies", "toolsFn", "hookFn",
      "table", "toolsRole", "hookRole", "gatewayRole", "harnessRole">>

(* "Harness first, then policies, target, gateway, engine."                *)
TeardownOrder ==
    <<"harness", "policies", "target", "gateway", "engine", "toolsFn", "hookFn",
      "table", "toolsRole", "hookRole", "gatewayRole", "harnessRole">>

Resources == {Plan[i] : i \in DOMAIN Plan}

(* The service may refuse to delete a resource while these exist, ...      *)
Users(r) ==
    CASE r = "gateway" -> {"target", "harness"}
      [] r = "engine"  -> {"policies", "gateway", "target", "harness"}
      [] OTHER         -> {}

(* ... or these go with it.                                                *)
Inside(r) ==
    CASE r = "gateway" -> {"target"}
      [] r = "engine"  -> {"policies"}
      [] OTHER         -> {}

(* Those of which the code waits until they are gone.                      *)
Awaited == {"harness", "policies", "target", "gateway", "engine", "table"}

InTeardown == {"delete", "await", "logs", "settle", "check", "checkLogs"}
Final == {"done", "exited", "aborted", "dead"}

Init ==
    /\ pc = "provision" /\ at = 1 /\ things = {} /\ going = {} /\ known = {}
    /\ attempt = 1 /\ shown = FALSE /\ proved = {}
    /\ late = 0 /\ heard = FALSE /\ created = FALSE /\ error = FALSE
    /\ found = FALSE /\ verdict = "none" /\ armed = TRUE
    /\ blamed = {} /\ faults = 0

-----------------------------------------------------------------------------
(* provision.  What raises leaves a part of the results empty.             *)
ToTeardown(raised) ==
    /\ pc' = "delete" /\ at' = 1 /\ attempt' = 1
    /\ error' = raised
    /\ shown' = (shown /\ ~raised) /\ proved' = IF raised THEN {} ELSE proved

(* The wait for the resource ends: it is ready, or the service gave up, or *)
(* time did, or a call raised.                                             *)
Ready(isLast) ==
    \/ IF isLast
         THEN /\ pc' = "use" /\ at' = 1 /\ shown' = TRUE /\ proved' = {}
              /\ UNCHANGED <<attempt, error>>
         ELSE at' = at + 1 /\ UNCHANGED <<pc, score, error>>
    \/ ToTeardown(TRUE)

(* Every resource is remembered before the wait for it to be ready, and    *)
(* every role before its policy is put: that may fail, too.                *)
Create ==
    /\ pc = "provision"
    /\ LET r == Plan[at] IN
         \/ /\ things' = things \cup {r} /\ known' = known \cup {r}
            /\ created' = (created \/ r = "harness")
            /\ late' = IF r = "harness" THEN Exports ELSE late
            /\ UNCHANGED blamed
            /\ Ready(at = Len(Plan))
         \/ ToTeardown(TRUE) /\ UNCHANGED <<things, known, late, created, blamed>>
         \/ /\ ToTeardown(TRUE)
            /\ things' = things \cup {r} /\ blamed' = blamed \cup {r}
            /\ late' = IF r = "harness" THEN Exports ELSE late
            /\ UNCHANGED <<known, created>>
    /\ UNCHANGED <<going, heard, found, verdict, armed, faults>>

(* The identity of the caller, before anything is made.                    *)
Identity ==
    /\ pc = "provision" /\ at = 1
    /\ ToTeardown(TRUE)
    /\ UNCHANGED <<cloud, known, created, found, verdict, armed, blamed, faults>>

-----------------------------------------------------------------------------
(* The scenarios.                                                          *)
Scenarios ==
    <<"list", "delete", "malformed", "signOff", "gap", "own", "cross", "nobody",
      "golden", "offTask", "live">>

Scenario == Scenarios[at]

Raise ==
    /\ pc = "use"
    /\ ToTeardown(TRUE)
    /\ UNCHANGED <<cloud, known, created, found, verdict, armed, blamed, faults>>

(* A scenario has its result: is it the expected one, and did the layer it *)
(* is about decide so?                                                     *)
Record(ok, real) ==
    /\ attempt' = 1
    /\ shown' = (shown /\ ok)
    /\ proved' = IF ~shown' THEN {} ELSE IF real THEN proved \cup {Scenario} ELSE proved
    /\ IF at < Len(Scenarios)
         THEN at' = at + 1 /\ UNCHANGED <<pc, error>>
         ELSE pc' = "delete" /\ at' = 1 /\ error' = FALSE
    /\ UNCHANGED <<cloud, known, created, found, verdict, armed, blamed, faults>>

ListTools ==
    /\ pc = "use" /\ Scenario = "list"
    /\ \E listed \in SUBSET Tools :
          LET ok == "delete_review" \notin listed /\ "get_review" \in listed
          IN  Record(ok, ok)

(* run_cedar_scenarios: want is the decision and what Cedar's reason says. *)
GatewayCall(tool, id, status, want) ==
    [tool |-> tool, want |-> want,
     args |-> [review_id |-> id, status |-> status, dangerous |-> FALSE]]

GatewayCalls ==
    [delete    |-> GatewayCall("delete_review", "REVIEW_A1", "unknown", "default"),
     malformed |-> GatewayCall("get_review", "malformed", "unknown", "default"),
     signOff   |-> GatewayCall("add_finding", "REVIEW_A1", "complied", "forbid"),
     gap       |-> GatewayCall("add_finding", "REVIEW_A1", "not_complied", "allow")]

Decided == {"allow", "default", "forbid", "otherRule"}

(* A message with neither result nor error is empty.                       *)
Replies == Decided \cup {"empty", "error"}

(* Mutant: every error is a denial by default.                             *)
PolicyDecisionOfErrors(reply) ==
    IF reply \in Decided THEN reply ELSE IF reply = "empty" THEN "allow" ELSE "default"

(* An error that is no denial raises, but what is empty passes for a       *)
(* result: reply.get("result") or {}.                                      *)
PolicyDecision(reply) ==
    IF reply \in Decided THEN reply ELSE IF reply = "empty" THEN "allow" ELSE "raises"

CallGateway ==
    /\ pc = "use" /\ Scenario \in DOMAIN GatewayCalls
    /\ \E reply \in Replies :
          LET c == GatewayCalls[Scenario]
          IN  /\ PolicyDecision(reply) # "raises"
              /\ Record(PolicyDecision(reply) = c.want, reply = CedarDecision(c.tool, c.args))

(* run_hook_scenarios: the tenant the session is registered to, and want.  *)
HookScenarios ==
    [own    |-> [tenant |-> "tenant-a", want |-> "allow"],
     cross  |-> [tenant |-> "tenant-b", want |-> "cross-tenant"],
     nobody |-> [tenant |-> "", want |-> "require-tenant-id"]]

(* Mutant: whatever the model reads will do.                               *)
ReadsAReview(e) == e.target = "reviews" /\ e.tool = "get_review"

(* json.loads as it is.                                                    *)
ReadsReviewA1(e) ==
    /\ e.target = "reviews" /\ e.tool = "get_review"
    /\ e.input.form \notin {"broken", "list"}
    /\ e.input.args.review_id = "REVIEW_A1"

(* The hook on a call, whichever that is; one that does not answer is a    *)
(* denial by the service.                                                  *)
Asked(e, answered) ==
    [onA1 |-> e.tool = "get_review" /\ e.input.args.review_id = "REVIEW_A1",
     rule |-> IF answered THEN Decide(e) ELSE "service"]

EventsOf(tenant) == {e \in ToolEvents : e.expected /\ e.tenant \in {tenant, "raises"}}

(* The first call that was read and the first decision that came, which    *)
(* the code takes for one about that call.                                 *)
FirstCalls ==
    [s \in DOMAIN HookScenarios |->
        LET events == EventsOf(HookScenarios[s].tenant)
        IN  IF InOrder
            THEN {[counts |-> ReadsReviewA1(e), asked |-> Asked(e, answered)] :
                     e \in events, answered \in BOOLEAN}
            ELSE [counts : {ReadsReviewA1(e) : e \in events},
                  asked  : {Asked(e, answered) : e \in events, answered \in BOOLEAN}]]

(* Mutant: a scenario the model never got to is no failure.                *)
SkippedIsFine ==
    IF attempt < Attempts
    THEN /\ attempt' = attempt + 1
         /\ UNCHANGED <<pc, at, shown, proved, cloud, known, created, error, found,
                        verdict, armed, blamed, faults>>
    ELSE Record(TRUE, FALSE)

(* "None = the model never read REVIEW-A1 with get_review".                *)
NotCounted ==
    IF attempt < Attempts
    THEN /\ attempt' = attempt + 1
         /\ UNCHANGED <<pc, at, shown, proved, cloud, known, created, error, found,
                        verdict, armed, blamed, faults>>
    ELSE Record(FALSE, FALSE)

(* No decision came, or the first one was about something else; or it is   *)
(* the result.                                                             *)
AskHarness ==
    /\ pc = "use" /\ Scenario \in DOMAIN HookScenarios
    /\ LET want == HookScenarios[Scenario].want
       IN  \/ NotCounted
           \/ \E c \in FirstCalls[Scenario] :
                 /\ c.counts
                 /\ Record(c.asked.rule = want, c.asked.onA1 /\ c.asked.rule = want)

(* run_eval_scenarios: the golden answer is to be released, the other one  *)
(* to be blocked.                                                          *)
Evaluations ==
    {[released |-> Evaluate({}, reply) = "passed", scored |-> ScoredWell(reply)] :
        reply \in {r \in JudgeReplies : r.kind = "scores"}}

EvaluateAnswer ==
    /\ pc = "use" /\ Scenario \in {"golden", "offTask"}
    /\ LET want == Scenario = "golden"
       IN  \E e \in Evaluations :
              Record(e.released = want, e.released = want /\ (want => e.scored))

(* "logged, not asserted": the live answer of the first hook scenario.     *)
EvaluateLive == pc = "use" /\ Scenario = "live" /\ Record(TRUE, TRUE)

Use == ListTools \/ CallGateway \/ AskHarness \/ EvaluateAnswer \/ EvaluateLive \/ Raise

-----------------------------------------------------------------------------
(* teardown.                                                               *)
NextDeletion ==
    IF at = Len(TeardownOrder) THEN pc' = "logs" /\ at' = 0
                               ELSE pc' = "delete" /\ at' = at + 1

(* A step raises when its call or its wait does, and the next one runs.    *)
StepRaises(r) ==
    /\ faults < Faults
    /\ faults' = faults + 1
    /\ blamed' = blamed \cup {r}

InDeletion == UNCHANGED <<score, late, heard, created, error, found, verdict, armed>>

(* The deletion is accepted, refused while something needs the resource,   *)
(* or raises and may have been accepted all the same.  A function or a     *)
(* role is gone with the answer.                                           *)
Delete ==
    /\ pc = "delete"
    /\ LET r == TeardownOrder[at]
           Accepted == IF r \in Awaited
                       THEN going' = going \cup ({r} \cap things) /\ UNCHANGED things
                       ELSE things' = things \ {r} /\ UNCHANGED going
       IN  \/ /\ r \notin known \/ things \cap Users(r) # {}
              /\ NextDeletion
              /\ UNCHANGED <<things, going, known, blamed, faults>>
           \/ /\ r \in known /\ Accepted
              /\ IF r \in Awaited THEN pc' = "await" /\ UNCHANGED <<at, known>>
                                  ELSE NextDeletion /\ known' = known \ {r}
              /\ UNCHANGED <<blamed, faults>>
           \/ /\ r \in known /\ StepRaises(r)
              /\ Accepted \/ UNCHANGED <<things, going>>
              /\ NextDeletion
              /\ UNCHANGED known
    /\ InDeletion

(* _gone, or the waiter for the table: the resource is no longer found; or *)
(* a poll raises, or the polls are used up.                                *)
Await ==
    /\ pc = "await"
    /\ LET r == TeardownOrder[at]
       IN  \/ r \notin things /\ known' = known \ {r} /\ UNCHANGED <<blamed, faults>>
           \/ StepRaises(r) /\ UNCHANGED known
    /\ NextDeletion
    /\ InDeletion /\ UNCHANGED <<things, going>>

(* Mutant: nothing to be found at the first look will do.                  *)
SettledAtOnce(round) == ~created \/ "logs" \notin things

(* A round of _delete_log_groups ends the loop: no harness that may log    *)
(* late, or a whole settle period with nothing new.                        *)
Settled(round) == ~created \/ (round > 0 /\ "logs" \notin things)

(* Mutant: one round too many.                                             *)
GoesOnOnceMore(round) == round <= Rounds

GoesOn(round) == round < Rounds

DeleteLogs ==
    /\ pc = "logs"
    /\ \/ /\ things' = things \ {"logs"}
          /\ IF Settled(at) \/ ~GoesOn(at)
               THEN pc' = "check" /\ UNCHANGED <<at, heard>>
               ELSE pc' = "settle" /\ at' = at + 1 /\ heard' = FALSE
          /\ UNCHANGED <<blamed, faults>>
       \/ /\ pc' = "check"
          /\ things' \in {things, things \ {"logs"}}
          /\ StepRaises("logs")
          /\ UNCHANGED <<at, heard>>
    /\ UNCHANGED <<score, going, late, known, created, error, found, verdict, armed>>

(* A settle period is longer than an export takes to come.                 *)
Wake ==
    /\ pc = "settle"
    /\ heard \/ late = 0 \/ "harness" \in things
    /\ pc' = "logs"
    /\ UNCHANGED <<at, score, cloud, known, created, error, found, verdict, armed, blamed, faults>>

-----------------------------------------------------------------------------
(* All kinds but the log groups, every page of each.                       *)
Listed == things \ {"logs"} # {}

(* cleanup_check, by teardown and again by main: the log groups come last, *)
(* and what other runs have made is found as well.                         *)
List ==
    /\ \/ pc = "check" /\ pc' = "checkLogs"
       \/ pc = "recheck" /\ pc' = "recheckLogs"
    /\ found' \in {Listed, TRUE}
    /\ UNCHANGED <<at, score, cloud, known, created, error, verdict, armed, blamed, faults>>

FoundAny == found \/ "logs" \in things

(* teardown returns.  After a signal the program exits; an exception of    *)
(* the check proves nothing clean.                                         *)
Checked ==
    /\ \/ pc = "checkLogs" /\ verdict' = IF FoundAny THEN "dirty" ELSE "clean"
       \/ pc \in {"check", "checkLogs"} /\ verdict' = "dirty"
    /\ pc' = IF armed THEN "recheck" ELSE "exited"
    /\ UNCHANGED <<at, score, cloud, known, created, error, found, armed, blamed, faults>>

(* The exit code: every scenario as expected, no error, nothing found.     *)
Summary ==
    /\ pc = "recheckLogs"
    /\ pc' = "done"
    /\ verdict' = IF shown /\ ~error /\ ~FoundAny THEN "ok" ELSE "failed"
    /\ UNCHANGED <<at, score, cloud, known, created, error, found, armed, blamed, faults>>

(* stop: the first SIGTERM raises SystemExit wherever run is, perhaps      *)
(* between a creation and its note, or between the two notes of a harness, *)
(* and SIGTERM is ignored from then on.                                    *)
Sigterm ==
    /\ armed /\ pc \notin Final
    /\ armed' = FALSE
    /\ \/ /\ pc = "provision" /\ ToTeardown(TRUE)
          /\ things' = things \cup {Plan[at]} /\ blamed' = blamed \cup {Plan[at]}
          /\ known' \in {known, known \cup ({Plan[at]} \cap {"harness"})}
          /\ late' = IF Plan[at] = "harness" THEN Exports ELSE late
       \/ /\ \/ pc \in {"provision", "use"} /\ ToTeardown(TRUE)
             \/ pc \in InTeardown /\ pc' = "aborted" /\ UNCHANGED <<at, score, error>>
             \/ /\ pc \in {"recheck", "recheckLogs"} /\ pc' = "exited"
                /\ UNCHANGED <<at, score, error>>
          /\ UNCHANGED <<things, known, late, blamed>>
    /\ UNCHANGED <<going, heard, created, found, verdict, faults>>

(* The process is killed, or the check of main raises.                     *)
Die ==
    /\ pc \notin Final
    /\ pc' = "dead"
    /\ UNCHANGED <<at, score, cloud, known, created, error, found, verdict, armed, blamed, faults>>

-----------------------------------------------------------------------------
(* The cloud: what is to be deleted goes, sooner or later or not at all,   *)
(* and with it what is inside.                                             *)
Vanish ==
    /\ \E r \in going :
          /\ things' = things \ ({r} \cup Inside(r))
          /\ going' = going \ ({r} \cup Inside(r))
    /\ UNCHANGED <<pc, at, score, late, heard, known, created, error, found, verdict,
                   armed, blamed, faults>>

(* Functions and harness log while there is work, the runtime of the       *)
(* harness once more and late.                                             *)
Log ==
    /\ pc = "use" \/ "harness" \in things
    /\ things' = things \cup {"logs"}
    /\ UNCHANGED <<pc, at, score, going, late, heard, known, created, error, found, verdict,
                   armed, blamed, faults>>

Export ==
    /\ "harness" \notin things /\ late > 0
    /\ late' = late - 1
    /\ things' = things \cup {"logs"}
    /\ heard' = TRUE
    /\ UNCHANGED <<pc, at, score, going, known, created, error, found, verdict, armed,
                   blamed, faults>>

Next ==
    \/ Identity \/ Create \/ Use
    \/ Delete \/ Await \/ DeleteLogs \/ Wake
    \/ List \/ Checked \/ Summary
    \/ Sigterm \/ Die
    \/ Vanish \/ Log \/ Export

Spec == Init /\ [][Next]_vars

-----------------------------------------------------------------------------
(* Properties.                                                             *)

(* The index is one of the list the program is in, and the loop over       *)
(* the log groups settles no more often than log_settle_rounds.            *)
TypeOK ==
    /\ pc \in {"provision", "use", "recheck", "recheckLogs"} \cup InTeardown \cup Final
    /\ at \in Nat
    /\ pc = "provision" => at \in DOMAIN Plan
    /\ pc = "use" => at \in DOMAIN Scenarios
    /\ pc \in {"delete", "await"} => at \in DOMAIN TeardownOrder
    /\ pc \in {"logs", "settle"} => at \in 0..Rounds
    /\ things \subseteq Resources \cup {"logs"}
    /\ known \subseteq Resources
    /\ going \subseteq things \cap known \cap Awaited
    /\ late \in 0..Exports
    /\ attempt \in 1..Attempts
    /\ {heard, created, error, found, armed, shown} \subseteq BOOLEAN
    /\ proved \subseteq Range(Scenarios)
    /\ verdict \in {"none", "clean", "dirty", "ok", "failed"}
    /\ blamed \subseteq Resources \cup {"logs"}
    /\ faults \in 0..Faults

(* "a deleted runtime log group can come back after the harness is gone":  *)
(* what teardown or main calls clean is gone and stays gone, but for the   *)
(* log groups of a run in which the step about them, or one about the      *)
(* harness, failed: the first ends the wait for late logs, and a harness   *)
(* that went unseen, or that nobody noted, may export its own after all    *)
(* the waiting and checking.                                               *)
CleanMeansGone ==
    verdict \in {"clean", "ok"} =>
        things = {} \/ (things = {"logs"} /\ {"logs", "harness"} \cap blamed # {})

(* "Delete everything this run created": what is left has a failed call    *)
(* of its own to blame, or one about a resource that uses it.              *)
LeftoverExplained ==
    pc \in {"check", "checkLogs", "recheck", "recheckLogs", "done", "exited"} =>
        \A r \in things \cap Resources : blamed \cap ({r} \cup Users(r)) # {}

(* Provision makes the harness last and teardown deletes it first: while   *)
(* it exists its hook can be called and can look a session up, and its     *)
(* gateway has the engine with all its rules.  The exception is a harness  *)
(* whose own creation or deletion failed or was interrupted: "each step    *)
(* logs its own error and the next step runs", so that teardown takes its  *)
(* rails away while it is still there.                                     *)
NeverUnguarded ==
    "harness" \in things /\ "harness" \notin blamed =>
        {"hookFn", "hookRole", "table", "engine", "policies", "gateway"} \subseteq things

(* "OK: Cedar, the hook and the eval gate decided as expected": exit code  *)
(* 0 says that each scenario ran, that the decisions were those of its own *)
(* layer and rule, on the call it is about, and that the golden answer was *)
(* scored well on every dimension; an error, a skipped scenario, or a deny *)
(* for another reason does not pass for one.  Only the gap that the agent  *)
(* may record can be taken for recorded on an empty reply.                 *)
OkMeansProved == verdict = "ok" => Range(Scenarios) \ {"gap"} \subseteq proved

(* "Fail closed": as long as there is an agent, no layer lets through what *)
(* it does not understand: the hook and the policy engine no call, and the *)
(* release gate no answer that is not scored well on every dimension.      *)
LayersFailClosed ==
    "harness" \in things => HookFailsClosed /\ GateFailsClosed

(* What the scenarios are judged by is what the harness sent.              *)
StreamIsFaithful == pc = "use" => FaithfulStreams

(* main: "timeout/kill/CI cancel: still tear down", "once, not             *)
(* mid-teardown".                                                          *)
SigtermTearsDown == pc # "aborted"
=============================================================================
