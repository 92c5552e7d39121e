------------------------ MODULE AgentCoreStackProofs ------------------------
(* What one run of the AgentCore stack guarantees for every number of tries *)
(* and settle rounds, every rubric, and whatever the cloud answers.        *)
EXTENDS AgentCoreStack, InductionLemmas, SequenceTheorems, TLAPS

Rails == {"hookFn", "hookRole", "table", "engine", "policies", "gateway"}

AfterLoop == {"check", "checkLogs", "recheck", "recheckLogs", "done", "exited"}

AfterDelete == {"logs", "settle"} \cup AfterLoop

(* What is created so far is remembered, and the harness is created last.  *)
Provisioned ==
    /\ pc = "provision" =>
          /\ \A i \in 1..(at - 1) : Plan[i] \in things /\ Plan[i] \in known
          /\ "harness" \notin things \cup known
          /\ blamed = {} /\ late = 0 /\ ~created /\ going = {}
    /\ pc = "use" => Rails \cup {"harness"} \subseteq things /\ going = {}

(* The deletion of the harness is the first step of teardown.              *)
Guarded ==
    "harness" \in things /\ "harness" \notin blamed =>
        /\ Rails \subseteq things /\ going \subseteq {"harness"}
        /\ pc \in {"use", "aborted", "dead"} \/ (pc \in {"delete", "await"} /\ at = 1)

(* What exists is known or in doubt, and what the teardown has behind it   *)
(* is in doubt, or a resource is that uses it.                             *)
Explained(r) == r \in things => blamed \cap ({r} \cup Users(r)) # {}

Owned ==
    /\ things \cap Resources \subseteq known \cup blamed
    /\ pc \in {"delete", "await"} => \A i \in 1..(at - 1) : Explained(TeardownOrder[i])
    /\ pc \in AfterDelete => \A r \in Resources : Explained(r)

(* A log that is still to come has the harness or a round to wait for it:  *)
(* a round that ends with nothing heard is one after which nothing comes.  *)
(* That needs a harness of which the program saw that it is gone.          *)
LogsCome ==
    /\ "harness" \in known => created \/ "harness" \in blamed
    /\ late > 0 => created \/ "harness" \in things \cup blamed
    /\ "harness" \notin things \cup blamed =>
          /\ pc = "logs" => late + at \leq Rounds \/ late = 0
          /\ pc = "logs" /\ at > 0 => late = 0 \/ "logs" \in things
          /\ pc = "settle" =>
                /\ at > 0
                /\ late + at \leq Rounds + (IF heard THEN 0 ELSE 1)
                /\ heard => "logs" \in things
          /\ pc \in AfterLoop => late = 0 \/ "logs" \in blamed

(* A kind that was listed and not found is gone for good.                  *)
Gone ==
    /\ pc \in {"checkLogs", "recheckLogs"} /\ ~found => things \subseteq {"logs"}
    /\ verdict # "none" => pc \in {"recheck", "recheckLogs", "done", "exited", "dead"}
    /\ verdict \in {"clean", "ok"} =>
          /\ things \subseteq {"logs"}
          /\ {"logs", "harness"} \cap blamed # {} \/ (late = 0 /\ things = {})

(* A result that is not the layer's own is never taken for the expected,   *)
(* but for the gap that an empty reply does not refuse.                    *)
Proven(n) == \A i \in 1..n : Scenarios[i] \in proved \cup {"gap"}

Sound ==
    /\ InOrder /\ shown /\ pc # "dead" =>
          pc # "provision" /\ Proven(IF pc = "use" THEN at - 1 ELSE 11)
    /\ verdict = "ok" => pc = "done" /\ shown

IInv == TypeOK /\ Provisioned /\ Guarded /\ Owned /\ LogsCome /\ Gone /\ Sound

-----------------------------------------------------------------------------
(* The layers.                                                             *)

(* What passes was given a number on every dimension, at the floor or      *)
(* above, and one at the threshold: for every rubric and every threshold.  *)
THEOREM GateIsClosed == GateFailsClosed
<1> SUFFICES ASSUME NEW failures \in SUBSET {"check"}, NEW reply \in JudgeReplies,
                    Evaluate(failures, reply) = "passed"
             PROVE  failures = {} /\ ScoredWell(reply)
  BY DEF GateFailsClosed
<1> DEFINE scores == Scores(reply)
<1>1. failures = {} /\ reply.kind # "raises" /\ Releases(scores)
  BY DEF Evaluate
<1>2. /\ DOMAIN scores = Dimensions
      /\ \A d \in Dimensions :
            scores[d] = IF reply.kind # "scores" \/ ~reply.raw[d].usable THEN 0
                        ELSE IF reply.raw[d].value > 100 THEN 100
                        ELSE IF reply.raw[d].value < 0 THEN 0 ELSE reply.raw[d].value
  BY DEF Scores
<1> HIDE DEF scores
<1>3. /\ Dimensions # {} /\ Total(scores) >= Threshold * Cardinality(Dimensions)
      /\ \A d \in Dimensions : scores[d] >= MinDimension
  BY <1>1, <1>2 DEF Releases
<1>4. /\ Threshold \in 0..100 /\ MinDimension \in 1..100
      /\ IsFiniteSet(Dimensions) /\ Values \subseteq Int
  BY EvalAssumption
<1>5. \A d \in Dimensions : reply.kind = "scores" => reply.raw[d].value \in Int
  <2>1. reply.kind = "scores" => reply.raw \in [Dimensions -> Raw]
    BY DEF JudgeReplies
  <2>2. QED
    BY <1>4, <2>1 DEF Raw
<1>6. \A d \in Dimensions : scores[d] \in Int
  BY <1>2, <1>5
<1>7. reply.kind = "scores"
  BY <1>2, <1>3, <1>4
<1>8. \A d \in Dimensions : reply.raw[d].usable /\ reply.raw[d].value >= MinDimension
  BY <1>2, <1>3, <1>4, <1>5, <1>7
<1>9. \E d \in Dimensions : scores[d] >= Threshold
  <2> SUFFICES ASSUME \A d \in Dimensions : ~(scores[d] >= Threshold) PROVE FALSE
    OBVIOUS
  <2>1. \A d \in Dimensions : scores[d] < Threshold
    BY <1>4, <1>6
  <2>2. SumOf(scores) \in Int /\ SumOf(scores) < Threshold * Cardinality(Dimensions)
    BY <1>2, <1>3, <1>4, <1>6, <2>1, SumBelow
  <2>3. Total(scores) = SumOf(scores)
    BY DEF Total, SumOf
  <2>4. Threshold * Cardinality(Dimensions) \in Int
    BY <1>4, FS_CardinalityType
  <2>5. QED
    BY <1>3, <2>2, <2>3, <2>4
<1>10. \E d \in Dimensions : reply.raw[d].value >= Threshold
  BY <1>2, <1>4, <1>5, <1>7, <1>8, <1>9
<1>11. QED
  BY <1>1, <1>7, <1>8, <1>10 DEF ScoredWell

(* No call that the hook lets through acts on another tenant's review,     *)
(* deletes, or signs off; nor does Cedar let a call do so.                 *)
THEOREM HookIsClosed == HookFailsClosed
<1>1. ASSUME NEW e \in ToolEvents, Decide(e) = "allow",
             NEW args \in {e.input.args, e.input.hidden}
      PROVE  /\ Effect(e.tool, args) \in {"read", "recorded"} =>
                   ReviewOwner[args.review_id] = e.tenant
             /\ Effect(e.tool, args) \notin {"deleted", "signed off"}
  <2> DEFINE q == [tool |-> e.tool, args |-> e.input.args]
  <2>1. /\ Parses(e.input) /\ e.tenant \notin {"raises", ""}
        /\ e.tool \in HookTools
        /\ HookGate!Permitted(e.tenant, q)
        /\ ~(e.tool = "add_finding" /\ e.input.args.status = "complied")
    BY <1>1 DEF Decide
  <2>2. OwnerOf(q) \in {e.tenant, "untargeted"}
    BY <2>1 DEF HookGate!Permitted
  <2>3. args \in {e.input.args, NoArguments}
    BY <2>1 DEF Parses, ToolEvents, Inputs
  <2>4. args \in Arguments /\ ("missing" \notin Reviews)
    <3>1. Reviews = {"REVIEW_A1", "REVIEW_B1"}
      BY DEF Reviews, ReviewOwner
    <3>2. NoArguments \in Arguments
      BY DEF NoArguments, Arguments
    <3>3. e.input \in Inputs
      BY DEF ToolEvents
    <3>4. e.input.args \in Arguments
      BY <3>2, <3>3 DEF Inputs
    <3>5. QED
      BY <2>3, <3>1, <3>2, <3>4
  <2>5. args.status \in {"complied", "not_complied", "unknown"}
    BY <2>4 DEF Arguments
  <2>6. e.tool \in {"get_review", "add_finding"}
    BY <2>1 DEF HookTools
  <2>7. CASE args = e.input.args
    <3>1. args.review_id \in Reviews => ReviewOwner[args.review_id] \in {e.tenant, "untargeted"}
      BY <2>2, <2>6, <2>7 DEF OwnerOf, HookTools
    <3>2. args.review_id \in Reviews => ReviewOwner[args.review_id] # "untargeted"
      BY DEF Reviews, ReviewOwner
    <3>3. QED
      BY <2>1, <2>5, <2>6, <2>7, <3>1, <3>2 DEF Effect
  <2>8. CASE args = NoArguments
    BY <2>4, <2>6, <2>8 DEF Effect, NoArguments
  <2>9. QED
    BY <2>3, <2>7, <2>8
<1>2. ASSUME NEW q \in Calls, CedarDecision(q.tool, q.args) = "allow"
      PROVE  Effect(q.tool, q.args) \notin {"deleted", "signed off"}
  <2>1. q.tool \in {"get_review", "add_finding"}
    BY <1>2 DEF CedarDecision, Permits
  <2>2. ~(q.tool = "add_finding" /\ q.args.status = "complied")
    BY <1>2 DEF CedarDecision, Forbids, Calls
  <2>3. q.args.status \in {"complied", "not_complied", "unknown"}
    BY DEF Calls, Arguments
  <2>4. QED
    BY <2>1, <2>2, <2>3 DEF Effect
<1>3. QED
  BY <1>1, <1>2 DEF HookFailsClosed

-----------------------------------------------------------------------------
(* The two lists.                                                          *)

LEMMA PlanFacts ==
    /\ DOMAIN Plan = 1..12 /\ Len(Plan) = 12 /\ Plan[12] = "harness"
    /\ DOMAIN Scenarios = 1..11 /\ Len(Scenarios) = 11
    /\ DOMAIN TeardownOrder = 1..12 /\ Len(TeardownOrder) = 12
    /\ TeardownOrder[1] = "harness"
    /\ Resources = {"toolsRole", "hookRole", "table", "toolsFn", "hookFn", "engine",
                    "gatewayRole", "gateway", "target", "policies", "harnessRole", "harness"}
    /\ Rails \subseteq Resources
<1>1. DOMAIN Plan = 1..12 /\ Len(Plan) = 12 /\ Plan[12] = "harness"
  BY DEF Plan
<1>2. DOMAIN Scenarios = 1..11 /\ Len(Scenarios) = 11
  BY DEF Scenarios
<1>3. /\ DOMAIN TeardownOrder = 1..12 /\ Len(TeardownOrder) = 12
      /\ TeardownOrder[1] = "harness"
  BY DEF TeardownOrder
<1>4. Resources = {Plan[i] : i \in 1..12}
  BY <1>1 DEF Resources
<1>5. Resources = {"toolsRole", "hookRole", "table", "toolsFn", "hookFn", "engine",
                   "gatewayRole", "gateway", "target", "policies", "harnessRole", "harness"}
  BY <1>4 DEF Plan
<1>6. QED
  BY <1>1, <1>2, <1>3, <1>5 DEF Rails

LEMMA PlanEndsWithHarness ==
    /\ \A i \in 1..12 : Plan[i] \in Resources /\ (Plan[i] = "harness" => i = 12)
    /\ \A r \in Resources \ {"harness"} : \E i \in 1..11 : Plan[i] = r
<1>1. \A i \in 1..12 : Plan[i] \in Resources /\ (Plan[i] = "harness" => i = 12)
  BY PlanFacts DEF Resources, Plan
<1>2. ASSUME NEW r \in Resources \ {"harness"}
      PROVE  \E i \in 1..11 : Plan[i] = r
  <2>1. PICK i \in 1..12 : Plan[i] = r
    BY PlanFacts DEF Resources
  <2>2. QED
    BY <2>1, PlanFacts
<1>3. QED
  BY <1>1, <1>2

(* A resource is deleted after all that use it.                            *)
LEMMA OrderFacts ==
    /\ \A i \in 1..12 : TeardownOrder[i] \in Resources
    /\ \A r \in Resources : \E i \in 1..12 : TeardownOrder[i] = r
    /\ \A i \in 1..12 : \A u \in Users(TeardownOrder[i]) :
          /\ \E j \in 1..(i - 1) : TeardownOrder[j] = u
          /\ Users(u) \subseteq Users(TeardownOrder[i])
    /\ Users("harness") = {}
<1>1. \A i \in 1..12 : TeardownOrder[i] \in Resources
  BY PlanFacts DEF TeardownOrder
<1>2. \A r \in Resources : \E i \in 1..12 : TeardownOrder[i] = r
  <2>1. /\ TeardownOrder[1] = "harness" /\ TeardownOrder[2] = "policies"
        /\ TeardownOrder[3] = "target" /\ TeardownOrder[4] = "gateway"
        /\ TeardownOrder[5] = "engine" /\ TeardownOrder[6] = "toolsFn"
        /\ TeardownOrder[7] = "hookFn" /\ TeardownOrder[8] = "table"
        /\ TeardownOrder[9] = "toolsRole" /\ TeardownOrder[10] = "hookRole"
        /\ TeardownOrder[11] = "gatewayRole" /\ TeardownOrder[12] = "harnessRole"
    BY DEF TeardownOrder
  <2>2. QED
    BY <2>1, PlanFacts
<1>3. Users("harness") = {}
  BY DEF Users
<1>4. ASSUME NEW i \in 1..12, NEW u \in Users(TeardownOrder[i])
      PROVE  /\ \E j \in 1..(i - 1) : TeardownOrder[j] = u
             /\ Users(u) \subseteq Users(TeardownOrder[i])
  <2>1. i = 4 \/ i = 5
    BY DEF TeardownOrder, Users
  <2>2. CASE i = 4
    BY <2>2 DEF TeardownOrder, Users
  <2>3. CASE i = 5
    BY <2>3 DEF TeardownOrder, Users
  <2>4. QED
    BY <2>1, <2>2, <2>3
<1>5. QED
  BY <1>1, <1>2, <1>3, <1>4

-----------------------------------------------------------------------------
(* The conjuncts of TypeOK, each kept for a reason of its own.             *)
PcOK == pc \in {"provision", "use", "recheck", "recheckLogs"} \cup InTeardown \cup Final

OutcomeOK ==
    /\ heard \in BOOLEAN /\ created \in BOOLEAN /\ error \in BOOLEAN
    /\ found \in BOOLEAN /\ armed \in BOOLEAN /\ shown \in BOOLEAN
    /\ proved \subseteq Range(Scenarios)
    /\ verdict \in {"none", "clean", "dirty", "ok", "failed"}

AtOK ==
    /\ at \in Nat
    /\ pc = "provision" => at \in 1..12
    /\ pc = "use" => at \in 1..11
    /\ pc \in {"delete", "await"} => at \in 1..12
    /\ pc \in {"logs", "settle"} => at \in 0..Rounds

CountsOK == late \in 0..Exports /\ attempt \in 1..Attempts /\ faults \in 0..Faults

CloudOK ==
    /\ things \subseteq Resources \cup {"logs"}
    /\ known \subseteq Resources
    /\ going \subseteq things \cap known \cap Awaited
    /\ blamed \subseteq Resources \cup {"logs"}

LEMMA TypeParts == TypeOK <=> PcOK /\ OutcomeOK /\ AtOK /\ CountsOK /\ CloudOK
<1>1. {heard, created, error, found, armed, shown} \subseteq BOOLEAN
         <=> /\ heard \in BOOLEAN /\ created \in BOOLEAN /\ error \in BOOLEAN
             /\ found \in BOOLEAN /\ armed \in BOOLEAN /\ shown \in BOOLEAN
  BY Zenon
<1>2. QED
  BY <1>1, PlanFacts DEF TypeOK, PcOK, OutcomeOK, AtOK, CountsOK, CloudOK

(* A scenario moves on the list of scenarios, or leads to teardown.        *)
InUse == ListTools \/ CallGateway \/ AskHarness \/ EvaluateAnswer \/ EvaluateLive

Moves ==
    /\ pc = "use"
    /\ UNCHANGED <<cloud, known, created, found, verdict, armed, blamed, faults>>
    /\ \/ /\ attempt < Attempts /\ attempt' = attempt + 1
          /\ UNCHANGED <<pc, at, shown, proved, error>>
       \/ \E ok, real \in BOOLEAN :
             /\ Record(ok, real)
             /\ InOrder /\ ok => real \/ Scenario = "gap"

(* The four calls through the gateway are denied, or not, by what wants it. *)
LEMMA GatewayWants ==
    \A n \in DOMAIN GatewayCalls :
        /\ GatewayCalls[n].want = CedarDecision(GatewayCalls[n].tool, GatewayCalls[n].args)
        /\ GatewayCalls[n].want = "allow" => n = "gap"
<1>1. "REVIEW_A1" \in Reviews /\ "malformed" \notin Reviews \cup {"REVIEW_X"}
  BY DEF Reviews, ReviewOwner
<1>2. \A id \in Reviews \cup {"malformed"}, status \in {"complied", "not_complied", "unknown"} :
         [review_id |-> id, status |-> status, dangerous |-> FALSE] \in Arguments
  BY DEF Arguments
<1>3. ASSUME NEW n \in DOMAIN GatewayCalls
      PROVE  /\ GatewayCalls[n].want =
                    CedarDecision(GatewayCalls[n].tool, GatewayCalls[n].args)
             /\ GatewayCalls[n].want = "allow" => n = "gap"
  <2>1. n \in {"delete", "malformed", "signOff", "gap"}
    BY <1>3 DEF GatewayCalls
  <2>2. CASE n = "delete"
    BY <2>2 DEF GatewayCalls, GatewayCall, CedarDecision, Forbids, Permits
  <2>3. CASE n = "malformed"
    BY <2>3, <1>1 DEF GatewayCalls, GatewayCall, CedarDecision, Forbids, Permits
  <2>4. CASE n = "signOff"
    BY <2>4, <1>1, <1>2 DEF GatewayCalls, GatewayCall, CedarDecision, Forbids
  <2>5. CASE n = "gap"
    BY <2>5, <1>1, <1>2 DEF GatewayCalls, GatewayCall, CedarDecision, Forbids, Permits
  <2>6. QED
    BY <2>1, <2>2, <2>3, <2>4, <2>5
<1>4. QED
  BY <1>3

(* Whatever a scenario brings, what the code takes for the expected result *)
(* is the expected result.                                                 *)
LEMMA ScenariosMove ==
    ASSUME InUse
    PROVE  Moves
<1>1. CASE ListTools
  BY <1>1 DEF ListTools, Moves, Record
<1>2. CASE CallGateway
  <2>1. PICK reply \in Replies :
           LET c == GatewayCalls[Scenario]
           IN  /\ PolicyDecision(reply) # "raises"
               /\ Record(PolicyDecision(reply) = c.want,
                         reply = CedarDecision(c.tool, c.args))
    BY <1>2 DEF CallGateway
  <2> DEFINE c == GatewayCalls[Scenario]
             ok == PolicyDecision(reply) = c.want
             real == reply = CedarDecision(c.tool, c.args)
  <2>2. ok \in BOOLEAN /\ real \in BOOLEAN /\ (ok => real \/ Scenario = "gap")
    <3>1. Scenario \in DOMAIN GatewayCalls
      BY <1>2 DEF CallGateway
    <3>2. /\ c.want = CedarDecision(c.tool, c.args)
          /\ c.want = "allow" => Scenario = "gap"
      BY <3>1, GatewayWants
    <3>3. reply \in Decided \/ PolicyDecision(reply) = "allow"
      BY <2>1 DEF PolicyDecision
    <3>4. QED
      BY <3>2, <3>3 DEF PolicyDecision
  <2>3. Record(ok, real)
    BY <2>1
  <2> HIDE DEF ok, real
  <2>4. QED
    BY <1>2, <2>2, <2>3 DEF CallGateway, Moves, Record
<1>3. CASE AskHarness
  <2> DEFINE want == HookScenarios[Scenario].want
  <2>1. NotCounted \/ \E c \in FirstCalls[Scenario] :
                          /\ c.counts
                          /\ Record(c.asked.rule = want, c.asked.onA1 /\ c.asked.rule = want)
    BY <1>3 DEF AskHarness
  <2>2. CASE NotCounted
    BY <1>3, <2>2 DEF NotCounted, AskHarness, Moves, Record
  <2>3. ASSUME NEW c \in FirstCalls[Scenario], c.counts,
               Record(c.asked.rule = want, c.asked.onA1 /\ c.asked.rule = want)
        PROVE  Moves
    <3> DEFINE ok == c.asked.rule = want
               real == c.asked.onA1 /\ c.asked.rule = want
    <3>1. InOrder => c.asked.onA1
      <4> SUFFICES ASSUME InOrder PROVE c.asked.onA1
        OBVIOUS
      <4>1. PICK e \in ToolEvents, answered \in BOOLEAN :
               c = [counts |-> ReadsReviewA1(e), asked |-> Asked(e, answered)]
        BY <1>3, <2>3 DEF FirstCalls, EventsOf, AskHarness
      <4>2. QED
        BY <2>3, <4>1 DEF Asked, ReadsReviewA1
    <3>2. ok \in BOOLEAN /\ real \in BOOLEAN /\ (InOrder /\ ok => real)
      <4>1. c.asked.onA1 \in BOOLEAN
        <5>1. PICK e \in ToolEvents, answered \in BOOLEAN : c.asked = Asked(e, answered)
          BY <1>3, <2>3 DEF FirstCalls, EventsOf, AskHarness
        <5>2. QED
          BY <5>1 DEF Asked
      <4>2. QED
        BY <3>1, <4>1
    <3>3. Record(ok, real)
      BY <2>3
    <3> HIDE DEF ok, real
    <3>4. QED
      BY <1>3, <3>2, <3>3 DEF AskHarness, Moves, Record
  <2>4. QED
    BY <2>1, <2>2, <2>3
<1>4. CASE EvaluateAnswer
  <2> DEFINE want == Scenario = "golden"
  <2>1. PICK e \in Evaluations :
           Record(e.released = want, e.released = want /\ (want => e.scored))
    BY <1>4 DEF EvaluateAnswer
  <2>2. PICK reply \in JudgeReplies :
           e = [released |-> Evaluate({}, reply) = "passed", scored |-> ScoredWell(reply)]
    BY DEF Evaluations
  <2>3. e.released => e.scored
    BY <2>2, GateIsClosed DEF GateFailsClosed
  <2> DEFINE ok == e.released = want
             real == e.released = want /\ (want => e.scored)
  <2>4. ok \in BOOLEAN /\ real \in BOOLEAN /\ (ok => real) /\ Record(ok, real)
    BY <2>1, <2>3
  <2> HIDE DEF ok, real
  <2>5. QED
    BY <1>4, <2>4 DEF EvaluateAnswer, Moves, Record
<1>5. CASE EvaluateLive
  BY <1>5 DEF EvaluateLive, Moves, Record
<1>6. QED
  BY <1>1, <1>2, <1>3, <1>4, <1>5 DEF InUse

Steps ==
    \/ Identity \/ Create \/ Moves \/ Raise
    \/ Delete \/ Await \/ DeleteLogs \/ Wake
    \/ List \/ Checked \/ Summary
    \/ Sigterm \/ Die
    \/ Vanish \/ Log \/ Export

LEMMA NextSteps == Next => Steps
  BY ScenariosMove DEF Next, Steps, Use, InUse

LEMMA TypesKept ==
    ASSUME TypeOK, Steps
    PROVE  TypeOK'
<1>1. PcOK /\ OutcomeOK /\ AtOK /\ CountsOK /\ CloudOK
  BY TypeParts
<1> USE AgentCoreStackAssumption, PlanFacts, <1>1 DEF cloud, score
<1>2. PcOK'
  BY DEF PcOK, InTeardown, Final, Steps, Identity, Create, Ready, ToTeardown, Moves,
        Record, Raise, Delete, Await, NextDeletion, DeleteLogs, Wake, List, Checked,
        Summary, Sigterm, Die, Vanish, Log, Export
<1>3. OutcomeOK'
  <2> USE DEF OutcomeOK
  <2>1. CASE Identity \/ Create \/ Raise
    BY <2>1 DEF Identity, Create, Ready, ToTeardown, Raise
  <2>2. CASE Moves
    <3>1. Scenario \in Range(Scenarios)
      BY <2>2 DEF Moves, AtOK, Scenario, Range
    <3>2. QED
      BY <2>2, <3>1 DEF Moves, Record
  <2>3. CASE Delete \/ Await \/ DeleteLogs \/ Wake
    BY <2>3 DEF Delete, Await, InDeletion, DeleteLogs, Wake
  <2>4. CASE List
    <3>1. found' \in BOOLEAN
      BY <2>4, Zenon DEF List, Listed
    <3>2. QED
      BY <2>4, <3>1 DEF List
  <2>5. CASE Checked \/ Summary \/ Die
    BY <2>5 DEF Checked, Summary, Die
  <2>6. CASE Sigterm \/ Vanish \/ Log \/ Export
    BY <2>6 DEF Sigterm, ToTeardown, Vanish, Log, Export
  <2>7. QED
    BY <2>1, <2>2, <2>3, <2>4, <2>5, <2>6 DEF Steps
<1>4. AtOK'
  <2> USE DEF AtOK, InTeardown, Final
  <2>1. CASE Identity \/ Create \/ Raise
    BY <2>1 DEF Identity, Create, Ready, ToTeardown, Raise
  <2>2. CASE Moves
    BY <2>2 DEF Moves, Record
  <2>3. CASE Delete \/ Await
    BY <2>3 DEF Delete, Await, NextDeletion
  <2>4. CASE DeleteLogs \/ Wake
    BY <2>4 DEF DeleteLogs, GoesOn, Wake
  <2>5. CASE List \/ Checked \/ Summary \/ Die
    BY <2>5 DEF List, Checked, Summary, Die
  <2>6. CASE Sigterm \/ Vanish \/ Log \/ Export
    BY <2>6 DEF Sigterm, ToTeardown, Vanish, Log, Export
  <2>7. QED
    BY <2>1, <2>2, <2>3, <2>4, <2>5, <2>6 DEF Steps
<1>5. CountsOK'
  <2> USE DEF CountsOK
  <2>1. CASE Identity \/ Create \/ Moves \/ Raise
    BY <2>1 DEF Identity, Create, Ready, ToTeardown, Moves, Record, Raise
  <2>2. CASE Delete \/ Await \/ DeleteLogs
    BY <2>2 DEF Delete, Await, InDeletion, StepRaises, DeleteLogs
  <2>3. CASE Wake \/ List \/ Checked \/ Summary \/ Die
    BY <2>3 DEF Wake, List, Checked, Summary, Die
  <2>4. CASE Sigterm \/ Vanish \/ Log \/ Export
    BY <2>4 DEF Sigterm, ToTeardown, Vanish, Log, Export
  <2>5. QED
    BY <2>1, <2>2, <2>3, <2>4 DEF Steps
<1>6. CloudOK'
  <2> USE DEF CloudOK
  <2>1. CASE Identity \/ Create \/ Moves \/ Raise
    BY <2>1, PlanEndsWithHarness
       DEF AtOK, Identity, Create, Ready, ToTeardown, Moves, Record, Raise
  <2>2. CASE Delete
    <3> DEFINE r == TeardownOrder[at]
    <3>1. /\ r \in Resources /\ known' \in {known, known \ {r}}
          /\ blamed' \in {blamed, blamed \cup {r}}
      BY <2>2, OrderFacts DEF AtOK, Delete, StepRaises
    <3>2. CASE r \in Awaited
      <4>1. /\ things' = things /\ known' = known
            /\ going' \in {going, going \cup ({r} \cap things)}
            /\ going' # going => r \in known
        BY <2>2, <3>2 DEF Delete, NextDeletion
      <4>2. QED
        BY <3>1, <3>2, <4>1
    <3>3. CASE r \notin Awaited
      <4>1. going' = going /\ things' \in {things, things \ {r}}
        BY <2>2, <3>3 DEF Delete
      <4>2. QED
        BY <3>1, <3>3, <4>1
    <3>4. QED
      BY <3>2, <3>3
  <2>3. CASE Await
    BY <2>3, OrderFacts DEF AtOK, Await, StepRaises
  <2>4. CASE DeleteLogs \/ Wake \/ List \/ Checked \/ Summary \/ Die
    BY <2>4 DEF DeleteLogs, StepRaises, Wake, List, Checked, Summary, Die
  <2>5. CASE Sigterm
    BY <2>5, PlanEndsWithHarness DEF AtOK, Sigterm, ToTeardown
  <2>6. CASE Vanish \/ Log \/ Export
    BY <2>6 DEF Vanish, Log, Export
  <2>7. QED
    BY <2>1, <2>2, <2>3, <2>4, <2>5, <2>6 DEF Steps
<1>7. TypeOK' <=> PcOK' /\ OutcomeOK' /\ AtOK' /\ CountsOK' /\ CloudOK'
  <2>1. ({heard, created, error, found, armed, shown} \subseteq BOOLEAN)'
           <=> /\ heard' \in BOOLEAN /\ created' \in BOOLEAN /\ error' \in BOOLEAN
               /\ found' \in BOOLEAN /\ armed' \in BOOLEAN /\ shown' \in BOOLEAN
    BY Zenon
  <2>2. QED
    BY <2>1 DEF TypeOK, PcOK, OutcomeOK, AtOK, CountsOK, CloudOK
<1>8. QED
  BY <1>2, <1>3, <1>4, <1>5, <1>6, <1>7

-----------------------------------------------------------------------------
(* The rest of the invariant, one conjunct at a time.                      *)

LEMMA ProvisionedKept ==
    ASSUME TypeOK, Provisioned, Steps
    PROVE  Provisioned'
<1>1. AtOK /\ CloudOK
  BY TypeParts
<1> USE PlanFacts, <1>1 DEF cloud, score, Provisioned, AtOK
<1>2. CASE Create
  <2>1. CASE pc' = "provision"
    <3>1. /\ at # 12 /\ at' = at + 1
          /\ things' = things \cup {Plan[at]} /\ known' = known \cup {Plan[at]}
          /\ created' = (created \/ Plan[at] = "harness")
          /\ late' = IF Plan[at] = "harness" THEN Exports ELSE late
          /\ blamed' = blamed /\ going' = going
      BY <1>2, <2>1 DEF Create, Ready, ToTeardown
    <3>2. Plan[at] # "harness"
      BY <1>2, <3>1, PlanEndsWithHarness DEF Create
    <3>3. pc = "provision" /\ at \in 1..12
      BY <1>2 DEF Create
    <3>4. \A i \in 1..(at' - 1) : i \in 1..(at - 1) \/ i = at
      BY <3>1, <3>3
    <3>5. \A i \in 1..(at' - 1) : Plan[i] \in things' /\ Plan[i] \in known'
      BY <3>1, <3>3, <3>4
    <3>6. /\ "harness" \notin things' \cup known' /\ blamed' = {} /\ going' = {}
          /\ late' = 0 /\ created' = FALSE
      BY <3>1, <3>2, <3>3
    <3>7. QED
      BY <2>1, <3>5, <3>6
  <2>2. CASE pc' = "use"
    <3>1. at = 12 /\ things' = things \cup {"harness"} /\ going' = going
      BY <1>2, <2>2 DEF Create, Ready, ToTeardown
    <3>2. Rails \subseteq things
      BY <1>2, <3>1, PlanEndsWithHarness DEF Create, Rails
    <3>3. QED
      BY <1>2, <2>2, <3>1, <3>2 DEF Create
  <2>3. CASE pc' \notin {"provision", "use"}
    BY <2>3
  <2>4. QED
    BY <2>1, <2>2, <2>3
<1>3. CASE Identity \/ Raise
  BY <1>3 DEF Identity, Raise, ToTeardown
<1>4. CASE Moves
  BY <1>4 DEF Moves, Record
<1>5. CASE Delete \/ Await \/ DeleteLogs \/ Wake \/ List \/ Checked \/ Summary \/ Sigterm \/ Die
  <2>1. pc' \notin {"provision", "use"}
    BY <1>5 DEF Delete, Await, NextDeletion, DeleteLogs, Wake, List, Checked, Summary,
              Sigterm, ToTeardown, Die
  <2>2. QED
    BY <2>1
<1>6. CASE Log
  BY <1>6, PlanEndsWithHarness DEF Log, Rails
<1>7. CASE Export
  BY <1>7, PlanEndsWithHarness DEF Export, Rails
<1>8. CASE Vanish
  BY <1>8 DEF Vanish
<1>9. QED
  BY <1>2, <1>3, <1>4, <1>5, <1>6, <1>7, <1>8 DEF Steps

LEMMA GuardedKept ==
    ASSUME TypeOK, Provisioned, Guarded, Owned, Steps
    PROVE  Guarded'
<1>1. AtOK /\ CloudOK /\ Rails \subseteq Resources
  BY TypeParts, PlanFacts
<1> USE PlanFacts, <1>1 DEF cloud, score, Provisioned, AtOK, CloudOK, Guarded, Rails
<1>2. CASE Create
  <2>1. CASE at = 12
    <3>1. Rails \subseteq things
      BY <1>2, <2>1, PlanEndsWithHarness DEF Create
    <3>2. QED
      BY <1>2, <2>1, <3>1 DEF Create, Ready, ToTeardown
  <2>2. CASE at # 12
    BY <1>2, <2>2, PlanEndsWithHarness DEF Create, Ready, ToTeardown
  <2>3. QED
    BY <2>1, <2>2
<1>3. CASE Identity \/ Raise
  BY <1>3 DEF Identity, Raise, ToTeardown
<1>4. CASE Moves
  BY <1>4 DEF Moves, Record
<1>5. CASE Delete
  <2>1. things' \subseteq things /\ blamed \subseteq blamed'
    BY <1>5 DEF Delete, StepRaises
  <2>2. CASE at = 1
    <3>1. /\ TeardownOrder[at] = "harness" /\ "harness" \in Awaited
          /\ Users("harness") = {}
      BY <2>2, OrderFacts DEF Awaited
    <3>2. CASE pc' = "await"
      BY <1>5, <2>1, <2>2, <3>1, <3>2 DEF Delete, NextDeletion
    <3>3. CASE "harness" \in blamed'
      BY <3>3
    <3>4. CASE "harness" \notin known
      BY <1>5, <2>1, <3>4, PlanFacts DEF Owned
    <3>5. QED
      BY <1>5, <3>1, <3>2, <3>3, <3>4 DEF Delete, StepRaises
  <2>3. CASE at # 1
    BY <1>5, <2>1, <2>3 DEF Delete
  <2>4. QED
    BY <2>2, <2>3
<1>6. CASE DeleteLogs \/ Wake \/ List \/ Checked \/ Summary
  <2>1. things' \subseteq things /\ blamed \subseteq blamed'
    BY <1>6 DEF DeleteLogs, StepRaises, Wake, List, Checked, Summary
  <2>2. ~("harness" \in things /\ "harness" \notin blamed)
    BY <1>6 DEF DeleteLogs, Wake, List, Checked, Summary
  <2>3. QED
    BY <2>1, <2>2
<1>7. CASE Sigterm \/ Die
  BY <1>7, PlanEndsWithHarness DEF Sigterm, ToTeardown, InTeardown, Die
<1>8. CASE Log \/ Export
  BY <1>8 DEF Log, Export
<1>9. CASE Await
  <2>1. /\ pc = "await" /\ things' = things /\ blamed \subseteq blamed'
        /\ TeardownOrder[at] \in blamed' \/ TeardownOrder[at] \notin things
    BY <1>9 DEF Await, StepRaises
  <2>2. QED
    BY <2>1
<1>10. CASE Vanish
  <2>1. /\ things' \subseteq things /\ going' \subseteq going
        /\ UNCHANGED <<pc, at, blamed>>
    BY <1>10 DEF Vanish
  <2>2. ASSUME "harness" \in things', "harness" \notin blamed'
        PROVE  FALSE
    <3>1. going \subseteq {"harness"}
      BY <2>1, <2>2
    <3>2. QED
      BY <1>10, <2>2, <3>1 DEF Vanish
  <2>3. QED
    BY <2>2
<1>11. QED
  BY <1>2, <1>3, <1>4, <1>5, <1>6, <1>7, <1>8, <1>9, <1>10 DEF Steps

LEMMA OwnedKept ==
    ASSUME TypeOK, Provisioned, Owned, Steps
    PROVE  Owned'
<1>1. AtOK /\ CloudOK
  BY TypeParts
<1> USE PlanFacts, <1>1 DEF cloud, score, AtOK, CloudOK, Owned, AfterDelete, AfterLoop
<1>2. CASE Create
  BY <1>2, PlanEndsWithHarness DEF Create, Ready, ToTeardown
<1>3. CASE Sigterm
  <2>1. CASE pc \in {"provision", "use"}
    BY <1>3, <2>1, PlanEndsWithHarness DEF Sigterm, ToTeardown
  <2>2. CASE pc \notin {"provision", "use"}
    <3>1. /\ UNCHANGED <<things, known, blamed>> /\ pc' \in {"aborted", "exited"}
          /\ pc' = "exited" => pc \in AfterDelete
      BY <1>3, <2>2 DEF Sigterm, ToTeardown, InTeardown
    <3>2. QED
      BY <3>1 DEF Explained
  <2>3. QED
    BY <2>1, <2>2
<1>4. CASE Identity \/ Raise
  BY <1>4 DEF Identity, Raise, ToTeardown
<1>5. CASE Moves
  BY <1>5 DEF Moves, Record
<1>6. CASE Delete \/ Await
  <2> DEFINE r == TeardownOrder[at]
             Holds(q) == q \in things' => blamed' \cap ({q} \cup Users(q)) # {}
  <2>1. /\ pc \in {"delete", "await"} /\ at \in 1..12 /\ r \in Resources
        /\ things' \subseteq things /\ blamed \subseteq blamed' /\ known' \subseteq known
        /\ things \cap Resources \subseteq known \cup blamed
        /\ \A i \in 1..(at - 1) : Explained(TeardownOrder[i])
    BY <1>6, OrderFacts DEF Delete, Await, StepRaises
  <2>2. things' \cap Resources \subseteq known' \cup blamed'
    BY <1>6 DEF Delete, Await, StepRaises
  <2>3. Holds(r) \/ pc' = "await"
    <3>1. CASE r \notin known
      BY <2>1, <3>1 DEF Explained
    <3>2. CASE r \notin things' \/ r \in blamed'
      BY <3>2 DEF Explained
    <3>3. CASE things \cap Users(r) # {}
      <4>1. PICK u \in Users(r) : u \in things
        BY <3>3
      <4>2. PICK j \in 1..(at - 1) : TeardownOrder[j] = u
        BY <2>1, <4>1, OrderFacts
      <4>3. blamed \cap ({u} \cup Users(u)) # {}
        BY <2>1, <4>1, <4>2 DEF Explained
      <4>4. {u} \cup Users(u) \subseteq {r} \cup Users(r)
        BY <2>1, <4>1, OrderFacts
      <4>5. QED
        BY <2>1, <4>3, <4>4 DEF Explained
    <3>4. QED
      BY <1>6, <3>1, <3>2, <3>3 DEF Delete, Await, StepRaises
  <2>4. \A i \in 1..(at - 1) : Holds(TeardownOrder[i])
    <3>1. \A q : Explained(q) => Holds(q)
      BY <2>1 DEF Explained
    <3>2. QED
      BY <2>1, <3>1
  <2>5. CASE pc' = "await"
    <3>1. at' = at
      BY <1>6, <2>5 DEF Delete, Await, NextDeletion
    <3>2. QED
      BY <2>2, <2>4, <2>5, <3>1 DEF Explained
  <2>6. CASE pc' # "await"
    <3>1. \A i \in 1..at : Holds(TeardownOrder[i])
      BY <2>1, <2>3, <2>4, <2>6
    <3>2. NextDeletion
      BY <1>6, <2>6 DEF Delete, Await
    <3>3. CASE at = 12
      <4>1. \A q \in Resources : Holds(q)
        BY <3>1, <3>3, OrderFacts
      <4>2. pc' = "logs"
        BY <3>2, <3>3 DEF NextDeletion
      <4>3. QED
        BY <2>2, <4>1, <4>2 DEF Explained
    <3>4. CASE at # 12
      <4>1. pc' = "delete" /\ at' = at + 1
        BY <3>2, <3>4 DEF NextDeletion
      <4>2. QED
        BY <2>1, <2>2, <3>1, <4>1 DEF Explained
    <3>5. QED
      BY <3>3, <3>4
  <2>7. QED
    BY <2>5, <2>6
<1>7. CASE DeleteLogs \/ Wake \/ List \/ Checked \/ Summary \/ Die
  <2>1. /\ things' \subseteq things /\ blamed \subseteq blamed' /\ known' = known
        /\ things' \cap Resources \subseteq things
    BY <1>7 DEF DeleteLogs, StepRaises, Wake, List, Checked, Summary, Die
  <2>2. pc' \in AfterDelete \cup {"dead"} /\ (pc' # "dead" => pc \in AfterDelete)
    BY <1>7 DEF DeleteLogs, Wake, List, Checked, Summary, Die, InTeardown, Final
  <2>3. \A q : Explained(q) => Explained(q)'
    BY <2>1 DEF Explained
  <2>4. pc' \notin {"delete", "await"}
    BY <2>2
  <2>5. QED
    BY <2>1, <2>2, <2>3, <2>4
<1>8. CASE Log \/ Export
  <2>1. /\ things' = things \cup {"logs"} /\ "logs" \notin Resources
        /\ UNCHANGED <<known, blamed, pc, at>>
    BY <1>8 DEF Log, Export
  <2>2. \A q \in Resources : Explained(q) => Explained(q)'
    BY <2>1 DEF Explained
  <2>3. QED
    BY <2>1, <2>2, OrderFacts
<1>9. CASE Vanish
  <2>1. things' \subseteq things /\ UNCHANGED <<known, blamed, pc, at>>
    BY <1>9 DEF Vanish
  <2>2. \A q : Explained(q) => Explained(q)'
    BY <2>1 DEF Explained
  <2>3. QED
    BY <2>1, <2>2
<1>10. QED
  BY <1>2, <1>3, <1>4, <1>5, <1>6, <1>7, <1>8, <1>9 DEF Steps

LEMMA LogsComeKept ==
    ASSUME TypeOK, Provisioned, Guarded, LogsCome, Steps
    PROVE  LogsCome'
<1>1. AtOK /\ CountsOK /\ OutcomeOK /\ CloudOK
  BY TypeParts
<1> USE PlanFacts, AgentCoreStackAssumption, <1>1
    DEF cloud, score, AtOK, CountsOK, OutcomeOK, LogsCome, AfterLoop
<1>2. CASE Create
  BY <1>2 DEF Create, Ready, ToTeardown
<1>3. CASE Sigterm
  BY <1>3 DEF Sigterm, ToTeardown, InTeardown, Provisioned
<1>4. CASE Identity \/ Raise
  BY <1>4 DEF Identity, Raise, ToTeardown
<1>5. CASE Moves
  BY <1>5 DEF Moves, Record
<1>6. CASE Delete \/ Await
  <2>1. "harness" \in things' \cup blamed' <=> "harness" \in things \cup blamed'
    <3>1. "harness" \in Awaited
      BY DEF Awaited
    <3>2. QED
      BY <1>6, <3>1 DEF Delete, Await
  <2>2. /\ pc' \in {"delete", "await", "logs"} /\ (pc' = "logs" => at' = 0)
        /\ late' = late /\ created' = created /\ known' \subseteq known
        /\ blamed \subseteq blamed'
    BY <1>6 DEF Delete, Await, NextDeletion, InDeletion, StepRaises
  <2>3. QED
    BY <2>1, <2>2
<1>7. CASE DeleteLogs
  <2>1. /\ pc = "logs" /\ late' = late /\ UNCHANGED <<known, created>>
        /\ "harness" \in things' <=> "harness" \in things
        /\ "harness" \in blamed' <=> "harness" \in blamed
    BY <1>7 DEF DeleteLogs, StepRaises
  <2>2. CASE pc' = "check"
    BY <1>7, <2>1, <2>2 DEF DeleteLogs, StepRaises, Settled, GoesOn
  <2>3. CASE pc' = "settle"
    BY <1>7, <2>1, <2>3 DEF DeleteLogs, GoesOn
  <2>4. QED
    BY <1>7, <2>2, <2>3 DEF DeleteLogs
<1>8. CASE Wake
  BY <1>8 DEF Wake
<1>9. CASE List \/ Checked \/ Summary \/ Die
  BY <1>9 DEF List, Checked, Summary, Die
<1>10. CASE Log
  BY <1>10 DEF Log
<1>11. CASE Export
  BY <1>11 DEF Export
<1>12. CASE Vanish
  <2>1. /\ things' \subseteq things
        /\ UNCHANGED <<pc, at, late, heard, known, created, blamed>>
    BY <1>12 DEF Vanish
  <2>2. CASE "harness" \in things /\ "harness" \notin things' \cup blamed
    <3>1. "harness" \in known
      BY <1>1, <1>12, <2>2 DEF Vanish, CloudOK, Inside
    <3>2. pc \in {"use", "aborted", "dead", "delete", "await"}
      BY <2>2 DEF Guarded
    <3>3. "logs" \in things' <=> "logs" \in things
      BY <1>1, <1>12, PlanFacts DEF Vanish, CloudOK, Inside
    <3>4. QED
      BY <2>1, <2>2, <3>1, <3>2, <3>3
  <2>3. CASE ~("harness" \in things /\ "harness" \notin things' \cup blamed)
    <3>1. "logs" \in things' <=> "logs" \in things
      BY <1>1, <1>12, PlanFacts DEF Vanish, CloudOK, Inside
    <3>2. QED
      BY <2>1, <2>3, <3>1
  <2>4. QED
    BY <2>2, <2>3
<1>13. QED
  BY <1>2, <1>3, <1>4, <1>5, <1>6, <1>7, <1>8, <1>9, <1>10, <1>11, <1>12 DEF Steps

LEMMA GoneKept ==
    ASSUME TypeOK, Guarded, LogsCome, Gone, Steps
    PROVE  Gone'
<1>1. AtOK /\ CountsOK /\ OutcomeOK
  BY TypeParts
<1> USE <1>1 DEF cloud, score, AtOK, CountsOK, OutcomeOK, Gone
<1>2. CASE Create \/ Identity \/ Raise
  BY <1>2 DEF Create, Ready, Identity, Raise, ToTeardown
<1>3. CASE Moves
  BY <1>3 DEF Moves, Record
<1>4. CASE Delete \/ Await \/ DeleteLogs \/ Wake
  BY <1>4 DEF Delete, Await, NextDeletion, InDeletion, DeleteLogs, Wake
<1>5. CASE List
  <2>1. found' = FALSE => things \subseteq {"logs"}
    BY <1>5, Zenon DEF List, Listed
  <2>2. QED
    BY <1>5, <2>1 DEF List
<1>6. CASE Checked \/ Summary
  BY <1>6 DEF Checked, Summary, FoundAny, LogsCome, AfterLoop
<1>7. CASE Sigterm \/ Die
  BY <1>7 DEF Sigterm, ToTeardown, InTeardown, Final, Die
<1>8. CASE Log
  BY <1>8 DEF Log
<1>9. CASE Export
  BY <1>9 DEF Export, LogsCome, AfterLoop
<1>10. CASE Vanish
  <2>1. things' \subseteq things /\ UNCHANGED <<pc, late, found, verdict, blamed>>
    BY <1>10 DEF Vanish
  <2>2. QED
    BY <2>1
<1>11. QED
  BY <1>2, <1>3, <1>4, <1>5, <1>6, <1>7, <1>8, <1>9, <1>10 DEF Steps

LEMMA SoundKept ==
    ASSUME TypeOK, Gone, Sound, Steps
    PROVE  Sound'
<1>1. OutcomeOK /\ AtOK
  BY TypeParts
<1> USE <1>1 DEF cloud, score, OutcomeOK, AtOK, Gone, Sound
<1>2. CASE Create \/ Identity \/ Raise
  <2>1. /\ verdict' = verdict
        /\ ~shown' \/ (pc' = "use" /\ at' = 1) \/ (pc = "provision" /\ shown' = shown)
    BY <1>2 DEF Create, Ready, Identity, Raise, ToTeardown
  <2>2. (pc' = "use" /\ at' = 1) => Proven(at - 1)' \/ \A i \in 1..(at' - 1) : FALSE
    OBVIOUS
  <2>3. verdict # "ok"
    BY <1>2 DEF Create, Identity, Raise
  <2>4. QED
    BY <2>1, <2>2, <2>3 DEF Proven
<1>3. CASE Moves
  <2>1. /\ pc = "use" /\ at \in 1..11 /\ verdict' = verdict /\ verdict # "ok"
        /\ pc' \in {"use", "delete"}
    BY <1>3 DEF Moves, Record
  <2>2. CASE UNCHANGED <<pc, at, shown, proved>>
    BY <2>1, <2>2 DEF Proven
  <2>3. CASE \E ok, real \in BOOLEAN : /\ Record(ok, real)
                                       /\ InOrder /\ ok => real \/ Scenario = "gap"
    <3>1. PICK ok \in BOOLEAN, real \in BOOLEAN :
             Record(ok, real) /\ (InOrder /\ ok => real \/ Scenario = "gap")
      BY <2>3
    <3> SUFFICES ASSUME InOrder, shown'
                 PROVE  Proven(IF pc = "use" THEN at - 1 ELSE 11)'
      BY <2>1
    <3>2. /\ shown /\ ok
          /\ proved' = IF real THEN proved \cup {Scenario} ELSE proved
          /\ IF at < 11 THEN pc' = "use" /\ at' = at + 1 ELSE pc' = "delete"
      BY <2>1, <3>1, PlanFacts DEF Record
    <3>3. \A i \in 1..(at - 1) : Scenarios[i] \in proved' \cup {"gap"}
      BY <2>1, <3>2 DEF Proven
    <3>4. Scenarios[at] \in proved' \cup {"gap"}
      BY <3>1, <3>2 DEF Scenario
    <3>5. \A i \in 1..at : i \in 1..(at - 1) \/ i = at
      BY <2>1
    <3>6. \A i \in 1..at : Scenarios[i] \in proved' \cup {"gap"}
      BY <3>3, <3>4, <3>5
    <3>7. (IF pc = "use" THEN at - 1 ELSE 11)' = at
      BY <2>1, <3>2
    <3>8. QED
      BY <3>6, <3>7 DEF Proven
  <2>4. QED
    BY <1>3, <2>2, <2>3 DEF Moves
<1>4. CASE Delete \/ Await \/ DeleteLogs \/ Wake \/ List
  <2>1. /\ shown' = shown /\ proved' = proved /\ verdict' = verdict
        /\ pc \notin {"provision", "use", "done", "dead"} /\ pc' \notin {"provision", "use"}
    BY <1>4 DEF Delete, Await, NextDeletion, InDeletion, DeleteLogs, Wake, List
  <2>2. Proven(11)' <=> Proven(11)
    BY <2>1 DEF Proven
  <2>3. QED
    BY <2>1, <2>2
<1>5. CASE Checked \/ Summary
  BY <1>5 DEF Checked, Summary, Proven
<1>6. CASE Sigterm
  <2>1. /\ pc \notin Final /\ verdict' = verdict /\ pc' \notin {"provision", "use"}
        /\ ~shown' \/ (pc \notin {"provision", "use"} /\ UNCHANGED <<shown, proved>>)
    BY <1>6 DEF Sigterm, ToTeardown, InTeardown
  <2>2. QED
    BY <2>1 DEF Proven, Final
<1>7. CASE Die \/ Vanish \/ Log \/ Export
  <2>1. /\ UNCHANGED <<shown, proved, verdict>>
        /\ (pc' = "dead" /\ pc # "done") \/ UNCHANGED <<pc, at>>
    BY <1>7 DEF Final, Die, Vanish, Log, Export
  <2>2. CASE pc' = "dead" /\ pc # "done"
    BY <2>1, <2>2
  <2>3. CASE UNCHANGED <<pc, at>>
    <3>1. Proven(11)' <=> Proven(11)
      BY <2>1 DEF Proven
    <3>2. Proven(at - 1)' <=> Proven(at - 1)
      BY <2>1, <2>3 DEF Proven
    <3>3. QED
      BY <2>1, <2>3, <3>1, <3>2
  <2>4. QED
    BY <2>1, <2>2, <2>3
<1>8. QED
  BY <1>2, <1>3, <1>4, <1>5, <1>6, <1>7 DEF Steps

-----------------------------------------------------------------------------
(* The invariant that carries all the others: what exists is accounted for *)
(* at every step of the deletion, and a late log always has a round left.  *)
THEOREM StackInvariant == Spec => []IInv
<1>1. ASSUME Init PROVE IInv
  <2> USE <1>1, PlanFacts, AgentCoreStackAssumption DEF Init
  <2>1. TypeOK
    <3>1. PcOK /\ OutcomeOK /\ CloudOK
      BY DEF PcOK, OutcomeOK, CloudOK
    <3>2. AtOK /\ CountsOK
      BY DEF AtOK, CountsOK
    <3>3. QED
      BY <3>1, <3>2, TypeParts
  <2>2. Provisioned /\ Guarded /\ Owned
    BY DEF Provisioned, Guarded, Owned, AfterDelete, AfterLoop
  <2>3. LogsCome /\ Gone /\ Sound
    BY DEF LogsCome, AfterLoop, Gone, Sound
  <2>4. QED
    BY <2>1, <2>2, <2>3 DEF IInv
<1>2. ASSUME IInv, [Next]_vars PROVE IInv'
  <2>1. CASE Next
    <3>1. Steps
      BY <2>1, NextSteps
    <3>2. QED
      BY <1>2, <3>1, TypesKept, ProvisionedKept, GuardedKept, OwnedKept, LogsComeKept,
         GoneKept, SoundKept DEF IInv
  <2>2. CASE UNCHANGED vars
    BY <1>2, <2>2
       DEF IInv, vars, cloud, score, TypeOK, Provisioned, Guarded, Owned, Explained,
           LogsCome, Gone, Sound, Proven
  <2>3. QED
    BY <1>2, <2>1, <2>2
<1>3. QED
  BY <1>1, <1>2, PTL DEF Spec

(* The index of provision, scenarios and deletions never leaves its list,  *)
(* and the log groups settle at most log_settle_rounds times.              *)
THEOREM StackTypes == Spec => []TypeOK
<1>1. IInv => TypeOK
  BY DEF IInv
<1>2. QED
  BY <1>1, StackInvariant, PTL

(* Clean stays clean: nothing that teardown or main took for gone comes    *)
(* back, for any number of settle rounds and of exports up to it, unless a *)
(* call about the harness or the logs failed; and then only logs do.       *)
THEOREM CleanIsClean == Spec => []CleanMeansGone
<1>1. IInv => CleanMeansGone
  BY PlanFacts DEF IInv, TypeOK, Gone, CleanMeansGone
<1>2. QED
  BY <1>1, StackInvariant, PTL

(* After the deletions, what is left has a failed call to blame.           *)
THEOREM LeftoversExplained == Spec => []LeftoverExplained
<1>1. IInv => LeftoverExplained
  BY DEF IInv, Owned, Explained, LeftoverExplained, AfterDelete, AfterLoop
<1>2. QED
  BY <1>1, StackInvariant, PTL

(* The harness does not exist without its hook, its table and its rules,   *)
(* unless its own creation or deletion failed.                             *)
THEOREM AgentIsGuarded == Spec => []NeverUnguarded
<1>1. IInv => NeverUnguarded
  BY DEF IInv, Guarded, NeverUnguarded, Rails
<1>2. QED
  BY <1>1, StackInvariant, PTL

(* Exit code 0 means that every layer decided as it should, if the hook is *)
(* asked about the calls in the order in which they are read.              *)
THEOREM OkIsProved ==
    ASSUME InOrder
    PROVE  Spec => []OkMeansProved
<1>1. IInv => OkMeansProved
  <2> SUFFICES ASSUME IInv, verdict = "ok"
               PROVE  Range(Scenarios) \ {"gap"} \subseteq proved
    BY DEF OkMeansProved
  <2>1. Proven(11)
    BY DEF IInv, Sound
  <2>2. Range(Scenarios) = {Scenarios[i] : i \in 1..11}
    BY PlanFacts DEF Range
  <2>3. QED
    BY <2>1, <2>2 DEF Proven
<1>2. QED
  BY <1>1, StackInvariant, PTL

(* No layer lets through what it does not understand.                      *)
THEOREM LayersAreClosed == Spec => []LayersFailClosed
<1>1. LayersFailClosed
  BY HookIsClosed, GateIsClosed DEF LayersFailClosed
<1>2. QED
  BY <1>1, PTL

-----------------------------------------------------------------------------
(* The stream of events.                                                   *)

Call == [key : [isText : {FALSE}, msg : Nat, index : Indexes],
         at : Nat, input : Seq(Nat)]

ReadStates == [msg : Nat \cup Messages, isText : BOOLEAN, calls : Seq(Call),
               raised : {FALSE}]

Sent(events) == events \in Seq(Events) /\ WellSent(events) /\ ErrorsLast(events)

(* What the first n events are, by position.                               *)
Quiet(events, n) == \A m \in 1..n : events[m].ev # "error"

StartsTo(events, n) == {m \in 1..n : events[m].ev = "contentBlockStart"}

PiecesTo(events, n, m) ==
    {k \in 1..n : events[k].ev = "contentBlockDelta" /\ StartOf(events, k) = {m}}

KeyOf(events, m) ==
    [isText |-> FALSE, msg |-> MessageOf(events, m), index |-> events[m].n]

(* The state s has read the first n events right.                          *)
HasRead(events, n, s) ==
    /\ s \in ReadStates
    /\ Quiet(events, n) => ~s.isText /\ s.msg = MessageOf(events, n)
    /\ {s.calls[c].at : c \in DOMAIN s.calls} = StartsTo(events, n)
    /\ \A c \in DOMAIN s.calls : s.calls[c].key = KeyOf(events, s.calls[c].at)
    /\ \A c, d \in DOMAIN s.calls : c < d =>
          s.calls[c].at < s.calls[d].at /\ Before(s.calls[c].key, s.calls[d].key)
    /\ \A c \in DOMAIN s.calls :
          Lists(s.calls[c].input, PiecesTo(events, n, s.calls[c].at))

LEMMA EventFacts ==
    ASSUME NEW e \in Events
    PROVE  /\ e.ev \in {"messageStart", "error", "contentBlockStart", "contentBlockDelta"}
           /\ e.ev \in {"messageStart", "error"} => e.n \in Messages
           /\ e.ev \in {"contentBlockStart", "contentBlockDelta"} =>
                 e.n \in Indexes /\ e.n \in Nat
  BY StreamAssumption DEF Events

(* Messages are counted as they come.                                      *)
LEMMA MessageFacts ==
    ASSUME NEW events, NEW n \in Nat
    PROVE  /\ MessageOf(events, n) \in Nat
           /\ MessageOf(events, 0) = 0
           /\ MessageOf(events, n + 1) =
                 IF events[n + 1].ev = "messageStart" THEN MessageOf(events, n) + 1
                 ELSE MessageOf(events, n)
           /\ \A m \in 0..n : MessageOf(events, m) \in Nat
                              /\ MessageOf(events, m) <= MessageOf(events, n)
<1> DEFINE M(k) == {m \in 1..k : events[m].ev = "messageStart"}
<1>1. \A k \in Nat : IsFiniteSet(M(k)) /\ Cardinality(M(k)) \in Nat
  <2> TAKE k \in Nat
  <2>1. IsFiniteSet(1..k) /\ M(k) \in SUBSET (1..k)
    BY FS_Interval
  <2> QED
    BY <2>1, FS_Subset, FS_CardinalityType
<1>2. M(0) = {}
  OBVIOUS
<1>3. M(n + 1) = IF events[n + 1].ev = "messageStart" THEN M(n) \cup {n + 1} ELSE M(n)
  OBVIOUS
<1>4. n + 1 \notin M(n)
  OBVIOUS
<1>5. \A m \in 0..n : M(m) \in SUBSET M(n)
  OBVIOUS
<1>6. \A k : MessageOf(events, k) = Cardinality(M(k))
  BY DEF MessageOf
<1> HIDE DEF M
<1>7. Cardinality(M(n + 1)) =
         IF events[n + 1].ev = "messageStart" THEN Cardinality(M(n)) + 1
         ELSE Cardinality(M(n))
  BY <1>1, <1>3, <1>4, FS_AddElement
<1>8. \A m \in 0..n : Cardinality(M(m)) <= Cardinality(M(n))
  BY <1>1, <1>5, FS_Subset
<1> QED
  BY <1>1, <1>2, <1>6, <1>7, <1>8, FS_EmptySet

(* What one more event adds.                                               *)
LEMMA GrowFacts ==
    ASSUME NEW events, NEW n \in Nat
    PROVE  /\ Quiet(events, n + 1) <=> Quiet(events, n) /\ events[n + 1].ev # "error"
           /\ StartsTo(events, n + 1) =
                 IF events[n + 1].ev = "contentBlockStart"
                 THEN StartsTo(events, n) \cup {n + 1} ELSE StartsTo(events, n)
           /\ \A m : PiecesTo(events, n + 1, m) =
                 IF /\ events[n + 1].ev = "contentBlockDelta"
                    /\ StartOf(events, n + 1) = {m}
                 THEN PiecesTo(events, n, m) \cup {n + 1} ELSE PiecesTo(events, n, m)
<1>1. 1..(n + 1) = (1..n) \cup {n + 1}
  OBVIOUS
<1> QED
  BY <1>1 DEF Quiet, StartsTo, PiecesTo

(* One more message, or an error, touches no call.                         *)
LEMMA ReadsNoCall ==
    ASSUME NEW events, NEW n \in Nat, NEW s, NEW t \in ReadStates,
           HasRead(events, n, s), t.calls = s.calls,
           events[n + 1].ev \notin {"contentBlockStart", "contentBlockDelta"},
           Quiet(events, n + 1) => ~t.isText /\ t.msg = MessageOf(events, n + 1)
    PROVE  HasRead(events, n + 1, t)
<1>1. /\ StartsTo(events, n + 1) = StartsTo(events, n)
      /\ \A m : PiecesTo(events, n + 1, m) = PiecesTo(events, n, m)
  BY GrowFacts
<1> QED
  BY <1>1 DEF HasRead

(* What a list of numbers grows by at its end.                             *)
LEMMA ListGrows ==
    ASSUME NEW s \in Seq(Nat), NEW n \in Nat, NEW S \in SUBSET (1..n), Lists(s, S)
    PROVE  Lists(Append(s, n + 1), S \cup {n + 1})
<1> DEFINE r == Append(s, n + 1)
<1>1. /\ Len(s) \in Nat /\ DOMAIN s = 1..Len(s) /\ DOMAIN r = 1..(Len(s) + 1)
      /\ \A i \in 1..Len(s) : r[i] = s[i]
      /\ r[Len(s) + 1] = n + 1
  BY AppendProperties, LenProperties
<1> HIDE DEF r
<1>2. \A i \in 1..Len(s) : s[i] \in S /\ s[i] \in 1..n
  BY <1>1 DEF Lists
<1>3. {r[i] : i \in DOMAIN r} = S \cup {n + 1}
  <2>1. DOMAIN r = (1..Len(s)) \cup {Len(s) + 1}
    BY <1>1
  <2>2. {s[i] : i \in 1..Len(s)} = S
    BY <1>1 DEF Lists
  <2> QED
    BY <1>1, <2>1, <2>2
<1>4. ASSUME NEW i \in DOMAIN r, NEW j \in DOMAIN r, i < j
      PROVE  r[i] < r[j]
  <2>1. i \in 1..Len(s) /\ r[i] = s[i]
    BY <1>1, <1>4
  <2>2. CASE j \in 1..Len(s)
    BY <1>1, <1>4, <2>1, <2>2 DEF Lists
  <2>3. CASE j = Len(s) + 1
    BY <1>1, <1>2, <2>1, <2>3
  <2> QED
    BY <1>1, <2>2, <2>3
<1> QED
  BY <1>3, <1>4 DEF Lists, r

(* No message event follows an error, so the counter is a number.          *)
LEMMA QuietSoFar ==
    ASSUME NEW events, Sent(events), NEW n \in Nat, n + 1 \in DOMAIN events,
           events[n + 1].ev # "error"
    PROVE  Quiet(events, n + 1)
<1>1. DOMAIN events = 1..Len(events) /\ Len(events) \in Nat
  BY LenProperties DEF Sent
<1>2. \A m \in 1..(n + 1) : m \in DOMAIN events /\ m <= n + 1
  BY <1>1
<1> QED
  BY <1>1, <1>2 DEF Sent, ErrorsLast, Quiet

(* The first event of a block appends a call.                              *)
LEMMA ReadsStart ==
    ASSUME NEW events, Sent(events), NEW n \in Nat, n + 1 \in DOMAIN events,
           NEW s, HasRead(events, n, s), events[n + 1].ev = "contentBlockStart"
    PROVE  HasRead(events, n + 1, Fold(s, events[n + 1], n + 1))
<1> DEFINE key == KeyOf(events, n + 1)
           new == [key |-> key, at |-> n + 1, input |-> << >>]
           r == Append(s.calls, new)
           L == Len(s.calls)
<1>1. /\ events[n + 1] \in Events /\ events[n + 1].n \in Indexes
      /\ events[n + 1].n \in Nat
  <2>1. events[n + 1] \in Events
    BY ElementOfSeq, LenProperties DEF Sent
  <2> QED
    BY <2>1, EventFacts
<1>2. Quiet(events, n) /\ Quiet(events, n + 1)
  BY QuietSoFar, GrowFacts
<1>3. /\ s \in ReadStates /\ s.calls \in Seq(Call) /\ ~s.isText /\ s.isText = FALSE
      /\ s.msg = MessageOf(events, n) /\ s.raised = FALSE
  BY <1>2 DEF HasRead, ReadStates
<1>4. /\ MessageOf(events, n + 1) = MessageOf(events, n) /\ MessageOf(events, n) \in Nat
      /\ \A m \in 0..n : /\ MessageOf(events, m) \in Nat
                         /\ MessageOf(events, m) <= MessageOf(events, n)
  BY MessageFacts
<1>5. CallKey(s, events[n + 1].n) = key
  BY <1>3, <1>4 DEF CallKey, KeyOf
<1>6. L \in Nat /\ DOMAIN s.calls = 1..L
  BY <1>3, LenProperties
<1>7. \A c \in 1..L :
         /\ s.calls[c] \in Call /\ s.calls[c].at \in 1..n
         /\ s.calls[c].key = KeyOf(events, s.calls[c].at)
         /\ Before(s.calls[c].key, key)
  <2> TAKE c \in 1..L
  <2>1. s.calls[c].at \in StartsTo(events, n) /\ s.calls[c].key = KeyOf(events, s.calls[c].at)
    BY <1>6 DEF HasRead
  <2>2. PICK m : m = s.calls[c].at
    OBVIOUS
  <2>3. m \in 1..n /\ m \in 0..n /\ events[m].ev = "contentBlockStart"
    BY <2>1, <2>2 DEF StartsTo
  <2>4. MessageOf(events, m) = MessageOf(events, n + 1) => events[m].n < events[n + 1].n
    <3>1. m \in 1..((n + 1) - 1)
      BY <2>3
    <3> QED
      BY <2>3, <3>1 DEF Sent, WellSent
  <2>5. MessageOf(events, m) \in Nat /\ MessageOf(events, m) <= MessageOf(events, n)
    BY <1>4, <2>3
  <2>6. Before(KeyOf(events, m), key)
    BY <1>4, <2>4, <2>5 DEF Before, KeyOf
  <2>7. s.calls[c] \in Call
    BY <1>3, <1>6, ElementOfSeq
  <2> QED
    BY <2>1, <2>2, <2>3, <2>6, <2>7
<1>8. ~Before(key, key)
  BY <1>1, <1>4 DEF Before, KeyOf
<1>9. {c \in DOMAIN s.calls : s.calls[c].key = key} = {}
  <2> HIDE DEF key
  <2> QED
    BY <1>6, <1>7, <1>8
<1>10. Fold(s, events[n + 1], n + 1) = [s EXCEPT !.calls = r]
  <2> HIDE DEF key
  <2> QED
    BY <1>5, <1>9 DEF Fold
<1>11. PICK t : t = [s EXCEPT !.calls = r]
  OBVIOUS
<1>12. new \in Call
  <2>1. key \in [isText : {FALSE}, msg : Nat, index : Indexes]
    BY <1>1, <1>4 DEF KeyOf
  <2>2. n + 1 \in Nat /\ << >> \in Seq(Nat)
    OBVIOUS
  <2> HIDE DEF key
  <2> QED
    BY <2>1, <2>2 DEF Call
<1>13. /\ r \in Seq(Call) /\ DOMAIN r = 1..(L + 1)
       /\ \A i \in 1..L : r[i] = s.calls[i]
       /\ r[L + 1] = new
  <2> HIDE DEF new
  <2> QED
    BY <1>3, <1>12, AppendProperties, LenProperties
<1>14. /\ new.key = key /\ new.at = n + 1 /\ new.input = << >>
  OBVIOUS
<1> HIDE DEF r, new, key, L
<1>15. /\ t \in ReadStates /\ t.calls = r /\ t.msg = s.msg /\ ~t.isText
  BY <1>3, <1>11, <1>13 DEF ReadStates
<1>16. {r[c].at : c \in DOMAIN r} = StartsTo(events, n + 1)
  <2>1. {s.calls[c].at : c \in 1..L} = StartsTo(events, n)
    BY <1>6 DEF HasRead
  <2>2. StartsTo(events, n + 1) = StartsTo(events, n) \cup {n + 1}
    BY GrowFacts
  <2>3. DOMAIN r = (1..L) \cup {L + 1}
    BY <1>6, <1>13
  <2> QED
    BY <1>13, <1>14, <2>1, <2>2, <2>3
<1>17. \A c \in DOMAIN r : r[c].key = KeyOf(events, r[c].at)
  BY <1>6, <1>7, <1>13, <1>14 DEF key
<1>18. ASSUME NEW c \in DOMAIN r, NEW d \in DOMAIN r, c < d
       PROVE  r[c].at < r[d].at /\ Before(r[c].key, r[d].key)
  <2>1. c \in 1..L /\ r[c] = s.calls[c]
    BY <1>6, <1>13, <1>18
  <2>2. CASE d \in 1..L
    BY <1>6, <1>13, <1>18, <2>1, <2>2 DEF HasRead
  <2>3. CASE d = L + 1
    BY <1>7, <1>13, <1>14, <2>1, <2>3
  <2> QED
    BY <1>6, <1>13, <2>2, <2>3
<1>19. ASSUME NEW c \in DOMAIN r
       PROVE  Lists(r[c].input, PiecesTo(events, n + 1, r[c].at))
  <2>1. \A m : PiecesTo(events, n + 1, m) = PiecesTo(events, n, m)
    BY GrowFacts
  <2>2. CASE c \in 1..L
    BY <1>6, <1>13, <2>1, <2>2 DEF HasRead
  <2>3. CASE c = L + 1
    <3>1. PiecesTo(events, n, n + 1) = {}
      <4>1. \A k \in 1..n : StartOf(events, k) \in SUBSET (1..k)
        BY DEF StartOf
      <4>2. \A k \in 1..n : n + 1 \notin 1..k
        OBVIOUS
      <4> QED
        BY <4>1, <4>2 DEF PiecesTo
    <3>2. Lists(<< >>, {})
      BY DEF Lists
    <3> QED
      BY <1>13, <1>14, <2>1, <2>3, <3>1, <3>2
  <2> QED
    BY <1>6, <1>13, <2>2, <2>3
<1>20. HasRead(events, n + 1, t)
  BY <1>3, <1>4, <1>15, <1>16, <1>17, <1>18, <1>19 DEF HasRead
<1> QED
  BY <1>10, <1>11, <1>20

(* A later piece of a block goes to the call that its block started.       *)
LEMMA ReadsDelta ==
    ASSUME NEW events, Sent(events), NEW n \in Nat, n + 1 \in DOMAIN events,
           NEW s, HasRead(events, n, s), events[n + 1].ev = "contentBlockDelta"
    PROVE  HasRead(events, n + 1, Fold(s, events[n + 1], n + 1))
<1> DEFINE key == KeyOf(events, n + 1)
           L == Len(s.calls)
<1>1. /\ events[n + 1] \in Events /\ events[n + 1].n \in Indexes
      /\ events[n + 1].n \in Nat
  <2>1. events[n + 1] \in Events
    BY ElementOfSeq, LenProperties DEF Sent
  <2> QED
    BY <2>1, EventFacts
<1>2. Quiet(events, n) /\ Quiet(events, n + 1)
  BY QuietSoFar, GrowFacts
<1>3. /\ s \in ReadStates /\ s.calls \in Seq(Call) /\ ~s.isText /\ s.isText = FALSE
      /\ s.msg = MessageOf(events, n) /\ s.raised = FALSE
  BY <1>2 DEF HasRead, ReadStates
<1>4. /\ MessageOf(events, n + 1) = MessageOf(events, n) /\ MessageOf(events, n) \in Nat
      /\ \A m \in 0..n : /\ MessageOf(events, m) \in Nat
                         /\ MessageOf(events, m) <= MessageOf(events, n)
  BY MessageFacts
<1>5. CallKey(s, events[n + 1].n) = key
  BY <1>3, <1>4 DEF CallKey, KeyOf
<1>6. L \in Nat /\ DOMAIN s.calls = 1..L
  BY <1>3, LenProperties
<1>7. \A c \in 1..L : /\ s.calls[c] \in Call /\ s.calls[c].at \in StartsTo(events, n)
                      /\ s.calls[c].key = KeyOf(events, s.calls[c].at)
  <2> TAKE c \in 1..L
  <2>1. s.calls[c].at \in StartsTo(events, n) /\ s.calls[c].key = KeyOf(events, s.calls[c].at)
    BY <1>6 DEF HasRead
  <2>2. s.calls[c] \in Call
    BY <1>3, <1>6, ElementOfSeq
  <2> QED
    BY <2>1, <2>2
<1>8. \A m \in StartOf(events, n + 1) : m \in StartsTo(events, n) /\ KeyOf(events, m) = key
  <2> TAKE m \in StartOf(events, n + 1)
  <2>1. /\ m \in 1..(n + 1) /\ events[m].ev = "contentBlockStart" /\ m # n + 1
        /\ MessageOf(events, m) = MessageOf(events, n + 1)
        /\ events[m].n = events[n + 1].n
    BY DEF StartOf
  <2>2. m \in 1..n
    BY <2>1
  <2> QED
    BY <2>1, <2>2 DEF StartsTo, KeyOf
<1>9. PICK b \in 1..L : s.calls[b].at \in StartOf(events, n + 1)
  <2>1. StartOf(events, n + 1) # {}
    BY DEF Sent, WellSent
  <2>2. {s.calls[c].at : c \in 1..L} = StartsTo(events, n)
    BY <1>6 DEF HasRead
  <2> QED
    BY <1>8, <2>1, <2>2
<1>10. PICK m : m = s.calls[b].at
  OBVIOUS
<1>11. s.calls[b].key = key
  BY <1>7, <1>8, <1>9
<1>12. \A c \in 1..L : s.calls[c].key = key => c = b
  <2> TAKE c \in 1..L
  <2>1. ~Before(key, key)
    BY <1>1, <1>4 DEF Before, KeyOf
  <2> HIDE DEF key
  <2>2. c < b => Before(s.calls[c].key, s.calls[b].key)
    BY <1>6 DEF HasRead
  <2>3. b < c => Before(s.calls[b].key, s.calls[c].key)
    BY <1>6 DEF HasRead
  <2>4. c < b \/ b < c \/ c = b
    BY <1>6
  <2> QED
    BY <1>11, <2>1, <2>2, <2>3, <2>4
<1>13. StartOf(events, n + 1) = {m}
  <2> SUFFICES ASSUME NEW k \in StartOf(events, n + 1) PROVE k = m
    BY <1>9, <1>10
  <2>1. {s.calls[c].at : c \in 1..L} = StartsTo(events, n)
    BY <1>6 DEF HasRead
  <2>2. PICK c \in 1..L : s.calls[c].at = k
    BY <1>8, <2>1
  <2>3. s.calls[c].key = key
    BY <1>7, <1>8, <2>2
  <2> HIDE DEF key
  <2> QED
    BY <1>10, <1>12, <2>2, <2>3
<1>14. \A c \in 1..L : c # b => s.calls[c].at # m
  <2> TAKE c \in 1..L
  <2> HAVE c # b
  <2>1. \A d, f \in 1..L : d < f => s.calls[d].at < s.calls[f].at
    BY <1>6 DEF HasRead
  <2>2. \A d \in 1..L : s.calls[d].at \in Nat
    BY <1>7 DEF Call
  <2>3. c < b \/ b < c
    BY <1>6
  <2> QED
    BY <1>10, <2>1, <2>2, <2>3
<1> DEFINE call == [s.calls[b] EXCEPT !.input = Append(@, n + 1)]
           r == [c \in 1..L |-> IF c = b THEN call ELSE s.calls[c]]
<1>15. {c \in DOMAIN s.calls : s.calls[c].key = key} = {b}
  <2> HIDE DEF key
  <2> QED
    BY <1>6, <1>11, <1>12
<1>16. Fold(s, events[n + 1], n + 1) = [s EXCEPT !.calls = r]
  <2> DEFINE old == {c \in DOMAIN s.calls : s.calls[c].key = key}
             q == [c \in DOMAIN s.calls |->
                     IF c \in old THEN [s.calls[c] EXCEPT !.input = Append(@, n + 1)]
                     ELSE s.calls[c]]
  <2>1. Fold(s, events[n + 1], n + 1) = [s EXCEPT !.calls = q]
    <3>1. q = WithPiece(s.calls, old, n + 1)
      BY DEF WithPiece
    <3> HIDE DEF key, q
    <3>2. Fold(s, events[n + 1], n + 1) = [s EXCEPT !.calls = WithPiece(s.calls, old, n + 1)]
      BY <1>5 DEF Fold
    <3> QED
      BY <3>1, <3>2
  <2>2. q = r
    <3> HIDE DEF key
    <3>1. old = {b}
      BY <1>15
    <3> HIDE DEF old
    <3> QED
      BY <1>6, <3>1
  <2> HIDE DEF q, r, key
  <2> QED
    BY <2>1, <2>2
<1>17. PICK t : t = [s EXCEPT !.calls = r]
  OBVIOUS
<1>18. /\ s.calls[b].input \in Seq(Nat) /\ Append(s.calls[b].input, n + 1) \in Seq(Nat)
  <2>1. s.calls[b].input \in Seq(Nat)
    BY <1>7 DEF Call
  <2> QED
    BY <2>1, AppendProperties
<1>19. PICK input : input = Append(s.calls[b].input, n + 1)
  OBVIOUS
<1>20. /\ call \in Call /\ call.key = key /\ call.at = m /\ call.input = input
  <2>1. s.calls[b] \in Call /\ input \in Seq(Nat)
    BY <1>7, <1>18, <1>19
  <2>2. call = [s.calls[b] EXCEPT !.input = input]
    BY <1>19
  <2> HIDE DEF call, key
  <2> QED
    BY <1>10, <1>11, <2>1, <2>2 DEF Call
<1> HIDE DEF call
<1>21. /\ r \in Seq(Call) /\ DOMAIN r = 1..L /\ r[b] = call
       /\ \A c \in 1..L : c # b => r[c] = s.calls[c]
  <2>1. \A c \in 1..L : r[c] \in Call
    BY <1>7, <1>20
  <2>2. r \in [1..L -> Call]
    BY <2>1
  <2> QED
    BY <1>6, <2>2
<1>22. \A c \in 1..L : r[c].key = s.calls[c].key /\ r[c].at = s.calls[c].at
  BY <1>10, <1>11, <1>20, <1>21
<1> HIDE DEF r, key, L
<1>23. t \in ReadStates /\ t.calls = r /\ t.msg = s.msg /\ ~t.isText
  BY <1>3, <1>17, <1>21 DEF ReadStates
<1>24. {r[c].at : c \in DOMAIN r} = StartsTo(events, n + 1)
  <2>1. {s.calls[c].at : c \in 1..L} = StartsTo(events, n)
    BY <1>6 DEF HasRead
  <2>2. StartsTo(events, n + 1) = StartsTo(events, n)
    BY GrowFacts
  <2> QED
    BY <1>21, <1>22, <2>1, <2>2
<1>25. \A c \in DOMAIN r : r[c].key = KeyOf(events, r[c].at)
  BY <1>7, <1>21, <1>22
<1>26. ASSUME NEW c \in DOMAIN r, NEW d \in DOMAIN r, c < d
       PROVE  r[c].at < r[d].at /\ Before(r[c].key, r[d].key)
  BY <1>6, <1>21, <1>22, <1>26 DEF HasRead
<1>27. ASSUME NEW c \in DOMAIN r
       PROVE  Lists(r[c].input, PiecesTo(events, n + 1, r[c].at))
  <2>1. Lists(s.calls[c].input, PiecesTo(events, n, s.calls[c].at))
    BY <1>6, <1>21 DEF HasRead
  <2>2. CASE c = b
    <3>1. PiecesTo(events, n + 1, m) = PiecesTo(events, n, m) \cup {n + 1}
      BY <1>13, GrowFacts
    <3>2. PiecesTo(events, n, m) \in SUBSET (1..n)
      BY DEF PiecesTo
    <3>3. Lists(s.calls[b].input, PiecesTo(events, n, m))
      BY <1>10, <2>1, <2>2
    <3>4. Lists(input, PiecesTo(events, n, m) \cup {n + 1})
      BY <1>18, <1>19, <3>2, <3>3, ListGrows
    <3> QED
      BY <1>20, <1>21, <2>2, <3>1, <3>4
  <2>3. CASE c # b
    <3>1. r[c] = s.calls[c] /\ s.calls[c].at # m
      BY <1>14, <1>21, <2>3
    <3>2. StartOf(events, n + 1) # {s.calls[c].at}
      BY <1>13, <3>1
    <3>3. PiecesTo(events, n + 1, s.calls[c].at) = PiecesTo(events, n, s.calls[c].at)
      BY <3>2, GrowFacts
    <3> QED
      BY <2>1, <3>1, <3>3
  <2> QED
    BY <2>2, <2>3
<1>28. HasRead(events, n + 1, t)
  BY <1>3, <1>4, <1>23, <1>24, <1>25, <1>26, <1>27 DEF HasRead
<1> QED
  BY <1>16, <1>17, <1>28

(* Every event of a stream that the service sends is read right.           *)
LEMMA ReadsStep ==
    ASSUME NEW events, Sent(events), NEW n \in Nat, n + 1 \in DOMAIN events,
           NEW s, HasRead(events, n, s)
    PROVE  HasRead(events, n + 1, Fold(s, events[n + 1], n + 1))
<1>1. events[n + 1] \in Events
  BY ElementOfSeq, LenProperties DEF Sent
<1>2. events[n + 1].ev \in {"messageStart", "error", "contentBlockStart", "contentBlockDelta"}
  BY <1>1, EventFacts
<1>3. s \in ReadStates
  BY DEF HasRead
<1>4. CASE events[n + 1].ev = "messageStart"
  <2>1. Quiet(events, n)
    BY <1>4, QuietSoFar, GrowFacts
  <2>2. ~s.isText /\ s.msg = MessageOf(events, n) /\ MessageOf(events, n) \in Nat
    BY <2>1, MessageFacts DEF HasRead
  <2>3. Fold(s, events[n + 1], n + 1) = [s EXCEPT !.msg = @ + 1]
    BY <1>4, <2>2 DEF Fold
  <2>4. PICK k \in Nat : k = s.msg + 1
    BY <2>2
  <2>9. PICK t : t = [s EXCEPT !.msg = k]
    OBVIOUS
  <2>5. t \in ReadStates /\ t.calls = s.calls /\ ~t.isText /\ t.msg = s.msg + 1
    BY <1>3, <2>2, <2>4, <2>9 DEF ReadStates
  <2>6. t.msg = MessageOf(events, n + 1)
    BY <1>4, <2>2, <2>5, MessageFacts
  <2>7. HasRead(events, n + 1, t)
    BY <1>4, <2>5, <2>6, ReadsNoCall
  <2> QED
    BY <2>3, <2>4, <2>9, <2>7
<1>5. CASE events[n + 1].ev = "error"
  <2>1. events[n + 1].n \in Messages
    BY <1>1, <1>5, EventFacts
  <2>2. Fold(s, events[n + 1], n + 1) = [s EXCEPT !.msg = events[n + 1].n, !.isText = TRUE]
    BY <1>5 DEF Fold
  <2>3. PICK u : u = [s EXCEPT !.msg = events[n + 1].n]
    OBVIOUS
  <2>4. PICK t : t = [u EXCEPT !.isText = TRUE]
    OBVIOUS
  <2>5. u \in ReadStates /\ u.calls = s.calls
    BY <1>3, <2>1, <2>3 DEF ReadStates
  <2>6. t \in ReadStates /\ t.calls = s.calls
    BY <2>4, <2>5 DEF ReadStates
  <2>7. ~Quiet(events, n + 1)
    BY <1>5, GrowFacts
  <2>8. HasRead(events, n + 1, t)
    BY <1>5, <2>6, <2>7, ReadsNoCall
  <2> QED
    BY <2>2, <2>3, <2>4, <2>8
<1> QED
  BY <1>2, <1>4, <1>5, ReadsStart, ReadsDelta

(* The end of a stream has read all of it.                                 *)
LEMMA EndHasRead ==
    ASSUME NEW events, Sent(events)
    PROVE  HasRead(events, Len(events), EndOf(events))
<1> DEFINE L == Len(events)
           Value(g, n) ==
              IF n = 0 THEN Start
              ELSE IF g[n - 1].raised THEN g[n - 1]
              ELSE Fold(g[n - 1], events[n], n)
           After(g) == [n \in 0..L |-> Value(g, n)]
           after == CHOOSE g : g = After(g)
           T == {n \in Nat : \E g : \A k \in 0..L : k \leq n => g[k] = Value(g, k)}
<1>1. EndOf(events) = after[L]
  BY DEF EndOf
<1>2. L \in Nat /\ DOMAIN events = 1..L
  BY LenProperties DEF Sent
<1>3. 0 \in T
  <2> DEFINE h == [k \in 0..L |-> Start]
  <2>1. \A k \in 0..L : k \leq 0 => h[k] = Value(h, k)
    BY <1>2
  <2> HIDE DEF h, Value
  <2>2. QED
    BY <2>1
<1>4. ASSUME NEW n \in Nat, n \in T
      PROVE  n + 1 \in T
  <2>1. PICK g : \A k \in 0..L : k \leq n => g[k] = Value(g, k)
    BY <1>4
  <2> DEFINE h == After(g)
  <2>2. \A k \in 0..L : h[k] = Value(g, k)
    OBVIOUS
  <2>3. \A k \in 0..L : k \leq n => h[k] = g[k]
    <3> HIDE DEF Value, h
    <3>1. QED
      BY <2>1, <2>2
  <2>4. \A k \in 0..L : k \leq n + 1 => Value(h, k) = Value(g, k)
    <3> TAKE k \in 0..L
    <3> HAVE k \leq n + 1
    <3>1. k # 0 => k - 1 \in 0..L /\ k - 1 \leq n
      BY <1>2
    <3>2. k # 0 => h[k - 1] = g[k - 1]
      <4> HIDE DEF h
      <4>1. QED
        BY <2>3, <3>1
    <3> HIDE DEF h
    <3>3. QED
      BY <3>2
  <2>5. \A k \in 0..L : k \leq n + 1 => h[k] = Value(h, k)
    <3> HIDE DEF Value, h
    <3>1. QED
      BY <2>2, <2>4
  <2> HIDE DEF Value, h
  <2>6. QED
    BY <2>5
<1>5. \E g : g = After(g)
  <2>1. Nat \subseteq T
    <3> HIDE DEF T
    <3>1. QED
      BY <1>3, <1>4, SetInduction
  <2>2. PICK g : \A k \in 0..L : k \leq L => g[k] = Value(g, k)
    <3> HIDE DEF Value
    <3>1. L \in T
      BY <1>2, <2>1
    <3>2. QED
      BY <3>1
  <2> DEFINE h == After(g)
  <2>3. \A k \in 0..L : h[k] = g[k]
    <3> HIDE DEF Value
    <3>1. QED
      BY <1>2, <2>2
  <2>4. \A k \in 0..L : Value(h, k) = Value(g, k)
    <3> TAKE k \in 0..L
    <3>1. k # 0 => k - 1 \in 0..L
      BY <1>2
    <3> HIDE DEF h
    <3>2. QED
      BY <2>3, <3>1
  <2>5. h = After(h)
    <3> HIDE DEF Value
    <3>1. QED
      BY <2>4
  <2> HIDE DEF h
  <2>6. QED
    BY <2>5
<1>6. after = After(after)
  <2> HIDE DEF After
  <2>1. QED
    BY <1>5
<1>7. \A k \in 0..L : after[k] = Value(after, k)
  <2> HIDE DEF after, Value
  <2>1. QED
    BY <1>6
<1> HIDE DEF after
<1> DEFINE S == {n \in Nat : n \leq L => HasRead(events, n, after[n])}
<1>8. 0 \in S
  <2>1. 0 \in 0..L
    BY <1>2
  <2>2. after[0] = Start
    BY <1>7, <2>1
  <2>3. HasRead(events, 0, Start)
    <3>1. 0 \in Nat
      OBVIOUS
    <3>2. MessageOf(events, 0) = 0
      BY <3>1, MessageFacts
    <3>3. Start \in ReadStates /\ Start.calls = << >> /\ Start.msg = 0 /\ ~Start.isText
      BY DEF Start, ReadStates
    <3>4. StartsTo(events, 0) = {}
      BY DEF StartsTo
    <3> QED
      BY <3>2, <3>3, <3>4 DEF HasRead
  <2> QED
    BY <2>2, <2>3
<1>9. ASSUME NEW n \in Nat, n \in S
      PROVE  n + 1 \in S
  <2> SUFFICES ASSUME n + 1 \leq L
               PROVE  HasRead(events, n + 1, after[n + 1])
    OBVIOUS
  <2>1. n + 1 \in 0..L /\ n + 1 \in DOMAIN events /\ n \leq L /\ (n + 1) - 1 = n /\ n + 1 # 0
    BY <1>2
  <2>2. HasRead(events, n, after[n])
    BY <1>9, <2>1
  <2>3. after[n].raised = FALSE
    BY <2>2 DEF HasRead, ReadStates
  <2>4. after[n + 1] = Fold(after[n], events[n + 1], n + 1)
    BY <1>7, <2>1, <2>3
  <2>5. HasRead(events, n + 1, Fold(after[n], events[n + 1], n + 1))
    BY <2>1, <2>2, ReadsStep
  <2> QED
    BY <2>4, <2>5
<1>10. Nat \subseteq S
  <2> HIDE DEF S
  <2> QED
    BY <1>8, <1>9, SetInduction
<1> QED
  BY <1>1, <1>2, <1>10

(* Calls that came in the order of their keys are left as they came.       *)
LEMMA SortedKeeps ==
    ASSUME NEW calls \in Seq(Call),
           \A c, d \in DOMAIN calls : c < d => Before(calls[c].key, calls[d].key)
    PROVE  Sorted(calls) = calls
<1> DEFINE L == Len(calls)
           Lower(c) == {d \in DOMAIN calls : Before(calls[d].key, calls[c].key)}
<1>1. L \in Nat /\ DOMAIN calls = 1..L /\ calls \in [1..L -> Call]
  BY LenProperties
<1>2. \A c \in 1..L : calls[c].key.msg \in Nat /\ calls[c].key.index \in Nat
  BY <1>1, StreamAssumption DEF Call
<1>3. \A c, d \in 1..L :
         ~(Before(calls[c].key, calls[d].key) /\ Before(calls[d].key, calls[c].key))
  BY <1>2 DEF Before
<1>4. \A c \in 1..L : Lower(c) = 1..(c - 1)
  <2> TAKE c \in 1..L
  <2>1. \A d \in 1..L : Before(calls[d].key, calls[c].key) <=> d < c
    <3> TAKE d \in 1..L
    <3>1. d < c \/ c < d \/ c = d
      BY <1>1
    <3> QED
      BY <1>1, <1>3, <3>1
  <2>2. Lower(c) = {d \in 1..L : d < c}
    BY <1>1, <2>1
  <2> HIDE DEF Lower
  <2> QED
    BY <1>1, <2>2
<1>5. \A c \in 1..L : Cardinality(Lower(c)) = c - 1
  <2> TAKE c \in 1..L
  <2>1. 1 \in Int /\ c - 1 \in Int /\ c - 1 \in Nat
    BY <1>1
  <2>2. Cardinality(1..(c - 1)) = c - 1
    BY <2>1, FS_Interval
  <2> HIDE DEF Lower
  <2> QED
    BY <1>4, <2>2
<1> DEFINE Place(i) == CHOOSE c \in DOMAIN calls : Cardinality(Lower(c)) = i - 1
<1>6. \A i \in 1..L : Place(i) = i
  <2> TAKE i \in 1..L
  <2> HIDE DEF Lower
  <2>1. \A c \in 1..L : Cardinality(Lower(c)) = i - 1 <=> c = i
    BY <1>1, <1>5
  <2> QED
    BY <1>1, <2>1
<1>7. Sorted(calls) = [i \in DOMAIN calls |-> calls[Place(i)]]
  BY DEF Sorted
<1> HIDE DEF Place
<1>8. Sorted(calls) = [i \in 1..L |-> calls[i]]
  BY <1>1, <1>6, <1>7
<1> QED
  BY <1>1, <1>8

(* Whatever the service sends is read as it was sent.                      *)
LEMMA SentIsFaithful ==
    ASSUME NEW events, Sent(events)
    PROVE  Faithful(events)
<1> DEFINE end == EndOf(events)
           L == Len(events)
<1>1. HasRead(events, L, end)
  BY EndHasRead
<1>2. L \in Nat /\ DOMAIN events = 1..L
  BY LenProperties DEF Sent
<1> HIDE DEF end
<1>3. end \in ReadStates /\ end.calls \in Seq(Call) /\ end.raised = FALSE
  BY <1>1 DEF HasRead, ReadStates
<1>4. \A c \in DOMAIN end.calls : end.calls[c] \in Call
  BY <1>3, ElementOfSeq, LenProperties
<1>5. {end.calls[c].key.isText : c \in DOMAIN end.calls} # BOOLEAN
  <2>1. \A c \in DOMAIN end.calls : end.calls[c].key.isText = FALSE
    BY <1>4 DEF Call
  <2> QED
    BY <2>1
<1>6. Sorted(end.calls) = end.calls
  BY <1>1, <1>3, SortedKeeps DEF HasRead
<1>7. ReadStream(events) = [raised |-> FALSE, calls |-> end.calls]
  BY <1>3, <1>5, <1>6 DEF ReadStream, end
<1>8. PICK read : read = ReadStream(events)
  OBVIOUS
<1>9. ~read.raised /\ read.calls = end.calls
  BY <1>7, <1>8
<1> DEFINE ats == [c \in DOMAIN end.calls |-> end.calls[c].at]
<1>10. Lists(ats, StartsOf(events))
  <2>1. StartsOf(events) = StartsTo(events, L)
    BY <1>2 DEF StartsOf, StartsTo
  <2>2. {ats[c] : c \in DOMAIN ats} = {end.calls[c].at : c \in DOMAIN end.calls}
    OBVIOUS
  <2>3. \A c, d \in DOMAIN ats : c < d => ats[c] < ats[d]
    BY <1>1 DEF HasRead
  <2> HIDE DEF ats
  <2> QED
    BY <1>1, <2>1, <2>2, <2>3 DEF HasRead, Lists
<1>11. \A c \in DOMAIN end.calls : Lists(end.calls[c].input, PiecesOf(events, end.calls[c].at))
  <2>1. \A m : PiecesOf(events, m) = PiecesTo(events, L, m)
    BY <1>2 DEF PiecesOf, PiecesTo
  <2> QED
    BY <1>1, <2>1 DEF HasRead
<1> QED
  BY <1>8, <1>9, <1>10, <1>11 DEF Faithful

(* The calls that the agent sees are those of the stream: of streams of    *)
(* any length, none is lost, mixed up with another, or out of order.       *)
THEOREM StreamIsRead == Spec => []StreamIsFaithful
<1>1. FaithfulStreams
  <2> SUFFICES ASSUME NEW events \in BoundedSeq(Events, StreamLength),
                      WellSent(events), ErrorsLast(events)
               PROVE  Faithful(events)
    BY DEF FaithfulStreams
  <2>1. events \in Seq(Events)
    BY StreamAssumption DEF BoundedSeq, SeqOf
  <2> QED
    BY <2>1, SentIsFaithful DEF Sent
<1>2. StreamIsFaithful
  BY <1>1 DEF StreamIsFaithful
<1>3. QED
  BY <1>2, PTL
=============================================================================
