--------------------------- MODULE SandboxProofs ---------------------------
(* What one run of the sandbox guarantees for every number of polls and of *)
(* tries, whatever the cloud answers.                                      *)
EXTENDS Sandbox, TLAPS

CheckPcs == {"check", "recheck"}

(* Where the teardown has a resource behind it.                            *)
AfterRoles  == CheckPcs \cup {"done", "deleteLogs"}
AfterBuild  == AfterRoles \cup {"deleteExec"}
AfterBucket == AfterBuild \cup {"deleteBuild"}
AfterImage  == AfterBucket \cup {"deleteBucket"}
AfterVm     == AfterImage \cup {"deleteImage", "awaitGone"}

(* The code has run no more often than it has been posted.                 *)
RunsCounted ==
    /\ pc \in {"precheck"} \cup (Provisioning \ {"post"}) => ran = 0
    /\ pc = "post" => ran + left \leq Posts
    /\ AllowedMeansRan

(* What a bucket or a role has in it goes before it does.                  *)
Nested ==
    /\ pc \in Provisioning \ {"identity", "bucket"} =>
          "bucket" \in things /\ "bucket" \in known
    /\ pc \in Provisioning \ {"identity", "bucket", "zip", "build"} =>
          "build" \in things /\ "build" \in known
    /\ "zip" \in things => "bucket" \in things
    /\ "policy" \in things => "build" \in things

(* What exists is known or in doubt, and what the teardown has behind it   *)
(* is in doubt.                                                            *)
Accounted(exists, r, After) ==
    exists => r \in blamed \/ (r \in known /\ pc \notin After)

Owned ==
    /\ Accounted("bucket" \in things, "bucket", AfterBucket)
    /\ Accounted("build" \in things, "build", AfterBuild)
    /\ Accounted("exec" \in things, "exec", AfterRoles)
    /\ Accounted(image # "none", "image", AfterImage)
    /\ Accounted(vm \in Alive, "vm", AfterVm)
    /\ "logs" \in things =>
          \/ {"logs", "image"} \cap blamed # {}
          \/ "image" \in known /\ pc \notin {"done"} \cup CheckPcs

(* A kind that was listed and not found is gone for good: a microVM and an *)
(* image before what they leave behind, and log groups last of all.        *)
Listed ==
    /\ pc \in CheckPcs => left \leq 5
    /\ pc \in CheckPcs /\ ~found =>
          /\ left < 5 => vm \notin Alive
          /\ left < 4 => image = "none"
          /\ left < 3 => things \cap Roles = {}
          /\ left < 2 => "bucket" \notin things
          /\ left < 1 => "logs" \notin things
    /\ verdict # "none" => pc \in {"recheck", "done", "dead"}
    /\ CleanMeansGone

IInv == TypeOK /\ RunsCounted /\ Nested /\ Owned /\ Listed

-----------------------------------------------------------------------------
(* The conjuncts of TypeOK, each kept for a reason of its own.             *)
PcOK == pc \in {"precheck", "recheck"} \cup Provisioning \cup TearingDown \cup Final

OutcomeOK ==
    /\ result \in Results
    /\ found \in BOOLEAN
    /\ verdict \in {"none", "clean", "dirty", "ok", "failed"}

CloudOK ==
    /\ things \subseteq Roles \cup {"bucket", "zip", "policy", "logs"}
    /\ image \in {"none", "building", "ready", "failed", "deleting"}
    /\ vm \in {"none", "ended"} \cup Alive

RemembersOK ==
    /\ known \subseteq Roles \cup {"bucket", "image", "vm"}
    /\ blamed \subseteq Roles \cup {"bucket", "image", "vm", "logs"}

LEMMA TypesKept ==
    ASSUME PcOK, OutcomeOK, CloudOK, RemembersOK, Next
    PROVE  PcOK' /\ OutcomeOK' /\ CloudOK' /\ RemembersOK'
<1> USE DEF cloud, Next, Driver, Die, Service, Creating, Succeeds, Fails, Raises, Poll,
       Precheck, Identity, CreateBucket, PutZip, CreateBuild, PutPolicy, CreateExec,
       CreateImage, FindBuild, AwaitBuild, RunVm, AwaitVm,
       Token, CodeRuns, PostFails, Executed, TriesAgain,
       GetClient, Terminate, AwaitEnd, DeleteImage, AwaitGone, Skip, Ends,
       DeleteBucket, DeleteRoles, DeleteRole, DeleteLogs, List, Checked, Summary
<1>1. PcOK'
  BY DEF PcOK, Provisioning, TearingDown, Final
<1>2. OutcomeOK'
  BY DEF OutcomeOK, Results, Present
<1>3. CloudOK'
  BY DEF CloudOK, Roles, Alive
<1>4. RemembersOK'
  BY DEF RemembersOK, Roles
<1>5. QED
  BY <1>1, <1>2, <1>3, <1>4

-----------------------------------------------------------------------------
(* The inductive invariant, one conjunct at a time.                        *)

LEMMA CountsKept ==
    ASSUME left \in Nat, ran \in 0..Posts, RunsCounted, Next
    PROVE  left' \in Nat /\ ran' \in 0..Posts
<1> USE SandboxAssumption DEF cloud, RunsCounted, Provisioning
<1>1. CASE Precheck \/ Identity \/ CreateBucket \/ PutZip \/ CreateBuild \/ PutPolicy
             \/ CreateExec \/ CreateImage \/ FindBuild \/ AwaitBuild \/ RunVm \/ AwaitVm \/ Token
  BY <1>1 DEF Precheck, Identity, CreateBucket, PutZip, CreateBuild, PutPolicy,
            CreateExec, CreateImage, FindBuild, AwaitBuild, RunVm, AwaitVm, Token,
            Succeeds, Fails, Raises, Creating, Poll
<1>2. CASE CodeRuns \/ PostFails
  BY <1>2 DEF CodeRuns, PostFails, Executed, Raises, TriesAgain, Fails
<1>3. CASE GetClient \/ Terminate \/ AwaitEnd \/ DeleteImage
             \/ AwaitGone \/ DeleteBucket \/ DeleteRoles \/ DeleteLogs
  BY <1>3 DEF GetClient, Terminate, AwaitEnd, DeleteImage, AwaitGone, DeleteBucket,
            DeleteRoles, DeleteLogs, Skip, Ends, Poll, DeleteRole
<1>4. CASE List \/ Checked \/ Summary \/ Die
  <2>1. List => left > 0 /\ left' = left - 1 /\ ran' = ran
    BY DEF List
  <2>2. Checked \/ Summary \/ Die => left' \in {left, 5} /\ ran' = ran
    BY Zenon DEF Checked, Summary, Die
  <2>3. QED
    BY <1>4, <2>1, <2>2
<1>5. CASE Service
  BY <1>5 DEF Service
<1>6. QED
  BY <1>1, <1>2, <1>3, <1>4, <1>5 DEF Next, Driver

LEMMA RunsKept ==
    ASSUME left \in Nat, ran \in 0..Posts, RunsCounted, Next
    PROVE  RunsCounted'
<1> USE SandboxAssumption DEF cloud, Provisioning, TearingDown, RunsCounted, AllowedMeansRan
<1>1. CASE Precheck \/ Identity \/ CreateBucket \/ PutZip \/ CreateBuild \/ PutPolicy
             \/ CreateExec \/ CreateImage \/ FindBuild \/ AwaitBuild \/ RunVm \/ AwaitVm \/ Token
  BY <1>1 DEF Precheck, Identity, CreateBucket, PutZip, CreateBuild, PutPolicy,
            CreateExec, CreateImage, FindBuild, AwaitBuild, RunVm, AwaitVm, Token,
            Succeeds, Fails, Raises, Creating, Poll
<1>2. CASE CodeRuns \/ PostFails
  BY <1>2 DEF CodeRuns, PostFails, Executed, Raises, TriesAgain, Fails
<1>3. CASE GetClient \/ Terminate \/ AwaitEnd \/ DeleteImage
             \/ AwaitGone \/ DeleteBucket \/ DeleteRoles \/ DeleteLogs
  BY <1>3 DEF GetClient, Terminate, AwaitEnd, DeleteImage, AwaitGone, DeleteBucket,
            DeleteRoles, DeleteLogs, Skip, Ends, Poll, DeleteRole
<1>4. CASE List \/ Checked \/ Summary \/ Die
  BY <1>4 DEF List, Checked, Summary, Die, Present, Final
<1>5. CASE Service
  BY <1>5 DEF Service
<1>6. QED
  BY <1>1, <1>2, <1>3, <1>4, <1>5 DEF Next, Driver

LEMMA NestedKept ==
    ASSUME TypeOK, Nested, Next
    PROVE  Nested'
<1> USE DEF cloud, Provisioning, TearingDown, Roles, Nested
<1>1. CASE Precheck \/ Identity \/ CreateBucket \/ PutZip \/ CreateBuild \/ PutPolicy
             \/ CreateExec \/ CreateImage \/ FindBuild \/ AwaitBuild \/ RunVm \/ AwaitVm \/ Token
  BY <1>1 DEF Precheck, Identity, CreateBucket, PutZip, CreateBuild, PutPolicy,
            CreateExec, CreateImage, FindBuild, AwaitBuild, RunVm, AwaitVm, Token,
            Succeeds, Fails, Raises, Creating, Poll
<1>2. CASE CodeRuns \/ PostFails
  BY <1>2 DEF CodeRuns, PostFails, Executed, Raises, TriesAgain, Fails
<1>3. CASE GetClient \/ Terminate \/ AwaitEnd \/ DeleteImage
             \/ AwaitGone \/ DeleteBucket \/ DeleteRoles \/ DeleteLogs
  BY <1>3 DEF GetClient, Terminate, AwaitEnd, DeleteImage, AwaitGone, DeleteBucket,
            DeleteRoles, DeleteLogs, Skip, Ends, Poll, DeleteRole
<1>4. CASE List \/ Checked \/ Summary \/ Die
  BY <1>4 DEF List, Checked, Summary, Die, Present, Final
<1>5. CASE Service
  BY <1>5 DEF Service
<1>6. QED
  BY <1>1, <1>2, <1>3, <1>4, <1>5 DEF Next, Driver

LEMMA OwnedKept ==
    ASSUME TypeOK, Nested, Owned, Next
    PROVE  Owned'
<1> USE SandboxAssumption DEF cloud, TypeOK, Provisioning, TearingDown, Final, Alive, Roles, Results, Nested, Owned, Accounted, AfterRoles, AfterBuild, AfterBucket, AfterImage, AfterVm, CheckPcs
<1>1. CASE Precheck \/ Identity \/ CreateBucket \/ PutZip \/ CreateBuild \/ PutPolicy
             \/ CreateExec \/ CreateImage \/ FindBuild \/ AwaitBuild \/ RunVm \/ AwaitVm \/ Token
  BY <1>1 DEF Precheck, Identity, CreateBucket, PutZip, CreateBuild, PutPolicy,
            CreateExec, CreateImage, FindBuild, AwaitBuild, RunVm, AwaitVm, Token,
            Succeeds, Fails, Raises, Creating, Poll
<1>2. CASE CodeRuns \/ PostFails
  BY <1>2 DEF CodeRuns, PostFails, Executed, Raises, TriesAgain, Fails
<1>3. CASE GetClient \/ Terminate \/ AwaitEnd \/ DeleteImage
             \/ AwaitGone \/ DeleteBucket \/ DeleteRoles \/ DeleteLogs
  BY <1>3 DEF GetClient, Terminate, AwaitEnd, DeleteImage, AwaitGone, DeleteBucket,
            DeleteRoles, DeleteLogs, Skip, Ends, Poll, DeleteRole
<1>4. CASE List \/ Checked \/ Summary \/ Die
  BY <1>4 DEF List, Checked, Summary, Die, Present
<1>5. CASE Service
  BY <1>5 DEF Service
<1>6. QED
  BY <1>1, <1>2, <1>3, <1>4, <1>5 DEF Next, Driver

LEMMA ListedKept ==
    ASSUME TypeOK, Nested, Listed, Next
    PROVE  Listed'
<1> USE SandboxAssumption DEF cloud, TypeOK, Provisioning, TearingDown, Final, Alive, Roles, Results, Nested, Listed, CleanMeansGone, Gone, CheckPcs
<1>1. CASE Precheck \/ Identity \/ CreateBucket \/ PutZip \/ CreateBuild \/ PutPolicy
             \/ CreateExec \/ CreateImage \/ FindBuild \/ AwaitBuild \/ RunVm \/ AwaitVm \/ Token
  BY <1>1 DEF Precheck, Identity, CreateBucket, PutZip, CreateBuild, PutPolicy,
            CreateExec, CreateImage, FindBuild, AwaitBuild, RunVm, AwaitVm, Token,
            Succeeds, Fails, Raises, Creating, Poll
<1>2. CASE CodeRuns \/ PostFails
  BY <1>2 DEF CodeRuns, PostFails, Executed, Raises, TriesAgain, Fails
<1>3. CASE GetClient \/ Terminate \/ AwaitEnd \/ DeleteImage
             \/ AwaitGone \/ DeleteBucket \/ DeleteRoles \/ DeleteLogs
  BY <1>3 DEF GetClient, Terminate, AwaitEnd, DeleteImage, AwaitGone, DeleteBucket,
            DeleteRoles, DeleteLogs, Skip, Ends, Poll, DeleteRole
<1>4. CASE Checked \/ Summary \/ Die
  <2>1. CASE Checked
    BY <2>1 DEF Checked
  <2>2. CASE Summary
    BY <2>2 DEF Summary
  <2>3. CASE Die
    BY <2>3 DEF Die
  <2>4. QED
    BY <1>4, <2>1, <2>2, <2>3
<1>5. CASE Service
  BY <1>5 DEF Service
<1>6. CASE List
  <2>1. /\ pc \in CheckPcs /\ left > 0 /\ left' = left - 1
        /\ pc' = pc /\ things' = things /\ image' = image /\ vm' = vm /\ verdict' = verdict
    BY <1>6 DEF List
  <2>2. ~found' => ~found /\ ~Present(left)
    BY <1>6, Zenon DEF List
  <2>3. /\ left = 5 => (Present(left) <=> vm \in Alive)
        /\ left = 4 => (Present(left) <=> image # "none")
        /\ left = 3 => (Present(left) <=> things \cap Roles # {})
        /\ left = 2 => (Present(left) <=> "bucket" \in things)
        /\ left = 1 => (Present(left) <=> "logs" \in things)
    BY DEF Present
  <2>4. QED
    BY <2>1, <2>2, <2>3
<1>7. QED
  BY <1>1, <1>2, <1>3, <1>4, <1>5, <1>6 DEF Next, Driver

-----------------------------------------------------------------------------
LEMMA InitHolds == Init => IInv
<1> SUFFICES ASSUME Init
             PROVE  IInv
  OBVIOUS
<1> USE DEF Init
<1>1. TypeOK
  <2>1. PcOK /\ OutcomeOK
    BY DEF PcOK, OutcomeOK, Results
  <2>2. CloudOK /\ RemembersOK
    BY DEF CloudOK, RemembersOK
  <2>3. left \in Nat /\ ran \in 0..Posts
    BY SandboxAssumption
  <2>4. QED
    BY <2>1, <2>2, <2>3 DEF TypeOK, PcOK, OutcomeOK, CloudOK, RemembersOK
<1>2. RunsCounted
  BY DEF RunsCounted, AllowedMeansRan
<1>3. Nested
  BY DEF Nested, Provisioning
<1>4. Owned
  BY DEF Owned, Accounted, Alive
<1>5. Listed
  BY DEF Listed, CleanMeansGone, CheckPcs
<1>6. QED
  BY <1>1, <1>2, <1>3, <1>4, <1>5 DEF IInv

LEMMA StepKeeps ==
    ASSUME IInv, [Next]_vars
    PROVE  IInv'
<1>1. CASE Next
  <2>1. TypeOK /\ RunsCounted /\ Nested /\ Owned /\ Listed
        /\ left \in Nat /\ ran \in 0..Posts
    BY DEF IInv, TypeOK
  <2>2. PcOK /\ OutcomeOK /\ CloudOK /\ RemembersOK
    BY <2>1 DEF TypeOK, PcOK, OutcomeOK, CloudOK, RemembersOK
  <2>3. PcOK' /\ OutcomeOK' /\ CloudOK' /\ RemembersOK'
    BY <1>1, <2>2, TypesKept
  <2>4. left' \in Nat /\ ran' \in 0..Posts
    BY <1>1, <2>1, CountsKept
  <2>5. TypeOK'
    BY <2>3, <2>4 DEF TypeOK, PcOK, OutcomeOK, CloudOK, RemembersOK
  <2>6. RunsCounted' /\ Nested' /\ Owned' /\ Listed'
    BY <1>1, <2>1, RunsKept, NestedKept, OwnedKept, ListedKept
  <2>7. QED
    BY <2>5, <2>6 DEF IInv
<1>2. CASE UNCHANGED vars
  BY <1>2
     DEF vars, cloud, IInv, TypeOK, RunsCounted, AllowedMeansRan, Nested, Owned, Accounted,
         Listed, CleanMeansGone, Gone
<1>3. QED
  BY <1>1, <1>2

(* The inductive invariant: whatever a call that failed or lost its answer *)
(* left behind is known to the object or in doubt, and what a listing has  *)
(* not found cannot come back.                                             *)
THEOREM SandboxInvariant == Spec => []IInv
<1>1. IInv /\ [Next]_vars => IInv'
  BY StepKeeps
<1>2. QED
  BY <1>1, InitHolds, PTL DEF Spec

(* Every variable of a run keeps its type; above all, the code runs at     *)
(* most exec_attempts times.                                               *)
THEOREM SandboxTypes == Spec => []TypeOK
<1>1. IInv => TypeOK
  BY DEF IInv
<1>2. QED
  BY <1>1, SandboxInvariant, PTL

(* "Fail-closed": a result that allows means that the code did run.        *)
THEOREM SandboxFailsClosed == Spec => []AllowedMeansRan
<1>1. IInv => AllowedMeansRan
  BY DEF IInv, RunsCounted
<1>2. QED
  BY <1>1, SandboxInvariant, PTL

(* "True iff the prefix is clean": although cleanup_check lists one kind   *)
(* after the other while the cloud goes on working, what it calls clean is *)
(* gone when it says so, and stays gone.                                   *)
THEOREM CleanIsClean == Spec => []CleanMeansGone
<1>1. IInv => CleanMeansGone
  BY DEF IInv, Listed
<1>2. QED
  BY <1>1, SandboxInvariant, PTL

(* "Delete everything this run created": what is left after the teardown   *)
(* is there because a call about that very resource failed.                *)
THEOREM LeftoversExplained == Spec => []LeftoverExplained
<1>1. IInv => LeftoverExplained
  <2> SUFFICES ASSUME IInv, pc \in {"check", "recheck", "done"}
               PROVE  LeftoverExplained
    BY DEF LeftoverExplained
  <2>1. pc \in AfterRoles /\ pc \in AfterBuild /\ pc \in AfterBucket
        /\ pc \in AfterImage /\ pc \in AfterVm /\ pc \in {"done"} \cup CheckPcs
    BY DEF AfterRoles, AfterBuild, AfterBucket, AfterImage, AfterVm, CheckPcs
  <2>2. QED
    BY <2>1 DEF IInv, Nested, Owned, Accounted, LeftoverExplained
<1>2. QED
  BY <1>1, SandboxInvariant, PTL
=============================================================================
