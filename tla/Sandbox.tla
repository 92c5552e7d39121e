------------------------------ MODULE Sandbox -------------------------------
(***************************************************************************)
(* The isolated runtime of src/harness/sandbox.py: MicroVMSandbox.run      *)
(* creates a bucket, two roles, an image and a microVM, posts the code to  *)
(* it and tears everything down; main then checks once more.               *)
(*                                                                         *)
(* The cloud acts on its own: it builds and deletes images, starts and     *)
(* stops microVMs, and the build writes a log group, which thereby comes   *)
(* back after a deletion.  A call may be refused, or be carried out with   *)
(* its answer lost; one that has raised has no effect later on.            *)
(***************************************************************************)
EXTENDS Naturals

CONSTANTS
    Polls,      \* bound: tries of each loop that waits for the cloud
    Posts       \* exec_attempts

ASSUME SandboxAssumption == Polls \in Nat \ {0} /\ Posts \in Nat \ {0}

VARIABLES
    pc,       \* where run (and main, after it) stands
    things,   \* what exists besides the image and the microVM
    image,    \* state of the image
    vm,       \* state of the microVM
    known,    \* what the object remembers to have created
    left,     \* tries left in the loop, or kinds left to list
    result,   \* the SandboxResult: none yet, deny, ran
    found,    \* did cleanup_check find anything so far?
    verdict,  \* clean after teardown; then ok of main
    ran,      \* history: how often the code ran
    blamed    \* history: resources a failed call left in doubt

cloud == <<things, image, vm>>
vars == <<pc, things, image, vm, known, left, result, found, verdict, ran, blamed>>

Roles == {"build", "exec"}

(* SandboxResult: allowed or not, and none while there is none.            *)
Results == {"none", "deny", "ran"}

Provisioning ==
    {"identity", "bucket", "zip", "build", "policy", "exec", "image",
     "findBuild", "awaitBuild", "vm", "awaitVm", "token", "post"}
TearingDown ==
    {"teardown", "terminate", "awaitEnd", "deleteImage", "awaitGone",
     "deleteBucket", "deleteBuild", "deleteExec", "deleteLogs", "check"}
Final == {"denied", "done", "dead", "escaped"}

Alive == {"pending", "running", "stopping"}

TypeOK ==
    /\ pc \in {"precheck", "recheck"} \cup Provisioning \cup TearingDown \cup Final
    /\ things \subseteq Roles \cup {"bucket", "zip", "policy", "logs"}
    /\ image \in {"none", "building", "ready", "failed", "deleting"}
    /\ vm \in {"none", "ended"} \cup Alive
    /\ known \subseteq Roles \cup {"bucket", "image", "vm"}
    /\ left \in Nat
    /\ result \in Results
    /\ found \in BOOLEAN
    /\ verdict \in {"none", "clean", "dirty", "ok", "failed"}
    /\ ran \in 0..Posts
    /\ blamed \subseteq Roles \cup {"bucket", "image", "vm", "logs"}

Init ==
    /\ pc = "precheck" /\ things = {} /\ image = "none" /\ vm = "none"
    /\ known = {} /\ left = 0 /\ result = "none" /\ found = FALSE
    /\ verdict = "none" /\ ran = 0 /\ blamed = {}

-----------------------------------------------------------------------------
(* precheck, and the frame of run: an exception denies, and the teardown   *)
(* follows whatever happened.                                              *)
Precheck ==
    /\ pc = "precheck"
    /\ \/ pc' = "denied" /\ result' = "deny"
       \/ pc' = "identity" /\ UNCHANGED result
    /\ UNCHANGED <<cloud, known, left, found, verdict, ran, blamed>>

(* Ctrl-C is no Exception: the same, without a result.                     *)
Raises ==
    /\ pc' = "teardown"
    /\ result' \in {"deny", "none"}
    /\ UNCHANGED <<known, left, found, verdict>>

Fails == Raises /\ UNCHANGED <<cloud, ran, blamed>>

(* The call succeeds; next is where run goes on, after n polls at most.    *)
Succeeds(next, n) ==
    /\ pc' = next
    /\ left' = n
    /\ UNCHANGED <<result, found, verdict, ran, blamed>>

(* A call that creates thing r of the model: done, refused, or done with   *)
(* the answer lost, and then the object does not know.                     *)
Creating(r, made, remembered, next) ==
    \/ things' = things \cup made /\ known' = known \cup remembered
         /\ Succeeds(next, 0) /\ UNCHANGED <<image, vm>>
    \/ Fails
    \/ things' = things \cup made /\ Raises /\ blamed' = blamed \cup {r}
         /\ UNCHANGED <<image, vm, ran>>

Identity ==
    /\ pc = "identity"
    /\ \/ Succeeds("bucket", 0) /\ UNCHANGED <<cloud, known>>
       \/ Fails

CreateBucket == pc = "bucket" /\ Creating("bucket", {"bucket"}, {"bucket"}, "zip")
PutZip       == pc = "zip"    /\ Creating("bucket", {"zip"}, {}, "build")
CreateBuild  == pc = "build"  /\ Creating("build", {"build"}, {"build"}, "policy")
PutPolicy    == pc = "policy" /\ Creating("build", {"policy"}, {}, "exec")
CreateExec   == pc = "exec"   /\ Creating("exec", {"exec"}, {"exec"}, "image")

(* Mutant: the image is remembered once it is built.                       *)
CreateImageForgets ==
    /\ pc = "image"
    /\ image' = "building"
    /\ Succeeds("findBuild", 0)
    /\ UNCHANGED <<things, vm, known>>

CreateImage ==
    /\ pc = "image"
    /\ \/ image' = "building" /\ known' = known \cup {"image"}
            /\ Succeeds("findBuild", 0) /\ UNCHANGED <<things, vm>>
       \/ Fails
       \/ image' = "building" /\ Raises /\ blamed' = blamed \cup {"image"}
            /\ UNCHANGED <<things, vm, ran>>

FindBuild ==
    /\ pc = "findBuild"
    /\ \/ Succeeds("awaitBuild", Polls) /\ UNCHANGED <<cloud, known>>
       \/ Fails

(* Mutant: the loop does not count its tries.                              *)
PollUncounted ==
    /\ left' = left - 1
    /\ UNCHANGED <<pc, cloud, known, result, found, verdict, ran, blamed>>

(* Mutant: the deadline is computed inside the loop.                       *)
PollAfresh ==
    /\ left' = IF left = 1 THEN Polls ELSE left - 1
    /\ UNCHANGED <<pc, cloud, known, result, found, verdict, ran, blamed>>

(* A wait is over after so many polls, or at its deadline.                 *)
Poll ==
    /\ left > 0
    /\ left' = left - 1
    /\ UNCHANGED <<pc, cloud, known, result, found, verdict, ran, blamed>>

(* It raises when the build failed, when time is up, or when a call does.  *)
AwaitBuild ==
    /\ pc = "awaitBuild"
    /\ \/ image = "ready" /\ left > 0 /\ Succeeds("vm", 0)
            /\ UNCHANGED <<cloud, known>>
       \/ image = "building" /\ Poll
       \/ Fails

RunVm ==
    /\ pc = "vm"
    /\ \/ vm' = "pending" /\ known' = known \cup {"vm"}
            /\ Succeeds("awaitVm", Polls) /\ UNCHANGED <<things, image>>
       \/ Fails
       \/ vm' = "pending" /\ Raises /\ blamed' = blamed \cup {"vm"}
            /\ UNCHANGED <<things, image, ran>>

AwaitVm ==
    /\ pc = "awaitVm"
    /\ \/ vm = "running" /\ left > 0 /\ Succeeds("token", 0)
            /\ UNCHANGED <<cloud, known>>
       \/ vm = "pending" /\ Poll
       \/ Fails

-----------------------------------------------------------------------------
(* execute.                                                                *)
Token ==
    /\ pc = "token"
    /\ \/ Succeeds("post", Posts) /\ UNCHANGED <<cloud, known>>
       \/ Fails

(* The app in the microVM: it runs what it is sent, each time, and answers *)
(* 200 whatever comes of it.                                               *)
Executed ==
    /\ vm = "running"
    /\ ran' = ran + 1

(* Whatever is no answer, or an error status that may pass.                *)
TriesAgain ==
    /\ left' = left - 1
    /\ UNCHANGED <<pc, known, result, found, verdict>>

(* The code runs and its output comes back, comes back unreadable, or does *)
(* not come back, and then the same code is posted again.                  *)
CodeRuns ==
    /\ pc = "post" /\ left > 0
    /\ Executed
    /\ \/ pc' = "teardown" /\ result' = "ran"
            /\ UNCHANGED <<known, left, found, verdict>>
       \/ Raises
       \/ TriesAgain
    /\ UNCHANGED <<cloud, blamed>>

(* Mutant: an HTTP error that will not fix itself is taken for an answer.  *)
PostFailsQuietly ==
    /\ pc = "post"
    /\ pc' = "teardown" /\ result' = "ran"
    /\ UNCHANGED <<cloud, known, left, found, verdict, ran, blamed>>

(* It does not run: a status worth another try, or not, or no try is left. *)
PostFails ==
    /\ pc = "post"
    /\ \/ left > 0 /\ TriesAgain /\ UNCHANGED <<cloud, ran, blamed>>
       \/ Fails

-----------------------------------------------------------------------------
(* teardown.  Its first line is outside every handler; after it each step  *)
(* that raises gives way to the next.                                      *)
GetClient ==
    /\ pc = "teardown"
    /\ pc' \in {"terminate", "escaped"}
    /\ UNCHANGED <<cloud, known, left, result, found, verdict, ran, blamed>>

(* The step of resource r ends, with r in doubt unless it is gone.         *)
Ends(r, next, gone) ==
    /\ pc' = next
    /\ left' = Polls
    /\ blamed' = IF gone THEN blamed ELSE blamed \cup {r}
    /\ UNCHANGED <<result, found, verdict, ran>>

Skip(r, next) ==
    /\ r \notin known
    /\ Ends(r, next, TRUE)
    /\ UNCHANGED <<cloud, known>>

Terminate ==
    /\ pc = "terminate"
    /\ \/ Skip("vm", "deleteImage")
       \/ /\ "vm" \in known
          /\ \/ Ends("vm", "awaitEnd", TRUE)
                  /\ vm' = IF vm = "ended" THEN vm ELSE "stopping"
             \/ Ends("vm", "deleteImage", FALSE) /\ vm' \in {vm, "stopping"}
          /\ UNCHANGED <<things, image, known>>

AwaitEnd ==
    /\ pc = "awaitEnd"
    /\ \/ left > 0 /\ vm = "ended" /\ Ends("vm", "deleteImage", TRUE)
            /\ UNCHANGED <<cloud, known>>
       \/ vm # "ended" /\ Poll
       \/ Ends("vm", "deleteImage", FALSE) /\ UNCHANGED <<cloud, known>>

(* Tried again and again: the image may be refused while it is in use, an  *)
(* answer may be lost, and an image that is not found ends the step.       *)
DeleteImage ==
    /\ pc = "deleteImage"
    /\ \/ Skip("image", "deleteBucket")
       \/ /\ "image" \in known
          /\ \/ /\ left > 0 /\ image # "none" /\ image' = "deleting"
                /\ \/ Ends("image", "awaitGone", TRUE)
                   \/ left' = left - 1
                        /\ UNCHANGED <<pc, result, found, verdict, ran, blamed>>
                /\ UNCHANGED <<things, vm, known>>
             \/ left > 0 /\ image = "none" /\ Ends("image", "deleteBucket", TRUE)
                  /\ UNCHANGED <<cloud, known>>
             \/ Poll
             \/ left = 0 /\ Ends("image", "awaitGone", FALSE) /\ UNCHANGED <<cloud, known>>

(* Mutant: the steps after it do not wait until the image is gone.         *)
AwaitGoneNot ==
    /\ pc = "awaitGone"
    /\ Ends("image", "deleteBucket", TRUE)
    /\ UNCHANGED <<cloud, known>>

AwaitGone ==
    /\ pc = "awaitGone"
    /\ \/ left > 0 /\ image = "none" /\ Ends("image", "deleteBucket", TRUE)
            /\ UNCHANGED <<cloud, known>>
       \/ image # "none" /\ Poll
       \/ Ends("image", "deleteBucket", FALSE) /\ UNCHANGED <<cloud, known>>

(* The object first, then the bucket; either call may fail.                *)
DeleteBucket ==
    /\ pc = "deleteBucket"
    /\ \/ Skip("bucket", "deleteBuild")
       \/ /\ "bucket" \in known
          /\ \/ things' = things \ {"zip", "bucket"} /\ known' = known \ {"bucket"}
                  /\ Ends("bucket", "deleteBuild", TRUE)
             \/ things' \in {things, things \ {"zip"}, things \ {"zip", "bucket"}}
                  /\ Ends("bucket", "deleteBuild", FALSE) /\ UNCHANGED known
          /\ UNCHANGED <<image, vm>>

(* Its inline policy first, then the role.                                 *)
DeleteRole(r, at, inline, next) ==
    /\ pc = at
    /\ \/ Skip(r, next)
       \/ /\ r \in known
          /\ \/ things' = things \ (inline \cup {r}) /\ known' = known \ {r}
                  /\ Ends(r, next, TRUE)
             \/ things' \in {things, things \ inline, things \ (inline \cup {r})}
                  /\ Ends(r, next, FALSE) /\ UNCHANGED known
          /\ UNCHANGED <<image, vm>>

DeleteRoles ==
    \/ DeleteRole("build", "deleteBuild", {"policy"}, "deleteExec")
    \/ DeleteRole("exec", "deleteExec", {}, "deleteLogs")

-----------------------------------------------------------------------------
(* cleanup_check, called by teardown and again by main.                    *)
(* Mutant: the log groups are listed first.                                *)
PresentGroupsFirst(kind) ==
    CASE kind = 5 -> "logs" \in things
      [] kind = 4 -> image # "none"
      [] kind = 3 -> things \cap Roles # {}
      [] kind = 2 -> "bucket" \in things
      [] OTHER    -> vm \in Alive

(* What is listed when this many kinds are left: microVMs first, then      *)
(* images, roles, buckets, and log groups last.                            *)
Present(kind) ==
    CASE kind = 5 -> vm \in Alive
      [] kind = 4 -> image # "none"
      [] kind = 3 -> things \cap Roles # {}
      [] kind = 2 -> "bucket" \in things
      [] OTHER    -> "logs" \in things

DeleteLogs ==
    /\ pc = "deleteLogs"
    /\ pc' = "check" /\ left' = 5 /\ found' = FALSE
    /\ \/ "image" \notin known /\ UNCHANGED <<things, blamed>>
       \/ "image" \in known /\ things' = things \ {"logs"} /\ UNCHANGED blamed
       \/ "image" \in known /\ blamed' = blamed \cup {"logs"} /\ UNCHANGED things
    /\ UNCHANGED <<image, vm, known, result, verdict, ran>>

(* One kind is listed.  The resources of other runs are found as well.     *)
List ==
    /\ pc \in {"check", "recheck"} /\ left > 0
    /\ left' = left - 1
    /\ found' \in {found \/ Present(left), TRUE}
    /\ UNCHANGED <<pc, cloud, known, result, verdict, ran, blamed>>

(* Without a full listing nothing is proved clean.  A Ctrl-C that came     *)
(* before goes on now, past main.                                          *)
Checked ==
    /\ pc = "check"
    /\ \/ left = 0 /\ verdict' = IF found THEN "dirty" ELSE "clean"
       \/ verdict' = "dirty"
    /\ pc' = IF result = "none" THEN "dead" ELSE "recheck"
    /\ left' = 5 /\ found' = FALSE
    /\ UNCHANGED <<cloud, known, result, ran, blamed>>

(* main: ok when the code ran and printed what it should, and the second   *)
(* check found nothing.                                                    *)
Summary ==
    /\ pc = "recheck" /\ left = 0
    /\ pc' = "done"
    /\ \/ result = "ran" /\ ~found /\ verdict' = "ok"
       \/ verdict' = "failed"
    /\ UNCHANGED <<cloud, known, left, result, found, ran, blamed>>

-----------------------------------------------------------------------------
(* The process is killed; Ctrl-C during teardown ends it as well.          *)
Die ==
    /\ pc \notin Final
    /\ pc' = "dead"
    /\ UNCHANGED <<cloud, known, left, result, found, verdict, ran, blamed>>

(* The cloud.                                                              *)
Service ==
    /\ \/ image = "building" /\ image' \in {"ready", "failed"} /\ UNCHANGED <<things, vm>>
       \/ image = "deleting" /\ image' = "none" /\ UNCHANGED <<things, vm>>
       \/ image \in {"building", "deleting"} /\ things' = things \cup {"logs"}
            /\ UNCHANGED <<image, vm>>
       \/ vm = "pending" /\ vm' \in {"running", "ended"} /\ UNCHANGED <<things, image>>
       \/ vm \in {"running", "stopping"} /\ vm' = "ended" /\ UNCHANGED <<things, image>>
    /\ UNCHANGED <<pc, known, left, result, found, verdict, ran, blamed>>

Driver ==
    \/ Precheck \/ Identity \/ CreateBucket \/ PutZip
    \/ CreateBuild \/ PutPolicy \/ CreateExec
    \/ CreateImage \/ FindBuild \/ AwaitBuild \/ RunVm \/ AwaitVm
    \/ Token \/ CodeRuns \/ PostFails
    \/ GetClient \/ Terminate \/ AwaitEnd \/ DeleteImage \/ AwaitGone
    \/ DeleteBucket \/ DeleteRoles \/ DeleteLogs \/ List \/ Checked \/ Summary

Next == Driver \/ Die \/ Service

Spec == Init /\ [][Next]_vars

(* Every call returns or raises: the run goes on.                          *)
FairSpec == Spec /\ WF_vars(Driver)

-----------------------------------------------------------------------------
(* Properties.                                                             *)
Gone == things = {} /\ image = "none" /\ vm \notin Alive

(* "True iff the prefix is clean": cleanup_check lists one kind after the  *)
(* other while the cloud goes on working, and yet what it calls clean is   *)
(* gone, and stays gone; so for the exit code of main.                     *)
CleanMeansGone == verdict \in {"clean", "ok"} => Gone

(* "Fail-closed: ... a caller never treats a half-built or unreachable     *)
(* sandbox as \"the code ran\"".                                           *)
AllowedMeansRan == result = "ran" => ran > 0

(* "Delete everything this run created": a resource is still there after   *)
(* the teardown only if a call about that very resource failed, or a loop  *)
(* waited for its end in vain until it was out of tries; no other failure  *)
(* costs more than its own resource.                                       *)
LeftoverExplained ==
    pc \in {"check", "recheck", "done"} =>
        /\ {"bucket", "zip"} \cap things # {} => "bucket" \in blamed
        /\ {"build", "policy"} \cap things # {} => "build" \in blamed
        /\ "exec" \in things => "exec" \in blamed
        /\ image # "none" => "image" \in blamed
        /\ vm \in Alive => "vm" \in blamed
        /\ "logs" \in things => {"logs", "image"} \cap blamed # {}

(* "always tear down": whatever the cloud answers, the run comes to an end.*)
RunEnds == <>(pc \in Final)
=============================================================================
