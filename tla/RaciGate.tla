------------------------------ MODULE RaciGate ------------------------------
(***************************************************************************)
(* Named-human approval, src/harness/raci_gate.py: a RaciGate assigns the  *)
(* Responsible and the Accountable of an action by the matrix, asks a      *)
(* judge (a language model) for the roles the matrix leaves open, and      *)
(* records the assignment and every sign-off on the audit trail.           *)
(*                                                                         *)
(* A pattern of the matrix is the set of control areas it matches; the     *)
(* scope of a bearer is the set of role names it contains.  A trail writes *)
(* an entry to its file after it has it in memory, and raises when it      *)
(* cannot: such an entry is in the trail and not written.                  *)
(***************************************************************************)
EXTENDS Integers, Sequences, SequencesExt

CONSTANTS
    Callers,     \* threads that call the gate: the pipeline, sign-off pages
    Areas,       \* control areas
    Actions,     \* action ids
    Bearers,     \* the list of bearers
    Matrices,    \* the matrices a tenant may have written
    Replies,     \* what the judge may answer: see Reply
    None,        \* Python's None
    Stranger,    \* an id that is no bearer's
    MaxIssued,   \* bound: assignments that are handed out
    MaxTrail     \* bound: entries of the trail

Ids == {Bearers[n].id : n \in DOMAIN Bearers}
Roles == {"r", "a"}
Sources == {"matrix", "llm_fallback"}

(* A reply that is JSON: a bearer id for each role, as the template asks,  *)
(* and whether it gives a reason for it.                                   *)
Reply == [bearer : [Roles -> Ids \cup {Stranger, "NONE"}],
          reason : [Roles -> BOOLEAN]]

(* A bearer as the assignment and the trail have it, and the assignment:   *)
(* others are the Consulted and the Informed, judged says that the         *)
(* reasoning is the judge's.                                               *)
Core == [id : Ids, source : Sources, judged : BOOLEAN]

Assignments ==
    [action : Actions, area : Areas, core : [Roles -> Core \cup {None}],
     others : SUBSET Range(Bearers),
     matrix_hit : BOOLEAN, used_llm : BOOLEAN, missing : BOOLEAN,
     needs_confirmation : BOOLEAN]

(* The Approval that approve records and returns.                          *)
Approvals == [action : Actions, approver : Ids \cup {Stranger}, approved : BOOLEAN]

ASSUME RaciAssumption ==
    /\ Bearers \in Seq(Range(Bearers))
    /\ \A m \in Matrices :
          m \in Seq(Range(m)) /\ \A n \in DOMAIN m : m[n].priority \in Int
    /\ Replies \subseteq Reply
    /\ MaxIssued \in Nat /\ MaxTrail \in Nat
    /\ None \notin Ids \cup Range(Bearers) \cup Assignments \cup Approvals
    /\ Stranger \notin Ids

VARIABLES
    matrix,       \* the rows as they were given to __init__
    call,         \* call[c]: the local state of a caller inside the gate
    issued,       \* the RaciAssignment objects the callers were handed
    trail,        \* the audit trail
    last_error    \* did the last judge call return nothing?

vars == <<matrix, call, issued, trail, last_error>>

-----------------------------------------------------------------------------
(* The deterministic lookup.                                               *)

(* sorted(key=priority, reverse=True) is stable: rows of one priority stay *)
(* in the order they were given.                                           *)
GoesBefore(m, n) ==
    \/ matrix[m].priority > matrix[n].priority
    \/ matrix[m].priority = matrix[n].priority /\ m < n

Sorted ==
    LET rows  == DOMAIN matrix
        order == CHOOSE s \in [rows -> rows] :
                    \A m, n \in rows : m < n => GoesBefore(s[m], s[n])
    IN  [n \in rows |-> matrix[order[n]]]

FirstIn(seq, P(_)) ==
    LET n == SelectInSeq(seq, P) IN IF n = 0 THEN None ELSE seq[n]

FindMatrixRule(area) == FirstIn(Sorted, LAMBDA row : area \in row.areas)

(* _by_name keeps the last bearer of a name; then the first one whose      *)
(* scope contains the role.                                                *)
ResolveRoleName(role) ==
    LET named == FirstIn(Reverse(Bearers), LAMBDA b : b.name = role)
    IN  IF named # None THEN named
        ELSE FirstIn(Bearers, LAMBDA b : role \in b.scope)

FromMatrix(rule) ==
    [k \in Roles |-> IF rule = None THEN None ELSE ResolveRoleName(rule[k])]

Unresolved(found) == {k \in Roles : found[k] = None}

Others(rule) ==
    IF rule = None THEN {}
    ELSE {ResolveRoleName(role) : role \in rule.ci} \ {None}

BearerById(id) == FirstIn(Bearers, LAMBDA b : b.id = id)

-----------------------------------------------------------------------------
(* assign, after the judge.                                                *)

NoReply == [bearer |-> [k \in Roles |-> "NONE"], reason |-> [k \in Roles |-> FALSE]]

(* The enum constraint of _judge_raci.                                     *)
Constrained(id) == IF id \in Ids \cup {"NONE"} THEN id ELSE None

Pick(reply, k, found) ==
    LET id == Constrained(reply.bearer[k])
    IN  IF k \notin Unresolved(found) \/ id \in {None, "NONE"}
        THEN found[k] ELSE BearerById(id)

(* Mutant: the judge's pick passes for policy.                             *)
EntryUnlabelled(reply, replied, k, found) ==
    LET b == Pick(reply, k, found)
    IN  IF b = None THEN None
        ELSE [id |-> b.id, source |-> "matrix", judged |-> reply.reason[k]]

(* _core and _why: the reasoning is the judge's where it gave one, for     *)
(* whichever role.                                                         *)
Entry(reply, replied, k, found) ==
    LET b == Pick(reply, k, found)
    IN  IF b = None THEN None
        ELSE [id |-> b.id,
              source |-> IF k \in Unresolved(found) /\ replied
                         THEN "llm_fallback" ELSE "matrix",
              judged |-> reply.reason[k]]

(* Mutant: provisional as soon as the judge was heard.                     *)
ProvisionalIfHeard(core, replied) == replied

Provisional(core, replied) ==
    core["a"] # None /\ core["a"].source = "llm_fallback"

(* Any reply that parses counts as the judge's, even one that names nobody.*)
Assignment(action, area, reply, replied) ==
    LET rule  == FindMatrixRule(area)
        found == FromMatrix(rule)
        core  == [k \in Roles |-> Entry(reply, replied, k, found)]
    IN  [action |-> action, area |-> area, core |-> core, others |-> Others(rule),
         matrix_hit |-> rule # None,
         used_llm |-> replied,
         missing |-> core["a"] = None,
         needs_confirmation |-> Provisional(core, replied)]

-----------------------------------------------------------------------------
Idle == [pc |-> "idle", asg |-> None, nth |-> 0, answer |-> None]

Init ==
    /\ matrix \in Matrices
    /\ call = [c \in Callers |-> Idle]
    /\ issued = << >>
    /\ trail = << >>
    /\ last_error = FALSE

(* assign: the matrix first, and the judge for what it leaves open.        *)
Assign(c, action, area) ==
    /\ call[c].pc = "idle"
    /\ Len(issued) < MaxIssued /\ Len(trail) < MaxTrail
    /\ LET open == Unresolved(FromMatrix(FindMatrixRule(area)))
       IN  /\ call' = [call EXCEPT ![c] =
                 [pc |-> IF open = {} THEN "log" ELSE "judge",
                  asg |-> Assignment(action, area, NoReply, FALSE),
                  nth |-> 0, answer |-> None]]
           /\ last_error' = (open = {} /\ last_error)
    /\ UNCHANGED <<matrix, issued, trail>>

JudgeReplies(c, reply) ==
    /\ call[c].pc = "judge"
    /\ call' = [call EXCEPT ![c].pc = "log",
           ![c].asg = Assignment(call[c].asg.action, call[c].asg.area, reply, TRUE)]
    /\ UNCHANGED <<matrix, issued, trail, last_error>>

(* No client, an API error, no JSON in the answer: _judge_raci returns {}. *)
JudgeFails(c) ==
    /\ call[c].pc = "judge"
    /\ call' = [call EXCEPT ![c].pc = "log"]
    /\ last_error' = TRUE
    /\ UNCHANGED <<matrix, issued, trail>>

(* The entry of raci_assigned; the caller has the assignment only when the *)
(* trail did not raise.                                                    *)
LogAssignment(c, written) ==
    /\ call[c].pc = "log"
    /\ trail' = Append(trail, [event |-> "raci_assigned", written |-> written,
                               asg |-> call[c].asg])
    /\ issued' = IF written THEN Append(issued, call[c].asg) ELSE issued
    /\ call' = [call EXCEPT ![c] = Idle]
    /\ UNCHANGED <<matrix, last_error>>

(* Mutant: an assignment approves whatever action is asked about.          *)
AnswersForAny(asg, action, approver) ==
    asg.core["a"] # None /\ approver = asg.core["a"].id

(* The guards of approve.                                                  *)
Answers(asg, action, approver) ==
    /\ action = asg.action
    /\ asg.core["a"] # None
    /\ approver = asg.core["a"].id

(* Mutant: whoever asks, the assignment counts as confirmed.               *)
ApproveConfirms(c, nth, action, approver, approved) ==
    /\ call[c].pc = "idle"
    /\ Len(trail) < MaxTrail
    /\ call' = [call EXCEPT ![c] = [pc |-> "record", asg |-> None, nth |-> nth,
           answer |-> [action |-> action, approver |-> approver,
                       approved |-> approved
                                    /\ Answers(issued[nth], action, approver)]]]
    /\ issued' = [issued EXCEPT ![nth].needs_confirmation = FALSE]
    /\ UNCHANGED <<matrix, trail, last_error>>

(* approve, up to the audit entry: the assignment is changed first.        *)
Approve(c, nth, action, approver, approved) ==
    /\ call[c].pc = "idle"
    /\ Len(trail) < MaxTrail
    /\ LET named == Answers(issued[nth], action, approver)
       IN  /\ call' = [call EXCEPT ![c] =
                 [pc |-> "record", asg |-> None, nth |-> nth,
                  answer |-> [action |-> action, approver |-> approver,
                              approved |-> approved /\ named]]]
           /\ issued' = [issued EXCEPT ![nth].needs_confirmation = @ /\ ~named]
    /\ UNCHANGED <<matrix, trail, last_error>>

(* Every attempt goes to the trail; approve returns the Approval only when *)
(* the entry is written.  Mutant: a trail that fails is not an error.      *)
RecordQuietly(c, written) ==
    /\ call[c].pc = "record"
    /\ trail' = Append(trail, [event |-> "approval_recorded", written |-> written,
                               answer |-> call[c].answer])
    /\ call' = [call EXCEPT ![c] = [Idle EXCEPT !.answer = call[c].answer]]
    /\ UNCHANGED <<matrix, issued, last_error>>

RecordApproval(c, written) ==
    /\ call[c].pc = "record"
    /\ trail' = Append(trail, [event |-> "approval_recorded", written |-> written,
                               answer |-> call[c].answer])
    /\ call' = [call EXCEPT ![c] =
                   [Idle EXCEPT !.answer = IF written THEN call[c].answer ELSE None]]
    /\ UNCHANGED <<matrix, issued, last_error>>

Next ==
    \E c \in Callers :
        \/ \E action \in Actions, area \in Areas : Assign(c, action, area)
        \/ \E reply \in Replies : JudgeReplies(c, reply)
        \/ JudgeFails(c)
        \/ \E written \in BOOLEAN : LogAssignment(c, written) \/ RecordApproval(c, written)
        \/ \E nth \in DOMAIN issued, action \in Actions,
              approver \in Ids \cup {Stranger}, approved \in BOOLEAN :
              Approve(c, nth, action, approver, approved)

Spec == Init /\ [][Next]_vars

-----------------------------------------------------------------------------
TypeOK ==
    /\ matrix \in Matrices
    /\ \A c \in Callers :
          /\ call[c].pc \in {"idle", "judge", "log", "record"}
          /\ call[c].pc \in {"judge", "log"} => call[c].asg # None
          /\ call[c].pc = "record" => call[c].nth \in DOMAIN issued
    /\ \A n \in DOMAIN trail :
          trail[n].event \in {"raci_assigned", "approval_recorded"}
    /\ \A i \in DOMAIN issued :
          issued[i].needs_confirmation => issued[i].used_llm /\ ~issued[i].missing
    /\ last_error \in BOOLEAN

Assigned(n) == trail[n].event = "raci_assigned"
Answered(n) == trail[n].event = "approval_recorded"

(* "Whose name is on this action?": an approval, on the trail or in the    *)
(* hands of a caller, is the decision of a person whom an assignment that  *)
(* is already in the trail's file made Accountable for this very action.   *)
ApprovedByAccountable ==
    LET NamedBefore(n, answer) ==
            \E m \in DOMAIN trail :
                /\ m < n /\ Assigned(m) /\ trail[m].written
                /\ trail[m].asg.action = answer.action
                /\ trail[m].asg.core["a"] # None
                /\ trail[m].asg.core["a"].id = answer.approver
    IN  /\ \A n \in DOMAIN trail :
              Answered(n) /\ trail[n].answer.approved
                  => NamedBefore(n, trail[n].answer)
        /\ \A c \in Callers :
              call[c].answer # None /\ call[c].answer.approved
                  => NamedBefore(Len(trail) + 1, call[c].answer)

(* The matrix as it is meant: the row of the highest priority that matches,*)
(* the earliest of equals, names the Accountable by its role.              *)
PolicyNames(area, id) ==
    \E n \in DOMAIN matrix :
        /\ area \in matrix[n].areas
        /\ \A m \in DOMAIN matrix \ {n} :
              area \in matrix[m].areas =>
                  \/ matrix[m].priority < matrix[n].priority
                  \/ matrix[m].priority = matrix[n].priority /\ n < m
        /\ ResolveRoleName(matrix[n]["a"]) # None
        /\ ResolveRoleName(matrix[n]["a"]).id = id

(* "The LLM never approves": an Accountable who does not come from the     *)
(* matrix stays provisional until that person's own answer about that      *)
(* action is on the trail, or in the call that is about to put it there.   *)
ProvisionalUntilSigned ==
    \A i \in DOMAIN issued :
        LET a == issued[i].core["a"]
            Own(answer) == answer.action = issued[i].action /\ answer.approver = a.id
        IN  a # None /\ ~issued[i].needs_confirmation =>
                \/ PolicyNames(issued[i].area, a.id)
                \/ \E n \in DOMAIN trail : Answered(n) /\ Own(trail[n].answer)
                \/ \E c \in Callers : call[c].pc = "record" /\ Own(call[c].answer)

(* Nobody acts on an answer the record has lost: what approve returned is  *)
(* in the file of the trail, though the assignment itself has changed by   *)
(* then and stays changed when the trail raises.                           *)
AnswersAreRecorded ==
    \A c \in Callers :
        call[c].pc = "idle" /\ call[c].answer # None =>
            \E n \in DOMAIN trail :
                Answered(n) /\ trail[n].written /\ trail[n].answer = call[c].answer

(* "its contribution is always labelled as such": a bearer the judge chose *)
(* is marked so in the trail, and where the trail has a reason the judge   *)
(* wrote, even on an entry the matrix resolved, the assignment says that   *)
(* the judge was heard.                                                    *)
JudgeIsMarked ==
    \A n \in DOMAIN trail : Assigned(n) =>
        LET asg  == trail[n].asg
            rule == FindMatrixRule(asg.area)
        IN  \A k \in Roles : asg.core[k] # None =>
                /\ asg.core[k].source = "matrix" =>
                       /\ FromMatrix(rule)[k] # None
                       /\ FromMatrix(rule)[k].id = asg.core[k].id
                /\ asg.core[k].source = "llm_fallback" \/ asg.core[k].judged
                       => asg.used_llm
=============================================================================
