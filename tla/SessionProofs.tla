--------------------------- MODULE SessionProofs ---------------------------
(* What a session guarantees for every number of threads, tenants and      *)
(* calls, every policy, and every max_turns.                               *)
EXTENDS Session, TLAPS

LEMMA BoundedSeqs ==
    ASSUME NEW S, NEW n \in Nat, NEW s
    PROVE  s \in BoundedSeq(S, n) <=> s \in Seq(S) /\ Len(s) \leq n
<1>1. ASSUME s \in BoundedSeq(S, n)
      PROVE  s \in Seq(S) /\ Len(s) \leq n
  BY <1>1 DEF BoundedSeq, SeqOf
<1>2. ASSUME s \in Seq(S), Len(s) \leq n
      PROVE  s \in BoundedSeq(S, n)
  <2>1. Len(s) \in 0 .. n /\ s \in [1 .. Len(s) -> S]
    BY <1>2
  <2>2. QED
    BY <2>1 DEF BoundedSeq, SeqOf
<1>3. QED
  BY <1>1, <1>2

LEMMA SeqElement ==
    ASSUME NEW S, NEW s \in Seq(S), NEW n \in 1 .. Len(s)
    PROVE  s[n] \in S
OBVIOUS

LEMMA EmptySeq ==
    ASSUME NEW S
    PROVE  << >> \in Seq(S) /\ Len(<< >>) = 0
OBVIOUS

(* The same, with sequences the provers know of.                           *)
AgentRecords ==
    [pc : {"none", "model", "tools", "returned", "raised"},
     turn : 0 .. MaxTurns,
     uses : Seq(Requests),
     nth : 0 .. MaxUses,
     results : Seq([q : Requests, ran : BOOLEAN])]

LEMMA AgentTypes ==
    ASSUME NEW r
    PROVE  r \in AgentStates <=>
              /\ r \in AgentRecords
              /\ Len(r.uses) \leq MaxUses /\ Len(r.results) \leq MaxUses
<1>1. r \in AgentStates => r.uses \in BoundedSeq(Requests, MaxUses)
                          /\ r.results \in BoundedSeq([q : Requests, ran : BOOLEAN], MaxUses)
  BY DEF AgentStates
<1>2. r \in AgentStates => r \in AgentRecords /\ Len(r.uses) \leq MaxUses
                                             /\ Len(r.results) \leq MaxUses
  BY <1>1, BoundedSeqs, AgentAssumption DEF AgentStates, AgentRecords
<1>3. ASSUME r \in AgentRecords, Len(r.uses) \leq MaxUses, Len(r.results) \leq MaxUses
      PROVE  r \in AgentStates
  <2>1. r.uses \in BoundedSeq(Requests, MaxUses)
        /\ r.results \in BoundedSeq([q : Requests, ran : BOOLEAN], MaxUses)
    BY <1>3, BoundedSeqs, AgentAssumption DEF AgentRecords
  <2>2. QED
    BY <1>3, <2>1 DEF AgentStates, AgentRecords
<1>4. QED
  BY <1>2, <1>3

-----------------------------------------------------------------------------
(* What a step does to the gate.                                           *)
GateMove(t) ==
    \/ \E s \in Scopes, q \in Requests : Enter(t, s, q) \/ Refuse(t, s, q)
    \/ Return(t) \/ Lookup(t) \/ Finalize(t) \/ StartReview(t) \/ Answer(t)
    \/ WorkerEnds(t) \/ JoinReturns(t) \/ Look(t) \/ Remember(t)

(* An approval counts for a call only while it waits.                      *)
GateInv ==
    /\ cache \subseteq yes
    /\ \A t \in Threads :
          /\ call[t].pc \in {"lookup", "resolve", "ask"} =>
                call[t].worker = "none" /\ call[t].answer = "none"
          /\ call[t].pc \in {"join", "look"} /\ call[t].answer = "approved"
                => <<call[t].scope, call[t].q>> \in yes
          /\ call[t].pc = "record" => <<call[t].scope, call[t].q>> \in yes
          /\ call[t].pc \notin {"idle", "done"} => ~policy[call[t].q].blocked
          /\ call[t].result = "allow" => Cleared(call[t].scope, call[t].q)

LEMMA NoCallIsCall ==
    ASSUME NEW s \in Scopes, NEW q \in Requests
    PROVE  NoCall(s, q) \in Call
BY DEF NoCall, Call

(* Every state a step leaves a call in is a state of a call.               *)
LEMMA CallTypes ==
    ASSUME NEW c \in Call
    PROVE  /\ \A pc \in {"idle", "lookup", "resolve", "ask", "join", "look", "record"} :
                 [c EXCEPT !.pc = pc] \in Call
           /\ \A r \in {"allow", "deny"} : [c EXCEPT !.pc = "done", !.result = r] \in Call
           /\ [c EXCEPT !.pc = "join", !.worker = "asking"] \in Call
           /\ \A a \in {"approved", "refused"} :
                 [c EXCEPT !.worker = "answered", !.answer = a] \in Call
           /\ [c EXCEPT !.worker = "ended"] \in Call
BY DEF Call

LEMMA BecomesTypes ==
    ASSUME call \in [Threads -> Call], NEW t \in Threads, NEW c \in Call, Becomes(t, c)
    PROVE  /\ call' \in [Threads -> Call]
           /\ call'[t] = c
           /\ \A u \in Threads \ {t} : call'[u] = call[u]
BY DEF Becomes

LEMMA KeyTypes ==
    ASSUME GateTypeOK, NEW t \in Threads
    PROVE  Key(t) = <<call[t].scope, call[t].q>> /\ Key(t) \in Keys
BY DEF GateTypeOK, Call, Key, CacheKey, Keys

LEMMA GateMoveTypes ==
    ASSUME GateTypeOK, NEW t \in Threads, GateMove(t)
    PROVE  GateTypeOK'
<1>0. call[t] \in Call /\ call[t].scope \in Scopes /\ call[t].q \in Requests
  BY DEF GateTypeOK, Call
<1> DEFINE Moved == /\ \E c \in Call : Becomes(t, c)
                    /\ policy' = policy /\ cache' \subseteq Keys /\ yes' \subseteq Keys
<1> SUFFICES Moved
  BY BecomesTypes DEF GateTypeOK
<1>1. ASSUME NEW s \in Scopes, NEW q \in Requests, Enter(t, s, q) \/ Refuse(t, s, q)
      PROVE  \E c \in Call : Becomes(t, c)
  <2>1. [NoCall(s, q) EXCEPT !.pc = "done", !.result = "deny"] \in Call
        /\ [NoCall(s, q) EXCEPT !.pc = "lookup"] \in Call
    BY NoCallIsCall, CallTypes
  <2>2. QED
    BY <1>1, <2>1 DEF Enter, Refuse
<1>2. CASE Return(t)
  BY <1>0, <1>2, NoCallIsCall DEF Return, GateTypeOK
<1>3. CASE Lookup(t)
  BY <1>0, <1>3, CallTypes DEF Lookup, Decide, Go, GateTypeOK
<1>4. CASE Finalize(t)
  <2>1. Resolution(call[t].q) \in Decisions
    BY <1>0, PolicyAssumption DEF Resolution, PolicyRecords, Decisions, GateTypeOK
  <2>2. QED
    BY <1>0, <1>4, <2>1, CallTypes DEF Finalize, Decide, Go, Decisions, GateTypeOK
<1>5. CASE StartReview(t)
  BY <1>0, <1>5, CallTypes DEF StartReview, GateTypeOK
<1>6. CASE Answer(t)
  BY <1>0, <1>6, CallTypes, KeyTypes DEF Answer, GateTypeOK
<1>7. CASE WorkerEnds(t)
  BY <1>0, <1>7, CallTypes DEF WorkerEnds, GateTypeOK
<1>8. CASE JoinReturns(t)
  BY <1>0, <1>8, CallTypes DEF JoinReturns, Go, GateTypeOK
<1>9. CASE Look(t)
  BY <1>0, <1>9, CallTypes DEF Look, Decide, Go, GateTypeOK
<1>10. CASE Remember(t)
  BY <1>0, <1>10, CallTypes, KeyTypes DEF Remember, Decide, GateTypeOK
<1>11. ASSUME NEW s \in Scopes, NEW q \in Requests, Enter(t, s, q) \/ Refuse(t, s, q)
       PROVE  policy' = policy /\ cache' = cache /\ yes' = yes
  BY <1>11 DEF Enter, Refuse
<1>12. QED
  BY <1>1, <1>2, <1>3, <1>4, <1>5, <1>6, <1>7, <1>8, <1>9, <1>10, <1>11
     DEF GateMove, GateTypeOK

LEMMA GateMoveKeepsInv ==
    ASSUME GateTypeOK, GateInv, NEW t \in Threads, GateMove(t)
    PROVE  GateInv'
<1>0. call[t] \in Call /\ call[t].scope \in Scopes /\ call[t].q \in Requests
  BY DEF GateTypeOK, Call
<1>1. policy' = policy /\ yes \subseteq yes'
  BY DEF GateMove, Enter, Refuse, Return, Lookup, Finalize, StartReview, Answer,
         WorkerEnds, JoinReturns, Look, Remember
<1>2. \A u \in Threads \ {t} : call'[u] = call[u]
  <2>1. GateMove(t) => \E c : Becomes(t, c)
    BY DEF GateMove, Enter, Refuse, Return, Lookup, Finalize, StartReview, Answer,
           WorkerEnds, JoinReturns, Look, Remember, Decide, Go
  <2>2. QED
    BY <2>1 DEF Becomes, GateTypeOK
(* What is left to show: the new state of thread t, and the cache.         *)
<1> DEFINE c == call'[t]
<1> DEFINE Good ==
      /\ cache' \subseteq yes'
      /\ c.pc \in {"lookup", "resolve", "ask"} => c.worker = "none" /\ c.answer = "none"
      /\ c.pc \in {"join", "look"} /\ c.answer = "approved" => <<c.scope, c.q>> \in yes'
      /\ c.pc = "record" => <<c.scope, c.q>> \in yes'
      /\ c.pc \notin {"idle", "done"} => ~policy[c.q].blocked
      /\ c.result = "allow" =>
            /\ ~policy[c.q].blocked
            /\ Resolution(c.q) = "allow" \/ <<c.scope, c.q>> \in yes'
<1>a. \A q \in Requests : Resolution(q)' = Resolution(q)
  BY <1>1 DEF Resolution
<1> SUFFICES Good
  BY <1>1, <1>2, <1>a, GateMoveTypes DEF GateInv, GateTypeOK, Call, Cleared
<1> USE DEF Call, GateTypeOK, GateInv, Cleared
<1>3. ASSUME NEW s \in Scopes, NEW q \in Requests, Enter(t, s, q)
      PROVE  Good
  BY <1>3 DEF Enter, Becomes, NoCall
<1>4. ASSUME NEW s \in Scopes, NEW q \in Requests, Refuse(t, s, q)
      PROVE  Good
  BY <1>4 DEF Refuse, Becomes, NoCall
<1>5. CASE Return(t)
  BY <1>0, <1>5 DEF Return, Becomes, NoCall
<1>6. CASE Lookup(t)
  <2>1. CASE Key(t) \in cache
    <3>1. c = [call[t] EXCEPT !.pc = "done", !.result = "allow"] /\ cache' = cache
      BY <1>6, <2>1 DEF Lookup, Decide, Becomes
    <3>2. <<call[t].scope, call[t].q>> \in yes' /\ call[t].pc = "lookup"
      BY <1>1, <1>6, <2>1, KeyTypes DEF Lookup
    <3>3. QED
      BY <1>0, <1>1, <3>1, <3>2
  <2>2. CASE Key(t) \notin cache
    <3>1. c = [call[t] EXCEPT !.pc = "resolve"] /\ cache' = cache /\ call[t].pc = "lookup"
      BY <1>6, <2>2 DEF Lookup, Go, Becomes
    <3>2. QED
      BY <1>0, <1>1, <3>1
  <2>3. QED
    BY <2>1, <2>2
<1>7. CASE Finalize(t)
  <2>1. CASE Resolution(call[t].q) = "ask"
    <3>1. c = [call[t] EXCEPT !.pc = "ask"] /\ cache' = cache /\ call[t].pc = "resolve"
      BY <1>7, <2>1 DEF Finalize, Go, Becomes
    <3>2. QED
      BY <1>0, <1>1, <3>1
  <2>2. CASE Resolution(call[t].q) # "ask"
    <3>1. /\ c = [call[t] EXCEPT !.pc = "done", !.result = Resolution(call[t].q)]
          /\ cache' = cache /\ call[t].pc = "resolve"
      BY <1>7, <2>2 DEF Finalize, Decide, Becomes
    <3>2. QED
      BY <1>0, <1>1, <3>1
  <2>3. QED
    BY <2>1, <2>2
<1>8. CASE StartReview(t)
  BY <1>0, <1>8 DEF StartReview, Becomes
<1>9. CASE Answer(t)
  <2>1. PICK a \in {"approved", "refused"} :
           /\ c = [call[t] EXCEPT !.worker = "answered", !.answer = a]
           /\ yes' = IF a = "approved" /\ call[t].pc \in {"join", "look"}
                     THEN yes \cup {Key(t)} ELSE yes
    BY <1>9 DEF Answer, Becomes
  <2>2. cache' = cache /\ call[t].worker = "asking"
    BY <1>9 DEF Answer
  <2>3. /\ c.pc = call[t].pc /\ c.scope = call[t].scope /\ c.q = call[t].q
        /\ c.result = call[t].result /\ c.answer = a
    BY <1>0, <2>1
  <2>4. c.pc \notin {"lookup", "resolve", "ask"}
    BY <1>0, <2>2, <2>3
  <2>5. c.pc \in {"join", "look"} /\ c.answer = "approved" => <<c.scope, c.q>> \in yes'
    BY <2>1, <2>3, KeyTypes
  <2>6. QED
    BY <1>0, <1>1, <2>2, <2>3, <2>4, <2>5
<1>10. CASE WorkerEnds(t)
  BY <1>0, <1>10 DEF WorkerEnds, Becomes
<1>11. CASE JoinReturns(t)
  BY <1>0, <1>11 DEF JoinReturns, Go, Becomes
<1>12. CASE Look(t)
  <2>1. CASE call[t].worker = "ended" /\ call[t].answer = "approved"
    <3>1. c = [call[t] EXCEPT !.pc = "record"] /\ cache' = cache /\ call[t].pc = "look"
      BY <1>12, <2>1 DEF Look, Go, Becomes
    <3>2. QED
      BY <1>0, <1>1, <2>1, <3>1
  <2>2. CASE ~(call[t].worker = "ended" /\ call[t].answer = "approved")
    <3>1. c = [call[t] EXCEPT !.pc = "done", !.result = "deny"] /\ cache' = cache
      BY <1>12, <2>2 DEF Look, Decide, Becomes
    <3>2. QED
      BY <1>0, <1>1, <3>1
  <2>3. QED
    BY <2>1, <2>2
<1>13. CASE Remember(t)
  BY <1>0, <1>13, KeyTypes DEF Remember, Decide, Becomes
<1>14. QED
  BY <1>3, <1>4, <1>5, <1>6, <1>7, <1>8, <1>9, <1>10, <1>11, <1>12, <1>13 DEF GateMove

LEMMA GateRests ==
    ASSUME GateTypeOK, GateInv, UNCHANGED gateVars
    PROVE  GateTypeOK' /\ GateInv'
<1>1. \A q \in Requests : Resolution(q)' = Resolution(q)
  BY DEF gateVars, Resolution
<1>2. QED
  BY <1>1 DEF gateVars, GateTypeOK, GateInv, Cleared, Call

-----------------------------------------------------------------------------
(* A call that may still end, or has ended, with an ALLOW.                 *)
Live(t) == call[t].pc \notin {"idle", "done"} \/ call[t].result = "allow"

(* Such a call of the tenant scope was permitted when it began.            *)
ScopeInv ==
    \A t \in Threads :
        Serves(t) /\ Live(t) =>
            /\ call[t].scope # NoTenant
            /\ call[t].q \in surface
            /\ seen[t] \in {call[t].scope, Untargeted}

(* The results an agent has collected are those of its first nth calls; a  *)
(* call of the gate it is in is the next one, and has no tenant.           *)
AgentInvOf(t) ==
    LET a == agent[t]
    IN  /\ a.pc \in {"model", "tools"} =>
              /\ Len(a.results) = a.nth
              /\ a.nth \leq Len(a.uses)
              /\ \A n \in 1 .. a.nth : a.results[n].q = a.uses[n]
        /\ a.pc = "model" => a.nth = Len(a.uses)
        /\ a.pc # "none" /\ call[t].pc # "idle" =>
              /\ a.pc = "tools"
              /\ a.nth < Len(a.uses)
              /\ call[t].q = a.uses[a.nth + 1]
              /\ call[t].scope = NoTenant
        /\ \A n \in 1 .. Len(a.results) :
              a.results[n].ran => Cleared(NoTenant, a.results[n].q)

AgentInv == \A t \in Threads : AgentInvOf(t)

IInv == TypeOK /\ GateInv /\ ScopeInv /\ AgentInv

(* The steps inside a call do not change what it is about, nor bring back  *)
(* one that was refused.                                                   *)
LEMMA InsideCall ==
    ASSUME GateTypeOK, NEW t \in Threads, GateStep(t) \/ ReviewerStep(t)
    PROVE  /\ \A u \in Threads \ {t} : call'[u] = call[u]
           /\ call'[t].scope = call[t].scope /\ call'[t].q = call[t].q
           /\ call'[t].pc = "idle" <=> call[t].pc = "idle"
           /\ Live(t)' => Live(t)
<1>0. call[t] \in Call /\ call \in [Threads -> Call]
  BY DEF GateTypeOK
<1> DEFINE Ok(c) == /\ c.scope = call[t].scope /\ c.q = call[t].q
                    /\ c.pc = "idle" <=> call[t].pc = "idle"
                    /\ c.pc \notin {"idle", "done"} \/ c.result = "allow" => Live(t)
<1> SUFFICES \E c \in Call : Becomes(t, c) /\ Ok(c)
  BY <1>0 DEF Becomes, Live
<1>1. ASSUME NEW pc \in {"resolve", "ask", "look", "record"}, Go(t, pc),
             call[t].pc \notin {"idle", "done"}
      PROVE  \E c \in Call : Becomes(t, c) /\ Ok(c)
  <2>1. [call[t] EXCEPT !.pc = pc] \in Call /\ Ok([call[t] EXCEPT !.pc = pc])
    BY <1>0, <1>1 DEF Call, Live
  <2>2. QED
    BY <1>1, <2>1 DEF Go
<1>2. ASSUME NEW r \in {"allow", "deny"}, Decide(t, r), call[t].pc \notin {"idle", "done"}
      PROVE  \E c \in Call : Becomes(t, c) /\ Ok(c)
  <2>1. [call[t] EXCEPT !.pc = "done", !.result = r] \in Call
        /\ Ok([call[t] EXCEPT !.pc = "done", !.result = r])
    BY <1>0, <1>2 DEF Call, Live
  <2>2. QED
    BY <1>2, <2>1 DEF Decide
<1>3. CASE Lookup(t)
  BY <1>1, <1>2, <1>3 DEF Lookup
<1>4. CASE Finalize(t)
  <2>1. Resolution(call[t].q) \in Decisions
    BY PolicyAssumption DEF Resolution, PolicyRecords, Decisions, GateTypeOK, Call
  <2>2. QED
    BY <1>1, <1>2, <1>4, <2>1 DEF Finalize, Decisions
<1>5. CASE StartReview(t)
  <2>1. [call[t] EXCEPT !.pc = "join", !.worker = "asking"] \in Call
        /\ Ok([call[t] EXCEPT !.pc = "join", !.worker = "asking"])
    BY <1>0, <1>5 DEF Call, Live, StartReview
  <2>2. QED
    BY <1>5, <2>1 DEF StartReview
<1>6. CASE Answer(t)
  <2>1. \A a \in {"approved", "refused"} :
           [call[t] EXCEPT !.worker = "answered", !.answer = a] \in Call
           /\ Ok([call[t] EXCEPT !.worker = "answered", !.answer = a])
    BY <1>0 DEF Call, Live
  <2>2. QED
    BY <1>6, <2>1 DEF Answer
<1>7. CASE WorkerEnds(t)
  <2>1. [call[t] EXCEPT !.worker = "ended"] \in Call
        /\ Ok([call[t] EXCEPT !.worker = "ended"])
    BY <1>0 DEF Call, Live
  <2>2. QED
    BY <1>7, <2>1 DEF WorkerEnds
<1>8. CASE JoinReturns(t)
  BY <1>1, <1>8 DEF JoinReturns
<1>9. CASE Look(t)
  BY <1>1, <1>2, <1>9 DEF Look
<1>10. CASE Remember(t)
  BY <1>2, <1>10 DEF Remember
<1>11. QED
  BY <1>3, <1>4, <1>5, <1>6, <1>7, <1>8, <1>9, <1>10 DEF GateStep, ReviewerStep

(* A call begins only where none is under way, and ends with Return.       *)
LEMMA CallBegins ==
    ASSUME GateTypeOK, NEW t \in Threads, NEW s \in Scopes, NEW q \in Requests,
           Enter(t, s, q) \/ Refuse(t, s, q)
    PROVE  /\ \A u \in Threads \ {t} : call'[u] = call[u]
           /\ call[t].pc = "idle"
           /\ call'[t].scope = s /\ call'[t].q = q
           /\ Refuse(t, s, q) => ~Live(t)'
BY DEF Enter, Refuse, Becomes, NoCall, GateTypeOK, Live

LEMMA CallEnds ==
    ASSUME GateTypeOK, NEW t \in Threads, Return(t)
    PROVE  /\ \A u \in Threads \ {t} : call'[u] = call[u]
           /\ call'[t].pc = "idle" /\ ~Live(t)'
BY DEF Return, Becomes, NoCall, GateTypeOK, Live

(* What is cleared stays cleared.                                          *)
LEMMA ClearedStays ==
    ASSUME NEW s, NEW q \in Requests, policy' = policy, yes \subseteq yes', Cleared(s, q)
    PROVE  Cleared(s, q)'
BY DEF Cleared, Resolution

-----------------------------------------------------------------------------
(* What a step of the session does to the gate.                            *)
LEMMA NextMovesGate ==
    ASSUME TypeOK, [Next]_vars
    PROVE  UNCHANGED gateVars \/ \E t \in Threads : GateMove(t)
<1>0. GateTypeOK /\ NoTenant \in Scopes
  BY PolicyAssumption DEF TypeOK
<1>1. ASSUME NEW t \in Threads, AgentStep(t)
      PROVE  UNCHANGED gateVars \/ GateMove(t)
  <2>1. CASE AskGate(t)
    <3>1. agent[t] \in AgentRecords
      BY AgentTypes DEF TypeOK
    <3>2. agent[t].uses[agent[t].nth + 1] \in Requests
      BY <2>1, <3>1, AgentAssumption DEF AskGate, AgentRecords
    <3>3. QED
      BY <1>0, <2>1, <3>2 DEF AskGate, GateMove
  <2>2. CASE TakeResult(t)
    BY <2>2 DEF TakeResult, GateMove
  <2>3. QED
    BY <1>1, <2>1, <2>2
       DEF AgentStep, ConverseRaises, ModelEnds, ModelUses, TurnsOver, Feed
<1>2. ASSUME NEW t \in Threads, Serve(t)
      PROVE  GateMove(t)
  BY <1>2 DEF Serve, BeforeTool, GateMove
<1>3. ASSUME NEW t \in Threads, Prompt(t)
      PROVE  UNCHANGED gateVars
  BY <1>3 DEF Prompt, RunAgain
<1>4. ASSUME NEW t \in Threads, RunGate(t) \/ Review(t)
      PROVE  GateMove(t)
  BY <1>4 DEF RunGate, Review, GateStep, ReviewerStep, GateMove
<1>5. World => UNCHANGED gateVars
  BY DEF World, Reassign
<1>6. UNCHANGED vars => UNCHANGED gateVars
  BY DEF vars, gateVars
<1>7. QED
  BY <1>1, <1>2, <1>3, <1>4, <1>5, <1>6 DEF Next, RunAgent

LEMMA GateNext ==
    ASSUME TypeOK, GateInv, [Next]_vars
    PROVE  /\ GateTypeOK' /\ GateInv'
           /\ policy' = policy /\ yes \subseteq yes'
<1>1. GateTypeOK
  BY DEF TypeOK
<1>2. ASSUME NEW t \in Threads, GateMove(t)
      PROVE  policy' = policy /\ yes \subseteq yes'
  BY <1>2 DEF GateMove, Enter, Refuse, Return, Lookup, Finalize, StartReview,
         Answer, WorkerEnds, JoinReturns, Look, Remember
<1>3. UNCHANGED gateVars => policy' = policy /\ yes' = yes
  BY DEF gateVars
<1>4. QED
  BY <1>1, <1>2, <1>3, NextMovesGate, GateRests, GateMoveTypes, GateMoveKeepsInv

LEMMA TenantNext ==
    ASSUME TypeOK, [Next]_vars
    PROVE  TenantTypeOK' /\ surface' = surface
<1>0. TenantTypeOK /\ Unresolved \in Owners
  BY DEF TypeOK, Owners
<1>1. ASSUME NEW t \in Threads, NEW s \in Scopes, NEW q \in Requests, BeforeTool(t, s, q)
      PROVE  TenantTypeOK' /\ surface' = surface
  BY <1>0, <1>1 DEF BeforeTool, TenantTypeOK
<1>2. ASSUME NEW t \in Threads, Forget(t)
      PROVE  TenantTypeOK' /\ surface' = surface
  BY <1>0, <1>2 DEF Forget, TenantTypeOK
<1>3. ASSUME NEW q \in Requests, NEW o \in Owners, Reassign(q, o)
      PROVE  TenantTypeOK' /\ surface' = surface
  BY <1>0, <1>3 DEF Reassign, TenantTypeOK
<1>4. ASSUME UNCHANGED tenantVars
      PROVE  TenantTypeOK' /\ surface' = surface
  BY <1>0, <1>4 DEF tenantVars, TenantTypeOK
<1>5. UNCHANGED vars => UNCHANGED tenantVars
  BY DEF vars, tenantVars
<1>6. QED
  BY <1>1, <1>2, <1>3, <1>4, <1>5
     DEF Next, Serve, RunAgent, Prompt, RunGate, Review, World

(* A step changes the run of at most one agent, and does not make a        *)
(* service out of an agent or the reverse.                                 *)
LEMMA RunsTypes ==
    ASSUME TypeOK, NEW t \in Threads, NEW r \in AgentStates, Runs(t, r)
    PROVE  /\ agent' \in [Threads -> AgentStates]
           /\ agent'[t] = r
           /\ \A u \in Threads \ {t} : agent'[u] = agent[u]
BY DEF Runs, TypeOK

LEMMA RunsMade ==
    ASSUME NEW pc \in {"none", "model", "tools"}, NEW turn \in 0 .. MaxTurns,
           NEW uses \in Seq(Requests),
           NEW results \in Seq([q : Requests, ran : BOOLEAN])
    PROVE  [pc |-> pc, turn |-> turn, uses |-> uses, nth |-> 0, results |-> results]
              \in AgentRecords
<1>1. 0 \in 0 .. MaxUses
  BY AgentAssumption
<1>2. QED
  BY <1>1 DEF AgentRecords

LEMMA FreshIsRun ==
    ASSUME NEW pc \in {"none", "model", "tools"}, NEW turn \in 0 .. MaxTurns,
           NEW uses \in Seq(Requests), Len(uses) \leq MaxUses
    PROVE  Fresh(pc, turn, uses) \in AgentStates
<1>1. 0 \in 0 .. MaxTurns /\ 0 \leq MaxUses
  BY AgentAssumption
<1>2. /\ Len(<< >>) = 0
      /\ << >> \in Seq([q : Requests, ran : BOOLEAN])
  BY EmptySeq
<1> DEFINE e == << >>
           r == [pc |-> pc, turn |-> turn, uses |-> uses, nth |-> 0, results |-> e]
<1>3. e \in Seq([q : Requests, ran : BOOLEAN]) /\ Len(e) = 0
  BY <1>2
<1>4. Fresh(pc, turn, uses) = r
  BY DEF Fresh
<1> HIDE DEF e
<1>5. r \in AgentRecords
  BY <1>3, RunsMade
<1>6. r.uses = uses /\ r.results = e
  OBVIOUS
<1>7. r \in AgentStates
  BY <1>1, <1>3, <1>5, <1>6, AgentTypes
<1> HIDE DEF r
<1>8. QED
  BY <1>4, <1>7

(* Each step of the loop leaves the agent in a state of a run.             *)
LEMMA AgentStepTypes ==
    ASSUME IInv, NEW t \in Threads, AgentStep(t) \/ RunAgain(t)
    PROVE  UNCHANGED agent \/ \E r \in AgentStates : Runs(t, r)
<1> DEFINE a == agent[t]
<1>1. /\ a \in AgentStates /\ a \in AgentRecords
      /\ Len(a.uses) \leq MaxUses /\ Len(a.results) \leq MaxUses
  BY AgentTypes DEF IInv, TypeOK
<1>2. \A pc \in {"none", "model", "tools", "returned", "raised"} :
         [a EXCEPT !.pc = pc] \in AgentStates
  BY <1>1 DEF AgentStates
<1>3. CASE ConverseRaises(t) \/ ModelEnds(t) \/ TurnsOver(t) \/ Feed(t)
  BY <1>2, <1>3 DEF ConverseRaises, ModelEnds, TurnsOver, Feed
<1>4. ASSUME NEW uses \in BoundedSeq(Requests, MaxUses), ModelUses(t, uses)
      PROVE  \E r \in AgentStates : Runs(t, r)
  <2>1. uses \in Seq(Requests) /\ Len(uses) \leq MaxUses
    BY BoundedSeqs, AgentAssumption
  <2>2. a.turn + 1 \in 0 .. MaxTurns
    BY <1>1, <1>4, AgentAssumption DEF ModelUses, AgentRecords
  <2>3. QED
    BY <1>4, <2>1, <2>2, FreshIsRun DEF ModelUses
<1>5. CASE TakeResult(t)
  <2> DEFINE x == [q |-> call[t].q, ran |-> call[t].result = "allow"]
             r == [a EXCEPT !.nth = @ + 1, !.results = Append(@, x)]
  <2>1. x \in [q : Requests, ran : BOOLEAN]
    BY DEF IInv, TypeOK, GateTypeOK, Call
  <2>2. a.pc = "tools" /\ Len(a.results) = a.nth /\ a.nth < Len(a.uses)
    BY <1>5 DEF TakeResult, IInv, AgentInv, AgentInvOf
  <2>3. a.nth \in Nat /\ a.nth + 1 \in 0 .. MaxUses /\ a.uses \in Seq(Requests)
        /\ a.results \in Seq([q : Requests, ran : BOOLEAN])
    BY <1>1, <2>2, AgentAssumption DEF AgentRecords
  <2>4. Append(a.results, x) \in Seq([q : Requests, ran : BOOLEAN])
        /\ Len(Append(a.results, x)) = a.nth + 1
    BY <2>1, <2>2, <2>3
  <2>5. r \in AgentRecords /\ r.uses = a.uses /\ r.results = Append(a.results, x)
    BY <1>1, <2>3, <2>4 DEF AgentRecords
  <2>6. Len(r.uses) \leq MaxUses /\ Len(r.results) \leq MaxUses
    BY <1>1, <2>3, <2>4, <2>5, AgentAssumption
  <2>7. Runs(t, r)
    BY <1>5 DEF TakeResult
  <2> HIDE DEF r
  <2>8. QED
    BY <2>5, <2>6, <2>7, AgentTypes
<1>6. CASE AskGate(t)
  BY <1>6 DEF AskGate
<1>7. CASE RunAgain(t)
  <2>1. 0 \in 0 .. MaxTurns /\ 0 \leq MaxUses
    BY AgentAssumption
  <2>2. QED
    BY <1>7, <2>1, FreshIsRun, EmptySeq DEF RunAgain, Prompted
<1>8. QED
  BY <1>3, <1>4, <1>5, <1>6, <1>7 DEF AgentStep

-----------------------------------------------------------------------------
LEMMA AgentFrame ==
    ASSUME IInv, NEW t \in Threads, AgentStep(t) \/ RunAgain(t)
    PROVE  /\ \A u \in Threads \ {t} : agent'[u] = agent[u] /\ call'[u] = call[u]
           /\ agent[t].pc # "none" /\ agent'[t].pc # "none"
<1>0. TypeOK /\ GateTypeOK /\ agent \in [Threads -> AgentStates] /\ NoTenant \in Scopes
  BY PolicyAssumption DEF IInv, TypeOK
<1>1. agent[t] \in AgentRecords
  BY <1>0, AgentTypes
<1>2. \A u \in Threads \ {t} : agent'[u] = agent[u]
  BY <1>0, AgentStepTypes, RunsTypes
<1>3. \A u \in Threads \ {t} : call'[u] = call[u]
  <2>1. CASE AskGate(t)
    <3>1. agent[t].uses[agent[t].nth + 1] \in Requests
      BY <1>1, <2>1, AgentAssumption DEF AskGate, AgentRecords
    <3>2. QED
      BY <1>0, <2>1, <3>1, CallBegins DEF AskGate
  <2>2. CASE TakeResult(t)
    BY <1>0, <2>2, CallEnds DEF TakeResult
  <2>3. QED
    BY <2>1, <2>2 DEF AgentStep, ConverseRaises, ModelEnds, ModelUses, TurnsOver,
                      Feed, RunAgain, gateVars
<1>4. agent[t].pc # "none"
  BY DEF AgentStep, ConverseRaises, ModelEnds, ModelUses, TurnsOver, AskGate,
         TakeResult, Feed, RunAgain
<1>5. agent'[t].pc # "none"
  <2>1. CASE ConverseRaises(t) \/ ModelEnds(t) \/ TurnsOver(t) \/ Feed(t)
    BY <1>0, <1>1, <2>1 DEF ConverseRaises, ModelEnds, TurnsOver, Feed, Runs, AgentRecords
  <2>2. ASSUME NEW uses, ModelUses(t, uses)
        PROVE  agent'[t].pc # "none"
    BY <1>0, <2>2 DEF ModelUses, Runs, Fresh
  <2>3. CASE AskGate(t)
    BY <1>4, <2>3 DEF AskGate
  <2>4. CASE TakeResult(t)
    BY <1>0, <1>1, <1>4, <2>4 DEF TakeResult, Runs, AgentRecords
  <2>5. CASE RunAgain(t)
    BY <1>0, <2>5 DEF RunAgain, Runs, Prompted, Fresh
  <2>6. QED
    BY <2>1, <2>2, <2>3, <2>4, <2>5 DEF AgentStep
<1>6. QED
  BY <1>2, <1>3, <1>4, <1>5

LEMMA ScopeNext ==
    ASSUME IInv, [Next]_vars
    PROVE  ScopeInv'
<1>0. GateTypeOK /\ TenantTypeOK /\ TypeOK /\ ScopeInv /\ surface' = surface
  BY TenantNext DEF IInv, TypeOK
<1> DEFINE Kept(u) ==
      /\ Live(u)' => Live(u)
      /\ call'[u].scope = call[u].scope /\ call'[u].q = call[u].q
      /\ seen'[u] = seen[u]
<1>1. \A u \in Threads : Kept(u) /\ agent'[u] = agent[u] =>
         (Serves(u) /\ Live(u) =>
            /\ call[u].scope # NoTenant
            /\ call[u].q \in surface
            /\ seen[u] \in {call[u].scope, Untargeted})'
  BY <1>0 DEF ScopeInv, Serves
<1>2. ASSUME NEW t \in Threads, NEW s \in Scopes, NEW q \in Requests, BeforeTool(t, s, q),
             agent' = agent
      PROVE  ScopeInv'
  <2>1. Enter(t, s, q) \/ Refuse(t, s, q)
    BY <1>2 DEF BeforeTool
  <2>2. \A u \in Threads \ {t} : Kept(u)
    BY <1>0, <1>2, <2>1, CallBegins DEF BeforeTool, Live, TenantTypeOK
  <2>3. call'[t].scope = s /\ call'[t].q = q /\ seen'[t] = owner[q]
    BY <1>0, <1>2, <2>1, CallBegins DEF BeforeTool, TenantTypeOK
  <2>4. Live(t)' => Permitted(s, q)
    BY <1>0, <1>2, CallBegins DEF BeforeTool
  <2>5. QED
    BY <1>0, <1>1, <1>2, <2>2, <2>3, <2>4 DEF ScopeInv, Permitted
<1>3. ASSUME NEW t \in Threads, Return(t), Forget(t), agent' = agent
      PROVE  ScopeInv'
  <2>1. ~Live(t)' /\ \A u \in Threads \ {t} : Kept(u)
    BY <1>0, <1>3, CallEnds DEF Forget, Live, TenantTypeOK
  <2>2. QED
    BY <1>1, <1>3, <2>1 DEF ScopeInv
<1>4. ASSUME NEW t \in Threads, AgentStep(t) \/ RunAgain(t), UNCHANGED tenantVars
      PROVE  ScopeInv'
  <2>1. ~Serves(t)'
    BY <1>4, AgentFrame DEF Serves
  <2>2. \A u \in Threads \ {t} : Kept(u) /\ agent'[u] = agent[u]
    BY <1>4, AgentFrame DEF Live, tenantVars
  <2>3. QED
    BY <1>1, <2>1, <2>2 DEF ScopeInv
<1>5. ASSUME NEW t \in Threads, GateStep(t) \/ ReviewerStep(t),
             UNCHANGED <<tenantVars, agent>>
      PROVE  ScopeInv'
  <2>1. \A u \in Threads : Kept(u)
    BY <1>0, <1>5, InsideCall DEF Live, tenantVars
  <2>2. QED
    BY <1>1, <1>5, <2>1 DEF ScopeInv
<1>6. ASSUME UNCHANGED <<gateVars, agent, seen>>
      PROVE  ScopeInv'
  <2>1. \A u \in Threads : Kept(u)
    BY <1>6 DEF gateVars, Live
  <2>2. QED
    BY <1>1, <1>6, <2>1 DEF ScopeInv
<1>7. UNCHANGED vars \/ World => UNCHANGED <<gateVars, agent, seen>>
  BY DEF vars, gateVars, World, Reassign
<1>8. QED
  BY <1>2, <1>3, <1>4, <1>5, <1>6, <1>7
     DEF Next, Serve, RunAgent, Prompt, RunGate, Review

LEMMA AgentRests ==
    ASSUME IInv, [Next]_vars, NEW u \in Threads, agent'[u] = agent[u],
           \/ agent[u].pc = "none"
           \/ call'[u].pc # "idle" => /\ call[u].pc # "idle"
                                      /\ call'[u].q = call[u].q
                                      /\ call'[u].scope = call[u].scope
    PROVE  AgentInvOf(u)'
<1>1. AgentInvOf(u) /\ agent[u] \in AgentRecords
  BY AgentTypes DEF IInv, AgentInv, TypeOK
<1>2. policy' = policy /\ yes \subseteq yes'
  BY GateNext DEF IInv
<1>3. ASSUME NEW n \in 1 .. Len(agent[u].results)
      PROVE  agent[u].results[n].q \in Requests
  <2>1. agent[u].results \in Seq([q : Requests, ran : BOOLEAN])
    BY <1>1 DEF AgentRecords
  <2>2. agent[u].results[n] \in [q : Requests, ran : BOOLEAN]
    BY <2>1, SeqElement
  <2>3. QED
    BY <2>2
<1>4. \A q \in Requests : Cleared(NoTenant, q) => Cleared(NoTenant, q)'
  BY <1>2, ClearedStays
<1>5. \A n \in 1 .. Len(agent'[u].results) :
         agent'[u].results[n].ran => Cleared(NoTenant, agent[u].results[n].q)'
  <2> SUFFICES ASSUME NEW n \in 1 .. Len(agent[u].results), agent[u].results[n].ran
               PROVE  Cleared(NoTenant, agent[u].results[n].q)'
    OBVIOUS
  <2>1. PICK q \in Requests : q = agent[u].results[n].q
    BY <1>3
  <2>2. q = agent'[u].results[n].q
    BY <2>1
  <2>3. Cleared(NoTenant, q)'
    BY <1>1, <1>4, <2>1 DEF AgentInvOf
  <2>4. QED
    BY <2>2, <2>3
<1>6. QED
  BY <1>1, <1>5 DEF AgentInvOf

(* The step of an agent itself.                                            *)
LEMMA AgentStepKeeps ==
    ASSUME IInv, [Next]_vars, NEW t \in Threads, AgentStep(t) \/ RunAgain(t)
    PROVE  AgentInvOf(t)'
<1> DEFINE a == agent[t]
           b == agent'[t]
           AllRanCleared == \A n \in 1 .. Len(agent[t].results) :
              agent[t].results[n].ran => Cleared(NoTenant, agent[t].results[n].q)
<1>0. /\ AgentInvOf(t) /\ GateTypeOK /\ TypeOK /\ NoTenant \in Scopes
      /\ agent \in [Threads -> AgentStates]
  BY PolicyAssumption DEF IInv, AgentInv, TypeOK
<1>a. a \in AgentRecords
  BY <1>0, AgentTypes
<1>1. /\ a \in AgentRecords /\ a.nth \in Nat
      /\ a.uses \in Seq(Requests) /\ Len(a.uses) \in Nat
      /\ a.results \in Seq([q : Requests, ran : BOOLEAN]) /\ Len(a.results) \in Nat
  BY <1>a, AgentAssumption DEF AgentRecords
<1>2. \A n \in 1 .. Len(a.results) : a.results[n].ran => Cleared(NoTenant, a.results[n].q)
  BY <1>0 DEF AgentInvOf
<1>3. ASSUME NEW pc \in {"returned", "raised", "model"}, b = [a EXCEPT !.pc = pc],
             UNCHANGED gateVars, a.pc \in {"model", "tools"},
             a.pc = "tools" => a.nth = Len(a.uses) /\ pc = "model"
      PROVE  AgentInvOf(t)'
  <2>1. /\ b.pc = pc /\ b.uses = a.uses /\ b.nth = a.nth /\ b.results = a.results
    BY <1>1, <1>3 DEF AgentRecords
  <2>2. call'[t] = call[t] /\ policy' = policy /\ yes' = yes
    BY <1>3 DEF gateVars
  <2>3. call[t].pc = "idle"
    BY <1>0, <1>1, <1>3 DEF AgentInvOf
  <2>4. AllRanCleared'
    BY <1>2, <2>1, <2>2 DEF Cleared, Resolution
  <2>5. QED
    BY <1>0, <1>1, <1>3, <2>1, <2>2, <2>3, <2>4 DEF AgentInvOf
<1>4. ASSUME NEW pc \in {"model", "tools"}, NEW turn, NEW uses \in Seq(Requests),
             b = Fresh(pc, turn, uses), UNCHANGED gateVars,
             a.pc \notin {"none", "tools"}, pc = "model" => uses = << >>
      PROVE  AgentInvOf(t)'
  <2>1. /\ b.pc = pc /\ b.uses = uses /\ b.nth = 0 /\ b.results = << >>
    BY <1>4 DEF Fresh
  <2>2. call'[t] = call[t] /\ call[t].pc = "idle"
    BY <1>0, <1>4 DEF AgentInvOf, gateVars
  <2>3. Len(b.results) = 0 /\ Len(uses) \in Nat /\ (pc = "model" => Len(uses) = 0)
    BY <1>4, <2>1, EmptySeq
  <2>4. QED
    BY <2>1, <2>2, <2>3 DEF AgentInvOf
<1>5. CASE ConverseRaises(t) \/ ModelEnds(t) \/ TurnsOver(t) \/ Feed(t)
  BY <1>0, <1>3, <1>5 DEF ConverseRaises, ModelEnds, TurnsOver, Feed, Runs
<1>6. ASSUME NEW uses \in BoundedSeq(Requests, MaxUses), ModelUses(t, uses)
      PROVE  AgentInvOf(t)'
  <2>1. uses \in Seq(Requests)
    BY BoundedSeqs, AgentAssumption
  <2>2. QED
    BY <1>0, <1>4, <1>6, <2>1 DEF ModelUses, Runs
<1>7. CASE RunAgain(t)
  BY <1>0, <1>4, <1>7, EmptySeq DEF RunAgain, Runs, Prompted
<1>8. CASE AskGate(t)
  <2>1. a.pc = "tools" /\ a.nth < Len(a.uses) /\ b = a
    BY <1>8 DEF AskGate
  <2>2. a.uses[a.nth + 1] \in Requests
    BY <1>1, <2>1, SeqElement
  <2>3. call'[t].q = a.uses[a.nth + 1] /\ call'[t].scope = NoTenant
    BY <1>0, <1>8, <2>2, CallBegins DEF AskGate
  <2>4. policy' = policy /\ yes' = yes
    BY <1>8 DEF AskGate, Enter
  <2>5. AllRanCleared'
    BY <1>2, <2>1, <2>4 DEF Cleared, Resolution
  <2>6. QED
    BY <1>0, <2>1, <2>3, <2>5 DEF AgentInvOf
<1>9. CASE TakeResult(t)
  <2> DEFINE x == [q |-> call[t].q, ran |-> call[t].result = "allow"]
             rs == Append(a.results, x)
  <2>1. b = [a EXCEPT !.nth = @ + 1, !.results = rs]
    BY <1>0, <1>9 DEF TakeResult, Runs
  <2>2. b.pc = a.pc /\ b.uses = a.uses /\ b.nth = a.nth + 1 /\ b.results = rs
    BY <1>1, <2>1 DEF AgentRecords
  <2>3. /\ a.pc = "tools" /\ Len(a.results) = a.nth /\ a.nth < Len(a.uses)
        /\ call[t].q = a.uses[a.nth + 1] /\ call[t].scope = NoTenant
        /\ \A n \in 1 .. a.nth : a.results[n].q = a.uses[n]
    BY <1>0, <1>9 DEF TakeResult, AgentInvOf
  <2>4. call[t] \in Call /\ x \in [q : Requests, ran : BOOLEAN]
    BY <1>0 DEF GateTypeOK, Call
  <2>5. /\ Len(rs) = a.nth + 1 /\ rs[a.nth + 1] = x
        /\ \A n \in 1 .. a.nth : rs[n] = a.results[n]
    BY <1>1, <2>3, <2>4
  <2>6. x.ran => Cleared(NoTenant, x.q)
    BY <1>0, <2>3 DEF IInv, GateInv
  <2>7. policy' = policy /\ yes' = yes /\ call'[t].pc = "idle"
    BY <1>0, <1>9, CallEnds DEF TakeResult, Return
  <2> HIDE DEF rs
  <2>8. \A n \in 1 .. a.nth + 1 : rs[n].q = a.uses[n]
    <3> SUFFICES ASSUME NEW n \in 1 .. a.nth + 1
                 PROVE  rs[n].q = a.uses[n]
      OBVIOUS
    <3>1. CASE n \in 1 .. a.nth
      BY <2>3, <2>5, <3>1
    <3>2. CASE n = a.nth + 1
      BY <2>3, <2>5, <3>2
    <3>3. QED
      BY <1>1, <3>1, <3>2
  <2>9. \A n \in 1 .. a.nth + 1 : rs[n].ran => Cleared(NoTenant, rs[n].q)
    <3> SUFFICES ASSUME NEW n \in 1 .. a.nth + 1, rs[n].ran
                 PROVE  Cleared(NoTenant, rs[n].q)
      OBVIOUS
    <3>1. CASE n \in 1 .. a.nth
      BY <1>2, <2>3, <2>5, <3>1
    <3>2. CASE n = a.nth + 1
      BY <2>5, <2>6, <3>2
    <3>3. QED
      BY <1>1, <3>1, <3>2
  <2>10. AllRanCleared'
    BY <2>2, <2>5, <2>7, <2>9 DEF Cleared, Resolution
  <2>11. QED
    BY <1>1, <2>2, <2>3, <2>5, <2>7, <2>8, <2>10 DEF AgentInvOf
<1>10. QED
  BY <1>5, <1>6, <1>7, <1>8, <1>9 DEF AgentStep

LEMMA AgentNext ==
    ASSUME IInv, [Next]_vars
    PROVE  AgentInv'
<1>0. GateTypeOK /\ TypeOK
  BY DEF IInv, TypeOK
<1> DEFINE Same(u) == /\ call'[u].pc # "idle" => call[u].pc # "idle"
                      /\ call'[u].q = call[u].q /\ call'[u].scope = call[u].scope
<1>1. ASSUME NEW t \in Threads, AgentStep(t) \/ RunAgain(t)
      PROVE  AgentInv'
  BY <1>1, AgentStepKeeps, AgentFrame, AgentRests DEF AgentInv
<1>2. ASSUME NEW t \in Threads, Serve(t)
      PROVE  AgentInv'
  <2>1. agent' = agent /\ agent[t].pc = "none"
    BY <1>2 DEF Serve, Serves
  <2>2. \A u \in Threads \ {t} : call'[u] = call[u]
    BY <1>0, <1>2, CallBegins, CallEnds DEF Serve, BeforeTool
  <2>3. QED
    BY <2>1, <2>2, AgentRests DEF AgentInv
<1>3. ASSUME NEW t \in Threads, GateStep(t) \/ ReviewerStep(t), agent' = agent
      PROVE  AgentInv'
  <2>1. \A u \in Threads : Same(u)
    BY <1>0, <1>3, InsideCall
  <2>2. QED
    BY <1>3, <2>1, AgentRests DEF AgentInv
<1>4. ASSUME UNCHANGED <<gateVars, agent>>
      PROVE  AgentInv'
  <2>1. \A u \in Threads : Same(u)
    BY <1>4 DEF gateVars
  <2>2. QED
    BY <1>4, <2>1, AgentRests DEF AgentInv
<1>5. UNCHANGED vars \/ World => UNCHANGED <<gateVars, agent>>
  BY DEF vars, gateVars, World, Reassign
<1>6. QED
  BY <1>1, <1>2, <1>3, <1>4, <1>5
     DEF Next, RunAgent, Prompt, RunGate, Review

LEMMA AgentTypesNext ==
    ASSUME IInv, [Next]_vars
    PROVE  agent' \in [Threads -> AgentStates]
<1>0. TypeOK
  BY DEF IInv
<1>1. ASSUME NEW t \in Threads, AgentStep(t) \/ RunAgain(t)
      PROVE  agent' \in [Threads -> AgentStates]
  BY <1>0, <1>1, AgentStepTypes, RunsTypes DEF TypeOK
<1>2. agent' = agent => agent' \in [Threads -> AgentStates]
  BY <1>0 DEF TypeOK
<1>3. QED
  BY <1>1, <1>2 DEF Next, Serve, RunAgent, Prompt, RunGate, Review, World, vars

LEMMA InitIsInvariant ==
    ASSUME Init
    PROVE  IInv
<1>1. PICK q0 \in Requests : call = [t \in Threads |-> NoCall(NoTenant, q0)]
  BY DEF Init, GateInit
<1>2. PICK set \in AgentSets : agent = [t \in Threads |-> IF t \in set THEN Prompted ELSE NoAgent]
  BY DEF Init, AgentInit
<1>3. NoCall(NoTenant, q0) \in Call /\ NoTenant \in Scopes
  BY NoCallIsCall, PolicyAssumption
<1>4. Prompted \in AgentStates /\ NoAgent \in AgentStates
  <2>1. 0 \in 0 .. MaxTurns /\ 0 \leq MaxUses
    BY AgentAssumption
  <2>2. QED
    BY <2>1, FreshIsRun, EmptySeq DEF Prompted, NoAgent
<1>5. GateTypeOK
  BY <1>1, <1>3 DEF Init, GateInit, GateTypeOK
<1>6. TypeOK
  BY <1>2, <1>4, <1>5 DEF Init, TenantInit, TypeOK, TenantTypeOK, Owners
<1>7. \A t \in Threads : call[t].pc = "idle" /\ call[t].result = "none"
  BY <1>1 DEF NoCall
<1>8. GateInv /\ ScopeInv
  BY <1>7 DEF GateInv, ScopeInv, Live, Init, GateInit
<1>9. ASSUME NEW t \in Threads
      PROVE  AgentInvOf(t)
  <2>1. agent[t] \in {Prompted, NoAgent}
    BY <1>2
  <2>2. agent[t].uses = << >> /\ agent[t].results = << >> /\ agent[t].nth = 0
        /\ agent[t].pc \in {"none", "model"}
    BY <2>1 DEF Prompted, NoAgent, Fresh
  <2>3. Len(agent[t].uses) = 0 /\ Len(agent[t].results) = 0
    BY <2>2, EmptySeq
  <2>4. QED
    BY <1>7, <2>2, <2>3 DEF AgentInvOf
<1>10. QED
  BY <1>6, <1>8, <1>9 DEF IInv, AgentInv

-----------------------------------------------------------------------------
(* The inductive invariant: what is known of a call at each of its points, *)
(* of the call an agent is in, and of one made through the tenant scope.   *)
THEOREM SessionInvariant == Spec => []IInv
<1>1. Init => IInv
  BY InitIsInvariant
<1>2. IInv /\ [Next]_vars => IInv'
  <2> SUFFICES ASSUME IInv, [Next]_vars
               PROVE  IInv'
    OBVIOUS
  <2>1. TypeOK /\ GateInv
    BY DEF IInv
  <2>2. TypeOK'
    BY <2>1, GateNext, TenantNext, AgentTypesNext DEF TypeOK
  <2>3. QED
    BY <2>1, <2>2, GateNext, ScopeNext, AgentNext DEF IInv
<1>3. QED
  BY <1>1, <1>2, PTL DEF Spec

(* Every variable keeps its type; an agent never exceeds max_turns.        *)
THEOREM SessionTypes == Spec => []TypeOK
<1>1. IInv => TypeOK
  BY DEF IInv
<1>2. QED
  BY <1>1, SessionInvariant, PTL

(* Whatever the timing of reviewers, the cache of approvals never holds a  *)
(* key whose yes came after the gate had stopped waiting for it.           *)
THEOREM LateAnswersIgnored == Spec => []LateAnswerIgnored
<1>1. IInv => LateAnswerIgnored
  BY DEF IInv, GateInv, LateAnswerIgnored
<1>2. QED
  BY <1>1, SessionInvariant, PTL

(* However many threads share the gate, and whatever changes hands         *)
(* meanwhile, nothing is allowed, and no tool run, that was not cleared.   *)
THEOREM AllowsAreCleared == Spec => []AllowIsCleared
<1>1. ASSUME IInv
      PROVE  AllowIsCleared
  <2> SUFFICES ASSUME NEW t \in Threads
               PROVE  /\ \A n \in DOMAIN agent[t].results :
                            agent[t].results[n].ran =>
                               Cleared(NoTenant, agent[t].results[n].q)
                      /\ call[t].result = "allow" =>
                            /\ Cleared(call[t].scope, call[t].q)
                            /\ Serves(t) => /\ call[t].scope # NoTenant
                                            /\ call[t].q \in surface
                                            /\ seen[t] \in {call[t].scope, Untargeted}
    BY DEF AllowIsCleared
  <2>0. agent[t] \in AgentRecords
    BY <1>1, AgentTypes DEF IInv, TypeOK
  <2>1. agent[t].results \in Seq([q : Requests, ran : BOOLEAN])
    BY <2>0 DEF AgentRecords
  <2>2. DOMAIN agent[t].results = 1 .. Len(agent[t].results)
    BY <2>1
  <2>3. QED
    BY <1>1, <2>2 DEF IInv, GateInv, ScopeInv, Live, AgentInv, AgentInvOf
<1>2. QED
  BY <1>1, SessionInvariant, PTL

(* Whatever the model asks for and the gate says, the model gets back one  *)
(* result for each of its calls, in order.                                 *)
THEOREM UsesAreAnswered == Spec => []EveryUseAnswered
<1>1. ASSUME IInv
      PROVE  EveryUseAnswered
  <2> SUFFICES ASSUME NEW t \in Threads, agent[t].pc = "model"
               PROVE  agent[t].uses =
                         [n \in DOMAIN agent[t].results |-> agent[t].results[n].q]
    BY DEF EveryUseAnswered
  <2>1. agent[t] \in AgentRecords
    BY <1>1, AgentTypes DEF IInv, TypeOK
  <2>2. /\ agent[t].uses \in Seq(Requests)
        /\ agent[t].results \in Seq([q : Requests, ran : BOOLEAN])
    BY <2>1 DEF AgentRecords
  <2>3. DOMAIN agent[t].results = 1 .. Len(agent[t].results)
        /\ DOMAIN agent[t].uses = 1 .. Len(agent[t].uses)
        /\ agent[t].uses = [n \in 1 .. Len(agent[t].uses) |-> agent[t].uses[n]]
    BY <2>2
  <2>4. /\ Len(agent[t].results) = Len(agent[t].uses)
        /\ \A n \in 1 .. Len(agent[t].uses) :
              agent[t].results[n].q = agent[t].uses[n]
    BY <1>1 DEF IInv, AgentInv, AgentInvOf
  <2>5. QED
    BY <2>3, <2>4
<1>2. QED
  BY <1>1, SessionInvariant, PTL
=============================================================================
