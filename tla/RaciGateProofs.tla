--------------------------- MODULE RaciGateProofs ---------------------------
(* Who may sign, and what is marked, for any number of callers, bearers and *)
(* rows of the matrix, and whatever the judge says.                        *)
EXTENDS RaciGate, InductionLemmas, SequenceTheorems, TLAPS

-----------------------------------------------------------------------------
(* The matrix, sorted.                                                     *)

LEMMA MatrixFacts ==
    ASSUME matrix \in Matrices
    PROVE  /\ DOMAIN matrix = 1..Len(matrix) /\ Len(matrix) \in Nat
           /\ \A n \in DOMAIN matrix : matrix[n].priority \in Int
           /\ IsFiniteSet(DOMAIN matrix) /\ Cardinality(DOMAIN matrix) = Len(matrix)
<1>1. matrix \in Seq(Range(matrix)) /\ \A n \in DOMAIN matrix : matrix[n].priority \in Int
  BY RaciAssumption
<1>2. DOMAIN matrix = 1..Len(matrix) /\ Len(matrix) \in Nat
  BY <1>1, LenProperties
<1>3. IsFiniteSet(1..Len(matrix)) /\ Cardinality(1..Len(matrix)) = Len(matrix)
  <2>1. /\ IsFiniteSet(1..Len(matrix))
        /\ Cardinality(1..Len(matrix)) =
              IF 1 > Len(matrix) THEN 0 ELSE Len(matrix) - 1 + 1
    BY <1>2, FS_Interval
  <2>2. QED
    BY <1>2, <2>1
<1>4. QED
  BY <1>1, <1>2, <1>3

LEMMA BeforeIsOrder ==
    ASSUME matrix \in Matrices, NEW l \in DOMAIN matrix, NEW m \in DOMAIN matrix,
           NEW n \in DOMAIN matrix
    PROVE  /\ ~GoesBefore(m, m)
           /\ m # n => GoesBefore(m, n) \/ GoesBefore(n, m)
           /\ GoesBefore(l, m) /\ GoesBefore(m, n) => GoesBefore(l, n)
  BY MatrixFacts DEF GoesBefore

(* Some row of any goes after all the others.                              *)
LEMMA SomeRowIsLast ==
    ASSUME matrix \in Matrices, NEW rows \in SUBSET DOMAIN matrix, rows # {}
    PROVE  \E b \in rows : \A x \in rows \ {b} : GoesBefore(x, b)
<1> DEFINE HasLast(s) == s = {} \/ \E b \in s : \A x \in s \ {b} : GoesBefore(x, b)
           F == {s \in SUBSET DOMAIN matrix : HasLast(s)}
<1>1. {} \in F
  OBVIOUS
<1>2. ASSUME NEW s \in SUBSET DOMAIN matrix, s # {}, \A x \in s : s \ {x} \in F
      PROVE  s \in F
  <2>1. PICK x \in s : TRUE
    BY <1>2
  <2>2. CASE s \ {x} = {}
    BY <2>1, <2>2
  <2>3. CASE s \ {x} # {}
    <3>1. PICK b \in s \ {x} : \A y \in (s \ {x}) \ {b} : GoesBefore(y, b)
      BY <1>2, <2>3
    <3>2. CASE GoesBefore(x, b)
      BY <3>1, <3>2
    <3>3. CASE GoesBefore(b, x)
      <4>1. \A y \in s \ {x} : GoesBefore(y, x)
        BY <3>1, <3>3, BeforeIsOrder
      <4>2. QED
        BY <2>1, <4>1
    <3>4. QED
      BY <3>1, <3>2, <3>3, BeforeIsOrder
  <2>4. QED
    BY <2>2, <2>3
<1>3. rows \in F
  <2> HIDE DEF F
  <2>1. IsFiniteSet(DOMAIN matrix)
    BY MatrixFacts
  <2>2. SUBSET DOMAIN matrix \subseteq F
    BY <1>1, <1>2, <2>1, FiniteInduction
  <2>3. QED
    BY <2>2
<1>4. QED
  BY <1>3

Sorts(s, rows, k) ==
    /\ s \in [1..k -> rows]
    /\ \A m, n \in 1..k : m < n => GoesBefore(s[m], s[n])

(* The rows can be sorted.                                                 *)
LEMMA SortExists ==
    ASSUME matrix \in Matrices
    PROVE  \E s : Sorts(s, DOMAIN matrix, Len(matrix))
<1> DEFINE T == {k \in Nat : \A rows \in SUBSET DOMAIN matrix :
                                 Cardinality(rows) = k => \E s : Sorts(s, rows, k)}
<1>1. 0 \in T
  <2>1. ASSUME NEW rows \in SUBSET DOMAIN matrix PROVE \E s : Sorts(s, rows, 0)
    <3> DEFINE s == [i \in 1..0 |-> i]
    <3>1. Sorts(s, rows, 0)
      BY DEF Sorts
    <3>2. QED
      BY <3>1
  <2>2. QED
    BY <2>1
<1>2. ASSUME NEW k \in Nat, k \in T
      PROVE  k + 1 \in T
  <2>1. ASSUME NEW rows \in SUBSET DOMAIN matrix, Cardinality(rows) = k + 1
        PROVE  \E s : Sorts(s, rows, k + 1)
    <3>1. IsFiniteSet(rows) /\ rows # {}
      BY <1>2, <2>1, MatrixFacts, FS_Subset, FS_EmptySet
    <3>2. PICK b \in rows : \A x \in rows \ {b} : GoesBefore(x, b)
      BY <3>1, SomeRowIsLast
    <3>3. Cardinality(rows \ {b}) = k
      <4>1. Cardinality(rows \ {b}) = Cardinality(rows) - 1
        BY <3>1, <3>2, FS_RemoveElement
      <4>2. QED
        BY <2>1, <4>1
    <3>4. PICK s : Sorts(s, rows \ {b}, k)
      BY <1>2, <3>3
    <3> DEFINE t == [i \in 1..(k + 1) |-> IF i \leq k THEN s[i] ELSE b]
    <3>5. \A i \in 1..(k + 1) : t[i] \in rows /\ (i # k + 1 => i \in 1..k /\ t[i] = s[i])
      BY <3>4 DEF Sorts
    <3>6. t \in [1..(k + 1) -> rows] /\ t[k + 1] = b
      BY <3>5
    <3> HIDE DEF t
    <3>7. ASSUME NEW m \in 1..(k + 1), NEW n \in 1..(k + 1), m < n
          PROVE  GoesBefore(t[m], t[n])
      <4>1. m \in 1..k /\ t[m] = s[m] /\ s[m] \in rows \ {b}
        BY <3>4, <3>5, <3>7 DEF Sorts
      <4>2. CASE n = k + 1
        BY <3>2, <3>6, <4>1, <4>2
      <4>3. CASE n # k + 1
        BY <3>4, <3>5, <3>7, <4>1, <4>3 DEF Sorts
      <4>4. QED
        BY <4>2, <4>3
    <3>8. QED
      BY <3>6, <3>7 DEF Sorts
  <2>2. QED
    BY <2>1
<1>3. Nat \subseteq T
  <2> HIDE DEF T
  <2>1. QED
    BY <1>1, <1>2, SetInduction
<1>4. Len(matrix) \in T
  BY <1>3, MatrixFacts
<1>5. QED
  BY <1>4, MatrixFacts

(* Sorting loses no row.                                                   *)
LEMMA SortFacts ==
    ASSUME matrix \in Matrices
    PROVE  \E s \in [DOMAIN matrix -> DOMAIN matrix] :
              /\ Sorted = [n \in DOMAIN matrix |-> matrix[s[n]]]
              /\ \A m, n \in DOMAIN matrix : m < n => GoesBefore(s[m], s[n])
              /\ \A m \in DOMAIN matrix : \E n \in DOMAIN matrix : s[n] = m
<1> DEFINE rows == DOMAIN matrix
           s == CHOOSE t \in [rows -> rows] :
                   \A m, n \in rows : m < n => GoesBefore(t[m], t[n])
<1>1. rows = 1..Len(matrix)
  BY MatrixFacts
<1>2. \E t \in [rows -> rows] : \A m, n \in rows : m < n => GoesBefore(t[m], t[n])
  BY <1>1, SortExists DEF Sorts
<1>3. /\ s \in [rows -> rows]
      /\ \A m, n \in rows : m < n => GoesBefore(s[m], s[n])
  BY <1>2
<1>4. Sorted = [n \in rows |-> matrix[s[n]]]
  BY DEF Sorted
<1> HIDE DEF s
<1>5. s \in Injection(rows, rows)
  <2>1. \A m, n \in rows : m # n => m < n \/ n < m
    BY <1>1, MatrixFacts
  <2>2. \A m, n \in rows : m # n => s[m] # s[n]
    BY <1>3, <2>1, BeforeIsOrder
  <2>3. QED
    BY <1>3, <2>2 DEF Injection, IsInjective
<1>6. s \in Surjection(rows, rows)
  BY <1>5, MatrixFacts, FS_Injection
<1>7. \A m \in rows : \E n \in rows : s[n] = m
  BY <1>6 DEF Surjection
<1>8. QED
  BY <1>3, <1>4, <1>7

(* The rule that is found is the first of those that match.                *)
LEMMA FirstMatch ==
    ASSUME matrix \in Matrices, NEW area, FindMatrixRule(area) # None
    PROVE  \E n \in DOMAIN matrix :
              /\ area \in matrix[n].areas
              /\ \A m \in DOMAIN matrix \ {n} :
                    area \in matrix[m].areas => GoesBefore(n, m)
              /\ FindMatrixRule(area) = matrix[n]
<1> DEFINE rows == DOMAIN matrix
           hits == {i \in 1..Len(Sorted) : area \in Sorted[i].areas}
<1>1. PICK s \in [rows -> rows] :
              /\ Sorted = [n \in rows |-> matrix[s[n]]]
              /\ \A m, n \in rows : m < n => GoesBefore(s[m], s[n])
              /\ \A m \in rows : \E n \in rows : s[n] = m
  BY SortFacts
<1>2. rows = 1..Len(matrix) /\ Len(matrix) \in Nat
  BY MatrixFacts
<1>3. Len(Sorted) = Len(matrix) /\ \A i \in rows : Sorted[i] = matrix[s[i]]
  BY <1>1, <1>2
<1>4. /\ hits # {} /\ Min(hits) # 0 => FindMatrixRule(area) = Sorted[Min(hits)]
      /\ hits = {} => FindMatrixRule(area) = None
  BY DEF FindMatrixRule, FirstIn, SelectInSeq
<1>5. hits # {} /\ hits \subseteq rows /\ hits \subseteq Nat
  BY <1>2, <1>3, <1>4
<1>6. Min(hits) \in hits /\ \A i \in hits : Min(hits) \leq i
  <2> HIDE DEF hits
  <2>1. \E i \in hits : \A k \in hits : i \leq k
    BY <1>5, LeastNat
  <2>2. QED
    BY <2>1 DEF Min
<1> DEFINE j == Min(hits)
           n == s[j]
<1>7. j \in rows /\ n \in rows /\ FindMatrixRule(area) = matrix[n] /\ area \in matrix[n].areas
  <2>1. j \in hits /\ j \in rows /\ j # 0
    BY <1>2, <1>5, <1>6
  <2>2. area \in Sorted[j].areas
    BY <2>1
  <2> HIDE DEF hits
  <2>3. FindMatrixRule(area) = Sorted[j] /\ Sorted[j] = matrix[s[j]]
    BY <1>3, <1>4, <1>5, <2>1
  <2>4. QED
    BY <2>1, <2>2, <2>3
<1>8. ASSUME NEW m \in rows \ {n}, area \in matrix[m].areas
      PROVE  GoesBefore(n, m)
  <2>1. PICK i \in rows : s[i] = m
    BY <1>1
  <2>2. i \in hits
    BY <1>2, <1>3, <1>8, <2>1
  <2>3. j \leq i /\ j # i
    BY <1>6, <1>8, <2>1, <2>2
  <2> HIDE DEF j
  <2>4. j < i
    BY <1>2, <1>7, <2>3
  <2>5. QED
    BY <1>1, <1>7, <2>1, <2>4
<1>9. QED
  BY <1>7, <1>8
-----------------------------------------------------------------------------
(* The bearers, and what the matrix and the judge make of them.            *)

LEMMA FirstHit ==
    ASSUME NEW k \in Nat, NEW hits \in SUBSET (1..k), hits # {}
    PROVE  Min(hits) \in hits
<1>1. \E i \in hits : \A j \in hits : i \leq j
  <2>1. hits \subseteq Nat
    OBVIOUS
  <2>2. QED
    BY <2>1, LeastNat
<1>2. QED
  BY <1>1 DEF Min

LEMMA BearerFacts ==
    /\ Bearers \in Seq(Range(Bearers)) /\ Len(Bearers) \in Nat
    /\ DOMAIN Bearers = 1..Len(Bearers)
    /\ \A b \in Range(Bearers) : b # None /\ b.id \in Ids
<1>1. Bearers \in Seq(Range(Bearers)) /\ None \notin Range(Bearers)
  BY RaciAssumption
<1>2. Len(Bearers) \in Nat /\ DOMAIN Bearers = 1..Len(Bearers)
  BY <1>1, LenProperties
<1>3. \A b \in Range(Bearers) : \E n \in DOMAIN Bearers : b = Bearers[n]
  BY DEF Range
<1>4. \A b \in Range(Bearers) : b.id \in Ids
  BY <1>3 DEF Ids
<1>5. QED
  BY <1>1, <1>2, <1>4

LEMMA ResolvedIsBearer ==
    ASSUME NEW role
    PROVE  ResolveRoleName(role) \in Range(Bearers) \cup {None}
<1>1. \A n \in 1..Len(Bearers) : Bearers[n] \in Range(Bearers)
  BY BearerFacts DEF Range
<1>2. /\ Len(Reverse(Bearers)) = Len(Bearers)
      /\ \A n \in 1..Len(Bearers) : Reverse(Bearers)[n] \in Range(Bearers)
  BY <1>1, BearerFacts DEF Reverse
<1> DEFINE named  == {i \in 1..Len(Reverse(Bearers)) : Reverse(Bearers)[i].name = role}
           scoped == {i \in 1..Len(Bearers) : role \in Bearers[i].scope}
<1>3. /\ named # {} => Min(named) \in 1..Len(Bearers)
      /\ scoped # {} => Min(scoped) \in 1..Len(Bearers)
  <2>1. named \in SUBSET (1..Len(Bearers)) /\ scoped \in SUBSET (1..Len(Bearers))
    BY <1>2
  <2> HIDE DEF named, scoped
  <2>2. QED
    BY <2>1, BearerFacts, FirstHit
<1>4. \/ ResolveRoleName(role) = None
      \/ named # {} /\ ResolveRoleName(role) = Reverse(Bearers)[Min(named)]
      \/ scoped # {} /\ ResolveRoleName(role) = Bearers[Min(scoped)]
  BY DEF ResolveRoleName, FirstIn, SelectInSeq
<1>5. QED
  BY <1>1, <1>2, <1>3, <1>4

LEMMA ChosenIsBearer ==
    ASSUME NEW id
    PROVE  BearerById(id) \in Range(Bearers) \cup {None}
<1>1. \A n \in 1..Len(Bearers) : Bearers[n] \in Range(Bearers)
  BY BearerFacts DEF Range
<1> DEFINE hits == {i \in 1..Len(Bearers) : Bearers[i].id = id}
<1>2. hits # {} => Min(hits) \in 1..Len(Bearers)
  <2>1. hits \in SUBSET (1..Len(Bearers))
    OBVIOUS
  <2> HIDE DEF hits
  <2>2. QED
    BY <2>1, BearerFacts, FirstHit
<1>3. \/ BearerById(id) = None
      \/ hits # {} /\ BearerById(id) = Bearers[Min(hits)]
  BY DEF BearerById, FirstIn, SelectInSeq
<1>4. QED
  BY <1>1, <1>2, <1>3

(* What an assignment owes its reader, whoever was asked.                  *)
FromPolicy(asg, k) ==
    LET found == FromMatrix(FindMatrixRule(asg.area))
    IN  found[k] # None /\ found[k].id = asg.core[k].id

Honest(asg) ==
    /\ asg \in Assignments
    /\ asg.needs_confirmation => asg.used_llm /\ ~asg.missing
    /\ \A k \in Roles : asg.core[k] # None =>
          /\ asg.core[k].source = "matrix" => FromPolicy(asg, k)
          /\ asg.core[k].source = "llm_fallback" \/ asg.core[k].judged => asg.used_llm
    /\ asg.core["a"] # None /\ ~asg.needs_confirmation => asg.core["a"].source = "matrix"

Heard(reply, replied) ==
    /\ reply \in Reply /\ replied \in BOOLEAN
    /\ ~replied => reply = NoReply

LEMMA EntryFacts ==
    ASSUME NEW rule, NEW reply, NEW replied, Heard(reply, replied), NEW k \in Roles
    PROVE  LET found == FromMatrix(rule)
               e     == Entry(reply, replied, k, found)
           IN  /\ e \in Core \cup {None}
               /\ e # None =>
                     /\ e.source = "matrix" => found[k] # None /\ found[k].id = e.id
                     /\ e.source = "llm_fallback" \/ e.judged => replied
<1> DEFINE found == FromMatrix(rule)
           b == Pick(reply, k, found)
           e == Entry(reply, replied, k, found)
<1>1. found[k] \in Range(Bearers) \cup {None}
  BY ResolvedIsBearer DEF FromMatrix
<1>2. reply.reason[k] \in BOOLEAN /\ (~replied => reply.bearer[k] = "NONE" /\ ~reply.reason[k])
  BY DEF Heard, Reply, NoReply
<1>3. k \in Unresolved(found) <=> found[k] = None
  BY DEF Unresolved
<1>4. /\ b \in Range(Bearers) \cup {None}
      /\ found[k] # None \/ ~replied => b = found[k]
  <2>1. b = found[k] \/ b = BearerById(Constrained(reply.bearer[k]))
    BY DEF Pick
  <2>2. found[k] # None => b = found[k]
    BY <1>3 DEF Pick
  <2>3. ~replied => b = found[k]
    BY <1>2 DEF Pick, Constrained
  <2> HIDE DEF b, found
  <2>4. QED
    BY <1>1, <2>1, <2>2, <2>3, ChosenIsBearer
<1>5. e = IF b = None THEN None
          ELSE [id |-> b.id,
                source |-> IF k \in Unresolved(found) /\ replied
                           THEN "llm_fallback" ELSE "matrix",
                judged |-> reply.reason[k]]
  BY DEF Entry
<1> HIDE DEF e, b, found
<1>6. e \in Core \cup {None}
  BY <1>2, <1>4, <1>5, BearerFacts DEF Core, Sources
<1>7. ASSUME e # None, e.source = "matrix"
      PROVE  found[k] # None /\ found[k].id = e.id
  <2>1. b # None /\ e.id = b.id /\ ~(k \in Unresolved(found) /\ replied)
    BY <1>5, <1>7
  <2>2. QED
    BY <1>3, <1>4, <2>1
<1>8. ASSUME e # None, e.source = "llm_fallback" \/ e.judged
      PROVE  replied
  BY <1>2, <1>5, <1>8, BearerFacts DEF Heard
<1>9. QED
  BY <1>6, <1>7, <1>8 DEF e, found

(* Whatever the judge says, the assignment is honest about it.             *)
LEMMA AssignmentIsHonest ==
    ASSUME NEW action \in Actions, NEW area \in Areas, NEW reply, NEW replied,
           Heard(reply, replied)
    PROVE  Honest(Assignment(action, area, reply, replied))
<1> DEFINE rule  == FindMatrixRule(area)
           found == FromMatrix(rule)
           core  == [k \in Roles |-> Entry(reply, replied, k, found)]
           asg   == Assignment(action, area, reply, replied)
<1>1. asg = [action |-> action, area |-> area, core |-> core, others |-> Others(rule),
             matrix_hit |-> rule # None, used_llm |-> replied,
             missing |-> core["a"] = None,
             needs_confirmation |-> Provisional(core, replied)]
  BY DEF Assignment
<1>2. \A k \in Roles :
        /\ core[k] \in Core \cup {None}
        /\ core[k] # None =>
              /\ core[k].source = "matrix" => found[k] # None /\ found[k].id = core[k].id
              /\ core[k].source = "llm_fallback" \/ core[k].judged => replied
  BY EntryFacts
<1>3. Others(rule) \in SUBSET Range(Bearers)
  BY ResolvedIsBearer DEF Others
<1>4. core \in [Roles -> Core \cup {None}]
  BY <1>2
<1>5. Provisional(core, replied) <=> core["a"] # None /\ core["a"].source = "llm_fallback"
  BY DEF Provisional
<1>6. Provisional(core, replied) \in BOOLEAN /\ replied \in BOOLEAN
  BY DEF Provisional, Heard
<1>7. "a" \in Roles
  BY DEF Roles
<1> HIDE DEF core
<1>8. asg \in Assignments
  <2> HIDE DEF rule, asg
  <2>1. QED
    BY <1>1, <1>3, <1>4, <1>6 DEF Assignments
<1>9. asg.needs_confirmation => asg.used_llm /\ ~asg.missing
  <2>1. /\ asg.used_llm = replied /\ asg.missing = (core["a"] = None)
        /\ asg.needs_confirmation = Provisional(core, replied)
    BY <1>1
  <2> HIDE DEF asg
  <2>2. QED
    BY <1>2, <1>5, <1>7, <2>1
<1>10. ASSUME NEW k \in Roles, asg.core[k] # None
       PROVE  /\ asg.core[k].source = "matrix" => FromPolicy(asg, k)
              /\ asg.core[k].source = "llm_fallback" \/ asg.core[k].judged => asg.used_llm
  <2>1. asg.core = core /\ asg.area = area /\ asg.used_llm = replied
    BY <1>1
  <2> HIDE DEF asg
  <2>2. QED
    BY <1>2, <1>10, <2>1 DEF FromPolicy
<1>11. asg.core["a"] # None /\ ~asg.needs_confirmation => asg.core["a"].source = "matrix"
  <2>1. asg.core = core /\ asg.needs_confirmation = Provisional(core, replied)
    BY <1>1
  <2>2. core["a"] # None => core["a"].source \in Sources
    BY <1>2, <1>7 DEF Core
  <2> HIDE DEF asg
  <2>3. QED
    BY <1>5, <2>1, <2>2 DEF Sources
<1>12. QED
  BY <1>8, <1>9, <1>10, <1>11 DEF Honest
-----------------------------------------------------------------------------
(* The inductive invariant.                                                *)

Calls == [pc : {"idle", "judge", "log", "record"}, asg : Assignments \cup {None},
          nth : Nat, answer : Approvals \cup {None}]

Entries ==
    [event : {"raci_assigned"}, written : BOOLEAN, asg : Assignments]
    \cup [event : {"approval_recorded"}, written : BOOLEAN, answer : Approvals]

ShapeOK ==
    /\ matrix \in Matrices
    /\ call \in [Callers -> Calls]
    /\ issued \in Seq(Assignments)
    /\ trail \in Seq(Entries)
    /\ last_error \in BOOLEAN

CallOK(c) ==
    /\ call[c].pc \in {"judge", "log"} => Honest(call[c].asg)
    /\ call[c].pc = "record" =>
          call[c].nth \in DOMAIN issued /\ call[c].answer \in Approvals

(* A caller has an assignment only when the trail's file has it.           *)
Backed(asg, n) ==
    /\ Assigned(n) /\ trail[n].written
    /\ trail[n].asg.action = asg.action /\ trail[n].asg.core = asg.core

IssuedOK(i) ==
    /\ issued[i].needs_confirmation => issued[i].used_llm /\ ~issued[i].missing
    /\ \E n \in DOMAIN trail : Backed(issued[i], n)

TrailIsHonest == \A n \in DOMAIN trail : Assigned(n) => Honest(trail[n].asg)

IInv ==
    /\ ShapeOK
    /\ \A c \in Callers : CallOK(c)
    /\ \A i \in DOMAIN issued : IssuedOK(i)
    /\ TrailIsHonest
    /\ ApprovedByAccountable
    /\ ProvisionalUntilSigned
    /\ AnswersAreRecorded
-----------------------------------------------------------------------------
(* What a step leaves alone.                                               *)

LEMMA HonestStays ==
    ASSUME NEW asg, matrix' = matrix
    PROVE  Honest(asg)' <=> Honest(asg)
<1>1. FindMatrixRule(asg.area)' = FindMatrixRule(asg.area)
  BY DEF FindMatrixRule, Sorted, GoesBefore, FirstIn, SelectInSeq
<1>2. \A k \in Roles : FromPolicy(asg, k)' <=> FromPolicy(asg, k)
  BY <1>1 DEF FromPolicy
<1>3. QED
  BY <1>2 DEF Honest

LEMMA PolicyStays ==
    ASSUME NEW area, NEW id, matrix' = matrix
    PROVE  PolicyNames(area, id)' <=> PolicyNames(area, id)
  BY DEF PolicyNames

(* An accountable the matrix named is the one the policy means.            *)
LEMMA PolicyIsMeant ==
    ASSUME matrix \in Matrices, NEW asg, Honest(asg),
           asg.core["a"] # None, ~asg.needs_confirmation
    PROVE  PolicyNames(asg.area, asg.core["a"].id)
<1> DEFINE rule == FindMatrixRule(asg.area)
<1>1. FromPolicy(asg, "a")
  BY DEF Honest, Roles
<1>2. /\ rule # None /\ ResolveRoleName(rule["a"]) # None
      /\ ResolveRoleName(rule["a"]).id = asg.core["a"].id
  <2>1. FromMatrix(rule)["a"] = IF rule = None THEN None ELSE ResolveRoleName(rule["a"])
    BY DEF FromMatrix, Roles
  <2>2. QED
    BY <1>1, <2>1 DEF FromPolicy
<1>3. PICK n \in DOMAIN matrix :
              /\ asg.area \in matrix[n].areas
              /\ \A m \in DOMAIN matrix \ {n} :
                    asg.area \in matrix[m].areas => GoesBefore(n, m)
              /\ FindMatrixRule(asg.area) = matrix[n]
  BY <1>2, FirstMatch
<1>4. \A m \in DOMAIN matrix \ {n} :
         asg.area \in matrix[m].areas =>
             \/ matrix[m].priority < matrix[n].priority
             \/ matrix[m].priority = matrix[n].priority /\ n < m
  BY <1>3, MatrixFacts DEF GoesBefore
<1>5. QED
  BY <1>2, <1>3, <1>4 DEF PolicyNames

LEMMA Appended ==
    ASSUME NEW S, NEW seq \in Seq(S), NEW e \in S
    PROVE  /\ Append(seq, e) \in Seq(S)
           /\ Len(seq) \in Nat /\ Len(Append(seq, e)) = Len(seq) + 1
           /\ DOMAIN seq = 1..Len(seq)
           /\ DOMAIN Append(seq, e) = DOMAIN seq \cup {Len(seq) + 1}
           /\ \A n \in DOMAIN seq : Append(seq, e)[n] = seq[n]
           /\ Append(seq, e)[Len(seq) + 1] = e
<1>1. /\ Append(seq, e) \in Seq(S) /\ Len(Append(seq, e)) = Len(seq) + 1
      /\ \A i \in 1..Len(seq) : Append(seq, e)[i] = seq[i]
      /\ Append(seq, e)[Len(seq) + 1] = e
  BY AppendProperties
<1>2. Len(seq) \in Nat /\ DOMAIN seq = 1..Len(seq)
  BY LenProperties
<1>3. DOMAIN Append(seq, e) = 1..(Len(seq) + 1)
  BY <1>1, LenProperties
<1>4. 1..(Len(seq) + 1) = 1..Len(seq) \cup {Len(seq) + 1}
  BY <1>2
<1>5. QED
  BY <1>1, <1>2, <1>3, <1>4

(* A call that begins, or hears the judge, changes nothing that others read. *)
LEMMA QuietStep ==
    ASSUME IInv, NEW c \in Callers, NEW cc \in Calls,
           UNCHANGED <<matrix, issued, trail>>, last_error' \in BOOLEAN,
           call' = [call EXCEPT ![c] = cc],
           call[c].pc # "record", cc.pc \in {"judge", "log"}, Honest(cc.asg),
           cc.answer \in {None, call[c].answer}
    PROVE  IInv'
<1>1. /\ call'[c] = cc /\ \A d \in Callers \ {c} : call'[d] = call[d]
  BY DEF IInv, ShapeOK
<1>2. ShapeOK'
  BY <1>1 DEF IInv, ShapeOK
<1>3. (\A d \in Callers : CallOK(d))'
  <2>1. CallOK(c)'
    BY <1>1, HonestStays DEF CallOK
  <2>2. ASSUME NEW d \in Callers \ {c} PROVE CallOK(d)'
    BY <1>1, HonestStays DEF CallOK, IInv
  <2>3. QED
    BY <2>1, <2>2
<1>4. (\A i \in DOMAIN issued : IssuedOK(i))'
  BY DEF IInv, IssuedOK, Backed, Assigned
<1>5. TrailIsHonest'
  BY HonestStays DEF IInv, TrailIsHonest, Assigned
<1>6. ApprovedByAccountable'
  BY <1>1 DEF IInv, ApprovedByAccountable, Assigned, Answered
<1>7. ProvisionalUntilSigned'
  BY <1>1, PolicyStays DEF IInv, ProvisionalUntilSigned, Answered
<1>8. AnswersAreRecorded'
  BY <1>1 DEF IInv, AnswersAreRecorded, Answered
<1>9. QED
  BY <1>2, <1>3, <1>4, <1>5, <1>6, <1>7, <1>8 DEF IInv

LEMMA AssignStep ==
    ASSUME IInv, NEW c \in Callers, NEW action \in Actions, NEW area \in Areas,
           Assign(c, action, area)
    PROVE  IInv'
<1> DEFINE asg == Assignment(action, area, NoReply, FALSE)
           open == Unresolved(FromMatrix(FindMatrixRule(area)))
           cc == [pc |-> IF open = {} THEN "log" ELSE "judge", asg |-> asg,
                  nth |-> 0, answer |-> None]
<1>1. Heard(NoReply, FALSE)
  BY DEF Heard, NoReply, Reply
<1>2. Honest(asg) /\ asg \in Assignments
  BY <1>1, AssignmentIsHonest DEF Honest
<1>3. /\ call[c].pc = "idle" /\ UNCHANGED <<matrix, issued, trail>>
      /\ last_error' \in BOOLEAN
      /\ call' = [call EXCEPT ![c] = cc]
  <2>1. last_error' = (open = {} /\ last_error)
    BY DEF Assign
  <2> HIDE DEF open
  <2>2. last_error' \in BOOLEAN
    BY <2>1 DEF IInv, ShapeOK
  <2>3. QED
    BY <2>2 DEF Assign, open
<1> HIDE DEF asg, open
<1>4. cc \in Calls
  BY <1>2 DEF Calls
<1>5. /\ cc.pc \in {"judge", "log"} /\ cc.asg = asg /\ cc.answer = None
  OBVIOUS
<1> HIDE DEF cc
<1>6. QED
  BY <1>2, <1>3, <1>4, <1>5, QuietStep

LEMMA JudgeRepliesStep ==
    ASSUME IInv, NEW c \in Callers, NEW reply \in Replies, JudgeReplies(c, reply)
    PROVE  IInv'
<1> DEFINE old == call[c]
           asg == Assignment(old.asg.action, old.asg.area, reply, TRUE)
           cc == [old EXCEPT !.pc = "log", !.asg = asg]
<1>1. old \in Calls /\ old.pc = "judge" /\ old.asg \in Assignments
  BY DEF IInv, ShapeOK, CallOK, Honest, JudgeReplies
<1>2. old.asg.action \in Actions /\ old.asg.area \in Areas
  BY <1>1 DEF Assignments
<1>3. Heard(reply, TRUE)
  BY RaciAssumption DEF Heard
<1>4. Honest(asg) /\ asg \in Assignments
  BY <1>2, <1>3, AssignmentIsHonest DEF Honest
<1>5. /\ UNCHANGED <<matrix, issued, trail>> /\ last_error' \in BOOLEAN
      /\ call' = [call EXCEPT ![c] = cc]
  BY DEF JudgeReplies, IInv, ShapeOK
<1> HIDE DEF asg
<1>6. /\ cc \in Calls /\ cc.pc = "log" /\ cc.asg = asg /\ cc.answer = old.answer
  BY <1>1, <1>4 DEF Calls
<1> HIDE DEF cc
<1>7. QED
  BY <1>1, <1>4, <1>5, <1>6, QuietStep

LEMMA JudgeFailsStep ==
    ASSUME IInv, NEW c \in Callers, JudgeFails(c)
    PROVE  IInv'
<1> DEFINE cc == [call[c] EXCEPT !.pc = "log"]
<1>1. call[c] \in Calls /\ call[c].pc = "judge" /\ Honest(call[c].asg)
  BY DEF IInv, ShapeOK, CallOK, JudgeFails
<1>2. /\ UNCHANGED <<matrix, issued, trail>> /\ last_error' \in BOOLEAN
      /\ call' = [call EXCEPT ![c] = cc]
  BY DEF JudgeFails
<1>3. /\ cc \in Calls /\ cc.pc = "log" /\ cc.asg = call[c].asg
      /\ cc.answer = call[c].answer
  BY <1>1 DEF Calls
<1> HIDE DEF cc
<1>4. QED
  BY <1>1, <1>2, <1>3, QuietStep
LEMMA LogStep ==
    ASSUME IInv, NEW c \in Callers, NEW written \in BOOLEAN, LogAssignment(c, written)
    PROVE  IInv'
<1> DEFINE asg == call[c].asg
           e == [event |-> "raci_assigned", written |-> written, asg |-> asg]
<1>0. PICK last : last = Len(trail) + 1
  OBVIOUS
<1>1. call[c] \in Calls /\ call[c].pc = "log" /\ Honest(asg) /\ asg \in Assignments
  BY DEF IInv, ShapeOK, CallOK, LogAssignment, Honest
<1>2. /\ UNCHANGED <<matrix, last_error>> /\ trail' = Append(trail, e)
      /\ issued' = IF written THEN Append(issued, asg) ELSE issued
      /\ call' = [call EXCEPT ![c] = Idle]
  BY DEF LogAssignment
<1>3. e \in Entries /\ e.event = "raci_assigned" /\ e.written = written /\ e.asg = asg
  BY <1>1 DEF Entries
<1>4. Idle \in Calls /\ Idle.pc = "idle" /\ Idle.answer = None
  BY DEF Idle, Calls
<1> HIDE DEF asg, e
<1>5. /\ trail' \in Seq(Entries) /\ Len(trail) \in Nat /\ Len(trail') = last
      /\ DOMAIN trail = 1..Len(trail) /\ DOMAIN trail' = DOMAIN trail \cup {last}
      /\ \A n \in DOMAIN trail : trail'[n] = trail[n]
      /\ trail'[last] = e
  BY <1>0, <1>2, <1>3, Appended DEF IInv, ShapeOK
<1>6. /\ issued' \in Seq(Assignments)
      /\ DOMAIN issued \subseteq DOMAIN issued'
      /\ \A i \in DOMAIN issued : issued'[i] = issued[i]
      /\ \A i \in DOMAIN issued' \ DOMAIN issued : issued'[i] = asg /\ written
  <2>1. CASE written
    <3>1. /\ issued' \in Seq(Assignments) /\ DOMAIN issued' = DOMAIN issued \cup {Len(issued) + 1}
          /\ \A i \in DOMAIN issued : issued'[i] = issued[i]
          /\ issued'[Len(issued) + 1] = asg
      BY <1>1, <1>2, <2>1, Appended DEF IInv, ShapeOK
    <3>2. QED
      BY <2>1, <3>1
  <2>2. CASE ~written
    BY <1>2, <2>2 DEF IInv, ShapeOK
  <2>3. QED
    BY <2>1, <2>2
<1>7. call'[c] = Idle /\ \A d \in Callers \ {c} : call'[d] = call[d]
  BY <1>2 DEF IInv, ShapeOK
<1>8. ShapeOK'
  <2>1. call' \in [Callers -> Calls]
    BY <1>2, <1>4 DEF IInv, ShapeOK
  <2>2. QED
    BY <1>2, <1>5, <1>6, <2>1 DEF IInv, ShapeOK
<1>9. (\A d \in Callers : CallOK(d))'
  <2>1. CallOK(c)'
    BY <1>4, <1>7 DEF CallOK
  <2>2. ASSUME NEW d \in Callers \ {c} PROVE CallOK(d)'
    BY <1>2, <1>6, <1>7, HonestStays DEF CallOK, IInv
  <2>3. QED
    BY <2>1, <2>2
<1>10. (\A i \in DOMAIN issued : IssuedOK(i))'
  <2>1. ASSUME NEW i \in DOMAIN issued PROVE IssuedOK(i)'
    BY <1>5, <1>6 DEF IInv, IssuedOK, Backed, Assigned
  <2>2. ASSUME NEW i \in DOMAIN issued' \ DOMAIN issued PROVE IssuedOK(i)'
    BY <1>1, <1>3, <1>5, <1>6, <2>2 DEF IssuedOK, Backed, Assigned, Honest
  <2>3. QED
    BY <2>1, <2>2
<1>11. TrailIsHonest'
  <2>1. ASSUME NEW n \in DOMAIN trail, Assigned(n)' PROVE Honest(trail[n].asg)'
    BY <1>2, <1>5, <2>1, HonestStays DEF IInv, TrailIsHonest, Assigned
  <2>2. Honest(trail[last].asg)'
    BY <1>1, <1>2, <1>3, <1>5, HonestStays
  <2>3. QED
    BY <1>5, <2>1, <2>2 DEF TrailIsHonest
<1>12. ApprovedByAccountable'
  <2>1. ~Answered(last)'
    BY <1>3, <1>5 DEF Answered
  <2>2. QED
    BY <1>0, <1>4, <1>5, <1>7, <2>1 DEF IInv, ApprovedByAccountable, Assigned, Answered
<1>13. ProvisionalUntilSigned'
  <2>1. SUFFICES ASSUME NEW i \in DOMAIN issued',
                        issued'[i].core["a"] # None, ~issued'[i].needs_confirmation
        PROVE \/ PolicyNames(issued[i].area, issued[i].core["a"].id)'
              \/ \E n \in DOMAIN trail' :
                    /\ Answered(n)'
                    /\ trail'[n].answer.action = issued'[i].action
                    /\ trail'[n].answer.approver = issued'[i].core["a"].id
              \/ \E d \in Callers :
                    /\ call'[d].pc = "record"
                    /\ call'[d].answer.action = issued'[i].action
                    /\ call'[d].answer.approver = issued'[i].core["a"].id
    BY DEF ProvisionalUntilSigned
  <2>2. CASE i \in DOMAIN issued
    <3>1. issued'[i] = issued[i]
      BY <1>6, <2>2
    <3>2. \/ PolicyNames(issued[i].area, issued[i].core["a"].id)
          \/ \E n \in DOMAIN trail :
                /\ Answered(n)
                /\ trail[n].answer.action = issued[i].action
                /\ trail[n].answer.approver = issued[i].core["a"].id
          \/ \E d \in Callers :
                /\ call[d].pc = "record"
                /\ call[d].answer.action = issued[i].action
                /\ call[d].answer.approver = issued[i].core["a"].id
      BY <2>1, <2>2, <3>1 DEF IInv, ProvisionalUntilSigned
    <3>3. QED
      <4>1. CASE PolicyNames(issued[i].area, issued[i].core["a"].id)
        BY <1>2, <3>1, <4>1, PolicyStays
      <4>2. ASSUME NEW n \in DOMAIN trail, Answered(n),
                   trail[n].answer.action = issued[i].action,
                   trail[n].answer.approver = issued[i].core["a"].id
            PROVE  \E m \in DOMAIN trail' :
                      /\ Answered(m)'
                      /\ trail'[m].answer.action = issued'[i].action
                      /\ trail'[m].answer.approver = issued'[i].core["a"].id
        BY <1>5, <3>1, <4>2 DEF Answered
      <4>3. ASSUME NEW d \in Callers, call[d].pc = "record",
                   call[d].answer.action = issued[i].action,
                   call[d].answer.approver = issued[i].core["a"].id
            PROVE  \E x \in Callers :
                      /\ call'[x].pc = "record"
                      /\ call'[x].answer.action = issued'[i].action
                      /\ call'[x].answer.approver = issued'[i].core["a"].id
        BY <1>1, <1>7, <3>1, <4>3
      <4>4. QED
        BY <3>2, <4>1, <4>2, <4>3
  <2>3. CASE i \notin DOMAIN issued
    <3>1. issued'[i] = asg
      BY <1>6, <2>3
    <3>2. PolicyNames(asg.area, asg.core["a"].id)
      BY <1>1, <2>1, <3>1, PolicyIsMeant DEF IInv, ShapeOK
    <3>3. QED
      BY <1>2, <3>1, <3>2, PolicyStays
  <2>4. QED
    BY <2>2, <2>3
<1>14. AnswersAreRecorded'
  BY <1>4, <1>5, <1>7 DEF IInv, AnswersAreRecorded, Answered
<1>15. QED
  BY <1>8, <1>9, <1>10, <1>11, <1>12, <1>13, <1>14 DEF IInv

LEMMA RecordStep ==
    ASSUME IInv, NEW c \in Callers, NEW written \in BOOLEAN, RecordApproval(c, written)
    PROVE  IInv'
<1> DEFINE answer == call[c].answer
           e == [event |-> "approval_recorded", written |-> written, answer |-> answer]
           cc == [Idle EXCEPT !.answer = IF written THEN answer ELSE None]
<1>0. PICK last : last = Len(trail) + 1
  OBVIOUS
<1>1. call[c] \in Calls /\ call[c].pc = "record" /\ answer \in Approvals
  BY DEF IInv, ShapeOK, CallOK, RecordApproval
<1>2. /\ UNCHANGED <<matrix, issued, last_error>> /\ trail' = Append(trail, e)
      /\ call' = [call EXCEPT ![c] = cc]
  BY DEF RecordApproval
<1>3. /\ e \in Entries /\ e.event = "approval_recorded" /\ e.written = written
      /\ e.answer = answer
  BY <1>1 DEF Entries
<1> HIDE DEF answer, e
<1>4. /\ cc \in Calls /\ cc.pc = "idle"
      /\ cc.answer = IF written THEN answer ELSE None
  BY <1>1 DEF Idle, Calls
<1> HIDE DEF cc
<1>5. /\ trail' \in Seq(Entries) /\ Len(trail) \in Nat /\ Len(trail') = last
      /\ DOMAIN trail = 1..Len(trail) /\ DOMAIN trail' = DOMAIN trail \cup {last}
      /\ \A n \in DOMAIN trail : trail'[n] = trail[n]
      /\ trail'[last] = e
  BY <1>0, <1>2, <1>3, Appended DEF IInv, ShapeOK
<1>6. call'[c] = cc /\ \A d \in Callers \ {c} : call'[d] = call[d]
  BY <1>2 DEF IInv, ShapeOK
<1>7. ShapeOK'
  <2>1. call' \in [Callers -> Calls]
    BY <1>2, <1>4 DEF IInv, ShapeOK
  <2>2. QED
    BY <1>2, <1>5, <2>1 DEF IInv, ShapeOK
<1>8. (\A d \in Callers : CallOK(d))'
  <2>1. CallOK(c)'
    BY <1>4, <1>6 DEF CallOK
  <2>2. ASSUME NEW d \in Callers \ {c} PROVE CallOK(d)'
    BY <1>2, <1>6, HonestStays DEF CallOK, IInv
  <2>3. QED
    BY <2>1, <2>2
<1>9. (\A i \in DOMAIN issued : IssuedOK(i))'
  BY <1>2, <1>5 DEF IInv, IssuedOK, Backed, Assigned
<1>10. TrailIsHonest'
  <2>1. ASSUME NEW n \in DOMAIN trail, Assigned(n)' PROVE Honest(trail[n].asg)'
    BY <1>2, <1>5, <2>1, HonestStays DEF IInv, TrailIsHonest, Assigned
  <2>2. ~Assigned(last)'
    BY <1>3, <1>5 DEF Assigned
  <2>3. QED
    BY <1>5, <2>1, <2>2 DEF TrailIsHonest
<1>11. ApprovedByAccountable'
  <2> DEFINE Named(n, a) ==
               \E m \in DOMAIN trail :
                  /\ m < n /\ Assigned(m) /\ trail[m].written
                  /\ trail[m].asg.action = a.action
                  /\ trail[m].asg.core["a"] # None
                  /\ trail[m].asg.core["a"].id = a.approver
             NamedNext(n, a) ==
               \E m \in DOMAIN trail' :
                  /\ m < n /\ Assigned(m)' /\ trail'[m].written
                  /\ trail'[m].asg.action = a.action
                  /\ trail'[m].asg.core["a"] # None
                  /\ trail'[m].asg.core["a"].id = a.approver
  <2>1. /\ \A n \in DOMAIN trail :
              Answered(n) /\ trail[n].answer.approved => Named(n, trail[n].answer)
        /\ \A d \in Callers :
              call[d].answer # None /\ call[d].answer.approved => Named(last, call[d].answer)
    BY <1>0 DEF IInv, ApprovedByAccountable
  <2>2. ASSUME NEW a, NEW n \in Nat, Named(n, a)
        PROVE  NamedNext(n, a)
    BY <1>5, <2>2 DEF Assigned
  <2>3. ASSUME NEW a, Named(last, a)
        PROVE  NamedNext(last, a) /\ NamedNext(last + 1, a)
    BY <1>5, <2>3 DEF Assigned
  <2>4. answer.approved /\ answer # None => Named(last, answer)
    BY <2>1 DEF answer
  <2>5. answer # None
    BY <1>1, RaciAssumption
  <2> HIDE DEF Named, NamedNext
  <2>6. ASSUME NEW n \in DOMAIN trail', Answered(n)', trail'[n].answer.approved
        PROVE  NamedNext(n, trail'[n].answer)
    <3>1. CASE n \in DOMAIN trail
      BY <1>5, <2>1, <2>2, <2>6, <3>1 DEF Answered
    <3>2. CASE n = last
      BY <1>3, <1>5, <2>3, <2>4, <2>5, <2>6, <3>2
    <3>3. QED
      BY <1>5, <3>1, <3>2
  <2>7. ASSUME NEW d \in Callers, call'[d].answer # None, call'[d].answer.approved
        PROVE  NamedNext(Len(trail') + 1, call'[d].answer)
    <3>1. Named(last, call'[d].answer)
      BY <1>4, <1>6, <2>1, <2>4, <2>5, <2>7
    <3>2. QED
      BY <1>5, <2>3, <3>1
  <2>8. QED
    BY <2>6, <2>7 DEF ApprovedByAccountable, NamedNext
<1>12. ProvisionalUntilSigned'
  <2>1. SUFFICES ASSUME NEW i \in DOMAIN issued,
                        issued[i].core["a"] # None, ~issued[i].needs_confirmation
        PROVE \/ PolicyNames(issued[i].area, issued[i].core["a"].id)'
              \/ \E n \in DOMAIN trail' :
                    /\ Answered(n)'
                    /\ trail'[n].answer.action = issued[i].action
                    /\ trail'[n].answer.approver = issued[i].core["a"].id
              \/ \E d \in Callers :
                    /\ call'[d].pc = "record"
                    /\ call'[d].answer.action = issued[i].action
                    /\ call'[d].answer.approver = issued[i].core["a"].id
    BY <1>2 DEF ProvisionalUntilSigned
  <2>2. \/ PolicyNames(issued[i].area, issued[i].core["a"].id)
        \/ \E n \in DOMAIN trail :
              /\ Answered(n)
              /\ trail[n].answer.action = issued[i].action
              /\ trail[n].answer.approver = issued[i].core["a"].id
        \/ \E d \in Callers :
              /\ call[d].pc = "record"
              /\ call[d].answer.action = issued[i].action
              /\ call[d].answer.approver = issued[i].core["a"].id
    BY <2>1 DEF IInv, ProvisionalUntilSigned
  <2>3. CASE PolicyNames(issued[i].area, issued[i].core["a"].id)
    BY <1>2, <2>3, PolicyStays
  <2>4. ASSUME NEW n \in DOMAIN trail, Answered(n),
               trail[n].answer.action = issued[i].action,
               trail[n].answer.approver = issued[i].core["a"].id
        PROVE  \E m \in DOMAIN trail' :
                  /\ Answered(m)'
                  /\ trail'[m].answer.action = issued[i].action
                  /\ trail'[m].answer.approver = issued[i].core["a"].id
    BY <1>5, <2>4 DEF Answered
  <2>5. ASSUME NEW d \in Callers, call[d].pc = "record",
               call[d].answer.action = issued[i].action,
               call[d].answer.approver = issued[i].core["a"].id
        PROVE  \/ \E m \in DOMAIN trail' :
                  /\ Answered(m)'
                  /\ trail'[m].answer.action = issued[i].action
                  /\ trail'[m].answer.approver = issued[i].core["a"].id
               \/ \E x \in Callers :
                  /\ call'[x].pc = "record"
                  /\ call'[x].answer.action = issued[i].action
                  /\ call'[x].answer.approver = issued[i].core["a"].id
    <3>1. CASE d = c
      BY <1>3, <1>5, <2>5, <3>1 DEF Answered, answer
    <3>2. CASE d # c
      BY <1>6, <2>5, <3>2
    <3>3. QED
      BY <3>1, <3>2
  <2>6. QED
    BY <2>2, <2>3, <2>4, <2>5
<1>13. AnswersAreRecorded'
  <2>1. ASSUME NEW d \in Callers \ {c}, call'[d].pc = "idle", call'[d].answer # None
        PROVE  \E n \in DOMAIN trail' :
                  Answered(n)' /\ trail'[n].written /\ trail'[n].answer = call'[d].answer
    BY <1>5, <1>6, <2>1 DEF IInv, AnswersAreRecorded, Answered
  <2>2. ASSUME call'[c].answer # None
        PROVE  \E n \in DOMAIN trail' :
                  Answered(n)' /\ trail'[n].written /\ trail'[n].answer = call'[c].answer
    <3>1. written /\ call'[c].answer = answer
      BY <1>4, <1>6, <2>2
    <3>2. Answered(last)' /\ trail'[last].written /\ trail'[last].answer = answer
      BY <1>3, <1>5, <3>1 DEF Answered
    <3>3. QED
      BY <1>5, <3>1, <3>2
  <2>3. QED
    BY <2>1, <2>2 DEF AnswersAreRecorded
<1>14. QED
  BY <1>7, <1>8, <1>9, <1>10, <1>11, <1>12, <1>13 DEF IInv
LEMMA ApproveStep ==
    ASSUME IInv, NEW c \in Callers, NEW nth \in DOMAIN issued, NEW action \in Actions,
           NEW approver \in Ids \cup {Stranger}, NEW approved \in BOOLEAN,
           Approve(c, nth, action, approver, approved)
    PROVE  IInv'
<1> DEFINE named  == Answers(issued[nth], action, approver)
           answer == [action |-> action, approver |-> approver,
                      approved |-> approved /\ named]
           cc == [pc |-> "record", asg |-> None, nth |-> nth, answer |-> answer]
           new == [issued[nth] EXCEPT !.needs_confirmation = @ /\ ~named]
<1>1. /\ call[c].pc = "idle" /\ UNCHANGED <<matrix, trail, last_error>>
      /\ call' = [call EXCEPT ![c] = cc]
      /\ issued' = [issued EXCEPT ![nth].needs_confirmation = @ /\ ~named]
  BY DEF Approve
<1>2. /\ named \in BOOLEAN
      /\ named => /\ action = issued[nth].action /\ issued[nth].core["a"] # None
                  /\ approver = issued[nth].core["a"].id
  BY DEF Answers
<1>3. /\ answer \in Approvals /\ answer.action = action /\ answer.approver = approver
      /\ answer.approved => named
  <2> HIDE DEF named
  <2>1. QED
    BY <1>2 DEF Approvals
<1>4. issued[nth] \in Assignments /\ nth \in Nat
  BY LenProperties DEF IInv, ShapeOK
<1>5. /\ new \in Assignments /\ new.action = issued[nth].action
      /\ new.area = issued[nth].area /\ new.core = issued[nth].core
      /\ new.used_llm = issued[nth].used_llm /\ new.missing = issued[nth].missing
      /\ new.needs_confirmation = (issued[nth].needs_confirmation /\ ~named)
  <2> HIDE DEF named
  <2>1. new.needs_confirmation \in BOOLEAN
    BY <1>4 DEF Assignments
  <2>2. QED
    BY <1>4, <2>1 DEF Assignments
<1>6. /\ issued' \in Seq(Assignments) /\ DOMAIN issued' = DOMAIN issued
      /\ issued'[nth] = new
      /\ \A i \in DOMAIN issued \ {nth} : issued'[i] = issued[i]
  <2>1. issued' = [issued EXCEPT ![nth] = new]
    BY <1>1
  <2> HIDE DEF new
  <2>2. QED
    BY <1>5, <2>1, ExceptSeq DEF IInv, ShapeOK
<1> HIDE DEF named, answer, new
<1>7. /\ cc \in Calls /\ cc.pc = "record" /\ cc.answer = answer /\ cc.nth = nth
  BY <1>3, <1>4 DEF Calls
<1> HIDE DEF cc
<1>8. call'[c] = cc /\ \A d \in Callers \ {c} : call'[d] = call[d]
  BY <1>1 DEF IInv, ShapeOK
<1>9. ShapeOK'
  <2>1. call' \in [Callers -> Calls]
    BY <1>1, <1>7 DEF IInv, ShapeOK
  <2>2. QED
    BY <1>1, <1>6, <2>1 DEF IInv, ShapeOK
<1>10. (\A d \in Callers : CallOK(d))'
  <2>1. CallOK(c)'
    BY <1>3, <1>6, <1>7, <1>8 DEF CallOK
  <2>2. ASSUME NEW d \in Callers \ {c} PROVE CallOK(d)'
    BY <1>1, <1>6, <1>8, HonestStays DEF CallOK, IInv
  <2>3. QED
    BY <2>1, <2>2
<1>11. (\A i \in DOMAIN issued : IssuedOK(i))'
  <2>1. ASSUME NEW i \in DOMAIN issued PROVE IssuedOK(i)'
    <3>1. /\ issued'[i].action = issued[i].action /\ issued'[i].core = issued[i].core
          /\ issued'[i].used_llm = issued[i].used_llm
          /\ issued'[i].missing = issued[i].missing
          /\ issued'[i].needs_confirmation => issued[i].needs_confirmation
      BY <1>5, <1>6
    <3>2. QED
      BY <1>1, <3>1 DEF IInv, IssuedOK, Backed, Assigned
  <2>2. QED
    BY <1>6, <2>1
<1>12. TrailIsHonest'
  BY <1>1, HonestStays DEF IInv, TrailIsHonest, Assigned
<1>13. ApprovedByAccountable'
  <2>1. ASSUME answer.approved
        PROVE  \E m \in DOMAIN trail :
                  /\ m < Len(trail) + 1 /\ Assigned(m) /\ trail[m].written
                  /\ trail[m].asg.action = answer.action
                  /\ trail[m].asg.core["a"] # None
                  /\ trail[m].asg.core["a"].id = answer.approver
    <3>1. PICK m \in DOMAIN trail : Backed(issued[nth], m)
      BY DEF IInv, IssuedOK
    <3>2. m < Len(trail) + 1
      BY LenProperties DEF IInv, ShapeOK
    <3>3. QED
      BY <1>2, <1>3, <2>1, <3>1, <3>2 DEF Backed
  <2>2. QED
    BY <1>1, <1>7, <1>8, <2>1 DEF IInv, ApprovedByAccountable, Assigned, Answered
<1>14. ProvisionalUntilSigned'
  <2>1. SUFFICES ASSUME NEW i \in DOMAIN issued,
                        issued'[i].core["a"] # None, ~issued'[i].needs_confirmation
        PROVE \/ PolicyNames(issued[i].area, issued[i].core["a"].id)'
              \/ \E n \in DOMAIN trail :
                    /\ Answered(n)
                    /\ trail[n].answer.action = issued'[i].action
                    /\ trail[n].answer.approver = issued'[i].core["a"].id
              \/ \E d \in Callers :
                    /\ call'[d].pc = "record"
                    /\ call'[d].answer.action = issued'[i].action
                    /\ call'[d].answer.approver = issued'[i].core["a"].id
    BY <1>1, <1>6 DEF ProvisionalUntilSigned, Answered
  <2>2. /\ issued'[i].action = issued[i].action /\ issued'[i].core = issued[i].core
        /\ issued'[i].area = issued[i].area
    BY <1>5, <1>6
  <2>3. CASE i = nth /\ named
    BY <1>2, <1>3, <1>7, <1>8, <2>2, <2>3
  <2>4. CASE ~(i = nth /\ named)
    <3>1. ~issued[i].needs_confirmation
      BY <1>4, <1>5, <1>6, <2>1, <2>4
    <3>2. \/ PolicyNames(issued[i].area, issued[i].core["a"].id)
          \/ \E n \in DOMAIN trail :
                /\ Answered(n)
                /\ trail[n].answer.action = issued[i].action
                /\ trail[n].answer.approver = issued[i].core["a"].id
          \/ \E d \in Callers :
                /\ call[d].pc = "record"
                /\ call[d].answer.action = issued[i].action
                /\ call[d].answer.approver = issued[i].core["a"].id
      BY <2>1, <2>2, <3>1 DEF IInv, ProvisionalUntilSigned
    <3>3. CASE PolicyNames(issued[i].area, issued[i].core["a"].id)
      <4>1. PolicyNames(issued'[i].area, issued'[i].core["a"].id)
        BY <2>2, <3>3
      <4>2. QED
        BY <1>1, <4>1, PolicyStays
    <3>4. QED
      BY <1>1, <1>8, <2>2, <3>2, <3>3
  <2>5. QED
    BY <2>3, <2>4
<1>15. AnswersAreRecorded'
  BY <1>1, <1>7, <1>8 DEF IInv, AnswersAreRecorded, Answered
<1>16. QED
  BY <1>9, <1>10, <1>11, <1>12, <1>13, <1>14, <1>15 DEF IInv

-----------------------------------------------------------------------------
LEMMA InitHolds == Init => IInv
<1> SUFFICES ASSUME Init PROVE IInv
  OBVIOUS
<1>1. /\ matrix \in Matrices /\ call = [c \in Callers |-> Idle]
      /\ issued = << >> /\ trail = << >> /\ last_error = FALSE
  BY DEF Init
<1>2. Idle \in Calls /\ Idle.pc = "idle" /\ Idle.answer = None
  BY DEF Idle, Calls
<1>3. DOMAIN issued = {} /\ DOMAIN trail = {}
  BY <1>1
<1>4. ShapeOK
  BY <1>1, <1>2, EmptySeq DEF ShapeOK
<1>5. \A c \in Callers : CallOK(c)
  BY <1>1, <1>2 DEF CallOK
<1>6. /\ \A i \in DOMAIN issued : IssuedOK(i)
      /\ TrailIsHonest /\ ProvisionalUntilSigned
  BY <1>3 DEF TrailIsHonest, ProvisionalUntilSigned
<1>7. ApprovedByAccountable /\ AnswersAreRecorded
  BY <1>1, <1>2, <1>3 DEF ApprovedByAccountable, AnswersAreRecorded
<1>8. QED
  BY <1>4, <1>5, <1>6, <1>7 DEF IInv

LEMMA NextHolds == IInv /\ [Next]_vars => IInv'
<1> SUFFICES ASSUME IInv, [Next]_vars PROVE IInv'
  OBVIOUS
<1>1. CASE UNCHANGED vars
  <2>1. UNCHANGED <<matrix, call, issued, trail, last_error>>
    BY <1>1 DEF vars
  <2>2. ShapeOK' /\ (\A c \in Callers : CallOK(c))'
    BY <2>1, HonestStays DEF IInv, ShapeOK, CallOK
  <2>3. (\A i \in DOMAIN issued : IssuedOK(i))' /\ TrailIsHonest'
    BY <2>1, HonestStays DEF IInv, IssuedOK, Backed, Assigned, TrailIsHonest
  <2>4. ApprovedByAccountable' /\ AnswersAreRecorded'
    BY <2>1 DEF IInv, ApprovedByAccountable, AnswersAreRecorded, Assigned, Answered
  <2>5. ProvisionalUntilSigned'
    BY <2>1, PolicyStays DEF IInv, ProvisionalUntilSigned, Answered
  <2>6. QED
    BY <2>2, <2>3, <2>4, <2>5 DEF IInv
<1>2. CASE Next
  BY <1>2, AssignStep, JudgeRepliesStep, JudgeFailsStep, LogStep, RecordStep, ApproveStep
  DEF Next
<1>3. QED
  BY <1>1, <1>2

(* The inductive invariant: what a call carries is honest, and whoever has *)
(* an assignment has one the trail's file already holds.                   *)
THEOREM GateInvariant == Spec => []IInv
  BY InitHolds, NextHolds, PTL DEF Spec

(* The gate's variables keep their types: a call that waits for the judge  *)
(* or for the trail has its assignment, an answer on its way to the trail  *)
(* is about an assignment that exists.                                     *)
THEOREM GateTypes == Spec => []TypeOK
<1>1. IInv => TypeOK
  <2> SUFFICES ASSUME IInv PROVE TypeOK
    OBVIOUS
  <2>1. matrix \in Matrices /\ last_error \in BOOLEAN
    BY DEF IInv, ShapeOK
  <2>2. ASSUME NEW c \in Callers
        PROVE  /\ call[c].pc \in {"idle", "judge", "log", "record"}
               /\ call[c].pc \in {"judge", "log"} => call[c].asg # None
               /\ call[c].pc = "record" => call[c].nth \in DOMAIN issued
    BY RaciAssumption DEF IInv, ShapeOK, Calls, CallOK, Honest
  <2>3. \A n \in DOMAIN trail : trail[n].event \in {"raci_assigned", "approval_recorded"}
    <3>1. \A n \in DOMAIN trail : trail[n] \in Entries
      BY LenProperties DEF IInv, ShapeOK
    <3>2. QED
      BY <3>1 DEF Entries
  <2>4. \A i \in DOMAIN issued :
           issued[i].needs_confirmation => issued[i].used_llm /\ ~issued[i].missing
    BY DEF IInv, IssuedOK
  <2>5. QED
    BY <2>1, <2>2, <2>3, <2>4 DEF TypeOK
<1>2. QED
  BY <1>1, GateInvariant, PTL

(* "Whose name is on this action?" (approve): an approval is the decision  *)
(* of a person whom an assignment already in the trail's file made         *)
(* Accountable for this very action, whoever called and in whatever order. *)
THEOREM ApprovalIsAccountable == Spec => []ApprovedByAccountable
<1>1. IInv => ApprovedByAccountable
  BY DEF IInv
<1>2. QED
  BY <1>1, GateInvariant, PTL

(* "The LLM never approves" (assign, approve): an Accountable the matrix   *)
(* did not name, by its own order of rows, stays provisional until that    *)
(* person answers about that action.                                       *)
THEOREM JudgeNeverApproves == Spec => []ProvisionalUntilSigned
<1>1. IInv => ProvisionalUntilSigned
  BY DEF IInv
<1>2. QED
  BY <1>1, GateInvariant, PTL

(* What approve returned is in the trail's file, though the assignment has *)
(* changed before the entry is written and stays changed when it is not.   *)
THEOREM NoAnswerIsLost == Spec => []AnswersAreRecorded
<1>1. IInv => AnswersAreRecorded
  BY DEF IInv
<1>2. QED
  BY <1>1, GateInvariant, PTL

(* "its contribution is always labelled as such" (assign): in every entry  *)
(* of the trail, a bearer whose source is the matrix is the one the matrix *)
(* resolves to, and whatever the judge chose or wrote says that it spoke.  *)
THEOREM JudgeIsLabelled == Spec => []JudgeIsMarked
<1>1. IInv => JudgeIsMarked
  BY DEF IInv, TrailIsHonest, Honest, FromPolicy, JudgeIsMarked
<1>2. QED
  BY <1>1, GateInvariant, PTL
=============================================================================
