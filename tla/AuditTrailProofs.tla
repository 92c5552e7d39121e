-------------------------- MODULE AuditTrailProofs --------------------------
(* What the hash chain shows and vouches for, for any number of trails and *)
(* entries, and any bodies.                                                *)
EXTENDS AuditTrail, InductionLemmas, SequenceTheorems, TLAPS

(* A sequence begins with another.                                         *)
Begins(s, t) == Len(s) \leq Len(t) /\ \A i \in 1..Len(s) : s[i] = t[i]

(* A trail's head is that of its entries, and so is the anchor's.          *)
HeadsMatch ==
    /\ \A t \in Trails : trail[t].last = LastHash(trail[t].entries)
    /\ anchor.hash = LastHash(anchor.entries)

(* As long as nothing has happened to the file, it verifies, and what is   *)
(* remembered of it is its beginning.                                      *)
Calm ==
    Undisturbed /\ harm.change = "none" =>
        /\ ~cut /\ Verified(file)
        /\ \A t \in Trails : Begins(trail[t].entries, file)
        /\ Begins(anchor.entries, file)

IInv == TypeOK /\ HeadsMatch /\ Calm /\ ChangesShow

-----------------------------------------------------------------------------
(* Hashes: one commits to everything before it.                            *)

LEMMA HashFacts ==
    ASSUME NEW seq \in Nat, NEW b \in Bodies, NEW p \in Hashes
    PROVE  /\ Hash(seq, b, p) \in Hashes /\ Len(Hash(seq, b, p)) = Len(p) + 1
           /\ Hash(seq, b, p) # p /\ Len(p) \in Nat
<1>1. <<seq, b>> \in Nat \X Bodies
  OBVIOUS
<1>2. QED
  BY <1>1, AppendProperties, LenProperties DEF Hash, Hashes

LEMMA HashInjective ==
    ASSUME NEW s \in Nat, NEW b \in Bodies, NEW p \in Hashes,
           NEW s2 \in Nat, NEW b2 \in Bodies, NEW p2 \in Hashes,
           Hash(s, b, p) = Hash(s2, b2, p2)
    PROVE  s = s2 /\ b = b2 /\ p = p2
<1>1. <<s, b>> \in Nat \X Bodies /\ <<s2, b2>> \in Nat \X Bodies
  OBVIOUS
<1>2. p = p2 /\ <<s, b>> = <<s2, b2>>
  BY <1>1, AppendInjective DEF Hash, Hashes
<1>3. QED
  BY <1>2

LEMMA GenesisFacts == GENESIS \in Hashes /\ Len(GENESIS) = 0
  BY EmptySeq DEF GENESIS, Hashes

LEMMA EntryFacts ==
    ASSUME NEW seq \in Nat, NEW b \in Bodies, NEW p \in Hashes
    PROVE  Entry(seq, b, p) \in Entries
  BY HashFacts DEF Entry, Entries

LEMMA EntryFields ==
    \A e \in Entries :
        /\ e.seq \in Nat /\ e.body \in Bodies /\ e.prev_hash \in Hashes /\ e.entry_hash \in Hashes
        /\ \A d \in Entries :
              /\ e.seq = d.seq /\ e.body = d.body
              /\ e.prev_hash = d.prev_hash /\ e.entry_hash = d.entry_hash
              => e = d
  BY DEF Entries

(* A line is read back as an entry, the same one if its body is stable.    *)
LEMMA LineFacts ==
    ASSUME NEW e \in Entries
    PROVE  /\ Line(e) \in Entries
           /\ Reread[e.body] = e.body => Line(e) = e
<1>1. e.body \in Bodies /\ Reread[e.body] \in Bodies
  BY AuditAssumption DEF Entries
<1>2. Line(e) = [e EXCEPT !.body = Reread[e.body]]
  BY DEF Line
<1>3. QED
  BY <1>1, <1>2 DEF Entries

LEMMA ReadableFacts == Readable \subseteq Bodies
  BY AuditAssumption DEF Readable

LEMMA LastHashFacts ==
    ASSUME NEW s \in Seq(Entries)
    PROVE  /\ LastHash(s) \in Hashes
           /\ LastHash(s) = IF Len(s) = 0 THEN GENESIS ELSE s[Len(s)].entry_hash
<1>1. Len(s) \in Nat /\ (s = << >> <=> Len(s) = 0)
  BY EmptySeq, LenProperties
<1>2. Len(s) # 0 => s[Len(s)] \in Entries
  BY <1>1, ElementOfSeq
<1>3. QED
  BY <1>1, <1>2, GenesisFacts DEF LastHash, Last, Entries

(* The hash of an entry of a chain that verifies tells its place.          *)
LEMMA HashLengths ==
    ASSUME NEW items \in Seq(Entries), Verified(items)
    PROVE  \A i \in 1..Len(items) : Len(items[i].entry_hash) = i
<1> DEFINE T == {n \in Nat : n \in 1..Len(items) => Len(items[n].entry_hash) = n}
<1>1. 0 \in T
  OBVIOUS
<1>2. ASSUME NEW n \in Nat, n \in T
      PROVE  n + 1 \in T
  <2> SUFFICES ASSUME n + 1 \in 1..Len(items)
               PROVE  Len(items[n + 1].entry_hash) = n + 1
    OBVIOUS
  <2>1. items[n + 1] \in Entries /\ n + 1 \in DOMAIN items
    BY ElementOfSeq, LenProperties
  <2>2. /\ items[n + 1].prev_hash = IF n + 1 = 1 THEN GENESIS ELSE items[n].entry_hash
        /\ items[n + 1].entry_hash =
              Hash(items[n + 1].seq, items[n + 1].body, items[n + 1].prev_hash)
    BY <2>1 DEF Verified
  <2>3. Len(items[n + 1].prev_hash) = n
    BY <1>2, <2>2, GenesisFacts, LenProperties
  <2>4. Len(items[n + 1].entry_hash) = Len(items[n + 1].prev_hash) + 1
    <3>1. /\ items[n + 1].seq \in Nat /\ items[n + 1].body \in Bodies
          /\ items[n + 1].prev_hash \in Hashes
      BY <2>1, EntryFields
    <3>2. QED
      BY <2>2, <3>1, HashFacts
  <2>5. QED
    BY <2>3, <2>4
<1>3. Nat \subseteq T
  <2> HIDE DEF T
  <2>1. QED
    BY <1>1, <1>2, SetInduction
<1>4. QED
  BY <1>3, LenProperties

(* Two chains that verify and agree on one hash agree on all before it.    *)
LEMMA ChainsAgree ==
    ASSUME NEW a \in Seq(Entries), NEW f \in Seq(Entries), Verified(a), Verified(f),
           Len(a) \leq Len(f), Len(a) # 0,
           f[Len(a)].entry_hash = a[Len(a)].entry_hash
    PROVE  Begins(a, f)
<1> DEFINE c == Len(a)
           T == {n \in Nat : n < c => f[c - n].entry_hash = a[c - n].entry_hash
                                      /\ f[c - n] = a[c - n]}
<1>1. c \in Nat /\ Len(f) \in Nat /\ DOMAIN a = 1..c /\ DOMAIN f = 1..Len(f)
  BY LenProperties
<1>2. ASSUME NEW i \in 1..c, f[i].entry_hash = a[i].entry_hash
      PROVE  f[i] = a[i]
  <2>1. a[i] \in Entries /\ f[i] \in Entries /\ i \in DOMAIN a /\ i \in DOMAIN f
    BY <1>1, ElementOfSeq
  <2>2. /\ a[i].entry_hash = Hash(a[i].seq, a[i].body, a[i].prev_hash)
        /\ f[i].entry_hash = Hash(f[i].seq, f[i].body, f[i].prev_hash)
    BY <2>1 DEF Verified
  <2>3. a[i].seq = f[i].seq /\ a[i].body = f[i].body /\ a[i].prev_hash = f[i].prev_hash
    BY <1>2, <2>1, <2>2, HashInjective, EntryFields
  <2>4. QED
    BY <1>2, <2>1, <2>3, EntryFields
<1>3. 0 \in T
  BY <1>1, <1>2
<1>4. ASSUME NEW n \in Nat, n \in T
      PROVE  n + 1 \in T
  <2> SUFFICES ASSUME n + 1 < c
               PROVE  /\ f[c - (n + 1)].entry_hash = a[c - (n + 1)].entry_hash
                      /\ f[c - (n + 1)] = a[c - (n + 1)]
    OBVIOUS
  <2> DEFINE i == c - (n + 1)
  <2>1. i \in 1..c /\ i + 1 = c - n /\ i + 1 \in 1..c /\ i + 1 # 1 /\ (i + 1) - 1 = i
    <3> HIDE DEF c
    <3>1. QED
      BY <1>1
  <2>2. f[i + 1] = a[i + 1]
    <3>1. n < c
      <4> HIDE DEF c
      <4>1. QED
        BY <1>1
    <3>2. f[c - n] = a[c - n]
      BY <1>4, <3>1
    <3>3. QED
      BY <2>1, <3>2
  <2>3. f[i + 1].prev_hash = f[i].entry_hash /\ a[i + 1].prev_hash = a[i].entry_hash
    <3>1. i + 1 \in DOMAIN a /\ i + 1 \in DOMAIN f
      <4> HIDE DEF i
      <4>1. QED
        BY <1>1, <2>1
    <3> HIDE DEF i
    <3>2. QED
      BY <2>1, <3>1 DEF Verified
  <2>4. QED
    BY <1>2, <2>1, <2>2, <2>3
<1>5. Nat \subseteq T
  <2> HIDE DEF T
  <2>1. QED
    BY <1>3, <1>4, SetInduction
<1>6. \A i \in 1..c : a[i] = f[i]
  <2> TAKE i \in 1..c
  <2>1. c - i \in Nat /\ c - i < c /\ c - (c - i) = i
    <3> HIDE DEF c
    <3>1. QED
      BY <1>1
  <2>2. QED
    BY <1>5, <2>1
<1>7. QED
  BY <1>6 DEF Begins

-----------------------------------------------------------------------------
(* Sequences of entries.                                                   *)

LEMMA PrefixMeans ==
    ASSUME NEW s \in Seq(Entries), NEW t \in Seq(Entries)
    PROVE  IsPrefix(s, t) <=> Begins(s, t)
<1> USE LenProperties
<1>1. CASE Len(s) \leq Len(t)
  <2>1. Len(s) \in Nat /\ Len(t) \in Nat
    OBVIOUS
  <2>2. /\ SubSeq(s, 1, Len(s)) = [i \in 1..Len(s) |-> s[i]]
        /\ SubSeq(t, 1, Len(s)) = [i \in 1..Len(s) |-> t[i]]
    BY <1>1, <2>1
  <2>3. QED
    BY <1>1, <2>2 DEF IsPrefix, Begins
<1>2. CASE ~(Len(s) \leq Len(t))
  BY <1>2 DEF IsPrefix, Begins
<1>3. QED
  BY <1>1, <1>2

LEMMA BeginsLonger ==
    ASSUME NEW s \in Seq(Entries), NEW t \in Seq(Entries), NEW e \in Entries, Begins(s, t)
    PROVE  Begins(s, Append(t, e))
  BY AppendProperties, LenProperties DEF Begins

(* A beginning of a chain that verifies does so, and no less.              *)
LEMMA VerifiedBeginning ==
    ASSUME NEW s \in Seq(Entries), NEW t \in Seq(Entries), Begins(s, t), Verified(t)
    PROVE  Verified(s)
<1> USE LenProperties
<1>1. \A i \in DOMAIN s : i \in DOMAIN t /\ s[i] = t[i] /\ (i # 1 => i - 1 \in 1..Len(s))
  BY DEF Begins
<1>2. \A i \in DOMAIN s : i # 1 => s[i - 1] = t[i - 1]
  BY <1>1 DEF Begins
<1>3. QED
  BY <1>1, <1>2 DEF Verified

(* The next entry of a trail that verifies verifies.                       *)
LEMMA VerifiedAppend ==
    ASSUME NEW s \in Seq(Entries), Verified(s), NEW seq \in Nat, NEW b \in Bodies,
           NEW e, e = Entry(seq, b, LastHash(s))
    PROVE  Verified(Append(s, e))
<1>1. e \in Entries /\ LastHash(s) = IF Len(s) = 0 THEN GENESIS ELSE s[Len(s)].entry_hash
  BY EntryFacts, LastHashFacts
<1> DEFINE r == Append(s, e)
<1>2. /\ Len(s) \in Nat /\ DOMAIN s = 1..Len(s) /\ DOMAIN r = 1..(Len(s) + 1)
      /\ \A i \in 1..Len(s) : r[i] = s[i]
      /\ r[Len(s) + 1] = e
  BY <1>1, AppendProperties, LenProperties
<1> HIDE DEF r
<1>3. ASSUME NEW i \in 1..Len(s)
      PROVE  /\ r[i].prev_hash = IF i = 1 THEN GENESIS ELSE r[i - 1].entry_hash
             /\ r[i].entry_hash = Hash(r[i].seq, r[i].body, r[i].prev_hash)
  <2>1. i # 1 => i - 1 \in 1..Len(s)
    BY <1>2
  <2>2. QED
    BY <1>2, <2>1 DEF Verified
<1>4. /\ e.prev_hash = IF Len(s) + 1 = 1 THEN GENESIS ELSE r[Len(s)].entry_hash
      /\ e.entry_hash = Hash(e.seq, e.body, e.prev_hash)
  BY <1>1, <1>2 DEF Entry
<1>5. \A i \in DOMAIN r :
         /\ r[i].prev_hash = IF i = 1 THEN GENESIS ELSE r[i - 1].entry_hash
         /\ r[i].entry_hash = Hash(r[i].seq, r[i].body, r[i].prev_hash)
  <2> TAKE i \in DOMAIN r
  <2>1. i \in 1..Len(s) \/ i = Len(s) + 1
    BY <1>2
  <2>2. (Len(s) + 1) - 1 = Len(s)
    BY <1>2
  <2>3. QED
    BY <1>2, <1>3, <1>4, <2>1, <2>2
<1>6. QED
  BY <1>5 DEF Verified, r

(* The chain that is rebuilt from an entry on is a sequence of entries.    *)
LEMMA RehashedFacts ==
    ASSUME NEW lines \in Seq(Entries), NEW i, NEW b \in Bodies
    PROVE  Rehashed(lines, i, b) \in Seq(Entries)
<1> DEFINE L == Len(lines)
           Value(g, n) ==
              IF n = 0 THEN << >>
              ELSE IF n < i THEN Append(g[n - 1], lines[n])
              ELSE Append(g[n - 1], Entry(lines[n].seq, IF n = i THEN b ELSE lines[n].body,
                                          LastHash(g[n - 1])))
           Chain(g) == [n \in 0..L |-> Value(g, n)]
           chain == CHOOSE g : g = Chain(g)
           T == {n \in Nat : \E g : \A k \in 0..L : k \leq n => g[k] = Value(g, k)}
<1>1. Rehashed(lines, i, b) = chain[L]
  BY DEF Rehashed
<1>2. L \in Nat
  BY LenProperties
<1>3. 0 \in T
  <2> DEFINE h == [k \in 0..L |-> << >>]
  <2>1. \A k \in 0..L : k \leq 0 => h[k] = Value(h, k)
    BY <1>2
  <2> HIDE DEF h, Value
  <2>2. QED
    BY <2>1
<1>4. ASSUME NEW n \in Nat, n \in T
      PROVE  n + 1 \in T
  <2>1. PICK g : \A k \in 0..L : k \leq n => g[k] = Value(g, k)
    BY <1>4
  <2> DEFINE h == Chain(g)
  <2>2. \A k \in 0..L : h[k] = Value(g, k)
    OBVIOUS
  <2>3. \A k \in 0..L : k \leq n => h[k] = g[k]
    <3> HIDE DEF Value, h
    <3>1. QED
      BY <2>1, <2>2
  <2>4. \A k \in 0..L : k \leq n + 1 => Value(h, k) = Value(g, k)
    <3> TAKE k \in 0..L
    <3> HAVE k \leq n + 1
    <3>1. k # 0 => k - 1 \in 0..L /\ k - 1 \leq n
      BY <1>2
    <3>2. k # 0 => h[k - 1] = g[k - 1]
      <4> HIDE DEF h
      <4>1. QED
        BY <2>3, <3>1
    <3> HIDE DEF h
    <3>3. QED
      BY <3>2
  <2>5. \A k \in 0..L : k \leq n + 1 => h[k] = Value(h, k)
    <3> HIDE DEF Value, h
    <3>1. QED
      BY <2>2, <2>4
  <2> HIDE DEF Value, h
  <2>6. QED
    BY <2>5
<1>5. \E g : g = Chain(g)
  <2>1. Nat \subseteq T
    <3> HIDE DEF T
    <3>1. QED
      BY <1>3, <1>4, SetInduction
  <2>2. PICK g : \A k \in 0..L : k \leq L => g[k] = Value(g, k)
    <3> HIDE DEF Value
    <3>1. L \in T
      BY <1>2, <2>1
    <3>2. QED
      BY <3>1
  <2> DEFINE h == Chain(g)
  <2>3. \A k \in 0..L : h[k] = g[k]
    <3> HIDE DEF Value
    <3>1. QED
      BY <1>2, <2>2
  <2>4. \A k \in 0..L : Value(h, k) = Value(g, k)
    <3> TAKE k \in 0..L
    <3>1. k # 0 => k - 1 \in 0..L
      BY <1>2
    <3> HIDE DEF h
    <3>2. QED
      BY <2>3, <3>1
  <2>5. h = Chain(h)
    <3> HIDE DEF Value
    <3>1. QED
      BY <2>4
  <2> HIDE DEF h
  <2>6. QED
    BY <2>5
<1>6. chain = Chain(chain)
  <2> HIDE DEF Chain
  <2>1. QED
    BY <1>5
<1>7. \A k \in 0..L : chain[k] = Value(chain, k)
  <2> HIDE DEF chain, Value
  <2>1. QED
    BY <1>6
<1> HIDE DEF chain
<1> DEFINE S == {n \in Nat : n \leq L => chain[n] \in Seq(Entries)}
<1>8. 0 \in S
  <2>1. 0 \in 0..L
    BY <1>2
  <2>2. chain[0] = << >>
    BY <1>7, <2>1
  <2>3. << >> \in Seq(Entries)
    BY EmptySeq
  <2>4. QED
    BY <2>2, <2>3
<1>9. ASSUME NEW n \in Nat, n \in S
      PROVE  n + 1 \in S
  <2> SUFFICES ASSUME n + 1 \leq L
               PROVE  chain[n + 1] \in Seq(Entries)
    OBVIOUS
  <2>1. n + 1 \in 1..L /\ n + 1 \in 0..L /\ n + 1 # 0 /\ (n + 1) - 1 = n
    BY <1>2
  <2>2. chain[n] \in Seq(Entries) /\ lines[n + 1] \in Entries
    BY <1>2, <1>9, <2>1, ElementOfSeq
  <2> DEFINE e == Entry(lines[n + 1].seq, IF n + 1 = i THEN b ELSE lines[n + 1].body,
                        LastHash(chain[n]))
  <2>3. e \in Entries
    BY <2>2, EntryFields, EntryFacts, LastHashFacts
  <2> HIDE DEF e
  <2>4. chain[n + 1] \in {Append(chain[n], lines[n + 1]), Append(chain[n], e)}
    BY <1>7, <2>1 DEF e
  <2>5. \A q \in Seq(Entries), d \in Entries : Append(q, d) \in Seq(Entries)
    BY AppendProperties
  <2>6. QED
    BY <2>2, <2>3, <2>4, <2>5
<1>10. Nat \subseteq S
  <2> HIDE DEF S
  <2>1. QED
    BY <1>8, <1>9, SetInduction
<1>11. QED
  BY <1>1, <1>2, <1>10

-----------------------------------------------------------------------------
(* Every change to the file, of whatever kind, leaves a file of entries.   *)
LEMMA ChangedFile ==
    ASSUME TypeOK, ChangeFile
    PROVE  /\ file' \in Seq(Entries)
           /\ harm.change = "none" /\ ~cut
           /\ harm' = [harm EXCEPT !.change = harm'.change]
           /\ harm'.change \in Changes \ {"none"}
           /\ UNCHANGED <<trail, cut, anchor>>
<1> USE DEF TypeOK, Change, Changes
<1>1. PICK i \in DOMAIN file :
        \/ \E b \in Readable :
              /\ b # file[i].body
              /\ \/ Change("edited", [file EXCEPT ![i].body = b])
                 \/ Change("rehashed", Rehashed(file, i, b))
        \/ i < Len(file) /\ Change("deleted", RemoveAt(file, i))
        \/ Change("dropped", SubSeq(file, 1, i - 1))
        \/ \E j \in DOMAIN file :
              i < j /\ Change("reordered",
                              [file EXCEPT ![i] = file[j], ![j] = file[i]])
  BY DEF ChangeFile
<1>2. i \in 1..Len(file) /\ Len(file) \in Nat /\ file[i] \in Entries
  BY LenProperties, ElementOfSeq
<1>3. ASSUME NEW b \in Readable, Change("edited", [file EXCEPT ![i].body = b])
      PROVE  file' \in Seq(Entries)
  <2>1. [file[i] EXCEPT !.body = b] \in Entries
    BY <1>2, ReadableFacts DEF Entries
  <2>2. QED
    BY <1>2, <1>3, <2>1, ExceptSeq
<1>4. ASSUME NEW b \in Readable, Change("rehashed", Rehashed(file, i, b))
      PROVE  file' \in Seq(Entries)
  BY <1>4, ReadableFacts, RehashedFacts
<1>5. CASE i < Len(file) /\ Change("deleted", RemoveAt(file, i))
  <2>1. SubSeq(file, 1, i - 1) \in Seq(Entries) /\ SubSeq(file, i + 1, Len(file)) \in Seq(Entries)
    BY <1>2, SubSeqProperties
  <2>2. QED
    BY <1>5, <2>1, ConcatProperties DEF RemoveAt
<1>6. CASE Change("dropped", SubSeq(file, 1, i - 1))
  BY <1>2, <1>6, SubSeqProperties
<1>7. ASSUME NEW j \in DOMAIN file,
             Change("reordered", [file EXCEPT ![i] = file[j], ![j] = file[i]])
      PROVE  file' \in Seq(Entries)
  <2>1. j \in 1..Len(file) /\ file[j] \in Entries
    BY LenProperties, ElementOfSeq
  <2>2. [file EXCEPT ![i] = file[j]] \in Seq(Entries)
        /\ Len([file EXCEPT ![i] = file[j]]) = Len(file)
    BY <1>2, <2>1, ExceptSeq
  <2>3. QED
    BY <1>2, <1>7, <2>1, <2>2, ExceptSeq
<1>8. file' \in Seq(Entries)
  BY <1>1, <1>3, <1>4, <1>5, <1>6, <1>7
<1>9. \E kind \in Changes \ {"none"} :
         /\ harm.change = "none" /\ ~cut
         /\ harm' = [harm EXCEPT !.change = kind]
         /\ UNCHANGED <<trail, cut, anchor>>
  BY <1>1
<1>10. QED
  BY <1>8, <1>9

(* What append does to the record of what happened to the file.            *)
LEMMA HarmOfAppend ==
    ASSUME TypeOK, NEW t \in Trails, NEW b \in Bodies, AppendReturns(t, b)
    PROVE  /\ harm' \in Harms /\ harm'.lost = harm.lost /\ harm'.change = harm.change
           /\ harm'.forked = (harm.forked \/ Forks(t))
           /\ harm'.garbled = (harm.garbled \/ Reread[b] # b)
<1>1. harm \in Harms
  BY DEF TypeOK
<1>2. PICK f : f = (harm.forked \/ Forks(t))
  OBVIOUS
<1>3. PICK g : g = (harm.garbled \/ Reread[b] # b)
  OBVIOUS
<1>4. f \in BOOLEAN /\ g \in BOOLEAN
  BY <1>2, <1>3
<1>5. harm' = [harm EXCEPT !.forked = f, !.garbled = g]
  BY <1>2, <1>3 DEF AppendReturns
<1>6. /\ harm' \in Harms /\ harm'.lost = harm.lost /\ harm'.change = harm.change
      /\ harm'.forked = f /\ harm'.garbled = g
  BY <1>1, <1>4, <1>5 DEF Harms
<1>7. QED
  BY <1>2, <1>3, <1>6

(* What append leaves behind.                                              *)
LEMMA Appended ==
    ASSUME TypeOK, HeadsMatch, NEW t \in Trails, NEW b \in Bodies, Remember(t, NextEntry(t, b))
    PROVE  LET e == NextEntry(t, b) IN
           /\ e \in Entries /\ e.body = b
           /\ e = Entry(Len(trail[t].entries), b, LastHash(trail[t].entries))
           /\ Len(trail[t].entries) \in Nat
           /\ trail' \in [Trails -> [open : BOOLEAN, entries : Seq(Entries), last : Hashes]]
           /\ trail'[t].entries = Append(trail[t].entries, e)
           /\ trail'[t].last = LastHash(trail'[t].entries)
           /\ \A u \in Trails : u # t => trail'[u] = trail[u]
<1> DEFINE e == NextEntry(t, b)
           s == trail[t].entries
<1>1. trail[t] \in [open : BOOLEAN, entries : Seq(Entries), last : Hashes]
  BY DEF TypeOK
<1>2. s \in Seq(Entries) /\ Len(s) \in Nat /\ trail[t].last = LastHash(s)
      /\ trail[t].last \in Hashes
  BY <1>1, LenProperties DEF HeadsMatch
<1>3. /\ e = Entry(Len(s), b, LastHash(s)) /\ e \in Entries /\ e.entry_hash \in Hashes
      /\ e.body = b
  <2>1. e = Entry(Len(s), b, LastHash(s)) /\ e \in Entries /\ e.entry_hash \in Hashes
    BY <1>2, EntryFacts, EntryFields DEF NextEntry
  <2>2. QED
    BY <2>1 DEF Entry
<1> HIDE DEF e
<1>4. trail' = [trail EXCEPT ![t] = [@ EXCEPT !.entries = Append(s, e), !.last = e.entry_hash]]
  BY DEF Remember, TypeOK, e
<1>5. Append(s, e) \in Seq(Entries) /\ Len(Append(s, e)) = Len(s) + 1
      /\ Append(s, e)[Len(s) + 1] = e
  BY <1>2, <1>3, AppendProperties
<1>6. LastHash(Append(s, e)) = e.entry_hash
  <2>1. LastHash(Append(s, e)) = IF Len(Append(s, e)) = 0 THEN GENESIS
                                 ELSE Append(s, e)[Len(Append(s, e))].entry_hash
    BY <1>5, LastHashFacts
  <2>2. QED
    BY <1>2, <1>5, <2>1
<1> DEFINE new == [trail[t] EXCEPT !.entries = Append(s, e), !.last = e.entry_hash]
<1>7. /\ new \in [open : BOOLEAN, entries : Seq(Entries), last : Hashes]
      /\ new.entries = Append(s, e) /\ new.last = e.entry_hash
  BY <1>1, <1>3, <1>5
<1> HIDE DEF new
<1>8. trail' = [trail EXCEPT ![t] = new]
  BY <1>4 DEF new
<1>9. /\ trail' \in [Trails -> [open : BOOLEAN, entries : Seq(Entries), last : Hashes]]
      /\ trail'[t] = new /\ \A u \in Trails : u # t => trail'[u] = trail[u]
  BY <1>7, <1>8 DEF TypeOK
<1>10. QED
  BY <1>2, <1>3, <1>6, <1>7, <1>9 DEF e

-----------------------------------------------------------------------------
(* The inductive invariant.                                                *)

LEMMA TypesKept ==
    ASSUME TypeOK, HeadsMatch, Next
    PROVE  TypeOK'
<1>1. CASE ChangeFile
  BY <1>1, ChangedFile DEF TypeOK, Changes, Harms
<1>2. ASSUME NEW t \in Trails, Open(t) \/ Close(t) \/ TakeAnchor(t)
      PROVE  TypeOK'
  <2>1. trail[t] \in [open : BOOLEAN, entries : Seq(Entries), last : Hashes]
    BY DEF TypeOK
  <2>2. CASE Open(t)
    <3>1. [open |-> TRUE, entries |-> file, last |-> LastHash(file)]
             \in [open : BOOLEAN, entries : Seq(Entries), last : Hashes]
      BY LastHashFacts DEF TypeOK
    <3>2. QED
      BY <2>2, <3>1 DEF Open, TypeOK
  <2>3. CASE Close(t)
    <3>1. Closed \in [open : BOOLEAN, entries : Seq(Entries), last : Hashes]
      BY EmptySeq, GenesisFacts DEF Closed
    <3>2. QED
      BY <2>3, <3>1 DEF Close, TypeOK
  <2>4. CASE TakeAnchor(t)
    BY <2>1, <2>4 DEF TakeAnchor, TypeOK
  <2>5. QED
    BY <1>2, <2>2, <2>3, <2>4
<1>3. ASSUME NEW t \in Trails, NEW b \in Bodies, AppendReturns(t, b)
      PROVE  TypeOK'
  <2>1. Remember(t, NextEntry(t, b)) /\ Write(NextEntry(t, b)) /\ UNCHANGED <<cut, anchor>>
    BY <1>3 DEF AppendReturns
  <2>2. NextEntry(t, b) \in Entries
        /\ trail' \in [Trails -> [open : BOOLEAN, entries : Seq(Entries), last : Hashes]]
    BY <2>1, Appended
  <2>3. file' \in Seq(Entries)
    BY <2>1, <2>2, LineFacts, AppendProperties DEF Write, TypeOK
  <2>4. harm' \in Harms
    BY <1>3, HarmOfAppend
  <2>5. QED
    BY <2>1, <2>2, <2>3, <2>4 DEF TypeOK
<1>4. ASSUME NEW t \in Trails, NEW b \in Bodies, AppendRaises(t, b)
      PROVE  TypeOK'
  <2>1. trail' \in [Trails -> [open : BOOLEAN, entries : Seq(Entries), last : Hashes]]
    BY <1>4, Appended DEF AppendRaises
  <2>2. cut' \in BOOLEAN
    BY <1>4, Zenon DEF AppendRaises, TypeOK
  <2>3. QED
    BY <1>4, <2>1, <2>2 DEF AppendRaises, TypeOK, Harms
<1>5. QED
  BY <1>1, <1>2, <1>3, <1>4 DEF Next

LEMMA HeadsMatchKept ==
    ASSUME TypeOK, HeadsMatch, Next
    PROVE  HeadsMatch'
<1>1. CASE ChangeFile
  BY <1>1, ChangedFile DEF HeadsMatch
<1>2. ASSUME NEW t \in Trails, Open(t) \/ Close(t) \/ TakeAnchor(t)
      PROVE  HeadsMatch'
  <2>1. CASE Open(t)
    BY <2>1 DEF Open, HeadsMatch, TypeOK
  <2>2. CASE Close(t)
    BY <2>2 DEF Close, Closed, HeadsMatch, LastHash, TypeOK
  <2>3. CASE TakeAnchor(t)
    BY <2>3 DEF TakeAnchor, HeadsMatch
  <2>4. QED
    BY <1>2, <2>1, <2>2, <2>3
<1>3. ASSUME NEW t \in Trails, NEW b \in Bodies, AppendReturns(t, b) \/ AppendRaises(t, b)
      PROVE  HeadsMatch'
  <2>1. Remember(t, NextEntry(t, b)) /\ UNCHANGED anchor
    BY <1>3 DEF AppendReturns, AppendRaises
  <2>2. /\ trail'[t].last = LastHash(trail'[t].entries)
        /\ \A u \in Trails : u # t => trail'[u] = trail[u]
    BY <2>1, Appended
  <2>3. QED
    BY <2>1, <2>2 DEF HeadsMatch
<1>4. QED
  BY <1>1, <1>2, <1>3 DEF Next

LEMMA CalmKept ==
    ASSUME TypeOK, HeadsMatch, Calm, Next
    PROVE  Calm'
<1>1. /\ file \in Seq(Entries) /\ anchor.entries \in Seq(Entries)
      /\ \A t \in Trails : trail[t].entries \in Seq(Entries)
      /\ harm \in Harms
  BY DEF TypeOK
<1>2. CASE ChangeFile
  BY <1>2, ChangedFile, <1>1 DEF Calm, Harms
<1>3. ASSUME NEW t \in Trails, Open(t) \/ Close(t) \/ TakeAnchor(t)
      PROVE  Calm'
  <2>1. Begins(file, file) /\ Begins(<< >>, file)
    BY <1>1, LenProperties DEF Begins
  <2>2. CASE Open(t)
    BY <2>1, <2>2 DEF Open, Calm, Undisturbed, TypeOK
  <2>3. CASE Close(t)
    BY <2>1, <2>3 DEF Close, Closed, Calm, Undisturbed, TypeOK
  <2>4. CASE TakeAnchor(t)
    BY <2>4 DEF TakeAnchor, Calm, Undisturbed
  <2>5. QED
    BY <1>3, <2>2, <2>3, <2>4
<1>4. ASSUME NEW t \in Trails, NEW b \in Bodies, AppendReturns(t, b)
      PROVE  Calm'
  <2> SUFFICES ASSUME Undisturbed', harm'.change = "none"
               PROVE  /\ ~cut' /\ Verified(file')
                      /\ \A u \in Trails : Begins(trail'[u].entries, file')
                      /\ Begins(anchor'.entries, file')
    BY DEF Calm
  <2> DEFINE e == NextEntry(t, b)
  <2>1. Remember(t, e) /\ Write(e) /\ UNCHANGED <<cut, anchor>>
    BY <1>4 DEF AppendReturns
  <2>2. Undisturbed /\ harm.change = "none" /\ ~Forks(t) /\ Reread[b] = b
    BY <1>4, HarmOfAppend DEF Undisturbed
  <2>3. trail[t].entries = file
    <3>1. Lines(trail[t].entries) = file /\ Begins(trail[t].entries, file)
      BY <2>2 DEF Forks, Calm
    <3>2. DOMAIN trail[t].entries = DOMAIN file
      BY <3>1 DEF Lines
    <3>3. QED
      BY <1>1, <3>1, <3>2, LenProperties, SeqEqual DEF Begins
  <2>4. /\ ~cut /\ Verified(file)
        /\ \A u \in Trails : Begins(trail[u].entries, file)
        /\ Begins(anchor.entries, file)
    BY <2>2 DEF Calm
  <2>5. /\ e \in Entries /\ e = Entry(Len(file), b, LastHash(file)) /\ Len(file) \in Nat
        /\ e.body = b /\ trail'[t].entries = Append(file, e)
        /\ \A u \in Trails : u # t => trail'[u] = trail[u]
    BY <2>1, <2>3, Appended
  <2> HIDE DEF e
  <2>6. file' = Append(file, e)
    BY <2>1, <2>2, <2>4, <2>5, LineFacts DEF Write
  <2>7. Append(file, e) \in Seq(Entries)
    BY <1>1, <2>5, AppendProperties
  <2>8. Begins(Append(file, e), Append(file, e))
    BY <2>7, LenProperties DEF Begins
  <2>9. \A s \in Seq(Entries) : Begins(s, file) => Begins(s, Append(file, e))
    BY <1>1, <2>5, BeginsLonger
  <2>10. Verified(Append(file, e))
    BY <1>1, <2>4, <2>5, VerifiedAppend
  <2>11. QED
    BY <1>1, <2>1, <2>4, <2>5, <2>6, <2>8, <2>9, <2>10
<1>5. ASSUME NEW t \in Trails, NEW b \in Bodies, AppendRaises(t, b)
      PROVE  Calm'
  BY <1>1, <1>5 DEF AppendRaises, Calm, Undisturbed, Harms
<1>6. QED
  BY <1>2, <1>3, <1>4, <1>5 DEF Next

-----------------------------------------------------------------------------
(* No change of the three kinds passes.                                    *)

LEMMA EditShows ==
    ASSUME NEW f \in Seq(Entries), Verified(f), NEW i \in DOMAIN f, NEW b \in Bodies,
           b # f[i].body
    PROVE  ~Verified([f EXCEPT ![i].body = b])
<1> DEFINE g == [f EXCEPT ![i].body = b]
<1>1. f[i] \in Entries /\ DOMAIN g = DOMAIN f /\ g[i] = [f[i] EXCEPT !.body = b]
  BY LenProperties, ElementOfSeq
<1>2. /\ g[i].seq = f[i].seq /\ g[i].body = b /\ g[i].prev_hash = f[i].prev_hash
      /\ g[i].entry_hash = f[i].entry_hash
  BY <1>1 DEF Entries
<1>3. f[i].entry_hash = Hash(f[i].seq, f[i].body, f[i].prev_hash)
  BY DEF Verified
<1>4. Hash(f[i].seq, b, f[i].prev_hash) # f[i].entry_hash
  BY <1>1, <1>3, EntryFields, HashInjective
<1> HIDE DEF g
<1>5. Verified(g) => g[i].entry_hash = Hash(g[i].seq, g[i].body, g[i].prev_hash)
  BY <1>1 DEF Verified
<1>6. QED
  BY <1>2, <1>4, <1>5 DEF g

LEMMA DeletionShows ==
    ASSUME NEW f \in Seq(Entries), Verified(f), NEW i \in DOMAIN f, i < Len(f)
    PROVE  ~Verified(RemoveAt(f, i))
<1> DEFINE g == RemoveAt(f, i)
           head == SubSeq(f, 1, i - 1)
           tail == SubSeq(f, i + 1, Len(f))
<1>1. Len(f) \in Nat /\ i \in 1..Len(f) /\ i + 1 \in 1..Len(f) /\ DOMAIN f = 1..Len(f)
  BY LenProperties
<1>2. /\ head \in Seq(Entries) /\ Len(head) = i - 1
      /\ \A k \in 1..(i - 1) : head[k] = f[k]
      /\ tail \in Seq(Entries) /\ Len(tail) = Len(f) - i /\ tail[1] = f[i + 1]
  <2>1. \A m, n \in 1..Len(f) : m \leq n =>
           /\ SubSeq(f, m, n) \in Seq(Entries) /\ Len(SubSeq(f, m, n)) = n - m + 1
           /\ \A k \in 1..(n - m + 1) : SubSeq(f, m, n)[k] = f[m + k - 1]
    BY SubSeqProperties
  <2>2. i = 1 => head = << >>
    BY <1>1
  <2>3. QED
    BY <1>1, <2>1, <2>2, EmptySeq
<1>3. /\ i \in DOMAIN g /\ g[i] = f[i + 1]
      /\ i # 1 => g[i - 1] = f[i - 1]
  <2>1. /\ Len(head \o tail) = Len(f) - 1
        /\ \A k \in 1..(Len(f) - 1) :
              (head \o tail)[k] = IF k \leq i - 1 THEN head[k] ELSE tail[k - (i - 1)]
        /\ DOMAIN (head \o tail) = 1..(Len(f) - 1)
    <3>1. /\ head \o tail \in Seq(Entries)
          /\ Len(head \o tail) = Len(head) + Len(tail)
          /\ \A k \in 1..(Len(head) + Len(tail)) :
                (head \o tail)[k] = IF k \leq Len(head) THEN head[k] ELSE tail[k - Len(head)]
      BY <1>2, ConcatProperties
    <3> HIDE DEF head, tail
    <3>2. Len(head) + Len(tail) = Len(f) - 1
      BY <1>1, <1>2
    <3>3. QED
      BY <1>2, <3>1, <3>2, LenProperties
  <2>2. g = head \o tail
    BY DEF RemoveAt
  <2> HIDE DEF g, head, tail
  <2>3. i \in 1..(Len(f) - 1) /\ i - (i - 1) = 1 /\ ~(i \leq i - 1)
        /\ (i # 1 => i - 1 \in 1..(Len(f) - 1) /\ i - 1 \in 1..(i - 1) /\ i - 1 \leq i - 1)
    BY <1>1
  <2>4. QED
    BY <1>2, <2>1, <2>2, <2>3
<1> HIDE DEF g, head, tail
<1>4. /\ f[i + 1].prev_hash = f[i].entry_hash
      /\ f[i].entry_hash = Hash(f[i].seq, f[i].body, f[i].prev_hash)
      /\ f[i].prev_hash = IF i = 1 THEN GENESIS ELSE f[i - 1].entry_hash
  BY <1>1 DEF Verified
<1>5. f[i] \in Entries
  BY <1>1, ElementOfSeq
<1>6. f[i].entry_hash # f[i].prev_hash
  BY <1>4, <1>5, EntryFields, HashFacts
<1>7. ~Verified(g)
  BY <1>3, <1>4, <1>6 DEF Verified
<1>8. QED
  BY <1>7 DEF g

LEMMA ReorderShows ==
    ASSUME NEW f \in Seq(Entries), Verified(f), NEW i \in DOMAIN f, NEW j \in DOMAIN f, i < j
    PROVE  ~Verified([f EXCEPT ![i] = f[j], ![j] = f[i]])
<1> DEFINE g == [f EXCEPT ![i] = f[j], ![j] = f[i]]
<1>1. Len(f) \in Nat /\ DOMAIN f = 1..Len(f) /\ i \in 1..Len(f) /\ j \in 1..Len(f) /\ j # 1
  BY LenProperties
<1>2. /\ DOMAIN g = DOMAIN f /\ g[i] = f[j]
      /\ i # 1 => i - 1 \in DOMAIN f /\ g[i - 1] = f[i - 1]
  BY <1>1
<1> HIDE DEF g
<1>3. /\ f[j].prev_hash = f[j - 1].entry_hash
      /\ j - 1 \in 1..Len(f) /\ Len(f[j - 1].entry_hash) = j - 1
  <2>1. f[j].prev_hash = f[j - 1].entry_hash
    BY <1>1 DEF Verified
  <2>2. j - 1 \in 1..Len(f)
    BY <1>1
  <2>3. Len(f[j - 1].entry_hash) = j - 1
    BY <2>2, HashLengths
  <2>4. QED
    BY <2>1, <2>2, <2>3
<1>4. i # 1 => Len(f[i - 1].entry_hash) = i - 1
  BY <1>1, HashLengths
<1>5. f[j].prev_hash # IF i = 1 THEN GENESIS ELSE f[i - 1].entry_hash
  BY <1>1, <1>3, <1>4, GenesisFacts
<1>6. ~Verified(g)
  BY <1>2, <1>5 DEF Verified
<1>7. QED
  BY <1>6 DEF g

LEMMA ChangesShowKept ==
    ASSUME TypeOK, HeadsMatch, Calm, ChangesShow, Next
    PROVE  ChangesShow'
<1>1. /\ file \in Seq(Entries)
      /\ harm \in Harms
  BY DEF TypeOK
<1>2. CASE ChangeFile
  <2> SUFFICES ASSUME Undisturbed', harm'.change \in {"edited", "deleted", "reordered"}
               PROVE  ~Verified(file')
    BY DEF ChangesShow
  <2>1. Undisturbed /\ harm.change = "none"
    BY <1>1, <1>2, ChangedFile DEF Undisturbed, Harms
  <2>2. Verified(file)
    BY <2>1 DEF Calm
  <2>3. PICK i \in DOMAIN file :
        \/ \E b \in Readable :
              /\ b # file[i].body
              /\ \/ Change("edited", [file EXCEPT ![i].body = b])
                 \/ Change("rehashed", Rehashed(file, i, b))
        \/ i < Len(file) /\ Change("deleted", RemoveAt(file, i))
        \/ Change("dropped", SubSeq(file, 1, i - 1))
        \/ \E j \in DOMAIN file :
              i < j /\ Change("reordered",
                              [file EXCEPT ![i] = file[j], ![j] = file[i]])
    BY <1>2 DEF ChangeFile
  <2>4. \A lines : ~Change("rehashed", lines) /\ ~Change("dropped", lines)
    BY <1>1 DEF Change, Harms
  <2>5. \/ \E b \in Readable : b # file[i].body /\ file' = [file EXCEPT ![i].body = b]
        \/ i < Len(file) /\ file' = RemoveAt(file, i)
        \/ \E j \in DOMAIN file :
              i < j /\ file' = [file EXCEPT ![i] = file[j], ![j] = file[i]]
    BY <2>3, <2>4 DEF Change
  <2>6. QED
    BY <1>1, <2>2, <2>5, ReadableFacts, EditShows, DeletionShows, ReorderShows
<1>3. ASSUME NEW t \in Trails, Open(t) \/ Close(t) \/ TakeAnchor(t)
      PROVE  ChangesShow'
  BY <1>3 DEF Open, Close, TakeAnchor, ChangesShow, Undisturbed
<1>4. ASSUME NEW t \in Trails, NEW b \in Bodies, AppendReturns(t, b)
      PROVE  ChangesShow'
  <2> SUFFICES ASSUME Undisturbed', harm'.change \in {"edited", "deleted", "reordered"}
               PROVE  ~Verified(file')
    BY DEF ChangesShow
  <2> DEFINE e == Line(NextEntry(t, b))
  <2>1. Remember(t, NextEntry(t, b)) /\ Write(NextEntry(t, b))
    BY <1>4 DEF AppendReturns
  <2>2. Undisturbed /\ harm.change = harm'.change
    BY <1>4, HarmOfAppend DEF Undisturbed
  <2>3. ~Verified(file)
    BY <2>2 DEF ChangesShow
  <2>4. e \in Entries
    BY <2>1, Appended, LineFacts
  <2>8. file' = IF cut THEN file ELSE Append(file, e)
    BY <2>1 DEF Write
  <2> HIDE DEF e
  <2>5. Append(file, e) \in Seq(Entries) /\ Begins(file, Append(file, e))
    BY <1>1, <2>4, AppendProperties, LenProperties DEF Begins
  <2>6. ~Verified(Append(file, e))
    BY <1>1, <2>3, <2>5, VerifiedBeginning
  <2>7. QED
    BY <2>3, <2>6, <2>8
<1>5. ASSUME NEW t \in Trails, NEW b \in Bodies, AppendRaises(t, b)
      PROVE  ChangesShow'
  BY <1>1, <1>5 DEF AppendRaises, ChangesShow, Undisturbed, Harms
<1>6. QED
  BY <1>2, <1>3, <1>4, <1>5 DEF Next

-----------------------------------------------------------------------------
(* The invariant: until something happens to the file, the file verifies   *)
(* and is what every object that has read or written it remembers, to the  *)
(* length that object knows.                                               *)
THEOREM TrailInvariant == Spec => []IInv
<1>1. ASSUME Init PROVE IInv
  <2>1. Closed \in [open : BOOLEAN, entries : Seq(Entries), last : Hashes]
    BY EmptySeq, GenesisFacts DEF Closed
  <2>2. TypeOK
    BY <1>1, <2>1, EmptySeq, GenesisFacts DEF Init, TypeOK, NoAnchor, Unharmed, Changes, Harms
  <2>3. HeadsMatch
    BY <1>1 DEF Init, HeadsMatch, Closed, NoAnchor, LastHash
  <2>4. Begins(<< >>, << >>) /\ Verified(<< >>)
    BY DEF Begins, Verified
  <2>5. Calm
    BY <1>1, <2>4 DEF Init, Calm, Closed, NoAnchor
  <2>6. ChangesShow
    BY <1>1 DEF Init, ChangesShow, Unharmed
  <2>7. QED
    BY <2>2, <2>3, <2>5, <2>6 DEF IInv
<1>2. ASSUME IInv, [Next]_vars PROVE IInv'
  <2>1. CASE Next
    BY <1>2, <2>1, TypesKept, HeadsMatchKept, CalmKept, ChangesShowKept DEF IInv
  <2>2. CASE UNCHANGED vars
    BY <1>2, <2>2 DEF IInv, vars, TypeOK, HeadsMatch, Calm, ChangesShow, Undisturbed
  <2>3. QED
    BY <1>2, <2>1, <2>2
<1>3. QED
  BY <1>1, <1>2, PTL DEF Spec

(* Entries, hashes and heads keep their types, through the rebuilding of a *)
(* chain as well.                                                          *)
THEOREM TrailTypes == Spec => []TypeOK
<1>1. IInv => TypeOK
  BY DEF IInv
<1>2. QED
  BY <1>1, TrailInvariant, PTL

(* verify() finds an edit, a deletion in the middle, and a reorder.        *)
THEOREM TamperingShows == Spec => []ChangesShow
<1>1. IInv => ChangesShow
  BY DEF IInv
<1>2. QED
  BY <1>1, TrailInvariant, PTL

(* verify(anchor) vouches for every entry up to the anchor.                *)
THEOREM AnchorHolds == Spec => []AnchorVouches
<1>1. ASSUME IInv PROVE AnchorVouches
  <2> SUFFICES ASSUME Verified(anchor.entries), VerifiedAgainst(file, anchor)
               PROVE  IsPrefix(anchor.entries, file)
    BY DEF AnchorVouches
  <2> DEFINE a == anchor.entries
  <2>1. a \in Seq(Entries) /\ file \in Seq(Entries) /\ anchor.hash = LastHash(a)
    BY <1>1 DEF IInv, TypeOK, HeadsMatch
  <2>2. /\ Len(a) \in Nat /\ Len(file) \in Nat /\ Len(a) \leq Len(file) /\ Verified(file)
        /\ anchor.hash = IF Len(a) = 0 THEN GENESIS ELSE file[Len(a)].entry_hash
    BY <2>1, LenProperties DEF VerifiedAgainst, Meets
  <2>3. CASE Len(a) = 0
    BY <2>2, <2>3, <2>1, PrefixMeans DEF Begins
  <2>4. CASE Len(a) # 0
    <3>1. file[Len(a)].entry_hash = a[Len(a)].entry_hash
      BY <2>1, <2>2, <2>4, LastHashFacts
    <3>2. Begins(a, file)
      BY <2>1, <2>2, <2>4, <3>1, ChainsAgree
    <3>3. QED
      BY <2>1, <3>2, PrefixMeans
  <2>5. QED
    BY <2>3, <2>4
<1>2. QED
  BY <1>1, TrailInvariant, PTL

(* What nobody touched verifies, in memory, in the file, and against every *)
(* anchor taken before.                                                    *)
THEOREM NoAlarm == Spec => []NoFalseAlarm
<1>1. ASSUME IInv PROVE NoFalseAlarm
  <2> SUFFICES ASSUME Undisturbed, harm.change = "none"
               PROVE  /\ ~cut /\ VerifiedAgainst(file, anchor)
                      /\ \A t \in Trails : trail[t].open =>
                            Verified(trail[t].entries) /\ IsPrefix(trail[t].entries, file)
    BY DEF NoFalseAlarm
  <2>1. /\ file \in Seq(Entries) /\ anchor.entries \in Seq(Entries)
        /\ \A t \in Trails : trail[t].entries \in Seq(Entries)
        /\ anchor.hash = LastHash(anchor.entries)
    BY <1>1 DEF IInv, TypeOK, HeadsMatch
  <2>2. /\ ~cut /\ Verified(file)
        /\ \A t \in Trails : Begins(trail[t].entries, file)
        /\ Begins(anchor.entries, file)
    BY <1>1 DEF IInv, Calm
  <2>3. VerifiedAgainst(file, anchor)
    <3> DEFINE a == anchor.entries
    <3>1. Len(a) \in Nat /\ Len(file) \in Nat /\ Len(a) \leq Len(file)
          /\ (Len(a) # 0 => file[Len(a)] = a[Len(a)])
      BY <2>1, <2>2, LenProperties DEF Begins
    <3>2. anchor.hash = IF Len(a) = 0 THEN GENESIS ELSE file[Len(a)].entry_hash
      BY <2>1, <3>1, LastHashFacts
    <3>3. QED
      BY <2>2, <3>1, <3>2 DEF VerifiedAgainst, Meets
  <2>4. \A t \in Trails :
           Verified(trail[t].entries) /\ IsPrefix(trail[t].entries, file)
    BY <2>1, <2>2, VerifiedBeginning, PrefixMeans
  <2>5. QED
    BY <2>2, <2>3, <2>4
<1>2. QED
  BY <1>1, TrailInvariant, PTL
=============================================================================
