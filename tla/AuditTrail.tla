----------------------------- MODULE AuditTrail -----------------------------
(***************************************************************************)
(* The hash-chained audit trail of src/harness/audit.py: AuditTrail        *)
(* objects that keep their entries in memory, append them to a JSONL file, *)
(* and read that file back when they are built.                            *)
(*                                                                         *)
(* A hash is the history it commits to: the hash of an entry is its        *)
(* prev_hash extended with its own seq and body, so no two entries share   *)
(* one, which is what SHA-256 is used for.                                 *)
(*                                                                         *)
(* append holds the lock of its object from start to end: one step.  Two   *)
(* objects on one file have two locks.  A write may fail after the entry   *)
(* is in memory, and leave nothing or a part of a line in the file.        *)
(*                                                                         *)
(* A body is its canonical JSON text, which is what is hashed and written. *)
(* json.loads gives another object for it (every key is a string), whose   *)
(* canonical text may be another one: keys 9 and 10 are sorted as numbers  *)
(* the first time, as strings from then on.                                *)
(***************************************************************************)
EXTENDS Naturals, Sequences, SequencesExt

CONSTANTS
    Trails,      \* AuditTrail objects on one path
    Bodies,      \* everything an entry says besides seq and prev_hash
    Reread,      \* the body that a body is after a JSON round trip
    MaxEntries   \* bound: no object appends beyond this many entries

ASSUME AuditAssumption ==
    /\ MaxEntries \in Nat
    /\ Reread \in [Bodies -> Bodies]
    /\ \A b \in Bodies : Reread[Reread[b]] = Reread[b]

VARIABLES
    trail,    \* trail[t]: open?, _entries and _last_hash of object t
    file,     \* its lines, up to one that was cut short, as they are read back
    cut,      \* is there such a line?  json.loads will then raise
    anchor,   \* the last head() that was stored out of reach, or none
    harm      \* what happened to the file

vars == <<trail, file, cut, anchor, harm>>

GENESIS == << >>

(* Mutant: the hash does not cover seq.                                    *)
HashWithoutSeq(seq, body, prev) == Append(prev, <<body>>)

Hash(seq, body, prev) == Append(prev, <<seq, body>>)

Entry(seq, body, prev) ==
    [seq |-> seq, body |-> body, prev_hash |-> prev,
     entry_hash |-> Hash(seq, body, prev)]

(* What json.loads makes of the line of an entry, and of those of several. *)
Line(e) == [e EXCEPT !.body = Reread[@]]

Lines(items) == [i \in DOMAIN items |-> Line(items[i])]

Closed == [open |-> FALSE, entries |-> << >>, last |-> GENESIS]

(* harm: entries lost to a failed write; appends of an object whose memory *)
(* was not the file; a body that is not read back as it was hashed; and    *)
(* the one change somebody made after the fact.                            *)
Changes == {"none", "edited", "deleted", "reordered", "dropped", "rehashed"}

Unharmed ==
    [lost |-> FALSE, forked |-> FALSE, garbled |-> FALSE, change |-> "none"]

NoAnchor == [entries |-> << >>, hash |-> GENESIS]

Init ==
    /\ trail = [t \in Trails |-> Closed]
    /\ file = << >>
    /\ cut = FALSE
    /\ anchor = NoAnchor
    /\ harm = Unharmed

-----------------------------------------------------------------------------
(* verify.                                                                 *)

(* Mutant: the walk follows the links but recomputes no hash.              *)
VerifiedLinks(items) ==
    \A i \in DOMAIN items :
        items[i].prev_hash = IF i = 1 THEN GENESIS ELSE items[i - 1].entry_hash

Verified(items) ==
    \A i \in DOMAIN items :
        LET e == items[i]
        IN  /\ e.prev_hash = IF i = 1 THEN GENESIS ELSE items[i - 1].entry_hash
            /\ e.entry_hash = Hash(e.seq, e.body, e.prev_hash)

(* Mutant: the anchor's count is compared, its hash is not.                *)
MeetsCount(items, count, hash) == Len(items) >= count

Meets(items, count, hash) ==
    /\ Len(items) >= count
    /\ hash = IF count = 0 THEN GENESIS ELSE items[count].entry_hash

(* verify(anchor)                                                          *)
VerifiedAgainst(items, a) ==
    Meets(items, Len(a.entries), a.hash) /\ Verified(items)

-----------------------------------------------------------------------------
(* Mutant: a trail built on a file starts its chain afresh.                *)
LastHashAfresh(items) == GENESIS

LastHash(items) == IF items = << >> THEN GENESIS ELSE Last(items).entry_hash

(* __init__ on a path; a line that is not JSON makes it raise.             *)
Open(t) ==
    /\ ~trail[t].open
    /\ ~cut
    /\ trail' = [trail EXCEPT ![t] = [open |-> TRUE, entries |-> file,
                                      last |-> LastHash(file)]]
    /\ UNCHANGED <<file, cut, anchor, harm>>

(* The object is gone: its process ended or crashed.                       *)
Close(t) ==
    /\ trail[t].open
    /\ trail' = [trail EXCEPT ![t] = Closed]
    /\ UNCHANGED <<file, cut, anchor, harm>>

(* The line of e at the end of the file; after a line cut short, nothing   *)
(* in the file can be read back any more.                                  *)
Write(e) == file' = IF cut THEN file ELSE Append(file, Line(e))

(* append(body), up to the write of the line.                              *)
NextEntry(t, b) == Entry(Len(trail[t].entries), b, trail[t].last)

Remember(t, e) ==
    /\ trail[t].open
    /\ Len(trail[t].entries) < MaxEntries /\ Len(file) < MaxEntries
    /\ trail' = [trail EXCEPT ![t].entries = Append(@, e),
                              ![t].last = e.entry_hash]

(* t appends to a file that says something else than t remembers.          *)
Forks(t) == harm.change = "none" /\ Lines(trail[t].entries) # file

AppendReturns(t, b) ==
    LET e == NextEntry(t, b)
    IN  /\ Remember(t, e)
        /\ Write(e)
        /\ harm' = [harm EXCEPT !.forked = @ \/ Forks(t),
                                 !.garbled = @ \/ Reread[b] # b]
        /\ UNCHANGED <<cut, anchor>>

(* The write raises after it wrote nothing or a part of the line; in the   *)
(* model, once.                                                            *)
AppendRaises(t, b) ==
    /\ ~harm.lost
    /\ Remember(t, NextEntry(t, b))
    /\ cut' \in {cut, TRUE}
    /\ harm' = [harm EXCEPT !.lost = TRUE]
    /\ UNCHANGED <<file, anchor>>

(* head(), copied to where the writer cannot change it.  Later anchors are *)
(* no different: the model follows one.                                    *)
TakeAnchor(t) ==
    /\ trail[t].open
    /\ anchor = NoAnchor
    /\ anchor' = [entries |-> trail[t].entries, hash |-> trail[t].last]
    /\ UNCHANGED <<trail, file, cut, harm>>

-----------------------------------------------------------------------------
(* One change to the file after the fact, of the kinds the docstring lists *)
(* (an edit, a deleted entry, a reorder, dropped newest entries, an edit   *)
(* followed by a re-hash of everything after it).                          *)

(* The chain rebuilt from its i-th entry on, which now says b.             *)
Rehashed(lines, i, b) ==
    LET chain[n \in 0..Len(lines)] ==
            IF n = 0 THEN << >>
            ELSE IF n < i THEN Append(chain[n - 1], lines[n])
            ELSE Append(chain[n - 1],
                        Entry(lines[n].seq, IF n = i THEN b ELSE lines[n].body,
                              LastHash(chain[n - 1])))
    IN  chain[Len(lines)]

Change(kind, lines) ==
    /\ harm.change = "none"
    /\ ~cut
    /\ file' = lines
    /\ harm' = [harm EXCEPT !.change = kind]
    /\ UNCHANGED <<trail, cut, anchor>>

Readable == {Reread[b] : b \in Bodies}

ChangeFile ==
    \E i \in DOMAIN file :
        \/ \E b \in Readable :
              /\ b # file[i].body
              /\ \/ Change("edited", [file EXCEPT ![i].body = b])
                 \/ Change("rehashed", Rehashed(file, i, b))
        \/ i < Len(file) /\ Change("deleted", RemoveAt(file, i))
        \/ Change("dropped", SubSeq(file, 1, i - 1))
        \/ \E j \in DOMAIN file :
              i < j /\ Change("reordered",
                              [file EXCEPT ![i] = file[j], ![j] = file[i]])

Next ==
    \/ \E t \in Trails :
          \/ Open(t) \/ Close(t) \/ TakeAnchor(t)
          \/ \E b \in Bodies : AppendReturns(t, b) \/ AppendRaises(t, b)
    \/ ChangeFile

Spec == Init /\ [][Next]_vars

-----------------------------------------------------------------------------
Hashes == Seq(Nat \X Bodies)

Entries ==
    [seq : Nat, body : Bodies, prev_hash : Hashes, entry_hash : Hashes]

Harms ==
    [lost : BOOLEAN, forked : BOOLEAN, garbled : BOOLEAN, change : Changes]

TypeOK ==
    /\ trail \in [Trails ->
                    [open : BOOLEAN, entries : Seq(Entries), last : Hashes]]
    /\ file \in Seq(Entries)
    /\ cut \in BOOLEAN
    /\ anchor \in [entries : Seq(Entries), hash : Hashes]
    /\ harm \in Harms

(* No write failed, no two objects wrote at cross purposes, and every body *)
(* is read back as it was hashed.                                          *)
Undisturbed == ~harm.lost /\ ~harm.forked /\ ~harm.garbled

(* "an after-the-fact edit, a deleted middle entry or a reorder is         *)
(* detectable by re-walking the chain": in an undisturbed trail no such    *)
(* change passes verify(), also after further appends on top of it, by     *)
(* objects that read the changed file or still remember the old one.       *)
ChangesShow ==
    Undisturbed /\ harm.change \in {"edited", "deleted", "reordered"}
      => ~Verified(file)

(* What verify(anchor) vouches for, when the trail verified as the anchor  *)
(* was taken (head() itself does not check it): whatever happened to the   *)
(* file, lost writes, several writers and a re-hashed chain included, if   *)
(* it passes then it begins with the entries that were anchored.           *)
AnchorVouches ==
    Verified(anchor.entries) /\ VerifiedAgainst(file, anchor)
      => IsPrefix(anchor.entries, file)

(* No false alarm: an open trail verifies, and so does what it would read  *)
(* back after a restart, as long as nobody changed the file and the trail  *)
(* is undisturbed; an anchor taken before still holds for the file.        *)
NoFalseAlarm ==
    Undisturbed /\ harm.change = "none" =>
        /\ ~cut /\ VerifiedAgainst(file, anchor)
        /\ \A t \in Trails : trail[t].open =>
              Verified(trail[t].entries) /\ IsPrefix(trail[t].entries, file)

(* "Persists each entry as one JSON line (JSONL) so the file is grep-able  *)
(* and the chain is verifiable by re-walking it": when nobody changed the  *)
(* file, what can be read back from it verifies.                           *)
Rewalkable ==
    harm.change = "none" /\ ~cut => Verified(file)
=============================================================================
