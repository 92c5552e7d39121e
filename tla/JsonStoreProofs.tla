-------------------------- MODULE JsonStoreProofs --------------------------
(* What the JSON store guarantees for every number of objects, threads,    *)
(* runs and checkpoints: that its file stays whole, and that it implements *)
(* CheckpointMap as long as no two objects write at once.                  *)
EXTENDS JsonStore, TLAPS

WritingPcs == {"open", "dump", "close", "replace"}
Pcs == WritingPcs \cup {"idle", "lock", "read", "done"}

CallRecords ==
    [pc : Pcs, call : Calls \cup {None}, map : Maps, fd : Inodes \cup {None},
     mixed : BOOLEAN, got : Checkpoints \cup {None} \cup Maps]

Typed ==
    /\ path \in Inodes \cup {None} /\ tmp \in Inodes \cup {None}
    /\ data \in [Inodes -> Contents]
    /\ ready \subseteq Objects
    /\ lock \in [Objects -> Threads \cup {None}]
    /\ call \in [Threads -> CallRecords]
    /\ overlap \in BOOLEAN

(* A thread that writes without having been called is in the constructor.  *)
Building(t) == call[t].call = None /\ Writing(t)

(* What the fields of a thread say of each other.                          *)
ThreadOK(t) ==
    /\ call[t].pc = "idle" => call[t] = Idle
    /\ call[t].fd # None <=> call[t].pc \in {"dump", "close"}
    /\ call[t].pc # "done" => call[t].got = None
    /\ call[t].call = None => call[t].pc = "idle" \/ Writing(t)
    /\ call[t].call # None => ObjectOf[t] \in ready
    /\ call[t].call # None /\ Writing(t) => call[t].call.kind = "save"

(* An object is built by one thread, which has it for itself.              *)
BuildersAlone ==
    \A t \in Threads : Building(t) =>
        /\ ObjectOf[t] \notin ready
        /\ \A u \in Threads : Building(u) /\ ObjectOf[u] = ObjectOf[t] => u = t

(* A thread holds the lock of its object from Lock to Return.              *)
LocksHeld ==
    /\ \A t \in Threads :
          lock[ObjectOf[t]] = t <=> call[t].call # None /\ call[t].pc # "lock"
    /\ \A o \in Objects : lock[o] # None => ObjectOf[lock[o]] = o

Control ==
    /\ Typed
    /\ \A t \in Threads : ThreadOK(t)
    /\ BuildersAlone
    /\ LocksHeld

Apart ==
    \A t, u \in Threads : Writing(t) /\ Writing(u) => ObjectOf[t] = ObjectOf[u]

(* What the one writer knows of the files.                                 *)
WriterOK(t) ==
    /\ call[t].fd # None => call[t].fd = tmp /\ ~call[t].mixed
    /\ call[t].pc = "replace" /\ tmp # None => data[tmp] = Whole(call[t].map)
    /\ Building(t) => path = None /\ call[t].map = EmptyMap
    /\ Writing(t) /\ call[t].call # None =>
          call[t].map = [Stored EXCEPT ![call[t].call.run] = call[t].call.ckpt]

Files ==
    ~overlap =>
        /\ Apart
        /\ path # None => path # tmp /\ data[path].is = "whole"
        /\ \A t \in Threads : WriterOK(t)

IInv == Control /\ Files

-----------------------------------------------------------------------------
(* What each step leaves in the record of a thread, and that it leaves the *)
(* records of the others alone.                                            *)

LEMMA IdleTypes == Idle \in CallRecords
<1>1. EmptyMap \in Maps
  BY DEF EmptyMap, Maps
<1>2. QED
  BY <1>1 DEF Idle, CallRecords, Pcs

LEMMA StoredTypes ==
    ASSUME Typed
    PROVE  Stored \in Maps
<1>1. EmptyMap \in Maps
  BY DEF EmptyMap, Maps
<1>2. \A c \in Contents : c.map \in Maps
  BY <1>1 DEF Contents, Whole, Part, Nothing
<1>3. QED
  BY <1>1, <1>2 DEF Stored, Typed

(* The record of t becomes c, those of the other threads stay.             *)
Becomes(t, c) == call' = [call EXCEPT ![t] = c]

LEMMA BecomesTypes ==
    ASSUME Typed, NEW t \in Threads, NEW c \in CallRecords, Becomes(t, c)
    PROVE  /\ call' \in [Threads -> CallRecords]
           /\ call'[t] = c
           /\ \A u \in Threads : u # t => call'[u] = call[u]
BY DEF Becomes, Typed

LEMMA GoBecomes ==
    ASSUME Typed, NEW t \in Threads, NEW pc \in Pcs, Go(t, pc)
    PROVE  /\ [call[t] EXCEPT !.pc = pc] \in CallRecords
           /\ Becomes(t, [call[t] EXCEPT !.pc = pc])
BY DEF Go, Becomes, Typed, CallRecords

LEMMA RaiseBecomes ==
    ASSUME Typed, NEW t \in Threads, Raise(t)
    PROVE  Becomes(t, Idle)
BY DEF Raise, Becomes

LEMMA CallBecomes ==
    ASSUME Typed, NEW t \in Threads, NEW c \in Calls, Call(t, c)
    PROVE  /\ Becomes(t, [Idle EXCEPT !.pc = "lock", !.call = c])
           /\ [Idle EXCEPT !.pc = "lock", !.call = c] \in CallRecords
BY IdleTypes DEF Call, Becomes, CallRecords, Pcs

LEMMA ReadBecomes ==
    ASSUME Typed, NEW t \in Threads, Read(t), call[t].call \in Calls
    PROVE  \/ /\ Becomes(t, Idle) /\ lock' = Unlocked(t)
              /\ ~Readable
           \/ \E m \in Maps :
                /\ call[t].call.kind = "save" /\ lock' = lock
                /\ m = [Stored EXCEPT ![call[t].call.run] = call[t].call.ckpt]
                /\ Becomes(t, [call[t] EXCEPT !.pc = "open", !.map = m])
                /\ Readable
           \/ \E g \in Checkpoints \cup {None} \cup Maps :
                /\ call[t].call.kind # "save" /\ lock' = lock
                /\ g = IF call[t].call.kind = "load" THEN Stored[call[t].call.run]
                                                     ELSE Stored
                /\ Becomes(t, [call[t] EXCEPT !.pc = "done", !.got = g])
                /\ Readable
<1> DEFINE c == call[t].call
           m == [Stored EXCEPT ![c.run] = c.ckpt]
           g == IF c.kind = "load" THEN Stored[c.run] ELSE Stored
<1>0. Stored \in Maps
  BY StoredTypes
<1>1. CASE ~Readable
  BY <1>1 DEF Read, Raise, Becomes
<1>2. CASE Readable /\ c.kind = "save"
  <2>1. c.run \in Runs /\ c.ckpt \in Checkpoints
    BY <1>2 DEF Calls
  <2>2. m \in Maps
    BY <1>0, <2>1 DEF Maps
  <2>3. Becomes(t, [call[t] EXCEPT !.pc = "open", !.map = m]) /\ lock' = lock
    BY <1>2 DEF Read, Becomes, Typed
  <2>4. QED
    BY <1>2, <2>2, <2>3
<1>3. CASE Readable /\ c.kind # "save"
  <2>1. c.kind = "load" => c.run \in Runs
    BY <1>3 DEF Calls
  <2>2. g \in Checkpoints \cup {None} \cup Maps
    BY <1>0, <2>1 DEF Maps
  <2>3. Becomes(t, [call[t] EXCEPT !.pc = "done", !.got = g]) /\ lock' = lock
    BY <1>3 DEF Read, Becomes, Typed
  <2>4. QED
    BY <1>3, <2>2, <2>3
<1>4. QED
  BY <1>1, <1>2, <1>3

LEMMA OpenTmpMoves ==
    ASSUME Typed, NEW t \in Threads, OpenTmp(t)
    PROVE  \E i \in Inodes :
              /\ IF tmp = None THEN i \in Free ELSE i = tmp
              /\ tmp' = i /\ data' = [data EXCEPT ![i] = Nothing]
              /\ call' \in [Threads -> CallRecords]
              /\ \E b \in BOOLEAN :
                    /\ call'[t] = [call[t] EXCEPT !.pc = "dump", !.fd = i, !.mixed = b]
                    /\ b => \E u \in Threads : call[u].fd = i
              /\ \A u \in Threads \ {t} :
                    IF call[u].fd = i THEN call'[u] = [call[u] EXCEPT !.mixed = TRUE]
                                      ELSE call'[u] = call[u]
<1>1. PICK i \in IF tmp = None THEN Free ELSE {tmp} :
          LET sharers == {u \in Threads : call[u].fd = i}
          IN  /\ tmp' = i
              /\ data' = [data EXCEPT ![i] = Nothing]
              /\ call' = [u \in Threads |->
                     IF u = t THEN [call[t] EXCEPT !.pc = "dump", !.fd = i,
                                                   !.mixed = sharers # {}]
                     ELSE IF u \in sharers THEN [call[u] EXCEPT !.mixed = TRUE]
                     ELSE call[u]]
  BY DEF OpenTmp
<1>2. i \in Inodes
  BY <1>1 DEF Typed, Free
<1> DEFINE b == {u \in Threads : call[u].fd = i} # {}
           mine == [call[t] EXCEPT !.pc = "dump", !.fd = i, !.mixed = b]
<1>3. mine \in CallRecords /\ b \in BOOLEAN /\ mine.fd = i
  BY <1>2 DEF Typed, CallRecords, Pcs, WritingPcs
<1>4. \A u \in Threads : [call[u] EXCEPT !.mixed = TRUE] \in CallRecords /\ call[u] \in CallRecords
  BY DEF Typed, CallRecords
<1>5. call'[t] = mine
  BY <1>1
<1>6. \A u \in Threads \ {t} :
         IF call[u].fd = i THEN call'[u] = [call[u] EXCEPT !.mixed = TRUE]
                           ELSE call'[u] = call[u]
  BY <1>1
<1>7. call' \in [Threads -> CallRecords]
  <2>1. \A u \in Threads : call'[u] \in CallRecords
    BY <1>3, <1>4, <1>5, <1>6
  <2>2. call' = [u \in Threads |-> call'[u]]
    BY <1>1
  <2>3. QED
    BY <2>1, <2>2
<1>8. b => \E u \in Threads : call[u].fd = i
  OBVIOUS
<1>9. QED
  BY <1>1, <1>2, <1>3, <1>5, <1>6, <1>7, <1>8

LEMMA CloseBecomes ==
    ASSUME Typed, NEW t \in Threads, Close(t)
    PROVE  /\ [call[t] EXCEPT !.pc = "replace", !.fd = None] \in CallRecords
           /\ Becomes(t, [call[t] EXCEPT !.pc = "replace", !.fd = None])
BY DEF Close, Becomes, Typed, CallRecords, Pcs, WritingPcs

-----------------------------------------------------------------------------
(* Control is kept by a step of t that changes nothing about the others.   *)

(* What the other threads' parts of the invariant look at.                 *)
Alike(u) ==
    /\ call'[u].pc = call[u].pc /\ call'[u].call = call[u].call
    /\ call'[u].fd = call[u].fd /\ call'[u].got = call[u].got
    /\ call[u].pc = "idle" => call'[u] = call[u]

LEMMA OthersStayOK ==
    ASSUME Control, NEW u \in Threads, Alike(u), ready \subseteq ready'
    PROVE  ThreadOK(u)'
BY DEF Control, ThreadOK, Alike, Writing

LEMMA UnlockedTypes ==
    ASSUME Control, NEW t \in Threads
    PROVE  /\ Unlocked(t) \in [Objects -> Threads \cup {None}]
           /\ \A o \in Objects \ {ObjectOf[t]} : Unlocked(t)[o] = lock[o]
           /\ Unlocked(t)[ObjectOf[t]] # t
           /\ lock[ObjectOf[t]] # t => Unlocked(t) = lock
BY StoreAssumption, NoneAssumption DEF Control, Typed, Unlocked

LEMMA KeepTypes ==
    ASSUME Typed, NEW d \in [Inodes -> Contents], Keep(d)
    PROVE  data' \in [Inodes -> Contents]
BY DEF Keep, Contents

LEMMA ControlStep ==
    ASSUME Control, NEW t \in Threads, Typed', ThreadOK(t)',
           \A u \in Threads \ {t} : Alike(u),
           lock'[ObjectOf[t]] = t <=> call'[t].call # None /\ call'[t].pc # "lock",
           lock'[ObjectOf[t]] \in {lock[ObjectOf[t]], t, None},
           lock[ObjectOf[t]] \in {t, None} \/ lock'[ObjectOf[t]] = lock[ObjectOf[t]],
           \A o \in Objects \ {ObjectOf[t]} : lock'[o] = lock[o],
           ready' \in {ready, ready \cup {ObjectOf[t]}},
           Building(t)' => /\ ObjectOf[t] \notin ready'
                           /\ Building(t) \/ \A u \in Threads \ {t} :
                                 ObjectOf[u] = ObjectOf[t] => call[u] = Idle,
           ready' = ready \/ \A u \in Threads \ {t} :
                                 ObjectOf[u] = ObjectOf[t] => ~Building(u)
    PROVE  Control'
<1>0. \A u \in Threads : ObjectOf[u] \in Objects /\ u # None
  BY StoreAssumption, NoneAssumption
<1>1. \A u \in Threads : ThreadOK(u)'
  BY OthersStayOK
<1>2. \A u \in Threads \ {t} : Building(u)' <=> Building(u)
  BY DEF Building, Writing, Alike
<1>3. BuildersAlone'
  <2> SUFFICES ASSUME NEW u \in Threads, Building(u)'
               PROVE  /\ ObjectOf[u] \notin ready'
                      /\ \A v \in Threads : Building(v)' /\ ObjectOf[v] = ObjectOf[u] => v = u
    BY DEF BuildersAlone
  <2>1. \A v \in Threads \ {t} : call[v] = Idle => ~Building(v)
    BY DEF Building, Writing, Idle
  <2>2. CASE u = t
    BY <1>2, <2>1, <2>2 DEF Control, BuildersAlone
  <2>3. CASE u # t
    <3>1. Building(u)
      BY <1>2, <2>3
    <3>2. ObjectOf[u] \notin ready /\ \A v \in Threads :
                Building(v) /\ ObjectOf[v] = ObjectOf[u] => v = u
      BY <3>1 DEF Control, BuildersAlone
    <3>3. ObjectOf[u] \notin ready'
      BY <2>3, <3>1, <3>2
    <3>4. Building(t)' /\ ObjectOf[t] = ObjectOf[u] => Building(t)
      BY <2>1, <2>3, <3>1
    <3>5. QED
      BY <1>2, <2>3, <3>2, <3>3, <3>4
  <2>4. QED
    BY <2>2, <2>3
<1>4. LocksHeld'
  <2>1. \A u \in Threads \ {t} : lock'[ObjectOf[u]] = u <=> lock[ObjectOf[u]] = u
    BY <1>0
  <2>2. \A u \in Threads : lock'[ObjectOf[u]] = u
                              <=> call'[u].call # None /\ call'[u].pc # "lock"
    BY <2>1 DEF Control, LocksHeld, Alike
  <2>3. \A o \in Objects : lock'[o] # None => ObjectOf[lock'[o]] = o
    BY <1>0 DEF Control, LocksHeld
  <2>4. QED
    BY <2>2, <2>3 DEF LocksHeld
<1>5. QED
  BY <1>1, <1>3, <1>4 DEF Control

LEMMA ControlKept ==
    ASSUME Control, NEW t \in Threads, ThreadStep(t)
    PROVE  Control'
<1>0. /\ Typed /\ ThreadOK(t) /\ call[t] \in CallRecords
      /\ ObjectOf[t] \in Objects /\ t # None
      /\ lock[ObjectOf[t]] = t <=> call[t].call # None /\ call[t].pc # "lock"
  BY StoreAssumption, NoneAssumption DEF Control, LocksHeld, Typed
<1>1. call[t].call # None => call[t].call \in Calls
  BY <1>0 DEF CallRecords
<1>2. ASSUME NEW c \in CallRecords, Becomes(t, c)
      PROVE  /\ call' \in [Threads -> CallRecords] /\ call'[t] = c
             /\ \A u \in Threads \ {t} : Alike(u)
  BY <1>0, <1>2, BecomesTypes DEF Alike
<1>3. overlap' \in BOOLEAN
  BY <1>0 DEF ThreadStep, Typed, Construct, Call, Lock, Read, OpenTmp, Dump,
              DumpFails, Close, Replace, Return, Watch
<1>4. CASE Construct(t)
  <2>1. CASE path # None
    BY <1>0, <1>3, <1>4, <2>1, ControlStep
       DEF Construct, Alike, Typed, Control, Building, ThreadOK, Writing, Idle
  <2>2. CASE path = None
    <3>1. Becomes(t, [call[t] EXCEPT !.pc = "open"])
          /\ [call[t] EXCEPT !.pc = "open"] \in CallRecords
      BY <1>0, <1>4, <2>2, GoBecomes DEF Construct, Pcs, WritingPcs
    <3>2. call[t] = Idle
      BY <1>4 DEF Construct
    <3>3. Typed'
      BY <1>0, <1>2, <1>3, <1>4, <2>2, <3>1 DEF Construct, Typed
    <3>4. ThreadOK(t)'
      BY <1>2, <3>1, <3>2 DEF ThreadOK, Writing, Idle
    <3>5. lock' = lock /\ ready' = ready /\ ObjectOf[t] \notin ready
          /\ \A u \in Threads : ObjectOf[u] = ObjectOf[t] => call[u] = Idle
      BY <1>4, <2>2 DEF Construct
    <3>6. call'[t].call = call[t].call /\ call'[t].pc # "lock" /\ call[t].pc # "lock"
      BY <1>2, <3>1, <3>2 DEF Idle
    <3>7. QED
      BY <1>0, <1>2, <3>1, <3>3, <3>4, <3>5, <3>6, ControlStep
  <2>3. QED
    BY <2>1, <2>2
<1>5. CASE \E c \in Calls : Call(t, c)
  <2>1. PICK c \in Calls : Call(t, c)
    BY <1>5
  <2> DEFINE r == [Idle EXCEPT !.pc = "lock", !.call = c]
  <2>2. Becomes(t, r) /\ r \in CallRecords
    BY <1>0, <2>1, CallBecomes
  <2>3. r.pc = "lock" /\ r.call = c /\ r.fd = None /\ r.got = None /\ c # None
    BY NoneAssumption DEF Idle
  <2>4. Typed'
    BY <1>0, <1>2, <1>3, <2>1, <2>2 DEF Call, Typed
  <2>5. call'[t] = r
    BY <1>2, <2>2
  <2>6. ThreadOK(t)' /\ ~Building(t)'
    BY <2>1, <2>3, <2>5 DEF ThreadOK, Building, Writing, Call
  <2>7. lock' = lock /\ ready' = ready /\ call[t] = Idle
    BY <1>0, <2>1 DEF Call, ThreadOK
  <2>8. lock[ObjectOf[t]] # t
    BY <1>0, <2>7 DEF Idle
  <2> HIDE DEF r
  <2>9. QED
    BY <1>0, <1>2, <2>2, <2>3, <2>4, <2>5, <2>6, <2>7, <2>8, ControlStep
<1>6. CASE Lock(t)
  <2> DEFINE c == [call[t] EXCEPT !.pc = "read"]
  <2>1. Becomes(t, c) /\ c \in CallRecords
    BY <1>0, <1>6, GoBecomes DEF Lock, Pcs
  <2>8. c.pc = "read" /\ c.call = call[t].call /\ c.fd = call[t].fd /\ c.got = call[t].got
    BY <1>0 DEF CallRecords
  <2> HIDE DEF c
  <2>2. Typed'
    BY <1>0, <1>2, <1>3, <1>6, <2>1 DEF Lock, Typed
  <2>3. call[t].call # None
    BY <1>0, <1>6 DEF Lock, ThreadOK, Writing
  <2>4. ThreadOK(t)' /\ ~Building(t)'
    BY <1>0, <1>2, <1>6, <2>1, <2>3, <2>8 DEF Lock, ThreadOK, Building, Writing
  <2>5. ready' = ready /\ lock[ObjectOf[t]] = None /\ lock'[ObjectOf[t]] = t
        /\ \A o \in Objects \ {ObjectOf[t]} : lock'[o] = lock[o]
    BY <1>0, <1>6 DEF Lock, Typed
  <2>6. call'[t].call # None /\ call'[t].pc # "lock"
    BY <1>2, <2>1, <2>3, <2>8
  <2>7. QED
    BY <1>0, <1>2, <2>1, <2>2, <2>4, <2>5, <2>6, ControlStep
<1>7. ASSUME Becomes(t, Idle), lock' = Unlocked(t), Typed', ready' = ready
      PROVE  Control'
  <2>1. ThreadOK(t)' /\ ~Building(t)' /\ call'[t].call = None
    BY <1>2, <1>7, IdleTypes DEF Idle, ThreadOK, Building, Writing
  <2>2. /\ lock'[ObjectOf[t]] # t /\ lock'[ObjectOf[t]] \in {lock[ObjectOf[t]], None}
        /\ lock[ObjectOf[t]] = t \/ lock'[ObjectOf[t]] = lock[ObjectOf[t]]
        /\ \A o \in Objects \ {ObjectOf[t]} : lock'[o] = lock[o]
    BY <1>0, <1>7, UnlockedTypes DEF Unlocked, Typed
  <2>3. \A u \in Threads \ {t} : Alike(u)
    BY <1>2, <1>7, IdleTypes
  <2>4. QED
    BY <1>7, <2>1, <2>2, <2>3, ControlStep
<1>8. CASE Read(t)
  <2>1. call[t].call # None
    BY <1>0, <1>8 DEF Read, ThreadOK, Writing
  <2>2. call[t].call \in Calls /\ call[t].pc = "read" /\ lock[ObjectOf[t]] = t
    BY <1>0, <1>1, <1>8, <2>1 DEF Read
  <2>3. path' = path /\ tmp' = tmp /\ data' = data /\ ready' = ready
    BY <1>8 DEF Read
  <2>4. Unlocked(t) \in [Objects -> Threads \cup {None}]
    BY UnlockedTypes
  <2>5. ASSUME NEW c \in CallRecords, Becomes(t, c), lock' = lock,
               c.call = call[t].call, c.fd = None,
               \/ c.pc = "done"
               \/ c.pc = "open" /\ c.got = None /\ c.call.kind = "save"
        PROVE  Control'
    <3>1. Typed'
      BY <1>0, <1>2, <1>3, <2>3, <2>5 DEF Typed
    <3>2. ThreadOK(t)' /\ ~Building(t)'
      BY <1>0, <1>2, <2>1, <2>3, <2>5 DEF ThreadOK, Building, Writing
    <3>3. call'[t].call # None /\ call'[t].pc # "lock"
      BY <1>2, <2>1, <2>5
    <3>4. QED
      BY <1>0, <1>2, <2>2, <2>3, <2>5, <3>1, <3>2, <3>3, ControlStep
  <2>6. CASE Becomes(t, Idle) /\ lock' = Unlocked(t)
    <3>1. Typed'
      BY <1>0, <1>2, <1>3, <2>3, <2>4, <2>6, IdleTypes DEF Typed
    <3>2. QED
      BY <1>7, <2>3, <2>6, <3>1
  <2>7. ASSUME NEW m \in Maps, call[t].call.kind = "save", lock' = lock,
               Becomes(t, [call[t] EXCEPT !.pc = "open", !.map = m])
        PROVE  Control'
    <3> DEFINE c == [call[t] EXCEPT !.pc = "open", !.map = m]
    <3>1. c \in CallRecords /\ c.pc = "open" /\ c.call = call[t].call /\ c.fd = call[t].fd
          /\ c.got = call[t].got
      BY <1>0 DEF CallRecords, Pcs, WritingPcs
    <3>2. call[t].fd = None /\ call[t].got = None
      BY <1>0, <2>2 DEF ThreadOK
    <3> HIDE DEF c
    <3>3. QED
      BY <2>5, <2>7, <3>1, <3>2 DEF c
  <2>8. ASSUME NEW g \in Checkpoints \cup {None} \cup Maps, lock' = lock,
               Becomes(t, [call[t] EXCEPT !.pc = "done", !.got = g])
        PROVE  Control'
    <3> DEFINE c == [call[t] EXCEPT !.pc = "done", !.got = g]
    <3>1. c \in CallRecords /\ c.pc = "done" /\ c.call = call[t].call /\ c.fd = call[t].fd
      BY <1>0 DEF CallRecords, Pcs
    <3>2. call[t].fd = None
      BY <1>0, <2>2 DEF ThreadOK
    <3> HIDE DEF c
    <3>3. QED
      BY <2>5, <2>8, <3>1, <3>2 DEF c
  <2>9. QED
    BY <1>0, <1>8, <2>2, <2>6, <2>7, <2>8, ReadBecomes
<1>9. ASSUME NEW c \in CallRecords, call'[t] = c, \A u \in Threads \ {t} : Alike(u),
             lock' = lock, ready' = ready, Typed',
             c.call = call[t].call, c.got = call[t].got,
             Writing(t), c.pc \in WritingPcs, c.fd # None <=> c.pc \in {"dump", "close"}
      PROVE  Control'
  <2>1. ThreadOK(t)'
    BY <1>0, <1>9 DEF ThreadOK, Writing, WritingPcs
  <2>2. Building(t)' => Building(t) /\ ObjectOf[t] \notin ready'
    BY <1>9 DEF Control, BuildersAlone, Building
  <2>3. call'[t].pc # "lock" /\ call[t].pc # "lock"
    BY <1>9 DEF Writing, WritingPcs
  <2>4. QED
    BY <1>0, <1>9, <2>1, <2>2, <2>3, ControlStep
<1>10. CASE OpenTmp(t)
  <2>1. PICK i \in Inodes :
              /\ tmp' = i /\ data' = [data EXCEPT ![i] = Nothing]
              /\ call' \in [Threads -> CallRecords]
              /\ \E b \in BOOLEAN :
                    /\ call'[t] = [call[t] EXCEPT !.pc = "dump", !.fd = i, !.mixed = b]
                    /\ b => \E u \in Threads : call[u].fd = i
              /\ \A u \in Threads \ {t} :
                    IF call[u].fd = i THEN call'[u] = [call[u] EXCEPT !.mixed = TRUE]
                                      ELSE call'[u] = call[u]
    BY <1>0, <1>10, OpenTmpMoves
  <2>2. PICK b \in BOOLEAN :
              call'[t] = [call[t] EXCEPT !.pc = "dump", !.fd = i, !.mixed = b]
    BY <2>1
  <2>3. \A u \in Threads \ {t} : Alike(u)
    <3> SUFFICES ASSUME NEW u \in Threads \ {t}
                 PROVE  Alike(u)
      OBVIOUS
    <3>1. call[u] \in CallRecords /\ ThreadOK(u)
      BY DEF Control, Typed
    <3>2. call[u].fd = i => call[u].pc # "idle"
      BY <2>1, <3>1, NoneAssumption DEF ThreadOK
    <3>3. QED
      BY <2>1, <3>1, <3>2 DEF Alike, CallRecords
  <2>4. Nothing \in Contents
    BY DEF Contents
  <2>5. path' = path /\ ready' = ready /\ lock' = lock /\ call[t].pc = "open"
    BY <1>10 DEF OpenTmp
  <2>6. Typed'
    BY <1>0, <1>3, <2>1, <2>4, <2>5 DEF Typed
  <2>7. call'[t] \in CallRecords /\ call'[t].call = call[t].call /\ call'[t].got = call[t].got
        /\ call'[t].pc = "dump" /\ call'[t].fd = i
    BY <1>0, <2>1, <2>2 DEF CallRecords
  <2>8. i # None
    BY <2>1, NoneAssumption
  <2>9. QED
    BY <1>9, <2>3, <2>5, <2>6, <2>7, <2>8 DEF Writing, WritingPcs
<1>11. CASE Dump(t)
  <2> DEFINE c == [call[t] EXCEPT !.pc = "close"]
  <2>1. Becomes(t, c) /\ c \in CallRecords
    BY <1>0, <1>11, GoBecomes DEF Dump, Pcs, WritingPcs
  <2>2. c.pc = "close" /\ c.call = call[t].call /\ c.got = call[t].got /\ c.fd = call[t].fd
    BY <1>0 DEF CallRecords
  <2>3. call[t].pc = "dump" /\ call[t].fd # None /\ call[t].fd \in Inodes
    BY <1>0, <1>11 DEF Dump, ThreadOK, CallRecords
  <2>4. path' = path /\ tmp' = tmp /\ ready' = ready /\ lock' = lock
        /\ data' = [data EXCEPT ![call[t].fd] = Part]
    BY <1>11 DEF Dump
  <2>5. Part \in Contents
    BY DEF Contents
  <2>6. Typed'
    BY <1>0, <1>2, <1>3, <2>1, <2>3, <2>4, <2>5 DEF Typed
  <2> HIDE DEF c
  <2>7. QED
    BY <1>2, <1>9, <2>1, <2>2, <2>3, <2>4, <2>6 DEF Writing, WritingPcs
<1>12. CASE Close(t)
  <2> DEFINE c == [call[t] EXCEPT !.pc = "replace", !.fd = None]
  <2>1. Becomes(t, c) /\ c \in CallRecords
    BY <1>0, <1>12, CloseBecomes
  <2>2. c.pc = "replace" /\ c.call = call[t].call /\ c.got = call[t].got /\ c.fd = None
    BY <1>0 DEF CallRecords
  <2>3. call[t].pc = "close" /\ call[t].fd \in Inodes
    BY <1>0, <1>12 DEF Close, ThreadOK, CallRecords
  <2>4. path' = path /\ tmp' = tmp /\ ready' = ready /\ lock' = lock
    BY <1>12 DEF Close
  <2>5. PICK d \in {Whole(call[t].map)} \cup (IF call[t].mixed THEN {Part} ELSE {}) :
             Keep([data EXCEPT ![call[t].fd] = d])
    BY <1>12 DEF Close
  <2>6. d \in Contents
    BY <1>0, <2>5 DEF Contents, CallRecords
  <2>7. [data EXCEPT ![call[t].fd] = d] \in [Inodes -> Contents]
    BY <1>0, <2>6 DEF Typed
  <2>8. data' \in [Inodes -> Contents]
    BY <1>0, <2>5, <2>7, KeepTypes
  <2>9. Typed'
    BY <1>0, <1>2, <1>3, <2>1, <2>4, <2>8 DEF Typed
  <2> HIDE DEF c
  <2>10. QED
    BY <1>2, <1>9, <2>1, <2>2, <2>3, <2>4, <2>9 DEF Writing, WritingPcs
<1>13. data' \in [Inodes -> Contents] \/ ~(Keep(data) \/ data' = data)
  BY <1>0, KeepTypes DEF Typed
<1>14. CASE DumpFails(t)
  <2>1. Becomes(t, Idle) /\ lock' = Unlocked(t)
    BY <1>0, <1>14, RaiseBecomes DEF DumpFails, Raise
  <2>2. Typed'
    BY <1>0, <1>2, <1>3, <1>13, <1>14, <2>1, IdleTypes, UnlockedTypes DEF DumpFails, Typed
  <2>3. QED
    BY <1>7, <1>14, <2>1, <2>2 DEF DumpFails
<1>15. CASE Return(t)
  <2>1. Becomes(t, Idle) /\ lock' = Unlocked(t)
    BY <1>0, <1>15, RaiseBecomes DEF Return, Raise
  <2>2. Typed'
    BY <1>0, <1>2, <1>3, <1>13, <1>15, <2>1, IdleTypes, UnlockedTypes DEF Return, Typed
  <2>3. QED
    BY <1>7, <1>15, <2>1, <2>2 DEF Return
<1>16. CASE Replace(t)
  <2>0. call[t].pc = "replace" /\ Writing(t) /\ Keep(data)
    BY <1>16 DEF Replace, Writing
  <2>1. CASE tmp = None
    <3>1. Becomes(t, Idle) /\ lock' = Unlocked(t)
      BY <1>0, <1>16, <2>1, RaiseBecomes DEF Replace, Raise
    <3>2. path' = path /\ tmp' = tmp /\ ready' = ready
      BY <1>16, <2>1 DEF Replace
    <3>3. Typed'
      BY <1>0, <1>2, <1>3, <1>13, <2>0, <3>1, <3>2, IdleTypes, UnlockedTypes DEF Typed
    <3>4. QED
      BY <1>7, <3>1, <3>2, <3>3
  <2>2. CASE tmp # None /\ call[t].call = None
    <3>1. Becomes(t, Idle) /\ lock' = lock /\ path' = tmp /\ tmp' = None
          /\ ready' = ready \cup {ObjectOf[t]}
      BY <1>16, <2>2 DEF Replace, Becomes
    <3>2. Typed'
      BY <1>0, <1>2, <1>3, <1>13, <2>0, <3>1, IdleTypes DEF Typed
    <3>3. ThreadOK(t)' /\ ~Building(t)' /\ call'[t].call = None
      BY <1>2, <3>1, IdleTypes DEF Idle, ThreadOK, Building, Writing
    <3>4. \A u \in Threads \ {t} : ObjectOf[u] = ObjectOf[t] => ~Building(u)
      BY <2>0, <2>2 DEF Control, BuildersAlone, Building
    <3>5. lock[ObjectOf[t]] # t
      BY <1>0, <2>2
    <3>6. QED
      BY <1>0, <1>2, <3>1, <3>2, <3>3, <3>4, <3>5, IdleTypes, ControlStep
  <2>3. CASE tmp # None /\ call[t].call # None
    <3> DEFINE c == [call[t] EXCEPT !.pc = "done"]
    <3>1. Becomes(t, c) /\ c \in CallRecords
      BY <1>0, <1>16, <2>3, GoBecomes DEF Replace, Pcs
    <3>2. lock' = lock /\ path' = tmp /\ tmp' = None /\ ready' = ready
      BY <1>16, <2>3 DEF Replace
    <3>3. Typed'
      BY <1>0, <1>2, <1>3, <1>13, <2>0, <3>1, <3>2 DEF Typed
    <3>4. c.pc = "done" /\ c.call = call[t].call /\ c.fd = call[t].fd
      BY <1>0 DEF CallRecords
    <3> HIDE DEF c
    <3>5. ThreadOK(t)' /\ ~Building(t)'
      <4>1. call'[t] = c
        BY <1>2, <3>1
      <4>2. call[t].fd = None /\ ObjectOf[t] \in ready
        BY <1>0, <2>0, <2>3 DEF ThreadOK
      <4>3. QED
        BY <2>3, <3>2, <3>4, <4>1, <4>2 DEF ThreadOK, Building, Writing
    <3>6. call'[t].call # None /\ call'[t].pc # "lock" /\ lock[ObjectOf[t]] = t
      BY <1>0, <1>2, <2>0, <2>3, <3>1, <3>4
    <3>7. QED
      BY <1>0, <1>2, <3>1, <3>2, <3>3, <3>5, <3>6, ControlStep
  <2>4. QED
    BY <2>1, <2>2, <2>3
<1>17. QED
  BY <1>4, <1>5, <1>6, <1>8, <1>10, <1>11, <1>12, <1>14, <1>15, <1>16 DEF ThreadStep

LEMMA ControlCrash ==
    ASSUME Control, NEW o \in Objects, Crash(o)
    PROVE  Control'
<1>1. \A t \in Threads : /\ call[t] \in CallRecords /\ ObjectOf[t] \in Objects
                         /\ t # None /\ ThreadOK(t)
  BY StoreAssumption, NoneAssumption DEF Control, Typed
<1>2. \A t \in Threads : call'[t] = IF ObjectOf[t] = o THEN Idle ELSE call[t]
  BY DEF Crash
<1>3. Typed'
  <2>1. call' \in [Threads -> CallRecords]
    BY <1>1, IdleTypes DEF Crash
  <2>2. data' \in [Inodes -> Contents]
    BY KeepTypes DEF Crash, Control, Typed
  <2>3. QED
    BY <2>1, <2>2 DEF Crash, Control, Typed
<1>4. \A t \in Threads : ThreadOK(t)'
  BY <1>1, <1>2 DEF ThreadOK, Writing, Idle, Crash
<1>5. BuildersAlone'
  BY <1>1, <1>2 DEF Control, BuildersAlone, Building, Writing, Idle, Crash
<1>6. LocksHeld'
  <2>1. \A p \in Objects : lock'[p] = IF p = o THEN None ELSE lock[p]
    BY DEF Crash, Control, Typed
  <2>2. QED
    BY <1>1, <1>2, <2>1 DEF Control, LocksHeld, Idle
<1>7. QED
  BY <1>3, <1>4, <1>5, <1>6 DEF Control

LEMMA ControlInit == Init => Control
<1> SUFFICES ASSUME Init
             PROVE  Control
  OBVIOUS
<1>1. Typed
  BY IdleTypes DEF Init, Typed
<1>2. \A t \in Threads : call[t] = Idle /\ ThreadOK(t) /\ ~Building(t)
  BY DEF Init, Idle, ThreadOK, Building, Writing
<1>3. LocksHeld
  BY <1>2, StoreAssumption, NoneAssumption DEF Init, LocksHeld, Idle
<1>4. QED
  BY <1>1, <1>2, <1>3 DEF Control, BuildersAlone

(* The fields of the thread records the files know of hold inodes.         *)
LEMMA ControlIsTypeOK == Control => TypeOK
<1> SUFFICES ASSUME Control
             PROVE  TypeOK
  OBVIOUS
<1>1. \A t \in Threads : call[t] \in CallRecords /\ ThreadOK(t)
  BY DEF Control, Typed
<1>2. \A t \in Threads : call[t].pc \in {"dump", "close"} <=> call[t].fd \in Inodes
  BY <1>1, NoneAssumption DEF CallRecords, ThreadOK
<1>3. \A o \in Objects :
          lock[o] # None => /\ ObjectOf[lock[o]] = o
                            /\ call[lock[o]].pc \notin {"idle", "lock"}
  BY <1>1 DEF Control, Typed, LocksHeld, ThreadOK, Idle
<1>4. QED
  BY <1>1, <1>2, <1>3 DEF TypeOK, Control, Typed, ThreadOK

(* Whatever the objects do to each other's files, a thread is where its    *)
(* lock says it is, and holds a file open exactly while it writes it.      *)
THEOREM StoreTypeOK == Spec => []TypeOK
<1>1. Control /\ [Next]_vars => Control'
  <2> SUFFICES ASSUME Control, [Next]_vars
               PROVE  Control'
    OBVIOUS
  <2>1. CASE UNCHANGED vars
    BY <2>1 DEF vars, Control, Typed, ThreadOK, BuildersAlone, Building, LocksHeld, Writing
  <2>2. QED
    BY <2>1, ControlKept, ControlCrash DEF Next
<1>2. QED
  BY <1>1, ControlInit, ControlIsTypeOK, PTL DEF Spec

-----------------------------------------------------------------------------
(* The files, as long as no two objects write at once.                     *)

LEMMA OneWriter ==
    ASSUME Control, Apart, NEW t \in Threads, NEW u \in Threads, Writing(t), Writing(u)
    PROVE  t = u
<1>1. ObjectOf[t] = ObjectOf[u]
  BY DEF Apart
<1>2. CASE Building(t) /\ Building(u)
  BY <1>1, <1>2 DEF Control, BuildersAlone
<1>3. CASE Building(t) /\ ~Building(u)
  BY <1>1, <1>3 DEF Control, BuildersAlone, Building, ThreadOK
<1>4. CASE ~Building(t) /\ Building(u)
  BY <1>1, <1>4 DEF Control, BuildersAlone, Building, ThreadOK
<1>5. CASE ~Building(t) /\ ~Building(u)
  BY <1>1, <1>5 DEF Control, LocksHeld, Building, Writing
<1>6. QED
  BY <1>2, <1>3, <1>4, <1>5

(* overlap stays FALSE only while the writers are threads of one object.   *)
LEMMA WatchKept ==
    ASSUME IInv, NEW t \in Threads, ThreadStep(t), Control', ~overlap'
    PROVE  ~overlap /\ Apart /\ Apart'
<1>1. CASE Watch
  BY <1>1 DEF Watch, IInv, Files, Apart
<1>2. ASSUME overlap' = overlap, \A u \in Threads : Writing(u)' => Writing(u)
      PROVE  ~overlap /\ Apart /\ Apart'
  BY <1>2 DEF IInv, Files, Apart
<1>3. \A u \in Threads : call[u] \in CallRecords
  BY DEF IInv, Control, Typed
<1>4. CASE Lock(t)
  BY <1>2, <1>3, <1>4 DEF Lock, Go, Writing, IInv, Control, Typed
<1>5. CASE Return(t)
  BY <1>2, <1>3, <1>5 DEF Return, Raise, Writing, Idle, IInv, Control, Typed
<1>6. CASE \E c \in Calls : Call(t, c)
  BY <1>2, <1>3, <1>6 DEF Call, Writing, Idle, IInv, Control, Typed
<1>7. QED
  BY <1>1, <1>4, <1>5, <1>6
     DEF ThreadStep, Construct, Read, OpenTmp, Dump, DumpFails, Close, Replace

PathOK == path # None => path # tmp /\ data[path].is = "whole"

LEMMA FilesKept ==
    ASSUME IInv, NEW t \in Threads, ThreadStep(t), Control'
    PROVE  Files'
<1> SUFFICES ASSUME ~overlap'
             PROVE  Files'
  BY DEF Files
<1>0. ~overlap /\ Apart /\ Apart'
  BY WatchKept
<1>1. /\ Control /\ Typed /\ PathOK /\ WriterOK(t) /\ ThreadOK(t)
      /\ call[t] \in CallRecords /\ t # None
      /\ call[t].call # None => call[t].call \in Calls
  BY <1>0, NoneAssumption DEF IInv, Control, Typed, Files, PathOK, CallRecords
<1>2. \A u \in Threads \ {t} : /\ Writing(t) => ~Writing(u)
                               /\ Writing(u) => ~Writing(t)
  BY <1>0, <1>1, OneWriter
<1>3. \A u \in Threads : WriterOK(u) /\ ThreadOK(u)
  BY <1>0 DEF IInv, Control, Files
<1>4. \A u \in Threads : ThreadOK(u)' /\ (~Writing(u)' => WriterOK(u)')
  BY DEF Control, ThreadOK, WriterOK, Building, Writing
<1> DEFINE Good == PathOK' /\ \A u \in Threads : WriterOK(u)'
<1>5. SUFFICES Good
  BY <1>0 DEF Files, PathOK
<1>6. ASSUME NEW c \in CallRecords, Becomes(t, c)
      PROVE  call'[t] = c /\ \A u \in Threads \ {t} : call'[u] = call[u]
  BY <1>1, <1>6, BecomesTypes
(* A step that leaves the files alone.                                     *)
<1>7. ASSUME path' = path, tmp' = tmp, data' = data,
             NEW c \in CallRecords, Becomes(t, c), WriterOK(t)'
      PROVE  Good
  <2>1. PathOK'
    BY <1>1, <1>7 DEF PathOK
  <2>2. \A u \in Threads \ {t} : WriterOK(u)'
    BY <1>3, <1>6, <1>7 DEF WriterOK, Building, Writing, Stored
  <2>3. QED
    BY <1>7, <2>1, <2>2
(* A step of the writer: no other thread writes, before or after it.       *)
<1>8. ASSUME Writing(t), PathOK', WriterOK(t)',
             \A u \in Threads \ {t} : call'[u].pc = call[u].pc
      PROVE  Good
  <2>1. \A u \in Threads \ {t} : ~Writing(u)'
    BY <1>2, <1>8 DEF Writing
  <2>2. QED
    BY <1>4, <1>8, <2>1
<1>9. CASE Construct(t)
  <2>1. CASE path # None
    <3>1. path' = path /\ tmp' = tmp /\ data' = data /\ call' = call
      BY <1>9, <2>1 DEF Construct
    <3>2. QED
      BY <1>1, <1>3, <3>1 DEF PathOK, WriterOK, Building, Writing, Stored
  <2>2. CASE path = None
    <3> DEFINE c == [call[t] EXCEPT !.pc = "open"]
    <3>1. Becomes(t, c) /\ c \in CallRecords
      BY <1>1, <1>9, <2>2, GoBecomes DEF Construct, Pcs, WritingPcs
    <3>2. path' = path /\ tmp' = tmp /\ data' = data /\ call[t] = Idle
      BY <1>9 DEF Construct
    <3>3. c.pc = "open" /\ c.fd = None /\ c.call = None /\ c.map = EmptyMap
      BY <3>2 DEF Idle
    <3>4. call'[t] = c
      BY <1>6, <3>1
    <3> HIDE DEF c
    <3>5. WriterOK(t)'
      BY <2>2, <3>2, <3>3, <3>4 DEF WriterOK, Building, Writing
    <3>6. QED
      BY <1>7, <3>1, <3>2, <3>5
  <2>3. QED
    BY <2>1, <2>2
<1>10. CASE \E c \in Calls : Call(t, c)
  <2>1. PICK c \in Calls : Call(t, c)
    BY <1>10
  <2> DEFINE r == [Idle EXCEPT !.pc = "lock", !.call = c]
  <2>2. Becomes(t, r) /\ r \in CallRecords
    BY <1>1, <2>1, CallBecomes
  <2>3. r.pc = "lock"
    BY DEF Idle
  <2>4. call'[t] = r
    BY <1>6, <2>2
  <2> HIDE DEF r
  <2>5. WriterOK(t)'
    BY <1>4, <2>3, <2>4 DEF Writing
  <2>6. QED
    BY <1>7, <2>1, <2>2, <2>5 DEF Call
<1>11. CASE Lock(t)
  <2> DEFINE c == [call[t] EXCEPT !.pc = "read"]
  <2>1. Becomes(t, c) /\ c \in CallRecords
    BY <1>1, <1>11, GoBecomes DEF Lock, Pcs
  <2>2. call'[t].pc = "read"
    BY <1>1, <1>6, <2>1 DEF CallRecords
  <2>3. WriterOK(t)'
    BY <1>4, <2>2 DEF Writing
  <2>4. QED
    BY <1>7, <1>11, <2>1, <2>3 DEF Lock
<1>12. ASSUME Becomes(t, Idle)
       PROVE  /\ call'[t] = Idle /\ WriterOK(t)'
              /\ \A u \in Threads \ {t} : call'[u] = call[u]
  <2>1. call'[t] = Idle
    BY <1>6, <1>12, IdleTypes
  <2>2. ~Writing(t)'
    BY <2>1 DEF Writing, Idle
  <2>3. QED
    BY <1>4, <1>6, <1>12, <2>1, <2>2, IdleTypes
<1>13. CASE Read(t)
  <2>1. path' = path /\ tmp' = tmp /\ data' = data
    BY <1>13 DEF Read
  <2>2. call[t].call # None /\ call[t].pc = "read" /\ call[t].fd = None
    BY <1>1, <1>13 DEF Read, ThreadOK, Writing
  <2>3. CASE Becomes(t, Idle)
    BY <1>7, <1>12, <2>1, <2>3, IdleTypes
  <2>4. ASSUME NEW m \in Maps,
               m = [Stored EXCEPT ![call[t].call.run] = call[t].call.ckpt],
               Becomes(t, [call[t] EXCEPT !.pc = "open", !.map = m])
        PROVE  Good
    <3> DEFINE c == [call[t] EXCEPT !.pc = "open", !.map = m]
    <3>1. c \in CallRecords
      BY <1>1 DEF CallRecords, Pcs, WritingPcs
    <3>2. c.pc = "open" /\ c.map = m /\ c.call = call[t].call /\ c.fd = None
      BY <1>1, <2>2 DEF CallRecords
    <3>3. call'[t] = c
      BY <1>6, <2>4, <3>1
    <3> HIDE DEF c
    <3>4. Stored' = Stored
      BY <2>1 DEF Stored
    <3>5. WriterOK(t)'
      BY <2>2, <2>4, <3>2, <3>3, <3>4 DEF WriterOK, Building, Writing
    <3>6. QED
      BY <1>7, <2>1, <2>4, <3>1, <3>5 DEF c
  <2>5. ASSUME NEW g \in Checkpoints \cup {None} \cup Maps,
               Becomes(t, [call[t] EXCEPT !.pc = "done", !.got = g])
        PROVE  Good
    <3> DEFINE c == [call[t] EXCEPT !.pc = "done", !.got = g]
    <3>1. c \in CallRecords
      BY <1>1 DEF CallRecords, Pcs
    <3>2. call'[t].pc = "done"
      BY <1>1, <1>6, <2>5, <3>1 DEF CallRecords
    <3>3. WriterOK(t)'
      BY <1>4, <3>2 DEF Writing
    <3>4. QED
      BY <1>7, <2>1, <2>5, <3>1, <3>3
  <2>6. QED
    BY <1>1, <1>13, <2>2, <2>3, <2>4, <2>5, ReadBecomes
<1>14. CASE Return(t)
  <2>1. Becomes(t, Idle)
    BY <1>1, <1>14, RaiseBecomes DEF Return
  <2>2. QED
    BY <1>7, <1>12, <1>14, <2>1, IdleTypes DEF Return
<1>15. CASE OpenTmp(t)
  <2>0. call[t].pc = "open" /\ Writing(t) /\ call[t].fd = None /\ path' = path
    BY <1>1, <1>15 DEF OpenTmp, Writing, ThreadOK
  <2>1. PICK i \in Inodes :
              /\ IF tmp = None THEN i \in Free ELSE i = tmp
              /\ tmp' = i /\ data' = [data EXCEPT ![i] = Nothing]
              /\ call' \in [Threads -> CallRecords]
              /\ \E b \in BOOLEAN :
                    /\ call'[t] = [call[t] EXCEPT !.pc = "dump", !.fd = i, !.mixed = b]
                    /\ b => \E u \in Threads : call[u].fd = i
              /\ \A u \in Threads \ {t} :
                    IF call[u].fd = i THEN call'[u] = [call[u] EXCEPT !.mixed = TRUE]
                                      ELSE call'[u] = call[u]
    BY <1>1, <1>15, OpenTmpMoves
  <2>2. PICK b \in BOOLEAN :
              /\ call'[t] = [call[t] EXCEPT !.pc = "dump", !.fd = i, !.mixed = b]
              /\ b => \E u \in Threads : call[u].fd = i
    BY <2>1
  <2>3. i # None /\ i # path
    BY <1>1, <2>1, NoneAssumption DEF PathOK, Free
  <2>4. \A u \in Threads : call[u].fd # i
    BY <1>2, <1>3, <2>0, <2>3 DEF ThreadOK, Writing
  <2>5. ~b /\ \A u \in Threads \ {t} : call'[u] = call[u]
    BY <2>1, <2>2, <2>4
  <2>6. /\ call'[t].pc = "dump" /\ call'[t].fd = i /\ call'[t].mixed = FALSE
        /\ call'[t].map = call[t].map /\ call'[t].call = call[t].call
    BY <1>1, <2>2, <2>5 DEF CallRecords
  <2>7. path # None => data'[path] = data[path]
    BY <1>1, <2>1, <2>3 DEF Typed
  <2>8. Stored' = Stored
    BY <2>0, <2>7 DEF Stored
  <2>9. PathOK'
    BY <1>1, <2>0, <2>1, <2>3, <2>7 DEF PathOK
  <2>10. WriterOK(t)'
    BY <1>1, <2>0, <2>1, <2>6, <2>8 DEF WriterOK, Building, Writing
  <2>11. QED
    BY <1>8, <2>0, <2>5, <2>9, <2>10
<1>16. CASE Dump(t)
  <2> DEFINE c == [call[t] EXCEPT !.pc = "close"]
  <2>1. Becomes(t, c) /\ c \in CallRecords
    BY <1>1, <1>16, GoBecomes DEF Dump, Pcs, WritingPcs
  <2>2. c.pc = "close" /\ c.call = call[t].call /\ c.map = call[t].map
        /\ c.fd = call[t].fd /\ c.mixed = call[t].mixed
    BY <1>1 DEF CallRecords
  <2>3. Writing(t) /\ call[t].fd # None
    BY <1>1, <1>16 DEF Dump, ThreadOK, Writing
  <2>4. call[t].fd = tmp /\ tmp # None /\ tmp \in Inodes
    BY <1>1, <2>3 DEF WriterOK, Typed
  <2>5. path' = path /\ tmp' = tmp /\ data' = [data EXCEPT ![tmp] = Part]
    BY <1>16, <2>4 DEF Dump
  <2>6. path # None => data'[path] = data[path]
    BY <1>1, <2>4, <2>5 DEF PathOK, Typed
  <2>7. Stored' = Stored /\ PathOK'
    BY <1>1, <2>5, <2>6 DEF Stored, PathOK
  <2>8. call'[t] = c /\ \A u \in Threads \ {t} : call'[u] = call[u]
    BY <1>6, <2>1
  <2> HIDE DEF c
  <2>9. WriterOK(t)'
    BY <1>1, <2>2, <2>3, <2>4, <2>5, <2>7, <2>8 DEF WriterOK, Building, Writing
  <2>10. QED
    BY <1>8, <2>3, <2>7, <2>8, <2>9
(* What a name refers to is kept.                                          *)
<1>17. ASSUME NEW d \in [Inodes -> Contents], Keep(d)
       PROVE  \A i \in Inodes : i \in {path', tmp'} => data'[i] = d[i]
  BY <1>17 DEF Keep
<1>18. path' \in Inodes \cup {None} /\ tmp' \in Inodes \cup {None}
  BY DEF Control, Typed
<1>19. CASE DumpFails(t)
  <2>1. Becomes(t, Idle) /\ path' = path /\ tmp' = tmp /\ Writing(t)
    BY <1>1, <1>19, RaiseBecomes DEF DumpFails, Writing
  <2>2. path # None => data'[path] = data[path]
    BY <1>1, <1>17, <1>18, <1>19, <2>1 DEF DumpFails, Typed
  <2>3. PathOK'
    BY <1>1, <2>1, <2>2 DEF PathOK
  <2>4. QED
    BY <1>8, <1>12, <2>1, <2>3
<1>20. CASE Close(t)
  <2> DEFINE c == [call[t] EXCEPT !.pc = "replace", !.fd = None]
  <2>1. Becomes(t, c) /\ c \in CallRecords
    BY <1>1, <1>20, CloseBecomes
  <2>2. c.pc = "replace" /\ c.call = call[t].call /\ c.map = call[t].map /\ c.fd = None
    BY <1>1 DEF CallRecords
  <2>3. Writing(t) /\ call[t].fd # None
    BY <1>1, <1>20 DEF Close, ThreadOK, Writing
  <2>4. call[t].fd = tmp /\ ~call[t].mixed /\ tmp # None /\ tmp \in Inodes
    BY <1>1, <2>3 DEF WriterOK, Typed
  <2> DEFINE d == [data EXCEPT ![tmp] = Whole(call[t].map)]
  <2>5. path' = path /\ tmp' = tmp /\ Keep(d)
    BY <1>20, <2>4 DEF Close
  <2>6. Whole(call[t].map) \in Contents
    BY <1>1 DEF Contents, CallRecords
  <2>7. d \in [Inodes -> Contents] /\ d[tmp] = Whole(call[t].map)
        /\ (path # None => d[path] = data[path])
    BY <1>1, <2>4, <2>6 DEF Typed, PathOK
  <2> HIDE DEF d
  <2>8. data'[tmp] = Whole(call[t].map) /\ (path # None => data'[path] = data[path])
    BY <1>17, <1>18, <2>4, <2>5, <2>7
  <2>9. Stored' = Stored /\ PathOK'
    BY <1>1, <2>5, <2>8 DEF Stored, PathOK
  <2>10. call'[t] = c /\ \A u \in Threads \ {t} : call'[u] = call[u]
    BY <1>6, <2>1
  <2> HIDE DEF c
  <2>11. WriterOK(t)'
    BY <1>1, <2>2, <2>3, <2>5, <2>8, <2>9, <2>10 DEF WriterOK, Building, Writing
  <2>12. QED
    BY <1>8, <2>3, <2>9, <2>10, <2>11
<1>21. CASE Replace(t)
  <2>0. call[t].pc = "replace" /\ Writing(t) /\ Keep(data)
    BY <1>21 DEF Replace, Writing
  <2>1. CASE tmp = None
    <3>1. Becomes(t, Idle) /\ path' = path /\ tmp' = tmp
      BY <1>1, <1>21, <2>1, RaiseBecomes DEF Replace
    <3>2. path # None => data'[path] = data[path]
      BY <1>1, <1>17, <1>18, <2>0, <3>1 DEF Typed
    <3>3. PathOK'
      BY <1>1, <3>1, <3>2 DEF PathOK
    <3>4. QED
      BY <1>8, <1>12, <2>0, <3>1, <3>3
  <2>2. CASE tmp # None
    <3>1. path' = tmp /\ tmp' = None /\ tmp \in Inodes
      BY <1>1, <1>21, <2>2 DEF Replace, Typed
    <3>2. data'[tmp] = data[tmp] /\ data[tmp] = Whole(call[t].map)
      BY <1>1, <1>17, <2>0, <2>2, <3>1 DEF Typed, WriterOK
    <3>3. PathOK'
      BY <2>2, <3>1, <3>2 DEF PathOK, Whole
    <3>4. CASE call[t].call = None
      <4>1. Becomes(t, Idle)
        BY <1>21, <2>2, <3>4 DEF Replace, Becomes
      <4>2. QED
        BY <1>8, <1>12, <2>0, <3>3, <4>1
    <3>5. CASE call[t].call # None
      <4> DEFINE c == [call[t] EXCEPT !.pc = "done"]
      <4>1. Becomes(t, c) /\ c \in CallRecords
        BY <1>1, <1>21, <2>2, <3>5, GoBecomes DEF Replace, Pcs
      <4>2. call'[t].pc = "done" /\ \A u \in Threads \ {t} : call'[u] = call[u]
        BY <1>1, <1>6, <4>1 DEF CallRecords
      <4>3. WriterOK(t)'
        BY <1>4, <4>2 DEF Writing
      <4>4. QED
        BY <1>8, <2>0, <3>3, <4>2, <4>3
    <3>6. QED
      BY <3>4, <3>5
  <2>3. QED
    BY <2>1, <2>2
<1>22. QED
  BY <1>9, <1>10, <1>11, <1>13, <1>14, <1>15, <1>16, <1>19, <1>20, <1>21 DEF ThreadStep

LEMMA FilesCrash ==
    ASSUME IInv, NEW o \in Objects, Crash(o), Control'
    PROVE  Files' /\ (~overlap' /\ path # None => Stored' = Stored)
<1> SUFFICES ASSUME ~overlap'
             PROVE  Files' /\ (path # None => Stored' = Stored)
  BY DEF Files
<1>1. ~overlap /\ Apart /\ PathOK /\ Typed /\ \A u \in Threads : WriterOK(u)
  BY DEF Crash, IInv, Control, Files, PathOK
<1>2. path' = path /\ tmp' = tmp /\ Keep(data)
  BY DEF Crash
<1>3. /\ path # None => data'[path] = data[path]
      /\ tmp # None => data'[tmp] = data[tmp]
  BY <1>1, <1>2 DEF Keep, Typed
<1>4. \A u \in Threads : call'[u] = Idle \/ call'[u] = call[u]
  BY DEF Crash
<1>5. PathOK' /\ Stored' = Stored
  BY <1>1, <1>2, <1>3 DEF PathOK, Stored
<1>6. \A u \in Threads : WriterOK(u)'
  BY <1>1, <1>2, <1>3, <1>4, <1>5 DEF WriterOK, Building, Writing, Idle
<1>7. Apart'
  BY <1>1, <1>4 DEF Apart, Writing, Idle
<1>8. QED
  BY <1>5, <1>6, <1>7 DEF Files, PathOK

LEMMA FilesInit == Init => Files
<1> SUFFICES ASSUME Init
             PROVE  Files
  OBVIOUS
<1>1. \A t \in Threads : call[t] = Idle
  BY DEF Init
<1>2. Apart /\ \A t \in Threads : WriterOK(t)
  BY <1>1 DEF Apart, WriterOK, Building, Writing, Idle
<1>3. path # None => path # tmp /\ data[path].is = "whole"
  BY DEF Init
<1>4. QED
  BY <1>2, <1>3 DEF Files

(* The inductive invariant: who is where (Control), and what the one       *)
(* writer has in its hands (Files).                                        *)
THEOREM StoreInvariant == Spec => []IInv
<1>1. Init => IInv
  BY ControlInit, FilesInit DEF IInv
<1>2. IInv /\ [Next]_vars => IInv'
  <2> SUFFICES ASSUME IInv, [Next]_vars
               PROVE  IInv'
    OBVIOUS
  <2>1. ASSUME NEW t \in Threads, ThreadStep(t)
        PROVE  IInv'
    BY <2>1, ControlKept, FilesKept DEF IInv
  <2>2. ASSUME NEW o \in Objects, Crash(o)
        PROVE  IInv'
    BY <2>2, ControlCrash, FilesCrash DEF IInv
  <2>3. CASE UNCHANGED vars
    BY <2>3 DEF vars, IInv, Control, Typed, ThreadOK, BuildersAlone, Building, LocksHeld,
                Writing, Files, Apart, WriterOK, Stored
  <2>4. QED
    BY <2>1, <2>2, <2>3 DEF Next
<1>3. QED
  BY <1>1, <1>2, PTL DEF Spec

(* "A crash mid-write cannot corrupt the store": in every state, whatever  *)
(* died at whatever point, the file is a whole map, unless two objects     *)
(* have been writing at once.                                              *)
THEOREM StoreStaysWhole == Spec => []CrashKeepsStoreWhole
<1>1. IInv => CrashKeepsStoreWhole
  BY DEF IInv, Files, CrashKeepsStoreWhole
<1>2. QED
  BY <1>1, StoreInvariant, PTL

-----------------------------------------------------------------------------
(* The calls of the store take effect in one moment.                       *)

LEMMA StateCases ==
    ASSUME NEW t \in Threads
    PROVE  /\ call[t].call = None => State(t) = "idle"
           /\ call[t].call # None /\ call[t].pc = "done" => State(t) = "done"
           /\ call[t].call # None /\ call[t].pc # "done" => State(t) = "called"
BY DEF State

Op == [t \in Threads |-> [state |-> State(t), call |-> call[t].call, got |-> call[t].got]]
Content == IF Readable THEN Stored ELSE EmptyMap

LEMMA AtomicInit == Init => Atomic!Init
<1> SUFFICES ASSUME Init
             PROVE  Atomic!Init
  OBVIOUS
<1>1. Content \in Maps
  BY ControlInit, StoredTypes DEF Control, Content, EmptyMap, Maps
<1>2. Op = [t \in Threads |-> Atomic!NoOp]
  <2>1. \A t \in Threads : call[t].call = None /\ call[t].got = None
    BY DEF Init, Idle
  <2>2. QED
    BY <2>1, StateCases DEF Op, Atomic!NoOp
<1>3. QED
  BY <1>1, <1>2 DEF Atomic!Init, Content, Maps, Op, Init

(* A step that only moves thread t moves only its call.                    *)
OpMoves(t, o) == Op' = [Op EXCEPT ![t] = o]

LEMMA BecomesMoves ==
    ASSUME Typed, NEW t \in Threads, NEW c \in CallRecords, Becomes(t, c), NEW s,
           s = IF c.call = None THEN "idle" ELSE IF c.pc = "done" THEN "done" ELSE "called"
    PROVE  OpMoves(t, [state |-> s, call |-> c.call, got |-> c.got])
<1> DEFINE o == [state |-> s, call |-> c.call, got |-> c.got]
<1>1. call'[t] = c /\ \A u \in Threads \ {t} : call'[u] = call[u]
  BY BecomesTypes
<1>2. State(t)' = s /\ \A u \in Threads \ {t} : State(u)' = State(u)
  BY <1>1 DEF State
<1>3. \A u \in Threads : Op'[u] = IF u = t THEN o ELSE Op[u]
  BY <1>1, <1>2 DEF Op
<1>4. QED
  BY <1>3 DEF Op, OpMoves

LEMMA ReadableStored ==
    ASSUME IInv, ~overlap
    PROVE  Readable /\ Content = Stored
BY DEF IInv, Files, Readable, Part, Content

LEMMA AbandonOne ==
    ASSUME Typed, NEW t \in Threads, Becomes(t, Idle), Content' = Content
    PROVE  Atomic!Abandon
<1>1. OpMoves(t, Atomic!NoOp)
  BY IdleTypes, BecomesMoves DEF Idle, Atomic!NoOp
<1>2. Op' = [u \in Threads |-> IF u \in {t} THEN Atomic!NoOp ELSE Op[u]]
  BY <1>1 DEF OpMoves, Op
<1>3. {t} \in SUBSET Threads
  OBVIOUS
<1>4. QED
  BY <1>2, <1>3 DEF Atomic!Abandon, Op, Content

(* What a step of t leaves in the store: what was there, but for a save.   *)
LEMMA ContentMoves ==
    ASSUME IInv, NEW t \in Threads, ThreadStep(t), IInv', ~overlap'
    PROVE  IF Replace(t) /\ tmp # None /\ call[t].call # None
           THEN Content' = [Content EXCEPT ![call[t].call.run] = call[t].call.ckpt]
           ELSE Content' = Content
<1>0. ~overlap
  BY WatchKept DEF IInv
<1>1. Content = Stored /\ Content' = Stored'
  BY <1>0, ReadableStored DEF IInv, Files, Readable, Part, Content
<1>2. Typed /\ PathOK /\ WriterOK(t) /\ ThreadOK(t) /\ Typed'
  BY <1>0 DEF IInv, Control, Files, PathOK
<1>3. ASSUME path' = path, path # None => data'[path] = data[path]
      PROVE  Stored' = Stored
  BY <1>3 DEF Stored
<1>4. ASSUME NEW d \in [Inodes -> Contents], Keep(d)
      PROVE  \A i \in Inodes : i \in {path', tmp'} => data'[i] = d[i]
  BY <1>4 DEF Keep
<1>5. CASE Construct(t) \/ Lock(t) \/ Read(t) \/ Return(t) \/ \E c \in Calls : Call(t, c)
  <2>1. path' = path /\ data' = data
    BY <1>5 DEF Construct, Lock, Read, Return, Call
  <2>2. call[t].pc # "replace"
    <3>1. Construct(t) => call[t].pc = "idle"
      BY DEF Construct, Idle
    <3>2. (\E c \in Calls : Call(t, c)) => call[t].pc = "idle"
      BY DEF Call
    <3>3. /\ Lock(t) => call[t].pc = "lock"
          /\ Read(t) => call[t].pc = "read"
          /\ Return(t) => call[t].pc = "done"
      BY DEF Lock, Read, Return
    <3>4. QED
      BY <1>5, <3>1, <3>2, <3>3
  <2>3. QED
    BY <1>1, <1>3, <2>1, <2>2 DEF Replace
<1>6. CASE OpenTmp(t)
  <2>1. PICK i \in Inodes :
              /\ IF tmp = None THEN i \in Free ELSE i = tmp
              /\ data' = [data EXCEPT ![i] = Nothing]
    BY <1>2, <1>6, OpenTmpMoves
  <2>2. i # path
    BY <1>2, <2>1, NoneAssumption DEF PathOK, Free
  <2>3. path' = path /\ (path # None => data'[path] = data[path]) /\ ~Replace(t)
    BY <1>2, <1>6, <2>1, <2>2 DEF OpenTmp, Typed, Replace
  <2>4. QED
    BY <1>1, <1>3, <2>3
<1>7. CASE Dump(t)
  <2>1. call[t].fd = tmp /\ tmp # None
    BY <1>2, <1>7 DEF Dump, ThreadOK, WriterOK
  <2>2. path' = path /\ (path # None => data'[path] = data[path]) /\ ~Replace(t)
    BY <1>2, <1>7, <2>1 DEF Dump, Typed, PathOK, Replace
  <2>3. QED
    BY <1>1, <1>3, <2>2
<1>8. CASE DumpFails(t)
  <2>1. path' = path /\ (path # None => data'[path] = data[path]) /\ ~Replace(t)
    BY <1>2, <1>4, <1>8 DEF DumpFails, Typed, Replace
  <2>2. QED
    BY <1>1, <1>3, <2>1
<1>9. CASE Close(t)
  <2>1. call[t].fd = tmp /\ tmp # None /\ ~call[t].mixed
    BY <1>2, <1>9 DEF Close, ThreadOK, WriterOK
  <2> DEFINE d == [data EXCEPT ![tmp] = Whole(call[t].map)]
  <2>2. Whole(call[t].map) \in Contents
    BY <1>2 DEF Contents, CallRecords, Typed
  <2>3. d \in [Inodes -> Contents] /\ (path # None => d[path] = data[path])
    BY <1>2, <2>1, <2>2 DEF Typed, PathOK
  <2>4. Keep(d) /\ path' = path /\ ~Replace(t)
    BY <1>9, <2>1 DEF Close, Replace
  <2> HIDE DEF d
  <2>5. path # None => data'[path] = data[path]
    BY <1>2, <1>4, <2>3, <2>4 DEF Typed
  <2>6. QED
    BY <1>1, <1>3, <2>4, <2>5
<1>10. CASE Replace(t)
  <2>0. Keep(data) /\ call[t].pc = "replace"
    BY <1>10 DEF Replace
  <2>1. CASE tmp = None
    <3>1. path' = path /\ (path # None => data'[path] = data[path])
      BY <1>2, <1>4, <1>10, <2>0, <2>1 DEF Replace, Typed
    <3>2. QED
      BY <1>1, <1>3, <2>1, <3>1
  <2>2. CASE tmp # None
    <3>1. path' = tmp /\ data'[tmp] = data[tmp] /\ data[tmp] = Whole(call[t].map)
      BY <1>2, <1>4, <1>10, <2>0, <2>2 DEF Replace, Typed, WriterOK
    <3>2. Stored' = call[t].map
      BY <2>2, <3>1 DEF Stored, Whole
    <3>3. Writing(t)
      BY <2>0 DEF Writing
    <3>4. call[t].call = None => Stored' = Stored
      BY <1>2, <3>2, <3>3 DEF WriterOK, Building, Stored
    <3>5. call[t].call # None =>
             call[t].map = [Stored EXCEPT ![call[t].call.run] = call[t].call.ckpt]
      BY <1>2, <3>3 DEF WriterOK
    <3>6. QED
      BY <1>1, <1>10, <2>2, <3>2, <3>4, <3>5
  <2>3. QED
    BY <2>1, <2>2
<1>11. QED
  BY <1>5, <1>6, <1>7, <1>8, <1>9, <1>10 DEF ThreadStep

AtomicVars == <<Content, Op, ~overlap>>

LEMMA AtomicStep ==
    ASSUME IInv, NEW t \in Threads, ThreadStep(t), IInv', ~overlap'
    PROVE  Atomic!Next \/ AtomicVars' = AtomicVars
<1>0. /\ ~overlap /\ Typed /\ ThreadOK(t) /\ call[t] \in CallRecords
      /\ call[t].call # None => call[t].call \in Calls
  BY WatchKept DEF IInv, Control, Typed, CallRecords
<1>1. ~(Replace(t) /\ tmp # None /\ call[t].call # None) => Content' = Content
  BY ContentMoves
<1>2. ASSUME Content' = Content, NEW c \in CallRecords, Becomes(t, c),
             c.call = call[t].call, c.got = call[t].got,
             c.pc # "done", call[t].pc # "done"
      PROVE  AtomicVars' = AtomicVars
  <2> DEFINE s == IF c.call = None THEN "idle" ELSE IF c.pc = "done" THEN "done" ELSE "called"
  <2>1. OpMoves(t, [state |-> s, call |-> c.call, got |-> c.got])
    BY <1>0, <1>2, BecomesMoves
  <2>2. Op[t] = [state |-> s, call |-> c.call, got |-> c.got]
    BY <1>2 DEF Op, State
  <2>3. Op' = Op
    BY <2>1, <2>2 DEF OpMoves, Op
  <2>4. QED
    BY <1>0, <1>2, <2>3 DEF AtomicVars
<1>3. ASSUME Content' = Content, Becomes(t, Idle)
      PROVE  Atomic!Next
  BY <1>0, <1>3, AbandonOne DEF Atomic!Next
<1>4. CASE Construct(t)
  <2>1. CASE path # None
    <3>1. call' = call /\ Content' = Content
      BY <1>1, <1>4, <2>1 DEF Construct, Replace, Idle
    <3>2. QED
      BY <1>0, <3>1 DEF AtomicVars, Op, State
  <2>2. CASE path = None
    <3>1. Becomes(t, [call[t] EXCEPT !.pc = "open"])
          /\ [call[t] EXCEPT !.pc = "open"] \in CallRecords
      BY <1>0, <1>4, <2>2, GoBecomes DEF Construct, Pcs, WritingPcs
    <3>2. call[t].pc = "idle"
      BY <1>4 DEF Construct, Idle
    <3>3. Content' = Content
      BY <1>1, <3>2 DEF Replace
    <3>4. QED
      BY <1>0, <1>2, <3>1, <3>2, <3>3 DEF CallRecords
  <2>3. QED
    BY <2>1, <2>2
<1>5. CASE \E c \in Calls : Call(t, c)
  <2>1. PICK c \in Calls : Call(t, c)
    BY <1>5
  <2> DEFINE r == [Idle EXCEPT !.pc = "lock", !.call = c]
             o == [state |-> "called", call |-> c, got |-> None]
  <2>2. Becomes(t, r) /\ r \in CallRecords /\ call[t].pc = "idle"
    BY <1>0, <2>1, CallBecomes DEF Call
  <2>3. r.pc = "lock" /\ r.call = c /\ r.got = None /\ c # None
    BY NoneAssumption DEF Idle
  <2> HIDE DEF r
  <2>4. OpMoves(t, o)
    BY <1>0, <2>2, <2>3, BecomesMoves
  <2>5. Content' = Content
    BY <1>1, <2>2 DEF Replace
  <2>6. Op[t].state = "idle"
    BY <1>0, <2>2 DEF Op, State, ThreadOK, Idle
  <2>7. Atomic!Call(t)
    BY <2>1, <2>4, <2>5, <2>6 DEF Atomic!Call, Atomic!Calls, Calls, OpMoves, Op, Content
  <2>8. QED
    BY <1>0, <2>7 DEF Atomic!Next
<1>6. CASE Lock(t)
  <2> DEFINE c == [call[t] EXCEPT !.pc = "read"]
  <2>1. Becomes(t, c) /\ c \in CallRecords /\ call[t].pc = "lock"
    BY <1>0, <1>6, GoBecomes DEF Lock, Pcs
  <2>2. c.pc = "read" /\ c.call = call[t].call /\ c.got = call[t].got
    BY <1>0 DEF CallRecords
  <2>3. Content' = Content
    BY <1>1, <2>1 DEF Replace
  <2> HIDE DEF c
  <2>4. QED
    BY <1>2, <2>1, <2>2, <2>3
<1>7. CASE Read(t)
  <2>1. call[t].pc = "read" /\ call[t].call # None /\ Op[t].state = "called"
    BY <1>0, <1>7 DEF Read, ThreadOK, Writing, Op, State
  <2>2. Content' = Content
    BY <1>1, <2>1 DEF Replace
  <2>3. Content = Stored
    BY <1>0, ReadableStored
  <2>4. ASSUME NEW m \in Maps, Becomes(t, [call[t] EXCEPT !.pc = "open", !.map = m])
        PROVE  AtomicVars' = AtomicVars
    <3> DEFINE c == [call[t] EXCEPT !.pc = "open", !.map = m]
    <3>1. c \in CallRecords /\ c.pc = "open" /\ c.call = call[t].call /\ c.got = call[t].got
      BY <1>0 DEF CallRecords, Pcs, WritingPcs
    <3> HIDE DEF c
    <3>2. QED
      BY <1>2, <2>1, <2>2, <2>4, <3>1 DEF c
  <2>5. ASSUME NEW g \in Checkpoints \cup {None} \cup Maps,
               call[t].call.kind # "save",
               g = IF call[t].call.kind = "load" THEN Stored[call[t].call.run] ELSE Stored,
               Becomes(t, [call[t] EXCEPT !.pc = "done", !.got = g])
        PROVE  Atomic!Next
    <3> DEFINE c == [call[t] EXCEPT !.pc = "done", !.got = g]
    <3>1. c \in CallRecords /\ c.pc = "done" /\ c.call = call[t].call /\ c.got = g
      BY <1>0 DEF CallRecords, Pcs
    <3> HIDE DEF c
    <3>2. OpMoves(t, [state |-> "done", call |-> call[t].call, got |-> g])
      BY <1>0, <2>1, <2>5, <3>1, BecomesMoves DEF c
    <3>3. Op[t] = [state |-> "called", call |-> call[t].call, got |-> call[t].got]
      BY <2>1 DEF Op, State
    <3>4. Op' = [Op EXCEPT ![t].state = "done", ![t].got = g]
      BY <3>2, <3>3 DEF OpMoves, Op
    <3>5. Op[t].call = call[t].call
      BY <3>3
    <3>6. Atomic!Effect(t)
      BY <2>1, <2>2, <2>3, <2>5, <3>4, <3>5 DEF Atomic!Effect, Op, Content
    <3>7. QED
      BY <1>0, <3>6 DEF Atomic!Next
  <2>6. QED
    BY <1>0, <1>3, <1>7, <2>1, <2>2, <2>4, <2>5, ReadBecomes
<1>8. CASE OpenTmp(t)
  <2>1. call[t].pc = "open"
    BY <1>8 DEF OpenTmp
  <2>2. \A u \in Threads : call[u] \in CallRecords
    BY <1>0 DEF Typed
  <2>3. \A u \in Threads :
           /\ call'[u].call = call[u].call /\ call'[u].got = call[u].got
           /\ call'[u].pc = "done" <=> call[u].pc = "done"
    <3>1. PICK i \in Inodes :
              /\ IF tmp = None THEN i \in Free ELSE i = tmp
              /\ tmp' = i /\ data' = [data EXCEPT ![i] = Nothing]
              /\ call' \in [Threads -> CallRecords]
              /\ \E b \in BOOLEAN :
                    /\ call'[t] = [call[t] EXCEPT !.pc = "dump", !.fd = i, !.mixed = b]
                    /\ b => \E u \in Threads : call[u].fd = i
              /\ \A u \in Threads \ {t} :
                    IF call[u].fd = i THEN call'[u] = [call[u] EXCEPT !.mixed = TRUE]
                                      ELSE call'[u] = call[u]
      BY <1>0, <1>8, OpenTmpMoves
    <3>2. PICK b \in BOOLEAN :
              call'[t] = [call[t] EXCEPT !.pc = "dump", !.fd = i, !.mixed = b]
      BY <3>1
    <3>3. call'[t].call = call[t].call /\ call'[t].got = call[t].got /\ call'[t].pc = "dump"
      BY <2>2, <3>2 DEF CallRecords
    <3>4. \A u \in Threads \ {t} : /\ call'[u].call = call[u].call
                                   /\ call'[u].got = call[u].got
                                   /\ call'[u].pc = call[u].pc
      BY <2>2, <3>1 DEF CallRecords
    <3>5. QED
      BY <2>1, <3>3, <3>4
  <2>4. Op' = Op
    BY <2>3 DEF Op, State
  <2>5. QED
    BY <1>0, <1>1, <2>1, <2>4 DEF AtomicVars, Replace
<1>9. CASE Dump(t)
  <2> DEFINE c == [call[t] EXCEPT !.pc = "close"]
  <2>1. Becomes(t, c) /\ c \in CallRecords /\ call[t].pc = "dump"
    BY <1>0, <1>9, GoBecomes DEF Dump, Pcs, WritingPcs
  <2>2. c.pc = "close" /\ c.call = call[t].call /\ c.got = call[t].got
    BY <1>0 DEF CallRecords
  <2>3. Content' = Content
    BY <1>1, <2>1 DEF Replace
  <2> HIDE DEF c
  <2>4. QED
    BY <1>2, <2>1, <2>2, <2>3
<1>10. CASE DumpFails(t)
  <2>1. Becomes(t, Idle) /\ call[t].pc = "close"
    BY <1>0, <1>10, RaiseBecomes DEF DumpFails
  <2>2. QED
    BY <1>1, <1>3, <2>1 DEF Replace
<1>11. CASE Close(t)
  <2> DEFINE c == [call[t] EXCEPT !.pc = "replace", !.fd = None]
  <2>1. Becomes(t, c) /\ c \in CallRecords /\ call[t].pc = "close"
    BY <1>0, <1>11, CloseBecomes DEF Close
  <2>2. c.pc = "replace" /\ c.call = call[t].call /\ c.got = call[t].got
    BY <1>0 DEF CallRecords
  <2>3. Content' = Content
    BY <1>1, <2>1 DEF Replace
  <2> HIDE DEF c
  <2>4. QED
    BY <1>2, <2>1, <2>2, <2>3
<1>12. CASE Replace(t)
  <2>0. call[t].pc = "replace"
    BY <1>12 DEF Replace
  <2>1. CASE tmp = None
    <3>1. Becomes(t, Idle)
      BY <1>0, <1>12, <2>1, RaiseBecomes DEF Replace
    <3>2. QED
      BY <1>1, <1>3, <2>1, <3>1
  <2>2. CASE tmp # None /\ call[t].call = None
    <3>1. Becomes(t, Idle)
      BY <1>12, <2>2 DEF Replace, Becomes
    <3>2. QED
      BY <1>1, <1>3, <2>2, <3>1
  <2>3. CASE tmp # None /\ call[t].call # None
    <3> DEFINE c == [call[t] EXCEPT !.pc = "done"]
    <3>1. Becomes(t, c) /\ c \in CallRecords
      BY <1>0, <1>12, <2>3, GoBecomes DEF Replace, Pcs
    <3>2. c.pc = "done" /\ c.call = call[t].call /\ c.got = call[t].got
      BY <1>0 DEF CallRecords
    <3> HIDE DEF c
    <3>3. OpMoves(t, [state |-> "done", call |-> call[t].call, got |-> call[t].got])
      BY <1>0, <2>3, <3>1, <3>2, BecomesMoves
    <3>4. Op[t] = [state |-> "called", call |-> call[t].call, got |-> call[t].got]
      BY <2>0, <2>3 DEF Op, State
    <3>5. Op' = [Op EXCEPT ![t].state = "done"]
      BY <3>3, <3>4 DEF OpMoves, Op
    <3>6. Content' = [Content EXCEPT ![call[t].call.run] = call[t].call.ckpt]
      BY <1>12, <2>3, ContentMoves
    <3>7. call[t].call.kind = "save"
      BY <1>0, <2>0, <2>3 DEF ThreadOK, Writing
    <3>8. Op[t].state = "called" /\ Op[t].call = call[t].call
      BY <3>4
    <3>9. Atomic!Effect(t)
      BY <3>5, <3>6, <3>7, <3>8 DEF Atomic!Effect, Op, Content
    <3>10. QED
      BY <1>0, <3>9 DEF Atomic!Next
  <2>4. QED
    BY <2>1, <2>2, <2>3
<1>13. CASE Return(t)
  <2>1. Becomes(t, Idle) /\ call[t].pc = "done"
    BY <1>0, <1>13, RaiseBecomes DEF Return
  <2>2. QED
    BY <1>1, <1>3, <2>1 DEF Replace
<1>14. QED
  BY <1>4, <1>5, <1>6, <1>7, <1>8, <1>9, <1>10, <1>11, <1>12, <1>13 DEF ThreadStep

LEMMA AtomicCrash ==
    ASSUME IInv, NEW o \in Objects, Crash(o), IInv', ~overlap'
    PROVE  Atomic!Next
<1>0. ~overlap /\ Control'
  BY DEF Crash, IInv
<1>1. Stored' = Stored
  <2>1. path # None => Stored' = Stored
    BY <1>0, FilesCrash
  <2>2. QED
    BY <2>1 DEF Crash, Stored
<1>2. Content' = Content
  BY <1>0, <1>1, ReadableStored DEF IInv, Files, Readable, Part, Content
<1> DEFINE gone == {t \in Threads : ObjectOf[t] = o}
<1>3. \A t \in Threads : call'[t] = IF t \in gone THEN Idle ELSE call[t]
  BY DEF Crash
<1>4. \A t \in Threads : Op'[t] = IF t \in gone THEN Atomic!NoOp ELSE Op[t]
  BY <1>3 DEF Op, State, Idle, Atomic!NoOp
<1>5. Op' = [t \in Threads |-> IF t \in gone THEN Atomic!NoOp ELSE Op[t]]
  BY <1>4 DEF Op
<1>6. Atomic!Abandon
  BY <1>2, <1>5 DEF Atomic!Abandon, Op, Content
<1>7. QED
  BY <1>0, <1>6 DEF Atomic!Next

(* As long as no two objects write at once, every call of every thread     *)
(* takes effect in one moment: the file store implements CheckpointMap.    *)
THEOREM StoreIsAtomic == Spec => AtomicCalls
<1>1. IInv /\ IInv' /\ [Next]_vars => [Atomic!Next]_(Atomic!vars)
  <2> SUFFICES ASSUME IInv, IInv', [Next]_vars
               PROVE  Atomic!Next \/ AtomicVars' = AtomicVars
    BY DEF AtomicVars, Atomic!vars, Op, Content
  <2>1. CASE UNCHANGED vars
    BY <2>1 DEF vars, AtomicVars, Op, Content, State, Stored, Readable
  <2>2. CASE overlap'
    BY <2>2 DEF Atomic!Next
  <2>3. QED
    BY <2>1, <2>2, AtomicStep, AtomicCrash DEF Next
<1>2. QED
  BY <1>1, AtomicInit, StoreInvariant, PTL DEF Spec, AtomicCalls, Atomic!Spec
=============================================================================
