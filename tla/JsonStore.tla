----------------------------- MODULE JsonStore -----------------------------
(***************************************************************************)
(* JsonCheckpointStore of src/harness/checkpoint.py at the level of its    *)
(* files: store objects with a lock each on one path, a temporary file     *)
(* they all name alike, and os.replace.                                    *)
(*                                                                         *)
(* A name refers to an inode or to none; a file that is open keeps its     *)
(* inode whatever happens to the name.  Files hold the JSON of a whole     *)
(* map, a part of one, or nothing; a file with nothing in it reads as {}.  *)
(***************************************************************************)
EXTENDS Naturals, FiniteSets

CONSTANTS
    Objects,       \* JsonCheckpointStore objects on the path, one per process
    Threads,       \* their threads
    ObjectOf,      \* ObjectOf[t]: the object thread t calls
    Runs,
    Checkpoints,
    Inodes,        \* bound: as many as names and writers can hold
    None

ASSUME StoreAssumption ==
    /\ ObjectOf \in [Threads -> Objects]
    /\ Cardinality(Inodes) >= 2 + Cardinality(Objects)

Maps == [Runs -> Checkpoints \cup {None}]
EmptyMap == [r \in Runs |-> None]

Whole(map) == [is |-> "whole", map |-> map]
Part == [is |-> "part", map |-> EmptyMap]
Nothing == [is |-> "nothing", map |-> EmptyMap]
Contents == {Whole(map) : map \in Maps} \cup {Part, Nothing}

Calls ==
    [kind : {"save"}, run : Runs, ckpt : Checkpoints]
        \cup [kind : {"load"}, run : Runs] \cup [kind : {"list_runs"}]

ASSUME NoneAssumption == None \notin Inodes \cup Threads \cup Calls

VARIABLES
    path,      \* the inode of the store's file, or None
    tmp,       \* the inode of <path>.tmp, or None
    data,      \* data[i]: what inode i holds
    ready,     \* objects whose constructor has finished
    lock,      \* lock[o]: the thread that holds the _lock of o, or None
    call,      \* call[t]: thread t inside the store
    overlap    \* history: did two objects ever write at once?

vars == <<path, tmp, data, ready, lock, call, overlap>>

(* fd: the inode of the temporary file thread t has open; mixed: somebody  *)
(* else had it open too.                                                   *)
Idle == [pc |-> "idle", call |-> None, map |-> EmptyMap, fd |-> None,
         mixed |-> FALSE, got |-> None]

Init ==
    /\ path \in {None} \cup Inodes /\ tmp \in {None} \cup Inodes
    /\ path = tmp => path = None
    /\ data \in [Inodes -> Contents]
    /\ \A i \in Inodes : i \notin {path, tmp} => data[i] = Nothing
    /\ path # None => data[path].is = "whole"
    /\ tmp # None => data[tmp] = Part
    /\ ready = {}
    /\ lock = [o \in Objects |-> None]
    /\ call = [t \in Threads |-> Idle]
    /\ overlap = FALSE

(* Between reading the map and putting it back.                            *)
Writing(t) == call[t].pc \in {"open", "dump", "close", "replace"}

Go(t, pc) == call' = [call EXCEPT ![t].pc = pc]

(* An inode that no name and no open file refers to any more is gone.      *)
Keep(d) ==
    data' = [i \in Inodes |->
                IF i \in {path', tmp'} \cup {call'[u].fd : u \in Threads}
                THEN d[i] ELSE Nothing]

(* Mark it when two objects are in that window together.                   *)
Watch ==
    overlap' = (overlap \/ \E t, u \in Threads :
                    ObjectOf[t] # ObjectOf[u] /\ Writing(t)' /\ Writing(u)')

-----------------------------------------------------------------------------
(* __init__, in a thread of the object, before it has any other: no lock.  *)
Construct(t) ==
    /\ ObjectOf[t] \notin ready
    /\ \A u \in Threads : ObjectOf[u] = ObjectOf[t] => call[u] = Idle
    /\ IF path # None
       THEN ready' = ready \cup {ObjectOf[t]} /\ UNCHANGED call
       ELSE Go(t, "open") /\ UNCHANGED ready
    /\ Watch
    /\ UNCHANGED <<path, tmp, data, lock>>

(* load, save and list_runs begin.                                         *)
Call(t, c) ==
    /\ ObjectOf[t] \in ready /\ call[t].pc = "idle"
    /\ call' = [call EXCEPT ![t] = [Idle EXCEPT !.pc = "lock", !.call = c]]
    /\ UNCHANGED <<path, tmp, data, ready, lock, overlap>>

(* Mutant: the lock is there but nobody waits for it.                      *)
LockAnyway(t) ==
    /\ call[t].pc = "lock"
    /\ lock' = [lock EXCEPT ![ObjectOf[t]] = t]
    /\ Go(t, "read")
    /\ UNCHANGED <<path, tmp, data, ready, overlap>>

Lock(t) ==
    /\ call[t].pc = "lock"
    /\ lock[ObjectOf[t]] = None
    /\ lock' = [lock EXCEPT ![ObjectOf[t]] = t]
    /\ Go(t, "read")
    /\ UNCHANGED <<path, tmp, data, ready, overlap>>

Unlocked(t) ==
    [lock EXCEPT ![ObjectOf[t]] = IF @ = t THEN None ELSE @]

(* Mutant: an exception leaves the lock as it is.                          *)
RaiseLocked(t) ==
    /\ call' = [call EXCEPT ![t] = Idle]
    /\ UNCHANGED lock

(* The exception leaves the with block: the lock is released.              *)
Raise(t) ==
    /\ call' = [call EXCEPT ![t] = Idle]
    /\ lock' = Unlocked(t)

(* _read_all.                                                              *)
Readable == path = None \/ data[path] # Part

Stored ==
    IF path = None THEN EmptyMap ELSE data[path].map

Read(t) ==
    /\ call[t].pc = "read"
    /\ IF Readable
       THEN /\ LET c == call[t].call
               IN  IF c.kind = "save"
                   THEN call' = [call EXCEPT ![t].pc = "open",
                                     ![t].map = [Stored EXCEPT ![c.run] = c.ckpt]]
                   ELSE call' = [call EXCEPT ![t].pc = "done", ![t].got =
                                     IF c.kind = "load" THEN Stored[c.run] ELSE Stored]
            /\ UNCHANGED lock
       ELSE Raise(t)
    /\ Watch
    /\ UNCHANGED <<path, tmp, data, ready>>

-----------------------------------------------------------------------------
(* _write_all.                                                             *)

Free == Inodes \ ({path, tmp} \cup {call[u].fd : u \in Threads})

(* Mutant: the store's own file is opened, not a temporary one.            *)
OpenInPlace(t) ==
    /\ call[t].pc = "open"
    /\ \E i \in IF path = None THEN Free ELSE {path} :
          /\ path' = i /\ tmp' = i
          /\ data' = [data EXCEPT ![i] = Nothing]
          /\ call' = [call EXCEPT ![t].pc = "dump", ![t].fd = i]
    /\ Watch
    /\ UNCHANGED <<ready, lock>>

(* open(tmp, "w") makes the file or truncates the one that is there.       *)
OpenTmp(t) ==
    /\ call[t].pc = "open"
    /\ \E i \in IF tmp = None THEN Free ELSE {tmp} :
          LET sharers == {u \in Threads : call[u].fd = i}
          IN  /\ tmp' = i
              /\ data' = [data EXCEPT ![i] = Nothing]
              /\ call' = [u \in Threads |->
                     IF u = t THEN [call[t] EXCEPT !.pc = "dump", !.fd = i,
                                                   !.mixed = sharers # {}]
                     ELSE IF u \in sharers THEN [call[u] EXCEPT !.mixed = TRUE]
                     ELSE call[u]]
    /\ Watch
    /\ UNCHANGED <<path, ready, lock>>

(* json.dump has written a part of the map.                                *)
Dump(t) ==
    /\ call[t].pc = "dump"
    /\ data' = [data EXCEPT ![call[t].fd] = Part]
    /\ Go(t, "close")
    /\ Watch
    /\ UNCHANGED <<path, tmp, ready, lock>>

(* A value that cannot be dumped, or a full disk.                          *)
DumpFails(t) ==
    /\ call[t].pc = "close"
    /\ Raise(t)
    /\ Watch
    /\ UNCHANGED <<path, tmp, ready>>
    /\ Keep(data)

(* The rest of it, over what another writer may have put there.            *)
Close(t) ==
    /\ call[t].pc = "close"
    /\ call' = [call EXCEPT ![t].pc = "replace", ![t].fd = None]
    /\ Watch
    /\ UNCHANGED <<path, tmp, ready, lock>>
    /\ \E d \in {Whole(call[t].map)} \cup (IF call[t].mixed THEN {Part} ELSE {}) :
          Keep([data EXCEPT ![call[t].fd] = d])

(* os.replace, which raises when another writer has moved the file away.   *)
(* A save has only to release its lock then; __init__ is finished.         *)
Replace(t) ==
    /\ call[t].pc = "replace"
    /\ IF tmp = None
       THEN Raise(t) /\ UNCHANGED <<path, tmp, ready>>
       ELSE /\ path' = tmp /\ tmp' = None
            /\ IF call[t].call = None
               THEN /\ ready' = ready \cup {ObjectOf[t]}
                    /\ call' = [call EXCEPT ![t] = Idle]
               ELSE Go(t, "done") /\ UNCHANGED ready
            /\ UNCHANGED lock
    /\ Watch
    /\ Keep(data)

Return(t) ==
    /\ call[t].pc = "done"
    /\ Raise(t)
    /\ UNCHANGED <<path, tmp, data, ready, overlap>>

-----------------------------------------------------------------------------
(* The process of an object dies at any point: its memory, locks and open  *)
(* files are gone, what it wrote is not.  Another may be built.            *)
Crash(o) ==
    /\ ready' = ready \ {o}
    /\ lock' = [lock EXCEPT ![o] = None]
    /\ call' = [t \in Threads |-> IF ObjectOf[t] = o THEN Idle ELSE call[t]]
    /\ UNCHANGED <<path, tmp, overlap>>
    /\ Keep(data)

ThreadStep(t) ==
    \/ Construct(t) \/ Lock(t) \/ Read(t)
    \/ OpenTmp(t) \/ Dump(t) \/ DumpFails(t) \/ Close(t) \/ Replace(t)
    \/ Return(t)
    \/ \E c \in Calls : Call(t, c)

Next == (\E t \in Threads : ThreadStep(t)) \/ \E o \in Objects : Crash(o)

Spec == Init /\ [][Next]_vars

-----------------------------------------------------------------------------
TypeOK ==
    /\ path \in Inodes \cup {None} /\ tmp \in Inodes \cup {None}
    /\ data \in [Inodes -> Contents]
    /\ ready \subseteq Objects
    /\ lock \in [Objects -> Threads \cup {None}]
    /\ \A t \in Threads :
          /\ call[t].pc \in {"dump", "close"} <=> call[t].fd \in Inodes
          /\ call[t].pc # "idle" /\ call[t].call # None
                => ObjectOf[t] \in ready
    /\ \A o \in Objects :
          lock[o] # None => /\ ObjectOf[lock[o]] = o
                            /\ call[lock[o]].pc \notin {"idle", "lock"}
    /\ overlap \in BOOLEAN

(* "Writes are atomic (temp file + os.replace) so a crash mid-write cannot *)
(* corrupt the store": whatever dies at whatever point, what the next      *)
(* object reads is a whole map, and the file never becomes empty; unless   *)
(* two objects were writing at once.                                       *)
CrashKeepsStoreWhole == ~overlap /\ path # None => data[path].is = "whole"

State(t) ==
    IF call[t].call = None THEN "idle"
    ELSE IF call[t].pc = "done" THEN "done" ELSE "called"

(* As long as no two objects write at once, every call takes effect in one *)
(* moment, with its whole effect and on top of every call before it, and   *)
(* not at all if it raises: no save is lost and none comes back.           *)
Atomic ==
    INSTANCE CheckpointMap WITH
        content <- IF Readable THEN Stored ELSE EmptyMap,
        op      <- [t \in Threads |->
                       [state |-> State(t), call |-> call[t].call, got |-> call[t].got]],
        apart   <- ~overlap

AtomicCalls == Atomic!Spec
=============================================================================
