------------------------------ MODULE DiskCache -----------------------------
(***************************************************************************)
(* The disk cache before a remote store (internal/store/cache.go): what    *)
(* the backend holds, the cached files, the index with its mutex, and the  *)
(* goroutines of one process that open, put and delete objects.            *)
(*                                                                         *)
(* A version of an object stands for its bytes. One action is one          *)
(* operation of the backend or of the disk, or one critical section. The   *)
(* mutex is only explicit where it is held over several of them (Put).     *)
(*                                                                         *)
(* The backend may fail, and the disk may refuse a new file. Left out: a   *)
(* disk that does not open or remove a file that is there, or loses what   *)
(* it has written; temporary files that a crash leaves; List; and a second *)
(* process on the same backend. A definition that nothing uses is the slip *)
(* that the one after it avoids.                                           *)
(***************************************************************************)
EXTENDS Integers, Sequences, FiniteSets, SequencesExt, FiniteSetsExt

CONSTANTS
    Key,        \* numbers: the disk is walked in their order
    Version,    \* the contents that are put
    Bytes,      \* the size of each version
    MaxSize,    \* cache.max_bytes
    Task,       \* goroutines
    MaxCalls,   \* bound: calls made, a restart counting as one
    MaxStarts   \* bound: restarts of the process

ASSUME CacheAssumption ==
    /\ Key \subseteq Nat /\ IsFiniteSet(Key)
    /\ Version \subseteq Nat \ {0} /\ 1 \in Version
    /\ Bytes \in [Version -> Nat] /\ MaxSize \in Nat
    /\ MaxCalls \in Nat /\ MaxStarts \in Nat

VARIABLES
    stored,     \* the backend: the version of a key, or 0
    file,       \* the cached file of a key
    lru,        \* the index: keys, the most recently used first ...
    noted,      \* ... with the size noted for each
    total,      \* c.size
    locked,     \* Put holds the mutex
    tasks,      \* the goroutines: call, key, next step, version put or opened,
                \* size that Stat told, copy in hand
    exited,     \* the process has ended itself
    made, starts,
    tainted,    \* history: keys of which a change met another call or a restart, or
                \* of which a put changed the object and left the copy as it was
    resized     \* history: a size was noted that was not the one before, or not the file's

index == <<lru, noted, total>>
counts == <<made, starts>>
notes == <<tainted, resized>>
cacheVars == <<stored, file, index, locked, tasks, exited, counts, notes>>

NoCopy == [v |-> 0, whole |-> TRUE]
Truncated == [v |-> 0, whole |-> FALSE]
NoTask == [op |-> "none", key |-> 0, step |-> "none", v |-> 0, size |-> 0, copy |-> NoCopy]
Indexed == ToSet(lru)
SizeOf(v) == IF v = 0 THEN 0 ELSE Bytes[v]

-----------------------------------------------------------------------------
(* The index, as a record: a call changes it and the files together.        *)

Index == [lru |-> lru, noted |-> noted, total |-> total, file |-> file, resized |-> resized]
Become(i) ==
    /\ lru' = i.lru /\ noted' = i.noted /\ total' = i.total
    /\ file' = i.file /\ resized' = i.resized
PushedToFront(q, k) == <<k>> \o q
Touched(q, k) == <<k>> \o RemoveFirst(q, k)
Weight(size, S) == MapThenSumSet(LAMBDA k : size[k], S)

\* evictLocked: from the back, until the total fits.
KeepNewest(i) ==
    LET tail(n) == ToSet(SubSeq(i.lru, n + 1, Len(i.lru)))
        n == Max({0} \cup {m \in 1..Len(i.lru) :
                              m = 1 \/ i.total - Weight(i.noted, tail(m)) <= MaxSize})
    IN  [i EXCEPT !.lru = SubSeq(@, 1, n), !.total = @ - Weight(i.noted, tail(n)),
                  !.file = [k \in Key |-> IF k \in tail(n) THEN NoCopy ELSE @[k]]]
Evicted(i) ==
    LET tail(n) == ToSet(SubSeq(i.lru, n + 1, Len(i.lru)))
        n == Max({0} \cup {m \in 1..Len(i.lru) : i.total - Weight(i.noted, tail(m)) <= MaxSize})
    IN  [i EXCEPT !.lru = SubSeq(@, 1, n), !.total = @ - Weight(i.noted, tail(n)),
                  !.file = [k \in Key |-> IF k \in tail(n) THEN NoCopy ELSE @[k]]]

\* insertLocked. A key that is there gets its new size, the total does not.
Inserted(i, k, size) ==
    LET there == k \in ToSet(i.lru)
        was == (IF there THEN {i.noted[k]} ELSE {})
               \cup {SizeOf(v) : v \in {i.file[k].v} \ {0}}
        j == [i EXCEPT !.noted[k] = size, !.resized = @ \/ was \ {size} # {}]
    IN  IF there THEN [j EXCEPT !.lru = Touched(@, k)]
        ELSE Evicted([j EXCEPT !.lru = <<k>> \o @, !.total = @ + size])

\* removeLocked
Removed(i, k) ==
    IF k \in ToSet(i.lru)
    THEN [i EXCEPT !.lru = RemoveFirst(@, k), !.total = @ - i.noted[k]]
    ELSE i

\* rebuildIndex: the files as the walk of the directory meets them. To evict once,
\* when all are inserted, leaves what is left when it is done after each.
Walked(S) ==
    CHOOSE q \in [1..Cardinality(S) -> S] :
        ToSet(q) = S /\ \A m, n \in DOMAIN q : m < n => q[m] > q[n]
Rebuilt ==
    LET found == {k \in Key : file[k] # NoCopy}
        size == [k \in Key |-> IF k \in found THEN SizeOf(file[k].v) ELSE noted[k]]
    IN  Evicted([Index EXCEPT !.lru = Walked(found), !.noted = size,
                              !.total = Weight(size, found)])

CacheInit ==
    /\ stored \in [Key -> {0, 1}]
    /\ file = [k \in Key |-> NoCopy] /\ lru = <<>> /\ noted = [k \in Key |-> 0] /\ total = 0
    /\ locked = FALSE /\ tasks = [t \in Task |-> NoTask] /\ exited = FALSE
    /\ made = 0 /\ starts = 0 /\ tainted = {} /\ resized = FALSE

-----------------------------------------------------------------------------
(* The calls.                                                               *)

Doing(t, op, step) == ~exited /\ tasks[t].op = op /\ tasks[t].step = step
Then(t, step) == tasks' = [tasks EXCEPT ![t].step = step]
Return(t) == tasks' = [tasks EXCEPT ![t] = NoTask]

Changes(t) == tasks[t].op \in {"put", "delete"}

Call(t, op, k, v) ==
    LET meets == \E s \in Task : tasks[s].key = k /\ tasks[s].op # "none"
                                 /\ (Changes(s) \/ op # "open") IN
    /\ ~exited /\ tasks[t] = NoTask /\ made + starts < MaxCalls /\ made' = made + 1
    /\ tasks' = [tasks EXCEPT ![t] = [NoTask EXCEPT !.op = op, !.key = k, !.step = "start", !.v = v]]
    /\ tainted' = IF meets THEN tainted \cup {k} ELSE tainted
    /\ UNCHANGED <<stored, file, index, locked, exited, starts, resized>>

\* Stat of a cached object: only the order changes.
Stat(k) ==
    /\ ~exited /\ ~locked /\ k \in Indexed
    /\ lru' = Touched(lru, k)
    /\ UNCHANGED <<stored, file, noted, total, locked, tasks, exited, counts, notes>>

\* Open: a hit leaves the mutex before it opens the file.
OpenLook(t) ==
    LET k == tasks[t].key IN
    /\ Doing(t, "open", "start") /\ ~locked
    /\ lru' = IF k \in Indexed THEN Touched(lru, k) ELSE lru
    /\ Then(t, IF k \in Indexed THEN "hit" ELSE "miss")
    /\ UNCHANGED <<stored, file, noted, total, locked, exited, counts, notes>>

OpenHit(t) ==
    /\ Doing(t, "open", "hit")
    /\ IF file[tasks[t].key] # NoCopy THEN Return(t) ELSE Then(t, "drop")
    /\ UNCHANGED <<stored, file, index, locked, exited, counts, notes>>

\* The file is gone: the key is dropped and the mutex unlocked ...
OpenDrop(t) ==
    /\ Doing(t, "open", "drop") /\ ~locked
    /\ Become(Removed(Index, tasks[t].key))
    /\ Then(t, "unlock")
    /\ UNCHANGED <<stored, locked, exited, counts, tainted>>

\* ... and unlocked again: Go ends the process, unless another goroutine has
\* locked it meanwhile, which then is inside without the mutex.
Unlock ==
    /\ locked' = FALSE
    /\ exited' = (exited \/ ~locked)
OpenUnlock(t) ==
    /\ Doing(t, "open", "unlock")
    /\ Unlock
    /\ Then(t, "miss")
    /\ UNCHANGED <<stored, file, index, counts, notes>>

\* The backend is asked for the object, which is read as it is copied. An error
\* of either, or of the disk, leaves the cache as it is.
OpenMiss(t) ==
    LET k == tasks[t].key IN
    /\ Doing(t, "open", "miss")
    /\ \/ Return(t)
       \/ stored[k] # 0 /\ tasks' = [tasks EXCEPT ![t].step = "copy", ![t].v = stored[k]]
    /\ UNCHANGED <<stored, file, index, locked, exited, counts, notes>>
\* The reader fetches by ranges, up to the size it was opened with (s3.go): of a
\* longer object that has come since it gets a part, a shorter one is an error.
Read(t) ==
    LET now == stored[tasks[t].key]   v == tasks[t].v IN
    IF now = 0 \/ SizeOf(now) < SizeOf(v) THEN NoCopy
    ELSE IF SizeOf(now) = SizeOf(v) THEN [v |-> now, whole |-> TRUE]
    ELSE [v |-> v, whole |-> FALSE]
OpenCopy(t) ==
    /\ Doing(t, "open", "copy")
    /\ \/ Return(t)
       \/ /\ Read(t) # NoCopy
          /\ tasks' = [tasks EXCEPT ![t].step = "rename", ![t].copy = Read(t)]
    /\ UNCHANGED <<stored, file, index, locked, exited, counts, notes>>
OpenRename(t) ==
    /\ Doing(t, "open", "rename")
    /\ file' = [file EXCEPT ![tasks[t].key] = tasks[t].copy]
    /\ Then(t, "insert")
    /\ UNCHANGED <<stored, index, locked, exited, counts, notes>>
OpenInsert(t) ==
    /\ Doing(t, "open", "insert") /\ ~locked
    /\ Become(Inserted(Index, tasks[t].key, SizeOf(tasks[t].v)))
    /\ Then(t, "reopen")
    /\ UNCHANGED <<stored, locked, exited, counts, tainted>>
\* The file may have been evicted by now, by its own insertion too: an error.
OpenReopen(t) ==
    /\ Doing(t, "open", "reopen")
    /\ Return(t)
    /\ UNCHANGED <<stored, file, index, locked, exited, counts, notes>>

\* Put: through to the backend, and back from it into the cache.
Skip(t) ==
    LET k == tasks[t].key IN
    /\ Return(t)
    /\ tainted' = IF file[k] = NoCopy THEN tainted ELSE tainted \cup {k}
\* Of a put that the backend answers with an error, or not at all, the object may
\* be there all the same.
PutWrite(t) ==
    /\ Doing(t, "put", "start")
    /\ \/ Return(t) /\ UNCHANGED <<stored, tainted>>
       \/ /\ stored' = [stored EXCEPT ![tasks[t].key] = tasks[t].v]
          /\ (Then(t, "fetch") /\ UNCHANGED tainted) \/ Skip(t)
    /\ UNCHANGED <<file, index, locked, exited, counts, resized>>
\* "cache miss is fine": an error hides, and the copy of the object before stays.
PutFetchMissing(t) ==
    LET k == tasks[t].key IN
    /\ Doing(t, "put", "fetch")
    /\ IF stored[k] = 0 \/ k \in Indexed THEN Return(t)
       ELSE tasks' = [tasks EXCEPT ![t].step = "stat", ![t].v = stored[k]]
    /\ UNCHANGED <<stored, file, index, locked, exited, counts, notes>>
PutFetch(t) ==
    LET k == tasks[t].key IN
    /\ Doing(t, "put", "fetch")
    /\ \/ Skip(t)
       \/ /\ stored[k] # 0
          /\ tasks' = [tasks EXCEPT ![t].step = "stat", ![t].v = stored[k]]
          /\ UNCHANGED tainted
    /\ UNCHANGED <<stored, file, index, locked, exited, counts, resized>>
\* An error of Stat goes unnoticed.
PutStat(t) ==
    /\ Doing(t, "put", "stat")
    /\ \E size \in {SizeOf(stored[tasks[t].key]), 0} :
          tasks' = [tasks EXCEPT ![t].step = "lock", ![t].size = size]
    /\ UNCHANGED <<stored, file, index, locked, exited, counts, notes>>
\* The mutex is taken and the file truncated in place; or there cannot be a file,
\* which hides as above ...
PutLock(t) ==
    /\ Doing(t, "put", "lock") /\ ~locked
    /\ \/ Skip(t) /\ UNCHANGED <<file, locked>>
       \/ /\ locked' = TRUE
          /\ file' = [file EXCEPT ![tasks[t].key] = Truncated]
          /\ Then(t, "fill") /\ UNCHANGED tainted
    /\ UNCHANGED <<stored, index, exited, counts, resized>>
\* ... filled, or removed if it cannot be, and the mutex unlocked.
PutFill(t) ==
    LET k == tasks[t].key
        filled(copy) == [Index EXCEPT !.file[k] = copy]
    IN
    /\ Doing(t, "put", "fill")
    /\ \/ Become(filled(NoCopy))
       \/ Read(t) # NoCopy /\ Become(Inserted(filled(Read(t)), k, tasks[t].size))
    /\ Unlock
    /\ Return(t)
    /\ UNCHANGED <<stored, counts, tainted>>

\* Delete: from the index, the disk and the backend.
DeleteForget(t) ==
    /\ Doing(t, "delete", "start") /\ ~locked
    /\ Become(Removed(Index, tasks[t].key))
    /\ Then(t, "erase")
    /\ UNCHANGED <<stored, locked, exited, counts, tainted>>
DeleteErase(t) ==
    /\ Doing(t, "delete", "erase")
    /\ file' = [file EXCEPT ![tasks[t].key] = NoCopy]
    /\ Then(t, "destroy")
    /\ UNCHANGED <<stored, index, locked, exited, counts, notes>>
DeleteDestroy(t) ==
    /\ Doing(t, "delete", "destroy")
    /\ stored' \in {stored, [stored EXCEPT ![tasks[t].key] = 0]}
    /\ Return(t)
    /\ UNCHANGED <<file, index, locked, exited, counts, notes>>

\* The process starts again, after it has ended or was ended.
Restart ==
    /\ starts < MaxStarts /\ starts' = starts + 1
    /\ Become(Rebuilt)
    /\ tainted' = tainted \cup {tasks[t].key : t \in {s \in Task : Changes(s)}}
    /\ tasks' = [t \in Task |-> NoTask] /\ locked' = FALSE /\ exited' = FALSE
    /\ UNCHANGED <<stored, made>>

OpenStep(t) ==
    \/ OpenLook(t) \/ OpenHit(t) \/ OpenDrop(t) \/ OpenUnlock(t)
    \/ OpenMiss(t) \/ OpenCopy(t) \/ OpenRename(t) \/ OpenInsert(t) \/ OpenReopen(t)
PutStep(t) == PutWrite(t) \/ PutFetch(t) \/ PutStat(t) \/ PutLock(t) \/ PutFill(t)
DeleteStep(t) == DeleteForget(t) \/ DeleteErase(t) \/ DeleteDestroy(t)

CacheNext ==
    \/ \E t \in Task : OpenStep(t) \/ PutStep(t) \/ DeleteStep(t)
    \/ \E t \in Task, k \in Key : \/ Call(t, "open", k, 0) \/ Call(t, "delete", k, 0)
                                  \/ \E v \in Version : Call(t, "put", k, v)
    \/ \E k \in Key : Stat(k)
    \/ Restart

-----------------------------------------------------------------------------
(* Properties.                                                              *)

CacheTypeOK ==
    /\ stored \in [Key -> {0} \cup Version] /\ noted \in [Key -> Nat] /\ total \in Int
    /\ \A k \in Key : file[k].v \in {0} \cup Version
    /\ Indexed \subseteq Key /\ Len(lru) = Cardinality(Indexed)
    /\ made <= MaxCalls /\ starts <= MaxStarts /\ tainted \subseteq Key

Idle == ~exited /\ \A t \in Task : tasks[t] = NoTask

\* When no call is under way, a file that the cache would serve is what the
\* backend holds, whole. Only a key of which a put or a deletion met another call,
\* or a restart, may be stale, torn or deleted (cache.go:121-122), and one of which
\* an error cut a put short between the backend and the copy that was there: the
\* caller is told of that only if it is the backend's (cache.go:130-144).
StaleNeedsOverlap ==
    Idle => \A k \in (Key \cap Indexed) \ tainted :
                file[k] \in {NoCopy, [v |-> stored[k], whole |-> TRUE]}

\* When no call is under way, the files in the cache fit its budget (cache.go:14),
\* as long as no object was replaced by one of another size.
WithinBudget ==
    Idle /\ ~resized => Weight([k \in Key |-> SizeOf(file[k].v)], Key) <= MaxSize

\* "Evicted a.ts must still serve (from backend) and land back in cache"
\* (cache_test.go:54): an open that finds the file of its hit evicted goes on to
\* the backend; it does not end the process, also when nobody changed the object.
EvictedStillServes == tainted = {} => ~exited
=============================================================================
