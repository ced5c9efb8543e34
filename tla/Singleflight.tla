----------------------------- MODULE Singleflight -----------------------------
(***************************************************************************)
(* internal/cache/singleflight.go over the LRU cache, with the fetch       *)
(* closure domain/router.go gives it (originFetch).                        *)
(*                                                                         *)
(* A request is a goroutine in GetOrFetch; its cache calls are those of    *)
(* LRUCache and a step there is a step of the request.  singleflight.Group *)
(* is the library's: one flight per key, its result handed to all waiters  *)
(* in the critical section that ends it.                                   *)
(***************************************************************************)
EXTENDS LRUCache

ASSUME CallerAssumption == None \notin Callers

VARIABLES
    group,   \* the caller leading the flight of each key, None when there is none
    task     \* where each caller is inside GetOrFetch, and the result it holds

sfvars == <<vars, group, task>>

Leading == {"check", "body", "store"}
Active == Leading \cup {"fast", "wait"}
NoTask == [at |-> "idle", key |-> None, body |-> None, meta |-> None]
Task == [at : {"idle", "done", "failed"} \cup Active, key : Keys \cup {None},
         body : Nat \cup {None}, meta : Meta \cup {None}]

SFInit ==
    /\ Init
    /\ group = [k \in Keys |-> None]
    /\ task = [c \in Callers |-> NoTask]

-----------------------------------------------------------------------------
In(c, at) == task[c].at = at
Free(c) == task[c].at \notin Active /\ Ready(c)
TaskRec(at, k, b, m) == [at |-> at, key |-> k, body |-> b, meta |-> m]
Put(c, at, k, b, m) == task' = [task EXCEPT ![c] = TaskRec(at, k, b, m)]

\* The caller has taken the result of its cache call.
Take(c) == call' = [call EXCEPT ![c] = Idle] /\ UNCHANGED <<index, disk, now>>

\* Mutants: a failed flight keeps its key; the waiters of a flight are forgotten.
LandLocked(c, at, b, m) ==
    LET k == task[c].key IN
    /\ task' = [d \in Callers |->
                  IF d = c \/ (In(d, "wait") /\ task[d].key = k) THEN TaskRec(at, k, b, m) ELSE task[d]]
    /\ group' = IF at = "failed" THEN group ELSE [group EXCEPT ![k] = None]
LandForgetting(c, at, b, m) ==
    Put(c, at, task[c].key, b, m) /\ group' = [group EXCEPT ![task[c].key] = None]

\* The flight of the leader's key ends: leader and waiters get one outcome, and the key is free again.
Land(c, at, b, m) ==
    LET k == task[c].key IN
    /\ task' = [d \in Callers |->
                  IF d = c \/ (In(d, "wait") /\ task[d].key = k) THEN TaskRec(at, k, b, m) ELSE task[d]]
    /\ group' = [group EXCEPT ![k] = None]

\* GetOrFetch opens with a Get.
Request(c, k) ==
    /\ Free(c)
    /\ GetLookup(c, k)
    /\ Put(c, "fast", k, None, None)
    /\ UNCHANGED group

FastHit(c) ==
    /\ In(c, "fast") /\ At(c, "get.hit")
    /\ Put(c, "done", task[c].key, call[c].body, call[c].meta)
    /\ Take(c) /\ UNCHANGED <<bodies, group>>

\* group.Do: wait for the flight that is under way, or lead one.
Join(c) ==
    /\ In(c, "fast") /\ At(c, "get.miss") /\ group[task[c].key] # None
    /\ Put(c, "wait", task[c].key, None, None)
    /\ Take(c) /\ UNCHANGED <<bodies, group>>

\* Mutant: a miss goes to the origin without asking the group.
LeadAlways(c) ==
    /\ In(c, "fast") /\ At(c, "get.miss")
    /\ group' = [group EXCEPT ![task[c].key] = c]
    /\ Put(c, "check", task[c].key, None, None)
    /\ Take(c) /\ UNCHANGED bodies

Lead(c) ==
    /\ In(c, "fast") /\ At(c, "get.miss") /\ group[task[c].key] = None
    /\ group' = [group EXCEPT ![task[c].key] = c]
    /\ Put(c, "check", task[c].key, None, None)
    /\ Take(c) /\ UNCHANGED bodies

\* Mutant: the leader relies on the miss it had before it led.
DoubleCheckSkipped(c) ==
    /\ In(c, "check") /\ At(c, "idle")
    /\ Enter(c, "get.miss", task[c].key, None)
    /\ UNCHANGED <<index, disk, now, bodies, group, task>>

\* The leader looks again: the flight before it may have stored the key.
DoubleCheck(c) ==
    /\ In(c, "check") /\ At(c, "idle")
    /\ GetLookup(c, task[c].key)
    /\ UNCHANGED <<group, task>>

\* It read the whole file, or reading it failed, which fails the flight.
CheckHit(c) ==
    /\ In(c, "check") /\ At(c, "get.hit")
    /\ \/ Land(c, "done", call[c].body, call[c].meta)
       \/ StorageFaults /\ Land(c, "failed", None, None)
    /\ Take(c) /\ UNCHANGED bodies

\* originFetch pulls: from here on the content of the answer is fixed, though not yet read.
Pull(c) ==
    /\ In(c, "check") /\ At(c, "get.miss")
    /\ bodies < MaxBodies /\ bodies' = bodies + 1
    /\ Put(c, "body", task[c].key, bodies', None)
    /\ Take(c) /\ UNCHANGED group

\* No origin answered before the retries and the timeout were used up.
PullFails(c) ==
    /\ In(c, "check") /\ At(c, "get.miss")
    /\ Land(c, "failed", None, None)
    /\ Take(c) /\ UNCHANGED bodies

\* Mutant: the result is built without its metadata.
StoreWithoutMeta(c) ==
    /\ In(c, "body")
    /\ \E ttl \in TTLs :
          /\ SetContent(c, task[c].key, [body |-> task[c].body, at |-> now, ttl |-> ttl])
          /\ Put(c, "store", task[c].key, task[c].body, None)
    /\ UNCHANGED <<bodies, group>>

\* The body has arrived: WrittenAt is stamped only now, and Set starts.
Store(c) ==
    /\ In(c, "body")
    /\ \E ttl \in TTLs :
          LET m == [body |-> task[c].body, at |-> now, ttl |-> ttl] IN
          /\ SetContent(c, task[c].key, m)
          /\ Put(c, "store", task[c].key, task[c].body, m)
    /\ UNCHANGED <<bodies, group>>

BodyFails(c) ==
    /\ In(c, "body")
    /\ Land(c, "failed", None, None)
    /\ UNCHANGED vars

\* The body is returned whether or not Set succeeded.
Stored(c) ==
    /\ In(c, "store") /\ (At(c, "set.ok") \/ At(c, "set.err"))
    /\ Land(c, "done", task[c].body, task[c].meta)
    /\ Take(c) /\ UNCHANGED bodies

\* Delete, as the flush check and the admin handlers call it.
Delete(c, k) ==
    /\ Free(c)
    /\ DeleteIndex(c, k)
    /\ task' = [task EXCEPT ![c] = NoTask]
    /\ UNCHANGED group

CacheStep(c) == CallStep(c) /\ UNCHANGED <<group, task>>

FetchStep(c) ==
    \/ CacheStep(c)
    \/ FastHit(c) \/ Join(c) \/ Lead(c) \/ DoubleCheck(c) \/ CheckHit(c)
    \/ Pull(c) \/ PullFails(c) \/ Store(c) \/ BodyFails(c) \/ Stored(c)

SFTick == Tick /\ UNCHANGED <<group, task>>

SFNext ==
    \/ SFTick
    \/ \E c \in Callers : FetchStep(c) \/ \E k \in Keys : Request(c, k) \/ Delete(c, k)

SFSpec == SFInit /\ [][SFNext]_sfvars

\* The scheduler runs every goroutine; origins answer or time out (puller.go 74-78), so Pull or
\* PullFails is always taken in the end, and so is the end of the body.
SFFairSpec == SFSpec /\ \A c \in Callers : WF_sfvars(FetchStep(c))

-----------------------------------------------------------------------------
\* Types, and what a request in each place holds (singleflight.go 10-22).
SFTypeOK ==
    /\ TypeOK
    /\ group \in [Keys -> Callers \cup {None}]
    /\ task \in [Callers -> Task]
    /\ \A c \in Callers :
          /\ task[c].at \in Active => task[c].key \in Keys
          /\ task[c].at \in {"body", "store", "done"} => task[c].body \in Nat
          /\ task[c].at \in {"store", "done"} => task[c].meta \in Meta

\* One flight per key, led by the caller the group knows, and nobody waits for a flight that is over:
\* a lost waiter would hang its client for ever (singleflight.go 42, 73).
FlightsConsistent ==
    /\ \A c \in Callers : \A k \in Keys : group[k] = c <=> task[c].at \in Leading /\ task[c].key = k
    /\ \A c \in Callers : In(c, "wait") => group[task[c].key] \in Callers

\* The leader has missed, and its own Set has not inserted the key yet.
Fetching(c) ==
    \/ In(c, "check") /\ At(c, "get.miss")
    \/ In(c, "body")
    \/ In(c, "store") /\ (At(c, "set.meta") \/ At(c, "set.index"))

\* A key is never pulled while it is cached: the index lacks it from the leader's second miss until
\* the leader's own Set inserts it (the double-check, singleflight.go 43-52, and the claim of 29-31).
NoRedundantPull == \A c \in Callers : Fetching(c) => items[task[c].key] = None

\* The file of a cached key is the one its entry was made for, or is gone: flights of one key run one
\* after the other, so no Set lands between the storage write and the index update of another
\* (cache.go 95-110).
IndexMatchesDisk ==
    \A k \in Keys : items[k] # None => disk[k] \in {None, items[k].body}

\* What clients see of each key: it is fetched from the pull until Set inserts it or the flight ends.
Fetched(k) == \E c \in Callers :
    task[c].key = k /\ (In(c, "body") \/ (In(c, "store") /\ (At(c, "set.meta") \/ At(c, "set.index"))))
Promise == INSTANCE FetchOnce WITH
    Capacity <- MaxItems,
    entry <- [k \in Keys |-> IF Fetched(k) THEN "fetching" ELSE IF items[k] # None THEN "cached" ELSE "absent"]

\* GetOrFetch keeps the promise of FetchOnce: no key is pulled while it is cached or being pulled,
\* and a Set makes room by at most one key (singleflight.go 35-81, cache.go 94-112).
FetchesOnce == Promise!FetchSpec

\* Every GetOrFetch returns: a waiter is not forgotten when its flight lands, nor a key left locked
\* by a flight that failed (singleflight.go 42-79).
EveryRequestEnds == \A c \in Callers : task[c].at \in Active ~> task[c].at \notin Active

\* "Get returns the stored content and metadata" (cache.go 29): the body and the metadata that a
\* request gets belong together.  Get reads the index, then storage, with nothing held in between.
MetadataOfBody == \A c \in Callers : In(c, "done") => task[c].meta.body = task[c].body
=============================================================================
