------------------------------ MODULE LRUCache ------------------------------
(***************************************************************************)
(* internal/cache/cache.go: the LRU index over storage.Storage.            *)
(*                                                                         *)
(* The index (items, lru) is guarded by one mutex; the storage calls run   *)
(* outside it, except the deletions of evictLocked.  An action is          *)
(* therefore one critical section or one storage call, and a goroutine     *)
(* inside Get, Set or Delete is a record in `call`.                        *)
(*                                                                         *)
(* A body is a number, in the order the bodies were made.  A Meta keeps    *)
(* the body it was made for (the code's Size and Headers), WrittenAt and   *)
(* TTL, so that serving the metadata of one body with another is visible.  *)
(***************************************************************************)
EXTENDS Naturals, FiniteSets, SequencesExt

CONSTANTS
    Keys,           \* cache keys
    Callers,        \* goroutines that may be inside the cache at once
    MaxItems,       \* cache.max_items
    TTLs,           \* lifetimes ParseTTL may return
    MaxTime,        \* bound of the clock
    MaxBodies,      \* bound on the bodies ever made
    StorageFaults,  \* whether storage operations may fail
    None

\* Defaults in config.go replaces a max_items of zero.
ASSUME CapacityAssumption == MaxItems \in Nat \ {0}
ASSUME LifetimeAssumption == TTLs \subseteq Nat
ASSUME BoundAssumption == MaxTime \in Nat /\ MaxBodies \in Nat
ASSUME FaultAssumption == StorageFaults \in BOOLEAN
ASSUME NoneAssumption == None \notin Nat /\ None \notin Keys /\ None \notin [body : Nat, at : Nat, ttl : Nat]

VARIABLES
    items,   \* index: the metadata of each key, None when absent
    lru,     \* the list of indexed keys, most recently used first
    disk,    \* storage: the body in each key's content file, None when absent
    call,    \* where each caller is inside the cache
    now,     \* the wall clock
    bodies   \* how many bodies have been made

vars == <<items, lru, disk, call, now, bodies>>
index == <<items, lru>>

Meta == [body : Nat, at : Nat, ttl : Nat]
Expired(m) == now > m.at + m.ttl

Underway == {"get.read", "get.evict", "set.meta", "set.index", "delete.storage"}
Results == {"get.hit", "get.miss", "set.ok", "set.err", "delete.ok", "delete.err", "stat.hit", "stat.miss"}
Idle == [op |-> "idle", key |-> None, meta |-> None, body |-> None]

\* A node starts with an empty index over whatever files an earlier run left (body 0).
Init ==
    /\ items = [k \in Keys |-> None]
    /\ lru = <<>>
    /\ disk \in [Keys -> {0, None}]
    /\ call = [c \in Callers |-> Idle]
    /\ now = 0
    /\ bodies = 0

-----------------------------------------------------------------------------
Ready(c) == call[c].op \notin Underway
At(c, op) == call[c].op = op

Enter(c, op, k, m) == call' = [call EXCEPT ![c] = [op |-> op, key |-> k, meta |-> m, body |-> None]]
Leave(c, op) == Enter(c, op, call[c].key, None)

\* container/list and the map, changed together under the mutex.
Position(k) == CHOOSE i \in 1 .. Len(lru) : lru[i] = k
Without(k) == IF items[k] = None THEN lru ELSE RemoveAt(lru, Position(k))
\* Mutants: removeLocked without lru.Remove; Get and Set without MoveToFront.
UnindexMapOnly(k) == items' = [items EXCEPT ![k] = None] /\ UNCHANGED lru
ToFrontNever(k) == UNCHANGED lru

Unindex(k) == items' = [items EXCEPT ![k] = None] /\ lru' = Without(k)
ToFront(k) == lru' = <<k>> \o Without(k)

\* Get, under the mutex: absent, expired (only the index entry goes, the file stays), or present.
GetLookup(c, k) ==
    /\ Ready(c)
    /\ \/ items[k] = None /\ Enter(c, "get.miss", k, None) /\ UNCHANGED index
       \/ items[k] # None /\ Expired(items[k]) /\ Enter(c, "get.miss", k, None) /\ Unindex(k)
       \/ /\ items[k] # None /\ ~Expired(items[k])
          /\ Enter(c, "get.read", k, items[k])
          /\ ToFront(k) /\ UNCHANGED items
    /\ UNCHANGED <<disk, now, bodies>>

\* storage.Read after the mutex is released: the metadata is the one read before.
GetRead(c) ==
    /\ At(c, "get.read") /\ disk[call[c].key] # None
    /\ call' = [call EXCEPT ![c].op = "get.hit", ![c].body = disk[call[c].key]]
    /\ UNCHANGED <<index, disk, now, bodies>>

\* No file, an I/O error, or a .meta file that a concurrent Write is rewriting.
Unreadable(k) ==
    disk[k] = None \/ StorageFaults \/ \E d \in Callers : At(d, "set.meta") /\ call[d].key = k

GetReadFails(c) ==
    /\ At(c, "get.read") /\ Unreadable(call[c].key)
    /\ Enter(c, "get.evict", call[c].key, None)
    /\ UNCHANGED <<index, disk, now, bodies>>

\* The second critical section removes whatever entry the key has by then.
GetEvict(c) ==
    /\ At(c, "get.evict")
    /\ Unindex(call[c].key) /\ Leave(c, "get.miss")
    /\ UNCHANGED <<disk, now, bodies>>

\* Set writes storage first: the content is renamed into place, then .meta is written.
SetContent(c, k, m) ==
    /\ Ready(c)
    /\ \/ disk' = [disk EXCEPT ![k] = m.body] /\ Enter(c, "set.meta", k, m)
       \/ StorageFaults /\ Enter(c, "set.err", k, None) /\ UNCHANGED disk
    /\ UNCHANGED <<index, now>>

\* Mutant: the metadata does not reach the index.
SetMetaLost(c) ==
    At(c, "set.meta") /\ Enter(c, "set.index", call[c].key, None) /\ UNCHANGED <<index, disk, now, bodies>>

SetMeta(c) ==
    /\ At(c, "set.meta")
    /\ \/ Enter(c, "set.index", call[c].key, call[c].meta) /\ UNCHANGED disk
       \/ /\ StorageFaults   \* writeMeta failed: Write removes the content file
          /\ disk' = [disk EXCEPT ![call[c].key] = None] /\ Leave(c, "set.err")
    /\ UNCHANGED <<index, now, bodies>>

SetUpdate(c) ==
    LET k == call[c].key IN
    /\ At(c, "set.index") /\ items[k] # None
    /\ items' = [items EXCEPT ![k] = call[c].meta]
    /\ ToFront(k) /\ Leave(c, "set.ok")
    /\ UNCHANGED <<disk, now, bodies>>

\* Mutants: evictLocked compares with >=, or lets the list grow by one too many.
KeptLess(list) == IF Len(list) >= MaxItems THEN SubSeq(list, 1, MaxItems - 1) ELSE list
KeptMore(list) == IF Len(list) > MaxItems + 1 THEN SubSeq(list, 1, MaxItems + 1) ELSE list

\* evictLocked takes the tail off while the list is longer than MaxItems.
Kept(list) == IF Len(list) > MaxItems THEN SubSeq(list, 1, MaxItems) ELSE list

\* A new entry goes to the front and the tail is evicted, index entry and, best effort, file, all
\* while the mutex is held.
SetInsert(c) ==
    LET k == call[c].key
        all == <<k>> \o lru
        evicted == {all[i] : i \in Len(Kept(all)) + 1 .. Len(all)}
    IN
    /\ At(c, "set.index") /\ items[k] = None
    /\ lru' = Kept(all)
    /\ items' = [x \in Keys |-> IF x \in evicted THEN None ELSE IF x = k THEN call[c].meta ELSE items[x]]
    /\ \E undeleted \in SUBSET evicted :
          /\ undeleted # {} => StorageFaults
          /\ disk' = [x \in Keys |-> IF x \in evicted \ undeleted THEN None ELSE disk[x]]
    /\ Leave(c, "set.ok")
    /\ UNCHANGED <<now, bodies>>

\* Delete drops the index entry under the mutex, and the file after it.
DeleteIndex(c, k) ==
    /\ Ready(c)
    /\ Unindex(k) /\ Enter(c, "delete.storage", k, None)
    /\ UNCHANGED <<disk, now, bodies>>

DeleteStorage(c) ==
    /\ At(c, "delete.storage")
    /\ \/ disk' = [disk EXCEPT ![call[c].key] = None] /\ Leave(c, "delete.ok")
       \/ StorageFaults /\ Leave(c, "delete.err") /\ UNCHANGED disk
    /\ UNCHANGED <<index, now, bodies>>

\* Stat copies the entry and does not look at its TTL.
Stat(c, k) ==
    /\ Ready(c)
    /\ Enter(c, IF items[k] = None THEN "stat.miss" ELSE "stat.hit", k, items[k])
    /\ UNCHANGED <<index, disk, now, bodies>>

Tick == now < MaxTime /\ now' = now + 1 /\ UNCHANGED <<index, disk, call, bodies>>

\* A caller inside Get, Set or Delete takes its next step.
CallStep(c) ==
    \/ GetRead(c) \/ GetReadFails(c) \/ GetEvict(c)
    \/ SetMeta(c) \/ SetUpdate(c) \/ SetInsert(c)
    \/ DeleteStorage(c)

-----------------------------------------------------------------------------
\* The cache on its own: callers use it in every way its interface allows.
Set(c, k) ==
    /\ bodies < MaxBodies /\ bodies' = bodies + 1
    /\ \E ttl \in TTLs : SetContent(c, k, [body |-> bodies', at |-> now, ttl |-> ttl])

Next ==
    \/ Tick
    \/ \E c \in Callers :
          \/ CallStep(c)
          \/ \E k \in Keys : GetLookup(c, k) \/ Set(c, k) \/ DeleteIndex(c, k) \/ Stat(c, k)

Spec == Init /\ [][Next]_vars

-----------------------------------------------------------------------------
Call == [op : {"idle"} \cup Underway \cup Results, key : Keys \cup {None},
         meta : Meta \cup {None}, body : Nat \cup {None}]

\* Types of the variables; a call under way has a key, and a Set its metadata (cache.go 42-48).
TypeOK ==
    /\ items \in [Keys -> Meta \cup {None}]
    /\ lru \in Seq(Keys)
    /\ disk \in [Keys -> Nat \cup {None}]
    /\ call \in [Callers -> Call]
    /\ now \in Nat /\ bodies \in Nat
    /\ \A c \in Callers :
          /\ call[c].op \in Underway => call[c].key \in Keys
          /\ call[c].op \in {"get.read", "set.meta", "set.index"} => call[c].meta \in Meta

\* The list and the map hold the same keys, each once, and never more than MaxItems between two
\* critical sections (removeLocked, evictLocked and the two branches of Set keep them in step).
IndexConsistent ==
    /\ \A k \in Keys : items[k] # None <=> \E i \in 1 .. Len(lru) : lru[i] = k
    /\ \A i, j \in 1 .. Len(lru) : lru[i] = lru[j] => i = j
    /\ Len(lru) <= MaxItems
=============================================================================
