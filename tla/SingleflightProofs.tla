------------------------- MODULE SingleflightProofs -------------------------
(***************************************************************************)
(* GetOrFetch over the LRU cache, for every set of keys and callers, every *)
(* capacity and failing storage: one flight for each key, no pull of a     *)
(* cached key, no entry over another's body, and what FetchOnce promises.  *)
(***************************************************************************)
EXTENDS Singleflight, LRUCacheProofs, FiniteSetTheorems

Gets == {"get.read", "get.evict", "get.hit", "get.miss"}
Writes == {"set.meta", "set.index"}
Deletes == {"delete.storage", "delete.ok", "delete.err"}

\* What a caller in each place of GetOrFetch holds, and which cache call it is in (outside, a Delete, or a
\* Stat of the request handler).
Held(t) ==
    /\ t \in Task
    /\ t.at \in Active => t.key \in Keys
    /\ t.at \in {"body", "store", "done"} => t.body \in Nat
    /\ t.at \in {"store", "done"} => t.meta \in Meta
InStep(t, r) ==
    /\ r.op = "get.hit" => r.body \in Nat /\ r.meta \in Meta
    /\ t.at = "fast" => r.op \in Gets /\ r.key = t.key
    /\ t.at = "check" => r.op = "idle" \/ (r.op \in Gets /\ r.key = t.key)
    /\ t.at \in {"wait", "body"} => r.op = "idle"
    /\ t.at = "store" => r.op \in Writes \cup {"set.ok", "set.err"} /\ r.key = t.key
    /\ t.at \in {"idle", "done", "failed"} => r.op \in Deletes \cup {"idle", "stat.hit", "stat.miss"}
CallerOK(c) == Held(task[c]) /\ InStep(task[c], call[c])

\* A leader's key is not indexed before its own Set inserts it, and what it writes stays on disk till then.
Missed(c) == Fetching(c) => items[task[c].key] = None
Written(c) == call[c].op \in Writes => disk[call[c].key] \in {None, call[c].meta.body}

Shapes == group \in [Keys -> Callers \cup {None}] /\ task \in [Callers -> Task]
SFInv ==
    /\ CacheInv /\ Shapes /\ FlightsConsistent /\ IndexMatchesDisk
    /\ \A c \in Callers : CallerOK(c) /\ Missed(c) /\ Written(c)

LEMMA SFTyped == SFInv => SFTypeOK
BY DEF SFInv, CacheInv, Shapes, SFTypeOK, CallerOK, Held

\* No two callers lead a flight of one key, and who writes a key leads its flight.
LEMMA OneLeader ==
    ASSUME FlightsConsistent, NEW c \in Callers, NEW d \in Callers, task[c].key \in Keys,
           task[c].at \in Leading, task[d].at \in Leading, task[c].key = task[d].key
    PROVE  c = d
BY DEF FlightsConsistent

LEMMA WriterLeads ==
    ASSUME NEW c, CallerOK(c), call[c].op \in Writes
    PROVE  In(c, "store") /\ call[c].key = task[c].key /\ task[c].key \in Keys /\ task[c].at \in Leading
BY DEF CallerOK, Held, InStep, Task, Active, Leading, Writes, Gets, Deletes, In

LEMMA FetcherLeads == ASSUME NEW c, CallerOK(c), Fetching(c) PROVE task[c].at \in Leading /\ task[c].key \in Keys
BY DEF Fetching, CallerOK, Held, Active, Leading, In

-----------------------------------------------------------------------------
\* Entries and files go, and none comes.
Shrink == \A x \in Keys : items'[x] \in {items[x], None} /\ disk'[x] \in {disk[x], None}

LEMMA ShrinkKeepsDisk == ASSUME IndexMatchesDisk, Shrink PROVE IndexMatchesDisk'
BY DEF IndexMatchesDisk, Shrink

\* A caller that does not move.
LEMMA OtherKeeps ==
    ASSUME NEW d \in Callers, CallerOK(d), Missed(d), Written(d), task'[d] = task[d], call'[d] = call[d], Shrink
    PROVE  CallerOK(d)' /\ Missed(d)' /\ Written(d)'
<1>1. CallerOK(d)'
  BY DEF CallerOK
<1>2. Missed(d)'
  <2>1. Fetching(d)' => Fetching(d)
    BY DEF Fetching, In, At
  <2> QED BY <2>1, FetcherLeads DEF Missed, Shrink
<1>3. Written(d)'
  BY WriterLeads DEF Written, Shrink
<1> QED BY <1>1, <1>2, <1>3

\* One caller moves and no flight begins or ends.
LEMMA MoveKeeps ==
    ASSUME SFInv, NEW c \in Callers, CacheInv', Shrink, UNCHANGED group, task' \in [Callers -> Task],
           \A d \in Callers \ {c} : task'[d] = task[d] /\ call'[d] = call[d],
           CallerOK(c)', Missed(c)', Written(c)',
           task'[c].at \in Leading <=> task[c].at \in Leading,
           task[c].at \in Leading => task'[c].key = task[c].key,
           task'[c].at = "wait" => group[task'[c].key] \in Callers
    PROVE  SFInv'
<1>1. \A d \in Callers : CallerOK(d)' /\ Missed(d)' /\ Written(d)'
  BY OtherKeeps DEF SFInv
<1>2. FlightsConsistent'
  BY DEF SFInv, FlightsConsistent, In
<1> QED BY <1>1, <1>2, ShrinkKeepsDisk DEF SFInv, Shapes

\* A flight ends, with its leader out of the cache.
LEMMA LandKeeps ==
    ASSUME SFInv, NEW c \in Callers, task[c].at \in Leading, NEW at \in {"done", "failed"},
           NEW b \in Nat \cup {None}, NEW m \in Meta \cup {None}, at = "done" => b \in Nat /\ m \in Meta,
           Land(c, at, b, m), CacheInv', UNCHANGED <<items, disk>>,
           call'[c].op = "idle", \A d \in Callers \ {c} : call'[d] = call[d]
    PROVE  SFInv'
<1> DEFINE k == task[c].key
           landed == {d \in Callers : d = c \/ (In(d, "wait") /\ task[d].key = k)}
<1>1. k \in Keys
  BY DEF SFInv, CallerOK, Held, Leading, Active
<1>2. task' \in [Callers -> Task]
      /\ \A d \in Callers : task'[d] = IF d \in landed THEN TaskRec(at, k, b, m) ELSE task[d]
  <2>1. TaskRec(at, k, b, m) \in Task
    BY <1>1 DEF Task, TaskRec
  <2>2. task \in [Callers -> Task]
    BY DEF SFInv, Shapes
  <2> QED BY <2>1, <2>2 DEF Land
<1>3. group' = [group EXCEPT ![k] = None] /\ group' \in [Keys -> Callers \cup {None}]
  BY <1>1 DEF Land, SFInv, Shapes
<1>4. Shrink
  BY DEF Shrink
<1>5. ASSUME NEW d \in landed PROVE CallerOK(d)' /\ Missed(d)' /\ Written(d)'
  <2>1. task'[d] = TaskRec(at, k, b, m) /\ d \in Callers
    BY <1>2
  <2>2. call'[d].op = "idle"
    BY <2>1 DEF SFInv, CallerOK, InStep, In
  <2>3. Held(task'[d])
    BY <1>1, <2>1 DEF Held, TaskRec, Task, Active, Leading
  <2>4. InStep(task'[d], call'[d])
    BY <2>1, <2>2 DEF InStep, TaskRec, Deletes
  <2> QED BY <2>1, <2>2, <2>3, <2>4 DEF CallerOK, Missed, Fetching, Written, Writes, In, TaskRec
<1>6. ASSUME NEW d \in Callers \ landed PROVE CallerOK(d)' /\ Missed(d)' /\ Written(d)'
  <2>1. task'[d] = task[d] /\ call'[d] = call[d]
    BY <1>2
  <2> QED BY <1>4, <2>1, OtherKeeps DEF SFInv
<1>7. \A d \in Callers : task'[d].at \in Leading <=> task[d].at \in Leading /\ d # c
  BY <1>2 DEF TaskRec, Leading, In
<1>8. \A d \in Callers : task'[d].at \in Leading \/ In(d, "wait")' => task'[d] = task[d] /\ d \notin landed
  BY <1>2 DEF TaskRec, Leading, In
<1>9. FlightsConsistent'
  <2>1. \A d \in Callers, x \in Keys : group'[x] = d <=> task'[d].at \in Leading /\ task'[d].key = x
    <3> SUFFICES ASSUME NEW d \in Callers, NEW x \in Keys
                 PROVE  group'[x] = d <=> task'[d].at \in Leading /\ task'[d].key = x
      OBVIOUS
    <3>1. group[x] = d <=> task[d].at \in Leading /\ task[d].key = x
      BY DEF SFInv, FlightsConsistent
    <3>2. group'[x] = IF x = k THEN None ELSE group[x]
      BY <1>3 DEF SFInv, Shapes
    <3>3. x = k /\ group[x] = d => d = c
      BY <1>1 DEF SFInv, FlightsConsistent
    <3> QED BY <1>1, <1>7, <1>8, <3>1, <3>2, <3>3, CallerAssumption DEF SFInv, FlightsConsistent
  <2>2. ASSUME NEW d \in Callers, In(d, "wait")' PROVE group'[task'[d].key] \in Callers
    <3>1. task'[d] = task[d] /\ task[d].key # k /\ In(d, "wait") /\ task[d].key \in Keys
      BY <1>8, <2>2 DEF In, SFInv, CallerOK, Held, Active
    <3> QED BY <1>3, <3>1 DEF SFInv, FlightsConsistent, Shapes
  <2> QED BY <2>1, <2>2 DEF FlightsConsistent
<1>10. \A d \in Callers : CallerOK(d)' /\ Missed(d)' /\ Written(d)'
  BY <1>5, <1>6
<1> QED BY <1>2, <1>3, <1>4, <1>9, <1>10, ShrinkKeepsDisk DEF SFInv, Shapes

-----------------------------------------------------------------------------
\* The caller takes the result of its cache call.
LEMMA TakeKeeps ==
    ASSUME CacheInv, NEW c \in Callers, Take(c), bodies' \in Nat
    PROVE  CacheInv' /\ call'[c] = Idle /\ (\A d \in Callers \ {c} : call'[d] = call[d]) /\ UNCHANGED <<items, disk>>
<1>1. call \in [Callers -> Call] /\ call' = [call EXCEPT ![c] = Idle]
  BY DEF CacheInv, TypeOK, Take
<1>2. CallOK(Idle)
  BY DEF CallOK, Call, Idle, Underway
<1>3. \A d \in Callers : CallOK(call[d])
  BY DEF CacheInv, TypeOK, CallOK
<1>4. CallsOK'
  BY <1>1, <1>2, <1>3 DEF CallsOK, CallOK
<1>5. IndexOK'
  BY SameIndex DEF CacheInv, Take
<1>6. RestOK'
  BY DEF CacheInv, TypeOK, RestOK, Take
<1>7. CacheInv'
  BY <1>4, <1>5, <1>6 DEF CacheInv, TypeOK, IndexOK, CallsOK, CallOK, RestOK
<1>8. call'[c] = Idle /\ (\A d \in Callers \ {c} : call'[d] = call[d])
  BY <1>1
<1> QED BY <1>7, <1>8 DEF Take, index

\* What Put does to the tasks.
LEMMA PutOne ==
    ASSUME SFInv, NEW c \in Callers, NEW at \in {"idle", "done", "failed"} \cup Active, NEW k \in Keys \cup {None},
           NEW b \in Nat \cup {None}, NEW m \in Meta \cup {None}, Put(c, at, k, b, m)
    PROVE  /\ task' \in [Callers -> Task] /\ task'[c] = TaskRec(at, k, b, m)
           /\ \A d \in Callers \ {c} : task'[d] = task[d]
<1>1. TaskRec(at, k, b, m) \in Task
  BY DEF Task, TaskRec
<1>2. task \in [Callers -> Task] /\ task' = [task EXCEPT ![c] = TaskRec(at, k, b, m)]
  BY DEF SFInv, Shapes, Put
<1> QED BY <1>1, <1>2

LEMMA CallFun == CacheInv => call \in [Callers -> Call]
BY DEF CacheInv, TypeOK

LEMMA UnindexShrinks == ASSUME CacheInv, NEW k \in Keys, Unindex(k), UNCHANGED disk PROVE Shrink /\ items'[k] = None
BY DEF Unindex, CacheInv, TypeOK, Shrink

\* A lookup leads to a hit that is still to be read, or to a miss that leaves no entry.
LEMMA LookupDoes ==
    ASSUME CacheInv, NEW c \in Callers, NEW k \in Keys, GetLookup(c, k)
    PROVE  /\ CacheInv' /\ Shrink /\ \A d \in Callers \ {c} : call'[d] = call[d]
           /\ call'[c].key = k
           /\ call'[c].op = "get.read" \/ (call'[c].op = "get.miss" /\ items'[k] = None)
<1>1. CacheInv' /\ UNCHANGED disk
  BY GetLookupKeeps DEF GetLookup
<1>2. CASE items[k] = None /\ Enter(c, "get.miss", k, None) /\ UNCHANGED index
  <2>1. items' = items /\ Enter(c, "get.miss", k, None)
    BY <1>2 DEF index
  <2> QED BY <1>1, <1>2, <2>1, CallFun DEF Shrink, Enter
<1>3. CASE items[k] # None /\ Expired(items[k]) /\ Enter(c, "get.miss", k, None) /\ Unindex(k)
  <2>1. Unindex(k) /\ Enter(c, "get.miss", k, None)
    BY <1>3
  <2> QED BY <1>1, <2>1, CallFun, UnindexShrinks DEF Enter
<1>4. CASE items[k] # None /\ ~Expired(items[k]) /\ Enter(c, "get.read", k, items[k]) /\ ToFront(k) /\ UNCHANGED items
  <2>1. items' = items /\ Enter(c, "get.read", k, items[k])
    BY <1>4
  <2> QED BY <1>1, <2>1, CallFun DEF Shrink, Enter
<1> QED BY <1>2, <1>3, <1>4 DEF GetLookup

-----------------------------------------------------------------------------
LEMMA RequestKeeps == ASSUME SFInv, NEW c \in Callers, NEW k \in Keys, Request(c, k) PROVE SFInv'
<1>1. /\ CacheInv' /\ Shrink /\ \A d \in Callers \ {c} : call'[d] = call[d]
      /\ call'[c].key = k /\ call'[c].op \in {"get.read", "get.miss"}
  BY LookupDoes DEF Request, SFInv
<1>2. /\ task' \in [Callers -> Task] /\ task'[c] = TaskRec("fast", k, None, None)
      /\ \A d \in Callers \ {c} : task'[d] = task[d]
  BY PutOne DEF Request, Active
<1>3. CallerOK(c)'
  BY <1>1, <1>2 DEF CallerOK, Held, InStep, TaskRec, Gets, Active, Leading
<1>4. Missed(c)' /\ Written(c)'
  BY <1>1, <1>2 DEF Missed, Fetching, Written, Writes, In, TaskRec
<1>5. task'[c].at = "fast" /\ task[c].at \notin Leading
  BY <1>2 DEF Request, Free, Active, TaskRec
<1> QED BY <1>1, <1>2, <1>3, <1>4, <1>5, MoveKeeps DEF Request, Leading

LEMMA DeleteKeeps == ASSUME SFInv, NEW c \in Callers, NEW k \in Keys, Delete(c, k) PROVE SFInv'
<1>1. CacheInv' /\ Shrink
  BY DeleteIndexKeeps, UnindexShrinks DEF Delete, DeleteIndex, SFInv
<1>2. /\ \A d \in Callers \ {c} : call'[d] = call[d]
      /\ call'[c].op = "delete.storage"
  <2>1. Enter(c, "delete.storage", k, None) /\ CacheInv
    BY DEF Delete, DeleteIndex, SFInv
  <2> QED BY <2>1, CallFun DEF Enter
<1>3. NoTask \in Task
  BY DEF NoTask, Task
<1>4. /\ task' \in [Callers -> Task] /\ task'[c] = NoTask
      /\ \A d \in Callers \ {c} : task'[d] = task[d]
  BY <1>3 DEF Delete, SFInv, Shapes
<1>5. CallerOK(c)'
  BY <1>2, <1>3, <1>4 DEF CallerOK, Held, InStep, NoTask, Deletes, Active, Leading
<1>6. Missed(c)' /\ Written(c)'
  BY <1>2, <1>4 DEF Missed, Fetching, Written, Writes, In, NoTask
<1>7. task'[c].at = "idle" /\ task[c].at \notin Leading
  BY <1>4 DEF Delete, Free, Active, NoTask
<1> QED BY <1>1, <1>2, <1>4, <1>5, <1>6, <1>7, MoveKeeps DEF Delete, Leading

\* The steps of one caller that read the result of a cache call, and begin or end no flight.
LEMMA FastHitKeeps == ASSUME SFInv, NEW c \in Callers, FastHit(c) PROVE SFInv'
<1>1. CallerOK(c) /\ task[c].key \in Keys /\ call[c].body \in Nat /\ call[c].meta \in Meta /\ CacheInv
  BY DEF SFInv, FastHit, CallerOK, Held, InStep, In, At, Active
<1>2. bodies' \in Nat
  BY <1>1 DEF FastHit, CacheInv, TypeOK
<1>3. CacheInv' /\ call'[c] = Idle /\ (\A d \in Callers \ {c} : call'[d] = call[d]) /\ UNCHANGED <<items, disk>>
  BY <1>1, <1>2, TakeKeeps DEF FastHit
<1>4. /\ task' \in [Callers -> Task] /\ task'[c] = TaskRec("done", task[c].key, call[c].body, call[c].meta)
      /\ \A d \in Callers \ {c} : task'[d] = task[d]
  BY <1>1, PutOne DEF FastHit
<1>5. Shrink /\ CallerOK(c)'
  BY <1>1, <1>3, <1>4 DEF Shrink, CallerOK, Held, InStep, Idle, TaskRec, Task, Active, Leading
<1>6. Missed(c)' /\ Written(c)'
  BY <1>3, <1>4 DEF Missed, Fetching, Written, Writes, In, TaskRec, Idle
<1>7. task'[c].at = "done" /\ task[c].at \notin Leading
  BY <1>4 DEF FastHit, In, TaskRec, Leading
<1> QED BY <1>3, <1>4, <1>5, <1>6, <1>7, MoveKeeps DEF FastHit, Leading

LEMMA JoinKeeps == ASSUME SFInv, NEW c \in Callers, Join(c) PROVE SFInv'
<1>1. CallerOK(c) /\ task[c].key \in Keys /\ CacheInv
  BY DEF SFInv, Join, CallerOK, Held, In, Active
<1>2. bodies' \in Nat
  BY <1>1 DEF Join, CacheInv, TypeOK
<1>3. CacheInv' /\ call'[c] = Idle /\ (\A d \in Callers \ {c} : call'[d] = call[d]) /\ UNCHANGED <<items, disk>>
  BY <1>1, <1>2, TakeKeeps DEF Join
<1>4. /\ task' \in [Callers -> Task] /\ task'[c] = TaskRec("wait", task[c].key, None, None)
      /\ \A d \in Callers \ {c} : task'[d] = task[d]
  BY <1>1, PutOne DEF Join, Active
<1>5. Shrink /\ CallerOK(c)'
  BY <1>1, <1>3, <1>4 DEF Shrink, CallerOK, Held, InStep, Idle, TaskRec, Task, Active, Leading
<1>6. Missed(c)' /\ Written(c)'
  BY <1>3, <1>4 DEF Missed, Fetching, Written, Writes, In, TaskRec, Idle
<1>7. task'[c].at = "wait" /\ task[c].at \notin Leading /\ group[task'[c].key] \in Callers
  BY <1>1, <1>4 DEF Join, In, TaskRec, Leading, SFInv, Shapes
<1> QED BY <1>3, <1>4, <1>5, <1>6, <1>7, MoveKeeps DEF Join, Leading

LEMMA PullKeeps == ASSUME SFInv, NEW c \in Callers, Pull(c) PROVE SFInv'
<1>1. CallerOK(c) /\ task[c].key \in Keys /\ CacheInv /\ Missed(c)
  BY DEF SFInv, Pull, CallerOK, Held, In, Active, Leading
<1>2. bodies' \in Nat
  BY <1>1 DEF Pull, CacheInv, TypeOK
<1>3. CacheInv' /\ call'[c] = Idle /\ (\A d \in Callers \ {c} : call'[d] = call[d]) /\ UNCHANGED <<items, disk>>
  BY <1>1, <1>2, TakeKeeps DEF Pull
<1>4. /\ task' \in [Callers -> Task] /\ task'[c] = TaskRec("body", task[c].key, bodies', None)
      /\ \A d \in Callers \ {c} : task'[d] = task[d]
  BY <1>1, <1>2, PutOne DEF Pull, Active, Leading
<1>5. Shrink /\ CallerOK(c)'
  BY <1>1, <1>2, <1>3, <1>4 DEF Shrink, CallerOK, Held, InStep, Idle, TaskRec, Task, Active, Leading
<1>6. Missed(c)' /\ Written(c)'
  BY <1>1, <1>3, <1>4 DEF Pull, Missed, Fetching, Written, Writes, In, TaskRec, Idle
<1>7. task'[c].at = "body" /\ task[c].at \in Leading /\ task'[c].key = task[c].key
  BY <1>4 DEF Pull, In, TaskRec, Leading
<1> QED BY <1>3, <1>4, <1>5, <1>6, <1>7, MoveKeeps DEF Pull, Leading

\* The second look at the key.
LEMMA DoubleCheckKeeps == ASSUME SFInv, NEW c \in Callers, DoubleCheck(c) PROVE SFInv'
<1>1. CallerOK(c) /\ task[c].key \in Keys /\ CacheInv /\ GetLookup(c, task[c].key)
  BY DEF SFInv, DoubleCheck, CallerOK, Held, In, Active, Leading
<1>2. /\ CacheInv' /\ Shrink /\ \A d \in Callers \ {c} : call'[d] = call[d]
      /\ call'[c].key = task[c].key
      /\ call'[c].op = "get.read" \/ (call'[c].op = "get.miss" /\ items'[task[c].key] = None)
  BY <1>1, LookupDoes
<1>3. task' = task /\ task \in [Callers -> Task]
  BY DEF DoubleCheck, SFInv, Shapes
<1>4. CallerOK(c)'
  BY <1>1, <1>2, <1>3 DEF DoubleCheck, CallerOK, InStep, In, Gets
<1>5. Missed(c)' /\ Written(c)'
  BY <1>2, <1>3 DEF DoubleCheck, Missed, Fetching, Written, Writes, In, At
<1>6. task'[c].at # "wait"
  BY <1>3 DEF DoubleCheck, In
<1> QED BY <1>2, <1>3, <1>4, <1>5, <1>6, MoveKeeps DEF DoubleCheck

-----------------------------------------------------------------------------
\* A flight begins.
LEMMA LeadKeeps == ASSUME SFInv, NEW c \in Callers, Lead(c) PROVE SFInv'
<1>1. CallerOK(c) /\ task[c].key \in Keys /\ CacheInv
  BY DEF SFInv, Lead, CallerOK, Held, In, Active
<1>2. bodies' \in Nat
  BY <1>1 DEF Lead, CacheInv, TypeOK
<1>3. CacheInv' /\ call'[c] = Idle /\ (\A d \in Callers \ {c} : call'[d] = call[d]) /\ UNCHANGED <<items, disk>>
  BY <1>1, <1>2, TakeKeeps DEF Lead
<1>4. /\ task' \in [Callers -> Task] /\ task'[c] = TaskRec("check", task[c].key, None, None)
      /\ \A d \in Callers \ {c} : task'[d] = task[d]
  <2>1. Put(c, "check", task[c].key, None, None) /\ "check" \in Active
    BY DEF Lead, Active, Leading
  <2> QED BY <1>1, <2>1, PutOne
<1>5. Shrink /\ CallerOK(c)'
  BY <1>1, <1>3, <1>4 DEF Shrink, CallerOK, Held, InStep, Idle, TaskRec, Task, Active, Leading
<1>6. Missed(c)' /\ Written(c)'
  BY <1>3, <1>4 DEF Missed, Fetching, Written, Writes, In, At, TaskRec, Idle
<1>7. \A d \in Callers : CallerOK(d)' /\ Missed(d)' /\ Written(d)'
  BY <1>3, <1>4, <1>5, <1>6, OtherKeeps DEF SFInv
<1>8. task'[c].at = "check" /\ task'[c].key = task[c].key /\ task[c].at \notin Leading /\ "check" \in Leading
  BY <1>4 DEF Lead, In, TaskRec, Leading
<1>9. group[task[c].key] = None /\ group' \in [Keys -> Callers \cup {None}]
      /\ \A x \in Keys : group'[x] = IF x = task[c].key THEN c ELSE group[x]
  BY <1>1 DEF Lead, SFInv, Shapes
<1>10. FlightsConsistent'
  <2>1. \A d \in Callers, x \in Keys : group'[x] = d <=> task'[d].at \in Leading /\ task'[d].key = x
    BY <1>1, <1>4, <1>8, <1>9, CallerAssumption DEF SFInv, FlightsConsistent
  <2>2. \A d \in Callers : In(d, "wait")' => group'[task'[d].key] \in Callers
    <3> SUFFICES ASSUME NEW d \in Callers, In(d, "wait")' PROVE group'[task'[d].key] \in Callers
      OBVIOUS
    <3>1. d # c /\ task'[d] = task[d] /\ In(d, "wait") /\ task[d].key \in Keys
      BY <1>4, <1>8 DEF In, SFInv, CallerOK, Held, Active
    <3> QED BY <1>9, <3>1 DEF SFInv, FlightsConsistent
  <2> QED BY <2>1, <2>2 DEF FlightsConsistent
<1> QED BY <1>3, <1>4, <1>5, <1>7, <1>9, <1>10, ShrinkKeepsDisk DEF SFInv, Shapes

\* A flight ends: the leader found the key after all, got no answer or no body, or has stored it.
LEMMA EndKeeps ==
    ASSUME SFInv, NEW c \in Callers, CheckHit(c) \/ PullFails(c) \/ BodyFails(c) \/ Stored(c)
    PROVE  SFInv'
<1>1. CallerOK(c) /\ CacheInv /\ bodies \in Nat
  BY DEF SFInv, CacheInv, TypeOK
<1>2. ASSUME Take(c), UNCHANGED bodies
      PROVE  CacheInv' /\ call'[c].op = "idle" /\ (\A d \in Callers \ {c} : call'[d] = call[d]) /\ UNCHANGED <<items, disk>>
  BY <1>1, <1>2, TakeKeeps DEF Idle
<1>3. CASE CheckHit(c)
  <2>1. task[c].at \in Leading /\ call[c].body \in Nat /\ call[c].meta \in Meta
    BY <1>1, <1>3 DEF CheckHit, In, At, Leading, CallerOK, InStep
  <2>2. Take(c) /\ UNCHANGED bodies
    BY <1>3 DEF CheckHit
  <2>3. CASE Land(c, "done", call[c].body, call[c].meta)
    BY <1>2, <2>1, <2>2, <2>3, LandKeeps
  <2>4. CASE Land(c, "failed", None, None)
    BY <1>2, <2>1, <2>2, <2>4, LandKeeps
  <2> QED BY <1>3, <2>3, <2>4 DEF CheckHit
<1>4. CASE PullFails(c)
  <2>1. task[c].at \in Leading /\ Land(c, "failed", None, None) /\ Take(c) /\ UNCHANGED bodies
    BY <1>4 DEF PullFails, In, Leading
  <2> QED BY <1>2, <2>1, LandKeeps
<1>5. CASE BodyFails(c)
  <2>1. task[c].at \in Leading /\ Land(c, "failed", None, None) /\ call[c].op = "idle"
        /\ UNCHANGED <<items, disk, call>>
    BY <1>1, <1>5 DEF BodyFails, In, Leading, vars, CallerOK, InStep
  <2>2. CacheInv'
    BY <1>1, <1>5 DEF BodyFails, vars, CacheInv, TypeOK, IndexConsistent
  <2> QED BY <2>1, <2>2, LandKeeps
<1>6. CASE Stored(c)
  <2>1. task[c].at \in Leading /\ task[c].body \in Nat /\ task[c].meta \in Meta
        /\ Land(c, "done", task[c].body, task[c].meta) /\ Take(c) /\ UNCHANGED bodies
    BY <1>1, <1>6 DEF Stored, In, Leading, CallerOK, Held
  <2> QED BY <1>2, <2>1, LandKeeps
<1> QED BY <1>3, <1>4, <1>5, <1>6

\* The leader writes storage: nobody else writes the key, and the index does not have it.
LEMMA StoreKeeps == ASSUME SFInv, NEW c \in Callers, Store(c) PROVE SFInv'
<1> DEFINE k == task[c].key
<1>1. CallerOK(c) /\ k \in Keys /\ CacheInv /\ task[c].body \in Nat /\ items[k] = None
      /\ task[c].at \in Leading /\ task[c].at = "body"
  BY DEF SFInv, Store, CallerOK, Held, In, Active, Leading, Missed, Fetching
<1>2. PICK ttl \in TTLs :
        /\ SetContent(c, k, [body |-> task[c].body, at |-> now, ttl |-> ttl])
        /\ Put(c, "store", k, task[c].body, [body |-> task[c].body, at |-> now, ttl |-> ttl])
  BY DEF Store
<1> DEFINE m == [body |-> task[c].body, at |-> now, ttl |-> ttl]
<1>3. m \in Meta /\ m.body = task[c].body
  BY <1>1, LifetimeAssumption DEF Meta, CacheInv, TypeOK
<1>4. bodies' \in Nat
  BY <1>1 DEF Store, CacheInv, TypeOK
<1>5. SetContent(c, k, m) /\ Put(c, "store", k, task[c].body, m)
  BY <1>2
<1> HIDE DEF m
<1>6. CacheInv' /\ items' = items /\ group' = group
  BY <1>1, <1>3, <1>4, <1>5, SetContentKeeps DEF SetContent, index, Store
<1>7. /\ task' \in [Callers -> Task] /\ task'[c] = TaskRec("store", k, task[c].body, m)
      /\ \A d \in Callers \ {c} : task'[d] = task[d]
  BY <1>1, <1>3, <1>5, PutOne DEF Active, Leading
<1>8. /\ \A d \in Callers \ {c} : call'[d] = call[d]
      /\ call'[c].key = k
      /\ \/ call'[c].op = "set.meta" /\ call'[c].meta = m /\ disk' = [disk EXCEPT ![k] = m.body]
         \/ call'[c].op = "set.err" /\ disk' = disk
  BY <1>1, <1>5, CallFun DEF SetContent, Enter
<1>9. disk \in [Keys -> Nat \cup {None}] /\ \A x \in Keys \ {k} : disk'[x] = disk[x]
  BY <1>1, <1>8 DEF CacheInv, TypeOK
<1>10. CallerOK(c)'
  BY <1>1, <1>3, <1>7, <1>8 DEF CallerOK, Held, InStep, TaskRec, Writes, Active, Leading
<1>11. Missed(c)' /\ Written(c)'
  <2>1. call'[c].op = "set.meta" => disk'[k] = m.body
    BY <1>1, <1>8, <1>9
  <2> QED BY <1>1, <1>6, <1>7, <1>8, <2>1 DEF Missed, Fetching, Written, Writes, In, TaskRec
<1>12. ASSUME NEW d \in Callers \ {c} PROVE CallerOK(d)' /\ Missed(d)' /\ Written(d)'
  <2>1. CallerOK(d) /\ Missed(d) /\ Written(d) /\ task'[d] = task[d] /\ call'[d] = call[d]
    BY <1>7, <1>8 DEF SFInv
  <2>2. call[d].op \in Writes => call[d].key # k /\ call[d].key \in Keys
    BY <1>1, <2>1, WriterLeads, OneLeader DEF SFInv
  <2> QED BY <1>6, <1>9, <2>1, <2>2 DEF CallerOK, Missed, Fetching, Written, In, At
<1>13. IndexMatchesDisk'
  BY <1>1, <1>6, <1>9 DEF SFInv, IndexMatchesDisk
<1>14. FlightsConsistent'
  BY <1>1, <1>6, <1>7 DEF SFInv, FlightsConsistent, In, TaskRec, Leading
<1> QED BY <1>6, <1>7, <1>10, <1>11, <1>12, <1>13, <1>14 DEF SFInv, Shapes

-----------------------------------------------------------------------------
\* The leader's Set inserts its key: nobody else is fetching it, and the file is the one it wrote.
LEMMA InsertKeeps == ASSUME SFInv, NEW c \in Callers, SetInsert(c), UNCHANGED <<group, task>> PROVE SFInv'
<1> DEFINE k == call[c].key
<1>1. /\ CallerOK(c) /\ CacheInv /\ Written(c) /\ call[c].op = "set.index" /\ "set.index" \in Writes
      /\ task \in [Callers -> Task]
  BY DEF SFInv, Shapes, SetInsert, At, Writes
<1>2. In(c, "store") /\ k = task[c].key /\ k \in Keys /\ task[c].at \in Leading
  BY <1>1, WriterLeads
<1>3. CacheInv'
  BY <1>1, CallStepKeeps DEF CallStep
<1>4. /\ items'[k] \in {call[c].meta, None} /\ \A x \in Keys \ {k} : items'[x] \in {items[x], None}
      /\ \A x \in Keys : disk'[x] \in {disk[x], None}
  <2> DEFINE all == <<k>> \o lru
             evicted == {all[i] : i \in Len(Kept(all)) + 1 .. Len(all)}
  <2>1. items' = [x \in Keys |-> IF x \in evicted THEN None ELSE IF x = k THEN call[c].meta ELSE items[x]]
    BY DEF SetInsert
  <2>2. PICK undeleted \in SUBSET evicted :
          disk' = [x \in Keys |-> IF x \in evicted \ undeleted THEN None ELSE disk[x]]
    BY DEF SetInsert
  <2> HIDE DEF evicted
  <2> QED BY <1>2, <2>1, <2>2
<1>5. /\ \A d \in Callers \ {c} : call'[d] = call[d]
      /\ call'[c].op = "set.ok" /\ call'[c].key = k
  BY <1>1, CallFun DEF SetInsert, Leave, Enter
<1>6. CallerOK(c)'
  BY <1>1, <1>2, <1>5 DEF CallerOK, InStep, Writes, In
<1>7. Missed(c)' /\ Written(c)'
  BY <1>2, <1>5 DEF Missed, Fetching, Written, Writes, In, At
<1>8. ASSUME NEW d \in Callers \ {c} PROVE CallerOK(d)' /\ Missed(d)' /\ Written(d)'
  <2>1. CallerOK(d) /\ Missed(d) /\ Written(d) /\ task'[d] = task[d] /\ call'[d] = call[d]
    BY <1>5 DEF SFInv
  <2>2. Fetching(d) => task[d].key # k /\ task[d].key \in Keys
    BY <1>2, <2>1, FetcherLeads, OneLeader DEF SFInv
  <2>3. call[d].op \in Writes => call[d].key \in Keys
    BY <2>1, WriterLeads
  <2>4. Missed(d)'
    BY <1>4, <2>1, <2>2 DEF Missed, Fetching, In, At
  <2>5. Written(d)'
    BY <1>4, <2>1, <2>3 DEF Written
  <2> QED BY <2>1, <2>4, <2>5 DEF CallerOK
<1>9. IndexMatchesDisk'
  <2>1. disk[k] \in {None, call[c].meta.body}
    BY <1>1 DEF Written
  <2> QED BY <1>2, <1>4, <2>1 DEF SFInv, IndexMatchesDisk
<1>10. FlightsConsistent'
  BY DEF SFInv, FlightsConsistent, In
<1> QED BY <1>1, <1>3, <1>6, <1>7, <1>8, <1>9, <1>10 DEF SFInv, Shapes

\* The other steps inside a cache call.
LEMMA CacheStepKeeps == ASSUME SFInv, NEW c \in Callers, CacheStep(c) PROVE SFInv'
<1>1. /\ CallerOK(c) /\ Missed(c) /\ Written(c) /\ CacheInv /\ UNCHANGED <<group, task>> /\ task \in [Callers -> Task]
      /\ call[c].op \in Underway => call[c].key \in Keys
      /\ call[c].op = "get.read" => call[c].meta \in Meta
      /\ call \in [Callers -> Call] /\ items \in [Keys -> Meta \cup {None}] /\ disk \in [Keys -> Nat \cup {None}]
  BY DEF SFInv, Shapes, CacheStep, CacheInv, TypeOK
<1>2. CacheInv' /\ CallStep(c)
  BY <1>1, CallStepKeeps DEF CacheStep
<1>3. In(c, "wait") => group[task[c].key] \in Callers
  BY DEF SFInv, FlightsConsistent
<1>4. ASSUME Shrink, \A d \in Callers \ {c} : call'[d] = call[d], CallerOK(c)', Missed(c)', Written(c)' PROVE SFInv'
  BY <1>1, <1>2, <1>3, <1>4, MoveKeeps DEF In
<1>5. CASE GetRead(c)
  <2>1. /\ call' = [call EXCEPT ![c].op = "get.hit", ![c].body = disk[call[c].key]]
        /\ call[c].op = "get.read" /\ UNCHANGED <<items, disk>>
        /\ disk[call[c].key] \in Nat
    BY <1>1, <1>5 DEF GetRead, At, index, Underway
  <2>2. /\ \A d \in Callers \ {c} : call'[d] = call[d]
        /\ call'[c].op = "get.hit" /\ call'[c].body \in Nat /\ call'[c].meta \in Meta /\ call'[c].key = call[c].key
    BY <1>1, <2>1 DEF Call
  <2>3. CallerOK(c)'
    BY <1>1, <2>1, <2>2 DEF CallerOK, Held, InStep, Gets, Writes, Deletes, Task, Active, Leading
  <2>4. Shrink /\ Missed(c)' /\ Written(c)'
    BY <1>1, <2>1, <2>2 DEF Shrink, Missed, Fetching, Written, Writes, In, At
  <2> QED BY <1>4, <2>2, <2>3, <2>4
<1>6. CASE GetReadFails(c)
  <2>1. /\ \A d \in Callers \ {c} : call'[d] = call[d]
        /\ call'[c].op = "get.evict" /\ call'[c].key = call[c].key /\ call[c].op = "get.read" /\ UNCHANGED <<items, disk>>
    BY <1>1, <1>6 DEF GetReadFails, Enter, At, index
  <2>2. CallerOK(c)'
    BY <1>1, <2>1 DEF CallerOK, Held, InStep, Gets, Writes, Deletes, Task, Active, Leading
  <2>3. Shrink /\ Missed(c)' /\ Written(c)'
    BY <1>1, <2>1 DEF Shrink, Missed, Fetching, Written, Writes, In, At
  <2> QED BY <1>4, <2>1, <2>2, <2>3
<1>7. CASE GetEvict(c)
  <2>1. /\ \A d \in Callers \ {c} : call'[d] = call[d]
        /\ call'[c].op = "get.miss" /\ call'[c].key = call[c].key /\ call[c].op = "get.evict"
    BY <1>1, <1>7 DEF GetEvict, Leave, Enter, At
  <2>2. Shrink /\ items'[call[c].key] = None
    BY <1>1, <1>7, <2>1, UnindexShrinks DEF GetEvict, Underway
  <2>3. CallerOK(c)'
    BY <1>1, <2>1 DEF CallerOK, Held, InStep, Gets, Writes, Deletes, Task, Active, Leading
  <2>4. Missed(c)' /\ Written(c)'
    BY <1>1, <2>1, <2>2 DEF Missed, Fetching, Written, Writes, In, At, CallerOK, InStep
  <2> QED BY <1>4, <2>1, <2>2, <2>3, <2>4
<1>8. CASE SetMeta(c)
  <2>1. /\ call[c].op = "set.meta" /\ "set.meta" \in Writes /\ items' = items
    BY <1>8 DEF SetMeta, At, Writes, index
  <2>2. In(c, "store") /\ call[c].key = task[c].key /\ task[c].key \in Keys
    BY <1>1, <2>1, WriterLeads
  <2>3. /\ \A d \in Callers \ {c} : call'[d] = call[d]
        /\ call'[c].key = call[c].key
        /\ \/ call'[c].op = "set.index" /\ call'[c].meta = call[c].meta /\ disk' = disk
           \/ call'[c].op = "set.err" /\ disk' = [disk EXCEPT ![call[c].key] = None]
    BY <1>1, <1>8 DEF SetMeta, Leave, Enter
  <2>4. Shrink
    BY <1>1, <2>1, <2>3 DEF Shrink
  <2>5. CallerOK(c)'
    BY <1>1, <2>2, <2>3 DEF CallerOK, Held, InStep, Writes, In
  <2>6. Missed(c)'
    BY <1>1, <2>1, <2>2 DEF Missed, Fetching, In, At
  <2>7. Written(c)'
    BY <1>1, <2>1, <2>3 DEF Written, Writes
  <2> QED BY <1>4, <2>3, <2>4, <2>5, <2>6, <2>7
<1>9. CASE SetUpdate(c)
  <2>1. call[c].op = "set.index" /\ items[call[c].key] # None /\ "set.index" \in Writes
    BY <1>9 DEF SetUpdate, At, Writes
  <2>2. In(c, "store") /\ call[c].key = task[c].key
    BY <1>1, <2>1, WriterLeads
  <2> QED BY <1>1, <2>1, <2>2 DEF Missed, Fetching, At
<1>10. CASE SetInsert(c)
  BY <1>1, <1>10, InsertKeeps
<1>11. CASE DeleteStorage(c)
  <2>1. /\ \A d \in Callers \ {c} : call'[d] = call[d]
        /\ call'[c].op \in {"delete.ok", "delete.err"} /\ call[c].op = "delete.storage" /\ items' = items
        /\ disk' = disk \/ disk' = [disk EXCEPT ![call[c].key] = None]
    BY <1>1, <1>11 DEF DeleteStorage, Leave, Enter, At, index
  <2>2. Shrink
    BY <1>1, <2>1 DEF Shrink
  <2>3. CallerOK(c)'
    BY <1>1, <2>1 DEF CallerOK, Held, InStep, Gets, Writes, Deletes, Task, Active, Leading
  <2>4. Missed(c)' /\ Written(c)'
    BY <1>1, <2>1, <2>2 DEF Missed, Fetching, Written, Writes, In, At, CallerOK, InStep, Gets
  <2> QED BY <1>4, <2>1, <2>2, <2>3, <2>4
<1> QED BY <1>2, <1>5, <1>6, <1>7, <1>8, <1>9, <1>10, <1>11 DEF CallStep

-----------------------------------------------------------------------------
LEMMA SFInit_Inv == SFInit => SFInv
<1> SUFFICES ASSUME SFInit PROVE SFInv
  OBVIOUS
<1>1. CacheInv /\ items = [k \in Keys |-> None] /\ call = [c \in Callers |-> Idle]
  BY InitInv DEF SFInit, Init
<1>2. Shapes /\ task = [c \in Callers |-> NoTask]
  BY DEF SFInit, Shapes, Task, NoTask
<1>3. FlightsConsistent
  BY CallerAssumption DEF SFInit, FlightsConsistent, NoTask, In, Leading
<1>4. IndexMatchesDisk
  BY <1>1 DEF IndexMatchesDisk
<1>5. ASSUME NEW c \in Callers PROVE CallerOK(c) /\ Missed(c) /\ Written(c)
  BY <1>1, <1>2 DEF CallerOK, Held, InStep, Missed, Fetching, Written, Writes, In, At, NoTask, Idle, Task, Active, Leading
<1> QED BY <1>1, <1>2, <1>3, <1>4, <1>5 DEF SFInv

LEMMA SFStepKeeps == SFInv /\ [SFNext]_sfvars => SFInv'
<1> SUFFICES ASSUME SFInv, [SFNext]_sfvars PROVE SFInv'
  OBVIOUS
<1>1. ASSUME NEW c \in Callers, FetchStep(c) PROVE SFInv'
  BY <1>1, CacheStepKeeps, FastHitKeeps, JoinKeeps, LeadKeeps, DoubleCheckKeeps, PullKeeps, StoreKeeps, EndKeeps
     DEF FetchStep
<1>2. ASSUME UNCHANGED <<items, lru, disk, call, group, task>>, now' \in Nat, bodies' \in Nat PROVE SFInv'
  <2>1. CacheInv' /\ Shapes' /\ FlightsConsistent' /\ IndexMatchesDisk'
    BY <1>2 DEF SFInv, CacheInv, TypeOK, IndexConsistent, Shapes, FlightsConsistent, IndexMatchesDisk, In
  <2>2. \A c \in Callers : CallerOK(c)' /\ Missed(c)' /\ Written(c)'
    BY <1>2 DEF SFInv, CallerOK, Missed, Fetching, Written, In, At
  <2> QED BY <2>1, <2>2 DEF SFInv
<1>3. now \in Nat /\ bodies \in Nat
  BY DEF SFInv, CacheInv, TypeOK
<1>4. CASE SFTick
  BY <1>2, <1>3, <1>4 DEF SFTick, Tick, index
<1>5. CASE UNCHANGED sfvars
  BY <1>2, <1>3, <1>5 DEF sfvars, vars
<1> QED BY <1>1, <1>4, <1>5, RequestKeeps, DeleteKeeps DEF SFNext

LEMMA SFSafe == SFSpec => []SFInv
BY SFInit_Inv, SFStepKeeps, PTL DEF SFSpec

-----------------------------------------------------------------------------
\* A request holds what its place in GetOrFetch needs, however flights, failures and deletes interleave
\* (singleflight.go 35-85).
THEOREM RequestsTyped == SFSpec => []SFTypeOK
BY SFSafe, SFTyped, PTL

\* Each key has one flight, led by the caller that the group knows, and nobody waits for a flight that is
\* over (singleflight.go 42-79).
THEOREM OneFlightPerKey == SFSpec => []FlightsConsistent
<1>1. SFInv => FlightsConsistent
  BY DEF SFInv
<1> QED BY SFSafe, <1>1, PTL

\* No key is pulled while it is cached, whatever is deleted, evicted or expires meanwhile
\* (singleflight.go 43-52).
THEOREM NoKeyPulledTwice == SFSpec => []NoRedundantPull
<1>1. SFInv => NoRedundantPull
  BY DEF SFInv, Missed, NoRedundantPull
<1> QED BY SFSafe, <1>1, PTL

\* An entry never stands over the file of another body, whichever storage calls fail (cache.go 94-112).
THEOREM EntriesMatchFiles == SFSpec => []IndexMatchesDisk
<1>1. SFInv => IndexMatchesDisk
  BY DEF SFInv
<1> QED BY SFSafe, <1>1, PTL

-----------------------------------------------------------------------------
(***************************************************************************)
(* GetOrFetch over the LRU cache implements FetchOnce: every step changes  *)
(* what clients see of at most one key as FetchOnce allows, evictions      *)
(* included, or changes nothing of it.                                     *)
(***************************************************************************)

\* Who is fetching, from the pull to the end of its Set, and what is seen of each key.
Holding(c) == In(c, "body") \/ (In(c, "store") /\ call[c].op \in Writes)
StatusOf(k) == IF Fetched(k) THEN "fetching" ELSE IF items[k] # None THEN "cached" ELSE "absent"
Status == [k \in Keys |-> StatusOf(k)]

LEMMA FetchedHeld ==
    ASSUME NEW k
    PROVE  /\ Fetched(k) <=> \E c \in Callers : task[c].key = k /\ Holding(c)
           /\ Fetched(k)' <=> \E c \in Callers : task'[c].key = k /\ Holding(c)'
BY DEF Fetched, Holding, Writes, At

LEMMA HolderLeads ==
    ASSUME SFInv, NEW c \in Callers, Holding(c)
    PROVE  task[c].key \in Keys /\ task[c].at \in Leading /\ items[task[c].key] = None /\ Fetched(task[c].key)
<1>1. CallerOK(c) /\ Missed(c) /\ Fetching(c)
  BY DEF SFInv, Holding, Fetching, Writes, At
<1>2. task[c].key \in Keys /\ task[c].at \in Leading /\ items[task[c].key] = None
  BY <1>1, FetcherLeads DEF Missed
<1> QED BY <1>2, FetchedHeld

LEMMA FetchedAlone ==
    ASSUME SFInv, NEW c \in Callers, NEW d \in Callers, Holding(d), task[c].at \in Leading, task[c].key = task[d].key
    PROVE  c = d
<1>1. task[d].key \in Keys /\ task[d].at \in Leading
  BY HolderLeads
<1> QED BY <1>1, OneLeader DEF SFInv

LEMMA FetchedUncached == ASSUME SFInv, NEW k \in Keys, Fetched(k) PROVE items[k] = None
BY FetchedHeld, HolderLeads

\* The callers other than one hold what they held.
OthersHold(c) == \A d \in Callers \ {c} : (Holding(d)' <=> Holding(d)) /\ (Holding(d) => task'[d].key = task[d].key)

-----------------------------------------------------------------------------
\* A step after which the same keys are being fetched, and one entry at most is gone.
LEMMA GoneOrSame ==
    ASSUME SFInv, NEW c \in Callers, OthersHold(c), Holding(c)' <=> Holding(c), Holding(c) => task'[c].key = task[c].key,
           NEW k \in Keys, items'[k] \in {items[k], None}, \A x \in Keys \ {k} : items'[x] = items[x]
    PROVE  Promise!FetchNext \/ Status' = Status
<1>1. \A x : Fetched(x)' <=> Fetched(x)
  BY FetchedHeld DEF OthersHold
<1>2. \A x \in Keys \ {k} : StatusOf(x)' = StatusOf(x)
  BY <1>1 DEF StatusOf
<1>3. CASE StatusOf(k)' = StatusOf(k)
  BY <1>2, <1>3 DEF Status
<1>4. CASE StatusOf(k)' # StatusOf(k)
  <2>1. StatusOf(k) = "cached" /\ StatusOf(k)' = "absent"
    BY <1>1, <1>4 DEF StatusOf
  <2>2. Promise!Drop(k)
    BY <1>2, <2>1 DEF Promise!Drop, Promise!Become, StatusOf
  <2> QED BY <2>2 DEF Promise!FetchNext
<1> QED BY <1>3, <1>4

\* A fetch begins, and ends without its key.
LEMMA Starts ==
    ASSUME SFInv, NEW c \in Callers, OthersHold(c), task[c].at \in Leading, NEW k \in Keys, k = task[c].key, items[k] = None,
           ~Holding(c), Holding(c)', task'[c].key = k, UNCHANGED items
    PROVE  Promise!FetchNext
<1>1. ~Fetched(k) /\ Fetched(k)'
  BY FetchedHeld, FetchedAlone
<1>2. \A x \in Keys \ {k} : Fetched(x)' <=> Fetched(x)
  BY FetchedHeld DEF OthersHold
<1>3. StatusOf(k) = "absent" /\ StatusOf(k)' = "fetching" /\ \A x \in Keys \ {k} : StatusOf(x)' = StatusOf(x)
  BY <1>1, <1>2 DEF StatusOf
<1>4. Promise!Start(k)
  BY <1>3 DEF Promise!Start, Promise!Become, StatusOf
<1> QED BY <1>4 DEF Promise!FetchNext

LEMMA Fails ==
    ASSUME SFInv, NEW c \in Callers, OthersHold(c), Holding(c), ~Holding(c)', NEW k \in Keys, k = task[c].key,
           UNCHANGED items
    PROVE  Promise!FetchNext
<1>1. Fetched(k) /\ items[k] = None /\ task[c].at \in Leading
  BY HolderLeads
<1>2. ~Fetched(k)'
  BY <1>1, FetchedHeld, FetchedAlone DEF OthersHold
<1>3. \A x \in Keys \ {k} : Fetched(x)' <=> Fetched(x)
  BY FetchedHeld DEF OthersHold
<1>4. StatusOf(k) = "fetching" /\ StatusOf(k)' = "absent" /\ \A x \in Keys \ {k} : StatusOf(x)' = StatusOf(x)
  BY <1>1, <1>2, <1>3 DEF StatusOf
<1>5. Promise!Fail(k)
  BY <1>1, <1>4 DEF Promise!Fail, Promise!Become, StatusOf
<1> QED BY <1>5 DEF Promise!FetchNext

-----------------------------------------------------------------------------
\* The list has as many keys as are cached.
LEMMA CachedCount ==
    ASSUME SFInv
    PROVE  /\ Promise!Cached = {k \in Keys : items[k] # None}
           /\ Cardinality(Promise!Cached) = Len(lru)
<1>1. Promise!Cached = {k \in Keys : items[k] # None}
  <2>1. \A k \in Keys : StatusOf(k) = "cached" <=> items[k] # None
    BY FetchedUncached DEF StatusOf
  <2> QED BY <2>1 DEF Promise!Cached, StatusOf
<1>2. lru \in Seq(Keys) /\ Len(lru) \in Nat /\ Distinct(lru) /\ \A k \in Keys : items[k] # None <=> Listed(lru, k)
  BY LenProperties, IndexParts DEF SFInv, CacheInv, TypeOK, MapMatchesList
<1> DEFINE n == Len(lru)
           S == {k \in Keys : items[k] # None}
           f == [i \in 1 .. n |-> lru[i]]
<1>3. \A i \in 1 .. n : lru[i] \in S
  BY <1>2, ElementOfSeq DEF Listed
<1>4. f \in Bijection(1 .. n, S)
  <2>1. f \in [1 .. n -> S]
    BY <1>3
  <2>2. \A i, j \in 1 .. n : f[i] = f[j] => i = j
    BY <1>2 DEF Distinct
  <2>3. \A k \in S : \E i \in 1 .. n : f[i] = k
    BY <1>2 DEF Listed
  <2> QED BY <2>1, <2>2, <2>3 DEF Bijection, Injection, Surjection, IsInjective
<1>5. Cardinality(S) = n
  BY <1>2, <1>4, FS_CountingElements DEF ExistsBijection
<1> QED BY <1>1, <1>5

\* What evictLocked takes off a list: nothing while there is room, and the tail of a list one too long.
OffTail(s) == {s[i] : i \in Len(Kept(s)) + 1 .. Len(s)}

LEMMA TailIsOne ==
    ASSUME NEW s \in Seq(Keys), NEW n \in Nat, Len(s) = n + 1, n <= MaxItems
    PROVE  \A x : x \in OffTail(s) <=> n = MaxItems /\ x = s[n + 1]
<1>1. MaxItems \in Nat /\ MaxItems >= 1
  BY CapacityAssumption
<1>2. \A x : x \in OffTail(s) <=> \E i \in Len(Kept(s)) + 1 .. n + 1 : x = s[i]
  BY DEF OffTail
<1>3. CASE n < MaxItems
  <2>1. Kept(s) = s
    BY <1>1, <1>3 DEF Kept
  <2>2. Len(Kept(s)) + 1 .. n + 1 = {}
    BY <2>1
  <2> QED BY <1>2, <1>3, <2>2
<1>4. CASE n = MaxItems
  <2>1. \A i \in 1 .. Len(s) : s[i] \in Keys
    BY ElementOfSeq
  <2>2. \A i \in 1 .. MaxItems : s[i] \in Keys
    BY <1>1, <1>4, <2>1
  <2>3. MaxItems \in Int /\ 1 \in Int /\ 1 <= MaxItems
    BY <1>1
  <2>4. Len(SubSeq(s, 1, MaxItems)) = MaxItems
    BY <2>2, <2>3, SubSeqProperties, Z3
  <2>5. Len(Kept(s)) = n
    BY <1>1, <1>4, <2>4 DEF Kept
  <2>6. Len(Kept(s)) + 1 .. n + 1 = {n + 1}
    BY <2>5
  <2> QED BY <1>2, <1>4, <2>6
<1> QED BY <1>1, <1>3, <1>4

LEMMA SameCount == \A S : Promise!Cardinality(S) = Cardinality(S)
BY DEF Promise!Cardinality, Cardinality

LEMMA EvictsOne ==
    ASSUME SFInv, NEW k \in Keys, items[k] = None, NEW out, out = OffTail(<<k>> \o lru)
    PROVE  /\ out \subseteq Promise!Cached /\ k \notin out
           /\ IF Cardinality(Promise!Cached) < MaxItems THEN out = {} ELSE Cardinality(out) = 1
<1>1. lru \in Seq(Keys) /\ Len(lru) \in Nat /\ Len(lru) <= MaxItems /\ \A x \in Keys : items[x] # None <=> Listed(lru, x)
  BY LenProperties, IndexParts DEF SFInv, CacheInv, TypeOK, MapMatchesList, Capacity
<1>2. Promise!Cached = {x \in Keys : items[x] # None} /\ Cardinality(Promise!Cached) = Len(lru)
  BY CachedCount
<1>3. PICK s, n : s = lru /\ n = Len(lru)
  OBVIOUS
<1>4. <<k>> \in Seq(Keys) /\ Len(<<k>>) = 1 /\ <<k>>[1] = k
  BY LenProperties
<1>5. /\ <<k>> \o s \in Seq(Keys) /\ Len(<<k>> \o s) = n + 1
      /\ n >= 1 => (<<k>> \o s)[n + 1] = s[n]
  <2>1. /\ <<k>> \o s \in Seq(Keys) /\ Len(<<k>> \o s) = Len(<<k>>) + Len(s)
        /\ \A i \in 1 .. Len(<<k>>) + Len(s) : (<<k>> \o s)[i] = IF i <= Len(<<k>>) THEN <<k>>[i] ELSE s[i - Len(<<k>>)]
    BY <1>1, <1>3, <1>4, ConcatProperties
  <2>2. n >= 1 => ~(n + 1 <= 1) /\ (n + 1) - 1 = n /\ n + 1 \in 1 .. 1 + n
    BY <1>1, <1>3
  <2> QED BY <1>1, <1>3, <1>4, <2>1, <2>2
<1>6. \A x : x \in out <=> n = MaxItems /\ x = (<<k>> \o s)[n + 1]
  BY <1>1, <1>3, <1>5, TailIsOne
<1>7. CASE n < MaxItems
  <2>1. out = {}
    BY <1>1, <1>3, <1>6, <1>7
  <2> QED BY <1>2, <1>3, <1>7, <2>1
<1>8. CASE n = MaxItems
  <2>1. n >= 1 /\ n \in 1 .. n
    BY <1>1, <1>3, <1>8, CapacityAssumption
  <2>2. out = {s[n]}
    BY <1>5, <1>6, <1>8, <2>1
  <2>3. s[n] \in Keys /\ items[s[n]] # None
    BY <1>1, <1>3, <2>1, ElementOfSeq DEF Listed
  <2>4. Cardinality(out) = 1
    BY <2>2, FS_Singleton
  <2>5. ~(n < MaxItems)
    BY <1>1, <1>3, <1>8
  <2> QED BY <1>2, <1>3, <2>2, <2>3, <2>4, <2>5
<1> QED BY <1>1, <1>3, <1>7, <1>8, CapacityAssumption

\* The leader's Set inserts the key, and makes room for it.
LEMMA Finishes ==
    ASSUME SFInv, NEW c \in Callers, SetInsert(c), UNCHANGED <<group, task>>, NEW k \in Keys, k = call[c].key
    PROVE  Promise!FetchNext
<1>1. /\ CallerOK(c) /\ call[c].op = "set.index" /\ "set.index" \in Writes /\ call[c].meta \in Meta /\ call[c].meta # None
  BY NoneAssumption DEF SFInv, SetInsert, At, Writes, CacheInv, TypeOK, Meta
<1>2. In(c, "store") /\ k = task[c].key /\ task[c].at \in Leading /\ Holding(c)
  BY <1>1, WriterLeads DEF Holding
<1>3. items[k] = None /\ Fetched(k)
  BY <1>2, HolderLeads
<1>4. items' = [x \in Keys |-> IF x \in OffTail(<<k>> \o lru) THEN None ELSE IF x = k THEN call[c].meta ELSE items[x]]
  BY DEF SetInsert, OffTail
<1>5. PICK out : out = OffTail(<<k>> \o lru)
  OBVIOUS
<1>6. /\ out \subseteq Promise!Cached /\ k \notin out
      /\ IF Cardinality(Promise!Cached) < MaxItems THEN out = {} ELSE Cardinality(out) = 1
  BY <1>3, <1>5, EvictsOne
<1>7. \A x \in Keys : items'[x] = IF x \in out THEN None ELSE IF x = k THEN call[c].meta ELSE items[x]
  BY <1>4, <1>5
<1>8. (\A d \in Callers \ {c} : call'[d] = call[d]) /\ ~Holding(c)'
  BY <1>2, CallFun DEF SetInsert, Leave, Enter, Holding, Writes, In, SFInv
<1>9. ~Fetched(k)' /\ \A x \in Keys \ {k} : Fetched(x)' <=> Fetched(x)
  <2>1. \A d \in Callers \ {c} : (Holding(d)' <=> Holding(d)) /\ task'[d].key = task[d].key
    BY <1>8 DEF Holding, In
  <2>2. \A d \in Callers : Holding(d) /\ task[d].key = k => d = c
    BY <1>2, FetchedAlone
  <2> QED BY <1>2, <1>8, <2>1, <2>2, FetchedHeld
<1>10. Promise!Cached = {x \in Keys : items[x] # None}
  BY CachedCount
<1>11. \A x \in Keys : StatusOf(x)' = IF x = k THEN "cached" ELSE IF x \in out THEN "absent" ELSE StatusOf(x)
  <2>1. \A x \in Keys : x \in out => ~Fetched(x)
    BY <1>6, <1>10, FetchedUncached
  <2> QED BY <1>1, <1>6, <1>7, <1>9, <2>1 DEF StatusOf
<1>12. Promise!Finish(k)
  <2>1. StatusOf(k) = "fetching"
    BY <1>3 DEF StatusOf
  <2>2. out \in SUBSET Promise!Cached
    BY <1>6
  <2> QED BY <1>6, <1>11, <2>1, <2>2, SameCount DEF Promise!Finish, StatusOf
<1> QED BY <1>12 DEF Promise!FetchNext

-----------------------------------------------------------------------------
LEMMA Unmoved ==
    ASSUME NEW c \in Callers, \A d \in Callers \ {c} : task'[d] = task[d] /\ call'[d] = call[d]
    PROVE  OthersHold(c)
BY DEF OthersHold, Holding, In

LEMMA SameSeen ==
    ASSUME NEW c \in Callers, OthersHold(c), Holding(c)' <=> Holding(c), Holding(c) => task'[c].key = task[c].key,
           UNCHANGED items
    PROVE  Status' = Status
<1>1. \A x : Fetched(x)' <=> Fetched(x)
  BY FetchedHeld DEF OthersHold
<1> QED BY <1>1 DEF Status, StatusOf

\* Unindexing takes the entry of its key at most, and so does a lookup.
LEMMA OneGone ==
    ASSUME CacheInv, NEW k \in Keys, Unindex(k) \/ UNCHANGED items
    PROVE  items'[k] \in {items[k], None} /\ \A x \in Keys \ {k} : items'[x] = items[x]
BY DEF CacheInv, TypeOK, Unindex

LEMMA LookupGone ==
    ASSUME CacheInv, NEW c \in Callers, NEW k \in Keys, GetLookup(c, k)
    PROVE  items'[k] \in {items[k], None} /\ \A x \in Keys \ {k} : items'[x] = items[x]
BY OneGone DEF GetLookup, index

\* A flight that ends takes its waiters with it, and they held nothing.
LEMMA Landing ==
    ASSUME SFInv, NEW c \in Callers, NEW at \in {"done", "failed"}, NEW b, NEW m, Land(c, at, b, m),
           \A d \in Callers \ {c} : call'[d] = call[d]
    PROVE  OthersHold(c) /\ ~Holding(c)'
<1>1. \A d \in Callers : task'[d] = IF d = c \/ (In(d, "wait") /\ task[d].key = task[c].key)
                                      THEN TaskRec(at, task[c].key, b, m) ELSE task[d]
  BY DEF Land
<1>2. \A d \in Callers : task'[d] = task[d] \/ (task'[d].at = at /\ (d = c \/ In(d, "wait")))
  BY <1>1 DEF TaskRec
<1>3. task'[c].at = at
  BY <1>1 DEF TaskRec
<1> QED BY <1>2, <1>3 DEF OthersHold, Holding, In

-----------------------------------------------------------------------------
\* The steps that begin or drop a request: what is not fetched stays so.
LEMMA OutsideSteps ==
    ASSUME SFInv, NEW c \in Callers, NEW k \in Keys, Request(c, k) \/ Delete(c, k)
    PROVE  Promise!FetchNext \/ Status' = Status
<1>1. CacheInv /\ task \in [Callers -> Task] /\ call \in [Callers -> Call]
  BY CallFun DEF SFInv, Shapes
<1>2. task[c].at \notin Active /\ ~Holding(c)
  BY DEF Request, Delete, Free, Holding, In, Active, Leading
<1>3. /\ \A d \in Callers \ {c} : task'[d] = task[d]
      /\ task'[c].at \in {"fast", "idle"}
  BY <1>1 DEF Request, Delete, Put, TaskRec, NoTask
<1>4. /\ \A d \in Callers \ {c} : call'[d] = call[d]
      /\ items'[k] \in {items[k], None} /\ \A x \in Keys \ {k} : items'[x] = items[x]
  <2>1. CASE Request(c, k)
    BY <1>1, <2>1, LookupDoes, LookupGone DEF Request
  <2>2. CASE Delete(c, k)
    <3>1. Unindex(k) /\ Enter(c, "delete.storage", k, None)
      BY <2>2 DEF Delete, DeleteIndex
    <3> QED BY <1>1, <3>1, OneGone DEF Enter
  <2> QED BY <2>1, <2>2
<1>5. ~Holding(c)'
  BY <1>3 DEF Holding, In
<1> QED BY <1>2, <1>3, <1>4, <1>5, Unmoved, GoneOrSame

\* The steps of GetOrFetch around its cache calls.
LEMMA FetchSteps ==
    ASSUME SFInv, NEW c \in Callers,
           FastHit(c) \/ Join(c) \/ Lead(c) \/ DoubleCheck(c) \/ CheckHit(c) \/ PullFails(c) \/ Stored(c)
    PROVE  Promise!FetchNext \/ Status' = Status
<1>1. CacheInv /\ CallerOK(c) /\ task \in [Callers -> Task] /\ call \in [Callers -> Call]
  BY CallFun DEF SFInv, Shapes
<1>2. ~Holding(c)
  BY DEF FastHit, Join, Lead, DoubleCheck, CheckHit, PullFails, Stored, Holding, In, At, Writes
<1>3. ASSUME Take(c) PROVE UNCHANGED items /\ \A d \in Callers \ {c} : call'[d] = call[d]
  BY <1>1, <1>3 DEF Take, index
<1>4. CASE FastHit(c) \/ Join(c) \/ Lead(c)
  <2>1. /\ \A d \in Callers \ {c} : task'[d] = task[d]
        /\ task'[c].at \in {"done", "wait", "check"} /\ Take(c)
    BY <1>1, <1>4 DEF FastHit, Join, Lead, Put, TaskRec
  <2>2. ~Holding(c)'
    BY <2>1 DEF Holding, In
  <2> QED BY <1>2, <1>3, <2>1, <2>2, Unmoved, SameSeen
<1>5. CASE DoubleCheck(c)
  <2>1. GetLookup(c, task[c].key) /\ UNCHANGED task /\ In(c, "check") /\ task[c].key \in Keys
    BY <1>1, <1>5 DEF DoubleCheck, CallerOK, Held, In, Active, Leading
  <2>2. PICK k \in Keys : k = task[c].key
    BY <2>1
  <2>3. GetLookup(c, k)
    BY <2>1, <2>2
  <2>4. \A d \in Callers \ {c} : call'[d] = call[d]
    BY <1>1, <2>3, LookupDoes
  <2>5. items'[k] \in {items[k], None} /\ \A x \in Keys \ {k} : items'[x] = items[x]
    BY <1>1, <2>3, LookupGone
  <2>6. ~Holding(c)'
    BY <2>1 DEF Holding, In
  <2> QED BY <1>2, <2>1, <2>4, <2>5, <2>6, Unmoved, GoneOrSame
<1>6. CASE CheckHit(c) \/ PullFails(c) \/ Stored(c)
  <2>1. Take(c) /\ \E at \in {"done", "failed"} : \E b, m : Land(c, at, b, m)
    BY <1>6 DEF CheckHit, PullFails, Stored
  <2>2. OthersHold(c) /\ ~Holding(c)'
    BY <1>3, <2>1, Landing
  <2> QED BY <1>2, <1>3, <2>1, <2>2, SameSeen
<1> QED BY <1>4, <1>5, <1>6

\* The pull begins the fetch, and a body or a write that fails ends it.
LEMMA PullSteps ==
    ASSUME SFInv, NEW c \in Callers, Pull(c) \/ Store(c) \/ BodyFails(c)
    PROVE  Promise!FetchNext \/ Status' = Status
<1>1. CacheInv /\ CallerOK(c) /\ Missed(c) /\ task \in [Callers -> Task] /\ call \in [Callers -> Call]
  BY CallFun DEF SFInv, Shapes
<1>2. task[c].at \in Leading /\ task[c].key \in Keys
  BY <1>1 DEF Pull, Store, BodyFails, CallerOK, Held, In, Active, Leading
<1>3. PICK k \in Keys : k = task[c].key
  BY <1>2
<1>4. CASE Pull(c)
  <2>1. ~Holding(c) /\ items[k] = None
    BY <1>1, <1>3, <1>4 DEF Pull, Holding, Missed, Fetching, In, At
  <2>2. /\ \A d \in Callers \ {c} : task'[d] = task[d] /\ call'[d] = call[d]
        /\ task'[c].at = "body" /\ task'[c].key = k /\ UNCHANGED items
    BY <1>1, <1>3, <1>4 DEF Pull, Put, TaskRec, Take, index
  <2>3. Holding(c)'
    BY <2>2 DEF Holding, In
  <2> QED BY <1>2, <1>3, <2>1, <2>2, <2>3, Unmoved, Starts
<1>5. CASE Store(c)
  <2>1. Holding(c)
    BY <1>5 DEF Store, Holding
  <2>2. PICK m : SetContent(c, k, m) /\ Put(c, "store", k, task[c].body, m)
    BY <1>3, <1>5 DEF Store
  <2>3. /\ \A d \in Callers \ {c} : task'[d] = task[d]
        /\ task'[c].at = "store" /\ task'[c].key = k
    BY <1>1, <2>2 DEF Put, TaskRec
  <2>4. /\ \A d \in Callers \ {c} : call'[d] = call[d]
        /\ call'[c].op \in {"set.meta", "set.err"} /\ UNCHANGED items
    BY <1>1, <2>2 DEF SetContent, Enter, index
  <2>5. CASE call'[c].op = "set.meta"
    <3>1. Holding(c)'
      BY <2>3, <2>5 DEF Holding, In, Writes
    <3> QED BY <1>3, <2>1, <2>3, <2>4, <3>1, Unmoved, SameSeen
  <2>6. CASE call'[c].op = "set.err"
    <3>1. ~Holding(c)'
      BY <2>3, <2>6 DEF Holding, In, Writes
    <3> QED BY <1>3, <2>1, <2>3, <2>4, <3>1, Unmoved, Fails
  <2> QED BY <2>4, <2>5, <2>6
<1>6. CASE BodyFails(c)
  <2>1. Holding(c) /\ Land(c, "failed", None, None) /\ UNCHANGED <<items, call>>
    BY <1>6 DEF BodyFails, Holding, vars
  <2>2. OthersHold(c) /\ ~Holding(c)'
    BY <2>1, Landing
  <2> QED BY <1>3, <2>1, <2>2, Fails
<1> QED BY <1>4, <1>5, <1>6

\* The steps inside a cache call.
LEMMA CacheSteps ==
    ASSUME SFInv, NEW c \in Callers, CacheStep(c)
    PROVE  Promise!FetchNext \/ Status' = Status
<1>1. /\ CacheInv /\ CallerOK(c) /\ Missed(c) /\ call \in [Callers -> Call] /\ UNCHANGED <<group, task>>
      /\ CallStep(c) /\ (call[c].op \in Underway => call[c].key \in Keys)
  BY CallFun, CallTyped DEF SFInv, CacheStep
<1>2. CASE GetRead(c) \/ GetReadFails(c) \/ DeleteStorage(c)
  <2>1. /\ \A d \in Callers \ {c} : call'[d] = call[d]
        /\ call[c].op \notin Writes /\ call'[c].op \notin Writes /\ UNCHANGED items
    <3>1. CASE GetRead(c)
      <4>1. call' = [call EXCEPT ![c].op = "get.hit", ![c].body = disk[call[c].key]] /\ UNCHANGED items
            /\ call[c].op = "get.read"
        BY <3>1 DEF GetRead, At, index
      <4>2. (\A d \in Callers \ {c} : call'[d] = call[d]) /\ call'[c].op = "get.hit"
        BY <1>1, <4>1 DEF Call
      <4> QED BY <4>1, <4>2 DEF Writes
    <3>2. CASE GetReadFails(c) \/ DeleteStorage(c)
      BY <1>1, <3>2 DEF GetReadFails, DeleteStorage, Leave, Enter, At, Writes, index
    <3> QED BY <1>2, <3>1, <3>2
  <2>2. Holding(c)' <=> Holding(c)
    BY <1>1, <2>1 DEF Holding, In
  <2> QED BY <1>1, <2>1, <2>2, Unmoved, SameSeen
<1>3. CASE GetEvict(c)
  <2>1. call[c].op = "get.evict" /\ call[c].key \in Keys /\ Unindex(call[c].key) /\ Leave(c, "get.miss")
    BY <1>1, <1>3 DEF GetEvict, At, Underway
  <2>2. PICK k \in Keys : k = call[c].key
    BY <2>1
  <2>3. items'[k] \in {items[k], None} /\ \A x \in Keys \ {k} : items'[x] = items[x]
    BY <1>1, <2>1, <2>2, OneGone
  <2>4. (\A d \in Callers \ {c} : call'[d] = call[d]) /\ call'[c].op = "get.miss"
    BY <1>1, <2>1 DEF Leave, Enter
  <2>5. Holding(c)' <=> Holding(c)
    BY <1>1, <2>1, <2>4 DEF Holding, In, Writes
  <2> QED BY <1>1, <2>3, <2>4, <2>5, Unmoved, GoneOrSame
<1>4. CASE SetMeta(c)
  <2>1. call[c].op = "set.meta" /\ "set.meta" \in Writes /\ UNCHANGED items
    BY <1>4 DEF SetMeta, At, Writes, index
  <2>2. In(c, "store") /\ task[c].key \in Keys /\ Holding(c)
    BY <1>1, <2>1, WriterLeads DEF Holding
  <2>3. PICK k \in Keys : k = task[c].key
    BY <2>2
  <2>4. (\A d \in Callers \ {c} : call'[d] = call[d]) /\ call'[c].op \in {"set.index", "set.err"}
    BY <1>1, <1>4 DEF SetMeta, Leave, Enter
  <2>5. CASE call'[c].op = "set.index"
    <3>1. Holding(c)'
      BY <1>1, <2>2, <2>5 DEF Holding, In, Writes
    <3> QED BY <1>1, <2>1, <2>2, <2>4, <3>1, Unmoved, SameSeen
  <2>6. CASE call'[c].op = "set.err"
    <3>1. ~Holding(c)'
      BY <1>1, <2>2, <2>6 DEF Holding, In, Writes
    <3> QED BY <1>1, <2>1, <2>2, <2>3, <2>4, <3>1, Unmoved, Fails
  <2> QED BY <2>4, <2>5, <2>6
<1>5. CASE SetUpdate(c)
  <2>1. call[c].op = "set.index" /\ items[call[c].key] # None /\ "set.index" \in Writes
    BY <1>5 DEF SetUpdate, At, Writes
  <2>2. In(c, "store") /\ call[c].key = task[c].key
    BY <1>1, <2>1, WriterLeads
  <2> QED BY <1>1, <2>1, <2>2 DEF Missed, Fetching, At
<1>6. CASE SetInsert(c)
  <2>1. call[c].key \in Keys
    BY <1>1, <1>6 DEF SetInsert, At, Underway
  <2>2. PICK k \in Keys : k = call[c].key
    BY <2>1
  <2> QED BY <1>1, <1>6, <2>2, Finishes
<1> QED BY <1>1, <1>2, <1>3, <1>4, <1>5, <1>6 DEF CallStep

-----------------------------------------------------------------------------
LEMMA StatusInit == SFInit => Promise!FetchInit
<1> SUFFICES ASSUME SFInit PROVE Promise!FetchInit
  OBVIOUS
<1>1. \A k \in Keys : ~Fetched(k) /\ items[k] = None
  BY DEF SFInit, Init, NoTask, Fetched, In
<1> QED BY <1>1 DEF Promise!FetchInit

LEMMA StatusStep == SFInv /\ [SFNext]_sfvars => Promise!FetchNext \/ Status' = Status
<1> SUFFICES ASSUME SFInv, [SFNext]_sfvars PROVE Promise!FetchNext \/ Status' = Status
  OBVIOUS
<1>1. ASSUME NEW c \in Callers, FetchStep(c) PROVE Promise!FetchNext \/ Status' = Status
  BY <1>1, CacheSteps, FetchSteps, PullSteps DEF FetchStep
<1>2. ASSUME UNCHANGED <<items, call, task>> PROVE Status' = Status
  BY <1>2 DEF Status, StatusOf, Fetched, In, At
<1>3. CASE SFTick
  BY <1>2, <1>3 DEF SFTick, Tick, index
<1>4. CASE UNCHANGED sfvars
  BY <1>2, <1>4 DEF sfvars, vars
<1> QED BY <1>1, <1>3, <1>4, OutsideSteps DEF SFNext

\* GetOrFetch implements FetchOnce for every set of keys and callers and every capacity: of each key there is
\* one fetch at a time and none while it is cached, and a Set evicts at most one key (singleflight.go 35-85,
\* cache.go 94-112, 153-164).
THEOREM FetchesOnceHolds == SFSpec => FetchesOnce
<1>1. SFInv /\ [SFNext]_sfvars => [Promise!FetchNext]_Status
  BY StatusStep
<1> QED BY SFSafe, StatusInit, <1>1, PTL DEF SFSpec, FetchesOnce, Promise!FetchSpec, Status, StatusOf

=============================================================================
