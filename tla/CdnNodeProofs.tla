---------------------------- MODULE CdnNodeProofs ----------------------------
(***************************************************************************)
(* A node over the cache and the flush rules, for every set of clients,    *)
(* administrators, keys and prefixes, failing storage and restarts: the    *)
(* parts of a request agree, what is served never goes back, and a flush   *)
(* is honoured by every request that arrives after it.                     *)
(***************************************************************************)
EXTENDS MCCdnStepBack, MCCdnFlush, SingleflightProofs, WellFoundedInduction

\* A request has a key from its arrival to its answer, and its GetOrFetch is for that key.
VisitOK(c) ==
    /\ visit[c].at = "idle" <=> visit[c].key = None
    /\ task[c].at # "idle" => Seen(c, "serve") /\ task[c].key = visit[c].key
NodeInv ==
    /\ SFInv /\ F!RulesTypeOK
    /\ visit \in [Clients -> Visit]
    /\ \A c \in Clients : VisitOK(c)
    /\ \A a \in Admins : task[a].at = "idle"

LEMMA NodeTyped == NodeInv => NodeTypeOK
<1> SUFFICES ASSUME NodeInv PROVE NodeTypeOK
  OBVIOUS
<1>1. SFTypeOK
  BY SFTyped DEF NodeInv
<1>2. ASSUME NEW c \in Clients
      PROVE  /\ visit[c].at \in {"check", "flush", "checked", "peek", "serve"} => visit[c].key \in Keys
             /\ task[c].at # "idle" => Seen(c, "serve") /\ task[c].key = visit[c].key
  BY DEF NodeInv, VisitOK, Visit
<1> QED BY <1>1, <1>2 DEF NodeInv, NodeTypeOK

-----------------------------------------------------------------------------
\* The flush rules and the goroutines changing them.
LEMMA RulesKeep ==
    ASSUME F!RulesTypeOK, NEW a \in Admins,
           F!Insert(a) \/ F!Drop(a) \/ F!Cleanup(a) \/ \E p \in RulePrefixes : F!AddRule(a, p)
    PROVE  F!RulesTypeOK'
<1> USE DEF F!RulesTypeOK, F!Rule, F!Writer, F!NoWriter, F!Doing
<1>1. CASE F!Insert(a)
  BY <1>1 DEF F!Insert, F!Change
<1>2. CASE F!Drop(a)
  BY <1>2 DEF F!Drop, F!Change
<1>3. CASE F!Cleanup(a)
  BY <1>3 DEF F!Cleanup, F!Write
<1>4. ASSUME NEW p \in RulePrefixes, F!AddRule(a, p) PROVE F!RulesTypeOK'
  BY <1>4 DEF F!AddRule, F!Write
<1> QED BY <1>1, <1>2, <1>3, <1>4

LEMMA RulesStay == ASSUME F!RulesTypeOK, UNCHANGED store, now' \in Nat PROVE F!RulesTypeOK'
BY DEF F!RulesTypeOK, F!Doing, store

\* A caller outside GetOrFetch that changes nothing of the cache but its own call.
LEMMA OutsideKeeps ==
    ASSUME SFInv, NEW c \in Callers, CacheInv', Shrink, UNCHANGED group, task' \in [Callers -> Task],
           \A d \in Callers \ {c} : task'[d] = task[d] /\ call'[d] = call[d],
           task[c].at \notin Active, task'[c].at \in {"idle", "done", "failed"}, Held(task'[c]),
           call'[c].op \in Deletes \cup {"idle", "stat.hit", "stat.miss"}
    PROVE  SFInv'
<1>1. CallerOK(c)' /\ Missed(c)' /\ Written(c)'
  BY DEF CallerOK, InStep, Missed, Fetching, Written, Writes, Deletes, Active, Leading, In
<1>2. task'[c].at \notin Leading /\ task[c].at \notin Leading /\ task'[c].at # "wait"
  BY DEF Active, Leading
<1> QED BY <1>1, <1>2, MoveKeeps

\* The Stat with which the flush check and X-Cache begin.
LEMMA StatOutside ==
    ASSUME SFInv, NEW c \in Callers, NEW k \in Keys, Stat(c, k), UNCHANGED <<group, task>>, task[c].at \notin Active
    PROVE  SFInv'
<1>1. CacheInv /\ CacheInv' /\ UNCHANGED <<items, disk>> /\ Held(task[c]) /\ task \in [Callers -> Task]
  BY StatKeeps DEF SFInv, Stat, index, CallerOK, Shapes
<1>2. /\ \A d \in Callers \ {c} : call'[d] = call[d]
      /\ call'[c].op \in {"stat.hit", "stat.miss"}
  BY <1>1, CallFun DEF Stat, Enter
<1>3. task[c].at \in {"idle", "done", "failed"}
  BY <1>1 DEF Task
<1> QED BY <1>1, <1>2, <1>3, OutsideKeeps DEF Shrink

-----------------------------------------------------------------------------
\* What a step of GetOrFetch does to the tasks: none begins, none changes its key.
Onward == \A d \in Callers : task'[d] = task[d] \/ (task[d].at # "idle" /\ task'[d].key = task[d].key)

LEMMA FetchGoesOn == ASSUME SFInv, NEW c \in Callers, FetchStep(c) PROVE Onward
<1> USE DEF Onward
<1>1. /\ task \in [Callers -> Task]
      /\ \A at, b, m : Put(c, at, task[c].key, b, m) /\ task[c].at # "idle" => Onward
      /\ \A at, b, m : Land(c, at, b, m) /\ task[c].at # "idle" => Onward
  BY DEF SFInv, Shapes, Put, Land, TaskRec, In
<1>2. CASE CacheStep(c) \/ DoubleCheck(c)
  BY <1>2 DEF CacheStep, DoubleCheck
<1>3. CASE FastHit(c) \/ Join(c) \/ Lead(c)
  BY <1>1, <1>3 DEF FastHit, Join, Lead, In
<1>4. CASE CheckHit(c) \/ PullFails(c) \/ BodyFails(c) \/ Stored(c)
  BY <1>1, <1>4 DEF CheckHit, PullFails, BodyFails, Stored, In
<1>5. CASE Pull(c) \/ Store(c)
  BY <1>1, <1>5 DEF Pull, Store, In
<1> QED BY <1>2, <1>3, <1>4, <1>5 DEF FetchStep

\* Steps inside the cache and GetOrFetch, the visits and the rules left alone.
LEMMA InsideKeeps ==
    ASSUME NodeInv, SFInv', Onward, UNCHANGED <<visit, store>>, now' \in Nat
    PROVE  NodeInv'
<1>1. F!RulesTypeOK'
  BY RulesStay DEF NodeInv
<1>2. \A c \in Clients : VisitOK(c)'
  <2>1. \A c \in Clients : c \in Callers
    BY CallersAssumption
  <2> QED BY <2>1 DEF NodeInv, VisitOK, Onward, Seen
<1>3. \A a \in Admins : task'[a].at = "idle"
  BY CallersAssumption DEF NodeInv, Onward
<1> QED BY <1>1, <1>2, <1>3 DEF NodeInv

\* The steps of one request; the tasks of the others stay.
LEMMA VisitKeeps ==
    ASSUME NodeInv, SFInv', NEW c \in Clients, NEW v \in Visit, visit' = [visit EXCEPT ![c] = v],
           UNCHANGED <<store, now>>, \A d \in Callers \ {c} : task'[d] = task[d],
           v.at = "idle" <=> v.key = None, task'[c].at # "idle" => v.at = "serve" /\ task'[c].key = v.key
    PROVE  NodeInv'
<1>1. F!RulesTypeOK'
  BY RulesStay DEF NodeInv, F!RulesTypeOK
<1>2. visit' \in [Clients -> Visit] /\ visit'[c] = v /\ \A d \in Clients \ {c} : visit'[d] = visit[d]
  BY DEF NodeInv
<1>3. \A d \in Clients : VisitOK(d)'
  BY <1>2, CallersAssumption DEF NodeInv, VisitOK, Seen
<1>4. \A a \in Admins : task'[a].at = "idle"
  BY CallersAssumption DEF NodeInv
<1> QED BY <1>1, <1>2, <1>3, <1>4 DEF NodeInv

-----------------------------------------------------------------------------
LEMMA NowTyped == NodeInv => now \in Nat /\ bodies \in Nat
BY DEF NodeInv, SFInv, CacheInv, TypeOK

\* What the task of a request that does not serve is, and what Request and Delete make of it.
LEMMA OutOfFetch == ASSUME NodeInv, NEW c \in Clients, ~Seen(c, "serve") PROVE task[c].at = "idle"
BY DEF NodeInv, VisitOK

LEMMA RequestTask ==
    ASSUME SFInv, NEW c \in Callers, NEW k \in Keys, Request(c, k)
    PROVE  task'[c] = TaskRec("fast", k, None, None) /\ \A d \in Callers \ {c} : task'[d] = task[d]
BY PutOne DEF Request, Active

LEMMA DeleteTask ==
    ASSUME SFInv, NEW c \in Callers, NEW k \in Keys, Delete(c, k)
    PROVE  task'[c] = NoTask /\ \A d \in Callers \ {c} : task'[d] = task[d]
BY DEF Delete, SFInv, Shapes

LEMMA ArriveKeeps == ASSUME NodeInv, NEW c \in Clients, NEW k \in Keys, Arrive(c, k) PROVE NodeInv'
<1> DEFINE v == [at |-> "check", key |-> k, hit |-> FALSE]
<1>1. c \in Callers /\ SFInv /\ task[c].at = "idle"
  BY CallersAssumption, OutOfFetch DEF NodeInv, Arrive, Seen
<1>2. SFInv'
  BY <1>1, StatOutside DEF Arrive, Active, Leading
<1>3. v \in Visit /\ v.at # "idle" /\ v.key # None /\ visit' = [visit EXCEPT ![c] = v]
  BY NoneAssumption DEF Visit, Arrive
<1>4. UNCHANGED <<store, now, task>>
  BY DEF Arrive, Stat
<1> HIDE DEF v
<1> QED BY <1>1, <1>2, <1>3, <1>4, VisitKeeps

LEMMA ProceedTo ==
    ASSUME NodeInv, NEW c \in Clients, NEW at \in {"flush", "checked", "peek"}, Proceed(c, at), visit[c].at # "idle"
    PROVE  /\ visit' = [visit EXCEPT ![c] = [visit[c] EXCEPT !.at = at]]
           /\ [visit[c] EXCEPT !.at = at] \in Visit
           /\ [visit[c] EXCEPT !.at = at].at = at
           /\ [visit[c] EXCEPT !.at = at].key = visit[c].key
           /\ visit[c].key \in Keys
BY DEF NodeInv, Visit, Proceed, VisitOK

LEMMA MatchKeeps == ASSUME NodeInv, NEW c \in Clients, Match(c) PROVE NodeInv'
<1> DEFINE v == [visit[c] EXCEPT !.at = visit'[c].at]
<1>1. SFInv' /\ UNCHANGED <<store, now, task>> /\ visit[c].at = "check" /\ task[c].at = "idle"
  BY OutOfFetch DEF NodeInv, Match, Seen, sfvars, vars, SFInv, CacheInv, TypeOK, IndexConsistent, Shapes,
     FlightsConsistent, IndexMatchesDisk, In, CallerOK, Missed, Fetching, Written, At
<1>2. PICK at \in {"flush", "checked"} : Proceed(c, at)
  BY DEF Match
<1>3. /\ visit' = [visit EXCEPT ![c] = [visit[c] EXCEPT !.at = at]]
      /\ [visit[c] EXCEPT !.at = at] \in Visit
      /\ [visit[c] EXCEPT !.at = at].at = at
      /\ [visit[c] EXCEPT !.at = at].key = visit[c].key
      /\ visit[c].key \in Keys
  BY <1>1, <1>2, ProceedTo
<1> QED BY <1>1, <1>3, VisitKeeps, NoneAssumption

LEMMA EvictKeeps == ASSUME NodeInv, NEW c \in Clients, Evict(c) PROVE NodeInv'
<1>1. visit[c].at = "flush" /\ Proceed(c, "checked") /\ UNCHANGED <<store, now>>
  BY DEF Evict, Seen, Delete, DeleteIndex
<1>2. /\ visit' = [visit EXCEPT ![c] = [visit[c] EXCEPT !.at = "checked"]]
      /\ [visit[c] EXCEPT !.at = "checked"] \in Visit
      /\ [visit[c] EXCEPT !.at = "checked"].at = "checked"
      /\ [visit[c] EXCEPT !.at = "checked"].key = visit[c].key
      /\ visit[c].key \in Keys
  BY <1>1, ProceedTo
<1>3. c \in Callers /\ SFInv /\ Delete(c, visit[c].key)
  BY CallersAssumption DEF NodeInv, Evict
<1>4. SFInv' /\ task'[c] = NoTask /\ \A d \in Callers \ {c} : task'[d] = task[d]
  BY <1>2, <1>3, DeleteKeeps, DeleteTask
<1>5. task'[c].at = "idle"
  BY <1>4 DEF NoTask
<1> QED BY <1>1, <1>2, <1>4, <1>5, VisitKeeps, NoneAssumption

LEMMA PeekKeeps == ASSUME NodeInv, NEW c \in Clients, Peek(c) PROVE NodeInv'
<1>1. visit[c].at \in {"check", "checked"} /\ Proceed(c, "peek") /\ UNCHANGED <<store, now, task, group>>
      /\ Stat(c, visit[c].key)
  BY DEF Peek, Seen, Stat
<1>2. /\ visit' = [visit EXCEPT ![c] = [visit[c] EXCEPT !.at = "peek"]]
      /\ [visit[c] EXCEPT !.at = "peek"] \in Visit
      /\ [visit[c] EXCEPT !.at = "peek"].at = "peek"
      /\ [visit[c] EXCEPT !.at = "peek"].key = visit[c].key
      /\ visit[c].key \in Keys
  BY <1>1, ProceedTo
<1>3. c \in Callers /\ SFInv /\ task[c].at = "idle"
  BY <1>1, CallersAssumption, OutOfFetch DEF NodeInv, Seen
<1>4. SFInv'
  BY <1>1, <1>2, <1>3, StatOutside DEF Active, Leading
<1> QED BY <1>1, <1>2, <1>3, <1>4, VisitKeeps, NoneAssumption

LEMMA ServeKeeps == ASSUME NodeInv, NEW c \in Clients, Serve(c) PROVE NodeInv'
<1> DEFINE v == [visit[c] EXCEPT !.at = "serve", !.hit = At(c, "stat.hit")]
<1>1. visit[c].at = "peek" /\ Request(c, visit[c].key) /\ UNCHANGED <<store, now>> /\ visit' = [visit EXCEPT ![c] = v]
  BY DEF Serve, Seen, Request, GetLookup, NodeInv
<1>2. v \in Visit /\ v.at = "serve" /\ v.key = visit[c].key /\ visit[c].key \in Keys
  BY <1>1 DEF NodeInv, Visit, VisitOK, At
<1>3. c \in Callers /\ SFInv
  BY CallersAssumption DEF NodeInv
<1>4. SFInv' /\ task'[c] = TaskRec("fast", v.key, None, None) /\ \A d \in Callers \ {c} : task'[d] = task[d]
  BY <1>1, <1>2, <1>3, RequestKeeps, RequestTask
<1>5. task'[c].key = v.key
  BY <1>4 DEF TaskRec
<1> HIDE DEF v
<1> QED BY <1>1, <1>2, <1>4, <1>5, VisitKeeps, NoneAssumption

LEMMA RespondKeeps == ASSUME NodeInv, NEW c \in Clients, Respond(c) PROVE NodeInv'
<1>1. c \in Callers /\ SFInv /\ Held(task[c]) /\ CallerOK(c) /\ task[c].at \notin Active /\ CacheInv
  BY CallersAssumption DEF NodeInv, SFInv, CallerOK, Respond, Free
<1>2. NoTask \in Task /\ Held(NoTask) /\ NoTask.at = "idle"
  BY DEF NoTask, Task, Held, Active, Leading
<1>3. task' \in [Callers -> Task] /\ task'[c] = NoTask /\ \A d \in Callers \ {c} : task'[d] = task[d]
  BY <1>1, <1>2 DEF Respond, SFInv, Shapes
<1>4. CacheInv' /\ UNCHANGED <<items, disk, call, group, store, now>>
  BY <1>1 DEF Respond, vars, CacheInv, TypeOK, IndexConsistent
<1>5. call[c].op \in Deletes \cup {"idle", "stat.hit", "stat.miss"}
  BY <1>1 DEF CallerOK, InStep, Held, Task
<1>6. SFInv'
  BY <1>1, <1>2, <1>3, <1>4, <1>5, OutsideKeeps DEF Shrink
<1>7. NoVisit \in Visit /\ NoVisit.at = "idle" /\ NoVisit.key = None /\ visit' = [visit EXCEPT ![c] = NoVisit]
  BY DEF NoVisit, Visit, Respond
<1> QED BY <1>2, <1>3, <1>4, <1>6, <1>7, VisitKeeps

-----------------------------------------------------------------------------
LEMMA ServeStepKeeps == ASSUME NodeInv, NEW c \in Clients, ServeStep(c) PROVE NodeInv'
<1>1. CASE FetchStep(c) /\ UNCHANGED <<visit, store>>
  <2>1. c \in Callers /\ SFInv
    BY CallersAssumption DEF NodeInv
  <2>2. SFNext
    BY <1>1, <2>1 DEF SFNext
  <2>3. SFInv' /\ Onward
    BY <1>1, <2>1, <2>2, SFStepKeeps, FetchGoesOn
  <2>4. now' \in Nat
    BY <2>3 DEF SFInv, CacheInv, TypeOK
  <2> QED BY <1>1, <2>3, <2>4, InsideKeeps
<1> QED BY <1>1, MatchKeeps, EvictKeeps, PeekKeeps, ServeKeeps, RespondKeeps DEF ServeStep

LEMMA AdminKeeps ==
    ASSUME NodeInv, NEW a \in Admins,
           \/ CacheStep(a) /\ UNCHANGED <<visit, store>>
           \/ AdminStep(a) \/ Reload(a)
           \/ \E k \in Keys : FlushURL(a, k)
           \/ \E p \in RulePrefixes : FlushPrefix(a, p)
    PROVE  NodeInv'
<1>1. a \in Callers /\ SFInv /\ task[a].at = "idle"
  BY CallersAssumption DEF NodeInv
<1>2. CASE CacheStep(a) /\ UNCHANGED <<visit, store>>
  <2>1. SFInv' /\ UNCHANGED task
    BY <1>1, <1>2, CacheStepKeeps DEF CacheStep
  <2>2. now' \in Nat
    BY <2>1 DEF SFInv, CacheInv, TypeOK
  <2> QED BY <1>2, <2>1, <2>2, InsideKeeps DEF Onward
<1>3. ASSUME NEW k \in Keys, FlushURL(a, k) PROVE NodeInv'
  <2>1. SFInv' /\ task'[a] = NoTask /\ \A d \in Callers \ {a} : task'[d] = task[d]
    BY <1>1, <1>3, DeleteKeeps, DeleteTask DEF FlushURL
  <2>2. UNCHANGED <<visit, store, now>>
    BY <1>3 DEF FlushURL, Delete, DeleteIndex
  <2>3. F!RulesTypeOK'
    BY <2>2, RulesStay, NowTyped DEF NodeInv
  <2>4. \A c \in Clients : VisitOK(c)'
    BY <2>1, <2>2, CallersAssumption DEF NodeInv, VisitOK, Seen
  <2>5. \A b \in Admins : task'[b].at = "idle"
    BY <2>1, CallersAssumption DEF NodeInv, NoTask
  <2> QED BY <2>1, <2>2, <2>3, <2>4, <2>5 DEF NodeInv
<1>4. CASE AdminStep(a) \/ Reload(a) \/ \E p \in RulePrefixes : FlushPrefix(a, p)
  <2>1. UNCHANGED <<sfvars, visit>> /\ F!RulesTypeOK'
    BY <1>4, RulesKeep DEF NodeInv, AdminStep, Reload, FlushPrefix
  <2>2. SFInv'
    BY <1>1, <2>1, SFStepKeeps
  <2>3. UNCHANGED task
    BY <2>1 DEF sfvars
  <2> QED BY <2>1, <2>2, <2>3 DEF NodeInv, VisitOK, Seen
<1> QED BY <1>2, <1>3, <1>4

LEMMA DieKeeps == ASSUME NodeInv, Die PROVE NodeInv'
<1>1. /\ items' = [k \in Keys |-> None] /\ lru' = <<>> /\ UNCHANGED <<disk, now, bodies>>
      /\ call' = [c \in Callers |-> Idle] /\ group' = [k \in Keys |-> None] /\ task' = [c \in Callers |-> NoTask]
      /\ visit' = [c \in Clients |-> NoVisit]
  BY DEF Die
<1>2. CacheInv'
  <2>1. lru' \in Seq(Keys) /\ Len(lru') = 0
    BY <1>1
  <2>2. Idle \in Call /\ Idle.op \notin Underway
    BY DEF Idle, Call, Underway
  <2>3. TypeOK'
    BY <1>1, <2>1, <2>2, NowTyped DEF TypeOK, NodeInv, SFInv, CacheInv, Idle, Underway
  <2>4. IndexConsistent'
    BY <1>1, <2>1, CapacityAssumption DEF IndexConsistent
  <2> QED BY <2>3, <2>4 DEF CacheInv
<1>3. Shapes' /\ \A c \in Callers : task'[c].at = "idle" /\ Held(task'[c])
  BY <1>1 DEF Shapes, Task, NoTask, Held, Active, Leading
<1>4. FlightsConsistent' /\ IndexMatchesDisk'
  BY <1>1, CallerAssumption DEF FlightsConsistent, IndexMatchesDisk, NoTask, In, Leading
<1>5. ASSUME NEW c \in Callers PROVE CallerOK(c)' /\ Missed(c)' /\ Written(c)'
  BY <1>1, <1>3 DEF CallerOK, InStep, Missed, Fetching, Written, Writes, In, At, Idle, NoTask
<1>6. SFInv'
  BY <1>2, <1>3, <1>4, <1>5 DEF SFInv
<1>7. F!RulesTypeOK'
  <2>1. /\ rules' \in SUBSET [covers : RulePrefixes, at : 0 .. now]
        /\ writer' = [a \in Admins |-> F!NoWriter]
    BY DEF Die
  <2>2. now \in Nat
    BY NowTyped
  <2>3. rules' \in SUBSET F!Rule
    BY <2>1, <2>2 DEF F!Rule
  <2> QED BY <1>1, <2>1, <2>2, <2>3 DEF F!RulesTypeOK, F!Writer, F!NoWriter, F!Doing
<1>8. visit' \in [Clients -> Visit] /\ \A c \in Clients : visit'[c].at = "idle" /\ visit'[c].key = None
  BY <1>1 DEF Visit, NoVisit
<1> QED BY <1>3, <1>6, <1>7, <1>8, CallersAssumption DEF NodeInv, VisitOK

LEMMA NodeInit_Inv == NodeInit => NodeInv
<1> SUFFICES ASSUME NodeInit PROVE NodeInv
  OBVIOUS
<1>1. SFInv /\ task = [c \in Callers |-> NoTask]
  BY SFInit_Inv DEF NodeInit, SFInit
<1>2. F!RulesTypeOK
  BY DEF NodeInit, F!RulesInit, F!RulesTypeOK, F!Writer, F!NoWriter, F!Doing
<1>3. visit \in [Clients -> Visit] /\ \A c \in Clients : visit[c].at = "idle" /\ visit[c].key = None
  BY DEF NodeInit, Visit, NoVisit
<1> QED BY <1>1, <1>2, <1>3, CallersAssumption DEF NodeInv, VisitOK, NoTask

LEMMA ServingKeeps == ASSUME NodeInv, Serving PROVE NodeInv'
<1>1. CASE NodeTick
  <2>1. SFInv' /\ UNCHANGED task /\ UNCHANGED <<visit, store>>
    BY <1>1, SFStepKeeps DEF NodeTick, SFNext, SFTick, NodeInv
  <2>2. now' \in Nat
    BY <2>1 DEF SFInv, CacheInv, TypeOK
  <2> QED BY <2>1, <2>2, InsideKeeps DEF Onward
<1> QED BY <1>1, ServeStepKeeps, ArriveKeeps, AdminKeeps DEF Serving

LEMMA NodeStepKeeps == NodeInv /\ [NodeNext]_nodevars => NodeInv'
<1> SUFFICES ASSUME NodeInv, [NodeNext]_nodevars PROVE NodeInv'
  OBVIOUS
<1>1. CASE UNCHANGED nodevars
  <2>1. SFInv'
    BY <1>1, SFStepKeeps DEF nodevars, NodeInv
  <2>2. UNCHANGED <<visit, store, task, now>>
    BY <1>1 DEF nodevars, sfvars, vars
  <2>3. F!RulesTypeOK'
    BY <2>2, RulesStay, NowTyped DEF NodeInv
  <2> QED BY <2>1, <2>2, <2>3 DEF NodeInv, VisitOK, Seen
<1> QED BY <1>1, ServingKeeps, DieKeeps DEF NodeNext

\* A request holds a GetOrFetch only while it serves, and for its own key, whatever is flushed, reloaded or
\* restarted meanwhile (router.go 98-135, main.go 62-100).
THEOREM RequestsAgree == NodeSpec => []NodeTypeOK
BY NodeInit_Inv, NodeStepKeeps, NodeTyped, PTL DEF NodeSpec

-----------------------------------------------------------------------------
\* What a request has read of a key or is to read, and a body of the key that a leader has pulled.
Reads(c, k) == At(c, "get.read") /\ call[c].key = k
Hit(c, k) == At(c, "get.hit") /\ call[c].key = k
Carries(c, k) == task[c].at \in {"body", "store"} /\ task[c].key = k

\* An entry is no older than the oldest body a request may get.
KeyOK(k) ==
    /\ least[k] <= bodies + 1
    /\ disk[k] # None => disk[k] <= bodies
    /\ items[k] # None => least[k] <= items[k].body
\* A body under way is the newest of its key.
CarryOK(c, k) == Carries(c, k) =>
    /\ least[k] <= task[c].body /\ task[c].body <= bodies
    /\ disk[k] # None => disk[k] <= task[c].body
    /\ items[k] # None => task[c].body <= items[k].body
    /\ call[c].op \in Writes => call[c].meta.body = task[c].body
ReadOK(c, k) == Reads(c, k) /\ disk[k] # None => oldest[c] <= disk[k] /\ (In(c, "check") => least[k] <= disk[k])
\* A body that was read is no newer than any that can still come; a leader's is the newest read.
HitOK(c, k) == Hit(c, k) =>
    /\ oldest[c] <= call[c].body /\ call[c].body <= bodies
    /\ disk[k] # None => call[c].body <= disk[k]
    /\ items[k] # None => call[c].body <= items[k].body
    /\ \A d \in Clients : Carries(d, k) => call[c].body <= task[d].body
    /\ In(c, "check") =>
          /\ least[k] <= call[c].body
          /\ disk[k] # None => disk[k] <= call[c].body
          /\ \A d \in Clients : Hit(d, k) => call[d].body <= call[c].body
OldOK(c) ==
    /\ visit[c].key = None => oldest[c] = 0
    /\ visit[c].key # None => oldest[c] <= least[visit[c].key]
    /\ In(c, "done") => oldest[c] <= task[c].body

HistTypes == least \in [Keys -> Nat] /\ oldest \in [Clients -> Nat]
HistInv ==
    /\ NodeInv /\ HistTypes
    /\ \A k \in Keys : KeyOK(k)
    /\ \A c \in Clients : OldOK(c) /\ \A k \in Keys : CarryOK(c, k) /\ ReadOK(c, k) /\ HitOK(c, k)

LEMMA ClientFacts ==
    ASSUME NodeInv, NEW c \in Clients
    PROVE  /\ c \in Callers /\ SFInv /\ CallerOK(c) /\ Missed(c)
           /\ task[c].at # "idle" => visit[c].key = task[c].key /\ task[c].key \in Keys /\ task[c].key # None
           /\ call[c].op \in {"get.read", "get.hit"} => task[c].at \in {"fast", "check"} /\ call[c].key = task[c].key
           /\ At(c, "get.hit") => call[c].body \in Nat
           /\ task[c].at \in {"body", "store", "done"} => task[c].body \in Nat
<1>1. c \in Callers /\ SFInv /\ CallerOK(c) /\ Missed(c)
  BY CallersAssumption DEF NodeInv, SFInv
<1>2. task[c].at # "idle" => visit[c].key = task[c].key /\ task[c].key \in Keys /\ task[c].key # None
  BY NoneAssumption DEF NodeInv, VisitOK, Visit, Seen
<1>3. call[c].op \in {"get.read", "get.hit"} => task[c].at \in {"fast", "check"} /\ call[c].key = task[c].key
  BY <1>1 DEF CallerOK, Held, InStep, Writes, Deletes, Task, Active, Leading
<1> QED BY <1>1, <1>2, <1>3 DEF CallerOK, Held, InStep, At

LEMMA StoredTypes ==
    ASSUME NodeInv
    PROVE  /\ bodies \in Nat /\ None \notin Nat
           /\ \A k \in Keys : disk[k] \in Nat \cup {None} /\ (items[k] # None => items[k] \in Meta /\ items[k].body \in Nat)
           /\ \A k \in Keys : items[k] # None /\ disk[k] # None => disk[k] = items[k].body
BY NoneAssumption DEF NodeInv, SFInv, CacheInv, TypeOK, Meta, IndexMatchesDisk

-----------------------------------------------------------------------------
\* The history.  At most one body is answered in a step.
LEMMA LargerOf ==
    ASSUME NEW b \in Nat, NEW S \in SUBSET {b}, NEW x \in Nat
    PROVE  Larger(S, x) \in S \cup {x} /\ x <= Larger(S, x)
<1>1. \E a \in S \cup {x} : \A y \in S \cup {x} : y <= a
  <2>1. CASE b \in S /\ x <= b
    BY <2>1
  <2>2. CASE ~(b \in S /\ x <= b)
    BY <2>2
  <2> QED BY <2>1, <2>2
<1> QED BY <1>1 DEF Larger

LEMMA LeastMoves ==
    ASSUME HistInv, Run, NEW b \in Nat, NEW k \in Keys, ~Purging(k),
           \A c \in Clients : Answering(c, k) => task'[c].body = b
    PROVE  /\ least'[k] \in Nat /\ least[k] <= least'[k]
           /\ least'[k] = least[k] \/ (least'[k] = b /\ \E c \in Clients : Answering(c, k))
<1> DEFINE S == {task'[c].body : c \in {x \in Clients : Answering(x, k)}}
<1>1. least'[k] = Larger(S, least[k]) /\ least[k] \in Nat
  BY DEF Run, HistInv, HistTypes
<1>2. S \in SUBSET {b} /\ (S # {} => \E c \in Clients : Answering(c, k))
  OBVIOUS
<1> HIDE DEF S
<1> QED BY <1>1, <1>2, LargerOf

LEMMA LeastStays ==
    ASSUME HistInv, Run, \A k \in Keys : ~Purging(k), \A c \in Clients : In(c, "done")' => In(c, "done")
    PROVE  least' = least
<1>1. \A k \in Keys : least'[k] = least[k]
  BY LeastMoves DEF Answering, In
<1>2. least' = [k \in Keys |-> least'[k]] /\ least = [k \in Keys |-> least[k]]
  BY DEF Run, HistInv, HistTypes
<1> QED BY <1>1, <1>2

LEMMA OldestStays ==
    ASSUME HistInv, Run, NEW c \in Clients, visit'[c].key = visit[c].key
    PROVE  oldest'[c] = oldest[c]
BY DEF Run, HistInv, OldOK

LEMMA HistTyped ==
    ASSUME HistInv, Run, NodeInv', \A k \in Keys : least'[k] \in Nat
    PROVE  HistTypes'
<1>1. least' \in [Keys -> Nat]
  BY DEF Run
<1>2. \A c \in Clients : oldest'[c] \in Nat
  <2> SUFFICES ASSUME NEW c \in Clients PROVE oldest'[c] \in Nat
    OBVIOUS
  <2>1. oldest[c] \in Nat /\ (visit'[c].key # None => least[visit'[c].key] \in Nat)
    BY DEF HistInv, HistTypes, NodeInv, Visit
  <2> QED BY <2>1 DEF Run
<1>3. oldest' \in [Clients -> Nat]
  BY <1>2 DEF Run
<1> QED BY <1>1, <1>3 DEF HistTypes

\* A step of a request is no purge.
LEMMA NoPurge ==
    ASSUME NEW c \in Clients, \A d \in Callers \ {c} : call'[d] = call[d]
    PROVE  \A k \in Keys : ~Purging(k)
BY CallersAssumption DEF Purging

-----------------------------------------------------------------------------
\* A request that reads nothing new and pulls nothing.
Calm(d) ==
    /\ At(d, "get.hit")' => call'[d] = call[d] /\ oldest'[d] = oldest[d] /\ (In(d, "check")' => In(d, "check"))
    /\ task'[d].at \in {"body", "store"} =>
          task'[d] = task[d] /\ (call'[d].op \in Writes => call[d].op \in Writes /\ call'[d].meta = call[d].meta)

\* Entries and files only go, and the oldest body allowed rises to no more than what is cached or comes.
LEMMA CalmKeeps ==
    ASSUME HistInv, NodeInv', HistTypes', Shrink, bodies' = bodies, \A d \in Clients : Calm(d),
           \A k \in Keys : least'[k] <= bodies + 1 /\ (items'[k] # None => least'[k] <= items'[k].body),
           \A d \in Clients : OldOK(d)' /\ \A k \in Keys : ReadOK(d, k)',
           \A d \in Clients, k \in Keys : Carries(d, k)' => least'[k] <= task[d].body,
           \A d \in Clients, k \in Keys : Hit(d, k)' /\ In(d, "check")' => least'[k] <= call[d].body
    PROVE  HistInv'
<1>1. NodeInv
  BY DEF HistInv
<1>2. \A k \in Keys : KeyOK(k)'
  BY <1>1, StoredTypes DEF HistInv, KeyOK, Shrink
<1>3. \A d \in Clients, k \in Keys : /\ Carries(d, k)' => Carries(d, k) /\ task'[d] = task[d]
                                   /\ Hit(d, k)' => Hit(d, k) /\ call'[d] = call[d]
  BY DEF Calm, Carries, Hit, At
<1>4. ASSUME NEW d \in Clients, NEW k \in Keys PROVE CarryOK(d, k)'
  BY <1>1, <1>3, StoredTypes DEF HistInv, CarryOK, Shrink, Calm, Carries
<1>5. ASSUME NEW d \in Clients, NEW k \in Keys PROVE HitOK(d, k)'
  <2> SUFFICES ASSUME Hit(d, k)' PROVE HitOK(d, k)'
    BY DEF HitOK
  <2>0. HitOK(d, k) /\ Calm(d) /\ At(d, "get.hit")'
    BY DEF HistInv, Hit
  <2>1. Hit(d, k) /\ call'[d] = call[d] /\ oldest'[d] = oldest[d] /\ (In(d, "check")' => In(d, "check"))
    BY <1>3, <2>0 DEF Calm, Hit, At, In
  <2>2. /\ disk'[k] \in {disk[k], None} /\ items'[k] \in {items[k], None}
    BY DEF Shrink
  <2>3. ASSUME NEW e \in Clients, Carries(e, k)' PROVE call'[d].body <= task'[e].body
    <3>1. Carries(e, k) /\ task'[e] = task[e]
      BY <2>3 DEF Carries, Calm
    <3> QED BY <2>0, <2>1, <3>1 DEF HitOK
  <2>4. ASSUME In(d, "check")', NEW e \in Clients, Hit(e, k)' PROVE call'[e].body <= call'[d].body
    <3>1. Hit(e, k) /\ call'[e] = call[e]
      BY <2>4 DEF Hit, At, Calm
    <3> QED BY <2>0, <2>1, <2>4, <3>1 DEF HitOK
  <2>5. In(d, "check")' => least'[k] <= call'[d].body
    BY <2>1
  <2> QED BY <2>0, <2>1, <2>2, <2>3, <2>4, <2>5 DEF HitOK
<1> QED BY <1>2, <1>4, <1>5 DEF HistInv

\* The same, with nothing answered.
LEMMA StillKeeps ==
    ASSUME HistInv, NodeInv', HistTypes', Shrink, bodies' = bodies, least' = least,
           \A d \in Clients : Calm(d) /\ OldOK(d)' /\ \A k \in Keys : ReadOK(d, k)'
    PROVE  HistInv'
<1>1. \A k \in Keys : least'[k] <= bodies + 1 /\ (items'[k] # None => least'[k] <= items'[k].body)
  BY DEF HistInv, KeyOK, Shrink
<1>2. \A d \in Clients, k \in Keys : Carries(d, k)' => least'[k] <= task[d].body
  BY DEF HistInv, CarryOK, Carries, Calm
<1>3. \A d \in Clients, k \in Keys : Hit(d, k)' /\ In(d, "check")' => least'[k] <= call[d].body
  BY DEF HistInv, HitOK, Hit, Calm, At
<1> QED BY <1>1, <1>2, <1>3, CalmKeeps

LEMMA OtherCalm ==
    ASSUME HistInv, NEW d \in Clients, Shrink, least' = least, oldest'[d] = oldest[d], visit'[d].key = visit[d].key,
           task'[d] = task[d], call'[d] = call[d]
    PROVE  Calm(d) /\ OldOK(d)' /\ \A k \in Keys : ReadOK(d, k)'
<1>1. OldOK(d)' /\ Calm(d)
  BY DEF HistInv, OldOK, Calm, In, At
<1>2. ASSUME NEW k \in Keys PROVE ReadOK(d, k)'
  BY DEF HistInv, ReadOK, Reads, At, In, Shrink
<1> QED BY <1>1, <1>2

\* One request moves, and answers nothing.
LEMMA OneMoves ==
    ASSUME HistInv, Run, NodeInv', NEW c \in Clients, Shrink, bodies' = bodies,
           \A d \in Callers \ {c} : task'[d] = task[d] /\ call'[d] = call[d],
           \A d \in Clients \ {c} : visit'[d].key = visit[d].key,
           In(c, "done")' => In(c, "done"), Calm(c),
           least' = least => OldOK(c)' /\ \A k \in Keys : ReadOK(c, k)'
    PROVE  HistInv'
<1>1. least' = least
  BY NoPurge, LeastStays, CallersAssumption DEF In
<1>2. HistTypes'
  BY <1>1, HistTyped DEF HistInv, HistTypes
<1>3. \A d \in Clients \ {c} : Calm(d) /\ OldOK(d)' /\ \A k \in Keys : ReadOK(d, k)'
  BY <1>1, OldestStays, OtherCalm, CallersAssumption
<1> QED BY <1>1, <1>2, <1>3, StillKeeps

\* It reads nothing, and stays in its visit.
LEMMA OneLeaves ==
    ASSUME HistInv, Run, NodeInv', NEW c \in Clients, Shrink, bodies' = bodies,
           \A d \in Callers \ {c} : task'[d] = task[d] /\ call'[d] = call[d],
           \A d \in Clients : visit'[d].key = visit[d].key,
           In(c, "done")' => task'[c] = task[c], call'[c].op \notin {"get.read", "get.hit"}, 
           task'[c].at \in {"body", "store"} =>
              task'[c] = task[c] /\ (call'[c].op \in Writes => call[c].op \in Writes /\ call'[c].meta = call[c].meta)
    PROVE  HistInv'
<1>1. Calm(c)
  BY DEF Calm, At
<1>2. \A k \in Keys : ReadOK(c, k)'
  BY DEF ReadOK, Reads, At
<1>3. ASSUME least' = least PROVE OldOK(c)'
  BY <1>3, OldestStays DEF HistInv, OldOK, In
<1> QED BY <1>1, <1>2, <1>3, OneMoves DEF In

\* Nobody moves.
LEMMA NobodyMoves ==
    ASSUME HistInv, Run, NodeInv', Shrink, bodies' = bodies, \A k \in Keys : ~Purging(k),
           \A d \in Clients : task'[d] = task[d] /\ call'[d] = call[d] /\ visit'[d].key = visit[d].key
    PROVE  HistInv'
<1>1. least' = least
  BY LeastStays DEF In
<1>2. HistTypes'
  BY <1>1, HistTyped DEF HistInv, HistTypes
<1>3. \A d \in Clients : Calm(d) /\ OldOK(d)' /\ \A k \in Keys : ReadOK(d, k)'
  BY <1>1, OldestStays, OtherCalm
<1> QED BY <1>1, <1>2, <1>3, StillKeeps

-----------------------------------------------------------------------------
\* Those who get the outcome of c's request: c, and who waits for its flight when it leads one.
Together(c, L, t) ==
    /\ c \in L /\ \A d \in L : d = c \/ (In(d, "wait") /\ task[d].key = task[c].key)
    /\ \A d \in Callers : task'[d] = IF d \in L THEN t ELSE task[d]
    /\ \A d \in Callers \ {c} : call'[d] = call[d]
    /\ call'[c].op = "idle"
    /\ UNCHANGED <<items, disk, bodies, visit>>

LEMMA TogetherCalm ==
    ASSUME HistInv, Run, NEW c \in Clients, NEW L, NEW t, Together(c, L, t), t.at \in {"done", "failed"}
    PROVE  \A d \in Clients : Calm(d) /\ (d \in L => call'[d].op = "idle") /\ (d \notin L => task'[d] = task[d] /\ call'[d] = call[d])
<1> SUFFICES ASSUME NEW d \in Clients
             PROVE  Calm(d) /\ (d \in L => call'[d].op = "idle") /\ (d \notin L => task'[d] = task[d] /\ call'[d] = call[d])
  OBVIOUS
<1>1. d \in Callers /\ CallerOK(d) /\ oldest'[d] = oldest[d]
  BY ClientFacts, OldestStays DEF HistInv, Together
<1>2. d \in L => call'[d].op = "idle"
  BY <1>1 DEF Together, CallerOK, InStep, In
<1>3. d \notin L => task'[d] = task[d] /\ call'[d] = call[d]
  BY <1>1 DEF Together
<1>4. d \in L => task'[d].at \in {"done", "failed"}
  BY <1>1 DEF Together
<1> QED BY <1>1, <1>2, <1>3, <1>4 DEF Calm, At, In

\* A body is answered that is no newer than what can still come of the key, nor older than any who get it may get.
LEMMA AnswerKeeps ==
    ASSUME HistInv, Run, NodeInv', NEW c \in Clients, NEW L, NEW t, Together(c, L, t),
           NEW b \in Nat, NEW k \in Keys, k = task[c].key, t.at = "done", t.body = b, t.key = k,
           b <= bodies, items[k] # None => b <= items[k].body,
           \A d \in Clients : d \in L => oldest[d] <= b,
           \A d \in Clients \ {c} : Carries(d, k) => b <= task[d].body,
           \A d \in Clients \ {c} : Hit(d, k) /\ In(d, "check") => b <= call[d].body,
           \A d \in Clients \ {c} : Reads(d, k) /\ In(d, "check") /\ disk[k] # None => b <= disk[k]
    PROVE  HistInv'
<1>1. /\ NodeInv /\ Shrink /\ bodies' = bodies
      /\ \A d \in Clients : d \in Callers /\ oldest'[d] = oldest[d] /\ visit'[d] = visit[d]
      /\ \A d \in Clients : Calm(d) /\ (d \in L => call'[d].op = "idle") /\ (d \notin L => task'[d] = task[d] /\ call'[d] = call[d])
  BY OldestStays, TogetherCalm, CallersAssumption DEF HistInv, Together, Shrink
<1>2. \A x \in Keys : /\ least'[x] \in Nat /\ least[x] \in Nat /\ least[x] <= least'[x]
                      /\ least'[x] = least[x] \/ (least'[x] = b /\ x = k)
  <2> SUFFICES ASSUME NEW x \in Keys
               PROVE  /\ least'[x] \in Nat /\ least[x] \in Nat /\ least[x] <= least'[x]
                      /\ least'[x] = least[x] \/ (least'[x] = b /\ x = k)
    OBVIOUS
  <2>1. ~Purging(x)
    BY NoPurge DEF Together
  <2>2. \A d \in Clients : Answering(d, x) => task'[d].body = b /\ x = k
    BY <1>1 DEF Together, Answering
  <2> QED BY <2>1, <2>2, LeastMoves DEF HistInv, HistTypes
<1>3. HistTypes'
  BY <1>2, HistTyped
<1>4. \A x \in Keys : least'[x] <= bodies + 1 /\ (items'[x] # None => least'[x] <= items'[x].body)
  BY <1>1, <1>2, StoredTypes DEF HistInv, KeyOK, Together
<1>5. ASSUME NEW d \in Clients PROVE OldOK(d)'
  <2>1. oldest[d] \in Nat /\ (visit[d].key # None => visit[d].key \in Keys)
    BY <1>1 DEF HistInv, HistTypes, NodeInv, Visit
  <2>2. In(d, "done")' => oldest'[d] <= task'[d].body
    BY <1>1 DEF HistInv, OldOK, In, Together
  <2>3. visit'[d].key # None => oldest'[d] <= least'[visit'[d].key]
    BY <1>1, <1>2, <2>1 DEF HistInv, OldOK
  <2> QED BY <1>1, <2>2, <2>3 DEF HistInv, OldOK
<1>6. ASSUME NEW d \in Clients, NEW x \in Keys PROVE ReadOK(d, x)'
  <2> SUFFICES ASSUME Reads(d, x)', disk'[x] # None PROVE oldest'[d] <= disk'[x] /\ (In(d, "check")' => least'[x] <= disk'[x])
    BY DEF ReadOK
  <2>1. d \notin L /\ d # c /\ task'[d] = task[d] /\ call'[d] = call[d] /\ disk' = disk
    BY <1>1 DEF Reads, At, Together
  <2>2. ReadOK(d, x) /\ Reads(d, x)
    BY <2>1 DEF HistInv, Reads, At
  <2> QED BY <1>1, <1>2, <2>1, <2>2 DEF ReadOK, In
<1>7. ASSUME NEW d \in Clients, NEW x \in Keys, Carries(d, x)' PROVE least'[x] <= task[d].body
  <2>1. Carries(d, x) /\ d # c
    BY <1>1, <1>7 DEF Carries, Calm, Together
  <2>2. CarryOK(d, x)
    BY DEF HistInv
  <2> QED BY <1>2, <2>1, <2>2 DEF CarryOK
<1>8. ASSUME NEW d \in Clients, NEW x \in Keys, Hit(d, x)', In(d, "check")' PROVE least'[x] <= call[d].body
  <2>1. Hit(d, x) /\ In(d, "check") /\ d # c
    BY <1>1, <1>8 DEF Hit, At, In, Calm, Together
  <2>2. HitOK(d, x)
    BY DEF HistInv
  <2> QED BY <1>2, <2>1, <2>2 DEF HitOK
<1> QED BY <1>1, <1>3, <1>4, <1>5, <1>6, <1>7, <1>8, CalmKeeps

LEMMA FailKeeps ==
    ASSUME HistInv, Run, NodeInv', NEW c \in Clients, NEW L, NEW t, Together(c, L, t), t.at = "failed"
    PROVE  HistInv'
<1>1. /\ NodeInv /\ Shrink /\ bodies' = bodies
      /\ \A d \in Clients : d \in Callers /\ oldest'[d] = oldest[d] /\ visit'[d] = visit[d]
      /\ \A d \in Clients : Calm(d) /\ (d \in L => call'[d].op = "idle") /\ (d \notin L => task'[d] = task[d] /\ call'[d] = call[d])
  BY OldestStays, TogetherCalm, CallersAssumption DEF HistInv, Together, Shrink
<1>2. \A d \in Clients : d \in L => task'[d].at = "failed"
  BY <1>1 DEF Together
<1>3. least' = least /\ HistTypes'
  <2>1. \A k \in Keys : ~Purging(k)
    BY NoPurge DEF Together
  <2>2. \A d \in Clients : In(d, "done")' => In(d, "done")
    BY <1>1, <1>2 DEF In
  <2>3. least' = least
    BY <2>1, <2>2, LeastStays
  <2> QED BY <2>3, HistTyped DEF HistInv, HistTypes
<1>4. ASSUME NEW d \in Clients PROVE OldOK(d)' /\ \A x \in Keys : ReadOK(d, x)'
  <2>1. CASE d \in L
    BY <1>1, <1>2, <1>3, <2>1 DEF HistInv, OldOK, ReadOK, Reads, At, In
  <2>2. CASE d \notin L
    BY <1>1, <1>3, <2>2, OtherCalm
  <2> QED BY <2>1, <2>2
<1> QED BY <1>1, <1>3, <1>4, StillKeeps

-----------------------------------------------------------------------------
\* The steps that answer a request, or fail it.
Landed(c) == {d \in Callers : d = c \/ (In(d, "wait") /\ task[d].key = task[c].key)}

LEMMA TakeDoes ==
    ASSUME HistInv, NEW c \in Clients, Take(c), bodies' \in Nat
    PROVE  call'[c] = Idle /\ call'[c].op = "idle" /\ (\A d \in Callers \ {c} : call'[d] = call[d]) /\ UNCHANGED <<items, disk>>
BY ClientFacts, TakeKeeps DEF HistInv, SFInv, Idle

LEMMA LandTogether ==
    ASSUME NodeInv, NEW c \in Clients, NEW at, NEW b, NEW m, Land(c, at, b, m), UNCHANGED <<items, disk, bodies, visit>>,
           \A d \in Callers \ {c} : call'[d] = call[d], call'[c].op = "idle"
    PROVE  Together(c, Landed(c), TaskRec(at, task[c].key, b, m))
<1>1. \A d \in Callers : task'[d] = IF d \in Landed(c) THEN TaskRec(at, task[c].key, b, m) ELSE task[d]
  BY DEF Land, Landed
<1>2. c \in Landed(c) /\ \A d \in Landed(c) : d = c \/ (In(d, "wait") /\ task[d].key = task[c].key)
  BY CallersAssumption DEF Landed
<1> QED BY <1>1, <1>2 DEF Together

LEMMA RecFields ==
    ASSUME NEW at, NEW k, NEW b, NEW m
    PROVE  TaskRec(at, k, b, m).at = at /\ TaskRec(at, k, b, m).key = k /\ TaskRec(at, k, b, m).body = b
BY DEF TaskRec

\* A request is answered what it read: its own, or what the leader of the flight has.
LEMMA HitAnswers ==
    ASSUME HistInv, Run, NodeInv', NEW c \in Clients, NEW L, NEW t, Together(c, L, t), At(c, "get.hit"),
           L = {c} \/ In(c, "check"), t.at = "done", t.body = call[c].body, t.key = task[c].key
    PROVE  HistInv'
<1> DEFINE k == task[c].key
           b == call[c].body
<1>1. NodeInv /\ k \in Keys /\ b \in Nat /\ Hit(c, k) /\ HitOK(c, k)
  BY ClientFacts DEF HistInv, At, Hit
<1>2. b <= bodies /\ (items[k] # None => b <= items[k].body)
  BY <1>1 DEF HitOK
<1>3. \A d \in Clients : Carries(d, k) => b <= task[d].body
  BY <1>1 DEF HitOK
<1>4. ASSUME NEW d \in Clients, Hit(d, k), In(d, "check") PROVE b <= call[d].body
  <2>1. HitOK(d, k)
    BY <1>1 DEF HistInv
  <2> QED BY <1>1, <1>4, <2>1 DEF HitOK
<1>5. ASSUME NEW d \in Clients, Reads(d, k), In(d, "check"), disk[k] # None PROVE b <= disk[k]
  BY <1>1, <1>5 DEF HitOK
<1>6. ASSUME NEW d \in Clients, d \in L PROVE oldest[d] <= b
  <2>1. CASE d = c
    BY <1>1, <2>1 DEF HitOK
  <2>2. CASE d # c
    <3>1. In(c, "check") /\ In(d, "wait") /\ task[d].key = k
      BY <1>6, <2>2 DEF Together
    <3>2. least[k] <= b /\ least[k] \in Nat /\ oldest[d] \in Nat
      BY <1>1, <3>1 DEF HitOK, HistInv, HistTypes
    <3>3. visit[d].key = k /\ k # None
      BY <1>1, <3>1, ClientFacts DEF In
    <3>4. oldest[d] <= least[k]
      BY <3>3 DEF HistInv, OldOK
    <3> QED BY <1>1, <3>2, <3>4
  <2> QED BY <2>1, <2>2
<1> HIDE DEF k, b
<1>7. t.body = b /\ t.key = k /\ k = task[c].key
  BY DEF k, b
<1> QED BY <1>1, <1>2, <1>3, <1>4, <1>5, <1>6, <1>7, AnswerKeeps

LEMMA FastHitHist ==
    ASSUME HistInv, Run, NodeInv', NEW c \in Clients, FastHit(c), UNCHANGED visit
    PROVE  HistInv'
<1> DEFINE t == TaskRec("done", task[c].key, call[c].body, call[c].meta)
<1>1. bodies' = bodies /\ bodies \in Nat /\ Take(c) /\ At(c, "get.hit") /\ NodeInv /\ c \in Callers
  BY StoredTypes, CallersAssumption DEF HistInv, FastHit
<1>2. call'[c].op = "idle" /\ (\A d \in Callers \ {c} : call'[d] = call[d]) /\ UNCHANGED <<items, disk>>
  BY <1>1, TakeDoes
<1>3. \A d \in Callers : task'[d] = IF d \in {c} THEN t ELSE task[d]
  BY <1>1 DEF FastHit, Put, NodeInv, SFInv, Shapes
<1>4. Together(c, {c}, t)
  BY <1>1, <1>2, <1>3 DEF Together
<1>5. t.at = "done" /\ t.key = task[c].key /\ t.body = call[c].body
  BY RecFields
<1> HIDE DEF t
<1> QED BY <1>1, <1>4, <1>5, HitAnswers

LEMMA CheckHitHist ==
    ASSUME HistInv, Run, NodeInv', NEW c \in Clients, CheckHit(c), UNCHANGED visit
    PROVE  HistInv'
<1>1. bodies' = bodies /\ bodies \in Nat /\ Take(c) /\ At(c, "get.hit") /\ In(c, "check") /\ NodeInv
  BY StoredTypes DEF HistInv, CheckHit
<1>2. call'[c].op = "idle" /\ (\A d \in Callers \ {c} : call'[d] = call[d]) /\ UNCHANGED <<items, disk>>
  BY <1>1, TakeDoes
<1>3. CASE Land(c, "done", call[c].body, call[c].meta)
  <2> DEFINE t == TaskRec("done", task[c].key, call[c].body, call[c].meta)
  <2>1. Together(c, Landed(c), t)
    BY <1>1, <1>2, <1>3, LandTogether
  <2>2. t.at = "done" /\ t.key = task[c].key /\ t.body = call[c].body
    BY RecFields
  <2> HIDE DEF t
  <2> QED BY <1>1, <2>1, <2>2, HitAnswers
<1>4. CASE Land(c, "failed", None, None)
  <2>1. Together(c, Landed(c), TaskRec("failed", task[c].key, None, None))
    BY <1>1, <1>2, <1>4, LandTogether
  <2> QED BY <2>1, RecFields, FailKeeps
<1> QED BY <1>3, <1>4 DEF CheckHit

LEMMA FlightFailsHist ==
    ASSUME HistInv, Run, NodeInv', NEW c \in Clients, PullFails(c) \/ BodyFails(c), UNCHANGED visit
    PROVE  HistInv'
<1>1. bodies' = bodies /\ bodies \in Nat /\ NodeInv /\ Land(c, "failed", None, None)
  BY StoredTypes DEF HistInv, PullFails, BodyFails, vars
<1>2. call'[c].op = "idle" /\ (\A d \in Callers \ {c} : call'[d] = call[d]) /\ UNCHANGED <<items, disk>>
  <2>1. CASE PullFails(c)
    BY <1>1, <2>1, TakeDoes DEF PullFails
  <2>2. CASE BodyFails(c)
    <3>1. UNCHANGED <<items, disk, call>> /\ task[c].at = "body"
      BY <2>2 DEF BodyFails, vars, In
    <3> QED BY <1>1, <3>1, ClientFacts DEF CallerOK, InStep
  <2> QED BY <2>1, <2>2
<1>3. Together(c, Landed(c), TaskRec("failed", task[c].key, None, None))
  BY <1>1, <1>2, LandTogether
<1> QED BY <1>3, RecFields, FailKeeps

\* Nobody else leads the flight of a leader's key.
LEMMA LeadsAlone ==
    ASSUME NodeInv, NEW c \in Clients, NEW d \in Clients, NEW k \in Keys, task[c].at \in Leading, task[c].key = k,
           task[d].at \in Leading, task[d].key = k
    PROVE  c = d
BY OneLeader, CallersAssumption DEF NodeInv, SFInv

LEMMA StoredHist ==
    ASSUME HistInv, Run, NodeInv', NEW c \in Clients, Stored(c), UNCHANGED visit
    PROVE  HistInv'
<1> DEFINE t == TaskRec("done", task[c].key, task[c].body, task[c].meta)
           k == task[c].key
           b == task[c].body
<1>1. bodies' = bodies /\ bodies \in Nat /\ NodeInv /\ Take(c) /\ Land(c, "done", task[c].body, task[c].meta) /\ task[c].at = "store"
  BY StoredTypes DEF HistInv, Stored, In
<1>2. call'[c].op = "idle" /\ (\A d \in Callers \ {c} : call'[d] = call[d]) /\ UNCHANGED <<items, disk>>
  BY <1>1, TakeDoes
<1>3. Together(c, Landed(c), t)
  BY <1>1, <1>2, LandTogether
<1>4. t.at = "done" /\ t.key = k /\ t.body = b
  BY RecFields
<1>5. k \in Keys /\ k # None /\ b \in Nat /\ Carries(c, k) /\ CarryOK(c, k) /\ task[c].at \in Leading
  BY <1>1, ClientFacts DEF HistInv, Carries, Leading
<1>6. b <= bodies /\ (items[k] # None => b <= items[k].body) /\ least[k] <= b /\ least[k] \in Nat
  BY <1>5 DEF CarryOK, HistInv, HistTypes
<1>7. ASSUME NEW d \in Clients, d \in Landed(c) PROVE oldest[d] <= b
  <2>1. task[d].at # "idle" /\ task[d].key = k
    BY <1>1, <1>7 DEF Landed, In
  <2>2. visit[d].key = k /\ oldest[d] \in Nat
    BY <1>1, <2>1, ClientFacts DEF HistInv, HistTypes
  <2>3. oldest[d] <= least[k]
    BY <1>5, <2>2 DEF HistInv, OldOK
  <2> QED BY <1>5, <1>6, <2>2, <2>3
<1>8. ASSUME NEW d \in Clients \ {c}, (In(d, "check") /\ call[d].key = k /\ call[d].op \in {"get.read", "get.hit"}) \/ Carries(d, k)
      PROVE  FALSE
  <2>1. task[d].at \in Leading /\ task[d].key = k
    BY <1>1, <1>8, ClientFacts DEF In, Carries, Leading
  <2> QED BY <1>1, <1>5, <2>1, LeadsAlone
<1>9. /\ \A d \in Clients \ {c} : Carries(d, k) => b <= task[d].body
      /\ \A d \in Clients \ {c} : Hit(d, k) /\ In(d, "check") => b <= call[d].body
      /\ \A d \in Clients \ {c} : Reads(d, k) /\ In(d, "check") /\ disk[k] # None => b <= disk[k]
  BY <1>8 DEF Hit, Reads, At
<1> HIDE DEF t, b
<1> QED BY <1>3, <1>4, <1>5, <1>6, <1>7, <1>9, AnswerKeeps

-----------------------------------------------------------------------------
\* The steps with which a request goes through its visit.
LEMMA StatDoes ==
    ASSUME NodeInv, NEW c \in Clients, NEW k \in Keys, Stat(c, k)
    PROVE  /\ \A d \in Callers \ {c} : call'[d] = call[d]
           /\ call'[c].op \in {"stat.hit", "stat.miss"} /\ Shrink /\ bodies' = bodies
<1>1. CacheInv /\ UNCHANGED <<items, disk, bodies>>
  BY DEF NodeInv, SFInv, Stat, index
<1> QED BY <1>1, CallFun, CallersAssumption DEF Stat, Enter, Shrink

LEMMA ArriveHist == ASSUME HistInv, Run, NodeInv', NEW c \in Clients, NEW k \in Keys, Arrive(c, k) PROVE HistInv'
<1>1. /\ \A d \in Callers \ {c} : call'[d] = call[d]
      /\ call'[c].op \in {"stat.hit", "stat.miss"} /\ Shrink /\ bodies' = bodies /\ task' = task
  BY StatDoes DEF HistInv, Arrive
<1>2. /\ visit[c].key = None /\ task[c].at = "idle" /\ visit \in [Clients -> Visit]
      /\ visit' = [visit EXCEPT ![c] = [at |-> "check", key |-> k, hit |-> FALSE]]
  BY DEF HistInv, NodeInv, VisitOK, Arrive, Seen
<1>3. visit'[c].key = k /\ k # None /\ \A d \in Clients \ {c} : visit'[d].key = visit[d].key
  BY <1>2, NoneAssumption
<1>4. oldest'[c] = least[k]
  BY <1>2, <1>3 DEF Run
<1>5. Calm(c) /\ ~In(c, "done")' /\ (\A x \in Keys : ReadOK(c, x)')
  BY <1>1, <1>2 DEF Calm, ReadOK, Reads, At, In
<1>6. least' = least => OldOK(c)'
  BY <1>3, <1>4, <1>5 DEF OldOK, HistInv, HistTypes
<1> QED BY <1>1, <1>3, <1>5, <1>6, OneMoves

LEMMA MatchHist == ASSUME HistInv, Run, NodeInv', NEW c \in Clients, Match(c) PROVE HistInv'
<1>1. UNCHANGED <<task, call, items, disk, bodies>>
  BY DEF Match, sfvars, vars
<1>2. \A d \in Clients : visit'[d].key = visit[d].key
  BY DEF Match, Proceed, HistInv, NodeInv, Visit
<1>3. \A k \in Keys : ~Purging(k)
  BY <1>1 DEF Purging
<1> QED BY <1>1, <1>2, <1>3, NobodyMoves, CallersAssumption DEF Shrink

LEMMA DeleteDoes ==
    ASSUME NodeInv, NEW c \in Callers, NEW k \in Keys, Delete(c, k)
    PROVE  /\ \A d \in Callers \ {c} : call'[d] = call[d] /\ task'[d] = task[d]
           /\ call'[c].op = "delete.storage" /\ task'[c].at = "idle" /\ Shrink /\ items'[k] = None /\ bodies' = bodies
           /\ call'[c].key = k
<1>1. CacheInv /\ SFInv
  BY DEF NodeInv, SFInv
<1>2. task'[c] = NoTask /\ \A d \in Callers \ {c} : task'[d] = task[d]
  BY <1>1, DeleteTask
<1>3. Unindex(k) /\ Enter(c, "delete.storage", k, None) /\ UNCHANGED <<disk, bodies>>
  BY DEF Delete, DeleteIndex
<1>4. Shrink /\ items'[k] = None
  BY <1>1, <1>3, UnindexShrinks
<1> QED BY <1>1, <1>2, <1>3, <1>4, CallFun DEF Enter, NoTask

LEMMA EvictHist == ASSUME HistInv, Run, NodeInv', NEW c \in Clients, Evict(c) PROVE HistInv'
<1>1. Delete(c, visit[c].key) /\ visit[c].key \in Keys /\ c \in Callers /\ NodeInv
  BY CallersAssumption DEF Evict, HistInv, NodeInv, VisitOK, Visit, Seen
<1>2. /\ \A d \in Callers \ {c} : call'[d] = call[d] /\ task'[d] = task[d]
      /\ call'[c].op = "delete.storage" /\ task'[c].at = "idle" /\ Shrink /\ bodies' = bodies
  BY <1>1, DeleteDoes
<1>3. \A d \in Clients : visit'[d].key = visit[d].key
  BY <1>1 DEF Evict, Proceed, NodeInv, Visit
<1> QED BY <1>2, <1>3, OneLeaves DEF In

LEMMA PeekHist == ASSUME HistInv, Run, NodeInv', NEW c \in Clients, Peek(c) PROVE HistInv'
<1>1. Stat(c, visit[c].key) /\ visit[c].key \in Keys /\ NodeInv /\ task' = task /\ task[c].at = "idle"
  BY OutOfFetch DEF Peek, HistInv, NodeInv, VisitOK, Visit, Seen
<1>2. /\ \A d \in Callers \ {c} : call'[d] = call[d]
      /\ call'[c].op \in {"stat.hit", "stat.miss"} /\ Shrink /\ bodies' = bodies
  BY <1>1, StatDoes
<1>3. \A d \in Clients : visit'[d].key = visit[d].key
  BY <1>1 DEF Peek, Proceed, NodeInv, Visit
<1> QED BY <1>1, <1>2, <1>3, OneLeaves DEF In

\* A lookup finds an entry that is not too old, and the file, if there is one, is the entry's.
LEMMA LookupReads ==
    ASSUME HistInv, NEW c \in Clients, NEW k \in Keys, GetLookup(c, k), visit[c].key = k,
           least' = least, oldest'[c] = oldest[c]
    PROVE  \A x \in Keys : ReadOK(c, x)'
<1>1. NodeInv /\ c \in Callers /\ CacheInv /\ disk' = disk /\ k # None
  BY CallersAssumption, NoneAssumption DEF HistInv, NodeInv, SFInv, GetLookup
<1>2. call'[c].key = k /\ (call'[c].op = "get.read" => items[k] # None)
  BY <1>1, CallFun DEF GetLookup, Enter
<1>3. oldest[c] <= least[k] /\ (items[k] # None => least[k] <= items[k].body) /\ oldest[c] \in Nat /\ least[k] \in Nat
  BY <1>1 DEF HistInv, OldOK, KeyOK, HistTypes
<1>4. items[k] # None /\ disk[k] # None => oldest[c] <= disk[k] /\ least[k] <= disk[k]
  BY <1>1, <1>3, StoredTypes
<1> QED BY <1>1, <1>2, <1>4 DEF ReadOK, Reads, At

LEMMA ServeHist == ASSUME HistInv, Run, NodeInv', NEW c \in Clients, Serve(c) PROVE HistInv'
<1> DEFINE k == visit[c].key
<1>1. Request(c, k) /\ GetLookup(c, k) /\ k \in Keys /\ c \in Callers /\ NodeInv /\ CacheInv /\ SFInv
  BY CallersAssumption DEF Serve, Request, HistInv, NodeInv, SFInv, VisitOK, Visit, Seen
<1>2. task'[c] = TaskRec("fast", k, None, None) /\ \A d \in Callers \ {c} : task'[d] = task[d]
  BY <1>1, RequestTask
<1>3. /\ Shrink /\ \A d \in Callers \ {c} : call'[d] = call[d]
      /\ call'[c].op \in {"get.read", "get.miss"}
  BY <1>1, LookupDoes
<1>4. bodies' = bodies /\ \A d \in Clients : visit'[d].key = visit[d].key
  BY <1>1 DEF Serve, GetLookup, NodeInv, Visit
<1>5. task'[c].at = "fast"
  BY <1>2, RecFields
<1>6. Calm(c) /\ ~In(c, "done")'
  BY <1>3, <1>5 DEF Calm, At, In
<1>7. ASSUME least' = least PROVE OldOK(c)' /\ \A x \in Keys : ReadOK(c, x)'
  <2>1. oldest'[c] = oldest[c]
    BY <1>4, OldestStays
  <2>2. OldOK(c)'
    BY <1>4, <1>6, <1>7, <2>1 DEF HistInv, OldOK
  <2> QED BY <1>1, <1>7, <2>1, <2>2, LookupReads
<1> QED BY <1>2, <1>3, <1>4, <1>6, <1>7, OneMoves

LEMMA RespondHist == ASSUME HistInv, Run, NodeInv', NEW c \in Clients, Respond(c) PROVE HistInv'
<1>1. NodeInv /\ c \in Callers /\ CallerOK(c) /\ UNCHANGED <<items, disk, call, bodies>> /\ task[c].at \notin Active
  BY ClientFacts DEF HistInv, Respond, vars, Free
<1>2. task'[c].at = "idle" /\ \A d \in Callers \ {c} : task'[d] = task[d]
  BY <1>1 DEF Respond, NodeInv, SFInv, Shapes, NoTask
<1>3. call'[c].op \notin {"get.read", "get.hit"}
  BY <1>1, ClientFacts DEF Active, Leading
<1>4. visit'[c].key = None /\ \A d \in Clients \ {c} : visit'[d].key = visit[d].key
  BY <1>1 DEF Respond, NoVisit, NodeInv
<1>5. oldest'[c] = 0
  BY <1>4 DEF Run
<1>6. Calm(c) /\ ~In(c, "done")' /\ OldOK(c)' /\ \A k \in Keys : ReadOK(c, k)'
  BY <1>2, <1>3, <1>4, <1>5 DEF Calm, OldOK, ReadOK, Reads, At, In
<1> QED BY <1>1, <1>2, <1>4, <1>6, OneMoves DEF Shrink

-----------------------------------------------------------------------------
\* The steps of GetOrFetch that answer nothing.
LEMMA JoinLeadHist ==
    ASSUME HistInv, Run, NodeInv', NEW c \in Clients, Join(c) \/ Lead(c), UNCHANGED visit
    PROVE  HistInv'
<1>1. NodeInv /\ c \in Callers /\ bodies' = bodies /\ bodies \in Nat /\ Take(c) /\ task \in [Callers -> Task]
  BY StoredTypes, CallersAssumption DEF HistInv, NodeInv, SFInv, Shapes, Join, Lead
<1>2. call'[c].op = "idle" /\ (\A d \in Callers \ {c} : call'[d] = call[d]) /\ UNCHANGED <<items, disk>>
  BY <1>1, TakeDoes
<1>3. PICK at \in {"wait", "check"} : Put(c, at, task[c].key, None, None)
  BY DEF Join, Lead
<1>4. task'[c].at = at /\ \A d \in Callers \ {c} : task'[d] = task[d]
  BY <1>1, <1>3, RecFields DEF Put
<1> QED BY <1>1, <1>2, <1>4, OneLeaves DEF Shrink, In

LEMMA DoubleCheckHist ==
    ASSUME HistInv, Run, NodeInv', NEW c \in Clients, DoubleCheck(c), UNCHANGED visit
    PROVE  HistInv'
<1> DEFINE k == task[c].key
<1>1. NodeInv /\ c \in Callers /\ CacheInv /\ k \in Keys /\ visit[c].key = k /\ GetLookup(c, k) /\ task' = task /\ task[c].at = "check"
  BY ClientFacts DEF HistInv, NodeInv, SFInv, DoubleCheck, In
<1>2. /\ Shrink /\ \A d \in Callers \ {c} : call'[d] = call[d]
      /\ call'[c].op \in {"get.read", "get.miss"}
  BY <1>1, LookupDoes
<1>3. bodies' = bodies
  BY <1>1 DEF GetLookup
<1>4. Calm(c) /\ ~In(c, "done")'
  BY <1>1, <1>2 DEF Calm, At, In
<1>5. ASSUME least' = least PROVE OldOK(c)' /\ \A x \in Keys : ReadOK(c, x)'
  <2>1. oldest'[c] = oldest[c]
    BY OldestStays
  <2>2. OldOK(c)'
    BY <1>4, <1>5, <2>1 DEF HistInv, OldOK
  <2> QED BY <1>1, <1>5, <2>1, <2>2, LookupReads
<1> QED BY <1>1, <1>2, <1>3, <1>4, <1>5, OneMoves

\* In the other steps of GetOrFetch nothing is answered and nobody's visit changes.
LEMMA Quiet ==
    ASSUME HistInv, Run, NodeInv', NEW c \in Clients, UNCHANGED visit, \A d \in Callers \ {c} : call'[d] = call[d] /\ task'[d] = task[d],
           ~In(c, "done")'
    PROVE  least' = least /\ HistTypes' /\ \A d \in Clients : oldest'[d] = oldest[d] /\ OldOK(d)'
<1>1. least' = least
  BY NoPurge, LeastStays, CallersAssumption DEF In
<1>2. \A d \in Clients : oldest'[d] = oldest[d]
  BY OldestStays
<1>3. HistTypes'
  BY <1>1, HistTyped DEF HistInv, HistTypes
<1>4. ASSUME NEW d \in Clients PROVE OldOK(d)'
  <2>1. d # c => task'[d] = task[d]
    BY CallersAssumption
  <2> QED BY <1>1, <1>2, <2>1 DEF HistInv, OldOK, In
<1> QED BY <1>1, <1>2, <1>3, <1>4

\* The body pulled is newer than all before it.
LEMMA PullHist ==
    ASSUME HistInv, Run, NodeInv', NEW c \in Clients, Pull(c), UNCHANGED visit
    PROVE  HistInv'
<1> DEFINE k == task[c].key
<1>1. NodeInv /\ c \in Callers /\ bodies' = bodies + 1 /\ bodies \in Nat /\ Take(c) /\ task \in [Callers -> Task] /\ k \in Keys
      /\ items[k] = None
  BY StoredTypes, ClientFacts DEF HistInv, NodeInv, SFInv, Shapes, Pull, In, Missed, Fetching
<1>2. call'[c].op = "idle" /\ (\A d \in Callers \ {c} : call'[d] = call[d]) /\ UNCHANGED <<items, disk>>
  BY <1>1, TakeDoes
<1>3. /\ task'[c].at = "body" /\ task'[c].key = k /\ task'[c].body = bodies + 1
      /\ \A d \in Callers \ {c} : task'[d] = task[d]
  BY <1>1, RecFields DEF Pull, Put
<1>4. least' = least /\ HistTypes' /\ \A d \in Clients : oldest'[d] = oldest[d] /\ OldOK(d)'
  BY <1>2, <1>3, Quiet DEF In
<1>5. \A x \in Keys : KeyOK(x)' /\ KeyOK(x) /\ least[x] \in Nat /\ disk[x] \in Nat \cup {None}
  BY <1>1, <1>2, <1>4, StoredTypes DEF HistInv, KeyOK, HistTypes
<1>6. ASSUME NEW d \in Clients, NEW x \in Keys PROVE CarryOK(d, x)' /\ ReadOK(d, x)' /\ HitOK(d, x)'
  <2>1. d \in Callers /\ CarryOK(d, x) /\ ReadOK(d, x) /\ HitOK(d, x)
    BY CallersAssumption DEF HistInv
  <2>2. ReadOK(d, x)'
    BY <1>2, <1>3, <1>4, <2>1 DEF ReadOK, Reads, At, In
  <2>3. CarryOK(d, x)'
    <3>1. CASE d = c
      BY <1>1, <1>2, <1>3, <1>4, <1>5, <3>1 DEF KeyOK, CarryOK, Carries, Writes
    <3>2. CASE d # c
      BY <1>1, <1>2, <1>3, <1>4, <2>1, <3>2, ClientFacts DEF CarryOK, Carries
    <3> QED BY <3>1, <3>2
  <2>4. ASSUME Hit(d, x)' PROVE HitOK(d, x)'
    <3>1. d # c /\ task'[d] = task[d] /\ call'[d] = call[d] /\ Hit(d, x) /\ call[d].body \in Nat
      BY <1>2, <1>3, <2>1, <2>4, ClientFacts DEF Hit, At, HistInv
    <3>2. ASSUME NEW e \in Clients, Carries(e, x)' PROVE call[d].body <= task'[e].body
      <4>1. CASE e = c
        BY <1>1, <1>3, <2>1, <3>1, <4>1 DEF HitOK
      <4>2. CASE e # c
        BY <1>3, <2>1, <3>1, <3>2, <4>2, CallersAssumption DEF HitOK, Carries
      <4> QED BY <4>1, <4>2
    <3>3. ASSUME NEW e \in Clients, Hit(e, x)' PROVE Hit(e, x) /\ call'[e] = call[e]
      BY <1>2, <3>3, CallersAssumption DEF Hit, At
    <3> QED BY <1>1, <1>2, <1>4, <2>1, <3>1, <3>2, <3>3 DEF HitOK, In, Hit, At, Carries
  <2> QED BY <2>2, <2>3, <2>4 DEF HitOK
<1> QED BY <1>4, <1>5, <1>6 DEF HistInv

\* The leader's file replaces one that is no newer.
LEMMA StoreHist ==
    ASSUME HistInv, Run, NodeInv', NEW c \in Clients, Store(c), UNCHANGED visit
    PROVE  HistInv'
<1> DEFINE k == task[c].key
           b == task[c].body
<1>1. NodeInv /\ c \in Callers /\ bodies' = bodies /\ bodies \in Nat /\ task \in [Callers -> Task] /\ call \in [Callers -> Call]
      /\ k \in Keys /\ k # None /\ b \in Nat /\ items' = items /\ task[c].at = "body" /\ task[c].at \in Leading /\ b # None
      /\ disk \in [Keys -> Nat \cup {None}]
  BY StoredTypes, ClientFacts, NoneAssumption DEF HistInv, NodeInv, SFInv, CacheInv, TypeOK, Shapes, Store, In, Leading, SetContent, index
<1>2. PICK m : SetContent(c, k, m) /\ Put(c, "store", k, b, m) /\ m.body = b
  BY DEF Store
<1>3. /\ task'[c].at = "store" /\ task'[c].key = k /\ task'[c].body = b
      /\ \A d \in Callers \ {c} : task'[d] = task[d]
  BY <1>1, <1>2, RecFields DEF Put
<1>4. /\ \A d \in Callers \ {c} : call'[d] = call[d]
      /\ \/ call'[c].op = "set.meta" /\ call'[c].meta.body = b /\ disk' = [disk EXCEPT ![k] = b]
         \/ call'[c].op = "set.err" /\ disk' = disk
  BY <1>1, <1>2 DEF SetContent, Enter
<1>5. disk'[k] \in {disk[k], b} /\ \A x \in Keys \ {k} : disk'[x] = disk[x]
  BY <1>1, <1>4
<1>6. least' = least /\ HistTypes' /\ \A d \in Clients : oldest'[d] = oldest[d] /\ OldOK(d)'
  BY <1>3, <1>4, Quiet DEF In
<1>7. Carries(c, k) /\ CarryOK(c, k) /\ least[k] <= b /\ b <= bodies /\ least[k] \in Nat /\ (items[k] # None => b <= items[k].body)
      /\ (disk[k] # None => disk[k] <= b)
  BY <1>1 DEF HistInv, HistTypes, CarryOK, Carries
<1>8. ASSUME NEW x \in Keys PROVE KeyOK(x)'
  BY <1>1, <1>5, <1>6, <1>7 DEF HistInv, KeyOK
<1>9. ASSUME NEW d \in Clients, NEW x \in Keys PROVE CarryOK(d, x)' /\ ReadOK(d, x)' /\ HitOK(d, x)'
  <2>1. /\ d \in Callers /\ CarryOK(d, x) /\ ReadOK(d, x) /\ HitOK(d, x)
        /\ d # c => task'[d] = task[d] /\ call'[d] = call[d]
    BY <1>3, <1>4, CallersAssumption DEF HistInv
  <2>2. d # c /\ x = k => ~(task[d].at \in Leading /\ task[d].key = k)
    BY <1>1, LeadsAlone
  <2>3. CarryOK(d, x)'
    <3>1. CASE d = c
      BY <1>1, <1>3, <1>4, <1>5, <1>6, <1>7, <3>1 DEF CarryOK, Carries, Writes
    <3>2. CASE d # c
      BY <1>1, <1>5, <1>6, <2>1, <2>2, <3>2 DEF CarryOK, Carries, Leading
    <3> QED BY <3>1, <3>2
  <2>4. ASSUME Reads(d, x)', disk'[x] # None PROVE ReadOK(d, x)'
    <3>1. d # c /\ Reads(d, x) /\ task'[d] = task[d]
      BY <1>4, <2>1, <2>4 DEF Reads, At
    <3>2. task[d].key = x /\ visit[d].key = x /\ x # None
      BY <1>1, <3>1, ClientFacts DEF Reads, At
    <3>3. x = k => ~In(d, "check") /\ oldest[d] <= least[k] /\ oldest[d] \in Nat
      BY <2>2, <3>1, <3>2 DEF HistInv, OldOK, HistTypes, In, Leading
    <3> QED BY <1>1, <1>5, <1>6, <1>7, <2>1, <3>1, <3>3 DEF ReadOK, In
  <2>5. ASSUME Hit(d, x)' PROVE HitOK(d, x)'
    <3>1. d # c /\ Hit(d, x) /\ task'[d] = task[d] /\ call'[d] = call[d]
      BY <1>4, <2>1, <2>5 DEF Hit, At
    <3>2. task[d].key = x
      BY <1>1, <3>1, ClientFacts DEF Hit, At
    <3>3. x = k => ~In(d, "check") /\ call[d].body <= b
      BY <1>7, <2>1, <2>2, <3>1, <3>2 DEF HitOK, In, Leading
    <3>4. ASSUME NEW e \in Clients, Carries(e, x)' PROVE call[d].body <= task'[e].body
      <4>1. Carries(e, x) /\ task'[e].body = task[e].body
        BY <1>1, <1>3, <3>4, CallersAssumption DEF Carries
      <4> QED BY <2>1, <3>1, <4>1 DEF HitOK
    <3>5. ASSUME NEW e \in Clients, Hit(e, x)' PROVE Hit(e, x) /\ call'[e] = call[e]
      BY <1>4, <3>5, CallersAssumption DEF Hit, At
    <3>6. disk'[x] # None => call[d].body <= disk'[x] /\ (In(d, "check") => disk'[x] <= call[d].body)
      BY <1>1, <1>5, <2>1, <3>1, <3>3 DEF HitOK
    <3> QED BY <1>1, <1>6, <2>1, <3>1, <3>4, <3>5, <3>6 DEF HitOK, In, Hit, At, Carries
  <2> QED BY <2>3, <2>4, <2>5 DEF ReadOK, HitOK
<1> QED BY <1>6, <1>8, <1>9 DEF HistInv

-----------------------------------------------------------------------------
\* The steps inside a cache call.  A body that is read is the file's, so no newer than what can still come.
LEMMA ReadHist ==
    ASSUME HistInv, Run, NodeInv', NEW c \in Clients, GetRead(c), UNCHANGED <<visit, task>>
    PROVE  HistInv'
<1> DEFINE k == call[c].key
           b == disk[k]
<1>1. NodeInv /\ c \in Callers /\ UNCHANGED <<items, disk, bodies>> /\ bodies \in Nat /\ call \in [Callers -> Call]
      /\ Reads(c, k) /\ k = task[c].key /\ k \in Keys /\ b \in Nat /\ b # None /\ task[c].at # "done"
  BY StoredTypes, ClientFacts DEF HistInv, NodeInv, SFInv, CacheInv, TypeOK, GetRead, At, index, Reads
<1>2. call'[c].op = "get.hit" /\ call'[c].key = k /\ call'[c].body = b /\ \A d \in Callers \ {c} : call'[d] = call[d]
  BY <1>1 DEF GetRead, Call
<1>3. least' = least /\ HistTypes' /\ \A d \in Clients : oldest'[d] = oldest[d] /\ OldOK(d)'
  BY <1>1, <1>2, Quiet DEF In
<1>4. \A x \in Keys : KeyOK(x)'
  BY <1>1, <1>3 DEF HistInv, KeyOK
<1>5. ReadOK(c, k) /\ KeyOK(k) /\ (items[k] # None => b = items[k].body)
  BY <1>1, StoredTypes DEF HistInv
<1>6. ASSUME NEW d \in Clients, NEW x \in Keys PROVE CarryOK(d, x)' /\ ReadOK(d, x)' /\ HitOK(d, x)'
  <2>1. /\ d \in Callers /\ CarryOK(d, x) /\ ReadOK(d, x) /\ HitOK(d, x)
        /\ d # c => call'[d] = call[d]
    BY <1>2, CallersAssumption DEF HistInv
  <2>2. CarryOK(d, x)'
    BY <1>1, <1>2, <1>3, <2>1 DEF CarryOK, Carries, Writes
  <2>3. ReadOK(d, x)'
    BY <1>1, <1>2, <1>3, <2>1 DEF ReadOK, Reads, At, In
  <2>4. ASSUME Hit(d, x)' PROVE HitOK(d, x)'
    <3>1. CASE d = c
      <4>1. x = k
        BY <1>2, <2>4, <3>1 DEF Hit
      <4>2. ASSUME NEW e \in Clients, Carries(e, x)' PROVE b <= task'[e].body
        <5>1. Carries(e, k)
          BY <4>1, <4>2 DEF Carries
        <5>2. CarryOK(e, k)
          BY <1>1 DEF HistInv
        <5> QED BY <1>1, <5>1, <5>2 DEF CarryOK
      <4>3. ASSUME NEW e \in Clients, Hit(e, x)' PROVE call'[e].body <= b
        <5>1. CASE e = c
          BY <1>1, <1>2, <5>1
        <5>2. CASE e # c
          <6>1. Hit(e, k) /\ HitOK(e, k) /\ call'[e] = call[e]
            BY <1>1, <1>2, <4>1, <4>3, <5>2, CallersAssumption DEF HistInv, Hit, At
          <6> QED BY <1>1, <6>1 DEF HitOK
        <5> QED BY <5>1, <5>2
      <4>4. oldest[c] <= b /\ b <= bodies /\ (In(c, "check") => least[k] <= b) /\ b <= b
        BY <1>1, <1>5 DEF ReadOK, KeyOK
      <4>5. items[k] # None => b <= items[k].body
        BY <1>1, <1>5
      <4> QED BY <1>1, <1>2, <1>3, <3>1, <4>1, <4>2, <4>3, <4>4, <4>5 DEF HitOK, In, Hit, At, Carries
    <3>2. CASE d # c
      <4>1. Hit(d, x) /\ call'[d] = call[d]
        BY <2>1, <2>4, <3>2 DEF Hit, At
      <4>2. ASSUME In(d, "check"), NEW e \in Clients, Hit(e, x)' PROVE call'[e].body <= call[d].body
        <5>1. CASE e = c
          BY <1>1, <1>2, <2>1, <4>1, <4>2, <5>1 DEF HitOK, Hit
        <5>2. CASE e # c
          BY <1>2, <2>1, <4>1, <4>2, <5>2, CallersAssumption DEF HitOK, Hit, At
        <5> QED BY <5>1, <5>2
      <4>3. ASSUME NEW e \in Clients, Carries(e, x)' PROVE call[d].body <= task'[e].body
        BY <1>1, <2>1, <4>1, <4>3 DEF HitOK, Carries
      <4> QED BY <1>1, <1>3, <2>1, <4>1, <4>2, <4>3 DEF HitOK, In, Hit, At, Carries
    <3> QED BY <3>1, <3>2
  <2> QED BY <2>2, <2>3, <2>4 DEF HitOK
<1> QED BY <1>3, <1>4, <1>6 DEF HistInv

\* The entry that a leader inserts is for the body it carries.
LEMMA InsertHist ==
    ASSUME HistInv, Run, NodeInv', NEW c \in Clients, SetInsert(c), UNCHANGED <<visit, task>>
    PROVE  HistInv'
<1> DEFINE k == call[c].key
           b == task[c].body
<1>1. NodeInv /\ c \in Callers /\ bodies' = bodies /\ bodies \in Nat /\ call \in [Callers -> Call] /\ call[c].op = "set.index"
      /\ call[c].op \in Writes
  BY StoredTypes, CallersAssumption DEF HistInv, NodeInv, SFInv, CacheInv, TypeOK, SetInsert, At, Writes
<1>2. k = task[c].key /\ k \in Keys /\ task[c].at = "store" /\ task[c].at \in Leading /\ b \in Nat /\ Carries(c, k)
  BY <1>1, WriterLeads, ClientFacts DEF In, Carries
<1>3. CarryOK(c, k) /\ call[c].meta.body = b /\ least[k] <= b
  BY <1>1, <1>2 DEF HistInv, CarryOK
<1>4. /\ items'[k] \in {call[c].meta, None} /\ \A x \in Keys \ {k} : items'[x] \in {items[x], None}
      /\ \A x \in Keys : disk'[x] \in {disk[x], None}
  <2> DEFINE all == <<k>> \o lru
             evicted == {all[i] : i \in Len(Kept(all)) + 1 .. Len(all)}
  <2>1. items' = [x \in Keys |-> IF x \in evicted THEN None ELSE IF x = k THEN call[c].meta ELSE items[x]]
    BY DEF SetInsert
  <2>2. PICK undeleted \in SUBSET evicted :
          disk' = [x \in Keys |-> IF x \in evicted \ undeleted THEN None ELSE disk[x]]
    BY DEF SetInsert
  <2> HIDE DEF evicted
  <2> QED BY <1>2, <2>1, <2>2
<1>5. /\ \A d \in Callers \ {c} : call'[d] = call[d]
      /\ call'[c].op = "set.ok"
  BY <1>1 DEF SetInsert, Leave, Enter
<1>6. least' = least /\ HistTypes' /\ \A d \in Clients : oldest'[d] = oldest[d] /\ OldOK(d)'
  BY <1>2, <1>5, Quiet DEF In
<1>7. ASSUME NEW x \in Keys PROVE KeyOK(x)'
  BY <1>1, <1>3, <1>4, <1>6 DEF HistInv, KeyOK
<1>8. ASSUME NEW d \in Clients, NEW x \in Keys PROVE CarryOK(d, x)' /\ ReadOK(d, x)' /\ HitOK(d, x)'
  <2>1. /\ d \in Callers /\ CarryOK(d, x) /\ ReadOK(d, x) /\ HitOK(d, x)
        /\ d # c => call'[d] = call[d]
    BY <1>5, CallersAssumption DEF HistInv
  <2>2. CarryOK(d, x)'
    <3>1. CASE d = c
      BY <1>1, <1>2, <1>3, <1>4, <1>5, <1>6, <2>1, <3>1 DEF CarryOK, Carries, Writes
    <3>2. CASE d # c
      <4>1. x = k => ~Carries(d, x)
        BY <1>1, <1>2, <3>2, LeadsAlone DEF Carries, Leading
      <4> QED BY <1>1, <1>4, <1>6, <2>1, <3>2, <4>1 DEF CarryOK, Carries
    <3> QED BY <3>1, <3>2
  <2>3. ReadOK(d, x)'
    BY <1>4, <1>5, <1>6, <2>1 DEF ReadOK, Reads, At, In
  <2>4. ASSUME Hit(d, x)' PROVE HitOK(d, x)'
    <3>1. Hit(d, x) /\ d # c /\ call'[d] = call[d]
      BY <1>5, <2>1, <2>4 DEF Hit, At
    <3>2. ASSUME NEW e \in Clients, Carries(e, x)' PROVE call[d].body <= task'[e].body
      BY <2>1, <3>1, <3>2 DEF HitOK, Carries
    <3>3. ASSUME NEW e \in Clients, Hit(e, x)' PROVE Hit(e, x) /\ call'[e] = call[e]
      BY <1>5, <3>3, CallersAssumption DEF Hit, At
    <3>4. x = k => call[d].body <= b
      BY <1>2, <2>1, <3>1 DEF HitOK
    <3>5. items'[x] # None => call[d].body <= items'[x].body
      BY <1>3, <1>4, <2>1, <3>1, <3>4 DEF HitOK
    <3>6. disk'[x] # None => call[d].body <= disk'[x] /\ (In(d, "check") => disk'[x] <= call[d].body)
      BY <1>4, <2>1, <3>1 DEF HitOK
    <3> QED BY <1>1, <1>6, <2>1, <3>1, <3>2, <3>3, <3>5, <3>6 DEF HitOK, In, Hit, At, Carries
  <2> QED BY <2>2, <2>3, <2>4 DEF HitOK
<1> QED BY <1>6, <1>7, <1>8 DEF HistInv

LEMMA CacheStepHist ==
    ASSUME HistInv, Run, NodeInv', NEW c \in Clients, CacheStep(c), UNCHANGED visit
    PROVE  HistInv'
<1>1. /\ NodeInv /\ c \in Callers /\ CacheInv /\ UNCHANGED task /\ Missed(c) /\ CallerOK(c) /\ SFInv
      /\ call[c].op \in Underway => call[c].key \in Keys
      /\ call \in [Callers -> Call] /\ items \in [Keys -> Meta \cup {None}] /\ disk \in [Keys -> Nat \cup {None}]
  BY ClientFacts DEF HistInv, SFInv, CacheStep, CacheInv, TypeOK
<1>2. ASSUME Shrink, bodies' = bodies, \A d \in Callers \ {c} : call'[d] = call[d],
             call'[c].op \in {"get.evict", "get.miss", "set.index", "set.err", "delete.ok", "delete.err"},
             call'[c].op \in Writes => call[c].op \in Writes /\ call'[c].meta = call[c].meta
      PROVE  HistInv'
  BY <1>1, <1>2, OneLeaves
<1>3. CASE GetRead(c)
  BY <1>1, <1>3, ReadHist
<1>4. CASE GetReadFails(c)
  <2>1. /\ \A d \in Callers \ {c} : call'[d] = call[d]
        /\ call'[c].op = "get.evict" /\ UNCHANGED <<items, disk, bodies>>
    BY <1>1, <1>4 DEF GetReadFails, Enter, index
  <2> QED BY <1>2, <2>1 DEF Shrink, Writes
<1>5. CASE GetEvict(c)
  <2>1. /\ \A d \in Callers \ {c} : call'[d] = call[d]
        /\ call'[c].op = "get.miss" /\ bodies' = bodies
    BY <1>1, <1>5 DEF GetEvict, Leave, Enter, At
  <2>2. Shrink
    BY <1>1, <1>5, UnindexShrinks DEF GetEvict, Underway, At
  <2> QED BY <1>2, <2>1, <2>2 DEF Writes
<1>6. CASE SetMeta(c)
  <2>1. /\ \A d \in Callers \ {c} : call'[d] = call[d]
        /\ call[c].op = "set.meta" /\ UNCHANGED <<items, bodies>>
        /\ \/ call'[c].op = "set.index" /\ call'[c].meta = call[c].meta /\ disk' = disk
           \/ call'[c].op = "set.err" /\ disk' = [disk EXCEPT ![call[c].key] = None]
    BY <1>1, <1>6 DEF SetMeta, Leave, Enter, At, index
  <2>2. Shrink
    BY <1>1, <2>1 DEF Shrink
  <2> QED BY <1>2, <2>1, <2>2 DEF Writes
<1>7. CASE SetUpdate(c)
  <2>1. call[c].op = "set.index" /\ items[call[c].key] # None /\ call[c].op \in Writes
    BY <1>7 DEF SetUpdate, At, Writes
  <2>2. In(c, "store") /\ call[c].key = task[c].key
    BY <1>1, <2>1, WriterLeads
  <2> QED BY <1>1, <2>1, <2>2 DEF Missed, Fetching, At
<1>8. CASE SetInsert(c)
  BY <1>1, <1>8, InsertHist
<1>9. CASE DeleteStorage(c)
  <2>1. /\ \A d \in Callers \ {c} : call'[d] = call[d]
        /\ call'[c].op \in {"delete.ok", "delete.err"} /\ UNCHANGED <<items, bodies>>
        /\ disk' = disk \/ disk' = [disk EXCEPT ![call[c].key] = None]
    BY <1>1, <1>9 DEF DeleteStorage, Leave, Enter, At, index
  <2>2. Shrink
    BY <1>1, <2>1 DEF Shrink
  <2> QED BY <1>2, <2>1, <2>2 DEF Writes
<1> QED BY <1>3, <1>4, <1>5, <1>6, <1>7, <1>8, <1>9 DEF CacheStep, CallStep

LEMMA ServeStepHist == ASSUME HistInv, Run, NodeInv', NEW c \in Clients, ServeStep(c) PROVE HistInv'
<1>1. ASSUME FetchStep(c), UNCHANGED visit PROVE HistInv'
  BY <1>1, CacheStepHist, FastHitHist, JoinLeadHist, DoubleCheckHist, CheckHitHist, PullHist, FlightFailsHist, StoreHist,
     StoredHist DEF FetchStep
<1> QED BY <1>1, MatchHist, EvictHist, PeekHist, ServeHist, RespondHist DEF ServeStep

-----------------------------------------------------------------------------
\* A purge of a key that nobody fetches: only bodies still to be pulled may come of it.
LEMMA FlushURLHist ==
    ASSUME HistInv, Run, NodeInv', NEW a \in Admins, NEW k \in Keys, FlushURL(a, k)
    PROVE  HistInv'
<1>1. NodeInv /\ a \in Callers /\ Delete(a, k) /\ UNCHANGED visit /\ \A d \in Clients : d \in Callers \ {a}
  BY CallersAssumption DEF HistInv, FlushURL
<1>2. /\ \A d \in Callers \ {a} : call'[d] = call[d] /\ task'[d] = task[d]
      /\ call'[a].key = k /\ Shrink /\ items'[k] = None /\ bodies' = bodies
  BY <1>1, DeleteDoes
<1>3. \A x \in Keys : Purging(x) => x = k /\ group[x] = None
  BY <1>2, CallersAssumption DEF Purging
<1>4. /\ bodies \in Nat /\ \A d \in Clients : oldest'[d] = oldest[d] /\ task'[d] = task[d] /\ call'[d] = call[d]
      /\ \A x \in Keys : least[x] \in Nat /\ least[x] <= bodies + 1
  BY <1>1, <1>2, OldestStays, StoredTypes DEF HistInv, HistTypes, KeyOK
<1>5. \A x \in Keys : /\ least'[x] \in Nat /\ least[x] <= least'[x]
                      /\ least'[x] = least[x] \/ (Purging(x) /\ least'[x] = bodies + 1)
  <2> SUFFICES ASSUME NEW x \in Keys
               PROVE  /\ least'[x] \in Nat /\ least[x] <= least'[x]
                      /\ least'[x] = least[x] \/ (Purging(x) /\ least'[x] = bodies + 1)
    OBVIOUS
  <2>1. CASE Purging(x)
    BY <1>4, <2>1 DEF Run
  <2>2. CASE ~Purging(x)
    <3>1. \A d \in Clients : ~Answering(d, x)
      BY <1>4 DEF Answering
    <3> QED BY <2>2, <3>1, LeastMoves
  <2> QED BY <2>1, <2>2
<1>6. HistTypes'
  BY <1>5, HistTyped
<1>7. \A x \in Keys : least'[x] <= bodies + 1 /\ (items'[x] # None => least'[x] <= items'[x].body)
  BY <1>2, <1>3, <1>4, <1>5 DEF HistInv, KeyOK, Shrink
<1>8. ASSUME NEW d \in Clients, NEW x \in Keys, task[d].at \in Leading, task[d].key = x PROVE least'[x] = least[x]
  <2>1. group[x] = d /\ d # None
    BY <1>1, <1>8, CallerAssumption DEF NodeInv, SFInv, FlightsConsistent
  <2> QED BY <1>3, <1>5, <2>1
<1>9. ASSUME NEW d \in Clients PROVE Calm(d) /\ OldOK(d)' /\ \A x \in Keys : ReadOK(d, x)'
  <2>1. Calm(d)
    BY <1>4 DEF Calm, In
  <2>2. OldOK(d)'
    <3>1. oldest[d] \in Nat /\ (visit[d].key # None => visit[d].key \in Keys)
      BY <1>1 DEF HistInv, HistTypes, NodeInv, Visit
    <3>2. visit[d].key # None => oldest[d] <= least'[visit[d].key]
      BY <1>4, <1>5, <3>1 DEF HistInv, OldOK
    <3> QED BY <1>1, <1>4, <3>2 DEF HistInv, OldOK, In
  <2>3. ASSUME NEW x \in Keys, Reads(d, x)', disk'[x] # None PROVE ReadOK(d, x)'
    <3>1. Reads(d, x) /\ disk'[x] = disk[x] /\ ReadOK(d, x)
      BY <1>2, <1>4, <2>3 DEF HistInv, Reads, At, Shrink
    <3>2. In(d, "check") => least'[x] = least[x]
      BY <1>1, <1>8, <3>1, ClientFacts DEF In, Leading, Reads, At
    <3> QED BY <1>4, <2>3, <3>1, <3>2 DEF ReadOK, In
  <2> QED BY <2>1, <2>2, <2>3 DEF ReadOK
<1>10. ASSUME NEW d \in Clients, NEW x \in Keys, Carries(d, x)' PROVE least'[x] <= task[d].body
  <2>1. Carries(d, x) /\ CarryOK(d, x)
    BY <1>4, <1>10 DEF HistInv, Carries
  <2>2. task[d].at \in Leading /\ task[d].key = x
    BY <2>1 DEF Carries, Leading
  <2> QED BY <1>8, <2>1, <2>2 DEF CarryOK
<1>11. ASSUME NEW d \in Clients, NEW x \in Keys, Hit(d, x)', In(d, "check")' PROVE least'[x] <= call[d].body
  <2>1. Hit(d, x) /\ In(d, "check") /\ HitOK(d, x)
    BY <1>4, <1>11 DEF HistInv, Hit, At, In
  <2>2. least'[x] = least[x]
    BY <1>1, <1>8, <2>1, ClientFacts DEF Hit, At, In, Leading
  <2> QED BY <2>1, <2>2 DEF HitOK
<1> QED BY <1>2, <1>6, <1>7, <1>9, <1>10, <1>11, CalmKeeps

\* An administrator's other steps only delete files.
LEMMA AdminHist ==
    ASSUME HistInv, Run, NodeInv', NEW a \in Admins,
           \/ CacheStep(a) /\ UNCHANGED <<visit, store>>
           \/ AdminStep(a) \/ Reload(a)
           \/ \E k \in Keys : FlushURL(a, k)
           \/ \E p \in RulePrefixes : FlushPrefix(a, p)
    PROVE  HistInv'
<1>1. NodeInv /\ a \in Callers /\ CallerOK(a) /\ task[a].at = "idle" /\ \A d \in Clients : d \in Callers \ {a}
  BY CallersAssumption DEF HistInv, NodeInv, SFInv
<1>2. CASE CacheStep(a) /\ UNCHANGED <<visit, store>>
  <2>1. DeleteStorage(a) /\ UNCHANGED <<task, visit>>
    BY <1>1, <1>2 DEF CacheStep, CallStep, CallerOK, InStep, Deletes, At, GetRead, GetReadFails, GetEvict, SetMeta, SetUpdate, SetInsert
  <2>2. call \in [Callers -> Call] /\ disk \in [Keys -> Nat \cup {None}] /\ UNCHANGED <<items, bodies>>
    BY <1>1, <2>1 DEF NodeInv, SFInv, CacheInv, TypeOK, DeleteStorage, index
  <2>3. /\ \A d \in Callers \ {a} : call'[d] = call[d]
        /\ call'[a].op # "delete.storage"
        /\ disk' = disk \/ disk' = [disk EXCEPT ![call[a].key] = None]
    BY <1>1, <2>1, <2>2 DEF DeleteStorage, Leave, Enter
  <2>4. Shrink
    BY <2>2, <2>3 DEF Shrink
  <2>5. \A k \in Keys : ~Purging(k)
    BY <2>3, CallersAssumption DEF Purging
  <2> QED BY <1>1, <2>1, <2>2, <2>3, <2>4, <2>5, NobodyMoves
<1>3. CASE AdminStep(a) \/ Reload(a) \/ \E p \in RulePrefixes : FlushPrefix(a, p)
  <2>1. UNCHANGED <<items, disk, call, bodies, task, visit>>
    BY <1>3 DEF AdminStep, Reload, FlushPrefix, sfvars, vars
  <2>2. \A k \in Keys : ~Purging(k)
    BY <2>1 DEF Purging
  <2> QED BY <2>1, <2>2, NobodyMoves DEF Shrink
<1> QED BY <1>2, <1>3, FlushURLHist

LEMMA RunHist == ASSUME HistInv, Run PROVE HistInv'
<1>1. Serving /\ NodeInv'
  BY ServingKeeps DEF Run, HistInv
<1>2. CASE NodeTick
  <2>1. UNCHANGED <<items, disk, call, bodies, task, visit>>
    BY <1>2 DEF NodeTick, SFTick, Tick, index
  <2>2. \A k \in Keys : ~Purging(k)
    BY <2>1 DEF Purging
  <2> QED BY <1>1, <2>1, <2>2, NobodyMoves DEF Shrink
<1> QED BY <1>1, <1>2, ServeStepHist, ArriveHist, AdminHist DEF Serving

LEMMA CrashHist == ASSUME HistInv, Crash PROVE HistInv'
<1>1. NodeInv' /\ NodeInv
  BY DieKeeps DEF Crash, HistInv
<1>2. /\ items' = [k \in Keys |-> None] /\ UNCHANGED <<disk, bodies>>
      /\ call' = [c \in Callers |-> Idle] /\ task' = [c \in Callers |-> NoTask] /\ visit' = [c \in Clients |-> NoVisit]
      /\ least' = [k \in Keys |-> bodies + 1] /\ oldest' = [c \in Clients |-> 0]
  BY DEF Crash, Die
<1>3. \A c \in Clients : call'[c].op = "idle" /\ task'[c].at = "idle" /\ visit'[c].key = None /\ oldest'[c] = 0
  BY <1>2, CallersAssumption DEF Idle, NoTask, NoVisit
<1>4. HistTypes' /\ \A k \in Keys : KeyOK(k)'
  BY <1>1, <1>2, StoredTypes DEF HistInv, HistTypes, KeyOK
<1>5. ASSUME NEW c \in Clients PROVE OldOK(c)' /\ \A k \in Keys : CarryOK(c, k)' /\ ReadOK(c, k)' /\ HitOK(c, k)'
  BY <1>3 DEF OldOK, CarryOK, Carries, ReadOK, Reads, HitOK, Hit, At, In
<1> QED BY <1>1, <1>4, <1>5 DEF HistInv

LEMMA HistInit_Inv == HistInit => HistInv
<1> SUFFICES ASSUME HistInit PROVE HistInv
  OBVIOUS
<1>1. NodeInv
  BY NodeInit_Inv DEF HistInit
<1>2. /\ items = [k \in Keys |-> None] /\ disk \in [Keys -> {0, None}] /\ bodies = 0
      /\ call = [c \in Callers |-> Idle] /\ task = [c \in Callers |-> NoTask] /\ visit = [c \in Clients |-> NoVisit]
      /\ least = [k \in Keys |-> 1] /\ oldest = [c \in Clients |-> 0]
  BY DEF HistInit, NodeInit, SFInit, Init
<1>3. \A c \in Clients : call[c].op = "idle" /\ task[c].at = "idle" /\ visit[c].key = None /\ oldest[c] = 0
  BY <1>2, CallersAssumption DEF Idle, NoTask, NoVisit
<1>4. HistTypes /\ \A k \in Keys : KeyOK(k)
  BY <1>2 DEF HistTypes, KeyOK
<1>5. ASSUME NEW c \in Clients PROVE OldOK(c) /\ \A k \in Keys : CarryOK(c, k) /\ ReadOK(c, k) /\ HitOK(c, k)
  BY <1>3 DEF OldOK, CarryOK, Carries, ReadOK, Reads, HitOK, Hit, At, In
<1> QED BY <1>1, <1>4, <1>5 DEF HistInv

LEMMA HistStepKeeps == HistInv /\ [Run \/ Crash]_<<nodevars, least, oldest>> => HistInv'
<1> SUFFICES ASSUME HistInv, [Run \/ Crash]_<<nodevars, least, oldest>> PROVE HistInv'
  OBVIOUS
<1>1. CASE UNCHANGED <<nodevars, least, oldest>>
  <2>1. UNCHANGED nodevars /\ UNCHANGED <<items, disk, call, bodies, task, visit, least, oldest>>
    BY <1>1 DEF nodevars, sfvars, vars
  <2>2. NodeInv'
    BY <2>1, NodeStepKeeps DEF HistInv
  <2> QED BY <2>1, <2>2 DEF HistInv, HistTypes, KeyOK, OldOK, CarryOK, Carries, ReadOK, Reads, HitOK, Hit, At, In
<1> QED BY <1>1, RunHist, CrashHist

\* What is served of a key never goes back, to whom it is served, and whatever is flushed, evicted, expired, lost
\* or restarted meanwhile (router.go 98-135, singleflight.go 35-85, cache.go 63-112, handler.go 63).
THEOREM ServedNeverGoesBack == HistSpec => []NoStepBack
<1>1. HistInv => NoStepBack
  BY DEF HistInv, OldOK, NoStepBack, Served, In
<1> QED BY HistInit_Inv, HistStepKeeps, <1>1, PTL DEF HistSpec

-----------------------------------------------------------------------------
\* The lifetime of an entry ends before Cleanup may drop a rule made after the entry was written.
RulesOutlive == \A ttl \in TTLs : ttl <= MaxAge

\* A flush of k at time t still counts: its rule or a later one is in force, or it is so long ago that every
\* entry it was about has expired.
Stands(k, t) == t = 0 \/ t + MaxAge <= now \/ \E r \in rules : k \in r.covers /\ r.at >= t
RulesStand ==
    /\ \A k \in Keys : flushed[k] <= now /\ Stands(k, flushed[k])
    /\ \A a \in Admins : writer[a].time <= now
    /\ \A r \in rules : r.at <= now
\* Entries, and those on their way into the index, live no longer than a rule.
LivesOK ==
    /\ \A k \in Keys : items[k] # None => items[k].ttl <= MaxAge
    /\ \A d \in Callers : call[d].op \in Writes => call[d].meta.ttl <= MaxAge

\* What d is storing under k was written at time t or later.
Storing(d, k, t) ==
    /\ call[d].op \in Writes /\ call[d].key = k => call[d].meta.at >= t
    /\ task[d].at = "store" /\ task[d].key = k => task[d].meta.at >= t
StoredSince(k, t) == \A d \in Callers : Storing(d, k, t)

\* So was what a lookup of k may find, and what the leader of its flight has found.
Lasting(k, t) == items[k] # None => items[k].at >= t \/ Expired(items[k])
Checking(d, k, t) ==
    task[d].at = "check" /\ task[d].key = k /\ call[d].op \in {"get.read", "get.hit"} => call[d].meta.at >= t
FoundSince(k, t) == Lasting(k, t) /\ \A d \in Callers : Checking(d, k, t)

\* And what c itself has found, or been answered.
Answer(c, t) ==
    /\ task[c].at = "fast" /\ call[c].op \in {"get.read", "get.hit"} => call[c].meta.at >= t
    /\ task[c].at = "done" => task[c].meta.at >= t

\* Before the flush check is over an entry of the key may be old, if it is the one that Stat found; after it none
\* may be.
Uncertain(c) == visit[c].at = "check" /\ At(c, "stat.hit")
Certain(c) == visit[c].at \in {"checked", "peek", "serve"} \/ (visit[c].at = "check" /\ At(c, "stat.miss"))
OnlyStale(c, k, t) == items[k] # None /\ items[k] # call[c].meta => items[k].at >= t

Honours(c, k, t) ==
    /\ StoredSince(k, t)
    /\ Uncertain(c) => OnlyStale(c, k, t)
    /\ Certain(c) => FoundSince(k, t) /\ Answer(c, t)
Asking(c, k, t) ==
    /\ t <= flushed[k]
    /\ calm[c] /\ t > 0 => Honours(c, k, t)

FlushTypes == flushed \in [Keys -> Nat] /\ since \in [Clients -> Nat]
FlushInv ==
    /\ NodeInv /\ FlushTypes /\ RulesStand /\ LivesOK
    /\ \A c \in Clients : visit[c].at = "check" => call[c].op \in {"stat.hit", "stat.miss"}
    /\ \A c \in Clients : visit[c].key # None => Asking(c, visit[c].key, since[c])

-----------------------------------------------------------------------------
\* What one step does to a caller, as far as the age of entries goes.
StaysPut(d) == call'[d] = call[d] /\ task'[d] = task[d]
Settles(d) == call'[d].op \notin Writes \cup {"get.read", "get.hit"}
GoesQuiet(d) == Settles(d) /\ (task'[d] = task[d] \/ task'[d].at \notin {"store", "done"})
LooksUp(d) ==
    /\ call'[d].op = "get.read" /\ call'[d].key \in Keys /\ call'[d].meta = items[call'[d].key]
    /\ items[call'[d].key] # None /\ ~Expired(items[call'[d].key])
    /\ task'[d].key = call'[d].key /\ task'[d].at \in {"fast", "check"}
ReadsOn(d) == task'[d] = task[d] /\ call[d].op = "get.read" /\ call'[d].op = "get.hit" /\ call'[d].meta = call[d].meta
WritesOn(d) ==
    /\ task'[d] = task[d] /\ call[d].op = "set.meta" /\ call'[d].op = "set.index"
    /\ call'[d].key = call[d].key /\ call'[d].meta = call[d].meta
StampsNow(d) ==
    /\ task'[d].at = "store" /\ task'[d].meta.at = now /\ call'[d].op \notin {"get.read", "get.hit"}
    /\ call'[d].op \in Writes => call'[d].meta.at = now /\ call'[d].meta.ttl \in TTLs
\* d is answered by e, itself or the leader of its flight.
AnsweredBy(d, e) ==
    /\ task'[d].at = "done" /\ Settles(d) /\ task[e].key = task'[d].key
    /\ \/ call[e].op = "get.hit" /\ (task[e].at = "check" \/ (task[e].at = "fast" /\ e = d)) /\ task'[d].meta = call[e].meta
       \/ task[e].at = "store" /\ task'[d].meta = task[e].meta
Moved(d) ==
    \/ StaysPut(d) \/ GoesQuiet(d) \/ LooksUp(d) \/ ReadsOn(d) \/ WritesOn(d) \/ StampsNow(d)
    \/ \E e \in Callers : AnsweredBy(d, e)

\* Entries go, or come of a Set.
ItemsMoved == \A k \in Keys :
    \/ items'[k] \in {None, items[k]}
    \/ \E d \in Callers : call[d].op = "set.index" /\ call[d].key = k /\ items'[k] = call[d].meta
AllMoved == ItemsMoved /\ \A d \in Callers : Moved(d)

LEMMA ShrinkMoves == ASSUME Shrink PROVE ItemsMoved
BY DEF Shrink, ItemsMoved

LEMMA OnlyOneMoves ==
    ASSUME NEW c \in Callers, Moved(c), ItemsMoved, \A d \in Callers \ {c} : StaysPut(d)
    PROVE  AllMoved
BY DEF AllMoved, Moved

\* A lookup by a request that is at "fast" or "check" then.
LEMMA LookupMoves ==
    ASSUME CacheInv, NEW c \in Callers, NEW k \in Keys, GetLookup(c, k), task'[c].at \in {"fast", "check"}, task'[c].key = k
    PROVE  Moved(c)
<1>1. call \in [Callers -> Call]
  BY CallFun
<1>2. CASE Enter(c, "get.miss", k, None)
  <2>1. call'[c].op = "get.miss"
    BY <1>1, <1>2 DEF Enter
  <2> QED BY <2>1 DEF Moved, GoesQuiet, Settles, Writes
<1>3. CASE items[k] # None /\ ~Expired(items[k]) /\ Enter(c, "get.read", k, items[k])
  <2>1. call'[c].op = "get.read" /\ call'[c].key = k /\ call'[c].meta = items[k]
    BY <1>1, <1>3 DEF Enter
  <2> QED BY <1>3, <2>1 DEF Moved, LooksUp
<1> QED BY <1>2, <1>3 DEF GetLookup

\* A step inside the cache.
LEMMA CacheStepMoves == ASSUME SFInv, NEW c \in Callers, CacheStep(c) PROVE AllMoved
<1>1. /\ CacheInv /\ UNCHANGED task /\ call \in [Callers -> Call] /\ items \in [Keys -> Meta \cup {None}]
      /\ call[c].op \in Underway => call[c].key \in Keys
  BY DEF SFInv, CacheInv, TypeOK, CacheStep
<1> USE DEF At
<1>2. ASSUME NEW op \in {"get.evict", "get.miss", "set.err", "set.ok", "delete.ok", "delete.err"}, Leave(c, op), ItemsMoved PROVE AllMoved
  <2>1. call'[c].op = op /\ \A d \in Callers \ {c} : StaysPut(d)
    BY <1>1, <1>2 DEF Leave, Enter, StaysPut
  <2>2. Moved(c)
    BY <1>1, <2>1 DEF Moved, GoesQuiet, Settles, Writes
  <2> QED BY <1>2, <2>1, <2>2, OnlyOneMoves
<1>3. CASE GetRead(c)
  <2>1. /\ \A d \in Callers \ {c} : StaysPut(d)
        /\ call'[c].op = "get.hit" /\ call'[c].meta = call[c].meta
    BY <1>1, <1>3 DEF GetRead, StaysPut, Call
  <2>2. Moved(c)
    BY <1>1, <1>3, <2>1 DEF Moved, ReadsOn, GetRead
  <2>3. ItemsMoved
    BY <1>3 DEF GetRead, index, ItemsMoved
  <2> QED BY <2>1, <2>2, <2>3, OnlyOneMoves
<1>4. CASE GetReadFails(c)
  BY <1>2, <1>4 DEF GetReadFails, Leave, ItemsMoved, index
<1>5. CASE GetEvict(c)
  <2>1. ItemsMoved
    BY <1>1, <1>5 DEF GetEvict, Unindex, ItemsMoved
  <2> QED BY <1>2, <1>5, <2>1 DEF GetEvict
<1>6. CASE SetMeta(c)
  <2>1. ItemsMoved
    BY <1>6 DEF SetMeta, index, ItemsMoved
  <2>2. CASE Enter(c, "set.index", call[c].key, call[c].meta)
    <3>1. /\ \A d \in Callers \ {c} : StaysPut(d)
          /\ call'[c].op = "set.index" /\ call'[c].key = call[c].key /\ call'[c].meta = call[c].meta
      BY <1>1, <2>2 DEF Enter, StaysPut
    <3>2. Moved(c)
      BY <1>1, <1>6, <3>1 DEF Moved, WritesOn, SetMeta
    <3> QED BY <2>1, <3>1, <3>2, OnlyOneMoves
  <2>3. CASE Leave(c, "set.err")
    BY <1>2, <2>1, <2>3
  <2> QED BY <1>6, <2>2, <2>3 DEF SetMeta
<1>7. CASE SetUpdate(c)
  <2>1. ItemsMoved
    BY <1>1, <1>7 DEF SetUpdate, ItemsMoved, Underway
  <2> QED BY <1>2, <1>7, <2>1 DEF SetUpdate
<1>8. CASE SetInsert(c)
  <2>1. ItemsMoved
    <3>1. \A x \in Keys : items'[x] \in {None, items[x]} \/ (x = call[c].key /\ items'[x] = call[c].meta)
      BY <1>8 DEF SetInsert
    <3> QED BY <1>8, <3>1 DEF ItemsMoved, SetInsert
  <2> QED BY <1>2, <1>8, <2>1 DEF SetInsert
<1>9. CASE DeleteStorage(c)
  BY <1>2, <1>9 DEF DeleteStorage, ItemsMoved, index
<1> QED BY <1>3, <1>4, <1>5, <1>6, <1>7, <1>8, <1>9 DEF CacheStep, CallStep

\* The flight of c ends, and its waiters, who are in no cache call, get its outcome.
LEMMA LandMoves ==
    ASSUME SFInv, NEW c \in Callers, NEW at \in {"done", "failed"}, NEW b, NEW m, Land(c, at, b, m), UNCHANGED items,
           call'[c].op = "idle", \A d \in Callers \ {c} : call'[d] = call[d],
           at = "done" => \/ call[c].op = "get.hit" /\ task[c].at = "check" /\ m = call[c].meta
                          \/ task[c].at = "store" /\ m = task[c].meta
    PROVE  AllMoved
<1> DEFINE r == TaskRec(at, task[c].key, b, m)
<1>1. \A d \in Callers : task'[d] = IF d \in Landed(c) THEN r ELSE task[d]
  BY DEF Land, Landed
<1>2. r.at = at /\ r.key = task[c].key /\ r.meta = m
  BY DEF TaskRec
<1> HIDE DEF r
<1>3. \A d \in Landed(c) : d \in Callers /\ call'[d].op = "idle"
  <2>1. \A d \in Callers : In(d, "wait") => call[d].op = "idle"
    BY DEF SFInv, CallerOK, InStep, In
  <2> QED BY <2>1 DEF Landed
<1>4. ASSUME NEW d \in Callers PROVE Moved(d)
  <2>1. CASE d \notin Landed(c)
    BY <1>1, <2>1 DEF Landed, Moved, StaysPut
  <2>2. CASE d \in Landed(c) /\ at = "failed"
    BY <1>1, <1>2, <1>3, <2>2 DEF Moved, GoesQuiet, Settles, Writes
  <2>3. CASE d \in Landed(c) /\ at = "done"
    <3>1. task'[d] = r /\ Settles(d)
      BY <1>1, <1>3, <2>3 DEF Settles, Writes
    <3>2. AnsweredBy(d, c)
      BY <1>2, <2>3, <3>1 DEF AnsweredBy
    <3> QED BY <3>2 DEF Moved
  <2> QED BY <2>1, <2>2, <2>3
<1> QED BY <1>4 DEF AllMoved, ItemsMoved

\* A step of GetOrFetch.
LEMMA FetchMoves == ASSUME SFInv, NEW c \in Callers, FetchStep(c), bodies' \in Nat PROVE AllMoved
<1>1. /\ CacheInv /\ CallerOK(c) /\ task \in [Callers -> Task] /\ call \in [Callers -> Call]
      /\ task[c].at \in Active => task[c].key \in Keys
  BY DEF SFInv, CacheInv, TypeOK, Shapes, CallerOK, Held
<1>2. ASSUME Take(c) PROVE call'[c].op = "idle" /\ (\A d \in Callers \ {c} : call'[d] = call[d]) /\ UNCHANGED items
  BY <1>1, <1>2, TakeKeeps DEF Idle
<1>3. ASSUME NEW at, NEW b, NEW m, Put(c, at, task[c].key, b, m)
      PROVE  /\ task'[c].at = at /\ task'[c].key = task[c].key /\ task'[c].meta = m
             /\ \A d \in Callers \ {c} : task'[d] = task[d]
  BY <1>1, <1>3 DEF Put, TaskRec
<1>4. CASE CacheStep(c)
  BY <1>4, CacheStepMoves
<1>5. CASE FastHit(c)
  <2>1. /\ Take(c) /\ Put(c, "done", task[c].key, call[c].body, call[c].meta)
        /\ task[c].at = "fast" /\ call[c].op = "get.hit"
    BY <1>5 DEF FastHit, In, At
  <2>2. AnsweredBy(c, c)
    BY <1>2, <1>3, <2>1 DEF AnsweredBy, Settles, Writes
  <2>3. \A d \in Callers \ {c} : StaysPut(d)
    BY <1>2, <1>3, <2>1 DEF StaysPut
  <2> QED BY <1>2, <2>1, <2>2, <2>3, OnlyOneMoves DEF Moved, ItemsMoved
<1>6. CASE Join(c) \/ Lead(c) \/ Pull(c)
  <2>1. Take(c) /\ \E at \in {"wait", "check", "body"} : \E b : Put(c, at, task[c].key, b, None)
    BY <1>6 DEF Join, Lead, Pull
  <2>2. GoesQuiet(c)
    BY <1>2, <1>3, <2>1 DEF GoesQuiet, Settles, Writes
  <2>3. \A d \in Callers \ {c} : StaysPut(d)
    BY <1>2, <1>3, <2>1 DEF StaysPut
  <2> QED BY <1>2, <2>1, <2>2, <2>3, OnlyOneMoves DEF Moved, ItemsMoved
<1>7. CASE DoubleCheck(c)
  <2>1. GetLookup(c, task[c].key) /\ task' = task /\ task[c].at = "check" /\ task[c].key \in Keys
    BY <1>1, <1>7 DEF DoubleCheck, In, Active, Leading
  <2>2. Moved(c)
    BY <1>1, <2>1, LookupMoves
  <2>3. Shrink /\ \A d \in Callers \ {c} : StaysPut(d)
    BY <1>1, <2>1, LookupDoes DEF StaysPut
  <2> QED BY <2>2, <2>3, OnlyOneMoves, ShrinkMoves
<1>8. CASE CheckHit(c)
  <2>1. Take(c) /\ task[c].at = "check" /\ call[c].op = "get.hit"
    BY <1>8 DEF CheckHit, In, At
  <2>2. Land(c, "done", call[c].body, call[c].meta) \/ Land(c, "failed", None, None)
    BY <1>8 DEF CheckHit
  <2> QED BY <1>2, <2>1, <2>2, LandMoves
<1>9. CASE PullFails(c)
  <2>1. Take(c) /\ Land(c, "failed", None, None)
    BY <1>9 DEF PullFails
  <2> QED BY <1>2, <2>1, LandMoves
<1>10. CASE BodyFails(c)
  <2>1. Land(c, "failed", None, None) /\ UNCHANGED <<call, items>> /\ call[c].op = "idle"
    BY <1>1, <1>10 DEF BodyFails, vars, In, CallerOK, InStep
  <2> QED BY <2>1, LandMoves
<1>11. CASE Stored(c)
  <2>1. Take(c) /\ Land(c, "done", task[c].body, task[c].meta) /\ task[c].at = "store"
    BY <1>11 DEF Stored, In
  <2> QED BY <1>2, <2>1, LandMoves
<1>12. CASE Store(c)
  <2>1. PICK ttl \in TTLs :
          /\ SetContent(c, task[c].key, [body |-> task[c].body, at |-> now, ttl |-> ttl])
          /\ Put(c, "store", task[c].key, task[c].body, [body |-> task[c].body, at |-> now, ttl |-> ttl])
    BY <1>12 DEF Store
  <2> DEFINE m == [body |-> task[c].body, at |-> now, ttl |-> ttl]
  <2>2. m.at = now /\ m.ttl = ttl
    OBVIOUS
  <2>3. SetContent(c, task[c].key, m) /\ Put(c, "store", task[c].key, task[c].body, m)
    BY <2>1
  <2> HIDE DEF m
  <2>4. task'[c].at = "store" /\ task'[c].meta = m /\ \A d \in Callers \ {c} : task'[d] = task[d]
    BY <1>3, <2>3
  <2>5. /\ \A d \in Callers \ {c} : call'[d] = call[d]
        /\ call'[c].op \in {"set.meta", "set.err"} /\ (call'[c].op = "set.meta" => call'[c].meta = m)
    BY <1>1, <2>3 DEF SetContent, Enter
  <2>6. StampsNow(c)
    BY <2>2, <2>4, <2>5 DEF StampsNow, Writes
  <2>7. UNCHANGED items
    BY <2>3 DEF SetContent, index
  <2> QED BY <2>4, <2>5, <2>6, <2>7, OnlyOneMoves DEF Moved, StaysPut, ItemsMoved
<1> QED BY <1>4, <1>5, <1>6, <1>7, <1>8, <1>9, <1>10, <1>11, <1>12 DEF FetchStep

-----------------------------------------------------------------------------
\* What one step does to a request.
SameVisit(c) == visit'[c] = visit[c] /\ (visit[c].at = "check" => call'[c] = call[c])
Leaves(c) == visit'[c].key = None
Arrives(c) ==
    /\ visit[c].key = None /\ visit'[c].at = "check" /\ visit'[c].key \in Keys /\ UNCHANGED items
    /\ \/ call'[c].op = "stat.miss" /\ items[visit'[c].key] = None
       \/ call'[c].op = "stat.hit" /\ call'[c].meta = items[visit'[c].key]
Judges(c) ==
    /\ Uncertain(c) /\ visit'[c].key = visit[c].key /\ UNCHANGED <<items, call>>
    /\ visit'[c].at = "flush" \/ (visit'[c].at = "checked" /\ ~F!Outdated(visit[c].key, call[c].meta.at))
Purges(c) ==
    /\ visit[c].at = "flush" /\ visit'[c].at = "checked" /\ visit'[c].key = visit[c].key
    /\ items'[visit[c].key] = None /\ Settles(c)
    /\ \A d \in Callers \ {c} : StaysPut(d)
GoesOn(c) == Certain(c) /\ visit'[c].at \in {"peek", "serve"} /\ visit'[c].key = visit[c].key
VisitMoved(c) == SameVisit(c) \/ Leaves(c) \/ Arrives(c) \/ Judges(c) \/ Purges(c) \/ GoesOn(c)
Stepped == AllMoved /\ \A c \in Clients : VisitMoved(c)

\* The step of one request leaves the others where they are.
LEMMA OneVisits ==
    ASSUME NEW c \in Clients, VisitMoved(c), \A d \in Clients \ {c} : visit'[d] = visit[d] /\ call'[d] = call[d]
    PROVE  \A d \in Clients : VisitMoved(d)
BY DEF VisitMoved, SameVisit

\* A step of GetOrFetch changes the cache call of its own caller only.
LEMMA FetchOwnCall ==
    ASSUME CacheInv, NEW c \in Callers, FetchStep(c)
    PROVE  \A d \in Callers \ {c} : call'[d] = call[d]
<1>1. call \in [Callers -> Call]
  BY CallFun
<1>2. CASE CacheStep(c)
  <2>1. CASE GetRead(c)
    BY <1>1, <2>1 DEF GetRead
  <2>2. CASE ~GetRead(c)
    <3>1. \E op, k, m : Enter(c, op, k, m)
      BY <1>2, <2>2 DEF CacheStep, CallStep, GetReadFails, GetEvict, SetMeta, SetUpdate, SetInsert, DeleteStorage, Leave
    <3> QED BY <1>1, <3>1 DEF Enter
  <2> QED BY <2>1, <2>2
<1>3. CASE FastHit(c) \/ Join(c) \/ Lead(c) \/ CheckHit(c) \/ Pull(c) \/ PullFails(c) \/ Stored(c)
  <2>1. Take(c)
    BY <1>3 DEF FastHit, Join, Lead, CheckHit, Pull, PullFails, Stored
  <2> QED BY <1>1, <2>1 DEF Take
<1>4. CASE DoubleCheck(c)
  <2>1. \E op, k, m : Enter(c, op, k, m)
    BY <1>4 DEF DoubleCheck, GetLookup
  <2> QED BY <1>1, <2>1 DEF Enter
<1>5. CASE Store(c)
  <2>1. \E op, k, m : Enter(c, op, k, m)
    BY <1>5 DEF Store, SetContent
  <2> QED BY <1>1, <2>1 DEF Enter
<1>6. CASE BodyFails(c)
  BY <1>6 DEF BodyFails, vars
<1> QED BY <1>2, <1>3, <1>4, <1>5, <1>6 DEF FetchStep

LEMMA StatusOfCheck ==
    ASSUME FlushInv, NEW c \in Clients, visit[c].at = "check"
    PROVE  call[c].op \in {"stat.hit", "stat.miss"} /\ task[c].at = "idle" /\ ~FetchStep(c)
<1>1. call[c].op \in {"stat.hit", "stat.miss"} /\ task[c].at = "idle"
  BY OutOfFetch DEF FlushInv, Seen
<1>2. ~CallStep(c)
  BY <1>1 DEF CallStep, GetRead, GetReadFails, GetEvict, SetMeta, SetUpdate, SetInsert, DeleteStorage, At
<1> QED BY <1>1, <1>2 DEF FetchStep, CacheStep, FastHit, Join, Lead, DoubleCheck, CheckHit, Pull, PullFails, Store,
           BodyFails, Stored, In

LEMMA ServeStepSteps == ASSUME FlushInv, NodeInv', NEW c \in Clients, ServeStep(c) PROVE Stepped
<1>1. /\ NodeInv /\ SFInv /\ CacheInv /\ c \in Callers /\ call \in [Callers -> Call] /\ task \in [Callers -> Task]
      /\ visit \in [Clients -> Visit] /\ Clients \subseteq Callers /\ bodies' \in Nat
      /\ visit[c].at # "idle" => visit[c].key \in Keys
  BY CallersAssumption, NowTyped, CallFun DEF FlushInv, NodeInv, SFInv, Shapes, CacheInv, TypeOK, VisitOK, Visit
<1>2. CASE FetchStep(c) /\ UNCHANGED <<visit, store>>
  <2>1. AllMoved
    BY <1>1, <1>2, FetchMoves
  <2>2. \A d \in Clients : SameVisit(d)
    BY <1>1, <1>2, FetchOwnCall, StatusOfCheck DEF SameVisit
  <2> QED BY <2>1, <2>2 DEF Stepped, VisitMoved
<1>3. CASE Match(c)
  <2>1. UNCHANGED <<items, call, task>> /\ Uncertain(c)
    BY <1>3 DEF Match, sfvars, vars, Uncertain, Seen
  <2>2. Judges(c) /\ \A d \in Clients \ {c} : visit'[d] = visit[d]
    BY <1>1, <1>3, <2>1 DEF Match, Proceed, Judges, Visit
  <2>3. AllMoved
    BY <2>1 DEF AllMoved, ItemsMoved, Moved, StaysPut
  <2> QED BY <2>1, <2>2, <2>3, OneVisits DEF Stepped, VisitMoved
<1>4. CASE Evict(c)
  <2>1. visit[c].at = "flush" /\ Delete(c, visit[c].key) /\ Proceed(c, "checked")
    BY <1>4 DEF Evict, Seen
  <2>2. /\ \A d \in Callers \ {c} : call'[d] = call[d] /\ task'[d] = task[d]
        /\ call'[c].op = "delete.storage" /\ task'[c].at = "idle" /\ Shrink /\ items'[visit[c].key] = None
    BY <1>1, <2>1, DeleteDoes
  <2>3. \A d \in Callers \ {c} : StaysPut(d)
    BY <2>2 DEF StaysPut
  <2>4. Settles(c) /\ Moved(c)
    BY <2>2 DEF Moved, GoesQuiet, Settles, Writes
  <2>5. /\ visit'[c].at = "checked" /\ visit'[c].key = visit[c].key
        /\ \A d \in Clients \ {c} : visit'[d] = visit[d]
    BY <1>1, <2>1 DEF Proceed, Visit
  <2>6. Purges(c)
    BY <2>1, <2>2, <2>3, <2>4, <2>5 DEF Purges
  <2> QED BY <1>1, <2>2, <2>3, <2>4, <2>5, <2>6, OnlyOneMoves, ShrinkMoves, OneVisits DEF Stepped, VisitMoved
<1>5. CASE Peek(c)
  <2>1. Certain(c) /\ Stat(c, visit[c].key) /\ Proceed(c, "peek") /\ UNCHANGED task /\ visit[c].key \in Keys
    BY <1>1, <1>5 DEF Peek, Certain, Seen
  <2>2. (\A d \in Callers \ {c} : call'[d] = call[d]) /\ call'[c].op \in {"stat.hit", "stat.miss"} /\ Shrink
    BY <1>1, <2>1, StatDoes
  <2>3. Moved(c) /\ \A d \in Callers \ {c} : StaysPut(d)
    BY <2>1, <2>2 DEF Moved, GoesQuiet, Settles, Writes, StaysPut
  <2>4. GoesOn(c) /\ \A d \in Clients \ {c} : visit'[d] = visit[d]
    BY <1>1, <2>1 DEF Proceed, Visit, GoesOn
  <2> QED BY <1>1, <2>2, <2>3, <2>4, OnlyOneMoves, ShrinkMoves, OneVisits DEF Stepped, VisitMoved
<1>6. CASE Serve(c)
  <2>1. visit[c].at = "peek" /\ Request(c, visit[c].key) /\ GetLookup(c, visit[c].key) /\ visit[c].key \in Keys
    BY <1>1, <1>6 DEF Serve, Request, Seen
  <2>2. task'[c].at = "fast" /\ task'[c].key = visit[c].key /\ \A d \in Callers \ {c} : task'[d] = task[d]
    BY <1>1, <2>1, RequestTask, RecFields
  <2>3. Moved(c)
    BY <1>1, <2>1, <2>2, LookupMoves
  <2>4. Shrink /\ \A d \in Callers \ {c} : StaysPut(d)
    BY <1>1, <2>1, <2>2, LookupDoes DEF StaysPut
  <2>5. GoesOn(c) /\ \A d \in Clients \ {c} : visit'[d] = visit[d]
    <3>1. /\ visit'[c].at = "serve" /\ visit'[c].key = visit[c].key
          /\ \A d \in Clients \ {c} : visit'[d] = visit[d]
      BY <1>1, <1>6 DEF Serve, Visit
    <3> QED BY <2>1, <3>1 DEF GoesOn, Certain
  <2> QED BY <1>1, <2>3, <2>4, <2>5, OnlyOneMoves, ShrinkMoves, OneVisits DEF Stepped, VisitMoved, StaysPut
<1>7. CASE Respond(c)
  <2>1. /\ UNCHANGED <<items, call>> /\ visit' = [visit EXCEPT ![c] = NoVisit] /\ task' = [task EXCEPT ![c] = NoTask]
        /\ task[c].at \notin Active
    BY <1>7 DEF Respond, vars, Free
  <2>2. /\ task'[c].at = "idle" /\ visit'[c].key = None
        /\ \A d \in Callers \ {c} : StaysPut(d)
        /\ \A d \in Clients \ {c} : visit'[d] = visit[d]
    BY <1>1, <2>1 DEF NoTask, NoVisit, StaysPut
  <2>3. Settles(c)
    BY <1>1, <2>1 DEF SFInv, CallerOK, InStep, Held, Task, Settles, Writes, Deletes
  <2>4. Moved(c) /\ Leaves(c)
    BY <2>2, <2>3 DEF Moved, GoesQuiet, Leaves
  <2> QED BY <1>1, <2>1, <2>2, <2>4, OnlyOneMoves, OneVisits DEF Stepped, VisitMoved, ItemsMoved
<1> QED BY <1>2, <1>3, <1>4, <1>5, <1>6, <1>7 DEF ServeStep

LEMMA ArriveSteps == ASSUME FlushInv, NEW c \in Clients, NEW k \in Keys, Arrive(c, k) PROVE Stepped
<1>1. /\ NodeInv /\ c \in Callers /\ call \in [Callers -> Call] /\ visit \in [Clients -> Visit] /\ Clients \subseteq Callers
      /\ visit[c].key = None
  BY CallersAssumption, CallFun DEF FlushInv, NodeInv, SFInv, VisitOK, Arrive, Seen
<1>2. /\ visit'[c].at = "check" /\ visit'[c].key = k
      /\ \A d \in Clients \ {c} : visit'[d] = visit[d]
  BY <1>1 DEF Arrive
<1>3. /\ UNCHANGED <<items, task>> /\ \A d \in Callers \ {c} : call'[d] = call[d]
      /\ call'[c].op = (IF items[k] = None THEN "stat.miss" ELSE "stat.hit") /\ call'[c].meta = items[k]
  BY <1>1 DEF Arrive, Stat, Enter, index
<1>4. Moved(c) /\ \A d \in Callers \ {c} : StaysPut(d)
  BY <1>3 DEF Moved, GoesQuiet, Settles, Writes, StaysPut
<1>5. Arrives(c)
  BY <1>1, <1>2, <1>3 DEF Arrives
<1> QED BY <1>1, <1>2, <1>3, <1>4, <1>5, OnlyOneMoves, OneVisits DEF Stepped, VisitMoved, ItemsMoved

LEMMA AdminSteps ==
    ASSUME FlushInv, NEW a \in Admins,
           \/ CacheStep(a) /\ UNCHANGED <<visit, store>>
           \/ AdminStep(a) \/ Reload(a)
           \/ \E k \in Keys : FlushURL(a, k)
           \/ \E p \in RulePrefixes : FlushPrefix(a, p)
    PROVE  Stepped
<1>1. NodeInv /\ SFInv /\ CacheInv /\ a \in Callers /\ \A d \in Clients : d \in Callers \ {a}
  BY CallersAssumption DEF FlushInv, NodeInv, SFInv
<1>2. ASSUME UNCHANGED visit, AllMoved, \A d \in Callers \ {a} : call'[d] = call[d] PROVE Stepped
  BY <1>1, <1>2 DEF Stepped, VisitMoved, SameVisit
<1>3. CASE CacheStep(a) /\ UNCHANGED <<visit, store>>
  <2>1. FetchStep(a)
    BY <1>3 DEF FetchStep
  <2> QED BY <1>1, <1>2, <1>3, <2>1, CacheStepMoves, FetchOwnCall
<1>4. ASSUME NEW k \in Keys, FlushURL(a, k) PROVE Stepped
  <2>1. /\ \A d \in Callers \ {a} : call'[d] = call[d] /\ task'[d] = task[d]
        /\ call'[a].op = "delete.storage" /\ task'[a].at = "idle" /\ Shrink
    BY <1>1, <1>4, DeleteDoes DEF FlushURL
  <2>2. Moved(a) /\ \A d \in Callers \ {a} : StaysPut(d)
    BY <2>1 DEF Moved, GoesQuiet, Settles, Writes, StaysPut
  <2> QED BY <1>1, <1>2, <1>4, <2>1, <2>2, OnlyOneMoves, ShrinkMoves DEF FlushURL
<1>5. CASE AdminStep(a) \/ Reload(a) \/ \E p \in RulePrefixes : FlushPrefix(a, p)
  <2>1. UNCHANGED <<items, call, task, visit>>
    BY <1>5 DEF AdminStep, Reload, FlushPrefix, sfvars, vars
  <2> QED BY <1>2, <2>1 DEF AllMoved, ItemsMoved, Moved, StaysPut
<1> QED BY <1>3, <1>4, <1>5

LEMMA ServingSteps == ASSUME FlushInv, NodeInv', Serving PROVE Stepped
<1>1. CASE NodeTick
  <2>1. UNCHANGED <<items, call, task, visit>>
    BY <1>1 DEF NodeTick, SFTick, Tick, index
  <2> QED BY <2>1 DEF Stepped, VisitMoved, SameVisit, AllMoved, ItemsMoved, Moved, StaysPut
<1> QED BY <1>1, ServeStepSteps, ArriveSteps, AdminSteps DEF Serving

-----------------------------------------------------------------------------
\* What is stored, found and answered since t stays so, whatever any request does.
LEMMA StoredStays ==
    ASSUME AllMoved, NEW k, NEW t \in Nat, now \in Nat, t <= now, StoredSince(k, t)
    PROVE  StoredSince(k, t)'
<1> SUFFICES ASSUME NEW d \in Callers PROVE Storing(d, k, t)'
  BY DEF StoredSince
<1>1. Storing(d, k, t) /\ Moved(d)
  BY DEF StoredSince, AllMoved
<1>2. CASE StaysPut(d)
  BY <1>1, <1>2 DEF Storing, StaysPut
<1>3. CASE GoesQuiet(d) \/ ReadsOn(d) \/ LooksUp(d) \/ \E e \in Callers : AnsweredBy(d, e)
  BY <1>1, <1>3 DEF Storing, GoesQuiet, Settles, ReadsOn, LooksUp, AnsweredBy, Writes
<1>4. CASE WritesOn(d)
  BY <1>1, <1>4 DEF Storing, WritesOn, Writes
<1>5. CASE StampsNow(d)
  BY <1>1, <1>5 DEF Storing, StampsNow
<1> QED BY <1>1, <1>2, <1>3, <1>4, <1>5 DEF Moved

LEMMA LastingStays ==
    ASSUME CacheInv, CacheInv', ItemsMoved, NEW k \in Keys, NEW t \in Nat, now <= now', StoredSince(k, t), Lasting(k, t)
    PROVE  Lasting(k, t)'
<1>1. /\ now \in Nat /\ now' \in Nat
      /\ items[k] # None => items[k].at \in Nat /\ items[k].ttl \in Nat
  BY DEF CacheInv, TypeOK, Meta
<1>2. CASE items'[k] = None
  BY <1>2 DEF Lasting
<1>3. CASE items'[k] = items[k] /\ items[k] # None
  BY <1>1, <1>3 DEF Lasting, Expired
<1>4. ASSUME NEW d \in Callers, call[d].op = "set.index", call[d].key = k, items'[k] = call[d].meta PROVE Lasting(k, t)'
  BY <1>4 DEF Lasting, StoredSince, Storing, Writes
<1> QED BY <1>2, <1>3, <1>4 DEF ItemsMoved

LEMMA FoundStays ==
    ASSUME CacheInv, CacheInv', AllMoved, NEW k \in Keys, NEW t \in Nat, now <= now', StoredSince(k, t), FoundSince(k, t)
    PROVE  FoundSince(k, t)'
<1>1. Lasting(k, t)'
  BY LastingStays DEF FoundSince, AllMoved
<1>2. ASSUME NEW d \in Callers PROVE Checking(d, k, t)'
  <2>1. Checking(d, k, t) /\ Lasting(k, t) /\ Moved(d)
    BY DEF FoundSince, AllMoved
  <2>2. CASE StaysPut(d)
    BY <2>1, <2>2 DEF Checking, StaysPut
  <2>3. CASE GoesQuiet(d) \/ WritesOn(d) \/ StampsNow(d) \/ \E e \in Callers : AnsweredBy(d, e)
    BY <2>3 DEF Checking, GoesQuiet, Settles, WritesOn, StampsNow, AnsweredBy
  <2>4. CASE LooksUp(d)
    BY <2>1, <2>4 DEF Checking, LooksUp, Lasting
  <2>5. CASE ReadsOn(d)
    BY <2>1, <2>5 DEF Checking, ReadsOn
  <2> QED BY <2>1, <2>2, <2>3, <2>4, <2>5 DEF Moved
<1> QED BY <1>1, <1>2 DEF FoundSince

LEMMA AnswerStays ==
    ASSUME NEW c \in Callers, Moved(c), NEW k \in Keys, NEW t \in Nat, StoredSince(k, t), FoundSince(k, t), Answer(c, t),
           task'[c].at # "idle" => task'[c].key = k
    PROVE  Answer(c, t)'
<1>1. CASE StaysPut(c)
  BY <1>1 DEF Answer, StaysPut
<1>2. CASE GoesQuiet(c) \/ WritesOn(c) \/ StampsNow(c)
  BY <1>2 DEF Answer, GoesQuiet, Settles, WritesOn, StampsNow
<1>3. CASE LooksUp(c)
  BY <1>3 DEF Answer, LooksUp, FoundSince, Lasting
<1>4. CASE ReadsOn(c)
  BY <1>4 DEF Answer, ReadsOn
<1>5. ASSUME NEW e \in Callers, AnsweredBy(c, e) PROVE Answer(c, t)'
  <2>1. task[e].key = k /\ task'[c].at = "done" /\ Storing(e, k, t) /\ Checking(e, k, t)
    BY <1>5 DEF AnsweredBy, StoredSince, FoundSince
  <2>2. task'[c].meta.at >= t
    BY <1>5, <2>1 DEF AnsweredBy, Storing, Checking, Answer
  <2> QED BY <2>1, <2>2 DEF Answer
<1> QED BY <1>1, <1>2, <1>3, <1>4, <1>5 DEF Moved

LEMMA OnlyStaleStays ==
    ASSUME ItemsMoved, NEW c, NEW k \in Keys, NEW t, StoredSince(k, t), OnlyStale(c, k, t), call'[c] = call[c]
    PROVE  OnlyStale(c, k, t)'
BY DEF ItemsMoved, OnlyStale, StoredSince, Storing, Writes

\* While no flight of a key is under way nothing of it is being stored or looked for.
LEMMA NoFlight ==
    ASSUME SFInv, NEW k \in Keys, group[k] = None, NEW t
    PROVE  StoredSince(k, t) /\ \A d \in Callers : Checking(d, k, t)
<1>1. \A d \in Callers : ~(task[d].at \in Leading /\ task[d].key = k) /\ CallerOK(d)
  BY CallerAssumption DEF SFInv, FlightsConsistent
<1>2. \A d \in Callers : call[d].op \in Writes => call[d].key # k
  BY <1>1, WriterLeads
<1> QED BY <1>1, <1>2 DEF StoredSince, Storing, Checking, Leading

-----------------------------------------------------------------------------
\* The rules.
LEMMA LaterOf ==
    ASSUME NEW b \in Nat, NEW S \in SUBSET {b}, NEW x \in Nat
    PROVE  Later(S, x) \in S \cup {x} /\ x <= Later(S, x)
<1>1. \E a \in S \cup {x} : \A y \in S \cup {x} : y <= a
  <2>1. CASE b \in S /\ x <= b
    BY <2>1
  <2>2. CASE ~(b \in S /\ x <= b)
    BY <2>2
  <2> QED BY <2>1, <2>2
<1> QED BY <1>1 DEF Later

\* What a step does to the rules and to the goroutines changing them.
RulesMoved ==
    \/ UNCHANGED rules /\ \A a \in Admins : writer'[a].time \in {writer[a].time, now}
    \/ /\ \E a \in Admins : rules' = rules \cup {[covers |-> writer[a].covers, at |-> writer[a].time]}
       /\ \A a \in Admins : writer'[a].time \in {writer[a].time, 0}
    \/ /\ \E a \in Admins : rules' = {r \in rules : r.at + MaxAge > writer[a].time}
       /\ \A a \in Admins : writer'[a].time \in {writer[a].time, 0}

LEMMA ServingRules == ASSUME NodeInv, Serving PROVE RulesMoved /\ now \in Nat /\ now' \in Nat /\ now <= now'
<1>1. now \in Nat /\ writer \in [Admins -> F!Writer] /\ call \in [Callers -> Call]
  BY NowTyped DEF NodeInv, F!RulesTypeOK, SFInv, CacheInv, TypeOK
<1>2. ASSUME UNCHANGED <<rules, writer, now>> PROVE RulesMoved /\ now' \in Nat /\ now <= now'
  BY <1>1, <1>2 DEF RulesMoved
<1>3. CASE NodeTick
  BY <1>1, <1>3 DEF NodeTick, SFTick, Tick, store, RulesMoved
<1>4. ASSUME NEW c \in Callers, FetchStep(c), UNCHANGED store PROVE UNCHANGED <<rules, writer, now>>
  <2>1. CASE CacheStep(c)
    BY <1>4, <2>1 DEF store, CacheStep, CallStep, GetRead, GetReadFails, GetEvict, SetMeta, SetUpdate, SetInsert, DeleteStorage
  <2>2. CASE ~CacheStep(c)
    BY <1>4, <2>2 DEF store, FetchStep, FastHit, Join, Lead, DoubleCheck, GetLookup, CheckHit, Pull, PullFails, Store, SetContent,
       BodyFails, Stored, Take, vars
  <2> QED BY <2>1, <2>2
<1>5. ASSUME NEW c \in Clients, ServeStep(c) PROVE RulesMoved /\ now' \in Nat /\ now <= now'
  <2>1. c \in Callers
    BY CallersAssumption
  <2>2. CASE FetchStep(c) /\ UNCHANGED <<visit, store>>
    BY <1>2, <1>4, <2>1, <2>2
  <2>3. CASE Match(c) \/ Evict(c) \/ Peek(c) \/ Serve(c) \/ Respond(c)
    <3>1. UNCHANGED <<rules, writer, now>>
      BY <2>3 DEF Match, Evict, Peek, Serve, Respond, store, sfvars, vars, Delete, DeleteIndex, Stat, Request, GetLookup
    <3> QED BY <1>2, <3>1
  <2> QED BY <1>5, <2>2, <2>3 DEF ServeStep
<1>6. ASSUME NEW c \in Clients, NEW k \in Keys, Arrive(c, k) PROVE RulesMoved /\ now' \in Nat /\ now <= now'
  BY <1>2, <1>6 DEF Arrive, Stat, store
<1>7. ASSUME NEW a \in Admins, CacheStep(a), UNCHANGED store PROVE RulesMoved /\ now' \in Nat /\ now <= now'
  BY <1>2, <1>4, <1>7, CallersAssumption DEF FetchStep
<1>8. ASSUME NEW a \in Admins, NEW k \in Keys, FlushURL(a, k) PROVE RulesMoved /\ now' \in Nat /\ now <= now'
  BY <1>2, <1>8 DEF FlushURL, Delete, DeleteIndex, store
<1>9. ASSUME NEW a \in Admins, AdminStep(a) PROVE RulesMoved /\ now' \in Nat /\ now <= now'
  <2>1. now' = now /\ writer' = [writer EXCEPT ![a] = F!NoWriter] /\ F!NoWriter.time = 0
    BY <1>9 DEF AdminStep, F!Insert, F!Drop, F!Change, F!NoWriter
  <2>2. \A b \in Admins : writer'[b].time \in {writer[b].time, 0}
    BY <1>1, <2>1
  <2> QED BY <1>1, <1>9, <2>1, <2>2 DEF AdminStep, F!Insert, F!Drop, F!Change, RulesMoved
<1>10. ASSUME NEW a \in Admins, Reload(a) \/ \E p \in RulePrefixes : FlushPrefix(a, p)
       PROVE  RulesMoved /\ now' \in Nat /\ now <= now'
  <2>1. UNCHANGED <<rules, now>> /\ \E op, p : writer' = [writer EXCEPT ![a] = [op |-> op, covers |-> p, time |-> now]]
    BY <1>10 DEF Reload, FlushPrefix, F!Cleanup, F!AddRule, F!Write
  <2> QED BY <1>1, <2>1 DEF RulesMoved
<1> QED BY <1>1, <1>3, <1>5, <1>6, <1>7, <1>8, <1>9, <1>10 DEF Serving

LEMMA RulesKeepStanding ==
    ASSUME FlushInv, FlushRun, NodeInv'
    PROVE  RulesStand' /\ flushed' \in [Keys -> Nat] /\ \A k \in Keys : flushed[k] <= flushed'[k]
<1>1. /\ RulesMoved /\ now \in Nat /\ now' \in Nat /\ now <= now' /\ RulesStand /\ flushed \in [Keys -> Nat]
      /\ MaxAge \in Nat
      /\ writer \in [Admins -> F!Writer] /\ rules \in SUBSET F!Rule
  BY ServingRules, RulesAssumption DEF FlushRun, FlushInv, FlushTypes, NodeInv, F!RulesTypeOK
<1>2. /\ \A a \in Admins : writer[a].time \in Nat
      /\ \A r \in rules : r.at \in Nat
  BY <1>1 DEF F!Writer, F!Rule
<1> DEFINE New(k) == {r.at : r \in {x \in rules' \ rules : k \in x.covers}}
<1>3. \A k \in Keys : flushed'[k] = Later(New(k), flushed[k])
  BY DEF FlushRun
<1>4. flushed' = [k \in Keys |-> Later(New(k), flushed[k])]
  BY DEF FlushRun
<1>5. \A a \in Admins : writer'[a].time <= now'
  BY <1>1, <1>2 DEF RulesMoved, RulesStand
<1>6. ASSUME rules' \subseteq rules,
             \A r \in rules \ rules' : r.at + MaxAge <= now
      PROVE  RulesStand' /\ flushed' \in [Keys -> Nat] /\ \A k \in Keys : flushed[k] <= flushed'[k]
  <2>1. \A k \in Keys : New(k) = {}
    BY <1>6
  <2>2. \A k \in Keys : flushed'[k] = flushed[k]
    <3> TAKE k \in Keys
    <3>1. New(k) \in SUBSET {0} /\ flushed[k] \in Nat
      BY <1>1, <2>1
    <3> QED BY <1>3, <2>1, <3>1, LaterOf
  <2>3. flushed' \in [Keys -> Nat]
    BY <1>1, <1>4, <2>2
  <2>4. ASSUME NEW k \in Keys PROVE flushed'[k] <= now' /\ Stands(k, flushed[k])'
    <3>1. flushed[k] \in Nat /\ flushed[k] <= now /\ Stands(k, flushed[k])
      BY <1>1 DEF RulesStand
    <3>2. CASE flushed[k] = 0 \/ flushed[k] + MaxAge <= now
      BY <1>1, <2>2, <3>1, <3>2 DEF Stands
    <3>3. ASSUME NEW r \in rules, k \in r.covers, r.at >= flushed[k] PROVE flushed'[k] <= now' /\ Stands(k, flushed[k])'
      <4>1. CASE r \in rules'
        BY <1>1, <2>2, <3>1, <3>3, <4>1 DEF Stands
      <4>2. CASE r \notin rules'
        <5>1. flushed[k] + MaxAge <= now'
          BY <1>1, <1>2, <1>6, <3>1, <3>3, <4>2
        <5> QED BY <1>1, <2>2, <3>1, <5>1 DEF Stands
      <4> QED BY <4>1, <4>2
    <3> QED BY <3>1, <3>2, <3>3 DEF Stands
  <2>5. \A r \in rules' : r.at <= now'
    BY <1>1, <1>2, <1>6 DEF RulesStand
  <2> HIDE DEF New
  <2> QED BY <1>1, <1>5, <2>2, <2>3, <2>4, <2>5 DEF RulesStand
<1>7. CASE UNCHANGED rules
  BY <1>6, <1>7
<1>8. ASSUME NEW a \in Admins, rules' = {r \in rules : r.at + MaxAge > writer[a].time}
      PROVE  RulesStand' /\ flushed' \in [Keys -> Nat] /\ \A k \in Keys : flushed[k] <= flushed'[k]
  <2>1. \A r \in rules \ rules' : r.at + MaxAge <= now
    BY <1>1, <1>2, <1>8 DEF RulesStand
  <2> QED BY <1>6, <1>8, <2>1
<1>9. ASSUME NEW a \in Admins, rules' = rules \cup {[covers |-> writer[a].covers, at |-> writer[a].time]}
      PROVE  RulesStand' /\ flushed' \in [Keys -> Nat] /\ \A k \in Keys : flushed[k] <= flushed'[k]
  <2> DEFINE n == [covers |-> writer[a].covers, at |-> writer[a].time]
             b == writer[a].time
  <2>1. b \in Nat /\ b <= now /\ n.at = b /\ rules' = rules \cup {n}
    BY <1>1, <1>2, <1>9 DEF RulesStand
  <2> HIDE DEF n, b
  <2>2. \A k \in Keys : New(k) \in SUBSET {b} /\ (New(k) # {} => k \in n.covers)
    BY <2>1
  <2> HIDE DEF New
  <2>3. \A k \in Keys : flushed'[k] \in New(k) \cup {flushed[k]} /\ flushed[k] <= flushed'[k] /\ flushed'[k] \in Nat
    BY <1>1, <1>3, <2>1, <2>2, LaterOf
  <2>4. flushed' \in [Keys -> Nat]
    BY <1>4, <2>3
  <2>5. ASSUME NEW k \in Keys PROVE flushed'[k] <= now' /\ Stands(k, flushed[k])'
    <3>1. flushed[k] \in Nat /\ flushed[k] <= now /\ Stands(k, flushed[k])
      BY <1>1 DEF RulesStand
    <3>2. CASE flushed'[k] = flushed[k]
      BY <1>1, <2>1, <3>1, <3>2 DEF Stands
    <3>3. CASE flushed'[k] # flushed[k]
      <4>1. flushed'[k] = b /\ k \in n.covers
        BY <2>2, <2>3, <3>3
      <4> QED BY <1>1, <2>1, <4>1 DEF Stands
    <3> QED BY <3>2, <3>3
  <2>6. \A r \in rules' : r.at <= now'
    <3>1. \A r \in rules : r.at <= now
      BY <1>1 DEF RulesStand
    <3> QED BY <1>1, <1>2, <2>1, <3>1
  <2> QED BY <1>5, <2>3, <2>4, <2>5, <2>6 DEF RulesStand
<1> QED BY <1>1, <1>7, <1>8, <1>9 DEF RulesMoved

-----------------------------------------------------------------------------
\* Of the rules that cover a key one was created last: their ages have a least.
Below == {p \in Nat \X Nat : p[1] < p[2]}
LEMMA LeastElement ==
    ASSUME NEW T \in SUBSET Nat, T # {}
    PROVE  \E x \in T : \A y \in T : x <= y
<1>1. Below = OpToRel(<, Nat)
  BY DEF Below, OpToRel
<1>2. PICK x \in T : \A y \in T : <<y, x>> \notin Below
  BY <1>1, NatLessThanWellFounded, WFMin
<1>3. ASSUME NEW y \in T PROVE x <= y
  <2>1. <<y, x>> \notin Below
    BY <1>2
  <2>2. x \in Nat /\ y \in Nat
    OBVIOUS
  <2>3. ~(y < x)
    BY <2>1, <2>2 DEF Below
  <2> QED BY <2>2, <2>3
<1> QED BY <1>3

LEMMA LatestIsLatest ==
    ASSUME NodeInv, RulesStand, NEW k, F!Matching(k) # {}
    PROVE  F!Latest(k) \in F!Matching(k) /\ \A s \in F!Matching(k) : s.at <= F!Latest(k).at
<1> DEFINE M == F!Matching(k)
           T == {now - r.at : r \in M}
<1>1. now \in Nat /\ \A r \in M : r.at \in Nat /\ r.at <= now
  BY NowTyped DEF NodeInv, RulesStand, F!RulesTypeOK, F!Rule, F!Matching
<1>2. M # {}
  OBVIOUS
<1>3. PICK x \in T : \A y \in T : x <= y
  <2> HIDE DEF M
  <2>1. T \in SUBSET Nat /\ T # {}
    BY <1>1, <1>2
  <2> HIDE DEF T
  <2> QED BY <2>1, LeastElement
<1>4. PICK m \in M : x = now - m.at
  BY <1>3
<1>5. \A s \in M : s.at <= m.at
  <2> TAKE s \in M
  <2>1. now - s.at \in T
    OBVIOUS
  <2>2. x <= now - s.at
    BY <1>3, <2>1
  <2> HIDE DEF M
  <2> QED BY <1>1, <1>4, <2>2
<1> QED BY <1>5 DEF F!Latest

\* The flush check finds every rule that still counts: what it lets pass is no older than the flush, or expired.
LEMMA CheckIsThorough ==
    ASSUME NodeInv, RulesStand, LivesOK, NEW k \in Keys, NEW f \in Nat, f > 0, Stands(k, f), NEW t \in Nat, t <= f,
           items[k] # None, ~F!Outdated(k, items[k].at)
    PROVE  items[k].at >= t \/ Expired(items[k])
<1>1. items[k].at \in Nat /\ items[k].ttl \in Nat /\ now \in Nat /\ MaxAge \in Nat /\ items[k].ttl <= MaxAge
  BY RulesAssumption DEF NodeInv, SFInv, CacheInv, TypeOK, Meta, LivesOK
<1>2. CASE f + MaxAge <= now
  BY <1>1, <1>2 DEF Expired
<1>3. ASSUME NEW r \in rules, k \in r.covers, r.at >= f PROVE items[k].at >= t
  <2>1. r \in F!Matching(k)
    BY <1>3 DEF F!Matching
  <2>2. F!Latest(k) \in F!Matching(k) /\ r.at <= F!Latest(k).at
    BY <2>1, LatestIsLatest
  <2>3. r.at \in Nat /\ F!Latest(k).at \in Nat
    BY <2>2 DEF NodeInv, F!RulesTypeOK, F!Rule, F!Matching
  <2>4. ~(F!Latest(k).at > items[k].at)
    BY <2>1 DEF F!Outdated
  <2> QED BY <1>1, <1>3, <2>2, <2>3, <2>4
<1> QED BY <1>2, <1>3 DEF Stands

\* Why each request keeps honouring the flushes it arrived after.
LEMMA AskingKeeps ==
    ASSUME FlushInv, FlushRun, NodeInv', Stepped, NEW c \in Clients, NEW k \in Keys, visit'[c].key = k,
           NEW t \in Nat, since'[c] = t
    PROVE  Asking(c, k, t)'
<1>1. /\ c \in Callers /\ SFInv /\ CacheInv /\ CacheInv' /\ AllMoved /\ Moved(c) /\ ItemsMoved /\ VisitMoved(c)
      /\ now \in Nat /\ now' \in Nat /\ now <= now' /\ k # None
      /\ flushed[k] \in Nat /\ flushed[k] <= now /\ Stands(k, flushed[k])
      /\ flushed'[k] \in Nat /\ flushed[k] <= flushed'[k]
  BY ServingRules, RulesKeepStanding, CallersAssumption, NoneAssumption
     DEF FlushInv, FlushRun, NodeInv, SFInv, Stepped, AllMoved, FlushTypes, RulesStand
<1>2. ASSUME t <= flushed[k], calm'[c] /\ t > 0 => Honours(c, k, t)' PROVE Asking(c, k, t)'
  BY <1>1, <1>2 DEF Asking
<1>3. task'[c].at # "idle" => task'[c].key = k /\ visit'[c].at = "serve"
  BY DEF NodeInv, VisitOK, Seen
<1>4. CASE Arrives(c)
  <2>1. visit[c].key = None /\ visit'[c].key # None
    BY <1>1, <1>4 DEF Arrives
  <2>2. t = flushed[k] /\ (calm'[c] /\ t > 0 => group[k] = None)
    <3>1. Arriving(c)
      BY <2>1 DEF Arriving
    <3>2. since'[c] = flushed[k]
      BY <1>1, <3>1 DEF FlushRun
    <3>3. t > 0 /\ calm'[c] => QuietKey(c)
      BY <3>1 DEF FlushRun
    <3> QED BY <3>2, <3>3 DEF QuietKey
  <2>3. ASSUME calm'[c], t > 0 PROVE Honours(c, k, t)'
    <3>1. StoredSince(k, t) /\ \A d \in Callers : Checking(d, k, t)
      BY <1>1, <2>2, <2>3, NoFlight
    <3>2. StoredSince(k, t)'
      BY <1>1, <2>2, <3>1, StoredStays
    <3>3. visit'[c].at = "check" /\ items' = items
      BY <1>4 DEF Arrives
    <3>4. CASE call'[c].op = "stat.miss" /\ items[k] = None
      <4>1. FoundSince(k, t)'
        BY <1>1, <3>1, <3>4, FoundStays DEF FoundSince, Lasting
      <4>2. Answer(c, t)'
        BY <1>3, <3>3 DEF Answer
      <4> QED BY <3>2, <3>4, <4>1, <4>2 DEF Honours, Uncertain, At
    <3>5. CASE call'[c].op = "stat.hit" /\ call'[c].meta = items[k]
      BY <3>2, <3>3, <3>5 DEF Honours, Uncertain, Certain, OnlyStale, At
    <3> QED BY <1>4, <3>4, <3>5 DEF Arrives
  <2> QED BY <1>2, <2>2, <2>3
<1>5. CASE visit[c].key = k
  <2>1. since[c] = t /\ Asking(c, k, t) /\ (calm'[c] /\ t > 0 => calm[c] /\ (CheckEnds(c) => group[k] = None))
    <3>1. ~Arriving(c) /\ visit'[c].key # None
      BY <1>1, <1>5 DEF Arriving
    <3>2. since[c] = t
      BY <3>1 DEF FlushRun
    <3>3. Asking(c, k, t)
      BY <1>1, <1>5, <3>2 DEF FlushInv
    <3>4. t > 0 /\ calm'[c] => calm[c] /\ (CheckEnds(c) => QuietKey(c))
      BY <3>1 DEF FlushRun
    <3> QED BY <3>2, <3>3, <3>4 DEF QuietKey
  <2>2. ASSUME calm'[c], t > 0 PROVE Honours(c, k, t)'
    <3>1. StoredSince(k, t) /\ Honours(c, k, t) /\ t <= flushed[k] /\ (CheckEnds(c) => group[k] = None)
      BY <2>1, <2>2 DEF Asking, Honours
    <3>2. StoredSince(k, t)'
      BY <1>1, <3>1, StoredStays
    <3>3. Certain(c) => FoundSince(k, t)' /\ Answer(c, t)'
      BY <1>1, <1>3, <3>1, FoundStays, AnswerStays DEF Honours
    <3>4. CASE SameVisit(c)
      <4>1. (Uncertain(c)' => Uncertain(c) /\ call'[c] = call[c]) /\ (Certain(c)' => Certain(c))
        BY <3>4 DEF SameVisit, Uncertain, Certain, At
      <4>2. Uncertain(c)' => OnlyStale(c, k, t)'
        BY <1>1, <3>1, <4>1, OnlyStaleStays DEF Honours
      <4> QED BY <3>2, <3>3, <4>1, <4>2 DEF Honours
    <3>5. CASE Judges(c) /\ visit'[c].at = "flush"
      BY <3>2, <3>5 DEF Honours, Uncertain, Certain
    <3>6. CASE Judges(c) /\ visit'[c].at = "checked"
      <4>1. /\ Uncertain(c) /\ CheckEnds(c) /\ UNCHANGED <<items, call>> /\ ~F!Outdated(k, call[c].meta.at)
        BY <1>5, <3>6 DEF Judges, Uncertain, CheckEnds
      <4>2. \A d \in Callers : Checking(d, k, t)
        BY <1>1, <3>1, <4>1, NoFlight
      <4>3. Lasting(k, t)
        <5>1. OnlyStale(c, k, t)
          BY <3>1, <4>1 DEF Honours
        <5>2. CASE items[k] = None \/ items[k] # call[c].meta
          BY <5>1, <5>2 DEF OnlyStale, Lasting
        <5>3. CASE items[k] # None /\ items[k] = call[c].meta
          BY <1>1, <2>2, <3>1, <4>1, <5>3, CheckIsThorough DEF Lasting, FlushInv
        <5> QED BY <5>2, <5>3
      <4>4. FoundSince(k, t)'
        BY <1>1, <3>1, <4>2, <4>3, FoundStays DEF FoundSince
      <4>5. Answer(c, t)'
        BY <1>3, <3>6 DEF Answer
      <4> QED BY <3>2, <3>6, <4>4, <4>5 DEF Honours, Uncertain
    <3>7. CASE Purges(c)
      <4>1. /\ CheckEnds(c) /\ items'[k] = None /\ visit'[c].at = "checked"
            /\ Settles(c) /\ \A d \in Callers \ {c} : StaysPut(d)
        BY <1>5, <3>7 DEF Purges, CheckEnds
      <4>2. \A d \in Callers : Checking(d, k, t)
        BY <1>1, <3>1, <4>1, NoFlight
      <4>3. \A d \in Callers : Checking(d, k, t)'
        BY <4>1, <4>2 DEF Checking, StaysPut, Settles
      <4>4. FoundSince(k, t)'
        BY <4>1, <4>3 DEF FoundSince, Lasting
      <4>5. Answer(c, t)'
        BY <1>3, <4>1 DEF Answer
      <4> QED BY <3>2, <4>1, <4>4, <4>5 DEF Honours, Uncertain
    <3>8. CASE GoesOn(c)
      BY <3>2, <3>3, <3>8 DEF Honours, GoesOn, Uncertain
    <3>9. ~Arrives(c) /\ ~Leaves(c)
      BY <1>1, <1>5 DEF Arrives, Leaves
    <3>10. Judges(c) => visit'[c].at \in {"flush", "checked"}
      BY DEF Judges
    <3> QED BY <1>1, <3>4, <3>5, <3>6, <3>7, <3>8, <3>9, <3>10 DEF VisitMoved
  <2>3. t <= flushed[k]
    BY <2>1 DEF Asking
  <2> QED BY <1>2, <2>2, <2>3
<1>6. Arrives(c) \/ visit[c].key = k
  BY <1>1 DEF VisitMoved, SameVisit, Leaves, Judges, Purges, GoesOn
<1> QED BY <1>4, <1>5, <1>6

LEMMA FlushRunKeeps == ASSUME RulesOutlive, FlushInv, FlushRun PROVE FlushInv'
<1>1. NodeInv' /\ NodeInv /\ Stepped /\ RulesStand' /\ flushed' \in [Keys -> Nat]
  BY ServingKeeps, ServingSteps, RulesKeepStanding DEF FlushInv, FlushRun
<1>2. /\ visit' \in [Clients -> Visit]
      /\ \A c \in Clients : visit'[c].key \in Keys \cup {None} /\ (visit'[c].at = "check" => visit'[c].key # None)
      /\ \A c \in Clients : visit[c].key \in Keys \cup {None}
  BY <1>1 DEF NodeInv, Visit, VisitOK
<1>3. FlushTypes'
  <2>1. \A c \in Clients : (IF Arriving(c) THEN flushed[visit'[c].key] ELSE IF visit'[c].key = None THEN 0 ELSE since[c]) \in Nat
    BY <1>2 DEF FlushInv, FlushTypes, Arriving
  <2>2. since' \in [Clients -> Nat]
    BY <2>1 DEF FlushRun
  <2> QED BY <1>1, <2>2 DEF FlushTypes
<1>4. LivesOK'
  <2>1. ASSUME NEW k \in Keys, items'[k] # None PROVE items'[k].ttl <= MaxAge
    BY <1>1, <2>1 DEF FlushInv, LivesOK, Stepped, AllMoved, ItemsMoved, Writes
  <2>2. ASSUME NEW d \in Callers, call'[d].op \in Writes PROVE call'[d].meta.ttl <= MaxAge
    <3>1. Moved(d) /\ (call[d].op \in Writes => call[d].meta.ttl <= MaxAge)
      BY <1>1 DEF FlushInv, LivesOK, Stepped, AllMoved
    <3>2. CASE StampsNow(d)
      BY <2>2, <3>2 DEF StampsNow, RulesOutlive
    <3>3. CASE ~StampsNow(d)
      BY <2>2, <3>1, <3>3 DEF Moved, StaysPut, GoesQuiet, Settles, LooksUp, ReadsOn, WritesOn, AnsweredBy, Writes
    <3> QED BY <3>2, <3>3
  <2> QED BY <2>1, <2>2 DEF LivesOK
<1>5. ASSUME NEW c \in Clients, visit'[c].at = "check" PROVE call'[c].op \in {"stat.hit", "stat.miss"}
  <2>1. VisitMoved(c) /\ visit'[c].key # None
    BY <1>1, <1>2, <1>5 DEF Stepped
  <2>2. SameVisit(c) \/ Arrives(c)
    BY <1>5, <2>1 DEF VisitMoved, Leaves, Judges, Purges, GoesOn
  <2> QED BY <1>5, <2>2 DEF SameVisit, Arrives, FlushInv
<1>6. ASSUME NEW c \in Clients, visit'[c].key # None PROVE Asking(c, visit[c].key, since[c])'
  <2>1. PICK k \in Keys : visit'[c].key = k
    BY <1>2, <1>6
  <2>2. PICK t \in Nat : since'[c] = t
    BY <1>3 DEF FlushTypes
  <2>3. Asking(c, k, t)'
    BY <1>1, <2>1, <2>2, AskingKeeps
  <2> QED BY <2>1, <2>2, <2>3
<1> QED BY <1>1, <1>3, <1>4, <1>5, <1>6 DEF FlushInv

LEMMA FlushStepKeeps == RulesOutlive /\ FlushInv /\ [FlushRun]_flushvars => FlushInv'
<1> SUFFICES ASSUME RulesOutlive, FlushInv, [FlushRun]_flushvars PROVE FlushInv'
  OBVIOUS
<1>1. CASE UNCHANGED flushvars
  <2>1. /\ UNCHANGED nodevars
        /\ UNCHANGED <<items, call, task, visit, rules, writer, now, flushed, since, calm>>
    BY <1>1 DEF flushvars, nodevars, sfvars, vars, store
  <2>2. NodeInv'
    BY <2>1, NodeStepKeeps DEF FlushInv
  <2>3. FlushTypes' /\ RulesStand' /\ LivesOK'
    BY <2>1 DEF FlushInv, FlushTypes, RulesStand, Stands, LivesOK
  <2>4. ASSUME NEW c \in Clients, NEW k, NEW t, Asking(c, k, t) PROVE Asking(c, k, t)'
    BY <2>1, <2>4 DEF Asking, Honours, StoredSince, Storing, FoundSince, Lasting, Checking, Answer, Uncertain, Certain,
       OnlyStale, Expired, At
  <2>5. \A c \in Clients : visit'[c].key # None => Asking(c, visit[c].key, since[c])'
    BY <2>1, <2>4 DEF FlushInv
  <2> QED BY <2>1, <2>2, <2>3, <2>5 DEF FlushInv
<1> QED BY <1>1, FlushRunKeeps

LEMMA FlushInit_Inv == FlushInit => FlushInv
<1> SUFFICES ASSUME FlushInit PROVE FlushInv
  OBVIOUS
<1>1. NodeInv
  BY NodeInit_Inv DEF FlushInit
<1>2. /\ items = [k \in Keys |-> None] /\ call = [c \in Callers |-> Idle] /\ visit = [c \in Clients |-> NoVisit]
      /\ now = 0 /\ rules = {} /\ writer = [a \in Admins |-> F!NoWriter]
      /\ flushed = [k \in Keys |-> 0] /\ since = [c \in Clients |-> 0]
  BY DEF FlushInit, NodeInit, SFInit, Init, F!RulesInit
<1>3. FlushTypes /\ RulesStand
  BY <1>2 DEF FlushTypes, RulesStand, Stands, F!NoWriter
<1>4. LivesOK
  BY <1>2 DEF LivesOK, Idle, Writes
<1> QED BY <1>1, <1>2, <1>3, <1>4 DEF FlushInv, NoVisit

\* A request that arrives after a prefix or domain flush gets no entry from before it, whatever other requests,
\* flushes, reloads and expiries come in between, as long as no flight of its key was under way as its flush check
\* began and ended, and rules outlive entries (router.go 99-112, flush/store.go 97-128).
THEOREM FlushesAreHonoured == RulesOutlive /\ FlushSpec => []FlushHonoured
<1>1. FlushInv => FlushHonoured
  <2> SUFFICES ASSUME FlushInv, NEW c \in Clients, Served(c), calm[c] PROVE task[c].meta.at >= since[c]
    BY DEF FlushHonoured
  <2>1. task[c].at = "done" /\ visit[c].at = "serve" /\ visit[c].key # None /\ since[c] \in Nat /\ task[c].meta.at \in Nat
    BY CallersAssumption DEF FlushInv, FlushTypes, Served, Seen, In, NodeInv, VisitOK, SFInv, CallerOK, Held, Meta
  <2>2. CASE since[c] = 0
    BY <2>1, <2>2
  <2>3. CASE since[c] > 0
    <3>1. Asking(c, visit[c].key, since[c])
      BY <2>1 DEF FlushInv
    <3>2. Honours(c, visit[c].key, since[c])
      BY <2>1, <2>3, <3>1 DEF Asking
    <3>3. Certain(c)
      BY <2>1 DEF Certain
    <3>4. Answer(c, since[c])
      BY <3>2, <3>3 DEF Honours
    <3> QED BY <2>1, <3>4 DEF Answer
  <2> QED BY <2>1, <2>2, <2>3
<1>2. CASE RulesOutlive
  BY <1>1, <1>2, FlushInit_Inv, FlushStepKeeps, PTL DEF FlushSpec
<1> QED BY <1>2
=============================================================================
