------------------------------ MODULE CdnNode ------------------------------
(***************************************************************************)
(* One node: domain/router.go ServeHTTP over the singleflight cache and    *)
(* the flush store, the admin handlers that flush (admin/handler.go), the  *)
(* Cleanup of the hot reload, and a process that dies and starts again     *)
(* (cmd/server/main.go).                                                   *)
(***************************************************************************)
EXTENDS Singleflight

CONSTANTS
    Clients,    \* goroutines serving requests
    Admins,     \* goroutines serving the admin API, and the hot reload
    RulePrefixes, MaxAge,
    Restarts    \* whether the process may die

ASSUME CallersAssumption == Callers = Clients \cup Admins /\ Clients \cap Admins = {}
ASSUME RestartAssumption == Restarts \in BOOLEAN
ASSUME RulesAssumption == RulePrefixes \subseteq SUBSET Keys /\ None \notin RulePrefixes /\ MaxAge \in Nat

VARIABLES
    visit,           \* where each request is in ServeHTTP
    rules, writer    \* the flush rules in memory, and the goroutines changing them

store == <<rules, writer>>
nodevars == <<sfvars, visit, store>>

F == INSTANCE FlushRules WITH Writers <- Admins

\* `hit` is what X-Cache will say.
NoVisit == [at |-> "idle", key |-> None, hit |-> FALSE]
Visit == [at : {"idle", "check", "flush", "checked", "peek", "serve"}, key : Keys \cup {None}, hit : BOOLEAN]

NodeInit ==
    /\ SFInit
    /\ F!RulesInit
    /\ visit = [c \in Clients |-> NoVisit]

-----------------------------------------------------------------------------
Seen(c, at) == visit[c].at = at
Proceed(c, at) == visit' = [visit EXCEPT ![c].at = at]

\* A request that is refused (404 for a domain that is not configured, 429 from a plugin) ends before
\* the cache is asked and leaves no trace here.  Any other starts its flush check with a Stat of the key.
Arrive(c, k) ==
    /\ Seen(c, "idle")
    /\ Stat(c, k)
    /\ visit' = [visit EXCEPT ![c] = [at |-> "check", key |-> k, hit |-> FALSE]]
    /\ UNCHANGED <<group, task, store>>

\* Match, under the lock of the flush store, is asked only about an entry that Stat found; the entry
\* may change before the Delete that follows.
Match(c) ==
    /\ Seen(c, "check") /\ At(c, "stat.hit")
    /\ Proceed(c, IF F!Outdated(visit[c].key, call[c].meta.at) THEN "flush" ELSE "checked")
    /\ UNCHANGED <<sfvars, store>>

Evict(c) ==
    /\ Seen(c, "flush")
    /\ Delete(c, visit[c].key)
    /\ Proceed(c, "checked")
    /\ UNCHANGED store

\* The second Stat decides what X-Cache will say.
Peek(c) ==
    /\ (Seen(c, "check") /\ At(c, "stat.miss")) \/ (Seen(c, "checked") /\ Ready(c))
    /\ Stat(c, visit[c].key)
    /\ Proceed(c, "peek")
    /\ UNCHANGED <<group, task, store>>

Serve(c) ==
    /\ Seen(c, "peek")
    /\ Request(c, visit[c].key)
    /\ visit' = [visit EXCEPT ![c].at = "serve", ![c].hit = At(c, "stat.hit")]
    /\ UNCHANGED store

\* Mutant: the result outlives the response.
RespondKeeping(c) ==
    /\ Seen(c, "serve") /\ Free(c)
    /\ visit' = [visit EXCEPT ![c] = NoVisit]
    /\ UNCHANGED <<vars, group, task, store>>

\* 200 with the body and X-Cache, or 502 when GetOrFetch failed.
Respond(c) ==
    /\ Seen(c, "serve") /\ Free(c)
    /\ visit' = [visit EXCEPT ![c] = NoVisit]
    /\ task' = [task EXCEPT ![c] = NoTask]
    /\ UNCHANGED <<vars, group, store>>

AdminFree(a) == Free(a) /\ F!Doing(a, "idle")

FlushURL(a, k) ==
    /\ AdminFree(a)
    /\ Delete(a, k)
    /\ UNCHANGED <<visit, store>>

\* FlushPrefix, FlushDomain (the prefix that covers every key), and the Cleanup of a hot reload.
FlushPrefix(a, p) == AdminFree(a) /\ F!AddRule(a, p) /\ UNCHANGED <<sfvars, visit>>
Reload(a) == AdminFree(a) /\ F!Cleanup(a) /\ UNCHANGED <<sfvars, visit>>
AdminStep(a) == (F!Insert(a) \/ F!Drop(a)) /\ UNCHANGED <<sfvars, visit>>

\* Mutant: the index survives the restart, as if it were rebuilt from disk.
DieKeeping ==
    /\ Restarts
    /\ call' = [c \in Callers |-> Idle]
    /\ group' = [k \in Keys |-> None]
    /\ task' = [c \in Callers |-> NoTask]
    /\ visit' = [c \in Clients |-> NoVisit]
    /\ rules' \in SUBSET [covers : RulePrefixes, at : 0 .. now]
    /\ writer' = [a \in Admins |-> F!NoWriter]
    /\ UNCHANGED <<items, lru, disk, now, bodies>>

\* The process starts again over the same directory: the index is not rebuilt from it, so the files
\* of the earlier run stay on disk and no entry leads to them.  FlushStore says which rules Load
\* finds; here any set of rules from the past may be found, fewer or more than were in force.
Die ==
    /\ Restarts
    /\ items' = [k \in Keys |-> None] /\ lru' = <<>>
    /\ call' = [c \in Callers |-> Idle]
    /\ group' = [k \in Keys |-> None]
    /\ task' = [c \in Callers |-> NoTask]
    /\ visit' = [c \in Clients |-> NoVisit]
    /\ rules' \in SUBSET [covers : RulePrefixes, at : 0 .. now]
    /\ writer' = [a \in Admins |-> F!NoWriter]
    /\ UNCHANGED <<disk, now, bodies>>

NodeTick == SFTick /\ UNCHANGED <<visit, store>>

ServeStep(c) ==
    \/ Match(c) \/ Evict(c) \/ Peek(c) \/ Serve(c) \/ Respond(c)
    \/ FetchStep(c) /\ UNCHANGED <<visit, store>>

Serving ==
    \/ NodeTick
    \/ \E c \in Clients : ServeStep(c) \/ \E k \in Keys : Arrive(c, k)
    \/ \E a \in Admins :
          \/ CacheStep(a) /\ UNCHANGED <<visit, store>>
          \/ AdminStep(a) \/ Reload(a)
          \/ \E k \in Keys : FlushURL(a, k)
          \/ \E p \in RulePrefixes : FlushPrefix(a, p)

NodeNext == Serving \/ Die

NodeSpec == NodeInit /\ [][NodeNext]_nodevars

-----------------------------------------------------------------------------
\* Types, and that the parts of a request agree: it holds a GetOrFetch only while it serves.
NodeTypeOK ==
    /\ SFTypeOK
    /\ F!RulesTypeOK
    /\ visit \in [Clients -> Visit]
    /\ \A c \in Clients :
          /\ visit[c].at \in {"check", "flush", "checked", "peek", "serve"} => visit[c].key \in Keys
          /\ task[c].at # "idle" => Seen(c, "serve") /\ task[c].key = visit[c].key

\* A request that got its answer from GetOrFetch.
Served(c) == Seen(c, "serve") /\ task[c].at = "done"
=============================================================================
