------------------------------- MODULE Gateway -------------------------------
(***************************************************************************)
(* ServeHTTP over configurations that change: each request takes its       *)
(* domain's configuration once (internal/domain/router.go), while Update   *)
(* swaps the map; the key builder and the admin handler keep the           *)
(* configuration of start-up (cmd/server/main.go, internal/admin).  The    *)
(* cache behind it is taken as FetchOnce promises it: one flight for each  *)
(* key that is not cached.  The flush check is CdnNode's.                  *)
(***************************************************************************)
EXTENDS RequestPath, FiniteSets

CONSTANTS
    Clients,     \* goroutines serving requests
    Requests,    \* [domain, path, query, header]
    Configs,     \* [global : rules, domains : a function from domains to [rules, plugins]]
    MaxPulls,    \* bound
    Sends,       \* the header that origins answer each pull with, by the number of the pull
    None

ASSUME PullsAssumption == MaxPulls \in Nat

\* Plugins, and the operations of a header plugin, come in a list; rules list headers that requests may have.
List(s) == s \in Seq({s[i] : i \in DOMAIN s})
ASSUME ConfigsAssumption == \A g \in Configs : \A d \in DOMAIN g.domains :
    LET plugins == g.domains[d].plugins IN
    List(plugins) /\ \A i \in DOMAIN plugins : plugins[i].type = "header" => List(plugins[i].response)
ASSUME NamesAssumption == \A g \in Configs : \A q \in Requests :
    \A r \in {g.global} \cup ({g.domains[d].rules : d \in DOMAIN g.domains} \ {None}) : r.headers \subseteq DOMAIN q.header

VARIABLES
    boot,     \* the configuration of start-up
    table,    \* the domains in force: those of the configuration that Update was last given
    cache,    \* what is cached, by key
    visit,    \* where each request is in ServeHTTP
    pulls     \* pulls are numbered as they begin

config == <<boot, table>>
gatevars == <<config, cache, visit, pulls>>

\* `own` is what the request is for: its domain, what its plugins made of it, the key rules it took,
\* and the number of the pull it leads.  An entry of the cache, and an answer, is that of its leader.
NoVisit == [at |-> "idle", request |-> None, own |-> None, answer |-> None]

GateInit ==
    /\ boot \in Configs /\ table = boot.domains
    /\ cache = <<>> /\ pulls = 0
    /\ visit = [c \in Clients |-> NoVisit]

Seen(c, at) == visit[c].at = at
KeyOf(entry) == Build(entry.domain, entry.sent, entry.rules)
Key(c) == KeyOf(visit[c].own)
Leaders(k) == {c \in Clients : Seen(c, "pulling") /\ Key(c) = k}

\* The rules of a domain replace the global ones, and those are the ones of start-up.
RulesOf(domains, d) ==
    IF d \in DOMAIN domains /\ domains[d].rules # None THEN domains[d].rules ELSE boot.global

Without(k) == [x \in DOMAIN cache \ {k} |-> cache[x]]
With(k, entry) == [x \in DOMAIN cache \cup {k} |-> IF x = k THEN entry ELSE cache[x]]

-----------------------------------------------------------------------------
\* 404 for a domain without configuration and 429 from the limiter end a request here, with no trace.
Arrive(c, q) ==
    /\ Seen(c, "idle") /\ q.domain \in DOMAIN table
    /\ LET own == [domain |-> q.domain, sent |-> Execute(table[q.domain].plugins, q),
                   rules |-> RulesOf(table, q.domain), no |-> 0] IN
       visit' = [visit EXCEPT ![c] = [at |-> "asking", request |-> q, own |-> own, answer |-> None]]
    /\ UNCHANGED <<config, cache, pulls>>

Hit(c) ==
    /\ Seen(c, "asking") /\ Key(c) \in DOMAIN cache
    /\ visit' = [visit EXCEPT ![c].at = "done", ![c].answer = cache[Key(c)]]
    /\ UNCHANGED <<config, cache, pulls>>

Wait(c) ==
    /\ Seen(c, "asking") /\ Key(c) \notin DOMAIN cache /\ Leaders(Key(c)) # {}
    /\ visit' = [visit EXCEPT ![c].at = "waiting"]
    /\ UNCHANGED <<config, cache, pulls>>

\* originFetch with the request and the configuration of the leader.
Lead(c) ==
    /\ Seen(c, "asking") /\ Key(c) \notin DOMAIN cache /\ Leaders(Key(c)) = {}
    /\ pulls < MaxPulls /\ pulls' = pulls + 1
    /\ visit' = [visit EXCEPT ![c].at = "pulling", ![c].own.no = pulls']
    /\ UNCHANGED <<config, cache>>

Aboard(c) == {x \in Clients : x = c \/ (Seen(x, "waiting") /\ Key(x) = Key(c))}

\* Mutant: the key is built again when the answer is stored, by the rules that are in force then.
LandRekeyed(c) ==
    /\ Seen(c, "pulling")
    /\ LET own == visit[c].own IN
       cache' \in {cache, With(Build(own.domain, own.sent, RulesOf(table, own.domain)), own)}
    /\ visit' = [x \in Clients |->
          IF x \in Aboard(c) THEN [visit[x] EXCEPT !.at = "done", !.answer = visit[c].own] ELSE visit[x]]
    /\ UNCHANGED <<config, pulls>>

\* The answer is stored, or storing it fails; either way the leader and those who wait get it.
Land(c) ==
    /\ Seen(c, "pulling")
    /\ cache' \in {cache, With(Key(c), visit[c].own)}
    /\ visit' = [x \in Clients |->
          IF x \in Aboard(c) THEN [visit[x] EXCEPT !.at = "done", !.answer = visit[c].own] ELSE visit[x]]
    /\ UNCHANGED <<config, pulls>>

\* Mutant: the failure reaches the leader only.
PullFailsAlone(c) ==
    /\ Seen(c, "pulling") /\ visit' = [visit EXCEPT ![c] = NoVisit]
    /\ UNCHANGED <<config, cache, pulls>>

PullFails(c) ==
    /\ Seen(c, "pulling")
    /\ visit' = [x \in Clients |-> IF x \in Aboard(c) THEN NoVisit ELSE visit[x]]
    /\ UNCHANGED <<config, cache, pulls>>

\* Mutant: the header is that of the request that led the flight.
ResponseOfLeader(c) == ResponseHeader(visit[c].answer.sent, Sends[visit[c].answer.no])

\* The header that a request is answered with: its own plugins', over what the entry has from its origin.
Response(c) == ResponseHeader(visit[c].own.sent, Sends[visit[c].answer.no])

Leave(c) ==
    /\ Seen(c, "done") /\ visit' = [visit EXCEPT ![c] = NoVisit]
    /\ UNCHANGED <<config, cache, pulls>>

\* Eviction, expiry, or the flush check of a request.
Drop(k) == cache' = Without(k) /\ UNCHANGED <<config, visit, pulls>>

-----------------------------------------------------------------------------
Bare(q) == [path |-> q.path, query |-> q.query, header |-> [n \in DOMAIN q.header |-> <<>>]]

\* Mutant: the URL is flushed by the global rules.
AdminKeyGlobal(q) == Build(q.domain, Bare(q), boot.global)

\* The key of a URL, by the configuration of start-up: neither plugins nor the client's header are in it.
AdminKey(q) == Build(q.domain, Bare(q), RulesOf(boot.domains, q.domain))

FlushURL(q) == cache' = Without(AdminKey(q)) /\ UNCHANGED <<config, visit, pulls>>

\* A hot reload (HotReload says when): requests under way keep the configuration they took.
Update(g) == table' = g.domains /\ UNCHANGED <<boot, cache, visit, pulls>>

Restart(g) ==
    /\ boot' = g /\ table' = g.domains
    /\ cache' = <<>> /\ visit' = [c \in Clients |-> NoVisit]
    /\ UNCHANGED pulls

ServeStep(c) == Hit(c) \/ Wait(c) \/ Lead(c) \/ Land(c) \/ PullFails(c) \/ Leave(c)

GateNext ==
    \/ \E c \in Clients : ServeStep(c) \/ \E q \in Requests : Arrive(c, q)
    \/ \E k \in DOMAIN cache : Drop(k)
    \/ \E q \in Requests : FlushURL(q)
    \/ \E g \in Configs : Update(g) \/ Restart(g)

GateSpec == GateInit /\ [][GateNext]_gatevars

-----------------------------------------------------------------------------
Places == {"idle", "asking", "waiting", "pulling", "done"}

\* Types, and that the parts of a request agree: an entry stands under its own key, a request has what it
\* is for until it ends, and an answer when it is done (router.go 76-147).
GateTypeOK ==
    /\ boot \in Configs /\ pulls \in Nat
    /\ \A k \in DOMAIN cache : KeyOf(cache[k]) = k /\ cache[k].no \in 1 .. pulls
    /\ \A c \in Clients :
          /\ visit[c].at \in Places
          /\ Seen(c, "idle") => visit[c] = NoVisit
          /\ Seen(c, "pulling") => visit[c].own.no \in 1 .. pulls
          /\ Seen(c, "done") => KeyOf(visit[c].answer) = Key(c) /\ visit[c].answer.no \in 1 .. pulls

\* Nobody waits without a flight to wait for, and a flight has one leader (router.go 112).
WaitersAboard ==
    \A c \in Clients :
        /\ Seen(c, "waiting") => Leaders(Key(c)) # {}
        /\ Seen(c, "pulling") => Leaders(Key(c)) = {c}

\* The same value, or none, under each of the names.
Agree(v, w, names) == \A n \in names : Listed(v, {n}) = Listed(w, {n})

\* A request is answered with what was pulled for a request of its domain and rewritten path that had
\* its values of every parameter and header that both took into account, whatever plugins, flights and
\* reloads came in between (key.go 31-81, router.go 93, 149-160).
RightVariant ==
    \A c \in Clients : Seen(c, "done") =>
        LET own == visit[c].own  a == visit[c].answer IN
        /\ a.domain = own.domain /\ a.sent.path = own.sent.path
        /\ Agree(a.sent.query, own.sent.query, a.rules.params \cap own.rules.params)
        /\ Agree(a.sent.header, own.sent.header, a.rules.headers \cap own.rules.headers)
=============================================================================
