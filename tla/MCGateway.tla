------------------------------ MODULE MCGateway ------------------------------
(***************************************************************************)
(* Small instances of Gateway: two domains, a reload that changes key      *)
(* rules and plugins, and requests that differ in path, query, header and  *)
(* domain.  What URL flushes promise is kept beside the model as a history.*)
(***************************************************************************)
EXTENDS Gateway, TLC

CONSTANTS v1, v2

Rules(params, headers) == [params |-> params, headers |-> headers]
Domain(rules, plugins) == [rules |-> rules, plugins |-> plugins]
NoHeader == [lang |-> <<>>, node |-> <<>>]

ToP2 == [type |-> "url_rewrite", rules |-> <<<<>>, "p1" :> "p2", "p2" :> "p1">>]
Op(op, key, value) == [op |-> op, key |-> key, value |-> value]
SetLang == [type |-> "header", request |-> <<Op("del", "node", None), Op("set", "lang", v2)>>,
            response |-> <<Op("set", "server", v1)>>]
Misspelt == [type |-> "header", request |-> <<Op("set", "lang", v1), Op("replace", "node", v1)>>,
             response |-> <<Op("set", "node", v2), Op("del", "lang", None)>>]
AddNode == [type |-> "header", request |-> <<Op("add", "node", v1)>>,
            response |-> <<Op("add", "node", v1), Op("set", "lang", v1), Op("set", "server", v2)>>]
SetNode == [type |-> "header", request |-> <<>>, response |-> <<Op("set", "node", v1), Op("set", "node", v2)>>]
Unknown == [type |-> "gzip"]

First == [global |-> Rules({"q"}, {"lang"}),
          domains |-> "d1" :> Domain(Rules({"q"}, {}), <<Unknown, ToP2, SetNode>>) @@ "d2" :> Domain(None, <<SetLang>>)]
Second == [global |-> Rules({}, {}),
           domains |-> "d1" :> Domain(Rules({"q"}, {"lang"}), <<Misspelt, AddNode>>)]

MCConfigs == {First, Second}

Request(domain, path, q, lang) ==
    [domain |-> domain, path |-> path, query |-> "q" :> q, header |-> [NoHeader EXCEPT !.lang = lang]]

\* What the first configuration makes of the first request has the key of the second under the other.
MCRequests == {Request("d1", "p1", <<v1>>, <<v1>>), Request("d1", "p2", <<v1>>, <<>>),
               Request("d1", "p2", <<v1>>, <<v1>>), Request("d1", "p2", <<v2, v1>>, <<>>),
               Request("d2", "p2", <<>>, <<v1>>)}

\* The origin of the first pull names its server, the next one does not.
MCSends == <<"server" :> v2, <<>>>>

VARIABLES
    took,      \* the plugins in force when each request arrived, and then the history of URL flushes
    url,       \* one of the URLs that FlushURL can know the key of
    flushed,   \* the pulls begun before its last flush that found no flight of its key
    since      \* what that was when each request of it arrived

HistInit ==
    /\ GateInit
    /\ url \in {q \in Requests : q.header = Bare(q).header}
    /\ flushed = 0 /\ since = [c \in Clients |-> 0] /\ took = [c \in Clients |-> <<>>]

Run ==
    \/ GateNext /\ ~FlushURL(url) /\ UNCHANGED flushed
    \/ FlushURL(url) /\ flushed' = IF Leaders(AdminKey(url)) = {} THEN pulls ELSE flushed

Track == since' = [c \in Clients |->
    CASE visit'[c].at = "idle" -> 0
      [] visit[c].at = "idle" /\ visit'[c].at = "asking" -> IF visit'[c].request = url THEN flushed ELSE 0
      [] OTHER -> since[c]]

TrackPlugins == took' = [c \in Clients |->
    CASE visit'[c].at = "idle" -> <<>>
      [] visit[c].at = "idle" /\ visit'[c].at = "asking" -> table[visit'[c].request.domain].plugins
      [] OTHER -> took[c]]

HistSpec == HistInit /\ [][Run /\ Track /\ TrackPlugins /\ UNCHANGED url]_<<gatevars, url, flushed, since, took>>

\* What FlushURL makes of a URL is what the request made of it: rules of start-up, nothing rewritten,
\* no header in the key.
Plain(v) ==
    /\ v.own.rules = RulesOf(boot.domains, v.request.domain)
    /\ v.own.sent.path = v.request.path
    /\ \A h \in v.own.rules.headers : v.own.sent.header[h] = <<>>

\* A request of a URL that arrives after its flush is answered with a body pulled after the flush, if no
\* flight of the key was under way and the key is the one that FlushURL can know of: "exact URL flush"
\* (doc/design.md 187), though a rewritten path or a header in the key puts an entry out of its reach (admin/handler.go 60-63).
FlushURLReaches ==
    \A c \in Clients : Seen(c, "done") /\ Plain(visit[c]) => visit[c].answer.no > since[c]

\* The operations on the response of a sequence of plugins, by plugin and place; later ones are after.
ResponseOps(plugins) ==
    {p \in UNION {{i} \X DOMAIN plugins[i].response : i \in {i \in DOMAIN plugins : plugins[i].type = "header"}} :
        ParseOps(plugins[p[1]].response) # <<>>}
NoLater(p, q) == p[1] < q[1] \/ (p[1] = q[1] /\ p[2] <= q[2])

HasOwnHeader(c) ==
    LET At(p) == took[c][p[1]].response[p[2]]
        origin == Sends[visit[c].answer.no]
        On(n) == {p \in ResponseOps(took[c]) : At(p).key = n}
        Kept(n) == On(n) # {} /\ \A p \in On(n) : At(p).op # "del"
        Names == {n \in {At(p).key : p \in ResponseOps(took[c])} : Kept(n)} IN
    /\ DOMAIN Response(c) = DOMAIN origin \cup Names
    /\ \A n \in DOMAIN origin : Response(c)[n] = origin[n]
    /\ \A n \in Names \ DOMAIN origin :
          \E p \in On(n) : Response(c)[n] = At(p).value /\ \A q \in On(n) : NoLater(q, p)

\* Whoever pulled what a request is answered with, and whatever is in force by then: each name has the value
\* that the origin sent, or else the last one that the plugins of the request itself set and none of them
\* deleted (header.go 46-54, pipeline.go 106-117, router.go 120-127).
OwnHeader == \A c \in Clients : Seen(c, "done") => HasOwnHeader(c)

ClientSymmetry == Permutations(Clients)
=============================================================================
