----------------------------- MODULE RequestPath -----------------------------
(***************************************************************************)
(* From a request to what the origin is sent and the key it is cached by:  *)
(* the plugin chain (internal/pipeline: pipeline.go, header, rewrite) and  *)
(* the key builder (internal/cache/key.go).  All of it works on values of  *)
(* one goroutine.  Query and header are functions from names to sequences  *)
(* of values, empty for a name that is absent; a rewrite rule is a function*)
(* from the paths its expression matches to what it makes of them, without *)
(* any for an expression that does not compile.                            *)
(***************************************************************************)
EXTENDS Naturals, Sequences

LOCAL Least(S) == CHOOSE i \in S : \A j \in S : i <= j

\* url_rewrite: the first rule that matches the path, as plugins before it left it.
Rewrite(rules, sent) ==
    LET matching == {i \in DOMAIN rules : sent.path \in DOMAIN rules[i]} IN
    IF matching = {} THEN sent ELSE [sent EXCEPT !.path = rules[Least(matching)][@]]

HeaderOps == {"set", "add", "del"}

\* header: one operation that is not understood discards the whole section.
ParseOps(ops) == IF \A i \in DOMAIN ops : ops[i].op \in HeaderOps THEN ops ELSE <<>>

ApplyOp(header, op) ==
    [header EXCEPT ![op.key] =
        CASE op.op = "set" -> <<op.value>>
          [] op.op = "add" -> Append(@, op.value)
          [] op.op = "del" -> <<>>]

ApplyOps(header, ops) ==
    LET after[i \in 0 .. Len(ops)] == IF i = 0 THEN header ELSE ApplyOp(after[i - 1], ops[i]) IN after[Len(ops)]

\* What is staged for the response: the last value that is set of each name, and the names to delete.
StageOp(sent, op) ==
    IF op.op = "del" THEN [sent EXCEPT !.del = @ \cup {op.key}]
    ELSE [sent EXCEPT !.set = [n \in DOMAIN @ \cup {op.key} |-> IF n = op.key THEN op.value ELSE @[n]]]

StageOps(sent, ops) ==
    LET after[i \in 0 .. Len(ops)] == IF i = 0 THEN sent ELSE StageOp(after[i - 1], ops[i]) IN after[Len(ops)]

Headers(plugin, sent) ==
    StageOps([sent EXCEPT !.header = ApplyOps(@, ParseOps(plugin.request))], ParseOps(plugin.response))

\* A type that is not registered is skipped.
RunPlugin(sent, plugin) ==
    CASE plugin.type = "url_rewrite" -> Rewrite(plugin.rules, sent)
      [] plugin.type = "header" -> Headers(plugin, sent)
      [] OTHER -> sent

\* What is sent to an origin, and what the key is made of: the path as rewritten, the whole query, the
\* header as changed.  Beside it, what is staged for the response.
Execute(plugins, request) ==
    LET sent == [path |-> request.path, query |-> request.query, header |-> request.header, set |-> <<>>, del |-> {}]
        after[i \in 0 .. Len(plugins)] == IF i = 0 THEN sent ELSE RunPlugin(after[i - 1], plugins[i]) IN
    after[Len(plugins)]

\* The header of the response: what was staged, then what the origin sent (one value of each name).
ResponseHeader(sent, origin) ==
    [n \in DOMAIN origin \cup (DOMAIN sent.set \ sent.del) |-> IF n \in DOMAIN origin THEN origin[n] ELSE sent.set[n]]

\* The first value of each listed name that has one.
Listed(values, names) == {<<n, Head(values[n])>> : n \in {x \in names : values[x] # <<>>}}

\* Mutant: the header is left out of the key.
BuildWithoutHeader(domain, sent, rules) ==
    [domain |-> domain, path |-> sent.path, query |-> Listed(sent.query, rules.params), header |-> {}]

\* Separators and the hash of the header part are taken to keep apart what they separate.
Build(domain, sent, rules) ==
    [domain |-> domain, path |-> sent.path,
     query |-> Listed(sent.query, rules.params), header |-> Listed(sent.header, rules.headers)]
=============================================================================
