---------------------------- MODULE GatewayProofs ----------------------------
(***************************************************************************)
(* Who gets which answer from a Gateway, for any configurations, plugins,  *)
(* requests and number of clients, and which header with it; and what the  *)
(* flush of a URL reaches.  The loops over plugins and their operations    *)
(* are recursive functions: what they leave is proved by induction over    *)
(* their turns (AllTurns).                                                 *)
(***************************************************************************)
EXTENDS MCGateway, WellFoundedInduction, TLAPS

-----------------------------------------------------------------------------
\* Of two keys that are equal, the values listed in both are.
LEMMA ListedAgree ==
    ASSUME NEW v, NEW w, NEW names, NEW others, Listed(v, names) = Listed(w, others)
    PROVE  Agree(v, w, names \cap others)
<1> SUFFICES ASSUME NEW n \in names \cap others PROVE Listed(v, {n}) = Listed(w, {n})
  BY DEF Agree
<1>1. ASSUME v[n] # <<>> PROVE w[n] # <<>> /\ Head(w[n]) = Head(v[n])
  <2>1. <<n, Head(v[n])>> \in Listed(w, others)
    BY <1>1 DEF Listed
  <2> QED BY <2>1 DEF Listed
<1>2. ASSUME w[n] # <<>> PROVE v[n] # <<>>
  <2>1. <<n, Head(w[n])>> \in Listed(v, names)
    BY <1>2 DEF Listed
  <2> QED BY <2>1 DEF Listed
<1> QED BY <1>1, <1>2 DEF Listed

\* What two entries with one key have in common.
LEMMA SameKeySameVariant ==
    ASSUME NEW a, NEW b, KeyOf(a) = KeyOf(b)
    PROVE  /\ a.domain = b.domain /\ a.sent.path = b.sent.path
           /\ Agree(a.sent.query, b.sent.query, a.rules.params \cap b.rules.params)
           /\ Agree(a.sent.header, b.sent.header, a.rules.headers \cap b.rules.headers)
<1>1. /\ a.domain = b.domain /\ a.sent.path = b.sent.path
      /\ Listed(a.sent.query, a.rules.params) = Listed(b.sent.query, b.rules.params)
      /\ Listed(a.sent.header, a.rules.headers) = Listed(b.sent.header, b.rules.headers)
  BY DEF KeyOf, Build
<1> QED BY <1>1, ListedAgree

\* The number of a pull is not in its key.
LEMMA NumberNotInKey ==
    ASSUME NEW own, DOMAIN own = {"domain", "sent", "rules", "no"}, NEW n
    PROVE  KeyOf([own EXCEPT !.no = n]) = KeyOf(own)
BY DEF KeyOf

-----------------------------------------------------------------------------
Shaped ==
    /\ DOMAIN visit = Clients
    /\ \A c \in Clients :
          /\ DOMAIN visit[c] = {"at", "request", "own", "answer"}
          /\ ~Seen(c, "idle") => DOMAIN visit[c].own = {"domain", "sent", "rules", "no"}

GateInv == Shaped /\ GateTypeOK /\ WaitersAboard

\* What GateInv says of one client, and of the entries.
ClientOK(c) ==
    /\ DOMAIN visit[c] = {"at", "request", "own", "answer"}
    /\ ~Seen(c, "idle") => DOMAIN visit[c].own = {"domain", "sent", "rules", "no"}
    /\ visit[c].at \in Places
    /\ Seen(c, "idle") => visit[c] = NoVisit
    /\ Seen(c, "pulling") => visit[c].own.no \in 1 .. pulls
    /\ Seen(c, "done") => KeyOf(visit[c].answer) = Key(c) /\ visit[c].answer.no \in 1 .. pulls
EntriesOK == \A k \in DOMAIN cache : KeyOf(cache[k]) = k /\ cache[k].no \in 1 .. pulls
CountOK == boot \in Configs /\ pulls \in Nat

Parts == DOMAIN visit = Clients /\ (\A c \in Clients : ClientOK(c)) /\ EntriesOK /\ CountOK /\ WaitersAboard

LEMMA GateInvSplit == GateInv <=> Parts
BY DEF GateInv, Shaped, GateTypeOK, Parts, ClientOK, EntriesOK, CountOK

LEMMA GateInvJoin == Parts' => GateInv'
BY GateInvSplit, PTL

\* A step after which a client is as before.
LEMMA SameClient ==
    ASSUME NEW c, ClientOK(c), visit'[c] = visit[c], pulls \in Nat, pulls' \in Nat, pulls <= pulls'
    PROVE  ClientOK(c)' /\ Key(c)' = Key(c)
BY DEF ClientOK, Seen, Key, NoVisit

LEMMA SameClientQuiet ==
    ASSUME NEW c, ClientOK(c), visit'[c] = visit[c], pulls' = pulls
    PROVE  ClientOK(c)' /\ Key(c)' = Key(c)
BY DEF ClientOK, Seen, Key, NoVisit

LEMMA GoneClient == ASSUME NEW c, visit'[c] = NoVisit PROVE ClientOK(c)' /\ visit'[c].at = "idle"
BY DEF ClientOK, Seen, Places, NoVisit

\* Removing and storing entries.
LEMMA WithoutKeeps == ASSUME NEW k, EntriesOK, cache' = Without(k), pulls' = pulls PROVE EntriesOK'
BY DEF EntriesOK, Without

LEMMA WithKeeps ==
    ASSUME NEW entry, EntriesOK, entry.no \in 1 .. pulls, pulls' = pulls, cache' \in {cache, With(KeyOf(entry), entry)}
    PROVE  EntriesOK'
BY DEF EntriesOK, With

-----------------------------------------------------------------------------
\* One client moves on, and leads no flight before or after.
LEMMA MoveKeeps ==
    ASSUME GateInv, NEW c \in Clients, DOMAIN visit' = Clients, \A x \in Clients \ {c} : visit'[x] = visit[x],
           ClientOK(c)', EntriesOK', CountOK', UNCHANGED pulls, ~Seen(c, "pulling"), ~Seen(c, "pulling")',
           Seen(c, "waiting")' => \E x \in Clients : Seen(x, "pulling") /\ Key(x) = Key(c)'
    PROVE  GateInv'
<1>1. \A x \in Clients \ {c} : ClientOK(x)' /\ Key(x)' = Key(x) /\ \A at \in Places : Seen(x, at)' <=> Seen(x, at)
  BY GateInvSplit, SameClient DEF Parts, CountOK, Seen
<1>2. \A k : Leaders(k)' = Leaders(k)
  BY <1>1 DEF Leaders, Places
<1>3. WaitersAboard'
  BY <1>1, <1>2, GateInvSplit DEF Parts, WaitersAboard, Leaders, Places
<1> QED BY <1>1, <1>3, GateInvJoin DEF Parts

LEMMA ArriveKeeps == ASSUME GateInv, NEW c \in Clients, NEW q \in Requests, Arrive(c, q) PROVE GateInv'
<1>1. PICK own : /\ DOMAIN own = {"domain", "sent", "rules", "no"}
                 /\ visit' = [visit EXCEPT ![c] = [at |-> "asking", request |-> q, own |-> own, answer |-> None]]
  BY DEF Arrive
<1>2. DOMAIN visit' = Clients /\ visit'[c] = [at |-> "asking", request |-> q, own |-> own, answer |-> None]
      /\ \A x \in Clients \ {c} : visit'[x] = visit[x]
  BY <1>1, GateInvSplit DEF Parts
<1>3. ClientOK(c)'
  BY <1>1, <1>2 DEF ClientOK, Seen, Places
<1>4. EntriesOK' /\ CountOK' /\ pulls' = pulls
  BY GateInvSplit DEF Parts, EntriesOK, CountOK, Arrive, config
<1>5. ~Seen(c, "pulling") /\ ~Seen(c, "pulling")' /\ ~Seen(c, "waiting")'
  BY <1>2 DEF Arrive, Seen
<1> QED BY <1>2, <1>3, <1>4, <1>5, MoveKeeps

LEMMA HitKeeps == ASSUME GateInv, NEW c \in Clients, Hit(c) PROVE GateInv'
<1>1. ClientOK(c) /\ DOMAIN visit = Clients /\ EntriesOK /\ CountOK
  BY GateInvSplit DEF Parts
<1>2. DOMAIN visit' = Clients /\ visit'[c] = [visit[c] EXCEPT !.at = "done", !.answer = cache[Key(c)]]
      /\ \A x \in Clients \ {c} : visit'[x] = visit[x]
  BY <1>1 DEF Hit
<1>3. visit'[c].at = "done" /\ visit'[c].own = visit[c].own /\ visit'[c].answer = cache[Key(c)]
      /\ DOMAIN visit'[c] = {"at", "request", "own", "answer"}
  BY <1>1, <1>2 DEF ClientOK
<1>4. Key(c)' = Key(c)
  BY <1>3 DEF Key
<1>5. ClientOK(c)'
  BY <1>1, <1>3, <1>4 DEF ClientOK, Seen, Places, EntriesOK, Hit
<1>6. EntriesOK' /\ CountOK' /\ pulls' = pulls
  BY <1>1 DEF EntriesOK, CountOK, Hit, config
<1>7. ~Seen(c, "pulling") /\ ~Seen(c, "pulling")' /\ ~Seen(c, "waiting")'
  BY <1>3 DEF Hit, Seen
<1> QED BY <1>2, <1>5, <1>6, <1>7, MoveKeeps

LEMMA WaitKeeps == ASSUME GateInv, NEW c \in Clients, Wait(c) PROVE GateInv'
<1>1. ClientOK(c) /\ DOMAIN visit = Clients /\ EntriesOK /\ CountOK
  BY GateInvSplit DEF Parts
<1>2. DOMAIN visit' = Clients /\ visit'[c] = [visit[c] EXCEPT !.at = "waiting"]
      /\ \A x \in Clients \ {c} : visit'[x] = visit[x]
  BY <1>1 DEF Wait
<1>3. visit'[c].at = "waiting" /\ visit'[c].own = visit[c].own
      /\ DOMAIN visit'[c] = {"at", "request", "own", "answer"}
  BY <1>1, <1>2 DEF ClientOK
<1>4. Key(c)' = Key(c)
  BY <1>3 DEF Key
<1>5. ClientOK(c)'
  BY <1>1, <1>3, <1>4 DEF ClientOK, Seen, Places, Wait
<1>6. EntriesOK' /\ CountOK' /\ pulls' = pulls
  BY <1>1 DEF EntriesOK, CountOK, Wait, config
<1>7. ~Seen(c, "pulling") /\ ~Seen(c, "pulling")'
  BY <1>3 DEF Wait, Seen
<1>8. \E x \in Clients : Seen(x, "pulling") /\ Key(x) = Key(c)'
  BY <1>4 DEF Wait, Leaders
<1> QED BY <1>2, <1>5, <1>6, <1>7, <1>8, MoveKeeps

LEMMA LeaveKeeps == ASSUME GateInv, NEW c \in Clients, Leave(c) PROVE GateInv'
<1>1. DOMAIN visit' = Clients /\ visit'[c] = NoVisit /\ \A x \in Clients \ {c} : visit'[x] = visit[x]
  BY GateInvSplit DEF Leave, Parts
<1>2. ClientOK(c)'
  BY <1>1 DEF ClientOK, Seen, Places, NoVisit
<1>3. EntriesOK' /\ CountOK' /\ pulls' = pulls
  BY GateInvSplit DEF Parts, EntriesOK, CountOK, Leave, config
<1>4. ~Seen(c, "pulling") /\ ~Seen(c, "pulling")' /\ ~Seen(c, "waiting")'
  BY <1>1 DEF Leave, Seen, NoVisit
<1> QED BY <1>1, <1>2, <1>3, <1>4, MoveKeeps

\* A new flight, of a key without one.
LEMMA LeadKeeps == ASSUME GateInv, NEW c \in Clients, Lead(c) PROVE GateInv'
<1>1. ClientOK(c) /\ DOMAIN visit = Clients /\ EntriesOK /\ CountOK /\ WaitersAboard
  BY GateInvSplit DEF Parts
<1>2. pulls' = pulls + 1 /\ pulls' \in Nat /\ pulls <= pulls' /\ pulls' \in 1 .. pulls' /\ CountOK'
  BY <1>1 DEF Lead, CountOK, config
<1>3. DOMAIN visit' = Clients /\ visit'[c] = [visit[c] EXCEPT !.at = "pulling", !.own = [visit[c].own EXCEPT !.no = pulls']]
      /\ \A x \in Clients \ {c} : visit'[x] = visit[x]
  BY <1>1 DEF Lead, ClientOK
<1>4. visit'[c].at = "pulling" /\ visit'[c].own = [visit[c].own EXCEPT !.no = pulls']
      /\ DOMAIN visit'[c] = {"at", "request", "own", "answer"} /\ DOMAIN visit[c].own = {"domain", "sent", "rules", "no"}
  BY <1>1, <1>3 DEF ClientOK, Lead, Seen
<1>5. Key(c)' = Key(c)
  BY <1>4, NumberNotInKey DEF Key
<1>6. ClientOK(c)'
  BY <1>2, <1>4 DEF ClientOK, Seen, Places
<1>7. \A x \in Clients \ {c} : ClientOK(x)' /\ Key(x)' = Key(x) /\ \A at \in Places : Seen(x, at)' <=> Seen(x, at)
  BY <1>1, <1>2, <1>3, SameClient, GateInvSplit DEF Parts, CountOK, Seen
<1>8. EntriesOK'
  BY <1>1, <1>2 DEF EntriesOK, Lead, CountOK
<1>9. \A k : Leaders(k)' = IF k = Key(c) THEN Leaders(k) \cup {c} ELSE Leaders(k)
  <2> SUFFICES ASSUME NEW k, NEW x \in Clients
               PROVE  x \in Leaders(k)' <=> x \in Leaders(k) \/ (x = c /\ k = Key(c))
    BY DEF Leaders
  <2>1. CASE x = c
    BY <1>4, <1>5, <2>1 DEF Leaders, Seen, Lead
  <2>2. CASE x # c
    BY <1>7, <2>2 DEF Leaders, Places
  <2> QED BY <2>1, <2>2
<1>10. WaitersAboard'
  BY <1>1, <1>4, <1>5, <1>7, <1>9 DEF WaitersAboard, Lead, Places, Seen
<1> QED BY <1>2, <1>3, <1>6, <1>7, <1>8, <1>10, GateInvJoin DEF Parts

\* The end of a flight: everybody aboard gets the answer, or nobody.
LEMMA LandingKeeps ==
    ASSUME GateInv, NEW c \in Clients, Seen(c, "pulling"), UNCHANGED <<config, pulls>>,
           cache' \in {cache, With(Key(c), visit[c].own)},
           DOMAIN visit' = Clients, \A x \in Clients \ Aboard(c) : visit'[x] = visit[x],
           \/ \A x \in Aboard(c) : visit'[x] = [visit[x] EXCEPT !.at = "done", !.answer = visit[c].own]
           \/ \A x \in Aboard(c) : visit'[x] = NoVisit
    PROVE  GateInv'
<1>1. (\A x \in Clients : ClientOK(x)) /\ EntriesOK /\ CountOK /\ WaitersAboard
  BY GateInvSplit DEF Parts
<1>2. \A x \in Aboard(c) : x \in Clients /\ Key(x) = Key(c) /\ ~Seen(x, "idle")
  BY DEF Aboard, Seen
<1>3. visit[c].own.no \in 1 .. pulls
  BY <1>1 DEF ClientOK
<1>4. ASSUME NEW x \in Aboard(c), visit'[x] = [visit[x] EXCEPT !.at = "done", !.answer = visit[c].own]
      PROVE  ClientOK(x)' /\ visit'[x].at = "done"
  <2>1. visit'[x].at = "done" /\ visit'[x].own = visit[x].own /\ visit'[x].answer = visit[c].own
        /\ DOMAIN visit'[x] = {"at", "request", "own", "answer"}
    BY <1>1, <1>2, <1>4 DEF ClientOK
  <2>2. Key(x)' = Key(x) /\ KeyOf(visit'[x].answer) = Key(c)
    BY <2>1 DEF Key
  <2> QED BY <1>1, <1>2, <1>3, <2>1, <2>2 DEF ClientOK, Seen, Places
<1>5. ASSUME NEW x \in Aboard(c), visit'[x] = NoVisit PROVE ClientOK(x)' /\ visit'[x].at = "idle"
  BY <1>5, GoneClient
<1>6. \A x \in Aboard(c) : ClientOK(x)' /\ ~Seen(x, "pulling")' /\ ~Seen(x, "waiting")'
  BY <1>4, <1>5 DEF Seen
<1>7. \A x \in Clients \ Aboard(c) :
        ClientOK(x)' /\ Key(x)' = Key(x) /\ \A at \in Places : Seen(x, at)' <=> Seen(x, at)
  <2> SUFFICES ASSUME NEW x \in Clients \ Aboard(c)
               PROVE  ClientOK(x)' /\ Key(x)' = Key(x) /\ \A at \in Places : Seen(x, at)' <=> Seen(x, at)
    OBVIOUS
  <2>1. visit'[x] = visit[x] /\ ClientOK(x)
    BY <1>1
  <2> QED BY <2>1, SameClientQuiet DEF Seen
<1>8. EntriesOK' /\ CountOK'
  BY <1>1, <1>3, WithKeeps DEF Key, CountOK, config
<1>9. \A k : k # Key(c) => Leaders(k)' = Leaders(k)
  BY <1>2, <1>6, <1>7 DEF Leaders, Places
<1>10. \A x \in Clients \ Aboard(c) : Seen(x, "waiting") \/ Seen(x, "pulling") => Key(x) # Key(c)
  <2> SUFFICES ASSUME NEW x \in Clients, Key(x) = Key(c), Seen(x, "waiting") \/ Seen(x, "pulling") PROVE x \in Aboard(c)
    OBVIOUS
  <2>1. CASE Seen(x, "waiting")
    BY <2>1 DEF Aboard
  <2>2. CASE Seen(x, "pulling")
    <3>1. x \in Leaders(Key(c)) /\ Leaders(Key(c)) = {c}
      BY <1>1, <2>2 DEF WaitersAboard, Leaders
    <3> QED BY <3>1 DEF Aboard
  <2> QED BY <2>1, <2>2
<1>11. WaitersAboard'
  BY <1>1, <1>6, <1>7, <1>9, <1>10 DEF WaitersAboard, Places
<1> QED BY <1>6, <1>7, <1>8, <1>11, GateInvJoin DEF Parts

LEMMA FlightKeeps == ASSUME GateInv, NEW c \in Clients, Land(c) \/ PullFails(c) PROVE GateInv'
<1>1. DOMAIN visit' = Clients /\ Seen(c, "pulling") /\ UNCHANGED <<config, pulls>>
      /\ \A x \in Clients \ Aboard(c) : visit'[x] = visit[x]
  BY DEF Land, PullFails
<1>2. Aboard(c) \subseteq Clients
  BY DEF Aboard
<1>3. CASE Land(c)
  <2>1. cache' \in {cache, With(Key(c), visit[c].own)}
        /\ \A x \in Aboard(c) : visit'[x] = [visit[x] EXCEPT !.at = "done", !.answer = visit[c].own]
    BY <1>2, <1>3 DEF Land
  <2> QED BY <1>1, <2>1, LandingKeeps
<1>4. CASE PullFails(c)
  <2>1. cache' = cache /\ \A x \in Aboard(c) : visit'[x] = NoVisit
    BY <1>2, <1>4 DEF PullFails
  <2> QED BY <1>1, <2>1, LandingKeeps
<1> QED BY <1>3, <1>4

\* Entries go, or the configuration in force changes, and no client notices.
LEMMA AdminKeeps ==
    ASSUME GateInv, UNCHANGED <<boot, visit, pulls>>, cache' = cache \/ \E k : cache' = Without(k)
    PROVE  GateInv'
<1>1. (\A c \in Clients : ClientOK(c)) /\ EntriesOK /\ CountOK /\ WaitersAboard /\ DOMAIN visit = Clients
  BY GateInvSplit DEF Parts
<1>2. EntriesOK'
  BY <1>1, WithoutKeeps DEF EntriesOK
<1>3. \A c \in Clients : ClientOK(c)'
  BY <1>1, SameClient DEF CountOK
<1>4. WaitersAboard'
  BY <1>1 DEF WaitersAboard, Leaders, Seen, Key
<1> QED BY <1>1, <1>2, <1>3, <1>4, GateInvJoin DEF Parts, CountOK

LEMMA RestartKeeps == ASSUME GateInv, NEW g \in Configs, Restart(g) PROVE GateInv'
<1>1. DOMAIN visit' = Clients /\ \A c \in Clients : visit'[c] = NoVisit
  BY DEF Restart
<1>2. \A c \in Clients : ClientOK(c)' /\ ~Seen(c, "waiting")' /\ ~Seen(c, "pulling")'
  BY <1>1, GoneClient DEF Seen
<1>3. EntriesOK' /\ CountOK'
  BY GateInvSplit DEF Restart, Parts, EntriesOK, CountOK
<1> QED BY <1>1, <1>2, <1>3, GateInvJoin DEF Parts, WaitersAboard

LEMMA StepKeeps == GateInv /\ [GateNext]_gatevars => GateInv'
<1> SUFFICES ASSUME GateInv, [GateNext]_gatevars PROVE GateInv'
  OBVIOUS
<1>1. ASSUME NEW c \in Clients, ServeStep(c) PROVE GateInv'
  BY <1>1, HitKeeps, WaitKeeps, LeadKeeps, FlightKeeps, LeaveKeeps DEF ServeStep
<1>2. ASSUME NEW c \in Clients, NEW q \in Requests, Arrive(c, q) PROVE GateInv'
  BY <1>2, ArriveKeeps
<1>3. ASSUME NEW k \in DOMAIN cache, Drop(k) PROVE GateInv'
  BY <1>3, AdminKeeps DEF Drop, config
<1>4. ASSUME NEW q \in Requests, FlushURL(q) PROVE GateInv'
  BY <1>4, AdminKeeps DEF FlushURL, config
<1>5. ASSUME NEW g \in Configs, Update(g) PROVE GateInv'
  BY <1>5, AdminKeeps DEF Update
<1>6. ASSUME NEW g \in Configs, Restart(g) PROVE GateInv'
  BY <1>6, RestartKeeps
<1>7. CASE UNCHANGED gatevars
  BY <1>7, AdminKeeps DEF gatevars, config
<1> QED BY <1>1, <1>2, <1>3, <1>4, <1>5, <1>6, <1>7 DEF GateNext

LEMMA InitInv == GateInit => GateInv
BY DEF GateInit, GateInv, Shaped, GateTypeOK, WaitersAboard, Seen, NoVisit, Places

LEMMA Invariant == GateSpec => []GateInv
BY InitInv, StepKeeps, PTL DEF GateSpec

-----------------------------------------------------------------------------
\* Every entry stands under its own key through reloads, flushes and restarts, and every answer has the
\* key of its request (router.go 76-147).
THEOREM GateTyped == GateSpec => []GateTypeOK
<1>1. GateInv => GateTypeOK
  BY DEF GateInv
<1> QED BY Invariant, <1>1, PTL

\* However requests of different configurations meet, a key has one flight, and nobody waits without
\* one (router.go 112).
THEOREM EveryWaiterAboard == GateSpec => []WaitersAboard
<1>1. GateInv => WaitersAboard
  BY DEF GateInv
<1> QED BY Invariant, <1>1, PTL

\* No request gets a variant that differs from its own in the domain, the rewritten path, or a parameter
\* or header that both took into account, for any configurations and any reloads (key.go 31-81,
\* router.go 93, 149-160).
THEOREM AnswersAreRightVariants == GateSpec => []RightVariant
<1>1. GateInv => RightVariant
  BY SameKeySameVariant DEF GateInv, GateTypeOK, RightVariant, Key
<1> QED BY Invariant, <1>1, PTL
-----------------------------------------------------------------------------
(* Loops over a list, as recursive functions, and induction over their turns. *)

\* Every set of numbers that is not empty has a least element.
Below == {p \in Nat \X Nat : p[1] < p[2]}
LEMMA LeastElement ==
    ASSUME NEW T \in SUBSET Nat, T # {}
    PROVE  \E x \in T : \A y \in T : x <= y
<1>1. Below = OpToRel(<, Nat)
  BY DEF Below, OpToRel
<1>2. PICK x \in T : \A y \in T : <<y, x>> \notin Below
  BY <1>1, NatLessThanWellFounded, WFMin
<1>3. ASSUME NEW y \in T PROVE x <= y
  <2>1. <<y, x>> \notin Below
    BY <1>2
  <2>2. x \in Nat /\ y \in Nat
    OBVIOUS
  <2>3. ~(y < x)
    BY <2>1, <2>2 DEF Below
  <2> QED BY <2>2, <2>3
<1> QED BY <1>3

\* A set of numbers up to n that has 0, and with each number the next, has all.
LEMMA AllTurns ==
    ASSUME NEW n \in Nat, NEW C, 0 \in C, \A i \in 1 .. n : i - 1 \in C => i \in C
    PROVE  \A i \in 0 .. n : i \in C
<1> DEFINE T == (0 .. n) \ C
<1>1. SUFFICES ASSUME T # {} PROVE FALSE
  OBVIOUS
<1>2. PICK m \in T : \A k \in T : m <= k
  <2>1. T \in SUBSET Nat
    OBVIOUS
  <2> HIDE DEF T
  <2> QED BY <1>1, <2>1, LeastElement
<1>3. m \in 1 .. n /\ m - 1 \in 0 .. n
  OBVIOUS
<1>4. m - 1 \notin T
  BY <1>2, <1>3
<1> QED BY <1>3, <1>4

\* f is what a function holds after each of the first m turns.
Stages(f, sent, ops, m) == f[0] = sent /\ \A i \in 1 .. m : f[i] = StageOp(f[i - 1], ops[i])
Runs(f, sent, plugins, m) == f[0] = sent /\ \A i \in 1 .. m : f[i] = RunPlugin(f[i - 1], plugins[i])

LEMMA StageLoop ==
    ASSUME NEW sent, NEW ops, Len(ops) \in Nat
    PROVE  \E f : Stages(f, sent, ops, Len(ops)) /\ StageOps(sent, ops) = f[Len(ops)]
<1> DEFINE n == Len(ops)
           Body(f) == [i \in 0 .. n |-> IF i = 0 THEN sent ELSE StageOp(f[i - 1], ops[i])]
           C == {m \in 0 .. n : \E f : f = [i \in 0 .. m |-> f[i]] /\ Stages(f, sent, ops, m)}
           after == CHOOSE f : f = Body(f)
<1>1. 0 \in C
  <2> DEFINE f == [i \in 0 .. 0 |-> sent]
  <2>1. f = [i \in 0 .. 0 |-> f[i]] /\ Stages(f, sent, ops, 0)
    BY DEF Stages
  <2> QED BY <2>1
<1>2. ASSUME NEW m \in 1 .. n, m - 1 \in C PROVE m \in C
  <2>1. PICK f : Stages(f, sent, ops, m - 1)
    BY <1>2
  <2> DEFINE g == [i \in 0 .. m |-> IF i = m THEN StageOp(f[m - 1], ops[m]) ELSE f[i]]
  <2>2. g[0] = sent
    BY <2>1 DEF Stages
  <2>3. ASSUME NEW i \in 1 .. m PROVE g[i] = StageOp(g[i - 1], ops[i])
    <3>1. g[i - 1] = f[i - 1]
      OBVIOUS
    <3>2. CASE i = m
      BY <3>1, <3>2
    <3>3. CASE i # m
      BY <2>1, <3>1, <3>3 DEF Stages
    <3> QED BY <3>2, <3>3
  <2>4. g = [i \in 0 .. m |-> g[i]]
    OBVIOUS
  <2>5. Stages(g, sent, ops, m)
    BY <2>2, <2>3 DEF Stages
  <2> HIDE DEF g
  <2> QED BY <2>4, <2>5
<1>3. n \in C
  <2> HIDE DEF C, n
  <2>1. n \in Nat
    BY DEF n
  <2> QED BY <1>1, <1>2, <2>1, AllTurns
<1>4. PICK f : f = [i \in 0 .. n |-> f[i]] /\ Stages(f, sent, ops, n)
  BY <1>3
<1>5. f = Body(f)
  <2>1. ASSUME NEW i \in 0 .. n PROVE f[i] = IF i = 0 THEN sent ELSE StageOp(f[i - 1], ops[i])
    BY <1>4 DEF Stages
  <2> QED BY <1>4, <2>1
<1>6. after = Body(after)
  <2> HIDE DEF Body
  <2> QED BY <1>5
<1>7. Stages(after, sent, ops, n)
  <2> HIDE DEF after
  <2> QED BY <1>6 DEF Stages
<1>8. StageOps(sent, ops) = after[n]
  BY DEF StageOps
<1> HIDE DEF after
<1> QED BY <1>7, <1>8

\* A request before its plugins.
Fresh(request) ==
    [path |-> request.path, query |-> request.query, header |-> request.header, set |-> <<>>, del |-> {}]

LEMMA RunLoop ==
    ASSUME NEW request, NEW plugins, Len(plugins) \in Nat
    PROVE  \E f : Runs(f, Fresh(request), plugins, Len(plugins)) /\ Execute(plugins, request) = f[Len(plugins)]
<1> DEFINE n == Len(plugins)
           Body(f) == [i \in 0 .. n |-> IF i = 0 THEN Fresh(request) ELSE RunPlugin(f[i - 1], plugins[i])]
           C == {m \in 0 .. n : \E f : f = [i \in 0 .. m |-> f[i]] /\ Runs(f, Fresh(request), plugins, m)}
           after == CHOOSE f : f = Body(f)
<1>1. 0 \in C
  <2> DEFINE f == [i \in 0 .. 0 |-> Fresh(request)]
  <2>1. f = [i \in 0 .. 0 |-> f[i]] /\ Runs(f, Fresh(request), plugins, 0)
    BY DEF Runs
  <2> QED BY <2>1
<1>2. ASSUME NEW m \in 1 .. n, m - 1 \in C PROVE m \in C
  <2>1. PICK f : Runs(f, Fresh(request), plugins, m - 1)
    BY <1>2
  <2> DEFINE g == [i \in 0 .. m |-> IF i = m THEN RunPlugin(f[m - 1], plugins[m]) ELSE f[i]]
  <2>2. g[0] = Fresh(request)
    BY <2>1 DEF Runs
  <2>3. ASSUME NEW i \in 1 .. m PROVE g[i] = RunPlugin(g[i - 1], plugins[i])
    <3>1. g[i - 1] = f[i - 1]
      OBVIOUS
    <3>2. CASE i = m
      BY <3>1, <3>2
    <3>3. CASE i # m
      BY <2>1, <3>1, <3>3 DEF Runs
    <3> QED BY <3>2, <3>3
  <2>4. g = [i \in 0 .. m |-> g[i]]
    OBVIOUS
  <2>5. Runs(g, Fresh(request), plugins, m)
    BY <2>2, <2>3 DEF Runs
  <2> HIDE DEF g
  <2> QED BY <2>4, <2>5
<1>3. n \in C
  <2> HIDE DEF C, n
  <2>1. n \in Nat
    BY DEF n
  <2> QED BY <1>1, <1>2, <2>1, AllTurns
<1>4. PICK f : f = [i \in 0 .. n |-> f[i]] /\ Runs(f, Fresh(request), plugins, n)
  BY <1>3
<1>5. f = Body(f)
  <2>1. ASSUME NEW i \in 0 .. n PROVE f[i] = IF i = 0 THEN Fresh(request) ELSE RunPlugin(f[i - 1], plugins[i])
    BY <1>4 DEF Runs
  <2> QED BY <1>4, <2>1
<1>6. after = Body(after)
  <2> HIDE DEF Body
  <2> QED BY <1>5
<1>7. Runs(after, Fresh(request), plugins, n)
  <2> HIDE DEF after
  <2> QED BY <1>6 DEF Runs
<1>8. Execute(plugins, request) = after[n]
  BY DEF Execute, Fresh
<1> HIDE DEF after
<1> QED BY <1>7, <1>8

-----------------------------------------------------------------------------
(* What a plugin, and then a list of them, leaves staged for the response. *)

Fields == {"path", "query", "header", "set", "del"}
Sets(op, n) == op.op # "del" /\ op.key = n
Deletes(op, n) == op.op = "del" /\ op.key = n

\* What the first m of the operations make of what was staged before them.
Adds(before, ops, m, s) ==
    /\ DOMAIN s = Fields /\ s.query = before.query
    /\ \A n : n \in s.del <=> n \in before.del \/ \E i \in 1 .. m : Deletes(ops[i], n)
    /\ \A n : n \in DOMAIN s.set <=> n \in DOMAIN before.set \/ \E i \in 1 .. m : Sets(ops[i], n)
    /\ \A n \in DOMAIN s.set :
          \/ s.set[n] = before.set[n] /\ \A i \in 1 .. m : ~Sets(ops[i], n)
          \/ \E i \in 1 .. m : Sets(ops[i], n) /\ s.set[n] = ops[i].value /\ \A j \in 1 .. m : Sets(ops[j], n) => j <= i

LEMMA OneMore ==
    ASSUME NEW before, NEW ops, NEW m \in Nat, m > 0, NEW s, Adds(before, ops, m - 1, s)
    PROVE  Adds(before, ops, m, StageOp(s, ops[m]))
<1> DEFINE t == StageOp(s, ops[m])
<1>1. DOMAIN s = Fields /\ s.query = before.query
  BY DEF Adds
<1>2. \A P : (\E i \in 1 .. m : i \in P) <=> m \in P \/ \E i \in 1 .. m - 1 : i \in P
  OBVIOUS
<1>3. \A i \in 1 .. m : i = m \/ i \in 1 .. m - 1
  OBVIOUS
<1>4. CASE ops[m].op = "del"
  <2>1. DOMAIN t = Fields /\ t.query = s.query /\ t.set = s.set /\ t.del = s.del \cup {ops[m].key}
    BY <1>1, <1>4 DEF StageOp, Fields
  <2>2. \A n : ~Sets(ops[m], n) /\ (Deletes(ops[m], n) <=> n = ops[m].key)
    BY <1>4 DEF Sets, Deletes
  <2>3. \A n : n \in t.del <=> n \in before.del \/ \E i \in 1 .. m : Deletes(ops[i], n)
    <3>1. ASSUME NEW n PROVE (\E i \in 1 .. m : Deletes(ops[i], n)) <=> n = ops[m].key \/ \E i \in 1 .. m - 1 : Deletes(ops[i], n)
      BY <1>3, <2>2
    <3> HIDE DEF t
    <3> QED BY <2>1, <3>1 DEF Adds
  <2>4. \A n : (\E i \in 1 .. m : Sets(ops[i], n)) <=> \E i \in 1 .. m - 1 : Sets(ops[i], n)
    BY <1>3, <2>2
  <2>5. \A n : n \in DOMAIN t.set <=> n \in DOMAIN before.set \/ \E i \in 1 .. m : Sets(ops[i], n)
    <3> HIDE DEF t
    <3> QED BY <2>1, <2>4 DEF Adds
  <2>6. ASSUME NEW n \in DOMAIN t.set
        PROVE  \/ t.set[n] = before.set[n] /\ \A i \in 1 .. m : ~Sets(ops[i], n)
               \/ \E i \in 1 .. m : Sets(ops[i], n) /\ t.set[n] = ops[i].value /\ \A j \in 1 .. m : Sets(ops[j], n) => j <= i
    <3> HIDE DEF t
    <3>1. CASE s.set[n] = before.set[n] /\ \A i \in 1 .. m - 1 : ~Sets(ops[i], n)
      BY <1>3, <2>1, <2>2, <3>1
    <3>2. ASSUME NEW i \in 1 .. m - 1, Sets(ops[i], n), s.set[n] = ops[i].value, \A j \in 1 .. m - 1 : Sets(ops[j], n) => j <= i
          PROVE  \E k \in 1 .. m : Sets(ops[k], n) /\ t.set[n] = ops[k].value /\ \A j \in 1 .. m : Sets(ops[j], n) => j <= k
      <4>1. i \in 1 .. m /\ \A j \in 1 .. m : Sets(ops[j], n) => j <= i
        BY <1>3, <2>2, <3>2
      <4> QED BY <2>1, <3>2, <4>1
    <3> QED BY <2>1, <3>1, <3>2 DEF Adds
  <2> HIDE DEF t
  <2>7. Adds(before, ops, m, t)
    BY <1>1, <2>1, <2>3, <2>5, <2>6 DEF Adds
  <2> QED BY <2>7 DEF t
<1>5. CASE ops[m].op # "del"
  <2> DEFINE k == ops[m].key
  <2>1. /\ DOMAIN t = Fields /\ t.query = s.query /\ t.del = s.del
        /\ t.set = [n \in DOMAIN s.set \cup {k} |-> IF n = k THEN ops[m].value ELSE s.set[n]]
    BY <1>1, <1>5 DEF StageOp, Fields
  <2>2. \A n : ~Deletes(ops[m], n) /\ (Sets(ops[m], n) <=> n = k)
    BY <1>5 DEF Sets, Deletes
  <2>3. \A n : (\E i \in 1 .. m : Deletes(ops[i], n)) <=> \E i \in 1 .. m - 1 : Deletes(ops[i], n)
    BY <1>3, <2>2
  <2>4. \A n : n \in t.del <=> n \in before.del \/ \E i \in 1 .. m : Deletes(ops[i], n)
    <3> HIDE DEF t
    <3> QED BY <2>1, <2>3 DEF Adds
  <2>5. \A n : n \in DOMAIN t.set <=> n \in DOMAIN before.set \/ \E i \in 1 .. m : Sets(ops[i], n)
    <3>1. ASSUME NEW n PROVE (\E i \in 1 .. m : Sets(ops[i], n)) <=> n = k \/ \E i \in 1 .. m - 1 : Sets(ops[i], n)
      BY <1>3, <2>2
    <3>2. \A n : n \in DOMAIN t.set <=> n \in DOMAIN s.set \/ n = k
      <4> HIDE DEF t
      <4> QED BY <2>1
    <3> HIDE DEF t, k
    <3> QED BY <3>1, <3>2 DEF Adds
  <2>6. ASSUME NEW n \in DOMAIN t.set
        PROVE  \/ t.set[n] = before.set[n] /\ \A i \in 1 .. m : ~Sets(ops[i], n)
               \/ \E i \in 1 .. m : Sets(ops[i], n) /\ t.set[n] = ops[i].value /\ \A j \in 1 .. m : Sets(ops[j], n) => j <= i
    <3> HIDE DEF t
    <3>1. CASE n = k
      <4>1. t.set[n] = ops[m].value /\ Sets(ops[m], n) /\ m \in 1 .. m /\ \A j \in 1 .. m : j <= m
        BY <2>1, <2>2, <3>1
      <4> QED BY <4>1
    <3>2. CASE n # k
      <4>1. t.set[n] = s.set[n] /\ n \in DOMAIN s.set /\ ~Sets(ops[m], n)
        BY <2>1, <2>2, <3>2
      <4> HIDE DEF k
      <4>2. CASE s.set[n] = before.set[n] /\ \A i \in 1 .. m - 1 : ~Sets(ops[i], n)
        BY <1>3, <4>1, <4>2
      <4>3. ASSUME NEW i \in 1 .. m - 1, Sets(ops[i], n), s.set[n] = ops[i].value, \A j \in 1 .. m - 1 : Sets(ops[j], n) => j <= i
            PROVE  \E x \in 1 .. m : Sets(ops[x], n) /\ t.set[n] = ops[x].value /\ \A j \in 1 .. m : Sets(ops[j], n) => j <= x
        <5>1. i \in 1 .. m /\ \A j \in 1 .. m : Sets(ops[j], n) => j <= i
          BY <1>3, <4>1, <4>3
        <5> QED BY <4>1, <4>3, <5>1
      <4> QED BY <4>1, <4>2, <4>3 DEF Adds
    <3> QED BY <3>1, <3>2
  <2> HIDE DEF t
  <2>7. Adds(before, ops, m, t)
    BY <1>1, <2>1, <2>4, <2>5, <2>6 DEF Adds
  <2> QED BY <2>7 DEF t
<1> QED BY <1>4, <1>5

LEMMA StageOpsAdds ==
    ASSUME NEW before, DOMAIN before = Fields, NEW ops, Len(ops) \in Nat
    PROVE  Adds(before, ops, Len(ops), StageOps(before, ops))
<1>1. PICK f : Stages(f, before, ops, Len(ops)) /\ StageOps(before, ops) = f[Len(ops)]
  BY StageLoop
<1> DEFINE n == Len(ops)
           C == {m \in 0 .. n : Adds(before, ops, m, f[m])}
<1>2. 0 \in C
  <2>1. Adds(before, ops, 0, f[0])
    BY <1>1 DEF Adds, Stages
  <2> QED BY <2>1
<1>3. ASSUME NEW m \in 1 .. n, m - 1 \in C PROVE m \in C
  <2>1. f[m] = StageOp(f[m - 1], ops[m]) /\ m \in Nat /\ m > 0
    BY <1>1 DEF Stages
  <2>2. Adds(before, ops, m, StageOp(f[m - 1], ops[m]))
    BY <1>3, <2>1, OneMore
  <2> QED BY <2>1, <2>2
<1>4. n \in C
  <2> HIDE DEF C, n
  <2>1. n \in Nat
    BY DEF n
  <2> QED BY <1>2, <1>3, <2>1, AllTurns
<1> QED BY <1>1, <1>4

\* The operations of the first m plugins.
UpTo(plugins, m) == {p \in ResponseOps(plugins) : p[1] <= m}
OpOf(plugins, p) == plugins[p[1]].response[p[2]]

Leaves(request, plugins, m, s) ==
    /\ DOMAIN s = Fields /\ s.query = request.query
    /\ \A n : n \in s.del <=> \E p \in UpTo(plugins, m) : Deletes(OpOf(plugins, p), n)
    /\ \A n : n \in DOMAIN s.set <=> \E p \in UpTo(plugins, m) : Sets(OpOf(plugins, p), n)
    /\ \A n \in DOMAIN s.set : \E p \in UpTo(plugins, m) :
          /\ Sets(OpOf(plugins, p), n) /\ s.set[n] = OpOf(plugins, p).value
          /\ \A q \in UpTo(plugins, m) : Sets(OpOf(plugins, q), n) => NoLater(q, p)

PluginsOK(plugins) ==
    List(plugins) /\ \A i \in DOMAIN plugins : plugins[i].type = "header" => List(plugins[i].response)

LEMMA ListHas == ASSUME NEW s, List(s) PROVE Len(s) \in Nat /\ DOMAIN s = 1 .. Len(s)
BY DEF List

\* The operations of one plugin more: none, or those of its section, if all of them are understood.
LEMMA UpToNext ==
    ASSUME NEW plugins, PluginsOK(plugins), NEW m \in 1 .. Len(plugins)
    PROVE  /\ plugins[m].type # "header" => UpTo(plugins, m) = UpTo(plugins, m - 1)
           /\ plugins[m].type = "header" =>
                 LET ops == ParseOps(plugins[m].response) IN
                 /\ Len(ops) \in Nat
                 /\ \A j \in 1 .. Len(ops) : OpOf(plugins, <<m, j>>) = ops[j]
                 /\ UpTo(plugins, m) = UpTo(plugins, m - 1) \cup {<<m, j>> : j \in 1 .. Len(ops)}
<1>1. Len(plugins) \in Nat /\ DOMAIN plugins = 1 .. Len(plugins)
  BY ListHas DEF PluginsOK
<1>2. \A p \in ResponseOps(plugins) : p = <<p[1], p[2]>> /\ p[1] \in 1 .. Len(plugins)
  BY <1>1 DEF ResponseOps
<1>3. \A i, j : <<i, j>> \in ResponseOps(plugins) <=>
        /\ i \in 1 .. Len(plugins) /\ plugins[i].type = "header" /\ j \in DOMAIN plugins[i].response
        /\ ParseOps(plugins[i].response) # <<>>
  BY <1>1 DEF ResponseOps
<1>4. \A p : p \in UpTo(plugins, m) <=> p \in UpTo(plugins, m - 1) \/ (p \in ResponseOps(plugins) /\ p[1] = m)
  BY <1>1, <1>2 DEF UpTo
<1>5. CASE plugins[m].type # "header"
  <2>1. \A p \in ResponseOps(plugins) : p[1] # m
    BY <1>2, <1>3, <1>5
  <2> QED BY <1>4, <1>5, <2>1
<1>6. CASE plugins[m].type = "header"
  <2> DEFINE all == plugins[m].response
             ops == ParseOps(all)
  <2>1. Len(all) \in Nat /\ DOMAIN all = 1 .. Len(all)
    BY <1>1, <1>6, ListHas DEF PluginsOK
  <2>2. ops = all \/ ops = <<>>
    BY DEF ParseOps
  <2>3. Len(ops) \in Nat /\ DOMAIN ops = 1 .. Len(ops) /\ (ops = <<>> <=> 1 .. Len(ops) = {})
    <3>1. CASE ops = <<>>
      BY <3>1
    <3>2. CASE ops = all /\ ops # <<>>
      <4>1. 1 .. Len(all) # {}
        <5> SUFFICES ASSUME 1 .. Len(all) = {} PROVE FALSE
          OBVIOUS
        <5>1. Len(all) = 0
          BY <2>1
        <5>2. all = <<>>
          BY <1>1, <1>6, <5>1 DEF PluginsOK, List
        <5> QED BY <3>2, <5>2
      <4> HIDE DEF ops
      <4> QED BY <2>1, <3>2, <4>1
    <3> QED BY <2>2, <3>1, <3>2
  <2>4. ASSUME NEW j \in 1 .. Len(ops) PROVE OpOf(plugins, <<m, j>>) = ops[j]
    <3> HIDE DEF ops
    <3>1. ops = all
      BY <2>2, <2>3
    <3> QED BY <3>1 DEF OpOf
  <2>5. \A j : <<m, j>> \in ResponseOps(plugins) <=> j \in 1 .. Len(ops)
    <3>1. \A j : <<m, j>> \in ResponseOps(plugins) <=> j \in DOMAIN all /\ ops # <<>>
      BY <1>3, <1>6
    <3> HIDE DEF ops, all
    <3> QED BY <3>1, <2>2, <2>3
  <2> HIDE DEF ops
  <2>6. \A p : p \in ResponseOps(plugins) /\ p[1] = m <=> p \in {<<m, j>> : j \in 1 .. Len(ops)}
    <3>1. ASSUME NEW p \in ResponseOps(plugins), p[1] = m PROVE p \in {<<m, j>> : j \in 1 .. Len(ops)}
      <4>1. p = <<m, p[2]>>
        BY <1>2, <3>1
      <4>2. p[2] \in 1 .. Len(ops)
        BY <2>5, <4>1
      <4> QED BY <4>1, <4>2
    <3>2. ASSUME NEW j \in 1 .. Len(ops) PROVE <<m, j>> \in ResponseOps(plugins) /\ <<m, j>>[1] = m
      BY <2>5
    <3> QED BY <3>1, <3>2
  <2>7. UpTo(plugins, m) = UpTo(plugins, m - 1) \cup {<<m, j>> : j \in 1 .. Len(ops)}
    BY <1>4, <2>6
  <2> QED BY <1>6, <2>3, <2>4, <2>7 DEF ops
<1> QED BY <1>5, <1>6

LEMMA PluginLeaves ==
    ASSUME NEW plugins, PluginsOK(plugins), NEW request, NEW m \in 1 .. Len(plugins), NEW s,
           Leaves(request, plugins, m - 1, s)
    PROVE  Leaves(request, plugins, m, RunPlugin(s, plugins[m]))
<1> DEFINE t == RunPlugin(s, plugins[m])
           U == UpTo(plugins, m - 1)
           V == UpTo(plugins, m)
<1>1. DOMAIN s = Fields /\ s.query = request.query
  BY DEF Leaves
<1>2. CASE plugins[m].type # "header"
  <2>1. DOMAIN t = Fields /\ t.query = s.query /\ t.set = s.set /\ t.del = s.del
    <3>1. CASE plugins[m].type = "url_rewrite"
      BY <1>1, <3>1 DEF RunPlugin, Rewrite, Fields
    <3>2. CASE plugins[m].type # "url_rewrite"
      <4>1. t = s
        BY <1>2, <3>2 DEF RunPlugin
      <4> QED BY <1>1, <4>1
    <3> QED BY <3>1, <3>2
  <2>2. V = U
    BY <1>2, UpToNext
  <2> HIDE DEF t
  <2>3. Leaves(request, plugins, m, t)
    BY <2>1, <2>2 DEF Leaves
  <2> QED BY <2>3 DEF t
<1>3. CASE plugins[m].type = "header"
  <2> DEFINE ops == ParseOps(plugins[m].response)
             before == [s EXCEPT !.header = ApplyOps(@, ParseOps(plugins[m].request))]
             O(p) == OpOf(plugins, p)
  <2>1. DOMAIN before = Fields /\ before.query = s.query /\ before.set = s.set /\ before.del = s.del
    BY <1>1 DEF Fields
  <2>2. t = StageOps(before, ops)
    BY <1>3 DEF RunPlugin, Headers
  <2>3. /\ Len(ops) \in Nat
        /\ \A j \in 1 .. Len(ops) : O(<<m, j>>) = ops[j]
        /\ V = U \cup {<<m, j>> : j \in 1 .. Len(ops)}
    BY <1>3, UpToNext
  <2> HIDE DEF before, ops, t
  <2>4. Adds(before, ops, Len(ops), t)
    BY <2>1, <2>2, <2>3, StageOpsAdds
  <2>5. \A p \in U : p[1] < m /\ p[1] \in Int
    <3>1. DOMAIN plugins = 1 .. Len(plugins) /\ Len(plugins) \in Nat
      BY ListHas DEF PluginsOK
    <3> QED BY <3>1 DEF UpTo, ResponseOps
  <2>6. \A p \in V : p \in U \/ \E j \in 1 .. Len(ops) : p = <<m, j>>
    BY <2>3
  <2>7. \A n : n \in t.del <=> \E p \in V : Deletes(O(p), n)
    <3> SUFFICES ASSUME NEW n PROVE n \in t.del <=> \E p \in V : Deletes(O(p), n)
      OBVIOUS
    <3>1. n \in t.del <=> n \in s.del \/ \E i \in 1 .. Len(ops) : Deletes(ops[i], n)
      BY <2>1, <2>4 DEF Adds
    <3>2. n \in s.del <=> \E p \in U : Deletes(O(p), n)
      BY DEF Leaves
    <3>3. (\E p \in V : Deletes(O(p), n)) <=> (\E p \in U : Deletes(O(p), n)) \/ \E i \in 1 .. Len(ops) : Deletes(ops[i], n)
      <4> HIDE DEF U, V, O
      <4> QED BY <2>3
    <3> QED BY <3>1, <3>2, <3>3
  <2>8. \A n : (\E p \in V : Sets(O(p), n)) <=> (\E p \in U : Sets(O(p), n)) \/ \E i \in 1 .. Len(ops) : Sets(ops[i], n)
    <3> HIDE DEF U, V, O
    <3> QED BY <2>3
  <2>9. \A n : n \in DOMAIN t.set <=> \E p \in V : Sets(O(p), n)
    <3> SUFFICES ASSUME NEW n PROVE n \in DOMAIN t.set <=> \E p \in V : Sets(O(p), n)
      OBVIOUS
    <3>1. n \in DOMAIN t.set <=> n \in DOMAIN s.set \/ \E i \in 1 .. Len(ops) : Sets(ops[i], n)
      BY <2>1, <2>4 DEF Adds
    <3>2. n \in DOMAIN s.set <=> \E p \in U : Sets(O(p), n)
      BY DEF Leaves
    <3> QED BY <2>8, <3>1, <3>2
  <2>10. ASSUME NEW n \in DOMAIN t.set
         PROVE  \E p \in V : Sets(O(p), n) /\ t.set[n] = O(p).value /\ \A q \in V : Sets(O(q), n) => NoLater(q, p)
    <3>1. CASE t.set[n] = before.set[n] /\ \A i \in 1 .. Len(ops) : ~Sets(ops[i], n)
      <4>1. n \in DOMAIN s.set
        BY <2>1, <2>4, <3>1 DEF Adds
      <4>2. PICK p \in U : Sets(O(p), n) /\ s.set[n] = O(p).value /\ \A q \in U : Sets(O(q), n) => NoLater(q, p)
        BY <4>1 DEF Leaves
      <4> HIDE DEF U, V, O
      <4>3. \A q \in V : Sets(O(q), n) => q \in U
        BY <2>3, <2>6, <3>1
      <4>4. p \in V /\ t.set[n] = O(p).value
        BY <2>1, <2>3, <3>1, <4>2
      <4> QED BY <4>2, <4>3, <4>4
    <3>2. ASSUME NEW i \in 1 .. Len(ops), Sets(ops[i], n), t.set[n] = ops[i].value,
                 \A j \in 1 .. Len(ops) : Sets(ops[j], n) => j <= i
          PROVE  \E p \in V : Sets(O(p), n) /\ t.set[n] = O(p).value /\ \A q \in V : Sets(O(q), n) => NoLater(q, p)
      <4> HIDE DEF U, V, O
      <4>1. <<m, i>> \in V /\ O(<<m, i>>) = ops[i]
        BY <2>3
      <4>2. ASSUME NEW q \in V, Sets(O(q), n) PROVE NoLater(q, <<m, i>>)
        <5>1. CASE q \in U
          BY <2>5, <5>1 DEF NoLater
        <5>2. ASSUME NEW j \in 1 .. Len(ops), q = <<m, j>> PROVE NoLater(q, <<m, i>>)
          <6>1. j <= i
            BY <2>3, <3>2, <4>2, <5>2
          <6> QED BY <5>2, <6>1 DEF NoLater
        <5> QED BY <2>6, <5>1, <5>2
      <4> QED BY <3>2, <4>1, <4>2
    <3> QED BY <2>4, <3>1, <3>2 DEF Adds
  <2>11. Leaves(request, plugins, m, t)
    BY <1>1, <2>1, <2>4, <2>7, <2>9, <2>10 DEF Leaves, Adds
  <2> QED BY <2>11 DEF t
<1> QED BY <1>2, <1>3

\* What the plugins of a domain leave of a request: its query, and staged what the last of their operations on
\* each name says.
LEMMA ExecuteLeaves ==
    ASSUME NEW plugins, PluginsOK(plugins), NEW request
    PROVE  Leaves(request, plugins, Len(plugins), Execute(plugins, request))
<1>1. Len(plugins) \in Nat
  BY ListHas DEF PluginsOK
<1>2. PICK f : Runs(f, Fresh(request), plugins, Len(plugins)) /\ Execute(plugins, request) = f[Len(plugins)]
  BY <1>1, RunLoop
<1> DEFINE n == Len(plugins)
           C == {m \in 0 .. n : Leaves(request, plugins, m, f[m])}
<1>3. 0 \in C
  <2>1. f[0] = Fresh(request)
    BY <1>2 DEF Runs
  <2>2. UpTo(plugins, 0) = {}
    <3>1. DOMAIN plugins = 1 .. Len(plugins)
      BY ListHas DEF PluginsOK
    <3> QED BY <1>1, <3>1 DEF UpTo, ResponseOps
  <2>3. Leaves(request, plugins, 0, Fresh(request))
    BY <2>2 DEF Leaves, Fresh, Fields
  <2> QED BY <1>1, <2>1, <2>3
<1>4. ASSUME NEW m \in 1 .. n, m - 1 \in C PROVE m \in C
  <2>1. f[m] = RunPlugin(f[m - 1], plugins[m]) /\ m \in 0 .. n
    BY <1>1, <1>2 DEF Runs
  <2>2. Leaves(request, plugins, m, RunPlugin(f[m - 1], plugins[m]))
    BY <1>4, PluginLeaves
  <2> QED BY <2>1, <2>2
<1>5. n \in C
  <2> HIDE DEF C, n
  <2>1. n \in Nat
    BY <1>1 DEF n
  <2> QED BY <1>3, <1>4, <2>1, AllTurns
<1> QED BY <1>2, <1>5

-----------------------------------------------------------------------------
(* What a step of a Gateway may do to one request, and to the cache. *)

Begins(x) ==
    /\ Seen(x, "idle")
    /\ \E q \in Requests : q.domain \in DOMAIN table /\
          visit'[x] = [at |-> "asking", request |-> q, answer |-> None,
                       own |-> [domain |-> q.domain, sent |-> Execute(table[q.domain].plugins, q),
                                rules |-> RulesOf(table, q.domain), no |-> 0]]
GoesOn(x) ==
    /\ ~Seen(x, "idle") /\ ~Seen(x, "idle")' /\ visit'[x].request = visit[x].request
    /\ visit'[x].own.domain = visit[x].own.domain /\ visit'[x].own.sent = visit[x].own.sent
    /\ visit'[x].own.rules = visit[x].own.rules
    /\ Seen(x, "pulling")' => visit'[x].own.no = pulls + 1
    /\ Seen(x, "done")' =>
          \/ Key(x) \in DOMAIN cache /\ visit'[x].answer = cache[Key(x)]
          \/ \E y \in Clients : Seen(y, "pulling") /\ Key(y) = Key(x) /\ visit'[x].answer = visit[y].own
Moved(x) == visit'[x] = visit[x] \/ visit'[x] = NoVisit \/ Begins(x) \/ GoesOn(x)

CacheMoved ==
    \A k \in DOMAIN cache' :
        \/ k \in DOMAIN cache /\ cache'[k] = cache[k]
        \/ \E y \in Clients : Seen(y, "pulling") /\ Key(y) = k /\ cache'[k] = visit[y].own
TableOK == \E g \in Configs : table = g.domains
Stepped ==
    /\ boot' = boot /\ CacheMoved /\ pulls' \in {pulls, pulls + 1} /\ (TableOK => TableOK')
    /\ \A x \in Clients : Moved(x)
Restarted == cache' = <<>> /\ pulls' = pulls /\ TableOK' /\ \A x \in Clients : visit'[x] = NoVisit

LEMMA ServeMoves == ASSUME GateInv, NEW c \in Clients, ServeStep(c) PROVE Stepped
<1>1. DOMAIN visit = Clients /\ CountOK /\ \A x \in Clients : ClientOK(x)
  BY GateInvSplit DEF Parts
<1>2. CASE Hit(c)
  <2>1. /\ visit'[c] = [visit[c] EXCEPT !.at = "done", !.answer = cache[Key(c)]] /\ Key(c) \in DOMAIN cache
        /\ Seen(c, "asking") /\ \A x \in Clients \ {c} : visit'[x] = visit[x]
        /\ boot' = boot /\ table' = table /\ cache' = cache /\ pulls' = pulls
    BY <1>1, <1>2 DEF Hit, config
  <2>2. GoesOn(c)
    BY <1>1, <2>1 DEF GoesOn, Seen, ClientOK
  <2> QED BY <2>1, <2>2 DEF Stepped, Moved, CacheMoved, TableOK
<1>3. CASE Wait(c)
  <2>1. /\ visit'[c] = [visit[c] EXCEPT !.at = "waiting"]
        /\ Seen(c, "asking") /\ \A x \in Clients \ {c} : visit'[x] = visit[x]
        /\ boot' = boot /\ table' = table /\ cache' = cache /\ pulls' = pulls
    BY <1>1, <1>3 DEF Wait, config
  <2>2. GoesOn(c)
    BY <1>1, <2>1 DEF GoesOn, Seen, ClientOK
  <2> QED BY <2>1, <2>2 DEF Stepped, Moved, CacheMoved, TableOK
<1>4. CASE Lead(c)
  <2>1. /\ visit'[c] = [visit[c] EXCEPT !.at = "pulling", !.own = [visit[c].own EXCEPT !.no = pulls']]
        /\ Seen(c, "asking") /\ \A x \in Clients \ {c} : visit'[x] = visit[x]
        /\ boot' = boot /\ table' = table /\ cache' = cache /\ pulls' = pulls + 1
    BY <1>1, <1>4 DEF Lead, config, ClientOK
  <2>2. GoesOn(c)
    <3>1. /\ visit'[c].at = "pulling" /\ visit'[c].own = [visit[c].own EXCEPT !.no = pulls + 1]
          /\ visit'[c].request = visit[c].request /\ DOMAIN visit[c].own = {"domain", "sent", "rules", "no"}
      BY <1>1, <2>1 DEF Seen, ClientOK
    <3> QED BY <2>1, <3>1 DEF GoesOn, Seen
  <2> QED BY <2>1, <2>2 DEF Stepped, Moved, CacheMoved, TableOK
<1>5. CASE Land(c)
  <2>1. /\ Seen(c, "pulling") /\ cache' \in {cache, With(Key(c), visit[c].own)}
        /\ \A x \in Clients \ Aboard(c) : visit'[x] = visit[x]
        /\ \A x \in Aboard(c) : visit'[x] = [visit[x] EXCEPT !.at = "done", !.answer = visit[c].own]
        /\ boot' = boot /\ table' = table /\ pulls' = pulls /\ Aboard(c) \subseteq Clients
    BY <1>5 DEF Land, config, Aboard
  <2>2. ASSUME NEW x \in Aboard(c) PROVE GoesOn(x)
    <3>1. x \in Clients /\ Key(x) = Key(c) /\ ~Seen(x, "idle") /\ ClientOK(x)
      BY <1>1, <2>1 DEF Aboard, Seen
    <3>2. /\ visit'[x].at = "done" /\ visit'[x].own = visit[x].own /\ visit'[x].answer = visit[c].own
          /\ visit'[x].request = visit[x].request
      BY <2>1, <3>1 DEF ClientOK
    <3> QED BY <2>1, <3>1, <3>2 DEF GoesOn, Seen
  <2>3. CacheMoved
    <3>1. CASE cache' = cache
      BY <3>1 DEF CacheMoved
    <3>2. CASE cache' = [x \in DOMAIN cache \cup {Key(c)} |-> IF x = Key(c) THEN visit[c].own ELSE cache[x]]
      BY <2>1, <3>2 DEF CacheMoved
    <3> QED BY <2>1, <3>1, <3>2 DEF With
  <2> QED BY <2>1, <2>2, <2>3 DEF Stepped, Moved, TableOK
<1>6. CASE PullFails(c)
  BY <1>6 DEF PullFails, Stepped, Moved, CacheMoved, TableOK, config
<1>7. CASE Leave(c)
  BY <1>1, <1>7 DEF Leave, Stepped, Moved, CacheMoved, TableOK, config
<1> QED BY <1>2, <1>3, <1>4, <1>5, <1>6, <1>7 DEF ServeStep

LEMMA GateSteps == ASSUME GateInv, GateNext PROVE Stepped \/ Restarted
<1>1. DOMAIN visit = Clients
  BY GateInvSplit DEF Parts
<1>2. ASSUME NEW c \in Clients, NEW q \in Requests, Arrive(c, q) PROVE Stepped
  <2>1. /\ \A x \in Clients \ {c} : visit'[x] = visit[x]
        /\ Begins(c) /\ boot' = boot /\ table' = table /\ cache' = cache /\ pulls' = pulls
    BY <1>1, <1>2 DEF Arrive, Begins, config
  <2> QED BY <2>1 DEF Stepped, Moved, CacheMoved, TableOK
<1>3. ASSUME NEW k, cache' = Without(k), UNCHANGED <<config, visit, pulls>> PROVE Stepped
  BY <1>3 DEF Stepped, Moved, CacheMoved, Without, TableOK, config
<1>4. ASSUME NEW g \in Configs, Update(g) PROVE Stepped
  BY <1>4 DEF Update, Stepped, Moved, CacheMoved, TableOK
<1>5. ASSUME NEW g \in Configs, Restart(g) PROVE Restarted
  BY <1>5 DEF Restart, Restarted, TableOK
<1> QED BY <1>2, <1>3, <1>4, <1>5, ServeMoves DEF GateNext, Drop, FlushURL

-----------------------------------------------------------------------------
\* What a request took as it arrived is what its plugins then made of it.
TookOK(c) ==
    ~Seen(c, "idle") =>
        /\ PluginsOK(took[c]) /\ visit[c].own.sent = Execute(took[c], visit[c].request)
        /\ visit[c].own.domain = visit[c].request.domain

\* From a flush of the URL that found no flight of its key on, the cache and the flights have of that key only
\* what was pulled after the flush.
HasKey(c) == Key(c) = AdminKey(url)
SinceOK(c) ==
    /\ since[c] \in 0 .. flushed
    /\ since[c] > 0 => ~Seen(c, "idle") /\ visit[c].request = url
    /\ Seen(c, "pulling") /\ HasKey(c) => visit[c].own.no > flushed
    /\ Seen(c, "done") /\ HasKey(c) => visit[c].answer.no > since[c]
StoredOK == AdminKey(url) \in DOMAIN cache => cache[AdminKey(url)].no > flushed

HistInv ==
    /\ GateInv /\ TableOK /\ flushed \in 0 .. pulls /\ StoredOK
    /\ url \in Requests /\ url.header = Bare(url).header
    /\ \A c \in Clients : TookOK(c) /\ SinceOK(c)

LEMMA TablesArePlugins == ASSUME TableOK, NEW d \in DOMAIN table PROVE PluginsOK(table[d].plugins)
BY ConfigsAssumption DEF TableOK, PluginsOK

HistNext == Run /\ Track /\ TrackPlugins /\ UNCHANGED url

LEMMA TookKeeps == ASSUME HistInv, HistNext, Stepped, NEW c \in Clients PROVE TookOK(c)'
<1>1. TookOK(c) /\ Moved(c) /\ (Seen(c, "idle") => visit[c] = NoVisit)
  BY DEF HistInv, Stepped, GateInv, GateTypeOK
<1>2. CASE visit'[c] = visit[c] \/ GoesOn(c)
  <2>1. CASE Seen(c, "idle")
    BY <1>2, <2>1 DEF GoesOn, TookOK, Seen
  <2>2. CASE ~Seen(c, "idle")
    <3>1. took'[c] = took[c] /\ visit'[c].own.sent = visit[c].own.sent /\ visit'[c].request = visit[c].request
          /\ visit'[c].own.domain = visit[c].own.domain
      BY <1>2, <2>2 DEF HistNext, TrackPlugins, GoesOn, Seen
    <3> QED BY <1>1, <2>2, <3>1 DEF TookOK
  <2> QED BY <2>1, <2>2
<1>3. CASE visit'[c] = NoVisit
  BY <1>3 DEF TookOK, Seen, NoVisit
<1>4. CASE Begins(c)
  <2>1. PICK q \in Requests : q.domain \in DOMAIN table /\
          visit'[c] = [at |-> "asking", request |-> q, answer |-> None,
                       own |-> [domain |-> q.domain, sent |-> Execute(table[q.domain].plugins, q),
                                rules |-> RulesOf(table, q.domain), no |-> 0]]
    BY <1>4 DEF Begins
  <2>2. took'[c] = table[q.domain].plugins
    BY <1>4, <2>1 DEF HistNext, TrackPlugins, Begins, Seen
  <2>3. PluginsOK(table[q.domain].plugins)
    BY <2>1, TablesArePlugins DEF HistInv
  <2> QED BY <2>1, <2>2, <2>3 DEF TookOK
<1> QED BY <1>1, <1>2, <1>3, <1>4 DEF Moved

LEMMA FlushedKeeps ==
    ASSUME HistInv, HistNext, Stepped
    PROVE  /\ flushed' \in 0 .. pulls' /\ flushed <= flushed' /\ flushed' <= pulls /\ StoredOK'
           /\ \A y \in Clients : Seen(y, "pulling") /\ HasKey(y) => visit[y].own.no > flushed'
           /\ AdminKey(url)' = AdminKey(url)
<1>1. pulls \in Nat /\ flushed \in 0 .. pulls /\ pulls' \in {pulls, pulls + 1} /\ boot' = boot /\ url' = url
  BY DEF HistInv, GateInv, GateTypeOK, Stepped, HistNext
<1>2. AdminKey(url)' = AdminKey(url)
  BY <1>1 DEF AdminKey, RulesOf
<1>3. \A y \in Clients : Seen(y, "pulling") /\ HasKey(y) => visit[y].own.no > flushed
  BY DEF HistInv, SinceOK
<1>4. CASE flushed' = flushed
  <2>1. StoredOK'
    BY <1>2, <1>3, <1>4 DEF HistInv, StoredOK, Stepped, CacheMoved, HasKey
  <2> QED BY <1>1, <1>2, <1>3, <1>4, <2>1
<1>5. CASE flushed' # flushed
  <2>1. flushed' = pulls /\ Leaders(AdminKey(url)) = {} /\ cache' = Without(AdminKey(url))
    BY <1>5 DEF HistNext, Run, FlushURL
  <2>2. \A y \in Clients : ~(Seen(y, "pulling") /\ HasKey(y))
    BY <2>1 DEF Leaders, HasKey
  <2>3. StoredOK'
    BY <1>2, <2>1 DEF StoredOK, Without
  <2> QED BY <1>1, <1>2, <2>1, <2>2, <2>3
<1> QED BY <1>4, <1>5

LEMMA SinceKeeps == ASSUME HistInv, HistNext, Stepped, NEW c \in Clients PROVE SinceOK(c)'
<1>1. /\ flushed \in Nat /\ pulls \in Nat /\ flushed' \in Nat /\ flushed <= flushed' /\ flushed' <= pulls
      /\ SinceOK(c) /\ Moved(c) /\ ClientOK(c) /\ EntriesOK /\ StoredOK /\ (\A y \in Clients : ClientOK(y) /\ SinceOK(y))
      /\ AdminKey(url)' = AdminKey(url) /\ url' = url
  BY FlushedKeeps, GateInvSplit DEF HistInv, GateInv, GateTypeOK, Stepped, HistNext, Parts
<1>2. \A y \in Clients : Seen(y, "pulling") /\ HasKey(y) => visit[y].own.no > flushed'
  BY FlushedKeeps
<1>3. CASE visit'[c] = visit[c]
  <2>1. since'[c] = since[c] \/ (since'[c] = 0 /\ Seen(c, "idle"))
    BY <1>3 DEF HistNext, Track, Seen
  <2>2. HasKey(c)' <=> HasKey(c)
    BY <1>1, <1>3 DEF HasKey, Key
  <2>3. \A at : Seen(c, at)' <=> Seen(c, at)
    BY <1>3 DEF Seen
  <2>4. since'[c] \in 0 .. flushed' /\ (since'[c] > 0 => since'[c] = since[c])
    BY <1>1, <2>1 DEF SinceOK
  <2>5. Seen(c, "done") => since'[c] = since[c]
    BY <2>1 DEF Seen
  <2> QED BY <1>1, <1>2, <1>3, <2>2, <2>3, <2>4, <2>5 DEF SinceOK
<1>4. CASE visit'[c] = NoVisit
  <2>1. since'[c] = 0 /\ visit'[c].at = "idle"
    BY <1>4 DEF HistNext, Track, NoVisit
  <2> QED BY <1>1, <2>1 DEF SinceOK, Seen
<1>5. CASE Begins(c)
  <2>1. visit[c].at = "idle" /\ visit'[c].at = "asking"
    BY <1>5 DEF Begins, Seen
  <2>2. since'[c] = IF visit'[c].request = url THEN flushed ELSE 0
    <3>1. since'[c] = IF visit'[c].request = url' THEN flushed ELSE 0
      BY <1>1, <2>1 DEF HistNext, Track
    <3> QED BY <1>1, <3>1
  <2>3. since'[c] \in 0 .. flushed' /\ (since'[c] > 0 => visit'[c].request = url')
    BY <1>1, <2>2
  <2> QED BY <2>1, <2>3 DEF SinceOK, Seen
<1>6. CASE GoesOn(c)
  <2>1. since'[c] = since[c] /\ ~Seen(c, "idle") /\ ~Seen(c, "idle")' /\ visit'[c].request = visit[c].request
    BY <1>6 DEF HistNext, Track, GoesOn, Seen
  <2>2. HasKey(c)' <=> HasKey(c)
    BY <1>1, <1>6 DEF HasKey, Key, KeyOf, GoesOn
  <2>3. Seen(c, "pulling")' => visit'[c].own.no > flushed'
    BY <1>1, <1>6 DEF GoesOn
  <2>4. ASSUME Seen(c, "done")', HasKey(c) PROVE visit'[c].answer.no > since[c]
    <3>1. since[c] \in Nat /\ since[c] <= flushed
      BY <1>1 DEF SinceOK
    <3>2. CASE Key(c) \in DOMAIN cache /\ visit'[c].answer = cache[Key(c)]
      <4>1. cache[Key(c)].no > flushed /\ cache[Key(c)].no \in Nat
        BY <1>1, <2>4, <3>2 DEF StoredOK, HasKey, EntriesOK
      <4> QED BY <1>1, <3>1, <3>2, <4>1
    <3>3. ASSUME NEW y \in Clients, Seen(y, "pulling"), Key(y) = Key(c), visit'[c].answer = visit[y].own
          PROVE  visit'[c].answer.no > since[c]
      <4>1. visit[y].own.no > flushed /\ visit[y].own.no \in Nat
        BY <1>1, <2>4, <3>3 DEF SinceOK, HasKey, ClientOK
      <4> QED BY <1>1, <3>1, <3>3, <4>1
    <3> QED BY <1>6, <2>4, <3>2, <3>3 DEF GoesOn
  <2> QED BY <1>1, <2>1, <2>2, <2>3, <2>4 DEF SinceOK
<1> QED BY <1>1, <1>3, <1>4, <1>5, <1>6 DEF Moved

LEMMA HistStepKeeps == HistInv /\ [HistNext]_<<gatevars, url, flushed, since, took>> => HistInv'
<1> SUFFICES ASSUME HistInv, [HistNext]_<<gatevars, url, flushed, since, took>> PROVE HistInv'
  OBVIOUS
<1>1. CASE HistNext
  <2>1. GateNext /\ url' = url /\ Bare(url)' = Bare(url)
    BY <1>1 DEF HistNext, Run, GateNext, HistInv, Bare
  <2>2. GateInv'
    BY <2>1, StepKeeps DEF HistInv
  <2>3. CASE Stepped
    <3>1. TableOK' /\ flushed' \in 0 .. pulls' /\ StoredOK'
      BY <1>1, <2>3, FlushedKeeps DEF HistInv, Stepped
    <3> QED BY <1>1, <2>1, <2>2, <2>3, <3>1, TookKeeps, SinceKeeps DEF HistInv
  <2>4. CASE Restarted
    <3>1. \A c \in Clients : visit'[c].at = "idle" /\ since'[c] = 0
      BY <1>1, <2>4 DEF Restarted, NoVisit, HistNext, Track
    <3>2. flushed' \in 0 .. pulls'
      BY <1>1, <2>4 DEF HistNext, Run, Restarted, HistInv, GateInv, GateTypeOK
    <3>3. StoredOK'
      BY <2>4 DEF StoredOK, Restarted
    <3>4. \A c \in Clients : TookOK(c)' /\ SinceOK(c)'
      BY <3>1, <3>2 DEF TookOK, SinceOK, Seen
    <3> QED BY <2>1, <2>2, <2>4, <3>2, <3>3, <3>4 DEF HistInv, Restarted
  <2> QED BY <2>1, <2>3, <2>4, GateSteps DEF HistInv
<1>2. CASE UNCHANGED <<gatevars, url, flushed, since, took>>
  <2>1. UNCHANGED <<boot, table, cache, visit, pulls, url, flushed, since, took>> /\ GateInv'
    BY <1>2, StepKeeps DEF gatevars, config, HistInv
  <2>2. AdminKey(url)' = AdminKey(url)
    BY <2>1 DEF AdminKey, RulesOf
  <2>3. \A c \in Clients : TookOK(c)' /\ SinceOK(c)'
    BY <2>1, <2>2 DEF HistInv, TookOK, SinceOK, Seen, HasKey, Key
  <2>4. StoredOK' /\ TableOK'
    BY <2>1, <2>2 DEF HistInv, StoredOK, TableOK
  <2> QED BY <2>1, <2>3, <2>4 DEF HistInv, Bare
<1> QED BY <1>1, <1>2

LEMMA HistInit_Inv == HistInit => HistInv
<1> SUFFICES ASSUME HistInit PROVE HistInv
  OBVIOUS
<1>1. GateInv /\ \A c \in Clients : visit[c].at = "idle"
  BY InitInv DEF HistInit, GateInit, NoVisit
<1>2. \A c \in Clients : TookOK(c) /\ SinceOK(c)
  BY <1>1 DEF HistInit, TookOK, SinceOK, Seen
<1> QED BY <1>1, <1>2 DEF HistInit, HistInv, GateInit, TableOK, StoredOK

LEMMA HistInvariant == HistSpec => []HistInv
BY HistInit_Inv, HistStepKeeps, PTL DEF HistSpec, HistNext

-----------------------------------------------------------------------------
\* The key that the admin handler makes of a URL is that of a request of it, if that is plain.
LEMMA PlainKey ==
    ASSUME HistInv, NEW c \in Clients, ~Seen(c, "idle"), visit[c].request = url, Plain(visit[c])
    PROVE  HasKey(c)
<1> DEFINE own == visit[c].own
           rules == RulesOf(boot.domains, url.domain)
<1>1. PluginsOK(took[c]) /\ own.sent = Execute(took[c], url) /\ own.domain = url.domain
  BY DEF HistInv, TookOK
<1>2. own.sent.query = url.query
  BY <1>1, ExecuteLeaves DEF Leaves
<1>3. own.rules = rules /\ own.sent.path = url.path /\ \A h \in rules.headers : own.sent.header[h] = <<>>
  BY DEF Plain
<1>4. \A h \in rules.headers : Bare(url).header[h] = <<>>
  <2>1. boot \in Configs /\ url \in Requests
    BY DEF HistInv, GateInv, GateTypeOK
  <2>2. rules \in {boot.global} \cup ({boot.domains[d].rules : d \in DOMAIN boot.domains} \ {None})
    BY DEF RulesOf
  <2>3. rules.headers \subseteq DOMAIN url.header
    BY <2>1, <2>2, NamesAssumption
  <2>4. Bare(url).header = [n \in DOMAIN url.header |-> <<>>]
    BY DEF Bare
  <2> QED BY <2>3, <2>4
<1>5. Listed(own.sent.header, rules.headers) = Listed(Bare(url).header, rules.headers)
  BY <1>3, <1>4 DEF Listed
<1> QED BY <1>1, <1>2, <1>3, <1>5 DEF HasKey, Key, KeyOf, AdminKey, Build, Bare

\* A request of a URL that arrives after a flush of it, with a key that the admin handler can know, gets a body
\* pulled after the flush, whatever is reloaded, evicted, flushed and led by others in between, for any
\* configurations and plugins (admin/handler.go 47-68, router.go 76-147, key.go 31-44).
THEOREM FlushedURLsArePulledAgain == HistSpec => []FlushURLReaches
<1>1. HistInv => FlushURLReaches
  <2> SUFFICES ASSUME HistInv, NEW c \in Clients, Seen(c, "done"), Plain(visit[c]) PROVE visit[c].answer.no > since[c]
    BY DEF FlushURLReaches
  <2>1. SinceOK(c) /\ flushed \in Nat /\ ~Seen(c, "idle") /\ visit[c].answer.no \in Nat /\ visit[c].answer.no > 0
    BY DEF HistInv, GateInv, GateTypeOK, Seen
  <2>2. CASE since[c] = 0
    BY <2>1, <2>2
  <2>3. CASE since[c] # 0
    <3>1. visit[c].request = url
      BY <2>1, <2>3 DEF SinceOK
    <3>2. HasKey(c)
      BY <2>1, <3>1, PlainKey
    <3> QED BY <2>1, <3>2 DEF SinceOK
  <2> QED BY <2>2, <2>3
<1> QED BY HistInvariant, <1>1, PTL

\* Each response has, of every name, what the origin sent or else the last value that the plugins of that very
\* request set and none of them deleted, whoever led the flight, for any plugins (header.go 31-58,
\* pipeline.go 81-117, router.go 120-127).
THEOREM ResponsesHaveTheirOwnHeader == HistSpec => []OwnHeader
<1>1. HistInv => OwnHeader
  <2> SUFFICES ASSUME HistInv PROVE OwnHeader
    OBVIOUS
  <2>1. ASSUME NEW c \in Clients, Seen(c, "done") PROVE HasOwnHeader(c)
    <3> DEFINE plugins == took[c]
               sent == visit[c].own.sent
               R == ResponseOps(plugins)
               At(p) == plugins[p[1]].response[p[2]]
               origin == Sends[visit[c].answer.no]
               On(n) == {p \in R : At(p).key = n}
               Kept(n) == On(n) # {} /\ \A p \in On(n) : At(p).op # "del"
               Names == {n \in {At(p).key : p \in R} : Kept(n)}
    <3>1. PluginsOK(plugins) /\ sent = Execute(plugins, visit[c].request)
      BY <2>1 DEF HistInv, TookOK, Seen
    <3>2. R = UpTo(plugins, Len(plugins))
      <4>1. Len(plugins) \in Nat /\ DOMAIN plugins = 1 .. Len(plugins)
        BY <3>1, ListHas DEF PluginsOK
      <4> QED BY <4>1 DEF UpTo, ResponseOps
    <3>3. Leaves(visit[c].request, plugins, Len(plugins), sent)
      BY <3>1, ExecuteLeaves
    <3>4. \A p : OpOf(plugins, p) = At(p)
      BY DEF OpOf
    <3>5. Response(c) = [n \in DOMAIN origin \cup (DOMAIN sent.set \ sent.del) |->
                           IF n \in DOMAIN origin THEN origin[n] ELSE sent.set[n]]
      BY DEF Response, ResponseHeader
    <3> HIDE DEF plugins, sent, R, At, origin
    <3>6. ASSUME NEW n PROVE n \in Names <=> n \in DOMAIN sent.set \ sent.del
      <4>1. n \in sent.del <=> \E p \in R : At(p).op = "del" /\ At(p).key = n
        BY <3>2, <3>3, <3>4 DEF Leaves, Deletes
      <4>2. n \in DOMAIN sent.set <=> \E p \in R : At(p).op # "del" /\ At(p).key = n
        BY <3>2, <3>3, <3>4 DEF Leaves, Sets
      <4> QED BY <4>1, <4>2
    <3>7. ASSUME NEW n \in Names, n \notin DOMAIN origin
          PROVE  \E p \in On(n) : Response(c)[n] = At(p).value /\ \A q \in On(n) : NoLater(q, p)
      <4>1. n \in DOMAIN sent.set /\ Response(c)[n] = sent.set[n]
        BY <3>5, <3>6, <3>7
      <4>2. PICK p \in R : /\ Sets(At(p), n) /\ sent.set[n] = At(p).value
                           /\ \A q \in R : Sets(At(q), n) => NoLater(q, p)
        BY <3>2, <3>3, <3>4, <4>1 DEF Leaves
      <4>3. p \in On(n) /\ \A q \in On(n) : Sets(At(q), n)
        BY <3>7, <4>2 DEF Sets
      <4>4. \A q \in On(n) : q \in R
        OBVIOUS
      <4> QED BY <4>1, <4>2, <4>3, <4>4
    <3>8. DOMAIN Response(c) = DOMAIN origin \cup Names
      <4> HIDE DEF Names
      <4> QED BY <3>5, <3>6
    <3>9. \A n \in DOMAIN origin : Response(c)[n] = origin[n]
      BY <3>5
    <3> HIDE DEF Names, On
    <3>10. /\ DOMAIN Response(c) = DOMAIN origin \cup Names
           /\ \A n \in DOMAIN origin : Response(c)[n] = origin[n]
           /\ \A n \in Names \ DOMAIN origin :
                 \E p \in On(n) : Response(c)[n] = At(p).value /\ \A q \in On(n) : NoLater(q, p)
      BY <3>7, <3>8, <3>9
    <3> QED BY <3>10 DEF HasOwnHeader, Names, On, At, R, plugins, origin
  <2> QED BY <2>1 DEF OwnHeader
<1> QED BY HistInvariant, <1>1, PTL
=============================================================================
