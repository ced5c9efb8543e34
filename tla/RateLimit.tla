----------------------------- MODULE RateLimit -----------------------------
(***************************************************************************)
(* internal/pipeline/ratelimit/ratelimit.go: the limiters of one domain    *)
(* (domains share nothing) and the goroutine that removes idle ones.       *)
(*                                                                         *)
(* A second is Window units of time, and a token is worth Window, so that  *)
(* a unit of time refills Rate.  The sliding window compares its length    *)
(* with a float: a fractional rate acts as the next whole number, which is *)
(* what Rate stands for.                                                   *)
(***************************************************************************)
EXTENDS Naturals, Sequences

CONSTANTS
    Clients,     \* client addresses
    Modes,       \* "domain", "ip": what the configuration may say, before and after hot reloads
    Algorithms,  \* "sliding_window", "token_bucket"
    Rate, Burst, \* requests per second, and the size of the bucket
    Window,      \* units of time in a second
    Idle,        \* the period of cleanup, and how long an address may be idle
    MaxTime,     \* bound of the clock
    None

Slots == Clients \cup {"domain"}
Config == [mode : Modes, algorithm : Algorithms]

ASSUME ModeAssumption == Modes \subseteq {"domain", "ip"} /\ Algorithms \subseteq {"sliding_window", "token_bucket"}
ASSUME NoneAssumption == None \notin Nat /\ None \notin Config /\ None \notin Seq(Nat) /\ None \notin [tokens : Nat, last : Nat]
ASSUME NumberAssumption == Rate \in Nat /\ Burst \in Nat /\ Window \in Nat \ {0} /\ Idle \in Nat \ {0}
\* A second and five minutes in the code.
ASSUME IdleAssumption == Window <= Idle

VARIABLES
    config,    \* mode and algorithm of the domain's state, None before its first request
    limiter,   \* the limiter of each key, None when there is none
    seen,      \* lastSeen of each key, None when there is none
    due,       \* when the ticker of cleanup fires next, None before the goroutine is started
    cutoff,    \* what cleanup read from the clock before it asked for the mutex, None when it sleeps
    now

limitvars == <<config, limiter, seen, due, cutoff, now>>

LimitInit ==
    /\ config = None
    /\ limiter = [k \in Slots |-> None] /\ seen = [k \in Slots |-> None]
    /\ due = None /\ cutoff = None /\ now = 0

-----------------------------------------------------------------------------
\* The first request of a domain fixes mode and algorithm; a reload that changes them comes too late.
InForce(g) == IF config = None THEN g ELSE config
KeyOf(c, g) == IF InForce(g).mode = "ip" THEN c ELSE "domain"
Sliding(g) == InForce(g).algorithm = "sliding_window"

New(g) == IF Sliding(g) THEN <<>> ELSE [tokens |-> Burst * Window, last |-> now]

\* Allow walks through the timestamps and keeps those after the cutoff, a second before `time`.
Kept(stamps, time) ==
    LET kept[i \in 0 .. Len(stamps)] ==
            IF i = 0 THEN <<>>
            ELSE IF stamps[i] + Window > time THEN Append(kept[i - 1], stamps[i]) ELSE kept[i - 1]
    IN kept[Len(stamps)]

\* Mutant: the window is cut one unit short.
RecentShort(stamps) == Kept(stamps, now + 1)

\* Timestamps outside the window are dropped.
Recent(stamps) == Kept(stamps, now)

\* Mutant: the tokens of a bucket grow without bound.
RefilledUncapped(b) == b.tokens + (now - b.last) * Rate

\* rate.Limiter adds what the time since `last` is worth, up to the burst.
Refilled(b) ==
    LET tokens == b.tokens + (now - b.last) * Rate IN
    IF tokens > Burst * Window THEN Burst * Window ELSE tokens

\* The limiter of k as Allow finds it now, and what it decides.
Current(k, g) ==
    LET l == IF limiter[k] = None THEN New(g) ELSE limiter[k] IN
    IF Sliding(g) THEN Recent(l) ELSE [tokens |-> Refilled(l), last |-> now]
Allowed(l, g) == IF Sliding(g) THEN Len(l) < Rate ELSE l.tokens >= Window
Counted(l, g) == IF Sliding(g) THEN Append(l, now) ELSE [l EXCEPT !.tokens = @ - Window]

\* Every request is seen, and the first one whose configuration says "ip" starts the cleanup.
Record(c, g) ==
    /\ config' = InForce(g)
    /\ seen' = [seen EXCEPT ![KeyOf(c, g)] = now]
    /\ due' = IF g.mode = "ip" /\ due = None THEN now + Idle ELSE due
    /\ UNCHANGED <<cutoff, now>>

Pass(c, g) ==
    LET k == KeyOf(c, g) IN
    /\ Allowed(Current(k, g), g)
    /\ limiter' = [limiter EXCEPT ![k] = Counted(Current(k, g), g)]
    /\ Record(c, g)

\* Mutant: a refused request counts like any other.
RejectCounted(c, g) ==
    LET k == KeyOf(c, g) IN
    /\ ~Allowed(Current(k, g), g)
    /\ limiter' = [limiter EXCEPT ![k] = Counted(Current(k, g), g)]
    /\ Record(c, g)

\* 429: the request leaves no timestamp and takes no token.
Reject(c, g) ==
    LET k == KeyOf(c, g) IN
    /\ ~Allowed(Current(k, g), g)
    /\ limiter' = [limiter EXCEPT ![k] = Current(k, g)]
    /\ Record(c, g)

\* The ticker fires: the cutoff is taken before the mutex.
Wake ==
    /\ due # None /\ cutoff = None /\ now >= due
    /\ cutoff' = now - Idle
    /\ due' = due + Idle
    /\ UNCHANGED <<config, limiter, seen, now>>

Stale(k) == seen[k] # None /\ seen[k] < cutoff
SweepOf(f) == [k \in Slots |-> IF Stale(k) THEN None ELSE f[k]]

\* Mutant: cleanup forgets lastSeen.
SweepHalf == cutoff # None /\ limiter' = SweepOf(limiter) /\ cutoff' = None /\ UNCHANGED <<config, seen, due, now>>

Sweep ==
    /\ cutoff # None /\ cutoff' = None
    /\ limiter' = SweepOf(limiter) /\ seen' = SweepOf(seen)
    /\ UNCHANGED <<config, due, now>>

LimitTick == now < MaxTime /\ now' = now + 1 /\ UNCHANGED <<config, limiter, seen, due, cutoff>>

LimitNext ==
    \/ LimitTick \/ Wake \/ Sweep
    \/ \E c \in Clients : \E g \in Config : Pass(c, g) \/ Reject(c, g)

LimitSpec == LimitInit /\ [][LimitNext]_limitvars

-----------------------------------------------------------------------------
Limiter == IF config # None /\ config.algorithm = "sliding_window" THEN Seq(Nat) ELSE [tokens : Nat, last : Nat]

\* Types of the variables; limiters and lastSeen have the same keys, or cleanup would miss a limiter
\* for ever (ratelimit.go 81-86, 124-129).
LimitTypeOK ==
    /\ config \in Config \cup {None}
    /\ limiter \in [Slots -> Limiter \cup {None}]
    /\ seen \in [Slots -> Nat \cup {None}]
    /\ due \in Nat \cup {None} /\ cutoff \in Nat \cup {None} /\ now \in Nat
    /\ \A k \in Slots : limiter[k] = None <=> seen[k] = None
=============================================================================
