-------------------------- MODULE RateLimitProofs --------------------------
(***************************************************************************)
(* Proofs about RateLimit, and about the histories MCRateLimit keeps       *)
(* beside it.  The loop of Allow is a recursive function: what it returns  *)
(* is proved by induction, which here means to take the least number at    *)
(* which a claim fails (LeastElement).                                     *)
(***************************************************************************)
EXTENDS MCRateLimit, SequenceTheorems, FiniteSetTheorems, WellFoundedInduction, TLAPS

-----------------------------------------------------------------------------
(* The inductive invariants. *)

\* Stamps in the order of time.
Ordered(s) == \A i, j \in 1 .. Len(s) : i <= j => s[i] <= s[j]

\* The clock is ahead of everything that was read from it.
ClockInv ==
    /\ config = None => \A k \in Slots : limiter[k] = None
    /\ \A k \in Slots : seen[k] # None => seen[k] <= now
    /\ cutoff # None => cutoff + Idle <= now
    /\ due # None => Idle <= due
    /\ Is("token_bucket") => \A k \in Slots : limiter[k] # None => limiter[k].last = seen[k]

\* The history is older than lastSeen, and there is none before the first request.
PassedInv ==
    /\ passed \in [Slots -> Seq(Nat)]
    /\ config = None => \A k \in Slots : passed[k] = <<>>
    /\ \A k \in Slots : \A i \in 1 .. Len(passed[k]) :
          passed[k][i] <= now /\ (seen[k] # None => passed[k][i] <= seen[k])

\* Stamps l of a limiter against the history p of its key: l is the end of p, and what is before it is out of
\* the window.
Remembers(p, l, time) ==
    /\ Ordered(l) /\ Len(l) <= Rate /\ Len(l) <= Len(p)
    /\ \A i \in 1 .. Len(l) : p[i + (Len(p) - Len(l))] = l[i]
    /\ \A i \in 1 .. Len(p) - Len(l) : p[i] + Window <= time

Stamps(k) == IF limiter[k] = None THEN <<>> ELSE limiter[k]
SlidingInv == Is("sliding_window") => \A k \in Slots : Remembers(passed[k], Stamps(k), now)

\* WindowHolds and BucketHolds of one history.
Spaced(p) == \A i \in Rate + 1 .. Len(p) : p[i] >= p[i - Rate] + Window
Metered(p) == \A i, j \in 1 .. Len(p) : i <= j => (j - i + 1) * Window <= Burst * Window + (p[j] - p[i]) * Rate

\* What was let through since the i-th request of the history, together with the credit left at `at`, is no
\* more than the burst and what the time since is worth.
Covered(p, credit, at) ==
    \A i \in 1 .. Len(p) : (Len(p) - i + 1) * Window + credit <= Burst * Window + (at - p[i]) * Rate

BucketInv == Is("token_bucket") => \A k \in Slots :
    IF limiter[k] = None THEN Covered(passed[k], Burst * Window, now)
    ELSE /\ limiter[k].tokens <= Burst * Window
         /\ Covered(passed[k], limiter[k].tokens, limiter[k].last)

LimiterInv == LimitTypeOK /\ ClockInv

\* What limiters are under the configuration in force.
LimiterOf(g) == IF Sliding(g) THEN Seq(Nat) ELSE [tokens : Nat, last : Nat]

\* A bucket refills within the time after which cleanup drops it.
RefillsInTime == Burst * Window <= Idle * Rate

WindowInv == SlidingInv /\ WindowHolds
TokenInv == BucketInv /\ BucketHolds
-----------------------------------------------------------------------------
(* Induction, and the loop of Allow. *)

\* The order of the numbers, as the relation that module WellFoundedInduction speaks of.
Below == {p \in Nat \X Nat : p[1] < p[2]}

\* Every set of numbers that is not empty has a least element.
LEMMA LeastElement ==
    ASSUME NEW T \in SUBSET Nat, T # {}
    PROVE  \E x \in T : \A y \in T : x <= y
<1>1. Below = OpToRel(<, Nat)
  BY DEF Below, OpToRel
<1>2. PICK x \in T : \A y \in T : <<y, x>> \notin Below
  BY <1>1, NatLessThanWellFounded, WFMin
<1>3. ASSUME NEW y \in T PROVE x <= y
  <2>1. <<y, x>> \notin Below
    BY <1>2
  <2>2. x \in Nat /\ y \in Nat
    OBVIOUS
  <2>3. ~(y < x)
    BY <2>1, <2>2 DEF Below
  <2>. QED BY <2>2, <2>3
<1>. QED BY <1>3

\* f holds the first m + 1 values of a loop that begins with base.
Runs(f, m, base, step) == f[0] = base /\ \A i \in 1 .. m : f[i] = step[<<f[i - 1], i>>]

\* A loop over 1 .. n has values: a recursive function that follows it exists.
LEMMA Iterates ==
    ASSUME NEW n \in Nat, NEW X, NEW base \in X, NEW step \in [X \X (1 .. n) -> X]
    PROVE  \E f \in [0 .. n -> X] : Runs(f, n, base, step)
<1>. DEFINE T == {m \in 0 .. n : \A f \in [0 .. m -> X] : ~Runs(f, m, base, step)}
<1>1. ASSUME T = {} PROVE \E f \in [0 .. n -> X] : Runs(f, n, base, step)
  <2>1. n \in 0 .. n /\ n \notin T
    BY <1>1
  <2>. QED BY <2>1
<1>2. SUFFICES ASSUME T # {} PROVE FALSE
  BY <1>1
<1>3. PICK m \in T : \A k \in T : m <= k
  <2>1. T \in SUBSET Nat
    OBVIOUS
  <2>. HIDE DEF T
  <2>. QED BY <1>2, <2>1, LeastElement
<1>3a. m \in 0 .. n /\ \A f \in [0 .. m -> X] : ~Runs(f, m, base, step)
  OBVIOUS
<1>4. m # 0
  <2>. SUFFICES ASSUME m = 0 PROVE FALSE
    OBVIOUS
  <2>. DEFINE f == [i \in 0 .. 0 |-> base]
  <2>1. f \in [0 .. m -> X]
    OBVIOUS
  <2>2. f[0] = base
    OBVIOUS
  <2>3. Runs(f, m, base, step)
    BY <2>2 DEF Runs
  <2>. QED BY <2>1, <2>3, <1>3a
<1>5. m - 1 \in 0 .. n /\ m \in 1 .. n /\ m - 1 \notin T
  BY <1>3, <1>4
<1>6. PICK f \in [0 .. m - 1 -> X] : Runs(f, m - 1, base, step)
  BY <1>5
<1>. DEFINE g == [i \in 0 .. m |-> IF i = m THEN step[<<f[m - 1], m>>] ELSE f[i]]
<1>7. step[<<f[m - 1], m>>] \in X
  BY <1>5
<1>8. g \in [0 .. m -> X]
  BY <1>5, <1>7
<1>9. ASSUME NEW i \in 1 .. m PROVE g[i] = step[<<g[i - 1], i>>]
  <2>1. CASE i = m
    BY <2>1, <1>5
  <2>2. CASE i # m
    BY <2>2, <1>5, <1>6 DEF Runs
  <2>. QED BY <2>1, <2>2
<1>10. g[0] = base
  BY <1>5, <1>6 DEF Runs
<1>11. Runs(g, m, base, step)
  BY <1>9, <1>10 DEF Runs
<1>. HIDE DEF g
<1>. QED BY <1>3a, <1>8, <1>11

\* Kept is the value of its loop after the last stamp.
LEMMA KeptLoop ==
    ASSUME NEW s \in Seq(Nat), NEW time \in Nat
    PROVE  \E f \in [0 .. Len(s) -> Seq(Nat)] :
              /\ f[0] = <<>>
              /\ \A i \in 1 .. Len(s) : f[i] = IF s[i] + Window > time THEN Append(f[i - 1], s[i]) ELSE f[i - 1]
              /\ Kept(s, time) = f[Len(s)]
<1>. DEFINE n == Len(s)
            X == Seq(Nat)
            step == [p \in X \X (1 .. n) |-> IF s[p[2]] + Window > time THEN Append(p[1], s[p[2]]) ELSE p[1]]
            Body(f) == [i \in 0 .. n |-> IF i = 0 THEN <<>>
                          ELSE IF s[i] + Window > time THEN Append(f[i - 1], s[i]) ELSE f[i - 1]]
            kept == CHOOSE f : f = Body(f)
<1>1. step \in [X \X (1 .. n) -> X]
  OBVIOUS
<1>2. <<>> \in X /\ n \in Nat
  OBVIOUS
<1>3. PICK f \in [0 .. n -> X] : Runs(f, n, <<>>, step)
  <2>. HIDE DEF step, X, n
  <2>. QED BY <1>1, <1>2, Iterates
<1>4. f[0] = <<>>
  BY <1>3 DEF Runs
<1>5. ASSUME NEW i \in 1 .. n
      PROVE  f[i] = IF s[i] + Window > time THEN Append(f[i - 1], s[i]) ELSE f[i - 1]
  <2>1. f[i - 1] \in X
    OBVIOUS
  <2>2. f[i] = step[<<f[i - 1], i>>]
    BY <1>3 DEF Runs
  <2>. QED BY <2>1, <2>2
<1>6. f = Body(f)
  <2>1. ASSUME NEW i \in 0 .. n PROVE f[i] = Body(f)[i]
    <3>1. CASE i = 0
      BY <3>1, <1>4
    <3>2. CASE i # 0
      <4>1. i \in 1 .. n
        BY <3>2
      <4>2. Body(f)[i] = IF s[i] + Window > time THEN Append(f[i - 1], s[i]) ELSE f[i - 1]
        BY <3>2
      <4>. QED BY <4>1, <4>2, <1>5
    <3>. QED BY <3>1, <3>2
  <2>. HIDE DEF X, n
  <2>. QED BY <2>1
<1>7. kept = Body(kept)
  BY <1>6
<1>8. kept[0] = <<>> /\ \A i \in 1 .. n : kept[i] = IF s[i] + Window > time THEN Append(kept[i - 1], s[i]) ELSE kept[i - 1]
  <2>1. \A i \in 0 .. n : kept[i] = Body(kept)[i]
    BY <1>7
  <2>. HIDE DEF kept, X
  <2>. QED BY <2>1
<1>9. \A i \in 0 .. n : kept[i] = f[i]
  <2>. DEFINE T == {i \in 0 .. n : kept[i] # f[i]}
  <2>. HIDE DEF kept, X
  <2>1. SUFFICES ASSUME T # {} PROVE FALSE
    OBVIOUS
  <2>2. T \in SUBSET Nat
    OBVIOUS
  <2>3. PICK i \in T : \A j \in T : i <= j
    <3>. HIDE DEF T
    <3>. QED BY <2>1, <2>2, LeastElement
  <2>4. i # 0
    BY <1>4, <1>8
  <2>5. i \in 1 .. n /\ i - 1 \in 0 .. n /\ i - 1 \notin T
    BY <2>3, <2>4
  <2>. QED BY <2>5, <1>5, <1>8
<1>10. Kept(s, time) = kept[n]
  BY DEF Kept
<1>. HIDE DEF kept
<1>. QED BY <1>4, <1>5, <1>9, <1>10

\* t is what the loop keeps of the first j stamps: all but the first m.
EndOf(t, s, time, m, j) ==
    /\ t \in Seq(Nat) /\ Len(t) = j - m
    /\ \A i \in 1 .. j - m : t[i] = s[i + m]
    /\ \A i \in 1 .. m : s[i] + Window <= time
    /\ \A i \in m + 1 .. j : s[i] + Window > time

\* Of stamps in order, the loop keeps the end that is in the window.
LEMMA KeptSuffix ==
    ASSUME NEW s \in Seq(Nat), NEW time \in Nat, Ordered(s)
    PROVE  \E m \in 0 .. Len(s) : EndOf(Kept(s, time), s, time, m, Len(s))
<1>. DEFINE n == Len(s)
<1>1. n \in Nat /\ \A i \in 1 .. n : s[i] \in Nat
  OBVIOUS
<1>2. PICK f \in [0 .. n -> Seq(Nat)] :
        /\ f[0] = <<>>
        /\ \A i \in 1 .. n : f[i] = IF s[i] + Window > time THEN Append(f[i - 1], s[i]) ELSE f[i - 1]
        /\ Kept(s, time) = f[n]
  BY KeptLoop
<1>. DEFINE T == {j \in 0 .. n : \A m \in 0 .. j : ~EndOf(f[j], s, time, m, j)}
<1>3. \A i, j \in 1 .. n : i <= j => s[i] <= s[j]
  BY DEF Ordered
<1>. HIDE DEF n
<1>4. SUFFICES ASSUME T # {} PROVE FALSE
  <2>1. ASSUME T = {} PROVE \E m \in 0 .. n : EndOf(f[n], s, time, m, n)
    <3>1. n \in 0 .. n
      BY <1>1
    <3>2. n \notin T
      BY <2>1
    <3>. QED BY <3>1, <3>2
  <2>. QED BY <2>1, <1>2 DEF n
<1>5. PICK j \in T : \A i \in T : j <= i
  <2>1. T \in SUBSET Nat
    BY <1>1
  <2>. HIDE DEF T
  <2>. QED BY <1>4, <2>1, LeastElement
<1>6. j \in 0 .. n /\ \A m \in 0 .. j : ~EndOf(f[j], s, time, m, j)
  OBVIOUS
<1>7. j # 0
  <2>. SUFFICES ASSUME j = 0 PROVE FALSE
    OBVIOUS
  <2>1. EndOf(f[0], s, time, 0, 0)
    BY <1>2 DEF EndOf
  <2>. QED BY <2>1, <1>6
<1>8. j \in 1 .. n /\ j - 1 \in 0 .. n /\ ~(j <= j - 1)
  BY <1>1, <1>6, <1>7
<1>9. j - 1 \notin T
  <2>. HIDE DEF T
  <2>. QED BY <1>5, <1>8
<1>10. PICK m \in 0 .. j - 1 : EndOf(f[j - 1], s, time, m, j - 1)
  BY <1>8, <1>9
<1>11. m \in 0 .. j /\ j \in 0 .. j /\ m \in Nat
  BY <1>8
<1>. DEFINE t == f[j - 1]
<1>12. t \in Seq(Nat) /\ Len(t) = j - 1 - m
  BY <1>10 DEF EndOf
<1>. HIDE DEF T
<1>13. CASE s[j] + Window > time
  <2>1. f[j] = Append(t, s[j])
    BY <1>2, <1>8, <1>13
  <2>2. s[j] \in Nat
    BY <1>1, <1>8
  <2>3. f[j] \in Seq(Nat) /\ Len(f[j]) = j - m
    <3>. HIDE DEF t
    <3>. QED BY <2>1, <2>2, <1>8, <1>12
  <2>4. ASSUME NEW i \in 1 .. j - m PROVE f[j][i] = s[i + m]
    <3>1. CASE i = j - m
      <4>1. f[j][i] = s[j] /\ i + m = j
        <5>. HIDE DEF t
        <5>. QED BY <2>1, <2>2, <3>1, <1>8, <1>11, <1>12
      <4>. QED BY <4>1
    <3>2. CASE i # j - m
      <4>1. i \in 1 .. j - 1 - m
        BY <3>2, <1>8, <1>11
      <4>2. f[j][i] = t[i]
        <5>. HIDE DEF t
        <5>. QED BY <2>1, <2>2, <4>1, <1>12
      <4>3. t[i] = s[i + m]
        BY <4>1, <1>10 DEF EndOf
      <4>. QED BY <4>2, <4>3
    <3>. QED BY <3>1, <3>2
  <2>5. ASSUME NEW i \in m + 1 .. j PROVE s[i] + Window > time
    <3>1. CASE i = j
      BY <3>1, <1>13
    <3>2. CASE i # j
      <4>1. i \in m + 1 .. j - 1
        BY <3>2, <1>8, <1>11
      <4>. QED BY <4>1, <1>10 DEF EndOf
    <3>. QED BY <3>1, <3>2
  <2>6. EndOf(f[j], s, time, m, j)
    BY <2>3, <2>4, <2>5, <1>10 DEF EndOf
  <2>. QED BY <2>6, <1>6, <1>11
<1>14. CASE ~(s[j] + Window > time)
  <2>1. f[j] = t
    BY <1>2, <1>8, <1>14
  <2>2. ASSUME NEW i \in 1 .. j PROVE s[i] + Window <= time
    <3>1. i \in 1 .. n /\ i <= j
      BY <1>1, <1>8
    <3>2. s[i] <= s[j] /\ s[i] \in Nat /\ s[j] \in Nat
      BY <3>1, <1>1, <1>3, <1>8
    <3>. QED BY <3>2, <1>14, NumberAssumption
  <2>3. m = j - 1
    <3>. SUFFICES ASSUME m # j - 1 PROVE FALSE
      OBVIOUS
    <3>1. j - 1 \in m + 1 .. j - 1 /\ j - 1 \in 1 .. j /\ j - 1 \in 1 .. n
      BY <1>8, <1>11
    <3>2. s[j - 1] + Window > time
      BY <3>1, <1>10 DEF EndOf
    <3>3. s[j - 1] + Window <= time /\ s[j - 1] \in Nat
      BY <3>1, <2>2, <1>1
    <3>. QED BY <3>2, <3>3, NumberAssumption
  <2>4. Len(f[j]) = j - j /\ f[j] \in Seq(Nat)
    BY <2>1, <2>3, <1>8, <1>12
  <2>5. EndOf(f[j], s, time, j, j)
    BY <2>2, <2>4, <1>8 DEF EndOf
  <2>. QED BY <2>5, <1>6, <1>11
<1>. QED BY <1>13, <1>14

-----------------------------------------------------------------------------
(* Types. *)

LEMMA ProductIsNat == \A a, b \in Nat : a * b \in Nat
OBVIOUS

\* The first configuration stays in force, so the limiters of a domain are all of one kind.
LEMMA ConfigInForce ==
    ASSUME LimitTypeOK, ClockInv, NEW c \in Clients, NEW g \in Config
    PROVE  /\ InForce(g) \in Config /\ KeyOf(c, g) \in Slots
           /\ limiter \in [Slots -> LimiterOf(g) \cup {None}]
           /\ config # None => InForce(g) = config
<1>1. InForce(g) \in Config /\ config # None => InForce(g) = config
  BY DEF InForce, LimitTypeOK
<1>2. InForce(g) \in Config
  BY DEF InForce, LimitTypeOK
<1>3. KeyOf(c, g) \in Slots
  BY DEF KeyOf, Slots
<1>4. CASE config = None
  <2>1. \A k \in Slots : limiter[k] = None
    BY <1>4 DEF ClockInv
  <2>2. limiter \in [Slots -> LimiterOf(g) \cup {None}]
    BY <2>1 DEF LimitTypeOK
  <2>. QED BY <2>2, <1>2, <1>3, <1>4
<1>5. CASE config # None
  <2>1. Limiter = LimiterOf(g)
    BY <1>5 DEF Limiter, LimiterOf, Sliding, InForce
  <2>2. limiter \in [Slots -> LimiterOf(g) \cup {None}]
    BY <2>1 DEF LimitTypeOK
  <2>. QED BY <2>2, <1>1, <1>2, <1>3, <1>5
<1>. QED BY <1>4, <1>5

\* A refilled bucket has no more than the burst.
LEMMA RefilledTyped ==
    ASSUME NEW b \in [tokens : Nat, last : Nat], now \in Nat, b.last <= now
    PROVE  Refilled(b) \in Nat /\ Refilled(b) <= Burst * Window
<1>1. (now - b.last) * Rate \in Nat
  <2>1. now - b.last \in Nat
    OBVIOUS
  <2>. QED BY <2>1, ProductIsNat, NumberAssumption
<1>2. Burst * Window \in Nat
  BY ProductIsNat, NumberAssumption
<1>. DEFINE w == (now - b.last) * Rate
            x == Burst * Window
<1>3. Refilled(b) = IF b.tokens + w > x THEN x ELSE b.tokens + w
  BY DEF Refilled
<1>. HIDE DEF w, x
<1>4. Refilled(b) \in Nat /\ Refilled(b) <= x
  BY <1>1, <1>2, <1>3 DEF w, x
<1>. QED BY <1>4 DEF x

\* Allow finds a limiter of the right kind, a bucket refilled up to now.
LEMMA CurrentTyped ==
    ASSUME LimiterInv, NEW c \in Clients, NEW g \in Config, NEW k \in Slots
    PROVE  /\ Current(k, g) \in LimiterOf(g)
           /\ ~Sliding(g) => Current(k, g).last = now /\ Current(k, g).tokens <= Burst * Window
<1>. DEFINE l == IF limiter[k] = None THEN New(g) ELSE limiter[k]
<1>1. now \in Nat
  BY DEF LimiterInv, LimitTypeOK
<1>2. CASE Sliding(g)
  <2>1. limiter[k] \in Seq(Nat) \cup {None}
    BY <1>2, ConfigInForce DEF LimiterInv, LimiterOf
  <2>2. New(g) = <<>>
    BY <1>2 DEF New
  <2>3. l \in Seq(Nat)
    BY <2>1, <2>2
  <2>4. Current(k, g) = Kept(l, now)
    BY <1>2 DEF Current, Recent
  <2>5. Kept(l, now) \in Seq(Nat)
    <3>. HIDE DEF l
    <3>1. PICK f \in [0 .. Len(l) -> Seq(Nat)] : Kept(l, now) = f[Len(l)]
      BY <2>3, <1>1, KeptLoop
    <3>2. Len(l) \in 0 .. Len(l)
      BY <2>3
    <3>. QED BY <3>1, <3>2
  <2>. QED BY <2>4, <2>5, <1>2 DEF LimiterOf
<1>3. CASE ~Sliding(g)
  <2>1. limiter[k] \in [tokens : Nat, last : Nat] \cup {None}
    BY <1>3, ConfigInForce DEF LimiterInv, LimiterOf
  <2>2. New(g) = [tokens |-> Burst * Window, last |-> now]
    BY <1>3 DEF New
  <2>3. l \in [tokens : Nat, last : Nat]
    BY <2>1, <2>2, <1>1, ProductIsNat, NumberAssumption
  <2>4. l.last <= now
    <3>1. CASE limiter[k] = None
      BY <3>1, <2>2, <1>1
    <3>2. CASE limiter[k] # None
      <4>1. config # None /\ config \in Config /\ InForce(g) = config
        BY <3>2, ConfigInForce DEF LimiterInv, LimitTypeOK, ClockInv
      <4>2. config.algorithm = "token_bucket"
        BY <4>1, <1>3, ModeAssumption DEF Sliding, Config
      <4>3. limiter[k].last = seen[k] /\ seen[k] # None
        BY <4>1, <4>2, <3>2 DEF LimiterInv, ClockInv, Is, LimitTypeOK
      <4>4. seen[k] <= now
        BY <4>3 DEF LimiterInv, ClockInv
      <4>. QED BY <4>3, <4>4, <3>2
    <3>. QED BY <3>1, <3>2
  <2>5. Current(k, g) = [tokens |-> Refilled(l), last |-> now]
    BY <1>3 DEF Current
  <2>. HIDE DEF l
  <2>6. Refilled(l) \in Nat /\ Refilled(l) <= Burst * Window
    BY <2>3, <2>4, <1>1, RefilledTyped
  <2>. QED BY <2>5, <2>6, <1>1, <1>3 DEF LimiterOf
<1>. QED BY <1>2, <1>3

\* What Pass and Reject have in common: the limiter of the key is replaced, and the key is seen.
Asked(k, g, l) ==
    /\ limiter' = [limiter EXCEPT ![k] = l]
    /\ config' = InForce(g)
    /\ seen' = [seen EXCEPT ![k] = now]
    /\ due' \in {due, now + Idle}
    /\ UNCHANGED <<cutoff, now>>

\* Such a step keeps the types.
LEMMA AskedKeeps ==
    ASSUME LimiterInv, NEW c \in Clients, NEW g \in Config, NEW k \in Slots, NEW l \in LimiterOf(g),
           ~Sliding(g) => l.last = now, Asked(k, g, l)
    PROVE  LimiterInv'
<1>1. InForce(g) \in Config /\ limiter \in [Slots -> LimiterOf(g) \cup {None}] /\ (config # None => InForce(g) = config)
  BY ConfigInForce DEF LimiterInv
<1>2. config' \in Config /\ config' # None
  BY <1>1, NoneAssumption DEF Asked
<1>3. Limiter' = LimiterOf(g)
  BY <1>2 DEF Limiter, LimiterOf, Sliding, Asked
<1>4. limiter' \in [Slots -> LimiterOf(g) \cup {None}] /\ limiter'[k] = l /\ \A x \in Slots : x # k => limiter'[x] = limiter[x]
  BY <1>1 DEF Asked
<1>5. now \in Nat /\ now' = now /\ seen \in [Slots -> Nat \cup {None}]
  BY DEF LimiterInv, LimitTypeOK, Asked
<1>6. seen' \in [Slots -> Nat \cup {None}] /\ seen'[k] = now /\ \A x \in Slots : x # k => seen'[x] = seen[x]
  BY <1>5 DEF Asked
<1>7. l # None /\ now # None
  BY <1>5, NoneAssumption DEF LimiterOf
<1>8. LimitTypeOK'
  <2>1. \A x \in Slots : limiter'[x] = None <=> seen'[x] = None
    BY <1>4, <1>6, <1>7 DEF LimiterInv, LimitTypeOK
  <2>2. due' \in Nat \cup {None}
    BY <1>5, NumberAssumption DEF LimiterInv, LimitTypeOK, Asked
  <2>. QED BY <2>1, <2>2, <1>2, <1>3, <1>4, <1>5, <1>6 DEF LimiterInv, LimitTypeOK, Asked
<1>9. ClockInv'
  <2>1. \A x \in Slots : seen'[x] # None => seen'[x] <= now'
    BY <1>5, <1>6 DEF LimiterInv, ClockInv
  <2>2. due' # None => Idle <= due'
    BY <1>5, NumberAssumption DEF LimiterInv, ClockInv, Asked
  <2>3. Is("token_bucket")' => \A x \in Slots : limiter'[x] # None => limiter'[x].last = seen'[x]
    <3>. SUFFICES ASSUME Is("token_bucket")', NEW x \in Slots, limiter'[x] # None PROVE limiter'[x].last = seen'[x]
      OBVIOUS
    <3>1. ~Sliding(g)
      BY DEF Is, Asked, Sliding
    <3>2. CASE x = k
      BY <3>1, <3>2, <1>4, <1>6
    <3>3. CASE x # k
      <4>1. limiter[x] # None /\ limiter'[x] = limiter[x] /\ seen'[x] = seen[x]
        BY <3>3, <1>4, <1>6
      <4>2. config # None /\ Is("token_bucket")
        BY <4>1, <1>1, <3>1 DEF LimiterInv, ClockInv, Is, Asked
      <4>. QED BY <4>1, <4>2 DEF LimiterInv, ClockInv
    <3>. QED BY <3>2, <3>3
  <2>. QED BY <2>1, <2>2, <2>3, <1>2, <1>5 DEF LimiterInv, ClockInv, Asked
<1>. QED BY <1>8, <1>9 DEF LimiterInv

\* A request replaces the limiter of its key by one of the same kind, last used now.
LEMMA RequestIsAsked ==
    ASSUME LimiterInv, NEW c \in Clients, NEW g \in Config, Pass(c, g) \/ Reject(c, g)
    PROVE  \E l \in LimiterOf(g) :
              /\ Asked(KeyOf(c, g), g, l)
              /\ ~Sliding(g) => l.last = now /\ l.tokens <= Current(KeyOf(c, g), g).tokens
              /\ Pass(c, g) => Allowed(Current(KeyOf(c, g), g), g) /\ l = Counted(Current(KeyOf(c, g), g), g)
              /\ ~Pass(c, g) => l = Current(KeyOf(c, g), g)
<1>. DEFINE k == KeyOf(c, g)
            r == Current(k, g)
<1>1. k \in Slots
  BY ConfigInForce DEF LimiterInv
<1>2. r \in LimiterOf(g) /\ (~Sliding(g) => r.last = now /\ r.tokens <= Burst * Window)
  BY <1>1, CurrentTyped
<1>3. due' \in {due, now + Idle} /\ config' = InForce(g) /\ seen' = [seen EXCEPT ![k] = now] /\ UNCHANGED <<cutoff, now>>
  BY DEF Pass, Reject, Record
<1>4. now \in Nat
  BY DEF LimiterInv, LimitTypeOK
<1>5. CASE Pass(c, g)
  <2>1. Allowed(r, g) /\ limiter' = [limiter EXCEPT ![k] = Counted(r, g)]
    BY <1>5 DEF Pass
  <2>2. Asked(k, g, Counted(r, g))
    BY <2>1, <1>3 DEF Asked
  <2>. HIDE DEF k, r
  <2>3. Counted(r, g) \in LimiterOf(g)
    <3>1. CASE Sliding(g)
      BY <3>1, <1>2, <1>4 DEF Counted, LimiterOf
    <3>2. CASE ~Sliding(g)
      <4>1. r \in [tokens : Nat, last : Nat] /\ r.tokens >= Window
        BY <3>2, <2>1, <1>2 DEF Allowed, LimiterOf
      <4>2. r.tokens - Window \in Nat
        BY <4>1, NumberAssumption
      <4>. QED BY <4>1, <4>2, <3>2 DEF Counted, LimiterOf
    <3>. QED BY <3>1, <3>2
  <2>4. ~Sliding(g) => Counted(r, g).last = now /\ Counted(r, g).tokens <= r.tokens
    <3>. SUFFICES ASSUME ~Sliding(g) PROVE Counted(r, g).last = now /\ Counted(r, g).tokens <= r.tokens
      OBVIOUS
    <3>1. r \in [tokens : Nat, last : Nat]
      BY <1>2 DEF LimiterOf
    <3>2. Counted(r, g).last = r.last /\ Counted(r, g).tokens = r.tokens - Window
      BY <3>1 DEF Counted
    <3>. QED BY <3>1, <3>2, <1>2, NumberAssumption
  <2>. QED BY <2>1, <2>2, <2>3, <2>4, <1>5 DEF k, r
<1>6. CASE ~Pass(c, g)
  <2>1. limiter' = [limiter EXCEPT ![k] = r]
    BY <1>6 DEF Reject
  <2>2. Asked(k, g, r)
    BY <2>1, <1>3 DEF Asked
  <2>3. ~Sliding(g) => r.tokens <= r.tokens
    <3>1. ASSUME ~Sliding(g) PROVE r \in [tokens : Nat, last : Nat]
      BY <3>1, <1>2 DEF LimiterOf
    <3>. QED BY <3>1
  <2>. QED BY <2>2, <2>3, <1>2, <1>6
<1>. QED BY <1>5, <1>6

LEMMA LimiterInitially == LimitInit => LimiterInv
<1>. SUFFICES ASSUME LimitInit PROVE LimiterInv
  OBVIOUS
<1>1. LimitTypeOK
  BY DEF LimitInit, LimitTypeOK, Limiter
<1>2. ClockInv
  BY DEF LimitInit, ClockInv, Is
<1>. QED BY <1>1, <1>2 DEF LimiterInv

LEMMA LimiterStep == LimiterInv /\ [LimitNext]_limitvars => LimiterInv'
<1>. SUFFICES ASSUME LimiterInv, [LimitNext]_limitvars PROVE LimiterInv'
  OBVIOUS
<1>. USE NumberAssumption
<1>1. LimitTypeOK /\ ClockInv /\ now \in Nat
  BY DEF LimiterInv, LimitTypeOK
<1>2. CASE LimitTick
  <2>1. LimitTypeOK'
    BY <1>1, <1>2 DEF LimitTick, LimitTypeOK, Limiter
  <2>2. ClockInv'
    BY <1>1, <1>2 DEF LimitTick, LimitTypeOK, ClockInv, Is
  <2>. QED BY <2>1, <2>2 DEF LimiterInv
<1>3. CASE Wake
  <2>1. due \in Nat /\ Idle <= due /\ due <= now
    BY <1>1, <1>3 DEF Wake, LimitTypeOK, ClockInv
  <2>2. LimitTypeOK'
    BY <1>1, <1>3, <2>1 DEF Wake, LimitTypeOK, Limiter
  <2>3. ClockInv'
    BY <1>1, <1>3, <2>1 DEF Wake, LimitTypeOK, ClockInv, Is
  <2>. QED BY <2>2, <2>3 DEF LimiterInv
<1>4. CASE Sweep
  <2>1. ASSUME NEW k \in Slots
        PROVE  \/ limiter'[k] = None /\ seen'[k] = None
               \/ limiter'[k] = limiter[k] /\ seen'[k] = seen[k]
    BY <1>4 DEF Sweep, SweepOf
  <2>2. Limiter' = Limiter
    BY <1>4 DEF Sweep, Limiter
  <2>3. limiter' \in [Slots -> Limiter \cup {None}] /\ seen' \in [Slots -> Nat \cup {None}]
    BY <2>1, <1>1, <1>4 DEF LimitTypeOK, Sweep, SweepOf
  <2>4. LimitTypeOK'
    BY <1>1, <1>4, <2>1, <2>2, <2>3 DEF Sweep, LimitTypeOK
  <2>5. Is("token_bucket")' = Is("token_bucket")
    BY <1>4 DEF Is, Sweep
  <2>6. ClockInv'
    BY <1>1, <1>4, <2>1, <2>5 DEF Sweep, ClockInv
  <2>. QED BY <2>4, <2>6 DEF LimiterInv
<1>5. ASSUME NEW c \in Clients, NEW g \in Config, Pass(c, g) \/ Reject(c, g)
      PROVE  LimiterInv'
  <2>1. KeyOf(c, g) \in Slots
    BY ConfigInForce, <1>1
  <2>2. PICK l \in LimiterOf(g) : Asked(KeyOf(c, g), g, l) /\ (~Sliding(g) => l.last = now)
    BY <1>5, RequestIsAsked
  <2>. QED BY <2>1, <2>2, AskedKeeps
<1>6. CASE UNCHANGED limitvars
  BY <1>1, <1>6 DEF limitvars, LimitTypeOK, ClockInv, Limiter, Is, LimiterInv
<1>. QED BY <1>2, <1>3, <1>4, <1>5, <1>6 DEF LimitNext

\* Limiters stay of the kind the first request asked for, and limiters and lastSeen have the same
\* keys, through any requests, reloads and cleanups (ratelimit.go 61-86, 117-131).
THEOREM LimitersTyped == LimitSpec => []LimitTypeOK
<1>1. LimitSpec => []LimiterInv
  BY LimiterInitially, LimiterStep, PTL DEF LimitSpec
<1>2. LimiterInv => LimitTypeOK
  BY DEF LimiterInv
<1>. QED BY <1>1, <1>2, PTL

-----------------------------------------------------------------------------
(* One history: what is let through now is appended, and the oldest forgotten. *)

\* The history after one more request is its end: d old entries are forgotten.
LEMMA LastOfAppended ==
    ASSUME NEW p \in Seq(Nat), NEW t \in Nat
    PROVE  \E d \in 0 .. Len(p) :
              /\ Last(Append(p, t)) \in Seq(Nat)
              /\ Len(Last(Append(p, t))) = Len(p) + 1 - d
              /\ \A i \in 1 .. Len(p) - d : Last(Append(p, t))[i] = p[i + d]
              /\ Last(Append(p, t))[Len(p) + 1 - d] = t
              /\ d = 0 \/ Len(p) + 1 - d = Remembered
<1>. DEFINE s == Append(p, t)
            n == Len(p)
<1>1. n \in Nat /\ s \in Seq(Nat) /\ Len(s) = n + 1 /\ s[n + 1] = t /\ \A i \in 1 .. n : s[i] = p[i]
  OBVIOUS
<1>2. Remembered \in Nat /\ Remembered > 0
  BY HistoryAssumption, NumberAssumption
<1>. HIDE DEF s, n
<1>3. CASE Len(s) > Remembered
  <2>. DEFINE d == n + 1 - Remembered
              q == SubSeq(s, d + 1, n + 1)
  <2>1. d \in 0 .. n /\ n + 1 - d = Remembered
    BY <1>1, <1>2, <1>3
  <2>2. Last(s) = q
    BY <1>1, <1>2, <1>3 DEF Last
  <2>3. d + 1 \in 1 .. n + 1 /\ \A i \in d + 1 .. n + 1 : s[i] \in Nat
    <3>1. \A i \in 1 .. n + 1 : s[i] \in Nat
      BY <1>1
    <3>. HIDE DEF d
    <3>. QED BY <3>1, <2>1, <1>1
  <2>4. q \in Seq(Nat) /\ Len(q) = n + 1 - d /\ \A i \in 1 .. n + 1 - d : q[i] = s[i + d]
    <3>. HIDE DEF d
    <3>1. d \in Nat /\ d <= n /\ n + 1 - d \in Nat
      BY <2>1, <1>1
    <3>2. q = [i \in 1 .. n + 1 - d |-> s[i + d]]
      <4>1. (n + 1) - (d + 1) + 1 = n + 1 - d /\ \A i \in 1 .. n + 1 - d : i + (d + 1) - 1 = i + d
        BY <3>1, <1>1
      <4>. QED BY <4>1, <3>1, <1>1
    <3>3. \A i \in 1 .. n + 1 - d : s[i + d] \in Nat
      BY <2>3, <3>1, <1>1
    <3>. HIDE DEF q
    <3>. QED BY <3>1, <3>2, <3>3
  <2>5. \A i \in 1 .. n - d : q[i] = p[i + d]
    <3>. HIDE DEF q, d
    <3>. SUFFICES ASSUME NEW i \in 1 .. n - d PROVE q[i] = p[i + d]
      OBVIOUS
    <3>1. i \in 1 .. n + 1 - d /\ i + d \in 1 .. n
      BY <2>1, <1>1
    <3>. QED BY <3>1, <2>4, <1>1
  <2>6. q[n + 1 - d] = t
    <3>. HIDE DEF q, d
    <3>1. n + 1 - d \in 1 .. n + 1 - d /\ n + 1 - d + d = n + 1
      BY <2>1, <1>1
    <3>. QED BY <3>1, <2>4, <1>1
  <2>. HIDE DEF q, d
  <2>. QED BY <2>1, <2>2, <2>4, <2>5, <2>6 DEF s, n
<1>4. CASE ~(Len(s) > Remembered)
  <2>1. Last(s) = s
    BY <1>4 DEF Last
  <2>2. 0 \in 0 .. n /\ n + 1 - 0 = n + 1 /\ n - 0 = n /\ \A i \in 1 .. n : i + 0 = i
    BY <1>1
  <2>. QED BY <2>1, <2>2, <1>1 DEF s, n
<1>. QED BY <1>3, <1>4

\* Allow keeps what is in the window, and what it drops is out of it.
LEMMA KeptRemembers ==
    ASSUME NEW p \in Seq(Nat), NEW l \in Seq(Nat), NEW time \in Nat, Remembers(p, l, time)
    PROVE  /\ Remembers(p, Kept(l, time), time) /\ Kept(l, time) \in Seq(Nat)
           /\ \A i \in 1 .. Len(Kept(l, time)) : Kept(l, time)[i] + Window > time
<1>. DEFINE r == Kept(l, time)
            n == Len(l)
<1>1. PICK m \in 0 .. n : EndOf(r, l, time, m, n)
  BY KeptSuffix DEF Remembers
<1>2. r \in Seq(Nat) /\ Len(r) = n - m /\ n \in Nat /\ Len(p) \in Nat
  BY <1>1 DEF EndOf
<1>3. Ordered(l) /\ n <= Rate /\ n <= Len(p)
  BY DEF Remembers
<1>. HIDE DEF r, n
<1>4. \A i \in 1 .. Len(r) : i + m \in 1 .. n /\ r[i] = l[i + m]
  BY <1>1, <1>2 DEF EndOf
<1>5. Ordered(r)
  <2>. SUFFICES ASSUME NEW i \in 1 .. Len(r), NEW j \in 1 .. Len(r), i <= j PROVE r[i] <= r[j]
    BY DEF Ordered
  <2>1. i + m <= j + m
    BY <1>2
  <2>. QED BY <2>1, <1>3, <1>4 DEF Ordered, n
<1>6. Len(r) <= Rate /\ Len(r) <= Len(p)
  BY <1>2, <1>3, NumberAssumption
<1>7. ASSUME NEW i \in 1 .. Len(r) PROVE p[i + (Len(p) - Len(r))] = r[i] /\ r[i] + Window > time
  <2>1. i + m \in 1 .. n /\ r[i] = l[i + m] /\ i + m \in m + 1 .. n
    BY <1>2, <1>4
  <2>2. p[i + m + (Len(p) - n)] = l[i + m]
    BY <2>1 DEF Remembers, n
  <2>3. i + m + (Len(p) - n) = i + (Len(p) - Len(r))
    BY <1>2
  <2>4. l[i + m] + Window > time
    BY <2>1, <1>1 DEF EndOf
  <2>. QED BY <2>1, <2>2, <2>3, <2>4
<1>8. ASSUME NEW i \in 1 .. Len(p) - Len(r) PROVE p[i] + Window <= time
  <2>1. CASE i <= Len(p) - n
    <3>1. i \in 1 .. Len(p) - n
      BY <2>1, <1>2
    <3>. QED BY <3>1 DEF Remembers, n
  <2>2. CASE ~(i <= Len(p) - n)
    <3>. DEFINE j == i - (Len(p) - n)
    <3>1. j \in 1 .. n /\ j \in 1 .. m /\ j + (Len(p) - n) = i
      BY <2>2, <1>2, <1>3
    <3>. HIDE DEF j
    <3>2. p[j + (Len(p) - n)] = l[j]
      BY <3>1 DEF Remembers, n
    <3>3. l[j] + Window <= time
      BY <3>1, <1>1 DEF EndOf
    <3>. QED BY <3>1, <3>2, <3>3
  <2>. QED BY <2>1, <2>2
<1>9. Remembers(p, r, time)
  BY <1>5, <1>6, <1>7, <1>8 DEF Remembers
<1>. QED BY <1>2, <1>7, <1>9 DEF r

\* A request below the rate is remembered at the end of the history, a window after the Rate-th before it.
LEMMA PassRemembered ==
    ASSUME NEW p \in Seq(Nat), NEW r \in Seq(Nat), NEW time \in Nat, Remembers(p, r, time), Len(r) < Rate,
           \A i \in 1 .. Len(p) : p[i] <= time
    PROVE  /\ Remembers(Last(Append(p, time)), Append(r, time), time)
           /\ Spaced(p) => Spaced(Last(Append(p, time)))
<1>. DEFINE q == Last(Append(p, time))
            l == Append(r, time)
            n == Len(p)
            m == Len(r)
<1>1. PICK d \in 0 .. n : /\ q \in Seq(Nat) /\ Len(q) = n + 1 - d
                          /\ \A i \in 1 .. n - d : q[i] = p[i + d]
                          /\ q[n + 1 - d] = time
                          /\ d = 0 \/ n + 1 - d = Remembered
  BY LastOfAppended
<1>2. l \in Seq(Nat) /\ Len(l) = m + 1 /\ l[m + 1] = time /\ \A i \in 1 .. m : l[i] = r[i]
  OBVIOUS
<1>3. n \in Nat /\ m \in Nat /\ m < Rate /\ m <= n /\ Ordered(r)
  BY DEF Remembers
<1>4. \A i \in 1 .. n : p[i] \in Nat
  OBVIOUS
<1>5. \A i \in 1 .. m : i + (n - m) \in 1 .. n /\ r[i] = p[i + (n - m)] /\ r[i] <= time
  <2>. SUFFICES ASSUME NEW i \in 1 .. m PROVE i + (n - m) \in 1 .. n /\ r[i] = p[i + (n - m)] /\ r[i] <= time
    OBVIOUS
  <2>1. p[i + (n - m)] = r[i]
    BY DEF Remembers
  <2>2. i + (n - m) \in 1 .. n
    BY <1>3
  <2>. QED BY <2>1, <2>2
<1>6. \A i \in 1 .. n - m : p[i] + Window <= time
  BY DEF Remembers
<1>. HIDE DEF q, l, n, m
<1>. USE NumberAssumption, HistoryAssumption
<1>7. m + 1 <= n + 1 - d
  BY <1>1, <1>3
<1>8. Ordered(l)
  <2>. SUFFICES ASSUME NEW i \in 1 .. Len(l), NEW j \in 1 .. Len(l), i <= j PROVE l[i] <= l[j]
    BY DEF Ordered
  <2>1. CASE j = m + 1
    <3>1. l[j] = time
      BY <2>1, <1>2
    <3>2. CASE i = m + 1
      BY <3>1, <3>2, <1>2
    <3>3. CASE i # m + 1
      <4>1. i \in 1 .. m
        BY <3>3, <1>2, <1>3
      <4>. QED BY <3>1, <4>1, <1>2, <1>5
    <3>. QED BY <3>2, <3>3
  <2>2. CASE j # m + 1
    <3>1. i \in 1 .. m /\ j \in 1 .. m
      BY <2>2, <1>2, <1>3
    <3>2. r[i] <= r[j]
      BY <3>1, <1>3 DEF Ordered, m
    <3>. QED BY <3>1, <3>2, <1>2
  <2>. QED BY <2>1, <2>2
<1>9. ASSUME NEW i \in 1 .. Len(l) PROVE q[i + (Len(q) - Len(l))] = l[i]
  <2>1. i + (Len(q) - Len(l)) = i + (n - m) - d
    BY <1>1, <1>2, <1>3
  <2>2. CASE i = m + 1
    BY <2>1, <2>2, <1>1, <1>2, <1>3
  <2>3. CASE i # m + 1
    <3>. DEFINE j == i + (n - m) - d
    <3>1. i \in 1 .. m /\ j \in 1 .. n - d /\ j + d = i + (n - m)
      BY <2>3, <1>1, <1>2, <1>3, <1>7
    <3>2. q[j] = p[j + d]
      BY <3>1, <1>1
    <3>. QED BY <2>1, <3>1, <3>2, <1>2, <1>5
  <2>. QED BY <2>2, <2>3
<1>10. ASSUME NEW i \in 1 .. Len(q) - Len(l) PROVE q[i] + Window <= time
  <2>1. i \in 1 .. n - d /\ i + d \in 1 .. n - m
    BY <1>1, <1>2, <1>3
  <2>2. q[i] = p[i + d]
    BY <2>1, <1>1
  <2>. QED BY <2>1, <2>2, <1>6
<1>11. Remembers(q, l, time)
  <2>1. Len(l) <= Rate /\ Len(l) <= Len(q)
    BY <1>1, <1>2, <1>3, <1>7
  <2>. QED BY <2>1, <1>8, <1>9, <1>10 DEF Remembers
<1>12. ASSUME Spaced(p) PROVE Spaced(q)
  <2>. SUFFICES ASSUME NEW i \in Rate + 1 .. Len(q) PROVE q[i] >= q[i - Rate] + Window
    BY DEF Spaced
  <2>1. i \in 1 .. n + 1 - d /\ i - Rate \in 1 .. n - d /\ i - Rate + d \in 1 .. n
    BY <1>1, <1>3
  <2>2. q[i - Rate] = p[i - Rate + d]
    BY <2>1, <1>1
  <2>3. CASE i = n + 1 - d
    <3>1. i - Rate + d \in 1 .. n - m
      BY <2>1, <2>3, <1>1, <1>3
    <3>2. p[i - Rate + d] + Window <= time
      BY <3>1, <1>6
    <3>. QED BY <2>1, <2>2, <2>3, <3>2, <1>1, <1>4
  <2>4. CASE i # n + 1 - d
    <3>1. i \in 1 .. n - d /\ i + d \in Rate + 1 .. n /\ i + d - Rate = i - Rate + d
      BY <2>1, <2>4, <1>1, <1>3
    <3>2. q[i] = p[i + d]
      BY <3>1, <1>1
    <3>3. p[i + d] >= p[i + d - Rate] + Window
      BY <3>1, <1>12 DEF Spaced, n
    <3>. QED BY <2>2, <3>1, <3>2, <3>3
  <2>. QED BY <2>3, <2>4
<1>. QED BY <1>11, <1>12 DEF q, l

LEMMA ProductOfSum == \A x, y, r \in Int : (x + y) * r = x * r + y * r /\ x * r \in Int
OBVIOUS

LEMMA ProductIsMonotone == \A x, y, r \in Nat : x <= y => x * r <= y * r
<1>. SUFFICES ASSUME NEW x \in Nat, NEW y \in Nat, NEW r \in Nat, x <= y PROVE x * r <= y * r
  OBVIOUS
<1>1. y - x \in Nat
  OBVIOUS
<1>2. (y - x) * r \in Nat
  BY <1>1, ProductIsNat
<1>3. y * r = x * r + (y - x) * r
  <2>1. x + (y - x) = y
    OBVIOUS
  <2>. QED BY <2>1, <1>1, ProductOfSum
<1>4. x * r \in Nat
  BY ProductIsNat
<1>. QED BY <1>2, <1>3, <1>4

LEMMA ElapsedWorth == \A x, y \in Nat : x <= y => (y - x) * Rate \in Nat
<1>. SUFFICES ASSUME NEW x \in Nat, NEW y \in Nat, x <= y PROVE (y - x) * Rate \in Nat
  OBVIOUS
<1>1. y - x \in Nat
  OBVIOUS
<1>. QED BY <1>1, ProductIsNat, NumberAssumption

\* Time adds what it is worth to what the history may have left.
LEMMA CoveredLater ==
    ASSUME NEW p \in Seq(Nat), NEW x \in Int, NEW y \in Int, NEW a \in Nat, NEW b \in Nat,
           Covered(p, x, a), y <= x + (b - a) * Rate
    PROVE  Covered(p, y, b)
<1>. SUFFICES ASSUME NEW i \in 1 .. Len(p)
              PROVE  (Len(p) - i + 1) * Window + y <= Burst * Window + (b - p[i]) * Rate
  BY DEF Covered
<1>1. (Len(p) - i + 1) * Window + x <= Burst * Window + (a - p[i]) * Rate
  BY DEF Covered
<1>2. p[i] \in Nat /\ Rate \in Int
  BY NumberAssumption
<1>3. (b - p[i]) * Rate = (b - a) * Rate + (a - p[i]) * Rate
  <2>. DEFINE u == b - a
              v == a - p[i]
  <2>1. u + v = b - p[i] /\ u \in Int /\ v \in Int
    BY <1>2
  <2>2. (u + v) * Rate = u * Rate + v * Rate
    BY <2>1, <1>2, ProductOfSum
  <2>. QED BY <2>1, <2>2
<1>4. (b - a) * Rate \in Int /\ (a - p[i]) * Rate \in Int /\ (Len(p) - i + 1) * Window \in Int /\ Burst * Window \in Int
  <2>1. b - a \in Int /\ a - p[i] \in Int /\ Len(p) - i + 1 \in Int /\ Burst \in Int /\ Window \in Int
    BY <1>2, NumberAssumption
  <2>. QED BY <2>1, <1>2, ProductOfSum
<1>. DEFINE A == (Len(p) - i + 1) * Window
            B == Burst * Window
            C == (b - a) * Rate
            D == (a - p[i]) * Rate
            E == (b - p[i]) * Rate
<1>5. A + x <= B + D /\ E = C + D /\ y <= x + C /\ A \in Int /\ B \in Int /\ C \in Int /\ D \in Int
  BY <1>1, <1>3, <1>4
<1>. HIDE DEF A, B, C, D, E
<1>6. A + y <= B + E
  BY <1>5
<1>. QED BY <1>6 DEF A, B, E

\* A request that is let through costs a token.
LEMMA PassCovered ==
    ASSUME NEW p \in Seq(Nat), NEW time \in Nat, NEW x \in Nat, Covered(p, x, time),
           Window <= x, x <= Burst * Window
    PROVE  /\ Covered(Last(Append(p, time)), x - Window, time)
           /\ Metered(p) => Metered(Last(Append(p, time)))
<1>. DEFINE q == Last(Append(p, time))
            n == Len(p)
<1>1. PICK d \in 0 .. n : /\ q \in Seq(Nat) /\ Len(q) = n + 1 - d
                          /\ \A i \in 1 .. n - d : q[i] = p[i + d]
                          /\ q[n + 1 - d] = time
  BY LastOfAppended
<1>2. n \in Nat /\ \A i \in 1 .. n : p[i] \in Nat
  OBVIOUS
<1>3. \A i \in 1 .. n : (n - i + 1) * Window + x <= Burst * Window + (time - p[i]) * Rate
  BY DEF Covered
<1>. HIDE DEF q, n
<1>. USE NumberAssumption
<1>4. Burst * Window \in Nat /\ Window \in Nat
  BY ProductIsNat
<1>5. 1 * Window = Window /\ 0 * Rate = 0
  OBVIOUS
<1>6. ASSUME NEW i \in 1 .. Len(q)
      PROVE  (Len(q) - i + 1) * Window + (x - Window) <= Burst * Window + (time - q[i]) * Rate
  <2>1. CASE i = n + 1 - d
    <3>1. Len(q) - i + 1 = 1 /\ time - q[i] = 0
      BY <2>1, <1>1, <1>2
    <3>. DEFINE B == Burst * Window
    <3>2. B \in Nat /\ x <= B
      BY <1>4
    <3>. HIDE DEF B
    <3>3. Window + (x - Window) <= B + 0
      BY <3>2
    <3>. QED BY <3>1, <3>3, <1>5 DEF B
  <2>2. CASE i # n + 1 - d
    <3>. DEFINE j == i + d
    <3>1. i \in 1 .. n - d /\ j \in 1 .. n
      BY <2>2, <1>1, <1>2
    <3>2. q[i] = p[j] /\ Len(q) - i + 1 = (n - j + 1) + 1 /\ n - j + 1 \in Nat
      BY <3>1, <1>1, <1>2
    <3>. HIDE DEF j
    <3>3. (n - j + 1) * Window + x <= Burst * Window + (time - p[j]) * Rate
      BY <3>1, <1>3
    <3>4. ((n - j + 1) + 1) * Window = (n - j + 1) * Window + 1 * Window
      BY <3>2, ProductOfSum
    <3>. DEFINE A == (n - j + 1) * Window
                B == Burst * Window
                D == (time - p[j]) * Rate
    <3>5. A \in Int /\ D \in Int
      <4>1. n - j + 1 \in Int /\ time - p[j] \in Int /\ Window \in Int /\ Rate \in Int
        BY <3>1, <3>2, <1>2
      <4>. QED BY <4>1, ProductOfSum
    <3>6. A + x <= B + D /\ B \in Nat /\ ((n - j + 1) + 1) * Window = A + Window
      BY <3>3, <3>4, <1>4, <1>5
    <3>7. ((n - j + 1) + 1) * Window + (x - Window) <= B + D
      <4>. HIDE DEF A, B, D
      <4>1. (A + Window) + (x - Window) <= B + D
        BY <3>5, <3>6
      <4>. QED BY <4>1, <3>6
    <3>. QED BY <3>2, <3>7
  <2>. QED BY <2>1, <2>2
<1>7. Covered(q, x - Window, time)
  BY <1>6 DEF Covered
<1>8. ASSUME Metered(p) PROVE Metered(q)
  <2>. SUFFICES ASSUME NEW i \in 1 .. Len(q), NEW j \in 1 .. Len(q), i <= j
                PROVE  (j - i + 1) * Window <= Burst * Window + (q[j] - q[i]) * Rate
    BY DEF Metered
  <2>1. CASE j = n + 1 - d
    <3>1. j = Len(q) /\ q[j] = time
      BY <2>1, <1>1
    <3>2. (j - i + 1) * Window + (x - Window) <= Burst * Window + (q[j] - q[i]) * Rate
      BY <3>1, <1>6
    <3>. DEFINE A == (j - i + 1) * Window
                B == Burst * Window
                D == (q[j] - q[i]) * Rate
    <3>3. A \in Int /\ B \in Int /\ D \in Int
      <4>1. j - i + 1 \in Int /\ q[j] - q[i] \in Int /\ Window \in Int /\ Rate \in Int
        BY <1>1
      <4>. QED BY <4>1, <1>4, ProductOfSum
    <3>4. A + (x - Window) <= B + D
      BY <3>2
    <3>. HIDE DEF A, B, D
    <3>5. A <= B + D
      BY <3>3, <3>4
    <3>. QED BY <3>5 DEF A, B, D
  <2>2. CASE j # n + 1 - d
    <3>1. i \in 1 .. n - d /\ j \in 1 .. n - d /\ i + d \in 1 .. n /\ j + d \in 1 .. n /\ i + d <= j + d
      BY <2>2, <1>1, <1>2
    <3>2. ((j + d) - (i + d) + 1) * Window <= Burst * Window + (p[j + d] - p[i + d]) * Rate
      BY <3>1, <1>8 DEF Metered, n
    <3>3. (j + d) - (i + d) + 1 = j - i + 1 /\ q[i] = p[i + d] /\ q[j] = p[j + d]
      BY <3>1, <1>1
    <3>. QED BY <3>2, <3>3
  <2>. QED BY <2>1, <2>2
<1>. QED BY <1>7, <1>8 DEF q

\* A bucket that has been idle as long as cleanup asks for is full again, if the idle time is worth a burst.
LEMMA DroppedCovered ==
    ASSUME NEW p \in Seq(Nat), NEW x \in Nat, NEW last \in Nat, NEW time \in Nat,
           Covered(p, x, last), last + Idle <= time, Burst * Window <= Idle * Rate
    PROVE  Covered(p, Burst * Window, time)
<1>. USE NumberAssumption
<1>1. Idle * Rate <= (time - last) * Rate
  <2>1. time - last \in Nat /\ Idle <= time - last
    OBVIOUS
  <2>. QED BY <2>1, ProductIsMonotone
<1>2. Burst * Window \in Nat /\ Idle * Rate \in Nat /\ (time - last) * Rate \in Int
  <2>1. time - last \in Int
    OBVIOUS
  <2>. QED BY <2>1, ProductIsNat, ProductOfSum
<1>3. Burst * Window <= x + (time - last) * Rate
  <2>. DEFINE A == Burst * Window
              B == Idle * Rate
              C == (time - last) * Rate
  <2>1. A <= B /\ B <= C /\ A \in Nat /\ B \in Nat /\ C \in Int
    BY <1>1, <1>2
  <2>. HIDE DEF A, B, C
  <2>2. A <= x + C
    BY <2>1
  <2>. QED BY <2>2 DEF A, C
<1>. QED BY <1>2, <1>3, CoveredLater

-----------------------------------------------------------------------------
(* The histories of all keys. *)

LEMMA HistoryStep == [HistNext]_passvars => [LimitNext]_limitvars
BY DEF HistNext, Requests, LimitNext, passvars, limitvars

\* It is still a history up to now.
LEMMA ForgottenHistory ==
    ASSUME NEW p \in Seq(Nat), NEW t \in Nat, \A i \in 1 .. Len(p) : p[i] <= t
    PROVE  Last(Append(p, t)) \in Seq(Nat) /\ \A i \in 1 .. Len(Last(Append(p, t))) : Last(Append(p, t))[i] <= t
<1>. DEFINE q == Last(Append(p, t))
            n == Len(p)
<1>1. PICK d \in 0 .. n : /\ q \in Seq(Nat) /\ Len(q) = n + 1 - d
                          /\ \A i \in 1 .. n - d : q[i] = p[i + d]
                          /\ q[n + 1 - d] = t
  BY LastOfAppended
<1>2. n \in Nat /\ \A i \in 1 .. n : p[i] \in Nat /\ p[i] <= t
  OBVIOUS
<1>. HIDE DEF q, n
<1>3. ASSUME NEW i \in 1 .. Len(q) PROVE q[i] <= t
  <2>1. CASE i = n + 1 - d
    BY <2>1, <1>1
  <2>2. CASE i # n + 1 - d
    <3>1. i \in 1 .. n - d /\ i + d \in 1 .. n
      BY <2>2, <1>1, <1>2
    <3>. QED BY <3>1, <1>1, <1>2
  <2>. QED BY <2>1, <2>2
<1>. QED BY <1>1, <1>3 DEF q

\* No step puts the history ahead of lastSeen or of the clock.
LEMMA PassedStep == LimiterInv /\ PassedInv /\ [HistNext]_passvars => PassedInv'
<1>. SUFFICES ASSUME LimiterInv, PassedInv, [HistNext]_passvars PROVE PassedInv'
  OBVIOUS
<1>1. now \in Nat /\ seen \in [Slots -> Nat \cup {None}] /\ passed \in [Slots -> Seq(Nat)]
  BY DEF LimiterInv, LimitTypeOK, PassedInv
<1>2. \A k \in Slots : Len(passed[k]) \in Nat /\ \A i \in 1 .. Len(passed[k]) : passed[k][i] \in Nat
  BY <1>1
<1>3. CASE LimitTick /\ UNCHANGED passed
  BY <1>1, <1>2, <1>3 DEF LimitTick, PassedInv
<1>4. CASE Wake /\ UNCHANGED passed
  BY <1>4 DEF Wake, PassedInv
<1>5. CASE Sweep /\ UNCHANGED passed
  <2>1. \A k \in Slots : seen'[k] = None \/ seen'[k] = seen[k]
    BY <1>5 DEF Sweep, SweepOf
  <2>2. config' = config /\ now' = now
    BY <1>5 DEF Sweep
  <2>. QED BY <2>1, <2>2, <1>5 DEF PassedInv
<1>6. ASSUME NEW c \in Clients, NEW g \in Config, Pass(c, g) \/ Reject(c, g),
             \/ Pass(c, g) /\ passed' = [passed EXCEPT ![KeyOf(c, g)] = Last(Append(@, now))]
             \/ UNCHANGED passed
      PROVE  PassedInv'
  <2>. DEFINE k == KeyOf(c, g)
  <2>1. k \in Slots /\ InForce(g) \in Config
    BY ConfigInForce DEF LimiterInv
  <2>2. PICK l \in LimiterOf(g) : Asked(k, g, l)
    BY <1>6, RequestIsAsked
  <2>3. config' = InForce(g) /\ now' = now /\ seen' = [seen EXCEPT ![k] = now]
    BY <2>2 DEF Asked
  <2>. HIDE DEF k
  <2>4. config' # None
    BY <2>1, <2>3, NoneAssumption
  <2>5. \A x \in Slots : seen'[x] = IF x = k THEN now ELSE seen[x]
    BY <2>3, <1>1
  <2>6. \A i \in 1 .. Len(passed[k]) : passed[k][i] <= now
    BY <2>1 DEF PassedInv
  <2>7. passed' \in [Slots -> Seq(Nat)] /\ \A i \in 1 .. Len(passed'[k]) : passed'[k][i] <= now
    <3>. DEFINE q == Last(Append(passed[k], now))
    <3>1. q \in Seq(Nat) /\ \A i \in 1 .. Len(q) : q[i] <= now
      BY <2>1, <2>6, <1>1, ForgottenHistory
    <3>. HIDE DEF q
    <3>2. CASE passed' = [passed EXCEPT ![k] = q]
      BY <3>1, <3>2, <2>1, <1>1
    <3>3. CASE passed' = passed
      BY <3>3, <2>6, <1>1
    <3>. QED BY <3>2, <3>3, <1>6 DEF k, q
  <2>8. \A x \in Slots : x # k => passed'[x] = passed[x]
    BY <1>1, <1>6 DEF k
  <2>9. ASSUME NEW x \in Slots, NEW i \in 1 .. Len(passed'[x])
        PROVE  passed'[x][i] <= now' /\ (seen'[x] # None => passed'[x][i] <= seen'[x])
    <3>1. CASE x = k
      BY <3>1, <2>3, <2>5, <2>7
    <3>2. CASE x # k
      BY <3>2, <2>3, <2>5, <2>8 DEF PassedInv
    <3>. QED BY <3>1, <3>2
  <2>. QED BY <2>4, <2>7, <2>9 DEF PassedInv
<1>7. CASE UNCHANGED passvars
  BY <1>7 DEF passvars, limitvars, PassedInv
<1>. QED BY <1>3, <1>4, <1>5, <1>6, <1>7 DEF HistNext, Requests

\* Under a sliding window the stamps of every limiter are the end of its history, before its first request too.
LEMMA StampsRemembered ==
    ASSUME LimiterInv, PassedInv, SlidingInv, WindowHolds, NEW g \in Config, Sliding(g), NEW k \in Slots
    PROVE  Remembers(passed[k], Stamps(k), now) /\ Stamps(k) \in Seq(Nat) /\ Spaced(passed[k])
<1>1. CASE config = None
  <2>1. limiter[k] = None /\ passed[k] = <<>>
    BY <1>1 DEF LimiterInv, ClockInv, PassedInv
  <2>2. Stamps(k) = <<>>
    BY <2>1 DEF Stamps
  <2>. QED BY <2>1, <2>2, NumberAssumption DEF Remembers, Ordered, Spaced
<1>2. CASE config # None
  <2>1. Is("sliding_window") /\ Limiter = Seq(Nat)
    BY <1>2 DEF Is, Sliding, InForce, Limiter
  <2>2. limiter[k] \in Seq(Nat) \cup {None}
    BY <2>1 DEF LimiterInv, LimitTypeOK
  <2>. QED BY <2>1, <2>2 DEF SlidingInv, Stamps, WindowHolds, Spaced
<1>. QED BY <1>1, <1>2

\* What Allow finds under a sliding window.
LEMMA CurrentIsKept ==
    ASSUME NEW g \in Config, Sliding(g), NEW k \in Slots
    PROVE  Current(k, g) = Kept(Stamps(k), now)
BY DEF Current, Stamps, New, Recent

\* No step breaks the window.
LEMMA WindowStep == LimiterInv /\ PassedInv /\ WindowInv /\ [HistNext]_passvars => WindowInv'
<1>. SUFFICES ASSUME LimiterInv, PassedInv, WindowInv, [HistNext]_passvars PROVE WindowInv'
  OBVIOUS
<1>. USE NumberAssumption
<1>1. now \in Nat /\ seen \in [Slots -> Nat \cup {None}] /\ passed \in [Slots -> Seq(Nat)]
  BY DEF LimiterInv, LimitTypeOK, PassedInv
<1>2. \A k \in Slots : Len(passed[k]) \in Nat /\ \A i \in 1 .. Len(passed[k]) : passed[k][i] \in Nat
  BY <1>1
<1>3. SlidingInv /\ WindowHolds
  BY DEF WindowInv
\* Steps that leave configuration and histories alone.
<1>4. ASSUME config' = config, passed' = passed, now <= now', now' \in Nat,
             \A k \in Slots : \/ limiter'[k] = limiter[k]
                              \/ /\ limiter'[k] = None
                                 /\ \A i \in 1 .. Len(passed[k]) : passed[k][i] + Window <= now'
      PROVE  WindowInv'
  <2>1. WindowHolds'
    BY <1>3, <1>4 DEF WindowHolds, Is
  <2>2. ASSUME Is("sliding_window")', NEW k \in Slots PROVE Remembers(passed'[k], Stamps(k)', now')
    <3>1. Remembers(passed[k], Stamps(k), now)
      BY <2>2, <1>3, <1>4 DEF SlidingInv, Is
    <3>2. CASE limiter'[k] = limiter[k]
      <4>1. Stamps(k)' = Stamps(k)
        BY <3>2 DEF Stamps
      <4>. DEFINE l == Stamps(k)
                  p == passed[k]
      <4>2. l \in Seq(Nat)
        <5>1. Limiter = Seq(Nat)
          BY <2>2, <1>4 DEF Is, Limiter
        <5>2. limiter[k] \in Seq(Nat) \cup {None}
          BY <5>1 DEF LimiterInv, LimitTypeOK
        <5>. QED BY <5>2 DEF Stamps
      <4>. HIDE DEF l
      <4>3. Remembers(p, l, now')
        BY <3>1, <4>2, <1>1, <1>2, <1>4 DEF Remembers, l
      <4>. QED BY <4>1, <4>3, <1>4 DEF l
    <3>3. CASE limiter'[k] = None /\ \A i \in 1 .. Len(passed[k]) : passed[k][i] + Window <= now'
      <4>1. Stamps(k)' = <<>>
        BY <3>3 DEF Stamps
      <4>. QED BY <4>1, <3>3, <1>2, <1>4 DEF Remembers, Ordered
    <3>. QED BY <3>2, <3>3, <1>4
  <2>3. SlidingInv'
    BY <2>2 DEF SlidingInv
  <2>. QED BY <2>1, <2>3 DEF WindowInv
<1>5. CASE LimitTick /\ UNCHANGED passed
  <2>1. config' = config /\ limiter' = limiter /\ now' = now + 1 /\ passed' = passed
    BY <1>5 DEF LimitTick
  <2>. QED BY <2>1, <1>1, <1>4
<1>6. CASE Wake /\ UNCHANGED passed
  <2>1. config' = config /\ limiter' = limiter /\ now' = now /\ passed' = passed
    BY <1>6 DEF Wake
  <2>. QED BY <2>1, <1>1, <1>4
<1>7. CASE Sweep /\ UNCHANGED passed
  <2>1. config' = config /\ now' = now /\ passed' = passed /\ cutoff # None
    BY <1>7 DEF Sweep
  <2>2. ASSUME NEW k \in Slots, limiter'[k] # limiter[k]
        PROVE  limiter'[k] = None /\ \A i \in 1 .. Len(passed[k]) : passed[k][i] + Window <= now'
    <3>1. limiter'[k] = None /\ Stale(k)
      BY <2>2, <1>7 DEF Sweep, SweepOf
    <3>2. seen[k] \in Nat /\ cutoff \in Nat /\ seen[k] < cutoff /\ cutoff + Idle <= now
      BY <3>1, <2>1, <1>1 DEF Stale, LimiterInv, LimitTypeOK, ClockInv
    <3>3. \A i \in 1 .. Len(passed[k]) : passed[k][i] <= seen[k]
      BY <3>1 DEF Stale, PassedInv
    <3>. QED BY <3>1, <3>2, <3>3, <2>1, <1>1, <1>2, IdleAssumption
  <2>. QED BY <2>1, <2>2, <1>1, <1>4
<1>8. ASSUME NEW c \in Clients, NEW g \in Config, Pass(c, g) \/ Reject(c, g),
             \/ Pass(c, g) /\ passed' = [passed EXCEPT ![KeyOf(c, g)] = Last(Append(@, now))]
             \/ ~Pass(c, g) /\ UNCHANGED passed
      PROVE  WindowInv'
  <2>1. KeyOf(c, g) \in Slots /\ InForce(g) \in Config /\ limiter \in [Slots -> LimiterOf(g) \cup {None}]
    BY ConfigInForce DEF LimiterInv
  <2>. PICK k \in Slots : k = KeyOf(c, g)
    BY <2>1
  <2>. DEFINE r == Current(k, g)
  <2>2. PICK l \in LimiterOf(g) :
          /\ Asked(k, g, l)
          /\ Pass(c, g) => Allowed(r, g) /\ l = Counted(r, g)
          /\ ~Pass(c, g) => l = r
    BY <1>8, RequestIsAsked
  <2>3. config' = InForce(g) /\ now' = now /\ limiter' = [limiter EXCEPT ![k] = l]
    BY <2>2 DEF Asked
  <2>4. Is("sliding_window")' = Sliding(g)
    BY <2>1, <2>3, NoneAssumption DEF Is, Sliding
  <2>. SUFFICES ASSUME Sliding(g) PROVE WindowInv'
    BY <2>4 DEF WindowInv, SlidingInv, WindowHolds
  <2>. DEFINE p == passed[k]
  <2>5. Remembers(p, r, now) /\ r \in Seq(Nat) /\ Spaced(p) /\ p \in Seq(Nat)
    <3>1. Remembers(p, Stamps(k), now) /\ Stamps(k) \in Seq(Nat) /\ Spaced(p) /\ p \in Seq(Nat)
      BY <2>1, <1>1, <1>3, StampsRemembered
    <3>. HIDE DEF p
    <3>. QED BY <3>1, <2>1, <1>1, CurrentIsKept, KeptRemembers
  <2>6. l \in Seq(Nat) /\ l # None
    BY NoneAssumption DEF LimiterOf
  <2>7. Remembers(passed'[k], l, now) /\ Spaced(passed'[k])
    <3>1. CASE Pass(c, g)
      <4>1. Len(r) < Rate /\ l = Append(r, now)
        BY <3>1, <2>2 DEF Allowed, Counted
      <4>2. \A i \in 1 .. Len(p) : p[i] <= now
        BY <2>1 DEF PassedInv
      <4>3. passed'[k] = Last(Append(p, now))
        BY <3>1, <1>8, <1>1
      <4>. HIDE DEF p, r
      <4>. QED BY <4>1, <4>2, <4>3, <2>5, <1>1, PassRemembered
    <3>2. CASE ~Pass(c, g)
      BY <3>2, <1>8, <2>2, <2>5
    <3>. QED BY <3>1, <3>2
  <2>8. limiter'[k] = l /\ l # None
    BY <2>1, <2>3, <2>6
  <2>9. ASSUME NEW x \in Slots, x # k
        PROVE  /\ Remembers(passed'[x], IF limiter'[x] = None THEN <<>> ELSE limiter'[x], now)
               /\ Spaced(passed'[x])
    <3>1. passed'[x] = passed[x] /\ limiter'[x] = limiter[x]
      BY <2>9, <2>1, <2>3, <1>1, <1>8
    <3>2. Remembers(passed[x], Stamps(x), now) /\ Spaced(passed[x])
      BY <1>3, StampsRemembered
    <3>. QED BY <3>1, <3>2 DEF Stamps
  <2>10. ASSUME NEW x \in Slots
         PROVE  /\ Remembers(passed'[x], IF limiter'[x] = None THEN <<>> ELSE limiter'[x], now')
                /\ Spaced(passed'[x])
    BY <2>3, <2>7, <2>8, <2>9
  <2>11. SlidingInv'
    BY <2>10 DEF SlidingInv, Stamps
  <2>12. WindowHolds'
    BY <2>10 DEF WindowHolds, Spaced
  <2>. QED BY <2>11, <2>12 DEF WindowInv
<1>9. CASE UNCHANGED passvars
  BY <1>1, <1>9, <1>4 DEF passvars, limitvars
<1>10. ASSUME NEW c \in Clients, NEW g \in Config, Pass(c, g), Reject(c, g) PROVE FALSE
  BY <1>10 DEF Pass, Reject
<1>. QED BY <1>5, <1>6, <1>7, <1>8, <1>9, <1>10 DEF HistNext, Requests

LEMMA HistoryInitially == HistInit => LimiterInv /\ PassedInv /\ WindowInv /\ TokenInv
<1>. SUFFICES ASSUME HistInit PROVE LimiterInv /\ PassedInv /\ WindowInv /\ TokenInv
  OBVIOUS
<1>1. LimiterInv
  BY LimiterInitially DEF HistInit
<1>2. PassedInv
  BY DEF HistInit, PassedInv
<1>3. ~Is("sliding_window") /\ ~Is("token_bucket")
  BY DEF HistInit, LimitInit, Is
<1>. QED BY <1>1, <1>2, <1>3 DEF WindowInv, TokenInv, SlidingInv, BucketInv, WindowHolds, BucketHolds

\* A key gets at most Rate requests in any second under a sliding window: no second, however it lies
\* and whatever cleanup dropped within it, sees more (ratelimit.go 124-129, 154-169).
THEOREM WindowIsHard == HistSpec => []WindowHolds
<1>. DEFINE Inv == LimiterInv /\ PassedInv /\ WindowInv
<1>1. HistInit => Inv
  BY HistoryInitially
<1>2. Inv /\ [HistNext]_passvars => Inv'
  BY HistoryStep, LimiterStep, PassedStep, WindowStep
<1>3. Inv => WindowHolds
  BY DEF WindowInv
<1>. QED BY <1>1, <1>2, <1>3, PTL DEF HistSpec

\* Whoever is refused has Rate requests in the window.
LEMMA WindowOfRefused ==
    ASSUME LimiterInv, PassedInv, WindowInv, NEW c \in Clients, NEW g \in Config, Reject(c, g), Sliding(g)
    PROVE  Cardinality(InWindow(KeyOf(c, g))) >= Rate
<1>. DEFINE k == KeyOf(c, g)
            p == passed[k]
            r == Current(k, g)
<1>1. k \in Slots /\ p \in Seq(Nat) /\ now \in Nat
  BY ConfigInForce DEF LimiterInv, LimitTypeOK, PassedInv
<1>2. Remembers(p, r, now) /\ r \in Seq(Nat) /\ \A i \in 1 .. Len(r) : r[i] + Window > now
  <2>1. Remembers(p, Stamps(k), now) /\ Stamps(k) \in Seq(Nat) /\ r = Kept(Stamps(k), now)
    BY <1>1, StampsRemembered, CurrentIsKept DEF WindowInv
  <2>. HIDE DEF p, r, k
  <2>. QED BY <2>1, <1>1, KeptRemembers
<1>3. Len(r) >= Rate
  <2>1. ~(Len(r) < Rate)
    BY DEF Reject, Allowed
  <2>. QED BY <2>1, <1>2, NumberAssumption
<1>. DEFINE n == Len(p)
            m == Len(r)
            I == n - m + 1 .. n
<1>4. n \in Nat /\ m \in Nat /\ m <= n
  BY <1>1, <1>2 DEF Remembers
<1>5. InWindow(k) = {i \in 1 .. n : p[i] + Window > now}
  BY DEF InWindow
<1>6. I \subseteq InWindow(k)
  <2>. SUFFICES ASSUME NEW i \in I PROVE i \in 1 .. n /\ p[i] + Window > now
    BY <1>5
  <2>1. i \in 1 .. n /\ i - (n - m) \in 1 .. m /\ (i - (n - m)) + (n - m) = i
    BY <1>4
  <2>2. p[(i - (n - m)) + (n - m)] = r[i - (n - m)]
    BY <2>1, <1>2 DEF Remembers
  <2>. QED BY <2>1, <2>2, <1>2
<1>7. IsFiniteSet(1 .. n) /\ IsFiniteSet(InWindow(k))
  <2>1. IsFiniteSet(1 .. n)
    BY <1>4, FS_Interval
  <2>. QED BY <2>1, <1>5, FS_Subset
<1>8. Cardinality(I) = m
  <2>1. n - m + 1 \in Int /\ n \in Int /\ n - m + 1 <= n + 1
    BY <1>4
  <2>2. Cardinality(I) = IF n - m + 1 > n THEN 0 ELSE n - (n - m + 1) + 1
    BY <2>1, FS_Interval
  <2>. QED BY <2>2, <1>4
<1>9. Cardinality(I) <= Cardinality(InWindow(k)) /\ Cardinality(InWindow(k)) \in Nat
  BY <1>6, <1>7, FS_Subset, FS_CardinalityType
<1>. QED BY <1>3, <1>4, <1>8, <1>9, NumberAssumption

\* Nobody is refused below the rate: the sliding window refuses a key only when Rate of its requests
\* were let through within the last second, and refusals do not count (ratelimit.go 166-169).
THEOREM RefusalsAreJust == HistSpec => NoUnjustRejection
<1>. DEFINE Inv == LimiterInv /\ PassedInv /\ WindowInv
            Just == \A c \in Clients : \A g \in Config :
                       Reject(c, g) /\ Sliding(g) => Cardinality(InWindow(KeyOf(c, g))) >= Rate
<1>1. HistInit => Inv
  BY HistoryInitially
<1>2. Inv /\ [HistNext]_passvars => Inv'
  BY HistoryStep, LimiterStep, PassedStep, WindowStep
<1>3. Inv => [Just]_passvars
  BY WindowOfRefused
<1>4. HistSpec => [][Just]_passvars
  BY <1>1, <1>2, <1>3, PTL DEF HistSpec
<1>. QED BY <1>4 DEF NoUnjustRejection

\* Under a token bucket every history is covered, before its first request too.
LEMMA TokensCovered ==
    ASSUME LimiterInv, PassedInv, TokenInv, NEW g \in Config, ~Sliding(g), NEW k \in Slots
    PROVE  /\ limiter[k] \in [tokens : Nat, last : Nat] \cup {None}
           /\ limiter[k] = None => Covered(passed[k], Burst * Window, now)
           /\ limiter[k] # None => /\ Covered(passed[k], limiter[k].tokens, limiter[k].last)
                                   /\ limiter[k].last <= now
           /\ Metered(passed[k])
<1>1. CASE config = None
  <2>1. limiter[k] = None /\ passed[k] = <<>>
    BY <1>1 DEF LimiterInv, ClockInv, PassedInv
  <2>. QED BY <2>1 DEF Covered, Metered
<1>2. CASE config # None
  <2>1. Is("token_bucket") /\ Limiter = [tokens : Nat, last : Nat]
    <3>1. config \in Config /\ config.algorithm # "sliding_window"
      BY <1>2 DEF LimiterInv, LimitTypeOK, Sliding, InForce
    <3>2. config.algorithm = "token_bucket"
      BY <3>1, ModeAssumption DEF Config
    <3>. QED BY <1>2, <3>1, <3>2 DEF Is, Limiter
  <2>2. limiter[k] \in [tokens : Nat, last : Nat] \cup {None}
    BY <2>1 DEF LimiterInv, LimitTypeOK
  <2>3. Metered(passed[k])
    BY <2>1 DEF TokenInv, BucketHolds, Metered
  <2>4. limiter[k] = None => Covered(passed[k], Burst * Window, now)
    BY <2>1 DEF TokenInv, BucketInv
  <2>5. ASSUME limiter[k] # None
        PROVE  Covered(passed[k], limiter[k].tokens, limiter[k].last) /\ limiter[k].last <= now
    <3>1. Covered(passed[k], limiter[k].tokens, limiter[k].last)
      BY <2>1, <2>5 DEF TokenInv, BucketInv
    <3>2. limiter[k].last = seen[k] /\ seen[k] # None
      BY <2>1, <2>5 DEF LimiterInv, ClockInv, LimitTypeOK
    <3>3. seen[k] <= now
      BY <3>2 DEF LimiterInv, ClockInv
    <3>. QED BY <3>1, <3>2, <3>3
  <2>. QED BY <2>2, <2>3, <2>4, <2>5
<1>. QED BY <1>1, <1>2

\* Refilling a bucket keeps what it may give covered.
LEMMA CurrentCovered ==
    ASSUME LimiterInv, PassedInv, TokenInv, NEW g \in Config, ~Sliding(g), NEW c \in Clients, NEW k \in Slots
    PROVE  Covered(passed[k], Current(k, g).tokens, now)
<1>. DEFINE r == Current(k, g)
<1>. USE NumberAssumption
<1>1. now \in Nat /\ passed[k] \in Seq(Nat)
  BY DEF LimiterInv, LimitTypeOK, PassedInv
<1>2. r \in [tokens : Nat, last : Nat] /\ r.tokens <= Burst * Window
  BY CurrentTyped DEF LimiterOf
<1>3. Burst * Window \in Nat
  BY ProductIsNat
<1>4. CASE limiter[k] = None
  <2>1. Covered(passed[k], Burst * Window, now)
    BY <1>4, TokensCovered
  <2>2. (now - now) * Rate = 0
    <3>1. now - now = 0
      BY <1>1
    <3>. QED BY <3>1
  <2>. DEFINE B == Burst * Window
  <2>3. B \in Nat /\ r.tokens <= B
    BY <1>2, <1>3
  <2>4. r.tokens <= B + (now - now) * Rate
    <3>. HIDE DEF B, r
    <3>. QED BY <1>2, <2>2, <2>3
  <2>. DEFINE y == r.tokens
  <2>5. y \in Int /\ B \in Int /\ Covered(passed[k], B, now) /\ y <= B + (now - now) * Rate
    BY <1>2, <2>1, <2>3, <2>4
  <2>. HIDE DEF r, y, B
  <2>6. Covered(passed[k], y, now)
    BY <1>1, <2>5, CoveredLater
  <2>. QED BY <2>6 DEF y, r
<1>5. CASE limiter[k] # None
  <2>. DEFINE l == limiter[k]
  <2>1. l \in [tokens : Nat, last : Nat] /\ Covered(passed[k], l.tokens, l.last) /\ l.last <= now
    BY <1>5, TokensCovered
  <2>2. r.tokens = Refilled(l)
    BY <1>5 DEF Current
  <2>3. Refilled(l) <= l.tokens + (now - l.last) * Rate
    <3>. DEFINE w == (now - l.last) * Rate
                B == Burst * Window
    <3>1. w \in Nat
      <4>1. now - l.last \in Nat
        BY <2>1, <1>1
      <4>. QED BY <4>1, ProductIsNat
    <3>2. Refilled(l) = IF l.tokens + w > B THEN B ELSE l.tokens + w
      BY DEF Refilled
    <3>3. B \in Nat
      BY <1>3
    <3>. HIDE DEF w, B
    <3>4. Refilled(l) <= l.tokens + w
      BY <2>1, <3>1, <3>2, <3>3
    <3>. QED BY <3>4 DEF w
  <2>. DEFINE x == l.tokens
              y == r.tokens
              t == l.last
  <2>4. x \in Int /\ y \in Int /\ t \in Nat /\ Covered(passed[k], x, t) /\ y <= x + (now - t) * Rate
    BY <1>2, <2>1, <2>2, <2>3
  <2>. HIDE DEF l, r, x, y, t
  <2>5. Covered(passed[k], y, now)
    BY <1>1, <2>4, CoveredLater
  <2>. QED BY <2>5 DEF y, r
<1>. QED BY <1>4, <1>5 DEF r

\* No step overdraws a bucket.
LEMMA TokenStep ==
    ASSUME RefillsInTime
    PROVE  LimiterInv /\ PassedInv /\ TokenInv /\ [HistNext]_passvars => TokenInv'
<1>. SUFFICES ASSUME LimiterInv, PassedInv, TokenInv, [HistNext]_passvars PROVE TokenInv'
  OBVIOUS
<1>. USE NumberAssumption
<1>1. now \in Nat /\ seen \in [Slots -> Nat \cup {None}] /\ passed \in [Slots -> Seq(Nat)]
  BY DEF LimiterInv, LimitTypeOK, PassedInv
<1>2. BucketInv /\ BucketHolds /\ Burst * Window \in Nat
  BY ProductIsNat DEF TokenInv
\* Steps that leave configuration and histories alone.
<1>3. ASSUME config' = config, passed' = passed, now <= now', now' \in Nat,
             \A k \in Slots : \/ limiter'[k] = limiter[k]
                              \/ limiter'[k] = None /\ (Is("token_bucket") => Covered(passed[k], Burst * Window, now'))
      PROVE  TokenInv'
  <2>1. BucketHolds'
    BY <1>2, <1>3 DEF BucketHolds, Is
  <2>2. ASSUME Is("token_bucket")', NEW k \in Slots
        PROVE  IF limiter'[k] = None THEN Covered(passed'[k], Burst * Window, now')
               ELSE limiter'[k].tokens <= Burst * Window /\ Covered(passed'[k], limiter'[k].tokens, limiter'[k].last)
    <3>1. Is("token_bucket")
      BY <2>2, <1>3 DEF Is
    <3>2. CASE limiter'[k] = limiter[k] /\ limiter[k] = None
      <4>1. Covered(passed[k], Burst * Window, now)
        BY <3>1, <3>2, <1>2 DEF BucketInv
      <4>2. (now' - now) * Rate \in Nat
        <5>1. now <= now' /\ now' \in Nat
          BY <1>3
        <5>. QED BY <5>1, <1>1, ElapsedWorth
      <4>. DEFINE B == Burst * Window
                  w == (now' - now) * Rate
      <4>3. B <= B + w
        <5>1. B \in Nat /\ w \in Nat
          BY <4>2, <1>2
        <5>. HIDE DEF B, w
        <5>. QED BY <5>1
      <4>4. Covered(passed[k], Burst * Window, now')
        BY <4>1, <4>3, <1>1, <1>2, <1>3, CoveredLater
      <4>. QED BY <4>4, <3>2, <1>3
    <3>3. CASE limiter'[k] = limiter[k] /\ limiter[k] # None
      BY <3>1, <3>3, <1>2, <1>3 DEF BucketInv
    <3>4. CASE limiter'[k] = None /\ Covered(passed[k], Burst * Window, now')
      BY <3>4, <1>3
    <3>. QED BY <3>1, <3>2, <3>3, <3>4, <1>3
  <2>3. BucketInv'
    BY <2>2 DEF BucketInv
  <2>. QED BY <2>1, <2>3 DEF TokenInv
<1>4. CASE LimitTick /\ UNCHANGED passed
  <2>1. config' = config /\ limiter' = limiter /\ now' = now + 1 /\ passed' = passed
    BY <1>4 DEF LimitTick
  <2>. QED BY <2>1, <1>1, <1>3
<1>5. CASE Wake /\ UNCHANGED passed
  <2>1. config' = config /\ limiter' = limiter /\ now' = now /\ passed' = passed
    BY <1>5 DEF Wake
  <2>. QED BY <2>1, <1>1, <1>3
<1>6. CASE Sweep /\ UNCHANGED passed
  <2>1. config' = config /\ now' = now /\ passed' = passed /\ cutoff # None
    BY <1>6 DEF Sweep
  <2>2. ASSUME NEW k \in Slots, limiter'[k] # limiter[k]
        PROVE  limiter'[k] = None /\ (Is("token_bucket") => Covered(passed[k], Burst * Window, now'))
    <3>1. limiter'[k] = None /\ Stale(k) /\ limiter[k] # None
      BY <2>2, <1>6 DEF Sweep, SweepOf
    <3>2. seen[k] \in Nat /\ cutoff \in Nat /\ seen[k] < cutoff /\ cutoff + Idle <= now
      BY <3>1, <2>1, <1>1 DEF Stale, LimiterInv, LimitTypeOK, ClockInv
    <3>3. ASSUME Is("token_bucket") PROVE Covered(passed[k], Burst * Window, now)
      <4>1. limiter[k].last = seen[k] /\ Covered(passed[k], limiter[k].tokens, limiter[k].last)
        BY <3>1, <3>3, <1>2 DEF LimiterInv, ClockInv, BucketInv
      <4>2. limiter[k] \in [tokens : Nat, last : Nat]
        <5>1. Limiter = [tokens : Nat, last : Nat]
          BY <3>3 DEF Is, Limiter
        <5>. QED BY <5>1, <3>1 DEF LimiterInv, LimitTypeOK
      <4>3. seen[k] + Idle <= now /\ limiter[k].tokens \in Nat
        BY <3>2, <4>2, <1>1
      <4>. DEFINE x == limiter[k].tokens
                  t == limiter[k].last
      <4>4. x \in Nat /\ t \in Nat /\ Covered(passed[k], x, t) /\ t + Idle <= now /\ passed[k] \in Seq(Nat)
        BY <4>1, <4>2, <4>3, <3>2, <1>1
      <4>. HIDE DEF x, t
      <4>. QED BY <4>4, <1>1, DroppedCovered DEF RefillsInTime
    <3>. QED BY <3>1, <3>3, <2>1
  <2>. QED BY <2>1, <2>2, <1>1, <1>3
<1>7. ASSUME NEW c \in Clients, NEW g \in Config, Pass(c, g) \/ Reject(c, g),
             \/ Pass(c, g) /\ passed' = [passed EXCEPT ![KeyOf(c, g)] = Last(Append(@, now))]
             \/ ~Pass(c, g) /\ UNCHANGED passed
      PROVE  TokenInv'
  <2>1. KeyOf(c, g) \in Slots /\ InForce(g) \in Config /\ limiter \in [Slots -> LimiterOf(g) \cup {None}]
    BY ConfigInForce DEF LimiterInv
  <2>. PICK k \in Slots : k = KeyOf(c, g)
    BY <2>1
  <2>. DEFINE r == Current(k, g)
  <2>2. PICK l \in LimiterOf(g) :
          /\ Asked(k, g, l)
          /\ ~Sliding(g) => l.last = now /\ l.tokens <= r.tokens
          /\ Pass(c, g) => Allowed(r, g) /\ l = Counted(r, g)
          /\ ~Pass(c, g) => l = r
    BY <1>7, RequestIsAsked
  <2>3. config' = InForce(g) /\ now' = now /\ limiter' = [limiter EXCEPT ![k] = l]
    BY <2>2 DEF Asked
  <2>4. Is("token_bucket")' => ~Sliding(g)
    BY <2>1, <2>3 DEF Is, Sliding
  <2>. SUFFICES ASSUME ~Sliding(g) PROVE TokenInv'
    BY <2>4 DEF TokenInv, BucketInv, BucketHolds
  <2>. DEFINE p == passed[k]
  <2>5. /\ Covered(p, r.tokens, now) /\ Metered(p) /\ p \in Seq(Nat)
        /\ r \in [tokens : Nat, last : Nat] /\ r.tokens <= Burst * Window
    BY <1>1, CurrentCovered, TokensCovered, CurrentTyped DEF LimiterOf
  <2>6. l \in [tokens : Nat, last : Nat] /\ l # None /\ l.last = now
    BY <2>2, NoneAssumption DEF LimiterOf
  <2>7. Covered(passed'[k], l.tokens, l.last) /\ Metered(passed'[k]) /\ l.tokens <= Burst * Window
    <3>1. CASE Pass(c, g)
      <4>1. r.tokens >= Window /\ l = [r EXCEPT !.tokens = @ - Window]
        BY <3>1, <2>2 DEF Allowed, Counted
      <4>2. l.tokens = r.tokens - Window
        BY <4>1, <2>5
      <4>3. passed'[k] = Last(Append(p, now))
        BY <3>1, <1>7, <1>1
      <4>4. l.tokens <= Burst * Window
        <5>. DEFINE B == Burst * Window
        <5>1. B \in Nat /\ r.tokens <= B /\ r.tokens \in Nat
          BY <1>2, <2>5
        <5>. HIDE DEF B, r
        <5>2. l.tokens <= B
          BY <5>1, <4>2
        <5>. QED BY <5>2 DEF B
      <4>. DEFINE x == r.tokens
      <4>5. x \in Nat /\ Window <= x /\ x <= Burst * Window /\ Covered(p, x, now)
        BY <2>5, <4>1
      <4>. HIDE DEF p, x, r
      <4>6. Covered(Last(Append(p, now)), x - Window, now) /\ Metered(Last(Append(p, now)))
        BY <4>5, <2>5, <1>1, PassCovered
      <4>. QED BY <4>2, <4>3, <4>4, <4>6, <2>6 DEF x
    <3>2. CASE ~Pass(c, g)
      BY <3>2, <1>7, <2>2, <2>5, <2>6
    <3>. QED BY <3>1, <3>2
  <2>8. limiter'[k] = l
    BY <2>1, <2>3
  <2>9. ASSUME NEW x \in Slots, x # k
        PROVE  /\ Metered(passed'[x])
               /\ IF limiter'[x] = None THEN Covered(passed'[x], Burst * Window, now)
                  ELSE limiter'[x].tokens <= Burst * Window /\ Covered(passed'[x], limiter'[x].tokens, limiter'[x].last)
    <3>1. passed'[x] = passed[x] /\ limiter'[x] = limiter[x]
      BY <2>9, <2>1, <2>3, <1>1, <1>7
    <3>2. limiter[x] # None => limiter[x].tokens <= Burst * Window
      <4>. SUFFICES ASSUME limiter[x] # None PROVE limiter[x].tokens <= Burst * Window
        OBVIOUS
      <4>1. config # None /\ InForce(g) = config /\ config \in Config
        BY ConfigInForce DEF LimiterInv, ClockInv, LimitTypeOK
      <4>2. Is("token_bucket")
        BY <4>1, ModeAssumption DEF Is, Sliding, Config
      <4>. QED BY <4>2, <1>2 DEF BucketInv
    <3>. QED BY <3>1, <3>2, TokensCovered
  <2>10. ASSUME NEW x \in Slots
         PROVE  /\ Metered(passed'[x])
                /\ IF limiter'[x] = None THEN Covered(passed'[x], Burst * Window, now')
                   ELSE limiter'[x].tokens <= Burst * Window /\ Covered(passed'[x], limiter'[x].tokens, limiter'[x].last)
    BY <2>3, <2>6, <2>7, <2>8, <2>9
  <2>11. BucketInv'
    BY <2>10 DEF BucketInv
  <2>12. BucketHolds'
    BY <2>10 DEF BucketHolds, Metered
  <2>. QED BY <2>11, <2>12 DEF TokenInv
<1>8. CASE UNCHANGED passvars
  BY <1>1, <1>8, <1>3 DEF passvars, limitvars
<1>9. ASSUME NEW c \in Clients, NEW g \in Config, Pass(c, g), Reject(c, g) PROVE FALSE
  BY <1>9 DEF Pass, Reject
<1>. QED BY <1>4, <1>5, <1>6, <1>7, <1>8, <1>9 DEF HistNext, Requests

\* A token bucket gives no more than its burst and what the time was worth, between any two requests and
\* across any cleanups, as long as a bucket refills within the idle time (ratelimit.go 114, 118-131).
THEOREM BucketIsHard == RefillsInTime /\ HistSpec => []BucketHolds
<1>. DEFINE Inv == LimiterInv /\ PassedInv /\ TokenInv
<1>. SUFFICES ASSUME RefillsInTime PROVE HistSpec => []BucketHolds
  OBVIOUS
<1>1. HistInit => Inv
  BY HistoryInitially
<1>2. Inv /\ [HistNext]_passvars => Inv'
  BY HistoryStep, LimiterStep, PassedStep, TokenStep
<1>3. Inv => BucketHolds
  BY DEF TokenInv
<1>. QED BY <1>1, <1>2, <1>3, PTL DEF HistSpec

=============================================================================
