---------------------------- MODULE PullerProofs ----------------------------
(***************************************************************************)
(* Pulls of one domain, for any number of origins, retries and pullers:    *)
(* the attempts of a pull are at different origins and never meet the      *)
(* budget's end, so that a pull fails only where nobody would serve it.    *)
(***************************************************************************)
EXTENDS MCPuller, FiniteSetTheorems, TLAPS

\* The i-th origin a pull that began at s asks, and the time its later attempts may take.
Asked(s, i) == (s + i) % N
TimeFor(attempt) == Timeout * (Retry - attempt + 1)

\* What is left of the budget covers this attempt, all that may follow, and one more.
Budgeted(p) == Trying(p) => pull[p].budget >= pull[p].left + TimeFor(pull[p].attempt)
\* No origin that was asked has been well since the pull began.
Unwell(p) == Trying(p) => \A i \in 0 .. pull[p].attempt - 1 : Asked(pull[p].start, i) \notin steady[p]
Unserved(p) == pull[p].at = "failed" => \E s \in Origins : \A i \in 0 .. Retry : Asked(s, i) \notin steady[p]

PullInv ==
    /\ PullTypeOK /\ steady \in [Pullers -> SUBSET Origins]
    /\ \A p \in Pullers : Budgeted(p) /\ Unwell(p) /\ Unserved(p)

Phases == {"idle", "attempt", "ok", "read", "broken", "failed"}
PullRec == [at : Phases, start : Origins, attempt : 0 .. Retry, left : 0 .. Timeout, budget : 0 .. Budget]

-----------------------------------------------------------------------------
LEMMA BudgetParts ==
    /\ Budget \in Nat /\ Budget = Timeout + TimeFor(0)
    /\ \A a \in 0 .. Retry : TimeFor(a) \in Nat /\ TimeFor(a) >= Timeout
    /\ \A a \in 0 .. Retry : a # Retry => TimeFor(a) = Timeout + TimeFor(a + 1)
<1>1. Timeout \in Nat /\ Retry \in Nat
  BY PullAssumption
<1>2. Timeout * (Retry + 2) = Timeout + Timeout * (Retry - 0 + 1) /\ Timeout * (Retry + 2) \in Nat
  BY <1>1
<1>3. ASSUME NEW a \in 0 .. Retry PROVE Timeout * (Retry - a + 1) \in Nat /\ Timeout * (Retry - a + 1) >= Timeout
  BY <1>1
<1>4. ASSUME NEW a \in 0 .. Retry, a # Retry
      PROVE  Timeout * (Retry - a + 1) = Timeout + Timeout * (Retry - (a + 1) + 1)
  BY <1>1, <1>4
<1> QED BY <1>2, <1>3, <1>4 DEF Budget, TimeFor

LEMMA AskedIsOrigin == ASSUME NEW s \in Origins, NEW i \in Nat PROVE Asked(s, i) \in Origins
BY PullAssumption DEF Origins, Asked

LEMMA TypedRec == PullTypeOK <=> counter \in Origins /\ health \in [Origins -> Health] /\ pull \in [Pullers -> PullRec]
BY DEF PullTypeOK, PullRec, Phases

LEMMA ZeroParts == 0 \in Origins /\ 0 \in 0 .. Retry /\ 0 \in 0 .. Timeout /\ 0 \in 0 .. Budget /\ Timeout \in 0 .. Timeout
BY PullAssumption, BudgetParts DEF Origins

LEMMA EndRec == ASSUME NEW at \in Phases PROVE [Idle EXCEPT !.at = at] \in PullRec /\ [Idle EXCEPT !.at = at].at = at
<1>1. [Idle EXCEPT !.at = at] = [at |-> at, start |-> 0, attempt |-> 0, left |-> 0, budget |-> 0]
  BY DEF Idle
<1> QED BY <1>1, ZeroParts DEF PullRec

\* A puller's step keeps what the others have: their origins only lose from those that were well.
LEMMA OthersKeep ==
    ASSUME PullInv, HistNext, NEW p \in Pullers, pull'[p] = pull[p]
    PROVE  Budgeted(p)' /\ Unwell(p)' /\ Unserved(p)'
<1>1. pull[p].at \in Phases
  BY TypedRec DEF PullInv, PullRec
<1>2. steady'[p] \subseteq steady[p]
  BY <1>1 DEF HistNext, Trying
<1>3. Budgeted(p) /\ Unwell(p) /\ Unserved(p)
  BY DEF PullInv
<1> QED BY <1>2, <1>3 DEF Budgeted, Unwell, Unserved, Trying

LEMMA SteadyTyped == ASSUME PullInv, HistNext, health' \in [Origins -> Health] PROVE steady' \in [Pullers -> SUBSET Origins]
<1>1. Well \subseteq Origins
  BY DEF Well
<1> QED BY <1>1 DEF PullInv, HistNext

\* One puller moves: the invariant is about it alone.
LEMMA OneMoves ==
    ASSUME PullInv, HistNext, NEW p \in Pullers, NEW r \in PullRec, pull' = [pull EXCEPT ![p] = r],
           counter' \in Origins, UNCHANGED health, Budgeted(p)', Unwell(p)', Unserved(p)'
    PROVE  PullInv'
<1>1. pull \in [Pullers -> PullRec] /\ health \in [Origins -> Health]
  BY TypedRec DEF PullInv
<1>2. pull' \in [Pullers -> PullRec]
  BY <1>1
<1>3. PullTypeOK'
  BY <1>1, <1>2 DEF PullTypeOK, PullRec, Phases
<1>4. steady' \in [Pullers -> SUBSET Origins]
  BY <1>1, SteadyTyped
<1>5. ASSUME NEW q \in Pullers PROVE Budgeted(q)' /\ Unwell(q)' /\ Unserved(q)'
  <2>1. CASE q = p
    BY <2>1
  <2>2. CASE q # p
    <3>1. pull'[q] = pull[q]
      BY <1>1, <2>2
    <3> QED BY <3>1, OthersKeep
  <2> QED BY <2>1, <2>2
<1> QED BY <1>3, <1>4, <1>5 DEF PullInv

-----------------------------------------------------------------------------
LEMMA PullKeeps == ASSUME PullInv, HistNext, NEW p \in Pullers, Pull(p) PROVE PullInv'
<1> DEFINE r == [at |-> "attempt", start |-> counter, attempt |-> 0, left |-> Timeout, budget |-> Budget]
<1>1. counter \in Origins /\ pull \in [Pullers -> PullRec]
  BY TypedRec DEF PullInv
<1>2. r \in PullRec
  <2>1. Budget \in 0 .. Budget
    BY BudgetParts
  <2> QED BY <1>1, <2>1, ZeroParts DEF PullRec, Phases
<1>3. pull' = [pull EXCEPT ![p] = r] /\ UNCHANGED health /\ counter' = (counter + 1) % N
  BY DEF Pull
<1>4. counter' \in Origins
  BY <1>1, <1>3, PullAssumption DEF Origins
<1>5. pull'[p] = r
  BY <1>1, <1>3
<1>6. Budgeted(p)'
  BY <1>5, BudgetParts, PullAssumption DEF Budgeted
<1>7. Unwell(p)' /\ Unserved(p)'
  BY <1>5 DEF Unwell, Unserved
<1> QED BY <1>2, <1>3, <1>4, <1>6, <1>7, OneMoves

LEMMA EndKeeps ==
    ASSUME PullInv, HistNext, NEW p \in Pullers, NEW at \in Phases \ {"attempt", "failed"}, Ended(p, at)
    PROVE  PullInv'
<1> DEFINE r == [Idle EXCEPT !.at = at]
<1>1. r \in PullRec /\ r.at = at
  BY EndRec
<1>2. pull' = [pull EXCEPT ![p] = r] /\ UNCHANGED <<counter, health>>
  BY DEF Ended
<1> HIDE DEF r
<1>3. pull'[p].at = at /\ counter' \in Origins
  BY <1>1, <1>2, TypedRec DEF PullInv
<1>4. Budgeted(p)' /\ Unwell(p)' /\ Unserved(p)'
  BY <1>3 DEF Budgeted, Unwell, Unserved, Trying
<1> QED BY <1>1, <1>2, <1>3, <1>4, OneMoves

\* An attempt that ended badly was at an origin that is not well, and the next is at another.
LEMMA NextKeeps ==
    ASSUME PullInv, HistNext, NEW p \in Pullers, Trying(p), health[Target(p)] # "ok", NextAttempt(p)
    PROVE  PullInv'
<1> DEFINE a == pull[p].attempt
           s == pull[p].start
<1>1. /\ pull \in [Pullers -> PullRec] /\ counter \in Origins /\ a \in 0 .. Retry /\ s \in Origins
      /\ pull[p].left \in Nat /\ pull[p].budget \in 0 .. Budget /\ pull[p].at = "attempt" /\ Retry \in Nat
      /\ steady \in [Pullers -> SUBSET Origins]
  BY TypedRec, PullAssumption DEF PullInv, PullRec, Trying
<1>2. \A i \in 0 .. a - 1 : Asked(s, i) \notin steady[p]
  BY DEF PullInv, Unwell
<1>3. UNCHANGED <<counter, health>>
  BY DEF NextAttempt, Ended
<1>4. Asked(s, a) \notin Well
  BY <1>3 DEF Well, Target, Asked
<1>5. \A i \in 0 .. a : Asked(s, i) \notin steady[p] \cap Well
  BY <1>1, <1>2, <1>4
<1>6. pull[p].budget >= pull[p].left + TimeFor(a)
  BY DEF PullInv, Budgeted
<1>7. CASE a = Retry
  <2> DEFINE r == [Idle EXCEPT !.at = "failed"]
  <2>1. r \in PullRec /\ r.at = "failed"
    BY EndRec DEF Phases
  <2>2. pull' = [pull EXCEPT ![p] = r]
    BY <1>7 DEF NextAttempt, Ended
  <2> HIDE DEF r
  <2>3. pull'[p].at = "failed"
    BY <1>1, <2>1, <2>2
  <2>4. steady'[p] = steady[p] \cap Well
    BY <1>1, <2>3 DEF HistNext
  <2>5. Unserved(p)'
    <3>1. \A i \in 0 .. Retry : Asked(s, i) \notin steady'[p]
      BY <1>5, <1>7, <2>4
    <3> QED BY <1>1, <3>1 DEF Unserved
  <2>6. Budgeted(p)' /\ Unwell(p)'
    BY <2>3 DEF Budgeted, Unwell, Trying
  <2> QED BY <1>1, <1>3, <2>1, <2>2, <2>5, <2>6, OneMoves
<1>8. CASE a # Retry
  <2> DEFINE r == [pull[p] EXCEPT !.attempt = a + 1, !.left = Timeout]
  <2>1. r \in PullRec /\ r.at = "attempt" /\ r.attempt = a + 1 /\ r.left = Timeout /\ r.start = s /\ r.budget = pull[p].budget
    <3>1. a + 1 \in 0 .. Retry /\ Timeout \in 0 .. Timeout
      BY <1>1, <1>8, ZeroParts
    <3> QED BY <1>1, <3>1 DEF PullRec
  <2>2. pull' = [pull EXCEPT ![p] = r]
    BY <1>1, <1>8 DEF NextAttempt
  <2> HIDE DEF r
  <2>3. pull'[p] = r
    BY <1>1, <2>2
  <2>4. steady'[p] = steady[p] \cap Well
    BY <1>1, <2>1, <2>3 DEF HistNext, Trying
  <2>5. Unwell(p)'
    <3>1. \A i \in 0 .. (a + 1) - 1 : Asked(s, i) \notin steady'[p]
      BY <1>1, <1>5, <2>4
    <3> QED BY <2>1, <2>3, <3>1 DEF Unwell
  <2>6. Budgeted(p)'
    <3>1. TimeFor(a) = Timeout + TimeFor(a + 1) /\ TimeFor(a) \in Nat /\ Budget \in Nat
      BY <1>1, <1>8, BudgetParts
    <3>2. pull[p].budget >= TimeFor(a)
      BY <1>1, <1>6, <3>1
    <3> QED BY <2>1, <2>3, <3>1, <3>2 DEF Budgeted
  <2>7. Unserved(p)'
    BY <2>1, <2>3 DEF Unserved
  <2> QED BY <1>1, <1>3, <2>1, <2>2, <2>5, <2>6, <2>7, OneMoves
<1> QED BY <1>7, <1>8

LEMMA StepKeeps == ASSUME PullInv, HistNext, NEW p \in Pullers, PullStep(p) PROVE PullInv'
<1>1. CASE Answer(p)
  <2>1. "ok" \in Phases \ {"attempt", "failed"} /\ Ended(p, "ok")
    BY <1>1 DEF Answer, Phases
  <2> QED BY <2>1, EndKeeps
<1>2. CASE Refuse(p)
  BY <1>2, NextKeeps DEF Refuse
<1>3. CASE Expire(p)
  <2>1. Trying(p) /\ NextAttempt(p)
    BY <1>3 DEF Expire
  <2>2. pull[p].attempt \in 0 .. Retry /\ pull[p].left \in Nat /\ pull[p].budget \in 0 .. Budget
    BY TypedRec, PullAssumption DEF PullInv, PullRec
  <2>3. pull[p].budget # 0
    BY <2>1, <2>2, BudgetParts, PullAssumption DEF PullInv, Budgeted
  <2>4. health[Target(p)] # "ok"
    BY <1>3, <2>3 DEF Expire
  <2> QED BY <2>1, <2>4, NextKeeps
<1>4. CASE ReadBody(p)
  <2>1. \E at \in Phases \ {"attempt", "failed"} : Ended(p, at)
    BY <1>4 DEF ReadBody, Phases
  <2> QED BY <2>1, EndKeeps
<1> QED BY <1>1, <1>2, <1>3, <1>4 DEF PullStep

\* No puller moves.
LEMMA RestKeeps ==
    ASSUME PullInv, HistNext, pull' = pull, counter' \in Origins, health' \in [Origins -> Health] PROVE PullInv'
<1>1. PullTypeOK'
  BY TypedRec DEF PullInv, PullTypeOK, PullRec, Phases
<1>2. \A p \in Pullers : Budgeted(p)' /\ Unwell(p)' /\ Unserved(p)'
  BY OthersKeep
<1> QED BY <1>1, <1>2, SteadyTyped DEF PullInv

LEMMA TickKeeps == ASSUME PullInv, HistNext, PullTick PROVE PullInv'
<1>1. counter \in Origins /\ health \in [Origins -> Health] /\ pull \in [Pullers -> PullRec] /\ UNCHANGED <<counter, health>>
  BY TypedRec DEF PullInv, PullTick
<1>2. ASSUME NEW p \in Pullers
      PROVE  /\ pull'[p] \in PullRec /\ pull'[p].at = pull[p].at
             /\ pull'[p].attempt = pull[p].attempt /\ pull'[p].start = pull[p].start
             /\ Trying(p) => pull'[p].left = pull[p].left - 1 /\ pull'[p].budget = pull[p].budget - 1
  <2>1. pull[p] \in PullRec
    BY <1>1
  <2>2. CASE ~Trying(p)
    BY <2>1, <2>2 DEF PullTick
  <2>3. CASE Trying(p)
    <3>1. pull[p].left > 0 /\ pull[p].budget > 0 /\ pull[p].left \in 0 .. Timeout /\ pull[p].budget \in 0 .. Budget
      BY <2>1, <2>3 DEF PullTick, PullRec
    <3>2. Earlier(pull[p].left) = pull[p].left - 1 /\ Earlier(pull[p].budget) = pull[p].budget - 1
      BY <3>1, BudgetParts, PullAssumption DEF Earlier
    <3>3. pull[p].left - 1 \in 0 .. Timeout /\ pull[p].budget - 1 \in 0 .. Budget
      BY <3>1, BudgetParts, PullAssumption
    <3>4. pull'[p] = [pull[p] EXCEPT !.left = Earlier(pull[p].left), !.budget = Earlier(pull[p].budget)]
      BY <2>3 DEF PullTick
    <3> QED BY <2>1, <3>2, <3>3, <3>4 DEF PullRec
  <2> QED BY <2>2, <2>3
<1>3. pull' \in [Pullers -> PullRec]
  BY <1>2 DEF PullTick
<1>4. PullTypeOK'
  BY <1>1, <1>3 DEF PullTypeOK, PullRec, Phases
<1>5. ASSUME NEW p \in Pullers PROVE Budgeted(p)' /\ Unwell(p)' /\ Unserved(p)'
  <2>1. pull[p].at \in Phases /\ pull[p].attempt \in 0 .. Retry /\ pull[p].left \in 0 .. Timeout
        /\ pull[p].budget \in 0 .. Budget
    BY <1>1 DEF PullRec
  <2>2. steady'[p] \subseteq steady[p]
    BY <1>2, <2>1 DEF HistNext, Trying
  <2>3. Budgeted(p) /\ Unwell(p) /\ Unserved(p)
    BY DEF PullInv
  <2>4. Unwell(p)' /\ Unserved(p)'
    BY <1>2, <2>2, <2>3 DEF Unwell, Unserved, Trying
  <2>5. Budgeted(p)'
    <3>1. TimeFor(pull[p].attempt) \in Nat /\ Timeout \in Nat /\ Budget \in Nat
      BY <2>1, BudgetParts, PullAssumption
    <3> QED BY <1>2, <2>1, <2>3, <3>1 DEF Budgeted, Trying
  <2> QED BY <2>4, <2>5
<1> QED BY <1>1, <1>4, <1>5, SteadyTyped DEF PullInv

-----------------------------------------------------------------------------
LEMMA PullInitInv == HistInit => PullInv
<1> SUFFICES ASSUME HistInit PROVE PullInv
  OBVIOUS
<1>1. Idle \in PullRec /\ Idle.at = "idle"
  BY ZeroParts DEF Idle, PullRec, Phases
<1>2. pull = [p \in Pullers |-> Idle] /\ counter \in Origins
  BY ZeroParts DEF HistInit, PullInit
<1>3. PullTypeOK
  BY <1>1, <1>2, TypedRec DEF HistInit, PullInit
<1> QED BY <1>1, <1>2, <1>3 DEF PullInv, Budgeted, Unwell, Unserved, Trying, HistInit

LEMMA PullStepInv == PullInv /\ [HistNext]_<<pullvars, steady>> => PullInv'
<1> SUFFICES ASSUME PullInv, [HistNext]_<<pullvars, steady>> PROVE PullInv'
  OBVIOUS
<1>1. counter \in Origins /\ health \in [Origins -> Health] /\ PullTypeOK
  BY TypedRec DEF PullInv
<1>2. ASSUME HistNext PROVE PullInv'
  <2>1. CASE Change
    <3>1. health' \in [Origins -> Health] /\ UNCHANGED <<counter, pull>>
      BY <1>1, <2>1 DEF Change
    <3> QED BY <1>1, <1>2, <3>1, RestKeeps
  <2>2. CASE PullElsewhere
    <3>1. counter' \in Origins
      BY <1>1, <2>2, PullAssumption DEF PullElsewhere, Origins
    <3> QED BY <1>1, <1>2, <2>2, <3>1, RestKeeps DEF PullElsewhere
  <2> QED BY <1>2, <2>1, <2>2, TickKeeps, PullKeeps, StepKeeps DEF HistNext, PullNext
<1>3. CASE UNCHANGED <<pullvars, steady>>
  BY <1>3 DEF PullInv, PullTypeOK, Budgeted, Unwell, Unserved, Trying, pullvars
<1> QED BY <1>2, <1>3

LEMMA PullSafe == HistFairSpec => []PullInv
BY PullInitInv, PullStepInv, PTL DEF HistFairSpec

\* Attempts at different origins, as many as there are, leave only the rest for those that were well.
LEMMA UnservedCounts == PullInv => FailsOnlyUnserved
<1> SUFFICES ASSUME PullInv, NEW p \in Pullers, pull[p].at = "failed"
             PROVE  Cardinality(steady[p]) + (IF Retry + 1 < N THEN Retry + 1 ELSE N) <= N
  BY DEF FailsOnlyUnserved
<1>1. PICK s \in Origins : \A i \in 0 .. Retry : Asked(s, i) \notin steady[p]
  BY DEF PullInv, Unserved
<1>2. PICK m : m = IF Retry + 1 < N THEN Retry + 1 ELSE N
  OBVIOUS
<1>3. PICK well : well = steady[p]
  OBVIOUS
<1>4. N \in Nat /\ N >= 1 /\ m \in Nat /\ m >= 1 /\ m <= N /\ m <= Retry + 1 /\ Retry \in Nat /\ well \subseteq Origins
  BY <1>2, <1>3, PullAssumption DEF PullInv
<1> DEFINE T == 0 .. m - 1
           rest == Origins \ well
           f == [i \in T |-> Asked(s, i)]
<1>5. f \in Injection(T, rest)
  <2>1. \A i \in T : i \in 0 .. Retry /\ i \in 0 .. N - 1 /\ i \in Nat
    BY <1>4
  <2>2. f \in [T -> rest]
    BY <1>1, <1>3, <2>1, AskedIsOrigin
  <2>3. ASSUME NEW i \in T, NEW j \in T, f[i] = f[j] PROVE i = j
    <3>1. (s + i) % N = (s + j) % N
      BY <2>3 DEF Asked
    <3> QED BY <2>1, <3>1, PullAssumption DEF Origins
  <2> QED BY <2>2, <2>3 DEF Injection, IsInjective
<1>6. IsFiniteSet(Origins) /\ Cardinality(Origins) = N
  BY <1>4, FS_Interval DEF Origins
<1>7. IsFiniteSet(T) /\ Cardinality(T) = m
  BY <1>4, FS_Interval
<1>8. IsFiniteSet(well) /\ IsFiniteSet(rest)
  BY <1>4, <1>6, FS_Subset
<1>9. m <= Cardinality(rest)
  BY <1>5, <1>7, <1>8, FS_Injection
<1>10. Cardinality(well) + Cardinality(rest) = N
  <2>1. well \cup rest = Origins /\ well \cap rest = {}
    BY <1>4
  <2>2. Cardinality(well \cup rest) = Cardinality(well) + Cardinality(rest) - Cardinality(well \cap rest)
    BY <1>8, FS_Union
  <2>3. Cardinality(well) \in Nat /\ Cardinality(rest) \in Nat /\ Cardinality({}) = 0
    BY <1>8, FS_CardinalityType, FS_EmptySet
  <2>4. Cardinality(Origins) = Cardinality(well) + Cardinality(rest) - Cardinality({})
    BY <2>1, <2>2
  <2> QED BY <1>6, <2>3, <2>4
<1>11. Cardinality(well) \in Nat /\ Cardinality(rest) \in Nat
  BY <1>8, FS_CardinalityType
<1> QED BY <1>2, <1>3, <1>4, <1>9, <1>10, <1>11

-----------------------------------------------------------------------------
\* The attempts are those of the loop, and the timers within what the configuration gives them, for any
\* number of origins, retries and pulls at once (puller.go 54-88).
THEOREM PullsTyped == HistFairSpec => []PullTypeOK
<1>1. PullInv => PullTypeOK
  BY DEF PullInv
<1> QED BY PullSafe, <1>1, PTL

\* A pull fails only if fewer origins than it left out have been well since it began: its attempts are at
\* different origins, and the budget never cuts one short (puller.go 54-66, router.go 165-169).
THEOREM FailuresAreUnserved == HistFairSpec => []FailsOnlyUnserved
BY PullSafe, UnservedCounts, PTL

=============================================================================
