------------------------------- MODULE Puller -------------------------------
(***************************************************************************)
(* internal/origin/puller.go: pulls of one domain, each under the budget   *)
(* that originFetch of internal/domain/router.go gives it.                 *)
(*                                                                         *)
(* Only the rest of the counter modulo the number of origins matters (a    *)
(* counter below 2^63, as int(...) is negative from there on).  Timers are *)
(* the time that is left, and fire on time: time does not pass over one.   *)
(***************************************************************************)
EXTENDS Naturals

CONSTANTS
    Pullers,   \* goroutines that may be in Pull at once
    N,         \* number of origins of the domain
    Retry,     \* origin_retry
    Timeout    \* origin_timeout

\* A domain without origins is turned away at once; Defaults gives the timeout and Retry >= 0.
ASSUME PullAssumption == N \in Nat \ {0} /\ Retry \in Nat /\ Timeout \in Nat \ {0}

VARIABLES
    counter,   \* the round-robin counter
    health,    \* what each origin does with a request now
    pull       \* where each puller is

pullvars == <<counter, health, pull>>

Origins == 0 .. N - 1
\* It answers in time; it refuses or answers 5xx; it does not answer.
Health == {"ok", "error", "slow"}

\* Mutant: the budget is that of the retries alone.
BudgetShort == Timeout * Retry

Budget == Timeout * (Retry + 2)
Idle == [at |-> "idle", start |-> 0, attempt |-> 0, left |-> 0, budget |-> 0]

PullInit ==
    /\ counter = 0
    /\ health \in [Origins -> Health]
    /\ pull = [p \in Pullers |-> Idle]

-----------------------------------------------------------------------------
Trying(p) == pull[p].at = "attempt"
Target(p) == (pull[p].start + pull[p].attempt) % N
Ended(p, at) == pull' = [pull EXCEPT ![p] = [Idle EXCEPT !.at = at]] /\ UNCHANGED <<counter, health>>

Pull(p) ==
    /\ pull[p].at \in {"idle", "read", "broken", "failed"}
    /\ pull' = [pull EXCEPT ![p] =
          [at |-> "attempt", start |-> counter, attempt |-> 0, left |-> Timeout, budget |-> Budget]]
    /\ counter' = (counter + 1) % N
    /\ UNCHANGED health

\* The counter is shared by all domains.
PullElsewhere == counter' = (counter + 1) % N /\ UNCHANGED <<health, pull>>

\* Any answer below 500 ends the pull, redirects and 404 included.
Answer(p) == Trying(p) /\ health[Target(p)] = "ok" /\ Ended(p, "ok")

\* Mutants: one attempt too many; attempts are not counted.
NextOneMore(p) ==
    IF pull[p].attempt > Retry THEN Ended(p, "failed")
    ELSE /\ pull' = [pull EXCEPT ![p].attempt = @ + 1, ![p].left = Timeout]
         /\ UNCHANGED <<counter, health>>
NextForever(p) == pull' = [pull EXCEPT ![p].left = Timeout] /\ UNCHANGED <<counter, health>>

NextAttempt(p) ==
    IF pull[p].attempt = Retry THEN Ended(p, "failed")
    ELSE /\ pull' = [pull EXCEPT ![p].attempt = @ + 1, ![p].left = Timeout]
         /\ UNCHANGED <<counter, health>>

Refuse(p) == Trying(p) /\ health[Target(p)] = "error" /\ NextAttempt(p)

\* The attempt's own timer, or the budget of the whole pull.
Expire(p) ==
    /\ Trying(p)
    /\ pull[p].budget = 0 \/ (pull[p].left = 0 /\ health[Target(p)] # "ok")
    /\ NextAttempt(p)

\* do cancels the context of the attempt as it returns, before the body is read: what has arrived by
\* then may still be read, the rest may not.
ReadBody(p) == pull[p].at = "ok" /\ (Ended(p, "read") \/ Ended(p, "broken"))

PullStep(p) == Answer(p) \/ Refuse(p) \/ Expire(p) \/ ReadBody(p)

\* Origins come and go as they like.
Change == \E o \in Origins : \E h \in Health \ {health[o]} :
    health' = [health EXCEPT ![o] = h] /\ UNCHANGED <<counter, pull>>

Earlier(t) == IF t = 0 THEN 0 ELSE t - 1
PullTick ==
    /\ \E p \in Pullers : Trying(p)
    /\ \A p \in Pullers : Trying(p) => pull[p].left > 0 /\ pull[p].budget > 0
    /\ pull' = [p \in Pullers |-> IF Trying(p)
          THEN [pull[p] EXCEPT !.left = Earlier(@), !.budget = Earlier(@)] ELSE pull[p]]
    /\ UNCHANGED <<counter, health>>

PullNext ==
    \/ Change \/ PullTick \/ PullElsewhere
    \/ \E p \in Pullers : Pull(p) \/ PullStep(p)

PullSpec == PullInit /\ [][PullNext]_pullvars

\* Goroutines run and time passes.
PullFairSpec == PullSpec /\ WF_pullvars(PullTick) /\ \A p \in Pullers : WF_pullvars(PullStep(p))

-----------------------------------------------------------------------------
\* Types of the variables; the attempts are those of the loop (puller.go 58).
PullTypeOK ==
    /\ counter \in Origins
    /\ health \in [Origins -> Health]
    /\ pull \in [Pullers ->
          [at : {"idle", "attempt", "ok", "read", "broken", "failed"}, start : Origins,
           attempt : 0 .. Retry, left : 0 .. Timeout, budget : 0 .. Budget]]

\* Every pull ends, however the origins behave: there is a timer for each attempt and the attempts
\* are counted (puller.go 58-66, 71).
PullEnds == \A p \in Pullers : Trying(p) ~> ~Trying(p)
=============================================================================
