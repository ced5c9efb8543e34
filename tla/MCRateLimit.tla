---------------------------- MODULE MCRateLimit ----------------------------
(***************************************************************************)
(* Small instances of RateLimit, with the times at which requests of each  *)
(* key were let through kept beside the model as a history.                *)
(***************************************************************************)
EXTENDS RateLimit, FiniteSets, TLC

CONSTANT Remembered   \* how many of the last requests of a key the history keeps

ASSUME HistoryAssumption == Remembered \in Nat /\ Remembered > Rate

VARIABLE passed   \* by key, in order; unlike the limiters it survives the cleanup

passvars == <<limitvars, passed>>

Last(s) == IF Len(s) > Remembered THEN SubSeq(s, Len(s) - Remembered + 1, Len(s)) ELSE s

HistInit == LimitInit /\ passed = [k \in Slots |-> <<>>]
Requests ==
    \E c \in Clients : \E g \in Config :
        LET k == KeyOf(c, g) IN
        \/ Pass(c, g) /\ passed' = [passed EXCEPT ![k] = Last(Append(@, now))]
        \/ Reject(c, g) /\ UNCHANGED passed
HistNext == Requests \/ ((LimitTick \/ Wake \/ Sweep) /\ UNCHANGED passed)
HistSpec == HistInit /\ [][HistNext]_passvars

Is(algorithm) == config # None /\ config.algorithm = algorithm

\* The sliding window is a hard limit: a key gets at most Rate requests in any second, wherever the
\* second begins and whatever the cleanup removed in between (ratelimit.go 124-129, 154-169).
WindowHolds == Is("sliding_window") =>
    \A k \in Slots : \A i \in Rate + 1 .. Len(passed[k]) : passed[k][i] >= passed[k][i - Rate] + Window

InWindow(k) == {i \in 1 .. Len(passed[k]) : passed[k][i] + Window > now}

\* Nobody is refused who stays within the rate: a key is refused only if Rate of its requests were
\* let through in the last second, however many were refused (ratelimit.go 166-169).
NoUnjustRejection ==
    [][\A c \in Clients : \A g \in Config :
          Reject(c, g) /\ Sliding(g) => Cardinality(InWindow(KeyOf(c, g))) >= Rate]_passvars

\* A token bucket never gives more than its burst and what the time was worth ("rate" requests a
\* second and "burst", the capacity of the bucket: doc/code-structure.md:172).  cleanup drops a bucket
\* and the next request gets a full one, so this needs a bucket that refills within the idle time.
BucketHolds == Is("token_bucket") =>
    \A k \in Slots : \A i, j \in 1 .. Len(passed[k]) :
        i <= j => (j - i + 1) * Window <= Burst * Window + (passed[k][j] - passed[k][i]) * Rate

ClientSymmetry == Permutations(Clients)
=============================================================================
