----------------------------- MODULE FetchOnce -----------------------------
(***************************************************************************)
(* What the read-through cache promises of each key, whoever asks: it is   *)
(* fetched only while it is neither cached nor being fetched, a fetch ends *)
(* with the key cached or not, and at most Capacity keys are cached.       *)
(* "fetch() is called at most once per key regardless of how many          *)
(* goroutines concurrently trigger a miss for the same key"                *)
(* (internal/cache/singleflight.go 29-31).                                 *)
(***************************************************************************)
EXTENDS Naturals, FiniteSets

CONSTANTS Keys, Capacity

VARIABLE entry   \* of each key: "absent", "fetching" or "cached"

Become(k, from, to) == entry[k] = from /\ entry' = [entry EXCEPT ![k] = to]
Cached == {k \in Keys : entry[k] = "cached"}

FetchInit == entry = [k \in Keys |-> "absent"]

Start(k) == Become(k, "absent", "fetching")
Fail(k) == Become(k, "fetching", "absent")
Drop(k) == Become(k, "cached", "absent")

\* A full cache makes room by dropping one other key.
Finish(k) ==
    /\ entry[k] = "fetching"
    /\ \E out \in SUBSET Cached :
          /\ IF Cardinality(Cached) < Capacity THEN out = {} ELSE Cardinality(out) = 1
          /\ entry' = [x \in Keys |-> IF x = k THEN "cached" ELSE IF x \in out THEN "absent" ELSE entry[x]]

FetchNext == \E k \in Keys : Start(k) \/ Fail(k) \/ Drop(k) \/ Finish(k)
FetchSpec == FetchInit /\ [][FetchNext]_entry
=============================================================================
