----------------------------- MODULE MCCdnFlush -----------------------------
(***************************************************************************)
(* The life of one process of CdnNode on small instances, with the flushes *)
(* each request arrived after kept beside the model as a history.          *)
(***************************************************************************)
EXTENDS CdnNode

VARIABLES
    flushed,   \* creation time of the latest rule ever put in force for each key
    since,     \* what `flushed` was for the key of each request as it arrived
    calm       \* whether no flight of that key was under way as the flush check began and ended

flushvars == <<nodevars, flushed, since, calm>>

FlushInit ==
    /\ NodeInit
    /\ flushed = [k \in Keys |-> 0]
    /\ since = [c \in Clients |-> 0]
    /\ calm = [c \in Clients |-> TRUE]

Later(S, x) == CHOOSE t \in S \cup {x} : \A u \in S \cup {x} : u <= t
Arriving(c) == visit[c].key = None /\ visit'[c].key # None
CheckEnds(c) == visit[c].at \in {"check", "flush"} /\ visit'[c].at = "checked"
QuietKey(c) == group[visit'[c].key] = None

FlushRun ==
    /\ Serving
    /\ flushed' = [k \in Keys |-> Later({r.at : r \in {x \in rules' \ rules : k \in x.covers}}, flushed[k])]
    /\ since' = [c \in Clients |->
          IF Arriving(c) THEN flushed[visit'[c].key] ELSE IF visit'[c].key = None THEN 0 ELSE since[c]]
    /\ calm' = [c \in Clients |->
          \/ since'[c] = 0   \* no flush to honour
          \/ (calm[c] \/ Arriving(c)) /\ (Arriving(c) \/ CheckEnds(c) => QuietKey(c))]

FlushSpec == FlushInit /\ [][FlushRun]_flushvars

\* A request that arrives after a prefix or domain flush is never served an entry written before it
\* (flush/store.go 5-8), unless a flight of the key was under way as its flush check began or ended: it
\* may store, or hand over, an older entry.  It takes the check before every GetOrFetch (router.go 99-106),
\* the latest matching rule, one flight per key, and rules that outlive every entry older than they are.
FlushHonoured == \A c \in Clients : Served(c) /\ calm[c] => task[c].meta.at >= since[c]

FlushSymmetry == Permutations(Clients)
=============================================================================
