----------------------------- MODULE MCLRUCache -----------------------------
(***************************************************************************)
(* Small instances of LRUCache, with the order in which the keys were last *)
(* used kept beside the model as a history.                                *)
(***************************************************************************)
EXTENDS LRUCache

VARIABLE newer   \* the pairs <<x, y>> of keys of which x was used after y, or y never

\* The keys a step uses: those a lookup found, and those a Set recorded.
Used == {k \in Keys : \E c \in Callers :
            /\ call'[c] # call[c] /\ call'[c].key = k
            /\ call'[c].op = "get.read" \/ (call[c].op = "set.index" /\ call'[c].op = "set.ok")}

RecentInit == Init /\ newer = {}
RecentNext == Next /\ newer' = {p \in newer : p[2] \notin Used} \cup (Used \X (Keys \ Used))
RecentSpec == RecentInit /\ [][RecentNext]_<<vars, newer>>

\* The list is in the order of use: no lookup or Set, however it interleaves with others, leaves an
\* entry where eviction would take it too early or too late (cache.go 78, 103-109: MoveToFront and
\* PushFront).
RecencyOrder == \A i, j \in 1 .. Len(lru) : i < j => <<lru[i], lru[j]>> \in newer

Inserting == \E c \in Callers : call[c].op = "set.index" /\ call'[c].op = "set.ok"

TailOnly ==
    Inserting => \A k \in Keys : items[k] # None /\ items'[k] = None =>
        /\ Len(lru) = MaxItems
        /\ \A x \in Keys : items'[x] # None => <<x, k>> \in newer'

\* A Set drops another key's entry only when the cache is full, and then the one used least
\* recently (evictLocked 146-156 takes the tail, which a concurrent Get may just have moved).
EvictsLeastRecent == [][TailOnly]_<<vars, newer>>

Symmetry == Permutations(Keys) \cup Permutations(Callers)
=============================================================================
