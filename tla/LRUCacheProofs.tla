--------------------------- MODULE LRUCacheProofs ---------------------------
(***************************************************************************)
(* The types of LRUCache, that its list and map stay in step within the    *)
(* capacity, and that the list is in the order of use, for every set of    *)
(* keys and callers and every capacity.                                    *)
(***************************************************************************)
EXTENDS MCLRUCache, SequenceTheorems, TLAPS

Listed(s, k) == \E i \in 1 .. Len(s) : s[i] = k
Distinct(s) == \A i, j \in 1 .. Len(s) : s[i] = s[j] => i = j

-----------------------------------------------------------------------------
\* Taking one element out of a list moves those behind it one place up.
LEMMA RemovedElements ==
    ASSUME NEW s \in Seq(Keys), NEW p \in 1 .. Len(s)
    PROVE  /\ RemoveAt(s, p) \in Seq(Keys) /\ Len(RemoveAt(s, p)) = Len(s) - 1
           /\ \A i \in 1 .. Len(s) - 1 : RemoveAt(s, p)[i] = IF i < p THEN s[i] ELSE s[i + 1]
<1> DEFINE before == SubSeq(s, 1, p - 1)
           after == SubSeq(s, p + 1, Len(s))
           r == RemoveAt(s, p)
<1>1. Len(s) \in Nat /\ \A i \in 1 .. Len(s) : s[i] \in Keys
  BY LenProperties, ElementOfSeq
<1>2. /\ before \in Seq(Keys) /\ Len(before) = p - 1
      /\ \A i \in 1 .. p - 1 : before[i] = s[i]
  <2>1. \A i \in 1 .. p - 1 : s[i] \in Keys
    BY <1>1
  <2>2. p - 1 \in Int /\ 1 \in Int
    OBVIOUS
  <2> QED
    BY <1>1, <2>1, <2>2, SubSeqProperties, Z3
<1>3. /\ after \in Seq(Keys) /\ Len(after) = Len(s) - p
      /\ \A i \in 1 .. Len(s) - p : after[i] = s[p + i]
  <2>1. \A i \in p + 1 .. Len(s) : s[i] \in Keys
    BY <1>1
  <2>2. p + 1 \in Int /\ Len(s) \in Int
    BY <1>1
  <2> QED
    BY <1>1, <2>1, <2>2, SubSeqProperties, Z3
<1>4. r = before \o after
  BY DEF RemoveAt
<1> HIDE DEF before, after, r
<1>5. /\ r \in Seq(Keys) /\ Len(r) = Len(before) + Len(after)
      /\ \A i \in 1 .. Len(before) + Len(after) :
            r[i] = IF i <= Len(before) THEN before[i] ELSE after[i - Len(before)]
  BY <1>2, <1>3, <1>4, ConcatProperties
<1>6. \A i \in 1 .. Len(s) - 1 : r[i] = IF i < p THEN s[i] ELSE s[i + 1]
  <2> TAKE i \in 1 .. Len(s) - 1
  <2>1. CASE i < p
    <3>1. i \in 1 .. p - 1 /\ i \in 1 .. Len(before) + Len(after) /\ i <= Len(before)
      BY <1>1, <1>2, <1>3, <2>1
    <3> QED BY <1>2, <1>5, <2>1, <3>1
  <2>2. CASE ~(i < p)
    <3>1. i - (p - 1) \in 1 .. Len(s) - p /\ p + (i - (p - 1)) = i + 1
      BY <1>1, <2>2
    <3>2. r[i] = after[i - (p - 1)]
      BY <1>1, <1>2, <1>3, <1>5, <2>2
    <3>3. after[i - (p - 1)] = s[p + (i - (p - 1))]
      BY <1>3, <3>1
    <3> QED BY <2>2, <3>1, <3>2, <3>3
  <2> QED BY <2>1, <2>2
<1>7. r \in Seq(Keys) /\ Len(r) = Len(s) - 1
  BY <1>1, <1>2, <1>3, <1>5
<1> QED
  BY <1>6, <1>7 DEF r

\* The list that is left is one of distinct keys again, all but the one taken out.
LEMMA RemoveListed ==
    ASSUME NEW s \in Seq(Keys), Distinct(s), NEW p \in 1 .. Len(s)
    PROVE  /\ RemoveAt(s, p) \in Seq(Keys)
           /\ Len(RemoveAt(s, p)) = Len(s) - 1
           /\ Distinct(RemoveAt(s, p))
           /\ \A x \in Keys : Listed(RemoveAt(s, p), x) <=> Listed(s, x) /\ x # s[p]
<1> DEFINE r == RemoveAt(s, p)
<1>1. Len(s) \in Nat /\ \A i \in 1 .. Len(s) : s[i] \in Keys
  BY LenProperties, ElementOfSeq
<1>2. /\ r \in Seq(Keys) /\ Len(r) = Len(s) - 1
      /\ \A i \in 1 .. Len(s) - 1 : r[i] = IF i < p THEN s[i] ELSE s[i + 1]
  BY RemovedElements
<1> HIDE DEF r
<1>3. Distinct(r)
  <2> SUFFICES ASSUME NEW i \in 1 .. Len(r), NEW j \in 1 .. Len(r), r[i] = r[j] PROVE i = j
    BY DEF Distinct
  <2> DEFINE old(n) == IF n < p THEN n ELSE n + 1
  <2>1. i \in 1 .. Len(s) - 1 /\ j \in 1 .. Len(s) - 1
    BY <1>1, <1>2
  <2>2. r[i] = s[old(i)] /\ r[j] = s[old(j)]
    BY <1>2, <2>1
  <2>3. old(i) \in 1 .. Len(s) /\ old(j) \in 1 .. Len(s)
    BY <1>1, <2>1
  <2>4. old(i) = old(j)
    BY <2>2, <2>3 DEF Distinct
  <2> QED BY <1>1, <2>1, <2>4
<1>4. ASSUME NEW x \in Keys PROVE Listed(r, x) <=> Listed(s, x) /\ x # s[p]
  <2>1. ASSUME NEW i \in 1 .. Len(r), r[i] = x PROVE Listed(s, x) /\ x # s[p]
    BY <1>1, <1>2, <2>1 DEF Listed, Distinct
  <2>2. ASSUME NEW i \in 1 .. Len(s), s[i] = x, x # s[p] PROVE Listed(r, x)
    <3>1. CASE i < p
      <4>1. i \in 1 .. Len(r) /\ r[i] = x
        BY <1>1, <1>2, <2>2, <3>1
      <4> QED BY <4>1 DEF Listed
    <3>2. CASE i > p
      <4>1. i - 1 \in 1 .. Len(r) /\ r[i - 1] = x
        BY <1>1, <1>2, <2>2, <3>2
      <4> QED BY <4>1 DEF Listed
    <3> QED BY <2>2, <3>1, <3>2
  <2> QED BY <2>1, <2>2 DEF Listed
<1> QED BY <1>2, <1>3, <1>4 DEF r

\* A key put before a list of other keys.
LEMMA PutFront ==
    ASSUME NEW s \in Seq(Keys), Distinct(s), NEW k \in Keys, ~Listed(s, k)
    PROVE  /\ <<k>> \o s \in Seq(Keys)
           /\ Len(<<k>> \o s) = Len(s) + 1
           /\ Distinct(<<k>> \o s)
           /\ \A x \in Keys : Listed(<<k>> \o s, x) <=> Listed(s, x) \/ x = k
<1> DEFINE t == <<k>> \o s
<1>1. Len(s) \in Nat /\ <<k>> \in Seq(Keys) /\ Len(<<k>>) = 1 /\ <<k>>[1] = k
  BY LenProperties
<1>2. /\ t \in Seq(Keys) /\ Len(t) = Len(s) + 1
      /\ \A i \in 1 .. Len(s) + 1 : t[i] = IF i = 1 THEN k ELSE s[i - 1]
  <2>1. /\ t \in Seq(Keys) /\ Len(t) = Len(<<k>>) + Len(s)
        /\ \A i \in 1 .. Len(<<k>>) + Len(s) :
              t[i] = IF i <= Len(<<k>>) THEN <<k>>[i] ELSE s[i - Len(<<k>>)]
    BY <1>1, ConcatProperties
  <2> QED BY <1>1, <2>1
<1>3. Distinct(t)
  BY <1>1, <1>2 DEF Distinct, Listed
<1>4. ASSUME NEW x \in Keys PROVE Listed(t, x) <=> Listed(s, x) \/ x = k
  <2>1. ASSUME NEW i \in 1 .. Len(t), t[i] = x PROVE Listed(s, x) \/ x = k
    BY <1>1, <1>2, <2>1 DEF Listed
  <2>2. ASSUME NEW i \in 1 .. Len(s), s[i] = x PROVE Listed(t, x)
    <3>1. i + 1 \in 1 .. Len(t) /\ t[i + 1] = x
      BY <1>1, <1>2, <2>2
    <3> QED BY <3>1 DEF Listed
  <2>3. Listed(t, k)
    <3>1. 1 \in 1 .. Len(t) /\ t[1] = k
      BY <1>1, <1>2
    <3> QED BY <3>1 DEF Listed
  <2> QED BY <2>1, <2>2, <2>3 DEF Listed
<1> QED BY <1>2, <1>3, <1>4

\* What evictLocked keeps of a list is its first MaxItems keys.
LEMMA KeptFront ==
    ASSUME NEW s \in Seq(Keys), Distinct(s)
    PROVE  /\ Kept(s) \in Seq(Keys)
           /\ Len(Kept(s)) \in Nat /\ Len(Kept(s)) <= Len(s) /\ Len(Kept(s)) <= MaxItems
           /\ Distinct(Kept(s))
           /\ \A i \in 1 .. Len(Kept(s)) : Kept(s)[i] = s[i]
<1>1. Len(s) \in Nat /\ \A i \in 1 .. Len(s) : s[i] \in Keys
  BY LenProperties, ElementOfSeq
<1>2. CASE Len(s) > MaxItems
  <2>1. /\ SubSeq(s, 1, MaxItems) \in Seq(Keys) /\ Len(SubSeq(s, 1, MaxItems)) = MaxItems
        /\ \A i \in 1 .. MaxItems : SubSeq(s, 1, MaxItems)[i] = s[i]
    <3>1. \A i \in 1 .. MaxItems : s[i] \in Keys
      BY <1>1, <1>2, CapacityAssumption
    <3>2. MaxItems \in Int /\ 1 \in Int /\ 1 <= MaxItems
      BY CapacityAssumption
    <3> QED BY <3>1, <3>2, SubSeqProperties, Z3
  <2> QED BY <1>1, <1>2, <2>1, CapacityAssumption DEF Kept, Distinct
<1>3. CASE ~(Len(s) > MaxItems)
  BY <1>1, <1>3, CapacityAssumption DEF Kept
<1> QED BY <1>2, <1>3

-----------------------------------------------------------------------------
\* The two parts of the invariant are used by these names.
Capacity == Len(lru) <= MaxItems
MapMatchesList == \A k \in Keys : items[k] # None <=> Listed(lru, k)

LEMMA IndexParts == IndexConsistent <=> MapMatchesList /\ Distinct(lru) /\ Capacity
  BY DEF IndexConsistent, MapMatchesList, Listed, Distinct, Capacity

\* The list without a key, as removeLocked leaves it.
LEMMA WithoutKey ==
    ASSUME TypeOK, IndexConsistent, NEW k \in Keys
    PROVE  /\ Without(k) \in Seq(Keys)
           /\ Len(Without(k)) \in Nat
           /\ Len(Without(k)) <= Len(lru) /\ (items[k] # None => Len(Without(k)) = Len(lru) - 1)
           /\ Distinct(Without(k))
           /\ \A x \in Keys : Listed(Without(k), x) <=> Listed(lru, x) /\ x # k
<1>1. lru \in Seq(Keys) /\ Len(lru) \in Nat
  BY LenProperties DEF TypeOK
<1>2. MapMatchesList /\ Distinct(lru)
  BY IndexParts
<1>3. CASE items[k] = None
  BY <1>1, <1>2, <1>3 DEF Without, MapMatchesList
<1>4. CASE items[k] # None
  <2>1. Position(k) \in 1 .. Len(lru) /\ lru[Position(k)] = k
    BY <1>2, <1>4 DEF MapMatchesList, Listed, Position
  <2>2. Without(k) = RemoveAt(lru, Position(k))
    BY <1>4 DEF Without
  <2> QED BY <1>1, <1>2, <1>4, <2>1, <2>2, RemoveListed, LenProperties
<1> QED BY <1>3, <1>4

\* The list after a hit or an update: the same keys, the used one first.
LEMMA MovedToFront ==
    ASSUME TypeOK, IndexConsistent, NEW k \in Keys, items[k] # None, ToFront(k)
    PROVE  /\ lru' \in Seq(Keys) /\ Len(lru') = Len(lru)
           /\ Distinct(lru')
           /\ \A x \in Keys : Listed(lru', x) <=> Listed(lru, x)
<1>1. Len(lru) \in Nat
  BY LenProperties DEF TypeOK
<1>2. Listed(lru, k)
  BY IndexParts DEF MapMatchesList
<1> QED BY <1>1, <1>2, WithoutKey, PutFront DEF ToFront

-----------------------------------------------------------------------------
\* What a new record in `call` has to satisfy.
CallOK(r) ==
    /\ r \in Call
    /\ r.op \in Underway => r.key \in Keys
    /\ r.op \in {"get.read", "set.meta", "set.index"} => r.meta \in Meta

\* Entering or leaving the cache keeps the calls well typed.
LEMMA EnterTyped ==
    ASSUME TypeOK, NEW c \in Callers, NEW op \in {"idle"} \cup Underway \cup Results,
           NEW k \in Keys \cup {None}, NEW m \in Meta \cup {None},
           op \in Underway => k \in Keys,
           op \in {"get.read", "set.meta", "set.index"} => m \in Meta,
           Enter(c, op, k, m)
    PROVE  call' \in [Callers -> Call] /\ \A d \in Callers : CallOK(call'[d])
<1> DEFINE r == [op |-> op, key |-> k, meta |-> m, body |-> None]
<1>1. r \in Call
  BY DEF Call
<1>2. \A d \in Callers : CallOK(call[d])
  BY DEF TypeOK, CallOK
<1>3. CallOK(r)
  BY <1>1 DEF CallOK
<1>4. call \in [Callers -> Call] /\ call' = [call EXCEPT ![c] = r]
  BY DEF TypeOK, Enter
<1> HIDE DEF r
<1> QED BY <1>1, <1>2, <1>3, <1>4


-----------------------------------------------------------------------------
\* The parts of the invariant that a step on the index can disturb.
IndexOK == items \in [Keys -> Meta \cup {None}] /\ lru \in Seq(Keys) /\ IndexConsistent

\* removeLocked: the key leaves the map and the list.
LEMMA UnindexKeepsIndex ==
    ASSUME TypeOK, IndexConsistent, NEW k \in Keys, Unindex(k)
    PROVE  IndexOK'
<1>1. items' \in [Keys -> Meta \cup {None}] /\ lru' = Without(k)
  BY DEF Unindex, TypeOK
<1>2. lru \in Seq(Keys) /\ Len(lru) \in Nat
  BY LenProperties DEF TypeOK
<1>3. lru' \in Seq(Keys) /\ Len(lru') \in Nat /\ Len(lru') <= Len(lru) /\ Distinct(lru')
      /\ \A x \in Keys : Listed(lru', x) <=> Listed(lru, x) /\ x # k
  BY <1>1, WithoutKey
<1>4. \A x \in Keys : items'[x] # None <=> items[x] # None /\ x # k
  BY DEF Unindex, TypeOK
<1>5. \A x \in Keys : items'[x] # None <=> Listed(lru', x)
  BY <1>3, <1>4, IndexParts DEF MapMatchesList
<1>6. Len(lru') <= MaxItems
  BY <1>2, <1>3, CapacityAssumption DEF IndexConsistent
<1> QED BY <1>1, <1>3, <1>5, <1>6 DEF IndexOK, IndexConsistent, Listed, Distinct

\* A hit, or an update of an entry with new metadata: the key moves to the front of the list.
LEMMA ToFrontKeepsIndex ==
    ASSUME TypeOK, IndexConsistent, NEW k \in Keys, items[k] # None, ToFront(k),
           NEW m \in Meta, items' = [items EXCEPT ![k] = m]
    PROVE  IndexOK'
<1>1. /\ lru' \in Seq(Keys) /\ Len(lru') = Len(lru) /\ Distinct(lru')
      /\ \A x \in Keys : Listed(lru', x) <=> Listed(lru, x)
  BY MovedToFront
<1>2. m # None
  BY NoneAssumption DEF Meta
<1>3. items' \in [Keys -> Meta \cup {None}] /\ \A x \in Keys : items'[x] # None <=> items[x] # None
  BY <1>2 DEF TypeOK
<1>4. \A x \in Keys : items'[x] # None <=> Listed(lru', x)
  BY <1>1, <1>3, IndexParts DEF MapMatchesList
<1> QED BY <1>1, <1>3, <1>4 DEF IndexOK, IndexConsistent, Listed, Distinct

\* Neither map nor list changes.
LEMMA SameIndex ==
    ASSUME TypeOK, IndexConsistent, UNCHANGED index
    PROVE  IndexOK'
BY DEF IndexOK, IndexConsistent, TypeOK, index

\* A new entry: the map loses exactly the keys that evictLocked takes off the list.
LEMMA InsertKeepsIndex ==
    ASSUME TypeOK, IndexConsistent, NEW c \in Callers, SetInsert(c)
    PROVE  IndexOK'
<1> DEFINE k == call[c].key
           m == call[c].meta
           all == <<k>> \o lru
           evicted == {all[i] : i \in Len(Kept(all)) + 1 .. Len(all)}
<1>1. /\ k \in Keys /\ m \in Meta /\ m # None
      /\ items \in [Keys -> Meta \cup {None}] /\ lru \in Seq(Keys)
  BY NoneAssumption DEF TypeOK, SetInsert, At, Underway, Meta
<1>2. items[k] = None /\ lru' = Kept(all)
      /\ items' = [x \in Keys |-> IF x \in evicted THEN None ELSE IF x = k THEN m ELSE items[x]]
  BY DEF SetInsert
<1>3. ~Listed(lru, k) /\ Distinct(lru)
  BY <1>1, <1>2, IndexParts DEF MapMatchesList
<1>4. /\ all \in Seq(Keys) /\ Distinct(all)
      /\ \A x \in Keys : Listed(all, x) <=> Listed(lru, x) \/ x = k
  BY <1>1, <1>3, PutFront
<1> HIDE DEF k, m, all
<1>5. Len(all) \in Nat /\ \A i \in 1 .. Len(all) : all[i] \in Keys
  BY <1>4, LenProperties, ElementOfSeq
<1>6. /\ Kept(all) \in Seq(Keys)
      /\ Len(Kept(all)) \in Nat /\ Len(Kept(all)) <= Len(all) /\ Len(Kept(all)) <= MaxItems
      /\ Distinct(Kept(all))
      /\ \A i \in 1 .. Len(Kept(all)) : Kept(all)[i] = all[i]
  BY <1>4, KeptFront
<1>7. \A x \in Keys : Listed(Kept(all), x) <=> Listed(all, x) /\ x \notin evicted
  <2> TAKE x \in Keys
  <2>1. ASSUME NEW i \in 1 .. Len(Kept(all)), Kept(all)[i] = x PROVE Listed(all, x) /\ x \notin evicted
    <3>1. i \in 1 .. Len(all) /\ all[i] = x
      BY <1>5, <1>6, <2>1
    <3>2. \A j \in Len(Kept(all)) + 1 .. Len(all) : all[j] # x
      BY <1>4, <1>5, <1>6, <3>1 DEF Distinct
    <3> QED BY <3>1, <3>2 DEF Listed
  <2>2. ASSUME NEW i \in 1 .. Len(all), all[i] = x, x \notin evicted PROVE Listed(Kept(all), x)
    <3>1. i \notin Len(Kept(all)) + 1 .. Len(all)
      BY <2>2
    <3>2. i \in 1 .. Len(Kept(all))
      BY <1>5, <1>6, <3>1
    <3>3. Kept(all)[i] = x
      BY <1>6, <2>2, <3>2
    <3> QED BY <3>2, <3>3 DEF Listed
  <2> QED BY <2>1, <2>2 DEF Listed
<1>8. \A x \in Keys : items'[x] # None <=> (Listed(lru, x) \/ x = k) /\ x \notin evicted
  <2>1. \A x \in Keys : items[x] # None <=> Listed(lru, x)
    BY IndexParts DEF MapMatchesList
  <2> HIDE DEF evicted
  <2> QED BY <1>1, <1>2, <2>1
<1>9. items' \in [Keys -> Meta \cup {None}]
  <2> HIDE DEF evicted
  <2> QED BY <1>1, <1>2
<1>10. \A x \in Keys : items'[x] # None <=> Listed(lru', x)
  <2> HIDE DEF evicted
  <2> QED BY <1>2, <1>4, <1>7, <1>8
<1>11. lru' \in Seq(Keys) /\ Len(lru') <= MaxItems /\ Distinct(lru')
  BY <1>2, <1>6
<1> QED BY <1>9, <1>10, <1>11 DEF IndexOK, IndexConsistent, Listed, Distinct


-----------------------------------------------------------------------------
\* The invariant, put together from the index, the storage, the calls and the counters.
CacheInv == TypeOK /\ IndexConsistent
CallsOK == call \in [Callers -> Call] /\ \A c \in Callers : CallOK(call[c])
RestOK == disk \in [Keys -> Nat \cup {None}] /\ now \in Nat /\ bodies \in Nat

LEMMA InvParts == CacheInv <=> IndexOK /\ CallsOK /\ RestOK
  BY DEF CacheInv, TypeOK, IndexOK, CallsOK, CallOK, RestOK

\* What the record of a caller inside the cache holds.
LEMMA CallTyped ==
    ASSUME CacheInv, NEW c \in Callers
    PROVE  /\ call[c] \in Call
           /\ call[c].op \in Underway => call[c].key \in Keys
           /\ call[c].op \in {"get.read", "set.meta", "set.index"} => call[c].meta \in Meta
  BY DEF CacheInv, TypeOK

\* A lookup, whatever it finds, keeps the invariant.
LEMMA GetLookupKeeps ==
    ASSUME CacheInv, NEW c \in Callers, NEW k \in Keys, GetLookup(c, k)
    PROVE  CacheInv'
<1>1. RestOK'
  BY InvParts DEF GetLookup, RestOK
<1>2. items[k] \in Meta \cup {None}
  BY DEF CacheInv, TypeOK
<1>3. CASE items[k] = None /\ Enter(c, "get.miss", k, None) /\ UNCHANGED index
  <2>1. IndexOK'
    BY <1>3, SameIndex DEF CacheInv
  <2>2. CallsOK'
    BY <1>3, EnterTyped DEF CacheInv, CallsOK, Results, Underway
  <2> QED BY <1>1, <2>1, <2>2 DEF CacheInv, TypeOK, IndexOK, CallsOK, CallOK, RestOK
<1>4. CASE items[k] # None /\ Expired(items[k]) /\ Enter(c, "get.miss", k, None) /\ Unindex(k)
  <2>1. IndexOK'
    BY <1>4, UnindexKeepsIndex DEF CacheInv
  <2>2. CallsOK'
    BY <1>4, EnterTyped DEF CacheInv, CallsOK, Results, Underway
  <2> QED BY <1>1, <2>1, <2>2 DEF CacheInv, TypeOK, IndexOK, CallsOK, CallOK, RestOK
<1>5. CASE /\ items[k] # None /\ ~Expired(items[k])
           /\ Enter(c, "get.read", k, items[k])
           /\ ToFront(k) /\ UNCHANGED items
  <2>1. items[k] \in Meta /\ items' = [items EXCEPT ![k] = items[k]]
    BY <1>2, <1>5 DEF CacheInv, TypeOK
  <2>2. IndexOK'
    BY <1>5, <2>1, ToFrontKeepsIndex DEF CacheInv
  <2>3. CallsOK'
    BY <1>5, <2>1, EnterTyped DEF CacheInv, CallsOK, Results, Underway
  <2> QED BY <1>1, <2>2, <2>3 DEF CacheInv, TypeOK, IndexOK, CallsOK, CallOK, RestOK
<1> QED BY <1>3, <1>4, <1>5 DEF GetLookup

\* So do the two halves of Delete and Stat that run under the mutex.
LEMMA DeleteIndexKeeps ==
    ASSUME CacheInv, NEW c \in Callers, NEW k \in Keys, DeleteIndex(c, k)
    PROVE  CacheInv'
<1>1. IndexOK'
  BY UnindexKeepsIndex DEF CacheInv, DeleteIndex
<1>2. CallsOK'
  BY EnterTyped DEF CacheInv, DeleteIndex, CallsOK, Underway, Results
<1>3. RestOK'
  BY DEF CacheInv, TypeOK, DeleteIndex, RestOK
<1> QED BY <1>1, <1>2, <1>3 DEF CacheInv, TypeOK, IndexOK, CallsOK, CallOK, RestOK

LEMMA StatKeeps ==
    ASSUME CacheInv, NEW c \in Callers, NEW k \in Keys, Stat(c, k)
    PROVE  CacheInv'
<1>1. IndexOK'
  BY SameIndex DEF CacheInv, Stat
<1>2. CallsOK'
  <2>1. items[k] \in Meta \cup {None}
    BY DEF CacheInv, TypeOK
  <2>2. CASE items[k] = None
    BY <2>1, <2>2, EnterTyped DEF CacheInv, Stat, CallsOK, Underway, Results
  <2>3. CASE items[k] # None
    BY <2>1, <2>3, EnterTyped DEF CacheInv, Stat, CallsOK, Underway, Results
  <2> QED BY <2>2, <2>3
<1>3. RestOK'
  BY DEF CacheInv, TypeOK, Stat, RestOK
<1> QED BY <1>1, <1>2, <1>3 DEF CacheInv, TypeOK, IndexOK, CallsOK, CallOK, RestOK

\* The storage write that begins a Set, with any metadata.
LEMMA SetContentKeeps ==
    ASSUME CacheInv, NEW c \in Callers, NEW k \in Keys, NEW m \in Meta, SetContent(c, k, m), bodies' \in Nat
    PROVE  CacheInv'
<1>1. IndexOK'
  BY SameIndex DEF CacheInv, SetContent
<1>2. CallsOK'
  <2>1. CASE Enter(c, "set.meta", k, m)
    BY <2>1, EnterTyped DEF CacheInv, CallsOK, Underway, Results
  <2>2. CASE Enter(c, "set.err", k, None)
    BY <2>2, EnterTyped DEF CacheInv, CallsOK, Underway, Results
  <2> QED BY <2>1, <2>2 DEF SetContent
<1>3. RestOK'
  BY DEF CacheInv, TypeOK, SetContent, RestOK, Meta
<1> QED BY <1>1, <1>2, <1>3 DEF CacheInv, TypeOK, IndexOK, CallsOK, CallOK, RestOK


-----------------------------------------------------------------------------
\* Every step inside a call keeps the invariant.
LEMMA CallStepKeeps ==
    ASSUME CacheInv, NEW c \in Callers, CallStep(c)
    PROVE  CacheInv'
<1> USE DEF At
<1>1. /\ call[c].op \in Underway => call[c].key \in Keys
      /\ call[c].op \in {"get.read", "set.meta", "set.index"} => call[c].meta \in Meta
  BY CallTyped
<1>2. CASE GetRead(c)
  <2>1. IndexOK'
    BY <1>2, SameIndex DEF CacheInv, GetRead
  <2>2. disk[call[c].key] \in Nat
    BY <1>1, <1>2 DEF CacheInv, TypeOK, GetRead, Underway
  <2>3. CallsOK'
    <3> DEFINE r == [call[c] EXCEPT !.op = "get.hit", !.body = disk[call[c].key]]
    <3>1. call[c] \in Call
      BY CallTyped
    <3>2. r \in Call /\ CallOK(r)
      BY <2>2, <3>1 DEF Call, CallOK, Results, Underway
    <3>3. call' = [call EXCEPT ![c] = r]
      BY <1>2 DEF GetRead
    <3>4. call \in [Callers -> Call] /\ \A d \in Callers : CallOK(call[d])
      BY DEF CacheInv, TypeOK, CallOK
    <3> HIDE DEF r
    <3> QED BY <3>2, <3>3, <3>4 DEF CallsOK
  <2>4. RestOK'
    BY <1>2 DEF CacheInv, TypeOK, GetRead, RestOK
  <2> QED BY <2>1, <2>3, <2>4 DEF CacheInv, TypeOK, IndexOK, CallsOK, CallOK, RestOK
<1>3. CASE GetReadFails(c)
  <2>1. IndexOK'
    BY <1>3, SameIndex DEF CacheInv, GetReadFails
  <2>2. CallsOK'
    BY <1>1, <1>3, EnterTyped DEF CacheInv, GetReadFails, CallsOK, Underway, Results
  <2>3. RestOK'
    BY <1>3 DEF CacheInv, TypeOK, GetReadFails, RestOK
  <2> QED BY <2>1, <2>2, <2>3 DEF CacheInv, TypeOK, IndexOK, CallsOK, CallOK, RestOK
<1>4. CASE GetEvict(c)
  <2>1. call[c].key \in Keys
    BY <1>1, <1>4 DEF GetEvict, Underway
  <2>2. IndexOK'
    BY <1>4, <2>1, UnindexKeepsIndex DEF CacheInv, GetEvict
  <2>3. CallsOK'
    BY <1>4, <2>1, EnterTyped DEF CacheInv, GetEvict, Leave, CallsOK, Underway, Results
  <2>4. RestOK'
    BY <1>4 DEF CacheInv, TypeOK, GetEvict, RestOK
  <2> QED BY <2>2, <2>3, <2>4 DEF CacheInv, TypeOK, IndexOK, CallsOK, CallOK, RestOK
<1>5. CASE SetMeta(c)
  <2>1. call[c].key \in Keys /\ call[c].meta \in Meta
    BY <1>1, <1>5 DEF SetMeta, Underway
  <2>2. IndexOK'
    BY <1>5, SameIndex DEF CacheInv, SetMeta
  <2>3. CallsOK'
    <3>1. CASE Enter(c, "set.index", call[c].key, call[c].meta)
      BY <2>1, <3>1, EnterTyped DEF CacheInv, CallsOK, Underway, Results
    <3>2. CASE Leave(c, "set.err")
      BY <2>1, <3>2, EnterTyped DEF CacheInv, Leave, CallsOK, Underway, Results
    <3> QED BY <1>5, <3>1, <3>2 DEF SetMeta
  <2>4. RestOK'
    BY <1>5 DEF CacheInv, TypeOK, SetMeta, RestOK
  <2> QED BY <2>2, <2>3, <2>4 DEF CacheInv, TypeOK, IndexOK, CallsOK, CallOK, RestOK
<1>6. CASE SetUpdate(c)
  <2>1. call[c].key \in Keys /\ call[c].meta \in Meta
    BY <1>1, <1>6 DEF SetUpdate, Underway
  <2>2. IndexOK'
    BY <1>6, <2>1, ToFrontKeepsIndex DEF CacheInv, SetUpdate
  <2>3. CallsOK'
    BY <1>6, <2>1, EnterTyped DEF CacheInv, SetUpdate, Leave, CallsOK, Underway, Results
  <2>4. RestOK'
    BY <1>6 DEF CacheInv, TypeOK, SetUpdate, RestOK
  <2> QED BY <2>2, <2>3, <2>4 DEF CacheInv, TypeOK, IndexOK, CallsOK, CallOK, RestOK
<1>7. CASE SetInsert(c)
  <2>1. call[c].key \in Keys
    BY <1>1, <1>7 DEF SetInsert, Underway
  <2>2. IndexOK'
    BY <1>7, InsertKeepsIndex DEF CacheInv
  <2>3. CallsOK'
    BY <1>7, <2>1, EnterTyped DEF CacheInv, SetInsert, Leave, CallsOK, Underway, Results
  <2>4. RestOK'
    BY <1>7 DEF CacheInv, TypeOK, SetInsert, RestOK
  <2> QED BY <2>2, <2>3, <2>4 DEF CacheInv, TypeOK, IndexOK, CallsOK, CallOK, RestOK
<1>8. CASE DeleteStorage(c)
  <2>1. call[c].key \in Keys
    BY <1>1, <1>8 DEF DeleteStorage, Underway
  <2>2. IndexOK'
    BY <1>8, SameIndex DEF CacheInv, DeleteStorage
  <2>3. CallsOK'
    <3>1. CASE Leave(c, "delete.ok")
      BY <2>1, <3>1, EnterTyped DEF CacheInv, Leave, CallsOK, Underway, Results
    <3>2. CASE Leave(c, "delete.err")
      BY <2>1, <3>2, EnterTyped DEF CacheInv, Leave, CallsOK, Underway, Results
    <3> QED BY <1>8, <3>1, <3>2 DEF DeleteStorage
  <2>4. RestOK'
    BY <1>8 DEF CacheInv, TypeOK, DeleteStorage, RestOK
  <2> QED BY <2>2, <2>3, <2>4 DEF CacheInv, TypeOK, IndexOK, CallsOK, CallOK, RestOK
<1> QED BY <1>2, <1>3, <1>4, <1>5, <1>6, <1>7, <1>8 DEF CallStep

\* The index starts empty, over any files.
LEMMA InitInv == Init => CacheInv
<1> SUFFICES ASSUME Init PROVE CacheInv
  OBVIOUS
<1>1. lru \in Seq(Keys) /\ Len(lru) = 0
  BY EmptySeq DEF Init
<1>2. IndexConsistent
  BY <1>1, CapacityAssumption DEF Init, IndexConsistent
<1>3. TypeOK
  BY <1>1 DEF Init, TypeOK, Call, Idle, Underway, Results
<1> QED BY <1>2, <1>3 DEF CacheInv

\* One step of the cache on its own.
LEMMA NextKeeps == CacheInv /\ [Next]_vars => CacheInv'
<1> SUFFICES ASSUME CacheInv, [Next]_vars PROVE CacheInv'
  OBVIOUS
<1>1. CASE Tick
  <2>1. now' \in Nat
    BY <1>1 DEF Tick, CacheInv, TypeOK
  <2> QED BY <1>1, <2>1 DEF Tick, CacheInv, TypeOK, IndexConsistent, index
<1>2. ASSUME NEW c \in Callers, CallStep(c) PROVE CacheInv'
  BY <1>2, CallStepKeeps
<1>3. ASSUME NEW c \in Callers, NEW k \in Keys, Set(c, k) PROVE CacheInv'
  <2>1. bodies' \in Nat
    BY <1>3 DEF Set, CacheInv, TypeOK
  <2>2. PICK ttl \in TTLs : SetContent(c, k, [body |-> bodies', at |-> now, ttl |-> ttl])
    BY <1>3 DEF Set
  <2>3. [body |-> bodies', at |-> now, ttl |-> ttl] \in Meta
    BY <2>1, LifetimeAssumption DEF Meta, CacheInv, TypeOK
  <2> QED BY <2>1, <2>2, <2>3, SetContentKeeps
<1>4. CASE UNCHANGED vars
  BY <1>4 DEF vars, index, CacheInv, TypeOK, IndexConsistent
<1> QED
  BY <1>1, <1>2, <1>3, <1>4, GetLookupKeeps, DeleteIndexKeeps, StatKeeps DEF Next

\* The cache keeps its types, whatever its callers do and however their calls interleave
\* (cache.go 60-164).
THEOREM CacheTyped == Spec => []TypeOK
<1>1. CacheInv => TypeOK
  BY DEF CacheInv
<1> QED BY InitInv, NextKeeps, <1>1, PTL DEF Spec

\* Map and list hold the same keys, each once, and never more than MaxItems, for every capacity, set
\* of keys and number of goroutines: no interleaving of Get, Set and Delete leaves an entry that
\* eviction cannot see or a list node without an entry (cache.go 60-164).
THEOREM CacheConsistent == Spec => []IndexConsistent
<1>1. CacheInv => IndexConsistent
  BY DEF CacheInv
<1> QED BY InitInv, NextKeeps, <1>1, PTL DEF Spec

-----------------------------------------------------------------------------
\* The order of use: InOrder(s, r) says that r holds of every two entries of the list, the one in
\* front first, and After(r, u) is r once the keys in u have been used.
InOrder(s, r) == \A i, j \in 1 .. Len(s) : i < j => <<s[i], s[j]>> \in r
After(r, u) == {p \in r : p[2] \notin u} \cup (u \X (Keys \ u))

LEMMA RecencyIsInOrder == RecencyOrder <=> InOrder(lru, newer)
  BY DEF RecencyOrder, InOrder

LEMMA NewerAfter == RecentNext => newer' = After(newer, Used)
  BY DEF RecentNext, After

LEMMA AfterNoUse == ASSUME NEW r PROVE After(r, {}) = r
  BY DEF After

\* Taking an entry out leaves the others in order.
LEMMA RemovedInOrder ==
    ASSUME NEW s \in Seq(Keys), NEW p \in 1 .. Len(s), NEW r, InOrder(s, r)
    PROVE  InOrder(RemoveAt(s, p), r)
<1> DEFINE t == RemoveAt(s, p)
           old(i) == IF i < p THEN i ELSE i + 1
<1>1. Len(s) \in Nat
  BY LenProperties
<1>2. t \in Seq(Keys) /\ Len(t) = Len(s) - 1
      /\ \A i \in 1 .. Len(s) - 1 : t[i] = IF i < p THEN s[i] ELSE s[i + 1]
  BY RemovedElements
<1> HIDE DEF t
<1> SUFFICES ASSUME NEW i \in 1 .. Len(t), NEW j \in 1 .. Len(t), i < j
             PROVE  <<t[i], t[j]>> \in r
  BY DEF InOrder, t
<1>3. t[i] = s[old(i)] /\ t[j] = s[old(j)]
  BY <1>1, <1>2
<1>4. old(i) \in 1 .. Len(s) /\ old(j) \in 1 .. Len(s) /\ old(i) < old(j)
  BY <1>1, <1>2
<1> QED BY <1>3, <1>4 DEF InOrder

\* A key that is used and put in front of the others keeps the list in order.
LEMMA FrontInOrder ==
    ASSUME NEW s \in Seq(Keys), NEW k \in Keys, ~Listed(s, k), NEW r, InOrder(s, r)
    PROVE  InOrder(<<k>> \o s, After(r, {k}))
<1> DEFINE t == <<k>> \o s
<1>1. Len(s) \in Nat /\ <<k>> \in Seq(Keys) /\ Len(<<k>>) = 1 /\ <<k>>[1] = k
  BY LenProperties
<1>2. \A i \in 1 .. Len(s) : s[i] \in Keys
  BY ElementOfSeq
<1>3. Len(t) = Len(s) + 1 /\ \A i \in 1 .. Len(s) + 1 : t[i] = IF i = 1 THEN k ELSE s[i - 1]
  <2>1. /\ t \in Seq(Keys) /\ Len(t) = Len(<<k>>) + Len(s)
        /\ \A i \in 1 .. Len(<<k>>) + Len(s) :
              t[i] = IF i <= Len(<<k>>) THEN <<k>>[i] ELSE s[i - Len(<<k>>)]
    BY <1>1, ConcatProperties
  <2> QED BY <1>1, <2>1
<1> HIDE DEF t
<1> SUFFICES ASSUME NEW i \in 1 .. Len(t), NEW j \in 1 .. Len(t), i < j
             PROVE  <<t[i], t[j]>> \in After(r, {k})
  BY DEF InOrder, t
<1>4. j - 1 \in 1 .. Len(s) /\ t[j] = s[j - 1]
  BY <1>1, <1>3
<1>5. t[j] \in Keys \ {k}
  BY <1>2, <1>4 DEF Listed
<1>6. CASE i = 1
  BY <1>1, <1>3, <1>5, <1>6 DEF After
<1>7. CASE i # 1
  <2>1. i - 1 \in 1 .. Len(s) /\ t[i] = s[i - 1] /\ i - 1 < j - 1
    BY <1>1, <1>3, <1>7
  <2>2. <<t[i], t[j]>> \in r
    BY <1>4, <2>1 DEF InOrder
  <2> QED BY <1>5, <2>2 DEF After
<1> QED BY <1>6, <1>7

\* So does what evictLocked keeps of a list.
LEMMA KeptInOrder ==
    ASSUME NEW s \in Seq(Keys), Distinct(s), NEW r, InOrder(s, r)
    PROVE  InOrder(Kept(s), r)
<1>1. Len(s) \in Nat
  BY LenProperties
<1>2. Len(Kept(s)) \in Nat /\ Len(Kept(s)) <= Len(s) /\ \A i \in 1 .. Len(Kept(s)) : Kept(s)[i] = s[i]
  BY KeptFront
<1> QED BY <1>1, <1>2 DEF InOrder

\* The list without a key is in order.
LEMMA WithoutInOrder ==
    ASSUME TypeOK, IndexConsistent, RecencyOrder, NEW k \in Keys
    PROVE  InOrder(Without(k), newer)
<1>1. lru \in Seq(Keys) /\ MapMatchesList /\ InOrder(lru, newer)
  BY IndexParts, RecencyIsInOrder DEF TypeOK
<1>2. CASE items[k] = None
  BY <1>1, <1>2 DEF Without
<1>3. CASE items[k] # None
  <2>1. Position(k) \in 1 .. Len(lru)
    BY <1>1, <1>3 DEF MapMatchesList, Listed, Position
  <2> QED BY <1>1, <1>3, <2>1, RemovedInOrder DEF Without
<1> QED BY <1>2, <1>3

-----------------------------------------------------------------------------
\* What a step uses, from what it does to the call it belongs to.
Moves(c, r) == call' = [call EXCEPT ![c] = r]

LEMMA EnterMoves ==
    ASSUME NEW c, NEW op, NEW k, NEW m, Enter(c, op, k, m)
    PROVE  Moves(c, [op |-> op, key |-> k, meta |-> m, body |-> None])
  BY DEF Enter, Moves

LEMMA OthersStay ==
    ASSUME TypeOK, NEW c \in Callers, NEW r, Moves(c, r)
    PROVE  call'[c] = r /\ \A d \in Callers \ {c} : call'[d] = call[d]
  BY DEF TypeOK, Moves

LEMMA NoneUsed ==
    ASSUME TypeOK, NEW c \in Callers, NEW r, Moves(c, r), r.op \notin {"get.read", "set.ok"}
    PROVE  Used = {}
<1>1. call'[c] = r /\ \A d \in Callers \ {c} : call'[d] = call[d]
  BY OthersStay
<1>2. \A d \in Callers : call'[d] # call[d] => d = c
  BY <1>1
<1> QED BY <1>1, <1>2 DEF Used

LEMMA OneUsed ==
    ASSUME TypeOK, NEW c \in Callers, NEW r, Moves(c, r), r.key \in Keys,
           \/ r.op = "get.read" /\ call[c].op # "get.read"
           \/ r.op = "set.ok" /\ call[c].op = "set.index"
    PROVE  Used = {r.key}
<1>1. call'[c] = r /\ \A d \in Callers \ {c} : call'[d] = call[d]
  BY OthersStay
<1>2. \A d \in Callers : call'[d] # call[d] => d = c
  BY <1>1
<1>3. call'[c] # call[c]
  BY <1>1
<1>4. r.key \in Used
  BY <1>1, <1>3 DEF Used
<1>5. Used \subseteq {r.key}
  BY <1>1, <1>2 DEF Used
<1> QED BY <1>4, <1>5

LEMMA EnterUsesNothing ==
    ASSUME TypeOK, NEW c \in Callers, NEW op, NEW k, NEW m, Enter(c, op, k, m),
           op \notin {"get.read", "set.ok"}
    PROVE  Used = {}
<1> DEFINE r == [op |-> op, key |-> k, meta |-> m, body |-> None]
<1>1. Moves(c, r) /\ r.op = op
  BY EnterMoves
<1> HIDE DEF r
<1> QED BY <1>1, NoneUsed

LEMMA EnterUsesKey ==
    ASSUME TypeOK, NEW c \in Callers, NEW op, NEW k \in Keys, NEW m, Enter(c, op, k, m),
           \/ op = "get.read" /\ call[c].op # "get.read"
           \/ op = "set.ok" /\ call[c].op = "set.index"
    PROVE  Used = {k}
<1> DEFINE r == [op |-> op, key |-> k, meta |-> m, body |-> None]
<1>1. Moves(c, r) /\ r.op = op /\ r.key = k
  BY EnterMoves
<1> HIDE DEF r
<1> QED BY <1>1, OneUsed

\* A step that uses nothing and leaves the list alone, or only takes a key out of it.
LEMMA UnusedKeepsOrder ==
    ASSUME CacheInv, RecencyOrder, RecentNext, Used = {},
           lru' = lru \/ \E k \in Keys : lru' = Without(k)
    PROVE  RecencyOrder'
<1>1. newer' = newer
  BY NewerAfter, AfterNoUse
<1>2. InOrder(lru, newer)
  BY RecencyIsInOrder
<1>3. \A k \in Keys : InOrder(Without(k), newer)
  BY WithoutInOrder DEF CacheInv
<1>4. InOrder(lru', newer')
  BY <1>1, <1>2, <1>3
<1> QED BY <1>4 DEF RecencyOrder, InOrder

\* A step that moves the key it uses to the front.
LEMMA MovedKeepsOrder ==
    ASSUME CacheInv, RecencyOrder, RecentNext, NEW k \in Keys, items[k] # None, Used = {k}, ToFront(k)
    PROVE  RecencyOrder'
<1>1. newer' = After(newer, {k})
  BY NewerAfter
<1>2. Without(k) \in Seq(Keys) /\ ~Listed(Without(k), k) /\ InOrder(Without(k), newer)
  BY WithoutKey, WithoutInOrder DEF CacheInv
<1>3. InOrder(lru', newer')
  BY <1>1, <1>2, FrontInOrder DEF ToFront
<1> QED BY <1>3 DEF RecencyOrder, InOrder

\* An insertion, which puts its key in front and lets the tail go: the full list, before the tail
\* goes, is in order too.
LEMMA InsertKeepsOrder ==
    ASSUME CacheInv, RecencyOrder, RecentNext, NEW c \in Callers, SetInsert(c)
    PROVE  /\ <<call[c].key>> \o lru \in Seq(Keys) /\ Distinct(<<call[c].key>> \o lru)
           /\ InOrder(<<call[c].key>> \o lru, newer')
           /\ RecencyOrder'
<1> DEFINE k == call[c].key
           all == <<k>> \o lru
<1>1. k \in Keys /\ items[k] = None /\ lru \in Seq(Keys) /\ call[c].op = "set.index"
  BY DEF CacheInv, TypeOK, SetInsert, At, Underway
<1>2. ~Listed(lru, k) /\ Distinct(lru) /\ InOrder(lru, newer)
  BY <1>1, IndexParts, RecencyIsInOrder DEF CacheInv, MapMatchesList
<1>3. Used = {k}
  <2>1. Enter(c, "set.ok", k, None)
    BY DEF SetInsert, Leave
  <2> QED BY <1>1, <2>1, EnterUsesKey DEF CacheInv
<1>4. all \in Seq(Keys) /\ Distinct(all)
  BY <1>1, <1>2, PutFront
<1>5. InOrder(all, newer')
  BY <1>1, <1>2, <1>3, FrontInOrder, NewerAfter
<1>6. lru' = Kept(all)
  BY DEF SetInsert
<1> HIDE DEF all
<1>7. InOrder(lru', newer')
  BY <1>4, <1>5, <1>6, KeptInOrder
<1> QED BY <1>4, <1>5, <1>7 DEF RecencyOrder, InOrder, all

\* A lookup uses the key it finds, and only then.
LEMMA GetLookupKeepsOrder ==
    ASSUME CacheInv, RecencyOrder, RecentNext, NEW c \in Callers, NEW k \in Keys, GetLookup(c, k)
    PROVE  RecencyOrder'
<1>1. TypeOK /\ call[c].op # "get.read"
  BY DEF CacheInv, GetLookup, Ready, Underway
<1>2. CASE Enter(c, "get.miss", k, None) /\ (lru' = lru \/ lru' = Without(k))
  <2>1. Used = {}
    BY <1>1, <1>2, EnterUsesNothing
  <2> QED BY <1>2, <2>1, UnusedKeepsOrder
<1>3. CASE items[k] # None /\ Enter(c, "get.read", k, items[k]) /\ ToFront(k)
  <2>1. Used = {k}
    BY <1>1, <1>3, EnterUsesKey
  <2> QED BY <1>3, <2>1, MovedKeepsOrder
<1> QED BY <1>2, <1>3 DEF GetLookup, Unindex, index

\* Nothing else but a Set that records its key uses one.
LEMMA CallStepKeepsOrder ==
    ASSUME CacheInv, RecencyOrder, RecentNext, NEW c \in Callers, CallStep(c)
    PROVE  RecencyOrder'
<1> USE DEF At
<1>1. TypeOK /\ (call[c].op \in Underway => call[c].key \in Keys)
  BY DEF CacheInv, TypeOK
<1>2. CASE GetRead(c)
  <2> DEFINE r == [call[c] EXCEPT !.op = "get.hit", !.body = disk[call[c].key]]
  <2>1. Moves(c, r) /\ lru' = lru
    BY <1>2 DEF GetRead, Moves, index
  <2>2. r.op = "get.hit"
    BY CallTyped DEF Call
  <2> HIDE DEF r
  <2>3. Used = {}
    BY <1>1, <2>1, <2>2, NoneUsed
  <2> QED BY <2>1, <2>3, UnusedKeepsOrder
<1>3. CASE GetReadFails(c)
  <2>1. Used = {}
    BY <1>1, <1>3, EnterUsesNothing DEF GetReadFails
  <2> QED BY <1>3, <2>1, UnusedKeepsOrder DEF GetReadFails, index
<1>4. CASE GetEvict(c)
  <2>1. Used = {}
    BY <1>1, <1>4, EnterUsesNothing DEF GetEvict, Leave
  <2>2. call[c].key \in Keys /\ lru' = Without(call[c].key)
    BY <1>1, <1>4 DEF GetEvict, Unindex, Underway
  <2> QED BY <2>1, <2>2, UnusedKeepsOrder
<1>5. CASE SetMeta(c)
  <2>1. Used = {}
    <3>1. CASE Enter(c, "set.index", call[c].key, call[c].meta)
      BY <1>1, <3>1, EnterUsesNothing
    <3>2. CASE Leave(c, "set.err")
      BY <1>1, <3>2, EnterUsesNothing DEF Leave
    <3> QED BY <1>5, <3>1, <3>2 DEF SetMeta
  <2> QED BY <1>5, <2>1, UnusedKeepsOrder DEF SetMeta, index
<1>6. CASE SetUpdate(c)
  <2>1. call[c].key \in Keys /\ items[call[c].key] # None /\ ToFront(call[c].key)
    BY <1>1, <1>6 DEF SetUpdate, Underway
  <2>2. Used = {call[c].key}
    <3>1. Enter(c, "set.ok", call[c].key, None)
      BY <1>6 DEF SetUpdate, Leave
    <3> QED BY <1>1, <1>6, <2>1, <3>1, EnterUsesKey DEF SetUpdate
  <2> QED BY <2>1, <2>2, MovedKeepsOrder
<1>7. CASE SetInsert(c)
  BY <1>7, InsertKeepsOrder
<1>8. CASE DeleteStorage(c)
  <2>1. Used = {}
    <3>1. CASE Leave(c, "delete.ok")
      BY <1>1, <3>1, EnterUsesNothing DEF Leave
    <3>2. CASE Leave(c, "delete.err")
      BY <1>1, <3>2, EnterUsesNothing DEF Leave
    <3> QED BY <1>8, <3>1, <3>2 DEF DeleteStorage
  <2> QED BY <1>8, <2>1, UnusedKeepsOrder DEF DeleteStorage, index
<1> QED BY <1>2, <1>3, <1>4, <1>5, <1>6, <1>7, <1>8 DEF CallStep

\* One step of the cache with its history.
LEMMA RecentNextKeeps == CacheInv /\ RecencyOrder /\ [RecentNext]_<<vars, newer>> => RecencyOrder'
<1> SUFFICES ASSUME CacheInv, RecencyOrder, [RecentNext]_<<vars, newer>> PROVE RecencyOrder'
  OBVIOUS
<1>1. CASE UNCHANGED <<vars, newer>>
  BY <1>1 DEF RecencyOrder, vars
<1>2. CASE RecentNext
  <2>1. TypeOK
    BY DEF CacheInv
  <2>2. CASE Tick
    <3>1. call' = call /\ lru' = lru
      BY <2>2 DEF Tick, index
    <3>2. Used = {}
      BY <3>1 DEF Used
    <3> QED BY <1>2, <3>1, <3>2, UnusedKeepsOrder
  <2>3. ASSUME NEW c \in Callers, CallStep(c) PROVE RecencyOrder'
    BY <1>2, <2>3, CallStepKeepsOrder
  <2>4. ASSUME NEW c \in Callers, NEW k \in Keys, GetLookup(c, k) PROVE RecencyOrder'
    BY <1>2, <2>4, GetLookupKeepsOrder
  <2>5. ASSUME NEW c \in Callers, NEW k \in Keys, Set(c, k) PROVE RecencyOrder'
    <3>1. PICK m : SetContent(c, k, m)
      BY <2>5 DEF Set
    <3>2. lru' = lru /\ (Enter(c, "set.meta", k, m) \/ Enter(c, "set.err", k, None))
      BY <3>1 DEF SetContent, index
    <3>3. Used = {}
      BY <2>1, <3>2, EnterUsesNothing
    <3> QED BY <1>2, <3>2, <3>3, UnusedKeepsOrder
  <2>6. ASSUME NEW c \in Callers, NEW k \in Keys, DeleteIndex(c, k) PROVE RecencyOrder'
    <3>1. Used = {}
      BY <2>1, <2>6, EnterUsesNothing DEF DeleteIndex
    <3> QED BY <1>2, <2>6, <3>1, UnusedKeepsOrder DEF DeleteIndex, Unindex
  <2>7. ASSUME NEW c \in Callers, NEW k \in Keys, Stat(c, k) PROVE RecencyOrder'
    <3>1. lru' = lru /\ Enter(c, IF items[k] = None THEN "stat.miss" ELSE "stat.hit", k, items[k])
      BY <2>7 DEF Stat, index
    <3>2. Used = {}
      BY <2>1, <3>1, EnterUsesNothing
    <3> QED BY <1>2, <3>1, <3>2, UnusedKeepsOrder
  <2>8. Next
    BY <1>2 DEF RecentNext
  <2> QED BY <2>2, <2>3, <2>4, <2>5, <2>6, <2>7, <2>8 DEF Next
<1> QED BY <1>1, <1>2

\* The history leaves the cache's own invariant as it was.
LEMMA RecentInvKeeps == CacheInv /\ [RecentNext]_<<vars, newer>> => CacheInv'
  BY NextKeeps DEF RecentNext, vars

LEMMA RecentStarts == RecentInit => CacheInv /\ RecencyOrder
<1>1. Init => Len(lru) = 0
  BY EmptySeq DEF Init
<1> QED BY <1>1, InitInv DEF RecentInit, RecencyOrder

\* The list is in the order of use, for every capacity and number of goroutines: every entry in
\* front of another was found or recorded after it (cache.go 78, 103-109).
THEOREM ListInOrderOfUse == RecentSpec => []RecencyOrder
  BY RecentStarts, RecentNextKeeps, RecentInvKeeps, PTL DEF RecentSpec

-----------------------------------------------------------------------------
\* A step that makes a Set succeed and takes a key out of the map is an insertion.
LEMMA LosingInsertInserts ==
    ASSUME CacheInv, Next, Inserting, NEW e \in Keys, items[e] # None, items'[e] = None
    PROVE  \E c \in Callers : SetInsert(c)
<1> USE DEF At
<1>1. PICK c \in Callers : call[c].op = "set.index" /\ call'[c].op = "set.ok"
  BY DEF Inserting
<1>2. TypeOK
  BY DEF CacheInv
<1>3. ASSUME NEW d \in Callers, NEW op, NEW k, NEW m, Enter(d, op, k, m), call[d].op # "set.index" PROVE FALSE
  <2>1. c # d
    BY <1>1, <1>3
  <2>2. call'[c] = call[c]
    BY <1>3, <2>1, EnterMoves, OthersStay, <1>2
  <2> QED BY <1>1, <2>2
<1>4. CASE Tick
  BY <1>4 DEF Tick, index
<1>5. ASSUME NEW d \in Callers, NEW k \in Keys,
             GetLookup(d, k) \/ Set(d, k) \/ DeleteIndex(d, k) \/ Stat(d, k)
      PROVE  FALSE
  <2>1. call[d].op # "set.index"
    BY <1>5 DEF GetLookup, Set, SetContent, DeleteIndex, Stat, Ready, Underway
  <2>2. \E op, m : Enter(d, op, k, m)
    BY <1>5 DEF GetLookup, Set, SetContent, DeleteIndex, Stat
  <2> QED BY <1>3, <2>1, <2>2
<1>6. ASSUME NEW d \in Callers, GetReadFails(d) \/ GetEvict(d) \/ SetMeta(d) \/ DeleteStorage(d) PROVE FALSE
  <2>1. call[d].op # "set.index"
    BY <1>6 DEF GetReadFails, GetEvict, SetMeta, DeleteStorage
  <2>2. \E op, k, m : Enter(d, op, k, m)
    BY <1>6 DEF GetReadFails, GetEvict, SetMeta, DeleteStorage, Leave
  <2> QED BY <1>3, <2>1, <2>2
<1>7. ASSUME NEW d \in Callers, GetRead(d) PROVE FALSE
  BY <1>7 DEF GetRead, index
<1>8. ASSUME NEW d \in Callers, SetUpdate(d) PROVE FALSE
  <2>1. call[d].meta \in Meta /\ items \in [Keys -> Meta \cup {None}]
    BY <1>2, <1>8 DEF TypeOK, SetUpdate
  <2>2. call[d].meta # None
    BY <2>1, NoneAssumption DEF Meta
  <2> QED BY <1>8, <2>1, <2>2 DEF SetUpdate
<1> QED BY <1>4, <1>5, <1>6, <1>7, <1>8 DEF Next, CallStep

\* What an insertion takes out of the map is the tail of a full list.
LEMMA InsertEvictsTail ==
    ASSUME CacheInv, RecencyOrder, RecentNext, NEW c \in Callers, SetInsert(c),
           NEW e \in Keys, items[e] # None, items'[e] = None
    PROVE  /\ Len(lru) = MaxItems
           /\ \A x \in Keys : items'[x] # None => <<x, e>> \in newer'
<1> DEFINE k == call[c].key
           m == call[c].meta
           all == <<k>> \o lru
           evicted == {all[i] : i \in Len(Kept(all)) + 1 .. Len(all)}
<1>1. /\ k \in Keys /\ m \in Meta /\ m # None
      /\ items \in [Keys -> Meta \cup {None}] /\ lru \in Seq(Keys)
  BY NoneAssumption DEF CacheInv, TypeOK, SetInsert, At, Underway, Meta
<1>2. items[k] = None /\ lru' = Kept(all)
      /\ items' = [x \in Keys |-> IF x \in evicted THEN None ELSE IF x = k THEN m ELSE items[x]]
  BY DEF SetInsert
<1>3. /\ Len(lru) \in Nat /\ Len(lru) <= MaxItems
      /\ all \in Seq(Keys) /\ Len(all) = Len(lru) + 1
  <2>1. ~Listed(lru, k) /\ Distinct(lru)
    BY <1>1, <1>2, IndexParts DEF CacheInv, MapMatchesList
  <2> QED BY <1>1, <2>1, PutFront, LenProperties DEF CacheInv, IndexConsistent
<1>4. Distinct(all) /\ InOrder(all, newer')
  BY InsertKeepsOrder
<1>5. e \in evicted
  <2> HIDE DEF evicted, k, m
  <2> QED BY <1>1, <1>2
<1> HIDE DEF all
<1>6. /\ Len(Kept(all)) \in Nat /\ Len(Kept(all)) <= Len(all)
      /\ \A i \in 1 .. Len(Kept(all)) : Kept(all)[i] = all[i]
  BY <1>3, <1>4, KeptFront
<1>7. PICK j \in Len(Kept(all)) + 1 .. Len(all) : e = all[j]
  BY <1>5
<1>8. Len(all) > MaxItems
  <2>1. Kept(all) # all
    BY <1>3, <1>6, <1>7
  <2> QED BY <2>1 DEF Kept
<1>9. Len(lru) = MaxItems
  BY <1>3, <1>8, CapacityAssumption
<1>10. ASSUME NEW x \in Keys, items'[x] # None PROVE <<x, e>> \in newer'
  <2>1. IndexConsistent'
    BY InsertKeepsIndex DEF CacheInv, IndexOK
  <2>2. PICK i \in 1 .. Len(lru') : lru'[i] = x
    BY <1>10, <2>1 DEF IndexConsistent
  <2>3. i \in 1 .. Len(Kept(all)) /\ x = all[i]
    BY <1>2, <1>6, <2>2
  <2>4. i \in 1 .. Len(all) /\ j \in 1 .. Len(all) /\ i < j
    BY <1>3, <1>6, <1>7, <2>3
  <2> QED BY <1>4, <1>7, <2>3, <2>4 DEF InOrder
<1> QED BY <1>9, <1>10

\* A Set evicts another key only from a full cache, and of all the keys then the one used least
\* recently, whatever Gets ran in between (cache.go 111-118, evictLocked 146-156).
THEOREM EvictsTheOldest == RecentSpec => EvictsLeastRecent
<1>1. CacheInv /\ RecencyOrder /\ [RecentNext]_<<vars, newer>> => [TailOnly]_<<vars, newer>>
  <2> SUFFICES ASSUME CacheInv, RecencyOrder, RecentNext, Inserting,
                      NEW e \in Keys, items[e] # None, items'[e] = None
               PROVE  /\ Len(lru) = MaxItems
                      /\ \A x \in Keys : items'[x] # None => <<x, e>> \in newer'
    BY DEF TailOnly
  <2>1. Next
    BY DEF RecentNext
  <2> QED BY <2>1, LosingInsertInserts, InsertEvictsTail
<1>2. RecentSpec => [](CacheInv /\ RecencyOrder)
  BY RecentStarts, RecentNextKeeps, RecentInvKeeps, PTL DEF RecentSpec
<1>3. RecentSpec => [][TailOnly]_<<vars, newer>>
  BY <1>1, <1>2, PTL DEF RecentSpec
<1> QED BY <1>3 DEF EvictsLeastRecent

=============================================================================
