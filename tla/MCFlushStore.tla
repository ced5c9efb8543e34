---------------------------- MODULE MCFlushStore ----------------------------
(***************************************************************************)
(* Small instances of FlushStore, with what its clients were told, and     *)
(* what the file may have missed, kept beside the model as a history.      *)
(***************************************************************************)
EXTENDS FlushStore, TLC

VARIABLES
    acked,     \* the rules that a persist saved without an error, all those acknowledged among them
    alone,     \* the writer whose persist no other has been under way with
    stale,     \* a persist failed or overlapped another, and none alone has succeeded since
    excused    \* a crash caught the file stale, or .meta half written, or Load could not read it

histvars == <<storevars, acked, alone, stale, excused>>

Saving == {w \in Writers : persist[w].at \in Persisting}
\* AddRule returns nil, and the client gets 204, when persist has saved the snapshot.
Acking == {w \in Saving : persist'[w].at = "ok"}
Failing == {w \in Saving : persist'[w].at = "err"}

AckedInit == StoreInit /\ acked = {} /\ alone = {} /\ stale = FALSE /\ excused = FALSE
Run ==
    /\ Running
    /\ acked' = acked \cup UNION {persist[w].snapshot : w \in Acking}
    /\ alone' = IF Saving' \subseteq Saving THEN alone \cap Saving'
               ELSE IF Saving = {} THEN Saving' ELSE {}
    /\ stale' = IF Acking \cap alone # {} THEN FALSE ELSE stale \/ Acking # {} \/ Failing # {}
    /\ UNCHANGED excused
Crash ==
    /\ Restart
    /\ excused' = (excused \/ stale \/ savedMeta = "torn" \/ rules' # Loaded)
    /\ stale' = (rules' # Loaded) /\ alone' = {} /\ UNCHANGED acked

CrashSpec == AckedInit /\ [][Run \/ Crash]_histvars

\* "holds all active flush rules in memory and mirrors them to storage" (store.go 33): when nobody is in
\* persist, a restart would load the rules that are in memory.  A persist that failed, or overlapped
\* another, breaks it until the next that runs alone and succeeds: each saves all rules anew (store.go 90, 149).
Mirrored == Saving = {} /\ ~stale => Loaded = rules

Young == {r \in acked : r.at + MaxAge > now}

\* A rule a client was told of stays in force, across AddRules, Cleanups and restarts, until it is
\* older than the maximal age ("still in effect after a restart", doc/cdncache.md:61).  A crash loses it
\* only while the file is stale, or between truncation and write of .meta (localfs.go 175).
AckedOutlastsCrashes == excused \/ Young \subseteq rules

WriterSymmetry == Permutations(Writers)
=============================================================================
