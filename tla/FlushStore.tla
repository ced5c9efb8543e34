----------------------------- MODULE FlushStore -----------------------------
(***************************************************************************)
(* internal/flush/store.go: the flush rules and their copy on disk, made   *)
(* through the Write and Read of internal/storage/localfs.go.  A writer    *)
(* that changed the rules takes a snapshot in the same critical section    *)
(* and persists it after the mutex is released.                            *)
(***************************************************************************)
EXTENDS FlushRules

CONSTANTS
    MaxTime,   \* bound of the clock
    Faults     \* whether storage may fail

ASSUME StoreAssumption == MaxTime \in Nat /\ Faults \in BOOLEAN

VARIABLES
    saved,      \* content of the __flush_rules__ file; no file reads like one without rules
    savedMeta,  \* its .meta file: "ok" (or absent, which reads as well) or "torn"
    persist     \* where each writer is in persist, and its snapshot

files == <<saved, savedMeta>>
storevars == <<rulevars, files, persist>>

Persisting == {"content", "truncate", "meta"}
NoPersist == [at |-> "none", snapshot |-> {}]

StoreInit ==
    /\ RulesInit
    /\ saved = {} /\ savedMeta = "ok"
    /\ persist = [w \in Writers |-> NoPersist]

-----------------------------------------------------------------------------
PersistAt(w, at) == persist[w].at = at
GoTo(w, at) == persist' = [persist EXCEPT ![w].at = at]
Return(w, at) == persist' = [persist EXCEPT ![w] = [NoPersist EXCEPT !.at = at]]
NotPersisting(w) == persist[w].at \notin Persisting

\* Mutant: persist runs in the background and the writer is free again at once.
BeginAnyway(w) ==
    /\ Cleanup(w) \/ \E p \in RulePrefixes : AddRule(w, p)
    /\ UNCHANGED <<files, persist>>

Begin(w) ==
    /\ NotPersisting(w)
    /\ Cleanup(w) \/ \E p \in RulePrefixes : AddRule(w, p)
    /\ Return(w, "none")
    /\ UNCHANGED files

Locked(w) ==
    /\ Insert(w) \/ Drop(w)
    /\ persist' = [persist EXCEPT ![w] = [at |-> "content", snapshot |-> rules']]
    /\ UNCHANGED files

\* Write renames the content into place; then os.WriteFile truncates .meta and writes it.
SaveContent(w) ==
    /\ PersistAt(w, "content")
    /\ \/ saved' = persist[w].snapshot /\ GoTo(w, "truncate")
       \/ Faults /\ Return(w, "err") /\ UNCHANGED saved
    /\ UNCHANGED <<rulevars, savedMeta>>

\* Mutant: the error of writeMeta is dropped.
MetaFailsSilently(w) == Faults /\ saved' = {} /\ Return(w, "ok") /\ UNCHANGED savedMeta

\* When .meta cannot be written Write removes the content.
MetaFails(w) == Faults /\ saved' = {} /\ Return(w, "err") /\ UNCHANGED savedMeta

Truncate(w) ==
    /\ PersistAt(w, "truncate")
    /\ \/ savedMeta' = "torn" /\ GoTo(w, "meta") /\ UNCHANGED saved
       \/ MetaFails(w)
    /\ UNCHANGED rulevars

SaveMeta(w) ==
    /\ PersistAt(w, "meta")
    /\ \/ savedMeta' = "ok" /\ Return(w, "ok") /\ UNCHANGED saved
       \/ MetaFails(w)
    /\ UNCHANGED rulevars

\* Load: any error of Read, a torn .meta included, counts as "no rules stored yet".
Loaded == IF savedMeta = "torn" THEN {} ELSE saved

\* The process dies at any point and starts again over the same directory.
Restart ==
    /\ rules' = Loaded \/ (Faults /\ rules' = {})
    /\ writer' = [w \in Writers |-> NoWriter]
    /\ persist' = [w \in Writers |-> NoPersist]
    /\ UNCHANGED <<files, now>>

WriterStep(w) == Locked(w) \/ SaveContent(w) \/ Truncate(w) \/ SaveMeta(w)
StoreTick == now < MaxTime /\ now' = now + 1 /\ UNCHANGED <<rules, writer, files, persist>>

Running == StoreTick \/ \E w \in Writers : Begin(w) \/ WriterStep(w)
StoreNext == Running \/ Restart
StoreSpec == StoreInit /\ [][StoreNext]_storevars

-----------------------------------------------------------------------------
\* Types of the variables; a writer is not in persist while it still has to take the mutex.
StoreTypeOK ==
    /\ RulesTypeOK
    /\ saved \in SUBSET Rule
    /\ savedMeta \in {"ok", "torn"}
    /\ persist \in [Writers -> [at : {"none", "ok", "err"} \cup Persisting, snapshot : SUBSET Rule]]
    /\ \A w \in Writers : Doing(w, "idle") \/ PersistAt(w, "none")
=============================================================================
