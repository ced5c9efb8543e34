--------------------------- MODULE FlushStoreProofs ---------------------------
(***************************************************************************)
(* What the flush store promises of its rules and of their copy on disk,   *)
(* for any number of writers, any prefixes and ages, storage that fails    *)
(* and a process that dies at any moment.                                  *)
(***************************************************************************)
EXTENDS MCFlushStore, TLAPS

-----------------------------------------------------------------------------
(* Types. *)

Places == {"none", "ok", "err"} \cup Persisting
PersistTypes == persist \in [Writers -> [at : Places, snapshot : SUBSET Rule]]
FileTypes == saved \in SUBSET Rule /\ savedMeta \in {"ok", "torn"}
OneThing == \A w \in Writers : Doing(w, "idle") \/ PersistAt(w, "none")

LEMMA TypesSplit == StoreTypeOK <=> RulesTypeOK /\ FileTypes /\ PersistTypes /\ OneThing
BY DEF StoreTypeOK, FileTypes, PersistTypes, OneThing, Places

\* AddRule and Cleanup before the mutex.
LEMMA WriteTyped ==
    ASSUME RulesTypeOK, NEW w \in Writers, Cleanup(w) \/ \E p \in RulePrefixes : AddRule(w, p)
    PROVE  /\ RulesTypeOK' /\ UNCHANGED <<rules, now>>
           /\ \A x \in Writers \ {w} : writer'[x] = writer[x]
           /\ writer'[w].time = now
<1>1. PICK op \in {"add", "cleanup"}, p \in RulePrefixes \cup {None} :
        Write(w, op, p) /\ (op = "add" => p \in RulePrefixes)
  BY DEF Cleanup, AddRule
<1>2. [op |-> op, covers |-> p, time |-> now] \in Writer
  BY <1>1 DEF Writer, RulesTypeOK
<1> QED BY <1>1, <1>2 DEF Write, RulesTypeOK, Doing

\* The critical sections: a rule comes in, or those of the cutoff and before go.
LEMMA ChangeTyped ==
    ASSUME RulesTypeOK, NEW w \in Writers, Insert(w) \/ Drop(w)
    PROVE  /\ RulesTypeOK' /\ now' = now
           /\ writer' = [writer EXCEPT ![w] = NoWriter]
           /\ ~Doing(w, "idle") /\ Doing(w, "idle")'
           /\ \A r \in rules : r.at + MaxAge > writer[w].time => r \in rules'
<1>1. NoWriter \in Writer
  BY DEF NoWriter, Writer
<1>2. CASE Insert(w)
  <2>1. [covers |-> writer[w].covers, at |-> writer[w].time] \in Rule
    BY <1>2 DEF Insert, Doing, RulesTypeOK, Rule, Writer
  <2> QED BY <1>1, <1>2, <2>1 DEF Insert, Change, RulesTypeOK, Doing, NoWriter
<1>3. CASE Drop(w)
  BY <1>1, <1>3 DEF Drop, Change, RulesTypeOK, Doing, NoWriter
<1> QED BY <1>2, <1>3

LEMMA StepTyped == StoreTypeOK /\ StoreNext => StoreTypeOK'
<1> SUFFICES ASSUME StoreTypeOK, StoreNext PROVE RulesTypeOK' /\ FileTypes' /\ PersistTypes' /\ OneThing'
  BY TypesSplit, PTL
<1>1. RulesTypeOK /\ FileTypes /\ PersistTypes /\ OneThing
  BY TypesSplit
<1>2. CASE StoreTick
  BY <1>1, <1>2, StoreAssumption DEF StoreTick, RulesTypeOK, Doing, FileTypes, PersistTypes, OneThing, PersistAt, files
<1>3. CASE Restart
  <2>1. rules' \subseteq Rule
    BY <1>1, <1>3 DEF Restart, Loaded, FileTypes
  <2>2. RulesTypeOK'
    BY <1>1, <1>3, <2>1 DEF Restart, RulesTypeOK, Doing, NoWriter, Writer
  <2> QED BY <1>1, <1>3, <2>2 DEF Restart, FileTypes, files, PersistTypes, Places, NoPersist, OneThing, PersistAt
<1>4. ASSUME NEW w \in Writers, Begin(w) PROVE RulesTypeOK' /\ FileTypes' /\ PersistTypes' /\ OneThing'
  <2>1. RulesTypeOK' /\ \A x \in Writers \ {w} : writer'[x] = writer[x]
    BY <1>1, <1>4, WriteTyped DEF Begin
  <2> QED BY <1>1, <1>4, <2>1 DEF Begin, Return, NoPersist, PersistTypes, Places, FileTypes, files, OneThing, Doing, PersistAt
<1>5. ASSUME NEW w \in Writers, Locked(w) PROVE RulesTypeOK' /\ FileTypes' /\ PersistTypes' /\ OneThing'
  <2>1. RulesTypeOK' /\ writer' = [writer EXCEPT ![w] = NoWriter] /\ Doing(w, "idle")'
    BY <1>1, <1>5, ChangeTyped DEF Locked
  <2>2. rules' \in SUBSET Rule
    BY <2>1 DEF RulesTypeOK
  <2>3. PersistTypes'
    BY <1>1, <1>5, <2>2 DEF Locked, PersistTypes, Places, Persisting
  <2>4. OneThing'
    BY <1>1, <1>5, <2>1 DEF Locked, OneThing, Doing, PersistAt, PersistTypes, RulesTypeOK
  <2> QED BY <1>1, <1>5, <2>1, <2>3, <2>4 DEF Locked, FileTypes, files
<1>6. ASSUME NEW w \in Writers, SaveContent(w) \/ Truncate(w) \/ SaveMeta(w)
      PROVE  RulesTypeOK' /\ FileTypes' /\ PersistTypes' /\ OneThing'
  <2>1. RulesTypeOK'
    BY <1>1, <1>6 DEF SaveContent, Truncate, SaveMeta, rulevars, RulesTypeOK, Doing
  <2>2. FileTypes'
    BY <1>1, <1>6 DEF SaveContent, Truncate, SaveMeta, MetaFails, FileTypes, PersistTypes
  <2>3. PersistTypes'
    BY <1>1, <1>6 DEF SaveContent, Truncate, SaveMeta, MetaFails, GoTo, Return, NoPersist, PersistTypes, Places, Persisting
  <2>4. OneThing'
    BY <1>1, <1>6 DEF SaveContent, Truncate, SaveMeta, MetaFails, GoTo, Return, NoPersist, PersistTypes, rulevars,
      OneThing, Doing, PersistAt
  <2> QED BY <2>1, <2>2, <2>3, <2>4
<1> QED BY <1>2, <1>3, <1>4, <1>5, <1>6 DEF StoreNext, Running, WriterStep

LEMMA InitTyped == StoreInit => StoreTypeOK
<1> SUFFICES ASSUME StoreInit PROVE StoreTypeOK
  OBVIOUS
<1>1. RulesTypeOK
  BY DEF StoreInit, RulesInit, RulesTypeOK, NoWriter, Writer, Doing
<1> QED BY <1>1 DEF StoreInit, RulesInit, StoreTypeOK, NoPersist, PersistAt

LEMMA RunTyped == StoreTypeOK /\ [Run \/ Crash]_histvars => StoreTypeOK'
<1> SUFFICES ASSUME StoreTypeOK, [Run \/ Crash]_histvars PROVE StoreTypeOK'
  OBVIOUS
<1>1. CASE UNCHANGED histvars
  BY <1>1 DEF histvars, storevars, rulevars, files, StoreTypeOK, RulesTypeOK, Doing, PersistAt
<1> QED BY <1>1, StepTyped DEF Run, Crash, StoreNext

-----------------------------------------------------------------------------
(* The invariant. *)

YoungOf(R) == {r \in R : r.at + MaxAge > now}

Times == acked \subseteq Rule /\ \A w \in Writers : writer[w].time <= now

\* What a snapshot has that is not old by now is still in force.
Snapshots == \A w \in Saving : YoungOf(persist[w].snapshot) \subseteq rules

\* A writer that is alone saves the rules in force.
Alone == \A w \in alone :
    /\ Saving = {w} /\ persist[w].snapshot = rules
    /\ persist[w].at \in {"truncate", "meta"} => saved = rules

\* While the file is not stale, neither it nor what is about to be saved lacks an acknowledged rule.
Fresh == ~excused /\ ~stale => Young \subseteq saved /\ \A w \in Saving : Young \subseteq persist[w].snapshot

StoreInv == StoreTypeOK /\ Times /\ Snapshots /\ Alone /\ Fresh /\ Mirrored /\ AckedOutlastsCrashes

\* The clock, and a writer that is not in persist.
LEMMA QuietKeeps ==
    ASSUME StoreInv, Run, StoreTypeOK', Times',
           UNCHANGED <<rules, files>>, now <= now', now' \in Nat,
           \A w \in Writers : persist'[w] = persist[w] \/ (NotPersisting(w) /\ NotPersisting(w)')
    PROVE  StoreInv'
<1>1. Saving' = Saving /\ \A w \in Saving : persist'[w] = persist[w]
  BY DEF Saving, NotPersisting
<1>2. Acking = {} /\ Failing = {}
  BY <1>1 DEF Acking, Failing, Saving, Persisting
<1>3. acked' = acked /\ alone' = alone \cap Saving /\ (stale' <=> stale) /\ excused' = excused
  BY <1>1, <1>2 DEF Run
<1>4. \A r \in Rule : r.at + MaxAge > now' => r.at + MaxAge > now
  BY AgeAssumption DEF Rule, StoreInv, StoreTypeOK, RulesTypeOK
<1>5. Young' \subseteq Young
  BY <1>3, <1>4 DEF Young, StoreInv, Times
<1>6. Snapshots'
  BY <1>1, <1>4 DEF Snapshots, YoungOf, Saving, StoreInv, StoreTypeOK
<1>7. Alone'
  BY <1>1, <1>3 DEF Alone, StoreInv, files
<1>8. Fresh'
  BY <1>1, <1>3, <1>5 DEF Fresh, StoreInv, files
<1>9. Mirrored' /\ AckedOutlastsCrashes'
  BY <1>1, <1>3, <1>5 DEF Mirrored, AckedOutlastsCrashes, Loaded, StoreInv, files
<1> QED BY <1>6, <1>7, <1>8, <1>9 DEF StoreInv

\* AddRule or Cleanup changes the rules and takes the snapshot.
LEMMA LockedKeeps ==
    ASSUME StoreInv, Run, StoreTypeOK', Times', NEW w \in Writers, Locked(w) PROVE StoreInv'
<1>1. now' = now /\ ~Doing(w, "idle") /\ \A r \in rules : r.at + MaxAge > writer[w].time => r \in rules'
  BY ChangeTyped DEF Locked, StoreInv, StoreTypeOK
<1>2. w \notin Saving
  BY <1>1 DEF Saving, Persisting, PersistAt, StoreInv, StoreTypeOK
<1>3. persist' = [persist EXCEPT ![w] = [at |-> "content", snapshot |-> rules']] /\ UNCHANGED <<saved, savedMeta>>
  BY DEF Locked, files
<1>4. Saving' = Saving \cup {w} /\ persist'[w] = [at |-> "content", snapshot |-> rules']
      /\ \A x \in Saving : persist'[x] = persist[x]
  BY <1>2, <1>3 DEF Saving, Persisting, StoreInv, StoreTypeOK
<1>5. Acking = {} /\ Failing = {}
  BY <1>4 DEF Acking, Failing, Saving, Persisting
<1>6. acked' = acked /\ (stale' <=> stale) /\ excused' = excused
      /\ alone' = IF Saving = {} THEN {w} ELSE {}
  BY <1>2, <1>4, <1>5 DEF Run
<1>7. YoungOf(rules) \subseteq rules' /\ Young' = Young
  <2>1. \A r \in rules : r.at + MaxAge > now => r.at + MaxAge > writer[w].time
    BY AgeAssumption DEF StoreInv, StoreTypeOK, RulesTypeOK, Rule, Writer, Times
  <2> QED BY <1>1, <1>6, <2>1 DEF YoungOf, Young
<1>8. Snapshots'
  <2>1. ASSUME NEW x \in Saving PROVE (YoungOf(persist[x].snapshot))' \subseteq rules'
    <3>1. (YoungOf(persist[x].snapshot))' = YoungOf(persist[x].snapshot)
      BY <1>1, <1>4 DEF YoungOf
    <3>2. YoungOf(persist[x].snapshot) \subseteq YoungOf(rules)
      BY DEF Snapshots, StoreInv, YoungOf
    <3> QED BY <1>7, <3>1, <3>2
  <2>2. (YoungOf(persist[w].snapshot))' \subseteq rules'
    BY <1>4 DEF YoungOf
  <2> QED BY <1>4, <2>1, <2>2 DEF Snapshots
<1>9. Alone'
  BY <1>4, <1>6 DEF Alone
<1>10. AckedOutlastsCrashes'
  BY <1>1, <1>6, <1>7 DEF AckedOutlastsCrashes, StoreInv, Young, YoungOf
<1>11. Fresh'
  BY <1>3, <1>4, <1>6, <1>7, <1>10 DEF Fresh, AckedOutlastsCrashes, StoreInv
<1>12. Mirrored'
  BY <1>4 DEF Mirrored
<1> QED BY <1>8, <1>9, <1>10, <1>11, <1>12 DEF StoreInv

\* A persist that ends in an error, whatever it leaves on disk.
LEMMA FailedKeeps ==
    ASSUME StoreInv, Run, StoreTypeOK', Times', NEW w \in Saving, Return(w, "err"), UNCHANGED rulevars
    PROVE  StoreInv'
<1>1. Saving' = Saving \ {w} /\ persist'[w].at = "err" /\ \A x \in Saving \ {w} : persist'[x] = persist[x]
  BY DEF Return, Saving, Persisting, NoPersist, StoreInv, StoreTypeOK
<1>2. Acking = {} /\ w \in Failing
  BY <1>1 DEF Acking, Failing, Saving, Persisting
<1>3. acked' = acked /\ excused' = excused /\ stale' = TRUE /\ alone' = alone \cap Saving'
  BY <1>1, <1>2 DEF Run
<1>4. alone' = {}
  BY <1>1, <1>3 DEF Alone, StoreInv
<1>5. Snapshots' /\ AckedOutlastsCrashes'
  BY <1>1, <1>3 DEF Snapshots, AckedOutlastsCrashes, Young, YoungOf, StoreInv, rulevars
<1> QED BY <1>3, <1>4, <1>5 DEF StoreInv, Alone, Fresh, Mirrored

\* A writer goes on inside persist.
LEMMA AdvanceKeeps ==
    ASSUME StoreInv, Run, StoreTypeOK', Times', NEW w \in Saving, NEW to \in Persisting, GoTo(w, to), UNCHANGED rulevars,
           saved' = saved \/ saved' = persist[w].snapshot,
           to \in {"truncate", "meta"} => saved' = persist[w].snapshot \/ (saved' = saved /\ persist[w].at = "truncate")
    PROVE  StoreInv'
<1>1. Saving' = Saving /\ \A x \in Saving : persist'[x].snapshot = persist[x].snapshot
  BY DEF GoTo, Saving, StoreInv, StoreTypeOK
<1>2. persist'[w].at = to /\ \A x \in Saving \ {w} : persist'[x] = persist[x]
  BY DEF GoTo, Saving, StoreInv, StoreTypeOK
<1>3. Acking = {} /\ Failing = {}
  BY <1>1, <1>2 DEF Acking, Failing, Saving, Persisting
<1>4. acked' = acked /\ excused' = excused /\ (stale' <=> stale) /\ alone' = alone \cap Saving
  BY <1>1, <1>3 DEF Run
<1>5. Young' = Young
  BY <1>4 DEF Young, rulevars
<1>6. Snapshots' /\ AckedOutlastsCrashes'
  BY <1>1, <1>4, <1>5 DEF Snapshots, AckedOutlastsCrashes, YoungOf, StoreInv, rulevars
<1>7. Alone'
  <2> SUFFICES ASSUME NEW x \in alone
        PROVE /\ Saving = {x} /\ persist[x].snapshot = rules
              /\ persist'[x].at \in {"truncate", "meta"} => saved' = rules
    BY <1>1, <1>4 DEF Alone, rulevars
  <2>1. Saving = {x} /\ persist[x].snapshot = rules /\ x = w
    BY DEF Alone, StoreInv
  <2> QED BY <1>2, <2>1 DEF Alone, StoreInv
<1>8. Fresh'
  BY <1>1, <1>4, <1>5 DEF Fresh, StoreInv
<1>9. Mirrored'
  BY <1>1 DEF Mirrored
<1> QED BY <1>6, <1>7, <1>8, <1>9 DEF StoreInv

\* The last step of persist: what was saved is acknowledged.
LEMMA SavedKeeps ==
    ASSUME StoreInv, Run, StoreTypeOK', Times', NEW w \in Saving, persist[w].at = "meta",
           Return(w, "ok"), UNCHANGED <<rulevars, saved>>, savedMeta' = "ok"
    PROVE  StoreInv'
<1>1. Saving' = Saving \ {w} /\ persist'[w].at = "ok" /\ \A x \in Saving \ {w} : persist'[x] = persist[x]
  BY DEF Return, Saving, Persisting, NoPersist, StoreInv, StoreTypeOK
<1>2. Acking = {w} /\ Failing = {}
  BY <1>1 DEF Acking, Failing, Saving, Persisting
<1>3. acked' = acked \cup persist[w].snapshot /\ excused' = excused /\ alone' = alone \cap Saving'
      /\ stale' = IF w \in alone THEN FALSE ELSE TRUE
  BY <1>1, <1>2 DEF Run
<1>4. alone' = {}
  BY <1>1, <1>3 DEF Alone, StoreInv
<1>5. Snapshots' /\ AckedOutlastsCrashes'
  BY <1>1, <1>3 DEF Snapshots, AckedOutlastsCrashes, Young, YoungOf, StoreInv, rulevars
<1>6. CASE w \notin alone
  BY <1>3, <1>4, <1>5, <1>6 DEF StoreInv, Alone, Fresh, Mirrored
<1>7. CASE w \in alone
  <2>1. Saving = {w} /\ saved = rules
    BY <1>7 DEF Alone, StoreInv
  <2>2. Saving' = {} /\ saved' = rules' /\ Loaded' = rules'
    BY <1>1, <2>1 DEF rulevars, Loaded
  <2>3. Fresh'
    BY <1>5, <2>2 DEF Fresh, AckedOutlastsCrashes
  <2> QED BY <1>4, <1>5, <2>2, <2>3 DEF StoreInv, Alone, Mirrored
<1> QED BY <1>6, <1>7

LEMMA CrashKeeps == ASSUME StoreInv, Crash, StoreTypeOK', Times' PROVE StoreInv'
<1>1. Saving' = {} /\ alone' = {}
  BY DEF Crash, Restart, Saving, NoPersist, Persisting
<1>2. UNCHANGED <<saved, savedMeta, now, acked>> /\ Loaded' = Loaded
  BY DEF Crash, Restart, files, Loaded
<1>3. Young' = Young
  BY <1>2 DEF Young
<1>4. ~excused' => rules' = saved /\ Young \subseteq saved
  BY DEF Crash, Loaded, Fresh, StoreInv
<1>5. Mirrored'
  BY <1>2 DEF Mirrored, Crash
<1> QED BY <1>1, <1>2, <1>3, <1>4, <1>5 DEF StoreInv, Snapshots, Alone, Fresh, AckedOutlastsCrashes

\* Nobody has read a time to come, and only rules are acknowledged.
LEMMA TimesKeep == StoreInv /\ (Run \/ Crash) => Times'
<1> SUFFICES ASSUME StoreInv, Run \/ Crash PROVE Times'
  OBVIOUS
<1>1. acked' \subseteq Rule
  <2>1. \A w \in Saving : persist[w].snapshot \subseteq Rule
    BY DEF StoreInv, StoreTypeOK, Saving
  <2>2. UNION {persist[w].snapshot : w \in Acking} \subseteq Rule
    BY <2>1 DEF Acking
  <2>3. acked' \in {acked, acked \cup UNION {persist[w].snapshot : w \in Acking}}
    BY DEF Run, Crash
  <2> QED BY <2>2, <2>3 DEF StoreInv, Times
<1>2. \A w \in Writers : writer[w].time \in Nat /\ writer[w].time <= now /\ now \in Nat
  BY DEF StoreInv, Times, StoreTypeOK, RulesTypeOK, Writer
<1>3. CASE Crash
  BY <1>1, <1>2, <1>3 DEF Crash, Restart, NoWriter, Times
<1>4. CASE StoreTick
  BY <1>1, <1>2, <1>4 DEF StoreTick, Times
<1>5. ASSUME NEW w \in Writers, Begin(w) PROVE Times'
  BY <1>1, <1>2, <1>5, WriteTyped DEF Begin, Times, StoreInv, StoreTypeOK
<1>6. ASSUME NEW w \in Writers, Locked(w) PROVE Times'
  <2>1. now' = now /\ writer' = [writer EXCEPT ![w] = NoWriter]
    BY <1>6, ChangeTyped DEF Locked, StoreInv, StoreTypeOK
  <2> QED BY <1>1, <1>2, <2>1 DEF Times, NoWriter, StoreInv, StoreTypeOK, RulesTypeOK
<1>7. ASSUME NEW w \in Writers, SaveContent(w) \/ Truncate(w) \/ SaveMeta(w) PROVE Times'
  BY <1>1, <1>2, <1>7 DEF SaveContent, Truncate, SaveMeta, rulevars, Times
<1> QED BY <1>3, <1>4, <1>5, <1>6, <1>7 DEF Run, Running, WriterStep

LEMMA StepKeeps == StoreInv /\ [Run \/ Crash]_histvars => StoreInv'
<1> SUFFICES ASSUME StoreInv, [Run \/ Crash]_histvars PROVE StoreInv'
  OBVIOUS
<1>1. StoreTypeOK'
  BY RunTyped DEF StoreInv
<1>2. CASE UNCHANGED histvars
  BY <1>1, <1>2 DEF histvars, storevars, rulevars, files, StoreInv, Times, Snapshots, YoungOf, Alone, Fresh, Young,
    Mirrored, Loaded, AckedOutlastsCrashes, Saving
<1>3. CASE Crash
  BY <1>1, <1>3, TimesKeep, CrashKeeps
<1>4. CASE Run
  <2>1. Times' /\ now \in Nat
    BY <1>4, TimesKeep DEF StoreInv, StoreTypeOK, RulesTypeOK
  <2>2. CASE StoreTick
    <3>1. UNCHANGED <<rules, files, persist>> /\ now <= now' /\ now' \in Nat
      BY <2>1, <2>2 DEF StoreTick
    <3> QED BY <1>1, <1>4, <2>1, <3>1, QuietKeeps
  <2>3. ASSUME NEW w \in Writers, Begin(w) PROVE StoreInv'
    <3>1. UNCHANGED <<rules, now, files>>
      BY <2>3, WriteTyped DEF Begin, StoreInv, StoreTypeOK
    <3>2. ASSUME NEW x \in Writers PROVE persist'[x] = persist[x] \/ (NotPersisting(x) /\ NotPersisting(x)')
      BY <2>3 DEF Begin, Return, NoPersist, NotPersisting, Persisting, StoreInv, StoreTypeOK
    <3> QED BY <1>1, <1>4, <2>1, <3>1, <3>2, QuietKeeps
  <2>4. ASSUME NEW w \in Writers, Locked(w) PROVE StoreInv'
    BY <1>1, <1>4, <2>1, <2>4, LockedKeeps
  <2>5. ASSUME NEW w \in Writers, SaveContent(w) PROVE StoreInv'
    <3>1. w \in Saving /\ UNCHANGED rulevars
      BY <2>5 DEF SaveContent, PersistAt, Saving, Persisting
    <3>2. CASE saved' = persist[w].snapshot /\ GoTo(w, "truncate")
      BY <1>1, <1>4, <2>1, <3>1, <3>2, AdvanceKeeps DEF Persisting
    <3>3. CASE Return(w, "err")
      BY <1>1, <1>4, <2>1, <3>1, <3>3, FailedKeeps
    <3> QED BY <2>5, <3>2, <3>3 DEF SaveContent
  <2>6. ASSUME NEW w \in Writers, Truncate(w) PROVE StoreInv'
    <3>1. w \in Saving /\ persist[w].at = "truncate" /\ UNCHANGED rulevars
      BY <2>6 DEF Truncate, PersistAt, Saving, Persisting
    <3>2. CASE saved' = saved /\ GoTo(w, "meta")
      BY <1>1, <1>4, <2>1, <3>1, <3>2, AdvanceKeeps DEF Persisting
    <3>3. CASE Return(w, "err")
      BY <1>1, <1>4, <2>1, <3>1, <3>3, FailedKeeps
    <3> QED BY <2>6, <3>2, <3>3 DEF Truncate, MetaFails
  <2>7. ASSUME NEW w \in Writers, SaveMeta(w) PROVE StoreInv'
    <3>1. w \in Saving /\ persist[w].at = "meta" /\ UNCHANGED rulevars
      BY <2>7 DEF SaveMeta, PersistAt, Saving, Persisting
    <3>2. CASE Return(w, "ok") /\ savedMeta' = "ok" /\ saved' = saved
      BY <1>1, <1>4, <2>1, <3>1, <3>2, SavedKeeps
    <3>3. CASE Return(w, "err")
      BY <1>1, <1>4, <2>1, <3>1, <3>3, FailedKeeps
    <3> QED BY <2>7, <3>2, <3>3 DEF SaveMeta, MetaFails
  <2> QED BY <1>4, <2>2, <2>3, <2>4, <2>5, <2>6, <2>7 DEF Run, Running, WriterStep
<1> QED BY <1>2, <1>3, <1>4

LEMMA InitInv == AckedInit => StoreInv
<1> SUFFICES ASSUME AckedInit PROVE StoreInv
  OBVIOUS
<1>1. StoreTypeOK
  BY InitTyped DEF AckedInit
<1>2. Saving = {}
  BY DEF AckedInit, StoreInit, Saving, NoPersist, Persisting
<1> QED BY <1>1, <1>2 DEF AckedInit, StoreInit, RulesInit, NoWriter, StoreInv, Times, Snapshots, Alone, Fresh, Young,
      Mirrored, Loaded, AckedOutlastsCrashes

-----------------------------------------------------------------------------
\* A writer in persist holds a snapshot and nothing of the mutex, through all failures and restarts
\* (store.go 26-38, 77-92, 112-136).
THEOREM StoreTyped == CrashSpec => []StoreTypeOK
<1>1. StoreInv => StoreTypeOK
  BY DEF StoreInv
<1> QED BY InitInv, StepKeeps, <1>1, PTL DEF CrashSpec

\* The file mirrors the rules again as soon as one persist that overlaps no other has succeeded,
\* for any number of writers, whatever failed before it (store.go 33, 90, 149-164).
THEOREM StoreMirrored == CrashSpec => []Mirrored
<1>1. StoreInv => Mirrored
  BY DEF StoreInv
<1> QED BY InitInv, StepKeeps, <1>1, PTL DEF CrashSpec

\* Acknowledged rules stay in force until they are old, through Cleanups, failures and restarts, unless
\* a crash finds the file stale or its .meta torn (store.go 48-92, 112-136).
THEOREM StoreKeepsAcknowledged == CrashSpec => []AckedOutlastsCrashes
<1>1. StoreInv => AckedOutlastsCrashes
  BY DEF StoreInv
<1> QED BY InitInv, StepKeeps, <1>1, PTL DEF CrashSpec
=============================================================================
