----------------------------- MODULE FlushRules -----------------------------
(***************************************************************************)
(* internal/flush/store.go: the flush rules in memory.  A writer is a      *)
(* goroutine in AddRule (an admin request) or Cleanup (the hot reload): it *)
(* reads the clock, then changes the rules under the mutex.  A prefix      *)
(* stands for the set of cache keys it covers.                             *)
(***************************************************************************)
EXTENDS Naturals, FiniteSets

CONSTANTS
    Keys,
    RulePrefixes,   \* the prefixes rules may have, each the set of keys it covers
    Writers,        \* goroutines that may be inside the store at once
    MaxAge,         \* cache.flush_rule_max_age
    None

ASSUME PrefixAssumption == RulePrefixes \subseteq SUBSET Keys /\ None \notin RulePrefixes
ASSUME AgeAssumption == MaxAge \in Nat

VARIABLES
    rules,    \* the rules in force
    writer,   \* where each writer is, and the time it read
    now

rulevars == <<rules, writer, now>>

Rule == [covers : RulePrefixes, at : Nat]
NoWriter == [op |-> "idle", covers |-> None, time |-> 0]
Writer == [op : {"idle", "add", "cleanup"}, covers : RulePrefixes \cup {None}, time : Nat]

RulesInit == rules = {} /\ writer = [w \in Writers |-> NoWriter] /\ now = 0

-----------------------------------------------------------------------------
Matching(k) == {r \in rules : k \in r.covers}

\* Mutant: Match returns the first rule created.
Earliest(k) == CHOOSE r \in Matching(k) : \A s \in Matching(k) : s.at >= r.at

\* Match: the rule created last among those that cover the key; of rules created at once any will do.
Latest(k) == CHOOSE r \in Matching(k) : \A s \in Matching(k) : s.at <= r.at

\* An entry of k written at time t: Match finds a rule, and the rule is later.
Outdated(k, t) == Matching(k) # {} /\ Latest(k).at > t

Doing(w, op) == writer[w].op = op
Write(w, op, p) ==
    /\ Doing(w, "idle")
    /\ writer' = [writer EXCEPT ![w] = [op |-> op, covers |-> p, time |-> now]]
    /\ UNCHANGED <<rules, now>>

AddRule(w, p) == Write(w, "add", p)
Cleanup(w) == Write(w, "cleanup", None)

Change(w, changed) ==
    /\ rules' = changed
    /\ writer' = [writer EXCEPT ![w] = NoWriter]
    /\ UNCHANGED now

\* Mutant: Cleanup drops rules one moment early.
DropEarly(w) == Doing(w, "cleanup") /\ Change(w, {r \in rules : r.at + MaxAge > writer[w].time + 1})

Insert(w) == Doing(w, "add") /\ Change(w, rules \cup {[covers |-> writer[w].covers, at |-> writer[w].time]})

\* Rules created after the cutoff stay.
Drop(w) == Doing(w, "cleanup") /\ Change(w, {r \in rules : r.at + MaxAge > writer[w].time})

\* Types of the variables (store.go 26-38), and an AddRule knows its prefix.
RulesTypeOK ==
    /\ rules \in SUBSET Rule
    /\ writer \in [Writers -> Writer]
    /\ now \in Nat
    /\ \A w \in Writers : Doing(w, "add") => writer[w].covers \in RulePrefixes
=============================================================================
