---------------------------- MODULE MCCdnStepBack ----------------------------
(***************************************************************************)
(* Small instances of CdnNode, with the oldest body each request may get   *)
(* kept beside the model as a history.                                     *)
(***************************************************************************)
EXTENDS CdnNode

VARIABLES
    least,    \* the oldest body that a request arriving now may get, by key
    oldest    \* the oldest body that each request may get

HistInit ==
    /\ NodeInit
    /\ least = [k \in Keys |-> 1]
    /\ oldest = [c \in Clients |-> 0]

Larger(S, x) == CHOOSE a \in S \cup {x} : \A b \in S \cup {x} : b <= a
Purging(k) == group[k] = None /\ \E a \in Admins :
    call[a].op # "delete.storage" /\ call'[a].op = "delete.storage" /\ call'[a].key = k
Answering(c, k) == task[c].at # "done" /\ task'[c].at = "done" /\ task'[c].key = k

Run ==
    /\ Serving
    /\ least' = [k \in Keys |-> IF Purging(k) THEN bodies + 1
                                ELSE Larger({task'[c].body : c \in {x \in Clients : Answering(x, k)}}, least[k])]
    /\ oldest' = [c \in Clients |->
          CASE visit'[c].key = None -> 0
            [] visit[c].key = None /\ visit'[c].key # None -> least[visit'[c].key]
            [] OTHER -> oldest[c]]

Crash ==
    /\ Die
    /\ least' = [k \in Keys |-> bodies + 1]
    /\ oldest' = [c \in Clients |-> 0]

HistSpec == HistInit /\ [][Run \/ Crash]_<<nodevars, least, oldest>>

\* What is served never goes back: a request that arrives after another was served a body of the key,
\* after a URL flush that found no flight of the key, or after a restart, gets a body at least as new,
\* or one pulled after the flush or the restart (singleflight.go 42-71, handler.go 63, main.go 62).
NoStepBack == \A c \in Clients : Served(c) => task[c].body >= oldest[c]

ClientSymmetry == Permutations(Clients)
=============================================================================
