------------------------------ MODULE MCPuller ------------------------------
(***************************************************************************)
(* Small instances of Puller, with the origins that have been well since   *)
(* each pull began kept beside the model as a history.                     *)
(***************************************************************************)
EXTENDS Puller, FiniteSets

VARIABLE steady

Well == {o \in Origins : health'[o] = "ok"}
HistInit == PullInit /\ steady = [p \in Pullers |-> {}]
HistNext ==
    /\ PullNext
    /\ steady' = [p \in Pullers |->
          CASE Trying(p) /\ pull'[p].at \in {"attempt", "failed"} -> steady[p] \cap Well
            [] ~Trying(p) /\ pull'[p].at = "attempt" -> Well
            [] ~Trying(p) /\ pull'[p].at = "failed" -> steady[p]
            [] OTHER -> {}]
HistFairSpec ==
    /\ HistInit /\ [][HistNext]_<<pullvars, steady>>
    /\ WF_pullvars(PullTick) /\ \A p \in Pullers : WF_pullvars(PullStep(p))

\* A pull asks as many different origins as its attempts allow and gives each its full time: it fails
\* only if fewer origins than it left out have been well since it began.  With as many retries as
\* other origins one good origin is enough (puller.go 54-66 and the budget of router.go 165-169).
FailsOnlyUnserved ==
    \A p \in Pullers : pull[p].at = "failed" =>
        Cardinality(steady[p]) + (IF Retry + 1 < N THEN Retry + 1 ELSE N) <= N
=============================================================================
