------------------------------- MODULE Servers -------------------------------
(***************************************************************************)
(* The two HTTP servers of the process (internal/server/server.go) over    *)
(* its life: start, requests, and the shutdown of cmd/server/main.go,      *)
(* which drains the business server, then the admin server, under one      *)
(* deadline.  The goroutine of HotReload runs beside them until the end.   *)
(***************************************************************************)
EXTENDS HotReload

CONSTANTS
    Budget,    \* time for the whole shutdown, 30 s in main
    MaxOpen    \* bound: requests of one server at once

ASSUME ServersAssumption == Budget \in Nat \ {0} /\ MaxOpen \in Nat

VARIABLES
    phase,        \* "exited" is the end that shutdown leads to, "off" any other
    listening,    \* the servers whose listener is open
    open,         \* requests that are being served, by server
    left          \* what is left of the deadline of the shutdown

serving == <<phase, listening, open, left>>
servervars == <<reloadvars, serving>>

Server == {"biz", "adm"}
Draining == phase \in Server

ServersInit ==
    /\ ReloadInit
    /\ phase = "off" /\ listening = {} /\ open = [s \in Server |-> 0] /\ left = 0

-----------------------------------------------------------------------------
\* The steps of HotReload: Boot starts the servers, and the process takes them with it when it is killed.
ReloadStep ==
    /\ ReloadNext
    /\ CASE Up /\ ~Up' -> phase' = "off" /\ listening' = {} /\ open' = [s \in Server |-> 0] /\ left' = 0
         [] ~Up /\ Up' -> phase' = "serving" /\ listening' = {} /\ open' = [s \in Server |-> 0] /\ left' = 0
         [] OTHER -> UNCHANGED serving

\* A port that is taken is logged by the goroutine that found it so, and the process serves without it:
\* then this step does not come.
Listen(s) ==
    /\ phase = "serving" /\ s \notin listening
    /\ listening' = listening \cup {s} /\ UNCHANGED <<reloadvars, phase, open, left>>

Accept(s) ==
    /\ s \in listening /\ open[s] < MaxOpen
    /\ open' = [open EXCEPT ![s] = @ + 1] /\ UNCHANGED <<reloadvars, phase, listening, left>>

\* A handler returns; one that panics is answered with 500 by Recovery, or by net/http closing the connection.
Finish(s) ==
    /\ Up /\ open[s] > 0
    /\ open' = [open EXCEPT ![s] = @ - 1] /\ UNCHANGED <<reloadvars, phase, listening, left>>

\* Mutant: the business server goes on accepting while it is drained.
TerminateAccepting ==
    /\ phase = "serving"
    /\ phase' = "biz" /\ left' = Budget /\ UNCHANGED <<reloadvars, listening, open>>

\* The first SIGTERM or SIGINT; later ones wait in the channel and are not read.
Terminate ==
    /\ phase = "serving"
    /\ phase' = "biz" /\ listening' = listening \ {"biz"} /\ left' = Budget
    /\ UNCHANGED <<reloadvars, open>>

\* Mutant: both servers are shut down without waiting for the first.
BizDownAtOnce ==
    /\ phase = "biz"
    /\ phase' = "adm" /\ listening' = {} /\ UNCHANGED <<reloadvars, open, left>>

\* Mutant: the context of the shutdown has no deadline.
DrainedForever(s) == phase = s /\ open[s] = 0

\* http.Server.Shutdown returns when no request is left or the context has ended.
Drained(s) == phase = s /\ (open[s] = 0 \/ left = 0)

\* The admin server takes requests until the business server is down.
BizDown ==
    /\ Drained("biz")
    /\ phase' = "adm" /\ listening' = {} /\ UNCHANGED <<reloadvars, open, left>>

\* main returns, whatever the goroutine of Watch is doing.
AdmDown == Drained("adm") /\ Kill /\ phase' = "exited" /\ UNCHANGED <<listening, open, left>>

Pass == Draining /\ left > 0 /\ left' = left - 1 /\ UNCHANGED <<reloadvars, phase, listening, open>>

Shutdown == BizDown \/ AdmDown
ServersNext ==
    \/ ReloadStep \/ Terminate \/ Shutdown \/ Pass
    \/ \E s \in Server : Listen(s) \/ Accept(s) \/ Finish(s)

ServersSpec == ServersInit /\ [][ServersNext]_servervars

-----------------------------------------------------------------------------
\* Types; what each phase of the process leaves open (main.go 75-106, server.go 54-78).
ServersTypeOK ==
    /\ ReloadTypeOK
    /\ phase \in {"off", "serving", "exited"} \cup Server
    /\ Up <=> phase \notin {"off", "exited"}
    /\ listening \subseteq Server /\ open \in [Server -> 0 .. MaxOpen] /\ left \in 0 .. Budget
    /\ "biz" \in listening => phase = "serving"
    /\ "adm" \in listening => phase \in {"serving", "biz"}

\* A shutdown with time left cuts off no request, neither one under way at the signal nor one the admin
\* server took while the business server was drained (server.go 70-78).
NoRequestCut == phase = "exited" /\ left > 0 => \A s \in Server : open[s] = 0
=============================================================================
