----------------------------- MODULE MCHotReload -----------------------------
(***************************************************************************)
(* Small instances of HotReload inside Servers, with what the process has  *)
(* been told of the file kept beside the model as a history.               *)
(***************************************************************************)
EXTENDS Servers

VARIABLE told   \* since the file last changed the process was told to look at it

histvars == <<servervars, told>>

HistInit == ServersInit /\ told = FALSE
Run ==
    \/ Hangup /\ UNCHANGED serving /\ told' = TRUE
    \/ /\ ServersNext
       /\ told' = CASE file' # file -> linked /\ linked'
                    [] Up # Up' -> Up'
                    [] OTHER -> told

\* The goroutines of Watch and of main are scheduled, and the deadline of the shutdown passes; nobody is
\* obliged to save, to signal, to make requests or to answer them.
HistSpec ==
    /\ HistInit /\ [][Run]_histvars
    /\ WF_histvars(Watch /\ Run) /\ WF_histvars(Shutdown /\ Run) /\ WF_histvars(Pass /\ Run)

\* No change is lost between the watcher, SIGHUP and a reload under way: whenever Watch has nothing left
\* to do, the configuration in force is the file's, if the file parses and its last change was made in
\* place under the watch, or was followed by a SIGHUP or a start (loader.go 43-77).
NoLostUpdate ==
    at = "waiting" /\ ~event /\ ~hangup /\ told /\ file \in Loadable => table = file

\* After such a change, or a SIGHUP, the file's configuration comes into force, whatever reloads fail on
\* the way, unless the file changes again or the process ends (loader.go 49-57: a failed reload keeps the loop).
ReloadsInTheEnd ==
    \A c \in Loadable : (told /\ file = c) ~> (table = c \/ file # c \/ ~Up)

\* A signal ends the process, though requests may never end (main.go 102-105).
ShutdownEnds == Draining ~> ~Up

\* "On each change, it reloads the config and calls onChange with the new value" (loader.go 29).
EveryChangeReloads ==
    \A c \in Configs : (Up /\ file = c) ~> (table = c \/ file # c \/ ~Up)
=============================================================================
