------------------------------ MODULE HotReload ------------------------------
(***************************************************************************)
(* The configuration file and the process that follows it: config.Load and *)
(* config.Watch (internal/config/loader.go), and the callback that puts a  *)
(* configuration in force (cmd/server/main.go).  fsnotify watches the file *)
(* that was at the path when the watch was made, not the path; SIGHUP goes *)
(* to a channel of one, and kills the process before there is that channel.*)
(***************************************************************************)
EXTENDS Naturals

CONSTANTS
    Configs,    \* the configurations an operator saves
    Blank,      \* an empty file: Load takes it for the defaults, without domains
    Torn,       \* content that does not parse, of an operator's mistake or of a save half done
    Missing,    \* no file
    MaxSaves    \* bound: steps of operators on the file

Loadable == Configs \cup {Blank}

ASSUME ContentsAssumption == /\ {Blank, Torn, Missing} \cap Configs = {}
                             /\ Blank # Torn /\ Blank # Missing /\ Torn # Missing
ASSUME SavesAssumption == MaxSaves \in Nat

VARIABLES
    file,      \* what is at the path
    linked,    \* whether the watch is on the file at the path
    event,     \* whether a Write event waits to be received; the kernel merges equal events
    hangup,    \* whether a SIGHUP waits in its channel
    at,        \* where the process is: its start, then the loop of Watch
    loaded,    \* what Load has returned to the loop
    table,     \* the configuration in force: its domains are the handler's map
    saves

disk == <<file, linked>>
signals == <<event, hangup>>
process == <<at, loaded, table>>
reloadvars == <<disk, signals, process, saves>>

Places == {"down", "booted", "added", "waiting", "reading", "loaded", "updated", "ended"}
Up == at # "down"
Notified == at \in {"waiting", "reading", "loaded", "updated"}

ReloadInit ==
    /\ file \in Configs /\ saves = 0
    /\ linked = FALSE /\ event = FALSE /\ hangup = FALSE
    /\ at = "down" /\ loaded = Missing /\ table = Missing

Move(from, to) == at = from /\ at' = to

-----------------------------------------------------------------------------
(* Operators and their editors. *)

\* One write to the file in place is an event for the watch that is on it.
InPlace(content) == file' = content /\ event' = (event \/ linked) /\ UNCHANGED linked

Saving == saves < MaxSaves /\ saves' = saves + 1 /\ UNCHANGED <<hangup, process>>

\* A save in place empties the file, then writes it, in one piece or in several; some only write.
Truncate == Saving /\ file \notin {Missing, Blank} /\ InPlace(Blank)
Fill(content) == Saving /\ file \notin {Missing, content} /\ InPlace(content)

\* Another file is put at the path, or the file is taken away: the watch stays behind and is removed
\* with a Chmod, Remove or Rename event, which the loop ignores.
Swap(content) == Saving /\ file' = content /\ linked' = FALSE /\ UNCHANGED event
Replace(content) == Swap(content)
Remove == file # Missing /\ Swap(Missing)
Create == file = Missing /\ Swap(Blank)

Kill == at' = "down" /\ linked' = FALSE /\ event' = FALSE /\ hangup' = FALSE
        /\ loaded' = Missing /\ table' = Missing /\ UNCHANGED <<file, saves>>

\* Mutant: without a buffer the signal is dropped unless the loop is receiving.
HangupUnbuffered ==
    /\ Notified /\ hangup' = (hangup \/ at = "waiting")
    /\ UNCHANGED <<disk, event, process, saves>>

\* A second signal finds the channel full and is dropped: the first is still to be received.
Hangup == Notified /\ hangup' = TRUE /\ UNCHANGED <<disk, event, process, saves>>

HangupKills == Up /\ ~Notified /\ Kill
Die == Up /\ Kill

-----------------------------------------------------------------------------
(* The process. *)

\* main: a file that cannot be loaded ends the process at once, otherwise Update, and the servers listen.
BootFails == at = "down" /\ file \notin Loadable /\ UNCHANGED reloadvars
Boot ==
    /\ file \in Loadable /\ Move("down", "booted")
    /\ table' = file /\ UNCHANGED <<disk, signals, loaded, saves>>

\* Watch: the file is watched from here on; what happened to it since Load is not noticed.
Add ==
    /\ Move("booted", "added") /\ file # Missing
    /\ linked' = TRUE /\ UNCHANGED <<file, signals, loaded, table, saves>>

\* Without a file to watch Watch returns, and the process serves on without it.
AddFails ==
    /\ Move("booted", "ended") /\ file = Missing
    /\ UNCHANGED <<disk, signals, loaded, table, saves>>

Notify == Move("added", "waiting") /\ UNCHANGED <<disk, signals, loaded, table, saves>>

\* select takes either; of fsnotify's events only Write and Create get this far.
ReceiveEvent ==
    /\ event /\ Move("waiting", "reading")
    /\ event' = FALSE /\ UNCHANGED <<disk, hangup, loaded, table, saves>>
ReceiveHangup ==
    /\ hangup /\ Move("waiting", "reading")
    /\ hangup' = FALSE /\ UNCHANGED <<disk, event, loaded, table, saves>>

\* Mutant: one reload is made to answer for all that was waiting when it ended.
UpdateDraining ==
    /\ Move("loaded", "updated")
    /\ table' = loaded /\ event' = FALSE /\ UNCHANGED <<disk, hangup, loaded, saves>>

Load ==
    /\ file \in Loadable /\ Move("reading", "loaded")
    /\ loaded' = file /\ UNCHANGED <<disk, signals, table, saves>>

\* Mutant: the error is returned, which ends the loop.
LoadFailsForGood ==
    /\ file \notin Loadable /\ Move("reading", "ended")
    /\ UNCHANGED <<disk, signals, loaded, table, saves>>

\* The error is logged and the configuration in force stays.
LoadFails ==
    /\ file \notin Loadable /\ Move("reading", "waiting")
    /\ UNCHANGED <<disk, signals, loaded, table, saves>>

\* handler.Update swaps the map, then Cleanup (FlushRules) runs in the same goroutine.
Update ==
    /\ Move("loaded", "updated")
    /\ table' = loaded /\ UNCHANGED <<disk, signals, loaded, saves>>
Cleanup ==
    /\ Move("updated", "waiting")
    /\ loaded' = Missing /\ UNCHANGED <<disk, signals, table, saves>>

Operate ==
    \/ Truncate \/ Remove \/ Create \/ Hangup \/ HangupKills \/ Die
    \/ \E c \in Configs \cup {Torn} : Fill(c) \/ Replace(c)
Watch == Add \/ AddFails \/ Notify \/ ReceiveEvent \/ ReceiveHangup \/ Load \/ LoadFails \/ Update \/ Cleanup

ReloadNext == Operate \/ BootFails \/ Boot \/ Watch
ReloadSpec == ReloadInit /\ [][ReloadNext]_reloadvars

\* The goroutine of Watch is scheduled; nobody is obliged to save, to send signals or to start the process.
ReloadFairSpec == ReloadSpec /\ WF_reloadvars(Watch)

-----------------------------------------------------------------------------
ContentTypes ==
    /\ file \in Loadable \cup {Torn, Missing} /\ saves \in 0 .. MaxSaves
    /\ loaded \in Loadable \cup {Missing} /\ table \in Loadable \cup {Missing}
SignalTypes == linked \in BOOLEAN /\ event \in BOOLEAN /\ hangup \in BOOLEAN
InItsPlace ==
    /\ at \in Places
    /\ at = "loaded" => loaded \in Loadable
    /\ Up <=> table \in Loadable
    /\ (linked \/ event) => at \in Places \ {"down", "booted", "ended"}
    /\ hangup => Notified

\* Types; a configuration is on its way to Update only inside a reload, and one is in force while the
\* process is up (loader.go 49-77, main.go 25-29).
ReloadTypeOK == ContentTypes /\ SignalTypes /\ InItsPlace
=============================================================================
