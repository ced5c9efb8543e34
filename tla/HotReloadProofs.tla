--------------------------- MODULE HotReloadProofs ---------------------------
(***************************************************************************)
(* The reloads and the shutdown of one process, for any configurations,    *)
(* any number of saves, signals, starts and requests, and any deadline.    *)
(***************************************************************************)
EXTENDS MCHotReload, TLAPS

-----------------------------------------------------------------------------
(* Types. *)

LEMMA OperateTyped == ReloadTypeOK /\ Operate => ReloadTypeOK'
<1> SUFFICES ASSUME ReloadTypeOK, Operate PROVE ReloadTypeOK'
  OBVIOUS
<1>1. CASE Truncate
  <2>1. ContentTypes'
    BY <1>1, SavesAssumption DEF ReloadTypeOK, ContentTypes, Loadable, process, Truncate, Saving, InPlace
  <2>2. SignalTypes'
    BY <1>1 DEF ReloadTypeOK, SignalTypes, process, Truncate, Saving, InPlace
  <2>3. InItsPlace'
    BY <1>1, ContentsAssumption DEF ReloadTypeOK, InItsPlace, ContentTypes, SignalTypes, Up, Notified, Loadable, process, Places, Truncate, Saving, InPlace
  <2> QED BY <2>1, <2>2, <2>3 DEF ReloadTypeOK
<1>2. CASE Remove \/ Create
  <2>1. ContentTypes'
    BY <1>2, SavesAssumption DEF ReloadTypeOK, ContentTypes, Loadable, process, Remove, Create, Swap, Saving
  <2>2. SignalTypes'
    BY <1>2 DEF ReloadTypeOK, SignalTypes, process, Remove, Create, Swap, Saving
  <2>3. InItsPlace'
    BY <1>2, ContentsAssumption DEF ReloadTypeOK, InItsPlace, ContentTypes, SignalTypes, Up, Notified, Loadable, process, Places, Remove, Create, Swap, Saving
  <2> QED BY <2>1, <2>2, <2>3 DEF ReloadTypeOK
<1>3. CASE Hangup
  <2>1. ContentTypes'
    BY <1>3, SavesAssumption DEF ReloadTypeOK, ContentTypes, Loadable, process, Hangup, disk
  <2>2. SignalTypes'
    BY <1>3 DEF ReloadTypeOK, SignalTypes, process, Hangup, disk
  <2>3. InItsPlace'
    BY <1>3, ContentsAssumption DEF ReloadTypeOK, InItsPlace, ContentTypes, SignalTypes, Up, Notified, Loadable, process, Places, Hangup, disk
  <2> QED BY <2>1, <2>2, <2>3 DEF ReloadTypeOK
<1>4. CASE HangupKills \/ Die
  <2>1. ContentTypes'
    BY <1>4, SavesAssumption DEF ReloadTypeOK, ContentTypes, Loadable, process, HangupKills, Die, Kill
  <2>2. SignalTypes'
    BY <1>4 DEF ReloadTypeOK, SignalTypes, process, HangupKills, Die, Kill
  <2>3. InItsPlace'
    BY <1>4, ContentsAssumption DEF ReloadTypeOK, InItsPlace, ContentTypes, SignalTypes, Up, Notified, Loadable, process, Places, HangupKills, Die, Kill
  <2> QED BY <2>1, <2>2, <2>3 DEF ReloadTypeOK
<1>5. ASSUME NEW c \in Configs \cup {Torn}, Fill(c) PROVE ReloadTypeOK'
  <2>1. ContentTypes'
    BY <1>5, SavesAssumption DEF ReloadTypeOK, ContentTypes, Loadable, process, Fill, Saving, InPlace
  <2>2. SignalTypes'
    BY <1>5 DEF ReloadTypeOK, SignalTypes, process, Fill, Saving, InPlace
  <2>3. InItsPlace'
    BY <1>5, ContentsAssumption DEF ReloadTypeOK, InItsPlace, ContentTypes, SignalTypes, Up, Notified, Loadable, process, Places, Fill, Saving, InPlace
  <2> QED BY <2>1, <2>2, <2>3 DEF ReloadTypeOK
<1>6. ASSUME NEW c \in Configs \cup {Torn}, Replace(c) PROVE ReloadTypeOK'
  <2>1. ContentTypes'
    BY <1>6, SavesAssumption DEF ReloadTypeOK, ContentTypes, Loadable, process, Replace, Swap, Saving
  <2>2. SignalTypes'
    BY <1>6 DEF ReloadTypeOK, SignalTypes, process, Replace, Swap, Saving
  <2>3. InItsPlace'
    BY <1>6, ContentsAssumption DEF ReloadTypeOK, InItsPlace, ContentTypes, SignalTypes, Up, Notified, Loadable, process, Places, Replace, Swap, Saving
  <2> QED BY <2>1, <2>2, <2>3 DEF ReloadTypeOK
<1> QED BY <1>1, <1>2, <1>3, <1>4, <1>5, <1>6 DEF Operate

LEMMA WatchTyped == ReloadTypeOK /\ Watch => ReloadTypeOK'
<1> SUFFICES ASSUME ReloadTypeOK, Watch PROVE ReloadTypeOK'
  OBVIOUS
<1>1. CASE Add \/ AddFails \/ Notify
  <2>1. ContentTypes'
    BY <1>1, SavesAssumption DEF ReloadTypeOK, ContentTypes, Loadable, process, Add, AddFails, Notify, Move, disk, signals
  <2>2. SignalTypes'
    BY <1>1 DEF ReloadTypeOK, SignalTypes, process, Add, AddFails, Notify, Move, disk, signals
  <2>3. InItsPlace'
    BY <1>1, ContentsAssumption DEF ReloadTypeOK, InItsPlace, ContentTypes, SignalTypes, Up, Notified, Loadable, process, Places, Add, AddFails, Notify, Move, disk, signals
  <2> QED BY <2>1, <2>2, <2>3 DEF ReloadTypeOK
<1>2. CASE ReceiveEvent \/ ReceiveHangup
  <2>1. ContentTypes'
    BY <1>2, SavesAssumption DEF ReloadTypeOK, ContentTypes, Loadable, process, ReceiveEvent, ReceiveHangup, Move, disk, signals
  <2>2. SignalTypes'
    BY <1>2 DEF ReloadTypeOK, SignalTypes, process, ReceiveEvent, ReceiveHangup, Move, disk, signals
  <2>3. InItsPlace'
    BY <1>2, ContentsAssumption DEF ReloadTypeOK, InItsPlace, ContentTypes, SignalTypes, Up, Notified, Loadable, process, Places, ReceiveEvent, ReceiveHangup, Move, disk, signals
  <2> QED BY <2>1, <2>2, <2>3 DEF ReloadTypeOK
<1>3. CASE Load \/ LoadFails
  <2>1. ContentTypes'
    BY <1>3, SavesAssumption DEF ReloadTypeOK, ContentTypes, Loadable, process, Load, LoadFails, Move, disk, signals
  <2>2. SignalTypes'
    BY <1>3 DEF ReloadTypeOK, SignalTypes, process, Load, LoadFails, Move, disk, signals
  <2>3. InItsPlace'
    BY <1>3, ContentsAssumption DEF ReloadTypeOK, InItsPlace, ContentTypes, SignalTypes, Up, Notified, Loadable, process, Places, Load, LoadFails, Move, disk, signals
  <2> QED BY <2>1, <2>2, <2>3 DEF ReloadTypeOK
<1>4. CASE Update \/ Cleanup
  <2>1. ContentTypes'
    BY <1>4, SavesAssumption DEF ReloadTypeOK, ContentTypes, Loadable, process, Update, Cleanup, Move, disk, signals
  <2>2. SignalTypes'
    BY <1>4 DEF ReloadTypeOK, SignalTypes, process, Update, Cleanup, Move, disk, signals
  <2>3. InItsPlace'
    BY <1>4, ContentsAssumption DEF ReloadTypeOK, InItsPlace, ContentTypes, SignalTypes, Up, Notified, Loadable, process, Places, Update, Cleanup, Move, disk, signals
  <2> QED BY <2>1, <2>2, <2>3 DEF ReloadTypeOK
<1> QED BY <1>1, <1>2, <1>3, <1>4 DEF Watch

LEMMA ReloadTyped == ReloadTypeOK /\ ReloadNext => ReloadTypeOK'
<1> SUFFICES ASSUME ReloadTypeOK, ReloadNext PROVE ReloadTypeOK'
  OBVIOUS
<1>1. CASE BootFails
  <2>1. ContentTypes'
    BY <1>1, SavesAssumption DEF ReloadTypeOK, ContentTypes, Loadable, process, BootFails, reloadvars, disk, signals
  <2>2. SignalTypes'
    BY <1>1 DEF ReloadTypeOK, SignalTypes, process, BootFails, reloadvars, disk, signals
  <2>3. InItsPlace'
    BY <1>1, ContentsAssumption DEF ReloadTypeOK, InItsPlace, ContentTypes, SignalTypes, Up, Notified, Loadable, process, Places, BootFails, reloadvars, disk, signals
  <2> QED BY <2>1, <2>2, <2>3 DEF ReloadTypeOK
<1>2. CASE Boot
  <2>1. ContentTypes'
    BY <1>2, SavesAssumption DEF ReloadTypeOK, ContentTypes, Loadable, process, Boot, Move, disk, signals
  <2>2. SignalTypes'
    BY <1>2 DEF ReloadTypeOK, SignalTypes, process, Boot, Move, disk, signals
  <2>3. InItsPlace'
    BY <1>2, ContentsAssumption DEF ReloadTypeOK, InItsPlace, ContentTypes, SignalTypes, Up, Notified, Loadable, process, Places, Boot, Move, disk, signals
  <2> QED BY <2>1, <2>2, <2>3 DEF ReloadTypeOK
<1> QED BY <1>1, <1>2, OperateTyped, WatchTyped DEF ReloadNext

\* The servers live and die with the process.
LEMMA ReloadStepTyped == ServersTypeOK /\ ReloadStep => ServersTypeOK'
<1> SUFFICES ASSUME ServersTypeOK, ReloadStep PROVE ServersTypeOK'
  OBVIOUS
<1>1. ReloadTypeOK'
  BY ReloadTyped DEF ServersTypeOK, ReloadStep
<1>2. CASE Up /\ ~Up'
  BY <1>1, <1>2, ServersAssumption DEF ServersTypeOK, ReloadStep, Server
<1>3. CASE ~Up /\ Up'
  BY <1>1, <1>3, ServersAssumption DEF ServersTypeOK, ReloadStep, Server
<1>4. CASE Up <=> Up'
  <2>1. UNCHANGED <<phase, listening, open, left>>
    BY <1>4 DEF ReloadStep, serving
  <2> QED BY <1>1, <1>4, <2>1 DEF ServersTypeOK
<1> QED BY <1>2, <1>3, <1>4

LEMMA SameProcess ==
    ASSUME ReloadTypeOK, UNCHANGED reloadvars PROVE ReloadTypeOK' /\ (Up <=> Up')
BY DEF ReloadTypeOK, ContentTypes, SignalTypes, InItsPlace, Up, Notified, reloadvars, disk, signals, process

LEMMA ServersTyped == ServersTypeOK /\ [ServersNext]_servervars => ServersTypeOK'
<1> SUFFICES ASSUME ServersTypeOK, [ServersNext]_servervars PROVE ServersTypeOK'
  OBVIOUS
<1>1. UNCHANGED reloadvars => ReloadTypeOK' /\ (Up <=> Up')
  BY SameProcess DEF ServersTypeOK
<1>2. CASE ReloadStep
  BY <1>2, ReloadStepTyped
<1>3. CASE Terminate
  BY <1>1, <1>3, ServersAssumption DEF ServersTypeOK, Terminate, Server
<1>4. CASE BizDown
  BY <1>1, <1>4 DEF ServersTypeOK, BizDown, Drained, Server
<1>5. CASE AdmDown
  <2>1. ReloadTypeOK' /\ ~Up'
    BY <1>5, ContentsAssumption DEF AdmDown, Kill, ServersTypeOK, ReloadTypeOK, ContentTypes, SignalTypes, InItsPlace,
      Up, Notified, Places, Loadable
  <2> QED BY <1>5, <2>1 DEF AdmDown, Drained, ServersTypeOK, Server
<1>6. CASE Pass
  BY <1>1, <1>6, ServersAssumption DEF ServersTypeOK, Pass
<1>7. ASSUME NEW s \in Server, Listen(s) PROVE ServersTypeOK'
  BY <1>1, <1>7 DEF ServersTypeOK, Listen, Server
<1>8. ASSUME NEW s \in Server, Accept(s) PROVE ServersTypeOK'
  BY <1>1, <1>8, ServersAssumption DEF ServersTypeOK, Accept
<1>9. ASSUME NEW s \in Server, Finish(s) PROVE ServersTypeOK'
  BY <1>1, <1>9, ServersAssumption DEF ServersTypeOK, Finish
<1>10. CASE UNCHANGED servervars
  BY <1>1, <1>10 DEF ServersTypeOK, servervars, serving
<1> QED BY <1>2, <1>3, <1>4, <1>5, <1>6, <1>7, <1>8, <1>9, <1>10 DEF ServersNext, Shutdown

-----------------------------------------------------------------------------
(* What the process was told of the file. *)

Pending == event \/ hangup

\* Wherever Watch is, the file's configuration is in force, on its way there, or about to be read.
Caught == told /\ file \in Loadable =>
    /\ at \in {"booted", "added", "waiting", "updated"} => Pending \/ table = file
    /\ at = "loaded" => Pending \/ loaded = file

\* A step that leaves the file alone and tells the process nothing new.
LEMMA SameFile ==
    ASSUME Caught, UNCHANGED <<file, signals, process>>, told' = told PROVE Caught'
BY DEF Caught, Pending, signals, process

LEMMA OperateCaught ==
    ASSUME ServersTypeOK, Caught, Operate, Run, ~Hangup PROVE Caught'
<1> SUFFICES ASSUME told', file' \in Loadable PROVE Caught'
  BY DEF Caught
<1>1. (Up <=> Up') /\ file' # file => linked /\ linked'
  BY DEF Run
<1>2. CASE Truncate
  <2>1. file' # file /\ (Up <=> Up')
    BY <1>2, ContentsAssumption DEF Truncate, InPlace, Saving, process, Up
  <2>2. linked
    BY <1>1, <2>1
  <2> QED BY <1>2, <2>2 DEF Truncate, InPlace, Caught, Pending
<1>3. ASSUME NEW c \in Configs \cup {Torn}, Fill(c) PROVE Caught'
  <2>1. file' # file /\ (Up <=> Up')
    BY <1>3 DEF Fill, InPlace, Saving, process, Up
  <2>2. linked
    BY <1>1, <2>1
  <2> QED BY <1>3, <2>2 DEF Fill, InPlace, Caught, Pending
<1>4. CASE file' = file /\ UNCHANGED <<signals, process>>
  <2>1. told' = told
    BY <1>4 DEF Run, process, Up
  <2> QED BY <1>4, <2>1, SameFile
<1>5. ASSUME NEW c, Swap(c) PROVE Caught'
  <2>1. linked' = FALSE /\ UNCHANGED <<signals, process>> /\ (Up <=> Up')
    BY <1>5 DEF Swap, Saving, signals, process, Up
  <2>2. file' = file
    BY <1>1, <2>1
  <2> QED BY <1>4, <2>1, <2>2
<1>6. CASE HangupKills \/ Die
  BY <1>6 DEF HangupKills, Die, Kill, Caught
<1> QED BY <1>2, <1>3, <1>5, <1>6 DEF Operate, Replace, Remove, Create

LEMMA WatchCaught ==
    ASSUME ServersTypeOK, Caught, Watch, told' = told PROVE Caught'
<1>1. CASE Add \/ AddFails \/ Notify
  BY <1>1 DEF Add, AddFails, Notify, Move, disk, signals, Caught, Pending
<1>2. CASE ReceiveEvent \/ ReceiveHangup
  BY <1>2 DEF ReceiveEvent, ReceiveHangup, Move, disk, signals, Caught, Pending
<1>3. CASE Load \/ LoadFails
  BY <1>3 DEF Load, LoadFails, Move, disk, signals, Caught, Pending
<1>4. CASE Update \/ Cleanup
  BY <1>4 DEF Update, Cleanup, Move, disk, signals, Caught, Pending
<1> QED BY <1>1, <1>2, <1>3, <1>4 DEF Watch

LEMMA RunCaught == ServersTypeOK /\ Caught /\ [Run]_histvars => Caught'
<1> SUFFICES ASSUME ServersTypeOK, Caught, [Run]_histvars PROVE Caught'
  OBVIOUS
<1>1. CASE Hangup
  BY <1>1 DEF Hangup, Caught, Pending, disk, process
<1>2. CASE UNCHANGED reloadvars
  <2>1. told' = told \/ UNCHANGED histvars \/ Hangup
    BY <1>2 DEF Run, reloadvars, disk, process, Up
  <2> QED BY <1>1, <1>2, <2>1, SameFile DEF reloadvars, disk, histvars, servervars
<1>3. CASE ServersNext /\ Run /\ ~Hangup
  <2>1. told' = CASE file' # file -> linked /\ linked'
                  [] Up # Up' -> Up'
                  [] OTHER -> told
    BY <1>3 DEF Run
  <2>2. CASE ReloadNext
    <3>1. CASE Operate
      BY <1>3, <3>1, OperateCaught
    <3>2. CASE BootFails
      BY <1>2, <3>2 DEF BootFails
    <3>3. CASE Boot
      BY <3>3 DEF Boot, Move, Caught, disk
    <3>4. CASE Watch
      <4>1. file' = file /\ Up /\ Up'
        BY <3>4 DEF Watch, Add, AddFails, Notify, ReceiveEvent, ReceiveHangup, Load, LoadFails, Update, Cleanup,
          Move, disk, Up
      <4> QED BY <2>1, <3>4, <4>1, WatchCaught
    <3> QED BY <2>2, <3>1, <3>2, <3>3, <3>4 DEF ReloadNext
  <2>3. CASE AdmDown
    BY <2>3 DEF AdmDown, Kill, Caught
  <2> QED BY <1>2, <1>3, <2>2, <2>3 DEF ServersNext, ReloadStep, Shutdown, Terminate, BizDown, Pass, Listen, Accept, Finish
<1> QED BY <1>1, <1>2, <1>3 DEF Run, histvars, servervars

-----------------------------------------------------------------------------
(* The shutdown. *)

\* Once the business server is down none of its requests is left, if there is time left.
Drawn == phase \in {"adm", "exited"} /\ left > 0 => open["biz"] = 0

CutInv == Drawn /\ NoRequestCut

LEMMA RunCuts == ServersTypeOK /\ CutInv /\ [Run]_histvars => CutInv'
<1> SUFFICES ASSUME ServersTypeOK, CutInv, [Run]_histvars PROVE CutInv'
  OBVIOUS
<1> USE DEF CutInv, Drawn, NoRequestCut, Server
<1>1. CASE UNCHANGED serving
  BY <1>1 DEF serving
<1>2. CASE ReloadStep
  BY <1>1, <1>2 DEF ReloadStep
<1>3. CASE Terminate
  BY <1>3 DEF Terminate
<1>4. CASE BizDown
  BY <1>4 DEF BizDown, Drained
<1>5. CASE AdmDown
  BY <1>5 DEF AdmDown, Drained
<1>6. CASE Pass
  BY <1>6 DEF Pass, Draining, ServersTypeOK
<1>7. ASSUME NEW s \in Server, Listen(s) PROVE CutInv'
  BY <1>7 DEF Listen
<1>8. ASSUME NEW s \in Server, Accept(s) PROVE CutInv'
  BY <1>8 DEF Accept, ServersTypeOK
<1>9. ASSUME NEW s \in Server, Finish(s) PROVE CutInv'
  BY <1>9 DEF Finish, ServersTypeOK
<1> QED BY <1>1, <1>2, <1>3, <1>4, <1>5, <1>6, <1>7, <1>8, <1>9
      DEF Run, ServersNext, Shutdown, histvars, servervars

-----------------------------------------------------------------------------
LEMMA InitInv == HistInit => ServersTypeOK /\ Caught /\ CutInv
<1> SUFFICES ASSUME HistInit PROVE ServersTypeOK /\ Caught /\ CutInv
  OBVIOUS
<1>1. ReloadTypeOK
  <2>1. Missing \notin Loadable
    BY ContentsAssumption DEF Loadable
  <2> USE DEF HistInit, ServersInit, ReloadInit
  <2>2. ContentTypes
    BY SavesAssumption DEF ContentTypes, Loadable
  <2>3. SignalTypes
    BY DEF SignalTypes
  <2> QED BY <2>1, <2>2, <2>3 DEF ReloadTypeOK, InItsPlace, Up, Places
<1>2. ServersTypeOK
  BY <1>1, ServersAssumption DEF HistInit, ServersInit, ReloadInit, ServersTypeOK, Up, Server
<1> QED BY <1>2 DEF HistInit, ServersInit, Caught, CutInv, Drawn, NoRequestCut

LEMMA RunTyped == ServersTypeOK /\ [Run]_histvars => ServersTypeOK'
<1> SUFFICES ASSUME ServersTypeOK, [Run]_histvars PROVE ServersTypeOK'
  OBVIOUS
<1>1. CASE Hangup /\ UNCHANGED serving
  <2>1. ReloadNext /\ Up /\ Up'
    BY <1>1 DEF ReloadNext, Operate, Hangup, Notified, Up, process
  <2>2. ReloadStep
    BY <1>1, <2>1 DEF ReloadStep
  <2> QED BY <2>2, ReloadStepTyped
<1> QED BY <1>1, ServersTyped DEF Run, histvars

\* The process, its watch and its servers stay in step through every start, kill and shutdown
\* (main.go 24-107, loader.go 32-78, server.go 53-78).
THEOREM ServersStayTyped == HistSpec => []ServersTypeOK
BY InitInv, RunTyped, PTL DEF HistSpec

\* No change of the file that the process was told of is lost between the watcher, the channel of SIGHUP
\* and reloads under way, however many saves and signals there are (loader.go 43-77).
THEOREM NoUpdateIsLost == HistSpec => []NoLostUpdate
<1>1. ServersTypeOK /\ Caught => NoLostUpdate
  BY DEF Caught, Pending, NoLostUpdate
<1> QED BY InitInv, RunTyped, RunCaught, <1>1, PTL DEF HistSpec

\* A shutdown that ends in time cuts off no request of either server (server.go 70-78).
THEOREM NoRequestIsCut == HistSpec => []NoRequestCut
<1>1. CutInv => NoRequestCut
  BY DEF CutInv
<1> QED BY InitInv, RunTyped, RunCuts, <1>1, PTL DEF HistSpec
=============================================================================
