---------------------------- MODULE ScheduledScan ----------------------------
(***************************************************************************)
(* The scheduled scan of Engine (src/src/engine/src/engine.cpp): a thread  *)
(* that sleeps on a condition variable until the next fire time, scans the *)
(* configured directories and sleeps again, and the calls that start, stop *)
(* and replace it. The flag scan_cancel is shared with the manual scans,   *)
(* which clear it when they begin; the scheduled scan only reads it.       *)
(*                                                                         *)
(* scheduled_scan_stop is an atomic that is set without the mutex of the   *)
(* condition variable, so the thread's look at it and its going to sleep   *)
(* are two steps, and a notification between them is lost.                 *)
(***************************************************************************)
EXTENDS FiniteSets

CONSTANTS
  Caller,    \* threads that start, stop and configure the engine
  Thread,    \* scheduled threads, one per std::thread that is created
  Dir,       \* the directories of one scheduled scan
  File,
  DirOf,     \* [File -> Dir]
  Target,    \* the file a configuration may name instead of directories
  Configs,   \* the configurations that are offered
  ConfigFile, \* what avsuite.json may hold when the program starts
  Overlap,   \* may a call begin while another is in progress?
  NoThread, NoConfig

\* A target that is a directory is the case of one Dir.
Config == [enabled: BOOLEAN, interval: {"on_boot", "daily"},
           target: {"directories", "file"}]

Default == [enabled |-> FALSE, interval |-> "daily", target |-> "directories"]

\* A file is a record of its form ("absent", "no JSON" or "JSON") and the members it
\* has under "scheduled_scan". A member that is not there has its default, and all
\* have if there is no file or it is no JSON. (One of another type ends the program
\* before it starts.)
LoadFromFile(file) ==
  [m \in DOMAIN Default |->
     IF file.form = "JSON" /\ m \in DOMAIN file.scheduled_scan
     THEN file.scheduled_scan[m] ELSE Default[m]]

ASSUME ScheduledScanAssumption ==
  /\ DirOf \in [File -> Dir]
  /\ Target \in File
  /\ Configs \subseteq Config
  /\ \A file \in ConfigFile : LoadFromFile(file) \in Configs
  /\ NoThread \notin Thread /\ NoConfig \notin Configs
  /\ Overlap \in BOOLEAN

VARIABLES
  realtime_started,
  config,       \* config.scheduled_scan
  cpc,          \* where each caller is
  goal,         \* the configuration each call restarts the thread with
  handle,       \* scheduled_scan_thread: the joinable thread, if any
  stop,         \* scheduled_scan_stop
  crashed,      \* std::terminate was called
  overlapped,   \* history: a call has begun while another was in progress
  tpc, tcfg,    \* where each thread is and the configuration it captured
  dirs, files,  \* what a scheduled scan has yet to do: directories, and files
                \* of the directory it is in
  scanned,      \* history: the files the current scheduled scan has scanned
  scan_cancel,
  manual,       \* a manual scan is in progress
  flagged       \* history: the current scheduled scan has met scan_cancel

callerVars == <<realtime_started, config, cpc, goal, handle, overlapped>>
scanVars == <<dirs, files, scanned>>
cancelVars == <<scan_cancel, manual, flagged>>
vars == <<callerVars, stop, crashed, tpc, tcfg, scanVars, cancelVars>>

-----------------------------------------------------------------------------
CallerPc == {"idle", "restart", "notify", "stopNotify", "restartJoin",
             "stopJoin", "spawn"}
Restarting == {"restart", "notify", "restartJoin", "spawn"}
ThreadPc == {"off", "loop", "test", "gap", "asleep", "woken", "run", "done"}

TypeOK ==
  /\ realtime_started \in BOOLEAN
  /\ config \in Configs
  /\ cpc \in [Caller -> CallerPc]
  /\ goal \in [Caller -> Configs \cup {NoConfig}]
  /\ \A c \in Caller : cpc[c] \in Restarting => goal[c] \in Configs
  /\ handle \in Thread \cup {NoThread}
  /\ stop \in BOOLEAN /\ crashed \in BOOLEAN /\ overlapped \in BOOLEAN
  /\ tpc \in [Thread -> ThreadPc]
  /\ tcfg \in [Thread -> Configs]
  /\ dirs \subseteq Dir /\ files \subseteq File /\ scanned \subseteq File
  /\ scan_cancel \in BOOLEAN /\ manual \in BOOLEAN
  /\ flagged \in BOOLEAN
  /\ \A t \in Thread : tpc[t] # "off" => t = handle

Init ==
  /\ realtime_started = FALSE
  /\ \E file \in ConfigFile : config = LoadFromFile(file)
  /\ cpc = [c \in Caller |-> "idle"]
  /\ goal = [c \in Caller |-> NoConfig]
  /\ handle = NoThread
  /\ stop = FALSE /\ crashed = FALSE /\ overlapped = FALSE
  /\ tpc = [t \in Thread |-> "off"]
  /\ tcfg = [t \in Thread |-> config]
  /\ dirs = {} /\ files = {} /\ scanned = {}
  /\ scan_cancel = FALSE /\ manual = FALSE /\ flagged = FALSE

CallerGoes(c, pc) == cpc' = [cpc EXCEPT ![c] = pc] /\ UNCHANGED goal
Returns(c) == /\ cpc' = [cpc EXCEPT ![c] = "idle"]
              /\ goal' = [goal EXCEPT ![c] = NoConfig]
Goes(t, pc) == tpc' = [tpc EXCEPT ![t] = pc]

-----------------------------------------------------------------------------
(* Start, stop and configure                                               *)

\* A call begins: nothing in the code keeps it from doing so during another.
Begins(c) ==
  LET others == \E d \in Caller \ {c} : cpc[d] # "idle"
  IN  /\ cpc[c] = "idle"
      /\ Overlap \/ ~others
      /\ overlapped' = (overlapped \/ others)

\* To RestartScheduledThread with this configuration.
Restarts(c, cfg) == /\ cpc' = [cpc EXCEPT ![c] = "restart"]
                    /\ goal' = [goal EXCEPT ![c] = cfg]

\* The end of StartRealtimeProtection; it is called once per run of the engine.
StartRealtimeProtection(c) ==
  /\ Begins(c)
  /\ ~realtime_started
  /\ realtime_started' = TRUE
  /\ Restarts(c, config)
  /\ UNCHANGED <<config, handle, stop, crashed, tpc, tcfg, scanVars, cancelVars>>

SetScheduledScan(c, cfg) ==
  /\ Begins(c)
  /\ config' = cfg
  /\ IF realtime_started THEN Restarts(c, cfg) ELSE UNCHANGED <<cpc, goal>>
  /\ UNCHANGED <<realtime_started, handle, stop, crashed, tpc, tcfg, scanVars,
                 cancelVars>>

\* Variant: a running thread is left alone.
RestartScheduledThread_KeepsOld(c) ==
  /\ cpc[c] = "restart"
  /\ IF handle # NoThread THEN Returns(c) ELSE CallerGoes(c, "spawn")
  /\ UNCHANGED <<realtime_started, config, handle, overlapped, stop, crashed, tpc,
                 tcfg, scanVars, cancelVars>>

RestartScheduledThread(c) ==
  /\ cpc[c] = "restart"
  /\ IF handle # NoThread
       THEN stop' = TRUE /\ CallerGoes(c, "notify")
       ELSE CallerGoes(c, "spawn") /\ UNCHANGED stop
  /\ UNCHANGED <<realtime_started, config, handle, overlapped, crashed, tpc, tcfg,
                 scanVars, cancelVars>>

\* Stop() calls StopScheduledThread first.
StopScheduledThread(c) ==
  /\ Begins(c)
  /\ realtime_started' = FALSE
  /\ stop' = TRUE
  /\ CallerGoes(c, "stopNotify")
  /\ UNCHANGED <<config, handle, crashed, tpc, tcfg, scanVars, cancelVars>>

\* notify_all wakes a thread that is asleep, which tests the flag again.
Notify(c) ==
  /\ \/ cpc[c] = "notify" /\ CallerGoes(c, "restartJoin")
     \/ /\ cpc[c] = "stopNotify"
        /\ IF handle = NoThread THEN Returns(c) ELSE CallerGoes(c, "stopJoin")
  /\ tpc' = [t \in Thread |-> IF tpc[t] = "asleep" THEN "test" ELSE tpc[t]]
  /\ UNCHANGED <<realtime_started, config, handle, overlapped, stop, crashed, tcfg,
                 scanVars, cancelVars>>

\* After join(): Stop() goes on to the rest, the others create a thread.
Joined(c) == IF cpc[c] = "stopJoin" THEN Returns(c) ELSE CallerGoes(c, "spawn")

\* Variant: the flag is cleared before the thread has seen it.
Join_ClearsFlagFirst(c) ==
  /\ cpc[c] \in {"restartJoin", "stopJoin"}
  /\ handle # NoThread
  /\ IF tpc[handle] # "done"
       THEN stop' = FALSE /\ UNCHANGED <<cpc, goal, handle, tpc>>
       ELSE /\ Goes(handle, "off")
            /\ handle' = NoThread
            /\ Joined(c)
            /\ UNCHANGED stop
  /\ UNCHANGED <<realtime_started, config, overlapped, crashed, tcfg, scanVars,
                 cancelVars>>

\* join() on a thread that another caller has joined meanwhile throws.
Join(c) ==
  /\ cpc[c] \in {"restartJoin", "stopJoin"}
  /\ IF handle = NoThread
       THEN crashed' = TRUE /\ UNCHANGED <<cpc, goal, handle, tpc>>
       ELSE /\ tpc[handle] = "done"
            /\ Goes(handle, "off")
            /\ handle' = NoThread
            /\ Joined(c)
            /\ UNCHANGED crashed
  /\ UNCHANGED <<realtime_started, config, overlapped, stop, tcfg, scanVars,
                 cancelVars>>

\* Clear the flag and create the thread; assigning to a std::thread that is
\* still joinable ends the process.
Spawn(c) ==
  /\ cpc[c] = "spawn"
  /\ IF ~goal[c].enabled
       THEN Returns(c) /\ UNCHANGED <<handle, stop, crashed, tpc, tcfg>>
       ELSE /\ stop' = FALSE
            /\ IF handle # NoThread
                 THEN crashed' = TRUE /\ UNCHANGED <<cpc, goal, handle, tpc, tcfg>>
                 ELSE \E t \in Thread :
                        /\ tpc[t] = "off"
                        /\ Goes(t, "loop")
                        /\ tcfg' = [tcfg EXCEPT ![t] = goal[c]]
                        /\ handle' = t
                        /\ Returns(c)
                        /\ UNCHANGED crashed
  /\ UNCHANGED <<realtime_started, config, overlapped, scanVars, cancelVars>>

-----------------------------------------------------------------------------
(* The scheduled thread                                                    *)

\* The loop condition, then the fire time is computed.
Loop(t) ==
  /\ tpc[t] = "loop"
  /\ Goes(t, IF stop THEN "done" ELSE "test")
  /\ UNCHANGED <<callerVars, stop, crashed, tcfg, scanVars, cancelVars>>

\* wait_until evaluates its predicate ...
Test(t) ==
  /\ tpc[t] = "test"
  /\ Goes(t, IF stop THEN "woken" ELSE "gap")
  /\ UNCHANGED <<callerVars, stop, crashed, tcfg, scanVars, cancelVars>>

\* ... and then blocks; the setter does not hold the mutex.
FallAsleep(t) ==
  /\ tpc[t] = "gap"
  /\ Goes(t, "asleep")
  /\ UNCHANGED <<callerVars, stop, crashed, tcfg, scanVars, cancelVars>>

\* The fire time comes.
Fire(t) ==
  /\ tpc[t] = "asleep"
  /\ Goes(t, "woken")
  /\ UNCHANGED <<callerVars, stop, crashed, tcfg, scanVars, cancelVars>>

\* The check after the wait, and the start of RunScheduledScan.
Woken(t) ==
  /\ tpc[t] = "woken"
  /\ IF stop
       THEN Goes(t, "done") /\ UNCHANGED <<scanVars, flagged>>
       ELSE /\ Goes(t, "run")
            /\ scanned' = {}
            /\ IF tcfg[t].target = "file"
                 THEN dirs' = {} /\ files' = {Target}
                 ELSE dirs' = Dir /\ files' = {}
            /\ flagged' = scan_cancel
  /\ UNCHANGED <<callerVars, stop, crashed, tcfg, scan_cancel, manual>>

\* ScanDirectoryImpl on the next directory, unless told to stop.
EnterDirectory(t) ==
  /\ tpc[t] = "run" /\ files = {} /\ dirs # {}
  /\ IF stop
       THEN dirs' = {} /\ UNCHANGED files
       ELSE \E d \in dirs : /\ dirs' = dirs \ {d}
                            /\ files' = {f \in File : DirOf[f] = d}
  /\ UNCHANGED <<callerVars, stop, crashed, tpc, tcfg, scanned, cancelVars>>

\* Either flag ends the directory; a file's scan is one step. A target that is
\* a file is scanned without a look at the flags.
ScanEntry(t) ==
  /\ tpc[t] = "run" /\ files # {}
  /\ \/ /\ tcfg[t].target = "directories" /\ (stop \/ scan_cancel)
        /\ files' = {} /\ UNCHANGED scanned
     \/ /\ tcfg[t].target = "file" \/ (~stop /\ ~scan_cancel)
        /\ \E f \in files : files' = files \ {f} /\ scanned' = scanned \cup {f}
  /\ UNCHANGED <<callerVars, stop, crashed, tpc, tcfg, dirs, cancelVars>>

\* Variant: every interval is treated like "on_boot".
RunEnds_Once(t) ==
  /\ tpc[t] = "run" /\ files = {} /\ dirs = {}
  /\ Goes(t, "done")
  /\ UNCHANGED <<callerVars, stop, crashed, tcfg, scanVars, cancelVars>>

\* Variant: the scan returns after its first directory.
RunEnds_EarlyReturn(t) ==
  /\ tpc[t] = "run" /\ files = {} /\ dirs # Dir
  /\ Goes(t, IF tcfg[t].interval = "on_boot" THEN "done" ELSE "loop")
  /\ UNCHANGED <<callerVars, stop, crashed, tcfg, scanVars, cancelVars>>

\* An "on_boot" scan runs once.
RunEnds(t) ==
  /\ tpc[t] = "run" /\ files = {} /\ dirs = {}
  /\ Goes(t, IF tcfg[t].interval = "on_boot" THEN "done" ELSE "loop")
  /\ UNCHANGED <<callerVars, stop, crashed, tcfg, scanVars, cancelVars>>

-----------------------------------------------------------------------------
(* Manual scans                                                            *)

\* ScanDirectory, ScanPersistence and ScanAllProcesses clear the flag.
ManualScanStarts ==
  /\ ~manual
  /\ manual' = TRUE /\ scan_cancel' = FALSE
  /\ UNCHANGED <<callerVars, stop, crashed, tpc, tcfg, scanVars, flagged>>

ManualScanEnds ==
  /\ manual
  /\ manual' = FALSE
  /\ UNCHANGED <<callerVars, stop, crashed, tpc, tcfg, scanVars, scan_cancel,
                 flagged>>

\* The cancel button is shown while a manual scan runs.
CancelScan ==
  /\ manual
  /\ scan_cancel' = TRUE
  /\ flagged' = TRUE
  /\ UNCHANGED <<callerVars, stop, crashed, tpc, tcfg, scanVars, manual>>

-----------------------------------------------------------------------------
RestartStep(c) == RestartScheduledThread(c) \/ Notify(c) \/ Join(c) \/ Spawn(c)

ThreadStep(t) == \/ Loop(t) \/ Test(t) \/ FallAsleep(t) \/ Woken(t)
                 \/ EnterDirectory(t) \/ ScanEntry(t) \/ RunEnds(t)

Next ==
  /\ ~crashed
  /\ \/ \E c \in Caller :
          \/ StartRealtimeProtection(c) \/ StopScheduledThread(c)
          \/ \E cfg \in Configs : SetScheduledScan(c, cfg)
          \/ RestartStep(c)
     \/ \E t \in Thread : ThreadStep(t) \/ Fire(t)
     \/ ManualScanStarts \/ ManualScanEnds \/ CancelScan

\* Threads that can run do run; the fire time is at most a week away.
Fairness == /\ \A c \in Caller : WF_vars(~crashed /\ RestartStep(c))
            /\ \A t \in Thread : /\ WF_vars(~crashed /\ ThreadStep(t))
                                 /\ WF_vars(~crashed /\ Fire(t))

Spec == Init /\ [][Next]_vars /\ Fairness

-----------------------------------------------------------------------------
(* Properties                                                              *)

\* "Safe to call from any thread" (engine.hpp:184): no call ends the process, whether
\* by joining a joined thread or by assigning to a joinable one (engine.cpp:497, 501).
\* Two calls at a time do, as the run with Overlap shows.
NeverTerminates == ~crashed

\* Between calls, the thread runs with the configuration last set, and there is
\* one only if that configuration is enabled and protection is on.
ConfigInForce ==
  (\A c \in Caller : cpc[c] = "idle") =>
    IF realtime_started /\ config.enabled
      THEN handle # NoThread /\ tcfg[handle] = config /\ ~stop
      ELSE handle = NoThread

\* A call joins no thread that has not been told to stop: the flag it has raised is
\* still up, wherever it is on its way to the end of the join. (With two calls at a
\* time the other may have lowered it for its own thread.)
ToldBeforeJoined ==
  \A c \in Caller :
    cpc[c] \in {"notify", "stopNotify", "restartJoin", "stopJoin"} => stop

\* Whichever threads make the calls, as long as none has begun during another: the
\* scheduled thread is the one the configuration asks for, none is joined twice or
\* replaced while it could still run, and no call waits for a thread that nobody
\* stops (RestartScheduledThread, engine.cpp:493).
ScheduleInv ==
  TypeOK /\ (~overlapped => NeverTerminates /\ ConfigInForce /\ ToldBeforeJoined)

\* Every call of StartRealtimeProtection, SetScheduledScan and Stop returns, if
\* only when the fire time comes.
CallsReturn == \A c \in Caller : cpc[c] # "idle" ~> cpc[c] = "idle" \/ overlapped

\* A daily scan recurs for as long as nobody stops or replaces it.
Recurs ==
  \A t \in Thread :
    <>[](handle = t /\ ~stop /\ tcfg[t].interval = "daily" /\ ~overlapped)
      => []<>(tpc[t] = "run")

Wanted(t) == IF tcfg[t].target = "file" THEN {Target} ELSE File

RunCompletes(t) ==
  tpc[t] = "run" /\ tpc'[t] \in {"loop", "done"} /\ ~stop
    => scanned = Wanted(t)

\* A scheduled scan that meets no cancellation covers every file, as long as no two
\* calls have overlapped: the second could lower a stop flag the scan has seen.
UndisturbedScanComplete ==
  [][\A t \in Thread : ~flagged /\ ~overlapped => RunCompletes(t)]_vars
=============================================================================
