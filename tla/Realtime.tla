------------------------------ MODULE Realtime ------------------------------
(***************************************************************************)
(* Real-time protection from its start to the end of the engine            *)
(* (StartRealtimeProtection, Stop and ~Engine in                           *)
(* src/src/engine/src/engine.cpp), as the command-line host runs it with   *)
(* --watch (src/src/host_console/src/main.cpp): start, wait for Ctrl+C,    *)
(* stop, destroy.                                                          *)
(*                                                                         *)
(* The threads: the host's own, the folder watcher's, the ETW session's,   *)
(* and one detached thread for each image the session sees for the first   *)
(* time. What a scan finds goes through Emit, which holds emit_mutex_ over *)
(* the insertion and the callback; status events call back without it.     *)
(*                                                                         *)
(* The scheduled thread and the minifilter client are here only as started *)
(* or not: ScheduledScan and Minifilter have their own modules, as the     *)
(* judgement of an event has in ScanPipeline.                              *)
(***************************************************************************)
EXTENDS FolderWatcher

CONSTANT Image   \* the images of the processes that start

\* A name stands for the thread of a folder, that of an image, or neither.
ASSUME ThreadAssumption ==
  /\ Folder \cap Image = {}
  /\ {"etw", "none"} \cap (Folder \cup Image) = {}

VARIABLES
  host,       \* what the host's thread is doing
  destroying, \* Stop() is being called by ~Engine
  parts,      \* the parts of the protection that have been started
  etw,        \* what the ETW session's thread is doing
  trace_stop, \* the trace has been told to stop while it was running
  etw_scanned_paths,
  detached,   \* image -> what its detached thread is doing
  emit_mutex_,   \* the thread in Emit, or None
  g_stop_requested,
  asleep,     \* the host sleeps on g_stop_cv
  ctrl        \* what the console's handler thread is doing

engineVars == <<host, destroying, parts, etw, trace_stop, etw_scanned_paths, detached,
                emit_mutex_, g_stop_requested, asleep, ctrl>>
vars == <<watcherVars, engineVars>>

None == "none"
Part == {"watcher", "etw", "minifilter", "monitors", "schedule"}

TypeOK ==
  /\ WatcherTypeOK
  /\ host \in {"ready", "watching", "etwThread", "status", "minifilter", "report",
               "schedule", "tests", "sleeps", "stop", "watcherStop",
               "watcherJoin", "etwStop", "etwJoin", "minifilterStop", "stopped",
               "freed"}
  /\ destroying \in BOOLEAN /\ trace_stop \in BOOLEAN
  /\ parts \subseteq Part
  /\ etw \in {"none", "starting", "tracing", "judging", "waits", "emits",
              "spawns", "status", "ended"} \X (Image \cup {None})
  /\ etw_scanned_paths \subseteq Image
  /\ detached \in [Image -> {"none", "scan", "waits", "emits", "ended"}]
  /\ emit_mutex_ \in Folder \cup Image \cup {"etw", None}
  /\ g_stop_requested \in BOOLEAN /\ asleep \in BOOLEAN
  /\ ctrl \in {"idle", "notify"}

Init ==
  /\ WatcherInit
  /\ host = "ready" /\ destroying = FALSE /\ parts = {}
  /\ etw = <<"none", None>> /\ trace_stop = FALSE /\ etw_scanned_paths = {}
  /\ detached = [i \in Image |-> "none"]
  /\ emit_mutex_ = None
  /\ g_stop_requested = FALSE /\ asleep = FALSE /\ ctrl = "idle"

-----------------------------------------------------------------------------
(* Emit, on whatever thread                                                *)

\* Variant: the callback is called after the lock is released.
MayEmit_Unlocked(t) == TRUE

MayEmit(t) == emit_mutex_ = None

WatcherEmits(f) ==
  /\ \/ /\ watch[f] = "waits" /\ MayEmit(f)
        /\ emit_mutex_' = f
        /\ watch' = [watch EXCEPT ![f] = "emits"] /\ UNCHANGED batch
     \/ /\ watch[f] = "emits"
        /\ emit_mutex_' = None
        /\ CallbackReturns(f)
  /\ UNCHANGED <<running, handles, kernelVars, last_fired, cancelled, fileVars,
                 host, destroying, parts, etw, trace_stop, etw_scanned_paths,
                 detached, g_stop_requested, asleep, ctrl>>

\* The scan of an image, on a thread nothing waits for.
DetachedScans(i) ==
  /\ \/ /\ detached[i] = "scan"
        /\ \E next \in {"waits", "ended"} : detached' = [detached EXCEPT ![i] = next]
        /\ UNCHANGED emit_mutex_
     \/ /\ detached[i] = "waits" /\ MayEmit(i)
        /\ emit_mutex_' = i
        /\ detached' = [detached EXCEPT ![i] = "emits"]
     \/ /\ detached[i] = "emits"
        /\ emit_mutex_' = None
        /\ detached' = [detached EXCEPT ![i] = "ended"]
  /\ UNCHANGED <<watcherVars, host, destroying, parts, etw, trace_stop,
                 etw_scanned_paths, g_stop_requested, asleep, ctrl>>

-----------------------------------------------------------------------------
(* The ETW session's thread                                                *)

EtwGoes(from, to) == etw[1] = from /\ etw' = <<to, etw[2]>>

\* Without elevation the session does not start, and the failure is reported.
SessionStarts ==
  /\ EtwGoes("starting", "tracing") \/ EtwGoes("starting", "status")
  /\ UNCHANGED <<watcherVars, host, destroying, parts, trace_stop,
                 etw_scanned_paths, detached, emit_mutex_, g_stop_requested,
                 asleep, ctrl>>

StatusDelivered ==
  /\ EtwGoes("status", "ended")
  /\ UNCHANGED <<watcherVars, host, destroying, parts, trace_stop,
                 etw_scanned_paths, detached, emit_mutex_, g_stop_requested,
                 asleep, ctrl>>

ProcessStarted(i) ==
  /\ etw[1] = "tracing" /\ ~trace_stop
  /\ etw' = <<"judging", i>>
  /\ UNCHANGED <<watcherVars, host, destroying, parts, trace_stop,
                 etw_scanned_paths, detached, emit_mutex_, g_stop_requested,
                 asleep, ctrl>>

\* The rules find something to emit, or nothing.
Judges ==
  /\ \/ EtwGoes("judging", "waits") /\ UNCHANGED emit_mutex_
     \/ EtwGoes("judging", "spawns") /\ UNCHANGED emit_mutex_
     \/ EtwGoes("waits", "emits") /\ MayEmit("etw") /\ emit_mutex_' = "etw"
     \/ EtwGoes("emits", "spawns") /\ emit_mutex_' = None
  /\ UNCHANGED <<watcherVars, host, destroying, parts, trace_stop,
                 etw_scanned_paths, detached, g_stop_requested, asleep, ctrl>>

\* The first sight of an image starts a thread of its own.
Spawns ==
  /\ etw[1] = "spawns"
  /\ LET i == etw[2]
     IN  /\ detached' = IF i \in etw_scanned_paths THEN detached
                        ELSE [detached EXCEPT ![i] = "scan"]
         /\ etw_scanned_paths' = etw_scanned_paths \cup {i}
  /\ etw' = <<"tracing", None>>
  /\ UNCHANGED <<watcherVars, host, destroying, parts, trace_stop, emit_mutex_,
                 g_stop_requested, asleep, ctrl>>

TraceEnds ==
  /\ trace_stop
  /\ EtwGoes("tracing", "ended")
  /\ UNCHANGED <<watcherVars, host, destroying, parts, trace_stop,
                 etw_scanned_paths, detached, emit_mutex_, g_stop_requested,
                 asleep, ctrl>>

EtwThread == SessionStarts \/ StatusDelivered \/ Judges \/ Spawns \/ TraceEnds

-----------------------------------------------------------------------------
(* The host's thread: StartRealtimeProtection                              *)

HostGoes(from, to) == host = from /\ host' = to

StartsWatcher ==
  /\ HostGoes("ready", "etwThread")
  /\ StartsWatching
  /\ parts' = parts \cup {"watcher"}
  /\ UNCHANGED <<destroying, etw, trace_stop, etw_scanned_paths, detached,
                 emit_mutex_, g_stop_requested, asleep, ctrl>>

\* etw_thread begins, and SYS.REALTIME_STARTED is on its way to the callback.
StartsEtw ==
  /\ HostGoes("etwThread", "status")
  /\ etw' = <<"starting", None>>
  /\ parts' = parts \cup {"etw"}
  /\ UNCHANGED <<watcherVars, destroying, trace_stop, etw_scanned_paths, detached,
                 emit_mutex_, g_stop_requested, asleep, ctrl>>

\* The minifilter client connects or not; either way there is a status to deliver.
StartsMinifilter ==
  /\ HostGoes("status", "report")
  /\ parts' \in {parts, parts \cup {"minifilter"}}
  /\ UNCHANGED <<watcherVars, destroying, etw, trace_stop, etw_scanned_paths,
                 detached, emit_mutex_, g_stop_requested, asleep, ctrl>>

\* The monitors, realtime_started and the scheduled thread.
StartsRest ==
  /\ HostGoes("report", "tests")
  /\ parts' = parts \cup {"monitors", "schedule"}
  /\ UNCHANGED <<watcherVars, destroying, etw, trace_stop, etw_scanned_paths,
                 detached, emit_mutex_, g_stop_requested, asleep, ctrl>>

-----------------------------------------------------------------------------
(* Waiting for Ctrl+C                                                      *)

TestsRequest ==
  /\ HostGoes("tests", IF g_stop_requested THEN "stop" ELSE "sleeps")
  /\ UNCHANGED <<watcherVars, destroying, parts, etw, trace_stop, etw_scanned_paths,
                 detached, emit_mutex_, g_stop_requested, asleep, ctrl>>

Sleeps ==
  /\ host = "sleeps" /\ ~asleep
  /\ asleep' = TRUE
  /\ UNCHANGED <<watcherVars, host, destroying, parts, etw, trace_stop,
                 etw_scanned_paths, detached, emit_mutex_, g_stop_requested, ctrl>>

\* ConsoleCtrlHandler, on a thread of the console, without g_stop_mutex.
CtrlC ==
  /\ ctrl = "idle" /\ host \notin {"ready", "stopped", "freed"}
  /\ ~g_stop_requested
  /\ g_stop_requested' = TRUE
  /\ ctrl' = "notify"
  /\ UNCHANGED <<watcherVars, host, destroying, parts, etw, trace_stop,
                 etw_scanned_paths, detached, emit_mutex_, asleep>>

Notifies ==
  /\ ctrl = "notify"
  /\ ctrl' = "idle"
  /\ asleep' = FALSE
  /\ host' = IF asleep THEN "tests" ELSE host
  /\ UNCHANGED <<watcherVars, destroying, parts, etw, trace_stop, etw_scanned_paths,
                 detached, emit_mutex_, g_stop_requested>>

-----------------------------------------------------------------------------
(* Stop(), called by the host and once more by ~Engine                     *)

\* realtime_started is cleared and the scheduled thread joined.
StopsSchedule ==
  /\ HostGoes("stop", "watcherStop")
  /\ parts' = parts \ {"schedule"}
  /\ UNCHANGED <<watcherVars, destroying, etw, trace_stop, etw_scanned_paths,
                 detached, emit_mutex_, g_stop_requested, asleep, ctrl>>

StopsWatcher ==
  /\ HostGoes("watcherStop", "watcherJoin")
  /\ LowersRunning
  /\ UNCHANGED <<destroying, parts, etw, trace_stop, etw_scanned_paths, detached,
                 emit_mutex_, g_stop_requested, asleep, ctrl>>

CancelsWatcher ==
  /\ host = "watcherJoin"
  /\ CancelsReads
  /\ UNCHANGED engineVars

\* Variant: the threads are not joined.
MayClose_Unjoined == TRUE

MayClose == handles \subseteq cancelled /\ AllEnded

JoinsWatcher ==
  /\ HostGoes("watcherJoin", "etwStop")
  /\ MayClose
  /\ ClosesHandles
  /\ parts' = parts \ {"watcher"}
  /\ UNCHANGED <<destroying, etw, trace_stop, etw_scanned_paths, detached,
                 emit_mutex_, g_stop_requested, asleep, ctrl>>

\* trace.stop(): a trace that has not begun yet is not told.
StopsEtw ==
  /\ HostGoes("etwStop", "etwJoin")
  /\ trace_stop' = (trace_stop \/ etw[1] \in {"tracing", "judging", "waits",
                                              "emits", "spawns"})
  /\ UNCHANGED <<watcherVars, destroying, parts, etw, etw_scanned_paths, detached,
                 emit_mutex_, g_stop_requested, asleep, ctrl>>

JoinsEtw ==
  /\ HostGoes("etwJoin", "minifilterStop")
  /\ etw[1] \in {"none", "ended"}
  /\ parts' = parts \ {"etw"}
  /\ UNCHANGED <<watcherVars, destroying, etw, trace_stop, etw_scanned_paths,
                 detached, emit_mutex_, g_stop_requested, asleep, ctrl>>

StopsRest ==
  /\ HostGoes("minifilterStop", IF destroying THEN "freed" ELSE "stopped")
  /\ parts' = parts \ {"minifilter", "monitors"}
  /\ UNCHANGED <<watcherVars, destroying, etw, trace_stop, etw_scanned_paths,
                 detached, emit_mutex_, g_stop_requested, asleep, ctrl>>

Destroys ==
  /\ HostGoes("stopped", "stop")
  /\ destroying' = TRUE
  /\ UNCHANGED <<watcherVars, parts, etw, trace_stop, etw_scanned_paths, detached,
                 emit_mutex_, g_stop_requested, asleep, ctrl>>

Host ==
  \/ StartsWatcher \/ StartsEtw \/ StartsMinifilter \/ StartsRest
  \/ TestsRequest \/ Sleeps
  \/ StopsSchedule \/ StopsWatcher \/ CancelsWatcher \/ JoinsWatcher
  \/ StopsEtw \/ JoinsEtw \/ StopsRest \/ Destroys

Watcher(f) == (WatcherThread(f) /\ UNCHANGED engineVars) \/ WatcherEmits(f)

World ==
  \/ \E p \in Path : FileWritten(p) /\ UNCHANGED engineVars
  \/ \E p \in Path : WindowEnds(p) /\ UNCHANGED engineVars
  \/ \E i \in Image : ProcessStarted(i)
  \/ CtrlC

Next ==
  \/ Host \/ Notifies \/ EtwThread \/ World
  \/ \E f \in Folder : Watcher(f)
  \/ \E i \in Image : DetachedScans(i)

\* Threads run; the kernel answers a read; nobody has to write, start a process or
\* press Ctrl+C. The mutex goes to no waiter for ever.
Fairness ==
  /\ WF_vars(Host) /\ WF_vars(Notifies)
  /\ SF_vars(EtwThread)
  /\ \A f \in Folder : SF_vars(Watcher(f))
  /\ \A i \in Image : SF_vars(DetachedScans(i))

Spec == Init /\ [][Next]_vars /\ Fairness

-----------------------------------------------------------------------------
InCallback ==
  {f \in Folder : watch[f] = "emits"} \cup {i \in Image : detached[i] = "emits"}
  \cup (IF etw[1] = "emits" THEN {"etw"} ELSE {})

(***************************************************************************)
(* What is found reaches the callback from one thread at a time, whatever  *)
(* threads are scanning (Emit, engine.cpp:105: "Serialises DB writes and   *)
(* the detection callback across worker threads"). Status events, which    *)
(* do not go through Emit, are outside of this.                            *)
(***************************************************************************)
CallbackSerialised == Cardinality(InCallback) <= 1

(***************************************************************************)
(* When the engine is gone, no thread that Stop() knows is in it and no    *)
(* part it has started is left: only a detached scan, which nothing waits  *)
(* for, may outlive it (Stop and ~Engine, engine.cpp:1004, and the scan's  *)
(* thread, engine.cpp:938).                                                *)
(***************************************************************************)
OnlyScansOutlive ==
  host \in {"stopped", "freed"} =>
    /\ parts = {} /\ handles = {}
    /\ \A f \in Folder : watch[f] \in {"none", "ended"}
    /\ etw[1] \in {"none", "ended"}

(***************************************************************************)
(* Nobody waits for what is not on its way: the mutex that a thread waits  *)
(* for is held by one that is in the callback, so that it is not lost with *)
(* a thread that is stopped or detached (Emit, engine.cpp:105), and the    *)
(* threads that the watcher's Stop() joins have been told, in the second   *)
(* Stop(), of ~Engine, too (folder_watcher.cpp:111).                       *)
(***************************************************************************)
WaitsForSomeone ==
  /\ emit_mutex_ # None => emit_mutex_ \in InCallback
  /\ host = "watcherJoin" => ~running

EngineInv == TypeOK /\ OnlyScansOutlive /\ WaitsForSomeone

(***************************************************************************)
(* Every version of a watched file is looked at by a scan, or a newer one  *)
(* is, as long as the watcher runs: except for a change the debounce holds *)
(* back, one in an overflown buffer, one the kernel reports as a rename,   *)
(* one made before the folder's first read (folder_watcher.cpp:36, :57)    *)
(* and one to a file that cannot be opened when its turn comes. These wait *)
(* for the file's next change.                                             *)
(***************************************************************************)
EveryChangeAnswered ==
  \A p \in Path : (version[p] > scanned[p])
                    ~> (version[p] = scanned[p] \/ p \in missed \/ ~running)

(***************************************************************************)
(* Once Ctrl+C is pressed the host stops and the engine is destroyed,      *)
(* unless one of three signals came too early: the notification, before    *)
(* the host slept (host_console/main.cpp:55), the cancellation of a read,  *)
(* before the read (folder_watcher.cpp:116), or the stop of the trace,     *)
(* before it had begun (engine.cpp:1008). Nothing else keeps Stop()        *)
(* waiting.                                                                *)
(***************************************************************************)
SleptThrough == g_stop_requested /\ asleep /\ ctrl = "idle"
ReadTooLate == host = "watcherJoin" /\ \E f \in cancelled : watch[f] = "pending"
TraceTooLate == host = "etwJoin" /\ etw[1] = "tracing" /\ ~trace_stop

StopReturns ==
  g_stop_requested ~> (host = "freed" \/ SleptThrough \/ ReadTooLate \/ TraceTooLate)
=============================================================================
