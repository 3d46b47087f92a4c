--------------------------- MODULE FolderWatcher ---------------------------
(***************************************************************************)
(* The folder watcher (src/src/realtime_watch/src/folder_watcher.cpp): a   *)
(* thread per watched folder reads the folder's changes from the kernel    *)
(* and calls back for each file that was added or modified, unless the     *)
(* debounce table holds the file back.                                     *)
(*                                                                         *)
(* The kernel collects the changes of a folder from the first read of its  *)
(* handle on, in a buffer of bounded size; a read returns all of them, or  *)
(* nothing when there were more than the buffer holds. CancelIoEx ends     *)
(* the read that is pending, and says nothing to one that begins later.    *)
(*                                                                         *)
(* Time is what has passed of the debounce window: a path is in            *)
(* last_fired until the window after its last callback is over.            *)
(***************************************************************************)
EXTENDS Sequences, FiniteSets, Integers

CONSTANTS
  Folder,      \* the watched folders
  Path,        \* the files in them
  FolderOf,    \* path -> its folder
  BufferSize,  \* how many changes the kernel's buffer holds
  MaxVersion   \* bound: how often a file is written

ASSUME WatcherAssumption ==
  /\ FolderOf \in [Path -> Folder]
  /\ BufferSize \in Nat \ {0} /\ MaxVersion \in Nat

VARIABLES
  running,     \* Impl::running
  handles,     \* the folders whose handle is open
  watch,       \* folder -> what its thread is doing
  batch,       \* folder -> the changes its thread has read and not handled
  changes,     \* folder -> the changes the kernel has collected
  overflown,   \* the folders with more changes than the buffer holds
  collecting,  \* the folders whose handle has been read once
  last_fired,  \* the paths still held back by the debounce
  cancelled,   \* the folders whose pending reads Stop() has cancelled
  version,     \* path -> the version of the file there
  scanned,     \* path -> the newest version that a callback has looked at
  missed       \* history: the paths whose newest version nothing will report

kernelVars == <<changes, overflown, collecting>>
fileVars == <<version, scanned, missed>>
watcherVars == <<running, handles, watch, batch, kernelVars, last_fired,
                 cancelled, fileVars>>

Change == [path : Path, kind : {"written", "renamed"}]

WatcherTypeOK ==
  /\ running \in BOOLEAN
  /\ handles \subseteq Folder
  /\ watch \in [Folder -> {"none", "test", "call", "pending", "handle", "scan",
                           "waits", "emits", "ended"}]
  /\ batch \in [Folder -> Seq(Change)] /\ changes \in [Folder -> Seq(Change)]
  /\ \A f \in Folder : Len(changes[f]) <= BufferSize
  /\ overflown \subseteq Folder /\ collecting \subseteq Folder
  /\ last_fired \subseteq Path /\ cancelled \subseteq Folder
  /\ version \in [Path -> 0..MaxVersion] /\ scanned \in [Path -> 0..MaxVersion]
  /\ missed \subseteq Path

WatcherInit ==
  /\ running = FALSE /\ handles = {} /\ cancelled = {}
  /\ watch = [f \in Folder |-> "none"]
  /\ batch = [f \in Folder |-> <<>>] /\ changes = [f \in Folder |-> <<>>]
  /\ overflown = {} /\ collecting = {} /\ last_fired = {}
  /\ version = [p \in Path |-> 0] /\ scanned = [p \in Path |-> 0]
  /\ missed = {}

PathsOf(seq) == {seq[i].path : i \in DOMAIN seq}

-----------------------------------------------------------------------------
(* The kernel and the other programs                                       *)

Collected(f) == f \in collecting

\* Nobody collects the change.
GoesUnseen(p) ==
  /\ ~Collected(FolderOf[p])
  /\ missed' = missed \cup {p}
  /\ UNCHANGED <<changes, overflown>>

IsCollected(p, kind) ==
  LET f == FolderOf[p]
  IN  /\ Collected(f) /\ f \notin overflown /\ Len(changes[f]) < BufferSize
      /\ changes' = [changes EXCEPT ![f] = Append(@, [path |-> p, kind |-> kind])]
      /\ missed' = missed \ {p}
      /\ UNCHANGED overflown

\* The buffer is full: the changes in it are lost with this one.
Overflows(p) ==
  LET f == FolderOf[p]
  IN  /\ Collected(f) /\ (f \in overflown \/ Len(changes[f]) = BufferSize)
      /\ overflown' = overflown \cup {f}
      /\ changes' = [changes EXCEPT ![f] = <<>>]
      /\ missed' = missed \cup {p} \cup PathsOf(changes[f])

\* A file is written, or a finished one renamed to its name. What is written while
\* nobody watches is left out.
FileWritten(p) ==
  /\ FolderOf[p] \in handles
  /\ version[p] < MaxVersion
  /\ version' = [version EXCEPT ![p] = @ + 1]
  /\ \/ GoesUnseen(p)
     \/ \E kind \in {"written", "renamed"} : IsCollected(p, kind)
     \/ Overflows(p)
  /\ UNCHANGED <<running, handles, watch, batch, collecting, last_fired,
                 cancelled, scanned>>

\* debounce_ms have passed since the path's last callback.
WindowEnds(p) ==
  /\ p \in last_fired
  /\ last_fired' = last_fired \ {p}
  /\ UNCHANGED <<running, handles, watch, batch, kernelVars, cancelled, fileVars>>

-----------------------------------------------------------------------------
(* WatchDirectoryThread                                                    *)

\* while (running)
TestsRunning(f) ==
  /\ watch[f] = "test"
  /\ watch' = [watch EXCEPT ![f] = IF running THEN "call" ELSE "ended"]
  /\ UNCHANGED <<running, handles, batch, kernelVars, last_fired, cancelled, fileVars>>

\* ReadDirectoryChangesW waits for the next change.
CallsRead(f) ==
  /\ watch[f] = "call"
  /\ watch' = [watch EXCEPT ![f] = "pending"]
  /\ collecting' = collecting \cup {f}
  /\ UNCHANGED <<running, handles, batch, changes, overflown, last_fired,
                 cancelled, fileVars>>

\* Variant: the loop leaves at the last entry instead of after it.
Entries_NotLast(f) == SubSeq(changes[f], 1, Len(changes[f]) - 1)

Entries(f) == changes[f]

ReadReturns(f) ==
  /\ watch[f] = "pending"
  /\ f \in overflown \/ changes[f] # <<>>
  /\ watch' = [watch EXCEPT ![f] = IF f \in overflown THEN "test" ELSE "handle"]
  /\ batch' = [batch EXCEPT ![f] = Entries(f)]
  /\ changes' = [changes EXCEPT ![f] = <<>>]
  /\ overflown' = overflown \ {f}
  /\ UNCHANGED <<running, handles, collecting, last_fired, cancelled, fileVars>>


\* HandleChange: a path fires at most once in a window, at the window's beginning.
Fires(change) == change.kind = "written" /\ change.path \notin last_fired

Reports(f) ==
  /\ watch[f] = "handle" /\ batch[f] # <<>> /\ Fires(Head(batch[f]))
  /\ watch' = [watch EXCEPT ![f] = "scan"]
  /\ last_fired' = last_fired \cup {Head(batch[f]).path}
  /\ UNCHANGED <<running, handles, batch, kernelVars, cancelled, fileVars>>

\* The change leads to no scan. If no later one of its path is on its way, the path's
\* newest version may be missed.
Drops(f) ==
  /\ batch' = [batch EXCEPT ![f] = Tail(@)]
  /\ LET p == Head(batch[f]).path
         later == PathsOf(changes[f]) \cup PathsOf(Tail(batch[f]))
     IN  missed' = missed \cup {q \in {p} \ later : scanned[q] < version[q]}

HoldsBack(f) ==
  /\ watch[f] = "handle" /\ batch[f] # <<>> /\ ~Fires(Head(batch[f]))
  /\ Drops(f)
  /\ UNCHANGED <<running, handles, watch, kernelVars, last_fired, cancelled,
                 version, scanned>>

BatchHandled(f) ==
  /\ watch[f] = "handle" /\ batch[f] = <<>>
  /\ watch' = [watch EXCEPT ![f] = "test"]
  /\ UNCHANGED <<running, handles, batch, kernelVars, last_fired, cancelled, fileVars>>

\* The callback opens the file: it sees the version there is now. What it finds is
\* to be emitted, or it finds nothing.
Scans(f) ==
  /\ watch[f] = "scan"
  /\ LET p == Head(batch[f]).path
     IN  scanned' = [scanned EXCEPT ![p] = version[p]] /\ missed' = missed \ {p}
  /\ \/ /\ watch' = [watch EXCEPT ![f] = "handle"]
        /\ batch' = [batch EXCEPT ![f] = Tail(@)]
     \/ watch' = [watch EXCEPT ![f] = "waits"] /\ UNCHANGED batch
  /\ UNCHANGED <<running, handles, kernelVars, last_fired, cancelled, version>>

\* The file is still locked by its writer, or may not be read: no stage of the scan
\* looks at it, and nothing tries again.
CannotOpen(f) ==
  /\ watch[f] = "scan"
  /\ watch' = [watch EXCEPT ![f] = "handle"]
  /\ Drops(f)
  /\ UNCHANGED <<running, handles, kernelVars, last_fired, cancelled, version, scanned>>

\* The callback has returned.
CallbackReturns(f) ==
  /\ watch' = [watch EXCEPT ![f] = "handle"]
  /\ batch' = [batch EXCEPT ![f] = Tail(@)]

-----------------------------------------------------------------------------
(* Start() and Stop(), called by the engine                                *)

\* A folder that does not exist, or cannot be opened, gets no thread.
StartsWatching ==
  /\ running' = TRUE
  /\ \E opened \in SUBSET Folder :
       /\ handles' = opened
       /\ watch' = [f \in Folder |-> IF f \in opened THEN "test" ELSE watch[f]]
  /\ UNCHANGED <<batch, kernelVars, last_fired, cancelled, fileVars>>

LowersRunning ==
  /\ running' = FALSE
  /\ UNCHANGED <<handles, watch, batch, kernelVars, last_fired, cancelled, fileVars>>

\* Variant: Stop() only lowers the flag.
CancelIoEx_Forgotten(f) ==
  /\ UNCHANGED <<watch, cancelled>>

CancelIoEx(f) ==
  /\ cancelled' = cancelled \cup {f}
  /\ watch' = [watch EXCEPT ![f] = IF @ = "pending" THEN "ended" ELSE @]

CancelsReads ==
  /\ \E f \in handles \ cancelled : CancelIoEx(f)
  /\ UNCHANGED <<running, handles, batch, kernelVars, last_fired, fileVars>>

AllEnded == \A f \in handles : watch[f] = "ended"

ClosesHandles ==
  /\ handles' = {} /\ cancelled' = {} /\ collecting' = {}
  /\ changes' = [f \in Folder |-> <<>>] /\ overflown' = {}
  /\ missed' = missed \cup {p \in Path : scanned[p] < version[p]}
  /\ UNCHANGED <<running, watch, batch, last_fired, version, scanned>>

WatcherThread(f) ==
  \/ TestsRunning(f) \/ CallsRead(f) \/ ReadReturns(f)
  \/ Reports(f) \/ HoldsBack(f) \/ BatchHandled(f) \/ Scans(f) \/ CannotOpen(f)
=============================================================================
