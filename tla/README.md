# A formal model of AvSuite

TLA+ specifications of the antivirus suite in this repository, the TLC
configurations that check them, and TLAPS proofs of what matters most in them.
Paths below are relative to `src/src` or, for `driver` and `setup`, to the
repository root.

## 1. Inventory

| Component | Source | State | Operations |
|---|---|---|---|
| Quarantine | `remediation` | quarantine directory, `quarantine` table, the user's files | `Quarantine`, `Restore`, `Delete` |
| Storage | `storage` | one SQLite connection per process (WAL, no busy timeout), five tables | insert / upsert / list / mark / delete, seeding |
| Directory scan | `engine` (`ScanDirectory`, `CancelScan`) | bounded queue, mutex, condition variable, worker threads, `scan_cancel` | call, cancel |
| Scheduled scan | `engine` (`RestartScheduledThread`, `RunScheduledScan`) | thread handle, stop flag, condition variable, configuration | start, reconfigure, stop, fire |
| Scan pipeline | `engine` (`ScanOneFile`, `Quarantine`, `Emit`) | detections, marks, emit mutex | scan a file, judge a process |
| System scans | `engine` (`ScanPersistence`, `ScanAllProcesses`, `ScanRegistry`), `registry_scan` | `scan_cancel`, two hash lists | scan tasks, services, WMI, memory, registry; export, import |
| Real-time protection | `engine` (`StartRealtimeProtection`, `Stop`) | watcher, ETW session and thread, minifilter client, detached scans | start, stop, destroy |
| Signature updates | `engine` (`CheckForSignatureUpdates`), `update_server` | server list and version, offered build and its signature, client list and version | administrator's upsert, start with a build, update |
| Minifilter driver | `driver/AvMiniFilter` | server port, client port, client process, port lock | load, unload, instance setup, connect, disconnect, pre-create |
| Minifilter client | `realtime_block` | port, pump thread, stop flag | `Start`, pump, `Stop` |
| Folder watcher | `realtime_watch` | one thread and handle per folder, debounce table | start, change, stop |
| ETW consumer | `etw_consumer` | trace session | start, event, stop |
| Behaviour engine | `behavior_engine` | 31 rules, process tree, table of malicious processes | process created, mark |
| Static scan, PE analysis, AMSI | `static_scan`, `pe_analyzer`, `amsi_provider` | compiled YARA rules, the provider's from a directory of its own | judge a file, judge a stream |
| Dashboard | `dashboard_ui` | pages, badge, buttons, one engine, detached threads | scan, cancel, clear, restore, delete, look up, quit |
| Command-line host | `host_console` | the stop flag | one command per process |
| AI assistant, core, logging, tools, installers | `ai_assistant`, `core`, `logging`, `tools`, `setup` | none that matters here | section 6 |

How they interact: dashboard and command-line host each own one `Engine` and one
database connection to the same file, so two processes share database and
quarantine directory. Inside a process the engine's threads (callers of the
scans, up to four directory-scan workers, a watcher thread per folder, the ETW
thread and its detached scans, the scheduled thread, the minifilter pump) share
one `scan_cancel` flag, one connection and one detection callback. Any of them
may quarantine a file. The driver and the pump exchange messages through a Filter
Manager port, and the pump's own file opens go through the driver again. The
dashboard's callback posts a call to the UI thread, which reads the database anew.

What is hard here, and what must hold:

* **Quarantine** updates the user's files, a directory and a table one call at a
  time, without a transaction. Interleaving, a failing half of "copy, then
  remove", a statement that throws, and a process that dies all fall between two
  calls. Correct means: no file is lost, every quarantined file is listed, a
  restore brings back what was taken and overwrites nothing.
* **Directory scan** is a hand-written bounded buffer with a cancel flag which
  notifies nobody and which every other scan clears. Correct means: each file
  once, all files unless cancelled, a cancelled scan stops, the call returns.
* **Scheduled scan** replaces a thread while it waits or scans, with a stop flag
  set outside the mutex, and guards the thread object by nothing. Correct means: the thread in force
  has the configuration last set, no call ends the process, calls return, a daily scan recurs, and a
  scan is complete unless it was cancelled.
* **Minifilter**: every open on the machine waits for one pump thread that itself
  opens files, under a lock that disconnecting needs. Correct means: every open
  completes whatever the client does, no message is sent through a closed port,
  an answer is about the file it is used for, and a Block is obeyed.
* **Signature updates**: two requests, an unsynchronised server in between that
  may end between its two statements, and a client that applies a list one
  statement at a time. Correct means: the recorded version is true of the
  content, nothing unpublished enters, clients catch up.
* **Behaviour rules** are 23 tables in which the first matching entry decides, and
  eight rules of their own, two of which add up weights. Correct means: the most
  severe entry that matches decides, more evidence never lowers a verdict, and
  the flags of ordinary automation alarm nobody.
* **Scan pipeline**: an event's rules, the marks of malicious processes and up to
  one detached scan per image path work on one tree and one capped table, while
  process ids are used again and files move. Correct means: a rule sees the real
  parent, a mark has a cause, the children of a malicious process are linked to
  it, and what becomes of a detected file is reported.
* **Real-time protection** is started part by part and stopped in another order,
  by signals that may each come a moment too early. Correct means: nothing that
  `Stop()` knows of is left when the engine is freed, one detection is in the
  callback at a time, a changed file is scanned, and stopping ends.
* **System scans** walk lists that are partly unreadable, beside each other, with
  one cancel flag for two of them, through calls that Windows may refuse. Correct means: a scan leaves
  out nothing but what it was told to or could not reach, ends, and agrees with the driver and the AMSI
  provider about the same file, as far as they have the same rules.
* **The dashboard** sees all this through queued calls, while dialogs run event
  loops of their own and detached threads post to a window that may be gone.
  Correct means: the pages say what the database holds, only what the user was asked about is
  deleted, a scan that found something is not called clean, buttons come back.

`PROJECT.json` lists each hazard at its line, with the properties that watch it.

## 2. Modules

| Module | Models | Checked by |
|---|---|---|
| `Vault` | what the quarantine store promises its user (abstract) | through `Quarantine` |
| `Quarantine` | `remediation/src/quarantine.cpp`, the statements it uses, `Engine::Impl::Quarantine` | `MCQuarantine`, `QuarantineProofs` |
| `ScanJob` | what `ScanDirectory` promises its caller (abstract) | through `DirectoryScan` |
| `DirectoryScan` | `Engine::ScanDirectory`, `CancelScan` | `MCWaiting`, `MCDirectoryScan`, `DirectoryScanProofs` |
| `ScheduledScan` | the scheduled thread, the calls that control it, `LoadFromFile` | `MCScheduledScan`, `ScheduledScanProofs` |
| `Minifilter` | driver, port, client and pump together | `MCWaiting`, `MCMinifilter`, `RealtimeProofs` |
| `SignatureUpdate` | update server and `CheckForSignatureUpdates` together | `MCSignatureUpdate`, `SignatureUpdateProofs` |
| `Severities` | `avcore::Severity` | its users |
| `BehaviorRules` | what each of the 31 rules says of an event (operators, no state) | the next three |
| `CommandLines` | a command line that grows, judged by `BehaviorRules` | `MCScanPipeline`, `ScanPipelineProofs` |
| `RuleEngine` | `RuleEngine` and `ProcessTree`: tree, marks, kill chain (extends `BehaviorRules`) | through `ScanPipeline` |
| `ScanPipeline` | `ScanOneFile`, `Emit`, `Engine::Impl::Quarantine` and the two real-time callbacks (extends `RuleEngine`) | `MCScanPipeline`, `ScanPipelineProofs` |
| `FolderWatcher` | `FolderWatcher` and the kernel's change buffer | through `Realtime` |
| `Realtime` | start, stop and destruction of the protection under `--watch` (extends `FolderWatcher`) | `MCRealtime`, `RealtimeProofs` |
| `FileVerdicts` | what hash, YARA, PE analysis, AMSI and the driver's callback say of a file (operators) | through `SystemScans` |
| `SystemScans` | persistence, memory and registry scan, the hash lists (extends `FileVerdicts`) | `MCSystemScans`, `SystemScansProofs` |
| `EventFeed` | the two tables and the queued calls the dashboard sees of an engine | through `Dashboard` |
| `Dashboard` | UI thread, pages, scans, look-ups, quitting, the console beside it (extends `EventFeed`) | `MCDashboard`, `DashboardProofs` |

Composition: `Minifilter` and `SignatureUpdate` each put two programs together,
as neither side has a property of interest without the other; `Realtime` puts
the engine on the watcher, `ScanPipeline` the scans on the rule engine,
`Dashboard` the window on the engine's feed. Two MC modules explore two components each, beside one
another: `MCWaiting` the directory scan and the minifilter, in behaviours of which one side moves and the
other stands still, and `MCScanPipeline` the pipeline and, from initial states of their own, the command
lines. A definition named
`Operation_WhatIsWrong` next to `Operation` is a plausible mistake in that
operation; substituting it must break a property. None of them is used by a
specification.

### Quarantine

`file` is the user's file system (a content or `NoFile` per path), `store` the
quarantine directory, `row` the table. Each file-system call and each statement is
one action: `Quarantine()` is `QuarantineBegin` (hash and name), then
`QuarantineRename`, or `QuarantineCopy` and `QuarantineRemove`, then
`QuarantineInsert`. `Restore()` looks at the row, at the quarantined file, at the original
path, moves and marks, in five steps. `Delete()` removes and then deletes the
row. Scanners are the threads that quarantine, operators those that
restore or delete.

What the surroundings may do is a *fault set* chosen at the start from `Admitted`:
equal contents, paths that change during an operation, two threads on one path,
a hash that fails, a rename that fails where a copy succeeds, a remove that fails
after a copy, a statement that throws, a process that dies. A property names the
faults it excludes in its statement, so one run can check all of them. A
statement that throws ends its process, as no caller catches it, and takes any set of threads along.

`Vault` is what a user may take all this for: files that are kept with the place
they came from, and return to it or are destroyed, in single steps. `V == INSTANCE Vault` maps
the user's files to themselves and `kept` to `Kept`: what scanners are about to insert a
row for, and the unrestored rows whose file no operator has copied back or taken.
`LosesNothingOneByOne` says of each step that it is one of `V!Next` or changes neither.

### DirectoryScan and ScanJob

The calling thread's positions are those between the lock operations of
`ScanDirectory`; a worker's likewise. Waiting on the condition variable is the
explicit state `asleep`, left by `notify_all` or a spurious wakeup, so that a missing
notification shows as a hang. A critical section that reads `scan_cancel` twice is two
actions, because setting the flag takes no lock. `ScanOneFile` is one step. The
flag `others`, chosen at the start, says whether another scan may clear
`scan_cancel` meanwhile. `Job == INSTANCE ScanJob` maps a call in progress to
`active`, the files not begun to `pending` and the count returned to `total`.

### ScheduledScan

One `std::thread` object (`handle`) that callers join and assign; a pool of
threads with their position in the loop and the configuration they captured. The test of the
predicate and going to sleep are two steps. `StartRealtimeProtection`,
`SetScheduledScan` and `Stop` go through the sequence flag, notify, join, spawn. Joining what
another has joined, and assigning to a joinable thread, set `crashed`. Nothing in the code keeps a call from
beginning during another (`Begins`): with `Overlap` it may, and the history `overlapped` remembers that one has. A
scheduled scan visits directories and their files, or one file, and consults both flags where the code does.
The configuration comes from a file whose defaults and malformed fields `LoadFromFile` decides.

### Minifilter

`opc` is a thread's position inside `AvmfPreCreate`; its positions from `held` on
are the shared holders of `gClientPortLock`, and `AvmfConnect` and
`AvmfDisconnect` need that set empty. `message` is the open whose notification
the pump has, as long as it is still waited for: a timeout or a disconnect
removes it, which is what the message id is for. `client` follows `Start`,
`Stop` and the six-second wait, `pump` the message loop. A file is a record of
what driver and client tell apart: its name, its volume, whether it is a
directory, the length of its path, and whether it is malicious. `reply` is the buffer a thread
has given to `FltSendMessage`. Header file and driver disagree about what arrives in it:
`AvMiniFilter.h:21-25` says that `FilterReplyMessage` strips the header, `AvMiniFilter.c:266-271` puts room for
one before the verdict. `Strips` says which of the two may happen; a verdict without a header is not where
the driver reads it, and what it reads there (`Payload`) are the zeros it has put there, which are Allow.

### SignatureUpdate

A list is a function from hashes to definitions; a list's SHA-256 is
the list itself. The server's upsert and version bump are two steps, as are the client's requests;
each upsert and the recording of the version is a step. Opening a database
writes the seed signature again. The server may end between any two of its
steps; when it is started it signs the build it is given, and build and key
are files that may be replaced under it. `published` is a history of what manifests described.

### BehaviorRules and CommandLines

An event's image name is a string, its command line the set of fragments it was
put together from, and `std::string::find` looks into each fragment. A table of
the source is a sequence of lines with sets of binaries and arguments, in the
source's order as far as severities differ. The names of security products
are represented by one of them, and the cached signature check is part of the event. `CommandLines`
has the event as its only state and adds one argument at a time, out of those
that any rule looks for in that binary, so that action properties speak of "one argument more".

### RuleEngine and ScanPipeline

`nodes_` and `flagged_pids_` are the maps of those names. `Evaluates` is
`OnProcessCreate` up to the last rule, with the snapshot of the marks taken at
its beginning; `MarksAndEmits` is the rest of it and of the callback. Between the
two a scan may mark a process. `scan` holds each `ScanOneFile` in progress: one per
image path (detached, started when the path is first seen) and one of the folder
watcher. A scan's stages are steps, each of which opens the file anew; then come
the decision with its mark, the move and the status event. `born` and `parents` are what
the operating system knows and the code does not: which process an id meant at the time. What
stages find in a file is the constant `Content`.

### FolderWatcher and Realtime

`watch` is what a folder's thread is doing, `batch` the changes it has read and
not handled; `changes`, `overflown` and `collecting` are the kernel's side of the
folder handle: it collects from the first read on, and a read returns everything
or, after an overflow, nothing. A pending read is ended by `CancelIoEx`, one that begins
later is not. A path is in `last_fired` while the debounce holds it back. `version`, `scanned` and
`missed` say which version of a file a callback has looked at, and for which files
nothing will report the newest: one that cannot be opened when its callback runs (`CannotOpen`), because
its writer still has it, is dropped like a change the debounce holds back.

`host` goes through `--watch`: start of the parts in order, the wait for Ctrl+C
on a condition variable whose flag is set outside its mutex, `Stop()` with its joins, and the
destructor, which calls `Stop()` again. `etw` is the session's thread, `detached`
one thread per image, which nothing joins. All three kinds of thread scan,
wait for `emit_mutex_`, and call back. Once the host has left, a
detached thread may still use the freed engine; `OnlyScansOutlive` says that nothing else does.

### FileVerdicts and SystemScans

A file is a record of what scanners tell apart (size, sections with entropy,
imported functions, signature, hash, YARA matches), and each rule of
`ToDetectionEvents`, each step of the AMSI `Scan`, of `EvaluateForBlock` and of `ScanOneFile`'s
verdict is an operator on it. The engine's YARA rules (`Rules`) are those of its configuration, an AMSI
provider's those of the directory that the registry named when it was constructed, or none: one of `Provided`.
`SystemScans` has three scans, each a position in its list; a step
is one task command, one service, one subscription, one memory region, one registry value (in
the code these are listed first and evaluated after, but the registry does not change here). A
scan quarantines what its verdict demands, so another finds the file gone. A service has the two sides
the code sees of it: the registry scan lists every key under `Services`, drivers included, the persistence scan
only what the service manager calls a Win32 service. Each call that may fail does so in the model (`Fails`, `Misses`):
opening the tasks, the manager or WMI, a list that has grown between two calls, a task file, a service, a query
or its next result, the list of processes, the query of a region or the reading of it. `failed` and `unread` remember what
was lost by it. `Link` adds imports to a program and the lists are edited on the dashboard, and imported there or by the console host, meanwhile.

### EventFeed and Dashboard

`EventFeed` is the engine as the window sees it: insertion and callback under
`emit_mutex_`, the move, the status event, and calls appended to `queue`.
`Dashboard` has the UI thread, which executes one queued call or one of the
user's operations at a time. A dialog is a nested event loop in which queued
calls go on being executed. Two dialogs are states of their own: the question before a deletion, whose
handler keeps row numbers across it, and the box that reports a partial deletion. Scans and VirusTotal look-ups (of a card, a table row, the investigation page) are
detached threads with their position between the test of `AppQuitting()` and the
post. `home`, `rows`, `table`, `detection_unread_` are what the pages show, to be
compared with the tables. What one life of the application contains is
chosen at the start from `Occasions`.

## 3. Runs

| Run | Instance | Shows |
|---|---|---|
| `QuarantineAll` | 2 paths of one file name, 2 contents, 2 scanners, 2 operators, 2 rows, 3 fault sets | a quarantined file stays listed (`RecordedUnlessCut`, inductive form in `QuarantineInv`); undisturbed quarantine is reversible, loses nothing and is a `Vault` step by step; a restore overwrites only in a race |
| `Waiting` | the scan: 3 files and 1 directory, queue of 1, 2 workers; the port: 2 opening threads and the pump, 7 kinds of file, paths of up to 2 characters sent, replies with and without a header | the scan implements `ScanJob` (each file once, an uncancelled call complete, its total exact, an undisturbed call returns); the queue is bounded; cancellation stops it; no worker outlives the call; nobody sleeps without a notification to come. The port outlives its senders; unloading leaves no port and no thread behind; the pump never waits for itself; replies fit their files, and those that arrive with a header are obeyed; every open and every `Stop` completes, though the pump may wedge and the client die |
| `ScheduledScan` | 2 controlling threads that take turns, 2 thread objects, 2 directories with 3 files | the thread in force has the last configuration; no thread is joined that was not told to stop; calls return in spite of a lost wakeup, if only at the fire time; daily scans recur; undisturbed scans are complete |
| `SignatureUpdate` | 2 clients, 3 hashes (seed, another, none), 2 definitions, 2 builds, 2 keys, 4 versions, 7 fault sets | the recorded version is true of the content; only published definitions enter, two updates at once included; one version names one list and the offered signature fits the build; the client catches up |
| `ScanPipeline` | 2 programs, 2 process ids, 3 processes, a table of 1 mark, 1 watched path; 15 binaries, 2 parents, all command lines of up to 2 of their arguments | rules see the real parent; marks have a cause; children of a process called Malicious are linked to it; nothing is removed unreported; a scan with a cause says what became of the file. Of command lines: the most severe matching entry decides (three tables excepted); no argument silences a rule and scores never fall; weak PowerShell flags alarm nobody |
| `Realtime` | 1 folder with 1 file of 2 versions, a buffer of 1 change, 1 image | detections are serialised; no thread but a detached scan outlives the engine; `Stop()` joins only what has been told to end and the mutex is never left held; a change is scanned unless debounce, rename or overflow hides it or it cannot be opened; `Stop()` and the host end unless one of three signals came too early |
| `SystemScans` | 2 programs, 2 tasks of 3 and 2 commands, 2 services and a driver, 3 autorun keys, 2 processes, 3 rule directories, 2 scan starts, 1 refused call | AMSI, driver and scan agree, but for the provider's own rules; imports never make a program look better; an uncancelled scan leaves out nothing but what was refused; every scan ends |
| `Dashboard` | 2 scans, 1 old row, 1 held record, 1 finding, a history capped at 2, 9 occasions | pages agree with the tables unless a call is under way; a finding is not summed up as clean unless the history was cleared or full; buttons and label come back, and until then a scan or its queued end is there; a window that is gone is used only by named threads |
| `DirectoryScanHang` | the scan of `Waiting` | **violated**: another scan clears the flag after the cancelled call's workers have left, and its producer waits for ever |
| `DashboardDeletes` | 1 scan, 1 held record | **violated**: a quarantine made while the question is open refills the table, newest first, and another record than the selected one is deleted |
| `ScheduledScanCalls` | as `ScheduledScan`, but calls may overlap | **violated**: the second call joins the thread that the first has joined, and the process ends, although `engine.hpp:183-185` calls `SetScheduledScan` safe to call from any thread |
| `MinifilterHeader` | the port of `Waiting`, headers always stripped | **violated**: the client's Block is where the driver does not look, and the open is let through |

The last four state what the code's documentation, comments and dialog promise, and
TLC shows how the code does something else; `PROJECT.json` quotes the lines.

The bounds. Two scanners and two operators are enough for every pair of
operations to interleave, and a third on the same path or row repeats one of the pair's
roles; two contents and two paths give equal and different contents and names. A
queue of one with three files makes the producer wait and the workers
leave it waiting; two workers race for the same file. Two thread objects allow an
old and a new thread at once, and two callers any pair of calls, in turns and, in
`ScheduledScanCalls`, at once. Two openers and the pump fill the port with a holder,
a waiter and the answering thread; of the seven files one is as long as can be
sent and one a character longer. Four versions let an update be overtaken twice. Two
arguments show every pair of entries of a table, and any pair of indicator categories. Three processes
under two ids make one id used again, with a grandparent, a marked parent
and a child; a table of one mark is full when it matters. A buffer of one change
overflows at the second, and folders do not share anything but the mutex, for which
the watcher, the session and an image's scan compete. Two starts let a scan be cancelled
and begin again beside another, and one refused call (`MaxFailures`) falls at each place in turn; several lose what each of them
loses, which the proof covers for every number. The three rule directories an AMSI provider may have are the
engine's, none, and one of other rules. A history of two rows is full after one finding,
which is when counting stops telling findings; two scans overlap, and a record held from the
start is the one a new record displaces. `MaxId`,
`MaxVersion`, `MaxFragments`, `MaxProcesses`, `MaxScans` and `MaxFinds` are guards of the first action of an operation, never of its middle, and
so never leave one half done; `MaxFailures` only keeps a call from failing.

Deadlock is checked but in the runs whose system may really stop: `SignatureUpdate`
at `MaxVersion`, `ScanPipeline` and `SystemScans` when nothing is left to
add, to judge or to start, `Realtime` when the engine is freed, and `Dashboard` and
`DashboardDeletes` when the application has ended.

`HighestDecides` leaves out three tables, named in `OutOfOrder`: those of
`rule_lolbin_susp_args.cpp`, `rule_persistence_registry.cpp` and
`rule_persistence.cpp` have a Suspicious entry before a Malicious one for the same binary. `rule_base.hpp:45-46` asks for
the most specific pattern first, which is not the same order.

## 4. Fairness

* `DirectoryScan` (in `Waiting`): the calling thread and each worker run when they can, and a
  file's scan ends. Calls, cancellation, other scans and spurious wakeups are
  never assumed.
* `ScheduledScan`: a call in progress and the scheduled thread run, and the fire time comes: the
  next occurrence is at most a week away. Nobody has to call anything.
* `Minifilter` (in `Waiting`): the kernel runs creates, the five and six seconds pass, and
  connect and disconnect run when the lock is free. `AcquireShared` is strongly
  fair, because `ERESOURCE` queues its waiters and cannot be overtaken for ever. Nothing
  is assumed of the pump.
* `SignatureUpdate`: the server finishes a request it has begun, `--update` is
  run again and again (a user or a task does this; the code has no timer),
  and a download that is repeated succeeds at last.
* `Realtime`: the host's thread and the console's handler run. The session's,
  the watchers' and the images' threads are strongly fair, as no thread is kept from
  `emit_mutex_` for ever while others pass. Nobody has to write a file, start a
  process or press Ctrl+C.
* `SystemScans`: the thread of each scan runs. Nobody has to start or cancel one.
* `Dashboard`: the engine's threads, the scans' threads and the UI thread's queue
  run, the last also under a dialog. Nothing is asked of the user.
* `Quarantine`, `CommandLines` and `ScanPipeline` state no liveness.

## 5. Proofs

Each proof module has an inductive invariant, lemmas for what its operators do,
one lemma or step per action, and theorems that follow from it. The invariant is
called `IInv`, for the minifilter `FilterIInv`; the ones of `QuarantineProofs` are below. Two proof
modules serve two components each: `RealtimeProofs` also has the minifilter, whose pump
real-time protection starts, and `ScanPipelineProofs` the command lines, whose rules the
pipeline asks. All theorems hold for every value of the constants that satisfies the named
assumption of the module.

| Module | Theorems | Assumes |
|---|---|---|
| `QuarantineProofs` | `TypeCorrect`, `RecordedInvariant`, `QuarantineInvariant`, `NoFileWithoutRow`, `NothingOverwritten`, `ReversibleWhereUndisturbed`, `NothingLostOneByOne`, `ImplementsVault` | `QuarantineAssumption`; `HashesDiffer` in the last three: SHA-256 tells contents apart |
| `DirectoryScanProofs` | `CallInvariant`, `CancelStopsWorkers`, `ScanIsAJob` | `DirectoryScanAssumption`: finitely many entries |
| `SignatureUpdateProofs` | `VersionsHold`, `NothingElseGetsIn`, `VersionIsAPromise` | `SignatureUpdateAssumption` |
| `ScheduledScanProofs` | `ScheduleInvariant`, `ScansComplete` | `ScheduledScanAssumption` |
| `RealtimeProofs` | `EngineInvariant`, `OneAtATime` | `WatcherAssumption`, `ThreadAssumption`: names of threads differ |
| | `PortInvariant`, `AnswersFit` | `MinifilterAssumption` |
| `ScanPipelineProofs` | `RealParentSeen`, `MarksJustified`, `LineageLinked`, `RemovalReported`, `CausesAnswered` | `RuleEngineAssumption`, `PipelineAssumption` |
| | `WorstDecides`, `ArgumentsOnlyAlarm` | nothing |
| `SystemScansProofs` | `ScansLeaveNothingOut`, `ScansGoOn`, `JudgesOfOneMind`, `MoreImportsNoExcuse` | `SystemScansAssumption`: what the lists hold, finitely many imports |
| `DashboardProofs` | `PagesTrue`, `SummariesHonest` | `EventFeedAssumption`: names of threads differ; `DashboardAssumption` |

**Quarantine.** `RecordedUnlessCut` is not inductive. That an unrestored row names a stored file says
nothing of an operator that has taken the file away and is about to close the
row: should another scanner store a file under that name meanwhile, the row is
about to vanish, but the scanner's own row is still to come. `Covered` therefore asks for a row that is *not being
closed* or a scanner that is *still recording*, and, because an operator works on
the copy of the row it read at the beginning, that its copy has the row's name
and its id will not be given away again (`CopiesAgree`). With it, each action
disturbs one of the two parts in one place: inserting turns a recording into a listed row;
starting to close a row coincides with taking the file from the store.
The fault set is constant, which makes `Uninterrupted` an assumption about the behaviour
rather than something the induction must track.

That a restore overwrites nothing (`NothingOverwritten`) rests on `PathInv`: in a behaviour without
racing writers no two threads are on one path, and a path an operator has seen vacant
stays vacant until it moves the file there. That a quarantine is reversible
and loses nothing rests on `StoreInv`, which says on whose account each stored file is
there (`Accounts`): a stored file's name is the hash of its content; each
scanner past its move and each unrestored row nobody is closing finds under its name
what it took; no two of them have one name; and a content is in one
place except while it is being copied. The last two hold only together: two holders of
one name would have equal contents, which two places would have had. `OneByOne`, the hypothesis
of both properties, is about the constant fault set, so the induction is made under it.
Operators may still restore and delete, and scanners quarantine, all at once.

`ImplementsVault` is the refinement, from `StoreInv` and one invariant more, that an
operator on its way through `Restore()` has a safe path (`SafeInv`). A rename, or the remove
after a copy, is the vault's `Take`: until then the original is still there, and that its
content is twice on the disk is nobody's business. The insertion hands the entry from the scanner
to its row, so the vault does not move. A restore is a `Return` when the file appears at its path, by rename or copy; that it is
vacant then is `VacantPath`. What follows, the remove and the mark, is about an entry that
is gone already. That no other entry goes with it needs `OneHolder`: two equal ones
would have one name.

**DirectoryScan.** The invariant is an account of the files: each is not yet
listed, in the caller's hand, queued, with a worker, or scanned. Only a
cancellation loses one, and the flag is up only when a cancellation was asked for;
so workers of an undisturbed call leave when everything is done. `ScanIsAJob`
maps the initial state and each step to `ScanJob`; the run adds its fairness.
`NoWaitInVain` is what the return of a call comes to in a single state: a worker sleeps beside a
filled queue or after the walk only until the notification that the caller has yet to make, and a
caller that waits for room has a worker that is awake for it, unless another scan clears the flag.

**Minifilter.** `AnswersFit` has two halves. The reply that an open gets is the client's verdict of that file, and
the driver denies the open exactly if the verdict is Block and stands behind a header: so if the header is stripped, as the
header file says, it denies none (`MinifilterHeader`). A reply is delivered to the thread that `message` names. That this
thread is still waiting, and waiting about the file it asked about, is what time-out, reply,
disconnection and death of the client each keep true. `UnloadLeavesNothing` holds because the port is
recorded exactly while there is a connection, which unloading waits for (`Connected`).

**SignatureUpdate.** Nothing is deleted on the server, so the list of a later
version has all the hashes of an earlier one. When a version is
recorded, a local signature that its list does not have can then only come from a newer
list, left by an update that was cut short.

**ScheduledScan.** What a call has yet to do says what holds in its middle. `stop`
falls only where no thread is left, so a scan that has seen it does not go on, and a
thread that a call joins finds it up (`ToldBeforeJoined`): it can be missed once, at the sleep, but not for ever.
All of it holds for any number of controlling threads as long as no call has begun during another
(`overlapped`); after that it is false, as `ScheduledScanCalls` shows.

**Realtime.** Whoever is in the callback holds the mutex. What `Stop()` has
joined is not started again after it, also when the destructor stops once more.
`WaitsForSomeone` is the state behind `StopReturns`: the mutex is not left with a thread that
is past the callback, and the watchers that are joined have been told.

**ScanPipeline.** The tree holds, for each id, the last process delivered that
had it. A parent is alive when it starts a child, so between the two its id was
not given away, and as events keep their order, at the child's turn the tree
holds the parent. Marks are never withdrawn, and a full table takes none: a
parent's id that is marked later than its child was judged cannot be one that a
rule had called Malicious before. That gives `LineageLinked`.

**SystemScans.** Each scan has, for each position it has passed, that what is there has
been dealt with. This stays true because files only disappear, a program is not
changed once scans have started, and the flag is down while a scan runs that was not
cancelled (`FlagOK`), although another scan may have cleared or left it. A
position that is passed without a look, as after an empty command or a region of size 0,
has a reason that `NothingSkipped` names, or one that `failed` or `unread` has kept: each failing
call adds what it loses and nothing else, for any number of failures, and what was kept stays until the scan's next start. That a scan ends is proved up to fairness: each step of its own
moves it strictly on in the order of its list, nobody else moves it, and it stays within the
lists (`ScansGoOn`). The judges agree because a match that makes AMSI detect something is in a file the engine has
loaded too, where the driver weighs it, or is foreign, because the severities a scan weighs
include those the driver weighs, and the worst of a set is at least each of them;
imports make no program look better because each lasting severity of the smaller one is
answered by one of the larger that is no milder.

**CommandLines.** In a table whose entries stand in the order of their severity, or name
different binaries where they do not (`Ordered`), the first entry that
matches is a worst one. `AllJudge` shows this of each table but the three of `OutOfOrder`, from its
entries as the source has them; `WorstDecides` follows for every event. Adding an
argument keeps every match (`MatchesStay`), so a table that answers goes
on answering; the sets of indicators that two rules add up only grow and are finite, so
scores do not fall; and `DefenseEvasion`, whose own table is in order, never falls either.
The event of a real process is any set of fragments, which is why neither theorem
needs the bound or the binaries of the run.

**Dashboard.** `DashboardInv` has parts which are nearly independent, and each
part that is not inductive gets a partner. The pages (`HomeTrue`, `TableTrue`) are true
because whoever changes a table has also queued a call that will read it again, or is on its way to
queueing one. `EveryDetectionShown` compares three counts per rule: rows made by
this process, calls queued for them, and threads between the insertion and the call; every step keeps their balance
(`Balance`), and a thread in between holds `emit_mutex_`. The badge is true with
`BadgeCleared`: nothing is unread while the history is in front. A cancel button is there with
`Alone`: a scan that nobody overlapped is the only one, and no earlier end is queued
that would hide its button. What is deleted was asked about with `AskedAbout`: while
the table has not been refilled, the rows of the question hold the records it named. A
thread that uses the window after its end was foreseen (`Foreseen`): it ran, or was
past its test of `AppQuitting()`, when the user left. `SummaryHonest` needs `Growth`: while a scan
runs and the history is not cleared, the history has at least its findings more than at the
beginning, so the difference that the summary is made of is zero only at the cap.
`EndAwaited`, the state behind `SettlesDown`, says that buttons which are disabled, a cancel button and the
answer to a cancellation wait for a scan that runs or for an end that is queued: a
thread that runs will post its end, and the last end to be executed puts all three back.

Every inductive invariant was also checked by TLC, on the instance of its component's run.

Only model-checked:

* all liveness (`CallReturns`, `CallsReturn`, `Recurs`, `EveryOpenCompletes`, `ClientStopReturns`,
  `StopReturns`, `CatchesUp`, `EveryChangeAnswered`, `ScansEnd`, `SettlesDown`, and the fairness of
  `JobSpec`), which with `ENABLED` is beyond the prover. What they come to in a single
  state or step is proved for five of them: that nobody waits for what nobody has yet to do
  (`NoWaitInVain`, `ToldBeforeJoined`, `WaitsForSomeone`, `EndAwaited`) and that each step is
  one nearer to the end (`ScansGoOn`);
* `WeakAloneSilent`, which depends on which patterns are substrings of which arguments: the
  provers know that two strings differ, but not what characters they have.

## 6. What is left out, and why

Known deviations, which properties exclude by name, so that they check that nothing else has the same effect:

* Quarantine: an insertion that throws, or a process that ends, after the move leaves an
  unlisted file; two files with equal contents share one stored file, and
  restoring one row takes the other's; a file that cannot be hashed replaces
  one of the same name.
* A scheduled scan skips everything while the flag of an earlier cancelled scan is set.
* A Suspicious finding that precedes a Malicious one becomes the cause, and then
  the process is not marked.
* Two calls at once that start, set or stop the schedule may both join one thread, and the process ends
  (`ScheduledScanCalls`); what the other properties say of the schedule, they say of calls that take turns.
* The driver denies nothing if the header of a reply is stripped (`MinifilterHeader`).
* An AMSI provider loads the rule directory of the registry's `RulesDir`, or none, once, when it is constructed
  (`amsi_provider.cpp:17`, `:36`): with rules the engine does not have it detects what the driver allows, and
  without those the engine has it misses what the driver denies.
* The memory scan looks at private executable regions only, although `engine.hpp:84-87` and
  `engine.cpp:522` speak of all readable private and mapped ones; the comment in the function
  (`engine.cpp:575-578`) gives the reason. `IsScannable` follows the code.
* A system scan says nothing of what Windows refuses it: a list of services that has grown between two calls
  is not scanned at all. Only 2048 processes are listed. A driver is looked at by the registry scan only.
* The watcher does not come back to a file that is still locked when its callback runs.
* Two interleaved updates may leave an older definition under the newer version.
* Dashboard: a cancellation before the scan thread has begun is lost; a cancelled
  scan's summary overwrites the label that says it is being cancelled; scans
  started from the tiles overlap, and the end of one hides the other's cancel button; scans of chosen files
  and of the registry ignore cancellation; with 10000 stored detections, or after a clear during the
  scan, a finding is not counted; a quarantine's own row counts as a threat;
  loading the history raises the badge again; after a refresh of the cards a look-up's answer goes to a
  deleted button; a scan's end and the investigation page's look-up do not test `AppQuitting()`.
* Status events call back without `emit_mutex_`, and those of start-up are not stored.

Not modelled:

* The shared connection itself: SQLite's atomicity is assumed of each statement;
  `last_insert_rowid` may belong to another thread's insertion; without a busy timeout a
  statement that meets another process's lock throws. Statements throw in `Quarantine` and `SignatureUpdate` only.
* Exceptions where nothing catches them: in a directory-scan worker or iterator,
  in the VirusTotal answer's fields (`engine.cpp:1124`; `Dashboard` ends there), and of a path outside the
  ANSI code page in `EvaluateForBlock`. The process ends, and there is nothing left to check.
* Exceptions of the directory iterator between two task files, after which the persistence scan ends with the process or
  in its caller; a registry key or value that cannot be read is so from the start.
* The signature cache, which remembers a check by path (`rule_unsigned_temp_exec.cpp:24`).
* Contents: hashing, YARA matching, PE headers, JSON and HTTP are facts of a file
  or outcomes of a request.
* The pump of an earlier client object beside a new one, as `Start` waits for it.
* On the dashboard: layout, charts, animation, filters (of which "Last 7/30 days" match
  nothing) and selection of hidden rows; the pages that list tables of the operating
  system; the settings page, whose caller is not built. The C2 analyser, the DNS
  monitor and the hunt toolbar are not in `dashboard_ui/CMakeLists.txt`.
* The COM registration and reference counts of the AMSI provider.
* The AI assistant, which no compiled code calls; kernel-callback monitors
  are stubs that `Realtime` starts and stops.
* Encodings, logging, tools, installers and scripts hold no state of this kind.

## 7. Plan

The plan was ordered by what a mistake would cost the user: `Quarantine` with `Vault`,
`DirectoryScan` with `ScanJob`, `ScheduledScan`, `Minifilter`, `SignatureUpdate`,
`BehaviorRules` with `CommandLines`, `RuleEngine` with `ScanPipeline`,
`FolderWatcher` with `Realtime`, `FileVerdicts` with `SystemScans`, `EventFeed` with
`Dashboard`, and proofs about all of them. All of it is done. What would be next: the connection's
row ids and lock with statements that throw in `Emit`; the reference counts
of the AMSI provider.

## 8. Running it

    tlc -config QuarantineAll.cfg MCQuarantine
    tlapm QuarantineProofs.tla

`PROJECT.json` names the module and the configuration of each run, and the lines
of source behind each definition.
