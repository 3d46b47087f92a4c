---------------------------- MODULE SystemScans ----------------------------
(***************************************************************************)
(* The scans of the system itself (src/src/engine/src/engine.cpp):         *)
(* ScanPersistence goes through the scheduled tasks, the services and the  *)
(* WMI subscriptions, ScanAllProcesses through the memory of the running   *)
(* processes, ScanRegistry through the autorun entries of the registry     *)
(* (src/src/registry_scan). They run on threads of their own; the first    *)
(* two share the cancel flag, which each clears when it starts, and each   *)
(* may find what another has left: a file that is quarantined is gone.     *)
(*                                                                         *)
(* A command line is a record of its words, as spaces divide them, and of  *)
(* how many of them are within quotes. A path is a sequence of words.      *)
(***************************************************************************)
EXTENDS FileVerdicts

CONSTANTS
  Program,      \* the paths at which there is a file
  Sample,       \* path -> what the file there may be at first
  Built,        \* the programs that are still being built
  Library,      \* sets of functions these may be linked with
  Task,         \* the task files: a sequence of sequences of commands
  Service,      \* the services of the registry, drivers among them
  Autorun,      \* the other registry keys that start programs
  Subscription, \* how many objects each of the two WMI queries finds
  Process,      \* the processes that are listed (2048 at most) and their memory
  Hash,         \* the hashes that may be put on a list
  Elsewhere,    \* databases whose lists have been exported
  Known,        \* hash -> the severity of its signature
  Rules,        \* the files of the engine's YARA rules directory
  Provided,     \* those of the directories an AMSI provider may have loaded
  MaxScans,     \* bound: how many scans are started
  MaxFailures   \* bound: how much a scan is refused by Windows

CommandLine == [words : Seq(STRING), quoted : Nat, nested : BOOLEAN]

\* The service manager lists the services that are not drivers.
ServiceFacts == [line : CommandLine, win32 : BOOLEAN]

RegistryKey ==
  [holds : {"values", "value", "subkeys"}, opens : BOOLEAN,
   values : Seq([chars : Nat, type : {"REG_SZ", "REG_EXPAND_SZ", "REG_DWORD"},
                 line : CommandLine])]

ProcessFacts ==
  [name : STRING, opens : BOOLEAN, own : BOOLEAN,
   map : Seq([size : Nat, private : BOOLEAN, executable : BOOLEAN, guarded : BOOLEAN])]

ASSUME SystemScansAssumption ==
  /\ \A p \in Program : \A f \in Sample[p] : f \in FileFacts /\ IsFiniteSet(f.imports)
  /\ \A names \in Library : names \in SUBSET STRING /\ IsFiniteSet(names)
  /\ Task \in Seq(Seq(CommandLine)) /\ Service \in Seq(ServiceFacts)
  /\ Autorun \in Seq(RegistryKey) /\ Process \in Seq(ProcessFacts)
  /\ Known \in [DOMAIN Known -> Severity]
  /\ \A other \in Elsewhere : other.white \subseteq Hash /\ other.black \subseteq Hash
  /\ Built \subseteq Program /\ Subscription \in Nat /\ MaxScans \in Nat /\ MaxFailures \in Nat

VARIABLES
  facts,       \* path -> what the scanners can tell of the file there
  gone,        \* the paths whose file is in quarantine
  db,          \* the hash lists and the signatures
  scan_cancel,
  persistence, \* where the persistence scan is
  memory,      \* where the memory scan is
  registry,    \* where the registry scan is
  starts,      \* how many scans have been started
  reported,    \* history: what this persistence scan has reported
  scanned,     \* history: the files it has looked at
  failed,      \* history: what it could not list, open or query
  regions,     \* history: the regions this memory scan has looked at
  unread,      \* history: those it could not query or read
  alarms,      \* history: the command lines it has reported
  cut          \* history: the scans that were cancelled after their start

fileVars == <<facts, gone, db>>
registryVars == <<registry, alarms>>
seenVars == <<reported, scanned, failed>>
memoryVars == <<memory, regions, unread>>
vars == <<fileVars, scan_cancel, persistence, memoryVars, registryVars, starts,
          seenVars, cut>>

Phase == {"tasks", "services", "consumers", "filters"}

Init ==
  /\ facts \in {f \in [Program -> UNION Range(Sample)] : \A p \in Program : f[p] \in Sample[p]}
  /\ gone = {}
  /\ db = [white |-> {}, black |-> {}, known |-> Known]
  /\ scan_cancel = FALSE /\ starts = 0
  /\ persistence = [at |-> "idle", item |-> 0, sub |-> 0]
  /\ memory = [at |-> "idle", item |-> 0, sub |-> 0]
  /\ registry = [at |-> "idle", key |-> 0, item |-> 0] /\ alarms = {}
  /\ reported = {} /\ scanned = {} /\ failed = {} /\ regions = {} /\ unread = {}
  /\ cut = {}

PersistenceRuns == persistence.at \in Phase
MemoryRuns == memory.at = "processes"

\* A file that may not be looked for counts as one that is not there.
Exists(path) == path \in Program \ gone

-----------------------------------------------------------------------------
(* Command lines                                                           *)

StartsWith(s, t) == Len(s) >= Len(t) /\ SubSeq(s, 1, Len(t)) = t
EndsWith(s, t) == Len(s) >= Len(t) /\ SubSeq(s, Len(s) - Len(t) + 1, Len(s)) = t

kExeExtensions == {".exe", ".dll", ".sys"}

\* The registry scan goes on to the first word that ends like an executable.
ExtractExecutablePath(v) ==
  LET ends == {k \in DOMAIN v.words : \E e \in kExeExtensions : EndsWith(v.words[k], e)}
  IN  IF v.quoted > 0 THEN SubSeq(v.words, 1, v.quoted)
      ELSE SubSeq(v.words, 1, IF ends = {} THEN 1 ELSE Min(ends))

\* The persistence scan ends a service's path at the first space.
ServicePath(v) == SubSeq(v.words, 1, IF v.quoted > 0 THEN v.quoted ELSE 1)

\* It takes the command of a task as it is, quotes included.
TaskPath(c) == IF c.quoted > 0 THEN <<>> ELSE c.words

IsTrustedPath(path) ==
  /\ path /= <<>>
  /\ \/ StartsWith(path[1], "c:\\windows\\")
     \/ /\ Len(path) > 1 /\ path[1] = "c:\\program"
        /\ \/ StartsWith(path[2], "files\\")
           \/ Len(path) > 2 /\ path[2] = "files" /\ StartsWith(path[3], "(x86)\\")

\* Only strings are read.
ReadStringValue(v) == v.type \in {"REG_SZ", "REG_EXPAND_SZ"}

\* The values of a key are listed up to the first whose name is longer than the buffer.
ScanValueListKey(key, i) == i \in DOMAIN key.values /\ key.values[i].chars <= 255

\* One value by its name, or that value of each subkey, whose names all fit.
ScanSubkeysForValue(key, i) == i \in DOMAIN key.values

IsListed(key, i) ==
  /\ key.opens
  /\ IF key.holds = "values" THEN ScanValueListKey(key, i) ELSE ScanSubkeysForValue(key, i)

\* Each service, and each driver, is also an autorun entry; they come last.
Services ==
  [holds |-> "subkeys", opens |-> TRUE,
   values |-> [s \in DOMAIN Service |->
                 [chars |-> 1, type |-> "REG_EXPAND_SZ", line |-> Service[s].line]]]

ScanAutorunLocations == Autorun \o <<Services>>

\* What is not there, or signed, is not reported.
EvaluateAutorunEntry(line) ==
  LET path == ExtractExecutablePath(line)
  IN  Exists(path) /\ ~IsAuthenticodeSigned(facts[path])

-----------------------------------------------------------------------------
(* What changes while no scan looks                                        *)

\* Bound: programs are built before the first scan.
Link(path, names) ==
  /\ starts = 0
  /\ facts' = [facts EXCEPT ![path].imports = @ \cup names]
  /\ UNCHANGED <<gone, db, scan_cancel, persistence, memoryVars, registryVars, starts,
                 seenVars, cut>>

\* Bound: what is scanned has been built.
MayStart ==
  /\ starts < MaxScans
  /\ \A path \in Built : UNION Library \subseteq facts[path].imports

AddToList(list, h) == db' = [db EXCEPT ![list] = @ \cup {h}]
RemoveFromList(list, h) == db' = [db EXCEPT ![list] = @ \ {h}]

ListHashes(database, table) == database[table]

\* What another installation has written into the file.
ExportHashLists(other) ==
  [white |-> ListHashes(other, "white"), black |-> ListHashes(other, "black")]

\* Entries are added, none is removed; an empty hash is left out.
ImportHashLists(l) ==
  db' = [db EXCEPT !.white = @ \cup (l.white \ {""}), !.black = @ \cup (l.black \ {""})]

\* What is typed in is trimmed, and nothing is not added.
OnAddHashClicked(list, h) == h /= "" /\ AddToList(list, h)

\* The hash in the selected row: one that is on the list.
OnRemoveHashClicked(list, h) == h \in ListHashes(db, list) /\ RemoveFromList(list, h)

\* Exported by the dashboard there, and imported by the dashboard here.
OnImportListsClicked(other) == ImportHashLists(ExportHashLists(other))

\* --export-lists there, --import-lists here: an engine of its own on the same database.
ConsoleImportsLists(other) == ImportHashLists(ExportHashLists(other))

ListsEdited ==
  /\ \/ \E list \in {"white", "black"}, h \in Hash :
          OnAddHashClicked(list, h) \/ OnRemoveHashClicked(list, h)
     \/ \E other \in Elsewhere : OnImportListsClicked(other) \/ ConsoleImportsLists(other)
  /\ UNCHANGED <<facts, gone, scan_cancel, persistence, memoryVars, registryVars, starts,
                 seenVars, cut>>

CancelScan ==
  /\ scan_cancel' = TRUE
  /\ cut' = cut \cup (IF PersistenceRuns THEN {"persistence"} ELSE {})
                \cup (IF MemoryRuns THEN {"memory"} ELSE {})
  /\ UNCHANGED <<fileVars, persistence, memoryVars, registryVars, starts, seenVars>>

-----------------------------------------------------------------------------
(* ScanPersistence. Item 0 of a phase is the call that opens its list; a     *)
(* call that fails is kept in `failed', with the item it was about.          *)

PersistenceGoes(at, item, sub) ==
  persistence' = [at |-> at, item |-> item, sub |-> sub]

Fails(what) ==
  /\ Cardinality(failed) < MaxFailures
  /\ failed' = failed \cup what

\* Variant: the cancel flag is left as the last scan left it.
ClearsCancel_Forgotten == scan_cancel' = scan_cancel

ClearsCancel == scan_cancel' = FALSE

ScanPersistence ==
  /\ ~PersistenceRuns /\ MayStart
  /\ starts' = starts + 1
  /\ ClearsCancel
  /\ PersistenceGoes("tasks", 0, 0)
  /\ reported' = {} /\ scanned' = {} /\ failed' = {}
  /\ cut' = cut \ {"persistence"}
  /\ UNCHANGED <<fileVars, memoryVars, registryVars>>

\* A file that cannot be moved stays, and a file that is not there is not scanned.
ScanOneFile(path) ==
  IF Exists(path)
    THEN /\ scanned' = scanned \cup {path}
         /\ \/ UNCHANGED gone
            \/ /\ Quarantines(facts[path], db, Rules)
               /\ gone' = gone \cup {path}
    ELSE UNCHANGED <<scanned, gone>>

\* The directory of the tasks is opened, or the services are listed: where that
\* fails, or the list has grown between two calls, nothing of the phase is done.
OpensList(at, next) ==
  /\ persistence.at = at /\ persistence.item = 0
  /\ \/ scan_cancel /\ PersistenceGoes(next, 0, 0) /\ UNCHANGED failed
     \/ ~scan_cancel /\ PersistenceGoes(at, 1, 0) /\ UNCHANGED failed
     \/ ~scan_cancel /\ PersistenceGoes(next, 0, 0) /\ Fails({<<at, 0>>})
  /\ UNCHANGED <<fileVars, scan_cancel, memoryVars, registryVars, starts, reported, scanned,
                 cut>>

\* The next task file is opened and read.
OpensTask ==
  /\ persistence.at = "tasks" /\ persistence.item > 0 /\ persistence.sub = 0
  /\ LET t == persistence.item
     IN  IF scan_cancel \/ t > Len(Task)
           THEN PersistenceGoes("services", 0, 0) /\ UNCHANGED failed
           ELSE \/ PersistenceGoes("tasks", t, 1) /\ UNCHANGED failed
                \/ PersistenceGoes("tasks", t + 1, 0) /\ Fails({<<"tasks", t>>})
  /\ UNCHANGED <<fileVars, scan_cancel, memoryVars, registryVars, starts, reported, scanned,
                 cut>>

\* The commands of a task end at the first empty one. Nobody asks for the flag.
HandlesCommand ==
  LET t == persistence.item  j == persistence.sub
  IN  /\ persistence.at = "tasks" /\ j > 0
      /\ IF j > Len(Task[t]) \/ Task[t][j].words = <<>>
           THEN /\ PersistenceGoes("tasks", t + 1, 0)
                /\ UNCHANGED <<reported, scanned, gone>>
           ELSE /\ ScanOneFile(TaskPath(Task[t][j]))
                /\ reported' = IF IsTrustedPath(TaskPath(Task[t][j])) \/ Task[t][j].nested
                               THEN reported ELSE reported \cup {<<"task", t, j>>}
                /\ PersistenceGoes("tasks", t, j + 1)
      /\ UNCHANGED <<facts, db, scan_cancel, memoryVars, registryVars, starts, failed, cut>>

\* One service of the list. Its manager may refuse to open it or to tell its path.
HandlesService ==
  /\ persistence.at = "services" /\ persistence.item > 0
  /\ LET s == persistence.item
     IN  IF scan_cancel \/ s > Len(Service)
           THEN PersistenceGoes("consumers", 0, 0) /\ UNCHANGED <<scanned, gone, failed>>
           ELSE /\ PersistenceGoes("services", s + 1, 0)
                /\ \/ /\ ~Service[s].win32 \/ IsTrustedPath(ServicePath(Service[s].line))
                      /\ UNCHANGED <<scanned, gone, failed>>
                   \/ /\ Service[s].win32 /\ Fails({<<"services", s>>})
                      /\ UNCHANGED <<scanned, gone>>
                   \/ /\ Service[s].win32 /\ ~IsTrustedPath(ServicePath(Service[s].line))
                      /\ ScanOneFile(ServicePath(Service[s].line)) /\ UNCHANGED failed
  /\ UNCHANGED <<facts, db, scan_cancel, memoryVars, registryVars, starts, reported, cut>>

NextQuery(at) == IF at = "consumers" THEN "filters" ELSE "done"

\* The flag is asked before each of the queries, not between their results. Without
\* a connection there is no query at all; a query, or its next result, may fail.
HandlesSubscription ==
  /\ persistence.at \in {"consumers", "filters"}
  /\ LET at == persistence.at  k == persistence.item
     IN  \/ /\ k = 0 /\ UNCHANGED <<reported, failed>>
            /\ IF scan_cancel THEN PersistenceGoes("done", 0, 0)
                              ELSE PersistenceGoes(at, 1, 0)
         \/ /\ k = 0 /\ at = "consumers" /\ ~scan_cancel /\ UNCHANGED reported
            /\ PersistenceGoes("done", 0, 0)
            /\ Fails({<<"consumers", 0>>, <<"filters", 0>>})
         \/ /\ k \in 1..Subscription /\ UNCHANGED failed
            /\ reported' = reported \cup {<<at, k>>}
            /\ PersistenceGoes(at, k + 1, 0)
         \/ /\ k > 0 /\ UNCHANGED reported
            /\ PersistenceGoes(NextQuery(at), 0, 0)
            /\ IF k > Subscription THEN UNCHANGED failed ELSE Fails({<<at, 0>>})
  /\ UNCHANGED <<fileVars, scan_cancel, memoryVars, registryVars, starts, scanned, cut>>

PersistenceStep ==
  \/ OpensList("tasks", "services") \/ OpensTask \/ HandlesCommand
  \/ OpensList("services", "consumers") \/ HandlesService \/ HandlesSubscription

-----------------------------------------------------------------------------
(* ScanAllProcesses                                                        *)

kSkipList ==
  {"system", "registry", "memory compression", "idle", "smss.exe", "csrss.exe",
   "wininit.exe", "winlogon.exe", "services.exe", "lsass.exe", "lsm.exe",
   "svchost.exe", "dwm.exe", "fontdrvhost.exe", "sihost.exe", "taskhostw.exe",
   "runtimebroker.exe", "ctfmon.exe", "conhost.exe", "dllhost.exe",
   "spoolsv.exe", "audiodg.exe", "dashost.exe", "searchindexer.exe",
   "searchprotocolhost.exe", "searchfilterhost.exe", "msmpeng.exe", "nissrv.exe",
   "securityhealthservice.exe", "securityhealthsystray.exe", "wuauclt.exe",
   "wermgr.exe", "msiexec.exe", "wlanext.exe", "explorer.exe"}

\* A process that cannot be opened, and the engine's own, are not read either.
IsSkipped(p) == ~p.opens \/ p.own \/ p.name \in kSkipList

\* Committed, executable, private and not guarded; the size is in pages. What is
\* readable and not executable, or mapped, is not looked at, though the comment
\* above the function (engine.cpp:522) and engine.hpp:84 speak of it.
IsScannable(r) == r.size \in 1..16384 /\ r.private /\ r.executable /\ ~r.guarded

MemoryGoes(at, item, sub) == memory' = [at |-> at, item |-> item, sub |-> sub]

\* The places in the memory of process p from its k-th region on.
Rest(p, k) == {p} \X {i \in DOMAIN Process[p].map : i >= k}

Misses(lost) ==
  /\ Cardinality(failed) + Cardinality(unread) < MaxFailures
  /\ unread' = unread \cup lost

\* Where the processes cannot be listed the flag is left as it was.
ScanAllProcesses ==
  /\ ~MemoryRuns /\ MayStart
  /\ starts' = starts + 1
  /\ \/ ClearsCancel /\ MemoryGoes("processes", 1, 0) /\ unread' = {}
     \/ /\ MaxFailures > 0 /\ UNCHANGED scan_cancel
        /\ MemoryGoes("done", 0, 0)
        /\ unread' = UNION {Rest(p, 1) : p \in DOMAIN Process}
  /\ regions' = {}
  /\ cut' = cut \ {"memory"}
  /\ UNCHANGED <<fileVars, persistence, registryVars, seenVars>>

OpensProcess ==
  /\ MemoryRuns /\ memory.sub = 0
  /\ LET p == memory.item
     IN  IF scan_cancel \/ p > Len(Process) THEN MemoryGoes("done", 0, 0)
         ELSE IF IsSkipped(Process[p]) THEN MemoryGoes("processes", p + 1, 0)
         ELSE MemoryGoes("processes", p, 1)
  /\ UNCHANGED <<fileVars, scan_cancel, persistence, registryVars, starts, seenVars,
                 regions, unread, cut>>

\* Variant: the walk goes on from where it is, whatever the size of the region.
EndsWalk_SizeIgnored(r) == FALSE

EndsWalk(r) == r.size = 0

\* What is known of a region is scanned if it can be read.
ReadsRegion(p, k) ==
  IF IsScannable(Process[p].map[k]) /\ LoadRules(Rules) /= {}
    THEN \/ regions' = regions \cup {<<p, k>>} /\ UNCHANGED unread
         \/ UNCHANGED regions /\ Misses({<<p, k>>})
    ELSE UNCHANGED <<regions, unread>>

\* The address grows by the size of the region. The walk ends where the next region
\* cannot be queried.
WalksRegion ==
  /\ MemoryRuns /\ memory.sub > 0
  /\ LET p == memory.item  k == memory.sub  map == Process[p].map
     IN  \/ /\ scan_cancel \/ k > Len(map)
            /\ MemoryGoes("processes", p + 1, 0) /\ UNCHANGED <<regions, unread>>
         \/ /\ ~scan_cancel /\ k <= Len(map)
            /\ MemoryGoes("processes", p + 1, 0)
            /\ UNCHANGED regions /\ Misses(Rest(p, k))
         \/ /\ ~scan_cancel /\ k <= Len(map)
            /\ ReadsRegion(p, k)
            /\ IF EndsWalk(map[k]) THEN MemoryGoes("processes", p + 1, 0)
               ELSE MemoryGoes("processes", p, IF map[k].size = 0 THEN k ELSE k + 1)
  /\ UNCHANGED <<fileVars, scan_cancel, persistence, registryVars, starts, seenVars, cut>>

MemoryStep == OpensProcess \/ WalksRegion

-----------------------------------------------------------------------------
(* ScanRegistry: the entries are collected, evaluated one by one, and what  *)
(* was found is emitted at the end. Nobody asks for the flag. The registry  *)
(* does not change, so that here an entry is evaluated when it is listed; a *)
(* key that cannot be opened, and a value that cannot be read as a string,  *)
(* are such from the start.                                                 *)

RegistryRuns == registry.at = "entries"

RegistryGoes(at, key, item) == registry' = [at |-> at, key |-> key, item |-> item]

\* Bound: once, as the others do not change what it starts from.
ScanRegistry ==
  /\ registry.at = "idle" /\ MayStart
  /\ starts' = starts + 1
  /\ RegistryGoes("entries", 1, 1)
  /\ UNCHANGED <<fileVars, scan_cancel, persistence, memoryVars, alarms, seenVars, cut>>

EvaluatesEntry ==
  /\ RegistryRuns
  /\ LET k == registry.key  i == registry.item
     IN  IF k > Len(ScanAutorunLocations)
           THEN RegistryGoes("done", 0, 0) /\ UNCHANGED alarms
         ELSE IF ~IsListed(ScanAutorunLocations[k], i)
           THEN RegistryGoes("entries", k + 1, 1) /\ UNCHANGED alarms
         ELSE LET v == ScanAutorunLocations[k].values[i]
              IN  /\ RegistryGoes("entries", k, i + 1)
                  /\ alarms' = IF ReadStringValue(v) /\ EvaluateAutorunEntry(v.line)
                               THEN alarms \cup {v.line} ELSE alarms
  /\ UNCHANGED <<fileVars, scan_cancel, persistence, memoryVars, starts, seenVars, cut>>

User ==
  \/ ScanPersistence \/ ScanAllProcesses \/ ScanRegistry \/ CancelScan \/ ListsEdited
  \/ \E path \in Built, names \in Library : Link(path, names)

Next == User \/ PersistenceStep \/ MemoryStep \/ EvaluatesEntry

Spec == Init /\ [][Next]_vars /\ WF_vars(PersistenceStep)
        /\ WF_vars(MemoryStep) /\ WF_vars(EvaluatesEntry)

-----------------------------------------------------------------------------
TypeOK ==
  /\ DOMAIN facts = Program /\ gone \subseteq Program
  /\ db.white \subseteq Hash /\ db.black \subseteq Hash
  /\ scan_cancel \in BOOLEAN /\ starts \in 0..MaxScans
  /\ persistence.at \in Phase \cup {"idle", "done"}
  /\ memory.at \in {"idle", "processes", "done"}
  /\ registry.at \in {"idle", "entries", "done"}
  /\ scanned \subseteq Program /\ failed \subseteq Phase \X Nat
  /\ cut \subseteq {"persistence", "memory"}

\* A rule of a file that the provider has loaded and the engine has not.
HasForeignMatch(f, rules) ==
  \E m \in f.matches :
    /\ m.file \in LoadRules(rules) \ LoadRules(Rules)
    /\ SeverityFromRule(m.meta) = Malicious

(***************************************************************************)
(* The three judges of a file do not contradict each other. What the AMSI  *)
(* provider detects in a stream, the driver denies as a file, unless by a  *)
(* rule the engine does not have: the provider loads the directory the     *)
(* registry names when it is constructed, or none (amsi_provider.cpp:17    *)
(* and :36), the engine the one of its configuration. What the driver      *)
(* denies (EvaluateForBlock, engine.cpp:633) a scan takes for something to *)
(* quarantine (engine.cpp:180): otherwise a file could be neither opened   *)
(* nor removed.                                                            *)
(***************************************************************************)
VerdictsAgree ==
  \A path \in Program \ gone :
    LET f == facts[path]
    IN  /\ \A rules \in Provided :
             AmsiScan(f, rules) = Malicious
               => EvaluateForBlock(f, db, Rules) \/ HasForeignMatch(f, rules)
        /\ EvaluateForBlock(f, db, Rules) => Quarantines(f, db, Rules)

(***************************************************************************)
(* A program does not look better for importing more: only the two rules   *)
(* about few imports (PE.MINIMAL_IMPORT_LOADER and PE.PACKED_NO_IMPORTS,   *)
(* pe_analyzer.cpp:229 and :357) can be left behind that way.              *)
(***************************************************************************)
AlarmsOnlyGrow ==
  [][\A path \in Program :
       IsAnalyzed(facts[path])
         => Worst(ToDetectionEvents(facts'[path])) >= Worst(LastingSeverities(facts[path]))]_facts

(***************************************************************************)
(* A scan that ends without having been cancelled after its start has left *)
(* nothing out but what Windows refused it: a flag another scan has left   *)
(* behind does not cut it short, and what fails takes nothing else along:  *)
(* of a list that cannot be opened its items, of a task or a service that  *)
(* cannot be opened it alone, of a process whose memory cannot be queried  *)
(* the regions from there on (engine.cpp:305, :340-365, :395-435, :587 and *)
(* :601). It leaves out what the code leaves out: the commands of a task   *)
(* after an empty one, trusted paths, drivers (engine.cpp:344), memory     *)
(* that is not private and executable, regions after one of size 0 or      *)
(* where there are no YARA rules, values after one with an over-long name  *)
(* (registry_scanner.cpp:47). The registry scan is complete even where     *)
(* another scan moves files away meanwhile. A service the registry scan    *)
(* would report (registry_scanner.cpp:168) has been scanned too, unless it *)
(* is a driver or its path has spaces and no quotes (engine.cpp:374).      *)
(***************************************************************************)
Refused(phase, item) == failed \cap {<<phase, 0>>, <<phase, item>>} /= {}

TasksDone ==
  \A t \in DOMAIN Task : \A j \in DOMAIN Task[t] :
    ~Refused("tasks", t) /\ (\A i \in 1..j : Task[t][i].words /= <<>>)
      => LET path == TaskPath(Task[t][j])
         IN  /\ Exists(path) => path \in scanned
             /\ <<"task", t, j>> \in reported \/ IsTrustedPath(path) \/ Task[t][j].nested

ServicesDone ==
  \A s \in DOMAIN Service :
    LET line == Service[s].line
        path == ExtractExecutablePath(line)
    IN  Service[s].win32 /\ ~Refused("services", s) /\ EvaluateAutorunEntry(line)
          => \/ path \in scanned \/ IsTrustedPath(path)
             \/ line.quoted = 0 /\ Len(path) > 1

SubscriptionsDone ==
  \A at \in {"consumers", "filters"}, k \in 1..Subscription :
    Refused(at, 0) \/ <<at, k>> \in reported

MemoryDone ==
  \A p \in DOMAIN Process : ~IsSkipped(Process[p]) /\ LoadRules(Rules) /= {}
    => \A k \in DOMAIN Process[p].map :
         (IsScannable(Process[p].map[k]) /\ \A i \in 1..k : Process[p].map[i].size > 0)
           => <<p, k>> \in regions \cup unread

\* A string that starts an unsigned program which is still there.
RegistryDone ==
  \A k \in DOMAIN ScanAutorunLocations :
    LET key == ScanAutorunLocations[k]
    IN  \A i \in DOMAIN key.values :
          /\ key.opens
          /\ ReadStringValue(key.values[i]) /\ EvaluateAutorunEntry(key.values[i].line)
          /\ key.holds = "values" => \A j \in 1..i : key.values[j].chars <= 255
          => key.values[i].line \in alarms

NothingSkipped ==
  /\ TypeOK
  /\ registry.at = "done" => RegistryDone
  /\ (persistence.at = "done" /\ "persistence" \notin cut)
       => TasksDone /\ ServicesDone /\ SubscriptionsDone
  /\ (memory.at = "done" /\ "memory" \notin cut) => MemoryDone

(***************************************************************************)
(* Every scan of the system ends, with nobody cancelling it, even where    *)
(* the walk through a process meets a region of size 0 (engine.cpp:613).   *)
(***************************************************************************)
ScansEnd ==
  /\ PersistenceRuns ~> persistence.at = "done"
  /\ MemoryRuns ~> memory.at = "done"
  /\ RegistryRuns ~> registry.at = "done"
=============================================================================
