---------------------------- MODULE ScanPipeline ----------------------------
(***************************************************************************)
(* From an observation to a verdict, a mark and a file in quarantine       *)
(* (src/src/engine/src/engine.cpp: ScanOneFile, Emit, Quarantine, and the  *)
(* ETW callback of StartRealtimeProtection), with the rule engine.         *)
(*                                                                         *)
(* Threads: the ETW session's, which judges each new process and starts,   *)
(* the first time it sees an image path, a detached thread that scans the  *)
(* image; and the folder watcher's, which scans a changed file. A scan     *)
(* opens the file once for each of its three stages and once more to move  *)
(* it to quarantine. What happens inside the move is in Quarantine.        *)
(*                                                                         *)
(* The operating system starts processes, uses the id of one that has      *)
(* ended again, and delivers the start events in their order.              *)
(* Exceptions of the database are left out here.                           *)
(***************************************************************************)
EXTENDS RuleEngine, Functions

CONSTANTS
  Content,      \* path -> what hash, yara and pe find in the file there
  Watched,      \* the paths in watched directories
  MaxProcesses  \* bound: how many processes are ever started

Path == DOMAIN Content
Stage == <<"hash", "yara", "pe">>
Watcher == "watcher"

ASSUME PipelineAssumption ==
  /\ \A path \in Path : Content[path] \in [Range(Stage) -> Seq(Severity)]
  /\ Watched \subseteq Path /\ Watcher \notin Path
  /\ MaxProcesses \in Nat

Scanner == Path \cup {Watcher}   \* the detached thread of a path is named by it

VARIABLES
  born,     \* history: the start events, in order; a process is its index
  parents,  \* history: the process that started each of them, 0 for none
  feed,     \* start events the ETW session has not delivered
  etw,      \* the event in the ETW callback with its detections, or <<>>
  etw_scanned_paths,
  present,  \* the paths at which there is a file
  scan,     \* scanner -> where its ScanOneFile is
  log       \* history: the events that reached the callback

osVars == <<born, parents>>
vars == <<engineVars, osVars, feed, etw, etw_scanned_paths, present, scan, log>>

NoScan == [pc |-> "idle", path |-> "", etw_pid |-> 0,
           quarantine_cause |-> None]

Init ==
  /\ EngineInit
  /\ born = <<>> /\ parents = <<>>
  /\ feed = <<>> /\ etw = <<>>
  /\ etw_scanned_paths = {}
  /\ present = Path
  /\ scan = [s \in Scanner |-> NoScan]
  /\ log = {}

Process == DOMAIN born

\* A process lives until its id is used again.
Live == {n \in Process : \A m \in Process : born[m].process_id = born[n].process_id
                                              => m <= n}

-----------------------------------------------------------------------------
(* The operating system                                                    *)

ProcessStarts ==
  /\ Len(born) < MaxProcesses
  /\ \E l \in Launch, pid \in Pid :
     \E parent \in {n \in Live : born[n].process_id # pid} \cup {0} :
       LET e == [who |-> Len(born) + 1, process_id |-> pid, launch |-> l,
                 parent_process_id |-> IF parent = 0 THEN 0
                                       ELSE born[parent].process_id]
       IN  /\ l.path \in present
           /\ born' = Append(born, e)
           /\ parents' = Append(parents, parent)
           /\ feed' = Append(feed, e)
  /\ UNCHANGED <<engineVars, etw, etw_scanned_paths, present, scan, log>>

\* A file is written once more where another one was taken away.
FileReturns(path) ==
  /\ path \notin present
  /\ present' = present \cup {path}
  /\ UNCHANGED <<engineVars, osVars, feed, etw, etw_scanned_paths, scan, log>>

-----------------------------------------------------------------------------
(* The ETW callback                                                        *)

Evaluates ==
  /\ etw = <<>> /\ feed # <<>>
  /\ nodes_' = Insert(nodes_, Head(feed))
  /\ etw' = [event |-> Head(feed), found |-> Detections(Head(feed))]
  /\ feed' = Tail(feed)
  /\ UNCHANGED <<flagged_pids_, osVars, etw_scanned_paths, present, scan, log>>

\* The detections as they are emitted, and the one that marks the process.
RuleEvents(e, found) ==
  {[kind |-> "rule", who |-> e.who, severity |-> s] : s \in found.severities}
  \cup (IF found.chain
          THEN {[kind |-> "chain", who |-> e.who, severity |-> Malicious]} ELSE {})

MarkOf(found) ==
  IF Malicious \in found.severities THEN "rule"
  ELSE IF found.chain THEN "chain" ELSE "none"

\* A scan of a path begins, for the process with this id or, with 0, for none.
Begins(s, path, pid) ==
  scan' = [scan EXCEPT ![s] = [NoScan EXCEPT !.pc = Stage[1], !.path = path,
                                             !.etw_pid = pid]]

\* The rest of OnProcessCreate and of the callback. Emitting changes nothing but
\* the log, so the events are entered in one step with the mark.
MarksAndEmits ==
  /\ etw # <<>>
  /\ LET e == etw.event
         why == MarkOf(etw.found)
         first_seen == e.launch.path \notin etw_scanned_paths
     IN  /\ flagged_pids_' = IF why = "none" THEN flagged_pids_
                             ELSE Marked(e.process_id, why)
         /\ log' = log \cup RuleEvents(e, etw.found)
         /\ etw_scanned_paths' = etw_scanned_paths \cup {e.launch.path}
         /\ IF first_seen THEN Begins(e.launch.path, e.launch.path, e.process_id)
                          ELSE UNCHANGED scan
  /\ etw' = <<>>
  /\ UNCHANGED <<nodes_, osVars, feed, present>>

-----------------------------------------------------------------------------
(* ScanOneFile                                                             *)

\* The folder watcher reports a change.
FileChanged(path) ==
  /\ path \in present
  /\ scan[Watcher].pc = "idle"
  /\ Begins(Watcher, path, 0)
  /\ UNCHANGED <<engineVars, osVars, feed, etw, etw_scanned_paths, present, log>>

Goes(s, record) == scan' = [scan EXCEPT ![s] = record]

AfterStage(stage) == [hash |-> "yara", yara |-> "pe", pe |-> "decide"][stage]

\* The first detection at Suspicious or above is the cause.
CauseOf(cause, found) ==
  LET serious == {i \in DOMAIN found : found[i] >= Suspicious}
  IN  IF cause # None \/ serious = {} THEN cause ELSE found[Min(serious)]

\* Variant: a stage reports only its first detection.
FoundEvents_FirstOnly(path, found) ==
  {[kind |-> "found", path |-> path, severity |-> found[i]] : i \in DOMAIN found \cap {1}}

FoundEvents(path, found) ==
  {[kind |-> "found", path |-> path, severity |-> d] : d \in Range(found)}

\* A stage finds nothing in a file that has gone away.
Examines(s) ==
  /\ scan[s].pc \in Range(Stage)
  /\ LET path == scan[s].path
         found == IF path \in present THEN Content[path][scan[s].pc] ELSE <<>>
     IN  /\ log' = log \cup FoundEvents(path, found)
         /\ Goes(s, [scan[s] EXCEPT !.pc = AfterStage(@),
                                    !.quarantine_cause = CauseOf(@, found)])
  /\ UNCHANGED <<engineVars, osVars, feed, etw, etw_scanned_paths, present>>

\* Variant: any cause marks the process.
Marks_AnyCause(s) == scan[s].etw_pid # 0

\* Only a cause that is Malicious marks the process.
Marks(s) == scan[s].etw_pid # 0 /\ scan[s].quarantine_cause = Malicious

Decides(s) ==
  /\ scan[s].pc = "decide"
  /\ IF scan[s].quarantine_cause = None
       THEN Goes(s, NoScan) /\ UNCHANGED flagged_pids_
       ELSE /\ Goes(s, [scan[s] EXCEPT !.pc = "move"])
            /\ flagged_pids_' = IF Marks(s) THEN Marked(scan[s].etw_pid, "scan")
                                ELSE flagged_pids_
  /\ UNCHANGED <<nodes_, osVars, feed, etw, etw_scanned_paths, present, log>>

\* avremediation::Quarantine moves the file, unless it is in use or gone.
Moves(s) ==
  /\ scan[s].pc = "move"
  /\ \/ /\ scan[s].path \in present
        /\ present' = present \ {scan[s].path}
        /\ Goes(s, [scan[s] EXCEPT !.pc = "moved"])
     \/ /\ Goes(s, [scan[s] EXCEPT !.pc = "notMoved"])
        /\ UNCHANGED present
  /\ UNCHANGED <<engineVars, osVars, feed, etw, etw_scanned_paths, log>>

\* Variant: only a success is reported.
Status_SuccessOnly(s) ==
  IF scan[s].pc = "moved"
    THEN {[kind |-> "SYS.QUARANTINED", path |-> scan[s].path, severity |-> Info]} ELSE {}

Status(s) ==
  IF scan[s].pc = "moved"
    THEN {[kind |-> "SYS.QUARANTINED", path |-> scan[s].path, severity |-> Info]}
    ELSE {[kind |-> "SYS.QUARANTINE_FAILED", path |-> scan[s].path,
           severity |-> Suspicious]}

EmitsStatus(s) ==
  /\ scan[s].pc \in {"moved", "notMoved"}
  /\ log' = log \cup Status(s)
  /\ Goes(s, NoScan)
  /\ UNCHANGED <<engineVars, osVars, feed, etw, etw_scanned_paths, present>>

ScanStep(s) == Examines(s) \/ Decides(s) \/ Moves(s) \/ EmitsStatus(s)
-----------------------------------------------------------------------------
Next ==
  \/ ProcessStarts
  \/ \E path \in Watched : FileReturns(path)
  \/ Evaluates
  \/ MarksAndEmits
  \/ \E path \in Watched : FileChanged(path)
  \/ \E s \in Scanner : ScanStep(s)

Spec == Init /\ [][Next]_vars
-----------------------------------------------------------------------------
Delivered == Len(born) - Len(feed)

Event == [who : 1 .. MaxProcesses, process_id : Pid, launch : Launch,
          parent_process_id : Pid \cup {0}]

TypeOK ==
  /\ Range(born) \subseteq Event /\ Len(parents) = Len(born)
  /\ DOMAIN nodes_ \subseteq Pid /\ Range(nodes_) \subseteq Event
  /\ DOMAIN flagged_pids_ \subseteq Pid
  /\ Range(flagged_pids_) \subseteq {"rule", "chain", "scan"}
  /\ Cardinality(DOMAIN flagged_pids_) <= kMaxFlaggedPids
  /\ feed = SubSeq(born, Delivered + 1, Len(born))
  /\ etw_scanned_paths \subseteq Path /\ present \subseteq Path
  /\ scan \in [Scanner -> [pc : {"idle", "decide", "move", "moved", "notMoved"}
                                  \cup Range(Stage),
                           path : Path \cup {""}, etw_pid : Pid \cup {0},
                           quarantine_cause : {None, Suspicious, Malicious}]]

RuleSaid(n, severity) == [kind |-> "rule", who |-> n, severity |-> severity] \in log
RuleFired(n) == \E s \in Severity : RuleSaid(n, s)
ChainSaid(n) == [kind |-> "chain", who |-> n, severity |-> Malicious] \in log
Found(path, severity) ==
  [kind |-> "found", path |-> path, severity |-> severity] \in log

(***************************************************************************)
(* When the rules judge a process, the tree gives them the process that    *)
(* started it if its start was seen at all, although that one may have     *)
(* ended and its id be in use again (process_tree.hpp:16).                 *)
(***************************************************************************)
RuleSeesRealParent ==
  etw # <<>> =>
    LET e == etw.event
    IN  IF parents[e.who] # 0
          THEN nodes_[e.parent_process_id].who = parents[e.who]
          ELSE e.parent_process_id \notin DOMAIN nodes_

(***************************************************************************)
(* No id is marked for nothing: some process that had it was called        *)
(* Malicious by a rule, or was linked by a rule to a marked parent, or its *)
(* image holds something Malicious; and behind all marks there is a process*)
(* or an image that is Malicious by itself (rule_engine.cpp:126,           *)
(* engine.cpp:222).                                                        *)
(***************************************************************************)
MarksHaveACause ==
  LET guilty == {n \in Process : RuleSaid(n, Malicious)
                                   \/ Found(born[n].launch.path, Malicious)}
  IN  /\ \A pid \in DOMAIN flagged_pids_ :
           \E n \in Process : born[n].process_id = pid
                                /\ (n \in guilty \/ ChainSaid(n))
      /\ DOMAIN flagged_pids_ # {} => guilty # {}

(***************************************************************************)
(* The table of marks never outgrows kMaxFlaggedPids (rule_engine.cpp:87)  *)
(* and holds no process without a cause.                                   *)
(***************************************************************************)
MarksInv == TypeOK /\ MarksHaveACause

(***************************************************************************)
(* A process that fires any rule is linked to the process that started it, *)
(* if a rule has called that one Malicious and its mark found room, at     *)
(* whatever time either of them ends (rule_engine.hpp:24).                 *)
(***************************************************************************)
LineageCorrelated ==
  \A n \in Process :
    (/\ parents[n] # 0 /\ RuleFired(n)
     /\ RuleSaid(parents[n], Malicious)
     /\ born[n].parent_process_id \in DOMAIN flagged_pids_) => ChainSaid(n)

(***************************************************************************)
(* A file leaves its place only after a detection in it, Suspicious or     *)
(* worse, has been reported (engine.cpp:175-183, 221).                     *)
(***************************************************************************)
RemovedOnlyReported ==
  [][\A path \in present \ present' :
       Found(path, Suspicious) \/ Found(path, Malicious)]_vars

(***************************************************************************)
(* No scan that came to a cause ends without a word on what became of the  *)
(* file, and a file is said to be in quarantine only if it was moved there *)
(* (the comment at engine.cpp:139-145).                                    *)
(***************************************************************************)
EveryCauseAnswered ==
  [][\A s \in Scanner :
       scan[s].quarantine_cause # None /\ scan'[s].pc = "idle"
       => \E l \in log' :
            /\ l.kind = (IF scan[s].pc = "moved" THEN "SYS.QUARANTINED"
                         ELSE "SYS.QUARANTINE_FAILED")
            /\ l.path = scan[s].path]_vars
=============================================================================
