----------------------------- MODULE RuleEngine -----------------------------
(***************************************************************************)
(* avbehavior::RuleEngine and its ProcessTree                              *)
(* (src/src/behavior_engine/src/rule_engine.cpp, process_tree.cpp): the    *)
(* processes seen, the process ids marked malicious, and what one process- *)
(* create event makes of them. The two steps of OnProcessCreate are those  *)
(* between which another thread can mark a process id: the snapshot of the *)
(* marks with the evaluation, and the mark of the new process.             *)
(*                                                                         *)
(* An event names a process (which the code does not know) besides its     *)
(* process id, which is used again when the process is gone. The tree is   *)
(* never told of exits: nothing calls ProcessTree::OnProcessExit.          *)
(***************************************************************************)
EXTENDS BehaviorRules

CONSTANTS
  Launch,          \* what is started: [bin, cmd, writable, signed, path]
  Pid,             \* process ids
  kMaxFlaggedPids

ASSUME RuleEngineAssumption ==
  /\ kMaxFlaggedPids \in Nat \ {0}
  /\ 0 \notin Pid   \* the parent of a process whose parent nobody saw start

VARIABLES
  nodes_,           \* ProcessTree: process id -> the event that created it
  flagged_pids_     \* process id -> why it is marked

engineVars == <<nodes_, flagged_pids_>>

EngineInit == nodes_ = <<>> /\ flagged_pids_ = <<>>

\* Variant: the first process with an id stays in the tree.
Insert_KeepsFirst(nodes, e) ==
  [pid \in DOMAIN nodes \cup {e.process_id} |->
     IF pid \in DOMAIN nodes THEN nodes[pid] ELSE e]

\* ProcessTree::OnProcessCreate
Insert(nodes, e) ==
  [pid \in DOMAIN nodes \cup {e.process_id} |->
     IF pid = e.process_id THEN e ELSE nodes[pid]]

\* The base name of the parent's image, as the tree knows it.
ParentName(nodes, e) ==
  IF e.parent_process_id \in DOMAIN nodes
    THEN nodes[e.parent_process_id].launch.bin ELSE NoParent

\* What the rules say of a launch under a parent.
Verdict ==
  [l \in Launch, parent \in {m.bin : m \in Launch} \cup {NoParent} |->
     Severities([bin |-> l.bin, cmd |-> l.cmd, writable |-> l.writable,
                 signed |-> l.signed, parent |-> parent])]

\* Variant: only a Malicious detection is linked to the parent.
Chained_IfMalicious(e, severities) ==
  e.parent_process_id \in DOMAIN flagged_pids_ /\ Malicious \in severities

\* Kill chain: any rule fired and the parent was marked already.
Chained(e, severities) ==
  e.parent_process_id \in DOMAIN flagged_pids_ /\ severities # {}

\* OnProcessCreate up to the marking: the tree, and the detections.
Detections(e) ==
  LET severities == Verdict[e.launch, ParentName(Insert(nodes_, e), e)]
  IN  [severities |-> severities, chain |-> Chained(e, severities)]

\* MarkPidMalicious: the first mark stays, and a full table takes no more.
Marked(pid, why) ==
  IF Cardinality(DOMAIN flagged_pids_) >= kMaxFlaggedPids
    THEN flagged_pids_
    ELSE [p \in DOMAIN flagged_pids_ \cup {pid} |->
            IF p \in DOMAIN flagged_pids_ THEN flagged_pids_[p] ELSE why]
=============================================================================
