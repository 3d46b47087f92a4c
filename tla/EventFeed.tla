----------------------------- MODULE EventFeed -----------------------------
(***************************************************************************)
(* What the dashboard sees of the engine: the detections table, the        *)
(* quarantine table, and the queued calls by which the detection callback  *)
(* (the lambda given to Engine in the constructor of MainWindow,           *)
(* src/src/dashboard_ui/src/main_window.cpp) reaches the UI thread.        *)
(*                                                                         *)
(* A thread of the engine that finds malware inserts the detection and     *)
(* calls back under emit_mutex_; where the finding is a file, it then      *)
(* moves the file into quarantine, records it, and emits a status event.   *)
(* The ETW thread's failure calls back without the mutex and stores        *)
(* nothing.                                                                *)
(***************************************************************************)
EXTENDS Naturals, Sequences, FiniteSets, Functions, FiniteSetsExt

CONSTANTS
  Scan,      \* the scans the user may start, each once
  Held,      \* records in quarantine when it starts
  MaxFinds   \* bound: findings while it runs

NoOne == "no one"

ASSUME EventFeedAssumption ==
  Held \in Nat /\ MaxFinds \in Nat /\ NoOne \notin Scan /\ "realtime" \notin Scan

VARIABLES
  detections,   \* the table, oldest first
  inserted,     \* rows ever inserted; numbers the next one
  quarantine,   \* ids of the records not restored and not deleted
  records,      \* the last id given
  emit_mutex_,
  doing,        \* thread -> where it is in ScanOneFile, Emit and Quarantine
  etwFails,     \* the ETW thread has yet to report its failure
  finds,        \* findings so far
  queue         \* the calls queued to the UI thread

tableVars == <<detections, inserted, quarantine, records>>
feedVars == <<tableVars, emit_mutex_, doing, etwFails, finds, queue>>

Thread == Scan \cup {"realtime"}
Stored == {"malware", "SYS.QUARANTINED", "SYS.QUARANTINE_FAILED"}
DriverRule == {"SYS.MINIFILTER_CONNECTED", "SYS.MINIFILTER_CONNECT_FAILED"}
StatusRule == DriverRule \cup {"SYS.REALTIME_STARTED", "SYS.ETW_START_FAILED"}
Row(rule) == [call |-> "AppendDetectionRow", rule |-> rule]

FeedTypeOK ==
  /\ \A d \in Range(detections) : d.rule \in Stored /\ d.n \in 1..inserted
  /\ quarantine \subseteq 1..records
  /\ emit_mutex_ \in Thread \cup {NoOne}
  /\ doing \in [Thread -> {"looking", "calls", "moving", "moved", "failed",
                           "callsMoved", "callsFailed"}]
  /\ etwFails \in BOOLEAN /\ finds \in 0..MaxFinds

\* What the constructor leaves queued: the start of real-time protection, and
\* whether the driver could be reached; drivers and etws bound the choice. The
\* database holds old detections.
FeedInit(old, drivers, etws) ==
  /\ detections = [i \in 1..old |-> [rule |-> "malware", n |-> i]]
  /\ inserted = old
  /\ quarantine = 1..Held /\ records = Held
  /\ emit_mutex_ = NoOne
  /\ doing = [t \in Thread |-> "looking"]
  /\ etwFails \in etws
  /\ finds = 0
  /\ \E driver \in drivers :
       queue = <<Row("SYS.REALTIME_STARTED"), Row(driver)>>

\* Newest last, as the pages show them.
RecentDetections(limit) ==
  LET n == Len(detections) IN SubSeq(detections, Max({1, (n + 1) - limit}), n)

GetStats ==
  [total_detections |-> Len(detections),
   malicious_detections |->
     Cardinality({i \in DOMAIN detections : detections[i].rule = "malware"}),
   active_quarantine_count |-> Cardinality(quarantine)]

\* ORDER BY id DESC: in row i stands the id with i - 1 newer ones.
ListQuarantine(ids) ==
  [i \in 1..Cardinality(ids) |->
     CHOOSE id \in ids : Cardinality({x \in ids : x > id}) = i - 1]

ClearDetections == detections' = <<>>

Goes(t, from, to) == doing[t] = from /\ doing' = [doing EXCEPT ![t] = to]

InsertDetection(rule) ==
  /\ detections' = Append(detections, [rule |-> rule, n |-> inserted + 1])
  /\ inserted' = inserted + 1

\* Emit: insert, then call back, under the mutex.
Inserts(t, rule) ==
  /\ emit_mutex_ = NoOne
  /\ emit_mutex_' = t
  /\ InsertDetection(rule)

\* Variant: the callback of a quarantined file is forgotten.
CallsBack_Silent(rule) ==
  /\ queue' = IF rule = "SYS.QUARANTINED" THEN queue
              ELSE Append(queue, Row(rule))
  /\ emit_mutex_' = NoOne

CallsBack(rule) ==
  /\ queue' = Append(queue, Row(rule))
  /\ emit_mutex_' = NoOne

Finds(t) ==
  /\ finds < MaxFinds
  /\ Goes(t, "looking", "calls")
  /\ Inserts(t, "malware")
  /\ finds' = finds + 1
  /\ UNCHANGED <<quarantine, records, etwFails, queue>>

\* Only a finding in a file is followed by a quarantine.
Reports(t, isFile) ==
  /\ Goes(t, "calls", IF isFile THEN "moving" ELSE "looking")
  /\ CallsBack("malware")
  /\ UNCHANGED <<tableVars, etwFails, finds>>

Moves(t) ==
  /\ \/ /\ Goes(t, "moving", "moved")
        /\ records' = records + 1
        /\ quarantine' = quarantine \cup {records + 1}
     \/ Goes(t, "moving", "failed") /\ UNCHANGED <<records, quarantine>>
  /\ UNCHANGED <<detections, inserted, emit_mutex_, etwFails, finds, queue>>

InsertsStatus(t) ==
  /\ \/ Goes(t, "moved", "callsMoved") /\ Inserts(t, "SYS.QUARANTINED")
     \/ Goes(t, "failed", "callsFailed") /\ Inserts(t, "SYS.QUARANTINE_FAILED")
  /\ UNCHANGED <<quarantine, records, etwFails, finds, queue>>

ReportsStatus(t) ==
  /\ \/ Goes(t, "callsMoved", "looking") /\ CallsBack("SYS.QUARANTINED")
     \/ Goes(t, "callsFailed", "looking") /\ CallsBack("SYS.QUARANTINE_FAILED")
  /\ UNCHANGED <<tableVars, etwFails, finds>>

\* Quarantine(), from the move to the callback.
Quarantines(t) == Moves(t) \/ InsertsStatus(t) \/ ReportsStatus(t)

EtwReports ==
  /\ etwFails
  /\ etwFails' = FALSE
  /\ queue' = Append(queue, Row("SYS.ETW_START_FAILED"))
  /\ UNCHANGED <<tableVars, emit_mutex_, doing, finds>>

-----------------------------------------------------------------------------
(* What is on its way to the UI thread                                     *)

QueuedRules == {m.rule : m \in {q \in Range(queue) : q.call = "AppendDetectionRow"}}
QuarantineUntold ==
  \/ "SYS.QUARANTINED" \in QueuedRules
  \/ \E t \in Thread : doing[t] \in {"moved", "callsMoved"}
AnythingUntold ==
  QueuedRules # {} \/ \E t \in Thread : doing[t] \notin {"looking", "moving", "failed"}
=============================================================================
