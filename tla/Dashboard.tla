----------------------------- MODULE Dashboard -----------------------------
(***************************************************************************)
(* The dashboard's main window (src/src/dashboard_ui/src): the UI thread   *)
(* with its queue of calls, the user's operations on the home, history and *)
(* quarantine pages, the detached threads that scan and that ask           *)
(* VirusTotal, and the end of the application. A command of the console    *)
(* host (src/src/host_console), which opens the same database in a process *)
(* of its own, may come between any two of these steps.                    *)
(*                                                                         *)
(* A dialog is a nested event loop: queued calls go on being executed, the *)
(* user can do nothing else. One whose handler has nothing in its hands    *)
(* while it is open is part of the operation; two are states of their own: *)
(* the question before a deletion, and the box that reports a partial one. *)
(* Selecting rows and pressing the button is one step, since a reload in   *)
(* between clears the selection.                                           *)
(*                                                                         *)
(* What happens in one life of the application is chosen once, at the      *)
(* start: uses, one of the sets in Occasions.                              *)
(***************************************************************************)
EXTENDS EventFeed

CONSTANTS
  Occasions,   \* the sets of uses that this instance lets happen together
  OldRows,     \* detections in the database at the start, unless it is "full"
  RecentShown, \* detections on the home page (5 in the code)
  HistoryCap,  \* the most that RecentDetections is asked for (10000)
  VirusTotalKey \* the configuration has a key for VirusTotal

Kind == {"folder", "files", "registry", "memory", "persistence"}
ReadsFiles == {"folder", "files", "persistence"}
Honours == {"folder", "memory", "persistence"}  \* clear and read scan_cancel

Use == {"posture",     \* the driver connects or not, ETW starts or not
        "quarantine",  \* the user restores and deletes
        "overlaps",    \* the user scans, and again before or after the end
        "clears",      \* the user clears the history
        "lookups",     \* the user asks VirusTotal
        "console",     \* the console host is used
        "full",        \* the history is as long as what is counted of it
        "quits"}       \* the user leaves
       \cup Kind       \* the user scans, once unless scans overlap

ASSUME DashboardAssumption ==
  /\ \A u \in Occasions : u \subseteq Use
  /\ OldRows \in Nat /\ RecentShown \in Nat /\ HistoryCap \in Nat
  /\ VirusTotalKey \in BOOLEAN

VARIABLES
  uses,
  phase,          \* "open", "quitting" (AppQuitting is set), "gone", "crashed"
  page,           \* 0 home, 1 history, 2 quarantine, 3 investigation
  rows,           \* detections_table_: how many rows of each rule
  detection_unread_,
  table,          \* quarantine_table_: the records' ids
  home,           \* what RefreshHomeStats last showed
  etw_ok_, driver_ok_,
  dialog,         \* "none", "partial", or the rows chosen for deletion
  asked,          \* history: the ids those rows had when the question was put
  deleted,        \* history: ids deleted without having been asked about
  reloaded,       \* history: the table has been refilled under a question
  buttons,        \* the scan buttons are enabled
  cancel_button,  \* "hidden", "enabled", "disabled"
  status,
  scan_cancel,    \* the engine's flag
  scan,           \* scan -> its thread
  card, ask, row_ask, \* VirusTotal: of a card, the investigation page, the table
  late,           \* history: threads that used what had been destroyed
  unguarded,      \* history: those that might, when the user left
  elsewhere       \* history: what a console command did to the tables

pageVars == <<page, rows, detection_unread_, table, home, etw_ok_, driver_ok_>>
deleteVars == <<dialog, asked, deleted, reloaded>>
scanVars == <<buttons, cancel_button, status, scan_cancel, scan>>
lookupVars == <<card, ask, row_ask, late, unguarded>>
vars == <<uses, feedVars, phase, pageVars, deleteVars, scanVars, lookupVars, elsewhere>>

Idle == [st |-> "none", kind |-> "registry", before |-> 0, found |-> 0,
         said |-> "nothing", cleared |-> FALSE, overlapped |-> FALSE]

TypeOK ==
  /\ FeedTypeOK /\ uses \subseteq Use
  /\ phase \in {"open", "quitting", "gone", "crashed"}
  /\ page \in 0..3
  /\ rows \in [Stored \cup StatusRule -> Nat]
  /\ detection_unread_ \in Nat
  /\ Range(table) \subseteq 1..records
  /\ home.score \in 5..100
  /\ etw_ok_ \in BOOLEAN /\ driver_ok_ \in BOOLEAN
  /\ dialog \in {"none", "partial", "delete"} \X SUBSET (1..records)
  /\ asked \cup deleted \subseteq 1..records /\ reloaded \in BOOLEAN
  /\ buttons \in BOOLEAN /\ scan_cancel \in BOOLEAN
  /\ cancel_button \in {"hidden", "enabled", "disabled"}
  /\ status \in {"", "scanning", "cancelling", "cancelled", "summary", "cleared"}
  /\ \A s \in Scan : /\ scan[s].st \in {"none", "begun", "working", "ended"}
                     /\ scan[s].kind \in Kind
  /\ card \in {"none", "asking", "checked", "orphan", "orphan checked"}
  /\ ask \in {"none", "asking"} /\ row_ask \in {"none", "asking", "checked"}
  /\ late \subseteq {"scan", "card", "investigation", "table", "deleted button"}
  /\ elsewhere \in {"nothing", "added", "removed", "cleared"}

-----------------------------------------------------------------------------
(* What the pages show                                                     *)

Score(n, etw, driver) ==
  LET missing == Cardinality({l \in {"etw", "driver"} :
                               ~(IF l = "etw" THEN etw ELSE driver)})
      score == 100 - missing * 12 - Min({n * 5, 30})
  IN  Max({5, Min({score, 100})})

Home(etw, driver) ==
  [stats |-> GetStats,
   score |-> Score(GetStats.active_quarantine_count, etw, driver),
   recent |-> RecentDetections(RecentShown)]

HomeNow == Home(etw_ok_, driver_ok_)

ReloadQuarantineTable(ids) == table' = ListQuarantine(ids)

NoRows == [rule \in Stored \cup StatusRule |-> 0]

\* A row for each old detection; they are malicious, and raise the badge, as the
\* home page is in front.
LoadHistory(old) ==
  /\ rows = [NoRows EXCEPT !["malware"] = old]
  /\ detection_unread_ = old

Init ==
  /\ uses \in Occasions
  /\ LET old == IF "full" \in uses THEN HistoryCap ELSE OldRows
     IN  /\ IF "posture" \in uses THEN FeedInit(old, DriverRule, BOOLEAN)
            ELSE FeedInit(old, {"SYS.MINIFILTER_CONNECT_FAILED"}, {FALSE})
         /\ LoadHistory(old)
  /\ phase = "open" /\ page = 0
  /\ table = <<>>
  /\ etw_ok_ = TRUE /\ driver_ok_ = FALSE
  /\ home = Home(TRUE, FALSE)
  /\ dialog = <<"none", {}>> /\ asked = {} /\ deleted = {} /\ reloaded = FALSE
  /\ buttons = TRUE /\ cancel_button = "hidden" /\ status = ""
  /\ scan_cancel = FALSE
  /\ scan = [s \in Scan |-> Idle]
  /\ card = "none" /\ ask = "none" /\ row_ask = "none" /\ late = {} /\ unguarded = {}
  /\ elsewhere = "nothing"

Running(s) == scan[s].st \in {"begun", "working"}
UserMay == phase = "open" /\ dialog[1] = "none"

-----------------------------------------------------------------------------
(* Queued calls, executed one at a time on the UI thread                   *)

AppendDetectionRow(rule) ==
  LET etw == etw_ok_ /\ rule # "SYS.ETW_START_FAILED"
      driver == \/ rule = "SYS.MINIFILTER_CONNECTED"
                \/ driver_ok_ /\ rule # "SYS.MINIFILTER_CONNECT_FAILED"
      reload == rule = "SYS.QUARANTINED"
  IN  /\ rows' = [rows EXCEPT ![rule] = @ + 1]
      /\ detection_unread_' = IF rule = "malware" /\ page # 1
                              THEN detection_unread_ + 1 ELSE detection_unread_
      /\ IF reload THEN ReloadQuarantineTable(quarantine) ELSE UNCHANGED table
      /\ reloaded' = (reloaded \/ (reload /\ dialog[1] = "delete"))
      /\ etw_ok_' = etw /\ driver_ok_' = driver
      /\ home' = IF page = 0 THEN Home(etw, driver) ELSE home

\* Variant: the buttons come back only if the scan was not cancelled.
ScanFinished_Uncancelled ==
  /\ buttons' = (status # "cancelling")
  /\ cancel_button' = "hidden"
  /\ status' = IF status = "cancelling" THEN "cancelled" ELSE status
  /\ home' = HomeNow

\* The posted part of RunScanInBackground.
ScanFinished ==
  /\ buttons' = TRUE
  /\ cancel_button' = "hidden"
  /\ status' = IF status = "cancelling" THEN "cancelled" ELSE status
  /\ home' = HomeNow

ExecutesCall ==
  /\ phase = "open" /\ queue # <<>>
  /\ queue' = Tail(queue)
  /\ LET m == Head(queue)
     IN  \/ /\ m.call = "AppendDetectionRow"
            /\ AppendDetectionRow(m.rule)
            /\ UNCHANGED <<page, dialog, asked, deleted, scanVars>>
         \/ /\ m.call = "summary"
            /\ status' = "summary"
            /\ UNCHANGED <<pageVars, deleteVars, buttons, cancel_button,
                           scan_cancel, scan>>
         \/ /\ m.call = "finished"
            /\ ScanFinished
            /\ UNCHANGED <<page, rows, detection_unread_, table, etw_ok_, driver_ok_,
                           deleteVars, scan_cancel, scan>>
  /\ UNCHANGED <<tableVars, emit_mutex_, doing, etwFails, finds, phase, lookupVars>>

-----------------------------------------------------------------------------
(* The user on the pages                                                   *)

GoToPage(i) ==
  /\ UserMay /\ page # i
  /\ i = 2 => "quarantine" \in uses
  /\ i = 3 => "lookups" \in uses
  /\ page' = i
  /\ detection_unread_' = IF i = 1 THEN 0 ELSE detection_unread_
  /\ home' = IF i = 0 THEN HomeNow ELSE home
  /\ IF i = 2 THEN ReloadQuarantineTable(quarantine) ELSE UNCHANGED table
  /\ UNCHANGED <<feedVars, phase, rows, etw_ok_, driver_ok_, deleteVars, scanVars,
                 lookupVars>>

OnClearHistory ==
  /\ UserMay /\ "clears" \in uses /\ page = 1 /\ detections # <<>>
  /\ ClearDetections
  /\ rows' = NoRows
  /\ UNCHANGED <<quarantine, etw_ok_, driver_ok_>>
  /\ status' = "cleared"
  /\ home' = HomeNow'
  /\ scan' = [s \in Scan |-> [scan[s] EXCEPT !.cleared = @ \/ Running(s)]]
  /\ UNCHANGED <<inserted, records, emit_mutex_, doing, etwFails, finds, queue, phase,
                 page, detection_unread_, table, deleteVars, buttons, cancel_button,
                 scan_cancel, lookupVars>>

\* The end of OnRestoreQuarantine and OnDeleteQuarantine, when the records in
\* gone are of those in tried: nothing done, a box first, or the refresh.
Concludes(tried, gone, box) ==
  /\ quarantine' = quarantine \ gone
  /\ UNCHANGED <<detections, etw_ok_, driver_ok_>>
  /\ IF gone # {} /\ gone = tried
     THEN ReloadQuarantineTable(quarantine') /\ home' = HomeNow'
     ELSE UNCHANGED <<table, home>>
  /\ dialog' = <<IF gone \notin {{}, tried} THEN box ELSE "none", {}>>

\* Restoring or deleting a record may fail, whatever the reason.
OnRestoreQuarantine ==
  /\ UserMay /\ "quarantine" \in uses /\ page = 2
  /\ \E chosen \in (SUBSET (DOMAIN table)) \ {{}} :
       LET ids == {table[r] : r \in chosen}
       IN  \E restored \in SUBSET (ids \cap quarantine) :
             Concludes(ids, restored, "partial")
  /\ UNCHANGED <<inserted, records, emit_mutex_, doing, etwFails, finds, queue, phase,
                 page, rows, detection_unread_, asked, deleted, reloaded, scanVars,
                 lookupVars>>

\* The rows are kept, not the ids in them.
OnDeleteQuarantine ==
  /\ UserMay /\ "quarantine" \in uses /\ page = 2
  /\ \E chosen \in (SUBSET (DOMAIN table)) \ {{}} :
       /\ dialog' = <<"delete", chosen>>
       /\ asked' = {table[r] : r \in chosen}
  /\ UNCHANGED <<feedVars, phase, pageVars, deleted, reloaded, scanVars, lookupVars>>

\* The id cell of a row, now.
IdAt(r) == table[r]

AnswersDelete ==
  /\ phase = "open" /\ dialog[1] = "delete"
  /\ \/ /\ dialog' = <<"none", {}>>
        /\ UNCHANGED <<detections, quarantine, deleted, table, home, etw_ok_, driver_ok_>>
     \/ LET tried == {IdAt(r) : r \in dialog[2] \cap DOMAIN table}
        IN  \E gone \in SUBSET (tried \cap quarantine) :
              /\ Concludes(tried, gone, "partial")
              /\ deleted' = deleted \cup (gone \ asked)
  /\ asked' = {}
  /\ UNCHANGED <<inserted, records, emit_mutex_, doing, etwFails, finds, queue, phase,
                 page, rows, detection_unread_, reloaded, scanVars, lookupVars>>

ClosesPartial ==
  /\ phase = "open" /\ dialog[1] = "partial"
  /\ dialog' = <<"none", {}>>
  /\ ReloadQuarantineTable(quarantine)
  /\ home' = HomeNow
  /\ UNCHANGED <<feedVars, phase, page, rows, detection_unread_, etw_ok_, driver_ok_,
                 asked, deleted, reloaded, scanVars, lookupVars>>

-----------------------------------------------------------------------------
(* Scans                                                                   *)

HistorySize == Len(RecentDetections(HistoryCap))

\* Variant: one new row is not yet a finding.
Grown_ByMore(before) == HistorySize > before + 1

\* new_detections > 0
Grown(before) == HistorySize > before

Unused == {s \in Scan : scan[s].st = "none"}

\* One of the OnScan slots, and RunScanInBackground: by its button on the
\* history page, or by a tile of the home page, which looks at no button.
OnScan(s, kind) ==
  /\ UserMay /\ Unused # {} /\ s = CHOOSE u \in Unused : TRUE
  /\ kind \in uses /\ (Unused = Scan \/ "overlaps" \in uses)
  /\ page = 0 \/ (page = 1 /\ buttons)
  /\ page' = 1
  /\ detection_unread_' = IF page = 0 THEN 0 ELSE detection_unread_
  /\ buttons' = FALSE /\ cancel_button' = "enabled" /\ status' = "scanning"
  /\ LET others == {o \in Scan : Running(o)}
         ends == \E m \in Range(queue) : m.call = "finished"
     IN  scan' = [o \in Scan |->
                    IF o = s THEN [Idle EXCEPT !.st = "begun", !.kind = kind,
                                               !.before = HistorySize,
                                               !.overlapped = ends \/ others # {}]
                    ELSE [scan[o] EXCEPT !.overlapped = @ \/ o \in others]]
  /\ UNCHANGED <<feedVars, phase, rows, table, home, etw_ok_, driver_ok_, deleteVars,
                 scan_cancel, lookupVars>>

\* The thread comes to call the engine, which clears the flag of every scan.
ScanWorks(s) ==
  /\ scan[s].st = "begun"
  /\ scan' = [scan EXCEPT ![s].st = "working"]
  /\ scan_cancel' = (scan_cancel /\ scan[s].kind \notin Honours)
  /\ UNCHANGED <<feedVars, phase, pageVars, deleteVars, buttons, cancel_button, status,
                 lookupVars>>

ScanFinds(s) ==
  /\ scan[s].st = "working"
  /\ ~(scan_cancel /\ scan[s].kind \in Honours)
  /\ Finds(s)
  /\ scan' = [scan EXCEPT ![s].found = @ + 1]
  /\ UNCHANGED <<phase, pageVars, deleteVars, buttons, cancel_button, status,
                 scan_cancel, lookupVars>>

\* The work returns: a summary is posted, from the growth of the history or,
\* for the memory scan, from the engine's own count; then the end is.
ScanEnds(s) ==
  LET kind == scan[s].kind
      none == IF kind = "memory" THEN scan[s].found = 0
              ELSE ~Grown(scan[s].before)
      summary == IF kind = "registry" THEN <<>> ELSE <<[call |-> "summary"]>>
  IN  /\ scan[s].st = "working" /\ doing[s] = "looking"
      /\ scan' = [scan EXCEPT ![s].st = "ended",
                    ![s].said = IF kind = "registry" THEN "nothing"
                                ELSE IF none THEN "clean" ELSE "threats"]
      /\ queue' = IF phase = "open"
                  THEN queue \o summary \o <<[call |-> "finished"]>> ELSE queue
      /\ late' = IF phase = "gone" THEN late \cup {"scan"} ELSE late
      /\ UNCHANGED <<tableVars, emit_mutex_, doing, etwFails, finds, phase, pageVars,
                     deleteVars, buttons, cancel_button, status, scan_cancel, card, ask, row_ask,
                     unguarded>>

OnCancelScan ==
  /\ UserMay /\ page = 1 /\ cancel_button = "enabled"
  /\ scan_cancel' = TRUE
  /\ status' = "cancelling"
  /\ cancel_button' = "disabled"
  /\ UNCHANGED <<feedVars, phase, pageVars, deleteVars, buttons, scan, lookupVars>>

-----------------------------------------------------------------------------
(* VirusTotal lookups, each on a detached thread. The posted call enables   *)
(* the button again and shows the answer.                                  *)

CardLookup ==
  /\ UserMay /\ "lookups" \in uses /\ page = 1 /\ card = "none"
  /\ card' = "asking"
  /\ UNCHANGED <<feedVars, phase, pageVars, deleteVars, scanVars, ask, row_ask, late,
                 unguarded>>

\* refresh_fn deletes the cards, and the button a lookup holds on to.
RefreshCards ==
  /\ UserMay /\ page = 1 /\ card \in {"asking", "checked"}
  /\ card' = IF card = "asking" THEN "orphan" ELSE "orphan checked"
  /\ UNCHANGED <<feedVars, phase, pageVars, deleteVars, scanVars, ask, row_ask, late,
                 unguarded>>

\* What comes back in the seconds allowed for connecting and reading.
Reply == {"nothing", "404", "401", "429", "another status", "no JSON",
          "JSON of another form", "report"}

\* Only the parsing is guarded: members are then taken from what may not have any.
LookupVirusTotal(reply) ==
  CASE ~VirusTotalKey -> "text"
    [] reply = "JSON of another form" -> "exception"
    [] OTHER -> "text"

\* An exception that leaves a detached thread ends the process.
Terminates ==
  /\ phase # "gone"
  /\ \E reply \in Reply : LookupVirusTotal(reply) = "exception"
  /\ phase' = "crashed"
  /\ UNCHANGED <<feedVars, pageVars, deleteVars, scanVars, lookupVars>>

BailsOut == phase # "open"

CardAnswered ==
  /\ phase # "crashed" /\ card \in {"asking", "orphan"}
  /\ \/ Terminates
     \/ /\ \E reply \in Reply : LookupVirusTotal(reply) = "text"
        /\ card' = IF BailsOut THEN "none"
                   ELSE IF card = "asking" THEN "checked" ELSE "orphan checked"
        /\ UNCHANGED <<feedVars, phase, pageVars, deleteVars, scanVars, ask, row_ask,
                       late, unguarded>>

\* Between the test and the post the application may come to its end.
CardShown ==
  /\ phase # "crashed" /\ card \in {"checked", "orphan checked"}
  /\ card' = "none"
  /\ late' = late \cup (IF phase = "gone" THEN {"card"}
                        ELSE IF card = "orphan checked" /\ phase = "open"
                        THEN {"deleted button"} ELSE {})
  /\ UNCHANGED <<feedVars, phase, pageVars, deleteVars, scanVars, ask, row_ask, unguarded>>

\* The button of the table view, for a row in which there is a hash. It stays.
RowLookup ==
  /\ UserMay /\ "lookups" \in uses /\ page = 1 /\ rows["malware"] > 0
  /\ row_ask = "none"
  /\ row_ask' = "asking"
  /\ UNCHANGED <<feedVars, phase, pageVars, deleteVars, scanVars, card, ask, late,
                 unguarded>>

RowAnswered ==
  /\ phase # "crashed" /\ row_ask = "asking"
  /\ \/ Terminates
     \/ /\ \E reply \in Reply : LookupVirusTotal(reply) = "text"
        /\ row_ask' = IF BailsOut THEN "none" ELSE "checked"
        /\ UNCHANGED <<feedVars, phase, pageVars, deleteVars, scanVars, card, ask,
                       late, unguarded>>

RowShown ==
  /\ phase # "crashed" /\ row_ask = "checked"
  /\ row_ask' = "none"
  /\ late' = IF phase = "gone" THEN late \cup {"table"} ELSE late
  /\ UNCHANGED <<feedVars, phase, pageVars, deleteVars, scanVars, card, ask, unguarded>>

Investigate ==
  /\ UserMay /\ "lookups" \in uses /\ page = 3 /\ ask = "none"
  /\ ask' = "asking"
  /\ UNCHANGED <<feedVars, phase, pageVars, deleteVars, scanVars, card, row_ask, late,
                 unguarded>>

\* No test here; the widgets are guarded, the window is not.
Investigated ==
  /\ phase # "crashed" /\ ask = "asking"
  /\ \/ Terminates
     \/ /\ \E reply \in Reply : LookupVirusTotal(reply) = "text"
        /\ ask' = "none"
        /\ late' = IF phase = "gone" THEN late \cup {"investigation"} ELSE late
        /\ UNCHANGED <<feedVars, phase, pageVars, deleteVars, scanVars, card, row_ask,
                       unguarded>>

-----------------------------------------------------------------------------
(* The end: quit from the tray icon's menu, then ~MainWindow                *)

Quit ==
  /\ UserMay /\ "quits" \in uses
  /\ phase' = "quitting"
  /\ unguarded' = {"scan" : s \in {o \in Scan : Running(o)}}
                  \cup {"investigation" : a \in {ask} \cap {"asking"}}
                  \cup {"card" : c \in {card} \cap {"checked", "orphan checked"}}
                  \cup {"table" : r \in {row_ask} \cap {"checked"}}
  /\ UNCHANGED <<feedVars, pageVars, deleteVars, scanVars, card, ask, row_ask, late>>

\* ~Engine joins the engine's own threads. What was queued is discarded.
WindowDestroyed ==
  /\ phase = "quitting" /\ doing["realtime"] = "looking"
  /\ phase' = "gone"
  /\ queue' = <<>> /\ etwFails' = FALSE
  /\ UNCHANGED <<tableVars, emit_mutex_, doing, finds, pageVars, deleteVars, scanVars,
                 lookupVars>>
-----------------------------------------------------------------------------
(* The console host. Its engine prints what it finds; nobody tells the      *)
(* dashboard. (Bounds: one command, which meets no statement of the         *)
(* dashboard's; one that would finds the database locked and throws.)       *)

\* --scan and --regscan
ConsoleScans ==
  /\ finds < MaxFinds
  /\ InsertDetection("malware") /\ finds' = finds + 1
  /\ elsewhere' = "added"
  /\ UNCHANGED <<quarantine, records, scan>>

\* --quarantine-restore and --quarantine-delete
ConsoleRemoves ==
  /\ \E id \in quarantine : quarantine' = quarantine \ {id}
  /\ elsewhere' = "removed"
  /\ UNCHANGED <<detections, inserted, finds, records, scan>>

\* --history-clear
ConsoleClears ==
  /\ ClearDetections
  /\ elsewhere' = "cleared"
  /\ scan' = [s \in Scan |-> [scan[s] EXCEPT !.cleared = @ \/ Running(s)]]
  /\ UNCHANGED <<quarantine, inserted, finds, records>>

Console ==
  /\ "console" \in uses /\ phase = "open" /\ elsewhere = "nothing"
  /\ ConsoleScans \/ ConsoleRemoves \/ ConsoleClears
  /\ UNCHANGED <<uses, emit_mutex_, doing, etwFails, queue, phase, pageVars, deleteVars,
                 buttons, cancel_button, status, scan_cancel, lookupVars>>

-----------------------------------------------------------------------------
Engine ==
  /\ phase # "crashed"
  /\ \/ /\ phase # "gone"
        /\ Finds("realtime") \/ Reports("realtime", TRUE) \/ Quarantines("realtime")
                             \/ EtwReports
     \/ \E s \in Scan : Reports(s, scan[s].kind \in ReadsFiles) \/ Quarantines(s)
  /\ UNCHANGED <<uses, phase, pageVars, deleteVars, scanVars, lookupVars, elsewhere>>

User ==
  \/ \E i \in 0..3 : GoToPage(i)
  \/ OnClearHistory \/ OnRestoreQuarantine \/ OnDeleteQuarantine
  \/ AnswersDelete \/ ClosesPartial
  \/ \E s \in Scan, kind \in Kind : OnScan(s, kind)
  \/ OnCancelScan \/ CardLookup \/ RefreshCards \/ RowLookup \/ Investigate \/ Quit

ScanThread(s) ==
  /\ phase # "crashed"
  /\ ScanWorks(s) \/ ScanFinds(s) \/ ScanEnds(s)
  /\ UNCHANGED <<uses, elsewhere>>

Window ==
  /\ \/ ExecutesCall \/ CardAnswered \/ CardShown \/ RowAnswered \/ RowShown
     \/ Investigated \/ WindowDestroyed
  /\ UNCHANGED <<uses, elsewhere>>

Next ==
  \/ Engine \/ Window \/ (User /\ UNCHANGED <<uses, elsewhere>>) \/ Console
  \/ \E s \in Scan : ScanThread(s)

\* Every thread of the process runs on, and the event loop with them; a scan
\* of finite contents comes to its end. Nothing is asked of the user.
Spec ==
  /\ Init /\ [][Next]_vars
  /\ WF_vars(Engine)
  /\ WF_vars(ExecutesCall /\ UNCHANGED <<uses, elsewhere>>)
  /\ \A s \in Scan : WF_vars(ScanThread(s))

-----------------------------------------------------------------------------
Made(rule) == Cardinality({i \in DOMAIN detections : detections[i].rule = rule})
Queued(rule) == Cardinality({i \in DOMAIN queue : queue[i] = Row(rule)})
CallOf == [at \in {"calls", "callsMoved", "callsFailed"} |->
             CASE at = "calls" -> "malware"
               [] at = "callsMoved" -> "SYS.QUARANTINED"
               [] at = "callsFailed" -> "SYS.QUARANTINE_FAILED"]
InFlight(rule) ==
  Cardinality({t \in Thread : doing[t] \in DOMAIN CallOf /\ CallOf[doing[t]] = rule})

\* While the home page is in front, its score and its recent detections are
\* those of the database and the posture as they are, unless a call about the
\* change is still on its way ("so the ring never lies"), or another process has
\* made the change.
HomeTrue ==
  page = 0 /\ phase = "open" /\ ~AnythingUntold /\ elsewhere = "nothing"
    => home = HomeNow

\* The quarantine page lists exactly the records in force, newest first, unless
\* the event of a new one is on its way, a box holds up the refresh or another
\* process has removed one.
TableTrue ==
  page = 2 /\ phase = "open" /\ dialog[1] # "partial" /\ ~QuarantineUntold
    /\ elsewhere # "removed" => table = ListQuarantine(quarantine)

\* The badge never counts a threat that the history table does not list.
BadgeCounted == detection_unread_ <= rows["malware"]

\* A detection made by this process has its row, or the call for it is under way.
EveryDetectionShown ==
  phase = "open" /\ elsewhere # "added" =>
    \A rule \in Stored : Made(rule) <= rows[rule] + Queued(rule) + InFlight(rule)

\* A scan can be cancelled as long as it runs, if no other scan overlapped it and
\* the end of none was still queued when it began.
CancelThere ==
  \A s \in Scan :
    Running(s) /\ ~scan[s].overlapped /\ phase = "open" => cancel_button # "hidden"

\* Scan buttons that are disabled, a cancel button that is there and an answer
\* owed to a cancellation wait for a scan that runs or for the end of one that is
\* queued: no overlapping, and no summary between, leaves them behind for ever.
EndAwaited ==
  phase = "open" /\ (~buttons \/ cancel_button # "hidden" \/ status = "cancelling") =>
    (\E s \in Scan : Running(s)) \/ (\E m \in Range(queue) : m.call = "finished")

\* Only what the user was asked about is deleted, as long as the table is not
\* refilled while the question is open.
DeletedAsAsked == deleted = {} \/ reloaded

\* Only a scan, a lookup of the investigation page, or another lookup past its
\* test can use the window after its end: one whose answer comes while the
\* application quits leaves it alone, and the engine's own threads are joined.
QuitRespected == late \subseteq unguarded \cup {"deleted button"}

\* The pages tell the truth, and do what was asked.
DashboardInv ==
  /\ TypeOK
  /\ HomeTrue /\ TableTrue /\ BadgeCounted /\ EveryDetectionShown
  /\ CancelThere /\ EndAwaited /\ DeletedAsAsked /\ QuitRespected

\* A scan that found something is not reported as clean, unless the history was
\* cleared while it ran or was, when it began, already as long as what is
\* counted of it.
SummaryHonest ==
  \A s \in Scan :
    scan[s].said = "clean" /\ scan[s].found > 0
      => scan[s].cleared \/ scan[s].before = HistoryCap

\* The scan buttons come back, and a cancellation is answered, whatever the
\* scans, their order and their number, unless the user leaves.
SettlesDown ==
  /\ ~buttons ~> (buttons \/ phase # "open")
  /\ status = "cancelling" ~> (status # "cancelling" \/ phase # "open")

\* What the question says ("delete N file(s) for ever"): nothing is deleted that
\* the user was not asked about.
DeletesOnlyAsked == deleted = {}
=============================================================================
