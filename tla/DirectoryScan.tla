---------------------------- MODULE DirectoryScan ----------------------------
(***************************************************************************)
(* Engine::ScanDirectory (src/src/engine/src/engine.cpp): the calling      *)
(* thread walks the directory and feeds a bounded queue, worker threads    *)
(* scan what they take from it, one mutex and one condition variable guard *)
(* the queue, and scan_cancel is an atomic flag that any thread may set    *)
(* and that every kind of scan clears when it begins.                      *)
(*                                                                         *)
(* A critical section that reads scan_cancel once is one action; where it  *)
(* reads the flag twice (Offer, Push) it is two, with the lock held in     *)
(* between. Waiting is explicit: a thread that found its predicate false   *)
(* sleeps until some notify_all, so a missing notification is a hang. The  *)
(* queue is a set: no property depends on which queued path is taken next. *)
(***************************************************************************)
EXTENDS Naturals, FiniteSets

CONSTANTS
  Entry,      \* what the directory iterator yields
  Regular,    \* the entries that are regular files
  Worker,     \* min(4, hardware_concurrency()) worker threads
  kQueueMax,
  NoEntry

ASSUME DirectoryScanAssumption ==
  /\ Regular \subseteq Entry
  /\ IsFiniteSet(Entry)
  /\ IsFiniteSet(Worker) /\ Worker # {}
  /\ kQueueMax \in Nat \ {0}
  /\ NoEntry \notin Entry

VARIABLES
  others,   \* may other scans of this engine start during a call?
  q, producer_done, scan_cancel, completed,
  ppc,      \* where the calling thread is
  todo,     \* entries the iterator has yet to yield
  hand,     \* the entry the calling thread is about to enqueue
  wpc,      \* where each worker is
  path,     \* the entry each worker has taken
  scanned,  \* history: files whose scan has begun in this call
  asked     \* history: CancelScan() was called since the flag was cleared

producerVars == <<ppc, todo, hand>>
workerVars == <<wpc, path, scanned>>
vars == <<others, q, producer_done, scan_cancel, completed, producerVars,
          workerVars, asked>>

-----------------------------------------------------------------------------
ProducerPc == {"idle", "entered", "iterate", "offer", "asleep", "push",
               "notify", "close", "lastNotify", "join"}
WorkerPc == {"off", "check", "asleep", "notify", "decide", "scan", "exit"}

\* Only regular files get into the queue.
TypeOK ==
  /\ others \in BOOLEAN
  /\ q \subseteq Regular
  /\ producer_done \in BOOLEAN
  /\ scan_cancel \in BOOLEAN
  /\ completed \in Nat
  /\ ppc \in ProducerPc
  /\ todo \subseteq Entry
  /\ hand \in Regular \cup {NoEntry}
  /\ wpc \in [Worker -> WorkerPc]
  /\ path \in [Worker -> Regular \cup {NoEntry}]
  /\ scanned \subseteq Regular
  /\ asked \in BOOLEAN

Init ==
  /\ others \in BOOLEAN
  /\ q = {} /\ producer_done = FALSE /\ scan_cancel = FALSE /\ completed = 0
  /\ ppc = "idle" /\ todo = {} /\ hand = NoEntry
  /\ wpc = [w \in Worker |-> "off"]
  /\ path = [w \in Worker |-> NoEntry]
  /\ scanned = {} /\ asked = FALSE

\* notify_all on q_cv: workers re-check their predicate, and so does a calling
\* thread that sleeps; `at` is wpc as the notifying thread leaves it.
Woken(at) == [w \in Worker |-> IF at[w] = "asleep" THEN "check" ELSE at[w]]

-----------------------------------------------------------------------------
(* The calling thread                                                      *)

Call ==
  /\ ppc = "idle"
  /\ ppc' = "entered"
  /\ todo' = Entry
  /\ scanned' = {}
  /\ asked' = FALSE
  /\ UNCHANGED <<others, q, producer_done, scan_cancel, completed, hand, wpc,
                 path>>

\* Variant: an earlier cancellation is not forgotten.
Start_KeepsCancel ==
  /\ ppc = "entered"
  /\ q' = {} /\ producer_done' = FALSE /\ completed' = 0
  /\ wpc' = [w \in Worker |-> "check"]
  /\ ppc' = "iterate"
  /\ UNCHANGED <<others, scan_cancel, todo, hand, path, scanned, asked>>

\* Forget any earlier cancellation, then create the workers.
StartWorkers ==
  /\ ppc = "entered"
  /\ scan_cancel' = FALSE
  /\ q' = {} /\ producer_done' = FALSE /\ completed' = 0
  /\ wpc' = [w \in Worker |-> "check"]
  /\ ppc' = "iterate"
  /\ UNCHANGED <<others, todo, hand, path, scanned, asked>>

\* The loop over the iterator: stop on cancellation or at the end, skip what is
\* not a regular file.
Iterate ==
  /\ ppc = "iterate"
  /\ \/ /\ todo = {} \/ scan_cancel
        /\ ppc' = "close" /\ UNCHANGED <<todo, hand>>
     \/ /\ ~scan_cancel
        /\ \E e \in todo :
             /\ todo' = todo \ {e}
             /\ IF e \in Regular THEN ppc' = "offer" /\ hand' = e
                                 ELSE UNCHANGED <<ppc, hand>>
  /\ UNCHANGED <<others, q, producer_done, scan_cancel, completed, workerVars,
                 asked>>

\* Lock, and wait for room or cancellation.
Offer ==
  /\ ppc = "offer"
  /\ ppc' = IF Cardinality(q) < kQueueMax \/ scan_cancel THEN "push"
                                                         ELSE "asleep"
  /\ UNCHANGED <<others, q, producer_done, scan_cancel, completed, todo, hand,
                 workerVars, asked>>

\* Still under the lock: push unless cancelled by now. Unlock.
Push ==
  /\ ppc = "push"
  /\ q' = IF scan_cancel THEN q ELSE q \cup {hand}
  /\ hand' = NoEntry
  /\ ppc' = "notify"
  /\ UNCHANGED <<others, producer_done, scan_cancel, completed, todo,
                 workerVars, asked>>

PushNotify ==
  /\ ppc = "notify"
  /\ wpc' = Woken(wpc)
  /\ ppc' = "iterate"
  /\ UNCHANGED <<others, q, producer_done, scan_cancel, completed, todo, hand,
                 path, scanned, asked>>

Close ==
  /\ ppc = "close"
  /\ producer_done' = TRUE
  /\ ppc' = "lastNotify"
  /\ UNCHANGED <<others, q, scan_cancel, completed, todo, hand, workerVars,
                 asked>>

\* Variant: the last notify_all is forgotten.
CloseNotify_Forgotten ==
  /\ ppc = "lastNotify"
  /\ ppc' = "join"
  /\ UNCHANGED <<others, q, producer_done, scan_cancel, completed, todo, hand,
                 workerVars, asked>>

CloseNotify ==
  /\ ppc = "lastNotify"
  /\ wpc' = Woken(wpc)
  /\ ppc' = "join"
  /\ UNCHANGED <<others, q, producer_done, scan_cancel, completed, todo, hand,
                 path, scanned, asked>>

\* Variant: the workers are not joined.
Join_Skipped ==
  /\ ppc = "join"
  /\ ppc' = "idle"
  /\ wpc' = [w \in Worker |-> IF wpc[w] = "exit" THEN "off" ELSE wpc[w]]
  /\ UNCHANGED <<others, q, producer_done, scan_cancel, completed, todo, hand,
                 path, scanned, asked>>

\* join() every worker, report completed as the total, return.
Join ==
  /\ ppc = "join"
  /\ \A w \in Worker : wpc[w] = "exit"
  /\ ppc' = "idle"
  /\ wpc' = [w \in Worker |-> "off"]
  /\ UNCHANGED <<others, q, producer_done, scan_cancel, completed, todo, hand,
                 path, scanned, asked>>

-----------------------------------------------------------------------------
(* The workers                                                             *)

\* q_mutex is free: only Push begins with the calling thread holding it.
Unlocked == ppc # "push"

\* Under the lock: wait for a path, the end or cancellation; leave when the
\* queue is empty, even if that is because of the cancellation.
Take(w) ==
  /\ wpc[w] = "check"
  /\ Unlocked
  /\ \/ /\ q = {} /\ (producer_done \/ scan_cancel)
        /\ wpc' = [wpc EXCEPT ![w] = "exit"] /\ UNCHANGED <<q, path>>
     \/ /\ q = {} /\ ~producer_done /\ ~scan_cancel
        /\ wpc' = [wpc EXCEPT ![w] = "asleep"] /\ UNCHANGED <<q, path>>
     \/ \E e \in q : /\ q' = q \ {e}
                     /\ path' = [path EXCEPT ![w] = e]
                     /\ wpc' = [wpc EXCEPT ![w] = "notify"]
  /\ UNCHANGED <<others, producer_done, scan_cancel, completed, producerVars,
                 scanned, asked>>

TakeNotify(w) ==
  /\ wpc[w] = "notify"
  /\ wpc' = Woken([wpc EXCEPT ![w] = "decide"])
  /\ ppc' = IF ppc = "asleep" THEN "offer" ELSE ppc
  /\ UNCHANGED <<others, q, producer_done, scan_cancel, completed, todo, hand,
                 path, scanned, asked>>

\* Variant: the flag is only looked at while waiting.
Decide_Unchecked(w) ==
  /\ wpc[w] = "decide"
  /\ wpc' = [wpc EXCEPT ![w] = "scan"]
  /\ scanned' = scanned \cup {path[w]}
  /\ UNCHANGED <<others, q, producer_done, scan_cancel, completed,
                 producerVars, path, asked>>

\* A cancelled worker drops the path and goes round again.
Decide(w) ==
  /\ wpc[w] = "decide"
  /\ IF scan_cancel
       THEN /\ wpc' = [wpc EXCEPT ![w] = "check"]
            /\ path' = [path EXCEPT ![w] = NoEntry]
            /\ UNCHANGED scanned
       ELSE /\ wpc' = [wpc EXCEPT ![w] = "scan"]
            /\ scanned' = scanned \cup {path[w]}
            /\ UNCHANGED path
  /\ UNCHANGED <<others, q, producer_done, scan_cancel, completed,
                 producerVars, asked>>

\* ScanOneFile returns.
FileDone(w) ==
  /\ wpc[w] = "scan"
  /\ completed' = completed + 1
  /\ wpc' = [wpc EXCEPT ![w] = "check"]
  /\ path' = [path EXCEPT ![w] = NoEntry]
  /\ UNCHANGED <<others, q, producer_done, scan_cancel, producerVars, scanned,
                 asked>>

-----------------------------------------------------------------------------
(* Other threads                                                           *)

\* CancelScan() only sets the flag; it notifies nobody. A call that is still
\* before its StartWorkers loses it.
CancelScan ==
  /\ ppc # "idle"
  /\ scan_cancel' = TRUE
  /\ asked' = (ppc # "entered")
  /\ UNCHANGED <<others, q, producer_done, completed, producerVars, workerVars>>

\* ScanPersistence, ScanAllProcesses or a second ScanDirectory begins, and
\* clears the flag all of them share.
OtherScanStarts ==
  /\ others
  /\ ppc # "idle"
  /\ scan_cancel' = FALSE
  /\ UNCHANGED <<others, q, producer_done, completed, producerVars, workerVars,
                 asked>>

\* C++ condition variables may wake for no reason.
SpuriousWakeup ==
  \/ /\ ppc = "asleep" /\ ppc' = "offer"
     /\ UNCHANGED <<others, q, producer_done, scan_cancel, completed, todo,
                    hand, workerVars, asked>>
  \/ \E w \in Worker :
       /\ wpc[w] = "asleep" /\ wpc' = [wpc EXCEPT ![w] = "check"]
       /\ UNCHANGED <<others, q, producer_done, scan_cancel, completed,
                      producerVars, path, scanned, asked>>

ProducerStep == \/ StartWorkers \/ Iterate \/ Offer \/ Push \/ PushNotify
                \/ Close \/ CloseNotify \/ Join

WorkerStep(w) == Take(w) \/ TakeNotify(w) \/ Decide(w) \/ FileDone(w)

Next == \/ Call
        \/ ProducerStep
        \/ \E w \in Worker : WorkerStep(w)
        \/ CancelScan \/ OtherScanStarts \/ SpuriousWakeup

\* The scheduler runs every thread that can run, and every file scan ends.
\* Nobody has to call, cancel or start another scan; no wakeup is spurious.
Fairness == WF_vars(ProducerStep) /\ \A w \in Worker : WF_vars(WorkerStep(w))

Spec == Init /\ [][Next]_vars /\ Fairness

-----------------------------------------------------------------------------
(* Properties                                                              *)

\* The bounded queue stays bounded, whatever is cancelled. (When other scans
\* clear the flag between the look at it and the push, it may exceed its bound.)
QueueBounded == others \/ Cardinality(q) <= kQueueMax

\* No worker outlives the call whose locals (queue, mutex, flags) it refers to.
NoWorkerOutlivesCall ==
  ppc \in {"idle", "entered"} => \A w \in Worker : wpc[w] = "off"

\* Whoever sleeps is owed a wakeup. Workers are asleep when there is something to do,
\* or nothing left to do, only until the notify_all that is already due; and for a
\* caller that waits for room some worker is about to notify it, or awake with the
\* queue not empty, so that it will. (A scan that clears the flag can leave the
\* caller waiting with every worker gone.)
NoWaitInVain ==
  /\ \A w \in Worker :
       wpc[w] = "asleep" => /\ producer_done => ppc = "lastNotify"
                            /\ q # {} => ppc = "notify"
  /\ ppc = "asleep" /\ ~others =>
       \E w \in Worker : \/ wpc[w] = "notify"
                         \/ q # {} /\ wpc[w] \in {"check", "decide", "scan"}

\* The state of the call stays in order: its queue does not outgrow kQueueMax, no
\* worker is left when ScanDirectory has returned, and nobody sleeps who is owed
\* no wakeup.
CallInv == TypeOK /\ QueueBounded /\ NoWorkerOutlivesCall /\ NoWaitInVain

\* Once CancelScan has been called, no worker begins another file, as long as
\* no other scan clears the flag.
CancelStops ==
  [][\A w \in Worker :
       wpc[w] = "decide" /\ wpc'[w] = "scan" => others \/ ~asked]_vars

\* A call that no other scan disturbs returns: no thread waits for a
\* notification that never comes, although CancelScan notifies nobody.
CallReturns == (ppc = "entered" /\ ~others) ~> (ppc = "idle")

\* "The scan will stop after the current file finishes": a cancelled call
\* returns.
CancelledCallReturns == (asked /\ ppc # "idle") ~> (ppc = "idle")

\* The call implements what ScanJob promises: every file once and, if nobody
\* cancelled, all of them, a true total, and a return.
Job == INSTANCE ScanJob
         WITH alone <- ~others,
              active <- ppc # "idle",
              pending <- IF ppc = "idle" THEN {} ELSE Regular \ scanned,
              cancelled <- asked,
              total <- IF ppc = "idle" THEN completed ELSE 0
JobSpec == Job!Spec
=============================================================================
