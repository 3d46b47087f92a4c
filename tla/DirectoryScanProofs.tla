------------------------- MODULE DirectoryScanProofs -------------------------
(***************************************************************************)
(* Proofs, for any directory, number of workers and queue length, that a   *)
(* call of ScanDirectory stays in its bounds, that CancelScan stops the    *)
(* workers, and that the call implements the safety part of ScanJob: every *)
(* file at most once, all of them unless cancelled, and a true total.      *)
(*                                                                         *)
(* The argument is an account of the files. While a call runs, each is in  *)
(* exactly one place: not yet listed, in the caller's hand, queued, with a *)
(* worker or scanned (EachInOnePlace). Only a cancellation may lose one    *)
(* (NoneLost), and the flag is raised only by a cancellation (FlagAsked),  *)
(* so that workers of an undisturbed call leave only when all is done.     *)
(* Beside it stands an account of the wakeups (Waits): nobody sleeps past  *)
(* a change of its predicate for longer than the notification is due.      *)
(***************************************************************************)
EXTENDS DirectoryScan, FiniteSetTheorems, TLAPS

InCall == ppc \notin {"idle", "entered"}

\* The flag stands for a cancellation since the call began, and, unless another
\* scan has cleared it, a cancellation raises it.
FlagAsked ==
  /\ ppc = "entered" => ~asked
  /\ InCall /\ scan_cancel => asked
  /\ asked => others \/ scan_cancel

\* The caller holds the lock when it is about to push, and has seen room or the flag.
RoomSeen == ppc = "push" => others \/ scan_cancel \/ Cardinality(q) < kQueueMax

\* The caller and the workers have an entry exactly where the code has one.
HandsFull ==
  /\ hand # NoEntry <=> ppc \in {"offer", "asleep", "push"}
  /\ \A w \in Worker : path[w] # NoEntry <=> wpc[w] \in {"notify", "decide", "scan"}

EachInOnePlace ==
  InCall =>
    /\ todo \cap q = {} /\ todo \cap scanned = {} /\ q \cap scanned = {}
    /\ hand \notin todo \cup q \cup scanned
    /\ \A w \in Worker :
         path[w] # NoEntry =>
           /\ path[w] \notin todo \cup q \cup {hand}
           /\ path[w] \in scanned <=> wpc[w] = "scan"
           /\ \A v \in Worker : path[v] = path[w] => v = w

NoneLost ==
  InCall /\ ~asked =>
    \A e \in Regular : \/ e \in todo \cup q \cup scanned \cup {hand}
                       \/ \E w \in Worker : path[w] = e

\* Nothing is put into the queue after the caller has closed it, and a worker leaves
\* only then.
ClosedForGood ==
  InCall =>
    /\ producer_done <=> ppc \in {"lastNotify", "join"}
    /\ ~asked /\ ppc \in {"close", "lastNotify", "join"} => todo = {}
    /\ ~asked => \A w \in Worker : wpc[w] = "exit" => q = {} /\ producer_done

\* A call begins with the whole listing.
Fresh == ppc = "entered" => todo = Entry /\ scanned = {}

\* The files whose scan is over.
Over == scanned \ {path[w] : w \in {v \in Worker : wpc[v] = "scan"}}

CountTrue == InCall => completed = Cardinality(Over)

Flow == FlagAsked /\ RoomSeen /\ NoWorkerOutlivesCall /\ QueueBounded

Account == HandsFull /\ Fresh /\ EachInOnePlace /\ NoneLost /\ ClosedForGood /\ CountTrue

\* The workers are there as long as the queue holds something: they leave only when it
\* is empty, and what is pushed is pushed before any of them has left.
WorkersThere ==
  InCall =>
    /\ \A w \in Worker : wpc[w] # "off"
    /\ ~others /\ q # {} => \E w \in Worker : wpc[w] # "exit"

\* The notifications that are due: a worker sleeps past a change of its predicate only
\* until the caller has notified, the caller only while the queue is not empty or a
\* worker has yet to notify.
NotifyDue ==
  /\ \A w \in Worker :
       wpc[w] = "asleep" => /\ producer_done => ppc = "lastNotify"
                            /\ q # {} => ppc = "notify"
  /\ ppc = "asleep" => q # {} \/ \E w \in Worker : wpc[w] = "notify"

Waits == WorkersThere /\ NotifyDue

IInv == TypeOK /\ Flow /\ Account /\ Waits

-----------------------------------------------------------------------------
(* Finite sets                                                             *)

LEMMA Finite ==
  ASSUME NEW S \in SUBSET Entry
  PROVE  IsFiniteSet(S) /\ Cardinality(S) \in Nat
BY DirectoryScanAssumption, FS_Subset, FS_CardinalityType

LEMMA OneMore ==
  ASSUME NEW S \in SUBSET Entry, NEW e \in Entry
  PROVE  /\ Cardinality(S \cup {e}) <= Cardinality(S) + 1
         /\ e \notin S => Cardinality(S \cup {e}) = Cardinality(S) + 1
BY Finite, FS_AddElement

LEMMA OneLess ==
  ASSUME NEW S \in SUBSET Entry, NEW e \in Entry
  PROVE  Cardinality(S \ {e}) <= Cardinality(S)
BY Finite, FS_RemoveElement

-----------------------------------------------------------------------------
(* Type correctness                                                        *)

LEMMA InitType == Init => TypeOK
<1> SUFFICES ASSUME Init PROVE TypeOK
  OBVIOUS
<1>1. /\ wpc \in [Worker -> WorkerPc]
      /\ path \in [Worker -> Regular \cup {NoEntry}]
  BY DEF Init, WorkerPc
<1> QED
  BY <1>1 DEF Init, TypeOK, ProducerPc

LEMMA WokenType ==
  ASSUME NEW at \in [Worker -> WorkerPc]
  PROVE  /\ Woken(at) \in [Worker -> WorkerPc]
         /\ \A w \in Worker :
              Woken(at)[w] = IF at[w] = "asleep" THEN "check" ELSE at[w]
<1>1. "check" \in WorkerPc
  BY DEF WorkerPc
<1> QED
  BY <1>1 DEF Woken

LEMMA CallerType ==
  ASSUME TypeOK, HandsFull, Call \/ ProducerStep
  PROVE  TypeOK'
<1> USE DirectoryScanAssumption DEF TypeOK, ProducerPc, producerVars, workerVars
<1>1. CASE Call
  BY <1>1 DEF Call
<1>2. CASE StartWorkers
  BY <1>2 DEF StartWorkers, WorkerPc
<1>3. CASE Iterate
  BY <1>3 DEF Iterate
<1>4. CASE Offer
  BY <1>4 DEF Offer
<1>5. CASE Push
  <2>1. ppc = "push" => q' = q \/ q' = q \cup {hand}
    BY <1>5 DEF Push
  <2>2. ppc = "push" /\ hand \in Regular
    BY <1>5 DEF Push, HandsFull
  <2> QED
    BY <1>5, <2>1, <2>2 DEF Push
<1>6. CASE PushNotify
  BY <1>6, WokenType DEF PushNotify
<1>7. CASE Close
  BY <1>7 DEF Close
<1>8. CASE CloseNotify
  BY <1>8, WokenType DEF CloseNotify
<1>9. CASE Join
  BY <1>9 DEF Join, WorkerPc
<1> QED
  BY <1>1, <1>2, <1>3, <1>4, <1>5, <1>6, <1>7, <1>8, <1>9 DEF ProducerStep

LEMMA WorkerType ==
  ASSUME TypeOK, HandsFull, NEW w \in Worker, WorkerStep(w)
  PROVE  TypeOK'
<1> USE DEF TypeOK, producerVars, workerVars
<1>1. CASE Take(w)
  BY <1>1 DEF Take, WorkerPc
<1>2. CASE TakeNotify(w)
  <2>1. [wpc EXCEPT ![w] = "decide"] \in [Worker -> WorkerPc]
    BY DEF WorkerPc
  <2> QED
    BY <1>2, <2>1, WokenType DEF TakeNotify, ProducerPc
<1>3. CASE Decide(w)
  <2>1. CASE scan_cancel
    BY <1>3, <2>1 DEF Decide, WorkerPc
  <2>2. CASE ~scan_cancel
    BY <1>3, <2>2 DEF Decide, WorkerPc, HandsFull
  <2> QED BY <2>1, <2>2
<1>4. CASE FileDone(w)
  BY <1>4 DEF FileDone, WorkerPc
<1> QED
  BY <1>1, <1>2, <1>3, <1>4 DEF WorkerStep

LEMMA OtherType ==
  ASSUME TypeOK, CancelScan \/ OtherScanStarts \/ SpuriousWakeup \/ UNCHANGED vars
  PROVE  TypeOK'
BY DEF TypeOK, producerVars, workerVars, vars, CancelScan, OtherScanStarts,
       SpuriousWakeup, ProducerPc, WorkerPc

-----------------------------------------------------------------------------
(* The flag, the lock and the queue                                        *)

LEMMA CallerFlow ==
  ASSUME TypeOK, HandsFull, Flow, Call \/ ProducerStep
  PROVE  Flow'
<1> USE DEF TypeOK, Flow, FlagAsked, RoomSeen, NoWorkerOutlivesCall, QueueBounded,
            InCall, producerVars, workerVars
<1>1. CASE Call
  BY <1>1 DEF Call
<1>2. CASE StartWorkers
  <2>1. Cardinality({}) = 0
    BY FS_EmptySet
  <2> QED
    BY <1>2, <2>1, DirectoryScanAssumption DEF StartWorkers
<1>3. CASE Iterate
  BY <1>3 DEF Iterate
<1>4. CASE Offer
  BY <1>4 DEF Offer
<1>5. CASE Push
  <2>1. q \in SUBSET Entry /\ hand \in Entry
    BY <1>5, DirectoryScanAssumption DEF Push, HandsFull
  <2>2. /\ Cardinality(q \cup {hand}) <= Cardinality(q) + 1
        /\ Cardinality(q) \in Nat /\ Cardinality(q \cup {hand}) \in Nat
    BY <2>1, OneMore, Finite
  <2> QED
    BY <1>5, <2>2, DirectoryScanAssumption DEF Push
<1>6. CASE PushNotify
  BY <1>6 DEF PushNotify
<1>7. CASE Close
  BY <1>7 DEF Close
<1>8. CASE CloseNotify
  BY <1>8 DEF CloseNotify
<1>9. CASE Join
  BY <1>9 DEF Join
<1> QED
  BY <1>1, <1>2, <1>3, <1>4, <1>5, <1>6, <1>7, <1>8, <1>9 DEF ProducerStep

LEMMA WorkerFlow ==
  ASSUME TypeOK, Flow, NEW w \in Worker, WorkerStep(w)
  PROVE  Flow'
<1> USE DEF TypeOK, Flow, FlagAsked, RoomSeen, NoWorkerOutlivesCall, QueueBounded,
            InCall, producerVars, workerVars
<1>1. CASE Take(w)
  <2>1. q' = q \/ \E e \in q : q' = q \ {e}
    BY <1>1 DEF Take
  <2>2. Cardinality(q') <= Cardinality(q) /\ Cardinality(q) \in Nat
                                          /\ Cardinality(q') \in Nat
    BY <2>1, OneLess, Finite, DirectoryScanAssumption
  <2>3. InCall /\ ppc # "push" /\ ppc' = ppc
    BY <1>1 DEF Take, Unlocked
  <2> QED
    BY <1>1, <2>2, <2>3, DirectoryScanAssumption DEF Take
<1>2. CASE TakeNotify(w)
  BY <1>2 DEF TakeNotify
<1>3. CASE Decide(w)
  BY <1>3 DEF Decide
<1>4. CASE FileDone(w)
  BY <1>4 DEF FileDone
<1> QED
  BY <1>1, <1>2, <1>3, <1>4 DEF WorkerStep

LEMMA OtherFlow ==
  ASSUME TypeOK, Flow,
         CancelScan \/ OtherScanStarts \/ SpuriousWakeup \/ UNCHANGED vars
  PROVE  Flow'
<1> USE DEF TypeOK, Flow, FlagAsked, RoomSeen, NoWorkerOutlivesCall, QueueBounded,
            InCall, producerVars, workerVars
<1>1. CASE CancelScan
  BY <1>1 DEF CancelScan
<1>2. CASE OtherScanStarts
  BY <1>2 DEF OtherScanStarts
<1>3. CASE SpuriousWakeup
  BY <1>3 DEF SpuriousWakeup
<1>4. CASE UNCHANGED vars
  BY <1>4 DEF vars
<1> QED
  BY <1>1, <1>2, <1>3, <1>4

-----------------------------------------------------------------------------
(* The account of the files: the caller                                    *)

\* A step that moves no file, and moves the threads only between places that hold as
\* much, leaves the account as it is.
LEMMA SameAccount ==
  ASSUME TypeOK, Account, InCall, InCall', TypeOK',
         UNCHANGED <<q, completed, todo, hand, path, scanned, asked>>,
         hand # NoEntry <=> ppc' \in {"offer", "asleep", "push"},
         producer_done' <=> ppc' \in {"lastNotify", "join"},
         producer_done => producer_done',
         ppc' \in {"close", "lastNotify", "join"} =>
           asked \/ todo = {},
         \A w \in Worker :
           \/ wpc'[w] = wpc[w]
           \/ {wpc[w], wpc'[w]} \subseteq {"check", "asleep"}
           \/ {wpc[w], wpc'[w]} \subseteq {"notify", "decide"}
           \/ wpc[w] = "check" /\ wpc'[w] = "exit" /\ (asked \/ (q = {} /\ producer_done))
  PROVE  Account'
<1> USE DEF TypeOK, Account
<1>1. \A w \in Worker : wpc'[w] = "scan" <=> wpc[w] = "scan"
  OBVIOUS
<1>2. HandsFull' /\ Fresh'
  BY DEF HandsFull, Fresh, InCall
<1>3. EachInOnePlace' /\ NoneLost'
  BY <1>1 DEF EachInOnePlace, NoneLost
<1>4. ClosedForGood'
  BY DEF ClosedForGood
<1>5. CountTrue'
  BY <1>1 DEF CountTrue, Over
<1> QED
  BY <1>2, <1>3, <1>4, <1>5

LEMMA CallerAccount ==
  ASSUME IInv, TypeOK', Call \/ ProducerStep
  PROVE  Account'
<1> USE DirectoryScanAssumption DEF IInv, TypeOK, InCall, producerVars, workerVars
<1>1. CASE Call
  BY <1>1 DEF Call, Account, HandsFull, Fresh, EachInOnePlace, NoneLost,
              ClosedForGood, CountTrue
<1>2. CASE StartWorkers
  <2>1. /\ todo' = Entry /\ q' = {} /\ scanned' = {} /\ hand' = NoEntry
        /\ completed' = 0 /\ producer_done' = FALSE /\ ppc' = "iterate"
        /\ \A w \in Worker : wpc'[w] = "check" /\ path'[w] = NoEntry
    BY <1>2 DEF StartWorkers, Account, Fresh, HandsFull, Flow, NoWorkerOutlivesCall
  <2>2. Over' = {} /\ Cardinality({}) = 0
    BY <2>1, FS_EmptySet DEF Over
  <2> QED
    BY <2>1, <2>2 DEF Account, HandsFull, Fresh, EachInOnePlace, NoneLost,
                      ClosedForGood, CountTrue
<1>3. CASE Iterate
  <2>1. /\ UNCHANGED <<q, producer_done, scan_cancel, completed, wpc, path, scanned,
                       asked>>
        /\ ppc = "iterate" /\ hand = NoEntry
    BY <1>3 DEF Iterate, Account, HandsFull
  <2>2. \/ (todo = {} \/ asked) /\ ppc' = "close" /\ UNCHANGED <<todo, hand>>
        \/ \E e \in todo \ Regular :
              todo' = todo \ {e} /\ ppc' = "iterate" /\ UNCHANGED hand
        \/ \E e \in todo \cap Regular :
              todo' = todo \ {e} /\ ppc' = "offer" /\ hand' = e
    BY <1>3 DEF Iterate, Flow, FlagAsked
  <2>3. HandsFull' /\ Fresh' /\ ClosedForGood'
    BY <2>1, <2>2 DEF Account, HandsFull, Fresh, ClosedForGood
  <2>4. EachInOnePlace'
    BY <2>1, <2>2 DEF Account, EachInOnePlace
  <2>5. NoneLost'
    BY <2>1, <2>2 DEF Account, NoneLost
  <2>6. CountTrue'
    BY <2>1, <2>2 DEF Account, CountTrue, Over
  <2> QED
    BY <2>3, <2>4, <2>5, <2>6 DEF Account
<1>4. CASE Offer
  BY <1>4, SameAccount DEF Offer, Account, HandsFull, ClosedForGood
<1>5. CASE Push
  <2>1. /\ UNCHANGED <<producer_done, scan_cancel, completed, todo, wpc, path, scanned,
                       asked>>
        /\ ppc = "push" /\ ppc' = "notify" /\ hand \in Regular /\ hand' = NoEntry
        /\ IF scan_cancel THEN asked /\ q' = q ELSE q' = q \cup {hand}
    BY <1>5 DEF Push, Account, HandsFull, Flow, FlagAsked
  <2>2. HandsFull' /\ Fresh' /\ ClosedForGood'
    BY <2>1 DEF Account, HandsFull, Fresh, ClosedForGood
  <2>3. EachInOnePlace'
    BY <2>1 DEF Account, EachInOnePlace
  <2>4. NoneLost'
    BY <2>1 DEF Account, NoneLost
  <2>5. CountTrue'
    BY <2>1 DEF Account, CountTrue, Over
  <2> QED
    BY <2>2, <2>3, <2>4, <2>5 DEF Account
<1>6. CASE PushNotify
  <2>1. \A w \in Worker : wpc'[w] = IF wpc[w] = "asleep" THEN "check" ELSE wpc[w]
    BY <1>6, WokenType DEF PushNotify
  <2> QED
    BY <1>6, <2>1, SameAccount DEF PushNotify, Account, HandsFull, ClosedForGood
<1>7. CASE Close
  BY <1>7, SameAccount DEF Close, Account, HandsFull, ClosedForGood
<1>8. CASE CloseNotify
  <2>1. \A w \in Worker : wpc'[w] = IF wpc[w] = "asleep" THEN "check" ELSE wpc[w]
    BY <1>8, WokenType DEF CloseNotify
  <2> QED
    BY <1>8, <2>1, SameAccount DEF CloseNotify, Account, HandsFull, ClosedForGood
<1>9. CASE Join
  <2>1. \A w \in Worker : path'[w] = NoEntry
    BY <1>9 DEF Join, Account, HandsFull
  <2> QED
    BY <1>9, <2>1 DEF Join, Account, HandsFull, Fresh, EachInOnePlace, NoneLost,
              ClosedForGood, CountTrue
<1> QED
  BY <1>1, <1>2, <1>3, <1>4, <1>5, <1>6, <1>7, <1>8, <1>9 DEF ProducerStep

-----------------------------------------------------------------------------
(* The account of the files: the workers and the other threads             *)

LEMMA WorkerAccount ==
  ASSUME IInv, TypeOK', NEW w \in Worker, WorkerStep(w)
  PROVE  Account'
<1> USE DirectoryScanAssumption DEF IInv, TypeOK, InCall, producerVars, workerVars
<1>0. InCall
  BY DEF WorkerStep, Take, TakeNotify, Decide, FileDone, Flow, NoWorkerOutlivesCall
<1>1. CASE Take(w) /\ UNCHANGED <<q, path>>
  <2>1. /\ UNCHANGED <<q, producer_done, completed, ppc, todo, hand, path, scanned, asked>>
        /\ wpc[w] = "check" /\ wpc'[w] \in {"asleep", "exit"}
        /\ wpc'[w] = "exit" => asked \/ (q = {} /\ producer_done)
        /\ \A v \in Worker \ {w} : wpc'[v] = wpc[v]
    BY <1>0, <1>1 DEF Take, Flow, FlagAsked
  <2>2. hand # NoEntry <=> ppc \in {"offer", "asleep", "push"}
    BY DEF Account, HandsFull
  <2> QED
    BY <1>0, <2>1, <2>2, SameAccount DEF Account, ClosedForGood
<1>2. CASE Take(w) /\ ~UNCHANGED <<q, path>>
  <2>1. PICK e \in q : /\ q' = q \ {e}
                       /\ path' = [path EXCEPT ![w] = e]
                       /\ wpc' = [wpc EXCEPT ![w] = "notify"]
    BY <1>2 DEF Take
  <2>2. /\ UNCHANGED <<producer_done, completed, ppc, todo, hand, scanned, asked>>
        /\ wpc[w] = "check" /\ path[w] = NoEntry /\ e # NoEntry /\ e \in Regular
    BY <1>2 DEF Take, Account, HandsFull
  <2>3. HandsFull' /\ Fresh' /\ ClosedForGood'
    BY <1>0, <2>1, <2>2 DEF Account, HandsFull, Fresh, ClosedForGood
  <2>4. EachInOnePlace'
    BY <1>0, <2>1, <2>2 DEF Account, EachInOnePlace
  <2>5. NoneLost'
    <3> SUFFICES ASSUME ~asked, NEW f \in Regular,
                        f \notin todo' \cup q' \cup scanned' \cup {hand'}
                 PROVE  \E v \in Worker : path'[v] = f
      BY <2>2 DEF NoneLost
    <3>1. CASE f = e
      BY <2>1, <3>1
    <3>2. CASE f # e
      <4>1. f \notin todo \cup q \cup scanned \cup {hand}
        BY <2>1, <2>2, <3>2
      <4>2. PICK v \in Worker : path[v] = f
        BY <1>0, <4>1 DEF Account, NoneLost
      <4> QED
        BY <2>1, <2>2, <4>2
    <3> QED BY <3>1, <3>2
  <2>6. CountTrue'
    <3>1. Over' = Over
      BY <2>1, <2>2 DEF Over
    <3> QED BY <1>0, <2>2, <3>1 DEF Account, CountTrue
  <2> QED
    BY <2>3, <2>4, <2>5, <2>6 DEF Account
<1>3. CASE TakeNotify(w)
  <2>1. /\ UNCHANGED <<q, producer_done, completed, todo, hand, path, scanned, asked>>
        /\ wpc[w] = "notify"
        /\ ppc' = IF ppc = "asleep" THEN "offer" ELSE ppc
    BY <1>3 DEF TakeNotify
  <2>2. [wpc EXCEPT ![w] = "decide"] \in [Worker -> WorkerPc]
    BY DEF WorkerPc
  <2>3. \A v \in Worker : wpc'[v] = IF v = w THEN "decide"
                                    ELSE IF wpc[v] = "asleep" THEN "check" ELSE wpc[v]
    BY <1>3, <2>2, WokenType DEF TakeNotify
  <2>4. hand # NoEntry <=> ppc \in {"offer", "asleep", "push"}
    BY DEF Account, HandsFull
  <2> QED
    BY <1>0, <2>1, <2>3, <2>4, SameAccount DEF Account, ClosedForGood
<1>4. CASE Decide(w) /\ scan_cancel
  <2>1. /\ UNCHANGED <<q, producer_done, completed, ppc, todo, hand, scanned, asked>>
        /\ wpc[w] = "decide" /\ asked
        /\ wpc' = [wpc EXCEPT ![w] = "check"]
        /\ path' = [path EXCEPT ![w] = NoEntry]
    BY <1>0, <1>4 DEF Decide, Flow, FlagAsked
  <2>2. HandsFull' /\ Fresh' /\ ClosedForGood' /\ NoneLost'
    BY <1>0, <2>1 DEF Account, HandsFull, Fresh, ClosedForGood, NoneLost
  <2>3. EachInOnePlace'
    BY <1>0, <2>1 DEF Account, EachInOnePlace
  <2>4. Over' = Over
    BY <2>1 DEF Over
  <2>5. CountTrue'
    BY <1>0, <2>1, <2>4 DEF Account, CountTrue
  <2> QED
    BY <2>2, <2>3, <2>5 DEF Account
<1>5. CASE Decide(w) /\ ~scan_cancel
  <2>1. /\ UNCHANGED <<q, producer_done, completed, ppc, todo, hand, path, asked>>
        /\ wpc[w] = "decide"
        /\ wpc' = [wpc EXCEPT ![w] = "scan"]
        /\ scanned' = scanned \cup {path[w]}
    BY <1>5 DEF Decide
  <2>2. HandsFull' /\ Fresh' /\ ClosedForGood' /\ NoneLost'
    BY <1>0, <2>1 DEF Account, HandsFull, Fresh, ClosedForGood, NoneLost
  <2>3. path[w] # NoEntry
    BY <2>1 DEF Account, HandsFull
  <2>4. EachInOnePlace'
    BY <1>0, <2>1, <2>3 DEF Account, EachInOnePlace
  <2>5. path[w] \notin scanned
    BY <1>0, <2>1, <2>3 DEF Account, EachInOnePlace
  <2>6. Over' = Over
    BY <2>1, <2>5 DEF Over
  <2>7. CountTrue'
    BY <1>0, <2>1, <2>6 DEF Account, CountTrue
  <2> QED
    BY <2>2, <2>4, <2>7 DEF Account
<1>6. CASE FileDone(w)
  <2>1. /\ UNCHANGED <<q, producer_done, ppc, todo, hand, scanned, asked>>
        /\ completed' = completed + 1
        /\ wpc[w] = "scan"
        /\ wpc' = [wpc EXCEPT ![w] = "check"]
        /\ path' = [path EXCEPT ![w] = NoEntry]
    BY <1>6 DEF FileDone
  <2>2. path[w] # NoEntry /\ path[w] \in scanned
    BY <1>0, <2>1 DEF Account, HandsFull, EachInOnePlace
  <2>3. HandsFull' /\ Fresh' /\ ClosedForGood'
    BY <1>0, <2>1 DEF Account, HandsFull, Fresh, ClosedForGood
  <2>4. EachInOnePlace'
    BY <1>0, <2>1 DEF Account, EachInOnePlace
  <2>5. NoneLost'
    BY <1>0, <2>1, <2>2 DEF Account, NoneLost
  <2>6. path[w] \notin Over /\ Over' = Over \cup {path[w]}
    BY <1>0, <2>1, <2>2 DEF Over, Account, EachInOnePlace
  <2>7. Cardinality(Over \cup {path[w]}) = Cardinality(Over) + 1
    BY <2>2, <2>6, OneMore DEF Over
  <2>8. CountTrue'
    BY <1>0, <2>1, <2>6, <2>7 DEF Account, CountTrue
  <2> QED
    BY <2>3, <2>4, <2>5, <2>8 DEF Account
<1> QED
  BY <1>1, <1>2, <1>3, <1>4, <1>5, <1>6 DEF WorkerStep

LEMMA OtherAccount ==
  ASSUME IInv, TypeOK',
         CancelScan \/ OtherScanStarts \/ SpuriousWakeup \/ UNCHANGED vars
  PROVE  Account'
<1> USE DEF IInv, TypeOK, InCall, producerVars, workerVars
<1>1. CASE CancelScan
  <2>1. /\ UNCHANGED <<q, producer_done, completed, ppc, todo, hand, wpc, path, scanned>>
        /\ asked' \/ ppc = "entered"
    BY <1>1 DEF CancelScan
  <2>2. Over' = Over
    BY <2>1 DEF Over
  <2> QED
    BY <2>1, <2>2 DEF Account, HandsFull, Fresh, EachInOnePlace, NoneLost,
                      ClosedForGood, CountTrue
<1>2. CASE OtherScanStarts \/ UNCHANGED vars
  <2>1. UNCHANGED <<q, producer_done, completed, ppc, todo, hand, wpc, path, scanned,
                    asked>>
    BY <1>2 DEF OtherScanStarts, vars
  <2>2. Over' = Over
    BY <2>1 DEF Over
  <2> QED
    BY <2>1, <2>2 DEF Account, HandsFull, Fresh, EachInOnePlace, NoneLost,
                      ClosedForGood, CountTrue
<1>3. CASE SpuriousWakeup
  <2>1. /\ UNCHANGED <<q, producer_done, completed, todo, hand, path, scanned, asked>>
        /\ ppc' = ppc \/ (ppc = "asleep" /\ ppc' = "offer")
        /\ \A w \in Worker : \/ wpc'[w] = wpc[w]
                             \/ {wpc[w], wpc'[w]} \subseteq {"check", "asleep"}
    BY <1>3 DEF SpuriousWakeup
  <2>2. InCall
    BY <1>3 DEF SpuriousWakeup, Flow, NoWorkerOutlivesCall
  <2>3. hand # NoEntry <=> ppc \in {"offer", "asleep", "push"}
    BY DEF Account, HandsFull
  <2> QED
    BY <2>1, <2>2, <2>3, SameAccount DEF Account, ClosedForGood
<1> QED
  BY <1>1, <1>2, <1>3

-----------------------------------------------------------------------------
(* Who waits, and for whom                                                 *)

LEMMA CallerWaits ==
  ASSUME IInv, Call \/ ProducerStep
  PROVE  Waits'
<1> USE DEF IInv, TypeOK, InCall, producerVars, workerVars, Waits, WorkersThere, NotifyDue
<1>1. CASE Call
  BY <1>1 DEF Call, Flow, NoWorkerOutlivesCall
<1>2. CASE StartWorkers
  BY <1>2 DEF StartWorkers
<1>3. CASE Iterate
  BY <1>3 DEF Iterate
<1>4. CASE Offer
  <2>1. q # {} \/ Cardinality(q) < kQueueMax
    BY FS_EmptySet, DirectoryScanAssumption
  <2> QED
    BY <1>4, <2>1 DEF Offer
<1>5. CASE Push
  <2>1. /\ UNCHANGED <<others, producer_done, wpc>>
        /\ ppc = "push" /\ ppc' = "notify"
        /\ IF scan_cancel THEN q' = q ELSE q' = q \cup {hand}
    BY <1>5 DEF Push
  <2>2. WorkersThere'
    <3>1. CASE scan_cancel
      BY <2>1, <3>1
    <3>2. CASE ~scan_cancel /\ ~others
      <4>1. ~asked /\ ~producer_done
        BY <2>1, <3>2 DEF Flow, FlagAsked, Account, ClosedForGood
      <4>2. \A w \in Worker : wpc[w] # "exit"
        BY <2>1, <4>1 DEF Account, ClosedForGood
      <4> QED
        BY <2>1, <4>2, DirectoryScanAssumption
    <3> QED
      BY <2>1, <3>1, <3>2
  <2>3. NotifyDue'
    BY <2>1
  <2> QED
    BY <2>2, <2>3
<1>6. CASE PushNotify
  <2>1. \A w \in Worker : wpc'[w] = IF wpc[w] = "asleep" THEN "check" ELSE wpc[w]
    BY <1>6, WokenType DEF PushNotify
  <2> QED
    BY <1>6, <2>1 DEF PushNotify
<1>7. CASE Close
  BY <1>7 DEF Close
<1>8. CASE CloseNotify
  <2>1. \A w \in Worker : wpc'[w] = IF wpc[w] = "asleep" THEN "check" ELSE wpc[w]
    BY <1>8, WokenType DEF CloseNotify
  <2> QED
    BY <1>8, <2>1 DEF CloseNotify
<1>9. CASE Join
  BY <1>9 DEF Join
<1> QED
  BY <1>1, <1>2, <1>3, <1>4, <1>5, <1>6, <1>7, <1>8, <1>9 DEF ProducerStep

LEMMA WorkerWaits ==
  ASSUME IInv, NEW w \in Worker, WorkerStep(w)
  PROVE  Waits'
<1> USE DEF IInv, TypeOK, InCall, producerVars, workerVars, Waits, WorkersThere, NotifyDue
<1>0. InCall
  BY DEF WorkerStep, Take, TakeNotify, Decide, FileDone, Flow, NoWorkerOutlivesCall
<1>1. CASE Take(w) /\ UNCHANGED <<q, path>>
  <2>1. /\ wpc[w] = "check" /\ q = {}
        /\ wpc' = [wpc EXCEPT ![w] = "exit"] \/ ( ~producer_done
                                                /\ wpc' = [wpc EXCEPT ![w] = "asleep"])
        /\ UNCHANGED <<others, producer_done, ppc, q>>
    <3>1. ~(\E e \in q : q' = q \ {e})
      BY <1>1
    <3> QED
      BY <1>1, <3>1 DEF Take
  <2> QED
    BY <1>0, <2>1
<1>2. CASE Take(w) /\ ~UNCHANGED <<q, path>>
  <2>1. PICK e \in q : /\ q' = q \ {e}
                       /\ wpc' = [wpc EXCEPT ![w] = "notify"]
    BY <1>2 DEF Take
  <2>2. UNCHANGED <<others, producer_done, ppc>>
    BY <1>2 DEF Take
  <2>3. wpc'[w] = "notify" /\ \A v \in Worker \ {w} : wpc'[v] = wpc[v]
    BY <2>1
  <2> QED
    BY <1>0, <2>1, <2>2, <2>3
<1>3. CASE TakeNotify(w)
  <2>1. /\ UNCHANGED <<others, q, producer_done>>
        /\ wpc[w] = "notify"
        /\ ppc' = IF ppc = "asleep" THEN "offer" ELSE ppc
    BY <1>3 DEF TakeNotify
  <2>2. [wpc EXCEPT ![w] = "decide"] \in [Worker -> WorkerPc]
    BY DEF WorkerPc
  <2>3. \A v \in Worker : wpc'[v] = IF v = w THEN "decide"
                                    ELSE IF wpc[v] = "asleep" THEN "check" ELSE wpc[v]
    BY <1>3, <2>2, WokenType DEF TakeNotify
  <2> QED
    BY <1>0, <2>1, <2>3
<1>4. CASE Decide(w) \/ FileDone(w)
  <2>1. /\ UNCHANGED <<others, q, producer_done, ppc>>
        /\ wpc[w] \in {"decide", "scan"} /\ wpc'[w] \in {"check", "scan"}
        /\ \A v \in Worker \ {w} : wpc'[v] = wpc[v]
    BY <1>4 DEF Decide, FileDone
  <2> QED
    BY <1>0, <2>1
<1> QED
  BY <1>1, <1>2, <1>3, <1>4 DEF WorkerStep

LEMMA OtherWaits ==
  ASSUME IInv, CancelScan \/ OtherScanStarts \/ SpuriousWakeup \/ UNCHANGED vars
  PROVE  Waits'
<1> USE DEF IInv, TypeOK, InCall, producerVars, workerVars, Waits, WorkersThere, NotifyDue
<1>1. CASE CancelScan \/ OtherScanStarts \/ UNCHANGED vars
  <2>1. UNCHANGED <<others, q, producer_done, ppc, wpc>>
    BY <1>1 DEF CancelScan, OtherScanStarts, vars
  <2> QED
    BY <2>1
<1>2. CASE SpuriousWakeup
  <2>1. /\ UNCHANGED <<others, q, producer_done>>
        /\ ppc' = ppc \/ (ppc = "asleep" /\ ppc' = "offer")
        /\ \A w \in Worker : \/ wpc'[w] = wpc[w]
                             \/ wpc[w] = "asleep" /\ wpc'[w] = "check"
    BY <1>2 DEF SpuriousWakeup
  <2> QED
    BY <2>1
<1> QED
  BY <1>1, <1>2

\* What NotifyDue promises is what NoWaitInVain asks for: a queue that is not empty has
\* a worker that is awake.
LEMMA NobodyWaitsInVain == IInv => NoWaitInVain
<1> SUFFICES ASSUME IInv, ppc = "asleep", ~others, q # {}
             PROVE  \E w \in Worker : wpc[w] \in {"notify", "check", "decide", "scan"}
  BY DEF IInv, Waits, NotifyDue, NoWaitInVain
<1>1. PICK w \in Worker : wpc[w] # "exit" /\ wpc[w] # "off"
  BY DEF IInv, Waits, WorkersThere, InCall
<1>2. wpc[w] # "asleep" /\ wpc[w] \in WorkerPc
  BY DEF IInv, TypeOK, Waits, NotifyDue
<1> QED
  BY <1>1, <1>2 DEF WorkerPc

-----------------------------------------------------------------------------
(* The inductive invariant                                                 *)

LEMMA InitInv == Init => IInv
<1> SUFFICES ASSUME Init PROVE IInv
  OBVIOUS
<1>1. Cardinality({}) = 0
  BY FS_EmptySet
<1> QED
  BY <1>1, InitType, DirectoryScanAssumption
     DEF Init, IInv, Flow, FlagAsked, RoomSeen, NoWorkerOutlivesCall, QueueBounded,
         InCall, Account, HandsFull, Fresh, EachInOnePlace, NoneLost, ClosedForGood,
         CountTrue, Waits, WorkersThere, NotifyDue

LEMMA NextInv == IInv /\ [Next]_vars => IInv'
<1> SUFFICES ASSUME IInv, [Next]_vars PROVE IInv'
  OBVIOUS
<1> USE DEF IInv
<1>1. CASE Call \/ ProducerStep
  BY <1>1, CallerType, CallerFlow, CallerAccount, CallerWaits DEF Account
<1>2. ASSUME NEW w \in Worker, WorkerStep(w) PROVE IInv'
  BY <1>2, WorkerType, WorkerFlow, WorkerAccount, WorkerWaits DEF Account
<1>3. CASE CancelScan \/ OtherScanStarts \/ SpuriousWakeup \/ UNCHANGED vars
  BY <1>3, OtherType, OtherFlow, OtherAccount, OtherWaits
<1> QED
  BY <1>1, <1>2, <1>3 DEF Next

LEMMA Invariance == Spec => []IInv
BY InitInv, NextInv, PTL DEF Spec

-----------------------------------------------------------------------------
(* The theorems                                                            *)

\* For any number of workers: the queue of a call that no other scan disturbs does not
\* outgrow its bound, no worker is left when ScanDirectory has returned, and nobody
\* sleeps who is owed no wakeup.
THEOREM CallInvariant == Spec => []CallInv
<1>1. IInv => CallInv
  BY NobodyWaitsInVain DEF IInv, Flow, CallInv
<1> QED
  BY <1>1, Invariance, PTL

\* After CancelScan no worker begins another file, unless another scan has cleared
\* the flag.
THEOREM CancelStopsWorkers == Spec => CancelStops
<1> DEFINE Stops == \A w \in Worker :
                      wpc[w] = "decide" /\ wpc'[w] = "scan" => others \/ ~asked
<1>1. IInv /\ [Next]_vars => [Stops]_vars
  <2> SUFFICES ASSUME IInv, Next, NEW w \in Worker,
                      wpc[w] = "decide", wpc'[w] = "scan"
               PROVE  others \/ ~asked
    OBVIOUS
  <2> USE DEF IInv, TypeOK
  <2>1. ~(Call \/ ProducerStep)
    <3>1. ~(Call \/ Iterate \/ Offer \/ Push \/ Close)
      BY DEF Call, Iterate, Offer, Push, Close, workerVars
    <3>2. ~(StartWorkers \/ Join)
      BY DEF StartWorkers, Join
    <3>3. ~(PushNotify \/ CloseNotify)
      BY WokenType DEF PushNotify, CloseNotify
    <3> QED
      BY <3>1, <3>2, <3>3 DEF ProducerStep
  <2>2. ~(CancelScan \/ OtherScanStarts \/ SpuriousWakeup)
    BY DEF CancelScan, OtherScanStarts, SpuriousWakeup, workerVars
  <2>3. PICK v \in Worker : WorkerStep(v)
    BY <2>1, <2>2 DEF Next
  <2>4. ~TakeNotify(v)
    <3>1. [wpc EXCEPT ![v] = "decide"] \in [Worker -> WorkerPc]
      BY DEF WorkerPc
    <3> QED
      BY <3>1, WokenType DEF TakeNotify
  <2>5. ~(Take(v) \/ FileDone(v))
    BY DEF Take, FileDone
  <2>6. Decide(v) /\ ~scan_cancel
    BY <2>3, <2>4, <2>5 DEF WorkerStep, Decide
  <2> QED
    BY <2>6 DEF Flow, FlagAsked
<1> QED
  BY <1>1, Invariance, PTL DEF Spec, CancelStops

-----------------------------------------------------------------------------
(* The refinement                                                          *)

LEMMA JobInit == Init => Job!Init
BY DEF Init, Job!Init

\* ScanJob counts as DirectoryScan does.
LEMMA SameCardinality == \A S : Job!Cardinality(S) = Cardinality(S)
BY DEF Cardinality, Job!Cardinality

\* The queue, the hands and the places of the threads are nothing to ScanJob.
LEMMA StepStutters ==
  ASSUME UNCHANGED <<others, scanned, asked>>, ppc # "idle", ppc' # "idle"
  PROVE  UNCHANGED Job!vars
BY DEF Job!vars

LEMMA CallerJob ==
  ASSUME IInv, Call \/ ProducerStep
  PROVE  [Job!Next]_Job!vars
<1> USE DEF IInv, TypeOK, producerVars, workerVars
<1>1. CASE Call
  BY <1>1 DEF Call, Job!Next, Job!Call
<1>2. CASE StartWorkers \/ Iterate \/ Offer \/ Push \/ PushNotify \/ Close \/ CloseNotify
  <2>1. UNCHANGED <<others, scanned, asked>> /\ ppc # "idle" /\ ppc' # "idle"
    BY <1>2 DEF StartWorkers, Iterate, Offer, Push, PushNotify, Close, CloseNotify
  <2> QED
    BY <2>1, StepStutters
<1>3. CASE Join
  <2>1. /\ ppc = "join" /\ ppc' = "idle"
        /\ UNCHANGED <<others, completed, scanned, asked>>
        /\ \A w \in Worker : wpc[w] = "exit" /\ path[w] = NoEntry
    BY <1>3 DEF Join, Account, HandsFull
  <2>2. completed = Cardinality(scanned)
    <3>1. Over = scanned
      BY <2>1 DEF Over
    <3> QED
      BY <2>1, <3>1 DEF Account, CountTrue, InCall
  <2>3. ~asked => Regular \ scanned = {}
    <3> SUFFICES ASSUME ~asked, NEW e \in Regular PROVE e \in scanned
      OBVIOUS
    <3>1. todo = {} /\ q = {} /\ hand = NoEntry
      BY <2>1, DirectoryScanAssumption DEF Account, ClosedForGood, HandsFull, InCall
    <3>2. e # NoEntry
      BY DirectoryScanAssumption
    <3> QED
      BY <2>1, <3>1, <3>2 DEF Account, NoneLost, InCall
  <2>4. Regular \ (Regular \ scanned) = scanned
    OBVIOUS
  <2>5. completed = Cardinality(Regular \ (Regular \ scanned))
    BY <2>2, <2>4, Zenon
  <2>6. Job!Return
    BY <2>1, <2>3, <2>5, SameCardinality DEF Job!Return
  <2> QED
    BY <2>6 DEF Job!Next
<1> QED
  BY <1>1, <1>2, <1>3 DEF ProducerStep

LEMMA WorkerJob ==
  ASSUME IInv, NEW w \in Worker, WorkerStep(w)
  PROVE  [Job!Next]_Job!vars
<1> USE DEF IInv, TypeOK, producerVars, workerVars
<1>1. InCall
  BY DEF WorkerStep, Take, TakeNotify, Decide, FileDone, Flow, NoWorkerOutlivesCall,
         InCall
<1>2. CASE Take(w) \/ TakeNotify(w) \/ FileDone(w) \/ (Decide(w) /\ scan_cancel)
  <2>1. UNCHANGED <<others, scanned, asked>> /\ ppc' # "idle"
    BY <1>1, <1>2 DEF Take, TakeNotify, FileDone, Decide, InCall
  <2> QED
    BY <1>1, <2>1, StepStutters DEF InCall
<1>3. CASE Decide(w) /\ ~scan_cancel
  <2>1. /\ wpc[w] = "decide" /\ scanned' = scanned \cup {path[w]}
        /\ UNCHANGED <<others, ppc, completed, asked>>
    BY <1>3 DEF Decide
  <2>2. path[w] \in Regular \ scanned
    BY <1>1, <2>1, DirectoryScanAssumption DEF Account, HandsFull, EachInOnePlace
  <2>3. Regular \ scanned' = (Regular \ scanned) \ {path[w]}
    BY <2>1
  <2> QED
    BY <1>1, <2>1, <2>2, <2>3 DEF Job!Next, Job!ScanOneFile, InCall
<1> QED
  BY <1>2, <1>3 DEF WorkerStep

LEMMA OtherJob ==
  ASSUME IInv, CancelScan \/ OtherScanStarts \/ SpuriousWakeup \/ UNCHANGED vars
  PROVE  [Job!Next]_Job!vars
<1> USE DEF IInv, TypeOK, producerVars, workerVars
<1>1. CASE CancelScan
  BY <1>1 DEF CancelScan, Flow, FlagAsked, Job!Next, Job!Cancel, Job!vars
<1>2. CASE OtherScanStarts \/ SpuriousWakeup
  <2>1. UNCHANGED <<others, scanned, asked>> /\ ppc # "idle" /\ ppc' # "idle"
    BY <1>2 DEF OtherScanStarts, SpuriousWakeup, Flow, NoWorkerOutlivesCall
  <2> QED
    BY <2>1, StepStutters
<1>3. CASE UNCHANGED vars
  BY <1>3 DEF vars, Job!vars
<1> QED
  BY <1>1, <1>2, <1>3

\* Every step of ScanDirectory is a step of ScanJob or none: each regular file is
\* scanned at most once, and a call returns, with the count of the files it scanned,
\* only when it has scanned all of them or was cancelled. (That it does return is
\* left to the model checker.)
THEOREM ScanIsAJob == Spec => Job!Init /\ [][Job!Next]_Job!vars
<1>1. IInv /\ [Next]_vars => [Job!Next]_Job!vars
  <2> SUFFICES ASSUME IInv, [Next]_vars PROVE [Job!Next]_Job!vars
    OBVIOUS
  <2>1. ASSUME NEW w \in Worker, WorkerStep(w) PROVE [Job!Next]_Job!vars
    BY <2>1, WorkerJob
  <2> QED
    BY <2>1, CallerJob, OtherJob DEF Next
<1> QED
  BY <1>1, JobInit, Invariance, PTL DEF Spec
=============================================================================
