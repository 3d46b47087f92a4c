--------------------------- MODULE RealtimeProofs ---------------------------
(***************************************************************************)
(* Proofs about the two halves of real-time protection.                    *)
(*                                                                         *)
(* The engine (Realtime), for any folders, files and images: what is found *)
(* reaches the callback from one thread at a time, and a stopped engine    *)
(* has no thread left but detached scans. The first needs that whoever is  *)
(* in the callback holds the mutex. The second is a matter of the order of *)
(* Stop(): what is joined at one point is not started again after it, not  *)
(* even when ~Engine stops once more, and the watcher has no thread        *)
(* without a handle it joins for.                                          *)
(*                                                                         *)
(* The driver and its client (Minifilter), for any number of threads and   *)
(* any files: the driver never sends on a closed port and never asks the   *)
(* pump about the pump's own files, and an answered open was answered for  *)
(* its own file (which the driver acts on if the reply has its header).    *)
(* These are not inductive by themselves: a reply is delivered to the      *)
(* thread that `message' names, so that thread must still be waiting. That *)
(* it is, is what the time-out of FltSendMessage, the reply and the death  *)
(* of the client keep true; FilterIInv adds it.                            *)
(***************************************************************************)
EXTENDS Realtime, Minifilter, FiniteSetTheorems, SequenceTheorems, TLAPS

-----------------------------------------------------------------------------
(* The engine                                                              *)

Quiet == {"none", "ended"}

\* Whoever is in the callback holds the mutex, and whoever holds it is there.
Holder ==
  /\ \/ emit_mutex_ = None
     \/ emit_mutex_ \in Folder /\ watch[emit_mutex_] = "emits"
     \/ emit_mutex_ \in Image /\ detached[emit_mutex_] = "emits"
     \/ emit_mutex_ = "etw" /\ etw[1] = "emits"
  /\ \A f \in Folder : watch[f] = "emits" => emit_mutex_ = f
  /\ \A i \in Image : detached[i] = "emits" => emit_mutex_ = i
  /\ etw[1] = "emits" => emit_mutex_ = "etw"

\* A thread of the watcher that runs has a handle, and one that handles a change
\* has it in its batch.
WatcherOK ==
  \A f \in Folder :
    /\ watch[f] \in Quiet \/ f \in handles
    /\ watch[f] \in {"scan", "waits", "emits"} => batch[f] # <<>>

\* What the trace's thread judges is an image, and only an image it has seen has a
\* thread of its own.
EtwOK ==
  /\ etw[1] \in {"judging", "waits", "emits", "spawns"} => etw[2] \in Image
  /\ \A i \in Image : detached[i] # "none" => i \in etw_scanned_paths

\* What is left where Stop() has come, and where it comes a second time.
AfterWatcher == {"etwStop", "etwJoin", "minifilterStop", "stopped", "freed"}
AfterEtw == {"minifilterStop", "stopped", "freed"}
Stopping == {"stop", "watcherStop", "watcherJoin", "freed"} \cup AfterWatcher

Lifecycle ==
  /\ destroying => host \in Stopping \ {"stopped"}
  /\ asleep => host = "sleeps"
  /\ host = "watcherJoin" => ~running
  /\ destroying \/ host \in AfterWatcher \cup {"ready"} => handles = {}
  /\ destroying \/ host \in AfterEtw \cup {"ready", "etwThread"} => etw[1] \in Quiet
  /\ destroying \/ host = "ready" => parts = {}
  /\ host \in {"watcherStop", "watcherJoin"} => "schedule" \notin parts
  /\ host \in {"etwStop", "etwJoin"} => parts \subseteq {"etw", "minifilter", "monitors"}
  /\ host = "minifilterStop" => parts \subseteq {"minifilter", "monitors"}
  /\ host \in {"stopped", "freed"} => parts = {}

IInv == TypeOK /\ Holder /\ WatcherOK /\ EtwOK /\ Lifecycle

-----------------------------------------------------------------------------
(* What the watcher, the kernel and other programs keep                    *)

LEMMA InitOK == Init => IInv
<1> SUFFICES ASSUME Init PROVE IInv
  OBVIOUS
<1> USE DEF Init, WatcherInit
<1>1. TypeOK
  <2>1. WatcherTypeOK
    <3>1. <<>> \in Seq(Change) /\ Len(<<>>) <= BufferSize /\ 0 \in 0..MaxVersion
      BY WatcherAssumption, EmptySeq DEF WatcherAssumption
    <3> QED BY <3>1 DEF WatcherTypeOK
  <2> QED BY <2>1 DEF TypeOK, Part
<1>2. Holder /\ WatcherOK /\ EtwOK
  BY DEF Holder, WatcherOK, EtwOK, Quiet, None
<1>3. Lifecycle
  BY DEF Lifecycle, Quiet, Stopping, AfterWatcher, AfterEtw, None
<1> QED BY <1>1, <1>2, <1>3 DEF IInv

\* Every change is of some path.
LEMMA PathsOfChanges ==
  ASSUME NEW s \in Seq(Change)
  PROVE  /\ PathsOf(s) \subseteq Path
         /\ s # <<>> => Head(s).path \in Path /\ Tail(s) \in Seq(Change)
<1>1. PathsOf(s) \subseteq Path
  <2>1. \A i \in DOMAIN s : s[i] \in Change
    BY ElementOfSeq, LenProperties
  <2> QED BY <2>1 DEF PathsOf, Change
<1>2. s # <<>> => Head(s) \in Change /\ Tail(s) \in Seq(Change)
  BY HeadTailProperties
<1> QED BY <1>1, <1>2 DEF Change

LEMMA WatcherThreadType ==
  ASSUME TypeOK, WatcherOK, NEW f \in Folder, WatcherThread(f)
  PROVE  WatcherTypeOK'
<1> USE DEF TypeOK, WatcherTypeOK, kernelVars, fileVars
<1>1. CASE TestsRunning(f)
  BY <1>1 DEF TestsRunning
<1>2. CASE CallsRead(f)
  BY <1>2 DEF CallsRead
<1>3. CASE ReadReturns(f)
  <2>1. <<>> \in Seq(Change) /\ Len(<<>>) <= BufferSize
    BY WatcherAssumption, EmptySeq DEF WatcherAssumption
  <2> QED BY <1>3, <2>1 DEF ReadReturns, Entries
<1>4. CASE Reports(f)
  BY <1>4, PathsOfChanges DEF Reports
<1>5. CASE HoldsBack(f)
  <2>1. Head(batch[f]).path \in Path /\ Tail(batch[f]) \in Seq(Change)
    BY <1>5, PathsOfChanges DEF HoldsBack
  <2> QED BY <1>5, <2>1 DEF HoldsBack, Drops
<1>6. CASE BatchHandled(f)
  BY <1>6 DEF BatchHandled
<1>7. CASE Scans(f)
  <2>1. batch[f] # <<>>
    BY <1>7 DEF Scans, WatcherOK
  <2>2. Head(batch[f]).path \in Path /\ Tail(batch[f]) \in Seq(Change)
    BY <2>1, PathsOfChanges
  <2>3. watch' \in [Folder -> {"none", "test", "call", "pending", "handle", "scan",
                              "waits", "emits", "ended"}]
    BY <1>7 DEF Scans
  <2>4. batch' \in [Folder -> Seq(Change)]
    BY <1>7, <2>2 DEF Scans
  <2>5. scanned' \in [Path -> 0..MaxVersion] /\ missed' \subseteq Path
    BY <1>7, <2>2 DEF Scans
  <2> QED BY <1>7, <2>3, <2>4, <2>5 DEF Scans
<1>8. CASE CannotOpen(f)
  <2>1. batch[f] # <<>>
    BY <1>8 DEF CannotOpen, WatcherOK
  <2>2. Head(batch[f]).path \in Path /\ Tail(batch[f]) \in Seq(Change)
    BY <2>1, PathsOfChanges
  <2> QED BY <1>8, <2>2 DEF CannotOpen, Drops
<1> QED BY <1>1, <1>2, <1>3, <1>4, <1>5, <1>6, <1>7, <1>8 DEF WatcherThread

\* A thread of the watcher goes its way while the engine stays as it is: it neither
\* enters the callback nor starts again after its end.
LEMMA WatcherThreadOK ==
  ASSUME IInv, NEW f \in Folder, WatcherThread(f), UNCHANGED engineVars
  PROVE  IInv'
<1> USE DEF IInv
<1>1. TypeOK'
  BY WatcherThreadType DEF TypeOK, engineVars
<1>2. /\ handles' = handles /\ running' = running
      /\ watch[f] \notin Quiet
      /\ watch[f] # "emits" /\ watch'[f] # "emits"
      /\ watch'[f] \in {"scan", "waits", "emits"} => batch'[f] # <<>>
      /\ \A g \in Folder \ {f} : watch'[g] = watch[g] /\ batch'[g] = batch[g]
  BY DEF WatcherThread, TestsRunning, CallsRead, ReadReturns, Reports, HoldsBack,
         BatchHandled, Scans, CannotOpen, Drops, TypeOK, WatcherTypeOK, WatcherOK, Quiet
<1>3. Holder'
  <2>1. UNCHANGED <<emit_mutex_, detached, etw>>
    BY DEF engineVars
  <2>2. \A g \in Folder : watch'[g] = "emits" <=> watch[g] = "emits"
    BY <1>2
  <2> QED BY <2>1, <2>2 DEF Holder
<1>4. WatcherOK' /\ EtwOK'
  BY <1>2 DEF WatcherOK, EtwOK, Quiet, engineVars
<1>5. Lifecycle'
  BY <1>2 DEF Lifecycle, engineVars
<1> QED BY <1>1, <1>3, <1>4, <1>5

\* Writing and waiting change nothing of the threads.
LEMMA FileWrittenType ==
  ASSUME TypeOK, NEW p \in Path, FileWritten(p)
  PROVE  WatcherTypeOK'
<1> USE DEF TypeOK, WatcherTypeOK, kernelVars, fileVars
<1> DEFINE f == FolderOf[p]
<1>1. f \in Folder
  BY WatcherAssumption DEF WatcherAssumption
<1>2. /\ version' \in [Path -> 0..MaxVersion]
      /\ UNCHANGED <<running, handles, watch, batch, collecting, last_fired, cancelled, scanned>>
  BY WatcherAssumption DEF FileWritten, WatcherAssumption
<1>3. CASE GoesUnseen(p)
  BY <1>2, <1>3 DEF GoesUnseen
<1>4. ASSUME NEW kind \in {"written", "renamed"}, IsCollected(p, kind) PROVE WatcherTypeOK'
  <2> DEFINE c == [path |-> p, kind |-> kind]
  <2>1. c \in Change
    BY DEF Change
  <2>2. /\ Append(changes[f], c) \in Seq(Change)
        /\ Len(Append(changes[f], c)) = Len(changes[f]) + 1
    BY <1>1, <2>1, AppendProperties
  <2>3. Len(changes[f]) \in Nat
    BY <1>1, LenProperties
  <2>4. /\ changes' = [changes EXCEPT ![f] = Append(@, c)] /\ Len(changes[f]) < BufferSize
        /\ missed' = missed \ {p} /\ overflown' = overflown
    BY <1>4 DEF IsCollected
  <2>5. Append(changes[f], c) \in Seq(Change) /\ Len(Append(changes[f], c)) <= BufferSize
    BY <2>2, <2>3, <2>4, WatcherAssumption DEF WatcherAssumption
  <2> QED BY <1>1, <1>2, <2>4, <2>5
<1>5. CASE Overflows(p)
  <2>1. <<>> \in Seq(Change) /\ Len(<<>>) <= BufferSize
    BY WatcherAssumption, EmptySeq DEF WatcherAssumption
  <2>2. PathsOf(changes[f]) \subseteq Path
    BY <1>1, PathsOfChanges
  <2> QED BY <1>1, <1>2, <1>5, <2>1, <2>2 DEF Overflows
<1> QED BY <1>3, <1>4, <1>5 DEF FileWritten

LEMMA OthersOK ==
  ASSUME IInv, UNCHANGED engineVars, NEW p \in Path, FileWritten(p) \/ WindowEnds(p)
  PROVE  IInv'
<1>1. TypeOK'
  <2>1. WatcherTypeOK'
    <3>1. CASE FileWritten(p)
      BY <3>1, FileWrittenType DEF IInv
    <3>2. CASE WindowEnds(p)
      BY <3>2 DEF WindowEnds, IInv, TypeOK, WatcherTypeOK, kernelVars, fileVars
    <3> QED BY <3>1, <3>2
  <2> QED BY <2>1 DEF IInv, TypeOK, engineVars
<1>2. UNCHANGED <<running, watch, handles, batch>>
  BY DEF FileWritten, WindowEnds
<1>3. UNCHANGED <<emit_mutex_, detached, etw, etw_scanned_paths, host, destroying, parts,
                  asleep>>
  BY DEF engineVars
<1>4. Holder' /\ WatcherOK' /\ EtwOK'
  BY <1>2, <1>3 DEF IInv, Holder, WatcherOK, EtwOK
<1>5. Lifecycle'
  BY <1>2, <1>3 DEF IInv, Lifecycle
<1> QED BY <1>1, <1>4, <1>5 DEF IInv

-----------------------------------------------------------------------------
(* Into the callback and out of it                                         *)

\* The mutex is free: nobody is in the callback, and its new holder may enter.
LEMMA NobodyEmits ==
  ASSUME Holder, emit_mutex_ = None
  PROVE  /\ \A f \in Folder : watch[f] # "emits"
         /\ \A i \in Image : detached[i] # "emits"
         /\ etw[1] # "emits"
BY ThreadAssumption DEF Holder, None, ThreadAssumption

LEMMA WatcherEmitsOK ==
  ASSUME IInv, NEW f \in Folder, WatcherEmits(f)
  PROVE  IInv'
<1> USE DEF IInv
<1>1. TypeOK'
  <2>1. watch[f] = "emits" => batch[f] # <<>>
    BY DEF WatcherOK
  <2>2. batch[f] # <<>> => Tail(batch[f]) \in Seq(Change)
    BY PathsOfChanges DEF TypeOK, WatcherTypeOK
  <2>3. /\ watch' \in [Folder -> {"none", "test", "call", "pending", "handle", "scan",
                                 "waits", "emits", "ended"}]
        /\ emit_mutex_' \in Folder \cup Image \cup {"etw", None}
    BY DEF WatcherEmits, CallbackReturns, TypeOK, WatcherTypeOK
  <2>4. batch' \in [Folder -> Seq(Change)]
    BY <2>1, <2>2 DEF WatcherEmits, CallbackReturns, TypeOK, WatcherTypeOK
  <2> QED BY <2>3, <2>4 DEF WatcherEmits, TypeOK, WatcherTypeOK, kernelVars, fileVars
<1>2. Holder'
  <2>1. CASE emit_mutex_ = None
    BY <2>1, NobodyEmits, ThreadAssumption
       DEF WatcherEmits, Holder, TypeOK, WatcherTypeOK, None, ThreadAssumption
  <2>2. CASE emit_mutex_ # None
    <3>1. watch[f] = "emits" /\ emit_mutex_' = None /\ CallbackReturns(f)
      BY <2>2 DEF WatcherEmits, MayEmit
    <3>2. emit_mutex_ = f /\ f \notin Image /\ f # "etw"
      BY <3>1, ThreadAssumption DEF Holder, ThreadAssumption
    <3>3. watch'[f] = "handle" /\ \A g \in Folder \ {f} : watch'[g] = watch[g]
      BY <3>1 DEF CallbackReturns, TypeOK, WatcherTypeOK
    <3> QED BY <3>2, <3>3 DEF Holder, WatcherEmits
  <2> QED BY <2>1, <2>2
<1>3. WatcherOK' /\ EtwOK'
  BY DEF WatcherEmits, CallbackReturns, WatcherOK, EtwOK, TypeOK, WatcherTypeOK, Quiet
<1>4. Lifecycle'
  BY DEF WatcherEmits, Lifecycle
<1> QED BY <1>1, <1>2, <1>3, <1>4

LEMMA DetachedScansOK ==
  ASSUME IInv, NEW i \in Image, DetachedScans(i)
  PROVE  IInv'
<1> USE DEF IInv
<1>0. UNCHANGED watcherVars
  BY DEF DetachedScans
<1>1. TypeOK'
  <2>1. WatcherTypeOK'
    BY <1>0 DEF TypeOK, WatcherTypeOK, watcherVars, kernelVars, fileVars
  <2> QED BY <2>1 DEF DetachedScans, TypeOK
<1>2. Holder'
  <2>1. CASE emit_mutex_ = None
    BY <1>0, <2>1, NobodyEmits DEF DetachedScans, Holder, TypeOK, watcherVars
  <2>2. CASE emit_mutex_ # None
    BY <1>0, <2>2, ThreadAssumption
       DEF DetachedScans, MayEmit, Holder, TypeOK, watcherVars, ThreadAssumption
  <2> QED BY <2>1, <2>2
<1>3. WatcherOK' /\ EtwOK'
  <2>1. \A j \in Image : detached'[j] # "none" => detached[j] # "none"
    BY DEF DetachedScans, TypeOK
  <2> QED BY <1>0, <2>1 DEF DetachedScans, WatcherOK, EtwOK, watcherVars
<1>4. Lifecycle'
  BY <1>0 DEF DetachedScans, Lifecycle, watcherVars
<1> QED BY <1>1, <1>2, <1>3, <1>4

\* The trace's thread, whether it follows one more process or is being stopped.
LEMMA EtwThreadOK ==
  ASSUME IInv, EtwThread \/ \E i \in Image : ProcessStarted(i)
  PROVE  IInv'
<1> USE DEF IInv, EtwThread, SessionStarts, StatusDelivered, Judges, Spawns, TraceEnds,
            ProcessStarted, EtwGoes
<1>0. /\ UNCHANGED <<watcherVars, host, destroying, parts, trace_stop,
                     g_stop_requested, asleep, ctrl>>
      /\ etw[1] \notin Quiet
  BY DEF Quiet
<1>1. TypeOK'
  <2>1. WatcherTypeOK'
    BY <1>0 DEF TypeOK, WatcherTypeOK, watcherVars, kernelVars, fileVars
  <2>2. etw' \in {"none", "starting", "tracing", "judging", "waits",
                 "emits", "spawns", "status", "ended"} \X (Image \cup {None})
    BY DEF TypeOK
  <2>3. /\ etw_scanned_paths' \subseteq Image
        /\ detached' \in [Image -> {"none", "scan", "waits", "emits", "ended"}]
        /\ emit_mutex_' \in Folder \cup Image \cup {"etw", None}
    BY DEF TypeOK, EtwOK
  <2> QED BY <1>0, <2>1, <2>2, <2>3 DEF TypeOK
<1>2. Holder'
  <2>1. CASE emit_mutex_ = None
    BY <1>0, <2>1, NobodyEmits DEF Holder, TypeOK, watcherVars
  <2>2. CASE emit_mutex_ # None
    <3>1. watch' = watch /\ (etw'[1] = "emits" => etw[1] = "emits")
      BY <1>0, <2>2 DEF MayEmit, TypeOK, watcherVars
    <3>2. CASE etw[1] = "emits"
      <4>1. emit_mutex_ = "etw"
        BY <3>2 DEF Holder
      <4>2. emit_mutex_' = None /\ detached' = detached /\ etw'[1] = "spawns"
        BY <3>2
      <4> QED
        BY <3>1, <4>1, <4>2, ThreadAssumption DEF Holder, ThreadAssumption
    <3>3. CASE etw[1] # "emits"
      <4>1. emit_mutex_' = emit_mutex_ /\ emit_mutex_ # "etw"
        BY <2>2, <3>3, ThreadAssumption DEF MayEmit, Holder, ThreadAssumption
      <4>2. \A i \in Image : detached'[i] = "emits" <=> detached[i] = "emits"
        <5>1. detached' = detached \/ \E i \in Image \ etw_scanned_paths :
                                      detached' = [detached EXCEPT ![i] = "scan"]
          BY DEF EtwOK
        <5> QED BY <5>1 DEF EtwOK, TypeOK
      <4> QED
        BY <3>1, <3>3, <4>1, <4>2 DEF Holder
    <3> QED BY <3>2, <3>3
  <2> QED BY <2>1, <2>2
<1>3. WatcherOK' /\ EtwOK'
  BY <1>0 DEF WatcherOK, EtwOK, TypeOK, watcherVars
<1>4. Lifecycle'
  BY <1>0 DEF Lifecycle, watcherVars
<1> QED BY <1>1, <1>2, <1>3, <1>4

-----------------------------------------------------------------------------
(* Start, wait, stop                                                       *)

\* What the host does, apart from the watcher, to the threads of the engine.
LEMMA HostOK ==
  ASSUME IInv, Host \/ Notifies \/ CtrlC
  PROVE  IInv'
<1> USE DEF IInv, HostGoes
<1>1. ASSUME StartsWatcher PROVE IInv'
  <2>1. /\ host = "ready" /\ host' = "etwThread" /\ ~destroying /\ ~asleep
        /\ handles = {} /\ parts = {} /\ etw[1] \in Quiet
    BY <1>1 DEF StartsWatcher, Lifecycle, Stopping, AfterWatcher
  <2>2. /\ \A f \in Folder : watch'[f] \in {"test", "none", "ended"}
        /\ \A f \in Folder : watch'[f] \in Quiet \/ f \in handles'
        /\ watch' \in [Folder -> {"none", "test", "ended"}]
        /\ handles' \subseteq Folder /\ running' = TRUE
        /\ UNCHANGED <<batch, kernelVars, last_fired, cancelled, fileVars>>
    BY <1>1, <2>1 DEF StartsWatcher, StartsWatching, WatcherOK, TypeOK, WatcherTypeOK, Quiet
  <2>3. TypeOK'
    BY <1>1, <2>1, <2>2 DEF StartsWatcher, TypeOK, WatcherTypeOK, kernelVars, fileVars, Part
  <2>4. Holder'
    <3>1. \A f \in Folder : watch[f] # "emits" /\ watch'[f] # "emits"
      BY <2>1, <2>2 DEF WatcherOK, Quiet
    <3>2. UNCHANGED <<emit_mutex_, detached, etw>>
      BY <1>1 DEF StartsWatcher
    <3> QED BY <3>1, <3>2 DEF Holder
  <2>5. WatcherOK' /\ EtwOK'
    BY <1>1, <2>2 DEF StartsWatcher, WatcherOK, EtwOK, Quiet
  <2>6. Lifecycle'
    BY <1>1, <2>1 DEF StartsWatcher, Lifecycle, Stopping, AfterWatcher, AfterEtw
  <2> QED BY <2>3, <2>4, <2>5, <2>6
<1>2. ASSUME UNCHANGED <<watcherVars, detached, emit_mutex_, etw_scanned_paths>>, TypeOK', EtwOK', Lifecycle',
             etw' = etw \/ "emits" \notin {etw[1], etw'[1]}
      PROVE  IInv'
  BY <1>2 DEF Holder, WatcherOK, watcherVars
<1>3. UNCHANGED watcherVars => WatcherTypeOK'
  BY DEF TypeOK, WatcherTypeOK, watcherVars, kernelVars, fileVars
<1>4. ASSUME StartsEtw \/ StartsMinifilter \/ StartsRest PROVE IInv'
  <2> USE <1>4 DEF StartsEtw, StartsMinifilter, StartsRest
  <2>0. etw' = etw \/ "emits" \notin {etw[1], etw'[1]}
    BY DEF Lifecycle, Quiet
  <2>1. TypeOK'
    <3>1. host' \in {"status", "report", "tests"}
      OBVIOUS
    <3>2. parts' \subseteq Part
      BY DEF TypeOK, Part
    <3>3. etw' \in {"none", "starting", "tracing", "judging", "waits",
                   "emits", "spawns", "status", "ended"} \X (Image \cup {None})
      BY DEF TypeOK
    <3> QED BY <1>3, <3>1, <3>2, <3>3 DEF TypeOK
  <2>2. EtwOK' /\ Lifecycle'
    BY DEF EtwOK, Lifecycle, Stopping, AfterWatcher, AfterEtw, Quiet, watcherVars
  <2> QED BY <1>2, <2>0, <2>1, <2>2
<1>5. ASSUME TestsRequest \/ Sleeps \/ CtrlC \/ Notifies PROVE IInv'
  <2> USE <1>5 DEF TestsRequest, Sleeps, CtrlC, Notifies
  <2>1. TypeOK'
    BY <1>3 DEF TypeOK
  <2>2. EtwOK' /\ Lifecycle'
    BY DEF EtwOK, Lifecycle, Stopping, AfterWatcher, AfterEtw, Quiet, watcherVars
  <2> QED BY <1>2, <2>1, <2>2
<1>6. ASSUME StopsSchedule \/ StopsEtw \/ JoinsEtw \/ StopsRest \/ Destroys PROVE IInv'
  <2> USE DEF StopsSchedule, StopsEtw, JoinsEtw, StopsRest, Destroys
  <2>1. TypeOK'
    BY <1>3, <1>6 DEF TypeOK
  <2>2. EtwOK'
    BY <1>6 DEF EtwOK
  <2>3. Lifecycle'
    <3> USE DEF Lifecycle, Stopping, AfterWatcher, AfterEtw, Quiet, watcherVars
    <3>1. CASE StopsSchedule
      BY <3>1
    <3>2. CASE StopsEtw
      BY <3>2
    <3>3. CASE JoinsEtw
      BY <3>3
    <3>4. CASE StopsRest
      BY <3>4
    <3>5. CASE Destroys
      BY <3>5
    <3> QED BY <1>6, <3>1, <3>2, <3>3, <3>4, <3>5
  <2> QED BY <1>2, <1>6, <2>1, <2>2, <2>3
<1>7. ASSUME StopsWatcher PROVE IInv'
  <2> USE <1>7 DEF StopsWatcher, LowersRunning
  <2>1. TypeOK'
    BY DEF TypeOK, WatcherTypeOK, kernelVars, fileVars
  <2>2. Holder' /\ WatcherOK' /\ EtwOK' /\ Lifecycle'
    BY DEF Holder, WatcherOK, EtwOK, Lifecycle, Stopping, AfterWatcher, AfterEtw, Quiet
  <2> QED BY <2>1, <2>2
<1>8. ASSUME CancelsWatcher PROVE IInv'
  <2> USE <1>8 DEF CancelsWatcher, CancelsReads, CancelIoEx, engineVars
  <2>1. /\ \A f \in Folder : watch'[f] = watch[f] \/ watch'[f] = "ended"
        /\ watch' \in [Folder -> {"none", "test", "call", "pending", "handle", "scan",
                                  "waits", "emits", "ended"}]
        /\ cancelled' \subseteq Folder
    BY DEF TypeOK, WatcherTypeOK
  <2>2. TypeOK'
    BY <2>1 DEF TypeOK, WatcherTypeOK, kernelVars, fileVars
  <2>3. Holder' /\ WatcherOK' /\ EtwOK' /\ Lifecycle'
    BY <2>1 DEF Holder, WatcherOK, EtwOK, Lifecycle, Quiet
  <2> QED BY <2>2, <2>3
<1>9. ASSUME JoinsWatcher PROVE IInv'
  <2> USE <1>9 DEF JoinsWatcher, ClosesHandles
  <2>1. TypeOK'
    <3>1. <<>> \in Seq(Change) /\ Len(<<>>) <= BufferSize
      BY WatcherAssumption, EmptySeq DEF WatcherAssumption
    <3> QED BY <3>1 DEF TypeOK, WatcherTypeOK
  <2>2. Holder' /\ EtwOK'
    BY DEF Holder, EtwOK
  <2>3. WatcherOK'
    BY DEF WatcherOK, MayClose, AllEnded, Quiet
  <2>4. Lifecycle'
    BY DEF Lifecycle, Stopping, AfterWatcher, AfterEtw, TypeOK, Part
  <2> QED BY <2>1, <2>2, <2>3, <2>4
<1> QED BY <1>1, <1>4, <1>5, <1>6, <1>7, <1>8, <1>9 DEF Host

-----------------------------------------------------------------------------
LEMMA Inductive == Spec => []IInv
<1>1. IInv /\ [Next]_vars => IInv'
  <2> SUFFICES ASSUME IInv, [Next]_vars PROVE IInv'
    OBVIOUS
  <2>1. CASE Host \/ Notifies \/ CtrlC
    BY <2>1, HostOK
  <2>2. CASE EtwThread \/ \E i \in Image : ProcessStarted(i)
    BY <2>2, EtwThreadOK
  <2>3. ASSUME NEW p \in Path, FileWritten(p) \/ WindowEnds(p), UNCHANGED engineVars
        PROVE  IInv'
    BY <2>3, OthersOK
  <2>4. ASSUME NEW f \in Folder, Watcher(f) PROVE IInv'
    BY <2>4, WatcherThreadOK, WatcherEmitsOK DEF Watcher
  <2>5. ASSUME NEW i \in Image, DetachedScans(i) PROVE IInv'
    BY <2>5, DetachedScansOK
  <2>6. CASE UNCHANGED vars
    BY <2>6 DEF vars, watcherVars, engineVars, kernelVars, fileVars, IInv, TypeOK,
                WatcherTypeOK, Holder, WatcherOK, EtwOK, Lifecycle
  <2> QED BY <2>1, <2>2, <2>3, <2>4, <2>5, <2>6 DEF Next, World
<1> QED BY <1>1, InitOK, PTL DEF Spec

(***************************************************************************)
(* Stop() leaves nothing behind but detached scans, called by the host or  *)
(* once more by ~Engine, and wherever it comes upon the threads.           *)
(***************************************************************************)
THEOREM EngineInvariant == Spec => []EngineInv
<1>1. IInv => EngineInv
  <2> SUFFICES ASSUME IInv PROVE EngineInv
    OBVIOUS
  <2>1. OnlyScansOutlive
    BY DEF IInv, WatcherOK, Lifecycle, AfterWatcher, AfterEtw, Quiet, OnlyScansOutlive
  <2>2. WaitsForSomeone
    BY DEF IInv, Holder, Lifecycle, InCallback, WaitsForSomeone
  <2> QED BY <2>1, <2>2 DEF IInv, EngineInv
<1> QED BY <1>1, Inductive, PTL

(***************************************************************************)
(* However many folders are watched and images scanned, what they find     *)
(* reaches the callback one at a time.                                     *)
(***************************************************************************)
THEOREM OneAtATime == Spec => []CallbackSerialised
<1>1. IInv => CallbackSerialised
  <2> SUFFICES ASSUME IInv PROVE Cardinality(InCallback) <= 1
    BY DEF CallbackSerialised
  <2>1. InCallback \subseteq {emit_mutex_}
    BY DEF IInv, Holder, InCallback
  <2>2. IsFiniteSet({emit_mutex_}) /\ Cardinality({emit_mutex_}) = 1
    BY FS_Singleton
  <2> QED BY <2>1, <2>2, FS_Subset
<1> QED BY <1>1, Inductive, PTL

-----------------------------------------------------------------------------
(* The driver and its client                                               *)

\* The notification that the pump has in its hands is of a thread that waits.
MessageAwaited == message # NoThread => opc[message] = "wait"

\* What is known of a thread: it sends and acts on answers only while the port is
\* recorded, is not the pump if it waits, opens some file if it opens at all, and
\* was answered for that file.
ThreadOK(t) ==
  /\ opc[t] \in {"wait", "allowed", "denied"} => gClientPort
  /\ t = Pump => opc[t] \in {"idle", "lock", "held"}
  /\ opc[t] # "idle" => file[t] \in File
  /\ opc[t] \in {"allowed", "denied"} =>
       /\ reply[t].verdict = "Block" <=> Malign(file[t])
       /\ opc[t] = "denied" <=> Malign(file[t]) /\ reply[t].header

FilterIInv == FilterTypeOK /\ MessageAwaited /\ \A t \in Thread : ThreadOK(t)

-----------------------------------------------------------------------------
(* What the operators do                                                   *)

OpensTyped ==
  /\ opc \in [Thread -> OpenPc]
  /\ file \in [Thread -> File \cup {NoFile}]
  /\ reply \in [Thread -> Reply]

OthersStay(t) ==
  \A u \in Thread \ {t} :
    opc'[u] = opc[u] /\ file'[u] = file[u] /\ reply'[u] = reply[u]

LEMMA GoesTo ==
  ASSUME FilterTypeOK, NEW t \in Thread, NEW pc \in OpenPc, Goes(t, pc)
  PROVE  /\ OpensTyped' /\ OthersStay(t)
         /\ opc'[t] = pc /\ file' = file /\ reply' = reply
BY DEF FilterTypeOK, Goes, OpensTyped, OthersStay

LEMMA ReturnsToCaller ==
  ASSUME FilterTypeOK, NEW t \in Thread, Returns(t)
  PROVE  OpensTyped' /\ OthersStay(t) /\ opc'[t] = "idle"
BY DEF FilterTypeOK, Returns, OpenPc, OpensTyped, OthersStay, Reply, Zeroed

\* A reply that is delivered ends the thread's wait, and is acted on if it has a header.
LEMMA DeliveredTo ==
  ASSUME FilterTypeOK, NEW t \in Thread, NEW v \in {"Allow", "Block"}, Delivered(t, v)
  PROVE  /\ OpensTyped' /\ OthersStay(t)
         /\ opc'[t] \in {"allowed", "denied"} /\ file' = file /\ reply'[t].verdict = v
         /\ opc'[t] = "denied" <=> v = "Block" /\ reply'[t].header
<1>1. PICK stripped \in BOOLEAN :
        LET r == [header |-> ~stripped, verdict |-> v]
        IN  /\ reply' = [reply EXCEPT ![t] = r]
            /\ opc' = [opc EXCEPT ![t] = IF Payload(r) = "Block" THEN "denied" ELSE "allowed"]
            /\ UNCHANGED file
  BY MinifilterAssumption DEF Delivered
<1>2. [header |-> ~stripped, verdict |-> v] \in Reply
  BY DEF Reply
<1> QED
  BY <1>1, <1>2 DEF FilterTypeOK, OpensTyped, OthersStay, OpenPc, Payload

\* An answer fits the file it is about, however the path was carried.
LEMMA AnswerRight ==
  ASSUME NEW f \in File
  PROVE  Answer(f) \in {"Allow", "Block"} /\ (Answer(f) = "Block" <=> Malign(f))
BY DEF Answer, DevicePathToWin32, FilePath, Malign

-----------------------------------------------------------------------------
(* How ThreadOK is kept                                                    *)

\* A step that moves one thread, and leaves the port, keeps what is known of every
\* thread if it keeps it of that one.
LEMMA OneThreadMoves ==
  ASSUME NEW t \in Thread, \A u \in Thread : ThreadOK(u),
         gClientPort' = gClientPort, ThreadOK(t)',
         OthersStay(t)
  PROVE  \A u \in Thread : ThreadOK(u)'
<1> SUFFICES ASSUME NEW u \in Thread, u # t PROVE ThreadOK(u)'
  OBVIOUS
<1> QED BY DEF ThreadOK, OthersStay

\* So does one that moves no thread and closes no port.
LEMMA NoThreadMoves ==
  ASSUME \A t \in Thread : ThreadOK(t), UNCHANGED openVars,
         gClientPort => gClientPort'
  PROVE  \A t \in Thread : ThreadOK(t)'
BY DEF ThreadOK, openVars

\* Nothing is to be said of a thread that opens nothing.
LEMMA IdleOK ==
  ASSUME NEW t \in Thread, opc'[t] = "idle" PROVE ThreadOK(t)'
BY DEF ThreadOK

\* While nobody holds the lock, nobody waits and no answer is pending.
LEMMA NobodyHolds ==
  ASSUME FilterTypeOK, MessageAwaited, Holders = {}
  PROVE  /\ \A t \in Thread : opc[t] \notin {"wait", "allowed", "denied"}
         /\ message = NoThread
BY MinifilterAssumption DEF FilterTypeOK, MessageAwaited, Holders, Thread

-----------------------------------------------------------------------------
(* The inductive invariant                                                 *)

LEMMA FilterInitInv == FilterInit => FilterIInv
<1>1. Zeroed \in Reply
  BY DEF Reply, Zeroed
<1> QED
  BY <1>1, MinifilterAssumption
     DEF FilterInit, FilterIInv, FilterTypeOK, MessageAwaited, ThreadOK, OpenPc, Thread

\* The steps inside AvmfPreCreate.
LEMMA CreateKeeps ==
  ASSUME FilterIInv, NEW t \in Thread,
         Open(t) \/ AcquireShared(t) \/ CreateStep(t)
  PROVE  FilterIInv'
<1> USE MinifilterAssumption DEF FilterIInv
<1>1. CASE Open(t)
  <2>1. PICK f \in File : file' = [file EXCEPT ![t] = f]
    BY <1>1 DEF Open
  <2>2. /\ opc' = [opc EXCEPT ![t] = "lock"] /\ opc[t] = "idle"
        /\ UNCHANGED <<reply, driverVars, link, clientVars, pumpVars>>
    BY <1>1 DEF Open
  <2>3. FilterTypeOK'
    BY <2>1, <2>2 DEF FilterTypeOK, OpenPc, driverVars, clientVars, pumpVars
  <2>4. MessageAwaited'
    BY <2>2 DEF FilterTypeOK, MessageAwaited, pumpVars
  <2>5. ThreadOK(t)'
    BY <2>1, <2>2 DEF FilterTypeOK, ThreadOK
  <2>6. OthersStay(t)
    BY <2>1, <2>2 DEF FilterTypeOK, OthersStay
  <2> QED
    BY <2>2, <2>3, <2>4, <2>5, <2>6, OneThreadMoves DEF driverVars
<1>2. CASE AcquireShared(t)
  <2>1. /\ opc[t] = "lock" /\ Goes(t, "held")
        /\ UNCHANGED <<driverVars, link, clientVars, pumpVars>>
    BY <1>2 DEF AcquireShared
  <2>2. /\ OpensTyped' /\ OthersStay(t)
        /\ opc'[t] = "held" /\ file' = file
    BY <2>1, GoesTo DEF OpenPc
  <2>3. FilterTypeOK'
    BY <2>1, <2>2 DEF FilterTypeOK, OpensTyped, driverVars, clientVars, pumpVars
  <2>4. MessageAwaited'
    BY <2>1, <2>2 DEF FilterTypeOK, OpensTyped, OthersStay, MessageAwaited, pumpVars
  <2>5. ThreadOK(t)'
    BY <2>1, <2>2 DEF ThreadOK
  <2> QED
    BY <2>1, <2>2, <2>3, <2>4, <2>5, OneThreadMoves DEF driverVars
<1>3. CASE Send(t) /\ Goes(t, "wait")
  <2>1. /\ opc[t] = "held" /\ gClientPort
        /\ ~(gClientProcessId = "client" /\ t = Pump)
        /\ UNCHANGED <<driverVars, link, clientVars, pumpVars>>
    BY <1>3 DEF Send, Goes, Returns, FilterTypeOK
  <2>2. /\ OpensTyped' /\ OthersStay(t)
        /\ opc'[t] = "wait" /\ file' = file
    BY <1>3, GoesTo DEF OpenPc
  <2>3. FilterTypeOK'
    BY <2>1, <2>2 DEF FilterTypeOK, OpensTyped, driverVars, clientVars, pumpVars
  <2>4. MessageAwaited'
    BY <2>1, <2>2 DEF FilterTypeOK, OpensTyped, OthersStay, MessageAwaited, pumpVars
  <2>5. t # Pump
    BY <2>1 DEF FilterTypeOK
  <2>6. ThreadOK(t)'
    BY <2>1, <2>2, <2>5 DEF ThreadOK, driverVars
  <2> QED
    BY <2>1, <2>2, <2>3, <2>4, <2>6, OneThreadMoves DEF driverVars
<1>4. CASE (Send(t) \/ Unanswered(t) \/ Finish(t)) /\ Returns(t)
  <2>1. /\ opc[t] # "idle"
        /\ UNCHANGED <<driverVars, link, clientVars, pump>>
        /\ \/ opc[t] # "wait" /\ UNCHANGED message
           \/ Forget(t)
    BY <1>4 DEF Send, Unanswered, Finish, pumpVars
  <2>2. OpensTyped' /\ OthersStay(t) /\ opc'[t] = "idle"
    BY <1>4, ReturnsToCaller
  <2>3. FilterTypeOK'
    BY <2>1, <2>2 DEF FilterTypeOK, OpensTyped, driverVars, clientVars, Forget
  <2>4. MessageAwaited'
    BY <2>1, <2>2 DEF FilterTypeOK, OpensTyped, OthersStay, MessageAwaited, Forget
  <2>5. ThreadOK(t)'
    BY <2>2, IdleOK
  <2> QED
    BY <2>1, <2>2, <2>3, <2>4, <2>5, OneThreadMoves DEF driverVars
<1>5. Send(t) => Goes(t, "wait") \/ Returns(t)
  BY DEF Send
<1>6. Unanswered(t) \/ Finish(t) => Returns(t)
  BY DEF Unanswered, Finish
<1> QED
  BY <1>1, <1>2, <1>3, <1>4, <1>5, <1>6 DEF CreateStep

\* The callbacks and the loading of the driver.
LEMMA DriverKeeps ==
  ASSUME FilterIInv,
         AvmfConnect \/ AvmfDisconnect \/ AvmfUnload \/ UnloadEnds \/ DriverEntry
  PROVE  FilterIInv'
<1> USE DEF FilterIInv
<1>1. CASE AvmfConnect
  <2>1. gClientPort' /\ UNCHANGED openVars
    BY <1>1 DEF AvmfConnect
  <2>2. FilterTypeOK' /\ MessageAwaited'
    BY <1>1 DEF AvmfConnect, FilterTypeOK, MessageAwaited, openVars
  <2> QED
    BY <2>1, <2>2, NoThreadMoves
<1>2. CASE AvmfDisconnect
  <2>1. /\ Holders = {} /\ UNCHANGED <<openVars, message>>
    BY <1>2 DEF AvmfDisconnect, pumpVars
  <2>2. FilterTypeOK' /\ MessageAwaited'
    BY <1>2 DEF AvmfDisconnect, FilterTypeOK, MessageAwaited, openVars, clientVars, pumpVars
  <2>3. \A t \in Thread : ThreadOK(t)'
    BY <2>1, NobodyHolds DEF ThreadOK, openVars
  <2> QED
    BY <2>2, <2>3
<1>3. CASE AvmfUnload \/ UnloadEnds \/ DriverEntry
  <2>1. UNCHANGED <<gClientPort, openVars>>
    BY <1>3 DEF AvmfUnload, UnloadEnds, DriverEntry
  <2>2. FilterTypeOK' /\ MessageAwaited'
    BY <1>3 DEF AvmfUnload, UnloadEnds, DriverEntry, FilterTypeOK, MessageAwaited,
                openVars, clientVars, pumpVars
  <2> QED
    BY <2>1, <2>2, NoThreadMoves
<1> QED
  BY <1>1, <1>2, <1>3

\* Start(), Stop() and the death of the client's process.
LEMMA ClientKeeps ==
  ASSUME FilterIInv, Start \/ Stop \/ CloseStep \/ Crash
  PROVE  FilterIInv'
<1> USE MinifilterAssumption DEF FilterIInv
<1>1. CASE Start \/ Stop \/ CloseStep
  <2>1. UNCHANGED <<driverVars, openVars, message>>
    BY <1>1 DEF Start, Stop, CloseStep, PortClosed, PumpJoined, PumpAbandoned,
                pumpVars
  <2>2. FilterTypeOK'
    <3>1. CASE Start \/ Stop
      BY <2>1, <3>1 DEF Start, Stop, FilterTypeOK, driverVars, openVars, pumpVars
    <3>2. CASE CloseStep
      BY <2>1, <3>2 DEF CloseStep, PortClosed, PumpJoined, PumpAbandoned,
                FilterTypeOK, driverVars, openVars, pumpVars
    <3> QED
      BY <1>1, <3>1, <3>2
  <2>3. MessageAwaited'
    BY <2>1 DEF MessageAwaited, openVars
  <2> QED
    BY <2>1, <2>2, <2>3, NoThreadMoves DEF driverVars
<1>2. CASE Crash
  <2>1. /\ message' = NoThread /\ Pump \in Thread /\ UNCHANGED driverVars
        /\ Returns(Pump)
    BY <1>2 DEF Crash, Thread
  <2>2. OpensTyped' /\ OthersStay(Pump) /\ opc'[Pump] = "idle"
    BY <2>1, ReturnsToCaller
  <2>3. FilterTypeOK'
    BY <1>2, <2>1, <2>2 DEF Crash, FilterTypeOK, OpensTyped, driverVars
  <2>4. MessageAwaited'
    BY <2>1 DEF MessageAwaited
  <2>5. ThreadOK(Pump)'
    BY <2>1, <2>2, IdleOK
  <2> QED
    BY <2>1, <2>2, <2>3, <2>4, <2>5, OneThreadMoves DEF driverVars
<1> QED
  BY <1>1, <1>2

\* Pump().
LEMMA PumpKeeps ==
  ASSUME FilterIInv,
         \/ GetMessage \/ GetFails \/ CheckStop \/ EngineAnswers
         \/ ReplyMessage \/ PumpEnds
  PROVE  FilterIInv'
<1> USE MinifilterAssumption DEF FilterIInv
<1>1. CASE GetMessage
  <2>1. PICK t \in Thread : opc[t] = "wait" /\ message' = t
    BY <1>1 DEF GetMessage
  <2>2. /\ pump' = "got"
        /\ UNCHANGED <<driverVars, link, openVars, clientVars>>
    BY <1>1 DEF GetMessage
  <2>3. FilterTypeOK' /\ MessageAwaited'
    BY <2>1, <2>2 DEF FilterTypeOK, MessageAwaited, driverVars, openVars, clientVars
  <2> QED
    BY <2>2, <2>3, NoThreadMoves DEF driverVars
<1>2. CASE GetFails \/ CheckStop \/ EngineAnswers \/ PumpEnds
  <2>1. /\ UNCHANGED <<driverVars, link, openVars, clientVars, message>>
        /\ pump' \in {"left", "callback", "reply", "off"}
    BY <1>2 DEF GetFails, CheckStop, EngineAnswers, PumpEnds
  <2>2. FilterTypeOK' /\ MessageAwaited'
    BY <2>1 DEF FilterTypeOK, MessageAwaited, driverVars, openVars, clientVars
  <2> QED
    BY <2>1, <2>2, NoThreadMoves DEF driverVars
<1>3. CASE ReplyMessage /\ link = "up" /\ message # NoThread
  <2>0. PICK t \in Thread : t = message
    BY <1>3 DEF FilterTypeOK
  <2>1. /\ t \in Thread /\ opc[t] = "wait" /\ file[t] \in File /\ t # Pump
        /\ gClientPort
    BY <1>3, <2>0 DEF MessageAwaited, ThreadOK
  <2>2. /\ Delivered(t, Answer(file[t])) /\ message' = NoThread /\ pump' = "get"
        /\ UNCHANGED <<driverVars, link, clientVars>>
    BY <1>3, <2>0 DEF ReplyMessage
  <2>3. /\ Answer(file[t]) \in {"Allow", "Block"}
        /\ Answer(file[t]) = "Block" <=> Malign(file[t])
    BY <2>1, AnswerRight
  <2>4. /\ OpensTyped' /\ OthersStay(t)
        /\ opc'[t] \in {"allowed", "denied"} /\ file' = file
        /\ reply'[t].verdict = Answer(file[t])
        /\ opc'[t] = "denied" <=> Answer(file[t]) = "Block" /\ reply'[t].header
    BY <2>1, <2>2, <2>3, DeliveredTo
  <2>5. FilterTypeOK' /\ MessageAwaited'
    BY <2>2, <2>4 DEF FilterTypeOK, OpensTyped, MessageAwaited, driverVars, clientVars
  <2>6. ThreadOK(t)'
    BY <2>1, <2>2, <2>3, <2>4 DEF ThreadOK, driverVars
  <2> QED
    BY <2>1, <2>2, <2>4, <2>5, <2>6, OneThreadMoves DEF driverVars
<1>4. CASE ReplyMessage /\ ~(link = "up" /\ message # NoThread)
  <2>1. /\ UNCHANGED <<driverVars, link, openVars, clientVars>>
        /\ pump' = "get" /\ message' = NoThread
    BY <1>4 DEF ReplyMessage
  <2>2. FilterTypeOK' /\ MessageAwaited'
    BY <2>1 DEF FilterTypeOK, MessageAwaited, driverVars, openVars, clientVars
  <2> QED
    BY <2>1, <2>2, NoThreadMoves DEF driverVars
<1> QED
  BY <1>1, <1>2, <1>3, <1>4

LEMMA FilterNextInv == FilterIInv /\ [FilterNext]_filterVars => FilterIInv'
<1> SUFFICES ASSUME FilterIInv, [FilterNext]_filterVars PROVE FilterIInv'
  OBVIOUS
<1>1. CASE UNCHANGED filterVars
  <2>1. UNCHANGED <<driverVars, link, openVars, clientVars, pumpVars>>
    BY <1>1 DEF filterVars
  <2>2. FilterTypeOK' /\ MessageAwaited'
    BY <2>1 DEF FilterIInv, FilterTypeOK, MessageAwaited, driverVars, openVars, clientVars, pumpVars
  <2>3. \A t \in Thread : ThreadOK(t)'
    BY <2>1, NoThreadMoves DEF FilterIInv, driverVars
  <2> QED
    BY <2>2, <2>3 DEF FilterIInv
<1>2. ASSUME NEW t \in Thread, Open(t) \/ AcquireShared(t) \/ CreateStep(t)
      PROVE  FilterIInv'
  BY <1>2, CreateKeeps
<1>3. CASE AvmfConnect \/ AvmfDisconnect \/ AvmfUnload \/ UnloadEnds \/ DriverEntry
  BY <1>3, DriverKeeps
<1>4. CASE Start \/ Stop \/ CloseStep \/ Crash
  BY <1>4, ClientKeeps
<1>5. CASE GetMessage \/ GetFails \/ CheckStop \/ EngineAnswers \/ ReplyMessage
           \/ PumpEnds
  BY <1>5, PumpKeeps
<1> QED
  BY <1>1, <1>2, <1>3, <1>4, <1>5 DEF FilterNext

LEMMA FilterInvariance == FilterSpec => []FilterIInv
<1> QED
  BY FilterInitInv, FilterNextInv, PTL DEF FilterSpec

\* A connection is only made with a driver that is loaded, and only a driver that is
\* loaded can be entered.
Connected ==
  /\ UnloadLeavesNothing
  /\ link = "connecting" => driver = "loaded"
  /\ client = "starting" => link = "connecting"

LEMMA ConnectedKept ==
  ASSUME FilterTypeOK, Connected, [FilterNext]_filterVars
  PROVE  Connected'
<1> USE DEF Connected, UnloadLeavesNothing, driverVars, openVars, clientVars, pumpVars
<1>1. ASSUME NEW t \in Thread, AcquireShared(t) \/ CreateStep(t)
      PROVE  opc[t] # "idle" /\ UNCHANGED <<driverVars, link, client>>
  BY <1>1 DEF AcquireShared, CreateStep, Send, Unanswered, Finish
<1>2. ASSUME NEW t \in Thread, Open(t)
      PROVE  driver = "loaded" /\ UNCHANGED <<driverVars, link, client>>
  BY <1>2 DEF Open
<1>3. CASE AvmfConnect \/ AvmfDisconnect
  BY <1>3 DEF AvmfConnect, AvmfDisconnect, FilterTypeOK
<1>4. CASE AvmfUnload \/ UnloadEnds \/ DriverEntry
  BY <1>4 DEF AvmfUnload, UnloadEnds, DriverEntry, FilterTypeOK
<1>5. CASE Start \/ Stop \/ CloseStep
  BY <1>5 DEF Start, Stop, CloseStep, PortClosed, PumpJoined, PumpAbandoned, FilterTypeOK
<1>6. CASE Crash
  <2>1. \A t \in Thread : opc[t] = "idle" => opc'[t] = "idle"
    BY <1>6 DEF Crash, Returns, FilterTypeOK
  <2>2. /\ UNCHANGED driverVars /\ client' = "stopped"
        /\ link' = IF link = "up" THEN "closing" ELSE link
    BY <1>6 DEF Crash
  <2> QED
    BY <2>1, <2>2
<1>7. CASE GetMessage \/ GetFails \/ CheckStop \/ EngineAnswers \/ PumpEnds
  BY <1>7 DEF GetMessage, GetFails, CheckStop, EngineAnswers, PumpEnds
<1>8. CASE ReplyMessage
  <2>1. driver = "unloaded" => link # "up"
    OBVIOUS
  <2>2. UNCHANGED <<driverVars, link, client>> /\ (link # "up" => UNCHANGED opc)
    BY <1>8 DEF ReplyMessage
  <2> QED
    BY <2>1, <2>2
<1>9. CASE UNCHANGED filterVars
  BY <1>9 DEF filterVars
<1> QED
  BY <1>1, <1>2, <1>3, <1>4, <1>5, <1>6, <1>7, <1>8, <1>9 DEF FilterNext

LEMMA ConnectedAlways == FilterSpec => []Connected
<1>1. FilterInit => Connected
  BY DEF FilterInit, Connected, UnloadLeavesNothing
<1>2. FilterIInv => FilterTypeOK
  BY DEF FilterIInv
<1> QED
  BY <1>1, <1>2, FilterInvariance, ConnectedKept, PTL DEF FilterSpec

-----------------------------------------------------------------------------
(* What follows for ports and answers                                      *)

\* FltSendMessage never runs on a closed port, the pump is never asked about its own
\* opens, and an unloaded driver has left nothing behind, however many threads open
\* files while clients come, go and die.
THEOREM PortInvariant == FilterSpec => []PortInv
<1>1. FilterIInv /\ Connected => PortInv
  BY DEF FilterIInv, ThreadOK, Connected, PortInv, PortOutlivesSenders, PumpNeverAsksItself,
         Thread
<1> QED
  BY <1>1, FilterInvariance, ConnectedAlways, PTL

\* An open that was answered was answered for its own file, whatever timed out or
\* was answered late before it; if the answer is Block, it is denied exactly when the
\* reply arrives with its header.
THEOREM AnswersFit == FilterSpec => []AnswerFitsFile
<1>1. FilterIInv => AnswerFitsFile
  BY DEF FilterIInv, ThreadOK, AnswerFitsFile
<1> QED
  BY <1>1, FilterInvariance, PTL
=============================================================================
