------------------------ MODULE ScheduledScanProofs ------------------------
(***************************************************************************)
(* Proofs, for any directories, files, configurations and any number of    *)
(* callers and thread objects, that as long as no call has begun during    *)
(* another, no call ends the process, the thread in force has the          *)
(* configuration last set, and a scan that meets no cancellation is        *)
(* complete. Nothing is assumed of who makes the calls, and they may       *)
(* overlap (Overlap): what a theorem says of a behaviour holds up to its   *)
(* first overlap, after which it says the types only.                      *)
(*                                                                         *)
(* What a call has yet to do tells what is true in the middle of it: from  *)
(* a restart on, the goal is the configuration; from the look at the       *)
(* handle on, there is a thread to join; before the creation there is      *)
(* none. That the stop flag falls only where no thread is left, is why a   *)
(* scan that saw it never goes on.                                         *)
(***************************************************************************)
EXTENDS ScheduledScan, TLAPS

\* The threads that have been started and not joined: with any calls at a time.
HandleOK == \A t \in Thread : tpc[t] # "off" <=> t = handle

AllIdle == \A c \in Caller : cpc[c] = "idle"

InForce ==
  IF realtime_started /\ config.enabled
    THEN handle # NoThread /\ tcfg[handle] = config /\ ~stop
    ELSE handle = NoThread

CallOK(c) ==
  /\ cpc[c] \in Restarting => realtime_started /\ goal[c] = config
  /\ cpc[c] \in {"stopNotify", "stopJoin"} => ~realtime_started
  /\ cpc[c] \in {"notify", "restartJoin", "stopJoin"} => handle # NoThread
  /\ cpc[c] = "spawn" => handle = NoThread
  /\ cpc[c] \in {"notify", "stopNotify", "restartJoin", "stopJoin"} => stop

\* One call at a time, and what is true between calls and in the middle of one.
CallsOK ==
  /\ \A c, d \in Caller : c # d => cpc[c] = "idle" \/ cpc[d] = "idle"
  /\ AllIdle => InForce
  /\ \A c \in Caller : CallOK(c)

\* What the current scan has scanned and has yet to scan.
Ahead == scanned \cup files \cup {f \in File : DirOf[f] \in dirs}

ScanOK ==
  /\ scan_cancel => flagged
  /\ \A t \in Thread : tpc[t] = "run" /\ ~flagged /\ ~stop => Ahead = Wanted(t)

IInv == /\ TypeOK /\ HandleOK
        /\ ~overlapped => NeverTerminates /\ CallsOK /\ ScanOK

-----------------------------------------------------------------------------
LEMMA InitOK == Init => IInv
<1> SUFFICES ASSUME Init PROVE IInv
  OBVIOUS
<1>1. config \in Configs
  BY ScheduledScanAssumption DEF Init, ScheduledScanAssumption
<1>2. HandleOK /\ NeverTerminates
  BY ScheduledScanAssumption DEF Init, HandleOK, NeverTerminates, ScheduledScanAssumption
<1>3. TypeOK
  BY <1>1 DEF Init, TypeOK, CallerPc, Restarting, ThreadPc
<1>4. CallsOK
  BY DEF Init, CallsOK, CallOK, Restarting, AllIdle, InForce
<1>5. ScanOK
  BY DEF Init, ScanOK
<1> QED BY <1>2, <1>3, <1>4, <1>5 DEF IInv

-----------------------------------------------------------------------------
(* The calls                                                               *)

\* The types survive a step of a caller that changes nothing of the scans, if the
\* threads that are not "off" are still those of the handle.
LEMMA TypesKept ==
  ASSUME TypeOK, HandleOK', UNCHANGED <<scanVars, cancelVars>>,
         realtime_started' \in BOOLEAN, config' \in Configs,
         cpc' \in [Caller -> CallerPc], goal' \in [Caller -> Configs \cup {NoConfig}],
         \A c \in Caller : cpc'[c] \in Restarting => goal'[c] \in Configs,
         handle' \in Thread \cup {NoThread}, overlapped' \in BOOLEAN,
         stop' \in BOOLEAN, crashed' \in BOOLEAN,
         tpc' \in [Thread -> ThreadPc], tcfg' \in [Thread -> Configs]
  PROVE  TypeOK'
BY DEF TypeOK, HandleOK, scanVars, cancelVars

\* What a call does to the others, which are idle: nothing.
LEMMA OthersIdle ==
  ASSUME NEW c \in Caller, \A d \in Caller \ {c} : cpc[d] = "idle" /\ cpc'[d] = cpc[d],
         CallOK(c)', cpc'[c] = "idle" => InForce'
  PROVE  CallsOK'
<1>1. \A d \in Caller \ {c} : CallOK(d)'
  BY DEF CallOK, Restarting, Restarting
<1> QED BY <1>1 DEF CallsOK, AllIdle

\* The step of a call moves no other.
LEMMA OthersLeft ==
  ASSUME TypeOK, NEW c \in Caller, NEW pc, cpc' = [cpc EXCEPT ![c] = pc]
  PROVE  cpc'[c] = pc /\ \A d \in Caller \ {c} : cpc'[d] = cpc[d]
BY DEF TypeOK

\* In the middle of a call the others are idle.
LEMMA OneAtATime ==
  ASSUME CallsOK, NEW c \in Caller, cpc[c] # "idle"
  PROVE  \A d \in Caller \ {c} : cpc[d] = "idle"
BY DEF CallsOK

\* A call begins that overlaps no other.
LEMMA BeginsAlone ==
  ASSUME IInv, NEW c \in Caller, Begins(c), ~overlapped'
  PROVE  /\ ~overlapped /\ NeverTerminates /\ CallsOK /\ ScanOK /\ InForce
         /\ \A d \in Caller : cpc[d] = "idle"
BY DEF IInv, Begins, CallsOK, AllIdle

\* A call that touches no thread leaves the scans alone.
LEMMA ThreadsLeft ==
  ASSUME UNCHANGED <<tpc, tcfg, scanVars, cancelVars, handle, crashed>>, stop => stop'
  PROVE  /\ HandleOK => HandleOK'
         /\ NeverTerminates => NeverTerminates'
         /\ ScanOK => ScanOK'
BY DEF HandleOK, NeverTerminates, ScanOK, Ahead, Wanted, scanVars, cancelVars

LEMMA BeginningsOK ==
  ASSUME IInv, NEW c \in Caller,
         \/ StartRealtimeProtection(c) \/ StopScheduledThread(c)
         \/ \E cfg \in Configs : SetScheduledScan(c, cfg)
  PROVE  IInv'
<1>1. CASE StartRealtimeProtection(c)
  <2> USE <1>1 DEF StartRealtimeProtection
  <2>1. HandleOK'
    BY ThreadsLeft DEF IInv
  <2>2. TypeOK'
    BY <2>1, TypesKept DEF IInv, TypeOK, Begins, Restarts, CallerPc, Restarting
  <2>3. ASSUME ~overlapped' PROVE NeverTerminates' /\ CallsOK' /\ ScanOK'
    <3>1. /\ NeverTerminates /\ ScanOK /\ \A d \in Caller : cpc[d] = "idle"
      BY <2>3, BeginsAlone
    <3>2. CallOK(c)'
      BY DEF Restarts, CallOK, Restarting, IInv, TypeOK
    <3>3. cpc'[c] = "restart" /\ \A d \in Caller \ {c} : cpc'[d] = cpc[d]
      BY OthersLeft DEF IInv, Restarts
    <3> QED BY <3>1, <3>2, <3>3, ThreadsLeft, OthersIdle
  <2> QED BY <2>1, <2>2, <2>3 DEF IInv
<1>2. CASE StopScheduledThread(c)
  <2> USE <1>2 DEF StopScheduledThread
  <2>1. HandleOK'
    BY ThreadsLeft DEF IInv
  <2>2. TypeOK'
    BY <2>1, TypesKept DEF IInv, TypeOK, Begins, CallerGoes, CallerPc, Restarting
  <2>3. ASSUME ~overlapped' PROVE NeverTerminates' /\ CallsOK' /\ ScanOK'
    <3>1. /\ NeverTerminates /\ ScanOK /\ \A d \in Caller : cpc[d] = "idle"
      BY <2>3, BeginsAlone
    <3>2. CallOK(c)'
      BY DEF CallerGoes, CallOK, Restarting, IInv, TypeOK
    <3>3. cpc'[c] = "stopNotify" /\ \A d \in Caller \ {c} : cpc'[d] = cpc[d]
      BY OthersLeft DEF IInv, CallerGoes
    <3> QED BY <3>1, <3>2, <3>3, ThreadsLeft, OthersIdle
  <2> QED BY <2>1, <2>2, <2>3 DEF IInv
<1>3. ASSUME NEW cfg \in Configs, SetScheduledScan(c, cfg) PROVE IInv'
  <2> USE <1>3 DEF SetScheduledScan
  <2>1. HandleOK'
    BY ThreadsLeft DEF IInv
  <2>2. TypeOK'
    BY <2>1, TypesKept DEF IInv, TypeOK, Begins, Restarts, CallerPc, Restarting
  <2>3. ASSUME ~overlapped' PROVE NeverTerminates' /\ CallsOK' /\ ScanOK'
    <3>1. /\ NeverTerminates /\ ScanOK /\ InForce
          /\ \A d \in Caller : cpc[d] = "idle"
      BY <2>3, BeginsAlone
    <3>2. CASE realtime_started
      <4>1. CallOK(c)'
        BY <3>2 DEF Restarts, CallOK, Restarting, IInv, TypeOK
      <4>2. cpc'[c] = "restart" /\ \A d \in Caller \ {c} : cpc'[d] = cpc[d]
        BY <3>2, OthersLeft DEF IInv, Restarts
      <4> QED BY <3>1, <4>1, <4>2, ThreadsLeft, OthersIdle
    <3>3. CASE ~realtime_started
      <4>1. InForce' /\ \A d \in Caller : cpc'[d] = "idle"
        BY <3>1, <3>3 DEF InForce
      <4> QED BY <3>1, <4>1, ThreadsLeft DEF CallsOK, CallOK, Restarting
    <3> QED BY <3>2, <3>3 DEF IInv, TypeOK
  <2> QED BY <2>1, <2>2, <2>3 DEF IInv
<1> QED BY <1>1, <1>2, <1>3

LEMMA RestartStepOK ==
  ASSUME IInv, NEW c \in Caller, RestartStep(c)
  PROVE  IInv'
<1>0. ASSUME ~overlapped
      PROVE  /\ NeverTerminates /\ CallsOK /\ ScanOK /\ CallOK(c)
             /\ cpc[c] # "idle" => \A d \in Caller \ {c} : cpc[d] = "idle"
  BY <1>0, OneAtATime DEF IInv, CallsOK
<1>1. CASE RestartScheduledThread(c)
  <2> USE <1>1 DEF RestartScheduledThread
  <2>1. HandleOK' /\ overlapped' = overlapped
    BY ThreadsLeft DEF IInv
  <2>2. TypeOK'
    BY <2>1, TypesKept DEF IInv, TypeOK, CallerGoes, CallerPc, Restarting
  <2>3. ASSUME ~overlapped' PROVE NeverTerminates' /\ CallsOK' /\ ScanOK'
    <3>1. CallOK(c)'
      BY <1>0, <2>1, <2>3 DEF CallerGoes, CallOK, Restarting, IInv, TypeOK
    <3>2. cpc'[c] # "idle" /\ \A d \in Caller \ {c} : cpc'[d] = cpc[d]
      BY OthersLeft DEF IInv, CallerGoes
    <3> QED BY <1>0, <2>1, <2>3, <3>1, <3>2, ThreadsLeft, OthersIdle
  <2> QED BY <2>1, <2>2, <2>3 DEF IInv
<1>2. CASE Notify(c)
  <2> USE <1>2 DEF Notify
  <2>0. \A t \in Thread : tpc'[t] = tpc[t] \/ (tpc[t] = "asleep" /\ tpc'[t] = "test")
    OBVIOUS
  <2>1. HandleOK' /\ overlapped' = overlapped
    BY <2>0 DEF IInv, HandleOK
  <2>2. TypeOK'
    <3>1. tpc' \in [Thread -> ThreadPc]
      BY DEF IInv, TypeOK, ThreadPc
    <3>2. /\ cpc' \in [Caller -> CallerPc] /\ goal' \in [Caller -> Configs \cup {NoConfig}]
          /\ \A d \in Caller : cpc'[d] \in Restarting => goal'[d] \in Configs
      BY DEF IInv, TypeOK, CallerGoes, Returns, CallerPc, Restarting
    <3> QED BY <2>1, <3>1, <3>2, TypesKept DEF IInv, TypeOK
  <2>3. ASSUME ~overlapped' PROVE NeverTerminates' /\ CallsOK' /\ ScanOK'
    <3>1. PICK pc \in {"restartJoin", "stopJoin", "idle"} :
            /\ cpc' = [cpc EXCEPT ![c] = pc]
            /\ pc = "restartJoin" => cpc[c] = "notify" /\ goal' = goal
            /\ pc = "stopJoin" => cpc[c] = "stopNotify" /\ handle # NoThread
            /\ pc = "idle" => cpc[c] = "stopNotify" /\ handle = NoThread
      BY DEF CallerGoes, Returns
    <3>2. CallOK(c)' /\ (pc = "idle" => InForce')
      BY <1>0, <2>1, <2>3, <3>1 DEF CallOK, Restarting, InForce, IInv, TypeOK
    <3>3. NeverTerminates' /\ ScanOK'
      BY <1>0, <2>0, <2>1, <2>3
         DEF NeverTerminates, ScanOK, Ahead, Wanted, scanVars, cancelVars
    <3>4. cpc'[c] = pc /\ \A d \in Caller \ {c} : cpc'[d] = cpc[d]
      BY <3>1, OthersLeft DEF IInv
    <3> QED BY <1>0, <2>1, <2>3, <3>1, <3>2, <3>3, <3>4, OthersIdle
  <2> QED BY <2>1, <2>2, <2>3 DEF IInv
<1>3. CASE Join(c)
  <2> USE <1>3 DEF Join
  <2>1. CASE handle = NoThread
    <3>1. HandleOK' /\ overlapped' = overlapped
      BY <2>1 DEF IInv, HandleOK
    <3>2. TypeOK'
      BY <2>1, <3>1, TypesKept DEF IInv, TypeOK
    <3>3. overlapped
      BY <1>0, <2>1 DEF CallOK, Restarting, IInv, TypeOK
    <3> QED BY <3>1, <3>2, <3>3 DEF IInv
  <2>2. CASE handle # NoThread
    <3>1. /\ handle \in Thread /\ tpc[handle] = "done" /\ crashed' = crashed
          /\ tpc' = [tpc EXCEPT ![handle] = "off"] /\ handle' = NoThread
          /\ overlapped' = overlapped /\ Joined(c)
      BY <2>2 DEF IInv, TypeOK, Goes
    <3>2. HandleOK'
      BY <3>1, ScheduledScanAssumption DEF IInv, HandleOK, TypeOK, ScheduledScanAssumption
    <3>3. TypeOK'
      <4>1. /\ cpc' \in [Caller -> CallerPc] /\ goal' \in [Caller -> Configs \cup {NoConfig}]
          /\ \A d \in Caller : cpc'[d] \in Restarting => goal'[d] \in Configs
        BY <3>1 DEF IInv, TypeOK, Joined, CallerGoes, Returns, CallerPc, Restarting
      <4>2. tpc' \in [Thread -> ThreadPc]
        BY <3>1 DEF IInv, TypeOK, ThreadPc
      <4> QED BY <3>1, <3>2, <4>1, <4>2, TypesKept DEF IInv, TypeOK
    <3>4. ASSUME ~overlapped' PROVE NeverTerminates' /\ CallsOK' /\ ScanOK'
      <4>1. PICK pc \in {"idle", "spawn"} :
              /\ cpc' = [cpc EXCEPT ![c] = pc]
              /\ pc = "idle" => cpc[c] = "stopJoin"
              /\ pc = "spawn" => cpc[c] = "restartJoin" /\ goal' = goal
        BY <3>1 DEF Joined, CallerGoes, Returns
      <4>2. CallOK(c)' /\ (pc = "idle" => InForce')
        BY <1>0, <3>1, <3>4, <4>1 DEF CallOK, Restarting, InForce, IInv, TypeOK
      <4>3. NeverTerminates' /\ ScanOK'
        BY <1>0, <3>1, <3>4
           DEF NeverTerminates, ScanOK, Ahead, Wanted, IInv, TypeOK, scanVars, cancelVars
      <4>4. cpc'[c] = pc /\ \A d \in Caller \ {c} : cpc'[d] = cpc[d]
        BY <4>1, OthersLeft DEF IInv
      <4> QED BY <1>0, <3>1, <3>4, <4>1, <4>2, <4>3, <4>4, OthersIdle
    <3> QED BY <3>2, <3>3, <3>4 DEF IInv
  <2> QED BY <2>1, <2>2
<1>4. CASE Spawn(c)
  <2> USE <1>4 DEF Spawn
  <2>0. ASSUME ~overlapped
        PROVE  /\ handle = NoThread /\ realtime_started /\ goal[c] = config
               /\ \A t \in Thread : tpc[t] = "off"
    BY <1>0, <2>0, ScheduledScanAssumption
       DEF CallOK, Restarting, IInv, HandleOK, ScheduledScanAssumption
  <2>1. CASE ~goal[c].enabled
    <3>1. HandleOK' /\ overlapped' = overlapped
      BY <2>1, ThreadsLeft DEF IInv
    <3>2. TypeOK'
      BY <2>1, <3>1, TypesKept DEF IInv, TypeOK, Returns, CallerPc, Restarting
    <3>3. ASSUME ~overlapped' PROVE NeverTerminates' /\ CallsOK' /\ ScanOK'
      <4>1. CallOK(c)' /\ InForce'
        BY <2>0, <2>1, <3>1, <3>3 DEF CallOK, Restarting, InForce, Returns, IInv, TypeOK
      <4>2. \A d \in Caller \ {c} : cpc'[d] = cpc[d]
        BY <2>1, OthersLeft DEF IInv, Returns
      <4> QED BY <1>0, <2>1, <3>1, <3>3, <4>1, <4>2, ThreadsLeft, OthersIdle
    <3> QED BY <3>1, <3>2, <3>3 DEF IInv
  <2>2. CASE goal[c].enabled /\ handle # NoThread
    <3>1. HandleOK' /\ overlapped' = overlapped /\ overlapped
      BY <2>0, <2>2 DEF IInv, HandleOK, TypeOK
    <3>2. TypeOK'
      BY <2>2, <3>1, TypesKept DEF IInv, TypeOK
    <3> QED BY <3>1, <3>2 DEF IInv
  <2>3. CASE goal[c].enabled /\ handle = NoThread
    <3>1. PICK t \in Thread :
            /\ tpc' = [tpc EXCEPT ![t] = "loop"] /\ tcfg' = [tcfg EXCEPT ![t] = goal[c]]
            /\ handle' = t /\ Returns(c)
            /\ crashed' = crashed /\ ~stop' /\ overlapped' = overlapped
      BY <2>3 DEF Goes
    <3>2. HandleOK'
      BY <2>3, <3>1, ScheduledScanAssumption
         DEF IInv, HandleOK, TypeOK, ScheduledScanAssumption
    <3>3. TypeOK'
      <4>1. goal[c] \in Configs
        BY DEF IInv, TypeOK, Restarting
      <4>2. tpc' \in [Thread -> ThreadPc] /\ tcfg' \in [Thread -> Configs]
        BY <3>1, <4>1 DEF IInv, TypeOK, ThreadPc
      <4>3. /\ cpc' \in [Caller -> CallerPc] /\ goal' \in [Caller -> Configs \cup {NoConfig}]
          /\ \A d \in Caller : cpc'[d] \in Restarting => goal'[d] \in Configs
        BY <3>1 DEF IInv, TypeOK, Returns, CallerPc, Restarting
      <4> QED BY <2>3, <3>1, <3>2, <4>2, <4>3, TypesKept DEF IInv, TypeOK
    <3>4. ASSUME ~overlapped' PROVE NeverTerminates' /\ CallsOK' /\ ScanOK'
      <4>1. CallOK(c)' /\ InForce'
        BY <2>0, <2>3, <3>1, <3>4, ScheduledScanAssumption
           DEF CallOK, Restarting, InForce, Returns, IInv, TypeOK, ScheduledScanAssumption
      <4>2. NeverTerminates' /\ ScanOK'
        BY <1>0, <2>0, <3>1, <3>4
           DEF NeverTerminates, ScanOK, IInv, TypeOK, cancelVars
      <4>3. \A d \in Caller \ {c} : cpc'[d] = cpc[d]
        BY <3>1, OthersLeft DEF IInv, Returns
      <4> QED BY <1>0, <3>1, <3>4, <4>1, <4>2, <4>3, OthersIdle
    <3> QED BY <3>2, <3>3, <3>4 DEF IInv
  <2> QED BY <2>1, <2>2, <2>3
<1> QED BY <1>1, <1>2, <1>3, <1>4 DEF RestartStep

-----------------------------------------------------------------------------
(* The thread                                                              *)

\* A step of a thread that runs keeps what the callers know.
LEMMA CallersLeft ==
  ASSUME UNCHANGED <<callerVars, stop, tcfg>>
  PROVE  CallsOK' = CallsOK
BY DEF CallsOK, AllIdle, CallOK, Restarting, InForce, callerVars

LEMMA ThreadStepKeeps ==
  ASSUME TypeOK, HandleOK, NEW t \in Thread, ThreadStep(t) \/ Fire(t)
  PROVE  /\ UNCHANGED <<callerVars, stop, crashed, tcfg>>
         /\ TypeOK' /\ HandleOK' /\ (ScanOK => ScanOK')
<1> USE DEF Goes
<1>1. /\ UNCHANGED <<callerVars, stop, crashed, tcfg, scan_cancel, manual>>
      /\ tpc[t] # "off"
      /\ tpc' \in [Thread -> ThreadPc] /\ tpc'[t] # "off"
      /\ \A u \in Thread \ {t} : tpc'[u] = tpc[u]
  BY DEF ThreadStep, Loop, Test, FallAsleep, Fire, Woken, EnterDirectory, ScanEntry,
         RunEnds, TypeOK, ThreadPc, scanVars, cancelVars
<1>2. HandleOK'
  BY <1>1 DEF HandleOK, callerVars
<1>3. \A u \in Thread \ {t} : tpc'[u] = "off"
  BY <1>1 DEF HandleOK
<1>4. TypeOK' /\ (ScanOK => ScanOK')
  <2>0. ASSUME dirs' \subseteq Dir, files' \subseteq File, scanned' \subseteq File,
               flagged' \in BOOLEAN
        PROVE  TypeOK'
    BY <1>1, <1>2, <2>0 DEF TypeOK, HandleOK, callerVars
  <2>1. CASE Loop(t) \/ Test(t) \/ FallAsleep(t) \/ Fire(t) \/ RunEnds(t)
    <3>1. UNCHANGED <<scanVars, cancelVars>> /\ tpc'[t] # "run"
      BY <2>1 DEF Loop, Test, FallAsleep, Fire, RunEnds, TypeOK
    <3> QED BY <1>3, <2>0, <3>1 DEF TypeOK, ScanOK, scanVars, cancelVars
  <2>2. CASE Woken(t)
    <3>1. CASE stop
      BY <1>3, <2>0, <2>2, <3>1 DEF Woken, TypeOK, ScanOK, scanVars
    <3>2. CASE ~stop
      <4>1. TypeOK'
        BY <2>0, <2>2, <3>2, ScheduledScanAssumption
           DEF Woken, TypeOK, ScheduledScanAssumption
      <4>2. Ahead' = Wanted(t)'
        BY <1>1, <2>2, <3>2, ScheduledScanAssumption
           DEF Woken, Ahead, Wanted, ScheduledScanAssumption
      <4> QED BY <1>1, <1>3, <2>2, <3>2, <4>1, <4>2 DEF Woken, ScanOK
    <3> QED BY <3>1, <3>2
  <2>3. CASE EnterDirectory(t)
    <3>1. CASE stop
      BY <1>1, <1>3, <2>0, <2>3, <3>1 DEF EnterDirectory, TypeOK, ScanOK, cancelVars
    <3>2. CASE ~stop
      <4>1. PICK d \in dirs : dirs' = dirs \ {d} /\ files' = {f \in File : DirOf[f] = d}
        BY <2>3, <3>2 DEF EnterDirectory
      <4>2. Ahead' = Ahead /\ Wanted(t)' = Wanted(t)
        BY <1>1, <2>3, <4>1 DEF EnterDirectory, Ahead, Wanted
      <4>3. TypeOK'
        BY <2>0, <2>3, <4>1 DEF EnterDirectory, TypeOK, cancelVars
      <4> QED BY <1>1, <1>3, <2>3, <4>2, <4>3 DEF EnterDirectory, ScanOK, cancelVars
    <3> QED BY <3>1, <3>2
  <2>4. CASE ScanEntry(t)
    <3>1. TypeOK'
      BY <2>0, <2>4 DEF ScanEntry, TypeOK, cancelVars
    <3>2. CASE stop \/ scan_cancel
      BY <1>1, <1>3, <2>4, <3>1, <3>2 DEF ScanEntry, ScanOK, cancelVars
    <3>3. CASE ~stop /\ ~scan_cancel
      <4>1. Ahead' = Ahead /\ Wanted(t)' = Wanted(t)
        BY <1>1, <2>4, <3>3 DEF ScanEntry, Ahead, Wanted
      <4> QED BY <1>1, <1>3, <2>4, <3>1, <4>1 DEF ScanEntry, ScanOK, cancelVars
    <3> QED BY <3>2, <3>3
  <2> QED BY <2>1, <2>2, <2>3, <2>4 DEF ThreadStep
<1> QED BY <1>1, <1>2, <1>4

LEMMA ThreadStepOK ==
  ASSUME IInv, NEW t \in Thread, ThreadStep(t) \/ Fire(t)
  PROVE  IInv'
BY ThreadStepKeeps, CallersLeft DEF IInv, NeverTerminates, callerVars

LEMMA ManualOK ==
  ASSUME IInv, ManualScanStarts \/ ManualScanEnds \/ CancelScan
  PROVE  IInv'
<1> USE DEF ManualScanStarts, ManualScanEnds, CancelScan
<1>1. TypeOK'
  BY DEF IInv, TypeOK, callerVars, scanVars
<1>2. UNCHANGED <<overlapped, crashed>> /\ HandleOK' /\ CallsOK' = CallsOK
  BY CallersLeft DEF IInv, HandleOK, callerVars
<1>3. ScanOK => ScanOK'
  BY DEF ScanOK, Ahead, Wanted, callerVars, scanVars
<1> QED BY <1>1, <1>2, <1>3 DEF IInv, NeverTerminates

-----------------------------------------------------------------------------
LEMMA Inductive == Spec => []IInv
<1>1. IInv /\ [Next]_vars => IInv'
  <2> SUFFICES ASSUME IInv, [Next]_vars PROVE IInv'
    OBVIOUS
  <2>1. ASSUME NEW c \in Caller,
               \/ StartRealtimeProtection(c) \/ StopScheduledThread(c)
               \/ \E cfg \in Configs : SetScheduledScan(c, cfg)
        PROVE  IInv'
    BY <2>1, BeginningsOK
  <2>2. ASSUME NEW c \in Caller, RestartStep(c) PROVE IInv'
    BY <2>2, RestartStepOK
  <2>3. ASSUME NEW t \in Thread, ThreadStep(t) \/ Fire(t) PROVE IInv'
    BY <2>3, ThreadStepOK
  <2>4. CASE ManualScanStarts \/ ManualScanEnds \/ CancelScan
    BY <2>4, ManualOK
  <2>5. CASE UNCHANGED vars
    BY <2>5 DEF vars, callerVars, scanVars, cancelVars, IInv, TypeOK, NeverTerminates,
                HandleOK, CallsOK, AllIdle, CallOK, InForce, ScanOK, Ahead, Wanted
  <2> QED BY <2>1, <2>2, <2>3, <2>4, <2>5 DEF Next
<1> QED BY <1>1, InitOK, PTL DEF Spec

(***************************************************************************)
(* Whichever and however many threads start, stop and configure the        *)
(* engine: as long as no call has begun during another, no call joins or   *)
(* replaces a thread it must not, or waits for one that has not been told, *)
(* and between calls the thread in force is the one that the configuration *)
(* asks for, however the calls follow one another and wherever the thread  *)
(* is. (Two calls at a time can end the process: NeverTerminates is not    *)
(* true without the condition.)                                            *)
(***************************************************************************)
THEOREM ScheduleInvariant == Spec => []ScheduleInv
<1>1. IInv => ScheduleInv
  BY DEF IInv, CallsOK, AllIdle, CallOK, Restarting, InForce, ScheduleInv, ConfigInForce,
         ToldBeforeJoined
<1> QED BY <1>1, Inductive, PTL

(***************************************************************************)
(* A scheduled scan that nobody stops and no cancellation meets has        *)
(* scanned, at its end, every file of every directory it was to scan, or   *)
(* the one file, as long as no two calls have overlapped.                  *)
(***************************************************************************)
THEOREM ScansComplete == Spec => UndisturbedScanComplete
<1>1. IInv /\ [Next]_vars => [\A t \in Thread : ~flagged /\ ~overlapped => RunCompletes(t)]_vars
  <2> SUFFICES ASSUME IInv, [Next]_vars, NEW t \in Thread, ~flagged, ~overlapped, ~stop,
                      tpc[t] = "run", tpc'[t] \in {"loop", "done"}
               PROVE  scanned = Wanted(t)
    BY DEF RunCompletes
  <2>1. RunEnds(t)
    <3>1. tpc'[t] # tpc[t]
      OBVIOUS
    <3>2. ASSUME NEW c \in Caller,
                 \/ StartRealtimeProtection(c) \/ StopScheduledThread(c)
                 \/ \E cfg \in Configs : SetScheduledScan(c, cfg)
                 \/ RestartStep(c)
          PROVE  FALSE
      BY <3>1, <3>2 DEF StartRealtimeProtection, StopScheduledThread, SetScheduledScan,
         RestartStep, RestartScheduledThread, Notify, Join, Spawn, Goes, IInv, TypeOK
    <3>3. ASSUME NEW u \in Thread, ThreadStep(u) \/ Fire(u) PROVE RunEnds(t)
      BY <3>1, <3>3 DEF ThreadStep, Loop, Test, FallAsleep, Fire, Woken, EnterDirectory,
         ScanEntry, RunEnds, Goes, IInv, TypeOK
    <3> QED BY <3>1, <3>2, <3>3
            DEF Next, ManualScanStarts, ManualScanEnds, CancelScan, vars
  <2> QED BY <2>1 DEF RunEnds, IInv, ScanOK, Ahead
<1> QED BY <1>1, Inductive, PTL DEF Spec, UndisturbedScanComplete
=============================================================================
