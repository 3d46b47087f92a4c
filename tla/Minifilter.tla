----------------------------- MODULE Minifilter -----------------------------
(***************************************************************************)
(* Blocking at file-open time: the kernel driver (src/driver/AvMiniFilter) *)
(* intercepts every create, asks the connected client over a communication *)
(* port and denies the open on a Block verdict; the client                 *)
(* (src/src/realtime_block) answers on one pump thread, which itself opens *)
(* the file it is asked about.                                             *)
(*                                                                         *)
(* gClientPortLock is not a variable: its shared holders are the threads   *)
(* between AcquireShared and the end of their create, and an exclusive     *)
(* acquisition is pending while the Filter Manager connects or closes the  *)
(* link. A pending exclusive acquisition bars new shared ones. The Filter  *)
(* Manager itself (queueing, message ids, when it runs the two callbacks)  *)
(* is modelled from how driver and client use it.                          *)
(***************************************************************************)
EXTENDS Naturals, FiniteSets

CONSTANTS
  Opener,   \* threads of other processes
  Pump,     \* the client's message-pump thread
  NoThread,
  File,     \* what may be opened
  NoFile,
  MaxChars, \* the longest path a notification can carry (259)
  Strips    \* may FilterReplyMessage strip the header from a reply?

\* The sources disagree about Strips: that the header is stripped says
\* AvMiniFilter.h:21-25, that it arrives with the verdict AvMiniFilter.c:266-271.
\* chars: the length of the path in device form; lettered: the volume has a drive
\* letter; malicious: EvaluateForBlock finds a Malicious match in the file.
ASSUME MinifilterAssumption ==
  /\ Pump \notin Opener /\ NoThread \notin Opener \cup {Pump}
  /\ File \subseteq [name : STRING, device : {"disk", "network", "cd-rom"},
                     lettered : BOOLEAN, directory : BOOLEAN, chars : Nat,
                     malicious : BOOLEAN]
  /\ NoFile \notin File /\ MaxChars \in Nat
  /\ Strips \subseteq BOOLEAN

Thread == Opener \cup {Pump}

VARIABLES
  driver,           \* is the driver loaded?
  gClientPort,      \* is the port pointer set?
  gClientProcessId, \* whose process id is recorded
  link,             \* the connection, as the Filter Manager knows it
  opc,              \* where each thread is inside AvmfPreCreate
  file,             \* what each thread is opening
  reply,            \* the buffer each thread has given to FltSendMessage
  client,           \* where the client's Start() or Stop() is
  stop_requested,
  pump,             \* where the pump thread is in Pump()
  message,          \* the thread whose notification the pump has and which
                    \* still waits for the answer to it
  abandoned         \* history: the last Stop() gave up waiting for the pump

driverVars == <<driver, gClientPort, gClientProcessId>>
openVars == <<opc, file, reply>>
clientVars == <<client, stop_requested, abandoned>>
pumpVars == <<pump, message>>
filterVars == <<driverVars, link, openVars, clientVars, pumpVars>>

-----------------------------------------------------------------------------
AvmfInstanceSetup(device) == device = "disk"

kWhitelistedExes == {"avconsolehost.exe", "avdashboard.exe"}

\* The whole final component is compared.
IsWhitelisted(name) == name \in kWhitelistedExes

\* What the notification carries of a file's path: the first MaxChars of it.
FilePath(f) == IF f.chars <= MaxChars THEN "whole" ELSE "cut off"

\* A device path becomes one that the file can be opened by, if its volume has a
\* drive letter and the path is whole.
DevicePathToWin32(path, f) == path = "whole" /\ f.lettered

\* A reply: the verdict, and whether a header stands before it. The buffer is zeroed
\* for each message, and 0 is Allow.
Reply == [header : BOOLEAN, verdict : {"Allow", "Block"}]
Zeroed == [header |-> FALSE, verdict |-> "Allow"]

OpenPc == {"idle", "lock", "held", "wait", "allowed", "denied"}

FilterTypeOK ==
  /\ driver \in {"loaded", "unloading", "unloaded"}
  /\ gClientPort \in BOOLEAN
  /\ gClientProcessId \in {"none", "client"}
  /\ gClientPort <=> gClientProcessId = "client"
  /\ link \in {"none", "connecting", "up", "closing"}
  /\ opc \in [Thread -> OpenPc]
  /\ file \in [Thread -> File \cup {NoFile}]
  /\ reply \in [Thread -> Reply]
  /\ client \in {"stopped", "starting", "running", "closing", "waitPump"}
  /\ stop_requested \in BOOLEAN /\ abandoned \in BOOLEAN
  /\ pump \in {"off", "get", "got", "callback", "reply", "left"}
  /\ message \in Thread \cup {NoThread}

FilterInit ==
  /\ driver = "loaded"
  /\ gClientPort = FALSE /\ gClientProcessId = "none" /\ link = "none"
  /\ opc = [t \in Thread |-> "idle"]
  /\ file = [t \in Thread |-> NoFile]
  /\ reply = [t \in Thread |-> Zeroed]
  /\ client = "stopped" /\ stop_requested = FALSE /\ abandoned = FALSE
  /\ pump = "off" /\ message = NoThread

Goes(t, pc) == opc' = [opc EXCEPT ![t] = pc] /\ UNCHANGED <<file, reply>>

\* The create is over; what was opened is forgotten.
Returns(t) == /\ opc' = [opc EXCEPT ![t] = "idle"]
              /\ file' = [file EXCEPT ![t] = NoFile]
              /\ reply' = [reply EXCEPT ![t] = Zeroed]

\* The sender no longer waits: the message is dead.
Forget(t) == message' = IF message = t THEN NoThread ELSE message

\* The shared holders of gClientPortLock.
Holders == {t \in Thread : opc[t] \in {"held", "wait", "allowed", "denied"}}

-----------------------------------------------------------------------------
(* AvmfPreCreate                                                           *)

\* The creates that a client is asked about; one whose file has no name, which is
\* not known in advance, is allowed like the others.
Intercepts(f) ==
  AvmfInstanceSetup(f.device) /\ ~f.directory /\ ~IsWhitelisted(f.name)

\* A create with the port pointer set. The pump opens files only in its callback.
Open(t) ==
  /\ driver = "loaded" /\ gClientPort
  /\ opc[t] = "idle"
  /\ t = Pump => pump = "callback"
  /\ opc' = [opc EXCEPT ![t] = "lock"]
  /\ \E f \in File : Intercepts(f) /\ file' = [file EXCEPT ![t] = f]
  /\ UNCHANGED <<reply, driverVars, link, clientVars, pumpVars>>

AcquireShared(t) ==
  /\ opc[t] = "lock"
  /\ link \in {"none", "up"}
  /\ Goes(t, "held")
  /\ UNCHANGED <<driverVars, link, clientVars, pumpVars>>

\* Under the lock: no client, or the client's own process, is allowed; for the
\* others FltSendMessage queues the notification.
Send(t) ==
  /\ opc[t] = "held"
  /\ IF gClientPort /\ ~(gClientProcessId = "client" /\ t = Pump)
       THEN Goes(t, "wait") ELSE Returns(t)
  /\ UNCHANGED <<driverVars, link, clientVars, pumpVars>>

\* Variant: FltSendMessage without a timeout.
Unanswered_NoTimeout(t) ==
  /\ opc[t] = "wait"
  /\ link # "up"
  /\ Returns(t) /\ Forget(t)
  /\ UNCHANGED <<driverVars, link, clientVars, pump>>

\* The timeout passes, or the client disconnects: the open is allowed, and a
\* later reply to this message finds nobody.
Unanswered(t) ==
  /\ opc[t] = "wait"
  /\ Returns(t) /\ Forget(t)
  /\ UNCHANGED <<driverVars, link, clientVars, pump>>

\* The reply is acted on and the lock is released.
Finish(t) ==
  /\ opc[t] \in {"allowed", "denied"}
  /\ Returns(t)
  /\ UNCHANGED <<driverVars, link, clientVars, pumpVars>>

-----------------------------------------------------------------------------
(* The connection                                                          *)

\* The exclusive lock is free: record the port and the process; Start() goes on
\* to create the pump thread.
AvmfConnect ==
  /\ link = "connecting" /\ Holders = {}
  /\ link' = "up"
  /\ gClientPort' = TRUE /\ gClientProcessId' = "client"
  /\ client' = "running" /\ pump' = "get"
  /\ UNCHANGED <<driver, openVars, stop_requested, abandoned, message>>

\* Variant: the port is closed without the exclusive lock.
AvmfDisconnect_Unlocked ==
  /\ link = "closing"
  /\ link' = "none"
  /\ gClientPort' = FALSE /\ gClientProcessId' = "none"
  /\ UNCHANGED <<driver, openVars, clientVars, pumpVars>>

AvmfDisconnect ==
  /\ link = "closing" /\ Holders = {}
  /\ link' = "none"
  /\ gClientPort' = FALSE /\ gClientProcessId' = "none"
  /\ UNCHANGED <<driver, openVars, clientVars, pumpVars>>

\* AvmfUnload: the Filter Manager ends the connection, then waits for creates.
AvmfUnload ==
  /\ driver = "loaded" /\ link # "connecting"
  /\ driver' = "unloading"
  /\ link' = IF link = "up" THEN "closing" ELSE link
  /\ UNCHANGED <<gClientPort, gClientProcessId, openVars, clientVars, pumpVars>>

UnloadEnds ==
  /\ driver = "unloading" /\ link = "none"
  /\ \A t \in Thread : opc[t] = "idle"
  /\ driver' = "unloaded"
  /\ UNCHANGED <<gClientPort, gClientProcessId, link, openVars, clientVars,
                 pumpVars>>

DriverEntry ==
  /\ driver = "unloaded"
  /\ driver' = "loaded"
  /\ UNCHANGED <<gClientPort, gClientProcessId, link, openVars, clientVars,
                 pumpVars>>

-----------------------------------------------------------------------------
(* MinifilterClient                                                        *)

\* Start() on a new object; it throws, and changes nothing, when the driver is
\* not loaded or has a connection. (Bound: no pump of an earlier object is left.)
Start ==
  /\ client = "stopped" /\ pump = "off"
  /\ driver = "loaded" /\ link = "none"
  /\ link' = "connecting"
  /\ client' = "starting" /\ stop_requested' = FALSE /\ abandoned' = FALSE
  /\ UNCHANGED <<driverVars, openVars, pumpVars>>

\* Stop(): raise the flag and close the port.
Stop ==
  /\ client = "running"
  /\ stop_requested' = TRUE
  /\ link' = IF link = "up" THEN "closing" ELSE link
  /\ client' = "closing"
  /\ UNCHANGED <<driverVars, openVars, abandoned, pumpVars>>

\* CloseHandle returns when AvmfDisconnect has run; then SetEvent.
PortClosed ==
  /\ client = "closing" /\ link # "closing"
  /\ client' = "waitPump"
  /\ UNCHANGED <<driverVars, link, openVars, stop_requested, abandoned, pumpVars>>

\* WaitForSingleObject(pump_thread, 6000) is satisfied ...
PumpJoined ==
  /\ client = "waitPump" /\ pump = "left"
  /\ client' = "stopped" /\ pump' = "off"
  /\ UNCHANGED <<driverVars, link, openVars, stop_requested, abandoned, message>>

\* Variant: INFINITE instead of 6000.
PumpAbandoned_Never ==
  /\ client = "waitPump" /\ pump = "left"
  /\ client' = "stopped" /\ abandoned' = TRUE
  /\ UNCHANGED <<driverVars, link, openVars, stop_requested, pumpVars>>

\* ... or times out, and the thread is left to itself.
PumpAbandoned ==
  /\ client = "waitPump" /\ pump # "left"
  /\ client' = "stopped" /\ abandoned' = TRUE
  /\ UNCHANGED <<driverVars, link, openVars, stop_requested, pumpVars>>

\* The client's process dies; the system closes its handles.
Crash ==
  /\ client \in {"running", "closing", "waitPump"}
  /\ client' = "stopped" /\ pump' = "off" /\ message' = NoThread
  /\ Returns(Pump)
  /\ link' = IF link = "up" THEN "closing" ELSE link
  /\ UNCHANGED <<driverVars, stop_requested, abandoned>>

-----------------------------------------------------------------------------
(* Pump()                                                                  *)

\* FilterGetMessage delivers a notification that is still waited for.
GetMessage ==
  /\ pump = "get" /\ ~stop_requested /\ link = "up"
  /\ \E t \in Thread : opc[t] = "wait" /\ message' = t
  /\ pump' = "got"
  /\ UNCHANGED <<driverVars, link, openVars, clientVars>>

\* The port is closed (by Stop or because the driver went away).
GetFails ==
  /\ pump = "get"
  /\ stop_requested \/ link # "up"
  /\ pump' = "left"
  /\ UNCHANGED <<driverVars, link, openVars, clientVars, message>>

\* A message that arrives while stopping is not answered.
CheckStop ==
  /\ pump = "got"
  /\ pump' = IF stop_requested THEN "left" ELSE "callback"
  /\ UNCHANGED <<driverVars, link, openVars, clientVars, message>>

\* EvaluateForBlock returns; its own opens are over.
EngineAnswers ==
  /\ pump = "callback" /\ opc[Pump] = "idle"
  /\ pump' = "reply"
  /\ UNCHANGED <<driverVars, link, openVars, clientVars, message>>

\* A file that the path does not lead to is not found malicious.
Answer(f) == IF f.malicious /\ DevicePathToWin32(FilePath(f), f)
             THEN "Block" ELSE "Allow"

\* The driver reads the verdict behind the header; there is nothing but zeros if the
\* verdict came without one, at the beginning of the buffer.
Payload(r) == IF r.header THEN r.verdict ELSE "Allow"

\* The reply is in the buffer, and FltSendMessage returns to the driver.
Delivered(t, verdict) ==
  \E stripped \in Strips :
    LET r == [header |-> ~stripped, verdict |-> verdict]
    IN  /\ reply' = [reply EXCEPT ![t] = r]
        /\ opc' = [opc EXCEPT ![t] = IF Payload(r) = "Block" THEN "denied" ELSE "allowed"]
        /\ UNCHANGED file

\* Variant: the reply does not carry the message's id.
ReplyMessage_NoId ==
  /\ pump = "reply"
  /\ IF link = "up" /\ message # NoThread
       THEN \E t \in Thread : opc[t] = "wait" /\ Delivered(t, Answer(file[message]))
       ELSE UNCHANGED openVars
  /\ pump' = "get" /\ message' = NoThread
  /\ UNCHANGED <<driverVars, link, clientVars>>

\* FilterReplyMessage; a reply nobody waits for fails, which is ignored.
ReplyMessage ==
  /\ pump = "reply"
  /\ IF link = "up" /\ message # NoThread
       THEN Delivered(message, Answer(file[message]))
       ELSE UNCHANGED openVars
  /\ pump' = "get" /\ message' = NoThread
  /\ UNCHANGED <<driverVars, link, clientVars>>

\* An abandoned pump thread comes to its end.
PumpEnds ==
  /\ client = "stopped" /\ pump = "left"
  /\ pump' = "off"
  /\ UNCHANGED <<driverVars, link, openVars, clientVars, message>>

-----------------------------------------------------------------------------
CreateStep(t) == Send(t) \/ Unanswered(t) \/ Finish(t)

CloseStep == PortClosed \/ PumpJoined \/ PumpAbandoned

FilterNext ==
  \/ \E t \in Thread : Open(t) \/ AcquireShared(t) \/ CreateStep(t)
  \/ AvmfConnect \/ AvmfDisconnect \/ AvmfUnload \/ UnloadEnds \/ DriverEntry
  \/ Start \/ Stop \/ CloseStep \/ Crash
  \/ GetMessage \/ GetFails \/ CheckStop \/ EngineAnswers \/ ReplyMessage
  \/ PumpEnds

\* The kernel runs its threads, five seconds pass, six seconds pass, and a
\* thread that waits for the lock gets it once no exclusive request is pending
\* for good (ERESOURCE grants waiting shared requests in turn). Nothing is
\* assumed of the pump: it may wedge anywhere.
FilterFairness ==
  /\ \A t \in Thread : SF_filterVars(AcquireShared(t)) /\ WF_filterVars(CreateStep(t))
  /\ WF_filterVars(AvmfConnect) /\ WF_filterVars(AvmfDisconnect)
  /\ WF_filterVars(CloseStep)

FilterSpec == FilterInit /\ [][FilterNext]_filterVars /\ FilterFairness

-----------------------------------------------------------------------------
(* Properties                                                              *)

\* FltSendMessage never runs on a port that Disconnect has closed: whoever is
\* in it, or acts on its answer, has kept the port alive through the lock.
PortOutlivesSenders ==
  \A t \in Thread : opc[t] \in {"wait", "allowed", "denied"} => gClientPort

\* The pump never waits for its own answer: none of the files it opens while it
\* evaluates a message is sent to it.
PumpNeverAsksItself == opc[Pump] \in {"idle", "lock", "held"}

\* The recorded port is there exactly while the Filter Manager has a connection, and
\* a driver that has been unloaded, however its client came to its end and whatever
\* was being opened then, has left neither a port nor a thread within it.
UnloadLeavesNothing ==
  /\ gClientPort <=> link \in {"up", "closing"}
  /\ driver = "unloaded" =>
       link = "none" /\ ~gClientPort /\ \A t \in Thread : opc[t] = "idle"

\* The port lock and the client's process id keep the driver out of both: it neither
\* sends on a closed port nor asks the pump about the pump's own files. Nor does it
\* leave anything of a connection behind.
PortInv ==
  FilterTypeOK /\ PortOutlivesSenders /\ PumpNeverAsksItself /\ UnloadLeavesNothing

\* Whatever times out or arrives late, the reply an open gets is the client's verdict
\* of its own file: Block for a malicious one on a lettered volume, up to the longest
\* path a notification can carry, and for no other. The driver denies exactly the opens
\* whose Block has a header before it (AvMiniFilter.c:350).
Malign(f) == f.malicious /\ f.lettered /\ f.chars <= MaxChars

AnswerFitsFile ==
  \A t \in Thread : opc[t] \in {"allowed", "denied"} =>
    /\ reply[t].verdict = "Block" <=> Malign(file[t])
    /\ opc[t] = "denied" <=> Malign(file[t]) /\ reply[t].header

\* "Allow on: explicit Allow, STATUS_TIMEOUT (...), or any FltSendMessage failure"
\* (AvMiniFilter.c:355-356): no open is let through whose reply has come and says
\* Block. If the header is stripped, as AvMiniFilter.h:21-25 says, every one is.
BlockIsObeyed == \A t \in Thread : opc[t] = "allowed" => reply[t].verdict = "Allow"

\* "Never to a system-wide hang": every open completes, the pump's own included,
\* although the pump may wedge, the client may die and Disconnect may wait for
\* the very lock that senders hold.
EveryOpenCompletes == \A t \in Thread : opc[t] # "idle" ~> opc[t] = "idle"

\* Stop() returns, although it waits for senders that wait for the pump.
ClientStopReturns == client = "closing" ~> client = "stopped"
=============================================================================
