--------------------------- MODULE MCScanPipeline ---------------------------
(***************************************************************************)
(* A document application, whose image is Suspicious, and a shell, copied  *)
(* to a directory that users write to, whose image is Malicious.           *)
(*                                                                         *)
(* The rules are asked here about programs without arguments. What they    *)
(* say of arguments is tried beside it, from initial states of its own:    *)
(* while a command line grows, nothing of the pipeline moves, and while    *)
(* the pipeline runs there is no event to add arguments to.                *)
(***************************************************************************)
EXTENDS ScanPipeline, CommandLines

Document == [bin |-> "winword.exe", cmd |-> {}, writable |-> FALSE,
             signed |-> TRUE, path |-> "office"]
Shell == [bin |-> "powershell.exe", cmd |-> {}, writable |-> TRUE,
          signed |-> FALSE, path |-> "shell"]

MCLaunch == {Document, Shell}
MCPid == {1, 2}

Office == [hash |-> <<>>, yara |-> <<>>, pe |-> <<Info, Suspicious>>]

MCContent ==
  [office |-> Office, shell |-> [hash |-> <<Malicious>>, yara |-> <<>>, pe |-> <<>>]]

\* Binaries that several rules judge, and one that none knows.
MCBinary == {"powershell.exe", "pwsh.exe", "wmic.exe", "sc.exe", "reg.exe",
             "certutil.exe", "rundll32.exe", "bcdedit.exe", "schtasks.exe",
             "netsh.exe", "at.exe", "fltmc.exe", "fodhelper.exe", "xmrig.exe",
             "notepad.exe"}
MCParent == {NoParent, "winword.exe"}

NoEvent == [bin |-> "", cmd |-> {}]

PipelineInit == Init /\ event = NoEvent
PipelineNext == event = NoEvent /\ Next /\ UNCHANGED lineVars

LinesInit == Init /\ LineInit
LinesNext == event # NoEvent /\ LineNext /\ UNCHANGED vars

MCSpec ==
  (PipelineInit \/ LinesInit) /\ [][PipelineNext \/ LinesNext]_<<vars, lineVars>>
=============================================================================
