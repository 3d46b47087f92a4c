----------------------------- MODULE MCWaiting ------------------------------
(***************************************************************************)
(* Two protocols in which threads wait for one another: the queue between  *)
(* the thread that lists a directory and the workers that scan its files,  *)
(* and the port between the driver and the client's message pump. They     *)
(* share no variable and are explored one beside the other: in some        *)
(* behaviours the scan's side moves, in the others the driver's.           *)
(***************************************************************************)
EXTENDS MCDirectoryScan, MCMinifilter

VARIABLE side   \* whose behaviour it is

MCInit ==
  /\ Init /\ FilterInit
  /\ side \in {"scan", "driver"}
  /\ side = "driver" => ~others

ScanMoves == side = "scan" /\ Next /\ UNCHANGED filterVars
DriverMoves == side = "driver" /\ FilterNext /\ UNCHANGED vars

MCNext == (ScanMoves \/ DriverMoves) /\ UNCHANGED side

\* No action with fairness is enabled on the side that does not move.
MCSpec ==
  MCInit /\ [][MCNext]_<<vars, filterVars, side>> /\ Fairness /\ FilterFairness
=============================================================================
