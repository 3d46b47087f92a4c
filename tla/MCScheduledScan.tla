-------------------------- MODULE MCScheduledScan --------------------------
(***************************************************************************)
(* Instances of ScheduledScan for TLC: two directories, three files.       *)
(***************************************************************************)
EXTENDS ScheduledScan, TLC

CONSTANTS d1, d2, f1, f2, f3

MCDir == {d1, d2}
MCFile == {f1, f2, f3}
MCConfigs ==
  {[enabled |-> TRUE, interval |-> "daily", target |-> "directories"],
   [enabled |-> TRUE, interval |-> "on_boot", target |-> "directories"],
   [enabled |-> TRUE, interval |-> "daily", target |-> "file"],
   [enabled |-> FALSE, interval |-> "daily", target |-> "directories"]}
MCConfigFile ==
  {[form |-> "absent", scheduled_scan |-> <<>>],
   [form |-> "no JSON", scheduled_scan |-> [enabled |-> TRUE]],
   [form |-> "JSON", scheduled_scan |-> [enabled |-> TRUE]],
   [form |-> "JSON", scheduled_scan |-> [enabled |-> TRUE, interval |-> "on_boot"]]}
MCDirOf == f1 :> d1 @@ f2 :> d1 @@ f3 :> d2
=============================================================================
