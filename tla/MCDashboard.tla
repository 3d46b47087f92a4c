---------------------------- MODULE MCDashboard ----------------------------
(* Two scans, one record in quarantine and one old detection at the start,  *)
(* and one finding while the dashboard runs.                                *)
EXTENDS Dashboard

MCQuarantineOnly == {{"quarantine"}}

MCOccasions ==
  {{"posture"}, {"quarantine"}, {"folder", "clears"}, {"folder", "overlaps"},
   {"folder", "full"}, {"folder", "console"}, {"quarantine", "console"},
   {"lookups", "quits"}, {"memory", "registry", "quits"}}
=============================================================================
