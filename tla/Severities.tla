----------------------------- MODULE Severities -----------------------------
(* How bad a detection is (avcore::Severity), in order; None: none was made. *)
None == 0
Info == 1
Suspicious == 2
Malicious == 3
Severity == {Info, Suspicious, Malicious}
=============================================================================
