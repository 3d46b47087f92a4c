---------------------------- MODULE MCMinifilter ----------------------------
(* A harmless file, a malicious one with the longest path that can be sent,  *)
(* one that is longer by a character, one on a volume without a drive letter, *)
(* and three that the driver asks nobody about.                              *)
EXTENDS Minifilter

Plain == [name |-> "tool.exe", device |-> "disk", lettered |-> TRUE,
          directory |-> FALSE, chars |-> 1, malicious |-> FALSE]
Bad == [Plain EXCEPT !.malicious = TRUE, !.chars = MaxChars]

MCFile ==
  {Plain, Bad, [Bad EXCEPT !.chars = MaxChars + 1], [Bad EXCEPT !.lettered = FALSE],
   [Bad EXCEPT !.name = "avdashboard.exe"], [Bad EXCEPT !.device = "network"],
   [Plain EXCEPT !.directory = TRUE]}
=============================================================================
