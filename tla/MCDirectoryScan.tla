-------------------------- MODULE MCDirectoryScan --------------------------
(***************************************************************************)
(* Instances of DirectoryScan for TLC, with the entries of the directory   *)
(* as model values: regular files and one directory, and a queue shorter   *)
(* than the listing.                                                       *)
(***************************************************************************)
EXTENDS DirectoryScan

CONSTANTS f1, f2, f3, d1

MCRegular == {f1, f2, f3}
MCEntry == {f1, f2, f3, d1}
=============================================================================
