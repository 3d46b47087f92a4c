------------------------- MODULE MCSignatureUpdate -------------------------
(***************************************************************************)
(* The instance of SignatureUpdate for TLC: the seed, one other signature  *)
(* and the empty hash, two definitions, up to four versions; two builds of *)
(* the application and two keys.                                           *)
(***************************************************************************)
EXTENDS SignatureUpdate

CONSTANTS eicar, other, empty, d1, d2

MCSha == {eicar, other, empty}
MCDef == {d1, d2}
MCAdmitted == { {"damaged"}, {"emptySha"}, {"appUpdates"}, {"damaged", "clientDies"},
                {"serverDies", "clientDies"}, {"seedEdited"}, {"concurrent"} }
=============================================================================
