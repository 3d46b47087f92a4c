------------------------------- MODULE ScanJob -------------------------------
(***************************************************************************)
(* What Engine::ScanDirectory promises its caller: from the call to its    *)
(* return every regular file of the directory is scanned exactly once,     *)
(* unless CancelScan() is called, in which case the call may return early. *)
(* The total it reports is the number of files whose scan has begun. It    *)
(* does return, if no other scan starts meanwhile.                         *)
(***************************************************************************)
EXTENDS Integers, FiniteSets

CONSTANTS Regular  \* the regular files below the directory

VARIABLES alone,      \* no other scan of this engine starts during a call
          active,     \* a call is in progress
          pending,    \* files whose scan has not begun
          cancelled,  \* CancelScan() was called during this call
          total       \* what the last call reported, 0 during a call

vars == <<alone, active, pending, cancelled, total>>

Init == /\ alone \in BOOLEAN /\ active = FALSE /\ pending = {} /\ cancelled = FALSE
        /\ total = 0

Call == /\ ~active
        /\ active' = TRUE
        /\ pending' = Regular
        /\ cancelled' = FALSE
        /\ total' = 0
        /\ UNCHANGED alone

ScanOneFile == /\ active
               /\ \E f \in pending : pending' = pending \ {f}
               /\ UNCHANGED <<alone, active, cancelled, total>>

Cancel == /\ active
          /\ cancelled' = TRUE
          /\ UNCHANGED <<alone, active, pending, total>>

Return == /\ active
          /\ pending = {} \/ cancelled
          /\ active' = FALSE
          /\ total' = Cardinality(Regular \ pending)
          /\ pending' = {}
          /\ UNCHANGED <<alone, cancelled>>

Next == Call \/ ScanOneFile \/ Cancel \/ Return

Spec == Init /\ [][Next]_vars /\ WF_vars(alone /\ (ScanOneFile \/ Return))
=============================================================================
