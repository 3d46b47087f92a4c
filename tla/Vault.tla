------------------------------- MODULE Vault -------------------------------
(***************************************************************************)
(* What the quarantine store promises its user: a file that is taken away  *)
(* is kept, with the place it came from, until the user has it returned to *)
(* that very place, or destroyed. Nothing else happens to it, and taking   *)
(* and returning are single steps.                                         *)
(***************************************************************************)
CONSTANTS
  Path,       \* places for files
  Content,    \* what a file may contain
  NoFile,     \* nothing exists at this place
  SafeTarget  \* the places to which a file may be returned

VARIABLES file,  \* one content or nothing per path
          kept   \* the contents in the vault, each with its place

vars == <<file, kept>>

Init == /\ file = [p \in Path |-> NoFile]
        /\ kept = {}

Take(p) == /\ file[p] # NoFile
           /\ file' = [file EXCEPT ![p] = NoFile]
           /\ kept' = kept \cup {[what |-> file[p], from |-> p]}

Return(k) == /\ k.from \in SafeTarget
             /\ file[k.from] = NoFile
             /\ file' = [file EXCEPT ![k.from] = k.what]
             /\ kept' = kept \ {k}

Destroy(k) == /\ kept' = kept \ {k}
              /\ UNCHANGED file

\* The owner of the files creates one of new content, or removes one.
Outside(p, c) == /\ \/ c = NoFile
                    \/ /\ \A q \in Path : file[q] # c
                       /\ \A k \in kept : k.what # c
                 /\ file' = [file EXCEPT ![p] = c]
                 /\ UNCHANGED kept

Next == \/ \E p \in Path : Take(p)
        \/ \E k \in kept : Return(k) \/ Destroy(k)
        \/ \E p \in Path, c \in Content \cup {NoFile} : Outside(p, c)

Spec == Init /\ [][Next]_vars
=============================================================================
