---------------------------- MODULE CommandLines ----------------------------
(***************************************************************************)
(* How the behaviour rules take a command line that grows by one argument  *)
(* at a time: the process and its command line are all there is of state.  *)
(* The arguments tried for a binary are those which some rule looks for    *)
(* when it judges that binary.                                             *)
(***************************************************************************)
EXTENDS BehaviorRules

CONSTANTS
  Binary,       \* the images tried
  Parent,       \* the parents tried
  MaxFragments  \* bound on the arguments of one command line

ASSUME CommandLinesAssumption ==
  /\ Binary \subseteq STRING /\ Parent \subseteq STRING
  /\ MaxFragments \in Nat

VARIABLE event

lineVars == <<event>>

LookedFor ==
  [b \in Binary |->
     UNION ({line[2] : line \in {l \in UNION {{Table[r][i] : i \in DOMAIN Table[r]} :
                                                r \in DOMAIN Table} :
                                   l[1] = Unnamed \/ b \in l[1]}}
            \cup {IF b \in PowerShell THEN UNION {c[1] : c \in PsCategories} ELSE {}}
            \cup {{"--coin ", "nanopool.org", "--rig-id"}}
            \cup {IF b \in PowerShell THEN {"stop-service"} \cup AvTarget ELSE {}}
            \cup {IF b = "sc.exe" THEN {"stop"} \cup AvTarget ELSE {}})
     \ Unnamed]

LineInit ==
  event \in [bin : Binary, cmd : {{}}, parent : Parent, writable : {FALSE},
             signed : {TRUE}]

AddArgument ==
  /\ Cardinality(event.cmd) < MaxFragments
  /\ \E a \in LookedFor[event.bin] \ event.cmd :
       event' = [event EXCEPT !.cmd = @ \cup {a}]

LineNext == AddArgument

LineSpec == LineInit /\ [][LineNext]_lineVars

-----------------------------------------------------------------------------
(* The tables whose entries are not in the order of their severity: there  *)
(* a Suspicious entry comes before a Malicious one for the same binary.    *)
OutOfOrder == {"LOLBIN_SUSP_ARGS", "PERSISTENCE_REG_RUN", "PERSISTENCE"}

(***************************************************************************)
(* What a rule with a table says is the highest severity among its entries *)
(* that match, whichever of them comes first: with a driver known for its  *)
(* abuse and the creation of a kernel service in one command line, the     *)
(* driver decides (rule_rootkit.cpp:16, rule_base.hpp:44).                 *)
(***************************************************************************)
HighestDecides ==
  event.bin \in Binary => \A r \in DOMAIN Table \ OutOfOrder :
    LET matching == {Table[r][i][3] : i \in {j \in DOMAIN Table[r] :
                                               Matches(Table[r][j], event)}}
    IN  FirstMatch(Table[r], event) = Max(matching \cup {None})

(***************************************************************************)
(* No argument silences a rule that fires without it, and a rule that adds *)
(* up indicators never answers lower than before (the loops and scores of  *)
(* rule_powershell_obfuscation.cpp:106 and rule_cryptominer.cpp:77).       *)
(***************************************************************************)
AlarmsStay ==
  [][event' # event => \A r \in Rule :
       /\ Evaluate(r, event) # None => Evaluate(r, event)' # None
       /\ r \in OtherRule => Evaluate(r, event) <= Evaluate(r, event)']_lineVars

(***************************************************************************)
(* PowerShell with nothing but the flags that installers and build scripts *)
(* use, however many of them, alarms none of the 31 rules                  *)
(* (rule_powershell_obfuscation.cpp:12).                                   *)
(***************************************************************************)
WeakAloneSilent ==
  (/\ event.bin \in PowerShell \cap Binary /\ event.parent = NoParent /\ ~event.writable
   /\ \E c \in PsCategories : c[2] = 1 /\ event.cmd \subseteq c[1])
  => Severities(event) = {}
=============================================================================
