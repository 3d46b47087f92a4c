------------------------- MODULE ScanPipelineProofs -------------------------
(***************************************************************************)
(* Proofs, for any programs, files, process ids and contents and for a     *)
(* table of marks of any length, of what the pipeline owes to its order:   *)
(* the rules see the real parent, no process is marked without a cause,    *)
(* the children of a marked process are linked to it, and no file leaves   *)
(* its place, and no scan with a cause ends, without a report.             *)
(*                                                                         *)
(* The tree knows of each process id the last process that had it among    *)
(* those delivered; as a parent lives when its child starts, and events    *)
(* come in order, this is the parent when its child is judged. A mark      *)
(* refused because the table is full is refused for ever, which is why a   *)
(* parent that is marked at all was marked when its child was judged.      *)
(*                                                                         *)
(* The last part is about the rules the pipeline asks (BehaviorRules), for *)
(* every command line that CommandLines can grow: the worst entry of an    *)
(* ordered table decides, and more arguments never silence a rule.         *)
(***************************************************************************)
EXTENDS ScanPipeline, CommandLines, SequenceTheorems, FiniteSetTheorems,
        WellFoundedInduction, TLAPS

LEMMA LeastElement ==
  ASSUME NEW S \in SUBSET Nat, S # {}
  PROVE  Min(S) \in S /\ \A y \in S : Min(S) <= y
<1> DEFINE R == {ss \in Nat \X Nat : ss[1] < ss[2]}
<1>1. IsWellFoundedOn(R, Nat)
  BY NatLessThanWellFounded DEF OpToRel
<1>2. \A x, y \in S : y < x => <<y, x>> \in R
  OBVIOUS
<1> HIDE DEF R
<1>3. PICK x \in S : \A y \in S : ~(<<y, x>> \in R)
  BY <1>1, WFMin
<1>4. \A y \in S : x <= y
  <2>1. \A y \in S : ~(y < x)
    BY <1>2, <1>3
  <2> QED BY <2>1
<1> QED BY <1>3, <1>4 DEF Min

LEMMA Stages == Range(Stage) = {"hash", "yara", "pe"}
BY DEF Range, Stage

-----------------------------------------------------------------------------
(* The inductive invariant                                                 *)

\* What the operating system has started, and what is still to be delivered.
HistoryOK ==
  /\ born \in Seq(Event) /\ feed \in Seq(Event)
  /\ parents \in Seq(Nat) /\ Len(parents) = Len(born)
  /\ Len(feed) <= Len(born) /\ Len(born) <= MaxProcesses
  /\ \A i \in 1..Len(feed) : feed[i] = born[Delivered + i]
  /\ \A n \in 1..Len(born) :
       /\ born[n].who = n /\ born[n].launch.path \in Path
       /\ parents[n] < n
       /\ parents[n] = 0 => born[n].parent_process_id = 0
       /\ parents[n] # 0 =>
            /\ born[n].parent_process_id = born[parents[n]].process_id
            /\ \A m \in (parents[n] + 1)..n :
                 born[m].process_id # born[n].parent_process_id

\* Of each process id, the tree has the last process that has been delivered.
TreeOK ==
  /\ DOMAIN nodes_ = {born[m].process_id : m \in 1..Delivered}
  /\ \A m \in 1..Delivered :
       (\A j \in (m + 1)..Delivered : born[j].process_id # born[m].process_id)
         => nodes_[born[m].process_id] = born[m]

Full == Cardinality(DOMAIN flagged_pids_) >= kMaxFlaggedPids
FlaggedParent(n) == born[n].parent_process_id \in DOMAIN flagged_pids_

\* The event in the callback is the last delivered, and its link is right.
CallbackOK ==
  etw # <<>> =>
    /\ Delivered \in 1..Len(born)
    /\ etw.event = born[Delivered]
    /\ etw.found.chain => FlaggedParent(Delivered)
    /\ (/\ parents[Delivered] # 0 /\ etw.found.severities # {}
        /\ RuleSaid(parents[Delivered], Malicious) /\ FlaggedParent(Delivered))
         => etw.found.chain

\* What has been judged has been marked, or found the table full.
Judged(n) == n \in 1..Delivered /\ ~(etw # <<>> /\ n = Delivered)

JudgedOK ==
  \A l \in log : l.kind = "rule" =>
    /\ Judged(l.who)
    /\ l.severity = Malicious => born[l.who].process_id \in DOMAIN flagged_pids_ \/ Full

FlagsOK ==
  /\ IsFiniteSet(DOMAIN flagged_pids_)
  /\ Cardinality(DOMAIN flagged_pids_) <= kMaxFlaggedPids
  /\ DOMAIN flagged_pids_ \subseteq Pid
  /\ Range(flagged_pids_) \subseteq {"rule", "chain", "scan"}

ScanRecord == [pc : {"idle", "decide", "move", "moved", "notMoved",
                     "hash", "yara", "pe"},
               path : Path \cup {""}, etw_pid : Pid \cup {0},
               quarantine_cause : {None, Suspicious, Malicious}]

\* A scan is of an image of the process it was started for, and its cause has been
\* reported.
ScanFits(r, b, l) ==
  /\ r.pc # "idle" => r.path \in Path
  /\ r.etw_pid # 0 => \E n \in 1..Len(b) : /\ b[n].process_id = r.etw_pid
                                          /\ b[n].launch.path = r.path
  /\ r.quarantine_cause # None =>
       [kind |-> "found", path |-> r.path, severity |-> r.quarantine_cause] \in l
  /\ r.pc \in {"move", "moved", "notMoved"} => r.quarantine_cause # None
  /\ r.pc = "idle" => r.quarantine_cause = None

ScanOK(s) == ScanFits(scan[s], born, log)

PlacesOK ==
  /\ etw_scanned_paths \subseteq Path /\ present \subseteq Path
  /\ scan \in [Scanner -> ScanRecord]

Guilty(n) == RuleSaid(n, Malicious) \/ Found(born[n].launch.path, Malicious)

CausesOK ==
  /\ \A pid \in DOMAIN flagged_pids_ :
       \E n \in 1..Len(born) : born[n].process_id = pid /\ (Guilty(n) \/ ChainSaid(n))
  /\ DOMAIN flagged_pids_ # {} => \E n \in 1..Len(born) : Guilty(n)

\* A judged child of a marked parent that a rule called malicious has been linked.
LinksOK ==
  \A n \in 1..Len(born) :
    (/\ parents[n] # 0 /\ RuleFired(n) /\ RuleSaid(parents[n], Malicious)
     /\ FlaggedParent(n)) => ChainSaid(n)

IInv ==
  /\ HistoryOK /\ TreeOK /\ CallbackOK /\ JudgedOK /\ FlagsOK /\ PlacesOK
  /\ (\A s \in Scanner : ScanOK(s))
  /\ CausesOK /\ LinksOK

-----------------------------------------------------------------------------
(* The history                                                             *)

LEMMA DeliveredType ==
  ASSUME HistoryOK
  PROVE  /\ Len(born) \in Nat /\ Len(feed) \in Nat
         /\ Delivered \in 0..Len(born)
         /\ DOMAIN born = 1..Len(born)
         /\ \A n \in 1..Len(born) : born[n] \in Event /\ parents[n] \in 0..(n - 1)
<1>1. Len(born) \in Nat /\ Len(feed) \in Nat /\ DOMAIN born = 1..Len(born)
  BY LenProperties DEF HistoryOK
<1>2. \A n \in 1..Len(born) : born[n] \in Event /\ parents[n] \in Nat
  BY ElementOfSeq DEF HistoryOK
<1> QED BY <1>1, <1>2 DEF HistoryOK, Delivered

\* One more process starts: what was started, and what was delivered, stays.
LEMMA HistoryGrows ==
  ASSUME HistoryOK, present \subseteq Path, ProcessStarts
  PROVE  /\ HistoryOK'
         /\ Len(born') = Len(born) + 1 /\ Delivered' = Delivered
         /\ \A n \in 1..Len(born) : born'[n] = born[n] /\ parents'[n] = parents[n]
<1> DEFINE L == Len(born)
<1>0. PICK l \in Launch, pid \in Pid :
        \E parent \in {n \in Live : born[n].process_id # pid} \cup {0} :
          LET e == [who |-> Len(born) + 1, process_id |-> pid, launch |-> l,
                    parent_process_id |-> IF parent = 0 THEN 0 ELSE born[parent].process_id]
          IN  /\ l.path \in present
              /\ born' = Append(born, e)
              /\ parents' = Append(parents, parent)
              /\ feed' = Append(feed, e)
  BY DEF ProcessStarts
<1>1. PICK parent \in {n \in Live : born[n].process_id # pid} \cup {0} :
        LET e == [who |-> Len(born) + 1, process_id |-> pid, launch |-> l,
                  parent_process_id |-> IF parent = 0 THEN 0 ELSE born[parent].process_id]
        IN  /\ l.path \in present
            /\ born' = Append(born, e)
            /\ parents' = Append(parents, parent)
            /\ feed' = Append(feed, e)
  BY <1>0
<1> DEFINE e == [who |-> Len(born) + 1, process_id |-> pid, launch |-> l,
                 parent_process_id |-> IF parent = 0 THEN 0 ELSE born[parent].process_id]
<1>2. L \in Nat /\ L < MaxProcesses /\ MaxProcesses \in Nat
  BY DeliveredType, PipelineAssumption DEF ProcessStarts, PipelineAssumption
<1>3. parent \in 0..L /\ (parent # 0 => born[parent].process_id \in Pid)
  BY DeliveredType DEF Live, Process, Event
<1>4. parent # 0 => \A m \in (parent + 1)..L : born[m].process_id # born[parent].process_id
  BY <1>2, <1>3, DeliveredType DEF Live, Process
<1>5. parent # 0 => born[parent].process_id # pid
  BY <1>2, <1>3, DeliveredType DEF Live, Process
<1>6. e \in Event
  BY <1>2, <1>3 DEF Event
<1>7. /\ born' \in Seq(Event) /\ Len(born') = L + 1 /\ born'[L + 1] = e
      /\ \A n \in 1..L : born'[n] = born[n]
  BY <1>1, <1>6, AppendProperties DEF HistoryOK
<1>8. /\ parents' \in Seq(Nat) /\ Len(parents') = L + 1 /\ parents'[L + 1] = parent
      /\ \A n \in 1..L : parents'[n] = parents[n]
  BY <1>1, <1>3, AppendProperties DEF HistoryOK
<1>9. /\ feed' \in Seq(Event) /\ Len(feed') = Len(feed) + 1 /\ feed'[Len(feed) + 1] = e
      /\ \A i \in 1..Len(feed) : feed'[i] = feed[i]
  BY <1>1, <1>6, AppendProperties DEF HistoryOK
<1>10. Delivered' = Delivered
  BY <1>2, <1>7, <1>9, DeliveredType DEF Delivered
<1>11. \A i \in 1..Len(feed') : feed'[i] = born'[Delivered + i]
  <2> SUFFICES ASSUME NEW i \in 1..Len(feed') PROVE feed'[i] = born'[Delivered + i]
    OBVIOUS
  <2>1. CASE i = Len(feed) + 1
    <3>1. Delivered + i = L + 1
      BY <2>1, DeliveredType DEF Delivered
    <3> QED BY <2>1, <3>1, <1>7, <1>9
  <2>2. CASE i # Len(feed) + 1
    <3>1. i \in 1..Len(feed) /\ Delivered + i \in 1..L
      BY <2>2, <1>9, DeliveredType DEF Delivered
    <3> QED BY <3>1, <1>7, <1>9 DEF HistoryOK
  <2> QED BY <2>1, <2>2
<1>12. ASSUME NEW n \in 1..(L + 1)
       PROVE  /\ born'[n].who = n /\ born'[n].launch.path \in Path
              /\ parents'[n] < n
              /\ parents'[n] = 0 => born'[n].parent_process_id = 0
              /\ parents'[n] # 0 =>
                   /\ born'[n].parent_process_id = born'[parents'[n]].process_id
                   /\ \A m \in (parents'[n] + 1)..n :
                        born'[m].process_id # born'[n].parent_process_id
  <2>1. CASE n \in 1..L
    <3>1. born'[n] = born[n] /\ parents'[n] = parents[n] /\ parents[n] \in 0..(n - 1)
      BY <2>1, <1>7, <1>8, DeliveredType
    <3>2. \A m \in 1..n : born'[m] = born[m]
      BY <2>1, <1>2, <1>7
    <3>3. /\ born[n].who = n /\ born[n].launch.path \in Path
          /\ parents[n] < n
          /\ parents[n] = 0 => born[n].parent_process_id = 0
          /\ parents[n] # 0 =>
               /\ born[n].parent_process_id = born[parents[n]].process_id
               /\ \A m \in (parents[n] + 1)..n :
                    born[m].process_id # born[n].parent_process_id
      BY <2>1 DEF HistoryOK
    <3>4. parents[n] # 0 => born'[parents[n]] = born[parents[n]]
      BY <3>1, <3>2
    <3>5. parents[n] # 0 => \A m \in (parents[n] + 1)..n : born'[m] = born[m]
      BY <3>1, <3>2
    <3> QED BY <3>1, <3>3, <3>4, <3>5
  <2>2. CASE n = L + 1
    <3>1. born'[n] = e /\ parents'[n] = parent /\ e.who = n /\ e.launch.path \in Path
      BY <2>2, <1>1, <1>7, <1>8
    <3>2. parent < n
      BY <2>2, <1>2, <1>3
    <3>3. parent = 0 => e.parent_process_id = 0
      OBVIOUS
    <3>4. ASSUME parent # 0
          PROVE  /\ e.parent_process_id = born'[parent].process_id
                 /\ \A m \in (parent + 1)..n : born'[m].process_id # e.parent_process_id
      <4>1. e.parent_process_id = born[parent].process_id /\ born'[parent] = born[parent]
        BY <3>4, <1>2, <1>3, <1>7
      <4>2. ASSUME NEW m \in (parent + 1)..n PROVE born'[m].process_id # e.parent_process_id
        <5>1. CASE m = L + 1
          BY <5>1, <3>4, <4>1, <1>5, <1>7
        <5>2. CASE m # L + 1
          <6>1. m \in (parent + 1)..L /\ m \in 1..L
            BY <5>2, <2>2, <1>2, <1>3
          <6> QED BY <6>1, <3>4, <4>1, <1>4, <1>7
        <5> QED BY <5>1, <5>2
      <4> QED BY <4>1, <4>2
    <3> QED BY <3>1, <3>2, <3>3, <3>4
  <2> QED BY <2>1, <2>2, <1>2
<1>13. HistoryOK'
  <2>1. Len(feed') <= Len(born') /\ Len(born') <= MaxProcesses
    BY <1>2, <1>7, <1>9, DeliveredType DEF HistoryOK
  <2> QED BY <2>1, <1>7, <1>8, <1>9, <1>10, <1>11, <1>12 DEF HistoryOK
<1> QED BY <1>7, <1>8, <1>10, <1>13

\* The rest of the history is what has not been delivered.
LEMMA FeedIsRest ==
  ASSUME HistoryOK
  PROVE  feed = SubSeq(born, Delivered + 1, Len(born))
<1> DEFINE rest == SubSeq(born, Delivered + 1, Len(born))
<1>1. Delivered + 1 \in Int /\ Len(born) \in Int /\ Len(born) - (Delivered + 1) + 1 = Len(feed)
  BY DeliveredType DEF Delivered
<1>2. \A i \in (Delivered + 1)..Len(born) : born[i] \in Event
  BY DeliveredType
<1>3. /\ rest \in Seq(Event)
      /\ Len(rest) = IF Delivered + 1 <= Len(born) THEN Len(feed) ELSE 0
      /\ \A i \in 1..Len(feed) : rest[i] = born[Delivered + i]
  <2> HIDE DEF rest
  <2>1. /\ rest \in Seq(Event)
        /\ Len(rest) = IF Delivered + 1 <= Len(born) THEN Len(born) - (Delivered + 1) + 1 ELSE 0
        /\ \A i \in 1..(Len(born) - (Delivered + 1) + 1) :
             rest[i] = born[(Delivered + 1) + i - 1]
    BY <1>1, <1>2, SubSeqProperties DEF rest
  <2>2. \A i \in 1..Len(feed) : (Delivered + 1) + i - 1 = Delivered + i
    BY DeliveredType
  <2>3. \A i \in 1..Len(feed) : rest[i] = born[Delivered + i]
    <3>1. \A i \in 1..Len(feed) : rest[i] = born[(Delivered + 1) + i - 1]
      BY <1>1, <2>1
    <3> QED BY <2>2, <3>1
  <2>4. Len(rest) = IF Delivered + 1 <= Len(born) THEN Len(feed) ELSE 0
    BY <1>1, <2>1
  <2> QED BY <2>1, <2>3, <2>4
<1>4. Len(rest) = Len(feed)
  BY <1>1, <1>3, DeliveredType
<1> HIDE DEF rest
<1>5. feed \in Seq(Event) /\ \A i \in 1..Len(feed) : feed[i] = rest[i]
  BY <1>3 DEF HistoryOK
<1>6. feed = rest
  BY <1>3, <1>4, <1>5, SeqEqual
<1> QED BY <1>6 DEF rest

\* The next event is delivered.
LEMMA OneDelivered ==
  ASSUME HistoryOK, feed # <<>>, feed' = Tail(feed), UNCHANGED osVars
  PROVE  /\ HistoryOK'
         /\ Delivered' = Delivered + 1 /\ Delivered' \in 1..Len(born)
         /\ Head(feed) = born[Delivered']
<1>1. /\ Tail(feed) \in Seq(Event) /\ Len(Tail(feed)) = Len(feed) - 1
      /\ \A i \in 1..Len(Tail(feed)) : Tail(feed)[i] = feed[i + 1]
  BY HeadTailProperties DEF HistoryOK
<1>2. Len(feed) \in 1..Len(born)
  BY DeliveredType, EmptySeq DEF HistoryOK
<1>3. Delivered' = Delivered + 1 /\ Delivered' \in 1..Len(born)
  BY <1>1, <1>2, DeliveredType DEF Delivered, osVars
<1>4. Head(feed) = born[Delivered']
  BY <1>2, <1>3 DEF HistoryOK
<1>5. \A i \in 1..Len(feed') : feed'[i] = born[Delivered' + i]
  <2> SUFFICES ASSUME NEW i \in 1..Len(feed') PROVE feed'[i] = born[Delivered' + i]
    OBVIOUS
  <2>1. i + 1 \in 1..Len(feed) /\ feed'[i] = feed[i + 1]
    BY <1>1, <1>2
  <2>2. feed[i + 1] = born[Delivered + (i + 1)]
    BY <2>1 DEF HistoryOK
  <2>3. Delivered + (i + 1) = Delivered' + i
    BY <1>3, DeliveredType
  <2> QED BY <2>1, <2>2, <2>3
<1>6. HistoryOK'
  <2>1. feed' \in Seq(Event) /\ Len(feed') <= Len(born)
    BY <1>1, <1>2
  <2> QED BY <1>5, <2>1 DEF HistoryOK, osVars
<1> QED BY <1>3, <1>4, <1>6

LEMMA HistoryStays ==
  ASSUME HistoryOK, UNCHANGED <<osVars, feed>>
  PROVE  HistoryOK' /\ Delivered' = Delivered
BY DEF HistoryOK, osVars, Delivered

-----------------------------------------------------------------------------
(* The tree                                                                *)

\* A parent that was seen is found in the tree, even if its id was in use before; and
\* of one that was not seen nothing is found.
LEMMA ParentFound ==
  ASSUME HistoryOK, TreeOK, NEW n \in 1..Len(born), n = Delivered
  PROVE  IF parents[n] # 0
           THEN nodes_[born[n].parent_process_id].who = parents[n]
           ELSE born[n].parent_process_id \notin DOMAIN nodes_
<1>0. Delivered \in 0..Len(born) /\ n \in 1..Len(born) /\ born[n] \in Event
  BY DeliveredType
<1>1. ASSUME parents[n] # 0
      PROVE  nodes_[born[n].parent_process_id].who = parents[n]
  <2> DEFINE q == parents[n]
  <2>1. q \in 1..(n - 1) /\ q \in 1..Delivered /\ q \in 1..Len(born)
    BY <1>0, <1>1, DeliveredType
  <2>2. /\ born[n].parent_process_id = born[q].process_id
        /\ \A m \in (q + 1)..n : born[m].process_id # born[q].process_id
    BY <1>0, <1>1 DEF HistoryOK
  <2>3. nodes_[born[q].process_id] = born[q]
    BY <1>1, <2>1, <2>2 DEF TreeOK
  <2>4. born[q].who = q
    BY <2>1 DEF HistoryOK
  <2> QED BY <2>2, <2>3, <2>4
<1>2. ASSUME parents[n] = 0 PROVE born[n].parent_process_id \notin DOMAIN nodes_
  <2>1. born[n].parent_process_id = 0
    BY <1>0, <1>2 DEF HistoryOK
  <2>2. \A m \in 1..Delivered : born[m].process_id \in Pid
    BY <1>0, DeliveredType DEF Event
  <2> QED BY <2>1, <2>2, RuleEngineAssumption DEF TreeOK, RuleEngineAssumption
<1> QED BY <1>0, <1>1, <1>2

LEMMA TreeGrows ==
  ASSUME HistoryOK, TreeOK, feed # <<>>, feed' = Tail(feed), UNCHANGED osVars,
         nodes_' = Insert(nodes_, Head(feed))
  PROVE  TreeOK'
<1> DEFINE k == Delivered + 1  e == born[k]
<1>1. Delivered' = k /\ k \in 1..Len(born) /\ Head(feed) = e /\ Delivered \in Nat
  BY OneDelivered, DeliveredType
<1>2. /\ DOMAIN nodes_' = DOMAIN nodes_ \cup {e.process_id}
      /\ nodes_'[e.process_id] = e
      /\ \A pid \in DOMAIN nodes_ : pid # e.process_id => nodes_'[pid] = nodes_[pid]
  BY <1>1 DEF Insert
<1>3. 1..k = (1..Delivered) \cup {k}
  BY <1>1
<1>4. DOMAIN nodes_' = {born[m].process_id : m \in 1..k}
  BY <1>2, <1>3 DEF TreeOK
<1>5. ASSUME NEW m \in 1..k,
             \A j \in (m + 1)..k : born[j].process_id # born[m].process_id
      PROVE  nodes_'[born[m].process_id] = born[m]
  <2>1. CASE m = k
    BY <2>1, <1>2
  <2>2. CASE m # k
    <3>1. m \in 1..Delivered /\ k \in (m + 1)..k /\ (m + 1)..Delivered \subseteq (m + 1)..k
      BY <2>2, <1>1
    <3>2. nodes_[born[m].process_id] = born[m] /\ born[m].process_id \in DOMAIN nodes_
      BY <3>1, <1>5 DEF TreeOK
    <3>3. born[m].process_id # e.process_id
      BY <3>1, <1>5
    <3> QED BY <3>2, <3>3, <1>2
  <2> QED BY <2>1, <2>2
<1>6. born' = born
  BY DEF osVars
<1> QED BY <1>1, <1>4, <1>5, <1>6 DEF TreeOK

\* The tree holds events: of each process id, that of the last process that had it.
LEMMA LastOfPid ==
  ASSUME HistoryOK, TreeOK, NEW pid \in DOMAIN nodes_
  PROVE  nodes_[pid] \in Event
<1> DEFINE Later(m) == Delivered - m
           S == {k \in Nat : \E m \in 1..Delivered : born[m].process_id = pid /\ k = Later(m)}
<1>0. Delivered \in 0..Len(born) /\ Len(born) \in Nat
  BY DeliveredType
<1>1. PICK m0 \in 1..Delivered : born[m0].process_id = pid
  BY DEF TreeOK
<1>2. Later(m0) \in S
  BY <1>0, <1>1
<1>3. PICK k \in S : \A j \in S : k <= j
  <2> HIDE DEF S
  <2>1. S # {} /\ S \in SUBSET Nat
    BY <1>2 DEF S
  <2> QED BY <2>1, LeastElement
<1>4. PICK m \in 1..Delivered : born[m].process_id = pid /\ k = Later(m)
  BY <1>3
<1>5. ASSUME NEW j \in (m + 1)..Delivered PROVE born[j].process_id # born[m].process_id
  <2>1. j \in 1..Delivered /\ Later(j) \in Nat /\ Later(j) < Later(m)
    BY <1>0
  <2>2. born[j].process_id = pid => Later(j) \in S
    BY <2>1
  <2> QED BY <1>3, <1>4, <2>1, <2>2
<1>6. nodes_[pid] = born[m]
  BY <1>4, <1>5 DEF TreeOK
<1> QED BY <1>0, <1>6, DeliveredType

-----------------------------------------------------------------------------
(* The marks                                                               *)

\* Marks are only added, and none once the table is full.
FlagsGrow ==
  /\ FlagsOK'
  /\ DOMAIN flagged_pids_ \subseteq DOMAIN flagged_pids_'
  /\ Full => flagged_pids_' = flagged_pids_

LEMMA MarkedGrows ==
  ASSUME FlagsOK, NEW pid \in Pid, NEW why \in {"rule", "chain", "scan"},
         flagged_pids_' = Marked(pid, why)
  PROVE  /\ FlagsGrow
         /\ DOMAIN flagged_pids_' \subseteq DOMAIN flagged_pids_ \cup {pid}
         /\ pid \in DOMAIN flagged_pids_' \/ Full'
<1> USE DEF FlagsOK, FlagsGrow
<1>1. Cardinality(DOMAIN flagged_pids_) \in Nat /\ kMaxFlaggedPids \in Nat
  BY FS_CardinalityType, RuleEngineAssumption DEF RuleEngineAssumption
<1>2. CASE Full
  BY <1>2 DEF Full, Marked
<1>3. CASE ~Full
  <2>1. /\ DOMAIN flagged_pids_' = DOMAIN flagged_pids_ \cup {pid}
        /\ \A p \in DOMAIN flagged_pids_' :
             flagged_pids_'[p] = IF p \in DOMAIN flagged_pids_ THEN flagged_pids_[p] ELSE why
    BY <1>3 DEF Full, Marked
  <2>2. /\ IsFiniteSet(DOMAIN flagged_pids_')
        /\ Cardinality(DOMAIN flagged_pids_') <= Cardinality(DOMAIN flagged_pids_) + 1
    BY <1>1, <2>1, FS_AddElement
  <2>3. Cardinality(DOMAIN flagged_pids_') <= kMaxFlaggedPids
    <3>1. Cardinality(DOMAIN flagged_pids_') \in Nat
      BY <2>2, FS_CardinalityType
    <3> QED BY <1>1, <1>3, <2>2, <3>1 DEF Full
  <2>4. Range(flagged_pids_') \subseteq {"rule", "chain", "scan"}
    BY <2>1 DEF Range
  <2> QED BY <1>3, <2>1, <2>2, <2>3, <2>4
<1> QED BY <1>2, <1>3

LEMMA SameFlags ==
  ASSUME FlagsOK, flagged_pids_' = flagged_pids_
  PROVE  FlagsGrow /\ (Full' <=> Full)
BY DEF FlagsOK, FlagsGrow, Full

\* If a rule called a parent malicious, its id is marked now or never will be.
LEMMA MarkedBefore ==
  ASSUME HistoryOK, JudgedOK, FlagsGrow, UNCHANGED born,
         NEW n \in 1..Len(born), parents[n] # 0, RuleSaid(parents[n], Malicious),
         FlaggedParent(n)'
  PROVE  FlaggedParent(n)
<1>1. born[n].parent_process_id = born[parents[n]].process_id
  BY DEF HistoryOK
<1>2. born[parents[n]].process_id \in DOMAIN flagged_pids_ \/ Full
  BY DEF JudgedOK, RuleSaid
<1> QED BY <1>1, <1>2 DEF FlagsGrow, FlaggedParent

-----------------------------------------------------------------------------
(* The scans and the files                                                 *)

\* A cause stays reported, and a process stays started.
LEMMA FitsStill ==
  ASSUME NEW r, NEW b, NEW b2, NEW l, NEW l2, ScanFits(r, b, l), l \subseteq l2,
         Len(b) \in Nat, Len(b2) \in Nat, Len(b) <= Len(b2),
         \A n \in 1..Len(b) : b2[n] = b[n]
  PROVE  ScanFits(r, b2, l2)
<1>1. 1..Len(b) \subseteq 1..Len(b2)
  OBVIOUS
<1> QED BY <1>1 DEF ScanFits

\* The kinds of events that a scan does not send.
SameVerdicts ==
  \A l \in log' \ log : l.kind \notin {"rule", "chain"}

\* What scans and files do leaves the rule engine's knowledge in order: the only mark
\* they add is of a process whose image holds something malicious.
LEMMA OtherThreads ==
  ASSUME IInv, UNCHANGED <<nodes_, osVars, feed, etw>>, log \subseteq log', SameVerdicts,
         \/ flagged_pids_' = flagged_pids_
         \/ \E n \in 1..Len(born) :
              /\ Found(born[n].launch.path, Malicious)
              /\ flagged_pids_' = Marked(born[n].process_id, "scan")
  PROVE  /\ HistoryOK' /\ TreeOK' /\ CallbackOK' /\ JudgedOK' /\ FlagsOK'
         /\ CausesOK' /\ LinksOK'
<1> USE DEF IInv
<1>1. HistoryOK' /\ Delivered' = Delivered /\ TreeOK' /\ UNCHANGED <<born, parents>>
  BY HistoryStays DEF TreeOK, osVars
<1>2. /\ FlagsGrow
      /\ \A pid \in DOMAIN flagged_pids_' \ DOMAIN flagged_pids_ :
           \E n \in 1..Len(born) : /\ Found(born[n].launch.path, Malicious)
                                   /\ born[n].process_id = pid
  <2>1. CASE flagged_pids_' = flagged_pids_
    BY <2>1, SameFlags
  <2>2. ASSUME NEW n \in 1..Len(born), Found(born[n].launch.path, Malicious),
               flagged_pids_' = Marked(born[n].process_id, "scan")
        PROVE  <1>2!1 /\ <1>2!2
    <3>1. born[n].process_id \in Pid
      BY DeliveredType DEF Event
    <3>2. FlagsGrow /\ DOMAIN flagged_pids_' \subseteq DOMAIN flagged_pids_ \cup {born[n].process_id}
      BY <2>2, <3>1, MarkedGrows
    <3> QED BY <2>2, <3>2
  <2> QED BY <2>1, <2>2
<1>3. /\ \A n, s : RuleSaid(n, s)' <=> RuleSaid(n, s)
      /\ \A n : ChainSaid(n)' <=> ChainSaid(n)
  BY DEF SameVerdicts, RuleSaid, ChainSaid
<1>4. \A n : RuleFired(n)' <=> RuleFired(n)
  BY <1>3 DEF RuleFired
<1>5. CallbackOK'
  <2> SUFFICES ASSUME etw' # <<>> PROVE CallbackOK'
    BY DEF CallbackOK
  <2>1. etw' = etw /\ Delivered \in 1..Len(born) /\ etw.event = born[Delivered]
    BY DEF CallbackOK
  <2>2. etw.found.chain => FlaggedParent(Delivered)'
    BY <1>1, <1>2, <2>1 DEF CallbackOK, FlaggedParent, FlagsGrow
  <2>3. ASSUME parents[Delivered] # 0, etw.found.severities # {},
               RuleSaid(parents[Delivered], Malicious), FlaggedParent(Delivered)'
        PROVE  etw.found.chain
    BY <1>1, <1>2, <2>1, <2>3, MarkedBefore DEF CallbackOK
  <2> QED BY <1>1, <1>3, <2>1, <2>2, <2>3 DEF CallbackOK, FlaggedParent
<1>6. JudgedOK'
  <2> SUFFICES ASSUME NEW l \in log, l.kind = "rule"
               PROVE  /\ Judged(l.who)'
                      /\ l.severity = Malicious =>
                           born[l.who].process_id \in DOMAIN flagged_pids_' \/ Full'
    BY <1>1 DEF JudgedOK, SameVerdicts
  <2>1. Judged(l.who)'
    BY <1>1 DEF JudgedOK, Judged
  <2>2. Full => Full'
    BY <1>2 DEF FlagsGrow, Full
  <2> QED BY <1>2, <2>1, <2>2 DEF JudgedOK, FlagsGrow
<1>7. CausesOK'
  <2>1. \A n \in 1..Len(born) : Guilty(n) => Guilty(n)'
    BY <1>1, <1>3 DEF Guilty, Found
  <2>2. \A n \in 1..Len(born) : Found(born[n].launch.path, Malicious) => Guilty(n)'
    BY <1>1 DEF Guilty, Found
  <2> QED BY <1>1, <1>2, <1>3, <2>1, <2>2 DEF CausesOK
<1>8. LinksOK'
  <2> SUFFICES ASSUME NEW n \in 1..Len(born), parents[n] # 0, RuleFired(n),
                      RuleSaid(parents[n], Malicious), FlaggedParent(n)'
               PROVE  ChainSaid(n)
    BY <1>1, <1>3, <1>4 DEF LinksOK, FlaggedParent
  <2>1. FlaggedParent(n)
    BY <1>1, <1>2, MarkedBefore
  <2> QED BY <2>1 DEF LinksOK
<1> QED BY <1>1, <1>2, <1>5, <1>6, <1>7, <1>8 DEF FlagsGrow

-----------------------------------------------------------------------------
(* The initial state                                                       *)

LEMMA InitOK == Init => IInv
<1> SUFFICES ASSUME Init PROVE IInv
  OBVIOUS
<1> USE DEF Init, EngineInit
<1>1. Len(born) = 0 /\ Len(feed) = 0 /\ Len(parents) = 0 /\ Delivered = 0
  BY DEF Delivered
<1>2. HistoryOK
  BY <1>1, PipelineAssumption DEF HistoryOK, PipelineAssumption
<1>3. TreeOK
  BY <1>1 DEF TreeOK
<1>4. FlagsOK
  <2>1. DOMAIN flagged_pids_ = {} /\ Range(flagged_pids_) = {}
    BY DEF Range
  <2>2. IsFiniteSet({}) /\ Cardinality({}) = 0
    BY FS_EmptySet
  <2> QED BY <2>1, <2>2, RuleEngineAssumption DEF FlagsOK, RuleEngineAssumption
<1>5. PlacesOK
  BY DEF PlacesOK, ScanRecord, NoScan
<1>6. \A s \in Scanner : ScanOK(s)
  BY DEF ScanOK, ScanFits, NoScan
<1>7. CausesOK
  BY DEF CausesOK
<1>8. CallbackOK /\ JudgedOK /\ LinksOK
  BY <1>1 DEF CallbackOK, JudgedOK, LinksOK
<1> QED BY <1>2, <1>3, <1>4, <1>5, <1>6, <1>7, <1>8 DEF IInv

-----------------------------------------------------------------------------
(* The steps of the rule engine                                            *)

LEMMA ProcessStartsOK ==
  ASSUME IInv, ProcessStarts
  PROVE  IInv'
<1> USE DEF IInv
<1> DEFINE L == Len(born)
<1>1. UNCHANGED <<nodes_, flagged_pids_, etw, etw_scanned_paths, present, scan, log>>
  BY DEF ProcessStarts, engineVars
<1>2. /\ HistoryOK' /\ Len(born') = L + 1 /\ Delivered' = Delivered
      /\ \A n \in 1..L : born'[n] = born[n] /\ parents'[n] = parents[n]
  BY HistoryGrows DEF PlacesOK
<1>3. L \in Nat /\ Delivered \in 0..L /\ 1..(L + 1) = 1..L \cup {L + 1}
  BY DeliveredType
<1>4. 1..Delivered \subseteq 1..L
  BY <1>3
<1>5. TreeOK'
  <2>1. \A m \in 1..Delivered : born'[m] = born[m]
    BY <1>2, <1>4
  <2>2. DOMAIN nodes_' = {born'[m].process_id : m \in 1..Delivered}
    BY <1>1, <2>1 DEF TreeOK
  <2>3. ASSUME NEW m \in 1..Delivered,
               \A j \in (m + 1)..Delivered : born'[j].process_id # born'[m].process_id
        PROVE  nodes_'[born'[m].process_id] = born'[m]
    <3>1. \A j \in (m + 1)..Delivered : j \in 1..Delivered
      BY <1>3
    <3>2. \A j \in (m + 1)..Delivered : born[j].process_id # born[m].process_id
      BY <2>1, <2>3, <3>1
    <3> QED BY <1>1, <2>1, <3>2 DEF TreeOK
  <2> QED BY <1>2, <2>2, <2>3 DEF TreeOK
<1>6. \A n \in 1..L : FlaggedParent(n)' <=> FlaggedParent(n)
  BY <1>1, <1>2 DEF FlaggedParent
<1>7. /\ \A n, s : RuleSaid(n, s)' <=> RuleSaid(n, s)
      /\ \A n : ChainSaid(n)' <=> ChainSaid(n)
      /\ \A n : RuleFired(n)' <=> RuleFired(n)
  BY <1>1 DEF RuleSaid, ChainSaid, RuleFired
<1>8. CallbackOK'
  <2> SUFFICES ASSUME etw # <<>> PROVE CallbackOK'
    BY <1>1 DEF CallbackOK
  <2>1. Delivered \in 1..L /\ Delivered \in 1..Len(born')
    BY <1>2, <1>3 DEF CallbackOK
  <2> QED BY <1>1, <1>2, <1>6, <1>7, <2>1 DEF CallbackOK
<1>9. JudgedOK'
  <2> SUFFICES ASSUME NEW l \in log, l.kind = "rule"
               PROVE  /\ Judged(l.who)'
                      /\ l.severity = Malicious =>
                           born'[l.who].process_id \in DOMAIN flagged_pids_' \/ Full'
    BY <1>1 DEF JudgedOK
  <2>1. Judged(l.who) /\ l.who \in 1..L
    BY <1>4 DEF JudgedOK, Judged
  <2> QED BY <1>1, <1>2, <2>1 DEF JudgedOK, Judged, Full
<1>10. FlagsOK' /\ PlacesOK'
  BY <1>1 DEF FlagsOK, PlacesOK
<1>11. \A s \in Scanner : ScanOK(s)'
  <2> SUFFICES ASSUME NEW s \in Scanner PROVE ScanFits(scan[s], born', log)
    BY <1>1 DEF ScanOK
  <2>1. ScanFits(scan[s], born, log)
    BY DEF ScanOK
  <2> QED BY <1>2, <1>3, <2>1, FitsStill
<1>12. CausesOK'
  <2>1. \A n \in 1..L : n \in 1..Len(born') /\ (Guilty(n) => Guilty(n)')
    BY <1>1, <1>2, <1>3, <1>7 DEF Guilty, Found
  <2> QED BY <1>1, <1>2, <1>7, <2>1 DEF CausesOK
<1>13. LinksOK'
  <2> SUFFICES ASSUME NEW n \in 1..(L + 1), parents'[n] # 0, RuleFired(n)',
                      RuleSaid(parents[n], Malicious)', FlaggedParent(n)'
               PROVE  ChainSaid(n)'
    BY <1>2 DEF LinksOK
  <2>1. n \in 1..L
    BY <1>4, <1>7 DEF RuleFired, RuleSaid, JudgedOK, Judged
  <2> QED BY <1>2, <1>6, <1>7, <2>1 DEF LinksOK
<1> QED BY <1>2, <1>5, <1>8, <1>9, <1>10, <1>11, <1>12, <1>13

LEMMA EvaluatesOK ==
  ASSUME IInv, Evaluates
  PROVE  IInv'
<1> USE DEF IInv
<1>1. /\ etw = <<>> /\ feed # <<>> /\ feed' = Tail(feed)
      /\ nodes_' = Insert(nodes_, Head(feed))
      /\ etw' = [event |-> Head(feed), found |-> Detections(Head(feed))]
      /\ UNCHANGED <<flagged_pids_, born, parents, etw_scanned_paths, present, scan, log>>
      /\ UNCHANGED osVars
  BY DEF Evaluates, osVars
<1> DEFINE k == Delivered + 1  e == born[k]
<1>2. HistoryOK' /\ Delivered' = k /\ k \in 1..Len(born) /\ Head(feed) = e /\ Delivered \in Nat
  BY <1>1, OneDelivered, DeliveredType
<1>3. TreeOK'
  BY <1>1, TreeGrows
<1>4. CallbackOK'
  <2>1. etw'.event = e /\ etw'.found = Detections(e)
    BY <1>1, <1>2
  <2>2. Detections(e).chain = Chained(e, Detections(e).severities)
    BY DEF Detections
  <2>3. Detections(e).chain <=> FlaggedParent(k) /\ Detections(e).severities # {}
    BY <2>2 DEF Chained, FlaggedParent
  <2>4. FlaggedParent(Delivered)' <=> FlaggedParent(k)
    BY <1>1, <1>2 DEF FlaggedParent
  <2> QED BY <1>1, <1>2, <2>1, <2>3, <2>4 DEF CallbackOK, FlaggedParent
<1>5. JudgedOK'
  <2> SUFFICES ASSUME NEW l \in log, l.kind = "rule"
               PROVE  /\ Judged(l.who)'
                      /\ l.severity = Malicious =>
                           born[l.who].process_id \in DOMAIN flagged_pids_' \/ Full'
    BY <1>1 DEF JudgedOK
  <2>1. l.who \in 1..Delivered
    BY DEF JudgedOK, Judged
  <2>2. Judged(l.who)'
    BY <1>2, <2>1 DEF Judged
  <2> QED BY <1>1, <2>2 DEF JudgedOK, Full
<1>6. FlagsOK' /\ PlacesOK' /\ CausesOK' /\ LinksOK'
  BY <1>1 DEF FlagsOK, PlacesOK, CausesOK, LinksOK, Guilty, RuleSaid, RuleFired,
              ChainSaid, Found, FlaggedParent
<1>7. \A s \in Scanner : ScanOK(s)'
  BY <1>1 DEF ScanOK
<1> QED BY <1>2, <1>3, <1>4, <1>5, <1>6, <1>7

\* A scan that begins fits, if it is started for a process with that image or for none.
LEMMA BeginsFits ==
  ASSUME PlacesOK, NEW s \in Scanner, NEW path \in Path, NEW pid \in Pid \cup {0},
         Begins(s, path, pid),
         pid # 0 => \E n \in 1..Len(born) : /\ born[n].process_id = pid
                                            /\ born[n].launch.path = path
  PROVE  /\ scan' \in [Scanner -> ScanRecord]
         /\ \A t \in Scanner : t # s => scan'[t] = scan[t]
         /\ ScanFits(scan'[s], born, log')
<1> DEFINE r == [NoScan EXCEPT !.pc = Stage[1], !.path = path, !.etw_pid = pid]
<1>1. Stage[1] = "hash"
  BY DEF Stage
<1>2. /\ r \in ScanRecord
      /\ r.pc = "hash" /\ r.path = path /\ r.etw_pid = pid /\ r.quarantine_cause = None
  BY <1>1 DEF ScanRecord, NoScan
<1>3. scan \in [Scanner -> ScanRecord] /\ scan' = [scan EXCEPT ![s] = r]
  BY DEF PlacesOK, Begins
<1> HIDE DEF r
<1>4. scan' \in [Scanner -> ScanRecord] /\ scan'[s] = r
      /\ \A t \in Scanner : t # s => scan'[t] = scan[t]
  BY <1>2, <1>3
<1>5. ScanFits(r, born, log')
  BY <1>2 DEF ScanFits
<1> QED BY <1>4, <1>5

LEMMA ScansStay ==
  ASSUME HistoryOK, \A s \in Scanner : ScanOK(s), log \subseteq log', UNCHANGED born,
         \A t \in Scanner : scan'[t] = scan[t] \/ ScanFits(scan'[t], born, log')
  PROVE  \A s \in Scanner : ScanOK(s)'
<1> SUFFICES ASSUME NEW s \in Scanner PROVE ScanFits(scan'[s], born, log')
  BY DEF ScanOK
<1>1. CASE scan'[s] = scan[s]
  <2>1. ScanFits(scan[s], born, log)
    BY DEF ScanOK
  <2>2. Len(born) \in Nat
    BY DeliveredType
  <2>3. ScanFits(scan[s], born, log')
    BY <2>1, <2>2, FitsStill
  <2> QED BY <1>1, <2>3
<1> QED BY <1>1

LEMMA MarksAndEmitsOK ==
  ASSUME IInv, MarksAndEmits
  PROVE  IInv'
<1> USE DEF IInv
<1> DEFINE e == etw.event  found == etw.found  why == MarkOf(found)
<1>0. PICK D \in 1..Len(born) : D = Delivered
  BY DEF MarksAndEmits, CallbackOK
<1>1. /\ etw # <<>> /\ etw' = <<>>
      /\ flagged_pids_' = IF why = "none" THEN flagged_pids_ ELSE Marked(e.process_id, why)
      /\ log' = log \cup RuleEvents(e, found)
      /\ etw_scanned_paths' = etw_scanned_paths \cup {e.launch.path}
      /\ \/ Begins(e.launch.path, e.launch.path, e.process_id)
         \/ UNCHANGED scan
      /\ UNCHANGED <<nodes_, born, parents, feed, present>> /\ UNCHANGED osVars
  BY DEF MarksAndEmits, osVars
<1>2. /\ D \in 1..Len(born) /\ e = born[D] /\ e.who = D /\ e.launch.path \in Path
      /\ e.process_id \in Pid /\ parents[D] \in 0..(D - 1)
  BY <1>0, <1>1, DeliveredType DEF CallbackOK, HistoryOK, Event
<1>3. HistoryOK' /\ Delivered' = D /\ TreeOK' /\ CallbackOK'
  BY <1>0, <1>1, HistoryStays DEF TreeOK, CallbackOK
<1>4. /\ why \in {"rule", "chain", "none"}
      /\ why = "rule" <=> Malicious \in found.severities
      /\ why = "chain" => found.chain
  BY DEF MarkOf
<1> HIDE DEF why
<1>5. /\ FlagsGrow
      /\ DOMAIN flagged_pids_' \subseteq DOMAIN flagged_pids_ \cup {e.process_id}
      /\ why = "none" => DOMAIN flagged_pids_' = DOMAIN flagged_pids_
      /\ why # "none" => e.process_id \in DOMAIN flagged_pids_' \/ Full'
  <2>1. CASE why = "none"
    BY <2>1, <1>1, SameFlags
  <2>2. CASE why # "none"
    <3>1. flagged_pids_' = Marked(e.process_id, why) /\ why \in {"rule", "chain", "scan"}
      BY <2>2, <1>1, <1>4
    <3> QED BY <2>2, <3>1, <1>2, MarkedGrows
  <2> QED BY <2>1, <2>2
<1>6. /\ log \subseteq log'
      /\ \A l \in log' \ log :
           \/ l.kind = "rule" /\ l.who = D /\ l.severity \in found.severities
           \/ l.kind = "chain" /\ found.chain
  BY <1>1, <1>2 DEF RuleEvents
<1>7. ASSUME NEW m, NEW s
      PROVE  RuleSaid(m, s)' <=> RuleSaid(m, s) \/ (m = D /\ s \in found.severities)
  BY <1>1, <1>2 DEF RuleEvents, RuleSaid
<1>8. ASSUME NEW m
      PROVE  ChainSaid(m)' <=> ChainSaid(m) \/ (m = D /\ found.chain)
  BY <1>1, <1>2 DEF RuleEvents, ChainSaid
<1>9. \A m, s : RuleSaid(m, s) => m \in 1..D /\ m # D
  BY <1>0, <1>1 DEF RuleSaid, JudgedOK, Judged
<1>10. JudgedOK'
  <2> SUFFICES ASSUME NEW l \in log', l.kind = "rule"
               PROVE  /\ Judged(l.who)'
                      /\ l.severity = Malicious =>
                           born[l.who].process_id \in DOMAIN flagged_pids_' \/ Full'
    BY <1>1 DEF JudgedOK
  <2>1. CASE l \in log
    <3>1. Judged(l.who)'
      BY <2>1, <1>0, <1>1, <1>3 DEF JudgedOK, Judged
    <3>2. Full => Full'
      BY <1>5 DEF FlagsGrow, Full
    <3> QED BY <2>1, <3>1, <3>2, <1>5 DEF JudgedOK, FlagsGrow
  <2>2. CASE l \notin log
    <3>1. l.who = D /\ l.severity \in found.severities
      BY <2>2, <1>6
    <3>2. Judged(l.who)'
      BY <3>1, <1>1, <1>2, <1>3 DEF Judged
    <3> QED BY <3>1, <3>2, <1>2, <1>4, <1>5
  <2> QED BY <2>1, <2>2
<1>11. CausesOK'
  <2>1. ASSUME NEW m \in 1..Len(born) PROVE (Guilty(m) => Guilty(m)') /\ (ChainSaid(m) => ChainSaid(m)')
    BY <1>1, <1>6, <1>7, <1>8 DEF Guilty, Found
  <2>2. CASE DOMAIN flagged_pids_' = DOMAIN flagged_pids_
    BY <2>1, <2>2, <1>1 DEF CausesOK
  <2>3. CASE why = "rule"
    <3>1. Guilty(D)'
      BY <2>3, <1>3, <1>4, <1>7 DEF Guilty
    <3> QED BY <2>1, <3>1, <1>1, <1>2, <1>5 DEF CausesOK
  <2>4. CASE why = "chain"
    <3>1. ChainSaid(D)' /\ DOMAIN flagged_pids_ # {}
      BY <2>4, <1>0, <1>1, <1>4, <1>8 DEF CallbackOK, FlaggedParent
    <3> QED BY <2>1, <3>1, <1>1, <1>2, <1>5 DEF CausesOK
  <2> QED BY <2>2, <2>3, <2>4, <1>4, <1>5
<1>12. LinksOK'
  <2> SUFFICES ASSUME NEW n \in 1..Len(born), parents[n] # 0, RuleFired(n)',
                      RuleSaid(parents[n], Malicious)', FlaggedParent(n)'
               PROVE  ChainSaid(n)'
    BY <1>1 DEF LinksOK
  <2>1. PICK s \in Severity : RuleSaid(n, s)'
    BY DEF RuleFired
  <2>2. n \in 1..D /\ parents[n] < n /\ parents[n] \in Nat /\ D \in Nat
    BY <2>1, <1>2, <1>7, <1>9, DeliveredType
  <2>3. RuleSaid(parents[n], Malicious)
    <3>1. parents[n] # D
      BY <2>2
    <3>2. RuleSaid(parents[n], Malicious)' <=>
            RuleSaid(parents[n], Malicious) \/ (parents[n] = D /\ Malicious \in found.severities)
      BY <1>1, <1>2 DEF RuleEvents, RuleSaid
    <3> QED BY <3>1, <3>2
  <2>4. FlaggedParent(n)
    BY <2>3, <1>1, <1>5, MarkedBefore
  <2>5. CASE n = D
    <3>1. s \in found.severities
      BY <2>1, <2>5, <1>7, <1>9
    <3> QED BY <2>3, <2>4, <2>5, <3>1, <1>0, <1>1, <1>8 DEF CallbackOK
  <2>6. CASE n # D
    <3>1. RuleFired(n)
      BY <2>1, <2>6, <1>7 DEF RuleFired
    <3> QED BY <2>3, <2>4, <3>1, <1>8 DEF LinksOK
  <2> QED BY <2>5, <2>6
<1>13. PlacesOK' /\ \A s \in Scanner : ScanOK(s)'
  <2>1. /\ scan' \in [Scanner -> ScanRecord]
        /\ \A t \in Scanner : scan'[t] = scan[t] \/ ScanFits(scan'[t], born, log')
    <3>1. CASE UNCHANGED scan
      BY <3>1 DEF PlacesOK
    <3>2. CASE Begins(e.launch.path, e.launch.path, e.process_id)
      <4>1. e.launch.path \in Scanner
        BY <1>2 DEF Scanner
      <4> QED BY <3>2, <4>1, <1>2, BeginsFits
    <3> QED BY <3>1, <3>2, <1>1
  <2>2. PlacesOK'
    BY <2>1, <1>1, <1>2 DEF PlacesOK
  <2> QED BY <2>1, <2>2, <1>1, <1>6, ScansStay
<1> QED BY <1>3, <1>5, <1>10, <1>11, <1>12, <1>13 DEF FlagsGrow

-----------------------------------------------------------------------------
(* The steps of the scans                                                  *)

\* A scan goes on, and the others stay where they are.
LEMMA GoesOn ==
  ASSUME IInv, NEW s \in Scanner, NEW r \in ScanRecord, Goes(s, r),
         ScanFits(r, born, log'), log \subseteq log', UNCHANGED born
  PROVE  /\ scan' \in [Scanner -> ScanRecord]
         /\ \A t \in Scanner : ScanOK(t)'
<1>1. /\ scan' \in [Scanner -> ScanRecord]
      /\ \A t \in Scanner : t # s => scan'[t] = scan[t]
      /\ scan'[s] = r
  BY DEF IInv, PlacesOK, Goes
<1> QED BY <1>1, ScansStay DEF IInv

\* A cause is kept, or is one of the detections, and then a serious one.
LEMMA CauseFound ==
  ASSUME NEW found \in Seq(Severity), NEW cause \in {None, Suspicious, Malicious}
  PROVE  /\ CauseOf(cause, found) \in {None, Suspicious, Malicious}
         /\ CauseOf(cause, found) # cause => CauseOf(cause, found) \in Range(found)
<1> DEFINE serious == {i \in DOMAIN found : found[i] >= Suspicious}
<1>1. CASE cause # None \/ serious = {}
  BY <1>1 DEF CauseOf
<1>2. CASE ~(cause # None \/ serious = {})
  <2>1. DOMAIN found = 1..Len(found) /\ \A i \in DOMAIN found : found[i] \in Severity
    OBVIOUS
  <2>2. Min(serious) \in serious
    <3>1. serious \in SUBSET Nat
      BY <2>1
    <3> HIDE DEF serious
    <3> QED BY <1>2, <3>1, LeastElement
  <2>3. found[Min(serious)] \in Range(found) /\ found[Min(serious)] \in {Suspicious, Malicious}
    <3>1. PICK i \in DOMAIN found : i = Min(serious) /\ found[i] >= Suspicious
      BY <2>2
    <3>2. found[i] \in {Suspicious, Malicious}
      BY <2>1, <3>1 DEF Severity, Info, Suspicious, Malicious
    <3> QED BY <3>1, <3>2 DEF Range
  <2>4. CauseOf(cause, found) = found[Min(serious)]
    BY <1>2 DEF CauseOf
  <2> QED BY <2>3, <2>4
<1> QED BY <1>1, <1>2

LEMMA ExaminesOK ==
  ASSUME IInv, NEW s \in Scanner, Examines(s)
  PROVE  IInv'
<1> DEFINE path == scan[s].path
           found == IF path \in present THEN Content[path][scan[s].pc] ELSE <<>>
           r == [scan[s] EXCEPT !.pc = AfterStage(@), !.quarantine_cause = CauseOf(@, found)]
<1>1. /\ scan[s].pc \in {"hash", "yara", "pe"}
      /\ log' = log \cup FoundEvents(path, found)
      /\ Goes(s, r)
      /\ UNCHANGED <<nodes_, flagged_pids_, osVars, feed, etw, etw_scanned_paths, present>>
  BY Stages DEF Examines, engineVars
<1>2. scan[s] \in ScanRecord /\ ScanFits(scan[s], born, log)
  BY DEF IInv, PlacesOK, ScanOK
<1>3. path \in Path
  BY <1>1, <1>2 DEF ScanFits
<1>4. found \in Seq(Severity)
  <2>1. Content[path] \in [{"hash", "yara", "pe"} -> Seq(Severity)]
    BY <1>3, Stages, PipelineAssumption DEF PipelineAssumption
  <2> QED BY <1>1, <2>1
<1> HIDE DEF found
<1>5. /\ CauseOf(scan[s].quarantine_cause, found) \in {None, Suspicious, Malicious}
      /\ CauseOf(scan[s].quarantine_cause, found) # scan[s].quarantine_cause
            => CauseOf(scan[s].quarantine_cause, found) \in Range(found)
  BY <1>2, <1>4, CauseFound DEF ScanRecord
<1>6. AfterStage(scan[s].pc) \in {"yara", "pe", "decide"}
  BY <1>1 DEF AfterStage
<1>7. /\ r \in ScanRecord /\ r.pc \in {"yara", "pe", "decide"}
      /\ r.path = path /\ r.etw_pid = scan[s].etw_pid
      /\ r.quarantine_cause = CauseOf(scan[s].quarantine_cause, found)
  BY <1>2, <1>5, <1>6 DEF ScanRecord
<1> HIDE DEF r
<1>8. log \subseteq log' /\ SameVerdicts
  BY <1>1 DEF FoundEvents, SameVerdicts
<1>9. ScanFits(r, born, log')
  <2>1. \A d \in Range(found) : [kind |-> "found", path |-> path, severity |-> d] \in log'
    BY <1>1 DEF FoundEvents
  <2>2. r.quarantine_cause # None =>
          [kind |-> "found", path |-> r.path, severity |-> r.quarantine_cause] \in log'
    BY <1>2, <1>5, <1>7, <1>8, <2>1 DEF ScanFits
  <2>3. r.etw_pid # 0 => \E n \in 1..Len(born) : /\ born[n].process_id = r.etw_pid
                                                  /\ born[n].launch.path = r.path
    BY <1>2, <1>7 DEF ScanFits
  <2> QED BY <1>3, <1>7, <2>2, <2>3 DEF ScanFits
<1>10. PlacesOK' /\ \A t \in Scanner : ScanOK(t)'
  BY <1>1, <1>7, <1>8, <1>9, GoesOn DEF IInv, PlacesOK, osVars
<1> QED BY <1>1, <1>8, <1>10, OtherThreads DEF IInv

LEMMA DecidesOK ==
  ASSUME IInv, NEW s \in Scanner, Decides(s)
  PROVE  IInv'
<1>1. /\ scan[s].pc = "decide"
      /\ UNCHANGED <<nodes_, osVars, feed, etw, etw_scanned_paths, present, log>>
      /\ log \subseteq log' /\ SameVerdicts
  BY DEF Decides, SameVerdicts
<1>2. scan[s] \in ScanRecord /\ ScanFits(scan[s], born, log)
  BY DEF IInv, PlacesOK, ScanOK
<1>3. CASE scan[s].quarantine_cause = None
  <2>1. Goes(s, NoScan) /\ flagged_pids_' = flagged_pids_
    BY <1>3 DEF Decides
  <2>2. NoScan \in ScanRecord /\ ScanFits(NoScan, born, log')
    BY DEF NoScan, ScanRecord, ScanFits
  <2>3. PlacesOK' /\ \A t \in Scanner : ScanOK(t)'
    BY <1>1, <2>1, <2>2, GoesOn DEF IInv, PlacesOK, osVars
  <2> QED BY <1>1, <2>1, <2>3, OtherThreads DEF IInv
<1>4. CASE scan[s].quarantine_cause # None
  <2> DEFINE r == [scan[s] EXCEPT !.pc = "move"]
  <2>1. /\ Goes(s, r)
        /\ flagged_pids_' = IF Marks(s) THEN Marked(scan[s].etw_pid, "scan") ELSE flagged_pids_
    BY <1>4 DEF Decides
  <2>2. /\ r \in ScanRecord /\ r.pc = "move" /\ r.path = scan[s].path
        /\ r.etw_pid = scan[s].etw_pid /\ r.quarantine_cause = scan[s].quarantine_cause
    BY <1>2 DEF ScanRecord
  <2> HIDE DEF r
  <2>3. ScanFits(r, born, log')
    BY <1>1, <1>2, <1>4, <2>2 DEF ScanFits
  <2>4. PlacesOK' /\ \A t \in Scanner : ScanOK(t)'
    BY <1>1, <2>1, <2>2, <2>3, GoesOn DEF IInv, PlacesOK, osVars
  <2>5. \/ flagged_pids_' = flagged_pids_
        \/ \E n \in 1..Len(born) :
             /\ Found(born[n].launch.path, Malicious)
             /\ flagged_pids_' = Marked(born[n].process_id, "scan")
    BY <1>2, <1>4, <2>1 DEF Marks, ScanFits, Found
  <2> QED BY <1>1, <2>4, <2>5, OtherThreads DEF IInv
<1> QED BY <1>3, <1>4

LEMMA MovesOK ==
  ASSUME IInv, NEW s \in Scanner, Moves(s)
  PROVE  IInv'
<1>1. /\ scan[s].pc = "move"
      /\ UNCHANGED <<nodes_, flagged_pids_, osVars, feed, etw, etw_scanned_paths, log>>
      /\ log \subseteq log' /\ SameVerdicts /\ present' \subseteq present
  BY DEF Moves, SameVerdicts, engineVars
<1>2. scan[s] \in ScanRecord /\ ScanFits(scan[s], born, log)
  BY DEF IInv, PlacesOK, ScanOK
<1>3. PICK pc \in {"moved", "notMoved"} : Goes(s, [scan[s] EXCEPT !.pc = pc])
  BY DEF Moves
<1> DEFINE r == [scan[s] EXCEPT !.pc = pc]
<1>4. /\ r \in ScanRecord /\ r.pc = pc /\ r.path = scan[s].path
      /\ r.etw_pid = scan[s].etw_pid /\ r.quarantine_cause = scan[s].quarantine_cause
  BY <1>2 DEF ScanRecord
<1>5. Goes(s, r)
  BY <1>3
<1> HIDE DEF r
<1>6. ScanFits(r, born, log')
  BY <1>1, <1>2, <1>4 DEF ScanFits
<1>7. PlacesOK' /\ \A t \in Scanner : ScanOK(t)'
  BY <1>1, <1>4, <1>5, <1>6, GoesOn DEF IInv, PlacesOK, osVars
<1> QED BY <1>1, <1>7, OtherThreads DEF IInv

LEMMA EmitsStatusOK ==
  ASSUME IInv, NEW s \in Scanner, EmitsStatus(s)
  PROVE  IInv'
<1>1. /\ Goes(s, NoScan) /\ log' = log \cup Status(s)
      /\ UNCHANGED <<nodes_, flagged_pids_, osVars, feed, etw, etw_scanned_paths, present>>
  BY DEF EmitsStatus, engineVars
<1>2. log \subseteq log' /\ SameVerdicts
  BY <1>1 DEF SameVerdicts, Status
<1>3. NoScan \in ScanRecord /\ ScanFits(NoScan, born, log')
  BY DEF NoScan, ScanRecord, ScanFits
<1>4. PlacesOK' /\ \A t \in Scanner : ScanOK(t)'
  BY <1>1, <1>2, <1>3, GoesOn DEF IInv, PlacesOK, osVars
<1> QED BY <1>1, <1>2, <1>4, OtherThreads DEF IInv

LEMMA FilesOK ==
  ASSUME IInv, NEW path \in Watched, FileReturns(path) \/ FileChanged(path)
  PROVE  IInv'
<1>1. /\ UNCHANGED <<nodes_, flagged_pids_, osVars, feed, etw, etw_scanned_paths, log>>
      /\ log \subseteq log' /\ SameVerdicts /\ path \in Path /\ UNCHANGED born
  BY PipelineAssumption DEF FileReturns, FileChanged, engineVars, SameVerdicts,
                            PipelineAssumption, osVars
<1>2. PlacesOK' /\ \A s \in Scanner : ScanOK(s)'
  <2>1. CASE FileReturns(path)
    <3>1. UNCHANGED scan /\ present' = present \cup {path}
      BY <2>1 DEF FileReturns
    <3> QED BY <1>1, <3>1 DEF IInv, PlacesOK, ScanOK
  <2>2. CASE FileChanged(path)
    <3>1. Begins(Watcher, path, 0) /\ UNCHANGED present /\ Watcher \in Scanner
      BY <2>2 DEF FileChanged, Scanner
    <3>2. /\ scan' \in [Scanner -> ScanRecord]
          /\ \A t \in Scanner : t # Watcher => scan'[t] = scan[t]
          /\ ScanFits(scan'[Watcher], born, log')
      BY <1>1, <3>1, BeginsFits DEF IInv
    <3> QED BY <1>1, <3>1, <3>2, ScansStay DEF IInv, PlacesOK
  <2> QED BY <2>1, <2>2
<1> QED BY <1>1, <1>2, OtherThreads DEF IInv

LEMMA Inductive == IInv /\ [Next]_vars => IInv'
<1> SUFFICES ASSUME IInv, [Next]_vars PROVE IInv'
  OBVIOUS
<1>1. CASE ProcessStarts
  BY <1>1, ProcessStartsOK
<1>2. CASE \E path \in Watched : FileReturns(path) \/ FileChanged(path)
  BY <1>2, FilesOK
<1>3. CASE Evaluates
  BY <1>3, EvaluatesOK
<1>4. CASE MarksAndEmits
  BY <1>4, MarksAndEmitsOK
<1>5. CASE \E s \in Scanner : ScanStep(s)
  BY <1>5, ExaminesOK, DecidesOK, MovesOK, EmitsStatusOK DEF ScanStep
<1>6. CASE UNCHANGED vars
  <2>1. /\ UNCHANGED <<nodes_, flagged_pids_, osVars, feed, etw, etw_scanned_paths,
                       present, scan, log>>
        /\ log \subseteq log' /\ SameVerdicts /\ UNCHANGED born
    BY <1>6 DEF vars, engineVars, osVars, SameVerdicts
  <2>2. PlacesOK' /\ \A s \in Scanner : ScanOK(s)'
    BY <2>1 DEF IInv, PlacesOK, ScanOK
  <2> QED BY <2>1, <2>2, OtherThreads DEF IInv
<1> QED BY <1>1, <1>2, <1>3, <1>4, <1>5, <1>6 DEF Next

LEMMA Invariant == Spec => []IInv
BY InitOK, Inductive, PTL DEF Spec

-----------------------------------------------------------------------------
(* The theorems                                                            *)

(***************************************************************************)
(* Of a judged process the rules see the process that started it, if its   *)
(* start was seen at all, and otherwise none (ProcessTree).                *)
(***************************************************************************)
THEOREM RealParentSeen == Spec => []RuleSeesRealParent
<1>1. IInv => RuleSeesRealParent
  <2> SUFFICES ASSUME IInv, etw # <<>>
               PROVE  LET e == etw.event
                      IN  IF parents[e.who] # 0
                            THEN nodes_[e.parent_process_id].who = parents[e.who]
                            ELSE e.parent_process_id \notin DOMAIN nodes_
    BY DEF RuleSeesRealParent
  <2>1. PICK n \in 1..Len(born) : n = Delivered /\ etw.event = born[n] /\ born[n].who = n
    BY DEF IInv, CallbackOK, HistoryOK
  <2> QED BY <2>1, ParentFound DEF IInv
<1> QED BY <1>1, Invariant, PTL

(***************************************************************************)
(* The pipeline keeps its types, its table of marks stays within its       *)
(* limit, and no process is marked without a cause (MarkPidMalicious and   *)
(* its three callers).                                                     *)
(***************************************************************************)
THEOREM MarksJustified == Spec => []MarksInv
<1>1. IInv => MarksInv
  <2> SUFFICES ASSUME IInv PROVE TypeOK /\ MarksHaveACause
    BY DEF MarksInv
  <2> USE DEF IInv
  <2>1. Range(born) \subseteq Event /\ Process = 1..Len(born)
    BY DeliveredType DEF Range, Process
  <2>2. DOMAIN nodes_ \subseteq Pid
    BY DeliveredType DEF TreeOK, Event
  <2>3. Range(nodes_) \subseteq Event
    <3> SUFFICES ASSUME NEW pid \in DOMAIN nodes_ PROVE nodes_[pid] \in Event
      BY DEF Range
    <3> QED BY LastOfPid
  <2>4. feed = SubSeq(born, Delivered + 1, Len(born))
    BY FeedIsRest
  <2>5. TypeOK
    BY <2>1, <2>2, <2>3, <2>4, Stages
       DEF TypeOK, HistoryOK, FlagsOK, PlacesOK, ScanRecord
  <2>6. MarksHaveACause
    BY <2>1 DEF MarksHaveACause, CausesOK, Guilty
  <2> QED BY <2>5, <2>6
<1> QED BY <1>1, Invariant, PTL

(***************************************************************************)
(* A process that fires a rule under a marked parent that a rule has       *)
(* called Malicious is linked to it (the chain event of OnProcessCreate).  *)
(***************************************************************************)
THEOREM LineageLinked == Spec => []LineageCorrelated
<1>1. IInv => LineageCorrelated
  <2> SUFFICES ASSUME IInv PROVE LineageCorrelated
    OBVIOUS
  <2>1. Process = 1..Len(born)
    BY DeliveredType DEF IInv, Process
  <2> QED BY <2>1 DEF IInv, LinksOK, FlaggedParent, LineageCorrelated
<1> QED BY <1>1, Invariant, PTL

(***************************************************************************)
(* No file leaves its place before a serious detection in it has been      *)
(* reported (ScanOneFile, Emit, Quarantine).                               *)
(***************************************************************************)
THEOREM RemovalReported == Spec => RemovedOnlyReported
<1>1. ASSUME IInv, [Next]_vars, NEW path \in present \ present'
      PROVE  Found(path, Suspicious) \/ Found(path, Malicious)
  <2>1. PICK s \in Scanner : Moves(s) /\ scan[s].path = path
    BY <1>1 DEF Next, ProcessStarts, FileReturns, FileChanged, Evaluates, MarksAndEmits,
                ScanStep, Examines, Decides, Moves, EmitsStatus, vars
  <2>2. scan[s] \in ScanRecord /\ ScanFits(scan[s], born, log) /\ scan[s].pc = "move"
    BY <1>1, <2>1 DEF IInv, PlacesOK, ScanOK, Moves
  <2> QED BY <2>1, <2>2 DEF ScanRecord, ScanFits, Found
<1>2. IInv /\ [Next]_vars => \A path \in present \ present' :
                               Found(path, Suspicious) \/ Found(path, Malicious)
  BY <1>1
<1> QED BY <1>2, Invariant, PTL DEF Spec, RemovedOnlyReported

(***************************************************************************)
(* No scan with a cause ends without a word on the file, and none says     *)
(* that it is in quarantine if it has not been moved (Quarantine).         *)
(***************************************************************************)
THEOREM CausesAnswered == Spec => EveryCauseAnswered
<1> DEFINE Answered(s) ==
      \E l \in log' : /\ l.kind = (IF scan[s].pc = "moved" THEN "SYS.QUARANTINED"
                                    ELSE "SYS.QUARANTINE_FAILED")
                      /\ l.path = scan[s].path
<1>1. ASSUME IInv, [Next]_vars, NEW s \in Scanner,
             scan[s].quarantine_cause # None, scan'[s].pc = "idle"
      PROVE  Answered(s)
  <2>1. scan \in [Scanner -> ScanRecord] /\ scan[s].pc # "idle"
    BY <1>1 DEF IInv, PlacesOK, ScanOK, ScanFits
  <2>2. EmitsStatus(s)
    <3>1. scan' # scan
      BY <1>1, <2>1
    <3>2. CASE \E t \in Scanner : ScanStep(t)
      <4>1. PICK t \in Scanner : ScanStep(t)
        BY <3>2
      <4>2. PICK r : Goes(t, r)
        BY <4>1 DEF ScanStep, Examines, Decides, Moves, EmitsStatus
      <4>3. t = s
        BY <1>1, <2>1, <4>2 DEF Goes
      <4>4. ~Decides(s) /\ ~Moves(s)
        <5>1. ASSUME NEW pc, Goes(s, [scan[s] EXCEPT !.pc = pc]) PROVE pc = "idle"
          BY <1>1, <2>1, <5>1 DEF Goes, ScanRecord
        <5> QED BY <1>1, <5>1 DEF Decides, Moves
      <4>5. ~Examines(s)
        <5> SUFFICES ASSUME Examines(s) PROVE FALSE
          OBVIOUS
        <5>1. scan[s].pc \in {"hash", "yara", "pe"}
          BY Stages DEF Examines
        <5>2. PICK cause : Goes(s, [scan[s] EXCEPT !.pc = AfterStage(@), !.quarantine_cause = cause])
          BY DEF Examines
        <5>3. scan'[s].pc = AfterStage(scan[s].pc)
          BY <2>1, <5>2 DEF Goes, ScanRecord
        <5>4. AfterStage(scan[s].pc) \in {"yara", "pe", "decide"}
          BY <5>1 DEF AfterStage
        <5> QED BY <1>1, <5>3, <5>4
      <4> QED BY <4>1, <4>3, <4>4, <4>5 DEF ScanStep
    <3>3. CASE \E t \in Scanner : \E path, pid : Begins(t, path, pid)
      <4>1. PICK t \in Scanner : \E path, pid : Begins(t, path, pid)
        BY <3>3
      <4>. PICK path, pid : Begins(t, path, pid)
        BY <4>1
      <4>2. CASE t = s
        BY <1>1, <2>1, <4>2 DEF Begins, NoScan, Stage
      <4>3. CASE t # s
        BY <1>1, <2>1, <4>3 DEF Begins
      <4> QED BY <4>2, <4>3
    <3>4. \/ scan' = scan
          \/ \E t \in Scanner : ScanStep(t)
          \/ \E t \in Scanner : \E path, pid : Begins(t, path, pid)
      <4>1. CASE MarksAndEmits
        <5>1. /\ etw # <<>>
              /\ scan' = scan \/ Begins(etw.event.launch.path, etw.event.launch.path,
                                       etw.event.process_id)
          BY <4>1 DEF MarksAndEmits
        <5>2. etw.event.launch.path \in Scanner
          BY <1>1, <5>1 DEF IInv, CallbackOK, HistoryOK, Scanner
        <5> QED BY <5>1, <5>2
      <4>2. CASE \E path \in Watched : FileChanged(path)
        BY <4>2 DEF FileChanged, Scanner
      <4> QED BY <1>1, <4>1, <4>2 DEF Next, ProcessStarts, FileReturns, Evaluates, vars
    <3> QED BY <3>1, <3>2, <3>3, <3>4
  <2>3. /\ scan[s].pc \in {"moved", "notMoved"}
        /\ log' = log \cup Status(s)
    BY <2>2 DEF EmitsStatus
  <2>4. PICK l \in Status(s) : /\ l.kind = (IF scan[s].pc = "moved" THEN "SYS.QUARANTINED"
                                           ELSE "SYS.QUARANTINE_FAILED")
                              /\ l.path = scan[s].path
    BY <2>3 DEF Status
  <2> QED BY <2>3, <2>4
<1>2. IInv /\ [Next]_vars =>
        \A s \in Scanner : scan[s].quarantine_cause # None /\ scan'[s].pc = "idle"
                            => Answered(s)
  BY <1>1
<1> QED BY <1>2, Invariant, PTL DEF Spec, EveryCauseAnswered

-----------------------------------------------------------------------------
(* What the rules answer                                                   *)

\* Entries that may both match stand in the order of their severity.
Ordered(table) ==
  \A i, j \in DOMAIN table : i < j =>
    \/ table[j][3] <= table[i][3]
    \/ /\ table[i][1] # Unnamed /\ table[j][1] # Unnamed
       /\ table[i][1] \cap table[j][1] = {}

\* A table has entries, and every entry a severity.
Judges(table) ==
  /\ \E n \in Nat : DOMAIN table = 1..n
  /\ \A i \in DOMAIN table : table[i][3] \in Severity

LEMMA SeveritiesAre == Severity = {1, 2, 3} /\ None = 0
  BY DEF Severity, Info, Suspicious, Malicious, None

\* The first entry that matches decides.
LEMMA FirstDecides ==
  ASSUME NEW table, Judges(table), NEW e,
         NEW hits, hits = {i \in DOMAIN table : Matches(table[i], e)}
  PROVE  /\ hits = {} => FirstMatch(table, e) = None
         /\ hits # {} => \E i \in hits : /\ FirstMatch(table, e) = table[i][3]
                                         /\ \A j \in hits : i <= j
         /\ FirstMatch(table, e) # None <=> hits # {}
<1>1. FirstMatch(table, e) = IF hits = {} THEN None ELSE table[Min(hits)][3]
  BY DEF FirstMatch
<1>2. ASSUME hits # {} PROVE Min(hits) \in hits /\ \A y \in hits : Min(hits) <= y
  <2>1. hits \in SUBSET Nat
    BY DEF Judges
  <2> QED
    BY <1>2, <2>1, LeastElement
<1>3. \A i \in hits : table[i][3] # None
  BY SeveritiesAre DEF Judges
<1> QED
  BY <1>1, <1>2, <1>3

\* In an ordered table the first entry that matches is a worst one.
LEMMA FirstIsWorst ==
  ASSUME NEW table, Judges(table), Ordered(table), NEW e,
         NEW hits, hits = {i \in DOMAIN table : Matches(table[i], e)}
  PROVE  /\ FirstMatch(table, e) \in {table[i][3] : i \in hits} \cup {None}
         /\ FirstMatch(table, e) \in {0, 1, 2, 3}
         /\ \A j \in hits : table[j][3] <= FirstMatch(table, e)
<1>1. CASE hits = {}
  BY <1>1, FirstDecides, SeveritiesAre
<1>2. CASE hits # {}
  <2>1. PICK i \in hits : FirstMatch(table, e) = table[i][3] /\ \A j \in hits : i <= j
    BY <1>2, FirstDecides
  <2>2. \A j \in hits : j \in Nat /\ table[j][3] \in {1, 2, 3}
    BY SeveritiesAre DEF Judges
  <2>3. ASSUME NEW j \in hits PROVE table[j][3] <= table[i][3]
    <3>1. CASE j = i
      BY <2>2, <3>1
    <3>2. CASE j # i
      <4>1. i < j
        BY <2>1, <2>2, <3>2
      <4>2. ~(/\ table[i][1] # Unnamed /\ table[j][1] # Unnamed
              /\ table[i][1] \cap table[j][1] = {})
        BY <2>1, <2>3 DEF Matches
      <4> QED
        BY <4>1, <4>2 DEF Ordered
    <3> QED
      BY <3>1, <3>2
  <2> QED
    BY <2>1, <2>2, <2>3
<1> QED
  BY <1>1, <1>2

\* Every table judges, and all but those OutOfOrder names are in order.
LEMMA AllJudge ==
  /\ \A r \in DOMAIN Table : /\ Judges(Table[r])
                             /\ r \notin OutOfOrder => Ordered(Table[r])
  /\ Judges(EvasionTable) /\ Ordered(EvasionTable)
<1>1. Judges(LolbinTable)
  <2>1. DOMAIN LolbinTable = 1..23
    BY DEF LolbinTable
  <2>2. /\ LolbinTable[1][3] = Malicious /\ LolbinTable[2][3] = Suspicious
        /\ LolbinTable[3][3] = Malicious /\ LolbinTable[4][3] = Malicious
        /\ LolbinTable[5][3] = Suspicious /\ LolbinTable[6][3] = Malicious
        /\ LolbinTable[7][3] = Malicious /\ LolbinTable[8][3] = Suspicious
        /\ LolbinTable[9][3] = Malicious /\ LolbinTable[10][3] = Suspicious
        /\ LolbinTable[11][3] = Malicious /\ LolbinTable[12][3] = Suspicious
        /\ LolbinTable[13][3] = Malicious /\ LolbinTable[14][3] = Malicious
        /\ LolbinTable[15][3] = Suspicious /\ LolbinTable[16][3] = Suspicious
        /\ LolbinTable[17][3] = Malicious /\ LolbinTable[18][3] = Suspicious
        /\ LolbinTable[19][3] = Suspicious /\ LolbinTable[20][3] = Suspicious
        /\ LolbinTable[21][3] = Suspicious /\ LolbinTable[22][3] = Suspicious
        /\ LolbinTable[23][3] = Suspicious
    BY DEF LolbinTable
  <2>3. \A i \in 1..8 : LolbinTable[i][3] \in Severity
    BY <2>2, SeveritiesAre DEF Suspicious, Malicious
  <2>4. \A i \in 9..16 : LolbinTable[i][3] \in Severity
    BY <2>2, SeveritiesAre DEF Suspicious, Malicious
  <2>5. \A i \in 17..23 : LolbinTable[i][3] \in Severity
    BY <2>2, SeveritiesAre DEF Suspicious, Malicious
  <2>6. \A i \in DOMAIN LolbinTable : LolbinTable[i][3] \in Severity
    BY <2>1, <2>3, <2>4, <2>5
  <2>7. \E n \in Nat : DOMAIN LolbinTable = 1..n
    BY <2>1
  <2> QED
    BY <2>6, <2>7 DEF Judges
<1>2. Judges(ShadowTable) /\ Ordered(ShadowTable)
  <2>1. DOMAIN ShadowTable = 1..7
    BY DEF ShadowTable
  <2>2. /\ ShadowTable[1][3] = Malicious /\ ShadowTable[2][3] = Malicious
        /\ ShadowTable[3][3] = Malicious /\ ShadowTable[4][3] = Suspicious
        /\ ShadowTable[5][3] = Malicious /\ ShadowTable[6][3] = Suspicious
        /\ ShadowTable[7][3] = Suspicious
    BY DEF ShadowTable
  <2>3. /\ ShadowTable[4][1] = {"bcdedit.exe"}
        /\ ShadowTable[5][1] = {"wbadmin.exe"}
    BY DEF ShadowTable
  <2>4. /\ ShadowTable[4][1] # Unnamed /\ ShadowTable[5][1] # Unnamed
    BY <2>3, Zenon DEF Unnamed, WindowsPS
  <2> QED
    BY <2>1, <2>2, <2>3, <2>4, SeveritiesAre DEF Judges, Ordered, WindowsPS,
       Suspicious, Malicious
<1>3. Judges(CredentialAccessTable) /\ Ordered(CredentialAccessTable)
  <2>1. DOMAIN CredentialAccessTable = 1..6
    BY DEF CredentialAccessTable
  <2>2. /\ CredentialAccessTable[1][3] = Malicious
        /\ CredentialAccessTable[2][3] = Malicious
        /\ CredentialAccessTable[3][3] = Malicious
        /\ CredentialAccessTable[4][3] = Malicious
        /\ CredentialAccessTable[5][3] = Malicious
        /\ CredentialAccessTable[6][3] = Malicious
    BY DEF CredentialAccessTable
  <2> QED
    BY <2>1, <2>2, SeveritiesAre DEF Judges, Ordered, Suspicious, Malicious
<1>4. Judges(LateralMovementTable) /\ Ordered(LateralMovementTable)
  <2>1. DOMAIN LateralMovementTable = 1..9
    BY DEF LateralMovementTable
  <2>2. /\ LateralMovementTable[1][3] = Suspicious
        /\ LateralMovementTable[2][3] = Suspicious
        /\ LateralMovementTable[3][3] = Suspicious
        /\ LateralMovementTable[4][3] = Suspicious
        /\ LateralMovementTable[5][3] = Suspicious
        /\ LateralMovementTable[6][3] = Suspicious
        /\ LateralMovementTable[7][3] = Suspicious
        /\ LateralMovementTable[8][3] = Suspicious
        /\ LateralMovementTable[9][3] = Malicious
    BY DEF LateralMovementTable
  <2>3.
        /\ LateralMovementTable[1][1] = {"psexec.exe", "psexec64.exe", "at.exe"}
        /\ LateralMovementTable[2][1] = {"psexesvc.exe"}
        /\ LateralMovementTable[3][1] = {"wmic.exe"}
        /\ LateralMovementTable[4][1] = {"winrs.exe"}
        /\ LateralMovementTable[5][1] = WindowsPS
        /\ LateralMovementTable[6][1] = {"pwsh.exe"}
        /\ LateralMovementTable[7][1] = {"schtasks.exe"}
        /\ LateralMovementTable[8][1] = {"net.exe"}
        /\ LateralMovementTable[9][1] = 
               {"wmiexec.py", "smbexec.py", "atexec.py", "dcomexec.py",
                "crackmapexec.exe", "evil-winrm.exe"}
    BY DEF LateralMovementTable
  <2>4. /\ LateralMovementTable[1][1] # Unnamed
        /\ LateralMovementTable[2][1] # Unnamed
        /\ LateralMovementTable[3][1] # Unnamed
        /\ LateralMovementTable[4][1] # Unnamed
        /\ LateralMovementTable[5][1] # Unnamed
        /\ LateralMovementTable[6][1] # Unnamed
        /\ LateralMovementTable[7][1] # Unnamed
        /\ LateralMovementTable[8][1] # Unnamed
        /\ LateralMovementTable[9][1] # Unnamed
    BY <2>3, Zenon DEF Unnamed, WindowsPS
  <2> QED
    BY <2>1, <2>2, <2>3, <2>4, SeveritiesAre DEF Judges, Ordered, WindowsPS,
       Suspicious, Malicious
<1>5. Judges(RegistryTable)
  <2>1. DOMAIN RegistryTable = 1..5
    BY DEF RegistryTable
  <2>2. /\ RegistryTable[1][3] = Suspicious /\ RegistryTable[2][3] = Malicious
        /\ RegistryTable[3][3] = Suspicious /\ RegistryTable[4][3] = Malicious
        /\ RegistryTable[5][3] = Suspicious
    BY DEF RegistryTable
  <2> QED
    BY <2>1, <2>2, SeveritiesAre DEF Judges, Suspicious, Malicious
<1>6. Judges(WmiTable) /\ Ordered(WmiTable)
  <2>1. DOMAIN WmiTable = 1..4
    BY DEF WmiTable
  <2>2. /\ WmiTable[1][3] = Suspicious /\ WmiTable[2][3] = Suspicious
        /\ WmiTable[3][3] = Suspicious /\ WmiTable[4][3] = Suspicious
    BY DEF WmiTable
  <2> QED
    BY <2>1, <2>2, SeveritiesAre DEF Judges, Ordered, Suspicious, Malicious
<1>7. Judges(ScheduledTaskTable) /\ Ordered(ScheduledTaskTable)
  <2>1. DOMAIN ScheduledTaskTable = 1..4
    BY DEF ScheduledTaskTable
  <2>2. /\ ScheduledTaskTable[1][3] = Suspicious
        /\ ScheduledTaskTable[2][3] = Suspicious
        /\ ScheduledTaskTable[3][3] = Suspicious
        /\ ScheduledTaskTable[4][3] = Suspicious
    BY DEF ScheduledTaskTable
  <2> QED
    BY <2>1, <2>2, SeveritiesAre DEF Judges, Ordered, Suspicious, Malicious
<1>8. Judges(ServiceTable) /\ Ordered(ServiceTable)
  <2>1. DOMAIN ServiceTable = 1..6
    BY DEF ServiceTable
  <2>2. /\ ServiceTable[1][3] = Suspicious /\ ServiceTable[2][3] = Suspicious
        /\ ServiceTable[3][3] = Suspicious /\ ServiceTable[4][3] = Suspicious
        /\ ServiceTable[5][3] = Suspicious /\ ServiceTable[6][3] = Suspicious
    BY DEF ServiceTable
  <2> QED
    BY <2>1, <2>2, SeveritiesAre DEF Judges, Ordered, Suspicious, Malicious
<1>9. Judges(AmsiEtwTable) /\ Ordered(AmsiEtwTable)
  <2>1. DOMAIN AmsiEtwTable = 1..1
    BY DEF AmsiEtwTable
  <2>2. /\ AmsiEtwTable[1][3] = Malicious
    BY DEF AmsiEtwTable
  <2> QED
    BY <2>1, <2>2, SeveritiesAre DEF Judges, Ordered, Suspicious, Malicious
<1>10. Judges(RansomIndicatorTable) /\ Ordered(RansomIndicatorTable)
  <2>1. DOMAIN RansomIndicatorTable = 1..4
    BY DEF RansomIndicatorTable
  <2>2. /\ RansomIndicatorTable[1][3] = Malicious
        /\ RansomIndicatorTable[2][3] = Malicious
        /\ RansomIndicatorTable[3][3] = Malicious
        /\ RansomIndicatorTable[4][3] = Malicious
    BY DEF RansomIndicatorTable
  <2> QED
    BY <2>1, <2>2, SeveritiesAre DEF Judges, Ordered, Suspicious, Malicious
<1>11. Judges(RansomwareFileTable) /\ Ordered(RansomwareFileTable)
  <2>1. DOMAIN RansomwareFileTable = 1..4
    BY DEF RansomwareFileTable
  <2>2. /\ RansomwareFileTable[1][3] = Malicious
        /\ RansomwareFileTable[2][3] = Malicious
        /\ RansomwareFileTable[3][3] = Malicious
        /\ RansomwareFileTable[4][3] = Malicious
    BY DEF RansomwareFileTable
  <2> QED
    BY <2>1, <2>2, SeveritiesAre DEF Judges, Ordered, Suspicious, Malicious
<1>12. Judges(LateralIndicatorTable) /\ Ordered(LateralIndicatorTable)
  <2>1. DOMAIN LateralIndicatorTable = 1..3
    BY DEF LateralIndicatorTable
  <2>2. /\ LateralIndicatorTable[1][3] = Suspicious
        /\ LateralIndicatorTable[2][3] = Suspicious
        /\ LateralIndicatorTable[3][3] = Suspicious
    BY DEF LateralIndicatorTable
  <2> QED
    BY <2>1, <2>2, SeveritiesAre DEF Judges, Ordered, Suspicious, Malicious
<1>13. Judges(CredentialPatternTable) /\ Ordered(CredentialPatternTable)
  <2>1. DOMAIN CredentialPatternTable = 1..3
    BY DEF CredentialPatternTable
  <2>2. /\ CredentialPatternTable[1][3] = Malicious
        /\ CredentialPatternTable[2][3] = Malicious
        /\ CredentialPatternTable[3][3] = Malicious
    BY DEF CredentialPatternTable
  <2> QED
    BY <2>1, <2>2, SeveritiesAre DEF Judges, Ordered, Suspicious, Malicious
<1>14. Judges(ObfuscationTable) /\ Ordered(ObfuscationTable)
  <2>1. DOMAIN ObfuscationTable = 1..2
    BY DEF ObfuscationTable
  <2>2. /\ ObfuscationTable[1][3] = Suspicious
        /\ ObfuscationTable[2][3] = Suspicious
    BY DEF ObfuscationTable
  <2> QED
    BY <2>1, <2>2, SeveritiesAre DEF Judges, Ordered, Suspicious, Malicious
<1>15. Judges(RansomwareTable) /\ Ordered(RansomwareTable)
  <2>1. DOMAIN RansomwareTable = 1..5
    BY DEF RansomwareTable
  <2>2. /\ RansomwareTable[1][3] = Malicious
        /\ RansomwareTable[2][3] = Malicious
        /\ RansomwareTable[3][3] = Malicious
        /\ RansomwareTable[4][3] = Malicious
        /\ RansomwareTable[5][3] = Malicious
    BY DEF RansomwareTable
  <2> QED
    BY <2>1, <2>2, SeveritiesAre DEF Judges, Ordered, Suspicious, Malicious
<1>16. Judges(InjectionTable) /\ Ordered(InjectionTable)
  <2>1. DOMAIN InjectionTable = 1..3
    BY DEF InjectionTable
  <2>2. /\ InjectionTable[1][3] = Malicious /\ InjectionTable[2][3] = Malicious
        /\ InjectionTable[3][3] = Malicious
    BY DEF InjectionTable
  <2> QED
    BY <2>1, <2>2, SeveritiesAre DEF Judges, Ordered, Suspicious, Malicious
<1>17. Judges(CredentialTheftTable) /\ Ordered(CredentialTheftTable)
  <2>1. DOMAIN CredentialTheftTable = 1..3
    BY DEF CredentialTheftTable
  <2>2. /\ CredentialTheftTable[1][3] = Malicious
        /\ CredentialTheftTable[2][3] = Suspicious
        /\ CredentialTheftTable[3][3] = Suspicious
    BY DEF CredentialTheftTable
  <2> QED
    BY <2>1, <2>2, SeveritiesAre DEF Judges, Ordered, Suspicious, Malicious
<1>18. Judges(WormTable) /\ Ordered(WormTable)
  <2>1. DOMAIN WormTable = 1..3
    BY DEF WormTable
  <2>2. /\ WormTable[1][3] = Suspicious /\ WormTable[2][3] = Suspicious
        /\ WormTable[3][3] = Suspicious
    BY DEF WormTable
  <2> QED
    BY <2>1, <2>2, SeveritiesAre DEF Judges, Ordered, Suspicious, Malicious
<1>19. Judges(RootkitTable) /\ Ordered(RootkitTable)
  <2>1. DOMAIN RootkitTable = 1..4
    BY DEF RootkitTable
  <2>2. /\ RootkitTable[1][3] = Malicious /\ RootkitTable[2][3] = Suspicious
        /\ RootkitTable[3][3] = Suspicious /\ RootkitTable[4][3] = Suspicious
    BY DEF RootkitTable
  <2> QED
    BY <2>1, <2>2, SeveritiesAre DEF Judges, Ordered, Suspicious, Malicious
<1>20. Judges(KeyloggerTable) /\ Ordered(KeyloggerTable)
  <2>1. DOMAIN KeyloggerTable = 1..2
    BY DEF KeyloggerTable
  <2>2. /\ KeyloggerTable[1][3] = Malicious
        /\ KeyloggerTable[2][3] = Suspicious
    BY DEF KeyloggerTable
  <2> QED
    BY <2>1, <2>2, SeveritiesAre DEF Judges, Ordered, Suspicious, Malicious
<1>21. Judges(ExfiltrationTable) /\ Ordered(ExfiltrationTable)
  <2>1. DOMAIN ExfiltrationTable = 1..5
    BY DEF ExfiltrationTable
  <2>2. /\ ExfiltrationTable[1][3] = Suspicious
        /\ ExfiltrationTable[2][3] = Suspicious
        /\ ExfiltrationTable[3][3] = Suspicious
        /\ ExfiltrationTable[4][3] = Suspicious
        /\ ExfiltrationTable[5][3] = Suspicious
    BY DEF ExfiltrationTable
  <2> QED
    BY <2>1, <2>2, SeveritiesAre DEF Judges, Ordered, Suspicious, Malicious
<1>22. Judges(C2Table) /\ Ordered(C2Table)
  <2>1. DOMAIN C2Table = 1..5
    BY DEF C2Table
  <2>2. /\ C2Table[1][3] = Malicious /\ C2Table[2][3] = Malicious
        /\ C2Table[3][3] = Malicious /\ C2Table[4][3] = Malicious
        /\ C2Table[5][3] = Suspicious
    BY DEF C2Table
  <2> QED
    BY <2>1, <2>2, SeveritiesAre DEF Judges, Ordered, Suspicious, Malicious
<1>23. Judges(PersistenceTable)
  <2>1. DOMAIN PersistenceTable = 1..6
    BY DEF PersistenceTable
  <2>2. /\ PersistenceTable[1][3] = Suspicious
        /\ PersistenceTable[2][3] = Suspicious
        /\ PersistenceTable[3][3] = Suspicious
        /\ PersistenceTable[4][3] = Suspicious
        /\ PersistenceTable[5][3] = Malicious
        /\ PersistenceTable[6][3] = Malicious
    BY DEF PersistenceTable
  <2> QED
    BY <2>1, <2>2, SeveritiesAre DEF Judges, Suspicious, Malicious
<1>24. Judges(EvasionTable) /\ Ordered(EvasionTable)
  <2>1. DOMAIN EvasionTable = 1..9
    BY DEF EvasionTable
  <2>2. /\ EvasionTable[1][3] = Malicious /\ EvasionTable[2][3] = Malicious
        /\ EvasionTable[3][3] = Malicious /\ EvasionTable[4][3] = Suspicious
        /\ EvasionTable[5][3] = Malicious /\ EvasionTable[6][3] = Suspicious
        /\ EvasionTable[7][3] = Suspicious /\ EvasionTable[8][3] = Suspicious
        /\ EvasionTable[9][3] = Malicious
    BY DEF EvasionTable
  <2>3. /\ EvasionTable[4][1] = {"netsh.exe"} /\ EvasionTable[5][1] = WindowsPS
        /\ EvasionTable[6][1] = {"icacls.exe"}
        /\ EvasionTable[7][1] = {"cacls.exe"}
        /\ EvasionTable[8][1] = {"attrib.exe"}
        /\ EvasionTable[9][1] = WindowsPS
    BY DEF EvasionTable
  <2>4. /\ EvasionTable[4][1] # Unnamed /\ EvasionTable[5][1] # Unnamed
        /\ EvasionTable[6][1] # Unnamed /\ EvasionTable[7][1] # Unnamed
        /\ EvasionTable[8][1] # Unnamed /\ EvasionTable[9][1] # Unnamed
    BY <2>3, Zenon DEF Unnamed, WindowsPS
  <2> QED
    BY <2>1, <2>2, <2>3, <2>4, SeveritiesAre DEF Judges, Ordered, WindowsPS,
       Suspicious, Malicious
<1>25. DOMAIN Table = 
       {"LOLBIN_SUSP_ARGS", "SHADOW_COPY_DELETE", "CREDENTIAL_ACCESS",
        "LATERAL_MOVEMENT", "PERSISTENCE_REG_RUN", "WMI_EXECUTION",
        "SCHTASK_ABUSE", "SERVICE_INSTALL", "AMSI_ETW_BYPASS",
        "RANSOMWARE_INDICATOR", "RANSOMWARE_FILE_OPS",
        "LATERAL_MOVEMENT_malware_behaviors",
        "CREDENTIAL_THEFT_malware_behaviors", "COMMAND_OBFUSCATION",
        "RANSOMWARE", "INJECTION", "CREDENTIAL_THEFT", "WORM", "ROOTKIT",
        "KEYLOGGER", "EXFILTRATION", "C2_BEACONING", "PERSISTENCE"}
  BY DEF Table
<1>26. /\ Table.LOLBIN_SUSP_ARGS = LolbinTable
       /\ Table.SHADOW_COPY_DELETE = ShadowTable
       /\ Table.CREDENTIAL_ACCESS = CredentialAccessTable
       /\ Table.LATERAL_MOVEMENT = LateralMovementTable
       /\ Table.PERSISTENCE_REG_RUN = RegistryTable
       /\ Table.WMI_EXECUTION = WmiTable
       /\ Table.SCHTASK_ABUSE = ScheduledTaskTable
       /\ Table.SERVICE_INSTALL = ServiceTable
       /\ Table.AMSI_ETW_BYPASS = AmsiEtwTable
       /\ Table.RANSOMWARE_INDICATOR = RansomIndicatorTable
       /\ Table.RANSOMWARE_FILE_OPS = RansomwareFileTable
       /\ Table.LATERAL_MOVEMENT_malware_behaviors = LateralIndicatorTable
       /\ Table.CREDENTIAL_THEFT_malware_behaviors = CredentialPatternTable
       /\ Table.COMMAND_OBFUSCATION = ObfuscationTable
       /\ Table.RANSOMWARE = RansomwareTable
       /\ Table.INJECTION = InjectionTable
       /\ Table.CREDENTIAL_THEFT = CredentialTheftTable
       /\ Table.WORM = WormTable
       /\ Table.ROOTKIT = RootkitTable
       /\ Table.KEYLOGGER = KeyloggerTable
       /\ Table.EXFILTRATION = ExfiltrationTable
       /\ Table.C2_BEACONING = C2Table
       /\ Table.PERSISTENCE = PersistenceTable
  BY DEF Table
<1> QED
  BY <1>1, <1>2, <1>3, <1>4, <1>5, <1>6, <1>7, <1>8, <1>9, <1>10, <1>11,
     <1>12, <1>13, <1>14, <1>15, <1>16, <1>17, <1>18, <1>19, <1>20, <1>21,
     <1>22, <1>23, <1>24, <1>25, <1>26 DEF OutOfOrder

\* In an ordered table the highest severity among the entries that match is
\* what the table says.
LEMMA Highest ==
  ASSUME NEW table, Judges(table), Ordered(table), NEW e,
         NEW hits, hits = {i \in DOMAIN table : Matches(table[i], e)},
         NEW matching, matching = {table[i][3] : i \in hits}
  PROVE  FirstMatch(table, e) = Max(matching \cup {None})
<1>1. /\ FirstMatch(table, e) \in matching \cup {None}
      /\ FirstMatch(table, e) \in {0, 1, 2, 3}
      /\ \A j \in hits : table[j][3] <= FirstMatch(table, e)
  BY FirstIsWorst
<1>2. \A x \in matching \cup {None} : x \in {0, 1, 2, 3}
  BY SeveritiesAre DEF Judges
<1> DEFINE S == matching \cup {None}
           m == FirstMatch(table, e)
<1>3. m \in S /\ \A x \in S : x \in {0, 1, 2, 3} /\ x <= m
  BY <1>1, <1>2, SeveritiesAre
<1> HIDE DEF S, m
<1>4. \A x \in S : (\A y \in S : x >= y) => x = m
  BY <1>3
<1>5. \A y \in S : m >= y
  BY <1>3
<1>6. Max(S) = m
  BY <1>3, <1>4, <1>5 DEF Max
<1> QED
  BY <1>6 DEF S, m

\* Of every event, whatever its command line: in the tables that are in order
\* the worst entry that matches decides (rule_base.hpp:44).
THEOREM WorstDecides == LineSpec => []HighestDecides
<1>1. HighestDecides
  <2>1. SUFFICES ASSUME NEW r \in DOMAIN Table \ OutOfOrder
                 PROVE  FirstMatch(Table[r], event) =
                          Max({Table[r][i][3] : i \in {j \in DOMAIN Table[r] :
                                                         Matches(Table[r][j], event)}}
                              \cup {None})
    BY DEF HighestDecides
  <2>2. Judges(Table[r]) /\ Ordered(Table[r])
    BY AllJudge
  <2> QED
    BY <2>2, Highest
<1> QED
  BY <1>1, PTL

-----------------------------------------------------------------------------
(* A command line that grows                                               *)

\* f is the process e with more arguments.
Grows(e, f) ==
  /\ f.bin = e.bin /\ f.parent = e.parent
  /\ f.writable = e.writable /\ f.signed = e.signed
  /\ e.cmd \subseteq f.cmd

LineType == DOMAIN event = {"bin", "cmd", "parent", "writable", "signed"}

LEMMA EventIsARecord == LineSpec => []LineType
<1>1. LineInit => LineType
  BY DEF LineInit, LineType
<1>2. LineType /\ [LineNext]_lineVars => LineType'
  BY DEF LineType, LineNext, AddArgument, lineVars
<1> QED
  BY <1>1, <1>2, PTL DEF LineSpec

LEMMA LinesGrow == LineType /\ [LineNext]_lineVars => Grows(event, event')
<1>1. ASSUME LineType, NEW a, event' = [event EXCEPT !.cmd = @ \cup {a}]
      PROVE  Grows(event, event')
  BY <1>1 DEF LineType, Grows
<1>2. ASSUME event' = event PROVE Grows(event, event')
  BY <1>2 DEF Grows
<1> QED
  BY <1>1, <1>2 DEF LineNext, AddArgument, lineVars

LEMMA MatchesStay ==
  ASSUME NEW e, NEW f, Grows(e, f)
  PROVE  /\ \A args : Has(e, args) => Has(f, args)
         /\ \A line : Matches(line, e) => Matches(line, f)
<1>1. \A args : Has(e, args) => Has(f, args)
  BY DEF Grows, Has
<1> QED
  BY <1>1 DEF Grows, Matches

\* A table that answers goes on answering; one in order never answers lower.
LEMMA TablesStay ==
  ASSUME NEW e, NEW f, Grows(e, f), NEW table, Judges(table)
  PROVE  /\ FirstMatch(table, e) # None => FirstMatch(table, f) # None
         /\ Ordered(table) => FirstMatch(table, e) <= FirstMatch(table, f)
<1> DEFINE hits(g) == {i \in DOMAIN table : Matches(table[i], g)}
<1>1. hits(e) \subseteq hits(f)
  BY MatchesStay
<1>2. /\ FirstMatch(table, e) # None <=> hits(e) # {}
      /\ FirstMatch(table, f) # None <=> hits(f) # {}
  BY FirstDecides
<1>3. ASSUME Ordered(table) PROVE FirstMatch(table, e) <= FirstMatch(table, f)
  <2>1. /\ FirstMatch(table, e) \in {table[i][3] : i \in hits(e)} \cup {None}
        /\ FirstMatch(table, f) \in {0, 1, 2, 3}
        /\ \A j \in hits(f) : table[j][3] <= FirstMatch(table, f)
    BY <1>3, FirstIsWorst
  <2> QED
    BY <1>1, <2>1, SeveritiesAre
<1> HIDE DEF hits
<1> QED
  BY <1>1, <1>2, <1>3

LEMMA EightAreFinite ==
  ASSUME NEW a, NEW b, NEW c, NEW d, NEW p, NEW q, NEW r, NEW s
  PROVE  IsFiniteSet({a, b, c, d, p, q, r, s})
<1>0. IsFiniteSet({a})
  BY FS_Singleton
<1>1. IsFiniteSet({a} \cup {b})
  BY <1>0, FS_AddElement
<1>2. IsFiniteSet(({a} \cup {b}) \cup {c})
  BY <1>1, FS_AddElement
<1>3. IsFiniteSet((({a} \cup {b}) \cup {c}) \cup {d})
  BY <1>2, FS_AddElement
<1>4. IsFiniteSet(((({a} \cup {b}) \cup {c}) \cup {d}) \cup {p})
  BY <1>3, FS_AddElement
<1>5. IsFiniteSet((((({a} \cup {b}) \cup {c}) \cup {d}) \cup {p}) \cup {q})
  BY <1>4, FS_AddElement
<1>6. IsFiniteSet(((((({a} \cup {b}) \cup {c}) \cup {d}) \cup {p}) \cup {q}) \cup {r})
  BY <1>5, FS_AddElement
<1>7. IsFiniteSet((((((({a} \cup {b}) \cup {c}) \cup {d}) \cup {p}) \cup {q}) \cup {r}) \cup {s})
  BY <1>6, FS_AddElement
<1>8. {a, b, c, d, p, q, r, s} =
        (((((({a} \cup {b}) \cup {c}) \cup {d}) \cup {p}) \cup {q}) \cup {r}) \cup {s}
  OBVIOUS
<1> QED
  BY <1>7, <1>8

LEMMA CategoriesAreFinite == IsFiniteSet(PsCategories)
  BY EightAreFinite, Zenon DEF PsCategories

\* More categories weigh more, and the three conditions of the rule are
\* conditions on how much there is.
LEMMA ObfuscationStays ==
  ASSUME NEW e, NEW f, Grows(e, f)
  PROVE  PowerShellObfuscation(e) <= PowerShellObfuscation(f)
<1> DEFINE M(g) == MatchedCategories(g)
           Points(g) == {p \in M(g) \X (1..3) : p[2] <= p[1][2]}
           Score(g) == Cardinality(Points(g))
           Strong(g) == \E c \in M(g) : c[2] >= 3
<1>1. M(e) \subseteq M(f)
  BY MatchesStay DEF MatchedCategories
<1>2. IsFiniteSet(M(f)) /\ Cardinality(M(e)) <= Cardinality(M(f))
  <2>1. M(f) \in SUBSET PsCategories
    BY DEF MatchedCategories
  <2>2. IsFiniteSet(M(f))
    BY <2>1, CategoriesAreFinite, FS_Subset
  <2> QED
    BY <1>1, <2>2, FS_Subset
<1>3. IsFiniteSet(Points(f)) /\ Score(e) <= Score(f)
  <2>1. IsFiniteSet(M(f) \X (1..3))
    <3>1. IsFiniteSet(1..3)
      <4>1. 1 \in Int /\ 3 \in Int
        OBVIOUS
      <4> QED
        BY <4>1, FS_Interval, Zenon
    <3> QED
      BY <1>2, <3>1, FS_Product
  <2>2. Points(f) \in SUBSET (M(f) \X (1..3)) /\ Points(e) \in SUBSET Points(f)
    BY <1>1
  <2> QED
    BY <2>1, <2>2, FS_Subset
<1>4. Strong(e) => Strong(f)
  BY <1>1
<1>5. /\ Score(e) \in Nat /\ Score(f) \in Nat
      /\ Cardinality(M(e)) \in Nat /\ Cardinality(M(f)) \in Nat
  BY <1>1, <1>2, <1>3, FS_Subset, FS_CardinalityType
<1>6. \A g : PowerShellObfuscation(g) =
               IF g.bin \notin PowerShell \/ Score(g) < NoiseFloor THEN None
               ELSE IF \/ Score(g) >= 5
                       \/ Strong(g) /\ Cardinality(M(g)) >= 2
                       \/ Cardinality(M(g)) >= 3 THEN Malicious ELSE Suspicious
  BY DEF PowerShellObfuscation
<1>7. f.bin = e.bin
  BY DEF Grows
<1> HIDE DEF M, Points, Score, Strong
<1> QED
  BY <1>2, <1>3, <1>4, <1>5, <1>6, <1>7 DEF NoiseFloor, None, Suspicious,
     Malicious

LEMMA CryptominerStays ==
  ASSUME NEW e, NEW f, Grows(e, f)
  PROVE  Cryptominer(e) <= Cryptominer(f)
<1> DEFINE Hints(g) ==
             {h \in {"binary", "pool", "flag"} :
                CASE h = "binary" -> \E m \in MinerBinaries : g.bin \in {m, m \o ".exe"}
                  [] h = "pool"   -> Has(g, PoolDomains)
                  [] h = "flag"   -> Has(g, SoftFlags)}
<1>1. Hints(e) \subseteq Hints(f)
  BY MatchesStay DEF Grows
<1>2. IsFiniteSet({"binary", "pool", "flag"})
  <2>1. IsFiniteSet({"binary"})
    BY FS_Singleton
  <2>2. IsFiniteSet({"binary"} \cup {"pool"})
    BY <2>1, FS_AddElement
  <2>3. IsFiniteSet(({"binary"} \cup {"pool"}) \cup {"flag"})
    BY <2>2, FS_AddElement
  <2>4. {"binary", "pool", "flag"} = ({"binary"} \cup {"pool"}) \cup {"flag"}
    OBVIOUS
  <2> QED
    BY <2>3, <2>4
<1>3. Hints(f) \in SUBSET {"binary", "pool", "flag"}
  OBVIOUS
<1>4. Has(e, HardIndicators) => Has(f, HardIndicators)
  BY MatchesStay
<1>5. \A g : Cryptominer(g) =
               IF Has(g, HardIndicators) \/ Cardinality(Hints(g)) >= 2 THEN Malicious
               ELSE Says(Suspicious, Hints(g) # {})
  BY DEF Cryptominer
<1> HIDE DEF Hints
<1>6. /\ IsFiniteSet(Hints(f)) /\ Cardinality(Hints(e)) <= Cardinality(Hints(f))
      /\ Cardinality(Hints(e)) \in Nat /\ Cardinality(Hints(f)) \in Nat
  BY <1>1, <1>2, <1>3, FS_Subset, FS_CardinalityType
<1> QED
  BY <1>1, <1>4, <1>5, <1>6 DEF Says, None, Suspicious, Malicious

LEMMA RulesByName ==
  /\ \A r \in DOMAIN Table : r \notin OtherRule
  /\ \A r \in DOMAIN Table : \A e : Evaluate(r, e) = FirstMatch(Table[r], e)
  /\ \A e : /\ Evaluate("TEMP_APPDATA_SPAWN", e) = TempAppDataSpawn(e)
            /\ Evaluate("OFFICE_SPAWNS_SHELL", e) = SuspiciousParentChild(e)
            /\ Evaluate("UNSIGNED_TEMP_EXEC", e) = UnsignedTempExec(e)
            /\ Evaluate("AV_KILLER_COMMAND", e) = AvKillerChild(e)
            /\ Evaluate("PS_OBFUSCATION", e) = PowerShellObfuscation(e)
            /\ Evaluate("DEFENSE_EVASION", e) = DefenseEvasion(e)
            /\ Evaluate("CRYPTOMINER", e) = Cryptominer(e)
            /\ Evaluate("MACRO", e) = MacroMalware(e)
<1>1. DOMAIN Table \cap OtherRule = {}
  BY DEF Table, OtherRule
<1>2. \A r \in OtherRule : r \notin DOMAIN Table
  BY <1>1
<1> QED
  BY <1>1, <1>2 DEF Evaluate, OtherRule

LEMMA OthersAnswer ==
  ASSUME NEW r \in OtherRule, NEW e
  PROVE  Evaluate(r, e) \in {0, 1, 2, 3}
<1> USE DEF Says, None, Suspicious, Malicious
<1>1. DefenseEvasion(e) \in {0, 1, 2, 3}
  BY FirstIsWorst, AllJudge DEF DefenseEvasion
<1>2. PowerShellObfuscation(e) \in {0, 1, 2, 3}
  BY DEF PowerShellObfuscation
<1>3. Cryptominer(e) \in {0, 1, 2, 3}
  BY DEF Cryptominer
<1> QED
  BY <1>1, <1>2, <1>3, RulesByName
     DEF OtherRule, TempAppDataSpawn, SuspiciousParentChild, UnsignedTempExec,
         MacroMalware, AvKillerChild

\* Each of the rules without a table answers no lower for more arguments.
LEMMA OthersStay ==
  ASSUME NEW e, NEW f, Grows(e, f), NEW r \in OtherRule
  PROVE  Evaluate(r, e) <= Evaluate(r, f)
<1> USE DEF Says, None, Suspicious, Malicious
<1>1. TempAppDataSpawn(e) <= TempAppDataSpawn(f)
  BY DEF Grows, TempAppDataSpawn
<1>2. SuspiciousParentChild(e) <= SuspiciousParentChild(f)
  BY DEF Grows, SuspiciousParentChild
<1>3. UnsignedTempExec(e) <= UnsignedTempExec(f)
  BY DEF Grows, UnsignedTempExec
<1>4. MacroMalware(e) <= MacroMalware(f)
  BY DEF Grows, MacroMalware
<1>5. AvKillerChild(e) <= AvKillerChild(f)
  BY MatchesStay DEF Grows, AvKillerChild
<1>6. DefenseEvasion(e) <= DefenseEvasion(f)
  BY TablesStay, AllJudge DEF Grows, DefenseEvasion
<1> QED
  BY <1>1, <1>2, <1>3, <1>4, <1>5, <1>6, ObfuscationStays, CryptominerStays,
     RulesByName DEF OtherRule

\* No argument silences a rule, and the rules that add up indicators never
\* answer lower than before.
THEOREM ArgumentsOnlyAlarm == LineSpec => AlarmsStay
<1>1. ASSUME NEW e, NEW f, Grows(e, f), NEW r \in Rule
      PROVE  /\ Evaluate(r, e) # None => Evaluate(r, f) # None
             /\ r \in OtherRule => Evaluate(r, e) <= Evaluate(r, f)
  <2>1. CASE r \in DOMAIN Table
    BY <1>1, <2>1, AllJudge, TablesStay, RulesByName
  <2>2. CASE r \in OtherRule
    BY <1>1, <2>2, OthersStay, OthersAnswer, SeveritiesAre
  <2> QED
    BY <2>1, <2>2 DEF Rule
<1>2. LineType /\ [LineNext]_lineVars =>
        [event' # event => \A r \in Rule :
           /\ Evaluate(r, event) # None => Evaluate(r, event)' # None
           /\ r \in OtherRule => Evaluate(r, event) <= Evaluate(r, event)']_lineVars
  BY <1>1, LinesGrow
<1> QED
  BY <1>2, EventIsARecord, PTL DEF LineSpec, AlarmsStay
=============================================================================
