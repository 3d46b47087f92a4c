------------------------- MODULE SystemScansProofs -------------------------
(***************************************************************************)
(* Proofs, for any programs, rules, tasks, services, registry keys and     *)
(* processes, that the judges of a file agree, that a program never looks  *)
(* better for importing more, and that a scan of the system which nobody   *)
(* cancels is complete.                                                    *)
(*                                                                         *)
(* The judges are compared by what the largest of a set of severities is.  *)
(* For the scans the invariant says what has been dealt with at each       *)
(* position; it stays true because files only disappear, programs are not  *)
(* changed once scans have started, and the flag is down while a scan runs *)
(* that was not cancelled.                                                 *)
(***************************************************************************)
EXTENDS SystemScans, FiniteSetTheorems, WellFoundedInduction, TLAPS

-----------------------------------------------------------------------------
(* Severities                                                              *)

Verdict == {None, Info, Suspicious, Malicious}

\* Some severity is the worst, and no other exceeds it.
LEMMA WorstOf ==
  ASSUME NEW S \in SUBSET Verdict
  PROVE  /\ Worst(S) \in Verdict /\ Worst(S) \in {None} \cup S
         /\ \A y \in S : Worst(S) >= y
<1> DEFINE T == {None} \cup S
<1>1. T \in SUBSET {0, 1, 2, 3} /\ 0 \in T
  BY DEF Verdict, None, Info, Suspicious, Malicious
<1>2. \E x \in T : \A y \in T : x >= y
  <2>1. CASE 3 \in T  BY <2>1, <1>1
  <2>2. CASE 3 \notin T /\ 2 \in T  BY <2>2, <1>1
  <2>3. CASE 3 \notin T /\ 2 \notin T /\ 1 \in T  BY <2>3, <1>1
  <2>4. CASE 3 \notin T /\ 2 \notin T /\ 1 \notin T  BY <2>4, <1>1
  <2> QED BY <2>1, <2>2, <2>3, <2>4
<1>3. Worst(S) = (CHOOSE x \in T : \A y \in T : x >= y)
  BY DEF Worst, Max
<1>4. Worst(S) \in T /\ \A y \in T : Worst(S) >= y
  BY <1>2, <1>3
<1>5. T \subseteq Verdict
  BY DEF Verdict
<1> QED BY <1>4, <1>5

\* What each scanner says is a severity.
LEMMA SeveritiesOfFile ==
  ASSUME NEW f, NEW d, NEW rules,
         d.known \in [DOMAIN d.known -> Severity]
  PROVE  /\ CheckHashSignature(f, d) \in Verdict
         /\ YaraSeverities(f, rules) \subseteq Verdict
         /\ LastingSeverities(f) \subseteq Verdict
         /\ ToDetectionEvents(f) \subseteq Verdict
<1> USE DEF When, Verdict
<1>1. CheckHashSignature(f, d) \in Verdict
  BY DEF CheckHashSignature, Severity
<1>2. YaraSeverities(f, rules) \subseteq Verdict
  BY DEF YaraSeverities, SeverityFromRule
<1>3. ManySuspiciousImports(f) \in Verdict
  BY DEF ManySuspiciousImports
<1>4. LastingSeverities(f) \subseteq Verdict
  BY <1>3 DEF LastingSeverities
<1>5. ToDetectionEvents(f) \subseteq Verdict
  BY <1>4 DEF ToDetectionEvents, FewImportsVerdict
<1> QED BY <1>1, <1>2, <1>4, <1>5

\* What is malicious to AMSI by a rule the engine has too, or to the driver, is
\* worth a quarantine to a scan.
LEMMA JudgesAgree ==
  ASSUME NEW f, NEW d, NEW rules,
         d.known \in [DOMAIN d.known -> Severity]
  PROVE  /\ AmsiScan(f, rules) = Malicious
              => EvaluateForBlock(f, d, Rules) \/ HasForeignMatch(f, rules)
         /\ EvaluateForBlock(f, d, Rules) => Quarantines(f, d, Rules)
<1>1. ASSUME AmsiScan(f, rules) = Malicious, ~HasForeignMatch(f, rules)
      PROVE  EvaluateForBlock(f, d, Rules)
  <2>1. PICK m \in f.matches : /\ m.file \in LoadRules(rules)
                               /\ SeverityFromRule(m.meta) = Malicious
    BY <1>1 DEF AmsiScan, YaraSeverities, When, None, Malicious
  <2>2. m.file \in LoadRules(Rules)
    BY <1>1, <2>1 DEF HasForeignMatch
  <2> QED BY <2>1, <2>2 DEF EvaluateForBlock, YaraSeverities
<1>2. ASSUME EvaluateForBlock(f, d, Rules) PROVE Quarantines(f, d, Rules)
  <2>1. ScanSeverities(f, d, Rules) \in SUBSET Verdict
    BY SeveritiesOfFile DEF ScanSeverities
  <2>2. Malicious \in ScanSeverities(f, d, Rules)
    BY <1>2 DEF EvaluateForBlock, ScanSeverities
  <2>3. /\ Worst(ScanSeverities(f, d, Rules)) >= Malicious
        /\ Worst(ScanSeverities(f, d, Rules)) \in Verdict
    BY <2>1, <2>2, WorstOf
  <2> QED BY <2>3 DEF Quarantines, Verdict, None, Info, Suspicious, Malicious
<1> QED BY <1>1, <1>2

-----------------------------------------------------------------------------
(* More imports                                                            *)

\* Each lasting severity is answered by one that is no milder.
LEMMA ImportsOnlyAdd ==
  ASSUME NEW f \in FileFacts, NEW names,
         IsFiniteSet(f.imports), IsFiniteSet(names), IsAnalyzed(f)
  PROVE  Worst(ToDetectionEvents([f EXCEPT !.imports = @ \cup names]))
           >= Worst(LastingSeverities(f))
<1> DEFINE g == [f EXCEPT !.imports = @ \cup names]
           d == [white |-> {}, black |-> {}, known |-> [h \in {} |-> Info]]
<1>1. /\ g.imports = f.imports \cup names
      /\ g.size = f.size /\ g.executable = f.executable /\ g.sections = f.sections
      /\ g.embedded = f.embedded /\ g.catalogued = f.catalogued
      /\ g.directory = f.directory
  BY DEF FileFacts
<1> HIDE DEF g
<1>2. \A N : (AnyOf(f, N) => AnyOf(g, N)) /\ (AllOf(f, N) => AllOf(g, N))
  BY <1>1 DEF AnyOf, AllOf
<1>3. PackerSectionHits(f) = PackerSectionHits(g) /\ MaxSectionEntropy(f) = MaxSectionEntropy(g)
  BY <1>1 DEF PackerSectionHits, MaxSectionEntropy
<1>4. /\ IsAuthenticodeSigned(f) = IsAuthenticodeSigned(g)
      /\ IsUnderUserWritableDir(f) = IsUnderUserWritableDir(g)
  BY <1>1 DEF IsAuthenticodeSigned, IsUnderUserWritableDir
<1>5. InjectionCombo(f) => InjectionCombo(g)
  BY <1>2 DEF InjectionCombo, HasAlloc
<1>6. NtInjectionCombo(f) => NtInjectionCombo(g)
  BY <1>2 DEF NtInjectionCombo, HasAlloc
<1>7. HollowingCombo(f) => HollowingCombo(g)
  BY <1>2 DEF HollowingCombo
<1>8. ManySuspiciousImports(g) >= ManySuspiciousImports(f)
  <2> DEFINE A == f.imports \cap SuspiciousApi  B == g.imports \cap SuspiciousApi
  <2>1. IsFiniteSet(g.imports)
    BY <1>1, FS_Union
  <2>2. IsFiniteSet(B)
    BY <2>1, FS_Subset
  <2>3. A \in SUBSET B
    BY <1>1
  <2>4. Cardinality(A) \in Nat /\ Cardinality(B) \in Nat /\ Cardinality(A) <= Cardinality(B)
    BY <2>2, <2>3, FS_Subset, FS_CardinalityType
  <2> HIDE DEF A, B
  <2>5. /\ ManySuspiciousImports(f) = IF Cardinality(A) >= 8 THEN Malicious ELSE When(Cardinality(A) >= 5, Suspicious)
        /\ ManySuspiciousImports(g) = IF Cardinality(B) >= 8 THEN Malicious ELSE When(Cardinality(B) >= 5, Suspicious)
    BY DEF ManySuspiciousImports, A, B
  <2> QED BY <2>4, <2>5 DEF When, None, Suspicious, Malicious
<1>9. IsAnalyzed(g)
  BY <1>1 DEF IsAnalyzed
<1>10. LastingSeverities(g) \subseteq ToDetectionEvents(g)
  BY <1>9 DEF ToDetectionEvents
<1>11. /\ d.known \in [DOMAIN d.known -> Severity]
  OBVIOUS
<1>12. LastingSeverities(f) \in SUBSET Verdict /\ ToDetectionEvents(g) \in SUBSET Verdict
  BY <1>11, SeveritiesOfFile
<1>13. ASSUME NEW x \in LastingSeverities(f) PROVE \E y \in LastingSeverities(g) : y >= x
  BY <1>3, <1>4, <1>5, <1>6, <1>7, <1>8 DEF LastingSeverities, When, None, Suspicious, Malicious
<1>14. \A x \in LastingSeverities(f) \cup {None} : Worst(ToDetectionEvents(g)) >= x
  <2>1. TAKE x \in LastingSeverities(f) \cup {None}
  <2>2. /\ Worst(ToDetectionEvents(g)) \in Verdict
        /\ \A y \in ToDetectionEvents(g) : Worst(ToDetectionEvents(g)) >= y
    BY <1>12, WorstOf
  <2>3. CASE x = None
    BY <2>2, <2>3 DEF Verdict, None, Info, Suspicious, Malicious
  <2>4. CASE x \in LastingSeverities(f)
    <3>1. PICK y \in LastingSeverities(g) : y >= x
      BY <1>13, <2>4
    <3>2. y \in ToDetectionEvents(g) /\ y \in Verdict /\ x \in Verdict
      BY <1>10, <1>12, <2>4
    <3> QED BY <2>2, <3>1, <3>2 DEF Verdict, None, Info, Suspicious, Malicious
  <2> QED BY <2>3, <2>4
<1> QED BY <1>12, <1>14, WorstOf DEF g

-----------------------------------------------------------------------------
(* What does not change                                                    *)

Facts == {f \in FileFacts : IsFiniteSet(f.imports)}

DbOK ==
  /\ db \in [white : SUBSET Hash, black : SUBSET Hash, known : {Known}]

TypeInv ==
  /\ facts \in [Program -> Facts] /\ gone \subseteq Program
  /\ DbOK /\ scan_cancel \in BOOLEAN /\ starts \in 0..MaxScans
  /\ persistence \in [at : Phase \cup {"idle", "done"}, item : Nat, sub : Nat]
  /\ memory \in [at : {"idle", "processes", "done"}, item : Nat, sub : Nat]
  /\ registry \in [at : {"idle", "entries", "done"}, key : Nat, item : Nat]
  /\ scanned \subseteq Program /\ cut \subseteq {"persistence", "memory"}
  /\ failed \subseteq Phase \X Nat

\* A position in a list is a position from one on, once the list is open.
PlacesOK ==
  /\ persistence.at = "tasks" /\ persistence.sub > 0 => persistence.item > 0
  /\ MemoryRuns => memory.item > 0
  /\ RegistryRuns => registry.key > 0 /\ registry.item > 0

\* While a scan runs that was not cancelled the flag is down.
FlagOK ==
  /\ scan_cancel /\ PersistenceRuns => "persistence" \in cut
  /\ scan_cancel /\ MemoryRuns => "memory" \in cut

StartedOK ==
  persistence.at # "idle" \/ memory.at # "idle" \/ registry.at # "idle" => starts > 0

-----------------------------------------------------------------------------
(* What has been dealt with                                                *)

TaskReached(t, j) ==
  \/ persistence.at \in {"services", "consumers", "filters", "done"}
  \/ persistence.at = "tasks"
     /\ (t < persistence.item \/ (t = persistence.item /\ j < persistence.sub))

TaskDone(t, j) ==
  ~Refused("tasks", t) /\ (\A i \in 1..j : Task[t][i].words # <<>>)
    => LET path == TaskPath(Task[t][j])
       IN  /\ Exists(path) => path \in scanned
           /\ <<"task", t, j>> \in reported \/ IsTrustedPath(path) \/ Task[t][j].nested

TasksInv ==
  "persistence" \notin cut
    => \A t \in DOMAIN Task : \A j \in DOMAIN Task[t] : TaskReached(t, j) => TaskDone(t, j)

ServiceReached(s) ==
  \/ persistence.at \in {"consumers", "filters", "done"}
  \/ persistence.at = "services" /\ s < persistence.item

ServiceDone(s) ==
  LET path == ServicePath(Service[s].line)
  IN  Service[s].win32 /\ ~Refused("services", s) /\ Exists(path) /\ ~IsTrustedPath(path)
        => path \in scanned

ServicesInv ==
  "persistence" \notin cut
    => \A s \in DOMAIN Service : ServiceReached(s) => ServiceDone(s)

QueryReached(at, k) ==
  \/ persistence.at = "done"
  \/ persistence.at = "filters" /\ at = "consumers"
  \/ persistence.at = at /\ k < persistence.item

SubscriptionsInv ==
  "persistence" \notin cut
    => \A at \in {"consumers", "filters"} : \A k \in 1..Subscription :
         QueryReached(at, k) => Refused(at, 0) \/ <<at, k>> \in reported

RegionReached(p, k) ==
  \/ memory.at = "done"
  \/ MemoryRuns /\ (p < memory.item \/ (p = memory.item /\ k < memory.sub))

RegionDone(p, k) ==
  /\ ~IsSkipped(Process[p]) /\ LoadRules(Rules) # {}
  /\ IsScannable(Process[p].map[k]) /\ \A i \in 1..k : Process[p].map[i].size > 0
  => <<p, k>> \in regions \cup unread

RegionsInv ==
  "memory" \notin cut
    => \A p \in DOMAIN Process : \A k \in DOMAIN Process[p].map :
         RegionReached(p, k) => RegionDone(p, k)

ValueReached(k, i) ==
  \/ registry.at = "done"
  \/ RegistryRuns /\ (k < registry.key \/ (k = registry.key /\ i < registry.item))

ValueDone(k, i) ==
  LET key == ScanAutorunLocations[k]
  IN  /\ key.opens
      /\ ReadStringValue(key.values[i]) /\ EvaluateAutorunEntry(key.values[i].line)
      /\ key.holds = "values" => \A j \in 1..i : key.values[j].chars <= 255
      => key.values[i].line \in alarms

RegistryInv ==
  \A k \in DOMAIN ScanAutorunLocations :
    \A i \in DOMAIN ScanAutorunLocations[k].values : ValueReached(k, i) => ValueDone(k, i)

IInv == /\ TypeInv /\ PlacesOK /\ FlagOK /\ StartedOK
        /\ TasksInv /\ ServicesInv /\ SubscriptionsInv /\ RegionsInv /\ RegistryInv

-----------------------------------------------------------------------------
(* Types                                                                   *)

LEMMA InitOK == Init => IInv
<1> SUFFICES ASSUME Init PROVE IInv
  OBVIOUS
<1>1. facts \in [Program -> Facts]
  <2>1. facts \in [Program -> UNION Range(Sample)] /\ \A p \in Program : facts[p] \in Sample[p]
    BY DEF Init
  <2> QED BY <2>1, SystemScansAssumption DEF Facts, SystemScansAssumption
<1>2. DbOK
  BY DEF Init, DbOK
<1>3. TypeInv
  <2>1. MaxScans \in Nat
    BY SystemScansAssumption DEF SystemScansAssumption
  <2>2. /\ gone \subseteq Program /\ scan_cancel \in BOOLEAN /\ starts \in 0..MaxScans
        /\ scanned \subseteq Program /\ cut \subseteq {"persistence", "memory"}
        /\ failed \subseteq Phase \X Nat
    <3>1. gone = {} /\ scan_cancel = FALSE /\ starts = 0 /\ scanned = {} /\ cut = {}
          /\ failed = {}
      BY DEF Init
    <3>2. starts \in 0..MaxScans
      BY <2>1, <3>1
    <3> QED BY <3>1, <3>2
  <2>3. /\ persistence \in [at : Phase \cup {"idle", "done"}, item : Nat, sub : Nat]
        /\ memory \in [at : {"idle", "processes", "done"}, item : Nat, sub : Nat]
        /\ registry \in [at : {"idle", "entries", "done"}, key : Nat, item : Nat]
    BY DEF Init
  <2> QED BY <1>1, <1>2, <2>2, <2>3 DEF TypeInv
<1>4. PlacesOK /\ FlagOK /\ StartedOK
  BY DEF Init, PlacesOK, FlagOK, StartedOK, MemoryRuns, RegistryRuns, PersistenceRuns, Phase
<1>5. TasksInv /\ ServicesInv /\ SubscriptionsInv
  BY DEF Init, TasksInv, TaskReached, ServicesInv, ServiceReached, SubscriptionsInv, QueryReached
<1>6. RegionsInv /\ RegistryInv
  BY DEF Init, RegionsInv, RegionReached, MemoryRuns, RegistryInv, ValueReached, RegistryRuns
<1> QED BY <1>3, <1>4, <1>5, <1>6 DEF IInv

LEMMA DbTyped ==
  ASSUME DbOK, ListsEdited
  PROVE  DbOK'
<1>1. CASE \E list \in {"white", "black"}, h \in Hash :
              OnAddHashClicked(list, h) \/ OnRemoveHashClicked(list, h)
  <2>1. PICK list \in {"white", "black"}, h \in Hash :
               AddToList(list, h) \/ RemoveFromList(list, h)
    BY <1>1 DEF OnAddHashClicked, OnRemoveHashClicked
  <2>2. CASE AddToList(list, h)
    BY <2>2 DEF AddToList, DbOK
  <2>3. CASE RemoveFromList(list, h)
    BY <2>3 DEF RemoveFromList, DbOK
  <2> QED BY <2>1, <2>2, <2>3
<1>2. CASE \E other \in Elsewhere : OnImportListsClicked(other) \/ ConsoleImportsLists(other)
  BY <1>2, SystemScansAssumption
     DEF OnImportListsClicked, ConsoleImportsLists, ImportHashLists, ExportHashLists,
         ListHashes, DbOK, SystemScansAssumption
<1> QED BY <1>1, <1>2 DEF ListsEdited

LEMMA TypeStep ==
  ASSUME TypeInv, Next
  PROVE  TypeInv'
<1> USE DEF TypeInv, fileVars, registryVars, seenVars, memoryVars
<1>0. MaxScans \in Nat
  BY SystemScansAssumption DEF SystemScansAssumption
<1>1. CASE ScanPersistence
  <2>1. cut' \subseteq {"persistence", "memory"}
    BY <1>1 DEF ScanPersistence
  <2>2. starts' \in 0..MaxScans
    BY <1>0, <1>1 DEF ScanPersistence, MayStart
  <2> QED BY <1>1, <2>1, <2>2 DEF ScanPersistence, ClearsCancel, PersistenceGoes, Phase, DbOK
<1>2. CASE ScanAllProcesses
  <2>1. cut' \subseteq {"persistence", "memory"}
    BY <1>2 DEF ScanAllProcesses
  <2>2. starts' \in 0..MaxScans
    BY <1>0, <1>2 DEF ScanAllProcesses, MayStart
  <2>3. /\ scan_cancel' \in BOOLEAN
        /\ memory' \in [at : {"idle", "processes", "done"}, item : Nat, sub : Nat]
    <3>1. /\ scan_cancel' = FALSE \/ scan_cancel' = scan_cancel
          /\ MemoryGoes("processes", 1, 0) \/ MemoryGoes("done", 0, 0)
      BY <1>2 DEF ScanAllProcesses, ClearsCancel
    <3>2. scan_cancel \in BOOLEAN
      OBVIOUS
    <3> DEFINE Places == [at : {"idle", "processes", "done"}, item : Nat, sub : Nat]
    <3>3. MemoryGoes("processes", 1, 0) => memory' \in Places
      BY DEF MemoryGoes
    <3>4. MemoryGoes("done", 0, 0) => memory' \in Places
      BY DEF MemoryGoes
    <3>5. memory' \in Places
      BY <3>1, <3>3, <3>4
    <3>6. scan_cancel' \in BOOLEAN
      BY <3>1, <3>2
    <3> QED BY <3>5, <3>6
  <2> QED BY <1>2, <2>1, <2>2, <2>3 DEF ScanAllProcesses, DbOK
<1>3. CASE ScanRegistry
  BY <1>0, <1>3 DEF ScanRegistry, MayStart, RegistryGoes, DbOK
<1>4. CASE CancelScan
  BY <1>4 DEF CancelScan, DbOK
<1>5. CASE ListsEdited
  BY <1>5, DbTyped DEF ListsEdited
<1>6. ASSUME NEW path \in Built, NEW names \in Library, Link(path, names) PROVE TypeInv'
  <2>1. path \in Program /\ names \in SUBSET STRING /\ IsFiniteSet(names)
    BY SystemScansAssumption DEF SystemScansAssumption
  <2>2. facts[path] \in FileFacts /\ IsFiniteSet(facts[path].imports)
    BY <2>1 DEF Facts
  <2>3. [facts[path] EXCEPT !.imports = @ \cup names] \in FileFacts
    BY <2>1, <2>2 DEF FileFacts
  <2>4. [facts[path] EXCEPT !.imports = @ \cup names].imports = facts[path].imports \cup names
    BY <2>2 DEF FileFacts
  <2>5. [facts[path] EXCEPT !.imports = @ \cup names] \in Facts
    <3>1. IsFiniteSet(facts[path].imports \cup names)
      BY <2>1, <2>2, FS_Union
    <3> QED BY <2>3, <2>4, <3>1 DEF Facts
  <2>6. facts' \in [Program -> Facts]
    BY <1>6, <2>1, <2>5 DEF Link
  <2> QED BY <1>6, <2>6 DEF Link, DbOK
<1>7. CASE OpensTask
  BY <1>7 DEF OpensTask, PersistenceGoes, Fails, Phase, DbOK
<1>8. CASE HandlesCommand
  BY <1>8 DEF HandlesCommand, ScanOneFile, Exists, PersistenceGoes, Phase, DbOK
<1>9. CASE HandlesService
  <2>1. failed' \subseteq Phase \X Nat
    BY <1>9 DEF HandlesService, Fails, Phase
  <2>2. scanned' \subseteq Program /\ gone' \subseteq Program
    BY <1>9 DEF HandlesService, ScanOneFile, Exists
  <2> QED BY <1>9, <2>1, <2>2 DEF HandlesService, PersistenceGoes, Phase, DbOK
<1>10. CASE HandlesSubscription
  <2>1. failed' \subseteq Phase \X Nat
    BY <1>10 DEF HandlesSubscription, Fails, Phase
  <2> QED BY <1>10, <2>1 DEF HandlesSubscription, NextQuery, PersistenceGoes, Phase, DbOK
<1>14. CASE OpensList("tasks", "services") \/ OpensList("services", "consumers")
  <2>1. failed' \subseteq Phase \X Nat
    BY <1>14 DEF OpensList, Fails, Phase
  <2>2. persistence' \in [at : Phase \cup {"idle", "done"}, item : Nat, sub : Nat]
    BY <1>14 DEF OpensList, PersistenceGoes, Phase
  <2> QED BY <1>14, <2>1, <2>2 DEF OpensList, DbOK
<1>11. CASE OpensProcess
  BY <1>11 DEF OpensProcess, MemoryRuns, MemoryGoes, DbOK
<1>12. CASE WalksRegion
  BY <1>12 DEF WalksRegion, MemoryRuns, MemoryGoes, DbOK
<1>13. CASE EvaluatesEntry
  BY <1>13 DEF EvaluatesEntry, RegistryRuns, RegistryGoes, DbOK
<1> QED BY <1>1, <1>2, <1>3, <1>4, <1>5, <1>6, <1>7, <1>8, <1>9, <1>10, <1>11, <1>12, <1>13,
           <1>14
        DEF Next, User, PersistenceStep, MemoryStep

LEMMA PlacesStep ==
  ASSUME TypeInv, PlacesOK, FlagOK, StartedOK, Next
  PROVE  PlacesOK' /\ FlagOK' /\ StartedOK'
<1> USE DEF TypeInv, PlacesOK, FlagOK, StartedOK, fileVars, registryVars, memoryVars, Phase,
        PersistenceRuns, MemoryRuns, RegistryRuns
<1>1. CASE ScanPersistence
  BY <1>1 DEF ScanPersistence, MayStart, ClearsCancel, PersistenceGoes
<1>2. CASE ScanAllProcesses
  BY <1>2 DEF ScanAllProcesses, MayStart, ClearsCancel, MemoryGoes
<1>3. CASE ScanRegistry
  BY <1>3 DEF ScanRegistry, MayStart, RegistryGoes
<1>4. CASE CancelScan
  BY <1>4 DEF CancelScan
<1>5. CASE ListsEdited
  BY <1>5 DEF ListsEdited
<1>6. ASSUME NEW path \in Built, NEW names \in Library, Link(path, names)
      PROVE PlacesOK' /\ FlagOK' /\ StartedOK'
  BY <1>6 DEF Link
<1>7. CASE OpensTask
  BY <1>7 DEF OpensTask, PersistenceGoes
<1>8. CASE HandlesCommand
  BY <1>8 DEF HandlesCommand, PersistenceGoes
<1>9. CASE HandlesService
  BY <1>9 DEF HandlesService, PersistenceGoes
<1>10. CASE HandlesSubscription
  BY <1>10 DEF HandlesSubscription, NextQuery, PersistenceGoes
<1>14. CASE OpensList("tasks", "services") \/ OpensList("services", "consumers")
  BY <1>14 DEF OpensList, PersistenceGoes
<1>11. CASE OpensProcess
  BY <1>11 DEF OpensProcess, MemoryGoes
<1>12. CASE WalksRegion
  BY <1>12 DEF WalksRegion, MemoryGoes
<1>13. CASE EvaluatesEntry
  BY <1>13 DEF EvaluatesEntry, RegistryGoes
<1> QED BY <1>1, <1>2, <1>3, <1>4, <1>5, <1>6, <1>7, <1>8, <1>9, <1>10, <1>11, <1>12, <1>13,
           <1>14
        DEF Next, User, PersistenceStep, MemoryStep

-----------------------------------------------------------------------------
(* What is dealt with stays dealt with                                     *)

LEMMA PersistenceKept ==
  ASSUME TasksInv, ServicesInv, SubscriptionsInv,
         persistence' = persistence, gone \subseteq gone',
         scanned \subseteq scanned', reported \subseteq reported', failed' = failed,
         "persistence" \in cut => "persistence" \in cut'
  PROVE  TasksInv' /\ ServicesInv' /\ SubscriptionsInv'
<1>1. \A path : Exists(path)' => Exists(path)
  BY DEF Exists
<1>2. TasksInv'
  BY <1>1 DEF TasksInv, TaskReached, TaskDone, Refused
<1>3. ServicesInv'
  BY <1>1 DEF ServicesInv, ServiceReached, ServiceDone, Refused
<1>4. SubscriptionsInv'
  BY DEF SubscriptionsInv, QueryReached, Refused
<1> QED BY <1>2, <1>3, <1>4

LEMMA RegionsKept ==
  ASSUME RegionsInv, memory' = memory, regions \subseteq regions', unread \subseteq unread',
         "memory" \in cut => "memory" \in cut'
  PROVE  RegionsInv'
BY DEF RegionsInv, RegionReached, RegionDone, MemoryRuns

LEMMA RegistryKept ==
  ASSUME RegistryInv, StartedOK, registry' = registry, alarms \subseteq alarms',
         gone \subseteq gone', starts > 0 => facts' = facts, starts \in Nat
  PROVE  RegistryInv'
<1> SUFFICES ASSUME NEW k \in DOMAIN ScanAutorunLocations,
                    NEW i \in DOMAIN ScanAutorunLocations[k].values,
                    ValueReached(k, i)'
             PROVE  ValueDone(k, i)'
  BY DEF RegistryInv
<1>1. ValueReached(k, i)
  BY DEF ValueReached, RegistryRuns
<1>2. facts' = facts
  BY <1>1 DEF StartedOK, ValueReached, RegistryRuns
<1>3. \A line : EvaluateAutorunEntry(line)' => EvaluateAutorunEntry(line)
  BY <1>2 DEF EvaluateAutorunEntry, Exists
<1>4. ValueDone(k, i)
  BY <1>1 DEF RegistryInv
<1> QED BY <1>3, <1>4 DEF ValueDone

-----------------------------------------------------------------------------
(* The memory scan                                                         *)

LEMMA ProcessTyped ==
  /\ Len(Process) \in Nat /\ DOMAIN Process = 1..Len(Process)
  /\ \A p \in DOMAIN Process :
       /\ Len(Process[p].map) \in Nat
       /\ DOMAIN Process[p].map = 1..Len(Process[p].map)
       /\ \A k \in DOMAIN Process[p].map : Process[p].map[k].size \in Nat
<1> DEFINE Area == [size : Nat, private : BOOLEAN, executable : BOOLEAN, guarded : BOOLEAN]
<1>1. Process \in Seq(ProcessFacts)
  BY SystemScansAssumption DEF SystemScansAssumption
<1>2. Len(Process) \in Nat /\ DOMAIN Process = 1..Len(Process)
  BY <1>1
<1>3. ASSUME NEW p \in DOMAIN Process
      PROVE  Process[p].map \in Seq(Area)
  <2>1. Process[p] \in ProcessFacts
    BY <1>1
  <2> QED BY <2>1 DEF ProcessFacts
<1>4. ASSUME NEW p \in DOMAIN Process
      PROVE  /\ Len(Process[p].map) \in Nat
             /\ DOMAIN Process[p].map = 1..Len(Process[p].map)
             /\ \A k \in DOMAIN Process[p].map : Process[p].map[k].size \in Nat
  <2> DEFINE map == Process[p].map
  <2>1. map \in Seq(Area)
    BY <1>3
  <2> HIDE DEF map, Area
  <2>2. Len(map) \in Nat /\ DOMAIN map = 1..Len(map) /\ \A k \in DOMAIN map : map[k] \in Area
    BY <2>1
  <2>3. \A area \in Area : area.size \in Nat
    BY DEF Area
  <2> QED BY <2>2, <2>3 DEF map
<1> QED BY <1>2, <1>4

LEMMA RegionsStep ==
  ASSUME TypeInv, PlacesOK, FlagOK, RegionsInv, Next
  PROVE  RegionsInv'
<1>1. ASSUME OpensProcess PROVE RegionsInv'
  <2> SUFFICES ASSUME "memory" \notin cut',
                      NEW p \in DOMAIN Process, NEW k \in DOMAIN Process[p].map,
                      RegionReached(p, k)'
               PROVE  RegionDone(p, k)'
    BY DEF RegionsInv
  <2>1. ~scan_cancel /\ "memory" \notin cut /\ MemoryRuns /\ memory.sub = 0
    BY <1>1 DEF OpensProcess, FlagOK
  <2>2. p \in 1..Len(Process) /\ k \in 1..Len(Process[p].map)
    BY ProcessTyped
  <2>3. CASE memory.item > Len(Process)
    <3>1. RegionReached(p, k)
      BY <2>1, <2>2, <2>3 DEF RegionReached, TypeInv
    <3> QED BY <1>1, <2>1, <3>1 DEF RegionsInv, RegionDone, OpensProcess
  <2>4. CASE memory.item <= Len(Process) /\ IsSkipped(Process[memory.item])
    <3>1. memory' = [at |-> "processes", item |-> memory.item + 1, sub |-> 0]
      BY <1>1, <2>1, <2>4 DEF OpensProcess, MemoryGoes, TypeInv
    <3>2. RegionReached(p, k) \/ p = memory.item
      BY <2>1, <2>2, <3>1 DEF RegionReached, MemoryRuns, TypeInv
    <3>3. p = memory.item => IsSkipped(Process[p])
      BY <2>4
    <3> QED BY <1>1, <2>1, <3>2, <3>3 DEF RegionsInv, RegionDone, OpensProcess
  <2>5. CASE memory.item <= Len(Process) /\ ~IsSkipped(Process[memory.item])
    <3>1. memory' = [at |-> "processes", item |-> memory.item, sub |-> 1]
      BY <1>1, <2>1, <2>5 DEF OpensProcess, MemoryGoes, TypeInv
    <3>2. RegionReached(p, k)
      BY <2>1, <2>2, <3>1 DEF RegionReached, MemoryRuns, TypeInv
    <3> QED BY <1>1, <2>1, <3>2 DEF RegionsInv, RegionDone, OpensProcess
  <2>6. memory.item \in Nat /\ Len(Process) \in Nat
    BY ProcessTyped DEF TypeInv
  <2> QED BY <2>3, <2>4, <2>5, <2>6
<1>2. ASSUME WalksRegion PROVE RegionsInv'
  <2> DEFINE q == memory.item  j == memory.sub
  <2> SUFFICES ASSUME "memory" \notin cut',
                      NEW p \in DOMAIN Process, NEW k \in DOMAIN Process[p].map,
                      RegionReached(p, k)'
               PROVE  RegionDone(p, k)'
    BY DEF RegionsInv
  <2>1. ~scan_cancel /\ "memory" \notin cut /\ MemoryRuns /\ j > 0 /\ q \in Nat /\ j \in Nat
    BY <1>2 DEF WalksRegion, FlagOK, TypeInv
  <2>2. p \in 1..Len(Process) /\ k \in 1..Len(Process[p].map)
    BY ProcessTyped
  <2>3. Process[p].map[k].size \in Nat
    BY ProcessTyped
  <2>4. ASSUME RegionReached(p, k) PROVE RegionDone(p, k)'
    <3>1. RegionDone(p, k)
      BY <2>1, <2>4 DEF RegionsInv
    <3>2. regions \subseteq regions' /\ unread \subseteq unread'
      BY <1>2 DEF WalksRegion, ReadsRegion, Misses
    <3> QED BY <3>1, <3>2 DEF RegionDone
  <2>8. CASE Misses(Rest(q, j)) /\ MemoryGoes("processes", q + 1, 0)
    <3>1. RegionReached(p, k) \/ (p = q /\ k >= j)
      BY <2>1, <2>2, <2>8 DEF MemoryGoes, RegionReached, MemoryRuns
    <3>2. CASE p = q /\ k >= j
      <4>1. <<p, k>> \in Rest(q, j)
        BY <3>2 DEF Rest
      <4> QED BY <2>8, <4>1 DEF Misses, RegionDone
    <3> QED BY <2>4, <3>1, <3>2
  <2>5. CASE j > Len(Process[q].map)
    <3>1. memory' = [at |-> "processes", item |-> q + 1, sub |-> 0]
      BY <1>2, <2>1, <2>5 DEF WalksRegion, MemoryGoes
    <3>2. RegionReached(p, k)
      BY <2>1, <2>2, <2>5, <3>1 DEF RegionReached, MemoryRuns
    <3> QED BY <2>4, <3>2
  <2> DEFINE Walks == /\ ReadsRegion(q, j)
                      /\ IF EndsWalk(Process[q].map[j]) THEN MemoryGoes("processes", q + 1, 0)
                         ELSE MemoryGoes("processes", q,
                                IF Process[q].map[j].size = 0 THEN j ELSE j + 1)
  <2>9. \/ j > Len(Process[q].map)
        \/ Misses(Rest(q, j)) /\ MemoryGoes("processes", q + 1, 0)
        \/ ~(j > Len(Process[q].map)) /\ Walks
    BY <1>2, <2>1 DEF WalksRegion
  <2>6. CASE ~(j > Len(Process[q].map)) /\ Process[q].map[j].size = 0 /\ Walks
    <3>1. memory' = [at |-> "processes", item |-> q + 1, sub |-> 0]
      BY <2>6 DEF MemoryGoes, EndsWalk
    <3>2. RegionReached(p, k) \/ (p = q /\ k >= j)
      BY <2>1, <2>2, <3>1 DEF RegionReached, MemoryRuns
    <3>3. CASE p = q /\ k >= j
      <4>1. j \in 1..k /\ Process[p].map[j].size = 0
        BY <2>1, <2>2, <2>6, <3>3
      <4> QED BY <4>1 DEF RegionDone
    <3> QED BY <2>4, <3>2, <3>3
  <2>7. CASE ~(j > Len(Process[q].map)) /\ Process[q].map[j].size # 0 /\ Walks
    <3>1. memory' = [at |-> "processes", item |-> q, sub |-> j + 1]
      BY <2>7 DEF MemoryGoes, EndsWalk
    <3>2. RegionReached(p, k) \/ (p = q /\ k = j)
      BY <2>1, <2>2, <3>1 DEF RegionReached, MemoryRuns
    <3>3. CASE p = q /\ k = j
      BY <2>7, <3>3 DEF RegionDone, ReadsRegion, Misses
    <3> QED BY <2>4, <3>2, <3>3
  <2> QED BY <2>5, <2>6, <2>7, <2>8, <2>9
<1>3. CASE ScanAllProcesses
  <2>1. ASSUME NEW p \in DOMAIN Process, NEW k \in DOMAIN Process[p].map
        PROVE  RegionReached(p, k)' => <<p, k>> \in unread'
    <3>1. p \in 1..Len(Process) /\ k \in 1..Len(Process[p].map)
      BY ProcessTyped
    <3>2. CASE MemoryGoes("processes", 1, 0)
      BY <3>1, <3>2 DEF MemoryGoes, RegionReached, MemoryRuns
    <3>3. CASE unread' = UNION {Rest(i, 1) : i \in DOMAIN Process}
      <4>1. <<p, k>> \in Rest(p, 1)
        BY <3>1 DEF Rest
      <4> QED BY <3>3, <4>1
    <3> QED BY <1>3, <3>2, <3>3 DEF ScanAllProcesses
  <2> QED BY <2>1 DEF RegionsInv, RegionDone
<1>4. CASE MemoryStep \/ ScanAllProcesses
  BY <1>1, <1>2, <1>3, <1>4 DEF MemoryStep
<1>5. CASE ~(MemoryStep \/ ScanAllProcesses)
  <2>1. /\ memory' = memory /\ regions' = regions /\ unread' = unread
        /\ ("memory" \in cut => "memory" \in cut')
    BY <1>5 DEF Next, User, PersistenceStep, ScanPersistence, ScanRegistry, CancelScan,
         ListsEdited, Link, OpensList, OpensTask, HandlesCommand, HandlesService,
         HandlesSubscription, EvaluatesEntry, memoryVars
  <2> QED BY <2>1, RegionsKept
<1> QED BY <1>4, <1>5

-----------------------------------------------------------------------------
(* The registry scan                                                       *)

LEMMA KeyTyped ==
  /\ Len(ScanAutorunLocations) \in Nat
  /\ DOMAIN ScanAutorunLocations = 1..Len(ScanAutorunLocations)
  /\ \A k \in DOMAIN ScanAutorunLocations :
       LET values == ScanAutorunLocations[k].values
       IN  /\ Len(values) \in Nat /\ DOMAIN values = 1..Len(values)
           /\ \A i \in DOMAIN values : values[i].chars \in Nat
<1> DEFINE Value == [chars : Nat, type : {"REG_SZ", "REG_EXPAND_SZ", "REG_DWORD"},
                      line : CommandLine]
<1>1. Autorun \in Seq(RegistryKey) /\ Service \in Seq(ServiceFacts)
  BY SystemScansAssumption DEF SystemScansAssumption
<1>2. Services.values \in Seq(Value)
  <2>1. DOMAIN Service = 1..Len(Service) /\ Len(Service) \in Nat
        /\ \A s \in DOMAIN Service : Service[s] \in ServiceFacts
    BY <1>1
  <2>3. \A s \in DOMAIN Service : Service[s].line \in CommandLine
    BY <2>1 DEF ServiceFacts
  <2>2. Services.values \in [1..Len(Service) -> Value]
    <3>1. ASSUME NEW line \in CommandLine
          PROVE  [chars |-> 1, type |-> "REG_EXPAND_SZ", line |-> line] \in Value
      OBVIOUS
    <3>2. Services.values =
            [s \in 1..Len(Service) |->
               [chars |-> 1, type |-> "REG_EXPAND_SZ", line |-> Service[s].line]]
      BY <2>1 DEF Services
    <3> HIDE DEF Value
    <3> QED BY <2>1, <2>3, <3>1, <3>2
  <2> HIDE DEF Value
  <2> QED BY <2>1, <2>2
<1>3. Services \in RegistryKey
  BY <1>2 DEF RegistryKey, Services
<1>4. ScanAutorunLocations \in Seq(RegistryKey)
  BY <1>1, <1>3 DEF ScanAutorunLocations
<1>5. /\ Len(ScanAutorunLocations) \in Nat
      /\ DOMAIN ScanAutorunLocations = 1..Len(ScanAutorunLocations)
      /\ \A k \in DOMAIN ScanAutorunLocations : ScanAutorunLocations[k] \in RegistryKey
  BY <1>4
<1>6. ASSUME NEW key \in RegistryKey
      PROVE  /\ Len(key.values) \in Nat /\ DOMAIN key.values = 1..Len(key.values)
             /\ \A i \in DOMAIN key.values : key.values[i].chars \in Nat
  <2> DEFINE values == key.values
  <2>1. values \in Seq(Value)
    BY DEF RegistryKey
  <2> HIDE DEF values, Value
  <2>2. Len(values) \in Nat /\ DOMAIN values = 1..Len(values)
        /\ \A i \in DOMAIN values : values[i] \in Value
    BY <2>1
  <2>3. \A v \in Value : v.chars \in Nat
    BY DEF Value
  <2> QED BY <2>2, <2>3 DEF values
<1> QED BY <1>5, <1>6

LEMMA RegistryStep ==
  ASSUME TypeInv, PlacesOK, StartedOK, RegistryInv, Next
  PROVE  RegistryInv'
<1> DEFINE key == registry.key  item == registry.item  Keys == ScanAutorunLocations
<1>1. ASSUME EvaluatesEntry PROVE RegistryInv'
  <2> SUFFICES ASSUME NEW k \in DOMAIN Keys, NEW i \in DOMAIN Keys[k].values,
                      ValueReached(k, i)'
               PROVE  ValueDone(k, i)'
    BY DEF RegistryInv
  <2>1. RegistryRuns /\ key > 0 /\ item > 0 /\ key \in Nat /\ item \in Nat
    BY <1>1 DEF EvaluatesEntry, PlacesOK, TypeInv
  <2>2. k \in 1..Len(Keys) /\ i \in 1..Len(Keys[k].values) /\ Len(Keys) \in Nat
    BY KeyTyped
  <2>3. ASSUME ValueReached(k, i) PROVE ValueDone(k, i)'
    <3>1. ValueDone(k, i)
      BY <2>3 DEF RegistryInv
    <3>2. alarms \subseteq alarms' /\ facts' = facts /\ gone' = gone
      BY <1>1 DEF EvaluatesEntry, fileVars
    <3> QED BY <3>1, <3>2 DEF ValueDone, EvaluateAutorunEntry, Exists
  <2>4. CASE key > Len(Keys)
    <3>1. ValueReached(k, i)
      BY <2>1, <2>2, <2>4 DEF ValueReached
    <3> QED BY <2>3, <3>1
  <2>5. CASE key <= Len(Keys) /\ ~IsListed(Keys[key], item)
    <3>1. registry' = [at |-> "entries", key |-> key + 1, item |-> 1]
      BY <1>1, <2>1, <2>2, <2>5 DEF EvaluatesEntry, RegistryGoes
    <3>2. ValueReached(k, i) \/ (k = key /\ i >= item)
      BY <2>1, <2>2, <3>1 DEF ValueReached, RegistryRuns
    <3>3. CASE k = key /\ i >= item
      <4>1. item \in 1..i /\ item \in DOMAIN Keys[k].values
        BY <2>1, <2>2, <3>3, KeyTyped
      <4>2. ~Keys[k].opens \/ (Keys[k].holds = "values" /\ ~(Keys[k].values[item].chars <= 255))
        BY <2>5, <3>3, <4>1 DEF IsListed, ScanValueListKey, ScanSubkeysForValue
      <4> QED BY <4>1, <4>2 DEF ValueDone
    <3> QED BY <2>3, <3>2, <3>3
  <2>6. CASE key <= Len(Keys) /\ IsListed(Keys[key], item)
    <3>1. registry' = [at |-> "entries", key |-> key, item |-> item + 1]
      BY <1>1, <2>1, <2>2, <2>6 DEF EvaluatesEntry, RegistryGoes
    <3>2. ValueReached(k, i) \/ (k = key /\ i = item)
      BY <2>1, <2>2, <3>1 DEF ValueReached, RegistryRuns
    <3>3. CASE k = key /\ i = item
      <4>1. LET v == Keys[k].values[i]
            IN  /\ ReadStringValue(v) /\ EvaluateAutorunEntry(v.line) => v.line \in alarms'
                /\ facts' = facts /\ gone' = gone
        BY <1>1, <2>1, <2>2, <2>6, <3>3 DEF EvaluatesEntry, fileVars
      <4> QED BY <4>1 DEF ValueDone, EvaluateAutorunEntry, Exists
    <3> QED BY <2>3, <3>2, <3>3
  <2> QED BY <2>1, <2>2, <2>4, <2>5, <2>6
<1>2. ASSUME ScanRegistry PROVE RegistryInv'
  <2>1. ASSUME NEW k \in DOMAIN Keys, NEW i \in DOMAIN Keys[k].values
        PROVE  ~ValueReached(k, i)'
    <3>1. k \in 1..Len(Keys) /\ i \in 1..Len(Keys[k].values)
      BY KeyTyped
    <3> QED BY <1>2, <3>1 DEF ScanRegistry, RegistryGoes, ValueReached, RegistryRuns
  <2> QED BY <2>1 DEF RegistryInv
<1>3. CASE ~EvaluatesEntry /\ ~ScanRegistry
  <2>1. registry' = registry /\ alarms' = alarms
    BY <1>3 DEF Next, User, PersistenceStep, MemoryStep, ScanPersistence, ScanAllProcesses,
         CancelScan, ListsEdited, Link, OpensList, OpensTask, HandlesCommand, HandlesService,
         HandlesSubscription, OpensProcess, WalksRegion, registryVars
  <2>2. gone \subseteq gone'
    BY <1>3 DEF Next, User, PersistenceStep, MemoryStep, ScanPersistence, ScanAllProcesses,
         CancelScan, ListsEdited, Link, OpensList, OpensTask, HandlesCommand, HandlesService,
         ScanOneFile, HandlesSubscription, OpensProcess, WalksRegion, fileVars
  <2>3. starts > 0 => facts' = facts
    BY <1>3 DEF Next, User, PersistenceStep, MemoryStep, ScanPersistence, ScanAllProcesses,
         CancelScan, ListsEdited, Link, OpensList, OpensTask, HandlesCommand, HandlesService,
         HandlesSubscription, OpensProcess, WalksRegion, fileVars, TypeInv
  <2>4. starts \in Nat
    BY SystemScansAssumption DEF TypeInv, SystemScansAssumption
  <2> QED BY <2>1, <2>2, <2>3, <2>4, RegistryKept
<1> QED BY <1>1, <1>2, <1>3

-----------------------------------------------------------------------------
(* The persistence scan                                                    *)

LEMMA LinesTyped ==
  /\ Len(Task) \in Nat /\ DOMAIN Task = 1..Len(Task)
  /\ \A t \in DOMAIN Task :
       Len(Task[t]) \in Nat /\ DOMAIN Task[t] = 1..Len(Task[t])
  /\ Len(Service) \in Nat /\ DOMAIN Service = 1..Len(Service)
<1>1. Task \in Seq(Seq(CommandLine)) /\ Service \in Seq(ServiceFacts)
  BY SystemScansAssumption DEF SystemScansAssumption
<1>2. Len(Task) \in Nat /\ DOMAIN Task = 1..Len(Task)
      /\ \A t \in DOMAIN Task : Task[t] \in Seq(CommandLine)
  BY <1>1
<1>3. \A q \in Seq(CommandLine) : Len(q) \in Nat /\ DOMAIN q = 1..Len(q)
  OBVIOUS
<1>4. Len(Service) \in Nat /\ DOMAIN Service = 1..Len(Service)
  BY <1>1
<1> QED BY <1>2, <1>3, <1>4

\* A step of the persistence scan loses nothing it has done.
LEMMA StepKeeps ==
  ASSUME TypeInv, PersistenceStep
  PROVE  /\ gone \subseteq gone' /\ scanned \subseteq scanned' /\ reported \subseteq reported'
         /\ failed \subseteq failed' /\ cut' = cut
BY DEF PersistenceStep, OpensList, OpensTask, HandlesCommand, HandlesService,
       HandlesSubscription, ScanOneFile, Fails, fileVars

\* A file that is still there after its turn has been looked at.
LEMMA FileScanned ==
  ASSUME NEW path, ScanOneFile(path)
  PROVE  Exists(path)' => path \in scanned'
BY DEF ScanOneFile, Exists

LEMMA TasksStep ==
  ASSUME TypeInv, PlacesOK, FlagOK, TasksInv, PersistenceStep
  PROVE  TasksInv'
<1> DEFINE item == persistence.item  sub == persistence.sub
<1> SUFFICES ASSUME "persistence" \notin cut',
                    NEW t \in DOMAIN Task, NEW j \in DOMAIN Task[t],
                    TaskReached(t, j)'
             PROVE  TaskDone(t, j)'
  BY DEF TasksInv
<1>1. /\ t \in 1..Len(Task) /\ j \in 1..Len(Task[t]) /\ Len(Task) \in Nat
      /\ Len(Task[t]) \in Nat
  BY LinesTyped
<1>2. item \in Nat /\ sub \in Nat /\ "persistence" \notin cut
  BY StepKeeps DEF TypeInv
<1>3. ASSUME TaskReached(t, j) PROVE TaskDone(t, j)'
  <2>1. TaskDone(t, j)
    BY <1>2, <1>3 DEF TasksInv
  <2> QED BY <2>1, StepKeeps DEF TaskDone, Refused, Exists
<1>4. CASE persistence.at # "tasks"
  BY <1>3, <1>4 DEF PersistenceStep, OpensList, OpensTask, HandlesCommand, HandlesService,
     HandlesSubscription, TaskReached
<1>7. CASE OpensList("tasks", "services")
  <2>1. ~scan_cancel /\ persistence.at = "tasks"
    BY <1>2, <1>7 DEF OpensList, FlagOK, PersistenceRuns, Phase
  <2>2. CASE persistence' = [at |-> "tasks", item |-> 1, sub |-> 0]
    BY <1>1, <2>2 DEF TaskReached
  <2>3. CASE failed' = failed \cup {<<"tasks", 0>>}
    BY <2>3 DEF TaskDone, Refused
  <2> QED BY <1>7, <2>1, <2>2, <2>3 DEF OpensList, PersistenceGoes, Fails
<1>5. CASE OpensTask
  <2>1. ~scan_cancel /\ persistence.at = "tasks" /\ sub = 0
    BY <1>2, <1>5 DEF OpensTask, FlagOK, PersistenceRuns, Phase
  <2>2. CASE item > Len(Task)
    BY <1>1, <1>2, <1>3, <2>1, <2>2 DEF TaskReached
  <2>3. CASE persistence' = [at |-> "tasks", item |-> item, sub |-> 1]
    BY <1>1, <1>2, <1>3, <2>1, <2>3 DEF TaskReached
  <2>4. CASE /\ persistence' = [at |-> "tasks", item |-> item + 1, sub |-> 0]
             /\ failed' = failed \cup {<<"tasks", item>>}
    <3>1. TaskReached(t, j) \/ t = item
      BY <1>1, <1>2, <2>1, <2>4 DEF TaskReached
    <3>2. t = item => Refused("tasks", t)'
      BY <2>4 DEF Refused
    <3> QED BY <1>3, <3>1, <3>2 DEF TaskDone
  <2> QED BY <1>5, <2>1, <2>2, <2>3, <2>4 DEF OpensTask, PersistenceGoes, Fails
<1>6. CASE HandlesCommand
  <2>1. persistence.at = "tasks" /\ sub > 0
    BY <1>6 DEF HandlesCommand
  <2>2. CASE sub > Len(Task[item]) \/ Task[item][sub].words = <<>>
    <3>1. persistence' = [at |-> "tasks", item |-> item + 1, sub |-> 0]
      BY <1>6, <2>2 DEF HandlesCommand, PersistenceGoes
    <3>2. TaskReached(t, j) \/ (t = item /\ j >= sub)
      BY <1>1, <1>2, <2>1, <3>1 DEF TaskReached
    <3>3. CASE t = item /\ j >= sub
      <4>1. sub \in 1..j /\ Task[t][sub].words = <<>>
        BY <1>1, <1>2, <2>1, <2>2, <3>3
      <4> QED BY <4>1 DEF TaskDone
    <3> QED BY <1>3, <3>2, <3>3
  <2>3. CASE ~(sub > Len(Task[item]) \/ Task[item][sub].words = <<>>)
    <3>1. /\ persistence' = [at |-> "tasks", item |-> item, sub |-> sub + 1]
          /\ ScanOneFile(TaskPath(Task[item][sub]))
          /\ \/ <<"task", item, sub>> \in reported'
             \/ IsTrustedPath(TaskPath(Task[item][sub])) \/ Task[item][sub].nested
      BY <1>6, <2>3 DEF HandlesCommand, PersistenceGoes
    <3>2. TaskReached(t, j) \/ (t = item /\ j = sub)
      BY <1>1, <1>2, <2>1, <3>1 DEF TaskReached
    <3>3. CASE t = item /\ j = sub
      BY <3>1, <3>3, FileScanned DEF TaskDone
    <3> QED BY <1>3, <3>2, <3>3
  <2> QED BY <2>2, <2>3
<1> QED
  BY <1>4, <1>5, <1>6, <1>7 DEF PersistenceStep, OpensList, HandlesService, HandlesSubscription

LEMMA ServicesStep ==
  ASSUME TypeInv, PlacesOK, FlagOK, ServicesInv, PersistenceStep
  PROVE  ServicesInv'
<1> DEFINE item == persistence.item
<1> SUFFICES ASSUME "persistence" \notin cut', NEW s \in DOMAIN Service, ServiceReached(s)'
             PROVE  ServiceDone(s)'
  BY DEF ServicesInv
<1>1. s \in 1..Len(Service) /\ Len(Service) \in Nat
  BY LinesTyped
<1>2. item \in Nat /\ "persistence" \notin cut
  BY StepKeeps DEF TypeInv
<1>3. ASSUME ServiceReached(s) PROVE ServiceDone(s)'
  <2>1. ServiceDone(s)
    BY <1>2, <1>3 DEF ServicesInv
  <2> QED BY <2>1, StepKeeps DEF ServiceDone, Refused, Exists
<1>4. CASE persistence.at \notin {"tasks", "services"}
  BY <1>3, <1>4 DEF PersistenceStep, OpensList, OpensTask, HandlesCommand, HandlesService,
     HandlesSubscription, ServiceReached
<1>5. CASE OpensList("tasks", "services") \/ OpensTask \/ HandlesCommand
  BY <1>1, <1>5 DEF OpensList, OpensTask, HandlesCommand, PersistenceGoes, ServiceReached
<1>7. CASE OpensList("services", "consumers")
  <2>1. ~scan_cancel /\ persistence.at = "services"
    BY <1>2, <1>7 DEF OpensList, FlagOK, PersistenceRuns, Phase
  <2>2. CASE persistence' = [at |-> "services", item |-> 1, sub |-> 0]
    BY <1>1, <2>2 DEF ServiceReached
  <2>3. CASE failed' = failed \cup {<<"services", 0>>}
    BY <2>3 DEF ServiceDone, Refused
  <2> QED BY <1>7, <2>1, <2>2, <2>3 DEF OpensList, PersistenceGoes, Fails
<1>6. CASE HandlesService
  <2>1. ~scan_cancel /\ persistence.at = "services"
    BY <1>2, <1>6 DEF HandlesService, FlagOK, PersistenceRuns, Phase
  <2>2. CASE item > Len(Service)
    BY <1>1, <1>2, <1>3, <2>1, <2>2 DEF ServiceReached
  <2>3. CASE ~(item > Len(Service))
    <3>1. /\ persistence' = [at |-> "services", item |-> item + 1, sub |-> 0]
          /\ \/ ~Service[item].win32 \/ IsTrustedPath(ServicePath(Service[item].line))
             \/ failed' = failed \cup {<<"services", item>>}
             \/ ScanOneFile(ServicePath(Service[item].line))
      BY <1>6, <2>1, <2>3 DEF HandlesService, PersistenceGoes, Fails
    <3>2. ServiceReached(s) \/ s = item
      BY <1>1, <1>2, <2>1, <3>1 DEF ServiceReached
    <3>3. CASE s = item
      BY <3>1, <3>3, FileScanned DEF ServiceDone, Refused
    <3> QED BY <1>3, <3>2, <3>3
  <2> QED BY <2>2, <2>3
<1> QED BY <1>4, <1>5, <1>6, <1>7 DEF PersistenceStep, HandlesSubscription

LEMMA SubscriptionsStep ==
  ASSUME TypeInv, PlacesOK, FlagOK, SubscriptionsInv, PersistenceStep
  PROVE  SubscriptionsInv'
<1> DEFINE item == persistence.item
<1> SUFFICES ASSUME "persistence" \notin cut',
                    NEW at \in {"consumers", "filters"}, NEW k \in 1..Subscription,
                    QueryReached(at, k)'
             PROVE  Refused(at, 0)' \/ <<at, k>> \in reported'
  BY DEF SubscriptionsInv
<1>1. Subscription \in Nat /\ item \in Nat /\ "persistence" \notin cut
  BY SystemScansAssumption, StepKeeps DEF TypeInv, SystemScansAssumption
<1>2. ASSUME QueryReached(at, k) PROVE Refused(at, 0)' \/ <<at, k>> \in reported'
  BY <1>1, <1>2, StepKeeps DEF SubscriptionsInv, Refused
<1>3. CASE ~HandlesSubscription
  BY <1>1, <1>3 DEF PersistenceStep, OpensList, OpensTask, HandlesCommand, HandlesService,
     PersistenceGoes, QueryReached
<1>4. CASE HandlesSubscription
  <2>1. ~scan_cancel /\ persistence.at \in {"consumers", "filters"}
    BY <1>1, <1>4 DEF HandlesSubscription, FlagOK, PersistenceRuns, Phase
  <2>2. CASE item = 0 /\ PersistenceGoes(persistence.at, 1, 0)
    BY <1>1, <1>2, <2>1, <2>2 DEF PersistenceGoes, QueryReached
  <2>3. CASE failed' = failed \cup {<<"consumers", 0>>, <<"filters", 0>>}
    BY <2>3 DEF Refused
  <2>4. CASE /\ PersistenceGoes(persistence.at, item + 1, 0)
             /\ reported' = reported \cup {<<persistence.at, item>>}
    <3>1. QueryReached(at, k) \/ (at = persistence.at /\ k = item)
      BY <1>1, <2>1, <2>4 DEF QueryReached, PersistenceGoes
    <3> QED BY <1>2, <2>4, <3>1
  <2>5. CASE PersistenceGoes(NextQuery(persistence.at), 0, 0)
             /\ (item > Subscription \/ failed' = failed \cup {<<persistence.at, 0>>})
    <3>1. QueryReached(at, k) \/ at = persistence.at
      BY <1>1, <2>1, <2>5 DEF QueryReached, PersistenceGoes, NextQuery
    <3>2. item > Subscription /\ at = persistence.at => QueryReached(at, k)
      BY <1>1 DEF QueryReached
    <3>3. failed' = failed \cup {<<persistence.at, 0>>} /\ at = persistence.at
            => Refused(at, 0)'
      BY DEF Refused
    <3> QED BY <1>2, <2>5, <3>1, <3>2, <3>3
  <2>6. \/ item = 0 /\ PersistenceGoes(persistence.at, 1, 0)
        \/ failed' = failed \cup {<<"consumers", 0>>, <<"filters", 0>>}
        \/ /\ PersistenceGoes(persistence.at, item + 1, 0)
           /\ reported' = reported \cup {<<persistence.at, item>>}
        \/ PersistenceGoes(NextQuery(persistence.at), 0, 0)
           /\ (item > Subscription \/ failed' = failed \cup {<<persistence.at, 0>>})
    BY <1>4, <2>1 DEF HandlesSubscription, Fails
  <2> QED BY <2>2, <2>3, <2>4, <2>5, <2>6
<1> QED BY <1>3, <1>4

-----------------------------------------------------------------------------
(* The invariant                                                           *)

\* A scan that starts has dealt with nothing yet.
LEMMA PersistenceBegins ==
  ASSUME ScanPersistence
  PROVE  TasksInv' /\ ServicesInv' /\ SubscriptionsInv'
<1>1. persistence' = [at |-> "tasks", item |-> 0, sub |-> 0]
  BY DEF ScanPersistence, PersistenceGoes
<1>2. ASSUME NEW t \in DOMAIN Task, NEW j \in DOMAIN Task[t] PROVE ~TaskReached(t, j)'
  BY <1>1, LinesTyped DEF TaskReached
<1>3. TasksInv'
  BY <1>2 DEF TasksInv
<1>4. ServicesInv' /\ SubscriptionsInv'
  BY <1>1 DEF ServicesInv, ServiceReached, SubscriptionsInv, QueryReached
<1> QED BY <1>3, <1>4

LEMMA Inductive == IInv /\ [Next]_vars => IInv'
<1> SUFFICES ASSUME IInv, [Next]_vars PROVE IInv'
  OBVIOUS
<1> USE DEF IInv
<1>1. ASSUME Next PROVE IInv'
  <2>1. TypeInv' /\ PlacesOK' /\ FlagOK' /\ StartedOK'
    BY <1>1, TypeStep, PlacesStep
  <2>2. RegionsInv' /\ RegistryInv'
    BY <1>1, RegionsStep, RegistryStep
  <2>3. TasksInv' /\ ServicesInv' /\ SubscriptionsInv'
    <3>1. CASE PersistenceStep
      BY <3>1, TasksStep, ServicesStep, SubscriptionsStep
    <3>2. CASE ScanPersistence
      BY <3>2, PersistenceBegins
    <3>3. CASE ~PersistenceStep /\ ~ScanPersistence
      <4>1. /\ persistence' = persistence /\ gone' = gone /\ scanned' = scanned
            /\ reported' = reported /\ failed' = failed
            /\ ("persistence" \in cut => "persistence" \in cut')
        BY <1>1, <3>3 DEF Next, User, MemoryStep, ScanAllProcesses, ScanRegistry, CancelScan,
           ListsEdited, Link, OpensProcess, WalksRegion, EvaluatesEntry, fileVars, seenVars
      <4> QED BY <4>1, PersistenceKept
    <3> QED BY <3>1, <3>2, <3>3
  <2> QED BY <2>1, <2>2, <2>3
<1>2. ASSUME UNCHANGED vars PROVE IInv'
  <2> USE <1>2 DEF vars, fileVars, registryVars, seenVars, memoryVars
  <2>1. TypeInv' /\ PlacesOK' /\ FlagOK' /\ StartedOK'
    BY DEF TypeInv, DbOK, PlacesOK, FlagOK, StartedOK, PersistenceRuns, MemoryRuns, RegistryRuns
  <2>2. TasksInv' /\ ServicesInv' /\ SubscriptionsInv'
    BY PersistenceKept
  <2>3. RegionsInv'
    BY RegionsKept
  <2>4. starts \in Nat
    BY SystemScansAssumption DEF TypeInv, SystemScansAssumption
  <2>5. RegistryInv'
    BY <2>4, RegistryKept
  <2> QED BY <2>1, <2>2, <2>3, <2>5
<1> QED BY <1>1, <1>2

LEMMA Invariant == Spec => []IInv
BY InitOK, Inductive, PTL DEF Spec

\* A set of positions has a first one.
LessThan == {ss \in Nat \X Nat : ss[1] < ss[2]}
LEMMA LeastOf ==
  ASSUME NEW T \in SUBSET Nat, T # {}
  PROVE  \E m \in T : \A y \in T : m =< y
<1>1. IsWellFoundedOn(LessThan, Nat)
  BY NatLessThanWellFounded DEF OpToRel, LessThan
<1>2. PICK m \in T : \A y \in T : ~(<<y, m>> \in LessThan)
  BY <1>1, WFMin
<1>3. ASSUME NEW y \in T PROVE m =< y
  <2>1. ~(<<y, m>> \in LessThan)
    BY <1>2
  <2>2. m \in Nat /\ y \in Nat
    OBVIOUS
  <2>3. ~(y < m)
    BY <2>1, <2>2 DEF LessThan
  <2> QED BY <2>2, <2>3
<1> QED BY <1>3

\* A path of one word is the one the persistence scan takes for the service.
LEMMA OneWordPath ==
  ASSUME NEW s \in DOMAIN Service, ~(Len(ExtractExecutablePath(Service[s].line)) > 1)
  PROVE  ExtractExecutablePath(Service[s].line) = ServicePath(Service[s].line)
<1> DEFINE v == Service[s].line  ends == {k \in DOMAIN v.words : \E e \in kExeExtensions : EndsWith(v.words[k], e)}
<1>1. v.words \in Seq(STRING)
  <2>1. Service \in Seq(ServiceFacts)
    BY SystemScansAssumption DEF SystemScansAssumption
  <2>2. Service[s] \in ServiceFacts
    BY <2>1
  <2> QED BY <2>2 DEF ServiceFacts, CommandLine
<1>2. CASE v.quoted > 0
  BY <1>2 DEF ExtractExecutablePath, ServicePath
<1>3. CASE ~(v.quoted > 0) /\ ends = {}
  BY <1>3 DEF ExtractExecutablePath, ServicePath
<1>4. CASE ~(v.quoted > 0) /\ ends # {}
  <2>1. ends \in SUBSET Nat /\ DOMAIN v.words = 1..Len(v.words)
    BY <1>1
  <2>2. \E m \in ends : \A k \in ends : m =< k
    BY <1>4, <2>1, LeastOf
  <2>3. Min(ends) \in ends
    BY <2>2 DEF Min
  <2> DEFINE m == Min(ends)
  <2>4. m \in 1..Len(v.words) /\ ExtractExecutablePath(v) = SubSeq(v.words, 1, m)
    BY <1>1, <1>4, <2>1, <2>3 DEF ExtractExecutablePath
  <2> HIDE DEF m, ends
  <2>5. Len(SubSeq(v.words, 1, m)) = m
    BY <1>1, <2>4
  <2>6. m = 1
    BY <2>4, <2>5
  <2> QED BY <1>4, <2>4, <2>6 DEF ServicePath
<1> QED BY <1>2, <1>3, <1>4

-----------------------------------------------------------------------------
(* Each step of a scan brings it nearer to its end                         *)

\* The places a scan passes through, in the order in which it does.
Stage == [tasks |-> 1, services |-> 2, consumers |-> 3, filters |-> 4, processes |-> 1,
          entries |-> 1, done |-> 5]

PersistencePlace == <<Stage[persistence.at], persistence.item, persistence.sub>>
MemoryPlace == <<Stage[memory.at], memory.item, memory.sub>>
RegistryPlace == <<Stage[registry.at], registry.key, registry.item>>

Before(a, b) ==
  \/ a[1] < b[1]
  \/ a[1] = b[1] /\ a[2] < b[2]
  \/ a[1] = b[1] /\ a[2] = b[2] /\ a[3] < b[3]

\* None but finitely many places are ever reached: a scan never goes further than
\* one past the end of the list it is in.
Confined ==
  /\ persistence.at = "tasks" =>
       IF persistence.sub = 0 THEN persistence.item <= Len(Task) + 1
       ELSE /\ persistence.item <= Len(Task)
            /\ persistence.sub <= Len(Task[persistence.item]) + 1
  /\ persistence.at = "services" => persistence.item <= Len(Service) + 1
  /\ persistence.at \in {"consumers", "filters"} => persistence.item <= Subscription + 1
  /\ persistence.at # "tasks" => persistence.sub = 0
  /\ MemoryRuns =>
       IF memory.sub = 0 THEN memory.item <= Len(Process) + 1
       ELSE /\ memory.item <= Len(Process)
            /\ memory.sub <= Len(Process[memory.item].map) + 1
  /\ RegistryRuns =>
       /\ registry.key <= Len(ScanAutorunLocations) + 1
       /\ registry.item # 1 =>
            /\ registry.key <= Len(ScanAutorunLocations)
            /\ registry.item <= Len(ScanAutorunLocations[registry.key].values) + 1

\* A running scan is moved by its own steps only, and each of them moves it on.
Nearer ==
  /\ PersistenceRuns /\ persistence' # persistence => Before(PersistencePlace, PersistencePlace')
  /\ MemoryRuns /\ memory' # memory => Before(MemoryPlace, MemoryPlace')
  /\ RegistryRuns /\ registry' # registry => Before(RegistryPlace, RegistryPlace')
  /\ PersistenceStep => persistence' # persistence
  /\ MemoryStep => memory' # memory
  /\ EvaluatesEntry => registry' # registry

LEMMA ConfinedFirst == Init => Confined
  BY DEF Init, Confined, MemoryRuns, RegistryRuns

\* The steps that leave the three places as they are.
LEMMA PlacesFrame ==
  ASSUME [Next]_vars
  PROVE  /\ persistence' = persistence \/ ScanPersistence \/ PersistenceStep
         /\ memory' = memory \/ ScanAllProcesses \/ MemoryStep
         /\ registry' = registry \/ ScanRegistry \/ EvaluatesEntry
<1>1. CASE User
  BY <1>1 DEF User, ScanPersistence, ScanAllProcesses, ScanRegistry, CancelScan, ListsEdited,
              Link, registryVars, memoryVars
<1>2. CASE PersistenceStep
  BY <1>2 DEF PersistenceStep, OpensList, OpensTask, HandlesCommand, HandlesService,
              HandlesSubscription, registryVars, memoryVars
<1>3. CASE MemoryStep
  BY <1>3 DEF MemoryStep, OpensProcess, WalksRegion, registryVars
<1>4. CASE EvaluatesEntry
  BY <1>4 DEF EvaluatesEntry, memoryVars
<1>5. CASE UNCHANGED vars
  BY <1>5 DEF vars, registryVars, memoryVars
<1> QED BY <1>1, <1>2, <1>3, <1>4, <1>5 DEF Next

LEMMA PersistenceConfined ==
  ASSUME TypeInv, PlacesOK, Confined, ScanPersistence \/ PersistenceStep
  PROVE  /\ persistence'.at = "tasks" =>
              IF persistence'.sub = 0 THEN persistence'.item <= Len(Task) + 1
              ELSE /\ persistence'.item <= Len(Task)
                   /\ persistence'.sub <= Len(Task[persistence'.item]) + 1
         /\ persistence'.at = "services" => persistence'.item <= Len(Service) + 1
         /\ persistence'.at \in {"consumers", "filters"} => persistence'.item <= Subscription + 1
         /\ persistence'.at # "tasks" => persistence'.sub = 0
<1> DEFINE t == persistence.item  j == persistence.sub
<1>1. Len(Task) \in Nat /\ Len(Service) \in Nat /\ Subscription \in Nat
      /\ \A i \in 1..Len(Task) : Len(Task[i]) \in Nat
  BY LinesTyped, SystemScansAssumption DEF SystemScansAssumption
<1>2. t \in Nat /\ j \in Nat /\ (persistence.at = "tasks" /\ j > 0 => t > 0)
  BY DEF TypeInv, PlacesOK
<1>3. CASE ScanPersistence
  BY <1>1, <1>3 DEF ScanPersistence, PersistenceGoes
<1>8. CASE OpensList("tasks", "services") \/ OpensList("services", "consumers")
  BY <1>1, <1>8 DEF OpensList, PersistenceGoes
<1>4. CASE OpensTask
  BY <1>1, <1>2, <1>4 DEF OpensTask, PersistenceGoes
<1>5. CASE HandlesCommand
  <2>1. /\ persistence.at = "tasks" /\ j > 0
        /\ IF j > Len(Task[t]) \/ Task[t][j].words = <<>>
           THEN persistence' = [at |-> "tasks", item |-> t + 1, sub |-> 0]
           ELSE persistence' = [at |-> "tasks", item |-> t, sub |-> j + 1]
    BY <1>5 DEF HandlesCommand, PersistenceGoes
  <2>2. t \in 1..Len(Task) /\ j <= Len(Task[t]) + 1 /\ Len(Task[t]) \in Nat
    BY <1>1, <1>2, <2>1 DEF Confined
  <2> QED BY <1>1, <1>2, <2>1, <2>2
<1>6. CASE HandlesService
  BY <1>1, <1>2, <1>6 DEF HandlesService, PersistenceGoes, Confined
<1>7. CASE HandlesSubscription
  BY <1>1, <1>2, <1>7 DEF HandlesSubscription, PersistenceGoes, NextQuery, Confined
<1> QED BY <1>3, <1>4, <1>5, <1>6, <1>7, <1>8 DEF PersistenceStep

LEMMA MemoryConfined ==
  ASSUME TypeInv, PlacesOK, Confined, ScanAllProcesses \/ MemoryStep
  PROVE  memory'.at = "processes" =>
           IF memory'.sub = 0 THEN memory'.item <= Len(Process) + 1
           ELSE /\ memory'.item <= Len(Process)
                /\ memory'.sub <= Len(Process[memory'.item].map) + 1
<1> DEFINE p == memory.item  k == memory.sub
<1>1. Len(Process) \in Nat /\ \A i \in 1..Len(Process) : Len(Process[i].map) \in Nat
  BY ProcessTyped
<1>2. p \in Nat /\ k \in Nat /\ (MemoryRuns => p > 0)
  BY DEF TypeInv, PlacesOK
<1>3. CASE ScanAllProcesses
  BY <1>1, <1>3 DEF ScanAllProcesses, MemoryGoes
<1>4. CASE OpensProcess
  <2>1. MemoryRuns /\ k = 0
        /\ \/ memory' = [at |-> "done", item |-> 0, sub |-> 0]
           \/ p <= Len(Process) /\ memory' = [at |-> "processes", item |-> p + 1, sub |-> 0]
           \/ p <= Len(Process) /\ memory' = [at |-> "processes", item |-> p, sub |-> 1]
    BY <1>1, <1>2, <1>4 DEF OpensProcess, MemoryGoes
  <2>2. p <= Len(Process) => Len(Process[p].map) \in Nat
    BY <1>1, <1>2, <2>1
  <2> QED BY <1>1, <1>2, <2>1, <2>2
<1>5. CASE WalksRegion
  <2>1. /\ MemoryRuns /\ k > 0
        /\ \/ memory' = [at |-> "processes", item |-> p + 1, sub |-> 0]
           \/ /\ k <= Len(Process[p].map)
              /\ \/ memory' = [at |-> "processes", item |-> p, sub |-> k]
                 \/ memory' = [at |-> "processes", item |-> p, sub |-> k + 1]
    <3>1. /\ MemoryRuns /\ k > 0
          /\ \/ MemoryGoes("processes", p + 1, 0)
             \/ /\ k <= Len(Process[p].map)
                /\ \/ MemoryGoes("processes", p + 1, 0)
                   \/ MemoryGoes("processes", p, k) \/ MemoryGoes("processes", p, k + 1)
      BY <1>5 DEF WalksRegion
    <3> QED BY <3>1 DEF MemoryGoes
  <2>2. p \in 1..Len(Process) /\ k <= Len(Process[p].map) + 1 /\ Len(Process[p].map) \in Nat
    BY <1>1, <1>2, <2>1 DEF Confined
  <2> QED BY <1>1, <1>2, <2>1, <2>2
<1> QED BY <1>3, <1>4, <1>5 DEF MemoryStep

LEMMA RegistryConfined ==
  ASSUME TypeInv, PlacesOK, Confined, ScanRegistry \/ EvaluatesEntry
  PROVE  registry'.at = "entries" =>
           /\ registry'.key <= Len(ScanAutorunLocations) + 1
           /\ registry'.item # 1 =>
                /\ registry'.key <= Len(ScanAutorunLocations)
                /\ registry'.item <= Len(ScanAutorunLocations[registry'.key].values) + 1
<1> DEFINE k == registry.key  i == registry.item  n == Len(ScanAutorunLocations)
<1>1. n \in Nat /\ DOMAIN ScanAutorunLocations = 1..n
      /\ \A key \in 1..n : LET values == ScanAutorunLocations[key].values
                           IN  Len(values) \in Nat /\ DOMAIN values = 1..Len(values)
  BY KeyTyped
<1>2. k \in Nat /\ i \in Nat /\ (RegistryRuns => k > 0 /\ i > 0)
  BY DEF TypeInv, PlacesOK
<1>3. CASE ScanRegistry
  BY <1>1, <1>3 DEF ScanRegistry, RegistryGoes
<1>4. CASE EvaluatesEntry
  <2>1. /\ RegistryRuns
        /\ \/ registry' = [at |-> "done", key |-> 0, item |-> 0]
           \/ k <= n /\ registry' = [at |-> "entries", key |-> k + 1, item |-> 1]
           \/ /\ k <= n /\ i \in DOMAIN ScanAutorunLocations[k].values
              /\ registry' = [at |-> "entries", key |-> k, item |-> i + 1]
    <3>1. /\ RegistryRuns
          /\ IF k > n THEN RegistryGoes("done", 0, 0)
             ELSE IF ~IsListed(ScanAutorunLocations[k], i)
             THEN RegistryGoes("entries", k + 1, 1)
             ELSE RegistryGoes("entries", k, i + 1)
      BY <1>4 DEF EvaluatesEntry
    <3>2. IsListed(ScanAutorunLocations[k], i) => i \in DOMAIN ScanAutorunLocations[k].values
      BY DEF IsListed, ScanValueListKey, ScanSubkeysForValue
    <3>3. ~(k > n) => k <= n
      <4> HIDE DEF n
      <4> QED BY <1>1, <1>2
    <3> HIDE DEF n
    <3> QED BY <3>1, <3>2, <3>3 DEF RegistryGoes
  <2>2. k <= n => LET values == ScanAutorunLocations[k].values
                  IN  Len(values) \in Nat /\ DOMAIN values = 1..Len(values)
    BY <1>1, <1>2, <2>1
  <2> HIDE DEF n
  <2> QED BY <1>1, <1>2, <2>1, <2>2 DEF n
<1> QED BY <1>3, <1>4

LEMMA ConfinedStep ==
  ASSUME TypeInv, PlacesOK, Confined, [Next]_vars
  PROVE  Confined'
<1>1. /\ persistence' = persistence \/ ScanPersistence \/ PersistenceStep
      /\ memory' = memory \/ ScanAllProcesses \/ MemoryStep
      /\ registry' = registry \/ ScanRegistry \/ EvaluatesEntry
  BY PlacesFrame
<1> DEFINE There ==
      /\ persistence.at = "tasks" =>
           IF persistence.sub = 0 THEN persistence.item <= Len(Task) + 1
           ELSE /\ persistence.item <= Len(Task)
                /\ persistence.sub <= Len(Task[persistence.item]) + 1
      /\ persistence.at = "services" => persistence.item <= Len(Service) + 1
      /\ persistence.at \in {"consumers", "filters"} => persistence.item <= Subscription + 1
      /\ persistence.at # "tasks" => persistence.sub = 0
<1>2. There'
  <2>1. There
    BY DEF Confined
  <2> QED BY <1>1, <2>1, PersistenceConfined
<1>3. MemoryRuns' =>
        IF memory'.sub = 0 THEN memory'.item <= Len(Process) + 1
        ELSE /\ memory'.item <= Len(Process)
             /\ memory'.sub <= Len(Process[memory'.item].map) + 1
  BY <1>1, MemoryConfined DEF Confined, MemoryRuns
<1>4. RegistryRuns' =>
        /\ registry'.key <= Len(ScanAutorunLocations) + 1
        /\ registry'.item # 1 =>
             /\ registry'.key <= Len(ScanAutorunLocations)
             /\ registry'.item <= Len(ScanAutorunLocations[registry'.key].values) + 1
  BY <1>1, RegistryConfined DEF Confined, RegistryRuns
<1> QED BY <1>2, <1>3, <1>4 DEF Confined

LEMMA PersistenceNearer ==
  ASSUME TypeInv, Confined, PersistenceStep
  PROVE  Before(PersistencePlace, PersistencePlace')
<1> DEFINE t == persistence.item  j == persistence.sub
<1>1. t \in Nat /\ j \in Nat
  BY DEF TypeInv
<1> USE DEF PersistencePlace, Before, Stage
<1>6. CASE OpensList("tasks", "services") \/ OpensList("services", "consumers")
  BY <1>1, <1>6 DEF OpensList, PersistenceGoes
<1>2. CASE OpensTask
  BY <1>1, <1>2 DEF OpensTask, PersistenceGoes
<1>3. CASE HandlesCommand
  BY <1>1, <1>3 DEF HandlesCommand, PersistenceGoes
<1>4. CASE HandlesService
  BY <1>1, <1>4 DEF HandlesService, PersistenceGoes
<1>5. CASE HandlesSubscription
  BY <1>1, <1>5 DEF HandlesSubscription, PersistenceGoes, NextQuery
<1> QED BY <1>2, <1>3, <1>4, <1>5, <1>6 DEF PersistenceStep

\* A region of size 0 ends the walk, so that the place of the walk never stands still.
LEMMA MemoryNearer ==
  ASSUME TypeInv, MemoryStep
  PROVE  Before(MemoryPlace, MemoryPlace')
<1> DEFINE p == memory.item  k == memory.sub
<1>1. p \in Nat /\ k \in Nat
  BY DEF TypeInv
<1> USE DEF MemoryPlace, Before, Stage
<1>2. CASE OpensProcess
  BY <1>1, <1>2 DEF OpensProcess, MemoryRuns, MemoryGoes
<1>3. CASE WalksRegion
  <2>1. /\ memory.at = "processes" /\ k > 0
        /\ \/ memory' = [at |-> "processes", item |-> p + 1, sub |-> 0]
           \/ memory' = [at |-> "processes", item |-> p, sub |-> k + 1]
    BY <1>3 DEF WalksRegion, MemoryRuns, MemoryGoes, EndsWalk
  <2> QED BY <1>1, <2>1
<1> QED BY <1>2, <1>3 DEF MemoryStep

LEMMA RegistryNearer ==
  ASSUME TypeInv, EvaluatesEntry
  PROVE  Before(RegistryPlace, RegistryPlace')
<1>1. registry.key \in Nat /\ registry.item \in Nat
  BY DEF TypeInv
<1>2. /\ registry.at = "entries"
      /\ \/ registry' = [at |-> "done", key |-> 0, item |-> 0]
         \/ registry' = [at |-> "entries", key |-> registry.key + 1, item |-> 1]
         \/ registry' = [at |-> "entries", key |-> registry.key, item |-> registry.item + 1]
  BY DEF EvaluatesEntry, RegistryRuns, RegistryGoes
<1> QED BY <1>1, <1>2 DEF RegistryPlace, Before, Stage

LEMMA NearerStep ==
  ASSUME TypeInv, Confined, [Next]_vars
  PROVE  Nearer
<1>1. /\ persistence' = persistence \/ ScanPersistence \/ PersistenceStep
      /\ memory' = memory \/ ScanAllProcesses \/ MemoryStep
      /\ registry' = registry \/ ScanRegistry \/ EvaluatesEntry
  BY PlacesFrame
<1>2. /\ PersistenceRuns => ~ScanPersistence
      /\ MemoryRuns => ~ScanAllProcesses
      /\ RegistryRuns => ~ScanRegistry
  BY DEF ScanPersistence, ScanAllProcesses, ScanRegistry, RegistryRuns
<1>3. PersistenceStep => persistence' # persistence
  <2>1. persistence.item \in Nat /\ persistence.sub \in Nat
    BY DEF TypeInv
  <2>2. Stage[persistence.at] \in Nat \/ persistence.at \notin Phase
    BY DEF Stage, Phase
  <2>3. PersistenceStep => persistence.at \in Phase
    BY DEF PersistenceStep, OpensList, OpensTask, HandlesCommand, HandlesService,
       HandlesSubscription, Phase
  <2>4. persistence' = persistence => PersistencePlace' = PersistencePlace
    BY DEF PersistencePlace
  <2>5. persistence.at \in Phase => ~Before(PersistencePlace, PersistencePlace)
    BY <2>1, <2>2 DEF Before, PersistencePlace
  <2> QED BY <2>3, <2>4, <2>5, PersistenceNearer
<1>4. MemoryStep => memory' # memory
  <2>1. memory.item \in Nat /\ memory.sub \in Nat
    BY DEF TypeInv
  <2>2. MemoryStep => memory.at = "processes"
    BY DEF MemoryStep, OpensProcess, WalksRegion, MemoryRuns
  <2>3. memory' = memory => MemoryPlace' = MemoryPlace
    BY DEF MemoryPlace
  <2>4. memory.at = "processes" => ~Before(MemoryPlace, MemoryPlace)
    BY <2>1 DEF Before, MemoryPlace, Stage
  <2> QED BY <2>2, <2>3, <2>4, MemoryNearer
<1>5. EvaluatesEntry => registry' # registry
  <2>1. registry.key \in Nat /\ registry.item \in Nat
    BY DEF TypeInv
  <2>2. EvaluatesEntry => registry.at = "entries"
    BY DEF EvaluatesEntry, RegistryRuns
  <2>3. registry' = registry => RegistryPlace' = RegistryPlace
    BY DEF RegistryPlace
  <2>4. registry.at = "entries" => ~Before(RegistryPlace, RegistryPlace)
    BY <2>1 DEF Before, RegistryPlace, Stage
  <2> QED BY <2>2, <2>3, <2>4, RegistryNearer
<1> QED
  BY <1>1, <1>2, <1>3, <1>4, <1>5, PersistenceNearer, MemoryNearer, RegistryNearer DEF Nearer

-----------------------------------------------------------------------------
(* The theorems                                                            *)

LEMMA DoneOK ==
  ASSUME IInv
  PROVE  NothingSkipped
<1> USE DEF IInv
<1>1. TypeOK
  BY DEF TypeInv, DbOK, TypeOK
<1>2. registry.at = "done" => RegistryDone
  BY DEF RegistryInv, ValueReached, ValueDone, RegistryDone
<1>3. ASSUME persistence.at = "done", "persistence" \notin cut
      PROVE  TasksDone /\ ServicesDone /\ SubscriptionsDone
  <2>1. TasksDone
    BY <1>3 DEF TasksInv, TaskReached, TaskDone, TasksDone
  <2> DEFINE path(s) == ExtractExecutablePath(Service[s].line)
  <2>2. ASSUME NEW s \in DOMAIN Service, Service[s].win32, ~Refused("services", s),
               EvaluateAutorunEntry(Service[s].line), ~IsTrustedPath(path(s)),
               ~(Service[s].line.quoted = 0 /\ Len(path(s)) > 1)
        PROVE  path(s) \in scanned
    <3>1. path(s) = ServicePath(Service[s].line)
      <4>1. Service[s].line.quoted \in Nat
        <5>1. Service \in Seq(ServiceFacts)
          BY SystemScansAssumption DEF SystemScansAssumption
        <5>2. Service[s] \in ServiceFacts
          BY <5>1
        <5> QED BY <5>2 DEF ServiceFacts, CommandLine
      <4>2. CASE Service[s].line.quoted > 0
        BY <4>2 DEF ExtractExecutablePath, ServicePath
      <4>3. CASE ~(Service[s].line.quoted > 0)
        BY <2>2, <4>1, <4>3, OneWordPath
      <4> QED BY <4>2, <4>3
    <3>2. ServiceDone(s) /\ Exists(path(s))
      BY <1>3, <2>2 DEF ServicesInv, ServiceReached, EvaluateAutorunEntry
    <3> QED BY <2>2, <3>1, <3>2 DEF ServiceDone
  <2>3. ServicesDone
    BY <2>2 DEF ServicesDone
  <2>4. SubscriptionsDone
    BY <1>3 DEF SubscriptionsInv, QueryReached, SubscriptionsDone
  <2> QED BY <2>1, <2>3, <2>4
<1>4. memory.at = "done" /\ "memory" \notin cut => MemoryDone
  BY DEF RegionsInv, RegionReached, RegionDone, MemoryDone
<1> QED BY <1>1, <1>2, <1>3, <1>4 DEF NothingSkipped

(***************************************************************************)
(* A scan of the tasks, services and subscriptions, of the memory or of    *)
(* the registry that ends without a cancellation after its start has left  *)
(* nothing out but what Windows refused it and what the code passes over,  *)
(* whatever the other scans do meanwhile and whichever calls fail          *)
(* (engine.cpp:296, :339, :388, :522 and :909).                            *)
(***************************************************************************)
THEOREM ScansLeaveNothingOut == Spec => []NothingSkipped
BY Invariant, DoneOK, PTL

(***************************************************************************)
(* A scan of the system only ever goes on: no step of it, and none of the  *)
(* user or of another scan, takes it back or leaves it where it is, and    *)
(* the places it can be in lie within its lists, so that it takes finitely *)
(* many steps, regions of size 0 and lists that end early included         *)
(* (engine.cpp:370, :457, :522 and :613; registry_scanner.cpp:47).         *)
(***************************************************************************)
THEOREM ScansGoOn == Spec => []Confined /\ [][Nearer]_vars
<1>1. TypeInv /\ PlacesOK /\ Confined /\ [Next]_vars => Confined'
  BY ConfinedStep
<1>2. TypeInv /\ Confined /\ [Next]_vars => [Nearer]_vars
  BY NearerStep
<1>3. IInv => TypeInv /\ PlacesOK
  BY DEF IInv
<1> QED BY <1>1, <1>2, <1>3, ConfinedFirst, Invariant, PTL DEF Spec

(***************************************************************************)
(* What the AMSI provider detects the driver denies, unless by a rule that *)
(* the engine has not loaded, whatever directory the provider has its      *)
(* rules from, and what the driver denies a scan quarantines, for any      *)
(* files, lists and rules (amsi_provider.cpp:17 and :69, engine.cpp:633    *)
(* and :171).                                                              *)
(***************************************************************************)
THEOREM JudgesOfOneMind == Spec => []VerdictsAgree
<1>1. TypeInv => VerdictsAgree
  <2> SUFFICES ASSUME TypeInv PROVE VerdictsAgree
    OBVIOUS
  <2>1. db.known \in [DOMAIN db.known -> Severity]
    BY SystemScansAssumption DEF TypeInv, DbOK, SystemScansAssumption
  <2> QED BY <2>1, JudgesAgree DEF VerdictsAgree
<1> QED BY <1>1, Invariant, PTL DEF IInv

(***************************************************************************)
(* No program looks better for importing more, but for the two rules about *)
(* few imports (pe_analyzer.cpp:229 and :357), whatever it is built from.  *)
(***************************************************************************)
THEOREM MoreImportsNoExcuse == Spec => AlarmsOnlyGrow
<1> DEFINE Grows(path) ==
      IsAnalyzed(facts[path])
        => Worst(ToDetectionEvents(facts'[path])) >= Worst(LastingSeverities(facts[path]))
<1>1. ASSUME IInv, Next, NEW path \in Program, IsAnalyzed(facts[path]) PROVE Grows(path)
  <2>1. facts \in [Program -> Facts] /\ facts[path] \in FileFacts
        /\ IsFiniteSet(facts[path].imports)
    BY <1>1 DEF IInv, TypeInv, Facts
  <2>2. \E names : /\ IsFiniteSet(names)
                   /\ facts'[path] = [facts[path] EXCEPT !.imports = @ \cup names]
    <3>1. CASE facts' = facts
      <4>1. facts[path] = [facts[path] EXCEPT !.imports = @ \cup {}]
        BY <2>1 DEF FileFacts
      <4> QED BY <3>1, <4>1, FS_EmptySet
    <3>2. ASSUME NEW p \in Built, NEW names \in Library, Link(p, names), p = path
          PROVE  /\ IsFiniteSet(names)
                 /\ facts'[path] = [facts[path] EXCEPT !.imports = @ \cup names]
      BY <2>1, <3>2, SystemScansAssumption DEF Link, SystemScansAssumption
    <3>3. ASSUME NEW p \in Built, NEW names \in Library, Link(p, names), p # path
          PROVE  facts'[path] = facts[path]
      BY <2>1, <3>3 DEF Link
    <3>4. CASE facts'[path] = facts[path]
      <4>1. facts[path] = [facts[path] EXCEPT !.imports = @ \cup {}]
        BY <2>1 DEF FileFacts
      <4> QED BY <3>4, <4>1, FS_EmptySet
    <3>5. facts' = facts \/ \E p \in Built, names \in Library : Link(p, names)
      BY <1>1 DEF Next, User, PersistenceStep, MemoryStep, ScanPersistence, ScanAllProcesses,
         ScanRegistry, CancelScan, ListsEdited, OpensList, OpensTask, HandlesCommand,
         HandlesService, HandlesSubscription, OpensProcess, WalksRegion, EvaluatesEntry, fileVars
    <3> QED BY <3>1, <3>2, <3>3, <3>4, <3>5
  <2>3. PICK names : /\ IsFiniteSet(names)
                     /\ facts'[path] = [facts[path] EXCEPT !.imports = @ \cup names]
    BY <2>2
  <2> QED BY <1>1, <2>1, <2>3, ImportsOnlyAdd
<1>2. IInv /\ [Next]_vars => [\A path \in Program : Grows(path)]_facts
  BY <1>1 DEF vars, fileVars
<1> QED BY <1>2, Invariant, PTL DEF Spec, AlarmsOnlyGrow
=============================================================================
