-------------------------- MODULE QuarantineProofs --------------------------
(***************************************************************************)
(* For any number of threads, paths, contents and rows:                    *)
(*   - TypeOK;                                                             *)
(*   - a row for every quarantined file (RecordedUnlessCut), by way of the *)
(*     inductive RecordedInv;                                              *)
(*   - no restore overwrites a file (RestoreOverwritesOnlyInRace), by way  *)
(*     of PathInv: threads keep to paths of their own;                     *)
(*   - a row's file holds what was moved (ReversibleOneByOne) and scanners *)
(*     destroy nothing (LosesNothingOneByOne), by way of StoreInv: every   *)
(*     content is in one place, on the account of one scanner or one row;  *)
(*   - there the store implements Vault (ImplementsVault), step by step.   *)
(***************************************************************************)
EXTENDS Quarantine, TLAPS

-----------------------------------------------------------------------------
(* What an in-flight operation's fields are                                *)

LEMMA ScanFields ==
  ASSUME TypeOK, NEW s \in Scanner, scan[s].pc # "idle"
  PROVE  /\ scan[s] \in Scanning
         /\ scan[s].path \in Path
         /\ scan[s].name \in Name
         /\ scan[s].took \in Slot
         /\ scan[s].pc \in {"remove", "insert"} => scan[s].took \in Content
  BY DEF TypeOK, Idle, Scanning

LEMMA OpFields ==
  ASSUME TypeOK, NEW o \in Operator, op[o].pc # "idle"
  PROVE  /\ op[o] \in Operating
         /\ op[o].id \in Nat
         /\ op[o].rec \in Row
         /\ op[o].rec.name \in Name
         /\ op[o].rec.orig \in Path
  BY DEF TypeOK, Idle, Operating, Row

LEMMA ScanGoesType ==
  ASSUME TypeOK, NEW s \in Scanner, scan[s].pc # "idle",
         NEW pc \in {"remove", "insert"}, scan[s].took \in Content,
         ScanGoes(s, pc)
  PROVE  /\ scan' \in [Scanner -> Scanning \cup {Idle}]
         /\ \A t \in Scanner : scan'[t].pc \in {"remove", "insert"}
                                 => scan'[t].took \in Content
<1>1. scan[s] \in Scanning
  BY ScanFields
<1>2. [scan[s] EXCEPT !.pc = pc] \in Scanning
  BY <1>1 DEF Scanning
<1> QED
  BY <1>2 DEF TypeOK, ScanGoes

LEMMA ScanTakesType ==
  ASSUME TypeOK, NEW s \in Scanner, scan[s].pc # "idle",
         NEW pc \in {"remove", "insert"}, NEW c \in Content,
         scan' = [scan EXCEPT ![s] = [@ EXCEPT !.pc = pc, !.took = c]]
  PROVE  /\ scan' \in [Scanner -> Scanning \cup {Idle}]
         /\ \A t \in Scanner : scan'[t].pc \in {"remove", "insert"}
                                 => scan'[t].took \in Content
<1>1. scan[s] \in Scanning
  BY ScanFields
<1>2. [scan[s] EXCEPT !.pc = pc, !.took = c] \in Scanning
  BY <1>1 DEF Scanning, Slot
<1>3. [scan[s] EXCEPT !.pc = pc, !.took = c].took = c
  BY <1>1 DEF Scanning
<1> QED
  BY <1>2, <1>3 DEF TypeOK

LEMMA OpGoesType ==
  ASSUME TypeOK, NEW o \in Operator, op[o].pc # "idle",
         NEW pc \in {"r_orig", "r_move", "r_remove", "r_mark", "d_row"},
         OpGoes(o, pc)
  PROVE  op' \in [Operator -> Operating \cup {Idle}]
<1>1. op[o] \in Operating
  BY OpFields
<1>2. [op[o] EXCEPT !.pc = pc] \in Operating
  BY <1>1 DEF Operating
<1> QED
  BY <1>2 DEF TypeOK, OpGoes

LEMMA ScanEndsType ==
  ASSUME TypeOK, NEW s \in Scanner, ScanEnds(s)
  PROVE  /\ scan' \in [Scanner -> Scanning \cup {Idle}]
         /\ \A t \in Scanner : scan'[t].pc \in {"remove", "insert"}
                                 => scan'[t].took \in Content
  BY DEF TypeOK, ScanEnds, Idle

LEMMA OpEndsType ==
  ASSUME TypeOK, NEW o \in Operator, OpEnds(o)
  PROVE  op' \in [Operator -> Operating \cup {Idle}]
  BY DEF TypeOK, OpEnds

-----------------------------------------------------------------------------
(* Type correctness                                                        *)

LEMMA ScannerType ==
  ASSUME TypeOK, NEW s \in Scanner, ScannerStep(s)
  PROVE  TypeOK'
<1> USE QuarantineAssumption
<1>1. ASSUME NEW p \in Path, QuarantineBegin(s, p) PROVE TypeOK'
  <2>1. PICK name \in Name :
          scan' = [scan EXCEPT ![s] = [pc |-> "move", path |-> p,
                                       name |-> name, took |-> NoFile]]
    BY <1>1 DEF QuarantineBegin
  <2>2. [pc |-> "move", path |-> p, name |-> name, took |-> NoFile] \in Scanning
    BY DEF Scanning, Slot
  <2> QED
    BY <1>1, <2>1, <2>2 DEF QuarantineBegin, TypeOK
<1>2. CASE QuarantineRename(s)
  <2> DEFINE c == file[scan[s].path]
  <2>1. scan[s].pc = "move" /\ scan[s].name \in Name /\ scan[s].path \in Path
    BY <1>2, ScanFields DEF QuarantineRename
  <2>2. c \in Content
    BY <1>2, <2>1 DEF QuarantineRename, TypeOK, Slot
  <2>3. scan' = [scan EXCEPT ![s] = [@ EXCEPT !.pc = "insert", !.took = c]]
    BY <1>2 DEF QuarantineRename
  <2> HIDE DEF c
  <2>4. /\ scan' \in [Scanner -> Scanning \cup {Idle}]
        /\ \A t \in Scanner : scan'[t].pc \in {"remove", "insert"}
                                => scan'[t].took \in Content
    BY <2>1, <2>2, <2>3, ScanTakesType
  <2> QED
    BY <1>2, <2>1, <2>2, <2>4 DEF QuarantineRename, TypeOK, Slot, c
<1>3. CASE QuarantineCopy(s)
  <2> DEFINE c == file[scan[s].path]
  <2>1. scan[s].pc = "move" /\ scan[s].name \in Name /\ scan[s].path \in Path
    BY <1>3, ScanFields DEF QuarantineCopy
  <2>2. c \in Content
    BY <1>3, <2>1 DEF QuarantineCopy, TypeOK, Slot
  <2>3. scan' = [scan EXCEPT ![s] = [@ EXCEPT !.pc = "remove", !.took = c]]
    BY <1>3 DEF QuarantineCopy
  <2> HIDE DEF c
  <2>4. /\ scan' \in [Scanner -> Scanning \cup {Idle}]
        /\ \A t \in Scanner : scan'[t].pc \in {"remove", "insert"}
                                => scan'[t].took \in Content
    BY <2>1, <2>2, <2>3, ScanTakesType
  <2> QED
    BY <1>3, <2>1, <2>2, <2>4 DEF QuarantineCopy, TypeOK, Slot, c
<1>4. CASE QuarantineRemove(s)
  BY <1>4, ScanFields, ScanGoesType DEF QuarantineRemove, TypeOK, Slot
<1>5. CASE QuarantineFails(s)
  BY <1>5, ScanEndsType DEF QuarantineFails, TypeOK
<1>6. CASE QuarantineInsert(s)
  <2>1. scan[s].took \in Content /\ scan[s].path \in Path /\ scan[s].name \in Name
    BY <1>6, ScanFields DEF QuarantineInsert
  <2>2. [orig |-> scan[s].path, name |-> scan[s].name,
         restored |-> FALSE, holds |-> scan[s].took] \in Row
    BY <2>1 DEF Row
  <2>3. /\ nextId' \in Nat
        /\ DOMAIN row' \subseteq Nat
        /\ \A id \in DOMAIN row' : row'[id] \in Row /\ id < nextId'
    BY <1>6, <2>2 DEF QuarantineInsert, TypeOK
  <2> QED
    BY <1>6, <2>3, ScanEndsType DEF QuarantineInsert, TypeOK
<1> QED
  BY <1>1, <1>2, <1>3, <1>4, <1>5, <1>6 DEF ScannerStep

LEMMA OperatorType ==
  ASSUME TypeOK, NEW o \in Operator, OperatorStep(o)
  PROVE  TypeOK'
<1> USE QuarantineAssumption
<1>1. ASSUME NEW id \in DOMAIN row, RestoreBegin(o, id) PROVE TypeOK'
  <2>1. [pc |-> "r_store", id |-> id, rec |-> row[id]] \in Operating
    BY DEF Operating, TypeOK
  <2> QED
    BY <1>1, <2>1 DEF RestoreBegin, TypeOK
<1>2. ASSUME NEW id \in DOMAIN row, DeleteBegin(o, id) PROVE TypeOK'
  <2>1. [pc |-> "d_remove", id |-> id, rec |-> row[id]] \in Operating
    BY DEF Operating, TypeOK
  <2> QED
    BY <1>2, <2>1 DEF DeleteBegin, TypeOK
<1>3. CASE RestoreFindsStored(o)
  BY <1>3, OpGoesType, OpEndsType DEF RestoreFindsStored, TypeOK
<1>4. CASE RestoreFindsVacant(o)
  BY <1>4, OpGoesType, OpEndsType DEF RestoreFindsVacant, TypeOK
<1>5. CASE RestoreRename(o)
  BY <1>5, OpFields, OpGoesType DEF RestoreRename, TypeOK, Slot
<1>6. CASE RestoreCopy(o)
  BY <1>6, OpFields, OpGoesType DEF RestoreCopy, TypeOK
<1>7. CASE RestoreRemove(o)
  BY <1>7, OpFields, OpGoesType DEF RestoreRemove, TypeOK, Slot
<1>8. CASE RestoreFails(o)
  BY <1>8, OpEndsType DEF RestoreFails, TypeOK
<1>9. CASE RestoreMark(o)
  <2>1. \A id \in DOMAIN row : [row[id] EXCEPT !.restored = TRUE] \in Row
    BY DEF TypeOK, Row
  <2> QED
    BY <1>9, <2>1, OpEndsType DEF RestoreMark, TypeOK
<1>10. CASE DeleteRemove(o)
  BY <1>10, OpFields, OpGoesType DEF DeleteRemove, TypeOK, Slot
<1>11. CASE DeleteFails(o)
  BY <1>11, OpEndsType DEF DeleteFails, TypeOK
<1>12. CASE DeleteRow(o)
  BY <1>12, OpEndsType DEF DeleteRow, TypeOK
<1> QED
  BY <1>1, <1>2, <1>3, <1>4, <1>5, <1>6, <1>7, <1>8, <1>9, <1>10, <1>11, <1>12
     DEF OperatorStep

\* The fields of the three stores and of every operation in flight keep their
\* types, and no id at or above nextId is in use.
THEOREM TypeCorrect == Spec => []TypeOK
<1>1. Init => TypeOK
  BY QuarantineAssumption DEF Init, TypeOK, Slot, Idle
<1>2. TypeOK /\ [Next]_vars => TypeOK'
  <2> SUFFICES ASSUME TypeOK, [Next]_vars PROVE TypeOK'
    OBVIOUS
  <2>1. ASSUME NEW s \in Scanner, ScannerStep(s) PROVE TypeOK'
    BY <2>1, ScannerType
  <2>2. ASSUME NEW o \in Operator, OperatorStep(o) PROVE TypeOK'
    BY <2>2, OperatorType
  <2>3. ASSUME NEW p \in Path, NEW c \in Slot, Outside(p, c) PROVE TypeOK'
    BY <2>3 DEF Outside, TypeOK
  <2>4. ASSUME NEW S \in SUBSET Scanner, NEW O \in SUBSET Operator,
               StatementThrows(S, O) \/ Crash(S, O)
        PROVE  TypeOK'
    BY <2>4 DEF StatementThrows, Crash, Die, TypeOK, Idle
  <2>5. CASE UNCHANGED vars
    BY <2>5 DEF vars, TypeOK
  <2> QED
    BY <2>1, <2>2, <2>3, <2>4, <2>5 DEF Next
<1> QED
  BY <1>1, <1>2, PTL DEF Spec

-----------------------------------------------------------------------------
(* No file without a row                                                   *)

\* What FilesCovered and CopiesAgree need of a step that leaves rows alone:
\* it starts no closing except of the row whose file it takes away.
LEMMA CoverKept ==
  ASSUME FilesCovered, UNCHANGED row,
         \A n \in Name : store'[n] # NoFile => store[n] # NoFile \/ Recording(n)',
         \A n \in Name : Recording(n) => Recording(n)',
         \A id \in DOMAIN row, n \in Name :
           store'[n] # NoFile /\ row[id].name = n /\ Closing(id)' => Closing(id)
  PROVE  FilesCovered'
<1> SUFFICES ASSUME NEW n \in Name, store'[n] # NoFile
             PROVE  Recording(n)' \/ Listed(n)'
  BY DEF FilesCovered
<1>1. CASE Recording(n)'
  BY <1>1
<1>2. CASE Recording(n)
  BY <1>2
<1>3. CASE Listed(n)
  BY <1>3 DEF Listed, Active
<1> QED
  BY <1>1, <1>2, <1>3 DEF FilesCovered

LEMMA ScannerCover ==
  ASSUME Uninterrupted, TypeOK, Covered, NEW s \in Scanner, ScannerStep(s)
  PROVE  Covered'
<1> USE DEF Covered
<1>1. ASSUME NEW p \in Path, QuarantineBegin(s, p) PROVE Covered'
  <2>1. /\ UNCHANGED <<store, row, nextId, op>>
        /\ \A t \in Scanner : t # s => scan'[t] = scan[t]
        /\ scan[s] = Idle
    BY <1>1 DEF QuarantineBegin, TypeOK
  <2>2. \A n \in Name : Recording(n) => Recording(n)'
    BY <2>1 DEF Recording, Idle
  <2>3. \A id \in DOMAIN row : Closing(id)' <=> Closing(id)
    BY <2>1 DEF Closing
  <2> QED
    BY <2>1, <2>2, <2>3, CoverKept DEF CopiesAgree
<1>2. CASE QuarantineRename(s) \/ QuarantineCopy(s)
  <2>1. /\ UNCHANGED <<row, nextId, op>>
        /\ \A t \in Scanner : t # s => scan'[t] = scan[t]
        /\ scan[s].pc = "move" /\ scan[s] \in Scanning
        /\ scan'[s].pc \in {"remove", "insert"}
        /\ scan'[s].name = scan[s].name
        /\ \A n \in Name : n # scan[s].name => store'[n] = store[n]
    <3>1. scan[s].pc = "move" /\ scan[s] \in Scanning
      BY <1>2, ScanFields DEF QuarantineRename, QuarantineCopy
    <3>2. CASE QuarantineRename(s)
      BY <3>1, <3>2 DEF QuarantineRename, TypeOK, Scanning
    <3>3. CASE QuarantineCopy(s)
      BY <3>1, <3>3 DEF QuarantineCopy, TypeOK, Scanning
    <3> QED
      BY <1>2, <3>2, <3>3
  <2>2. \A n \in Name : Recording(n) => Recording(n)'
    BY <2>1 DEF Recording
  <2>3. Recording(scan[s].name)'
    BY <2>1 DEF Recording
  <2>4. \A n \in Name : store'[n] # NoFile => store[n] # NoFile \/ Recording(n)'
    BY <2>1, <2>3
  <2>5. \A id \in DOMAIN row : Closing(id)' <=> Closing(id)
    BY <2>1 DEF Closing
  <2> QED
    BY <2>1, <2>2, <2>4, <2>5, CoverKept DEF CopiesAgree
<1>3. CASE QuarantineRemove(s)
  <2>1. /\ UNCHANGED <<store, row, nextId, op>>
        /\ \A t \in Scanner : t # s => scan'[t] = scan[t]
        /\ scan[s] \in Scanning
        /\ scan'[s].pc = "insert" /\ scan'[s].name = scan[s].name
    BY <1>3, ScanFields DEF QuarantineRemove, ScanGoes, TypeOK, Scanning
  <2>2. \A n \in Name : Recording(n) => Recording(n)'
    BY <2>1 DEF Recording
  <2>3. \A id \in DOMAIN row : Closing(id)' <=> Closing(id)
    BY <2>1 DEF Closing
  <2> QED
    BY <2>1, <2>2, <2>3, CoverKept DEF CopiesAgree
<1>4. CASE QuarantineFails(s)
  <2>1. /\ UNCHANGED <<store, row, nextId, op>>
        /\ \A t \in Scanner : t # s => scan'[t] = scan[t]
        /\ scan[s].pc = "move"
    BY <1>4 DEF QuarantineFails, ScanEnds, TypeOK, Uninterrupted
  <2>2. \A n \in Name : Recording(n) => Recording(n)'
    BY <2>1 DEF Recording
  <2>3. \A id \in DOMAIN row : Closing(id)' <=> Closing(id)
    BY <2>1 DEF Closing
  <2> QED
    BY <2>1, <2>2, <2>3, CoverKept DEF CopiesAgree
<1>5. CASE QuarantineInsert(s)
  <2>1. /\ UNCHANGED <<store, op>>
        /\ \A t \in Scanner : t # s => scan'[t] = scan[t]
        /\ nextId' = nextId + 1 /\ nextId \in Nat
        /\ DOMAIN row' = DOMAIN row \cup {nextId}
        /\ \A id \in DOMAIN row : row'[id] = row[id] /\ id < nextId
        /\ row'[nextId].name = scan[s].name /\ ~row'[nextId].restored
    BY <1>5 DEF QuarantineInsert, ScanEnds, TypeOK
  <2>2. \A id : Closing(id)' <=> Closing(id)
    BY <2>1 DEF Closing
  <2>3. ~Closing(nextId)
    BY <2>1 DEF Closing, CopiesAgree, Idle
  <2>4. ASSUME NEW n \in Name, store'[n] # NoFile
        PROVE  Recording(n)' \/ Listed(n)'
    <3>1. CASE n = scan[s].name
      BY <2>1, <2>2, <2>3, <3>1 DEF Listed, Active
    <3>2. CASE n # scan[s].name /\ Recording(n)
      BY <2>1, <3>2 DEF Recording
    <3>3. CASE Listed(n)
      BY <2>1, <2>2, <3>3 DEF Listed, Active
    <3> QED
      BY <2>1, <2>4, <3>1, <3>2, <3>3 DEF FilesCovered
  <2>5. CopiesAgree'
    <3> SUFFICES ASSUME NEW o \in Operator, op[o] # Idle
                 PROVE  /\ op[o].id < nextId'
                        /\ op[o].id \in DOMAIN row'
                             => row'[op[o].id].name = op[o].rec.name
      BY <2>1 DEF CopiesAgree
    <3>1. op[o].id \in Nat /\ op[o].id < nextId
      BY DEF CopiesAgree, TypeOK, Operating
    <3> QED
      BY <2>1, <3>1 DEF CopiesAgree
  <2> QED
    BY <2>4, <2>5 DEF FilesCovered
<1> QED
  BY <1>1, <1>2, <1>3, <1>4, <1>5 DEF ScannerStep

LEMMA OperatorCover ==
  ASSUME TypeOK, Covered, NEW o \in Operator, OperatorStep(o)
  PROVE  Covered'
<1> USE DEF Covered
<1>1. ASSUME NEW id \in DOMAIN row, RestoreBegin(o, id) \/ DeleteBegin(o, id)
      PROVE  Covered'
  <2>1. /\ UNCHANGED <<store, row, nextId, scan>>
        /\ \A t \in Operator : t # o => op'[t] = op[t]
        /\ op'[o].pc \in {"r_store", "d_remove"}
        /\ op'[o].id = id /\ op'[o].rec = row[id] /\ id < nextId
    BY <1>1 DEF RestoreBegin, DeleteBegin, TypeOK
  <2>2. \A n \in Name : Recording(n) => Recording(n)'
    BY <2>1 DEF Recording
  <2>3. \A i \in DOMAIN row : Closing(i)' => Closing(i)
    BY <2>1 DEF Closing
  <2>4. FilesCovered'
    BY <2>1, <2>2, <2>3, CoverKept
  <2> QED
    BY <2>1, <2>4 DEF CopiesAgree
<1>2. CASE RestoreFindsStored(o) \/ RestoreFindsVacant(o) \/ RestoreCopy(o)
             \/ RestoreFails(o) \/ DeleteFails(o)
  <2>1. /\ UNCHANGED <<store, row, nextId, scan>>
        /\ \A t \in Operator : t # o => op'[t] = op[t]
        /\ op[o].pc # "idle" /\ op[o] \in Operating
        /\ \/ op'[o] = Idle
           \/ /\ op'[o].pc \in {"r_orig", "r_move", "r_remove"}
              /\ op'[o].id = op[o].id /\ op'[o].rec = op[o].rec
    BY <1>2, OpFields
       DEF RestoreFindsStored, RestoreFindsVacant, RestoreCopy, RestoreFails,
           DeleteFails, OpGoes, OpEnds, TypeOK, Operating
  <2>2. \A n \in Name : Recording(n) => Recording(n)'
    BY <2>1 DEF Recording
  <2>3. \A i \in DOMAIN row : Closing(i)' => Closing(i)
    BY <2>1 DEF Closing, Idle
  <2>4. FilesCovered'
    BY <2>1, <2>2, <2>3, CoverKept
  <2>5. op[o] # Idle
    BY <2>1 DEF Idle
  <2> QED
    BY <2>1, <2>4, <2>5 DEF CopiesAgree
<1>3. CASE RestoreRename(o) \/ RestoreRemove(o) \/ DeleteRemove(o)
  <2>1. /\ UNCHANGED <<row, nextId, scan>>
        /\ \A t \in Operator : t # o => op'[t] = op[t]
        /\ op[o].pc # "idle" /\ op[o] \in Operating
        /\ op'[o].id = op[o].id /\ op'[o].rec = op[o].rec
        /\ store'[op[o].rec.name] = NoFile
        /\ \A n \in Name : n # op[o].rec.name => store'[n] = store[n]
    BY <1>3, OpFields
       DEF RestoreRename, RestoreRemove, DeleteRemove, OpGoes, TypeOK, Operating
  <2>2. \A n \in Name : Recording(n) => Recording(n)'
    BY <2>1 DEF Recording
  <2>3. op[o] # Idle
    BY <2>1 DEF Idle
  <2>4. \A i \in DOMAIN row, n \in Name :
          store'[n] # NoFile /\ row[i].name = n /\ Closing(i)' => Closing(i)
    BY <2>1, <2>3 DEF Closing, CopiesAgree
  <2>5. FilesCovered'
    BY <2>1, <2>2, <2>4, CoverKept
  <2> QED
    BY <2>1, <2>3, <2>5 DEF CopiesAgree
<1>4. CASE RestoreMark(o) \/ DeleteRow(o)
  <2>1. /\ UNCHANGED <<store, nextId, scan>>
        /\ \A t \in Operator : t # o => op'[t] = op[t]
        /\ op'[o] = Idle /\ Closing(op[o].id)
        /\ DOMAIN row' \subseteq DOMAIN row
        /\ \A i \in DOMAIN row' : row'[i].name = row[i].name
        /\ \A i \in DOMAIN row : i # op[o].id
                                   => i \in DOMAIN row' /\ row'[i] = row[i]
    BY <1>4 DEF RestoreMark, DeleteRow, OpEnds, Closing, TypeOK, Row
  <2>2. \A n \in Name : Recording(n) <=> Recording(n)'
    BY <2>1 DEF Recording
  <2>3. \A i : Closing(i)' => Closing(i)
    BY <2>1 DEF Closing, Idle
  <2>4. \A n \in Name : Listed(n) => Listed(n)'
    BY <2>1, <2>3 DEF Listed, Active
  <2> QED
    BY <2>1, <2>2, <2>4 DEF FilesCovered, CopiesAgree
<1> QED
  BY <1>1, <1>2, <1>3, <1>4 DEF OperatorStep

LEMMA NextCover ==
  ASSUME Uninterrupted, TypeOK, Covered, [Next]_vars
  PROVE  Covered'
<1>1. ASSUME NEW s \in Scanner, ScannerStep(s) PROVE Covered'
  BY <1>1, ScannerCover
<1>2. ASSUME NEW o \in Operator, OperatorStep(o) PROVE Covered'
  BY <1>2, OperatorCover
<1>3. ASSUME NEW p \in Path, NEW c \in Slot, Outside(p, c) PROVE Covered'
  BY <1>3 DEF Outside, Covered, FilesCovered, CopiesAgree, Recording, Listed,
              Active, Closing
<1>4. ASSUME NEW S \in SUBSET Scanner, NEW O \in SUBSET Operator,
             StatementThrows(S, O) \/ Crash(S, O)
      PROVE  Covered'
  BY <1>4 DEF StatementThrows, Crash, Uninterrupted
<1>5. CASE UNCHANGED vars
  BY <1>5 DEF vars, Covered, FilesCovered, CopiesAgree, Recording, Listed,
              Active, Closing
<1> QED
  BY <1>1, <1>2, <1>3, <1>4, <1>5 DEF Next

\* Which faults are possible is settled at the start.
LEMMA MayConstant ==
  ASSUME [Next]_vars
  PROVE  may' = may
<1>1. ASSUME NEW s \in Scanner, ScannerStep(s) PROVE may' = may
  BY <1>1 DEF ScannerStep, QuarantineBegin, QuarantineRename, QuarantineCopy,
              QuarantineRemove, QuarantineFails, QuarantineInsert
<1>2. ASSUME NEW o \in Operator, OperatorStep(o) PROVE may' = may
  BY <1>2 DEF OperatorStep, RestoreBegin, RestoreFindsStored,
              RestoreFindsVacant, RestoreRename, RestoreCopy, RestoreRemove,
              RestoreFails, RestoreMark, DeleteBegin, DeleteRemove,
              DeleteFails, DeleteRow
<1> QED
  BY <1>1, <1>2 DEF Next, Outside, StatementThrows, Crash, Die, vars

\* The strengthened invariant is inductive: it holds of every behaviour in which
\* nothing interrupts a quarantine between its move and its row.
THEOREM RecordedInvariant == Spec => []RecordedInv
<1>1. Init => RecordedInv
  BY DEF Init, RecordedInv, Covered, FilesCovered, CopiesAgree
<1>2. TypeOK /\ RecordedInv /\ [Next]_vars => RecordedInv'
  <2> SUFFICES ASSUME TypeOK, RecordedInv, [Next]_vars, Uninterrupted'
               PROVE  Covered'
    BY DEF RecordedInv
  <2>1. Uninterrupted
    BY MayConstant DEF Uninterrupted
  <2> QED
    BY <2>1, NextCover DEF RecordedInv
<1> QED
  BY <1>1, <1>2, TypeCorrect, PTL DEF Spec

\* Types and records together, as the store keeps them: ids are given once, and
\* no file is without a row, whatever scanners and operators do to each other.
THEOREM QuarantineInvariant == Spec => []QuarantineInv
  BY TypeCorrect, RecordedInvariant, PTL DEF QuarantineInv

\* Every file in the quarantine directory is named by an unrestored row or by
\* the row a scanner is about to insert, however Quarantine(), Restore() and
\* Delete() interleave, as long as nothing cuts Quarantine() short.
THEOREM NoFileWithoutRow == Spec => []RecordedUnlessCut
<1>1. RecordedInv => RecordedUnlessCut
  BY DEF RecordedInv, Covered, FilesCovered, RecordedUnlessCut,
         EveryFileRecorded, Listed
<1> QED
  BY <1>1, RecordedInvariant, PTL

-----------------------------------------------------------------------------
(* Nothing is overwritten                                                  *)

OneThreadPerPath ==
  /\ \A s, t \in Scanner :
       s # t /\ scan[s] # Idle /\ scan[t] # Idle => scan[s].path # scan[t].path
  /\ \A o, q \in Operator :
       o # q /\ op[o] # Idle /\ op[q] # Idle => op[o].rec.orig # op[q].rec.orig
  /\ \A s \in Scanner, o \in Operator :
       scan[s] # Idle /\ op[o] # Idle => scan[s].path # op[o].rec.orig

VacantPath == \A o \in Operator : op[o].pc = "r_move" => file[op[o].rec.orig] = NoFile

RaceFree == may \cap {"rewrite", "overlap"} = {}

\* Where nobody else touches a path on which a thread works, what an operator saw of
\* it stays true.
PathInv == RaceFree => OneThreadPerPath /\ VacantPath

\* A scanner changes nothing of other threads, and goes on with its path or begins
\* with a quiet one.
LEMMA ScannerPath ==
  ASSUME TypeOK, NEW s \in Scanner, ScannerStep(s), "overlap" \notin may
  PROVE  /\ UNCHANGED op
         /\ \A t \in Scanner : t # s => scan'[t] = scan[t]
         /\ \/ scan'[s] = Idle
            \/ scan[s] # Idle /\ scan'[s].path = scan[s].path
            \/ scan[s] = Idle /\ Quiet(scan'[s].path)
<1>1. ASSUME NEW p \in Path, QuarantineBegin(s, p)
      PROVE  scan[s] = Idle /\ scan'[s].path = p /\ Quiet(p)
  BY <1>1 DEF QuarantineBegin, TypeOK
<1>2. UNCHANGED op /\ \A t \in Scanner : t # s => scan'[t] = scan[t]
  BY DEF ScannerStep, QuarantineBegin, QuarantineRename, QuarantineCopy, QuarantineRemove,
         QuarantineFails, QuarantineInsert, ScanGoes, ScanEnds, TypeOK
<1>3. CASE QuarantineRename(s) \/ QuarantineCopy(s) \/ QuarantineRemove(s)
  <2>1. scan[s] \in Scanning /\ scan[s] # Idle
    BY <1>3, ScanFields
       DEF QuarantineRename, QuarantineCopy, QuarantineRemove, Idle
  <2>2. scan \in [Scanner -> Scanning \cup {Idle}]
    BY DEF TypeOK
  <2>3. \A pc, c : [scan[s] EXCEPT !.pc = pc, !.took = c].path = scan[s].path
    BY <2>1 DEF Scanning
  <2>4. scan'[s].path = scan[s].path
    <3>1. CASE QuarantineRename(s)
      BY <2>2, <2>3, <3>1 DEF QuarantineRename
    <3>2. CASE QuarantineCopy(s)
      BY <2>2, <2>3, <3>2 DEF QuarantineCopy
    <3>3. CASE QuarantineRemove(s)
      BY <2>1, <2>2, <3>3 DEF QuarantineRemove, ScanGoes, Scanning
    <3> QED
      BY <1>3, <3>1, <3>2, <3>3
  <2> QED
    BY <1>2, <2>1, <2>4
<1>4. CASE QuarantineFails(s) \/ QuarantineInsert(s)
  BY <1>2, <1>4 DEF QuarantineFails, QuarantineInsert, ScanEnds, TypeOK
<1> QED
  BY <1>1, <1>2, <1>3, <1>4 DEF ScannerStep

LEMMA OperatorPath ==
  ASSUME TypeOK, NEW o \in Operator, OperatorStep(o), "overlap" \notin may
  PROVE  /\ UNCHANGED scan
         /\ \A q \in Operator : q # o => op'[q] = op[q]
         /\ \/ op'[o] = Idle
            \/ op[o] # Idle /\ op'[o].rec = op[o].rec /\ op'[o].id = op[o].id
            \/ op[o] = Idle /\ Quiet(op'[o].rec.orig)
<1>1. ASSUME NEW id \in DOMAIN row, RestoreBegin(o, id) \/ DeleteBegin(o, id)
      PROVE  op[o] = Idle /\ op'[o].rec = row[id] /\ Quiet(row[id].orig)
  BY <1>1 DEF RestoreBegin, DeleteBegin, TypeOK
<1>2. UNCHANGED scan /\ \A q \in Operator : q # o => op'[q] = op[q]
  BY DEF OperatorStep, RestoreBegin, DeleteBegin, RestoreFindsStored, RestoreFindsVacant,
         RestoreRename, RestoreCopy, RestoreRemove, RestoreFails, RestoreMark, DeleteRemove,
         DeleteFails, DeleteRow, OpGoes, OpEnds, TypeOK
<1>3. CASE \/ RestoreFindsStored(o) \/ RestoreFindsVacant(o) \/ RestoreRename(o)
           \/ RestoreCopy(o) \/ RestoreRemove(o) \/ DeleteRemove(o)
  <2>1. op[o] \in Operating /\ op[o] # Idle
    BY <1>3, OpFields
       DEF RestoreFindsStored, RestoreFindsVacant, RestoreRename, RestoreCopy, RestoreRemove,
           DeleteRemove, Idle
  <2>2. \/ op'[o] = Idle
        \/ op'[o].rec = op[o].rec /\ op'[o].id = op[o].id
    BY <1>3, <2>1
       DEF RestoreFindsStored, RestoreFindsVacant, RestoreRename, RestoreCopy, RestoreRemove,
           DeleteRemove, OpGoes, OpEnds, TypeOK, Operating
  <2> QED
    BY <1>2, <2>1, <2>2
<1>4. CASE RestoreFails(o) \/ RestoreMark(o) \/ DeleteFails(o) \/ DeleteRow(o)
  BY <1>2, <1>4 DEF RestoreFails, RestoreMark, DeleteFails, DeleteRow, OpEnds, TypeOK
<1> QED
  BY <1>1, <1>2, <1>3, <1>4 DEF OperatorStep

\* How the files change: a scanner takes the one on its path, an operator puts one on its
\* path, and others leave paths alone on which threads work.
LEMMA FilesOfThreads ==
  ASSUME TypeOK, [Next]_vars, RaceFree
  PROVE  /\ \A s \in Scanner : ScannerStep(s) =>
              /\ file' = file \/ (scan[s] # Idle /\ file' = [file EXCEPT ![scan[s].path] = NoFile])
         /\ \A o \in Operator : OperatorStep(o) =>
              \A p \in Path : file'[p] # file[p] => op[o] # Idle /\ p = op[o].rec.orig
         /\ \A p \in Path, c \in Slot : Outside(p, c) =>
              Quiet(p) /\ file' = [file EXCEPT ![p] = c]
<1>1. ASSUME NEW s \in Scanner, ScannerStep(s)
      PROVE  file' = file \/ (scan[s] # Idle /\ file' = [file EXCEPT ![scan[s].path] = NoFile])
  BY <1>1 DEF ScannerStep, QuarantineBegin, QuarantineRename, QuarantineCopy,
              QuarantineRemove, QuarantineFails, QuarantineInsert, Idle
<1>2. ASSUME NEW o \in Operator, OperatorStep(o), NEW p \in Path, file'[p] # file[p]
      PROVE  op[o] # Idle /\ p = op[o].rec.orig
  <2>1. CASE RestoreRename(o) \/ RestoreCopy(o)
    BY <1>2, <2>1, OpFields DEF RestoreRename, RestoreCopy, TypeOK, Idle
  <2> QED
    BY <1>2, <2>1 DEF OperatorStep, RestoreBegin, DeleteBegin, RestoreFindsStored,
           RestoreFindsVacant, RestoreRemove, RestoreFails, RestoreMark, DeleteRemove,
           DeleteFails, DeleteRow
<1>3. ASSUME NEW p \in Path, NEW c \in Slot, Outside(p, c)
      PROVE  Quiet(p) /\ file' = [file EXCEPT ![p] = c]
  BY <1>3 DEF Outside, RaceFree
<1> QED
  BY <1>1, <1>2, <1>3

\* A thread that ends leaves fewer threads on paths.
LEMMA DeathKeepsPaths ==
  ASSUME TypeOK, OneThreadPerPath, NEW S \in SUBSET Scanner, NEW O \in SUBSET Operator,
         Die(S, O)
  PROVE  OneThreadPerPath'
<1>1. /\ \A s \in Scanner : scan'[s] # Idle => scan'[s] = scan[s]
      /\ \A o \in Operator : op'[o] # Idle => op'[o] = op[o]
  BY DEF Die
<1> QED
  BY <1>1 DEF OneThreadPerPath

LEMMA PathsKept ==
  ASSUME TypeOK, RaceFree, OneThreadPerPath, [Next]_vars
  PROVE  OneThreadPerPath'
<1>1. ASSUME NEW s \in Scanner, ScannerStep(s) PROVE OneThreadPerPath'
  BY <1>1, ScannerPath DEF OneThreadPerPath, Quiet, ScannedBy, RestoredBy, RaceFree
<1>2. ASSUME NEW o \in Operator, OperatorStep(o) PROVE OneThreadPerPath'
  BY <1>2, OperatorPath DEF OneThreadPerPath, Quiet, ScannedBy, RestoredBy, RaceFree
<1>3. ASSUME NEW p \in Path, NEW c \in Slot, Outside(p, c) PROVE OneThreadPerPath'
  BY <1>3 DEF Outside, OneThreadPerPath
<1>4. ASSUME NEW S \in SUBSET Scanner, NEW O \in SUBSET Operator,
             StatementThrows(S, O) \/ Crash(S, O)
      PROVE  OneThreadPerPath'
  BY <1>4, DeathKeepsPaths DEF StatementThrows, Crash
<1>5. CASE UNCHANGED vars
  BY <1>5 DEF vars, OneThreadPerPath
<1> QED
  BY <1>1, <1>2, <1>3, <1>4, <1>5 DEF Next

LEMMA VacancyKept ==
  ASSUME TypeOK, RaceFree, OneThreadPerPath, VacantPath, [Next]_vars
  PROVE  VacantPath'
<1> SUFFICES ASSUME NEW q \in Operator, op'[q].pc = "r_move"
             PROVE  file'[op'[q].rec.orig] = NoFile
  BY DEF VacantPath
<1>0. op[q] = op'[q] => op[q] # Idle /\ file[op[q].rec.orig] = NoFile /\ op[q].rec.orig \in Path
  BY OpFields DEF VacantPath, Idle
<1>1. ASSUME NEW s \in Scanner, ScannerStep(s) PROVE file'[op'[q].rec.orig] = NoFile
  <2>1. op' = op
    BY <1>1, ScannerPath DEF RaceFree
  <2> QED
    BY <1>0, <1>1, <2>1, FilesOfThreads DEF TypeOK
<1>2. ASSUME NEW o \in Operator, OperatorStep(o) PROVE file'[op'[q].rec.orig] = NoFile
  <2>1. CASE q # o
    <3>1. op'[q] = op[q]
      BY <1>2, <2>1, OperatorPath DEF RaceFree
    <3>2. file'[op[q].rec.orig] = file[op[q].rec.orig]
      BY <1>0, <1>2, <2>1, <3>1, FilesOfThreads DEF OneThreadPerPath
    <3> QED
      BY <1>0, <3>1, <3>2
  <2>2. CASE q = o
    <3>1. RestoreFindsVacant(o)
      <4>1. ASSUME NEW id \in DOMAIN row, RestoreBegin(o, id) \/ DeleteBegin(o, id) PROVE FALSE
        BY <2>2, <4>1 DEF RestoreBegin, DeleteBegin, TypeOK
      <4>2. CASE \/ RestoreFindsStored(o) \/ RestoreRename(o) \/ RestoreCopy(o)
                 \/ RestoreRemove(o) \/ DeleteRemove(o)
        <5>1. op[o] \in Operating
          BY <4>2, OpFields DEF RestoreFindsStored, RestoreRename, RestoreCopy, RestoreRemove,
                               DeleteRemove
        <5> QED
          BY <2>2, <4>2, <5>1 DEF RestoreFindsStored, RestoreRename, RestoreCopy,
                 RestoreRemove, DeleteRemove, OpGoes, OpEnds, TypeOK, Idle, Operating
      <4>3. CASE RestoreFails(o) \/ RestoreMark(o) \/ DeleteFails(o) \/ DeleteRow(o)
        BY <2>2, <4>3 DEF RestoreFails, RestoreMark, DeleteFails, DeleteRow, OpEnds, TypeOK, Idle
      <4> QED
        BY <1>2, <4>1, <4>2, <4>3 DEF OperatorStep
    <3>2. op[o] \in Operating
      BY <3>1, OpFields DEF RestoreFindsVacant
    <3> QED
      BY <2>2, <3>1, <3>2 DEF RestoreFindsVacant, OpGoes, OpEnds, TypeOK, Idle, Operating
  <2> QED
    BY <2>1, <2>2
<1>3. ASSUME NEW p \in Path, NEW c \in Slot, Outside(p, c)
      PROVE  file'[op'[q].rec.orig] = NoFile
  <2>1. op' = op /\ Quiet(p) /\ file' = [file EXCEPT ![p] = c]
    BY <1>3, FilesOfThreads DEF Outside
  <2> QED
    BY <1>0, <2>1 DEF Quiet, RestoredBy, TypeOK
<1>4. ASSUME NEW S \in SUBSET Scanner, NEW O \in SUBSET Operator,
             StatementThrows(S, O) \/ Crash(S, O)
      PROVE  file'[op'[q].rec.orig] = NoFile
  BY <1>0, <1>4 DEF StatementThrows, Crash, Die, Idle
<1>5. CASE UNCHANGED vars
  BY <1>0, <1>5 DEF vars
<1> QED
  BY <1>1, <1>2, <1>3, <1>4, <1>5 DEF Next

LEMMA PathInvariant == Spec => []PathInv
<1>1. Init => PathInv
  BY DEF Init, PathInv, OneThreadPerPath, VacantPath, Idle
<1>2. TypeOK /\ PathInv /\ [Next]_vars => PathInv'
  <2> SUFFICES ASSUME TypeOK, PathInv, [Next]_vars, RaceFree'
               PROVE  OneThreadPerPath' /\ VacantPath'
    BY DEF PathInv
  <2>1. RaceFree
    BY MayConstant DEF RaceFree
  <2> QED
    BY <2>1, PathsKept, VacancyKept DEF PathInv
<1> QED
  BY <1>1, <1>2, TypeCorrect, PTL DEF Spec

\* A restore never overwrites a file: what RestoreFindsVacant saw still holds when the file
\* is moved back, unless somebody else touches the path in between.
THEOREM NothingOverwritten == Spec => RestoreOverwritesOnlyInRace
<1>1. PathInv => [RaceFree => \A o \in Operator : VacantWhenMoved(o)]_vars
  BY DEF PathInv, VacantPath, VacantWhenMoved
<1> QED
  BY <1>1, PathInvariant, PTL DEF RestoreOverwritesOnlyInRace, RaceFree

-----------------------------------------------------------------------------
(* Quarantine is reversible where nothing disturbs the store               *)

\* The scanner, and the row, on whose account a file is in the store.
Holds(s) == scan[s].pc \in {"remove", "insert"}
HeldBy(id) == Active(id) /\ ~Closing(id)

NamedByHash ==
  /\ \A n \in Name : store[n] # NoFile => n = HashName[store[n]]
  /\ \A id \in DOMAIN row : row[id].name = HashName[row[id].holds]
  /\ \A s \in Scanner : Holds(s) => scan[s].name = HashName[scan[s].took]

InPlace ==
  /\ \A s \in Scanner :
       /\ scan[s].pc = "move" => /\ file[scan[s].path] # NoFile
                                 /\ scan[s].name = HashName[file[scan[s].path]]
       /\ scan[s].pc = "remove" => file[scan[s].path] = scan[s].took
       /\ Holds(s) => store[scan[s].name] = scan[s].took
  /\ \A id \in DOMAIN row : HeldBy(id) => store[row[id].name] = row[id].holds

OneHolder ==
  /\ \A s, t \in Scanner : s # t /\ Holds(s) /\ Holds(t) => scan[s].name # scan[t].name
  /\ \A i, j \in DOMAIN row : i # j /\ HeldBy(i) /\ HeldBy(j) => row[i].name # row[j].name
  /\ \A s \in Scanner, i \in DOMAIN row : Holds(s) /\ HeldBy(i) => scan[s].name # row[i].name

OwnRows ==
  \A o \in Operator :
    /\ op[o] # Idle => Active(op[o].id) /\ row[op[o].id] = op[o].rec
    /\ op[o].pc = "r_remove" => file[op[o].rec.orig] = op[o].rec.holds

\* The file at p has been copied, and its removal is to come; or it is itself the copy.
Copied(p) ==
  \/ \E s \in Scanner : scan[s].pc = "remove" /\ scan[s].path = p
  \/ \E o \in Operator : op[o].pc = "r_remove" /\ op[o].rec.orig = p

\* A content is in one place, but while it is being copied.
OnePlace ==
  /\ \A p, q \in Path : p # q /\ file[p] # NoFile => file[p] # file[q]
  /\ \A p \in Path, n \in Name : file[p] # NoFile /\ store[n] = file[p] => Copied(p)

Accounts == NamedByHash /\ InPlace /\ OneHolder /\ OwnRows /\ OnePlace

StoreInv == OneByOne => Accounts

\* What holds at each step of such a behaviour.
Undisturbed == OneByOne /\ TypeOK /\ OneThreadPerPath /\ VacantPath /\ Accounts

LEMMA UndisturbedWhere ==
  TypeOK /\ PathInv /\ StoreInv /\ OneByOne => Undisturbed
BY DEF Undisturbed, PathInv, StoreInv, OneByOne, RaceFree

LEMMA HashDecides ==
  ASSUME NEW c \in Content, NEW d \in Content, HashName[c] = HashName[d]
  PROVE  c = d
  BY HashesDiffer

\* No two operators are on one row.
LEMMA OneOperatorPerRow ==
  ASSUME Undisturbed, NEW o \in Operator, NEW q \in Operator, op[o] # Idle, op[q] # Idle,
         op[o].id = op[q].id
  PROVE  o = q
  BY DEF Undisturbed, Accounts, OwnRows, OneThreadPerPath

\* As long as an operator has not taken the file away, its row holds it.
LEMMA OperatorHolds ==
  ASSUME Undisturbed, NEW o \in Operator, op[o].pc \notin {"idle", "r_mark", "d_row"}
  PROVE  /\ op[o].id \in DOMAIN row /\ HeldBy(op[o].id)
         /\ row[op[o].id] = op[o].rec /\ op[o].rec \in Row
         /\ store[op[o].rec.name] = op[o].rec.holds
         /\ op[o].rec.name = HashName[op[o].rec.holds]
<1>1. op[o] # Idle /\ op[o].rec \in Row
  BY OpFields DEF Idle, Undisturbed
<1>2. Active(op[o].id) /\ row[op[o].id] = op[o].rec
  BY <1>1 DEF Undisturbed, Accounts, OwnRows
<1>3. ~Closing(op[o].id)
  <2> SUFFICES ASSUME NEW q \in Operator, op[q].pc \in {"r_mark", "d_row"}, op[q].id = op[o].id
               PROVE  FALSE
    BY DEF Closing
  <2>1. op[q] # Idle
    BY DEF Idle
  <2> QED
    BY <1>1, <2>1, OneOperatorPerRow
<1> QED
  BY <1>1, <1>2, <1>3 DEF HeldBy, Active, Undisturbed, Accounts, InPlace, NamedByHash

\* The place to which a scanner is about to move its file is free: nobody else has that
\* content.
LEMMA PlaceIsFree ==
  ASSUME Undisturbed, NEW s \in Scanner, scan[s].pc = "move"
  PROVE  /\ file[scan[s].path] \in Content
         /\ scan[s].name = HashName[file[scan[s].path]]
         /\ ~Copied(scan[s].path)
         /\ store[scan[s].name] = NoFile
         /\ \A t \in Scanner : Holds(t) => scan[t].name # scan[s].name
         /\ \A id \in DOMAIN row : HeldBy(id) => row[id].name # scan[s].name
<1> DEFINE p == scan[s].path  n == scan[s].name  c == file[p]
<1>1. p \in Path /\ n \in Name /\ scan[s] # Idle
  BY ScanFields DEF Undisturbed, Idle
<1>2. c \in Content /\ n = HashName[c]
  BY <1>1 DEF Undisturbed, Accounts, InPlace, TypeOK, Slot
<1>3. ~Copied(p)
  BY <1>1 DEF Copied, Undisturbed, OneThreadPerPath, Idle
<1>4. store[n] # c
  BY <1>1, <1>2, <1>3, QuarantineAssumption DEF Undisturbed, Accounts, OnePlace
<1>5. store[n] = NoFile
  <2> SUFFICES ASSUME store[n] # NoFile PROVE FALSE
    OBVIOUS
  <2>1. store[n] \in Content /\ n = HashName[store[n]]
    BY <1>1 DEF Undisturbed, TypeOK, Slot, Accounts, NamedByHash
  <2> QED
    BY <1>2, <1>4, <2>1, HashDecides
<1>6. ASSUME NEW t \in Scanner, Holds(t) PROVE scan[t].name # n
  <2>1. scan[t].took \in Content /\ store[scan[t].name] = scan[t].took
    BY <1>6 DEF Undisturbed, TypeOK, Holds, Accounts, InPlace
  <2> QED
    BY <1>5, <2>1, QuarantineAssumption
<1>7. ASSUME NEW id \in DOMAIN row, HeldBy(id) PROVE row[id].name # n
  <2>1. row[id].holds \in Content /\ store[row[id].name] = row[id].holds
    BY <1>7 DEF Undisturbed, TypeOK, Row, Accounts, InPlace
  <2> QED
    BY <1>5, <2>1, QuarantineAssumption
<1> QED
  BY <1>2, <1>3, <1>5, <1>6, <1>7

\* What an operator is about to bring back is nowhere else.
LEMMA OnlyInStore ==
  ASSUME Undisturbed, NEW o \in Operator, op[o].pc = "r_move", NEW q \in Path
  PROVE  file[q] # op[o].rec.holds
<1> DEFINE n == op[o].rec.name  c == op[o].rec.holds
<1>1. /\ op[o].id \in DOMAIN row /\ HeldBy(op[o].id)
      /\ row[op[o].id] = op[o].rec /\ op[o].rec \in Row
      /\ store[n] = c /\ n = HashName[c]
  BY OperatorHolds
<1>2. n \in Name /\ c \in Content
  BY <1>1 DEF Row
<1> SUFFICES ASSUME file[q] = c PROVE FALSE
  OBVIOUS
<1>3. Copied(q)
  BY <1>1, <1>2, QuarantineAssumption DEF Undisturbed, Accounts, OnePlace
<1>4. ASSUME NEW s \in Scanner, scan[s].pc = "remove", scan[s].path = q PROVE FALSE
  <2>1. Holds(s) /\ scan[s].took = c
    BY <1>4 DEF Holds, Undisturbed, Accounts, InPlace
  <2>2. scan[s].name = n
    BY <1>1, <2>1 DEF Undisturbed, Accounts, NamedByHash
  <2> QED
    BY <1>1, <2>1, <2>2 DEF Undisturbed, Accounts, OneHolder
<1>5. ASSUME NEW r \in Operator, op[r].pc = "r_remove", op[r].rec.orig = q PROVE FALSE
  <2>1. /\ op[r].id \in DOMAIN row /\ HeldBy(op[r].id)
        /\ row[op[r].id] = op[r].rec /\ op[r].rec.name = HashName[op[r].rec.holds]
    BY <1>5, OperatorHolds
  <2>2. op[r].rec.holds = c
    BY <1>5 DEF Undisturbed, Accounts, OwnRows
  <2>3. op[r].id = op[o].id
    BY <1>1, <2>1, <2>2 DEF Undisturbed, Accounts, OneHolder
  <2>4. op[r] # Idle /\ op[o] # Idle
    BY <1>5 DEF Idle
  <2>5. r = o
    BY <2>3, <2>4, OneOperatorPerRow
  <2> QED
    BY <1>5, <2>5
<1> QED
  BY <1>3, <1>4, <1>5 DEF Copied

-----------------------------------------------------------------------------
(* Every step keeps the accounts                                           *)

LEMMA Busy ==
  ASSUME TypeOK
  PROVE  /\ \A s \in Scanner : scan[s] # Idle => scan[s].pc # "idle" /\ scan[s].path \in Path
         /\ \A o \in Operator : op[o] # Idle => op[o].pc # "idle" /\ op[o].rec.orig \in Path
  BY DEF TypeOK, Scanning, Operating, Row, Idle

\* An operator's path is its own; names are names.
LEMMA FieldsOfOthers ==
  ASSUME TypeOK, OneThreadPerPath, NEW o \in Operator, op[o] # Idle
  PROVE  /\ \A t \in Scanner : scan[t] # Idle =>
              scan[t].path # op[o].rec.orig /\ scan[t].path \in Path
         /\ \A t \in Scanner : Holds(t) => scan[t].name \in Name
         /\ \A q \in Operator : op[q] # Idle /\ q # o =>
              op[q].rec.orig # op[o].rec.orig /\ op[q].rec.orig \in Path
         /\ \A i \in DOMAIN row : row[i].name \in Name
<1>1. \A i \in DOMAIN row : row[i].name \in Name
  BY DEF TypeOK, Row
<1>2. \A t \in Scanner : Holds(t) => scan[t].name \in Name
  BY ScanFields DEF Holds
<1> QED
  BY <1>1, <1>2, Busy DEF OneThreadPerPath

\* A scanner's step leaves rows on other accounts, when it changes no row.
LEMMA RowsHeld ==
  ASSUME UNCHANGED <<row, op>>
  PROVE  /\ \A id : HeldBy(id)' <=> HeldBy(id)
         /\ \A id : Active(id)' <=> Active(id)
  BY DEF HeldBy, Active, Closing

LEMMA BeginAccounts ==
  ASSUME Undisturbed, NEW s \in Scanner, NEW p \in Path, QuarantineBegin(s, p)
  PROVE  Accounts'
<1>1. /\ scan[s] = Idle /\ file[p] # NoFile /\ UNCHANGED <<file, store, row, op>>
      /\ scan'[s].pc = "move" /\ scan'[s].path = p /\ scan'[s].name = HashName[file[p]]
      /\ \A t \in Scanner : t # s => scan'[t] = scan[t]
  BY DEF QuarantineBegin, Undisturbed, OneByOne, TypeOK
<1>2. /\ \A t \in Scanner : Holds(t)' => Holds(t) /\ scan'[t] = scan[t]
      /\ \A q : Copied(q)' <=> Copied(q)
  BY <1>1 DEF Holds, Copied, Idle
<1>3. NamedByHash' /\ OneHolder' /\ OnePlace'
  BY <1>1, <1>2, RowsHeld DEF Undisturbed, Accounts, NamedByHash, OneHolder, OnePlace
<1>4. InPlace'
  BY <1>1, <1>2, RowsHeld DEF Undisturbed, Accounts, InPlace
<1>5. OwnRows'
  BY <1>1, RowsHeld DEF Undisturbed, Accounts, OwnRows
<1> QED
  BY <1>3, <1>4, <1>5 DEF Accounts

\* A scanner that fails has moved nothing: remove does not fail here.
LEMMA FailsAccounts ==
  ASSUME Undisturbed, NEW s \in Scanner, QuarantineFails(s)
  PROVE  Accounts'
<1>1. /\ scan[s].pc = "move" /\ UNCHANGED <<file, store, row, op>> /\ scan'[s].pc = "idle"
      /\ \A t \in Scanner : t # s => scan'[t] = scan[t]
  BY DEF QuarantineFails, ScanEnds, Undisturbed, OneByOne, TypeOK, Idle
<1>2. /\ \A t \in Scanner : Holds(t)' => Holds(t) /\ scan'[t] = scan[t]
      /\ \A q : Copied(q)' <=> Copied(q)
  BY <1>1 DEF Holds, Copied
<1>3. NamedByHash' /\ OneHolder' /\ OnePlace'
  BY <1>1, <1>2, RowsHeld DEF Undisturbed, Accounts, NamedByHash, OneHolder, OnePlace
<1>4. InPlace'
  BY <1>1, <1>2, RowsHeld DEF Undisturbed, Accounts, InPlace
<1>5. OwnRows'
  BY <1>1, RowsHeld DEF Undisturbed, Accounts, OwnRows
<1> QED
  BY <1>3, <1>4, <1>5 DEF Accounts

\* What renaming ("insert" is next) and copying ("remove" is next) have in common.
TakenBy(s, pc) ==
  /\ scan[s].pc = "move"
  /\ scan' = [scan EXCEPT ![s] = [@ EXCEPT !.pc = pc, !.took = file[scan[s].path]]]
  /\ store' = [store EXCEPT ![scan[s].name] = file[scan[s].path]]
  /\ file' = IF pc = "remove" THEN file ELSE [file EXCEPT ![scan[s].path] = NoFile]
  /\ UNCHANGED <<row, op>>

\* A file that is moved or copied into the store comes to a free place.
LEMMA TakenAccounts ==
  ASSUME Undisturbed, NEW s \in Scanner, NEW pc \in {"remove", "insert"}, TakenBy(s, pc)
  PROVE  Accounts'
<1> USE DEF TakenBy
<1> DEFINE p == scan[s].path  n == scan[s].name  c == file[p]
<1>1. /\ p \in Path /\ n \in Name /\ c \in Content /\ n = HashName[c] /\ scan[s] \in Scanning
      /\ ~Copied(p) /\ store[n] = NoFile
      /\ \A t \in Scanner : Holds(t) => scan[t].name # n
      /\ \A id \in DOMAIN row : HeldBy(id) => row[id].name # n
  BY ScanFields, PlaceIsFree DEF Undisturbed
<1>2. /\ scan'[s].pc = pc /\ scan'[s].path = p /\ scan'[s].name = n /\ scan'[s].took = c
      /\ \A t \in Scanner : t # s => scan'[t] = scan[t]
  BY <1>1 DEF Scanning, Undisturbed, TypeOK
<1>3. /\ \A m \in Name : store'[m] = IF m = n THEN c ELSE store[m]
      /\ \A q \in Path : file'[q] = IF q = p /\ pc = "insert" THEN NoFile ELSE file[q]
  BY <1>1 DEF Undisturbed, TypeOK
<1>4. /\ Holds(s)' /\ \A t \in Scanner : t # s => (Holds(t)' <=> Holds(t))
      /\ \A q : Copied(q)' <=> (Copied(q) \/ (q = p /\ pc = "remove"))
  BY <1>2 DEF Holds, Copied
<1>5. /\ \A t \in Scanner : t # s /\ scan[t] # Idle => scan[t].path # p /\ scan[t].path \in Path
      /\ \A t \in Scanner : Holds(t) => scan[t].name \in Name
      /\ \A o \in Operator : op[o] # Idle => op[o].rec.orig # p /\ op[o].rec.orig \in Path
      /\ \A id \in DOMAIN row : row[id].name \in Name
  <2>1. scan[s] # Idle /\ TypeOK /\ OneThreadPerPath
    BY DEF Idle, Undisturbed
  <2>2. \A id \in DOMAIN row : row[id].name \in Name
    BY <2>1 DEF TypeOK, Row
  <2>3. \A t \in Scanner : Holds(t) => scan[t].name \in Name
    BY <2>1, ScanFields DEF Holds
  <2> QED
    BY <2>1, <2>2, <2>3, Busy DEF OneThreadPerPath
<1>6. NamedByHash'
  <2>1. NamedByHash
    BY DEF Undisturbed, Accounts
  <2>2. \A m \in Name : store'[m] # NoFile => m = HashName[store'[m]]
    BY <1>1, <1>3, <2>1 DEF NamedByHash
  <2>3. \A id \in DOMAIN row' : row'[id].name = HashName[row'[id].holds]
    BY <2>1 DEF NamedByHash
  <2>4. \A t \in Scanner : Holds(t)' => scan'[t].name = HashName[scan'[t].took]
    BY <1>1, <1>2, <1>4, <2>1 DEF NamedByHash
  <2> QED
    BY <2>2, <2>3, <2>4 DEF NamedByHash
<1>7. InPlace'
  <2>1. ASSUME NEW t \in Scanner, t # s
        PROVE  /\ scan'[t].pc = "move" => /\ file'[scan'[t].path] # NoFile
                                          /\ scan'[t].name = HashName[file'[scan'[t].path]]
               /\ scan'[t].pc = "remove" => file'[scan'[t].path] = scan'[t].took
               /\ Holds(t)' => store'[scan'[t].name] = scan'[t].took
    BY <1>1, <1>2, <1>3, <1>4, <1>5, <2>1 DEF Undisturbed, Accounts, InPlace, Idle
  <2>2. \A id \in DOMAIN row' : HeldBy(id)' => store'[row'[id].name] = row'[id].holds
    BY <1>1, <1>3, <1>5, RowsHeld DEF Undisturbed, Accounts, InPlace
  <2>3. /\ scan'[s].pc = "move" => /\ file'[scan'[s].path] # NoFile
                                   /\ scan'[s].name = HashName[file'[scan'[s].path]]
        /\ scan'[s].pc = "remove" => file'[scan'[s].path] = scan'[s].took
        /\ Holds(s)' => store'[scan'[s].name] = scan'[s].took
    BY <1>1, <1>2, <1>3
  <2>4. \A t \in Scanner :
          /\ scan'[t].pc = "move" => /\ file'[scan'[t].path] # NoFile
                                     /\ scan'[t].name = HashName[file'[scan'[t].path]]
          /\ scan'[t].pc = "remove" => file'[scan'[t].path] = scan'[t].took
          /\ Holds(t)' => store'[scan'[t].name] = scan'[t].took
    BY <2>1, <2>3 DEF Holds
  <2> QED
    BY <2>2, <2>4 DEF InPlace, Holds, HeldBy, Active, Closing
<1>8. OneHolder'
  BY <1>1, <1>2, <1>4, RowsHeld DEF Undisturbed, Accounts, OneHolder
<1>9. OwnRows'
  BY <1>3, <1>5, RowsHeld DEF Undisturbed, Accounts, OwnRows, Idle
<1>10. OnePlace'
  <2>1. \A q, r \in Path : q # r /\ file'[q] # NoFile => file'[q] # file'[r]
    BY <1>3 DEF Undisturbed, Accounts, OnePlace
  <2>2. ASSUME NEW q \in Path, NEW m \in Name, file'[q] # NoFile, store'[m] = file'[q]
        PROVE  Copied(q)'
    BY <1>1, <1>3, <1>4, <2>2 DEF Undisturbed, Accounts, OnePlace
  <2> QED
    BY <2>1, <2>2 DEF OnePlace
<1> QED
  BY <1>6, <1>7, <1>8, <1>9, <1>10 DEF Accounts

\* The original goes, its copy stays.
LEMMA RemoveAccounts ==
  ASSUME Undisturbed, NEW s \in Scanner, QuarantineRemove(s)
  PROVE  Accounts'
<1> DEFINE p == scan[s].path
<1>1. /\ scan[s].pc = "remove" /\ UNCHANGED <<store, row, op>> /\ Holds(s)
      /\ scan[s] \in Scanning /\ p \in Path /\ file[p] = scan[s].took /\ scan[s].took \in Content
  BY ScanFields DEF QuarantineRemove, Holds, Undisturbed, Accounts, InPlace
<1>2. /\ scan'[s].pc = "insert" /\ scan'[s].name = scan[s].name /\ scan'[s].took = scan[s].took
      /\ \A t \in Scanner : t # s => scan'[t] = scan[t]
      /\ \A q \in Path : file'[q] = IF q = p THEN NoFile ELSE file[q]
  BY <1>1 DEF QuarantineRemove, ScanGoes, Scanning, Undisturbed, TypeOK
<1>3. /\ \A t \in Scanner : Holds(t)' <=> Holds(t)
      /\ \A q \in Path : q # p => (Copied(q) => Copied(q)')
  BY <1>1, <1>2 DEF Holds, Copied
<1>4. /\ \A t \in Scanner : t # s /\ scan[t] # Idle => scan[t].path # p /\ scan[t].path \in Path
      /\ \A o \in Operator : op[o] # Idle => op[o].rec.orig # p /\ op[o].rec.orig \in Path
  BY <1>1, Busy DEF Undisturbed, OneThreadPerPath, Idle
<1>5. NamedByHash'
  BY <1>1, <1>2, <1>3, RowsHeld DEF Undisturbed, Accounts, NamedByHash
<1>6. InPlace'
  BY <1>1, <1>2, <1>3, <1>4, RowsHeld DEF Undisturbed, Accounts, InPlace, Idle
<1>7. OneHolder'
  BY <1>1, <1>2, <1>3, RowsHeld DEF Undisturbed, Accounts, OneHolder
<1>8. OwnRows'
  BY <1>1, <1>2, <1>4, RowsHeld DEF Undisturbed, Accounts, OwnRows, Idle
<1>9. OnePlace'
  BY <1>1, <1>2, <1>3 DEF Undisturbed, Accounts, OnePlace
<1> QED
  BY <1>5, <1>6, <1>7, <1>8, <1>9 DEF Accounts

\* The new row takes over what its scanner held.
LEMMA InsertAccounts ==
  ASSUME Undisturbed, NEW s \in Scanner, QuarantineInsert(s)
  PROVE  Accounts'
<1> DEFINE new == nextId
<1>1. /\ scan[s].pc = "insert" /\ UNCHANGED <<file, store, op>> /\ Holds(s)
      /\ scan'[s].pc = "idle" /\ \A t \in Scanner : t # s => scan'[t] = scan[t]
      /\ DOMAIN row' = DOMAIN row \cup {new} /\ new \notin DOMAIN row
      /\ row'[new] = [orig |-> scan[s].path, name |-> scan[s].name, restored |-> FALSE,
                      holds |-> scan[s].took]
      /\ \A id \in DOMAIN row : row'[id] = row[id]
  BY DEF QuarantineInsert, ScanEnds, Holds, Undisturbed, TypeOK, Idle
<1>2. /\ \A t \in Scanner : Holds(t)' => Holds(t) /\ t # s
      /\ \A q : Copied(q)' <=> Copied(q)
  BY <1>1 DEF Holds, Copied
<1>3. \A id \in DOMAIN row : HeldBy(id)' <=> HeldBy(id)
  BY <1>1 DEF HeldBy, Active, Closing
<1>4. NamedByHash'
  BY <1>1, <1>2 DEF Undisturbed, Accounts, NamedByHash
<1>5. InPlace'
  BY <1>1, <1>2, <1>3 DEF Undisturbed, Accounts, InPlace
<1>6. OneHolder'
  BY <1>1, <1>2, <1>3 DEF Undisturbed, Accounts, OneHolder
<1>7. OwnRows'
  BY <1>1 DEF Undisturbed, Accounts, OwnRows, Active
<1>8. OnePlace'
  BY <1>1, <1>2 DEF Undisturbed, Accounts, OnePlace
<1> QED
  BY <1>4, <1>5, <1>6, <1>7, <1>8 DEF Accounts

LEMMA ScannerAccounts ==
  ASSUME Undisturbed, NEW s \in Scanner, ScannerStep(s)
  PROVE  Accounts'
<1>1. CASE QuarantineRename(s)
  <2>1. TakenBy(s, "insert")
    BY <1>1 DEF QuarantineRename, TakenBy
  <2> QED
    BY <2>1, TakenAccounts
<1>2. CASE QuarantineCopy(s)
  <2>1. TakenBy(s, "remove")
    BY <1>2 DEF QuarantineCopy, TakenBy
  <2> QED
    BY <2>1, TakenAccounts
<1> QED
  BY <1>1, <1>2, BeginAccounts, FailsAccounts, RemoveAccounts, InsertAccounts DEF ScannerStep

\* What an operator's other steps have in common: it begins, looks, or gives up before
\* anything was moved.
Waits(o) ==
  /\ UNCHANGED <<file, store, row, scan>>
  /\ op[o].pc \notin {"r_remove", "r_mark", "d_row"}
  /\ op'[o].pc \notin {"r_remove", "r_mark", "d_row"}
  /\ op'[o] # Idle => Active(op'[o].id) /\ op'[o].rec = row[op'[o].id]
  /\ \A q \in Operator : q # o => op'[q] = op[q]

LEMMA WaitsAccounts ==
  ASSUME Undisturbed, NEW o \in Operator, Waits(o)
  PROVE  Accounts'
<1> USE DEF Waits
<1>1. /\ \A i : HeldBy(i)' <=> HeldBy(i)
      /\ \A q : Copied(q)' <=> Copied(q)
      /\ \A t : Holds(t)' <=> Holds(t)
  BY DEF HeldBy, Active, Closing, Copied, Holds
<1>2. NamedByHash' /\ OneHolder' /\ OnePlace'
  BY <1>1 DEF Undisturbed, Accounts, NamedByHash, OneHolder, OnePlace
<1>3. InPlace'
  BY <1>1 DEF Undisturbed, Accounts, InPlace
<1>4. OwnRows'
  BY DEF Undisturbed, Accounts, OwnRows, Active
<1> QED
  BY <1>2, <1>3, <1>4 DEF Accounts

\* How an operator's fields change with its pc.
LEMMA OpGoesFields ==
  ASSUME TypeOK, NEW o \in Operator, op[o].pc # "idle", NEW pc, OpGoes(o, pc)
  PROVE  /\ op'[o].pc = pc /\ op'[o].id = op[o].id /\ op'[o].rec = op[o].rec
         /\ \A q \in Operator : q # o => op'[q] = op[q]
<1>1. op[o] \in Operating
  BY OpFields
<1> QED
  BY <1>1 DEF OpGoes, TypeOK, Operating

\* When an operator takes the file of a row away, nobody else's account has it.
LEMMA RowTaken ==
  ASSUME Undisturbed, NEW o \in Operator, op[o].pc \notin {"idle", "r_mark", "d_row"},
         NEW pc \in {"r_mark", "d_row"}, OpGoes(o, pc)
  PROVE  /\ \A i \in DOMAIN row : Active(i) /\ ~Closing(i)' <=> HeldBy(i) /\ i # op[o].id
         /\ \A i \in DOMAIN row : HeldBy(i) /\ i # op[o].id => row[i].name # op[o].rec.name
         /\ \A t \in Scanner : Holds(t) => scan[t].name # op[o].rec.name
<1>1. /\ op'[o].pc = pc /\ op'[o].id = op[o].id
      /\ \A q \in Operator : q # o => op'[q] = op[q]
  BY OpGoesFields DEF Undisturbed
<1>2. /\ op[o].id \in DOMAIN row /\ HeldBy(op[o].id) /\ row[op[o].id] = op[o].rec
  BY OperatorHolds
<1>3. \A i : Closing(i)' <=> Closing(i) \/ i = op[o].id
  BY <1>1 DEF Closing
<1>4. \A i \in DOMAIN row : Active(i) /\ ~Closing(i)' <=> HeldBy(i) /\ i # op[o].id
  BY <1>2, <1>3 DEF HeldBy
<1> QED
  BY <1>2, <1>4 DEF Undisturbed, Accounts, OneHolder

LEMMA RestoreRenameAccounts ==
  ASSUME Undisturbed, NEW o \in Operator, RestoreRename(o)
  PROVE  Accounts'
<1> DEFINE p == op[o].rec.orig  n == op[o].rec.name  c == op[o].rec.holds
<1>1. /\ op[o].pc = "r_move" /\ UNCHANGED <<row, scan>> /\ OpGoes(o, "r_mark")
      /\ p \in Path /\ n \in Name /\ c \in Content /\ op[o] # Idle
      /\ store[n] = c /\ n = HashName[c] /\ file[p] = NoFile
  BY OperatorHolds, OpFields DEF RestoreRename, Row, Idle, Undisturbed, VacantPath
<1>2. /\ op'[o].pc = "r_mark" /\ op'[o].id = op[o].id /\ op'[o].rec = op[o].rec
      /\ \A q \in Operator : q # o => op'[q] = op[q]
  BY <1>1, OpGoesFields DEF Undisturbed
<1>3. /\ \A m \in Name : store'[m] = IF m = n THEN NoFile ELSE store[m]
      /\ \A q \in Path : file'[q] = IF q = p THEN c ELSE file[q]
  BY <1>1 DEF RestoreRename, Undisturbed, TypeOK
<1>4. /\ \A i \in DOMAIN row : HeldBy(i)' <=> HeldBy(i) /\ i # op[o].id
      /\ \A i \in DOMAIN row : HeldBy(i) /\ i # op[o].id => row[i].name # n
      /\ \A t \in Scanner : Holds(t) => scan[t].name # n
      /\ \A t \in Scanner : Holds(t)' <=> Holds(t)
      /\ \A q \in Path : Copied(q)' <=> Copied(q)
  BY <1>1, <1>2, RowTaken DEF HeldBy, Active, Holds, Copied
<1>5. /\ \A t \in Scanner : scan[t] # Idle => scan[t].path # p /\ scan[t].path \in Path
      /\ \A t \in Scanner : Holds(t) => scan[t].name \in Name
      /\ \A q \in Operator : op[q] # Idle /\ q # o => op[q].rec.orig # p /\ op[q].rec.orig \in Path
      /\ \A i \in DOMAIN row : row[i].name \in Name
  BY <1>1, FieldsOfOthers DEF Undisturbed
<1>6. NamedByHash'
  BY <1>1, <1>3, <1>4 DEF Undisturbed, Accounts, NamedByHash
<1>7. InPlace'
  BY <1>1, <1>3, <1>4, <1>5 DEF Undisturbed, Accounts, InPlace, Idle
<1>8. OneHolder'
  BY <1>1, <1>4 DEF Undisturbed, Accounts, OneHolder
<1>9. OwnRows'
  BY <1>1, <1>2, <1>3, <1>5 DEF Undisturbed, Accounts, OwnRows, Active, Idle
<1>10. OnePlace'
  <2>1. \A q \in Path : file[q] # c
    BY <1>1, OnlyInStore
  <2>2. \A m \in Name : m # n => store[m] # c
    BY <1>1, QuarantineAssumption DEF Undisturbed, Accounts, NamedByHash
  <2> QED
    BY <1>1, <1>3, <1>4, <2>1, <2>2 DEF Undisturbed, Accounts, OnePlace
<1> QED
  BY <1>6, <1>7, <1>8, <1>9, <1>10 DEF Accounts

LEMMA RestoreCopyAccounts ==
  ASSUME Undisturbed, NEW o \in Operator, RestoreCopy(o)
  PROVE  Accounts'
<1> DEFINE p == op[o].rec.orig  n == op[o].rec.name  c == op[o].rec.holds
<1>1. /\ op[o].pc = "r_move" /\ UNCHANGED <<store, row, scan>> /\ OpGoes(o, "r_remove")
      /\ p \in Path /\ n \in Name /\ c \in Content /\ op[o] # Idle
      /\ store[n] = c /\ n = HashName[c] /\ file[p] = NoFile
  BY OperatorHolds, OpFields DEF RestoreCopy, Row, Idle, Undisturbed, VacantPath
<1>2. /\ op'[o].pc = "r_remove" /\ op'[o].id = op[o].id /\ op'[o].rec = op[o].rec
      /\ \A q \in Operator : q # o => op'[q] = op[q]
  BY <1>1, OpGoesFields DEF Undisturbed
<1>3. \A q \in Path : file'[q] = IF q = p THEN c ELSE file[q]
  BY <1>1 DEF RestoreCopy, Undisturbed, TypeOK
<1>4. /\ \A i : HeldBy(i)' <=> HeldBy(i)
      /\ \A t \in Scanner : Holds(t)' <=> Holds(t)
      /\ \A q \in Path : Copied(q)' <=> Copied(q) \/ q = p
  BY <1>1, <1>2 DEF HeldBy, Active, Closing, Holds, Copied
<1>5. /\ \A t \in Scanner : scan[t] # Idle => scan[t].path # p /\ scan[t].path \in Path
      /\ \A q \in Operator : op[q] # Idle /\ q # o => op[q].rec.orig # p /\ op[q].rec.orig \in Path
  BY <1>1, FieldsOfOthers DEF Undisturbed
<1>6. NamedByHash' /\ OneHolder'
  BY <1>1, <1>4 DEF Undisturbed, Accounts, NamedByHash, OneHolder
<1>7. InPlace'
  BY <1>1, <1>3, <1>4, <1>5 DEF Undisturbed, Accounts, InPlace, Idle
<1>8. OwnRows'
  BY <1>1, <1>2, <1>3, <1>5 DEF Undisturbed, Accounts, OwnRows, Active, Idle
<1>9. OnePlace'
  <2>1. \A q \in Path : file[q] # c
    BY <1>1, OnlyInStore
  <2> QED
    BY <1>1, <1>3, <1>4, <2>1 DEF Undisturbed, Accounts, OnePlace
<1> QED
  BY <1>6, <1>7, <1>8, <1>9 DEF Accounts

\* The file of the row is removed: after a copy back, or because the user wants it gone.
LEMMA OperatorRemoveAccounts ==
  ASSUME Undisturbed, NEW o \in Operator, RestoreRemove(o) \/ DeleteRemove(o)
  PROVE  Accounts'
<1> DEFINE p == op[o].rec.orig  n == op[o].rec.name  c == op[o].rec.holds
<1>1. PICK pc \in {"r_mark", "d_row"} : OpGoes(o, pc)
  BY DEF RestoreRemove, DeleteRemove
<1>2. /\ op[o].pc \in {"r_remove", "d_remove"} /\ UNCHANGED <<file, row, scan>>
      /\ p \in Path /\ n \in Name /\ c \in Content /\ op[o] # Idle
      /\ store[n] = c /\ n = HashName[c]
  BY OperatorHolds, OpFields DEF RestoreRemove, DeleteRemove, Row, Idle, Undisturbed
<1>3. /\ op'[o].pc = pc /\ op'[o].id = op[o].id /\ op'[o].rec = op[o].rec
      /\ \A q \in Operator : q # o => op'[q] = op[q]
  BY <1>1, <1>2, OpGoesFields DEF Undisturbed
<1>4. \A m \in Name : store'[m] = IF m = n THEN NoFile ELSE store[m]
  BY <1>2 DEF RestoreRemove, DeleteRemove, Undisturbed, TypeOK
<1>5. /\ \A i \in DOMAIN row : HeldBy(i)' <=> HeldBy(i) /\ i # op[o].id
      /\ \A i \in DOMAIN row : HeldBy(i) /\ i # op[o].id => row[i].name # n
      /\ \A t \in Scanner : Holds(t) => scan[t].name # n
      /\ \A t \in Scanner : Holds(t)' <=> Holds(t)
  BY <1>1, <1>2, <1>3, RowTaken DEF HeldBy, Active, Holds
<1>6. /\ \A t \in Scanner : Holds(t) => scan[t].name \in Name
      /\ \A i \in DOMAIN row : row[i].name \in Name
  BY <1>2, FieldsOfOthers DEF Undisturbed
<1>7. NamedByHash'
  BY <1>2, <1>4, <1>5 DEF Undisturbed, Accounts, NamedByHash
<1>8. InPlace'
  BY <1>2, <1>4, <1>5, <1>6 DEF Undisturbed, Accounts, InPlace
<1>9. OneHolder'
  BY <1>2, <1>5 DEF Undisturbed, Accounts, OneHolder
<1>10. OwnRows'
  BY <1>1, <1>2, <1>3 DEF Undisturbed, Accounts, OwnRows, Active
<1>11. OnePlace'
  <2>1. \A m \in Name : m # n => store[m] # c
    BY <1>2, QuarantineAssumption DEF Undisturbed, Accounts, NamedByHash
  <2>2. ASSUME NEW q \in Path, file[q] # NoFile, file[q] # c, Copied(q) PROVE Copied(q)'
    <3>1. op[o].pc = "r_remove" => op[o].rec.orig # q
      BY <2>2 DEF Undisturbed, Accounts, OwnRows
    <3> QED
      BY <1>2, <1>3, <2>2, <3>1 DEF Copied
  <2> QED
    BY <1>2, <1>4, <2>1, <2>2 DEF Undisturbed, Accounts, OnePlace
<1> QED
  BY <1>7, <1>8, <1>9, <1>10, <1>11 DEF Accounts

\* A row whose file was taken away is closed.
LEMMA ClosedAccounts ==
  ASSUME Undisturbed, NEW o \in Operator, RestoreMark(o) \/ DeleteRow(o)
  PROVE  Accounts'
<1>1. /\ op[o].pc \in {"r_mark", "d_row"} /\ UNCHANGED <<file, store, scan>>
      /\ op'[o] = Idle /\ \A q \in Operator : q # o => op'[q] = op[q]
      /\ DOMAIN row' \subseteq DOMAIN row
      /\ \A i \in DOMAIN row : i # op[o].id => i \in DOMAIN row' /\ row'[i] = row[i]
      /\ op[o].id \in DOMAIN row' =>
           row'[op[o].id] = [row[op[o].id] EXCEPT !.restored = TRUE]
  BY DEF RestoreMark, DeleteRow, OpEnds, Undisturbed, TypeOK
<1>2. \A i \in DOMAIN row' : row'[i].name = row[i].name /\ row'[i].holds = row[i].holds
  BY <1>1 DEF Undisturbed, TypeOK, Row
<1>3. op[o].id \in DOMAIN row' => row'[op[o].id].restored
  BY <1>1 DEF Undisturbed, TypeOK, Row
<1>4. /\ \A i \in DOMAIN row' : HeldBy(i)' => HeldBy(i)
      /\ \A t \in Scanner : Holds(t)' <=> Holds(t)
      /\ \A q \in Path : Copied(q)' <=> Copied(q)
  BY <1>1, <1>3 DEF HeldBy, Active, Closing, Holds, Copied, Idle
<1>5. NamedByHash'
  BY <1>1, <1>2, <1>4 DEF Undisturbed, Accounts, NamedByHash
<1>6. InPlace'
  BY <1>1, <1>2, <1>4 DEF Undisturbed, Accounts, InPlace
<1>7. OneHolder'
  BY <1>1, <1>2, <1>4 DEF Undisturbed, Accounts, OneHolder
<1>8. OwnRows'
  <2>1. \A q \in Operator : q # o /\ op[q] # Idle => op[q].id # op[o].id
    BY <1>1, OneOperatorPerRow DEF Idle
  <2> QED
    BY <1>1, <2>1 DEF Undisturbed, Accounts, OwnRows, Active, Idle
<1>9. OnePlace'
  BY <1>1, <1>4 DEF Undisturbed, Accounts, OnePlace
<1> QED
  BY <1>5, <1>6, <1>7, <1>8, <1>9 DEF Accounts

LEMMA WaitingSteps ==
  ASSUME Undisturbed, NEW o \in Operator,
         \/ \E id \in DOMAIN row : RestoreBegin(o, id) \/ DeleteBegin(o, id)
         \/ RestoreFindsStored(o) \/ RestoreFindsVacant(o) \/ RestoreFails(o) \/ DeleteFails(o)
  PROVE  Waits(o)
<1>1. ASSUME NEW id \in DOMAIN row, RestoreBegin(o, id) \/ DeleteBegin(o, id) PROVE Waits(o)
  BY <1>1 DEF RestoreBegin, DeleteBegin, Waits, Undisturbed, TypeOK, Idle
<1>2. CASE RestoreFindsStored(o) \/ RestoreFindsVacant(o)
  <2>1. /\ op[o].pc \in {"r_store", "r_orig"} /\ op[o] # Idle
        /\ UNCHANGED <<file, store, row, scan>>
        /\ OpEnds(o) \/ \E pc \in {"r_orig", "r_move"} : OpGoes(o, pc)
    BY <1>2 DEF RestoreFindsStored, RestoreFindsVacant, Idle
  <2>2. Active(op[o].id) /\ row[op[o].id] = op[o].rec
    BY <2>1 DEF Undisturbed, Accounts, OwnRows
  <2>3. CASE OpEnds(o)
    <3>1. op'[o] = Idle /\ \A q \in Operator : q # o => op'[q] = op[q]
      BY <2>3 DEF OpEnds, Undisturbed, TypeOK
    <3> QED
      BY <2>1, <3>1 DEF Waits, Idle
  <2>4. ASSUME NEW pc \in {"r_orig", "r_move"}, OpGoes(o, pc) PROVE Waits(o)
    BY <2>1, <2>2, <2>4, OpGoesFields DEF Waits, Undisturbed
  <2> QED
    BY <2>1, <2>3, <2>4
<1>3. CASE RestoreFails(o) \/ DeleteFails(o)
  BY <1>3 DEF RestoreFails, DeleteFails, OpEnds, Waits, Undisturbed, OneByOne, TypeOK, Idle
<1> QED
  BY <1>1, <1>2, <1>3

LEMMA OperatorAccounts ==
  ASSUME Undisturbed, NEW o \in Operator, OperatorStep(o)
  PROVE  Accounts'
BY WaitingSteps, WaitsAccounts, RestoreRenameAccounts, RestoreCopyAccounts,
   OperatorRemoveAccounts, ClosedAccounts DEF OperatorStep

\* A new content appears on a path that nobody is working on.
LEMMA OutsideAccounts ==
  ASSUME Undisturbed, NEW p \in Path, NEW c \in Slot, Outside(p, c)
  PROVE  Accounts'
<1>1. /\ UNCHANGED <<store, row, scan, op>> /\ Quiet(p)
      /\ c = NoFile \/ c \notin Present
      /\ \A q \in Path : file'[q] = IF q = p THEN c ELSE file[q]
  BY DEF Outside, Undisturbed, OneByOne, TypeOK
<1>2. /\ \A t \in Scanner : scan[t] # Idle => scan[t].path # p /\ scan[t].path \in Path
      /\ \A q \in Operator : op[q] # Idle => op[q].rec.orig # p /\ op[q].rec.orig \in Path
  BY <1>1, Busy DEF Undisturbed, Quiet, ScannedBy, RestoredBy
<1>3. /\ \A i : HeldBy(i)' <=> HeldBy(i)
      /\ \A q : Copied(q)' <=> Copied(q)
      /\ \A t : Holds(t)' <=> Holds(t)
  BY <1>1 DEF HeldBy, Active, Closing, Copied, Holds
<1>4. NamedByHash' /\ OneHolder'
  BY <1>1, <1>3 DEF Undisturbed, Accounts, NamedByHash, OneHolder
<1>5. InPlace'
  BY <1>1, <1>2, <1>3 DEF Undisturbed, Accounts, InPlace, Idle
<1>6. OwnRows'
  BY <1>1, <1>2 DEF Undisturbed, Accounts, OwnRows, Active, Idle
<1>7. OnePlace'
  BY <1>1, <1>3 DEF Undisturbed, Accounts, OnePlace, Present
<1> QED
  BY <1>4, <1>5, <1>6, <1>7 DEF Accounts

LEMMA StoreInvariant == Spec => []StoreInv
<1>1. Init => StoreInv
  BY DEF Init, StoreInv, Accounts, NamedByHash, InPlace, OneHolder, OwnRows, OnePlace, Holds, Idle
<1>2. TypeOK /\ PathInv /\ StoreInv /\ [Next]_vars => StoreInv'
  <2> SUFFICES ASSUME TypeOK, PathInv, StoreInv, [Next]_vars, OneByOne'
               PROVE  Accounts'
    BY DEF StoreInv
  <2>1. Undisturbed
    <3>1. OneByOne
      BY MayConstant DEF OneByOne
    <3> QED
      BY <3>1, UndisturbedWhere
  <2>2. ASSUME NEW S \in SUBSET Scanner, NEW O \in SUBSET Operator,
               StatementThrows(S, O) \/ Crash(S, O)
        PROVE  FALSE
    BY <2>1, <2>2 DEF StatementThrows, Crash, Undisturbed, OneByOne
  <2>3. CASE UNCHANGED vars
    <3>1. /\ \A i : HeldBy(i)' <=> HeldBy(i)
          /\ \A q : Copied(q)' <=> Copied(q)
          /\ \A t : Holds(t)' <=> Holds(t)
          /\ \A i : Active(i)' <=> Active(i)
      BY <2>3 DEF vars, HeldBy, Active, Closing, Copied, Holds
    <3> QED
      BY <2>1, <2>3, <3>1 DEF vars, Undisturbed, Accounts, NamedByHash, InPlace, OneHolder,
                              OwnRows, OnePlace
  <2> QED
    BY <2>1, <2>2, <2>3, ScannerAccounts, OperatorAccounts, OutsideAccounts DEF Next
<1> QED
  BY <1>1, <1>2, TypeCorrect, PathInvariant, PTL DEF Spec

\* Quarantine is reversible: where contents differ, hashing works and no two threads are on
\* one path, the file of an unrestored row holds what was moved, however many scanners,
\* restores and deletes run at once.
THEOREM ReversibleWhereUndisturbed == Spec => []ReversibleOneByOne
<1>1. StoreInv => ReversibleOneByOne
  BY DEF StoreInv, Accounts, InPlace, HeldBy, ReversibleOneByOne, Reversible
<1> QED
  BY <1>1, StoreInvariant, PTL

\* In the same circumstances no step of Quarantine() destroys a content: what a rename
\* replaces is nothing, and what remove deletes is in the store.
LEMMA ScannersKeepContents ==
  ASSUME Undisturbed, Next
  PROVE  ScannersLoseNothing
<1> SUFFICES ASSUME NEW s \in Scanner, scan'[s] # scan[s],
                    NEW c \in Present, c # NoFile
             PROVE  c \in Present'
  BY DEF ScannersLoseNothing
<1>1. TypeOK /\ OneByOne
  BY DEF Undisturbed
<1>2. ASSUME UNCHANGED <<file, store>> PROVE c \in Present'
  BY <1>2 DEF Present
<1>3. ASSUME NEW t \in Scanner, QuarantineRename(t) \/ QuarantineCopy(t)
      PROVE  c \in Present'
  <2> DEFINE p == scan[t].path  n == scan[t].name
  <2>1. /\ p \in Path /\ n \in Name /\ store[n] = NoFile
        /\ store' = [store EXCEPT ![n] = file[p]]
        /\ file' = file \/ file' = [file EXCEPT ![p] = NoFile]
    BY <1>1, <1>3, ScanFields, PlaceIsFree DEF QuarantineRename, QuarantineCopy
  <2>2. store'[n] = file[p]
    BY <1>1, <2>1 DEF TypeOK
  <2>3. CASE \E q \in Path : c = file[q]
    <3> PICK q \in Path : c = file[q]
      BY <2>3
    <3>1. q # p => file'[q] = c
      BY <1>1, <2>1 DEF TypeOK
    <3> QED
      BY <2>1, <2>2, <3>1 DEF Present
  <2>4. CASE \E m \in Name : c = store[m]
    <3> PICK m \in Name : c = store[m]
      BY <2>4
    <3>1. store'[m] = c
      BY <1>1, <2>1 DEF TypeOK
    <3> QED
      BY <3>1 DEF Present
  <2> QED
    BY <2>3, <2>4 DEF Present
<1>4. ASSUME NEW t \in Scanner, QuarantineRemove(t)
      PROVE  c \in Present'
  <2> DEFINE p == scan[t].path  n == scan[t].name
  <2>1. /\ p \in Path /\ n \in Name /\ store' = store
        /\ file' = [file EXCEPT ![p] = NoFile]
        /\ store[n] = file[p]
    BY <1>1, <1>4, ScanFields DEF QuarantineRemove, Undisturbed, Accounts, InPlace, Holds
  <2>2. \A q \in Path : q # p => file'[q] = file[q]
    BY <1>1, <2>1 DEF TypeOK
  <2> QED
    BY <2>1, <2>2 DEF Present
<1>5. \E t \in Scanner : ScannerStep(t)
  <2>1. ASSUME NEW o \in Operator, OperatorStep(o) PROVE scan' = scan
    BY <1>1, <2>1, OperatorPath DEF OneByOne
  <2>2. ASSUME NEW p \in Path, NEW d \in Slot, Outside(p, d) PROVE scan' = scan
    BY <2>2 DEF Outside
  <2>3. ASSUME NEW S \in SUBSET Scanner, NEW O \in SUBSET Operator,
               StatementThrows(S, O) \/ Crash(S, O)
        PROVE  FALSE
    BY <1>1, <2>3 DEF StatementThrows, Crash, OneByOne
  <2> QED
    BY <2>1, <2>2, <2>3 DEF Next
<1> QED
  BY <1>2, <1>3, <1>4, <1>5
     DEF ScannerStep, QuarantineBegin, QuarantineFails, QuarantineInsert

-----------------------------------------------------------------------------
(* The store is a vault                                                    *)

Restoring(o) == op[o].pc \in {"r_store", "r_orig", "r_move", "r_remove"}

\* Restore() goes on only with a row whose path IsSafeRestoreTarget accepts.
SafeInv == \A o \in Operator : Restoring(o) => op[o].rec.orig \in SafeTarget

\* The rows that the vault has something for, and the entries it has.
InVault(id) == HeldBy(id) /\ ~Returned(id)
RowEntry(id) == [what |-> row[id].holds, from |-> row[id].orig]
ScanEntry(s) == [what |-> scan[s].took, from |-> scan[s].path]

LEMMA SafeStep ==
  ASSUME TypeOK, SafeInv, [Next]_vars
  PROVE  SafeInv'
<1>1. ASSUME NEW s \in Scanner, ScannerStep(s) PROVE UNCHANGED op
  BY <1>1 DEF ScannerStep, QuarantineBegin, QuarantineRename, QuarantineCopy,
              QuarantineRemove, QuarantineFails, QuarantineInsert
<1>2. ASSUME NEW o \in Operator, OperatorStep(o) PROVE SafeInv'
  <2>1. CASE \E id \in DOMAIN row : RestoreBegin(o, id) \/ DeleteBegin(o, id)
    BY <2>1 DEF RestoreBegin, DeleteBegin, SafeInv, Restoring, TypeOK
  <2>2. ASSUME NEW pc, OpGoes(o, pc), Restoring(o) PROVE SafeInv'
    <3>1. op[o].pc # "idle"
      BY <2>2 DEF Restoring
    <3>2. /\ op'[o].rec = op[o].rec
          /\ \A q \in Operator : q # o => op'[q] = op[q]
      BY <2>2, <3>1, OpGoesFields
    <3> QED
      BY <2>2, <3>2 DEF SafeInv, Restoring
  <2>3. CASE OpEnds(o)
    BY <2>3 DEF OpEnds, SafeInv, Restoring, Idle, TypeOK
  <2>4. CASE DeleteRemove(o)
    <3>1. op[o].pc # "idle"
      BY <2>4 DEF DeleteRemove
    <3>2. /\ op'[o].pc = "d_row"
          /\ \A q \in Operator : q # o => op'[q] = op[q]
      BY <2>4, <3>1, OpGoesFields DEF DeleteRemove
    <3> QED
      BY <3>2 DEF SafeInv, Restoring
  <2> QED
    BY <1>2, <2>1, <2>2, <2>3, <2>4
       DEF OperatorStep, RestoreFindsStored, RestoreFindsVacant, RestoreRename, RestoreCopy,
           RestoreRemove, RestoreFails, RestoreMark, DeleteFails, DeleteRow, Restoring
<1>3. ASSUME NEW p \in Path, NEW c \in Slot, Outside(p, c) PROVE UNCHANGED op
  BY <1>3 DEF Outside
<1>4. ASSUME NEW S \in SUBSET Scanner, NEW O \in SUBSET Operator,
             StatementThrows(S, O) \/ Crash(S, O)
      PROVE  SafeInv'
  BY <1>4 DEF StatementThrows, Crash, Die, SafeInv, Restoring, Idle
<1>5. ASSUME UNCHANGED op PROVE SafeInv'
  BY <1>5 DEF SafeInv, Restoring
<1> QED
  BY <1>1, <1>2, <1>3, <1>4, <1>5 DEF Next, vars

LEMMA SafeInvariant == Spec => []SafeInv
<1>1. Init => SafeInv
  BY DEF Init, SafeInv, Restoring, Idle
<1> QED
  BY <1>1, SafeStep, TypeCorrect, PTL DEF Spec

LEMMA KeptEntries ==
  /\ \A k : k \in Kept <=> \/ \E s \in Scanner : scan[s].pc = "insert" /\ k = ScanEntry(s)
                           \/ \E id \in DOMAIN row : InVault(id) /\ k = RowEntry(id)
  /\ \A k : k \in Kept' <=>
       \/ \E s \in Scanner : scan'[s].pc = "insert" /\ k = ScanEntry(s)'
       \/ \E id \in DOMAIN row' : InVault(id)' /\ k = RowEntry(id)'
  BY DEF Kept, InVault, HeldBy, RowEntry, ScanEntry

\* A step after which the same entries are owed and recorded.
LEMMA SameEntries ==
  ASSUME UNCHANGED row,
         \A s \in Scanner : /\ scan'[s].pc = "insert" <=> scan[s].pc = "insert"
                            /\ scan[s].pc = "insert" => ScanEntry(s)' = ScanEntry(s),
         \A id \in DOMAIN row : InVault(id)' <=> InVault(id)
  PROVE  Kept' = Kept
<1>1. \A id : RowEntry(id)' = RowEntry(id)
  BY DEF RowEntry
<1>2. \A k : k \in Kept' <=> k \in Kept
  BY <1>1, KeptEntries
<1> QED
  BY <1>2

\* What a scanner holds, it holds for nobody else: one entry comes, none goes.
LEMMA TakeOfVault ==
  ASSUME Undisturbed, NEW s \in Scanner, QuarantineRename(s) \/ QuarantineRemove(s)
  PROVE  V!Next
<1> DEFINE p == scan[s].path
<1>1. /\ UNCHANGED <<row, op>> /\ scan[s] \in Scanning /\ p \in Path /\ file[p] # NoFile
      /\ scan[s].pc # "insert" /\ file' = [file EXCEPT ![p] = NoFile]
  BY ScanFields, PlaceIsFree, QuarantineAssumption
     DEF QuarantineRename, QuarantineRemove, Undisturbed, Accounts, InPlace, TypeOK
<1>2. /\ scan'[s].pc = "insert" /\ scan'[s].path = p /\ scan'[s].took = file[p]
      /\ \A t \in Scanner : t # s => scan'[t] = scan[t]
  <2>1. CASE QuarantineRename(s)
    BY <1>1, <2>1 DEF QuarantineRename, Scanning, Undisturbed, TypeOK
  <2>2. CASE QuarantineRemove(s)
    BY <1>1, <2>2 DEF QuarantineRemove, ScanGoes, Scanning, Undisturbed, Accounts, InPlace,
                      TypeOK
  <2> QED
    BY <2>1, <2>2
<1>3. \A id : (InVault(id)' <=> InVault(id)) /\ RowEntry(id)' = RowEntry(id)
  BY <1>1 DEF InVault, HeldBy, Active, Closing, Returned, RowEntry
<1>4. /\ ScanEntry(s)' = [what |-> file[p], from |-> p]
      /\ \A t \in Scanner : t # s => ScanEntry(t)' = ScanEntry(t)
  BY <1>2 DEF ScanEntry
<1>5. \A k : k \in Kept' <=> k \in Kept \/ k = [what |-> file[p], from |-> p]
  BY <1>1, <1>2, <1>3, <1>4, KeptEntries
<1>6. Kept' = Kept \cup {[what |-> file[p], from |-> p]}
  BY <1>5
<1>7. V!Take(p)
  BY <1>1, <1>6 DEF V!Take
<1> QED
  BY <1>1, <1>7 DEF V!Next

\* The row takes the entry over from its scanner.
LEMMA InsertOfVault ==
  ASSUME Undisturbed, NEW s \in Scanner, QuarantineInsert(s)
  PROVE  UNCHANGED <<file, Kept>>
<1>0. PICK new : new = nextId
  OBVIOUS
<1>1. /\ scan[s].pc = "insert" /\ UNCHANGED <<file, store, op>>
      /\ scan'[s].pc = "idle" /\ \A t \in Scanner : t # s => scan'[t] = scan[t]
      /\ DOMAIN row' = DOMAIN row \cup {new} /\ new \notin DOMAIN row
      /\ row'[new] = [orig |-> scan[s].path, name |-> scan[s].name, restored |-> FALSE,
                      holds |-> scan[s].took]
      /\ \A id \in DOMAIN row : row'[id] = row[id]
  BY <1>0 DEF QuarantineInsert, ScanEnds, Undisturbed, TypeOK, Idle
<1>2. \A o \in Operator : op[o] # Idle => op[o].id # new
  BY <1>1 DEF Undisturbed, Accounts, OwnRows, Active
<1>3. ~Closing(new)' /\ ~Returned(new)'
  BY <1>1, <1>2 DEF Closing, Returned, Idle
<1>4. InVault(new)' /\ RowEntry(new)' = ScanEntry(s)
  BY <1>1, <1>3 DEF InVault, HeldBy, Active, RowEntry, ScanEntry
<1>5. \A id \in DOMAIN row : (InVault(id)' <=> InVault(id)) /\ RowEntry(id)' = RowEntry(id)
  BY <1>1 DEF InVault, HeldBy, Active, Closing, Returned, RowEntry
<1>6. \A t \in Scanner : t # s => ScanEntry(t)' = ScanEntry(t)
  BY <1>1 DEF ScanEntry
<1>7. \A k : k \in Kept' <=> k \in Kept
  BY <1>1, <1>4, <1>5, <1>6, KeptEntries
<1>8. Kept' = Kept
  BY <1>7
<1> QED
  BY <1>1, <1>8

LEMMA ScannerOfVault ==
  ASSUME Undisturbed, NEW s \in Scanner, ScannerStep(s)
  PROVE  [V!Next]_(V!vars)
<1>1. ASSUME NEW p \in Path, QuarantineBegin(s, p) PROVE UNCHANGED <<file, Kept>>
  <2>1. /\ UNCHANGED <<file, row, op>> /\ scan[s] = Idle /\ scan'[s].pc = "move"
        /\ \A t \in Scanner : t # s => scan'[t] = scan[t]
    BY <1>1 DEF QuarantineBegin, Undisturbed, TypeOK
  <2> QED
    BY <2>1, SameEntries DEF InVault, HeldBy, Active, Closing, Returned, ScanEntry, Idle
<1>2. CASE QuarantineCopy(s)
  <2>1. scan[s] \in Scanning /\ scan[s].pc = "move"
    BY <1>2, ScanFields DEF QuarantineCopy, Undisturbed
  <2>2. /\ UNCHANGED <<file, row, op>> /\ scan'[s].pc = "remove"
        /\ \A t \in Scanner : t # s => scan'[t] = scan[t]
    BY <1>2, <2>1 DEF QuarantineCopy, Undisturbed, TypeOK, Scanning
  <2>3. UNCHANGED <<file, Kept>>
    BY <2>1, <2>2, SameEntries DEF InVault, HeldBy, Active, Closing, Returned, ScanEntry
  <2> QED
    BY <2>3 DEF V!vars
<1>3. CASE QuarantineFails(s)
  <2>1. /\ UNCHANGED <<file, row, op>> /\ scan[s].pc # "insert" /\ scan'[s] = Idle
        /\ \A t \in Scanner : t # s => scan'[t] = scan[t]
    BY <1>3 DEF QuarantineFails, ScanEnds, Undisturbed, TypeOK
  <2>2. UNCHANGED <<file, Kept>>
    BY <2>1, SameEntries DEF InVault, HeldBy, Active, Closing, Returned, ScanEntry, Idle
  <2> QED
    BY <2>2 DEF V!vars
<1> QED
  BY <1>1, <1>2, <1>3, TakeOfVault, InsertOfVault DEF ScannerStep, V!vars

\* What is returned or destroyed was on nobody else's account: its entry goes, and no other.
LEMMA EntryGoes ==
  ASSUME Undisturbed, NEW o \in Operator, op[o].pc \in {"r_move", "d_remove"},
         NEW pc \in {"r_remove", "r_mark", "d_row"}, OpGoes(o, pc), UNCHANGED <<row, scan>>
  PROVE  LET k == [what |-> op[o].rec.holds, from |-> op[o].rec.orig]
         IN  k \in Kept /\ Kept' = Kept \ {k}
<1> DEFINE k == [what |-> op[o].rec.holds, from |-> op[o].rec.orig]
<1>1. /\ op'[o].pc = pc /\ op'[o].id = op[o].id
      /\ \A q \in Operator : q # o => op'[q] = op[q]
  BY OpGoesFields DEF Undisturbed
<1>2. /\ op[o].id \in DOMAIN row /\ HeldBy(op[o].id) /\ row[op[o].id] = op[o].rec
      /\ op[o].rec.name = HashName[op[o].rec.holds]
  BY OperatorHolds
<1>3. ~Returned(op[o].id)
  <2> SUFFICES ASSUME NEW q \in Operator, op[q].pc = "r_remove", op[q].id = op[o].id
               PROVE  FALSE
    BY DEF Returned
  <2>1. op[q] # Idle /\ op[o] # Idle
    BY DEF Idle
  <2>2. q = o
    BY <2>1, OneOperatorPerRow
  <2> QED
    BY <2>2
<1>4. InVault(op[o].id) /\ RowEntry(op[o].id) = k
  BY <1>2, <1>3 DEF InVault, RowEntry
<1>5. \A i \in DOMAIN row : InVault(i)' <=> InVault(i) /\ i # op[o].id
  BY <1>1, <1>2 DEF InVault, HeldBy, Active, Closing, Returned
<1>6. ASSUME NEW i \in DOMAIN row, InVault(i), i # op[o].id PROVE RowEntry(i) # k
  <2>1. HeldBy(i) /\ row[i].name = HashName[row[i].holds]
    BY <1>6 DEF InVault, Undisturbed, Accounts, NamedByHash
  <2>2. row[i].name # op[o].rec.name
    BY <1>2, <1>6, <2>1 DEF Undisturbed, Accounts, OneHolder
  <2>3. row[i].holds # op[o].rec.holds
    BY <1>2, <2>1, <2>2
  <2> QED
    BY <2>3 DEF RowEntry
<1>7. ASSUME NEW t \in Scanner, scan[t].pc = "insert" PROVE ScanEntry(t) # k
  <2>1. Holds(t) /\ scan[t].name = HashName[scan[t].took]
    BY <1>7 DEF Holds, Undisturbed, Accounts, NamedByHash
  <2>2. scan[t].name # row[op[o].id].name
    BY <1>2, <2>1 DEF Undisturbed, Accounts, OneHolder
  <2>3. scan[t].took # op[o].rec.holds
    BY <1>2, <2>1, <2>2
  <2> QED
    BY <2>3 DEF ScanEntry
<1>8. /\ \A i : RowEntry(i)' = RowEntry(i)
      /\ \A t : ScanEntry(t)' = ScanEntry(t)
  BY DEF RowEntry, ScanEntry
<1>9. k \in Kept
  BY <1>2, <1>4, KeptEntries
<1> HIDE DEF k
<1>10. \A e : e \in Kept' <=> e \in Kept /\ e # k
  BY <1>4, <1>5, <1>6, <1>7, <1>8, KeptEntries
<1>11. Kept' = Kept \ {k}
  BY <1>10
<1> QED
  BY <1>9, <1>11 DEF k

\* An operator that begins, looks or gives up changes nothing of the vault.
LEMMA WaitsOfVault ==
  ASSUME Undisturbed, NEW o \in Operator, Waits(o)
  PROVE  UNCHANGED <<file, Kept>>
<1>1. \A id : InVault(id)' <=> InVault(id)
  BY DEF Waits, InVault, HeldBy, Active, Closing, Returned
<1> QED
  BY <1>1, SameEntries DEF Waits, ScanEntry

\* The file goes back to its own place, where nothing is.
LEMMA ReturnOfVault ==
  ASSUME Undisturbed, SafeInv, NEW o \in Operator, RestoreRename(o) \/ RestoreCopy(o)
  PROVE  V!Next
<1> DEFINE p == op[o].rec.orig  k == [what |-> op[o].rec.holds, from |-> p]
<1>1. /\ op[o].pc = "r_move" /\ UNCHANGED <<row, scan>>
      /\ OpGoes(o, "r_mark") \/ OpGoes(o, "r_remove")
      /\ file' = [file EXCEPT ![p] = store[op[o].rec.name]]
  BY DEF RestoreRename, RestoreCopy
<1>2. k \in Kept /\ Kept' = Kept \ {k}
  BY <1>1, EntryGoes
<1>3. store[op[o].rec.name] = op[o].rec.holds
  BY <1>1, OperatorHolds
<1>4. p \in SafeTarget /\ file[p] = NoFile
  BY <1>1 DEF SafeInv, Restoring, Undisturbed, VacantPath
<1>5. V!Return(k)
  BY <1>1, <1>2, <1>3, <1>4 DEF V!Return
<1> QED
  BY <1>2, <1>5 DEF V!Next

\* The file of a row that somebody deletes goes for good.
LEMMA DestroyOfVault ==
  ASSUME Undisturbed, NEW o \in Operator, DeleteRemove(o)
  PROVE  V!Next
<1> DEFINE k == [what |-> op[o].rec.holds, from |-> op[o].rec.orig]
<1>1. /\ op[o].pc = "d_remove" /\ UNCHANGED <<file, row, scan>> /\ OpGoes(o, "d_row")
  BY DEF DeleteRemove
<1>2. k \in Kept /\ Kept' = Kept \ {k}
  BY <1>1, EntryGoes
<1>3. V!Destroy(k)
  BY <1>1, <1>2 DEF V!Destroy
<1> QED
  BY <1>2, <1>3 DEF V!Next

\* The second half of a copying restore, and the statement that closes a row, concern an
\* entry that has gone already.
LEMMA ClosingOfVault ==
  ASSUME Undisturbed, NEW o \in Operator,
         RestoreRemove(o) \/ RestoreMark(o) \/ DeleteRow(o)
  PROVE  UNCHANGED <<file, Kept>>
<1>1. CASE RestoreRemove(o)
  <2>1. /\ op[o].pc = "r_remove" /\ op'[o].pc = "r_mark" /\ op'[o].id = op[o].id
        /\ \A q \in Operator : q # o => op'[q] = op[q]
        /\ UNCHANGED <<file, row, scan>>
    BY <1>1, OpGoesFields DEF RestoreRemove, Undisturbed
  <2>2. \A id : InVault(id)' <=> InVault(id)
    BY <2>1 DEF InVault, HeldBy, Active, Closing, Returned
  <2> QED
    BY <2>1, <2>2, SameEntries DEF ScanEntry
<1>2. CASE RestoreMark(o) \/ DeleteRow(o)
  <2>1. /\ op[o].pc \in {"r_mark", "d_row"} /\ UNCHANGED <<file, store, scan>>
        /\ op'[o] = Idle /\ \A q \in Operator : q # o => op'[q] = op[q]
        /\ DOMAIN row' \subseteq DOMAIN row
        /\ \A i \in DOMAIN row : i # op[o].id => i \in DOMAIN row' /\ row'[i] = row[i]
    BY <1>2 DEF RestoreMark, DeleteRow, OpEnds, Undisturbed, TypeOK
  <2>2. op[o].id \in DOMAIN row' => row'[op[o].id].restored
    <3>1. op[o].id \in DOMAIN row => row[op[o].id] \in Row
      BY DEF Undisturbed, TypeOK
    <3> QED
      BY <1>2, <3>1 DEF RestoreMark, DeleteRow, Row
  <2>3. ~InVault(op[o].id) /\ \A i \in DOMAIN row' : InVault(i)' => i # op[o].id
    BY <2>1, <2>2 DEF InVault, HeldBy, Active, Closing
  <2>4. \A i \in DOMAIN row : i # op[o].id => (InVault(i)' <=> InVault(i))
    BY <2>1 DEF InVault, HeldBy, Active, Closing, Returned, Idle
  <2>5. /\ \A i \in DOMAIN row : i # op[o].id => RowEntry(i)' = RowEntry(i)
        /\ \A t : ScanEntry(t)' = ScanEntry(t)
    BY <2>1 DEF RowEntry, ScanEntry
  <2>6. \A k : k \in Kept' <=> k \in Kept
    BY <2>1, <2>3, <2>4, <2>5, KeptEntries
  <2>7. Kept' = Kept
    BY <2>6
  <2> QED
    BY <2>1, <2>7
<1> QED
  BY <1>1, <1>2

LEMMA OperatorOfVault ==
  ASSUME Undisturbed, SafeInv, NEW o \in Operator, OperatorStep(o)
  PROVE  [V!Next]_(V!vars)
<1>1. CASE V!Next
  BY <1>1
<1>2. CASE UNCHANGED <<file, Kept>>
  BY <1>2 DEF V!vars
<1> QED
  BY <1>1, <1>2, WaitingSteps, WaitsOfVault, ReturnOfVault, DestroyOfVault, ClosingOfVault
     DEF OperatorStep

\* What is new to the file system and the directory is new to the vault.
LEMMA OutsideOfVault ==
  ASSUME Undisturbed, NEW p \in Path, NEW c \in Slot, Outside(p, c)
  PROVE  V!Next
<1>1. /\ UNCHANGED <<store, row, scan, op>> /\ file' = [file EXCEPT ![p] = c]
      /\ c = NoFile \/ c \notin Present
  BY DEF Outside, Undisturbed, OneByOne
<1>2. Kept' = Kept
  BY <1>1, SameEntries DEF InVault, HeldBy, Active, Closing, Returned, ScanEntry
<1>3. ASSUME NEW k \in Kept PROVE k.what \in Present
  <2>1. ASSUME NEW s \in Scanner, scan[s].pc = "insert", k = ScanEntry(s)
        PROVE  k.what \in Present
    <3>1. scan[s].name \in Name /\ Holds(s)
      BY <2>1, ScanFields DEF Undisturbed, Holds
    <3>2. store[scan[s].name] = k.what
      BY <2>1, <3>1 DEF Undisturbed, Accounts, InPlace, ScanEntry
    <3> QED
      BY <3>1, <3>2 DEF Present
  <2>2. ASSUME NEW id \in DOMAIN row, InVault(id), k = RowEntry(id)
        PROVE  k.what \in Present
    <3>1. row[id].name \in Name /\ HeldBy(id)
      BY <2>2 DEF Undisturbed, TypeOK, Row, InVault
    <3>2. store[row[id].name] = k.what
      BY <2>2, <3>1 DEF Undisturbed, Accounts, InPlace, RowEntry
    <3> QED
      BY <3>1, <3>2 DEF Present
  <2> QED
    BY <1>3, <2>1, <2>2, KeptEntries
<1>4. V!Outside(p, c)
  BY <1>1, <1>2, <1>3 DEF V!Outside, Present
<1> QED
  BY <1>4 DEF V!Next, Slot

\* Each step of the store, where nothing disturbs it, is a step of the vault or none.
LEMMA StepOfVault ==
  ASSUME Undisturbed, SafeInv, [Next]_vars
  PROVE  [V!Next]_(V!vars)
<1>1. ASSUME NEW S \in SUBSET Scanner, NEW O \in SUBSET Operator,
             StatementThrows(S, O) \/ Crash(S, O)
      PROVE  FALSE
  BY <1>1 DEF StatementThrows, Crash, Undisturbed, OneByOne
<1>2. CASE UNCHANGED vars
  <2>1. UNCHANGED <<file, row, scan, op>>
    BY <1>2 DEF vars
  <2>2. Kept' = Kept
    BY <2>1, SameEntries DEF InVault, HeldBy, Active, Closing, Returned, ScanEntry
  <2> QED
    BY <2>1, <2>2 DEF V!vars
<1> QED
  BY <1>1, <1>2, ScannerOfVault, OperatorOfVault, OutsideOfVault DEF Next

\* In the same circumstances no step of Quarantine() destroys a content, and each step of
\* the three operations is a step of a vault or none.
THEOREM NothingLostOneByOne == Spec => LosesNothingOneByOne
<1>1. TypeOK /\ PathInv /\ StoreInv /\ SafeInv /\ [Next]_vars
        => [OneByOne => ScannersLoseNothing /\ [V!Next]_(V!vars)]_vars
  BY UndisturbedWhere, ScannersKeepContents, StepOfVault
<1> QED
  BY <1>1, TypeCorrect, PathInvariant, StoreInvariant, SafeInvariant, PTL
     DEF LosesNothingOneByOne, Spec

\* Where nothing disturbs it, the store is a vault: Quarantine(), Restore() and Delete(),
\* made of renames, copies, removes and statements of many threads, take, return and
\* destroy files in single steps, as far as a user can tell.
THEOREM ImplementsVault == Spec => (OneByOne => V!Spec)
<1>1. Init => V!Init
  <2>1. ASSUME Init, NEW k \in Kept PROVE FALSE
    BY <2>1, KeptEntries DEF Init, Idle
  <2>2. Init => Kept = {}
    BY <2>1
  <2> QED
    BY <2>2 DEF Init, V!Init
<1>2. OneByOne /\ [Next]_vars => OneByOne'
  BY MayConstant DEF OneByOne
<1>3. TypeOK /\ PathInv /\ StoreInv /\ SafeInv /\ OneByOne /\ [Next]_vars
        => [V!Next]_(V!vars)
  BY UndisturbedWhere, StepOfVault
<1> QED
  BY <1>1, <1>2, <1>3, TypeCorrect, PathInvariant, StoreInvariant, SafeInvariant, PTL
     DEF Spec, V!Spec
=============================================================================
