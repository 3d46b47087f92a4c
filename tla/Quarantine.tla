----------------------------- MODULE Quarantine -----------------------------
(***************************************************************************)
(* The quarantine store of src/src/remediation: Quarantine(), Restore()    *)
(* and Delete() over three things that are updated one call at a time, by  *)
(* several threads and by two processes (dashboard and CLI) at once:       *)
(*                                                                         *)
(*   file   the user's file system, one content or nothing per path        *)
(*   store  the quarantine directory, one content or nothing per name      *)
(*   row    the `quarantine` table of the SQLite database                  *)
(*                                                                         *)
(* Each action is one call into the file system or the database, so every  *)
(* interleaving between two such calls is a behaviour of the model.        *)
(* Scanners are the threads that run Engine::Impl::Quarantine (directory   *)
(* scan workers, watcher threads, detached ETW scans); operators are those *)
(* that run Restore and Delete on behalf of a user.                        *)
(*                                                                         *)
(* What the surroundings may do is chosen once, at the start: may, one of  *)
(* the fault sets in Admitted. A property names the faults it excludes.    *)
(***************************************************************************)
EXTENDS Naturals, FiniteSets

CONSTANTS
  Path,        \* original locations of files
  Content,     \* what a file may contain
  Name,        \* file names inside the quarantine directory
  NoFile,      \* nothing exists at this place
  HashName,    \* [Content -> Name], "<sha256>.quar"
  FileName,    \* [Path -> Name], "<filename>.quar", used when hashing failed
  SafeTarget,  \* the paths that IsSafeRestoreTarget accepts
  Scanner, Operator,
  Admitted,    \* the sets of faults that this instance lets happen together
  MaxId        \* bound: rows ever inserted, those in flight included

Fault == { "duplicate",    \* two files of the user may have equal contents
           "rewrite",      \* a path may change while an operation works on it
           "overlap",      \* two threads may work on one path, or one row
           "unhashable",   \* ComputeSha256 may fail
           "fallback",     \* rename may fail where copy succeeds
           "removeFails",  \* after such a copy, remove may fail
           "dbFails",      \* a statement may throw (locked or full database)
           "crash" }       \* a process may die between two calls

ASSUME QuarantineAssumption ==
  /\ NoFile \notin Content
  /\ HashName \in [Content -> Name]
  /\ FileName \in [Path -> Name]
  /\ SafeTarget \subseteq Path
  /\ Admitted \subseteq SUBSET Fault
  /\ MaxId \in Nat

\* SHA-256: no two contents are taken for one.
ASSUME HashesDiffer ==
  \A c, d \in Content : HashName[c] = HashName[d] => c = d

VARIABLES may, file, store, row, nextId,
          scan,   \* progress of each scanner inside Quarantine()
          op      \* progress of each operator inside Restore() or Delete()

vars == <<may, file, store, row, nextId, scan, op>>

-----------------------------------------------------------------------------
Slot == Content \cup {NoFile}

\* `holds` is a history field: the content whose move the row records. No
\* action reads it.
Row == [orig: Path, name: Name, restored: BOOLEAN, holds: Content]

Idle == [pc |-> "idle"]

Scanning == [pc: {"move", "remove", "insert"}, path: Path, name: Name,
             took: Slot]

Operating == [pc: {"r_store", "r_orig", "r_move", "r_remove", "r_mark",
                   "d_remove", "d_row"}, id: Nat, rec: Row]

TypeOK ==
  /\ may \subseteq Fault
  /\ file \in [Path -> Slot]
  /\ store \in [Name -> Slot]
  /\ nextId \in Nat
  /\ DOMAIN row \subseteq Nat
  /\ \A id \in DOMAIN row : row[id] \in Row /\ id < nextId
  /\ scan \in [Scanner -> Scanning \cup {Idle}]
  /\ op \in [Operator -> Operating \cup {Idle}]
  /\ \A s \in Scanner : scan[s].pc \in {"remove", "insert"}
                          => scan[s].took \in Content

Init ==
  /\ may \in Admitted
  /\ file = [p \in Path |-> NoFile]
  /\ store = [n \in Name |-> NoFile]
  /\ row = [id \in {} |-> 0]
  /\ nextId = 1
  /\ scan = [s \in Scanner |-> Idle]
  /\ op = [o \in Operator |-> Idle]

ScanGoes(s, pc) == scan' = [scan EXCEPT ![s] = [@ EXCEPT !.pc = pc]]
ScanEnds(s) == scan' = [scan EXCEPT ![s] = Idle]
OpGoes(o, pc) == op' = [op EXCEPT ![o] = [@ EXCEPT !.pc = pc]]
OpEnds(o) == op' = [op EXCEPT ![o] = Idle]

BusyScanners == {s \in Scanner : scan[s] # Idle}
ScannedBy(s, p) == scan[s] # Idle /\ scan[s].path = p
RestoredBy(o, p) == op[o] # Idle /\ op[o].rec.orig = p

\* No thread works on p.
Quiet(p) == /\ \A s \in Scanner : ~ScannedBy(s, p)
            /\ \A o \in Operator : ~RestoredBy(o, p)

-----------------------------------------------------------------------------
(* Quarantine()                                                            *)

\* Variant for the mutation runs: every file is stored under its own file name.
QuarantineBegin_ByFileName(s, p) ==
  /\ scan[s] = Idle
  /\ nextId + Cardinality(BusyScanners) <= MaxId
  /\ file[p] # NoFile
  /\ Quiet(p)
  /\ scan' = [scan EXCEPT ![s] = [pc |-> "move", path |-> p,
                                  name |-> FileName[p], took |-> NoFile]]
  /\ UNCHANGED <<may, file, store, row, nextId, op>>

\* Engine::Impl::Quarantine hashes the file it was told to move; the hash, or
\* the file's own name when hashing fails, names the quarantined file.
QuarantineBegin(s, p) ==
  /\ scan[s] = Idle
  /\ nextId + Cardinality(BusyScanners) <= MaxId
  /\ file[p] # NoFile \/ "rewrite" \in may
  /\ "overlap" \in may \/ Quiet(p)
  /\ \E name \in Name :
       /\ \/ file[p] # NoFile /\ name = HashName[file[p]]
          \/ file[p] = NoFile /\ name = FileName[p]
          \/ "unhashable" \in may /\ name = FileName[p]
       /\ scan' = [scan EXCEPT ![s] = [pc |-> "move", path |-> p,
                                       name |-> name, took |-> NoFile]]
  /\ UNCHANGED <<may, file, store, row, nextId, op>>

\* MoveFile, first branch: rename replaces whatever has the destination name.
QuarantineRename(s) ==
  /\ scan[s].pc = "move"
  /\ file[scan[s].path] # NoFile
  /\ store' = [store EXCEPT ![scan[s].name] = file[scan[s].path]]
  /\ file' = [file EXCEPT ![scan[s].path] = NoFile]
  /\ scan' = [scan EXCEPT ![s] = [@ EXCEPT !.pc = "insert",
                                           !.took = file[scan[s].path]]]
  /\ UNCHANGED <<may, row, nextId, op>>

\* MoveFile, second branch: copy_file with overwrite_existing.
QuarantineCopy(s) ==
  /\ "fallback" \in may
  /\ scan[s].pc = "move"
  /\ file[scan[s].path] # NoFile
  /\ store' = [store EXCEPT ![scan[s].name] = file[scan[s].path]]
  /\ scan' = [scan EXCEPT ![s] = [@ EXCEPT !.pc = "remove",
                                           !.took = file[scan[s].path]]]
  /\ UNCHANGED <<may, file, row, nextId, op>>

\* remove(from): it is no error when the file is already gone.
QuarantineRemove(s) ==
  /\ scan[s].pc = "remove"
  /\ file' = [file EXCEPT ![scan[s].path] = NoFile]
  /\ ScanGoes(s, "insert")
  /\ UNCHANGED <<may, store, row, nextId, op>>

\* MoveFile returns false: neither rename nor copy worked, or the copied
\* source could not be removed (the copy stays). Quarantine returns nullopt.
QuarantineFails(s) ==
  /\ \/ scan[s].pc = "move"
     \/ scan[s].pc = "remove" /\ "removeFails" \in may
  /\ ScanEnds(s)
  /\ UNCHANGED <<may, file, store, row, nextId, op>>

\* Database::InsertQuarantineRecord; ids are AUTOINCREMENT.
QuarantineInsert(s) ==
  /\ scan[s].pc = "insert"
  /\ row' = [id \in DOMAIN row \cup {nextId} |->
               IF id = nextId
                 THEN [orig |-> scan[s].path, name |-> scan[s].name,
                       restored |-> FALSE, holds |-> scan[s].took]
                 ELSE row[id]]
  /\ nextId' = nextId + 1
  /\ ScanEnds(s)
  /\ UNCHANGED <<may, file, store, op>>

-----------------------------------------------------------------------------
(* Restore()                                                               *)

Active(id) == id \in DOMAIN row /\ ~row[id].restored

\* Read the record and refuse an unknown, restored or unsafe one.
RestoreBegin(o, id) ==
  /\ op[o] = Idle
  /\ Active(id)
  /\ row[id].orig \in SafeTarget
  /\ "overlap" \in may \/ Quiet(row[id].orig)
  /\ op' = [op EXCEPT ![o] = [pc |-> "r_store", id |-> id, rec |-> row[id]]]
  /\ UNCHANGED <<may, file, store, row, nextId, scan>>

RestoreFindsStored(o) ==
  /\ op[o].pc = "r_store"
  /\ IF store[op[o].rec.name] # NoFile THEN OpGoes(o, "r_orig") ELSE OpEnds(o)
  /\ UNCHANGED <<may, file, store, row, nextId, scan>>

\* Variant: no look at the original path.
RestoreFindsVacant_Unchecked(o) ==
  /\ op[o].pc = "r_orig"
  /\ OpGoes(o, "r_move")
  /\ UNCHANGED <<may, file, store, row, nextId, scan>>

\* "never clobber": refuse when something exists at the original path.
RestoreFindsVacant(o) ==
  /\ op[o].pc = "r_orig"
  /\ IF file[op[o].rec.orig] = NoFile THEN OpGoes(o, "r_move") ELSE OpEnds(o)
  /\ UNCHANGED <<may, file, store, row, nextId, scan>>

RestoreRename(o) ==
  /\ op[o].pc = "r_move"
  /\ store[op[o].rec.name] # NoFile
  /\ file' = [file EXCEPT ![op[o].rec.orig] = store[op[o].rec.name]]
  /\ store' = [store EXCEPT ![op[o].rec.name] = NoFile]
  /\ OpGoes(o, "r_mark")
  /\ UNCHANGED <<may, row, nextId, scan>>

RestoreCopy(o) ==
  /\ "fallback" \in may
  /\ op[o].pc = "r_move"
  /\ store[op[o].rec.name] # NoFile
  /\ file' = [file EXCEPT ![op[o].rec.orig] = store[op[o].rec.name]]
  /\ OpGoes(o, "r_remove")
  /\ UNCHANGED <<may, store, row, nextId, scan>>

RestoreRemove(o) ==
  /\ op[o].pc = "r_remove"
  /\ store' = [store EXCEPT ![op[o].rec.name] = NoFile]
  /\ OpGoes(o, "r_mark")
  /\ UNCHANGED <<may, file, row, nextId, scan>>

\* Variant: the result of MoveFile is ignored and the row is marked anyway.
RestoreFails_Ignored(o) ==
  /\ \/ op[o].pc = "r_move"
     \/ op[o].pc = "r_remove" /\ "removeFails" \in may
  /\ OpGoes(o, "r_mark")
  /\ UNCHANGED <<may, file, store, row, nextId, scan>>

RestoreFails(o) ==
  /\ \/ op[o].pc = "r_move"
     \/ op[o].pc = "r_remove" /\ "removeFails" \in may
  /\ OpEnds(o)
  /\ UNCHANGED <<may, file, store, row, nextId, scan>>

\* An UPDATE of a row that was deleted meanwhile changes nothing.
RestoreMark(o) ==
  /\ op[o].pc = "r_mark"
  /\ row' = [id \in DOMAIN row |->
               IF id = op[o].id THEN [row[id] EXCEPT !.restored = TRUE]
                                ELSE row[id]]
  /\ OpEnds(o)
  /\ UNCHANGED <<may, file, store, nextId, scan>>

-----------------------------------------------------------------------------
(* Delete()                                                                *)

DeleteBegin(o, id) ==
  /\ op[o] = Idle
  /\ Active(id)
  /\ "overlap" \in may \/ Quiet(row[id].orig)
  /\ op' = [op EXCEPT ![o] = [pc |-> "d_remove", id |-> id, rec |-> row[id]]]
  /\ UNCHANGED <<may, file, store, row, nextId, scan>>

\* A missing file is no error; one that is in use is (Delete returns false).
DeleteRemove(o) ==
  /\ op[o].pc = "d_remove"
  /\ store' = [store EXCEPT ![op[o].rec.name] = NoFile]
  /\ OpGoes(o, "d_row")
  /\ UNCHANGED <<may, file, row, nextId, scan>>

\* Variant: the error of remove is ignored and the row is deleted anyway.
DeleteFails_Ignored(o) ==
  /\ op[o].pc = "d_remove"
  /\ store[op[o].rec.name] # NoFile
  /\ OpGoes(o, "d_row")
  /\ UNCHANGED <<may, file, store, row, nextId, scan>>

DeleteFails(o) ==
  /\ op[o].pc = "d_remove"
  /\ store[op[o].rec.name] # NoFile
  /\ OpEnds(o)
  /\ UNCHANGED <<may, file, store, row, nextId, scan>>

DeleteRow(o) ==
  /\ op[o].pc = "d_row"
  /\ row' = [id \in DOMAIN row \ {op[o].id} |-> row[id]]
  /\ OpEnds(o)
  /\ UNCHANGED <<may, file, store, nextId, scan>>

-----------------------------------------------------------------------------
(* The surroundings                                                        *)

Present == {file[p] : p \in Path} \cup {store[n] : n \in Name}

\* A user or another program creates, replaces or removes the file at p.
Outside(p, c) ==
  /\ c # file[p]
  /\ c = NoFile \/ c \notin Present \/ "duplicate" \in may
  /\ Quiet(p) \/ "rewrite" \in may
  /\ file' = [file EXCEPT ![p] = c]
  /\ UNCHANGED <<may, store, row, nextId, scan, op>>

\* The threads of a process that ends are gone, files and rows stay.
Die(scanners, operators) ==
  /\ scan' = [s \in Scanner |-> IF s \in scanners THEN Idle ELSE scan[s]]
  /\ op' = [o \in Operator |-> IF o \in operators THEN Idle ELSE op[o]]
  /\ UNCHANGED <<may, file, store, row, nextId>>

\* Statement::Step throws on any SQLite error (no busy timeout is set). No thread
\* that quarantines, restores or deletes catches it: its process terminates.
StatementThrows(scanners, operators) ==
  /\ "dbFails" \in may
  /\ \/ \E s \in scanners : scan[s].pc = "insert"
     \/ \E o \in operators : op[o].pc \in {"r_mark", "d_row"}
  /\ Die(scanners, operators)

Crash(scanners, operators) ==
  /\ "crash" \in may
  /\ Die(scanners, operators)

ScannerStep(s) ==
  \/ \E p \in Path : QuarantineBegin(s, p)
  \/ QuarantineRename(s)
  \/ QuarantineCopy(s)
  \/ QuarantineRemove(s)
  \/ QuarantineFails(s)
  \/ QuarantineInsert(s)

OperatorStep(o) ==
  \/ \E id \in DOMAIN row : RestoreBegin(o, id) \/ DeleteBegin(o, id)
  \/ RestoreFindsStored(o)
  \/ RestoreFindsVacant(o)
  \/ RestoreRename(o)
  \/ RestoreCopy(o)
  \/ RestoreRemove(o)
  \/ RestoreFails(o)
  \/ RestoreMark(o)
  \/ DeleteRemove(o)
  \/ DeleteFails(o)
  \/ DeleteRow(o)

Next ==
  \/ \E s \in Scanner : ScannerStep(s)
  \/ \E o \in Operator : OperatorStep(o)
  \/ \E p \in Path, c \in Slot : Outside(p, c)
  \/ \E S \in SUBSET Scanner, O \in SUBSET Operator :
       StatementThrows(S, O) \/ Crash(S, O)

Spec == Init /\ [][Next]_vars

-----------------------------------------------------------------------------
(* Properties                                                              *)

\* A scanner has put a file under this name and has yet to insert its row.
Recording(n) == \E s \in Scanner : /\ scan[s].pc \in {"remove", "insert"}
                                   /\ scan[s].name = n

\* An operator has taken the row's file away and has yet to close the row.
Closing(id) == \E o \in Operator : /\ op[o].pc \in {"r_mark", "d_row"}
                                   /\ op[o].id = id

\* Every file in the quarantine directory can be found by the user: an
\* unrestored row names it, or a scanner is about to insert that row. The
\* order "move, then insert" in Quarantine() and "move, then mark" in
\* Restore(), with any number of threads on the same name, must keep this.
\* It is what "a failure is reported, not thrown" comes to: a file that left
\* its place and has no row is a failure nobody was told of.
EveryFileRecorded ==
  \A n \in Name : store[n] # NoFile =>
    Recording(n) \/ \E id \in DOMAIN row : Active(id) /\ row[id].name = n

\* The inductive form: the row that names the file is not about to be closed,
\* ids are never reused, and an operator's copy of a row agrees with the row.
Listed(n) == \E id \in DOMAIN row : /\ Active(id)
                                    /\ row[id].name = n
                                    /\ ~Closing(id)

FilesCovered == \A n \in Name : store[n] # NoFile => Recording(n) \/ Listed(n)

CopiesAgree ==
  \A o \in Operator : op[o] # Idle =>
    /\ op[o].id < nextId
    /\ op[o].id \in DOMAIN row => row[op[o].id].name = op[o].rec.name

Covered == FilesCovered /\ CopiesAgree

\* Nothing cuts Quarantine() short after its move.
Uninterrupted == may \cap {"removeFails", "dbFails", "crash"} = {}

\* EveryFileRecorded wherever nothing cuts Quarantine() short after its move:
\* equal contents, changing paths, racing threads, failing hashes and the
\* copying fallback do not matter.
RecordedUnlessCut == Uninterrupted => EveryFileRecorded

RecordedInv == Uninterrupted => Covered

\* The inductive invariant of the whole store: ids are given once, copies agree
\* with their rows, and every file is recorded or about to be.
QuarantineInv == TypeOK /\ RecordedInv

\* Quarantine is reversible: an unrestored row's file holds the very content
\* that was moved, until an operation on that same row takes it away. No
\* operation on another row, and no other quarantine, may touch it.
Reversible ==
  \A id \in DOMAIN row :
    Active(id) /\ ~Closing(id) => store[row[id].name] = row[id].holds

\* Contents differ, hashing works, no two threads are on one path, and nothing
\* is cut short. (The copying fallback, restores, deletes and several scanners
\* at once remain.)
OneByOne == may \subseteq {"fallback"}

\* Reversible where nothing disturbs the store.
ReversibleOneByOne == OneByOne => Reversible

VacantWhenMoved(o) ==
  op[o].pc = "r_move" /\ op'[o].pc \in {"r_mark", "r_remove"}
    => file[op[o].rec.orig] = NoFile

\* Restore() never overwrites: when it moves a file back, nothing is there, if
\* nobody else touches the original path between the look at it and the move.
RestoreOverwritesOnlyInRace ==
  [][may \cap {"rewrite", "overlap"} = {}
       => \A o \in Operator : VacantWhenMoved(o)]_vars

\* A step of a scanner leaves every content in the file system or in the
\* quarantine directory.
ScannersLoseNothing ==
  (\E s \in Scanner : scan'[s] # scan[s]) => Present \ {NoFile} \subseteq Present'

\* An operator has copied the row's file back and has yet to remove the one in the store.
Returned(id) == \E o \in Operator : op[o].pc = "r_remove" /\ op[o].id = id

\* What the user has in quarantine: the files whose rows are about to be inserted, and
\* those of the rows that nobody has returned or closed.
Kept ==
  {[what |-> scan[s].took, from |-> scan[s].path] :
     s \in {t \in Scanner : scan[t].pc = "insert"}}
  \cup
  {[what |-> row[id].holds, from |-> row[id].orig] :
     id \in {i \in DOMAIN row : Active(i) /\ ~Closing(i) /\ ~Returned(i)}}

\* The abstract store: taking and returning are single steps there, while here they are
\* a rename, or a copy and a remove, and a statement.
V == INSTANCE Vault WITH kept <- Kept

\* Quarantine() never deletes outright where nothing disturbs the store: equal names
\* then mean equal contents, and no operator's remove falls between a copy and its
\* remove. Every step of the three operations is one step of a vault, or none: a file
\* is taken and kept, returned to its own place if that is safe and vacant, or
\* destroyed, by an operator on its row.
LosesNothingOneByOne == [][OneByOne => ScannersLoseNothing /\ [V!Next]_(V!vars)]_vars
=============================================================================
