---------------------------- MODULE FileVerdicts ----------------------------
(***************************************************************************)
(* What the scanners say of one file (src/src/static_scan, pe_analyzer,    *)
(* amsi_provider and ScanOneFile and EvaluateForBlock of the engine).      *)
(*                                                                         *)
(* A file is a record of what the scanners can tell of it: its size in MB  *)
(* and whether the headers are those of an executable; its sections, each  *)
(* with a name, its entropy in tenths and whether it lies within the file; *)
(* the functions it imports by name that some rule asks for, and how many  *)
(* `others'; whether Windows finds a signature in the file or in a         *)
(* catalog; the directory it is in; its hash, NoHash when it cannot be     *)
(* read; and the YARA rules it matches, with the severity they declare.    *)
(*                                                                         *)
(* The database is a record of the hashes on the two manual lists and of   *)
(* the severity `known' for each hash with a signature.                    *)
(***************************************************************************)
EXTENDS Severities, Integers, Sequences, FiniteSets, FiniteSetsExt, Functions

NoHash == "no hash"

FileFacts ==
  [size : Nat, executable : BOOLEAN, imports : SUBSET STRING, others : Nat,
   sections : Seq([name : STRING, entropy : Nat, inside : BOOLEAN]),
   embedded : BOOLEAN, catalogued : BOOLEAN, directory : STRING, hash : STRING,
   matches : SUBSET [file : STRING, meta : STRING]]

When(fires, severity) == IF fires THEN severity ELSE None
Worst(severities) == Max({None} \cup severities)

-----------------------------------------------------------------------------
(* Signatures by hash, and YARA rules                                      *)

IsHashWhitelisted(hash, db) == hash \in db.white
IsHashBlacklisted(hash, db) == hash \in db.black

CheckHashSignature(f, db) ==
  IF f.hash = NoHash \/ IsHashWhitelisted(f.hash, db) THEN None
  ELSE IF f.hash \in DOMAIN db.known THEN db.known[f.hash]
  ELSE When(IsHashBlacklisted(f.hash, db), Malicious)

SeverityFromRule(meta) ==
  CASE meta = "malicious" -> Malicious
    [] meta = "info" -> Info
    [] OTHER -> Suspicious

\* A rule file that does not compile is left out, as is what is no rule file.
LoadRules(files) == {r.name : r \in {x \in files : x.extension = ".yar" /\ x.compiles}}

YaraSeverities(f, rules) ==
  {SeverityFromRule(m.meta) : m \in {x \in f.matches : x.file \in LoadRules(rules)}}

\* A stream larger than 16 MB is not looked at.
AmsiScan(f, rules) ==
  When(f.size <= 16 /\ Malicious \in YaraSeverities(f, rules), Malicious)

-----------------------------------------------------------------------------
(* Executables                                                             *)

IsAuthenticodeSigned(f) == f.embedded \/ f.catalogued

\* What AnalyzeFile refuses it says nothing about.
IsAnalyzed(f) == f.executable /\ f.size \in 1..64 /\ Len(f.sections) \in 1..96

PackerSection == {"upx0", "upx1", "upx2", ".aspack", ".adata", ".petite",
                  "fsg!", "mew", ".perplex"}
PackerSectionHits(f) == {s.name : s \in Range(f.sections)} \cap PackerSection

\* Sections that reach beyond the end of the file do not count.
MaxSectionEntropy(f) == Max({0} \cup {s.entropy : s \in {x \in Range(f.sections) : x.inside}})

WritableDir == {"%TEMP%", "%TMP%", "%APPDATA%", "%LOCALAPPDATA%", "Downloads"}
IsUnderUserWritableDir(f) == f.directory \in WritableDir

TotalImports(f) == Cardinality(f.imports) + f.others

AnyOf(f, names) == f.imports \cap names /= {}
AllOf(f, names) == names \subseteq f.imports

HasAlloc(f) == AnyOf(f, {"VirtualAlloc", "VirtualAllocEx"})

InjectionCombo(f) ==
  /\ HasAlloc(f) /\ AllOf(f, {"WriteProcessMemory"})
  /\ AnyOf(f, {"CreateRemoteThread", "CreateRemoteThreadEx"})

NtInjectionCombo(f) ==
  /\ AnyOf(f, {"NtCreateThreadEx", "RtlCreateUserThread"})
  /\ \/ HasAlloc(f)
     \/ AnyOf(f, {"NtAllocateVirtualMemory", "NtWriteVirtualMemory"})

MinimalImportLoader(f) ==
  /\ AllOf(f, {"VirtualProtect", "CreateThread"})
  /\ ~AnyOf(f, {"OpenProcess", "TerminateProcess", "OpenSCManagerA",
              "OpenSCManagerW", "RegOpenKeyExA", "RegOpenKeyExW"})
  /\ TotalImports(f) < 20

HollowingCombo(f) ==
  /\ AnyOf(f, {"NtUnmapViewOfSection", "ZwUnmapViewOfSection"})
  /\ AnyOf(f, {"CreateProcessA", "CreateProcessW", "CreateProcessInternalA",
             "CreateProcessInternalW"})
  /\ AllOf(f, {"WriteProcessMemory", "SetThreadContext", "ResumeThread"})

SuspiciousApi ==
  {"VirtualAlloc", "VirtualAllocEx", "VirtualProtect", "VirtualProtectEx",
   "WriteProcessMemory", "ReadProcessMemory", "CreateRemoteThread",
   "CreateRemoteThreadEx", "NtCreateThreadEx", "RtlCreateUserThread",
   "NtAllocateVirtualMemory", "NtWriteVirtualMemory", "NtUnmapViewOfSection",
   "GetProcAddress", "LoadLibraryA", "LoadLibraryW", "LoadLibraryExA",
   "LoadLibraryExW", "SetWindowsHookExA", "SetWindowsHookExW", "OpenProcess",
   "MiniDumpWriteDump", "WinHttpOpen", "WinExec"}

\* Variant: a file exactly at the higher threshold falls between the two.
ManySuspiciousImports_Gap(f) ==
  LET count == Cardinality(f.imports \cap SuspiciousApi)
  IN  IF count > 8 THEN Malicious ELSE When(count \in 5..7, Suspicious)

ManySuspiciousImports(f) ==
  LET count == Cardinality(f.imports \cap SuspiciousApi)
  IN  IF count >= 8 THEN Malicious ELSE When(count >= 5, Suspicious)

PackedNoImports(f) == MaxSectionEntropy(f) > 70 /\ TotalImports(f) < 3

\* The verdicts that more imports can take back.
FewImportsVerdict(f) ==
  When(IsAnalyzed(f) /\ (MinimalImportLoader(f) \/ PackedNoImports(f)), Malicious)

LastingSeverities(f) ==
  {When(PackerSectionHits(f) /= {}, Suspicious),
   When(MaxSectionEntropy(f) > 72, Suspicious),
   When(InjectionCombo(f), Malicious),
   When(NtInjectionCombo(f), Malicious),
   When(HollowingCombo(f), Malicious),
   ManySuspiciousImports(f),
   When(~IsAuthenticodeSigned(f) /\ IsUnderUserWritableDir(f), Suspicious)}

ToDetectionEvents(f) ==
  IF IsAnalyzed(f) THEN LastingSeverities(f) \cup {FewImportsVerdict(f)} ELSE {}

-----------------------------------------------------------------------------
(* The engine's two judgements of a file                                   *)

\* ScanOneFile quarantines on the first detection that is suspicious or worse.
ScanSeverities(f, db, rules) ==
  {CheckHashSignature(f, db)} \cup YaraSeverities(f, rules) \cup ToDetectionEvents(f)

Quarantines(f, db, rules) == Worst(ScanSeverities(f, db, rules)) >= Suspicious

\* Variant: the manual blacklist is asked whatever the whitelist says.
EvaluateForBlock_ListOnly(f, db, rules) ==
  f.hash \in db.black \/ Malicious \in YaraSeverities(f, rules)

\* The open of the file is denied.
EvaluateForBlock(f, db, rules) ==
  Malicious \in {CheckHashSignature(f, db)} \cup YaraSeverities(f, rules)
=============================================================================
