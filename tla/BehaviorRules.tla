---------------------------- MODULE BehaviorRules ----------------------------
(***************************************************************************)
(* The behaviour rules (src/src/behavior_engine/src/rules): what each of   *)
(* the 31 rules of RuleEngine::WithDefaultRules says of a process that has *)
(* just started.                                                           *)
(*                                                                         *)
(* An event is a record: `bin' is the lower-case base name of the image,   *)
(* `cmd' the set of fragments its command line is made of, `parent' the    *)
(* base name of the parent's image or NoParent, `writable' tells whether   *)
(* the image lies in a directory users write to, `signed' what the         *)
(* signature check says of it. A rule answers with a severity, None when   *)
(* it does not fire. What a detection says in words is left out.           *)
(*                                                                         *)
(* A table is a sequence of lines <<binaries, arguments, severity>>; a     *)
(* line stands for consecutive entries of the source's table which have    *)
(* one severity. Where all of a table has, the order is immaterial.        *)
(***************************************************************************)
EXTENDS Severities, Integers, Sequences, FiniteSets, FiniteSetsExt

NoParent == ""   \* the tree does not know the parent
Unnamed == {""}      \* the binaries or the arguments of an entry that names none

(***************************************************************************)
(* std::string::find: does s contain t? An argument is in a command line   *)
(* when it is in one of its fragments.                                     *)
(***************************************************************************)
Includes(s, t) ==
  \E i \in 0 .. Len(s) - Len(t) : SubSeq(s, i + 1, i + Len(t)) = t

Has(e, args) == args = Unnamed \/ \E f \in e.cmd, a \in args : Includes(f, a)

Matches(line, e) ==
  (line[1] = Unnamed \/ e.bin \in line[1]) /\ Has(e, line[2])

\* The loop of MatchCommandPatterns and of every rule with a table of its own:
\* the first entry that matches decides.
FirstMatch(table, e) ==
  LET hits == {i \in DOMAIN table : Matches(table[i], e)}
  IN  IF hits = {} THEN None ELSE table[Min(hits)][3]

Says(severity, condition) == IF condition THEN severity ELSE None

PowerShell == {"powershell.exe", "pwsh.exe"}
WindowsPS == {"powershell.exe"}

-----------------------------------------------------------------------------
(* Rules about the image and its parent                                    *)

TempAppDataSpawn(e) ==
  Says(Suspicious,
       /\ e.writable
       /\ e.parent \notin {"msiexec.exe", "tiworker.exe", "googleupdate.exe",
                           "microsoftedgeupdate.exe"})

UnsignedTempExec(e) == Says(Suspicious, e.writable /\ ~e.signed)

SuspiciousParentChild(e) ==
  Says(Malicious,
       /\ e.bin \in {"cmd.exe", "powershell.exe", "wscript.exe", "mshta.exe",
                     "rundll32.exe"}
       /\ e.parent \in {"winword.exe", "excel.exe", "powerpnt.exe", "outlook.exe"})

MacroMalware(e) ==
  Says(Malicious,
       /\ e.bin \in PowerShell \cup
            {"cmd.exe", "wscript.exe", "cscript.exe", "mshta.exe", "rundll32.exe",
             "regsvr32.exe", "certutil.exe", "bitsadmin.exe", "curl.exe",
             "msbuild.exe"}
       /\ e.parent \in {"winword.exe", "excel.exe", "powerpnt.exe", "outlook.exe",
                        "msaccess.exe", "mspub.exe", "onenote.exe"})

IsShellOrScriptHost(name) ==
  name \in PowerShell \cup {"cmd.exe", "wscript.exe", "cscript.exe", "mshta.exe",
                            "wmic.exe", "rundll32.exe", "regsvr32.exe"}

-----------------------------------------------------------------------------
(* Tables of the rules in avbehavior::rules                                *)

LolbinTable == <<
  <<{"certutil.exe"}, {"-decode", "-decodehex", "-urlcache", "-verifyctl"}, Malicious>>,
  <<{"certutil.exe"}, {"-encode"}, Suspicious>>,
  <<{"regsvr32.exe"}, {"/i:http", "/i:ftp", "scrobj.dll", "/u /i:"}, Malicious>>,
  <<{"rundll32.exe"}, {"javascript:", "vbscript:", "comsvcs.dll",
                       "url.dll,openurl"}, Malicious>>,
  <<{"rundll32.exe"}, {"pcwutl.dll", "zipfldr.dll"}, Suspicious>>,
  <<{"mshta.exe"}, {"http://", "https://", "ftp://", "vbscript:",
                    "javascript:"}, Malicious>>,
  <<{"bitsadmin.exe"}, {"/transfer", "/setnotifycmdline"}, Malicious>>,
  <<{"bitsadmin.exe"}, {"/addfile"}, Suspicious>>,
  <<{"msiexec.exe"}, {"http://", "https://", "/i ftp://"}, Malicious>>,
  <<{"msiexec.exe"}, {"/q"}, Suspicious>>,
  <<{"cmstp.exe"}, {"/s", "/ni"}, Malicious>>,
  <<{"wmic.exe"}, {"process call create"}, Suspicious>>,
  <<{"wmic.exe"}, {"/format:http", ".xsl"}, Malicious>>,
  <<{"odbcconf.exe"}, {"/a {regsvr"}, Malicious>>,
  <<{"odbcconf.exe"}, {"regsvr"}, Suspicious>>,
  <<{"pcalua.exe"}, {"-a"}, Suspicious>>,
  <<{"expand.exe"}, {"http://"}, Malicious>>,
  <<{"findstr.exe"}, {"\\\\"}, Suspicious>>,
  <<{"esentutl.exe"}, {"/y", "/cp"}, Suspicious>>,
  <<{"diskshadow.exe"}, {"/s"}, Suspicious>>,
  <<{"replace.exe"}, {"/a"}, Suspicious>>,
  <<{"print.exe"}, {"/d:"}, Suspicious>>,
  <<{"regasm.exe", "regsvcs.exe"}, {".dll"}, Suspicious>> >>

ShadowTable == <<
  <<{"vssadmin.exe"}, {"delete shadows", "resize shadowstorage"}, Malicious>>,
  <<{"wmic.exe"}, {"shadowcopy delete", "shadowcopy where"}, Malicious>>,
  <<{"bcdedit.exe"}, {"recoveryenabled no", "/set {default} no"}, Malicious>>,
  <<{"bcdedit.exe"}, {"safeboot"}, Suspicious>>,
  <<{"wbadmin.exe"}, {"delete catalog", "delete systemstatebackup"}, Malicious>>,
  <<WindowsPS, {"get-wmiobject win32_shadowcopy"}, Suspicious>>,
  <<{"pwsh.exe"}, {"shadowcopy"}, Suspicious>> >>

CredentialAccessTable == <<
  <<{"procdump.exe", "procdump64.exe"}, {"lsass"}, Malicious>>,
  <<{"rundll32.exe"}, {"comsvcs", "minidump"}, Malicious>>,
  <<{"reg.exe"}, {"save hklm\\sam", "save hklm\\system", "save hklm\\security"},
    Malicious>>,
  <<WindowsPS, {"sekurlsa", "invoke-mimikatz", "out-minidump", "dcsync"}, Malicious>>,
  <<{"ntdsutil.exe"}, {"ac i ntds", "ifm"}, Malicious>>,
  <<{"wce.exe", "pwdump.exe", "pwdump7.exe", "fgdump.exe", "lazagne.exe"}, Unnamed,
    Malicious>> >>

LateralMovementTable == <<
  <<{"psexec.exe", "psexec64.exe", "at.exe"}, {"\\\\"}, Suspicious>>,
  <<{"psexesvc.exe"}, Unnamed, Suspicious>>,
  <<{"wmic.exe"}, {"/node:"}, Suspicious>>,
  <<{"winrs.exe"}, {"-r:", "/r:"}, Suspicious>>,
  <<WindowsPS, {"invoke-command", "new-pssession", "enter-pssession"}, Suspicious>>,
  <<{"pwsh.exe"}, {"invoke-command"}, Suspicious>>,
  <<{"schtasks.exe"}, {"/s "}, Suspicious>>,
  <<{"net.exe"}, {"\\admin$", "\\ipc$", "\\c$"}, Suspicious>>,
  <<{"wmiexec.py", "smbexec.py", "atexec.py", "dcomexec.py", "crackmapexec.exe",
     "evil-winrm.exe"}, Unnamed, Malicious>> >>

RegistryTable == <<
  <<{"reg.exe"},
    {"hkcu\\software\\microsoft\\windows\\currentversion\\run",
     "hklm\\software\\microsoft\\windows\\currentversion\\run",
     "hkcu\\software\\microsoft\\windows\\currentversion\\runonce",
     "hklm\\software\\microsoft\\windows\\currentversion\\runonce"}, Suspicious>>,
  <<{"reg.exe"}, {"winlogon", "appinit_dlls", "image file execution options"},
    Malicious>>,
  <<WindowsPS, {"currentversion\\run"}, Suspicious>>,
  <<WindowsPS, {"appinit_dlls", "image file execution options"}, Malicious>>,
  <<{"pwsh.exe"}, {"currentversion\\run"}, Suspicious>> >>

WmiTable == <<
  <<{"wmic.exe"}, {"process call create", "eventsub", "eventfilter",
                   "commandlineeventconsumer", "activescripteventconsumer",
                   "/format:http", ".xsl"}, Suspicious>>,
  <<{"cmd.exe"}, {"wmiprvse"}, Suspicious>>,
  <<WindowsPS, {"invoke-wmimethod", "[wmiclass]"}, Suspicious>>,
  <<{"pwsh.exe"}, {"invoke-wmimethod"}, Suspicious>> >>

ScheduledTaskTable == <<
  <<{"schtasks.exe"}, {"/create", "/change", "/xml"}, Suspicious>>,
  <<{"at.exe"}, Unnamed, Suspicious>>,
  <<WindowsPS, {"register-scheduledtask", "new-scheduledtask",
                "new-scheduledtaskaction"}, Suspicious>>,
  <<{"pwsh.exe"}, {"register-scheduledtask"}, Suspicious>> >>

ServiceTable == <<
  <<{"sc.exe"}, {"create", "config"}, Suspicious>>,
  <<{"reg.exe"}, {"currentcontrolset\\services"}, Suspicious>>,
  <<WindowsPS, {"new-service", "set-service"}, Suspicious>>,
  <<{"pwsh.exe"}, {"new-service"}, Suspicious>>,
  <<{"installutil.exe"}, Unnamed, Suspicious>>,
  <<{"regsvr32.exe"}, {"/s"}, Suspicious>> >>

RansomIndicatorTable == <<
  <<{"cipher.exe"}, {"/w:", " /w "}, Malicious>>,
  <<WindowsPS, {"rename-item", "[system.io.file]::move"}, Malicious>>,
  <<{"format.com", "lockbit.exe", "ryuk.exe", "conti.exe", "revil.exe",
     "blackcat.exe", "blackmatter.exe", "clop.exe"}, Unnamed, Malicious>>,
  <<{"fsutil.exe"}, {"usn deletejournal", "behavior set disablelastaccess"},
    Malicious>> >>

EvasionTable == <<
  <<{"wevtutil.exe"}, {"cl ", "clear-log", "sl "}, Malicious>>,
  <<WindowsPS, {"clear-eventlog", "limit-eventlog"}, Malicious>>,
  <<{"netsh.exe"}, {"firewall set opmode disable",
                    "advfirewall set allprofiles state off"}, Malicious>>,
  <<{"netsh.exe"}, {"firewall add allowedprogram"}, Suspicious>>,
  <<WindowsPS, {"set-mppreference -disablerealtimemonitoring",
                "add-mppreference -exclusionpath",
                "set-mppreference -disablebehaviormonitoring"}, Malicious>>,
  <<{"icacls.exe"}, {"/grant everyone", "/remove"}, Suspicious>>,
  <<{"cacls.exe"}, {"/e /p everyone"}, Suspicious>>,
  <<{"attrib.exe"}, {"+s +h", "-r"}, Suspicious>>,
  <<WindowsPS, {"[system.io.file]::setlastwritetime",
                "[system.io.file]::setcreationtime",
                "[system.io.file]::setlastaccesstime"}, Malicious>> >>

RansomwareFileTable == <<
  <<{"vssadmin.exe"}, {"delete shadows"}, Malicious>>,
  <<{"wmic.exe"}, {"shadowcopy delete"}, Malicious>>,
  <<{"bcdedit.exe"}, {"recoveryenabled no"}, Malicious>>,
  <<{"wbadmin.exe"}, {"delete catalog"}, Malicious>> >>

LateralIndicatorTable == <<
  <<{"sc.exe"}, {"\\\\"}, Suspicious>>,
  <<{"psexec.exe", "psexec64.exe"}, Unnamed, Suspicious>>,
  <<{"wmic.exe"}, {"/node:", "process call create"}, Suspicious>> >>

CredentialPatternTable == <<
  <<{"procdump.exe", "procdump64.exe"}, {"lsass"}, Malicious>>,
  <<{"rundll32.exe"}, {"comsvcs"}, Malicious>>,
  <<{"mimikatz.exe"}, Unnamed, Malicious>> >>

ObfuscationTable == <<
  <<WindowsPS, {"frombase64", "-enc"}, Suspicious>>,
  <<{"mshta.exe"}, {"javascript:"}, Suspicious>> >>

AmsiEtwArgs ==
  {"amsiscanb", "amsiutils", "amsicontext", "amsiinitialisebuffer",
   "amsiopenssession",
   "[ref].assembly.gettype('system.management.automation.amsiutils')",
   "etwventwrite", "etweventwrite", "nttracecontrol", "getdelegateforfunction",
   "virtualprotect", "marshal]::writebyte", "marshal]::copy", "disableamsi",
   "bypassamsi", "setamsicontext", "patch-amsi",
   "system.management.automation.utils", "cachedgrouppolicysettings"}

AmsiEtwTable == <<
  <<PowerShell \cup {"csc.exe", "msbuild.exe", "installutil.exe"}, AmsiEtwArgs,
    Malicious>> >>

\* fodhelper.exe is judged by who starts it, everything else by the table.
DefenseEvasion(e) ==
  IF e.bin = "fodhelper.exe"
    THEN Says(Malicious, IsShellOrScriptHost(e.parent))
    ELSE FirstMatch(EvasionTable, e)

\* One name stands for the hundred names of security products in kAvTargets.
AvTarget == {"msmpeng.exe"}

AvKillerChild(e) ==
  Says(Malicious,
       /\ \/ e.bin = "sc.exe" /\ Has(e, {"stop", "delete", "config"})
          \/ e.bin \in {"net.exe", "net1.exe"} /\ Has(e, {"stop"})
          \/ e.bin = "taskkill.exe" /\ Has(e, {"/im", "/pid"})
          \/ e.bin \in PowerShell /\ Has(e, {"stop-service", "stop-process"})
       /\ Has(e, AvTarget))

-----------------------------------------------------------------------------
(* Rules that add up indicators                                            *)

\* Patterns of RulePowerShellObfuscation by category, with its weight. (The name
\* iex written with back-ticks has no place in a TLA+ string.)
PsCategories == {
  <<{"-executionpolicy bypass", "-ep bypass", "-windowstyle hidden", "-w hidden",
     "-noprofile", "-nop ", "-noninteractive"}, 1>>,
  <<{"-encodedcommand", "-enc "}, 3>>,
  <<{"invoke-webrequest", "iwr ", "(new-object net.webclient)", "downloadstring(",
     "downloadfile(", "start-bitstransfer"}, 2>>,
  <<{"[reflection.assembly]::load", "[system.reflection.assembly]::load",
     "::loadfrom(", "::loadfile("}, 3>>,
  <<{"amsiutils", "amsiscanbuffer"}, 3>>,
  <<{"invoke-expression", "iex("}, 2>>,
  <<{"backticked-iex"}, 1>>,
  <<{"virtualalloc", "createthread"}, 3>> }

\* Variant: one point is reported.
NoiseFloor_One == 1

\* The smallest score that is reported.
NoiseFloor == 3

\* Variant: every hit toggles its category.
MatchedCategories_Toggled(e) ==
  {c \in PsCategories :
     Cardinality({p \in c[1] : Has(e, {p})}) % 2 = 1}

\* Several hits in a category count once.
MatchedCategories(e) == {c \in PsCategories : Has(e, c[1])}

\* A category of weight w has w points.
PowerShellObfuscation(e) ==
  LET matched == MatchedCategories(e)
      score == Cardinality({p \in matched \X (1..3) : p[2] <= p[1][2]})
      strong == \E c \in matched : c[2] >= 3
  IN  IF e.bin \notin PowerShell \/ score < NoiseFloor THEN None
      ELSE IF \/ score >= 5
              \/ strong /\ Cardinality(matched) >= 2
              \/ Cardinality(matched) >= 3 THEN Malicious ELSE Suspicious

MinerBinaries ==
  {"xmrig", "smrig", "xmr-stak", "xmrstak", "cpuminer", "cpuminer-multi", "ccminer",
   "nbminer", "phoenixminer", "lolminer", "t-rex", "trex", "nanominer",
   "srbminer-multi", "teamredminer", "minerd"}

HardIndicators == {"stratum+tcp://", "stratum+ssl://", "--donate-level",
                   "--cpu-max-threads-hint", "--randomx", "--coin "}
PoolDomains == {"minexmr", "supportxmr", "moneroocean", "nanopool.org", "hashvault",
                "monerohash", "2miners.com", "xmrpool", "pool.hashvault"}
SoftFlags == {"--rig-id", "--nicehash", "--algo=rx", "randomx"}

Cryptominer(e) ==
  LET hints == {h \in {"binary", "pool", "flag"} :
                  CASE h = "binary" -> \E m \in MinerBinaries : e.bin \in {m, m \o ".exe"}
                    [] h = "pool"   -> Has(e, PoolDomains)
                    [] h = "flag"   -> Has(e, SoftFlags)}
  IN  IF Has(e, HardIndicators) \/ Cardinality(hints) >= 2 THEN Malicious
      ELSE Says(Suspicious, hints # {})

-----------------------------------------------------------------------------
(* Tables of the rules that use MatchCommandPatterns                       *)

RansomwareTable == <<
  <<{"vssadmin.exe"}, {"resize shadowstorage"}, Malicious>>,
  <<{"wbadmin.exe"}, {"delete systemstatebackup"}, Malicious>>,
  <<{"bcdedit.exe"}, {"bootstatuspolicy ignoreallfailures"}, Malicious>>,
  <<{"schtasks.exe"}, {"/change /tn \"\\microsoft\\windows\\systemrestore"}, Malicious>>,
  <<{"wannacry.exe", "petya.exe", "maze.exe", "sodinokibi.exe", "darkside.exe",
     "akira.exe", "hive.exe"}, Unnamed, Malicious>> >>

InjectionTable == <<
  <<{"mavinject.exe"}, {"/injectrunning"}, Malicious>>,
  <<PowerShell, {"writeprocessmemory", "createremotethread", "virtualallocex"}, Malicious>>,
  <<WindowsPS, {"ntmapviewofsection", "queueuserapc"}, Malicious>> >>

CredentialTheftTable == <<
  <<{"rubeus.exe", "secretsdump.py", "kerbrute.exe"}, Unnamed, Malicious>>,
  <<{"vaultcmd.exe"}, {"/listcreds"}, Suspicious>>,
  <<WindowsPS, {"\\google\\chrome\\user data\\", "\\microsoft\\edge\\user data\\",
                "logins.json"}, Suspicious>> >>

WormTable == <<
  <<{"xcopy.exe", "robocopy.exe"}, {"\\admin$"}, Suspicious>>,
  <<{"xcopy.exe"}, {"\\c$\\"}, Suspicious>>,
  <<Unnamed, {"autorun.inf"}, Suspicious>> >>

\* Variant: the generic entries come first.
RootkitTable_Swapped == <<
  <<{"sc.exe"}, {"type= kernel", "type=kernel"}, Suspicious>>,
  <<{"fltmc.exe"}, {"load"}, Suspicious>>,
  <<{"drvload.exe"}, Unnamed, Suspicious>>,
  <<Unnamed, {"rtcore64.sys", "dbutil_2_3.sys", "gdrv.sys", "winring0x64.sys",
          "procexp152.sys"}, Malicious>> >>

\* The drivers by name, before any service that is created for a driver.
RootkitTable == <<
  <<Unnamed, {"rtcore64.sys", "dbutil_2_3.sys", "gdrv.sys", "winring0x64.sys",
          "procexp152.sys"}, Malicious>>,
  <<{"sc.exe"}, {"type= kernel", "type=kernel"}, Suspicious>>,
  <<{"fltmc.exe"}, {"load"}, Suspicious>>,
  <<{"drvload.exe"}, Unnamed, Suspicious>> >>

KeyloggerTable == <<
  <<PowerShell, {"getasynckeystate", "setwindowshookex"}, Malicious>>,
  <<PowerShell, {"getkeyboardstate"}, Suspicious>> >>

ExfiltrationTable == <<
  <<{"curl.exe"}, {"--upload-file", "-t "}, Suspicious>>,
  <<WindowsPS, {"uploadfile(", "uploadstring(", "-method post"}, Suspicious>>,
  <<{"pwsh.exe"}, {"-method post"}, Suspicious>>,
  <<{"bitsadmin.exe"}, {"/upload"}, Suspicious>>,
  <<{"rclone.exe"}, Unnamed, Suspicious>> >>

C2Table == <<
  <<{"nc.exe", "ncat.exe", "nc64.exe"}, {"-e "}, Malicious>>,
  <<PowerShell, {"new-object system.net.sockets.tcpclient"}, Malicious>>,
  <<WindowsPS, {"new-object net.sockets.tcpclient"}, Malicious>>,
  <<{"beacon.exe"}, Unnamed, Malicious>>,
  <<{"chisel.exe"}, Unnamed, Suspicious>> >>

PersistenceTable == <<
  <<{"schtasks.exe"}, {"/create"}, Suspicious>>,
  <<{"sc.exe"}, {"create"}, Suspicious>>,
  <<PowerShell, {"new-scheduledtask"}, Suspicious>>,
  <<Unnamed, {"\\startup\\"}, Suspicious>>,
  <<WindowsPS, {"__eventfilter", "commandlineeventconsumer"}, Malicious>>,
  <<{"wmic.exe"}, {"__eventfilter"}, Malicious>> >>

-----------------------------------------------------------------------------
(* RuleEngine::WithDefaultRules                                            *)

\* The rules with a table, by identifier. Where two rules share one, the second
\* carries the file it is in.
Table ==
  [LOLBIN_SUSP_ARGS |-> LolbinTable, SHADOW_COPY_DELETE |-> ShadowTable,
   CREDENTIAL_ACCESS |-> CredentialAccessTable, LATERAL_MOVEMENT |-> LateralMovementTable,
   PERSISTENCE_REG_RUN |-> RegistryTable, WMI_EXECUTION |-> WmiTable,
   SCHTASK_ABUSE |-> ScheduledTaskTable, SERVICE_INSTALL |-> ServiceTable,
   AMSI_ETW_BYPASS |-> AmsiEtwTable, RANSOMWARE_INDICATOR |-> RansomIndicatorTable,
   RANSOMWARE_FILE_OPS |-> RansomwareFileTable,
   LATERAL_MOVEMENT_malware_behaviors |-> LateralIndicatorTable,
   CREDENTIAL_THEFT_malware_behaviors |-> CredentialPatternTable,
   COMMAND_OBFUSCATION |-> ObfuscationTable,
   RANSOMWARE |-> RansomwareTable, INJECTION |-> InjectionTable,
   CREDENTIAL_THEFT |-> CredentialTheftTable, WORM |-> WormTable,
   ROOTKIT |-> RootkitTable, KEYLOGGER |-> KeyloggerTable,
   EXFILTRATION |-> ExfiltrationTable, C2_BEACONING |-> C2Table,
   PERSISTENCE |-> PersistenceTable]

OtherRule == {"TEMP_APPDATA_SPAWN", "OFFICE_SPAWNS_SHELL", "UNSIGNED_TEMP_EXEC",
              "AV_KILLER_COMMAND", "PS_OBFUSCATION", "DEFENSE_EVASION",
              "CRYPTOMINER", "MACRO"}

Rule == DOMAIN Table \cup OtherRule

Evaluate(r, e) ==
  CASE r \in DOMAIN Table -> FirstMatch(Table[r], e)
    [] r = "TEMP_APPDATA_SPAWN" -> TempAppDataSpawn(e)
    [] r = "OFFICE_SPAWNS_SHELL" -> SuspiciousParentChild(e)
    [] r = "UNSIGNED_TEMP_EXEC" -> UnsignedTempExec(e)
    [] r = "AV_KILLER_COMMAND" -> AvKillerChild(e)
    [] r = "PS_OBFUSCATION" -> PowerShellObfuscation(e)
    [] r = "DEFENSE_EVASION" -> DefenseEvasion(e)
    [] r = "CRYPTOMINER" -> Cryptominer(e)
    [] r = "MACRO" -> MacroMalware(e)

\* The severities of the detections the rules raise for an event.
Severities(e) == {Evaluate(r, e) : r \in Rule} \ {None}
=============================================================================
