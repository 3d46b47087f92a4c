--------------------------- MODULE MCSystemScans ---------------------------
(***************************************************************************)
(* Two programs: an agent that a task and a quoted service start, and one  *)
(* whose path has a space, which a service names without quotes and a      *)
(* driver with. The agent is packed with few imports and known to a rule   *)
(* only an AMSI provider has, or too large to be analysed; the other is    *)
(* signed, known to a rule of the engine and has a suspicious hash.        *)
(***************************************************************************)
EXTENDS SystemScans, TLC

Text == [name |-> ".text", entropy |-> 71, inside |-> TRUE]
Packed == [size |-> 1, executable |-> TRUE, imports |-> {}, others |-> 2,
           sections |-> <<Text, [Text EXCEPT !.name = "upx", !.entropy = 80, !.inside = FALSE]>>,
           embedded |-> FALSE, catalogued |-> FALSE, directory |-> "c:\\tools",
           hash |-> "h", matches |-> {[file |-> "own", meta |-> "malicious"]}]
Matched == [Packed EXCEPT !.sections = <<[Text EXCEPT !.entropy = 60]>>, !.others = 30,
                          !.catalogued = TRUE, !.hash = "g",
                          !.matches = {[file |-> "base", meta |-> "malicious"]}]
Opaque == [Packed EXCEPT !.hash = NoHash, !.size = 100,
                         !.matches = {[file |-> "base", meta |-> "info"],
                                      [file |-> "broken", meta |-> "malicious"]}]

MCRules == {[name |-> "base", extension |-> ".yar", compiles |-> TRUE],
            [name |-> "broken", extension |-> ".yar", compiles |-> FALSE]}
MCProvided == {MCRules, {}, {[name |-> "own", extension |-> ".yar", compiles |-> TRUE]}}

Agent == <<"c:\\tools\\agent.exe">>
Spaced == <<"c:\\my", "tools\\svc.exe">>
Trusted == <<"c:\\program", "files\\app.exe">>

MCProgram == {Agent, Spaced}
MCBuilt == {Agent}
MCSample == (Agent :> {Packed, Opaque}) @@ (Spaced :> {Matched})
MCLibrary ==
  {{"VirtualProtect", "CreateThread"},
   {"GetProcAddress", "LoadLibraryW", "OpenProcess", "ReadProcessMemory"},
   {"VirtualAlloc", "WriteProcessMemory", "WinExec"},
   {"NtCreateThreadEx", "NtUnmapViewOfSection", "CreateProcessW",
    "SetThreadContext", "ResumeThread"}}

Line(words, quoted) == [words |-> words, quoted |-> quoted, nested |-> FALSE]

MCTask == <<<<Line(Agent, 0), Line(<<>>, 0), Line(Spaced, 0)>>,
            <<Line(Trusted, 0), [Line(<<"<x>">>, 0) EXCEPT !.nested = TRUE]>>>>
MCService ==
  <<[line |-> Line(Agent \o <<"-k">>, 1), win32 |-> TRUE],
    [line |-> Line(Spaced, 1), win32 |-> FALSE],
    [line |-> Line(Spaced \o <<"-k">>, 0), win32 |-> TRUE]>>

Region(size) == [size |-> size, private |-> TRUE, executable |-> TRUE, guarded |-> FALSE]
MCProcess ==
  <<[name |-> "app.exe", opens |-> TRUE, own |-> FALSE,
     map |-> <<Region(1), Region(0), Region(1)>>],
    [name |-> "svchost.exe", opens |-> TRUE, own |-> FALSE, map |-> <<Region(1)>>]>>
MCKnown == "g" :> Suspicious
MCElsewhere == {[white |-> {"h"}, black |-> {"h"}, known |-> <<>>]}

Value(chars, type, line) == [chars |-> chars, type |-> type, line |-> line]
MCAutorun ==
  <<[holds |-> "values", opens |-> TRUE,
     values |-> <<Value(1, "REG_DWORD", Line(Agent, 0)),
                  Value(255, "REG_SZ", Line(Agent \o <<",">>, 0)),
                  Value(256, "REG_SZ", Line(Agent, 0))>>],
    [holds |-> "value", opens |-> FALSE, values |-> <<Value(1, "REG_SZ", Line(Agent, 0))>>]>>
=============================================================================
