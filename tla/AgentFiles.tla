----------------------------- MODULE AgentFiles -----------------------------
(***************************************************************************)
(* `docs agent install` (cmds/docs/agent.go, agentskill): the skills and   *)
(* instructions azldev writes into a repository for coding agents, and the *)
(* two MCP configurations, which are the user's as well, that it registers *)
(* itself in.                                                              *)
(*                                                                         *)
(* An install renders every file first and then writes one after the       *)
(* other, in place: it may fail or be killed in between, and the next one  *)
(* may be of another version, mode or layout.  A text is what it is        *)
(* rendered from; texts of different modes may happen to be equal.         *)
(***************************************************************************)
EXTENDS Naturals, Sequences, FiniteSets

CONSTANTS
  Registry,      \* the names of the skills, in the order of emission
  Replacement,   \* withoutLockfileSkills: the names lock-file-free mode replaces
  Instructions,  \* the names of the instruction files, in the order of emission
  Points,        \* Points[i]: the skills instruction i names
  Versions,      \* Params: azldev's version, and the directories of the project
  Servers,       \* the other MCP servers a user may have configured
  MaxInstalls,   \* bound: the installs
  MaxEdits       \* bound: the edits of the user

Ran(s) == {s[i] : i \in DOMAIN s}

ASSUME AgentAssumption ==
  /\ Registry \in Seq(Ran(Registry)) /\ Instructions \in Seq(Ran(Instructions))
  /\ \A i, j \in DOMAIN Registry : Registry[i] = Registry[j] => i = j
  /\ \A i, j \in DOMAIN Instructions : Instructions[i] = Instructions[j] => i = j
  /\ DOMAIN Replacement \subseteq Ran(Registry)
  /\ \A s \in DOMAIN Replacement : Replacement[s] \in Ran(Registry) => Replacement[s] = s
  /\ \A s, t \in DOMAIN Replacement : Replacement[s] = Replacement[t] => s = t
  /\ DOMAIN Points = Ran(Instructions)
  /\ {MaxInstalls, MaxEdits} \subseteq Nat

VARIABLES
  files,    \* what is at each path of the repository
  install,  \* the install: its options, where it is, how it ended
  edits     \* the edits made

agentVars == <<files, install, edits>>

(* Catalog: the names of a mode's skills, and those its instructions name. *)
InMode(mode, s) == IF mode = "pins" /\ s \in DOMAIN Replacement THEN Replacement[s] ELSE s
Skills(mode) == [n \in DOMAIN Registry |-> InMode(mode, Registry[n])]
PointersOf(mode, i) == [n \in DOMAIN Points[i] |-> InMode(mode, Points[i][n])]
FindSkill(mode, s) == s \in Ran(Skills(mode))
InstructionIsValid(mode, i) == Points[i] # <<>> /\ \A s \in Ran(PointersOf(mode, i)) : FindSkill(mode, s)

(* Layout: where the skills go.                                            *)
Layouts == {"agents", "github"}
Skill(layout, s) == <<layout, s>>
Provenance(layout) == <<layout>>
Instruction(i) == <<"instructions", i>>
McpConfigs == <<".vscode/mcp.json", ".mcp.json">>
Mcp(m) == <<"mcp", m>>
Named == Ran(Registry) \cup Ran(Skills("pins"))
Paths == {Skill(l, s) : l \in Layouts, s \in Named} \cup {Provenance(l) : l \in Layouts}
         \cup {Instruction(i) : i \in Ran(Instructions)} \cup {Mcp(m) : m \in Ran(McpConfigs)}

(* What a path may hold: nothing, what a write that was cut short left, a  *)
(* generated text, or JSON.  An MCP configuration names servers - none, if *)
(* what it has for them is no map -, or has comments and does not parse.   *)
Text(what, name, o) == [is |-> what, name |-> name, mode |-> o.mode, version |-> o.version, full |-> o.full]
Absent == [is |-> "absent"]
Torn == [is |-> "torn"]
Commented == [is |-> "comments"]
Null == [is |-> "null"]
Config(servers) == [is |-> "servers", has |-> servers]
Ours == "azldev"

(* SkillDocument: the text `docs agent show` prints.                       *)
SkillDocument(s, o) == Text("document", s, o)
SkillText(s, o) == IF o.full THEN SkillDocument(s, o) ELSE Text("wrapper", s, o)
Write(path, text) == [path |-> path, text |-> text]
ProvenanceFile(o) == <<Write(Provenance(o.layout), Text("provenance", "", o))>>
SkillFiles(o) == [n \in DOMAIN Registry |-> LET s == InMode(o.mode, Registry[n]) IN Write(Skill(o.layout, s), SkillText(s, o))]
InstructionFiles(o) == [n \in DOMAIN Instructions |-> Write(Instruction(Instructions[n]), Text("instruction", Instructions[n], o))]
(* Mutant: the instructions come first. *)
EmittedPointersFirst(o) == ProvenanceFile(o) \o InstructionFiles(o) \o SkillFiles(o)
(* Everything an install writes but the MCP configurations.                *)
EmittedFiles(o) == ProvenanceFile(o) \o SkillFiles(o) \o InstructionFiles(o)

Idle(n) == [at |-> "none", n |-> n]
AgentInit == /\ files = [p \in Paths |-> Absent]
             /\ install = Idle(0) /\ edits = 0

Options == [layout : Layouts \cup {"other"}, full : BOOLEAN, mode : {"locks", "pins"}, version : Versions, dry : BOOLEAN]
Running == install.at \in {"files", "mcp"}

(* InstallAgentFiles, until the first write: an unknown layout, and an     *)
(* instruction that names no skill, stop it before anything is written.    *)
StartInstall(o) ==
  /\ ~Running /\ install.n < MaxInstalls
  /\ install' = [at |-> IF o.layout \in Layouts /\ \A i \in Ran(Instructions) : InstructionIsValid(o.mode, i)
                          THEN "files" ELSE "failed",
                  n |-> install.n + 1, o |-> o, before |-> files, next |-> 1, told |-> {}]
  /\ UNCHANGED <<files, edits>>

Ends(how) == install' = [install EXCEPT !.at = how]
Put(path, text) == files' = [files EXCEPT ![path] = text]
(* A step that was taken, and is in the table of results; none writes in a *)
(* dry run.                                                                *)
Emits(path, text) == /\ IF install.o.dry THEN files' = files ELSE Put(path, text)
                     /\ install' = [install EXCEPT !.next = @ + 1, !.told = @ \cup {path}]
(* A directory that cannot be made leaves the file as it is, a write that  *)
(* fails tears it.                                                         *)
CannotWrite(path) == ~install.o.dry /\ Ends("failed") /\ (files' = files \/ Put(path, Torn))

Now == EmittedFiles(install.o)[install.next]
WriteFile == /\ install.at = "files" /\ install.next <= Len(EmittedFiles(install.o))
             /\ Emits(Now.path, Now.text) \/ CannotWrite(Now.path)
             /\ UNCHANGED edits
FilesWritten == /\ install.at = "files" /\ install.next > Len(EmittedFiles(install.o))
                /\ install' = [install EXCEPT !.at = "mcp", !.next = 1]
                /\ UNCHANGED <<files, edits>>

(* emitMCPConfig.  What does not parse is an error; `null` parses, to a    *)
(* map that cannot be written to, and ends the process.                    *)
Upsert(config) == Config((IF config = Absent THEN {} ELSE config.has) \cup {Ours})
ThisMcp == Mcp(McpConfigs[install.next])
CanUpsert == files[ThisMcp].is \in {"absent", "servers"}
EmitMcp == /\ install.at = "mcp" /\ install.next <= Len(McpConfigs)
           /\ \/ CanUpsert /\ (Emits(ThisMcp, Upsert(files[ThisMcp])) \/ CannotWrite(ThisMcp))
              \/ files[ThisMcp].is = "null" /\ Ends("killed") /\ UNCHANGED files
              \/ Ends("failed") /\ UNCHANGED files        \* it does not parse, or cannot be read
           /\ UNCHANGED edits
InstallReturns == /\ install.at = "mcp" /\ install.next > Len(McpConfigs)
                  /\ Ends("done")
                  /\ UNCHANGED <<files, edits>>

(* The process is killed, perhaps in the middle of a write.                *)
Tears == /\ ~install.o.dry
         /\ \/ install.at = "files" /\ install.next <= Len(EmittedFiles(install.o)) /\ Put(Now.path, Torn)
            \/ install.at = "mcp" /\ install.next <= Len(McpConfigs) /\ CanUpsert /\ Put(ThisMcp, Torn)
KillInstall == Running /\ Ends("killed") /\ (files' = files \/ Tears) /\ UNCHANGED edits

(* Between two installs the user writes or removes an MCP configuration.   *)
UserTexts == {Absent, Commented, Null} \cup {Config(s) : s \in SUBSET Servers}
UserConfigures == /\ ~Running /\ edits < MaxEdits
                  /\ \E m \in Ran(McpConfigs), text \in UserTexts : Put(Mcp(m), text)
                  /\ install' = Idle(install.n) /\ edits' = edits + 1

AgentNext == \/ \E o \in Options : StartInstall(o)
             \/ WriteFile \/ FilesWritten \/ EmitMcp \/ InstallReturns \/ KillInstall \/ UserConfigures

AgentSpec == AgentInit /\ [][AgentNext]_agentVars

--------------------------------------------------------------------------
Succeeded == install.at = "done" /\ ~install.o.dry
McpPaths == {Mcp(m) : m \in Ran(McpConfigs)}
Planned(o) == {EmittedFiles(o)[k].path : k \in DOMAIN EmittedFiles(o)} \cup McpPaths

(* An instruction that is in the repository names skills that are there,   *)
(* however installs of different modes failed or were killed: the skills   *)
(* are written first.                                                      *)
PointersResolve ==
  \A i \in Ran(Instructions) : files[Instruction(i)].is = "instruction" =>
    \A s \in Ran(PointersOf(files[Instruction(i)].mode, i)) : \E l \in Layouts : files[Skill(l, s)] # Absent

(* After an install that succeeded, over whatever earlier ones left, a     *)
(* second one would change nothing ("a CI check can run install and assert *)
(* an empty diff").                                                        *)
RerunIsNoop ==
  Succeeded => /\ \A k \in DOMAIN EmittedFiles(install.o) : files[EmittedFiles(install.o)[k].path] = EmittedFiles(install.o)[k].text
               /\ \A p \in McpPaths : files[p].is = "servers" /\ Upsert(files[p]) = files[p]

(* The user's servers stay, and what cannot be read is not replaced; only  *)
(* a write that was cut short loses them.                                  *)
ServersAreKept ==
  install.at # "none" =>
    \A p \in McpPaths : LET was == install.before[p] IN
      \/ files[p] = was
      \/ /\ was.is \in {"absent", "servers"}
         /\ files[p] = Upsert(was) \/ (files[p] = Torn /\ install.at \in {"failed", "killed"})

(* A dry run tells what a real one would write, and writes nothing.        *)
DryRunTells == install.at = "done" => /\ install.told = Planned(install.o)
                                      /\ install.o.dry => files = install.before

InstallIsWhole == PointersResolve /\ RerunIsNoop /\ ServersAreKept /\ DryRunTells
=============================================================================
