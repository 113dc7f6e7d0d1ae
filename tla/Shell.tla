------------------------------- MODULE Shell -------------------------------
(***************************************************************************)
(* A process of azldev around the command it runs: what Execute does       *)
(* before (app.go), the checks of PersistentPreRunE and runFuncInternal    *)
(* (command.go), the report, the exit, and the temporary directory that is *)
(* removed at the end.  Two commands that belong to the shell itself are   *)
(* here: the MCP server (core/mcp), whose calls all use one Env and one    *)
(* set of option variables, and `mock`, an external command with a         *)
(* goroutine that listens to its output (utils/externalcmd).               *)
(*                                                                         *)
(* SIGINT cancels the context of the command once setupSignalHandling ran; *)
(* before, and with SIGKILL always, the process is gone.                   *)
(***************************************************************************)
EXTENDS Naturals, Sequences, FiniteSets

CONSTANTS
  Commands,       \* what a user runs
  NeedsConfig,    \* the commands made by RunFunc and RunFuncWithExtraArgs
  Spellings,      \* of --dry-run: "absent"; "plain", -n or --dry-run; "joined", -qn or =true
  Words,          \* what a call of a tool may select
  Tools,          \* the commands exported as tools
  FlagTools,      \* those whose selection is held by a flag
  Preset,         \* Preset[t]: the selection t starts with
  Lines,          \* bound: the lines an external command writes
  MaxLaunches,    \* bound: the processes
  MaxCalls,       \* bound: the calls one MCP server answers
  None

ASSUME ShellAssumption ==
  /\ NeedsConfig \subseteq Commands /\ Spellings \subseteq {"absent", "plain", "joined"}
  /\ FlagTools \subseteq Tools
  /\ Preset \in [Tools -> SUBSET Words]
  /\ {Lines, MaxLaunches, MaxCalls} \subseteq Nat

VARIABLES
  app,      \* the process: its step, its command, how --dry-run was spelled
  env,      \* what NewEnv was given
  litter,   \* the temporary things the process has made, but for killed ones
  tools,    \* MCP server: the option variables of the tools
  answer,   \* MCP server: the last call and what it returned
  child     \* `mock`: the external command and its listener

shellVars == <<app, env, litter, tools, answer, child>>

NoEnv == [config |-> "absent", dry |-> FALSE]
NoChild == [at |-> "none", wrote |-> 0, heard |-> 0, listening |-> FALSE, held |-> FALSE, ok |-> TRUE]
Off(n) == [at |-> "off", n |-> n, command |-> None, dry |-> "absent", root |-> FALSE,
           cancelled |-> FALSE, err |-> FALSE, results |-> FALSE, calls |-> 0, exit |-> 0]
NewTools == [t \in Tools |-> [sel |-> Preset[t], set |-> FALSE]]

ShellInit ==
  /\ app = Off(0) /\ env = NoEnv /\ child = NoChild
  /\ litter = {}
  /\ tools = NewTools /\ answer = None

Goto(step) == app' = [app EXCEPT !.at = step]
In(command) == app.at = "body" /\ app.command = command

(* What an external command may come to: it does nothing in a dry run, and *)
(* it fails once the context has ended.                                    *)
Outcomes == IF env.dry THEN {TRUE} ELSE IF app.cancelled THEN {FALSE} ELSE BOOLEAN

Launch(command, dry, root) ==
  /\ app.at = "off" /\ app.n < MaxLaunches
  /\ app' = [Off(app.n + 1) EXCEPT !.at = "early", !.command = command, !.dry = dry, !.root = root]
  /\ litter' = litter \cup {"early"}
  /\ UNCHANGED <<env, tools, answer, child>>

(* handParseConfigFlags knows the flag in two spellings; cobra, which      *)
(* parses the command line later, accepts more.                            *)
PreParsed(dry) == dry = "plain"

(* There may be no configuration; one that does not load is logged, and    *)
(* the process goes on without it.                                         *)
LoadConfig ==
  /\ app.at = "early"
  /\ \E config \in {"good", "absent"} :
       env' = [config |-> config, dry |-> PreParsed(app.dry)]
  /\ Goto("loaded")
  /\ UNCHANGED <<litter, tools, answer, child>>

Gone == env' = NoEnv /\ child' = NoChild /\ tools' = NewTools /\ answer' = None
EarlyGone == litter' = litter \ {"early"}

Exit(code) == /\ app' = [Off(app.n) EXCEPT !.exit = code]
              /\ EarlyGone
              /\ Gone

(* With a configuration there is a log file to open and there are          *)
(* callbacks to run; either may fail.                                      *)
OpenLog ==
  /\ app.at = "loaded"
  /\ \/ /\ Goto("ready")
        /\ UNCHANGED <<env, litter, tools, answer, child>>
     \/ env.config = "good" /\ Exit(1)

Refused == app.root \/ (app.command \in NeedsConfig /\ env.config # "good")
PreRun ==
  /\ app.at = "ready"
  /\ \/ Refused /\ Exit(1)
     \/ /\ ~Refused /\ Goto("body")
        /\ UNCHANGED <<env, litter, tools, answer, child>>

(* The end of a command: its error, and whether it returned results, which *)
(* are reported even with an error.                                        *)
Finish(err, results) == app' = [app EXCEPT !.at = "report", !.err = err, !.results = results]
Report ==
  /\ app.at = "report"
  /\ \/ Exit(IF app.err THEN 1 ELSE 0)
     \/ app.results /\ Exit(1)               \* they could not be formatted

---------------------------------------------------------------------------
(* Mutant: a list the call supplies is not reset first.                    *)
RestoreFlagsOthers(t, flags) == IF t \in FlagTools /\ flags = {} THEN Preset[t] ELSE tools[t].sel

(* A call of a tool: the flags of its command get their defaults back -    *)
(* none for a list the call supplies, as pflag appends to a list it has    *)
(* set before - and the positional words go in front of the selection.     *)
RestoreFlags(t, flags) ==
  IF t \notin FlagTools THEN tools[t].sel ELSE IF flags # {} THEN {} ELSE Preset[t]
ParseFlags(t, flags, sel) ==
  IF flags = {} THEN sel ELSE IF tools[t].set THEN sel \cup flags ELSE flags

Call(t, flags, words) ==
  /\ In("mcp") /\ app.calls < MaxCalls
  /\ t \in FlagTools \/ flags = {}
  /\ LET sel == ParseFlags(t, flags, RestoreFlags(t, flags)) \cup words
     IN /\ tools' = [tools EXCEPT ![t] = [sel |-> sel, set |-> @.set \/ flags # {}]]
        /\ answer' = [tool |-> t, flags |-> flags, words |-> words, sel |-> sel]
  /\ app' = [app EXCEPT !.calls = @ + 1]
  /\ UNCHANGED <<env, litter, child>>

(* Listen returns when the client closes its end, or with the context.     *)
ClientLeaves == /\ In("mcp") /\ ~app.cancelled /\ Finish(FALSE, FALSE)
                /\ UNCHANGED <<env, litter, tools, answer, child>>
StopServing == /\ In("mcp") /\ app.cancelled /\ Finish(TRUE, FALSE)
               /\ UNCHANGED <<env, litter, tools, answer, child>>

---------------------------------------------------------------------------
(* cmd.Run with a listener: Start makes the goroutine that scans the       *)
(* child's output; Wait waits for it, then for the child.  A process the   *)
(* child started may hold the output open after the child is gone.  A      *)
(* program that is missing fails a dry run as well, which starts nothing.  *)
StartChild ==
  /\ In("mock") /\ child.at = "none"
  /\ \/ /\ ~env.dry /\ ~app.cancelled
        /\ child' = [NoChild EXCEPT !.at = "running", !.listening = TRUE]
        /\ UNCHANGED app
     \/ child' = NoChild /\ \E err \in {TRUE, ~env.dry} : Finish(err, FALSE)
  /\ UNCHANGED <<env, litter, tools, answer>>

ChildWrites ==
  /\ child.at = "running" /\ child.wrote < Lines
  /\ child' = [child EXCEPT !.wrote = @ + 1]
  /\ UNCHANGED <<app, env, litter, tools, answer>>

ChildExits ==
  /\ child.at = "running"
  /\ \E ok \in Outcomes, held \in BOOLEAN :
       child' = [child EXCEPT !.at = "exited", !.ok = ok, !.held = held]
  /\ UNCHANGED <<app, env, litter, tools, answer>>

LetsGo == /\ child.held /\ child' = [child EXCEPT !.held = FALSE]
          /\ UNCHANGED <<app, env, litter, tools, answer>>

(* One line from the scanner, or the end of the output.  (The scanner      *)
(* gives up at a line that is longer than its buffer, 64 KB, and nobody    *)
(* asks it why: here lines are shorter.)                                   *)
Hear ==
  /\ child.listening
  /\ \/ /\ child.heard < child.wrote
        /\ child' = [child EXCEPT !.heard = @ + 1]
     \/ /\ child.heard = child.wrote /\ child.at = "exited" /\ ~child.held
        /\ child' = [child EXCEPT !.listening = FALSE]
  /\ UNCHANGED <<app, env, litter, tools, answer>>

(* Mutant: inner.Wait first, which closes the pipe the listener reads.     *)
WaitedForChild == child.at = "exited"

Waited == child.at = "exited" /\ ~child.listening

Return ==
  /\ Waited
  /\ child' = [child EXCEPT !.at = "returned", !.listening = FALSE]
  /\ Finish(~child.ok, FALSE)
  /\ UNCHANGED <<env, litter, tools, answer>>

---------------------------------------------------------------------------
Cancel == /\ app.at \in {"ready", "body", "report"} /\ ~app.cancelled
          /\ app' = [app EXCEPT !.cancelled = TRUE]
          /\ UNCHANGED <<env, litter, tools, answer, child>>

Kill == /\ app.at # "off"
        /\ app' = Off(app.n) /\ litter' = {}
        /\ Gone

ShellStep == \/ LoadConfig \/ OpenLog \/ PreRun \/ Report
             \/ StopServing \/ StartChild \/ ChildExits \/ Hear \/ Return

(* The types.                                                              *)
Processes == [at : {"off", "early", "loaded", "ready", "body", "report"}, n : Nat,
              command : Commands \cup {None}, dry : {"absent", "plain", "joined"}, root : BOOLEAN,
              cancelled : BOOLEAN, err : BOOLEAN, results : BOOLEAN, calls : Nat, exit : {0, 1}]
Calls == [tool : Tools, flags : SUBSET Words, words : SUBSET Words, sel : SUBSET Words]
ShellTypeOK ==
  /\ app \in Processes
  /\ env \in [config : {"good", "absent"}, dry : BOOLEAN]
  /\ tools \in [Tools -> [sel : SUBSET Words, set : BOOLEAN]]
  /\ answer \in Calls \cup {None}
  /\ child \in [at : {"none", "running", "exited", "returned"}, wrote : Nat, heard : Nat,
               listening : BOOLEAN, held : BOOLEAN, ok : BOOLEAN]
=============================================================================
