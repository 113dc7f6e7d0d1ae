------------------------------ MODULE MCSession ------------------------------
(***************************************************************************)
(* What processes leave to each other, for TLC: either Images and Shell on *)
(* a small machine (two formats, a pytest and a LISA test, two commits of  *)
(* LISA, one tool of each kind), or installs of agent files, with a skill  *)
(* that lock-file-free mode replaces and one that it keeps.                *)
(***************************************************************************)
EXTENDS Images, AgentFiles, TLC

MCFormats == <<"qcow2", "raw">>
MCTestList == <<"lisa", "smoke">>
MCKind == [t \in {"smoke", "lisa"} |-> IF t = "lisa" THEN "lisa" ELSE "pytest"]
MCPreset == [t \in {"list-components", "list-images"} |-> {}]
MCBootOptions ==
  { [file |-> None,    named |-> TRUE,  iso |-> FALSE, rw |-> TRUE,  seed |-> FALSE],
    [file |-> "qcow2", named |-> FALSE, iso |-> TRUE,  rw |-> FALSE, seed |-> FALSE],
    [file |-> None,    named |-> FALSE, iso |-> TRUE,  rw |-> FALSE, seed |-> TRUE] }
MCTestOptions == { [file |-> None, own |-> FALSE], [file |-> "qcow2", own |-> TRUE] }

MCRegistry == <<"azldev", "update-component">>
MCReplacement == "update-component" :> "refresh-upstream-commit"
MCInstructions == <<"comp-toml">>
MCPoints == "comp-toml" :> <<"azldev", "update-component">>

NoInstalls == install = Idle(MaxInstalls) /\ edits = MaxEdits /\ \A p \in Paths : files[p] = Absent
MCInit == /\ Init
          /\ files = [p \in Paths |-> Absent]
          /\ \/ install = Idle(MaxInstalls) /\ edits = MaxEdits
             \/ install = Idle(0) /\ edits = 0 /\ work.made = 0 /\ ref = CHOOSE r \in Refs : TRUE

MCNext == \/ NoInstalls /\ Next /\ UNCHANGED agentVars
          \/ AgentNext /\ UNCHANGED vars

MCSpec == MCInit /\ [][MCNext]_<<vars, agentVars>>
=============================================================================
