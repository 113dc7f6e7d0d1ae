-------------------------------- MODULE Pins --------------------------------
(***************************************************************************)
(* Runs of `azldev component refresh-upstream-commit`                      *)
(* (cmds/component/refreshupstreamcommit.go), which writes the upstream    *)
(* commit of each component into a generated TOML file of its own, its     *)
(* pin (upstreamcommit/store.go).  In the mode without lock files the pins *)
(* are part of the configuration: what a command loads is the user's       *)
(* configuration with the pins laid over it, so that a pin that is left    *)
(* behind still defines its component.                                     *)
(*                                                                         *)
(* One refresh is inspect, resolve in parallel, save one by one, prune.    *)
(* Any step may fail; the user may cancel or kill the run; between runs    *)
(* the user edits the configuration and upstream moves.                    *)
(***************************************************************************)
EXTENDS Naturals

CONSTANTS
  Components,
  Tips,           \* the commits an upstream may be at, as strings
  MaxRuns,        \* bound: the refreshes
  MaxEnv,         \* bound: the edits and moves of upstream
  NoPin

ASSUME PinsAssumption == /\ MaxRuns \in Nat /\ MaxEnv \in Nat
                         /\ NoPin # "empty"
                         /\ {NoPin, "none", "empty", "error", "same", "remove", "skipped"} \cap Tips = {}

VARIABLES
  default,   \* the source type components have by default, if any (default-component-config)
  kind,      \* the user's configuration: "upstream", "local", or "gone"
  tip,       \* the commit upstream resolves to
  pins,      \* the generated files: NoPin, a commit, or "empty" after a torn write
  refresh,   \* the run under way, and how the last one ended
  nenv       \* how many edits there were

pinVars == <<default, kind, tip, pins, refresh, nenv>>

NoResult == "none"
Idle == [n |-> 0, pc |-> "idle", all |-> FALSE, check |-> FALSE, sel |-> {}, cancelled |-> FALSE,
         result |-> [c \in Components |-> NoResult], todo |-> {}, end |-> "none",
         before |-> [c \in Components |-> NoPin]]

PinsInit == /\ default \in {"upstream", "none"}
            /\ kind \in [Components -> {"upstream", "local"}]
            /\ tip \in [Components -> Tips]
            /\ pins = [c \in Components |-> NoPin]
            /\ refresh = Idle /\ nenv = 0

Set(r) == refresh' = r /\ UNCHANGED <<default, kind, tip, nenv>>

(* The components a command sees: a pin defines one too, of the type       *)
(* components have by default.                                             *)
Resolved == {c \in Components : kind[c] # "gone" \/ pins[c] \in Tips}
Type(c) == IF kind[c] # "gone" THEN kind[c] ELSE IF c \in Resolved THEN default ELSE "none"

(* inspectSelectedComponents: a selected component that is not upstream    *)
(* loses its pin, without asking anyone; the others are resolved.          *)
Inspected(sel) == [c \in Components |->
                     IF c \in sel /\ Type(c) # "upstream" /\ pins[c] # NoPin THEN "remove" ELSE NoResult]

(* The start of RefreshUpstreamCommits: the filter, which has to match     *)
(* something unless it is -a.                                              *)
StartRefresh(all, check, sel) ==
  /\ refresh.pc = "idle" /\ refresh.n < MaxRuns
  /\ sel \subseteq Resolved /\ (all => sel = Resolved) /\ (~all => sel # {})
  /\ Set([Idle EXCEPT !.n = refresh.n + 1, !.pc = "resolve", !.all = all, !.check = check,
                      !.sel = sel, !.result = Inspected(sel), !.before = pins,
                      !.todo = {c \in sel : Type(c) = "upstream"}])
  /\ UNCHANGED pins

(* A plausible slip: a file that is there and defines nothing is taken for *)
(* the pin.                                                                *)
ComparedLoosely(c, commit) == IF pins[c] \in {commit, "empty"} THEN "same" ELSE commit

(* checkConfigChanged: the answer against the pin.  A file that defines    *)
(* nothing is an error, and stays.                                         *)
Compared(c, commit) == CASE pins[c] = "empty" -> "error"
                         [] pins[c] = commit  -> "same"
                         [] OTHER             -> commit

(* resolveAndRecordCommit, in a worker of parmap.Map, with the pin that    *)
(* was loaded set aside; after the context has ended an item may not be    *)
(* started any more.                                                       *)
Resolve(c) ==
  /\ refresh.pc = "resolve" /\ c \in refresh.todo
  /\ \E r \in {Compared(c, tip[c]), "error"} \cup (IF refresh.cancelled THEN {"skipped"} ELSE {}) :
       Set([refresh EXCEPT !.todo = @ \ {c}, !.result[c] = r])
  /\ UNCHANGED pins

Unresolved == {c \in refresh.sel : refresh.result[c] = "error"}
Removed == {c \in refresh.sel : refresh.result[c] = "remove"}
ToWrite == Removed \cup {c \in refresh.sel : refresh.result[c] \in Tips}

Finish(end) == [refresh EXCEPT !.pc = "idle", !.end = end]

(* After the map: a context that has ended stops the run before the first  *)
(* write.                                                                  *)
Resolved2Save == /\ refresh.pc = "resolve" /\ refresh.todo = {}
                 /\ IF refresh.cancelled THEN Set(Finish("cancelled"))
                    ELSE Set([refresh EXCEPT !.pc = "save", !.todo = IF refresh.check THEN {} ELSE ToWrite])
                 /\ UNCHANGED pins

(* applyRefreshResult: Store.Remove and Store.Save.                        *)
Written(c) == IF c \in Removed THEN NoPin ELSE refresh.result[c]

(* saveUpstreamCommitConfigs: the first write that fails ends the run.     *)
SaveOne(c) ==
  /\ refresh.pc = "save" /\ c \in refresh.todo
  /\ \/ /\ Set([refresh EXCEPT !.todo = @ \ {c}])
        /\ pins' = [pins EXCEPT ![c] = Written(c)]
     \/ /\ Set(Finish("error"))
        /\ \/ UNCHANGED pins
           \/ c \notin Removed /\ pins' = [pins EXCEPT ![c] = "empty"]

(* FindOrphans: the files that belong to no upstream component.            *)
Orphans == {c \in Components : pins[c] # NoPin /\ Type(c) # "upstream"}

(* excludePendingRemovals and refreshCheckOnlyResult.                      *)
Stale == ToWrite # {} \/ (refresh.all /\ Orphans \ Removed # {})

(* checkRefreshErrors, then the orphans, which only a refresh of all       *)
(* components without an error prunes; each removal may fail on its own.   *)
Conclude ==
  /\ refresh.pc = "save" /\ refresh.todo = {}
  /\ \/ /\ Unresolved # {} /\ Set(Finish("error")) /\ UNCHANGED pins
     \/ /\ Unresolved = {} /\ refresh.check
        /\ Set(Finish(IF Stale THEN "error" ELSE "ok")) /\ UNCHANGED pins
     \/ /\ Unresolved = {} /\ ~refresh.check
        /\ \E gone \in SUBSET Orphans :
             /\ ~refresh.all => gone = {}
             /\ pins' = [c \in Components |-> IF c \in gone THEN NoPin ELSE pins[c]]
             /\ Set(Finish(IF refresh.all /\ gone # Orphans THEN "error" ELSE "ok"))

CancelRefresh == /\ refresh.pc # "idle" /\ ~refresh.cancelled
                 /\ Set([refresh EXCEPT !.cancelled = TRUE])
                 /\ UNCHANGED pins

(* A kill: a file that was being written holds nothing.                    *)
KillRefresh == /\ refresh.pc # "idle"
               /\ Set(Finish("killed"))
               /\ \/ UNCHANGED pins
                  \/ \E c \in (refresh.todo \cap ToWrite) \ Removed :
                       refresh.pc = "save" /\ pins' = [pins EXCEPT ![c] = "empty"]

(* The user edits the configuration, upstream moves, an empty file is put  *)
(* back.                                                                   *)
EditPins(c) == /\ refresh.pc = "idle" /\ nenv < MaxEnv /\ nenv' = nenv + 1
           /\ \/ \E k \in {"upstream", "local", "gone"} \ {kind[c]} :
                   kind' = [kind EXCEPT ![c] = k] /\ UNCHANGED <<tip, pins>>
              \/ \E t \in Tips \ {tip[c]} : tip' = [tip EXCEPT ![c] = t] /\ UNCHANGED <<kind, pins>>
              \/ pins[c] = "empty" /\ pins' = [pins EXCEPT ![c] = NoPin] /\ UNCHANGED <<kind, tip>>
           /\ refresh' = [refresh EXCEPT !.end = "none"] /\ UNCHANGED default

RefreshStep == \/ \E c \in Components : Resolve(c) \/ SaveOne(c)
               \/ Resolved2Save \/ Conclude

PinsNext == \/ \E all, check \in BOOLEAN, sel \in SUBSET Components : StartRefresh(all, check, sel)
            \/ RefreshStep \/ CancelRefresh \/ KillRefresh
            \/ \E c \in Components : EditPins(c)

PinsSpec == PinsInit /\ [][PinsNext]_pinVars

-----------------------------------------------------------------------------
(* The types.                                                              *)
Contents == Tips \cup {NoPin, "empty"}
Results == Tips \cup {"none", "error", "same", "remove", "skipped"}
Refreshes == [n : Nat, pc : {"idle", "resolve", "save"}, all : BOOLEAN, check : BOOLEAN,
              sel : SUBSET Components, cancelled : BOOLEAN, result : [Components -> Results],
              todo : SUBSET Components, end : {"none", "ok", "error", "cancelled", "killed"},
              before : [Components -> Contents]]

PinsTypeOK == /\ default \in {"upstream", "none"}
              /\ kind \in [Components -> {"upstream", "local", "gone"}]
              /\ tip \in [Components -> Tips] /\ pins \in [Components -> Contents]
              /\ refresh \in Refreshes /\ nenv \in Nat

(* What a refresh of everything would leave.                               *)
Fresh(c) == IF Type(c) = "upstream" THEN tip[c] ELSE NoPin

(* A refresh of all components that exits 0 leaves exactly the pins that   *)
(* upstream and the configuration call for; a --check-only of all that     *)
(* exits 0 says that a refresh would leave every file as it is.            *)
RefreshIsExact ==
  refresh.pc = "idle" /\ refresh.end = "ok" /\ refresh.all => \A c \in Components : pins[c] = Fresh(c)

(* A run that failed, was cancelled, was killed or only checked: the pins  *)
(* of failed, skipped and unselected components are those from before, as  *)
(* are all of them where nothing may be written; no pin is half new.       *)
OthersUntouched ==
  \A c \in Components :
    /\ (refresh.check \/ refresh.end = "cancelled") /\ refresh.n > 0 /\ refresh.end # "none" =>
         pins[c] = refresh.before[c]
    /\ refresh.pc # "idle" /\ (c \in Unresolved \/ c \notin refresh.sel) => pins[c] = refresh.before[c]
    /\ refresh.end = "error" /\ c \in Unresolved => pins[c] = refresh.before[c]

=============================================================================
