--------------------------- MODULE RenderPipeline ---------------------------
(***************************************************************************)
(* `azldev component render`: a sequence of runs over one output tree.  A  *)
(* run prepares the sources of the selected components in parallel, sends  *)
(* those that were prepared through one mock chroot, prunes the output of  *)
(* components that are gone, replaces each component's output directory in *)
(* parallel, and plants a RENDER_FAILED marker where it failed.  With      *)
(* --check-only it compares instead of writing.  A run may be cancelled    *)
(* (Ctrl-C), a step of it may fail, and it may be killed.                  *)
(*                                                                         *)
(* An output directory is what it holds: nothing (absent or bare), the     *)
(* whole of some rendering, or a part of one; and whether the marker lies  *)
(* in it.  A component always renders to want[c] until the user changes    *)
(* the project, which a run reads once.                                    *)
(***************************************************************************)
EXTENDS Naturals, FiniteSets

CONSTANTS Components,
          Contents,        \* what a component may render to
          Slots,           \* env.IOBoundConcurrency()
          MaxRuns, MaxEnv  \* bounds: runs, edits of the project

ASSUME RenderAssumption == Contents \cap {"absent", "bare", "partial"} = {}

VARIABLES present, want,   \* the project: its components, what they render to
          out,             \* the output tree
          opts, comps, phase, todo, usable, stage, result, exit,  \* the run
          status, ctxDone, \* its parmap.Map calls
          before, own, fault, drifted,  \* history, see below
          runs, envs

PM == INSTANCE ParallelMap WITH Items <- Components

world   == <<present, want>>
runvars == <<opts, comps, phase, todo, usable, stage, result, exit>>
bounds  == <<runs, envs>>
vars == <<world, out, runvars, status, ctxDone, before, own, fault, drifted, bounds>>

Trees == {"absent", "bare", "partial"} \cup Contents
Dirs  == {d \in [tree : Trees, marker : BOOLEAN] : d.tree = "absent" => ~d.marker}

Dir(t, m) == [tree |-> t, marker |-> m]
Fresh(c)  == Dir(want[c], FALSE)
Marked    == Dir("bare", TRUE)
Wrecks    == {Dir("absent", FALSE), Dir("partial", FALSE), Dir("partial", TRUE)}

Exists(c) == out[c].tree # "absent"

(* diffRenderedOutput: a missing directory always counts as drift.         *)
Drift(c) == out[c] # Fresh(c)

(* --force is set by the flag, or by taking the output directory from the  *)
(* configuration; validateCleanStaleOptions and MarkFlagsMutuallyExclusive *)
(* leave these.                                                            *)
Options == {o \in [checkOnly : BOOLEAN, force : BOOLEAN, failOnError : BOOLEAN,
                   cleanStale : BOOLEAN, all : BOOLEAN, dryRun : BOOLEAN] :
               /\ o.cleanStale => o.all /\ o.force
               /\ ~(o.failOnError /\ o.checkOnly)}

Results == [status : {"none", "ok", "error", "cancelled"}, changed : BOOLEAN]
Res(s, ch) == [status |-> s, changed |-> ch]

Exits == {"none", "running", "ok", "stale", "failed", "aborted", "crashed"}

Orphans  == {c \in Components : Exists(c) /\ c \notin present}

(* Mutant: a cancelled component counts as failed. *)
ErrorsAndCancelled == {c \in comps : result[c].status \in {"error", "cancelled"}}

Prepared == {c \in comps : result[c].status = "none"}
Errors   == {c \in comps : result[c].status = "error"}

-----------------------------------------------------------------------------
TypeOK == /\ present \subseteq Components /\ want \in [Components -> Contents]
          /\ out \in [Components -> Dirs]
          /\ opts \in Options
          /\ comps \subseteq Components /\ todo \subseteq Components
          /\ usable \subseteq Components
          /\ phase \in {"idle", "prepare", "mock", "prune", "finish", "mark"}
          /\ stage \in [Components -> {"none", "late", "open", "writing"}]
          /\ result \in [Components -> Results]
          /\ exit \in Exits
          /\ PM!PMTypeOK
          /\ before \in [Components -> Dirs]
          /\ own \subseteq Components /\ fault \in BOOLEAN /\ drifted \in BOOLEAN
          /\ runs \in Nat /\ envs \in Nat

(* History: before is the tree at the start of the run; own, the           *)
(* components that failed in this run for a reason of their own and not    *)
(* because the context ended; fault, whether placing a marker failed,      *)
(* which the code only logs; drifted, whether the project has been edited  *)
(* since the run began.                                                    *)
Init == /\ present \in SUBSET Components
        /\ want \in [Components -> Contents]
        /\ out \in [Components -> {Dir("absent", FALSE), Marked}
                                  \cup {Dir(v, FALSE) : v \in Contents}]
        /\ opts = [checkOnly |-> FALSE, force |-> FALSE, failOnError |-> FALSE,
                   cleanStale |-> FALSE, all |-> FALSE, dryRun |-> FALSE]
        /\ comps = {} /\ todo = {} /\ usable = {} /\ phase = "idle" /\ exit = "none"
        /\ stage = [c \in Components |-> "none"]
        /\ result = [c \in Components |-> Res("none", FALSE)]
        /\ status = PM!Batch({}) /\ ctxDone = FALSE
        /\ before = out /\ own = {} /\ fault = FALSE /\ drifted = FALSE
        /\ runs = 0 /\ envs = 0

-----------------------------------------------------------------------------
(* Between runs the user changes what a component renders to, and which    *)
(* components there are.                                                   *)
Edit(c) == /\ phase = "idle" /\ envs < MaxEnv /\ envs' = envs + 1
           /\ \/ /\ \E v \in Contents \ {want[c]} : want' = [want EXCEPT ![c] = v]
                 /\ UNCHANGED present
              \/ /\ present' = IF c \in present THEN present \ {c} ELSE present \cup {c}
                 /\ UNCHANGED want
           /\ drifted' = TRUE
           /\ UNCHANGED <<out, runvars, status, ctxDone, before, own, fault, runs>>

Ends(e) == phase' = "idle" /\ todo' = {} /\ exit' = e

(* With -a every configured component, otherwise what the filter names;    *)
(* either way there must be one.                                           *)
Start(o, S) ==
    /\ phase = "idle" /\ runs < MaxRuns /\ runs' = runs + 1
    /\ S # {} /\ IF o.all THEN S = present ELSE S \subseteq present
    /\ opts' = o /\ comps' = S /\ exit' = "running" /\ phase' = "prepare"
    /\ todo' = {} /\ usable' = {}
    /\ stage' = [c \in Components |-> "none"]
    /\ result' = [c \in Components |-> Res("none", FALSE)]
    /\ status' = PM!Batch(S) /\ ctxDone' = FALSE
    /\ before' = out /\ own' = {} /\ fault' = FALSE /\ drifted' = FALSE
    /\ UNCHANGED <<world, out, envs>>

Cancel == /\ phase # "idle" /\ PM!EndContext
          /\ UNCHANGED <<world, out, runvars, before, own, fault, drifted, bounds>>

Steady == UNCHANGED <<world, opts, comps, before, drifted, bounds>>

-----------------------------------------------------------------------------
(* Phase 1: parallelPrepare.  A component without a result is prepared.    *)

Preparing == /\ phase = "prepare" /\ Steady
             /\ UNCHANGED <<out, phase, todo, usable, stage, exit, fault>>

BeginPrepare(c) == Preparing /\ PM!Begin(c) /\ UNCHANGED <<result, own>>

(* In a dry run the providers copy nothing to the staging directory, and   *)
(* the spec file is then missing.                                          *)
PrepareOk(c) == Preparing /\ PM!Settle(c) /\ ~opts.dryRun /\ UNCHANGED <<result, own>>

(* A failure of its own, or a lookup that the end of the context cut off:  *)
(* prepareOneComponent reports both as an error.                           *)
PrepareFail(c) == /\ Preparing /\ PM!Settle(c)
                  /\ result' = [result EXCEPT ![c] = Res("error", FALSE)]
                  /\ \/ own' = own \cup {c}
                     \/ ctxDone /\ UNCHANGED own

SkipPrepare(c) == /\ Preparing /\ PM!Skip(c)
                  /\ result' = [result EXCEPT ![c] = Res("cancelled", FALSE)]
                  /\ UNCHANGED own

EndPrepare == /\ phase = "prepare" /\ PM!Settled /\ phase' = "mock"
              /\ Steady
              /\ UNCHANGED <<out, todo, usable, stage, result, exit, status, ctxDone,
                             own, fault>>

-----------------------------------------------------------------------------
(* Phase 2: batchMockProcess, for the prepared components at once: each    *)
(* has a result or fails alone, or the batch fails and nobody has one.     *)
(* Then the orphans, whatever has happened so far.                         *)

MockBatch == /\ phase = "mock" /\ phase' = "prune"
             /\ \/ \E S \in SUBSET Prepared :
                      usable' = S /\ own' = own \cup (Prepared \ S)
                \/ ctxDone /\ usable' = {} /\ UNCHANGED own
             /\ todo' = IF opts.cleanStale /\ ~opts.checkOnly THEN Orphans ELSE {}
             /\ Steady
             /\ UNCHANGED <<out, stage, result, exit, status, ctxDone, fault>>

Pruning == /\ phase = "prune" /\ Steady
           /\ UNCHANGED <<usable, stage, result, ctxDone, own, fault>>

Prune(c) == /\ Pruning /\ c \in todo /\ todo' = todo \ {c}
            /\ out' = [out EXCEPT ![c] = Dir("absent", FALSE)]
            /\ UNCHANGED <<phase, exit, status>>

(* The first removal that fails ends the run: no component is finished,    *)
(* none is marked.  The directories may not be listed either.              *)
PruneFail == /\ Pruning /\ opts.cleanStale /\ ~opts.checkOnly /\ Ends("aborted")
             /\ \/ UNCHANGED out
                \/ \E c \in todo, w \in Wrecks : out' = [out EXCEPT ![c] = w]
             /\ UNCHANGED status

PruneEnd == /\ Pruning /\ todo = {} /\ phase' = "finish"
            /\ status' = PM!Batch(Prepared)
            /\ UNCHANGED <<out, todo, exit>>

-----------------------------------------------------------------------------
(* Phase 3: parallelFinish                                                 *)

Finishing == /\ phase = "finish" /\ Steady
             /\ UNCHANGED <<phase, todo, usable, exit, fault>>

(* The worker looks at the context once, before it touches the output.     *)
BeginFinish(c) == /\ Finishing /\ PM!Begin(c)
                  /\ stage' = [stage EXCEPT ![c] = IF ctxDone THEN "late" ELSE "open"]
                  /\ UNCHANGED <<out, result, own>>

Leaves(c, s, ch) == /\ PM!Settle(c)
                    /\ stage' = [stage EXCEPT ![c] = "none"]
                    /\ result' = [result EXCEPT ![c] = Res(s, ch)]

FinishLate(c) == /\ Finishing /\ stage[c] = "late"
                 /\ Leaves(c, "cancelled", FALSE)
                 /\ UNCHANGED <<out, own>>

SkipFinish(c) == /\ Finishing /\ PM!Skip(c)
                 /\ result' = [result EXCEPT ![c] = Res("cancelled", FALSE)]
                 /\ UNCHANGED <<out, stage, own>>

(* No mock result for it; or filtering or comparing its files fails; or    *)
(* its directory is in the way and may not be overwritten.                 *)
FinishFail(c) == /\ Finishing /\ stage[c] = "open"
                 /\ \/ c \notin usable /\ Leaves(c, "error", FALSE) /\ UNCHANGED own
                    \/ /\ c \in usable /\ Leaves(c, "error", FALSE)
                       /\ own' = own \cup {c}
                    \/ /\ c \in usable /\ ~opts.checkOnly /\ Exists(c) /\ ~opts.force
                       /\ Leaves(c, "error", Drift(c)) /\ own' = own \cup {c}
                 /\ UNCHANGED out

(* Mutant: comparing looks only whether the directory is there. *)
CompareExists(c) == /\ Finishing /\ stage[c] = "open" /\ c \in usable /\ opts.checkOnly
                    /\ Leaves(c, "ok", ~Exists(c))
                    /\ UNCHANGED <<out, own>>

Compare(c) == /\ Finishing /\ stage[c] = "open" /\ c \in usable /\ opts.checkOnly
              /\ Leaves(c, "ok", Drift(c))
              /\ UNCHANGED <<out, own>>

(* Mutant: the comparison comes after the clearing. *)
ClearFirst(c) == /\ Finishing /\ stage[c] = "open" /\ c \in usable /\ ~opts.checkOnly
                 /\ Exists(c) => opts.force
                 /\ stage' = [stage EXCEPT ![c] = "writing"]
                 /\ result' = [result EXCEPT ![c] = Res("none", TRUE)]
                 /\ out' = [out EXCEPT ![c] = Dir("bare", FALSE)]
                 /\ UNCHANGED <<status, ctxDone, own>>

(* The comparison is made before the directory is cleared, and kept.  From *)
(* here on the context is not consulted.                                   *)
Clear(c) == /\ Finishing /\ stage[c] = "open" /\ c \in usable /\ ~opts.checkOnly
            /\ Exists(c) => opts.force
            /\ stage' = [stage EXCEPT ![c] = "writing"]
            /\ result' = [result EXCEPT ![c] = Res("none", Drift(c))]
            /\ out' = [out EXCEPT ![c] = Dir("bare", FALSE)]
            /\ UNCHANGED <<status, ctxDone, own>>

CopyOk(c) == /\ Finishing /\ stage[c] = "writing"
             /\ Leaves(c, "ok", result[c].changed)
             /\ out' = [out EXCEPT ![c] = Fresh(c)]
             /\ UNCHANGED own

(* Removing, creating or copying fails half way. *)
CopyFail(c) == /\ Finishing /\ stage[c] = "writing"
               /\ Leaves(c, "error", result[c].changed)
               /\ \E w \in Wrecks \cup {Dir("bare", FALSE)} :
                     out' = [out EXCEPT ![c] = w]
               /\ own' = own \cup {c}

EndFinish == /\ phase = "finish" /\ PM!Settled
             /\ phase' = "mark" /\ todo' = Errors
             /\ Steady
             /\ UNCHANGED <<out, usable, stage, result, exit, status, ctxDone, own, fault>>

-----------------------------------------------------------------------------
(* writeFailureMarkers and the exit code                                   *)

Marking(c) == /\ phase = "mark" /\ c \in todo /\ todo' = todo \ {c}
              /\ Steady
              /\ UNCHANGED <<phase, usable, stage, exit, status, ctxDone, own>>

(* What --check-only finds of a component that failed: drift, unless its   *)
(* directory holds the marker and nothing else.                            *)
CheckMark(c) == /\ Marking(c) /\ opts.checkOnly
                /\ result' = [result EXCEPT ![c].changed = @ \/ out[c] # Marked]
                /\ UNCHANGED <<out, fault>>

(* Mutant: the directory of a component whose copy failed is not marked. *)
MarkOnlyAbsent(c) == /\ Marking(c) /\ ~opts.checkOnly
                     /\ IF Exists(c) THEN UNCHANGED out
                        ELSE out' = [out EXCEPT ![c] = Marked]
                     /\ UNCHANGED <<result, fault>>

(* With --force the directory is emptied first. *)
Mark(c) == /\ Marking(c) /\ ~opts.checkOnly
           /\ out' = [out EXCEPT ![c] = IF opts.force \/ ~Exists(c) THEN Marked
                                        ELSE Dir(out[c].tree, TRUE)]
           /\ UNCHANGED <<result, fault>>

(* Emptying, creating or writing fails, and is only logged; or looking at  *)
(* the directory fails, which counts as drift.                             *)
MarkFail(c) == /\ Marking(c) /\ fault' = TRUE
               /\ IF opts.checkOnly
                  THEN result' = [result EXCEPT ![c].changed = TRUE] /\ UNCHANGED out
                  ELSE /\ UNCHANGED result
                       /\ \E d \in Wrecks \cup {Dir("bare", FALSE), out[c]} :
                             /\ opts.force \/ ~Exists(c) \/ d = out[c]
                             /\ out' = [out EXCEPT ![c] = d]

(* checkOnlyRenderResult and checkRenderErrors. *)
Report ==
    /\ phase = "mark" /\ todo = {}
    /\ IF opts.checkOnly
       THEN Ends(IF \/ \E c \in comps : result[c].changed
                    \/ opts.all /\ opts.cleanStale /\ Orphans # {}
                 THEN "stale" ELSE "ok")
       ELSE Ends(IF /\ opts.failOnError
                    /\ \E c \in comps : result[c].status \in {"error", "cancelled"}
                 THEN "failed" ELSE "ok")
    /\ Steady /\ UNCHANGED <<out, usable, stage, result, status, ctxDone, own, fault>>

(* The orphans cannot be listed. *)
ListFail == /\ phase = "mark" /\ todo = {} /\ opts.checkOnly /\ opts.cleanStale
            /\ Ends("aborted")
            /\ Steady /\ UNCHANGED <<out, usable, stage, result, status, ctxDone, own, fault>>

(* The process is killed: the directories it was writing, or the one it    *)
(* was removing, are left as they are.                                     *)
Torn == IF phase = "finish" THEN {c \in comps : stage[c] = "writing"}
        ELSE IF phase = "prune" \/ (phase = "mark" /\ opts.force /\ ~opts.checkOnly)
             THEN todo ELSE {}

Crash == /\ phase # "idle" /\ Ends("crashed")
         /\ \E S \in SUBSET Torn, w \in Wrecks :
               /\ phase = "finish" \/ Cardinality(S) <= 1
               /\ out' = [c \in Components |-> IF c \in S THEN w ELSE out[c]]
         /\ Steady
         /\ UNCHANGED <<usable, stage, result, status, ctxDone, own, fault>>

-----------------------------------------------------------------------------
RunStep == \/ EndPrepare \/ MockBatch \/ PruneFail \/ PruneEnd \/ EndFinish
           \/ Report \/ ListFail
           \/ \E c \in Components :
                 \/ BeginPrepare(c) \/ PrepareOk(c) \/ PrepareFail(c) \/ SkipPrepare(c)
                 \/ Prune(c)
                 \/ BeginFinish(c) \/ FinishLate(c) \/ SkipFinish(c) \/ FinishFail(c)
                 \/ Compare(c) \/ Clear(c) \/ CopyOk(c) \/ CopyFail(c)
                 \/ CheckMark(c) \/ Mark(c) \/ MarkFail(c)

Next == \/ RunStep \/ Cancel \/ Crash
        \/ \E c \in Components : Edit(c)
        \/ \E o \in Options, S \in SUBSET present : Start(o, S)

Spec == Init /\ [][Next]_vars

-----------------------------------------------------------------------------
(* The run has printed its table. *)
Reported == exit \in {"ok", "failed", "stale"} /\ phase = "idle"

(* --check-only never changes the output tree, not even when it fails, is  *)
(* cancelled or is killed (render.go:117-121, "without modifying the       *)
(* output directory").                                                     *)
CheckOnlyWritesNothing == opts.checkOnly => out = before

(* A cancelled component keeps its output: neither the workers that had    *)
(* not begun nor the markers touch it (render.go:1079-1081).               *)
CancelledKeepsOutput == \A c \in comps :
    result[c].status = "cancelled" => out[c] = before[c] /\ ~result[c].changed

(* A run leaves the output of components it did not select alone, except   *)
(* that -a --clean-stale removes what the project no longer names.         *)
OnlySelected == \A c \in Components \ comps :
    out[c] # before[c] => /\ opts.cleanStale /\ ~opts.checkOnly
                          /\ drifted \/ c \notin present

(* When a writing run has ended, other than by being killed, and no marker *)
(* failed, each output directory it worked on is complete and today's, or  *)
(* carries a marker, or is as it was: a half-written one without a marker  *)
(* is never left behind.                                                   *)
CompleteOrMarked ==
    phase = "idle" /\ exit \in {"ok", "failed"} /\ ~opts.checkOnly /\ ~fault =>
        \A c \in comps :
            /\ result[c].status = "ok" => out[c].tree \in Contents /\ ~out[c].marker
            /\ result[c].status = "ok" /\ ~drifted => out[c] = Fresh(c)
            /\ result[c].status = "error" => out[c].marker
            /\ result[c].status = "cancelled" => out[c] = before[c]

(* The Changed column is true of the components that rendered: it says     *)
(* whether their directory was replaced by a different one (render.go:     *)
(* 704-711).                                                               *)
ChangedIsTrue ==
    Reported /\ ~opts.checkOnly => \A c \in comps :
        result[c].status = "ok" => (result[c].changed <=> out[c] # before[c])

(* What a --force run with the same results would leave.                   *)
Outcome(c) == IF result[c].status = "ok" THEN Fresh(c) ELSE Marked

(* --check-only says "stale" exactly when a --force run with the same      *)
(* results would leave another tree (1:1 parity, render.go:1085-1088).     *)
CheckAgrees ==
    Reported /\ opts.checkOnly /\ ~ctxDone /\ ~fault /\ ~drifted =>
        (exit = "ok" <=> /\ \A c \in comps : out[c] = Outcome(c)
                         /\ opts.cleanStale => Orphans = {})

(* "Cancelled components are intentionally skipped -- a Ctrl-C is not a    *)
(* render failure ... silently planting markers under those circumstances  *)
(* would lie in git diff" (render.go:1079-1081).                           *)
MarkerMeansFailure == \A c \in comps :
    out[c].marker /\ ~before[c].marker => c \in own

=============================================================================
