--------------------------- MODULE ComponentUpdate ---------------------------
(***************************************************************************)
(* `azldev component update`: a sequence of runs over one project.  A run  *)
(* reads each component's lock, decides from it whether the component must *)
(* be resolved again, resolves those that must through parmap.Map, writes  *)
(* the locks one after another and prunes the locks of components that are *)
(* gone; or, with --bump, rewrites the locks with a higher rebuild counter.*)
(* Between and during runs upstream moves; between runs the user edits the *)
(* configuration.  A run may be cancelled (Ctrl-C), may fail at any write  *)
(* and may be killed.                                                      *)
(*                                                                         *)
(* A lock is a record even when there is no readable file (file "missing"  *)
(* or "corrupt", all fields empty), the value lockfile.New gives GetOrNew. *)
(* A fingerprint is the tuple of what it hashes: the hash is taken to have *)
(* no collisions.  The order of the components is the order of a Go map,   *)
(* so a loop over them takes any one that is left.                         *)
(***************************************************************************)
EXTENDS Naturals, FiniteSets

CONSTANTS Components,
          Snapshots,  \* resolution inputs that name a snapshot time
          Pins,       \* resolution inputs that name a commit
          Heads,      \* resolution inputs with neither: the branch HEAD
          Ids,        \* source identities: upstream commits, spec-dir hashes
          Builds,     \* everything else in the config that is fingerprinted
          BadBuilds,  \* those ComputeIdentity refuses (source file, no hash)
          Slots,      \* env.FastConcurrency()
          None,       \* the empty string
          MaxRuns, MaxEnv   \* bounds: runs, edits of the project or upstream

ASSUME ConfigAssumption == /\ BadBuilds \subseteq Builds
                           /\ None \notin Snapshots \cup Pins \cup Heads
                           /\ None \notin Ids \cup Pins
                           /\ Snapshots \cap (Pins \cup Heads) = {}
                           /\ "local" \notin Snapshots \cup Heads
                           /\ Pins \cap Heads = {}

VARIABLES present,   \* the components the configuration names
          cfg,       \* their resolved configuration
          tip,       \* what resolving a component now would yield, by input
          disk,      \* the lock directory
          opts, comps, phase, todo, result, exit,   \* the run, see below
          status, ctxDone,                          \* its parmap.Map call
          before, origin, drifted,                  \* history, see below
          runs, envs

PM == INSTANCE ParallelMap WITH Items <- Components

world  == <<present, cfg, tip>>
runvars == <<opts, comps, phase, todo, result, exit>>
bounds == <<runs, envs>>
vars == <<world, disk, runvars, status, ctxDone, before, origin, drifted, bounds>>

ResIn   == Snapshots \cup Pins \cup Heads
Sources == Snapshots \cup Heads \cup {"local"}
Commits == Ids \cup Pins

Configs == [type : {"upstream"}, res : ResIn, build : Builds]
           \cup [type : {"local"}, res : {None}, build : Builds]

Fingerprints == [type : {"upstream", "local"}, pin : Pins \cup {None},
                 build : Builds, id : Commits, bump : Nat]

(* A hash is never the empty string. *)
ASSUME HashAssumption == None \notin Fingerprints

Locks == [file : {"ok", "missing", "corrupt"}, commit : Commits \cup {None},
          import : Commits \cup {None}, bump : Nat,
          fp : Fingerprints \cup {None}, res : ResIn \cup {None}]

Blank(f) == [file |-> f, commit |-> None, import |-> None, bump |-> 0,
             fp |-> None, res |-> None]

(* What a run has found out about a component.  Kinds: "current", "reuse"  *)
(* and "resolved" carry an identity; "error" and "skipped" do not.         *)
Results == [kind : {"none", "current", "reuse", "resolved", "error", "skipped"},
            commit : Commits \cup {None}, id : Commits \cup {None},
            changed : BOOLEAN]

NoResult(k) == [kind |-> k, commit |-> None, id |-> None, changed |-> FALSE]

Options == {o \in [bump : BOOLEAN, checkOnly : BOOLEAN, force : BOOLEAN,
                   all : BOOLEAN] : o.bump => ~o.checkOnly /\ ~o.force}

Exits == {"none", "running", "ok", "stale", "unresolved", "aborted",
          "cancelled", "crashed"}

-----------------------------------------------------------------------------
(* Resolving and fingerprinting                                            *)

(* A pin is its own identity; a snapshot and HEAD are looked up upstream,  *)
(* a local component's spec directory is hashed.                           *)
Identity(c) == LET k == cfg[c] IN
    IF k.type = "local" THEN tip[c]["local"]
    ELSE IF k.res \in Pins THEN k.res ELSE tip[c][k.res]

(* The snapshot is not fingerprinted (distro.go tags it fingerprint:"-");  *)
(* a pin is a hashed field of the component.                               *)
Fingerprint(k, id, bump) ==
    [type |-> k.type, pin |-> IF k.res \in Pins THEN k.res ELSE None,
     build |-> k.build, id |-> id, bump |-> bump]

(* Mutant: a lock without a resolution hash passes for fresh. *)
MustResolveLegacyFresh(c, force) == LET k == cfg[c] L == disk[c] IN
    \/ force \/ k.type # "upstream" \/ L.file # "ok"
    \/ k.res \in Heads
    \/ L.res \notin {k.res, None}
    \/ L.fp = None \/ L.commit = None \/ k.build \in BadBuilds

(* Case 3 of classifyForResolution: no freshness verdict (forced, local,   *)
(* no readable lock, nothing to compare, no fingerprint), or resolution    *)
(* inputs that differ from the ones the lock was resolved under, or HEAD,  *)
(* whose commit the inputs do not determine.                               *)
MustResolve(c, force) == LET k == cfg[c] L == disk[c] IN
    \/ force \/ k.type # "upstream" \/ L.file # "ok"
    \/ k.res \in Heads
    \/ L.res # k.res
    \/ L.fp = None \/ L.commit = None \/ k.build \in BadBuilds

(* Cases 1 and 2: the lock's commit stands; only the fingerprint may not.  *)
Reuse(c) == LET L == disk[c] IN
    [kind |-> IF L.fp = Fingerprint(cfg[c], L.commit, L.bump)
              THEN "current" ELSE "reuse",
     commit |-> L.commit, id |-> L.commit, changed |-> FALSE]

Classify(S, force) == [c \in Components |->
    IF c \in S /\ ~MustResolve(c, force) THEN Reuse(c) ELSE NoResult("none")]

(* What a worker records: resolveAndRecordIdentity and checkLockChanged.   *)
Resolved(c) == LET commit == IF cfg[c].type = "upstream" THEN Identity(c) ELSE None IN
    IF disk[c].file = "corrupt" THEN NoResult("error")
    ELSE [kind |-> "resolved", commit |-> commit, id |-> Identity(c),
          changed |-> disk[c].file = "missing" \/ disk[c].commit # commit]

(* Mutant: the lock is always started from an empty one. *)
NewLockFromScratch(c, r) == LET k == cfg[c] IN
    [file |-> "ok", commit |-> r.commit,
     import |-> IF k.type = "local" THEN None ELSE r.commit,
     bump |-> 0, fp |-> Fingerprint(k, r.id, 0),
     res |-> IF k.type = "upstream" THEN k.res ELSE None]

(* Mutant: the resolution hash is not refreshed. *)
NewLockKeepsRes(c, r) == LET k == cfg[c] L == disk[c] IN
    [file |-> "ok", commit |-> r.commit,
     import |-> IF k.type = "local" THEN None
                ELSE IF L.import = None THEN r.commit ELSE L.import,
     bump |-> L.bump, fp |-> Fingerprint(k, r.id, L.bump), res |-> L.res]

(* The lock updateComponentLock would write for result r: ImportCommit is  *)
(* cleared for a local component and seeded once for an upstream one;      *)
(* updateResolutionHash leaves a local component's hash alone.             *)
NewLock(c, r) == LET k == cfg[c] L == disk[c] IN
    [file |-> "ok", commit |-> r.commit,
     import |-> IF k.type = "local" THEN None
                ELSE IF L.import = None THEN r.commit ELSE L.import,
     bump |-> L.bump, fp |-> Fingerprint(k, r.id, L.bump),
     res |-> IF k.type = "upstream" THEN k.res ELSE L.res]

(* Mutant: only a new commit counts as a change. *)
ChangesCommitOnly(c, r) == r.changed

(* "Changed" is what the user sees; a new resolution hash alone is written *)
(* but not reported.                                                       *)
Changes(c, r) == r.changed \/ disk[c].fp # NewLock(c, r).fp
Writes(c, r)  == Changes(c, r) \/ disk[c].res # NewLock(c, r).res

(* The identity bump fingerprints with: the locked commit, or the hash of  *)
(* the spec directory.  Bump touches no other field.                       *)
BumpedLock(c) == LET L == disk[c]
                     id == IF cfg[c].type = "upstream" THEN L.commit ELSE Identity(c)
    IN [file |-> L.file, commit |-> L.commit, import |-> L.import, bump |-> L.bump + 1,
        fp |-> Fingerprint(cfg[c], id, L.bump + 1), res |-> L.res]

Bumpable(c) == /\ disk[c].file = "ok"
               /\ cfg[c].type = "upstream" => disk[c].commit # None
               /\ cfg[c].build \notin BadBuilds

Savable(c) == disk[c].file # "corrupt" /\ cfg[c].build \notin BadBuilds

Orphans == {c \in Components : disk[c].file # "missing" /\ c \notin present}

-----------------------------------------------------------------------------
TypeOK == /\ present \subseteq Components
          /\ cfg \in [Components -> Configs]
          /\ tip \in [Components -> [Sources -> Ids]]
          /\ disk \in [Components -> Locks]
          /\ opts \in Options
          /\ comps \subseteq Components /\ todo \subseteq Components
          /\ phase \in {"idle", "resolve", "save", "prune", "bump"}
          /\ result \in [Components -> Results]
          /\ exit \in Exits
          /\ PM!PMTypeOK
          /\ before \in [Components -> Locks]
          /\ origin \in [Components -> ResIn \cup {None}]
          /\ drifted \in BOOLEAN
          /\ runs \in Nat /\ envs \in Nat

(* A lock written before locks had a resolution hash. *)
Legacy(c) == LET commit == IF cfg[c].type = "upstream" THEN Identity(c) ELSE None IN
    [file |-> "ok", commit |-> commit, import |-> None, bump |-> 0,
     fp |-> Fingerprint(cfg[c], Identity(c), 0), res |-> None]

(* History: before is the directory at the start of the run, less what the *)
(* user has deleted since; origin[c], the inputs the lock's commit was     *)
(* resolved under; drifted, whether the project or upstream has moved      *)
(* since the run started.                                                  *)
Init == /\ present \in SUBSET Components
        /\ cfg \in [Components -> Configs]
        /\ \E i \in Ids : tip = [c \in Components |-> [s \in Sources |-> i]]
        /\ \E old \in SUBSET Components :
              disk = [c \in Components |-> IF c \in old THEN Legacy(c) ELSE Blank("missing")]
        /\ opts = [bump |-> FALSE, checkOnly |-> FALSE, force |-> FALSE, all |-> FALSE]
        /\ comps = {} /\ todo = {} /\ phase = "idle" /\ exit = "none"
        /\ result = [c \in Components |-> NoResult("none")]
        /\ status = PM!Batch({}) /\ ctxDone = FALSE
        /\ before = disk
        /\ origin = [c \in Components |-> None]
        /\ drifted = FALSE
        /\ runs = 0 /\ envs = 0

-----------------------------------------------------------------------------
(* The environment                                                         *)

Moves == /\ envs < MaxEnv /\ envs' = envs + 1
         /\ drifted' = TRUE
         /\ UNCHANGED <<runvars, status, ctxDone, runs>>

(* Upstream gets a commit, even behind a snapshot; or a spec dir changes. *)
MoveTip(c, s, i) == /\ Moves
                    /\ tip[c][s] # i
                    /\ tip' = [tip EXCEPT ![c] = [tip[c] EXCEPT ![s] = i]]
                    /\ UNCHANGED <<present, cfg, disk, before, origin>>

(* The configuration is read once per run, so its edits between runs do. *)
EditConfig(c, k) == /\ phase = "idle" /\ Moves
                    /\ cfg[c] # k
                    /\ cfg' = [cfg EXCEPT ![c] = k]
                    /\ UNCHANGED <<present, tip, disk, before, origin>>

AddOrRemove(c) == /\ phase = "idle" /\ Moves
                  /\ present' = IF c \in present THEN present \ {c} ELSE present \cup {c}
                  /\ UNCHANGED <<cfg, tip, disk, before, origin>>

DeleteLock(c) == /\ phase = "idle" /\ Moves
                 /\ disk[c].file # "missing"
                 /\ disk' = [disk EXCEPT ![c] = Blank("missing")]
                 /\ before' = [before EXCEPT ![c] = Blank("missing")]
                 /\ origin' = [origin EXCEPT ![c] = None]
                 /\ UNCHANGED world

-----------------------------------------------------------------------------
(* A run                                                                   *)

Ends(e) == phase' = "idle" /\ todo' = {} /\ exit' = e

Start(o, S) ==
    /\ phase = "idle" /\ runs < MaxRuns /\ runs' = runs + 1
    /\ opts' = o /\ comps' = S /\ exit' = "running"
    /\ IF o.bump
       THEN /\ phase' = "bump" /\ todo' = S
            /\ result' = [c \in Components |-> NoResult("none")]
            /\ status' = PM!Batch({})
       ELSE /\ phase' = "resolve" /\ todo' = {}
            /\ result' = Classify(S, o.force)
            /\ status' = PM!Batch({c \in S : MustResolve(c, o.force)})
    /\ ctxDone' = FALSE /\ before' = disk /\ drifted' = FALSE
    /\ UNCHANGED <<world, disk, origin, envs>>

(* Without -a the filter must name something; with -a an empty project is  *)
(* legal, and then every lock is an orphan.                                *)
StartRun(o) == IF o.all THEN Start(o, present)
               ELSE \E S \in (SUBSET present) \ {{}} : Start(o, S)

Resolving == /\ phase = "resolve"
             /\ UNCHANGED <<world, disk, opts, comps, phase, todo, exit,
                            before, origin, drifted, bounds>>

BeginResolve(c) == Resolving /\ PM!Begin(c) /\ UNCHANGED result

ResolveOk(c) == /\ Resolving /\ PM!Settle(c)
                /\ result' = [result EXCEPT ![c] = Resolved(c)]

(* Any step of the lookup fails, because of the context or otherwise. *)
ResolveFail(c) == /\ Resolving /\ PM!Settle(c)
                  /\ result' = [result EXCEPT ![c] = NoResult("error")]

SkipResolve(c) == /\ Resolving /\ PM!Skip(c)
                  /\ result' = [result EXCEPT ![c] = NoResult("skipped")]

Cancel == /\ phase # "idle" /\ PM!EndContext
          /\ UNCHANGED <<world, disk, runvars, before, origin, drifted, bounds>>

Quiet == UNCHANGED <<world, status, ctxDone, before, drifted, bounds>>

(* Mutant: an item that failed is handed to the save loop all the same. *)
CheckCancelledKeepsErrors ==
    /\ phase = "resolve" /\ PM!Settled
    /\ IF ctxDone THEN Ends("cancelled")
       ELSE /\ phase' = "save" /\ UNCHANGED exit
            /\ todo' = {c \in comps : result[c].kind # "current"}
    /\ UNCHANGED <<disk, opts, comps, result, origin>> /\ Quiet

CheckCancelled ==
    /\ phase = "resolve" /\ PM!Settled
    /\ IF ctxDone THEN Ends("cancelled")
       ELSE /\ phase' = "save" /\ UNCHANGED exit
            /\ todo' = {c \in comps : result[c].kind \in {"reuse", "resolved"}}
    /\ UNCHANGED <<disk, opts, comps, result, origin>> /\ Quiet

(* What a successful write does to the history. *)
Recorded(c) ==
    IF result[c].kind = "resolved" THEN cfg[c].res ELSE origin[c]

Saving(c) == /\ phase = "save" /\ c \in todo
             /\ UNCHANGED <<opts, comps>> /\ Quiet

(* The result of c once it is known whether its lock changes. *)
Noted(c) == [result[c] EXCEPT !.changed = Changes(c, result[c])]

SaveOne(c) == LET new == NewLock(c, result[c]) IN
    /\ Saving(c) /\ Savable(c)
    /\ result' = [result EXCEPT ![c] = Noted(c)]
    /\ todo' = todo \ {c}
    /\ IF Writes(c, result[c]) /\ ~opts.checkOnly
       THEN /\ disk' = [disk EXCEPT ![c] = new]
            /\ origin' = [origin EXCEPT ![c] = Recorded(c)]
       ELSE UNCHANGED <<disk, origin>>
    /\ UNCHANGED <<phase, exit>>

(* No fingerprint, no lock: the run stops, and the locks after this one    *)
(* are not written.                                                        *)
SaveAbort(c) == /\ Saving(c) /\ ~Savable(c) /\ Ends("aborted")
                /\ UNCHANGED <<disk, origin, result>>

(* WriteFile truncates and writes in place: a failed write leaves the old  *)
(* lock or an unreadable file.                                             *)
Torn(c) == \/ UNCHANGED <<disk, origin>>
           \/ /\ disk' = [disk EXCEPT ![c] = Blank("corrupt")]
              /\ origin' = [origin EXCEPT ![c] = None]

SaveFail(c) == /\ Saving(c) /\ Savable(c)
               /\ Writes(c, result[c]) /\ ~opts.checkOnly
               /\ Torn(c) /\ Ends("aborted")
               /\ result' = [result EXCEPT ![c] = Noted(c)]

Failed == {c \in comps : result[c].kind = "error"}

(* checkUpdateErrors, then handleOrphanLocks or checkOnlyResult. *)
AfterSave ==
    /\ phase = "save" /\ todo = {}
    /\ IF Failed # {} THEN Ends("unresolved")
       ELSE IF opts.checkOnly
            THEN Ends(IF \/ \E c \in comps : result[c].changed
                         \/ opts.all /\ Orphans # {}
                      THEN "stale" ELSE "ok")
       ELSE IF opts.all THEN phase' = "prune" /\ todo' = Orphans /\ UNCHANGED exit
       ELSE Ends("ok")
    /\ UNCHANGED <<disk, opts, comps, result, origin>> /\ Quiet

(* The lock directory cannot be listed. *)
ListFail == /\ phase = "save" /\ todo = {} /\ Failed = {} /\ opts.all
            /\ Ends("aborted")
            /\ UNCHANGED <<disk, opts, comps, result, origin>> /\ Quiet

(* PruneOrphans goes on after a failed removal and reports it at the end. *)
Prune(c) == /\ phase = "prune" /\ c \in todo /\ todo' = todo \ {c}
            /\ \/ /\ disk' = [disk EXCEPT ![c] = Blank("missing")]
                  /\ origin' = [origin EXCEPT ![c] = None]
                  /\ UNCHANGED exit
               \/ exit' = "aborted" /\ UNCHANGED <<disk, origin>>
            /\ UNCHANGED <<opts, comps, phase, result>> /\ Quiet

PruneEnd == /\ phase = "prune" /\ todo = {}
            /\ Ends(IF exit = "running" THEN "ok" ELSE exit)
            /\ UNCHANGED <<disk, opts, comps, result, origin>> /\ Quiet

Bumping == phase = "bump" /\ UNCHANGED <<opts, comps, result>> /\ Quiet

BumpOne(c) == /\ Bumping /\ c \in todo /\ ~ctxDone /\ Bumpable(c)
              /\ disk' = [disk EXCEPT ![c] = BumpedLock(c)]
              /\ todo' = todo \ {c}
              /\ UNCHANGED <<phase, exit, origin>>

(* Bump stops at the first component it cannot bump, or cannot write.      *)
BumpFail(c) == /\ Bumping /\ c \in todo /\ ~ctxDone /\ Ends("aborted")
               /\ \/ UNCHANGED <<disk, origin>>
                  \/ Bumpable(c) /\ Torn(c)

BumpEnd == /\ Bumping
           /\ \/ todo = {} /\ Ends("ok")
              \/ todo # {} /\ ctxDone /\ Ends("cancelled")
           /\ UNCHANGED <<disk, origin>>

(* The process is killed, perhaps in the middle of a write. *)
Crash == /\ phase # "idle" /\ Ends("crashed")
         /\ \/ UNCHANGED <<disk, origin>>
            \/ \E c \in todo :
                  /\ \/ phase = "bump" /\ Bumpable(c)
                     \/ phase = "save" /\ Savable(c) /\ Writes(c, result[c])
                        /\ ~opts.checkOnly
                  /\ Torn(c)
         /\ UNCHANGED <<opts, comps, result>> /\ Quiet

-----------------------------------------------------------------------------
RunStep == \/ CheckCancelled \/ AfterSave \/ ListFail \/ PruneEnd \/ BumpEnd
           \/ \E c \in Components :
                 \/ BeginResolve(c) \/ ResolveOk(c) \/ ResolveFail(c) \/ SkipResolve(c)
                 \/ SaveOne(c) \/ SaveAbort(c) \/ SaveFail(c)
                 \/ Prune(c) \/ BumpOne(c) \/ BumpFail(c)

EnvStep == \E c \in Components :
              \/ \E s \in Sources, i \in Ids : MoveTip(c, s, i)
              \/ \E k \in Configs : EditConfig(c, k)
              \/ AddOrRemove(c) \/ DeleteLock(c)

Next == \/ RunStep \/ Cancel \/ Crash \/ EnvStep
        \/ \E o \in Options : StartRun(o)

Spec == Init /\ [][Next]_vars

-----------------------------------------------------------------------------
(* A component that failed to resolve, or was never tried, keeps its lock  *)
(* as it was before the run, through the saves, the failures and the       *)
(* crashes of the others (update.go:64-66).                                *)
FailedUntouched == \A c \in comps :
    result[c].kind \in {"error", "skipped"} => disk[c] = before[c]

(* A --check-only run, and an update cancelled while it resolves, leave    *)
(* the whole lock directory as it was, even when the run fails or is       *)
(* killed on the way (update.go:208-211 and 447-452).                      *)
WritesNothing ==
    opts.checkOnly \/ (exit = "cancelled" /\ ~opts.bump) => disk = before

(* The fingerprint in an upstream lock was computed from the commit and    *)
(* the rebuild counter that stand next to it, after any sequence of        *)
(* updates, bumps, failures and changes of the source type: later commands *)
(* compare against it without resolving.                                   *)
SelfConsistent == \A c \in Components : LET L == disk[c] IN
    L.fp # None => /\ L.fp.bump = L.bump
                   /\ L.fp.type = "upstream" => L.fp.id = L.commit

(* The commit in a lock was resolved under the resolution inputs whose     *)
(* hash stands next to it, so that finding the hash unchanged justifies    *)
(* reusing the commit (fingerprint.go:203-213).                            *)
CommitProvenance == \A c \in Components :
    disk[c].res # None /\ disk[c].commit # None => origin[c] = disk[c].res

(* --bump raises the counter of each selected component by exactly one,    *)
(* or not at all when the run stops before it; update never touches it.    *)
BumpCountsOnce == \A c \in Components :
    disk[c].file = "ok" /\ before[c].file = "ok" =>
        LET by == disk[c].bump - before[c].bump IN
        /\ by \in {0, 1}
        /\ ~opts.bump \/ c \notin comps => by = 0
        /\ opts.bump /\ c \in comps => /\ exit = "ok" => by = 1
                                       /\ phase = "bump" => (by = 0 <=> c \in todo)

(* What the next plain update would leave in c's lock, if it could. *)
NextLock(c) == LET r == IF MustResolve(c, FALSE) THEN Resolved(c) ELSE Reuse(c) IN
    IF r.kind # "current" /\ Writes(c, r) THEN NewLock(c, r) ELSE disk[c]

(* c's lock says what the project and upstream say: the fingerprint is the *)
(* one of today's configuration and of the locked commit, and where the    *)
(* lock does not decide the commit (HEAD, new inputs), it is today's.      *)
Describes(c) == LET k == cfg[c] L == disk[c] IN
    /\ L.file = "ok"
    /\ k.type = "local" => L.commit = None /\ L.fp = Fingerprint(k, Identity(c), L.bump)
    /\ k.type = "upstream" =>
          /\ L.commit # None /\ L.fp = Fingerprint(k, L.commit, L.bump)
          /\ k.res \in Heads \/ L.res # k.res => L.commit = Identity(c)

(* After a successful `update -a`, and until the project or upstream       *)
(* moves, every lock describes its component under the current resolution  *)
(* inputs, and another update would find nothing to write and nothing to   *)
(* prune: the shortcuts of the freshness check lose no change.             *)
UpdateIsIdempotent ==
    exit = "ok" /\ opts.all /\ ~opts.bump /\ ~opts.checkOnly /\ ~drifted =>
        /\ Orphans = {}
        /\ \A c \in present : /\ Describes(c) /\ NextLock(c) = disk[c]
                               /\ cfg[c].type = "upstream" => disk[c].res = cfg[c].res

(* When --check-only exits 0, every lock it looked at describes its        *)
(* component, an update would change no commit and no fingerprint, and     *)
(* with -a it would prune nothing (update.go:102-106).                     *)
CheckOkMeansFresh == exit = "ok" /\ opts.checkOnly /\ ~drifted =>
    /\ opts.all => Orphans = {}
    /\ \A c \in comps : /\ Describes(c)
                         /\ NextLock(c).commit = disk[c].commit
                         /\ NextLock(c).fp = disk[c].fp

(* A run that reports only unresolved components, or none, has written     *)
(* the result of every other one (update.go:64-66, "successful components  *)
(* are still written before the command returns an error").                *)
SuccessesWritten ==
    [][exit = "running" /\ exit' \in {"ok", "unresolved"}
          /\ ~opts.bump /\ ~opts.checkOnly =>
       \A c \in comps : result[c].kind \in {"reuse", "resolved"} =>
          /\ disk'[c].file = "ok" /\ disk'[c].commit = result[c].commit
          /\ disk'[c].fp = Fingerprint(cfg[c], result[c].id, disk'[c].bump)]_vars

(* A run removes a lock only in an unfiltered, writing update in which no  *)
(* component failed, and only when its component is gone.                  *)
PruneOnlyAfterCleanRun ==
    [][\A c \in Components :
          phase # "idle" /\ disk[c].file # "missing" /\ disk'[c].file = "missing" =>
             /\ opts.all /\ ~opts.checkOnly /\ ~opts.bump /\ c \notin present
             /\ \A d \in comps : result[d].kind \notin {"error", "skipped"}]_vars

(* Upstream moving behind an unchanged snapshot or pin does not change a   *)
(* locked commit; only --force-recalculate, new resolution inputs or a     *)
(* lock that lacks a hash do (fingerprint.go:209-213).                     *)
StableCommit ==
    [][\A c \in Components :
          disk[c].file = "ok" /\ disk'[c].file = "ok"
          /\ disk'[c].commit # disk[c].commit =>
             \/ opts.force \/ cfg[c].type = "local" \/ cfg[c].res \in Heads
             \/ disk[c].res # cfg[c].res \/ disk[c].fp = None \/ disk[c].commit = None]_vars

Registry == INSTANCE LockRegistry

(* Whatever runs, fails or is killed, the lock directory behaves as a      *)
(* registry of independent locks: one at a time is refreshed, rebuilt,     *)
(* removed or damaged (saveComponentLocks, bumpComponents, PruneOrphans).  *)
ImplementsRegistry == Registry!RegSpec
=============================================================================
