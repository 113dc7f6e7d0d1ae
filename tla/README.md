# azldev: a TLA+ verification project

`azldev` maintains the packages of a Linux distribution.  A project directory
names components (source packages) and says where their sources come from; the
tool resolves each one to a commit, records that in a lock file, prepares its
sources (with overlays that edit them), renders them into a directory that is
committed to git, builds them, and makes, boots and tests images of the result.
This directory holds TLA+ models of the parts of the tool whose correctness
depends on order, failure, history or a delicate algorithm, the TLC
configurations that check them, and TLAPS proofs about them.

`PROJECT.json` maps every definition to the source lines it translates, lists
the runs with their properties, a mutant for each property (a plausible bug
that the run must find), the hazards and the theorems.

Contents: 1 the system; 2 the modules; 3 the runs and what they show;
4 the proofs; 5 where the code and its documentation disagree; 6 what is left
out and why; 7 the plan.

## 1. The system

azldev is a command-line program (and, as `azldev advanced mcp`, a server that
serves the same commands from one process).  A command loads the TOML project
configuration, resolves the components it selects, and runs them through some
of the parts below.  Ctrl-C ends the context every part gets; nothing else
stops a command but an error, a kill or its end.

| Part (source) | State it keeps | Operations | What is hard, and what makes it correct |
|---|---|---|---|
| **parmap** (`utils/parmap`) | goroutines, an errgroup semaphore, a progress counter under a mutex | `Map(ctx, limit, items, worker, onProgress)` | Interleaving with cancellation.  The pool is bounded, each item has one outcome, progress counts 1, 2, 3, ..., Map returns. |
| **lock files and lock store** (`lockfile`) | `locks/*.lock`, rewritten in place; a cache of parsed locks in the process | Get, GetOrNew, Save, Remove, PruneOrphans, Exists | Several goroutines; torn writes; failures in the middle of a prune.  The cache agrees with the files, an empty lock is only handed out where there is no file. |
| **component update** (`cmds/component/update.go`) | none of its own between runs; it writes the locks | update of some or all components, `--check-only`, `--bump`, `--force-recalculate` | Two stored hashes decide whether a component is resolved again; failures, Ctrl-C and crashes between writes.  Nothing stale passes for fresh, what failed is untouched, lock fields agree. |
| **fingerprint** (`fingerprint`) | none | ComputeIdentity, resolution-input hash | Which input changes which hash. |
| **render** (`cmds/component/render.go`) | the rendered output tree, staging directories | prepare in parallel, one mock batch, prune, finish in parallel, failure markers; `--check-only`, `--force`, `--clean-stale`, `--fail-on-error` | A directory is removed and rebuilt; cancellation and failure in every phase.  No half-written directory without a marker, nothing lost that was not asked for, `--check-only` predicts a run. |
| **source preparation** (`core/sources`) | an output directory and its `sources` file | PrepareSources: fetch, overlays, rehashing, merge | Hashes come from upstream, the configuration and the disk, before and after archives are repacked.  Afterwards all agree. |
| **source manager and providers** (`providers/sourceproviders`, `utils/retry`, `utils/downloader`) | files in the output directory, a temporary clone | FetchComponent, FetchFiles, ResolveIdentity | Cache, provider and origin are tried in turn, each with retries.  A download that stays under the name of a file has met its hash, and the clone goes. |
| **overlays and spec editing** (`core/sources/overlays.go`, `rpm/spec`) | the spec and the files beside it | the overlay types; the walk over a spec, its edits, the structural tree | Line edits under a moving cursor, in text whose sections and conditionals cross.  An edit reaches every match, leaves the rest, and what it adds counts where it was asked for. |
| **build** (`cmds/component/build.go`, `core/componentbuilder`, `utils/localrepo`) | the output directory, a local repository | build a list of components, publish each one to the repository the next ones read | A chain in which one step fails, is cancelled or killed.  The repository's metadata describes its files, a later build sees earlier ones. |
| **mock and its processor** (`rpm/mock`, `core/sources/mockprocessor.go`) | two chroots, set up once | BatchProcess, Destroy, scrub | Set-up errors that are remembered; a chroot used after it was scrubbed. |
| **synthetic history** (`core/sources/synthistory*.go`, `release.go`) | commits in the checkout of dist-git | interleaves upstream commits with those of the project; release numbers | What is rendered before a commit is rendered after it; published entries stay. |
| **component changed** (`changed*.go`) | none | compares two revisions | "Unchanged" is true. |
| **upstream-commit pins** (`upstreamcommit`, `refreshupstreamcommit.go`) | generated files, one per component | refresh, `--check-only` | The pins are part of the configuration that is loaded to refresh them. |
| **configuration and resolver** (`projectconfig`, `core/components`) | the loaded configuration | load, merge, validate; select components | Layers merged in the order of includes, groups in the random order of a map.  A component is the same however it is selected. |
| **repositories, tests, packages** (`projectconfig/resources.go`, `tests.go`, `package.go`; `cmds/repo`, `cmds/pkg`) | none | validation, expansion of repository sets, `repo query`, `repo compare` with the inventories of two sets (`repo/repocompare`), `package list`, the tests of an image | The same question is answered in two places of the code, which have to agree; a report of differences misses none, and has none too many. |
| **shell** (`app.go`, `env.go`, `command.go`), **external commands**, **MCP server** | one process: Env, temporary directory, option variables; a child and its listener | start, configuration, signals, report, exit; tool calls | What a process leaves behind; what one call leaves to the next. |
| **images** (`cmds/image`) | work directories, links in the output directory, Python environments, clones of LISA | image build, boot, test | State kept from run to run, left by runs that were killed. |
| **agent files** (`agentskill`, `cmds/docs/agent.go`) | skills and instructions in a repository; two MCP configurations that belong to the user as well | `docs agent install` | Some fifteen files written one by one, by installs of different modes, layouts and versions that stop anywhere.  An instruction names skills that are there, nobody else's server is lost, a second run changes nothing. |
| rpm versions and queries; reports; utilities; generators | none that outlives a command | | Not modelled: section 6. |

How they interact: every command loads the **configuration** and selects with
the **resolver**.  `update` takes freshness verdicts from the resolver,
resolves through **parmap** with the **source manager**'s ResolveIdentity, and
writes through the **lock store**, which the resolver, `render`, `build`, the
**synthetic history** and `changed` read; in the mode without lock files the
**pins** take its place.  `render` calls parmap twice, around a batch of the
**mock processor**, and **source preparation** once per component from parmap's
workers; `build` and `prepare-sources` call source preparation without
skipping downloads.  Source preparation calls the source manager, whose
downloads go through **retry** and **downloader**, applies the **overlays**, and
ends with the synthetic history.

## 2. The modules

| Module | What it models | State and actions, against the code |
|---|---|---|
| `ParallelMap` | what a caller of parmap.Map may rely on | `status[i]`: pending, running, value or cancelled; `Begin`, `Settle`, `Skip`; the context may end. |
| `Parmap` | the code of parmap.Map | `pc` of the calling goroutine and of one goroutine per item; the semaphore's `tokens`; the `mutex`; the statement-level steps of the launch loop, of the drain after a cancellation and of a worker. |
| `ComponentUpdate` | runs of `component update` over a changing project | `disk`, the lock directory; `cfg`, `tip`, `present`, the world; `phase`, `todo`, `result`, `exit`, the run.  `StartRun` is the resolver's verdict and the choice of mode; the parmap phase is an instance of `ParallelMap`; `SaveOne`, `SaveAbort`, `SaveFail`, `Prune`, `BumpOne`, ... are one lock each; `Cancel`, `Crash` and the edits of user and upstream interleave. |
| `LockRegistry` | what the lock directory promises its readers | abstract specification of `disk` alone: locks change one at a time, each by a refresh, a rebuild, a removal or damage. |
| `LockStore` | the cache in front of the lock directory | `disk`, `cache`, and `call[p]` for each goroutine.  Each cache operation, read, stat and unlink, and both halves of a write, is one action. |
| `RenderPipeline` | runs of `component render` over one output tree | `out[c]`: what a directory holds and whether a marker is in it; `stage[c]` between clearing and copying; two instances of the abstract map; one action per phase step and its failure; `Cancel` and `Crash`. |
| `SourcePrep` | PrepareSources of one component | `files` in the clone and in the output directory, and in which of them one was cut short (`cut`); `sources`, the download under way (`job`), the position in 'source-files' (`next`); every failing answer of a server is an action. |
| `Build` | runs of `component build` over a list | `run`, where the command is; `out` and `repo`, whose files are the number of the run that made them; `root`, `proc`, `prov`, the two chroots.  One action per call of mock or createrepo_c, with its failure; `Cancel` and `Kill` anywhere. |
| `History` | synthetic history and `changed`, for one component | `tree` and `log`, the project's repository.  Edits, updates, renders and commits are actions; the walk of dist-git, the interleaving, the release and the classification are operators. |
| `Pins` | runs of `refresh-upstream-commit` | `pins`, the generated files; `kind` and `tip`, configuration and upstream; `refresh`, the run: inspect, resolve, save one by one, prune. |
| `Catalog` | repositories, tests and packages of a configuration | operators without state: validation, expansion of repository sets, and the answers of the commands that use them; `LoadRepositories` and `Reports` are the inventories of two sets and their comparison. |
| `Picks` | the elements of a sequence at given places | one recursive function, in place of SequencesExt's filters, which the provers cannot unfold; `History` and `Catalog` use it for git logs, filters and the removal of duplicates. |
| `Project` | loading a configuration, selecting from it and asking it (extends `Catalog`) | `todo`, `seen`, `batch` of the depth-first load; `cfg` and `order` of the merge; `Select` with the layers of defaults, the groups in any order; `Ask` for the commands of the catalog. |
| `Shell` | a process of azldev around its command | `app` from start to exit, `env`, `litter` (the temporary things), `tools` and `answer` of an MCP server, `child` with its listener. |
| `Images` | image build, boot and test in the processes of `Shell` | `work` and `out`, work directories and links into them; `venv` and `clone`, kept from run to run; `job`, the command; `KillJob` anywhere, `UserTouches` between processes. |
| `AgentFiles` | `docs agent install` | `files`, what each path of the repository holds; `install`, the install under way; `edits` of the user.  `StartInstall`, `WriteFile`, `EmitMcp` and `InstallReturns` are its steps, each of which may fail; `KillInstall` anywhere, `UserConfigures` between installs.  `MCSession` runs it beside `Images`. |
| `SpecText` | the line editor of `rpm/spec` | a spec is a sequence of lines; `Visit` with its cursor, and every edit, as recursive operators. |
| `SpecTree` | the structural editor, which only its tests call so far | the parser of conditionals, sections and macro bodies, removal, writing back. |
| `SpecOverlays` | overlays applied one after the other | `spec`, `files`, `last`; an overlay is read, edit, write, and then the files beside the spec. |
| `MC*` | instances for TLC | constants, symmetry, the families of configurations and specs; `MCUpstream` composes `History` and `Pins`. |
| `ParmapProofs`, `ComponentUpdateProofs`, `LockStoreProofs`, `RenderProofs`, `SourcePrepProofs`, `BuildProofs`, `ConfigProofs`, `SessionProofs` | theorems | section 4.  `ConfigProofs` is about `Project` with `Catalog`, `Pins` and `History`, `SessionProofs` about `Shell`, `Images` and `AgentFiles`. |

`ComponentUpdate` and `RenderPipeline` use the *abstract* `ParallelMap`, and
`Parmap` is shown (by TLC and by proof) to implement it: this is what lets the
commands be checked with any number of goroutines behind one action.

Abstractions that recur:

- A hash is the value it is taken of: hashes have no collisions.  A
  fingerprint is the tuple of what it hashes, so that two fingerprints are
  equal exactly if those are.
- A build, a rendering, a file is the number of the run that made it, or a
  version: what matters is whose it is.
- A write in place is two steps or may end torn; a file that was torn is one
  that no longer parses.
- The order of components in a loop is that of a Go map or of goroutines: a
  loop takes any element that is left.
- Variables and fields called history in a module (`before`, `origin`,
  `drifted`, `own`, `fault`, `seen`, `read`, `late`, `guest`, the `id` of a
  spec's line) record what happened for a property to speak of; no guard reads
  them.
- A component without an explicit source type is local, as everywhere in the
  code.  Errors of distro resolution are failures of the step that needs it.

## 3. The runs

| Run | Question | Bounds, and why they suffice |
|---|---|---|
| `parmap` | every interleaving of the launch loop, the goroutines and the end of the context | 4 items, 2 slots: some goroutines run, one is queued in the semaphore, one is not launched.  The theorems cover every N and Limit. |
| `update` | do the freshness shortcuts lose a change, do the fields of a lock agree, what does a run that stops half way do to the others? | Two scenarios, 2 runs each.  One component alone, with a snapshot, a pin and the branch head, 2 builds of which one is refused, 2 edits between or during the runs: each combination of stored and current inputs, before and after.  Or two components and nothing that moves: one saved and one not, one failed and one resolved, one orphan and one present.  Locks of different components meet only in the save loop. |
| `render` | is each directory whole, marked or as it was; is what the command says true? | Two scenarios.  Two components in one run of every mode, cancelled, failing or killed anywhere; or one in two runs with an edit in between, 2 contents, all modes, `--dry-run` and `--fail-on-error` among them. |
| `render_cancel_marker` | violation: section 5 | one component, one content, one run. |
| `lock_store` | is an answer ever out of date? | 3 goroutines, 2 lock names of which one is an orphan, 2 contents, failing reads, writes and removals, restarts; goroutines and contents are symmetric. |
| `source_prep` | do files, `sources` and configuration agree after a preparation, and does it end? | 2 names, 2 contents, 2 attempts, and every configuration of an upstream-listed, committed or missing archive with and without overlays, every entry for it and a second entry before or after it, in the modes of `prepare-sources`, `render` and `build` and on four kinds of site: about 16 000 initial states.  Two attempts have a first, a last and a wait between; more repeat the middle one. |
| `build` | does a chain see what was published before it, does the metadata describe the files, are chroots scrubbed in time? | 2 components in any order, of which one has two RPMs and a channel, 5 command lines, 2 runs: a run over what a failed or killed one left. |
| `upstream` | is history stable, does `changed` tell the truth, does a refresh leave the right pins? | Two scenarios.  One component through 3 commits of the project over 3 upstream commits, 2 configurations, 2 changes of the working tree between commits, in both modes: a pin that moves forward and back, a lock removed and made again.  Or 2 components, 2 upstream commits, 2 refreshes, 2 edits. |
| `project` | is a component the same however it is selected and merged; do the commands agree with validation and with each other? | Families of projects: includes that overlap, form a circle or find nothing; one component spread over three files; two groups that list components and find specs; catalogs of two repository sets over a template, overlapping test groups, channels set at every layer; two inventories that differ in a package, a version, an epoch left out, an architecture, a kind of repository, or cannot be had or read.  Two selections from each. |
| `session` | what do processes leave to each other? | 2 processes of 5 commands, 2 formats of an image, a pytest and a LISA test, 2 commits of LISA, 2 builds, 2 calls of a server, 1 touch of the user: each thing that is kept is found once as the other process left it.  Or 2 installs of agent files, each in any mode, layout and version, dry or not, with 1 edit of the user, over 2 skills of which lock-file-free mode replaces one: an install over what a failed one, one of the other mode or the user left. |
| `spec` | do edits reach what they should and leave the rest? | Some 7 000 specs: up to 4 lines of ten kinds and 6 of six kinds around sections and conditionals, 3 lines of tags and patches, 5 lines of tags in conditionals; up to 2 overlays.  Six lines are a section between a conditional that opens before it and one that closes in it. |
| `spec_lands` | violation: section 5 | the same. |

What the passing runs establish:

*parmap.*  `ProgressInOrder`: the callback sees 1, 2, 3, ..., and all of them
before Map returns.  `MapReturns`.  `ImplementsMap`: the abstract map.

*update.*  `UpdateIsIdempotent`: after a successful `update -a` every lock
describes its component, and another update would write and prune nothing.
`CheckOkMeansFresh`: nor would one after a `--check-only` that exits 0, in
commits and fingerprints.  `CommitProvenance`: a commit was resolved under the
inputs whose hash is stored with it.  `FailedUntouched`: what failed or was
skipped keeps its lock.  `ImplementsRegistry`: `LockRegistry`.

*render.*  `CancelledKeepsOutput`, `CompleteOrMarked`: no half-written
directory without a marker survives a run that was not killed.
`ChangedIsTrue`, `CheckAgrees`: what the table and `--check-only` say is so.

*lock_store.*  `AnswersAreCurrent`; `NewOnlyIfMissing`: an unreadable lock never
comes back as an empty one.

*source_prep.*  `ListIsTrue`: every listed hash is that of the file in the
output directory and that of the configuration the fingerprint is taken of.
`RenderedListIsBuilt`: a render, which downloads nothing, writes the `sources`
file a build writes.  `NoLeftovers`: however a preparation ends, the temporary
clone is gone, no download that failed its check stands under the name of a file
that was to be downloaded, and a rendering that succeeds has no file that was
cut short.  It does not promise that there are no other files: a download that
fails leaves its temporary file (section 5), a copy that fails half a file, a
generation script the file whose hash is wrong.  `PrepareEnds`.

*build.*  `ChainSeesEarlier`: a later build finds this run's build of every
component published before it.  `CleanRunLeavesTrueIndex`: a run that exits 0
leaves metadata that describes every file, those included that an earlier run
copied before it died.  `ProvenanceChroot`: the chroot for release numbers is
scrubbed after its last use, and not before.

*upstream.*  `DirtyIsPrediction`: what is rendered before a commit is what is
rendered after it.  `HistoryIsKept`: published entries keep their place
(`HistoryIsAppendOnly`), and each change is in the history once
(`NothingIsLost`).  `ChangedIsHonest`: two revisions called unchanged were
rendered from the same sources.
`RefreshIsExact`: a clean refresh leaves exactly the pins that upstream and the
configuration call for, and a clean `--check-only` says that one would change
nothing.

*project.*  `PinHasItsFile`: the file whose history a pin is followed in is the
one the pin in force comes from.  `SelectionIsStable`: the filter does not
change the component.  `ValidMeansRunnable`, `QueryIsExact`,
`ListAgreesWithBuild`: the places of the code that answer one question agree.
`ReportIsExact`: a comparison of two repository sets reports exactly the
packages that they publish differently, says in which direction, and is its
mirror image with the sides swapped.  It excepts sets of which two template rows
lead to one place, which the code takes for one repository of the first's kind,
and an architecture without a name (`--arch ","`), which looks like the empty
architecture of a row that names none.

*session.*  `NothingLeft`: no temporary thing whose removal was deferred
outlives a process that ends, and no image is written to without `--rwdisk`.
The two things that may stay are not deferred yet when they fail: the directory
of a key pair, and a runbook that is written in part (section 5).
`OneBuildInOut`: the files of an image that can be opened are of one build.
`RightFramework`: LISA runs the pinned commit.  `CallIsFresh`: a tool answers
as the command would.  `AllLinesHeard`: a child's last lines are not lost, if no
line is longer than the scanner's buffer (section 6).  `InstallIsWhole`:
however installs stop, an instruction that is there names skills that are there
(`PointersResolve`); a finished install leaves a second one nothing to change
(`RerunIsNoop`); the user's servers stay, save where a write of that very file
was cut short (`ServersAreKept`); a dry run writes nothing and tells what would
be written (`DryRunTells`).

*spec.*  `EditsAreExact`: a removal takes exactly what it names
(`RemovalIsExact`), an edit reaches every match (`EveryMatchIsEdited`).
`InsertedIsUnconditional`, `PatchesHaveFiles`: what is added counts whichever
conditions of the spec hold, and every patch it names has its file.

The runs spend their states on the deep properties; the type invariants and the
remaining action properties of the modules with proofs (section 4) are proved
outright.

**Fairness.**  Two runs check liveness.  `Parmap`: weak fairness for each
goroutine; Go runs every runnable goroutine, and the mutex and the semaphore
are only waited for while another process is about to release them.
`SourcePrep`: weak fairness of the preparation's own next step: the command
runs on, and a call to git, mock, the network or the file system answers or
fails (the HTTP requests carry the context, not a time-out; a server that never
answers is outside the claim).  Nothing makes a context end.  The other
commands are loops over finite sets between two waits, without a wait on each
other, and have no liveness claim of their own.

**Deadlock** is checked in `parmap` and `lock_store`.  Elsewhere a behaviour may
end: after the last run, edit or process that the bounds permit, and when a
preparation or a selection is over.

**Bounds.**  `MaxRuns`, `MaxEnv`, `MaxLog`, `MaxWork`, `MaxSelects`,
`MaxLaunches`, `MaxCalls`, `MaxBuilds`, `MaxTouches`, `MaxInstalls`,
`MaxEdits`, `Lines` and `MaxOverlays` count runs, edits, commits and so on; in
the modules with proofs the theorems hold for every value.  The rebuild counter
is bounded by the number of runs.  Symmetry is used where elements have no order
and no fixed role.

## 4. The proofs

| Theorem | Says, for all values of the constants |
|---|---|
| `ParmapProofs`: `TypeCorrect`, `PoolIsBounded`, `ProgressIsInOrder`, `EveryItemHasOneOutcome`, `LateCallsAreFew`, `Implementation` | the properties of `Parmap`, and that it implements `ParallelMap`: any number of items, any limit (0 and negative included).  After the context has ended at most a pool's worth of workers is still called, although items queued in the semaphore still get a slot. |
| `ComponentUpdateProofs`, first half: `TypeCorrect`, `FailuresAreHarmless`, `DryRunsWriteNothing`, `LocksAreConsistent`, `ReuseIsJustified`, `UpdateImplementsRegistry` | any set of components and inputs, any number of runs and edits: a fingerprint belongs to the commit and counter next to it, a commit to the inputs next to it, nothing is written in a dry run or for what failed |
| `ComponentUpdateProofs`, second half: `UpdatesAreIdempotent`, `ChecksAreTrue`, `CommitsAreStable`, `SuccessesAreWritten`, `PruningIsTheLastStep`, `BumpsCountOnce` | the same: the freshness check loses no change, upstream moving behind an unchanged snapshot moves no lock, what was resolved is written, pruning comes after a clean run, a bump counts once |
| `LockStoreProofs`: `TypeCorrect`, `NoLockIsLost`, `CacheIsCoherent`, `ReadsAreCurrent`, `NoOrphanIsLeft` | any number of goroutines, names and locks |
| `RenderProofs`: `TypeCorrect`, `CheckingWritesNothing`, `CancelledOutputStays`, `SelectionIsKept`, `NoUnmarkedWreck`, `ChangedColumnIsTrue`, `CheckingForetells` | any set of components and contents, any pool, any number of runs and edits |
| `SourcePrepProofs`: `PrepTypeCorrect`, `ListStaysTrue`, `RenderAgreesWithBuild`, `ScriptsGetCheckedFiles`, `NothingWrongIsLeft` | any names and contents, any configuration the loader accepts, any number of attempts |
| `BuildProofs`: `TypeCorrect`, `ChainsSeeEarlierBuilds`, `CleanRunsLeaveTrueIndexes`, `ReportsAreTrue`, `ReleaseChrootIsScrubbed`, `PoliciesAreKept` | any components, packages, channels and command lines, any number of runs.  What the results name lies, built by this run, in its channel and nowhere else; what `--preserve-buildenv` says holds when a run returns. |
| `ConfigProofs`, *Pins*: `PinsTypeCorrect`, `RefreshesAreExact`, `OthersStay` | any components and commits, any number of runs and edits |
| `ConfigProofs`, *Project*: `ProjectTypes`, `PinsComeFromTheirFile`, `SelectionsAgree`, `ListingsAgree` | any files, includes, groups, components and specs, any number of selections: the file remembered for a pin is that of the pin in force, a component is answered alike whatever reaches it, a listing names the channel a build uses |
| `ConfigProofs`, *Catalog*: `QueriesAreExact`, `ValidProjectsRun`, `ReportsAreExact` | any repositories, sets, templates, inputs, groups of tests and inventories: a query reaches what is declared and gives each id once, what validation passes runs, a comparison reports what differs and its mirror image |
| `ConfigProofs`, *History*: `ComparisonsAreHonest`, `HistoryTypes`, `DirtyTreesPredict`, `HistoriesAreKept` | any history of edits, updates, renders and commits, of any length, over any number of upstream commits: revisions called unchanged were made from the same sources, what is rendered before a commit is what is rendered after it, and published entries keep their places |
| `SessionProofs`, *Images*: `ImagesTypes`, `NothingIsLeft`, `OutIsOneBuild`, `LisaIsPinned`, `CallsAreFresh`, `LinesAreHeard` | any commands, tools, formats, tests and commits of LISA, any number of processes, calls and builds, killed and failing anywhere |
| `SessionProofs`, *AgentFiles*: `InstallsAreWhole` | any skills, instructions, versions and servers, any number of installs and edits |

*Parmap.*  None of the properties is inductive alone.  `IInv` adds four parts:
where the launch loop is says what has been launched (`LoopInv`); an outcome is
stored exactly when a process passes to its notification (`OutcomeInv`); the
semaphore's tokens are the live goroutines (`TokenInv`); the mutex is held by
the one process between Lock and Report, the counter is the number of reports
made or being made, and that is the number of items reported (`MutexInv`).
`LateInv` counts the workers between their check and their call.  The
refinement follows: a step of a goroutine changes at most one item's abstract
status, in the way `ParallelMap` allows.

*ComponentUpdate.*  `FailedUntouched` and the others hold at the end of a run
because of what is known in the middle of one, which `IInv` adds.  `PhaseInv`:
while resolving nothing has been written (`disk = before`); only locks of
components that are gone wait to be pruned, and never in a `--check-only` run;
a bump run has no results.  `ResultInv`: only components with a kept result
wait to be saved, their result fits their configuration, and one that reuses
its commit still agrees with the lock it was read from: this is why a save
keeps `CommitProvenance`, as it stores either a commit just resolved under the
stored inputs or the commit and inputs that were stored before.  There is one
lemma per phase step, and the refinement of `LockRegistry` is a case analysis
on what the one written lock was before.

The second half goes on from `IInv`.  `RunInv` follows one run: what it has not
come to is as it was (`Untouched`), what it resolves the freshness check could
not vouch for (`Compelled`), a reused or unchanged result still says what the
lock says (`Honest`), a run that goes on was not cancelled and one that prunes
met no failure (`Clean`), and results that were dealt with are stored
(`Written`).  Idempotence needs more: `FreshInv` adds what a result says of the
component under today's inputs (`Verdict`), that no component of a run goes
without an answer (`Answered`), and that what was saved is what another update
would compute (`Saved`).  At the end of a clean run these make
`UpdateIsIdempotent` and `CheckOkMeansFresh`; until something moves they stay.

*LockStore.*  Two stages.  Without a restriction on overlap (`Racing` may be
TRUE): `TypeOK`, that a call's program point and its `of`, `todo` and `gone`
fit (`Orderly`), and `NewOnlyIfMissing`.  With `Racing = FALSE`, `Disciplined`
(a writer is alone on its locks) makes `Coherence`, `Secured` and `Settled`
inductive, from which coherence, currency of answers and complete pruning
follow.  The assumption is what azldev's commands do: their parallel phases
only read.  It is necessary: see section 5.

*RenderPipeline.*  `Pool` ties a worker's status, its stage and the result of
its component together (a stage is set exactly while a worker finishes; a
result that is still open in the finish phase has a worker).  `Output` says
what a directory holds by what the run has made of it: as it was before until
the copy begins, today's rendering after it, with Changed compared against what
was there before; and in the marking phase, what the markers have done.  The
properties about the end of a run are read off these where its last step is
taken.

*SourcePrep.*  What holds at the end of a preparation follows from where each
file came from.  `OutInv`: a file with a hash is missing, committed, the file
of that hash, the target of the download under way, or was repacked from one of
the first three; `CloneInv` says the same of the temporary clone, from which
`Copy` takes it over.  `ListedInv` and `FetchedInv`: what `sources` lists, and
what the entries that FetchFiles is through with declare, is there until it is
repacked.  `JobInv` ties the download under way to the entry that asks for it,
and `OrderInv` says what earlier phases have established (that overlays and
entries match, that the clone is gone).  `NoLeftovers` then follows from
`OutInv` at each step that fails, and `ListIsTrue` from `ListedInv`,
`FetchedInv` and the checks of the merge (`MergedHash`).  Of `PrepAssumption`
the proof uses that no two entries have one name, which the configuration
loader refuses.  `CutInv` says where a file may have been cut short: nowhere as
long as nothing failed and downloads have not begun or are skipped, and in no
clone that was copied or removed.

*Build.*  `Progress` says where a run is and what its record holds there,
`Outputs` which RPMs lie where by then, `Repository` that metadata and files
agree as long as nothing failed, `ReleaseChroot` and `SharedChroot` whose
build the two chroots hold, by policy and by whether the run has scrubbed them.

*Pins.*  A run works on what it found at its start.  `AtStart` compares with
that, `Answers` says what the workers made of it, and `Saved` that each file is
as it was or as its result asks, by whether the run has come to it.

*Project.*  `ProjectInv` follows the merge and then the answers.  `PinsKnown`:
the configuration merged so far remembers, for each component, the last of the
files merged so far that pins it, and its pin.  `AnswersExpected`: an answer
holds, for a component that one group finds by one spec, what that hit or the
component's own definition gives.  `ReplyKept`: what was replied is what the
command means for the loaded configuration, which nothing touches any more.  The
other parts are types, and that nothing is asked before the project is loaded.
What FlattenSeq returns is proved by induction over the length, as a lemma about
sets of numbers (`Induction`, from `WFMin`): the library's induction theorems
have an operator as a parameter, which the provers cannot instantiate.

*Catalog.*  A project does not change once it is loaded, so the invariant is
short (`CatalogInv`: what is asked has been validated, what is answered is the
reply).  The work is in the operators.  For a query: an expansion holds each
template row the set allows, under the set's prefix, and validation makes ids
unique, so the rows with an id are one, and the kind worked out from sets and
templates (`KindOf`) is that of the row the expansion took (`KindOfMade`).
`DedupIs` says that removing duplicates loses no URL and keeps each once, and
`QueryReaches` puts the two together, input by input.  For a comparison: what a
side loads, and what its set publishes, is related package by package (`Seen`):
the one in terms of identities, the other in terms of rows and places
(`PublishedIs`).  No two published packages look alike to the comparison
(`SeenApart`), so differences of the one are differences of the other
(`SeenTells`).  A status in one direction is its mirror in the other
(`StatusesAre`), and architectures differ only where a package does
(`ArchesDifferBothWays`), which gives the report (`ReportsTell`).
`CatalogAssumption` gives the types of what a configuration can hold, and that
a refusal is not taken for an answer.

*History.*  `ChangedIsHonest` needs no invariant of the repository but that of
the classification: what an Updated lock, an equal fingerprint and a drifted
`sources` say of the two revisions.  The other two need its type, and what
becomes of each list when a commit is appended.  `PickAppend`, `PickSame` and
`PickBegin` say it of picked sequences; from them the log of a file and the
changes read from it grow at the end only (`FileLogAppend`, `ChangesAppend`).
`DirtyIsPrediction` follows as the dirty entry takes the place of the change
that the commit will be.  For `HistoryIsKept` the interleaving is rewritten as
one block per upstream commit, that commit and the changes made for it
(`InterleavedIs`).  By induction over the changes, a block or a change that is
added at a pin that did not move back leaves what was there in front, and each
change in its block (`KeptAdd`, `TillKept`, `WholeBegins`).
`HistoryAssumption` says that upstream has a commit and that an error is not
taken for a list.

*Images.*  `IInv` says which temporary things each step of a job may find,
beside the two that failures leave (`LitterInv`), which of a build's files can
be opened while it replaces them (`OutInv`), what clone, checkout and
environment a LISA test has behind it at each step (`FwInv`), that the listener
reads until the child is gone and there is nothing to read (`ChildInv`), and
that the options of a tool are restored after its call (`CallIsFresh`).  What a
killed process leaves is not assumed to be gone: the next one's steps
re-establish each part from anything.

*AgentFiles.*  `AgentInv` follows one install: what it is through with holds
what was planned (`FilesAreThere`), an MCP configuration is as it was until it
comes to it (`ConfigsAreKept`), its table is what it has done
(`ToldSoFar`).  The plan is a concatenation of three sequences whose paths are
all different (`PlannedPaths`), and in which the skills an instruction names
come before it (`SkillsComeFirst`); as nothing removes a skill, an instruction
that is there keeps them, whatever installs came after.  The proof uses of
`AgentAssumption` that no name is repeated in a table, and that a replacement
has a name that no other skill and no other replacement has; so it is in the
catalog's tables.

The inductive invariants were checked by TLC before they were proved, that of
`Project` on a part of the run's projects, as it is slow to evaluate.

Only model-checked:

- liveness (`MapReturns`, `PrepareEnds`): fairness and ENABLED are out of the
  prover's reach;
- the spec editor (`PatchesHaveFiles`, `EditsAreExact`,
  `InsertedIsUnconditional`): its walk, its parser and its trees are RECURSIVE
  operators, which the provers do not read.  `PatchesHaveFiles` depends besides
  on which overlays are applied: one that rewrites a patch tag, or removes a
  file the spec still names, is free to break it.

## 5. Where code and documentation disagree

Two disagreements are runs that TLC must find violated (`findings` in
`PROJECT.json` has the lines and the quotations):

- `render_cancel_marker`: Ctrl-C while sources are fetched is taken for a
  failure, and the component's good output is replaced by a marker.
- `spec_lands`: a tag added to a sub-package that stands inside `%if` lands
  behind the `%endif`, where without the condition it is a tag of the section
  before.

Others, met while modelling; the models do what the code does, and the
properties except these cases where they meet them:

*Update and locks.*

- `update --check-only` exits 0 although an update would rewrite a lock, when
  only its resolution hash is out of date (`update.go:450`, against
  `update.go:84-86`); `CheckOkMeansFresh` speaks of commits and fingerprints.
- `ImportCommit` is documented as write-once (`lockfile.go:35-38`); it is
  cleared when a component turns local and seeded with another commit when it
  turns back (`update.go:402-412`).  A component that turns local keeps its
  `ResolutionInputHash` (`update.go:471-477`, against `update.go:400-401`).
- A `Get` that overlaps a `Save` of the same lock leaves the old lock in the
  cache (`store.go:116`), although `store.go:60-63` says all methods are safe
  for concurrent use: `Racing = TRUE` violates `CoherentCache` and
  `AnswersAreCurrent`.
- `--dry-run component update` writes locks.

*Render.*

- `--dry-run render` removes output directories and writes markers
  (`render.go:883`, against `env.go:199-200` and `opctx/interfaces.go:44-45`):
  in a dry run no sources are staged, so every preparation fails.
- A cancelled `render --check-only` can exit 0 (`render.go:270`); without
  `--force` it predicts a run that would refuse (`render.go:766`).
- A component that fails to render and gets a marker is reported as unchanged
  (`render.go:1117`).

*Source preparation.*

- With `--allow-no-hashes`, an archive that 'source-files' downloads and an
  overlay repacks is listed with the hash it had before (`sourceprep.go:1062`,
  against `sourceprep.go:860-861`); `ListIsTrue` excepts it (`Bootstrapped`).
- `retry.go:36-37` says that fewer than one attempt means one; it means three.
- "On failure, any partial file is cleaned up" (`sourcemanager.go:567-568`).
  The file the caller named is removed; what was received lies in the temporary
  file of `renameio`, which nobody removes when the request, the answer or the
  replacement fails (`downloader.go:92-100`).  It is in TMPDIR, unless that is
  on another file system than the target or refuses the test file; then it is
  next to the target, also after a later attempt succeeded.  In the clone,
  which is itself made in the temporary directory, that is the rare case, but
  such a file is copied to the output with the others; in the output directory
  a glob of an overlay on loose files can match it.  `Drop` leaves it in either
  directory, in `cut`.

*Changed, pins, configuration.*

- `changed.go:69` says of a drifted `sources` that it "cannot occur from a
  clean render"; it does when a lock is committed first and its render later.
- `docs/user/how-to/preview-without-lockfile.md:66`: `refresh-upstream-commit
  -a` prunes "generated files for components that no longer exist".  The file
  itself still defines its component where the default source type is upstream,
  so that it is refreshed instead.
- The loader refuses as circular an include that is reached twice without a
  circle (`loader.go:422`).

*Agent files.*

- The MCP configurations `docs agent install` writes start `azldev advanced
  mcp` with no further arguments (`agent.go:292`), in lock-file mode.  After
  `--without-lockfile docs agent install` the light wrapper of the skill that
  replaces `update-component` points at `docs-agent-show`, whose catalog is
  that of the other mode and does not know it (against `agent.go:323-324`: "the
  emitted and served content matches the commands the user actually has").  The
  skills of a mode or layout that is no longer used stay in the repository.
- An MCP file that holds `null` parses, to a map that cannot be written to, and
  ends the process (`agent.go:299`), where a file that cannot be managed is
  meant to fail "with a clear error" (`agent.go:276-277`).

*Processes.*

- The runbook LISA reads is to be removed "once the test finishes"
  (`lisarunner.go:168-170`); the removal is deferred when the runbook has been
  written, so that one of which a part could be written stays in the framework
  checkout (`lisarunner.go:281`), the user's own among them, until the same test
  runs again.  The directory made for a key pair stays where ssh-keygen fails
  (`lisarunner.go:336-343`).
- A dry run fails where the program that it would start is missing
  (`externalcmd.go:199-203`).
- The MCP server's Env keeps the `--dry-run` it was started with, whatever a
  call says (`mcpserver.go:189`), and its lock cache is that of the process: a
  lock that another process rewrites is answered from the cache.
- A positional pattern of `image list` is appended to the option variable of
  the server's next calls (`image/list.go:89`); `CallIsFresh` is about the tools
  whose selection is a flag.
- A chroot kept by `--preserve-buildenv=on-failure` is cleaned by the next
  component's build in the same run (`buildenv/mockroot.go:44`).
- `docs/user/how-to/build-image.md` boots with `-i` and `-f` together, which
  exclude each other, and lets the user "follow the interactive prompts" of
  `image build`, which has none.

*Spec editing.*

- `overlays.md:17` and `overlay.go:249`: "spec-add-tag fails if the tag already
  exists"; AddTag does not look.
- `edit.go:48` says the "first instance"; UpdateExistingTag replaces all.
- `edit.go:805-808` describes the removal of a section in the branches of a
  conditional; it is refused with ErrConditionalSpansSections.
- `overlays.md:623-626` and `edit.go:849-854` promise an error where
  conditionals and sections interleave; it is not always detected.
- `spec.go:251-253` promises that the walk goes on behind the lines
  InsertLinesAfter inserted; it is off by one (`spec.go:259`), and the last of
  them is visited.

## 6. What is left out

*Known hazards without a property*: a `Get` that overlaps a write of the same
lock (`store.go:116`): the run and the theorems on answers take the calls as
the commands make them, without such overlaps, and section 5 says what happens
otherwise; two azldev processes, or git, that rewrite locks while a run is
between its freshness check and its save (`store.go:162`; the code does nothing
against it); emptying a directory before the marker, or writing the marker,
that fails and is only logged (`render.go:1119`; the properties except it by
`fault`); a committed file next to the spec that is taken for the one `sources`
lists without a look at its hash (`fedorasource.go:258`); jitter and attempts
of `retry` (`retry.go:106`); a lock that is pruned and made again, which
shrinks the release number (`synthistory.go:499`); `--bump` that is run again
after it stopped half way, which counts twice for some (`update.go:527`); pins
saved in part before an error (`refreshupstreamcommit.go:385`); links of a
build's output that dangle after the work directory is cleaned; an overlay that
truncates the spec and fails to write it (`overlays.go:101`), or renames a file
over another one (`overlays.go:320`); the numbers of patches given by macros
(`edit.go:786`); a grandchild that holds a child's output open, which Wait
waits for (`externalcmd.go:306`), lines longer than the scanner's buffer of 64
KB, at which it stops and its error is not looked at
(`externalcmd.go:315-323`), and sudo'd children, which cannot be killed; the
indentation of the event listener, which workers of parmap change without a
lock; pytest tests that share one `--junit-xml` path; a Python environment that
was half made and is used again.

*Parts that are modelled in part*:

- *update*: validateLockFiles.  A selection is any set of components.
- *lock store*: ValidateConsistency, the readers of git history, Exists as a
  call of its own (it is the second half of GetOrNew).
- *render*: the alias symlink for names that need URL encoding (best effort),
  errors before the first phase, the choice of the files that are kept, and
  why a batch of mock answers as it does.
- *source preparation*: DiffSources, dry runs, an output directory that is not
  empty at the start (the commands refuse or remove it).  The hash type goes
  with the hash; a clone and its retries are one step, for a failed one leaves
  nothing.  A local component without a lookaside URI downloads nothing, as in
  the code.  Temporary files in TMPDIR are not looked at, nor hashes of
  generated files that stay after a failure.  A file that is committed next to
  the spec is not checked against `sources` by the code, and the properties
  except it (`Committed`).
- *build*: what mock builds, beyond its version; dry runs; mock's arguments.
- *history*: authors, dates and messages; local components; which components
  `changed` selects.
- *project*: the text of names and URLs, one class per rule; shell completions;
  dnf's arguments; how the metadata of a repository is found and compressed, and
  the order of versions in a report.
- *shell*: flags other than `--dry-run`, logs, prompts and colours; listeners
  that follow a file; the MCP library's transport.
- *images*: removals that fail, which are logged only; image customize and
  inject-files, the contents of a LISA runbook.
- *agent files*: the text of the templates, beyond what it is rendered from, and
  `docs agent show`, which prints one.
- *spec*: AddChangelogEntry; where a macro's body ends is one bit of each line;
  header options, letter case and over-long lines.

*Not modelled at all*: rpm version comparison and queries, reports and thin
commands over the parts above, wrappers of the file system and of processes
(modelled by their outcome where they are called), generators and build
scripts.  They keep no state of their own, compute text, or drive external
programs in sequence.

## 7. The plan

1. *Done*: the modules of section 2, the runs of section 3 and the theorems of
   section 4.
2. `ValidateConsistency` and the readers of lock files in git history, beside
   `LockStore`.
3. A composition of `RenderPipeline` with `SourcePrep` through the abstract
   "preparation succeeds or fails", and of `Build` with it.
4. The line editor's walk as a recursive function over a bounded number of
   steps, for theorems about what a removal leaves.
5. Two processes at once over one lock directory, should the code come to guard
   against them.
