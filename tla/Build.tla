------------------------------- MODULE Build -------------------------------
(***************************************************************************)
(* Runs of `azldev component build` (cmds/component/build.go): a list of   *)
(* components is built one after the other, each into an SRPM and RPMs     *)
(* (core/componentbuilder), which are moved into the directory of their    *)
(* publish channel and may be published to a local repository that the     *)
(* following builds read (utils/localrepo).                                *)
(*                                                                         *)
(* Mock keeps one chroot for all builds of a project, named by its         *)
(* configuration (`root`), and the release numbers of rpmautospec come     *)
(* from a second one below the work directory (`prov`) that a              *)
(* MockProcessor sets up when it is first needed.                          *)
(*                                                                         *)
(* A file is the number of the run that wrote it, 0 where there is none.   *)
(* Mock, createrepo_c and the file system may fail wherever they are used; *)
(* every external command fails once the context has ended (`cancelled`).  *)
(***************************************************************************)
EXTENDS Naturals

CONSTANTS
  Components,     \* what a run may select
  Rpms,           \* the binary packages of all of them
  Owner,          \* Owner[r]: the component that builds r
  Channel,        \* Channel[r]: its publish channel, or None
  Options,        \* the command lines that are looked at
  MaxRuns,        \* bound: the number of runs
  None

ASSUME BuildAssumption ==
  /\ Owner \in [Rpms -> Components]
  /\ None \notin Components /\ None \notin [Rpms -> 0..MaxRuns]
  /\ MaxRuns \in Nat
  /\ \A o \in Options :
       /\ o.keepGoing \in BOOLEAN /\ o.srpmOnly \in BOOLEAN /\ o.publish \in BOOLEAN
       /\ o.policy \in {"on-failure", "always", "never"}
       /\ ~(o.srpmOnly /\ o.publish)      \* MarkFlagsMutuallyExclusive

VARIABLES
  run,        \* the number of the run, its options, and what is left of it
  out,        \* out[r][p]: the copy of r in place p of the output directory
  repo,       \* the local repository: its files, and what its metadata lists
  root,       \* whose build mock's shared chroot holds, or None
  proc,       \* the MockProcessor: "none", "new", "ready", "failed"
  prov,       \* the run that set the MockProcessor's chroot up, 0 if it is empty
  cancelled,  \* Ctrl-C: the context of the run has ended
  kept        \* history: the components whose chroot a policy kept in this run

vars == <<run, out, repo, root, proc, prov, cancelled, kept>>

Version == 0..MaxRuns

(* Where an RPM ends: rpms/<channel>, or rpms without one.                 *)
PlaceOf(r) == IF Channel[r] = None THEN "rpms" ELSE Channel[r]
Places == {PlaceOf(r) : r \in Rpms} \cup {"rpms"}
RpmsOf(c) == {r \in Rpms : Owner[r] = c}

NoRun == [n |-> 0, pc |-> "idle", opts |-> None, todo |-> {}, comp |-> None,
          ok |-> TRUE, err |-> FALSE, built |-> {}, results |-> {}, scrubbed |-> FALSE]

Init == /\ run = NoRun
        /\ out = [r \in Rpms |-> [p \in Places |-> 0]]
        /\ repo = [files |-> [r \in Rpms |-> 0], meta |-> None]
        /\ root = None /\ proc = "none" /\ prov = 0
        /\ cancelled = FALSE /\ kept = {}

Goto(pc) == run' = [run EXCEPT !.pc = pc]
GiveUp == run' = [run EXCEPT !.pc = "close", !.ok = FALSE]
Works == ~cancelled

(* Mutant: createrepo_c --update, which trusts an entry that is there.     *)
IndexUpdate(files) ==
  repo' = [files |-> files,
           meta |-> [r \in Rpms |-> IF repo.meta # None /\ repo.meta[r] # 0
                                    THEN repo.meta[r] ELSE files[r]]]

(* createrepo_c reads the whole directory, without --update.               *)
Index(files) == repo' = [files |-> files, meta |-> files]

(* EnsureRepoInitialized: metadata that is there, true or not, is left     *)
(* alone.                                                                  *)
EnsureRepoInitialized == IF repo.meta = None THEN Index(repo.files) ELSE UNCHANGED repo

(* validateBuildOptions and the start of BuildComponents; a run that ends  *)
(* here has done nothing.                                                  *)
Start(o, cs) ==
  /\ run.pc = "idle" /\ run.n < MaxRuns /\ cs # {}
  /\ run' = [NoRun EXCEPT !.n = run.n + 1, !.pc = "next", !.opts = o, !.todo = cs]
  /\ IF o.publish THEN EnsureRepoInitialized ELSE UNCHANGED repo
  /\ proc' \in {"none", "new"}
  /\ cancelled' = FALSE /\ kept' = {}
  /\ UNCHANGED <<out, root, prov>>

(* buildComponent up to the build environment, which is only an object:    *)
(* nothing is made on disk before mock runs.                               *)
Begin(c) ==
  /\ run.pc = "next" /\ c \in run.todo
  /\ \E pc \in {"prep", "failed"} :
       run' = [run EXCEPT !.pc = pc, !.comp = c, !.ok = (pc = "prep"), !.todo = @ \ {c}]
  /\ UNCHANGED <<out, repo, root, proc, prov, cancelled, kept>>

(* initOnce: the first use sets the chroot up; a failure is remembered and *)
(* never tried again, and may leave half a chroot.                         *)
InitRoot == Works /\ prov' = run.n
InstallPackages == Works /\ proc' = "ready"
SetUp == \/ /\ proc = "new"
            /\ \/ InitRoot /\ InstallPackages
               \/ InitRoot /\ proc' = "failed"
               \/ proc' = "failed" /\ prov' \in {prov, run.n}
         \/ /\ proc \in {"ready", "failed"}
            /\ UNCHANGED <<proc, prov>>

(* PrepareSources, with CalculateRelease where the release is %autorelease *)
(* and a processor is there.  Its failure costs the component its release  *)
(* macro, not the build.                                                   *)
PrepSources ==
  /\ run.pc = "prep"
  /\ SetUp \/ UNCHANGED <<proc, prov>>
  /\ (Works /\ Goto("srpm")) \/ GiveUp
  /\ UNCHANGED <<out, repo, root, cancelled, kept>>

(* A build in mock cleans the shared chroot and makes it anew; mock may    *)
(* fail before or after.                                                   *)
MockBuild(next) ==
  \/ Works /\ Goto(next) /\ root' = run.comp
  \/ GiveUp /\ root' \in {root, run.comp}

(* buildSRPM: mock --buildsrpm and the copy of the one SRPM.               *)
BuildSRPM == /\ run.pc = "srpm"
             /\ MockBuild(IF run.opts.srpmOnly THEN "close" ELSE "rpm")
             /\ UNCHANGED <<out, repo, proc, prov, cancelled, kept>>

(* buildRPM: mock, with the local repositories.                            *)
BuildRPM == /\ run.pc = "rpm"
            /\ MockBuild("copy")
            /\ UNCHANGED <<out, repo, proc, prov, cancelled, kept>>

(* A loop over the RPMs that goes through all of them, or stops at the     *)
(* first that fails: done is what it got to.                               *)
Through(done, next) == \/ done = RpmsOf(run.comp) /\ Goto(next)
                       \/ done # RpmsOf(run.comp) /\ GiveUp

(* copyRPMsToOutputDir: over whatever an earlier run left in rpms/.        *)
CopyRPMs(done) ==
  /\ run.pc = "copy" /\ Through(done, "place")
  /\ out' = [r \in Rpms |-> IF r \in done THEN [out[r] EXCEPT !["rpms"] = run.n] ELSE out[r]]
  /\ UNCHANGED <<repo, root, proc, prov, cancelled, kept>>

(* PlaceRPMsByChannel: a rename into the directory of the channel.         *)
PlaceRPMs(done) ==
  /\ run.pc = "place" /\ Through(done, IF run.opts.publish THEN "publish" ELSE "close")
  /\ out' = [r \in Rpms |-> IF r \in done /\ Channel[r] # None
                            THEN [out[r] EXCEPT !["rpms"] = 0, ![Channel[r]] = out[r]["rpms"]]
                            ELSE out[r]]
  /\ UNCHANGED <<repo, root, proc, prov, cancelled, kept>>

(* Mutant: a failed publication is only logged.                            *)
PublishRPMsLogged(done) ==
  LET files == [r \in Rpms |-> IF r \in done THEN out[r][PlaceOf(r)] ELSE repo.files[r]]
  IN /\ run.pc = "publish"
     /\ \/ /\ done = RpmsOf(run.comp) /\ Works
           /\ run' = [run EXCEPT !.pc = "close", !.built = @ \cup {run.comp}]
           /\ Index(files)
        \/ Goto("close") /\ repo' = [repo EXCEPT !.files = files]
     /\ UNCHANGED <<out, root, proc, prov, cancelled, kept>>

(* PublishRPMs: copies, then createrepo_c over the repository.  With no    *)
(* RPM nothing is published.                                               *)
PublishRPMs(done) ==
  LET files == [r \in Rpms |-> IF r \in done THEN out[r][PlaceOf(r)] ELSE repo.files[r]]
      rs == RpmsOf(run.comp)
  IN /\ run.pc = "publish"
     /\ \/ rs = {} /\ Goto("close") /\ UNCHANGED repo
        \/ /\ rs # {} /\ done = rs /\ Works
           /\ run' = [run EXCEPT !.pc = "close", !.built = @ \cup {run.comp}]
           /\ Index(files)
        \/ /\ rs # {} /\ GiveUp
           /\ repo' = [repo EXCEPT !.files = files]
     /\ UNCHANGED <<out, root, proc, prov, cancelled, kept>>

(* ShouldPreserve.                                                         *)
Preserve(ok) == CASE run.opts.policy = "on-failure" -> ~ok
                  [] run.opts.policy = "always"     -> TRUE
                  [] run.opts.policy = "never"      -> FALSE

(* MockRoot.Destroy: mock --scrub chroot, under the context of the run.    *)
Destroy == Works /\ root' = None

(* The deferred end of buildComponent.  A failure of the scrub is one of   *)
(* the component.                                                          *)
Close ==
  /\ run.pc = "close"
  /\ \/ /\ Preserve(run.ok)
        /\ Goto(IF run.ok THEN "done" ELSE "failed")
        /\ kept' = IF root = run.comp THEN kept \cup {run.comp} ELSE kept
        /\ UNCHANGED root
     \/ /\ ~Preserve(run.ok) /\ Destroy
        /\ Goto(IF run.ok THEN "done" ELSE "failed")
        /\ UNCHANGED kept
     \/ /\ ~Preserve(run.ok)
        /\ run' = [run EXCEPT !.pc = "failed", !.ok = FALSE]
        /\ UNCHANGED <<root, kept>>
  /\ UNCHANGED <<out, repo, proc, prov, cancelled>>

(* The loop of BuildComponents: a failure ends it, unless it is to go on.  *)
Record ==
  /\ run.pc \in {"done", "failed"}
  /\ LET err == run.err \/ run.pc = "failed"
         stop == err /\ ~run.opts.keepGoing
     IN run' = [run EXCEPT !.err = err, !.comp = None,
                           !.pc = IF stop \/ run.todo = {} THEN "end" ELSE "next",
                           !.results = IF run.pc = "done" THEN @ \cup {run.comp} ELSE @]
  /\ UNCHANGED <<out, repo, root, proc, prov, cancelled, kept>>

(* Mutant: only a chroot that was set up to the end is scrubbed.           *)
ScrubReadyOnly(works) == IF proc = "ready" /\ works THEN prov' = 0 ELSE UNCHANGED prov

(* destroyMockProcessor: a scrub of its own base directory, if it was ever *)
(* set up.  Its context outlives the cancellation and ends after five      *)
(* minutes; a failure is only logged.                                      *)
Scrub(works) == IF proc \in {"ready", "failed"} /\ works THEN prov' = 0 ELSE UNCHANGED prov

End(works) == /\ run.pc = "end"
              /\ run' = [run EXCEPT !.pc = "idle", !.scrubbed = works]
              /\ Scrub(works)
              /\ proc' = "none"
              /\ UNCHANGED <<out, repo, root, cancelled, kept>>

Cancel == /\ run.pc # "idle" /\ ~cancelled
          /\ cancelled' = TRUE
          /\ UNCHANGED <<run, out, repo, root, proc, prov, kept>>

(* The process is killed: what is on disk stays.                           *)
Kill == /\ run.pc # "idle"
        /\ run' = [run EXCEPT !.pc = "idle", !.err = TRUE, !.comp = None, !.todo = {}]
        /\ proc' = "none"
        /\ UNCHANGED <<out, repo, root, prov, cancelled, kept>>

Step == \/ \E c \in Components : Begin(c)
        \/ PrepSources \/ BuildSRPM \/ BuildRPM
        \/ \E done \in SUBSET RpmsOf(run.comp) : CopyRPMs(done) \/ PlaceRPMs(done) \/ PublishRPMs(done)
        \/ Close \/ Record
        \/ \E works \in BOOLEAN : End(works)

Next == \/ \E o \in Options, cs \in SUBSET Components : Start(o, cs)
        \/ Step \/ Cancel \/ Kill

Spec == Init /\ [][Next]_vars

-----------------------------------------------------------------------------
(* The types.                                                              *)
Points == {"idle", "next", "prep", "srpm", "rpm", "copy", "place", "publish",
           "close", "done", "failed", "end"}
Runs == [n : 0..MaxRuns, opts : Options \cup {None}, pc : Points,
         comp : Components \cup {None}, todo : SUBSET Components,
         built : SUBSET Components, results : SUBSET Components,
         ok : BOOLEAN, err : BOOLEAN, scrubbed : BOOLEAN]

TypeOK ==
  /\ run \in Runs
  /\ out \in [Rpms -> [Places -> Version]]
  /\ repo \in [files : [Rpms -> Version], meta : [Rpms -> Version] \cup {None}]
  /\ root \in Components \cup {None}
  /\ proc \in {"none", "new", "ready", "failed"} /\ prov \in Version
  /\ cancelled \in BOOLEAN /\ kept \subseteq Components

(* A component that is built later in a chain finds, in the metadata of    *)
(* the repository, this run's build of every component published before    *)
(* it, whatever failed or was cancelled in between; and the files are      *)
(* those the metadata describes.                                           *)
ChainSeesEarlier ==
  \A r \in Rpms : Owner[r] \in run.built =>
     repo.meta # None /\ repo.meta[r] = run.n /\ repo.files[r] = run.n

(* A run that exits 0 after it published something leaves metadata that    *)
(* describes every file of the repository, those included that an earlier  *)
(* run copied before it failed or was killed.                              *)
CleanRunLeavesTrueIndex ==
  run.pc = "idle" /\ run.n > 0 /\ ~run.err /\ run.built # {} => repo.meta = repo.files

(* Whatever is reported as built lies where the report says it is, and was *)
(* built by this run; a copy outside its channel is never left beside it.  *)
ReportIsTrue ==
  run.opts # None /\ ~run.opts.srpmOnly =>
    \A r \in Rpms : Owner[r] \in run.results =>
       /\ out[r][PlaceOf(r)] = run.n
       /\ \A p \in Places \ {PlaceOf(r)} : out[r][p] = 0

(* A scrub of the build environment never takes the chroot of a processor  *)
(* that is set up, and a command that returns leaves nothing it set up     *)
(* behind: not when it was cancelled, nor when the set-up failed half way. *)
ProvenanceChroot ==
  /\ proc = "ready" => prov # 0
  /\ run.pc = "idle" /\ run.scrubbed => prov # run.n

(* What --preserve-buildenv leaves of the shared chroot: after a run       *)
(* without an error it is there only if the policy is "always"; the        *)
(* chroot of a failed build outlives a run that stops at the first error.  *)
PolicyIsKept ==
  run.pc = "idle" /\ run.scrubbed =>
    /\ ~run.err => (root # None <=> run.opts.policy = "always")
    /\ run.err /\ ~run.opts.keepGoing /\ run.opts.policy = "on-failure" /\ kept # {} => root \in kept

=============================================================================
