------------------------------- MODULE Images -------------------------------
(***************************************************************************)
(* The image commands (cmds/image) in the processes of Shell: `build` runs *)
(* kiwi-ng in a work directory of its own and links what it made into the  *)
(* output directory, `boot` runs a virtual machine on one of those files,  *)
(* and `test` runs the tests of the image on one, with Python environments *)
(* and clones of the LISA framework that are kept from run to run.         *)
(*                                                                         *)
(* There is one image, whose definition does not change: each build makes  *)
(* all of Files, and is a number.  A file of the output directory is the   *)
(* build whose work directory its link points into, 0 where there is none. *)
(* RemoveAll on a temporary directory succeeds.                            *)
(***************************************************************************)
EXTENDS Shell

CONSTANTS
  Formats,        \* the search order of findImageArtifact: a file for each format
  Qcow2,          \* the one LISA takes
  TestList,       \* the tests of the image, in order
  Kind,           \* Kind[t]: "pytest", "lisa" or "tmt"
  Refs,           \* the commits a LISA source may be pinned to
  Own,            \* the checkout given by --lisa-dir
  BootOptions,    \* the command lines of `boot` that are looked at
  TestOptions,    \* and those of `test`
  MaxBuilds,      \* bound: the builds that reach kiwi
  MaxTouches      \* bound: what a user does between processes

Files == {Formats[i] : i \in DOMAIN Formats}
TestNames == {TestList[i] : i \in DOMAIN TestList}

ASSUME ImagesAssumption ==
  /\ Qcow2 \in Files /\ None \notin Files /\ Own \notin Refs
  /\ Formats \in Seq(Files) /\ TestList \in Seq(TestNames)
  /\ Kind \in [TestNames -> {"pytest", "lisa", "tmt"}]
  /\ \A o \in BootOptions : /\ o.file \in Files \cup {None}
                            /\ {o.named, o.iso, o.rw, o.seed} \subseteq BOOLEAN
                            /\ o.named \/ o.iso \/ o.file # None    \* validateBootOptions
  /\ \A o \in TestOptions : o.file \in Files \cup {None} /\ o.own \in BOOLEAN
  /\ {MaxBuilds, MaxTouches} \subseteq Nat

VARIABLES
  job,      \* the image command of the process
  out,      \* out[f]: the build whose file f the output directory links to
  work,     \* the builds: all so far, and those whose work directory is there
  guest,    \* history: the files virtual machines wrote to without --rwdisk
  venv,     \* venv[t]: "none", "half" or "ready", and what LISA it has installed
  clone,    \* clone[r]: "none", "partial", or a clone at r or elsewhere
  ref,      \* the commit the project pins LISA to
  touches

vars == <<shellVars, job, out, work, guest, venv, clone, ref, touches>>
disk == <<out, work, guest, venv, clone, ref, touches>>

NoJob == [at |-> "start", opt |-> None, build |-> 0, todo |-> {}, file |-> None,
          disk |-> "none", tests |-> <<>>, failed |-> FALSE, fw |-> None, reused |-> FALSE]

Init == /\ ShellInit
        /\ job = NoJob
        /\ \E made \in {0, 1} :             \* an earlier build, or none
             /\ out = [f \in Files |-> made]
             /\ work = [made |-> made, there |-> 1..made]
        /\ guest = {}
        /\ venv = [t \in TestNames |-> [state |-> "none", lisa |-> None]]
        /\ clone = [r \in Refs |-> "none"]
        /\ ref \in Refs /\ touches = 0

Live(f) == out[f] \in work.there
To(step) == job' = [job EXCEPT !.at = step]
Same == UNCHANGED <<env, tools, answer, child>>
Stay == UNCHANGED <<app, litter>> /\ Same
Done(err, results) == /\ Finish(err, results) /\ job' = NoJob
                      /\ UNCHANGED litter /\ Same

---------------------------------------------------------------------------
(* image build                                                             *)

(* Prerequisites, the image and its definition, the project's directories, *)
(* the distro, the override and the URLs of repositories may be wrong; a   *)
(* dry run goes no further than the definition.                            *)
StartBuild ==
  /\ In("build") /\ job.at = "start"
  /\ \/ Done(TRUE, FALSE) /\ UNCHANGED disk
     \/ env.dry /\ Done(FALSE, TRUE) /\ UNCHANGED disk
     \/ /\ ~env.dry /\ work.made < MaxBuilds
        /\ work' = [made |-> work.made + 1, there |-> work.there \cup {work.made + 1}]
        /\ job' = [NoJob EXCEPT !.at = "kiwi", !.build = work.made + 1]
        /\ Stay /\ UNCHANGED <<out, guest, venv, clone, ref, touches>>

RunKiwi ==
  /\ job.at = "kiwi"
  /\ \E ok \in Outcomes :
       IF ok THEN job' = [job EXCEPT !.at = "unlink", !.todo = Files] /\ Stay
             ELSE Done(TRUE, FALSE)
  /\ UNCHANGED disk

(* Mutant: a file that cannot be removed is logged and passed over.        *)
UnlinkSome(f) ==
  /\ job.at = "unlink" /\ f \in job.todo
  /\ out' \in {out, IF Live(f) THEN [out EXCEPT ![f] = 0] ELSE out}
  /\ job' = [job EXCEPT !.todo = @ \ {f}]
  /\ Stay /\ UNCHANGED <<work, guest, venv, clone, ref, touches>>

(* linkImageArtifacts removes every old file before it links the first new *)
(* one.  A dangling link does not exist for it, and stays.                 *)
Unlink(f) ==
  /\ job.at = "unlink" /\ f \in job.todo
  /\ \/ /\ out' = IF Live(f) THEN [out EXCEPT ![f] = 0] ELSE out
        /\ job' = [job EXCEPT !.todo = @ \ {f}]
        /\ Stay
     \/ Live(f) /\ Done(TRUE, FALSE) /\ UNCHANGED out
  /\ UNCHANGED <<work, guest, venv, clone, ref, touches>>

Unlinked ==
  /\ job.at = "unlink" /\ job.todo = {}
  /\ job' = [job EXCEPT !.at = "link", !.todo = Files]
  /\ Stay /\ UNCHANGED disk

(* SymLinkOrCopy: over a dangling link neither works.                      *)
Link(f) ==
  /\ job.at = "link" /\ f \in job.todo
  /\ \/ /\ out[f] = 0
        /\ out' = [out EXCEPT ![f] = job.build]
        /\ job' = [job EXCEPT !.todo = @ \ {f}]
        /\ Stay
     \/ Done(TRUE, FALSE) /\ UNCHANGED out
  /\ UNCHANGED <<work, guest, venv, clone, ref, touches>>

Linked == /\ job.at = "link" /\ job.todo = {}
          /\ Done(FALSE, TRUE) /\ UNCHANGED disk

---------------------------------------------------------------------------
(* image boot                                                              *)

(* The first format there is a file for, dangling or not.                  *)
Artifact == LET found == {i \in DOMAIN Formats : out[Formats[i]] # 0}
            IN IF found = {} THEN None
               ELSE Formats[CHOOSE i \in found : \A j \in found : i <= j]

(* A path is taken as it is; a name needs the configuration, even under a  *)
(* path.  An ISO alone boots an empty disk.                                *)
DiskSource(o) == IF o.named /\ o.file = None THEN Artifact ELSE o.file
StartBoot(o) ==
  /\ In("boot") /\ job.at = "start"
  /\ \/ Done(TRUE, FALSE)
     \/ /\ o.named => env.config = "good"
        /\ o.named => DiskSource(o) # None
        /\ IF env.dry THEN Done(FALSE, FALSE)
           ELSE /\ job' = [NoJob EXCEPT !.at = "boot", !.opt = o, !.file = DiskSource(o)]
                /\ Stay
  /\ UNCHANGED disk

(* prepareQEMUBootEnv: firmware, the directory, the NVRAM.                 *)
BootDir == "boot"
PrepareBoot ==
  /\ job.at = "boot"
  /\ \/ Done(TRUE, FALSE)
     \/ litter' = litter \cup {BootDir} /\ To("disk") /\ UNCHANGED app /\ Same
  /\ UNCHANGED disk

EndBoot(err) == /\ Finish(err, FALSE) /\ job' = NoJob
                /\ litter' = litter \ {BootDir} /\ Same

(* An empty disk, the file itself with --rwdisk, or a copy of it.          *)
DiskFor(o, f) == IF f = None THEN "empty" ELSE IF o.rw THEN "source" ELSE "copy"

PrepareDisk ==
  /\ job.at = "disk"
  /\ LET d == DiskFor(job.opt, job.file)
     IN \/ /\ d = "copy" => Live(job.file)
           /\ d = "empty" => TRUE \in Outcomes
           /\ job' = [job EXCEPT !.disk = d, !.at = IF job.opt.seed THEN "seed" ELSE "vm"]
           /\ Stay
        \/ d # "source" /\ EndBoot(TRUE)
  /\ UNCHANGED disk

(* buildCloudInitMetadataIso, in a directory of its own.                   *)
SeedDir == "seed"
MakeSeed ==
  /\ job.at = "seed"
  /\ \/ /\ SeedDir \notin litter
        /\ litter' = litter \cup {SeedDir} /\ To("seed") /\ UNCHANGED app /\ Same
     \/ /\ SeedDir \in litter /\ TRUE \in Outcomes
        /\ litter' = litter \ {SeedDir} /\ To("vm") /\ UNCHANGED app /\ Same
     \/ /\ Finish(TRUE, FALSE) /\ job' = NoJob          \* either directory goes
        /\ litter' = litter \ {SeedDir, BootDir} /\ Same
  /\ UNCHANGED disk

(* QEMU has a disk to write to, unless its path leads nowhere.             *)
GuestWrites ==
  /\ job.at = "vm" /\ job.disk = "source" /\ Live(job.file)
  /\ guest' = IF job.opt.rw THEN guest ELSE guest \cup {<<out[job.file], job.file>>}
  /\ UNCHANGED <<shellVars, job, out, work, venv, clone, ref, touches>>

RunVM ==
  /\ job.at = "vm"
  /\ \E ok \in Outcomes : EndBoot(~ok)
  /\ UNCHANGED disk

---------------------------------------------------------------------------
(* image test                                                              *)

StartTest(o) ==
  /\ In("test") /\ job.at = "start"
  /\ LET f == IF o.file = None THEN Artifact ELSE o.file
     IN \/ Done(TRUE, FALSE)
        \/ /\ f # None /\ Live(f)
           /\ job' = [NoJob EXCEPT !.at = "next", !.opt = o, !.file = f, !.tests = TestList]
           /\ Stay
  /\ UNCHANGED disk

Test == Head(job.tests)
Lisa == job.tests # <<>> /\ Kind[Test] = "lisa"
KeyDir == "keys"
Runbook == "runbook"

(* Mutant: the keys go when the test ran, not whenever it ends.            *)
EndTestKeys(failed) ==
  /\ job' = [job EXCEPT !.at = "next", !.tests = Tail(@), !.failed = @ \/ failed,
                        !.fw = None, !.reused = FALSE]
  /\ litter' = IF failed THEN litter \ {Runbook} ELSE litter \ {KeyDir, Runbook}
  /\ UNCHANGED app /\ Same

(* A test ends: its deferred clean-up, and its name among the failures.    *)
EndTest(failed) ==
  /\ job' = [job EXCEPT !.at = "next", !.tests = Tail(@), !.failed = @ \/ failed,
                        !.fw = None, !.reused = FALSE]
  /\ litter' = litter \ {KeyDir, Runbook}
  /\ UNCHANGED app /\ Same

NextTest ==
  /\ job.at = "next"
  /\ IF job.tests = <<>> THEN Done(job.failed, FALSE)
     ELSE CASE Kind[Test] = "tmt"    -> EndTest(TRUE)
            [] Kind[Test] = "pytest" -> EndTest(TRUE) \/ (To("venv") /\ Stay)
            [] OTHER                 -> EndTest(TRUE) \/ (To("keys") /\ Stay)
  /\ UNCHANGED disk

(* ssh-keygen, in a directory made for it, whose removal is returned with  *)
(* the key: if it fails nobody removes the directory.                      *)
NoKeyDir == "nokeys"
MakeKeys ==
  /\ job.at = "keys"
  /\ \/ EndTest(TRUE)
     \/ /\ TRUE \in Outcomes /\ To("framework")
        /\ litter' = litter \cup {KeyDir} /\ UNCHANGED app /\ Same
     \/ /\ FALSE \in Outcomes
        /\ job' = [job EXCEPT !.at = "next", !.tests = Tail(@), !.failed = TRUE]
        /\ litter' = litter \cup {NoKeyDir} /\ UNCHANGED app /\ Same
  /\ UNCHANGED disk

Framework ==
  /\ job.at = "framework"
  /\ \/ /\ job.opt.own
        /\ job' = [job EXCEPT !.at = "venv", !.fw = Own] /\ Stay
     \/ /\ ~job.opt.own
        /\ job' = [job EXCEPT !.fw = ref, !.reused = clone[ref] # "none",
                              !.at = IF clone[ref] = "none" THEN "clone" ELSE "checkout"]
        /\ Stay
     \/ EndTest(TRUE)                       \* no such directory, or no git
  /\ UNCHANGED disk

SetClone(state) == clone' = [clone EXCEPT ![job.fw] = state]
Clone ==
  /\ job.at = "clone"
  /\ \E ok \in Outcomes :
       IF ok THEN /\ SetClone(IF env.dry THEN "none" ELSE "elsewhere")
                  /\ To("checkout") /\ Stay
             ELSE /\ \E left \in {"none", "partial"} : SetClone(left)
                  /\ EndTest(TRUE)
  /\ UNCHANGED <<out, work, guest, venv, ref, touches>>

(* Mutant: a clone that is there is at the commit its directory names.     *)
CheckoutNew ==
  /\ job.at = "checkout"
  /\ \/ /\ job.reused
        /\ To("venv") /\ Stay /\ UNCHANGED clone
     \/ /\ ~job.reused /\ (env.dry \/ TRUE \in Outcomes)
        /\ SetClone(IF env.dry THEN clone[job.fw] ELSE "pinned")
        /\ To("venv") /\ Stay
  /\ UNCHANGED <<out, work, guest, venv, ref, touches>>

(* The pinned commit is checked out in any clone; one that was there and   *)
(* does not take it is removed and made again, once.                       *)
Checkout ==
  /\ job.at = "checkout"
  /\ \/ /\ TRUE \in Outcomes /\ (env.dry \/ clone[job.fw] \in {"pinned", "elsewhere"})
        /\ SetClone(IF env.dry THEN clone[job.fw] ELSE "pinned")
        /\ To("venv") /\ Stay
     \/ /\ ~env.dry
        /\ IF job.reused
           THEN /\ SetClone("none")
                /\ job' = [job EXCEPT !.at = "clone", !.reused = FALSE] /\ Stay
           ELSE EndTest(TRUE) /\ UNCHANGED clone
  /\ UNCHANGED <<out, work, guest, venv, ref, touches>>

(* A virtual environment is there when its interpreter is, whatever became *)
(* of the rest of it.                                                      *)
MakeVenv ==
  /\ job.at = "venv"
  /\ IF venv[Test].state # "none" THEN To("install") /\ Stay /\ UNCHANGED venv
     ELSE \E ok \in Outcomes :
       IF ok THEN /\ venv' = IF env.dry THEN venv ELSE [venv EXCEPT ![Test].state = "ready"]
                  /\ To("install") /\ Stay
             ELSE /\ \E left \in {"none", "half"} : venv' = [venv EXCEPT ![Test].state = left]
                  /\ EndTest(TRUE)
  /\ UNCHANGED <<out, work, guest, clone, ref, touches>>

Install ==
  /\ job.at = "install"
  /\ \/ /\ Lisa => TRUE \in Outcomes /\ (env.dry \/ venv[Test].state = "ready")
        /\ venv' = IF Lisa /\ ~env.dry THEN [venv EXCEPT ![Test].lisa = job.fw] ELSE venv
        /\ To(IF Lisa THEN "runbook" ELSE "run") /\ Stay
     \/ EndTest(TRUE) /\ UNCHANGED venv
  /\ UNCHANGED <<out, work, guest, clone, ref, touches>>

(* LISA takes a qcow2 file only, and its runbook lies in the framework.    *)
(* Its removal is deferred once it is written: one that could only be      *)
(* written in part stays, when the keys go.                                *)
HalfRunbook == "half a runbook"
Writable == job.file = Qcow2 /\ (job.fw # Own => clone[job.fw] # "none")
WriteRunbook ==
  /\ job.at = "runbook"
  /\ \/ /\ Writable
        /\ litter' = litter \cup {Runbook} /\ To("run")
        /\ UNCHANGED app /\ Same
     \/ /\ Writable
        /\ job' = [job EXCEPT !.at = "next", !.tests = Tail(@), !.failed = TRUE,
                              !.fw = None, !.reused = FALSE]
        /\ litter' = (litter \ {KeyDir}) \cup {HalfRunbook}
        /\ UNCHANGED app /\ Same
     \/ EndTest(TRUE)
  /\ UNCHANGED disk

RunTest ==
  /\ job.at = "run"
  /\ \E ok \in Outcomes : EndTest(~ok)
  /\ UNCHANGED disk

---------------------------------------------------------------------------
(* Between processes a user may pin another commit, work in a clone, or    *)
(* clean the work directory of a build.                                    *)
UserTouches ==
  /\ app.at = "off" /\ touches < MaxTouches /\ touches' = touches + 1
  /\ \/ /\ ref' \in Refs \ {ref} /\ UNCHANGED <<clone, work>>
     \/ /\ \E r \in Refs : clone[r] = "pinned" /\ clone' = [clone EXCEPT ![r] = "elsewhere"]
        /\ UNCHANGED <<ref, work>>
     \/ /\ \E b \in work.there : work' = [work EXCEPT !.there = @ \ {b}]
        /\ UNCHANGED <<ref, clone>>
  /\ UNCHANGED <<shellVars, job, out, guest, venv>>

(* Killed in the middle of a clone or of `python3 -m venv`, the process    *)
(* leaves what there is.                                                   *)
KillJob ==
  /\ Kill /\ job' = NoJob
  /\ clone' \in {clone} \cup IF job.at = "clone" /\ ~env.dry
                             THEN {[clone EXCEPT ![job.fw] = "partial"]} ELSE {}
  /\ venv' \in {venv} \cup IF job.at = "venv" /\ venv[Test].state = "none" /\ ~env.dry
                           THEN {[venv EXCEPT ![Test].state = "half"]} ELSE {}
  /\ UNCHANGED <<out, work, guest, ref, touches>>

ImageStep ==
  \/ StartBuild \/ RunKiwi \/ Unlinked \/ Linked
  \/ \E f \in Files : Unlink(f) \/ Link(f)
  \/ \E o \in BootOptions : StartBoot(o)
  \/ PrepareBoot \/ PrepareDisk \/ MakeSeed \/ RunVM
  \/ \E o \in TestOptions : StartTest(o)
  \/ NextTest \/ MakeKeys \/ Framework \/ Clone \/ Checkout
  \/ MakeVenv \/ Install \/ WriteRunbook \/ RunTest

Shells(A) == A /\ UNCHANGED <<job, disk>>
Step == Shells(ShellStep) \/ ImageStep

Next ==
  \/ Step
  \/ \E c \in Commands, dry \in Spellings, root \in BOOLEAN : Shells(Launch(c, dry, root))
  \/ \E t \in Tools, flags, words \in SUBSET Words : Shells(Call(t, flags, words))
  \/ Shells(ClientLeaves) \/ Shells(ChildWrites) \/ Shells(LetsGo) \/ Shells(Cancel)
  \/ KillJob \/ GuestWrites \/ UserTouches

Spec == Init /\ [][Next]_vars

---------------------------------------------------------------------------
(* The types.                                                              *)
JobSteps == {"start", "kiwi", "unlink", "link", "boot", "disk", "seed", "vm", "next", "keys",
             "framework", "clone", "checkout", "venv", "install", "runbook", "run"}
Jobs == [at : JobSteps, opt : BootOptions \cup TestOptions \cup {None}, build : Nat,
         todo : SUBSET Files, file : Files \cup {None}, disk : {"none", "empty", "source", "copy"},
         tests : Seq(TestNames), failed : BOOLEAN, fw : Refs \cup {Own, None}, reused : BOOLEAN]

ImagesTypeOK ==
  /\ ShellTypeOK
  /\ job \in Jobs
  /\ out \in [Files -> 0..work.made]
  /\ work \in [made : Nat, there : SUBSET (1..work.made)]
  /\ guest \subseteq Nat \X Files
  /\ venv \in [TestNames -> [state : {"none", "half", "ready"}, lisa : Refs \cup {Own, None}]]
  /\ clone \in [Refs -> {"none", "partial", "elsewhere", "pinned"}]
  /\ ref \in Refs /\ touches \in Nat

(* What a process that ends by itself leaves behind: no temporary          *)
(* directory, no virtual machine's disk, no key and no runbook that was    *)
(* written, however its command fails (the deferred removals of Execute,   *)
(* runQEMUBoot, buildCloudInitMetadataIso and runLisaLocally).  What is    *)
(* not yet handed over for removal may stay: the directory of a key pair   *)
(* that could not be made, and a runbook of which only a part could be     *)
(* written.  Nor does it leave an image a virtual machine wrote to, unless *)
(* --rwdisk asked for that.  (A removal that fails is only logged, and     *)
(* taken to succeed here.)                                                 *)
NothingLeft == /\ app.at = "off" => litter \subseteq {NoKeyDir, HalfRunbook}
               /\ guest = {}

(* The files of the image that can be opened are of one build, wherever    *)
(* the last one failed or was stopped.                                     *)
OneBuildInOut == \A f, g \in Files : Live(f) /\ Live(g) => out[f] = out[g]

(* LISA runs the commit the project pins, from the clone of that commit    *)
(* and not from what an environment had installed before, over clones that *)
(* are partial or in which another commit is checked out.  (Files somebody *)
(* edited there are not looked at.)                                        *)
RightFramework ==
  job.at = "run" /\ Lisa /\ ~env.dry =>
    /\ venv[Test].lisa = job.fw
    /\ ~job.opt.own => job.fw = ref /\ clone[ref] = "pinned"

FreshSel(t, flags, words) == (IF flags = {} THEN Preset[t] ELSE flags) \cup words

(* A tool answers as the command would in a process of its own, whatever   *)
(* the server was asked before.                                            *)
CallIsFresh ==
  answer # None /\ answer.tool \in FlagTools =>
    answer.sel = FreshSel(answer.tool, answer.flags, answer.words)

(* When Run returns its listener has had every line the child wrote, up to *)
(* one that is too long for the scanner (Hear).                            *)
AllLinesHeard == child.at = "returned" => child.heard = child.wrote

=============================================================================
