---------------------------- MODULE SessionProofs ---------------------------
(***************************************************************************)
(* Proofs about Shell and Images, for every set of commands, tools, image  *)
(* formats, tests and commits of LISA and every bound; and, in the second  *)
(* half, about AgentFiles, for every set of skills and instructions.       *)
(***************************************************************************)
EXTENDS Images, AgentFiles, WellFoundedInduction, TLAPS

TestSteps == {"keys", "framework", "clone", "checkout", "venv", "install", "runbook", "run"}

\* A job runs in the body of an image command, and nowhere else.
JobInv == /\ job.at # "start" => app.at = "body" /\ app.command \notin {"mcp", "mock"}
          /\ job.at \in TestSteps => job.tests # <<>>

\* The temporary things each step of a job may find.
May(step) == CASE step \in {"disk", "vm"} -> {BootDir}
               [] step = "seed"           -> {BootDir, SeedDir}
               [] step \in {"framework", "clone", "checkout", "venv", "install", "runbook"} -> {KeyDir}
               [] step = "run"            -> {KeyDir, Runbook}
               [] OTHER                   -> {}
LitterInv == litter \subseteq {NoKeyDir, HalfRunbook} \cup (IF app.at = "off" THEN {} ELSE {"early"}) \cup May(job.at)

\* A virtual machine writes to the image itself only under --rwdisk.
DiskInv == guest = {} /\ (job.disk = "source" => job.opt.rw)

\* While a build replaces the files: what it has removed cannot be opened,
\* and what it has not linked yet cannot either.
OutInv == /\ OneBuildInOut
          /\ job.build <= work.made
          /\ job.at = "unlink" => \A f \in Files \ job.todo : ~Live(f)
          /\ job.at = "link" => \A f \in Files : Live(f) => f \notin job.todo /\ out[f] = job.build

\* The commit a LISA test works with, from the step that chooses it on.
FwInv ==
  /\ job.at \in {"clone", "checkout"} => job.fw = ref /\ ~job.opt.own
  /\ job.at \in {"venv", "install", "runbook", "run"} /\ Lisa /\ ~job.opt.own =>
       job.fw = ref /\ (~env.dry => clone[ref] = "pinned")
  /\ job.at \in {"runbook", "run"} /\ Lisa /\ ~env.dry => venv[Test].lisa = job.fw

\* The listener reads until the child is gone and there is nothing to read.
ChildInv == /\ child.at \in {"running", "exited"} => In("mock")
            /\ child.heard <= child.wrote
            /\ child.at = "running" => child.listening
            /\ child.at \in {"exited", "returned"} /\ ~child.listening => child.heard = child.wrote
            /\ child.at = "returned" => ~child.listening

IInv == ImagesTypeOK /\ JobInv /\ LitterInv /\ DiskInv /\ OutInv /\ FwInv /\ ChildInv /\ CallIsFresh

-----------------------------------------------------------------------------
(* Types.                                                                  *)

LEMMA FirstTest ==
  ASSUME job.tests \in Seq(TestNames), job.tests # <<>>
  PROVE  Test \in TestNames /\ Tail(job.tests) \in Seq(TestNames)
BY DEF Test

\* A set of numbers has a least one: the order of numbers is well-founded.
LEMMA LessThanIsWellFounded == IsWellFoundedOn({ss \in Nat \X Nat : ss[1] < ss[2]}, Nat)
BY NatLessThanWellFounded DEF OpToRel

LEMMA LeastIndex ==
  ASSUME NEW S \in SUBSET Nat, S # {}
  PROVE  (CHOOSE i \in S : \A j \in S : i <= j) \in S
<1> DEFINE R == {ss \in Nat \X Nat : ss[1] < ss[2]}
<1>1. PICK i \in S : \A j \in S : ~(<<j, i>> \in R)
  <2>1. IsWellFoundedOn(R, Nat) BY LessThanIsWellFounded
  <2> HIDE DEF R
  <2> QED BY <2>1, WFMin
<1>2. ASSUME NEW j \in S PROVE i <= j
  <2>1. i \in Nat /\ j \in Nat /\ <<j, i>> \in Nat \X Nat OBVIOUS
  <2>2. ~(j < i) BY <1>1, <2>1
  <2> QED BY <2>1, <2>2
<1>3. \E i_1 \in S : \A j \in S : i_1 <= j BY <1>2
<1> QED BY <1>3

\* findImageArtifact finds one of the formats, or nothing.
LEMMA ArtifactIsAFile == Artifact \in Files \cup {None}
<1> DEFINE found == {i \in DOMAIN Formats : out[Formats[i]] # 0}
           first == CHOOSE i \in found : \A j \in found : i <= j
<1>1. CASE found = {} BY <1>1 DEF Artifact
<1>2. CASE found # {}
  <2>1. found \in SUBSET Nat BY ImagesAssumption
  <2>2. first \in found
    <3> HIDE DEF found
    <3> QED BY <1>2, <2>1, LeastIndex
  <2>3. Artifact = Formats[first] BY <1>2 DEF Artifact
  <2> QED BY <2>2, <2>3 DEF Files
<1> QED BY <1>1, <1>2

LEMMA TypeInit == Init => IInv
<1> SUFFICES ASSUME Init PROVE IInv OBVIOUS
<1> USE ShellAssumption, ImagesAssumption
<1>1. ShellTypeOK BY DEF Init, ShellInit, ShellTypeOK, Processes, Off, NoEnv, NewTools, NoChild
<1>2. ImagesTypeOK BY <1>1 DEF ImagesTypeOK, Init, NoJob, Jobs, JobSteps
<1>3. JobInv /\ LitterInv /\ DiskInv
  <2>1. job.at = "start" /\ job.disk = "none" /\ app.at = "off" BY DEF Init, ShellInit, NoJob, Off
  <2> QED BY <2>1 DEF Init, ShellInit, JobInv, LitterInv, DiskInv, TestSteps
<1>4. OutInv
  <2>1. \A f, g \in Files : out[f] = out[g] BY DEF Init
  <2> QED BY <2>1 DEF OutInv, OneBuildInOut, Init, NoJob
<1>5. FwInv BY DEF FwInv, Init, NoJob
<1>6. ChildInv /\ CallIsFresh BY DEF ChildInv, CallIsFresh, Init, ShellInit, NoChild
<1> QED BY <1>2, <1>3, <1>4, <1>5, <1>6 DEF IInv

-----------------------------------------------------------------------------
(* The ways a step of a job ends.                                          *)

\* What the steps of a job have in common: the process goes on, or its
\* command finishes.
JobFrame == /\ Same
            /\ app' = app \/ \E err, results \in BOOLEAN : Finish(err, results)

LEMMA FrameKeeps ==
  ASSUME IInv, JobFrame, app.at = "body", app.command \notin {"mcp", "mock"}
  PROVE  ShellTypeOK' /\ ChildInv' /\ CallIsFresh'
<1> USE DEF IInv, ImagesTypeOK, JobFrame, Same
<1>1. CASE app' = app BY <1>1 DEF ShellTypeOK, Processes, ChildInv, In, CallIsFresh, FreshSel
<1>2. CASE \E err, results \in BOOLEAN : Finish(err, results)
  <2> PICK err \in BOOLEAN, results \in BOOLEAN : Finish(err, results) BY <1>2
  <2>1. ShellTypeOK' BY ZenonT(40) DEF ShellTypeOK, Processes, Finish
  <2>2. ChildInv' BY DEF ChildInv, Finish, In, ShellTypeOK, Processes
  <2>3. CallIsFresh' BY DEF CallIsFresh, FreshSel
  <2> QED BY <2>1, <2>2, <2>3
<1> QED BY <1>1, <1>2

LEMMA OutcomesAreBoolean == \A ok \in Outcomes : ok \in BOOLEAN /\ (~ok) \in BOOLEAN
<1>1. Outcomes \subseteq BOOLEAN BY DEF Outcomes
<1> QED BY <1>1

LEMMA NoJobIsAJob == NoJob \in Jobs
BY ImagesAssumption DEF NoJob, Jobs, JobSteps

\* A command that ends leaves the disk as it is.
LEMMA DoneKeeps ==
  ASSUME IInv, NEW err \in BOOLEAN, NEW results \in BOOLEAN, Done(err, results), UNCHANGED disk,
         app.at = "body", app.command \notin {"mcp", "mock"}, May(job.at) = {}
  PROVE  IInv'
<1> USE DEF Done, disk
<1>1. ShellTypeOK' /\ ChildInv' /\ CallIsFresh' BY FrameKeeps DEF JobFrame
<1>2. ImagesTypeOK' BY <1>1, NoJobIsAJob DEF IInv, ImagesTypeOK
<1>3. JobInv' /\ DiskInv' /\ FwInv' BY DEF IInv, JobInv, DiskInv, FwInv, NoJob, TestSteps
<1>4. LitterInv' BY DEF IInv, LitterInv, NoJob, May, Finish, ImagesTypeOK, ShellTypeOK, Processes
<1>5. OutInv' BY DEF IInv, ImagesTypeOK, OutInv, OneBuildInOut, Live, NoJob
<1> QED BY <1>1, <1>2, <1>3, <1>4, <1>5 DEF IInv

\* So does a command of `boot` that removes its directories.
LEMMA EndBootKeeps ==
  ASSUME IInv, NEW err \in BOOLEAN, Finish(err, FALSE), job' = NoJob, Same, UNCHANGED disk,
         job.at \in {"disk", "seed", "vm"},
         litter' = litter \ May(job.at)
  PROVE  IInv'
<1> USE DEF disk
<1>0. app.at = "body" /\ app.command \notin {"mcp", "mock"} BY DEF IInv, JobInv
<1>1. ShellTypeOK' /\ ChildInv' /\ CallIsFresh' BY <1>0, FrameKeeps DEF JobFrame
<1>2. ImagesTypeOK' BY <1>1, NoJobIsAJob DEF IInv, ImagesTypeOK
<1>3. JobInv' /\ DiskInv' /\ FwInv' BY DEF IInv, JobInv, DiskInv, FwInv, NoJob, TestSteps
<1>4. LitterInv' BY <1>0 DEF IInv, LitterInv, NoJob, May, Finish, ImagesTypeOK, ShellTypeOK, Processes
<1>5. OutInv' BY DEF IInv, ImagesTypeOK, OutInv, OneBuildInOut, Live, NoJob
<1> QED BY <1>1, <1>2, <1>3, <1>4, <1>5 DEF IInv

\* A test that ends removes what it made; its environment and its clone
\* may have changed.
LEMMA EndTestKeeps ==
  ASSUME IInv, NEW failed \in BOOLEAN, EndTest(failed),
         job.at \in TestSteps \cup {"next"}, job.tests # <<>>,
         UNCHANGED <<out, work, guest, ref, touches>>,
         venv' \in [TestNames -> [state : {"none", "half", "ready"}, lisa : Refs \cup {Own, None}]],
         clone' \in [Refs -> {"none", "partial", "elsewhere", "pinned"}]
  PROVE  IInv'
<1> USE DEF EndTest
<1>0. app.at = "body" /\ app.command \notin {"mcp", "mock"} BY DEF IInv, JobInv, TestSteps
<1>1. ShellTypeOK' /\ ChildInv' /\ CallIsFresh' BY <1>0, FrameKeeps DEF JobFrame
<1>2. job.tests \in Seq(TestNames) /\ Tail(job.tests) \in Seq(TestNames)
  BY FirstTest DEF IInv, ImagesTypeOK, Jobs
<1>3. job' \in Jobs BY ZenonT(40), <1>2 DEF IInv, ImagesTypeOK, Jobs, JobSteps
<1>4. ImagesTypeOK' BY <1>1, <1>3 DEF IInv, ImagesTypeOK
<1>5. job'.at = "next" /\ job'.disk = job.disk /\ job'.opt = job.opt /\ job'.build = job.build BY DEF IInv, ImagesTypeOK, Jobs
<1>6. JobInv' /\ DiskInv' /\ FwInv' BY <1>0, <1>5 DEF IInv, JobInv, DiskInv, FwInv, TestSteps
<1>7. LitterInv' BY <1>0, <1>5 DEF IInv, LitterInv, May, TestSteps
<1>8. OutInv' BY <1>5 DEF IInv, OutInv, OneBuildInOut, Live
<1> QED BY <1>1, <1>4, <1>6, <1>7, <1>8 DEF IInv

-----------------------------------------------------------------------------
(* image build                                                             *)

\* A step of a job that goes on, over files nothing is done to.
LEMMA GoesOn ==
  ASSUME IInv, Stay, app.at = "body", app.command \notin {"mcp", "mock"}
  PROVE  ShellTypeOK' /\ ChildInv' /\ CallIsFresh' /\ UNCHANGED <<app, litter, env>>
BY FrameKeeps DEF Stay, Same, JobFrame

LEMMA StartBuildKeeps == ASSUME IInv, StartBuild PROVE IInv'
<1>0. app.at = "body" /\ app.command \notin {"mcp", "mock"} /\ job.at = "start"
  BY DEF StartBuild, In
<1>1. CASE \E err, results \in BOOLEAN : Done(err, results) /\ UNCHANGED disk
  BY <1>0, <1>1, DoneKeeps DEF May
<1>2. CASE /\ work' = [made |-> work.made + 1, there |-> work.there \cup {work.made + 1}]
           /\ job' = [NoJob EXCEPT !.at = "kiwi", !.build = work.made + 1]
           /\ Stay /\ UNCHANGED <<out, guest, venv, clone, ref, touches>>
  <2>1. ShellTypeOK' /\ ChildInv' /\ CallIsFresh' /\ UNCHANGED <<app, litter, env>> BY <1>0, <1>2, GoesOn
  <2>2. work.made \in Nat /\ work.there \subseteq 1..work.made /\ out \in [Files -> 0..work.made]
    BY DEF IInv, ImagesTypeOK
  <2>3. job' \in Jobs
    <3>1. job' = [NoJob EXCEPT !.at = "kiwi", !.build = work.made + 1] BY <1>2
    <3>2. work.made + 1 \in Nat BY <2>2
    <3> QED BY <3>1, <3>2, NoJobIsAJob DEF Jobs, JobSteps
  <2>4. work' \in [made : Nat, there : SUBSET (1..work'.made)] BY <1>2, <2>2
  <2>5. out' \in [Files -> 0..work'.made] BY <1>2, <2>2
  <2>6. ImagesTypeOK' BY <1>2, <2>1, <2>3, <2>4, <2>5 DEF IInv, ImagesTypeOK
  <2>7. job'.at = "kiwi" /\ job'.disk = "none" BY <1>2 DEF NoJob
  <2>8. JobInv' /\ LitterInv' /\ DiskInv' /\ FwInv'
    BY <1>0, <1>2, <2>1, <2>7 DEF IInv, JobInv, TestSteps, LitterInv, May, DiskInv, FwInv
  <2>9. OutInv'
    <3>1. ASSUME NEW f \in Files PROVE Live(f)' => Live(f) BY <1>2, <2>2 DEF Live
    <3> QED BY <1>2, <2>2, <2>4, <2>7, <3>1 DEF IInv, OutInv, OneBuildInOut, NoJob
  <2> QED BY <2>1, <2>6, <2>8, <2>9 DEF IInv
<1> QED BY <1>1, <1>2 DEF StartBuild

LEMMA RunKiwiKeeps == ASSUME IInv, RunKiwi PROVE IInv'
<1>0. app.at = "body" /\ app.command \notin {"mcp", "mock"} BY DEF IInv, JobInv, RunKiwi
<1>1. CASE Done(TRUE, FALSE) BY <1>0, <1>1, DoneKeeps DEF RunKiwi, May
<1>2. CASE job' = [job EXCEPT !.at = "unlink", !.todo = Files] /\ Stay
  <2>1. ShellTypeOK' /\ ChildInv' /\ CallIsFresh' /\ UNCHANGED <<app, litter, env>> BY <1>0, <1>2, GoesOn
  <2>2. UNCHANGED disk BY DEF RunKiwi
  <2>3. job' \in Jobs /\ job'.at = "unlink" /\ job'.todo = Files /\ job'.disk = job.disk /\ job'.opt = job.opt /\ job'.build = job.build
    BY <1>2 DEF IInv, ImagesTypeOK, Jobs, JobSteps
  <2>4. ImagesTypeOK' BY <2>1, <2>2, <2>3 DEF IInv, ImagesTypeOK, disk
  <2>5. JobInv' /\ LitterInv' /\ DiskInv' /\ FwInv'
    BY <1>0, <2>1, <2>2, <2>3 DEF IInv, JobInv, TestSteps, LitterInv, May, DiskInv, FwInv, disk, RunKiwi
  <2>6. OutInv' BY <2>2, <2>3 DEF IInv, OutInv, OneBuildInOut, Live, disk
  <2> QED BY <2>1, <2>4, <2>5, <2>6 DEF IInv
<1> QED BY <1>1, <1>2 DEF RunKiwi

LEMMA UnlinkKeeps == ASSUME IInv, NEW f \in Files, Unlink(f) PROVE IInv'
<1>0. app.at = "body" /\ app.command \notin {"mcp", "mock"} BY DEF IInv, JobInv, Unlink
<1>1. CASE Done(TRUE, FALSE) /\ UNCHANGED out BY <1>0, <1>1, DoneKeeps DEF Unlink, May, disk
<1>2. CASE /\ out' = IF Live(f) THEN [out EXCEPT ![f] = 0] ELSE out
           /\ job' = [job EXCEPT !.todo = @ \ {f}]
           /\ Stay
  <2>1. ShellTypeOK' /\ ChildInv' /\ CallIsFresh' /\ UNCHANGED <<app, litter, env>> BY <1>0, <1>2, GoesOn
  <2>2. UNCHANGED <<work, guest, venv, clone, ref, touches>> /\ job.at = "unlink" BY DEF Unlink
  <2>3. /\ job' \in Jobs /\ job'.at = "unlink" /\ job'.todo = job.todo \ {f}
        /\ job'.disk = job.disk /\ job'.opt = job.opt /\ job'.build = job.build
    BY <1>2, <2>2 DEF IInv, ImagesTypeOK, Jobs
  <2>4. work.made \in Nat /\ work.there \subseteq 1..work.made /\ out \in [Files -> 0..work.made]
    BY DEF IInv, ImagesTypeOK
  <2>5. out' \in [Files -> 0..work.made] BY <1>2, <2>4
  <2>6. ImagesTypeOK' BY <2>1, <2>2, <2>3, <2>5 DEF IInv, ImagesTypeOK
  <2>7. JobInv' /\ LitterInv' /\ DiskInv' /\ FwInv'
    BY <1>0, <2>1, <2>2, <2>3 DEF IInv, JobInv, TestSteps, LitterInv, May, DiskInv, FwInv
  <2>8. \A g \in Files : Live(g)' => Live(g) /\ g # f /\ out'[g] = out[g] BY <1>2, <2>2, <2>4 DEF Live
  <2>9. OutInv' BY <2>2, <2>3, <2>8 DEF IInv, OutInv, OneBuildInOut
  <2> QED BY <2>1, <2>6, <2>7, <2>9 DEF IInv
<1> QED BY <1>1, <1>2 DEF Unlink

LEMMA UnlinkedKeeps == ASSUME IInv, Unlinked PROVE IInv'
<1>0. app.at = "body" /\ app.command \notin {"mcp", "mock"} BY DEF IInv, JobInv, Unlinked
<1>1. ShellTypeOK' /\ ChildInv' /\ CallIsFresh' /\ UNCHANGED <<app, litter, env>> BY <1>0, GoesOn DEF Unlinked
<1>2. UNCHANGED disk /\ job.at = "unlink" /\ job.todo = {} BY DEF Unlinked
<1>3. job' \in Jobs /\ job'.at = "link" /\ job'.disk = job.disk /\ job'.opt = job.opt /\ job'.build = job.build
  BY DEF IInv, ImagesTypeOK, Jobs, JobSteps, Unlinked
<1>4. ImagesTypeOK' BY <1>1, <1>2, <1>3 DEF IInv, ImagesTypeOK, disk
<1>5. JobInv' /\ LitterInv' /\ DiskInv' /\ FwInv'
  BY <1>0, <1>1, <1>2, <1>3 DEF IInv, JobInv, TestSteps, LitterInv, May, DiskInv, FwInv, disk
<1>6. OutInv' BY <1>2, <1>3 DEF IInv, OutInv, OneBuildInOut, Live, disk
<1> QED BY <1>1, <1>4, <1>5, <1>6 DEF IInv

LEMMA LinkKeeps == ASSUME IInv, NEW f \in Files, Link(f) PROVE IInv'
<1>0. app.at = "body" /\ app.command \notin {"mcp", "mock"} BY DEF IInv, JobInv, Link
<1>1. CASE Done(TRUE, FALSE) /\ UNCHANGED out BY <1>0, <1>1, DoneKeeps DEF Link, May, disk
<1>2. CASE /\ out' = [out EXCEPT ![f] = job.build]
           /\ job' = [job EXCEPT !.todo = @ \ {f}]
           /\ Stay
  <2>1. ShellTypeOK' /\ ChildInv' /\ CallIsFresh' /\ UNCHANGED <<app, litter, env>> BY <1>0, <1>2, GoesOn
  <2>2. UNCHANGED <<work, guest, venv, clone, ref, touches>> /\ job.at = "link" BY DEF Link
  <2>3. /\ job' \in Jobs /\ job'.at = "link" /\ job'.todo = job.todo \ {f}
        /\ job'.disk = job.disk /\ job'.opt = job.opt /\ job'.build = job.build
    BY <1>2, <2>2 DEF IInv, ImagesTypeOK, Jobs
  <2>4. work.made \in Nat /\ out \in [Files -> 0..work.made] /\ job.build \in 0..work.made
    BY <2>2 DEF IInv, ImagesTypeOK, Jobs, OutInv
  <2>5. out' \in [Files -> 0..work.made] BY <1>2, <2>4
  <2>6. ImagesTypeOK' BY <2>1, <2>2, <2>3, <2>5 DEF IInv, ImagesTypeOK
  <2>7. JobInv' /\ LitterInv' /\ DiskInv' /\ FwInv'
    BY <1>0, <2>1, <2>2, <2>3 DEF IInv, JobInv, TestSteps, LitterInv, May, DiskInv, FwInv
  <2>8. \A g \in Files : Live(g)' => g \notin job'.todo /\ out'[g] = job.build
    BY <1>2, <2>2, <2>3, <2>4 DEF Live, IInv, OutInv
  <2>9. OutInv' BY <2>2, <2>3, <2>4, <2>8 DEF OutInv, OneBuildInOut
  <2> QED BY <2>1, <2>6, <2>7, <2>9 DEF IInv
<1> QED BY <1>1, <1>2 DEF Link

LEMMA LinkedKeeps == ASSUME IInv, Linked PROVE IInv'
BY DoneKeeps DEF Linked, IInv, JobInv, May

-----------------------------------------------------------------------------
(* image boot                                                              *)

LEMMA StartBootKeeps == ASSUME IInv, NEW o \in BootOptions, StartBoot(o) PROVE IInv'
<1>0. app.at = "body" /\ app.command \notin {"mcp", "mock"} /\ job.at = "start" /\ UNCHANGED disk
  BY DEF StartBoot, In
<1>1. CASE \E err \in BOOLEAN : Done(err, FALSE) BY <1>0, <1>1, DoneKeeps DEF May
<1>2. CASE job' = [NoJob EXCEPT !.at = "boot", !.opt = o, !.file = DiskSource(o)] /\ Stay
  <2>1. ShellTypeOK' /\ ChildInv' /\ CallIsFresh' /\ UNCHANGED <<app, litter, env>> BY <1>0, <1>2, GoesOn
  <2>2. DiskSource(o) \in Files \cup {None} BY ImagesAssumption, ArtifactIsAFile DEF DiskSource
  <2>3. job' \in Jobs BY <1>2, <2>2, NoJobIsAJob DEF Jobs, JobSteps
  <2>4. job'.at = "boot" /\ job'.disk = "none" /\ job'.build = 0 BY <1>2 DEF NoJob
  <2>5. ImagesTypeOK' BY <1>0, <2>1, <2>3 DEF IInv, ImagesTypeOK, disk
  <2>6. JobInv' /\ LitterInv' /\ DiskInv' /\ FwInv'
    BY <1>0, <2>1, <2>4 DEF IInv, JobInv, TestSteps, LitterInv, May, DiskInv, FwInv, disk
  <2>7. OutInv' BY <1>0, <2>4 DEF IInv, ImagesTypeOK, OutInv, OneBuildInOut, Live, disk
  <2> QED BY <2>1, <2>5, <2>6, <2>7 DEF IInv
<1> QED BY <1>1, <1>2 DEF StartBoot

\* A step of `boot` that goes on: what it may find next is what it made.
LEMMA BootKeeps ==
  ASSUME IInv, job.at \in {"boot", "disk", "seed"}, UNCHANGED <<app, disk>>, Same,
         NEW step \in {"disk", "seed", "vm"}, NEW d \in {"none", "empty", "source", "copy"},
         job' = [job EXCEPT !.at = step, !.disk = d], d = "source" => job.opt.rw,
         litter' \subseteq (litter \ May(job.at)) \cup May(step)
  PROVE  IInv'
<1>0. app.at = "body" /\ app.command \notin {"mcp", "mock"} BY DEF IInv, JobInv
<1>1. ShellTypeOK' /\ ChildInv' /\ CallIsFresh' BY <1>0, FrameKeeps DEF JobFrame
<1>2. /\ job' \in Jobs /\ job'.at = step /\ job'.disk = d
      /\ job'.opt = job.opt /\ job'.build = job.build
  BY DEF IInv, ImagesTypeOK, Jobs, JobSteps
<1>3. ImagesTypeOK' BY <1>1, <1>2 DEF IInv, ImagesTypeOK, disk
<1>4. JobInv' /\ DiskInv' /\ FwInv' BY <1>0, <1>2 DEF IInv, JobInv, TestSteps, DiskInv, FwInv, disk
<1>5. LitterInv' BY <1>0, <1>2 DEF IInv, LitterInv
<1>6. OutInv' BY <1>2 DEF IInv, OutInv, OneBuildInOut, Live, disk
<1> QED BY <1>1, <1>3, <1>4, <1>5, <1>6 DEF IInv

LEMMA PrepareBootKeeps == ASSUME IInv, PrepareBoot PROVE IInv'
<1>1. CASE Done(TRUE, FALSE) BY <1>1, DoneKeeps DEF PrepareBoot, IInv, JobInv, May
<1>2. CASE litter' = litter \cup {BootDir} /\ To("disk") /\ UNCHANGED app /\ Same
  <2>1. job.disk \in {"none", "empty", "source", "copy"} /\ job' = [job EXCEPT !.at = "disk", !.disk = job.disk]
    BY <1>2 DEF IInv, ImagesTypeOK, Jobs, To
  <2>2. job.at = "boot" /\ UNCHANGED disk BY DEF PrepareBoot
  <2>3. litter' \subseteq (litter \ May(job.at)) \cup May("disk") BY <1>2, <2>2 DEF May
  <2> QED BY <1>2, <2>1, <2>2, <2>3, BootKeeps DEF IInv, DiskInv
<1> QED BY <1>1, <1>2 DEF PrepareBoot

LEMMA PrepareDiskKeeps == ASSUME IInv, PrepareDisk PROVE IInv'
<1> DEFINE d == DiskFor(job.opt, job.file)
<1>0. job.at = "disk" /\ UNCHANGED disk BY DEF PrepareDisk
<1>1. CASE EndBoot(TRUE) BY <1>0, <1>1, EndBootKeeps DEF EndBoot, May
<1>2. CASE job' = [job EXCEPT !.disk = d, !.at = IF job.opt.seed THEN "seed" ELSE "vm"] /\ Stay
  <2>1. d \in {"none", "empty", "source", "copy"} /\ (d = "source" => job.opt.rw) BY DEF DiskFor
  <2> DEFINE step == IF job.opt.seed THEN "seed" ELSE "vm"
  <2>2. step \in {"disk", "seed", "vm"} /\ job' = [job EXCEPT !.at = step, !.disk = d] BY <1>2
  <2>3. litter' \subseteq (litter \ May(job.at)) \cup May(step)  BY <1>0, <1>2 DEF Stay, IInv, May
  <2>4. UNCHANGED app /\ Same BY <1>2 DEF Stay
  <2> HIDE DEF d, step
  <2> QED BY <1>0, <2>1, <2>2, <2>3, <2>4, BootKeeps
<1> QED BY <1>1, <1>2 DEF PrepareDisk

LEMMA MakeSeedKeeps == ASSUME IInv, MakeSeed PROVE IInv'
<1>0. job.at = "seed" /\ UNCHANGED disk BY DEF MakeSeed
<1>1. CASE Finish(TRUE, FALSE) /\ job' = NoJob /\ litter' = litter \ {SeedDir, BootDir} /\ Same
  BY <1>0, <1>1, EndBootKeeps DEF May
<1>2. ASSUME NEW step \in {"seed", "vm"}, To(step), UNCHANGED app, Same,
             litter' \subseteq (litter \ May("seed")) \cup May(step)
      PROVE  IInv'
  <2>1. job.disk \in {"none", "empty", "source", "copy"} /\ job' = [job EXCEPT !.at = step, !.disk = job.disk]
    BY <1>2 DEF IInv, ImagesTypeOK, Jobs, To
  <2> QED BY <1>0, <1>2, <2>1, BootKeeps DEF IInv, DiskInv
<1>3. CASE litter' = litter \cup {SeedDir} /\ To("seed") /\ UNCHANGED app /\ Same
  BY <1>2, <1>3 DEF May
<1>4. CASE litter' = litter \ {SeedDir} /\ To("vm") /\ UNCHANGED app /\ Same
  BY <1>2, <1>4 DEF May
<1> QED BY <1>1, <1>3, <1>4 DEF MakeSeed

LEMMA GuestWritesKeeps == ASSUME IInv, GuestWrites PROVE IInv'
<1>1. UNCHANGED vars BY DEF GuestWrites, IInv, DiskInv, vars
<1> QED BY <1>1 DEF vars, shellVars, IInv, ImagesTypeOK, ShellTypeOK, Processes, JobInv, LitterInv, DiskInv, OutInv,
                    OneBuildInOut, Live, FwInv, Lisa, Test, ChildInv, In, CallIsFresh, FreshSel, Calls, Jobs

LEMMA RunVMKeeps == ASSUME IInv, RunVM PROVE IInv'
<1>1. PICK ok \in Outcomes : EndBoot(~ok) BY DEF RunVM
<1>2. (~ok) \in BOOLEAN BY OutcomesAreBoolean, Zenon
<1> QED BY <1>1, <1>2, EndBootKeeps DEF RunVM, EndBoot, May

-----------------------------------------------------------------------------
(* image test                                                              *)

LEMMA StartTestKeeps == ASSUME IInv, NEW o \in TestOptions, StartTest(o) PROVE IInv'
<1> DEFINE f == IF o.file = None THEN Artifact ELSE o.file
<1>0. app.at = "body" /\ app.command \notin {"mcp", "mock"} /\ job.at = "start" /\ UNCHANGED disk
  BY DEF StartTest, In
<1>1. CASE Done(TRUE, FALSE) BY <1>0, <1>1, DoneKeeps DEF May
<1>2. CASE job' = [NoJob EXCEPT !.at = "next", !.opt = o, !.file = f, !.tests = TestList] /\ Stay
  <2>1. ShellTypeOK' /\ ChildInv' /\ CallIsFresh' /\ UNCHANGED <<app, litter, env>> BY <1>0, <1>2, GoesOn
  <2>2. f \in Files \cup {None} BY ImagesAssumption, ArtifactIsAFile
  <2>3. job' \in Jobs
    <3> HIDE DEF f
    <3> QED BY <1>2, <2>2, NoJobIsAJob, ImagesAssumption DEF Jobs, JobSteps
  <2>4. job'.at = "next" /\ job'.disk = "none" /\ job'.build = 0 BY <1>2 DEF NoJob
  <2>5. ImagesTypeOK' BY <1>0, <2>1, <2>3 DEF IInv, ImagesTypeOK, disk
  <2>6. JobInv' /\ LitterInv' /\ DiskInv' /\ FwInv'
    BY <1>0, <2>1, <2>4 DEF IInv, JobInv, TestSteps, LitterInv, May, DiskInv, FwInv, disk
  <2>7. OutInv' BY <1>0, <2>4 DEF IInv, ImagesTypeOK, OutInv, OneBuildInOut, Live, disk
  <2> QED BY <2>1, <2>5, <2>6, <2>7 DEF IInv
<1> QED BY <1>1, <1>2 DEF StartTest

Venvs == [TestNames -> [state : {"none", "half", "ready"}, lisa : Refs \cup {Own, None}]]
Clones == [Refs -> {"none", "partial", "elsewhere", "pinned"}]

\* A step of a test that goes on; what it says of the framework is left to
\* each of them.
LEMMA TestGoesOn ==
  ASSUME IInv, job.at \in TestSteps \cup {"next"}, job.tests # <<>>, UNCHANGED app, Same,
         UNCHANGED <<out, work, guest, ref, touches>>, venv' \in Venvs, clone' \in Clones,
         NEW step \in TestSteps, NEW fw \in Refs \cup {Own, None}, NEW reused \in BOOLEAN,
         job' = [job EXCEPT !.at = step, !.fw = fw, !.reused = reused],
         litter' \subseteq (litter \ May(job.at)) \cup May(step),
         (/\ job'.at = step /\ job'.fw = fw /\ (Lisa' <=> Lisa) /\ Test' = Test /\ job'.opt = job.opt
          /\ env' = env) => FwInv'
  PROVE  IInv'
<1>0. app.at = "body" /\ app.command \notin {"mcp", "mock"} BY DEF IInv, JobInv, TestSteps
<1>1. ShellTypeOK' /\ ChildInv' /\ CallIsFresh' BY <1>0, FrameKeeps DEF JobFrame
<1>2. /\ job' \in Jobs /\ job'.at = step /\ job'.disk = job.disk /\ job'.fw = fw
      /\ job'.opt = job.opt /\ job'.build = job.build /\ job'.tests = job.tests
  BY DEF IInv, ImagesTypeOK, Jobs, JobSteps, TestSteps
<1>3. ImagesTypeOK' BY <1>1, <1>2 DEF IInv, ImagesTypeOK, Venvs, Clones
<1>4. JobInv' /\ DiskInv' BY <1>0, <1>2 DEF IInv, JobInv, TestSteps, DiskInv
<1>5. LitterInv' BY <1>0, <1>2 DEF IInv, LitterInv
<1>6. OutInv' BY <1>2 DEF IInv, OutInv, OneBuildInOut, Live, TestSteps
<1>7. FwInv' BY <1>2 DEF Lisa, Test, Same
<1> QED BY <1>1, <1>3, <1>4, <1>5, <1>6, <1>7 DEF IInv

\* Most steps leave the choice of the framework as it is.
LEMMA ToKeeps ==
  ASSUME IInv, job.at \in TestSteps \cup {"next"}, job.tests # <<>>, UNCHANGED app, Same,
         UNCHANGED <<out, work, guest, ref, touches>>, venv' \in Venvs, clone' \in Clones,
         NEW step \in TestSteps, To(step),
         litter' \subseteq (litter \ May(job.at)) \cup May(step),
         (/\ job'.at = step /\ job'.fw = job.fw /\ (Lisa' <=> Lisa) /\ Test' = Test /\ job'.opt = job.opt
          /\ env' = env) => FwInv'
  PROVE  IInv'
<1>1. /\ job.fw \in Refs \cup {Own, None} /\ job.reused \in BOOLEAN
      /\ job' = [job EXCEPT !.at = step, !.fw = job.fw, !.reused = job.reused]
  BY DEF To, IInv, ImagesTypeOK, Jobs
<1> QED BY <1>1, TestGoesOn

LEMMA NextTestKeeps == ASSUME IInv, NextTest PROVE IInv'
<1>0. job.at = "next" /\ UNCHANGED disk BY DEF NextTest
<1>a. app.at = "body" /\ app.command \notin {"mcp", "mock"} /\ job.failed \in BOOLEAN
      /\ venv \in Venvs /\ clone \in Clones
  BY <1>0 DEF IInv, JobInv, ImagesTypeOK, Jobs, Venvs, Clones
<1>1. CASE Done(job.failed, FALSE) BY <1>0, <1>a, <1>1, DoneKeeps DEF May
<1>2. CASE EndTest(TRUE) /\ job.tests # <<>>
  BY <1>0, <1>a, <1>2, EndTestKeeps DEF disk, Venvs, Clones
<1>3. CASE To("venv") /\ Stay /\ Kind[Test] = "pytest" /\ job.tests # <<>>
  <2>1. (Lisa' <=> Lisa) /\ job'.at = "venv" => FwInv' BY <1>3 DEF FwInv, Lisa
  <2>2. litter' \subseteq (litter \ May(job.at)) \cup May("venv") BY <1>0, <1>3 DEF Stay, May
  <2> QED BY <1>0, <1>a, <1>3, <2>1, <2>2, ToKeeps DEF Stay, disk, TestSteps
<1>4. CASE To("keys") /\ Stay /\ job.tests # <<>>
  <2>1. job'.at = "keys" => FwInv' BY DEF FwInv
  <2>2. litter' \subseteq (litter \ May(job.at)) \cup May("keys") BY <1>0, <1>4 DEF Stay, May
  <2> QED BY <1>0, <1>a, <1>4, <2>1, <2>2, ToKeeps DEF Stay, disk, TestSteps
<1> QED BY <1>1, <1>2, <1>3, <1>4 DEF NextTest

LEMMA MakeKeysKeeps == ASSUME IInv, MakeKeys PROVE IInv'
<1>0. /\ job.at = "keys" /\ UNCHANGED disk /\ job.tests # <<>>
      /\ app.at = "body" /\ app.command \notin {"mcp", "mock"} /\ venv \in Venvs /\ clone \in Clones
  BY DEF MakeKeys, IInv, JobInv, TestSteps, ImagesTypeOK, Venvs, Clones
<1>1. CASE EndTest(TRUE) BY <1>0, <1>1, EndTestKeeps DEF disk, TestSteps, Venvs, Clones
<1>2. CASE To("framework") /\ litter' = litter \cup {KeyDir} /\ UNCHANGED app /\ Same
  <2>1. job'.at = "framework" => FwInv' BY DEF FwInv
  <2>2. litter' \subseteq (litter \ May(job.at)) \cup May("framework") BY <1>0, <1>2 DEF May
  <2> QED BY <1>0, <1>2, <2>1, <2>2, ToKeeps DEF disk, TestSteps
<1>3. CASE /\ job' = [job EXCEPT !.at = "next", !.tests = Tail(@), !.failed = TRUE]
           /\ litter' = litter \cup {NoKeyDir} /\ UNCHANGED app /\ Same
  <2>1. ShellTypeOK' /\ ChildInv' /\ CallIsFresh' BY <1>0, <1>3, FrameKeeps DEF JobFrame
  <2>2. Tail(job.tests) \in Seq(TestNames) BY <1>0, FirstTest DEF IInv, ImagesTypeOK, Jobs
  <2>3. /\ job' \in Jobs /\ job'.at = "next" /\ job'.disk = job.disk
        /\ job'.opt = job.opt /\ job'.build = job.build
    BY <1>3, <2>2 DEF IInv, ImagesTypeOK, Jobs, JobSteps
  <2>4. ImagesTypeOK' BY <1>0, <2>1, <2>3 DEF IInv, ImagesTypeOK, disk
  <2>5. JobInv' /\ DiskInv' /\ FwInv' BY <1>0, <1>3, <2>3 DEF IInv, JobInv, TestSteps, DiskInv, FwInv, disk
  <2>6. LitterInv' BY <1>0, <1>3, <2>3 DEF IInv, LitterInv, May
  <2>7. OutInv' BY <1>0, <2>3 DEF IInv, OutInv, OneBuildInOut, Live, disk
  <2> QED BY <2>1, <2>4, <2>5, <2>6, <2>7 DEF IInv
<1> QED BY <1>1, <1>2, <1>3 DEF MakeKeys

LEMMA FrameworkKeeps == ASSUME IInv, Framework PROVE IInv'
<1>0. /\ job.at = "framework" /\ UNCHANGED disk /\ job.tests # <<>>
      /\ venv \in Venvs /\ clone \in Clones /\ ref \in Refs /\ job.reused \in BOOLEAN
  BY DEF Framework, IInv, JobInv, TestSteps, ImagesTypeOK, Venvs, Clones, Jobs
<1>1. CASE EndTest(TRUE) BY <1>0, <1>1, EndTestKeeps DEF disk, TestSteps, Venvs, Clones
<1>2. CASE job.opt.own /\ job' = [job EXCEPT !.at = "venv", !.fw = Own] /\ Stay
  <2>1. job'.at = "venv" /\ job'.opt = job.opt => FwInv' BY <1>2 DEF FwInv
  <2>2. job' = [job EXCEPT !.at = "venv", !.fw = Own, !.reused = job.reused]
    BY <1>2 DEF IInv, ImagesTypeOK, Jobs
  <2>3. litter' \subseteq (litter \ May(job.at)) \cup May("venv") BY <1>0, <1>2 DEF Stay, May
  <2> QED BY <1>0, <1>2, <2>1, <2>2, <2>3, TestGoesOn DEF Stay, disk, TestSteps
<1>3. CASE /\ ~job.opt.own
           /\ job' = [job EXCEPT !.fw = ref, !.reused = clone[ref] # "none",
                                 !.at = IF clone[ref] = "none" THEN "clone" ELSE "checkout"]
           /\ Stay
  <2> DEFINE step == IF clone[ref] = "none" THEN "clone" ELSE "checkout"
             reused == clone[ref] # "none"
  <2>1. job'.at = step /\ job'.fw = ref /\ job'.opt = job.opt => FwInv' BY <1>0, <1>3 DEF FwInv, disk
  <2>2. job' = [job EXCEPT !.at = step, !.fw = ref, !.reused = reused] BY <1>3
  <2>3. step \in TestSteps /\ reused \in BOOLEAN BY DEF TestSteps
  <2>4. litter' \subseteq (litter \ May(job.at)) \cup May(step) BY <1>0, <1>3 DEF Stay, May
  <2>5. UNCHANGED app /\ Same BY <1>3 DEF Stay
  <2> HIDE DEF step, reused
  <2> QED BY <1>0, <2>1, <2>2, <2>3, <2>4, <2>5, TestGoesOn DEF disk, TestSteps
<1> QED BY <1>1, <1>2, <1>3 DEF Framework

\* What a test finds in its steps.
LEMMA InTest ==
  ASSUME IInv, job.at \in TestSteps
  PROVE  /\ job.tests # <<>> /\ Test \in TestNames
         /\ venv \in Venvs /\ clone \in Clones /\ ref \in Refs
         /\ job.reused \in BOOLEAN /\ job.fw \in Refs \cup {Own, None}
<1>1. job.tests # <<>> /\ job.tests \in Seq(TestNames) BY DEF IInv, JobInv, ImagesTypeOK, Jobs
<1>2. Test \in TestNames BY <1>1, FirstTest
<1> QED BY <1>1, <1>2 DEF IInv, ImagesTypeOK, Jobs, Venvs, Clones

LEMMA CloneKeeps == ASSUME IInv, Clone PROVE IInv'
<1>0. job.at = "clone" /\ UNCHANGED <<out, work, guest, venv, ref, touches>> BY DEF Clone
<1>a. /\ job.tests # <<>> /\ venv \in Venvs /\ clone \in Clones /\ ref \in Refs
      /\ job.fw = ref /\ ~job.opt.own
  BY <1>0, InTest DEF TestSteps, IInv, FwInv
<1>1. CASE /\ SetClone(IF env.dry THEN "none" ELSE "elsewhere")
           /\ To("checkout") /\ Stay
  <2>1. clone' \in Clones BY <1>a, <1>1 DEF Clones, SetClone
  <2>2. job'.at = "checkout" /\ job'.fw = job.fw /\ job'.opt = job.opt => FwInv' BY <1>0, <1>a DEF FwInv
  <2>3. litter' \subseteq (litter \ May(job.at)) \cup May("checkout") BY <1>0, <1>1 DEF Stay, May
  <2> QED BY <1>0, <1>a, <1>1, <2>1, <2>2, <2>3, ToKeeps DEF Stay, TestSteps
<1>2. CASE (\E left \in {"none", "partial"} : SetClone(left)) /\ EndTest(TRUE)
  <2>1. clone' \in Clones BY <1>a, <1>2 DEF Clones, SetClone
  <2> QED BY <1>0, <1>a, <1>2, <2>1, EndTestKeeps DEF TestSteps, Clones, Venvs
<1> QED BY <1>1, <1>2 DEF Clone

LEMMA CheckoutKeeps == ASSUME IInv, Checkout PROVE IInv'
<1>0. job.at = "checkout" /\ UNCHANGED <<out, work, guest, venv, ref, touches>> BY DEF Checkout
<1>a. /\ job.tests # <<>> /\ venv \in Venvs /\ clone \in Clones /\ ref \in Refs
      /\ job.fw = ref /\ ~job.opt.own
  BY <1>0, InTest DEF TestSteps, IInv, FwInv
<1>1. CASE /\ SetClone(IF env.dry THEN clone[job.fw] ELSE "pinned")
           /\ To("venv") /\ Stay
  <2>1. clone' \in Clones /\ (~env.dry => clone'[ref] = "pinned") BY <1>a, <1>1 DEF Clones, SetClone
  <2>2. job'.at = "venv" /\ job'.fw = job.fw /\ job'.opt = job.opt /\ env' = env => FwInv'
    BY <1>0, <1>a, <2>1 DEF FwInv
  <2>3. litter' \subseteq (litter \ May(job.at)) \cup May("venv") BY <1>0, <1>1 DEF Stay, May
  <2> QED BY <1>0, <1>a, <1>1, <2>1, <2>2, <2>3, ToKeeps DEF Stay, TestSteps
<1>2. CASE SetClone("none") /\ job' = [job EXCEPT !.at = "clone", !.reused = FALSE] /\ Stay
  <2>1. clone' \in Clones BY <1>a, <1>2 DEF Clones, SetClone
  <2>2. job'.at = "clone" /\ job'.fw = ref /\ job'.opt = job.opt => FwInv' BY <1>0, <1>a DEF FwInv
  <2>3. job' = [job EXCEPT !.at = "clone", !.fw = ref, !.reused = FALSE]
    BY <1>a, <1>2 DEF IInv, ImagesTypeOK, Jobs
  <2>4. litter' \subseteq (litter \ May(job.at)) \cup May("clone") BY <1>0, <1>2 DEF Stay, May
  <2> QED BY <1>0, <1>a, <1>2, <2>1, <2>2, <2>3, <2>4, TestGoesOn DEF Stay, TestSteps
<1>3. CASE EndTest(TRUE) /\ UNCHANGED clone
  BY <1>0, <1>a, <1>3, EndTestKeeps DEF TestSteps, Clones, Venvs
<1> QED BY <1>1, <1>2, <1>3 DEF Checkout

LEMMA MakeVenvKeeps == ASSUME IInv, MakeVenv PROVE IInv'
<1>0. job.at = "venv" /\ UNCHANGED <<out, work, guest, clone, ref, touches>> BY DEF MakeVenv
<1>a. job.tests # <<>> /\ venv \in Venvs /\ clone \in Clones /\ Test \in TestNames
  BY <1>0, InTest DEF TestSteps
<1>b. \A state \in {"none", "half", "ready"} : [venv EXCEPT ![Test].state = state] \in Venvs
  BY <1>a DEF Venvs
<1>1. CASE To("install") /\ Stay /\ venv' \in Venvs
  <2>1. (/\ job'.at = "install" /\ job'.fw = job.fw /\ job'.opt = job.opt /\ env' = env
         /\ (Lisa' <=> Lisa) /\ Test' = Test) => FwInv'
    BY <1>0 DEF IInv, FwInv
  <2>2. litter' \subseteq (litter \ May(job.at)) \cup May("install") BY <1>0, <1>1 DEF Stay, May
  <2> QED BY <1>0, <1>a, <1>1, <2>1, <2>2, ToKeeps DEF Stay, TestSteps
<1>2. CASE EndTest(TRUE) /\ venv' \in Venvs
  BY <1>0, <1>a, <1>2, EndTestKeeps DEF TestSteps, Clones, Venvs
<1> QED BY <1>a, <1>b, <1>1, <1>2 DEF MakeVenv

LEMMA InstallKeeps == ASSUME IInv, Install PROVE IInv'
<1>0. job.at = "install" /\ UNCHANGED <<out, work, guest, clone, ref, touches>> BY DEF Install
<1>a. /\ job.tests # <<>> /\ venv \in Venvs /\ clone \in Clones /\ Test \in TestNames
      /\ job.fw \in Refs \cup {Own, None}
  BY <1>0, InTest DEF TestSteps
<1>1. CASE /\ venv' = IF Lisa /\ ~env.dry THEN [venv EXCEPT ![Test].lisa = job.fw] ELSE venv
           /\ To(IF Lisa THEN "runbook" ELSE "run") /\ Stay
  <2> DEFINE step == IF Lisa THEN "runbook" ELSE "run"
  <2>1. venv' \in Venvs /\ (Lisa /\ ~env.dry => venv'[Test].lisa = job.fw) BY <1>a, <1>1 DEF Venvs
  <2>2. (/\ job'.at = step /\ job'.fw = job.fw /\ job'.opt = job.opt /\ env' = env
         /\ (Lisa' <=> Lisa) /\ Test' = Test) => FwInv'
    BY <1>0, <2>1 DEF IInv, FwInv
  <2>3. step \in TestSteps BY DEF TestSteps
  <2>4. litter' \subseteq (litter \ May(job.at)) \cup May(step) BY <1>0, <1>1 DEF Stay, May
  <2>5. To(step) /\ Stay BY <1>1
  <2> HIDE DEF step
  <2> QED BY <1>0, <1>a, <2>1, <2>2, <2>3, <2>4, <2>5, ToKeeps DEF Stay, TestSteps
<1>2. CASE EndTest(TRUE) /\ UNCHANGED venv
  BY <1>0, <1>a, <1>2, EndTestKeeps DEF TestSteps, Clones, Venvs
<1> QED BY <1>1, <1>2 DEF Install

LEMMA WriteRunbookKeeps == ASSUME IInv, WriteRunbook PROVE IInv'
<1>0. job.at = "runbook" /\ UNCHANGED disk BY DEF WriteRunbook
<1>a. job.tests # <<>> /\ venv \in Venvs /\ clone \in Clones BY <1>0, InTest DEF TestSteps
<1>1. CASE litter' = litter \cup {Runbook} /\ To("run") /\ UNCHANGED app /\ Same
  <2>1. (/\ job'.at = "run" /\ job'.fw = job.fw /\ job'.opt = job.opt /\ env' = env
         /\ (Lisa' <=> Lisa) /\ Test' = Test) => FwInv'
    BY <1>0 DEF IInv, FwInv, disk
  <2>2. litter' \subseteq (litter \ May(job.at)) \cup May("run") BY <1>0, <1>1 DEF May
  <2> QED BY <1>0, <1>a, <1>1, <2>1, <2>2, ToKeeps DEF disk, TestSteps
<1>2. CASE EndTest(TRUE)
  BY <1>0, <1>a, <1>2, EndTestKeeps DEF disk, TestSteps, Clones, Venvs
<1>3. CASE /\ job' = [job EXCEPT !.at = "next", !.tests = Tail(@), !.failed = TRUE,
                                 !.fw = None, !.reused = FALSE]
           /\ litter' = (litter \ {KeyDir}) \cup {HalfRunbook} /\ UNCHANGED app /\ Same
  <2>0. app.at = "body" /\ app.command \notin {"mcp", "mock"} BY <1>0 DEF IInv, JobInv
  <2>1. ShellTypeOK' /\ ChildInv' /\ CallIsFresh' BY <1>0, <1>3, <2>0, FrameKeeps DEF JobFrame
  <2>2. Tail(job.tests) \in Seq(TestNames) BY <1>a, FirstTest DEF IInv, ImagesTypeOK, Jobs
  <2>3. /\ job' \in Jobs /\ job'.at = "next" /\ job'.disk = job.disk
        /\ job'.opt = job.opt /\ job'.build = job.build
    BY <1>3, <2>2 DEF IInv, ImagesTypeOK, Jobs, JobSteps
  <2>4. ImagesTypeOK' BY <1>0, <2>1, <2>3 DEF IInv, ImagesTypeOK, disk
  <2>5. JobInv' /\ DiskInv' /\ FwInv'
    BY <1>0, <1>3, <2>0, <2>3 DEF IInv, JobInv, TestSteps, DiskInv, FwInv, disk
  <2>6. LitterInv' BY <1>0, <1>3, <2>0, <2>3 DEF IInv, LitterInv, May
  <2>7. OutInv' BY <1>0, <2>3 DEF IInv, OutInv, OneBuildInOut, Live, disk
  <2> QED BY <2>1, <2>4, <2>5, <2>6, <2>7 DEF IInv
<1> QED BY <1>1, <1>2, <1>3 DEF WriteRunbook, Writable

LEMMA RunTestKeeps == ASSUME IInv, RunTest PROVE IInv'
<1>1. PICK ok \in Outcomes : EndTest(~ok) BY DEF RunTest
<1>2. (~ok) \in BOOLEAN BY OutcomesAreBoolean, Zenon
<1>3. job.at = "run" /\ UNCHANGED disk BY DEF RunTest
<1>4. job.tests # <<>> /\ venv \in Venvs /\ clone \in Clones BY <1>3, InTest DEF TestSteps
<1> QED BY <1>1, <1>2, <1>3, <1>4, EndTestKeeps DEF disk, TestSteps, Clones, Venvs

-----------------------------------------------------------------------------
(* What happens around a job.                                              *)

LEMMA UserTouchesKeeps == ASSUME IInv, UserTouches PROVE IInv'
<1>0. UNCHANGED <<shellVars, job, out, guest, venv>> /\ app.at = "off" /\ job.at = "start"
  BY DEF UserTouches, IInv, JobInv
<1>1. /\ work' \in [made : Nat, there : SUBSET (1..work'.made)]
      /\ work'.made = work.made /\ work'.there \subseteq work.there
  BY DEF UserTouches, IInv, ImagesTypeOK
<1>2. clone' \in Clones BY DEF UserTouches, IInv, ImagesTypeOK, Clones
<1>3. ref' \in Refs /\ touches' \in Nat BY DEF UserTouches, IInv, ImagesTypeOK
<1>4. ImagesTypeOK'
  BY SMTT(30), <1>0, <1>1, <1>2, <1>3 DEF IInv, ImagesTypeOK, ShellTypeOK, Processes, shellVars, Clones, Jobs, Calls
<1>5. JobInv' /\ LitterInv' /\ DiskInv' /\ FwInv' /\ ChildInv' /\ CallIsFresh'
  BY <1>0 DEF IInv, JobInv, TestSteps, LitterInv, DiskInv, FwInv, ChildInv, In, CallIsFresh, FreshSel, shellVars
<1>6. OutInv' BY <1>0, <1>1 DEF IInv, OutInv, OneBuildInOut, Live
<1> QED BY <1>4, <1>5, <1>6 DEF IInv

LEMMA KillJobKeeps == ASSUME IInv, KillJob PROVE IInv'
<1>0. /\ app' = Off(app.n) /\ litter' = {} /\ Gone /\ job' = NoJob
      /\ UNCHANGED <<out, work, guest, ref, touches>>
  BY DEF KillJob, Kill
<1>1. ShellTypeOK' BY <1>0, ShellAssumption DEF IInv, ImagesTypeOK, ShellTypeOK, Processes, Gone, Off, NoEnv, NoChild, NewTools
<1>2. clone' \in Clones
  <2>1. clone \in Clones BY DEF IInv, ImagesTypeOK, Clones
  <2>2. job.at = "clone" => job.fw \in Refs BY DEF IInv, FwInv, ImagesTypeOK
  <2> QED BY <2>1, <2>2 DEF KillJob, Clones
<1>3. venv' \in Venvs
  <2>1. venv \in Venvs BY DEF IInv, ImagesTypeOK, Venvs
  <2>2. job.at = "venv" => Test \in TestNames BY InTest DEF TestSteps
  <2> QED BY <2>1, <2>2 DEF KillJob, Venvs
<1>4. ImagesTypeOK' BY <1>0, <1>1, <1>2, <1>3, NoJobIsAJob DEF IInv, ImagesTypeOK, Clones, Venvs
<1>5. JobInv' /\ LitterInv' /\ DiskInv' /\ FwInv'
  BY <1>0 DEF IInv, JobInv, TestSteps, LitterInv, DiskInv, FwInv, NoJob
<1>6. OutInv' BY <1>0 DEF IInv, ImagesTypeOK, OutInv, OneBuildInOut, Live, NoJob
<1>7. ChildInv' /\ CallIsFresh' BY <1>0 DEF Gone, NoChild, ChildInv, CallIsFresh
<1> QED BY <1>4, <1>5, <1>6, <1>7 DEF IInv

\* A step of the shell leaves the job and the disk alone.
LEMMA QuietKeeps ==
  ASSUME IInv, UNCHANGED <<job, disk>>, env' = env \/ job.at = "start",
         ShellTypeOK', JobInv', LitterInv', ChildInv', CallIsFresh'
  PROVE  IInv'
<1> USE DEF disk
<1>1. ImagesTypeOK' BY DEF IInv, ImagesTypeOK, Jobs
<1>2. DiskInv' /\ OutInv' BY DEF IInv, DiskInv, OutInv, OneBuildInOut, Live
<1>3. FwInv' BY DEF IInv, FwInv, Lisa, Test
<1> QED BY <1>1, <1>2, <1>3 DEF IInv

LEMMA ExitKeeps ==
  ASSUME IInv, NEW code \in {0, 1}, Exit(code), job.at = "start", UNCHANGED <<job, disk>>
  PROVE  IInv'
<1> USE DEF Exit, EarlyGone, Gone, Off
<1>1. ShellTypeOK' BY ShellAssumption DEF IInv, ImagesTypeOK, ShellTypeOK, Processes, NoEnv, NoChild, NewTools
<1>2. JobInv' /\ LitterInv' BY DEF IInv, JobInv, TestSteps, LitterInv, May
<1>3. ChildInv' /\ CallIsFresh' BY DEF NoChild, ChildInv, CallIsFresh
<1> QED BY <1>1, <1>2, <1>3, QuietKeeps

\* Before and after its body a process has no job.
LEMMA AppKeeps ==
  ASSUME IInv, UNCHANGED <<job, disk>>, UNCHANGED <<tools, answer, child>>, ShellTypeOK',
         env' = env \/ job.at = "start",
         job.at # "start" \/ child.at \in {"running", "exited"} =>
           app'.at = "body" /\ app'.command = app.command,
         litter' \subseteq litter \cup (IF app'.at = "off" THEN {} ELSE {"early"}),
         app'.at # "off"
  PROVE  IInv'
<1>1. JobInv' BY DEF IInv, JobInv, TestSteps
<1>2. LitterInv' BY DEF IInv, LitterInv
<1>3. ChildInv' BY DEF IInv, ChildInv, In
<1>4. CallIsFresh' BY DEF IInv, CallIsFresh, FreshSel
<1> QED BY <1>1, <1>2, <1>3, <1>4, QuietKeeps

LEMMA StartKeeps ==
  ASSUME IInv, UNCHANGED <<job, disk>>, LoadConfig \/ OpenLog \/ PreRun \/ Report PROVE IInv'
<1>0. job.at = "start" /\ child.at \notin {"running", "exited"} /\ app.at # "off"
  BY DEF LoadConfig, OpenLog, PreRun, Report, IInv, JobInv, ChildInv, In
<1>1. CASE LoadConfig
  <2>a. PreParsed(app.dry) \in BOOLEAN BY DEF PreParsed
  <2>b. env' \in [config : {"good", "absent"}, dry : BOOLEAN] BY <1>1, <2>a DEF LoadConfig
  <2>1. ShellTypeOK' BY <1>1, <2>b DEF LoadConfig, Goto, IInv, ImagesTypeOK, ShellTypeOK, Processes
  <2>2. app'.at # "off" /\ litter' = litter BY <1>1 DEF LoadConfig, Goto, IInv, ImagesTypeOK, ShellTypeOK, Processes
  <2>3. UNCHANGED <<tools, answer, child>> BY <1>1 DEF LoadConfig
  <2> QED BY <1>0, <2>1, <2>2, <2>3, AppKeeps
<1>2. ASSUME NEW step \in {"ready", "body"}, Goto(step), UNCHANGED <<env, litter, tools, answer, child>>
      PROVE  IInv'
  <2>1. ShellTypeOK' BY <1>2 DEF Goto, IInv, ImagesTypeOK, ShellTypeOK, Processes
  <2>2. app'.at # "off" BY <1>2 DEF Goto, IInv, ImagesTypeOK, ShellTypeOK, Processes
  <2> QED BY <1>0, <1>2, <2>1, <2>2, AppKeeps
<1>3. CASE OpenLog BY <1>0, <1>2, <1>3, ExitKeeps DEF OpenLog
<1>4. CASE PreRun BY <1>0, <1>2, <1>4, ExitKeeps DEF PreRun
<1>5. CASE Report BY <1>0, <1>5, ExitKeeps DEF Report
<1> QED BY <1>1, <1>3, <1>4, <1>5

LEMMA LaunchKeeps ==
  ASSUME IInv, UNCHANGED <<job, disk>>, NEW c \in Commands, NEW dry \in Spellings, NEW root \in BOOLEAN,
         Launch(c, dry, root)
  PROVE  IInv'
<1>0. job.at = "start" /\ child.at \notin {"running", "exited"} BY DEF Launch, IInv, JobInv, ChildInv, In
<1>1. ShellTypeOK'
  <2>1. app.n + 1 \in Nat BY DEF IInv, ImagesTypeOK, ShellTypeOK, Processes
  <2>2. Off(app.n + 1) \in Processes BY <2>1 DEF Off, Processes
  <2>3. dry \in {"absent", "plain", "joined"} BY ShellAssumption
  <2>4. app' = [Off(app.n + 1) EXCEPT !.at = "early", !.command = c, !.dry = dry, !.root = root] BY DEF Launch
  <2>5. app' \in Processes BY <2>2, <2>3, <2>4 DEF Processes
  <2> QED BY <2>5 DEF Launch, IInv, ImagesTypeOK, ShellTypeOK, Processes
<1>2. app'.at = "early" BY DEF Launch, Off
<1> QED BY <1>0, <1>1, <1>2, AppKeeps DEF Launch

LEMMA FinishKeeps ==
  ASSUME IInv, UNCHANGED <<job, disk>>, job.at = "start", child.at \notin {"running", "exited"}, app.at # "off",
         NEW err \in BOOLEAN, Finish(err, FALSE), UNCHANGED <<env, litter, tools, answer, child>>
  PROVE  IInv'
<1>1. ShellTypeOK' /\ app'.at = "report" BY ZenonT(40) DEF Finish, IInv, ImagesTypeOK, ShellTypeOK, Processes
<1> QED BY <1>1, AppKeeps

LEMMA ServerKeeps ==
  ASSUME IInv, UNCHANGED <<job, disk>>, ClientLeaves \/ StopServing PROVE IInv'
<1>0. job.at = "start" /\ child.at \notin {"running", "exited"} /\ app.at # "off"
  BY DEF ClientLeaves, StopServing, In, IInv, JobInv, ChildInv
<1> QED BY <1>0, FinishKeeps DEF ClientLeaves, StopServing

LEMMA CancelKeeps == ASSUME IInv, UNCHANGED <<job, disk>>, Cancel PROVE IInv'
<1>1. ShellTypeOK' BY DEF Cancel, IInv, ImagesTypeOK, ShellTypeOK, Processes
<1>2. app'.at = app.at /\ app'.command = app.command /\ app.at # "off"
  BY DEF Cancel, IInv, ImagesTypeOK, ShellTypeOK, Processes
<1>3. job.at # "start" \/ child.at \in {"running", "exited"} => app.at = "body"
  BY DEF IInv, JobInv, ChildInv, In
<1> QED BY <1>1, <1>2, <1>3, AppKeeps DEF Cancel

\* A call of a tool selects what the command would by itself: the option
\* variable holds what an earlier call left, but it is reset.
LEMMA CallKeeps ==
  ASSUME IInv, UNCHANGED <<job, disk>>, NEW t \in Tools, NEW flags \in SUBSET Words, NEW words \in SUBSET Words,
         Call(t, flags, words)
  PROVE  IInv'
<1> DEFINE sel == ParseFlags(t, flags, RestoreFlags(t, flags)) \cup words
<1>0. job.at = "start" /\ UNCHANGED <<env, litter, child>> /\ In("mcp")
  BY DEF Call, In, IInv, JobInv
<1>1. /\ tools' = [tools EXCEPT ![t] = [sel |-> sel, set |-> @.set \/ flags # {}]]
      /\ answer' = [tool |-> t, flags |-> flags, words |-> words, sel |-> sel]
      /\ app' = [app EXCEPT !.calls = @ + 1]
  BY DEF Call
<1>2. sel \in SUBSET Words
  <2>1. Preset[t] \subseteq Words BY ShellAssumption
  <2>2. tools[t].sel \subseteq Words BY DEF IInv, ImagesTypeOK, ShellTypeOK, Processes
  <2> QED BY <2>1, <2>2 DEF ParseFlags, RestoreFlags
<1>3. ShellTypeOK'
  <2>1. app' \in Processes
    <3>1. app \in Processes BY DEF IInv, ImagesTypeOK, ShellTypeOK
    <3>2. app.calls + 1 \in Nat BY <3>1 DEF Processes
    <3> QED BY <1>1, <3>1, <3>2 DEF Processes
  <2>2. tools' \in [Tools -> [sel : SUBSET Words, set : BOOLEAN]]
    <3> HIDE DEF sel
    <3> QED BY <1>1, <1>2 DEF IInv, ImagesTypeOK, ShellTypeOK, Processes
  <2>3. answer' \in Calls
    <3> HIDE DEF sel
    <3> QED BY <1>1, <1>2 DEF Calls
  <2> QED BY <1>0, <2>1, <2>2, <2>3 DEF IInv, ImagesTypeOK, ShellTypeOK, Processes
<1>4. JobInv' /\ LitterInv' BY <1>0, <1>1 DEF IInv, ImagesTypeOK, ShellTypeOK, Processes, JobInv, TestSteps, LitterInv
<1>5. ChildInv' BY <1>0, <1>1 DEF IInv, ChildInv, In, ImagesTypeOK, ShellTypeOK, Processes
<1>6. CallIsFresh'
  <2>1. t \in FlagTools => sel = FreshSel(t, flags, words)
    BY DEF ParseFlags, RestoreFlags, FreshSel
  <2> HIDE DEF sel
  <2> QED BY <1>1, <2>1 DEF CallIsFresh
<1> QED BY <1>0, <1>3, <1>4, <1>5, <1>6, QuietKeeps

\* A step of the child or of its listener alone.
LEMMA ListenKeeps ==
  ASSUME IInv, UNCHANGED <<job, disk>>, UNCHANGED <<app, env, litter, tools, answer>>, ShellTypeOK', ChildInv'
  PROVE  IInv'
<1>1. JobInv' /\ LitterInv' /\ CallIsFresh' BY DEF IInv, JobInv, TestSteps, LitterInv, CallIsFresh, FreshSel
<1> QED BY <1>1, QuietKeeps

\* `mock` ends: nothing runs any longer, and nothing is unread.
LEMMA MockEnds ==
  ASSUME IInv, UNCHANGED <<job, disk>>, In("mock"), UNCHANGED <<env, litter, tools, answer>>,
         NEW err \in BOOLEAN, Finish(err, FALSE), ShellTypeOK', ChildInv'
  PROVE  IInv'
<1>1. job.at = "start" /\ app'.at = "report"
  BY DEF In, Finish, IInv, JobInv, ImagesTypeOK, ShellTypeOK, Processes
<1>2. JobInv' /\ LitterInv' /\ CallIsFresh'
  BY <1>1 DEF In, IInv, JobInv, TestSteps, LitterInv, CallIsFresh, FreshSel
<1> QED BY <1>2, QuietKeeps

LEMMA ChildKeeps ==
  ASSUME IInv, UNCHANGED <<job, disk>>,
         StartChild \/ ChildWrites \/ ChildExits \/ LetsGo \/ Hear \/ Return
  PROVE  IInv'
<1>a. ShellTypeOK /\ ChildInv BY DEF IInv, ImagesTypeOK
<1>1. CASE StartChild
  <2>1. CASE child' = [NoChild EXCEPT !.at = "running", !.listening = TRUE] /\ UNCHANGED app
    <3>1. ShellTypeOK' BY <1>a, <1>1, <2>1 DEF StartChild, NoChild, ShellTypeOK
    <3>2. ChildInv' BY <1>a, <1>1, <2>1 DEF StartChild, NoChild, ChildInv, In
    <3> QED BY <1>1, <2>1, <3>1, <3>2, ListenKeeps DEF StartChild
  <2>2. ASSUME NEW err \in {TRUE, ~env.dry}, child' = NoChild, Finish(err, FALSE) PROVE IInv'
    <3>0. err \in BOOLEAN /\ env.dry \in BOOLEAN BY <1>a DEF ShellTypeOK
    <3>1. ShellTypeOK' BY <1>a, <1>1, <2>2, <3>0 DEF StartChild, NoChild, ShellTypeOK, Processes, Finish
    <3>2. ChildInv' BY <2>2 DEF NoChild, ChildInv
    <3> QED BY <1>1, <2>2, <3>0, <3>1, <3>2, MockEnds DEF StartChild
  <2> QED BY <1>1, <2>1, <2>2 DEF StartChild
<1>2. CASE ChildWrites
  <2>1. ShellTypeOK' BY <1>a, <1>2 DEF ChildWrites, ShellTypeOK
  <2>2. ChildInv' BY <1>a, <1>2 DEF ChildWrites, ChildInv, In, ShellTypeOK
  <2> QED BY <1>2, <2>1, <2>2, ListenKeeps DEF ChildWrites
<1>3. CASE ChildExits
  <2>0. PICK ok \in Outcomes, held \in BOOLEAN : child' = [child EXCEPT !.at = "exited", !.ok = ok, !.held = held]
    BY <1>3 DEF ChildExits
  <2>1. ok \in BOOLEAN BY OutcomesAreBoolean, Zenon
  <2>2. ShellTypeOK' BY <1>a, <1>3, <2>0, <2>1 DEF ChildExits, ShellTypeOK
  <2>3. ChildInv' BY <1>a, <1>3, <2>0 DEF ChildExits, ChildInv, In, ShellTypeOK
  <2> QED BY <1>3, <2>2, <2>3, ListenKeeps DEF ChildExits
<1>4. CASE LetsGo
  <2>1. ShellTypeOK' BY <1>a, <1>4 DEF LetsGo, ShellTypeOK
  <2>2. ChildInv' BY <1>a, <1>4 DEF LetsGo, ChildInv, In, ShellTypeOK
  <2> QED BY <1>4, <2>1, <2>2, ListenKeeps DEF LetsGo
<1>5. CASE Hear
  <2>0. UNCHANGED <<app, env, litter, tools, answer>> BY <1>5 DEF Hear
  <2>a. /\ child' = [child EXCEPT !.heard = @ + 1] \/ child' = [child EXCEPT !.listening = FALSE]
        /\ child.heard + 1 \in Nat
    BY <1>a, <1>5 DEF Hear, ShellTypeOK
  <2>1. ShellTypeOK' BY <1>a, <2>0, <2>a DEF ShellTypeOK
  <2>2. ChildInv' BY <1>a, <1>5 DEF Hear, ChildInv, In, ShellTypeOK
  <2> QED BY <1>5, <2>1, <2>2, ListenKeeps DEF Hear
<1>6. CASE Return
  <2>0. (~child.ok) \in BOOLEAN /\ In("mock") BY <1>a, <1>6 DEF Return, Waited, ChildInv
  <2>1. ShellTypeOK' BY <1>a, <1>6, <2>0 DEF Return, ShellTypeOK, Processes, Finish
  <2>2. ChildInv' BY <1>a, <1>6 DEF Return, Waited, ChildInv, ShellTypeOK
  <2> QED BY <1>6, <2>0, <2>1, <2>2, MockEnds DEF Return
<1> QED BY <1>1, <1>2, <1>3, <1>4, <1>5, <1>6

-----------------------------------------------------------------------------
(* The invariant, and what follows from it.                                *)

LEMMA ImageStepKeeps == ASSUME IInv, ImageStep PROVE IInv'
<1>1. CASE StartBuild \/ RunKiwi \/ Unlinked \/ Linked
  BY <1>1, StartBuildKeeps, RunKiwiKeeps, UnlinkedKeeps, LinkedKeeps
<1>2. CASE \E f \in Files : Unlink(f) \/ Link(f) BY <1>2, UnlinkKeeps, LinkKeeps
<1>3. CASE \E o \in BootOptions : StartBoot(o) BY <1>3, StartBootKeeps
<1>4. CASE PrepareBoot \/ PrepareDisk \/ MakeSeed \/ RunVM
  BY <1>4, PrepareBootKeeps, PrepareDiskKeeps, MakeSeedKeeps, RunVMKeeps
<1>5. CASE \E o \in TestOptions : StartTest(o) BY <1>5, StartTestKeeps
<1>6. CASE NextTest \/ MakeKeys \/ Framework \/ Clone \/ Checkout
  BY <1>6, NextTestKeeps, MakeKeysKeeps, FrameworkKeeps, CloneKeeps, CheckoutKeeps
<1>7. CASE MakeVenv \/ Install \/ WriteRunbook \/ RunTest
  BY <1>7, MakeVenvKeeps, InstallKeeps, WriteRunbookKeeps, RunTestKeeps
<1> QED BY <1>1, <1>2, <1>3, <1>4, <1>5, <1>6, <1>7 DEF ImageStep

LEMMA ShellStepKeeps == ASSUME IInv, Shells(ShellStep) PROVE IInv'
<1>1. UNCHANGED <<job, disk>> BY DEF Shells
<1>2. CASE LoadConfig \/ OpenLog \/ PreRun \/ Report BY <1>1, <1>2, StartKeeps
<1>3. CASE StopServing BY <1>1, <1>3, ServerKeeps
<1>4. CASE StartChild \/ ChildExits \/ Hear \/ Return BY <1>1, <1>4, ChildKeeps
<1> QED BY <1>2, <1>3, <1>4 DEF Shells, ShellStep

LEMMA StutterKeeps == ASSUME IInv, UNCHANGED vars PROVE IInv'
BY DEF vars, shellVars, IInv, ImagesTypeOK, ShellTypeOK, Processes, JobInv, TestSteps, LitterInv, DiskInv, OutInv,
       OneBuildInOut, Live, FwInv, Lisa, Test, ChildInv, In, CallIsFresh, FreshSel, Calls, Jobs

LEMMA NextKeeps == IInv /\ [Next]_vars => IInv'
<1> SUFFICES ASSUME IInv, [Next]_vars PROVE IInv' OBVIOUS
<1>1. CASE Step BY <1>1, ShellStepKeeps, ImageStepKeeps DEF Step
<1>2. CASE \E c \in Commands, dry \in Spellings, root \in BOOLEAN : Shells(Launch(c, dry, root))
  BY <1>2, LaunchKeeps DEF Shells
<1>3. CASE \E t \in Tools, flags, words \in SUBSET Words : Shells(Call(t, flags, words))
  BY <1>3, CallKeeps DEF Shells
<1>4. CASE Shells(ClientLeaves) BY <1>4, ServerKeeps DEF Shells
<1>5. CASE Shells(ChildWrites) \/ Shells(LetsGo) BY <1>5, ChildKeeps DEF Shells
<1>6. CASE Shells(Cancel) BY <1>6, CancelKeeps DEF Shells
<1>7. CASE KillJob \/ GuestWrites \/ UserTouches
  BY <1>7, KillJobKeeps, GuestWritesKeeps, UserTouchesKeeps
<1>8. CASE UNCHANGED vars BY <1>8, StutterKeeps
<1> QED BY <1>1, <1>2, <1>3, <1>4, <1>5, <1>6, <1>7, <1>8 DEF Next

\* Every state of a run of azldev satisfies the inductive invariant.
THEOREM ImagesInvariant == Spec => []IInv
<1> QED BY TypeInit, NextKeeps, PTL DEF Spec

\* The variables keep their types (Execute, NewEnv, the image commands).
THEOREM ImagesTypes == Spec => []ImagesTypeOK
<1>1. IInv => ImagesTypeOK BY DEF IInv
<1> QED BY <1>1, ImagesInvariant, PTL

\* A process that ends by itself leaves nothing whose removal was deferred:
\* at most the directory of a key pair that could not be made, and part of
\* a runbook that could not be written.  No virtual machine writes to an
\* image unless --rwdisk asked for it (the deferred removals of Execute,
\* runQEMUBoot, buildCloudInitMetadataIso and runLisaLocally).
THEOREM NothingIsLeft == Spec => []NothingLeft
<1>1. IInv => NothingLeft
  <2> SUFFICES ASSUME IInv PROVE NothingLeft OBVIOUS
  <2>1. guest = {} BY DEF IInv, DiskInv
  <2>2. app.at = "off" => May(job.at) = {} BY DEF IInv, JobInv, May
  <2>3. app.at = "off" => litter \subseteq {NoKeyDir, HalfRunbook} BY <2>2 DEF IInv, LitterInv
  <2> QED BY <2>1, <2>3 DEF NothingLeft
<1> QED BY <1>1, ImagesInvariant, PTL

\* The files of the image that can be opened are of one build, wherever
\* linkImageArtifacts failed or was stopped.
THEOREM OutIsOneBuild == Spec => []OneBuildInOut
<1>1. IInv => OneBuildInOut BY DEF IInv, OutInv
<1> QED BY <1>1, ImagesInvariant, PTL

\* LISA runs the commit the project pins, from the clone of that commit,
\* over clones that were left partial or where another is checked out.
THEOREM LisaIsPinned == Spec => []RightFramework
<1>1. IInv => RightFramework BY DEF IInv, FwInv, RightFramework
<1> QED BY <1>1, ImagesInvariant, PTL

\* A tool of the MCP server answers as its command would in a process of
\* its own, whatever the server was asked before.
THEOREM CallsAreFresh == Spec => []CallIsFresh
<1>1. IInv => CallIsFresh BY DEF IInv
<1> QED BY <1>1, ImagesInvariant, PTL

\* When Run of an external command returns, its listener has had every
\* line the child wrote, up to one that is too long for the scanner.
THEOREM LinesAreHeard == Spec => []AllLinesHeard
<1>1. IInv => AllLinesHeard BY DEF IInv, ChildInv, AllLinesHeard
<1> QED BY <1>1, ImagesInvariant, PTL

(***************************************************************************)
(* Agent files.  AgentInv follows one install: what it is through with is  *)
(* there, the MCP configurations are as they were until it comes to them,  *)
(* and its table of results is what it has planned so far.                 *)
(***************************************************************************)

InstalledAt(k) == EmittedFiles(install.o)[k]
Planning == DOMAIN EmittedFiles(install.o)

\* What an install's record says of itself, wherever it is.
AgentShape ==
  /\ DOMAIN files = Paths
  /\ install.at \in {"none", "files", "mcp", "done", "failed", "killed"}
  /\ install.at # "none" => /\ install = [at |-> install.at, n |-> install.n, o |-> install.o, before |-> install.before,
                                          next |-> install.next, told |-> install.told]
                            /\ DOMAIN install.before = Paths
  /\ install.at \in {"files", "mcp", "done"} => /\ install.o.layout \in Layouts
                                                /\ \A i \in Ran(Instructions) : InstructionIsValid(install.o.mode, i)
  /\ install.at = "files" => install.next \in 1..(Len(EmittedFiles(install.o)) + 1)
  /\ install.at = "mcp" => install.next \in 1..3

\* The files an install is through with hold what it planned.
FilesAreThere ==
  install.at \in {"files", "mcp", "done"} /\ ~install.o.dry =>
    \A k \in Planning : (install.at = "files" => k < install.next) => files[InstalledAt(k).path] = InstalledAt(k).text

\* An MCP configuration is as it was until the install comes to it.
Registered(j) == LET p == Mcp(McpConfigs[j]) IN
  install.before[p].is \in {"absent", "servers"} /\ files[p] = Upsert(install.before[p])
ConfigsAreKept ==
  /\ install.at = "files" => \A p \in McpPaths : files[p] = install.before[p]
  /\ install.at \in {"mcp", "done"} /\ ~install.o.dry =>
       \A j \in 1..2 : IF install.at = "done" \/ j < install.next THEN Registered(j)
                       ELSE files[Mcp(McpConfigs[j])] = install.before[Mcp(McpConfigs[j])]

\* The table of results, so far.
ToldSoFar ==
  /\ install.at = "files" => install.told = {InstalledAt(k).path : k \in 1..(install.next - 1)}
  /\ install.at = "mcp" => install.told = {InstalledAt(k).path : k \in Planning} \cup {Mcp(McpConfigs[j]) : j \in 1..(install.next - 1)}
  /\ install.at = "done" => install.told = Planned(install.o)
DryWritesNothing == install.at # "none" /\ install.o.dry => files = install.before

\* PointersResolve, at paths that azldev writes.
PointersHeld ==
  \A i \in Ran(Instructions) : files[Instruction(i)].is = "instruction" =>
    \A s \in Ran(PointersOf(files[Instruction(i)].mode, i)) : \E l \in Layouts : Skill(l, s) \in Paths /\ files[Skill(l, s)] # Absent

AgentInv == /\ AgentShape /\ FilesAreThere /\ ConfigsAreKept /\ ToldSoFar /\ DryWritesNothing
            /\ PointersHeld /\ ServersAreKept

-----------------------------------------------------------------------------
(* The plan of an install: which path is which.                            *)

LEMMA Appending ==
  ASSUME NEW U, NEW s \in Seq(U), NEW t \in Seq(U)
  PROVE  /\ s \o t \in Seq(U) /\ Len(s \o t) = Len(s) + Len(t)
         /\ \A k \in 1..Len(s) : (s \o t)[k] = s[k]
         /\ \A k \in 1..Len(t) : (s \o t)[Len(s) + k] = t[k]
OBVIOUS

LEMMA WriteHas == \A path, text : Write(path, text).path = path /\ Write(path, text).text = text
BY DEF Write

LEMMA TextsAreNotAbsent == \A what, name, o : what # "absent" => Text(what, name, o) # Absent
BY DEF Text, Absent

LEMMA PlanIs ==
  ASSUME NEW o
  PROVE  LET e == EmittedFiles(o)  r == Len(Registry)  i == Len(Instructions) IN
         /\ r \in Nat /\ i \in Nat /\ Len(e) = (1 + r) + i /\ DOMAIN e = 1..((1 + r) + i)
         /\ \E text : text # Absent /\ e[1] = Write(Provenance(o.layout), text)
         /\ \A n \in 1..r : e[1 + n] = Write(Skill(o.layout, InMode(o.mode, Registry[n])), SkillText(InMode(o.mode, Registry[n]), o))
         /\ \A n \in 1..i : e[(1 + r) + n] = Write(Instruction(Instructions[n]), Text("instruction", Instructions[n], o))
<1> DEFINE r == Len(Registry)  i == Len(Instructions)
           P == ProvenanceFile(o)  S == SkillFiles(o)  I == InstructionFiles(o)
<1>1. Registry \in Seq(Ran(Registry)) /\ Instructions \in Seq(Ran(Instructions))
  BY AgentAssumption
<1>2. r \in Nat /\ i \in Nat /\ DOMAIN Registry = 1..r /\ DOMAIN Instructions = 1..i
  BY <1>1
<1>3. P \in Seq({P[1]}) /\ Len(P) = 1
  BY DEF ProvenanceFile
<1>4. S \in Seq({S[n] : n \in 1..r}) /\ Len(S) = r
  BY <1>2 DEF SkillFiles
<1>5. I \in Seq({I[n] : n \in 1..i}) /\ Len(I) = i
  BY <1>2 DEF InstructionFiles
<1> DEFINE U == {P[1]} \cup {S[n] : n \in 1..r} \cup {I[n] : n \in 1..i}
<1>6. P \in Seq(U) /\ S \in Seq(U) /\ I \in Seq(U)
  BY <1>3, <1>4, <1>5
<1> HIDE DEF P, S, I, U, r, i
<1>7. /\ P \o S \in Seq(U) /\ Len(P \o S) = 1 + r
      /\ \A n \in 1..1 : (P \o S)[n] = P[n]
      /\ \A n \in 1..r : (P \o S)[1 + n] = S[n]
  <2>1. /\ P \o S \in Seq(U) /\ Len(P \o S) = Len(P) + Len(S)
        /\ \A n \in 1..Len(P) : (P \o S)[n] = P[n]
        /\ \A n \in 1..Len(S) : (P \o S)[Len(P) + n] = S[n]
    BY <1>6, Appending
  <2> QED
    BY <1>3, <1>4, <2>1
<1>8. /\ (P \o S) \o I \in Seq(U) /\ Len((P \o S) \o I) = (1 + r) + i
      /\ \A n \in 1..(1 + r) : ((P \o S) \o I)[n] = (P \o S)[n]
      /\ \A n \in 1..i : ((P \o S) \o I)[(1 + r) + n] = I[n]
  <2>1. /\ (P \o S) \o I \in Seq(U) /\ Len((P \o S) \o I) = Len(P \o S) + Len(I)
        /\ \A n \in 1..Len(P \o S) : ((P \o S) \o I)[n] = (P \o S)[n]
        /\ \A n \in 1..Len(I) : ((P \o S) \o I)[Len(P \o S) + n] = I[n]
    BY <1>6, <1>7, Appending
  <2> QED
    BY <1>5, <1>7, <2>1
<1>9. EmittedFiles(o) = (P \o S) \o I
  BY DEF EmittedFiles, P, S, I
<1>10. \E text : text # Absent /\ P[1] = Write(Provenance(o.layout), text)
  <2>1. "provenance" # "absent"
    OBVIOUS
  <2>2. Text("provenance", "", o) # Absent
    BY <2>1, TextsAreNotAbsent, Zenon
  <2>3. P[1] = Write(Provenance(o.layout), Text("provenance", "", o))
    BY DEF P, ProvenanceFile
  <2> QED
    BY <2>2, <2>3
<1>11. \A n \in 1..r : S[n] = Write(Skill(o.layout, InMode(o.mode, Registry[n])), SkillText(InMode(o.mode, Registry[n]), o))
  BY <1>2 DEF S, SkillFiles
<1>12. \A n \in 1..i : I[n] = Write(Instruction(Instructions[n]), Text("instruction", Instructions[n], o))
  BY <1>2 DEF I, InstructionFiles
<1>13. \A n \in 1..r : EmittedFiles(o)[1 + n] = S[n]
  <2>1. \A n \in 1..r : 1 + n \in 1..(1 + r)
    BY <1>2
  <2> QED
    BY <1>7, <1>8, <1>9, <2>1
<1>14. EmittedFiles(o)[1] = P[1]
  BY <1>2, <1>7, <1>8, <1>9
<1>15. \A n \in 1..i : EmittedFiles(o)[(1 + r) + n] = I[n]
  BY <1>8, <1>9
<1>16. Len(EmittedFiles(o)) = (1 + r) + i /\ DOMAIN EmittedFiles(o) = 1..((1 + r) + i)
  BY <1>2, <1>8, <1>9
<1> QED
  BY <1>2, <1>10, <1>11, <1>12, <1>13, <1>14, <1>15, <1>16 DEF r, i

LEMMA ModesAreInjective ==
  ASSUME NEW mode, NEW s \in Ran(Registry), NEW t \in Ran(Registry), InMode(mode, s) = InMode(mode, t)
  PROVE  s = t
BY AgentAssumption DEF InMode

LEMMA RegistryIsInjective ==
  ASSUME NEW n \in 1..Len(Registry), NEW m \in 1..Len(Registry), Registry[n] = Registry[m]
  PROVE  n = m
BY AgentAssumption

LEMMA InstructionsAreInjective ==
  ASSUME NEW n \in 1..Len(Instructions), NEW m \in 1..Len(Instructions), Instructions[n] = Instructions[m]
  PROVE  n = m
BY AgentAssumption

LEMMA RegistryNames == \A n \in 1..Len(Registry) : Registry[n] \in Ran(Registry)
BY AgentAssumption DEF Ran
LEMMA InstructionNames == \A n \in 1..Len(Instructions) : Instructions[n] \in Ran(Instructions)
BY AgentAssumption DEF Ran

\* The four families of paths have nothing in common.
LEMMA SkillPathsApart ==
  ASSUME NEW l \in Layouts, NEW s
  PROVE  /\ \A t : Skill(l, s) # Instruction(t) /\ Skill(l, s) # Mcp(t)
         /\ \A k : Skill(l, s) # Provenance(k)
BY DEF Skill, Provenance, Instruction, Mcp, Layouts
LEMMA OtherPathsApart ==
  ASSUME NEW s, NEW t
  PROVE  Provenance(s) # Instruction(t) /\ Provenance(s) # Mcp(t) /\ Instruction(s) # Mcp(t)
BY DEF Provenance, Instruction, Mcp
LEMMA SkillPath ==
  ASSUME NEW l, NEW s, NEW t, Skill(l, s) = Skill(l, t)
  PROVE  s = t
BY DEF Skill
LEMMA InstructionPath ==
  ASSUME NEW s, NEW t, Instruction(s) = Instruction(t)
  PROVE  s = t
BY DEF Instruction

LEMMA McpPathsAre == /\ McpPaths = {Mcp(McpConfigs[1]), Mcp(McpConfigs[2])} /\ Mcp(McpConfigs[1]) # Mcp(McpConfigs[2])
                     /\ Len(McpConfigs) = 2 /\ McpPaths \subseteq Paths
                     /\ \A j \in 1..2 : Mcp(McpConfigs[j]) \in McpPaths
BY DEF McpPaths, Mcp, McpConfigs, Ran, Paths

\* An instruction lies behind the skills in the plan.
LEMMA PlannedPaths ==
  ASSUME NEW o, o.layout \in Layouts
  PROVE  /\ \A k \in DOMAIN EmittedFiles(o) : EmittedFiles(o)[k].path \in Paths \ McpPaths
         /\ \A k, m \in DOMAIN EmittedFiles(o) : EmittedFiles(o)[k].path = EmittedFiles(o)[m].path => k = m
<1> DEFINE r == Len(Registry)  i == Len(Instructions)  e == EmittedFiles(o)
           IsProvenance(k) == k = 1 /\ e[k].path = Provenance(o.layout)
           IsSkill(k) == k \in 2..(r + 1) /\ e[k].path = Skill(o.layout, InMode(o.mode, Registry[k - 1]))
           IsInstruction(k) == k \in (r + 2)..(r + i + 1) /\ e[k].path = Instruction(Instructions[k - 1 - r])
<1>1. r \in Nat /\ i \in Nat /\ DOMAIN e = 1..((1 + r) + i)
  BY PlanIs
<1>2. ASSUME NEW k \in DOMAIN e PROVE IsProvenance(k) \/ IsSkill(k) \/ IsInstruction(k)
  <2>1. CASE k = 1
    <3>1. PICK text : e[1] = Write(Provenance(o.layout), text)
      BY PlanIs
    <3>2. e[1].path = Provenance(o.layout)
      BY <3>1 DEF Write
    <3> QED
      BY <2>1, <3>2
  <2>2. CASE k \in 2..(r + 1)
    <3>1. PICK n \in 1..r : k = 1 + n
      <4>1. k - 1 \in 1..r /\ k = 1 + (k - 1)
        BY <1>1, <2>2
      <4> QED
        BY <4>1
    <3>2. e[1 + n] = Write(Skill(o.layout, InMode(o.mode, Registry[n])), SkillText(InMode(o.mode, Registry[n]), o))
      BY PlanIs
    <3>3. k - 1 = n
      BY <1>1, <3>1
    <3> QED
      BY <2>2, <3>1, <3>2, <3>3 DEF Write
  <2>3. CASE k \in (r + 2)..(r + i + 1)
    <3>1. PICK n \in 1..i : k = (1 + r) + n
      <4>1. k - 1 - r \in 1..i /\ k = (1 + r) + (k - 1 - r)
        BY <1>1, <2>3
      <4> QED
        BY <4>1
    <3>2. e[(1 + r) + n] = Write(Instruction(Instructions[n]), Text("instruction", Instructions[n], o))
      BY PlanIs
    <3>3. k - 1 - r = n
      BY <1>1, <3>1
    <3> QED
      BY <2>3, <3>1, <3>2, <3>3 DEF Write
  <2> QED
    BY <1>1, <1>2, <2>1, <2>2, <2>3
<1>3. ASSUME NEW k \in DOMAIN e PROVE e[k].path \in Paths \ McpPaths
  <2>1. CASE IsProvenance(k)
    BY <2>1, OtherPathsApart DEF Paths, McpPaths
  <2>2. CASE IsSkill(k)
    <3>1. k - 1 \in 1..r
      BY <1>1, <2>2
    <3>2. InMode(o.mode, Registry[k - 1]) \in Named
      <4>1. Registry[k - 1] \in Ran(Registry) /\ k - 1 \in DOMAIN Registry
        BY <3>1, RegistryNames, AgentAssumption
      <4> QED
        BY <4>1 DEF InMode, Named, Ran, Skills
    <3> QED
      BY <2>2, <3>2, SkillPathsApart DEF Paths, McpPaths
  <2>3. CASE IsInstruction(k)
    <3>1. k - 1 - r \in 1..i
      BY <1>1, <2>3
    <3> QED
      BY <2>3, <3>1, InstructionNames, OtherPathsApart DEF Paths, McpPaths
  <2> QED
    BY <1>2, <1>3, <2>1, <2>2, <2>3
<1>4. ASSUME NEW k \in DOMAIN e, NEW m \in DOMAIN e, e[k].path = e[m].path PROVE k = m
  <2>1. CASE IsProvenance(k) \/ IsProvenance(m)
    BY <1>2, <1>4, <2>1, SkillPathsApart, OtherPathsApart
  <2>2. CASE IsSkill(k) /\ IsSkill(m)
    <3>1. k - 1 \in 1..r /\ m - 1 \in 1..r
      BY <1>1, <2>2
    <3>2. InMode(o.mode, Registry[k - 1]) = InMode(o.mode, Registry[m - 1])
      <4>1. Skill(o.layout, InMode(o.mode, Registry[k - 1])) = Skill(o.layout, InMode(o.mode, Registry[m - 1]))
        BY <1>4, <2>2
      <4> QED
        BY <4>1, SkillPath
    <3>3. Registry[k - 1] = Registry[m - 1]
      BY <3>1, <3>2, RegistryNames, ModesAreInjective
    <3>4. k - 1 = m - 1
      BY <3>1, <3>3, RegistryIsInjective
    <3> QED
      BY <1>1, <3>4
  <2>3. CASE IsInstruction(k) /\ IsInstruction(m)
    <3>1. k - 1 - r \in 1..i /\ m - 1 - r \in 1..i
      BY <1>1, <2>3
    <3>2. Instructions[k - 1 - r] = Instructions[m - 1 - r]
      <4>1. Instruction(Instructions[k - 1 - r]) = Instruction(Instructions[m - 1 - r])
        BY <1>4, <2>3
      <4> QED
        BY <4>1, InstructionPath
    <3>3. k - 1 - r = m - 1 - r
      BY <3>1, <3>2, InstructionsAreInjective
    <3> QED
      BY <1>1, <3>3
  <2>4. CASE (IsSkill(k) /\ IsInstruction(m)) \/ (IsSkill(m) /\ IsInstruction(k))
    BY <1>4, <2>4, SkillPathsApart
  <2> QED
    BY <1>2, <2>1, <2>2, <2>3, <2>4
<1> QED
  BY <1>3, <1>4

LEMMA RanOfSkills ==
  ASSUME NEW mode, NEW s \in Ran(Skills(mode))
  PROVE  \E n \in 1..Len(Registry) : s = InMode(mode, Registry[n])
<1>1. DOMAIN Registry = 1..Len(Registry)
  BY AgentAssumption
<1> QED
  BY <1>1 DEF Ran, Skills

LEMMA TextsAreThere == \A what, name, o : Text(what, name, o).is = what /\ Text(what, name, o).mode = o.mode
BY DEF Text
LEMMA SkillTextsAreThere == \A s, o : SkillText(s, o) # Absent
BY DEF SkillText, SkillDocument, Text, Absent

\* The skills an instruction names come before it.
LEMMA SkillsComeFirst ==
  ASSUME NEW o, o.layout \in Layouts, NEW k \in DOMAIN EmittedFiles(o), NEW i \in Ran(Instructions),
         EmittedFiles(o)[k].path = Instruction(i), InstructionIsValid(o.mode, i)
  PROVE  /\ EmittedFiles(o)[k].text.mode = o.mode
         /\ \A s \in Ran(PointersOf(o.mode, i)) :
              \E m \in DOMAIN EmittedFiles(o) : /\ m < k /\ EmittedFiles(o)[m].path = Skill(o.layout, s)
                                                /\ EmittedFiles(o)[m].text # Absent
<1> DEFINE r == Len(Registry)  e == EmittedFiles(o)
<1>1. r \in Nat /\ Len(Instructions) \in Nat /\ DOMAIN e = 1..((1 + r) + Len(Instructions))
  BY PlanIs
<1>2. PICK n \in 1..Len(Instructions) : i = Instructions[n]
  BY AgentAssumption DEF Ran
<1>3. e[(1 + r) + n] = Write(Instruction(Instructions[n]), Text("instruction", Instructions[n], o))
  BY PlanIs
<1>4. (1 + r) + n \in DOMAIN e
  BY <1>1
<1>5. k = (1 + r) + n
  <2>1. e[(1 + r) + n].path = Instruction(i)
    BY <1>2, <1>3, WriteHas
  <2> QED
    BY <1>4, <2>1, PlannedPaths
<1>6. e[k].text.mode = o.mode
  BY <1>3, <1>5, WriteHas, TextsAreThere
<1>7. ASSUME NEW s \in Ran(PointersOf(o.mode, i))
      PROVE  \E m \in DOMAIN e : m < k /\ e[m].path = Skill(o.layout, s) /\ e[m].text # Absent
  <2>1. s \in Ran(Skills(o.mode))
    BY <1>7 DEF InstructionIsValid, FindSkill
  <2>2. PICK m \in 1..r : s = InMode(o.mode, Registry[m])
    BY <2>1, RanOfSkills
  <2>3. e[1 + m] = Write(Skill(o.layout, s), SkillText(s, o))
    BY <2>2, PlanIs
  <2>4. e[1 + m].path = Skill(o.layout, s) /\ e[1 + m].text # Absent
    BY <2>3, WriteHas, SkillTextsAreThere
  <2>5. 1 + m \in DOMAIN e /\ 1 + m < k
    BY <1>1, <1>5
  <2> QED
    BY <2>4, <2>5
<1> QED
  BY <1>6, <1>7

LEMMA PlannedTexts ==
  ASSUME NEW o, NEW k \in DOMAIN EmittedFiles(o)
  PROVE  EmittedFiles(o)[k].text # Absent
<1> DEFINE r == Len(Registry)  i == Len(Instructions)  e == EmittedFiles(o)
<1>1. r \in Nat /\ i \in Nat /\ DOMAIN e = 1..((1 + r) + i)
  BY PlanIs
<1>2. \A name : Text("instruction", name, o) # Absent
  BY TextsAreNotAbsent
<1>3. CASE k = 1
  <2>1. PICK text : text # Absent /\ e[1] = Write(Provenance(o.layout), text)
    BY PlanIs
  <2> QED
    BY <1>3, <2>1, WriteHas
<1>4. CASE k \in 2..(r + 1)
  <2>1. PICK n \in 1..r : k = 1 + n
    <3>1. k - 1 \in 1..r /\ k = 1 + (k - 1)
      BY <1>1, <1>4
    <3> QED
      BY <3>1
  <2>2. e[1 + n] = Write(Skill(o.layout, InMode(o.mode, Registry[n])), SkillText(InMode(o.mode, Registry[n]), o))
    BY PlanIs
  <2> QED
    BY <2>1, <2>2, WriteHas, SkillTextsAreThere
<1>5. CASE k \in (r + 2)..(r + i + 1)
  <2>1. PICK n \in 1..i : k = (1 + r) + n
    <3>1. k - 1 - r \in 1..i /\ k = (1 + r) + (k - 1 - r)
      BY <1>1, <1>5
    <3> QED
      BY <3>1
  <2>2. e[(1 + r) + n] = Write(Instruction(Instructions[n]), Text("instruction", Instructions[n], o))
    BY PlanIs
  <2> QED
    BY <1>2, <2>1, <2>2, WriteHas
<1> QED
  BY <1>1, <1>3, <1>4, <1>5

-----------------------------------------------------------------------------
(* The invariant: what each kind of step keeps.                            *)

LEMMA EndsWith ==
  ASSUME AgentShape, install.at # "none", NEW how, Ends(how)
  PROVE  /\ install'.at = how /\ install'.o = install.o /\ install'.before = install.before
         /\ install'.next = install.next /\ install'.told = install.told
         /\ install' = [at |-> install'.at, n |-> install'.n, o |-> install'.o, before |-> install'.before,
                        next |-> install'.next, told |-> install'.told]
BY DEF AgentShape, Ends

LEMMA EmitsThat ==
  ASSUME AgentShape, install.at # "none", NEW path \in Paths, NEW text, Emits(path, text)
  PROVE  /\ install'.at = install.at /\ install'.o = install.o /\ install'.before = install.before
         /\ install'.next = install.next + 1 /\ install'.told = install.told \cup {path}
         /\ install' = [at |-> install'.at, n |-> install'.n, o |-> install'.o, before |-> install'.before,
                        next |-> install'.next, told |-> install'.told]
         /\ IF install.o.dry THEN files' = files ELSE files' = [files EXCEPT ![path] = text]
BY DEF AgentShape, Emits, Put

\* What is written over a path leaves the skills of an instruction there.
LEMMA PointersStay ==
  ASSUME PointersHeld, DOMAIN files = Paths, NEW p \in Paths, NEW x, files' = [files EXCEPT ![p] = x],
         x # Absent \/ p \in McpPaths,
         \A i \in Ran(Instructions) : p = Instruction(i) => x.is # "instruction"
  PROVE  PointersHeld'
<1> SUFFICES ASSUME NEW i \in Ran(Instructions), files'[Instruction(i)].is = "instruction",
                    NEW s \in Ran(PointersOf(files'[Instruction(i)].mode, i))
             PROVE  \E l \in Layouts : Skill(l, s) \in Paths /\ files'[Skill(l, s)] # Absent
  BY DEF PointersHeld
<1>1. Instruction(i) \in Paths
  BY DEF Paths
<1>2. files'[Instruction(i)] = files[Instruction(i)]
  BY <1>1
<1>3. PICK l \in Layouts : Skill(l, s) \in Paths /\ files[Skill(l, s)] # Absent
  BY <1>2 DEF PointersHeld
<1>4. CASE p = Skill(l, s)
  <2>1. p \notin McpPaths
    BY <1>4, SkillPathsApart DEF McpPaths
  <2> QED
    BY <1>3, <1>4, <2>1
<1>5. CASE p # Skill(l, s)
  BY <1>3, <1>5
<1> QED
  BY <1>4, <1>5

LEMMA McpIsNoInstruction == \A p \in McpPaths : \A i \in Ran(Instructions) : p # Instruction(i)
BY OtherPathsApart DEF McpPaths

\* A step that ends the install, and may tear the file it is at.
LEMMA StopKeeps ==
  ASSUME AgentInv, install.at \in {"files", "mcp"}, NEW how \in {"failed", "killed"}, Ends(how),
         \/ files' = files
         \/ /\ ~install.o.dry
            /\ \E p \in Paths : /\ files' = [files EXCEPT ![p] = Torn]
                                /\ p \in McpPaths => files[p] = install.before[p] /\ install.before[p].is \in {"absent", "servers"}
  PROVE  AgentInv'
<1>1. /\ install'.at = how /\ install'.o = install.o /\ install'.before = install.before
      /\ install' = [at |-> install'.at, n |-> install'.n, o |-> install'.o, before |-> install'.before,
                     next |-> install'.next, told |-> install'.told]
  BY EndsWith DEF AgentInv
<1>2. DOMAIN files = Paths /\ DOMAIN install.before = Paths
  BY DEF AgentInv, AgentShape
<1>3. DOMAIN files' = Paths
  BY <1>2
<1>4. AgentShape'
  BY <1>1, <1>2, <1>3 DEF AgentShape
<1>5. FilesAreThere' /\ ConfigsAreKept' /\ ToldSoFar'
  BY <1>1 DEF FilesAreThere, ConfigsAreKept, ToldSoFar
<1>6. DryWritesNothing'
  BY <1>1 DEF AgentInv, DryWritesNothing
<1>7. PointersHeld'
  <2>1. CASE files' = files
    BY <2>1 DEF AgentInv, PointersHeld
  <2>2. CASE files' # files
    <3>1. PICK p \in Paths : files' = [files EXCEPT ![p] = Torn]
      BY <2>2
    <3>2. Torn # Absent /\ Torn.is # "instruction"
      BY DEF Torn, Absent
    <3> QED
      BY <1>2, <3>1, <3>2, PointersStay DEF AgentInv
  <2> QED
    BY <2>1, <2>2
<1>8. ServersAreKept'
  <2> SUFFICES ASSUME NEW q \in McpPaths
               PROVE  \/ files'[q] = install.before[q]
                      \/ /\ install.before[q].is \in {"absent", "servers"}
                         /\ files'[q] = Upsert(install.before[q]) \/ files'[q] = Torn
    BY <1>1 DEF ServersAreKept
  <2>1. q \in Paths
    BY McpPathsAre
  <2>2. CASE files'[q] = files[q]
    BY <2>2 DEF AgentInv, ServersAreKept
  <2>3. CASE files'[q] # files[q]
    <3>1. PICK p \in Paths : /\ files' = [files EXCEPT ![p] = Torn]
                             /\ p \in McpPaths => files[p] = install.before[p] /\ install.before[p].is \in {"absent", "servers"}
      BY <2>3
    <3>2. p = q
      BY <1>2, <2>1, <2>3, <3>1
    <3> QED
      BY <1>2, <3>1, <3>2
  <2> QED
    BY <2>2, <2>3
<1> QED
  BY <1>4, <1>5, <1>6, <1>7, <1>8 DEF AgentInv

LEMMA FileIsNext ==
  ASSUME AgentInv, install.at = "files", install.next <= Len(EmittedFiles(install.o))
  PROVE  /\ install.next \in Planning /\ Now.path \in Paths \ McpPaths /\ Now = InstalledAt(install.next)
         /\ Now.text # Absent /\ install.o.layout \in Layouts
<1>1. install.next \in Planning /\ install.o.layout \in Layouts
  <2>1. install.next \in 1..(Len(EmittedFiles(install.o)) + 1) /\ install.o.layout \in Layouts
    BY DEF AgentInv, AgentShape
  <2>2. Len(EmittedFiles(install.o)) \in Nat /\ Planning = 1..Len(EmittedFiles(install.o))
    <3>1. /\ Len(Registry) \in Nat /\ Len(Instructions) \in Nat
          /\ Len(EmittedFiles(install.o)) = (1 + Len(Registry)) + Len(Instructions)
          /\ DOMAIN EmittedFiles(install.o) = 1..((1 + Len(Registry)) + Len(Instructions))
      BY PlanIs
    <3> QED
      BY <3>1 DEF Planning
  <2> QED
    BY <2>1, <2>2
<1> QED
  BY <1>1, PlannedPaths, PlannedTexts DEF Now, InstalledAt, Planning

LEMMA ConfigIsNext ==
  ASSUME AgentInv, install.at = "mcp", install.next <= Len(McpConfigs)
  PROVE  /\ install.next \in 1..2 /\ ThisMcp \in McpPaths /\ ThisMcp \in Paths /\ ThisMcp = Mcp(McpConfigs[install.next])
         /\ ~install.o.dry => files[ThisMcp] = install.before[ThisMcp]
<1>1. install.next \in 1..3
  BY DEF AgentInv, AgentShape
<1>2. install.next \in 1..2
  BY <1>1, McpPathsAre
<1>3. ThisMcp = Mcp(McpConfigs[install.next])
  BY DEF ThisMcp
<1>4. ~(install.next < install.next)
  BY <1>2
<1> QED
  BY <1>2, <1>3, <1>4, McpPathsAre DEF AgentInv, ConfigsAreKept

LEMMA InitHasInv == AgentInit => AgentInv
<1> SUFFICES ASSUME AgentInit PROVE AgentInv
  OBVIOUS
<1>1. install.at = "none" /\ DOMAIN files = Paths
  BY DEF AgentInit, Idle
<1>2. PointersHeld
  <2>1. \A i \in Ran(Instructions) : Instruction(i) \in Paths
    BY DEF Paths
  <2>2. \A i \in Ran(Instructions) : files[Instruction(i)].is # "instruction"
    BY <2>1 DEF AgentInit, Absent
  <2> QED
    BY <2>2 DEF PointersHeld
<1> QED
  BY <1>1, <1>2 DEF AgentInv, AgentShape, FilesAreThere, ConfigsAreKept, ToldSoFar, DryWritesNothing, ServersAreKept

LEMMA InstallStartKeeps ==
  ASSUME AgentInv, NEW o \in Options, StartInstall(o)
  PROVE  AgentInv'
<1>1. /\ files' = files /\ DOMAIN files = Paths
      /\ install' = [at |-> install'.at, n |-> install'.n, o |-> install'.o, before |-> install'.before,
                     next |-> install'.next, told |-> install'.told]
      /\ install'.at \in {"files", "failed"} /\ install'.o = o /\ install'.before = files
      /\ install'.next = 1 /\ install'.told = {}
  BY DEF AgentInv, AgentShape, StartInstall
<1>2. install'.at = "files" => o.layout \in Layouts /\ \A i \in Ran(Instructions) : InstructionIsValid(o.mode, i)
  BY DEF StartInstall
<1>3. AgentShape'
  <2>1. Len(EmittedFiles(o)) \in Nat
    <3>1. Len(EmittedFiles(o)) = (1 + Len(Registry)) + Len(Instructions) /\ Len(Registry) \in Nat /\ Len(Instructions) \in Nat
      BY PlanIs
    <3> QED
      BY <3>1
  <2>2. 1 \in 1..(Len(EmittedFiles(o)) + 1)
    BY <2>1
  <2> QED
    BY <1>1, <1>2, <2>2 DEF AgentShape
<1>4. FilesAreThere'
  <2> SUFFICES ASSUME NEW k \in DOMAIN EmittedFiles(o), k < 1 PROVE FALSE
    BY <1>1 DEF FilesAreThere, Planning
  <2>1. DOMAIN EmittedFiles(o) = 1..((1 + Len(Registry)) + Len(Instructions)) /\ Len(Registry) \in Nat /\ Len(Instructions) \in Nat
    BY PlanIs
  <2> QED
    BY <2>1
<1>5. ConfigsAreKept' /\ ServersAreKept' /\ DryWritesNothing'
  BY <1>1 DEF ConfigsAreKept, ServersAreKept, DryWritesNothing
<1>6. ToldSoFar'
  BY <1>1 DEF ToldSoFar
<1>7. PointersHeld'
  BY <1>1 DEF AgentInv, PointersHeld
<1> QED
  BY <1>3, <1>4, <1>5, <1>6, <1>7 DEF AgentInv

LEMMA WriteKeeps ==
  ASSUME AgentInv, WriteFile
  PROVE  AgentInv'
<1>1. install.at = "files" /\ install.next <= Len(EmittedFiles(install.o))
  BY DEF WriteFile
<1>2. /\ install.next \in Planning /\ Now.path \in Paths \ McpPaths /\ Now = InstalledAt(install.next)
      /\ Now.text # Absent /\ install.o.layout \in Layouts
  BY <1>1, FileIsNext
<1>3. CASE CannotWrite(Now.path)
  BY <1>1, <1>2, <1>3, StopKeeps DEF CannotWrite, Put
<1>4. CASE Emits(Now.path, Now.text)
  <2>1. /\ install'.at = "files" /\ install'.o = install.o /\ install'.before = install.before
        /\ install'.next = install.next + 1 /\ install'.told = install.told \cup {Now.path}
        /\ install' = [at |-> install'.at, n |-> install'.n, o |-> install'.o, before |-> install'.before,
                       next |-> install'.next, told |-> install'.told]
        /\ IF install.o.dry THEN files' = files ELSE files' = [files EXCEPT ![Now.path] = Now.text]
    BY <1>1, <1>2, <1>4, EmitsThat DEF AgentInv
  <2>2. DOMAIN files = Paths /\ DOMAIN install.before = Paths
        /\ \A i \in Ran(Instructions) : InstructionIsValid(install.o.mode, i)
    BY <1>1 DEF AgentInv, AgentShape
  <2>3. DOMAIN files' = Paths
    BY <2>1, <2>2
  <2>4. /\ Len(EmittedFiles(install.o)) \in Nat /\ Planning = 1..Len(EmittedFiles(install.o))
        /\ install.next \in Nat
    <3>1. /\ Len(Registry) \in Nat /\ Len(Instructions) \in Nat
          /\ Len(EmittedFiles(install.o)) = (1 + Len(Registry)) + Len(Instructions)
          /\ DOMAIN EmittedFiles(install.o) = 1..((1 + Len(Registry)) + Len(Instructions))
      BY PlanIs
    <3> QED
      BY <1>2, <3>1 DEF Planning
  <2>5. AgentShape'
    <3>1. install.next + 1 \in 1..(Len(EmittedFiles(install.o)) + 1)
      BY <1>1, <2>4
    <3> QED
      BY <1>2, <2>1, <2>2, <2>3, <3>1 DEF AgentShape
  <2>6. FilesAreThere'
    <3> SUFFICES ASSUME ~install.o.dry, NEW k \in Planning, k < install.next + 1
                 PROVE  files'[InstalledAt(k).path] = InstalledAt(k).text
      BY <2>1 DEF FilesAreThere, Planning, InstalledAt
    <3>1. files' = [files EXCEPT ![Now.path] = Now.text]
      BY <2>1
    <3>2. CASE k = install.next
      BY <1>2, <2>2, <3>1, <3>2
    <3>3. CASE k # install.next
      <4>1. k < install.next
        BY <2>4, <3>3
      <4>2. files[InstalledAt(k).path] = InstalledAt(k).text
        BY <1>1, <4>1 DEF AgentInv, FilesAreThere
      <4>3. InstalledAt(k).path # Now.path /\ InstalledAt(k).path \in Paths
        BY <1>2, <3>3, PlannedPaths DEF InstalledAt, Planning
      <4> QED
        BY <2>2, <3>1, <4>2, <4>3
    <3> QED
      BY <3>2, <3>3
  <2>7. \A p \in McpPaths : files'[p] = install.before[p]
    <3> SUFFICES ASSUME NEW p \in McpPaths PROVE files'[p] = install.before[p]
      OBVIOUS
    <3>1. files[p] = install.before[p]
      BY <1>1 DEF AgentInv, ConfigsAreKept
    <3>2. p # Now.path /\ p \in Paths
      BY <1>2, McpPathsAre
    <3> QED
      BY <2>1, <2>2, <3>1, <3>2
  <2>8. ConfigsAreKept' /\ ServersAreKept'
    BY <2>1, <2>7 DEF ConfigsAreKept, ServersAreKept
  <2>9. ToldSoFar'
    <3>1. install.told = {InstalledAt(k).path : k \in 1..(install.next - 1)}
      BY <1>1 DEF AgentInv, ToldSoFar
    <3>2. 1..((install.next + 1) - 1) = 1..(install.next - 1) \cup {install.next}
      BY <1>2, <2>4
    <3>3. install'.told = {InstalledAt(k).path : k \in 1..((install.next + 1) - 1)}
      BY <1>2, <2>1, <3>1, <3>2
    <3> QED
      BY <2>1, <3>3 DEF ToldSoFar, InstalledAt
  <2>10. DryWritesNothing'
    BY <1>1, <2>1 DEF AgentInv, DryWritesNothing
  <2>11. PointersHeld'
    <3>1. CASE files' = files
      BY <3>1 DEF AgentInv, PointersHeld
    <3>2. CASE files' # files /\ \A i \in Ran(Instructions) : Now.path # Instruction(i)
      BY <1>2, <2>1, <2>2, <3>2, PointersStay DEF AgentInv
    <3>3. CASE files' # files /\ \E i \in Ran(Instructions) : Now.path = Instruction(i)
      <4>1. files' = [files EXCEPT ![Now.path] = Now.text] /\ ~install.o.dry
        BY <2>1, <3>3
      <4>2. PICK j \in Ran(Instructions) : Now.path = Instruction(j)
        BY <3>3
      <4>3. /\ Now.text.mode = install.o.mode
            /\ \A s \in Ran(PointersOf(install.o.mode, j)) :
                 \E m \in Planning : /\ m < install.next /\ InstalledAt(m).path = Skill(install.o.layout, s)
                                     /\ InstalledAt(m).text # Absent
        BY <1>2, <2>2, <4>2, SkillsComeFirst DEF InstalledAt, Planning
      <4> SUFFICES ASSUME NEW i \in Ran(Instructions), files'[Instruction(i)].is = "instruction",
                          NEW s \in Ran(PointersOf(files'[Instruction(i)].mode, i))
                   PROVE  \E l \in Layouts : Skill(l, s) \in Paths /\ files'[Skill(l, s)] # Absent
        BY DEF PointersHeld
      <4>4. ASSUME NEW l \in Layouts, Skill(l, s) \in Paths, files[Skill(l, s)] # Absent
            PROVE  files'[Skill(l, s)] # Absent
        BY <1>2, <2>2, <4>1, <4>4
      <4>5. CASE i = j
        <5>1. s \in Ran(PointersOf(install.o.mode, j))
          BY <1>2, <2>2, <4>1, <4>2, <4>3, <4>5
        <5>2. PICK m \in Planning : /\ m < install.next /\ InstalledAt(m).path = Skill(install.o.layout, s)
                                    /\ InstalledAt(m).text # Absent
          BY <4>3, <5>1
        <5>3. files[InstalledAt(m).path] = InstalledAt(m).text
          BY <1>1, <4>1, <5>2 DEF AgentInv, FilesAreThere
        <5>4. InstalledAt(m).path \in Paths
          BY <1>2, PlannedPaths DEF InstalledAt, Planning
        <5> QED
          BY <1>2, <4>4, <5>2, <5>3, <5>4
      <4>6. CASE i # j
        <5>1. Instruction(i) \in Paths /\ Instruction(i) # Now.path
          BY <4>2, <4>6, InstructionPath DEF Paths
        <5>2. files'[Instruction(i)] = files[Instruction(i)]
          BY <2>2, <4>1, <5>1
        <5>3. PICK l \in Layouts : Skill(l, s) \in Paths /\ files[Skill(l, s)] # Absent
          BY <5>2 DEF AgentInv, PointersHeld
        <5> QED
          BY <4>4, <5>3
      <4> QED
        BY <4>5, <4>6
    <3> QED
      BY <3>1, <3>2, <3>3
  <2> QED
    BY <2>5, <2>6, <2>8, <2>9, <2>10, <2>11 DEF AgentInv
<1> QED
  BY <1>3, <1>4 DEF WriteFile

LEMMA FilesWrittenKeeps ==
  ASSUME AgentInv, FilesWritten
  PROVE  AgentInv'
<1>1. /\ install.at = "files" /\ install.next > Len(EmittedFiles(install.o)) /\ files' = files /\ DOMAIN files = Paths
      /\ install.next \in 1..(Len(EmittedFiles(install.o)) + 1) /\ DOMAIN install.before = Paths
  BY DEF FilesWritten, AgentInv, AgentShape
<1>2. /\ install'.at = "mcp" /\ install'.o = install.o /\ install'.before = install.before
      /\ install'.next = 1 /\ install'.told = install.told
      /\ install' = [at |-> install'.at, n |-> install'.n, o |-> install'.o, before |-> install'.before,
                     next |-> install'.next, told |-> install'.told]
  BY <1>1 DEF FilesWritten, AgentInv, AgentShape
<1>3. AgentShape'
  BY <1>1, <1>2 DEF AgentInv, AgentShape
<1>4. /\ Planning = 1..Len(EmittedFiles(install.o)) /\ Len(EmittedFiles(install.o)) \in Nat
      /\ install.next = Len(EmittedFiles(install.o)) + 1
  <2>1. /\ Len(Registry) \in Nat /\ Len(Instructions) \in Nat
        /\ Len(EmittedFiles(install.o)) = (1 + Len(Registry)) + Len(Instructions)
        /\ DOMAIN EmittedFiles(install.o) = 1..((1 + Len(Registry)) + Len(Instructions))
    BY PlanIs
  <2> QED
    BY <1>1, <2>1 DEF Planning
<1>5. \A k \in Planning : k < install.next
  BY <1>4
<1>6. FilesAreThere'
  BY <1>1, <1>2, <1>5 DEF AgentInv, FilesAreThere, Planning, InstalledAt
<1>7. \A p \in McpPaths : files'[p] = install.before[p]
  BY <1>1 DEF AgentInv, ConfigsAreKept
<1>8. ConfigsAreKept' /\ ServersAreKept'
  <2>1. \A j \in 1..2 : ~(j < 1)
    OBVIOUS
  <2> QED
    BY <1>2, <1>7, <2>1, McpPathsAre DEF ConfigsAreKept, ServersAreKept
<1>9. ToldSoFar'
  <2>1. install.told = {InstalledAt(k).path : k \in 1..(install.next - 1)}
    BY <1>1 DEF AgentInv, ToldSoFar
  <2>2. 1..(install.next - 1) = Planning /\ 1..(1 - 1) = {}
    BY <1>4
  <2>3. install'.told = {InstalledAt(k).path : k \in Planning} \cup {Mcp(McpConfigs[j]) : j \in 1..(1 - 1)}
    BY <1>2, <2>1, <2>2
  <2> QED
    BY <1>2, <2>3 DEF ToldSoFar, InstalledAt, Planning
<1>10. DryWritesNothing' /\ PointersHeld'
  BY <1>1, <1>2 DEF AgentInv, DryWritesNothing, PointersHeld
<1> QED
  BY <1>3, <1>6, <1>8, <1>9, <1>10 DEF AgentInv

LEMMA EmitMcpKeeps ==
  ASSUME AgentInv, EmitMcp
  PROVE  AgentInv'
<1>1. install.at = "mcp" /\ install.next <= Len(McpConfigs)
  BY DEF EmitMcp
<1>2. /\ install.next \in 1..2 /\ ThisMcp \in McpPaths /\ ThisMcp \in Paths /\ ThisMcp = Mcp(McpConfigs[install.next])
      /\ ~install.o.dry => files[ThisMcp] = install.before[ThisMcp]
  BY <1>1, ConfigIsNext
<1>3. CASE files' = files /\ (Ends("failed") \/ Ends("killed"))
  BY <1>1, <1>3, StopKeeps
<1>4. CASE CanUpsert /\ CannotWrite(ThisMcp)
  <2>1. Ends("failed") /\ ~install.o.dry /\ (files' = files \/ files' = [files EXCEPT ![ThisMcp] = Torn])
    BY <1>4 DEF CannotWrite, Put
  <2>2. files[ThisMcp] = install.before[ThisMcp] /\ install.before[ThisMcp].is \in {"absent", "servers"}
    BY <1>2, <1>4, <2>1 DEF CanUpsert
  <2> QED
    BY <1>1, <1>2, <2>1, <2>2, StopKeeps
<1>5. CASE CanUpsert /\ Emits(ThisMcp, Upsert(files[ThisMcp]))
  <2>1. /\ install'.at = "mcp" /\ install'.o = install.o /\ install'.before = install.before
        /\ install'.next = install.next + 1 /\ install'.told = install.told \cup {ThisMcp}
        /\ install' = [at |-> install'.at, n |-> install'.n, o |-> install'.o, before |-> install'.before,
                       next |-> install'.next, told |-> install'.told]
        /\ IF install.o.dry THEN files' = files ELSE files' = [files EXCEPT ![ThisMcp] = Upsert(files[ThisMcp])]
    BY <1>1, <1>2, <1>5, EmitsThat DEF AgentInv
  <2>2. DOMAIN files = Paths /\ DOMAIN install.before = Paths
    BY <1>1 DEF AgentInv, AgentShape
  <2>3. AgentShape'
    <3>1. install.next + 1 \in 1..3 /\ DOMAIN files' = Paths
      BY <1>2, <2>1, <2>2
    <3> QED
      BY <1>1, <2>1, <2>2, <3>1 DEF AgentInv, AgentShape
  <2>4. FilesAreThere'
    <3> SUFFICES ASSUME ~install.o.dry, NEW k \in Planning
                 PROVE  files'[InstalledAt(k).path] = InstalledAt(k).text
      BY <2>1 DEF FilesAreThere, Planning, InstalledAt
    <3>1. files[InstalledAt(k).path] = InstalledAt(k).text
      BY <1>1 DEF AgentInv, FilesAreThere
    <3>2. install.o.layout \in Layouts
      BY <1>1 DEF AgentInv, AgentShape
    <3>3. InstalledAt(k).path \in Paths \ McpPaths
      BY <3>2, PlannedPaths DEF InstalledAt, Planning
    <3> QED
      BY <1>2, <2>1, <2>2, <3>1, <3>3
  <2>5. ConfigsAreKept'
    <3> SUFFICES ASSUME ~install.o.dry, NEW j \in 1..2
                 PROVE  LET p == Mcp(McpConfigs[j]) IN
                        IF j < install.next + 1
                          THEN install.before[p].is \in {"absent", "servers"} /\ files'[p] = Upsert(install.before[p])
                          ELSE files'[p] = install.before[p]
      BY <2>1 DEF ConfigsAreKept, Registered
    <3>1. Mcp(McpConfigs[j]) \in Paths
      BY McpPathsAre
    <3>2. files' = [files EXCEPT ![ThisMcp] = Upsert(files[ThisMcp])]
      BY <2>1
    <3>3. CASE j = install.next
      <4>1. files[ThisMcp].is \in {"absent", "servers"} /\ j < install.next + 1
        BY <1>2, <1>5, <3>3 DEF CanUpsert
      <4> QED
        BY <1>2, <2>2, <3>2, <3>3, <4>1
    <3>4. CASE j # install.next
      <4>1. j < install.next <=> j < install.next + 1
        BY <1>2, <3>4
      <4>2. Mcp(McpConfigs[j]) # ThisMcp
        BY <1>2, <3>4, McpPathsAre
      <4>3. files'[Mcp(McpConfigs[j])] = files[Mcp(McpConfigs[j])]
        BY <2>2, <3>1, <3>2, <4>2
      <4>4. IF j < install.next THEN Registered(j) ELSE files[Mcp(McpConfigs[j])] = install.before[Mcp(McpConfigs[j])]
        BY <1>1 DEF AgentInv, ConfigsAreKept
      <4> QED
        BY <4>1, <4>3, <4>4 DEF Registered
    <3> QED
      BY <3>3, <3>4
  <2>6. ServersAreKept'
    <3> SUFFICES ASSUME NEW p \in McpPaths
                 PROVE  \/ files'[p] = install.before[p]
                        \/ install.before[p].is \in {"absent", "servers"} /\ files'[p] = Upsert(install.before[p])
      BY <2>1 DEF ServersAreKept
    <3>1. CASE install.o.dry
      <4>1. files' = install.before
        BY <1>1, <2>1, <3>1 DEF AgentInv, DryWritesNothing
      <4> QED
        BY <4>1
    <3>2. CASE ~install.o.dry
      <4>1. PICK j \in 1..2 : p = Mcp(McpConfigs[j])
        BY McpPathsAre
      <4> QED
        BY <2>1, <2>5, <3>2, <4>1 DEF ConfigsAreKept, Registered
    <3> QED
      BY <3>1, <3>2
  <2>7. ToldSoFar'
    <3>1. install.told = {InstalledAt(k).path : k \in Planning} \cup {Mcp(McpConfigs[j]) : j \in 1..(install.next - 1)}
      BY <1>1 DEF AgentInv, ToldSoFar
    <3>2. 1..((install.next + 1) - 1) = 1..(install.next - 1) \cup {install.next}
      BY <1>2
    <3>3. install'.told = {InstalledAt(k).path : k \in Planning} \cup {Mcp(McpConfigs[j]) : j \in 1..((install.next + 1) - 1)}
      BY <1>2, <2>1, <3>1, <3>2
    <3> QED
      BY <2>1, <3>3 DEF ToldSoFar, InstalledAt, Planning
  <2>8. DryWritesNothing'
    BY <1>1, <2>1 DEF AgentInv, DryWritesNothing
  <2>9. PointersHeld'
    <3>1. CASE files' = files
      BY <3>1 DEF AgentInv, PointersHeld
    <3>2. CASE files' # files
      BY <1>2, <2>1, <2>2, <3>2, PointersStay, McpIsNoInstruction DEF AgentInv
    <3> QED
      BY <3>1, <3>2
  <2> QED
    BY <2>3, <2>4, <2>5, <2>6, <2>7, <2>8, <2>9 DEF AgentInv
<1> QED
  BY <1>3, <1>4, <1>5 DEF EmitMcp

LEMMA ReturnKeeps ==
  ASSUME AgentInv, InstallReturns
  PROVE  AgentInv'
<1>1. install.at = "mcp" /\ install.next > Len(McpConfigs) /\ files' = files /\ DOMAIN files = Paths /\ install.next \in 1..3
      /\ DOMAIN install.before = Paths
  BY DEF InstallReturns, AgentInv, AgentShape
<1>2. /\ install'.at = "done" /\ install'.o = install.o /\ install'.before = install.before
      /\ install'.next = install.next /\ install'.told = install.told
      /\ install' = [at |-> install'.at, n |-> install'.n, o |-> install'.o, before |-> install'.before,
                     next |-> install'.next, told |-> install'.told]
  BY <1>1, EndsWith DEF InstallReturns, AgentInv
<1>3. install.next = 3
  BY <1>1, McpPathsAre
<1>4. \A j \in 1..2 : j < install.next
  BY <1>3
<1>5. AgentShape'
  BY <1>1, <1>2 DEF AgentInv, AgentShape
<1>6. FilesAreThere'
  BY <1>1, <1>2 DEF AgentInv, FilesAreThere, Planning, InstalledAt
<1>7. ConfigsAreKept'
  BY <1>1, <1>2, <1>4 DEF AgentInv, ConfigsAreKept, Registered
<1>8. ServersAreKept'
  BY <1>1, <1>2 DEF AgentInv, ServersAreKept
<1>9. ToldSoFar'
  <2>1. 1..(install.next - 1) = {1, 2}
    BY <1>3
  <2>2. install.told = {InstalledAt(k).path : k \in Planning} \cup {Mcp(McpConfigs[j]) : j \in {1, 2}}
    BY <1>1, <2>1 DEF AgentInv, ToldSoFar
  <2>3. {Mcp(McpConfigs[j]) : j \in {1, 2}} = McpPaths
    BY McpPathsAre
  <2> QED
    BY <1>2, <2>2, <2>3 DEF ToldSoFar, InstalledAt, Planning, Planned
<1>10. DryWritesNothing' /\ PointersHeld'
  BY <1>1, <1>2 DEF AgentInv, DryWritesNothing, PointersHeld
<1> QED
  BY <1>5, <1>6, <1>7, <1>8, <1>9, <1>10 DEF AgentInv

LEMMA KillKeeps ==
  ASSUME AgentInv, KillInstall
  PROVE  AgentInv'
<1>1. install.at \in {"files", "mcp"} /\ Ends("killed") /\ (files' = files \/ Tears)
  BY DEF KillInstall, Running
<1>2. CASE files' = files
  BY <1>1, <1>2, StopKeeps
<1>3. CASE Tears /\ install.at = "files"
  <2>1. ~install.o.dry /\ files' = [files EXCEPT ![Now.path] = Torn] /\ install.next <= Len(EmittedFiles(install.o))
    BY <1>3 DEF Tears, Put
  <2>2. Now.path \in Paths \ McpPaths
    BY <1>3, <2>1, FileIsNext
  <2> QED
    BY <1>1, <2>1, <2>2, StopKeeps
<1>4. CASE Tears /\ install.at = "mcp"
  <2>1. /\ ~install.o.dry /\ files' = [files EXCEPT ![ThisMcp] = Torn] /\ install.next <= Len(McpConfigs)
        /\ files[ThisMcp].is \in {"absent", "servers"}
    BY <1>4 DEF Tears, Put, CanUpsert
  <2>2. ThisMcp \in Paths /\ files[ThisMcp] = install.before[ThisMcp]
    BY <1>4, <2>1, ConfigIsNext
  <2> QED
    BY <1>1, <2>1, <2>2, StopKeeps
<1> QED
  BY <1>1, <1>2, <1>3, <1>4

LEMMA UserKeeps ==
  ASSUME AgentInv, UserConfigures
  PROVE  AgentInv'
<1>1. PICK m \in Ran(McpConfigs), text \in UserTexts : files' = [files EXCEPT ![Mcp(m)] = text]
  BY DEF UserConfigures, Put
<1>2. install'.at = "none" /\ DOMAIN files = Paths /\ Mcp(m) \in McpPaths /\ Mcp(m) \in Paths
  BY McpPathsAre DEF UserConfigures, Idle, AgentInv, AgentShape, McpPaths
<1>3. PointersHeld'
  BY <1>1, <1>2, PointersStay, McpIsNoInstruction DEF AgentInv
<1>4. AgentShape'
  BY <1>1, <1>2 DEF AgentShape
<1> QED
  BY <1>2, <1>3, <1>4 DEF AgentInv, FilesAreThere, ConfigsAreKept, ToldSoFar, DryWritesNothing, ServersAreKept

LEMMA StepKeepsAgentInv == AgentInv /\ [AgentNext]_agentVars => AgentInv'
<1> SUFFICES ASSUME AgentInv, [AgentNext]_agentVars PROVE AgentInv'
  OBVIOUS
<1>1. ASSUME NEW o \in Options, StartInstall(o) PROVE AgentInv'
  BY <1>1, InstallStartKeeps
<1>2. CASE UNCHANGED agentVars
  BY <1>2 DEF agentVars, AgentInv, AgentShape, FilesAreThere, ConfigsAreKept, ToldSoFar, DryWritesNothing,
              PointersHeld, ServersAreKept, Planning, InstalledAt, Registered
<1> QED
  BY <1>1, <1>2, WriteKeeps, FilesWrittenKeeps, EmitMcpKeeps, ReturnKeeps, KillKeeps, UserKeeps DEF AgentNext

\* Registering azldev where it is registered changes nothing.
LEMMA UpsertAgain == \A config : Upsert(config).is = "servers" /\ Upsert(Upsert(config)) = Upsert(config)
BY DEF Upsert, Config, Absent

LEMMA InvMakesWhole == AgentInv => InstallIsWhole
<1> SUFFICES ASSUME AgentInv PROVE InstallIsWhole
  OBVIOUS
<1>1. PointersResolve /\ ServersAreKept
  BY DEF AgentInv, PointersHeld, PointersResolve
<1>2. RerunIsNoop
  <2> SUFFICES ASSUME install.at = "done", ~install.o.dry
               PROVE  /\ \A k \in Planning : files[InstalledAt(k).path] = InstalledAt(k).text
                      /\ \A p \in McpPaths : files[p].is = "servers" /\ Upsert(files[p]) = files[p]
    BY DEF RerunIsNoop, Succeeded, Planning, InstalledAt
  <2>1. \A k \in Planning : files[InstalledAt(k).path] = InstalledAt(k).text
    BY DEF AgentInv, FilesAreThere
  <2>2. ASSUME NEW p \in McpPaths PROVE files[p].is = "servers" /\ Upsert(files[p]) = files[p]
    <3>1. PICK j \in 1..2 : p = Mcp(McpConfigs[j])
      BY McpPathsAre
    <3>2. files[p] = Upsert(install.before[p])
      BY <3>1 DEF AgentInv, ConfigsAreKept, Registered
    <3> QED
      BY <3>2, UpsertAgain
  <2> QED
    BY <2>1, <2>2
<1>3. DryRunTells
  BY DEF AgentInv, ToldSoFar, DryWritesNothing, DryRunTells
<1> QED
  BY <1>1, <1>2, <1>3 DEF InstallIsWhole

\* However installs of any mode, layout and version fail or are killed, and
\* whatever the user does to the MCP configurations in between, an
\* instruction in the repository names skills that are there, a finished
\* install has nothing left to change, other servers stay, and a dry run
\* writes nothing and tells what would be written (agent.go, agentskill.go).
THEOREM InstallsAreWhole == AgentSpec => []InstallIsWhole
<1>1. AgentInit => AgentInv
  BY InitHasInv
<1>2. AgentInv /\ [AgentNext]_agentVars => AgentInv'
  BY StepKeepsAgentInv
<1>3. AgentInv => InstallIsWhole
  BY InvMakesWhole
<1> QED
  BY <1>1, <1>2, <1>3, PTL DEF AgentSpec
=============================================================================
