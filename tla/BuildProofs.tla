---------------------------- MODULE BuildProofs ----------------------------
(***************************************************************************)
(* Proofs about runs of `azldev component build`, for any components,      *)
(* packages, channels and command lines, and any number of runs.  The      *)
(* invariant says where a run is (Progress), what lies in the output       *)
(* directory by then (Outputs), that metadata and files agree as long as   *)
(* nothing failed (Repository), and whose the chroots are (ReleaseChroot   *)
(* and SharedChroot).                                                      *)
(***************************************************************************)
EXTENDS Build, TLAPS

InMock == {"rpm", "copy", "place", "publish"}

Progress ==
  /\ run.pc # "idle" \/ run.scrubbed => run.n > 0
  /\ run.n > 0 => run.opts \in Options
  /\ run.n = 0 => run.results = {}
  /\ run.scrubbed => run.pc = "idle"
  /\ run.pc \notin {"idle", "next", "end"} =>
       run.comp \in Components /\ run.comp \notin run.todo /\ run.comp \notin run.results
  /\ run.results \cap run.todo = {}
  /\ run.pc \in InMock => ~run.opts.srpmOnly
  /\ ~run.ok => run.err \/ run.pc \in {"close", "failed"}
  /\ run.pc \in InMock \cup {"prep", "srpm", "done"} => run.ok
  /\ run.pc = "failed" => ~run.ok

(* The RPMs of c are this run's, in their place and nowhere else. *)
Placed(c) == \A r \in RpmsOf(c) : /\ out[r][PlaceOf(r)] = run.n
                                 /\ \A p \in Places \ {PlaceOf(r)} : out[r][p] = 0

Outputs ==
  /\ \A r \in Rpms : \A p \in Places \ {"rpms", PlaceOf(r)} : out[r][p] = 0
  /\ run.pc = "place" => \A r \in RpmsOf(run.comp) : out[r]["rpms"] = run.n
  /\ run.pc = "publish" => Placed(run.comp)
  /\ run.pc \in {"close", "done"} /\ run.ok /\ ~run.opts.srpmOnly => Placed(run.comp)
  /\ run.n > 0 /\ ~run.opts.srpmOnly => \A c \in run.results : Placed(c)

Repository ==
  /\ ChainSeesEarlier
  /\ run.n > 0 /\ ~run.err /\ run.ok /\ run.built # {} => repo.meta = repo.files

ReleaseChroot ==
  /\ proc = "ready" => prov # 0
  /\ prov <= run.n
  /\ run.pc # "idle" /\ proc \in {"none", "new"} => prov # run.n
  /\ run.pc = "idle" /\ run.scrubbed => prov # run.n

SharedChroot ==
  /\ run.pc \in InMock \/ (run.pc = "close" /\ run.ok) => root = run.comp
  /\ run.pc = "done" => (root # None <=> run.opts.policy = "always")
  /\ (run.pc = "end" \/ run.scrubbed) /\ ~run.err
       => (root # None <=> run.opts.policy = "always")
  /\ run.n > 0 /\ run.opts.policy = "on-failure" /\ ~run.opts.keepGoing /\ kept # {}
       => run.pc \in {"failed", "end", "idle"} /\ root \in kept

IInv == TypeOK /\ Progress /\ Outputs /\ Repository /\ ReleaseChroot /\ SharedChroot

LEMMA InitHolds == Init => IInv
  <1> SUFFICES ASSUME Init PROVE IInv
    OBVIOUS
  <1> USE BuildAssumption
  <1>1. run \in Runs
    BY DEF Init, NoRun, Runs, Points
  <1>2. repo \in [files : [Rpms -> Version], meta : [Rpms -> Version] \cup {None}]
    BY DEF Init, Version
  <1>3. out \in [Rpms -> [Places -> Version]]
    BY DEF Init, Version
  <1>4. TypeOK
    <2>1. prov \in Version /\ kept \subseteq Components
      BY DEF Init, Version
    <2>3. cancelled \in BOOLEAN
      BY DEF Init
    <2>2. root \in Components \cup {None} /\ proc \in {"none", "new", "ready", "failed"}
      BY DEF Init
    <2> QED
      BY <1>1, <1>2, <1>3, <2>1, <2>2, <2>3 DEF TypeOK
  <1>5. Progress /\ Outputs
    BY DEF Init, NoRun, Progress, InMock, Outputs, Placed
  <1>6. Repository /\ ReleaseChroot /\ SharedChroot
    BY DEF Init, NoRun, Repository, ChainSeesEarlier, ReleaseChroot, SharedChroot, InMock
  <1> QED
    BY <1>4, <1>5, <1>6 DEF IInv

-----------------------------------------------------------------------------
(* What the steps do to the record of the run, field by field              *)

Rest == <<run.n, run.opts, run.comp, run.todo, run.built, run.results, run.err, run.scrubbed>>

LEMMA RunTypes == ASSUME TypeOK
                  PROVE  /\ run.n \in Nat /\ run.pc \in Points
                         /\ run.comp \in Components \cup {None} /\ run.todo \subseteq Components
                         /\ run.built \subseteq Components /\ run.results \subseteq Components
                         /\ run.ok \in BOOLEAN /\ run.err \in BOOLEAN /\ run.scrubbed \in BOOLEAN
                         /\ prov \in Nat /\ run.n <= MaxRuns
  BY BuildAssumption DEF TypeOK, Runs, Version

LEMMA GotoFields == ASSUME TypeOK, NEW pc \in Points, Goto(pc)
                    PROVE  run' \in Runs /\ run'.pc = pc /\ run'.ok = run.ok /\ UNCHANGED Rest
  BY DEF TypeOK, Runs, Goto, Rest

LEMMA GiveUpFields == ASSUME TypeOK, GiveUp
                      PROVE  run' \in Runs /\ run'.pc = "close" /\ run'.ok = FALSE /\ UNCHANGED Rest
  BY DEF TypeOK, Runs, Points, GiveUp, Rest

(* A run starts with nothing built. *)
LEMMA StartKeeps == ASSUME IInv, NEW o \in Options, NEW cs \in SUBSET Components, Start(o, cs) PROVE IInv'
  <1> USE BuildAssumption, RunTypes DEF IInv
  <1>1. /\ run' \in Runs /\ run'.n = run.n + 1 /\ run'.n > 0
        /\ run'.pc = "next" /\ run'.opts = o /\ run'.todo = cs /\ run'.comp = None
        /\ run'.ok = TRUE /\ run'.err = FALSE /\ run'.built = {} /\ run'.results = {}
        /\ run'.scrubbed = FALSE
    <2>1. run.n + 1 \in 0..MaxRuns /\ run.n + 1 > 0
      BY DEF Start
    <2>2. run' = [n |-> run.n + 1, pc |-> "next", opts |-> o, todo |-> cs, comp |-> None,
                  ok |-> TRUE, err |-> FALSE, built |-> {}, results |-> {}, scrubbed |-> FALSE]
      BY DEF Start, NoRun
    <2> QED
      BY <2>1, <2>2 DEF Runs, Points
  <1>2. repo' \in [files : [Rpms -> Version], meta : [Rpms -> Version] \cup {None}]
    BY DEF Start, EnsureRepoInitialized, Index, TypeOK
  <1>3. TypeOK'
    BY <1>1, <1>2 DEF Start, Rest, TypeOK, Version, Progress, InMock
  <1>4. Progress'
    BY <1>1, <1>2 DEF Start, Rest, Progress, InMock
  <1>5. Outputs'
    BY <1>1, <1>2 DEF Start, Rest, TypeOK, Progress, InMock, Outputs, Placed, RpmsOf
  <1>6. Repository'
    BY <1>1, <1>2 DEF Start, Rest, TypeOK, Progress, InMock, Outputs, Placed, RpmsOf, Repository, ChainSeesEarlier
  <1>7. ReleaseChroot'
    BY <1>1, <1>2 DEF Start, Rest, TypeOK, Version, Progress, InMock, ReleaseChroot
  <1>8. SharedChroot'
    BY <1>1, <1>2 DEF Start, Rest, TypeOK, Progress, InMock, SharedChroot
  <1> QED
    BY <1>3, <1>4, <1>5, <1>6, <1>7, <1>8

(* The next component. *)
LEMMA BeginKeeps == ASSUME IInv, NEW c \in Components, Begin(c) PROVE IInv'
  <1> USE BuildAssumption, RunTypes DEF IInv
  <1>1. PICK pc \in {"prep", "failed"} :
          run' = [run EXCEPT !.pc = pc, !.comp = c, !.ok = (pc = "prep"), !.todo = @ \ {c}]
    BY DEF Begin
  <1>2. /\ run' \in Runs /\ run'.pc = pc /\ run'.comp = c /\ run'.ok = (pc = "prep")
        /\ run'.todo = run.todo \ {c}
        /\ UNCHANGED <<run.n, run.opts, run.built, run.results, run.err, run.scrubbed>>
    BY <1>1 DEF TypeOK, Runs, Points
  <1>3. TypeOK'
    BY <1>1, <1>2 DEF Begin, Rest, TypeOK, Version, Progress, InMock
  <1>4. Progress'
    BY <1>1, <1>2 DEF Begin, Rest, Progress, InMock
  <1>5. Outputs'
    BY <1>1, <1>2 DEF Begin, Rest, TypeOK, Progress, InMock, Outputs, Placed, RpmsOf
  <1>6. Repository'
    BY <1>1, <1>2 DEF Begin, Rest, TypeOK, Progress, InMock, Outputs, Placed, RpmsOf, Repository, ChainSeesEarlier
  <1>7. ReleaseChroot'
    BY <1>1, <1>2 DEF Begin, Rest, TypeOK, Version, Progress, InMock, ReleaseChroot
  <1>8. SharedChroot'
    BY <1>1, <1>2 DEF Begin, Rest, TypeOK, Progress, InMock, SharedChroot
  <1> QED
    BY <1>3, <1>4, <1>5, <1>6, <1>7, <1>8

(* The chroot for release numbers is set up. *)
LEMMA PrepSourcesKeeps == ASSUME IInv, PrepSources PROVE IInv'
  <1> USE BuildAssumption, RunTypes DEF IInv
  <1>1. /\ run' \in Runs /\ UNCHANGED Rest
        /\ \/ run'.pc = "srpm" /\ run'.ok = run.ok
           \/ run'.pc = "close" /\ run'.ok = FALSE
    BY GotoFields, GiveUpFields DEF PrepSources, Points
  <1>2. \/ UNCHANGED <<proc, prov>>
        \/ /\ proc = "new" /\ proc' \in {"ready", "failed"} /\ prov' \in {prov, run.n}
           /\ proc' = "ready" => prov' = run.n
    BY DEF PrepSources, SetUp, InitRoot, InstallPackages
  <1>3. TypeOK'
    BY <1>1, <1>2 DEF PrepSources, Rest, TypeOK, Version, Progress, InMock
  <1>4. Progress'
    BY <1>1, <1>2 DEF PrepSources, Rest, Progress, InMock
  <1>5. Outputs'
    BY <1>1, <1>2 DEF PrepSources, Rest, TypeOK, Progress, InMock, Outputs, Placed, RpmsOf
  <1>6. Repository'
    BY <1>1, <1>2 DEF PrepSources, Rest, TypeOK, Progress, InMock, Outputs, Placed, RpmsOf, Repository, ChainSeesEarlier
  <1>7. ReleaseChroot'
    BY <1>1, <1>2 DEF PrepSources, Rest, TypeOK, Version, Progress, InMock, ReleaseChroot
  <1>8. SharedChroot'
    BY <1>1, <1>2 DEF PrepSources, Rest, TypeOK, Progress, InMock, SharedChroot
  <1> QED
    BY <1>3, <1>4, <1>5, <1>6, <1>7, <1>8

(* Mock makes the shared chroot anew. *)
LEMMA BuildSRPMKeeps == ASSUME IInv, BuildSRPM PROVE IInv'
  <1> USE BuildAssumption, RunTypes DEF IInv
  <1>1. /\ run' \in Runs /\ UNCHANGED Rest
        /\ \/ run'.pc = (IF run.opts.srpmOnly THEN "close" ELSE "rpm") /\ run'.ok = run.ok
              /\ root' = run.comp
           \/ run'.pc = "close" /\ run'.ok = FALSE
    BY GotoFields, GiveUpFields DEF BuildSRPM, MockBuild, Points
  <1>2. root' \in {root, run.comp}
    BY DEF BuildSRPM, MockBuild
  <1>3. TypeOK'
    BY <1>1, <1>2 DEF BuildSRPM, Rest, TypeOK, Version, Progress, InMock
  <1>4. Progress'
    BY <1>1, <1>2 DEF BuildSRPM, Rest, Progress, InMock
  <1>5. Outputs'
    BY <1>1, <1>2 DEF BuildSRPM, Rest, TypeOK, Progress, InMock, Outputs, Placed, RpmsOf
  <1>6. Repository'
    BY <1>1, <1>2 DEF BuildSRPM, Rest, TypeOK, Progress, InMock, Outputs, Placed, RpmsOf, Repository, ChainSeesEarlier
  <1>7. ReleaseChroot'
    BY <1>1, <1>2 DEF BuildSRPM, Rest, TypeOK, Version, Progress, InMock, ReleaseChroot
  <1>8. SharedChroot'
    BY <1>1, <1>2 DEF BuildSRPM, Rest, TypeOK, Progress, InMock, SharedChroot
  <1> QED
    BY <1>3, <1>4, <1>5, <1>6, <1>7, <1>8

(* Mock makes the shared chroot anew. *)
LEMMA BuildRPMKeeps == ASSUME IInv, BuildRPM PROVE IInv'
  <1> USE BuildAssumption, RunTypes DEF IInv
  <1>1. /\ run' \in Runs /\ UNCHANGED Rest
        /\ \/ run'.pc = "copy" /\ run'.ok = run.ok /\ root' = run.comp
           \/ run'.pc = "close" /\ run'.ok = FALSE
    BY GotoFields, GiveUpFields DEF BuildRPM, MockBuild, Points
  <1>2. root' \in {root, run.comp}
    BY DEF BuildRPM, MockBuild
  <1>3. TypeOK'
    BY <1>1, <1>2 DEF BuildRPM, Rest, TypeOK, Version, Progress, InMock
  <1>4. Progress'
    BY <1>1, <1>2 DEF BuildRPM, Rest, Progress, InMock
  <1>5. Outputs'
    BY <1>1, <1>2 DEF BuildRPM, Rest, TypeOK, Progress, InMock, Outputs, Placed, RpmsOf
  <1>6. Repository'
    BY <1>1, <1>2 DEF BuildRPM, Rest, TypeOK, Progress, InMock, Outputs, Placed, RpmsOf, Repository, ChainSeesEarlier
  <1>7. ReleaseChroot'
    BY <1>1, <1>2 DEF BuildRPM, Rest, TypeOK, Version, Progress, InMock, ReleaseChroot
  <1>8. SharedChroot'
    BY <1>1, <1>2 DEF BuildRPM, Rest, TypeOK, Progress, InMock, SharedChroot
  <1> QED
    BY <1>3, <1>4, <1>5, <1>6, <1>7, <1>8

(* Copies to rpms/. *)
LEMMA CopyRPMsKeeps == ASSUME IInv, NEW done \in SUBSET RpmsOf(run.comp), CopyRPMs(done) PROVE IInv'
  <1> USE BuildAssumption, RunTypes DEF IInv
  <1>1. /\ run' \in Runs /\ UNCHANGED Rest
        /\ \/ run'.pc = "place" /\ run'.ok = run.ok /\ done = RpmsOf(run.comp)
           \/ run'.pc = "close" /\ run'.ok = FALSE
    BY GotoFields, GiveUpFields DEF CopyRPMs, Through, Points
  <1>2. /\ out' \in [Rpms -> [Places -> Version]]
        /\ \A r \in Rpms : \A p \in Places :
             out'[r][p] = IF r \in done /\ p = "rpms" THEN run.n ELSE out[r][p]
    <2>1. run.n \in Version /\ "rpms" \in Places
      BY DEF TypeOK, Runs, Version, Places
    <2>2. out' = [r \in Rpms |-> IF r \in done THEN [out[r] EXCEPT !["rpms"] = run.n] ELSE out[r]]
      BY DEF CopyRPMs
    <2> QED
      BY <2>1, <2>2 DEF TypeOK
  <1>3. TypeOK'
    BY <1>1, <1>2 DEF CopyRPMs, Rest, TypeOK, Version, Progress, InMock
  <1>4. Progress'
    BY <1>1, <1>2 DEF CopyRPMs, Rest, Progress, InMock
  <1>5. Outputs'
    BY <1>1, <1>2 DEF CopyRPMs, Rest, TypeOK, Progress, InMock, Outputs, Placed, RpmsOf
  <1>6. Repository'
    BY <1>1, <1>2 DEF CopyRPMs, Rest, TypeOK, Progress, InMock, Outputs, Placed, RpmsOf, Repository, ChainSeesEarlier
  <1>7. ReleaseChroot'
    BY <1>1, <1>2 DEF CopyRPMs, Rest, TypeOK, Version, Progress, InMock, ReleaseChroot
  <1>8. SharedChroot'
    BY <1>1, <1>2 DEF CopyRPMs, Rest, TypeOK, Progress, InMock, SharedChroot
  <1> QED
    BY <1>3, <1>4, <1>5, <1>6, <1>7, <1>8

(* Renames into the channels. *)
LEMMA PlaceRPMsKeeps == ASSUME IInv, NEW done \in SUBSET RpmsOf(run.comp), PlaceRPMs(done) PROVE IInv'
  <1> USE BuildAssumption, RunTypes DEF IInv
  <1>1. /\ run' \in Runs /\ UNCHANGED Rest
        /\ \/ run'.pc = (IF run.opts.publish THEN "publish" ELSE "close") /\ run'.ok = run.ok
              /\ done = RpmsOf(run.comp)
           \/ run'.pc = "close" /\ run'.ok = FALSE
    BY GotoFields, GiveUpFields DEF PlaceRPMs, Through, Points
  <1>2. /\ out' \in [Rpms -> [Places -> Version]]
        /\ \A r \in Rpms : \A p \in Places :
             out'[r][p] = IF r \in done /\ Channel[r] # None
                          THEN IF p = Channel[r] THEN out[r]["rpms"]
                               ELSE IF p = "rpms" THEN 0 ELSE out[r][p]
                          ELSE out[r][p]
    <2>1. 0 \in Version /\ "rpms" \in Places
      BY DEF Version, Places
    <2>2. \A r \in Rpms : Channel[r] # None => Channel[r] \in Places /\ PlaceOf(r) = Channel[r]
      BY DEF Places, PlaceOf
    <2>3. out' = [r \in Rpms |-> IF r \in done /\ Channel[r] # None
                                 THEN [out[r] EXCEPT !["rpms"] = 0, ![Channel[r]] = out[r]["rpms"]]
                                 ELSE out[r]]
      BY DEF PlaceRPMs
    <2>4. \A r \in Rpms : out[r] \in [Places -> Version]
      BY DEF TypeOK
    <2> QED
      BY <2>1, <2>2, <2>3, <2>4
  <1>3. \A r \in Rpms : /\ PlaceOf(r) \in Places
                       /\ PlaceOf(r) = IF Channel[r] = None THEN "rpms" ELSE Channel[r]
    BY DEF Places, PlaceOf
  <1>4. TypeOK'
    BY <1>1, <1>2, <1>3 DEF PlaceRPMs, Rest, TypeOK, Version, Progress, InMock
  <1>5. Progress'
    BY <1>1, <1>2, <1>3 DEF PlaceRPMs, Rest, Progress, InMock
  <1>6. Outputs'
    BY <1>1, <1>2, <1>3 DEF PlaceRPMs, Rest, TypeOK, Progress, InMock, Outputs, Placed, RpmsOf
  <1>7. Repository'
    BY <1>1, <1>2, <1>3 DEF PlaceRPMs, Rest, TypeOK, Progress, InMock, Outputs, Placed, RpmsOf, Repository, ChainSeesEarlier
  <1>8. ReleaseChroot'
    BY <1>1, <1>2, <1>3 DEF PlaceRPMs, Rest, TypeOK, Version, Progress, InMock, ReleaseChroot
  <1>9. SharedChroot'
    BY <1>1, <1>2, <1>3 DEF PlaceRPMs, Rest, TypeOK, Progress, InMock, SharedChroot
  <1> QED
    BY <1>4, <1>5, <1>6, <1>7, <1>8, <1>9

(* Publication. *)
LEMMA PublishRPMsKeeps == ASSUME IInv, NEW done \in SUBSET RpmsOf(run.comp), PublishRPMs(done) PROVE IInv'
  <1> USE BuildAssumption, RunTypes DEF IInv
  <1> DEFINE files == [r \in Rpms |-> IF r \in done THEN out[r][PlaceOf(r)] ELSE repo.files[r]]
             built == run.pc = "publish" /\ run'.pc = "close" /\ run'.ok = run.ok
  <1>1. /\ run' \in Runs
        /\ UNCHANGED <<run.n, run.opts, run.comp, run.todo, run.results, run.err, run.scrubbed>>
        /\ \/ built /\ run'.built = run.built /\ UNCHANGED repo
           \/ /\ built /\ run'.built = run.built \cup {run.comp} /\ done = RpmsOf(run.comp)
              /\ repo' = [files |-> files, meta |-> files]
           \/ /\ run'.pc = "close" /\ run'.ok = FALSE /\ run'.built = run.built
              /\ repo' = [repo EXCEPT !.files = files]
    <2>1. CASE Goto("close") /\ UNCHANGED repo
      BY <2>1, GotoFields DEF PublishRPMs, Points, Rest
    <2>2. CASE GiveUp /\ repo' = [repo EXCEPT !.files = files]
      BY <2>2, GiveUpFields DEF PublishRPMs, Rest
    <2>3. CASE /\ run' = [run EXCEPT !.pc = "close", !.built = @ \cup {run.comp}]
               /\ done = RpmsOf(run.comp) /\ repo' = [files |-> files, meta |-> files]
      BY <2>3 DEF PublishRPMs, TypeOK, Runs, Points, Progress, InMock
    <2> QED
      BY <2>1, <2>2, <2>3 DEF PublishRPMs, Index
  <1>2. files \in [Rpms -> Version]
    <2>1. \A r \in Rpms : PlaceOf(r) \in Places
      BY DEF Places, PlaceOf
    <2> QED
      BY <2>1 DEF TypeOK
  <1>3. run.pc = "publish" /\ \A r \in RpmsOf(run.comp) : files[r] = IF r \in done THEN run.n ELSE repo.files[r]
    BY DEF PublishRPMs, Outputs, Placed, RpmsOf
  <1>4. repo' \in [files : [Rpms -> Version], meta : [Rpms -> Version] \cup {None}]
    <2>1. CASE UNCHANGED repo
      BY <2>1 DEF TypeOK
    <2>2. CASE repo' = [files |-> files, meta |-> files]
      BY <1>2, <2>2
    <2>3. CASE repo' = [repo EXCEPT !.files = files]
      BY <1>2, <2>3 DEF TypeOK
    <2> QED
      BY <1>1, <2>1, <2>2, <2>3
  <1>5. TypeOK'
    BY <1>1, <1>2, <1>3, <1>4 DEF PublishRPMs, Rest, TypeOK, Version, Progress, InMock
  <1>6. Progress'
    BY <1>1, <1>2, <1>3, <1>4 DEF PublishRPMs, Rest, Progress, InMock
  <1>7. Outputs'
    BY <1>1, <1>2, <1>3, <1>4 DEF PublishRPMs, Rest, TypeOK, Progress, InMock, Outputs, Placed, RpmsOf
  <1>8. Repository'
    <2>1. CASE UNCHANGED repo /\ run'.built = run.built /\ run'.ok = run.ok
      BY <1>1, <2>1 DEF Repository, ChainSeesEarlier
    <2>2. CASE repo' = [files |-> files, meta |-> files] /\ run'.built = run.built \cup {run.comp}
               /\ done = RpmsOf(run.comp)
      <3>1. repo'.meta = files /\ repo'.files = files /\ files # None
        BY <2>2, <1>2 DEF Version
      <3>2. \A r \in Rpms : Owner[r] \in run'.built => files[r] = run.n
        BY <1>3, <2>2 DEF Repository, ChainSeesEarlier, RpmsOf
      <3> QED
        BY <1>1, <3>1, <3>2 DEF Repository, ChainSeesEarlier
    <2>3. CASE repo' = [repo EXCEPT !.files = files] /\ run'.ok = FALSE /\ run'.built = run.built
      <3>1. repo'.meta = repo.meta /\ repo'.files = files
        BY <2>3 DEF TypeOK
      <3>2. \A r \in Rpms : Owner[r] \in run.built => files[r] = run.n
        BY <1>3 DEF Repository, ChainSeesEarlier, RpmsOf
      <3> QED
        BY <1>1, <2>3, <3>1, <3>2 DEF Repository, ChainSeesEarlier
    <2> QED
      BY <1>1, <2>1, <2>2, <2>3
  <1>9. ReleaseChroot'
    BY <1>1, <1>2, <1>3, <1>4 DEF PublishRPMs, Rest, TypeOK, Version, Progress, InMock, ReleaseChroot
  <1>10. SharedChroot'
    BY <1>1, <1>2, <1>3, <1>4 DEF PublishRPMs, Rest, TypeOK, Progress, InMock, SharedChroot
  <1> QED
    BY <1>5, <1>6, <1>7, <1>8, <1>9, <1>10

(* The end of a component. *)
LEMMA CloseKeeps == ASSUME IInv, Close PROVE IInv'
  <1> USE BuildAssumption, RunTypes DEF IInv
  <1>1. run' \in Runs /\ UNCHANGED Rest /\ run.pc = "close"
        /\ \/ run'.pc = "done" /\ run'.ok = TRUE /\ run.ok = TRUE
           \/ run'.pc = "failed" /\ run'.ok = FALSE
    <2>1. CASE Goto(IF run.ok THEN "done" ELSE "failed")
      BY <2>1, GotoFields DEF Close, Points
    <2>2. CASE run' = [run EXCEPT !.pc = "failed", !.ok = FALSE]
      BY <2>2 DEF Close, TypeOK, Runs, Points, Rest
    <2> QED
      BY <2>1, <2>2 DEF Close
  <1>2. /\ run'.pc = "done" => root' = IF run.opts.policy = "always" THEN root ELSE None
        /\ root' \in {root, None} /\ kept' \subseteq Components
    <2>1. run'.pc = "done" => /\ run.opts.policy \in {"on-failure", "always", "never"}
                              /\ run.ok = TRUE /\ run' # [run EXCEPT !.pc = "failed", !.ok = FALSE]
      BY <1>1 DEF Progress, TypeOK, Runs
    <2>2. root' \in {root, None} /\ kept' \subseteq Components
      BY DEF Close, Destroy, TypeOK, Progress
    <2>3. run'.pc = "done" => \/ run.opts.policy = "always" /\ root' = root
                              \/ run.opts.policy # "always" /\ root' = None
      BY <2>1 DEF Close, Preserve, Destroy
    <2> QED
      BY <2>2, <2>3
  <1>3. TypeOK'
    BY <1>1, <1>2 DEF Close, Rest, TypeOK, Version, Progress, InMock
  <1>4. Progress'
    BY <1>1, <1>2 DEF Close, Rest, Progress, InMock
  <1>5. Outputs'
    BY <1>1, <1>2 DEF Close, Rest, TypeOK, Progress, InMock, Outputs, Placed, RpmsOf
  <1>6. Repository'
    BY <1>1, <1>2 DEF Close, Rest, TypeOK, Progress, InMock, Outputs, Placed, RpmsOf, Repository, ChainSeesEarlier
  <1>7. ReleaseChroot'
    BY <1>1, <1>2 DEF Close, Rest, TypeOK, Version, Progress, InMock, ReleaseChroot
  <1>8. SharedChroot'
    BY SMTT(30), <1>1, <1>2 DEF Close, Rest, TypeOK, Progress, InMock, SharedChroot
  <1> QED
    BY <1>3, <1>4, <1>5, <1>6, <1>7, <1>8

(* The loop goes on or ends. *)
LEMMA RecordKeeps == ASSUME IInv, Record PROVE IInv'
  <1> USE BuildAssumption, RunTypes DEF IInv
  <1>1. /\ run' \in Runs /\ UNCHANGED <<run.n, run.opts, run.todo, run.ok, run.built, run.scrubbed>>
        /\ run'.comp = None
        /\ run'.err <=> run.err \/ run.pc = "failed"
        /\ \/ run'.pc = "end"
           \/ run'.pc = "next" /\ (run.opts.keepGoing \/ ~run'.err)
        /\ run'.results = IF run.pc = "done" THEN run.results \cup {run.comp} ELSE run.results
    BY ZenonT(40) DEF Record, TypeOK, Runs, Points, Progress
  <1>2. TypeOK'
    BY <1>1 DEF Record, TypeOK, Version, Progress, InMock
  <1>3. Progress'
    BY <1>1 DEF Record, Progress, InMock
  <1>4. Outputs'
    BY <1>1 DEF Record, TypeOK, Progress, InMock, Outputs, Placed, RpmsOf
  <1>5. Repository'
    BY <1>1 DEF Record, TypeOK, Progress, InMock, Outputs, Placed, RpmsOf, Repository, ChainSeesEarlier
  <1>6. ReleaseChroot'
    BY <1>1 DEF Record, TypeOK, Version, Progress, InMock, ReleaseChroot
  <1>7. SharedChroot'
    <2>1. run.pc = "done" \/ run.pc = "failed"
      BY DEF Record
    <2>2. UNCHANGED <<root, kept>>
      BY DEF Record
    <2>3. (run'.pc = "end" /\ ~run'.err) => (root # None <=> run.opts.policy = "always")
      BY <1>1, <2>1 DEF SharedChroot
    <2>4. run.opts.policy = "on-failure" /\ ~run.opts.keepGoing /\ kept # {} /\ run.n > 0
            => run'.pc = "end" /\ root \in kept
      <3> SUFFICES ASSUME run.opts.policy = "on-failure", ~run.opts.keepGoing, kept # {}, run.n > 0
                   PROVE  run'.pc = "end" /\ root \in kept
        OBVIOUS
      <3>1. run.pc = "failed" /\ root \in kept
        BY <2>1 DEF SharedChroot
      <3> QED
        BY <1>1, <3>1
    <2> QED
      BY <1>1, <2>2, <2>3, <2>4 DEF SharedChroot, InMock
  <1> QED
    BY <1>2, <1>3, <1>4, <1>5, <1>6, <1>7

(* The end of a run. *)
LEMMA EndKeeps == ASSUME IInv, NEW works \in BOOLEAN, End(works) PROVE IInv'
  <1> USE BuildAssumption, RunTypes DEF IInv
  <1>1. /\ run' \in Runs /\ run'.pc = "idle" /\ run'.scrubbed = works
        /\ UNCHANGED <<run.n, run.opts, run.comp, run.todo, run.built, run.results, run.ok, run.err>>
    BY DEF End, TypeOK, Runs, Points
  <1>2. TypeOK'
    BY <1>1 DEF End, Scrub, TypeOK, Version, Progress, InMock
  <1>3. Progress'
    BY <1>1 DEF End, Scrub, Progress, InMock
  <1>4. Outputs'
    BY <1>1 DEF End, Scrub, TypeOK, Progress, InMock, Outputs, Placed, RpmsOf
  <1>5. Repository'
    BY <1>1 DEF End, Scrub, TypeOK, Progress, InMock, Outputs, Placed, RpmsOf, Repository, ChainSeesEarlier
  <1>6. ReleaseChroot'
    BY <1>1 DEF End, Scrub, TypeOK, Version, Progress, InMock, ReleaseChroot
  <1>7. SharedChroot'
    BY <1>1 DEF End, Scrub, TypeOK, Progress, InMock, SharedChroot
  <1> QED
    BY <1>2, <1>3, <1>4, <1>5, <1>6, <1>7

(* Ctrl-C. *)
LEMMA CancelKeeps == ASSUME IInv, Cancel PROVE IInv'
  <1> USE BuildAssumption, RunTypes DEF IInv
  <1>1. TypeOK'
    BY DEF Cancel, TypeOK, Version, Progress, InMock
  <1>2. Progress'
    BY DEF Cancel, Progress, InMock
  <1>3. Outputs'
    BY DEF Cancel, TypeOK, Progress, InMock, Outputs, Placed, RpmsOf
  <1>4. Repository'
    BY DEF Cancel, TypeOK, Progress, InMock, Outputs, Placed, RpmsOf, Repository, ChainSeesEarlier
  <1>5. ReleaseChroot'
    BY DEF Cancel, TypeOK, Version, Progress, InMock, ReleaseChroot
  <1>6. SharedChroot'
    BY DEF Cancel, TypeOK, Progress, InMock, SharedChroot
  <1> QED
    BY <1>1, <1>2, <1>3, <1>4, <1>5, <1>6

(* A kill. *)
LEMMA KillKeeps == ASSUME IInv, Kill PROVE IInv'
  <1> USE BuildAssumption, RunTypes DEF IInv
  <1>1. /\ run' \in Runs /\ run'.pc = "idle" /\ run'.err = TRUE /\ run'.comp = None /\ run'.todo = {}
        /\ UNCHANGED <<run.n, run.opts, run.built, run.results, run.ok, run.scrubbed>>
    BY DEF Kill, TypeOK, Runs, Points
  <1>2. TypeOK'
    BY <1>1 DEF Kill, TypeOK, Version, Progress, InMock
  <1>3. Progress'
    BY <1>1 DEF Kill, Progress, InMock
  <1>4. Outputs'
    BY <1>1 DEF Kill, TypeOK, Progress, InMock, Outputs, Placed, RpmsOf
  <1>5. Repository'
    BY <1>1 DEF Kill, TypeOK, Progress, InMock, Outputs, Placed, RpmsOf, Repository, ChainSeesEarlier
  <1>6. ReleaseChroot'
    BY <1>1 DEF Kill, TypeOK, Version, Progress, InMock, ReleaseChroot
  <1>7. SharedChroot'
    BY <1>1 DEF Kill, TypeOK, Progress, InMock, SharedChroot
  <1> QED
    BY <1>2, <1>3, <1>4, <1>5, <1>6, <1>7

-----------------------------------------------------------------------------
(* The theorems                                                            *)

LEMMA StepKeeps == IInv /\ [Next]_vars => IInv'
  <1> SUFFICES ASSUME IInv, [Next]_vars PROVE IInv'
    OBVIOUS
  <1>1. CASE \E o \in Options, cs \in SUBSET Components : Start(o, cs)
    BY <1>1, StartKeeps
  <1>2. CASE \E c \in Components : Begin(c)
    BY <1>2, BeginKeeps
  <1>3. CASE PrepSources \/ BuildSRPM \/ BuildRPM
    BY <1>3, PrepSourcesKeeps, BuildSRPMKeeps, BuildRPMKeeps
  <1>4. CASE \E done \in SUBSET RpmsOf(run.comp) : CopyRPMs(done) \/ PlaceRPMs(done) \/ PublishRPMs(done)
    BY <1>4, CopyRPMsKeeps, PlaceRPMsKeeps, PublishRPMsKeeps
  <1>5. CASE Close \/ Record
    BY <1>5, CloseKeeps, RecordKeeps
  <1>6. CASE \E works \in BOOLEAN : End(works)
    BY <1>6, EndKeeps
  <1>7. CASE Cancel \/ Kill
    BY <1>7, CancelKeeps, KillKeeps
  <1>8. CASE UNCHANGED vars
    BY <1>8 DEF vars, IInv, TypeOK, Progress, Outputs, Placed, Repository, ChainSeesEarlier,
                ReleaseChroot, SharedChroot, InMock
  <1> QED
    BY <1>1, <1>2, <1>3, <1>4, <1>5, <1>6, <1>7, <1>8 DEF Next, Step

LEMMA Invariant == Spec => []IInv
  BY InitHolds, StepKeeps, PTL DEF Spec

(* The record of the run, the directories and the chroots keep their types. *)
THEOREM TypeCorrect == Spec => []TypeOK
  BY Invariant, PTL DEF IInv

(* A later build of a chain finds this run's build of every component      *)
(* published before it (ChainSeesEarlier; PublishRPMs in localrepo.go).    *)
THEOREM ChainsSeeEarlierBuilds == Spec => []ChainSeesEarlier
  <1>1. IInv => ChainSeesEarlier
    BY DEF IInv, Repository
  <1> QED
    BY <1>1, Invariant, PTL

(* A run that exits 0 after it published something leaves metadata that    *)
(* describes every file of the repository.                                 *)
THEOREM CleanRunsLeaveTrueIndexes == Spec => []CleanRunLeavesTrueIndex
  <1>1. IInv => CleanRunLeavesTrueIndex
    BY DEF IInv, Progress, Repository, CleanRunLeavesTrueIndex
  <1> QED
    BY <1>1, Invariant, PTL

(* What the results of a run name lies, built by this run, in its channel  *)
(* and nowhere else (ReportIsTrue; resolveAndPlaceRPMs in build.go).       *)
THEOREM ReportsAreTrue == Spec => []ReportIsTrue
  <1>1. IInv => ReportIsTrue
    <2> SUFFICES ASSUME IInv, run.opts # None, ~run.opts.srpmOnly, NEW r \in Rpms,
                        Owner[r] \in run.results
                 PROVE  /\ out[r][PlaceOf(r)] = run.n
                        /\ \A p \in Places \ {PlaceOf(r)} : out[r][p] = 0
      BY DEF ReportIsTrue
    <2>1. run.n > 0
      BY RunTypes DEF IInv, Progress
    <2> QED
      BY <2>1 DEF IInv, Outputs, Placed, RpmsOf
  <1> QED
    BY <1>1, Invariant, PTL

(* The chroot for release numbers is scrubbed after its last use, and not  *)
(* before (ProvenanceChroot; MockProcessor.Destroy).                       *)
THEOREM ReleaseChrootIsScrubbed == Spec => []ProvenanceChroot
  <1>1. IInv => ProvenanceChroot
    BY DEF IInv, ReleaseChroot, ProvenanceChroot
  <1> QED
    BY <1>1, Invariant, PTL

(* What --preserve-buildenv says holds when a run returns (PolicyIsKept;   *)
(* ShouldPreserve in buildenvpreservepolicy.go).                           *)
THEOREM PoliciesAreKept == Spec => []PolicyIsKept
  <1>1. IInv => PolicyIsKept
    BY DEF IInv, Progress, SharedChroot, PolicyIsKept
  <1> QED
    BY <1>1, Invariant, PTL
=============================================================================
