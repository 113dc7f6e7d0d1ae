------------------------ MODULE ComponentUpdateProofs ------------------------
(***************************************************************************)
(* Proofs about ComponentUpdate, for every set of components, resolution   *)
(* inputs, builds and commits and every bound.                             *)
(***************************************************************************)
EXTENDS ComponentUpdate, TLAPS

Kept == {"reuse", "resolved"}

\* What phase the run is in fixes what it may still do and what it has done.
PhaseInv ==
    /\ phase # "idle" => /\ comps \subseteq present
                         /\ opts.bump <=> phase = "bump"
                         /\ exit \in {"running", "aborted"}
    /\ phase = "resolve" => disk = before
    /\ phase = "prune" => ~opts.checkOnly /\ todo \cap present = {}
    /\ phase = "prune" => \A c \in todo : disk[c].file # "missing"
    /\ opts.bump => \A c \in Components : result[c].kind = "none"

\* What the run knows of a component it will save still fits the project.
ResultInv ==
    /\ phase = "save" => \A c \in todo : c \in comps /\ result[c].kind \in Kept
    /\ phase \in {"resolve", "save"} => \A c \in Components :
          /\ result[c].kind \in Kept =>
                /\ result[c].id \in Commits
                /\ cfg[c].type = "upstream" => result[c].commit = result[c].id
                /\ cfg[c].type = "local" => result[c].commit = None
          /\ result[c].kind = "reuse" /\ (phase = "save" => c \in todo) =>
                disk[c].res = cfg[c].res /\ disk[c].commit = result[c].commit

IInv == /\ TypeOK /\ PhaseInv /\ ResultInv
        /\ FailedUntouched /\ WritesNothing /\ SelfConsistent /\ CommitProvenance

-----------------------------------------------------------------------------
(* The records the actions write *)

\* A resolved configuration is upstream with resolution inputs, or local.
LEMMA ConfigType == ASSUME TypeOK, NEW c \in Components
                    PROVE  /\ cfg[c] \in Configs
                           /\ cfg[c].build \in Builds
                           /\ \/ cfg[c].type = "upstream" /\ cfg[c].res \in ResIn
                              \/ cfg[c].type = "local" /\ cfg[c].res = None
BY DEF TypeOK, Configs

\* Resolving yields a commit or a content hash, never the empty string.
LEMMA IdentityType == ASSUME TypeOK, NEW c \in Components PROVE Identity(c) \in Commits
<1>1. tip[c] \in [Sources -> Ids] BY DEF TypeOK
<1> QED BY <1>1, ConfigType DEF Identity, Sources, ResIn, Commits

\* A fingerprint holds what was hashed.
LEMMA FingerprintType ==
    ASSUME NEW k \in Configs, NEW id \in Commits, NEW n \in Nat
    PROVE  /\ Fingerprint(k, id, n) \in Fingerprints
           /\ Fingerprint(k, id, n).bump = n
           /\ Fingerprint(k, id, n).type = k.type
           /\ Fingerprint(k, id, n).id = id
<1>1. k.type \in {"upstream", "local"} /\ k.build \in Builds BY DEF Configs
<1> QED BY <1>1 DEF Fingerprint, Fingerprints

\* The fields of a lock have their types.
LEMMA LockType == ASSUME TypeOK, NEW c \in Components
                  PROVE  /\ disk[c] \in Locks /\ disk[c].bump \in Nat
                         /\ disk[c].commit \in Commits \cup {None}
                         /\ disk[c].import \in Commits \cup {None}
                         /\ disk[c].res \in ResIn \cup {None}
                         /\ disk[c].fp \in Fingerprints \cup {None}
BY DEF TypeOK, Locks

\* The lock an update writes is a lock; it keeps the counter, and its
\* fingerprint is that of the identity and the counter.
LEMMA NewLockType ==
    ASSUME TypeOK, NEW c \in Components, NEW r \in Results, r.id \in Commits
    PROVE  /\ NewLock(c, r) \in Locks
           /\ NewLock(c, r).file = "ok"
           /\ NewLock(c, r).commit = r.commit
           /\ NewLock(c, r).bump = disk[c].bump
           /\ NewLock(c, r).fp = Fingerprint(cfg[c], r.id, disk[c].bump)
           /\ cfg[c].type = "upstream" => NewLock(c, r).res = cfg[c].res
           /\ NewLock(c, r).import \in Commits \cup {None}
           /\ \/ NewLock(c, r).import \in {None, disk[c].import}
              \/ disk[c].import = None /\ NewLock(c, r).import = r.commit
<1>1. r.commit \in Commits \cup {None} BY DEF Results
<1>2. Fingerprint(cfg[c], r.id, disk[c].bump) \in Fingerprints
  BY FingerprintType, ConfigType, LockType
<1> QED BY <1>1, <1>2, ConfigType, LockType DEF NewLock, Locks

\* A bump changes the counter and the fingerprint and nothing else.
LEMMA BumpedLockType ==
    ASSUME TypeOK, NEW c \in Components, Bumpable(c)
    PROVE  LET id == IF cfg[c].type = "upstream" THEN disk[c].commit ELSE Identity(c) IN
           /\ BumpedLock(c) \in Locks
           /\ BumpedLock(c).file = disk[c].file
           /\ BumpedLock(c).commit = disk[c].commit
           /\ BumpedLock(c).import = disk[c].import
           /\ BumpedLock(c).res = disk[c].res
           /\ BumpedLock(c).bump = disk[c].bump + 1
           /\ BumpedLock(c).fp = Fingerprint(cfg[c], id, disk[c].bump + 1)
           /\ id \in Commits
<1> DEFINE id == IF cfg[c].type = "upstream" THEN disk[c].commit ELSE Identity(c)
<1>1. id \in Commits BY LockType, IdentityType DEF Bumpable
<1>2. Fingerprint(cfg[c], id, disk[c].bump + 1) \in Fingerprints
  BY <1>1, FingerprintType, ConfigType, LockType
<1> QED BY <1>1, <1>2, LockType DEF BumpedLock, Locks

Origins == ResIn \cup {None}
NoOrigin == None

\* A lock that is gone or unreadable has no history.
LEMMA NoOriginType == NoOrigin \in Origins
BY DEF NoOrigin, Origins

\* An empty lock record is a lock.
LEMMA BlankType == \A f \in {"ok", "missing", "corrupt"} :
                      /\ Blank(f) \in Locks /\ Blank(f).file = f /\ Blank(f).fp = None
                      /\ Blank(f).commit = None /\ Blank(f).res = None
BY DEF Blank, Locks

\* What the freshness check records: the lock's commit is the identity, and
\* the lock was resolved under the inputs of the configuration.
LEMMA ReuseType ==
    ASSUME TypeOK, NEW c \in Components, NEW f, ~MustResolve(c, f)
    PROVE  /\ Reuse(c) \in Results
           /\ Reuse(c).kind \in {"current", "reuse"}
           /\ Reuse(c).id \in Commits
           /\ Reuse(c).commit = Reuse(c).id
           /\ Reuse(c).commit = disk[c].commit
           /\ cfg[c].type = "upstream" /\ disk[c].res = cfg[c].res
BY LockType DEF Reuse, Results, MustResolve

\* What a worker records: the identity is a commit or a content hash, and it
\* is the commit of an upstream component.
LEMMA ResolvedType ==
    ASSUME TypeOK, NEW c \in Components
    PROVE  /\ Resolved(c) \in Results
           /\ Resolved(c).kind \in {"error", "resolved"}
           /\ Resolved(c).kind = "resolved" =>
                 /\ Resolved(c).id \in Commits
                 /\ cfg[c].type = "upstream" => Resolved(c).commit = Resolved(c).id
                 /\ cfg[c].type = "local" => Resolved(c).commit = None
BY IdentityType, ConfigType DEF Resolved, Results, NoResult

\* The results that carry no identity are results.
LEMMA NoResultType == \A k \in {"none", "error", "skipped"} :
                         NoResult(k) \in Results /\ NoResult(k).kind = k
BY DEF NoResult, Results

\* A noted result differs only in the flag.
LEMMA NotedType ==
    ASSUME TypeOK, NEW c \in Components
    PROVE  /\ Noted(c) \in Results
           /\ Noted(c).kind = result[c].kind
           /\ Noted(c).id = result[c].id /\ Noted(c).commit = result[c].commit
<1>1. result[c] \in Results BY DEF TypeOK
<1>2. Changes(c, result[c]) \in BOOLEAN BY <1>1 DEF Changes, Results
<1> QED BY <1>1, <1>2 DEF Noted, Results

-----------------------------------------------------------------------------
(* The initial state and the environment *)

\* No run has begun; a legacy lock is a lock, consistent with itself.
LEMMA InitInv == Init => IInv
<1> SUFFICES ASSUME Init PROVE IInv OBVIOUS
<1>1. cfg \in [Components -> Configs] /\ tip \in [Components -> [Sources -> Ids]]
  BY DEF Init
<1>2. ASSUME NEW c \in Components PROVE Identity(c) \in Commits
  BY <1>1 DEF Identity, Configs, Sources, ResIn, Commits
<1>3. ASSUME NEW c \in Components
      PROVE  /\ Legacy(c) \in Locks
             /\ Legacy(c).bump = 0 /\ Legacy(c).res = None
             /\ Legacy(c).fp = Fingerprint(cfg[c], Identity(c), 0)
             /\ cfg[c].type = "upstream" => Legacy(c).commit = Identity(c)
  <2>1. Fingerprint(cfg[c], Identity(c), 0) \in Fingerprints
    BY <1>1, <1>2, FingerprintType
  <2> QED BY <1>2, <2>1 DEF Legacy, Locks
<1>4. disk \in [Components -> Locks]
  BY <1>3, BlankType DEF Init
<1>5. TypeOK
  BY <1>1, <1>4, NoResultType DEF Init, TypeOK, PM!PMTypeOK, PM!Statuses, PM!Batch, Options, Exits
<1>6. SelfConsistent
  <2> SUFFICES ASSUME NEW c \in Components, disk[c].fp # None
               PROVE  /\ disk[c].fp.bump = disk[c].bump
                      /\ disk[c].fp.type = "upstream" => disk[c].fp.id = disk[c].commit
    BY DEF SelfConsistent
  <2>1. disk[c] = Legacy(c)
    BY BlankType DEF Init
  <2> QED BY <1>1, <1>2, <1>3, <2>1, FingerprintType
<1>7. CommitProvenance
  BY <1>3, BlankType DEF Init, CommitProvenance
<1> QED
  BY <1>5, <1>6, <1>7, NoResultType
  DEF Init, IInv, PhaseInv, ResultInv, FailedUntouched, WritesNothing

\* Between runs the user changes the project, and upstream moves any time:
\* nothing of that touches a lock, or the lock it deletes is gone from both
\* sides of every comparison.
LEMMA EnvInv == ASSUME IInv, EnvStep PROVE IInv'
<1> USE DEF IInv
<1>1. ASSUME NEW c \in Components, NEW s \in Sources, NEW i \in Ids, MoveTip(c, s, i)
      PROVE  IInv'
  <2>1. tip' \in [Components -> [Sources -> Ids]]
    BY <1>1 DEF MoveTip, TypeOK
  <2>2. TypeOK'
    BY <1>1, <2>1 DEF MoveTip, Moves, runvars, TypeOK, PM!PMTypeOK, PM!Statuses
  <2>3. PhaseInv' /\ ResultInv' /\ FailedUntouched' /\ WritesNothing'
    BY <1>1 DEF MoveTip, Moves, runvars, PhaseInv, ResultInv, FailedUntouched, WritesNothing
  <2>4. SelfConsistent' /\ CommitProvenance'
    BY <1>1 DEF MoveTip, Moves, SelfConsistent, CommitProvenance
  <2> QED BY <2>2, <2>3, <2>4
<1>2. ASSUME NEW c \in Components, NEW k \in Configs, EditConfig(c, k)
      PROVE  IInv'
  <2>1. TypeOK'
    BY <1>2 DEF EditConfig, Moves, runvars, TypeOK, PM!PMTypeOK, PM!Statuses
  <2>2. PhaseInv' /\ ResultInv' /\ FailedUntouched' /\ WritesNothing'
    BY <1>2 DEF EditConfig, Moves, runvars, PhaseInv, ResultInv, FailedUntouched, WritesNothing
  <2>3. SelfConsistent' /\ CommitProvenance'
    BY <1>2 DEF EditConfig, Moves, SelfConsistent, CommitProvenance
  <2> QED BY <2>1, <2>2, <2>3
<1>3. ASSUME NEW c \in Components, AddOrRemove(c)
      PROVE  IInv'
  <2>1. TypeOK'
    BY <1>3 DEF AddOrRemove, Moves, runvars, TypeOK, PM!PMTypeOK, PM!Statuses
  <2>2. PhaseInv' /\ ResultInv' /\ FailedUntouched' /\ WritesNothing'
    BY <1>3 DEF AddOrRemove, Moves, runvars, PhaseInv, ResultInv, FailedUntouched, WritesNothing
  <2>3. SelfConsistent' /\ CommitProvenance'
    BY <1>3 DEF AddOrRemove, Moves, SelfConsistent, CommitProvenance
  <2> QED BY <2>1, <2>2, <2>3
<1>4. ASSUME NEW c \in Components, DeleteLock(c)
      PROVE  IInv'
  <2>1. TypeOK'
    BY <1>4, BlankType DEF DeleteLock, Moves, runvars, world, TypeOK, PM!PMTypeOK, PM!Statuses
  <2>2. PhaseInv' /\ ResultInv' /\ FailedUntouched' /\ WritesNothing'
    BY <1>4 DEF DeleteLock, Moves, runvars, world, TypeOK, PhaseInv, ResultInv, FailedUntouched, WritesNothing
  <2>3. SelfConsistent' /\ CommitProvenance'
    BY <1>4, BlankType DEF DeleteLock, Moves, TypeOK, SelfConsistent, CommitProvenance
  <2> QED BY <2>1, <2>2, <2>3
<1> QED BY <1>1, <1>2, <1>3, <1>4 DEF EnvStep

-----------------------------------------------------------------------------
(* The steps of a run *)

\* A run that starts has written nothing, and what the freshness check says
\* of a component it reuses is what its lock and configuration say.
LEMMA StartInv == ASSUME IInv, NEW o \in Options, StartRun(o) PROVE IInv'
<1> PICK S \in SUBSET present : Start(o, S)
  BY DEF StartRun
<1>1. TypeOK BY DEF IInv
<1>2. S \subseteq Components BY <1>1 DEF TypeOK
<1>3. UNCHANGED <<present, cfg, tip, disk, origin>> /\ opts' = o /\ comps' = S
      /\ before' = disk /\ exit' = "running"
  BY DEF Start, world
<1>4. /\ o.bump => phase' = "bump" /\ \A c \in Components : result'[c].kind = "none"
      /\ ~o.bump => phase' = "resolve" /\ result' = Classify(S, o.force)
  BY NoResultType DEF Start
<1>5. \A c \in Components :
        Classify(S, o.force)[c] = IF c \in S /\ ~MustResolve(c, o.force)
                                  THEN Reuse(c) ELSE NoResult("none")
  BY DEF Classify
<1>6. result' \in [Components -> Results]
  <2>1. CASE o.bump BY <2>1, NoResultType DEF Start
  <2>2. CASE ~o.bump
    BY <1>1, <2>2, <1>4, ReuseType, NoResultType DEF Classify
  <2> QED BY <2>1, <2>2
<1>7. TypeOK'
  <2>1. phase' \in {"resolve", "bump"} /\ todo' \subseteq Components
    BY <1>2 DEF Start
  <2>2. status' \in [Components -> PM!Statuses] /\ ctxDone' = FALSE
    BY DEF Start, PM!Statuses, PM!Batch
  <2>3. /\ drifted' = FALSE /\ runs' = runs + 1 /\ envs' = envs
    BY DEF Start
  <2>4. /\ present' \subseteq Components
        /\ cfg' \in [Components -> Configs]
        /\ tip' \in [Components -> [Sources -> Ids]]
        /\ disk' \in [Components -> Locks] /\ before' \in [Components -> Locks]
        /\ origin' \in [Components -> ResIn \cup {None}]
    BY <1>1, <1>3 DEF TypeOK
  <2>5. opts' \in Options /\ comps' \subseteq Components /\ exit' \in Exits
    BY <1>2, <1>3 DEF Exits
  <2>6. runs' \in Nat /\ envs' \in Nat
    BY <1>1, <2>3 DEF TypeOK
  <2> QED
    BY <1>6, <2>1, <2>2, <2>3, <2>4, <2>5, <2>6 DEF TypeOK, PM!PMTypeOK
<1>8. ~o.bump => \A c \in Components :
         /\ result'[c].kind \notin {"error", "skipped"}
         /\ result'[c].kind \in Kept =>
               /\ result'[c].id \in Commits /\ cfg[c].type = "upstream"
               /\ result'[c].commit = result'[c].id
               /\ disk[c].res = cfg[c].res /\ disk[c].commit = result'[c].commit
  BY <1>1, <1>4, <1>5, ReuseType, NoResultType DEF Kept
<1>9. PhaseInv' /\ ResultInv' /\ FailedUntouched' /\ WritesNothing'
  <2>1. FailedUntouched' /\ WritesNothing'
    BY <1>3 DEF FailedUntouched, WritesNothing
  <2>2. PhaseInv'
    BY <1>3, <1>4 DEF PhaseInv
  <2>3. CASE o.bump
    BY <1>4, <2>1, <2>2, <2>3 DEF ResultInv
  <2>4. CASE ~o.bump
    <3>1. phase' = "resolve" BY <1>4, <2>4
    <3>2. ResultInv'
      BY <1>3, <1>8, <2>4, <3>1 DEF ResultInv, Kept
    <3> QED BY <2>1, <2>2, <3>2
  <2> QED BY <2>3, <2>4
<1>10. SelfConsistent' /\ CommitProvenance'
  BY <1>3 DEF IInv, SelfConsistent, CommitProvenance
<1> QED BY <1>7, <1>9, <1>10 DEF IInv

\* While it resolves, a run records results and writes nothing.
LEMMA ResolveInv ==
    ASSUME IInv, NEW c \in Components,
           \/ BeginResolve(c) \/ ResolveOk(c) \/ ResolveFail(c) \/ SkipResolve(c)
    PROVE  IInv'
<1>1. TypeOK BY DEF IInv
<1>2. Resolving BY DEF BeginResolve, ResolveOk, ResolveFail, SkipResolve
<1>3. \/ result' = result
      \/ \E r \in Results :
            /\ result' = [result EXCEPT ![c] = r]
            /\ r.kind \in {"error", "skipped"} \/ r = Resolved(c)
  BY <1>1, ResolvedType, NoResultType DEF BeginResolve, ResolveOk, ResolveFail, SkipResolve
<1>4. status' \in [Components -> PM!Statuses] /\ ctxDone' \in BOOLEAN
  BY <1>1 DEF BeginResolve, ResolveOk, ResolveFail, SkipResolve,
              PM!Begin, PM!Settle, PM!Skip, TypeOK, PM!PMTypeOK, PM!Statuses
<1>5. result' \in [Components -> Results]
  BY <1>1, <1>3 DEF TypeOK
<1>6. TypeOK'
  BY <1>1, <1>2, <1>4, <1>5 DEF Resolving, world, bounds, TypeOK, PM!PMTypeOK
<1>7. \A d \in Components :
        \/ result'[d] = result[d]
        \/ result'[d].kind \in {"error", "skipped"}
        \/ result'[d] = Resolved(d)
  BY <1>1, <1>3 DEF TypeOK
<1>8. PhaseInv'
  BY <1>2 DEF IInv, PhaseInv, Resolving, world
<1>9. ResultInv'
  BY <1>1, <1>2, <1>7, ResolvedType DEF IInv, ResultInv, Resolving, world, Kept
<1>10. FailedUntouched' /\ WritesNothing' /\ SelfConsistent' /\ CommitProvenance'
  BY <1>2 DEF IInv, PhaseInv, Resolving, world, FailedUntouched, WritesNothing,
              SelfConsistent, CommitProvenance
<1> QED BY <1>6, <1>8, <1>9, <1>10 DEF IInv

\* A run that ends, for whatever reason, has at most torn a lock it was
\* about to write; it had a result to write there, so it had not failed.
LEMMA EndInv ==
    ASSUME IInv, NEW e \in Exits, Ends(e), Quiet, UNCHANGED <<opts, comps>>,
           e = "cancelled" => disk' = disk /\ (disk = before \/ opts.bump),
           \/ result' = result
           \/ \E c \in Components : result' = [result EXCEPT ![c] = Noted(c)],
           \/ UNCHANGED <<disk, origin>>
           \/ \E c \in todo : phase \in {"save", "bump"} /\ ~opts.checkOnly /\ Torn(c)
    PROVE  IInv'
<1>1. TypeOK BY DEF IInv
<1>2. /\ UNCHANGED <<present, cfg, tip, status, ctxDone, before, drifted, runs, envs>>
      /\ phase' = "idle" /\ todo' = {} /\ exit' = e
  BY DEF Quiet, Ends, world, bounds
<1>3. result' \in [Components -> Results]
  BY SMTT(30), <1>1, NotedType DEF TypeOK
<1>4. \A c \in Components : result'[c].kind = result[c].kind
  BY <1>1, NotedType DEF TypeOK
<1>5. \/ disk' = disk /\ origin' = origin
      \/ \E c \in todo : /\ phase \in {"save", "bump"} /\ ~opts.checkOnly
                        /\ disk' = [disk EXCEPT ![c] = Blank("corrupt")]
                        /\ origin' = [origin EXCEPT ![c] = NoOrigin]
  BY DEF Torn, NoOrigin
<1>6. \A d \in Components : \/ disk'[d] = disk[d] /\ origin'[d] = origin[d]
                            \/ disk'[d].fp = None /\ disk'[d].commit = None
  <2>1. CASE disk' = disk /\ origin' = origin BY <2>1
  <2>2. ASSUME NEW c \in todo, disk' = [disk EXCEPT ![c] = Blank("corrupt")],
               origin' = [origin EXCEPT ![c] = NoOrigin]
        PROVE  \A d \in Components : \/ disk'[d] = disk[d] /\ origin'[d] = origin[d]
                                     \/ disk'[d].fp = None /\ disk'[d].commit = None
    BY <1>1, <2>2, BlankType DEF TypeOK
  <2> QED BY <1>5, <2>1, <2>2
<1>7. TypeOK'
  <2>1. disk' \in [Components -> Locks]
    BY <1>1, <1>5, BlankType DEF TypeOK
  <2>2. origin' \in [Components -> Origins]
    BY <1>1, <1>5, NoOriginType DEF TypeOK, Origins
  <2> QED
    BY <1>1, <1>2, <1>3, <2>1, <2>2 DEF TypeOK, PM!PMTypeOK, Origins
<1>8. PhaseInv' /\ ResultInv'
  BY <1>2, <1>4 DEF IInv, PhaseInv, ResultInv
<1>9. FailedUntouched'
  <2> SUFFICES ASSUME NEW d \in comps, result[d].kind \in {"error", "skipped"}
               PROVE  disk'[d] = before[d]
    BY <1>1, <1>2, <1>4 DEF FailedUntouched, TypeOK
  <2>1. disk[d] = before[d] BY DEF IInv, FailedUntouched
  <2>2. phase \in {"save", "bump"} => d \notin todo
    BY <1>1 DEF IInv, PhaseInv, ResultInv, Kept, TypeOK
  <2> QED BY <1>1, <1>5, <2>1, <2>2 DEF TypeOK
<1>10. WritesNothing'
  BY <1>2, <1>5 DEF IInv, WritesNothing
<1>11. SelfConsistent' /\ CommitProvenance'
  BY <1>2, <1>6 DEF IInv, SelfConsistent, CommitProvenance
<1> QED BY <1>7, <1>8, <1>9, <1>10, <1>11 DEF IInv

\* A run that goes on to its next phase changes nothing else.
LEMMA AdvanceInv ==
    ASSUME IInv, Quiet, UNCHANGED <<disk, opts, comps, result, origin, exit>>,
           \/ /\ phase = "resolve" /\ phase' = "save"
              /\ todo' = {c \in comps : result[c].kind \in Kept}
           \/ /\ phase = "save" /\ phase' = "prune" /\ ~opts.checkOnly
              /\ todo' = Orphans
    PROVE  IInv'
<1>1. TypeOK BY DEF IInv
<1>2. UNCHANGED <<present, cfg, tip, status, ctxDone, before, drifted, runs, envs>>
  BY DEF Quiet, world, bounds
<1>3. todo' \subseteq Components /\ phase' \in {"save", "prune"}
  BY <1>1 DEF TypeOK, Orphans
<1>4. TypeOK'
  BY <1>1, <1>2, <1>3 DEF TypeOK, PM!PMTypeOK
<1>5. PhaseInv'
  BY <1>2 DEF IInv, PhaseInv, Orphans
<1>6. ResultInv'
  BY <1>1, <1>2 DEF IInv, ResultInv, Kept
<1>7. FailedUntouched' /\ WritesNothing' /\ SelfConsistent' /\ CommitProvenance'
  BY <1>2 DEF IInv, FailedUntouched, WritesNothing, SelfConsistent, CommitProvenance
<1> QED BY <1>4, <1>5, <1>6, <1>7 DEF IInv

\* A saved lock has the commit that was resolved under the inputs saved with
\* it, or the commit it had, resolved under the inputs it had.
LEMMA SaveInv == ASSUME IInv, NEW c \in Components, SaveOne(c) PROVE IInv'
<1> DEFINE new == NewLock(c, result[c])
<1>1. TypeOK BY DEF IInv
<1>2. /\ phase = "save" /\ c \in todo /\ todo' = todo \ {c}
      /\ UNCHANGED <<opts, comps, phase, exit>>
      /\ UNCHANGED <<present, cfg, tip, status, ctxDone, before, drifted, runs, envs>>
      /\ result' = [result EXCEPT ![c] = Noted(c)]
  BY DEF SaveOne, Saving, Quiet, world, bounds
<1>3. \/ disk' = disk /\ origin' = origin
      \/ /\ ~opts.checkOnly
         /\ disk' = [disk EXCEPT ![c] = new]
         /\ origin' = [origin EXCEPT ![c] = Recorded(c)]
  BY DEF SaveOne
<1>4. /\ c \in comps /\ result[c].kind \in Kept /\ result[c] \in Results
      /\ result[c].id \in Commits
      /\ cfg[c].type = "upstream" => result[c].commit = result[c].id
      /\ cfg[c].type = "local" => result[c].commit = None
      /\ result[c].kind = "reuse" =>
            disk[c].res = cfg[c].res /\ disk[c].commit = result[c].commit
  BY <1>1, <1>2 DEF IInv, ResultInv, TypeOK
<1>5. /\ new \in Locks /\ new.file = "ok" /\ new.commit = result[c].commit
      /\ new.bump = disk[c].bump
      /\ new.fp = Fingerprint(cfg[c], result[c].id, disk[c].bump)
      /\ cfg[c].type = "upstream" => new.res = cfg[c].res
      /\ new.import \in Commits \cup {None}
  BY <1>1, <1>4, NewLockType
<1>6. /\ new.fp.bump = new.bump
      /\ new.fp.type = "upstream" => new.fp.id = new.commit
  BY <1>1, <1>4, <1>5, FingerprintType, ConfigType, LockType
<1>7. new.res # None /\ new.commit # None => Recorded(c) = new.res
  <2> SUFFICES ASSUME new.res # None, new.commit # None
               PROVE  Recorded(c) = new.res
    OBVIOUS
  <2>1. cfg[c].type = "upstream" /\ new.res = cfg[c].res
    BY <1>1, <1>4, <1>5, ConfigType
  <2>2. CASE result[c].kind = "resolved"
    BY <2>1, <2>2 DEF Recorded
  <2>3. CASE result[c].kind = "reuse"
    <3>1. disk[c].res # None /\ disk[c].commit # None
      BY <1>4, <1>5, <2>1, <2>3
    <3>2. origin[c] = disk[c].res
      BY <3>1 DEF IInv, CommitProvenance
    <3>3. Recorded(c) = origin[c]
      BY <2>3 DEF Recorded
    <3> QED BY <1>4, <2>1, <2>3, <3>2, <3>3
  <2> QED BY <1>4, <2>2, <2>3 DEF Kept
<1> HIDE DEF new
<1>8. TypeOK'
  <2>1. disk' \in [Components -> Locks]
    BY <1>1, <1>3, <1>5 DEF TypeOK
  <2>2. Recorded(c) \in Origins
    BY <1>1, <1>5, ConfigType DEF Recorded, Origins, TypeOK
  <2>3. origin' \in [Components -> Origins]
    BY <1>1, <1>3, <2>2 DEF TypeOK, Origins
  <2>4. result' \in [Components -> Results]
    BY <1>1, <1>2, NotedType DEF TypeOK
  <2> QED
    BY <1>1, <1>2, <2>1, <2>3, <2>4 DEF TypeOK, PM!PMTypeOK, Origins
<1>9. \A d \in Components : /\ result'[d].kind = result[d].kind
                           /\ result'[d].id = result[d].id
                           /\ result'[d].commit = result[d].commit
  BY <1>1, <1>2, NotedType DEF TypeOK
<1>10. \A d \in Components \ {c} : disk'[d] = disk[d] /\ origin'[d] = origin[d]
  BY <1>1, <1>3 DEF TypeOK
<1>11. \/ disk'[c] = disk[c] /\ origin'[c] = origin[c]
       \/ disk'[c] = new /\ origin'[c] = Recorded(c)
  BY <1>1, <1>3 DEF TypeOK
<1>12. PhaseInv'
  BY <1>2, <1>9 DEF IInv, PhaseInv
<1>13. ResultInv'
  BY <1>1, <1>2, <1>9, <1>10 DEF IInv, ResultInv, Kept, TypeOK
<1>14. FailedUntouched'
  BY <1>1, <1>2, <1>4, <1>9, <1>10 DEF IInv, FailedUntouched, Kept, TypeOK
<1>15. WritesNothing'
  BY <1>2, <1>3 DEF IInv, PhaseInv, WritesNothing
<1>16. SelfConsistent'
  BY <1>6, <1>10, <1>11 DEF IInv, SelfConsistent
<1>17. CommitProvenance'
  BY <1>7, <1>10, <1>11 DEF IInv, CommitProvenance
<1> QED BY <1>8, <1>12, <1>13, <1>14, <1>15, <1>16, <1>17 DEF IInv

\* Pruning takes locks of components the configuration does not name, so
\* none of a component the run worked on.
LEMMA PruneInv == ASSUME IInv, NEW c \in Components, Prune(c) PROVE IInv'
<1>1. TypeOK BY DEF IInv
<1>2. /\ phase = "prune" /\ c \in todo /\ todo' = todo \ {c}
      /\ UNCHANGED <<opts, comps, phase, result>>
      /\ UNCHANGED <<present, cfg, tip, status, ctxDone, before, drifted, runs, envs>>
      /\ exit' \in {exit, "aborted"}
  BY DEF Prune, Quiet, world, bounds
<1>3. \/ disk' = disk /\ origin' = origin
      \/ /\ disk' = [disk EXCEPT ![c] = Blank("missing")]
         /\ origin' = [origin EXCEPT ![c] = NoOrigin]
  BY DEF Prune, NoOrigin
<1>4. ~opts.checkOnly /\ c \notin comps /\ exit' \in {"running", "aborted"}
  BY <1>2 DEF IInv, PhaseInv
<1>5. TypeOK'
  <2>1. disk' \in [Components -> Locks]
    BY <1>1, <1>3, BlankType DEF TypeOK
  <2>2. origin' \in [Components -> Origins]
    BY <1>1, <1>3, NoOriginType DEF TypeOK, Origins
  <2> QED
    BY <1>1, <1>2, <1>4, <2>1, <2>2 DEF TypeOK, PM!PMTypeOK, Origins, Exits
<1>6. \A d \in Components \ {c} : disk'[d] = disk[d] /\ origin'[d] = origin[d]
  BY <1>1, <1>3 DEF TypeOK
<1>7. \/ disk'[c] = disk[c] /\ origin'[c] = origin[c]
      \/ disk'[c].fp = None /\ disk'[c].commit = None
  BY <1>1, <1>3, BlankType DEF TypeOK
<1>8. PhaseInv'
  BY <1>1, <1>2, <1>4, <1>6 DEF IInv, PhaseInv, TypeOK
<1>9. ResultInv'
  BY <1>2 DEF ResultInv
<1>10. FailedUntouched' /\ WritesNothing'
  BY <1>1, <1>2, <1>4, <1>6 DEF IInv, FailedUntouched, WritesNothing, TypeOK
<1>11. SelfConsistent' /\ CommitProvenance'
  BY <1>6, <1>7 DEF IInv, SelfConsistent, CommitProvenance
<1> QED BY <1>5, <1>8, <1>9, <1>10, <1>11 DEF IInv

\* A bump recomputes the fingerprint from the commit the lock keeps.
LEMMA BumpInv == ASSUME IInv, NEW c \in Components, BumpOne(c) PROVE IInv'
<1> DEFINE new == BumpedLock(c)
           id == IF cfg[c].type = "upstream" THEN disk[c].commit ELSE Identity(c)
<1>1. TypeOK BY DEF IInv
<1>2. /\ phase = "bump" /\ c \in todo /\ todo' = todo \ {c} /\ Bumpable(c)
      /\ UNCHANGED <<opts, comps, result, phase, exit, origin>>
      /\ UNCHANGED <<present, cfg, tip, status, ctxDone, before, drifted, runs, envs>>
      /\ disk' = [disk EXCEPT ![c] = new]
  BY DEF BumpOne, Bumping, Quiet, world, bounds
<1>3. /\ new \in Locks /\ new.commit = disk[c].commit /\ new.res = disk[c].res
      /\ new.bump = disk[c].bump + 1 /\ id \in Commits
      /\ new.fp = Fingerprint(cfg[c], id, disk[c].bump + 1)
  BY <1>1, <1>2, BumpedLockType
<1>4. /\ new.fp.bump = new.bump
      /\ new.fp.type = "upstream" => new.fp.id = new.commit
  BY <1>1, <1>3, FingerprintType, ConfigType, LockType
<1> HIDE DEF new, id
<1>5. opts.bump /\ ~opts.checkOnly /\ exit \in {"running", "aborted"}
  BY <1>1, <1>2 DEF IInv, PhaseInv, TypeOK, Options
<1>6. TypeOK'
  <2>1. disk' \in [Components -> Locks]
    BY <1>1, <1>2, <1>3 DEF TypeOK
  <2> QED
    BY <1>1, <1>2, <2>1 DEF TypeOK, PM!PMTypeOK
<1>7. /\ \A d \in Components \ {c} : disk'[d] = disk[d]
      /\ disk'[c] = new
  BY <1>1, <1>2 DEF TypeOK
<1>8. PhaseInv' /\ ResultInv'
  BY <1>2 DEF IInv, PhaseInv, ResultInv
<1>9. FailedUntouched' /\ WritesNothing'
  BY <1>1, <1>2, <1>5 DEF IInv, PhaseInv, FailedUntouched, WritesNothing, TypeOK
<1>10. SelfConsistent'
  BY <1>4, <1>7 DEF IInv, SelfConsistent
<1>11. CommitProvenance'
  BY <1>2, <1>3, <1>7 DEF IInv, CommitProvenance
<1> QED BY <1>6, <1>8, <1>9, <1>10, <1>11 DEF IInv

\* Ctrl-C is a flag; no lock and no result changes with it.
LEMMA CancelInv == ASSUME IInv, Cancel PROVE IInv'
<1>1. UNCHANGED <<present, cfg, tip, disk, opts, comps, phase, todo, result, exit,
                  before, origin, drifted, runs, envs, status>> /\ ctxDone' = TRUE
  BY DEF Cancel, PM!EndContext, world, runvars, bounds
<1>2. TypeOK'
  BY <1>1 DEF IInv, TypeOK, PM!PMTypeOK
<1>3. PhaseInv' /\ ResultInv' /\ FailedUntouched' /\ WritesNothing'
  BY <1>1 DEF IInv, PhaseInv, ResultInv, FailedUntouched, WritesNothing
<1>4. SelfConsistent' /\ CommitProvenance'
  BY <1>1 DEF IInv, SelfConsistent, CommitProvenance
<1> QED BY <1>2, <1>3, <1>4 DEF IInv

\* The ways a run ends or passes to its next phase.
LEMMA PassInv ==
    ASSUME IInv,
           \/ CheckCancelled \/ AfterSave \/ ListFail \/ PruneEnd \/ BumpEnd \/ Crash
           \/ \E c \in Components : SaveAbort(c) \/ SaveFail(c) \/ BumpFail(c)
    PROVE  IInv'
<1>1. TypeOK /\ PhaseInv BY DEF IInv
<1>2. CASE CheckCancelled
  <2>1. phase = "resolve" /\ Quiet /\ UNCHANGED <<disk, opts, comps, result, origin>>
    BY <1>2 DEF CheckCancelled
  <2>2. CASE ctxDone
    <3>1. Ends("cancelled") BY <1>2, <2>2 DEF CheckCancelled
    <3>2. disk = before BY <1>1, <2>1 DEF PhaseInv
    <3>3. "cancelled" \in Exits BY DEF Exits
    <3> QED BY <2>1, <3>1, <3>2, <3>3, EndInv
  <2>3. CASE ~ctxDone
    BY <1>2, <2>1, <2>3, AdvanceInv DEF CheckCancelled, Kept
  <2> QED BY <2>2, <2>3
<1>3. CASE AfterSave
  <2>1. phase = "save" /\ Quiet /\ UNCHANGED <<disk, opts, comps, result, origin>>
    BY <1>3 DEF AfterSave
  <2>2. \/ \E e \in {"unresolved", "stale", "ok"} : Ends(e)
        \/ ~opts.checkOnly /\ phase' = "prune" /\ todo' = Orphans /\ exit' = exit
    BY <1>3 DEF AfterSave
  <2>3. \A e \in {"unresolved", "stale", "ok"} : e \in Exits /\ e # "cancelled"
    BY DEF Exits
  <2>4. CASE \E e \in {"unresolved", "stale", "ok"} : Ends(e)
    BY <2>1, <2>3, <2>4, EndInv
  <2>5. CASE ~opts.checkOnly /\ phase' = "prune" /\ todo' = Orphans /\ exit' = exit
    BY <2>1, <2>5, AdvanceInv
  <2> QED BY <2>2, <2>4, <2>5
<1>4. CASE ListFail
  <2>1. "aborted" \in Exits BY DEF Exits
  <2> QED BY <1>4, <2>1, EndInv DEF ListFail
<1>5. CASE PruneEnd
  <2>1. \E e \in {"ok", "aborted"} : Ends(e)
    BY <1>1, <1>5 DEF PruneEnd, PhaseInv
  <2>2. \A e \in {"ok", "aborted"} : e \in Exits /\ e # "cancelled"
    BY DEF Exits
  <2> QED BY <1>5, <2>1, <2>2, EndInv DEF PruneEnd
<1>6. CASE BumpEnd
  <2>1. \E e \in {"ok", "cancelled"} : Ends(e)
    BY <1>6 DEF BumpEnd
  <2>2. {"ok", "cancelled"} \subseteq Exits BY DEF Exits
  <2>3. opts.bump /\ Quiet /\ UNCHANGED <<disk, opts, comps, result, origin>>
    BY <1>1, <1>6 DEF BumpEnd, Bumping, PhaseInv
  <2> QED BY <2>1, <2>2, <2>3, EndInv
<1>7. CASE Crash
  <2>1. "crashed" \in Exits BY DEF Exits
  <2>2. Ends("crashed") /\ Quiet /\ UNCHANGED <<opts, comps, result>>
    BY <1>7 DEF Crash
  <2>3. phase = "bump" => ~opts.checkOnly
    BY <1>1 DEF PhaseInv, TypeOK, Options
  <2>4. \/ UNCHANGED <<disk, origin>>
        \/ \E c \in todo : phase \in {"save", "bump"} /\ ~opts.checkOnly /\ Torn(c)
    BY <1>7, <2>3 DEF Crash
  <2> QED BY <2>1, <2>2, <2>4, EndInv
<1>8. ASSUME NEW c \in Components, SaveAbort(c) PROVE IInv'
  <2>1. "aborted" \in Exits BY DEF Exits
  <2> QED BY <1>8, <2>1, EndInv DEF SaveAbort, Saving
<1>9. ASSUME NEW c \in Components, SaveFail(c) PROVE IInv'
  <2>1. "aborted" \in Exits BY DEF Exits
  <2>2. /\ Ends("aborted") /\ Quiet /\ UNCHANGED <<opts, comps>>
        /\ c \in todo /\ phase = "save" /\ ~opts.checkOnly /\ Torn(c)
        /\ result' = [result EXCEPT ![c] = Noted(c)]
    BY <1>9 DEF SaveFail, Saving
  <2> QED BY <2>1, <2>2, EndInv
<1>10. ASSUME NEW c \in Components, BumpFail(c) PROVE IInv'
  <2>1. "aborted" \in Exits BY DEF Exits
  <2>2. /\ Ends("aborted") /\ Quiet /\ UNCHANGED <<opts, comps, result>>
        /\ c \in todo /\ phase = "bump"
        /\ UNCHANGED <<disk, origin>> \/ Torn(c)
    BY <1>10 DEF BumpFail, Bumping
  <2>3. ~opts.checkOnly
    BY <1>1, <2>2 DEF PhaseInv, TypeOK, Options
  <2> QED BY <2>1, <2>2, <2>3, EndInv
<1> QED BY <1>2, <1>3, <1>4, <1>5, <1>6, <1>7, <1>8, <1>9, <1>10

-----------------------------------------------------------------------------
(* The invariant and what follows from it *)

\* Every step keeps the invariant.
LEMMA StepInv == IInv /\ [Next]_vars => IInv'
<1> SUFFICES ASSUME IInv, [Next]_vars PROVE IInv' OBVIOUS
<1>1. CASE RunStep
  BY <1>1, ResolveInv, SaveInv, PruneInv, BumpInv, PassInv DEF RunStep
<1>2. CASE Cancel BY <1>2, CancelInv
<1>3. CASE Crash BY <1>3, PassInv
<1>4. CASE EnvStep BY <1>4, EnvInv
<1>5. CASE \E o \in Options : StartRun(o) BY <1>5, StartInv
<1>6. CASE UNCHANGED vars
  <2>1. UNCHANGED <<present, cfg, tip, disk, opts, comps, phase, todo, result, exit,
                    status, ctxDone, before, origin, drifted, runs, envs>>
    BY <1>6 DEF vars, world, runvars, bounds
  <2>2. TypeOK'
    BY <2>1 DEF IInv, TypeOK, PM!PMTypeOK
  <2>3. PhaseInv' /\ ResultInv' /\ FailedUntouched' /\ WritesNothing'
    BY <2>1 DEF IInv, PhaseInv, ResultInv, FailedUntouched, WritesNothing
  <2>4. SelfConsistent' /\ CommitProvenance'
    BY <2>1 DEF IInv, SelfConsistent, CommitProvenance
  <2> QED BY <2>2, <2>3, <2>4 DEF IInv
<1> QED BY <1>1, <1>2, <1>3, <1>4, <1>5, <1>6 DEF Next

\* The invariant holds in every state of every run sequence.
THEOREM Inductive == Spec => []IInv
<1> QED BY InitInv, StepInv, PTL DEF Spec

\* Every state is well typed.
THEOREM TypeCorrect == Spec => []TypeOK
<1>1. IInv => TypeOK BY DEF IInv
<1> QED BY <1>1, Inductive, PTL

\* A component that failed or was skipped keeps its lock through the run
\* (update.go:64-66).
THEOREM FailuresAreHarmless == Spec => []FailedUntouched
<1>1. IInv => FailedUntouched BY DEF IInv
<1> QED BY <1>1, Inductive, PTL

\* A --check-only run and a cancelled update leave the lock directory alone
\* (update.go:208-211 and 447-452).
THEOREM DryRunsWriteNothing == Spec => []WritesNothing
<1>1. IInv => WritesNothing BY DEF IInv
<1> QED BY <1>1, Inductive, PTL

\* A lock's fingerprint goes with the commit and the counter next to it.
THEOREM LocksAreConsistent == Spec => []SelfConsistent
<1>1. IInv => SelfConsistent BY DEF IInv
<1> QED BY <1>1, Inductive, PTL

\* A lock's commit was resolved under the inputs whose hash stands next to
\* it, so that an unchanged hash justifies reusing the commit.
THEOREM ReuseIsJustified == Spec => []CommitProvenance
<1>1. IInv => CommitProvenance BY DEF IInv
<1> QED BY <1>1, Inductive, PTL

-----------------------------------------------------------------------------
(* The lock directory is a registry of independent locks *)

\* A write that does not finish leaves the lock as it was or damages it, and
\* no run writes over an unreadable lock.
LEMMA TornDamages ==
    ASSUME TypeOK, NEW c \in Components, Savable(c) \/ Bumpable(c), Torn(c)
    PROVE  disk' = disk \/ Registry!Damage(c)
<1>1. disk[c].file # "corrupt" BY DEF Savable, Bumpable
<1>2. CASE disk' = [disk EXCEPT ![c] = Blank("corrupt")]
  <2>1. disk'[c] = Blank("corrupt") /\ \A d \in Components \ {c} : disk'[d] = disk[d]
    BY <1>2 DEF TypeOK
  <2> QED BY <1>1, <2>1, BlankType DEF Registry!Damage, Registry!Only
<1> QED BY <1>2 DEF Torn

\* Every step of a run is a step of the registry, or none.
LEMMA RunSteps == ASSUME IInv, RunStep \/ Crash PROVE Registry!RegNext \/ disk' = disk
<1>1. TypeOK /\ PhaseInv BY DEF IInv
<1>2. todo \subseteq Components BY <1>1 DEF TypeOK
<1>3. CASE Crash
  <2>1. \/ disk' = disk
        \/ \E c \in todo : (Savable(c) \/ Bumpable(c)) /\ Torn(c)
    BY <1>3 DEF Crash
  <2> QED BY <1>1, <1>2, <2>1, TornDamages DEF Registry!RegNext
<1>4. ASSUME NEW c \in Components, SaveOne(c) PROVE Registry!RegNext \/ disk' = disk
  <2> DEFINE new == NewLock(c, result[c])
  <2>1. result[c] \in Results /\ result[c].id \in Commits
    BY <1>1, <1>4 DEF SaveOne, Saving, IInv, ResultInv, TypeOK
  <2>2. CASE disk' = [disk EXCEPT ![c] = new]
    <3>1. disk'[c] = new /\ \A d \in Components \ {c} : disk'[d] = disk[d]
      BY <1>1, <2>2 DEF TypeOK
    <3>2. disk[c].file # "corrupt" BY <1>4 DEF SaveOne, Savable
    <3>3. /\ new.file = "ok" /\ new.bump = disk[c].bump /\ new.commit = result[c].commit
          /\ \/ new.import \in {None, disk[c].import}
             \/ disk[c].import = None /\ new.import = result[c].commit
      BY <1>1, <2>1, NewLockType
    <3> HIDE DEF new
    <3>4. Registry!Refresh(c)
      BY <3>1, <3>2, <3>3 DEF Registry!Refresh, Registry!Only
    <3> QED BY <3>4 DEF Registry!RegNext
  <2> QED BY <1>4, <2>2 DEF SaveOne
<1>5. ASSUME NEW c \in Components, SaveFail(c) PROVE Registry!RegNext \/ disk' = disk
  BY <1>1, <1>5, TornDamages DEF SaveFail, Registry!RegNext
<1>6. ASSUME NEW c \in Components, BumpFail(c) PROVE Registry!RegNext \/ disk' = disk
  BY <1>1, <1>6, TornDamages DEF BumpFail, Registry!RegNext
<1>7. ASSUME NEW c \in Components, Prune(c) PROVE Registry!RegNext \/ disk' = disk
  <2>1. disk[c].file # "missing" BY <1>1, <1>7 DEF Prune, PhaseInv
  <2>2. CASE disk' = [disk EXCEPT ![c] = Blank("missing")]
    <3>1. disk'[c] = Blank("missing") /\ \A d \in Components \ {c} : disk'[d] = disk[d]
      BY <1>1, <2>2 DEF TypeOK
    <3>2. Registry!Drop(c)
      BY <2>1, <3>1, BlankType DEF Registry!Drop, Registry!Only
    <3> QED BY <3>2 DEF Registry!RegNext
  <2> QED BY <1>7, <2>2 DEF Prune
<1>8. ASSUME NEW c \in Components, BumpOne(c) PROVE Registry!RegNext \/ disk' = disk
  <2> DEFINE new == BumpedLock(c)
             id  == IF cfg[c].type = "upstream" THEN disk[c].commit ELSE Identity(c)
  <2>1. Bumpable(c) /\ disk' = [disk EXCEPT ![c] = new]
    BY <1>8 DEF BumpOne
  <2>2. /\ new.file = disk[c].file /\ new.commit = disk[c].commit
        /\ new.import = disk[c].import /\ new.res = disk[c].res
        /\ new.bump = disk[c].bump + 1 /\ id \in Commits
        /\ new.fp = Fingerprint(cfg[c], id, disk[c].bump + 1)
    BY <1>1, <2>1, BumpedLockType
  <2>3. new.fp \in Fingerprints /\ new.fp.bump = disk[c].bump + 1
    BY <1>1, <2>2, FingerprintType, ConfigType, LockType
  <2>4. disk'[c] = new /\ \A d \in Components \ {c} : disk'[d] = disk[d]
    BY <1>1, <2>1 DEF TypeOK
  <2> HIDE DEF new, id
  <2>5. disk[c].file = "ok" BY <2>1 DEF Bumpable
  <2>6. new.fp # disk[c].fp
    <3>1. CASE disk[c].fp = None BY <2>3, <3>1, HashAssumption
    <3>2. CASE disk[c].fp # None
      <4>1. disk[c].fp.bump = disk[c].bump /\ disk[c].bump \in Nat
        BY <1>1, <3>2, LockType DEF IInv, SelfConsistent
      <4> QED BY <2>3, <4>1
    <3> QED BY <3>1, <3>2
  <2>7. Registry!Rebuild(c)
    BY <2>2, <2>4, <2>5, <2>6 DEF Registry!Rebuild, Registry!Only
  <2> QED BY <2>7 DEF Registry!RegNext
<1>9. CASE CheckCancelled \/ AfterSave \/ ListFail \/ PruneEnd \/ BumpEnd
  BY <1>9 DEF CheckCancelled, AfterSave, ListFail, PruneEnd, BumpEnd
<1>10. ASSUME NEW c \in Components,
              \/ BeginResolve(c) \/ ResolveOk(c) \/ ResolveFail(c) \/ SkipResolve(c)
              \/ SaveAbort(c)
       PROVE  disk' = disk
  BY <1>10 DEF BeginResolve, ResolveOk, ResolveFail, SkipResolve, Resolving, SaveAbort
<1> QED BY <1>3, <1>4, <1>5, <1>6, <1>7, <1>8, <1>9, <1>10 DEF RunStep

\* The user deletes one lock at a time; nothing else outside a run writes.
LEMMA OtherSteps ==
    ASSUME IInv, EnvStep \/ Cancel \/ \E o \in Options : StartRun(o)
    PROVE  Registry!RegNext \/ disk' = disk
<1>1. TypeOK BY DEF IInv
<1>2. ASSUME NEW c \in Components, DeleteLock(c) PROVE Registry!RegNext
  <2>1. /\ disk'[c] = Blank("missing") /\ \A d \in Components \ {c} : disk'[d] = disk[d]
        /\ disk[c].file # "missing"
    BY <1>1, <1>2 DEF DeleteLock, TypeOK
  <2>2. Registry!Drop(c)
    BY <2>1, BlankType DEF Registry!Drop, Registry!Only
  <2> QED BY <2>2 DEF Registry!RegNext
<1>3. ASSUME NEW c \in Components,
             \/ \E s \in Sources, i \in Ids : MoveTip(c, s, i)
             \/ \E k \in Configs : EditConfig(c, k)
             \/ AddOrRemove(c)
      PROVE  disk' = disk
  BY <1>3 DEF MoveTip, EditConfig, AddOrRemove
<1>4. CASE Cancel BY <1>4 DEF Cancel
<1>5. CASE \E o \in Options : StartRun(o) BY <1>5 DEF StartRun, Start
<1> QED BY <1>2, <1>3, <1>4, <1>5 DEF EnvStep

\* Initially every lock is there and readable, or not there.
LEMMA InitRegistry == Init => Registry!RegInit
<1>1. ASSUME NEW c \in Components PROVE Legacy(c).file = "ok"
  BY DEF Legacy
<1> QED BY <1>1, BlankType DEF Init, Registry!RegInit

\* Whatever runs, fails or is killed, the lock directory is a registry:
\* locks change one at a time, a refresh keeps the counter and does not
\* trade one import commit for another, a bump changes only the counter and
\* the fingerprint, and an unreadable lock is never written over.
THEOREM UpdateImplementsRegistry == Spec => ImplementsRegistry
<1>1. IInv /\ [Next]_vars => [Registry!RegNext]_disk
  <2> SUFFICES ASSUME IInv, [Next]_vars PROVE Registry!RegNext \/ disk' = disk
    OBVIOUS
  <2>1. CASE UNCHANGED vars BY <2>1 DEF vars
  <2> QED BY <2>1, RunSteps, OtherSteps DEF Next
<1> QED BY <1>1, InitRegistry, Inductive, PTL DEF Spec, ImplementsRegistry, Registry!RegSpec

-----------------------------------------------------------------------------
(* What one run does with what it found out: commits move only where the   *)
(* freshness check asked for it, what was resolved is written, counters    *)
(* are bumped once, and locks are removed only at the end of a clean run   *)
(* over everything.                                                        *)

\* The components whose results the run has not dealt with yet.
Open == IF phase = "resolve" THEN Components
        ELSE IF phase = "save" THEN todo ELSE {}

\* What the run has not come to yet is as it was.
Untouched == /\ phase \in {"save", "bump"} => \A c \in todo : disk[c] = before[c]
             /\ phase = "bump" => todo \subseteq comps

\* Only what the freshness check could not vouch for is resolved.
Compelled == \A c \in Open :
    result[c].kind = "resolved" \/ (phase = "resolve" /\ status[c] \in {"pending", "running"})
       => MustResolve(c, opts.force)

\* What a result says of the lock still holds.
Honest == \A c \in Open :
    /\ result[c].kind = "reuse" => disk[c].file = "ok"
    /\ result[c].kind = "resolved" =>
          /\ disk[c].file # "corrupt"
          /\ ~result[c].changed => disk[c].file = "ok" /\ disk[c].commit = result[c].commit

\* A run that goes on was not cancelled while it resolved, and one that
\* prunes has met no failure.
Clean == /\ phase = "resolve" /\ ~ctxDone => \A c \in comps : result[c].kind # "skipped"
         /\ phase \in {"save", "prune"} => \A c \in comps : result[c].kind # "skipped"
         /\ phase = "prune" => opts.all /\ \A c \in comps : result[c].kind # "error"

\* c's lock is what the run found out.
Stored(c) == /\ disk[c].file = "ok" /\ disk[c].commit = result[c].commit
             /\ disk[c].fp = Fingerprint(cfg[c], result[c].id, disk[c].bump)

\* The results the run has dealt with are in the locks.
Written == phase \in {"save", "prune"} /\ ~opts.checkOnly =>
    \A c \in comps \ Open : result[c].kind \in Kept => Stored(c)

RunInv == Untouched /\ Compelled /\ Honest /\ Clean /\ Written /\ BumpCountsOnce

-----------------------------------------------------------------------------
(* The steps *)

\* Before the first run nothing is open and nothing was bumped.
LEMMA InitRun == Init => RunInv
<1> SUFFICES ASSUME Init PROVE RunInv OBVIOUS
<1>1. TypeOK BY InitInv DEF IInv
<1>2. \A c \in Components : disk[c].bump - disk[c].bump = 0 BY <1>1, LockType
<1>3. phase = "idle" /\ exit = "none" /\ before = disk /\ ~opts.bump BY DEF Init
<1>4. BumpCountsOnce BY <1>2, <1>3 DEF BumpCountsOnce
<1> QED
  BY <1>3, <1>4 DEF RunInv, Untouched, Compelled, Honest, Clean, Written, Open

\* Between runs nothing is open, and what upstream moves during one is not
\* what the results speak of.
LEMMA EnvRun == ASSUME IInv, RunInv, EnvStep PROVE RunInv'
<1>1. TypeOK BY DEF IInv
<1>2. ASSUME NEW c \in Components, NEW s \in Sources, NEW i \in Ids, MoveTip(c, s, i)
      PROVE  RunInv'
  <2>1. UNCHANGED <<present, cfg, disk, before, opts, comps, phase, todo, result, exit,
                    status, ctxDone>>
    BY <1>2 DEF MoveTip, Moves, runvars
  <2>2. Compelled'
    BY <2>1 DEF RunInv, Compelled, Open, MustResolve
  <2>3. Untouched' /\ Honest' /\ Clean' /\ Written' /\ BumpCountsOnce'
    BY <2>1 DEF RunInv, Untouched, Honest, Clean, Written, Open, Stored, Fingerprint,
                BumpCountsOnce
  <2> QED BY <2>2, <2>3 DEF RunInv
<1>3. ASSUME NEW c \in Components, DeleteLock(c) \/ AddOrRemove(c) \/ \E k \in Configs : EditConfig(c, k)
      PROVE  RunInv'
  <2>1. phase = "idle" /\ phase' = "idle" /\ UNCHANGED <<opts, comps, exit>>
    BY <1>3 DEF DeleteLock, AddOrRemove, EditConfig, Moves, runvars
  <2>2. Untouched' /\ Compelled' /\ Honest' /\ Clean' /\ Written'
    BY <2>1 DEF Untouched, Compelled, Honest, Clean, Written, Open
  <2>3. \A d \in Components : \/ disk'[d] = disk[d] /\ before'[d] = before[d]
                              \/ disk'[d].file = "missing"
    BY <1>1, <1>3, BlankType DEF DeleteLock, AddOrRemove, EditConfig, TypeOK
  <2>4. BumpCountsOnce'
    BY <2>1, <2>3 DEF RunInv, BumpCountsOnce
  <2> QED BY <2>2, <2>4 DEF RunInv
<1> QED BY <1>2, <1>3 DEF EnvStep

\* A run starts with what the freshness check says.
LEMMA StartRunInv == ASSUME IInv, RunInv, NEW o \in Options, StartRun(o) PROVE RunInv'
<1> PICK S \in SUBSET present : Start(o, S)
  BY DEF StartRun
<1>1. TypeOK /\ S \subseteq Components BY DEF IInv, TypeOK
<1>2. /\ UNCHANGED <<cfg, disk>> /\ opts' = o /\ comps' = S
      /\ before' = disk /\ exit' = "running"
  BY DEF Start, world
<1>3. \A c \in Components : disk[c].bump - disk[c].bump = 0
  BY <1>1, LockType
<1>4. CASE o.bump
  <2>1. phase' = "bump" /\ todo' = S BY <1>4 DEF Start
  <2>2. Untouched' /\ Compelled' /\ Honest' /\ Clean' /\ Written'
    BY <1>2, <2>1 DEF Untouched, Compelled, Honest, Clean, Written, Open
  <2>3. BumpCountsOnce'
    BY <1>1, <1>2, <1>3, <2>1 DEF BumpCountsOnce
  <2> QED BY <2>2, <2>3 DEF RunInv
<1>5. CASE ~o.bump
  <2>1. /\ phase' = "resolve" /\ result' = Classify(S, o.force)
        /\ status' = PM!Batch({c \in S : MustResolve(c, o.force)})
    BY <1>5 DEF Start
  <2>2. \A c \in Components : \/ result'[c] = NoResult("none")
                              \/ result'[c] = Reuse(c) /\ ~MustResolve(c, o.force)
    BY <2>1 DEF Classify
  <2>3. \A c \in Components :
           /\ result'[c].kind \notin {"resolved", "skipped", "error"}
           /\ result'[c].kind = "reuse" => ~MustResolve(c, o.force)
    BY <1>1, <2>2, NoResultType, ReuseType
  <2>4. \A c \in Components : status'[c] \in {"pending", "running"} => MustResolve(c, o.force)
    BY <2>1 DEF PM!Batch
  <2>5. \A c \in Components : MustResolve(c, o.force) => MustResolve(c, o.force)'
    BY <1>2 DEF MustResolve
  <2>6. Compelled'
    BY <1>2, <2>1, <2>3, <2>4, <2>5 DEF Compelled, Open, MustResolve
  <2>7. Honest'
    BY <1>2, <2>1, <2>3 DEF Honest, Open, MustResolve
  <2>8. Untouched' /\ Clean' /\ Written'
    BY <1>1, <1>2, <2>1, <2>3 DEF Untouched, Clean, Written, Open
  <2>9. BumpCountsOnce'
    BY <1>1, <1>2, <1>3, <1>5, <2>1 DEF BumpCountsOnce
  <2> QED BY <2>6, <2>7, <2>8, <2>9 DEF RunInv
<1> QED BY <1>4, <1>5

\* What a worker records is of a component that had to be resolved, and is
\* true of its lock, which nobody writes meanwhile.
LEMMA ResolveRun ==
    ASSUME IInv, RunInv, NEW c \in Components,
           \/ BeginResolve(c) \/ ResolveOk(c) \/ ResolveFail(c) \/ SkipResolve(c)
    PROVE  RunInv'
<1>1. TypeOK BY DEF IInv
<1>2. /\ phase = "resolve"
      /\ UNCHANGED <<cfg, disk, opts, comps, phase, todo, exit, before>>
  BY DEF BeginResolve, ResolveOk, ResolveFail, SkipResolve, Resolving, world
<1>3. status[c] \in {"pending", "running"} /\ UNCHANGED ctxDone
  BY DEF BeginResolve, ResolveOk, ResolveFail, SkipResolve, PM!Begin, PM!Settle, PM!Skip
<1>4. MustResolve(c, opts.force)
  BY <1>2, <1>3 DEF RunInv, Compelled, Open
<1>5. \A d \in Components \ {c} : status'[d] = status[d] /\ result'[d] = result[d]
  BY <1>1 DEF BeginResolve, ResolveOk, ResolveFail, SkipResolve, PM!Begin, PM!Settle, PM!Skip,
              TypeOK, PM!PMTypeOK
<1>6. \/ result'[c] = result[c]
      \/ result'[c].kind = "error"
      \/ result'[c] = Resolved(c)
      \/ result'[c].kind = "skipped" /\ ctxDone
  BY <1>1, NoResultType
  DEF BeginResolve, ResolveOk, ResolveFail, SkipResolve, PM!Skip, TypeOK
<1>7. Compelled'
  BY <1>2, <1>4, <1>5 DEF RunInv, Compelled, Open, MustResolve
<1>8. result'[c] = Resolved(c) /\ result'[c].kind = "resolved" =>
         /\ disk[c].file # "corrupt"
         /\ ~result'[c].changed => disk[c].file = "ok" /\ disk[c].commit = result'[c].commit
  <2>1. disk[c].file \in {"ok", "missing", "corrupt"} BY <1>1 DEF TypeOK, Locks
  <2>2. disk[c].file = "corrupt" => Resolved(c).kind = "error"
    BY NoResultType DEF Resolved
  <2>3. disk[c].file # "corrupt" =>
           (~Resolved(c).changed => disk[c].file # "missing" /\ disk[c].commit = Resolved(c).commit)
    BY DEF Resolved
  <2> QED BY <2>1, <2>2, <2>3
<1>9. Honest'
  BY <1>1, <1>2, <1>5, <1>6, <1>8, ResolvedType DEF RunInv, Honest, Open
<1>10. Clean'
  BY <1>1, <1>2, <1>3, <1>5, <1>6, ResolvedType DEF RunInv, Clean, TypeOK
<1>11. Untouched' /\ Written' /\ BumpCountsOnce'
  BY <1>2 DEF RunInv, Untouched, Written, BumpCountsOnce
<1> QED BY <1>7, <1>9, <1>10, <1>11 DEF RunInv

\* Ctrl-C only lets a run skip; it takes back no result.
LEMMA CancelRun == ASSUME IInv, RunInv, Cancel PROVE RunInv'
<1>1. /\ UNCHANGED <<cfg, disk, opts, comps, phase, todo, result, exit, before, status>>
      /\ ctxDone' = TRUE
  BY DEF Cancel, PM!EndContext, world, runvars
<1>2. Compelled' BY <1>1 DEF RunInv, Compelled, Open, MustResolve
<1>3. Untouched' /\ Honest' /\ Clean' /\ Written' /\ BumpCountsOnce'
  BY <1>1 DEF RunInv, Untouched, Honest, Clean, Written, Open, Stored, Fingerprint,
              BumpCountsOnce
<1> QED BY <1>2, <1>3 DEF RunInv

\* A run that ends has nothing open; it has bumped everything if it says so.
LEMMA EndRun ==
    ASSUME IInv, RunInv, NEW e \in Exits, Ends(e), UNCHANGED <<opts, comps, before>>,
           phase # "idle",
           opts.bump /\ e = "ok" => phase = "bump" /\ todo = {},
           disk' = disk \/ \E c \in todo : Torn(c)
    PROVE  RunInv'
<1>1. TypeOK BY DEF IInv
<1>2. phase' = "idle" /\ exit' = e BY DEF Ends
<1>3. Untouched' /\ Compelled' /\ Honest' /\ Clean' /\ Written'
  BY <1>2 DEF Untouched, Compelled, Honest, Clean, Written, Open
<1>4. \A d \in Components : disk'[d] = disk[d] \/ disk'[d].file = "corrupt"
  BY <1>1, BlankType DEF Torn, TypeOK
<1>5. ASSUME NEW d \in Components, disk'[d].file = "ok", before[d].file = "ok"
      PROVE  LET by == disk'[d].bump - before[d].bump IN
             /\ by \in {0, 1}
             /\ ~opts.bump \/ d \notin comps => by = 0
             /\ opts.bump /\ d \in comps /\ e = "ok" => by = 1
  BY <1>4, <1>5 DEF RunInv, BumpCountsOnce
<1>6. BumpCountsOnce'
  BY <1>2, <1>5 DEF BumpCountsOnce
<1> QED BY <1>3, <1>6 DEF RunInv

\* The results of a run that was not cancelled go to the save loop, and a
\* clean run over everything goes on to prune.
LEMMA AdvanceRun ==
    ASSUME IInv, RunInv, UNCHANGED <<cfg, disk, before, opts, comps, result, exit, status, ctxDone>>,
           \/ /\ phase = "resolve" /\ ~ctxDone /\ phase' = "save"
              /\ todo' = {c \in comps : result[c].kind \in Kept}
           \/ /\ phase = "save" /\ todo = {} /\ Failed = {} /\ opts.all /\ phase' = "prune"
              /\ todo' = Orphans
    PROVE  RunInv'
<1>1. TypeOK /\ PhaseInv BY DEF IInv
<1>2. comps \subseteq Components BY <1>1 DEF TypeOK
<1>3. Untouched'
  BY <1>1 DEF Untouched, PhaseInv
<1>4. Compelled' /\ Honest'
  BY <1>2 DEF RunInv, Compelled, Honest, Open, MustResolve
<1>5. Clean'
  BY <1>2 DEF RunInv, Clean, Failed
<1>6. Written'
  BY <1>2 DEF RunInv, Written, Open, Stored, Fingerprint
<1>7. BumpCountsOnce'
  BY <1>1 DEF RunInv, BumpCountsOnce, PhaseInv
<1> QED BY <1>3, <1>4, <1>5, <1>6, <1>7 DEF RunInv

\* A save stores what was found out of the component, or finds it stored.
LEMMA SaveStores == ASSUME IInv, RunInv, NEW c \in Components, SaveOne(c)
                    PROVE  /\ opts.checkOnly => disk' = disk
                           /\ disk'[c].file = "ok" => disk'[c].bump = disk[c].bump
                           /\ ~opts.checkOnly => Stored(c)'
<1>1. TypeOK BY DEF IInv
<1>2. /\ phase = "save" /\ c \in todo /\ Savable(c)
      /\ UNCHANGED <<opts, comps, phase, cfg>>
      /\ result' = [result EXCEPT ![c] = Noted(c)]
      /\ IF Writes(c, result[c]) /\ ~opts.checkOnly
         THEN disk' = [disk EXCEPT ![c] = NewLock(c, result[c])]
         ELSE disk' = disk
  BY DEF SaveOne, Saving, Quiet, world
<1>3. result'[c].id = result[c].id /\ result'[c].commit = result[c].commit
  BY <1>1, <1>2, NotedType DEF TypeOK
<1>4. /\ result[c] \in Results /\ result[c].id \in Commits /\ result[c].kind \in Kept
  BY <1>1, <1>2 DEF IInv, ResultInv, TypeOK
<1>5. /\ NewLock(c, result[c]).file = "ok"
      /\ NewLock(c, result[c]).commit = result[c].commit
      /\ NewLock(c, result[c]).bump = disk[c].bump
      /\ NewLock(c, result[c]).fp = Fingerprint(cfg[c], result[c].id, disk[c].bump)
  BY <1>1, <1>4, NewLockType
<1>6. CASE Writes(c, result[c]) /\ ~opts.checkOnly
  <2>1. disk'[c] = NewLock(c, result[c]) BY <1>1, <1>2, <1>6 DEF TypeOK
  <2> HIDE <1>6
  <2>2. disk'[c].bump = disk[c].bump /\ disk'[c].file = "ok"
        /\ disk'[c].commit = result[c].commit
        /\ disk'[c].fp = Fingerprint(cfg[c], result[c].id, disk[c].bump)
    BY <1>5, <2>1
  <2>3. cfg'[c] = cfg[c] BY <1>2
  <2> QED BY <1>2, <1>3, <1>6, <2>2, <2>3 DEF Stored, Fingerprint
<1>7. CASE ~(Writes(c, result[c]) /\ ~opts.checkOnly)
  <2>1. disk' = disk BY <1>2, <1>7
  <2>2. ASSUME ~opts.checkOnly PROVE Stored(c)'
    <3>1. ~result[c].changed /\ disk[c].fp = NewLock(c, result[c]).fp
      BY <1>7, <2>2 DEF Writes, Changes
    <3>2. disk[c].file = "ok" /\ disk[c].commit = result[c].commit
      BY <1>1, <1>2, <1>4, <3>1 DEF IInv, ResultInv, RunInv, Honest, Open, Kept
    <3> QED BY <1>2, <1>3, <1>5, <2>1, <3>1, <3>2 DEF Stored, Fingerprint
  <2> QED BY <2>1, <2>2
<1> QED BY <1>6, <1>7

\* A save closes one component and leaves the others as they are.
LEMMA SaveRun == ASSUME IInv, RunInv, NEW c \in Components, SaveOne(c) PROVE RunInv'
<1>1. TypeOK BY DEF IInv
<1>2. /\ phase = "save" /\ c \in todo /\ todo' = todo \ {c}
      /\ UNCHANGED <<opts, comps, phase, exit, cfg, before, status, ctxDone>>
      /\ result' = [result EXCEPT ![c] = Noted(c)]
  BY DEF SaveOne, Saving, Quiet, world
<1>3. \A d \in Components \ {c} : disk'[d] = disk[d] /\ result'[d] = result[d]
  <2>1. \/ disk' = disk \/ disk' = [disk EXCEPT ![c] = NewLock(c, result[c])]
    BY DEF SaveOne
  <2> QED BY <1>1, <1>2, <2>1 DEF TypeOK
<1>4. \A d \in Components : result'[d].kind = result[d].kind
  BY <1>1, <1>2, <1>3, NotedType DEF TypeOK
<1>5. disk[c] = before[c] /\ c \in comps
  BY <1>1, <1>2 DEF RunInv, Untouched, IInv, ResultInv
<1>6. Untouched'
  BY <1>1, <1>2, <1>3 DEF RunInv, Untouched, TypeOK
<1>7. Compelled' /\ Honest'
  <2>1. Open' = Open \ {c} /\ Open \subseteq Components
    BY <1>1, <1>2 DEF Open, TypeOK
  <2>2. Compelled' BY <1>2, <1>3, <2>1 DEF RunInv, Compelled, MustResolve
  <2>3. Honest' BY <1>2, <1>3, <2>1 DEF RunInv, Honest
  <2> QED BY <2>2, <2>3
<1>8. Clean'
  BY <1>1, <1>2, <1>4 DEF RunInv, Clean, TypeOK
<1>9. Written'
  <2> SUFFICES ASSUME ~opts.checkOnly, NEW d \in comps, d \notin Open', result'[d].kind \in Kept
               PROVE  Stored(d)'
    BY <1>2 DEF Written
  <2>1. CASE d = c BY <2>1, SaveStores
  <2>2. CASE d # c
    <3>1. d \in Components /\ d \notin Open
      BY <1>1, <1>2, <2>2 DEF Open, TypeOK
    <3>2. Stored(d)
      BY <1>2, <1>4, <3>1 DEF RunInv, Written
    <3> QED BY <1>2, <1>3, <2>2, <3>1, <3>2 DEF Stored, Fingerprint
  <2> QED BY <2>1, <2>2
<1>10. BumpCountsOnce'
  <2> SUFFICES ASSUME NEW d \in Components, disk'[d].file = "ok", before[d].file = "ok"
               PROVE  disk'[d].bump - before[d].bump = 0
    BY <1>2 DEF BumpCountsOnce, IInv, PhaseInv
  <2>1. CASE d = c BY <1>1, <1>5, <2>1, SaveStores, LockType
  <2>2. CASE d # c
    BY <1>2, <1>3, <2>2 DEF RunInv, BumpCountsOnce, IInv, PhaseInv
  <2> QED BY <2>1, <2>2
<1> QED BY <1>6, <1>7, <1>8, <1>9, <1>10 DEF RunInv

\* Pruning touches no component of the run.
LEMMA PruneRun == ASSUME IInv, RunInv, NEW c \in Components, Prune(c) PROVE RunInv'
<1>1. TypeOK BY DEF IInv
<1>2. /\ phase = "prune" /\ c \in todo
      /\ UNCHANGED <<opts, comps, phase, result, cfg, before, status, ctxDone>>
  BY DEF Prune, Quiet, world
<1>3. c \notin comps BY <1>2 DEF IInv, PhaseInv
<1>4. \A d \in Components : \/ disk'[d] = disk[d]
                            \/ d = c /\ disk'[d].file = "missing"
  <2>1. \/ disk' = disk \/ disk' = [disk EXCEPT ![c] = Blank("missing")] BY DEF Prune
  <2>2. Blank("missing").file = "missing" BY BlankType
  <2>3. disk \in [Components -> Locks] BY <1>1 DEF TypeOK
  <2> QED BY <2>1, <2>2, <2>3
<1>5. Untouched' /\ Compelled' /\ Honest' /\ Clean'
  BY <1>2 DEF RunInv, Untouched, Compelled, Honest, Clean, Open
<1>6. Written'
  BY <1>1, <1>2, <1>3, <1>4 DEF RunInv, Written, Open, Stored, Fingerprint, TypeOK
<1>7. BumpCountsOnce'
  BY <1>2, <1>4 DEF RunInv, BumpCountsOnce, IInv, PhaseInv
<1> QED BY <1>5, <1>6, <1>7 DEF RunInv

\* Each bump is one more than the lock had at the start.
LEMMA BumpRun == ASSUME IInv, RunInv, NEW c \in Components, BumpOne(c) PROVE RunInv'
<1>1. TypeOK BY DEF IInv
<1>2. /\ phase = "bump" /\ c \in todo /\ todo' = todo \ {c}
      /\ UNCHANGED <<opts, comps, phase, exit, before>>
      /\ disk' = [disk EXCEPT ![c] = BumpedLock(c)] /\ Bumpable(c)
  BY DEF BumpOne, Bumping, Quiet
<1>3. \A d \in Components \ {c} : disk'[d] = disk[d]
  BY <1>1, <1>2 DEF TypeOK
<1>4. disk'[c].bump - before[c].bump = 1 /\ c \in comps
  <2>1. disk'[c] = BumpedLock(c) BY <1>1, <1>2 DEF TypeOK
  <2>2. BumpedLock(c).bump = disk[c].bump + 1 BY <1>1, <1>2, BumpedLockType
  <2>3. disk[c] = before[c] /\ c \in comps BY <1>2 DEF RunInv, Untouched
  <2> QED BY <1>1, <2>1, <2>2, <2>3, LockType
<1>5. opts.bump /\ exit # "ok" BY <1>2 DEF IInv, PhaseInv
<1>6. Untouched'
  BY <1>1, <1>2, <1>3 DEF RunInv, Untouched, TypeOK
<1>7. Compelled' /\ Honest' /\ Clean' /\ Written'
  BY <1>2 DEF Compelled, Honest, Clean, Written, Open
<1>8. BumpCountsOnce'
  BY <1>2, <1>3, <1>4, <1>5 DEF RunInv, BumpCountsOnce
<1> QED BY <1>6, <1>7, <1>8 DEF RunInv

\* The ways a run ends or passes to its next phase.
LEMMA PassRun ==
    ASSUME IInv, RunInv,
           \/ CheckCancelled \/ AfterSave \/ ListFail \/ PruneEnd \/ BumpEnd \/ Crash
           \/ \E c \in Components : SaveAbort(c) \/ SaveFail(c) \/ BumpFail(c)
    PROVE  RunInv'
<1>1. TypeOK /\ PhaseInv BY DEF IInv
<1>2. phase # "idle" => (opts.bump <=> phase = "bump") BY <1>1 DEF PhaseInv
<1>3. CASE CheckCancelled
  <2>1. phase = "resolve"
        /\ UNCHANGED <<cfg, disk, before, opts, comps, result, status, ctxDone>>
    BY <1>3 DEF CheckCancelled, Quiet, world
  <2>2. CASE ctxDone
    <3>1. Ends("cancelled") /\ "cancelled" \in Exits BY <1>3, <2>2 DEF CheckCancelled, Exits
    <3> QED BY <1>2, <2>1, <3>1, EndRun
  <2>3. CASE ~ctxDone
    BY <1>3, <2>1, <2>3, AdvanceRun DEF CheckCancelled, Kept
  <2> QED BY <2>2, <2>3
<1>4. CASE AfterSave
  <2>1. phase = "save" /\ todo = {}
        /\ UNCHANGED <<cfg, disk, before, opts, comps, result, status, ctxDone>>
    BY <1>4 DEF AfterSave, Quiet, world
  <2>2. \/ \E e \in {"unresolved", "stale", "ok"} : Ends(e)
        \/ Failed = {} /\ opts.all /\ phase' = "prune" /\ todo' = Orphans /\ exit' = exit
    BY <1>4 DEF AfterSave
  <2>3. {"unresolved", "stale", "ok"} \subseteq Exits BY DEF Exits
  <2>4. CASE \E e \in {"unresolved", "stale", "ok"} : Ends(e)
    BY <1>2, <2>1, <2>3, <2>4, EndRun
  <2>5. CASE Failed = {} /\ opts.all /\ phase' = "prune" /\ todo' = Orphans /\ exit' = exit
    BY <2>1, <2>5, AdvanceRun
  <2> QED BY <2>2, <2>4, <2>5
<1>5. CASE ListFail
  <2>1. "aborted" \in Exits BY DEF Exits
  <2> QED BY <1>2, <1>5, <2>1, EndRun DEF ListFail, Quiet
<1>6. CASE PruneEnd
  <2>1. \E e \in {"ok", "aborted"} : Ends(e)
    BY <1>1, <1>6 DEF PruneEnd, PhaseInv
  <2>2. {"ok", "aborted"} \subseteq Exits BY DEF Exits
  <2> QED BY <1>2, <1>6, <2>1, <2>2, EndRun DEF PruneEnd, Quiet
<1>7. CASE BumpEnd
  <2>1. (todo = {} /\ Ends("ok")) \/ Ends("cancelled")
    BY <1>7 DEF BumpEnd
  <2>2. {"ok", "cancelled"} \subseteq Exits BY DEF Exits
  <2> QED BY <1>7, <2>1, <2>2, EndRun DEF BumpEnd, Bumping, Quiet
<1>8. CASE Crash
  <2>1. "crashed" \in Exits BY DEF Exits
  <2> QED BY <1>8, <2>1, EndRun DEF Crash, Quiet
<1>9. ASSUME NEW c \in Components, SaveAbort(c) \/ SaveFail(c) \/ BumpFail(c)
      PROVE  RunInv'
  <2>1. "aborted" \in Exits BY DEF Exits
  <2>2. /\ Ends("aborted") /\ UNCHANGED <<opts, comps, before>> /\ phase # "idle"
        /\ \/ disk' = disk
           \/ c \in todo /\ Torn(c)
    BY <1>9 DEF SaveAbort, SaveFail, BumpFail, Saving, Bumping, Quiet
  <2> QED BY <2>1, <2>2, EndRun
<1> QED BY <1>3, <1>4, <1>5, <1>6, <1>7, <1>8, <1>9

-----------------------------------------------------------------------------
(* The invariant and what follows from it *)

\* Every step keeps the invariant.
LEMMA StepRun == IInv /\ RunInv /\ [Next]_vars => RunInv'
<1> SUFFICES ASSUME IInv, RunInv, [Next]_vars PROVE RunInv' OBVIOUS
<1>1. CASE RunStep
  BY <1>1, ResolveRun, SaveRun, PruneRun, BumpRun, PassRun DEF RunStep
<1>2. CASE Cancel BY <1>2, CancelRun
<1>3. CASE Crash BY <1>3, PassRun
<1>4. CASE EnvStep BY <1>4, EnvRun
<1>5. CASE \E o \in Options : StartRun(o) BY <1>5, StartRunInv
<1>6. CASE UNCHANGED vars
  <2>1. UNCHANGED <<cfg, disk, opts, comps, phase, todo, result, exit, status, ctxDone, before>>
    BY <1>6 DEF vars, world, runvars
  <2>2. Compelled' BY <2>1 DEF RunInv, Compelled, Open, MustResolve
  <2>3. Untouched' /\ Honest' /\ Clean' /\ Written' /\ BumpCountsOnce'
    BY <2>1 DEF RunInv, Untouched, Honest, Clean, Written, Open, Stored, Fingerprint,
                BumpCountsOnce
  <2> QED BY <2>2, <2>3 DEF RunInv
<1> QED BY <1>1, <1>2, <1>3, <1>4, <1>5, <1>6 DEF Next

\* During a run only pruning removes a lock.
LEMMA OnlyPruneRemoves ==
    ASSUME IInv, Next, NEW c \in Components, phase # "idle",
           disk[c].file # "missing", disk'[c].file = "missing"
    PROVE  \E d \in Components : Prune(d) /\ d = c
<1>1. TypeOK BY DEF IInv
<1>2. disk' # disk OBVIOUS
<1>3. \A d \in Components :
         Torn(d) => disk'[c] = disk[c] \/ disk'[c].file = "corrupt"
  BY <1>1, BlankType DEF Torn, TypeOK
<1>4. ~Crash
  <2>1. todo \subseteq Components BY <1>1 DEF TypeOK
  <2> QED BY <1>3, <2>1 DEF Crash
<1>5. ~EnvStep /\ ~Cancel /\ \A o \in Options : ~StartRun(o)
  BY <1>2 DEF EnvStep, MoveTip, EditConfig, AddOrRemove, DeleteLock, Cancel, StartRun, Start
<1>6. ~CheckCancelled /\ ~AfterSave /\ ~ListFail /\ ~PruneEnd /\ ~BumpEnd
  BY <1>2 DEF CheckCancelled, AfterSave, ListFail, PruneEnd, BumpEnd
<1>7. ASSUME NEW d \in Components
      PROVE  ~(\/ BeginResolve(d) \/ ResolveOk(d) \/ ResolveFail(d) \/ SkipResolve(d)
               \/ SaveAbort(d))
  BY <1>2 DEF BeginResolve, ResolveOk, ResolveFail, SkipResolve, Resolving, SaveAbort
<1>8. ASSUME NEW d \in Components PROVE ~SaveFail(d) /\ ~BumpFail(d)
  BY <1>3 DEF SaveFail, BumpFail
<1>9. ASSUME NEW d \in Components, SaveOne(d) PROVE FALSE
  <2>1. disk' = [disk EXCEPT ![d] = NewLock(d, result[d])] BY <1>2, <1>9 DEF SaveOne
  <2>2. NewLock(d, result[d]).file = "ok" BY DEF NewLock
  <2> QED BY <1>1, <2>1, <2>2 DEF TypeOK
<1>10. ASSUME NEW d \in Components, BumpOne(d) PROVE FALSE
  <2>1. disk' = [disk EXCEPT ![d] = BumpedLock(d)] BY <1>10 DEF BumpOne
  <2>2. BumpedLock(d).file = disk[d].file BY DEF BumpedLock
  <2> QED BY <1>1, <2>1, <2>2 DEF TypeOK
<1>11. ASSUME NEW d \in Components, Prune(d) PROVE d = c
  BY <1>1, <1>11 DEF Prune, TypeOK
<1> QED BY <1>4, <1>5, <1>6, <1>7, <1>8, <1>9, <1>10, <1>11 DEF Next, RunStep

\* Only a save changes the commit of a lock that stays readable.
LEMMA OnlySaveMovesCommits ==
    ASSUME IInv, Next, NEW c \in Components,
           disk[c].file = "ok", disk'[c].file = "ok", disk'[c].commit # disk[c].commit
    PROVE  SaveOne(c) /\ disk'[c] = NewLock(c, result[c])
<1>1. TypeOK BY DEF IInv
<1>2. disk' # disk OBVIOUS
<1>3. \A d \in Components :
         Torn(d) => disk'[c] = disk[c] \/ disk'[c].file = "corrupt"
  BY <1>1, BlankType DEF Torn, TypeOK
<1>4. ~Crash
  <2>1. todo \subseteq Components BY <1>1 DEF TypeOK
  <2> QED BY <1>3, <2>1 DEF Crash
<1>5. ~Cancel /\ \A o \in Options : ~StartRun(o)
  BY <1>2 DEF Cancel, StartRun, Start
<1>6. ASSUME NEW d \in Components, disk' = [disk EXCEPT ![d] = Blank("missing")] PROVE FALSE
  <2>1. Blank("missing").file = "missing" BY BlankType
  <2> HIDE DEF Blank
  <2> QED BY <1>1, <1>6, <2>1 DEF TypeOK
<1>7. ~EnvStep
  BY <1>2, <1>6 DEF EnvStep, MoveTip, EditConfig, AddOrRemove, DeleteLock
<1>8. ~CheckCancelled /\ ~AfterSave /\ ~ListFail /\ ~PruneEnd /\ ~BumpEnd
  BY <1>2 DEF CheckCancelled, AfterSave, ListFail, PruneEnd, BumpEnd
<1>9. ASSUME NEW d \in Components
      PROVE  ~(\/ BeginResolve(d) \/ ResolveOk(d) \/ ResolveFail(d) \/ SkipResolve(d)
               \/ SaveAbort(d) \/ Prune(d))
  BY <1>2, <1>6
  DEF BeginResolve, ResolveOk, ResolveFail, SkipResolve, Resolving, SaveAbort, Prune
<1>10. ASSUME NEW d \in Components PROVE ~SaveFail(d) /\ ~BumpFail(d)
  BY <1>3 DEF SaveFail, BumpFail
<1>11. ASSUME NEW d \in Components, BumpOne(d) PROVE FALSE
  <2>1. disk' = [disk EXCEPT ![d] = BumpedLock(d)] BY <1>11 DEF BumpOne
  <2>2. BumpedLock(d).commit = disk[d].commit BY DEF BumpedLock
  <2> QED BY <1>1, <2>1, <2>2 DEF TypeOK
<1>12. ASSUME NEW d \in Components, SaveOne(d) PROVE d = c /\ disk'[c] = NewLock(c, result[c])
  <2>1. disk' = [disk EXCEPT ![d] = NewLock(d, result[d])] BY <1>2, <1>12 DEF SaveOne
  <2> QED BY <1>1, <2>1 DEF TypeOK
<1> QED BY <1>4, <1>5, <1>7, <1>8, <1>9, <1>10, <1>11, <1>12 DEF Next, RunStep

\* The invariant holds in every state of every run sequence.
THEOREM RunInductive == Spec => [](IInv /\ RunInv)
<1>1. Init => RunInv BY InitRun
<1> QED BY <1>1, InitInv, StepInv, StepRun, PTL DEF Spec

\* --bump raises each selected counter by one, or not at all when it stops
\* before it; an update touches none.
THEOREM BumpsCountOnce == Spec => []BumpCountsOnce
<1>1. RunInv => BumpCountsOnce BY DEF RunInv
<1> QED BY <1>1, RunInductive, PTL

\* What a run that did not abort found out is in the locks (update.go:64-66).
THEOREM SuccessesAreWritten == Spec => SuccessesWritten
<1>1. IInv /\ RunInv /\ [Next]_vars =>
        [exit = "running" /\ exit' \in {"ok", "unresolved"}
            /\ ~opts.bump /\ ~opts.checkOnly =>
         \A c \in comps : result[c].kind \in {"reuse", "resolved"} =>
            /\ disk'[c].file = "ok" /\ disk'[c].commit = result[c].commit
            /\ disk'[c].fp = Fingerprint(cfg[c], result[c].id, disk'[c].bump)]_vars
  <2> SUFFICES ASSUME IInv, RunInv, Next, exit = "running", exit' \in {"ok", "unresolved"},
                      ~opts.bump, ~opts.checkOnly,
                      NEW c \in comps, result[c].kind \in Kept
               PROVE  /\ disk'[c].file = "ok" /\ disk'[c].commit = result[c].commit
                      /\ disk'[c].fp = Fingerprint(cfg[c], result[c].id, disk'[c].bump)
    BY DEF Kept
  <2>1. AfterSave \/ PruneEnd
    <3>1. \A d \in Components : ~(\/ BeginResolve(d) \/ ResolveOk(d) \/ ResolveFail(d)
                                  \/ SkipResolve(d) \/ SaveOne(d) \/ SaveAbort(d) \/ SaveFail(d)
                                  \/ Prune(d) \/ BumpOne(d) \/ BumpFail(d))
      BY DEF BeginResolve, ResolveOk, ResolveFail, SkipResolve, Resolving, SaveOne, SaveAbort,
             SaveFail, Prune, BumpOne, BumpFail, Ends
    <3>2. ~EnvStep
      BY DEF EnvStep, MoveTip, EditConfig, AddOrRemove, DeleteLock, Moves, runvars
    <3>3. ~Cancel /\ ~Crash /\ ~ListFail /\ ~CheckCancelled
      BY DEF Cancel, Crash, ListFail, CheckCancelled, Ends, runvars
    <3>4. ~BumpEnd BY DEF BumpEnd, Bumping, IInv, PhaseInv
    <3>5. \A o \in Options : ~StartRun(o) BY DEF StartRun, Start
    <3> QED BY <3>1, <3>2, <3>3, <3>4, <3>5 DEF Next, RunStep
  <2>2. phase \in {"save", "prune"} /\ (phase = "save" => todo = {}) /\ disk' = disk
    BY <2>1 DEF AfterSave, PruneEnd
  <2>3. Stored(c) BY <2>2 DEF RunInv, Written, Open
  <2> QED BY <2>2, <2>3 DEF Stored
<1> QED BY <1>1, RunInductive, PTL DEF Spec, SuccessesWritten

\* Pruning takes only locks of components that are gone, at the end of a run
\* over everything in which nothing failed.
THEOREM PruningIsTheLastStep == Spec => PruneOnlyAfterCleanRun
<1>1. IInv /\ RunInv /\ [Next]_vars =>
        [\A c \in Components :
            phase # "idle" /\ disk[c].file # "missing" /\ disk'[c].file = "missing" =>
               /\ opts.all /\ ~opts.checkOnly /\ ~opts.bump /\ c \notin present
               /\ \A d \in comps : result[d].kind \notin {"error", "skipped"}]_vars
  <2> SUFFICES ASSUME IInv, RunInv, Next, NEW c \in Components, phase # "idle",
                      disk[c].file # "missing", disk'[c].file = "missing"
               PROVE  /\ opts.all /\ ~opts.checkOnly /\ ~opts.bump /\ c \notin present
                      /\ \A d \in comps : result[d].kind \notin {"error", "skipped"}
    OBVIOUS
  <2>1. \E d \in Components : Prune(d) /\ d = c
    BY OnlyPruneRemoves
  <2>2. phase = "prune" /\ c \in todo BY <2>1 DEF Prune
  <2> QED BY <2>2 DEF IInv, PhaseInv, RunInv, Clean
<1> QED BY <1>1, RunInductive, PTL DEF Spec, PruneOnlyAfterCleanRun

\* Upstream moving behind an unchanged snapshot or pin moves no locked commit
\* (fingerprint.go:209-213).
THEOREM CommitsAreStable == Spec => StableCommit
<1>1. IInv /\ RunInv /\ [Next]_vars =>
        [\A c \in Components :
            disk[c].file = "ok" /\ disk'[c].file = "ok"
            /\ disk'[c].commit # disk[c].commit =>
               \/ opts.force \/ cfg[c].type = "local" \/ cfg[c].res \in Heads
               \/ disk[c].res # cfg[c].res \/ disk[c].fp = None \/ disk[c].commit = None]_vars
  <2> SUFFICES ASSUME IInv, RunInv, Next, NEW c \in Components,
                      disk[c].file = "ok", disk'[c].file = "ok",
                      disk'[c].commit # disk[c].commit
               PROVE  \/ opts.force \/ cfg[c].type = "local" \/ cfg[c].res \in Heads
                      \/ disk[c].res # cfg[c].res \/ disk[c].fp = None \/ disk[c].commit = None
    OBVIOUS
  <2>1. SaveOne(c) /\ disk'[c] = NewLock(c, result[c])
    BY OnlySaveMovesCommits
  <2>2. /\ phase = "save" /\ c \in todo /\ Savable(c)
    BY <2>1 DEF SaveOne, Saving
  <2>3. disk'[c].commit = result[c].commit
    BY <2>1 DEF NewLock
  <2>4. result[c].kind \in Kept
        /\ (result[c].kind = "reuse" => disk[c].commit = result[c].commit)
    BY <2>2 DEF IInv, ResultInv, TypeOK
  <2>5. result[c].kind = "resolved" BY <2>3, <2>4 DEF Kept
  <2>6. MustResolve(c, opts.force) BY <2>2, <2>5 DEF RunInv, Compelled, Open
  <2> QED
    BY <2>2, <2>6, ConfigType DEF MustResolve, Savable, IInv
<1> QED BY <1>1, RunInductive, PTL DEF Spec, StableCommit

-----------------------------------------------------------------------------
(* What a run that went well says of the project *)

\* What a result says of the component and, if its commit was kept, of its
\* lock, before and after it is saved.
Verdict(c) ==
    /\ result[c].kind = "resolved" /\ ~drifted =>
          /\ result[c].id = Identity(c)
          /\ result[c].commit = IF cfg[c].type = "upstream" THEN Identity(c) ELSE None
    /\ result[c].kind \in {"current", "reuse"} =>
          /\ cfg[c].type = "upstream" /\ cfg[c].res \notin Heads /\ cfg[c].build \notin BadBuilds
          /\ result[c].id = result[c].commit /\ result[c].id \in Commits
          /\ disk[c].file = "ok" /\ disk[c].res = cfg[c].res /\ disk[c].commit = result[c].commit
    /\ result[c].kind = "current" =>
          disk[c].fp = Fingerprint(cfg[c], result[c].id, disk[c].bump)

\* A component without a result is still with the pool.
Answered(c) == result[c].kind = "none" =>
                  phase = "resolve" /\ status[c] \in {"pending", "running"}

\* What was saved, or would not change, is stored.
Saved(c) == result[c].kind \in Kept /\ (~opts.checkOnly \/ ~result[c].changed) =>
               /\ Stored(c)
               /\ ~opts.checkOnly /\ cfg[c].type = "upstream" => disk[c].res = cfg[c].res

FreshInv ==
    /\ phase # "idle" /\ opts.all => comps = present
    /\ phase \in {"resolve", "save", "prune"} => \A c \in comps : Verdict(c) /\ Answered(c)
    /\ phase \in {"save", "prune"} => \A c \in comps \ Open : Saved(c)
    /\ phase = "prune" => ~opts.checkOnly
    /\ phase = "prune" /\ exit = "running" => Orphans = todo
    /\ UpdateIsIdempotent /\ CheckOkMeansFresh

\* What is stored of a component whose verdict stands describes it, and the
\* next update would leave its lock as it is, but for the resolution hash.
LEMMA StoredDescribes ==
    ASSUME IInv, NEW c \in comps, Verdict(c), ~drifted,
           result[c].kind \in {"current", "reuse", "resolved"},
           result[c].kind # "current" => Stored(c),
           result[c].id \in Commits
    PROVE  /\ Describes(c)
           /\ NextLock(c).commit = disk[c].commit /\ NextLock(c).fp = disk[c].fp
           /\ (cfg[c].type = "upstream" => disk[c].res = cfg[c].res) => NextLock(c) = disk[c]
<1>1. TypeOK /\ c \in Components BY DEF IInv, TypeOK
<1> DEFINE up == cfg[c].type = "upstream"
<1>2. disk[c].file = "ok" /\ disk[c].commit = result[c].commit
      /\ disk[c].fp = Fingerprint(cfg[c], result[c].id, disk[c].bump)
  BY DEF Verdict, Stored
<1>3. /\ up => result[c].commit = result[c].id
      /\ ~up => result[c].commit = None /\ result[c].id = Identity(c)
      /\ up => \/ result[c].id = Identity(c)
               \/ cfg[c].res \notin Heads /\ cfg[c].build \notin BadBuilds /\ disk[c].res = cfg[c].res
  BY DEF Verdict
<1>4. cfg[c].type \in {"upstream", "local"} /\ disk[c] \in Locks
  BY <1>1, ConfigType DEF TypeOK
<1>5. disk[c].fp # None
  <2>1. Fingerprint(cfg[c], result[c].id, disk[c].bump) \in Fingerprints
    BY <1>1, FingerprintType, ConfigType, LockType
  <2> QED BY <1>2, <2>1, HashAssumption
<1>6. up => disk[c].commit # None
  BY <1>2, <1>3, ConfigAssumption DEF Commits
<1>7. Describes(c)
  BY <1>2, <1>3, <1>6 DEF Describes
<1>8. CASE MustResolve(c, FALSE)
  <2>1. disk[c].commit = IF up THEN Identity(c) ELSE None
    BY <1>2, <1>3, <1>5, <1>6, <1>8 DEF MustResolve
  <2>2. up \/ result[c].id = Identity(c) BY <1>3
  <2>3. disk[c].fp = Fingerprint(cfg[c], Identity(c), disk[c].bump)
    BY <1>2, <1>3, <2>1, <2>2
  <2> DEFINE r == Resolved(c)
  <2>4. r.kind = "resolved" /\ r.commit = disk[c].commit /\ r.id = Identity(c) /\ ~r.changed
    BY <1>2, <2>1 DEF Resolved
  <2>5. NewLock(c, r).commit = disk[c].commit /\ NewLock(c, r).fp = disk[c].fp
        /\ NewLock(c, r).res = IF up THEN cfg[c].res ELSE disk[c].res
    BY <2>3, <2>4 DEF NewLock
  <2> HIDE DEF r
  <2>6. NextLock(c) = IF Writes(c, r) THEN NewLock(c, r) ELSE disk[c]
    BY <1>8, <2>4 DEF NextLock, r
  <2>7. (up => disk[c].res = cfg[c].res) => ~Writes(c, r)
    BY <2>4, <2>5 DEF Writes, Changes
  <2> QED BY <1>7, <2>5, <2>6, <2>7
<1>9. CASE ~MustResolve(c, FALSE)
  <2>1. up /\ result[c].id = disk[c].commit
    BY <1>2, <1>3, <1>4, <1>9 DEF MustResolve
  <2>2. Reuse(c).kind = "current"
    BY <1>2, <2>1 DEF Reuse
  <2>3. NextLock(c) = disk[c] BY <1>9, <2>2 DEF NextLock
  <2> QED BY <1>7, <2>3
<1> QED BY <1>8, <1>9

\* A saved result is stored, and the inputs with it.
LEMMA SaveSaves == ASSUME IInv, RunInv, NEW c \in Components, SaveOne(c), Verdict(c)
                   PROVE  Saved(c)' /\ Verdict(c)'
<1>1. TypeOK BY DEF IInv
<1>2. /\ phase = "save" /\ c \in todo
      /\ UNCHANGED <<opts, comps, phase, cfg, tip, drifted>>
      /\ result' = [result EXCEPT ![c] = Noted(c)]
      /\ IF Writes(c, result[c]) /\ ~opts.checkOnly
         THEN disk' = [disk EXCEPT ![c] = NewLock(c, result[c])]
         ELSE disk' = disk
  BY DEF SaveOne, Saving, Quiet, world
<1>3. /\ result'[c].id = result[c].id /\ result'[c].commit = result[c].commit
      /\ result'[c].kind = result[c].kind
      /\ result'[c].changed = Changes(c, result[c])
  BY <1>1, <1>2, NotedType DEF TypeOK, Noted, Results
<1>4. /\ result[c] \in Results /\ result[c].id \in Commits /\ result[c].kind \in Kept
  BY <1>1, <1>2 DEF IInv, ResultInv, TypeOK
<1>5. /\ NewLock(c, result[c]).file = "ok"
      /\ NewLock(c, result[c]).commit = result[c].commit
      /\ NewLock(c, result[c]).fp = Fingerprint(cfg[c], result[c].id, disk[c].bump)
      /\ cfg[c].type = "upstream" => NewLock(c, result[c]).res = cfg[c].res
  BY <1>1, <1>4, NewLockType
<1>6. \/ disk'[c] = NewLock(c, result[c])
      \/ /\ disk'[c] = disk[c]
         /\ ~opts.checkOnly => disk[c].res = NewLock(c, result[c]).res
  BY <1>1, <1>2 DEF TypeOK, Writes
<1>7. Identity(c)' = Identity(c) BY <1>2 DEF Identity
<1>8. Verdict(c)'
  BY <1>2, <1>3, <1>4, <1>5, <1>6, <1>7 DEF Verdict, Kept
<1>9. opts.checkOnly /\ ~result'[c].changed => Stored(c)'
  <2> SUFFICES ASSUME opts.checkOnly, ~Changes(c, result[c]) PROVE Stored(c)'
    BY <1>3
  <2>1. disk' = disk BY <1>2
  <2>2. ~result[c].changed /\ disk[c].fp = NewLock(c, result[c]).fp BY DEF Changes
  <2>3. disk[c].file = "ok" /\ disk[c].commit = result[c].commit
    BY <1>1, <1>2, <1>4, <2>2 DEF IInv, ResultInv, RunInv, Honest, Open, Kept
  <2> QED BY <1>2, <1>3, <1>5, <2>1, <2>2, <2>3 DEF Stored, Fingerprint
<1>10. ~opts.checkOnly => Stored(c)' BY SaveStores
<1>11. ~opts.checkOnly /\ cfg[c].type = "upstream" => disk'[c].res = cfg[c].res
  BY <1>5, <1>6
<1>12. Saved(c)' BY <1>2, <1>9, <1>10, <1>11 DEF Saved
<1> QED BY <1>8, <1>12

\* While nothing of a component changes, neither does what is known of it.
LEMMA SameVerdict ==
    ASSUME NEW c \in Components, result'[c] = result[c], disk'[c] = disk[c], cfg' = cfg,
           opts' = opts, ((drifted' = drifted /\ tip' = tip) \/ drifted')
    PROVE  /\ Verdict(c) => Verdict(c)'
           /\ Saved(c) => Saved(c)'
<1>1. ~drifted' => Identity(c)' = Identity(c) /\ drifted' = drifted BY DEF Identity
<1>2. Fingerprint(cfg[c], result[c].id, disk[c].bump)' = Fingerprint(cfg[c], result[c].id, disk[c].bump)
  BY DEF Fingerprint
<1>3. Verdict(c) => Verdict(c)' BY <1>1, <1>2 DEF Verdict
<1>4. Saved(c) => Saved(c)' BY <1>2 DEF Saved, Stored
<1> QED BY <1>3, <1>4

\* What an update would leave depends on the lock, the configuration and the
\* identity of the component alone.
LEMMA SameNextLock ==
    ASSUME NEW c, cfg' = cfg, disk' = disk, Identity(c)' = Identity(c)
    PROVE  NextLock(c)' = NextLock(c)
<1>1. Resolved(c)' = Resolved(c) BY DEF Resolved, NoResult
<1>2. Reuse(c)' = Reuse(c) BY DEF Reuse, Fingerprint
<1>3. MustResolve(c, FALSE)' <=> MustResolve(c, FALSE) BY DEF MustResolve
<1>4. CASE MustResolve(c, FALSE)
  BY ZenonT(40), <1>1, <1>3, <1>4 DEF NextLock, Writes, Changes, NewLock, Fingerprint
<1>5. CASE ~MustResolve(c, FALSE)
  BY ZenonT(40), <1>2, <1>3, <1>5 DEF NextLock, Writes, Changes, NewLock, Fingerprint
<1> QED BY <1>4, <1>5

\* A step inside a run, or around one, that ends none and keeps the locks and
\* the results keeps what is known.
LEMMA QuietFresh ==
    ASSUME IInv, FreshInv, UNCHANGED <<present, cfg, disk, opts, comps, result, phase, todo, exit>>,
           ((drifted' = drifted /\ tip' = tip) \/ drifted'),
           \A c \in Components : Answered(c) => Answered(c)'
    PROVE  FreshInv'
<1>1. comps \subseteq Components BY DEF IInv, TypeOK
<1>2. \A c \in Components : /\ Verdict(c) => Verdict(c)'
                            /\ Saved(c) => Saved(c)'
  BY SameVerdict
<1>3. Orphans' = Orphans BY DEF Orphans
<1>4. Open' = Open BY DEF Open
<1>5. UpdateIsIdempotent' /\ CheckOkMeansFresh'
  <2>1. CASE drifted' BY <2>1 DEF UpdateIsIdempotent, CheckOkMeansFresh
  <2>2. CASE ~drifted'
    <3>1. ASSUME NEW c \in Components
          PROVE  Describes(c)' = Describes(c) /\ NextLock(c)' = NextLock(c)
      <4>1. Identity(c)' = Identity(c) BY <2>2 DEF Identity
      <4>2. Describes(c)' = Describes(c) BY <4>1 DEF Describes, Fingerprint
      <4>3. NextLock(c)' = NextLock(c) BY <4>1, SameNextLock
      <4> QED BY <4>2, <4>3
    <3>2. present \subseteq Components BY DEF IInv, TypeOK
    <3> QED BY <1>1, <1>3, <2>2, <3>1, <3>2 DEF FreshInv, UpdateIsIdempotent, CheckOkMeansFresh
  <2> QED BY <2>1, <2>2
<1> QED BY <1>1, <1>2, <1>3, <1>4, <1>5 DEF FreshInv

\* Between runs the environment only makes the last run's word out of date.
LEMMA EnvFresh == ASSUME IInv, FreshInv, EnvStep PROVE FreshInv'
<1>1. drifted' BY DEF EnvStep, MoveTip, EditConfig, AddOrRemove, DeleteLock, Moves
<1>2. CASE phase = "idle"
  <2>1. phase' = "idle"
    BY <1>2 DEF EnvStep, MoveTip, EditConfig, AddOrRemove, DeleteLock, Moves, runvars
  <2> QED BY <1>1, <2>1 DEF FreshInv, UpdateIsIdempotent, CheckOkMeansFresh
<1>3. CASE phase # "idle"
  <2>1. \E c \in Components, s \in Sources, i \in Ids : MoveTip(c, s, i)
    BY <1>3 DEF EnvStep, EditConfig, AddOrRemove, DeleteLock
  <2>2. UNCHANGED <<present, cfg, disk, opts, comps, result, phase, todo, exit, status>>
    BY <2>1 DEF MoveTip, Moves, runvars
  <2>3. \A c \in Components : Answered(c) => Answered(c)' BY <2>2 DEF Answered
  <2> QED BY <1>1, <2>2, <2>3, QuietFresh
<1> QED BY <1>2, <1>3

\* A run starts with a verdict on every component it need not resolve.
LEMMA StartFresh == ASSUME IInv, FreshInv, NEW o \in Options, StartRun(o) PROVE FreshInv'
<1> PICK S \in SUBSET present : Start(o, S) /\ (o.all => S = present)
  BY DEF StartRun
<1>1. TypeOK /\ S \subseteq Components BY DEF IInv, TypeOK
<1>2. /\ UNCHANGED <<cfg, disk, present, tip>> /\ opts' = o /\ comps' = S
      /\ exit' = "running" /\ drifted' = FALSE
  BY DEF Start, world
<1>3. UpdateIsIdempotent' /\ CheckOkMeansFresh'
  BY <1>2 DEF UpdateIsIdempotent, CheckOkMeansFresh
<1>4. CASE o.bump
  BY <1>2, <1>3, <1>4 DEF Start, FreshInv
<1>5. CASE ~o.bump
  <2>1. /\ phase' = "resolve" /\ result' = Classify(S, o.force)
        /\ status' = PM!Batch({c \in S : MustResolve(c, o.force)})
    BY <1>5 DEF Start
  <2>2. ASSUME NEW c \in S PROVE Verdict(c)' /\ Answered(c)'
    <3>1. c \in Components BY <1>1
    <3>2. CASE MustResolve(c, o.force)
      <4>1. result'[c] = NoResult("none") /\ status'[c] = "pending"
        BY <2>1, <3>1, <3>2 DEF Classify, PM!Batch
      <4> QED BY <2>1, <4>1, NoResultType DEF Verdict, Answered
    <3>3. CASE ~MustResolve(c, o.force)
      <4>1. result'[c] = Reuse(c)
        BY <2>1, <3>1, <3>3 DEF Classify
      <4>2. /\ Reuse(c).kind \in {"current", "reuse"} /\ Reuse(c).id \in Commits
            /\ Reuse(c).commit = Reuse(c).id /\ Reuse(c).commit = disk[c].commit
            /\ cfg[c].type = "upstream" /\ disk[c].res = cfg[c].res
            /\ cfg[c].res \notin Heads /\ cfg[c].build \notin BadBuilds /\ disk[c].file = "ok"
        BY <1>1, <3>1, <3>3, ReuseType DEF MustResolve
      <4>3. Reuse(c).kind = "current" =>
               disk[c].fp = Fingerprint(cfg[c], disk[c].commit, disk[c].bump)
        BY DEF Reuse
      <4> QED BY <1>2, <4>1, <4>2, <4>3 DEF Verdict, Answered, Fingerprint
    <3> QED BY <3>2, <3>3
  <2> QED BY <1>2, <1>3, <2>1, <2>2 DEF FreshInv
<1> QED BY <1>4, <1>5

\* A worker records what upstream says, and every item is answered.
LEMMA ResolveFresh ==
    ASSUME IInv, FreshInv, NEW c \in Components,
           \/ BeginResolve(c) \/ ResolveOk(c) \/ ResolveFail(c) \/ SkipResolve(c)
    PROVE  FreshInv'
<1>1. TypeOK BY DEF IInv
<1>2. /\ phase = "resolve"
      /\ UNCHANGED <<present, cfg, tip, disk, opts, comps, phase, todo, exit, drifted>>
  BY DEF BeginResolve, ResolveOk, ResolveFail, SkipResolve, Resolving, world
<1>3. \A d \in Components \ {c} : status'[d] = status[d] /\ result'[d] = result[d]
  BY <1>1 DEF BeginResolve, ResolveOk, ResolveFail, SkipResolve, PM!Begin, PM!Settle, PM!Skip,
              TypeOK, PM!PMTypeOK
<1>4. \/ result'[c] = result[c] /\ status'[c] = "running"
      \/ result'[c].kind \in {"error", "skipped"}
      \/ result'[c] = Resolved(c)
  BY <1>1, NoResultType DEF BeginResolve, ResolveOk, ResolveFail, SkipResolve, PM!Begin,
              TypeOK, PM!PMTypeOK
<1>5. ASSUME NEW d \in comps PROVE Verdict(d)' /\ Answered(d)'
  <2>1. d \in Components /\ Verdict(d) /\ Answered(d) BY <1>1, <1>2, <1>5 DEF FreshInv, TypeOK
  <2>2. CASE d # c
    <3>1. status'[d] = status[d] /\ result'[d] = result[d] BY <1>3, <2>1, <2>2
    <3>2. Answered(d)' BY <1>2, <2>1, <3>1 DEF Answered
    <3> QED BY <1>2, <2>1, <3>1, <3>2, SameVerdict
  <2>3. CASE d = c /\ result'[c] = result[c] /\ status'[c] = "running"
    <3>2. Answered(d)' BY <1>2, <2>3 DEF Answered
    <3> QED BY <1>2, <2>1, <2>3, <3>2, SameVerdict
  <2>4. CASE d = c /\ result'[c].kind \in {"error", "skipped"}
    BY <2>4 DEF Verdict, Answered
  <2>5. CASE d = c /\ result'[c] = Resolved(c)
    <3>1. Resolved(c).kind \in {"error", "resolved"} BY <1>1, ResolvedType
    <3>2. Resolved(c).kind = "resolved" =>
             /\ Resolved(c).id = Identity(c)
             /\ Resolved(c).commit = IF cfg[c].type = "upstream" THEN Identity(c) ELSE None
      BY NoResultType DEF Resolved
    <3>3. Identity(c)' = Identity(c) BY <1>2 DEF Identity
    <3> QED BY <1>2, <2>5, <3>1, <3>2, <3>3 DEF Verdict, Answered
  <2> QED BY <1>4, <2>2, <2>3, <2>4, <2>5
<1>6. exit # "ok" BY <1>2 DEF IInv, PhaseInv
<1>7. UpdateIsIdempotent' /\ CheckOkMeansFresh'
  BY <1>2, <1>6 DEF UpdateIsIdempotent, CheckOkMeansFresh
<1> QED BY <1>2, <1>5, <1>7 DEF FreshInv

\* A save stores one result and leaves the others.
LEMMA SaveFresh == ASSUME IInv, RunInv, FreshInv, NEW c \in Components, SaveOne(c)
                   PROVE  FreshInv'
<1>1. TypeOK BY DEF IInv
<1>2. /\ phase = "save" /\ c \in todo /\ todo' = todo \ {c} /\ c \in comps
      /\ UNCHANGED <<opts, comps, phase, exit, cfg, present, tip, drifted>>
  BY DEF SaveOne, Saving, Quiet, world, IInv, ResultInv
<1>3. \A d \in Components \ {c} : disk'[d] = disk[d] /\ result'[d] = result[d]
  <2>1. \/ disk' = disk \/ disk' = [disk EXCEPT ![c] = NewLock(c, result[c])]
    BY DEF SaveOne
  <2>2. result' = [result EXCEPT ![c] = Noted(c)] BY DEF SaveOne
  <2> QED BY <1>1, <2>1, <2>2 DEF TypeOK
<1>4. Saved(c)' /\ Verdict(c)'
  BY <1>2, SaveSaves DEF FreshInv
<1>5. result'[c].kind # "none"
  <2>1. result'[c].kind = result[c].kind BY <1>1, NotedType DEF SaveOne, TypeOK
  <2> QED BY <1>2, <2>1 DEF FreshInv, Answered
<1>6. ASSUME NEW d \in comps PROVE Verdict(d)' /\ Answered(d)'
  <2>1. CASE d = c BY <1>4, <1>5, <2>1 DEF Answered
  <2>2. CASE d # c
    <3>1. d \in Components /\ Verdict(d) /\ Answered(d) BY <1>1, <1>2 DEF FreshInv, TypeOK
    <3>2. result'[d] = result[d] /\ disk'[d] = disk[d] BY <1>3, <2>2, <3>1
    <3>3. Answered(d)' BY <1>2, <3>1, <3>2 DEF Answered
    <3> QED BY <1>2, <3>1, <3>2, <3>3, SameVerdict
  <2> QED BY <2>1, <2>2
<1>7. ASSUME NEW d \in comps \ Open' PROVE Saved(d)'
  <2>1. CASE d = c BY <1>4, <2>1
  <2>2. CASE d # c
    <3>1. d \in Components /\ d \notin Open BY <1>1, <1>2, <1>7, <2>2 DEF Open, TypeOK
    <3>2. Saved(d) BY <1>2, <1>7, <3>1 DEF FreshInv
    <3>3. result'[d] = result[d] /\ disk'[d] = disk[d] BY <1>3, <2>2, <3>1
    <3> QED BY <1>2, <3>1, <3>2, <3>3, SameVerdict
  <2> QED BY <2>1, <2>2
<1>8. exit # "ok" BY <1>2 DEF IInv, PhaseInv
<1>9. UpdateIsIdempotent' /\ CheckOkMeansFresh'
  BY <1>2, <1>8 DEF UpdateIsIdempotent, CheckOkMeansFresh
<1> QED BY <1>2, <1>6, <1>7, <1>9 DEF FreshInv

\* Pruning goes through the orphans, or the run does not end well.
LEMMA PruneFresh == ASSUME IInv, FreshInv, NEW c \in Components, Prune(c) PROVE FreshInv'
<1>1. TypeOK BY DEF IInv
<1>2. /\ phase = "prune" /\ c \in todo /\ todo' = todo \ {c}
      /\ UNCHANGED <<opts, comps, phase, result, cfg, present, tip, drifted>>
      /\ exit' \in {exit, "aborted"}
  BY DEF Prune, Quiet, world
<1>3. c \notin comps /\ exit # "ok" BY <1>2 DEF IInv, PhaseInv
<1>4. \A d \in comps : d \in Components /\ disk'[d] = disk[d]
  BY <1>1, <1>3 DEF Prune, TypeOK
<1>5. ASSUME NEW d \in comps PROVE Verdict(d)' /\ Answered(d)' /\ Saved(d)'
  <2>1. Verdict(d) /\ Answered(d) /\ Saved(d) BY <1>2, <1>5 DEF FreshInv, Open
  <2>2. Answered(d)' BY <1>2, <2>1 DEF Answered
  <2> QED BY <1>2, <1>4, <2>1, <2>2, SameVerdict
<1>6. exit' = "running" => Orphans' = todo'
  <2> SUFFICES ASSUME exit' = "running" PROVE Orphans' = todo' OBVIOUS
  <2>1. exit = "running" /\ disk' = [disk EXCEPT ![c] = Blank("missing")]
    BY <1>2 DEF Prune
  <2>2. Blank("missing").file = "missing" BY BlankType
  <2>3. \A d \in Components : disk'[d].file # "missing" <=> d # c /\ disk[d].file # "missing"
    BY <1>1, <2>1, <2>2 DEF TypeOK
  <2>4. Orphans = todo BY <1>2, <2>1 DEF FreshInv
  <2> QED BY <1>2, <2>3, <2>4 DEF Orphans
<1>7. UpdateIsIdempotent' /\ CheckOkMeansFresh'
  BY <1>2, <1>3 DEF UpdateIsIdempotent, CheckOkMeansFresh
<1> QED BY <1>2, <1>5, <1>6, <1>7 DEF FreshInv, Open

\* A run that ends without exit status 0 says nothing.
LEMMA EndFresh == ASSUME NEW e \in Exits, e # "ok", Ends(e) PROVE FreshInv'
BY DEF Ends, FreshInv, UpdateIsIdempotent, CheckOkMeansFresh

\* A run of all components that ends well has every lock right.
LEMMA UpdateEndsFresh == ASSUME IInv, RunInv, FreshInv, PruneEnd, Ends("ok") PROVE FreshInv'
<1>1. TypeOK BY DEF IInv
<1>2. /\ phase = "prune" /\ todo = {} /\ exit = "running" /\ ~opts.checkOnly /\ opts.all
      /\ phase' = "idle" /\ exit' = "ok"
      /\ UNCHANGED <<disk, opts, comps, result, present, cfg, tip, drifted>>
  BY DEF PruneEnd, Ends, Quiet, world, IInv, PhaseInv, RunInv, Clean
<1>3. Orphans = {} /\ comps = present BY <1>2 DEF FreshInv
<1>4. ASSUME ~drifted, NEW c \in present
      PROVE  /\ Describes(c) /\ NextLock(c) = disk[c]
             /\ cfg[c].type = "upstream" => disk[c].res = cfg[c].res
  <2>1. Verdict(c) /\ Answered(c) /\ Saved(c) BY <1>2, <1>3, <1>4 DEF FreshInv, Open
  <2>2. result[c].kind \in {"current", "reuse", "resolved"}
    <3>1. result[c].kind \notin {"none", "skipped", "error"}
      BY <1>2, <1>3, <2>1 DEF Answered, RunInv, Clean
    <3>2. c \in Components BY <1>1 DEF TypeOK
    <3> QED BY <1>1, <3>1, <3>2 DEF TypeOK, Results
  <2>3. result[c].kind # "current" => Stored(c) /\ (cfg[c].type = "upstream" => disk[c].res = cfg[c].res)
    BY <1>2, <2>1, <2>2 DEF Saved, Kept
  <2>4. cfg[c].type = "upstream" => disk[c].res = cfg[c].res
    BY <2>1, <2>2, <2>3 DEF Verdict
  <2>5. result[c].id \in Commits
    <3>1. c \in Components BY <1>1 DEF TypeOK
    <3> QED BY <1>1, <1>4, <2>1, <2>2, <3>1, IdentityType DEF Verdict
  <2> QED BY <1>3, <1>4, <2>1, <2>2, <2>3, <2>4, <2>5, StoredDescribes
<1>5. UpdateIsIdempotent'
  <2> SUFFICES ASSUME ~drifted, NEW c \in present
               PROVE  /\ Orphans' = {}
                      /\ Describes(c)' /\ NextLock(c)' = disk[c]
                      /\ cfg[c].type = "upstream" => disk[c].res = cfg[c].res
    <3>1. Orphans' = {} BY SMTT(30), <1>2, <1>3 DEF Orphans
    <3> QED BY <1>2, <3>1 DEF UpdateIsIdempotent
  <2>1. Describes(c)' = Describes(c) /\ NextLock(c)' = NextLock(c)
    BY <1>2 DEF Describes, NextLock, MustResolve, Resolved, Reuse, Writes, Changes, NewLock,
                Identity, Fingerprint, NoResult
  <2>2. Orphans' = {} BY <1>2, <1>3 DEF Orphans
  <2> QED BY <1>4, <2>1, <2>2
<1>6. CheckOkMeansFresh' BY <1>2 DEF CheckOkMeansFresh
<1> QED BY <1>2, <1>5, <1>6 DEF FreshInv

\* A check that finds nothing stale has found every lock right.
LEMMA CheckEndsFresh ==
    ASSUME IInv, RunInv, FreshInv, AfterSave, Ends("ok") PROVE FreshInv'
<1>1. TypeOK BY DEF IInv
<1>2. /\ phase = "save" /\ todo = {} /\ Failed = {}
      /\ phase' = "idle" /\ exit' = "ok"
      /\ UNCHANGED <<disk, opts, comps, result, present, cfg, tip, drifted>>
  BY DEF AfterSave, Ends, Quiet, world, IInv, PhaseInv
<1>3. CASE ~opts.checkOnly
  <2>1. ~opts.all BY <1>2, <1>3 DEF AfterSave, Ends
  <2> QED BY <1>2, <1>3, <2>1 DEF FreshInv, UpdateIsIdempotent, CheckOkMeansFresh
<1>4. CASE opts.checkOnly
  <2>1. ~(\/ \E c \in comps : result[c].changed
          \/ opts.all /\ Orphans # {})
    BY <1>2, <1>4 DEF AfterSave, Ends
  <2>2. ASSUME ~drifted, NEW c \in comps
        PROVE  /\ Describes(c)
               /\ NextLock(c).commit = disk[c].commit /\ NextLock(c).fp = disk[c].fp
    <3>1. Verdict(c) /\ Answered(c) /\ Saved(c) BY <1>2, <2>2 DEF FreshInv, Open
    <3>2. c \in Components BY <1>1 DEF TypeOK
    <3>3. result[c].kind \in {"current", "reuse", "resolved"}
      <4>1. result[c].kind \notin {"none", "skipped", "error"}
        BY <1>2, <3>1 DEF Answered, RunInv, Clean, Failed
      <4> QED BY <1>1, <3>2, <4>1 DEF TypeOK, Results
    <3>4. result[c].kind # "current" => Stored(c)
      BY <2>1, <3>1, <3>3 DEF Saved, Kept
    <3>5. result[c].id \in Commits
      BY <1>1, <2>2, <3>1, <3>2, <3>3, IdentityType DEF Verdict
    <3> QED BY <2>2, <3>1, <3>3, <3>4, <3>5, StoredDescribes
  <2>3. CheckOkMeansFresh'
    <3> SUFFICES ASSUME ~drifted
                 PROVE  /\ opts.all => Orphans' = {}
                        /\ \A c \in comps : /\ Describes(c)'
                                            /\ NextLock(c)'.commit = disk[c].commit
                                            /\ NextLock(c)'.fp = disk[c].fp
      BY SMTT(30), <1>2 DEF CheckOkMeansFresh
    <3>1. ASSUME NEW c \in comps
          PROVE  Describes(c)' = Describes(c) /\ NextLock(c)' = NextLock(c)
      BY <1>2 DEF Describes, NextLock, MustResolve, Resolved, Reuse, Writes, Changes, NewLock,
                  Identity, Fingerprint, NoResult
    <3>2. Orphans' = Orphans BY <1>2 DEF Orphans
    <3> QED BY <2>1, <2>2, <3>1, <3>2
  <2>4. UpdateIsIdempotent' BY <1>2, <1>4 DEF UpdateIsIdempotent
  <2> QED BY <1>2, <2>3, <2>4 DEF FreshInv
<1> QED BY <1>3, <1>4

\* The ways a run ends or passes to its next phase.
LEMMA PassFresh ==
    ASSUME IInv, RunInv, FreshInv,
           \/ CheckCancelled \/ AfterSave \/ ListFail \/ PruneEnd \/ BumpEnd \/ Crash
           \/ \E c \in Components : SaveAbort(c) \/ SaveFail(c) \/ BumpFail(c)
    PROVE  FreshInv'
<1>1. TypeOK /\ PhaseInv BY DEF IInv
<1>2. {"cancelled", "stale", "unresolved", "aborted", "crashed", "ok"} \subseteq Exits BY DEF Exits
<1>3. CASE ListFail \/ Crash \/ \E c \in Components : SaveAbort(c) \/ SaveFail(c) \/ BumpFail(c)
  <2>1. \E e \in {"aborted", "crashed"} : Ends(e)
    BY <1>3 DEF ListFail, Crash, SaveAbort, SaveFail, BumpFail
  <2> QED BY <1>2, <2>1, EndFresh
<1>4. CASE BumpEnd
  <2>1. opts.bump /\ ~opts.checkOnly /\ opts' = opts /\ phase' = "idle"
    BY <1>1, <1>4 DEF BumpEnd, Bumping, Ends, PhaseInv, TypeOK, Options
  <2> QED BY <2>1 DEF FreshInv, UpdateIsIdempotent, CheckOkMeansFresh
<1>5. CASE PruneEnd
  <2>1. Ends("ok") \/ \E e \in {"aborted"} : Ends(e)
    BY <1>1, <1>5 DEF PruneEnd, PhaseInv
  <2> QED BY <1>2, <1>5, <2>1, EndFresh, UpdateEndsFresh
<1>6. CASE CheckCancelled
  <2>1. CASE ctxDone BY <1>2, <1>6, <2>1, EndFresh DEF CheckCancelled
  <2>2. CASE ~ctxDone
    <3>1. /\ phase = "resolve" /\ phase' = "save" /\ exit # "ok"
          /\ todo' = {c \in comps : result[c].kind \in Kept}
          /\ UNCHANGED <<disk, opts, comps, result, present, cfg, tip, drifted, exit>>
      BY <1>1, <1>6, <2>2 DEF CheckCancelled, Quiet, world, PhaseInv, Kept
    <3>2. ASSUME NEW c \in comps PROVE Verdict(c)' /\ Answered(c)'
      <4>1. c \in Components /\ Verdict(c) /\ Answered(c) BY <1>1, <3>1, <3>2 DEF FreshInv, TypeOK
      <4>2. status[c] \notin {"pending", "running"} BY <1>6, <4>1 DEF CheckCancelled, PM!Settled
      <4>3. Answered(c)' BY <3>1, <4>1, <4>2 DEF Answered
      <4> QED BY <3>1, <4>1, <4>3, SameVerdict
    <3>3. \A c \in comps \ Open' : Saved(c)' BY <3>1 DEF Open, Saved
    <3>4. UpdateIsIdempotent' /\ CheckOkMeansFresh'
      BY <3>1 DEF UpdateIsIdempotent, CheckOkMeansFresh
    <3> QED BY <3>1, <3>2, <3>3, <3>4 DEF FreshInv
  <2> QED BY <2>1, <2>2
<1>7. CASE AfterSave
  <2>1. \/ \E e \in {"unresolved", "stale"} : Ends(e)
        \/ Ends("ok")
        \/ ~opts.checkOnly /\ opts.all /\ phase' = "prune" /\ todo' = Orphans /\ exit' = exit
    BY <1>7 DEF AfterSave
  <2>2. CASE \E e \in {"unresolved", "stale"} : Ends(e) BY <1>2, <2>2, EndFresh
  <2>3. CASE Ends("ok") BY <1>7, <2>3, CheckEndsFresh
  <2>4. CASE ~opts.checkOnly /\ opts.all /\ phase' = "prune" /\ todo' = Orphans /\ exit' = exit
    <3>1. /\ phase = "save" /\ todo = {} /\ exit # "ok"
          /\ UNCHANGED <<disk, opts, comps, result, present, cfg, tip, drifted, exit>>
      BY <1>1, <1>7, <2>4 DEF AfterSave, Quiet, world, PhaseInv
    <3>2. ASSUME NEW c \in comps PROVE Verdict(c)' /\ Answered(c)' /\ Saved(c)'
      <4>1. c \in Components /\ Verdict(c) /\ Answered(c) /\ Saved(c)
        BY <1>1, <3>1, <3>2 DEF FreshInv, Open, TypeOK
      <4>2. Answered(c)' BY <3>1, <4>1 DEF Answered
      <4> QED BY <3>1, <4>1, <4>2, SameVerdict
    <3>3. Orphans' = Orphans BY <3>1 DEF Orphans
    <3>4. UpdateIsIdempotent' /\ CheckOkMeansFresh'
      BY <3>1 DEF UpdateIsIdempotent, CheckOkMeansFresh
    <3> QED BY <2>4, <3>1, <3>2, <3>3, <3>4 DEF FreshInv, Open
  <2> QED BY <2>1, <2>2, <2>3, <2>4
<1> QED BY <1>3, <1>4, <1>5, <1>6, <1>7

\* Every step keeps what is known.
LEMMA StepFresh == IInv /\ RunInv /\ FreshInv /\ [Next]_vars => FreshInv'
<1> SUFFICES ASSUME IInv, RunInv, FreshInv, [Next]_vars PROVE FreshInv' OBVIOUS
<1>1. ASSUME NEW c \in Components, BumpOne(c) PROVE FreshInv'
  <2>1. phase = "bump" /\ phase' = phase /\ exit' = exit /\ opts' = opts /\ comps' = comps
        /\ present' = present
    BY <1>1 DEF BumpOne, Bumping, Quiet, world
  <2>2. exit # "ok" BY <2>1 DEF IInv, PhaseInv
  <2> QED BY <2>1, <2>2 DEF FreshInv, UpdateIsIdempotent, CheckOkMeansFresh
<1>2. CASE RunStep
  BY <1>1, <1>2, ResolveFresh, SaveFresh, PruneFresh, PassFresh DEF RunStep
<1>3. CASE Cancel \/ UNCHANGED vars
  <2>1. UNCHANGED <<present, cfg, disk, tip, opts, comps, result, phase, todo, exit, drifted, status>>
    BY <1>3 DEF Cancel, PM!EndContext, vars, world, runvars
  <2>2. \A c \in Components : Answered(c) => Answered(c)' BY <2>1 DEF Answered
  <2> QED BY <2>1, <2>2, QuietFresh
<1>4. CASE Crash BY <1>4, PassFresh
<1>5. CASE EnvStep BY <1>5, EnvFresh
<1>6. CASE \E o \in Options : StartRun(o) BY <1>6, StartFresh
<1> QED BY <1>2, <1>3, <1>4, <1>5, <1>6 DEF Next

\* The whole invariant holds in every state.
THEOREM FreshInductive == Spec => []FreshInv
<1>1. Init => FreshInv BY DEF Init, FreshInv, UpdateIsIdempotent, CheckOkMeansFresh
<1> QED BY <1>1, InitInv, InitRun, StepInv, StepRun, StepFresh, PTL DEF Spec

\* After a successful update of everything, and until something moves, every
\* lock describes its component and another update would write nothing.
THEOREM UpdatesAreIdempotent == Spec => []UpdateIsIdempotent
<1>1. FreshInv => UpdateIsIdempotent BY DEF FreshInv
<1> QED BY <1>1, FreshInductive, PTL

\* When --check-only exits 0 an update would change no commit and no
\* fingerprint (update.go:102-106).
THEOREM ChecksAreTrue == Spec => []CheckOkMeansFresh
<1>1. FreshInv => CheckOkMeansFresh BY DEF FreshInv
<1> QED BY <1>1, FreshInductive, PTL
=============================================================================
