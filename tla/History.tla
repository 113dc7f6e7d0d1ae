------------------------------ MODULE History ------------------------------
(***************************************************************************)
(* The synthetic history of a component (core/sources/synthistory.go, in   *)
(* the mode without lock files synthistory_upstreamcommit.go) and the      *)
(* comparison of two revisions (cmds/component/changed.go).                *)
(*                                                                         *)
(* The project is a git repository.  Of one component it holds the         *)
(* configuration, the tracked file (the lock, or the generated pin in the  *)
(* mode without locks) and the rendered `sources`.  When sources are       *)
(* prepared, every commit of the project that changed the component        *)
(* becomes a commit of the dist-git checkout, placed after the upstream    *)
(* commit it was made for; the last one carries the working tree.  The     *)
(* number of these commits is what the release grows by.                   *)
(*                                                                         *)
(* Dist-git's mainline is 1, 2, .., Tip; a component may be pinned to any. *)
(***************************************************************************)
EXTENDS Naturals, SequencesExt, Picks

CONSTANTS
  Cfgs,           \* the build inputs a component may be configured with
  Tip,            \* the last commit of dist-git
  MaxLog,         \* bound: the commits of the project
  MaxWork,        \* bound: changes of the working tree between two commits
  Absent, Err, Hand

(* Err is none of the answers there are when nothing fails.                *)
ASSUME HistoryAssumption ==
  /\ Tip \in Nat \ {0} /\ MaxLog \in Nat /\ MaxWork \in Nat
  /\ Err \notin Seq(Nat) \cup Seq([at : Nat, pin : Nat]) \cup Seq([kind : {"upstream", "synthetic"}, id : Nat])

VARIABLES
  mode,      \* "lock" or "pin" (--without-lockfile)
  tree,      \* the working tree: [cfg, file, src]
  log,       \* the commits of the project, oldest first: trees
  nwork      \* changes since the last commit

vars == <<mode, tree, log, nwork>>

TrackedFiles == [fp : (Cfgs \X (1 .. Tip)) \cup {Absent}, pin : 1 .. Tip, imp : 1 .. Tip \cup {Absent}]
Trees == [cfg : Cfgs \cup {Absent}, file : TrackedFiles \cup {Absent}, src : 1 .. Tip \cup {Absent, Hand}]
HistoryTypeOK == mode \in {"lock", "pin"} /\ tree \in Trees /\ log \in Seq(Trees) /\ nwork \in 0 .. MaxWork

NoTree == [cfg |-> Absent, file |-> Absent, src |-> Absent]
FileAt(l, i) == IF i = 0 THEN Absent ELSE l[i].file

(* git log of the tracked file: the commits that touched it.               *)
FileLog(l) == Pick([i \in DOMAIN l |-> i], {i \in DOMAIN l : FileAt(l, i) # FileAt(l, i - 1)})

(* FindFingerprintChanges: those where the fingerprint is another one.  A  *)
(* commit that removed the lock cannot be read, and none is then found.    *)
FingerprintChanges(l) ==
  LET touched == FileLog(l)
      fp(k)   == IF k = 0 THEN Absent ELSE FileAt(l, touched[k]).fp
  IN IF \E k \in DOMAIN touched : FileAt(l, touched[k]) = Absent THEN Err
     ELSE LET new == Pick(touched, {k \in DOMAIN touched : fp(k) # fp(k - 1)})
          IN [n \in DOMAIN new |-> [at |-> new[n], pin |-> FileAt(l, new[n]).pin]]

(* FindUpstreamCommitChanges: every commit that touched the pin, with the  *)
(* pin before it where it removed the file.                                *)
UpstreamCommitChanges(l) ==
  [k \in DOMAIN FileLog(l) |->
     LET i == FileLog(l)[k]
     IN [at |-> i, pin |-> IF FileAt(l, i) = Absent THEN FileAt(l, i - 1).pin ELSE FileAt(l, i).pin]]

(* A plausible slip: the entry names the pin HEAD's lock has.              *)
DirtyChangeHead(l, t) == IF <<t.cfg, t.file.pin>> = Last(l).file.fp THEN <<>>
                         ELSE <<[at |-> Len(l) + 1, pin |-> Last(l).file.pin]>>

(* computeCurrentFingerprint and BuildDirtyChange: an entry for what is    *)
(* not committed yet.                                                      *)
Fingerprint(cfg, pin) == <<cfg, pin>>
DirtyChange(l, t) == IF Fingerprint(t.cfg, t.file.pin) = Last(l).file.fp THEN <<>>
                     ELSE <<[at |-> Len(l) + 1, pin |-> t.file.pin]>>

(* buildSyntheticCommits: nothing without a lock at HEAD.                  *)
LockChanges(l, t) ==
  IF l = <<>> \/ FileAt(l, Len(l)) = Absent THEN <<>>
  ELSE IF FingerprintChanges(l) = Err THEN Err ELSE FingerprintChanges(l) \o DirtyChange(l, t)

Changes(l, t) == IF mode = "lock" THEN LockChanges(l, t) ELSE UpstreamCommitChanges(l)
ImportCommit(l) == IF mode = "lock" /\ l # <<>> /\ Last(l).file # Absent THEN Last(l).file.imp ELSE Absent

(* A plausible slip: the import commit itself is left out.                 *)
UpstreamCommitsAfter(head, imp, pin) ==
  LET low == IF imp = Absent THEN 1 ELSE imp + 1
  IN IF pin > head THEN Err ELSE [k \in 1 .. (pin + 1) - low |-> low + k - 1]

(* collectUpstreamCommits: from the checkout down to the import commit, or *)
(* to the root; what lies above the pin is left out.                       *)
UpstreamCommits(head, imp, pin) ==
  LET low == IF imp = Absent THEN 1 ELSE imp
  IN IF pin > head \/ pin < low THEN Err
     ELSE [k \in 1 .. pin - low + 1 |-> low + k - 1]

Upstream(u) == [kind |-> "upstream", id |-> u]
Synthetic(c) == [kind |-> "synthetic", id |-> c.at]

(* A plausible slip: every change goes on top.                             *)
InterleavedOnTop(ups, changes) ==
  [k \in DOMAIN ups |-> Upstream(ups[k])] \o [k \in DOMAIN changes |-> Synthetic(changes[k])]

(* buildInterleavedSequence: changes for the last pin on top, the others   *)
(* behind their upstream commit, and those of an unknown one nowhere.      *)
Interleaved(ups, changes) ==
  LET latest == Last(changes).pin
      of(u)  == Pick(changes, {i \in DOMAIN changes : changes[i].pin = u /\ u # latest})
      Syn(s) == [k \in DOMAIN s |-> Synthetic(s[k])]
  IN FlattenSeq([k \in DOMAIN ups |-> <<Upstream(ups[k])>> \o Syn(of(ups[k]))])
       \o Syn(Pick(changes, {i \in DOMAIN changes : changes[i].pin = latest}))

(* trySyntheticHistory and CommitInterleavedHistory.                       *)
Sequence(l, t) ==
  LET changes == Changes(l, t)
      ups     == UpstreamCommits(t.file.pin, ImportCommit(l), Last(changes).pin)
  IN IF changes \in {Err, <<>>} THEN changes
     ELSE IF ups = Err THEN Err ELSE Interleaved(ups, changes)

(* BumpStaticRelease: what a static release grows by.                      *)
Release(l, t) == IF Changes(l, t) = Err THEN Err ELSE Len(Changes(l, t))

(* A plausible slip: locks are compared by their upstream commit.          *)
ClassifyByPin(from, to, configured) ==
  CASE from.file = Absent /\ to.file = Absent -> "unchanged"
    [] from.file = Absent /\ to.file # Absent -> "added"
    [] from.file # Absent /\ to.file = Absent -> IF configured THEN "changed" ELSE "deleted"
    [] OTHER -> IF from.file.pin = to.file.pin THEN "unchanged" ELSE "changed"

-----------------------------------------------------------------------------
(* `changed --from --to`: classifyComponent, for a component that is       *)
(* configured (a lost lock means that it has changed) and for one that is  *)
(* known from its locks alone.                                             *)
Classify(from, to, configured) ==
  CASE from.file = Absent /\ to.file = Absent -> "unchanged"
    [] from.file = Absent /\ to.file # Absent -> "added"
    [] from.file # Absent /\ to.file = Absent -> IF configured THEN "changed" ELSE "deleted"
    [] OTHER -> IF from.file.fp = to.file.fp THEN "unchanged" ELSE "changed"

(* The same without locks: the project is loaded at both revisions, and a  *)
(* component is compared by what of its configuration a build reads and by *)
(* its pin.                                                                *)
InProject(t) == t.cfg # Absent
ComparisonInputs(t) == <<t.cfg, t.file>>
ClassifyInputs(from, to) ==
  CASE ~InProject(from) /\ ~InProject(to) -> "unchanged"
    [] ~InProject(from) /\ InProject(to)  -> "added"
    [] InProject(from) /\ ~InProject(to)  -> "deleted"
    [] OTHER -> IF ComparisonInputs(from) = ComparisonInputs(to) THEN "unchanged" ELSE "changed"

(* compareSources: the rendered `sources` of the two revisions.            *)
SourcesDiffer(from, to) == from.src # to.src
HaveMatchingFingerprints(from, to) == from.file # Absent /\ to.file # Absent /\ from.file.fp = to.file.fp

(* classifyAndCompareSources: a fingerprint both locks share vouches for   *)
(* the sources.                                                            *)
IntegrityViolated(from, to) == mode = "lock" /\ SourcesDiffer(from, to) /\ HaveMatchingFingerprints(from, to)

Changed(from, to) == IF mode = "lock" THEN Classify(from, to, tree.cfg # Absent) ELSE ClassifyInputs(from, to)

-----------------------------------------------------------------------------
Work(t) == nwork < MaxWork /\ tree' = t /\ t # tree /\ nwork' = nwork + 1 /\ UNCHANGED <<mode, log>>

Edit == \E cfg \in Cfgs \cup {Absent} : Work([tree EXCEPT !.cfg = cfg])

(* component update, or refresh-upstream-commit: the lock or the pin of    *)
(* the commit the component now resolves to, or of one the user set it to; *)
(* the import commit is kept once it is there.  The file of a component    *)
(* that is gone is pruned.                                                 *)
Update ==
  \/ tree.cfg = Absent /\ Work([tree EXCEPT !.file = Absent])
  \/ tree.cfg # Absent /\ \E pin \in 1 .. Tip :
       Work([tree EXCEPT !.file =
               [fp  |-> IF mode = "lock" THEN Fingerprint(tree.cfg, pin) ELSE Absent, pin |-> pin,
                imp |-> IF mode = "pin" THEN Absent ELSE IF tree.file = Absent THEN pin ELSE tree.file.imp]])

(* component render: the sources of the pinned commit; none for a          *)
(* component that is gone.                                                 *)
Render ==
  \/ tree.cfg # Absent /\ tree.file # Absent /\ Work([tree EXCEPT !.src = tree.file.pin])
  \/ tree.cfg = Absent /\ Work([tree EXCEPT !.src = Absent])

HandEdit == tree.src # Absent /\ Work([tree EXCEPT !.src = Hand])

(* git commit, of everything or of all but the rendered sources.           *)
Commit ==
  /\ Len(log) < MaxLog /\ nwork > 0
  /\ \E all \in BOOLEAN :
       log' = Append(log, IF all THEN tree
                          ELSE [tree EXCEPT !.src = IF log = <<>> THEN Absent ELSE Last(log).src])
  /\ nwork' = 0 /\ UNCHANGED <<mode, tree>>

Init == mode \in {"lock", "pin"} /\ tree = NoTree /\ log = <<>> /\ nwork = 0
Next == Edit \/ Update \/ Render \/ HandEdit \/ Commit
Spec == Init /\ [][Next]_vars

-----------------------------------------------------------------------------
(* The lock in the working tree is the one `component update` leaves.      *)
Updated(t) == t.cfg # Absent /\ t.file # Absent /\ (mode = "lock" => t.file.fp = Fingerprint(t.cfg, t.file.pin))
Prefix(n) == SubSeq(log, 1, n)
Committed(n) == Sequence(Prefix(n), log[n])

(* The pin never moved back, nor behind the import commit, and the tracked *)
(* file was never removed nor made anew.                                   *)
Forward(n) == \A i \in 1 .. n :
                LET old == FileAt(log, i - 1)  new == FileAt(log, i)
                IN \/ new = Absent /\ old = Absent
                   \/ /\ new # Absent /\ (new.imp # Absent => new.pin >= new.imp)
                      /\ old # Absent => new.pin >= old.pin /\ new.imp = old.imp

(* What is rendered before a commit is what is rendered after it: with the *)
(* lock of HEAD in place and the component updated, the history and the    *)
(* release made from the dirty working tree (BuildDirtyChange) are those   *)
(* made from the commit of that tree.                                      *)
DirtyIsPrediction ==
  mode = "lock" /\ log # <<>> /\ Updated(tree) /\ Last(log).file # Absent /\ tree.file.imp = Last(log).file.imp =>
    LET after == Append(log, tree)
    IN Sequence(log, tree) = Sequence(after, tree) /\ Release(log, tree) = Release(after, tree)

(* As long as the pin moves forward, a later build's history extends an    *)
(* earlier one's: no entry of a changelog that was published changes its   *)
(* place or goes away (CommitInterleavedHistory).                          *)
HistoryIsAppendOnly ==
  \A n \in 1 .. Len(log) :
    LET m == Len(log)
    IN Forward(m) /\ Updated(log[n]) /\ Updated(log[m]) => IsPrefix(Committed(n), Committed(m))

(* Each change is in the history once, behind the upstream commit it was   *)
(* made for and before the next one, in the order of the project; the last *)
(* entry, which carries the overlays, is the last change.                  *)
NothingIsLost ==
  LET m == Len(log)  s == Committed(m)  cs == Changes(log, log[m])
      place(c) == {k \in DOMAIN s : s[k] = Synthetic(c)}
      ups(k)   == {s[j].id : j \in {j \in 1 .. k : s[j].kind = "upstream"}}
  IN m > 0 /\ Forward(m) /\ Updated(log[m]) /\ cs # <<>> =>
       /\ s # Err /\ Last(s) = Synthetic(Last(cs))
       /\ \A c \in ToSet(cs) : \E k \in DOMAIN s :
            place(c) = {k} /\ ups(k) = (IF ImportCommit(log) = Absent THEN 1 ELSE ImportCommit(log)) .. c.pin
       /\ Pick(s, {k \in DOMAIN s : s[k].kind = "synthetic"}) = [k \in DOMAIN cs |-> Synthetic(cs[k])]

(* What was published stays, and what is added is all of it: both of the   *)
(* above, of every history of a component (CommitInterleavedHistory).      *)
HistoryIsKept == HistoryIsAppendOnly /\ NothingIsLost

(* Two revisions that `changed` calls unchanged, or does not fail on, were *)
(* rendered from the same sources where both were rendered; and revisions  *)
(* that are both cleanly rendered never make it fail.                      *)
ChangedIsHonest ==
  \A n, m \in 1 .. Len(log) :
    LET from == log[n]  to == log[m]
        clean(t) == t.cfg # Absent /\ t.file # Absent /\ t.src = t.file.pin /\ Updated(t)
    IN /\ clean(from) /\ clean(to) => ~IntegrityViolated(from, to)
       /\ n < m /\ Updated(from) /\ Updated(to) /\ Changed(from, to) = "unchanged" =>
            /\ from.cfg = to.cfg /\ from.file.pin = to.file.pin
            /\ mode = "lock" /\ clean(from) /\ ~IntegrityViolated(from, to) => to.src = from.src

=============================================================================
