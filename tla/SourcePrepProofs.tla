--------------------------- MODULE SourcePrepProofs ---------------------------
(***************************************************************************)
(* Proofs about SourcePrep, for every set of names and contents, every     *)
(* configuration and every number of attempts.                             *)
(*                                                                         *)
(* What the properties say of the end of a preparation follows from what   *)
(* is known of each file while it runs: by which step it came to be where  *)
(* it is.  Working says that, and IInv is inductive.                       *)
(***************************************************************************)
EXTENDS SourcePrep, TLAPS

Late == phase \in {"files", "overlays", "merge"}

\* The download under way is the one the current entry asks for.
JobInv == job # Idle =>
    /\ phase \in {"extract", "files"}
    /\ phase = "extract" => /\ job.from = "sources" /\ job.name \in todo
                            /\ job.want = conf.listed[job.name]
    /\ phase = "files" => /\ next \in DOMAIN conf.refs
                          /\ ~conf.skip /\ Current.origin = "download"
                          /\ job.from \in {"lookaside", "origin"}
                          /\ job.name = Current.name /\ job.want = Current.hash

\* What the phases before the current one have done.
OrderInv ==
    /\ phase \in {"start", "tree"} => files = [d \in Dirs |-> Empty] /\ todo = {}
    /\ phase \in {"start", "tree", "extract"} => next = 1
    /\ phase = "extract" => todo \subseteq (IF Extracts THEN Wanted ELSE {})
    /\ phase = "extract" /\ conf.upstream => files["out"] = Empty
    /\ Late \/ ~conf.upstream => files["clone"] = Empty
    /\ phase # "start" /\ conf.apply => Matched
    /\ phase \in {"overlays", "merge"} => conf.apply /\ (~conf.skip => next = Len(conf.refs) + 1)
    /\ phase = "overlays" => todo \subseteq Changed
    /\ Late => sources = conf.listed

\* n has been repacked.
Reworked(n) == n \in Changed /\ (phase = "merge" \/ (phase = "overlays" /\ n \notin todo))

InFlight(d, n) == job # Idle /\ Target = d /\ job.name = n
Checked(n)     == ~Generated(n) /\ Expected(n) # None
Raw(n)         == {None, conf.tree[n], Expected(n)}

\* The clone holds what is committed and what `sources` lists.
CloneInv == \A n \in Names :
    \/ files["clone"][n] \in {None, conf.tree[n]}
    \/ n \in Wanted /\ files["clone"][n] = conf.listed[n]
    \/ InFlight("clone", n)

\* A file with a hash is missing, committed, checked or not checked yet, or
\* repacked from one of those.
OutInv == \A n \in Names : Checked(n) =>
    \/ files["out"][n] \in Raw(n)
    \/ InFlight("out", n)
    \/ Reworked(n) /\ \E v \in Raw(n) \ {None} : files["out"][n] = Repacked(v)

\* Listed files that are not committed are downloaded, and left alone.
ListedInv == Extracts => \A n \in Wanted : conf.tree[n] = None =>
    /\ phase = "extract" /\ n \in todo => files[Work][n] = None \/ InFlight(Work, n)
    /\ phase = "extract" /\ n \notin todo => files[Work][n] = conf.listed[n]
    /\ Late /\ ~Reworked(n) => files["out"][n] = conf.listed[n]

\* The entries that FetchFiles is through with have the hash they declare.
FetchedInv == Late /\ ~conf.skip => \A i \in 1..(next - 1) :
    LET r == conf.refs[i]
    IN  r.origin # "overlay" /\ r.hash # None /\ ~Reworked(r.name) =>
            files["out"][r.name] = r.hash

Working == ~Ended => JobInv /\ OrderInv /\ CloneInv /\ OutInv /\ ListedInv /\ FetchedInv

OnlyChecked == Ended => files["clone"] = Empty /\ NoWrongFile
Results == OnlyChecked /\ ListIsTrue /\ RenderedListIsBuilt

IInv == TypeOK /\ Working /\ InputsAreVerified /\ Results

\* Where a file may have been cut short: nowhere before the tree is there or
\* if nothing is downloaded, and not in a clone that is gone or was not made.
CutInv ==
    /\ ~Ended => /\ phase \in {"start", "tree"} \/ conf.skip => cut = {}
                 /\ Late \/ ~conf.upstream => "clone" \notin cut
    /\ Ended => "clone" \notin cut /\ (result = "ok" /\ conf.skip => cut = {})

-----------------------------------------------------------------------------
(* Configurations                                                          *)

\* Every definition of the configuration stays as it is while conf does.
LEMMA ConfOnly ==
    ASSUME conf' = conf
    PROVE  /\ RefNames' = RefNames /\ Fetched' = Fetched /\ Wanted' = Wanted
           /\ Matched' = Matched /\ Changed' = Changed
           /\ Extracts' = Extracts /\ Work' = Work /\ Declared' = Declared
           /\ \A n : Generated(n)' = Generated(n) /\ Expected(n)' = Expected(n)
                    /\ RefOf(n)' = RefOf(n) /\ Checked(n)' = Checked(n) /\ Raw(n)' = Raw(n)
                    /\ Committed(n)' = Committed(n) /\ Bootstrapped(n)' = Bootstrapped(n)
<1>1. RefNames' = RefNames /\ Fetched' = Fetched BY DEF RefNames, Fetched
<1>2. \A n : RefOf(n)' = RefOf(n) BY DEF RefOf
<1>3. \A n : Generated(n)' = Generated(n) /\ Expected(n)' = Expected(n)
  BY <1>1, <1>2 DEF Generated, Expected
<1>4. Wanted' = Wanted BY <1>1 DEF Wanted
<1>5. Matched' = Matched BY <1>1 DEF Matched
<1>6. Changed' = Changed /\ Extracts' = Extracts /\ Work' = Work
  BY DEF Changed, Extracts, Work
<1>7. Declared' = Declared BY <1>1, <1>2 DEF Declared
<1> QED BY <1>1, <1>2, <1>3, <1>4, <1>5, <1>6, <1>7 DEF Checked, Raw, Committed, Bootstrapped

\* An entry is found by its name, and is fetched unless an overlay makes it.
LEMMA EntryFacts ==
    ASSUME IsConfig(conf), NEW i \in DOMAIN conf.refs
    PROVE  LET r == conf.refs[i]
           IN  /\ r \in Refs /\ r.name \in Names /\ r.hash \in Maybe
               /\ r.name \in RefNames /\ RefOf(r.name) = r
               /\ r.name \in Fetched <=> r.origin # "overlay"
<1> DEFINE r == conf.refs[i]
<1>1. conf.refs \in Seq(Refs) BY DEF IsConfig, SourcesFiles
<1>2. r \in Refs BY <1>1
<1>3. r.name \in Names /\ r.hash \in Maybe BY <1>2 DEF Refs, Origins
<1>4. r \in ToSet(conf.refs) BY DEF ToSet
<1>5. \A s \in ToSet(conf.refs) : s.name = r.name => s = r
  BY DEF IsConfig, SourcesFiles, ToSet
<1>6. RefOf(r.name) = r BY <1>4, <1>5 DEF RefOf
<1>7. r.name \in RefNames BY <1>4 DEF RefNames
<1>8. r.name \in Fetched <=> r.origin # "overlay" BY <1>4, <1>5 DEF Fetched
<1> QED BY <1>2, <1>3, <1>6, <1>7, <1>8

\* Every name of an entry has its entry.
LEMMA EntryOfName ==
    ASSUME IsConfig(conf), NEW n \in RefNames
    PROVE  \E i \in DOMAIN conf.refs : conf.refs[i].name = n /\ RefOf(n) = conf.refs[i]
<1>1. PICK r \in ToSet(conf.refs) : r.name = n BY DEF RefNames
<1>2. PICK i \in DOMAIN conf.refs : conf.refs[i] = r BY <1>1 DEF ToSet
<1> QED BY <1>1, <1>2, EntryFacts

\* Wanted files are listed, and are not among those FetchFiles acquires.
LEMMA WantedFacts ==
    ASSUME NEW n \in Wanted
    PROVE  /\ n \in Names /\ n \notin Fetched /\ ~Generated(n)
           /\ Expected(n) = conf.listed[n] /\ Checked(n)
BY DEF Wanted, Generated, Expected, Checked

\* A download the configuration asks for is one whose hash counts.
LEMMA DownloadFacts ==
    ASSUME IsConfig(conf), NEW i \in DOMAIN conf.refs, conf.refs[i].origin = "download"
    PROVE  LET r == conf.refs[i]
           IN  /\ r.name \in Fetched /\ r.name \notin Wanted
               /\ ~Generated(r.name) /\ Expected(r.name) = r.hash
<1>1. conf.refs[i].name \in Fetched /\ RefOf(conf.refs[i].name) = conf.refs[i]
  BY EntryFacts
<1> QED BY <1>1 DEF Wanted, Generated, Expected

-----------------------------------------------------------------------------
(* Files                                                                   *)

\* The types of contents.
LEMMA ValueTypes == /\ Contents \subseteq Maybe /\ None \in Maybe /\ Values \subseteq Maybe
                    /\ \A c \in Contents : Repacked(c) \in Maybe
                    /\ None \notin Values
BY PrepAssumption DEF Maybe, Values

\* What Put does.
LEMMA PutEffect ==
    ASSUME TypeOK, NEW d \in Dirs, NEW n \in Names, NEW v \in Maybe, Put(d, n, v)
    PROVE  /\ files' \in [Dirs -> [Names -> Maybe]]
           /\ \A e \in Dirs \ {d} : files'[e] = files[e]
           /\ \A m \in Names \ {n} : files'[d][m] = files[d][m]
           /\ files'[d][n] = v
BY DEF TypeOK, Put

\* A file that is as it should be, or was before it was repacked, is no leftover.
Sound(n, v) == v \in Raw(n) \/ \E w \in Raw(n) \ {None} : v = Repacked(w)

LEMMA SoundIsClean ==
    ASSUME NEW n, NEW v, Sound(n, v)
    PROVE  v \in {None} \cup UNION {{w, Repacked(w)} : w \in {conf.tree[n], Expected(n)}}
BY DEF Sound, Raw

\* Two values of a file without a download of it are sound.
LEMMA OutIsSound ==
    ASSUME OutInv, NEW n \in Names, Checked(n), ~InFlight("out", n)
    PROVE  Sound(n, files["out"][n])
BY DEF OutInv, Sound

\* What a step that ends the preparation has to show.
LEMMA EndShows ==
    ASSUME conf' = conf, result' \in {"ok", "failed"}, files'["clone"] = Empty,
           \A n \in Names : Checked(n) => Sound(n, files'["out"][n]),
           result' = "ok" => ListIsTrue' /\ RenderedListIsBuilt'
    PROVE  Results' /\ Working'
<1>1. Working' BY DEF Working, Ended
<1>2. OnlyChecked'
  <2> SUFFICES ASSUME NEW n \in Names, Checked(n)
               PROVE  files'["out"][n] \in {None} \cup
                        UNION {{w, Repacked(w)} : w \in {conf.tree[n], Expected(n)}}
    BY ConfOnly DEF OnlyChecked, NoWrongFile, Checked, Empty
  <2> QED BY SoundIsClean
<1>3. ListIsTrue' /\ RenderedListIsBuilt'
  BY DEF ListIsTrue, Consistent, RenderedListIsBuilt
<1> QED BY <1>1, <1>2, <1>3 DEF Results

\* Nothing is claimed of a preparation that goes on.
LEMMA NoResultYet == ASSUME result' = "none" PROVE Results'
BY DEF Results, OnlyChecked, Ended, ListIsTrue, Consistent, RenderedListIsBuilt

\* What scripts were given before stays verified.
LEMMA SameInputs ==
    ASSUME InputsAreVerified, conf' = conf, read' = read
    PROVE  InputsAreVerified'
BY ConfOnly DEF InputsAreVerified

-----------------------------------------------------------------------------
(* The start, the tree and the end of the context                          *)

\* Empty directories hold nothing wrong.
LEMMA BareFiles ==
    ASSUME files = [d \in Dirs |-> Empty]
    PROVE  /\ CloneInv /\ OutInv
           /\ \A n \in Names : Sound(n, files["out"][n])
           /\ \A d \in Dirs : files[d] = Empty
BY DEF CloneInv, OutInv, Sound, Raw, Dirs, Empty

LEMMA InitInv == Init => IInv
<1> SUFFICES ASSUME Init PROVE IInv OBVIOUS
<1>1. IsConfig(conf) BY PrepAssumption DEF Init
<1>2. TypeOK
  <2>1. files \in [Dirs -> [Names -> Maybe]] /\ sources \in [Names -> Maybe] /\ final \in [Names -> Maybe]
    BY ValueTypes DEF Init, Empty
  <2>2. Len(conf.refs) \in Nat BY <1>1 DEF IsConfig, SourcesFiles
  <2>3. job \in Jobs BY ValueTypes, PrepAssumption DEF Init, Idle, Jobs
  <2>4. next \in 1..(Len(conf.refs) + 1) BY <2>2 DEF Init
  <2>5. todo \subseteq Names /\ read \subseteq [entry : Nat, name : Names, held : Values]
    BY DEF Init
  <2> QED BY <1>1, <2>1, <2>3, <2>4, <2>5 DEF Init, TypeOK
<1>3. Working
  BY BareFiles DEF Init, Working, JobInv, OrderInv, ListedInv, FetchedInv, Late, Dirs
<1>4. InputsAreVerified BY DEF Init, InputsAreVerified
<1>5. Results
  BY DEF Init, Results, OnlyChecked, Ended, ListIsTrue, Consistent, RenderedListIsBuilt
<1> QED BY <1>2, <1>3, <1>4, <1>5 DEF IInv

\* In a phase without downloads, no download is under way.
LEMMA NoJob ==
    ASSUME IInv, ~Ended, phase \notin {"extract", "files"} \/ (phase = "extract" /\ todo = {})
    PROVE  job = Idle
BY DEF IInv, Working, JobInv

LEMMA ValidateStep == ASSUME IInv, Validate PROVE IInv'
<1>1. ~Ended /\ phase = "start" /\ job = Idle BY NoJob DEF Validate, Wait
<1>2. files = [d \in Dirs |-> Empty] /\ todo = {} /\ next = 1
  BY <1>1 DEF IInv, Working, OrderInv
<1>3. TypeOK' BY DEF IInv, TypeOK, Validate, Fail
<1>4. InputsAreVerified' BY SameInputs DEF IInv, Validate
<1>5. CASE conf.apply /\ ~Matched
  BY <1>2, <1>3, <1>4, <1>5, BareFiles, EndShows DEF Validate, Fail, IInv, Dirs
<1>6. CASE ~(conf.apply /\ ~Matched)
  <2>1. /\ phase' = "tree" /\ result' = result /\ job' = Idle /\ files' = files
        /\ UNCHANGED <<conf, todo, next>>
    BY <1>1, <1>6 DEF Validate
  <2>2. CloneInv' /\ OutInv' BY <1>2, <2>1, BareFiles DEF CloneInv, OutInv, Raw, Checked, Empty, Dirs
  <2>3. JobInv' /\ OrderInv' /\ ListedInv' /\ FetchedInv'
    BY <1>2, <1>6, <2>1, ConfOnly, BareFiles DEF JobInv, OrderInv, ListedInv, FetchedInv, Late, Dirs
  <2>4. result' = "none" BY <1>1, <2>1 DEF Ended
  <2> QED BY <1>3, <1>4, <2>2, <2>3, <2>4, NoResultYet DEF IInv, Working
<1> QED BY <1>5, <1>6

LEMMA TreeStep == ASSUME IInv, Tree PROVE IInv'
<1>1. ~Ended /\ phase = "tree" /\ job = Idle BY NoJob DEF Tree, Wait
<1>2. files = [d \in Dirs |-> Empty] /\ next = 1 /\ (conf.apply => Matched)
  BY <1>1 DEF IInv, Working, OrderInv
<1>3. Work \in Dirs /\ conf.tree \in [Names -> Contents \cup {None}] /\ conf.upstream \in BOOLEAN
  BY DEF Work, Dirs, IInv, TypeOK, IsConfig, SourcesFiles
<1>4. files'[Work] = conf.tree /\ \A d \in Dirs \ {Work} : files'[d] = Empty
  BY <1>2, <1>3 DEF Tree
<1>5. TypeOK'
  <2>1. conf.tree \in [Names -> Maybe] BY <1>3, ValueTypes
  <2>2. files' \in [Dirs -> [Names -> Maybe]] BY <1>3, <2>1 DEF Tree, IInv, TypeOK
  <2>3. todo' \subseteq Names BY DEF Tree, Go, Wanted
  <2> QED BY <2>2, <2>3 DEF IInv, TypeOK, Tree, Go
<1>6. InputsAreVerified' BY SameInputs DEF IInv, Tree
<1>7. /\ phase' = "extract" /\ todo' = (IF Extracts THEN Wanted ELSE {}) /\ result' = result
      /\ job' = Idle /\ next' = 1 /\ conf' = conf
  BY <1>1, <1>2 DEF Tree, Go
<1>8. CloneInv'
  BY <1>3, <1>4, <1>7 DEF CloneInv, Dirs, Empty, InFlight
<1>9. OutInv'
  BY <1>3, <1>4, <1>7, ConfOnly DEF OutInv, Dirs, Empty, Raw
<1>10. ListedInv'
  BY <1>3, <1>4, <1>7, ConfOnly DEF ListedInv, Late, Wanted
<1>11. JobInv' /\ FetchedInv' BY <1>7 DEF JobInv, FetchedInv, Late
<1>12. OrderInv'
  BY <1>2, <1>3, <1>4, <1>7, ConfOnly DEF OrderInv, Late, Dirs, Work
<1>13. result' = "none" BY <1>1, <1>7 DEF Ended
<1> QED BY <1>5, <1>6, <1>8, <1>9, <1>10, <1>11, <1>12, <1>13, NoResultYet DEF IInv, Working

LEMMA TreeFailStep == ASSUME IInv, TreeFail PROVE IInv'
<1>1. ~Ended /\ phase = "tree" /\ files = [d \in Dirs |-> Empty]
  BY DEF TreeFail, Wait, IInv, Working, OrderInv
<1>2. conf.tree \in [Names -> Contents \cup {None}] BY DEF IInv, TypeOK, IsConfig, SourcesFiles
<1>3. PICK S \in SUBSET Names :
        files' = IF conf.upstream THEN files
                 ELSE [files EXCEPT !["out"] = [n \in Names |-> IF n \in S THEN conf.tree[n] ELSE None]]
  BY DEF TreeFail
<1>4. files' \in [Dirs -> [Names -> Maybe]]
  <2>1. [n \in Names |-> IF n \in S THEN conf.tree[n] ELSE None] \in [Names -> Maybe]
    BY <1>2, ValueTypes
  <2> QED BY <1>3, <2>1 DEF IInv, TypeOK
<1>5. TypeOK' BY <1>4 DEF IInv, TypeOK, TreeFail, Fail
<1>6. files'["clone"] = Empty BY <1>1, <1>3 DEF Dirs
<1>7. \A n \in Names : Sound(n, files'["out"][n])
  <2> TAKE n \in Names
  <2>1. files'["out"][n] \in {None, conf.tree[n]} BY <1>1, <1>3 DEF Dirs, Empty
  <2> QED BY <2>1 DEF Sound, Raw
<1>8. InputsAreVerified' BY SameInputs DEF IInv, TreeFail
<1> QED BY <1>5, <1>6, <1>7, <1>8, EndShows DEF IInv, TreeFail, Fail

\* The end of the context changes nothing that is known of the files.
LEMMA ContextStep ==
    ASSUME IInv, ctxDone' \in BOOLEAN,
           UNCHANGED <<conf, phase, todo, next, job, files, cut, sources, final, read, result>>
    PROVE  IInv'
<1>1. TypeOK' BY DEF IInv, TypeOK
<1>2. InputsAreVerified' BY SameInputs DEF IInv
<1>3. CASE ~Ended
  <2>1. JobInv /\ OrderInv /\ CloneInv /\ OutInv /\ ListedInv /\ FetchedInv
    BY <1>3 DEF IInv, Working
  <2>2. JobInv' /\ OrderInv' /\ FetchedInv'
    BY <2>1, ConfOnly DEF JobInv, OrderInv, FetchedInv, Late, Current, Reworked
  <2>3. CloneInv' /\ OutInv' /\ ListedInv'
    BY <2>1, ConfOnly DEF CloneInv, OutInv, ListedInv, InFlight, Target, Reworked, Late
  <2>4. result' = "none" BY <1>3 DEF Ended
  <2> QED BY <1>1, <1>2, <2>2, <2>3, <2>4, NoResultYet DEF IInv, Working
<1>4. CASE Ended
  <2>1. Working' BY <1>4 DEF Working, Ended
  <2>2. OnlyChecked'
    BY ConfOnly DEF IInv, Results, OnlyChecked, NoWrongFile, Ended, Empty
  <2>3. ListIsTrue' BY ConfOnly DEF IInv, Results, ListIsTrue, Consistent
  <2>4. RenderedListIsBuilt' BY ConfOnly DEF IInv, Results, RenderedListIsBuilt
  <2> QED BY <1>1, <1>2, <2>1, <2>2, <2>3, <2>4 DEF IInv, Results
<1> QED BY <1>3, <1>4

-----------------------------------------------------------------------------
(* Downloads                                                               *)

\* Whose file the download under way will be.
LEMMA JobFacts ==
    ASSUME IInv, Pending
    PROVE  /\ job.name \in Names /\ Target \in Dirs /\ job.want \in Maybe
           /\ ~Generated(job.name) /\ Expected(job.name) = job.want /\ ~Reworked(job.name)
           /\ \/ /\ phase = "extract" /\ job.name \in todo /\ job.name \in Wanted
                 /\ job.from = "sources" /\ Target = Work /\ Extracts
              \/ /\ phase = "files" /\ Target = "out" /\ job.from \in {"lookaside", "origin"}
                 /\ next \in DOMAIN conf.refs /\ job.name = conf.refs[next].name
                 /\ job.want = conf.refs[next].hash /\ conf.refs[next].origin = "download"
                 /\ job.name \notin Wanted /\ ~conf.skip
<1>1. ~Ended /\ job # Idle /\ JobInv /\ OrderInv BY DEF Pending, IInv, Working
<1>2. IsConfig(conf) BY DEF IInv, TypeOK
<1>3. CASE phase = "extract"
  <2>1. job.name \in todo /\ job.from = "sources" /\ job.want = conf.listed[job.name]
    BY <1>1, <1>3 DEF JobInv
  <2>2. job.name \in Wanted /\ Extracts BY <1>1, <1>3, <2>1 DEF OrderInv
  <2>3. job.want \in Maybe
    BY <1>2, <2>1, <2>2, WantedFacts, ValueTypes DEF IsConfig, SourcesFiles
  <2> QED BY <1>3, <2>1, <2>2, <2>3, WantedFacts DEF Target, Work, Dirs, Reworked
<1>4. CASE phase = "files"
  <2>1. /\ next \in DOMAIN conf.refs /\ conf.refs[next].origin = "download" /\ ~conf.skip
        /\ job.from \in {"lookaside", "origin"}
        /\ job.name = conf.refs[next].name /\ job.want = conf.refs[next].hash
    BY <1>1, <1>4 DEF JobInv, Current
  <2> QED BY <1>2, <1>4, <2>1, EntryFacts, DownloadFacts DEF Target, Dirs, Reworked
<1> QED BY <1>1, <1>3, <1>4 DEF JobInv

\* Of the files, the step touches n in d at most.
Touches(d, n) ==
    /\ files' \in [Dirs -> [Names -> Maybe]]
    /\ \A e \in Dirs \ {d} : files'[e] = files[e]
    /\ \A m \in Names \ {n} : files'[d][m] = files[d][m]

\* Whatever comes, the file of a download that is not through is in flight.
LEMMA StillInFlight ==
    ASSUME IInv, Pending, Touches(Target, job.name), job' # Idle, Target' = Target,
           job'.name = job.name, job'.want = job.want,
           IF phase = "extract" THEN job'.from = job.from ELSE job'.from \in {"lookaside", "origin"},
           UNCHANGED <<conf, phase, todo, next, sources, result>>
    PROVE  Working'
<1>1. JobInv /\ OrderInv /\ CloneInv /\ OutInv /\ ListedInv /\ FetchedInv
  BY DEF IInv, Working, Pending
<1>2. JobInv'
  <2>1. job # Idle BY DEF Pending
  <2>2. CASE phase = "extract" BY <1>1, <2>1, <2>2 DEF JobInv
  <2>3. CASE phase = "files"
    <3>1. Current' = Current BY DEF Current
    <3>2. /\ next \in DOMAIN conf.refs /\ ~conf.skip /\ Current.origin = "download"
          /\ job.name = Current.name /\ job.want = Current.hash
      BY <1>1, <2>1, <2>3 DEF JobInv
    <3> QED BY <2>3, <3>1, <3>2 DEF JobInv
  <2> QED BY <1>1, <2>1, <2>2, <2>3 DEF JobInv
<1>3. OrderInv'
  BY <1>1, ConfOnly, JobFacts DEF OrderInv, Late, Touches, Dirs, Work
<1>4. \A d \in Dirs, n \in Names : ~InFlight(d, n)' => ~InFlight(d, n) /\ files'[d][n] = files[d][n]
  BY JobFacts DEF InFlight, Touches, Pending
<1>5. \A n \in Names : Reworked(n)' = Reworked(n) BY ConfOnly DEF Reworked
<1>6. CloneInv' BY <1>1, <1>4, ConfOnly DEF CloneInv, Dirs
<1>7. OutInv'
  <2> SUFFICES ASSUME NEW n \in Names, Checked(n), ~InFlight("out", n)'
               PROVE  \/ files'["out"][n] \in Raw(n)
                      \/ Reworked(n) /\ \E v \in Raw(n) \ {None} : files'["out"][n] = Repacked(v)
    BY <1>5, ConfOnly DEF OutInv
  <2> QED BY <1>1, <1>4 DEF OutInv, Dirs
<1>8. ListedInv'
  <2> SUFFICES ASSUME Extracts, NEW n \in Wanted, conf.tree[n] = None
               PROVE  /\ phase = "extract" /\ n \in todo => files'[Work][n] = None \/ InFlight(Work, n)'
                      /\ phase = "extract" /\ n \notin todo => files'[Work][n] = conf.listed[n]
                      /\ Late /\ ~Reworked(n) => files'["out"][n] = conf.listed[n]
    BY <1>5, ConfOnly, WantedFacts DEF ListedInv, Late
  <2>1. n \in Names /\ Work \in Dirs BY WantedFacts DEF Work, Dirs
  <2>2. CASE n # job.name
    BY <1>1, <1>4, <2>1, <2>2 DEF ListedInv, Dirs, InFlight
  <2>3. CASE n = job.name
    <3>1. CASE phase = "extract"
      <4>1. job.name \in todo /\ Target = Work BY <3>1, JobFacts
      <4>2. InFlight(Work, n)' BY <2>3, <4>1, ConfOnly DEF InFlight
      <4> QED BY <2>3, <3>1, <4>1, <4>2 DEF Late
    <3>2. CASE phase = "files" BY <2>3, <3>2, JobFacts
    <3> QED BY <3>1, <3>2, JobFacts
  <2> QED BY <2>2, <2>3
<1>9. FetchedInv'
  <2> SUFFICES ASSUME Late, ~conf.skip, NEW i \in 1..(next - 1),
                      conf.refs[i].origin # "overlay", conf.refs[i].hash # None,
                      ~Reworked(conf.refs[i].name)
               PROVE  files'["out"][conf.refs[i].name] = conf.refs[i].hash
    BY <1>5, ConfOnly DEF FetchedInv, Late, Reworked
  <2>1. phase = "files" /\ next \in DOMAIN conf.refs /\ job.name = conf.refs[next].name
    BY JobFacts DEF Late
  <2>2. conf.refs \in Seq(Refs) BY DEF IInv, TypeOK, IsConfig, SourcesFiles
  <2>3. i \in DOMAIN conf.refs /\ i # next BY <2>1, <2>2
  <2>4. conf.refs[i].name # job.name /\ conf.refs[i].name \in Names
    BY <2>1, <2>3, EntryFacts DEF IInv, TypeOK, IsConfig, SourcesFiles
  <2> QED BY <1>1, <2>4, JobFacts DEF FetchedInv, Touches, Dirs
<1> QED BY <1>2, <1>3, <1>6, <1>7, <1>8, <1>9 DEF Working

LEMMA DropStep == ASSUME IInv, Drop PROVE IInv'
<1>1. Pending /\ Put(Target, job.name, None) BY DEF Drop
<1>2. Touches(Target, job.name) BY <1>1, JobFacts, PutEffect, ValueTypes DEF Touches, IInv
<1>3. job' = [job EXCEPT !.failed = TRUE] /\ job \in Jobs
  BY DEF Drop, IInv, TypeOK
<1>4. TypeOK'
  <2>1. job' \in Jobs BY <1>3 DEF Jobs
  <2>2. cut' \subseteq Dirs BY <1>1, JobFacts DEF Drop, Stray, IInv, TypeOK
  <2> QED BY <1>2, <2>1, <2>2 DEF Drop, IInv, TypeOK, Touches
<1>5. job' # Idle /\ Target' = Target BY <1>3, ConfOnly DEF Idle, Target, Drop, Jobs
<1>6. Working' BY <1>1, <1>2, <1>3, <1>5, StillInFlight, JobFacts DEF Drop
<1>7. InputsAreVerified' BY SameInputs DEF IInv, Drop
<1>8. Results' BY NoResultYet DEF Drop, Pending, Ended
<1> QED BY <1>4, <1>6, <1>7, <1>8 DEF IInv

LEMMA AgainStep == ASSUME IInv, Again PROVE IInv'
<1>1. Pending BY DEF Again
<1>2. Touches(Target, job.name) BY DEF Again, Touches, IInv, TypeOK
<1>3. job' = [job EXCEPT !.failed = FALSE, !.attempt = @ + 1] /\ job \in Jobs
  BY DEF Again, IInv, TypeOK
<1>4. job.attempt + 1 \in 1..MaxAttempts
  <2>1. job.attempt \in 0..MaxAttempts BY <1>3 DEF Jobs
  <2> QED BY <2>1, PrepAssumption DEF Again
<1>5. TypeOK'
  <2>1. job.attempt + 1 \in 0..MaxAttempts BY <1>4
  <2>2. job' \in Jobs BY <1>3, <2>1 DEF Jobs
  <2> QED BY <2>2 DEF Again, IInv, TypeOK
<1>6. job' # Idle /\ Target' = Target
  <2>1. job'.attempt = job.attempt + 1 /\ Idle.attempt = 0 BY <1>3 DEF Idle, Jobs
  <2>2. job'.attempt # 0 BY <1>4, <2>1
  <2>3. Target' = Target BY <1>3, ConfOnly DEF Target, Again
  <2> QED BY <2>1, <2>2, <2>3
<1>7. Working' BY <1>1, <1>2, <1>3, <1>6, StillInFlight, JobFacts DEF Again
<1>8. InputsAreVerified' BY SameInputs DEF IInv, Again
<1>9. Results' BY NoResultYet DEF Again, Pending, Ended
<1> QED BY <1>5, <1>7, <1>8, <1>9 DEF IInv

\* No other file is.
LEMMA Elsewhere ==
    ASSUME IInv, Pending, Touches(Target, job.name),
           NEW d \in Dirs, NEW n \in Names, d # Target \/ n # job.name
    PROVE  ~InFlight(d, n) /\ files'[d][n] = files[d][n]
BY JobFacts DEF InFlight, Touches

\* The entries before the current one have other names.
LEMMA EntriesBefore ==
    ASSUME IsConfig(conf), next \in DOMAIN conf.refs, NEW i \in 1..(next - 1)
    PROVE  i \in DOMAIN conf.refs /\ conf.refs[i].name # conf.refs[next].name
           /\ conf.refs[i].name \in Names
<1>1. conf.refs \in Seq(Refs) BY DEF IsConfig, SourcesFiles
<1>2. i \in DOMAIN conf.refs /\ i # next BY <1>1
<1> QED BY <1>2, EntryFacts DEF IsConfig, SourcesFiles

LEMMA ArriveStep == ASSUME IInv, NEW v \in Contents, Arrive(v) PROVE IInv'
<1>1. Pending /\ Put(Target, job.name, v) BY DEF Arrive
<1>2. /\ Touches(Target, job.name) /\ files'[Target][job.name] = v
      /\ files' \in [Dirs -> [Names -> Maybe]]
  BY <1>1, JobFacts, PutEffect, ValueTypes DEF Touches, IInv
<1>3. InputsAreVerified' BY SameInputs DEF IInv, Arrive
<1>4. Results' BY NoResultYet DEF Arrive, Pending, Ended
<1>5. job \in Jobs /\ Idle \in Jobs BY PrepAssumption DEF IInv, TypeOK, Idle, Jobs, Maybe
<1>6. IsConfig(conf) BY DEF IInv, TypeOK
<1>7. CASE job.want \notin {None, v}
  <2>1. job' = [job EXCEPT !.failed = TRUE] /\ UNCHANGED <<todo, next>>
    BY <1>7 DEF Arrive
  <2>2. TypeOK' BY <1>2, <1>5, <2>1 DEF Arrive, IInv, TypeOK, Jobs
  <2>3. job' # Idle /\ Target' = Target BY <1>5, <2>1, ConfOnly DEF Idle, Target, Arrive, Jobs
  <2>4. Working' BY <1>1, <1>2, <1>5, <2>1, <2>3, StillInFlight, JobFacts DEF Arrive, Jobs
  <2> QED BY <1>3, <1>4, <2>2, <2>4 DEF IInv
<1>8. CASE job.want \in {None, v}
  <2>1. job' = Idle /\ Advance /\ UNCHANGED <<conf, phase, sources, result>> BY <1>8 DEF Arrive
  <2>2. JobInv /\ OrderInv /\ CloneInv /\ OutInv /\ ListedInv /\ FetchedInv
    BY <1>1 DEF IInv, Working, Pending
  <2>3. \A d \in Dirs, n \in Names : d # Target \/ n # job.name =>
           ~InFlight(d, n) /\ files'[d][n] = files[d][n]
    BY <1>1, <1>2, Elsewhere
  <2>4. JobInv' BY <2>1 DEF JobInv
  <2>5. CASE phase = "extract"
    <3>1. /\ job.name \in todo /\ job.name \in Wanted /\ Target = Work /\ job.from = "sources"
          /\ Extracts /\ job.name \in Names
      BY <1>1, <2>5, JobFacts
    <3>2. v = conf.listed[job.name] /\ Expected(job.name) = v
      BY <1>1, <1>8, <3>1, JobFacts, WantedFacts DEF Wanted
    <3>3. todo' = todo \ {job.name} /\ next' = next BY <2>1, <3>1 DEF Advance
    <3>4. TypeOK' BY <1>2, <1>5, <2>1, <3>3 DEF Arrive, IInv, TypeOK
    <3>5. OrderInv'
      BY <1>2, <2>1, <2>2, <2>5, <3>1, <3>3, ConfOnly DEF OrderInv, Late, Touches, Work, Dirs
    <3>6. CloneInv'
      <4> SUFFICES ASSUME NEW n \in Names
                   PROVE  \/ files'["clone"][n] \in {None, conf.tree[n]}
                          \/ n \in Wanted /\ files'["clone"][n] = conf.listed[n]
        BY <2>1, ConfOnly DEF CloneInv
      <4>1. CASE "clone" = Target /\ n = job.name BY <1>2, <3>1, <3>2, <4>1
      <4>2. CASE ~("clone" = Target /\ n = job.name)
        BY <2>2, <2>3, <4>2 DEF CloneInv, Dirs
      <4> QED BY <4>1, <4>2
    <3>7. OutInv'
      <4> SUFFICES ASSUME NEW n \in Names, Checked(n) PROVE files'["out"][n] \in Raw(n)
        BY <2>1, ConfOnly DEF OutInv
      <4>1. CASE "out" = Target /\ n = job.name BY <1>2, <3>2, <4>1 DEF Raw
      <4>2. CASE ~("out" = Target /\ n = job.name)
        BY <2>2, <2>3, <2>5, <4>2 DEF OutInv, Dirs, Reworked
      <4> QED BY <4>1, <4>2
    <3>8. ListedInv'
      <4> SUFFICES ASSUME NEW n \in Wanted, conf.tree[n] = None
                   PROVE  /\ n \in todo' => files'[Work][n] = None
                          /\ n \notin todo' => files'[Work][n] = conf.listed[n]
        BY <2>1, <2>5, ConfOnly DEF ListedInv, Late
      <4>1. CASE n = job.name BY <1>2, <3>1, <3>2, <3>3, <4>1
      <4>2. CASE n # job.name
        BY <2>2, <2>3, <2>5, <3>1, <3>3, <4>2, WantedFacts DEF ListedInv, Work, Dirs
      <4> QED BY <4>1, <4>2
    <3>9. FetchedInv' BY <2>1, <2>5 DEF FetchedInv, Late
    <3> QED BY <1>3, <1>4, <2>4, <3>4, <3>5, <3>6, <3>7, <3>8, <3>9 DEF IInv, Working
  <2>6. CASE phase = "files"
    <3>1. /\ Target = "out" /\ job.from \in {"lookaside", "origin"} /\ job.name \notin Wanted
          /\ next \in DOMAIN conf.refs /\ job.name = conf.refs[next].name /\ ~conf.skip
          /\ job.want = conf.refs[next].hash /\ Expected(job.name) = job.want
      BY <1>1, <2>6, JobFacts
    <3>2. next' = next + 1 /\ todo' = todo BY <2>1, <3>1 DEF Advance
    <3>3. conf.refs \in Seq(Refs) BY <1>6 DEF IsConfig, SourcesFiles
    <3>4. next' \in 1..(Len(conf.refs) + 1) BY <3>1, <3>2, <3>3
    <3>5. TypeOK' BY <1>2, <1>5, <2>1, <3>2, <3>4 DEF Arrive, IInv, TypeOK
    <3>6. OrderInv' BY <1>2, <2>1, <2>2, <2>6, <3>1, <3>2, ConfOnly DEF OrderInv, Late, Touches, Dirs
    <3>7. \A n \in Names : Reworked(n)' = FALSE /\ Reworked(n) = FALSE BY <2>1, <2>6 DEF Reworked
    <3>8. CloneInv'
      BY <2>1, <2>2, <2>3, <3>1, ConfOnly DEF CloneInv, Dirs
    <3>9. OutInv'
      <4> SUFFICES ASSUME NEW n \in Names, Checked(n) PROVE files'["out"][n] \in Raw(n)
        BY <2>1, ConfOnly DEF OutInv
      <4>1. CASE n = job.name BY <1>2, <1>8, <3>1, <4>1 DEF Raw, Checked
      <4>2. CASE n # job.name BY <2>2, <2>3, <3>7, <4>2 DEF OutInv, Dirs
      <4> QED BY <4>1, <4>2
    <3>10. ListedInv'
      <4> SUFFICES ASSUME Extracts, NEW n \in Wanted, conf.tree[n] = None
                   PROVE  files'["out"][n] = conf.listed[n]
        BY <2>1, <2>6, ConfOnly DEF ListedInv
      <4>1. n \in Names /\ n # job.name BY <3>1, WantedFacts
      <4>2. files["out"][n] = conf.listed[n] BY <2>2, <2>6, <3>7, <4>1 DEF ListedInv, Late
      <4> QED BY <2>3, <4>1, <4>2 DEF Dirs
    <3>11. FetchedInv'
      <4> SUFFICES ASSUME NEW i \in 1..next, conf.refs[i].origin # "overlay", conf.refs[i].hash # None
                   PROVE  files'["out"][conf.refs[i].name] = conf.refs[i].hash
        BY <2>1, <3>2, <3>3, <3>1 DEF FetchedInv
      <4>1. CASE i = next BY <1>2, <1>8, <3>1, <4>1
      <4>2. CASE i # next
        <5>1. i \in 1..(next - 1) BY <3>1, <3>3, <4>2
        <5>2. conf.refs[i].name # job.name /\ conf.refs[i].name \in Names
          BY <1>6, <3>1, <5>1, EntriesBefore
        <5> QED BY <2>2, <2>3, <2>6, <3>1, <3>7, <5>1, <5>2 DEF FetchedInv, Late, Dirs
      <4> QED BY <4>1, <4>2
    <3> QED BY <1>3, <1>4, <2>4, <3>5, <3>6, <3>8, <3>9, <3>10, <3>11 DEF IInv, Working
  <2> QED BY <1>1, <2>5, <2>6, JobFacts
<1> QED BY <1>7, <1>8

LEMMA GiveUpStep == ASSUME IInv, GiveUp PROVE IInv'
<1>1. Pending /\ files' = Cleared BY DEF GiveUp
<1>2. JobInv /\ OrderInv /\ CloneInv /\ OutInv /\ ListedInv /\ FetchedInv
  BY <1>1 DEF IInv, Working, Pending
<1>3. InputsAreVerified' BY SameInputs DEF IInv, GiveUp
<1>4. job \in Jobs /\ Idle \in Jobs BY PrepAssumption DEF IInv, TypeOK, Idle, Jobs, Maybe
<1>5. /\ files' \in [Dirs -> [Names -> Maybe]] /\ files'["clone"] = Empty
      /\ \A n \in Names : ("out" = Target /\ n = job.name) \/ files'["out"][n] = files["out"][n]
      /\ "out" = Target => files'["out"][job.name] = None
  BY <1>1, ValueTypes, JobFacts DEF Cleared, IInv, TypeOK, Dirs, Empty
<1>6. CASE job.from = "lookaside" /\ conf.origins
  <2>1. job' = Request(job.name, job.want, "origin") /\ result' = result BY <1>6 DEF GiveUp
  <2>2. phase = "files" /\ Target = "out" BY <1>1, <1>6, JobFacts
  <2>3. files["clone"] = Empty BY <1>2, <2>2 DEF OrderInv, Late
  <2>4. Touches(Target, job.name) BY <1>5, <2>2, <2>3 DEF Touches, Dirs
  <2>5. job' # Idle /\ Target' = Target BY <2>1, <2>2 DEF Request, Idle, Target
  <2>6. TypeOK'
    <3>1. job' \in Jobs BY <1>4, <2>1, PrepAssumption DEF Request, Jobs
    <3> QED BY <1>5, <2>1, <3>1 DEF GiveUp, NoClone, IInv, TypeOK
  <2>7. Working' BY <1>1, <2>1, <2>2, <2>4, <2>5, StillInFlight DEF GiveUp, Request
  <2>8. Results' BY <1>1, <2>1, NoResultYet DEF Pending, Ended
  <2> QED BY <1>3, <2>6, <2>7, <2>8 DEF IInv
<1>7. CASE ~(job.from = "lookaside" /\ conf.origins)
  <2>1. job' = Idle /\ result' = "failed" /\ conf' = conf BY <1>7 DEF GiveUp, Fail
  <2>2. TypeOK' BY <1>4, <1>5, <2>1 DEF GiveUp, NoClone, IInv, TypeOK
  <2>3. \A n \in Names : Checked(n) => Sound(n, files'["out"][n])
    <3> SUFFICES ASSUME NEW n \in Names, Checked(n) PROVE Sound(n, files'["out"][n])
      OBVIOUS
    <3>1. CASE InFlight("out", n) BY <1>5, <3>1 DEF InFlight, Sound, Raw
    <3>2. CASE ~InFlight("out", n)
      <4>1. Sound(n, files["out"][n]) BY <1>2, <3>2, OutIsSound
      <4>2. files'["out"][n] = files["out"][n] BY <1>1, <1>5, <3>2 DEF InFlight, Pending
      <4> QED BY <4>1, <4>2
    <3> QED BY <3>1, <3>2
  <2> QED BY <1>3, <1>5, <2>1, <2>2, <2>3, EndShows DEF IInv
<1> QED BY <1>6, <1>7

-----------------------------------------------------------------------------
(* The files of the upstream `sources` and the copy                        *)

LEMMA ExtractStep == ASSUME IInv, NEW n \in Names, Extract(n) PROVE IInv'
<1>1. ~Ended /\ phase = "extract" /\ job = Idle /\ n \in todo BY DEF Extract, Wait
<1>2. JobInv /\ OrderInv /\ CloneInv /\ OutInv /\ ListedInv /\ FetchedInv
  BY <1>1 DEF IInv, Working
<1>3. n \in Wanted /\ Extracts BY <1>1, <1>2 DEF OrderInv
<1>4. UNCHANGED <<conf, phase, next, files, sources, result>> /\ todo' \subseteq todo BY DEF Extract
<1>5. InputsAreVerified' BY SameInputs DEF IInv, Extract
<1>6. Results' BY <1>1, <1>4, NoResultYet DEF Ended
<1>7. \A d, m : ~InFlight(d, m) BY <1>1 DEF InFlight
<1>8. \A m : ~Reworked(m) /\ ~Reworked(m)' BY <1>1, <1>4 DEF Reworked
<1>9. OrderInv' BY <1>1, <1>2, <1>4, ConfOnly DEF OrderInv, Late
<1>10. CloneInv' BY <1>2, <1>4, <1>7, ConfOnly DEF CloneInv
<1>11. OutInv' BY <1>2, <1>4, <1>7, <1>8, ConfOnly DEF OutInv
<1>12. FetchedInv' BY <1>1, <1>4 DEF FetchedInv, Late
<1>13. CASE files[Work][n] # None
  <2>1. todo' = todo \ {n} /\ job' = Idle BY <1>1, <1>13 DEF Extract
  <2>2. TypeOK' BY <1>4, <2>1 DEF IInv, TypeOK, Extract
  <2>3. conf.tree[n] # None BY <1>1, <1>2, <1>3, <1>7, <1>13 DEF ListedInv
  <2>4. ListedInv' BY <1>1, <1>2, <1>4, <1>7, <2>1, <2>3, ConfOnly DEF ListedInv, Late
  <2>5. JobInv' BY <2>1 DEF JobInv
  <2> QED BY <1>5, <1>6, <1>9, <1>10, <1>11, <1>12, <2>2, <2>4, <2>5 DEF IInv, Working
<1>14. CASE files[Work][n] = None
  <2>1. todo' = todo /\ job' = Request(n, conf.listed[n], "sources") BY <1>14 DEF Extract
  <2>2. conf.listed[n] \in Maybe BY ValueTypes DEF IInv, TypeOK, IsConfig, SourcesFiles
  <2>3. job' \in Jobs BY <2>1, <2>2, PrepAssumption DEF Jobs, Request
  <2>4. TypeOK' BY <1>4, <2>1, <2>3 DEF IInv, TypeOK, Extract
  <2>5. ListedInv' BY <1>1, <1>2, <1>4, <1>7, <2>1, ConfOnly DEF ListedInv, Late
  <2>6. JobInv' BY <1>1, <1>4, <2>1 DEF JobInv, Request
  <2> QED BY <1>5, <1>6, <1>9, <1>10, <1>11, <1>12, <2>4, <2>5, <2>6 DEF IInv, Working
<1> QED BY <1>13, <1>14

\* Once `sources` is dealt with, what the copy may take is sound.
LEMMA ReadyToCopy ==
    ASSUME IInv, Wait("extract"), todo = {}
    PROVE  /\ job = Idle /\ next = 1 /\ Work \in Dirs /\ (conf.apply => Matched)
           /\ \A n \in Names : Checked(n) => files[Work][n] \in Raw(n)
           /\ Extracts => \A n \in Wanted : conf.tree[n] = None =>
                files[Work][n] = conf.listed[n]
<1>1. ~Ended /\ phase = "extract" /\ job = Idle BY NoJob DEF Wait
<1>2. JobInv /\ OrderInv /\ CloneInv /\ OutInv /\ ListedInv BY <1>1 DEF IInv, Working
<1>3. \A n \in Names : Checked(n) => files[Work][n] \in Raw(n)
  <2> SUFFICES ASSUME NEW n \in Names, Checked(n) PROVE files[Work][n] \in Raw(n)
    OBVIOUS
  <2>1. CASE Work = "clone"
    BY <1>1, <1>2, <2>1, WantedFacts DEF CloneInv, InFlight, Raw
  <2>2. CASE Work = "out"
    BY <1>1, <1>2, <2>2 DEF OutInv, InFlight, Reworked
  <2> QED BY <2>1, <2>2 DEF Work
<1> QED BY <1>1, <1>2, <1>3 DEF OrderInv, ListedInv, Work, Dirs

LEMMA CopyStep == ASSUME IInv, Copy PROVE IInv'
<1>1. ~Ended /\ phase = "extract" /\ Wait("extract") /\ todo = {} BY DEF Copy, Wait
<1>2. /\ job' = Idle /\ next' = 1 /\ phase' = "files" /\ todo' = {} /\ sources' = conf.listed
      /\ conf' = conf /\ result' = result
  BY <1>1, ReadyToCopy DEF Copy, Go
<1>3. files'["out"] = files[Work] /\ files'["clone"] = Empty BY DEF Copy, Dirs
<1>4. TypeOK'
  <2>1. files[Work] \in [Names -> Maybe] /\ Empty \in [Names -> Maybe]
    BY ValueTypes DEF IInv, TypeOK, Work, Dirs, Empty
  <2>2. files' \in [Dirs -> [Names -> Maybe]] BY <2>1 DEF Copy, Dirs
  <2>3. sources' \in [Names -> Maybe] BY <1>2, ValueTypes DEF IInv, TypeOK, IsConfig, SourcesFiles
  <2>4. cut' \subseteq Dirs BY DEF Copy, Dirs
  <2> QED BY <1>2, <2>2, <2>3, <2>4 DEF IInv, TypeOK, Copy
<1>5. JobInv' /\ FetchedInv' BY <1>2 DEF JobInv, FetchedInv
<1>6. OrderInv' BY <1>1, <1>2, <1>3, ReadyToCopy, ConfOnly DEF OrderInv, Late
<1>7. CloneInv' BY <1>3 DEF CloneInv, Empty
<1>8. OutInv' BY <1>1, <1>2, <1>3, ReadyToCopy, ConfOnly DEF OutInv
<1>9. ListedInv' BY <1>1, <1>2, <1>3, ReadyToCopy, ConfOnly DEF ListedInv
<1>10. InputsAreVerified' BY SameInputs DEF IInv, Copy
<1>11. Results' BY <1>1, <1>2, NoResultYet DEF Ended
<1> QED BY <1>4, <1>5, <1>6, <1>7, <1>8, <1>9, <1>10, <1>11 DEF IInv, Working

LEMMA CopyFailStep == ASSUME IInv, CopyFail PROVE IInv'
<1>1. Wait("extract") /\ todo = {} /\ Work = "clone" BY DEF CopyFail, Work
<1>2. PICK S \in SUBSET Names :
        files' = [d \in Dirs |-> IF d = "out" THEN [n \in Names |-> IF n \in S THEN files["clone"][n] ELSE None]
                                 ELSE Empty]
  BY DEF CopyFail
<1>3. files'["clone"] = Empty BY <1>2 DEF Dirs
<1>4. \A n \in Names : files'["out"][n] \in {None, files["clone"][n]} BY <1>2 DEF Dirs
<1>5. \A n \in Names : Checked(n) => Sound(n, files'["out"][n])
  BY <1>1, <1>4, ReadyToCopy DEF Sound, Raw
<1>6. TypeOK'
  <2>1. /\ [n \in Names |-> IF n \in S THEN files["clone"][n] ELSE None] \in [Names -> Maybe]
        /\ Empty \in [Names -> Maybe]
    BY ValueTypes DEF IInv, TypeOK, Dirs, Empty
  <2>2. files' \in [Dirs -> [Names -> Maybe]] BY <1>2, <2>1
  <2>3. cut' \subseteq Dirs BY DEF CopyFail, Dirs
  <2> QED BY <2>2, <2>3 DEF IInv, TypeOK, CopyFail, Fail
<1>7. InputsAreVerified' BY SameInputs DEF IInv, CopyFail
<1> QED BY <1>3, <1>5, <1>6, <1>7, EndShows DEF IInv, CopyFail, Fail

-----------------------------------------------------------------------------
(* The entries of 'source-files'                                           *)

\* While files are fetched nothing is repacked, and the clone is gone.
LEMMA FetchingFacts ==
    ASSUME IInv, Wait("files"), job = Idle
    PROVE  /\ OrderInv /\ CloneInv /\ OutInv /\ ListedInv /\ FetchedInv
           /\ files["clone"] = Empty /\ Late /\ IsConfig(conf)
           /\ \A d, n : ~InFlight(d, n)
           /\ \A n : ~Reworked(n)
           /\ \A n \in Names : Checked(n) => files["out"][n] \in Raw(n)
BY DEF IInv, TypeOK, Working, Wait, Late, OrderInv, InFlight, Reworked, OutInv

LEMMA CurrentFacts ==
    ASSUME IInv, More
    PROVE  /\ next \in DOMAIN conf.refs /\ next \in 1..Len(conf.refs) /\ Current = conf.refs[next]
           /\ Current.name \in Names /\ Current.hash \in Maybe /\ Current.inputs \subseteq Names
           /\ Current.origin = "custom" => Generated(Current.name) /\ Current.name \notin Wanted
<1>1. conf.refs \in Seq(Refs) /\ IsConfig(conf) BY DEF IInv, TypeOK, IsConfig, SourcesFiles
<1>2. next \in 1..Len(conf.refs) BY <1>1 DEF IInv, TypeOK, More
<1>3. next \in DOMAIN conf.refs BY <1>1, <1>2
<1> QED BY <1>1, <1>2, <1>3, EntryFacts DEF Current, Generated, Wanted, Refs, Origins

LEMMA PassOverlayStep == ASSUME IInv, PassOverlay PROVE IInv'
<1>1. More /\ Wait("files") /\ job = Idle BY DEF PassOverlay, More
<1>2. /\ next' = next + 1 /\ job' = Idle
      /\ UNCHANGED <<conf, phase, todo, files, sources, read, result>>
  BY <1>1 DEF PassOverlay
<1>3. next \in 1..Len(conf.refs) /\ conf.refs[next].origin = "overlay"
  BY <1>1, CurrentFacts DEF PassOverlay
<1>4. TypeOK' BY <1>2, <1>3 DEF PassOverlay, IInv, TypeOK, IsConfig, SourcesFiles
<1>5. JobInv' BY <1>2 DEF JobInv
<1>6. OrderInv' BY <1>1, <1>2, ConfOnly, FetchingFacts DEF OrderInv, Late, Wait
<1>7. \A n : ~Reworked(n)' BY <1>1, <1>2 DEF Reworked, Wait
<1>8. CloneInv' /\ OutInv' /\ ListedInv'
  BY <1>1, <1>2, <1>7, ConfOnly, FetchingFacts DEF CloneInv, OutInv, ListedInv, Wait, Late
<1>9. FetchedInv'
  <2> SUFFICES ASSUME ~conf.skip, NEW i \in 1..next, conf.refs[i].origin # "overlay", conf.refs[i].hash # None
               PROVE  files["out"][conf.refs[i].name] = conf.refs[i].hash
    BY <1>2, <1>3 DEF FetchedInv
  <2>1. i \in 1..(next - 1) BY <1>3
  <2> QED BY <1>1, <2>1, FetchingFacts DEF FetchedInv
<1>10. InputsAreVerified' BY <1>2, SameInputs DEF IInv
<1>11. Results' BY <1>1, <1>2, NoResultYet DEF Wait, Ended
<1> QED BY <1>4, <1>5, <1>6, <1>8, <1>9, <1>10, <1>11 DEF IInv, Working

LEMMA FetchStep == ASSUME IInv, Fetch PROVE IInv'
<1>1. More /\ Wait("files") /\ job = Idle /\ phase = "files" /\ ~conf.skip BY DEF Fetch, More, Wait
<1>2. UNCHANGED <<conf, phase, todo, next, files, sources, read>> BY DEF Fetch
<1>3. InputsAreVerified' BY <1>2, SameInputs DEF IInv
<1>4. CASE result' = "failed" /\ job' = job
  <2>1. TypeOK' BY <1>4 DEF Fetch, IInv, TypeOK
  <2>2. \A n \in Names : Checked(n) => Sound(n, files'["out"][n])
    BY <1>1, <1>2, FetchingFacts DEF Sound
  <2> QED BY <1>1, <1>2, <1>3, <1>4, <2>1, <2>2, FetchingFacts, EndShows DEF IInv
<1>5. CASE result' = result /\ \E from \in {"lookaside", "origin"} :
                                 job' = Request(Current.name, Current.hash, from)
  <2>1. PICK from \in {"lookaside", "origin"} : job' = Request(Current.name, Current.hash, from)
    BY <1>5
  <2>2. job' \in Jobs BY <1>1, <2>1, CurrentFacts, PrepAssumption DEF Jobs, Request
  <2>3. TypeOK' BY <1>5, <2>2 DEF Fetch, IInv, TypeOK
  <2>4. Current' = Current BY <1>2 DEF Current
  <2>5. JobInv' BY <1>1, <1>2, <2>1, <2>4, CurrentFacts DEF JobInv, Request, Fetch
  <2>6. \A n : ~Reworked(n)' BY <1>1, <1>2 DEF Reworked
  <2>7. OrderInv' BY <1>1, <1>2, ConfOnly, FetchingFacts DEF OrderInv, Late
  <2>8. CloneInv' /\ OutInv' /\ ListedInv'
    BY <1>1, <1>2, <2>6, ConfOnly, FetchingFacts DEF CloneInv, OutInv, ListedInv, Late
  <2>9. FetchedInv' BY <1>1, <1>2, <2>6, FetchingFacts DEF FetchedInv, Late
  <2>10. Results' BY <1>1, <1>5, NoResultYet DEF Wait, Ended
  <2> QED BY <1>3, <2>3, <2>5, <2>7, <2>8, <2>9, <2>10 DEF IInv, Working
<1> QED BY <1>4, <1>5 DEF Fetch, Fail

\* A script's output is none of the files whose hash `sources` or a download
\* has to meet.
LEMMA PutGenerated ==
    ASSUME IInv, More, Current.origin = "custom", NEW v \in Contents, Put("out", Current.name, v)
    PROVE  /\ files' \in [Dirs -> [Names -> Maybe]] /\ files'["clone"] = Empty
           /\ files'["out"][Current.name] = v
           /\ \A n \in Names : n # Current.name => files'["out"][n] = files["out"][n]
           /\ \A n \in Names : Checked(n) => files'["out"][n] \in Raw(n)
<1>1. Wait("files") /\ job = Idle BY DEF More
<1>2. Current.name \in Names /\ ~Checked(Current.name) BY CurrentFacts DEF Checked
<1>3. /\ files' \in [Dirs -> [Names -> Maybe]] /\ files'["clone"] = files["clone"]
      /\ files'["out"][Current.name] = v
      /\ \A n \in Names : n # Current.name => files'["out"][n] = files["out"][n]
  BY <1>2, PutEffect, ValueTypes DEF IInv, Dirs
<1> QED BY <1>1, <1>2, <1>3, FetchingFacts

LEMMA GenerateStep == ASSUME IInv, Generate PROVE IInv'
<1>1. More /\ Wait("files") /\ job = Idle /\ phase = "files" /\ ~conf.skip BY DEF Generate, More, Wait
<1>2. UNCHANGED <<conf, phase, todo, job, sources>> /\ read' = read \cup Given BY DEF Generate
<1>3. Current.origin = "custom" /\ Runnable BY DEF Generate
<1>4. PICK v \in Contents : /\ Put("out", Current.name, v)
                            /\ IF Current.hash \in {None, v} THEN next' = next + 1 /\ UNCHANGED result
                                                             ELSE Fail /\ UNCHANGED next
  BY DEF Generate
<1>5. \A g \in Given : /\ g.entry = next /\ g.name \in Names /\ g.held = files["out"][g.name]
                       /\ g.held # None
  BY <1>1, <1>3, CurrentFacts DEF Given, Runnable
<1>6. read' \subseteq [entry : Nat, name : Names, held : Values]
  <2>1. Given \subseteq [entry : Nat, name : Names, held : Values]
    <3> SUFFICES ASSUME NEW n \in Current.inputs
                 PROVE  files["out"][n] \in Values /\ n \in Names /\ next \in Nat
      BY DEF Given
    <3>1. n \in Names /\ next \in Nat BY <1>1, CurrentFacts
    <3>2. files["out"][n] \in Maybe /\ files["out"][n] # None
      BY <1>3, <3>1 DEF IInv, TypeOK, Dirs, Runnable
    <3> QED BY <3>1, <3>2 DEF Maybe
  <2> QED BY <1>2, <2>1 DEF IInv, TypeOK
<1>7. InputsAreVerified'
  <2> SUFFICES ASSUME NEW g \in Given
               PROVE  /\ \A i \in 1..(next - 1) :
                           conf.refs[i].name = g.name /\ conf.refs[i].origin # "overlay" =>
                             conf.refs[i].hash \in {None, g.held}
                      /\ g.name \notin Fetched /\ conf.tree[g.name] = None /\ conf.listed[g.name] # None =>
                            g.held = conf.listed[g.name]
    BY <1>2, <1>5, ConfOnly DEF InputsAreVerified, IInv
  <2>1. \A i \in 1..(next - 1) : conf.refs[i].name = g.name /\ conf.refs[i].origin # "overlay" =>
                                  conf.refs[i].hash \in {None, g.held}
    BY <1>1, <1>5, FetchingFacts DEF FetchedInv
  <2>2. g.name \notin Fetched /\ conf.tree[g.name] = None /\ conf.listed[g.name] # None =>
           g.held = conf.listed[g.name]
    <3> HAVE g.name \notin Fetched /\ conf.tree[g.name] = None /\ conf.listed[g.name] # None
    <3>1. g.name \in Wanted BY <1>5 DEF Wanted
    <3>2. files["out"][g.name] \in Raw(g.name) BY <1>1, <1>5, <3>1, WantedFacts, FetchingFacts
    <3> QED BY <1>5, <3>1, <3>2, WantedFacts DEF Raw
  <2> QED BY <2>1, <2>2
<1>8. /\ files' \in [Dirs -> [Names -> Maybe]] /\ files'["clone"] = Empty
      /\ files'["out"][Current.name] = v
      /\ \A n \in Names : n # Current.name => files'["out"][n] = files["out"][n]
      /\ \A n \in Names : Checked(n) => files'["out"][n] \in Raw(n)
  BY <1>1, <1>3, <1>4, PutGenerated
<1>9. CASE Current.hash \in {None, v}
  <2>1. next' = next + 1 /\ result' = result BY <1>4, <1>9
  <2>2. next \in 1..Len(conf.refs) /\ Current = conf.refs[next] /\ next \in DOMAIN conf.refs
    BY <1>1, CurrentFacts
  <2>3. next' \in 1..(Len(conf.refs) + 1) BY <2>1, <2>2 DEF IInv, TypeOK, IsConfig, SourcesFiles
  <2>4. TypeOK' BY <1>6, <1>8, <2>1, <2>3 DEF Generate, IInv, TypeOK
  <2>5. JobInv' BY <1>1, <1>2 DEF JobInv
  <2>6. OrderInv' BY <1>1, <1>2, <1>8, ConfOnly, FetchingFacts DEF OrderInv, Late
  <2>7. CloneInv' /\ OutInv' BY <1>2, <1>8, ConfOnly DEF CloneInv, OutInv, Empty
  <2>8. \A n : ~Reworked(n)' BY <1>1, <1>2 DEF Reworked
  <2>9. ListedInv'
    <3> SUFFICES ASSUME Extracts, NEW n \in Wanted, conf.tree[n] = None
                 PROVE  files'["out"][n] = conf.listed[n]
      BY <1>1, <1>2, ConfOnly DEF ListedInv
    <3>1. n \in Names /\ n # Current.name BY <1>1, <1>3, CurrentFacts, WantedFacts
    <3> QED BY <1>1, <1>8, <3>1, FetchingFacts DEF ListedInv
  <2>10. FetchedInv'
    <3> SUFFICES ASSUME NEW i \in 1..next, conf.refs[i].origin # "overlay", conf.refs[i].hash # None
                 PROVE  files'["out"][conf.refs[i].name] = conf.refs[i].hash
      BY <1>2, <2>1, <2>2 DEF FetchedInv
    <3>1. CASE i = next BY <1>8, <1>9, <2>2, <3>1
    <3>2. CASE i # next
      <4>1. i \in 1..(next - 1) BY <2>2, <3>2
      <4>2. conf.refs[i].name # Current.name /\ conf.refs[i].name \in Names
        BY <1>1, <2>2, <4>1, EntriesBefore, FetchingFacts
      <4> QED BY <1>1, <1>8, <4>1, <4>2, FetchingFacts DEF FetchedInv
    <3> QED BY <3>1, <3>2
  <2>11. Results' BY <1>1, <2>1, NoResultYet DEF Wait, Ended
  <2> QED BY <1>7, <2>4, <2>5, <2>6, <2>7, <2>9, <2>10, <2>11 DEF IInv, Working
<1>10. CASE Current.hash \notin {None, v}
  <2>1. next' = next /\ result' = "failed" BY <1>4, <1>10 DEF Fail
  <2>2. TypeOK' BY <1>6, <1>8, <2>1 DEF Generate, IInv, TypeOK
  <2> QED BY <1>2, <1>7, <1>8, <2>1, <2>2, EndShows DEF IInv, Sound
<1> QED BY <1>9, <1>10

LEMMA GenerateFailStep == ASSUME IInv, GenerateFail PROVE IInv'
<1>1. More /\ Wait("files") /\ job = Idle /\ Current.origin = "custom" BY DEF GenerateFail, More
<1>2. UNCHANGED <<conf, read>> /\ result' = "failed" BY DEF GenerateFail, Fail
<1>3. /\ files' \in [Dirs -> [Names -> Maybe]] /\ files'["clone"] = Empty
      /\ \A n \in Names : Checked(n) => files'["out"][n] \in Raw(n)
  <2>1. CASE files' = files BY <1>1, <2>1, FetchingFacts DEF IInv, TypeOK
  <2>2. CASE \E v \in Contents : Put("out", Current.name, v)
    BY <1>1, <2>2, PutGenerated
  <2> QED BY <2>1, <2>2 DEF GenerateFail
<1>4. TypeOK' BY <1>2, <1>3 DEF GenerateFail, IInv, TypeOK
<1>5. InputsAreVerified' BY <1>2, SameInputs DEF IInv
<1> QED BY <1>2, <1>3, <1>4, <1>5, EndShows DEF IInv, Sound

LEMMA FilesEndStep == ASSUME IInv, FilesEnd PROVE IInv'
<1>1. Wait("files") /\ job = Idle /\ phase = "files" /\ job' = Idle BY DEF FilesEnd, Wait
<1>2. UNCHANGED <<conf, next, files, sources, read>> BY DEF FilesEnd
<1>3. InputsAreVerified' BY <1>2, SameInputs DEF IInv
<1>4. CASE conf.apply
  <2>1. phase' = "overlays" /\ todo' = Changed /\ result' = result BY <1>4 DEF FilesEnd, Go, Changed
  <2>2. TypeOK' BY <2>1 DEF FilesEnd, IInv, TypeOK, IsConfig, SourcesFiles, Changed
  <2>3. ~conf.skip => next = Len(conf.refs) + 1 BY DEF FilesEnd, IInv, TypeOK, IsConfig, SourcesFiles
  <2>4. JobInv' BY <1>1 DEF JobInv
  <2>5. OrderInv' BY <1>1, <1>2, <1>4, <2>1, <2>3, ConfOnly, FetchingFacts DEF OrderInv, Late
  <2>6. \A n : ~Reworked(n)' BY <2>1, <1>2, ConfOnly DEF Reworked
  <2>7. CloneInv' /\ OutInv' /\ ListedInv'
    BY <1>1, <1>2, <2>1, <2>6, ConfOnly, FetchingFacts DEF CloneInv, OutInv, ListedInv, Late
  <2>8. FetchedInv' BY <1>1, <1>2, <2>1, <2>6, FetchingFacts DEF FetchedInv
  <2>9. Results' BY <1>1, <2>1, NoResultYet DEF Wait, Ended
  <2> QED BY <1>3, <2>2, <2>4, <2>5, <2>7, <2>8, <2>9 DEF IInv, Working
<1>5. CASE ~conf.apply
  <2>1. result' = "ok" /\ UNCHANGED <<phase, todo>> BY <1>5 DEF FilesEnd
  <2>2. TypeOK' BY <2>1 DEF FilesEnd, IInv, TypeOK
  <2>3. ListIsTrue' /\ RenderedListIsBuilt'
    BY <1>2, <1>5 DEF ListIsTrue, Consistent, RenderedListIsBuilt
  <2> QED BY <1>1, <1>2, <1>3, <2>1, <2>2, <2>3, FetchingFacts, EndShows DEF IInv, Sound
<1> QED BY <1>4, <1>5

-----------------------------------------------------------------------------
(* Overlays and the `sources` file                                         *)

LEMMA OverlayFacts ==
    ASSUME IInv, Wait("overlays") \/ Wait("merge")
    PROVE  /\ OrderInv /\ CloneInv /\ OutInv /\ ListedInv /\ FetchedInv
           /\ job = Idle /\ Late /\ files["clone"] = Empty /\ IsConfig(conf)
           /\ conf.apply /\ Matched /\ sources = conf.listed
           /\ ~conf.skip => next = Len(conf.refs) + 1
           /\ \A d, n : ~InFlight(d, n)
           /\ \A n \in Names : Checked(n) => Sound(n, files["out"][n])
<1>1. phase \in {"overlays", "merge"} /\ ~Ended /\ job = Idle BY NoJob DEF Wait
<1>2. OrderInv /\ CloneInv /\ OutInv /\ ListedInv /\ FetchedInv BY <1>1 DEF IInv, Working
<1>3. \A d, n : ~InFlight(d, n) BY <1>1 DEF InFlight
<1>4. IsConfig(conf) BY DEF IInv, TypeOK
<1> QED BY <1>1, <1>2, <1>3, <1>4, OutIsSound DEF OrderInv, Late

LEMMA RepackStep == ASSUME IInv, NEW n \in Names, Repack(n) PROVE IInv'
<1>1. Wait("overlays") /\ phase = "overlays" /\ n \in todo BY DEF Repack, Wait
<1>2. /\ UNCHANGED <<conf, phase, next, sources, read, result>> /\ job' = Idle
      /\ todo' = todo \ {n}
  BY <1>1, OverlayFacts DEF Repack
<1>3. n \in Changed BY <1>1, OverlayFacts DEF OrderInv
<1>4. /\ files' \in [Dirs -> [Names -> Maybe]] /\ files'["clone"] = Empty
      /\ files'["out"][n] = Repacked(files["out"][n])
      /\ \A m \in Names : m # n => files'["out"][m] = files["out"][m]
  <2>1. Repacked(files["out"][n]) \in Maybe BY ValueTypes DEF Repack
  <2> QED BY <1>1, <2>1, PutEffect, OverlayFacts DEF Repack, Dirs, IInv
<1>5. Reworked(n)' /\ \A m : m # n => Reworked(m)' = Reworked(m)
  BY <1>1, <1>2, <1>3, ConfOnly DEF Reworked
<1>6. TypeOK' BY <1>2, <1>4 DEF Repack, IInv, TypeOK
<1>7. JobInv' /\ CloneInv' BY <1>2, <1>4 DEF JobInv, CloneInv, Empty
<1>8. OrderInv' BY <1>1, <1>2, <1>4, ConfOnly, OverlayFacts DEF OrderInv, Late
<1>9. OutInv'
  <2> SUFFICES ASSUME NEW m \in Names, Checked(m)
               PROVE  \/ files'["out"][m] \in Raw(m)
                      \/ Reworked(m)' /\ \E v \in Raw(m) \ {None} : files'["out"][m] = Repacked(v)
    BY <1>2, ConfOnly DEF OutInv
  <2>1. CASE m = n
    <3>1. files["out"][n] \in Raw(n)
      BY <1>1, <2>1, OverlayFacts DEF OutInv, Reworked
    <3>2. files["out"][n] # None BY ValueTypes, PrepAssumption DEF Repack, Values
    <3> QED BY <1>4, <1>5, <2>1, <3>1, <3>2
  <2>2. CASE m # n BY <1>1, <1>4, <1>5, <2>2, OverlayFacts DEF OutInv
  <2> QED BY <2>1, <2>2
<1>10. ListedInv'
  BY <1>1, <1>2, <1>4, <1>5, ConfOnly, OverlayFacts, WantedFacts DEF ListedInv, Late
<1>11. FetchedInv'
  <2> SUFFICES ASSUME ~conf.skip, NEW i \in 1..(next - 1), conf.refs[i].origin # "overlay",
                      conf.refs[i].hash # None, NEW m, m = conf.refs[i].name, ~Reworked(m)'
               PROVE  files'["out"][m] = conf.refs[i].hash
    BY <1>2 DEF FetchedInv, Reworked
  <2>1. i \in DOMAIN conf.refs BY <1>1, OverlayFacts DEF IsConfig, SourcesFiles
  <2>2. m \in Names BY <1>1, <2>1, EntryFacts, OverlayFacts
  <2>3. m # n /\ ~Reworked(m) BY <1>5
  <2> QED BY <1>1, <1>4, <2>2, <2>3, OverlayFacts DEF FetchedInv
<1>12. InputsAreVerified' BY <1>2, SameInputs DEF IInv
<1>13. Results' BY <1>1, <1>2, NoResultYet DEF Wait, Ended
<1> QED BY <1>6, <1>7, <1>8, <1>9, <1>10, <1>11, <1>12, <1>13 DEF IInv, Working

LEMMA OverlayFailStep == ASSUME IInv, OverlayFail PROVE IInv'
<1>1. TypeOK' BY DEF OverlayFail, Fail, IInv, TypeOK
<1>2. InputsAreVerified' BY SameInputs DEF IInv, OverlayFail
<1> QED BY <1>1, <1>2, OverlayFacts, EndShows DEF OverlayFail, Fail, IInv

LEMMA OverlaysEndStep == ASSUME IInv, OverlaysEnd PROVE IInv'
<1>1. Wait("overlays") /\ phase = "overlays" /\ todo = {} BY DEF OverlaysEnd, Wait
<1>2. /\ UNCHANGED <<conf, todo, next, files, sources, read, result>>
      /\ job' = Idle /\ phase' = "merge"
  BY <1>1, OverlayFacts DEF OverlaysEnd
<1>3. TypeOK' BY DEF OverlaysEnd, IInv, TypeOK
<1>4. \A n : Reworked(n)' = Reworked(n) BY <1>1, <1>2, ConfOnly DEF Reworked
<1>5. JobInv' BY <1>2 DEF JobInv
<1>6. OrderInv' BY <1>1, <1>2, ConfOnly, OverlayFacts DEF OrderInv, Late
<1>7. CloneInv' /\ OutInv' /\ ListedInv'
  BY <1>1, <1>2, <1>4, ConfOnly, OverlayFacts DEF CloneInv, OutInv, ListedInv, Late
<1>8. FetchedInv' BY <1>1, <1>2, <1>4, OverlayFacts DEF FetchedInv
<1>9. InputsAreVerified' BY <1>2, SameInputs DEF IInv
<1>10. Results' BY <1>1, <1>2, NoResultYet DEF Wait, Ended
<1> QED BY <1>3, <1>5, <1>6, <1>7, <1>8, <1>9, <1>10 DEF IInv, Working

\* What Merge takes for the hash of a name.
LEMMA MergedHash ==
    ASSUME IInv, Wait("merge"), Mergeable, Extracts, NEW n \in Names,
           ~Committed(n), ~Bootstrapped(n), Merged[n] # None
    PROVE  files["out"][n] = Merged[n]
<1>1. /\ IsConfig(conf) /\ Matched /\ Late /\ ListedInv /\ FetchedInv /\ sources = conf.listed
      /\ next = Len(conf.refs) + 1 /\ Changed = conf.patched /\ ~conf.skip
  BY OverlayFacts DEF Extracts, Changed
<1>2. CASE n \in RefNames
  <2>1. PICK i \in DOMAIN conf.refs : conf.refs[i].name = n /\ RefOf(n) = conf.refs[i]
    BY <1>1, <1>2, EntryOfName
  <2>2. Merged[n] = Hash(conf.refs[i]) BY <1>2, <2>1 DEF Merged
  <2>3. CASE conf.refs[i].hash = None BY <2>1, <2>2, <2>3 DEF Hash
  <2>4. CASE conf.refs[i].hash # None /\ conf.refs[i].origin = "overlay"
    <3>1. n \in Changed BY <1>1, <1>2, <2>1, <2>4, EntryFacts DEF Matched
    <3>2. conf.refs[i] \in ToSet(conf.refs) BY DEF ToSet
    <3>3. conf.refs[i].hash = files["out"][n] BY <2>1, <2>4, <3>1, <3>2 DEF Mergeable
    <3> QED BY <2>2, <2>4, <3>3 DEF Hash
  <2>5. CASE conf.refs[i].hash # None /\ conf.refs[i].origin # "overlay"
    <3>1. ~Reworked(n) BY <1>1, <2>1, <2>5, EntryFacts DEF Bootstrapped, Reworked
    <3>2. i \in 1..(next - 1) BY <1>1 DEF IsConfig, SourcesFiles
    <3>3. files["out"][n] = conf.refs[i].hash BY <1>1, <2>1, <2>5, <3>1, <3>2 DEF FetchedInv
    <3> QED BY <2>2, <2>5, <3>3 DEF Hash
  <2> QED BY <2>3, <2>4, <2>5
<1>3. CASE n \notin RefNames /\ n \in Changed BY <1>3 DEF Merged
<1>4. CASE n \notin RefNames /\ n \notin Changed
  <2>1. Merged[n] = conf.listed[n] BY <1>1, <1>4 DEF Merged
  <2>2. n \in Wanted BY <1>4, <2>1 DEF Wanted, Fetched, RefNames
  <2>3. conf.tree[n] = None BY <1>1, <1>4 DEF Committed
  <2>4. ~Reworked(n) BY <1>4 DEF Reworked
  <2> QED BY <1>1, <2>1, <2>2, <2>3, <2>4 DEF ListedInv
<1> QED BY <1>2, <1>3, <1>4

LEMMA MergeStep == ASSUME IInv, Merge PROVE IInv'
<1>1. Wait("merge") /\ Mergeable BY DEF Merge
<1>2. /\ UNCHANGED <<conf, files, read>> /\ result' = "ok" /\ sources' = Merged
      /\ final' = [n \in Names |-> IF n \in RefNames THEN Hash(RefOf(n)) ELSE None]
  BY DEF Merge
<1>3. /\ OrderInv /\ files["clone"] = Empty /\ IsConfig(conf) /\ Matched /\ sources = conf.listed
      /\ \A n \in Names : Checked(n) => Sound(n, files["out"][n])
  BY <1>1, OverlayFacts
<1>4. TypeOK'
  <2>1. files["out"] \in [Names -> Maybe] /\ sources \in [Names -> Maybe]
    BY DEF IInv, TypeOK, Dirs
  <2>2. \A n \in Names : n \in RefNames => Hash(RefOf(n)) \in Maybe
    <3> SUFFICES ASSUME NEW n \in Names, n \in RefNames PROVE Hash(RefOf(n)) \in Maybe
      OBVIOUS
    <3>1. PICK i \in DOMAIN conf.refs : conf.refs[i].name = n /\ RefOf(n) = conf.refs[i]
      BY <1>3, EntryOfName
    <3> QED BY <1>3, <2>1, <3>1, EntryFacts DEF Hash
  <2>3. final' \in [Names -> Maybe] BY <1>2, <2>2, ValueTypes
  <2>4. sources' \in [Names -> Maybe] BY <1>2, <2>1, <2>2 DEF Merged
  <2> QED BY <2>3, <2>4 DEF Merge, IInv, TypeOK
<1>5. ListIsTrue'
  <2> SUFFICES ASSUME Extracts, NEW n \in Names, ~Committed(n), ~Bootstrapped(n)
               PROVE  /\ Merged[n] # None => files["out"][n] = Merged[n]
                      /\ n \in RefNames => final'[n] = Merged[n]
    BY <1>2, ConfOnly DEF ListIsTrue, Consistent
  <2>1. n \in RefNames => final'[n] = Merged[n] BY <1>2 DEF Merged
  <2> QED BY <1>1, <2>1, MergedHash
<1>6. RenderedListIsBuilt'
  <2> SUFFICES ASSUME ~conf.allow, NEW n \in Names
               PROVE  Merged[n] = IF n \in RefNames THEN RefOf(n).hash ELSE conf.listed[n]
    BY <1>2, ConfOnly DEF RenderedListIsBuilt, Declared, Merged
  <2>1. CASE n \in RefNames
    <3>1. PICK i \in DOMAIN conf.refs : conf.refs[i].name = n /\ RefOf(n) = conf.refs[i]
      BY <1>3, <2>1, EntryOfName
    <3>2. conf.refs[i] \in ToSet(conf.refs) BY DEF ToSet
    <3>3. RefOf(n).hash # None BY <1>1, <3>1, <3>2 DEF Mergeable
    <3> QED BY <2>1, <3>3 DEF Merged, Hash
  <2>2. CASE n \notin RefNames
    <3>1. n \notin Changed BY <1>3, <2>2 DEF Matched, Changed
    <3> QED BY <1>3, <2>2, <3>1 DEF Merged
  <2> QED BY <2>1, <2>2
<1>7. InputsAreVerified' BY <1>2, SameInputs DEF IInv
<1> QED BY <1>2, <1>3, <1>4, <1>5, <1>6, <1>7, EndShows DEF IInv

LEMMA MergeFailStep == ASSUME IInv, MergeFail PROVE IInv'
<1>1. Wait("merge") /\ UNCHANGED <<conf, files, read>> /\ result' = "failed" BY DEF MergeFail, Fail
<1>2. TypeOK'
  <2>1. sources' \in [Names -> Maybe] BY ValueTypes DEF MergeFail, IInv, TypeOK, Empty
  <2> QED BY <2>1 DEF MergeFail, Fail, IInv, TypeOK
<1>3. InputsAreVerified' BY <1>1, SameInputs DEF IInv
<1> QED BY <1>1, <1>2, <1>3, OverlayFacts, EndShows DEF IInv

-----------------------------------------------------------------------------
(* The invariant and what follows from it                                  *)

LEMMA NextInv == IInv /\ [Next]_vars => IInv'
<1> SUFFICES ASSUME IInv, [Next]_vars PROVE IInv' OBVIOUS
<1>1. CASE UNCHANGED vars BY <1>1, ContextStep DEF vars, IInv, TypeOK
<1>2. CASE EndContext BY <1>2, ContextStep DEF EndContext
<1>3. CASE Step
  <2>1. CASE Validate \/ Tree \/ TreeFail BY <2>1, ValidateStep, TreeStep, TreeFailStep
  <2>2. CASE (\E v \in Contents : Arrive(v)) \/ Drop \/ Again \/ GiveUp
    BY <2>2, ArriveStep, DropStep, AgainStep, GiveUpStep
  <2>3. CASE \E n \in Names : Extract(n) \/ Repack(n) BY <2>3, ExtractStep, RepackStep
  <2>4. CASE Copy \/ CopyFail BY <2>4, CopyStep, CopyFailStep
  <2>5. CASE PassOverlay \/ Fetch \/ Generate \/ GenerateFail \/ FilesEnd
    BY <2>5, PassOverlayStep, FetchStep, GenerateStep, GenerateFailStep, FilesEndStep
  <2>6. CASE OverlayFail \/ OverlaysEnd \/ Merge \/ MergeFail
    BY <2>6, OverlayFailStep, OverlaysEndStep, MergeStep, MergeFailStep
  <2> QED BY <1>3, <2>1, <2>2, <2>3, <2>4, <2>5, <2>6 DEF Step
<1> QED BY <1>1, <1>2, <1>3 DEF Next

\* Files are cut short by downloads and copies, and a clone goes with its own.
LEMMA CutStep == IInv /\ CutInv /\ [Next]_vars => CutInv'
<1> SUFFICES ASSUME IInv, CutInv, [Next]_vars PROVE CutInv' OBVIOUS
<1>1. CASE UNCHANGED <<conf, phase, cut, result>> BY <1>1 DEF CutInv, Ended, Late
<1>2. CASE Validate \/ Tree \/ FilesEnd \/ OverlaysEnd
  BY <1>2 DEF CutInv, Ended, Late, Validate, Tree, FilesEnd, OverlaysEnd, Wait, Fail, Go
<1>3. CASE TreeFail BY <1>3 DEF CutInv, Ended, TreeFail, Wait, Fail
<1>4. CASE Drop
  <2>1. Pending /\ UNCHANGED <<conf, phase, result>> /\ cut' \in {cut, cut \cup {Target}}
    BY <1>4 DEF Drop, Stray
  <2>2. ~conf.skip /\ phase \in {"extract", "files"} /\ (Late \/ ~conf.upstream => Target # "clone")
    BY <2>1, JobFacts DEF Extracts, Late, Work
  <2> QED BY <2>1, <2>2 DEF CutInv, Ended, Late, Pending
<1>5. CASE GiveUp
  <2>1. UNCHANGED <<conf, phase>> /\ cut' = cut \ {"clone"} /\ result' \in {result, "failed"}
    BY <1>5 DEF GiveUp, NoClone, Fail
  <2> QED BY <1>5, <2>1 DEF CutInv, Ended, Late, GiveUp, Pending
<1>6. CASE Copy BY <1>6 DEF CutInv, Ended, Copy, Wait, Go
<1>7. CASE CopyFail BY <1>7 DEF CutInv, Ended, CopyFail, Wait, Fail
<1>8. CASE Fetch \/ Generate \/ GenerateFail
  BY <1>8 DEF CutInv, Ended, Late, Fetch, Generate, GenerateFail, More, Wait, Fail
<1>9. CASE OverlayFail \/ Merge \/ MergeFail
  BY <1>9 DEF CutInv, Ended, Late, OverlayFail, Merge, MergeFail, Wait, Fail
<1>10. CASE UNCHANGED vars \/ EndContext \/ Again \/ PassOverlay
           \/ (\E v \in Contents : Arrive(v)) \/ \E n \in Names : Extract(n) \/ Repack(n)
  BY <1>1, <1>10 DEF vars, EndContext, Again, PassOverlay, Arrive, Extract, Repack
<1> QED BY <1>2, <1>3, <1>4, <1>5, <1>6, <1>7, <1>8, <1>9, <1>10 DEF Next, Step

\* The invariant of the whole preparation.
THEOREM PrepInvariant == Spec => []IInv
<1> QED BY InitInv, NextInv, PTL DEF Spec

\* The variables keep their types: no more than MaxAttempts attempts are made.
THEOREM PrepTypeCorrect == Spec => []TypeOK
<1>1. IInv => TypeOK BY DEF IInv
<1> QED BY <1>1, PrepInvariant, PTL

\* After a successful preparation, `sources`, files and configuration agree.
THEOREM ListStaysTrue == Spec => []ListIsTrue
<1>1. IInv => ListIsTrue BY DEF IInv, Results
<1> QED BY <1>1, PrepInvariant, PTL

\* render, which downloads nothing, writes the `sources` file that build writes.
THEOREM RenderAgreesWithBuild == Spec => []RenderedListIsBuilt
<1>1. IInv => RenderedListIsBuilt BY DEF IInv, Results
<1> QED BY <1>1, PrepInvariant, PTL

\* Scripts are only given files that met their hash.
THEOREM ScriptsGetCheckedFiles == Spec => []InputsAreVerified
<1>1. IInv => InputsAreVerified BY DEF IInv
<1> QED BY <1>1, PrepInvariant, PTL

\* However it ends, no clone is left behind, no failed download under the name
\* of a file, and nothing cut short by a rendering.
THEOREM NothingWrongIsLeft == Spec => []NoLeftovers
<1>1. Init => CutInv BY DEF Init, CutInv, Ended
<1>2. IInv /\ CutInv => NoLeftovers
  BY DEF IInv, Results, OnlyChecked, CutInv, NoLeftovers
<1> QED BY <1>1, <1>2, PrepInvariant, CutStep, PTL DEF Spec
=============================================================================
