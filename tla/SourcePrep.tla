------------------------------ MODULE SourcePrep ------------------------------
(***************************************************************************)
(* Preparation of one component's sources: its spec directory or dist-git  *)
(* clone, the files its `sources` file lists, the files its configuration  *)
(* adds ('source-files'), archive overlays, and the `sources` file that    *)
(* goes with the result.                                                   *)
(*                                                                         *)
(* A hash is the content it is the hash of; the hash type goes with it.    *)
(* A server may be down, or answer with anything; every step after which   *)
(* the code returns an error has one that does.  `sources` is a function:  *)
(* ReadSourcesFile refuses a file that names a file twice, and the order   *)
(* of lines, comments and blank lines make no difference here.             *)
(***************************************************************************)
EXTENDS Naturals, Sequences, SequencesExt

CONSTANTS Names, Contents,  \* names of files; what they may hold
          None,             \* no file, no hash
          MaxAttempts,      \* retry.Config.MaxAttempts
          Configs           \* components and options, see IsConfig

VARIABLES conf,     \* the component's configuration and the options
          phase,    \* the step of PrepareSources
          todo,     \* names the phase is not through with
          next,     \* index of the current entry of 'source-files'
          job,      \* the download under way
          files,    \* files[d][n]: file n of directory d
          cut,      \* the directories in which a file was cut short, see Drop
          sources,  \* sources[n]: the hash `sources` has for n
          final,    \* final[n]: its hash in the configuration PrepareSources
                    \* goes on with
          read,     \* history: what generation scripts were given
          ctxDone, result

vars == <<conf, phase, todo, next, job, files, cut, sources, final, read, ctxDone, result>>

(* An archive after its overlays: repacking is deterministic. *)
Repacked(c) == [repacked |-> c]
Values == Contents \cup {Repacked(c) : c \in Contents}
Maybe  == Values \cup {None}

(* An entry of 'source-files' that the configuration loader accepts, with  *)
(* an origin it knows.                                                     *)
Origins == {"download", "custom", "overlay"}
Refs == {r \in [name : Names, hash : Maybe, origin : Origins,
                replace : BOOLEAN, inputs : SUBSET Names] :
           /\ r.origin = "overlay" => r.replace
           /\ r.inputs # {} => r.origin = "custom"}

(* A `sources` file that can be read: each file once, with its hash.       *)
SourcesFiles == [Names -> Contents \cup {None}]

(* listed: the upstream `sources`; tree: the files next to the spec that   *)
(* are committed with it; patched: the archives that archive overlays      *)
(* change; origins: disable-origins is not set; mock: there is a provider  *)
(* for generated files; apply, allow, skip: the preparer's options.        *)
IsConfig(c) ==
    /\ c.upstream \in BOOLEAN /\ c.lookaside \in BOOLEAN /\ c.origins \in BOOLEAN
    /\ c.mock \in BOOLEAN /\ c.apply \in BOOLEAN /\ c.allow \in BOOLEAN /\ c.skip \in BOOLEAN
    /\ c.listed \in SourcesFiles
    /\ c.tree \in [Names -> Contents \cup {None}]
    /\ c.patched \subseteq Names
    /\ c.refs \in Seq(Refs)
    /\ \A i, j \in DOMAIN c.refs : c.refs[i].name = c.refs[j].name => i = j
    /\ c.upstream => c.lookaside

ASSUME PrepAssumption == /\ MaxAttempts \in Nat \ {0}
                         /\ None \notin Values
                         /\ \A c \in Configs : IsConfig(c)

Dirs  == {"clone", "out"}
Empty == [n \in Names |-> None]
Idle  == [name |-> None, want |-> None, from |-> "none", attempt |-> 0, failed |-> FALSE]
Ended == result # "none"

RefNames == {r.name : r \in ToSet(conf.refs)}
RefOf(n) == CHOOSE r \in ToSet(conf.refs) : r.name = n
(* The files FetchFiles acquires. *)
Fetched  == {r.name : r \in {r \in ToSet(conf.refs) : r.origin # "overlay"}}
Current  == conf.refs[next]

Put(d, n, v) == files' = [files EXCEPT ![d][n] = v]
Go(p, names) == phase' = p /\ todo' = names
Fail == result' = "failed"
Wait(p) == phase = p /\ ~Ended

Init == /\ conf \in Configs
        /\ phase = "start"
        /\ todo = {}
        /\ next = 1
        /\ job = Idle
        /\ files = [d \in Dirs |-> Empty]
        /\ cut = {}
        /\ sources = Empty
        /\ final = Empty
        /\ read = {}
        /\ ctxDone = FALSE
        /\ result = "none"

-----------------------------------------------------------------------------
(* Validation, and the spec directory or the dist-git clone                *)

(* ValidateArchiveOverlays: overlay origins and archive overlays match; an *)
(* overlay without an origin is let through to bootstrap its hash.         *)
Matched ==
    LET origins == RefNames \ Fetched
    IN  origins \subseteq conf.patched /\ (conf.allow \/ conf.patched \subseteq origins)

Validate ==
    /\ Wait("start")
    /\ IF conf.apply /\ ~Matched THEN Fail /\ UNCHANGED phase
                                 ELSE phase' = "tree" /\ UNCHANGED result
    /\ UNCHANGED <<conf, todo, next, job, files, cut, sources, final, read, ctxDone>>

Work == IF conf.upstream THEN "clone" ELSE "out"
Extracts == ~conf.skip /\ conf.lookaside

(* What `sources` lists and FetchFiles does not replace. *)
Wanted == {n \in Names \ Fetched : conf.listed[n] # None}

Tree ==
    /\ Wait("tree") /\ ~(conf.upstream /\ ctxDone)
    /\ files' = [files EXCEPT ![Work] = conf.tree]
    /\ Go("extract", IF Extracts THEN Wanted ELSE {})
    /\ UNCHANGED <<conf, next, job, cut, sources, final, read, ctxDone, result>>

(* The clone fails for the last time, or the checkout does, or the copy of *)
(* the spec directory half way, perhaps in the middle of a file.           *)
TreeFail ==
    /\ Wait("tree")
    /\ \E S \in SUBSET Names :
         files' = IF conf.upstream THEN files
                  ELSE [files EXCEPT !["out"] = [n \in Names |-> IF n \in S THEN conf.tree[n] ELSE None]]
    /\ cut' \in IF conf.upstream THEN {cut} ELSE {cut, {"out"}}
    /\ Fail
    /\ UNCHANGED <<conf, phase, todo, next, job, sources, final, read, ctxDone>>

-----------------------------------------------------------------------------
(* Downloads: retry.Do around a download and the check of its hash         *)

Request(n, hash, from) ==
    [name |-> n, want |-> hash, from |-> from, attempt |-> 1, failed |-> FALSE]

Target == IF job.from = "sources" THEN Work ELSE "out"

(* The files once the download is given up for good: without the wrong     *)
(* one, and without the temporary clone, which goes with any error.        *)
Cleared == [files EXCEPT !["out"] = IF Target = "out" THEN [@ EXCEPT ![job.name] = None] ELSE @,
                         !["clone"] = Empty]
NoClone == cut' = cut \ {"clone"}

Pending == job # Idle /\ ~Ended

(* The caller goes on to its next file. *)
Advance == IF job.from = "sources" THEN todo' = todo \ {job.name} /\ UNCHANGED next
                                   ELSE next' = next + 1 /\ UNCHANGED todo

(* The file is replaced as a whole; a wrong one stays there for now. *)
Arrive(v) ==
    /\ Pending /\ ~job.failed /\ ~ctxDone
    /\ Put(Target, job.name, v)
    /\ IF job.want \in {None, v}
       THEN job' = Idle /\ Advance
       ELSE job' = [job EXCEPT !.failed = TRUE] /\ UNCHANGED <<todo, next>>
    /\ UNCHANGED <<conf, phase, cut, sources, final, read, ctxDone, result>>

(* The answer goes to a temporary file, which nobody removes when the      *)
(* request fails, the answer ends early, or the file cannot be put in its  *)
(* place.  renameio makes it in TMPDIR, which is not looked at here, unless *)
(* that is on another file system, or refuses: then next to the file.      *)
Stray == cut' \in {cut, cut \cup {Target}}

(* The old file was removed before the request.                            *)
Drop ==
    /\ Pending /\ ~job.failed
    /\ Put(Target, job.name, None)
    /\ Stray
    /\ job' = [job EXCEPT !.failed = TRUE]
    /\ UNCHANGED <<conf, phase, todo, next, sources, final, read, ctxDone, result>>

(* The wait before the next attempt is over. *)
Again ==
    /\ Pending /\ job.failed /\ job.attempt < MaxAttempts /\ ~ctxDone
    /\ job' = [job EXCEPT !.failed = FALSE, !.attempt = @ + 1]
    /\ UNCHANGED <<conf, phase, todo, next, files, cut, sources, final, read, ctxDone, result>>

(* Mutant: the end of the context does not end the wait. *)
GiveUpAtLast ==
    /\ Pending /\ job.failed /\ job.attempt = MaxAttempts
    /\ files' = Cleared /\ NoClone
    /\ IF job.from = "lookaside" /\ conf.origins
       THEN job' = Request(job.name, job.want, "origin") /\ UNCHANGED result
       ELSE job' = Idle /\ Fail
    /\ UNCHANGED <<conf, phase, todo, next, sources, final, read, ctxDone>>

(* Mutant: the wrong file is left behind. *)
GiveUpLeaves ==
    /\ Pending /\ job.failed /\ (job.attempt = MaxAttempts \/ ctxDone)
    /\ IF job.from = "lookaside" /\ conf.origins
       THEN job' = Request(job.name, job.want, "origin") /\ UNCHANGED result
       ELSE job' = Idle /\ Fail
    /\ UNCHANGED <<conf, phase, todo, next, files, cut, sources, final, read, ctxDone>>

(* The last attempt failed, or the context ended during the wait: a file   *)
(* that was not in the lookaside cache is asked for at its origin.         *)
GiveUp ==
    /\ Pending /\ job.failed /\ (job.attempt = MaxAttempts \/ ctxDone)
    /\ files' = Cleared /\ NoClone
    /\ IF job.from = "lookaside" /\ conf.origins
       THEN job' = Request(job.name, job.want, "origin") /\ UNCHANGED result
       ELSE job' = Idle /\ Fail
    /\ UNCHANGED <<conf, phase, todo, next, sources, final, read, ctxDone>>

(* The next file of `sources`; one that is there already is not touched. *)
Extract(n) ==
    /\ Wait("extract") /\ job = Idle /\ n \in todo
    /\ IF files[Work][n] # None
       THEN todo' = todo \ {n} /\ UNCHANGED job
       ELSE job' = Request(n, conf.listed[n], "sources") /\ UNCHANGED todo
    /\ UNCHANGED <<conf, phase, next, files, cut, sources, final, read, ctxDone, result>>

(* All of the clone is copied to the output directory, and it is removed,  *)
(* as it is on the error paths.                                            *)
Copy ==
    /\ Wait("extract") /\ todo = {}
    /\ files' = [d \in Dirs |-> IF d = "out" THEN files[Work] ELSE Empty]
    /\ cut' = {"out" : d \in cut}
    /\ sources' = conf.listed
    /\ Go("files", {})
    /\ UNCHANGED <<conf, next, job, final, read, ctxDone, result>>

CopyFail ==
    /\ Wait("extract") /\ todo = {} /\ conf.upstream
    /\ \E S \in SUBSET Names :
         files' = [d \in Dirs |-> IF d = "out" THEN [n \in Names |-> IF n \in S THEN files["clone"][n] ELSE None]
                                  ELSE Empty]
    /\ cut' \in SUBSET {"out"}
    /\ Fail
    /\ UNCHANGED <<conf, phase, todo, next, job, sources, final, read, ctxDone>>

-----------------------------------------------------------------------------
(* FetchFiles: the entries of 'source-files' in order                      *)

More == Wait("files") /\ job = Idle /\ ~conf.skip /\ next <= Len(conf.refs)

PassOverlay ==
    /\ More /\ Current.origin = "overlay"
    /\ next' = next + 1
    /\ UNCHANGED <<conf, phase, todo, job, files, cut, sources, final, read, ctxDone, result>>

(* A file with a hash is looked for in the lookaside cache first. *)
Fetch ==
    /\ More /\ Current.origin = "download"
    /\ LET cached == conf.lookaside /\ Current.hash # None
       IN  IF cached \/ conf.origins
           THEN /\ job' = Request(Current.name, Current.hash, IF cached THEN "lookaside" ELSE "origin")
                /\ UNCHANGED result
           ELSE Fail /\ UNCHANGED job
    /\ UNCHANGED <<conf, phase, todo, next, files, cut, sources, final, read, ctxDone>>

Given == {[entry |-> next, name |-> n, held |-> files["out"][n]] : n \in Current.inputs}
Runnable == conf.mock /\ \A n \in Current.inputs : files["out"][n] # None

(* The generation script runs on copies of its inputs and its output is    *)
(* packed; a wrong hash is the end.                                        *)
Generate ==
    /\ More /\ Current.origin = "custom" /\ Runnable /\ ~ctxDone
    /\ read' = read \cup Given
    /\ \E v \in Contents :
         /\ Put("out", Current.name, v)
         /\ IF Current.hash \in {None, v} THEN next' = next + 1 /\ UNCHANGED result
                                          ELSE Fail /\ UNCHANGED next
    /\ UNCHANGED <<conf, phase, todo, job, cut, sources, final, ctxDone>>

(* No provider, no input, the script fails, or the packing half way. *)
GenerateFail ==
    /\ More /\ Current.origin = "custom"
    /\ \/ UNCHANGED files
       \/ Runnable /\ \E v \in Contents : Put("out", Current.name, v)
    /\ Fail
    /\ UNCHANGED <<conf, phase, todo, next, job, cut, sources, final, read, ctxDone>>

FilesEnd ==
    /\ Wait("files") /\ job = Idle /\ (conf.skip \/ next > Len(conf.refs))
    /\ IF conf.apply THEN Go("overlays", IF conf.skip THEN {} ELSE conf.patched) /\ UNCHANGED result
                     ELSE result' = "ok" /\ UNCHANGED <<phase, todo>>
    /\ UNCHANGED <<conf, next, job, files, cut, sources, final, read, ctxDone>>

-----------------------------------------------------------------------------
(* Overlays and the `sources` file                                         *)

(* An archive is repacked next to the old one, which it then replaces. *)
Repack(n) ==
    /\ Wait("overlays") /\ n \in todo /\ files["out"][n] \in Contents
    /\ Put("out", n, Repacked(files["out"][n]))
    /\ todo' = todo \ {n}
    /\ UNCHANGED <<conf, phase, next, job, cut, sources, final, read, ctxDone, result>>

(* The macros file, an archive, another overlay. *)
OverlayFail ==
    /\ Wait("overlays")
    /\ Fail
    /\ UNCHANGED <<conf, phase, todo, next, job, files, cut, sources, final, read, ctxDone>>

OverlaysEnd ==
    /\ Wait("overlays") /\ todo = {}
    /\ phase' = "merge"
    /\ UNCHANGED <<conf, todo, next, job, files, cut, sources, final, read, ctxDone, result>>

Changed == IF conf.skip THEN {} ELSE conf.patched

(* Mutant: a hash is taken from the file whenever there is one. *)
HashFromDisk(r) == IF files["out"][r.name] # None THEN files["out"][r.name] ELSE r.hash

(* A missing hash is that of the file, when the user allows it. *)
Hash(r) == IF r.hash # None THEN r.hash ELSE files["out"][r.name]

(* Mutant: entries of repacked archives are not looked at. *)
MergedNoRehash == [n \in Names |-> IF n \in RefNames THEN Hash(RefOf(n)) ELSE sources[n]]

(* Entries of repacked archives are rehashed, then those that              *)
(* 'source-files' replaces or adds are put in.                             *)
Merged == [n \in Names |-> IF n \in RefNames THEN Hash(RefOf(n))
                           ELSE IF n \in Changed THEN files["out"][n] ELSE sources[n]]

Mergeable ==
    /\ \A n \in Changed : sources[n] # None
    /\ \A r \in ToSet(conf.refs) :
         /\ r.origin = "overlay" /\ r.name \in Changed => r.hash \in {None, files["out"][r.name]}
         /\ r.replace <=> sources[r.name] # None
         /\ r.hash = None => conf.allow /\ ~conf.skip /\ files["out"][r.name] # None

Merge ==
    /\ Wait("merge") /\ Mergeable
    /\ sources' = Merged
    /\ final' = [n \in Names |-> IF n \in RefNames THEN Hash(RefOf(n)) ELSE None]
    /\ result' = "ok"
    /\ UNCHANGED <<conf, phase, todo, next, job, files, cut, read, ctxDone>>

(* `sources` cannot be read or written, or the merge is refused. *)
MergeFail ==
    /\ Wait("merge") /\ (conf.refs # <<>> \/ Changed # {})
    /\ Fail
    /\ sources' \in {sources, Empty}
    /\ UNCHANGED <<conf, phase, todo, next, job, files, cut, final, read, ctxDone>>

EndContext ==
    /\ ~ctxDone /\ ~Ended
    /\ ctxDone' = TRUE
    /\ UNCHANGED <<conf, phase, todo, next, job, files, cut, sources, final, read, result>>

-----------------------------------------------------------------------------
Step == \/ Validate \/ Tree \/ TreeFail
        \/ \E v \in Contents : Arrive(v)
        \/ Drop \/ Again \/ GiveUp
        \/ \E n \in Names : Extract(n) \/ Repack(n)
        \/ Copy \/ CopyFail
        \/ PassOverlay \/ Fetch \/ Generate \/ GenerateFail \/ FilesEnd
        \/ OverlayFail \/ OverlaysEnd \/ Merge \/ MergeFail

Next == Step \/ EndContext

Spec     == Init /\ [][Next]_vars
FairSpec == Spec /\ WF_vars(Step)

-----------------------------------------------------------------------------
Jobs == [name : Names \cup {None}, want : Maybe, attempt : 0..MaxAttempts,
         from : {"none", "sources", "lookaside", "origin"}, failed : BOOLEAN]

(* The type of every variable: no more than MaxAttempts attempts, and      *)
(* never an entry beyond the last.                                         *)
TypeOK ==
    /\ IsConfig(conf)
    /\ phase \in {"start", "tree", "extract", "files", "overlays", "merge"}
    /\ todo \subseteq Names
    /\ next \in 1..(Len(conf.refs) + 1)
    /\ job \in Jobs
    /\ files \in [Dirs -> [Names -> Maybe]]
    /\ cut \subseteq Dirs
    /\ sources \in [Names -> Maybe]
    /\ final \in [Names -> Maybe]
    /\ read \subseteq [entry : Nat, name : Names, held : Values]
    /\ ctxDone \in BOOLEAN
    /\ result \in {"none", "ok", "failed"}

(* A file that is committed next to the spec and that nothing replaces. *)
Committed(n) == conf.tree[n] # None /\ n \notin RefNames \cup conf.patched

(* A repacked archive that 'source-files' has downloaded: only while the   *)
(* hash of an overlay is bootstrapped.                                     *)
Bootstrapped(n) == n \in conf.patched \cap Fetched

Consistent(S) ==
    result = "ok" /\ conf.apply /\ Extracts =>
        \A n \in S : /\ sources[n] # None => files["out"][n] = sources[n]
                     /\ n \in RefNames => final[n] = sources[n]

(* After a successful preparation the new `sources` file, the output       *)
(* directory and the configuration that is fingerprinted agree: the hash   *)
(* of each listed file is the hash of that file, whichever of upstream,    *)
(* cache, origin, script and overlays it came from.                        *)
ListIsTrue == Consistent({n \in Names : ~Committed(n) /\ ~Bootstrapped(n)})

(* The hashes the configuration and the upstream `sources` declare. *)
Declared == [n \in Names |-> IF n \in RefNames THEN RefOf(n).hash ELSE conf.listed[n]]

(* A preparation that skips downloads (render) and one that does not       *)
(* (build) write the same `sources` file, if neither computes hashes.      *)
RenderedListIsBuilt == result = "ok" /\ conf.apply /\ ~conf.allow => sources = Declared

(* A generation script is only given files that were checked against the   *)
(* hash they have: that of an earlier entry, or of the upstream `sources`. *)
InputsAreVerified ==
    \A g \in read :
        LET earlier == {i \in 1..(g.entry - 1) :
                          conf.refs[i].name = g.name /\ conf.refs[i].origin # "overlay"}
        IN  /\ \A i \in earlier : conf.refs[i].hash \in {None, g.held}
            /\ g.name \notin Fetched /\ conf.tree[g.name] = None /\ conf.listed[g.name] # None =>
                  g.held = conf.listed[g.name]

(* Generated files are not downloads; their hash is checked where they are. *)
Generated(n) == n \in Fetched /\ RefOf(n).origin = "custom"
Expected(n)  == IF n \in Fetched THEN RefOf(n).hash ELSE conf.listed[n]

(* A file that should have been downloaded with some hash is missing, as   *)
(* committed, or as it should be, but for its archive overlays.            *)
NoWrongFile ==
    \A n \in Names : ~Generated(n) /\ Expected(n) # None =>
        files["out"][n] \in {None} \cup UNION {{v, Repacked(v)} : v \in {conf.tree[n], Expected(n)}}

(* Whether a preparation ends well or badly, with or without retries and   *)
(* fall-backs: the temporary clone is gone, with all that was in it; what  *)
(* stands in the output directory under the name of a file to download is  *)
(* no download that failed its check; and a rendering, whose output is     *)
(* committed, leaves no file that was cut short.  A preparation that       *)
(* downloads may leave one, under a temporary name and even when it ends   *)
(* well (Drop); one that fails may leave a copy that was cut short, or     *)
(* what a script generated with a wrong hash.                              *)
NoLeftovers ==
    Ended => /\ files["clone"] = Empty /\ "clone" \notin cut
             /\ result = "ok" /\ conf.skip => cut = {}
             /\ NoWrongFile

(* Every preparation ends, if its steps are taken: no file is asked for    *)
(* for ever.                                                               *)
PrepareEnds == <>Ended
=============================================================================
