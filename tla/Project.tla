------------------------------ MODULE Project ------------------------------
(***************************************************************************)
(* How azldev loads a project's configuration (projectconfig/loader.go)    *)
(* and how a command then selects components from it (core/components/     *)
(* resolver.go).                                                           *)
(*                                                                         *)
(* Loading reads each configuration file of the command line and what it   *)
(* includes, depth first, merges the files in that order, and validates    *)
(* the result.  Selecting resolves each component through the defaults of  *)
(* the distro, of the project and of its groups.  The groups are visited   *)
(* in the random order of a Go map, which is a choice here.                *)
(***************************************************************************)
EXTENDS Catalog

CONSTANTS
  Projects,    \* the projects a behaviour may start from (see Disk below)
  Comps, Groups, Specs, Keys,
  GroupOrder,  \* the groups, in alphabetical order of their names
  NameOf,      \* the component a spec file is named for
  MaxSelects,  \* bound: the selections from one loaded configuration
  Commands,    \* the commands that ask the catalog
  None

Zero == ""   \* the zero value of a string in Go
Files == UNION {DOMAIN p.file : p \in Projects}

(* A component as one file or one layer of defaults writes it; a component *)
(* of the merged configuration; a group; a file.                           *)
ComponentLayers == [type : {Zero, "local", "upstream"}, path : Specs \cup {None}, pin : STRING \cup {Zero}, files : Seq(STRING), skip : BOOLEAN,
           pats : Seq([glob : BOOLEAN, dir : Files \cup {None}]) \cup {None}]
MergedComponents == [layer : ComponentLayers, from : Files, pinFrom : Files \cup {None}]
GroupDefs == [members : SUBSET Comps, specs : SUBSET Specs, defaults : ComponentLayers]
FileContents == [includes : Seq([glob : BOOLEAN, found : Seq(Files)]), unknown : BOOLEAN,
                 comps : [Comps -> ComponentLayers \cup {None}], groups : [Groups -> GroupDefs \cup {None}],
                 repos : [Keys -> STRING \cup {None}], defines : SUBSET STRING, uses : SUBSET STRING,
                 defaults : ComponentLayers]

ASSUME ProjectAssumption ==
  /\ IsInjective(GroupOrder) /\ Range(GroupOrder) = Groups /\ IsFiniteSet(Groups) /\ IsFiniteSet(Specs)
  /\ NameOf \in [Specs -> Comps] /\ MaxSelects \in Nat
  /\ \A p \in Projects : /\ p.file \in [Files -> FileContents] /\ p.top \in Seq(Files) \ {<<>>}
                        /\ {p.lockfree, p.permissive} \subseteq BOOLEAN /\ p.specs \subseteq Specs
                        /\ p.rank \in [Specs -> 1..Cardinality(Specs)] /\ IsInjective(p.rank)
  /\ \A c \in Commands : c.by = "rpmfile" => DOMAIN c.entries = 1..Len(c.entries) /\ Len(c.entries) \in Nat
  /\ None \notin MergedComponents \cup GroupDefs \cup ComponentLayers \cup Specs \cup Files

(* A refusal is not taken for an answer.                                   *)
ASSUME CatalogAssumption ==
  /\ \A p \in Projects : p.catalog # None => CatalogTypeOK(p.catalog)
  /\ \A c \in Commands : /\ c.by \in {"version", "compare"} => c.arches \in Seq(Text)
                         /\ c.by = "version" => c.use \in UseCases /\ {c.noDebug, c.noSource} \subseteq BOOLEAN
  /\ Refused \notin Seq(Text) \cup Seq(QueriedRepos)

VARIABLES
  proj,      \* what is on disk, and the flags of the run
  pc,        \* "load", "merge", "validate", "ready", or "failed"
  why,       \* why loading failed
  tops,      \* the files of the command line that are still to load
  todo,      \* under the file being loaded: the files still to read, in order
  seen,      \* the files read under it
  batch,     \* the files read and not merged yet, in order
  order,     \* the files merged so far
  cfg,       \* the merged configuration
  answers,   \* what each selection answered
  asked      \* the catalog's answer to one command, and the command

projectVars == <<proj, pc, why, tops, todo, seen, batch, order, cfg, answers, asked>>

(* A component as one layer writes it: the zero values are what mergo      *)
(* takes for unset.                                                        *)
Empty == [type |-> Zero, path |-> None, pin |-> Zero, files |-> <<>>, skip |-> FALSE, pats |-> None]

NewProjectConfig == [comps |-> [c \in Comps |-> None], groups |-> [g \in Groups |-> None],
                     repos |-> [k \in Keys |-> None], taken |-> {}, uses |-> {}, defaults |-> Empty]

(* LoadProjectConfig: the embedded defaults, the project's azldev.toml,    *)
(* the user's file, then the files of --config-file; none of them need be  *)
(* distinct from what another includes.                                    *)
ProjectInit == /\ proj \in Projects
               /\ pc = "load" /\ why = Zero /\ tops = Tail(proj.top)
               /\ todo = <<Head(proj.top)>> /\ seen = {} /\ batch = <<>> /\ order = <<>>
               /\ cfg = NewProjectConfig /\ answers = <<>> /\ asked = None

File(f) == proj.file[f]
Missing == "missing"

(* One include pattern: the files it matches; a pattern that is a plain    *)
(* path has to match.                                                      *)
Matches(pattern) == IF pattern.found = <<>> /\ ~pattern.glob THEN <<Missing>> ELSE pattern.found
Includes(f) == FlattenSeq([i \in DOMAIN File(f).includes |-> Matches(File(f).includes[i])])

HasDuplicates(s) == ~IsInjective(s)

(* The struct tags of SpecSource: a path if and only if the type is local, *)
(* a pin only for upstream.                                                *)
SpecIsValid(l) == /\ l.type = "local" <=> l.path # None
                  /\ l.pin # Zero => l.type = "upstream"

(* loadProjectConfigFile, after decoding: unknown fields, and Validate.    *)
(* Without lock files a component may be spread over files, so only its    *)
(* source files are looked at.                                             *)
FileIsValid(f) ==
  /\ File(f).unknown => proj.permissive
  /\ \A c \in Comps : File(f).comps[c] # None =>
       /\ ~HasDuplicates(File(f).comps[c].files)
       /\ ~proj.lockfree => SpecIsValid(File(f).comps[c])

Fail(reason) == pc' = "failed" /\ why' = reason

AlreadySeen(f) == f \in seen

(* loadProjectConfigWithIncludes, one file of the depth-first walk.  A     *)
(* file stays in `seen` once the walk has left it.                         *)
ReadFile ==
  /\ pc = "load" /\ todo # <<>>
  /\ LET f == Head(todo) IN
     IF f = Missing THEN Fail("no such include") /\ UNCHANGED <<todo, seen, batch>>
     ELSE IF AlreadySeen(f) THEN Fail("circular include") /\ UNCHANGED <<todo, seen, batch>>
     ELSE IF ~FileIsValid(f) THEN Fail("invalid file") /\ UNCHANGED <<todo, seen, batch>>
     ELSE /\ todo' = Includes(f) \o Tail(todo)
          /\ seen' = seen \cup {f} /\ batch' = Append(batch, f)
          /\ pc' = (IF todo' = <<>> THEN "merge" ELSE pc) /\ UNCHANGED why
  /\ UNCHANGED <<proj, tops, order, cfg, answers, asked>>

(* ComponentConfig.MergeUpdatesFrom: what the later layer sets wins, lists *)
(* are appended, overlay-files is replaced as a whole.                     *)
Merged(a, b) == [type  |-> IF b.type # Zero THEN b.type ELSE a.type,
                 path  |-> IF b.path # None THEN b.path ELSE a.path,
                 pin   |-> IF b.pin # Zero THEN b.pin ELSE a.pin,
                 files |-> a.files \o b.files,
                 skip  |-> a.skip \/ b.skip,
                 pats  |-> IF b.pats # None THEN b.pats ELSE a.pats]

(* overlay-files in file f: with lock files they become absolute here, and *)
(* without they stay relative to whatever file the component ends up in.   *)
Anchored(l, f) == IF l.pats = None THEN l
                  ELSE [l EXCEPT !.pats = [i \in DOMAIN l.pats |-> [l.pats[i] EXCEPT !.dir = IF @ = None THEN f ELSE @]]]

(* A plausible slip: the pin's file follows the component's.               *)
MergedComponentPinFollows(old, f, l) ==
  LET new  == IF proj.lockfree THEN l ELSE Anchored(l, f)
      base == IF old = None THEN Empty ELSE old.layer
  IN [layer |-> Merged(base, new), from |-> f, pinFrom |-> f]
(* A component and its provenance: `from` is its SourceConfigFile, and     *)
(* pinFrom its upstreamCommitConfigFile, kept only without lock files.     *)
MergedComponent(old, f, l) ==
  LET new  == IF proj.lockfree THEN l ELSE Anchored(l, f)
      base == IF old = None THEN Empty ELSE old.layer
  IN [layer |-> Merged(base, new), from |-> f,
      pinFrom |-> IF proj.lockfree /\ l.pin # Zero THEN f
                  ELSE IF old = None THEN None ELSE old.pinFrom]

(* What a second definition of the same name makes an error: component     *)
(* groups, images, package groups, tests and test groups.                  *)
Collides(f) == \/ \E g \in Groups : File(f).groups[g] # None /\ cfg.groups[g] # None
               \/ File(f).defines \cap cfg.taken # {}

Later(old, new) == IF new # None THEN new ELSE old

(* mergeConfigFile.                                                        *)
MergeFile ==
  /\ pc = "merge" /\ batch # <<>>
  /\ LET f == Head(batch) IN
     IF Collides(f) THEN Fail("duplicate definition") /\ UNCHANGED <<batch, order, cfg>>
     ELSE /\ cfg' = [comps    |-> [c \in Comps |-> IF File(f).comps[c] = None THEN cfg.comps[c]
                                                   ELSE MergedComponent(cfg.comps[c], f, File(f).comps[c])],
                     groups   |-> [g \in Groups |-> Later(cfg.groups[g], File(f).groups[g])],
                     repos    |-> [k \in Keys |-> Later(cfg.repos[k], File(f).repos[k])],
                     taken    |-> cfg.taken \cup File(f).defines,
                     uses     |-> cfg.uses \cup File(f).uses,
                     defaults |-> Merged(cfg.defaults, File(f).defaults)]
          /\ batch' = Tail(batch) /\ order' = Append(order, f) /\ UNCHANGED <<pc, why>>
  /\ UNCHANGED <<proj, tops, todo, seen, answers, asked>>

(* The next file of the command line starts with a `seen` of its own.      *)
NextTop ==
  /\ pc = "merge" /\ batch = <<>>
  /\ IF tops = <<>> THEN pc' = "validate" /\ UNCHANGED <<tops, todo, seen>>
     ELSE /\ pc' = "load" /\ tops' = Tail(tops)
          /\ todo' = <<Head(tops)>> /\ seen' = {}
  /\ UNCHANGED <<proj, why, batch, order, cfg, answers, asked>>

Members(g) == IF cfg.groups[g] = None THEN {} ELSE cfg.groups[g].members

(* ProjectConfig.validate: what has to hold of the whole.  References from *)
(* images, groups and components to tests, and of distro inputs to         *)
(* repositories, are alike here: what is used has to be defined.           *)
ComponentsAreValid == \A c \in Comps : cfg.comps[c] # None =>
                         /\ SpecIsValid(cfg.comps[c].layer)
                         /\ ~HasDuplicates(cfg.comps[c].layer.files)
ReferencesAreDefined == /\ \A g \in Groups : \A c \in Members(g) : cfg.comps[c] # None
                        /\ cfg.uses \subseteq cfg.taken
IsValid == /\ proj.lockfree => ComponentsAreValid
           /\ ReferencesAreDefined
           /\ proj.catalog # None => CatalogIsValid(proj.catalog)

Validate ==
  /\ pc = "validate"
  /\ IF IsValid \/ proj.permissive THEN pc' = "ready" /\ UNCHANGED why ELSE Fail("invalid project")
  /\ UNCHANGED <<proj, tops, todo, seen, batch, order, cfg, answers, asked>>

--------------------------------------------------------------------------
(* Selecting components.                                                   *)

SpecsOf(g) == IF cfg.groups[g] = None THEN {} ELSE cfg.groups[g].specs
GroupsByComponent(c) == {g \in Groups : c \in Members(g)}
Defined == {g \in Groups : cfg.groups[g] # None}

Failed == None   \* a selection that ends in an error
Layer(k, c) == IF k.comps[c] = None THEN Empty ELSE k.comps[c].layer

(* ResolveComponentConfig: distro and project defaults, the groups in      *)
(* alphabetical order, then the component itself; k is a configuration.    *)
ResolveComponentConfig(k, c, groups) ==
  LET apply == SelectSeq(GroupOrder, LAMBDA g : g \in groups)
      defs  == FoldLeft(LAMBDA acc, g : Merged(acc, k.groups[g].defaults), k.defaults, apply)
  IN Merged(defs, Layer(k, c))

(* ExpandResolvedOverlayFiles: the documents the patterns find, each once; *)
(* a relative pattern looks beside the component's file, or its spec.      *)
PatternDir(p, c, spec) == IF p.dir # None THEN p.dir
                          ELSE IF cfg.comps[c] # None THEN cfg.comps[c].from ELSE spec
OverlaysFound(l, c, spec) ==
  IF l.pats = None THEN {} ELSE UNION {proj.overlays[PatternDir(l.pats[i], c, spec)] : i \in DOMAIN l.pats}
OverlayFails(l, c, spec) ==
  /\ l.pats # None
  /\ \E i \in DOMAIN l.pats : LET dir == PatternDir(l.pats[i], c, spec)
                              IN dir = None \/ (~l.pats[i].glob /\ proj.overlays[dir] = {})

(* getComponentFromNameAndSpecPath: `extra` is the group through which the *)
(* component was found, over those that list it by name.                   *)
GetComponent(c, spec, extra) ==
  LET l == ResolveComponentConfig(cfg, c, GroupsByComponent(c) \cup extra) IN
  IF \/ cfg.comps[c] = None /\ spec = None
     \/ OverlayFails(l, c, spec)
     \/ spec # None /\ l.path \notin {None, spec}
  THEN Failed
  ELSE [name |-> c, type |-> IF spec # None THEN "local" ELSE l.type,
        path |-> IF spec # None THEN spec ELSE l.path, pin |-> IF spec # None THEN Zero ELSE l.pin,
        files |-> l.files, skip |-> l.skip, overlays |-> OverlaysFound(l, c, spec)]

(* FindAllComponents: each group adds the components its patterns find,    *)
(* over what an earlier group added; then those no pattern found.  The     *)
(* order of the groups is a map's.                                         *)
Hits(c, groups) == {h \in Groups \X Specs : h[1] \in groups /\ h[2] \in SpecsOf(h[1]) /\ NameOf[h[2]] = c}
Found == {c \in Comps : Hits(c, Groups) # {}}
AllNames == Found \cup {c \in Comps : cfg.comps[c] # None}
After(h, h2, visit) == \/ visit[h[1]] > visit[h2[1]]
                      \/ (visit[h[1]] = visit[h2[1]] /\ proj.rank[h[2]] > proj.rank[h2[2]])
LastVisited(c, visit) == CHOOSE h \in Hits(c, Groups) : \A h2 \in Hits(c, Groups) \ {h} : After(h, h2, visit)
FromHit(h) == GetComponent(NameOf[h[2]], h[2], {h[1]})
FindAllComponents(visit) ==
  IF \/ \E c \in Found : \E h \in Hits(c, Groups) : FromHit(h) = Failed
     \/ \E c \in AllNames \ Found : GetComponent(c, None, {}) = Failed
  THEN Failed
  ELSE [c \in AllNames |-> IF c \in Found THEN FromHit(LastVisited(c, visit)) ELSE GetComponent(c, None, {})]

(* The criteria of FindComponents, each alone: what it adds to the set,    *)
(* or why it fails.                                                        *)
Set1(r) == IF r = Failed THEN Failed ELSE [c \in {r.name} |-> r]
(* A plausible slip: a spec named by its path is taken for a loose one. *)
BySpecPathLoose(spec) == IF spec \notin proj.specs THEN Failed
                         ELSE Set1(GetComponent(NameOf[spec], spec, {}))

BySpecPath(spec) == IF spec \notin proj.specs THEN Failed
                    ELSE Set1(GetComponent(NameOf[spec], spec, {g \in Groups : spec \in SpecsOf(g)}))
ByName(c, visit) == LET all == FindAllComponents(visit) IN
                    IF all = Failed \/ c \notin AllNames THEN Failed ELSE Set1(all[c])
ByGlob(matched, visit) == LET all == FindAllComponents(visit) IN
                          IF all = Failed THEN Failed ELSE Restrict(all, matched \cap AllNames)
ByGroup(g) == IF g \notin Defined \/ (\E s \in SpecsOf(g) : FromHit(<<g, s>>) = Failed) THEN Failed
              ELSE LET names == {NameOf[s] : s \in SpecsOf(g)}
                       first(c) == CHOOSE s \in SpecsOf(g) :
                                      /\ NameOf[s] = c
                                      /\ \A t \in SpecsOf(g) : NameOf[t] = c => proj.rank[s] <= proj.rank[t]
                   IN [c \in names |-> FromHit(<<g, first(c)>>)]

Criteria == [by : {"all"}] \cup [by : {"spec"}, spec : Specs] \cup [by : {"name"}, name : Comps]
            \cup [by : {"glob"}, matched : SUBSET Comps] \cup [by : {"group"}, group : Groups]
Answer(f, visit) == CASE f.by = "all"   -> FindAllComponents(visit)
                      [] f.by = "spec"  -> BySpecPath(f.spec)
                      [] f.by = "name"  -> ByName(f.name, visit)
                      [] f.by = "glob"  -> ByGlob(f.matched, visit)
                      [] f.by = "group" -> ByGroup(f.group)

(* Several criteria in one command: spec paths, then names, then groups;   *)
(* what is in the set already stays.                                       *)
Rank(f) == CASE f.by = "spec" -> 1 [] f.by \in {"name", "glob"} -> 2 [] f.by = "group" -> 3 [] OTHER -> 4
Both(a, b) == IF Failed \in {a, b} THEN Failed
              ELSE [c \in DOMAIN a \cup DOMAIN b |-> IF c \in DOMAIN a THEN a[c] ELSE b[c]]

Visits == {v \in [Groups -> 1..Cardinality(Groups)] : IsInjective(v)}

(* Bound: of a project with a catalog, only the catalog is asked.          *)
Select(f1, f2) ==
  /\ pc = "ready" /\ Len(answers) < MaxSelects /\ proj.catalog = None
  /\ f1 = f2 \/ (Rank(f1) <= Rank(f2) /\ f2.by # "all")
  /\ \E v1, v2 \in Visits :
       answers' = Append(answers, IF f1 = f2 THEN Answer(f1, v1) ELSE Both(Answer(f1, v1), Answer(f2, v2)))
  /\ UNCHANGED <<proj, pc, why, tops, todo, seen, batch, order, cfg, asked>>

(* A command that uses the catalog: repo query in its two forms, repo      *)
(* compare, image test, and package list in its two.                       *)
Reply(c) == LET k == proj.catalog IN
            CASE c.by = "version"  -> QueryVersion(k, c)
              [] c.by = "prefixes" -> QueryPrefixes(k, c)
              [] c.by = "compare"  -> Compare(k, c.left, c.right, c.arches)
              [] c.by = "tests"    -> TestsToRun(k, c.selectors)
              [] c.by = "list"     -> ListPackages(k, c.all, c.names, c.synth)
              [] c.by = "rpmfile"  -> ListRPMFile(k, c.entries)
Ask(c) ==
  /\ pc = "ready" /\ proj.catalog # None /\ asked = None
  /\ asked' = [command |-> c, reply |-> Reply(c)]
  /\ UNCHANGED <<proj, pc, why, tops, todo, seen, batch, order, cfg, answers>>

Load == ReadFile \/ MergeFile \/ NextTop \/ Validate
ProjectNext == \/ Load
               \/ \E f1, f2 \in Criteria : Select(f1, f2)
               \/ \E c \in Commands : Ask(c)

ProjectSpec == ProjectInit /\ [][ProjectNext]_projectVars

--------------------------------------------------------------------------
(* The types. *)
ProjectTypeOK ==
  /\ proj \in Projects /\ pc \in {"load", "merge", "validate", "ready", "failed"} 
  /\ why \in {Zero, "no such include", "circular include", "invalid file", "duplicate definition", "invalid project"}
  /\ tops \in Seq(Files) /\ todo \in Seq(Files \cup {Missing}) /\ seen \subseteq Files
  /\ batch \in Seq(Files) /\ order \in Seq(Files)
  /\ cfg \in [comps : [Comps -> MergedComponents \cup {None}], groups : [Groups -> GroupDefs \cup {None}],
              repos : [Keys -> STRING \cup {None}], taken : SUBSET STRING, uses : SUBSET STRING, defaults : ComponentLayers]
  /\ Len(answers) \in 0..MaxSelects
  /\ asked # None => asked.command \in Commands

Pins(f, c) == File(f).comps[c] # None /\ File(f).comps[c].pin # Zero

(* Without lock files the history of a component is followed in the file   *)
(* its pin came from (UpstreamCommitConfigFile).  However the component is *)
(* spread over includes, the user's file and --config-file, that is the    *)
(* last file read that pins it, and the pin in force is that file's.       *)
PinHasItsFile ==
  pc = "ready" /\ proj.lockfree =>
    \A c \in Comps : cfg.comps[c] # None =>
      LET pinning == {i \in DOMAIN order : Pins(order[i], c)}
          f == IF pinning = {} THEN None ELSE order[CHOOSE i \in pinning : \A j \in pinning : j <= i]
      IN /\ cfg.comps[c].pinFrom = f
         /\ cfg.comps[c].layer.pin = IF f = None THEN Zero ELSE File(f).comps[c].pin

(* Which filter a command was given does not change a component, as long   *)
(* as one group's patterns find it, by one spec: group defaults apply the  *)
(* same whether it is asked for by name, group, spec or -a.                *)
SelectionIsStable ==
  \A i, j \in DOMAIN answers : answers[i] # Failed /\ answers[j] # Failed =>
    \A c \in DOMAIN answers[i] \cap DOMAIN answers[j] :
      Cardinality(Hits(c, Groups)) = 1 /\ answers[i][c].path = answers[j][c].path
        => answers[i][c] = answers[j][c]

Answered(by) == pc = "ready" /\ ~proj.permissive /\ asked # None /\ asked.command.by = by
EffectiveUri(id) == EffectiveRpmRepos(proj.catalog)[id].uri

(* What validation lets pass never fails later: whatever `image test` runs *)
(* by default is there and runs once, however its groups overlap, and      *)
(* `repo query --version` is refused only for what validation leaves open: *)
(* a use case without inputs, a metalink, or nothing left by the filters.  *)
ValidMeansRunnable ==
  LET c == asked.command  k == proj.catalog IN
  /\ Answered("tests") /\ c.selectors = <<>> => asked.reply # Refused /\ IsInjective(asked.reply)
  /\ Answered("version") /\ asked.reply = Refused =>
       LET ids == Range(InputRepos(k, c.use))
       IN \/ ids = {} \/ (\E id \in ids : EffectiveUri(id) = <<>>)
          \/ \A id \in ids : \/ KindOf(k, id) \in (IF c.noDebug THEN {"debug"} ELSE {}) \cup (IF c.noSource THEN {"source"} ELSE {})
                             \/ \A a \in Range(c.arches) : ~IsAvailableForArch(EffectiveRpmRepos(k)[id], a)

(* What the inputs of a use case declare. *)
Declared(k, c) ==
  LET keeps(kind)  == ~(c.noDebug /\ kind = "debug") /\ ~(c.noSource /\ kind = "source")
      urls(uri, per, arches) == {<<uri, IF per THEN a ELSE "">> : a \in {x \in Range(c.arches) : arches = {} \/ x \in arches}}
      ofSet(s) == UNION {urls(<<k.sets[s].uri, row.subpath.at>>, row.subpath.perArch, k.sets[s].arches) :
                           row \in {r \in Range(k.templates[k.sets[s].template]) : Allowed(k.sets[s], r) /\ keeps(Default(r.kind))}}
      ofRepo(id) == urls(k.repos[id].uri, k.repos[id].perArch, k.repos[id].arches)
  IN UNION {IF e.set # "" THEN ofSet(e.set) ELSE IF Has(k.repos, e.repo) THEN ofRepo(e.repo) ELSE {} : e \in Range(k.inputs[c.use])}
PlainInputs(k, c) == \A e \in Range(k.inputs[c.use]) : e.set # "" \/ Has(k.repos, e.repo)

(* `repo query --version` reaches what the inputs declare, row by row of   *)
(* their templates, and no more: the kinds it works out for the filters    *)
(* are those of the expansion it does not see, whatever the sets' prefixes *)
(* and allowlists; ids are given once.                                     *)
QueryIsExact ==
  Answered("version") /\ asked.reply # Refused /\ PlainInputs(proj.catalog, asked.command) =>
    /\ {asked.reply[i].url : i \in DOMAIN asked.reply} = Declared(proj.catalog, asked.command)
    /\ IsInjective([i \in DOMAIN asked.reply |-> asked.reply[i].id])

(* `package list --rpm-file` gives each package of the file once, under    *)
(* one of its sources, with the channel a build of that component places   *)
(* it in, as long as the distro sets no channel: the listing knows of no   *)
(* distro (pkg/list.go:341).                                               *)
ListAgreesWithBuild ==
  Answered("rpmfile") /\ asked.reply # Refused =>
    /\ \A d, e \in asked.reply : d.name = e.name => d = e
    /\ \A e \in asked.reply : /\ \E x \in Range(asked.command.entries) : x.pkg = e.name /\ x.src = e.comp
                              /\ proj.catalog.distro = NoPublish => e.channel = BuildChannel(proj.catalog, e.name, e.comp)

(* What a set publishes, row by row of its template.  (Two rows that lead  *)
(* to one place are one repository, of the kind of the first.)             *)
RowsOfSet(k, s) == {r \in Range(k.templates[k.sets[s].template]) : Allowed(k.sets[s], r)}
PlacesOf(k, s, row, arches) ==
  IF row.subpath.perArch THEN {<<k.sets[s].uri, <<row.subpath.at, a>>>> : a \in {x \in Range(arches) : k.sets[s].arches = {} \/ x \in k.sets[s].arches}}
  ELSE {<<k.sets[s].uri, <<row.subpath.at, "">>>>}
KindsOf(k, s, arches) == {Default(row.kind) : row \in {r \in RowsOfSet(k, s) : PlacesOf(k, s, r, arches) # {}}}
RowsApart(k, s) == \A r, t \in RowsOfSet(k, s) : r.subpath.at = t.subpath.at => r = t
AsPublished(p, kind) == [name |-> p.name, pkg |-> [p EXCEPT !.epoch = IF @ = <<>> THEN <<0>> ELSE @], kind |-> kind]
PublishedBy(k, s, kinds, arches) ==
  UNION {UNION {{AsPublished(p, Default(row.kind)) : p \in k.metadata[place]} : place \in PlacesOf(k, s, row, arches)} :
           row \in {r \in RowsOfSet(k, s) : Default(r.kind) \in kinds}}

(* `repo compare` reports a package exactly if the sets publish it         *)
(* differently in the kinds of repository that both have, and says in      *)
(* which direction; an architecture differs only where a package does; and *)
(* with the sides swapped the report is its mirror image.  (An architecture *)
(* without a name, --arch ",", would be taken for none.)                   *)
Mirror(status) == CASE status = "missing-from-right" -> "added-in-right"
                    [] status = "added-in-right" -> "missing-from-right"
                    [] OTHER -> status
ReportIsExact ==
  LET c == asked.command  k == proj.catalog IN
  Answered("compare") /\ asked.reply # Refused /\ RowsApart(k, c.left) /\ RowsApart(k, c.right) /\ "" \notin Range(c.arches) =>
    LET kinds == KindsOf(k, c.left, c.arches) \cap KindsOf(k, c.right, c.arches)
        here  == PublishedBy(k, c.left, kinds, c.arches)
        there == PublishedBy(k, c.right, kinds, c.arches)
        of(ps, n) == {p \in ps : p.name = n}
        versions(ps) == {<<p.pkg.epoch[1], p.pkg.version, p.pkg.release>> : p \in ps}
        told(status) == {e.name : e \in {x \in asked.reply : status \in x.summary}}
    IN /\ told("missing-from-right") = {p.name : p \in here \ there}
       /\ told("added-in-right") = {p.name : p \in there \ here}
       /\ {e.name : e \in asked.reply} = told("missing-from-right") \cup told("added-in-right")
       /\ \A e \in asked.reply : e.left = versions(of(here, e.name)) /\ e.right = versions(of(there, e.name))
       /\ Compare(k, c.right, c.left, c.arches)
            = {[name |-> e.name, summary |-> {Mirror(t) : t \in e.summary}, left |-> e.right, right |-> e.left] : e \in asked.reply}
=============================================================================
