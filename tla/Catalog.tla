------------------------------ MODULE Catalog ------------------------------
(***************************************************************************)
(* What a project's configuration says of repositories, tests and packages *)
(* (projectconfig/resources.go, tests.go, package.go), what its validation *)
(* checks of them, and what the commands that use it make of it: repo      *)
(* query, repo compare, image test and package list.                       *)
(*                                                                         *)
(* Operators on a catalog k, without state; Project says when a catalog is *)
(* validated and asked.  A repository's id is a sequence, its prefix       *)
(* before its name, and a package's name is the sequence of its segments:  *)
(* <<"curl", "debuginfo">>.  An operator that fails answers Refused.       *)
(***************************************************************************)
EXTENDS Naturals, Sequences, FiniteSets, SequencesExt, Picks

CONSTANT Refused

Has(f, x) == x \in DOMAIN f

(* What a configuration can hold, of repositories and tests.  The empty    *)
(* text is named: the provers do not know that it is a string.             *)
Text == STRING \cup {""}
RpmRepos == [uri : Seq(Text), metalink : Text, perArch : BOOLEAN, key : Text, nocheck : BOOLEAN, arches : SUBSET Text]
TemplateRows == [name : Seq(Text), kind : Text, subpath : [at : Text, perArch : BOOLEAN]]
RepoSets == [template : Text, uri : Text, prefix : Seq(Text), subrepos : Seq(Seq(Text)), key : Text, nocheck : BOOLEAN,
             arches : SUBSET Text]
TestRefs == [name : Text, group : Text]
Packages == [name : Text, epoch : {e \in Seq(Nat) : Len(e) <= 1}, version : Nat, release : Nat, arch : Text]
CatalogTypeOK(k) ==
  /\ \A id \in DOMAIN k.repos : id \in Seq(Text) /\ k.repos[id] \in RpmRepos
  /\ \A t \in DOMAIN k.templates : k.templates[t] \in Seq(TemplateRows)
  /\ \A s \in DOMAIN k.sets : k.sets[s] \in RepoSets
  /\ \A use \in {"rpm-build", "image-build"} : k.inputs[use] \in Seq([repo : Seq(Text), set : Text])
  /\ k.tests \subseteq Text /\ k.imageTests \in Seq(TestRefs)
  /\ \A g \in DOMAIN k.testGroups : k.testGroups[g] \in Seq(TestRefs)
  /\ \A place \in DOMAIN k.metadata : k.metadata[place] \subseteq Packages

(* What a query returns for one repository and architecture.               *)
QueriedRepos == [id : Seq(Text), url : Seq(Text) \X Text, key : Text]

--------------------------------------------------------------------------
(* Repositories, explicit and made from sets.                              *)

(* A gpg-key: a bare path is made absolute while the file is read.         *)
Absolute(key) == IF key = "path" THEN "file:/path" ELSE key
KeyIsValid(key) == key \in {"path", "file:/path", "http://key"}
IsLocalGPGKey(key) == key \in {"path", "file:/path"}
Checked(r) == r.nocheck \/ r.key # ""
KeyMayBe(r) == Checked(r) /\ (r.key # "" => KeyIsValid(r.key))

ValidRpmRepo(r) == (r.uri = <<>>) # (r.metalink = "") /\ KeyMayBe(r)
IsAvailableForArch(r, arch) == r.arches = {} \/ arch \in r.arches

(* A subpath: where it leads, and whether it names the architecture.       *)
SubpathIsValid(p) == p.at \notin {"", "/abs"}
Joins(p) == SubpathIsValid(p) /\ p.at \notin {"../up", "q?x"}
Kinds == {"", "binary", "debug", "source"}
Default(kind) == IF kind = "" THEN "binary" ELSE kind

ValidTemplate(rows) == /\ rows # <<>> /\ IsInjective([i \in DOMAIN rows |-> rows[i].name])
                       /\ \A i \in DOMAIN rows : rows[i].kind \in Kinds /\ SubpathIsValid(rows[i].subpath)
ValidSet(s) == s.template # "" /\ s.uri # "" /\ KeyMayBe(s)

(* buildSubrepoAllowlist: what of a template's rows a set takes.           *)
AllowlistIsValid(s, rows) == IsInjective(s.subrepos) /\ Range(s.subrepos) \subseteq {rows[i].name : i \in DOMAIN rows}
Allowed(s, row) == s.subrepos = <<>> \/ row.name \in Range(s.subrepos)

(* expandRpmRepoSet: a set's repositories, in the order of its template.   *)
Expand(k, s) ==
  LET set == k.sets[s] IN
  IF ~Has(k.templates, set.template) \/ ~ValidSet(set) THEN Refused
  ELSE LET rows  == k.templates[set.template]
           taken == Pick(rows, {i \in DOMAIN rows : Allowed(set, rows[i])})
       IN IF ~AllowlistIsValid(set, rows) \/ \E i \in DOMAIN taken : ~Joins(taken[i].subpath) THEN Refused
          ELSE [i \in DOMAIN taken |->
                  [id |-> set.prefix \o taken[i].name,
                   repo |-> [uri |-> <<set.uri, taken[i].subpath.at>>, metalink |-> "", perArch |-> taken[i].subpath.perArch,
                             nocheck |-> set.nocheck, key |-> set.key, arches |-> set.arches]]]

(* EffectiveRpmRepos: an id is made once.                                  *)
EffectiveRpmRepos(k) ==
  IF \E s \in DOMAIN k.sets : Expand(k, s) = Refused THEN Refused
  ELSE LET made  == UNION {{<<s, i>> : i \in DOMAIN Expand(k, s)} : s \in DOMAIN k.sets}
           at(m) == Expand(k, m[1])[m[2]]
       IN IF \E m \in made : Has(k.repos, at(m).id) \/ \E n \in made : m # n /\ at(m).id = at(n).id THEN Refused
          ELSE [id \in DOMAIN k.repos \cup {at(m).id : m \in made} |->
                  IF Has(k.repos, id) THEN k.repos[id] ELSE at(CHOOSE m \in made : at(m).id = id).repo]

(* effectiveInputRepos: the ids one use case of the distro takes.          *)
Emitted(k, entry) ==
  CASE entry.repo # <<>> /\ entry.set = "" -> <<entry.repo>>
    [] entry.repo = <<>> /\ entry.set # "" /\ Has(k.sets, entry.set) ->
         LET ex == Expand(k, entry.set) IN IF ex = Refused THEN Refused ELSE [i \in DOMAIN ex |-> ex[i].id]
    [] OTHER -> Refused
InputRepos(k, use) ==
  LET got == [i \in DOMAIN k.inputs[use] |-> Emitted(k, k.inputs[use][i])] IN
  IF Refused \in Range(got) \/ ~IsInjective(FlattenSeq(got)) THEN Refused ELSE FlattenSeq(got)

UseCases == {"rpm-build", "image-build"}
InputsAreValid(k, eff) == \A use \in UseCases :
  LET ids == InputRepos(k, use)
  IN /\ ids # Refused
     /\ \A id \in Range(ids) : Has(eff, id) /\ (use = "rpm-build" => ~IsLocalGPGKey(eff[id].key))

ReposAreValid(k) == /\ \A id \in DOMAIN k.repos : ValidRpmRepo(k.repos[id])
                    /\ \A t \in DOMAIN k.templates : ValidTemplate(k.templates[t])
                    /\ EffectiveRpmRepos(k) # Refused
                    /\ InputsAreValid(k, EffectiveRpmRepos(k))

RowsOf(k, s) == IF Has(k.templates, k.sets[s].template) THEN k.templates[k.sets[s].template] ELSE <<>>
Made(k, IdOf(_, _), id) == {row \in UNION {{<<s, RowsOf(k, s)[i]>> : i \in DOMAIN RowsOf(k, s)} : s \in DOMAIN k.sets} :
                              Allowed(k.sets[row[1]], row[2]) /\ IdOf(row[1], row[2]) = id}
KindIn(rows) == IF rows = {} THEN "binary" ELSE Default((CHOOSE r \in rows : TRUE)[2].kind)
(* A plausible slip: the set's name-prefix is forgotten.                   *)
KindOfUnprefixed(k, id) == LET name(s, row) == row.name IN KindIn(Made(k, name, id))
(* rpmRepoKindMap: repo query works out the kinds a second time.           *)
KindOf(k, id) == LET full(s, row) == k.sets[s].prefix \o row.name IN KindIn(Made(k, full, id))

(* DedupInputRepos: the first of those with one URL.                       *)
Dedup(s) == Pick(s, {i \in DOMAIN s : \A j \in 1 .. i - 1 : s[j].url # s[i].url})

(* materializeVersionRepos, for `repo query --version`: each repository    *)
(* once per architecture it is for.                                        *)
Materialize(k, eff, id, q) ==
  LET repo   == eff[id]
      wanted == ~(q.noDebug /\ KindOf(k, id) = "debug") /\ ~(q.noSource /\ KindOf(k, id) = "source")
      arches == Pick(q.arches, {i \in DOMAIN q.arches : IsAvailableForArch(repo, q.arches[i])})
  IN IF ~wanted THEN <<>>
     ELSE [i \in DOMAIN arches |-> [id  |-> IF Len(q.arches) > 1 THEN Append(id, arches[i]) ELSE id,
                                    url |-> <<repo.uri, IF repo.perArch THEN arches[i] ELSE "">>,
                                    key |-> IF repo.nocheck THEN "" ELSE repo.key]]
QueryVersion(k, q) ==
  LET ids == InputRepos(k, q.use)
      eff == EffectiveRpmRepos(k)
  IN IF Refused \in {ids, eff} \/ ids = <<>> THEN Refused
     ELSE IF \E id \in Range(ids) : ~Has(eff, id) \/ eff[id].uri = <<>> THEN Refused
     ELSE LET all == Dedup(FlattenSeq([i \in DOMAIN ids |-> Materialize(k, eff, ids[i], q)]))
          IN IF all = <<>> THEN Refused ELSE all

(* ExpandTemplate, for `repo query --repo-prefix` and `repo compare`: the  *)
(* rows of a template, once per architecture where the path names it.      *)
ExpandTemplate(rows, arches) ==
  FlattenSeq([i \in DOMAIN rows |->
    LET at(a) == [name |-> rows[i].name, kind |-> Default(rows[i].kind), arch |-> a, url |-> <<rows[i].subpath.at, a>>]
    IN IF rows[i].subpath.perArch THEN [j \in DOMAIN arches |-> at(arches[j])] ELSE <<at("")>>])

(* buildInputRepos and filterGroupsByKind, for `repo query --repo-prefix`. *)
QueryPrefixes(k, q) ==
  IF ~Has(k.templates, q.template) THEN Refused
  ELSE LET under(p) == Dedup([i \in DOMAIN ExpandTemplate(k.templates[q.template], q.arches) |->
                         LET r == ExpandTemplate(k.templates[q.template], q.arches)[i] IN
                         [id |-> <<r.name, r.arch>> \o (IF Len(q.prefixes) > 1 THEN <<p>> ELSE <<>>),
                          kind |-> r.kind, url |-> <<q.prefixes[p], r.url>>]])
           kept(s) == Pick(s, {i \in DOMAIN s : ~(q.noDebug /\ s[i].kind = "debug") /\ ~(q.noSource /\ s[i].kind = "source")})
           all == FlattenSeq([p \in DOMAIN q.prefixes |-> kept(under(p))])
       IN IF all = <<>> THEN Refused ELSE all

(* comparisonRepositories: one side of a comparison.                       *)
SideOf(k, s, arches) ==
  IF ~Has(k.sets, s) \/ ~Has(k.templates, k.sets[s].template) THEN Refused
  ELSE LET all == ExpandTemplate(k.templates[k.sets[s].template], arches)
       IN Dedup(Pick(all, {i \in DOMAIN all : /\ Allowed(k.sets[s], all[i])
                                              /\ all[i].arch = "" \/ IsAvailableForArch(k.sets[s], all[i].arch)}))
(* A plausible slip: the kinds of one side decide for both.                *)
SharedAll(one, other) == one
(* filterToSharedKinds. *)
Shared(one, other) == Pick(one, {i \in DOMAIN one : \E j \in DOMAIN other : other[j].kind = one[i].kind})

(* HTTPFetcher.Fetch: k.metadata has the packages of each repository whose *)
(* metadata can be had and read.                                           *)
MetadataUrl(k, s, r) == <<k.sets[s].uri, r.url>>
Fetch(k, url) == IF Has(k.metadata, url) THEN k.metadata[url] ELSE Refused
(* LoadRepositories.  A package keeps what tells it from others: an epoch  *)
(* left out is 0, and the kind is that of the repository it is found in.   *)
NormalizedEpoch(epoch) == IF epoch = <<>> THEN 0 ELSE epoch[1]
Identity(p, kind) == [name |-> p.name, evr |-> <<NormalizedEpoch(p.epoch), p.version, p.release>>, arch |-> p.arch, kind |-> kind]
LoadRepositories(k, s, repos) ==
  LET got(i) == Fetch(k, MetadataUrl(k, s, repos[i])) IN
  IF \E i \in DOMAIN repos : got(i) = Refused THEN Refused
  ELSE UNION {{Identity(p, repos[i].kind) : p \in got(i)} : i \in DOMAIN repos}

(* verifyFullVersionString: version 0 stands for what does not parse.      *)
VersionIsValid(p) == p.evr[2] # 0
(* packageStatuses, for the packages of one name on both sides.            *)
Arches(ps, p) == {q.arch : q \in {x \in ps : x.evr = p.evr /\ x.kind = p.kind}}
PackageStatuses(here, there) ==
  (IF here \ there # {} THEN {"missing-from-right"} ELSE {}) \cup (IF there \ here # {} THEN {"added-in-right"} ELSE {})
  \cup (IF \E p \in here : Arches(there, p) \notin {{}, Arches(here, p)} THEN {"architectures-differ"} ELSE {})
(* sortedNEVRs: the versions a side has, newest first; a set here.         *)
NEVRs(ps) == IF \E p \in ps : ~VersionIsValid(p) THEN Refused ELSE {p.evr : p \in ps}
OfName(ps, name) == {p \in ps : p.name = name}
(* repocompare.Compare. *)
Reports(left, right) ==
  LET differing == {n \in {p.name : p \in left \cup right} : PackageStatuses(OfName(left, n), OfName(right, n)) # {}}
      report(n) == [name |-> n, summary |-> PackageStatuses(OfName(left, n), OfName(right, n)),
                    left |-> NEVRs(OfName(left, n)), right |-> NEVRs(OfName(right, n))]
  IN IF \E n \in differing : Refused \in {report(n).left, report(n).right} THEN Refused ELSE {report(n) : n \in differing}

Compare(k, l, r, arches) ==
  LET left == SideOf(k, l, arches)  right == SideOf(k, r, arches)
  IN IF l = r \/ Refused \in {left, right} \/ Shared(left, right) = <<>> THEN Refused
     ELSE LET lps == LoadRepositories(k, l, Shared(left, right))
              rps == LoadRepositories(k, r, Shared(right, left))
          IN IF Refused \in {lps, rps} THEN Refused ELSE Reports(lps, rps)

--------------------------------------------------------------------------
(* Tests and groups of tests.  A reference names a test or a group.        *)

OneOf(ref) == (ref.name = "") # (ref.group = "")
GroupIsValid(k, refs) == /\ \A i \in DOMAIN refs : OneOf(refs[i]) /\ refs[i].group = "" /\ refs[i].name \in k.tests
                         /\ IsInjective(refs)
(* A plausible slip: two references that are not the same text are taken   *)
(* for different tests.                                                    *)
RefListIsValidByText(k, refs) ==
  /\ \A i \in DOMAIN refs : /\ OneOf(refs[i])
                            /\ refs[i].name # "" => refs[i].name \in k.tests
                            /\ refs[i].group # "" => Has(k.testGroups, refs[i].group)
  /\ IsInjective(refs)
Names(k, ref) == IF ref.name # "" THEN <<ref.name>> ELSE [i \in DOMAIN k.testGroups[ref.group] |-> k.testGroups[ref.group][i].name]
(* validateTestRefList: also no test twice once the groups are expanded.   *)
RefListIsValid(k, refs) ==
  /\ \A i \in DOMAIN refs : /\ OneOf(refs[i])
                            /\ refs[i].name # "" => refs[i].name \in k.tests
                            /\ refs[i].group # "" => Has(k.testGroups, refs[i].group)
  /\ IsInjective(FlattenSeq([i \in DOMAIN refs |-> Names(k, refs[i])]))
TestsAreValid(k) == /\ \A g \in DOMAIN k.testGroups : GroupIsValid(k, k.testGroups[g])
                    /\ RefListIsValid(k, k.imageTests)

(* ResolveTestRefs, which a permissively loaded project reaches unchecked. *)
Resolves(k, ref) ==
  /\ OneOf(ref)
  /\ ref.name # "" => ref.name \in k.tests
  /\ ref.group # "" => /\ Has(k.testGroups, ref.group)
                       /\ \A i \in DOMAIN k.testGroups[ref.group] :
                            LET member == k.testGroups[ref.group][i] IN member.group = "" /\ member.name \in k.tests
ResolveTestRefs(k, refs) == IF \E i \in DOMAIN refs : ~Resolves(k, refs[i]) THEN Refused
                            ELSE FlattenSeq([i \in DOMAIN refs |-> Names(k, refs[i])])
(* ResolveTestSelectors, for `image test --test-suite`. *)
ResolveTestSelectors(k, sels) ==
  IF \E i \in DOMAIN sels : (sels[i] \in k.tests) = Has(k.testGroups, sels[i]) THEN Refused
  ELSE ResolveTestRefs(k, [i \in DOMAIN sels |-> IF sels[i] \in k.tests THEN [name |-> sels[i], group |-> ""]
                                                 ELSE [name |-> "", group |-> sels[i]]])
(* resolveImageTestsToRun. *)
TestsToRun(k, sels) == IF sels # <<>> THEN ResolveTestSelectors(k, sels) ELSE ResolveTestRefs(k, k.imageTests)

(* validateImageCapabilities: an image is delivered in one way.            *)
DeliveryKinds == {"machine-bootable", "container", "wsl", "installer-media"}
ImageIsValid(k) == Cardinality(k.capabilities \cap DeliveryKinds) <= 1

--------------------------------------------------------------------------
(* Packages and the channels they are published to.  A channel is a        *)
(* sequence as well, <<>> when none is set.                                *)

NoChannel == <<>>
IsDebugInfoPackage(p) == \E i \in 2..Len(p) : p[i] \in {"debuginfo", "debugsource"}
IsDebugPackageName(p) == Len(p) > 1 /\ Last(p) \in {"debuginfo", "debugsource"}

(* validatePackageGroupMembership and PackageGroupConfig.Validate.         *)
PackagesAreValid(k) == /\ \A g \in DOMAIN k.pkgGroups : IsInjective(k.pkgGroups[g].packages)
                       /\ \A g, h \in DOMAIN k.pkgGroups : g # h =>
                            Range(k.pkgGroups[g].packages) \cap Range(k.pkgGroups[h].packages) = {}

Or(c, d) == IF c # NoChannel THEN c ELSE d
EffectiveRPMChannel(publish) == Or(publish.rpm, publish.old)
PublishChannel(publish, debug) == IF debug THEN publish.debug ELSE EffectiveRPMChannel(publish)
GroupsOfPackage(k, p) == {g \in DOMAIN k.pkgGroups : p \in Range(k.pkgGroups[g].packages)}
(* Groups that hold the package: at most one, in a valid project.          *)
FromGroup(k, p, Of(_)) == LET gs == GroupsOfPackage(k, p)
                          IN IF gs = {} THEN NoChannel ELSE Of(k.pkgGroups[CHOOSE g \in gs : TRUE].publish)

(* ResolvePackagePublishChannel, for a resolved component.                 *)
ResolvePackagePublishChannel(k, p, comp) ==
  LET debug   == IsDebugInfoPackage(p)
      ofPub(publish) == PublishChannel(publish, debug)
      ofComp  == IF debug THEN comp.publish.debug ELSE comp.publish.rpm
      ofEntry == IF Has(comp.packages, p) THEN ofPub(comp.packages[p]) ELSE NoChannel
  IN Or(ofEntry, Or(FromGroup(k, p, ofPub), Or(ofComp, ofPub(k.defaultPackage))))
(* ResolvePackageConfig: the layers merged field by field.                 *)
ResolvePackageConfig(k, p, comp) ==
  LET field(Of(_)) == Or(IF Has(comp.packages, p) THEN Of(comp.packages[p]) ELSE NoChannel,
                         Or(FromGroup(k, p, Of), Of(k.defaultPackage)))
      rpm(q) == q.rpm  old(q) == q.old  dbg(q) == q.debug
  IN [rpm |-> field(rpm), old |-> field(old), debug |-> field(dbg)]

(* A component's publish settings, resolved over the layers below it.      *)
NoPublish == [rpm |-> NoChannel, debug |-> NoChannel, srpm |-> NoChannel]
OverPublish(a, b) == [rpm |-> Or(b.rpm, a.rpm), debug |-> Or(b.debug, a.debug), srpm |-> Or(b.srpm, a.srpm)]
ComponentOf(k, c) == IF Has(k.comps, c) THEN k.comps[c] ELSE [publish |-> NoPublish, packages |-> <<>>]
GroupPublish(k, c) == IF Has(k.groupOf, c) THEN k.groupOf[c] ELSE NoPublish
ResolvedFor(k, c, distro) ==
  [ComponentOf(k, c) EXCEPT !.publish = OverPublish(OverPublish(OverPublish(distro, k.defaultComponent), GroupPublish(k, c)), @)]

(* buildComponentPackageIndex and resolveComponentName.                    *)
Overriding(k, p) == {c \in DOMAIN k.comps : Has(k.comps[c].packages, p)}
OwnerByName(k, p) == IF Has(k.comps, p) \/ Has(k.groupOf, p) THEN p ELSE NoChannel
(* A plausible slip: the component as it is written, without its defaults. *)
EntryRaw(k, p, c) == [name |-> p, comp |-> c, channel |-> ResolvePackagePublishChannel(k, p, ComponentOf(k, c))]
(* resolvePackageListResult. *)
Entry(k, p, c) == [name |-> p, comp |-> c, channel |-> ResolvePackagePublishChannel(k, p, ResolvedFor(k, c, NoPublish))]
OwnerOf(k, p) == IF Overriding(k, p) # {} THEN CHOOSE c \in Overriding(k, p) : TRUE ELSE OwnerByName(k, p)

(* debugChannelName, and the packages --synthesize-debug-packages adds.    *)
DebugChannel(c) == IF c \in {NoChannel, <<"none">>} \/ Last(c) = "debuginfo" THEN c ELSE Append(c, "debuginfo")
Synthesized(k, listed) ==
  LET names  == {e.name : e \in listed}
      infos  == {[e EXCEPT !.name = Append(@, "debuginfo"), !.channel = DebugChannel(@)] :
                   e \in {x \in listed : ~IsDebugPackageName(x.name) /\ Append(x.name, "debuginfo") \notin names}}
      source(c) == Append(c, "debugsource")
      owners == {c \in DOMAIN k.comps : ~IsDebugPackageName(c) /\ source(c) \notin names}
  IN listed \cup infos
     \cup {[name |-> source(c), comp |-> c,
            channel |-> DebugChannel(EffectiveRPMChannel(ResolvePackageConfig(k, source(c), k.comps[c])))] : c \in owners}

(* ListPackages for -a and -p.                                             *)
ListPackages(k, all, names, synth) ==
  LET configured == UNION {Range(k.pkgGroups[g].packages) : g \in DOMAIN k.pkgGroups}
                    \cup UNION {DOMAIN k.comps[c].packages : c \in DOMAIN k.comps}
      wanted == names \cup (IF all THEN configured ELSE {})
      listed == {Entry(k, p, OwnerOf(k, p)) : p \in wanted}
  IN IF \E p \in configured : Cardinality(Overriding(k, p)) > 1 THEN Refused
     ELSE IF wanted = {} \/ ~synth THEN listed ELSE Synthesized(k, listed)

(* loadRPMFile: the first entry of a package says where it comes from.     *)
SourceOf(entries, p) == entries[CHOOSE i \in DOMAIN entries : entries[i].pkg = p /\ \A j \in DOMAIN entries : entries[j].pkg = p => i <= j].src
ListRPMFile(k, entries) ==
  IF \E i \in DOMAIN entries : {entries[i].pkg, entries[i].src} \cap {<<>>} # {} THEN Refused
  ELSE {Entry(k, entries[i].pkg, SourceOf(entries, entries[i].pkg)) : i \in DOMAIN entries}

(* resolveRPMResults: the channel a build of c places package p in.        *)
BuildChannel(k, p, c) == ResolvePackagePublishChannel(k, p, ResolvedFor(k, c, k.distro))

CatalogIsValid(k) == PackagesAreValid(k) /\ ImageIsValid(k) /\ TestsAreValid(k) /\ ReposAreValid(k)
=============================================================================
