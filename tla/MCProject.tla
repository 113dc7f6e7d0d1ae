----------------------------- MODULE MCProject -----------------------------
(* A small family of projects for Project: a main file that includes up to *)
(* two others, one of which may include a third, or the first again, and a *)
(* file of --config-file; two components, two groups, two specs.           *)
EXTENDS Project, TLC

CONSTANTS a, b, g1, g2, sa, sa2, main, inc, gen, extra, r1

MCGroupOrder == <<g1, g2>>
MCNameOf == (sa :> a) @@ (sa2 :> a)

Lit(f) == [glob |-> FALSE, found |-> f]
Glob(f) == [glob |-> TRUE, found |-> f]

Upstream == [Empty EXCEPT !.type = "upstream", !.pin = "1"]
Pats(glob) == <<[glob |-> glob, dir |-> None]>>
NoComps == [c \in Comps |-> None]
NoGroups == [g \in Groups |-> None]
File0 == [includes |-> <<>>, unknown |-> FALSE, comps |-> NoComps, groups |-> NoGroups,
          repos |-> [k \in Keys |-> None], defines |-> {}, uses |-> {}, defaults |-> Empty]

Disk0 == [top |-> <<main>>, specs |-> {sa, sa2}, rank |-> (sa :> 1) @@ (sa2 :> 2),
          overlays |-> [d \in {main, inc, gen, extra, sa, sa2} |-> {}],
          lockfree |-> FALSE, permissive |-> FALSE, catalog |-> None,
          file |-> [f \in {main, inc, gen, extra} |-> File0]]

(* Who includes whom: also twice, in a circle, and nothing at all. *)
Graphs == {[Disk0 EXCEPT !.top = top, !.permissive = perm,
              !.file[main].includes = m, !.file[inc].includes = i, !.file[gen].includes = e,
              !.file[main].repos[r1] = "0", !.file[inc].repos[r1] = "1", !.file[gen].repos[r1] = "2",
              !.file[extra].includes = x, !.file[gen].unknown = unknown] :
              top \in {<<main>>, <<main, extra>>}, perm \in BOOLEAN, unknown \in BOOLEAN,
              m \in {<<Glob(<<gen, inc>>)>>, <<Lit(<<inc>>), Lit(<<gen>>)>>, <<Lit(<<inc>>), Glob(<<>>)>>, <<Lit(<<>>)>>},
              i \in {<<>>, <<Lit(<<gen>>)>>, <<Lit(<<main>>)>>}, e \in {<<>>, <<Lit(<<inc>>)>>},
              x \in {<<>>, <<Lit(<<gen>>)>>}}

(* One component spread over the files of a project. *)
Layers == {None, Upstream, [Upstream EXCEPT !.files = <<"x">>],
           [Empty EXCEPT !.pin = "2"], [Empty EXCEPT !.files = <<"x">>], [Upstream EXCEPT !.pats = Pats(TRUE)],
           [Upstream EXCEPT !.pin = "3", !.pats = Pats(FALSE)]}
Spread == {[Disk0 EXCEPT !.top = <<main, extra>>, !.file[main].includes = <<Glob(<<gen>>), Lit(<<inc>>)>>,
              !.file[gen].comps[a] = l1, !.file[inc].comps[a] = l2, !.file[extra].comps[a] = l3,
              !.lockfree = lf, !.overlays[inc] = {"o1"}, !.overlays[extra] = ov] :
              l1 \in {None, [Empty EXCEPT !.pin = "1"]}, l2 \in Layers \ {None}, l3 \in Layers,
              lf \in BOOLEAN, ov \in {{}, {"o2"}}}

(* Two groups that list components and find specs. *)
Group(members, specs, pin) == [members |-> members, specs |-> specs, defaults |-> [Empty EXCEPT !.skip = (pin = "9"), !.files = <<pin>>, !.pin = pin]]
Grouped == {[Disk0 EXCEPT !.file[main].comps[a] = la, !.file[main].comps[b] = lb, !.file[inc].defines = {"t"},
               !.file[main].includes = <<Lit(<<inc>>)>>, !.file[main].defines = twice, !.file[main].uses = {"t"},
               !.permissive = (twice # {}),
               !.file[main].groups[g1] = Group(m1, s1, "8"), !.file[main].groups[g2] = Group(m2, s2, "9")] :
               la \in {None, [Empty EXCEPT !.skip = TRUE], [Empty EXCEPT !.type = "local", !.path = sa]}, lb \in {None, Upstream},
               twice \in {{}, {"t"}}, m1 \in {{}, {a, b}}, s1 \in {{}, {sa}, {sa, sa2}}, m2 \in {{}, {b}}, s2 \in {{}, {sa2}}}

(* Catalogs: repositories made from two sets of one template, with and     *)
(* without an explicit one; tests in overlapping groups; and packages with *)
(* a channel at any of the layers.                                         *)
Row(name, kind, at, per) == [name |-> name, kind |-> kind, subpath |-> [at |-> at, perArch |-> per]]
Base == <<"base">>
Debug == <<"debug">>
Src == <<"src">>
Rows(at) == <<Row(Base, "", "base", TRUE), Row(Debug, "debug", at, TRUE), Row(Src, "source", "src", FALSE)>>
SetOf(prefix, subs, key, uri, arches) == [template |-> "t", uri |-> uri, prefix |-> prefix, subrepos |-> subs,
                                          key |-> key, nocheck |-> FALSE, arches |-> arches]
Repo(uri, key) == [uri |-> uri, metalink |-> IF uri = <<>> THEN "m" ELSE "", perArch |-> FALSE, key |-> key, nocheck |-> FALSE, arches |-> {}]
FromRepo(id) == [repo |-> id, set |-> ""]
FromSet(s) == [repo |-> <<>>, set |-> s]
Test(n) == [name |-> n, group |-> ""]
TestGroup(n) == [name |-> "", group |-> n]
Channels(rpm, old, debug) == [rpm |-> rpm, old |-> old, debug |-> debug]
Unset == Channels(NoChannel, NoChannel, NoChannel)
Curl == <<"curl">>
CurlDebug == <<"curl", "debuginfo">>
Lib == <<"lib">>
Ch(x) == <<x>>
Component(publish, packages) == [publish |-> publish, packages |-> packages]

Catalog0 == [repos |-> <<>>, templates |-> <<>>, sets |-> <<>>, inputs |-> [u \in UseCases |-> <<>>],
             tests |-> {}, testGroups |-> <<>>, imageTests |-> <<>>, capabilities |-> {"container", "cvm"},
             pkgGroups |-> <<>>, comps |-> <<>>, groupOf |-> <<>>, defaultPackage |-> Unset,
             defaultComponent |-> NoPublish, distro |-> NoPublish, metadata |-> <<>>]

RepoCatalogs == {[Catalog0 EXCEPT !.repos = (id :> Repo(uri, "http://key")), !.templates = ("t" :> Rows(at)),
                    !.sets = ("s1" :> SetOf(p1, subs, Absolute(key), "u1", {})) @@ ("s2" :> SetOf(<<"y">>, <<>>, "http://key", "u2", {"x86_64"})),
                    !.inputs = ("rpm-build" :> in1) @@ ("image-build" :> <<FromSet("s1"), FromSet("s2")>>)] :
                  id \in {Base, <<"x", "base">>}, uri \in {<<"u0", "">>, <<>>}, at \in {"debug", "../up", "base"},
                  p1 \in {<<>>, <<"x">>}, subs \in {<<>>, <<Debug>>, <<Debug, Base>>}, key \in {"path", "http://key", ""},
                  in1 \in {<<>>, <<FromSet("s1")>>, <<FromRepo(Base), FromSet("s2")>>, <<FromSet("s2"), FromRepo(<<"y", "debug">>)>>}}
TestCatalogs == {[Catalog0 EXCEPT !.tests = {"t1", "t2"}, !.testGroups = ("g" :> g) @@ ("h" :> <<Test("t2")>>),
                    !.imageTests = refs, !.capabilities = caps] :
                  g \in {<<Test("t1")>>, <<Test("t1"), Test("t2")>>, <<Test("t3")>>, <<TestGroup("h")>>},
                  caps \in {{"container", "cvm"}, {"container", "wsl"}},
                  refs \in {<<Test("t1"), TestGroup("h")>>, <<Test("t2"), TestGroup("g")>>, <<TestGroup("g"), TestGroup("h")>>, <<TestGroup("i")>>}}
PackageCatalogs == {[Catalog0 EXCEPT
                    !.comps = (Curl :> Component(own, entry)) @@ (Lib :> Component(NoPublish, other)),
                    !.groupOf = group, !.pkgGroups = ("pg" :> [packages |-> <<Lib>>, publish |-> Channels(NoChannel, pg, NoChannel)]) @@ second,
                    !.defaultPackage = Channels(Ch("all"), NoChannel, Ch("alldebug")), !.distro = distro] :
                  own \in {NoPublish, [NoPublish EXCEPT !.rpm = Ch("c"), !.debug = <<"c", "debuginfo">>]},
                  entry \in {<<>>, (Lib :> Channels(Ch("e"), NoChannel, NoChannel))},
                  other \in {<<>>, (Lib :> Unset)}, pg \in {NoChannel, Ch("old")},
                  second \in {<<>>, ("ph" :> [packages |-> <<Lib>>, publish |-> Unset])},
                  group \in {<<>>, (Curl :> [NoPublish EXCEPT !.rpm = Ch("g")])},
                  distro \in {NoPublish, [NoPublish EXCEPT !.rpm = Ch("d")]}}
(* Two sets that publish much the same: the same packages, with a version, *)
(* an architecture, an epoch or a kind changed, or one that does not load. *)
Pkg(n, epoch, v, arch) == [name |-> n, epoch |-> epoch, version |-> v, release |-> 1, arch |-> arch]
At(uri, at, arch) == <<uri, <<at, arch>>>>
Published(uri, base, debug) ==
  (At(uri, "base", "x86_64") :> base) @@ (At(uri, "base", "aarch64") :> {Pkg("curl", <<>>, 1, "aarch64")})
  @@ (At(uri, "debug", "x86_64") :> debug) @@ (At(uri, "debug", "aarch64") :> {}) @@ (At(uri, "src", "") :> {Pkg("curl", <<>>, 1, "src")})
PublishedBase == {Pkg("curl", <<>>, 1, "x86_64"), Pkg("lib", <<1>>, 1, "noarch")}
PublishedDebug == {Pkg("curl", <<>>, 1, "x86_64")}
InventoryCatalogs == {[Catalog0 EXCEPT !.templates = ("t" :> Rows("debug")),
                    !.sets = ("s1" :> SetOf(<<>>, subs, "http://key", "u1", {})) @@ ("s2" :> SetOf(<<"y">>, <<>>, "http://key", "u2", arches)),
                    !.metadata = Published("u1", PublishedBase, PublishedDebug) @@ other] :
                  subs \in {<<>>, <<Debug>>, <<Src, Base>>}, arches \in {{}, {"x86_64"}, {"riscv64"}},
                  other \in {Published("u2", base, debug) :
                               base \in {PublishedBase, {Pkg("curl", <<0>>, 1, "x86_64"), Pkg("lib", <<1>>, 2, "noarch")}, {Pkg("curl", <<>>, 1, "noarch")},
                                        PublishedBase \cup {Pkg("curl", <<>>, 2, "x86_64")}, PublishedBase \cup {Pkg("lib", <<>>, 0, "noarch")}},
                               debug \in {PublishedDebug, {}, {Pkg("new", <<>>, 1, "x86_64")}}} \cup {<<>>}}
Cataloged == {[Disk0 EXCEPT !.catalog = k, !.permissive = p] : k \in RepoCatalogs \cup TestCatalogs \cup PackageCatalogs \cup InventoryCatalogs, p \in {FALSE}}
             \cup {[Disk0 EXCEPT !.catalog = k, !.permissive = TRUE] : k \in TestCatalogs}

Lists == [by : {"list"}, all : BOOLEAN, names : {{}, {Curl}, {CurlDebug}}, synth : BOOLEAN]
RpmFiles == {[by |-> "rpmfile", entries |-> e] :
               e \in {<<[pkg |-> Curl, src |-> Curl], [pkg |-> Lib, src |-> Curl], [pkg |-> CurlDebug, src |-> Curl], [pkg |-> Lib, src |-> Lib]>>,
                      <<[pkg |-> Lib, src |-> <<"gone">>]>>, <<[pkg |-> <<>>, src |-> Curl]>>}}
Tests == {[by |-> "tests", selectors |-> s] : s \in {<<>>, <<"t1">>, <<"g", "t1">>, <<"i">>}}
Queries == [by : {"version"}, use : UseCases, arches : {<<"x86_64">>, <<"x86_64", "aarch64">>}, noDebug : BOOLEAN, noSource : BOOLEAN]
           \cup {[by |-> "prefixes", template |-> t, prefixes |-> <<"p1", "p2">>, arches |-> <<"x86_64", "aarch64">>, noDebug |-> d, noSource |-> TRUE] :
                    t \in {"t", "none"}, d \in BOOLEAN}
           \cup {[by |-> "compare", left |-> "s1", right |-> r, arches |-> <<"x86_64", "aarch64">>] : r \in {"s1", "s2", "s3"}}
MCCommands == Lists \cup RpmFiles \cup Tests \cup Queries

MCProjects == Graphs \cup Spread \cup Grouped \cup Cataloged
=============================================================================
