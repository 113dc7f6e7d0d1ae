---------------------------- MODULE SpecOverlays ----------------------------
(***************************************************************************)
(* The overlays of a component applied one after the other to its spec and *)
(* to the loose files beside it (core/sources/overlays.go), and removals   *)
(* by the structural editor, which no overlay uses as yet.  Every overlay  *)
(* reads the spec anew, edits it in memory and, if that succeeded, writes  *)
(* it back.                                                                *)
(*                                                                         *)
(* `files` maps the names of the loose files to what was done to them, a   *)
(* set of marks; a glob pattern is the set of names it matches.            *)
(***************************************************************************)
EXTENDS SpecTree

CONSTANTS
  Inputs,      \* [spec, files, kind]: a spec, its files, and the kind of overlays to try
  Overlays,    \* the overlays of each kind
  MaxOverlays  \* bound on the overlays applied in a row

VARIABLES
  spec,  \* the lines of the spec file
  files, \* the loose files
  kind,  \* which overlays are tried
  last   \* the overlay applied last, how it ended, and how many there were

vars == <<spec, files, kind, last>>

-----------------------------------------------------------------------------
(* The spec part of an overlay.                                            *)

PartIn(o) == [sect |-> o.sect, pkg |-> o.pkg]
PartsIn(o, lines) == IF o.sect = "" THEN PartsOfPackage(lines, o.pkg) ELSE {PartIn(o)}

\* Without a section the lines go to the top or the bottom of the file.
ApplySpecOverlay(o, lines) ==
  CASE o.type = "spec-add-tag"           -> AddTag(lines, o.pkg, o.tag)
    [] o.type = "spec-insert-tag"        -> InsertTag(lines, o.pkg, o.tag)
    [] o.type = "spec-update-tag"        -> UpdateExistingTag(lines, o.pkg, o.tag)
    [] o.type = "spec-set-tag"           -> SetTag(lines, o.pkg, o.tag)
    [] o.type = "spec-remove-tag"        -> RemoveTag(lines, o.pkg, o.tag)
    [] o.type = "spec-prepend-lines"     ->
         IF o.sect = "" THEN Done(o.lines \o lines)
         ELSE PrependLinesToSection(lines, PartIn(o), o.lines)
    [] o.type = "spec-append-lines"      ->
         IF o.sect = "" THEN Done(lines \o o.lines)
         ELSE AppendLinesToSection(lines, PartIn(o), o.lines)
    [] o.type = "spec-search-replace"    -> SearchAndReplace(lines, PartIn(o), o.old, o.new)
    [] o.type = "spec-remove-section"    -> RemoveSection(lines, PartIn(o))
    [] o.type = "spec-remove-subpackage" -> RemoveSubpackage(lines, o.pkg)
    [] o.type = "patch-add"              -> AddPatchEntry(lines, o.pkg, o.file)
    [] o.type = "patch-remove"           -> RemovePatchEntry(lines, o.glob)

ModifiesSpec(o) == o.type \notin {"file-add", "file-prepend-lines", "file-search-replace",
                                  "file-remove", "file-rename"}
ModifiesLooseFiles(o) == ~ModifiesSpec(o) \/ o.type \in {"patch-add", "patch-remove"}

-----------------------------------------------------------------------------
(* What loading the configuration demands of an overlay.                   *)

\* A package is part of a section: without one it means nothing.
SectionIfPackage(o) == o.sect = "" => o.pkg = ""

ValidSpecOverlay(o) ==
  CASE o.type \in {"spec-add-tag", "spec-insert-tag", "spec-set-tag", "spec-update-tag"} ->
         o.tag # NoLine /\ o.tag.b # ""
    [] o.type = "spec-remove-tag" -> o.tag # NoLine
    [] o.type \in {"spec-prepend-lines", "spec-append-lines"} ->
         o.lines # << >> /\ SectionIfPackage(o)
    [] o.type = "spec-search-replace"    -> o.old # "" /\ SectionIfPackage(o)
    [] o.type = "spec-remove-section"    -> o.sect # ""
    [] o.type = "spec-remove-subpackage" -> o.pkg # "" /\ o.sect = ""
    [] OTHER -> TRUE

\* Names are relative paths here; that they are is demanded too.
ValidFileOverlay(o) ==
  CASE o.type \in {"patch-add", "file-add"} -> o.file # ""
    [] o.type = "file-prepend-lines"        -> o.glob # {} /\ o.lines # << >>
    [] o.type = "file-search-replace"       -> o.glob # {} /\ o.old # ""
    [] o.type = "file-rename"               -> o.glob # {} /\ o.file # ""
    [] o.type \in {"file-remove", "patch-remove"} -> o.glob # {}
    [] OTHER -> TRUE

Validate(o) == ValidSpecOverlay(o) /\ ValidFileOverlay(o)

-----------------------------------------------------------------------------
(* The loose files.                                                        *)

Kept(fs, names) == [f \in DOMAIN fs \ names |-> fs[f]]

\* A new file must not be there yet.
AddNonSpecFile(o, fs) ==
  IF o.file \in DOMAIN fs THEN [ok |-> FALSE, files |-> fs]
  ELSE [ok |-> TRUE, files |-> (o.file :> {"copied"}) @@ fs]

\* The loose files a pattern finds; neither the spec nor git's own files are among them.
Matching(o, fs) == o.glob \cap DOMAIN fs

\* What prepending lines, or replacing what matches, makes of a file.
Rewritten(o, marks) ==
  IF o.type = "file-search-replace" THEN (marks \ {o.old}) \cup {o.new} ELSE marks \cup {"lead"}

\* Files the pattern matches but the expression does not are passed over, as
\* long as it matches in one of them.  A rename takes what has the new name away.
EditNonSpecFiles(o, fs) ==
  LET names == Matching(o, fs)
      hit   == {f \in names : o.type = "file-search-replace" => o.old \in fs[f]}
  IN IF hit = {} \/ (o.type = "file-rename" /\ Cardinality(names) > 1)
     THEN [ok |-> FALSE, files |-> fs]
     ELSE [ok |-> TRUE,
           files |-> CASE o.type \in {"file-remove", "patch-remove"} -> Kept(fs, hit)
                       [] o.type = "file-rename" ->
                            (o.file :> fs[CHOOSE f \in hit : TRUE]) @@ Kept(fs, hit)
                       [] OTHER ->
                            [f \in DOMAIN fs |-> IF f \in hit THEN Rewritten(o, fs[f]) ELSE fs[f]]]

ApplyNonSpecOverlay(o, fs) ==
  IF o.type \in {"file-add", "patch-add"} THEN AddNonSpecFile(o, fs) ELSE EditNonSpecFiles(o, fs)

-----------------------------------------------------------------------------

Numbered(lines) == [i \in 1..Len(lines) |-> [lines[i] EXCEPT !.id = i]]

None == [type |-> "none"]

Init ==
  \E input \in Inputs :
    /\ spec = Numbered(input.spec)
    /\ files = input.files
    /\ kind = input.kind
    /\ last = [o |-> None, ok |-> TRUE, n |-> 0]

SpecPart(o) == IF ModifiesSpec(o) THEN ApplySpecOverlay(o, spec) ELSE Done(spec)
LoosePart(o, ok) == IF ok /\ ModifiesLooseFiles(o) THEN ApplyNonSpecOverlay(o, files)
                    ELSE [ok |-> ok, files |-> files]

\* The edited spec is on disk when the loose part fails.
ApplyOverlayToSources(o) ==
  /\ o.type # "structural-remove" /\ Validate(o)
  /\ \E edited \in {SpecPart(o)} : \E loose \in {LoosePart(o, edited.ok)} :
       /\ spec' = IF edited.ok THEN edited.lines ELSE spec
       /\ files' = loose.files
       /\ last' = [o |-> o, ok |-> loose.ok, n |-> last.n + 1]
  /\ UNCHANGED kind

\* The sections of a package, or of one name in it, taken out of the tree.
MutateTree(o) ==
  /\ o.type = "structural-remove"
  /\ \E result \in {RemoveSections(spec, PartsIn(o, spec))} :
       /\ spec' = result.lines
       /\ last' = [o |-> o, ok |-> result.ok, n |-> last.n + 1]
  /\ UNCHANGED <<files, kind>>

\* The first overlay that fails ends the preparation.
Next ==
  /\ last.ok /\ last.n < MaxOverlays
  /\ \E o \in Overlays[kind] : ApplyOverlayToSources(o) \/ MutateTree(o)

Spec == Init /\ [][Next]_vars

-----------------------------------------------------------------------------
(* What rpm makes of a spec: which lines count, and for which section, when *)
(* the conditions in `env` hold.                                            *)

Read(lines, env) ==
  LET step(acc, line) ==
        LET live  == \A i \in 1..Len(acc.stack) : acc.stack[i].on
            cond  == line.a \in env
            top   == acc.stack[1]
            taken(row) == IF live THEN [acc EXCEPT !.out = Append(@, row)] ELSE acc
            wrong == acc.stack = << >> \/ (line.k # "endif" /\ top.final)
        IN IF acc.body THEN [taken(<<acc.owner, line>>) EXCEPT !.body = Opens(line)]
           ELSE CASE line.k = "note"  -> acc
                  [] line.k = "if"    ->
                       [acc EXCEPT !.stack = <<[on |-> cond, was |-> cond, final |-> FALSE]>> \o @]
                  [] line.k \in {"elif", "else", "endif"} /\ wrong -> [acc EXCEPT !.ok = FALSE]
                  [] ~wrong /\ line.k = "endif" -> [acc EXCEPT !.stack = Tail(@)]
                  [] ~wrong /\ line.k = "elif"  ->
                       [acc EXCEPT !.stack[1] =
                          [@ EXCEPT !.on = cond /\ ~top.was, !.was = @ \/ cond]]
                  [] ~wrong /\ line.k = "else"  ->
                       [acc EXCEPT !.stack[1] = [@ EXCEPT !.on = ~top.was, !.final = TRUE]]
                  [] line.k = "head"  ->
                       IF live THEN [taken(<<SectionOf(line), line>>) EXCEPT !.owner = SectionOf(line)]
                       ELSE acc
                  [] line.k = "macro" -> [taken(<<acc.owner, line>>) EXCEPT !.body = Opens(line)]
                  [] OTHER            -> taken(<<acc.owner, line>>)
      end == FoldLeft(step, [stack |-> << >>, owner |-> Preamble, body |-> FALSE,
                             ok |-> TRUE, out |-> << >>], lines)
  IN [ok |-> end.ok /\ end.stack = << >> /\ ~end.body, rows |-> end.out]

WellFormed(lines) == Read(lines, {}).ok

Conditions(lines) == {l.a : l \in {m \in ToSet(lines) : m.k \in {"if", "elif"}}}

\* The line editor takes what lies in the body of a macro for lines of the spec;
\* what it does to such specs is left out of the properties.
BodiesAreText(lines) == \A i \in BodiesFrom(lines, 1, FALSE) : lines[i].k = "text"

Removals == {"spec-remove-section", "spec-remove-subpackage", "structural-remove"}

\* Taking sections out takes their lines and no others, and leaves every other
\* line to the section it belonged to, however the conditions of the spec come
\* out (RemoveSections; for RemoveSection and RemoveSubpackage of the line editor
\* wherever the structural editor would not refuse).
RemovalIsExact ==
  [][LET o == last'.o
         gone == PartsIn(o, spec)
     IN (/\ o.type \in Removals /\ last'.ok /\ WellFormed(spec)
         /\ o.type # "structural-remove" => BodiesAreText(spec) /\ RemoveSections(spec, gone).ok)
        => /\ WellFormed(spec')
           /\ \A env \in SUBSET Conditions(spec) :
                Read(spec', env).rows =
                  SelectSeq(Read(spec, env).rows, LAMBDA row : row[1] \notin gone)]_vars

\* Lines an overlay is after, as rpm sees them.
Targets(o, lines) ==
  LET rows == UNION {ToSet(Read(lines, env).rows) : env \in SUBSET Conditions(lines)}
      tag(row) == row[2].k = "tag" /\ row[1].sect \in {"", "%package"}
  IN CASE o.type \in {"spec-update-tag", "spec-remove-tag"} ->
            {row \in rows : tag(row) /\ row[1].pkg = o.pkg /\ row[2].a = o.tag.a /\ row[2].n = o.tag.n}
       [] o.type = "patch-remove" ->
            {row \in rows : /\ row[2].b \in o.glob
                            /\ \/ tag(row) /\ row[2].a = "patch" /\ row[2].n # -1
                               \/ row[1].sect = "%patchlist"}
       [] o.type = "spec-search-replace" ->
            {row \in rows : /\ row[2].k \in {"text", "tag"} /\ row[2].b = o.old
                            /\ o.sect \in {"", row[1].sect} /\ o.pkg \in {"", row[1].pkg}}
       [] OTHER -> {}

\* An edit of matching lines reaches every one of them, also those next to one
\* another and those after a line it removed, and is refused only if there is
\* none (the cursor Visit moves while its visitor changes the lines).
EveryMatchIsEdited ==
  [][LET o == last'.o IN
     (/\ o.type \in {"spec-update-tag", "spec-remove-tag", "patch-remove", "spec-search-replace"}
      /\ Conditions(spec) = {} /\ BodiesAreText(spec))
     => /\ last'.ok => \A row \in Targets(o, spec') :
                         o.type = "spec-update-tag" /\ row[2].b = o.tag.b
        /\ ~last'.ok /\ spec' = spec => Targets(o, spec) = {}]_vars

\* An overlay edits what it names, all of it and nothing else: what it removes
\* and what it matches (the structural editor's trees, the line editor's walk).
EditsAreExact == RemovalIsExact /\ EveryMatchIsEdited

\* Every patch the spec names, by a tag or in the patch list, is a file of the
\* component after overlays that add, remove and edit patches all succeeded.
PatchesHaveFiles ==
  last.ok =>
    \A row \in ToSet(Read(spec, Conditions(spec)).rows) :
      (\/ row[2].k = "tag" /\ row[2].a = "patch" /\ row[1].sect \in {"", "%package"}
       \/ row[2].k = "text" /\ row[1].sect = "%patchlist") => row[2].b \in DOMAIN files

\* A tag inserted into a part of the spec no conditional reaches into or out of
\* counts whichever conditions hold, and for that part (InsertTag goes on to the
\* %endif when the tag it follows is conditional).
InsertedIsUnconditional ==
  [][LET part  == PartOf(last'.o.pkg)
         lines == {i \in 1..Len(spec) : PartAt(spec, i) = part}
         cut(p) == (p[1] \in lines) # (p[2] \in lines)
     IN (/\ last'.o.type = "spec-insert-tag" /\ last'.ok /\ WellFormed(spec)
         /\ ~\E p \in CollectConditionalPairs(spec).pairs :
               cut(p) \/ \E i \in lines : p[1] < i /\ i < p[2] /\ p[1] \notin lines)
        => \A env \in SUBSET Conditions(spec) :
             \E row \in ToSet(Read(spec', env).rows) : row[2].id = 0 /\ row[1] = part]_vars

\* A line an overlay adds to a section counts for no other section, whichever
\* conditions hold (InsertTag and
\* AddTag: edit.go:265-266 and :316, edit.go:470-471).
LandsWhereAsked ==
  [][(/\ last'.o.type \in {"spec-insert-tag", "spec-add-tag"} /\ last'.ok /\ WellFormed(spec))
     => \A env \in SUBSET Conditions(spec) : \A row \in ToSet(Read(spec', env).rows) :
          row[2].id = 0 => row[1] = PartOf(last'.o.pkg)]_vars
=============================================================================
