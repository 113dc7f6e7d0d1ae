------------------------------ MODULE SpecText ------------------------------
(***************************************************************************)
(* The line editor of internal/rpm/spec: a spec file is a sequence of raw  *)
(* lines, every edit walks over it with `Visit` (or scans it) and rewrites *)
(* it in place.                                                            *)
(*                                                                         *)
(* A line keeps what the editor tells apart: its kind and up to three      *)
(* attributes.  Its words, spaces and letter case are abstracted.  `id`    *)
(* names the line of the file that was read (0: a line an edit wrote); the *)
(* code has no such field, it lets properties say which lines survive.     *)
(*   head   a section header          a: section, b: package               *)
(*   tag    "Tag: value"              a: family, n: its number, b: value   *)
(*   text   anything else             b: its words                         *)
(*   note   a comment or blank line                                        *)
(*   if, elif                         a: the condition                     *)
(*   else, endif                                                           *)
(*   macro  %define or %global        a: "open" if its body goes on        *)
(***************************************************************************)
EXTENDS Integers, SequencesExt, FiniteSetsExt

Line(k, a, b, n) == [k |-> k, a |-> a, b |-> b, n |-> n, id |-> 0]
Header(sect, pkg) == Line("head", sect, pkg, -1)
Tag(fam, n, val) == Line("tag", fam, val, n)
Text(words)      == Line("text", "", words, -1)

Preamble == [sect |-> "", pkg |-> ""]

\* What names a part of a spec: the preamble, or a header's section and package.
SectionOf(line) == [sect |-> line.a, pkg |-> line.b]

\* Only the preamble and %package sections hold tags; elsewhere the same
\* characters are script or prose.
IsTag(line, at) == line.k = "tag" /\ at.sect \in {"", "%package"}

-----------------------------------------------------------------------------
(* Visit: the walk over the lines and its cursor.                          *)

NewContext(lines) ==
  [lines |-> lines, cur |-> 1, toParse |-> 2, toVisit |-> 1,
   before |-> Preamble, state |-> Preamble, sect |-> Preamble, hits |-> 0]

InsertLinesAt(lines, new, i) == SubSeq(lines, 1, i - 1) \o new \o SubSeq(lines, i, Len(lines))
RemoveLines(lines, i, j) == SubSeq(lines, 1, i - 1) \o SubSeq(lines, j, Len(lines))

\* The new lines are parsed but not visited, and neither is the current one again.
InsertLinesBefore(ctx, new) ==
  [ctx EXCEPT !.lines = InsertLinesAt(@, new, ctx.cur), !.state = ctx.before,
              !.toParse = ctx.cur, !.toVisit = ctx.cur + Len(new) + 1]

InsertLinesAfter(ctx, new) ==
  [ctx EXCEPT !.lines = InsertLinesAt(@, new, ctx.cur + 1),
              !.toParse = ctx.cur + 1, !.toVisit = @ + Len(new)]

\* Mutated: the line that moves up is not visited.
RemoveLineAndNext(ctx) ==
  [ctx EXCEPT !.lines = RemoveLines(@, ctx.cur, ctx.cur + 1), !.state = ctx.before,
              !.toParse = ctx.cur, !.toVisit = ctx.cur + 1]

\* What followed the removed line is the current line now: parsed and visited.
RemoveLine(ctx) ==
  [ctx EXCEPT !.lines = RemoveLines(@, ctx.cur, ctx.cur + 1), !.state = ctx.before,
              !.toParse = ctx.cur, !.toVisit = ctx.cur]

ReplaceLine(ctx, new) ==
  [ctx EXCEPT !.lines = [@ EXCEPT ![ctx.cur] = new], !.state = ctx.before,
              !.toParse = ctx.cur, !.toVisit = ctx.cur + 1]

\* The number of a tag: none, or small enough to leave room for the next one.
Numbers == -1..9

\* A visitor: the targets it acts on, in which section and package ({} is any),
\* for lines also which kinds, names, numbers and words; and what it does there.
OnLines(kinds, as, ns, bs, do) ==
  [at |-> "line", sects |-> {}, pkgs |-> {}, kinds |-> kinds, as |-> as, ns |-> ns,
   bs |-> bs, do |-> do, new |-> << >>]
OnBorder(at, part, do, new) ==
  [at |-> at, sects |-> {part.sect}, pkgs |-> {part.pkg}, kinds |-> {}, as |-> {},
   ns |-> {}, bs |-> {}, do |-> do, new |-> new]

Within(set, x) == set = {} \/ x \in set

Acts(v, ctx, at, line) ==
  /\ v.at = at
  /\ Within(v.sects, ctx.sect.sect)
  /\ Within(v.pkgs, ctx.sect.pkg)
  /\ at = "line" => /\ Within(v.as, line.a) /\ Within(v.ns, line.n) /\ Within(v.bs, line.b)
                    /\ line.k \in v.kinds
                    /\ v.kinds = {"tag"} => IsTag(line, ctx.before)

Call(v, ctx, at, line) ==
  IF ~Acts(v, ctx, at, line) THEN ctx
  ELSE LET c == [ctx EXCEPT !.hits = @ + 1] IN
       CASE v.do = "before"  -> InsertLinesBefore(c, v.new)
         [] v.do = "after"   -> InsertLinesAfter(c, v.new)
         [] v.do = "remove"  -> RemoveLine(c)
         [] v.do = "replace" -> ReplaceLine(c, v.new[1])
         [] v.do = "reword"  -> ReplaceLine(c, [line EXCEPT !.b = v.new[1], !.id = 0])

CallIfDue(v, ctx, at, line) == IF ctx.cur >= ctx.toVisit THEN Call(v, ctx, at, line) ELSE ctx

Entered(ctx) == [ctx EXCEPT !.sect = ctx.state]

Moved(ctx) == [ctx EXCEPT !.cur = ctx.toParse, !.toParse = @ + 1,
                          !.toVisit = Max({ctx.toParse, @})]

\* The end of one section and the start of the next are two targets of the same
\* header line; what the first call inserts may take the second one's turn.
VisitLine(v, ctx) ==
  LET line   == ctx.lines[ctx.cur]
      parsed == [ctx EXCEPT !.before = ctx.state]
  IN Moved(IF line.k # "head" THEN CallIfDue(v, parsed, "line", line)
           ELSE CallIfDue(v, Entered(CallIfDue(v, [parsed EXCEPT !.state = SectionOf(line)],
                                               "end", line)),
                          "start", line))

NoLine == Line("note", "", "", -1)

RECURSIVE VisitFrom(_, _)
VisitFrom(v, ctx) ==
  IF ctx.cur > Len(ctx.lines) THEN Call(v, ctx, "end", NoLine)
  ELSE VisitFrom(v, VisitLine(v, ctx))

Visit(v, lines) == VisitFrom(v, Call(v, NewContext(lines), "start", NoLine))

-----------------------------------------------------------------------------
(* The edits.  Each answers the lines it leaves and whether it succeeded.  *)

Failed(lines) == [lines |-> lines, ok |-> FALSE]
Done(lines)   == [lines |-> lines, ok |-> TRUE]

\* Most edits fail when their visitor found nothing to do.
Answer(ctx) == [lines |-> ctx.lines, ok |-> ctx.hits > 0]
Edited(v, lines) == Answer(Visit(v, lines))

\* A second edit, after one that need not have found anything.
EditedToo(v, was) == [Edited(v, was.lines) EXCEPT !.ok = was.ok \/ @]

PartOf(pkg) == [sect |-> IF pkg = "" THEN "" ELSE "%package", pkg |-> pkg]

PrependLinesToSection(lines, part, new) ==
  Edited(OnBorder("start", part, IF part = Preamble THEN "before" ELSE "after", new), lines)

AppendLinesToSection(lines, part, new) == Edited(OnBorder("end", part, "before", new), lines)

AddTag(lines, pkg, tag) == AppendLinesToSection(lines, PartOf(pkg), <<tag>>)

\* Every instance of the tag gets the value.
UpdateExistingTag(lines, pkg, tag) ==
  Edited([OnLines({"tag"}, {tag.a}, {tag.n}, {}, "replace")
            EXCEPT !.pkgs = {pkg}, !.new = <<tag>>], lines)

SetTag(lines, pkg, tag) ==
  LET updated == UpdateExistingTag(lines, pkg, tag)
  IN IF updated.ok THEN updated ELSE AddTag(lines, pkg, tag)

RemoveTag(lines, pkg, tag) ==
  Edited([OnLines({"tag"}, {tag.a}, {tag.n}, {tag.b} \ {""}, "remove")
            EXCEPT !.pkgs = {pkg}], lines)

SearchAndReplace(lines, part, old, new) ==
  Edited([OnLines({"tag", "text"}, {}, {}, {old}, "reword")
            EXCEPT !.sects = {part.sect} \ {""}, !.pkgs = {part.pkg} \ {""},
                   !.new = <<new>>], lines)

\* In whose part a line lies, by the last header above it.
PartAt(lines, i) ==
  LET heads == {j \in 1..i : lines[j].k = "head"}
  IN IF heads = {} THEN Preamble ELSE SectionOf(lines[Max(heads)])

HasSection(lines, name) == \E i \in 1..Len(lines) : lines[i].k = "head" /\ lines[i].a = name

Tags(lines) == {i \in 1..Len(lines) : IsTag(lines[i], PartAt(lines, i))}

\* Patch tags without a number take the numbers from 0 on.
GetHighestPatchTagNumber(lines) ==
  LET patches == {i \in Tags(lines) : lines[i].a = "patch"}
      bare    == {i \in patches : lines[i].n = -1}
  IN Max({-1, Cardinality(bare) - 1} \cup {lines[i].n : i \in patches})

AddPatchEntry(lines, pkg, file) ==
  IF HasSection(lines, "%patchlist")
  THEN AppendLinesToSection(lines, [sect |-> "%patchlist", pkg |-> ""], <<Text(file)>>)
  ELSE AddTag(lines, pkg, Tag("patch", GetHighestPatchTagNumber(lines) + 1, file))

\* Mutated: the patch list is forgotten.
RemovePatchTags(lines, files) ==
  Edited(OnLines({"tag"}, {"patch"}, Numbers \ {-1}, files, "remove"), lines)

\* Tags without a number are passed over; the patch list is searched as well.
RemovePatchEntry(lines, files) ==
  EditedToo([OnLines({"tag", "text"}, {}, {}, files, "remove") EXCEPT !.sects = {"%patchlist"}],
            Edited(OnLines({"tag"}, {"patch"}, Numbers \ {-1}, files, "remove"), lines))

-----------------------------------------------------------------------------
(* InsertTag: behind its relatives, out of conditionals.                   *)

DepthChange(line) == CASE line.k = "if" -> 1 [] line.k = "endif" -> -1 [] OTHER -> 0

\* How deep in conditionals the file is after line i.
Depth(lines, i) == FoldLeft(LAMBDA d, l : d + DepthChange(l), 0, SubSeq(lines, 1, i))

\* The last line of every part with that name; the last such part counts.
SectionEnd(lines, part) ==
  LET inside == {i \in 1..Len(lines) : PartAt(lines, i) = part}
  IN IF inside = {} THEN 0 ELSE Max(inside)

\* Mutated: the tag stays where its relatives are.
SkipNothing(lines, i, end) == i

SkipPastConditional(lines, i, end) ==
  LET out == {j \in (i + 1)..end : Depth(lines, j) <= 0}
  IN IF Depth(lines, i) > 0 /\ out # {} THEN Min(out) ELSE i

InsertTag(lines, pkg, tag) ==
  LET part   == PartOf(pkg)
      tags   == {i \in Tags(lines) : PartAt(lines, i) = part}
      family == {i \in tags : lines[i].a = tag.a}
      after  == SkipPastConditional(lines, Max(IF family = {} THEN tags ELSE family),
                                    SectionEnd(lines, part))
  IN IF part # Preamble /\ ~\E l \in ToSet(lines) : l.k = "head" /\ SectionOf(l) = part
     THEN Failed(lines)
     ELSE IF tags = {} THEN AddTag(lines, pkg, tag) ELSE Done(InsertLinesAt(lines, <<tag>>, after + 1))

-----------------------------------------------------------------------------
(* Removing sections: from a header up to the next one, less what would    *)
(* tear a conditional apart.                                               *)

\* Pairs of the lines of an %if and its %endif; {} if they do not match up.
RECURSIVE PairsFrom(_, _, _, _)
PairsFrom(lines, i, stack, pairs) ==
  IF i > Len(lines) THEN [ok |-> stack = << >>, pairs |-> pairs]
  ELSE CASE lines[i].k = "if"    -> PairsFrom(lines, i + 1, <<i>> \o stack, pairs)
         [] lines[i].k = "endif" ->
              IF stack = << >> THEN [ok |-> FALSE, pairs |-> {}]
              ELSE PairsFrom(lines, i + 1, Tail(stack), pairs \cup {<<stack[1], i>>})
         [] OTHER -> PairsFrom(lines, i + 1, stack, pairs)

CollectConditionalPairs(lines) == PairsFrom(lines, 1, << >>, {})

IsBranch(line) == line.k \in {"elif", "else"}

\* Nothing of the section in these lines: blanks, comments, %if and %endif only.
NoContent(lines, from, to) == \A i \in from..to : lines[i].k \in {"note", "if", "endif"}

\* The lines lo..hi without those at the end whose other half lies outside.  It
\* fails when content lies among these, or when a branch belongs to a
\* conditional that reaches outside.
BalanceRange(lines, pairs, lo, hi) ==
  LET inside(i)  == i \in lo..hi
      straddling == {p \in pairs : inside(p[1]) # inside(p[2])}
      borders    == {i \in UNION {{p[1], p[2]} : p \in straddling} : inside(i)}
      end        == IF borders = {} THEN hi ELSE Min(borders) - 1
      around(i)  == {p \in pairs : p[1] <= i /\ i <= p[2]}
      inner(i)   == CHOOSE p \in around(i) : \A q \in around(i) : q[1] <= p[1]
      torn       == \/ \E i \in lo..hi : /\ IsBranch(lines[i]) /\ around(i) # {}
                                         /\ inner(i) \in straddling \/ ~inside(inner(i)[1])
                    \/ ~NoContent(lines, end + 1, hi)
  IN [ok |-> ~torn, gone |-> lo..end]

\* The lines whose number is in that set taken out.
Without(lines, gone) ==
  LET kept == SelectSeq([i \in 1..Len(lines) |-> i], LAMBDA i : i \notin gone)
  IN [j \in 1..Len(kept) |-> lines[kept[j]]]

\* The section that begins at i ends before the next header, or with the file.
NextHeader(lines, i) ==
  Min({Len(lines) + 1} \cup {j \in (i + 1)..Len(lines) : lines[j].k = "head"})

\* Every section of these parts.
RemoveParts(lines, parts) ==
  LET heads    == {i \in 1..Len(lines) : lines[i].k = "head" /\ SectionOf(lines[i]) \in parts}
      matched  == CollectConditionalPairs(lines)
      range(i) == BalanceRange(lines, matched.pairs, i, NextHeader(lines, i) - 1)
  IN IF heads = {} \/ ~matched.ok \/ \E i \in heads : ~range(i).ok THEN Failed(lines)
     ELSE Done(Without(lines, UNION {range(i).gone : i \in heads}))

RemoveSection(lines, part) ==
  IF part.sect = "" THEN Failed(lines) ELSE RemoveParts(lines, {part})

\* Every section of that package, whatever its name.
PartsOfPackage(lines, pkg) ==
  {SectionOf(l) : l \in {m \in ToSet(lines) : m.k = "head" /\ m.b = pkg}}

RemoveSubpackage(lines, pkg) ==
  IF pkg = "" THEN Failed(lines) ELSE RemoveParts(lines, PartsOfPackage(lines, pkg))
=============================================================================
