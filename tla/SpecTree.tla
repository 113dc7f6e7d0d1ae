------------------------------ MODULE SpecTree ------------------------------
(***************************************************************************)
(* The structural editor of internal/rpm/spec: the lines are parsed into a *)
(* tree of sections, conditionals, macro definitions and text; sections    *)
(* are taken out of the tree, and the lines are written back.  So far only *)
(* its tests call it: the overlays use the line editor.                    *)
(*                                                                         *)
(* Unlike the line editor the parser does not look into the body of a      *)
(* %define or %global.  Where a body ends depends on braces, quotes, Lua   *)
(* comments and trailing backslashes of each line; here a line simply says *)
(* that the body goes on after it (`a` is "open") or not.                  *)
(***************************************************************************)
EXTENDS SpecText

Opens(line) == line.a = "open"

\* The lines that lie in the body of a macro definition.
RECURSIVE BodiesFrom(_, _, _)
BodiesFrom(lines, i, in) ==
  IF i > Len(lines) THEN {}
  ELSE IF in THEN {i} \cup BodiesFrom(lines, i + 1, Opens(lines[i]))
  ELSE BodiesFrom(lines, i + 1, lines[i].k = "macro" /\ Opens(lines[i]))

\* What a line is to the parser: the kind of one in a body is nothing.
Kinds(lines) ==
  LET bodies == BodiesFrom(lines, 1, FALSE)
  IN [i \in 1..Len(lines) |-> IF i \in bodies THEN "body" ELSE lines[i].k]

-----------------------------------------------------------------------------
(* Parsing.                                                                *)

\* Walks the directives with a stack of open conditionals, each [at, final]:
\* whether its %else has been seen.
RECURSIVE MatchFrom(_, _, _, _)
MatchFrom(kinds, i, stack, pairs) ==
  IF i > Len(kinds) THEN [ok |-> stack = << >>, pairs |-> pairs]
  ELSE CASE kinds[i] = "if" ->
              MatchFrom(kinds, i + 1, <<[at |-> i, final |-> FALSE]>> \o stack, pairs)
         [] kinds[i] = "endif" /\ stack # << >> ->
              MatchFrom(kinds, i + 1, Tail(stack), pairs \cup {<<stack[1].at, i>>})
         [] kinds[i] \in {"elif", "else"} /\ stack # << >> /\ ~stack[1].final ->
              MatchFrom(kinds, i + 1, [stack EXCEPT ![1].final = kinds[i] = "else"], pairs)
         [] kinds[i] \in {"endif", "elif", "else"} -> [ok |-> FALSE, pairs |-> {}]
         [] OTHER -> MatchFrom(kinds, i + 1, stack, pairs)

TreeConditionalPairs(kinds) == MatchFrom(kinds, 1, << >>, {})

EndifOf(pairs, i) == (CHOOSE p \in pairs : p[1] = i)[2]
HasHeader(kinds, from, to) == \E i \in from..to : kinds[i] = "head"

\* A section lasts to the next header, or to a conditional that holds one.
TreeSectionEnd(kinds, pairs, from, to) ==
  LET hidden(i) == \E p \in pairs : from <= p[1] /\ p[1] < i /\ i <= p[2]
      stops     == {i \in from..to :
                      /\ ~hidden(i)
                      /\ \/ kinds[i] = "head"
                         \/ kinds[i] = "if" /\ HasHeader(kinds, i + 1, EndifOf(pairs, i))}
  IN IF stops = {} THEN to ELSE Min(stops) - 1

\* The first branch of the conditional whose lines are from..to; 0 if there is none.
BranchIn(kinds, pairs, from, to) ==
  LET branches == {i \in from..to : /\ kinds[i] \in {"elif", "else"}
                                    /\ ~\E p \in pairs : from <= p[1] /\ p[1] < i /\ i < p[2]}
  IN IF branches = {} THEN 0 ELSE Min(branches)

\* Where the body of the macro defined at i ends.
MacroEnd(kinds, i) == Min({j \in i..Len(kinds) : j = Len(kinds) \/ kinds[j + 1] # "body"})

Section(at, kids)  == [k |-> "sect", at |-> at, kids |-> kids, mid |-> 0, alt |-> << >>, end |-> 0]
Leaf(k, at, end)   == [k |-> k, at |-> at, kids |-> << >>, mid |-> 0, alt |-> << >>, end |-> end]

\* The blocks of the lines from..to.  `top`: sections may begin here.  A block
\* refers to its lines by their numbers.
RECURSIVE Blocks(_, _, _, _, _)
RECURSIVE Conditional(_, _, _, _, _)
Blocks(kinds, pairs, from, to, top) ==
  IF from > to THEN << >>
  ELSE LET rest(next) == Blocks(kinds, pairs, next, to, top) IN
    CASE top /\ kinds[from] = "head" ->
           LET end == TreeSectionEnd(kinds, pairs, from + 1, to)
           IN <<Section(from, Blocks(kinds, pairs, from + 1, end, FALSE))>> \o rest(end + 1)
      [] kinds[from] = "if" ->
           LET endif == EndifOf(pairs, from)
               cond  == Conditional(kinds, pairs, from, endif - 1,
                                    HasHeader(kinds, from + 1, endif - 1))
           IN <<[cond EXCEPT !.end = endif]>> \o rest(endif + 1)
      [] kinds[from] = "macro" ->
           <<Leaf("macro", from, MacroEnd(kinds, from))>> \o rest(MacroEnd(kinds, from) + 1)
      [] OTHER -> <<Leaf("text", from, from)>> \o rest(from + 1)

\* %elif makes the rest a conditional without an %endif of its own; %else ends it.
Conditional(kinds, pairs, at, to, top) ==
  LET mid == BranchIn(kinds, pairs, at + 1, to)
      alt == IF mid = 0 THEN << >>
             ELSE IF kinds[mid] = "elif" THEN <<Conditional(kinds, pairs, mid, to, top)>>
             ELSE Blocks(kinds, pairs, mid + 1, to, top)
  IN [k |-> "cond", at |-> at,
      kids |-> Blocks(kinds, pairs, at + 1, IF mid = 0 THEN to ELSE mid - 1, top),
      mid |-> IF mid # 0 /\ kinds[mid] = "else" THEN mid ELSE 0, alt |-> alt, end |-> 0]

RECURSIVE HoldsSection(_)
HoldsSection(block) ==
  \E b \in ToSet(block.kids) \cup ToSet(block.alt) :
    b.k = "sect" \/ (b.k = "cond" /\ HoldsSection(b))

\* What comes before the first section, or conditional around sections, becomes
\* the section of the preamble, whose header is line 0.
WrapPreamble(blocks) ==
  LET first == {i \in 1..Len(blocks) : \/ blocks[i].k = "sect"
                                       \/ blocks[i].k = "cond" /\ HoldsSection(blocks[i])}
      n     == IF first = {} THEN Len(blocks) ELSE Min(first) - 1
  IN <<Section(0, SubSeq(blocks, 1, n))>> \o SubSeq(blocks, n + 1, Len(blocks))

\* A definition whose last line opens a body the file does not close is refused.
ParseTree(lines) ==
  LET kinds   == Kinds(lines)
      matched == TreeConditionalPairs(kinds)
      n       == Len(lines)
      open    == n > 0 /\ kinds[n] \in {"macro", "body"} /\ Opens(lines[n])
  IN IF ~matched.ok \/ open THEN [ok |-> FALSE, root |-> << >>]
     ELSE [ok |-> TRUE, root |-> WrapPreamble(Blocks(kinds, matched.pairs, 1, n, TRUE))]

\* Back to lines (here their numbers).
RECURSIVE Serialize(_)
Serialize(blocks) ==
  LET row(i) == IF i = 0 THEN << >> ELSE <<i>>
      of(b)  == IF b.k \in {"text", "macro"} THEN [j \in 1..(b.end - b.at + 1) |-> b.at + j - 1]
                ELSE row(b.at) \o Serialize(b.kids) \o row(b.mid) \o Serialize(b.alt) \o row(b.end)
  IN FoldLeft(LAMBDA out, b : out \o of(b), << >>, blocks)

SerializeTree(lines, root) ==
  LET rows == Serialize(root) IN [j \in 1..Len(rows) |-> lines[rows[j]]]

-----------------------------------------------------------------------------
(* Removing sections as one transaction.                                   *)

\* The headers of the sections of these parts, wherever they are nested.
RECURSIVE SectionsIn(_, _, _)
SectionsIn(lines, blocks, parts) ==
  UNION {(IF b.k = "sect" /\ b.at # 0 /\ SectionOf(lines[b.at]) \in parts THEN {b.at} ELSE {})
           \cup SectionsIn(lines, b.kids \o b.alt, parts) : b \in ToSet(blocks)}

\* Whether, after these blocks, a removed section may be the one text falls to:
\* "no", "may", or "torn" when some text does.
RECURSIVE Ownership(_, _, _, _)
\* Mutated: a conditional without %else is taken to hold.
ConditionalOwnershipThen(lines, b, gone, needs) ==
  LET then == Ownership(lines, b.kids, gone, needs)
      else == Ownership(lines, b.alt, gone, needs)
  IN IF "torn" \in {then, else} THEN "torn"
     ELSE IF b.mid = 0 /\ b.alt = << >> THEN then
     ELSE IF "may" \in {then, else} THEN "may" ELSE "no"

ConditionalOwnership(lines, b, gone, needs) ==
  LET then == Ownership(lines, b.kids, gone, needs)
      else == IF b.mid = 0 /\ b.alt = << >> THEN needs ELSE Ownership(lines, b.alt, gone, needs)
  IN IF "torn" \in {then, else} THEN "torn" ELSE IF "may" \in {then, else} THEN "may" ELSE "no"

Ownership(lines, blocks, gone, needs) ==
  LET after(was, b) ==
        IF was = "torn" THEN "torn" ELSE
        CASE b.k = "sect"   -> IF b.at \in gone THEN "may" ELSE "no"
          [] b.k = "cond"   -> ConditionalOwnership(lines, b, gone, was)
          [] b.k = "macro"  -> IF was = "may" THEN "torn" ELSE was
          [] b.k = "text"   -> IF was = "may" /\ lines[b.at].k # "note" THEN "torn" ELSE was
  IN FoldLeft(after, needs, blocks)

RECURSIVE RemoveBlocks(_, _)
RemoveBlocks(blocks, gone) ==
  LET kept == SelectSeq(blocks, LAMBDA b : ~(b.k = "sect" /\ b.at \in gone))
  IN [i \in 1..Len(kept) |-> [kept[i] EXCEPT !.kids = RemoveBlocks(@, gone),
                                             !.alt = RemoveBlocks(@, gone)]]

\* mutateTree: the result must parse again, and an error changes nothing.
Reparsed(lines, result) == IF ParseTree(result).ok THEN Done(result) ELSE Failed(lines)

RemoveFrom(lines, root, gone) ==
  IF gone = {} \/ Ownership(lines, root, gone, "no") = "torn" THEN Failed(lines)
  ELSE Reparsed(lines, SerializeTree(lines, RemoveBlocks(root, gone)))

RemoveSections(lines, parts) ==
  LET tree == ParseTree(lines)
  IN IF tree.ok THEN RemoveFrom(lines, tree.root, SectionsIn(lines, tree.root, parts))
     ELSE Failed(lines)
=============================================================================
