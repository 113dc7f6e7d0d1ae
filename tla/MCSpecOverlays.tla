--------------------------- MODULE MCSpecOverlays ---------------------------
(* Specs of up to six lines of a few kinds, and the overlays that fit them. *)
EXTENDS SpecOverlays

CONSTANTS MaxLines, \* length of the specs with many kinds of lines
          MoreLines, \* length of those with few
          MoreTags   \* length of those with tags and patches

SeqsUpTo(set, n) == UNION {[1..k -> set] : k \in 0..n}

Blank(type) ==
  [type |-> type, sect |-> "", pkg |-> "", tag |-> NoLine, lines |-> << >>,
   old |-> "", new |-> "", file |-> "", glob |-> {}]

Devel == Header("%package", "devel")
Build == Header("%build", "")
If(c) == Line("if", c, "", -1)
Elif(c) == Line("elif", c, "", -1)
Else  == Line("else", "", "", -1)
Endif == Line("endif", "", "", -1)
Note  == Line("note", "", "", -1)
Macro == Line("macro", "open", "", -1)

(* Sections and conditionals. *)
Removing ==
  {[Blank("spec-remove-section") EXCEPT !.sect = "%package", !.pkg = "devel"],
   [Blank("spec-remove-subpackage") EXCEPT !.pkg = "devel"],
   [Blank("structural-remove") EXCEPT !.pkg = "devel"],
   [Blank("structural-remove") EXCEPT !.sect = "%build"]}

Structures ==
  {s \in SeqsUpTo({Devel, Header("%files", "devel"), Build, Text("x"), Note,
                   If("A"), Elif("B"), Else, Endif, Macro}, MaxLines)
       \cup SeqsUpTo({Devel, Text("x"), If("A"), Elif("B"), Else, Endif}, MoreLines - 1)
       \cup SeqsUpTo({Devel, Build, Text("x"), If("A"), Else, Endif}, MoreLines) :
     /\ \E i \in 1..Len(s) : s[i].k = "head" \/ s[i] = Macro
     /\ WellFormed(s) \/ Len(s) < MaxLines}

(* Tags, patches and the files they name. *)
Patch(n, val) == Tag("patch", n, val)
Source        == Tag("source", 0, "s")

Editing ==
  {[Blank("patch-add") EXCEPT !.file = "q", !.new = "q"],
   [Blank("patch-add") EXCEPT !.file = "r", !.pkg = "devel"],
   [Blank("patch-remove") EXCEPT !.glob = {"p"}],
   [Blank("patch-remove") EXCEPT !.glob = {"p", "q", "r"}],
   [Blank("file-search-replace") EXCEPT !.glob = {"p", "q"}, !.old = "copied", !.new = "word"],
   [Blank("file-prepend-lines") EXCEPT !.glob = {"p", "q"}, !.lines = <<Text("x")>>],
   [Blank("spec-set-tag") EXCEPT !.tag = Tag("source", 0, "t")],
   [Blank("spec-update-tag") EXCEPT !.tag = Tag("source", 0, "t")],
   [Blank("spec-remove-tag") EXCEPT !.tag = Tag("source", 0, "")],
   [Blank("spec-search-replace") EXCEPT !.old = "s", !.new = "t"],
   [Blank("spec-append-lines") EXCEPT !.sect = "%build", !.lines = <<Text("x")>>],
   [Blank("spec-prepend-lines") EXCEPT !.sect = "%build", !.lines = <<Text("x")>>]}

Tagged == SeqsUpTo({Patch(0, "p"), Patch(1, "p"), Source, Devel, Build,
                    Header("%patchlist", ""), Text("p")}, MoreTags)

(* Tags among conditionals. *)
Inserting ==
  {[Blank(type) EXCEPT !.pkg = pkg, !.tag = Tag("source", 1, "new")] :
     type \in {"spec-insert-tag", "spec-add-tag"}, pkg \in {"", "devel"}}

Guarded ==
  {s \in SeqsUpTo({Source, Devel, Build, If("A"), Endif}, 5) : WellFormed(s)}

MCOverlays == [remove |-> Removing, edit |-> Editing, insert |-> Inserting]

MCInputs ==
  {[spec |-> s, files |-> << >>, kind |-> "remove"] : s \in Structures}
  \cup {[spec |-> s, files |-> "p" :> {"copied"}, kind |-> "edit"] : s \in Tagged}
  \cup {[spec |-> s, files |-> << >>, kind |-> "insert"] : s \in Guarded}
=============================================================================
