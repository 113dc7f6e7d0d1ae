---------------------------- MODULE MCSourcePrep ----------------------------
(***************************************************************************)
(* SourcePrep for TLC.  File a is an archive that upstream may list,       *)
(* commit or lack and that overlays may change; file b is a second entry   *)
(* of 'source-files', before or after that of a, downloaded or generated   *)
(* from a.  The sets Cases and Modes bound what the runs look at.          *)
(***************************************************************************)
EXTENDS SourcePrep, FiniteSets

CONSTANTS a, b, x, y

(* Every entry for a, and some for b. *)
RefsOfA == {r \in Refs : r.name = a /\ r.inputs = {} /\ r.hash \in {None, x, y, Repacked(x)}}
RefsOfB == {r \in Refs : /\ r.name = b /\ ~r.replace /\ r.hash = y
                         /\ r.inputs = IF r.origin = "custom" THEN {a} ELSE {}}

RefLists == {<<>>} \cup {<<r>> : r \in RefsOfA \cup RefsOfB}
            \cup {<<r, s>> : r \in RefsOfA, s \in RefsOfB}
            \cup {<<s, r>> : r \in RefsOfA, s \in RefsOfB}

Cases == [listed : {[n \in Names |-> IF n = a THEN v ELSE None] : v \in {x, None}},
          tree : {[n \in Names |-> IF n = a THEN v ELSE None] : v \in {y, None}},
          patched : {{}, {a}}, refs : RefLists]

(* prepare-sources with and without overlays and downloads, with and       *)
(* without --allow-no-hashes; render; build.                               *)
Modes == {m \in [apply : BOOLEAN, allow : BOOLEAN, skip : BOOLEAN] :
            ~m.apply => ~m.allow /\ ~m.skip}
Sites == {[upstream |-> TRUE, lookaside |-> TRUE, origins |-> TRUE, mock |-> TRUE],
          [upstream |-> TRUE, lookaside |-> TRUE, origins |-> FALSE, mock |-> TRUE],
          [upstream |-> FALSE, lookaside |-> FALSE, origins |-> TRUE, mock |-> FALSE],
          [upstream |-> FALSE, lookaside |-> TRUE, origins |-> TRUE, mock |-> TRUE]}

Join(c, m, s) == [upstream |-> s.upstream, lookaside |-> s.lookaside, origins |-> s.origins,
                  mock |-> s.mock, apply |-> m.apply, allow |-> m.allow, skip |-> m.skip,
                  listed |-> c.listed, tree |-> c.tree, patched |-> c.patched, refs |-> c.refs]

MCConfigs == {Join(c, m, s) : c \in Cases, m \in Modes, s \in Sites}
=============================================================================
