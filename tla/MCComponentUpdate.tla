-------------------------- MODULE MCComponentUpdate --------------------------
(***************************************************************************)
(* ComponentUpdate for TLC, in two scenarios.  Either c1 is alone in the   *)
(* project, and between its runs everything about it moves; or c1 and c2   *)
(* share it, and only the runs and what happens to them move.              *)
(***************************************************************************)
EXTENDS ComponentUpdate

CONSTANTS c1, c2, snap1, pin, head, i1, i2, b1, bad

Alone == /\ c2 \notin present /\ disk[c2] = Blank("missing")
         /\ cfg[c2] = [type |-> "local", res |-> None, build |-> b1]

(* The identities are alike, so upstream starts at i1.                     *)
MCInit == Init /\ /\ Alone \/ \A c \in Components : cfg[c].res \in {snap1, None}
                  /\ tip = [c \in Components |-> [s \in Sources |-> i1]]

(* Bound: the environment moves around c1 alone.                           *)
MCNext == Next /\ (envs' # envs => Alone /\ Alone' /\ tip'[c2] = tip[c2])

MCSpec == MCInit /\ [][MCNext]_vars
=============================================================================
