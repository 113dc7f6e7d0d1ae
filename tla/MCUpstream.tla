----------------------------- MODULE MCUpstream -----------------------------
(***************************************************************************)
(* Where a component's upstream commit comes from and what is made of it,  *)
(* for TLC: either a project without lock files refreshes its pins (Pins,  *)
(* mode Absent), or one component is committed over and over in one of the   *)
(* two modes of the project (History).                                     *)
(***************************************************************************)
EXTENDS History, Pins, TLC

Refreshing == mode = Absent

MCInit == \/ /\ Init
             /\ default = "none" /\ refresh = Idle /\ nenv = 0
             /\ kind = [c \in Components |-> "local"]
             /\ tip = [c \in Components |-> CHOOSE t \in Tips : TRUE]
             /\ pins = [c \in Components |-> NoPin]
          \/ PinsInit /\ Refreshing /\ tree = NoTree /\ log = <<>> /\ nwork = 0

MCNext == \/ ~Refreshing /\ Next /\ UNCHANGED pinVars
          \/ Refreshing /\ PinsNext /\ UNCHANGED vars

MCSpec == MCInit /\ [][MCNext]_<<vars, pinVars>>

(* Neither the build inputs nor the components have an order.              *)
Alike == Permutations(Cfgs) \cup Permutations(Components)
=============================================================================
