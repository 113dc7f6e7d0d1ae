------------------------------ MODULE MCParmap ------------------------------
(***************************************************************************)
(* Parmap for TLC: four items behind two slots, so that an item waits for  *)
(* a slot while two others run and one more waits behind it; and, in the   *)
(* second configuration, the limit 0 that Map must treat as 1.             *)
(***************************************************************************)
EXTENDS Parmap
=============================================================================
