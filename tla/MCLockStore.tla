----------------------------- MODULE MCLockStore -----------------------------
(***************************************************************************)
(* LockStore for TLC.  The constants are model values.                     *)
(***************************************************************************)
EXTENDS LockStore, TLC

CONSTANTS a, b, p1, p2, p3, l1, l2

Symmetry == Permutations(Procs) \cup Permutations(Locks)
=============================================================================
