------------------------------- MODULE Picks -------------------------------
(***************************************************************************)
(* Elements of a sequence by their places.  The functions of SequencesExt  *)
(* for this, SelectSeq with a test and SetToSortSeq, are not used: a       *)
(* recursive function is what the proofs can unfold.                       *)
(***************************************************************************)
EXTENDS Naturals, Sequences

(* What is picked of the first i elements of s.                            *)
Picked(s, S) ==
  LET f[i \in 0 .. Len(s)] == IF i = 0 THEN <<>>
                              ELSE IF i \in S THEN Append(f[i - 1], s[i]) ELSE f[i - 1]
  IN f

(* The elements of s at the places S, in the order of s.                   *)
Pick(s, S) == Picked(s, S)[Len(s)]
=============================================================================
