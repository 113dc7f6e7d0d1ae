------------------------------ MODULE MCBuild ------------------------------
(***************************************************************************)
(* Build for TLC: component a builds two RPMs, one of which has a channel, *)
(* and b builds one.                                                       *)
(***************************************************************************)
EXTENDS Build

CONSTANTS a, b, a1, a2, b1

MCOwner == [r \in Rpms |-> IF r = b1 THEN b ELSE a]
MCChannel == [r \in Rpms |-> IF r = a1 THEN "base" ELSE None]
Opt(keepGoing, srpmOnly, publish, policy) ==
  [keepGoing |-> keepGoing, srpmOnly |-> srpmOnly, publish |-> publish, policy |-> policy]

(* Chains with every policy, one that stops at the first error, and builds *)
(* that publish nothing.                                                   *)
MCOptions == {Opt(TRUE, FALSE, TRUE, p) : p \in {"on-failure", "always", "never"}}
             \cup {Opt(FALSE, FALSE, TRUE, "on-failure"), Opt(FALSE, TRUE, FALSE, "on-failure")}
=============================================================================
