---------------------------- MODULE LockRegistry ----------------------------
(***************************************************************************)
(* What the lock directory promises its readers (render, build, changed),  *)
(* whatever azldev runs, fails or crashes: the locks change one at a time, *)
(* a refresh keeps the rebuild counter and does not trade one import       *)
(* commit for another, a rebuild changes nothing but the counter and the   *)
(* fingerprint, and an unreadable lock is never written over, so that it   *)
(* is the user who decides what is lost.                                   *)
(***************************************************************************)
EXTENDS Naturals

CONSTANTS Components, None

VARIABLE disk

Only(c) == \A d \in Components \ {c} : disk'[d] = disk[d]

RegInit == \A c \in Components : disk[c].file \in {"ok", "missing"}

(* The lock is created, or its commit and hashes are brought up to date.   *)
Refresh(c) == LET old == disk[c] new == disk'[c] IN
    /\ Only(c)
    /\ old.file # "corrupt" /\ new.file = "ok"
    /\ new.bump = old.bump
    /\ \/ new.import \in {None, old.import}
       \/ old.import = None /\ new.import = new.commit

(* A mass rebuild: a higher counter and the fingerprint that goes with it. *)
Rebuild(c) == LET old == disk[c] new == disk'[c] IN
    /\ Only(c)
    /\ old.file = "ok"
    /\ \A field \in {"file", "commit", "import", "res"} : new[field] = old[field]
    /\ new.bump = old.bump + 1 /\ new.fp # old.fp

(* Pruned, or deleted by the user. *)
Drop(c) == Only(c) /\ disk[c].file # "missing" /\ disk'[c].file = "missing"

(* A write that did not finish. *)
Damage(c) == Only(c) /\ disk[c].file # "corrupt" /\ disk'[c].file = "corrupt"

RegNext == \E c \in Components : Refresh(c) \/ Rebuild(c) \/ Drop(c) \/ Damage(c)

RegSpec == RegInit /\ [][RegNext]_disk
=============================================================================
