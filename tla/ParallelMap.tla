----------------------------- MODULE ParallelMap -----------------------------
(***************************************************************************)
(* What parmap.Map promises its callers, without its goroutines, its      *)
(* semaphore and its progress mutex: every submitted item is settled       *)
(* exactly once, by the value its worker returned or by the mark Cancelled *)
(* when the context ended before the worker was called, and no more than   *)
(* Slots workers run at a time.  Parmap implements this specification;     *)
(* ComponentUpdate and RenderPipeline use its actions for the phases that  *)
(* the code runs through parmap.Map.                                       *)
(***************************************************************************)
EXTENDS Naturals, FiniteSets

CONSTANTS Items,  \* the items a caller may submit
          Slots   \* the effective concurrency limit

VARIABLES status,   \* what has become of each item
          ctxDone   \* the caller's context has been cancelled

pmvars == <<status, ctxDone>>

Statuses == {"idle", "pending", "running", "value", "cancelled"}

PMTypeOK == /\ status \in [Items -> Statuses]
            /\ ctxDone \in BOOLEAN

Busy == {i \in Items : status[i] = "running"}

Settled == \A i \in Items : status[i] \in {"idle", "value", "cancelled"}

Batch(S) == [i \in Items |-> IF i \in S THEN "pending" ELSE "idle"]

PMInit == /\ status = Batch(Items)
          /\ ctxDone = FALSE

(***************************************************************************)
(* A worker is called.  A context that ended after the worker's own check  *)
(* does not stop the call, so Begin does not require ~ctxDone.             *)
(***************************************************************************)
Begin(i) == /\ status[i] = "pending"
            /\ Cardinality(Busy) < Slots
            /\ status' = [status EXCEPT ![i] = "running"]
            /\ UNCHANGED ctxDone

Settle(i) == /\ status[i] = "running"
             /\ status' = [status EXCEPT ![i] = "value"]
             /\ UNCHANGED ctxDone

Skip(i) == /\ status[i] = "pending"
           /\ ctxDone
           /\ status' = [status EXCEPT ![i] = "cancelled"]
           /\ UNCHANGED ctxDone

EndContext == /\ ~ctxDone
              /\ ctxDone' = TRUE
              /\ UNCHANGED status

PMNext == \/ EndContext
          \/ \E i \in Items : Begin(i) \/ Settle(i) \/ Skip(i)

PMSpec == PMInit /\ [][PMNext]_pmvars
=============================================================================
