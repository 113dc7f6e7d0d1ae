------------------------------- MODULE Parmap -------------------------------
(***************************************************************************)
(* parmap.Map: a loop that launches one goroutine per item behind the      *)
(* semaphore of an errgroup, the goroutines, and the mutex that serializes *)
(* the progress callback.  Process 0 is the goroutine that called Map,     *)
(* process i the goroutine of item i.  The caller's context may end at any *)
(* moment.                                                                 *)
(***************************************************************************)
EXTENDS Integers, FiniteSets, Sequences

CONSTANTS N,      \* number of items; Map returns at once for an empty slice
          Limit   \* the limit argument, as the caller gave it

ASSUME NAssumption == N \in Nat \ {0}
ASSUME LimitAssumption == Limit \in Int

Items == 1 .. N
Caller == 0
Procs == 0 .. N
Free == N + 1   \* the mutex has no holder

\* A limit below 1 is treated as 1.
Slots == IF Limit < 1 THEN 1 ELSE Limit

VARIABLES
  pc,         \* where each process is
  next,       \* the launch loop's cursor, N + 1 when it is over
  ctxDone,    \* groupCtx.Err() # nil
  tokens,     \* tokens taken from the errgroup's semaphore
  value,      \* items whose worker stored a value
  cancelled,  \* items whose result is marked Cancelled
  mutex,      \* holder of progressMu
  completed,  \* the counter progressMu protects
  seen,       \* what onProgress was called with, in order
  late        \* observation: workers called after the context ended

vars == <<pc, next, ctxDone, tokens, value, cancelled, mutex, completed, seen, late>>

CallerStates == {"check", "acquire", "drain", "notify", "count", "report", "wait", "returned"}
WorkerStates == {"unlaunched", "launched", "entering", "running",
                 "notify", "count", "report", "release", "done"}

Goto(p, state) == pc' = [pc EXCEPT ![p] = state]

Init == /\ pc = [p \in Procs |-> IF p = Caller THEN "check" ELSE "unlaunched"]
        /\ next = 1
        /\ ctxDone = FALSE
        /\ tokens = 0
        /\ value = {}
        /\ cancelled = {}
        /\ mutex = Free
        /\ completed = 0
        /\ seen = <<>>
        /\ late = 0

\* The caller's context ends: Ctrl-C, or cancellation by an enclosing operation.
EndContext == /\ ~ctxDone
              /\ ctxDone' = TRUE
              /\ UNCHANGED <<pc, next, tokens, value, cancelled, mutex, completed, seen, late>>

-----------------------------------------------------------------------------
(* The launch loop *)

LoopCheck == /\ pc[Caller] = "check"
             /\ IF next > N THEN Goto(Caller, "wait")
                ELSE IF ctxDone THEN Goto(Caller, "drain")
                ELSE Goto(Caller, "acquire")
             /\ UNCHANGED <<next, ctxDone, tokens, value, cancelled, mutex, completed, seen, late>>

\* group.Go blocks for a token without looking at the context, then launches.
Launch == /\ pc[Caller] = "acquire"
          /\ tokens < Slots
          /\ tokens' = tokens + 1
          /\ pc' = [pc EXCEPT ![Caller] = "check", ![next] = "launched"]
          /\ next' = next + 1
          /\ UNCHANGED <<ctxDone, value, cancelled, mutex, completed, seen, late>>

\* The context is done: the rest is marked Cancelled and reported one by one.
Drain == /\ pc[Caller] = "drain"
         /\ next <= N
         /\ cancelled' = cancelled \cup {next}
         /\ Goto(Caller, "notify")
         /\ UNCHANGED <<next, ctxDone, tokens, value, mutex, completed, seen, late>>

DrainEnd == /\ pc[Caller] = "drain"
            /\ next > N
            /\ Goto(Caller, "wait")
            /\ UNCHANGED <<next, ctxDone, tokens, value, cancelled, mutex, completed, seen, late>>

\* group.Wait returns when every goroutine has given its token back.
Return == /\ pc[Caller] = "wait"
          /\ tokens = 0
          /\ Goto(Caller, "returned")
          /\ UNCHANGED <<next, ctxDone, tokens, value, cancelled, mutex, completed, seen, late>>

-----------------------------------------------------------------------------
(* The goroutine of item i *)

WorkerCheck(i) == /\ pc[i] = "launched"
                  /\ IF ctxDone
                     THEN cancelled' = cancelled \cup {i} /\ Goto(i, "notify")
                     ELSE UNCHANGED cancelled /\ Goto(i, "entering")
                  /\ UNCHANGED <<next, ctxDone, tokens, value, mutex, completed, seen, late>>

Enter(i) == /\ pc[i] = "entering"
            /\ Goto(i, "running")
            /\ late' = IF ctxDone THEN late + 1 ELSE late
            /\ UNCHANGED <<next, ctxDone, tokens, value, cancelled, mutex, completed, seen>>

\* Mutant: a worker that returns after the context ended is marked Cancelled.
FinishOrCancel(i) == /\ pc[i] = "running"
                     /\ IF ctxDone THEN cancelled' = cancelled \cup {i} /\ UNCHANGED value
                                   ELSE value' = value \cup {i} /\ UNCHANGED cancelled
                     /\ Goto(i, "notify")
                     /\ UNCHANGED <<next, ctxDone, tokens, mutex, completed, seen, late>>

Finish(i) == /\ pc[i] = "running"
             /\ value' = value \cup {i}
             /\ Goto(i, "notify")
             /\ UNCHANGED <<next, ctxDone, tokens, cancelled, mutex, completed, seen, late>>

\* Mutant: the slot is not given back when the item was cancelled.
ReleaseLeak(i) == /\ pc[i] = "release"
                  /\ tokens' = IF i \in cancelled THEN tokens ELSE tokens - 1
                  /\ Goto(i, "done")
                  /\ UNCHANGED <<next, ctxDone, value, cancelled, mutex, completed, seen, late>>

Release(i) == /\ pc[i] = "release"
              /\ tokens' = tokens - 1
              /\ Goto(i, "done")
              /\ UNCHANGED <<next, ctxDone, value, cancelled, mutex, completed, seen, late>>

-----------------------------------------------------------------------------
(* notifyProgress, run by the caller while it drains and by every worker *)

\* Mutant: the counter and the callback are not serialized.
LockFree(p) == /\ pc[p] = "notify"
               /\ mutex' = p
               /\ Goto(p, "count")
               /\ UNCHANGED <<next, ctxDone, tokens, value, cancelled, completed, seen, late>>

Lock(p) == /\ pc[p] = "notify"
           /\ mutex = Free
           /\ mutex' = p
           /\ Goto(p, "count")
           /\ UNCHANGED <<next, ctxDone, tokens, value, cancelled, completed, seen, late>>

Count(p) == /\ pc[p] = "count"
            /\ completed' = completed + 1
            /\ Goto(p, "report")
            /\ UNCHANGED <<next, ctxDone, tokens, value, cancelled, mutex, seen, late>>

Report(p) == /\ pc[p] = "report"
             /\ seen' = Append(seen, completed)
             /\ mutex' = Free
             /\ IF p = Caller THEN Goto(p, "drain") /\ next' = next + 1
                              ELSE Goto(p, "release") /\ UNCHANGED next
             /\ UNCHANGED <<ctxDone, tokens, value, cancelled, completed, late>>

-----------------------------------------------------------------------------
Step(p) == \/ Lock(p) \/ Count(p) \/ Report(p)
           \/ /\ p = Caller
              /\ LoopCheck \/ Launch \/ Drain \/ DrainEnd \/ Return
           \/ /\ p \in Items
              /\ WorkerCheck(p) \/ Enter(p) \/ Finish(p) \/ Release(p)

\* Map has returned: its goroutines are gone and nothing more happens.
Over == pc[Caller] = "returned" /\ UNCHANGED vars

Next == EndContext \/ (\E p \in Procs : Step(p)) \/ Over

Spec == Init /\ [][Next]_vars

(***************************************************************************)
(* The Go scheduler runs every runnable goroutine, a worker is assumed to  *)
(* return, and a mutex wanted by finitely many goroutines is granted.      *)
(* Nothing makes the context end.                                          *)
(***************************************************************************)
FairSpec == Spec /\ \A p \in Procs : WF_vars(Step(p))

-----------------------------------------------------------------------------
(* Properties *)

\* The goroutines that hold a token: launched and not yet past their last step.
Live == {i \in Items : pc[i] \notin {"unlaunched", "done"}}

\* Every variable has its type.
TypeOK == /\ pc \in [Procs -> CallerStates \cup WorkerStates]
          /\ pc[Caller] \in CallerStates
          /\ \A i \in Items : pc[i] \in WorkerStates
          /\ next \in 1 .. N + 1
          /\ ctxDone \in BOOLEAN
          /\ tokens \in Nat
          /\ value \in SUBSET Items
          /\ cancelled \in SUBSET Items
          /\ mutex \in 0 .. N + 1
          /\ completed \in Nat
          /\ seen \in Seq(Nat)
          /\ late \in Nat

\* "Peak goroutine count is bounded by limit regardless of items length"
\* (parmap.go:57-59), whatever the moment at which the context ends.
PoolBounded == Cardinality(Live) <= Slots

\* onProgress sees 1, 2, 3, ...: serialized and monotonic although every
\* worker and the draining loop call it (parmap.go:43-48), and it has been
\* called once per item when Map returns.
ProgressInOrder == /\ \A k \in 1 .. Len(seen) : seen[k] = k
                   /\ pc[Caller] = "returned" => Len(seen) = N

\* When Map returns every item has one outcome, a value or the Cancelled mark
\* and not both, and only a done context marks an item (parmap.go:49-52).
OneOutcome == /\ value \cap cancelled = {}
              /\ pc[Caller] = "returned" => value \cup cancelled = Items
              /\ cancelled # {} => ctxDone

\* Once the context is done the workers still called are those that had
\* already passed their own check: no more than the pool's size, although
\* group.Go may hand a slot to an item queued before (parmap.go:101-108).
FewLateCalls == late <= Slots

\* Map returns, with all its goroutines finished (parmap.go:145-147).
MapReturns == <>(pc[Caller] = "returned")

(***************************************************************************)
(* The implementation of the abstract map.                                 *)
(***************************************************************************)
Outcome(i) == IF i \in cancelled THEN "cancelled"
              ELSE IF i \in value THEN "value"
              ELSE IF pc[i] = "running" THEN "running"
              ELSE "pending"

AbstractStatus == [i \in Items |-> Outcome(i)]

Abstract == INSTANCE ParallelMap WITH status <- AbstractStatus

\* Every step of the goroutines is a step of the abstract map or invisible to
\* its caller: an item once settled stays so (parmap.go:22-31).
ImplementsMap == Abstract!PMSpec
=============================================================================
