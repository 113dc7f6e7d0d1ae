---------------------------- MODULE ParmapProofs ----------------------------
(***************************************************************************)
(* Proofs about Parmap, for every number of items and every limit.         *)
(***************************************************************************)
EXTENDS Parmap, FiniteSetTheorems, TLAPS

Draining == {"drain", "notify", "count", "report"}
After    == {"notify", "count", "report", "release", "done"}

\* Where the launch loop is decides what has been launched.
LoopInv == /\ \A i \in Items : i >= next => pc[i] = "unlaunched"
           /\ \A i \in Items : i < next /\ pc[i] = "unlaunched" => i \in cancelled
           /\ pc[Caller] \in {"acquire", "notify", "count", "report"} => next <= N
           /\ pc[Caller] \in {"wait", "returned"} => next = N + 1
           /\ pc[Caller] \in Draining => ctxDone

\* An outcome is stored exactly when the process passes to its notification.
OutcomeInv == /\ value \cap cancelled = {}
              /\ \A i \in Items : pc[i] \in After <=> i \in value \/ (i \in cancelled /\ pc[i] # "unlaunched")
              /\ \A i \in Items : i \in cancelled /\ pc[i] = "unlaunched" =>
                    i < next \/ (i = next /\ pc[Caller] \in {"notify", "count", "report"})
              /\ pc[Caller] \in {"notify", "count", "report"} => next \in cancelled
              /\ cancelled # {} => ctxDone

\* Tokens are held by the live goroutines, one each.
TokenInv == /\ tokens = Cardinality(Live)
            /\ tokens <= Slots
            /\ pc[Caller] = "returned" => tokens = 0

\* Items whose progress has been reported.
Reported == {i \in Items : pc[i] \in {"release", "done"} \/ (pc[i] = "unlaunched" /\ i < next)}

\* The mutex's holder is the one process between Lock and Report.
MutexInv == /\ \A p \in Procs : pc[p] \in {"count", "report"} <=> mutex = p
            /\ completed = IF \E p \in Procs : pc[p] = "report" THEN Len(seen) + 1 ELSE Len(seen)
            /\ \A k \in 1 .. Len(seen) : seen[k] = k
            /\ Len(seen) = Cardinality(Reported)

Entering == {i \in Items : pc[i] = "entering"}

LateInv == IF ctxDone THEN late + Cardinality(Entering) <= Slots ELSE late = 0

IInv == TypeOK /\ LoopInv /\ OutcomeInv /\ TokenInv /\ MutexInv /\ LateInv

-----------------------------------------------------------------------------
(* Cardinalities of sets of items *)

\* Every set of items is finite.
LEMMA FiniteItems == \A S \in SUBSET Items : IsFiniteSet(S) /\ Cardinality(S) \in Nat
<1>1. IsFiniteSet(Items)
  <2>1. 1 \in Int /\ N \in Int
    BY NAssumption
  <2> QED BY <2>1, FS_Interval DEF Items
<1>2. \A S \in SUBSET Items : IsFiniteSet(S)
  BY <1>1, FS_Subset
<1> QED BY <1>2, FS_CardinalityType

\* A new member adds one.
LEMMA AddItem == \A S \in SUBSET Items : \A i \in Items \ S : Cardinality(S \cup {i}) = Cardinality(S) + 1
BY FiniteItems, FS_AddElement

\* A member that leaves takes one; a set with a member is not empty.
LEMMA RemoveItem == \A S \in SUBSET Items : \A i \in S :
                       Cardinality(S) > 0 /\ Cardinality(S \ {i}) = Cardinality(S) - 1
<1> TAKE S \in SUBSET Items
<1> TAKE i \in S
<1>1. i \in Items /\ IsFiniteSet(S) /\ Cardinality(S) \in Nat
  BY FiniteItems
<1>2. Cardinality(S \ {i}) = Cardinality(S) - 1
  BY <1>1, FS_RemoveElement
<1>3. Cardinality(S \ {i}) \in Nat
  BY FiniteItems
<1> QED BY <1>1, <1>2, <1>3

\* A larger set of items has no smaller cardinality.
LEMMA SubsetItems == \A S \in SUBSET Items : \A T \in SUBSET S : Cardinality(T) <= Cardinality(S)
BY FiniteItems, FS_Subset

\* The effective limit is positive, whatever the caller passes.
LEMMA SlotsPositive == Slots \in Nat \ {0}
BY LimitAssumption DEF Slots

-----------------------------------------------------------------------------
\* The caller and the items are distinct processes; every process is one of them.
LEMMA ProcSplit == /\ Procs = {Caller} \cup Items
                   /\ Caller \notin Items
                   /\ Free \notin Procs
BY NAssumption DEF Procs, Caller, Items, Free

\* A step of any process is one of the named actions.
LEMMA NextSplit ==
  ASSUME [Next]_vars
  PROVE  \/ EndContext \/ LoopCheck \/ Launch \/ Drain \/ DrainEnd \/ Return
         \/ \E i \in Items : WorkerCheck(i) \/ Enter(i) \/ Finish(i) \/ Release(i)
         \/ \E p \in Procs : Lock(p) \/ Count(p) \/ Report(p)
         \/ UNCHANGED vars
BY DEF Next, Step, Over

\* What Launch does to the program counters.
LEMMA LaunchEffect ==
  ASSUME TypeOK, LoopInv, Launch
  PROVE  /\ next \in Items
         /\ pc[next] = "unlaunched"
         /\ next' = next + 1
         /\ \A p \in Procs : pc'[p] = IF p = Caller THEN "check"
                                    ELSE IF p = next THEN "launched" ELSE pc[p]
<1>1. next \in Items /\ next # Caller
  BY DEF Launch, LoopInv, TypeOK, Items, Caller
<1>2. pc[next] = "unlaunched"
  BY <1>1 DEF LoopInv, Items
<1> QED BY <1>1, <1>2, ProcSplit DEF Launch, TypeOK

\* What Report does for the caller and for a worker.
LEMMA ReportEffect ==
  ASSUME TypeOK, NEW p \in Procs, Report(p)
  PROVE  /\ \A q \in Procs \ {p} : pc'[q] = pc[q]
         /\ p = Caller => pc'[p] = "drain" /\ next' = next + 1
         /\ p # Caller => pc'[p] = "release" /\ next' = next
BY DEF Report, Goto, TypeOK

-----------------------------------------------------------------------------
\* The initial state satisfies the invariant.
LEMMA InitInv == Init => IInv
<1> SUFFICES ASSUME Init PROVE IInv
  OBVIOUS
<1> USE NAssumption DEF Init
<1>1. TypeOK
  BY ProcSplit DEF TypeOK, CallerStates, WorkerStates, Items, Free, Procs, Caller
<1>2. LoopInv
  BY ProcSplit DEF LoopInv, Items, Draining, Procs, Caller
<1>3. OutcomeInv
  BY ProcSplit DEF OutcomeInv, After, Items, Procs, Caller
<1>4. TokenInv
  <2>1. Live = {}
    BY ProcSplit DEF Live, Procs, Items, Caller
  <2> QED BY <2>1, FS_EmptySet, SlotsPositive, ProcSplit DEF TokenInv, Procs, Caller
<1>5. MutexInv
  <2>1. Reported = {}
    BY ProcSplit DEF Reported, Procs, Items, Caller
  <2>2. Cardinality(Reported) = 0
    BY <2>1, FS_EmptySet
  <2> QED BY <2>2, ProcSplit DEF MutexInv, Procs, Free, Caller
<1>6. LateInv
  BY DEF LateInv
<1> QED BY <1>1, <1>2, <1>3, <1>4, <1>5, <1>6 DEF IInv

\* Types are preserved.
LEMMA TypeStep ==
  ASSUME TypeOK, LoopInv, TokenInv, [Next]_vars
  PROVE  TypeOK'
<1> USE NAssumption, ProcSplit DEF TypeOK, CallerStates, WorkerStates, Goto
<1>1. CASE EndContext BY <1>1 DEF EndContext
<1>2. CASE LoopCheck BY <1>2 DEF LoopCheck
<1>3. CASE Launch
  <2>1. next \in Items /\ next + 1 \in 1 .. N + 1 BY <1>3 DEF Launch, LoopInv, Items
  <2> QED BY <1>3, <2>1 DEF Launch
<1>4. CASE Drain
  <2>1. next \in Items BY <1>4 DEF Drain, Items
  <2> QED BY <1>4, <2>1 DEF Drain
<1>5. CASE DrainEnd BY <1>5 DEF DrainEnd
<1>6. CASE Return BY <1>6 DEF Return
<1>7. ASSUME NEW i \in Items, WorkerCheck(i) PROVE TypeOK' BY <1>7 DEF WorkerCheck
<1>8. ASSUME NEW i \in Items, Enter(i) PROVE TypeOK' BY <1>8 DEF Enter
<1>9. ASSUME NEW i \in Items, Finish(i) PROVE TypeOK' BY <1>9 DEF Finish
<1>10. ASSUME NEW i \in Items, Release(i) PROVE TypeOK'
  <2>1. i \in Live BY <1>10 DEF Release, Live
  <2>2. Live \in SUBSET Items BY DEF Live
  <2>3. tokens > 0 /\ tokens \in Nat BY <2>1, <2>2, RemoveItem DEF TokenInv
  <2>4. tokens - 1 \in Nat BY <2>3
  <2> QED BY <1>10, <2>4 DEF Release
<1>11. ASSUME NEW p \in Procs, Lock(p) PROVE TypeOK' BY <1>11 DEF Lock, Procs
<1>12. ASSUME NEW p \in Procs, Count(p) PROVE TypeOK' BY <1>12 DEF Count
<1>13. ASSUME NEW p \in Procs, Report(p) PROVE TypeOK'
  <2>1. seen' \in Seq(Nat) BY <1>13 DEF Report
  <2>2. mutex' \in 0 .. N + 1 BY <1>13 DEF Report, Free
  <2>3. next' \in 1 .. N + 1
    BY <1>13 DEF Report, LoopInv, Items
  <2> QED BY <1>13, <2>1, <2>2, <2>3 DEF Report
<1>14. CASE UNCHANGED vars BY <1>14 DEF vars
<1> QED BY <1>1, <1>2, <1>3, <1>4, <1>5, <1>6, <1>7, <1>8, <1>9, <1>10, <1>11, <1>12, <1>13, <1>14, NextSplit

\* The launch loop's bookkeeping is preserved.
LEMMA LoopStep ==
  ASSUME TypeOK, LoopInv, OutcomeInv, [Next]_vars
  PROVE  LoopInv'
<1> USE NAssumption, ProcSplit DEF TypeOK, LoopInv, Goto, Draining, Items
<1>1. CASE EndContext BY <1>1 DEF EndContext
<1>2. CASE LoopCheck BY <1>2 DEF LoopCheck
<1>3. CASE Launch
  <2>1. UNCHANGED <<ctxDone, cancelled>> BY <1>3 DEF Launch
  <2>2. pc'[Caller] = "check" /\ next' = next + 1 BY <1>3, LaunchEffect
  <2>3. \A i \in Items : pc'[i] = IF i = next THEN "launched" ELSE pc[i] BY <1>3, LaunchEffect
  <2> QED BY <2>1, <2>2, <2>3
<1>4. CASE Drain BY <1>4 DEF Drain
<1>5. CASE DrainEnd BY <1>5 DEF DrainEnd
<1>6. CASE Return BY <1>6 DEF Return
<1>7. ASSUME NEW i \in Items, WorkerCheck(i) PROVE LoopInv' BY <1>7 DEF WorkerCheck
<1>8. ASSUME NEW i \in Items, Enter(i) PROVE LoopInv' BY <1>8 DEF Enter
<1>9. ASSUME NEW i \in Items, Finish(i) PROVE LoopInv' BY <1>9 DEF Finish
<1>10. ASSUME NEW i \in Items, Release(i) PROVE LoopInv' BY <1>10 DEF Release
<1>11. ASSUME NEW p \in Procs, Lock(p) PROVE LoopInv' BY <1>11 DEF Lock
<1>12. ASSUME NEW p \in Procs, Count(p) PROVE LoopInv' BY <1>12 DEF Count
<1>13. ASSUME NEW p \in Procs, Report(p) PROVE LoopInv'
  <2>1. UNCHANGED <<ctxDone, cancelled>> BY <1>13 DEF Report
  <2>2. CASE p = Caller
    <3>1. pc[Caller] = "report" /\ pc'[Caller] = "drain" /\ next' = next + 1
      BY <1>13, <2>2, ReportEffect DEF Report
    <3>2. \A i \in Items : pc'[i] = pc[i] BY <1>13, <2>2, ReportEffect
    <3>3. next \in cancelled BY <3>1 DEF OutcomeInv
    <3> QED BY <2>1, <3>1, <3>2, <3>3
  <2>3. CASE p # Caller
    <3>1. pc'[Caller] = pc[Caller] /\ next' = next BY <1>13, <2>3, ReportEffect
    <3>2. pc[p] = "report" /\ pc'[p] = "release" /\ p \in Items BY <1>13, <2>3, ReportEffect DEF Report
    <3>3. \A i \in Items : i # p => pc'[i] = pc[i] BY <1>13, ReportEffect
    <3> QED BY <2>1, <3>1, <3>2, <3>3
  <2> QED BY <2>2, <2>3
<1>14. CASE UNCHANGED vars BY <1>14 DEF vars
<1> QED BY <1>1, <1>2, <1>3, <1>4, <1>5, <1>6, <1>7, <1>8, <1>9, <1>10, <1>11, <1>12, <1>13, <1>14, NextSplit

\* Outcomes are stored once and stay.
LEMMA OutcomeStep ==
  ASSUME TypeOK, LoopInv, OutcomeInv, [Next]_vars
  PROVE  OutcomeInv'
<1> USE NAssumption, ProcSplit DEF TypeOK, OutcomeInv, Goto, After, Items
<1>1. CASE EndContext BY <1>1 DEF EndContext
<1>2. CASE LoopCheck BY <1>2 DEF LoopCheck
<1>3. CASE Launch
  <2>1. UNCHANGED <<ctxDone, cancelled, value>> BY <1>3 DEF Launch
  <2>2. pc'[Caller] = "check" /\ next' = next + 1 BY <1>3, LaunchEffect
  <2>3. \A i \in Items : pc'[i] = IF i = next THEN "launched" ELSE pc[i] BY <1>3, LaunchEffect
  <2>4. pc[Caller] = "acquire" /\ next \in Items /\ pc[next] = "unlaunched" BY <1>3, LaunchEffect DEF Launch
  <2> QED BY <2>1, <2>2, <2>3, <2>4
<1>4. CASE Drain BY SMTT(30), <1>4 DEF Drain, LoopInv, Draining
<1>5. CASE DrainEnd BY <1>5 DEF DrainEnd
<1>6. CASE Return BY <1>6 DEF Return
<1>7. ASSUME NEW i \in Items, WorkerCheck(i) PROVE OutcomeInv' BY ZenonT(40), <1>7 DEF WorkerCheck, LoopInv
<1>8. ASSUME NEW i \in Items, Enter(i) PROVE OutcomeInv' BY <1>8 DEF Enter
<1>9. ASSUME NEW i \in Items, Finish(i) PROVE OutcomeInv' BY <1>9 DEF Finish
<1>10. ASSUME NEW i \in Items, Release(i) PROVE OutcomeInv' BY <1>10 DEF Release
<1>11. ASSUME NEW p \in Procs, Lock(p) PROVE OutcomeInv' BY <1>11 DEF Lock
<1>12. ASSUME NEW p \in Procs, Count(p) PROVE OutcomeInv' BY <1>12 DEF Count
<1>13. ASSUME NEW p \in Procs, Report(p) PROVE OutcomeInv'
  <2>1. UNCHANGED <<ctxDone, cancelled, value>> BY <1>13 DEF Report
  <2>2. CASE p = Caller
    <3>1. pc[Caller] = "report" /\ pc'[Caller] = "drain" /\ next' = next + 1
      BY <1>13, <2>2, ReportEffect DEF Report
    <3>2. \A i \in Items : pc'[i] = pc[i] BY <1>13, <2>2, ReportEffect
    <3> QED BY <2>1, <3>1, <3>2
  <2>3. CASE p # Caller
    <3>1. pc'[Caller] = pc[Caller] /\ next' = next BY <1>13, <2>3, ReportEffect
    <3>2. pc[p] = "report" /\ pc'[p] = "release" /\ p \in Items BY <1>13, <2>3, ReportEffect DEF Report
    <3>3. \A i \in Items : i # p => pc'[i] = pc[i] BY <1>13, ReportEffect
    <3> QED BY <2>1, <3>1, <3>2, <3>3
  <2> QED BY <2>2, <2>3
<1>14. CASE UNCHANGED vars BY <1>14 DEF vars
<1> QED BY <1>1, <1>2, <1>3, <1>4, <1>5, <1>6, <1>7, <1>8, <1>9, <1>10, <1>11, <1>12, <1>13, <1>14, NextSplit

\* A set of live goroutines that does not change keeps its token count.
LEMMA SameLive ==
  ASSUME TokenInv, Live' = Live, tokens' = tokens, pc'[Caller] = "returned" => pc[Caller] = "returned"
  PROVE  TokenInv'
BY DEF TokenInv, Slots

\* Tokens keep counting the live goroutines.
LEMMA TokenStep ==
  ASSUME TypeOK, LoopInv, TokenInv, [Next]_vars
  PROVE  TokenInv'
<1> USE ProcSplit DEF TypeOK, Goto, Live
<1>a. Live \in SUBSET Items
  OBVIOUS
<1>1. CASE EndContext BY <1>1, SameLive DEF EndContext
<1>2. CASE LoopCheck BY <1>2, SameLive DEF LoopCheck
<1>3. CASE Launch
  <2>1. Live' = Live \cup {next} BY <1>3, LaunchEffect
  <2>2. next \in Items \ Live BY <1>3, LaunchEffect
  <2>3. Cardinality(Live') = Cardinality(Live) + 1 BY <2>1, <2>2, <1>a, AddItem
  <2>4. tokens' = tokens + 1 /\ tokens < Slots BY <1>3 DEF Launch
  <2>5. pc'[Caller] = "check" BY <1>3, LaunchEffect
  <2>6. tokens' <= Slots BY <2>4, SlotsPositive
  <2> QED BY <2>3, <2>4, <2>5, <2>6 DEF TokenInv, Slots
<1>4. CASE Drain BY <1>4, SameLive DEF Drain
<1>5. CASE DrainEnd BY <1>5, SameLive DEF DrainEnd
<1>6. CASE Return
  <2>1. Live' = Live /\ tokens' = tokens /\ tokens = 0 BY <1>6 DEF Return
  <2> QED BY <2>1 DEF TokenInv, Slots
<1>7. ASSUME NEW i \in Items, WorkerCheck(i) PROVE TokenInv' BY <1>7, SameLive DEF WorkerCheck
<1>8. ASSUME NEW i \in Items, Enter(i) PROVE TokenInv' BY <1>8, SameLive DEF Enter
<1>9. ASSUME NEW i \in Items, Finish(i) PROVE TokenInv' BY <1>9, SameLive DEF Finish
<1>10. ASSUME NEW i \in Items, Release(i) PROVE TokenInv'
  <2>1. Live' = Live \ {i} /\ i \in Live BY <1>10 DEF Release
  <2>2. tokens > 0 /\ Cardinality(Live') = Cardinality(Live) - 1 BY <2>1, <1>a, RemoveItem DEF TokenInv
  <2>3. tokens' = tokens - 1 /\ pc'[Caller] = pc[Caller] BY <1>10 DEF Release
  <2>4. pc[Caller] # "returned" BY <2>2 DEF TokenInv
  <2>5. tokens' <= Slots BY <2>3, SlotsPositive DEF TokenInv
  <2> QED BY <2>2, <2>3, <2>4, <2>5 DEF TokenInv, Slots
<1>11. ASSUME NEW p \in Procs, Lock(p) PROVE TokenInv' BY <1>11, SameLive DEF Lock
<1>12. ASSUME NEW p \in Procs, Count(p) PROVE TokenInv' BY <1>12, SameLive DEF Count
<1>13. ASSUME NEW p \in Procs, Report(p) PROVE TokenInv' BY <1>13, SameLive DEF Report
<1>14. CASE UNCHANGED vars BY <1>14, SameLive DEF vars
<1> QED BY <1>1, <1>2, <1>3, <1>4, <1>5, <1>6, <1>7, <1>8, <1>9, <1>10, <1>11, <1>12, <1>13, <1>14, NextSplit

\* A step that leaves the mutex, the counter and the states it protects alone.
LEMMA SameProgress ==
  ASSUME MutexInv, UNCHANGED <<mutex, completed, seen>>, Reported' = Reported,
         \A p \in Procs : /\ pc'[p] = "count" <=> pc[p] = "count"
                          /\ pc'[p] = "report" <=> pc[p] = "report"
  PROVE  MutexInv'
BY DEF MutexInv

\* The mutex serializes the callback.
LEMMA MutexStep ==
  ASSUME TypeOK, LoopInv, OutcomeInv, MutexInv, [Next]_vars
  PROVE  MutexInv'
<1> USE NAssumption, ProcSplit DEF TypeOK, Goto
<1>a. Reported \in SUBSET Items BY DEF Reported
<1>1. CASE EndContext BY <1>1, SameProgress DEF EndContext, Reported
<1>2. CASE LoopCheck BY <1>2, SameProgress DEF LoopCheck, Reported
<1>3. CASE Launch
  <2>1. UNCHANGED <<mutex, completed, seen>> BY <1>3 DEF Launch
  <2>2. pc[Caller] = "acquire" /\ next \in Items /\ pc[next] = "unlaunched" /\ next' = next + 1
    BY <1>3, LaunchEffect DEF Launch
  <2>3. \A p \in Procs : pc'[p] = IF p = Caller THEN "check" ELSE IF p = next THEN "launched" ELSE pc[p]
    BY <1>3, LaunchEffect
  <2>4. \A i \in Items : i < next + 1 <=> (i < next \/ i = next) BY DEF Items
  <2>5. \A i \in Items : i # next => (i < next' <=> i < next) /\ pc'[i] = pc[i] BY <2>2, <2>3, <2>4
  <2>6. pc'[next] = "launched" /\ ~(next < next) BY <2>2, <2>3
  <2>7. Reported' = Reported BY <2>2, <2>5, <2>6 DEF Reported
  <2> QED BY <2>1, <2>2, <2>3, <2>7, SameProgress
<1>4. CASE Drain BY <1>4, SameProgress DEF Drain, Reported
<1>5. CASE DrainEnd BY <1>5, SameProgress DEF DrainEnd, Reported
<1>6. CASE Return BY <1>6, SameProgress DEF Return, Reported
<1>7. ASSUME NEW i \in Items, WorkerCheck(i) PROVE MutexInv' BY <1>7, SameProgress DEF WorkerCheck, Reported
<1>8. ASSUME NEW i \in Items, Enter(i) PROVE MutexInv' BY <1>8, SameProgress DEF Enter, Reported
<1>9. ASSUME NEW i \in Items, Finish(i) PROVE MutexInv' BY <1>9, SameProgress DEF Finish, Reported
<1>10. ASSUME NEW i \in Items, Release(i) PROVE MutexInv' BY <1>10, SameProgress DEF Release, Reported
<1>11. ASSUME NEW p \in Procs, Lock(p) PROVE MutexInv'
  <2>1. Reported' = Reported /\ seen' = seen /\ completed' = completed BY <1>11 DEF Lock, Reported
  <2>2. \A q \in Procs : pc[q] \notin {"count", "report"} BY <1>11 DEF Lock, MutexInv
  <2>3. mutex' = p /\ pc'[p] = "count" /\ \A q \in Procs \ {p} : pc'[q] = pc[q] BY <1>11 DEF Lock
  <2>4. ~(\E q \in Procs : pc'[q] = "report") BY <2>2, <2>3
  <2> QED BY <2>1, <2>2, <2>3, <2>4 DEF MutexInv
<1>12. ASSUME NEW p \in Procs, Count(p) PROVE MutexInv'
  <2>1. Reported' = Reported /\ seen' = seen /\ mutex' = mutex /\ completed' = completed + 1
    BY <1>12 DEF Count, Reported
  <2>2. mutex = p /\ pc[p] = "count" BY <1>12 DEF Count, MutexInv
  <2>3. pc'[p] = "report" /\ \A q \in Procs \ {p} : pc'[q] = pc[q] BY <1>12 DEF Count
  <2>4. ~(\E q \in Procs : pc[q] = "report") BY <2>2 DEF MutexInv
  <2>5. completed' = Len(seen) + 1 BY <2>1, <2>4 DEF MutexInv
  <2> QED BY <2>1, <2>2, <2>3, <2>5 DEF MutexInv
<1>13. ASSUME NEW p \in Procs, Report(p) PROVE MutexInv'
  <2>1. mutex = p /\ pc[p] = "report" BY <1>13 DEF Report, MutexInv
  <2>2. mutex' = Free /\ completed' = completed /\ seen' = Append(seen, completed) BY <1>13 DEF Report
  <2>3. completed = Len(seen) + 1 BY <2>1 DEF MutexInv
  <2>4. \A q \in Procs : pc'[q] \notin {"count", "report"}
    BY <1>13, <2>1, ReportEffect DEF MutexInv
  <2>5. Len(seen') = Len(seen) + 1 /\ \A k \in 1 .. Len(seen') : seen'[k] = k
    <3>1. Len(seen') = Len(seen) + 1 BY <2>2
    <3>2. \A k \in 1 .. Len(seen) : seen'[k] = seen[k] BY <2>2
    <3>3. seen'[Len(seen) + 1] = completed BY <2>2
    <3>4. \A k \in 1 .. Len(seen) : seen[k] = k BY DEF MutexInv
    <3> QED BY <3>1, <3>2, <3>3, <3>4, <2>3
  <2>6. Cardinality(Reported') = Cardinality(Reported) + 1
    <3>1. CASE p = Caller
      <4>1. next \in Items \ Reported /\ pc[next] = "unlaunched" BY <2>1, <3>1 DEF LoopInv, Reported, Items
      <4>2. next' = next + 1 /\ \A i \in Items : pc'[i] = pc[i] BY <1>13, <3>1, ReportEffect
      <4>3. \A i \in Items : i < next + 1 <=> (i < next \/ i = next) BY DEF Items
      <4>4. Reported' = Reported \cup {next} BY <4>1, <4>2, <4>3 DEF Reported
      <4> QED BY <4>1, <4>4, <1>a, AddItem
    <3>2. CASE p # Caller
      <4>1. p \in Items \ Reported BY <2>1, <3>2 DEF Reported
      <4>2. next' = next /\ pc'[p] = "release" /\ \A i \in Items \ {p} : pc'[i] = pc[i]
        BY <1>13, <3>2, ReportEffect
      <4>3. Reported' = Reported \cup {p} BY <4>1, <4>2 DEF Reported
      <4> QED BY <4>1, <4>3, <1>a, AddItem
    <3> QED BY <3>1, <3>2
  <2>7. Len(seen') = Cardinality(Reported') BY <2>5, <2>6 DEF MutexInv
  <2>8. mutex' \notin Procs BY <2>2
  <2>9. completed' = Len(seen') BY <2>2, <2>3, <2>5
  <2> QED BY <2>4, <2>5, <2>7, <2>8, <2>9 DEF MutexInv
<1>14. CASE UNCHANGED vars BY <1>14, SameProgress DEF vars, Reported
<1> QED BY <1>1, <1>2, <1>3, <1>4, <1>5, <1>6, <1>7, <1>8, <1>9, <1>10, <1>11, <1>12, <1>13, <1>14, NextSplit

\* Workers called after the context ended had passed their check before it did.
LEMMA LateStep ==
  ASSUME TypeOK, LoopInv, TokenInv, LateInv, [Next]_vars
  PROVE  LateInv'
<1> USE ProcSplit DEF TypeOK, Goto, Entering, LateInv
<1>a. Entering \in SUBSET Live /\ Live \in SUBSET Items
  BY DEF Live
<1>b. Cardinality(Entering) <= Slots /\ Cardinality(Entering) \in Nat /\ Slots \in Nat
  BY <1>a, SubsetItems, FiniteItems, SlotsPositive DEF TokenInv
<1>c. Slots' = Slots BY DEF Slots
<1>1. CASE EndContext
  <2>1. Entering' = Entering /\ ctxDone' = TRUE /\ late' = 0 BY <1>1 DEF EndContext
  <2>2. Cardinality(Entering') = Cardinality(Entering) BY <2>1
  <2> HIDE DEF Entering
  <2>3. late' + Cardinality(Entering') <= Slots' BY <2>1, <2>2, <1>b, <1>c
  <2> QED BY <2>1, <2>3
<1>2. CASE LoopCheck BY <1>2, <1>c DEF LoopCheck
<1>3. CASE Launch
  <2>1. Entering' = Entering BY <1>3, LaunchEffect
  <2> QED BY <1>3, <2>1, <1>c DEF Launch
<1>4. CASE Drain BY <1>4, <1>c DEF Drain
<1>5. CASE DrainEnd BY <1>5, <1>c DEF DrainEnd
<1>6. CASE Return BY <1>6, <1>c DEF Return
<1>7. ASSUME NEW i \in Items, WorkerCheck(i) PROVE LateInv'
  <2>1. CASE ctxDone
    <3>1. Entering' = Entering BY <1>7, <2>1 DEF WorkerCheck
    <3> QED BY <1>7, <2>1, <3>1, <1>c DEF WorkerCheck
  <2>2. CASE ~ctxDone BY <1>7, <2>2 DEF WorkerCheck
  <2> QED BY <2>1, <2>2
<1>8. ASSUME NEW i \in Items, Enter(i) PROVE LateInv'
  <2>1. Entering' = Entering \ {i} /\ i \in Entering BY <1>8 DEF Enter
  <2>2. Cardinality(Entering') = Cardinality(Entering) - 1 BY <2>1, <1>a, RemoveItem
  <2>3. ctxDone' = ctxDone /\ late' = IF ctxDone THEN late + 1 ELSE late BY <1>8 DEF Enter
  <2> QED BY <2>2, <2>3, <1>b, <1>c
<1>9. ASSUME NEW i \in Items, Finish(i) PROVE LateInv' BY <1>9, <1>c DEF Finish
<1>10. ASSUME NEW i \in Items, Release(i) PROVE LateInv' BY <1>10, <1>c DEF Release
<1>11. ASSUME NEW p \in Procs, Lock(p) PROVE LateInv' BY <1>11, <1>c DEF Lock
<1>12. ASSUME NEW p \in Procs, Count(p) PROVE LateInv' BY <1>12, <1>c DEF Count
<1>13. ASSUME NEW p \in Procs, Report(p) PROVE LateInv'
  <2>1. Entering' = Entering /\ UNCHANGED <<ctxDone, late>> BY <1>13 DEF Report
  <2> QED BY <2>1, <1>c
<1>14. CASE UNCHANGED vars BY <1>14, <1>c DEF vars
<1> QED BY <1>1, <1>2, <1>3, <1>4, <1>5, <1>6, <1>7, <1>8, <1>9, <1>10, <1>11, <1>12, <1>13, <1>14, NextSplit

-----------------------------------------------------------------------------
\* The inductive invariant holds in every reachable state of every instance.
THEOREM Invariance == Spec => []IInv
<1>1. IInv /\ [Next]_vars => IInv'
  BY TypeStep, LoopStep, OutcomeStep, TokenStep, MutexStep, LateStep DEF IInv
<1> QED BY <1>1, InitInv, PTL DEF Spec

\* Type correctness.
THEOREM TypeCorrect == Spec => []TypeOK
<1>1. IInv => TypeOK BY DEF IInv
<1> QED BY <1>1, Invariance, PTL

\* However many items there are, no more than Slots goroutines exist at a time.
THEOREM PoolIsBounded == Spec => []PoolBounded
<1>1. IInv => PoolBounded BY DEF IInv, TokenInv, PoolBounded
<1> QED BY <1>1, Invariance, PTL

\* onProgress sees 1, 2, 3, ... and has seen N when Map returns.
THEOREM ProgressIsInOrder == Spec => []ProgressInOrder
<1>1. IInv => ProgressInOrder
  <2> SUFFICES ASSUME IInv PROVE ProgressInOrder
    OBVIOUS
  <2>1. \A k \in 1 .. Len(seen) : seen[k] = k BY DEF IInv, MutexInv
  <2>2. ASSUME pc[Caller] = "returned" PROVE Len(seen) = N
    <3>1. Cardinality(Live) = 0 /\ next = N + 1 BY <2>2 DEF IInv, TokenInv, LoopInv
    <3>2. Live \in SUBSET Items BY DEF Live
    <3>3. Live = {} BY <3>1, <3>2, FiniteItems, FS_EmptySet
    <3>4. Reported = Items BY <3>1, <3>3, NAssumption DEF Reported, Live, Items
    <3>5. 1 \in Int /\ N \in Int /\ N >= 1 BY NAssumption
    <3>6. Cardinality(Items) = IF 1 > N THEN 0 ELSE N - 1 + 1 BY <3>5, FS_Interval DEF Items
    <3> QED BY <3>4, <3>5, <3>6 DEF IInv, MutexInv
  <2> QED BY <2>1, <2>2 DEF ProgressInOrder
<1> QED BY <1>1, Invariance, PTL

\* Every item has exactly one outcome when Map returns.
THEOREM EveryItemHasOneOutcome == Spec => []OneOutcome
<1>1. IInv => OneOutcome
  <2> SUFFICES ASSUME IInv PROVE OneOutcome
    OBVIOUS
  <2>1. value \cap cancelled = {} /\ (cancelled # {} => ctxDone) BY DEF IInv, OutcomeInv
  <2>2. ASSUME pc[Caller] = "returned" PROVE value \cup cancelled = Items
    <3>1. Cardinality(Live) = 0 /\ next = N + 1 BY <2>2 DEF IInv, TokenInv, LoopInv
    <3>2. Live \in SUBSET Items BY DEF Live
    <3>3. Live = {} BY <3>1, <3>2, FiniteItems, FS_EmptySet
    <3>4. \A i \in Items : i < next BY <3>1, NAssumption DEF Items
    <3>5. \A i \in Items : pc[i] \in {"unlaunched", "done"} BY <3>3 DEF Live
    <3>6. \A i \in Items : i \in value \/ i \in cancelled
      BY <3>4, <3>5 DEF IInv, LoopInv, OutcomeInv, After
    <3> QED BY <3>6 DEF IInv, TypeOK
  <2> QED BY <2>1, <2>2 DEF OneOutcome
<1> QED BY <1>1, Invariance, PTL

\* At most Slots workers are called after the context ended.
THEOREM LateCallsAreFew == Spec => []FewLateCalls
<1>1. IInv => FewLateCalls
  <2> SUFFICES ASSUME IInv PROVE FewLateCalls
    OBVIOUS
  <2>1. Entering \in SUBSET Items BY DEF Entering
  <2>2. Cardinality(Entering) \in Nat BY <2>1, FiniteItems
  <2> QED BY <2>2, SlotsPositive DEF IInv, TypeOK, LateInv, FewLateCalls
<1> QED BY <1>1, Invariance, PTL

-----------------------------------------------------------------------------
(* Refinement *)

\* The processes inside the worker function are the abstract map's busy items.
LEMMA BusyAreLive ==
  ASSUME IInv
  PROVE  Abstract!Busy \subseteq {i \in Items : pc[i] = "running"}
BY DEF Abstract!Busy, AbstractStatus, Outcome

\* Each step is a step of the abstract map or leaves its variables alone.
LEMMA StepImplements ==
  ASSUME IInv, [Next]_vars
  PROVE  [Abstract!PMNext]_(Abstract!pmvars)
<1> USE ProcSplit DEF IInv, TypeOK, Goto, AbstractStatus, Outcome, Abstract!pmvars
<1>1. CASE EndContext
  <2>1. Abstract!EndContext BY <1>1 DEF EndContext, Abstract!EndContext
  <2> QED BY <2>1 DEF Abstract!PMNext
<1>2. CASE LoopCheck
  <2>1. \A i \in Items : pc'[i] = pc[i] BY <1>2 DEF LoopCheck
  <2> QED BY <1>2, <2>1 DEF LoopCheck
<1>3. CASE Launch
  <2>1. \A i \in Items : pc'[i] = "running" <=> pc[i] = "running" BY <1>3, LaunchEffect
  <2> QED BY <1>3, <2>1 DEF Launch
<1>4. CASE Drain
  <2>1. next \in Items /\ pc[next] = "unlaunched" /\ ctxDone
    BY <1>4 DEF Drain, LoopInv, Items, Draining
  <2>2. next \notin value /\ next \notin cancelled
    BY <1>4, <2>1 DEF Drain, OutcomeInv, After, Items
  <2>3. \A i \in Items : pc'[i] = pc[i] BY <1>4 DEF Drain
  <2>4. cancelled' = cancelled \cup {next} /\ UNCHANGED <<value, ctxDone>> BY <1>4 DEF Drain
  <2>5. Abstract!Skip(next) BY <2>1, <2>2, <2>3, <2>4 DEF Abstract!Skip
  <2>6. \E i \in Items : Abstract!Skip(i)
    <3> HIDE DEF AbstractStatus
    <3> QED BY <2>1, <2>5
  <2> QED BY <2>6 DEF Abstract!PMNext
<1>5. CASE DrainEnd
  <2>1. \A i \in Items : pc'[i] = pc[i] BY <1>5 DEF DrainEnd
  <2> QED BY <1>5, <2>1 DEF DrainEnd
<1>6. CASE Return
  <2>1. \A i \in Items : pc'[i] = pc[i] BY <1>6 DEF Return
  <2> QED BY <1>6, <2>1 DEF Return
<1>7. ASSUME NEW i \in Items, WorkerCheck(i) PROVE [Abstract!PMNext]_(Abstract!pmvars)
  <2>1. i \notin value /\ i \notin cancelled BY <1>7 DEF WorkerCheck, OutcomeInv, After
  <2>2. \A j \in Items : pc'[j] = "running" <=> pc[j] = "running" BY <1>7 DEF WorkerCheck
  <2>3. CASE ctxDone
    <3>1. Abstract!Skip(i) BY <1>7, <2>1, <2>2, <2>3 DEF WorkerCheck, Abstract!Skip
    <3> QED BY <3>1 DEF Abstract!PMNext
  <2>4. CASE ~ctxDone BY <1>7, <2>2, <2>4 DEF WorkerCheck
  <2> QED BY <2>3, <2>4
<1>8. ASSUME NEW i \in Items, Enter(i) PROVE [Abstract!PMNext]_(Abstract!pmvars)
  <2>1. i \notin value /\ i \notin cancelled BY <1>8 DEF Enter, OutcomeInv, After
  <2>2. pc'[i] = "running" /\ \A j \in Items \ {i} : pc'[j] = pc[j] BY <1>8 DEF Enter
  <2>3. UNCHANGED <<value, cancelled, ctxDone>> BY <1>8 DEF Enter
  <2>4. Abstract!Busy \in SUBSET (Live \ {i}) /\ i \in Live /\ Live \in SUBSET Items
    BY <1>8, BusyAreLive DEF Enter, Live
  <2>5. Cardinality(Abstract!Busy) < Slots
    <3>1. Cardinality(Live \ {i}) = Cardinality(Live) - 1 BY <2>4, RemoveItem
    <3>2. Cardinality(Abstract!Busy) <= Cardinality(Live \ {i}) BY <2>4, SubsetItems
    <3>3. Cardinality(Live) <= Slots /\ Cardinality(Live) \in Nat /\ Cardinality(Abstract!Busy) \in Nat
      BY <2>4, FiniteItems DEF TokenInv
    <3> QED BY <3>1, <3>2, <3>3, SlotsPositive
  <2>6. pc[i] # "running" BY <1>8 DEF Enter
  <2>7. AbstractStatus[i] = "pending" BY <2>1, <2>6
  <2>8. AbstractStatus' = [AbstractStatus EXCEPT ![i] = "running"] BY <2>1, <2>2, <2>3
  <2>9. Abstract!Begin(i)
    <3> HIDE DEF AbstractStatus
    <3>1. Abstract!Cardinality(Abstract!Busy) = Cardinality(Abstract!Busy)
      BY DEF Abstract!Cardinality, Cardinality
    <3> QED BY <2>3, <2>5, <2>7, <2>8, <3>1 DEF Abstract!Begin
  <2> QED BY <2>9 DEF Abstract!PMNext
<1>9. ASSUME NEW i \in Items, Finish(i) PROVE [Abstract!PMNext]_(Abstract!pmvars)
  <2>1. i \notin value /\ i \notin cancelled BY <1>9 DEF Finish, OutcomeInv, After
  <2>2. \A j \in Items \ {i} : pc'[j] = pc[j] BY <1>9 DEF Finish
  <2>3. value' = value \cup {i} /\ UNCHANGED <<cancelled, ctxDone>> /\ pc[i] = "running" BY <1>9 DEF Finish
  <2>4. Abstract!Settle(i) BY <2>1, <2>2, <2>3 DEF Abstract!Settle
  <2> QED BY <2>4 DEF Abstract!PMNext
<1>10. ASSUME NEW i \in Items, Release(i) PROVE [Abstract!PMNext]_(Abstract!pmvars)
  <2>1. \A j \in Items : pc'[j] = "running" <=> pc[j] = "running" BY <1>10 DEF Release
  <2> QED BY <1>10, <2>1 DEF Release
<1>11. ASSUME NEW p \in Procs, Lock(p) PROVE [Abstract!PMNext]_(Abstract!pmvars)
  <2>1. \A j \in Items : pc'[j] = "running" <=> pc[j] = "running" BY <1>11 DEF Lock
  <2> QED BY <1>11, <2>1 DEF Lock
<1>12. ASSUME NEW p \in Procs, Count(p) PROVE [Abstract!PMNext]_(Abstract!pmvars)
  <2>1. \A j \in Items : pc'[j] = "running" <=> pc[j] = "running" BY <1>12 DEF Count
  <2> QED BY <1>12, <2>1 DEF Count
<1>13. ASSUME NEW p \in Procs, Report(p) PROVE [Abstract!PMNext]_(Abstract!pmvars)
  <2>1. \A j \in Items : pc'[j] = "running" <=> pc[j] = "running" BY <1>13 DEF Report
  <2> QED BY <1>13, <2>1 DEF Report
<1>14. CASE UNCHANGED vars BY <1>14 DEF vars
<1> QED BY <1>1, <1>2, <1>3, <1>4, <1>5, <1>6, <1>7, <1>8, <1>9, <1>10, <1>11, <1>12, <1>13, <1>14, NextSplit

\* Parmap implements the abstract map (its safety part; FairSpec has the same steps).
THEOREM Implementation == Spec => ImplementsMap
<1>1. Init => Abstract!PMInit
  BY ProcSplit DEF Init, Abstract!PMInit, AbstractStatus, Outcome, Abstract!Batch
<1>2. IInv /\ [Next]_vars => [Abstract!PMNext]_(Abstract!pmvars)
  BY StepImplements
<1> QED BY <1>1, <1>2, Invariance, PTL DEF Spec, ImplementsMap, Abstract!PMSpec
=============================================================================
