--------------------------- MODULE LockStoreProofs ---------------------------
(***************************************************************************)
(* Proofs about the lock store, for any number of goroutines, components   *)
(* and lock contents.  They come in two stages.  The first holds however   *)
(* calls overlap: the types, what a call may be doing at the point it has  *)
(* reached (Shape), and that it sees what happens to its files (Watching). *)
(* The second is about a store without overlapping writes: calls keep to   *)
(* that (Disciplined), each has secured something about its files          *)
(* (Secured), and cache and file differ only while a call that owns the    *)
(* lock is between its two writes (Coherence).                             *)
(***************************************************************************)
EXTENDS LockStore, TLAPS

Watching(p) == \A n \in call[p].of : disk[n] \in seen[p]

Scope(p) == LET c == call[p] IN
    /\ c.todo \subseteq c.of
    /\ c.op # "PruneOrphans" => \A m, n \in c.of : m = n
    /\ c.op = "PruneOrphans" => c.of = Names \ Configured
    /\ c.at = "list" => c.todo = c.of

Shape(c) ==
    /\ c.at = "idle" => c = Idle
    /\ c.at # "done" /\ c.op \notin {"Remove", "PruneOrphans"} => c.answer = None
    /\ c.at \in {"lookup", "load", "fill", "exists", "stat"} => c.op \in Readers
    /\ c.at \in {"open", "write", "keep"} => c.op = "Save"
    /\ c.at \in {"open", "write", "keep", "fill"} => c.lock \in Locks
    /\ c.at \in {"list", "unlink", "evict"} => c.op \in {"Remove", "PruneOrphans"}
    /\ c.op \in {"Remove", "PruneOrphans"} => c.answer \in {None, Failed}
    /\ c.at = "evict" => c.gone \in c.todo
    /\ c.at = "list" => c.op = "PruneOrphans" /\ c.answer = None
    /\ c.op = "PruneOrphans" /\ c.at = "done" => c.todo = {}

Orderly == \A p \in Procs : Watching(p) /\ Scope(p) /\ Shape(call[p])

IInv == TypeOK /\ Orderly /\ NewOnlyIfMissing

-----------------------------------------------------------------------------
(* The first stage                                                         *)

LEMMA InitOrderly == Init => IInv
  <1> SUFFICES ASSUME Init PROVE IInv
    OBVIOUS
  <1>1. Idle \in Calls
    BY DEF Idle, Begun, Calls, Readers, Points
  <1>2. TypeOK
    BY <1>1 DEF Init, TypeOK, Contents
  <1>3. Orderly
    BY DEF Init, Orderly, Watching, Scope, Shape, Idle, Begun
  <1>4. NewOnlyIfMissing
    BY StoreAssumption DEF Init, NewOnlyIfMissing, Idle, Begun
  <1> QED
    BY <1>2, <1>3, <1>4 DEF IInv

(* A step that gives p the call c and changes no file. *)
LEMMA Quiet == ASSUME IInv, NEW p \in Procs, NEW c \in Calls, Step(p, c),
                      UNCHANGED <<disk, seen>>, cache' \in [Names -> Locks \cup {None}],
                      c.of = call[p].of, c.op = call[p].op,
                      c.todo \subseteq call[p].todo,
                      c.at \notin {"idle", "list"},
                      c.answer = New => Absent \in seen[p],
                      Shape(c)
               PROVE  IInv'
  <1>1. TypeOK'
    BY DEF IInv, TypeOK, Step
  <1>2. \A q \in Procs : Watching(q)' /\ Scope(q)'
    BY DEF IInv, TypeOK, Orderly, Watching, Scope, Step
  <1>3. \A q \in Procs : Shape(call[q])'
    BY DEF IInv, TypeOK, Orderly, Shape, Step
  <1>4. NewOnlyIfMissing'
    BY DEF IInv, TypeOK, NewOnlyIfMissing, Step
  <1> QED
    BY <1>1, <1>2, <1>3, <1>4 DEF IInv, Orderly

(* A step that gives p the call c and a file of its call the content x. *)
LEMMA Puts == ASSUME IInv, NEW p \in Procs, NEW c \in Calls, Step(p, c),
                     NEW n \in Names, NEW x \in Contents, Put(n, x), UNCHANGED cache,
                     c.of = call[p].of, c.op = call[p].op,
                     c.todo \subseteq call[p].todo,
                     c.at \notin {"idle", "list"}, c.answer # New,
                     Shape(c)
              PROVE  IInv'
  <1>1. TypeOK'
    BY DEF IInv, TypeOK, Step, Put
  <1>2. \A q \in Procs : Watching(q)' /\ Scope(q)'
    BY DEF IInv, TypeOK, Orderly, Watching, Scope, Step, Put
  <1>3. \A q \in Procs : Shape(call[q])'
    BY DEF IInv, TypeOK, Orderly, Shape, Step, Put
  <1>4. NewOnlyIfMissing'
    BY DEF IInv, TypeOK, NewOnlyIfMissing, Step, Put
  <1> QED
    BY <1>1, <1>2, <1>3, <1>4 DEF IInv, Orderly

LEMMA BeginOrderly == ASSUME IInv, NEW p \in Procs, Begin(p) PROVE IInv'
  <1>1. ASSUME NEW op \in Readers \cup Writers, NEW of \in SUBSET Names, NEW at \in Points,
               NEW lock \in Locks \cup {None}, Invoke(p, op, of, at, lock),
               op # "PruneOrphans" => \A m, n \in of : m = n,
               op = "PruneOrphans" => of = Names \ Configured /\ at = "list",
               op \in Readers => at = "lookup",
               op = "Save" => at = "open" /\ lock \in Locks,
               op = "Remove" => at = "unlink"
        PROVE  IInv'
    <2>1. TypeOK'
      BY <1>1 DEF Invoke, Step, Begun, IInv, TypeOK, Calls
    <2>2. \A q \in Procs : Watching(q)' /\ Scope(q)'
      BY <1>1 DEF Invoke, Step, Begun, IInv, TypeOK, Orderly, Watching, Scope
    <2>3. \A q \in Procs : Shape(call[q])'
      BY ZenonT(40), <1>1 DEF Invoke, Step, Begun, Idle, IInv, TypeOK, Orderly, Shape, Readers, Writers
    <2>4. NewOnlyIfMissing'
      BY <1>1, StoreAssumption DEF Invoke, Step, Begun, IInv, TypeOK, NewOnlyIfMissing
    <2> QED
      BY <2>1, <2>2, <2>3, <2>4 DEF IInv, Orderly
  <1>2. CASE \E n \in Names, op \in Readers : Invoke(p, op, {n}, "lookup", None)
    <2>1. PICK n \in Names, op \in Readers : Invoke(p, op, {n}, "lookup", None)
      BY <1>2
    <2>2. {n} \in SUBSET Names /\ \A m, k \in {n} : m = k
      OBVIOUS
    <2> QED
      BY <1>1, <2>1, <2>2 DEF Readers, Writers, Points
  <1>3. CASE \E n \in Names, l \in Locks : Invoke(p, "Save", {n}, "open", l)
    <2>1. PICK n \in Names, l \in Locks : Invoke(p, "Save", {n}, "open", l)
      BY <1>3
    <2>2. {n} \in SUBSET Names /\ \A m, k \in {n} : m = k
      OBVIOUS
    <2> QED
      BY <1>1, <2>1, <2>2 DEF Readers, Writers, Points
  <1>4. CASE \E n \in Names : Invoke(p, "Remove", {n}, "unlink", None)
    <2>1. PICK n \in Names : Invoke(p, "Remove", {n}, "unlink", None)
      BY <1>4
    <2>2. {n} \in SUBSET Names /\ \A m, k \in {n} : m = k
      OBVIOUS
    <2> QED
      BY <1>1, <2>1, <2>2 DEF Readers, Writers, Points
  <1>5. CASE Invoke(p, "PruneOrphans", Names \ Configured, "list", None)
    BY <1>1, <1>5, StoreAssumption DEF Readers, Writers, Points
  <1> QED
    BY <1>2, <1>3, <1>4, <1>5 DEF Begin

LEMMA EndOrderly == ASSUME IInv, NEW p \in Procs, Return(p) \/ Restart PROVE IInv'
  <1>1. Idle \in Calls
    BY DEF Idle, Begun, Calls, Readers, Points
  <1>2. TypeOK'
    BY <1>1 DEF Return, Restart, Step, IInv, TypeOK
  <1>3. \A q \in Procs : Watching(q)' /\ Scope(q)'
    BY <1>1 DEF Return, Restart, Step, Idle, Begun, IInv, TypeOK, Orderly, Watching, Scope
  <1>0. Shape(Idle)
    BY DEF Shape, Idle, Begun
  <1>5. \A q \in Procs : Shape(call[q])'
    BY <1>0 DEF Return, Restart, Step, IInv, TypeOK, Orderly
  <1>4. NewOnlyIfMissing'
    BY StoreAssumption DEF Return, Restart, Step, Idle, Begun, IInv, TypeOK, NewOnlyIfMissing
  <1> QED
    BY <1>2, <1>3, <1>4, <1>5 DEF IInv, Orderly

(* The types of the calls that the steps of p make. *)
LEMMA CallTypes == ASSUME IInv, NEW p \in Procs
                   PROVE  /\ \A at \in Points : Go(call[p], at) \in Calls
                          /\ \A todo \in SUBSET Names, gone \in Names \cup {None}, at \in Points,
                                a \in Locks \cup {None, New, Failed} :
                                Left(call[p], todo, gone, at, a) \in Calls
                          /\ \A a \in Locks \cup {None, New, Failed} : Answer(call[p], a) \in Calls
  BY DEF IInv, TypeOK, Calls, Go, Left, Answer, Points

LEMMA ReadsOrderly ==
    ASSUME IInv, NEW p \in Procs, NEW n \in Names,
           Lookup(p, n) \/ Load(p, n) \/ Fill(p, n) \/ Exists(p, n) \/ Stat(p, n)
    PROVE  IInv'
  <1> DEFINE c == call[p]
  <1>1. /\ c.op \in Readers /\ c.answer = None /\ n \in c.todo
        /\ c.at \in Points /\ c.at # "idle"
        /\ c.at = "fill" => c.lock \in Locks
        /\ UNCHANGED <<disk, seen>>
    BY DEF Lookup, Load, Fill, Exists, Stat, At, IInv, TypeOK, Orderly, Shape, Readers, Calls
  <1>2. ASSUME NEW at \in {"load", "exists", "stat"}
        PROVE  Go(c, at) \in Calls /\ Shape(Go(c, at))
    BY <1>1, CallTypes DEF Go, Shape, Points, Readers
  <1>3. ASSUME NEW a \in Locks \cup {New, Failed}
        PROVE  Answer(c, a) \in Calls /\ Shape(Answer(c, a))
    BY <1>1, CallTypes DEF Answer, Left, Shape, Points, Readers
  <1>4. ASSUME NEW l \in Locks
        PROVE  LET f == Begun(c.op, c.of, "fill", l) IN
               f \in Calls /\ Shape(f)
    BY <1>1, StoreAssumption DEF Begun, Shape, Calls, Points, Readers, IInv, TypeOK
  <1>5. c.of \subseteq c.todo
    BY <1>1 DEF IInv, Orderly, Scope, Readers
  <1> HIDE DEF c
  <1>6. CASE Lookup(p, n)
    <2>1. cache[n] \in Locks \cup {None}
      BY DEF IInv, TypeOK
    <2>2. CASE cache[n] # None
      <3>1. Step(p, Answer(c, cache[n])) /\ UNCHANGED cache
        BY <1>6, <2>2 DEF Lookup, c
      <3> QED
        BY <3>1, <2>1, <2>2, <1>1, <1>3, StoreAssumption, Quiet DEF Answer, Left, IInv, TypeOK, c
    <2>3. CASE cache[n] = None
      <3>1. Step(p, Go(c, "load")) /\ UNCHANGED cache
        BY <1>6, <2>3 DEF Lookup, c
      <3> QED
        BY <3>1, <1>1, <1>2, StoreAssumption, Quiet DEF Go, IInv, TypeOK, c
    <2> QED
      BY <2>2, <2>3
  <1>7. CASE Load(p, n)
    <2>1. UNCHANGED cache
      BY <1>7 DEF Load
    <2>2. CASE disk[n] \in Locks /\ Step(p, Begun(c.op, c.of, "fill", disk[n]))
      BY <2>1, <2>2, <1>1, <1>4, <1>5, StoreAssumption, Quiet DEF Begun, IInv, TypeOK, c
    <2>3. CASE Step(p, Answer(c, Failed))
      BY <2>1, <2>3, <1>1, <1>3, StoreAssumption, Quiet DEF Answer, Left, IInv, TypeOK, c
    <2>4. CASE Step(p, Go(c, "exists"))
      BY <2>1, <2>4, <1>1, <1>2, StoreAssumption, Quiet DEF Go, IInv, TypeOK, c
    <2> QED
      BY <1>7, <2>2, <2>3, <2>4 DEF Load, c
  <1>8. CASE Fill(p, n)
    <2>1. c.lock \in Locks
      BY <1>1, <1>8 DEF Fill, At, c
    <2>2. cache' \in [Names -> Locks \cup {None}] /\ Step(p, Answer(c, c.lock))
      BY <2>1, <1>8 DEF Fill, IInv, TypeOK, c
    <2> QED
      BY <2>1, <2>2, <1>1, <1>3, StoreAssumption, Quiet DEF Answer, Left, c
  <1>9. CASE Exists(p, n)
    <2>1. UNCHANGED cache
      BY <1>9 DEF Exists
    <2>2. CASE Step(p, Answer(c, Failed))
      BY <2>1, <2>2, <1>1, <1>3, StoreAssumption, Quiet DEF Answer, Left, IInv, TypeOK, c
    <2>3. CASE Step(p, Go(c, "stat"))
      BY <2>1, <2>3, <1>1, <1>2, StoreAssumption, Quiet DEF Go, IInv, TypeOK, c
    <2> QED
      BY <1>9, <2>2, <2>3 DEF Exists, c
  <1>10. CASE Stat(p, n)
    <2>1. UNCHANGED cache
      BY <1>10 DEF Stat
    <2>2. CASE Step(p, Answer(c, Failed))
      BY <2>1, <2>2, <1>1, <1>3, StoreAssumption, Quiet DEF Answer, Left, IInv, TypeOK, c
    <2>3. CASE disk[n] = Absent /\ Step(p, Answer(c, New))
      <3>1. Absent \in seen[p]
        BY <2>3, <1>1 DEF IInv, Orderly, Watching, Scope, c
      <3> QED
        BY <3>1, <2>1, <2>3, <1>1, <1>3, Quiet DEF Answer, Left, IInv, TypeOK, c
    <2> QED
      BY <1>10, <2>2, <2>3 DEF Stat, c
  <1> QED
    BY <1>6, <1>7, <1>8, <1>9, <1>10

LEMMA SavesOrderly ==
    ASSUME IInv, NEW p \in Procs, NEW n \in Names,
           Open(p, n) \/ Write(p, n) \/ Keep(p, n)
    PROVE  IInv'
  <1> DEFINE c == call[p]
  <1>1. /\ c.op = "Save" /\ c.lock \in Locks /\ c.answer = None
        /\ c.at \in Points /\ c.at # "idle"
    BY DEF Open, Write, Keep, At, IInv, TypeOK, Orderly, Shape, Calls
  <1>2. ASSUME NEW at \in {"write", "keep"}
        PROVE  Go(c, at) \in Calls /\ Shape(Go(c, at))
    BY <1>1, CallTypes DEF Go, Shape, Points
  <1>3. ASSUME NEW a \in {None, Failed}
        PROVE  Answer(c, a) \in Calls /\ Shape(Answer(c, a))
    BY <1>1, CallTypes DEF Answer, Left, Shape, Points
  <1> HIDE DEF c
  <1>4. CASE Open(p, n)
    <2>1. CASE Put(n, Torn) /\ Step(p, Go(c, "write"))
      BY <2>1, <1>1, <1>2, <1>4, StoreAssumption, Puts DEF Open, Go, Contents, c
    <2>2. CASE UNCHANGED <<disk, seen>> /\ Step(p, Answer(c, Failed))
      BY <2>2, <1>1, <1>3, <1>4, StoreAssumption, Quiet DEF Open, Answer, Left, IInv, TypeOK, c
    <2> QED
      BY <1>4, <2>1, <2>2 DEF Open, c
  <1>5. CASE Write(p, n)
    <2>1. CASE Put(n, c.lock) /\ Step(p, Go(c, "keep"))
      BY <2>1, <1>1, <1>2, <1>5, StoreAssumption, Puts DEF Write, Go, Contents, c
    <2>2. CASE UNCHANGED <<disk, seen>> /\ Step(p, Answer(c, Failed))
      BY <2>2, <1>1, <1>3, <1>5, StoreAssumption, Quiet DEF Write, Answer, Left, IInv, TypeOK, c
    <2> QED
      BY <1>5, <2>1, <2>2 DEF Write, c
  <1>6. CASE Keep(p, n)
    <2>1. cache' \in [Names -> Locks \cup {None}] /\ Step(p, Answer(c, None))
      BY <1>1, <1>6 DEF Keep, IInv, TypeOK, c
    <2> QED
      BY <2>1, <1>1, <1>3, <1>6, StoreAssumption, Quiet DEF Keep, Answer, Left, c
  <1> QED
    BY <1>4, <1>5, <1>6

LEMMA RemovalsOrderly ==
    ASSUME IInv, NEW p \in Procs,
           List(p) \/ RemoveEnd(p) \/ \E n \in Names : Unlink(p, n) \/ Evict(p, n)
    PROVE  IInv'
  <1> DEFINE c == call[p]
  <1>1. /\ c.op \in {"Remove", "PruneOrphans"} /\ c.answer \in {None, Failed}
        /\ c.at # "idle" /\ c.todo \subseteq c.of /\ c.of \subseteq Names
    BY DEF List, Unlink, Evict, RemoveEnd, At, IInv, TypeOK, Orderly, Scope, Shape, Calls
  <1>2. ASSUME NEW todo \in SUBSET c.of, NEW gone \in Names \cup {None},
               NEW at \in {"unlink", "evict"}, NEW a \in {None, Failed},
               at = "evict" => gone \in todo
        PROVE  Left(c, todo, gone, at, a) \in Calls /\ Shape(Left(c, todo, gone, at, a))
    BY <1>1, <1>2, CallTypes DEF Left, Shape, Points
  <1>3. ASSUME NEW a \in {None, Failed}
        PROVE  Answer(c, a) \in Calls /\ Shape(Answer(c, a))
    BY <1>1, CallTypes DEF Answer, Left, Shape, Points
  <1> HIDE DEF c
  <1>4. CASE List(p)
    <2> DEFINE found == {m \in c.of : disk[m] # Absent}
    <2>0. c.todo = c.of
      BY <1>4 DEF List, IInv, Orderly, Scope, Shape, c
    <2>1. CASE Step(p, Left(c, found, None, "unlink", None))
      BY <2>0, <2>1, <1>1, <1>2, <1>4, StoreAssumption, Quiet DEF List, Left, IInv, TypeOK, c
    <2>2. CASE Step(p, Answer(c, Failed))
      BY <2>2, <1>1, <1>3, <1>4, StoreAssumption, Quiet DEF List, Answer, Left, IInv, TypeOK, c
    <2> QED
      BY <1>4, <2>1, <2>2 DEF List, c
  <1>5. ASSUME NEW n \in Names, Unlink(p, n) PROVE IInv'
    <2>1. CASE Put(n, Absent) /\ Step(p, Left(c, c.todo, n, "evict", c.answer))
      <3>1. n \in c.todo
        BY <1>5 DEF Unlink, At, c
      <3> QED
        BY ZenonT(40), <3>1, <2>1, <1>1, <1>2, <1>5, StoreAssumption, Puts DEF Unlink, Left, Contents, c
    <2>2. CASE /\ UNCHANGED <<disk, seen>>
               /\ Step(p, Left(c, c.todo \ {n}, None, "unlink", Failed))
      BY <2>2, <1>1, <1>2, <1>5, StoreAssumption, Quiet DEF Unlink, Left, IInv, TypeOK, c
    <2> QED
      BY <1>5, <2>1, <2>2 DEF Unlink, c
  <1>6. ASSUME NEW n \in Names, Evict(p, n) PROVE IInv'
    <2>1. /\ cache' \in [Names -> Locks \cup {None}]
          /\ Step(p, Left(c, c.todo \ {n}, None, "unlink", c.answer))
          /\ UNCHANGED <<disk, seen>>
      BY <1>6 DEF Evict, IInv, TypeOK, c
    <2> QED
      BY <2>1, <1>1, <1>2, StoreAssumption, Quiet DEF Left, c
  <1>7. CASE RemoveEnd(p)
    BY <1>1, <1>3, <1>7, StoreAssumption, Quiet DEF RemoveEnd, Answer, Left, IInv, TypeOK, c
  <1> QED
    BY <1>4, <1>5, <1>6, <1>7

LEMMA StepOrderly == IInv /\ [Next]_vars => IInv'
  <1> SUFFICES ASSUME IInv, [Next]_vars PROVE IInv'
    OBVIOUS
  <1>1. CASE UNCHANGED vars
    BY <1>1 DEF vars, IInv, TypeOK, Orderly, Watching, Scope, NewOnlyIfMissing
  <1>2. CASE Next
    <2>1. CASE Restart
      <3>1. CASE Procs = {}
        BY <2>1, <3>1 DEF Restart, IInv, TypeOK, Orderly, NewOnlyIfMissing
      <3>2. CASE \E p \in Procs : TRUE
        BY <2>1, <3>2, EndOrderly
      <3> QED
        BY <3>1, <3>2
    <2>2. CASE \E p \in Procs : Begin(p) \/ Return(p) \/ List(p) \/ RemoveEnd(p)
      <3>1. PICK p \in Procs : Begin(p) \/ Return(p) \/ List(p) \/ RemoveEnd(p)
        BY <2>2
      <3>2. CASE Begin(p)
        BY <3>2, BeginOrderly
      <3>3. CASE Return(p)
        BY <3>3, EndOrderly
      <3>4. CASE List(p) \/ RemoveEnd(p)
        BY <3>4, RemovalsOrderly
      <3> QED
        BY <3>1, <3>2, <3>3, <3>4
    <2>3. CASE \E p \in Procs, n \in Names :
                  \/ Lookup(p, n) \/ Load(p, n) \/ Fill(p, n) \/ Exists(p, n)
                  \/ Stat(p, n) \/ Open(p, n) \/ Write(p, n) \/ Keep(p, n)
                  \/ Unlink(p, n) \/ Evict(p, n)
      BY <2>3, ReadsOrderly, SavesOrderly, RemovalsOrderly
    <2> QED
      BY <1>2, <2>1, <2>2, <2>3 DEF Next
  <1> QED
    BY <1>1, <1>2

(* The store's variables have their types, for any Racing: what is cached  *)
(* for a component is a readable lock, never a torn file or an error.      *)
THEOREM TypeCorrect == Spec => []TypeOK
  <1>1. IInv => TypeOK
    BY DEF IInv
  <1> QED
    BY <1>1, InitOrderly, StepOrderly, PTL DEF Spec

(* However calls overlap, GetOrNew gives out an empty lock only if there   *)
(* was no lock file at some moment of the call.                            *)
THEOREM NoLockIsLost == Spec => []NewOnlyIfMissing
  <1>1. IInv => NewOnlyIfMissing
    BY DEF IInv
  <1> QED
    BY <1>1, InitOrderly, StepOrderly, PTL DEF Spec

-----------------------------------------------------------------------------
(* The second stage: no call overlaps a write of the same lock             *)

Disciplined == \A p, q \in Procs : p # q /\ call[p].of \cap call[q].of # {}
                                   => {call[p].op, call[q].op} \subseteq Readers

(* p is between its write to the file of n and its write to the cache. *)
Between(p, n) == /\ n \in call[p].of
                 /\ \/ call[p].at = "keep"
                    \/ call[p].at = "evict" /\ call[p].gone = n

Coherence == \A n \in Names : \/ cache[n] = None
                              \/ disk[n] \in {cache[n], Torn}
                              \/ \E p \in Procs : Between(p, n)

Pruned(c, n) == /\ c.op = "PruneOrphans" /\ c.at \in {"unlink", "evict", "done"}
                /\ c.answer = None /\ n \in c.of \ c.todo

Secured(p) == LET c == call[p] IN
    /\ c.at \in {"fill", "keep"} => \A n \in c.of : disk[n] = c.lock
    /\ c.at = "evict" => disk[c.gone] = Absent
    /\ \A n \in Names : Pruned(c, n) => disk[n] = Absent /\ cache[n] = None

Settled(p) == call[p].op \in Readers /\ call[p].at = "done" /\ call[p].answer \in Locks
              => {call[p].answer, Torn} \cap seen[p] # {}

IInvAlone == /\ Disciplined /\ Coherence
             /\ \A p \in Procs : Secured(p) /\ Settled(p)

LEMMA InitAlone == Init => IInvAlone
  BY DEF Init, IInvAlone, Disciplined, Coherence, Secured, Settled, Pruned, Idle, Begun

LEMMA BeginAlone == ASSUME Racing = FALSE, IInv, IInvAlone, NEW p \in Procs, Begin(p)
                    PROVE  IInvAlone'
  <1>1. ASSUME NEW op \in Readers \cup Writers, NEW of \in SUBSET Names,
               NEW at \in {"lookup", "open", "list", "unlink"},
               NEW lock \in Locks \cup {None}, Invoke(p, op, of, at, lock),
               at = "unlink" => op = "Remove"
        PROVE  IInvAlone'
    <2>1. /\ call[p] = Idle /\ Free(op, of) /\ UNCHANGED <<disk, cache>>
          /\ call' = [call EXCEPT ![p] = Begun(op, of, at, lock)]
          /\ \A q \in Procs : q # p => seen'[q] = seen[q]
      BY <1>1 DEF Invoke, Step, IInv, TypeOK
    <2>2. Disciplined'
      BY <2>1 DEF Free, Begun, IInv, TypeOK, IInvAlone, Disciplined
    <2>3. Coherence'
      BY <2>1 DEF Idle, Begun, IInv, TypeOK, IInvAlone, Coherence, Between
    <2>4. \A q \in Procs : Secured(q)'
      BY <1>1, <2>1 DEF Begun, IInv, TypeOK, IInvAlone, Secured, Pruned
    <2>5. \A q \in Procs : Settled(q)'
      BY <1>1, <2>1 DEF Begun, IInv, TypeOK, IInvAlone, Settled
    <2> QED
      BY <2>2, <2>3, <2>4, <2>5 DEF IInvAlone
  <1>2. CASE \E n \in Names, op \in Readers : Invoke(p, op, {n}, "lookup", None)
    <2>1. PICK n \in Names, op \in Readers : Invoke(p, op, {n}, "lookup", None)
      BY <1>2
    <2>2. {n} \in SUBSET Names
      OBVIOUS
    <2> QED
      BY <1>1, <2>1, <2>2 DEF Readers, Writers
  <1>3. CASE \E n \in Names, l \in Locks : Invoke(p, "Save", {n}, "open", l)
    <2>1. PICK n \in Names, l \in Locks : Invoke(p, "Save", {n}, "open", l)
      BY <1>3
    <2>2. {n} \in SUBSET Names
      OBVIOUS
    <2> QED
      BY <1>1, <2>1, <2>2 DEF Readers, Writers
  <1>4. CASE \E n \in Names : Invoke(p, "Remove", {n}, "unlink", None)
    <2>1. PICK n \in Names : Invoke(p, "Remove", {n}, "unlink", None)
      BY <1>4
    <2>2. {n} \in SUBSET Names
      OBVIOUS
    <2> QED
      BY <1>1, <2>1, <2>2 DEF Readers, Writers
  <1>5. CASE Invoke(p, "PruneOrphans", Names \ Configured, "list", None)
    <2>1. Names \ Configured \in SUBSET Names
      OBVIOUS
    <2> QED
      BY <1>1, <1>5, <2>1 DEF Readers, Writers
  <1> QED
    BY <1>2, <1>3, <1>4, <1>5 DEF Begin

LEMMA EndAlone == ASSUME IInv, IInvAlone, NEW p \in Procs, Return(p) \/ Restart
                  PROVE  IInvAlone'
  <1>1. Disciplined'
    BY DEF Return, Restart, Step, Idle, Begun, IInv, TypeOK, IInvAlone, Disciplined
  <1>2. Coherence'
    BY DEF Return, Restart, Step, Idle, Begun, IInv, TypeOK, IInvAlone, Coherence, Between
  <1>3. \A q \in Procs : Secured(q)'
    BY DEF Return, Restart, Step, Idle, Begun, IInv, TypeOK, IInvAlone, Secured, Pruned
  <1>4. \A q \in Procs : Settled(q)'
    BY DEF Return, Restart, Step, Idle, Begun, IInv, TypeOK, IInvAlone, Settled
  <1> QED
    BY <1>1, <1>2, <1>3, <1>4 DEF IInvAlone

(* A step inside a call of p keeps the discipline, and it does not disturb *)
(* another call whose files and cache entries it leaves alone.             *)
LEMMA Others == ASSUME IInv, IInvAlone, NEW p \in Procs, NEW c \in Calls, Step(p, c),
                       c.of = call[p].of, c.op = call[p].op,
                       \A m \in Names \ call[p].of : disk'[m] = disk[m] /\ cache'[m] = cache[m],
                       call[p].op \in Readers => disk' = disk,
                       \A q \in Procs : seen[q] \subseteq seen'[q]
                PROVE  /\ Disciplined'
                       /\ \A q \in Procs \ {p} : Secured(q)' /\ Settled(q)'
  <1>1. Disciplined'
    BY DEF Step, IInv, TypeOK, IInvAlone, Disciplined
  <1>2. ASSUME NEW q \in Procs \ {p} PROVE Secured(q)' /\ Settled(q)'
    <2>1. call'[q] = call[q] /\ call[q] \in Calls
      BY DEF Step, IInv, TypeOK
    <2>2. \A m \in call[q].of : m \in call[p].of => {call[p].op, call[q].op} \subseteq Readers
      BY DEF IInvAlone, Disciplined
    <2>3. Settled(q)'
      BY <2>1 DEF IInvAlone, Settled
    <2>4. \A m \in call[q].of : m \notin call[p].of \/ disk' = disk
      BY <2>2
    <2>5. call[q].at \in {"fill", "keep"} => \A m \in call[q].of : disk'[m] = call[q].lock
      BY <2>1, <2>4 DEF IInvAlone, Secured, Calls
    <2>6. call[q].at = "evict" => disk'[call[q].gone] = Absent
      BY <2>1, <2>4 DEF IInv, Orderly, Scope, Shape, IInvAlone, Secured, Calls
    <2>7. \A m \in Names : Pruned(call[q], m) => disk'[m] = Absent /\ cache'[m] = None
      BY <2>1, <2>2 DEF IInvAlone, Secured, Pruned, Readers
    <2> QED
      BY <2>1, <2>3, <2>5, <2>6, <2>7 DEF Secured
  <1> QED
    BY <1>1, <1>2

LEMMA ReadsAlone ==
    ASSUME IInv, IInvAlone, NEW p \in Procs, NEW n \in Names,
           Lookup(p, n) \/ Load(p, n) \/ Fill(p, n) \/ Exists(p, n) \/ Stat(p, n)
    PROVE  IInvAlone'
  <1> DEFINE c == call[p]
             d == call'[p]
  <1>1. /\ c \in Calls /\ c.op \in Readers /\ n \in c.todo /\ n \in c.of
        /\ c.at \in {"lookup", "load", "fill", "exists", "stat"}
        /\ \A m \in c.of : m = n
        /\ UNCHANGED <<disk, seen>>
    BY SMTT(30) DEF Lookup, Load, Fill, Exists, Stat, At, IInv, TypeOK, Orderly, Scope, Readers
  <1>2. /\ d \in Calls /\ Step(p, d) /\ d.of = c.of /\ d.op = c.op
    BY <1>1, CallTypes, StepOrderly DEF Lookup, Load, Fill, Exists, Stat, Step, Begun, Go,
       Answer, Left, IInv, TypeOK, Next
  <1>3. /\ d.at \in {"load", "fill", "exists", "stat", "done"}
        /\ d.at = "fill" => d.lock = disk[n] /\ UNCHANGED cache
    BY <1>1 DEF Lookup, Load, Fill, Exists, Stat, Step, Begun, Go, Answer, Left, IInv, TypeOK
  <1>4. \/ UNCHANGED cache
        \/ /\ c.at = "fill" /\ d.at = "done" /\ d.answer = c.lock
           /\ cache' = [cache EXCEPT ![n] = c.lock]
    BY <1>1 DEF Lookup, Load, Fill, Exists, Stat, At, Step, Answer, Left, IInv, TypeOK
  <1>5. d.at = "done" /\ d.answer \in Locks =>
           \/ c.at = "fill" /\ d.answer = c.lock
           \/ d.answer = cache[n]
    BY <1>1, StoreAssumption DEF Lookup, Load, Fill, Exists, Stat, At, Step, Begun, Go,
       Answer, Left, IInv, TypeOK
  <1>6. c.at = "fill" => disk[n] = c.lock
    BY <1>1 DEF IInvAlone, Secured
  <1>7. \A q \in Procs : ~Between(q, n)
    BY <1>1 DEF Between, IInv, TypeOK, Orderly, Scope, Shape, Readers, Writers, IInvAlone, Disciplined
  <1>8. cache[n] # None => disk[n] \in {cache[n], Torn}
    BY <1>7 DEF IInvAlone, Coherence
  <1> HIDE DEF c, d
  <1>9. /\ Disciplined'
        /\ \A q \in Procs \ {p} : Secured(q)' /\ Settled(q)'
    <2>1. \A m \in Names \ c.of : disk'[m] = disk[m] /\ cache'[m] = cache[m]
      BY <1>1, <1>4 DEF IInv, TypeOK
    <2> QED
      BY <2>1, <1>1, <1>2, Others DEF c
  <1>10. Coherence'
    <2>1. ASSUME NEW m \in Names, m # n, NEW q \in Procs, Between(q, m) PROVE Between(q, m)'
      BY <1>1, <1>2, <2>1 DEF Between, Step, IInv, TypeOK, c
    <2>2. ASSUME NEW m \in Names, m # n
          PROVE  cache'[m] = cache[m] /\ disk'[m] = disk[m]
      BY <1>1, <1>4, <2>2 DEF IInv, TypeOK
    <2>3. cache'[n] # None => disk'[n] \in {cache'[n], Torn}
      BY <1>1, <1>4, <1>6, <1>8 DEF IInv, TypeOK
    <2> QED
      BY <2>1, <2>2, <2>3 DEF IInvAlone, Coherence
  <1>11. Secured(p)'
    BY <1>1, <1>2, <1>3 DEF Secured, Pruned, Readers, d
  <1>12. disk[n] \in seen[p]
    BY <1>1 DEF IInv, Orderly, Watching, c
  <1>13. Settled(p)'
    BY <1>1, <1>5, <1>6, <1>8, <1>12, StoreAssumption DEF Settled, d
  <1> QED
    BY <1>9, <1>10, <1>11, <1>13 DEF IInvAlone

LEMMA SavesAlone ==
    ASSUME IInv, IInvAlone, NEW p \in Procs, NEW n \in Names,
           Open(p, n) \/ Write(p, n) \/ Keep(p, n)
    PROVE  IInvAlone'
  <1> DEFINE c == call[p]
             d == call'[p]
  <1>1. /\ c \in Calls /\ c.op = "Save" /\ n \in c.todo /\ n \in c.of
        /\ c.at \in {"open", "write", "keep"}
        /\ \A m \in c.of : m = n
    BY DEF Open, Write, Keep, At, IInv, TypeOK, Orderly, Scope
  <1>2. /\ d \in Calls /\ Step(p, d) /\ d.of = c.of /\ d.op = c.op
    BY <1>1, CallTypes, StepOrderly DEF Open, Write, Keep, Step, Go, Answer, Left, IInv, TypeOK, Next
  <1>3. \/ /\ Put(n, Torn) /\ UNCHANGED cache /\ d.at = "write"
        \/ /\ c.at # "keep" /\ UNCHANGED <<disk, cache, seen>> /\ d.at = "done"
        \/ /\ Put(n, c.lock) /\ UNCHANGED cache /\ d.at = "keep" /\ d.lock = c.lock
        \/ /\ c.at = "keep" /\ UNCHANGED <<disk, seen>> /\ d.at = "done"
           /\ cache' = [cache EXCEPT ![n] = c.lock]
    BY <1>1 DEF Open, Write, Keep, At, Step, Go, Answer, Left, IInv, TypeOK
  <1>4. c.at = "keep" => disk[n] = c.lock
    BY <1>1 DEF IInvAlone, Secured
  <1>5. \A q \in Procs \ {p} : ~Between(q, n)
    BY <1>1 DEF Between, IInv, TypeOK, Orderly, Scope, Shape, Readers, IInvAlone, Disciplined
  <1> HIDE DEF c, d
  <1>6. \A m \in Names \ {n} : disk'[m] = disk[m] /\ cache'[m] = cache[m]
    BY <1>3 DEF Put, IInv, TypeOK
  <1>7. \A q \in Procs : seen[q] \subseteq seen'[q]
    BY <1>3 DEF Put, IInv, TypeOK
  <1>8. /\ Disciplined'
        /\ \A q \in Procs \ {p} : Secured(q)' /\ Settled(q)'
    BY <1>1, <1>2, <1>6, <1>7, Others DEF c, Readers
  <1>9. Coherence'
    <2>1. ASSUME NEW m \in Names \ {n}, NEW q \in Procs, Between(q, m) PROVE Between(q, m)'
      BY <1>1, <1>2, <2>1 DEF Between, Step, IInv, TypeOK, c
    <2>2. \/ cache'[n] = None
          \/ disk'[n] \in {cache'[n], Torn}
          \/ Between(p, n)'
      <3>1. CASE Put(n, Torn)
        BY <3>1 DEF Put, IInv, TypeOK
      <3>2. CASE c.at # "keep" /\ UNCHANGED <<disk, cache, seen>>
        BY <1>1, <1>5, <3>2 DEF IInvAlone, Coherence, Between, c
      <3>3. CASE d.at = "keep"
        BY <1>1, <1>2, <3>3 DEF Between, d
      <3>4. CASE c.at = "keep" /\ UNCHANGED <<disk, seen>> /\ cache' = [cache EXCEPT ![n] = c.lock]
        BY <1>4, <3>4 DEF IInv, TypeOK
      <3> QED
        BY <1>3, <3>1, <3>2, <3>3, <3>4
    <2> QED
      BY <1>6, <2>1, <2>2 DEF IInvAlone, Coherence
  <1>10. d.at = "keep" => disk'[n] = d.lock
    BY <1>3 DEF Put, IInv, TypeOK
  <1>11. Secured(p)' /\ Settled(p)'
    BY <1>1, <1>2, <1>3, <1>10 DEF Secured, Settled, Pruned, Readers, d
  <1> QED
    BY <1>8, <1>9, <1>11 DEF IInvAlone

LEMMA RemovalsAlone ==
    ASSUME IInv, IInvAlone, NEW p \in Procs,
           List(p) \/ RemoveEnd(p) \/ \E n \in Names : Unlink(p, n) \/ Evict(p, n)
    PROVE  IInvAlone'
  <1> DEFINE c == call[p]
  <1>1. /\ c \in Calls /\ c.op \in {"Remove", "PruneOrphans"} /\ c.todo \subseteq c.of
        /\ c.at \in {"list", "unlink", "evict"}
        /\ c.of \subseteq Names
    BY DEF List, RemoveEnd, Unlink, Evict, At, IInv, TypeOK, Orderly, Scope, Calls
  <1>2. ASSUME NEW q \in Procs \ {p}, NEW m \in c.of PROVE ~Between(q, m)
    BY <1>1, <1>2 DEF Between, IInv, TypeOK, Orderly, Scope, Shape, Readers, IInvAlone, Disciplined
  <1>3. ASSUME NEW e \in Calls, Step(p, e), e.of = c.of, e.op = c.op,
               e.at \in {"unlink", "evict", "done"},
               \A m \in Names \ c.of : disk'[m] = disk[m] /\ cache'[m] = cache[m],
               \A q \in Procs : seen[q] \subseteq seen'[q],
               \A m \in c.of : \/ cache'[m] = None
                               \/ disk'[m] \in {cache'[m], Torn}
                               \/ e.at = "evict" /\ e.gone = m,
               e.at = "evict" => disk'[e.gone] = Absent,
               \A m \in Names : Pruned(e, m) => disk'[m] = Absent /\ cache'[m] = None
        PROVE  IInvAlone'
    <2>1. call'[p] = e
      BY <1>3 DEF Step, IInv, TypeOK
    <2>2. /\ Disciplined'
          /\ \A q \in Procs \ {p} : Secured(q)' /\ Settled(q)'
      BY <1>1, <1>3, Others DEF Readers
    <2>3. ASSUME NEW m \in Names \ c.of, NEW q \in Procs, Between(q, m) PROVE Between(q, m)'
      BY <1>1, <1>3, <2>1, <2>3 DEF Between, Step, IInv, TypeOK
    <2>4. \A m \in c.of : e.at = "evict" /\ e.gone = m => Between(p, m)'
      BY <1>3, <2>1 DEF Between
    <2>5. Coherence'
      BY <1>1, <1>3, <2>3, <2>4 DEF IInvAlone, Coherence
    <2>6. Secured(p)' /\ Settled(p)'
      BY <1>1, <1>3, <2>1 DEF Secured, Settled, Readers
    <2> QED
      BY <2>2, <2>5, <2>6 DEF IInvAlone
  <1>4. \A m \in c.of : \/ cache[m] = None
                        \/ disk[m] \in {cache[m], Torn}
                        \/ c.at = "evict" /\ c.gone = m
    <2>1. \A m \in c.of : Between(p, m) => c.at = "evict" /\ c.gone = m
      BY <1>1 DEF Between
    <2>2. \A m \in c.of : (\E q \in Procs : Between(q, m)) => Between(p, m)
      BY <1>2
    <2>3. \A m \in Names : \/ cache[m] = None
                           \/ disk[m] \in {cache[m], Torn}
                           \/ \E q \in Procs : Between(q, m)
      BY DEF IInvAlone, Coherence
    <2> SUFFICES ASSUME NEW m \in c.of
                 PROVE  \/ cache[m] = None
                        \/ disk[m] \in {cache[m], Torn}
                        \/ c.at = "evict" /\ c.gone = m
      OBVIOUS
    <2>4. m \in Names
      BY <1>1
    <2>5. (\E q \in Procs : Between(q, m)) => c.at = "evict" /\ c.gone = m
      BY <2>1, <2>2
    <2> QED
      BY <2>3, <2>4, <2>5
  <1>5. \A m \in Names : Pruned(c, m) => disk[m] = Absent /\ cache[m] = None
    BY DEF IInvAlone, Secured
  <1>6. \A m \in Names : disk[m] = Absent /\ c.at # "evict" /\ m \in c.of => cache[m] = None
    BY <1>4, StoreAssumption DEF IInv, TypeOK
  <1>7. ASSUME NEW todo \in SUBSET c.of, NEW gone \in Names \cup {None},
               NEW at \in {"unlink", "evict"}, NEW a \in {None, Failed}
        PROVE  Left(c, todo, gone, at, a) \in Calls
    BY <1>1, CallTypes DEF Points
  <1>8. ASSUME NEW a \in {None, Failed} PROVE Answer(c, a) \in Calls
    BY CallTypes
  <1>9. c.answer \in {None, Failed}
    BY <1>1 DEF IInv, Orderly, Shape
  <1> HIDE DEF c
  <1>10. CASE List(p)
    <2> DEFINE found == {m \in c.of : disk[m] # Absent}
    <2>1. c.at = "list" /\ UNCHANGED <<disk, cache, seen>>
      BY <1>10 DEF List, c
    <2>2. CASE Step(p, Left(c, found, None, "unlink", None))
      <3> DEFINE e == Left(c, found, None, "unlink", None)
      <3>1. /\ e \in Calls /\ e.of = c.of /\ e.op = c.op /\ e.at = "unlink" /\ e.todo = found
        BY <1>7 DEF Left
      <3>2. \A m \in Names : Pruned(e, m) => m \in c.of /\ disk[m] = Absent
        BY <3>1 DEF Pruned
      <3> HIDE DEF e
      <3> QED
        BY <2>1, <2>2, <3>1, <3>2, <1>1, <1>3, <1>4, <1>6 DEF e
    <2>3. CASE Step(p, Answer(c, Failed))
      BY <2>1, <2>3, <1>3, <1>4, <1>8, StoreAssumption DEF Answer, Left, Pruned
    <2> QED
      BY <1>10, <2>2, <2>3 DEF List, c
  <1>11. CASE RemoveEnd(p)
    <2>1. /\ c.at = "unlink" /\ c.todo = {} /\ UNCHANGED <<disk, cache, seen>>
          /\ Step(p, Answer(c, c.answer))
      BY <1>11 DEF RemoveEnd, c
    <2> QED
      <3> DEFINE e == Answer(c, c.answer)
      <3>1. /\ e \in Calls /\ e.of = c.of /\ e.op = c.op /\ e.at = "done" /\ e.todo = c.todo
            /\ e.answer = c.answer
        BY <2>1, <1>8, <1>9 DEF Answer, Left
      <3>2. \A m \in Names : Pruned(e, m) => Pruned(c, m)
        BY <2>1, <3>1 DEF Pruned
      <3>3. Step(p, e)
        BY <2>1
      <3> HIDE DEF e
      <3> QED
        BY <2>1, <3>1, <3>2, <3>3, <1>1, <1>3, <1>4, <1>5
  <1>12. ASSUME NEW n \in Names, Unlink(p, n) PROVE IInvAlone'
    <2>1. c.at = "unlink" /\ n \in c.todo /\ UNCHANGED cache
      BY <1>12 DEF Unlink, At, c
    <2>2. CASE Put(n, Absent) /\ Step(p, Left(c, c.todo, n, "evict", c.answer))
      <3> DEFINE e == Left(c, c.todo, n, "evict", c.answer)
      <3>1. /\ \A m \in Names \ {n} : disk'[m] = disk[m] /\ cache'[m] = cache[m]
            /\ disk'[n] = Absent
            /\ \A q \in Procs : seen[q] \subseteq seen'[q]
        BY <2>1, <2>2 DEF Put, IInv, TypeOK
      <3>2. /\ e \in Calls /\ e.of = c.of /\ e.op = c.op /\ e.at = "evict" /\ e.gone = n
            /\ e.todo = c.todo /\ e.answer = c.answer
        BY <1>1, <1>7, <1>9 DEF Left
      <3>3. Step(p, e)
        BY <2>2
      <3>4. \A m \in Names : Pruned(e, m) => m # n /\ Pruned(c, m)
        BY <2>1, <3>2 DEF Pruned
      <3> HIDE DEF e
      <3> QED
        BY <2>1, <3>1, <3>2, <3>3, <3>4, <1>1, <1>3, <1>4, <1>5
    <2>3. CASE /\ UNCHANGED <<disk, seen>>
               /\ Step(p, Left(c, c.todo \ {n}, None, "unlink", Failed))
      <3> DEFINE e == Left(c, c.todo \ {n}, None, "unlink", Failed)
      <3>1. /\ e \in Calls /\ e.of = c.of /\ e.op = c.op /\ e.at = "unlink" /\ e.answer = Failed
        BY <1>1, <1>7 DEF Left
      <3>2. \A m \in Names : ~Pruned(e, m)
        BY <3>1, StoreAssumption DEF Pruned
      <3>3. Step(p, e)
        BY <2>3
      <3> HIDE DEF e
      <3> QED
        BY <2>1, <2>3, <3>1, <3>2, <3>3, <1>1, <1>3, <1>4
    <2> QED
      BY <1>12, <2>2, <2>3 DEF Unlink, c
  <1>13. ASSUME NEW n \in Names, Evict(p, n) PROVE IInvAlone'
    <2> DEFINE e == Left(c, c.todo \ {n}, None, "unlink", c.answer)
    <2>1. /\ c.at = "evict" /\ n \in c.todo /\ c.gone = n /\ UNCHANGED <<disk, seen>>
          /\ cache' = [cache EXCEPT ![n] = None] /\ Step(p, e)
      BY <1>13 DEF Evict, At, c
    <2>2. disk[n] = Absent
      BY <2>1 DEF IInvAlone, Secured, c
    <2>3. /\ \A m \in Names \ {n} : disk'[m] = disk[m] /\ cache'[m] = cache[m]
          /\ disk'[n] = Absent /\ cache'[n] = None
      BY <2>1, <2>2 DEF IInv, TypeOK
    <2>4. /\ e \in Calls /\ e.of = c.of /\ e.op = c.op /\ e.at = "unlink"
          /\ e.todo = c.todo \ {n} /\ e.answer = c.answer
      BY <1>1, <1>7, <1>9 DEF Left
    <2>5. \A m \in Names : Pruned(e, m) => m = n \/ Pruned(c, m)
      BY <2>1, <2>4 DEF Pruned
    <2> HIDE DEF e
    <2> QED
      BY <2>1, <2>3, <2>4, <2>5, <1>1, <1>3, <1>4, <1>5
  <1> QED
    BY <1>10, <1>11, <1>12, <1>13

LEMMA StepAlone == ASSUME Racing = FALSE, IInv, IInvAlone, [Next]_vars PROVE IInvAlone'
  <1>1. CASE UNCHANGED vars
    BY <1>1 DEF vars, IInvAlone, Disciplined, Coherence, Between, Secured, Pruned, Settled
  <1>2. CASE Restart
    <2>1. CASE Procs = {}
      BY <1>2, <2>1 DEF Restart, IInv, TypeOK, IInvAlone, Disciplined, Coherence
    <2>2. CASE \E p \in Procs : TRUE
      BY <1>2, <2>2, EndAlone
    <2> QED
      BY <2>1, <2>2
  <1>3. ASSUME NEW p \in Procs, Begin(p) \/ Return(p) \/ List(p) \/ RemoveEnd(p) PROVE IInvAlone'
    BY <1>3, BeginAlone, EndAlone, RemovalsAlone
  <1>4. ASSUME NEW p \in Procs, NEW n \in Names,
               \/ Lookup(p, n) \/ Load(p, n) \/ Fill(p, n) \/ Exists(p, n)
               \/ Stat(p, n) \/ Open(p, n) \/ Write(p, n) \/ Keep(p, n)
               \/ Unlink(p, n) \/ Evict(p, n)
        PROVE  IInvAlone'
    BY <1>4, ReadsAlone, SavesAlone, RemovalsAlone
  <1> QED
    BY <1>1, <1>2, <1>3, <1>4 DEF Next

LEMMA Alone == ASSUME Racing = FALSE PROVE Spec => [](IInv /\ IInvAlone)
  <1>1. IInv /\ IInvAlone /\ [Next]_vars => (IInv /\ IInvAlone)'
    BY StepOrderly, StepAlone
  <1> QED
    BY <1>1, InitOrderly, InitAlone, PTL DEF Spec

(* As long as nobody else uses a lock that is being written, a cached lock *)
(* is what its file holds, outside the call that writes it.                *)
THEOREM CacheIsCoherent == ASSUME Racing = FALSE PROVE Spec => []CoherentCache
  <1>1. IInv /\ IInvAlone => CoherentCache
    BY DEF IInv, Orderly, Shape, IInvAlone, Coherence, Between, CoherentCache, Writing, Writers
  <1> QED
    BY <1>1, Alone, PTL

(* As long as nobody else uses a lock that is being written, Get and       *)
(* GetOrNew return what the file held while they ran.                      *)
THEOREM ReadsAreCurrent == ASSUME Racing = FALSE PROVE Spec => []AnswersAreCurrent
  <1>1. IInv /\ IInvAlone => AnswersAreCurrent
    BY DEF IInvAlone, Settled, AnswersAreCurrent
  <1> QED
    BY <1>1, Alone, PTL

(* As long as nobody else uses a lock that is being written, PruneOrphans  *)
(* leaves no orphan behind when it returns without an error.               *)
THEOREM NoOrphanIsLeft == ASSUME Racing = FALSE PROVE Spec => []PruneIsComplete
  <1>1. IInv /\ IInvAlone => PruneIsComplete
    BY DEF IInv, Orderly, Scope, Shape, IInvAlone, Secured, Pruned, PruneIsComplete
  <1> QED
    BY <1>1, Alone, PTL
=============================================================================
