------------------------------ MODULE LockStore ------------------------------
(***************************************************************************)
(* The lock store: a cache (a sync.Map) in front of the lock directory.    *)
(* Goroutines of one azldev process call it; a cache operation, a read, a  *)
(* stat, an unlink and each half of a write (open with O_TRUNC, write) are *)
(* separate steps, so calls interleave between them.  The process may be   *)
(* killed at any step and started again.                                   *)
(*                                                                         *)
(* A file that is truncated or half written does not parse (or parses as   *)
(* version 0), which Load refuses: it holds Torn.  Racing says whether a   *)
(* call that writes a component's lock may overlap another call on that    *)
(* lock.  azldev's commands never do that: the parallel phases only read,  *)
(* saves and removals are made by one goroutine after them.                *)
(***************************************************************************)
EXTENDS FiniteSets

CONSTANTS Names, Configured,  \* names of locks; of components in the config
          Procs, Locks,       \* goroutines; contents a lock file may have
          Absent, Torn,       \* no file; a file Load refuses
          None, New, Failed,  \* nothing; lockfile.New(); an error
          Racing

ASSUME StoreAssumption == /\ Configured \subseteq Names
                          /\ Racing \in BOOLEAN
                          /\ {Absent, Torn, None, New, Failed} \cap Locks = {}
                          /\ Absent # Torn /\ None # New /\ Failed \notin {None, New}
                          /\ None \notin Names

VARIABLES disk,   \* disk[n]: the file of n in the lock directory
          cache,  \* cache[n]: the entry of Store.cache
          call,   \* call[p]: what p is doing in the store
          seen    \* history: what the files of p's call have held since it
                  \* began

vars == <<disk, cache, call, seen>>

Contents == Locks \cup {Absent, Torn}
Readers  == {"Get", "GetOrNew"}
Writers  == {"Save", "Remove", "PruneOrphans"}
Points   == {"idle", "lookup", "load", "fill", "exists", "stat", "open", "write",
             "keep", "list", "unlink", "evict", "done"}

(* of: the names the call is about; todo: those it is not through with;    *)
(* gone: the one it has unlinked but not evicted; lock: what it read or    *)
(* writes; answer: what it returns (None: neither a value nor an error).   *)
Calls == [op : Readers \cup Writers, of : SUBSET Names, todo : SUBSET Names,
          gone : Names \cup {None}, at : Points, lock : Locks \cup {None},
          answer : Locks \cup {None, New, Failed}]

Begun(op, of, at, lock) == [op |-> op, of |-> of, todo |-> of, gone |-> None,
                            at |-> at, lock |-> lock, answer |-> None]
Idle == Begun("Get", {}, "idle", None)

(* c moves on to the point at; c goes on with these names; c returns a.    *)
Go(c, at) == [op |-> c.op, of |-> c.of, todo |-> c.todo, gone |-> c.gone,
              at |-> at, lock |-> c.lock, answer |-> c.answer]
Left(c, todo, gone, at, a) == [op |-> c.op, of |-> c.of, todo |-> todo,
              gone |-> gone, at |-> at, lock |-> c.lock, answer |-> a]
Answer(c, a) == Left(c, {}, None, "done", a)

(* p is at this point of a call of one of these kinds, about n. *)
At(p, ops, at, n) == call[p].op \in ops /\ call[p].at = at /\ n \in call[p].todo

Step(p, c) == call' = [call EXCEPT ![p] = c]

(* The file of n becomes x, under the eyes of the calls about n. *)
Put(n, x) ==
    /\ disk' = [disk EXCEPT ![n] = x]
    /\ seen' = [p \in Procs |-> IF n \in call[p].of THEN seen[p] \cup {x} ELSE seen[p]]

Init == /\ disk \in [Names -> Contents]
        /\ cache = [n \in Names |-> None]
        /\ call = [p \in Procs |-> Idle]
        /\ seen = [p \in Procs |-> {}]

-----------------------------------------------------------------------------
(* Calls begin and return; the process is killed and started again         *)

(* May a call that touches these names begin? *)
Free(op, of) ==
    \/ Racing
    \/ \A p \in Procs : call[p].of \cap of # {} => {op, call[p].op} \subseteq Readers

Invoke(p, op, of, at, lock) ==
    /\ call[p] = Idle
    /\ Free(op, of)
    /\ Step(p, Begun(op, of, at, lock))
    /\ seen' = [seen EXCEPT ![p] = {disk[n] : n \in of}]
    /\ UNCHANGED <<disk, cache>>

Begin(p) ==
    \/ \E n \in Names, op \in Readers : Invoke(p, op, {n}, "lookup", None)
    \/ \E n \in Names, l \in Locks : Invoke(p, "Save", {n}, "open", l)
    \/ \E n \in Names : Invoke(p, "Remove", {n}, "unlink", None)
    \/ Invoke(p, "PruneOrphans", Names \ Configured, "list", None)

Return(p) ==
    /\ call[p].at = "done"
    /\ Step(p, Idle)
    /\ seen' = [seen EXCEPT ![p] = {}]
    /\ UNCHANGED <<disk, cache>>

Restart ==
    /\ cache' = [n \in Names |-> None]
    /\ call' = [p \in Procs |-> Idle]
    /\ seen' = [p \in Procs |-> {}]
    /\ UNCHANGED disk

-----------------------------------------------------------------------------
(* Get and GetOrNew                                                        *)

Lookup(p, n) ==
    /\ At(p, Readers, "lookup", n)
    /\ Step(p, IF cache[n] # None THEN Answer(call[p], cache[n]) ELSE Go(call[p], "load"))
    /\ UNCHANGED <<disk, cache, seen>>

(* The read may also fail on a file that is in order. *)
Load(p, n) ==
    /\ At(p, Readers, "load", n)
    /\ \/ disk[n] \in Locks /\ Step(p, Begun(call[p].op, call[p].of, "fill", disk[n]))
       \/ Step(p, IF call[p].op = "Get" THEN Answer(call[p], Failed)
                  ELSE Go(call[p], "exists"))
    /\ UNCHANGED <<disk, cache, seen>>

Fill(p, n) ==
    /\ At(p, Readers, "fill", n)
    /\ cache' = [cache EXCEPT ![n] = call[p].lock]
    /\ Step(p, Answer(call[p], call[p].lock))
    /\ UNCHANGED <<disk, seen>>

(* Exists looks in the cache first, then asks the file system. *)
Exists(p, n) ==
    /\ At(p, {"GetOrNew"}, "exists", n)
    /\ Step(p, IF cache[n] # None THEN Answer(call[p], Failed) ELSE Go(call[p], "stat"))
    /\ UNCHANGED <<disk, cache, seen>>

(* Mutant: any error of Get counts as "no lock yet". *)
StatIgnored(p, n) ==
    /\ At(p, {"GetOrNew"}, "stat", n)
    /\ \E a \in {New, Failed} : Step(p, Answer(call[p], a))
    /\ UNCHANGED <<disk, cache, seen>>

Stat(p, n) ==
    /\ At(p, {"GetOrNew"}, "stat", n)
    /\ \/ disk[n] = Absent /\ Step(p, Answer(call[p], New))
       \/ Step(p, Answer(call[p], Failed))
    /\ UNCHANGED <<disk, cache, seen>>

-----------------------------------------------------------------------------
(* Save                                                                    *)

(* MkdirAll, Marshal or the open may fail before the file is touched. *)
Open(p, n) ==
    /\ At(p, {"Save"}, "open", n)
    /\ \/ Put(n, Torn) /\ Step(p, Go(call[p], "write"))
       \/ UNCHANGED <<disk, seen>> /\ Step(p, Answer(call[p], Failed))
    /\ UNCHANGED cache

Write(p, n) ==
    /\ At(p, {"Save"}, "write", n)
    /\ \/ Put(n, call[p].lock) /\ Step(p, Go(call[p], "keep"))
       \/ UNCHANGED <<disk, seen>> /\ Step(p, Answer(call[p], Failed))
    /\ UNCHANGED cache

Keep(p, n) ==
    /\ At(p, {"Save"}, "keep", n)
    /\ cache' = [cache EXCEPT ![n] = call[p].lock]
    /\ Step(p, Answer(call[p], None))
    /\ UNCHANGED <<disk, seen>>

-----------------------------------------------------------------------------
(* Remove and PruneOrphans                                                 *)

(* PruneOrphans reads the lock directory; a configured name is no orphan.  *)
List(p) ==
    /\ call[p].op = "PruneOrphans" /\ call[p].at = "list"
    /\ \/ Step(p, Left(call[p], {n \in call[p].of : disk[n] # Absent}, None,
                       "unlink", None))
       \/ Step(p, Answer(call[p], Failed))
    /\ UNCHANGED <<disk, cache, seen>>

(* fs.Remove: an error when there is no file, and perhaps when there is.   *)
(* PruneOrphans notes the error and goes on to the next orphan; Remove has *)
(* only the one name.                                                      *)
Unlink(p, n) ==
    /\ At(p, {"Remove", "PruneOrphans"}, "unlink", n)
    /\ \/ /\ disk[n] # Absent
          /\ Put(n, Absent)
          /\ Step(p, Left(call[p], call[p].todo, n, "evict", call[p].answer))
       \/ /\ Step(p, Left(call[p], call[p].todo \ {n}, None, "unlink", Failed))
          /\ UNCHANGED <<disk, seen>>
    /\ UNCHANGED cache

(* Mutant: the entry of a lock that is removed stays in the cache. *)
EvictNothing(p, n) ==
    /\ At(p, {"Remove", "PruneOrphans"}, "evict", n) /\ call[p].gone = n
    /\ Step(p, Left(call[p], call[p].todo \ {n}, None, "unlink", call[p].answer))
    /\ UNCHANGED <<disk, cache, seen>>

Evict(p, n) ==
    /\ At(p, {"Remove", "PruneOrphans"}, "evict", n) /\ call[p].gone = n
    /\ cache' = [cache EXCEPT ![n] = None]
    /\ Step(p, Left(call[p], call[p].todo \ {n}, None, "unlink", call[p].answer))
    /\ UNCHANGED <<disk, seen>>

RemoveEnd(p) ==
    /\ call[p].op \in {"Remove", "PruneOrphans"}
    /\ call[p].at = "unlink" /\ call[p].todo = {}
    /\ Step(p, Answer(call[p], call[p].answer))
    /\ UNCHANGED <<disk, cache, seen>>

-----------------------------------------------------------------------------
Next == \/ Restart
        \/ \E p \in Procs : Begin(p) \/ Return(p) \/ List(p) \/ RemoveEnd(p)
        \/ \E p \in Procs, n \in Names :
              \/ Lookup(p, n) \/ Load(p, n) \/ Fill(p, n) \/ Exists(p, n)
              \/ Stat(p, n) \/ Open(p, n) \/ Write(p, n) \/ Keep(p, n)
              \/ Unlink(p, n) \/ Evict(p, n)

Spec == Init /\ [][Next]_vars

-----------------------------------------------------------------------------
(* Properties                                                              *)

(* Every variable has its type; a cached entry is always a readable lock.  *)
TypeOK == /\ disk \in [Names -> Contents]
          /\ cache \in [Names -> Locks \cup {None}]
          /\ call \in [Procs -> Calls]
          /\ seen \in [Procs -> SUBSET Contents]

Writing(n) == \E p \in Procs : call[p].op \in Writers /\ n \in call[p].of

(* Outside a save or a removal of a component, what is cached for it is    *)
(* what its lock file holds, unless a write failed and left an unreadable  *)
(* file: never an old lock, and never a lock that is gone.                 *)
CoherentCache ==
    \A n \in Names : cache[n] # None /\ ~Writing(n) => disk[n] \in {cache[n], Torn}

(* A lock that Get or GetOrNew returns was in the file at some moment of   *)
(* the call, or the file was unreadable and the last good one is returned. *)
AnswersAreCurrent ==
    \A p \in Procs : call[p].op \in Readers /\ call[p].at = "done"
                     /\ call[p].answer \in Locks
                     => {call[p].answer, Torn} \cap seen[p] # {}

(* GetOrNew gives out an empty lock only if there was a moment without a   *)
(* lock file: never over a file that is corrupt or could not be read, which *)
(* the next save would overwrite.                                          *)
NewOnlyIfMissing ==
    \A p \in Procs : call[p].answer = New => Absent \in seen[p]

(* When PruneOrphans returns without an error, no component outside the    *)
(* configuration has a lock file or a cached lock, so nothing later takes  *)
(* it for one that exists.                                                 *)
PruneIsComplete ==
    \A p \in Procs : call[p].op = "PruneOrphans" /\ call[p].at = "done"
                     /\ call[p].answer = None
                     => \A n \in Names \ Configured : disk[n] = Absent /\ cache[n] = None
=============================================================================
