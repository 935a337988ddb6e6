---------------------------- MODULE TargetPidSet ----------------------------
(***************************************************************************)
(* EffectConfig.h, class TargetPidSet: the set of targeted processes.      *)
(* Writers (the UI thread) change pids_ under mutex_ and then store a      *)
(* cache: the only member, or kNoCachedPid.  Readers (the capture thread,  *)
(* for every packet) answer from the cache without the mutex when it holds *)
(* a pid, and look the pid up under the mutex otherwise.                   *)
(*                                                                         *)
(* cached_pid_ is one atomic, stored and loaded in the model's order.      *)
(***************************************************************************)
EXTENDS Naturals, FiniteSets

CONSTANTS
  Pids,           \* process ids: every uint32_t, so that kNoCachedPid is one of them
  kNoCachedPid,   \* the largest uint32_t, which stands for "no cache"
  Writers, Readers,
  Nobody          \* mutex_ is free

ASSUME SentinelAssumption == kNoCachedPid \in Pids
ASSUME NobodyAssumption == Nobody \notin Writers \cup Readers
ASSUME ThreadsAssumption == Writers \cap Readers = {}

VARIABLES
  mutex,        \* mutex_: the thread that holds it
  pids,         \* pids_
  cached_pid,   \* cached_pid_
  writer,       \* for every writer: where it is in its operation
  reader,       \* for every reader: where it is in Contains
  target        \* history: the set after the last store of the cache

vars == <<mutex, pids, cached_pid, writer, reader, target>>

Operations == [name : {"Add", "Remove", "Clear", "SetSelectedPid"}, pid : Pids]

Idle == [pc |-> "idle"]

Init ==
  /\ mutex = Nobody
  /\ pids = {}
  /\ cached_pid = kNoCachedPid
  /\ writer = [w \in Writers |-> Idle]
  /\ reader = [r \in Readers |-> Idle]
  /\ target = {}

-----------------------------------------------------------------------------
(* Add, Remove, Clear, SetSelectedPid *)

Call(w, op) ==
  /\ writer[w] = Idle
  /\ writer' = [writer EXCEPT ![w] = [pc |-> "lock", op |-> op]]
  /\ UNCHANGED <<mutex, pids, cached_pid, reader, target>>

Lock(w) ==
  /\ writer[w].pc = "lock"
  /\ mutex = Nobody
  /\ mutex' = w
  /\ writer' = [writer EXCEPT ![w] = [pc |-> "change", op |-> writer[w].op]]
  /\ UNCHANGED <<pids, cached_pid, reader, target>>

\* The set after the operation's calls on pids_.
Changed(op, S) ==
  CASE op.name = "Add" -> S \cup {op.pid}
    [] op.name = "Remove" -> S \ {op.pid}
    [] op.name = "Clear" -> {}
    [] op.name = "SetSelectedPid" -> {op.pid}

\* pids_ is only read under the mutex, so its changes are one step.
Change(w) ==
  /\ writer[w].pc = "change"
  /\ pids' = Changed(writer[w].op, pids)
  /\ writer' = [writer EXCEPT ![w] = [pc |-> "store", op |-> writer[w].op]]
  /\ UNCHANGED <<mutex, cached_pid, reader, target>>

\* Seeded fault: the cache is any member of the set.
CacheAnyMember(op) == IF pids = {} THEN kNoCachedPid ELSE CHOOSE p \in pids : TRUE

\* What is stored: Clear and SetSelectedPid know it, Add and Remove call
\* RefreshCachedPidLocked.
CacheOf(op) ==
  CASE op.name = "Clear" -> kNoCachedPid
    [] op.name = "SetSelectedPid" -> op.pid
    [] OTHER -> IF Cardinality(pids) = 1 THEN CHOOSE p \in pids : TRUE ELSE kNoCachedPid

StoreCache(w) ==
  /\ writer[w].pc = "store"
  /\ cached_pid' = CacheOf(writer[w].op)
  /\ target' = pids
  /\ writer' = [writer EXCEPT ![w] = [pc |-> "unlock"]]
  /\ UNCHANGED <<mutex, pids, reader>>

Unlock(w) ==
  /\ writer[w].pc = "unlock"
  /\ mutex' = Nobody
  /\ writer' = [writer EXCEPT ![w] = Idle]
  /\ UNCHANGED <<pids, cached_pid, reader, target>>

-----------------------------------------------------------------------------
(* Contains *)

Ask(r, pid) ==
  /\ reader[r] = Idle
  /\ reader' = [reader EXCEPT ![r] = [pc |-> "load", pid |-> pid]]
  /\ UNCHANGED <<mutex, pids, cached_pid, writer, target>>

\* The fast path: a cached pid answers the question.
LoadCache(r) ==
  /\ reader[r].pc = "load"
  /\ reader' = [reader EXCEPT ![r] =
       IF cached_pid # kNoCachedPid
         THEN [pc |-> "return", answer |-> cached_pid = reader[r].pid]
         ELSE [pc |-> "lock", pid |-> reader[r].pid]]
  /\ UNCHANGED <<mutex, pids, cached_pid, writer, target>>

ReaderLock(r) ==
  /\ reader[r].pc = "lock"
  /\ mutex = Nobody
  /\ mutex' = r
  /\ reader' = [reader EXCEPT ![r] = [pc |-> "lookup", pid |-> reader[r].pid]]
  /\ UNCHANGED <<pids, cached_pid, writer, target>>

\* Seeded fault: the slow path trusts the cache that it read as empty.
LookupNothing(r) ==
  /\ reader[r].pc = "lookup"
  /\ mutex' = Nobody
  /\ reader' = [reader EXCEPT ![r] = [pc |-> "return", answer |-> FALSE]]
  /\ UNCHANGED <<pids, cached_pid, writer, target>>

\* pids_.contains(pid); the lock is released with the scope.
Lookup(r) ==
  /\ reader[r].pc = "lookup"
  /\ mutex' = Nobody
  /\ reader' = [reader EXCEPT ![r] = [pc |-> "return", answer |-> reader[r].pid \in pids]]
  /\ UNCHANGED <<pids, cached_pid, writer, target>>

Return(r) ==
  /\ reader[r].pc = "return"
  /\ reader' = [reader EXCEPT ![r] = Idle]
  /\ UNCHANGED <<mutex, pids, cached_pid, writer, target>>

-----------------------------------------------------------------------------
WriterStep(w) ==
  \/ \E op \in Operations : Call(w, op)
  \/ Lock(w) \/ Change(w) \/ StoreCache(w) \/ Unlock(w)

ReaderStep(r) ==
  \/ \E pid \in Pids : Ask(r, pid)
  \/ LoadCache(r) \/ ReaderLock(r) \/ Lookup(r) \/ Return(r)

Next ==
  \/ \E w \in Writers : WriterStep(w)
  \/ \E r \in Readers : ReaderStep(r)

Spec == Init /\ [][Next]_vars

-----------------------------------------------------------------------------
(* Properties *)

WriterStates ==
  {Idle, [pc |-> "unlock"]} \cup [pc : {"lock", "change", "store"}, op : Operations]
ReaderStates ==
  {Idle} \cup [pc : {"load", "lock", "lookup"}, pid : Pids]
         \cup [pc : {"return"}, answer : BOOLEAN]

\* Every variable stays in its range.
TypeOK ==
  /\ mutex \in Writers \cup Readers \cup {Nobody}
  /\ pids \in SUBSET Pids /\ IsFiniteSet(pids)
  /\ cached_pid \in Pids
  /\ writer \in [Writers -> WriterStates]
  /\ reader \in [Readers -> ReaderStates]
  /\ target \in SUBSET Pids

\* A thread is in the critical section exactly when it holds the mutex.
MutexHeld ==
  /\ \A w \in Writers : writer[w].pc \in {"change", "store", "unlock"} <=> mutex = w
  /\ \A r \in Readers : reader[r].pc = "lookup" <=> mutex = r

\* A cached pid is the one member of the set, as readers see the set; and the
\* set that the mutex protects is the one readers see, except while a writer
\* is between changing it and storing the cache.
CacheCoherent ==
  /\ cached_pid # kNoCachedPid => target = {cached_pid}
  /\ \A w \in Writers : writer[w].pc = "store" => pids = Changed(writer[w].op, target)
  /\ (\A w \in Writers : writer[w].pc # "store") => pids = target

\* The inductive invariant.
IInv == TypeOK /\ MutexHeld /\ CacheCoherent

(***************************************************************************)
(* Linearization points: an update takes effect when the cache is stored,  *)
(* a fast Contains when the cache is loaded, a slow one at the lookup.     *)
(***************************************************************************)
Writing == [w \in Writers |->
  CASE writer[w].pc = "idle" -> [stage |-> "idle"]
    [] writer[w].pc = "unlock" -> [stage |-> "done"]
    [] OTHER -> [stage |-> "called", op |-> writer[w].op]]
Asking == [r \in Readers |->
  CASE reader[r].pc = "idle" -> [stage |-> "idle"]
    [] reader[r].pc = "return" -> [stage |-> "done", answer |-> reader[r].answer]
    [] OTHER -> [stage |-> "called", pid |-> reader[r].pid]]

Atomic == INSTANCE TargetSet WITH writing <- Writing, asking <- Asking

\* Contains without the mutex is as good as Contains with it: the object is a
\* linearizable set, whichever pid is targeted, the sentinel's included.
Linearizable == Atomic!Spec
=============================================================================
