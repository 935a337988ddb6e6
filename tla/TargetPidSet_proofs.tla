------------------------- MODULE TargetPidSet_proofs -------------------------
(***************************************************************************)
(* TargetPidSet is a linearizable set for any number of threads and pids.  *)
(***************************************************************************)
EXTENDS TargetPidSet, FiniteSetTheorems, TLAPS

\* What RefreshCachedPidLocked stores is a pid, and unless it is the sentinel
\* it is the only member of the set.
LEMMA CacheOfCorrect ==
  ASSUME NEW op \in Operations, IsFiniteSet(pids),
         op.name = "Clear" => pids = {},
         op.name = "SetSelectedPid" => pids = {op.pid},
         pids \subseteq Pids
  PROVE  /\ CacheOf(op) \in Pids
         /\ CacheOf(op) # kNoCachedPid => pids = {CacheOf(op)}
<1>1. CASE op.name = "Clear"
  BY <1>1, SentinelAssumption DEF CacheOf, Operations
<1>2. CASE op.name = "SetSelectedPid"
  BY <1>2 DEF CacheOf, Operations
<1>3. CASE op.name \in {"Add", "Remove"}
  <2>1. CacheOf(op) = IF Cardinality(pids) = 1 THEN CHOOSE p \in pids : TRUE ELSE kNoCachedPid
    BY <1>3 DEF CacheOf
  <2>2. CASE Cardinality(pids) # 1
    BY <2>1, <2>2, SentinelAssumption
  <2>3. CASE Cardinality(pids) = 1
    <3>1. PICK p : pids = {p}
      BY <2>3, FS_Singleton
    <3> QED
      BY <2>1, <2>3, <3>1
  <2> QED
    BY <2>2, <2>3
<1> QED
  BY <1>1, <1>2, <1>3 DEF Operations

\* Every operation turns a finite set of pids into one.
LEMMA ChangedType ==
  ASSUME NEW op \in Operations, NEW S \in SUBSET Pids, IsFiniteSet(S)
  PROVE  Changed(op, S) \in SUBSET Pids /\ IsFiniteSet(Changed(op, S))
<1>1. IsFiniteSet(S \cup {op.pid}) /\ IsFiniteSet(S \ {op.pid}) /\ IsFiniteSet({})
      /\ IsFiniteSet({op.pid})
  BY FS_AddElement, FS_RemoveElement, FS_EmptySet, FS_Singleton
<1> QED
  BY <1>1 DEF Changed, Operations

\* The invariant holds of a new set, which is empty and locked by nobody.
LEMMA InitIInv == Init => IInv
BY FS_EmptySet, SentinelAssumption, NobodyAssumption
   DEF Init, IInv, TypeOK, MutexHeld, CacheCoherent, Idle, WriterStates, ReaderStates

\* Every step preserves the invariant, one case for every action.
LEMMA StepIInv == IInv /\ [Next]_vars => IInv'
<1> SUFFICES ASSUME IInv, [Next]_vars PROVE IInv'
  OBVIOUS
<1> USE SentinelAssumption, NobodyAssumption, ThreadsAssumption DEF IInv, Idle
<1>1. ASSUME NEW w \in Writers, NEW op \in Operations, Call(w, op) PROVE IInv'
  <2>1. TypeOK'
    BY <1>1 DEF Call, TypeOK, WriterStates
  <2>2. MutexHeld'
    BY <1>1 DEF Call, TypeOK, MutexHeld
  <2>3. CacheCoherent'
    BY <1>1 DEF Call, TypeOK, CacheCoherent
  <2> QED
    BY <2>1, <2>2, <2>3
<1>2. ASSUME NEW w \in Writers, Lock(w) PROVE IInv'
  <2>1. writer[w] \in [pc : {"lock", "change", "store"}, op : Operations]
    BY <1>2 DEF Lock, TypeOK, WriterStates
  <2>2. writer' = [writer EXCEPT ![w] = [pc |-> "change", op |-> writer[w].op]]
    BY <1>2 DEF Lock
  <2>3. TypeOK'
    BY <1>2, <2>1, <2>2 DEF Lock, TypeOK, WriterStates
  <2>4. MutexHeld'
    BY <1>2, <2>2 DEF Lock, TypeOK, MutexHeld
  <2>5. CacheCoherent'
    BY <1>2, <2>2 DEF Lock, TypeOK, CacheCoherent
  <2> QED
    BY <2>3, <2>4, <2>5
<1>3. ASSUME NEW w \in Writers, Change(w) PROVE IInv'
  <2>1. writer[w] \in [pc : {"lock", "change", "store"}, op : Operations] /\ mutex = w
    BY <1>3 DEF Change, TypeOK, WriterStates, MutexHeld
  <2>2. writer' = [writer EXCEPT ![w] = [pc |-> "store", op |-> writer[w].op]]
    BY <1>3 DEF Change
  <2>3. \A v \in Writers : writer[v].pc # "store"
    BY <1>3, <2>1 DEF Change, MutexHeld
  <2>4. TypeOK'
    BY <1>3, <2>1, <2>2, ChangedType DEF Change, TypeOK, WriterStates
  <2>5. MutexHeld'
    BY <1>3, <2>2 DEF Change, TypeOK, MutexHeld
  <2>6. CacheCoherent'
    <3>1. pids = target
      BY <2>3 DEF CacheCoherent
    <3> QED
      BY <1>3, <2>2, <2>3, <3>1 DEF Change, TypeOK, CacheCoherent
  <2> QED
    BY <2>4, <2>5, <2>6
<1>4. ASSUME NEW w \in Writers, StoreCache(w) PROVE IInv'
  <2> DEFINE op == writer[w].op
  <2>1. op \in Operations /\ mutex = w
    BY <1>4 DEF StoreCache, TypeOK, WriterStates, MutexHeld
  <2>2. pids = Changed(op, target)
    BY <1>4 DEF StoreCache, CacheCoherent
  <2>3. /\ CacheOf(op) \in Pids
        /\ CacheOf(op) # kNoCachedPid => pids = {CacheOf(op)}
    BY <2>1, <2>2, CacheOfCorrect DEF TypeOK, Changed, Operations
  <2>4. \A v \in Writers : v # w => writer[v].pc # "store"
    BY <2>1 DEF MutexHeld
  <2>5. TypeOK'
    BY <1>4, <2>3 DEF StoreCache, TypeOK, WriterStates
  <2>6. MutexHeld'
    BY <1>4, <2>1 DEF StoreCache, TypeOK, MutexHeld
  <2>7. CacheCoherent'
    BY <1>4, <2>3, <2>4 DEF StoreCache, TypeOK, CacheCoherent
  <2> QED
    BY <2>5, <2>6, <2>7
<1>5. ASSUME NEW w \in Writers, Unlock(w) PROVE IInv'
  <2>1. TypeOK'
    BY <1>5 DEF Unlock, TypeOK, WriterStates
  <2>2. MutexHeld'
    BY <1>5 DEF Unlock, TypeOK, MutexHeld
  <2>3. CacheCoherent'
    BY <1>5 DEF Unlock, TypeOK, CacheCoherent
  <2> QED
    BY <2>1, <2>2, <2>3
<1>6. ASSUME NEW r \in Readers, NEW pid \in Pids, Ask(r, pid) PROVE IInv'
  <2>1. TypeOK'
    BY <1>6 DEF Ask, TypeOK, ReaderStates
  <2>2. MutexHeld'
    BY <1>6 DEF Ask, TypeOK, MutexHeld
  <2>3. CacheCoherent'
    BY <1>6 DEF Ask, CacheCoherent
  <2> QED
    BY <2>1, <2>2, <2>3
<1>7. ASSUME NEW r \in Readers, LoadCache(r) PROVE IInv'
  <2>1. reader[r].pid \in Pids
    BY <1>7 DEF LoadCache, TypeOK, ReaderStates
  <2>2. TypeOK'
    BY <1>7, <2>1 DEF LoadCache, TypeOK, ReaderStates
  <2>3. MutexHeld'
    BY <1>7 DEF LoadCache, TypeOK, MutexHeld
  <2>4. CacheCoherent'
    BY <1>7 DEF LoadCache, CacheCoherent
  <2> QED
    BY <2>2, <2>3, <2>4
<1>8. ASSUME NEW r \in Readers, ReaderLock(r) PROVE IInv'
  <2>1. reader[r] \in [pc : {"load", "lock", "lookup"}, pid : Pids]
    BY <1>8 DEF ReaderLock, TypeOK, ReaderStates
  <2>2. reader' = [reader EXCEPT ![r] = [pc |-> "lookup", pid |-> reader[r].pid]]
    BY <1>8 DEF ReaderLock
  <2>3. TypeOK'
    BY <1>8, <2>1, <2>2 DEF ReaderLock, TypeOK, ReaderStates
  <2>4. MutexHeld'
    BY <1>8, <2>2 DEF ReaderLock, TypeOK, MutexHeld
  <2>5. CacheCoherent'
    BY <1>8 DEF ReaderLock, CacheCoherent
  <2> QED
    BY <2>3, <2>4, <2>5
<1>9. ASSUME NEW r \in Readers, Lookup(r) PROVE IInv'
  <2>1. TypeOK'
    BY <1>9 DEF Lookup, TypeOK, ReaderStates
  <2>2. MutexHeld'
    BY <1>9 DEF Lookup, TypeOK, MutexHeld
  <2>3. CacheCoherent'
    BY <1>9 DEF Lookup, CacheCoherent
  <2> QED
    BY <2>1, <2>2, <2>3
<1>10. ASSUME NEW r \in Readers, Return(r) PROVE IInv'
  <2>1. TypeOK'
    BY <1>10 DEF Return, TypeOK, ReaderStates
  <2>2. MutexHeld'
    BY <1>10 DEF Return, TypeOK, MutexHeld
  <2>3. CacheCoherent'
    BY <1>10 DEF Return, CacheCoherent
  <2> QED
    BY <2>1, <2>2, <2>3
<1>11. CASE UNCHANGED vars
  BY <1>11 DEF vars, TypeOK, MutexHeld, CacheCoherent
<1> QED
  BY <1>1, <1>2, <1>3, <1>4, <1>5, <1>6, <1>7, <1>8, <1>9, <1>10, <1>11
     DEF Next, WriterStep, ReaderStep

\* The invariant holds in every reachable state.
THEOREM Invariance == Spec => []IInv
<1>1. Init => IInv
  BY InitIInv
<1>2. IInv /\ [Next]_vars => IInv'
  BY StepIInv
<1> QED
  BY <1>1, <1>2, PTL DEF Spec

\* A reader that finds a pid in the cache finds the one targeted process.
THEOREM CacheIsCoherent == Spec => []CacheCoherent
BY Invariance, PTL DEF IInv

(***************************************************************************)
(* The refinement of TargetSet.                                            *)
(***************************************************************************)

\* Every step is a step of the atomic set, or invisible to its callers.
LEMMA StepAtomic == IInv /\ [Next]_vars => [Atomic!Next]_(Atomic!vars)
<1> SUFFICES ASSUME IInv, [Next]_vars PROVE [Atomic!Next]_(Atomic!vars)
  OBVIOUS
<1> USE DEF IInv, Idle, Atomic!vars, Atomic!NotWriting, Atomic!NotAsking
<1>1. ASSUME NEW w \in Writers, NEW op \in Operations, Call(w, op) PROVE Atomic!Next
  <2>1. /\ Writing[w] = [stage |-> "idle"]
        /\ Writing' = [Writing EXCEPT ![w] = [stage |-> "called", op |-> op]]
    <3>1. writer'[w] = [pc |-> "lock", op |-> op] /\ writer[w].pc = "idle"
      BY <1>1 DEF Call, TypeOK
    <3>2. \A v \in Writers : v # w => writer'[v] = writer[v]
      BY <1>1 DEF Call, TypeOK
    <3>3. writer'[w].pc = "lock" /\ writer'[w].op = op
      BY <3>1
    <3> QED
      BY <3>1, <3>2, <3>3 DEF Writing
  <2>2. Asking' = Asking /\ target' = target
    BY <1>1 DEF Call, Asking
  <2>3. Atomic!CallWrite(w, op)
    BY <2>1, <2>2 DEF Atomic!CallWrite
  <2> QED
    BY <2>3 DEF Atomic!Next, Operations, Atomic!Operations
<1>2. ASSUME NEW w \in Writers, Lock(w) \/ Change(w) PROVE UNCHANGED Atomic!vars
  <2>1. Writing' = Writing
    BY <1>2 DEF Lock, Change, Writing, TypeOK
  <2>2. Asking' = Asking /\ target' = target
    BY <1>2 DEF Lock, Change, Asking
  <2> QED
    BY <2>1, <2>2
<1>3. ASSUME NEW w \in Writers, StoreCache(w) PROVE Atomic!Next
  <2>1. /\ Writing[w] = [stage |-> "called", op |-> writer[w].op]
        /\ Writing' = [Writing EXCEPT ![w] = [stage |-> "done"]]
    BY <1>3 DEF StoreCache, Writing, TypeOK
  <2>2. target' = Atomic!Effect(writer[w].op, target)
    BY <1>3 DEF StoreCache, CacheCoherent, Changed, Atomic!Effect
  <2>3. Asking' = Asking
    BY <1>3 DEF StoreCache, Asking
  <2>4. Atomic!TakeEffect(w)
    BY <2>1, <2>2, <2>3 DEF Atomic!TakeEffect
  <2> QED
    BY <2>4 DEF Atomic!Next
<1>4. ASSUME NEW w \in Writers, Unlock(w) PROVE Atomic!Next
  <2>1. /\ Writing[w] = [stage |-> "done"]
        /\ Writing' = [Writing EXCEPT ![w] = [stage |-> "idle"]]
    BY <1>4 DEF Unlock, Writing, TypeOK
  <2>2. Asking' = Asking /\ target' = target
    BY <1>4 DEF Unlock, Asking
  <2>3. Atomic!ReturnWrite(w)
    BY <2>1, <2>2 DEF Atomic!ReturnWrite
  <2> QED
    BY <2>3 DEF Atomic!Next
<1>5. ASSUME NEW r \in Readers, NEW pid \in Pids, Ask(r, pid) PROVE Atomic!Next
  <2>1. /\ Asking[r] = [stage |-> "idle"]
        /\ Asking' = [Asking EXCEPT ![r] = [stage |-> "called", pid |-> pid]]
    <3>1. reader'[r] = [pc |-> "load", pid |-> pid] /\ reader[r].pc = "idle"
      BY <1>5 DEF Ask, TypeOK
    <3>2. \A v \in Readers : v # r => reader'[v] = reader[v]
      BY <1>5 DEF Ask, TypeOK
    <3>3. reader'[r].pc = "load" /\ reader'[r].pid = pid
      BY <3>1
    <3> QED
      BY <3>1, <3>2, <3>3 DEF Asking
  <2>2. Writing' = Writing /\ target' = target
    BY <1>5 DEF Ask, Writing
  <2>3. Atomic!CallContains(r, pid)
    BY <2>1, <2>2 DEF Atomic!CallContains
  <2> QED
    BY <2>3 DEF Atomic!Next
<1>6. ASSUME NEW r \in Readers,
             reader[r].pc = "load" \/ reader[r].pc = "lookup",
             reader' = [reader EXCEPT ![r] = [pc |-> "return", answer |-> reader[r].pid \in target]],
             UNCHANGED <<writer, target>>
      PROVE  Atomic!Next
  <2>1. /\ Asking[r] = [stage |-> "called", pid |-> reader[r].pid]
        /\ Asking' = [Asking EXCEPT ![r] = [stage |-> "done", answer |-> reader[r].pid \in target]]
    BY <1>6 DEF Asking, TypeOK
  <2>2. Writing' = Writing
    BY <1>6 DEF Writing
  <2>3. Atomic!Decide(r)
    BY <1>6, <2>1, <2>2 DEF Atomic!Decide
  <2> QED
    BY <2>3 DEF Atomic!Next
<1>7. ASSUME NEW r \in Readers, LoadCache(r) PROVE [Atomic!Next]_(Atomic!vars)
  <2>1. CASE cached_pid # kNoCachedPid
    <3>1. (cached_pid = reader[r].pid) = (reader[r].pid \in target)
      BY <2>1 DEF CacheCoherent
    <3>2. /\ reader' = [reader EXCEPT ![r] = [pc |-> "return", answer |-> cached_pid = reader[r].pid]]
          /\ reader[r].pc = "load" /\ UNCHANGED <<writer, target>>
      BY <1>7, <2>1, Zenon DEF LoadCache
    <3>3. reader' = [reader EXCEPT ![r] = [pc |-> "return", answer |-> reader[r].pid \in target]]
      BY <3>1, <3>2, Zenon
    <3> QED
      BY <1>6, <3>2, <3>3, Zenon
  <2>2. CASE cached_pid = kNoCachedPid
    <3>1. Asking' = Asking
      BY <1>7, <2>2 DEF LoadCache, Asking, TypeOK
    <3>2. Writing' = Writing /\ target' = target
      BY <1>7 DEF LoadCache, Writing
    <3> QED
      BY <3>1, <3>2
  <2> QED
    BY <2>1, <2>2
<1>8. ASSUME NEW r \in Readers, ReaderLock(r) PROVE UNCHANGED Atomic!vars
  <2>1. Asking' = Asking
    BY <1>8 DEF ReaderLock, Asking, TypeOK
  <2>2. Writing' = Writing /\ target' = target
    BY <1>8 DEF ReaderLock, Writing
  <2> QED
    BY <2>1, <2>2
<1>9. ASSUME NEW r \in Readers, Lookup(r) PROVE Atomic!Next
  <2>1. \A w \in Writers : writer[w].pc # "store"
    BY <1>9, ThreadsAssumption DEF Lookup, MutexHeld
  <2>2. pids = target
    BY <2>1 DEF CacheCoherent
  <2> QED
    <3>1. /\ reader' = [reader EXCEPT ![r] = [pc |-> "return", answer |-> reader[r].pid \in target]]
          /\ reader[r].pc = "lookup" /\ UNCHANGED <<writer, target>>
      BY <1>9, <2>2, Zenon DEF Lookup
    <3> QED
      BY <1>6, <3>1, Zenon
<1>10. ASSUME NEW r \in Readers, Return(r) PROVE Atomic!Next
  <2>1. /\ Asking[r].stage = "done"
        /\ Asking' = [Asking EXCEPT ![r] = [stage |-> "idle"]]
    BY <1>10 DEF Return, Asking, TypeOK
  <2>2. Writing' = Writing /\ target' = target
    BY <1>10 DEF Return, Writing
  <2>3. Atomic!ReturnContains(r)
    BY <2>1, <2>2 DEF Atomic!ReturnContains
  <2> QED
    BY <2>3 DEF Atomic!Next
<1>11. CASE UNCHANGED vars
  BY <1>11 DEF vars, Writing, Asking
<1> QED
  BY <1>1, <1>2, <1>3, <1>4, <1>5, <1>7, <1>8, <1>9, <1>10, <1>11
     DEF Next, WriterStep, ReaderStep

\* TargetPidSet is linearizable, although Contains mostly runs without the mutex.
THEOREM IsLinearizable == Spec => Linearizable
<1>1. Init => Atomic!Init
  BY DEF Init, Idle, Writing, Asking, Atomic!Init, Atomic!NotWriting, Atomic!NotAsking
<1>2. IInv /\ [Next]_vars => [Atomic!Next]_(Atomic!vars)
  BY StepAtomic
<1> QED
  BY <1>1, <1>2, Invariance, PTL DEF Spec, Linearizable, Atomic!Spec
=============================================================================
