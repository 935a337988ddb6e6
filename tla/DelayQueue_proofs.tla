-------------------------- MODULE DelayQueue_proofs --------------------------
(***************************************************************************)
(* Proofs about DelayQueue for every capacity, batch size, delay and set   *)
(* of packets.                                                             *)
(***************************************************************************)
EXTENDS DelayQueue, FiniteSetTheorems, SequenceTheorems, TLAPS

(***************************************************************************)
(* Queues as sets of slots.                                                *)
(***************************************************************************)

\* Appending a new element to a queue without repetitions.
LEMMA AppendElements ==
  ASSUME NEW S, NEW q \in Seq(S), NEW e \in S
  PROVE  /\ Append(q, e) \in Seq(S)
         /\ Len(Append(q, e)) = Len(q) + 1
         /\ Elements(Append(q, e)) = Elements(q) \cup {e}
         /\ NoRepeat(q) /\ e \notin Elements(q) => NoRepeat(Append(q, e))
  BY DEF Elements, NoRepeat

\* Taking the head of a queue without repetitions.
LEMMA TailElements ==
  ASSUME NEW S, NEW q \in Seq(S), q # << >>, NoRepeat(q)
  PROVE  /\ Head(q) \in S /\ Head(q) \in Elements(q)
         /\ Tail(q) \in Seq(S)
         /\ Len(Tail(q)) = Len(q) - 1
         /\ Elements(Tail(q)) = Elements(q) \ {Head(q)}
         /\ NoRepeat(Tail(q))
<1>1. /\ Head(q) \in S /\ Tail(q) \in Seq(S) /\ Len(Tail(q)) = Len(q) - 1
      /\ Head(q) = q[1] /\ 1 \in 1 .. Len(q)
      /\ \A i \in 1 .. Len(Tail(q)) : Tail(q)[i] = q[i + 1]
  OBVIOUS
<1>2. Head(q) \in Elements(q)
  BY <1>1 DEF Elements
<1>3. Elements(Tail(q)) \subseteq Elements(q) \ {Head(q)}
  BY <1>1 DEF Elements, NoRepeat
<1>4. ASSUME NEW e \in Elements(q) \ {Head(q)}
      PROVE  e \in Elements(Tail(q))
  <2>1. PICK i \in 1 .. Len(q) : e = q[i] /\ i # 1
    BY <1>1 DEF Elements
  <2>2. i - 1 \in 1 .. Len(Tail(q)) /\ Tail(q)[i - 1] = e
    BY <1>1, <2>1
  <2> QED
    BY <2>2 DEF Elements
<1>5. NoRepeat(Tail(q))
  BY <1>1 DEF NoRepeat
<1> QED
  BY <1>1, <1>2, <1>3, <1>4, <1>5

\* A queue without repetitions is as long as its set is large.
LEMMA LenIsCardinality ==
  ASSUME NEW q \in Seq(Slots), NoRepeat(q)
  PROVE  IsFiniteSet(Elements(q)) /\ Cardinality(Elements(q)) = Len(q)
<1>1. q \in Bijection(1 .. Len(q), Elements(q))
  BY DEF Elements, NoRepeat, Bijection, Injection, Surjection, IsInjective
<1>2. ExistsBijection(1 .. Len(q), Elements(q))
  BY <1>1 DEF ExistsBijection
<1> QED
  BY <1>2, FS_CountingElements, FS_NatBijection, Len(q) \in Nat

\* Two queues that share no slot are together no longer than the pool.
LEMMA RoomForBoth ==
  ASSUME NEW p \in Seq(Slots), NoRepeat(p), NEW q \in Seq(Slots), NoRepeat(q),
         Elements(p) \cap Elements(q) = {}
  PROVE  Len(p) + Len(q) <= Capacity
<1>1. IsFiniteSet(Slots) /\ Cardinality(Slots) = Capacity
  BY FS_Interval, CapacityAssumption DEF Slots
<1>2. /\ IsFiniteSet(Elements(p)) /\ Cardinality(Elements(p)) = Len(p)
      /\ IsFiniteSet(Elements(q)) /\ Cardinality(Elements(q)) = Len(q)
  BY LenIsCardinality
<1>3. Cardinality(Elements(p) \cup Elements(q)) = Len(p) + Len(q) - Cardinality({})
  BY <1>2, FS_Union
<1>4. Elements(p) \cup Elements(q) \subseteq Slots
  BY DEF Elements
<1>5. Cardinality(Elements(p) \cup Elements(q)) <= Capacity
  BY <1>1, <1>4, FS_Subset
<1>6. Cardinality({}) = 0 /\ Len(p) \in Nat /\ Len(q) \in Nat
  BY FS_EmptySet
<1> QED
  BY <1>3, <1>5, <1>6, CapacityAssumption

\* A queue of slots without repetitions that misses a slot is not full.
LEMMA RoomInQueue ==
  ASSUME NEW q \in Seq(Slots), NoRepeat(q), NEW s \in Slots, s \notin Elements(q)
  PROVE  Len(q) < Capacity
<1>1. IsFiniteSet(Slots) /\ Cardinality(Slots) = Capacity
  BY FS_Interval, CapacityAssumption DEF Slots
<1>2. IsFiniteSet(Slots \ {s}) /\ Cardinality(Slots \ {s}) = Capacity - 1
  BY <1>1, FS_RemoveElement
<1>3. /\ IsFiniteSet(Elements(q))
      /\ Cardinality(Elements(q)) <= Capacity - 1
  <2>1. Elements(q) \subseteq Slots \ {s}
    BY DEF Elements
  <2> QED
    BY <1>2, <2>1, FS_Subset
<1>4. Cardinality(Elements(q)) = Len(q)
  BY LenIsCardinality
<1> QED
  BY <1>3, <1>4, CapacityAssumption

\* The set of slots of the empty queue.
LEMMA EmptyElements == Elements(<< >>) = {} /\ NoRepeat(<< >>)
  BY DEF Elements, NoRepeat

\* The elements of a queue are of its type.
LEMMA ElementsType ==
  ASSUME NEW S, NEW q \in Seq(S)
  PROVE  Elements(q) \subseteq S
  BY DEF Elements

(***************************************************************************)
(* The invariant.                                                          *)
(***************************************************************************)

\* The initial state satisfies the invariant.
LEMMA InitSlots == Init => SlotsInv
<1> SUFFICES ASSUME Init PROVE SlotsInv
  OBVIOUS
<1> USE CapacityAssumption, ClockAssumption, ExhaustedAssumption DEF Init, Slots, Times, NoSlot
<1>1. TypeOK
  <2>1. free_queue \in Seq(Slots) /\ << >> \in Seq(Slots)
    BY SeqDef
  <2>2. 0 \in Times /\ 0 \in 0 .. MaxExhausted
    OBVIOUS
  <2> QED
    BY <2>1, <2>2 DEF TypeOK
<1>2. SlotConservation
  <2>1. Elements(free_queue) = Slots /\ NoRepeat(free_queue)
    BY DEF Elements, NoRepeat
  <2> QED
    BY <2>1, EmptyElements DEF SlotConservation, InHand
<1>3. ThreadsOK
  BY DEF ThreadsOK
<1>4. BatchDue
  BY BatchSizeAssumption DEF BatchDue
<1>5. HeldIntact
  BY EmptyElements DEF HeldIntact, Queued
<1> QED
  BY <1>1, <1>2, <1>3, <1>4, <1>5 DEF SlotsInv

\* Every step preserves it, one case for every action.
LEMMA StepSlots == SlotsInv /\ [Next]_vars => SlotsInv'
<1> SUFFICES ASSUME SlotsInv, [Next]_vars PROVE SlotsInv'
  OBVIOUS
<1> USE CapacityAssumption, BatchSizeAssumption, IdsAssumption, ClockAssumption, ExhaustedAssumption
<1> USE DEF SlotsInv, vars, capture_vars, drain_vars, NoSlot
<1>1. CASE PushRefused
  <2>1. TypeOK'
    BY <1>1 DEF PushRefused, TypeOK
  <2>2. SlotConservation'
    BY <1>1 DEF PushRefused, TypeOK, SlotConservation, InHand
  <2>3. ThreadsOK'
    BY <1>1 DEF PushRefused, TypeOK, ThreadsOK
  <2>4. BatchDue'
    BY <1>1 DEF PushRefused, TypeOK, BatchDue, ThreadsOK
  <2>5. HeldIntact'
    BY <1>1 DEF PushRefused, TypeOK, SlotConservation, InHand, ThreadsOK, HeldIntact, Queued
  <2> QED
    BY <2>1, <2>2, <2>3, <2>4, <2>5
<1>2. ASSUME NEW id \in Ids, NEW release_at \in Times, PushTake(id, release_at)
      PROVE  SlotsInv'
  <2>1. /\ Head(free_queue) \in Slots /\ Head(free_queue) \in Elements(free_queue)
        /\ free_queue' \in Seq(Slots)
        /\ NoRepeat(free_queue') /\ Elements(free_queue') = Elements(free_queue) \ {Head(free_queue)}
    BY <1>2, TailElements DEF PushTake, TypeOK, SlotConservation
  <2>2. capture_slot = 0 /\ capture_slot' = Head(free_queue) /\ capture_slot' # 0
    BY <1>2, <2>1 DEF PushTake, ThreadsOK, Slots
  <2>3. capture_packet' \in Packets /\ capture_packet'.id = id
    BY <1>2 DEF PushTake, Packets
  <2>4. \A s \in Queued : memory_pool[s].id # id
    BY <1>2 DEF PushTake, HeldIds, Held
  <2>5. TypeOK'
    <3>1. HeldIds \subseteq Ids
      BY DEF HeldIds, Held, HeldIntact, ThreadsOK, Packets
    <3> QED
      BY <1>2, <2>1, <2>2, <2>3, <3>1 DEF PushTake, TypeOK
  <2>6. SlotConservation'
    BY <1>2, <2>1, <2>2 DEF PushTake, SlotConservation, InHand
  <2>7. ThreadsOK'
    BY <1>2, <2>1, <2>2, <2>3 DEF PushTake, ThreadsOK
  <2>8. BatchDue'
    BY <1>2 DEF PushTake, BatchDue
  <2>9. HeldIntact'
    BY <1>2, <2>3, <2>4 DEF PushTake, HeldIntact, Queued
  <2> QED
    BY <2>5, <2>6, <2>7, <2>8, <2>9
<1>3. CASE PushCopy
  <2>1. TypeOK'
    BY <1>3 DEF PushCopy, TypeOK, ThreadsOK
  <2>2. SlotConservation'
    BY <1>3 DEF PushCopy, TypeOK, SlotConservation, InHand
  <2>3. ThreadsOK'
    BY <1>3 DEF PushCopy, TypeOK, ThreadsOK
  <2>4. capture_slot \in Slots /\ capture_slot \notin Queued
    BY <1>3 DEF PushCopy, SlotConservation, InHand, ThreadsOK, Queued, Slots
  <2>5. Queued' = Queued /\ Queued \subseteq Slots
    BY <1>3, ElementsType DEF PushCopy, Queued, TypeOK
  <2>6. /\ memory_pool'[capture_slot] = capture_packet
        /\ \A s \in Queued : memory_pool'[s] = memory_pool[s]
    BY <1>3, <2>4, <2>5 DEF PushCopy, TypeOK
  <2>7. BatchDue'
    BY <1>3, <2>6 DEF PushCopy, BatchDue, Queued
  <2>8. HeldIntact'
    BY <1>3, <2>5, <2>6 DEF PushCopy, HeldIntact
  <2> QED
    BY <2>1, <2>2, <2>3, <2>7, <2>8
<1>4. CASE PushHandoff
  <2>1. /\ handoff_queue' \in Seq(Slots) /\ Len(handoff_queue') = Len(handoff_queue) + 1
         /\ NoRepeat(handoff_queue') /\ Elements(handoff_queue') = Elements(handoff_queue) \cup {capture_slot}
    BY <1>4, AppendElements DEF PushHandoff, TypeOK, SlotConservation, InHand, ThreadsOK, Slots
  <2>2. TypeOK'
    BY <1>4, <2>1 DEF PushHandoff, TypeOK
  <2>3. SlotConservation'
    BY <1>4, <2>1 DEF PushHandoff, TypeOK, SlotConservation, InHand, Slots
  <2>4. ThreadsOK'
    BY <1>4, <2>1 DEF PushHandoff, TypeOK, ThreadsOK
  <2>5. BatchDue'
    BY <1>4, <2>1 DEF PushHandoff, TypeOK, BatchDue, ThreadsOK
  <2>6. HeldIntact'
    BY <1>4, <2>1 DEF PushHandoff, TypeOK, SlotConservation, InHand, ThreadsOK, HeldIntact, Queued
  <2> QED
    BY <2>2, <2>3, <2>4, <2>5, <2>6
<1>5. CASE CaptureExits
  <2>1. TypeOK'
    BY <1>5 DEF CaptureExits, TypeOK
  <2>2. SlotConservation'
    BY <1>5 DEF CaptureExits, TypeOK, SlotConservation, InHand
  <2>3. ThreadsOK'
    BY <1>5 DEF CaptureExits, TypeOK, ThreadsOK
  <2>4. BatchDue'
    BY <1>5 DEF CaptureExits, TypeOK, BatchDue, ThreadsOK
  <2>5. HeldIntact'
    BY <1>5 DEF CaptureExits, TypeOK, SlotConservation, InHand, ThreadsOK, HeldIntact, Queued
  <2> QED
    BY <2>1, <2>2, <2>3, <2>4, <2>5
<1>6. CASE DrainCheck
  <2>1. TypeOK'
    BY <1>6 DEF DrainCheck, TypeOK
  <2>2. SlotConservation'
    BY <1>6 DEF DrainCheck, TypeOK, SlotConservation, InHand
  <2>3. ThreadsOK'
    BY <1>6 DEF DrainCheck, TypeOK, ThreadsOK
  <2>4. BatchDue'
    BY <1>6 DEF DrainCheck, TypeOK, BatchDue, ThreadsOK
  <2>5. HeldIntact'
    BY <1>6 DEF DrainCheck, TypeOK, SlotConservation, InHand, ThreadsOK, HeldIntact, Queued
  <2> QED
    BY <2>1, <2>2, <2>3, <2>4, <2>5
<1>7. CASE DrainCollect
  <2>1. /\ Head(handoff_queue) \in Slots /\ Head(handoff_queue) \in Elements(handoff_queue)
         /\ handoff_queue' \in Seq(Slots) /\ Len(handoff_queue') = Len(handoff_queue) - 1
         /\ NoRepeat(handoff_queue') /\ Elements(handoff_queue') = Elements(handoff_queue) \ {Head(handoff_queue)}
    BY <1>7, TailElements DEF DrainCollect, TypeOK, SlotConservation
  <2>2. TypeOK'
    BY <1>7, <2>1 DEF DrainCollect, TypeOK
  <2>3. SlotConservation'
    <3>1. \A s : s \in scheduled' <=> s \in scheduled \/ s = Head(handoff_queue)
      BY <1>7 DEF DrainCollect
    <3>2. /\ free_queue' = free_queue /\ ready' = ready /\ capture_slot' = capture_slot
      BY <1>7 DEF DrainCollect
    <3> QED
      BY <2>1, <3>1, <3>2 DEF SlotConservation, InHand
  <2>4. ThreadsOK'
    BY <1>7, <2>1 DEF DrainCollect, TypeOK, ThreadsOK
  <2>5. BatchDue'
    BY <1>7, <2>1 DEF DrainCollect, TypeOK, BatchDue, ThreadsOK
  <2>6. HeldIntact'
    <3>1. Queued' = Queued
      BY <1>7, <2>1 DEF DrainCollect, Queued
    <3> QED
      BY <1>7, <3>1 DEF DrainCollect, HeldIntact
  <2> QED
    BY <2>2, <2>3, <2>4, <2>5, <2>6
<1>8. CASE DrainReadClock
  <2>1. TypeOK'
    BY <1>8 DEF DrainReadClock, TypeOK
  <2>2. SlotConservation'
    BY <1>8 DEF DrainReadClock, TypeOK, SlotConservation, InHand
  <2>3. ThreadsOK'
    BY <1>8 DEF DrainReadClock, TypeOK, ThreadsOK, Times
  <2>4. BatchDue'
    BY <1>8, EmptyElements DEF DrainReadClock, BatchDue, ThreadsOK
  <2>5. HeldIntact'
    BY <1>8 DEF DrainReadClock, TypeOK, SlotConservation, InHand, ThreadsOK, HeldIntact, Queued
  <2> QED
    BY <2>1, <2>2, <2>3, <2>4, <2>5
<1>9. CASE DrainPop
  <2>1. PICK s \in scheduled :
          /\ IsTop(s) /\ Due(s)
          /\ scheduled' = scheduled \ {s}
          /\ ready' = Append(ready, s)
    BY <1>9 DEF DrainPop
  <2>2. /\ ready' \in Seq(Slots) /\ Len(ready') = Len(ready) + 1
         /\ NoRepeat(ready') /\ Elements(ready') = Elements(ready) \cup {s}
    <3>1. s \in Slots /\ s \notin Elements(ready)
      BY DEF TypeOK, SlotConservation
    <3> QED
      BY <2>1, <3>1, AppendElements DEF TypeOK, SlotConservation
  <2>3. TypeOK'
    BY <1>9, <2>1, <2>2 DEF DrainPop, TypeOK
  <2>4. SlotConservation'
    BY <1>9, <2>1, <2>2 DEF DrainPop, TypeOK, SlotConservation, InHand
  <2>5. ThreadsOK'
    BY <1>9, <2>1, <2>2 DEF DrainPop, TypeOK, ThreadsOK
  <2>6. BatchDue'
    BY <1>9, <2>1, <2>2 DEF DrainPop, TypeOK, BatchDue, ThreadsOK, Due, Times, Packets, NoPacket
  <2>7. HeldIntact'
    BY <1>9, <2>1, <2>2 DEF DrainPop, TypeOK, SlotConservation, InHand, ThreadsOK, HeldIntact, Queued
  <2> QED
    BY <2>3, <2>4, <2>5, <2>6, <2>7
<1>10. CASE DrainBatchReady
  <2>1. TypeOK'
    BY <1>10 DEF DrainBatchReady, TypeOK, Times
  <2>2. SlotConservation'
    BY <1>10 DEF DrainBatchReady, TypeOK, SlotConservation, InHand
  <2>3. ThreadsOK'
    BY <1>10 DEF DrainBatchReady, TypeOK, ThreadsOK, Times
  <2>4. BatchDue'
    BY <1>10 DEF DrainBatchReady, TypeOK, BatchDue, ThreadsOK
  <2>5. HeldIntact'
    BY <1>10 DEF DrainBatchReady, TypeOK, SlotConservation, InHand, ThreadsOK, HeldIntact, Queued
  <2> QED
    BY <2>1, <2>2, <2>3, <2>4, <2>5
<1>11. CASE DrainSend
  <2>1. TypeOK'
    BY <1>11 DEF DrainSend, TypeOK, Forget
  <2>2. SlotConservation'
    BY <1>11 DEF DrainSend, TypeOK, SlotConservation, InHand
  <2>3. ThreadsOK'
    BY <1>11 DEF DrainSend, TypeOK, ThreadsOK
  <2>4. BatchDue'
    BY <1>11 DEF DrainSend, TypeOK, BatchDue, ThreadsOK
  <2>5. HeldIntact'
    BY <1>11 DEF DrainSend, TypeOK, SlotConservation, InHand, ThreadsOK, HeldIntact, Queued
  <2> QED
    BY <2>1, <2>2, <2>3, <2>4, <2>5
<1>12. CASE DrainRecycle
  <2>1. PICK s \in Slots : s = Head(ready)
    BY <1>12, TailElements DEF DrainRecycle, TypeOK, SlotConservation
  <2>2. /\ s \in Elements(ready)
        /\ ready' \in Seq(Slots) /\ Len(ready') = Len(ready) - 1
        /\ NoRepeat(ready') /\ Elements(ready') = Elements(ready) \ {s}
    BY <1>12, <2>1, TailElements DEF DrainRecycle, TypeOK, SlotConservation
  <2>3. /\ free_queue' \in Seq(Slots)
        /\ NoRepeat(free_queue') /\ Elements(free_queue') = Elements(free_queue) \cup {s}
    <3>1. s \notin Elements(free_queue) /\ free_queue' = Append(free_queue, s)
      BY <1>12, <2>1, <2>2 DEF DrainRecycle, SlotConservation
    <3> QED
      BY <3>1, AppendElements DEF TypeOK, SlotConservation
  <2>4. TypeOK'
    BY <1>12, <2>2, <2>3 DEF DrainRecycle, TypeOK
  <2>5. SlotConservation'
    <3>1. /\ handoff_queue' = handoff_queue /\ scheduled' = scheduled /\ capture_slot' = capture_slot
      BY <1>12 DEF DrainRecycle
    <3> QED
      BY <2>2, <2>3, <3>1 DEF SlotConservation, InHand
  <2>6. ThreadsOK'
    <3>1. Len(ready) = 1 <=> ready' = << >>
      <4>1. Len(ready) \in Nat /\ Len(ready') \in Nat
        BY <2>2 DEF TypeOK
      <4>2. ready' = << >> <=> Len(ready') = 0
        BY <2>2, EmptySeq
      <4> QED
        BY <2>2, <4>1, <4>2
    <3> QED
      BY <1>12, <3>1 DEF DrainRecycle, ThreadsOK
  <2>7. BatchDue'
    <3>1. Len(ready') <= BatchSize
      BY <2>2 DEF TypeOK, BatchDue
    <3>2. drain_pc' \notin {"pop", "send"}
      BY <1>12 DEF DrainRecycle
    <3> QED
      BY <3>1, <3>2 DEF BatchDue
  <2>8. HeldIntact'
    <3>1. Queued' = Queued
      BY <1>12 DEF DrainRecycle, Queued
    <3> QED
      BY <1>12, <3>1 DEF DrainRecycle, HeldIntact
  <2> QED
    BY <2>4, <2>5, <2>6, <2>7, <2>8
<1>13. CASE Start
  <2>1. TypeOK'
    BY <1>13 DEF Start, TypeOK
  <2>2. SlotConservation'
    BY <1>13 DEF Start, TypeOK, SlotConservation, InHand
  <2>3. ThreadsOK'
    BY <1>13 DEF Start, TypeOK, ThreadsOK
  <2>4. BatchDue'
    BY <1>13 DEF Start, TypeOK, BatchDue, ThreadsOK
  <2>5. HeldIntact'
    BY <1>13 DEF Start, TypeOK, SlotConservation, InHand, ThreadsOK, HeldIntact, Queued
  <2> QED
    BY <2>1, <2>2, <2>3, <2>4, <2>5
<1>14. CASE Stop
  <2>1. TypeOK'
    BY <1>14 DEF Stop, TypeOK
  <2>2. SlotConservation'
    BY <1>14 DEF Stop, TypeOK, SlotConservation, InHand
  <2>3. ThreadsOK'
    BY <1>14 DEF Stop, TypeOK, ThreadsOK
  <2>4. BatchDue'
    BY <1>14 DEF Stop, TypeOK, BatchDue, ThreadsOK
  <2>5. HeldIntact'
    BY <1>14 DEF Stop, TypeOK, SlotConservation, InHand, ThreadsOK, HeldIntact, Queued
  <2> QED
    BY <2>1, <2>2, <2>3, <2>4, <2>5
<1>15. CASE StopJoined
  <2>1. TypeOK'
    BY <1>15 DEF StopJoined, TypeOK
  <2>2. SlotConservation'
    BY <1>15 DEF StopJoined, TypeOK, SlotConservation, InHand
  <2>3. ThreadsOK'
    BY <1>15 DEF StopJoined, TypeOK, ThreadsOK
  <2>4. BatchDue'
    BY <1>15 DEF StopJoined, TypeOK, BatchDue, ThreadsOK
  <2>5. HeldIntact'
    BY <1>15 DEF StopJoined, TypeOK, SlotConservation, InHand, ThreadsOK, HeldIntact, Queued
  <2> QED
    BY <2>1, <2>2, <2>3, <2>4, <2>5
<1>16. CASE FlushHandoff
  <2>1. PICK s \in Slots : s = Head(handoff_queue)
    BY <1>16, TailElements DEF FlushHandoff, TypeOK, SlotConservation
  <2>2. /\ s \in Elements(handoff_queue)
        /\ handoff_queue' \in Seq(Slots)
        /\ NoRepeat(handoff_queue') /\ Elements(handoff_queue') = Elements(handoff_queue) \ {s}
    BY <1>16, <2>1, TailElements DEF FlushHandoff, TypeOK, SlotConservation
  <2>3. /\ free_queue' \in Seq(Slots)
        /\ NoRepeat(free_queue') /\ Elements(free_queue') = Elements(free_queue) \cup {s}
    <3>1. s \notin Elements(free_queue) /\ free_queue' = Append(free_queue, s)
      BY <1>16, <2>1, <2>2 DEF FlushHandoff, SlotConservation
    <3> QED
      BY <3>1, AppendElements DEF TypeOK, SlotConservation
  <2>4. TypeOK'
    BY <1>16, <2>2, <2>3 DEF FlushHandoff, TypeOK, Forget
  <2>5. SlotConservation'
    <3>1. /\ ready' = ready /\ scheduled' = scheduled /\ capture_slot' = capture_slot
      BY <1>16 DEF FlushHandoff
    <3> QED
      BY <2>2, <2>3, <3>1 DEF SlotConservation, InHand
  <2>6. ThreadsOK'
    BY <1>16 DEF FlushHandoff, ThreadsOK
  <2>7. BatchDue'
    BY <1>16 DEF FlushHandoff, BatchDue
  <2>8. HeldIntact'
    <3>1. Queued' \subseteq Queued
      BY <1>16, <2>2 DEF FlushHandoff, Queued
    <3> QED
      BY <1>16, <3>1 DEF FlushHandoff, HeldIntact, ThreadsOK
  <2> QED
    BY <2>4, <2>5, <2>6, <2>7, <2>8
<1>17. CASE FlushScheduled
  <2>1. PICK s \in scheduled :
          /\ IsTop(s)
          /\ scheduled' = scheduled \ {s}
          /\ free_queue' = Append(free_queue, s)
          /\ Forget({memory_pool[s].id})
    BY <1>17 DEF FlushScheduled
  <2>2. /\ free_queue' \in Seq(Slots) /\ Len(free_queue') = Len(free_queue) + 1
         /\ NoRepeat(free_queue') /\ Elements(free_queue') = Elements(free_queue) \cup {s}
    BY <1>17, <2>1, AppendElements DEF FlushScheduled, TypeOK, SlotConservation, InHand, ThreadsOK, Slots
  <2>3. TypeOK'
    BY <1>17, <2>1, <2>2 DEF FlushScheduled, TypeOK, Forget
  <2>4. SlotConservation'
    BY <1>17, <2>1, <2>2 DEF FlushScheduled, TypeOK, SlotConservation, InHand
  <2>5. ThreadsOK'
    BY <1>17, <2>1, <2>2 DEF FlushScheduled, TypeOK, ThreadsOK
  <2>6. BatchDue'
    BY <1>17, <2>1, <2>2 DEF FlushScheduled, TypeOK, BatchDue, ThreadsOK
  <2>7. HeldIntact'
    BY <1>17, <2>1, <2>2 DEF FlushScheduled, TypeOK, SlotConservation, InHand, ThreadsOK, HeldIntact, Queued
  <2> QED
    BY <2>3, <2>4, <2>5, <2>6, <2>7
<1>18. CASE StopReturns
  <2>1. TypeOK'
    BY <1>18 DEF StopReturns, TypeOK
  <2>2. SlotConservation'
    BY <1>18 DEF StopReturns, TypeOK, SlotConservation, InHand
  <2>3. ThreadsOK'
    BY <1>18 DEF StopReturns, TypeOK, ThreadsOK
  <2>4. BatchDue'
    BY <1>18 DEF StopReturns, TypeOK, BatchDue, ThreadsOK
  <2>5. HeldIntact'
    BY <1>18 DEF StopReturns, TypeOK, SlotConservation, InHand, ThreadsOK, HeldIntact, Queued
  <2> QED
    BY <2>1, <2>2, <2>3, <2>4, <2>5
<1>19. CASE Tick
  <2>1. TypeOK'
    BY <1>19 DEF Tick, TypeOK, Times
  <2>2. SlotConservation'
    BY <1>19 DEF Tick, SlotConservation, InHand
  <2>3. ThreadsOK'
    BY <1>19 DEF Tick, TypeOK, ThreadsOK, Times
  <2>4. BatchDue'
    <3>1. \A s \in Elements(ready) :
            \/ memory_pool[s] \in Packets /\ memory_pool[s].release_at \in Nat
            \/ drain_pc \notin {"pop", "send"}
      BY DEF HeldIntact, Queued, Packets, Times
    <3>2. \A s \in Elements(ready) :
            drain_pc \in {"pop", "send"} => memory_pool[s].release_at <= now + 1
      BY <3>1 DEF BatchDue, TypeOK, Times
    <3> QED
      BY <1>19, <3>2 DEF Tick, BatchDue
  <2>5. HeldIntact'
    BY <1>19 DEF Tick, HeldIntact, Queued
  <2> QED
    BY <2>1, <2>2, <2>3, <2>4, <2>5
<1>20. CASE Idle \/ UNCHANGED vars
  BY <1>20 DEF Idle, TypeOK, SlotConservation, InHand, ThreadsOK, BatchDue, HeldIntact, Queued
<1> QED
  BY <1>1, <1>2, <1>3, <1>4, <1>5, <1>6, <1>7, <1>8, <1>9, <1>10, <1>11, <1>12, <1>13, <1>14, <1>15, <1>16, <1>17, <1>18, <1>19, <1>20 DEF Next, Capture, Drain, Owner

(***************************************************************************)
(* What follows from the invariant.                                        *)
(***************************************************************************)

\* The invariant holds in every reachable state.
THEOREM SlotsInvariance == Spec => []SlotsInv
<1>1. Init => SlotsInv
  BY InitSlots
<1>2. SlotsInv /\ [Next]_vars => SlotsInv'
  BY StepSlots
<1> QED
  BY <1>1, <1>2, PTL DEF Spec

\* Every variable keeps its type, for every capacity and set of packets.
THEOREM TypeCorrect == Spec => []TypeOK
BY SlotsInvariance, PTL DEF SlotsInv

\* Pool slots are never lost, duplicated or shared by two threads.
THEOREM SlotsAreConserved == Spec => []SlotConservation
BY SlotsInvariance, PTL DEF SlotsInv

\* Neither ring is ever full when a slot is pushed to it, so no thread spins:
\* the slot about to be pushed is missing from a ring that has a place for
\* every slot.
THEOREM PushNeverBlocks == Spec => []PushNeverSpins
<1>1. SlotsInv => PushNeverSpins
  <2> SUFFICES ASSUME SlotsInv PROVE PushNeverSpins
    OBVIOUS
  <2> USE DEF SlotsInv
  <2>1. ASSUME capture_pc = "handoff" PROVE Len(handoff_queue) < Capacity
    <3>1. capture_slot \in Slots /\ capture_slot \notin Elements(handoff_queue)
      BY <2>1 DEF ThreadsOK, SlotConservation, InHand, Slots, NoSlot
    <3> QED
      BY <3>1, RoomInQueue DEF TypeOK, SlotConservation
  <2>2. ASSUME NEW s \in Elements(ready) \cup Elements(handoff_queue) \cup scheduled
        PROVE  Len(free_queue) < Capacity
    <3>1. s \in Slots /\ s \notin Elements(free_queue)
      BY <2>2, ElementsType DEF TypeOK, SlotConservation
    <3> QED
      BY <3>1, RoomInQueue DEF TypeOK, SlotConservation
  <2>3. ASSUME NEW q \in Seq(Slots), q # << >> PROVE Elements(q) # {}
    BY <2>3, EmptySeq DEF Elements
  <2> QED
    BY <2>1, <2>2, <2>3 DEF PushNeverSpins, TypeOK, ThreadsOK
<1> QED
  BY <1>1, SlotsInvariance, PTL

\* When Stop has returned, nothing is held and every slot is free.
THEOREM StopEmptiesTheQueue == Spec => []StoppedIsEmpty
<1>1. SlotsInv => StoppedIsEmpty
  <2> SUFFICES ASSUME SlotsInv, ui_pc = "stopped"
               PROVE  Held = {} /\ Elements(free_queue) = Slots
    BY DEF StoppedIsEmpty
  <2>1. /\ handoff_queue = << >> /\ ready = << >> /\ scheduled = {}
        /\ capture_pc = "exited" /\ drain_pc = "exited" /\ capture_slot = NoSlot
    BY DEF SlotsInv, ThreadsOK
  <2>2. Queued = {} /\ InHand = {}
    BY <2>1, EmptyElements DEF Queued, InHand
  <2> QED
    BY <2>1, <2>2, EmptyElements DEF Held, SlotsInv, SlotConservation
<1> QED
  BY <1>1, SlotsInvariance, PTL

(***************************************************************************)
(* The refinement of DelayService.                                         *)
(***************************************************************************)

\* A step that moves slots between the rings and the heap holds the same packets.
LEMMA SameHeld ==
  ASSUME Queued' = Queued,
         \A s \in Queued : memory_pool'[s] = memory_pool[s],
         capture_pc' \in {"copy", "handoff"} <=> capture_pc \in {"copy", "handoff"},
         capture_packet' = capture_packet \/ capture_pc \notin {"copy", "handoff"}
  PROVE  Held' = Held
BY DEF Held

\* Sending takes out of the queue exactly the packets of the batch.
LEMMA BatchLeaves ==
  ASSUME SlotConservation, HeldIntact, DrainSend
  PROVE  LET batch == {memory_pool[s] : s \in Elements(ready)}
         IN  batch \subseteq Held /\ Held' = Held \ batch
<1> DEFINE batch == {memory_pool[s] : s \in Elements(ready)}
           rest == Elements(handoff_queue) \cup scheduled
<1>1. Queued = rest \cup Elements(ready) /\ Queued' = rest
  BY DEF DrainSend, Queued, drain_vars
<1>2. batch \subseteq Held
  BY <1>1 DEF Held
<1>3. rest \cap Elements(ready) = {}
  BY DEF SlotConservation
<1>4. \A s \in rest : memory_pool[s] \notin batch
  BY <1>1, <1>3 DEF HeldIntact
<1>5. capture_pc \in {"copy", "handoff"} => capture_packet \notin batch
  BY <1>1 DEF HeldIntact
<1>6. Held' = Held \ batch
  BY <1>1, <1>4, <1>5 DEF DrainSend, Held, capture_vars
<1> QED
  BY <1>2, <1>6

\* The steps that move slots between the hand, the rings, the heap and the batch,
\* or none at all, hold the same packets.
Inside == \/ PushRefused \/ PushCopy \/ PushHandoff \/ CaptureExits
          \/ DrainCheck \/ DrainCollect \/ DrainReadClock \/ DrainPop
          \/ DrainBatchReady \/ DrainRecycle
          \/ Start \/ Stop \/ StopJoined \/ StopReturns \/ Tick \/ Idle \/ UNCHANGED vars

LEMMA KeepsHeld ==
  ASSUME SlotsInv, Inside
  PROVE  Held' = Held
<1>t. TypeOK /\ SlotConservation /\ ThreadsOK /\ HeldIntact
  BY DEF SlotsInv
<1> USE DEF vars, capture_vars, drain_vars
<1>1. CASE PushRefused \/ CaptureExits \/ DrainCheck \/ DrainReadClock \/ Start \/ Stop
           \/ StopJoined \/ StopReturns \/ Tick \/ Idle \/ UNCHANGED vars
  <2>1. Queued' = Queued /\ memory_pool' = memory_pool /\ capture_packet' = capture_packet
    BY <1>1, <1>t DEF PushRefused, CaptureExits, DrainCheck, DrainReadClock, Start, Stop,
       StopJoined, StopReturns, Tick, Idle, Queued, ThreadsOK
  <2>2. capture_pc' \in {"copy", "handoff"} <=> capture_pc \in {"copy", "handoff"}
    BY <1>1, <1>t DEF PushRefused, CaptureExits, DrainCheck, DrainReadClock, Start, Stop,
       StopJoined, StopReturns, Tick, Idle, ThreadsOK
  <2> QED
    BY <2>1, <2>2, SameHeld
<1>2. CASE PushCopy
  <2>1. capture_slot \notin Queued /\ Queued' = Queued
    BY <1>2, <1>t DEF PushCopy, SlotConservation, InHand, ThreadsOK, Queued, Slots, NoSlot
  <2>2. \A s \in Queued : memory_pool'[s] = memory_pool[s]
    <3>1. Queued \subseteq Slots
      BY <1>t, ElementsType DEF Queued, TypeOK
    <3> QED
      BY <1>2, <1>t, <2>1, <3>1 DEF PushCopy, TypeOK
  <2> QED
    BY <1>2, <2>1, <2>2, SameHeld DEF PushCopy
<1>3. CASE PushHandoff
  <2>1. Elements(handoff_queue') = Elements(handoff_queue) \cup {capture_slot}
    BY <1>3, <1>t, AppendElements DEF PushHandoff, TypeOK, ThreadsOK
  <2>2. Queued' = Queued \cup {capture_slot} /\ memory_pool' = memory_pool
    BY <1>3, <2>1 DEF PushHandoff, Queued
  <2>3. memory_pool[capture_slot] = capture_packet
    BY <1>3, <1>t DEF PushHandoff, HeldIntact
  <2> QED
    BY <1>3, <2>2, <2>3 DEF PushHandoff, Held
<1>4. CASE DrainCollect \/ DrainPop \/ DrainBatchReady \/ DrainRecycle
  <2>1. Queued' = Queued
    <3>1. CASE DrainCollect
      BY <3>1, <1>t, TailElements DEF DrainCollect, Queued, TypeOK, SlotConservation
    <3>2. CASE DrainPop
      <4>1. PICK s \in scheduled : scheduled' = scheduled \ {s} /\ ready' = Append(ready, s)
        BY <3>2 DEF DrainPop
      <4>2. Elements(ready') = Elements(ready) \cup {s}
        BY <1>t, <4>1, AppendElements DEF TypeOK
      <4> QED
        BY <3>2, <4>1, <4>2 DEF DrainPop, Queued
    <3>3. CASE DrainBatchReady
      BY <3>3, EmptyElements DEF DrainBatchReady, Queued
    <3>4. CASE DrainRecycle
      BY <3>4 DEF DrainRecycle, Queued
    <3> QED
      BY <1>4, <3>1, <3>2, <3>3, <3>4
  <2>2. memory_pool' = memory_pool /\ UNCHANGED capture_vars
    BY <1>4 DEF DrainCollect, DrainPop, DrainBatchReady, DrainRecycle
  <2> QED
    BY <2>1, <2>2, SameHeld
<1> QED
  BY <1>1, <1>2, <1>3, <1>4 DEF Inside

\* Outside the flush, a step that does not send a batch lets no packet go.
LEMMA OnlyBatchesLeave ==
  ASSUME SlotsInv, Next, ui_pc # "flushing", NEW q \in Held, q \notin Held'
  PROVE  DrainSend
<1>1. ASSUME NEW id \in Ids, NEW release_at \in Times, PushTake(id, release_at)
      PROVE  Held \subseteq Held'
  <2>1. Queued' = Queued /\ memory_pool' = memory_pool
    BY <1>1 DEF PushTake, Queued, drain_vars
  <2> QED
    BY <1>1, <2>1 DEF PushTake, Held
<1>2. ~ FlushHandoff /\ ~ FlushScheduled
  BY DEF FlushHandoff, FlushScheduled
<1>3. Inside \/ (\E id \in Ids, release_at \in Times : PushTake(id, release_at)) \/ DrainSend
  BY <1>2 DEF Next, Capture, Drain, Owner, Inside
<1> QED
  BY <1>1, <1>3, KeepsHeld

\* Every step is a step of DelayService on the packets held, or leaves them alone.
LEMMA StepService == SlotsInv /\ SlotsInv' /\ [Next]_vars => [Service!Next]_(Service!vars)
<1> SUFFICES ASSUME SlotsInv, SlotsInv', [Next]_vars PROVE [Service!Next]_(Service!vars)
  OBVIOUS
<1> USE DEF Service!vars, vars, capture_vars, drain_vars, SlotsInv
<1>1. CASE \/ PushRefused \/ PushCopy \/ PushHandoff \/ CaptureExits
           \/ DrainCheck \/ DrainCollect \/ DrainReadClock \/ DrainPop
           \/ DrainBatchReady \/ DrainRecycle
           \/ Start \/ Stop \/ Idle \/ UNCHANGED vars
  <2>1. now' = now /\ Phase' = Phase
    BY <1>1 DEF PushRefused, PushCopy, PushHandoff, CaptureExits, DrainCheck, DrainCollect,
       DrainReadClock, DrainPop, DrainBatchReady, DrainRecycle, Start, Stop, Idle, Phase
  <2>2. Inside
    BY <1>1 DEF Inside
  <2> QED
    BY <2>1, <2>2, KeepsHeld
<1>2. ASSUME NEW id \in Ids, NEW release_at \in Times, PushTake(id, release_at)
      PROVE  Service!Next
  <2>1. Queued' = Queued /\ memory_pool' = memory_pool
    BY <1>2 DEF PushTake, Queued
  <2>2. Held' = Held \cup {capture_packet'}
    BY <1>2, <2>1 DEF PushTake, Held
  <2>3. capture_packet' \in Packets /\ capture_packet'.id = id /\ capture_packet'.release_at = release_at
    BY <1>2 DEF PushTake, Packets
  <2>4. \A h \in Held : h.id # id
    BY <1>2 DEF PushTake, HeldIds
  <2>5. Phase = "open" /\ Phase' = Phase /\ now' = now
    BY <1>2 DEF PushTake, Phase, ThreadsOK
  <2>6. Service!Accept(capture_packet')
    BY <1>2, <2>2, <2>3, <2>4, <2>5 DEF Service!Accept
  <2> QED
    BY <2>3, <2>6 DEF Service!Next
<1>3. CASE DrainSend
  <2> DEFINE batch == {memory_pool[s] : s \in Elements(ready)}
  <2>1. batch \subseteq Held /\ Held' = Held \ batch
    BY <1>3, BatchLeaves
  <2>2. batch # {}
    <3>1. ready # << >> /\ Len(ready) \in Nat \ {0}
      BY <1>3, EmptySeq DEF DrainSend, ThreadsOK, TypeOK
    <3>2. ready[1] \in Elements(ready)
      BY <3>1 DEF Elements
    <3> QED
      BY <3>2
  <2>3. Cardinality(batch) <= BatchSize
    <3> DEFINE f == [i \in 1 .. Len(ready) |-> memory_pool[ready[i]]]
    <3>1. f \in Surjection(1 .. Len(ready), batch)
      BY DEF Surjection, Elements
    <3>2. Cardinality(batch) <= Len(ready)
      BY <3>1, FS_SurjCardinalityBound DEF ExistsSurjection, TypeOK
    <3>3. IsFiniteSet(batch)
      BY <3>1, FS_NatSurjection DEF ExistsSurjection, TypeOK
    <3>4. Cardinality(batch) \in Nat
      BY <3>3, FS_CardinalityType
    <3> QED
      BY <3>2, <3>4, BatchSizeAssumption DEF BatchDue, TypeOK
  <2>4. \A p \in batch : p.release_at <= now
    BY <1>3 DEF DrainSend, BatchDue
  <2>5. now' = now /\ Phase = "open" /\ Phase' = Phase
    BY <1>3 DEF DrainSend, Phase, ThreadsOK
  <2>6. Service!Cardinality(batch) = Cardinality(batch)
    BY DEF Service!Cardinality, Cardinality
  <2> HIDE DEF batch
  <2>7. Service!Release(batch)
    BY <2>1, <2>2, <2>3, <2>4, <2>5, <2>6 DEF Service!Release
  <2> QED
    BY <2>1, <2>7 DEF Service!Next
<1>4. CASE StopJoined
  <2>1. Held' = Held
    BY <1>4, KeepsHeld DEF Inside
  <2>2. Service!Close
    BY <1>4, <2>1 DEF StopJoined, Phase, Service!Close
  <2> QED
    BY <2>2 DEF Service!Next
<1>5. ASSUME NEW s \in Queued, Queued' = Queued \ {s},
             ui_pc = "flushing", memory_pool' = memory_pool,
             UNCHANGED <<now, ui_pc, capture_vars>>
      PROVE  Service!Next
  <2>1. capture_pc \notin {"copy", "handoff"}
    BY <1>5 DEF ThreadsOK
  <2>2. Held' = Held \ {memory_pool[s]} /\ memory_pool[s] \in Held
    BY <1>5, <2>1 DEF Held, HeldIntact
  <2>3. Phase = "closing" /\ Phase' = Phase
    BY <1>5 DEF Phase
  <2> QED
    BY <1>5, <2>2, <2>3 DEF Service!Flush, Service!Next
<1>6. CASE FlushHandoff
  <2>1. /\ Head(handoff_queue) \in Elements(handoff_queue)
        /\ Elements(handoff_queue') = Elements(handoff_queue) \ {Head(handoff_queue)}
    BY <1>6, TailElements DEF FlushHandoff, TypeOK, SlotConservation
  <2>2. /\ Head(handoff_queue) \in Queued
        /\ Queued' = Queued \ {Head(handoff_queue)}
    BY <1>6, <2>1 DEF FlushHandoff, Queued, ThreadsOK, SlotConservation
  <2> QED
    BY <1>5, <1>6, <2>2 DEF FlushHandoff
<1>7. CASE FlushScheduled
  <2>1. PICK s \in scheduled : scheduled' = scheduled \ {s}
    BY <1>7 DEF FlushScheduled
  <2>2. s \in Queued /\ Queued' = Queued \ {s}
    BY <1>7, <2>1 DEF FlushScheduled, Queued, ThreadsOK, SlotConservation
  <2> QED
    BY <1>5, <1>7, <2>2 DEF FlushScheduled
<1>8. CASE StopReturns
  <2>1. Queued = {} /\ Queued' = {}
    BY <1>8, EmptyElements DEF StopReturns, Queued, ThreadsOK
  <2>2. Held = {} /\ Held' = {}
    BY <1>8, <2>1 DEF StopReturns, Held, ThreadsOK
  <2>3. Service!Closed
    BY <1>8, <2>2 DEF StopReturns, Phase, Service!Closed
  <2> QED
    BY <2>3 DEF Service!Next
<1>9. CASE Tick
  <2>1. Held' = Held
    BY <1>9, KeepsHeld DEF Inside
  <2>2. Service!Tick
    BY <1>9, <2>1 DEF Tick, Phase, Service!Tick
  <2> QED
    BY <2>2 DEF Service!Next
<1> QED
  BY <1>1, <1>2, <1>3, <1>4, <1>6, <1>7, <1>8, <1>9
     DEF Next, Capture, Drain, Owner

\* The queue with its threads, rings and heap does what DelayService says: no
\* packet is given to WinDivert early, twice or never, for every capacity.
THEOREM Refinement == Spec => ImplementsService
<1>1. Init => Service!Init
  <2> SUFFICES ASSUME Init PROVE Held = {} /\ Phase = "open" /\ now = 0
    BY DEF Service!Init
  <2>1. Queued = {}
    BY EmptyElements DEF Init, Queued
  <2> QED
    BY <2>1 DEF Init, Held, Phase
<1>2. SlotsInv /\ SlotsInv' /\ [Next]_vars => [Service!Next]_(Service!vars)
  BY StepService
<1> QED
  BY <1>1, <1>2, SlotsInvariance, PTL DEF Spec, ImplementsService, Service!Spec

(***************************************************************************)
(* The pool of slots.                                                      *)
(***************************************************************************)

\* Every step is one that DelayPool allows, or none of its.
LEMMA StepPool == SlotsInv /\ SlotsInv' /\ [Next]_vars => [Pool!Next]_(Pool!vars)
<1> SUFFICES ASSUME SlotsInv, SlotsInv', [Next]_vars PROVE [Pool!Next]_(Pool!vars)
  OBVIOUS
<1> USE CapacityAssumption DEF vars, capture_vars, drain_vars
<1>t. TypeOK /\ SlotConservation /\ ThreadsOK /\ Len(free_queue) \in Nat /\ Len(ready) \in Nat
  BY DEF SlotsInv, TypeOK
<1>1. CASE PushRefused
  <2>1. ui_pc = "started" /\ Len(free_queue) = 0
    BY <1>1, <1>t DEF PushRefused, ThreadsOK, TypeOK
  <2>2. UNCHANGED <<ui_pc, Returning, free_queue>> /\ pool_exhausted' = pool_exhausted + 1
    BY <1>1 DEF PushRefused, Returning
  <2>3. Returning \in Nat
    BY <1>t DEF Returning
  <2> QED
    BY <2>1, <2>2, <2>3 DEF Pool!Next, Pool!Push, PoolPhase
<1>2. ASSUME NEW id \in Ids, NEW release_at \in Times, PushTake(id, release_at)
      PROVE  [Pool!Next]_(Pool!vars)
  <2>1. ui_pc = "started" /\ Len(free_queue) > 0 /\ Len(free_queue') = Len(free_queue) - 1
    BY <1>2, <1>t, TailElements DEF PushTake, ThreadsOK, TypeOK, SlotConservation
  <2>2. UNCHANGED <<ui_pc, Returning, pool_exhausted>>
    BY <1>2 DEF PushTake, Returning
  <2>3. Returning \in Nat
    BY <1>t DEF Returning
  <2> QED
    BY <1>t, <2>1, <2>2, <2>3 DEF Pool!Next, Pool!Push, PoolPhase
<1>3. CASE DrainSend
  <2>1. ui_pc \in {"started", "joining"} /\ Len(ready) > 0
    BY <1>3, <1>t DEF DrainSend, ThreadsOK, TypeOK
  <2>2. Len(free_queue) + Len(ready) <= Capacity
    BY <1>t, RoomForBoth DEF SlotConservation, TypeOK
  <2>3. Returning = 0 /\ Returning' = Len(ready) /\ UNCHANGED <<ui_pc, free_queue, pool_exhausted>>
    BY <1>3 DEF DrainSend, Returning
  <2> QED
    BY <1>t, <2>1, <2>2, <2>3 DEF Pool!Next, Pool!Send, PoolPhase
<1>4. CASE DrainRecycle
  <2>1. /\ Len(free_queue') = Len(free_queue) + 1 /\ Len(ready) > 0
        /\ Len(ready') = Len(ready) - 1
    BY <1>4, <1>t, TailElements DEF DrainRecycle, TypeOK, SlotConservation
  <2>2. Returning = Len(ready) /\ Returning' = Len(ready) - 1 /\ UNCHANGED <<ui_pc, pool_exhausted>>
    <3>1. /\ drain_pc = "recycle" /\ drain_pc' = IF Len(ready) = 1 THEN "check" ELSE "recycle"
          /\ UNCHANGED <<ui_pc, pool_exhausted>>
      BY <1>4 DEF DrainRecycle
    <3>2. CASE Len(ready) = 1
      BY <1>t, <2>1, <3>1, <3>2 DEF Returning
    <3>3. CASE Len(ready) # 1
      BY <1>t, <2>1, <3>1, <3>3 DEF Returning
    <3> QED
      BY <3>2, <3>3
  <2> QED
    BY <1>t, <2>1, <2>2 DEF Pool!Next, Pool!Return, PoolPhase
<1>5. CASE Start
  <2>1. UNCHANGED <<Returning, free_queue, pool_exhausted>> /\ ui_pc = "created" /\ ui_pc' = "started"
    BY <1>5, <1>t DEF Start, Returning, ThreadsOK
  <2> QED
    BY <2>1 DEF Pool!Next, Pool!Open, PoolPhase
<1>6. CASE StopJoined
  <2>1. /\ Returning = 0 /\ UNCHANGED <<Returning, free_queue, pool_exhausted>>
        /\ ui_pc = "joining" /\ ui_pc' = "flushing"
    BY <1>6 DEF StopJoined, Returning
  <2> QED
    BY <2>1 DEF Pool!Next, Pool!Close, PoolPhase
<1>7. CASE FlushHandoff \/ FlushScheduled
  <2>1. Len(free_queue') = Len(free_queue) + 1 /\ Len(free_queue) < Capacity
    <3>1. CASE FlushHandoff
      <4>1. Head(handoff_queue) \in Slots
        BY <1>t, <3>1, TailElements DEF FlushHandoff, TypeOK, SlotConservation
      <4> QED
        BY <1>t, <3>1, <4>1, AppendElements DEF FlushHandoff, TypeOK
    <3>2. CASE FlushScheduled
      <4>1. PICK s \in scheduled : free_queue' = Append(free_queue, s)
        BY <3>2 DEF FlushScheduled
      <4> QED
        BY <1>t, <3>2, <4>1, AppendElements DEF FlushScheduled, TypeOK
    <3> QED
      BY <1>7, <3>1, <3>2
  <2>2. Returning = 0 /\ Returning' = 0 /\ ui_pc = "flushing"
        /\ UNCHANGED <<ui_pc, pool_exhausted>>
    BY <1>7, <1>t DEF FlushHandoff, FlushScheduled, Returning, ThreadsOK
  <2> QED
    BY <1>t, <2>1, <2>2 DEF Pool!Next, Pool!Flush, PoolPhase
<1>8. CASE StopReturns
  <2>1. Elements(free_queue) = Slots
    BY <1>8, <1>t, EmptyElements DEF StopReturns, SlotConservation, ThreadsOK, InHand, NoSlot
  <2>2. Len(free_queue) = Capacity
    <3>1. Cardinality(Slots) = Capacity
      BY FS_Interval DEF Slots
    <3> QED
      BY <1>t, <2>1, <3>1, LenIsCardinality DEF SlotConservation, TypeOK
  <2>3. /\ Returning = 0 /\ UNCHANGED <<Returning, free_queue, pool_exhausted>>
        /\ ui_pc = "flushing" /\ ui_pc' = "stopped"
    BY <1>8, <1>t DEF StopReturns, Returning, ThreadsOK
  <2> QED
    BY <2>2, <2>3 DEF Pool!Next, Pool!Closed, PoolPhase
<1>9. CASE PushCopy \/ PushHandoff \/ CaptureExits \/ DrainCheck \/ DrainCollect \/ DrainReadClock
             \/ DrainPop \/ DrainBatchReady \/ Stop \/ Tick \/ UNCHANGED vars
  <2>1. PoolPhase' = PoolPhase
    BY <1>9 DEF PushCopy, PushHandoff, CaptureExits, DrainCheck, DrainCollect, DrainReadClock,
                DrainPop, DrainBatchReady, Stop, Tick, PoolPhase
  <2>2. UNCHANGED <<Returning, free_queue, pool_exhausted>>
    BY <1>9 DEF PushCopy, PushHandoff, CaptureExits, DrainCheck, DrainCollect, DrainReadClock,
                DrainPop, DrainBatchReady, Stop, Tick, Returning
  <2> QED
    BY <2>1, <2>2 DEF Pool!vars
<1> QED
  BY <1>1, <1>2, <1>3, <1>4, <1>5, <1>6, <1>7, <1>8, <1>9
     DEF Next, Capture, Drain, Owner, Idle

\* The threads, rings and slots implement DelayPool, which is how CaptureLoop
\* sees the queue: a packet is refused only when each slot of the pool is in use.
THEOREM PoolRefinement == Spec => Pool!Spec
<1>1. Init => Pool!Init
  <2> SUFFICES ASSUME Init PROVE PoolPhase = "none" /\ Returning = 0 /\ Len(free_queue) = Capacity
                                 /\ pool_exhausted = 0
    BY CapacityAssumption DEF Pool!Init
  <2> QED
    BY CapacityAssumption DEF Init, PoolPhase, Returning
<1>2. SlotsInv /\ SlotsInv' /\ [Next]_vars => [Pool!Next]_(Pool!vars)
  BY StepPool
<1> QED
  BY <1>1, <1>2, SlotsInvariance, PTL DEF Spec, Pool!Spec

(***************************************************************************)
(* The order of release.                                                   *)
(***************************************************************************)

\* At first nothing is held and nothing was pushed.
LEMMA InitOrder == Init => OrderOK
  BY EmptyElements DEF Init, OrderOK, Queued, HeldIds, Held

\* A step that moves no slot and no packet leaves the order alone; a batch that
\* has just been opened is empty.
LEMMA OrderUntouched ==
  ASSUME OrderOK, Held' = Held, Queued' = Queued,
         UNCHANGED <<memory_pool, handoff_queue, before, capture_packet>>,
         capture_pc' \in {"copy", "handoff"} => capture_pc \in {"copy", "handoff"},
         drain_pc' \in {"pop", "send"} =>
           \/ ready' = << >>
           \/ drain_pc \in {"pop", "send"} /\ UNCHANGED <<ready, scheduled>>
  PROVE  OrderOK'
<1>1. HeldIds' = HeldIds
  BY DEF HeldIds
<1>2. drain_pc' \in {"pop", "send"} =>
        \A s \in scheduled', t \in Elements(ready') :
          memory_pool[t].release_at <= memory_pool[s].release_at
  BY EmptyElements DEF OrderOK
<1> QED
  BY <1>1, <1>2 DEF OrderOK

\* When packets leave, the history forgets them and nothing else: what is still
\* held is ordered as before.
LEMMA OrderForgets ==
  ASSUME OrderOK, HeldIntact, NEW gone, gone \subseteq Held,
         Held' = Held \ gone, Forget({p.id : p \in gone}),
         UNCHANGED <<memory_pool, capture_packet>>,
         capture_pc' \in {"copy", "handoff"} => capture_pc \in {"copy", "handoff"},
         Len(handoff_queue') <= Len(handoff_queue),
         Len(handoff_queue') \in Nat, Len(handoff_queue) \in Nat,
         NEW k \in Nat, k + Len(handoff_queue') = Len(handoff_queue),
         \A i \in 1 .. Len(handoff_queue') : handoff_queue'[i] = handoff_queue[i + k],
         Queued' \subseteq Queued,
         Queued' \ Elements(handoff_queue') \subseteq Queued \ Elements(handoff_queue),
         drain_pc' \notin {"pop", "send"}
  PROVE  OrderOK'
<1>1. before' \subseteq before
  BY DEF Forget
<1>2. before' \subseteq HeldIds' \X HeldIds'
  <2> SUFFICES ASSUME NEW e \in before' PROVE e[1] \in HeldIds' /\ e[2] \in HeldIds' /\ e = <<e[1], e[2]>>
    OBVIOUS
  <2>1. e \in HeldIds \X HeldIds
    BY <1>1 DEF OrderOK
  <2>2. PICK p \in Held, q \in Held : e[1] = p.id /\ e[2] = q.id
    BY <2>1 DEF HeldIds
  <2>3. p \notin gone /\ q \notin gone
    BY <2>2 DEF Forget
  <2> QED
    BY <2>1, <2>2, <2>3 DEF HeldIds
<1>3. capture_pc' \in {"copy", "handoff"} => \A e \in before' : e[1] # capture_packet'.id
  BY <1>1 DEF OrderOK
<1>4. \A i \in 1 .. Len(handoff_queue') : i + k \in 1 .. Len(handoff_queue)
  OBVIOUS
<1>5. ASSUME NEW i \in 1 .. Len(handoff_queue'), NEW j \in 1 .. Len(handoff_queue'),
             <<memory_pool[handoff_queue'[i]].id, memory_pool[handoff_queue'[j]].id>> \in before'
      PROVE  i < j
  <2>1. <<memory_pool[handoff_queue[i + k]].id, memory_pool[handoff_queue[j + k]].id>> \in before
    BY <1>1, <1>5
  <2>2. i + k < j + k
    BY <1>4, <2>1 DEF OrderOK
  <2> QED
    BY <2>2
<1>6. Elements(handoff_queue') \subseteq Elements(handoff_queue)
  BY <1>4 DEF Elements
<1>7. ASSUME NEW s \in Elements(handoff_queue'), NEW t \in Queued' \ Elements(handoff_queue')
      PROVE  <<memory_pool[s].id, memory_pool[t].id>> \notin before'
  BY <1>1, <1>6 DEF OrderOK
<1> QED
  BY <1>2, <1>3, <1>5, <1>7 DEF OrderOK

\* Every step preserves the order of the packets held.
LEMMA StepOrder == SlotsInv /\ SlotsInv' /\ OrderOK /\ [Next]_vars => OrderOK'
<1> SUFFICES ASSUME SlotsInv, SlotsInv', OrderOK, [Next]_vars PROVE OrderOK'
  OBVIOUS
<1>t. TypeOK /\ SlotConservation /\ ThreadsOK /\ HeldIntact
  BY DEF SlotsInv
<1>q. Queued \subseteq Slots /\ Elements(handoff_queue) \subseteq Queued /\ scheduled \subseteq Queued
  BY <1>t, ElementsType DEF Queued, TypeOK
<1> USE DEF vars, capture_vars, drain_vars
<1>1. CASE PushRefused \/ CaptureExits \/ DrainCheck \/ DrainReadClock \/ Start \/ Stop
           \/ StopJoined \/ StopReturns \/ Tick \/ Idle \/ UNCHANGED vars
  <2>1. /\ Queued' = Queued
        /\ UNCHANGED <<memory_pool, handoff_queue, before, capture_packet>>
    BY <1>1, <1>t DEF PushRefused, CaptureExits, DrainCheck, DrainReadClock, Start, Stop,
       StopJoined, StopReturns, Tick, Idle, Queued, ThreadsOK
  <2>2. capture_pc' \in {"copy", "handoff"} <=> capture_pc \in {"copy", "handoff"}
    BY <1>1, <1>t DEF PushRefused, CaptureExits, DrainCheck, DrainReadClock, Start, Stop,
       StopJoined, StopReturns, Tick, Idle, ThreadsOK
  <2>3. drain_pc' \in {"pop", "send"} =>
          \/ ready' = << >>
          \/ drain_pc \in {"pop", "send"} /\ UNCHANGED <<ready, scheduled>>
    BY <1>1, <1>t DEF PushRefused, CaptureExits, DrainCheck, DrainReadClock, Start, Stop,
       StopJoined, StopReturns, Tick, Idle, ThreadsOK
  <2>4. Held' = Held
    BY <2>1, <2>2, SameHeld
  <2> QED
    BY <2>1, <2>2, <2>3, <2>4, OrderUntouched
<1>2. ASSUME NEW id \in Ids, NEW release_at \in Times, PushTake(id, release_at)
      PROVE  OrderOK'
  <2>1. Queued' = Queued /\ UNCHANGED <<memory_pool, handoff_queue, scheduled, ready, drain_pc>>
    BY <1>2 DEF PushTake, Queued
  <2>2. before' = before \cup (HeldIds \X {id}) /\ id \notin HeldIds
    BY <1>2 DEF PushTake
  <2>3. capture_packet'.id = id /\ Held' = Held \cup {capture_packet'}
    BY <1>2, <2>1 DEF PushTake, Held
  <2>4. HeldIds' = HeldIds \cup {id}
    BY <2>3 DEF HeldIds
  <2>5. \A s \in Queued : memory_pool[s].id \in HeldIds
    BY DEF HeldIds, Held
  <2>6. \A s, t \in Queued : <<memory_pool[s].id, memory_pool[t].id>> \in before' =>
                             <<memory_pool[s].id, memory_pool[t].id>> \in before
    BY <2>2, <2>5
  <2>7. before' \subseteq HeldIds' \X HeldIds'
    BY <2>2, <2>4 DEF OrderOK
  <2>8. \A e \in before' : e[1] # capture_packet'.id
    BY <2>2, <2>3 DEF OrderOK
  <2>9. \A i \in 1 .. Len(handoff_queue) : handoff_queue[i] \in Queued
    BY <1>q DEF Elements
  <2> QED
    BY <1>q, <2>1, <2>6, <2>7, <2>8, <2>9 DEF OrderOK
<1>3. CASE PushCopy
  <2>1. capture_slot \notin Queued /\ Queued' = Queued
    BY <1>3, <1>t DEF PushCopy, SlotConservation, InHand, ThreadsOK, Queued, Slots, NoSlot
  <2>2. \A s \in Queued : memory_pool'[s] = memory_pool[s]
    BY <1>3, <1>t, <1>q, <2>1 DEF PushCopy, TypeOK
  <2>3. Held' = Held
    BY <1>3, <2>1, <2>2, SameHeld DEF PushCopy
  <2>4. HeldIds' = HeldIds
    BY <2>3 DEF HeldIds
  <2>5. UNCHANGED <<handoff_queue, scheduled, ready, drain_pc, before, capture_packet>>
    BY <1>3 DEF PushCopy
  <2>6. \A i \in 1 .. Len(handoff_queue) : handoff_queue[i] \in Queued
    BY <1>q DEF Elements
  <2>7. drain_pc \in {"pop", "send"} => Elements(ready) \subseteq Queued
    BY DEF Queued
  <2>8. capture_pc \in {"copy", "handoff"}
    BY <1>3 DEF PushCopy
  <2> QED
    BY <1>q, <2>1, <2>2, <2>4, <2>5, <2>6, <2>7, <2>8 DEF OrderOK
<1>4. CASE PushHandoff
  <2> DEFINE n == Len(handoff_queue)
  <2>1. /\ n \in Nat /\ Len(handoff_queue') = n + 1
        /\ handoff_queue'[n + 1] = capture_slot
        /\ \A i \in 1 .. n : handoff_queue'[i] = handoff_queue[i]
        /\ Elements(handoff_queue') = Elements(handoff_queue) \cup {capture_slot}
    BY <1>4, <1>t, AppendElements DEF PushHandoff, TypeOK, ThreadsOK
  <2>2. /\ UNCHANGED <<memory_pool, scheduled, ready, drain_pc, before>>
        /\ Queued' = Queued \cup {capture_slot}
        /\ capture_pc' \notin {"copy", "handoff"}
    BY <1>4, <2>1 DEF PushHandoff, Queued
  <2>3. memory_pool[capture_slot] = capture_packet
    BY <1>4, <1>t DEF PushHandoff, HeldIntact
  <2>4. Held' = Held
    BY <1>4, <2>2, <2>3 DEF PushHandoff, Held
  <2>5. HeldIds' = HeldIds
    BY <2>4 DEF HeldIds
  <2>6. \A e \in before : e[1] # memory_pool[capture_slot].id
    BY <1>4, <2>3 DEF PushHandoff, OrderOK
  <2>7. ASSUME NEW i \in 1 .. n + 1, NEW j \in 1 .. n + 1,
               <<memory_pool[handoff_queue'[i]].id, memory_pool[handoff_queue'[j]].id>> \in before
        PROVE  i < j
    <3>1. i # n + 1
      BY <2>1, <2>6, <2>7
    <3>2. i \in 1 .. n
      BY <2>1, <3>1
    <3>3. CASE j = n + 1
      BY <2>1, <3>2, <3>3
    <3>4. CASE j # n + 1
      <4>1. j \in 1 .. n
        BY <2>1, <3>4
      <4>2. <<memory_pool[handoff_queue[i]].id, memory_pool[handoff_queue[j]].id>> \in before
        BY <2>1, <2>7, <3>2, <4>1
      <4> QED
        BY <3>2, <4>1, <4>2 DEF OrderOK
    <3> QED
      BY <3>3, <3>4
  <2>8. ASSUME NEW s \in Elements(handoff_queue'), NEW t \in Queued' \ Elements(handoff_queue')
        PROVE  <<memory_pool[s].id, memory_pool[t].id>> \notin before
    BY <2>1, <2>2, <2>6 DEF OrderOK
  <2> HIDE DEF n
  <2> QED
    BY <2>1, <2>2, <2>5, <2>7, <2>8 DEF OrderOK
<1>5. CASE DrainCollect
  <2> DEFINE h == Head(handoff_queue)
  <2>1. /\ handoff_queue # << >> /\ h = handoff_queue[1]
        /\ 1 \in 1 .. Len(handoff_queue) /\ Len(handoff_queue') = Len(handoff_queue) - 1
        /\ Len(handoff_queue) \in Nat
        /\ \A i \in 1 .. Len(handoff_queue') : handoff_queue'[i] = handoff_queue[i + 1]
    BY <1>5, <1>t DEF DrainCollect, TypeOK
  <2>2. /\ Elements(handoff_queue') = Elements(handoff_queue) \ {h} /\ h \in Elements(handoff_queue)
    BY <1>5, <1>t, TailElements DEF DrainCollect, TypeOK, SlotConservation
  <2>3. /\ UNCHANGED <<memory_pool, before, capture_pc, capture_packet>>
        /\ Queued' = Queued /\ drain_pc' = "collect"
    BY <1>5, <2>2 DEF DrainCollect, Queued
  <2>4. HeldIds' = HeldIds
    BY <2>3, SameHeld DEF HeldIds
  <2>5. ASSUME NEW i \in 1 .. Len(handoff_queue'), NEW j \in 1 .. Len(handoff_queue'),
               <<memory_pool[handoff_queue'[i]].id, memory_pool[handoff_queue'[j]].id>> \in before
        PROVE  i < j
    <3>1. <<memory_pool[handoff_queue[i + 1]].id, memory_pool[handoff_queue[j + 1]].id>> \in before
      BY <2>1, <2>5
    <3>2. i + 1 \in 1 .. Len(handoff_queue) /\ j + 1 \in 1 .. Len(handoff_queue)
      BY <2>1
    <3>3. i + 1 < j + 1
      BY <3>1, <3>2 DEF OrderOK
    <3> QED
      BY <3>3
  <2>6. ASSUME NEW s \in Elements(handoff_queue'), NEW t \in Queued \ Elements(handoff_queue'),
               <<memory_pool[s].id, memory_pool[t].id>> \in before
        PROVE  FALSE
    <3>1. PICK i \in 1 .. Len(handoff_queue') : s = handoff_queue'[i]
      BY DEF Elements
    <3>2. i + 1 \in 1 .. Len(handoff_queue) /\ s = handoff_queue[i + 1]
      BY <2>1, <3>1
    <3>3. CASE t = h
      <4>1. <<memory_pool[handoff_queue[i + 1]].id, memory_pool[handoff_queue[1]].id>> \in before
        BY <2>1, <2>6, <3>2, <3>3
      <4>2. i + 1 < 1
        BY <2>1, <3>2, <4>1 DEF OrderOK
      <4> QED
        BY <4>2
    <3>4. CASE t # h
      BY <2>2, <2>6, <3>4 DEF OrderOK
    <3> QED
      BY <3>3, <3>4
  <2> QED
    BY <2>3, <2>4, <2>5, <2>6 DEF OrderOK
<1>6. CASE DrainPop
  <2>1. PICK s \in scheduled :
          /\ IsTop(s)
          /\ scheduled' = scheduled \ {s}
          /\ ready' = Append(ready, s)
    BY <1>6 DEF DrainPop
  <2>2. Elements(ready') = Elements(ready) \cup {s}
    BY <1>t, <2>1, AppendElements DEF TypeOK
  <2>3. /\ UNCHANGED <<memory_pool, before, handoff_queue, capture_pc, capture_packet>>
        /\ Queued' = Queued /\ drain_pc = "pop"
    BY <1>6, <2>1, <2>2 DEF DrainPop, Queued
  <2>4. HeldIds' = HeldIds
    BY <2>3, SameHeld DEF HeldIds
  <2>5. \A u \in scheduled', t \in Elements(ready') :
          memory_pool[t].release_at <= memory_pool[u].release_at
    BY <2>1, <2>2, <2>3 DEF OrderOK, IsTop
  <2> QED
    BY <2>3, <2>4, <2>5 DEF OrderOK
<1>7. CASE DrainBatchReady \/ DrainRecycle
  <2>1. /\ Queued' = Queued
        /\ UNCHANGED <<memory_pool, handoff_queue, before, capture_pc, capture_packet>>
    <3>1. CASE DrainBatchReady
      BY <3>1, EmptyElements DEF DrainBatchReady, Queued
    <3>2. CASE DrainRecycle
      BY <3>2 DEF DrainRecycle, Queued
    <3> QED
      BY <1>7, <3>1, <3>2
  <2>2. drain_pc' \in {"pop", "send"} =>
          drain_pc \in {"pop", "send"} /\ UNCHANGED <<ready, scheduled>>
    BY <1>7 DEF DrainBatchReady, DrainRecycle
  <2>3. Held' = Held
    BY <2>1, SameHeld
  <2> QED
    BY <2>1, <2>2, <2>3, OrderUntouched
<1>8. CASE DrainSend
  <2> DEFINE gone == {memory_pool[s] : s \in Elements(ready)}
  <2>1. /\ UNCHANGED <<memory_pool, handoff_queue, scheduled, capture_pc, capture_packet>>
        /\ drain_pc' = "recycle"
    BY <1>8 DEF DrainSend
  <2>2. gone \subseteq Held /\ Held' = Held \ gone
    BY <1>8, <1>t, BatchLeaves
  <2>3. Forget({p.id : p \in gone})
    <3>1. {p.id : p \in gone} = {memory_pool[s].id : s \in Elements(ready)}
      OBVIOUS
    <3> QED
      BY <1>8, <3>1 DEF DrainSend
  <2>4. Queued' \subseteq Queued
    BY <2>1 DEF Queued
  <2>5. /\ Len(handoff_queue) \in Nat
        /\ \A i \in 1 .. Len(handoff_queue') : handoff_queue'[i] = handoff_queue[i + 0]
    BY <1>t, <2>1 DEF TypeOK
  <2> HIDE DEF gone
  <2>6. /\ Queued' \ Elements(handoff_queue') \subseteq Queued \ Elements(handoff_queue)
        /\ 0 + Len(handoff_queue') = Len(handoff_queue)
        /\ Len(handoff_queue') \in Nat /\ 0 \in Nat
        /\ Len(handoff_queue') <= Len(handoff_queue)
    BY <2>1, <2>4, <2>5
  <2> QED
    BY <1>t, <2>1, <2>2, <2>3, <2>4, <2>5, <2>6, OrderForgets
<1>9. CASE FlushHandoff
  <2> DEFINE gone == {memory_pool[Head(handoff_queue)]}
  <2>1. /\ Head(handoff_queue) \in Elements(handoff_queue)
        /\ Elements(handoff_queue') = Elements(handoff_queue) \ {Head(handoff_queue)}
        /\ Len(handoff_queue) \in Nat /\ Len(handoff_queue') = Len(handoff_queue) - 1
        /\ Len(handoff_queue') \in Nat
        /\ \A i \in 1 .. Len(handoff_queue') : handoff_queue'[i] = handoff_queue[i + 1]
    BY <1>9, <1>t, TailElements DEF FlushHandoff, TypeOK, SlotConservation
  <2>2. /\ UNCHANGED <<memory_pool, scheduled, drain_pc, ready, capture_pc, capture_packet>>
        /\ drain_pc = "exited" /\ capture_pc = "exited"
    BY <1>9, <1>t DEF FlushHandoff, ThreadsOK
  <2>3. /\ Head(handoff_queue) \in Queued /\ Queued' = Queued \ {Head(handoff_queue)}
        /\ Queued = Elements(handoff_queue) \cup scheduled
        /\ Queued' = Elements(handoff_queue') \cup scheduled
    BY <1>t, <2>1, <2>2 DEF Queued, SlotConservation
  <2>4. gone \subseteq Held /\ Held' = Held \ gone
    BY <1>t, <2>2, <2>3 DEF Held, HeldIntact
  <2>5. Forget({p.id : p \in gone})
    <3>1. {p.id : p \in gone} = {memory_pool[Head(handoff_queue)].id}
      OBVIOUS
    <3> QED
      BY <1>9, <3>1 DEF FlushHandoff
  <2>6. scheduled \cap Elements(handoff_queue) = {}
    BY <1>t DEF SlotConservation
  <2> HIDE DEF gone
  <2>7. /\ Queued' \subseteq Queued
        /\ Queued' \ Elements(handoff_queue') \subseteq Queued \ Elements(handoff_queue)
        /\ 1 + Len(handoff_queue') = Len(handoff_queue)
        /\ 1 \in Nat /\ Len(handoff_queue') <= Len(handoff_queue)
    BY <2>1, <2>3, <2>6
  <2> QED
    BY <1>t, <2>1, <2>2, <2>4, <2>5, <2>7, OrderForgets
<1>10. CASE FlushScheduled
  <2>1. PICK s \in scheduled : scheduled' = scheduled \ {s} /\ Forget({memory_pool[s].id})
    BY <1>10 DEF FlushScheduled
  <2> DEFINE gone == {memory_pool[s]}
  <2>2. /\ UNCHANGED <<memory_pool, handoff_queue, drain_pc, ready, capture_pc, capture_packet>>
        /\ drain_pc = "exited" /\ capture_pc = "exited" /\ handoff_queue = << >>
    BY <1>10, <1>t DEF FlushScheduled, ThreadsOK
  <2>3. s \in Queued /\ Queued' = Queued \ {s}
    BY <2>1, <2>2, EmptyElements DEF Queued
  <2>4. gone \subseteq Held /\ Held' = Held \ gone
    BY <1>t, <2>2, <2>3 DEF Held, HeldIntact
  <2>5. Forget({p.id : p \in gone})
    <3>1. {p.id : p \in gone} = {memory_pool[s].id}
      OBVIOUS
    <3> QED
      BY <2>1, <3>1
  <2> HIDE DEF gone
  <2>6. /\ Queued' \subseteq Queued
        /\ Queued' \ Elements(handoff_queue') \subseteq Queued \ Elements(handoff_queue)
        /\ 0 + Len(handoff_queue') = Len(handoff_queue)
        /\ 0 \in Nat /\ Len(handoff_queue') <= Len(handoff_queue)
        /\ Len(handoff_queue') \in Nat /\ Len(handoff_queue) \in Nat
        /\ \A i \in 1 .. Len(handoff_queue') : handoff_queue'[i] = handoff_queue[i + 0]
    BY <2>2, <2>3, EmptySeq
  <2> QED
    BY <1>t, <2>2, <2>4, <2>5, <2>6, OrderForgets
<1> QED
  BY <1>1, <1>2, <1>3, <1>4, <1>5, <1>6, <1>7, <1>8, <1>9, <1>10 DEF Next, Capture, Drain, Owner

\* The whole invariant: the slots, and the order of the packets in them.
THEOREM Invariance == Spec => []IInv
<1>1. Init => OrderOK
  BY InitOrder
<1>2. SlotsInv /\ SlotsInv' /\ OrderOK /\ [Next]_vars => OrderOK'
  BY StepOrder
<1> QED
  BY <1>1, <1>2, SlotsInvariance, PTL DEF Spec, IInv

\* While the queue runs, no packet overtakes one that was pushed before it and
\* is due earlier, for every capacity and batch size: packets leave only with a
\* batch, the earlier one can then neither be behind in the ring nor, being due
\* earlier, in the heap, so it is in the batch.
THEOREM OrderIsKept == Spec => ReleaseOrder
<1> DEFINE Kept == ui_pc # "flushing" =>
                     \A p, q \in Held :
                       /\ <<p.id, q.id>> \in before
                       /\ p.release_at < q.release_at
                       /\ q \notin Held'
                       => p \notin Held'
<1>1. IInv /\ IInv' /\ [Next]_vars => [Kept]_vars
  <2> SUFFICES ASSUME IInv, IInv', Next, ui_pc # "flushing",
                      NEW p \in Held, NEW q \in Held, <<p.id, q.id>> \in before,
                      p.release_at < q.release_at, q \notin Held'
               PROVE  p \notin Held'
    OBVIOUS
  <2>t. SlotsInv /\ SlotsInv' /\ TypeOK /\ SlotConservation /\ ThreadsOK /\ HeldIntact /\ OrderOK
    BY DEF IInv, SlotsInv
  <2>1. DrainSend
    BY <2>t, OnlyBatchesLeave
  <2> DEFINE batch == {memory_pool[s] : s \in Elements(ready)}
  <2>2. Held' = Held \ batch
    BY <2>1, <2>t, BatchLeaves
  <2>3. PICK t \in Elements(ready) : q = memory_pool[t]
    BY <2>2
  <2>4. drain_pc = "send" /\ Elements(ready) \subseteq Queued
    BY <2>1 DEF DrainSend, Queued
  <2>5. ~ (capture_pc \in {"copy", "handoff"} /\ p = capture_packet)
    BY <2>t DEF OrderOK
  <2>6. PICK s \in Queued : p = memory_pool[s]
    BY <2>5 DEF Held
  <2>7. s \notin Elements(handoff_queue)
    <3>1. t \in Queued \ Elements(handoff_queue)
      BY <2>4, <2>t DEF SlotConservation
    <3> QED
      BY <3>1, <2>t, <2>3, <2>6 DEF OrderOK
  <2>8. s \notin scheduled
    <3> SUFFICES ASSUME s \in scheduled PROVE FALSE
      OBVIOUS
    <3>1. q.release_at <= p.release_at
      BY <2>t, <2>3, <2>4, <2>6 DEF OrderOK
    <3>2. p \in Packets /\ q \in Packets
      BY <2>t, <2>3, <2>4, <2>6 DEF HeldIntact
    <3>3. p.release_at \in Nat /\ q.release_at \in Nat
      BY <3>2 DEF Packets, Times
    <3> QED
      BY <3>1, <3>3
  <2>9. s \in Elements(ready)
    BY <2>6, <2>7, <2>8 DEF Queued
  <2> QED
    BY <2>2, <2>6, <2>9
<1> QED
  BY <1>1, Invariance, PTL DEF Spec, ReleaseOrder
=============================================================================
