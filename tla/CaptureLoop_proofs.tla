------------------------- MODULE CaptureLoop_proofs -------------------------
(***************************************************************************)
(* Proofs about CaptureLoop for every batch size, pool size and number of  *)
(* duplicates, and however many packets arrive.                            *)
(***************************************************************************)
EXTENDS CaptureLoop, SequenceTheorems, TLAPS

-----------------------------------------------------------------------------
(* Sequences of packets *)

\* What RecvBatch takes from the driver, and what it leaves there.
LEMMA Split ==
  ASSUME NEW q \in Seq(Numbers), NEW k \in 1 .. BatchSize, k <= Len(q)
  PROVE  /\ SubSeq(q, 1, k) \in Seq(Numbers) /\ Len(SubSeq(q, 1, k)) = k
         /\ SubSeq(q, 1, k) # << >>
         /\ SubSeq(q, k + 1, Len(q)) \in Seq(Numbers)
  BY SizesAssumption

\* The packet in hand and those after it.
LEMMA HeadTail ==
  ASSUME NEW q \in Seq(Numbers), q # << >>
  PROVE  /\ Head(q) \in Numbers /\ Tail(q) \in Seq(Numbers)
         /\ Len(Tail(q)) = Len(q) - 1
         /\ Append(<< >>, Head(q)) \in Seq(Numbers)
  OBVIOUS

\* The packets of a sequence.
LEMMA ToSetType ==
  ASSUME NEW q \in Seq(Numbers)
  PROVE  ToSet(q) \subseteq Numbers
  BY DEF ToSet

\* A counter that is raised.
LEMMA CountedUp ==
  ASSUME NEW c \in Counts, NEW n \in Nat
  PROVE  /\ [c EXCEPT !.captured = @ + n] \in Counts
         /\ [c EXCEPT !.dropped = @ + n] \in Counts
         /\ [c EXCEPT !.duplicated = @ + n] \in Counts
         /\ [c EXCEPT !.oversized = @ + n] \in Counts
         /\ [c EXCEPT !.exhausted = @ + n] \in Counts
         /\ [c EXCEPT !.reinjected = @ + n] \in Counts
         /\ [c EXCEPT !.failures = @ + n] \in Counts
  BY DEF Counts

-----------------------------------------------------------------------------
(* The inductive invariant *)

\* It holds at the start.
LEMMA InitLoop == Init => LoopInv
<1> SUFFICES ASSUME Init PROVE LoopInv
  OBVIOUS
<1> USE BoundsAssumption, LimitsAssumption, SizesAssumption DEF Init
<1>1. TypeOK
  <2>1. counts \in Counts
    BY DEF Counts, NoCounts
  <2>2. << >> \in Seq(Numbers) /\ {} \subseteq Numbers
    OBVIOUS
  <2>3. /\ 0 \in 0 .. MaxPackets /\ 0 \in 0 .. MaxStarts /\ 0 \in 0 .. Tolerated + 1
        /\ 0 \in 0 .. MaxDuplicates + 1 /\ 0 \in 0 .. PoolSize /\ 0 + 0 <= PoolSize
    OBVIOUS
  <2> QED
    BY <2>1, <2>2, <2>3 DEF TypeOK
<1>2. ThreadsOK
  BY DEF ThreadsOK
<1>3. HandleOutlivesUsers
  BY DEF HandleOutlivesUsers, InHand
<1> QED
  BY <1>1, <1>2, <1>3 DEF LoopInv

\* Every step preserves it, one case for every action.
LEMMA StepLoop == LoopInv /\ [Next]_vars => LoopInv'
<1> SUFFICES ASSUME LoopInv, [Next]_vars PROVE LoopInv'
  OBVIOUS
<1> USE BoundsAssumption, LimitsAssumption, SizesAssumption
<1> USE DEF LoopInv, vars, driver_vars, ui_vars, delay_vars, history
<1>1. CASE Arrive
  <2>1. TypeOK'
    BY <1>1 DEF Arrive, TypeOK, Numbers
  <2>2. ThreadsOK'
    BY <1>1 DEF Arrive, TypeOK, ThreadsOK
  <2>3. HandleOutlivesUsers'
    BY <1>1 DEF Arrive, TypeOK, HandleOutlivesUsers, InHand
  <2> QED
    BY <2>1, <2>2, <2>3
<1>2. CASE CheckRunning
  <2>1. TypeOK'
    BY <1>2 DEF CheckRunning, TypeOK
  <2>2. ThreadsOK'
    BY <1>2 DEF CheckRunning, TypeOK, ThreadsOK
  <2>3. HandleOutlivesUsers'
    BY <1>2 DEF CheckRunning, TypeOK, HandleOutlivesUsers, InHand
  <2> QED
    BY <2>1, <2>2, <2>3
<1>3. CASE RecvBatch
  <2>1. PICK k \in 1 .. BatchSize :
          /\ k <= Len(driver_queue)
          /\ batch' = SubSeq(driver_queue, 1, k)
          /\ driver_queue' = SubSeq(driver_queue, k + 1, Len(driver_queue))
          /\ counts' = [counts EXCEPT !.captured = @ + k]
    BY <1>3 DEF RecvBatch
  <2>2. batch' \in Seq(Numbers) /\ batch' # << >> /\ driver_queue' \in Seq(Numbers)
    <3>1. driver_queue \in Seq(Numbers)
      BY DEF TypeOK
    <3> QED
      BY <2>1, <3>1, Split
  <2>3. handle # "invalid" /\ to_push = 0
    BY <1>3 DEF RecvBatch, TypeOK, HandleOutlivesUsers, ThreadsOK
  <2>4. TypeOK'
    <3>0. k \in Nat /\ counts \in Counts
      <4>1. k \in Nat
        OBVIOUS
      <4> QED
        BY <4>1 DEF TypeOK
    <3>1. counts' \in Counts
      BY <2>1, <3>0, CountedUp
    <3>2. 0 \in 0 .. Tolerated + 1 /\ << >> \in Seq(Numbers) /\ 0 \in Nat
      OBVIOUS
    <3> QED
      BY <1>3, <2>2, <3>1, <3>2 DEF RecvBatch, TypeOK
  <2>5. ThreadsOK'
    BY <1>3, <2>2, <2>3 DEF RecvBatch, TypeOK, ThreadsOK
  <2>6. HandleOutlivesUsers'
    BY <1>3, <2>3 DEF RecvBatch, HandleOutlivesUsers
  <2> QED
    BY <2>4, <2>5, <2>6
<1>4. CASE RecvNoData \/ RecvTerminal
  <2>1. TypeOK'
    BY <1>4 DEF RecvNoData, RecvTerminal, TypeOK
  <2>2. ThreadsOK'
    BY <1>4 DEF RecvNoData, RecvTerminal, TypeOK, ThreadsOK
  <2>3. HandleOutlivesUsers'
    BY <1>4 DEF RecvNoData, RecvTerminal, TypeOK, HandleOutlivesUsers, InHand
  <2> QED
    BY <2>1, <2>2, <2>3
<1>5. CASE RecvTransient
  <2>1. TypeOK'
    BY <1>5 DEF RecvTransient, TypeOK, ThreadsOK
  <2>2. ThreadsOK'
    BY <1>5 DEF RecvTransient, TypeOK, ThreadsOK
  <2>3. HandleOutlivesUsers'
    BY <1>5 DEF RecvTransient, TypeOK, HandleOutlivesUsers, InHand
  <2> QED
    BY <2>1, <2>2, <2>3
<1>6. CASE ParseFails
  <2>1. batch # << >> /\ handle # "invalid"
    BY <1>6 DEF ParseFails, ThreadsOK, HandleOutlivesUsers
  <2>2. TypeOK'
    BY <1>6, ToSetType DEF ParseFails, TypeOK
  <2>3. ThreadsOK'
    BY <1>6 DEF ParseFails, TypeOK, ThreadsOK
  <2>4. HandleOutlivesUsers'
    BY <1>6, <2>1 DEF ParseFails, HandleOutlivesUsers
  <2> QED
    BY <2>2, <2>3, <2>4
<1>7. ASSUME NEW targeted \in BOOLEAN, NEW fits \in BOOLEAN, LeaveAlone(targeted, fits)
      PROVE  LoopInv'
  <2>1. batch # << >> /\ handle # "invalid"
    BY <1>7 DEF LeaveAlone, ThreadsOK, HandleOutlivesUsers
  <2>2. Head(batch) \in Numbers /\ batch' \in Seq(Numbers)
    BY <1>7, <2>1, HeadTail DEF LeaveAlone, TypeOK
  <2>3. send_buf' \in Seq(Numbers) /\ bypassed' \subseteq Numbers
    <3>1. send_buf' \in Seq(Numbers)
      BY <1>7, <2>2 DEF LeaveAlone, TypeOK
    <3>2. bypassed' \subseteq Numbers
      BY <1>7, <2>2 DEF LeaveAlone, TypeOK
    <3> QED
      BY <3>1, <3>2
  <2>4. counts' \in Counts
    BY <1>7, CountedUp DEF LeaveAlone, TypeOK
  <2>5. TypeOK'
    BY <1>7, <2>2, <2>3, <2>4 DEF LeaveAlone, TypeOK, AfterPacket
  <2>6. ThreadsOK'
    BY <1>7 DEF LeaveAlone, TypeOK, ThreadsOK, AfterPacket
  <2>7. HandleOutlivesUsers'
    BY <1>7, <2>1 DEF LeaveAlone, HandleOutlivesUsers
  <2> QED
    BY <2>5, <2>6, <2>7
<1>8. CASE DropPacket
  <2>1. batch # << >> /\ handle # "invalid"
    BY <1>8 DEF DropPacket, ThreadsOK, HandleOutlivesUsers
  <2>2. batch' \in Seq(Numbers)
    BY <1>8, <2>1, HeadTail DEF DropPacket, TypeOK
  <2>3. TypeOK'
    BY <1>8, <2>2, CountedUp, 1 \in Nat DEF DropPacket, TypeOK, AfterPacket
  <2>4. ThreadsOK'
    BY <1>8 DEF DropPacket, TypeOK, ThreadsOK, AfterPacket
  <2>5. HandleOutlivesUsers'
    BY <1>8, <2>1 DEF DropPacket, HandleOutlivesUsers
  <2> QED
    BY <2>3, <2>4, <2>5
<1>9. ASSUME NEW immediate \in 0 .. MaxDuplicates + 1, NEW scheduled \in 0 .. MaxDuplicates + 1,
             EmitPacket(immediate, scheduled)
      PROVE  LoopInv'
  <2>1. batch # << >> /\ handle # "invalid"
    BY <1>9 DEF EmitPacket, ThreadsOK, HandleOutlivesUsers
  <2>2. Head(batch) \in Numbers /\ batch' \in Seq(Numbers)
    BY <1>9, <2>1, HeadTail DEF EmitPacket, TypeOK
  <2>3. send_buf' \in Seq(Numbers)
    <3>1. [c \in 1 .. immediate |-> Head(batch)] \in Seq(Numbers)
      BY <2>2
    <3> QED
      BY <1>9, <3>1 DEF EmitPacket, TypeOK
  <2>7. counts' \in Counts
    <3>1. immediate + scheduled - 1 \in Nat
      BY <1>9 DEF EmitPacket
    <3>2. counts \in Counts /\ counts.duplicated \in Nat
      BY DEF TypeOK, Counts
    <3>3. counts.duplicated + immediate + scheduled - 1 = counts.duplicated + (immediate + scheduled - 1)
      BY <3>2
    <3>4. counts' = [counts EXCEPT !.duplicated = @ + (immediate + scheduled - 1)]
      BY <1>9, <3>3 DEF EmitPacket
    <3> DEFINE extra == immediate + scheduled - 1
    <3>5. counts' = [counts EXCEPT !.duplicated = @ + extra] /\ extra \in Nat
      BY <3>1, <3>4
    <3> HIDE DEF extra
    <3> QED
      BY <3>2, <3>5, CountedUp
  <2>4. TypeOK'
    BY <1>9, <2>2, <2>3, <2>7 DEF EmitPacket, TypeOK, AfterPacket
  <2>5. ThreadsOK'
    <3>1. capture_pc = "parse" /\ to_push = 0 /\ scheduled \in Nat
      BY <1>9 DEF EmitPacket, ThreadsOK, TypeOK
    <3>2. /\ capture_pc' = "push" <=> to_push' > 0
          /\ capture_pc' = "parse" <=> batch' # << >> /\ to_push' = 0
          /\ capture_pc' \in {"push", "parse", "send"}
          /\ capture_pc' = "send" => batch' = << >>
      <4>1. /\ to_push' = scheduled
            /\ capture_pc' = IF scheduled > 0 THEN "push" ELSE AfterPacket(batch')
        BY <1>9, <3>1 DEF EmitPacket
      <4> QED
        BY <3>1, <4>1 DEF AfterPacket
    <3>3. UNCHANGED <<driver_vars, ui_vars, consecutive_failures, delay_vars, history>>
      BY <1>9 DEF EmitPacket
    <3> QED
      BY <3>1, <3>2, <3>3 DEF ThreadsOK
  <2>6. HandleOutlivesUsers'
    BY <1>9, <2>1 DEF EmitPacket, HandleOutlivesUsers
  <2> QED
    BY <2>4, <2>5, <2>6
<1>10. CASE PushDelayed
  <2>1. to_push > 0 /\ handle # "invalid" /\ delay_queue = "live"
    BY <1>10 DEF PushDelayed, ThreadsOK, HandleOutlivesUsers, TypeOK
  <2>5. counts' \in Counts
    BY <1>10, CountedUp, 1 \in Nat DEF PushDelayed, TypeOK
  <2>6. to_push' \in 0 .. MaxDuplicates + 1 /\ delayed' \in 0 .. PoolSize
            /\ delayed' + returning <= PoolSize
    <3>1. /\ to_push \in 0 .. MaxDuplicates + 1 /\ to_push' = to_push - 1
          /\ delayed \in 0 .. PoolSize /\ returning \in 0 .. PoolSize /\ returning' = returning
          /\ delayed + returning <= PoolSize
      BY <1>10 DEF PushDelayed, TypeOK
    <3>2. delayed' = delayed \/ (delayed + returning < PoolSize /\ delayed' = delayed + 1)
      <4>1. CASE delayed + returning < PoolSize
        BY <1>10, <4>1 DEF PushDelayed
      <4>2. CASE ~ (delayed + returning < PoolSize)
        BY <1>10, <4>2 DEF PushDelayed
      <4> QED
        BY <4>1, <4>2
    <3> QED
      BY <2>1, <3>1, <3>2
  <2>2. TypeOK'
    BY <1>10, <2>5, <2>6 DEF PushDelayed, TypeOK, AfterPacket
  <2>3. ThreadsOK'
    <3>1. capture_pc = "push" /\ to_push' \in Nat
      BY <1>10, <2>6 DEF PushDelayed
    <3>2. /\ capture_pc' = "push" <=> to_push' > 0
          /\ capture_pc' = "parse" <=> batch' # << >> /\ to_push' = 0
          /\ capture_pc' \in {"push", "parse", "send"}
          /\ capture_pc' = "send" => batch' = << >>
      <4>1. batch' = batch /\ capture_pc' = IF to_push' > 0 THEN "push" ELSE AfterPacket(batch)
        BY <1>10 DEF PushDelayed
      <4> QED
        BY <3>1, <4>1 DEF AfterPacket
    <3>3. UNCHANGED <<driver_vars, ui_vars, consecutive_failures, batch, send_buf,
                      delay_queue, returning, history>>
      BY <1>10 DEF PushDelayed
    <3> QED
      BY <2>1, <3>1, <3>2, <3>3 DEF ThreadsOK
  <2>4. HandleOutlivesUsers'
    BY <1>10, <2>1 DEF PushDelayed, HandleOutlivesUsers
  <2> QED
    BY <2>2, <2>3, <2>4
<1>11. ASSUME NEW ok \in BOOLEAN, SendBatch(ok)
       PROVE  LoopInv'
  <2>1. handle # "invalid"
    BY <1>11 DEF SendBatch, HandleOutlivesUsers
  <2>5. counts' \in Counts
    <3>1. Len(send_buf) \in Nat /\ counts \in Counts
      BY DEF TypeOK
    <3>2. /\ [counts EXCEPT !.reinjected = @ + Len(send_buf)] \in Counts
          /\ [counts EXCEPT !.failures = @ + Len(send_buf)] \in Counts
      BY <3>1, CountedUp
    <3> QED
      BY <1>11, <3>2 DEF SendBatch
  <2>2. TypeOK'
    <3>1. sent' \in Seq(Numbers)
      BY <1>11 DEF SendBatch, TypeOK
    <3>2. failed' \subseteq Numbers
      BY <1>11, ToSetType DEF SendBatch, TypeOK
    <3>3. send_buf' \in Seq(Numbers)
      BY <1>11 DEF SendBatch
    <3>4. capture_pc' = "check"
      BY <1>11 DEF SendBatch
    <3>5. UNCHANGED <<driver_vars, ui_vars, consecutive_failures, batch, to_push, delay_vars,
                      flushed, bypassed, streak>>
      BY <1>11 DEF SendBatch
    <3> QED
      BY <2>5, <3>1, <3>2, <3>3, <3>4, <3>5 DEF TypeOK
  <2>3. ThreadsOK'
    BY <1>11 DEF SendBatch, TypeOK, ThreadsOK
  <2>4. HandleOutlivesUsers'
    BY <1>11, <2>1 DEF SendBatch, HandleOutlivesUsers
  <2> QED
    BY <2>2, <2>3, <2>4
<1>12. ASSUME NEW ok \in BOOLEAN, DrainSends(ok)
       PROVE  LoopInv'
  <2>1. PICK k \in 1 .. delayed :
          /\ delayed' = delayed - k
          /\ returning' = k
          /\ counts' = IF ok THEN [counts EXCEPT !.reinjected = @ + k]
                             ELSE [counts EXCEPT !.failures = @ + k]
    BY <1>12 DEF DrainSends
  <2>5. counts' \in Counts
    <3>1. k \in Nat /\ counts \in Counts
      BY DEF TypeOK
    <3>2. /\ [counts EXCEPT !.reinjected = @ + k] \in Counts
          /\ [counts EXCEPT !.failures = @ + k] \in Counts
      BY <3>1, CountedUp
    <3>3. CASE ok
      BY <2>1, <3>2, <3>3
    <3>4. CASE ~ ok
      BY <2>1, <3>2, <3>4
    <3> QED
      BY <3>3, <3>4
  <2>2. TypeOK'
    <3>1. /\ delayed' \in 0 .. PoolSize /\ returning' \in 0 .. PoolSize
          /\ delayed' + returning' <= PoolSize
      <4>1. delayed \in 0 .. PoolSize /\ k \in 1 .. delayed
        BY DEF TypeOK
      <4> QED
        BY <2>1, <4>1
    <3>2. UNCHANGED <<driver_vars, ui_vars, capture_pc, consecutive_failures, batch, send_buf,
                      to_push, delay_queue, history>>
      BY <1>12 DEF DrainSends
    <3> QED
      BY <2>5, <3>1, <3>2 DEF TypeOK
  <2>3. ThreadsOK'
    BY <1>12, <2>1 DEF DrainSends, TypeOK, ThreadsOK
  <2>4. HandleOutlivesUsers'
    BY <1>12 DEF DrainSends, HandleOutlivesUsers
  <2> QED
    BY <2>2, <2>3, <2>4
<1>13. CASE DrainReturns
  <2>1. TypeOK'
    BY <1>13 DEF DrainReturns, TypeOK
  <2>2. ThreadsOK'
    BY <1>13 DEF DrainReturns, TypeOK, ThreadsOK
  <2>3. HandleOutlivesUsers'
    BY <1>13 DEF DrainReturns, TypeOK, HandleOutlivesUsers, InHand
  <2> QED
    BY <2>1, <2>2, <2>3
<1>14. CASE Start
  <2>1. handle = "invalid" /\ batch = << >> /\ send_buf = << >> /\ to_push = 0
    BY <1>14 DEF Start, TypeOK, ThreadsOK, HandleOutlivesUsers
  <2>2. TypeOK'
    BY <1>14 DEF Start, TypeOK
  <2>3. ThreadsOK'
    BY <1>14, <2>1 DEF Start, TypeOK, ThreadsOK
  <2>4. HandleOutlivesUsers'
    BY <1>14 DEF Start, HandleOutlivesUsers
  <2> QED
    BY <2>2, <2>3, <2>4
<1>15. CASE StopBegins \/ StopShutsDown \/ StopJoins \/ StopDelayQueue \/ StopResets
  <2> USE DEF StopBegins, StopShutsDown, StopJoins, StopDelayQueue, StopResets
  <2>1. TypeOK'
    BY <1>15 DEF TypeOK
  <2>2. ThreadsOK'
    <3>1. CASE StopBegins \/ StopShutsDown
      BY <3>1 DEF TypeOK, ThreadsOK
    <3>2. CASE StopJoins
      BY <3>2 DEF TypeOK, ThreadsOK
    <3>3. CASE StopDelayQueue
      BY <3>3 DEF TypeOK, ThreadsOK
    <3>4. CASE StopResets
      BY <3>4 DEF TypeOK, ThreadsOK
    <3> QED
      BY <1>15, <3>1, <3>2, <3>3, <3>4
  <2>3. HandleOutlivesUsers'
    BY <1>15 DEF TypeOK, ThreadsOK, HandleOutlivesUsers
  <2> QED
    BY <2>1, <2>2, <2>3
<1>16. ASSUME NEW ok \in BOOLEAN, FlushOne(ok)
       PROVE  LoopInv'
  <2>4. counts' \in Counts /\ flushed' \in Nat
    <3>1. counts' \in {counts, [counts EXCEPT !.failures = @ + 1]}
      BY <1>16 DEF FlushOne
    <3>2. counts \in Counts /\ 1 \in Nat
      BY DEF TypeOK
    <3>3. flushed' \in Nat
      <4>1. flushed \in Nat /\ flushed' = IF ok THEN flushed + 1 ELSE flushed
        BY <1>16 DEF FlushOne, TypeOK
      <4> QED
        BY <4>1
    <3> QED
      BY <3>1, <3>2, <3>3, CountedUp
  <2>5. delayed' \in 0 .. PoolSize /\ delayed' + returning <= PoolSize
    <3>1. /\ delayed \in 0 .. PoolSize /\ delayed > 0 /\ delayed' = delayed - 1
          /\ returning \in 0 .. PoolSize /\ delayed + returning <= PoolSize
      BY <1>16 DEF FlushOne, TypeOK
    <3> QED
      BY <3>1
  <2>1. TypeOK'
    BY <1>16, <2>4, <2>5 DEF FlushOne, TypeOK
  <2>2. ThreadsOK'
    BY <1>16 DEF FlushOne, TypeOK, ThreadsOK
  <2>3. HandleOutlivesUsers'
    BY <1>16 DEF FlushOne, HandleOutlivesUsers
  <2> QED
    BY <2>1, <2>2, <2>3
<1>17. CASE StopCloses
  <2>1. batch = << >> /\ send_buf = << >> /\ to_push = 0 /\ delayed = 0 /\ returning = 0
    BY <1>17 DEF StopCloses, TypeOK, ThreadsOK
  <2>2. TypeOK'
    BY <1>17 DEF StopCloses, TypeOK
  <2>3. ThreadsOK'
    BY <1>17 DEF StopCloses, TypeOK, ThreadsOK
  <2>4. HandleOutlivesUsers'
    BY <1>17, <2>1 DEF StopCloses, ThreadsOK, HandleOutlivesUsers, InHand
  <2> QED
    BY <2>2, <2>3, <2>4
<1>18. CASE UNCHANGED vars
  BY <1>18 DEF TypeOK, ThreadsOK, HandleOutlivesUsers, InHand
<1> QED
  BY <1>1, <1>2, <1>3, <1>4, <1>5, <1>6, <1>7, <1>8, <1>9, <1>10, <1>11, <1>12, <1>13,
     <1>14, <1>15, <1>16, <1>17, <1>18
     DEF Next, Capture, Progress, HandlePacket, Drain, Stopping, Done

\* The capture loop, the drain thread and Stop hold what their positions say, and
\* nobody uses the handle after Stop closed it.
THEOREM LoopInvariance == Spec => []LoopInv
<1> QED
  BY InitLoop, StepLoop, PTL DEF Spec

\* Whatever order the user and the driver choose, the handle is closed after its
\* last use by the capture loop, the drain thread and the flush.
THEOREM HandleIsClosedLast == Spec => []HandleOutlivesUsers
<1> QED
  BY LoopInvariance, PTL DEF LoopInv

-----------------------------------------------------------------------------
(* The delay queue as the loop uses it *)

\* Every step is one that DelayPool allows, or none of its.
LEMMA StepPool == LoopInv /\ [Next]_vars => [Pool!Next]_(Pool!vars)
<1> SUFFICES ASSUME LoopInv, [Next]_vars,
                    UNCHANGED <<delay_queue, delayed, returning, counts.exhausted>> => FALSE
             PROVE  Pool!Next
  BY DEF Pool!vars
<1> USE DEF LoopInv, vars, driver_vars, ui_vars, delay_vars, history
<1>1. CASE Start
  <2>1. delay_queue = "none"
    BY <1>1 DEF Start, ThreadsOK, HandleOutlivesUsers
  <2> QED
    BY <1>1, <2>1 DEF Start, Pool!Next, Pool!Open
<1>2. CASE PushDelayed
  <2>1. delay_queue = "live"
    BY <1>2 DEF PushDelayed, ThreadsOK, HandleOutlivesUsers, TypeOK
  <2>2. counts \in Counts
    BY DEF TypeOK
  <2>3. IF delayed + returning < PoolSize
          THEN delayed' = delayed + 1 /\ counts'.exhausted = counts.exhausted
          ELSE counts'.exhausted = counts.exhausted + 1 /\ delayed' = delayed
    <3>1. CASE delayed + returning < PoolSize
      BY <1>2, <3>1 DEF PushDelayed
    <3>2. CASE ~ (delayed + returning < PoolSize)
      BY <1>2, <2>2, <3>2 DEF PushDelayed, Counts
    <3> QED
      BY <3>1, <3>2
  <2>4. UNCHANGED <<delay_queue, returning>>
    BY <1>2 DEF PushDelayed
  <2> QED
    BY <2>1, <2>3, <2>4 DEF Pool!Next, Pool!Push
<1>3. ASSUME NEW ok \in BOOLEAN, DrainSends(ok)
      PROVE  Pool!Next
  <2>1. PICK k \in 1 .. delayed :
          /\ delayed' = delayed - k
          /\ returning' = k
          /\ counts' = IF ok THEN [counts EXCEPT !.reinjected = @ + k]
                             ELSE [counts EXCEPT !.failures = @ + k]
    BY <1>3 DEF DrainSends
  <2>2. counts'.exhausted = counts.exhausted
    BY <2>1 DEF TypeOK, Counts
  <2> QED
    BY <1>3, <2>1, <2>2 DEF DrainSends, Pool!Next, Pool!Send
<1>4. CASE DrainReturns
  BY <1>4 DEF DrainReturns, Pool!Next, Pool!Return
<1>5. CASE StopDelayQueue
  BY <1>5 DEF StopDelayQueue, Pool!Next, Pool!Close
<1>6. ASSUME NEW ok \in BOOLEAN, FlushOne(ok)
      PROVE  Pool!Next
  <2>1. counts'.exhausted = counts.exhausted
    BY <1>6 DEF FlushOne, TypeOK, Counts
  <2> QED
    BY <1>6, <2>1 DEF FlushOne, Pool!Next, Pool!Flush
<1>7. CASE StopResets
  BY <1>7 DEF StopResets, Pool!Next, Pool!Closed
<1>8. CASE Arrive \/ CheckRunning \/ RecvNoData \/ RecvTerminal \/ RecvTransient \/ ParseFails
             \/ StopBegins \/ StopShutsDown \/ StopJoins \/ StopCloses \/ UNCHANGED vars
  BY <1>8 DEF Arrive, CheckRunning, RecvNoData, RecvTerminal, RecvTransient, ParseFails,
              StopBegins, StopShutsDown, StopJoins, StopCloses
<1>9. CASE RecvBatch \/ DropPacket
  BY <1>9 DEF RecvBatch, DropPacket, TypeOK, Counts
<1>10. ASSUME NEW targeted \in BOOLEAN, NEW fits \in BOOLEAN, LeaveAlone(targeted, fits)
       PROVE  Pool!Next
  BY <1>10 DEF LeaveAlone, TypeOK, Counts
<1>11. ASSUME NEW immediate, NEW scheduled, EmitPacket(immediate, scheduled)
       PROVE  Pool!Next
  BY <1>11 DEF EmitPacket, TypeOK, Counts
<1>12. ASSUME NEW ok \in BOOLEAN, SendBatch(ok)
       PROVE  Pool!Next
  BY <1>12 DEF SendBatch, TypeOK, Counts
<1> QED
  BY <1>1, <1>2, <1>3, <1>4, <1>5, <1>6, <1>7, <1>8, <1>9, <1>10, <1>11, <1>12
     DEF Next, Capture, Progress, HandlePacket, Drain, Stopping, Done

\* The capture loop, the drain thread and Stop use the delay queue as DelayPool
\* allows, so what CaptureLoop leaves out of the queue is what DelayQueue adds.
THEOREM PoolIsUsedWell == Spec => UsesPool
<1>1. Init => Pool!Init
  BY DEF Init, NoCounts, Pool!Init
<1>2. LoopInv /\ [Next]_vars => [Pool!Next]_(Pool!vars)
  BY StepPool
<1> QED
  BY <1>1, <1>2, LoopInvariance, PTL DEF Spec, UsesPool, Pool!Spec

-----------------------------------------------------------------------------
(* When the loop gives up *)

\* The loop reports a dead driver only after a terminal error, or after more
\* failures in a row than it tolerates.
THEOREM FatalMeansDead == Spec => FatalOnlyWhenDead
<1>1. LoopInv /\ [Next]_vars
        => [capture_pc # "fatal" /\ capture_pc' = "fatal" => RecvTerminal \/ streak' > Tolerated]_vars
  <2> SUFFICES ASSUME LoopInv, Next, capture_pc # "fatal", capture_pc' = "fatal", ~ RecvTerminal
               PROVE  streak' > Tolerated
    OBVIOUS
  <2> USE DEF vars, driver_vars, ui_vars, delay_vars, history
  <2>1. RecvTransient
    BY DEF Next, Capture, Progress, HandlePacket, Drain, Stopping, Done, Arrive, CheckRunning,
           RecvBatch, RecvNoData, ParseFails, LeaveAlone, DropPacket, EmitPacket, PushDelayed,
           SendBatch, DrainSends, DrainReturns, Start, StopBegins, StopShutsDown, StopJoins,
           StopDelayQueue, FlushOne, StopResets, StopCloses, AfterPacket
  <2>2. streak' = consecutive_failures' /\ consecutive_failures' > Tolerated
    BY <2>1 DEF RecvTransient, LoopInv, ThreadsOK
  <2> QED
    BY <2>2
<1> QED
  BY <1>1, LoopInvariance, PTL DEF Spec, FatalOnlyWhenDead

-----------------------------------------------------------------------------
(* The counters *)

\* What was counted in and not yet counted out.
Open(c) == c.captured + c.duplicated
             - (c.dropped + c.oversized + c.exhausted + c.reinjected + c.failures)

\* What raising a counter does to it.
LEMMA OpenRaised ==
  ASSUME NEW c \in Counts, NEW n \in Nat
  PROVE  /\ Open(c) \in Int
         /\ Open([c EXCEPT !.captured = @ + n]) = Open(c) + n
         /\ Open([c EXCEPT !.duplicated = @ + n]) = Open(c) + n
         /\ Open([c EXCEPT !.dropped = @ + n]) = Open(c) - n
         /\ Open([c EXCEPT !.oversized = @ + n]) = Open(c) - n
         /\ Open([c EXCEPT !.exhausted = @ + n]) = Open(c) - n
         /\ Open([c EXCEPT !.reinjected = @ + n]) = Open(c) - n
         /\ Open([c EXCEPT !.failures = @ + n]) = Open(c) - n
  BY DEF Open, Counts

\* The property, with all that was counted on one side.
LEMMA Balanced ==
  ASSUME NEW c \in Counts, NEW f \in Nat, NEW d \in Nat, NEW b \in Nat, NEW s \in Nat, NEW t \in Nat
  PROVE  c.captured + c.duplicated =
           c.dropped + c.oversized + c.exhausted + c.reinjected + c.failures + f + d + (b + s + t)
         <=> Open(c) = f + d + b + s + t
<1>1. /\ c.captured \in Nat /\ c.dropped \in Nat /\ c.duplicated \in Nat /\ c.oversized \in Nat
      /\ c.exhausted \in Nat /\ c.reinjected \in Nat /\ c.failures \in Nat
  BY DEF Counts
<1>2. PICK in \in Nat : in = c.captured + c.duplicated
  BY <1>1
<1>3. PICK out \in Nat : out = c.dropped + c.oversized + c.exhausted + c.reinjected + c.failures
  BY <1>1
<1>4. Open(c) = in - out
  BY <1>1, <1>2, <1>3 DEF Open
<1>5. c.dropped + c.oversized + c.exhausted + c.reinjected + c.failures + f + d + (b + s + t)
        = out + (f + d + b + s + t)
  BY <1>1, <1>3
<1>6. in = out + (f + d + b + s + t) <=> in - out = f + d + b + s + t
  OBVIOUS
<1> QED
  BY <1>2, <1>4, <1>5, <1>6

\* What is held is a number.
LEMMA Numeric ==
  TypeOK => /\ counts \in Counts /\ flushed \in Nat /\ delayed \in Nat /\ to_push \in Nat
            /\ Len(batch) \in Nat /\ Len(send_buf) \in Nat
  BY LimitsAssumption, SizesAssumption DEF TypeOK

\* Every step keeps the balance.
LEMMA StepBalance == LoopInv /\ LoopInv' /\ CountersBalance /\ [Next]_vars => CountersBalance'
<1> SUFFICES ASSUME LoopInv, LoopInv', CountersBalance, [Next]_vars
             PROVE  CountersBalance'
  OBVIOUS
<1> SUFFICES Open(counts') = flushed' + delayed' + Len(batch') + Len(send_buf') + to_push'
  <2>1. /\ counts' \in Counts /\ flushed' \in Nat /\ delayed' \in Nat /\ to_push' \in Nat
        /\ Len(batch') \in Nat /\ Len(send_buf') \in Nat
    <3>1. TypeOK'
      BY DEF LoopInv
    <3>2. counts' \in Counts /\ flushed' \in Nat
      BY <3>1 DEF TypeOK
    <3>3. delayed' \in Nat /\ to_push' \in Nat
      BY <3>1, LimitsAssumption, SizesAssumption DEF TypeOK
    <3>4. Len(batch') \in Nat /\ Len(send_buf') \in Nat
      <4>1. batch' \in Seq(Numbers) /\ send_buf' \in Seq(Numbers)
        BY <3>1 DEF TypeOK
      <4> QED
        BY <4>1, LenProperties
    <3> QED
      BY <3>2, <3>3, <3>4
  <2>2. counts'.captured + counts'.duplicated =
          counts'.dropped + counts'.oversized + counts'.exhausted + counts'.reinjected
            + counts'.failures + flushed' + delayed' + (Len(batch') + Len(send_buf') + to_push')
    BY <2>1, Balanced, SMTT(30)
  <2> QED
    BY <2>2 DEF CountersBalance, InHand
<1> USE DEF driver_vars, ui_vars, delay_vars, history
<1>t. TypeOK /\ ThreadsOK
  BY DEF LoopInv
<1>n. /\ counts \in Counts /\ Open(counts) \in Int
      /\ flushed \in Nat /\ delayed \in Nat /\ to_push \in Nat
      /\ Len(batch) \in Nat /\ Len(send_buf) \in Nat
      /\ Open(counts) = flushed + delayed + Len(batch) + Len(send_buf) + to_push
  <2>1. /\ counts \in Counts /\ flushed \in Nat /\ delayed \in Nat /\ to_push \in Nat
        /\ Len(batch) \in Nat /\ Len(send_buf) \in Nat
    BY <1>t, Numeric
  <2>2. Open(counts) \in Int
    BY <2>1, OpenRaised, 0 \in Nat
  <2>3. Open(counts) = flushed + delayed + Len(batch) + Len(send_buf) + to_push
    BY <2>1, Balanced DEF CountersBalance, InHand
  <2> QED
    BY <2>1, <2>2, <2>3
<1>1. CASE Arrive \/ CheckRunning \/ RecvNoData \/ RecvTerminal \/ RecvTransient
             \/ DrainReturns \/ Start \/ StopBegins \/ StopShutsDown \/ StopJoins
             \/ StopDelayQueue \/ StopResets \/ StopCloses \/ UNCHANGED vars
  <2>1. UNCHANGED <<counts, flushed, delayed, batch, send_buf, to_push>>
    BY <1>1 DEF Arrive, CheckRunning, RecvNoData, RecvTerminal, RecvTransient, DrainReturns, Start,
                StopBegins, StopShutsDown, StopJoins, StopDelayQueue, StopResets, StopCloses, vars
  <2> QED
    BY <1>n, <2>1
<1>2. CASE RecvBatch
  <2>1. PICK k \in 1 .. BatchSize :
          /\ k <= Len(driver_queue)
          /\ batch' = SubSeq(driver_queue, 1, k)
          /\ counts' = [counts EXCEPT !.captured = @ + k]
    BY <1>2 DEF RecvBatch
  <2>2. Len(batch') = k /\ k \in Nat
    BY <1>t, <2>1, Split DEF TypeOK
  <2>3. Len(batch) = 0 /\ Len(send_buf') = Len(send_buf) /\ UNCHANGED <<to_push, delayed, flushed>>
    BY <1>2, <1>t DEF RecvBatch, ThreadsOK
  <2>4. Open(counts') = Open(counts) + k
    BY <1>n, <2>1, <2>2, OpenRaised
  <2> QED
    BY <1>n, <2>2, <2>3, <2>4
<1>3. CASE ParseFails
  <2>1. Len(send_buf') = Len(send_buf) + Len(batch) /\ Len(batch') = 0
    BY <1>3, <1>t DEF ParseFails, TypeOK
  <2>2. UNCHANGED <<counts, to_push, delayed, flushed>>
    BY <1>3 DEF ParseFails
  <2> QED
    BY <1>n, <2>1, <2>2
<1>4. ASSUME NEW targeted \in BOOLEAN, NEW fits \in BOOLEAN, LeaveAlone(targeted, fits)
      PROVE  Open(counts') = flushed' + delayed' + Len(batch') + Len(send_buf') + to_push'
  <2>1. Len(batch') = Len(batch) - 1
    BY <1>4, <1>t, HeadTail DEF LeaveAlone, TypeOK, ThreadsOK
  <2>2. UNCHANGED <<to_push, delayed, flushed>>
    BY <1>4 DEF LeaveAlone
  <2>3. CASE fits
    <3>1. Len(send_buf') = Len(send_buf) + 1
      BY <1>4, <1>t, <2>3 DEF LeaveAlone, TypeOK
    <3>2. counts' = [counts EXCEPT !.oversized = @ + 0] /\ 0 \in Nat
      BY <1>4, <2>3 DEF LeaveAlone
    <3>3. Open(counts') = Open(counts) - 0
      BY <1>n, <3>2, OpenRaised
    <3> QED
      BY <1>n, <2>1, <2>2, <3>1, <3>3
  <2>4. CASE ~ fits
    <3>1. send_buf' = send_buf
      BY <1>4, <2>4 DEF LeaveAlone
    <3>2. counts' = [counts EXCEPT !.oversized = @ + 1] /\ 1 \in Nat
      BY <1>4, <2>4 DEF LeaveAlone
    <3>3. Open(counts') = Open(counts) - 1
      BY <1>n, <3>2, OpenRaised
    <3> QED
      BY <1>n, <2>1, <2>2, <3>1, <3>3
  <2> QED
    BY <2>3, <2>4
<1>5. CASE DropPacket
  <2>1. Len(batch') = Len(batch) - 1
    BY <1>5, <1>t, HeadTail DEF DropPacket, TypeOK, ThreadsOK
  <2>2. counts' = [counts EXCEPT !.dropped = @ + 1] /\ 1 \in Nat
    BY <1>5 DEF DropPacket
  <2>3. Open(counts') = Open(counts) - 1
    BY <1>n, <2>2, OpenRaised
  <2>4. UNCHANGED <<send_buf, to_push, delayed, flushed>>
    BY <1>5 DEF DropPacket
  <2> QED
    BY <1>n, <2>1, <2>3, <2>4
<1>6. ASSUME NEW immediate \in 0 .. MaxDuplicates + 1, NEW scheduled \in 0 .. MaxDuplicates + 1,
             EmitPacket(immediate, scheduled)
      PROVE  Open(counts') = flushed' + delayed' + Len(batch') + Len(send_buf') + to_push'
  <2>1. batch # << >> /\ to_push = 0
    BY <1>6, <1>t DEF EmitPacket, ThreadsOK
  <2>2. Len(batch') = Len(batch) - 1 /\ Head(batch) \in Numbers
    BY <1>6, <1>t, <2>1, HeadTail DEF EmitPacket, TypeOK
  <2>3. Len(send_buf') = Len(send_buf) + immediate
    <3>1. /\ [c \in 1 .. immediate |-> Head(batch)] \in Seq(Numbers)
          /\ Len([c \in 1 .. immediate |-> Head(batch)]) = immediate
      BY <2>2
    <3> QED
      BY <1>6, <1>t, <3>1 DEF EmitPacket, TypeOK
  <2>4. to_push' = scheduled /\ UNCHANGED <<delayed, flushed>>
    BY <1>6 DEF EmitPacket
  <2>5. immediate \in Nat /\ scheduled \in Nat /\ immediate + scheduled - 1 \in Nat
    BY <1>6 DEF EmitPacket
  <2>6. Open(counts') = Open(counts) + (immediate + scheduled - 1)
    <3>1. counts.duplicated \in Nat
      BY <1>n DEF Counts
    <3>2. counts.duplicated + immediate + scheduled - 1 = counts.duplicated + (immediate + scheduled - 1)
      BY <2>5, <3>1
    <3>3. counts' = [counts EXCEPT !.duplicated = @ + (immediate + scheduled - 1)]
      BY <1>6, <3>2 DEF EmitPacket
    <3> QED
      BY <1>n, <2>5, <3>3, OpenRaised
  <2> QED
    BY <1>n, <2>1, <2>2, <2>3, <2>4, <2>5, <2>6
<1>7. CASE PushDelayed
  <2>1. UNCHANGED <<batch, send_buf, flushed>> /\ to_push' = to_push - 1
    BY <1>7 DEF PushDelayed
  <2>2. CASE delayed + returning < PoolSize
    <3>1. delayed' = delayed + 1 /\ counts' = counts
      BY <1>7, <2>2 DEF PushDelayed
    <3> QED
      BY <1>n, <2>1, <3>1
  <2>3. CASE ~ (delayed + returning < PoolSize)
    <3>1. delayed' = delayed /\ counts' = [counts EXCEPT !.exhausted = @ + 1] /\ 1 \in Nat
      BY <1>7, <2>3 DEF PushDelayed
    <3>2. Open(counts') = Open(counts) - 1
      BY <1>n, <3>1, OpenRaised
    <3> QED
      BY <1>n, <2>1, <3>1, <3>2
  <2> QED
    BY <2>2, <2>3
<1>8. ASSUME NEW ok \in BOOLEAN, SendBatch(ok)
      PROVE  Open(counts') = flushed' + delayed' + Len(batch') + Len(send_buf') + to_push'
  <2>1. Len(send_buf') = 0 /\ UNCHANGED <<batch, to_push, delayed, flushed>>
    BY <1>8 DEF SendBatch
  <2>2. counts' \in {[counts EXCEPT !.reinjected = @ + Len(send_buf)],
                     [counts EXCEPT !.failures = @ + Len(send_buf)]}
    BY <1>8 DEF SendBatch
  <2>3. Open(counts') = Open(counts) - Len(send_buf)
    BY <1>n, <2>2, OpenRaised
  <2> QED
    BY <1>n, <2>1, <2>3
<1>9. ASSUME NEW ok \in BOOLEAN, DrainSends(ok)
      PROVE  Open(counts') = flushed' + delayed' + Len(batch') + Len(send_buf') + to_push'
  <2>1. PICK k \in 1 .. delayed :
          /\ delayed' = delayed - k
          /\ counts' = IF ok THEN [counts EXCEPT !.reinjected = @ + k]
                             ELSE [counts EXCEPT !.failures = @ + k]
    BY <1>9 DEF DrainSends
  <2>2. UNCHANGED <<batch, send_buf, to_push, flushed>>
    BY <1>9 DEF DrainSends
  <2>3. counts' \in {[counts EXCEPT !.reinjected = @ + k], [counts EXCEPT !.failures = @ + k]}
    BY <2>1
  <2>4. Open(counts') = Open(counts) - k
    BY <1>n, <2>3, k \in Nat, OpenRaised
  <2> QED
    BY <1>n, <2>1, <2>2, <2>4
<1>10. ASSUME NEW ok \in BOOLEAN, FlushOne(ok)
       PROVE  Open(counts') = flushed' + delayed' + Len(batch') + Len(send_buf') + to_push'
  <2>1. delayed' = delayed - 1 /\ UNCHANGED <<batch, send_buf, to_push>>
    BY <1>10 DEF FlushOne
  <2>2. CASE ok
    <3>1. flushed' = flushed + 1 /\ counts' = counts
      BY <1>10, <2>2 DEF FlushOne
    <3> QED
      BY <1>n, <2>1, <3>1
  <2>3. CASE ~ ok
    <3>1. flushed' = flushed /\ counts' = [counts EXCEPT !.failures = @ + 1] /\ 1 \in Nat
      BY <1>10, <2>3 DEF FlushOne
    <3>2. Open(counts') = Open(counts) - 1
      BY <1>n, <3>1, OpenRaised
    <3> QED
      BY <1>n, <2>1, <3>1, <3>2
  <2> QED
    BY <2>2, <2>3
<1> QED
  BY <1>1, <1>2, <1>3, <1>4, <1>5, <1>6, <1>7, <1>8, <1>9, <1>10
     DEF Next, Capture, Progress, HandlePacket, Drain, Stopping, Done

\* Whatever fails, overflows or is stopped halfway, the counters account for
\* every captured packet and every copy made of one.
THEOREM CountersAlwaysBalance == Spec => []CountersBalance
<1>1. Init => CountersBalance
  BY DEF Init, NoCounts, CountersBalance, InHand
<1>2. LoopInv /\ LoopInv' /\ CountersBalance /\ [Next]_vars => CountersBalance'
  BY StepBalance
<1> QED
  BY <1>1, <1>2, LoopInvariance, PTL DEF Spec

-----------------------------------------------------------------------------
(* The line of packets *)

\* Two places of a concatenation, in their order.
LEMMA Pairs ==
  ASSUME NEW s \in Seq(Numbers), NEW t \in Seq(Numbers),
         NEW i \in DOMAIN (s \o t), NEW j \in DOMAIN (s \o t), i < j
  PROVE  \/ i \in DOMAIN s /\ j \in DOMAIN s /\ (s \o t)[i] = s[i] /\ (s \o t)[j] = s[j]
         \/ /\ i \in DOMAIN s /\ j - Len(s) \in DOMAIN t
            /\ (s \o t)[i] = s[i] /\ (s \o t)[j] = t[j - Len(s)]
         \/ /\ i - Len(s) \in DOMAIN t /\ j - Len(s) \in DOMAIN t
            /\ (s \o t)[i] = t[i - Len(s)] /\ (s \o t)[j] = t[j - Len(s)]
<1>1. /\ Len(s) \in Nat /\ Len(t) \in Nat /\ Len(s \o t) = Len(s) + Len(t)
      /\ DOMAIN s = 1 .. Len(s) /\ DOMAIN t = 1 .. Len(t) /\ DOMAIN (s \o t) = 1 .. Len(s) + Len(t)
  OBVIOUS
<1>2. \A k \in 1 .. Len(s) : (s \o t)[k] = s[k]
  OBVIOUS
<1>3. \A k \in 1 .. Len(s) + Len(t) : k > Len(s) => (s \o t)[k] = t[k - Len(s)] /\ k - Len(s) \in 1 .. Len(t)
  BY <1>1
<1> QED
  BY <1>1, <1>2, <1>3

\* Where the elements of the parts are in the whole.
LEMMA Places ==
  ASSUME NEW s \in Seq(Numbers), NEW t \in Seq(Numbers)
  PROVE  /\ \A i \in DOMAIN s : i \in DOMAIN (s \o t) /\ (s \o t)[i] = s[i]
         /\ \A i \in DOMAIN t : Len(s) + i \in DOMAIN (s \o t) /\ (s \o t)[Len(s) + i] = t[i]
         /\ ToSet(s \o t) = ToSet(s) \cup ToSet(t)
         /\ s \o t \in Seq(Numbers) /\ Len(s) \in Nat
         /\ DOMAIN s \subseteq Nat /\ DOMAIN t \subseteq Nat
         /\ \A i \in DOMAIN s : i <= Len(s)
         /\ \A i \in DOMAIN t : i >= 1
<1>1. /\ Len(s) \in Nat /\ Len(t) \in Nat /\ s \o t \in Seq(Numbers)
      /\ DOMAIN s = 1 .. Len(s) /\ DOMAIN t = 1 .. Len(t) /\ DOMAIN (s \o t) = 1 .. Len(s) + Len(t)
  OBVIOUS
<1>2. \A i \in 1 .. Len(s) : i \in 1 .. Len(s) + Len(t) /\ (s \o t)[i] = s[i]
  BY <1>1
<1>3. \A i \in 1 .. Len(t) : Len(s) + i \in 1 .. Len(s) + Len(t) /\ (s \o t)[Len(s) + i] = t[i]
  BY <1>1
<1>4. ToSet(s) \cup ToSet(t) \subseteq ToSet(s \o t)
  BY <1>1, <1>2, <1>3 DEF ToSet
<1>5. \A k \in 1 .. Len(s) + Len(t) :
        \/ k \in 1 .. Len(s) /\ (s \o t)[k] = s[k]
        \/ k - Len(s) \in 1 .. Len(t) /\ (s \o t)[k] = t[k - Len(s)]
  BY <1>1
<1>6. ToSet(s \o t) \subseteq ToSet(s) \cup ToSet(t)
  BY <1>1, <1>5 DEF ToSet
<1>7. /\ 1 .. Len(s) \subseteq Nat /\ 1 .. Len(t) \subseteq Nat
      /\ \A i \in 1 .. Len(s) : i <= Len(s)
      /\ \A i \in 1 .. Len(t) : i >= 1
  BY <1>1
<1> QED
  BY <1>1, <1>2, <1>3, <1>4, <1>6, <1>7

\* Packets are numbers.
LEMMA NumbersAreNat == Numbers \subseteq Nat
  BY DEF Numbers

\* The packets of a sequence can be compared.
LEMMA Comparable ==
  ASSUME NEW q \in Seq(Numbers), NEW i \in DOMAIN q
  PROVE  q[i] \in Nat
<1>1. q[i] \in Numbers
  OBVIOUS
<1> QED
  BY <1>1, NumbersAreNat

\* Where the parentheses are does not matter.
LEMMA Regroup ==
  ASSUME NEW s \in Seq(Numbers), NEW t \in Seq(Numbers), NEW u \in Seq(Numbers)
  PROVE  s \o (t \o u) = (s \o t) \o u
  OBVIOUS

\* The first packets u of the line are decided: those of `left` are left alone,
\* `out` leaves.  Whatever of them leaves, in order, the single file is kept.
LEMMA Decided ==
  ASSUME NEW gone \in Seq(Numbers), NEW alone \in SUBSET Numbers,
         NEW u \in Seq(Numbers), NEW v \in Seq(Numbers),
         SingleFile(gone, alone, u \o v),
         NEW out \in Seq(Numbers), NEW left, ToSet(out) \cup left \subseteq ToSet(u),
         \A i, j \in DOMAIN out :
           i < j => /\ out[i] <= out[j]
                    /\ out[i] \in left => out[i] # out[j]
  PROVE  SingleFile(gone \o out, alone \cup left, v)
<1>1. ToSet(u \o v) = ToSet(u) \cup ToSet(v)
  BY Places
<1>2. \A n \in ToSet(gone) \cup alone, m \in ToSet(u) \cup ToSet(v) : n < m
  BY <1>1 DEF SingleFile
<1>3. \A n \in ToSet(u), m \in ToSet(v) : n < m
  <2> SUFFICES ASSUME NEW n \in ToSet(u), NEW m \in ToSet(v) PROVE n < m
    OBVIOUS
  <2>1. PICK i \in DOMAIN u : n = u[i]
    BY DEF ToSet
  <2>2. PICK j \in DOMAIN v : m = v[j]
    BY DEF ToSet
  <2>3. /\ i \in DOMAIN (u \o v) /\ (u \o v)[i] = n
        /\ Len(u) + j \in DOMAIN (u \o v) /\ (u \o v)[Len(u) + j] = m
        /\ i \in Nat /\ j \in Nat /\ Len(u) \in Nat /\ i <= Len(u) /\ j >= 1
    BY <2>1, <2>2, Places
  <2>4. i < Len(u) + j
    BY <2>3
  <2> QED
    BY <2>3, <2>4 DEF SingleFile
<1>4. ToSet(gone \o out) = ToSet(gone) \cup ToSet(out)
  BY Places
<1>5. \A n \in ToSet(gone \o out) \cup (alone \cup left), m \in ToSet(v) : n < m
  BY <1>2, <1>3, <1>4
<1>6. ASSUME NEW i \in DOMAIN v, NEW j \in DOMAIN v, i < j
      PROVE  v[i] < v[j]
  <2>1. /\ Len(u) + i \in DOMAIN (u \o v) /\ (u \o v)[Len(u) + i] = v[i]
        /\ Len(u) + j \in DOMAIN (u \o v) /\ (u \o v)[Len(u) + j] = v[j]
        /\ i \in Nat /\ j \in Nat /\ Len(u) \in Nat
    BY Places
  <2>2. Len(u) + i < Len(u) + j
    BY <1>6, <2>1
  <2> QED
    BY <2>1, <2>2 DEF SingleFile
<1>7. ASSUME NEW i \in DOMAIN (gone \o out), NEW j \in DOMAIN (gone \o out), i < j
      PROVE  /\ (gone \o out)[i] <= (gone \o out)[j]
             /\ (gone \o out)[i] \in alone \cup left => (gone \o out)[i] # (gone \o out)[j]
  <2> DEFINE x == (gone \o out)[i]
             y == (gone \o out)[j]
  <2>0. /\ ToSet(gone) \subseteq Nat /\ ToSet(u) \subseteq Nat /\ alone \subseteq Nat
        /\ left \subseteq ToSet(u) /\ ToSet(out) \subseteq ToSet(u)
    BY ToSetType, NumbersAreNat
  <2>1. CASE i \in DOMAIN gone /\ j \in DOMAIN gone /\ x = gone[i] /\ y = gone[j]
    <3>1. x \in ToSet(gone) /\ y \in ToSet(gone)
      BY <2>1 DEF ToSet
    <3>2. x <= y /\ (x \in alone => x # y)
      BY <1>7, <2>1 DEF SingleFile
    <3>3. x \notin left
      BY <1>2, <2>0, <3>1
    <3> QED
      BY <3>2, <3>3
  <2>2. CASE i \in DOMAIN gone /\ j - Len(gone) \in DOMAIN out /\ x = gone[i] /\ y = out[j - Len(gone)]
    <3>1. x \in ToSet(gone) /\ y \in ToSet(u)
      BY <2>0, <2>2 DEF ToSet
    <3>2. x < y
      BY <1>2, <3>1
    <3>3. x \in Nat /\ y \in Nat
      BY <2>0, <3>1
    <3> QED
      BY <3>2, <3>3
  <2>3. CASE /\ i - Len(gone) \in DOMAIN out /\ j - Len(gone) \in DOMAIN out
             /\ x = out[i - Len(gone)] /\ y = out[j - Len(gone)]
    <3>1. x \in ToSet(u) /\ y \in ToSet(u)
      BY <2>0, <2>3 DEF ToSet
    <3>2. x \notin alone
      BY <1>2, <2>0, <3>1
    <3>3. i - Len(gone) < j - Len(gone)
      BY <1>7, Places
    <3>4. x <= y /\ (x \in left => x # y)
      BY <2>3, <3>3
    <3> QED
      BY <3>2, <3>4
  <2> QED
    BY <1>7, <2>1, <2>2, <2>3, Pairs
<1> QED
  BY <1>5, <1>6, <1>7 DEF SingleFile

\* The history and the line are sequences of packets.
LEMMA LineType ==
  ASSUME TypeOK
  PROVE  /\ sent \in Seq(Numbers) /\ send_buf \in Seq(Numbers) /\ batch \in Seq(Numbers)
         /\ driver_queue \in Seq(Numbers) /\ bypassed \in SUBSET Numbers
         /\ arrived \in Nat
         /\ sent \o send_buf \in Seq(Numbers) /\ batch \o driver_queue \in Seq(Numbers)
  BY DEF TypeOK

\* The head of the batch, or the whole of it, is decided: `out` goes to the send
\* buffer, `left` is left alone.
LEMMA LineAdvances ==
  ASSUME TypeOK, LineOK,
         NEW u \in Seq(Numbers), NEW b \in Seq(Numbers), batch = u \o b,
         NEW out \in Seq(Numbers), NEW left, ToSet(out) \cup left \subseteq ToSet(u),
         \A i, j \in DOMAIN out :
           i < j => /\ out[i] <= out[j]
                    /\ out[i] \in left => out[i] # out[j],
         batch' = b, send_buf' = send_buf \o out, bypassed' = bypassed \cup left,
         UNCHANGED <<sent, driver_queue, arrived>>
  PROVE  LineOK'
<1>t. /\ sent \in Seq(Numbers) /\ send_buf \in Seq(Numbers) /\ driver_queue \in Seq(Numbers)
      /\ bypassed \in SUBSET Numbers
      /\ sent \o send_buf \in Seq(Numbers) /\ batch \o driver_queue \in Seq(Numbers)
  BY LineType
<1>1. (sent \o send_buf)' = (sent \o send_buf) \o out
  <2>1. sent \o (send_buf \o out) = (sent \o send_buf) \o out
    <3>1. sent \in Seq(Numbers) /\ send_buf \in Seq(Numbers)
      BY <1>t
    <3> QED
      BY <3>1, Regroup, Zenon
  <2> QED
    BY <2>1
<1>2. batch \o driver_queue = u \o (b \o driver_queue) /\ (batch \o driver_queue)' = b \o driver_queue
  <2>1. u \o (b \o driver_queue) = (u \o b) \o driver_queue
    BY <1>t, Regroup
  <2> QED
    BY <2>1
<1>3. b \o driver_queue \in Seq(Numbers)
  BY <1>t
<1>4. SingleFile(sent \o send_buf, bypassed, u \o (b \o driver_queue))
  BY <1>2 DEF LineOK
<1>5. SingleFile((sent \o send_buf) \o out, bypassed \cup left, b \o driver_queue)
  BY <1>t, <1>3, <1>4, Decided
<1>6. /\ ToSet((sent \o send_buf) \o out) = ToSet(sent \o send_buf) \cup ToSet(out)
      /\ ToSet(u \o (b \o driver_queue)) = ToSet(u) \cup ToSet(b \o driver_queue)
  BY <1>t, <1>3, Places
<1>7. \A n \in ToSet((sent \o send_buf) \o out) \cup (bypassed \cup left) \cup ToSet(b \o driver_queue) :
        n <= arrived
  BY <1>2, <1>6 DEF LineOK
<1> QED
  BY <1>1, <1>2, <1>5, <1>7 DEF LineOK

\* What LineOK says of no packet waiting.
LEMMA NobodyWaits ==
  ASSUME NEW gone \in Seq(Numbers), NEW alone, NEW waiting, SingleFile(gone, alone, waiting)
  PROVE  SingleFile(gone, alone, << >>) /\ ToSet(<< >>) = {}
<1>1. DOMAIN << >> = {} /\ ToSet(<< >>) = {}
  BY DEF ToSet
<1> QED
  BY <1>1 DEF SingleFile

\* It holds at the start.
LEMMA InitLine == Init => LineOK
<1> SUFFICES ASSUME Init PROVE LineOK
  OBVIOUS
<1>1. << >> \o << >> = << >> /\ DOMAIN << >> = {} /\ ToSet(<< >>) = {}
  BY DEF ToSet
<1> QED
  BY <1>1 DEF Init, LineOK, SingleFile

\* Every step keeps the packets in single file.
LEMMA StepLine == LoopInv /\ LineOK /\ [Next]_vars => LineOK'
<1> SUFFICES ASSUME LoopInv, LineOK, [Next]_vars PROVE LineOK'
  OBVIOUS
<1>t. TypeOK /\ ThreadsOK /\ HandleOutlivesUsers
  BY DEF LoopInv
<1>s. /\ sent \in Seq(Numbers) /\ send_buf \in Seq(Numbers) /\ batch \in Seq(Numbers)
      /\ driver_queue \in Seq(Numbers) /\ bypassed \in SUBSET Numbers
      /\ arrived \in Nat
      /\ sent \o send_buf \in Seq(Numbers) /\ batch \o driver_queue \in Seq(Numbers)
  BY <1>t, LineType
<1> USE DEF vars, driver_vars, ui_vars, delay_vars, history
<1>1. CASE \/ CheckRunning \/ RecvNoData \/ RecvTerminal \/ RecvTransient \/ PushDelayed
           \/ Drain \/ StopBegins \/ StopShutsDown \/ StopJoins \/ StopDelayQueue
           \/ (\E ok \in BOOLEAN : FlushOne(ok)) \/ StopResets \/ Done \/ UNCHANGED vars
  <2>1. UNCHANGED <<sent, send_buf, bypassed, batch, driver_queue, arrived>>
    BY <1>1 DEF CheckRunning, RecvNoData, RecvTerminal, RecvTransient, PushDelayed,
       Drain, DrainSends, DrainReturns, StopBegins, StopShutsDown, StopJoins, StopDelayQueue,
       FlushOne, StopResets, Done
  <2> QED
    BY <2>1 DEF LineOK
<1>2. CASE Arrive
  <2> DEFINE waiting == batch \o driver_queue
             n == arrived + 1
  <2>1. /\ UNCHANGED <<sent, send_buf, bypassed, batch>>
        /\ arrived' = n /\ driver_queue' = Append(driver_queue, n) /\ n \in Numbers
    BY <1>2, <1>s, BoundsAssumption DEF Arrive, Numbers
  <2>2. (batch \o driver_queue)' = waiting \o <<n>>
    <3>1. Append(driver_queue, n) = driver_queue \o <<n>> /\ <<n>> \in Seq(Numbers)
      BY <1>s, <2>1, AppendIsConcat
    <3>2. batch \o (driver_queue \o <<n>>) = (batch \o driver_queue) \o <<n>>
      BY <1>s, <3>1, ConcatAssociative
    <3> QED
      BY <2>1, <3>1, <3>2
  <2>3. waiting \in Seq(Numbers) /\ <<n>> \in Seq(Numbers) /\ DOMAIN <<n>> = {1} /\ <<n>>[1] = n
    BY <1>s, <2>1
  <2>4. ToSet(<<n>>) = {n}
    BY <2>3 DEF ToSet
  <2>5. ToSet(waiting \o <<n>>) = ToSet(waiting) \cup {n}
    <3> HIDE DEF waiting, n
    <3>1. ToSet(waiting \o <<n>>) = ToSet(waiting) \cup ToSet(<<n>>)
      BY <2>3, Places
    <3> QED
      BY <2>4, <3>1
  <2>6. /\ ToSet(waiting) \subseteq Nat /\ ToSet(sent \o send_buf) \subseteq Nat /\ bypassed \subseteq Nat
        /\ \A m \in ToSet(sent \o send_buf) \cup bypassed \cup ToSet(waiting) : m <= arrived
    BY <1>s, ToSetType, NumbersAreNat DEF LineOK
  <2>7. \A m \in ToSet(sent \o send_buf) \cup bypassed \cup ToSet(waiting) : m < n
    <3> SUFFICES ASSUME NEW m \in ToSet(sent \o send_buf) \cup bypassed \cup ToSet(waiting)
                 PROVE  m < n
      OBVIOUS
    <3>1. m \in Nat /\ m <= arrived /\ arrived \in Nat
      BY <1>s, <2>6
    <3> QED
      BY <3>1
  <2>8. SingleFile(sent \o send_buf, bypassed, waiting)
    BY DEF LineOK
  <2>9. ASSUME NEW i \in DOMAIN (waiting \o <<n>>), NEW j \in DOMAIN (waiting \o <<n>>), i < j
        PROVE  (waiting \o <<n>>)[i] < (waiting \o <<n>>)[j]
    <3> DEFINE x == (waiting \o <<n>>)[i]
               y == (waiting \o <<n>>)[j]
    <3>1. CASE i \in DOMAIN waiting /\ j \in DOMAIN waiting /\ x = waiting[i] /\ y = waiting[j]
      BY <2>8, <2>9, <3>1 DEF SingleFile
    <3>2. CASE i \in DOMAIN waiting /\ x = waiting[i] /\ y = n
      <4>1. x \in ToSet(waiting)
        BY <3>2 DEF ToSet
      <4> QED
        BY <2>7, <3>2, <4>1
    <3>3. Len(waiting) \in Nat /\ i \in Nat /\ j \in Nat
      BY <2>3, Places
    <3>4. CASE i - Len(waiting) = 1 /\ j - Len(waiting) = 1
      BY <2>9, <3>3, <3>4
    <3> HIDE DEF x, y, waiting, n
    <3> QED
      BY <2>3, <2>9, <3>1, <3>2, <3>4, Pairs DEF x, y
  <2>10. SingleFile(sent \o send_buf, bypassed, waiting \o <<n>>)
    BY <2>5, <2>7, <2>8, <2>9 DEF SingleFile
  <2>11. \A m \in ToSet(sent \o send_buf) \cup bypassed \cup ToSet(waiting \o <<n>>) : m <= n
    <3> SUFFICES ASSUME NEW m \in ToSet(sent \o send_buf) \cup bypassed \cup ToSet(waiting), m # n
                 PROVE  m <= n
      BY <1>s, <2>5
    <3>1. m < n
      BY <2>7
    <3>2. m \in Nat
      BY <2>6
    <3>3. n \in Nat
      BY <1>s
    <3> QED
      BY <3>1, <3>2, <3>3
  <2> QED
    BY <2>1, <2>2, <2>10, <2>11 DEF LineOK
<1>3. CASE RecvBatch
  <2>1. PICK k \in 1 .. BatchSize :
          /\ k <= Len(driver_queue)
          /\ batch' = SubSeq(driver_queue, 1, k)
          /\ driver_queue' = SubSeq(driver_queue, k + 1, Len(driver_queue))
    BY <1>3 DEF RecvBatch
  <2>2. batch = << >> /\ send_buf = << >> /\ send_buf' = << >> /\ UNCHANGED <<sent, bypassed, arrived>>
    BY <1>3, <1>t DEF RecvBatch, ThreadsOK
  <2>3. SubSeq(driver_queue, 1, k) \o SubSeq(driver_queue, k + 1, Len(driver_queue))
          = SubSeq(driver_queue, 1, Len(driver_queue))
    <3>1. /\ k \in 1 .. Len(driver_queue) + 1 /\ Len(driver_queue) \in Nat /\ k \in Nat
          /\ 1 \in 1 .. Len(driver_queue) + 1
          /\ k \in 1 - 1 .. Len(driver_queue) /\ Len(driver_queue) \in k .. Len(driver_queue)
      BY <1>s, <2>1, SizesAssumption
    <3> QED
      BY <1>s, <3>1, ConcatAdjacentSubSeq
  <2>4. SubSeq(driver_queue, 1, Len(driver_queue)) = driver_queue
    BY <1>s, SubSeqFull
  <2>5. << >> \o driver_queue = driver_queue
    BY <1>s
  <2>6. (batch \o driver_queue)' = batch \o driver_queue
    BY <2>1, <2>2, <2>3, <2>4, <2>5
  <2> QED
    BY <2>2, <2>6 DEF LineOK
<1>4. CASE ParseFails
  <2>1. /\ batch' = << >> /\ send_buf' = send_buf \o batch
        /\ bypassed' = bypassed \cup ToSet(batch)
        /\ UNCHANGED <<sent, driver_queue, arrived>>
    BY <1>4 DEF ParseFails
  <2>2. batch = batch \o << >> /\ << >> \in Seq(Numbers)
    BY <1>s
  <2>3. ASSUME NEW i \in DOMAIN batch, NEW j \in DOMAIN batch, i < j
        PROVE  batch[i] <= batch[j] /\ batch[i] # batch[j]
    <3>1. /\ i \in DOMAIN (batch \o driver_queue) /\ (batch \o driver_queue)[i] = batch[i]
          /\ j \in DOMAIN (batch \o driver_queue) /\ (batch \o driver_queue)[j] = batch[j]
      BY <1>s, Places
    <3>2. batch[i] < batch[j]
      BY <2>3, <3>1 DEF LineOK, SingleFile
    <3>3. batch[i] \in Nat /\ batch[j] \in Nat
      BY <1>s, Comparable
    <3> QED
      BY <3>2, <3>3
  <2>4. ToSet(batch) \cup ToSet(batch) \subseteq ToSet(batch)
    OBVIOUS
  <2> QED
    <3>1. \A i, j \in DOMAIN batch :
            i < j => batch[i] <= batch[j] /\ (batch[i] \in ToSet(batch) => batch[i] # batch[j])
      BY <2>3
    <3> HIDE DEF LineOK
    <3> QED
      BY <1>s, <1>t, <2>1, <2>2, <2>4, <3>1, LineAdvances
<1>5. ASSUME batch # << >>
      PROVE  /\ <<Head(batch)>> \in Seq(Numbers) /\ Tail(batch) \in Seq(Numbers)
             /\ batch = <<Head(batch)>> \o Tail(batch)
             /\ ToSet(<<Head(batch)>>) = {Head(batch)}
  <2>1. <<Head(batch)>> \in Seq(Numbers) /\ Tail(batch) \in Seq(Numbers)
    BY <1>s, <1>5
  <2>2. batch = <<Head(batch)>> \o Tail(batch)
    BY <1>s, <1>5
  <2>3. DOMAIN <<Head(batch)>> = {1} /\ <<Head(batch)>>[1] = Head(batch)
    OBVIOUS
  <2> QED
    BY <2>1, <2>2, <2>3 DEF ToSet
<1>6. ASSUME NEW n \in Nat, NEW left, left \subseteq {Head(batch)}, n > 1 => left = {}, batch # << >>,
             batch' = Tail(batch), bypassed' = bypassed \cup left,
             send_buf' = send_buf \o [c \in 1 .. n |-> Head(batch)],
             UNCHANGED <<sent, driver_queue, arrived>>
      PROVE  LineOK'
  <2> DEFINE copies == [c \in 1 .. n |-> Head(batch)]
  <2>1. Head(batch) \in Numbers
    BY <1>s, <1>6
  <2>2. copies \in Seq(Numbers) /\ DOMAIN copies = 1 .. n
    BY <2>1, SeqDef
  <2>3. ToSet(copies) \subseteq {Head(batch)}
    BY DEF ToSet
  <2>4. \A i, j \in DOMAIN copies :
          i < j => copies[i] <= copies[j] /\ (copies[i] \in left => copies[i] # copies[j])
    <3> SUFFICES ASSUME NEW i \in 1 .. n, NEW j \in 1 .. n, i < j
                 PROVE  copies[i] <= copies[j] /\ copies[i] \notin left
      OBVIOUS
    <3>1. n > 1
      OBVIOUS
    <3>2. Head(batch) \in Nat
      BY <2>1, NumbersAreNat
    <3> QED
      BY <1>6, <3>1, <3>2
  <2> HIDE DEF copies
  <2>5. send_buf' = send_buf \o copies
    BY <1>6 DEF copies
  <2>6. ToSet(copies) \cup left \subseteq ToSet(<<Head(batch)>>)
    BY <1>5, <1>6, <2>3
  <2> QED
    BY <1>t, <1>5, <1>6, <2>2, <2>4, <2>5, <2>6, LineAdvances
<1>7. ASSUME NEW targeted \in BOOLEAN, NEW fits \in BOOLEAN, LeaveAlone(targeted, fits)
      PROVE  LineOK'
  <2> DEFINE n == IF fits THEN 1 ELSE 0
             left == IF targeted THEN {} ELSE {Head(batch)}
  <2>1. /\ batch # << >> /\ batch' = Tail(batch) /\ UNCHANGED <<sent, driver_queue, arrived>>
        /\ send_buf' = IF fits THEN Append(send_buf, Head(batch)) ELSE send_buf
    BY <1>7, <1>t DEF LeaveAlone, ThreadsOK
  <2>2. send_buf' = send_buf \o [c \in 1 .. n |-> Head(batch)]
    <3>1. CASE fits
      <4>1. [c \in 1 .. 1 |-> Head(batch)] = <<Head(batch)>>
        OBVIOUS
      <4>2. Append(send_buf, Head(batch)) = send_buf \o <<Head(batch)>>
        <5>1. Head(batch) \in Numbers
          BY <1>s, <2>1
        <5> QED
          BY <1>s, <5>1, AppendIsConcat
      <4> QED
        BY <2>1, <3>1, <4>1, <4>2
    <3>2. CASE ~ fits
      <4>1. [c \in 1 .. 0 |-> Head(batch)] = << >>
        OBVIOUS
      <4>2. send_buf \o << >> = send_buf
        BY <1>s
      <4> QED
        BY <2>1, <3>2, <4>1, <4>2
    <3> QED
      BY <3>1, <3>2
  <2>3. bypassed' = bypassed \cup left
    BY <1>7 DEF LeaveAlone
  <2>4. n \in Nat /\ ~ (n > 1) /\ left \subseteq {Head(batch)}
    OBVIOUS
  <2> HIDE DEF n, left
  <2> QED
    BY <1>6, <2>1, <2>2, <2>3, <2>4
<1>8. CASE DropPacket
  <2>1. /\ batch # << >> /\ batch' = Tail(batch)
        /\ UNCHANGED <<sent, send_buf, bypassed, driver_queue, arrived>>
    BY <1>8, <1>t DEF DropPacket, ThreadsOK
  <2>2. send_buf' = send_buf \o [c \in 1 .. 0 |-> Head(batch)]
    <3>1. [c \in 1 .. 0 |-> Head(batch)] = << >>
      OBVIOUS
    <3>2. send_buf \o << >> = send_buf
      BY <1>s
    <3> QED
      BY <2>1, <3>1, <3>2
  <2>3. bypassed' = bypassed \cup {}
    BY <2>1
  <2>4. 0 \in Nat /\ ~ (0 > 1) /\ {} \subseteq {Head(batch)}
    OBVIOUS
  <2> QED
    BY <1>6, <2>1, <2>2, <2>3, <2>4
<1>9. ASSUME NEW immediate \in 0 .. MaxDuplicates + 1, NEW scheduled \in 0 .. MaxDuplicates + 1,
             EmitPacket(immediate, scheduled)
      PROVE  LineOK'
  <2>1. /\ batch # << >> /\ batch' = Tail(batch)
        /\ send_buf' = send_buf \o [c \in 1 .. immediate |-> Head(batch)]
        /\ UNCHANGED <<sent, bypassed, driver_queue, arrived>>
    BY <1>9, <1>t DEF EmitPacket, ThreadsOK
  <2>2. bypassed' = bypassed \cup {} /\ {} \subseteq {Head(batch)} /\ immediate \in Nat
    BY <2>1, LimitsAssumption
  <2> QED
    BY <1>6, <2>1, <2>2
<1>10. ASSUME NEW ok \in BOOLEAN, SendBatch(ok)
       PROVE  LineOK'
  <2>1. UNCHANGED <<bypassed, batch, driver_queue, arrived>> /\ send_buf' = << >>
    BY <1>10 DEF SendBatch
  <2>2. CASE ok
    <3>1. sent' \o << >> = sent \o send_buf
      BY <1>10, <1>s, <2>2 DEF SendBatch
    <3> QED
      BY <2>1, <3>1 DEF LineOK
  <2>3. CASE ~ ok
    <3>1. (sent \o send_buf)' = sent
      BY <1>10, <1>s, <2>3 DEF SendBatch
    <3>2. /\ \A i \in DOMAIN sent : i \in DOMAIN (sent \o send_buf) /\ (sent \o send_buf)[i] = sent[i]
          /\ ToSet(sent) \subseteq ToSet(sent \o send_buf)
      BY <1>s, Places
    <3>3. SingleFile(sent, bypassed, batch \o driver_queue)
      BY <3>2 DEF LineOK, SingleFile
    <3> QED
      BY <2>1, <3>1, <3>2, <3>3 DEF LineOK
  <2> QED
    BY <2>2, <2>3
<1>11. CASE Start \/ StopCloses
  <2>1. batch = << >> /\ driver_queue' = << >> /\ UNCHANGED <<sent, send_buf, bypassed, batch, arrived>>
    BY <1>11, <1>t DEF Start, StopCloses, ThreadsOK, HandleOutlivesUsers
  <2>2. (batch \o driver_queue)' = << >>
    BY <2>1
  <2>3. SingleFile(sent \o send_buf, bypassed, << >>) /\ ToSet(<< >>) = {}
    BY <1>s, NobodyWaits DEF LineOK
  <2> QED
    BY <2>1, <2>2, <2>3 DEF LineOK
<1> QED
  BY <1>1, <1>2, <1>3, <1>4, <1>7, <1>8, <1>9, <1>10, <1>11
     DEF Next, Capture, Progress, HandlePacket, Stopping

\* The whole invariant: the threads and the handle, and the line of packets.
THEOREM Invariance == Spec => []IInv
<1>1. Init => LineOK
  BY InitLine
<1>2. LoopInv /\ LineOK /\ [Next]_vars => LineOK'
  BY StepLine
<1> QED
  BY <1>1, <1>2, LoopInvariance, PTL DEF Spec, IInv

\* However batches fail, packets are copied or the loop is stopped and started
\* again, what leaves with its batch leaves in the order of its arrival, and what
\* was left alone leaves once.
THEOREM OrderIsKept == Spec => []OnceInOrder
<1>1. IInv => OnceInOrder
  <2> SUFFICES ASSUME IInv PROVE OnceInOrder
    OBVIOUS
  <2> DEFINE gone == sent \o send_buf
  <2>1. /\ gone \in Seq(Numbers) /\ batch \in Seq(Numbers) /\ driver_queue \in Seq(Numbers)
        /\ sent \in Seq(Numbers) /\ send_buf \in Seq(Numbers) /\ bypassed \in SUBSET Numbers
    BY LineType DEF IInv, LoopInv
  <2>2. SingleFile(gone, bypassed, batch \o driver_queue)
    BY DEF IInv, LineOK
  <2>3. \A i, j \in DOMAIN batch : i < j => batch[i] <= batch[j] /\ (batch[i] \in {} => batch[i] # batch[j])
    <3> SUFFICES ASSUME NEW i \in DOMAIN batch, NEW j \in DOMAIN batch, i < j
                 PROVE  batch[i] <= batch[j]
      OBVIOUS
    <3>1. /\ i \in DOMAIN (batch \o driver_queue) /\ (batch \o driver_queue)[i] = batch[i]
          /\ j \in DOMAIN (batch \o driver_queue) /\ (batch \o driver_queue)[j] = batch[j]
      BY <2>1, Places
    <3>2. batch[i] < batch[j]
      BY <2>2, <3>1 DEF SingleFile
    <3>3. batch[i] \in Nat /\ batch[j] \in Nat
      BY <2>1, Comparable
    <3> QED
      BY <3>2, <3>3
  <2>4. ToSet(batch) \cup {} \subseteq ToSet(batch)
    OBVIOUS
  <2> HIDE DEF gone
  <2>5. SingleFile(gone \o batch, bypassed \cup {}, driver_queue)
    BY <2>1, <2>2, <2>3, <2>4, Decided
  <2>6. bypassed \cup {} = bypassed
    OBVIOUS
  <2>7. DOMAIN (gone \o batch) = 1 .. Len(gone \o batch)
    BY <2>1
  <2> QED
    BY <2>5, <2>6, <2>7 DEF SingleFile, OnceInOrder, gone
<1> QED
  BY <1>1, Invariance, PTL
=============================================================================
