----------------------------- MODULE DelayQueue -----------------------------
(***************************************************************************)
(* core/DelayQueue: packets that the capture thread wants to hold back are *)
(* copied into a slot of a fixed pool and handed to a drain thread, which  *)
(* keeps them in a heap ordered by release time and gives them to          *)
(* WinDivert in batches once they are due.  Three threads touch the object:*)
(*                                                                         *)
(*   capture   Push                                                        *)
(*   drain     DrainLoop, started by Start                                 *)
(*   UI        Start, and Stop with its flush of what is still held        *)
(*                                                                         *)
(* Slots circulate free_queue -> capture's hand -> handoff_queue -> heap   *)
(* -> ready batch -> free_queue.  free_queue and handoff_queue are bounded *)
(* single-producer single-consumer rings (third_party/rigtorp): they are   *)
(* sequences here, and a push on a full one is not enabled (the ring spins).*)
(* One step of the model is one operation that the other threads can see.  *)
(***************************************************************************)
EXTENDS Naturals, Sequences, FiniteSets

CONSTANTS
  Capacity,      \* kDelayQueueCapacity: slots, and the length of both rings
  BatchSize,     \* kBatchSize of DrainLoop
  Ids,           \* packet identities; one is reused once its packet is gone
  NoId,          \* the identity of a slot that was never written
  MaxDelay,      \* bound: the longest delay asked for, in clock ticks
  Horizon,       \* bound: the clock stops here
  MaxExhausted   \* bound: packets refused for want of a slot

ASSUME CapacityAssumption == Capacity \in Nat \ {0}
ASSUME BatchSizeAssumption == BatchSize \in Nat \ {0}
ASSUME IdsAssumption == NoId \notin Ids
ASSUME ClockAssumption == MaxDelay \in Nat /\ Horizon \in Nat
ASSUME ExhaustedAssumption == MaxExhausted \in Nat

Slots == 1 .. Capacity
NoSlot == 0
Times == 0 .. Horizon
Packets == [id : Ids, release_at : Times]
NoPacket == [id |-> NoId, release_at |-> 0]   \* a value-initialised ScheduledPacket

VARIABLES
  now,              \* std::chrono::steady_clock
  memory_pool,      \* the contents of every slot; a freed slot keeps its packet
  free_queue,       \* ring of slots: drain (UI in Stop) -> capture
  handoff_queue,    \* ring of slots: capture -> drain (UI in Stop)
  scheduled,        \* scheduled_packets_, the heap: a set, popped by its minimum
  running,          \* running_
  capture_pc,       \* where the capture thread is in Push
  capture_slot,     \* Push's local slot
  capture_packet,   \* Push's argument
  drain_pc,         \* where the drain thread is in DrainLoop
  drain_now,        \* DrainLoop's local now
  ready,            \* ready_packets[0 .. send_count - 1], in order
  ui_pc,            \* where the owning thread is in Start / Stop
  pool_exhausted,   \* Counter::kPoolExhausted
  before            \* history: <<a, b>> when a was pushed before b, both still held

capture_vars == <<capture_pc, capture_slot, capture_packet>>
drain_vars == <<drain_pc, drain_now, ready>>
vars == <<now, memory_pool, free_queue, handoff_queue, scheduled, running,
          capture_vars, drain_vars, ui_pc, pool_exhausted, before>>

Elements(q) == {q[i] : i \in 1 .. Len(q)}

(***************************************************************************)
(* What the queue still owes to WinDivert.  A slot of the ready batch      *)
(* counts until the batch has been sent; after that it is only waiting to  *)
(* be returned to the pool.                                                *)
(***************************************************************************)
Queued == Elements(handoff_queue) \cup scheduled
            \cup (IF drain_pc \in {"pop", "send"} THEN Elements(ready) ELSE {})
Held == {memory_pool[s] : s \in Queued}
          \cup (IF capture_pc \in {"copy", "handoff"} THEN {capture_packet} ELSE {})
HeldIds == {p.id : p \in Held}

\* The heap's top: any slot with the least release time (ties are unordered).
IsTop(s) ==
  /\ s \in scheduled
  /\ \A t \in scheduled : memory_pool[s].release_at <= memory_pool[t].release_at

\* The history forgets the packets that have left.
Forget(ids) == before' = {e \in before : e[1] \notin ids /\ e[2] \notin ids}

Init ==
  /\ now = 0
  /\ memory_pool = [s \in Slots |-> NoPacket]
  /\ free_queue = [i \in 1 .. Capacity |-> i]
  /\ handoff_queue = << >>
  /\ scheduled = {}
  /\ running = FALSE
  /\ capture_pc = "unborn"
  /\ capture_slot = NoSlot
  /\ capture_packet = NoPacket
  /\ drain_pc = "unborn"
  /\ drain_now = 0
  /\ ready = << >>
  /\ ui_pc = "created"
  /\ pool_exhausted = 0
  /\ before = {}

-----------------------------------------------------------------------------
(* Capture thread *)

\* Push without a free slot: the packet is dropped and counted.
PushRefused ==
  /\ capture_pc = "idle"
  /\ free_queue = << >>
  /\ pool_exhausted < MaxExhausted
  /\ pool_exhausted' = pool_exhausted + 1
  /\ UNCHANGED <<now, memory_pool, free_queue, handoff_queue, scheduled, running,
                 capture_vars, drain_vars, ui_pc, before>>

\* Seeded fault: the slot is read with front() but never popped.
PushTakeNoPop(id, release_at) ==
  /\ capture_pc = "idle"
  /\ now < Horizon
  /\ free_queue # << >>
  /\ id \notin HeldIds
  /\ capture_slot' = Head(free_queue)
  /\ capture_packet' = [id |-> id, release_at |-> release_at]
  /\ capture_pc' = "copy"
  /\ before' = before \cup (HeldIds \X {id})
  /\ UNCHANGED <<now, memory_pool, free_queue, handoff_queue, scheduled, running,
                 drain_vars, ui_pc, pool_exhausted>>

\* Push: free_queue_.front() and pop().  The caller computed release_at from a
\* clock reading that may be older than this step, so it may be due already.
\* Bound: nothing is pushed in the last instant.  A clock that stands still would
\* let newer packets of the same release time be preferred for ever.
PushTake(id, release_at) ==
  /\ capture_pc = "idle"
  /\ now < Horizon
  /\ free_queue # << >>
  /\ id \notin HeldIds
  /\ capture_slot' = Head(free_queue)
  /\ free_queue' = Tail(free_queue)
  /\ capture_packet' = [id |-> id, release_at |-> release_at]
  /\ capture_pc' = "copy"
  /\ before' = before \cup (HeldIds \X {id})
  /\ UNCHANGED <<now, memory_pool, handoff_queue, scheduled, running,
                 drain_vars, ui_pc, pool_exhausted>>

\* Seeded fault: the slot is published without the packet.
PushCopyForgotten ==
  /\ capture_pc = "copy"
  /\ capture_pc' = "handoff"
  /\ UNCHANGED <<now, memory_pool, free_queue, handoff_queue, scheduled, running,
                 capture_slot, capture_packet, drain_vars, ui_pc, pool_exhausted, before>>

\* Push: *slot = packet
PushCopy ==
  /\ capture_pc = "copy"
  /\ memory_pool' = [memory_pool EXCEPT ![capture_slot] = capture_packet]
  /\ capture_pc' = "handoff"
  /\ UNCHANGED <<now, free_queue, handoff_queue, scheduled, running, capture_slot,
                 capture_packet, drain_vars, ui_pc, pool_exhausted, before>>

\* Push: handoff_queue_.push(slot)
PushHandoff ==
  /\ capture_pc = "handoff"
  /\ Len(handoff_queue) < Capacity
  /\ handoff_queue' = Append(handoff_queue, capture_slot)
  /\ capture_pc' = "idle"
  /\ capture_slot' = NoSlot
  /\ capture_packet' = NoPacket
  /\ UNCHANGED <<now, memory_pool, free_queue, scheduled, running, drain_vars,
                 ui_pc, pool_exhausted, before>>

\* PacketInterceptor's capture loop ends: it was told to, or receiving failed.
CaptureExits ==
  /\ capture_pc = "idle"
  /\ capture_pc' = "exited"
  /\ UNCHANGED <<now, memory_pool, free_queue, handoff_queue, scheduled, running,
                 capture_slot, capture_packet, drain_vars, ui_pc, pool_exhausted, before>>

Capture ==
  \/ PushRefused
  \/ \E id \in Ids, release_at \in Times :
       release_at <= now + MaxDelay /\ PushTake(id, release_at)
  \/ PushCopy \/ PushHandoff \/ CaptureExits

-----------------------------------------------------------------------------
(* Drain thread *)

\* while (running_.load())
DrainCheck ==
  /\ drain_pc = "check"
  /\ drain_pc' = IF running THEN "collect" ELSE "exited"
  /\ UNCHANGED <<now, memory_pool, free_queue, handoff_queue, scheduled, running,
                 capture_vars, drain_now, ready, ui_pc, pool_exhausted, before>>

\* One handed-over slot goes into the heap: front(), Push, pop().  The slot is
\* the drain thread's from front() on, so the three are one step.
DrainCollect ==
  /\ drain_pc = "collect"
  /\ handoff_queue # << >>
  /\ scheduled' = scheduled \cup {Head(handoff_queue)}
  /\ handoff_queue' = Tail(handoff_queue)
  /\ UNCHANGED <<now, memory_pool, free_queue, running, capture_vars, drain_vars,
                 ui_pc, pool_exhausted, before>>

\* Seeded fault: the clock was read once, before the loop.
DrainKeepClock ==
  /\ drain_pc = "collect"
  /\ handoff_queue = << >>
  /\ drain_now' = 0
  /\ drain_pc' = "pop"
  /\ UNCHANGED <<now, memory_pool, free_queue, handoff_queue, scheduled, running,
                 capture_vars, ready, ui_pc, pool_exhausted, before>>

\* The handoff ring was seen empty; now = steady_clock::now().
DrainReadClock ==
  /\ drain_pc = "collect"
  /\ handoff_queue = << >>
  /\ drain_now' = now
  /\ drain_pc' = "pop"
  /\ UNCHANGED <<now, memory_pool, free_queue, handoff_queue, scheduled, running,
                 capture_vars, ready, ui_pc, pool_exhausted, before>>

\* Seeded fault: a packet counts as due one tick early.
DueEarly(s) == memory_pool[s].release_at <= drain_now + 1

Due(s) == memory_pool[s].release_at <= drain_now

\* Seeded fault: any due slot is taken, the heap is not ordered.
DrainPopAny ==
  /\ drain_pc = "pop"
  /\ Len(ready) < BatchSize
  /\ \E s \in scheduled :
       /\ Due(s)
       /\ scheduled' = scheduled \ {s}
       /\ ready' = Append(ready, s)
  /\ UNCHANGED <<now, memory_pool, free_queue, handoff_queue, running, capture_vars,
                 drain_pc, drain_now, ui_pc, pool_exhausted, before>>

\* PopReady: one more due slot joins the batch.
DrainPop ==
  /\ drain_pc = "pop"
  /\ Len(ready) < BatchSize
  /\ \E s \in scheduled :
       /\ IsTop(s)
       /\ Due(s)
       /\ scheduled' = scheduled \ {s}
       /\ ready' = Append(ready, s)
  /\ UNCHANGED <<now, memory_pool, free_queue, handoff_queue, running, capture_vars,
                 drain_pc, drain_now, ui_pc, pool_exhausted, before>>

\* PopReady returns.  With an empty batch the loop starts again, perhaps after
\* a sleep of a millisecond that touches nothing.
DrainBatchReady ==
  /\ drain_pc = "pop"
  /\ Len(ready) = BatchSize \/ ~ \E s \in scheduled : Due(s)
  /\ drain_pc' = IF ready = << >> THEN "check" ELSE "send"
  /\ drain_now' = 0
  /\ UNCHANGED <<now, memory_pool, free_queue, handoff_queue, scheduled, running,
                 capture_vars, ready, ui_pc, pool_exhausted, before>>

\* Seeded fault: after a failed send the loop goes on without returning the slots.
DrainSendAbandons ==
  /\ drain_pc = "send"
  /\ Forget({memory_pool[s].id : s \in Elements(ready)})
  /\ \/ drain_pc' = "recycle" /\ UNCHANGED ready
     \/ drain_pc' = "check" /\ ready' = << >>
  /\ UNCHANGED <<now, memory_pool, free_queue, handoff_queue, scheduled, running,
                 capture_vars, drain_now, ui_pc, pool_exhausted>>

\* WinDivertSendEx takes the batch as one call.  When it fails the packets are
\* counted and given up: nothing is tried again.
DrainSend ==
  /\ drain_pc = "send"
  /\ drain_pc' = "recycle"
  /\ Forget({memory_pool[s].id : s \in Elements(ready)})
  /\ UNCHANGED <<now, memory_pool, free_queue, handoff_queue, scheduled, running,
                 capture_vars, drain_now, ready, ui_pc, pool_exhausted>>

\* free_queue_.push of the batch's slots, one at a time.
DrainRecycle ==
  /\ drain_pc = "recycle"
  /\ ready # << >>
  /\ Len(free_queue) < Capacity
  /\ free_queue' = Append(free_queue, Head(ready))
  /\ ready' = Tail(ready)
  /\ drain_pc' = IF Len(ready) = 1 THEN "check" ELSE "recycle"
  /\ UNCHANGED <<now, memory_pool, handoff_queue, scheduled, running, capture_vars,
                 drain_now, ui_pc, pool_exhausted, before>>

Drain == \/ DrainCheck \/ DrainCollect \/ DrainReadClock \/ DrainPop
         \/ DrainBatchReady \/ DrainSend \/ DrainRecycle

-----------------------------------------------------------------------------
(* The owner: PacketInterceptor::Start and Stop, on the UI thread *)

\* Start: running_ is set, the drain thread is created, and then the capture
\* thread is (PacketInterceptor::Start).
Start ==
  /\ ui_pc = "created"
  /\ running' = TRUE
  /\ drain_pc' = "check"
  /\ capture_pc' = "idle"
  /\ ui_pc' = "started"
  /\ UNCHANGED <<now, memory_pool, free_queue, handoff_queue, scheduled, capture_slot,
                 capture_packet, drain_now, ready, pool_exhausted, before>>

\* Seeded fault: running_ is not cleared.
StopStillRunning ==
  /\ ui_pc = "started"
  /\ capture_pc = "exited"
  /\ ui_pc' = "joining"
  /\ UNCHANGED <<now, memory_pool, free_queue, handoff_queue, scheduled, running,
                 capture_vars, drain_vars, pool_exhausted, before>>

\* Stop: PacketInterceptor::Stop joins the capture thread before it calls it.
Stop ==
  /\ ui_pc = "started"
  /\ capture_pc = "exited"
  /\ running' = FALSE
  /\ ui_pc' = "joining"
  /\ UNCHANGED <<now, memory_pool, free_queue, handoff_queue, scheduled,
                 capture_vars, drain_vars, pool_exhausted, before>>

\* Stop: thread_.join()
StopJoined ==
  /\ ui_pc = "joining"
  /\ drain_pc = "exited"
  /\ ui_pc' = "flushing"
  /\ UNCHANGED <<now, memory_pool, free_queue, handoff_queue, scheduled, running,
                 capture_vars, drain_vars, pool_exhausted, before>>

\* FlushPackets, first loop: what is still in the handoff ring, in its order.
FlushHandoff ==
  /\ ui_pc = "flushing"
  /\ handoff_queue # << >>
  /\ Len(free_queue) < Capacity
  /\ Forget({memory_pool[Head(handoff_queue)].id})
  /\ free_queue' = Append(free_queue, Head(handoff_queue))
  /\ handoff_queue' = Tail(handoff_queue)
  /\ UNCHANGED <<now, memory_pool, scheduled, running, capture_vars, drain_vars,
                 ui_pc, pool_exhausted>>

\* FlushPackets, DrainAll: the heap, from its top, whether due or not.
FlushScheduled ==
  /\ ui_pc = "flushing"
  /\ handoff_queue = << >>
  /\ Len(free_queue) < Capacity
  /\ \E s \in scheduled :
       /\ IsTop(s)
       /\ scheduled' = scheduled \ {s}
       /\ free_queue' = Append(free_queue, s)
       /\ Forget({memory_pool[s].id})
  /\ UNCHANGED <<now, memory_pool, handoff_queue, running, capture_vars, drain_vars,
                 ui_pc, pool_exhausted>>


\* FlushPackets and Stop return.
StopReturns ==
  /\ ui_pc = "flushing"
  /\ handoff_queue = << >>
  /\ scheduled = {}
  /\ ui_pc' = "stopped"
  /\ UNCHANGED <<now, memory_pool, free_queue, handoff_queue, scheduled, running,
                 capture_vars, drain_vars, pool_exhausted, before>>

Owner == Start \/ Stop \/ StopJoined \/ FlushHandoff \/ FlushScheduled \/ StopReturns

-----------------------------------------------------------------------------
Tick ==
  /\ now < Horizon
  /\ now' = now + 1
  /\ UNCHANGED <<memory_pool, free_queue, handoff_queue, scheduled, running,
                 capture_vars, drain_vars, ui_pc, pool_exhausted, before>>

\* After Stop the object is inert; the clock may have reached its bound.
Idle == ui_pc = "stopped" /\ UNCHANGED vars

Next == Capture \/ Drain \/ Owner \/ Tick \/ Idle

Spec == Init /\ [][Next]_vars

\* Every thread that is inside an operation goes on.  Nobody has to push, the
\* capture loop has to end and Stop to be called only by the user's choice.
Fairness ==
  /\ WF_vars(Drain)
  /\ WF_vars(PushCopy \/ PushHandoff)
  /\ WF_vars(StopJoined \/ FlushHandoff \/ FlushScheduled \/ StopReturns)
  /\ WF_vars(Tick)

FairSpec == Spec /\ Fairness

-----------------------------------------------------------------------------
(* Properties *)

\* Every variable stays in its range.
TypeOK ==
  /\ now \in Times
  /\ memory_pool \in [Slots -> Packets \cup {NoPacket}]
  /\ free_queue \in Seq(Slots)
  /\ handoff_queue \in Seq(Slots)
  /\ scheduled \subseteq Slots
  /\ running \in BOOLEAN
  /\ capture_pc \in {"unborn", "idle", "copy", "handoff", "exited"}
  /\ capture_slot \in Slots \cup {NoSlot}
  /\ capture_packet \in Packets \cup {NoPacket}
  /\ drain_pc \in {"unborn", "check", "collect", "pop", "send", "recycle", "exited"}
  /\ drain_now \in Times
  /\ ready \in Seq(Slots)
  /\ ui_pc \in {"created", "started", "joining", "flushing", "stopped"}
  /\ pool_exhausted \in 0 .. MaxExhausted
  /\ before \subseteq Ids \X Ids

\* No slot occurs twice in a queue.
NoRepeat(q) == \A i, j \in 1 .. Len(q) : q[i] = q[j] => i = j

InHand == {capture_slot} \ {NoSlot}

\* Every slot of the pool is in exactly one place, once: a slot is never lost,
\* and never written by the capture thread while another thread reads it.
SlotConservation ==
  /\ NoRepeat(free_queue) /\ NoRepeat(handoff_queue) /\ NoRepeat(ready)
  /\ Elements(free_queue) \cap Elements(handoff_queue) = {}
  /\ Elements(free_queue) \cap Elements(ready) = {}
  /\ Elements(handoff_queue) \cap Elements(ready) = {}
  /\ scheduled \cap (Elements(free_queue) \cup Elements(handoff_queue) \cup Elements(ready)) = {}
  /\ InHand \cap (Elements(free_queue) \cup Elements(handoff_queue)
                    \cup Elements(ready) \cup scheduled) = {}
  /\ Elements(free_queue) \cup Elements(handoff_queue) \cup Elements(ready)
       \cup scheduled \cup InHand = Slots

\* How the positions of the three threads and their locals belong together.
ThreadsOK ==
  /\ capture_pc \in {"copy", "handoff"} => capture_slot \in Slots /\ capture_packet \in Packets
  /\ capture_pc \notin {"copy", "handoff"} => capture_slot = NoSlot
  /\ drain_pc \in {"send", "recycle"} => ready # << >>
  /\ drain_pc \in {"unborn", "check", "collect", "exited"} => ready = << >>
  /\ drain_now <= now
  /\ ui_pc = "created" => drain_pc = "unborn" /\ capture_pc = "unborn"
  /\ ui_pc \in {"joining", "flushing", "stopped"} => capture_pc = "exited"
  /\ ui_pc \in {"flushing", "stopped"} => drain_pc = "exited"
  /\ ui_pc = "stopped" => handoff_queue = << >> /\ scheduled = {}

\* A batch is no longer than its buffers, and all of it is due.
BatchDue ==
  /\ Len(ready) <= BatchSize
  /\ drain_pc \in {"pop", "send"} =>
       \A s \in Elements(ready) : memory_pool[s].release_at <= now

\* The packets the queue owes are intact: a slot that is queued holds a real
\* packet, and no packet is in two slots (it would be reinjected twice).  What
\* the capture thread is publishing is what the drain thread will read.
HeldIntact ==
  /\ \A s \in Queued : memory_pool[s] \in Packets
  /\ \A s, t \in Queued : memory_pool[s].id = memory_pool[t].id => s = t
  /\ capture_pc \in {"copy", "handoff"} =>
       \A s \in Queued : memory_pool[s].id # capture_packet.id
  /\ capture_pc = "handoff" => memory_pool[capture_slot] = capture_packet

\* No thread ever finds the ring it pushes to full: Push never blocks the
\* capture loop, the drain thread and Stop never spin returning slots.
PushNeverSpins ==
  /\ capture_pc = "handoff" => Len(handoff_queue) < Capacity
  /\ drain_pc = "recycle" => Len(free_queue) < Capacity
  /\ ui_pc = "flushing" /\ handoff_queue # << >> => Len(free_queue) < Capacity
  /\ ui_pc = "flushing" /\ scheduled # {} => Len(free_queue) < Capacity

\* When Stop has returned nothing is held and every slot is back in the pool.
StoppedIsEmpty ==
  ui_pc = "stopped" => Held = {} /\ Elements(free_queue) = Slots

\* Until Stop flushes the queue, no packet overtakes one that was pushed before
\* it and is due strictly earlier, although the earlier one may still be in the
\* handoff ring when the later one's time comes.
ReleaseOrder ==
  [][ui_pc # "flushing" =>
       \A p, q \in Held :
         /\ <<p.id, q.id>> \in before
         /\ p.release_at < q.release_at
         /\ q \notin Held'
         => p \notin Held']_vars

\* What a packet pushed earlier may still be behind of.  Never behind a later one
\* in the capture thread's hand or in the ring; behind one that was collected
\* only in the heap, and behind one of the batch only if it is not due before it.
OrderOK ==
  /\ before \subseteq HeldIds \X HeldIds
  /\ capture_pc \in {"copy", "handoff"} => \A e \in before : e[1] # capture_packet.id
  /\ \A i, j \in 1 .. Len(handoff_queue) :
       <<memory_pool[handoff_queue[i]].id, memory_pool[handoff_queue[j]].id>> \in before => i < j
  /\ \A s \in Elements(handoff_queue), t \in Queued \ Elements(handoff_queue) :
       <<memory_pool[s].id, memory_pool[t].id>> \notin before
  /\ drain_pc \in {"pop", "send"} =>
       \A s \in scheduled, t \in Elements(ready) :
         memory_pool[t].release_at <= memory_pool[s].release_at

\* The inductive invariant from which the safety properties are proved: where
\* the slots are, and in which order the packets pass.
SlotsInv == TypeOK /\ SlotConservation /\ ThreadsOK /\ BatchDue /\ HeldIntact
IInv == SlotsInv /\ OrderOK

(***************************************************************************)
(* The refinement: the rings, the heap and the batch are one set of held   *)
(* packets, and the queue is open until the drain thread has been joined.  *)
(***************************************************************************)
Phase == CASE ui_pc = "flushing" -> "closing"
           [] ui_pc = "stopped" -> "closed"
           [] OTHER -> "open"

Service == INSTANCE DelayService WITH held <- Held, phase <- Phase

\* The queue does what DelayService promises: a packet is given to WinDivert
\* once, never before it is due, in batches of at most BatchSize, and none is
\* lost between Push and the flush of Stop.
ImplementsService == Service!Spec

\* The same, by the numbers of slots.
Returning == IF drain_pc = "recycle" THEN Len(ready) ELSE 0

PoolPhase == CASE ui_pc \in {"created", "stopped"} -> "none"
               [] ui_pc = "flushing" -> "flushing"
               [] OTHER -> "live"

Pool == INSTANCE DelayPool WITH
  phase <- PoolPhase,
  delayed <- Capacity - Len(free_queue) - Returning,
  returning <- Returning,
  refused <- pool_exhausted

\* The queue is the pool of slots that CaptureLoop takes it for: a packet is
\* refused only when each slot holds a packet or was just sent with its batch,
\* Stop leaves no slot behind, and a pool that has run dry gets slots back.
ImplementsPool == Pool!Spec /\ Pool!Recovers

\* Every packet that was accepted is given to WinDivert in the end, by the
\* drain thread or by the flush of Stop.
EventuallyReleased == \A id \in Ids : id \in HeldIds ~> id \notin HeldIds

\* A Stop that has been called returns.
StopTerminates == ui_pc = "joining" ~> ui_pc = "stopped"
=============================================================================
